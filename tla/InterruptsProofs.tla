-------------------------- MODULE InterruptsProofs --------------------------
(***************************************************************************)
(* That a handler is one step for the rest of the kernel, and that no line *)
(* is left shut or unread but the clock's by a divide error, for every     *)
(* keyboard, every number of bytes it holds back, every depth of nesting   *)
(* and whatever frequencies programs write.                                *)
(***************************************************************************)
EXTENDS Interrupts, SequenceTheorems, TLAPS

(***************************************************************************)
(* What NotReentered and InServiceIsRunning need besides each other: no    *)
(* handler runs before sti, only the clock's divides and has a second byte *)
(* to send, and once it was taken away it is not entered again.            *)
(***************************************************************************)
NoHandlerBeforeSti ==
    boot # "execute" => ~interrupts_on /\ ~lost /\ frames = <<>>

OneByteForMaster ==
    \A n \in DOMAIN frames :
       frames[n].handler = "keyboard_handler" =>
          frames[n].at \notin {"exception", "eoi_slave"}

LostOnce ==
    \A n \in DOMAIN frames :
       /\ frames[n].at = "exception" => lost
       /\ lost /\ frames[n].handler = "rtc_handler" =>
             frames[n].at \in {"exception", "iret"}

Stack == /\ NoHandlerBeforeSti /\ OneByteForMaster /\ LostOnce
         /\ InServiceIsRunning /\ NotReentered

(***************************************************************************)
(* What NeverDeaf needs: an edge and a handler about to read never wait    *)
(* for the same byte or tick, neither does without one, and the clock has  *)
(* no edge before rtc_init.                                                *)
(***************************************************************************)
OneReader ==
    /\ ~(KEYBOARD_IRQ \in irr /\ AboutTo("keyboard_handler"))
    /\ KEYBOARD_IRQ \in irr \/ AboutTo("keyboard_handler") => queue # <<>>
    /\ ~(RTC_IRQ \in irr /\ AboutTo("rtc_handler"))

ClockStarts ==
    /\ pie <=> boot \in {"sti", "execute"}
    /\ ~pie => RTC_IRQ \notin irr

IInv == TypeOK /\ Stack /\ OneReader /\ ClockStarts /\ NeverDeaf

USE KeyboardAssumption, FrequencyAssumption DEF KEYBOARD_IRQ, RTC_IRQ, Irqs

-----------------------------------------------------------------------------
(* The stack of handlers                                                   *)

LEMMA UpTo ==
    ASSUME NEW top \in Nat \ {0}
    PROVE  /\ \A n \in 1 .. top : n = top \/ n \in 1 .. top - 1
           /\ \A n \in 1 .. top - 1 : n \in 1 .. top
  OBVIOUS

LEMMA FrameType ==
    ASSUME NEW f \in Frame
    PROVE  /\ f.handler \in Handlers
           /\ f.at \in Places
           /\ f = [handler |-> f.handler, at |-> f.at]
  BY DEF Frame

LEMMA StackTypes ==
    ASSUME frames \in Seq(Frame)
    PROVE  /\ Len(frames) \in Nat
           /\ DOMAIN frames = 1 .. Len(frames)
           /\ \A n \in DOMAIN frames : frames[n] \in Frame
  OBVIOUS

\* A handler is entered.
LEMMA Entered ==
    ASSUME frames \in Seq(Frame), NEW f \in Frame, frames' = Append(frames, f)
    PROVE  /\ frames' \in Seq(Frame)
           /\ Len(frames') = Len(frames) + 1
           /\ DOMAIN frames' = 1 .. Len(frames) + 1
           /\ frames'[Len(frames) + 1] = f
           /\ \A n \in 1 .. Len(frames) : frames'[n] = frames[n]
  OBVIOUS

\* The running handler goes on.
LEMMA GoesOn ==
    ASSUME frames \in Seq(Frame), NEW h, NEW from, Runs(h, from),
           NEW at \in Places, Goto(at)
    PROVE  /\ frames' \in Seq(Frame)
           /\ Len(frames') = Len(frames) /\ Len(frames) \in Nat \ {0}
           /\ DOMAIN frames' = 1 .. Len(frames)
           /\ frames[Len(frames)] = [handler |-> h, at |-> from]
           /\ frames'[Len(frames)] = [handler |-> h, at |-> at]
           /\ \A n \in 1 .. Len(frames) - 1 : frames'[n] = frames[n]
<1>1. Len(frames) \in Nat \ {0} /\ DOMAIN frames = 1 .. Len(frames)
  BY DEF Runs
<1>2. frames[Len(frames)] = [handler |-> h, at |-> from]
  BY DEF Runs, Last
<1>3. frames[Len(frames)] \in Frame
  BY <1>1
<1>4. frames' = [frames EXCEPT ![Len(frames)] = [frames[Len(frames)] EXCEPT !.at = at]]
  BY DEF Goto
<1>5. [frames[Len(frames)] EXCEPT !.at = at] = [handler |-> h, at |-> at]
  BY <1>2
<1>6. [handler |-> h, at |-> at] \in Frame
  BY <1>2, <1>3 DEF Frame
<1> QED
  BY <1>1, <1>2, <1>4, <1>5, <1>6

\* The running handler ends.
LEMMA Ended ==
    ASSUME frames \in Seq(Frame), NEW h, NEW from, Runs(h, from),
           frames' = Front(frames)
    PROVE  /\ frames' \in Seq(Frame)
           /\ Len(frames') = Len(frames) - 1 /\ Len(frames) \in Nat \ {0}
           /\ DOMAIN frames' = 1 .. Len(frames) - 1
           /\ frames[Len(frames)] = [handler |-> h, at |-> from]
           /\ \A n \in 1 .. Len(frames) - 1 : frames'[n] = frames[n]
<1>1. Len(frames) \in Nat \ {0} /\ frames' = SubSeq(frames, 1, Len(frames) - 1)
  BY DEF Runs, Front
<1>2. frames[Len(frames)] = [handler |-> h, at |-> from]
  BY DEF Runs, Last
<1> DEFINE m == Len(frames) - 1
<1>3. m \in Nat
  BY <1>1
<1>4. \A n \in 1 .. m : frames[n] \in Frame
  BY <1>1, StackTypes
<1>5. /\ SubSeq(frames, 1, m) \in Seq(Frame)
      /\ Len(SubSeq(frames, 1, m)) = m
      /\ \A n \in 1 .. m : SubSeq(frames, 1, m)[n] = frames[n]
  <2> HIDE DEF m
  <2>1. \A k \in Int : k - 1 + 1 = k /\ 1 + k - 1 = k
    OBVIOUS
  <2>2. 1 \in Int /\ m \in Int /\ (1 <= m \/ m = 0)
    BY <1>3
  <2> QED
    BY <1>4, <2>1, <2>2, SubSeqProperties
<1> QED
  BY <1>1, <1>2, <1>3, <1>5

LEMMA StatusStays ==
    ASSUME NEW s \in Status, NEW key
    PROVE  special_button_status(s, key) \in Status
  BY DEF special_button_status, Status

-----------------------------------------------------------------------------
(* The stack of handlers and the controllers                               *)

LEMMA InitInv == Init => IInv
<1> SUFFICES ASSUME Init PROVE IInv
  OBVIOUS
<1>1. TypeOK
  <2>1. mask \in [master : SUBSET (0 .. 7), slave : SUBSET (0 .. 7)]
    BY DEF Init
  <2>2. status \in Status
    BY DEF Init, Status, Released
  <2>3. frames \in Seq(Frame) /\ queue \in Seq(Byte)
    BY DEF Init
  <2> QED
    BY <2>1, <2>2, <2>3 DEF Init, TypeOK, Calls
<1>2. Stack /\ OneReader /\ ClockStarts /\ NeverDeaf
  BY DEF Init, Stack, NoHandlerBeforeSti, OneByteForMaster, InServiceIsRunning,
     LostOnce, NotReentered, OneReader, ClockStarts, NeverDeaf, AboutTo
<1> QED
  BY <1>1, <1>2 DEF IInv

\* The lines a handler has yet to end, by the place it is at.
LEMMA PendingLines ==
    ASSUME NEW f \in Frame
    PROVE  /\ f.at \in {"exception", "iret"} => Pending(f) = {}
           /\ f.at = "eoi_slave" => Pending(f) = {RTC_IRQ}
           /\ f.at \in {"body", "eoi"} /\ f.handler = "keyboard_handler"
                => Pending(f) = {KEYBOARD_IRQ}
           /\ f.at \in {"body", "eoi"} /\ f.handler = "rtc_handler"
                => Pending(f) = {2, RTC_IRQ}
  BY DEF Pending, Frame, Handlers

\* Which line is pending tells whose handler it is and how far it got.
LEMMA PendingTells ==
    ASSUME NEW f \in Frame,
           f.handler = "keyboard_handler" => f.at \notin {"exception", "eoi_slave"}
    PROVE  /\ KEYBOARD_IRQ \in Pending(f) <=>
                f.handler = "keyboard_handler" /\ f.at # "iret"
           /\ RTC_IRQ \in Pending(f) <=>
                f.handler = "rtc_handler" /\ f.at \notin {"exception", "iret"}
           /\ 2 \in Pending(f) <=>
                f.handler = "rtc_handler" /\ f.at \in {"body", "eoi"}
  BY PendingLines DEF Frame, Handlers, Places

\* A handler that is let in finds only what it may interrupt.
LEMMA LetIn ==
    ASSUME TypeOK, Stack, NEW irq \in Irqs, PassesOn(irq)
    PROVE  \A n \in DOMAIN frames :
              frames[n].at # "iret" =>
                 irq = KEYBOARD_IRQ /\ frames[n].handler = "rtc_handler"
<1> SUFFICES ASSUME NEW n \in DOMAIN frames, frames[n].at # "iret"
             PROVE  irq = KEYBOARD_IRQ /\ frames[n].handler = "rtc_handler"
  OBVIOUS
<1>1. frames[n] \in Frame
  BY StackTypes DEF TypeOK
<1>2. /\ frames[n].handler = "keyboard_handler" =>
            frames[n].at \notin {"exception", "eoi_slave"}
      /\ frames[n].at = "exception" => lost
  BY DEF Stack, OneByteForMaster, LostOnce
<1>3. /\ frames[n].handler = "keyboard_handler" => KEYBOARD_IRQ \in isr
      /\ frames[n].handler = "rtc_handler" => RTC_IRQ \in isr
  <2>1. /\ frames[n].handler = "keyboard_handler" => KEYBOARD_IRQ \in Pending(frames[n])
        /\ frames[n].handler = "rtc_handler" =>
              lost \/ RTC_IRQ \in Pending(frames[n])
    BY <1>1, <1>2, PendingTells
  <2> QED
    BY <2>1 DEF Stack, InServiceIsRunning
<1>4. /\ irq = KEYBOARD_IRQ => KEYBOARD_IRQ \notin isr
      /\ irq = RTC_IRQ => KEYBOARD_IRQ \notin isr /\ RTC_IRQ \notin isr
  BY DEF PassesOn
<1>5. frames[n].handler \in {"keyboard_handler", "rtc_handler"}
  BY <1>1 DEF Frame, Handlers
<1> QED
  BY <1>3, <1>4, <1>5

-----------------------------------------------------------------------------
(* Each move of the stack keeps what is known of it                        *)

\* What a move of the stack must keep.
Stacked == OneByteForMaster /\ LostOnce /\ InServiceIsRunning /\ NotReentered

\* No step but those of handlers and the boot touches stack or controllers.
LEMMA StackStays ==
    ASSUME Stacked, UNCHANGED <<frames, isr, lost>>
    PROVE  Stacked'
  BY DEF Stacked, OneByteForMaster, LostOnce, InServiceIsRunning, NotReentered, Pending

\* Only the running handler has anything of its own to end.
LEMMA OwnLines ==
    ASSUME TypeOK, Stacked, NEW h, NEW from, Runs(h, from), from # "iret",
           NEW n \in 1 .. Len(frames) - 1
    PROVE  /\ frames[n] \in Frame
           /\ frames[n].handler = "keyboard_handler" =>
                 frames[n].at \notin {"exception", "eoi_slave"}
           /\ frames[n].handler = h => frames[n].at = "iret"
           /\ h = "rtc_handler" => frames[n].at = "iret"
<1>1. Len(frames) \in Nat \ {0} /\ frames[Len(frames)] = [handler |-> h, at |-> from]
  BY DEF TypeOK, Runs, Last
<1>2. frames[n] \in Frame
  BY <1>1, StackTypes DEF TypeOK
<1>3. frames[n].at # "iret" =>
        frames[n].handler = "rtc_handler" /\ h = "keyboard_handler"
  <2>1. Len(frames) \in n + 1 .. Len(frames)
    BY <1>1
  <2> QED
    BY <1>1, <2>1 DEF Stacked, NotReentered
<1>4. frames[n].handler = "keyboard_handler" =>
        frames[n].at \notin {"exception", "eoi_slave"}
  BY <1>1 DEF Stacked, OneByteForMaster
<1> QED
  BY <1>2, <1>3, <1>4

\* The running handler goes on to a place from which it has Pending's lines
\* left, and those it had before are ended.
LEMMA GoesOnStacked ==
    ASSUME TypeOK, Stacked, NEW h \in Handlers, NEW from, Runs(h, from),
           from \notin {"exception", "iret"},
           NEW at \in Places \ {"exception"}, Goto(at),
           UNCHANGED lost, at = "eoi_slave" => h = "rtc_handler",
           isr' = (isr \ Pending([handler |-> h, at |-> from]))
                     \cup Pending([handler |-> h, at |-> at])
    PROVE  Stacked'
<1> DEFINE L == Len(frames)
           old == [handler |-> h, at |-> from]
           new == [handler |-> h, at |-> at]
<1>1. /\ L \in Nat \ {0} /\ Len(frames') = L /\ DOMAIN frames' = 1 .. L
      /\ DOMAIN frames = 1 .. L /\ frames[L] = old /\ frames'[L] = new
      /\ \A n \in 1 .. L - 1 : frames'[n] = frames[n]
  BY GoesOn, StackTypes DEF TypeOK
<1>2. \A n \in 1 .. L - 1 : frames[n].handler = h => frames[n].at = "iret"
  BY OwnLines
<1>3. \A n \in 1 .. L - 1 : Pending(frames[n]) \cap Pending(old) = {}
  <2> SUFFICES ASSUME NEW n \in 1 .. L - 1
               PROVE  Pending(frames[n]) \cap Pending(old) = {}
    OBVIOUS
  <2>1. /\ frames[n] \in Frame
        /\ frames[n].handler = "keyboard_handler" =>
              frames[n].at \notin {"exception", "eoi_slave"}
        /\ frames[n].handler = h => frames[n].at = "iret"
    BY OwnLines
  <2>2. old \in Frame /\ (h = "keyboard_handler" => from # "eoi_slave")
    <3>1. old \in Frame
      BY <1>1, StackTypes DEF TypeOK
    <3>2. h = "keyboard_handler" => from # "eoi_slave"
      BY <1>1 DEF Stacked, OneByteForMaster
    <3> QED
      BY <3>1, <3>2
  <2>3. frames[n].at = "iret" => Pending(frames[n]) = {}
    BY <2>1, PendingLines
  <2>4. CASE frames[n].handler = h
    BY <2>1, <2>3, <2>4
  <2>5. CASE frames[n].handler # h
    <3>1. Pending(frames[n]) \subseteq IF frames[n].handler = "keyboard_handler"
                                       THEN {KEYBOARD_IRQ} ELSE {2, RTC_IRQ}
      BY <2>1 DEF Pending
    <3>2. Pending(old) \subseteq IF h = "keyboard_handler"
                                 THEN {KEYBOARD_IRQ} ELSE {2, RTC_IRQ}
      BY <2>2 DEF Pending
    <3>3. frames[n].handler \in Handlers
      BY <2>1 DEF Frame
    <3> QED
      BY <2>5, <3>1, <3>2, <3>3 DEF Handlers
  <2> QED
    BY <2>4, <2>5
<1>0. lost => h = "keyboard_handler" /\ from # "eoi_slave"
  BY <1>1 DEF Stacked, LostOnce, OneByteForMaster, Handlers
<1>4. OneByteForMaster' /\ LostOnce'
  BY <1>0, <1>1 DEF Stacked, OneByteForMaster, LostOnce, Handlers
<1>5. InServiceIsRunning'
  <2> SUFFICES ASSUME NEW line \in Irqs \cup {2}
               PROVE  line \in isr' <=>
                        \/ \E n \in 1 .. L : line \in Pending(frames'[n])
                        \/ lost /\ line \in {2, RTC_IRQ}
    BY <1>1 DEF InServiceIsRunning, Pending
  <2> DEFINE gone == lost /\ line \in {2, RTC_IRQ}
  <2>1. line \in isr <=> \/ \E n \in DOMAIN frames : line \in Pending(frames[n])
                         \/ gone
    BY DEF Stacked, InServiceIsRunning, TypeOK
  <2>0. gone => line \notin Pending(old)
    BY <1>0 DEF Pending
  <2>2. \A n : n \in 1 .. L <=> n = L \/ n \in 1 .. L - 1
    BY <1>1
  <2>3. line \in isr <=> \/ line \in Pending(old)
                         \/ \E n \in 1 .. L - 1 : line \in Pending(frames[n])
                         \/ gone
    BY <1>1, <2>1, <2>2, Zenon
  <2>4. (\E n \in 1 .. L : line \in Pending(frames'[n])) <=>
          \/ line \in Pending(new)
          \/ \E n \in 1 .. L - 1 : line \in Pending(frames[n])
    BY <1>1, <2>2, Zenon
  <2>5. (\E n \in 1 .. L - 1 : line \in Pending(frames[n])) =>
          line \notin Pending(old)
    BY <1>3
  <2> QED
    BY <2>0, <2>3, <2>4, <2>5 DEF TypeOK
<1>6. NotReentered'
  <2> SUFFICES ASSUME NEW n \in 1 .. L - 1, frames'[n].at # "iret"
               PROVE  /\ frames'[n].handler = "rtc_handler"
                      /\ \A k \in n + 1 .. L : frames'[k].handler = "keyboard_handler"
    BY <1>1 DEF NotReentered
  <2>1. /\ frames[n].handler = "rtc_handler"
        /\ \A k \in n + 1 .. L : frames[k].handler = "keyboard_handler"
    BY <1>1 DEF Stacked, NotReentered
  <2>2. \A k \in n + 1 .. L : frames'[k].handler = frames[k].handler
    BY <1>1
  <2> QED
    BY <1>1, <2>1, <2>2
<1> QED
  BY <1>4, <1>5, <1>6 DEF Stacked

\* A handler is let in with the lines it will have to end.
LEMMA LetInStacked ==
    ASSUME TypeOK, Stack, NEW irq \in Irqs, PassesOn(irq),
           NEW f \in Frame, frames' = Append(frames, f),
           f = [handler |-> IF irq = KEYBOARD_IRQ THEN "keyboard_handler"
                            ELSE "rtc_handler",
                at |-> "body"],
           isr' = isr \cup Pending(f), UNCHANGED lost
    PROVE  Stacked'
<1> DEFINE L == Len(frames)
<1>1. /\ L \in Nat /\ Len(frames') = L + 1 /\ DOMAIN frames' = 1 .. L + 1
      /\ DOMAIN frames = 1 .. L /\ frames'[L + 1] = f
      /\ \A n \in 1 .. L : frames'[n] = frames[n]
  BY Entered, StackTypes DEF TypeOK
<1>0. lost => irq # RTC_IRQ
  BY DEF Stack, InServiceIsRunning, PassesOn
<1>2. OneByteForMaster' /\ LostOnce'
  BY <1>0, <1>1 DEF Stack, OneByteForMaster, LostOnce
<1>3. InServiceIsRunning'
  <2> SUFFICES ASSUME NEW line \in Irqs \cup {2}
               PROVE  line \in isr' <=>
                        \/ \E n \in 1 .. L + 1 : line \in Pending(frames'[n])
                        \/ lost /\ line \in {2, RTC_IRQ}
    BY <1>1 DEF InServiceIsRunning, Pending
  <2>1. line \in isr <=> \/ \E n \in DOMAIN frames : line \in Pending(frames[n])
                         \/ lost /\ line \in {2, RTC_IRQ}
    BY DEF Stack, InServiceIsRunning, TypeOK
  <2>2. \A n : n \in 1 .. L + 1 <=> n = L + 1 \/ n \in 1 .. L
    BY <1>1
  <2>3. (\E n \in 1 .. L + 1 : line \in Pending(frames'[n])) <=>
          \/ line \in Pending(f)
          \/ \E n \in 1 .. L : line \in Pending(frames[n])
    BY <1>1, <2>2, Zenon
  <2> QED
    BY <1>1, <2>1, <2>3 DEF TypeOK
<1>4. NotReentered'
  <2> SUFFICES ASSUME NEW n \in 1 .. L, frames[n].at # "iret"
               PROVE  /\ frames[n].handler = "rtc_handler"
                      /\ \A k \in n + 1 .. L + 1 :
                            frames'[k].handler = "keyboard_handler"
    BY <1>1 DEF NotReentered
  <2>1. irq = KEYBOARD_IRQ /\ frames[n].handler = "rtc_handler"
    BY <1>1, LetIn
  <2>2. frames'[L + 1].handler = "keyboard_handler"
    BY <1>1, <2>1
  <2>3. \A k \in n + 1 .. L : frames[k].handler = "keyboard_handler"
    <3>1. CASE n = L
      BY <1>1, <3>1
    <3>2. CASE n \in 1 .. L - 1
      BY <1>1, <3>2 DEF Stack, NotReentered
    <3>3. n = L \/ n \in 1 .. L - 1
      <4>1. L \in Nat \ {0}
        BY <1>1
      <4> QED
        BY <4>1, UpTo, Zenon
    <3> QED
      BY <3>1, <3>2, <3>3
  <2>4. \A k \in n + 1 .. L + 1 : k = L + 1 \/ k \in n + 1 .. L
    BY <1>1
  <2>5. \A k \in n + 1 .. L : frames'[k] = frames[k]
    BY <1>1
  <2> QED
    BY <2>1, <2>2, <2>3, <2>4, <2>5
<1> QED
  BY <1>2, <1>3, <1>4 DEF Stacked

\* A handler that returns has nothing left to end.
LEMMA EndedStacked ==
    ASSUME TypeOK, Stacked, NEW h, Runs(h, "iret"), frames' = Front(frames),
           isr' = isr, UNCHANGED lost
    PROVE  Stacked'
<1> DEFINE L == Len(frames)
<1>1. /\ L \in Nat \ {0} /\ Len(frames') = L - 1 /\ DOMAIN frames' = 1 .. L - 1
      /\ DOMAIN frames = 1 .. L /\ frames[L] = [handler |-> h, at |-> "iret"]
      /\ \A n \in 1 .. L - 1 : frames'[n] = frames[n]
  BY Ended, StackTypes DEF TypeOK
<1>2. OneByteForMaster' /\ LostOnce'
  BY <1>1 DEF Stacked, OneByteForMaster, LostOnce
<1>3. InServiceIsRunning'
  <2> SUFFICES ASSUME NEW line \in Irqs \cup {2}
               PROVE  line \in isr <=>
                        \/ \E n \in 1 .. L - 1 : line \in Pending(frames'[n])
                        \/ lost /\ line \in {2, RTC_IRQ}
    BY <1>1 DEF InServiceIsRunning, Pending
  <2>1. line \in isr <=> \/ \E n \in DOMAIN frames : line \in Pending(frames[n])
                         \/ lost /\ line \in {2, RTC_IRQ}
    BY DEF Stacked, InServiceIsRunning, TypeOK
  <2>2. \A n : n \in 1 .. L <=> n = L \/ n \in 1 .. L - 1
    BY <1>1
  <2>3. line \notin Pending(frames[L])
    BY <1>1 DEF Pending
  <2>4. (\E n \in 1 .. L - 1 : line \in Pending(frames'[n])) <=>
          \E n \in 1 .. L - 1 : line \in Pending(frames[n])
    BY <1>1, Zenon
  <2> QED
    BY <1>1, <2>1, <2>2, <2>3, <2>4, Zenon
<1>4. NotReentered'
  <2> SUFFICES ASSUME NEW n \in 1 .. L - 2, frames[n].at # "iret"
               PROVE  /\ frames[n].handler = "rtc_handler"
                      /\ \A k \in n + 1 .. L - 1 :
                            frames[k].handler = "keyboard_handler"
    BY <1>1 DEF NotReentered
  <2> QED
    BY <1>1 DEF Stacked, NotReentered
<1> QED
  BY <1>2, <1>3, <1>4 DEF Stacked

\* Where the clock's handler runs, nothing else has a line to end.
LEMMA ClockAlone ==
    ASSUME TypeOK, Stacked, NEW from, Runs("rtc_handler", from), from # "iret"
    PROVE  /\ Len(frames) \in DOMAIN frames
           /\ frames[Len(frames)] = [handler |-> "rtc_handler", at |-> from]
           /\ \A n \in DOMAIN frames : n # Len(frames) => frames[n].at = "iret"
<1>1. /\ Len(frames) \in Nat \ {0} /\ DOMAIN frames = 1 .. Len(frames)
      /\ frames[Len(frames)] = [handler |-> "rtc_handler", at |-> from]
  BY StackTypes DEF TypeOK, Runs, Last
<1>2. \A n \in 1 .. Len(frames) - 1 : frames[n].at = "iret"
  BY OwnLines
<1> QED
  BY <1>1, <1>2

\* A divide error leaves the clock's lines in service for ever.
LEMMA ErrorStacked ==
    ASSUME TypeOK, Stacked, Runs("rtc_handler", "body"), Goto("exception"),
           isr' = isr, lost' = TRUE
    PROVE  Stacked'
<1> DEFINE L == Len(frames)
<1>1. /\ L \in Nat \ {0} /\ Len(frames') = L /\ DOMAIN frames' = 1 .. L
      /\ frames'[L] = [handler |-> "rtc_handler", at |-> "exception"]
      /\ \A n \in 1 .. L - 1 : frames'[n] = frames[n]
  BY GoesOn DEF TypeOK, Places
<1>2. /\ L \in DOMAIN frames /\ DOMAIN frames = 1 .. L
      /\ frames[L] = [handler |-> "rtc_handler", at |-> "body"]
      /\ \A n \in DOMAIN frames : n # L => frames[n].at = "iret"
  BY ClockAlone, StackTypes DEF TypeOK
<1>3. \A n \in DOMAIN frames' :
         \/ n = L
         \/ n \in 1 .. L - 1 /\ n \in DOMAIN frames /\ frames'[n].at = "iret"
  BY <1>1, <1>2
<1>4. OneByteForMaster' /\ LostOnce'
  BY <1>1, <1>3 DEF OneByteForMaster, LostOnce
<1>5. \A line \in Irqs \cup {2} : line \in isr <=> line \in {2, RTC_IRQ}
  <2>1. /\ Pending(frames[L]) = {2, RTC_IRQ}
        /\ \A n \in DOMAIN frames : n # L => Pending(frames[n]) = {}
    BY <1>2 DEF Pending
  <2> QED
    BY <1>2, <2>1 DEF Stacked, InServiceIsRunning
<1>6. \A n \in DOMAIN frames' : Pending(frames'[n]) = {}
  BY <1>1, <1>3 DEF Pending
<1>7. InServiceIsRunning'
  BY <1>5, <1>6 DEF InServiceIsRunning, Pending
<1>8. NotReentered'
  BY <1>1, <1>3 DEF NotReentered
<1> QED
  BY <1>4, <1>7, <1>8 DEF Stacked

\* halt leaves the stack, on which nothing is left to be ended.
LEMMA AbandonedStacked ==
    ASSUME TypeOK, Stacked, Runs("rtc_handler", "exception"), frames' = <<>>,
           UNCHANGED <<isr, lost>>
    PROVE  Stacked' /\ \A r : ~AboutTo(r) /\ ~AboutTo(r)'
<1>1. \A n \in DOMAIN frames : frames[n].at \in {"exception", "iret"}
  <2>1. \A n \in DOMAIN frames : n # Len(frames) => frames[n].at = "iret"
    BY ClockAlone
  <2>2. frames[Len(frames)] = [handler |-> "rtc_handler", at |-> "exception"]
    BY ClockAlone
  <2> QED
    BY <2>1, <2>2
<1>2. \A n \in DOMAIN frames : Pending(frames[n]) = {}
  BY <1>1 DEF Pending
<1>3. InServiceIsRunning'
  BY <1>2 DEF Stacked, InServiceIsRunning
<1>4. OneByteForMaster' /\ LostOnce' /\ NotReentered'
  BY DEF OneByteForMaster, LostOnce, NotReentered
<1>5. \A r : ~AboutTo(r) /\ ~AboutTo(r)'
  BY <1>1 DEF AboutTo
<1> QED
  BY <1>3, <1>4, <1>5 DEF Stacked

-----------------------------------------------------------------------------
(* Who is about to read                                                    *)

\* A handler that does not read leaves every other handler where it is.
LEMMA ReadersStay ==
    ASSUME TypeOK, NEW h, NEW from, Runs(h, from), from # "body",
           NEW at \in {"eoi_slave", "iret"}, Goto(at) \/ frames' = Front(frames),
           NEW r
    PROVE  AboutTo(r)' <=> AboutTo(r)
<1> DEFINE L == Len(frames)
<1>1. L \in Nat \ {0} /\ DOMAIN frames = 1 .. L /\ frames[L].at # "body"
  BY DEF Runs, Last, TypeOK
<1>2. /\ \A n \in 1 .. L - 1 : n \in DOMAIN frames' /\ frames'[n] = frames[n]
      /\ \A n \in DOMAIN frames' :
            \/ n \in 1 .. L - 1
            \/ n = L /\ frames'[n].at = at
  <2>1. CASE Goto(at)
    <3>1. /\ Len(frames') = L /\ DOMAIN frames' = 1 .. L
          /\ frames'[L] = [handler |-> h, at |-> at]
          /\ \A n \in 1 .. L - 1 : frames'[n] = frames[n]
      BY <2>1, GoesOn DEF TypeOK, Places
    <3>2. /\ \A n \in 1 .. L : n = L \/ n \in 1 .. L - 1
          /\ \A n \in 1 .. L - 1 : n \in 1 .. L
      BY <1>1, UpTo, Zenon
    <3>3. frames'[L].at = at
      BY <3>1
    <3> HIDE DEF L
    <3> QED
      BY <3>1, <3>2, <3>3, Zenon
  <2>2. CASE frames' = Front(frames)
    BY <1>1, <2>2, Ended DEF TypeOK
  <2> QED
    BY <2>1, <2>2
<1>3. \A n : n \in 1 .. L <=> n = L \/ n \in 1 .. L - 1
  BY <1>1
<1>4. AboutTo(r) <=> \E n \in 1 .. L - 1 : frames[n] = [handler |-> r, at |-> "body"]
  BY <1>1, <1>3 DEF AboutTo
<1>5. AboutTo(r)' <=> \E n \in 1 .. L - 1 : frames[n] = [handler |-> r, at |-> "body"]
  BY <1>2 DEF AboutTo
<1> QED
  BY <1>4, <1>5

\* The handler that runs is the only one of its kind that is to read.
LEMMA ReaderReads ==
    ASSUME TypeOK, Stacked, NEW h \in Handlers, Runs(h, "body"),
           NEW at \in {"eoi", "exception"}, Goto(at)
    PROVE  /\ AboutTo(h) /\ ~AboutTo(h)'
           /\ \A r \in Handlers : r # h => (AboutTo(r)' <=> AboutTo(r))
<1> DEFINE L == Len(frames)
<1>1. /\ L \in Nat \ {0} /\ DOMAIN frames' = 1 .. L /\ DOMAIN frames = 1 .. L
      /\ frames[L] = [handler |-> h, at |-> "body"]
      /\ frames'[L] = [handler |-> h, at |-> at]
      /\ \A n \in 1 .. L - 1 : frames'[n] = frames[n]
  BY GoesOn, StackTypes DEF TypeOK, Places
<1>2. \A n \in 1 .. L - 1 : frames[n].handler = h => frames[n].at = "iret"
  BY OwnLines
<1>3. \A n : n \in 1 .. L <=> n = L \/ n \in 1 .. L - 1
  BY <1>1
<1>4. AboutTo(h)
  BY <1>1 DEF AboutTo
<1>5. ~AboutTo(h)'
  BY <1>1, <1>2, <1>3 DEF AboutTo
<1>6. ASSUME NEW r \in Handlers, r # h PROVE AboutTo(r)' <=> AboutTo(r)
  BY <1>1, <1>3, <1>6 DEF AboutTo
<1> QED
  BY <1>4, <1>5, <1>6

\* The handler let in is one more that is to read.
LEMMA ReaderEnters ==
    ASSUME TypeOK, NEW f \in Frame, f.at = "body", frames' = Append(frames, f)
    PROVE  /\ AboutTo(f.handler)'
           /\ \A r \in Handlers : r # f.handler => (AboutTo(r)' <=> AboutTo(r))
<1> DEFINE L == Len(frames)
<1>1. /\ L \in Nat /\ DOMAIN frames' = 1 .. L + 1 /\ DOMAIN frames = 1 .. L
      /\ frames'[L + 1] = f /\ \A n \in 1 .. L : frames'[n] = frames[n]
  BY Entered, StackTypes DEF TypeOK
<1>2. \A n : n \in 1 .. L + 1 <=> n = L + 1 \/ n \in 1 .. L
  BY <1>1
<1>3. f = [handler |-> f.handler, at |-> "body"]
  BY FrameType
<1>4. AboutTo(f.handler)'
  BY <1>1, <1>2, <1>3 DEF AboutTo
<1>5. ASSUME NEW r \in Handlers, r # f.handler PROVE AboutTo(r)' <=> AboutTo(r)
  BY <1>1, <1>2, <1>3, <1>5 DEF AboutTo
<1> QED
  BY <1>4, <1>5

-----------------------------------------------------------------------------
(* The boot                                                                *)

\* Nothing runs before sti.
LEMMA BeforeSti ==
    ASSUME IInv, boot # "execute", UNCHANGED <<frames, queue, pf>>
    PROVE  /\ frames = <<>> /\ \A r : ~AboutTo(r) /\ ~AboutTo(r)'
           /\ isr = {}
<1>1. frames = <<>> /\ ~lost
  BY DEF IInv, Stack, NoHandlerBeforeSti
<1>2. \A line \in Irqs \cup {2} : line \notin isr
  BY <1>1 DEF IInv, Stack, InServiceIsRunning
<1> QED
  BY <1>1, <1>2 DEF AboutTo, IInv, TypeOK

LEMMA MaskType ==
    ASSUME NEW m \in [master : SUBSET (0 .. 7), slave : SUBSET (0 .. 7)],
           NEW irq \in {1, 2, 8}
    PROVE  /\ enable_irq(m, irq) \in [master : SUBSET (0 .. 7), slave : SUBSET (0 .. 7)]
           /\ disable_irq(m, irq) \in [master : SUBSET (0 .. 7), slave : SUBSET (0 .. 7)]
<1>1. CASE irq \in 0 .. 7
  <2>1. /\ enable_irq(m, irq) = [m EXCEPT !.master = @ \ {irq}]
        /\ disable_irq(m, irq) = [m EXCEPT !.master = @ \cup {irq}]
    BY <1>1 DEF enable_irq, disable_irq
  <2> QED
    BY <1>1, <2>1
<1>2. CASE irq = 8
  <2>1. 8 \in 8 .. 15 /\ 8 \notin 0 .. 7 /\ 8 - 8 \in 0 .. 7
    OBVIOUS
  <2>2. /\ enable_irq(m, 8) = [m EXCEPT !.slave = @ \ {8 - 8}]
        /\ disable_irq(m, 8) = [m EXCEPT !.slave = @ \cup {8 - 8}]
    BY <2>1, Zenon DEF enable_irq, disable_irq
  <2> QED
    BY <1>2, <2>1, <2>2
<1> QED
  BY <1>1, <1>2

LEMMA BootInv == ASSUME IInv, Boot PROVE IInv'
<1> USE DEF IInv
<1>1. CASE i8259_init
  <2>1. TypeOK'
    <3>1. [master |-> 0 .. 7, slave |-> 0 .. 7]
            \in [master : SUBSET (0 .. 7), slave : SUBSET (0 .. 7)]
      OBVIOUS
    <3>2. mask' \in [master : SUBSET (0 .. 7), slave : SUBSET (0 .. 7)]
      BY <1>1, <3>1, MaskType DEF i8259_init
    <3> QED
      BY <1>1, <3>2 DEF i8259_init, Then, TypeOK, Calls, clock
  <2>2. boot = "i8259_init" /\ boot' = "keyboard_init"
    BY <1>1 DEF i8259_init, Then
  <2>3. frames = <<>> /\ isr = {} /\ \A r : ~AboutTo(r) /\ ~AboutTo(r)'
    BY <1>1, <2>2, BeforeSti DEF i8259_init
  <2>4. Stack'
    BY <1>1, <2>2, <2>3 DEF i8259_init, Stack, NoHandlerBeforeSti,
       OneByteForMaster, LostOnce, clock, InServiceIsRunning, NotReentered
  <2>5. OneReader' /\ ClockStarts' /\ NeverDeaf'
    BY <1>1, <2>2, <2>3 DEF i8259_init, clock, OneReader, ClockStarts, NeverDeaf
  <2> QED
    BY <2>1, <2>4, <2>5
<1>2. CASE keyboard_init
  <2>1. TypeOK'
    BY <1>2, MaskType DEF keyboard_init, Then, TypeOK, Calls, clock, user
  <2>2. boot = "keyboard_init" /\ boot' = "rtc_init"
    BY <1>2 DEF keyboard_init, Then
  <2>3. frames = <<>> /\ isr = {} /\ \A r : ~AboutTo(r) /\ ~AboutTo(r)'
    BY <1>2, <2>2, BeforeSti DEF keyboard_init
  <2>4. Stack'
    BY <1>2, <2>2, <2>3 DEF keyboard_init, Stack, NoHandlerBeforeSti,
       OneByteForMaster, LostOnce, clock, InServiceIsRunning, NotReentered
  <2>5. OneReader' /\ ClockStarts' /\ NeverDeaf'
    BY <1>2, <2>2, <2>3 DEF keyboard_init, clock, OneReader, ClockStarts, NeverDeaf, user
  <2> QED
    BY <2>1, <2>4, <2>5
<1>3. CASE rtc_init
  <2>1. TypeOK'
    <3>1. mask' \in [master : SUBSET (0 .. 7), slave : SUBSET (0 .. 7)]
      BY <1>3, MaskType DEF rtc_init, TypeOK
    <3>2. irr' \subseteq Irqs
      BY <1>3 DEF rtc_init, TypeOK
    <3> QED
      BY <1>3, <3>1, <3>2 DEF rtc_init, Then, TypeOK, Calls, clock, user
  <2>2. boot = "rtc_init" /\ boot' = "sti"
    BY <1>3 DEF rtc_init, Then
  <2>3. frames = <<>> /\ isr = {} /\ \A r : ~AboutTo(r) /\ ~AboutTo(r)'
    BY <1>3, <2>2, BeforeSti DEF rtc_init
  <2>4. Stack'
    BY <1>3, <2>2, <2>3 DEF rtc_init, Stack, NoHandlerBeforeSti,
       OneByteForMaster, LostOnce, clock, InServiceIsRunning, NotReentered
  <2>5. OneReader' /\ ClockStarts' /\ NeverDeaf'
    BY <1>3, <2>2, <2>3 DEF rtc_init, clock, OneReader, ClockStarts, NeverDeaf, user
  <2> QED
    BY <2>1, <2>4, <2>5
<1>4. CASE sti
  <2>1. TypeOK'
    BY <1>4 DEF sti, Then, TypeOK, Calls, user, controller, clock
  <2>2. boot = "sti" /\ boot' = "execute"
    BY <1>4 DEF sti, Then
  <2>3. frames = <<>> /\ isr = {} /\ \A r : ~AboutTo(r) /\ ~AboutTo(r)'
    BY <1>4, <2>2, BeforeSti DEF sti
  <2>4. Stack'
    BY <1>4, <2>2, <2>3 DEF sti, controller, Stack, NoHandlerBeforeSti,
       OneByteForMaster, LostOnce, clock, InServiceIsRunning, NotReentered
  <2>5. OneReader' /\ ClockStarts' /\ NeverDeaf'
    BY <1>4, <2>2, <2>3 DEF sti, controller, user, clock, OneReader, ClockStarts,
       NeverDeaf
  <2> QED
    BY <2>1, <2>4, <2>5
<1> QED
  BY <1>1, <1>2, <1>3, <1>4 DEF Boot

-----------------------------------------------------------------------------
(* The devices                                                             *)

LEMMA WantedType == ASSUME NEW key \in Codes PROVE Wanted(key) \in Effects
<1>1. /\ Nothing \in Effects
      /\ \A w \in {"blank", "tab", "clean_screen", "enter", "backspace"} :
            Does(w) \in Effects
      /\ \A k \in Letters \cup Symbols : \A u \in BOOLEAN : Char(k, u) \in Effects
  BY DEF Effects
<1>2. (Shift # (lock = 1)) \in BOOLEAN /\ Shift \in BOOLEAN
  BY DEF Shift
<1> QED
  BY <1>1, <1>2, Zenon DEF Wanted

\* A byte sent leaves the handlers and the clock alone.
LEMMA SendInv ==
    ASSUME IInv, NEW key \in Codes, Send(key),
           held' \subseteq Modifiers, lock' \in {0, 1}, confused' \in BOOLEAN
    PROVE  IInv'
<1> USE DEF IInv
<1>1. TypeOK'
  <2>1. [code |-> key, wanted |-> Wanted(key), clean |-> ~confused] \in Byte
    BY WantedType DEF Byte, TypeOK
  <2>2. queue' \in Seq(Byte)
    BY <2>1 DEF Send, TypeOK
  <2> QED
    BY <2>2 DEF Send, TypeOK, clock
<1>2. Stack'
  <2>1. Stacked'
    BY StackStays DEF Stack, Stacked, Send, clock
  <2> QED
    BY <2>1 DEF Stack, Stacked, NoHandlerBeforeSti, Send, clock
<1>3. /\ \A r : AboutTo(r)' <=> AboutTo(r)
      /\ queue' # <<>>
  BY DEF Send, AboutTo, TypeOK
<1>4. OneReader'
  BY <1>3 DEF Send, OneReader
<1>5. NeverDeaf' /\ ClockStarts'
  BY <1>3 DEF Send, NeverDeaf, ClockStarts, clock
<1> QED
  BY <1>1, <1>2, <1>4, <1>5

LEMMA DevicesInv == ASSUME IInv, Devices PROVE IInv'
<1>1. held \subseteq Modifiers /\ lock \in {0, 1} /\ confused \in BOOLEAN
  BY DEF IInv, TypeOK
<1>2. ASSUME NEW key \in Keyboard, OtherKey(key) PROVE IInv'
  BY <1>1, <1>2, SendInv DEF OtherKey, KeyboardAssumption
<1>3. ASSUME NEW key \in Keyboard, PressModifier(key) PROVE IInv'
  BY <1>1, <1>3, SendInv DEF PressModifier, KeyboardAssumption
<1>4. ASSUME NEW key \in Modifiers, ReleaseModifier(key) PROVE IInv'
  <2>1. key + 128 \in Codes
    BY DEF Modifiers, LSHIFT_PRESS, RSHIFT_PRESS, CTRL_PRESS, Codes
  <2>2. confused' \in BOOLEAN
    BY <1>1, <1>4 DEF ReleaseModifier
  <2> QED
    BY <1>1, <1>4, <2>1, <2>2, SendInv DEF ReleaseModifier
<1>5. ASSUME Period PROVE IInv'
  <2> USE DEF IInv
  <2>1. TypeOK'
    BY <1>5 DEF Period, TypeOK, user, clock
  <2>2. Stack'
    <3>1. Stacked'
      BY <1>5, StackStays DEF Stack, Stacked, Period, clock
    <3> QED
      BY <1>5, <3>1 DEF Stack, Stacked, NoHandlerBeforeSti, Period, clock
  <2>3. \A r : AboutTo(r)' <=> AboutTo(r)
    BY <1>5 DEF Period, AboutTo
  <2>4. OneReader' /\ NeverDeaf' /\ ClockStarts'
    <3>1. /\ UNCHANGED <<boot, queue, early, pie, lost>> /\ pf' = TRUE
          /\ irr' = irr \cup (IF pie /\ ~pf THEN {RTC_IRQ} ELSE {})
      BY <1>5 DEF Period, user, clock
    <3>2. pie \in BOOLEAN /\ lost \in BOOLEAN /\ pf \in BOOLEAN
      BY DEF TypeOK
    <3>3. lost => ~AboutTo("rtc_handler")
      BY DEF AboutTo, Stack, LostOnce
    <3> QED
      BY <2>3, <3>1, <3>2, <3>3 DEF OneReader, NeverDeaf, ClockStarts
  <2> QED
    BY <2>1, <2>2, <2>4
<1> QED
  BY <1>2, <1>3, <1>4, <1>5 DEF Devices

-----------------------------------------------------------------------------
(* The CPU                                                                 *)

\* idt_init: the two gates are trap gates to the two handlers.
LEMMA Gates ==
    /\ Gate(Vector(KEYBOARD_IRQ)).handler = "keyboard_handler"
    /\ Gate(Vector(RTC_IRQ)).handler = "rtc_handler"
    /\ \A irq \in Irqs : Gate(Vector(irq)).reserved3 = 1
<1>1. Vector(KEYBOARD_IRQ) = 33 /\ Vector(RTC_IRQ) = 40
  BY DEF Vector, ICW2_MASTER, ICW2_SLAVE
<1>2. 33 # 15 /\ 40 # 15 /\ 40 # 33 /\ 40 # 128 /\ 33 # 40 /\ 33 # 128
      /\ 33 \notin 0 .. 19 /\ 40 \notin 0 .. 19
  OBVIOUS
<1>3. Gate(33).handler = "keyboard_handler" /\ Gate(33).reserved3 = 1
  BY <1>2, Zenon DEF Gate
<1>4. Gate(40).handler = "rtc_handler" /\ Gate(40).reserved3 = 1
  BY <1>2, Zenon DEF Gate
<1> QED
  BY <1>1, <1>3, <1>4

LEMMA DeliverInv == ASSUME IInv, NEW irq \in Irqs, Deliver(irq) PROVE IInv'
<1> DEFINE h == IF irq = KEYBOARD_IRQ THEN "keyboard_handler" ELSE "rtc_handler"
           f == [handler |-> h, at |-> "body"]
<1> USE DEF IInv
<1>1. /\ f \in Frame /\ h \in Handlers
      /\ frames' = Append(frames, f) /\ interrupts_on' = TRUE
      /\ interrupts_on /\ PassesOn(irq)
  BY Gates DEF Deliver, Frame, Handlers, Places
<1>2. Pending(f) = IF irq = RTC_IRQ THEN {2, irq} ELSE {irq}
  BY DEF Pending
<1>3. Stacked'
  BY <1>1, <1>2, LetInStacked DEF Deliver, clock
<1>4. boot = "execute" /\ boot' = "execute"
  BY <1>1 DEF Deliver, Stack, NoHandlerBeforeSti
<1>5. TypeOK'
  <2>1. frames' \in Seq(Frame)
    BY <1>1 DEF TypeOK
  <2>2. isr' \subseteq Irqs \cup {2}
    BY DEF Deliver, TypeOK
  <2> QED
    BY <1>1, <2>1, <2>2 DEF Deliver, TypeOK, user, clock
<1>6. /\ AboutTo(h)'
      /\ \A r \in Handlers : r # h => (AboutTo(r)' <=> AboutTo(r))
  <2>1. f.handler = h /\ f.at = "body"
    OBVIOUS
  <2> QED
    BY <1>1, <2>1, ReaderEnters
<1>7. irq \in irr /\ irr' = irr \ {irq}
  BY <1>1 DEF Deliver, PassesOn
<1>8. OneReader'
  BY <1>6, <1>7 DEF Deliver, OneReader, Handlers
<1>9. NeverDeaf' /\ ClockStarts'
  BY <1>4, <1>6, <1>7 DEF Deliver, OneReader, NeverDeaf, ClockStarts, Handlers,
     user, clock
<1> QED
  BY <1>3, <1>4, <1>5, <1>8, <1>9 DEF Stack, Stacked, NoHandlerBeforeSti

LEMMA CriticalInv ==
    ASSUME IInv, CriticalBegin \/ CriticalEnd \/ SetFrequency PROVE IInv'
<1> USE DEF IInv
<1>1. /\ boot = "execute" /\ interrupts_on' \in BOOLEAN
      /\ virtual_frequency' \in Frequencies \cup {2}
      /\ UNCHANGED <<boot, controller, frames, queue, pf, pie, status, user, lost>>
  BY DEF CriticalBegin, CriticalEnd, SetFrequency, clock, TypeOK
<1>2. TypeOK'
  BY <1>1 DEF TypeOK, controller, user
<1>3. Stacked'
  BY <1>1, StackStays DEF Stack, Stacked, controller
<1>4. \A r : AboutTo(r)' <=> AboutTo(r)
  BY <1>1 DEF AboutTo
<1>5. OneReader' /\ NeverDeaf' /\ ClockStarts'
  BY <1>1, <1>4 DEF OneReader, NeverDeaf, ClockStarts, controller, user
<1> QED
  BY <1>1, <1>2, <1>3, <1>5 DEF Stack, Stacked, NoHandlerBeforeSti

\* The handlers' own steps read nothing but what they are about to read.
LEMMA HandleInv == ASSUME IInv, Handle PROVE IInv'
<1> USE DEF IInv
<1>s. Stacked
  BY DEF Stack, Stacked
<1>r. ASSUME NEW h \in Handlers, Runs(h, "body") PROVE frames # <<>> /\ boot = "execute"
  BY <1>r DEF Runs, Stack, NoHandlerBeforeSti, TypeOK
<1>1. CASE keyboard_interrupt_handler
  <2>1. /\ Runs("keyboard_handler", "body") /\ Goto("eoi")
        /\ "keyboard_handler" \in Handlers
    BY <1>1 DEF keyboard_interrupt_handler, Handlers
  <2>2. /\ AboutTo("keyboard_handler") /\ ~AboutTo("keyboard_handler")'
        /\ AboutTo("rtc_handler")' <=> AboutTo("rtc_handler")
    BY <1>s, <2>1, ReaderReads DEF Handlers
  <2>3. queue # <<>> /\ KEYBOARD_IRQ \notin irr
    BY <2>2 DEF OneReader
  <2>4. queue \in Seq(Byte) /\ Tail(queue) \in Seq(Byte)
    BY <2>3, HeadTailProperties DEF TypeOK
  <2>5. TypeOK'
    <3>1. frames' \in Seq(Frame)
      BY <2>1, GoesOn DEF TypeOK, Places
    <3>2. status' \in Status
      BY <1>1, StatusStays DEF keyboard_interrupt_handler, TypeOK
    <3> QED
      BY <1>1, <2>4, <3>1, <3>2 DEF keyboard_interrupt_handler, TypeOK, user,
         clock
  <2>6. Stacked'
    <3>1. Pending([handler |-> "keyboard_handler", at |-> "body"]) = {KEYBOARD_IRQ}
          /\ Pending([handler |-> "keyboard_handler", at |-> "eoi"]) = {KEYBOARD_IRQ}
      BY DEF Pending
    <3>2. KEYBOARD_IRQ \in isr
      BY <2>2, <3>1 DEF Stacked, Stack, InServiceIsRunning, AboutTo
    <3> QED
      BY <1>1, <1>s, <2>1, <3>1, <3>2, GoesOnStacked
         DEF keyboard_interrupt_handler, clock, Places
  <2>7. OneReader' /\ NeverDeaf' /\ ClockStarts'
    BY <1>1, <2>2, <2>3 DEF keyboard_interrupt_handler, OneReader, NeverDeaf,
       ClockStarts, user, clock
  <2> QED
    BY <1>1, <1>r, <2>1, <2>5, <2>6, <2>7
       DEF keyboard_interrupt_handler, Stack, Stacked, NoHandlerBeforeSti, clock
<1>2. CASE rtc_interrupt_handler
  <2>1. /\ Runs("rtc_handler", "body") /\ Goto("eoi")
        /\ "rtc_handler" \in Handlers
    BY <1>2 DEF rtc_interrupt_handler, Handlers
  <2>2. /\ AboutTo("rtc_handler") /\ ~AboutTo("rtc_handler")'
        /\ AboutTo("keyboard_handler")' <=> AboutTo("keyboard_handler")
    BY <1>s, <2>1, ReaderReads DEF Handlers
  <2>3. TypeOK'
    <3>1. frames' \in Seq(Frame)
      BY <2>1, GoesOn DEF TypeOK, Places
    <3> QED
      BY <1>2, <3>1 DEF rtc_interrupt_handler, TypeOK, user, controller, clock
  <2>4. Stacked'
    <3>1. Pending([handler |-> "rtc_handler", at |-> "body"]) = {2, RTC_IRQ}
          /\ Pending([handler |-> "rtc_handler", at |-> "eoi"]) = {2, RTC_IRQ}
      BY DEF Pending
    <3>2. 2 \in isr /\ RTC_IRQ \in isr
      BY <2>2, <3>1 DEF Stacked, Stack, InServiceIsRunning, AboutTo
    <3> QED
      BY <1>2, <1>s, <2>1, <3>1, <3>2, GoesOnStacked
         DEF rtc_interrupt_handler, controller, clock, Places
  <2>5. OneReader' /\ NeverDeaf' /\ ClockStarts'
    BY <1>2, <2>2 DEF rtc_interrupt_handler, controller, OneReader, NeverDeaf,
       ClockStarts, user, clock
  <2> QED
    BY <1>2, <1>r, <2>1, <2>3, <2>4, <2>5
       DEF rtc_interrupt_handler, Stack, Stacked, NoHandlerBeforeSti, clock
<1>3. ASSUME NEW h \in Handlers, NEW from \in {"eoi", "eoi_slave"},
             NEW at \in {"eoi_slave", "iret"}, Runs(h, from), Goto(at),
             at = "eoi_slave" => h = "rtc_handler",
             isr' = (isr \ Pending([handler |-> h, at |-> from]))
                       \cup Pending([handler |-> h, at |-> at]),
             isr' \subseteq isr,
             UNCHANGED <<boot, interrupts_on, mask, irr, queue, pf, pie, status,
                         user, clock>>
      PROVE  IInv'
  <2>1. Stacked'
    BY <1>3, <1>s, GoesOnStacked DEF Places, clock
  <2>2. TypeOK'
    <3>1. frames' \in Seq(Frame)
      BY <1>3, GoesOn DEF TypeOK, Places
    <3> QED
      BY <1>3, <3>1 DEF TypeOK, user, clock
  <2>3. \A r : AboutTo(r)' <=> AboutTo(r)
    BY <1>3, ReadersStay
  <2>4. OneReader' /\ NeverDeaf' /\ ClockStarts'
    BY <1>3, <2>3 DEF OneReader, NeverDeaf, ClockStarts, user, clock
  <2>5. boot = "execute" /\ boot' = "execute"
    BY <1>3 DEF Runs, Stack, NoHandlerBeforeSti
  <2> QED
    BY <2>1, <2>2, <2>4, <2>5 DEF Stack, Stacked, NoHandlerBeforeSti
<1>4. ASSUME NEW h \in Handlers, send_eoi(h) PROVE IInv'
  <2>1. CASE h = "keyboard_handler"
    <3>1. /\ IrqOf(h) = KEYBOARD_IRQ /\ ~(IrqOf(h) > 7)
          /\ eoi_master(IrqOf(h)) = KEYBOARD_IRQ
      BY <2>1 DEF IrqOf, eoi_master
    <3>2. /\ Pending([handler |-> h, at |-> "eoi"]) = {KEYBOARD_IRQ}
          /\ Pending([handler |-> h, at |-> "iret"]) = {}
      BY <2>1 DEF Pending
    <3>3. /\ Runs(h, "eoi") /\ Goto("iret") /\ isr' = isr \ {KEYBOARD_IRQ}
          /\ UNCHANGED <<boot, interrupts_on, mask, irr, queue, pf, pie, status,
                         user, clock>>
      BY <1>4, <3>1 DEF send_eoi
    <3> QED
      BY <1>3, <3>2, <3>3
  <2>2. CASE h = "rtc_handler"
    <3>1. /\ IrqOf(h) = RTC_IRQ /\ IrqOf(h) > 7 /\ eoi_master(IrqOf(h)) = 2
      BY <2>2 DEF IrqOf, eoi_master
    <3>2. /\ Pending([handler |-> h, at |-> "eoi"]) = {2, RTC_IRQ}
          /\ Pending([handler |-> h, at |-> "eoi_slave"]) = {RTC_IRQ}
      BY <2>2 DEF Pending
    <3>3. /\ Runs(h, "eoi") /\ Goto("eoi_slave") /\ isr' = isr \ {2}
          /\ UNCHANGED <<boot, interrupts_on, mask, irr, queue, pf, pie, status,
                         user, clock>>
      BY <1>4, <3>1 DEF send_eoi
    <3>4. RTC_IRQ \in isr
      <4>1. /\ Len(frames) \in DOMAIN frames
            /\ frames[Len(frames)] = [handler |-> h, at |-> "eoi"]
        BY <3>3 DEF Runs, Last, TypeOK
      <4> QED
        BY <3>2, <4>1 DEF Stack, InServiceIsRunning
    <3>5. isr' = (isr \ {2, RTC_IRQ}) \cup {RTC_IRQ} /\ isr' \subseteq isr
      BY <3>3, <3>4
    <3> QED
      BY <1>3, <2>2, <3>2, <3>3, <3>5, Zenon
  <2> QED
    BY <1>4, <2>1, <2>2 DEF Handlers
<1>5. ASSUME NEW h \in Handlers, send_eoi_slave(h) PROVE IInv'
  <2>1. Runs(h, "eoi_slave") /\ Goto("iret")
    BY <1>5 DEF send_eoi_slave
  <2>2. h = "rtc_handler"
    <3>1. /\ Len(frames) \in DOMAIN frames
          /\ frames[Len(frames)] = [handler |-> h, at |-> "eoi_slave"]
      BY <2>1 DEF Runs, Last, TypeOK
    <3> QED
      BY <3>1 DEF Stack, OneByteForMaster, Handlers
  <2>3. isr' = isr \ {RTC_IRQ}
    BY <1>5, <2>2 DEF send_eoi_slave, eoi_slave, IrqOf
  <2>4. /\ Pending([handler |-> h, at |-> "eoi_slave"]) = {RTC_IRQ}
        /\ Pending([handler |-> h, at |-> "iret"]) = {}
    BY DEF Pending
  <2> QED
    BY <1>3, <1>5, <2>1, <2>3, <2>4 DEF send_eoi_slave
<1>6. ASSUME NEW h \in Handlers, iret(h) PROVE IInv'
  <2>1. /\ Runs(h, "iret") /\ frames' = Front(frames) /\ isr' = isr
        /\ interrupts_on' = TRUE
        /\ UNCHANGED <<boot, mask, irr, queue, pf, pie, status, user, clock>>
    BY <1>6 DEF iret, controller
  <2>2. Stacked'
    BY <1>s, <2>1, EndedStacked DEF clock
  <2>3. TypeOK'
    <3>1. frames' \in Seq(Frame)
      BY <2>1, Ended DEF TypeOK
    <3> QED
      BY <2>1, <3>1 DEF TypeOK, user, clock
  <2>4. \A r : AboutTo(r)' <=> AboutTo(r)
    BY <2>1, ReadersStay
  <2>5. OneReader' /\ NeverDeaf' /\ ClockStarts'
    BY <2>1, <2>4 DEF OneReader, NeverDeaf, ClockStarts, user, clock
  <2>6. boot = "execute" /\ boot' = "execute"
    BY <2>1 DEF Runs, Stack, NoHandlerBeforeSti
  <2> QED
    BY <2>2, <2>3, <2>5, <2>6 DEF Stack, Stacked, NoHandlerBeforeSti
<1>7. CASE DivideError
  <2>1. /\ Runs("rtc_handler", "body") /\ Goto("exception")
        /\ isr' = isr /\ lost' = TRUE /\ "rtc_handler" \in Handlers
        /\ UNCHANGED <<boot, interrupts_on, mask, irr, queue, pie, status, user,
                       virtual_frequency>>
    BY <1>7 DEF DivideError, controller, Handlers
  <2>2. /\ ~AboutTo("rtc_handler")'
        /\ AboutTo("keyboard_handler")' <=> AboutTo("keyboard_handler")
    BY <1>s, <2>1, ReaderReads DEF Handlers
  <2>3. TypeOK'
    <3>1. frames' \in Seq(Frame)
      BY <2>1, GoesOn DEF TypeOK, Places
    <3>2. pf' \in BOOLEAN
      BY <1>7 DEF DivideError, TypeOK
    <3> QED
      BY <2>1, <3>1, <3>2 DEF TypeOK, user
  <2>4. Stacked'
    BY <1>s, <2>1, ErrorStacked
  <2>5. OneReader' /\ NeverDeaf' /\ ClockStarts'
    BY <2>1, <2>2 DEF OneReader, NeverDeaf, ClockStarts, user
  <2>6. boot' = "execute"
    BY <1>r, <2>1
  <2> QED
    BY <2>3, <2>4, <2>5, <2>6 DEF Stack, Stacked, NoHandlerBeforeSti
<1>8. CASE INT_0
  <2>1. /\ Runs("rtc_handler", "exception") /\ frames' = <<>>
        /\ interrupts_on' = FALSE
        /\ UNCHANGED <<boot, mask, irr, isr, queue, pf, pie, status, user, clock>>
    BY <1>8 DEF INT_0, controller
  <2>2. Stacked' /\ \A r : ~AboutTo(r) /\ ~AboutTo(r)'
    BY <1>s, <2>1, AbandonedStacked DEF clock
  <2>3. TypeOK'
    <3>0. <<>> \in Seq(Frame)
      OBVIOUS
    <3>1. frames' \in Seq(Frame) /\ interrupts_on' \in BOOLEAN
      BY <2>1, <3>0, Zenon
    <3> QED
      BY <2>1, <3>1 DEF TypeOK, user, clock
  <2>4. OneReader' /\ NeverDeaf' /\ ClockStarts'
    BY <2>1, <2>2 DEF OneReader, NeverDeaf, ClockStarts, user, clock
  <2>5. boot' = "execute"
    BY <2>1 DEF Runs, Stack, NoHandlerBeforeSti
  <2> QED
    BY <2>2, <2>3, <2>4, <2>5 DEF Stack, Stacked, NoHandlerBeforeSti
<1> QED
  BY <1>1, <1>2, <1>4, <1>5, <1>6, <1>7, <1>8 DEF Handle

LEMMA StepInv == IInv /\ [Next]_vars => IInv'
<1> SUFFICES ASSUME IInv, [Next]_vars PROVE IInv'
  OBVIOUS
<1>1. CASE UNCHANGED vars
  <2>1. \A r : AboutTo(r)' <=> AboutTo(r)
    BY <1>1 DEF vars, AboutTo
  <2>2. Stacked'
    BY <1>1, StackStays DEF vars, controller, clock, IInv, Stack, Stacked
  <2>3. TypeOK'
    BY <1>1 DEF vars, controller, user, clock, IInv, TypeOK
  <2> QED
    BY <1>1, <2>1, <2>2, <2>3 DEF vars, controller, user, clock, IInv, Stack, Stacked,
       NoHandlerBeforeSti, OneReader, ClockStarts, NeverDeaf
<1> QED
  BY <1>1, BootInv, DevicesInv, DeliverInv, HandleInv, CriticalInv DEF Next, CPU

LEMMA Invariance == Spec => []IInv
  BY InitInv, StepInv, PTL DEF Spec

-----------------------------------------------------------------------------
(* The results                                                             *)

(***************************************************************************)
(* The masks stay masks of eight lines, only lines that exist are in       *)
(* service, and the status bits of the keyboard stay bits.                 *)
(***************************************************************************)
THEOREM TypeCorrect == Spec => []TypeOK
<1>1. IInv => TypeOK
  BY DEF IInv
<1> QED
  BY <1>1, Invariance, PTL

(***************************************************************************)
(* A line is in service exactly as long as a handler has yet to end it,    *)
(* but for the clock's two, which a divide error in the handler leaves so  *)
(* for ever.                                                               *)
(***************************************************************************)
THEOREM ServiceMatchesHandlers == Spec => []InServiceIsRunning
<1>1. IInv => InServiceIsRunning
  BY DEF IInv, Stack
<1> QED
  BY <1>1, Invariance, PTL

(***************************************************************************)
(* However deep interrupts nest, a handler is interrupted only when it has *)
(* nothing but its return left, or the clock's by the keyboard's: Terminal *)
(* and Rtc may take a handler for one step.                                *)
(***************************************************************************)
THEOREM HandlersNotReentered == Spec => []NotReentered
<1>1. IInv => NotReentered
  BY DEF IInv, Stack
<1> QED
  BY <1>1, Invariance, PTL

(***************************************************************************)
(* No byte and no tick that came after i8259_init is left unread without   *)
(* an edge or a handler that is about to read it, the ticks until a divide *)
(* error takes the clock's handler away.                                   *)
(***************************************************************************)
THEOREM NoLostEdge == Spec => []NeverDeaf
<1>1. IInv => NeverDeaf
  BY DEF IInv
<1> QED
  BY <1>1, Invariance, PTL

-----------------------------------------------------------------------------
(* What is typed                                                           *)

(***************************************************************************)
(* What TypesWhatIsPressed needs: there is a status behind each byte that  *)
(* waits, reached from the present one through the bytes before it; a clean*)
(* byte does in its status what was wanted; and the status behind the last *)
(* is what the user holds down now, but for a shift key let go before the  *)
(* other.                                                                  *)
(***************************************************************************)
Reflects(s) ==
    /\ s.ctrl = 1 <=> CTRL_PRESS \in held
    /\ s.caps = lock
    /\ ~confused => (s.shift = 1 <=> Shift)

Follows(st) ==
    /\ st \in [0 .. Len(queue) -> Status]
    /\ st[0] = status
    /\ \A i \in 1 .. Len(queue) :
          LET key == queue[i].code
          IN  /\ st[i] = special_button_status(st[i - 1], key)
              /\ queue[i].clean => Effect(st[i], key) = queue[i].wanted
    /\ Reflects(st[Len(queue)])

StatusFollows == \E st : Follows(st)

\* A key that is no modifier does what is wanted, in a status that reflects
\* what is held down.
LEMMA KeyDoesWanted ==
    ASSUME NEW s \in Status, NEW key \in Codes, TypeOK, Reflects(s), ~confused,
           key \notin Modifiers \cup {k + 128 : k \in Modifiers}
    PROVE  Effect(special_button_status(s, key), key) = Wanted(key)
<1> DEFINE t == special_button_status(s, key)
           keys == /\ LSHIFT_PRESS = 42 /\ LSHIFT_RELEASE = 170
                   /\ RSHIFT_PRESS = 54 /\ RSHIFT_RELEASE = 182
                   /\ CTRL_PRESS = 29 /\ CTRL_RELEASE = 157
                   /\ CAPS = 58 /\ TAB = 15 /\ SPACE = 57 /\ BACKSPACE = 14
                   /\ ENTER = 28 /\ KEY_L = 38
<1>1. keys
  BY DEF LSHIFT_PRESS, LSHIFT_RELEASE, RSHIFT_PRESS, RSHIFT_RELEASE, CTRL_PRESS,
         CTRL_RELEASE, CAPS, TAB, SPACE, BACKSPACE, ENTER, KEY_L
<1>2. key \notin {42, 54, 29, 170, 182, 157}
  BY <1>1 DEF Modifiers
<1>3. /\ t.shift = s.shift /\ t.ctrl = s.ctrl
      /\ key # 58 => t.caps = s.caps /\ t.special_change = 0
  BY <1>1, <1>2 DEF special_button_status
<1>4. /\ s.shift \in {0, 1} /\ s.ctrl \in {0, 1} /\ s.caps \in {0, 1}
      /\ (s.shift = 1 <=> Shift) /\ s.caps = lock
      /\ (s.ctrl = 1 <=> CTRL_PRESS \in held)
  BY DEF Status, Reflects
<1>5. /\ Letters \cap Symbols = {}
      /\ \A k \in Letters \cup Symbols :
            k \in Nat /\ k < 57 /\ k \notin {14, 15, 28, 57, 58}
      /\ 38 \in Letters
  BY DEF Letters, Symbols
<1>6. key \in Nat
  BY DEF Codes
<1> HIDE DEF t
<1>7. CASE key \in Letters \cup Symbols /\ ~(key = 38 /\ s.ctrl = 1)
  <2>1. Effect(t, key) = Char(key, key \in Table(t))
    BY <1>1, <1>3, <1>4, <1>5, <1>6, <1>7 DEF Effect
  <2>2. CASE key \in Letters
    <3>1. Wanted(key) = Char(key, Shift # (lock = 1))
      BY <1>1, <1>4, <1>5, <1>7, <2>2 DEF Wanted
    <3>2. (key \in Table(t)) <=> (Shift # (lock = 1))
      <4>1. key \notin Symbols /\ key # 58
        BY <1>5, <2>2
      <4>2. key \in Table(t) <=> s.shift # s.caps
        BY <1>3, <1>4, <2>2, <4>1
           DEF Table, scancode_lower, scancode_upper, scancode_caps_only,
               scancode_shift_caps
      <4>3. (Shift # (lock = 1)) <=> s.shift # s.caps
        BY <1>4 DEF Shift
      <4> QED
        BY <4>2, <4>3
    <3> QED
      BY <2>1, <3>1, <3>2 DEF t
  <2>3. CASE key \in Symbols
    <3>1. Wanted(key) = Char(key, Shift)
      BY <1>1, <1>4, <1>5, <1>7, <2>3 DEF Wanted
    <3>2. (key \in Table(t)) <=> Shift
      <4>1. key \notin Letters /\ key # 58
        BY <1>5, <2>3
      <4> QED
        BY <1>3, <1>4, <2>3, <4>1
           DEF Table, scancode_lower, scancode_upper, scancode_caps_only,
               scancode_shift_caps
    <3> QED
      BY <2>1, <3>1, <3>2 DEF Shift, t
  <2> QED
    BY <1>7, <2>2, <2>3
<1>8. CASE key = 38 /\ s.ctrl = 1
  <2>1. Effect(t, key) = Does("clean_screen")
    BY <1>1, <1>3, <1>4, <1>8 DEF Effect
  <2>2. Wanted(key) = Does("clean_screen")
    BY <1>1, <1>4, <1>5, <1>8 DEF Wanted
  <2> QED
    BY <2>1, <2>2 DEF t
<1>9. CASE key \notin Letters \cup Symbols
  <2>1. key # 38
    BY <1>5, <1>9
  <2>2. CASE key \in {57, 15, 28, 14}
    BY <1>1, <1>3, <1>9, <2>1, <2>2 DEF Effect, Wanted
  <2>3. CASE key \notin {57, 15, 28, 14}
    <3>1. Effect(t, key) = Nothing
      BY <1>1, <1>3, <1>6, <1>9, <2>1, <2>3 DEF Effect
    <3>2. Wanted(key) = Nothing
      BY <1>1, <1>9, <2>1, <2>3 DEF Wanted
    <3> QED
      BY <3>1, <3>2 DEF t
  <2> QED
    BY <2>2, <2>3
<1> QED
  BY <1>7, <1>8, <1>9 DEF t

\* A modifier does nothing, and nothing is wanted.
LEMMA ModifierDoesNothing ==
    ASSUME NEW s \in Status,
           NEW key \in Modifiers \cup {k + 128 : k \in Modifiers}
    PROVE  Effect(special_button_status(s, key), key) = Wanted(key)
<1> USE DEF Modifiers, LSHIFT_PRESS, LSHIFT_RELEASE, RSHIFT_PRESS, RSHIFT_RELEASE,
            CTRL_PRESS, CTRL_RELEASE, CAPS, TAB, SPACE, BACKSPACE, ENTER, KEY_L
<1>1. key \in {42, 54, 29, 170, 182, 157}
  OBVIOUS
<1>2. key \notin Letters \cup Symbols
  BY <1>1 DEF Letters, Symbols
<1>3. special_button_status(s, key).special_change = 1
  BY <1>1 DEF special_button_status
<1> QED
  BY <1>1, <1>2, <1>3 DEF Effect, Wanted

\* A byte sent is one more status behind the others.
LEMMA SentFollows ==
    ASSUME TypeOK, StatusFollows, NEW key \in Codes, Send(key),
           \A s \in Status :
              Reflects(s) =>
                /\ Reflects(special_button_status(s, key))'
                /\ ~confused =>
                      Effect(special_button_status(s, key), key) = Wanted(key)
    PROVE  StatusFollows'
<1>1. PICK st : Follows(st)
  BY DEF StatusFollows
<1>n. PICK n : n = Len(queue)
  OBVIOUS
<1> DEFINE e == [code |-> key, wanted |-> Wanted(key), clean |-> ~confused]
           next == special_button_status(st[n], key)
           nst == [i \in 0 .. n + 1 |-> IF i = n + 1 THEN next ELSE st[i]]
<1>2. n \in Nat /\ n = Len(queue) /\ queue \in Seq(Byte)
  BY <1>n DEF TypeOK
<1>3. e \in Byte
  BY WantedType DEF Byte, TypeOK
<1>4. queue' = Append(queue, e) /\ status' = status
  BY DEF Send
<1>5. e.code = key /\ e.wanted = Wanted(key) /\ (e.clean => ~confused)
  OBVIOUS
<1> HIDE DEF e
<1>6. /\ Len(queue') = n + 1
      /\ \A i \in 1 .. n : queue'[i] = queue[i]
      /\ queue'[n + 1] = e
  BY <1>2, <1>3, <1>4, AppendProperties
<1>7. /\ st \in [0 .. n -> Status] /\ st[0] = status
      /\ \A i \in 1 .. n :
            /\ st[i] = special_button_status(st[i - 1], queue[i].code)
            /\ queue[i].clean => Effect(st[i], queue[i].code) = queue[i].wanted
      /\ Reflects(st[n])
  BY <1>1, <1>n DEF Follows
<1>8. st[n] \in Status
  BY <1>2, <1>7
<1>9. /\ next \in Status /\ Reflects(next)'
      /\ ~confused => Effect(next, key) = Wanted(key)
  BY <1>7, <1>8, StatusStays
<1> HIDE DEF next
<1>10. /\ nst \in [0 .. n + 1 -> Status] /\ nst[n + 1] = next
       /\ \A i \in 0 .. n : nst[i] = st[i]
  <2>1. \A i \in 0 .. n + 1 : i = n + 1 \/ i \in 0 .. n
    BY <1>2
  <2>2. \A i \in 0 .. n : i \in 0 .. n + 1 /\ i # n + 1
    BY <1>2
  <2>3. n + 1 \in 0 .. n + 1
    BY <1>2
  <2> QED
    BY <1>7, <1>9, <2>1, <2>2, <2>3
<1> HIDE DEF nst
<1>11. ASSUME NEW i \in 1 .. n + 1
       PROVE  /\ nst[i] = special_button_status(nst[i - 1], queue'[i].code)
              /\ queue'[i].clean => Effect(nst[i], queue'[i].code) = queue'[i].wanted
  <2>1. CASE i \in 1 .. n
    <3>1. nst[i] = st[i] /\ nst[i - 1] = st[i - 1] /\ queue'[i] = queue[i]
      BY <1>2, <1>6, <1>10, <2>1
    <3> QED
      BY <1>7, <2>1, <3>1
  <2>2. CASE i = n + 1
    <3>1. nst[i] = next /\ nst[i - 1] = st[n] /\ queue'[i] = e
      BY <1>2, <1>6, <1>10, <2>2
    <3> QED
      BY <1>5, <1>9, <3>1 DEF next
  <2> QED
    BY <1>2, <2>1, <2>2
<1>12. nst[0] = status' /\ Reflects(nst[Len(queue)])'
  <2>1. nst[0] = status'
    BY <1>2, <1>4, <1>7, <1>10
  <2>2. nst[Len(queue')] = next
    BY <1>6, <1>10
  <2>3. Reflects(nst[Len(queue)])'
    BY <1>9, <2>2 DEF Reflects
  <2> QED
    BY <2>1, <2>3
<1>13. Follows(nst)'
  BY <1>6, <1>10, <1>11, <1>12 DEF Follows
<1> QED
  BY <1>13 DEF StatusFollows

\* The byte the handler reads has the status it leaves behind.
LEMMA ReadFollows ==
    ASSUME IInv, StatusFollows, keyboard_interrupt_handler
    PROVE  StatusFollows'
<1>1. PICK st : Follows(st)
  BY DEF StatusFollows
<1>n. PICK n : n = Len(queue)
  OBVIOUS
<1> DEFINE nst == [i \in 0 .. n - 1 |-> st[i + 1]]
<1>2. queue # <<>>
  <2>1. AboutTo("keyboard_handler")
    BY DEF keyboard_interrupt_handler, Runs, AboutTo, Last, IInv, TypeOK
  <2> QED
    BY <2>1 DEF IInv, OneReader
<1>3. n \in Nat \ {0} /\ n = Len(queue) /\ queue \in Seq(Byte)
  BY <1>2, <1>n, EmptySeq DEF IInv, TypeOK
<1>4. /\ queue' = Tail(queue)
      /\ status' = special_button_status(status, queue[1].code)
      /\ UNCHANGED <<held, lock, confused>>
  BY DEF keyboard_interrupt_handler, user
<1>5. Len(queue') = n - 1 /\ \A i \in 1 .. n - 1 : queue'[i] = queue[i + 1]
  BY <1>2, <1>3, <1>4, HeadTailProperties
<1>6. /\ st \in [0 .. n -> Status] /\ st[0] = status
      /\ \A i \in 1 .. n :
            /\ st[i] = special_button_status(st[i - 1], queue[i].code)
            /\ queue[i].clean => Effect(st[i], queue[i].code) = queue[i].wanted
      /\ Reflects(st[n])
  BY <1>1, <1>n DEF Follows
<1>7. /\ nst \in [0 .. n - 1 -> Status]
      /\ \A i \in 0 .. n - 1 : nst[i] = st[i + 1]
  BY <1>3, <1>6
<1> HIDE DEF nst
<1>8. nst[0] = status'
  BY <1>3, <1>4, <1>6, <1>7
<1>9. ASSUME NEW i \in 1 .. n - 1
      PROVE  /\ nst[i] = special_button_status(nst[i - 1], queue'[i].code)
             /\ queue'[i].clean => Effect(nst[i], queue'[i].code) = queue'[i].wanted
  <2>1. /\ nst[i] = st[i + 1] /\ nst[i - 1] = st[i] /\ queue'[i] = queue[i + 1]
        /\ i + 1 \in 1 .. n /\ (i + 1) - 1 = i
    BY <1>3, <1>5, <1>7
  <2> QED
    BY <1>6, <2>1
<1>10. nst[n - 1] = st[n]
  <2>1. n - 1 \in 0 .. n - 1 /\ (n - 1) + 1 = n
    BY <1>3
  <2> QED
    BY <1>7, <2>1
<1>11. Reflects(nst[Len(queue)])'
  <2>1. nst[Len(queue')] = st[n]
    BY <1>5, <1>10
  <2> QED
    BY <1>4, <1>6, <2>1 DEF Reflects, Shift
<1>12. Follows(nst)'
  BY <1>5, <1>7, <1>8, <1>9, <1>11 DEF Follows
<1> QED
  BY <1>12 DEF StatusFollows

LEMMA StatusInit == Init => StatusFollows
<1> SUFFICES ASSUME Init PROVE StatusFollows
  OBVIOUS
<1> DEFINE st == [i \in 0 .. 0 |-> Released]
<1>1. Len(queue) = 0 /\ status = Released
  BY DEF Init
<1>2. Released \in Status
  BY DEF Released, Status
<1>3. Reflects(Released)
  BY DEF Init, Reflects, Released, Shift
<1>4. Follows(st)
  BY <1>1, <1>2, <1>3 DEF Follows
<1> QED
  BY <1>4 DEF StatusFollows

\* What the user does to the modifiers shows in the status behind the byte.
LEMMA UserFollows ==
    ASSUME IInv, StatusFollows, Devices
    PROVE  StatusFollows'
<1> USE DEF IInv
<1>1. ASSUME NEW key \in Keyboard, OtherKey(key) PROVE StatusFollows'
  <2>1. key \in Codes /\ Send(key) /\ key \notin Modifiers \cup {k + 128 : k \in Modifiers}
    BY <1>1 DEF OtherKey, KeyboardAssumption
  <2>2. ASSUME NEW s \in Status, Reflects(s)
        PROVE  /\ Reflects(special_button_status(s, key))'
               /\ ~confused =>
                     Effect(special_button_status(s, key), key) = Wanted(key)
    <3> DEFINE t == special_button_status(s, key)
    <3>1. /\ t.shift = s.shift /\ t.ctrl = s.ctrl
          /\ t.caps = IF key = CAPS THEN 1 - s.caps ELSE s.caps
      BY <2>1 DEF special_button_status, Modifiers, LSHIFT_PRESS, LSHIFT_RELEASE,
         RSHIFT_PRESS, RSHIFT_RELEASE, CTRL_PRESS, CTRL_RELEASE, CAPS
    <3>2. /\ held' = held /\ confused' = confused
          /\ lock' = IF key = CAPS THEN 1 - lock ELSE lock
      BY <1>1 DEF OtherKey
    <3> HIDE DEF t
    <3>3. Reflects(t)'
      BY <2>2, <3>1, <3>2 DEF Reflects, Shift
    <3> QED
      BY <2>1, <2>2, <3>3, KeyDoesWanted DEF t
  <2> QED
    BY <2>1, <2>2, SentFollows
<1>2. ASSUME NEW key \in Keyboard, PressModifier(key) PROVE StatusFollows'
  <2>1. key \in Codes /\ Send(key) /\ key \in Modifiers
    BY <1>2 DEF PressModifier, KeyboardAssumption
  <2>2. ASSUME NEW s \in Status, Reflects(s)
        PROVE  Reflects(special_button_status(s, key))'
    <3> DEFINE t == special_button_status(s, key)
    <3>1. /\ t.caps = s.caps
          /\ key = CTRL_PRESS => t.ctrl = 1 /\ t.shift = s.shift
          /\ key \in {LSHIFT_PRESS, RSHIFT_PRESS} => t.ctrl = s.ctrl /\ t.shift = 1
      BY <2>1 DEF special_button_status, Modifiers, LSHIFT_PRESS, LSHIFT_RELEASE,
         RSHIFT_PRESS, RSHIFT_RELEASE, CTRL_PRESS, CTRL_RELEASE, CAPS
    <3>2. held' = held \cup {key} /\ confused' = confused /\ lock' = lock
      BY <1>2 DEF PressModifier
    <3> HIDE DEF t
    <3>3. Reflects(t)'
      BY <2>1, <2>2, <3>1, <3>2 DEF Reflects, Shift, Modifiers, LSHIFT_PRESS,
         RSHIFT_PRESS, CTRL_PRESS
    <3> QED
      BY <3>3 DEF t
  <2> QED
    BY <2>1, <2>2, SentFollows, ModifierDoesNothing
<1>3. ASSUME NEW key \in Modifiers, ReleaseModifier(key) PROVE StatusFollows'
  <2>1. key + 128 \in Codes /\ Send(key + 128)
    BY <1>3 DEF ReleaseModifier, Modifiers, LSHIFT_PRESS, RSHIFT_PRESS, CTRL_PRESS,
       Codes
  <2>2. ASSUME NEW s \in Status, Reflects(s)
        PROVE  Reflects(special_button_status(s, key + 128))'
    <3> DEFINE t == special_button_status(s, key + 128)
    <3>1. /\ t.caps = s.caps
          /\ key = CTRL_PRESS => t.ctrl = 0 /\ t.shift = s.shift
          /\ key \in {LSHIFT_PRESS, RSHIFT_PRESS} => t.ctrl = s.ctrl /\ t.shift = 0
      BY DEF special_button_status, Modifiers, LSHIFT_PRESS, LSHIFT_RELEASE,
         RSHIFT_PRESS, RSHIFT_RELEASE, CTRL_PRESS, CTRL_RELEASE, CAPS
    <3>2. /\ held' = held \ {key} /\ lock' = lock
          /\ confused' = IF key = CTRL_PRESS THEN confused
                         ELSE held' \cap {LSHIFT_PRESS, RSHIFT_PRESS} # {}
      BY <1>3 DEF ReleaseModifier
    <3> HIDE DEF t
    <3>3. Reflects(t)'
      <4> USE DEF Reflects, Shift, Modifiers, LSHIFT_PRESS, RSHIFT_PRESS, CTRL_PRESS
      <4>1. (t.ctrl = 1 <=> CTRL_PRESS \in held') /\ t.caps = lock'
        BY <2>2, <3>1, <3>2
      <4>2. CASE key = CTRL_PRESS
        BY <2>2, <3>1, <3>2, <4>1, <4>2
      <4>3. CASE key # CTRL_PRESS
        <5>1. ~confused' => held' \cap {LSHIFT_PRESS, RSHIFT_PRESS} = {}
          BY <3>2, <4>3
        <5>2. t.shift = 0
          BY <3>1, <4>3
        <5> QED
          BY <4>1, <5>1, <5>2
      <4> QED
        BY <4>2, <4>3
    <3> QED
      BY <3>3 DEF t
  <2> QED
    BY <2>1, <2>2, SentFollows, ModifierDoesNothing
<1>4. ASSUME Period PROVE StatusFollows'
  BY <1>4 DEF Period, user, StatusFollows, Follows, Reflects, Shift
<1> QED
  BY <1>1, <1>2, <1>3, <1>4 DEF Devices

LEMMA StatusStep == IInv /\ StatusFollows /\ [Next]_vars => StatusFollows'
<1> SUFFICES ASSUME IInv, StatusFollows, [Next]_vars PROVE StatusFollows'
  OBVIOUS
<1>1. CASE UNCHANGED <<queue, status, held, lock, confused>>
  BY <1>1 DEF StatusFollows, Follows, Reflects, Shift
<1> QED
  BY <1>1, ReadFollows, UserFollows
     DEF Next, CPU, Boot, Handle, i8259_init, keyboard_init, rtc_init, sti, Deliver,
         rtc_interrupt_handler, DivideError, INT_0, send_eoi, send_eoi_slave, iret,
         CriticalBegin, CriticalEnd, SetFrequency, vars, user

(***************************************************************************)
(* However late a key is handled, and whatever was typed before it, it     *)
(* gives what the user wanted, unless one shift key was let go before the  *)
(* other.                                                                  *)
(***************************************************************************)
THEOREM WantedIsTyped == Spec => []TypesWhatIsPressed
<1>1. Spec => []StatusFollows
  BY StatusInit, StatusStep, Invariance, PTL DEF Spec
<1>2. IInv /\ StatusFollows => TypesWhatIsPressed
  <2> SUFFICES ASSUME IInv, StatusFollows, queue # <<>>, queue[1].clean
               PROVE  Effect(special_button_status(status, queue[1].code),
                             queue[1].code) = queue[1].wanted
    BY DEF TypesWhatIsPressed
  <2>1. PICK st : Follows(st)
    BY DEF StatusFollows
  <2>2. 1 \in 1 .. Len(queue)
    BY EmptySeq DEF IInv, TypeOK
  <2>3. st[1] = special_button_status(st[0], queue[1].code)
        /\ Effect(st[1], queue[1].code) = queue[1].wanted /\ st[0] = status
    BY <2>1, <2>2 DEF Follows
  <2> QED
    BY <2>3
<1> QED
  BY <1>1, <1>2, Invariance, PTL
=============================================================================
