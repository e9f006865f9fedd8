----------------------------- MODULE Interrupts -----------------------------
(***************************************************************************)
(* How interrupts reach their handlers: what entry() sets up (kernel.c),   *)
(* the masks and the end of interrupt of the two 8259 controllers          *)
(* (i8259.c), the gates (idt.c), and the two handlers as the linkage in    *)
(* key_sd.S runs them, with what they say to their devices.                *)
(*                                                                         *)
(* The controllers, the keyboard controller and the clock chip are         *)
(* external and behave as their data sheets say: requests are edges, an    *)
(* interrupt is passed on when it is not masked and nothing of its own or  *)
(* a higher priority is in service, a byte or a tick that is not read      *)
(* makes no second edge, and ICW1 forgets the edges seen so far.           *)
(*                                                                         *)
(* What the handlers do to the keyboard buffer and to the virtual clock is *)
(* in Terminal and Rtc.  Both take a handler for one step; what that rests *)
(* on is shown here.  Of the clock's only what decides whether it divides  *)
(* by zero is kept: the frequency programs have written.                   *)
(***************************************************************************)
EXTENDS Keys, Sequences, SequencesExt

CONSTANTS
    Keyboard,     \* bytes the keyboard sends
    QueueSize,    \* bound: bytes it holds back until they are read
    MaxNesting,   \* bound: devices are silent while as many handlers run
    BASE,         \* ticks per second of the chip: 1024 in the code
    Frequencies   \* what programs write to the clock

Modifiers == {LSHIFT_PRESS, RSHIFT_PRESS, CTRL_PRESS}

ASSUME KeyboardAssumption ==
    /\ Keyboard \subseteq Codes
    /\ QueueSize \in Nat /\ MaxNesting \in Nat

ASSUME FrequencyAssumption == BASE \in Nat \ {0} /\ Frequencies \subseteq Int

KEYBOARD_IRQ == 1
RTC_IRQ == 8
Irqs == {KEYBOARD_IRQ, RTC_IRQ}

VARIABLES
    boot,           \* the call of entry() that comes next
    interrupts_on,  \* EFLAGS.IF
    mask,           \* master_mask and slave_mask: the lines that are off
    irr,            \* the lines that have had an edge
    isr,            \* the lines in service, as lines 0 to 15
    frames,         \* the handlers begun and not ended, the running one last
    queue,          \* bytes the keyboard has for the CPU
    pf,             \* the chip's periodic flag, cleared by reading register C
    pie,            \* its periodic interrupt is enabled
    status,         \* status_shift, status_ctrl, status_caps, special_change
    held,           \* the modifiers the user holds down
    lock,           \* the user's idea of caps lock
    confused,       \* history: one shift key was let go while the other was
                    \* held, and that one still is
    early,          \* history: a key was pressed before i8259_init
    virtual_frequency,
    lost            \* history: a divide error took the clock's handler away

controller == <<mask, irr, isr>>
user == <<held, lock, confused, early>>
clock == <<virtual_frequency, lost>>
vars == <<boot, interrupts_on, controller, frames, queue, pf, pie, status, user,
          clock>>

Calls == {"i8259_init", "keyboard_init", "rtc_init", "sti", "execute"}
Places == {"body", "exception", "eoi", "eoi_slave", "iret"}
Handlers == {"keyboard_handler", "rtc_handler"}
Effects == {Nothing} \cup {Does(w) : w \in {"blank", "tab", "clean_screen",
                                              "enter", "backspace"}}
             \cup {Char(k, u) : k \in Letters \cup Symbols, u \in BOOLEAN}
Frame == [handler : Handlers, at : Places]
Byte == [code : Codes, wanted : Effects, clean : BOOLEAN]

TypeOK ==
    /\ boot \in Calls
    /\ interrupts_on \in BOOLEAN
    /\ mask \in [master : SUBSET (0 .. 7), slave : SUBSET (0 .. 7)]
    /\ irr \subseteq Irqs
    /\ isr \subseteq Irqs \cup {2}
    /\ frames \in Seq(Frame)
    /\ queue \in Seq(Byte)
    /\ pf \in BOOLEAN /\ pie \in BOOLEAN
    /\ status \in Status
    /\ held \subseteq Modifiers /\ lock \in {0, 1}
    /\ confused \in BOOLEAN /\ early \in BOOLEAN
    /\ virtual_frequency \in Frequencies \cup {2} /\ lost \in BOOLEAN

\* entry() runs with interrupts off, as boot.S left them.
Init ==
    /\ boot = "i8259_init"
    /\ interrupts_on = FALSE
    /\ mask = [master |-> 0 .. 7, slave |-> 0 .. 7]
    /\ irr = {} /\ isr = {}
    /\ frames = <<>>
    /\ queue = <<>>
    /\ pf = FALSE /\ pie = FALSE
    /\ status = Released
    /\ held = {} /\ lock = 0
    /\ confused = FALSE /\ early = FALSE
    /\ virtual_frequency = 2 /\ lost = FALSE

-----------------------------------------------------------------------------
(* i8259.c and idt.c                                                       *)

\* Mutant: the lines of the slave are counted like those of the master.
EnableWhole(m, irq_num) ==
    CASE irq_num \in 0 .. 7 -> [m EXCEPT !.master = @ \ {irq_num}]
      [] irq_num \in 8 .. 15 -> [m EXCEPT !.slave = @ \ {irq_num}]
      [] OTHER -> m

enable_irq(m, irq_num) ==
    CASE irq_num \in 0 .. 7 -> [m EXCEPT !.master = @ \ {irq_num}]
      [] irq_num \in 8 .. 15 -> [m EXCEPT !.slave = @ \ {irq_num - 8}]
      [] OTHER -> m

disable_irq(m, irq_num) ==
    CASE irq_num \in 0 .. 7 -> [m EXCEPT !.master = @ \cup {irq_num}]
      [] irq_num \in 8 .. 15 -> [m EXCEPT !.slave = @ \cup {irq_num - 8}]
      [] OTHER -> m

\* What one outb of send_eoi ends: for the slave's lines there are two.
eoi_master(irq_num) == IF irq_num \in 0 .. 7 THEN irq_num ELSE 2
eoi_slave(irq_num) == irq_num

\* ICW2: the vectors of the lines.
ICW2_MASTER == 32
ICW2_SLAVE == 40
Vector(irq) == IF irq < 8 THEN ICW2_MASTER + irq ELSE ICW2_SLAVE + irq - 8

\* idt_init: the condition on reserved3 holds of every index.
Gate(vector) ==
    [reserved3 |-> IF vector # 15 \/ vector < 32 THEN 1 ELSE 0,
     present |-> 1,
     dpl |-> IF vector = 128 THEN 3 ELSE 0,
     handler |-> CASE vector = 33 -> "keyboard_handler"
                   [] vector = 40 -> "rtc_handler"
                   [] vector = 128 -> "systemcall_wrapper"
                   [] vector \in 0 .. 19 -> <<"INT", vector>>
                   [] OTHER -> "none"]

-----------------------------------------------------------------------------
(* entry()                                                                 *)

Then(this, next) == boot = this /\ boot' = next

\* All lines off but the one the slave is on; ICW1 forgets edges.
i8259_init ==
    /\ Then("i8259_init", "keyboard_init")
    /\ mask' = enable_irq([master |-> 0 .. 7, slave |-> 0 .. 7], 2)
    /\ irr' = {} /\ isr' = {}
    /\ early' = (queue # <<>>)
    /\ UNCHANGED <<interrupts_on, frames, queue, pf, pie, status, held, lock,
                   confused, clock>>

keyboard_init ==
    /\ Then("keyboard_init", "rtc_init")
    /\ mask' = enable_irq(mask, KEYBOARD_IRQ)
    /\ UNCHANGED <<interrupts_on, irr, isr, frames, queue, pf, pie, status,
                   user, clock>>

rtc_init ==
    /\ Then("rtc_init", "sti")
    /\ mask' = enable_irq(disable_irq(mask, RTC_IRQ), RTC_IRQ)
    /\ pie' = TRUE
    /\ irr' = irr \cup (IF pf THEN {RTC_IRQ} ELSE {})
    /\ UNCHANGED <<interrupts_on, isr, frames, queue, pf, status, user, clock>>

sti ==
    /\ Then("sti", "execute")
    /\ interrupts_on' = TRUE
    /\ UNCHANGED <<controller, frames, queue, pf, pie, status, user, clock>>

-----------------------------------------------------------------------------
(* The devices                                                             *)

Quiet == Len(frames) >= MaxNesting

Shift == held \cap {LSHIFT_PRESS, RSHIFT_PRESS} # {}

\* What the user means by a key: shift reverses caps lock for the letters, and
\* caps lock is nothing to the other keys.
Wanted(key) ==
    CASE key = KEY_L /\ CTRL_PRESS \in held -> Does("clean_screen")
      [] key \in Letters /\ ~(key = KEY_L /\ CTRL_PRESS \in held) ->
           Char(key, Shift # (lock = 1))
      [] key \in Symbols -> Char(key, Shift)
      [] key = SPACE -> Does("blank")
      [] key = TAB -> Does("tab")
      [] key = ENTER -> Does("enter")
      [] key = BACKSPACE -> Does("backspace")
      [] OTHER -> Nothing

\* The byte makes an edge when the keyboard had none to give.
Send(key) ==
    /\ ~Quiet /\ key \in Keyboard /\ Len(queue) < QueueSize
    /\ queue' = Append(queue, [code |-> key, wanted |-> Wanted(key),
                                clean |-> ~confused])
    /\ irr' = irr \cup (IF queue = <<>> THEN {KEYBOARD_IRQ} ELSE {})
    /\ UNCHANGED <<boot, interrupts_on, mask, isr, frames, pf, pie, status,
                   early, clock>>

\* Any other key, pressed or let go.
OtherKey(key) ==
    /\ key \notin Modifiers \cup {k + 128 : k \in Modifiers}
    /\ Send(key)
    /\ lock' = IF key = CAPS THEN 1 - lock ELSE lock
    /\ UNCHANGED <<held, confused>>

PressModifier(key) ==
    /\ key \in Modifiers \ held
    /\ Send(key)
    /\ held' = held \cup {key}
    /\ UNCHANGED <<lock, confused>>

\* A key sends its code with the top bit set when it is let go.
ReleaseModifier(key) ==
    /\ key \in held
    /\ Send(key + 128)
    /\ held' = held \ {key}
    /\ confused' = IF key = CTRL_PRESS THEN confused
                   ELSE held' \cap {LSHIFT_PRESS, RSHIFT_PRESS} # {}
    /\ UNCHANGED lock

Period ==
    /\ ~Quiet
    /\ pf' = TRUE
    /\ irr' = irr \cup (IF pie /\ ~pf THEN {RTC_IRQ} ELSE {})
    /\ UNCHANGED <<boot, interrupts_on, mask, isr, frames, queue, pie, status,
                   user, clock>>

-----------------------------------------------------------------------------
(* The CPU                                                                 *)

PassesOn(irq) ==
    IF irq = RTC_IRQ
    THEN /\ RTC_IRQ \in irr /\ 0 \notin mask.slave /\ RTC_IRQ \notin isr
         /\ 2 \notin mask.master /\ isr \cap {1, 2} = {}
         /\ ~(KEYBOARD_IRQ \in irr /\ 1 \notin mask.master)
    ELSE KEYBOARD_IRQ \in irr /\ 1 \notin mask.master /\ 1 \notin isr

\* Through a trap gate interrupts stay on.
Deliver(irq) ==
    /\ interrupts_on /\ PassesOn(irq)
    /\ LET gate == Gate(Vector(irq))
       IN  /\ frames' = Append(frames, [handler |-> gate.handler, at |-> "body"])
           /\ interrupts_on' = (gate.reserved3 = 1)
    /\ irr' = irr \ {irq}
    /\ isr' = isr \cup (IF irq = RTC_IRQ THEN {2, irq} ELSE {irq})
    /\ UNCHANGED <<boot, mask, queue, pf, pie, status, user, clock>>

\* An interrupt that is passed on is taken before the next instruction.
Undisturbed == ~(interrupts_on /\ \E irq \in Irqs : PassesOn(irq))

Runs(handler, at) ==
    /\ Undisturbed
    /\ frames # <<>> /\ Last(frames) = [handler |-> handler, at |-> at]

Goto(at) == frames' = [frames EXCEPT ![Len(frames)].at = at]

\* Mutant: the end of interrupt is sent first.
ReadAndEnd ==
    /\ Runs("keyboard_handler", "body")
    /\ Goto("eoi")
    /\ isr' = isr \ {KEYBOARD_IRQ}
    /\ status' = special_button_status(status, Head(queue).code)
    /\ queue' = Tail(queue)
    /\ irr' = irr \cup (IF Tail(queue) # <<>> THEN {KEYBOARD_IRQ} ELSE {})
    /\ UNCHANGED <<boot, interrupts_on, mask, pf, pie, user, clock>>

\* inb lets the next byte, if there is one, through; every way through the
\* handler ends in send_eoi.
keyboard_interrupt_handler ==
    /\ Runs("keyboard_handler", "body")
    /\ Goto("eoi")
    /\ status' = special_button_status(status, Head(queue).code)
    /\ queue' = Tail(queue)
    /\ irr' = irr \cup (IF Tail(queue) # <<>> THEN {KEYBOARD_IRQ} ELSE {})
    /\ UNCHANGED <<boot, interrupts_on, mask, isr, pf, pie, user, clock>>

\* The frequencies by which 1024 can be divided, and for which it can be divided
\* by the quotient.
Divides(f) == f # 0 /\ f \in -BASE .. BASE

\* Mutant: register C is not read.
CountTick ==
    /\ Runs("rtc_handler", "body") /\ Divides(virtual_frequency)
    /\ Goto("eoi")
    /\ UNCHANGED <<boot, interrupts_on, controller, pf, queue, pie, status, user,
                   clock>>

rtc_interrupt_handler ==
    /\ Runs("rtc_handler", "body") /\ Divides(virtual_frequency)
    /\ Goto("eoi")
    /\ pf' = FALSE
    /\ UNCHANGED <<boot, interrupts_on, controller, queue, pie, status, user,
                   clock>>

\* A divide error, for 0 in the first division, before register C is read.
DivideError ==
    /\ Runs("rtc_handler", "body") /\ ~Divides(virtual_frequency)
    /\ Goto("exception")
    /\ pf' = (pf /\ virtual_frequency = 0)
    /\ lost' = TRUE
    /\ UNCHANGED <<boot, interrupts_on, controller, queue, pie, status, user,
                   virtual_frequency>>

\* Behind another trap gate, cli and halt: the parent goes on, on its own stack,
\* and what is on this one is never returned to.
INT_0 ==
    /\ Runs("rtc_handler", "exception")
    /\ frames' = <<>>
    /\ interrupts_on' = FALSE
    /\ UNCHANGED <<boot, controller, queue, pf, pie, status, user, clock>>

IrqOf(handler) == IF handler = "keyboard_handler" THEN KEYBOARD_IRQ ELSE RTC_IRQ

\* Mutant: the slave is not told.
SendMasterOnly(handler) ==
    /\ Runs(handler, "eoi")
    /\ isr' = isr \ {eoi_master(IrqOf(handler))}
    /\ Goto("iret")
    /\ UNCHANGED <<boot, interrupts_on, mask, irr, queue, pf, pie, status,
                   user, clock>>

\* Mutant: the end of interrupt is left out.
SendNothing(handler) ==
    /\ Runs(handler, "eoi")
    /\ Goto(IF IrqOf(handler) > 7 THEN "eoi_slave" ELSE "iret")
    /\ UNCHANGED <<boot, interrupts_on, controller, queue, pf, pie, status,
                   user, clock>>

send_eoi(handler) ==
    /\ Runs(handler, "eoi")
    /\ isr' = isr \ {eoi_master(IrqOf(handler))}
    /\ Goto(IF IrqOf(handler) > 7 THEN "eoi_slave" ELSE "iret")
    /\ UNCHANGED <<boot, interrupts_on, mask, irr, queue, pf, pie, status,
                   user, clock>>

send_eoi_slave(handler) ==
    /\ Runs(handler, "eoi_slave")
    /\ isr' = isr \ {eoi_slave(IrqOf(handler))}
    /\ Goto("iret")
    /\ UNCHANGED <<boot, interrupts_on, mask, irr, queue, pf, pie, status,
                   user, clock>>

\* popfl and iret: it was with interrupts on that the handler was entered.
iret(handler) ==
    /\ Runs(handler, "iret")
    /\ frames' = Front(frames)
    /\ interrupts_on' = TRUE
    /\ UNCHANGED <<boot, controller, queue, pf, pie, status, user, clock>>

\* RTC_open and RTC_write, by the program that runs.
SetFrequency ==
    /\ Undisturbed /\ boot = "execute" /\ frames = <<>> /\ interrupts_on
    /\ virtual_frequency' \in Frequencies \cup {2}
    /\ UNCHANGED <<boot, interrupts_on, controller, frames, queue, pf, pie, status,
                   user, lost>>

\* execute and halt run with interrupts off, from their cli to an iret or to
\* the popfl of the wrapper.
CriticalBegin ==
    /\ Undisturbed /\ boot = "execute" /\ frames = <<>> /\ interrupts_on
    /\ interrupts_on' = FALSE
    /\ UNCHANGED <<boot, controller, frames, queue, pf, pie, status, user,
                   clock>>

CriticalEnd ==
    /\ boot = "execute" /\ frames = <<>> /\ ~interrupts_on
    /\ interrupts_on' = TRUE
    /\ UNCHANGED <<boot, controller, frames, queue, pf, pie, status, user,
                   clock>>

Boot == i8259_init \/ keyboard_init \/ rtc_init \/ sti

Handle ==
    \/ keyboard_interrupt_handler
    \/ rtc_interrupt_handler \/ DivideError \/ INT_0
    \/ \E h \in Handlers : send_eoi(h) \/ send_eoi_slave(h) \/ iret(h)

CPU == Boot \/ (\E irq \in Irqs : Deliver(irq)) \/ Handle \/ CriticalEnd

Devices ==
    \/ \E key \in Keyboard : \/ OtherKey(key)
                             \/ PressModifier(key)
    \/ \E key \in Modifiers : ReleaseModifier(key)
    \/ Period

Next == CPU \/ CriticalBegin \/ SetFrequency \/ Devices

(***************************************************************************)
(* The CPU goes on with what it is doing; that a program makes a system    *)
(* call, a key is pressed or the clock ticks is never certain.             *)
(***************************************************************************)
Spec == Init /\ [][Next]_vars /\ WF_vars(CPU)

-----------------------------------------------------------------------------
(* What must hold                                                          *)

Pending(frame) ==
    IF frame.at \in {"exception", "iret"} THEN {}
    ELSE IF frame.at = "eoi_slave" THEN {RTC_IRQ}
    ELSE IF frame.handler = "keyboard_handler" THEN {KEYBOARD_IRQ}
    ELSE {2, RTC_IRQ}

(***************************************************************************)
(* What a controller thinks is in service is what the handlers on the      *)
(* stack have yet to end, none being ended by one that is not its own; and *)
(* the two lines of the clock for ever, once a divide error has taken its  *)
(* handler away.  No other line is left shut by a handler that is gone.    *)
(***************************************************************************)
InServiceIsRunning ==
    \A line \in Irqs \cup {2} :
       line \in isr <=> \/ \E n \in DOMAIN frames : line \in Pending(frames[n])
                        \/ lost /\ line \in {2, RTC_IRQ}

(***************************************************************************)
(* Trap gates leave interrupts on in the handlers.  All the same a handler *)
(* is interrupted only where nothing but its return is left, or, that of   *)
(* the clock, by the keyboard's, in a divide error, too: none sees its own *)
(* variables change.                                                       *)
(***************************************************************************)
NotReentered ==
    \A n \in 1 .. Len(frames) - 1 :
       frames[n].at # "iret" =>
          /\ frames[n].handler = "rtc_handler"
          /\ \A k \in n + 1 .. Len(frames) : frames[k].handler = "keyboard_handler"

(***************************************************************************)
(* No byte and no tick waits unread with its line low: it has an edge that *)
(* is still to be served or a handler that is about to read it.  A line    *)
(* that was lost would never rise again.  A key pressed before i8259_init  *)
(* is such a loss, and so is the clock after a divide error.               *)
(***************************************************************************)
AboutTo(handler) == \E n \in DOMAIN frames :
                       frames[n] = [handler |-> handler, at |-> "body"]

NeverDeaf ==
    /\ ~early /\ boot # "i8259_init" =>
         (queue # <<>> <=> KEYBOARD_IRQ \in irr \/ AboutTo("keyboard_handler"))
    /\ pie /\ ~lost => (pf <=> RTC_IRQ \in irr \/ AboutTo("rtc_handler"))

(***************************************************************************)
(* A key gives what it would have given when it was pressed, however late  *)
(* it is handled, unless one shift key had been let go before the other.   *)
(***************************************************************************)
TypesWhatIsPressed ==
    queue # <<>> /\ Head(queue).clean =>
       LET key == Head(queue).code
       IN  Effect(special_button_status(status, key), key) = Head(queue).wanted

\* Every byte is read in the end, whatever else happens.
KeysAreRead == []<>(queue = <<>> \/ early \/ AboutTo("keyboard_handler"))

\* Ticks are read in the end, too, once the keyboard, which comes first, lets
\* the CPU get to them, unless a divide error has silenced the clock.
TicksAreRead ==
    <>[](~AboutTo("keyboard_handler")) =>
       []<>(~pf \/ AboutTo("rtc_handler") \/ lost)
=============================================================================
