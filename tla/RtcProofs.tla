----------------------------- MODULE RtcProofs -----------------------------
(***************************************************************************)
(* The virtual clock keeps time, for every base and whatever opens, writes *)
(* and reads interleave with its ticks.  What has to be known is how far   *)
(* time_counter is ahead of the ticks since the last signal, also while    *)
(* RTC_open has reset the counter but not yet the frequency.               *)
(***************************************************************************)
EXTENDS Rtc, TLAPS

\* The counter never passes the ratio, except on its way to a divide error.
CounterInRange == ~in_service => time_counter \in 0 .. BASE

\* RTC_write assigns what it was called with.
RequestGiven == pc = "write_frequency" => request \in Frequencies

\* The counter under frequency f: it starts at 0, and at 1 after a signal.
InStep(f) ==
    /\ elapsed < Period(f)
    /\ ~in_service => /\ time_counter = elapsed + (IF fresh THEN 0 ELSE 1)
                      /\ time_counter <= BASE \div f

CountsTicks ==
    /\ Timed => InStep(virtual_frequency)
    /\ pc = "open_frequency" /\ HasPeriod(2) /\ ~mistimed => InStep(2)

Types == TypeOK /\ CounterInRange /\ RequestGiven
IInv == Types /\ CountsTicks

USE BaseAssumption DEF HasPeriod

-----------------------------------------------------------------------------
(* Division                                                                *)

LEMMA Quotient ==
    ASSUME NEW n \in Nat, NEW d \in Nat \ {0}
    PROVE  /\ n \div d \in 0 .. n
           /\ d * (n \div d) <= n
           /\ n < d * (n \div d) + d
           /\ n - d * (n \div d) \in 0 .. d - 1
<1>1. n \div d \in Nat /\ n % d \in 0 .. d - 1 /\ n = d * (n \div d) + (n % d)
  BY SMTT(30)
<1>2. ASSUME NEW q \in Nat PROVE d * q \in Nat /\ q <= d * q
  BY SMTT(30)
<1> QED
  BY <1>1, <1>2

\* C's remainder by a ratio of either sign is below its magnitude.
LEMMA RemainderInRange ==
    ASSUME NEW t \in 0 .. BASE + 1, NEW r \in -BASE .. BASE, r # 0
    PROVE  CMod(t, r) \in 0 .. BASE - 1
<1>1. CASE r > 0
  <2>1. CMod(t, r) = t - r * (t \div r)
    BY <1>1 DEF CMod, CDiv
  <2> QED
    BY <1>1, <2>1, Quotient
<1>2. CASE r < 0
  <2> DEFINE m == -r
             q == t \div m
  <2>1. m \in 1 .. BASE /\ m \in Nat \ {0} /\ t \in Nat /\ r = -m
    BY <1>2
  <2>2. t - m * q \in 0 .. m - 1 /\ q \in 0 .. t
    BY <2>1, Quotient, Zenon
  <2>3. CMod(t, r) = t - r * (-q)
    BY <1>2 DEF CMod, CDiv
  <2> HIDE DEF m, q
  <2>4. r * (-q) = m * q
    BY <2>1, <2>2, SMTT(30)
  <2> QED
    BY <2>1, <2>2, <2>3, <2>4
<1> QED
  BY <1>1, <1>2

\* The ratio of any frequency but 0 has at most the magnitude of the base.
LEMMA RatioInRange ==
    ASSUME virtual_frequency \in Int, virtual_frequency # 0
    PROVE  Ratio \in -BASE .. BASE
<1>1. CASE virtual_frequency > 0
  <2>1. virtual_frequency \in Nat \ {0}
    BY <1>1
  <2>2. BASE \div virtual_frequency \in 0 .. BASE
    BY <2>1, Quotient
  <2> QED
    BY <1>1, <2>2 DEF Ratio, CDiv
<1>2. CASE virtual_frequency < 0
  <2>1. -virtual_frequency \in Nat \ {0}
    BY <1>2
  <2>2. BASE \div (-virtual_frequency) \in 0 .. BASE
    BY <2>1, Quotient
  <2> QED
    BY <1>2, <2>2 DEF Ratio, CDiv
<1> QED
  BY <1>1, <1>2

\* The ratio of a negative frequency is not positive.
LEMMA NegativeRatio ==
    ASSUME virtual_frequency \in Int, virtual_frequency < 0, Ratio # 0
    PROVE  Ratio \in Int /\ Ratio < 0
<1>1. -virtual_frequency \in Nat \ {0}
  OBVIOUS
<1>2. BASE \div (-virtual_frequency) \in 0 .. BASE
  BY <1>1, Quotient
<1> QED
  BY <1>2 DEF Ratio, CDiv

\* From 2 to half the base the ratio is at least 2, and largest for 2.
LEMMA Periods ==
    ASSUME NEW f \in 2 .. BASE \div 2
    PROVE  /\ BASE \div f \in 2 .. BASE
           /\ BASE \div f <= BASE \div 2
<1> DEFINE h == BASE \div 2
           q == BASE \div f
<1>1. f \in Nat \ {0} /\ h \in Nat /\ 2 * h <= BASE /\ BASE < 2 * h + 2 /\ f <= h
  BY Quotient
<1>2. q \in 0 .. BASE /\ f * q <= BASE /\ BASE < f * q + f
  BY <1>1, Quotient
<1> HIDE DEF h, q
<1>3. 2 <= q
  <2> SUFFICES ASSUME q < 2 PROVE FALSE
    BY <1>2
  <2>1. q = 0 \/ q = 1
    BY <1>2
  <2>2. f * q <= f
    BY <1>1, <2>1
  <2>3. BASE < 2 * f
    BY <1>1, <1>2, <2>2, SMTT(30)
  <2> QED
    BY <1>1, <2>3
<1>4. q <= h
  <2>1. 2 * q <= f * q
    BY <1>1, <1>2, SMTT(30)
  <2> QED
    BY <1>1, <1>2, <2>1, SMTT(30)
<1> QED
  BY <1>2, <1>3, <1>4 DEF h, q

\* Behind the ratio the count goes on at 1.
LEMMA Wraps ==
    ASSUME NEW r \in 2 .. BASE
    PROVE  CMod(r + 1, r) = 1
<1>1. /\ (r + 1) \div r \in 0 .. r + 1 /\ r * ((r + 1) \div r) <= r + 1
      /\ r + 1 < r * ((r + 1) \div r) + r
  <2>1. r + 1 \in Nat /\ r \in Nat \ {0}
    OBVIOUS
  <2> QED
    BY <2>1, Quotient, Zenon
<1>2. ASSUME NEW q \in Nat, r * q <= r + 1, r + 1 < r * q + r PROVE q = 1
  <2>1. q # 0
    BY <1>2
  <2>2. ASSUME q >= 2 PROVE FALSE
    <3>1. r * q >= r * 2
      BY <2>2, SMTT(30)
    <3> QED
      BY <1>2, <3>1, SMTT(30)
  <2> QED
    BY <2>1, <2>2
<1>3. (r + 1) \div r = 1
  BY <1>1, <1>2
<1> QED
  BY <1>3 DEF CMod, CDiv

-----------------------------------------------------------------------------
(* Types                                                                   *)

LEMMA InitInv == Init => IInv
<1> SUFFICES ASSUME Init PROVE IInv
  OBVIOUS
<1>1. Types
  <2>1. temp \in BOOLEAN /\ divider \in BOOLEAN /\ in_service \in BOOLEAN
        /\ fresh \in BOOLEAN /\ mistimed \in BOOLEAN
    BY DEF Init
  <2> QED
    BY <2>1 DEF Init, Types, TypeOK, CounterInRange, RequestGiven, Positions
<1>2. ASSUME 2 \in 2 .. BASE \div 2 PROVE InStep(2)
  <2>1. BASE \div 2 \in 2 .. BASE
    BY <1>2, Periods
  <2> QED
    BY <2>1 DEF Init, InStep, Period
<1> QED
  BY <1>1, <1>2 DEF Init, IInv, CountsTicks, Timed

\* A tick counts one up, or starts again.
LEMMA TickInRange ==
    ASSUME Types, Tick
    PROVE  time_counter' \in 0 .. BASE
<1>1. /\ time_counter + 1 \in 0 .. BASE + 1 /\ virtual_frequency # 0 /\ Ratio # 0
      /\ time_counter' = IF time_counter + 1 > Ratio
                         THEN CMod(time_counter + 1, Ratio) ELSE time_counter + 1
  BY DEF Tick, TickArrives, Types, CounterInRange
<1>2. Ratio \in -BASE .. BASE
  <2>1. virtual_frequency \in Int
    BY DEF Types, TypeOK
  <2> QED
    BY <1>1, <2>1, RatioInRange
<1>3. CMod(time_counter + 1, Ratio) \in 0 .. BASE - 1
  BY <1>1, <1>2, RemainderInRange
<1> HIDE DEF Ratio
<1> QED
  BY <1>1, <1>2, <1>3

LEMMA TypesStep == Types /\ [Next]_vars => Types'
<1> SUFFICES ASSUME Types, [Next]_vars PROVE Types'
  OBVIOUS
<1> USE DEF Types, RequestGiven, TypeOK, CounterInRange, Positions
<1>1. CASE Tick
  <2>1. time_counter' \in 0 .. BASE
    BY <1>1, TickInRange
  <2>2. elapsed' \in 0 .. BASE + 1
    BY <1>1 DEF Tick
  <2>3. fresh' \in BOOLEAN /\ mistimed' \in BOOLEAN
    BY <1>1 DEF Tick
  <2>4. RTC_interrupt' \in {0, 1} /\ port' \in {"A", "B", "C"}
    BY <1>1 DEF Tick
  <2> QED
    BY <1>1, <2>1, <2>2, <2>3, <2>4 DEF Tick
<1>2. CASE DivisionFaults
  BY <1>2 DEF DivisionFaults, Fault, TickArrives, history
<1>3. CASE RemainderFaults
  <2>1. time_counter' \in 0 .. BASE + 1
    BY <1>3 DEF RemainderFaults, TickArrives
  <2>2. RTC_interrupt' \in {0, 1} /\ port' \in {"A", "B", "C"}
    BY <1>3 DEF RemainderFaults
  <2> QED
    BY <1>3, <2>1, <2>2 DEF RemainderFaults, Fault, history
<1>4. CASE Calls
  BY <1>4 DEF Calls, OpenInterrupt, WriteCalled, ReadCalled, Goto, chip, counter,
              history
<1>5. CASE OpenCounter \/ OpenFrequency
  <2>1. fresh' \in BOOLEAN /\ mistimed' \in BOOLEAN
    BY <1>5 DEF OpenCounter, OpenFrequency, history
  <2> QED
    BY <1>5, <2>1 DEF OpenCounter, OpenFrequency, Goto, chip, history
<1>6. CASE SelectA \/ SelectAAgain
  BY <1>6 DEF SelectA, SelectAAgain, Goto, counter, history
<1>7. CASE ReadA
  <2>1. temp' \in BOOLEAN
    BY <1>7 DEF ReadA
  <2> QED
    BY <1>7, <2>1 DEF ReadA, Goto, counter, chip, history
<1>8. CASE WriteA
  <2>1. divider' \in BOOLEAN
    BY <1>8 DEF WriteA
  <2> QED
    BY <1>8, <2>1 DEF WriteA, Goto, counter, history
<1>9. CASE WriteFrequency \/ WriteCounter
  <2>1. fresh' \in BOOLEAN /\ mistimed' \in BOOLEAN
    BY <1>9 DEF WriteFrequency, WriteCounter, history
  <2> QED
    BY <1>9, <2>1 DEF WriteFrequency, WriteCounter, Goto, chip, history
<1>10. CASE ReadSees \/ ReadConsumes
  BY <1>10 DEF ReadSees, ReadConsumes, Goto, counter, chip, history
<1>11. CASE UNCHANGED vars
  BY <1>11 DEF vars, counter, chip, history
<1> QED
  BY <1>1, <1>2, <1>3, <1>4, <1>5, <1>6, <1>7, <1>8, <1>9, <1>10, <1>11
  DEF Next, Handler, Driver

(***************************************************************************)
(* For every base and whatever frequencies programs ask for, sensible or   *)
(* not, the driver's variables and the chip's (rtc.c) keep their types,    *)
(* and the counter stays within the base.                                  *)
(***************************************************************************)
THEOREM TypeCorrect == Spec => []TypeOK
<1>1. Init => Types
  BY InitInv DEF IInv
<1>2. Types /\ [Next]_vars => Types'
  BY TypesStep
<1>3. Types => TypeOK
  BY DEF Types
<1> QED
  BY <1>1, <1>2, <1>3, PTL DEF Spec

-----------------------------------------------------------------------------
(* The count                                                               *)

\* A tick under frequency f keeps the counter in step with every frequency
\* that has a period at least as long.
LEMMA TickCounts ==
    ASSUME Types, Tick, virtual_frequency \in 2 .. BASE \div 2,
           InStep(virtual_frequency)
    PROVE  /\ InStep(virtual_frequency)'
           /\ Raises => elapsed + 1 = Period(virtual_frequency)
           /\ InStep(2)'
<1> DEFINE r == BASE \div virtual_frequency
           h == BASE \div 2
<1>1. r \in 2 .. BASE /\ r <= h /\ h \in Int
  BY Periods, Quotient
<1>2. Ratio = r
  BY DEF Ratio, CDiv
<1>3. /\ time_counter = elapsed + (IF fresh THEN 0 ELSE 1)
      /\ time_counter <= r /\ elapsed \in Nat /\ elapsed <= BASE
  BY <1>1 DEF InStep, Tick, TickArrives, Types, TypeOK
<1>4. /\ virtual_frequency' = virtual_frequency /\ in_service' = in_service
      /\ time_counter = r => ~fresh'
      /\ time_counter # r => (fresh' <=> fresh)
      /\ time_counter' = IF time_counter + 1 > r THEN CMod(time_counter + 1, r)
                         ELSE time_counter + 1
      /\ elapsed' = IF time_counter = r THEN 0
                    ELSE IF elapsed > BASE THEN elapsed ELSE elapsed + 1
  BY <1>2 DEF Tick, Raises
<1>5. time_counter = r => CMod(time_counter + 1, r) = 1
  BY <1>1, Wraps
<1>6. Raises <=> time_counter = r
  BY <1>2 DEF Raises
<1> HIDE DEF r, h
<1>7. /\ elapsed' < r + (IF fresh' THEN 1 ELSE 0)
      /\ time_counter' = elapsed' + (IF fresh' THEN 0 ELSE 1)
      /\ time_counter' <= r
  <2>1. CASE time_counter = r
    BY <1>1, <1>3, <1>4, <1>5, <2>1
  <2>2. CASE time_counter # r
    BY <1>1, <1>3, <1>4, <2>2
  <2> QED
    BY <2>1, <2>2
<1>8. elapsed' \in Int /\ time_counter' \in Int
  BY <1>1, <1>3, <1>4, <1>5
<1>9. /\ elapsed' < h + (IF fresh' THEN 1 ELSE 0)
      /\ time_counter' <= h
  <2> DEFINE first == IF fresh' THEN 1 ELSE 0
  <2>1. first \in Int /\ elapsed' < r + first /\ time_counter' <= r
    BY <1>7
  <2> HIDE DEF first
  <2>2. elapsed' < h + first /\ time_counter' <= h
    BY <1>1, <1>8, <2>1
  <2> QED
    BY <2>2 DEF first
<1>10. time_counter = r => elapsed + 1 = r + (IF fresh THEN 1 ELSE 0)
  BY <1>1, <1>3
<1> QED
  BY <1>4, <1>6, <1>7, <1>9, <1>10 DEF InStep, Period, r, h

LEMMA CountsStep == IInv /\ [Next]_vars => CountsTicks'
<1> SUFFICES ASSUME IInv, [Next]_vars PROVE CountsTicks'
  OBVIOUS
<1> USE DEF IInv, Timed
<1>1. ASSUME 2 <= BASE \div 2 PROVE BASE \div 2 \in 2 .. BASE
  BY <1>1, Quotient
<1>2. CASE Tick
  <2>1. /\ pc' = pc /\ virtual_frequency' = virtual_frequency
        /\ mistimed' <=> mistimed \/ (pc = "open_frequency" /\ ~HasPeriod(virtual_frequency))
    BY <1>2 DEF Tick
  <2>2. CASE virtual_frequency \notin 2 .. BASE \div 2 \/ mistimed
    BY <2>1, <2>2 DEF CountsTicks
  <2>3. CASE pc = "write_counter"
    BY <2>1, <2>3 DEF CountsTicks
  <2>4. CASE virtual_frequency \in 2 .. BASE \div 2 /\ pc # "write_counter" /\ ~mistimed
    <3>1. InStep(virtual_frequency)
      BY <2>4 DEF CountsTicks
    <3>2. InStep(virtual_frequency)' /\ InStep(2)'
      BY <1>2, <2>4, <3>1, TickCounts
    <3> QED
      BY <2>1, <3>2 DEF CountsTicks
  <2> QED
    BY <2>2, <2>3, <2>4
<1>3. CASE DivisionFaults
  BY <1>3 DEF DivisionFaults, Fault, CountsTicks
<1>4. CASE RemainderFaults
  <2>1. virtual_frequency \notin 2 .. BASE \div 2
    <3> SUFFICES ASSUME virtual_frequency \in 2 .. BASE \div 2 PROVE FALSE
      OBVIOUS
    <3>1. BASE \div virtual_frequency \in 2 .. BASE
      BY Periods
    <3>2. Ratio = BASE \div virtual_frequency
      BY DEF Ratio, CDiv
    <3> QED
      BY <1>4, <3>1, <3>2 DEF RemainderFaults
  <2> QED
    BY <1>4, <2>1 DEF RemainderFaults, Fault, CountsTicks
<1>5. CASE OpenCounter
  <2>1. /\ time_counter' = 0 /\ elapsed' = 0 /\ fresh' = TRUE
        /\ virtual_frequency' = virtual_frequency
    BY <1>5 DEF OpenCounter
  <2>2. ASSUME NEW f \in 2 .. BASE \div 2 PROVE InStep(f)'
    <3>1. BASE \div f \in 2 .. BASE
      BY Periods
    <3> QED
      BY <2>1, <3>1 DEF InStep, Period
  <2>3. 2 <= BASE \div 2 => 2 \in 2 .. BASE \div 2
    BY <1>1
  <2>4. virtual_frequency \in 2 .. BASE \div 2 => InStep(virtual_frequency)'
    BY <2>1, <2>2 DEF InStep, Period
  <2>5. 2 <= BASE \div 2 => InStep(2)'
    BY <2>2, <2>3
  <2> QED
    BY <2>1, <2>4, <2>5 DEF CountsTicks, InStep, Period
<1>6. CASE OpenFrequency
  BY <1>6 DEF OpenFrequency, Goto, CountsTicks, InStep, Period, history
<1>7. CASE WriteCounter
  <2>1. /\ time_counter' = 0 /\ elapsed' = 0 /\ fresh' = TRUE /\ pc' = "idle"
        /\ virtual_frequency' = virtual_frequency
    BY <1>7 DEF WriteCounter, Goto
  <2>2. virtual_frequency \in 2 .. BASE \div 2 => BASE \div virtual_frequency \in 2 .. BASE
    BY Periods
  <2> QED
    BY <2>1, <2>2 DEF CountsTicks, InStep, Period
<1>8. CASE WriteFrequency
  BY <1>8 DEF WriteFrequency, Goto, CountsTicks
<1>9. ASSUME UNCHANGED <<time_counter, virtual_frequency, in_service, history>>,
             pc # "write_counter" \/ pc' = pc,
             pc' = "open_frequency" => pc = "open_frequency"
      PROVE  CountsTicks'
  BY <1>9 DEF CountsTicks, InStep, Period, history
<1>10. CASE Calls
  BY <1>9, <1>10 DEF Calls, OpenInterrupt, WriteCalled, ReadCalled, Goto, counter
<1>11. CASE SelectA \/ ReadA \/ SelectAAgain \/ WriteA \/ ReadSees \/ ReadConsumes
  BY <1>9, <1>11 DEF SelectA, ReadA, SelectAAgain, WriteA, ReadSees, ReadConsumes,
                     Goto, counter
<1>12. CASE UNCHANGED vars
  BY <1>9, <1>12 DEF vars, counter
<1> QED
  BY <1>2, <1>3, <1>4, <1>5, <1>6, <1>7, <1>8, <1>10, <1>11, <1>12
  DEF Next, Handler, Driver

LEMMA Invariance == Spec => []IInv
<1>1. Init => IInv
  BY InitInv
<1>2. IInv /\ [Next]_vars => IInv'
  BY TypesStep, CountsStep DEF IInv
<1> QED
  BY <1>1, <1>2, PTL DEF Spec

-----------------------------------------------------------------------------
(* The properties                                                          *)

(***************************************************************************)
(* The flag a reader of the clock waits for (rtc.c, RTC_read) is never     *)
(* late, for every base and any frequencies that programs write.           *)
(***************************************************************************)
THEOREM FlagNeverLate == Spec => []NeverLate
<1>1. IInv => NeverLate
  BY DEF IInv, CountsTicks, InStep, NeverLate
<1> QED
  BY <1>1, Invariance, PTL

(***************************************************************************)
(* Nor is it early: the tick handler raises it after exactly BASE \div f   *)
(* ticks, the first time one later, whatever opens and writes ran between. *)
(***************************************************************************)
THEOREM ExactPeriod == Spec => RaisedOnTime
<1>1. ASSUME IInv, Tick, Raises, Timed
      PROVE  elapsed + 1 = Period(virtual_frequency)
  <2>1. InStep(virtual_frequency)
    BY <1>1 DEF IInv, CountsTicks
  <2> QED
    BY <1>1, <2>1, TickCounts DEF IInv, Timed
<1>2. IInv => [Tick /\ Raises /\ Timed
                 => elapsed + 1 = Period(virtual_frequency)]_vars
  BY <1>1
<1> QED
  BY <1>2, Invariance, PTL DEF RaisedOnTime

(***************************************************************************)
(* At a negative frequency a reader waits for ever while the clock ticks:  *)
(* the counter is not negative, so the tick handler never meets the ratio. *)
(***************************************************************************)
THEOREM NegativeNeverRaised == Spec => NegativeStarves
<1>1. ASSUME IInv, Starves, [Next]_vars PROVE Starves' \/ ClockLost'
  <2>1. virtual_frequency \in Int /\ time_counter \in Nat
    BY <1>1 DEF IInv, Types, TypeOK
  <2>2. CASE Tick
    <3>1. Ratio \in Int /\ Ratio < 0
      BY <1>1, <2>1, <2>2, NegativeRatio DEF Starves, Tick
    <3>2. ~Raises
      BY <2>1, <3>1 DEF Raises
    <3> QED
      BY <1>1, <2>2, <3>2 DEF Tick, Starves
  <2>3. CASE DivisionFaults \/ RemainderFaults
    BY <2>3 DEF DivisionFaults, RemainderFaults, Fault, ClockLost
  <2>4. CASE Calls \/ Driver
    BY <1>1, <2>4 DEF Calls, Driver, Starves, Goto, OpenInterrupt, OpenCounter,
       OpenFrequency, SelectA, ReadA, SelectAAgain, WriteA, WriteCalled,
       WriteFrequency, WriteCounter, ReadCalled, ReadSees, ReadConsumes
  <2>5. CASE UNCHANGED vars
    BY <1>1, <2>5 DEF vars, counter, Starves
  <2> QED
    BY <1>1, <2>2, <2>3, <2>4, <2>5 DEF Next, Handler
<1>2. IInv /\ [Next]_vars => [Starves => Starves' \/ ClockLost']_vars
  BY <1>1
<1> QED
  BY <1>2, Invariance, PTL DEF Spec, NegativeStarves
=============================================================================
