-------------------------------- MODULE Rtc --------------------------------
(***************************************************************************)
(* The virtualised real-time clock of rtc.c: the tick handler of IRQ 8 and *)
(* the driver's open, read and write, which run in a system call with      *)
(* interrupts on and share RTC_interrupt, time_counter, virtual_frequency  *)
(* and the clock chip's index port with the handler.                       *)
(*                                                                         *)
(* The handler is one step (IRQ 8 cannot interrupt itself before its EOI   *)
(* and no process runs meanwhile); the driver makes one access at a time.  *)
(* One caller suffices: only one process runs, and the state is global.    *)
(***************************************************************************)
EXTENDS Integers

CONSTANTS
    BASE,         \* ticks per second of the chip: 1024 in the code
    Frequencies   \* what programs write to the device

ASSUME BaseAssumption == BASE \in Nat \ {0} /\ Frequencies \subseteq Int

VARIABLES
    RTC_interrupt, time_counter, virtual_frequency,
    pc,          \* where the running process is in the driver
    request,     \* the frequency RTC_write was given
    port,        \* the register the chip's index port selects
    temp,        \* is what set_frequency read from the chip register A's?
    divider,     \* does register A still hold the bits that run the clock?
    in_service,  \* IRQ 8 is being served: its EOI was never sent
    elapsed,     \* history: ticks since RTC_interrupt was raised or the
                 \* counter restarted
    fresh,       \* history: not raised since the counter restarted
    mistimed     \* history: RTC_open was at that counter for so long that a
                 \* tick counted under a frequency that has no period

counter == <<RTC_interrupt, time_counter, virtual_frequency>>
chip == <<port, divider>>
history == <<elapsed, fresh, mistimed>>
vars == <<counter, pc, request, temp, chip, in_service, history>>

\* C's integer division and remainder, which truncate towards zero.
CDiv(a, b) == IF b < 0 THEN -(a \div (-b)) ELSE a \div b
ModForgotten(a, b) == a   \* mutant: the counter does not wrap
ModZero(a, b) == 0        \* mutant: it wraps to 0
CMod(a, b) == a - b * CDiv(a, b)

Ratio == CDiv(BASE, virtual_frequency)

Positions == {"idle", "open_counter", "open_frequency", "select_A", "read_A",
              "select_A_again", "write_A", "write_frequency", "write_counter",
              "spin", "consume"}

TypeOK ==
    /\ RTC_interrupt \in {0, 1}
    /\ time_counter \in 0 .. BASE + 1
    /\ virtual_frequency \in Frequencies \cup {2}
    /\ pc \in Positions
    /\ request \in Frequencies \cup {0}
    /\ port \in {"A", "B", "C"}
    /\ temp \in BOOLEAN /\ divider \in BOOLEAN
    /\ in_service \in BOOLEAN
    /\ elapsed \in 0 .. BASE + 1 /\ fresh \in BOOLEAN /\ mistimed \in BOOLEAN

\* After rtc_init, which runs with interrupts off.
Init ==
    /\ RTC_interrupt = 0 /\ time_counter = 0 /\ virtual_frequency = 2
    /\ pc = "idle" /\ request = 0
    /\ port = "B" /\ temp = TRUE /\ divider = TRUE
    /\ in_service = FALSE
    /\ elapsed = 0 /\ fresh = TRUE /\ mistimed = FALSE

-----------------------------------------------------------------------------
(* rtc_interrupt_handler                                                   *)

(***************************************************************************)
(* External: the chip interrupts while its divider bits hold the one value *)
(* that runs the 32 kHz time base, and the PIC passes IRQ 8 on unless it   *)
(* is still in service.                                                    *)
(***************************************************************************)
TickArrives == divider /\ ~in_service

RaisesLate == time_counter = Ratio + 1   \* mutant
RaisesBehind == time_counter >= Ratio    \* mutant
Raises == time_counter = Ratio

\* The frequencies at which the count to the ratio is a period.
HasPeriod(f) == f \in 2 .. BASE \div 2

Tick ==
    /\ TickArrives
    /\ virtual_frequency # 0 /\ Ratio # 0
    /\ RTC_interrupt' = (IF Raises THEN 1 ELSE RTC_interrupt)
    /\ port' = "C"
    /\ LET t == time_counter + 1
       IN  time_counter' = IF t > Ratio THEN CMod(t, Ratio) ELSE t
    /\ elapsed' = IF Raises THEN 0
                  ELSE IF elapsed > BASE THEN elapsed ELSE elapsed + 1
    /\ fresh' = (fresh /\ ~Raises)
    /\ mistimed' = (mistimed \/ (pc = "open_frequency" /\ ~HasPeriod(virtual_frequency)))
    /\ UNCHANGED <<virtual_frequency, pc, request, temp, divider, in_service>>

(***************************************************************************)
(* A divide error in the handler halts the process and never comes back to *)
(* the handler, so IRQ 8 keeps waiting for its EOI.  A frequency of zero   *)
(* faults on the first division, one above the base on the remainder.      *)
(***************************************************************************)
Fault ==
    /\ in_service' = TRUE
    /\ pc' = "idle"
    /\ UNCHANGED <<virtual_frequency, request, temp, divider, history>>

DivisionFaults ==
    /\ TickArrives
    /\ virtual_frequency = 0
    /\ Fault
    /\ UNCHANGED <<RTC_interrupt, time_counter, port>>

RemainderFaults ==
    /\ TickArrives
    /\ virtual_frequency # 0 /\ Ratio = 0
    /\ RTC_interrupt' = (IF Raises THEN 1 ELSE RTC_interrupt)
    /\ port' = "C"
    /\ time_counter' = time_counter + 1
    /\ Fault

-----------------------------------------------------------------------------
(* The driver, in the running process                                      *)

Goto(from, to) == pc = from /\ pc' = to

\* RTC_open: three assignments, then set_frequency.
OpenInterrupt ==
    /\ Goto("idle", "open_counter")
    /\ RTC_interrupt' = 0
    /\ UNCHANGED <<time_counter, virtual_frequency, request, temp, chip,
                   in_service, history>>

OpenCounter ==
    /\ Goto("open_counter", "open_frequency")
    /\ time_counter' = 0
    /\ elapsed' = 0 /\ fresh' = TRUE /\ mistimed' = FALSE
    /\ UNCHANGED <<RTC_interrupt, virtual_frequency, request, temp, chip,
                   in_service>>

OpenFrequency ==
    /\ Goto("open_frequency", "select_A")
    /\ virtual_frequency' = 2
    /\ UNCHANGED <<RTC_interrupt, time_counter, request, temp, chip,
                   in_service, history>>

\* set_frequency: read, change and write register A through the index port.
SelectA ==
    /\ Goto("select_A", "read_A")
    /\ port' = "A"
    /\ UNCHANGED <<counter, request, temp, divider, in_service, history>>

ReadA ==
    /\ Goto("read_A", "select_A_again")
    /\ temp' = (port = "A" /\ divider)
    /\ UNCHANGED <<counter, request, chip, in_service, history>>

SelectAAgain ==
    /\ Goto("select_A_again", "write_A")
    /\ port' = "A"
    /\ UNCHANGED <<counter, request, temp, divider, in_service, history>>

\* The upper half of what it read goes back with the new rate.  Register C
\* takes no writes.
WriteA ==
    /\ Goto("write_A", "idle")
    /\ divider' = IF port = "A" THEN temp ELSE divider
    /\ UNCHANGED <<counter, request, temp, port, in_service, history>>

WriteCalled ==
    /\ Goto("idle", "write_frequency")
    /\ request' \in Frequencies
    /\ UNCHANGED <<counter, temp, chip, in_service, history>>

WriteFrequency ==
    /\ Goto("write_frequency", "write_counter")
    /\ virtual_frequency' = request
    /\ UNCHANGED <<RTC_interrupt, time_counter, request, temp, chip,
                   in_service, history>>

\* Mutant: the count goes on under the new frequency.
WriteKeepsCounter ==
    /\ Goto("write_counter", "idle")
    /\ elapsed' = 0 /\ fresh' = TRUE /\ mistimed' = FALSE
    /\ UNCHANGED <<counter, request, temp, chip, in_service>>

WriteCounter ==
    /\ Goto("write_counter", "idle")
    /\ time_counter' = 0
    /\ elapsed' = 0 /\ fresh' = TRUE /\ mistimed' = FALSE
    /\ UNCHANGED <<RTC_interrupt, virtual_frequency, request, temp, chip,
                   in_service>>

ReadCalled ==
    /\ Goto("idle", "spin")
    /\ UNCHANGED <<counter, request, temp, chip, in_service, history>>

ReadSees ==
    /\ Goto("spin", "consume")
    /\ RTC_interrupt # 0
    /\ UNCHANGED <<counter, request, temp, chip, in_service, history>>

ReadConsumes ==
    /\ Goto("consume", "idle")
    /\ RTC_interrupt' = 0
    /\ UNCHANGED <<time_counter, virtual_frequency, request, temp, chip,
                   in_service, history>>

Handler == Tick \/ DivisionFaults \/ RemainderFaults
Calls == OpenInterrupt \/ WriteCalled \/ ReadCalled
Driver ==
    \/ OpenCounter \/ OpenFrequency
    \/ SelectA \/ ReadA \/ SelectAAgain \/ WriteA
    \/ WriteFrequency \/ WriteCounter
    \/ ReadSees \/ ReadConsumes

Next == Handler \/ Calls \/ Driver

(***************************************************************************)
(* The chip keeps ticking and the process keeps running between ticks;     *)
(* nothing makes a program call the driver.                                *)
(***************************************************************************)
Spec == Init /\ [][Next]_vars /\ WF_vars(Handler) /\ WF_vars(Driver)

-----------------------------------------------------------------------------
(* What must hold                                                          *)

(***************************************************************************)
(* At a frequency f between 2 and half the base, RTC_interrupt is raised   *)
(* every BASE \div f ticks, and the first time one tick later than that,   *)
(* whatever was written before: opens and writes that interleave with      *)
(* ticks do not disturb the count once they are over, but for an open      *)
(* (mistimed) that takes a clock without a period over and is held up by   *)
(* ticks between its second and third assignment.                          *)
(***************************************************************************)
Period(f) == (BASE \div f) + (IF fresh THEN 1 ELSE 0)

Timed == pc # "write_counter" /\ HasPeriod(virtual_frequency) /\ ~mistimed

RaisedOnTime ==
    [][Tick /\ Raises /\ Timed => elapsed + 1 = Period(virtual_frequency)]_vars

\* The same promise made to a waiting reader: the flag is never late.
NeverLate == Timed => elapsed < Period(virtual_frequency)

(***************************************************************************)
(* A read returns, whatever opens and writes came before it, unless the    *)
(* frequency is negative, so that the counter, which is not, never meets   *)
(* the ratio, or the clock itself was lost: its time base stopped by a     *)
(* mixed-up write to register A, or its interrupt left in service by a     *)
(* divide error.                                                           *)
(***************************************************************************)
ClockLost == ~divider \/ in_service
ReadReturns ==
    pc = "spin" /\ virtual_frequency >= 0 ~> pc # "spin" \/ ClockLost

(***************************************************************************)
(* What RTC_write gives a program that asks for a negative frequency: a    *)
(* read that finds no signal raised before is never raised one, however    *)
(* long it spins and whatever the counter was at, while the clock ticks.   *)
(***************************************************************************)
Starves == pc = "spin" /\ RTC_interrupt = 0 /\ virtual_frequency < 0

NegativeStarves == [][Starves => Starves' \/ ClockLost']_vars

\* "open the rtc, intialize it and set the frequency ... can't fail"
\* (rtc.c, RTC_open): the chip ticks after it.
OpenKeepsClock == divider
=============================================================================
