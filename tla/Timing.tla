------------------------------- MODULE Timing -------------------------------
(***************************************************************************)
(* The two ways to tell the time: the delays of LUFA's scheduler, which    *)
(* count ticks in a counter that wraps, and clock_time(), which reads the  *)
(* bytes of a counter of seconds that an interrupt increments meanwhile,   *)
(* here however often.                                                     *)
(***************************************************************************)
EXTENDS Integers

CONSTANTS
  MAX_DELAYCTR_COUNT,  \* the largest value of a delay counter: 65535
  Delays,              \* the delays that tasks wait for
  MaxElapsed,          \* bound: the ticks a task may leave its delay alone
  TICKS_PER_SECOND,    \* of the timer interrupt: 125
  BYTE, BYTES,         \* the values of a byte, and the bytes of clocktime
  MaxSeconds           \* bound: the seconds that are told

(* What the i-th byte of a number counts, from the lowest one up.          *)
Worth[i \in 0 .. BYTES] == IF i = 0 THEN 1 ELSE BYTE * Worth[i - 1]

ASSUME TimingAssumption ==
  /\ MAX_DELAYCTR_COUNT \in Nat /\ Delays \subseteq 1 .. MAX_DELAYCTR_COUNT
  /\ MaxElapsed \in Nat /\ TICKS_PER_SECOND \in Nat \ {0}
  /\ BYTE \in Nat \ {0, 1} /\ BYTES \in Nat \ {0} /\ MaxSeconds \in 0 .. Worth[BYTES] - 1

TASK_MAX_DELAY == MAX_DELAYCTR_COUNT - 1

VARIABLES
  tickCounter,   \* Scheduler_TickCounter
  delay,         \* the delay that a task waits for
  delayCounter,  \* its DelayCounter
  elapsed,       \* history: the ticks since the delay was reset
  asked,         \* history: the task has asked since the last tick
  attentive,     \* history: and after every tick before it
  answer,        \* history: what Scheduler_HasDelayElapsed returned, and elapsed then
  ticks, clocktime,
  byte,          \* clock_time(): how many bytes it has read, or Idle
  value,         \* and what they make
  started        \* history: clocktime when it began to read

delayVars == <<tickCounter, delay, delayCounter, elapsed, asked, attentive, answer>>
clockVars == <<ticks, clocktime, byte, value, started>>

Idle == -1
NoAnswer == [due |-> FALSE, after |-> 0]

DelayInit ==
  /\ tickCounter = 0 /\ delay \in Delays /\ delayCounter = 0
  /\ elapsed = 0 /\ asked = TRUE /\ attentive = TRUE /\ answer = NoAnswer

ClockInit ==
  /\ ticks = 0 /\ clocktime = 0 /\ byte = Idle /\ value = 0 /\ started = 0

-----------------------------------------------------------------------------
(* The delays.                                                             *)

SchedulerTick ==
  /\ elapsed < MaxElapsed
  /\ tickCounter' = (tickCounter + 1) % (MAX_DELAYCTR_COUNT + 1)
  /\ elapsed' = elapsed + 1
  /\ attentive' = (attentive /\ asked) /\ asked' = FALSE
  /\ UNCHANGED <<delay, delayCounter, answer>>

ResetTo(counter) ==
  /\ delayCounter' = counter
  /\ elapsed' = 0 /\ attentive' = TRUE

Scheduler_ResetDelay ==
  /\ ResetTo(tickCounter)
  /\ asked' = TRUE /\ answer' = NoAnswer
  /\ UNCHANGED <<tickCounter, delay>>

(* Mutant: the wrap of the counter counts for nothing.                     *)
ElapsedNoWrap(now, counter) == IF now >= counter THEN now - counter ELSE counter - now

(* One tick too few once the counter has wrapped.                          *)
Elapsed(now, counter) ==
  IF now >= counter THEN now - counter ELSE MAX_DELAYCTR_COUNT - counter + now

Scheduler_HasDelayElapsed ==
  LET due == Elapsed(tickCounter, delayCounter) >= delay
  IN /\ answer' = [due |-> due, after |-> elapsed]
     /\ asked' = TRUE
     /\ IF due THEN ResetTo(tickCounter) ELSE UNCHANGED <<delayCounter, elapsed, attentive>>
     /\ UNCHANGED <<tickCounter, delay>>

-----------------------------------------------------------------------------
(* The clock.                                                              *)

Digit(n, i) == (n \div Worth[i]) % BYTE

TIMER0_COMPA_vect ==
  LET second == ticks + 1 >= TICKS_PER_SECOND
  IN /\ second => clocktime < MaxSeconds
     /\ ticks' = IF second THEN 0 ELSE ticks + 1
     /\ clocktime' = IF second THEN clocktime + 1 ELSE clocktime
     /\ UNCHANGED <<byte, value, started>>

clock_time ==
  /\ byte \in {Idle, BYTES}
  /\ byte' = 0 /\ value' = 0 /\ started' = clocktime
  /\ UNCHANGED <<ticks, clocktime>>

(* The bytes are loaded from the lowest one up.                            *)
ReadByte ==
  /\ byte \in 0 .. BYTES - 1
  /\ value' = value + Digit(clocktime, byte) * Worth[byte]
  /\ byte' = byte + 1
  /\ UNCHANGED <<ticks, clocktime, started>>

DelayNext == SchedulerTick \/ Scheduler_ResetDelay \/ Scheduler_HasDelayElapsed

ClockNext == TIMER0_COMPA_vect \/ clock_time \/ ReadByte

-----------------------------------------------------------------------------
(* A delay has never elapsed early; a task that asks at every tick is told *)
(* in time for every delay up to TASK_MAX_DELAY, except for the one tick   *)
(* that the wrap of the counter costs.  A time that was read is never      *)
(* before the reading began, and is after its end only when the counter    *)
(* has carried into a higher byte meanwhile, by less than that is worth.   *)
TimeKept ==
  /\ answer.due => answer.after >= delay
  /\ delay <= TASK_MAX_DELAY /\ attentive
       => elapsed <= delay + (IF tickCounter < delayCounter THEN 1 ELSE 0)
  /\ byte = BYTES =>
       /\ value >= started
       /\ value > clocktime => \E i \in 1 .. BYTES - 1 :
            /\ started \div Worth[i] < clocktime \div Worth[i]
            /\ value - clocktime < Worth[i]

=============================================================================
