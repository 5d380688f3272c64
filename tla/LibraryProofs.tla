--------------------------- MODULE LibraryProofs ---------------------------
(***************************************************************************)
(* Proofs about module MCLibrary, that is about Timing, PipeStreams,       *)
(* ConfigWalk, DynAlloc, HIDParser and UsbHost, for every value of their   *)
(* constants.                                                              *)
(* Each part has an invariant of its own, which its steps preserve and the *)
(* steps of the others leave alone.                                        *)
(*                                                                         *)
(* What a recursive function computes is proved by the least number        *)
(* principle: what holds of 0 and is passed on from each number to the     *)
(* next one up to n holds of every number up to n (UpTo).                  *)
(***************************************************************************)
EXTENDS MCLibrary, SequenceTheorems, FiniteSetTheorems, FunctionTheorems,
        WellFoundedInduction, TLAPS

-----------------------------------------------------------------------------
(*  Timing: delays and times read.                                         *)

(* Every nonempty set of natural numbers has a least one.                  *)
Less == {ss \in Nat \X Nat : ss[1] < ss[2]}

LEMMA LessIsWellFounded == IsWellFoundedOn(Less, Nat)
<1>1. OpToRel(<, Nat) = Less
  BY DEF OpToRel, Less
<1> QED
  BY <1>1, NatLessThanWellFounded

LEMMA LeastNumber ==
  ASSUME NEW T, T \subseteq Nat, T # {}
  PROVE  \E x \in T : \A y \in T : x <= y
<1>1. PICK x \in T : \A y \in T : ~ (<<y, x>> \in Less)
  BY LessIsWellFounded, WFMin, Zenon
<1>2. ASSUME NEW y \in T PROVE x <= y
  <2>1. <<y, x>> \in Nat \X Nat /\ ~(<<y, x>> \in Less)
    BY <1>1
  <2>2. ~(y < x)
    BY <2>1 DEF Less
  <2> QED
    BY <2>1, <2>2
<1> QED
  BY <1>2

(* What holds of 0 and is passed on up to n holds of every number up to n. *)
LEMMA UpTo ==
  ASSUME NEW n \in Nat, NEW T, 0 \in T, \A k \in 1 .. n : k - 1 \in T => k \in T
  PROVE  \A k \in 0 .. n : k \in T
<1> DEFINE bad == {k \in 0 .. n : k \notin T}
<1> SUFFICES ASSUME bad # {} PROVE FALSE
  OBVIOUS
<1>1. bad \subseteq Nat
  OBVIOUS
<1>2. PICK x \in bad : \A y \in bad : x <= y
  BY <1>1, LeastNumber
<1>3. x \in 1 .. n /\ x - 1 \in 0 .. n
  OBVIOUS
<1>4. x - 1 \in T
  <2>1. ~(x <= x - 1)
    BY <1>3
  <2> QED
    BY <1>2, <1>3, <2>1
<1> QED
  BY <1>3, <1>4

-----------------------------------------------------------------------------
(* Delays.                                                                 *)

Wrapped == tickCounter < delayCounter

(* The ticks since the reset, as far as the counter tells.                 *)
Since == IF Wrapped THEN MAX_DELAYCTR_COUNT + 1 - delayCounter + tickCounter
         ELSE tickCounter - delayCounter

DelayTypeOK ==
  /\ tickCounter \in 0 .. MAX_DELAYCTR_COUNT /\ delayCounter \in 0 .. MAX_DELAYCTR_COUNT
  /\ delay \in 1 .. MAX_DELAYCTR_COUNT /\ elapsed \in Nat
  /\ asked \in BOOLEAN /\ attentive \in BOOLEAN
  /\ answer \in [due : BOOLEAN, after : Nat]

(* The counter does not tell of more ticks than there were; a task that    *)
(* has asked after every tick has not missed its delay, nor the counter a  *)
(* round.                                                                  *)
InTime ==
  LET late == IF Wrapped THEN 1 ELSE 0
  IN /\ elapsed = Since
     /\ elapsed <= delay + late
     /\ asked => elapsed < delay + late

DelayInvariant ==
  /\ DelayTypeOK
  /\ elapsed >= Since
  /\ answer.due => answer.after >= delay
  /\ delay <= TASK_MAX_DELAY /\ attentive => InTime

LEMMA DelayStarts == DelayInit => DelayInvariant
  BY TimingAssumption
  DEF DelayInit, DelayInvariant, DelayTypeOK, Since, InTime, Wrapped, NoAnswer

LEMMA DelayStep ==
  ASSUME DelayInvariant, DelayNext \/ UNCHANGED delayVars
  PROVE  DelayInvariant'
<1> USE TimingAssumption
<1> DEFINE M == MAX_DELAYCTR_COUNT
<1>1. CASE SchedulerTick
  <2>1. tickCounter' = IF tickCounter = M THEN 0 ELSE tickCounter + 1
    BY <1>1 DEF SchedulerTick, DelayInvariant, DelayTypeOK
  <2>2. elapsed' = elapsed + 1 /\ UNCHANGED <<delay, delayCounter, answer>>
    BY <1>1 DEF SchedulerTick
  <2>3. asked' = FALSE /\ (attentive' => attentive /\ asked)
    BY <1>1 DEF SchedulerTick
  <2>9. attentive' \in BOOLEAN
    <3>1. attentive' = (attentive /\ asked)
      BY <1>1 DEF SchedulerTick
    <3> QED
      BY <3>1, Zenon
  <2>10. asked' \in BOOLEAN
    BY <2>3
  <2>4. DelayTypeOK'
    BY <2>1, <2>2, <2>9, <2>10 DEF DelayInvariant, DelayTypeOK
  <2>5. elapsed' >= Since'
    BY <2>1, <2>2 DEF DelayInvariant, DelayTypeOK, Since, Wrapped
  <2>6. ASSUME delay <= TASK_MAX_DELAY, attentive, asked PROVE InTime'
    BY <2>1, <2>2, <2>3, <2>6 DEF DelayInvariant, DelayTypeOK, Since, Wrapped, InTime, TASK_MAX_DELAY
  <2> QED
    BY <2>2, <2>3, <2>4, <2>5, <2>6 DEF DelayInvariant, TASK_MAX_DELAY
<1>2. ASSUME ResetTo(tickCounter), UNCHANGED <<tickCounter, delay>>, asked' = TRUE,
             answer' \in [due : BOOLEAN, after : Nat], answer'.due => answer'.after >= delay
      PROVE  DelayInvariant'
  BY <1>2 DEF ResetTo, DelayInvariant, DelayTypeOK, Since, Wrapped, InTime
<1>3. CASE Scheduler_ResetDelay
  BY <1>2, <1>3 DEF Scheduler_ResetDelay, NoAnswer
<1>4. CASE Scheduler_HasDelayElapsed
  <2> DEFINE told == Elapsed(tickCounter, delayCounter)
  <2>1. told = IF Wrapped THEN Since - 1 ELSE Since
    BY DEF Elapsed, Since, Wrapped, DelayInvariant, DelayTypeOK
  <2>2. told \in Int /\ told <= elapsed
    BY <2>1 DEF Since, Wrapped, DelayInvariant, DelayTypeOK
  <2>3. answer' = [due |-> told >= delay, after |-> elapsed] /\ asked' = TRUE
        /\ UNCHANGED <<tickCounter, delay>>
    BY <1>4 DEF Scheduler_HasDelayElapsed
  <2>4. /\ answer' \in [due : BOOLEAN, after : Nat]
        /\ answer'.due => answer'.after >= delay
    <3>1. delay \in Int /\ elapsed \in Nat
      BY DEF DelayInvariant, DelayTypeOK
    <3> HIDE DEF told
    <3>2. (told >= delay) \in BOOLEAN
      OBVIOUS
    <3>3. answer' \in [due : BOOLEAN, after : Nat]
      BY <2>3, <3>1, <3>2
    <3>4. answer'.due = (told >= delay) /\ answer'.after = elapsed
      BY <2>3
    <3>5. answer'.due => answer'.after >= delay
      <4>1. SUFFICES ASSUME told >= delay PROVE elapsed >= delay
        BY <3>4
      <4> QED
        BY <2>2, <3>1, <4>1
    <3> QED
      BY <3>3, <3>5
  <2>5. CASE told >= delay
    BY <1>2, <1>4, <2>3, <2>4, <2>5 DEF Scheduler_HasDelayElapsed
  <2>6. CASE ~(told >= delay)
    <3>1. UNCHANGED <<delayCounter, elapsed, attentive>>
      BY <1>4, <2>6 DEF Scheduler_HasDelayElapsed
    <3> HIDE DEF told
    <3>2. DelayTypeOK' /\ elapsed' >= Since'
      BY <2>3, <2>4, <3>1 DEF DelayInvariant, DelayTypeOK, Since, Wrapped
    <3>3. ASSUME delay <= TASK_MAX_DELAY, attentive PROVE InTime'
      BY <2>1, <2>3, <2>6, <3>1, <3>3 DEF DelayInvariant, DelayTypeOK, Since, Wrapped, InTime
    <3> QED
      BY <2>3, <2>4, <3>1, <3>2, <3>3 DEF DelayInvariant, TASK_MAX_DELAY
  <2> QED
    BY <2>5, <2>6
<1>5. CASE UNCHANGED delayVars
  BY <1>5 DEF delayVars, DelayInvariant, DelayTypeOK, Since, Wrapped, InTime
<1> QED
  BY <1>1, <1>3, <1>4, <1>5 DEF DelayNext

-----------------------------------------------------------------------------
(* The clock.                                                              *)

(* Numbers that are taken apart.                                           *)
LEMMA Parts2 ==
  ASSUME NEW n \in Nat, NEW p \in Nat \ {0}
  PROVE  n \div p \in Nat /\ n % p \in 0 .. p - 1 /\ n = p * (n \div p) + (n % p)
<1>1. n % p \in 0 .. p - 1
  OBVIOUS
<1>2. n \div p \in Int
  OBVIOUS
<1>3. n = p * (n \div p) + (n % p)
  OBVIOUS
<1>4. n \div p >= 0
  <2> DEFINE d == n \div p
             e == n % p
  <2>1. d \in Int /\ e \in 0 .. p - 1 /\ n = p * d + e
    BY <1>1, <1>2, <1>3
  <2> HIDE DEF d, e
  <2>2. d <= -1 => p * d <= -p
    BY <2>1
  <2>3. ~(d <= -1)
    BY <2>1, <2>2
  <2> QED
    BY <2>1, <2>3 DEF d
<1> QED
  BY <1>1, <1>2, <1>3, <1>4

LEMMA OnePart ==
  ASSUME NEW n \in Nat, NEW p \in Nat \ {0}, NEW q \in Int, NEW r \in 0 .. p - 1, n = p * q + r
  PROVE  n \div p = q /\ n % p = r
<1> DEFINE d == n \div p
           e == n % p
<1>1. d \in Nat /\ e \in 0 .. p - 1 /\ n = p * d + e
  BY Parts2
<1> HIDE DEF d, e
<1>2. p * (q - d) = e - r
  BY <1>1
<1>3. e - r < p /\ e - r > -p
  BY <1>1
<1>4. ~(q - d >= 1)
  <2>1. ASSUME q - d >= 1 PROVE p * (q - d) >= p
    BY <1>1, <2>1
  <2> QED
    BY <1>1, <1>2, <1>3, <2>1
<1>5. ~(q - d <= -1)
  <2>1. ASSUME q - d <= -1 PROVE p * (q - d) <= -p
    BY <1>1, <2>1
  <2> QED
    BY <1>1, <1>2, <1>3, <2>1
<1>6. q = d
  BY <1>1, <1>4, <1>5
<1>7. e = r
  BY <1>1, <1>6
<1> QED
  BY <1>6, <1>7 DEF d, e

LEMMA InOrder ==
  ASSUME NEW m \in Nat, NEW n \in Nat, NEW p \in Nat \ {0}, m <= n
  PROVE  m \div p <= n \div p
<1> DEFINE a == m \div p
           b == n \div p
<1>1. /\ a \in Nat /\ b \in Nat /\ m = p * a + (m % p) /\ n = p * b + (n % p)
      /\ m % p \in 0 .. p - 1 /\ n % p \in 0 .. p - 1
  BY Parts2
<1> HIDE DEF a, b
<1>2. ASSUME a >= b + 1 PROVE FALSE
  <2>1. p * a >= p * (b + 1)
    BY <1>1, <1>2
  <2>2. p * (b + 1) = p * b + p
    BY <1>1
  <2> DEFINE pa == p * a
             pb == p * b
  <2>3. pa \in Nat /\ pb \in Nat
    BY <1>1
  <2>4. pa >= pb + p
    <3>1. pa >= p * (b + 1) /\ p * (b + 1) = pb + p
      BY <2>1, <2>2
    <3> HIDE DEF pa, pb
    <3> QED
      BY <3>1
  <2>5. m = pa + (m % p) /\ n = pb + (n % p)
    BY <1>1
  <2> HIDE DEF pa, pb
  <2> QED
    BY <1>1, <2>3, <2>4, <2>5
<1> QED
  BY <1>1, <1>2 DEF a, b

(* A carry, or none.                                                       *)
LEMMA OneMore ==
  ASSUME NEW n \in Nat, NEW p \in Nat \ {0}
  PROVE  \/ (n + 1) \div p = n \div p
         \/ (n + 1) \div p = n \div p + 1 /\ n + 1 = p * (n \div p + 1)
<1> DEFINE q == n \div p
           r == n % p
<1>1. q \in Nat /\ r \in 0 .. p - 1 /\ n = p * q + r
  BY Parts2
<1> HIDE DEF q, r
<1>2. CASE r + 1 < p
  <2>1. n + 1 = p * q + (r + 1) /\ r + 1 \in 0 .. p - 1
    BY <1>1, <1>2
  <2>2. (n + 1) \div p = q
    BY <1>1, <2>1, OnePart
  <2> QED
    BY <2>2 DEF q
<1>3. CASE ~(r + 1 < p)
  <2>1. n + 1 = p * (q + 1) + 0
    BY <1>1, <1>3
  <2>2. (n + 1) \div p = q + 1
    BY <1>1, <2>1, OnePart
  <2>3. n + 1 = p * (q + 1)
    BY <1>1, <2>1
  <2> QED
    BY <2>2, <2>3 DEF q
<1> QED
  BY <1>2, <1>3

LEMMA PartOfPart ==
  ASSUME NEW n \in Nat, NEW p \in Nat \ {0}, NEW b \in Nat \ {0}
  PROVE  n \div (b * p) = (n \div p) \div b
<1> DEFINE q == n \div p
           r == n % p
           u == q \div b
           v == q % b
<1>1. q \in Nat /\ r \in 0 .. p - 1 /\ n = p * q + r
  BY Parts2
<1> HIDE DEF q, r
<1>2. u \in Nat /\ v \in 0 .. b - 1 /\ q = b * u + v
  BY <1>1, Parts2
<1> HIDE DEF u, v
<1> DEFINE bp == b * p
           pv == p * v
<1>3. p * q = bp * u + pv
  BY <1>1, <1>2
<1>4. pv \in Nat /\ pv <= p * (b - 1)
  BY <1>1, <1>2
<1>5. p * (b - 1) = bp - p /\ bp \in Nat /\ bp > 0
  OBVIOUS
<1> HIDE DEF bp, pv
<1>6. n = bp * u + (pv + r) /\ pv + r \in 0 .. bp - 1
  BY <1>1, <1>2, <1>3, <1>4, <1>5
<1>7. n \div bp = u
  BY <1>2, <1>5, <1>6, OnePart
<1> QED
  BY <1>7 DEF bp, u, q


(* The worth of a byte.                                                    *)
Grows(s, n) ==
  /\ s \in [0 .. n -> Nat] /\ s[0] = 1
  /\ \A i \in 1 .. n : s[i] = BYTE * s[i - 1]

LEMMA GrowsExists == \E s : Grows(s, BYTES)
<1> USE TimingAssumption
<1> DEFINE T == {k \in 0 .. BYTES : \E s : Grows(s, k)}
<1>1. 0 \in T
  <2>1. Grows([i \in 0 .. 0 |-> 1], 0)
    BY DEF Grows
  <2> QED
    BY <2>1
<1>2. ASSUME NEW k \in 1 .. BYTES, k - 1 \in T PROVE k \in T
  <2>1. PICK s : Grows(s, k - 1)
    BY <1>2
  <2> DEFINE t == [i \in 0 .. k |-> IF i = k THEN BYTE * s[k - 1] ELSE s[i]]
  <2>2. \A i \in 0 .. k - 1 : s[i] \in Nat
    BY <2>1 DEF Grows
  <2>3. t \in [0 .. k -> Nat]
    <3>1. BYTE * s[k - 1] \in Nat
      BY <2>2
    <3> QED
      BY <2>2, <3>1
  <2>4. \A i \in 1 .. k : t[i] = BYTE * t[i - 1]
    BY <2>1 DEF Grows
  <2>5. t[0] = 1
    BY <2>1 DEF Grows
  <2>6. Grows(t, k)
    BY <2>3, <2>4, <2>5 DEF Grows
  <2> QED
    BY <2>6
<1>3. BYTES \in T
  <2> HIDE DEF T
  <2>1. \A k \in 0 .. BYTES : k \in T
    BY <1>1, <1>2, UpTo
  <2> QED
    BY <2>1
<1> QED
  BY <1>3

LEMMA WorthOf ==
  /\ \A i \in 0 .. BYTES : Worth[i] \in Nat \ {0}
  /\ Worth[0] = 1
  /\ \A i \in 1 .. BYTES : Worth[i] = BYTE * Worth[i - 1]
<1> USE TimingAssumption
<1> DEFINE Rule(s) == s = [i \in 0 .. BYTES |-> IF i = 0 THEN 1 ELSE BYTE * s[i - 1]]
           worth == CHOOSE s : Rule(s)
<1>1. PICK s : Grows(s, BYTES)
  BY GrowsExists
<1>2. Rule(s)
  <2>1. s = [i \in 0 .. BYTES |-> s[i]]
    BY <1>1 DEF Grows
  <2>2. \A i \in 0 .. BYTES : s[i] = IF i = 0 THEN 1 ELSE BYTE * s[i - 1]
    BY <1>1 DEF Grows
  <2> QED
    BY <2>1, <2>2
<1>3. Rule(worth)
  BY <1>2
<1>4. Worth = worth
  BY DEF Worth
<1> HIDE DEF worth
<1>5. Worth[0] = 1 /\ \A i \in 1 .. BYTES : Worth[i] = BYTE * Worth[i - 1]
  BY <1>3, <1>4
<1> DEFINE T == {k \in 0 .. BYTES : Worth[k] \in Nat \ {0}}
<1>6. 0 \in T
  BY <1>5
<1>7. ASSUME NEW k \in 1 .. BYTES, k - 1 \in T PROVE k \in T
  <2>1. Worth[k] = BYTE * Worth[k - 1] /\ Worth[k - 1] \in Nat \ {0}
    BY <1>5, <1>7
  <2> DEFINE w == Worth[k - 1]
  <2>2. w \in Nat \ {0}
    BY <2>1
  <2> HIDE DEF w
  <2>3. BYTE * w \in Nat \ {0}
    BY <2>2
  <2> QED
    BY <2>1, <2>3 DEF w
<1>8. \A k \in 0 .. BYTES : k \in T
  <2> HIDE DEF T
  <2> QED
    BY <1>6, <1>7, UpTo
<1> QED
  BY <1>5, <1>8

(* The time that would be read if the clock stood still from now on: of    *)
(* the bytes read so far, and what the clock has above them.               *)
Meant == value + Worth[byte] * (clocktime \div Worth[byte])

(* Since the reading began the clock has carried into byte i.              *)
CarriedInto(i) ==
  /\ started \div Worth[i] < clocktime \div Worth[i]
  /\ Meant - clocktime < Worth[i]

Reading ==
  /\ started <= clocktime
  /\ value < Worth[byte]
  /\ started <= Meant
  /\ Meant > clocktime => \E i \in 1 .. BYTES - 1 : CarriedInto(i)

ClockInvariant ==
  /\ ticks \in Nat /\ clocktime \in 0 .. MaxSeconds
  /\ byte \in {Idle} \cup 0 .. BYTES /\ value \in Nat /\ started \in Nat
  /\ byte # Idle => Reading

LEMMA ClockStarts == ClockInit => ClockInvariant
  BY TimingAssumption, WorthOf DEF ClockInit, ClockInvariant, Idle

LEMMA ClockStep ==
  ASSUME ClockInvariant, ClockNext \/ UNCHANGED clockVars
  PROVE  ClockInvariant'
<1> USE TimingAssumption
<1> DEFINE P == Worth[byte]
           q == clocktime \div P
<1>0. /\ clocktime \in Nat /\ value \in Nat /\ started \in Nat /\ MaxSeconds \in Nat
      /\ MaxSeconds < Worth[BYTES]
  BY WorthOf DEF ClockInvariant
<1>1. CASE clock_time
  <2>1. /\ byte' = 0 /\ value' = 0 /\ started' = clocktime /\ clocktime' = clocktime
        /\ ticks' = ticks
    BY <1>1 DEF clock_time
  <2>2. Worth[0] = 1 /\ clocktime \div 1 = clocktime
    BY <1>0, WorthOf
  <2>3. Meant' = clocktime
    BY <1>0, <2>1, <2>2 DEF Meant
  <2>4. Reading'
    BY <1>0, <2>1, <2>2, <2>3 DEF Reading
  <2> QED
    BY <1>0, <2>1, <2>4 DEF ClockInvariant, Idle
<1>2. CASE ReadByte
  <2> DEFINE u == q \div BYTE
             v == q % BYTE
  <2>1. /\ byte \in 0 .. BYTES - 1 /\ byte' = byte + 1 /\ value' = value + v * P
        /\ UNCHANGED <<ticks, clocktime, started>>
    BY <1>2 DEF ReadByte, Digit
  <2>2. P \in Nat \ {0} /\ Worth[byte + 1] = BYTE * P
    BY <2>1, WorthOf
  <2>3. q \in Nat /\ clocktime \div Worth[byte + 1] = u
    <3>1. clocktime \div (BYTE * P) = u
      <4>1. BYTE \in Nat \ {0}
        OBVIOUS
      <4>2. clocktime \in Nat /\ P \in Nat \ {0}
        BY <1>0, <2>2
      <4> HIDE DEF P
      <4>3. clocktime \div (BYTE * P) = (clocktime \div P) \div BYTE
        BY ONLY <4>1, <4>2, PartOfPart, Zenon
      <4> QED
        BY <4>3
    <3> QED
      BY <1>0, <2>2, <3>1, Parts2
  <2>4. u \in Nat /\ v \in 0 .. BYTE - 1 /\ q = BYTE * u + v
    <3> HIDE DEF q
    <3> QED
      BY <2>3, Parts2
  <2>5. Reading /\ value < P
    BY <2>1 DEF ClockInvariant, Idle, Reading
  <2>6. Meant = value + P * q
    BY DEF Meant
  <2>7. Meant' = value' + (BYTE * P) * u
    BY <2>1, <2>2, <2>3 DEF Meant
  <2> HIDE DEF P, q, u, v
  <2>8. v * P \in Nat /\ v * P <= (BYTE - 1) * P
    BY <2>2, <2>4
  <2>9. (BYTE - 1) * P = BYTE * P - P /\ BYTE * P \in Nat
    BY <2>2
  <2>10. P * q = (BYTE * P) * u + v * P
    BY <2>2, <2>4
  <2>11. (BYTE * P) * u \in Nat /\ P * q \in Nat
    BY <2>2, <2>3, <2>4
  <2>12. Meant' = Meant /\ value' < BYTE * P /\ value' \in Nat
    <3> DEFINE bp == BYTE * P
               high == bp * u
               low == v * P
               whole == P * q
    <3>1. low \in Nat /\ low <= bp - P /\ bp \in Nat
      BY <2>8, <2>9
    <3>2. whole = high + low /\ high \in Nat
      BY <2>10, <2>11
    <3>3. Meant = value + whole /\ Meant' = value' + high /\ value' = value + low
      BY <2>1, <2>6, <2>7
    <3> HIDE DEF bp, high, low, whole
    <3>4. Meant' = Meant /\ value' < bp /\ value' \in Nat
      BY <1>0, <2>2, <2>5, <3>1, <3>2, <3>3
    <3> QED
      BY <3>4 DEF bp
  <2>13. \A i \in 1 .. BYTES - 1 : CarriedInto(i) => CarriedInto(i)'
    BY <2>1, <2>12 DEF CarriedInto
  <2>14. Reading'
    BY <2>1, <2>2, <2>5, <2>12, <2>13 DEF Reading
  <2> QED
    BY <2>1, <2>12, <2>14 DEF ClockInvariant
<1>3. CASE TIMER0_COMPA_vect
  <2>1. UNCHANGED <<byte, value, started>> /\ ticks' \in Nat
    BY <1>3 DEF TIMER0_COMPA_vect, ClockInvariant
  <2>2. CASE clocktime' = clocktime
    BY <2>1, <2>2 DEF ClockInvariant, Reading, CarriedInto, Meant
  <2>3. CASE clocktime' = clocktime + 1 /\ clocktime < MaxSeconds
    <3>1. ASSUME byte # Idle PROVE Reading'
      <4>1. byte \in 0 .. BYTES /\ Reading /\ P \in Nat \ {0} /\ q \in Nat
        <5>1. byte \in 0 .. BYTES /\ P \in Nat \ {0}
          BY <3>1, WorthOf DEF ClockInvariant
        <5> HIDE DEF P
        <5> QED
          BY <1>0, <3>1, <5>1, Parts2 DEF ClockInvariant
      <4>2. Meant = value + P * q /\ Meant' = value + P * ((clocktime + 1) \div P)
        BY <2>1, <2>3 DEF Meant
      <4>3. Meant \in Nat /\ value < P /\ started <= clocktime /\ started <= Meant
        <5> HIDE DEF P, q
        <5>1. P * q \in Nat
          BY <4>1
        <5> QED
          BY <1>0, <4>1, <4>2, <5>1 DEF Reading, P
      <4>4. CASE (clocktime + 1) \div P = q
        <5>1. Meant' = Meant
          BY <4>2, <4>4
        <5>2. ASSUME NEW i \in 1 .. BYTES - 1, CarriedInto(i) PROVE CarriedInto(i)'
          <6> DEFINE w == Worth[i]
                     a == started \div w
                     b == clocktime \div w
                     c == (clocktime + 1) \div w
          <6>1. w \in Nat \ {0}
            BY WorthOf
          <6>2. a \in Nat /\ b \in Nat /\ c \in Nat /\ b <= c
            <7> HIDE DEF w
            <7>2. clocktime + 1 \in Nat /\ clocktime <= clocktime + 1
              BY <1>0
            <7>4. a \in Nat /\ b \in Nat
              BY <1>0, <6>1, Parts2
            <7>5. c \in Nat
              BY <6>1, <7>2, Parts2
            <7>1. a \in Nat /\ b \in Nat /\ c \in Nat
              BY <7>4, <7>5
            <7>3. b <= c
              BY <1>0, <6>1, <7>2, InOrder
            <7> QED
              BY <7>1, <7>3
          <6>3. a < b /\ Meant - clocktime < w
            BY <5>2 DEF CarriedInto
          <6> HIDE DEF a, b, c
          <6>4. a < c
            BY <6>2, <6>3
          <6>5. Meant - (clocktime + 1) < w
            BY <1>0, <4>3, <6>1, <6>3
          <6> QED
            BY <2>1, <2>3, <5>1, <6>4, <6>5 DEF CarriedInto, a, c
        <5>3. Meant > clocktime + 1 => Meant > clocktime
          BY <1>0, <4>3
        <5>4. Meant > clocktime => \E i \in 1 .. BYTES - 1 : CarriedInto(i)
          BY <4>1 DEF Reading
        <5>5. Meant' > clocktime' => \E i \in 1 .. BYTES - 1 : CarriedInto(i)'
          BY <2>3, <5>1, <5>2, <5>3, <5>4
        <5>6. started' <= clocktime' /\ started' <= Meant' /\ value' < Worth[byte']
          BY <1>0, <2>1, <2>3, <4>3, <5>1
        <5> QED
          BY <2>1, <5>5, <5>6 DEF Reading
      <4>5. CASE (clocktime + 1) \div P = q + 1 /\ clocktime + 1 = P * (q + 1)
        <5>1. Meant' = value + (clocktime + 1)
          BY <4>2, <4>5
        <5>2. CASE byte = 0
          <6>1. value = 0
            BY <1>0, <4>3, <5>2, WorthOf
          <6>2. Meant' = clocktime'
            BY <1>0, <2>3, <5>1, <6>1
          <6>3. started' <= clocktime' /\ value' < Worth[byte'] /\ ~(Meant' > clocktime')
            BY <1>0, <2>1, <2>3, <4>3, <6>2
          <6> QED
            BY <6>2, <6>3 DEF Reading
        <5>3. CASE byte = BYTES
          <6>1. clocktime + 1 < P /\ P * (q + 1) >= P
            <7>1. clocktime + 1 < P
              BY <1>0, <2>3, <5>3, WorthOf
            <7> HIDE DEF P, q
            <7>2. P * (q + 1) >= P
              BY <4>1
            <7> QED
              BY <7>1, <7>2
          <6> HIDE DEF P, q
          <6> QED
            BY <1>0, <4>1, <4>5, <6>1
        <5>4. CASE byte \in 1 .. BYTES - 1
          <6> DEFINE a == started \div P
          <6>1. a \in Nat /\ a <= q
            <7> HIDE DEF P
            <7> QED
              BY <1>0, <4>1, <4>3, Parts2, InOrder
          <6>2. a < (clocktime + 1) \div P
            <7> HIDE DEF a, P, q
            <7> QED
              BY <4>1, <4>5, <6>1
          <6>3. Meant' - (clocktime + 1) < P /\ started <= Meant' /\ started <= clocktime + 1
            <7> HIDE DEF P
            <7> QED
              BY <1>0, <4>1, <4>3, <5>1
          <6>4. CarriedInto(byte)'
            BY <2>1, <2>3, <6>2, <6>3 DEF CarriedInto
          <6>5. \E i \in 1 .. BYTES - 1 : CarriedInto(i)'
            <7>1. byte' = byte
              BY <2>1
            <7> QED
              BY <5>4, <6>4, <7>1 DEF CarriedInto
          <6> QED
            BY <2>1, <2>3, <4>3, <6>3, <6>5 DEF Reading
        <5> QED
          BY <4>1, <5>2, <5>3, <5>4
      <4> QED
        <5> HIDE DEF P
        <5> QED
          BY <1>0, <4>1, <4>4, <4>5, OneMore
    <3>2. clocktime' \in 0 .. MaxSeconds
      BY <1>0, <2>3
    <3> QED
      BY <2>1, <3>1, <3>2 DEF ClockInvariant
  <2> QED
    BY <1>3, <2>2, <2>3 DEF TIMER0_COMPA_vect
<1>4. CASE UNCHANGED clockVars
  BY <1>4 DEF clockVars, ClockInvariant, Reading, CarriedInto, Meant
<1> QED
  BY <1>1, <1>2, <1>3, <1>4 DEF ClockNext

LEMMA TimeIsKept == DelayInvariant /\ ClockInvariant => TimeKept
<1> SUFFICES ASSUME DelayInvariant, ClockInvariant PROVE TimeKept
  OBVIOUS
<1> USE TimingAssumption
<1>1. delay <= TASK_MAX_DELAY /\ attentive
        => elapsed <= delay + (IF tickCounter < delayCounter THEN 1 ELSE 0)
  BY DEF DelayInvariant, InTime, Wrapped
<1>2. ASSUME byte = BYTES
      PROVE  /\ value >= started
             /\ value > clocktime => \E i \in 1 .. BYTES - 1 :
                  /\ started \div Worth[i] < clocktime \div Worth[i]
                  /\ value - clocktime < Worth[i]
  <2>1. Reading /\ clocktime \in Nat /\ value \in Nat /\ started \in Nat
    BY <1>2, WorthOf DEF ClockInvariant, Idle
  <2>2. Worth[BYTES] \in Nat \ {0} /\ clocktime = Worth[BYTES] * 0 + clocktime
        /\ clocktime \in 0 .. Worth[BYTES] - 1
    BY WorthOf DEF ClockInvariant
  <2>3. clocktime \div Worth[BYTES] = 0
    BY <2>1, <2>2, OnePart
  <2>4. Meant = value
    BY <1>2, <2>1, <2>2, <2>3 DEF Meant
  <2> QED
    BY <2>1, <2>4 DEF Reading, CarriedInto
<1> QED
  BY <1>1, <1>2 DEF TimeKept, DelayInvariant

-----------------------------------------------------------------------------
(*  PipeStreams: the stream functions of pipes.                            *)

(* Words.                                                                  *)
LEMMA WeightOf ==
  /\ \A i \in 0 .. 4 : Weight[i] \in Nat \ {0}
  /\ Weight[0] = 1
  /\ \A i \in 1 .. 4 : Weight[i] = Digits * Weight[i - 1]
<1> USE PipeStreamsAssumption
<1> DEFINE D == Digits
           Rule(s) == s = [i \in 0 .. 4 |-> IF i = 0 THEN 1 ELSE D * s[i - 1]]
           weight == CHOOSE s : Rule(s)
           t == [i \in 0 .. 4 |-> IF i = 0 THEN 1 ELSE IF i = 1 THEN D ELSE IF i = 2 THEN D * D
                                  ELSE IF i = 3 THEN D * (D * D) ELSE D * (D * (D * D))]
<1>1. Rule(t)
  <2>1. \A i \in 0 .. 4 : t[i] = IF i = 0 THEN 1 ELSE D * t[i - 1]
    <3>1. t[0] = 1 /\ t[1] = D /\ t[2] = D * D /\ t[3] = D * (D * D) /\ t[4] = D * (D * (D * D))
      OBVIOUS
    <3>2. D * 1 = D
      OBVIOUS
    <3> HIDE DEF t, D
    <3> QED
      BY <3>1, <3>2
  <2>2. t = [i \in 0 .. 4 |-> t[i]]
    OBVIOUS
  <2> HIDE DEF t, D
  <2> QED
    BY <2>1, <2>2
<1>2. Rule(weight)
  BY <1>1
<1>3. Weight = weight
  BY DEF Weight
<1> HIDE DEF weight
<1>4. Weight[0] = 1 /\ \A i \in 1 .. 4 : Weight[i] = D * Weight[i - 1]
  BY <1>2, <1>3
<1>5. \A w \in Nat \ {0} : D * w \in Nat \ {0}
  OBVIOUS
<1>6. \A i \in 1 .. 4 : Weight[i - 1] \in Nat \ {0} => Weight[i] \in Nat \ {0}
  BY <1>4, <1>5
<1>7. Weight[0] \in Nat \ {0} /\ Weight[1] \in Nat \ {0}
  BY <1>4, <1>6
<1>8. Weight[2] \in Nat \ {0} /\ Weight[3] \in Nat \ {0}
  BY <1>6, <1>7
<1>9. Weight[4] \in Nat \ {0}
  BY <1>6, <1>8
<1> QED
  BY <1>4, <1>7, <1>8, <1>9

(* A word is the number of its digits.                                     *)
LEMMA WordIsNumber ==
  ASSUME NEW size \in 1 .. 4, NEW n \in 0 .. Weight[size] - 1
  PROVE  Number(Reverse(Word(n, size))) = n
<1> USE PipeStreamsAssumption
<1> DEFINE b == Reverse(Word(n, size))
           high(i) == n \div Weight[size - i]
           f == [i \in 0 .. size |-> high(i)]
           Rule(s) == s = [i \in 0 .. size |-> IF i = 0 THEN 0 ELSE s[i - 1] * Digits + b[i]]
           number == CHOOSE s : Rule(s)
<1>1. Len(b) = size /\ \A i \in 1 .. size : b[i] = high(i) % Digits
  <2>1. Len(Word(n, size)) = size /\ DOMAIN Word(n, size) = 1 .. size
    BY DEF Word
  <2>2. b = [i \in 1 .. size |-> Word(n, size)[size - i + 1]]
    BY <2>1 DEF Reverse
  <2>3. Len(b) = size
    <3> DEFINE g(i) == Word(n, size)[size - i + 1]
    <3> HIDE DEF g
    <3>1. Len([i \in 1 .. size |-> g(i)]) = size
      OBVIOUS
    <3> QED
      BY <2>2, <3>1 DEF g
  <2>4. ASSUME NEW i \in 1 .. size PROVE b[i] = high(i) % Digits
    <3>1. size - i + 1 \in 1 .. size /\ (size - i + 1) - 1 = size - i
      OBVIOUS
    <3>2. b[i] = Word(n, size)[size - i + 1]
      BY <2>2
    <3> QED
      BY <3>1, <3>2 DEF Word
  <2> QED
    BY <2>3, <2>4
<1>2. n \in Nat /\ \A i \in 0 .. size : Weight[size - i] \in Nat \ {0}
  BY WeightOf
<1>3. \A i \in 0 .. size : high(i) \in Nat
  BY <1>2, Parts2
<1>4. high(0) = 0
  <2>1. n = Weight[size] * 0 + n /\ n \in 0 .. Weight[size] - 1 /\ Weight[size] \in Nat \ {0}
    BY WeightOf
  <2>2. n \div Weight[size] = 0
    BY <1>2, <2>1, OnePart
  <2> QED
    BY <2>2
<1>5. high(size) = n
  <2>1. size - size = 0 /\ n \div 1 = n
    OBVIOUS
  <2> QED
    BY <2>1, WeightOf
<1>6. ASSUME NEW i \in 1 .. size PROVE high(i) = high(i - 1) * Digits + b[i]
  <2> DEFINE w == Weight[size - i]
             h == n \div w
  <2>1. size - (i - 1) \in 1 .. 4 /\ size - (i - 1) - 1 = size - i
    OBVIOUS
  <2>2. Weight[size - (i - 1)] = Digits * w
    BY <2>1, WeightOf
  <2>3. w \in Nat \ {0}
    BY <1>2
  <2>4. Digits \in Nat \ {0}
    OBVIOUS
  <2>5. n \div (Digits * w) = h \div Digits
    <3> HIDE DEF w
    <3> QED
      BY ONLY <1>2, <2>3, <2>4, PartOfPart, Zenon
  <2>6. h \in Nat
    BY <1>2, <2>3, Parts2
  <2>7. h = Digits * (h \div Digits) + (h % Digits) /\ h \div Digits \in Nat /\ h % Digits \in Nat
    <3> HIDE DEF h
    <3>1. h % Digits \in 0 .. Digits - 1 /\ h \div Digits \in Nat
          /\ h = Digits * (h \div Digits) + (h % Digits)
      BY <2>4, <2>6, Parts2
    <3> QED
      BY <3>1
  <2>8. high(i) = h /\ high(i - 1) = h \div Digits /\ b[i] = h % Digits
    BY <1>1, <2>2, <2>5
  <2> HIDE DEF b, h
  <2>9. Digits * (h \div Digits) = (h \div Digits) * Digits
    BY <2>7
  <2> QED
    BY <2>7, <2>8, <2>9
<1> HIDE DEF b
<1>7. Rule(f)
  <2>1. \A i \in 0 .. size : f[i] = high(i)
    OBVIOUS
  <2>2. \A i \in 1 .. size : i - 1 \in 0 .. size
    OBVIOUS
  <2>3. \A i \in 0 .. size : f[i] = IF i = 0 THEN 0 ELSE f[i - 1] * Digits + b[i]
    <3> HIDE DEF high, f
    <3> QED
      BY <1>4, <1>6, <2>1, <2>2
  <2> QED
    BY <2>3
<1>8. Rule(number)
  <2> HIDE DEF f
  <2> QED
    BY <1>7
<1>9. Number(b) = number[size]
  BY <1>1 DEF Number
<1> HIDE DEF number, high, f
<1> DEFINE T == {k \in 0 .. size : number[k] = high(k)}
<1>10. 0 \in T
  BY <1>4, <1>8
<1>11. ASSUME NEW k \in 1 .. size, k - 1 \in T PROVE k \in T
  <2>1. number[k] = number[k - 1] * Digits + b[k]
    BY <1>8
  <2>2. number[k - 1] = high(k - 1)
    BY <1>11
  <2> QED
    BY <1>6, <2>1, <2>2
<1>12. \A k \in 0 .. size : k \in T
  <2> HIDE DEF T
  <2> QED
    BY <1>10, <1>11, UpTo
<1>13. number[size] = n
  BY <1>5, <1>12
<1> QED
  BY <1>9, <1>13 DEF b

-----------------------------------------------------------------------------
(* Streams.                                                                *)

(* Where in memory the k-th byte of the stream is.                         *)
PlaceOf(k) == IF function.order = "LE" THEN k ELSE askedFor + 1 - k

PipeTypeOK ==
  /\ function \in StreamFunctions /\ askedFor \in Nat /\ Length \in 0 .. askedFor
  /\ memory \in [1 .. askedFor -> Nat]
  /\ pipeBank \in Seq(Int) /\ wire \in Seq(Int)
  /\ timeoutMSRem \in 0 .. USB_STREAM_TIMEOUT_MS /\ waited \in Nat

(* What a writer has moved is on the wire and then in the bank.            *)
Written ==
  /\ Len(wire) + Len(pipeBank) = Moved
  /\ \A k \in 1 .. Len(wire) : wire[k] = PlaceOf(k)
  /\ \A k \in 1 .. Len(pipeBank) : pipeBank[k] = PlaceOf(Len(wire) + k)

(* A reader has the next bytes in its bank, and none when the other side   *)
(* has the bank; none is lost but with the device.                         *)
Arrived ==
  /\ attached => Len(wire) = Moved + Len(pipeBank)
  /\ \A k \in 1 .. Len(pipeBank) : pipeBank[k] = Moved + k
  /\ onWire => pipeBank = <<>>

Stored ==
  \A k \in 1 .. askedFor : memory[PlaceOf(k)] = IF k <= Moved THEN k ELSE 0

(* In the loop over the bytes the program has the bank, and has found it   *)
(* ready at least once.                                                    *)
InLoop ==
  /\ ~onWire
  /\ function.bus = "Endpoint" => ~pipeStalled
  /\ ~Writes /\ pipeBank = <<>> => Moved > 0

Frames == waited + timeoutMSRem = USB_STREAM_TIMEOUT_MS + (IF frameFlag THEN 1 ELSE 0)

Returned ==
  /\ streamPc = "NoError" => Length = 0
  /\ streamPc = "CallbackAborted" => callback /\ onWire /\ Length > 0 /\ (Moved > 0 \/ ~attached)
  /\ streamPc = "Timeout" => waited = USB_STREAM_TIMEOUT_MS + 1

PipeInvariant ==
  /\ PipeTypeOK
  /\ Writes => Written
  /\ ~Writes => Arrived
  /\ function.moves = "Read" => Stored
  /\ streamPc = "byte" => InLoop
  /\ streamPc = "wait" => Frames
  /\ Returned

LEMMA NoBytes == <<>> \in Seq(Int) /\ Len(<<>>) = 0 /\ \A s \in Seq(Int) : Len(s) = 0 <=> s = <<>>
  BY EmptySeq

LEMMA PipeStarts == PipeInit => PipeInvariant
<1> SUFFICES ASSUME PipeInit PROVE PipeInvariant
  OBVIOUS
<1> USE PipeStreamsAssumption
<1>1. /\ askedFor \in Nat /\ Length = askedFor /\ pipeBank = <<>> /\ wire = <<>> /\ waited = 0
      /\ onWire = (function.moves # "Write")
      /\ memory = [i \in 1 .. askedFor |-> 0] /\ streamPc = "wait" /\ frameFlag = FALSE
      /\ timeoutMSRem = USB_STREAM_TIMEOUT_MS /\ function \in StreamFunctions
  BY DEF PipeInit
<1>2. PipeTypeOK
  BY <1>1, NoBytes DEF PipeTypeOK
<1>3. Moved = 0
  BY <1>1 DEF Moved
<1>4. Written /\ Arrived
  BY <1>1, <1>3, NoBytes DEF Written, Arrived
<1>5. Stored
  <2>1. ASSUME NEW k \in 1 .. askedFor PROVE PlaceOf(k) \in 1 .. askedFor
    BY <1>1 DEF PlaceOf
  <2> QED
    BY <1>1, <1>3, <2>1 DEF Stored
<1>6. Frames /\ Returned
  BY <1>1 DEF Frames, Returned
<1> QED
  BY <1>1, <1>2, <1>4, <1>5, <1>6 DEF PipeInvariant

(* What no step of a stream changes.                                       *)
LEMMA SameStream ==
  ASSUME UNCHANGED <<function, askedFor>>
  PROVE  (Writes' <=> Writes) /\ \A k \in Int : PlaceOf(k)' = PlaceOf(k)
  BY DEF Writes, PlaceOf

LEMMA PipeStep ==
  ASSUME PipeInvariant, PipeNext \/ UNCHANGED pipeVars
  PROVE  PipeInvariant'
<1> USE PipeStreamsAssumption
<1>0. /\ PipeTypeOK /\ askedFor \in Nat /\ Length \in 0 .. askedFor
      /\ pipeBank \in Seq(Int) /\ wire \in Seq(Int) /\ Len(pipeBank) \in Nat /\ Len(wire) \in Nat
      /\ Moved \in 0 .. askedFor
      /\ timeoutMSRem \in 0 .. USB_STREAM_TIMEOUT_MS /\ waited \in Nat /\ USB_STREAM_TIMEOUT_MS \in Nat
      /\ PipeBank \in Nat \ {0}
  BY LenProperties DEF PipeInvariant, PipeTypeOK, Moved
(* Steps that move no bytes.                                               *)
<1>1. ASSUME UNCHANGED <<function, askedFor, Length, memory, wire, pipeBank, onWire>>,
             attached' => attached
      PROVE  /\ (Writes' => Written') /\ (~Writes' => Arrived')
             /\ (function'.moves = "Read" => Stored')
             /\ Moved' = Moved /\ (Writes' <=> Writes)
  <2>1. Moved' = Moved /\ (Writes' <=> Writes) /\ \A k \in Int : PlaceOf(k)' = PlaceOf(k)
    BY <1>1, SameStream DEF Moved
  <2>2. Written => Written'
    BY <1>0, <1>1, <2>1 DEF Written
  <2>3. Arrived => Arrived'
    BY <1>0, <1>1, <2>1 DEF Arrived
  <2>4. Stored => Stored'
    BY <1>0, <1>1, <2>1 DEF Stored
  <2> QED
    BY <1>1, <2>1, <2>2, <2>3, <2>4 DEF PipeInvariant
<1>2. CASE BankReady
  <2>1. /\ UNCHANGED <<function, askedFor, Length, memory, wire, pipeBank, onWire, pipeStalled,
                       callback, attached, timeoutMSRem, frameFlag, waited>>
        /\ streamPc' = "byte" /\ ReadWriteAllowed
    BY <1>2 DEF BankReady, StreamUnchanged
  <2>2. InLoop
    BY <2>1 DEF ReadWriteAllowed, InLoop
  <2>3. InLoop' /\ Returned' /\ PipeTypeOK'
    BY <1>1, <2>1, <2>2, <1>0 DEF InLoop, Returned, PipeTypeOK
  <2> QED
    BY <1>1, <2>1, <2>3 DEF PipeInvariant
<1>3. CASE WaitEnds
  <2>1. /\ UNCHANGED <<function, askedFor, Length, memory, wire, pipeBank, onWire, pipeStalled,
                       callback, attached, timeoutMSRem, frameFlag, waited>>
        /\ \/ streamPc' \in {"PipeStalled", "DeviceDisconnected", "EndpointStalled"}
           \/ streamPc' = "Timeout" /\ frameFlag /\ timeoutMSRem = 0
        /\ streamPc = "wait"
    BY <1>3 DEF WaitEnds, StreamUnchanged, ReturnsWith
  <2>2. Frames
    BY <2>1 DEF PipeInvariant
  <2>3. Returned' /\ PipeTypeOK'
    BY <2>1, <2>2, <1>0 DEF Returned, PipeTypeOK, Frames
  <2> QED
    BY <1>1, <2>1, <2>3 DEF PipeInvariant
<1>4. CASE WaitOn
  <2>1. /\ UNCHANGED <<function, askedFor, Length, memory, wire, pipeBank, onWire, pipeStalled,
                       callback, attached, waited, streamPc>>
        /\ streamPc = "wait" /\ frameFlag /\ timeoutMSRem > 0
        /\ frameFlag' = FALSE /\ timeoutMSRem' = timeoutMSRem - 1
    BY <1>4 DEF WaitOn, StreamUnchanged
  <2>2. Frames
    BY <2>1 DEF PipeInvariant
  <2>3. Frames' /\ Returned' /\ PipeTypeOK'
    BY <1>0, <2>1, <2>2 DEF Frames, Returned, PipeTypeOK
  <2> QED
    BY <1>1, <2>1, <2>3 DEF PipeInvariant
<1>5. CASE PassBank
  <2>1. /\ UNCHANGED <<function, askedFor, Length, memory, wire, pipeStalled, callback, attached>>
        /\ streamPc = "byte" /\ Length > 0 /\ ~ReadWriteAllowed /\ onWire' = TRUE
        /\ pipeBank' = IF Writes THEN pipeBank ELSE <<>>
        /\ StartWaiting \/ (callback /\ ReturnsWith("CallbackAborted"))
    BY <1>5 DEF PassBank, StreamUnchanged
  <2>2. InLoop /\ Moved' = Moved /\ (Writes' <=> Writes) /\ \A k \in Int : PlaceOf(k)' = PlaceOf(k)
    BY <2>1, SameStream DEF Moved, PipeInvariant
  <2>3. ASSUME Writes PROVE Written' /\ (Moved > 0 \/ ~attached)
    <3>1. Written /\ pipeBank' = pipeBank
      BY <2>1, <2>3 DEF PipeInvariant
    <3>2. Written'
      BY <1>0, <2>1, <2>2, <3>1 DEF Written
    <3>3. attached => Len(pipeBank) >= PipeBank
      BY <1>0, <2>1, <2>2, <2>3 DEF ReadWriteAllowed, InLoop
    <3>4. Moved > 0 \/ ~attached
      BY <1>0, <3>1, <3>3 DEF Written
    <3> QED
      BY <3>2, <3>4
  <2>4. ASSUME ~Writes PROVE Arrived' /\ (Moved > 0 \/ ~attached)
    <3>1. Arrived /\ pipeBank' = <<>>
      BY <2>1, <2>4 DEF PipeInvariant
    <3>2. attached => pipeBank = <<>>
      BY <2>1, <2>2, <2>4 DEF ReadWriteAllowed, InLoop
    <3>3. Arrived'
      BY <1>0, <2>1, <2>2, <3>1, <3>2, NoBytes DEF Arrived
    <3>4. Moved > 0 \/ ~attached
      BY <2>2, <2>4, <3>2 DEF InLoop
    <3> QED
      BY <3>3, <3>4
  <2>5. function'.moves = "Read" => Stored'
    BY <1>0, <2>1, <2>2 DEF PipeInvariant, Stored
  <2>6. pipeBank' \in Seq(Int)
    BY <1>0, <2>1, NoBytes
  <2>7. CASE StartWaiting
    <3>1. Frames' /\ PipeTypeOK' /\ Returned' /\ streamPc' = "wait"
      BY <1>0, <2>1, <2>6, <2>7 DEF StartWaiting, Frames, PipeTypeOK, Returned
    <3> QED
      BY <2>2, <2>3, <2>4, <2>5, <3>1 DEF PipeInvariant
  <2>8. CASE callback /\ ReturnsWith("CallbackAborted")
    <3>1. PipeTypeOK' /\ streamPc' = "CallbackAborted"
      BY <1>0, <2>1, <2>6, <2>8 DEF ReturnsWith, PipeTypeOK
    <3>2. Returned'
      <4>1. Moved > 0 \/ ~attached
        BY <2>2, <2>3, <2>4
      <4> QED
        BY <2>1, <2>2, <2>8, <3>1, <4>1 DEF Returned
    <3> QED
      BY <2>2, <2>3, <2>4, <2>5, <3>1, <3>2 DEF PipeInvariant
  <2> QED
    BY <2>1, <2>7, <2>8
<1>6. CASE MoveByte
  <2>1. /\ UNCHANGED <<function, askedFor, wire, pipeStalled, callback, attached, streamPc, onWire,
                       timeoutMSRem, frameFlag, waited>>
        /\ streamPc = "byte" /\ Length > 0 /\ ReadWriteAllowed
        /\ Length' = Length - 1
        /\ pipeBank' = IF Writes THEN Append(pipeBank, Place(Moved + 1)) ELSE Tail(pipeBank)
        /\ memory' = IF function.moves = "Read"
                     THEN [memory EXCEPT ![Place(Moved + 1)] = Head(pipeBank)] ELSE memory
    BY <1>6 DEF MoveByte, StreamUnchanged
  <2>2. /\ InLoop /\ Moved' = Moved + 1 /\ Moved + 1 \in 1 .. askedFor
        /\ (Writes' <=> Writes) /\ \A k \in Int : PlaceOf(k)' = PlaceOf(k)
    BY <1>0, <2>1, SameStream DEF Moved, PipeInvariant
  <2>3. Place(Moved + 1) = PlaceOf(Moved + 1) /\ Place(Moved + 1) \in 1 .. askedFor
    BY <1>0, <2>2 DEF Place, PlaceOf
  <2>4. ASSUME Writes PROVE pipeBank' \in Seq(Int) /\ Written'
    <3> DEFINE p == Place(Moved + 1)
    <3>1. p \in Int /\ pipeBank' = Append(pipeBank, p)
      BY <2>1, <2>3, <2>4
    <3>2. /\ Append(pipeBank, p) \in Seq(Int) /\ Len(Append(pipeBank, p)) = Len(pipeBank) + 1
          /\ \A i \in 1 .. Len(pipeBank) : Append(pipeBank, p)[i] = pipeBank[i]
          /\ Append(pipeBank, p)[Len(pipeBank) + 1] = p
      <4> HIDE DEF p
      <4> QED
        BY <1>0, <3>1, AppendProperties
    <3>3. Written
      BY <2>4 DEF PipeInvariant
    <3>4. p = PlaceOf(Len(wire) + (Len(pipeBank) + 1))
      <4>1. Len(wire) + (Len(pipeBank) + 1) = Moved + 1
        BY <1>0, <3>3 DEF Written
      <4> QED
        BY <2>3, <4>1
    <3> HIDE DEF p
    <3>5. Written'
      <4>1. Len(wire') + Len(pipeBank') = Moved'
        <5>1. wire' = wire /\ Len(pipeBank') = Len(pipeBank) + 1 /\ Moved' = Moved + 1
          BY <2>1, <2>2, <3>1, <3>2
        <5>2. Len(wire) + Len(pipeBank) = Moved
          BY <3>3 DEF Written
        <5> QED
          BY <1>0, <5>1, <5>2
      <4>2. \A k \in 1 .. Len(wire') : wire'[k] = PlaceOf(k)'
        BY <1>0, <2>1, <2>2, <3>3 DEF Written
      <4>3. ASSUME NEW k \in 1 .. Len(pipeBank') PROVE pipeBank'[k] = PlaceOf(Len(wire) + k)
        <5>1. k = Len(pipeBank) + 1 \/ k \in 1 .. Len(pipeBank)
          BY <1>0, <3>1, <3>2
        <5> QED
          BY <3>1, <3>2, <3>3, <3>4, <5>1 DEF Written
      <4>4. \A k \in 1 .. Len(pipeBank') : Len(wire') + k \in Int /\ Len(wire') = Len(wire)
        BY <1>0, <2>1, <3>1, <3>2
      <4>5. \A k \in 1 .. Len(pipeBank') : pipeBank'[k] = PlaceOf(Len(wire) + k)'
        BY <2>1, <2>2, <4>3, <4>4
      <4> QED
        BY <4>1, <4>2, <4>5 DEF Written
    <3> QED
      BY <3>1, <3>2, <3>5
  <2>5. ASSUME ~Writes PROVE pipeBank' \in Seq(Int) /\ Arrived' /\ Head(pipeBank) = Moved + 1
    <3>1. Arrived /\ pipeBank # <<>> /\ pipeBank' = Tail(pipeBank)
      BY <2>1, <2>5 DEF PipeInvariant, ReadWriteAllowed
    <3>2. /\ Tail(pipeBank) \in Seq(Int) /\ Len(Tail(pipeBank)) = Len(pipeBank) - 1
          /\ \A i \in 1 .. Len(Tail(pipeBank)) : Tail(pipeBank)[i] = pipeBank[i + 1]
      BY <1>0, <3>1, HeadTailProperties
    <3>3. Head(pipeBank) = pipeBank[1] /\ Len(pipeBank) >= 1
      BY <1>0, <3>1, EmptySeq
    <3>4. Head(pipeBank) = Moved + 1
      BY <1>0, <3>1, <3>3 DEF Arrived
    <3>5. Arrived'
      <4>1. attached' => Len(wire') = Moved' + Len(pipeBank')
        <5>1. Len(pipeBank') = Len(pipeBank) - 1 /\ Moved' = Moved + 1 /\ wire' = wire
              /\ (attached' => attached)
          BY <2>1, <2>2, <3>1, <3>2
        <5>2. attached => Len(wire) = Moved + Len(pipeBank)
          BY <3>1 DEF Arrived
        <5>3. ASSUME attached PROVE Len(wire') = Moved' + Len(pipeBank')
          <6>1. Len(wire) = Moved + Len(pipeBank)
            BY <5>2, <5>3
          <6> QED
            BY <1>0, <5>1, <6>1
        <5> QED
          BY <5>1, <5>3
      <4>2. ASSUME NEW k \in 1 .. Len(pipeBank') PROVE pipeBank'[k] = Moved' + k
        <5>1. k + 1 \in 1 .. Len(pipeBank) /\ pipeBank'[k] = pipeBank[k + 1]
          BY <1>0, <3>1, <3>2, <4>2
        <5> QED
          BY <1>0, <2>2, <3>1, <5>1 DEF Arrived
      <4>3. ~onWire'
        BY <2>1, <2>2 DEF InLoop
      <4> QED
        BY <4>1, <4>2, <4>3 DEF Arrived
    <3> QED
      BY <3>1, <3>2, <3>4, <3>5
  <2>6. /\ pipeBank' \in Seq(Int)
        /\ (Writes' => Written') /\ (~Writes' => Arrived')
        /\ (~Writes => Head(pipeBank) = Moved + 1)
    BY <2>2, <2>4, <2>5
  <2>7. ASSUME function.moves = "Read" PROVE memory' \in [1 .. askedFor -> Nat] /\ Stored'
    <3>1. Stored /\ ~Writes /\ Head(pipeBank) = Moved + 1
      BY <2>6, <2>7 DEF PipeInvariant, Writes
    <3>2. memory' = [memory EXCEPT ![PlaceOf(Moved + 1)] = Moved + 1]
      BY <2>1, <2>3, <2>7, <3>1
    <3>3. memory' \in [1 .. askedFor -> Nat]
      <4>1. memory \in [1 .. askedFor -> Nat] /\ Moved + 1 \in Nat
        BY <1>0 DEF PipeTypeOK
      <4> QED
        BY <3>2, <4>1
    <3>4. ASSUME NEW k \in 1 .. askedFor
          PROVE  memory'[PlaceOf(k)] = IF k <= Moved + 1 THEN k ELSE 0
      <4>1. PlaceOf(k) \in 1 .. askedFor /\ (PlaceOf(k) = PlaceOf(Moved + 1) <=> k = Moved + 1)
        BY <1>0 DEF PlaceOf
      <4>2. memory[PlaceOf(k)] = IF k <= Moved THEN k ELSE 0
        BY <3>1 DEF Stored
      <4>3. DOMAIN memory = 1 .. askedFor
        BY <1>0 DEF PipeTypeOK
      <4>4. memory'[PlaceOf(k)] = IF k = Moved + 1 THEN Moved + 1 ELSE memory[PlaceOf(k)]
        BY <3>2, <4>1, <4>3
      <4> QED
        BY <1>0, <4>2, <4>4
    <3>5. Stored'
      BY <2>1, <2>2, <3>4 DEF Stored
    <3> QED
      BY <3>3, <3>5
  <2>8. memory' \in [1 .. askedFor -> Nat] /\ (function'.moves = "Read" => Stored')
    <3>1. CASE function.moves = "Read"
      BY <2>7, <3>1
    <3>2. CASE function.moves # "Read"
      BY <1>0, <2>1, <3>2 DEF PipeTypeOK
    <3> QED
      BY <3>1, <3>2
  <2>9. InLoop' /\ Returned' /\ PipeTypeOK'
    BY <1>0, <2>1, <2>2, <2>6, <2>8 DEF InLoop, Returned, PipeTypeOK
  <2> QED
    BY <2>1, <2>6, <2>8, <2>9 DEF PipeInvariant
<1>7. CASE StreamEnds
  <2>1. /\ UNCHANGED <<function, askedFor, Length, memory, wire, pipeBank, onWire, pipeStalled,
                       callback, attached, timeoutMSRem, frameFlag, waited>>
        /\ streamPc' = "NoError" /\ Length = 0
    BY <1>7 DEF StreamEnds, StreamUnchanged, ReturnsWith
  <2>2. Returned' /\ PipeTypeOK'
    BY <2>1, <1>0 DEF Returned, PipeTypeOK
  <2> QED
    BY <1>1, <2>1, <2>2 DEF PipeInvariant
<1>8. CASE TakePacket
  <2>1. /\ UNCHANGED <<function, askedFor, Length, memory, pipeStalled, callback, attached, streamPc,
                       timeoutMSRem, frameFlag, waited>>
        /\ streamPc \in {"wait", "byte"} /\ Writes /\ onWire
        /\ wire' = wire \o pipeBank /\ pipeBank' = <<>> /\ onWire' = FALSE
    BY <1>8 DEF TakePacket, ProgramUnchanged, Underway
  <2>2. /\ Moved' = Moved /\ (Writes' <=> Writes) /\ \A k \in Int : PlaceOf(k)' = PlaceOf(k)
        /\ Written
    BY <2>1, SameStream DEF Moved, PipeInvariant
  <2>3. /\ wire \o pipeBank \in Seq(Int) /\ Len(wire \o pipeBank) = Len(wire) + Len(pipeBank)
        /\ \A i \in 1 .. Len(wire) + Len(pipeBank) :
             (wire \o pipeBank)[i] = IF i <= Len(wire) THEN wire[i] ELSE pipeBank[i - Len(wire)]
    BY <1>0, ConcatProperties
  <2>4. ASSUME NEW k \in 1 .. Len(wire') PROVE wire'[k] = PlaceOf(k)
    <3>1. CASE k <= Len(wire)
      BY <1>0, <2>1, <2>2, <2>3, <3>1 DEF Written
    <3>2. CASE ~(k <= Len(wire))
      <4>1. k - Len(wire) \in 1 .. Len(pipeBank) /\ Len(wire) + (k - Len(wire)) = k
        BY <1>0, <2>1, <2>3, <3>2
      <4>2. wire'[k] = pipeBank[k - Len(wire)]
        BY <1>0, <2>1, <2>3, <3>2
      <4>3. pipeBank[k - Len(wire)] = PlaceOf(Len(wire) + (k - Len(wire)))
        BY <2>2, <4>1 DEF Written
      <4> QED
        BY <4>1, <4>2, <4>3
    <3> QED
      BY <3>1, <3>2
  <2>5. Written'
    BY <1>0, <2>1, <2>2, <2>3, <2>4, NoBytes DEF Written
  <2>6. Returned' /\ PipeTypeOK' /\ streamPc # "byte"
    BY <1>0, <2>1, <2>2, <2>3, NoBytes DEF Returned, PipeTypeOK, PipeInvariant, InLoop
  <2>7. function'.moves # "Read" /\ (streamPc' = "wait" => Frames')
    BY <2>1 DEF Writes, PipeInvariant, Frames
  <2> QED
    BY <2>1, <2>2, <2>5, <2>6, <2>7 DEF PipeInvariant
<1>9. CASE SendPacket
  <2>1. /\ UNCHANGED <<function, askedFor, Length, memory, pipeStalled, callback, attached, streamPc,
                       timeoutMSRem, frameFlag, waited>>
        /\ streamPc \in {"wait", "byte"} /\ ~Writes /\ onWire /\ attached
        /\ wire' = wire \o pipeBank' /\ onWire' = FALSE
    BY <1>9 DEF SendPacket, ProgramUnchanged, Underway
  <2>2. PICK n \in 1 .. PipeBank : pipeBank' = [i \in 1 .. n |-> Len(wire) + i]
    BY <1>9 DEF SendPacket
  <2>3. /\ Moved' = Moved /\ (Writes' <=> Writes) /\ \A k \in Int : PlaceOf(k)' = PlaceOf(k)
        /\ Arrived
    BY <2>1, SameStream DEF Moved, PipeInvariant
  <2>4. pipeBank' \in Seq(Int) /\ Len(pipeBank') = n
    BY <1>0, <2>2
  <2>5. wire' \in Seq(Int) /\ Len(wire') = Len(wire) + n
    BY <1>0, <2>1, <2>4, ConcatProperties
  <2>6. Len(wire) = Moved
    BY <1>0, <2>1, <2>3, NoBytes DEF Arrived
  <2>7. Arrived'
    <3>1. Len(wire') = Moved' + Len(pipeBank')
      BY <2>3, <2>4, <2>5, <2>6
    <3>2. \A k \in 1 .. Len(pipeBank') : pipeBank'[k] = Moved' + k
      BY <2>2, <2>3, <2>4, <2>6
    <3> QED
      BY <2>1, <3>1, <3>2 DEF Arrived
  <2>8. Returned' /\ PipeTypeOK' /\ streamPc # "byte"
    BY <1>0, <2>1, <2>3, <2>4, <2>5 DEF Returned, PipeTypeOK, PipeInvariant, InLoop
  <2>9. (function'.moves = "Read" => Stored') /\ (streamPc' = "wait" => Frames')
    BY <1>0, <2>1, <2>3 DEF PipeInvariant, Frames, Stored
  <2> QED
    BY <2>1, <2>3, <2>7, <2>8, <2>9 DEF PipeInvariant
<1>10. CASE BusFrame
  <2>1. /\ UNCHANGED <<function, askedFor, Length, memory, wire, pipeBank, onWire, pipeStalled,
                       callback, attached, streamPc, timeoutMSRem>>
        /\ streamPc \in {"wait", "byte"} /\ ~frameFlag
        /\ frameFlag' = TRUE /\ waited' = IF streamPc = "wait" THEN waited + 1 ELSE waited
    BY <1>10 DEF BusFrame, ProgramUnchanged, Underway
  <2>2. streamPc' = "wait" => Frames'
    BY <1>0, <2>1 DEF PipeInvariant, Frames
  <2>3. PipeTypeOK' /\ Returned'
    BY <1>0, <2>1 DEF PipeTypeOK, Returned
  <2>4. streamPc' = "byte" => InLoop'
    BY <1>1, <2>1 DEF PipeInvariant, InLoop
  <2> QED
    BY <1>1, <2>1, <2>2, <2>3, <2>4 DEF PipeInvariant
<1>11. CASE StallOrDetach
  <2>1. /\ UNCHANGED <<function, askedFor, Length, memory, wire, pipeBank, onWire,
                       callback, streamPc, timeoutMSRem, frameFlag, waited>>
        /\ streamPc \in {"wait", "byte"} /\ (attached' => attached)
        /\ function.bus = "Pipe" \/ pipeStalled' = pipeStalled
    BY <1>11 DEF StallOrDetach, ProgramUnchanged, Underway
  <2>2. streamPc' = "wait" => Frames'
    BY <2>1 DEF PipeInvariant, Frames
  <2>3. PipeTypeOK' /\ Returned'
    BY <1>0, <2>1 DEF PipeTypeOK, Returned
  <2>4. streamPc' = "byte" => InLoop'
    BY <1>1, <2>1 DEF PipeInvariant, InLoop
  <2> QED
    BY <1>1, <2>1, <2>2, <2>3, <2>4 DEF PipeInvariant
<1>12. CASE UNCHANGED pipeVars
  <2>1. UNCHANGED <<function, Length, callback, streamPc, memory, pipeBank, onWire, wire,
              timeoutMSRem, frameFlag, pipeStalled, attached, waited, askedFor>>
    BY <1>12 DEF pipeVars
  <2>2. PipeTypeOK' /\ (streamPc' = "wait" => Frames')
    BY <1>0, <2>1 DEF PipeTypeOK, PipeInvariant, Frames
  <2>3. Returned' /\ (streamPc' = "byte" => InLoop')
    BY <1>1, <2>1 DEF Returned, PipeInvariant, InLoop
  <2> QED
    BY <1>1, <2>1, <2>2, <2>3 DEF PipeInvariant
<1> QED
  BY <1>2, <1>3, <1>4, <1>5, <1>6, <1>7, <1>8, <1>9, <1>10, <1>11, <1>12 DEF PipeNext

LEMMA StreamsAreInOrder == PipeInvariant => StreamsInOrder
<1> SUFFICES ASSUME PipeInvariant PROVE StreamsInOrder
  OBVIOUS
<1> USE PipeStreamsAssumption
<1>0. /\ askedFor \in Nat /\ pipeBank \in Seq(Int) /\ wire \in Seq(Int)
      /\ Len(pipeBank) \in Nat /\ Len(wire) \in Nat /\ Moved \in 0 .. askedFor
  BY LenProperties DEF PipeInvariant, PipeTypeOK, Moved
<1>1. ASSUME Writes
      PROVE  wire \o pipeBank = [k \in 1 .. Moved |->
                                   IF function.order = "LE" THEN k ELSE askedFor + 1 - k]
  <2>1. /\ wire \o pipeBank \in Seq(Int) /\ Len(wire \o pipeBank) = Len(wire) + Len(pipeBank)
        /\ \A i \in 1 .. Len(wire) + Len(pipeBank) :
             (wire \o pipeBank)[i] = IF i <= Len(wire) THEN wire[i] ELSE pipeBank[i - Len(wire)]
    BY <1>0, ConcatProperties
  <2>2. Written
    BY <1>1 DEF PipeInvariant
  <2>3. wire \o pipeBank = [k \in 1 .. Moved |-> (wire \o pipeBank)[k]]
    <3> DEFINE s == wire \o pipeBank
    <3>1. s \in Seq(Int) /\ Len(s) = Moved
      BY <2>1, <2>2 DEF Written
    <3> HIDE DEF s
    <3>2. s = [k \in 1 .. Len(s) |-> s[k]]
      BY <3>1
    <3> QED
      BY <3>1, <3>2 DEF s
  <2>4. ASSUME NEW k \in 1 .. Moved PROVE (wire \o pipeBank)[k] = PlaceOf(k)
    <3>1. CASE k <= Len(wire)
      <4>1. k \in 1 .. Len(wire) /\ k \in 1 .. Len(wire) + Len(pipeBank)
        BY <1>0, <3>1
      <4>2. (wire \o pipeBank)[k] = wire[k]
        BY <2>1, <3>1, <4>1
      <4> QED
        BY <2>2, <4>1, <4>2 DEF Written
    <3>2. CASE ~(k <= Len(wire))
      <4>1. k - Len(wire) \in 1 .. Len(pipeBank) /\ Len(wire) + (k - Len(wire)) = k
        BY <1>0, <2>2, <3>2 DEF Written
      <4>2. (wire \o pipeBank)[k] = pipeBank[k - Len(wire)]
        BY <1>0, <2>1, <2>2, <3>2 DEF Written
      <4>3. pipeBank[k - Len(wire)] = PlaceOf(Len(wire) + (k - Len(wire)))
        BY <2>2, <4>1 DEF Written
      <4> QED
        BY <4>1, <4>2, <4>3
    <3> QED
      BY <3>1, <3>2
  <2>5. wire \o pipeBank = [k \in 1 .. Moved |-> PlaceOf(k)]
    BY <2>3, <2>4
  <2> QED
    BY <2>5 DEF PlaceOf
<1>2. ~Writes /\ attached => Len(wire) = Moved + Len(pipeBank)
  BY DEF PipeInvariant, Arrived
<1>3. ASSUME function.moves = "Read", NEW i \in 1 .. askedFor
      PROVE  memory[i] = LET k == IF function.order = "LE" THEN i ELSE askedFor + 1 - i
                         IN IF k <= Moved THEN k ELSE 0
  <2> DEFINE k == IF function.order = "LE" THEN i ELSE askedFor + 1 - i
  <2>1. k \in 1 .. askedFor /\ PlaceOf(k) = i
    BY <1>0 DEF PlaceOf
  <2>2. Stored
    BY <1>3 DEF PipeInvariant
  <2> HIDE DEF k
  <2>3. memory[i] = IF k <= Moved THEN k ELSE 0
    BY <2>1, <2>2 DEF Stored
  <2> QED
    BY <2>3 DEF k
<1>4. ASSUME NEW size \in {2, 4}, NEW n \in 0 .. Weight[size] - 1
      PROVE  ReadLE(WriteLE(Word(n, size))) = n /\ ReadBE(WriteBE(Word(n, size))) = n
  BY <1>4, WordIsNumber DEF ReadLE, WriteLE, ReadBE, WriteBE
<1> QED
  BY <1>1, <1>2, <1>3, <1>4 DEF StreamsInOrder, PipeInvariant, Returned

-----------------------------------------------------------------------------
(*  ConfigWalk: the walk through the configuration descriptor.             *)

(* The descriptor, place by place.                                         *)
Notification == Endpoint("In", CDC_NOTIFICATION_EPNUM, "Interrupt", CDC_NOTIFICATION_EPSIZE)
DataOut      == Endpoint("Out", CDC_RX_EPNUM, "Bulk", CDC_TXRX_EPSIZE)
DataIn       == Endpoint("In", CDC_TX_EPNUM, "Bulk", CDC_TXRX_EPSIZE)

LEMMA Sizes ==
  /\ SizeOfConfiguration = 9 /\ SizeOfInterface = 9 /\ SizeOfEndpoint = 7
  BY DEF SizeOfHeader, SizeOfConfiguration, SizeOfInterface, SizeOfEndpoint

LEMMA Table ==
  /\ Places = 1 .. 10 /\ Len(ConfigurationDescriptor) = 10
  /\ ConfigurationDescriptor[1] = Descriptor("Configuration", 9)
  /\ ConfigurationDescriptor[2] = Interface(1)
  /\ ConfigurationDescriptor[3] = Descriptor("Functional", 5)
  /\ ConfigurationDescriptor[4] = Descriptor("Functional", 5)
  /\ ConfigurationDescriptor[5] = Descriptor("Functional", 4)
  /\ ConfigurationDescriptor[6] = Descriptor("Functional", 5)
  /\ ConfigurationDescriptor[7] = Notification
  /\ ConfigurationDescriptor[8] = Interface(2)
  /\ ConfigurationDescriptor[9] = DataOut
  /\ ConfigurationDescriptor[10] = DataIn
<1>1. Functional(2) = Descriptor("Functional", 5) /\ Functional(1) = Descriptor("Functional", 4)
  BY DEF Functional
<1> QED
  BY <1>1, Sizes DEF Places, ConfigurationDescriptor, Notification, DataOut, DataIn

TypeAt(i) == ConfigurationDescriptor[i].type

LEMMA TypesAndSizes ==
  /\ TypeAt(1) = "Configuration" /\ ConfigurationDescriptor[1].size = 9
  /\ TypeAt(2) = "Interface" /\ ConfigurationDescriptor[2].size = 9
  /\ TypeAt(3) = "Functional" /\ ConfigurationDescriptor[3].size = 5
  /\ TypeAt(4) = "Functional" /\ ConfigurationDescriptor[4].size = 5
  /\ TypeAt(5) = "Functional" /\ ConfigurationDescriptor[5].size = 4
  /\ TypeAt(6) = "Functional" /\ ConfigurationDescriptor[6].size = 5
  /\ TypeAt(7) = "Endpoint" /\ ConfigurationDescriptor[7].size = 7
  /\ TypeAt(8) = "Interface" /\ ConfigurationDescriptor[8].size = 9
  /\ TypeAt(9) = "Endpoint" /\ ConfigurationDescriptor[9].size = 7
  /\ TypeAt(10) = "Endpoint" /\ ConfigurationDescriptor[10].size = 7
<1>1. \A t, n : Descriptor(t, n).type = t /\ Descriptor(t, n).size = n
  BY DEF Descriptor
<1>2. \A n : Interface(n).type = "Interface" /\ Interface(n).size = 9
  BY Sizes DEF Interface
<1>3. \A d, n, a, e : Endpoint(d, n, a, e).type = "Endpoint" /\ Endpoint(d, n, a, e).size = 7
  BY Sizes DEF Endpoint
<1> QED
  BY <1>1, <1>2, <1>3, Table DEF TypeAt, Notification, DataOut, DataIn

(* Where each begins.                                                      *)
LEMMA Offsets ==
  /\ Offset[1] = 0 /\ Offset[2] = 9 /\ Offset[3] = 18 /\ Offset[4] = 23 /\ Offset[5] = 28
  /\ Offset[6] = 32 /\ Offset[7] = 37 /\ Offset[8] = 44 /\ Offset[9] = 53 /\ Offset[10] = 60
  /\ TotalConfigurationSize = 67
<1> DEFINE size(i) == ConfigurationDescriptor[i].size
           Rule(s) == s = [i \in 1 .. Len(ConfigurationDescriptor) + 1 |->
                             IF i = 1 THEN 0 ELSE s[i - 1] + size(i - 1)]
           offset == CHOOSE s : Rule(s)
           t == [i \in 1 .. 11 |->
                   CASE i = 1 -> 0 [] i = 2 -> 9 [] i = 3 -> 18 [] i = 4 -> 23 [] i = 5 -> 28
                     [] i = 6 -> 32 [] i = 7 -> 37 [] i = 8 -> 44 [] i = 9 -> 53 [] i = 10 -> 60
                     [] OTHER -> 67]
<1>1. /\ size(1) = 9 /\ size(2) = 9 /\ size(3) = 5 /\ size(4) = 5 /\ size(5) = 4 /\ size(6) = 5
      /\ size(7) = 7 /\ size(8) = 9 /\ size(9) = 7 /\ size(10) = 7
      /\ Len(ConfigurationDescriptor) + 1 = 11
  BY TypesAndSizes, Table
<1> HIDE DEF size
<1>2. Rule(t)
  <2>1. /\ t[1] = 0 /\ t[2] = 9 /\ t[3] = 18 /\ t[4] = 23 /\ t[5] = 28 /\ t[6] = 32 /\ t[7] = 37
        /\ t[8] = 44 /\ t[9] = 53 /\ t[10] = 60 /\ t[11] = 67
    OBVIOUS
  <2>2. t = [i \in 1 .. 11 |-> t[i]]
    OBVIOUS
  <2> HIDE DEF t
  <2>3. \A i \in 1 .. 11 : t[i] = IF i = 1 THEN 0 ELSE t[i - 1] + size(i - 1)
    BY <1>1, <2>1
  <2> QED
    BY <1>1, <2>2, <2>3
<1> HIDE DEF t
<1>3. Rule(offset)
  BY <1>2
<1>4. Offset = offset
  BY DEF Offset, size
<1> HIDE DEF offset
<1>5. Offset[1] = 0 /\ \A i \in 2 .. 11 : Offset[i] = Offset[i - 1] + size(i - 1)
  BY <1>1, <1>3, <1>4
<1>6. Offset[2] = 9
  BY <1>1, <1>5
<1>7. Offset[3] = 18
  BY <1>1, <1>5, <1>6
<1>8. Offset[4] = 23
  BY <1>1, <1>5, <1>7
<1>9. Offset[5] = 28
  BY <1>1, <1>5, <1>8
<1>10. Offset[6] = 32
  BY <1>1, <1>5, <1>9
<1>11. Offset[7] = 37
  BY <1>1, <1>5, <1>10
<1>12. Offset[8] = 44
  BY <1>1, <1>5, <1>11
<1>13. Offset[9] = 53
  BY <1>1, <1>5, <1>12
<1>14. Offset[10] = 60
  BY <1>1, <1>5, <1>13
<1>15. Offset[11] = 67
  BY <1>1, <1>5, <1>14
<1> QED
  BY <1>1, <1>5, <1>6, <1>7, <1>8, <1>9, <1>10, <1>11, <1>12, <1>13, <1>14, <1>15
  DEF TotalConfigurationSize

LEMMA SizesPositive ==
  \A i \in 1 .. 10 : ConfigurationDescriptor[i].size \in Int /\ ConfigurationDescriptor[i].size > 0
BY TypesAndSizes

LEMMA OffsetsGrow ==
  /\ \A i \in Places : Offset[i] \in Nat /\ Offset[i] < TotalConfigurationSize
  /\ \A i, j \in Places : i < j <=> Offset[i] < Offset[j]
<1>1. Places = 1 .. 10
  BY Table
<1>2. \A i \in 1 .. 10 : Offset[i] \in Nat /\ Offset[i] < TotalConfigurationSize
  BY Offsets
<1>3. \A i \in 1 .. 9 : Offset[i] < Offset[i + 1]
  BY Offsets
<1>4. \A i, j \in 1 .. 10 : i < j => Offset[i] < Offset[j]
  BY Offsets
<1>5. \A i, j \in 1 .. 10 : ~(i < j) => ~(Offset[i] < Offset[j])
  <2> SUFFICES ASSUME NEW i \in 1 .. 10, NEW j \in 1 .. 10, ~(i < j)
               PROVE  ~(Offset[i] < Offset[j])
    OBVIOUS
  <2>1. i = j \/ j < i
    OBVIOUS
  <2> QED
    BY <1>2, <1>4, <2>1
<1> QED
  BY <1>1, <1>2, <1>4, <1>5


LEMMA AtOffset == \A i \in Places : At(Offset[i]) = i
<1>1. \A i, j \in Places : Offset[i] = Offset[j] => i = j
  <2> SUFFICES ASSUME NEW i \in Places, NEW j \in Places, Offset[i] = Offset[j] PROVE i = j
    OBVIOUS
  <2>1. i \in Int /\ j \in Int /\ Offset[i] \in Nat
    BY Table, OffsetsGrow
  <2>2. ~(i < j) /\ ~(j < i)
    BY <2>1, OffsetsGrow
  <2> QED
    BY <2>1, <2>2
<1> QED
  BY <1>1 DEF At

(* The endpoints that begin up to a position, and all of them.             *)
EndpointPlaces == {i \in Places : TypeAt(i) = "Endpoint"}
EndpointsUpTo(loc) == {ConfigurationDescriptor[i] : i \in {j \in EndpointPlaces : Offset[j] <= loc}}

LEMMA PlacesOfEndpoints == EndpointPlaces = {7, 9, 10}
  BY Table, TypesAndSizes DEF EndpointPlaces

LEMMA EndpointsDiffer ==
  \A i, j \in EndpointPlaces : ConfigurationDescriptor[i] = ConfigurationDescriptor[j] => i = j
<1>1. Notification # DataOut /\ Notification # DataIn /\ DataOut # DataIn
  BY DEF Notification, DataOut, DataIn, Endpoint, CDC_NOTIFICATION_EPNUM, CDC_TX_EPNUM, CDC_RX_EPNUM
<1> QED
  BY <1>1, PlacesOfEndpoints, Table

LEMMA AllEndpoints ==
  /\ EndpointsUpTo(TotalConfigurationSize) = ConfiguredEndpoints
  /\ \A loc \in Int : EndpointsUpTo(loc) \subseteq ConfiguredEndpoints
<1>1. ConfiguredEndpoints = {Notification, DataOut, DataIn}
  BY DEF ConfiguredEndpoints, Notification, DataOut, DataIn
<1>2. \A i \in EndpointPlaces : Offset[i] <= TotalConfigurationSize
  BY OffsetsGrow, Offsets DEF EndpointPlaces
<1>3. \A i \in EndpointPlaces : ConfigurationDescriptor[i] \in ConfiguredEndpoints
  BY <1>1, PlacesOfEndpoints, Table
<1>4. \A e \in ConfiguredEndpoints : \E i \in EndpointPlaces : e = ConfigurationDescriptor[i]
  BY <1>1, PlacesOfEndpoints, Table
<1> QED
  BY <1>2, <1>3, <1>4 DEF EndpointsUpTo

(* Where a search for a type ends.                                         *)
Stop(loc) == \E i \in Places : loc = Offset[i] /\ At(loc) = i

LEMMA NextStop ==
  ASSUME NEW t, NEW loc \in Int, loc < TotalConfigurationSize
  PROVE  LET n == NextOfType(t, loc)
         IN /\ n \in Int /\ loc < n /\ n <= TotalConfigurationSize
            /\ n < TotalConfigurationSize => Stop(n) /\ TypeAt(At(n)) = t
            /\ n = TotalConfigurationSize \/ Stop(n)
            /\ \A j \in Places : TypeAt(j) = t /\ Offset[j] > loc => n <= Offset[j]
<1> DEFINE S == OfType(t, loc)
<1>1. S = {j \in Places : TypeAt(j) = t /\ Offset[j] > loc}
  BY DEF OfType, Ahead, TypeAt
<1>2. TotalConfigurationSize \in Int
  BY Offsets
<1>3. CASE S = {}
  <2>1. NextOfType(t, loc) = TotalConfigurationSize
    BY <1>3 DEF NextOfType
  <2> QED
    BY <1>1, <1>2, <1>3, <2>1
<1>4. CASE S # {}
  <2>1. S \subseteq Nat
    BY <1>1, Table
  <2>2. \E i \in S : \A j \in S : i <= j
    BY <1>4, <2>1, LeastNumber
  <2> DEFINE f == First(S)
  <2>3. f \in S /\ \A j \in S : f <= j
    <3> HIDE DEF S
    <3> QED
      BY <2>2 DEF First
  <2>4. NextOfType(t, loc) = Offset[f]
    BY <1>4 DEF NextOfType
  <2> HIDE DEF f
  <2>5. f \in Places /\ TypeAt(f) = t /\ Offset[f] > loc
    BY <1>1, <2>3
  <2>6. Offset[f] \in Nat /\ Offset[f] < TotalConfigurationSize /\ At(Offset[f]) = f
    BY <2>5, OffsetsGrow, AtOffset
  <2>7. ASSUME NEW j \in Places, TypeAt(j) = t, Offset[j] > loc PROVE Offset[f] <= Offset[j]
    <3>1. f <= j /\ j \in Int /\ f \in Int
      BY <1>1, <2>3, <2>5, <2>7, Table
    <3>2. ~(j < f)
      BY <3>1
    <3>3. ~(Offset[j] < Offset[f])
      BY <2>5, <3>2, OffsetsGrow
    <3> QED
      BY <2>6, <3>3, OffsetsGrow
  <2> QED
    BY <1>2, <2>4, <2>5, <2>6, <2>7 DEF Stop
<1> QED
  BY <1>3, <1>4

(* What the searches have stopped at lies behind the host.                 *)
WalkInvariant ==
  /\ CurrConfigLoc \in Int /\ CurrConfigLoc >= 0 /\ seen \in Seq(ConfiguredEndpoints)
  /\ walkPc \in {"size", "data"} => seen = <<>>
  /\ walkPc = "data" => configSize = TotalConfigurationSize
  /\ walkPc \in {"size", "data"} => ~compared
  /\ walkPc = "walk" =>
       /\ BytesRem \in Int
       /\ ~compared => CurrConfigLoc + BytesRem = TotalConfigurationSize
       /\ compared => /\ CurrConfigLoc + BytesRem > TotalConfigurationSize
                      /\ CurrConfigLoc < TotalConfigurationSize
  /\ walkPc = "beyond" => compared /\ CurrConfigLoc = TotalConfigurationSize
  /\ walkPc \in {"walk", "beyond"} => (thorough => ToSet(seen) = EndpointsUpTo(CurrConfigLoc))
  /\ ToSet(seen) \subseteq EndpointsUpTo(CurrConfigLoc)
  /\ IsInjective(seen)

LEMMA NothingSeen ==
  /\ <<>> \in Seq(ConfiguredEndpoints) /\ ToSet(<<>>) = {} /\ IsInjective(<<>>)
  BY DEF ToSet, IsInjective

LEMMA WalkStarts == WalkInit => WalkInvariant
  BY NothingSeen DEF WalkInit, WalkInvariant

(* Going on does not unsee anything.                                       *)
LEMMA FurtherOn ==
  ASSUME NEW a \in Int, NEW b \in Int, a <= b
  PROVE  EndpointsUpTo(a) \subseteq EndpointsUpTo(b)
<1>1. \A i \in EndpointPlaces : Offset[i] \in Nat
  BY OffsetsGrow DEF EndpointPlaces
<1> QED
  BY <1>1 DEF EndpointsUpTo

LEMMA OneSeen ==
  ASSUME WalkInvariant, NEW e \in ConfiguredEndpoints, e \notin ToSet(seen)
  PROVE  /\ Append(seen, e) \in Seq(ConfiguredEndpoints)
         /\ ToSet(Append(seen, e)) = ToSet(seen) \cup {e}
         /\ IsInjective(Append(seen, e))
<1> DEFINE s == Append(seen, e)
<1>1. /\ seen \in Seq(ConfiguredEndpoints) /\ Len(seen) \in Nat /\ DOMAIN seen = 1 .. Len(seen)
      /\ IsInjective(seen)
  BY LenProperties DEF WalkInvariant
<1>2. /\ s \in Seq(ConfiguredEndpoints) /\ Len(s) = Len(seen) + 1
      /\ \A i \in 1 .. Len(seen) : s[i] = seen[i]
      /\ s[Len(seen) + 1] = e
  BY <1>1, AppendProperties
<1>3. DOMAIN s = 1 .. Len(seen) + 1
  BY <1>1, <1>2, LenProperties
<1> HIDE DEF s
<1>4. ToSet(s) = ToSet(seen) \cup {e}
  <2>1. \A i \in 1 .. Len(seen) + 1 : i \in 1 .. Len(seen) \/ i = Len(seen) + 1
    BY <1>1
  <2>2. \A i \in 1 .. Len(seen) : i \in 1 .. Len(seen) + 1
    BY <1>1
  <2>3. Len(seen) + 1 \in 1 .. Len(seen) + 1
    BY <1>1
  <2> QED
    BY <1>1, <1>2, <1>3, <2>1, <2>2, <2>3 DEF ToSet
<1>5. IsInjective(s)
  <2> SUFFICES ASSUME NEW a \in 1 .. Len(seen) + 1, NEW b \in 1 .. Len(seen) + 1, s[a] = s[b]
               PROVE  a = b
    BY <1>3 DEF IsInjective
  <2>1. \A i \in 1 .. Len(seen) : s[i] # e /\ s[i] = seen[i]
    BY <1>1, <1>2 DEF ToSet
  <2>2. a = Len(seen) + 1 \/ a \in 1 .. Len(seen)
    BY <1>1
  <2>3. b = Len(seen) + 1 \/ b \in 1 .. Len(seen)
    BY <1>1
  <2> QED
    BY <1>1, <1>2, <2>1, <2>2, <2>3 DEF IsInjective
<1> QED
  BY <1>2, <1>4, <1>5 DEF s

(* The bytes that a search says remain: what there is, or more once one    *)
(* with a comparator has stopped.                                          *)
LEMMA SearchStops ==
  ASSUME WalkInvariant, Search, NEW loc \in Int, CurrConfigLoc < loc,
         loc <= TotalConfigurationSize, loc = TotalConfigurationSize \/ Stop(loc),
         NEW rem \in Int, StopAt(loc, rem),
         \/ rem = Remaining(loc) /\ compared' = compared
         \/ rem > Remaining(loc) /\ compared' = TRUE /\ loc < TotalConfigurationSize,
         thorough' => thorough /\ \A j \in EndpointPlaces : Offset[j] > CurrConfigLoc => loc <= Offset[j]
  PROVE  WalkInvariant'
<1>1. /\ BytesRem \in Int /\ CurrConfigLoc \in Int /\ TotalConfigurationSize \in Int
      /\ CurrConfigLoc' = loc /\ BytesRem' = rem
      /\ seen \in Seq(ConfiguredEndpoints) /\ ToSet(seen) \subseteq EndpointsUpTo(CurrConfigLoc)
      /\ IsInjective(seen)
      /\ (thorough => ToSet(seen) = EndpointsUpTo(CurrConfigLoc))
  BY Offsets DEF WalkInvariant, Search, StopAt
<1>2. /\ walkPc' \in {"walk", "beyond"} /\ BytesRem' \in Int
      /\ walkPc' = "walk" =>
           /\ ~compared' => CurrConfigLoc' + BytesRem' = TotalConfigurationSize
           /\ compared' => /\ CurrConfigLoc' + BytesRem' > TotalConfigurationSize
                           /\ CurrConfigLoc' < TotalConfigurationSize
      /\ walkPc' = "beyond" => compared' /\ CurrConfigLoc' = TotalConfigurationSize
  <2>1. /\ ~compared => CurrConfigLoc + BytesRem = TotalConfigurationSize
        /\ compared => CurrConfigLoc + BytesRem > TotalConfigurationSize
        /\ compared \in BOOLEAN \/ ~compared \/ compared
    BY DEF WalkInvariant, Search
  <2>2. /\ walkPc' = IF loc = TotalConfigurationSize /\ rem > 0 THEN "beyond" ELSE "walk"
        /\ Remaining(loc) = BytesRem - (loc - CurrConfigLoc)
    BY DEF StopAt, Remaining
  <2>3. CASE rem = Remaining(loc) /\ compared' = compared
    <3>1. ~compared => loc + rem = TotalConfigurationSize
      BY <1>1, <2>1, <2>2, <2>3
    <3>2. compared => loc + rem > TotalConfigurationSize
      BY <1>1, <2>1, <2>2, <2>3
    <3> QED
      BY <1>1, <2>2, <2>3, <3>1, <3>2
  <2>4. CASE rem > Remaining(loc) /\ compared' = TRUE /\ loc < TotalConfigurationSize
    <3>1. loc + rem > TotalConfigurationSize
      BY <1>1, <2>1, <2>2, <2>4
    <3> QED
      BY <1>1, <2>2, <2>4, <3>1
  <2> QED
    BY <2>3, <2>4
<1>3. EndpointsUpTo(CurrConfigLoc) \subseteq EndpointsUpTo(loc)
  BY <1>1, FurtherOn
<1>4. \A j \in EndpointPlaces : Offset[j] \in Nat
  BY OffsetsGrow DEF EndpointPlaces
<1>5. loc >= 0
  BY <1>1 DEF WalkInvariant
<1>6. CASE loc < TotalConfigurationSize /\ TypeAt(At(loc)) = "Endpoint"
  <2>1. PICK i \in Places : loc = Offset[i] /\ At(loc) = i
    BY <1>1, <1>6 DEF Stop
  <2> DEFINE e == ConfigurationDescriptor[i]
  <2>2. i \in EndpointPlaces /\ seen' = Append(seen, e)
    BY <1>6, <2>1 DEF EndpointPlaces, StopAt, TypeAt
  <2>3. e \in EndpointsUpTo(loc) /\ e \in ConfiguredEndpoints
    <3>1. e \in EndpointsUpTo(loc)
      BY <1>4, <2>1, <2>2 DEF EndpointsUpTo
    <3> QED
      BY <3>1, AllEndpoints
  <2>4. e \notin EndpointsUpTo(CurrConfigLoc)
    <3> SUFFICES ASSUME NEW j \in EndpointPlaces, Offset[j] <= CurrConfigLoc,
                        e = ConfigurationDescriptor[j]
                 PROVE  FALSE
      BY DEF EndpointsUpTo
    <3>1. i = j
      BY <2>2, EndpointsDiffer
    <3> QED
      BY <1>1, <1>4, <2>1, <3>1
  <2> HIDE DEF e
  <2>5. /\ seen' \in Seq(ConfiguredEndpoints) /\ ToSet(seen') = ToSet(seen) \cup {e}
        /\ IsInjective(seen')
    BY <1>1, <2>2, <2>3, <2>4, OneSeen
  <2>6. ToSet(seen') \subseteq EndpointsUpTo(loc)
    BY <1>1, <1>3, <2>3, <2>5
  <2>7. ASSUME thorough' PROVE ToSet(seen') = EndpointsUpTo(loc)
    <3>1. EndpointsUpTo(loc) \subseteq EndpointsUpTo(CurrConfigLoc) \cup {e}
      <4> SUFFICES ASSUME NEW j \in EndpointPlaces, Offset[j] <= loc
                   PROVE  Offset[j] <= CurrConfigLoc \/ ConfigurationDescriptor[j] = e
        BY DEF EndpointsUpTo
      <4>1. CASE Offset[j] > CurrConfigLoc
        <5>1. Offset[j] = loc
          BY <1>4, <2>7, <4>1
        <5>2. j = i
          BY <2>1, <5>1, AtOffset DEF EndpointPlaces
        <5> QED
          BY <5>2 DEF e
      <4>2. CASE ~(Offset[j] > CurrConfigLoc)
        BY <1>1, <1>4, <4>2
      <4> QED
        BY <4>1, <4>2
    <3> QED
      BY <1>1, <2>5, <2>6, <2>7, <3>1
  <2> QED
    BY <1>1, <1>2, <2>5, <2>6, <2>7, <1>5 DEF WalkInvariant
<1>7. CASE ~(loc < TotalConfigurationSize /\ TypeAt(At(loc)) = "Endpoint")
  <2>1. seen' = seen
    BY <1>7 DEF StopAt, TypeAt
  <2>2. ASSUME thorough' PROVE EndpointsUpTo(loc) \subseteq EndpointsUpTo(CurrConfigLoc)
    <3> SUFFICES ASSUME NEW j \in EndpointPlaces, Offset[j] <= loc, Offset[j] > CurrConfigLoc
                 PROVE  FALSE
      BY <1>1, <1>4 DEF EndpointsUpTo
    <3>1. Offset[j] = loc /\ j \in Places /\ TypeAt(j) = "Endpoint"
      BY <1>4, <2>2 DEF EndpointPlaces
    <3>2. loc < TotalConfigurationSize /\ At(loc) = j
      BY <3>1, OffsetsGrow, AtOffset
    <3> QED
      BY <1>7, <3>1, <3>2
  <2>3. ToSet(seen') \subseteq EndpointsUpTo(loc)
    BY <1>1, <1>3, <2>1
  <2>4. thorough' => ToSet(seen') = EndpointsUpTo(loc)
    BY <1>1, <1>3, <2>1, <2>2
  <2> QED
    BY <1>1, <1>2, <2>1, <2>3, <2>4, <1>5 DEF WalkInvariant
<1> QED
  BY <1>6, <1>7

LEMMA WalkEnds ==
  ASSUME WalkInvariant, walkPc' = "ended", CurrConfigLoc' \in Int, CurrConfigLoc <= CurrConfigLoc',
         seen' = seen
  PROVE  WalkInvariant'
<1>1. EndpointsUpTo(CurrConfigLoc) \subseteq EndpointsUpTo(CurrConfigLoc')
  BY FurtherOn DEF WalkInvariant
<1> QED
  BY <1>1 DEF WalkInvariant

LEMMA WalkStep ==
  ASSUME WalkInvariant, WalkNext \/ UNCHANGED walkVars
  PROVE  WalkInvariant'
<1>0. TotalConfigurationSize = 67
  BY Offsets
<1>1. CASE GetConfigSize
  BY <1>1 DEF GetConfigSize, WalkInvariant, DescriptorSize
<1>2. CASE GetConfigData
  <2>1. /\ walkPc = "data" /\ walkPc' = "walk" /\ CurrConfigLoc' = 0 /\ BytesRem' = configSize
        /\ configSize = TotalConfigurationSize /\ seen = <<>> /\ seen' = seen
    BY <1>2 DEF GetConfigData, WalkInvariant
  <2>2. EndpointsUpTo(0) = {}
    BY PlacesOfEndpoints, Offsets DEF EndpointsUpTo
  <2>3. ToSet(seen') = {} /\ IsInjective(seen') /\ seen' \in Seq(ConfiguredEndpoints)
    BY <2>1, NothingSeen
  <2>4. EndpointsUpTo(CurrConfigLoc') = {}
    BY <2>1, <2>2
  <2>5. CurrConfigLoc' >= 0
    BY <2>1
  <2>6. /\ BytesRem' \in Int /\ CurrConfigLoc' \in Int /\ ~compared'
        /\ CurrConfigLoc' + BytesRem' = TotalConfigurationSize
    BY <1>0, <1>2, <2>1 DEF GetConfigData, WalkInvariant
  <2> QED
    BY <2>1, <2>3, <2>4, <2>5, <2>6 DEF WalkInvariant
<1>3. ASSUME Search
      PROVE  /\ CurrConfigLoc \in Int /\ CurrConfigLoc < TotalConfigurationSize /\ BytesRem \in Int
             /\ \A loc \in Int : Remaining(loc) \in Int
  <2>1. /\ CurrConfigLoc \in Int /\ BytesRem \in Int /\ BytesRem > 0
        /\ \/ CurrConfigLoc + BytesRem = TotalConfigurationSize
           \/ CurrConfigLoc < TotalConfigurationSize
    BY <1>3 DEF Search, WalkInvariant
  <2> QED
    BY <1>0, <2>1 DEF Remaining
<1>4. CASE GetNextDescriptorOfType
  <2>1. PICK t \in Types : /\ StopAt(NextOfType(t, CurrConfigLoc), Remaining(NextOfType(t, CurrConfigLoc)))
                           /\ thorough' = (thorough /\ t = "Endpoint")
    BY <1>4 DEF GetNextDescriptorOfType
  <2> DEFINE loc == NextOfType(t, CurrConfigLoc)
  <2>2. Search /\ compared' = compared
    BY <1>4 DEF GetNextDescriptorOfType
  <2>3. /\ loc \in Int /\ CurrConfigLoc < loc /\ loc <= TotalConfigurationSize
        /\ loc = TotalConfigurationSize \/ Stop(loc)
        /\ \A j \in Places : TypeAt(j) = t /\ Offset[j] > CurrConfigLoc => loc <= Offset[j]
    BY <1>3, <2>2, NextStop
  <2>4. StopAt(loc, Remaining(loc))
    BY <2>1
  <2>5. thorough' => thorough /\ t = "Endpoint"
    BY <2>1
  <2> HIDE DEF loc
  <2>6. thorough' => thorough /\ \A j \in EndpointPlaces : Offset[j] > CurrConfigLoc => loc <= Offset[j]
    BY <2>3, <2>5 DEF EndpointPlaces
  <2> QED
    BY <1>3, <2>2, <2>3, <2>4, <2>6, SearchStops
<1>5. CASE GetNextDescriptorOfTypeBefore
  <2>1. PICK t \in Types, b \in Types :
          LET loc  == NextOfType(t, CurrConfigLoc)
              stop == NextOfType(b, CurrConfigLoc)
          IN IF loc <= stop THEN StopAt(loc, Remaining(loc))
             ELSE /\ CurrConfigLoc' = stop /\ BytesRem' = 0
                  /\ walkPc' = "ended" /\ UNCHANGED seen
    BY <1>5 DEF GetNextDescriptorOfTypeBefore
  <2> DEFINE loc == NextOfType(t, CurrConfigLoc)
             stop == NextOfType(b, CurrConfigLoc)
  <2>2. Search /\ thorough' = FALSE /\ compared' = compared
    BY <1>5 DEF GetNextDescriptorOfTypeBefore
  <2>3. /\ loc \in Int /\ CurrConfigLoc < loc /\ loc <= TotalConfigurationSize
        /\ loc = TotalConfigurationSize \/ Stop(loc)
    BY <1>3, <2>2, NextStop
  <2>4. stop \in Int /\ CurrConfigLoc < stop
    BY <1>3, <2>2, NextStop
  <2>5. \/ StopAt(loc, Remaining(loc))
        \/ CurrConfigLoc' = stop /\ walkPc' = "ended" /\ seen' = seen
    BY <2>1
  <2> HIDE DEF loc, stop
  <2>6. CASE StopAt(loc, Remaining(loc))
    BY <1>3, <2>2, <2>3, <2>6, SearchStops
  <2>7. CASE CurrConfigLoc' = stop /\ walkPc' = "ended" /\ seen' = seen
    BY <1>3, <2>2, <2>4, <2>7, WalkEnds
  <2> QED
    BY <2>5, <2>6, <2>7
<1>6. CASE GetNextDescriptorOfTypeAfter
  <2>1. PICK t \in Types, a \in Types :
          LET after == NextOfType(a, CurrConfigLoc)
              loc == IF after = TotalConfigurationSize THEN after ELSE NextOfType(t, after)
          IN StopAt(loc, Remaining(loc))
    BY <1>6 DEF GetNextDescriptorOfTypeAfter
  <2> DEFINE after == NextOfType(a, CurrConfigLoc)
             loc == IF after = TotalConfigurationSize THEN after ELSE NextOfType(t, after)
  <2>2. Search /\ thorough' = FALSE /\ compared' = compared
    BY <1>6 DEF GetNextDescriptorOfTypeAfter
  <2>3. after \in Int /\ CurrConfigLoc < after /\ after <= TotalConfigurationSize
    BY <1>3, <2>2, NextStop
  <2>4. StopAt(loc, Remaining(loc))
    BY <2>1
  <2> HIDE DEF after
  <2>5. CASE after = TotalConfigurationSize
    BY <1>3, <2>2, <2>3, <2>4, <2>5, SearchStops
  <2>6. CASE after # TotalConfigurationSize
    <3>1. after < TotalConfigurationSize /\ loc = NextOfType(t, after)
      BY <1>0, <2>3, <2>6
    <3>2. /\ loc \in Int /\ after < loc /\ loc <= TotalConfigurationSize
          /\ loc = TotalConfigurationSize \/ Stop(loc)
      BY <2>3, <3>1, NextStop
    <3> HIDE DEF loc
    <3>3. CurrConfigLoc < loc
      BY <1>3, <2>2, <2>3, <3>2
    <3> QED
      BY <1>3, <2>2, <2>4, <3>2, <3>3, SearchStops
  <2> QED
    BY <2>5, <2>6
<1>7. CASE GetNextDescriptorComp_P
  <2>1. PICK t \in Types :
          LET loc == NextOfType(t, CurrConfigLoc)
          IN /\ IF loc = TotalConfigurationSize THEN StopAt(loc, Remaining(loc)) /\ UNCHANGED compared
                ELSE /\ StopAt(loc, Remaining(loc) + ConfigurationDescriptor[At(loc) - 1].size)
                     /\ compared' = TRUE
             /\ thorough' = (thorough /\ t = "Endpoint")
    BY <1>7 DEF GetNextDescriptorComp_P
  <2> DEFINE loc == NextOfType(t, CurrConfigLoc)
             size == ConfigurationDescriptor[At(loc) - 1].size
  <2>2. Search
    BY <1>7 DEF GetNextDescriptorComp_P
  <2>3. /\ loc \in Int /\ CurrConfigLoc < loc /\ loc <= TotalConfigurationSize
        /\ loc = TotalConfigurationSize \/ Stop(loc)
        /\ \A j \in Places : TypeAt(j) = t /\ Offset[j] > CurrConfigLoc => loc <= Offset[j]
    BY <1>3, <2>2, NextStop
  <2>4. thorough' => thorough /\ \A j \in EndpointPlaces : Offset[j] > CurrConfigLoc => loc <= Offset[j]
    BY <2>1, <2>3 DEF EndpointPlaces
  <2>5. CASE loc = TotalConfigurationSize
    <3>1. StopAt(loc, Remaining(loc)) /\ compared' = compared
      BY <2>1, <2>5
    <3> HIDE DEF loc
    <3> QED
      BY <1>3, <2>2, <2>3, <2>4, <3>1, SearchStops
  <2>6. CASE loc # TotalConfigurationSize
    <3>1. StopAt(loc, Remaining(loc) + size) /\ compared' = TRUE
      BY <2>1, <2>6
    <3>2. size \in Int /\ size > 0
      <4>1. PICK i \in Places : loc = Offset[i] /\ At(loc) = i
        BY <2>3, <2>6 DEF Stop
      <4>2. i # 1 /\ i \in 1 .. 10
        <5>1. CurrConfigLoc >= 0
          BY <2>2 DEF WalkInvariant
        <5>2. Offset[1] = 0
          BY Offsets
        <5> QED
          BY <1>3, <2>2, <2>3, <4>1, <5>1, <5>2, Table
      <4>3. i - 1 \in 1 .. 10
        BY <4>2
      <4> QED
        BY <4>1, <4>3, SizesPositive
    <3>3. loc < TotalConfigurationSize
      BY <1>0, <2>3, <2>6
    <3> HIDE DEF loc, size
    <3>4. Remaining(loc) + size \in Int /\ Remaining(loc) + size > Remaining(loc)
      BY <1>3, <2>2, <2>3, <3>2
    <3> QED
      BY <2>2, <2>3, <2>4, <3>1, <3>3, <3>4, SearchStops
  <2> QED
    BY <2>5, <2>6
<1>8. CASE UNCHANGED walkVars
  BY <1>8 DEF walkVars, WalkInvariant
<1> QED
  BY <1>1, <1>2, <1>4, <1>5, <1>6, <1>7, <1>8 DEF WalkNext

(* Each interface says how many endpoints follow it.                       *)
LEMMA InterfacesCount ==
  ASSUME NEW i \in Places, ConfigurationDescriptor[i].type = "Interface"
  PROVE  ConfigurationDescriptor[i].TotalEndpoints =
           Cardinality({j \in OfType("Endpoint", Offset[i]) :
                          \A k \in OfType("Interface", Offset[i]) : j < k})
<1> DEFINE S == {j \in OfType("Endpoint", Offset[i]) : \A k \in OfType("Interface", Offset[i]) : j < k}
<1>1. i = 2 \/ i = 8
  BY Table, TypesAndSizes DEF TypeAt
<1>2. \A n : Interface(n).TotalEndpoints = n
  BY DEF Interface
<1>3. \A t : OfType(t, Offset[i]) = {j \in 1 .. 10 : TypeAt(j) = t /\ Offset[j] > Offset[i]}
  BY Table DEF OfType, Ahead, TypeAt
<1>4. CASE i = 2
  <2>1. /\ OfType("Endpoint", Offset[i]) = {7, 9, 10}
        /\ OfType("Interface", Offset[i]) = {8}
    BY <1>3, <1>4, TypesAndSizes, Offsets
  <2>2. S = {7}
    BY <2>1
  <2>3. Cardinality({7}) = 1
    BY FS_Singleton
  <2> QED
    BY <1>2, <1>4, <2>2, <2>3, Table
<1>5. CASE i = 8
  <2>1. /\ OfType("Endpoint", Offset[i]) = {9, 10}
        /\ OfType("Interface", Offset[i]) = {}
    BY <1>3, <1>5, TypesAndSizes, Offsets
  <2>2. S = {9} \cup {10}
    BY <2>1
  <2>3. Cardinality({9}) = 1 /\ IsFiniteSet({9})
    BY FS_Singleton
  <2>4. Cardinality({9} \cup {10}) = 2
    <3>1. 10 \notin {9}
      OBVIOUS
    <3>2. Cardinality({9} \cup {10}) = IF 10 \in {9} THEN Cardinality({9}) ELSE Cardinality({9}) + 1
      BY <2>3, FS_AddElement
    <3> QED
      BY <2>3, <3>1, <3>2
  <2> QED
    BY <1>2, <1>5, <2>2, <2>4, Table
<1> QED
  BY <1>1, <1>4, <1>5

(* The banks.                                                              *)
LEMMA BanksFit ==
  ASSUME NEW e \in ConfiguredEndpoints
  PROVE  8 * 2 ^ BytesToEPSizeMask(e.epsize) = e.epsize
<1>1. e.epsize = 8 \/ e.epsize = 64
  BY DEF ConfiguredEndpoints, Endpoint, CDC_NOTIFICATION_EPSIZE, CDC_TXRX_EPSIZE
<1>2. /\ 2 ^ 0 = 1 /\ 2 ^ 1 = 2 /\ 2 ^ 2 = 4 /\ 2 ^ 3 = 8 /\ 2 ^ 4 = 16 /\ 2 ^ 5 = 32
  OBVIOUS
<1> DEFINE size(m) == 8 * 2 ^ m
           Fits(b, m) == /\ b <= size(m) \/ m = 5
                         /\ \A l \in 0 .. m - 1 : b > size(l)
<1>3. /\ size(0) = 8 /\ size(1) = 16 /\ size(2) = 32 /\ size(3) = 64 /\ size(4) = 128
      /\ size(5) = 256
  BY <1>2
<1>4. BytesToEPSizeMask(8) = (CHOOSE m \in 0 .. 5 : Fits(8, m))
      /\ BytesToEPSizeMask(64) = (CHOOSE m \in 0 .. 5 : Fits(64, m))
  BY DEF BytesToEPSizeMask
<1> HIDE DEF size
<1>5. Fits(8, 0) /\ \A m \in 1 .. 5 : ~Fits(8, m)
  <2>1. \A m \in 1 .. 5 : 0 \in 0 .. m - 1
    OBVIOUS
  <2> QED
    BY <1>3, <2>1
<1>6. Fits(64, 3) /\ \A m \in 0 .. 5 : m # 3 => ~Fits(64, m)
  <2>1. \A l \in 0 .. 2 : l = 0 \/ l = 1 \/ l = 2
    OBVIOUS
  <2>2. Fits(64, 3)
    BY <1>3, <2>1
  <2>3. 3 \in 0 .. 4 - 1 /\ 3 \in 0 .. 5 - 1
    OBVIOUS
  <2>4. ~Fits(64, 4) /\ ~Fits(64, 5)
    BY <1>3, <2>3
  <2>5. ~Fits(64, 0) /\ ~Fits(64, 1) /\ ~Fits(64, 2)
    BY <1>3
  <2>6. \A m \in 0 .. 5 : m = 0 \/ m = 1 \/ m = 2 \/ m = 3 \/ m = 4 \/ m = 5
    OBVIOUS
  <2> HIDE DEF Fits
  <2> QED
    BY <2>2, <2>4, <2>5, <2>6
<1>7. BytesToEPSizeMask(8) = 0 /\ BytesToEPSizeMask(64) = 3
  <2>1. \A m \in 0 .. 5 : m = 0 \/ m \in 1 .. 5
    OBVIOUS
  <2>2. 0 \in 0 .. 5 /\ 3 \in 0 .. 5
    OBVIOUS
  <2> HIDE DEF Fits
  <2> QED
    BY <1>4, <1>5, <1>6, <2>1, <2>2
<1>8. 8 * 2 ^ 0 = 8 /\ 8 * 2 ^ 3 = 64
  BY <1>3 DEF size
<1> QED
  BY <1>1, <1>7, <1>8

LEMMA WalkAgrees == WalkInvariant => EndpointsAgree
<1> SUFFICES ASSUME WalkInvariant PROVE EndpointsAgree
  OBVIOUS
<1>1. /\ walkPc = "walk" =>
           IF compared THEN CurrConfigLoc + BytesRem > TotalConfigurationSize
                       ELSE CurrConfigLoc + BytesRem = TotalConfigurationSize
      /\ walkPc = "beyond" => compared
  BY DEF WalkInvariant
<1>2. ToSet(seen) \subseteq ConfiguredEndpoints
  BY AllEndpoints DEF WalkInvariant
<1>3. ASSUME walkPc = "beyond" \/ (walkPc = "walk" /\ BytesRem = 0), thorough
      PROVE  ToSet(seen) = ConfiguredEndpoints
  <2>1. CurrConfigLoc = TotalConfigurationSize
    BY <1>3, Offsets DEF WalkInvariant
  <2> QED
    BY <1>3, <2>1, AllEndpoints DEF WalkInvariant
<1> QED
  BY <1>1, <1>2, <1>3, InterfacesCount, BanksFit DEF EndpointsAgree, WalkInvariant

-----------------------------------------------------------------------------
(*  DynAlloc: the block allocator.                                         *)

(* The allocations of a memory m with the grants g.                        *)
OwnIn(m, g, x)   == m.handles[x] .. m.handles[x] + g[x] - 1
LiveIn(m)        == {x \in Handles : m.handles[x] # NULL}
AllottedIn(m, g) == UNION {OwnIn(m, g, x) : x \in LiveIn(m)}
LostIn(m, g)     == UsedBlocks(m.flags) \ AllottedIn(m, g)

Flags == {"USED", "LINKED"}

MemoryTypeOK(m, g) ==
  /\ m.flags \in [Blocks -> SUBSET Flags]
  /\ DOMAIN m.heap = Blocks
  /\ m.handles \in [Handles -> Blocks \cup {NULL}]
  /\ g \in [Handles -> Nat]

(* Allocation x has the blocks it was granted, linked up to the last.      *)
Holds(m, g, x) ==
  LET last == m.handles[x] + g[x] - 1
  IN /\ g[x] > 0 /\ last \in Blocks /\ "LINKED" \notin m.flags[last]
     /\ \A b \in OwnIn(m, g, x) :
          /\ "USED" \in m.flags[b]
          /\ b # last => "LINKED" \in m.flags[b]
          /\ m.heap[b] = <<x, b - m.handles[x]>>

Sound(m, g) ==
  /\ MemoryTypeOK(m, g)
  /\ \A x \in Handles : IF m.handles[x] = NULL THEN g[x] = 0 ELSE Holds(m, g, x)

AllocInvariant ==
  /\ leaked \in Nat
  /\ misplaced # 1
  /\ misplaced = Placed =>
       Sound(Memory, granted) /\ Cardinality(LostIn(Memory, granted)) = leaked

-----------------------------------------------------------------------------
LEMMA BlocksFinite ==
  /\ IsFiniteSet(Blocks) /\ Cardinality(Blocks) = NUM_BLOCKS
  /\ Blocks \subseteq Nat /\ NULL \notin Blocks
  /\ NUM_BLOCKS \in Nat \ {0} /\ \A b \in Int : b \in Blocks <=> 0 <= b /\ b < NUM_BLOCKS
<1>1. NUM_BLOCKS \in Nat \ {0}
  BY DynAllocAssumption
<1>2. 0 \in Int /\ NUM_BLOCKS - 1 \in Int /\ ~(0 > NUM_BLOCKS - 1)
  BY <1>1
<1>3. IsFiniteSet(Blocks) /\ Cardinality(Blocks) = NUM_BLOCKS - 1 - 0 + 1
  BY <1>2, FS_Interval DEF Blocks
<1> QED
  BY <1>1, <1>3 DEF Blocks, NULL

(* Blocks of different allocations are different.                          *)
LEMMA OwnBlocks ==
  ASSUME NEW m, NEW g, Sound(m, g), NEW x \in LiveIn(m)
  PROVE  /\ x \in Handles /\ m.handles[x] \in Blocks /\ m.handles[x] \in Nat
         /\ g[x] \in Nat \ {0} /\ Holds(m, g, x)
         /\ OwnIn(m, g, x) \subseteq UsedBlocks(m.flags)
         /\ OwnIn(m, g, x) # {}
         /\ \A y \in LiveIn(m) : x # y => OwnIn(m, g, x) \cap OwnIn(m, g, y) = {}
<1>1. /\ x \in Handles /\ m.handles[x] \in Blocks /\ Holds(m, g, x) /\ g[x] \in Nat
  BY DEF LiveIn, Sound, MemoryTypeOK
<1>2. m.handles[x] \in Nat /\ g[x] \in Nat \ {0}
  <2>1. g[x] > 0
    BY <1>1 DEF Holds
  <2>2. m.handles[x] \in Nat
    BY <1>1, BlocksFinite, Zenon
  <2>3. \A n \in Nat : n > 0 => n \in Nat \ {0}
    OBVIOUS
  <2>4. g[x] \in Nat \ {0}
    BY <1>1, <2>1, <2>3, Zenon
  <2> QED
    BY <2>2, <2>4
<1>3. m.handles[x] \in OwnIn(m, g, x)
  BY <1>2 DEF OwnIn
<1>4. OwnIn(m, g, x) \subseteq UsedBlocks(m.flags)
  <2> SUFFICES ASSUME NEW b \in OwnIn(m, g, x) PROVE b \in UsedBlocks(m.flags)
    OBVIOUS
  <2> DEFINE last == m.handles[x] + g[x] - 1
  <2>1. b \in Int /\ m.handles[x] <= b /\ b <= last /\ last \in Blocks
    BY <1>1, <1>2 DEF OwnIn, Holds
  <2>2. b \in Blocks
    BY <1>2, <2>1, BlocksFinite
  <2> QED
    BY <1>1, <2>2 DEF UsedBlocks, Holds
<1>5. ASSUME NEW y \in LiveIn(m), x # y PROVE OwnIn(m, g, x) \cap OwnIn(m, g, y) = {}
  <2>1. Holds(m, g, y)
    BY DEF LiveIn, Sound
  <2>2. \A b \in OwnIn(m, g, x) : m.heap[b][1] = x
    BY <1>1 DEF Holds
  <2>3. \A b \in OwnIn(m, g, y) : m.heap[b][1] = y
    BY <2>1 DEF Holds
  <2> QED
    BY <1>5, <2>2, <2>3
<1> QED
  BY <1>1, <1>2, <1>3, <1>4, <1>5

LEMMA LostFinite ==
  ASSUME NEW m, NEW g
  PROVE  IsFiniteSet(UsedBlocks(m.flags)) /\ IsFiniteSet(LostIn(m, g))
         /\ IsFiniteSet(FreeBlocks(m.flags))
<1>1. /\ UsedBlocks(m.flags) \in SUBSET Blocks /\ LostIn(m, g) \in SUBSET Blocks
      /\ FreeBlocks(m.flags) \in SUBSET Blocks
  BY DEF UsedBlocks, LostIn, FreeBlocks
<1> QED
  BY <1>1, BlocksFinite, FS_Subset

-----------------------------------------------------------------------------
(* Defrag.                                                                 *)

Below(f, b) == {u \in UsedBlocks(f) : u < b}

LEMMA DownIs ==
  ASSUME NEW f, NEW b \in Blocks
  PROVE  /\ IsFiniteSet(Below(f, b)) /\ Down(f, b) = Cardinality(Below(f, b))
         /\ Down(f, b) \in Nat /\ Down(f, b) <= b /\ Down(f, b) \in Blocks
<1>1. b \in Nat /\ b < NUM_BLOCKS
  BY BlocksFinite
<1>2. Below(f, b) \in SUBSET (0 .. b - 1)
  <2>1. ASSUME NEW u \in Below(f, b) PROVE u \in 0 .. b - 1
    <3>1. u \in Blocks /\ u < b
      BY DEF Below, UsedBlocks
    <3>2. u \in Nat
      BY <3>1, BlocksFinite
    <3> QED
      BY <1>1, <3>1, <3>2
  <2> QED
    BY <2>1
<1>3. IsFiniteSet(0 .. b - 1) /\ Cardinality(0 .. b - 1) = b
  <2>1. IsFiniteSet(0 .. b - 1) /\ Cardinality(0 .. b - 1) = IF 0 > b - 1 THEN 0 ELSE (b - 1) - 0 + 1
    BY <1>1, FS_Interval
  <2> QED
    BY <1>1, <2>1
<1>4. IsFiniteSet(Below(f, b)) /\ Cardinality(Below(f, b)) <= b
  BY <1>2, <1>3, FS_Subset
<1>5. Cardinality(Below(f, b)) \in Nat
  BY <1>4, FS_CardinalityType
<1>6. Down(f, b) = Cardinality(Below(f, b))
  BY DEF Down, Below
<1>7. Down(f, b) \in Blocks
  BY <1>1, <1>4, <1>5, <1>6, BlocksFinite
<1> QED
  BY <1>4, <1>5, <1>6, <1>7

LEMMA BothTogether ==
  ASSUME NEW S, NEW T, IsFiniteSet(S), IsFiniteSet(T), S \cap T = {}
  PROVE  /\ IsFiniteSet(S \cup T)
         /\ Cardinality(S \cup T) = Cardinality(S) + Cardinality(T)
<1>1. Cardinality(S) \in Nat /\ Cardinality(T) \in Nat
  BY FS_CardinalityType
<1>2. /\ IsFiniteSet(S \cup T)
      /\ Cardinality(S \cup T) = Cardinality(S) + Cardinality(T) - Cardinality(S \cap T)
  BY FS_Union
<1>3. Cardinality(S \cap T) = 0
  BY FS_EmptySet
<1> QED
  BY <1>1, <1>2, <1>3

(* The k blocks from a used block on, if they are all used, stay together. *)
LEMMA DownTogether ==
  ASSUME NEW f, NEW b \in Blocks, NEW k \in Nat, b + k \in Blocks, b .. b + k - 1 \subseteq UsedBlocks(f)
  PROVE  Down(f, b + k) = Down(f, b) + k
<1>1. b \in Nat /\ UsedBlocks(f) \subseteq Nat
  BY BlocksFinite DEF UsedBlocks
<1>2. Below(f, b + k) = Below(f, b) \cup (b .. b + k - 1)
  BY <1>1 DEF Below
<1>3. Below(f, b) \cap (b .. b + k - 1) = {}
  BY <1>1 DEF Below
<1>4. IsFiniteSet(b .. b + k - 1) /\ Cardinality(b .. b + k - 1) = k
  <2>1. /\ IsFiniteSet(b .. b + k - 1)
        /\ Cardinality(b .. b + k - 1) = IF b > b + k - 1 THEN 0 ELSE (b + k - 1) - b + 1
    BY <1>1, FS_Interval
  <2> QED
    BY <1>1, <2>1
<1>5. IsFiniteSet(Below(f, b)) /\ Cardinality(Below(f, b)) \in Nat
  BY DownIs, FS_CardinalityType
<1>6. Cardinality(Below(f, b) \cup (b .. b + k - 1)) = Cardinality(Below(f, b)) + k
  BY <1>3, <1>4, <1>5, BothTogether
<1>7. Down(f, b) = Cardinality(Below(f, b)) /\ Down(f, b + k) = Cardinality(Below(f, b + k))
  BY DownIs
<1> QED
  BY <1>2, <1>6, <1>7

(* Used blocks stay in their order.                                        *)
LEMMA DownGrows ==
  ASSUME NEW f, NEW u \in UsedBlocks(f), NEW v \in UsedBlocks(f)
  PROVE  /\ u < v => Down(f, u) < Down(f, v)
         /\ Down(f, u) = Down(f, v) => u = v
<1>1. ASSUME NEW a \in UsedBlocks(f), NEW b \in UsedBlocks(f), a < b PROVE Down(f, a) < Down(f, b)
  <2>1. a \in Blocks /\ b \in Blocks /\ a \in Nat /\ b \in Nat
    BY BlocksFinite DEF UsedBlocks
  <2>2. Below(f, a) \cup {a} \in SUBSET Below(f, b)
    <3>1. ASSUME NEW w \in Below(f, a) PROVE w \in Below(f, b)
      <4>1. w \in UsedBlocks(f) /\ w < a
        BY DEF Below
      <4>2. w \in Nat
        BY <4>1, BlocksFinite DEF UsedBlocks
      <4> QED
        BY <1>1, <2>1, <4>1, <4>2 DEF Below
    <3>2. a \in Below(f, b)
      BY <1>1 DEF Below
    <3> QED
      BY <3>1, <3>2
  <2>3. a \notin Below(f, a)
    BY <2>1 DEF Below
  <2>4. IsFiniteSet(Below(f, a)) /\ IsFiniteSet(Below(f, b))
    BY <2>1, DownIs
  <2>5. /\ Cardinality(Below(f, a) \cup {a}) = Cardinality(Below(f, a)) + 1
    BY <2>3, <2>4, FS_AddElement
  <2>6. Cardinality(Below(f, a) \cup {a}) <= Cardinality(Below(f, b))
    BY <2>2, <2>4, FS_Subset
  <2>7. Cardinality(Below(f, a)) = Down(f, a) /\ Cardinality(Below(f, b)) = Down(f, b)
        /\ Down(f, a) \in Nat /\ Down(f, b) \in Nat
    BY <2>1, DownIs
  <2> QED
    BY <2>5, <2>6, <2>7
<1>2. u \in Nat /\ v \in Nat /\ Down(f, u) \in Nat /\ Down(f, v) \in Nat
  BY BlocksFinite, DownIs DEF UsedBlocks
<1>3. ASSUME Down(f, u) = Down(f, v) PROVE u = v
  <2>1. ~(u < v)
    BY <1>1, <1>2, <1>3
  <2>2. ~(v < u)
    BY <1>1, <1>2, <1>3
  <2> QED
    BY <1>2, <2>1, <2>2
<1> QED
  BY <1>1, <1>3

(* What Defrag leaves.                                                     *)
LEMMA Defragged ==
  ASSUME NEW m, NEW g, MemoryTypeOK(m, g)
  PROVE  LET d == Defrag(m)
         IN /\ MemoryTypeOK(d, g)
            /\ UsedBlocks(d.flags) = {Down(m.flags, u) : u \in UsedBlocks(m.flags)}
            /\ \A u \in UsedBlocks(m.flags) :
                 /\ d.flags[Down(m.flags, u)] = m.flags[u]
                 /\ d.heap[Down(m.flags, u)] = m.heap[u]
            /\ \A x \in Handles :
                 d.handles[x] = IF m.handles[x] \in UsedBlocks(m.flags)
                                THEN Down(m.flags, m.handles[x]) ELSE m.handles[x]
<1> DEFINE d == Defrag(m)
           f == m.flags
           From(b) == {u \in UsedBlocks(f) : Down(f, u) = b}
<1>1. /\ d.flags = [b \in Blocks |-> UNION {f[u] : u \in From(b)}]
      /\ d.heap = [b \in Blocks |-> IF From(b) = {} THEN Nothing ELSE m.heap[Min(From(b))]]
      /\ d.handles = [h \in Handles |-> IF m.handles[h] \in UsedBlocks(f)
                                        THEN Down(f, m.handles[h]) ELSE m.handles[h]]
  BY DEF Defrag
<1> HIDE DEF d
<1>2. \A u \in UsedBlocks(f) : u \in Blocks /\ Down(f, u) \in Blocks
  BY DownIs DEF UsedBlocks
<1>3. ASSUME NEW u \in UsedBlocks(f) PROVE From(Down(f, u)) = {u}
  BY DownGrows
<1>4. ASSUME NEW u \in UsedBlocks(f)
      PROVE  d.flags[Down(f, u)] = f[u] /\ d.heap[Down(f, u)] = m.heap[u]
  <2> DEFINE b == Down(f, u)
  <2>1. b \in Blocks /\ From(b) = {u}
    BY <1>2, <1>3
  <2>2. u \in Int
    <3>1. u \in Nat
      BY <1>2, BlocksFinite
    <3> QED
      BY <3>1
  <2>3. Min({u}) = u
    BY <2>2 DEF Min
  <2>4. d.flags[b] = UNION {f[w] : w \in From(b)} /\ d.heap[b] = IF From(b) = {} THEN Nothing ELSE m.heap[Min(From(b))]
    BY <1>1, <2>1
  <2> HIDE DEF b, From
  <2>5. {f[w] : w \in {u}} = {f[u]}
    OBVIOUS
  <2>6. UNION {f[u]} = f[u]
    OBVIOUS
  <2> QED
    BY <2>1, <2>3, <2>4, <2>5, <2>6 DEF b
<1>5. \A b \in Blocks : From(b) = {} => d.flags[b] = {}
  BY <1>1
<1>6. d.flags \in [Blocks -> SUBSET Flags]
  <2> SUFFICES ASSUME NEW b \in Blocks PROVE UNION {f[u] : u \in From(b)} \subseteq Flags
    BY <1>1
  <2>1. \A u \in From(b) : f[u] \subseteq Flags
    BY DEF MemoryTypeOK, UsedBlocks
  <2> QED
    BY <2>1
<1>7. d.handles \in [Handles -> Blocks \cup {NULL}]
  BY <1>1, <1>2 DEF MemoryTypeOK
<1>8. MemoryTypeOK(d, g)
  BY <1>1, <1>6, <1>7 DEF MemoryTypeOK
<1>9. UsedBlocks(d.flags) = {Down(f, u) : u \in UsedBlocks(f)}
  <2>1. ASSUME NEW u \in UsedBlocks(f) PROVE Down(f, u) \in UsedBlocks(d.flags)
    BY <1>2, <1>4 DEF UsedBlocks
  <2>2. ASSUME NEW b \in UsedBlocks(d.flags) PROVE \E u \in UsedBlocks(f) : b = Down(f, u)
    <3>1. b \in Blocks /\ d.flags[b] # {}
      BY DEF UsedBlocks
    <3>2. From(b) # {}
      BY <1>5, <3>1
    <3> QED
      BY <3>2
  <2> QED
    BY <2>1, <2>2
<1>10. \A x \in Handles : d.handles[x] = IF m.handles[x] \in UsedBlocks(f)
                                          THEN Down(f, m.handles[x]) ELSE m.handles[x]
  BY <1>1
<1> QED
  BY <1>4, <1>8, <1>9, <1>10 DEF d

(* Defrag moves an allocation as a whole.                                  *)
LEMMA OwnMoves ==
  ASSUME NEW m, NEW g, Sound(m, g), NEW x \in LiveIn(m)
  PROVE  LET h == m.handles[x]
         IN /\ \A k \in 0 .. g[x] - 1 : /\ h + k \in UsedBlocks(m.flags)
                                        /\ Down(m.flags, h + k) = Down(m.flags, h) + k
            /\ Down(m.flags, h) \in Nat
            /\ Defrag(m).handles[x] = Down(m.flags, h)
<1> DEFINE h == m.handles[x]
<1>1. /\ x \in Handles /\ h \in Blocks /\ h \in Nat /\ g[x] \in Nat \ {0}
      /\ OwnIn(m, g, x) \subseteq UsedBlocks(m.flags)
  BY OwnBlocks
<1>2. h .. h + g[x] - 1 \subseteq UsedBlocks(m.flags)
  BY <1>1 DEF OwnIn
<1> HIDE DEF h
<1>3. ASSUME NEW k \in 0 .. g[x] - 1
      PROVE  h + k \in UsedBlocks(m.flags) /\ Down(m.flags, h + k) = Down(m.flags, h) + k
  <2>1. k \in Nat /\ h + k \in h .. h + g[x] - 1
    BY <1>1
  <2>2. h + k \in UsedBlocks(m.flags) /\ h + k \in Blocks
    BY <1>2, <2>1 DEF UsedBlocks
  <2>3. h .. h + k - 1 \subseteq h .. h + g[x] - 1
    BY <1>1, <2>1
  <2>4. h .. h + k - 1 \subseteq UsedBlocks(m.flags)
    BY <1>2, <2>3
  <2>5. Down(m.flags, h + k) = Down(m.flags, h) + k
    BY <1>1, <2>1, <2>2, <2>4, DownTogether
  <2> QED
    BY <2>2, <2>5
<1>4. h \in UsedBlocks(m.flags)
  <2>1. 0 \in 0 .. g[x] - 1 /\ h + 0 = h
    BY <1>1
  <2> QED
    BY <1>3, <2>1
<1>5. Down(m.flags, h) \in Nat
  BY <1>1, DownIs
<1>6. Defrag(m).handles[x] = Down(m.flags, h)
  BY <1>1, <1>4, Defragged DEF Sound, h
<1> QED
  BY <1>3, <1>5, <1>6 DEF h

LEMMA DefragLives ==
  ASSUME NEW m, NEW g, Sound(m, g)
  PROVE  LiveIn(Defrag(m)) = LiveIn(m)
<1> DEFINE d == Defrag(m)
<1> HIDE DEF d
<1>1. /\ m.handles \in [Handles -> Blocks \cup {NULL}]
      /\ \A x \in Handles : d.handles[x] = IF m.handles[x] \in UsedBlocks(m.flags)
                                          THEN Down(m.flags, m.handles[x]) ELSE m.handles[x]
  BY Defragged DEF Sound, MemoryTypeOK, d
<1>2. \A b \in UsedBlocks(m.flags) : b # NULL /\ Down(m.flags, b) # NULL
  BY DownIs, BlocksFinite DEF UsedBlocks
<1>3. ASSUME NEW x \in Handles PROVE d.handles[x] = NULL <=> m.handles[x] = NULL
  <2>1. CASE m.handles[x] \in UsedBlocks(m.flags)
    BY <1>1, <1>2, <2>1
  <2>2. CASE m.handles[x] \notin UsedBlocks(m.flags)
    BY <1>1, <2>2
  <2> QED
    BY <2>1, <2>2
<1>4. LiveIn(d) = LiveIn(m)
  BY <1>3 DEF LiveIn
<1> QED
  BY <1>4 DEF d

LEMMA DefragIsSound ==
  ASSUME NEW m, NEW g, Sound(m, g)
  PROVE  Sound(Defrag(m), g)
<1> DEFINE d == Defrag(m)
<1> HIDE DEF d
<1>1. /\ MemoryTypeOK(d, g) /\ LiveIn(d) = LiveIn(m)
      /\ \A u \in UsedBlocks(m.flags) : /\ d.flags[Down(m.flags, u)] = m.flags[u]
                                       /\ d.heap[Down(m.flags, u)] = m.heap[u]
  BY Defragged, DefragLives DEF Sound, d
<1>2. ASSUME NEW x \in LiveIn(m) PROVE Holds(d, g, x)
  <2> DEFINE h == m.handles[x]
             q == Down(m.flags, h)
             w == h + g[x] - 1
  <2>1. /\ h \in Nat /\ g[x] \in Nat \ {0} /\ Holds(m, g, x)
    BY OwnBlocks
  <2>2. /\ \A k \in 0 .. g[x] - 1 : h + k \in UsedBlocks(m.flags) /\ Down(m.flags, h + k) = q + k
        /\ q \in Nat /\ d.handles[x] = q
    BY OwnMoves DEF d
  <2>3. /\ w \in Blocks /\ "LINKED" \notin m.flags[w]
        /\ \A b \in h .. w : /\ "USED" \in m.flags[b]
                             /\ b # w => "LINKED" \in m.flags[b]
                             /\ m.heap[b] = <<x, b - h>>
    BY <2>1 DEF Holds, OwnIn
  <2> HIDE DEF h, q
  <2>4. ASSUME NEW k \in 0 .. g[x] - 1
        PROVE  d.flags[q + k] = m.flags[h + k] /\ d.heap[q + k] = m.heap[h + k]
    BY <1>1, <2>2
  <2>5. g[x] - 1 \in 0 .. g[x] - 1 /\ w = h + (g[x] - 1) /\ q + g[x] - 1 = q + (g[x] - 1)
    BY <2>1, <2>2
  <2>6. q + g[x] - 1 \in Blocks /\ "LINKED" \notin d.flags[q + g[x] - 1]
    <3>1. w \in UsedBlocks(m.flags) /\ Down(m.flags, w) = q + g[x] - 1
      BY <2>2, <2>5
    <3>2. Down(m.flags, w) \in Blocks
      BY <2>3, DownIs
    <3> QED
      BY <1>1, <2>3, <3>1, <3>2
  <2>7. ASSUME NEW b \in q .. q + g[x] - 1
        PROVE  /\ "USED" \in d.flags[b]
               /\ b # q + g[x] - 1 => "LINKED" \in d.flags[b]
               /\ d.heap[b] = <<x, b - q>>
    <3> DEFINE k == b - q
    <3>1. k \in 0 .. g[x] - 1 /\ b = q + k /\ h + k \in h .. w /\ (h + k) - h = k
      BY <2>1, <2>2
    <3>2. b # q + g[x] - 1 => h + k # w
      BY <2>1, <2>2, <3>1
    <3> HIDE DEF k, w
    <3>3. d.flags[b] = m.flags[h + k] /\ d.heap[b] = m.heap[h + k]
      BY <2>4, <3>1
    <3>4. m.heap[h + k] = <<x, k>>
      BY <2>3, <3>1
    <3> QED
      BY <2>3, <3>1, <3>2, <3>3, <3>4 DEF k
  <2> QED
    BY <2>1, <2>2, <2>6, <2>7 DEF Holds, OwnIn
<1>3. ASSUME NEW x \in Handles PROVE IF d.handles[x] = NULL THEN g[x] = 0 ELSE Holds(d, g, x)
  <2>1. x \in LiveIn(m) <=> d.handles[x] # NULL
    BY <1>1 DEF LiveIn
  <2>2. x \notin LiveIn(m) => g[x] = 0
    BY DEF LiveIn, Sound
  <2> QED
    BY <1>2, <2>1, <2>2
<1>4. Sound(d, g)
  BY <1>1, <1>3 DEF Sound
<1> QED
  BY <1>4 DEF d

(* The blocks that nobody can give back are as many as before.             *)
LEMMA DefragLoses ==
  ASSUME NEW m, NEW g, Sound(m, g)
  PROVE  Cardinality(LostIn(Defrag(m), g)) = Cardinality(LostIn(m, g))
<1> DEFINE d == Defrag(m)
           U == UsedBlocks(m.flags)
           D(u) == Down(m.flags, u)
<1>1. /\ UsedBlocks(d.flags) = {D(u) : u \in U} /\ LiveIn(d) = LiveIn(m)
  BY Defragged, DefragLives DEF Sound
<1>2. \A x \in LiveIn(m) : OwnIn(m, g, x) \subseteq U
  BY OwnBlocks
<1>3. \A u, v \in U : D(u) = D(v) => u = v
  BY DownGrows
<1> HIDE DEF d
<1>4. ASSUME NEW x \in LiveIn(m), NEW u \in U PROVE D(u) \in OwnIn(d, g, x) <=> u \in OwnIn(m, g, x)
  <2> DEFINE h == m.handles[x]
             q == D(h)
  <2>1. /\ h \in Nat /\ g[x] \in Nat \ {0}
    BY OwnBlocks
  <2>2. /\ \A k \in 0 .. g[x] - 1 : h + k \in U /\ D(h + k) = q + k
        /\ q \in Nat /\ d.handles[x] = q
    BY OwnMoves DEF d
  <2> HIDE DEF h, q, D, U
  <2>3. OwnIn(d, g, x) = q .. q + g[x] - 1 /\ OwnIn(m, g, x) = h .. h + g[x] - 1
    BY <2>2 DEF OwnIn, h
  <2>4. ASSUME D(u) \in q .. q + g[x] - 1 PROVE u \in h .. h + g[x] - 1
    <3> DEFINE k == D(u) - q
    <3>1. k \in 0 .. g[x] - 1 /\ D(u) = q + k
      BY <2>1, <2>2, <2>4
    <3> HIDE DEF k
    <3>2. u = h + k
      BY <1>3, <2>2, <3>1
    <3> QED
      BY <2>1, <3>1, <3>2
  <2>5. ASSUME u \in h .. h + g[x] - 1 PROVE D(u) \in q .. q + g[x] - 1
    <3> DEFINE k == u - h
    <3>1. k \in 0 .. g[x] - 1 /\ u = h + k
      BY <2>1, <2>5
    <3> HIDE DEF k
    <3>2. D(u) = q + k
      BY <2>2, <3>1
    <3> QED
      BY <2>1, <2>2, <3>1, <3>2
  <2> QED
    BY <2>3, <2>4, <2>5
<1>5. LostIn(d, g) = {D(u) : u \in LostIn(m, g)}
  <2>1. ASSUME NEW u \in U PROVE D(u) \in AllottedIn(d, g) <=> u \in AllottedIn(m, g)
    BY <1>1, <1>4 DEF AllottedIn
  <2> QED
    BY <1>1, <2>1 DEF LostIn
<1> DEFINE S == LostIn(m, g)
           F == [u \in S |-> D(u)]
<1>6. S \subseteq U /\ IsFiniteSet(S)
  BY LostFinite DEF LostIn
<1> HIDE DEF D, U, S
<1>7. F \in Bijection(S, {D(u) : u \in S})
  <2>1. F \in [S -> {D(u) : u \in S}]
    OBVIOUS
  <2>2. \A u, v \in S : F[u] = F[v] => u = v
    BY <1>3, <1>6
  <2>3. \A t \in {D(u) : u \in S} : \E u \in S : F[u] = t
    OBVIOUS
  <2> QED
    BY <2>1, <2>2, <2>3, Fun_IsBij
<1>8. Cardinality({D(u) : u \in S}) = Cardinality(S)
  BY <1>6, <1>7, FS_Bijection DEF ExistsBijection
<1> QED
  BY <1>5, <1>8 DEF d, S

-----------------------------------------------------------------------------
(* Mem_Free.                                                               *)

(* The links of an allocation lead through all of its blocks and no other. *)
LEMMA ChainIsOwn ==
  ASSUME NEW m, NEW g, Sound(m, g), NEW x \in LiveIn(m)
  PROVE  Chain(m.flags, m.handles[x]) = OwnIn(m, g, x)
<1> DEFINE h == m.handles[x]
           w == h + g[x] - 1
<1>1. /\ h \in Nat /\ g[x] \in Nat \ {0} /\ Holds(m, g, x)
      /\ OwnIn(m, g, x) \subseteq Blocks
  BY OwnBlocks DEF UsedBlocks
<1>2. /\ w \in Blocks /\ "LINKED" \notin m.flags[w]
      /\ \A b \in h .. w : b # w => "LINKED" \in m.flags[b]
  BY <1>1 DEF Holds, OwnIn
<1>3. OwnIn(m, g, x) = h .. w
  BY DEF OwnIn
<1>4. Chain(m.flags, h) = {b \in Blocks : b >= h /\ \A i \in h .. b - 1 : "LINKED" \in m.flags[i]}
  BY DEF Chain
<1> HIDE DEF h
<1>5. w \in Nat /\ h <= w
  BY <1>1
<1> HIDE DEF w
<1>6. ASSUME NEW b \in Chain(m.flags, h) PROVE b \in h .. w
  <2>1. b \in Nat /\ h <= b /\ \A i \in h .. b - 1 : "LINKED" \in m.flags[i]
    BY <1>4, BlocksFinite
  <2>2. w \notin h .. b - 1
    BY <1>2, <2>1
  <2> QED
    BY <1>1, <1>5, <2>1, <2>2
<1>7. ASSUME NEW b \in h .. w PROVE b \in Chain(m.flags, h)
  <2>1. b \in Blocks /\ b \in Int /\ h <= b /\ b <= w
    BY <1>1, <1>3, <1>5
  <2>2. \A i \in h .. b - 1 : i \in h .. w /\ i # w
    BY <1>1, <1>5, <2>1
  <2> QED
    BY <1>2, <1>4, <2>1, <2>2
<1> QED
  BY <1>3, <1>6, <1>7 DEF h

LEMMA FreedIsSound ==
  ASSUME NEW m, NEW g, Sound(m, g), NEW x \in LiveIn(m)
  PROVE  LET n == [g EXCEPT ![x] = 0]
         IN Sound(Freed(m, x), n) /\ LostIn(Freed(m, x), n) = LostIn(m, g)
<1> DEFINE n == [g EXCEPT ![x] = 0]
           d == Freed(m, x)
           own == OwnIn(m, g, x)
<1>1. Chain(m.flags, m.handles[x]) = own
  BY ChainIsOwn
<1>2. /\ d.flags = [b \in Blocks |-> IF b \in own THEN {} ELSE m.flags[b]]
      /\ d.heap = [b \in Blocks |-> IF b \in own THEN Nothing ELSE m.heap[b]]
      /\ d.handles = [m.handles EXCEPT ![x] = NULL]
  BY <1>1 DEF Freed
<1>3. /\ x \in Handles /\ own \subseteq UsedBlocks(m.flags) /\ own \subseteq Blocks
      /\ \A y \in LiveIn(m) : x # y => own \cap OwnIn(m, g, y) = {}
  BY OwnBlocks DEF UsedBlocks
<1>4. MemoryTypeOK(m, g)
  BY DEF Sound
<1> HIDE DEF d, own
<1>5. MemoryTypeOK(d, n)
  <2>1. d.flags \in [Blocks -> SUBSET Flags]
    BY <1>2, <1>4 DEF MemoryTypeOK
  <2>2. d.handles \in [Handles -> Blocks \cup {NULL}] /\ n \in [Handles -> Nat] /\ DOMAIN d.heap = Blocks
    BY <1>2, <1>3, <1>4 DEF MemoryTypeOK
  <2> QED
    BY <2>1, <2>2 DEF MemoryTypeOK
<1>6. /\ d.handles[x] = NULL /\ n[x] = 0
      /\ \A y \in Handles : y # x => d.handles[y] = m.handles[y] /\ n[y] = g[y]
  BY <1>2, <1>3, <1>4 DEF MemoryTypeOK
<1>7. LiveIn(d) = LiveIn(m) \ {x}
  BY <1>3, <1>6 DEF LiveIn
<1> HIDE DEF n
<1>8. \A y \in LiveIn(d) : y # x /\ y \in LiveIn(m) /\ y \in Handles /\ OwnIn(d, n, y) = OwnIn(m, g, y)
  BY <1>6, <1>7 DEF LiveIn, OwnIn
<1>9. ASSUME NEW y \in LiveIn(d) PROVE Holds(d, n, y)
  <2> DEFINE w == m.handles[y] + g[y] - 1
  <2>1. Holds(m, g, y) /\ OwnIn(m, g, y) \subseteq UsedBlocks(m.flags) /\ m.handles[y] \in Nat
        /\ g[y] \in Nat \ {0}
    BY <1>8, OwnBlocks
  <2>2. /\ w \in Blocks /\ "LINKED" \notin m.flags[w]
        /\ \A b \in OwnIn(m, g, y) : /\ "USED" \in m.flags[b]
                                     /\ b # w => "LINKED" \in m.flags[b]
                                     /\ m.heap[b] = <<y, b - m.handles[y]>>
    BY <2>1 DEF Holds
  <2>3. w \in OwnIn(m, g, y)
    BY <2>1 DEF OwnIn
  <2> HIDE DEF w
  <2>4. \A b \in OwnIn(m, g, y) : b \in Blocks /\ b \notin own
    BY <1>3, <1>8, <2>1 DEF UsedBlocks
  <2>5. \A b \in OwnIn(m, g, y) : d.flags[b] = m.flags[b] /\ d.heap[b] = m.heap[b]
    BY <1>2, <2>4
  <2>6. d.handles[y] = m.handles[y] /\ n[y] = g[y] /\ OwnIn(d, n, y) = OwnIn(m, g, y)
    BY <1>6, <1>8
  <2>7. d.handles[y] + n[y] - 1 = w
    BY <2>6 DEF w
  <2>8. /\ w \in Blocks /\ "LINKED" \notin d.flags[w]
        /\ \A b \in OwnIn(d, n, y) : /\ "USED" \in d.flags[b]
                                     /\ b # w => "LINKED" \in d.flags[b]
                                     /\ d.heap[b] = <<y, b - d.handles[y]>>
    BY <2>2, <2>3, <2>5, <2>6
  <2> QED
    BY <2>1, <2>6, <2>7, <2>8 DEF Holds
<1>10. Sound(d, n)
  <2>1. ASSUME NEW y \in Handles PROVE IF d.handles[y] = NULL THEN n[y] = 0 ELSE Holds(d, n, y)
    <3>1. CASE y = x
      BY <1>6, <3>1
    <3>2. CASE y # x
      <4>1. (m.handles[y] = NULL => g[y] = 0) /\ d.handles[y] = m.handles[y] /\ n[y] = g[y]
        BY <1>6, <3>2 DEF Sound
      <4>2. d.handles[y] # NULL => y \in LiveIn(d)
        BY DEF LiveIn
      <4> QED
        BY <1>9, <4>1, <4>2
    <3> QED
      BY <3>1, <3>2
  <2> QED
    BY <1>5, <2>1 DEF Sound
<1>11. LostIn(d, n) = LostIn(m, g)
  <2>1. UsedBlocks(d.flags) = UsedBlocks(m.flags) \ own
    BY <1>2 DEF UsedBlocks
  <2>2. AllottedIn(m, g) = AllottedIn(d, n) \cup own
    <3>1. \A b \in AllottedIn(m, g) : b \in own \/ b \in AllottedIn(d, n)
      <4> SUFFICES ASSUME NEW b \in AllottedIn(m, g), b \notin own PROVE b \in AllottedIn(d, n)
        OBVIOUS
      <4>1. PICK y \in LiveIn(m) : b \in OwnIn(m, g, y)
        BY DEF AllottedIn
      <4>2. y # x
        BY <4>1 DEF own
      <4>3. y \in LiveIn(d) /\ b \in OwnIn(d, n, y)
        BY <1>7, <1>8, <4>1, <4>2
      <4> QED
        BY <4>3 DEF AllottedIn
    <3>2. \A b \in AllottedIn(d, n) : b \in AllottedIn(m, g)
      BY <1>8 DEF AllottedIn
    <3>3. own \subseteq AllottedIn(m, g)
      BY DEF AllottedIn, own
    <3> QED
      BY <3>1, <3>2, <3>3
  <2>3. own \cap AllottedIn(d, n) = {}
    BY <1>3, <1>8 DEF AllottedIn
  <2> QED
    BY <2>1, <2>2, <2>3 DEF LostIn
<1> QED
  BY <1>10, <1>11 DEF d, n

-----------------------------------------------------------------------------
(* Mem_Alloc and Mem_Realloc.                                              *)

(* What is said of a memory is said of its three tables.                   *)
LEMMA SameTables ==
  ASSUME NEW m, NEW d, NEW g, m.flags = d.flags, m.heap = d.heap, m.handles = d.handles
  PROVE  (Sound(m, g) <=> Sound(d, g)) /\ LostIn(m, g) = LostIn(d, g)
<1>1. \A x : OwnIn(m, g, x) = OwnIn(d, g, x)
  BY DEF OwnIn
<1>2. \A x : Holds(m, g, x) <=> Holds(d, g, x)
  BY <1>1 DEF Holds
<1>3. AllottedIn(m, g) = AllottedIn(d, g)
  BY <1>1 DEF AllottedIn, LiveIn
<1> QED
  BY <1>2, <1>3 DEF Sound, MemoryTypeOK, LostIn

LEMMA LeastBlock ==
  ASSUME NEW S, S \subseteq Nat, S # {}
  PROVE  Min(S) \in S /\ \A y \in S : Min(S) <= y
<1>1. \E x \in S : \A y \in S : x <= y
  BY LeastNumber
<1> QED
  BY <1>1 DEF Min

LEMMA Interval ==
  ASSUME NEW a \in Nat, NEW n \in Nat \ {0}
  PROVE  LET T == a .. a + n - 1
         IN /\ Min(T) = a /\ Max(T) = a + n - 1
            /\ IsFiniteSet(T) /\ Cardinality(T) = n
<1> DEFINE T == a .. a + n - 1
<1>1. a \in T /\ a + n - 1 \in T /\ \A y \in T : y \in Int /\ a <= y /\ y <= a + n - 1
  OBVIOUS
<1>2. a \in Nat /\ a + n - 1 \in Int
  OBVIOUS
<1>3. /\ IsFiniteSet(T) /\ Cardinality(T) = IF a > a + n - 1 THEN 0 ELSE (a + n - 1) - a + 1
  BY <1>2, FS_Interval
<1>4. IsFiniteSet(T) /\ Cardinality(T) = n
  BY <1>3
<1> DEFINE l == a + n - 1
<1>5. l \in T /\ \A y \in T : y \in Int /\ a <= y /\ y <= l
  BY <1>1
<1> HIDE DEF T, l
<1>6. Min(T) \in T /\ Min(T) <= a
  BY <1>1 DEF Min
<1>7. Max(T) \in T /\ l <= Max(T)
  BY <1>1, <1>5 DEF Max
<1>8. Min(T) = a /\ Max(T) = l
  BY <1>2, <1>5, <1>6, <1>7
<1> QED
  BY <1>4, <1>8 DEF T, l

(* The blocks an allocation gets are free, and a run of one block is.      *)
LEMMA RunOfOne ==
  ASSUME NEW f, RunEnds(f, 1) # {}
  PROVE  LET a == Min(RunEnds(f, 1)) IN a .. a + 1 - 1 \subseteq FreeBlocks(f)
<1> DEFINE S == RunEnds(f, 1)
           a == Min(S)
<1>1. S \subseteq Nat
  BY BlocksFinite DEF RunEnds
<1>2. a \in S
  BY <1>1, LeastBlock
<1>3. a \in Nat /\ \A i \in a - 1 + 1 .. a : i \in FreeBlocks(f)
  BY <1>1, <1>2 DEF RunEnds
<1> HIDE DEF a
<1>4. a \in a - 1 + 1 .. a /\ a .. a + 1 - 1 = {a}
  BY <1>3
<1>5. a .. a + 1 - 1 \subseteq FreeBlocks(f)
  BY <1>3, <1>4
<1> QED
  BY <1>5 DEF a

(* Free blocks that get marked disturb no allocation.                      *)
LEMMA Undisturbed ==
  ASSUME NEW d, NEW g, Sound(d, g), NEW taken, taken \subseteq FreeBlocks(d.flags),
         NEW e, NEW k, MemoryTypeOK(e, k),
         \A b \in Blocks \ taken : e.flags[b] = d.flags[b] /\ e.heap[b] = d.heap[b],
         NEW x \in LiveIn(d), e.handles[x] = d.handles[x], k[x] = g[x]
  PROVE  Holds(e, k, x) /\ OwnIn(e, k, x) = OwnIn(d, g, x)
<1> DEFINE w == d.handles[x] + g[x] - 1
<1>1. Holds(d, g, x) /\ OwnIn(d, g, x) \subseteq UsedBlocks(d.flags) /\ d.handles[x] \in Nat
      /\ g[x] \in Nat \ {0}
  BY OwnBlocks
<1>2. /\ w \in Blocks /\ "LINKED" \notin d.flags[w]
      /\ \A b \in OwnIn(d, g, x) : /\ "USED" \in d.flags[b]
                                   /\ b # w => "LINKED" \in d.flags[b]
                                   /\ d.heap[b] = <<x, b - d.handles[x]>>
  BY <1>1 DEF Holds
<1>3. w \in OwnIn(d, g, x)
  BY <1>1 DEF OwnIn
<1>4. e.handles[x] + k[x] - 1 = w /\ OwnIn(e, k, x) = OwnIn(d, g, x)
  BY DEF OwnIn
<1> HIDE DEF w
<1>5. \A b \in OwnIn(d, g, x) : b \in Blocks \ taken
  BY <1>1 DEF UsedBlocks, FreeBlocks
<1>6. \A b \in OwnIn(d, g, x) : e.flags[b] = d.flags[b] /\ e.heap[b] = d.heap[b]
  BY <1>5
<1>7. /\ w \in Blocks /\ "LINKED" \notin e.flags[w]
      /\ \A b \in OwnIn(e, k, x) : /\ "USED" \in e.flags[b]
                                   /\ b # w => "LINKED" \in e.flags[b]
                                   /\ e.heap[b] = <<x, b - e.handles[x]>>
  BY <1>2, <1>3, <1>4, <1>6
<1> QED
  BY <1>1, <1>4, <1>7 DEF Holds

LEMMA GrantIsSound ==
  ASSUME NEW d, NEW g, Sound(d, g), Cardinality(LostIn(d, g)) = leaked, leaked \in Nat,
         NEW a \in Nat, NEW n \in Nat \ {0}, a .. a + n - 1 \subseteq FreeBlocks(d.flags),
         Mark(d, a .. a + n - 1), Grant(d, g, a .. a + n - 1)
  PROVE  /\ Sound(Memory, granted)'
         /\ Cardinality(LostIn(Memory, granted))' = leaked'
         /\ leaked' \in Nat
<1> DEFINE T == a .. a + n - 1
           l == a + n - 1
           e == [flags |-> blockFlags', heap |-> heap', handles |-> handles']
           k == granted'
           U == UsedBlocks(d.flags)
<1>1. Min(T) = a /\ Max(T) = l /\ IsFiniteSet(T) /\ Cardinality(T) = n
  BY Interval
<1>2. a \in T /\ l \in T /\ \A b \in T : b \in Int
  OBVIOUS
<1>3. T \subseteq Blocks /\ T \cap U = {} /\ U \subseteq Blocks
  BY DEF FreeBlocks, UsedBlocks
<1>4. MemoryTypeOK(d, g)
  BY DEF Sound
<1>5. e.flags = [b \in Blocks |-> IF b \notin T THEN d.flags[b]
                                 ELSE IF b = l THEN {"USED"} ELSE {"USED", "LINKED"}]
  BY <1>1 DEF Mark
<1>6. e.flags \in [Blocks -> SUBSET Flags]
  BY <1>4, <1>5 DEF MemoryTypeOK, Flags
<1>7. UsedBlocks(e.flags) = U \cup T
  BY <1>3, <1>5 DEF UsedBlocks
<1>8. e.heap = heap' /\ e.handles = handles'
  OBVIOUS
<1> DEFINE unused == {x \in Handles : d.handles[x] = NULL}
           h == Min(unused)
<1>9. /\ unused = {} => /\ leaked' = leaked + n
                        /\ e.heap = d.heap /\ e.handles = d.handles /\ k = g
      /\ unused # {} => /\ e.handles = [d.handles EXCEPT ![h] = a]
                        /\ k = [g EXCEPT ![h] = n]
                        /\ e.heap = [b \in Blocks |-> IF b \in T THEN <<h, b - a>> ELSE d.heap[b]]
                        /\ leaked' = leaked
  BY <1>1, <1>8 DEF Grant
<1>10. /\ Memory' = e /\ granted' = k
  BY DEF Memory
<1>11. unused # {} => h \in unused
  <2>1. unused \subseteq Nat
    BY DynAllocAssumption DEF Handles
  <2> QED
    BY <2>1, LeastBlock
<1> HIDE DEF e, k, unused, h
<1>12. CASE unused = {}
  <2>1. MemoryTypeOK(e, g)
    BY <1>4, <1>6, <1>9, <1>12 DEF MemoryTypeOK
  <2>2. \A b \in Blocks \ T : e.flags[b] = d.flags[b] /\ e.heap[b] = d.heap[b]
    BY <1>5, <1>9, <1>12
  <2>3. ASSUME NEW x \in LiveIn(d) PROVE Holds(e, g, x) /\ OwnIn(e, g, x) = OwnIn(d, g, x)
    <3>1. e.handles[x] = d.handles[x] /\ k[x] = g[x] /\ MemoryTypeOK(e, k) /\ k = g
      BY <1>9, <1>12, <2>1
    <3> HIDE DEF T
    <3>2. T \subseteq FreeBlocks(d.flags)
      BY DEF T
    <3>3. Sound(d, g) /\ x \in LiveIn(d)
      OBVIOUS
    <3>4. Holds(e, k, x) /\ OwnIn(e, k, x) = OwnIn(d, g, x)
      BY ONLY <2>2, <3>1, <3>2, <3>3, Undisturbed
    <3> QED
      BY <3>1, <3>4
  <2>4. Sound(e, g)
    <3>1. ASSUME NEW x \in Handles PROVE IF e.handles[x] = NULL THEN g[x] = 0 ELSE Holds(e, g, x)
      <4>1. x \in LiveIn(d)
        BY <1>12 DEF LiveIn, unused
      <4> QED
        BY <1>9, <1>12, <2>3, <4>1 DEF LiveIn
    <3> QED
      BY <2>1, <3>1 DEF Sound
  <2>5. LostIn(e, g) = LostIn(d, g) \cup T
    <3>1. AllottedIn(e, g) = AllottedIn(d, g)
      BY <1>9, <1>12, <2>3 DEF AllottedIn, LiveIn
    <3>2. AllottedIn(d, g) \subseteq U
      BY OwnBlocks DEF AllottedIn
    <3>3. T \cap AllottedIn(d, g) = {}
      BY <1>3, <3>2
    <3> QED
      BY <1>7, <3>1, <3>3 DEF LostIn
  <2>6. LostIn(d, g) \cap T = {}
    BY <1>3 DEF LostIn
  <2>7. Cardinality(LostIn(e, g)) = leaked + n
    <3>1. IsFiniteSet(LostIn(d, g))
      BY LostFinite
    <3>2. Cardinality(LostIn(d, g) \cup T) = Cardinality(LostIn(d, g)) + Cardinality(T)
      BY <1>1, <2>6, <3>1, BothTogether
    <3> QED
      BY <1>1, <2>5, <3>2
  <2>8. leaked + n \in Nat
    OBVIOUS
  <2> QED
    BY <1>9, <1>10, <1>12, <2>4, <2>7, <2>8
<1>13. CASE unused # {}
  <2>1. h \in Handles /\ d.handles[h] = NULL
    BY <1>11, <1>13 DEF unused
  <2>2. MemoryTypeOK(e, k)
    <3>1. a \in Blocks
      BY <1>2, <1>3
    <3>2. /\ e.handles \in [Handles -> Blocks \cup {NULL}]
          /\ k \in [Handles -> Nat] /\ DOMAIN e.heap = Blocks
      BY <1>4, <1>9, <1>13, <2>1, <3>1 DEF MemoryTypeOK
    <3> QED
      BY <1>6, <3>2 DEF MemoryTypeOK
  <2>3. \A b \in Blocks \ T : e.flags[b] = d.flags[b] /\ e.heap[b] = d.heap[b]
    BY <1>5, <1>9, <1>13
  <2>4. /\ e.handles[h] = a /\ k[h] = n
        /\ \A x \in Handles : x # h => e.handles[x] = d.handles[x] /\ k[x] = g[x]
    BY <1>4, <1>9, <1>13, <2>1 DEF MemoryTypeOK
  <2>5. ASSUME NEW x \in LiveIn(d) PROVE x # h /\ Holds(e, k, x) /\ OwnIn(e, k, x) = OwnIn(d, g, x)
    <3>1. x # h /\ e.handles[x] = d.handles[x] /\ k[x] = g[x]
      BY <2>1, <2>4 DEF LiveIn
    <3> QED
      BY <2>2, <2>3, <3>1, Undisturbed
  <2>6. OwnIn(e, k, h) = T
    BY <2>4 DEF OwnIn
  <2>7. Holds(e, k, h)
    <3>1. e.handles[h] + k[h] - 1 = l /\ l \in Blocks
      BY <1>2, <1>3, <2>4
    <3> HIDE DEF l
    <3>2. "LINKED" \notin e.flags[l]
      BY <1>2, <1>5, <3>1
    <3>3. ASSUME NEW b \in T
          PROVE  /\ "USED" \in e.flags[b] /\ (b # l => "LINKED" \in e.flags[b])
                 /\ e.heap[b] = <<h, b - a>>
      BY <1>3, <1>5, <1>9, <1>13
    <3>4. k[h] > 0
      BY <2>4
    <3> HIDE DEF T
    <3> QED
      BY <2>4, <2>6, <3>1, <3>2, <3>3, <3>4 DEF Holds
  <2>8. a # NULL
    BY DEF NULL
  <2>9. Sound(e, k)
    <3>1. ASSUME NEW x \in Handles PROVE IF e.handles[x] = NULL THEN k[x] = 0 ELSE Holds(e, k, x)
      <4>1. CASE x = h
        BY <2>4, <2>7, <2>8, <4>1
      <4>2. CASE x # h
        <5>1. e.handles[x] = d.handles[x] /\ k[x] = g[x] /\ (d.handles[x] = NULL => g[x] = 0)
          BY <2>4, <4>2 DEF Sound
        <5> QED
          BY <2>5, <5>1 DEF LiveIn
      <4> QED
        BY <4>1, <4>2
    <3> QED
      BY <2>2, <3>1 DEF Sound
  <2>10. LostIn(e, k) = LostIn(d, g)
    <3>1. LiveIn(e) = LiveIn(d) \cup {h}
      BY <2>1, <2>4, <2>8 DEF LiveIn
    <3>2. AllottedIn(e, k) = AllottedIn(d, g) \cup T
      BY <2>5, <2>6, <3>1 DEF AllottedIn
    <3> QED
      BY <1>3, <1>7, <3>2 DEF LostIn
  <2> QED
    BY <1>9, <1>10, <1>13, <2>9, <2>10
<1> QED
  BY <1>12, <1>13

LEMMA AllocKeeps ==
  ASSUME NEW m, NEW g, Sound(m, g), Cardinality(LostIn(m, g)) = leaked, leaked \in Nat,
         misplaced = Placed, NEW bytes \in AllocSizes, Alloc(m, g, bytes)
  PROVE  AllocInvariant'
<1> DEFINE n == ReqBlocks(bytes)
           d == IF RunEnds(m.flags, n) # {} THEN m ELSE Defrag(m)
           ends == RunEnds(d.flags, n)
           a == Min(ends)
           T == a .. a + n - 1
<1>1. n \in Nat
  <2>1. bytes \in Nat /\ BLOCK_SIZE \in Nat \ {0}
    BY DynAllocAssumption
  <2>2. bytes \div BLOCK_SIZE \in Nat
    BY <2>1
  <2> QED
    BY <2>2 DEF ReqBlocks
<1>2. Sound(d, g) /\ Cardinality(LostIn(d, g)) = leaked
  BY DefragIsSound, DefragLoses
<1>3. \/ /\ ends = {}
         /\ blockFlags' = d.flags /\ heap' = d.heap /\ handles' = d.handles
         /\ granted' = g /\ UNCHANGED <<leaked, misplaced>>
      \/ /\ ends # {} /\ (n = 0 \/ ~(T \subseteq FreeBlocks(d.flags)))
         /\ misplaced' = n
         /\ UNCHANGED <<blockFlags, heap, handles, granted, leaked>>
      \/ /\ ends # {} /\ n > 0 /\ T \subseteq FreeBlocks(d.flags)
         /\ Mark(d, T) /\ Grant(d, g, T)
         /\ UNCHANGED misplaced
  BY DEF Alloc
<1>4. ends \subseteq Nat
  BY BlocksFinite DEF RunEnds
<1>5. ends # {} => a \in Nat
  BY <1>4, LeastBlock
<1>6. n = 1 /\ ends # {} => T \subseteq FreeBlocks(d.flags)
  BY RunOfOne
<1> HIDE DEF n, d, ends, a
<1>7. CASE /\ ends = {}
           /\ blockFlags' = d.flags /\ heap' = d.heap /\ handles' = d.handles
           /\ granted' = g /\ UNCHANGED <<leaked, misplaced>>
  <2> DEFINE e == [flags |-> blockFlags', heap |-> heap', handles |-> handles']
  <2>1. e.flags = d.flags /\ e.heap = d.heap /\ e.handles = d.handles
    BY <1>7
  <2>2. Memory' = e
    BY DEF Memory
  <2> HIDE DEF e
  <2>3. Sound(e, g) /\ Cardinality(LostIn(e, g)) = leaked
    <3>1. (Sound(e, g) <=> Sound(d, g)) /\ LostIn(e, g) = LostIn(d, g)
      BY <2>1, SameTables
    <3> QED
      BY <1>2, <3>1
  <2>4. misplaced' # 1 /\ leaked' \in Nat
    BY <1>7 DEF Placed
  <2> QED
    BY <1>7, <2>2, <2>3, <2>4 DEF AllocInvariant
<1>8. CASE /\ ends # {} /\ (n = 0 \/ ~(T \subseteq FreeBlocks(d.flags)))
           /\ misplaced' = n
           /\ UNCHANGED <<blockFlags, heap, handles, granted, leaked>>
  <2>1. misplaced' # 1 /\ misplaced' # Placed /\ leaked' \in Nat
    BY <1>1, <1>6, <1>8 DEF Placed
  <2> QED
    BY <2>1 DEF AllocInvariant
<1>9. CASE /\ ends # {} /\ n > 0 /\ T \subseteq FreeBlocks(d.flags)
           /\ Mark(d, T) /\ Grant(d, g, T)
           /\ UNCHANGED misplaced
  <2>1. a \in Nat /\ n \in Nat \ {0}
    BY <1>1, <1>5, <1>9
  <2>2. /\ Sound(Memory, granted)'
        /\ Cardinality(LostIn(Memory, granted))' = leaked'
        /\ leaked' \in Nat
    BY <1>2, <1>9, <2>1, GrantIsSound
  <2>3. misplaced' # 1
    BY <1>9 DEF Placed
  <2> QED
    BY <2>2, <2>3 DEF AllocInvariant
<1> QED
  BY <1>3, <1>7, <1>8, <1>9

-----------------------------------------------------------------------------
LEMMA AllocStarts ==
  ASSUME AllocInit
  PROVE  AllocInvariant
<1> DEFINE m == Memory
<1>1. /\ m.flags = [b \in Blocks |-> {}] /\ m.heap = [b \in Blocks |-> Nothing]
      /\ m.handles = [h \in Handles |-> NULL] /\ granted = [h \in Handles |-> 0]
      /\ leaked = 0 /\ misplaced = Placed
  BY DEF AllocInit, Memory
<1> HIDE DEF m
<1>2. MemoryTypeOK(m, granted)
  BY <1>1 DEF MemoryTypeOK
<1>3. Sound(m, granted)
  BY <1>1, <1>2 DEF Sound
<1>4. LostIn(m, granted) = {}
  BY <1>1 DEF LostIn, UsedBlocks
<1>5. Cardinality(LostIn(m, granted)) = 0
  BY <1>4, FS_EmptySet
<1> QED
  BY <1>1, <1>3, <1>5 DEF AllocInvariant, m, Placed

LEMMA AllocStep ==
  ASSUME AllocInvariant, AllocNext \/ UNCHANGED allocVars
  PROVE  AllocInvariant'
<1>1. CASE Mem_Alloc
  <2>1. misplaced = Placed
    BY <1>1 DEF Mem_Alloc
  <2>2. PICK bytes \in AllocSizes : Alloc(Memory, granted, bytes)
    BY <1>1 DEF Mem_Alloc
  <2> QED
    BY <2>1, <2>2, AllocKeeps DEF AllocInvariant
<1>2. CASE Mem_Realloc
  <2>1. misplaced = Placed
    BY <1>2 DEF Mem_Realloc
  <2>2. PICK x \in Handles, bytes \in AllocSizes :
           handles[x] # NULL /\ Alloc(Freed(Memory, x), [granted EXCEPT ![x] = 0], bytes)
    BY <1>2 DEF Mem_Realloc
  <2>3. x \in LiveIn(Memory)
    BY <2>2 DEF LiveIn, Memory
  <2>4. /\ Sound(Memory, granted) /\ Cardinality(LostIn(Memory, granted)) = leaked /\ leaked \in Nat
    BY <2>1 DEF AllocInvariant
  <2> DEFINE m == Freed(Memory, x)
             g == [granted EXCEPT ![x] = 0]
  <2>5. Sound(m, g) /\ LostIn(m, g) = LostIn(Memory, granted)
    BY <2>3, <2>4, FreedIsSound
  <2>6. Alloc(m, g, bytes)
    BY <2>2
  <2> HIDE DEF m, g
  <2> QED
    BY <2>1, <2>4, <2>5, <2>6, AllocKeeps
<1>3. CASE Mem_Free
  <2>1. misplaced = Placed /\ UNCHANGED <<leaked, misplaced>>
    BY <1>3 DEF Mem_Free
  <2>2. PICK x \in Handles :
          /\ handles[x] # NULL
          /\ LET m == Freed(Memory, x)
             IN blockFlags' = m.flags /\ heap' = m.heap /\ handles' = m.handles
          /\ granted' = [granted EXCEPT ![x] = 0]
    BY <1>3 DEF Mem_Free
  <2>3. x \in LiveIn(Memory)
    BY <2>2 DEF LiveIn, Memory
  <2>4. /\ Sound(Memory, granted) /\ Cardinality(LostIn(Memory, granted)) = leaked /\ leaked \in Nat
    BY <2>1 DEF AllocInvariant
  <2> DEFINE m == Freed(Memory, x)
             g == [granted EXCEPT ![x] = 0]
             e == [flags |-> blockFlags', heap |-> heap', handles |-> handles']
  <2>5. Sound(m, g) /\ LostIn(m, g) = LostIn(Memory, granted)
    BY <2>3, <2>4, FreedIsSound
  <2>6. e.flags = m.flags /\ e.heap = m.heap /\ e.handles = m.handles /\ granted' = g
    BY <2>2
  <2>7. Memory' = e
    BY DEF Memory
  <2> HIDE DEF m, g, e
  <2>8. (Sound(e, g) <=> Sound(m, g)) /\ LostIn(e, g) = LostIn(m, g)
    BY <2>6, SameTables
  <2> QED
    BY <2>1, <2>4, <2>5, <2>6, <2>7, <2>8 DEF AllocInvariant, Placed
<1>4. CASE UNCHANGED allocVars
  <2>1. Memory' = Memory /\ granted' = granted /\ leaked' = leaked /\ misplaced' = misplaced
    BY <1>4 DEF allocVars, Memory
  <2> QED
    BY <2>1 DEF AllocInvariant
<1> QED
  BY <1>1, <1>2, <1>3, <1>4 DEF AllocNext

(* What the invariant says to an application.                              *)
LEMMA AllocIsIntact == AllocInvariant => AllocationsIntact
<1> SUFFICES ASSUME AllocInvariant PROVE AllocationsIntact
  OBVIOUS
<1>1. misplaced # 1
  BY DEF AllocInvariant
<1>2. ASSUME misplaced = Placed
      PROVE  /\ \A x \in InUse :
                  /\ Chain(blockFlags, handles[x]) = Own(x)
                  /\ Own(x) \subseteq UsedBlocks(blockFlags)
                  /\ \A b \in Own(x) : heap[b] = <<x, b - handles[x]>>
                  /\ \A y \in InUse : x # y => Own(x) \cap Own(y) = {}
             /\ Mem_TotalFreeBlocks + leaked + Cardinality(UNION {Own(x) : x \in InUse}) = NUM_BLOCKS
             /\ \A x \in Handles : granted[x] = 0 <=> handles[x] = NULL
  <2> DEFINE m == Memory
             A == UNION {Own(x) : x \in InUse}
             L == LostIn(m, granted)
             F == FreeBlocks(blockFlags)
             U == UsedBlocks(blockFlags)
  <2>1. Sound(m, granted) /\ Cardinality(L) = leaked
    BY <1>2 DEF AllocInvariant
  <2>2. m.flags = blockFlags /\ m.heap = heap /\ m.handles = handles
    BY DEF Memory
  <2>3. LiveIn(m) = InUse /\ \A x : OwnIn(m, granted, x) = Own(x)
    BY <2>2 DEF LiveIn, InUse, OwnIn, Own
  <2>4. AllottedIn(m, granted) = A
    BY <2>3 DEF AllottedIn
  <2> HIDE DEF m
  <2>5. ASSUME NEW x \in InUse
        PROVE  /\ Chain(blockFlags, handles[x]) = Own(x)
               /\ Own(x) \subseteq U
               /\ \A b \in Own(x) : heap[b] = <<x, b - handles[x]>>
               /\ \A y \in InUse : x # y => Own(x) \cap Own(y) = {}
    <3>1. x \in LiveIn(m)
      BY <2>3
    <3>2. Chain(blockFlags, handles[x]) = Own(x)
      BY <2>1, <2>2, <2>3, <3>1, ChainIsOwn
    <3>3. /\ Holds(m, granted, x) /\ OwnIn(m, granted, x) \subseteq UsedBlocks(m.flags)
          /\ \A y \in LiveIn(m) : x # y => OwnIn(m, granted, x) \cap OwnIn(m, granted, y) = {}
      BY <2>1, <3>1, OwnBlocks
    <3>4. \A b \in Own(x) : heap[b] = <<x, b - handles[x]>>
      BY <2>2, <2>3, <3>3 DEF Holds
    <3> QED
      BY <2>2, <2>3, <3>2, <3>3, <3>4
  <2>6. Cardinality(F) + leaked + Cardinality(A) = NUM_BLOCKS
    <3>1. L = U \ A /\ U \subseteq Blocks /\ F = Blocks \ U
      BY <2>2, <2>4 DEF LostIn, UsedBlocks, FreeBlocks
    <3>2. A \subseteq U
      BY <2>5
    <3> HIDE DEF A, L, F, U
    <3>3. /\ IsFiniteSet(A) /\ IsFiniteSet(L) /\ IsFiniteSet(F) /\ IsFiniteSet(U)
      <4>1. A \in SUBSET Blocks /\ L \in SUBSET Blocks /\ F \in SUBSET Blocks /\ U \in SUBSET Blocks
        BY <3>1, <3>2
      <4> QED
        BY <4>1, BlocksFinite, FS_Subset
    <3>4. L \cap A = {} /\ L \cup A = U /\ F \cap U = {} /\ F \cup U = Blocks
      BY <3>1, <3>2
    <3>5. Cardinality(U) = Cardinality(L) + Cardinality(A)
      BY <3>3, <3>4, BothTogether
    <3>6. Cardinality(Blocks) = Cardinality(F) + Cardinality(U)
      BY <3>3, <3>4, BothTogether
    <3>7. Cardinality(F) \in Nat /\ Cardinality(A) \in Nat /\ Cardinality(L) \in Nat
      BY <3>3, FS_CardinalityType
    <3> QED
      BY <2>1, <3>5, <3>6, <3>7, BlocksFinite
  <2>7. ASSUME NEW x \in Handles PROVE granted[x] = 0 <=> handles[x] = NULL
    <3>1. IF handles[x] = NULL THEN granted[x] = 0 ELSE Holds(m, granted, x)
      BY <2>1, <2>2 DEF Sound
    <3>2. Holds(m, granted, x) => granted[x] > 0
      BY DEF Holds
    <3> QED
      BY <3>1, <3>2
  <2> QED
    BY <2>5, <2>6, <2>7 DEF Mem_TotalFreeBlocks
<1> QED
  BY <1>1, <1>2 DEF AllocationsIntact

-----------------------------------------------------------------------------
(*  HIDParser: the parser of report descriptors.                           *)

(* The declaration grows by one main item at a time.                       *)
Follows(s, items) ==
  s = [d \in 0 .. Len(items) |-> IF d = 0 THEN NothingDeclared ELSE With(s[d - 1], items[d])]

LEMMA FollowsExists ==
  ASSUME NEW n \in Nat, NEW items, Len(items) = n
  PROVE  \E s : Follows(s, items)
<1> DEFINE F(s, k) == s = [d \in 0 .. k |-> IF d = 0 THEN NothingDeclared ELSE With(s[d - 1], items[d])]
           T == {k \in 0 .. n : \E s : F(s, k)}
<1>1. 0 \in T
  <2> DEFINE t == [d \in 0 .. 0 |-> NothingDeclared]
  <2>1. F(t, 0)
    OBVIOUS
  <2>2. \E s : F(s, 0)
    BY <2>1
  <2> HIDE DEF F
  <2> QED
    BY <2>2
<1>2. ASSUME NEW k \in 1 .. n, k - 1 \in T PROVE k \in T
  <2>1. PICK s : F(s, k - 1)
    BY <1>2
  <2> DEFINE t == [d \in 0 .. k |-> IF d = k THEN With(s[k - 1], items[k]) ELSE s[d]]
  <2>2. ASSUME NEW d \in 0 .. k PROVE t[d] = IF d = 0 THEN NothingDeclared ELSE With(t[d - 1], items[d])
    <3>1. CASE d = k
      <4>1. t[d] = With(s[k - 1], items[k]) /\ d # 0 /\ k - 1 \in 0 .. k /\ k - 1 # k
        BY <3>1
      <4>2. t[k - 1] = s[k - 1]
        BY <4>1
      <4> QED
        BY <3>1, <4>1, <4>2
    <3>2. CASE d # k
      <4>1. d \in 0 .. k - 1 /\ t[d] = s[d]
        BY <3>2
      <4>2. s[d] = IF d = 0 THEN NothingDeclared ELSE With(s[d - 1], items[d])
        BY <2>1, <4>1
      <4>3. d # 0 => d - 1 \in 0 .. k /\ d - 1 # k
        BY <4>1
      <4>4. d # 0 => t[d - 1] = s[d - 1]
        BY <4>3
      <4> QED
        BY <4>1, <4>2, <4>4
    <3> QED
      BY <3>1, <3>2
  <2>3. t = [d \in 0 .. k |-> t[d]]
    OBVIOUS
  <2> HIDE DEF t
  <2>4. F(t, k)
    BY <2>2, <2>3
  <2> QED
    BY <2>4
<1>3. n \in T
  <2> HIDE DEF T
  <2>1. \A k \in 0 .. n : k \in T
    BY <1>1, <1>2, UpTo
  <2> QED
    BY <2>1
<1> QED
  BY <1>3 DEF Follows

LEMMA FollowsAlike ==
  ASSUME NEW n \in Nat, NEW items, NEW more, Len(items) = n, Len(more) \in Nat, n <= Len(more),
         \A i \in 1 .. n : more[i] = items[i],
         NEW s, Follows(s, items), NEW t, Follows(t, more)
  PROVE  \A k \in 0 .. n : t[k] = s[k]
<1> DEFINE T == {k \in 0 .. n : t[k] = s[k]}
<1>1. /\ \A d \in 0 .. n : s[d] = IF d = 0 THEN NothingDeclared ELSE With(s[d - 1], items[d])
      /\ \A d \in 0 .. n : t[d] = IF d = 0 THEN NothingDeclared ELSE With(t[d - 1], more[d])
  <2>1. \A d \in 0 .. n : d \in 0 .. Len(more)
    OBVIOUS
  <2>2. s = [d \in 0 .. n |-> IF d = 0 THEN NothingDeclared ELSE With(s[d - 1], items[d])]
    BY DEF Follows
  <2>3. t = [d \in 0 .. Len(more) |-> IF d = 0 THEN NothingDeclared ELSE With(t[d - 1], more[d])]
    BY DEF Follows
  <2>4. \A d \in 0 .. n : s[d] = IF d = 0 THEN NothingDeclared ELSE With(s[d - 1], items[d])
    BY <2>2
  <2>5. \A d \in 0 .. Len(more) : t[d] = IF d = 0 THEN NothingDeclared ELSE With(t[d - 1], more[d])
    BY <2>3
  <2> QED
    BY <2>1, <2>4, <2>5
<1>2. 0 \in T
  BY <1>1
<1>3. ASSUME NEW k \in 1 .. n, k - 1 \in T PROVE k \in T
  <2>1. k \in 0 .. n /\ k # 0 /\ t[k - 1] = s[k - 1] /\ more[k] = items[k]
    BY <1>3
  <2> QED
    BY <1>1, <2>1
<1>4. \A k \in 0 .. n : k \in T
  <2> HIDE DEF T
  <2> QED
    BY <1>2, <1>3, UpTo
<1> QED
  BY <1>4

LEMMA DeclaredFollows ==
  ASSUME NEW S, NEW items \in Seq(S)
  PROVE  \E s : Follows(s, items) /\ Declared(items) = s[Len(items)]
<1> DEFINE after == CHOOSE s : Follows(s, items)
<1>1. Len(items) \in Nat
  OBVIOUS
<1>2. Follows(after, items)
  BY <1>1, FollowsExists
<1>3. Declared(items) = after[Len(items)]
  BY DEF Declared, Follows
<1> QED
  BY <1>2, <1>3

LEMMA DeclaredGrows ==
  /\ Declared(<<>>) = NothingDeclared
  /\ \A S : \A items \in Seq(S), m \in S : Declared(Append(items, m)) = With(Declared(items), m)
<1>1. Declared(<<>>) = NothingDeclared
  <2>1. <<>> \in Seq(Nat) /\ Len(<<>>) = 0
    OBVIOUS
  <2>2. PICK s : Follows(s, <<>>) /\ Declared(<<>>) = s[Len(<<>>)]
    BY <2>1, DeclaredFollows
  <2> QED
    BY <2>1, <2>2 DEF Follows
<1>2. ASSUME NEW S, NEW items \in Seq(S), NEW m \in S
      PROVE  Declared(Append(items, m)) = With(Declared(items), m)
  <2> DEFINE n == Len(items)
             more == Append(items, m)
  <2>1. /\ n \in Nat /\ more \in Seq(S) /\ Len(more) = n + 1
        /\ more[n + 1] = m /\ \A i \in 1 .. n : more[i] = items[i]
    OBVIOUS
  <2>2. PICK s : Follows(s, items) /\ Declared(items) = s[n]
    BY DeclaredFollows
  <2> HIDE DEF more
  <2>3. PICK t : Follows(t, more) /\ Declared(more) = t[n + 1]
    BY <2>1, DeclaredFollows
  <2> HIDE DEF n
  <2>4. \A k \in 0 .. n : t[k] = s[k]
    <3>1. Len(items) = n /\ n <= Len(more) /\ Len(more) \in Nat
      BY <2>1 DEF n
    <3> QED
      BY <2>1, <2>2, <2>3, <3>1, FollowsAlike
  <2>5. t[n + 1] = With(t[n], more[n + 1])
    <3>1. n + 1 \in 0 .. n + 1 /\ n + 1 # 0 /\ (n + 1) - 1 = n
      BY <2>1
    <3>2. t[n + 1] = IF n + 1 = 0 THEN NothingDeclared ELSE With(t[(n + 1) - 1], more[n + 1])
      BY <2>1, <2>3, <3>1 DEF Follows
    <3> QED
      BY <3>1, <3>2
  <2>6. n \in 0 .. n
    BY <2>1
  <2> QED
    BY <2>1, <2>2, <2>3, <2>4, <2>5, <2>6 DEF more
<1> QED
  BY <1>1, <1>2

-----------------------------------------------------------------------------
(* A value that is put into a report is read from it.                      *)

LEMMA NoID == \A id \in 0 .. 255 : IDByte(id) \subseteq 0 .. 7 /\ (id = 0 => IDByte(id) = {})
<1> DEFINE Power(k) == 2 ^ k
           bit(id, k) == (id \div Power(k)) % 2
<1>1. ASSUME NEW k \in 0 .. 7 PROVE bit(0, k) = 0
  <2>1. /\ Power(0) = 1 /\ Power(1) = 2 /\ Power(2) = 4 /\ Power(3) = 8
        /\ Power(4) = 16 /\ Power(5) = 32 /\ Power(6) = 64 /\ Power(7) = 128
    OBVIOUS
  <2> HIDE DEF Power
  <2>2. Power(k) \in {1, 2, 4, 8, 16, 32, 64, 128}
    BY <2>1
  <2>3. /\ 0 \div 1 = 0 /\ 0 \div 2 = 0 /\ 0 \div 4 = 0 /\ 0 \div 8 = 0
        /\ 0 \div 16 = 0 /\ 0 \div 32 = 0 /\ 0 \div 64 = 0 /\ 0 \div 128 = 0 /\ 0 % 2 = 0
    OBVIOUS
  <2> QED
    BY <2>2, <2>3
<1>2. Bits(8) = 0 .. 7
  BY DEF Bits
<1>3. \A id : IDByte(id) = {k \in 0 .. 7 : bit(id, k) = 1}
  BY <1>2 DEF IDByte
<1> HIDE DEF bit
<1>4. \A k \in 0 .. 7 : ~(bit(0, k) = 1)
  BY <1>1
<1>5. IDByte(0) = {}
  BY <1>3, <1>4
<1> QED
  BY <1>3, <1>5

LEMMA PutAndGot ==
  ASSUME NEW item, item.BitOffset \in Nat, item.BitSize \in Nat, item.ReportID \in 0 .. 255,
         item.BitOffset % 8 = 0, item.BitSize <= 8, NEW v \in SUBSET Bits(item.BitSize)
  PROVE  GetReportItemInfo(SetReportItemInfo({}, item, v), item) = v
<1> DEFINE o == item.BitOffset
           n == item.BitSize
           p == IDBits(item)
           id == IDByte(item.ReportID)
           W == {p + 8 * ((o + k) \div 8) + k : k \in {j \in Bits(n) : j < 8 /\ (o + j) % 8 \in v}}
           V == {p + o + k : k \in v}
           report == SetReportItemInfo({}, item, v)
<1>1. p \in {0, 8} /\ id \subseteq 0 .. 7 /\ (p = 0 => id = {})
  BY NoID DEF IDBits
<1>2. v \subseteq 0 .. 7 /\ Bits(n) \subseteq 0 .. 7 /\ v \subseteq Bits(n)
  BY DEF Bits
<1>3. \A k \in 0 .. 7 : (o + k) % 8 = k /\ 8 * ((o + k) \div 8) = o
  OBVIOUS
<1>4. report = ({} \ Bits(p)) \cup id \cup W
  BY DEF SetReportItemInfo
<1>5. p > 0 /\ report \cap Bits(8) # id => GetReportItemInfo(report, item) = {}
  BY DEF GetReportItemInfo
<1>6. ~(p > 0 /\ report \cap Bits(8) # id) =>
        GetReportItemInfo(report, item) = {k \in Bits(n) : p + o + k \in report}
  BY DEF GetReportItemInfo
<1>7. o \in Nat
  OBVIOUS
<1>8. Bits(8) = 0 .. 7
  BY DEF Bits
<1> HIDE DEF o, n, p, id, report
<1>9. {j \in Bits(n) : j < 8 /\ (o + j) % 8 \in v} = v
  <2> DEFINE goes(j) == j < 8 /\ (o + j) % 8 \in v
  <2>1. ASSUME NEW j \in 0 .. 7 PROVE goes(j) <=> j \in v
    <3>1. (o + j) % 8 = j /\ j < 8
      BY ONLY <1>3, j \in 0 .. 7
    <3> QED
      BY ONLY <3>1
  <2> HIDE DEF goes
  <2>2. v \subseteq 0 .. 7 /\ Bits(n) \subseteq 0 .. 7 /\ v \subseteq Bits(n)
    BY <1>2, Zenon
  <2>3. {j \in Bits(n) : goes(j)} = v
    BY ONLY <2>1, <2>2, Zenon
  <2> QED
    BY ONLY <2>3, Zenon DEF goes
<1>10. W = V
  BY <1>2, <1>3, <1>9
<1> HIDE DEF W
<1>11. report = id \cup V
  BY <1>4, <1>10
<1>12. \A k \in 0 .. 7 : p + o + k \in id => p = 0
  BY <1>1, <1>7
<1>13. \A k \in 0 .. 7 : p + o + k \in V <=> k \in v
  BY <1>1, <1>2, <1>7
<1>14. p > 0 => report \cap Bits(8) = id
  <2>1. p = 8 => \A b \in V : b \notin 0 .. 7
    BY <1>2, <1>7
  <2>2. p > 0 => \A b \in V : b \notin Bits(8)
    BY <1>1, <1>8, <2>1
  <2>3. id \subseteq Bits(8)
    BY <1>1, <1>8
  <2> QED
    BY <1>11, <2>2, <2>3
<1>15. GetReportItemInfo(report, item) = {k \in Bits(n) : p + o + k \in report}
  BY <1>6, <1>14
<1>16. \A k \in Bits(n) : p + o + k \in report <=> k \in v
  BY <1>1, <1>2, <1>11, <1>12, <1>13
<1>17. GetReportItemInfo(report, item) = v
  BY <1>2, <1>15, <1>16
<1> QED
  BY <1>17 DEF report

-----------------------------------------------------------------------------
Entries == [Attributes : Nat, BitSize : Nat, ReportCount : Nat, ReportID : Reports, MinMax : Nat]
Paths   == [Attributes : Nat, Usage : Nat, Parent : {NoPath, 0, 2}]
Fields  == [Attributes : Nat, MinMax : Nat, BitSize : Nat, ReportID : Reports,
            ItemType : ItemTypes, CollectionPath : {NoPath, 0, 2}, Usage : Nat, BitOffset : Nat]
MainItems == [table : Entries, usages : Seq(Nat), open : Seq(Nat), type : ItemTypes, constant : BOOLEAN]
Collections == [depth : Nat \ {0}, name : [Attributes : Nat, Usage : Nat]]
DeclaredFields == [Attributes : Nat, MinMax : Nat, BitSize : Nat, ReportID : Reports,
                   ItemType : ItemTypes, Usage : Nat, BitOffset : Nat, within : Seq(Nat)]

HidTypeOK ==
  /\ table \in Entries
  /\ usageStack \in Seq(Nat)
  /\ bitOffset \in [ItemTypes -> Nat]
  /\ reportItems \in Seq(Fields)
  /\ collectionPaths \in [Slots -> Paths] /\ collectionPath \in {NoPath, 0, 2}
  /\ mainItems \in Seq(MainItems)
  /\ begun \in Seq(Collections) /\ open \in Seq(Nat)

(* Collections within one another, of those that b has begun.              *)
Nested(w, b) ==
  /\ w \in Seq(Nat)
  /\ \A j \in 1 .. Len(w) : w[j] \in 1 .. Len(b) /\ b[w[j]].depth = j

SlotOf(depth) == IF depth = 0 THEN NoPath ELSE IF depth = 1 THEN 0 ELSE 2

ShallowIn(b)        == \A c \in 1 .. Len(b) : b[c].depth <= 2
KeptIn(c, b)        == \A d \in 1 .. Len(b) : d > c => b[d].depth # b[c].depth
NameOf(path)        == [Attributes |-> path.Attributes, Usage |-> path.Usage]
OnlyIn(t, id, items) == \A i \in 1 .. Len(items) : items[i].type = t => items[i].table.ReportID = id

(* The slot of a depth holds the last collection begun there.              *)
SlotsHold(paths, b) ==
  \A c \in 1 .. Len(b) :
    /\ b[c].depth = 2 => paths[2].Parent = 0
    /\ KeptIn(c, b) => NameOf(paths[SlotOf(b[c].depth)]) = b[c].name

PathsKnown ==
  /\ Nested(open, begun) /\ \A j \in 1 .. Len(open) : KeptIn(open[j], begun)
  /\ collectionPaths[0].Parent = NoPath
  /\ ShallowIn(begun) => /\ collectionPath = SlotOf(Len(open))
                         /\ SlotsHold(collectionPaths, begun)

Same(item, f, items, b) ==
  /\ item.Attributes = f.Attributes /\ item.MinMax = f.MinMax
  /\ item.BitSize = f.BitSize /\ item.Usage = f.Usage
  /\ item.ReportID = f.ReportID /\ item.ItemType = f.ItemType
  /\ OnlyIn(item.ItemType, item.ReportID, items) => item.BitOffset = f.BitOffset
  /\ Nested(f.within, b)
  /\ ShallowIn(b) => item.CollectionPath = SlotOf(Len(f.within))

(* What is recorded is what is declared; and while a type has one report,  *)
(* its offset is the room declared in that report, in 16 bits.             *)
Recorded ==
  LET r == Declared(mainItems)
  IN /\ r.room \in [ItemTypes \X Reports -> Nat] /\ r.fields \in Seq(DeclaredFields)
     /\ Len(reportItems) <= HID_MAX_REPORTITEMS
     /\ IF parsed = "InsufficientReportItems"
        THEN Len(reportItems) = HID_MAX_REPORTITEMS /\ Len(r.fields) >= HID_MAX_REPORTITEMS
        ELSE Len(reportItems) = Len(r.fields)
     /\ \A i \in 1 .. Len(reportItems) : Same(reportItems[i], r.fields[i], mainItems, begun)
     /\ parsed # "InsufficientReportItems" =>
          \A t \in ItemTypes, id \in Reports :
            OnlyIn(t, id, mainItems) => bitOffset[t] = Offset16(r.room[<<t, id>>])

HidInvariant == HidTypeOK /\ PathsKnown /\ Recorded

LEMMA HidStarts == HidInit => HidInvariant
<1> SUFFICES ASSUME HidInit PROVE HidInvariant
  OBVIOUS
<1> USE DEF HidInit
<1>1. Declared(mainItems) = NothingDeclared
  BY DeclaredGrows
<1>2. HidTypeOK
  <2>1. table \in Entries
    BY DEF ClearEntry, Entries, Reports
  <2>2. collectionPaths \in [Slots -> Paths]
    BY DEF ClearPath, Paths, Slots
  <2> QED
    BY <2>1, <2>2 DEF HidTypeOK
<1>3. PathsKnown
  <2>1. collectionPaths[0].Parent = NoPath
    BY DEF Slots, ClearPath
  <2>2. Nested(open, begun) /\ Len(open) = 0 /\ Len(begun) = 0
    BY DEF Nested
  <2> QED
    BY <2>1, <2>2 DEF PathsKnown, SlotsHold, SlotOf
<1>4. Recorded
  <2>1. NothingDeclared.room = [report \in ItemTypes \X Reports |-> 0] /\ NothingDeclared.fields = <<>>
    BY DEF NothingDeclared
  <2>2. Offset16(0) = 0
    BY DEF Offset16
  <2>3. \A t \in ItemTypes, id \in Reports : NothingDeclared.room[<<t, id>>] = 0
    BY <2>1
  <2>4. /\ NothingDeclared.room \in [ItemTypes \X Reports -> Nat]
        /\ NothingDeclared.fields \in Seq(DeclaredFields) /\ Len(NothingDeclared.fields) = 0
    BY <2>1
  <2>5. /\ reportItems = <<>> /\ Len(reportItems) = 0 /\ parsed # "InsufficientReportItems"
        /\ \A t \in ItemTypes : bitOffset[t] = 0
    OBVIOUS
  <2>6. 0 <= HID_MAX_REPORTITEMS
    BY HIDParserAssumption
  <2> HIDE DEF HidInit
  <2> QED
    BY <1>1, <2>2, <2>3, <2>4, <2>5, <2>6 DEF Recorded
<1> QED
  BY <1>2, <1>3, <1>4 DEF HidInvariant

(* A step that begins at most one collection.                              *)
MayBegin == begun' = begun \/ \E c \in Collections : begun' = Append(begun, c)

LEMMA Growing ==
  ASSUME begun \in Seq(Collections), MayBegin
  PROVE  /\ begun' \in Seq(Collections)
         /\ ShallowIn(begun') => ShallowIn(begun)
         /\ \A w : Nested(w, begun) => Nested(w, begun')
<1>1. /\ begun' \in Seq(Collections) /\ Len(begun) \in Nat /\ Len(begun') \in Nat
      /\ Len(begun) <= Len(begun') /\ \A c \in 1 .. Len(begun) : begun'[c] = begun[c]
  BY DEF MayBegin
<1>2. \A c \in 1 .. Len(begun) : c \in 1 .. Len(begun')
  BY <1>1
<1>4. ShallowIn(begun') => ShallowIn(begun)
  BY <1>1, <1>2 DEF ShallowIn
<1>5. ASSUME NEW w, Nested(w, begun) PROVE Nested(w, begun')
  BY <1>1, <1>2, <1>5 DEF Nested
<1> QED
  BY <1>1, <1>4, <1>5

(* A step that records nothing.                                            *)
LEMMA NothingRecorded ==
  ASSUME HidTypeOK, Recorded, parsed # "InsufficientReportItems", parsed' # "InsufficientReportItems",
         UNCHANGED <<mainItems, reportItems, bitOffset>>, MayBegin
  PROVE  Recorded'
<1> DEFINE r == Declared(mainItems)
<1>1. begun \in Seq(Collections)
  BY DEF HidTypeOK
<1>2. /\ ShallowIn(begun') => ShallowIn(begun)
      /\ \A w : Nested(w, begun) => Nested(w, begun')
  BY <1>1, Growing
<1>3. r' = r /\ mainItems' = mainItems /\ reportItems' = reportItems
  OBVIOUS
<1>4. ASSUME NEW i \in 1 .. Len(reportItems) PROVE Same(reportItems'[i], r'.fields[i], mainItems', begun')
  <2>1. Same(reportItems[i], r.fields[i], mainItems, begun)
    BY DEF Recorded
  <2> HIDE DEF r
  <2> QED
    BY <1>2, <1>3, <2>1 DEF Same
<1> QED
  BY <1>3, <1>4 DEF Recorded

LEMMA SamePaths ==
  ASSUME PathsKnown, UNCHANGED <<collectionPaths, collectionPath, begun, open>>
  PROVE  PathsKnown'
BY DEF PathsKnown

LEMMA InBytes == /\ Usages \subseteq 0 .. 255 /\ Attributes \subseteq 0 .. 255 /\ BitSizes \subseteq 0 .. 255
                 /\ ReportCounts \subseteq 0 .. 255 /\ ReportIDs \subseteq 0 .. 255
                 /\ Reports \subseteq 0 .. 255
  BY HIDParserAssumption DEF Reports

LEMMA ReturnsStep ==
  ASSUME HidInvariant, parsed = "Parsing", NEW code, code # "InsufficientReportItems", Returns(code)
  PROVE  HidInvariant'
<1>1. /\ UNCHANGED <<table, usageStack, bitOffset, reportItems, collectionPaths,
                     collectionPath, mainItems, begun, open>>
      /\ parsed' # "InsufficientReportItems" /\ parsed # "InsufficientReportItems"
  BY DEF Returns
<1>2. HidTypeOK' /\ PathsKnown'
  BY <1>1, SamePaths DEF HidInvariant, HidTypeOK
<1>3. Recorded'
  BY <1>1, NothingRecorded DEF HidInvariant, MayBegin
<1> QED
  BY <1>2, <1>3 DEF HidInvariant

LEMMA FirstUsageType == HidTypeOK => FirstUsage \in Nat
<1> SUFFICES ASSUME HidTypeOK PROVE FirstUsage \in Nat
  OBVIOUS
<1>1. usageStack \in Seq(Nat)
  BY DEF HidTypeOK
<1>2. usageStack # <<>> => Head(usageStack) \in Nat
  BY <1>1
<1> QED
  BY <1>2 DEF FirstUsage

LEMMA LocalStep ==
  ASSUME HidInvariant, GlobalItem \/ UsageItem \/ UsageRange
  PROVE  HidInvariant'
<1>1. parsed = "Parsing"
  BY DEF GlobalItem, UsageItem, UsageRange, NextItem
<1>2. HidTypeOK /\ PathsKnown /\ Recorded
  BY DEF HidInvariant
<1>3. CASE UsageItem /\ Len(usageStack) = HID_USAGE_STACK_DEPTH /\ Returns("UsageStackOverflow")
  BY <1>1, <1>3, ReturnsStep
<1>4. CASE /\ table' \in Entries /\ usageStack' \in Seq(Nat)
           /\ UNCHANGED <<parsed, bitOffset, reportItems, collectionPaths, collectionPath,
                          mainItems, begun, open>>
  <2>1. HidTypeOK' /\ PathsKnown'
    BY <1>2, <1>4, SamePaths DEF HidTypeOK
  <2>2. Recorded'
    BY <1>1, <1>2, <1>4, NothingRecorded DEF MayBegin
  <2> QED
    BY <2>1, <2>2 DEF HidInvariant
<1>5. CASE GlobalItem
  <2>1. PICK g \in Globals :
          \E v \in CASE g = "Attributes"  -> Attributes
                     [] g = "BitSize"     -> BitSizes
                     [] g = "ReportCount" -> ReportCounts
                     [] g = "ReportID"    -> ReportIDs :
            table' = [table EXCEPT ![g] = v]
    BY <1>5 DEF GlobalItem
  <2>2. PICK v : /\ g = "Attributes" => v \in Attributes
                 /\ g = "BitSize" => v \in BitSizes
                 /\ g = "ReportCount" => v \in ReportCounts
                 /\ g = "ReportID" => v \in ReportIDs
                 /\ table' = [table EXCEPT ![g] = v]
    BY <2>1
  <2>3. v \in 0 .. 255
    BY <2>2, InBytes DEF Globals
  <2>4. table \in Entries
    BY <1>2 DEF HidTypeOK
  <2>5. g = "Attributes" \/ g = "BitSize" \/ g = "ReportCount" \/ g = "ReportID"
    BY DEF Globals
  <2>6. g = "Attributes" => table' \in Entries
    BY <2>2, <2>3, <2>4 DEF Entries
  <2>7. g = "BitSize" => table' \in Entries
    BY <2>2, <2>3, <2>4 DEF Entries
  <2>8. g = "ReportCount" => table' \in Entries
    BY <2>2, <2>3, <2>4 DEF Entries
  <2>9. g = "ReportID" => table' \in Entries
    BY <2>2, <2>4 DEF Entries, Reports
  <2>10. usageStack' \in Seq(Nat)
    BY <1>2, <1>5 DEF GlobalItem, HidTypeOK
  <2> QED
    BY <1>4, <1>5, <2>5, <2>6, <2>7, <2>8, <2>9, <2>10 DEF GlobalItem
<1>6. CASE UsageItem /\ ~(Len(usageStack) = HID_USAGE_STACK_DEPTH /\ Returns("UsageStackOverflow"))
  <2>1. PICK u \in Usages : usageStack' = Append(usageStack, u)
    BY <1>6 DEF UsageItem
  <2>2. u \in Nat
    BY InBytes
  <2>3. usageStack' \in Seq(Nat)
    BY <1>2, <2>1, <2>2 DEF HidTypeOK
  <2>4. table' \in Entries
    BY <1>2, <1>6 DEF UsageItem, HidTypeOK
  <2> QED
    BY <1>4, <1>6, <2>3, <2>4 DEF UsageItem
<1>7. CASE UsageRange
  <2>1. PICK u \in Usages : table' = [table EXCEPT !.MinMax = u]
    BY <1>7 DEF UsageRange
  <2>2. u \in Nat
    BY InBytes
  <2>3. table' \in Entries
    BY <1>2, <2>1, <2>2 DEF HidTypeOK, Entries
  <2>4. usageStack' \in Seq(Nat)
    BY <1>2, <1>7 DEF UsageRange, HidTypeOK
  <2> QED
    BY <1>4, <1>7, <2>3, <2>4 DEF UsageRange
<1> QED
  BY <1>3, <1>5, <1>6, <1>7

LEMMA SmallNumbers ==
  \A n \in Nat : /\ n <= 2 => n = 0 \/ n = 1 \/ n = 2
                 /\ n > 0 => /\ n - 1 \in Nat /\ n - 1 \in Int /\ (n - 1) - 1 + 1 = n - 1
                             /\ 1 <= n - 1 \/ n - 1 = 0
  OBVIOUS

LEMMA EndOfMainType ==
  ASSUME HidTypeOK, EndOfMain
  PROVE  table' \in Entries /\ usageStack' \in Seq(Nat)
<1>1. table \in Entries /\ table' = [table EXCEPT !.MinMax = 0] /\ usageStack' = <<>>
  BY DEF HidTypeOK, EndOfMain
<1>2. table' \in Entries
  BY <1>1 DEF Entries
<1> QED
  BY <1>1, <1>2

LEMMA CollectionStep ==
  ASSUME HidInvariant, Collection
  PROVE  HidInvariant'
<1> DEFINE slot == IF collectionPath = NoPath THEN 0 ELSE 2
           u == FirstUsage
           path == [Attributes |-> table.Attributes, Usage |-> u,
                    Parent |-> IF slot = 0 THEN collectionPaths[slot].Parent ELSE collectionPath]
           n == Len(open)
           b == Len(begun)
           new == [depth |-> n + 1, name |-> [Attributes |-> table.Attributes, Usage |-> u]]
<1>1. HidTypeOK /\ PathsKnown /\ Recorded
  BY DEF HidInvariant
<1>2. /\ parsed = "Parsing" /\ collectionPath' = slot
      /\ collectionPaths' = [collectionPaths EXCEPT ![slot] = path]
      /\ begun' = Append(begun, new)
      /\ open' = Append(open, b + 1)
      /\ EndOfMain
      /\ UNCHANGED <<parsed, bitOffset, reportItems, mainItems>>
  BY DEF Collection, NextItem
<1>3. u \in Nat
  BY <1>1, FirstUsageType
<1>4. slot \in Slots /\ slot \in {NoPath, 0, 2}
  BY DEF Slots
<1>5. path \in Paths
  BY <1>1, <1>3, <1>4 DEF HidTypeOK, Entries, Paths
<1>6. /\ open \in Seq(Nat) /\ n \in Nat /\ begun \in Seq(Collections) /\ b \in Nat
      /\ collectionPaths \in [Slots -> Paths]
  BY <1>1 DEF HidTypeOK
<1>7. new \in Collections
  BY <1>1, <1>3, <1>6 DEF HidTypeOK, Entries, Collections
<1>8. /\ path.Parent = IF slot = 0 THEN collectionPaths[slot].Parent ELSE collectionPath
      /\ NameOf(path) = new.name /\ new.depth = n + 1
  BY DEF NameOf
<1> HIDE DEF u, path, new, n, b
<1>9. /\ open' \in Seq(Nat) /\ Len(open') = n + 1 /\ open'[n + 1] = b + 1
      /\ \A i \in 1 .. n : open'[i] = open[i]
  BY <1>2, <1>6 DEF n
<1>10. /\ begun' \in Seq(Collections) /\ Len(begun') = b + 1 /\ begun'[b + 1] = new
       /\ \A c \in 1 .. b : begun'[c] = begun[c]
  BY <1>2, <1>6, <1>7 DEF b
<1>11. /\ collectionPaths' \in [Slots -> Paths] /\ collectionPaths'[slot] = path
       /\ \A s \in Slots : s # slot => collectionPaths'[s] = collectionPaths[s]
  BY <1>2, <1>4, <1>5, <1>6
<1>12. MayBegin
  BY <1>2, <1>7 DEF MayBegin
<1>13. HidTypeOK'
  <2>1. table' \in Entries /\ usageStack' \in Seq(Nat)
    BY <1>1, <1>2, EndOfMainType
  <2>2. /\ bitOffset' \in [ItemTypes -> Nat] /\ reportItems' \in Seq(Fields)
        /\ mainItems' \in Seq(MainItems)
    BY <1>1, <1>2 DEF HidTypeOK
  <2>3. collectionPath' \in {NoPath, 0, 2}
    BY <1>2, <1>4
  <2> QED
    BY <1>9, <1>10, <1>11, <2>1, <2>2, <2>3 DEF HidTypeOK
<1>14. Recorded'
  BY <1>1, <1>2, <1>12, NothingRecorded
<1>15. Nested(open, begun) /\ Nested(open, begun')
  BY <1>1, <1>6, <1>12, Growing DEF PathsKnown
<1>16. Nested(open', begun')
  <2>1. ASSUME NEW j \in 1 .. n + 1 PROVE open'[j] \in 1 .. b + 1 /\ begun'[open'[j]].depth = j
    <3>1. CASE j = n + 1
      BY <1>6, <1>8, <1>9, <1>10, <3>1
    <3>2. CASE j # n + 1
      <4>1. j \in 1 .. n
        BY <1>6, <3>2
      <4>2. open[j] \in 1 .. Len(begun') /\ begun'[open[j]].depth = j
        BY <1>15, <4>1 DEF Nested, n
      <4> QED
        BY <1>9, <1>10, <4>1, <4>2
    <3> QED
      BY <3>1, <3>2
  <2> QED
    BY <1>9, <1>10, <2>1 DEF Nested
<1>17. /\ \A d \in 1 .. b + 1 : d \in 1 .. b \/ d = b + 1
       /\ \A d \in 1 .. b : d \in 1 .. b + 1 /\ b + 1 > d
       /\ b + 1 \in 1 .. b + 1 /\ ~(b + 1 > b + 1) /\ \A d \in 1 .. b : ~(d > b + 1)
  BY <1>6
<1>18. ASSUME NEW c \in 1 .. b
       PROVE  KeptIn(c, begun') <=> KeptIn(c, begun) /\ begun[c].depth # n + 1
  <2>1. KeptIn(c, begun') <=> \A d \in 1 .. b + 1 : d > c => begun'[d].depth # begun'[c].depth
    BY <1>10 DEF KeptIn
  <2>2. KeptIn(c, begun) <=> \A d \in 1 .. b : d > c => begun[d].depth # begun[c].depth
    BY DEF KeptIn, b
  <2> QED
    BY <1>8, <1>10, <1>17, <2>1, <2>2
<1>19. \A j \in 1 .. n + 1 : KeptIn(open'[j], begun')
  <2> SUFFICES ASSUME NEW j \in 1 .. n + 1 PROVE KeptIn(open'[j], begun')
    OBVIOUS
  <2>1. CASE j = n + 1
    BY <1>9, <1>10, <1>17, <2>1 DEF KeptIn
  <2>2. CASE j # n + 1
    <3>1. j \in 1 .. n
      BY <1>6, <2>2
    <3>2. /\ open[j] \in 1 .. b /\ begun[open[j]].depth = j /\ KeptIn(open[j], begun)
          /\ open'[j] = open[j]
      BY <1>1, <1>9, <3>1 DEF PathsKnown, Nested, n, b
    <3> QED
      BY <1>18, <2>2, <3>2
  <2> QED
    BY <2>1, <2>2
<1>20. collectionPaths[0].Parent = NoPath /\ collectionPaths'[0].Parent = NoPath
  <2>1. collectionPaths[0].Parent = NoPath /\ 0 \in Slots
    BY <1>1 DEF PathsKnown, Slots
  <2>2. CASE slot = 0
    BY <1>8, <1>11, <2>1, <2>2
  <2>3. CASE slot # 0
    BY <1>11, <2>1, <2>3
  <2> QED
    BY <2>1, <2>2, <2>3
<1>21. ASSUME ShallowIn(begun')
       PROVE  collectionPath' = SlotOf(Len(open')) /\ SlotsHold(collectionPaths', begun')
  <2>1. n = 0 \/ n = 1
    <3>1. new.depth <= 2
      BY <1>10, <1>17, <1>21 DEF ShallowIn
    <3> QED
      BY <1>6, <1>8, <3>1
  <2>2. ShallowIn(begun)
    BY <1>6, <1>12, <1>21, Growing
  <2>3. collectionPath = SlotOf(n) /\ SlotsHold(collectionPaths, begun)
    BY <1>1, <2>2 DEF PathsKnown, n
  <2>4. slot = SlotOf(n + 1)
    BY <2>1, <2>3 DEF SlotOf, NoPath
  <2>5. \A c \in 1 .. b : begun[c].depth = 1 \/ begun[c].depth = 2
    <3>1. \A c \in 1 .. b : begun[c] \in Collections /\ begun[c].depth <= 2
      BY <1>6, <2>2 DEF ShallowIn, b
    <3>2. \A c \in 1 .. b : begun[c].depth \in Nat /\ begun[c].depth # 0
      BY <3>1 DEF Collections
    <3> QED
      BY <3>1, <3>2, SmallNumbers
  <2>6. 0 \in Slots /\ 2 \in Slots /\ NoPath # 0 /\ NoPath # 2
    BY DEF Slots, NoPath
  <2>7. ASSUME NEW c \in 1 .. b
        PROVE  /\ begun'[c].depth = 2 => collectionPaths'[2].Parent = 0
               /\ KeptIn(c, begun') => NameOf(collectionPaths'[SlotOf(begun'[c].depth)]) = begun'[c].name
    <3>1. begun'[c] = begun[c]
      BY <1>10
    <3>2. begun[c].depth = 2 => collectionPaths'[2].Parent = 0
      <4>1. begun[c].depth = 2 => collectionPaths[2].Parent = 0
        BY <2>3 DEF SlotsHold, b
      <4>2. CASE n = 0
        BY <1>11, <2>4, <2>6, <4>1, <4>2 DEF SlotOf
      <4>3. CASE n = 1
        BY <1>8, <1>11, <2>3, <2>4, <4>3 DEF SlotOf
      <4> QED
        BY <2>1, <4>2, <4>3
    <3>3. ASSUME KeptIn(c, begun')
          PROVE  NameOf(collectionPaths'[SlotOf(begun[c].depth)]) = begun[c].name
      <4>1. KeptIn(c, begun) /\ begun[c].depth # n + 1
        BY <1>18, <3>3
      <4>2. NameOf(collectionPaths[SlotOf(begun[c].depth)]) = begun[c].name
        BY <2>3, <4>1 DEF SlotsHold, b
      <4>3. SlotOf(begun[c].depth) \in Slots /\ SlotOf(begun[c].depth) # slot
        BY <2>1, <2>4, <2>5, <2>6, <4>1 DEF SlotOf
      <4> QED
        BY <1>11, <4>2, <4>3
    <3> QED
      BY <3>1, <3>2, <3>3
  <2>8. /\ new.depth = 2 => collectionPaths'[2].Parent = 0
        /\ NameOf(collectionPaths'[SlotOf(new.depth)]) = new.name
    <3>1. n = 1 => slot = 2 /\ collectionPath = 0
      BY <2>3, <2>4 DEF SlotOf
    <3>2. new.depth = 2 => n = 1
      BY <1>6, <1>8
    <3> QED
      BY <1>8, <1>11, <2>4, <3>1, <3>2
  <2>9. SlotsHold(collectionPaths', begun')
    <3>1. /\ begun'[b + 1].depth = 2 => collectionPaths'[2].Parent = 0
          /\ NameOf(collectionPaths'[SlotOf(begun'[b + 1].depth)]) = begun'[b + 1].name
      BY <1>10, <2>8
    <3> QED
      BY <1>10, <1>17, <2>7, <3>1 DEF SlotsHold
  <2> QED
    BY <1>2, <1>9, <2>4, <2>9
<1>22. PathsKnown'
  BY <1>9, <1>16, <1>19, <1>20, <1>21 DEF PathsKnown
<1> QED
  BY <1>13, <1>14, <1>22 DEF HidInvariant

LEMMA EndCollectionStep ==
  ASSUME HidInvariant, EndCollection
  PROVE  HidInvariant'
<1> DEFINE n == Len(open)
<1>1. HidTypeOK /\ PathsKnown /\ Recorded /\ parsed = "Parsing"
  BY DEF HidInvariant, EndCollection, NextItem
<1>2. CASE Returns("UnexpectedEndCollection")
  BY <1>1, <1>2, ReturnsStep
<1>3. CASE /\ collectionPath # NoPath
           /\ collectionPath' = collectionPaths[collectionPath].Parent
           /\ open' = IF open = <<>> THEN <<>> ELSE Front(open)
           /\ EndOfMain
           /\ UNCHANGED <<parsed, bitOffset, reportItems, collectionPaths, mainItems, begun>>
  <2>1. open \in Seq(Nat) /\ n \in Nat /\ begun \in Seq(Collections)
    BY <1>1 DEF HidTypeOK
  <2>2. /\ open' \in Seq(Nat)
        /\ n = 0 => Len(open') = 0
        /\ n > 0 => Len(open') = n - 1
        /\ \A i \in 1 .. n - 1 : open'[i] = open[i]
    <3>1. CASE open = <<>>
      BY <1>3, <3>1
    <3>2. CASE open # <<>>
      <4>1. n > 0
        BY <2>1, <3>2
      <4>2. open' = SubSeq(open, 1, n - 1)
        BY <1>3, <3>2 DEF Front
      <4> DEFINE m == n - 1
                 t == SubSeq(open, 1, m)
      <4>3. m \in Nat /\ 1 \in Int /\ m \in Int /\ m - 1 + 1 = m /\ (1 <= m \/ m = 0)
        <5>1. m \in Nat /\ m \in Int /\ m - 1 + 1 = m /\ (1 <= m \/ m = 0)
          BY ONLY <2>1, <4>1, SmallNumbers, Zenon
        <5> QED
          BY <5>1
      <4>4. \A i \in 1 .. m : open[i] \in Nat /\ 1 + i - 1 = i
        BY <2>1, <4>3
      <4> HIDE DEF m
      <4>5. /\ t \in Seq(Nat) /\ Len(t) = IF 1 <= m THEN m - 1 + 1 ELSE 0
            /\ \A i \in 1 .. m - 1 + 1 : t[i] = open[1 + i - 1]
        BY <4>3, <4>4, SubSeqProperties
      <4>6. /\ t \in Seq(Nat) /\ Len(t) = m
            /\ \A i \in 1 .. m : t[i] = open[i]
        BY <4>3, <4>4, <4>5
      <4> QED
        BY <2>1, <4>1, <4>2, <4>6 DEF m
    <3> QED
      BY <3>1, <3>2
  <2>3. HidTypeOK'
    <3>1. table' \in Entries /\ usageStack' \in Seq(Nat)
      BY <1>1, <1>3, EndOfMainType
    <3>2. collectionPath' \in {NoPath, 0, 2}
      <4>1. collectionPath \in Slots
        BY <1>1, <1>3 DEF HidTypeOK, Slots
      <4> QED
        BY <1>1, <1>3, <4>1 DEF HidTypeOK, Paths
    <3> QED
      BY <1>1, <1>3, <2>2, <3>1, <3>2 DEF HidTypeOK
  <2>4. \A j \in 1 .. Len(open') : j \in 1 .. n /\ open'[j] = open[j]
    BY <2>1, <2>2
  <2>5. Nested(open', begun')
    <3>1. Nested(open, begun)
      BY <1>1 DEF PathsKnown
    <3> QED
      BY <1>3, <2>2, <2>4, <3>1 DEF Nested
  <2>6. \A j \in 1 .. Len(open') : KeptIn(open'[j], begun')
    BY <1>1, <1>3, <2>4 DEF PathsKnown
  <2>7. ASSUME ShallowIn(begun)
        PROVE  collectionPath' = SlotOf(Len(open')) /\ SlotsHold(collectionPaths, begun)
    <3>1. collectionPath = SlotOf(n) /\ SlotsHold(collectionPaths, begun)
      BY <1>1, <2>7 DEF PathsKnown
    <3>2. n # 0
      BY <1>3, <3>1 DEF SlotOf
    <3> DEFINE c == open[n]
    <3>3. c \in 1 .. Len(begun) /\ begun[c].depth = n
      BY <1>1, <2>1, <3>2 DEF PathsKnown, Nested
    <3>4. n <= 2
      <4>1. begun[c].depth <= 2
        BY <2>7, <3>3 DEF ShallowIn
      <4> QED
        BY <3>3, <4>1
    <3>5. n = 1 \/ n = 2
      <4> HIDE DEF n
      <4> QED
        BY <2>1, <3>2, <3>4, SmallNumbers
    <3>6. collectionPath' = SlotOf(Len(open'))
      <4>1. n = 1 => collectionPath = 0 /\ collectionPaths[0].Parent = NoPath /\ Len(open') = 0
        BY <1>1, <2>2, <3>1 DEF PathsKnown, SlotOf
      <4>2. n = 2 => collectionPath = 2 /\ collectionPaths[2].Parent = 0 /\ Len(open') = 1
        BY <2>2, <3>1, <3>3 DEF SlotsHold, SlotOf
      <4> QED
        BY <1>3, <3>5, <4>1, <4>2 DEF SlotOf
    <3> QED
      BY <3>1, <3>6
  <2>9. PathsKnown'
    <3>1. collectionPaths'[0].Parent = NoPath
      BY <1>1, <1>3 DEF PathsKnown
    <3> QED
      BY <1>3, <2>5, <2>6, <2>7, <3>1 DEF PathsKnown
  <2>10. Recorded'
    BY <1>1, <1>3, NothingRecorded DEF MayBegin
  <2> QED
    BY <2>3, <2>9, <2>10 DEF HidInvariant
<1> QED
  BY <1>2, <1>3 DEF EndCollection


-----------------------------------------------------------------------------
(* Main items that declare fields.                                         *)

LEMMA Sixteen ==
  ASSUME NEW a \in Nat, NEW b \in Nat
  PROVE  Offset16(Offset16(a) + b) = Offset16(a + b) /\ Offset16(a) \in Nat
BY DEF Offset16

LEMMA Joined ==
  ASSUME NEW S, NEW A \in Seq(S), NEW B \in Seq(S)
  PROVE  /\ A \o B \in Seq(S) /\ Len(A \o B) = Len(A) + Len(B)
         /\ \A i \in 1 .. Len(A) : (A \o B)[i] = A[i]
         /\ \A i \in Len(A) + 1 .. Len(A) + Len(B) : (A \o B)[i] = B[i - Len(A)]
  OBVIOUS

LEMMA FieldType ==
  ASSUME HidTypeOK, NEW type \in ItemTypes, NEW k \in Nat \ {0}
  PROVE  Field(type, k) \in Fields
<1>1. table \in Entries /\ usageStack \in Seq(Nat) /\ collectionPath \in {NoPath, 0, 2}
      /\ bitOffset[type] \in Nat
  BY DEF HidTypeOK
<1>2. table.BitSize \in Nat
  BY <1>1 DEF Entries
<1>3. (k - 1) * table.BitSize \in Nat
  BY <1>2
<1> DEFINE o == (k - 1) * table.BitSize
           b == Offset16(bitOffset[type] + o)
           u == IF k <= Len(usageStack) THEN usageStack[k] ELSE 0
<1>4. b \in Nat
  <2> HIDE DEF o
  <2>1. bitOffset[type] + o \in Nat
    BY <1>1, <1>3 DEF o
  <2> QED
    BY <2>1 DEF Offset16
<1>5. u \in Nat
  BY <1>1
<1>6. Field(type, k) = [Attributes |-> table.Attributes, MinMax |-> table.MinMax, BitSize |-> table.BitSize,
         ReportID |-> table.ReportID, ItemType |-> type, CollectionPath |-> collectionPath,
         Usage |-> u, BitOffset |-> b]
  BY DEF Field
<1> HIDE DEF b, u
<1> QED
  BY <1>1, <1>4, <1>5, <1>6 DEF Entries, Fields

LEMMA MainItemStep ==
  ASSUME HidInvariant, InputOrOutput
  PROVE  HidInvariant'
<1>1. HidTypeOK /\ PathsKnown /\ Recorded /\ parsed = "Parsing"
  BY DEF HidInvariant, InputOrOutput, NextItem
<1>2. PICK type \in ItemTypes, constant \in BOOLEAN :
        /\ mainItems' = Append(mainItems,
                          [table |-> table, usages |-> usageStack, open |-> open,
                           type |-> type, constant |-> constant])
        /\ \/ /\ NoRoom(constant)
              /\ parsed' = "InsufficientReportItems" /\ RecordWhatFits(type)
              /\ UNCHANGED <<table, usageStack, bitOffset>>
           \/ /\ ~NoRoom(constant)
              /\ Record(type, constant) /\ EndOfMain
              /\ UNCHANGED parsed
  BY DEF InputOrOutput
<1>3. UNCHANGED <<collectionPaths, collectionPath, begun, open>>
  BY DEF InputOrOutput
<1> DEFINE m == [table |-> table, usages |-> usageStack, open |-> open,
                 type |-> type, constant |-> constant]
           c == table.ReportCount
           z == table.BitSize
           n == IF constant THEN 0 ELSE c
           r == Declared(mainItems)
           report == <<type, table.ReportID>>
           a == Len(reportItems)
           X == HID_MAX_REPORTITEMS
           new(k) ==
             [Attributes |-> table.Attributes, MinMax |-> table.MinMax,
              BitSize |-> z, ReportID |-> table.ReportID, ItemType |-> type,
              Usage |-> IF k <= Len(usageStack) THEN usageStack[k] ELSE 0,
              BitOffset |-> Offset16(r.room[report] + (k - 1) * z),
              within |-> open]
<1>4. /\ table \in Entries /\ usageStack \in Seq(Nat) /\ open \in Seq(Nat)
      /\ bitOffset \in [ItemTypes -> Nat] /\ reportItems \in Seq(Fields) /\ mainItems \in Seq(MainItems)
  BY <1>1 DEF HidTypeOK
<1>5. c \in Nat /\ z \in Nat /\ n \in Nat /\ a \in Nat /\ X \in Nat
  BY <1>4, HIDParserAssumption DEF Entries
<1>6. m \in MainItems
  BY <1>4 DEF MainItems
<1>7. /\ r.room \in [ItemTypes \X Reports -> Nat] /\ r.fields \in Seq(DeclaredFields)
      /\ a <= X /\ Len(r.fields) = a
  BY <1>1 DEF Recorded
<1>8. Declared(mainItems)' = With(r, m)
  BY <1>2, <1>4, <1>6, DeclaredGrows
<1>9. /\ With(r, m).room = [r.room EXCEPT ![report] = @ + c * z]
      /\ With(r, m).fields = r.fields \o [k \in 1 .. n |-> new(k)]
  BY DEF With
<1>10. c * z \in Nat /\ \A k \in 1 .. c : k \in Nat \ {0} /\ (k - 1) * z \in Nat
  BY <1>5
<1>11. table.ReportID \in Reports /\ report \in ItemTypes \X Reports
  BY <1>4 DEF Entries
<1>12. /\ mainItems' \in Seq(MainItems) /\ Len(mainItems) \in Nat
       /\ Len(mainItems') = Len(mainItems) + 1 /\ mainItems'[Len(mainItems) + 1] = m
       /\ \A i \in 1 .. Len(mainItems) : mainItems'[i] = mainItems[i]
  BY <1>2, <1>4, <1>6 DEF m
<1>13. m.type = type /\ m.table.ReportID = table.ReportID
  OBVIOUS
<1>14. \A t, id : OnlyIn(t, id, mainItems') =>
         OnlyIn(t, id, mainItems) /\ (t = type => id = table.ReportID)
  <2>1. /\ Len(mainItems) + 1 \in 1 .. Len(mainItems')
        /\ \A i \in 1 .. Len(mainItems) : i \in 1 .. Len(mainItems')
    BY <1>12
  <2> HIDE DEF m
  <2> QED
    BY <1>12, <1>13, <2>1 DEF OnlyIn
<1>15. PathsKnown'
  BY <1>1, <1>3, SamePaths
<1> HIDE DEF m, r, new
<1>16. \A k \in 1 .. c : Field(type, k) \in Fields
  BY <1>1, <1>10, FieldType
<1>17. \A k \in 1 .. c : new(k) \in DeclaredFields
  <2> SUFFICES ASSUME NEW k \in 1 .. c PROVE new(k) \in DeclaredFields
    OBVIOUS
  <2> DEFINE u == IF k <= Len(usageStack) THEN usageStack[k] ELSE 0
             o == Offset16(r.room[report] + (k - 1) * z)
  <2>1. u \in Nat
    BY <1>4
  <2>2. o \in Nat
    <3> DEFINE p == (k - 1) * z
               q == r.room[report]
    <3>1. p \in Nat /\ q \in Nat
      BY <1>7, <1>10, <1>11
    <3> HIDE DEF p, q
    <3>2. Offset16(q + p) \in Nat
      BY <3>1 DEF Offset16
    <3> QED
      BY <3>2 DEF p, q
  <2>3. new(k) = [Attributes |-> table.Attributes, MinMax |-> table.MinMax,
                  BitSize |-> z, ReportID |-> table.ReportID, ItemType |-> type,
                  Usage |-> u, BitOffset |-> o, within |-> open]
    BY DEF new
  <2> HIDE DEF u, o
  <2> QED
    BY <1>4, <2>1, <2>2, <2>3 DEF Entries, DeclaredFields
<1>18. ASSUME NEW t \in ItemTypes, NEW id \in Reports, OnlyIn(t, id, mainItems)
       PROVE  bitOffset[t] = Offset16(r.room[<<t, id>>])
  BY <1>1, <1>18 DEF Recorded, r
(* A field of this item is as it is declared.                              *)
<1>19. ASSUME NEW k \in 1 .. c PROVE Same(Field(type, k), new(k), mainItems', begun')
  <2> DEFINE f == Field(type, k)
             d == new(k)
  <2>1. /\ f.Attributes = d.Attributes /\ f.MinMax = d.MinMax /\ f.BitSize = d.BitSize
        /\ f.Usage = d.Usage /\ f.ReportID = d.ReportID /\ f.ItemType = d.ItemType
        /\ f.ItemType = type /\ f.ReportID = table.ReportID /\ d.within = open
        /\ f.CollectionPath = collectionPath
        /\ f.BitOffset = Offset16(bitOffset[type] + (k - 1) * z)
        /\ d.BitOffset = Offset16(r.room[report] + (k - 1) * z)
    BY DEF Field, new
  <2>2. ASSUME OnlyIn(type, table.ReportID, mainItems') PROVE f.BitOffset = d.BitOffset
    <3> DEFINE p == (k - 1) * z
               q == r.room[report]
    <3>1. p \in Nat /\ q \in Nat
      BY <1>7, <1>10, <1>11
    <3>2. bitOffset[type] = Offset16(q)
      BY <1>11, <1>14, <1>18, <2>2
    <3> HIDE DEF p, q
    <3>3. Offset16(bitOffset[type] + p) = Offset16(q + p)
      BY <3>1, <3>2, Sixteen
    <3> QED
      BY <2>1, <3>3 DEF p, q
  <2>3. Nested(open, begun')
    BY <1>1, <1>3 DEF PathsKnown
  <2>4. ShallowIn(begun') => collectionPath = SlotOf(Len(open))
    BY <1>1, <1>3 DEF PathsKnown
  <2> HIDE DEF f, d
  <2>5. /\ f.Attributes = d.Attributes /\ f.MinMax = d.MinMax
        /\ f.BitSize = d.BitSize /\ f.Usage = d.Usage
        /\ f.ReportID = d.ReportID /\ f.ItemType = d.ItemType
        /\ OnlyIn(f.ItemType, f.ReportID, mainItems') => f.BitOffset = d.BitOffset
        /\ Nested(d.within, begun')
        /\ ShallowIn(begun') => f.CollectionPath = SlotOf(Len(d.within))
    BY <2>1, <2>2, <2>3, <2>4
  <2> QED
    BY <2>5 DEF f, d, Same
(* The step records the first K of the fields that the item declares.      *)
<1> DEFINE P(K) == [k \in 1 .. K |-> Field(type, k)]
<1>20. PICK K \in 0 .. n :
         /\ reportItems' = reportItems \o P(K) /\ a + K <= X
         /\ IF parsed' = "InsufficientReportItems" THEN a + K = X ELSE K = n
  <2>1. CASE NoRoom(constant) /\ parsed' = "InsufficientReportItems" /\ RecordWhatFits(type)
    <3>1. X - a \in 0 .. n /\ a + (X - a) = X
      BY <1>5, <1>7, <2>1 DEF NoRoom
    <3>2. reportItems' = reportItems \o P(X - a)
      BY <2>1 DEF RecordWhatFits
    <3> HIDE DEF P
    <3>3. X <= X
      BY <1>5
    <3> QED
      BY <2>1, <3>1, <3>2, <3>3
  <2>2. CASE ~NoRoom(constant) /\ Record(type, constant) /\ UNCHANGED parsed
    <3>1. a + n <= X /\ n \in 0 .. n
      BY <1>5, <1>7, <2>2 DEF NoRoom
    <3>2. reportItems' = reportItems \o P(n)
      <4>1. CASE constant
        <5>1. P(n) = <<>> /\ reportItems \o <<>> = reportItems
          BY <1>4, <4>1
        <5>2. reportItems' = reportItems
          BY <2>2, <4>1 DEF Record
        <5> HIDE DEF P
        <5> QED
          BY <5>1, <5>2
      <4>2. CASE ~constant
        BY <2>2, <4>2 DEF Record
      <4> QED
        BY <4>1, <4>2
    <3> HIDE DEF P
    <3> QED
      BY <1>1, <2>2, <3>1, <3>2
  <2> QED
    BY <1>2, <2>1, <2>2
<1>21. K \in Nat /\ K <= n /\ n <= c /\ \A k \in 1 .. K : k \in 1 .. n /\ k \in 1 .. c
  BY <1>5
<1>22. P(K) \in Seq(Fields) /\ Len(P(K)) = K /\ \A k \in 1 .. K : P(K)[k] = Field(type, k)
  BY <1>16, <1>21
<1> HIDE DEF P
<1>23. /\ reportItems' \in Seq(Fields) /\ Len(reportItems') = a + K
       /\ \A i \in 1 .. a : reportItems'[i] = reportItems[i]
       /\ \A i \in a + 1 .. a + K : reportItems'[i] = Field(type, i - a)
  <2> DEFINE p == P(K)
  <2>1. p \in Seq(Fields) /\ Len(p) = K /\ reportItems' = reportItems \o p
    BY <1>20, <1>22
  <2> HIDE DEF p
  <2>2. /\ reportItems' \in Seq(Fields) /\ Len(reportItems') = a + K
        /\ \A i \in 1 .. a : reportItems'[i] = reportItems[i]
        /\ \A i \in a + 1 .. a + K : reportItems'[i] = p[i - a]
    BY ONLY <1>4, <2>1, Joined, Zenon
  <2>3. \A i \in a + 1 .. a + K : i - a \in 1 .. K
    BY <1>5, <1>21
  <2> QED
    BY <1>22, <2>2, <2>3 DEF p
<1> DEFINE N == [k \in 1 .. n |-> new(k)]
           s == With(r, m)
<1>24. /\ s.fields \in Seq(DeclaredFields) /\ Len(s.fields) = a + n
       /\ \A i \in 1 .. a : s.fields[i] = r.fields[i]
       /\ \A i \in a + 1 .. a + n : s.fields[i] = new(i - a)
  <2>1. \A k \in 1 .. n : k \in 1 .. c
    BY <1>5, <1>21
  <2>2. N \in Seq(DeclaredFields) /\ Len(N) = n /\ \A k \in 1 .. n : N[k] = new(k)
    BY <1>5, <1>17, <2>1
  <2>3. s.fields = r.fields \o N
    BY <1>9
  <2> HIDE DEF N, s, n
  <2>4. /\ s.fields \in Seq(DeclaredFields) /\ Len(s.fields) = a + n
        /\ \A i \in 1 .. a : s.fields[i] = r.fields[i]
        /\ \A i \in a + 1 .. a + n : s.fields[i] = N[i - a]
    <3> DEFINE A == r.fields
               B == A \o N
    <3>1. A \in Seq(DeclaredFields) /\ Len(A) = a /\ N \in Seq(DeclaredFields) /\ Len(N) = n
      BY <1>7, <2>2
    <3> HIDE DEF A
    <3>2. /\ B \in Seq(DeclaredFields) /\ Len(B) = Len(A) + Len(N)
          /\ \A i \in 1 .. Len(A) : B[i] = A[i]
          /\ \A i \in Len(A) + 1 .. Len(A) + Len(N) : B[i] = N[i - Len(A)]
      BY ONLY <3>1, Joined, Zenon
    <3>3. s.fields = B
      BY <2>3 DEF A
    <3> HIDE DEF B
    <3>4. /\ s.fields \in Seq(DeclaredFields) /\ Len(s.fields) = a + n
          /\ \A i \in 1 .. a : s.fields[i] = A[i]
          /\ \A i \in a + 1 .. a + n : s.fields[i] = N[i - a]
      BY ONLY <3>1, <3>2, <3>3
    <3> QED
      BY <3>4 DEF A
  <2>5. \A i \in a + 1 .. a + n : i - a \in 1 .. n
    BY <1>5
  <2> QED
    BY <2>2, <2>4, <2>5
<1>25. /\ s.room \in [ItemTypes \X Reports -> Nat]
       /\ s.room[report] = r.room[report] + c * z
       /\ \A e \in ItemTypes \X Reports : e # report => s.room[e] = r.room[e]
  <2> DEFINE p == c * z
  <2>1. p \in Nat
    BY <1>10
  <2>2. s.room = [r.room EXCEPT ![report] = @ + p]
    BY <1>9
  <2> HIDE DEF p, s, report
  <2>3. /\ s.room \in [ItemTypes \X Reports -> Nat]
        /\ s.room[report] = r.room[report] + p
        /\ \A e \in ItemTypes \X Reports : e # report => s.room[e] = r.room[e]
    BY <1>7, <1>11, <2>1, <2>2
  <2> QED
    BY <2>3 DEF p
<1> HIDE DEF N, s
<1>26. ASSUME NEW i \in 1 .. a + K PROVE Same(reportItems'[i], s.fields[i], mainItems', begun')
  <2>1. CASE i <= a
    <3>1. i \in 1 .. a
      BY <1>5, <1>21, <2>1
    <3>2. Same(reportItems[i], r.fields[i], mainItems, begun)
      BY <1>1, <3>1 DEF Recorded, r
    <3>3. Same(reportItems[i], r.fields[i], mainItems', begun')
      BY <1>3, <1>14, <3>2 DEF Same
    <3> QED
      BY <1>23, <1>24, <3>1, <3>3
  <2>2. CASE ~(i <= a)
    <3>1. i \in a + 1 .. a + K /\ i \in a + 1 .. a + n /\ i - a \in 1 .. c
      BY <1>5, <1>21, <2>2
    <3> QED
      BY <1>19, <1>23, <1>24, <3>1
  <2> QED
    BY <2>1, <2>2
<1>27. bitOffset' \in [ItemTypes -> Nat] /\ table' \in Entries /\ usageStack' \in Seq(Nat)
  <2>1. CASE UNCHANGED <<table, usageStack, bitOffset>>
    BY <1>4, <2>1
  <2>2. CASE Record(type, constant) /\ EndOfMain
    <3>1. table' \in Entries /\ usageStack' \in Seq(Nat)
      BY <1>1, <2>2, EndOfMainType
    <3> DEFINE p == c * z
    <3>2. bitOffset' = [bitOffset EXCEPT ![type] = Offset16(@ + p)]
      BY <2>2 DEF Record
    <3>3. p \in Nat
      BY <1>10
    <3> HIDE DEF p
    <3>4. Offset16(bitOffset[type] + p) \in Nat
      <4>1. bitOffset[type] + p \in Nat
        BY <1>4, <3>3
      <4> QED
        BY <4>1 DEF Offset16
    <3> QED
      BY <1>4, <3>1, <3>2, <3>4
  <2> QED
    BY <1>2, <2>1, <2>2
<1>28. HidTypeOK'
  BY <1>1, <1>3, <1>12, <1>23, <1>27 DEF HidTypeOK
<1>29. ASSUME parsed' # "InsufficientReportItems", NEW t \in ItemTypes, NEW id \in Reports,
              OnlyIn(t, id, mainItems')
       PROVE  bitOffset'[t] = Offset16(s.room[<<t, id>>])
  <2> DEFINE p == c * z
  <2>1. bitOffset' = [bitOffset EXCEPT ![type] = Offset16(@ + p)]
    BY <1>2, <1>29 DEF Record
  <2>2. p \in Nat /\ s.room[report] = r.room[report] + p
    BY <1>10, <1>25
  <2> HIDE DEF p
  <2>3. bitOffset[t] = Offset16(r.room[<<t, id>>]) /\ (t = type => id = table.ReportID)
    BY <1>14, <1>18, <1>29
  <2>4. <<t, id>> \in ItemTypes \X Reports
    OBVIOUS
  <2>5. CASE t = type
    <3> DEFINE q == r.room[<<t, id>>]
    <3>1. q \in Nat /\ <<t, id>> = report
      BY <1>7, <2>3, <2>4, <2>5
    <3>2. s.room[<<t, id>>] = q + p
      BY <2>2, <3>1
    <3> HIDE DEF q
    <3>3. bitOffset'[t] = Offset16(Offset16(q) + p)
      BY <1>4, <2>1, <2>3, <2>5 DEF q
    <3> QED
      BY <2>2, <3>1, <3>2, <3>3, Sixteen
  <2>6. CASE t # type
    <3>1. <<t, id>> # report
      BY <2>6
    <3>2. s.room[<<t, id>>] = r.room[<<t, id>>]
      BY <1>25, <2>4, <3>1
    <3>3. bitOffset'[t] = bitOffset[t]
      BY <1>4, <2>1, <2>6
    <3> QED
      BY <2>3, <3>2, <3>3
  <2> QED
    BY <2>5, <2>6
<1>30. Recorded'
  <2>1. Declared(mainItems)' = s
    BY <1>8 DEF s
  <2>2. IF parsed' = "InsufficientReportItems" THEN a + K = X /\ a + n >= X ELSE a + K = a + n
    BY <1>5, <1>20, <1>21
  <2>3. a + K <= X
    BY <1>20
  <2> QED
    BY <1>23, <1>24, <1>25, <1>26, <1>29, <2>1, <2>2, <2>3 DEF Recorded
<1> QED
  BY <1>15, <1>28, <1>30 DEF HidInvariant

LEMMA HidStep ==
  ASSUME HidInvariant, HidNext \/ UNCHANGED hidVars
  PROVE  HidInvariant'
<1>1. CASE Push \/ Pop
  <2>1. parsed = "Parsing"
    BY <1>1 DEF Push, Pop, NextItem
  <2>2. Returns("Undefined") \/ Returns("HIDStackUnderflow")
    BY <1>1 DEF Push, Pop
  <2> QED
    BY <2>1, <2>2, ReturnsStep
<1>2. CASE EndOfDescriptor
  <2>1. parsed = "Parsing" /\ Returns("Successful")
    BY <1>2 DEF EndOfDescriptor
  <2> QED
    BY <2>1, ReturnsStep
<1>3. CASE UNCHANGED hidVars
  <2>1. UNCHANGED <<parsed, table, usageStack, bitOffset, reportItems, collectionPaths,
                    collectionPath, mainItems, begun, open>>
    BY <1>3 DEF hidVars
  <2>2. HidTypeOK' /\ PathsKnown'
    BY <2>1, SamePaths DEF HidInvariant, HidTypeOK
  <2>3. Recorded'
    BY <2>1 DEF HidInvariant, Recorded
  <2> QED
    BY <2>2, <2>3 DEF HidInvariant
<1> QED
  BY <1>1, <1>2, <1>3, LocalStep, CollectionStep, EndCollectionStep, MainItemStep DEF HidNext

(* The slot that a chain of collections ends in leads back through it.     *)
LEMMA PathLeads ==
  ASSUME HidTypeOK, PathsKnown, Shallow, NEW w, Nested(w, begun)
  PROVE  /\ PathOf(SlotOf(Len(w))) \in Seq([Attributes : Nat, Usage : Nat])
         /\ Len(PathOf(SlotOf(Len(w)))) = Len(w)
         /\ \A j \in 1 .. Len(w) : KeptIn(w[j], begun) =>
              PathOf(SlotOf(Len(w)))[j] = begun[w[j]].name
<1> DEFINE n == Len(w)
<1>1. begun \in Seq(Collections) /\ collectionPaths \in [Slots -> Paths]
  BY DEF HidTypeOK
<1>2. ShallowIn(begun)
  BY <1>1 DEF Shallow, ShallowIn
<1>3. collectionPaths[0].Parent = NoPath /\ SlotsHold(collectionPaths, begun)
  BY <1>2 DEF PathsKnown
<1>4. n \in Nat /\ \A j \in 1 .. n : w[j] \in 1 .. Len(begun) /\ begun[w[j]].depth = j
  BY DEF Nested
<1>5. \A j \in 1 .. n : j <= 2
  BY <1>2, <1>4 DEF ShallowIn
<1>6. n = 0 \/ n = 1 \/ n = 2
  <2>1. n # 0 => n <= 2
    BY <1>4, <1>5
  <2> HIDE DEF n
  <2> QED
    BY <1>4, <2>1, SmallNumbers
<1>7. \A p : NameIn(p) = NameOf(collectionPaths[p])
  BY DEF NameIn, NameOf
<1>8. NameIn(0) \in [Attributes : Nat, Usage : Nat] /\ NameIn(2) \in [Attributes : Nat, Usage : Nat]
  BY <1>1 DEF NameIn, Slots, Paths
<1>9. \A j \in 1 .. n : KeptIn(w[j], begun) => NameIn(SlotOf(j)) = begun[w[j]].name
  BY <1>3, <1>4, <1>7 DEF SlotsHold
<1> HIDE DEF n
<1> DEFINE q == PathOf(SlotOf(n))
           Name == [Attributes : Nat, Usage : Nat]
           Leads == /\ q \in Seq(Name) /\ Len(q) = n
                    /\ \A j \in 1 .. n : KeptIn(w[j], begun) => q[j] = begun[w[j]].name
<1> SUFFICES Leads
  BY DEF n
<1>10. NameIn(0) \in Name /\ NameIn(2) \in Name
  BY <1>8
<1>11. n = 0 => q = <<>>
  BY DEF PathOf, SlotOf
<1>12. n = 1 => q = <<NameIn(0)>>
  BY <1>3 DEF PathOf, SlotOf, NoPath
<1>13. n = 2 => q = <<NameIn(0), NameIn(2)>>
  <2>1. n = 2 => collectionPaths[2].Parent = 0
    BY <1>3, <1>4 DEF SlotsHold
  <2> QED
    BY <2>1 DEF PathOf, SlotOf, NoPath
<1>14. SlotOf(1) = 0 /\ SlotOf(2) = 2
  BY DEF SlotOf
<1> HIDE DEF q, Name
<1>15. q \in Seq(Name) /\ Len(q) = n /\ \A j \in 1 .. n : q[j] = NameIn(SlotOf(j))
  <2> DEFINE A == NameIn(0)
             B == NameIn(2)
             C(j) == NameIn(SlotOf(j))
  <2>1. C(1) = A /\ C(2) = B /\ A \in Name /\ B \in Name
    BY <1>10, <1>14
  <2>2. /\ n = 0 => q = <<>>
        /\ n = 1 => q = <<A>>
        /\ n = 2 => q = <<A, B>>
    BY <1>11, <1>12, <1>13
  <2> HIDE DEF A, B, C
  <2> SUFFICES q \in Seq(Name) /\ Len(q) = n /\ \A j \in 1 .. n : q[j] = C(j)
    BY DEF C
  <2>3. CASE n = 0
    BY ONLY <2>2, <2>3
  <2>4. CASE n = 1
    <3>1. q = <<A>>
      BY <2>2, <2>4
    <3>2. q \in Seq(Name) /\ Len(q) = 1 /\ q[1] = A
      BY ONLY <2>1, <3>1
    <3>3. \A j \in 1 .. n : j = 1
      BY <2>4
    <3> QED
      BY ONLY <2>1, <2>4, <3>2, <3>3
  <2>5. CASE n = 2
    <3>1. q = <<A, B>>
      BY <2>2, <2>5
    <3>2. q \in Seq(Name) /\ Len(q) = 2 /\ q[1] = A /\ q[2] = B
      BY ONLY <2>1, <3>1
    <3>3. \A j \in 1 .. n : j = 1 \/ j = 2
      BY <2>5
    <3> QED
      BY ONLY <2>1, <2>5, <3>2, <3>3
  <2> QED
    BY <1>6, <2>3, <2>4, <2>5
<1> QED
  BY <1>9, <1>15

LEMMA FieldsAreDeclared == HidInvariant => FieldsAsDeclared
<1> SUFFICES ASSUME HidInvariant PROVE FieldsAsDeclared
  OBVIOUS
<1>1. HidTypeOK /\ PathsKnown /\ Recorded
  BY DEF HidInvariant
<1>2. /\ open \in Seq(Nat) /\ begun \in Seq(Collections) /\ reportItems \in Seq(Fields)
      /\ mainItems \in Seq(MainItems)
  BY <1>1 DEF HidTypeOK
<1>3. \A c : Kept(c) <=> KeptIn(c, begun)
  BY <1>2 DEF Kept, KeptIn
<1>4. Shallow <=> ShallowIn(begun)
  BY <1>2 DEF Shallow, ShallowIn
<1>5. \A t, id : OnlyReport(t, id) <=> OnlyIn(t, id, mainItems)
  BY <1>2 DEF OnlyReport, OnlyIn
<1> DEFINE declared == Declared(mainItems).fields
<1>6. ASSUME NEW i \in 1 .. Len(reportItems) PROVE AsDeclared(reportItems[i], declared[i])
  <2> DEFINE item == reportItems[i]
             f == declared[i]
  <2>1. Same(item, f, mainItems, begun)
    BY <1>1 DEF Recorded
  <2> HIDE DEF item, f
  <2>2. ASSUME Shallow PROVE LeadsTo(item.CollectionPath, f.within)
    <3> DEFINE w == f.within
    <3>1. Nested(w, begun) /\ item.CollectionPath = SlotOf(Len(w))
      BY <1>4, <2>1, <2>2 DEF Same
    <3> HIDE DEF w
    <3>2. /\ Len(PathOf(SlotOf(Len(w)))) = Len(w)
          /\ \A j \in 1 .. Len(w) : KeptIn(w[j], begun) =>
               PathOf(SlotOf(Len(w)))[j] = begun[w[j]].name
      BY <1>1, <2>2, <3>1, PathLeads
    <3>3. DOMAIN w = 1 .. Len(w)
      BY <3>1 DEF Nested
    <3>4. LeadsTo(SlotOf(Len(w)), w)
      BY <1>3, <3>2, <3>3 DEF LeadsTo
    <3> QED
      BY <3>1, <3>4 DEF w
  <2>3. AsDeclared(item, f)
    BY <1>5, <2>1, <2>2 DEF Same, AsDeclared
  <2> QED
    BY <2>3 DEF item, f
<1>7. ASSUME Shallow PROVE PathOf(collectionPath) = [j \in DOMAIN open |-> begun[open[j]].name]
  <2> DEFINE path == PathOf(SlotOf(Len(open)))
  <2>1. /\ Nested(open, begun) /\ collectionPath = SlotOf(Len(open))
        /\ \A j \in 1 .. Len(open) : KeptIn(open[j], begun)
    BY <1>1, <1>4, <1>7 DEF PathsKnown
  <2>2. /\ path \in Seq([Attributes : Nat, Usage : Nat]) /\ Len(path) = Len(open)
        /\ \A j \in 1 .. Len(open) : path[j] = begun[open[j]].name
    BY <1>1, <1>7, <2>1, PathLeads
  <2>3. DOMAIN open = 1 .. Len(open)
    BY <1>2
  <2> HIDE DEF path
  <2>4. path = [j \in 1 .. Len(open) |-> begun[open[j]].name]
    BY <2>2
  <2> QED
    BY <2>1, <2>3, <2>4 DEF path
<1>8. ASSUME NEW i \in DOMAIN reportItems, reportItems[i].BitOffset % 8 = 0, reportItems[i].BitSize <= 8,
             NEW v \in SUBSET Bits(reportItems[i].BitSize)
      PROVE  GetReportItemInfo(SetReportItemInfo({}, reportItems[i], v), reportItems[i]) = v
  <2>1. reportItems[i] \in Fields
    BY <1>2
  <2>2. /\ reportItems[i].BitOffset \in Nat /\ reportItems[i].BitSize \in Nat
        /\ reportItems[i].ReportID \in Reports /\ reportItems[i].ReportID \in 0 .. 255
    BY <2>1, InBytes DEF Fields
  <2> QED
    BY <1>8, <2>2, PutAndGot
<1>9. /\ Len(reportItems) <= HID_MAX_REPORTITEMS
      /\ IF parsed = "InsufficientReportItems"
         THEN Len(reportItems) = HID_MAX_REPORTITEMS /\ Len(declared) >= HID_MAX_REPORTITEMS
         ELSE Len(reportItems) = Len(declared)
  BY <1>1 DEF Recorded
<1>10. DOMAIN reportItems = 1 .. Len(reportItems)
  BY <1>2
<1> QED
  BY <1>6, <1>7, <1>8, <1>9, <1>10 DEF FieldsAsDeclared

-----------------------------------------------------------------------------
(*  UsbHost: the enumeration, and the interrupts that overtake it.         *)

(* The states from the wait after the connection on.                       *)
Late == {"WaitForDevice", "DoReset", "Powered", "Default", "PostReset", "PostAddressSet",
         "Addressed"}

WaitedFor == {"WaitForDevice", "DoReset", "Powered", "PostReset", "PostAddressSet"}

(* The points of a reset of the device and of a request to it.             *)
InReset   == {"reset", "resetting"}
InRequest == {"request"} \cup Stages

HostTypes ==
  /\ IsConnected \in BOOLEAN /\ frozen \in BOOLEAN /\ addressSent \in BOOLEAN
  /\ overtaken \in BOOLEAN
  /\ next \in WaitedFor /\ PostWaitState \in WaitedFor /\ dataLen \in Nat

(* The pipe is thawed in the stages that wait for the device and nowhere   *)
(* else; a device is waited for except while a reset hides that it goes.   *)
Guarded ==
  /\ hostPc \notin {"setup", "in", "statusOut", "statusIn"} => frozen
  /\ hostPc # "resetting" => {"SRPI", "DDISCI"} \cap enabledInts # {}

(* A request with a data stage, for the descriptor, goes on to a reset;    *)
(* the other, for the address, goes on to the state that relies on it,     *)
(* which no reset does.                                                    *)
OnItsWay ==
  /\ hostPc \in {"request", "setup", "pause"} =>
       next = IF dataLen > 0 THEN "PostReset" ELSE "PostAddressSet"
  /\ hostPc \in {"in", "statusOut"} \cup InReset => next # "PostAddressSet"
  /\ hostPc = "wait" /\ next = "PostAddressSet" => addressSent

(* As long as no interrupt has overtaken the case, the state is that of    *)
(* the case the task is in, and what the state promises holds.             *)
NotOvertaken ==
  /\ hostPc \in Enumerating => HostState = hostPc
  /\ hostPc \in InReset \cup InRequest => HostState \in {"DoReset", "Default", "PostReset"}
  /\ HostState \in Late \/ hostPc \in {"wait"} \cup InReset \cup InRequest => IsConnected
  /\ HostState \in {"PostAddressSet", "Addressed"} => addressSent
  /\ HostState = "WaitForDevice" /\ PostWaitState = "PostAddressSet" => addressSent

HostInvariant == HostTypes /\ Guarded /\ OnItsWay /\ (overtaken \/ NotOvertaken)
LEMMA HostStarts == HostInit => HostInvariant
<1> SUFFICES ASSUME HostInit PROVE HostInvariant
  OBVIOUS
<1>1. "SRPI" \in enabledInts /\ hostPc = "loop"
  BY DEF HostInit
<1>2. HostTypes /\ Guarded
  BY <1>1 DEF HostInit, HostTypes, Guarded, WaitedFor
<1>3. OnItsWay /\ NotOvertaken
  BY DEF HostInit, OnItsWay, NotOvertaken, Enumerating, Late, InReset, InRequest, Stages
<1> QED
  BY <1>2, <1>3 DEF HostInvariant

LEMMA TaskStep == HostInvariant /\ HostTask => HostInvariant'
<1> SUFFICES ASSUME HostInvariant, HostTask PROVE HostInvariant'
  OBVIOUS
<1> USE DEF Late, WaitedFor, InReset, InRequest, Stages, Enumerating, stateVars, pipeState,
            intVars, plugVars
<1>0. HostTypes /\ Guarded /\ OnItsWay /\ (overtaken \/ NotOvertaken)
  BY DEF HostInvariant
<1>1. CASE EnterCase
  <2>1. HostTypes'
    BY <1>0, <1>1, UsbHostAssumption DEF EnterCase, HostTypes, OnItsWay
  <2>2. Guarded'
    BY <1>0, <1>1 DEF EnterCase, Guarded
  <2>3. OnItsWay'
    BY <1>0, <1>1, UsbHostAssumption DEF EnterCase, OnItsWay, HostTypes
  <2>4. overtaken' \/ NotOvertaken'
    BY <1>0, <1>1 DEF EnterCase, NotOvertaken, HostTypes, OnItsWay
  <2> QED
    BY <2>1, <2>2, <2>3, <2>4 DEF HostInvariant
<1>2. CASE WaitForDevice
  <2>1. HostTypes'
    BY <1>0, <1>2, UsbHostAssumption DEF WaitForDevice, HostTypes, OnItsWay, Leave, SetState, Unaltered, FramePasses
  <2>2. Guarded'
    BY <1>0, <1>2 DEF WaitForDevice, Guarded, Leave, SetState, Unaltered, FramePasses
  <2>3. OnItsWay'
    BY <1>0, <1>2, UsbHostAssumption DEF WaitForDevice, OnItsWay, HostTypes, Leave, SetState, Unaltered, FramePasses
  <2>4. overtaken' \/ NotOvertaken'
    BY <1>0, <1>2 DEF WaitForDevice, NotOvertaken, HostTypes, OnItsWay, Leave, SetState, Unaltered, FramePasses
  <2> QED
    BY <2>1, <2>2, <2>3, <2>4 DEF HostInvariant
<1>3. CASE Attached
  <2>1. HostTypes'
    BY <1>0, <1>3, UsbHostAssumption DEF Attached, HostTypes, OnItsWay, Leave, SetState, Unaltered
  <2>2. Guarded'
    BY <1>0, <1>3 DEF Attached, Guarded, Leave, SetState, Unaltered
  <2>3. OnItsWay'
    BY <1>0, <1>3, UsbHostAssumption DEF Attached, OnItsWay, HostTypes, Leave, SetState, Unaltered
  <2>4. overtaken' \/ NotOvertaken'
    BY <1>0, <1>3 DEF Attached, NotOvertaken, HostTypes, OnItsWay, Leave, SetState, Unaltered
  <2> QED
    BY <2>1, <2>2, <2>3, <2>4 DEF HostInvariant
<1>4. CASE Settle
  <2>1. HostTypes'
    BY <1>0, <1>4, UsbHostAssumption DEF Settle, HostTypes, OnItsWay, Leave, SetState
  <2>2. Guarded'
    BY <1>0, <1>4 DEF Settle, Guarded, Leave, SetState
  <2>3. OnItsWay'
    BY <1>0, <1>4, UsbHostAssumption DEF Settle, OnItsWay, HostTypes, Leave, SetState
  <2>4. overtaken' \/ NotOvertaken'
    BY <1>0, <1>4 DEF Settle, NotOvertaken, HostTypes, OnItsWay, Leave, SetState
  <2> QED
    BY <2>1, <2>2, <2>3, <2>4 DEF HostInvariant
<1>5. CASE WaitForConnect
  <2>1. HostTypes'
    BY <1>0, <1>5, UsbHostAssumption DEF WaitForConnect, HostTypes, OnItsWay, Leave, Then
  <2>2. Guarded'
    BY <1>0, <1>5 DEF WaitForConnect, Guarded, Leave, Then
  <2>3. OnItsWay'
    BY <1>0, <1>5, UsbHostAssumption DEF WaitForConnect, OnItsWay, HostTypes, Leave, Then
  <2>4. overtaken' \/ NotOvertaken'
    BY <1>0, <1>5 DEF WaitForConnect, NotOvertaken, HostTypes, OnItsWay, Leave, Then
  <2> QED
    BY <2>1, <2>2, <2>3, <2>4 DEF HostInvariant
<1>6. CASE NonBlockWait
  <2>1. HostTypes'
    BY <1>0, <1>6, UsbHostAssumption DEF NonBlockWait, HostTypes, OnItsWay, Leave, SetState, Unaltered
  <2>2. Guarded'
    BY <1>0, <1>6 DEF NonBlockWait, Guarded, Leave, SetState, Unaltered
  <2>3. OnItsWay'
    BY <1>0, <1>6, UsbHostAssumption DEF NonBlockWait, OnItsWay, HostTypes, Leave, SetState, Unaltered
  <2>4. overtaken' \/ NotOvertaken'
    BY <1>0, <1>6 DEF NonBlockWait, NotOvertaken, HostTypes, OnItsWay, Leave, SetState, Unaltered
  <2> QED
    BY <2>1, <2>2, <2>3, <2>4 DEF HostInvariant
<1>7. CASE DoReset
  <2>1. HostTypes'
    BY <1>0, <1>7, UsbHostAssumption DEF DoReset, HostTypes, OnItsWay, Then, Unaltered
  <2>2. Guarded'
    BY <1>0, <1>7 DEF DoReset, Guarded, Then, Unaltered
  <2>3. OnItsWay'
    BY <1>0, <1>7, UsbHostAssumption DEF DoReset, OnItsWay, HostTypes, Then, Unaltered
  <2>4. overtaken' \/ NotOvertaken'
    BY <1>0, <1>7 DEF DoReset, NotOvertaken, HostTypes, OnItsWay, Then, Unaltered
  <2> QED
    BY <2>1, <2>2, <2>3, <2>4 DEF HostInvariant
<1>8. CASE ResetBegins
  <2>1. HostTypes'
    BY <1>0, <1>8, UsbHostAssumption DEF ResetBegins, HostTypes, OnItsWay, Leave
  <2>2. Guarded'
    BY <1>0, <1>8 DEF ResetBegins, Guarded, Leave
  <2>3. OnItsWay'
    BY <1>0, <1>8, UsbHostAssumption DEF ResetBegins, OnItsWay, HostTypes, Leave
  <2>4. overtaken' \/ NotOvertaken'
    BY <1>0, <1>8 DEF ResetBegins, NotOvertaken, HostTypes, OnItsWay, Leave
  <2> QED
    BY <2>1, <2>2, <2>3, <2>4 DEF HostInvariant
<1>9. CASE ResetEnds
  <2>1. HostTypes'
    BY <1>0, <1>9, UsbHostAssumption DEF ResetEnds, HostTypes, OnItsWay, Leave
  <2>2. Guarded'
    BY <1>0, <1>9 DEF ResetEnds, Guarded, Leave
  <2>3. OnItsWay'
    BY <1>0, <1>9, UsbHostAssumption DEF ResetEnds, OnItsWay, HostTypes, Leave
  <2>4. overtaken' \/ NotOvertaken'
    BY <1>0, <1>9 DEF ResetEnds, NotOvertaken, HostTypes, OnItsWay, Leave
  <2> QED
    BY <2>1, <2>2, <2>3, <2>4 DEF HostInvariant
<1>10. CASE Powered
  <2>1. HostTypes'
    BY <1>0, <1>10, UsbHostAssumption DEF Powered, HostTypes, OnItsWay, Leave, SetState, Unaltered
  <2>2. Guarded'
    BY <1>0, <1>10 DEF Powered, Guarded, Leave, SetState, Unaltered
  <2>3. OnItsWay'
    BY <1>0, <1>10, UsbHostAssumption DEF Powered, OnItsWay, HostTypes, Leave, SetState, Unaltered
  <2>4. overtaken' \/ NotOvertaken'
    BY <1>0, <1>10 DEF Powered, NotOvertaken, HostTypes, OnItsWay, Leave, SetState, Unaltered
  <2> QED
    BY <2>1, <2>2, <2>3, <2>4 DEF HostInvariant
<1>11. CASE Default
  <2>1. HostTypes'
    BY <1>0, <1>11, UsbHostAssumption DEF Default, HostTypes, OnItsWay, StartRequest, Then
  <2>2. Guarded'
    BY <1>0, <1>11 DEF Default, Guarded, StartRequest, Then
  <2>3. OnItsWay'
    BY <1>0, <1>11, UsbHostAssumption DEF Default, OnItsWay, HostTypes, StartRequest, Then
  <2>4. overtaken' \/ NotOvertaken'
    BY <1>0, <1>11 DEF Default, NotOvertaken, HostTypes, OnItsWay, StartRequest, Then
  <2> QED
    BY <2>1, <2>2, <2>3, <2>4 DEF HostInvariant
<1>12. CASE PostReset
  <2>1. HostTypes'
    BY <1>0, <1>12, UsbHostAssumption DEF PostReset, HostTypes, OnItsWay, StartRequest, Then, Leave
  <2>2. Guarded'
    BY <1>0, <1>12 DEF PostReset, Guarded, StartRequest, Then, Leave
  <2>3. OnItsWay'
    BY <1>0, <1>12, UsbHostAssumption DEF PostReset, OnItsWay, HostTypes, StartRequest, Then, Leave
  <2>4. overtaken' \/ NotOvertaken'
    BY <1>0, <1>12 DEF PostReset, NotOvertaken, HostTypes, OnItsWay, StartRequest, Then, Leave
  <2> QED
    BY <2>1, <2>2, <2>3, <2>4 DEF HostInvariant
<1>13. CASE PostAddressSet
  <2>1. HostTypes'
    BY <1>0, <1>13, UsbHostAssumption DEF PostAddressSet, HostTypes, OnItsWay, Leave, SetState, Unaltered
  <2>2. Guarded'
    BY <1>0, <1>13 DEF PostAddressSet, Guarded, Leave, SetState, Unaltered
  <2>3. OnItsWay'
    BY <1>0, <1>13, UsbHostAssumption DEF PostAddressSet, OnItsWay, HostTypes, Leave, SetState, Unaltered
  <2>4. overtaken' \/ NotOvertaken'
    BY <1>0, <1>13 DEF PostAddressSet, NotOvertaken, HostTypes, OnItsWay, Leave, SetState, Unaltered
  <2> QED
    BY <2>1, <2>2, <2>3, <2>4 DEF HostInvariant
<1>14. CASE EnumerationFailed
  <2>1. HostTypes'
    BY <1>0, <1>14, UsbHostAssumption DEF EnumerationFailed, HostTypes, OnItsWay, Leave, ResetInterface, ListenFor
  <2>2. Guarded'
    BY <1>0, <1>14 DEF EnumerationFailed, Guarded, Leave, ResetInterface, ListenFor
  <2>3. OnItsWay'
    BY <1>0, <1>14, UsbHostAssumption DEF EnumerationFailed, OnItsWay, HostTypes, Leave, ResetInterface, ListenFor
  <2>4. overtaken' \/ NotOvertaken'
    BY <1>0, <1>14 DEF EnumerationFailed, NotOvertaken, HostTypes, OnItsWay, Leave, ResetInterface, ListenFor
  <2> QED
    BY <2>1, <2>2, <2>3, <2>4 DEF HostInvariant
<1>15. CASE RequestBegins
  <2>1. HostTypes'
    BY <1>0, <1>15, UsbHostAssumption DEF RequestBegins, HostTypes, OnItsWay, Leave, FramePasses, RequestUnchanged
  <2>2. Guarded'
    BY <1>0, <1>15 DEF RequestBegins, Guarded, Leave, FramePasses, RequestUnchanged
  <2>3. OnItsWay'
    BY <1>0, <1>15, UsbHostAssumption DEF RequestBegins, OnItsWay, HostTypes, Leave, FramePasses, RequestUnchanged
  <2>4. overtaken' \/ NotOvertaken'
    BY <1>0, <1>15 DEF RequestBegins, NotOvertaken, HostTypes, OnItsWay, Leave, FramePasses, RequestUnchanged
  <2> QED
    BY <2>1, <2>2, <2>3, <2>4 DEF HostInvariant
<1>16. CASE SetupSent
  <2>1. HostTypes'
    BY <1>0, <1>16, UsbHostAssumption DEF SetupSent, HostTypes, OnItsWay, Leave, RequestUnchanged
  <2>2. Guarded'
    BY <1>0, <1>16 DEF SetupSent, Guarded, Leave, RequestUnchanged
  <2>3. OnItsWay'
    BY <1>0, <1>16, UsbHostAssumption DEF SetupSent, OnItsWay, HostTypes, Leave, RequestUnchanged
  <2>4. overtaken' \/ NotOvertaken'
    BY <1>0, <1>16 DEF SetupSent, NotOvertaken, HostTypes, OnItsWay, Leave, RequestUnchanged
  <2> QED
    BY <2>1, <2>2, <2>3, <2>4 DEF HostInvariant
<1>17. CASE PauseEnds
  <2>1. HostTypes'
    BY <1>0, <1>17, UsbHostAssumption DEF PauseEnds, HostTypes, OnItsWay, Leave, FramePasses, RequestUnchanged
  <2>2. Guarded'
    BY <1>0, <1>17 DEF PauseEnds, Guarded, Leave, FramePasses, RequestUnchanged
  <2>3. OnItsWay'
    BY <1>0, <1>17, UsbHostAssumption DEF PauseEnds, OnItsWay, HostTypes, Leave, FramePasses, RequestUnchanged
  <2>4. overtaken' \/ NotOvertaken'
    BY <1>0, <1>17 DEF PauseEnds, NotOvertaken, HostTypes, OnItsWay, Leave, FramePasses, RequestUnchanged
  <2> QED
    BY <2>1, <2>2, <2>3, <2>4 DEF HostInvariant
<1>18. CASE InReceived
  <2>1. HostTypes'
    BY <1>0, <1>18, UsbHostAssumption DEF InReceived, HostTypes, OnItsWay, Leave, RequestUnchanged
  <2>2. Guarded'
    BY <1>0, <1>18 DEF InReceived, Guarded, Leave, RequestUnchanged
  <2>3. OnItsWay'
    BY <1>0, <1>18, UsbHostAssumption DEF InReceived, OnItsWay, HostTypes, Leave, RequestUnchanged
  <2>4. overtaken' \/ NotOvertaken'
    BY <1>0, <1>18 DEF InReceived, NotOvertaken, HostTypes, OnItsWay, Leave, RequestUnchanged
  <2> QED
    BY <2>1, <2>2, <2>3, <2>4 DEF HostInvariant
<1>19. CASE StatusOut
  <2>1. HostTypes'
    BY <1>0, <1>19, UsbHostAssumption DEF StatusOut, HostTypes, OnItsWay, EndRequest, Leave, RequestUnchanged
  <2>2. Guarded'
    BY <1>0, <1>19 DEF StatusOut, Guarded, EndRequest, Leave, RequestUnchanged
  <2>3. OnItsWay'
    BY <1>0, <1>19, UsbHostAssumption DEF StatusOut, OnItsWay, HostTypes, EndRequest, Leave, RequestUnchanged
  <2>4. overtaken' \/ NotOvertaken'
    BY <1>0, <1>19 DEF StatusOut, NotOvertaken, HostTypes, OnItsWay, EndRequest, Leave, RequestUnchanged
  <2> QED
    BY <2>1, <2>2, <2>3, <2>4 DEF HostInvariant
<1>20. CASE StatusIn
  <2>1. HostTypes'
    BY <1>0, <1>20, UsbHostAssumption DEF StatusIn, HostTypes, OnItsWay, EndRequest, Leave, RequestUnchanged
  <2>2. Guarded'
    BY <1>0, <1>20 DEF StatusIn, Guarded, EndRequest, Leave, RequestUnchanged
  <2>3. OnItsWay'
    BY <1>0, <1>20, UsbHostAssumption DEF StatusIn, OnItsWay, HostTypes, EndRequest, Leave, RequestUnchanged
  <2>4. overtaken' \/ NotOvertaken'
    BY <1>0, <1>20 DEF StatusIn, NotOvertaken, HostTypes, OnItsWay, EndRequest, Leave, RequestUnchanged
  <2> QED
    BY <2>1, <2>2, <2>3, <2>4 DEF HostInvariant
<1>21. CASE RequestFails
  <2>1. HostTypes'
    BY <1>0, <1>21, UsbHostAssumption DEF RequestFails, HostTypes, OnItsWay, EndRequest, Leave, RequestUnchanged
  <2>2. Guarded'
    BY <1>0, <1>21 DEF RequestFails, Guarded, EndRequest, Leave, RequestUnchanged
  <2>3. OnItsWay'
    BY <1>0, <1>21, UsbHostAssumption DEF RequestFails, OnItsWay, HostTypes, EndRequest, Leave, RequestUnchanged
  <2>4. overtaken' \/ NotOvertaken'
    BY <1>0, <1>21 DEF RequestFails, NotOvertaken, HostTypes, OnItsWay, EndRequest, Leave, RequestUnchanged
  <2> QED
    BY <2>1, <2>2, <2>3, <2>4 DEF HostInvariant
<1> QED
  BY <1>1, <1>2, <1>3, <1>4, <1>5, <1>6, <1>7, <1>8, <1>9, <1>10, <1>11, <1>12, <1>13, <1>14, <1>15, <1>16, <1>17, <1>18, <1>19, <1>20, <1>21 DEF HostTask

LEMMA InterruptStep == HostInvariant /\ HostInterrupt => HostInvariant'
<1> SUFFICES ASSUME HostInvariant, HostInterrupt PROVE HostInvariant'
  OBVIOUS
<1> USE DEF Late, WaitedFor, InReset, InRequest, Stages, Enumerating, pipeState, plugVars
<1>0. HostTypes /\ Guarded /\ OnItsWay /\ (overtaken \/ NotOvertaken)
  BY DEF HostInvariant
<1>1. Overtakes /\ IsConnected' \in BOOLEAN
  BY <1>0 DEF HostInterrupt, OnDisconnect, OnVBusError, OnSessionRequest, OnConnectError,
              ResetInterface, HostTypes
<1>2. \/ HostState' = "Unattached"
      \/ HostState' = "Attached"
  BY DEF HostInterrupt, OnDisconnect, OnVBusError, OnSessionRequest, OnConnectError,
         ResetInterface
<1>3. \/ "SRPI" \in enabledInts'
      \/ "DDISCI" \in enabledInts'
      \/ enabledInts' = enabledInts
  BY DEF HostInterrupt, OnDisconnect, OnVBusError, OnSessionRequest, OnConnectError,
         ResetInterface, ListenFor
<1>4. HostTypes'
  BY <1>0, <1>1 DEF HostTypes, Overtakes
<1>5. Guarded'
  BY <1>0, <1>1, <1>3 DEF Guarded, Overtakes
<1>6. OnItsWay'
  BY <1>0, <1>1 DEF OnItsWay, Overtakes
<1>7. overtaken' \/ NotOvertaken'
  BY <1>0, <1>1, <1>2 DEF NotOvertaken, Overtakes, HostTypes
<1> QED
  BY <1>4, <1>5, <1>6, <1>7 DEF HostInvariant

LEMMA HostStep == HostInvariant /\ (HostNext \/ UNCHANGED hostVars) => HostInvariant'
<1> SUFFICES ASSUME HostInvariant, HostNext \/ UNCHANGED hostVars PROVE HostInvariant'
  OBVIOUS
<1>1. CASE HostTask
  BY <1>1, TaskStep
<1>2. CASE HostInterrupt
  BY <1>2, InterruptStep
<1>3. CASE PlugIn \/ LinesRise \/ PullOut \/ VBusDips \/ UNCHANGED hostVars
  <2>1. UNCHANGED <<HostState, PostWaitState, overtaken, hostPc, next, dataLen, frozen,
                    addressSent, enabledInts, IsConnected>>
    BY <1>3 DEF PlugIn, LinesRise, PullOut, VBusDips, hostVars, stateVars, pipeState, plugVars
  <2> QED
    BY <2>1 DEF HostInvariant, HostTypes, Guarded, OnItsWay, NotOvertaken
<1> QED
  BY <1>1, <1>2, <1>3 DEF HostNext

LEMMA HostIsTracked == HostInvariant => HostKeepsTrack
  BY DEF HostInvariant, HostTypes, Guarded, NotOvertaken, Late, HostKeepsTrack, Enumerating,
         InReset, InRequest, Stages

-----------------------------------------------------------------------------
(*  The library as a whole.                                                *)

LibraryInvariant ==
  /\ DelayInvariant /\ ClockInvariant /\ PipeInvariant /\ WalkInvariant
  /\ AllocInvariant /\ HidInvariant /\ HostInvariant

LEMMA LibraryStarts == MCInit => LibraryInvariant
  BY DelayStarts, ClockStarts, PipeStarts, WalkStarts, AllocStarts, HidStarts, HostStarts
     DEF MCInit, LibraryInvariant

LEMMA LibraryStep == LibraryInvariant /\ [MCNext]_libraryVars => LibraryInvariant'
<1> SUFFICES ASSUME LibraryInvariant, [MCNext]_libraryVars PROVE LibraryInvariant'
  OBVIOUS
<1>1. DelayInvariant /\ ClockInvariant /\ PipeInvariant /\ WalkInvariant /\ AllocInvariant /\ HidInvariant /\ HostInvariant
  BY DEF LibraryInvariant
<1>2. /\ DelayNext \/ UNCHANGED delayVars
      /\ ClockNext \/ UNCHANGED clockVars
      /\ PipeNext \/ UNCHANGED pipeVars
      /\ WalkNext \/ UNCHANGED walkVars
      /\ AllocNext \/ UNCHANGED allocVars
      /\ HidNext \/ UNCHANGED hidVars
      /\ HostNext \/ UNCHANGED hostVars
  <2>1. CASE MCNext
    BY <2>1 DEF MCNext, Others
  <2>2. CASE UNCHANGED libraryVars
    BY <2>2 DEF libraryVars
  <2> QED
    BY <2>1, <2>2
<1>3. DelayInvariant'
  BY <1>1, <1>2, DelayStep
<1>4. ClockInvariant'
  BY <1>1, <1>2, ClockStep
<1>5. PipeInvariant'
  BY <1>1, <1>2, PipeStep
<1>6. WalkInvariant'
  BY <1>1, <1>2, WalkStep
<1>7. AllocInvariant'
  BY <1>1, <1>2, AllocStep
<1>8. HidInvariant'
  BY <1>1, <1>2, HidStep
<1>9. HostInvariant'
  BY <1>1, <1>2, HostStep
<1> QED
  BY <1>3, <1>4, <1>5, <1>6, <1>7, <1>8, <1>9 DEF LibraryInvariant

LEMMA LibraryInvariantHolds == MCSpec => []LibraryInvariant
<1>1. MCInit => LibraryInvariant
  BY LibraryStarts
<1>2. LibraryInvariant /\ [MCNext]_libraryVars => LibraryInvariant'
  BY LibraryStep
<1> QED
  BY <1>1, <1>2, PTL DEF MCSpec

(* Every allocation of LUFA's block allocator keeps its blocks and what    *)
(* the application put there, and no block is lost but those of an         *)
(* allocation that found no handle, for every size of the heap.            *)
THEOREM AllocationsStayIntact == MCSpec => []MCAllocationsIntact
<1>1. LibraryInvariant => MCAllocationsIntact
  BY AllocIsIntact DEF LibraryInvariant, MCAllocationsIntact
<1> QED
  BY <1>1, LibraryInvariantHolds, PTL

(* ProcessHIDReport records the fields that the descriptor declares, for   *)
(* every number of items and whatever they carry.                          *)
THEOREM FieldsStayAsDeclared == MCSpec => []MCFieldsAsDeclared
<1>1. LibraryInvariant => MCFieldsAsDeclared
  BY FieldsAreDeclared DEF LibraryInvariant, MCFieldsAsDeclared
<1> QED
  BY <1>1, LibraryInvariantHolds, PTL

(* A delay is off by no more than its wrap, and a time that is read while  *)
(* the clock counts by no more than the carry that came in between.        *)
THEOREM TimeStaysKept == MCSpec => []MCTimeKept
<1>1. LibraryInvariant => MCTimeKept
  BY TimeIsKept DEF LibraryInvariant, MCTimeKept
<1> QED
  BY <1>1, LibraryInvariantHolds, PTL

(* The stream functions of LUFA's pipes move every byte once and in order, *)
(* for every length, bank size and timeout.                                *)
THEOREM StreamsStayInOrder == MCSpec => []MCStreamsInOrder
<1>1. LibraryInvariant => MCStreamsInOrder
  BY StreamsAreInOrder DEF LibraryInvariant, MCStreamsInOrder
<1> QED
  BY <1>1, LibraryInvariantHolds, PTL

(* Whoever walks the configuration descriptor comes upon the endpoints     *)
(* that the device configures, and no others, and knows what remains until *)
(* a search with a comparator has stopped.                                 *)
THEOREM EndpointsStayInAgreement == MCSpec => []MCEndpointsAgree
<1>1. LibraryInvariant => MCEndpointsAgree
  BY WalkAgrees DEF LibraryInvariant, MCEndpointsAgree
<1> QED
  BY <1>1, LibraryInvariantHolds, PTL

(* Between two rounds of USB_HostTask the control pipe is frozen and a     *)
(* host without a device listens for one; unless an interrupt overtook a   *)
(* case, only a connected device is reset and asked, and a device that is  *)
(* taken to have its address has accepted it, for every length of the      *)
(* waits and of the requests.                                              *)
THEOREM HostStaysOnTrack == MCSpec => []HostKeepsTrack
<1>1. LibraryInvariant => HostKeepsTrack
  BY HostIsTracked DEF LibraryInvariant
<1> QED
  BY <1>1, LibraryInvariantHolds, PTL

=============================================================================
