---------------------------- MODULE RadioProofs ----------------------------
(***************************************************************************)
(* Proofs about module Radio: type correctness, the idle chip that         *)
(* ccTxPacket leaves, the accounting of the FIFO's bytes under which the   *)
(* free bytes the driver relies on are never too many, and, on top of it,  *)
(* where every byte of a packet is until the whole of it is on the air.    *)
(***************************************************************************)
EXTENDS Radio, SequenceTheorems, TLAPS

(* The rest of a number fits the modulus, and a small number is its rest.  *)
LEMMA Rests ==
  /\ \A n \in Int : n % CountModulus \in 0 .. CountModulus - 1
  /\ \A n \in 0 .. CountModulus - 1 : n % CountModulus = n
BY SizesAssumption

(* What a write leaves in the FIFO: all of it if it fits.                  *)
LEMMA Written ==
  ASSUME fifo \in Seq(FifoByte), Len(fifo) <= FifoSize, overflowed \in BOOLEAN,
         NEW bytes \in Seq(FifoByte), Write(bytes)
  PROVE  /\ fifo' \in Seq(FifoByte) /\ Len(fifo') <= FifoSize /\ overflowed' \in BOOLEAN
         /\ \A i \in 1 .. Len(fifo) : i <= Len(fifo') /\ fifo'[i] = fifo[i]
         /\ \A i \in 1 .. Len(fifo') : i > Len(fifo) => fifo'[i] = bytes[i - Len(fifo)]
                                                        /\ i - Len(fifo) \in 1 .. Len(bytes)
         /\ Len(bytes) <= FifoSize - Len(fifo) =>
              Len(fifo') = Len(fifo) + Len(bytes) /\ overflowed' = overflowed
<1> DEFINE k == Least(Len(bytes), FifoSize - Len(fifo))
           part == SubSeq(bytes, 1, k)
<1>1. Len(fifo) \in Nat /\ Len(bytes) \in Nat /\ FifoSize \in Nat
  BY LenProperties, SizesAssumption
<1>2. /\ k \in Nat /\ k <= Len(bytes) /\ k <= FifoSize - Len(fifo)
      /\ Len(bytes) <= FifoSize - Len(fifo) => k = Len(bytes)
  BY <1>1 DEF Least
<1> HIDE DEF k
<1>3. \A i \in 1 .. k : bytes[i] \in FifoByte
  BY <1>1, <1>2, ElementOfSeq
<1>4. part \in Seq(FifoByte) /\ Len(part) = k /\ \A i \in 1 .. k : part[i] = bytes[i]
  BY <1>2, <1>3, SubSeqProperties
<1>5. fifo' = fifo \o part
  BY DEF Write, k
<1> HIDE DEF part
<1>6. /\ fifo \o part \in Seq(FifoByte) /\ Len(fifo \o part) = Len(fifo) + Len(part)
      /\ \A i \in 1 .. Len(fifo) + Len(part) :
           (fifo \o part)[i] = IF i <= Len(fifo) THEN fifo[i] ELSE part[i - Len(fifo)]
  BY <1>4, ConcatProperties
<1>7. /\ overflowed' \in BOOLEAN
      /\ Len(bytes) <= FifoSize - Len(fifo) => overflowed' = overflowed
  BY <1>1 DEF Write
<1> QED
  BY <1>1, <1>2, <1>4, <1>5, <1>6, <1>7

(* The FIFO after the chip has taken its first byte.                       *)
LEMMA Taken ==
  ASSUME fifo \in Seq(FifoByte), fifo # <<>>, fifo' = Tail(fifo)
  PROVE  /\ fifo' \in Seq(FifoByte) /\ Len(fifo) \in Nat \ {0} /\ Len(fifo') = Len(fifo) - 1
         /\ Head(fifo) = fifo[1] /\ fifo[1] \in FifoByte
         /\ \A i \in 1 .. Len(fifo') : fifo'[i] = fifo[i + 1] /\ i + 1 \in 1 .. Len(fifo)
<1>1. Len(fifo) \in Nat \ {0}
  BY EmptySeq
<1> QED
  BY <1>1, HeadTailProperties, ElementOfSeq, LenProperties

-----------------------------------------------------------------------------
(* Type correctness.  The bytes in the FIFO belong to packets there are.   *)
RadioTypes ==
  /\ TypeOK /\ packets \in Seq(0 .. CountModulus - 1)
  /\ pc \notin {"idle", "receive"} => packets # <<>>
  /\ \A i \in 1 .. Len(fifo) : fifo[i].packet \in 1 .. Len(packets)

(* The chip keeps its types.                                               *)
LEMMA ChipTyped == ASSUME RadioTypes, Chip PROVE RadioTypes'
<1>1. CASE Settle
  BY <1>1 DEF Settle, RadioTypes, TypeOK, States, driverVars, historyVars
<1>2. ASSUME fifo # <<>>, fifo' = Tail(fifo), UNCHANGED packets
      PROVE  /\ fifo' \in Seq(FifoByte) /\ Len(fifo') <= FifoSize
             /\ \A i \in 1 .. Len(fifo') : fifo'[i].packet \in 1 .. Len(packets')
             /\ Head(fifo) \in FifoByte /\ Head(fifo).packet \in 1 .. Len(packets)
  <2>1. fifo \in Seq(FifoByte) /\ Len(fifo) <= FifoSize /\ FifoSize \in Nat
    BY SizesAssumption DEF RadioTypes, TypeOK
  <2> QED
    BY <1>2, <2>1, Taken DEF RadioTypes
<1>3. CASE TransmitLength
  <2>1. /\ fifo # <<>> /\ fifo' = Tail(fifo)
        /\ UNCHANGED <<state, pc, status, count, nsent, packets, written, skipped, underflowed, overflowed>>
    BY <1>3 DEF TransmitLength, driverVars
  <2>2. left' \in 0 .. CountModulus - 1
    <3>1. packets[Head(fifo).packet] \in 0 .. CountModulus - 1
      BY <1>2, <2>1, ElementOfSeq DEF RadioTypes
    <3>2. left' \in LengthsOf(Head(fifo))
      BY <1>3 DEF TransmitLength
    <3> QED
      BY <3>1, <3>2, SizesAssumption DEF LengthsOf
  <2>3. air' \in Seq(Seq(FifoByte))
    <3>1. <<Head(fifo)>> \in Seq(FifoByte)
      BY <1>2, <2>1
    <3>2. air \in Seq(Seq(FifoByte))
      BY DEF RadioTypes, TypeOK
    <3>3. Append(air, <<Head(fifo)>>) \in Seq(Seq(FifoByte))
      BY <3>1, <3>2, AppendProperties
    <3> QED
      BY <1>3, <3>2, <3>3, Zenon DEF TransmitLength, NewOnAir
  <2> QED
    BY <1>2, <2>1, <2>2, <2>3 DEF RadioTypes, TypeOK
<1>4. CASE TransmitByte
  <2>1. /\ fifo # <<>> /\ fifo' = Tail(fifo) /\ left > 0 /\ left' = left - 1
        /\ UNCHANGED <<state, pc, status, count, nsent, packets, written, skipped, underflowed, overflowed>>
    BY <1>4 DEF TransmitByte, driverVars
  <2>2. left' \in 0 .. CountModulus - 1
    BY <2>1, SizesAssumption DEF RadioTypes, TypeOK, NoPacket
  <2>3. air' \in Seq(Seq(FifoByte))
    <3> DEFINE last == Append(air[Len(air)], Head(fifo))
               more == [air EXCEPT ![Len(air)] = last]
    <3>1. air \in Seq(Seq(FifoByte)) /\ Len(air) \in Nat /\ DOMAIN air = 1 .. Len(air)
      BY LenProperties DEF RadioTypes, TypeOK
    <3>2. Head(fifo) \in FifoByte
      BY <1>2, <2>1
    <3>3. air = <<>> \/ (Len(air) \in 1 .. Len(air) /\ last \in Seq(FifoByte))
      BY <3>1, <3>2, EmptySeq, ElementOfSeq, AppendProperties
    <3>4. MoreOnAir(Head(fifo)) = air \/ MoreOnAir(Head(fifo)) = more
      BY Zenon DEF MoreOnAir
    <3> HIDE DEF last
    <3>5. ASSUME air # <<>> PROVE more \in Seq(Seq(FifoByte))
      <4>1. Len(air) \in 1 .. Len(air) /\ last \in Seq(FifoByte)
        BY <3>3, <3>5
      <4> HIDE DEF more
      <4> QED
        BY <3>1, <4>1, ExceptSeq, Zenon DEF more
    <3>6. air = <<>> => more = air
      <4> SUFFICES ASSUME air = <<>> PROVE more = air
        OBVIOUS
      <4>1. DOMAIN air = {} /\ air = [i \in {} |-> 0]
        OBVIOUS
      <4> QED
        BY <4>1, SMT
    <3> QED
      BY <1>4, <3>1, <3>4, <3>5, <3>6, Zenon DEF TransmitByte
  <2> QED
    BY <1>2, <2>1, <2>2, <2>3 DEF RadioTypes, TypeOK
<1>5. CASE EndPacket
  BY <1>5 DEF EndPacket, AfterPacket, CC1100_CFG, RadioTypes, TypeOK, States, NoPacket,
              driverVars, historyVars
<1>6. CASE Underflow
  BY <1>6 DEF Underflow, RadioTypes, TypeOK, States, driverVars
<1> QED
  BY <1>1, <1>3, <1>4, <1>5, <1>6 DEF Chip

(* The call of ccTxPacket keeps the types.                                 *)
LEMMA TransmitTyped ==
  ASSUME RadioTypes, NEW n \in 0 .. CountModulus - 1, Transmit(n)
  PROVE  RadioTypes'
<1>1. /\ packets' = Append(packets, n) /\ count' = n /\ nsent' = 0 /\ written' = 0 /\ pc' = "first"
      /\ UNCHANGED <<state, fifo, left, status, air, skipped, underflowed, overflowed>>
  BY DEF Transmit, chipVars
<1>2. packets \in Seq(0 .. CountModulus - 1) /\ Len(packets) \in Nat
  BY DEF RadioTypes
<1>3. /\ packets' \in Seq(0 .. CountModulus - 1) /\ Len(packets') = Len(packets) + 1
      /\ packets' # <<>>
  BY <1>1, <1>2, AppendProperties
<1>4. packets' \in Seq(Nat)
  BY <1>3, SeqMonotonic, SizesAssumption
<1>5. TypeOK'
  BY <1>1, <1>4 DEF RadioTypes, TypeOK, Points
<1> QED
  BY <1>1, <1>2, <1>3, <1>5 DEF RadioTypes

(* A write of bytes of the current packet keeps the FIFO's types.          *)
LEMMA WriteTyped ==
  ASSUME RadioTypes, packets # <<>>, UNCHANGED packets,
         NEW k \in Nat, NEW s \in [1 .. k -> Nat], Write([i \in 1 .. k |-> Byte(s[i])])
  PROVE  /\ fifo' \in Seq(FifoByte) /\ Len(fifo') <= FifoSize /\ overflowed' \in BOOLEAN
         /\ \A i \in 1 .. Len(fifo') : fifo'[i].packet \in 1 .. Len(packets')
         /\ \A i \in 1 .. Len(fifo) : i <= Len(fifo') /\ fifo'[i] = fifo[i]
         /\ fifo = <<>> /\ fifo' # <<>> => fifo'[1] = Byte(s[1])
         /\ \A i \in 1 .. Len(fifo') : i > Len(fifo) => fifo'[i] = Byte(s[i - Len(fifo)])
                                                        /\ i - Len(fifo) \in 1 .. k
         /\ k <= FifoSize - Len(fifo) => Len(fifo') = Len(fifo) + k /\ overflowed' = overflowed
<1> DEFINE bytes == [i \in 1 .. k |-> Byte(s[i])]
<1>1. packets \in Seq(Nat) /\ Len(packets) \in Nat \ {0}
  BY EmptySeq DEF RadioTypes, TypeOK
<1>2. \A p \in Nat : Byte(p) \in FifoByte /\ Byte(p).packet \in 1 .. Len(packets)
  BY <1>1 DEF Byte, FifoByte
<1> HIDE DEF Byte
<1>3. bytes \in Seq(FifoByte) /\ Len(bytes) = k
  BY <1>2
<1>4. \A i \in 1 .. k : bytes[i].packet \in 1 .. Len(packets) /\ bytes[i] = Byte(s[i])
  BY <1>2
<1> HIDE DEF bytes
<1>5. fifo \in Seq(FifoByte) /\ Len(fifo) \in Nat /\ Len(fifo) <= FifoSize /\ overflowed \in BOOLEAN
  BY DEF RadioTypes, TypeOK
<1>6. Write(bytes)
  BY DEF bytes
<1>7. /\ fifo' \in Seq(FifoByte) /\ Len(fifo') <= FifoSize /\ overflowed' \in BOOLEAN
      /\ \A i \in 1 .. Len(fifo) : i <= Len(fifo') /\ fifo'[i] = fifo[i]
      /\ \A i \in 1 .. Len(fifo') : i > Len(fifo) => fifo'[i] = bytes[i - Len(fifo)]
                                                     /\ i - Len(fifo) \in 1 .. Len(bytes)
      /\ Len(bytes) <= FifoSize - Len(fifo) =>
           Len(fifo') = Len(fifo) + Len(bytes) /\ overflowed' = overflowed
  BY <1>3, <1>5, <1>6, Written
<1>8. \A i \in 1 .. Len(fifo') : fifo'[i].packet \in 1 .. Len(packets')
  <2> SUFFICES ASSUME NEW i \in 1 .. Len(fifo') PROVE fifo'[i].packet \in 1 .. Len(packets)
    OBVIOUS
  <2>1. CASE i \in 1 .. Len(fifo)
    BY <2>1, <1>7 DEF RadioTypes
  <2>2. CASE i > Len(fifo)
    BY <2>2, <1>3, <1>4, <1>7
  <2> QED
    BY <1>5, <2>1, <2>2
<1>9. fifo = <<>> /\ fifo' # <<>> => fifo'[1] = Byte(s[1])
  <2> SUFFICES ASSUME fifo = <<>>, fifo' # <<>> PROVE fifo'[1] = Byte(s[1])
    OBVIOUS
  <2>1. Len(fifo) = 0 /\ 1 \in 1 .. Len(fifo')
    BY <1>7, EmptySeq
  <2> QED
    BY <2>1, <1>3, <1>4, <1>7
<1>10. \A i \in 1 .. Len(fifo') : i > Len(fifo) => fifo'[i] = Byte(s[i - Len(fifo)])
                                                  /\ i - Len(fifo) \in 1 .. k
  BY <1>3, <1>4, <1>7
<1> QED
  BY <1>3, <1>7, <1>8, <1>9, <1>10

(* The length byte is a write of one byte.                                 *)
LEMMA LengthWrite ==
  ASSUME RadioTypes, WriteLength
  PROVE  /\ fifo' \in Seq(FifoByte) /\ Len(fifo') <= FifoSize /\ overflowed' \in BOOLEAN
         /\ \A i \in 1 .. Len(fifo') : fifo'[i].packet \in 1 .. Len(packets')
         /\ \A i \in 1 .. Len(fifo) : i <= Len(fifo') /\ fifo'[i] = fifo[i]
         /\ fifo = <<>> /\ fifo' # <<>> => fifo'[1] = Byte(0)
         /\ 1 <= FifoSize - Len(fifo) => Len(fifo') = Len(fifo) + 1 /\ overflowed' = overflowed
<1> DEFINE s == [i \in 1 .. 1 |-> 0]
<1>1. s \in [1 .. 1 -> Nat] /\ s[1] = 0
  OBVIOUS
<1>2. <<Byte(0)>> = [i \in 1 .. 1 |-> Byte(s[i])]
  BY <1>1
<1>3. Write([i \in 1 .. 1 |-> Byte(s[i])])
  BY <1>2 DEF WriteLength
<1>4. packets # <<>> /\ UNCHANGED packets
  BY DEF WriteLength, RadioTypes
<1> HIDE DEF s
<1> QED
  BY <1>1, <1>3, <1>4, WriteTyped

(* The payload is a write of as many bytes as fit the status read before.  *)
LEMMA PayloadWrite ==
  ASSUME RadioTypes, WritePayload
  PROVE  /\ fifo' \in Seq(FifoByte) /\ Len(fifo') <= FifoSize /\ overflowed' \in BOOLEAN
         /\ \A i \in 1 .. Len(fifo') : fifo'[i].packet \in 1 .. Len(packets')
         /\ \A i \in 1 .. Len(fifo) : i <= Len(fifo') /\ fifo'[i] = fifo[i]
         /\ \A i \in 1 .. Len(fifo') :
              i > Len(fifo) => fifo'[i] = Byte(nsent + (i - Len(fifo)))
         /\ Chunk <= FifoSize - Len(fifo) =>
              Len(fifo') = Len(fifo) + Chunk /\ overflowed' = overflowed
         /\ Chunk \in 0 .. count - nsent /\ Chunk <= status.free
         /\ Chunk \in {status.free, count - nsent}
<1> DEFINE s == [i \in 1 .. Chunk |-> nsent + i]
<1>1. /\ Chunk \in 0 .. count - nsent /\ Chunk <= status.free
      /\ Chunk \in {status.free, count - nsent} /\ nsent \in Nat
  BY SizesAssumption DEF RadioTypes, TypeOK, Chunk, Least
<1>2. s \in [1 .. Chunk -> Nat] /\ \A i \in 1 .. Chunk : s[i] = nsent + i
  BY <1>1
<1>3. [i \in 1 .. Chunk |-> Byte(nsent + i)] = [i \in 1 .. Chunk |-> Byte(s[i])]
  BY <1>2
<1>4. Write([i \in 1 .. Chunk |-> Byte(s[i])])
  BY <1>3 DEF WritePayload
<1>5. packets # <<>> /\ UNCHANGED packets
  BY DEF WritePayload, RadioTypes
<1>6. Chunk \in Nat
  BY <1>1, SizesAssumption DEF RadioTypes, TypeOK
<1> HIDE DEF s
<1>7. /\ fifo' \in Seq(FifoByte) /\ Len(fifo') <= FifoSize /\ overflowed' \in BOOLEAN
      /\ \A i \in 1 .. Len(fifo') : fifo'[i].packet \in 1 .. Len(packets')
      /\ \A i \in 1 .. Len(fifo) : i <= Len(fifo') /\ fifo'[i] = fifo[i]
      /\ \A i \in 1 .. Len(fifo') : i > Len(fifo) => fifo'[i] = Byte(s[i - Len(fifo)])
                                                     /\ i - Len(fifo) \in 1 .. Chunk
      /\ Chunk <= FifoSize - Len(fifo) =>
           Len(fifo') = Len(fifo) + Chunk /\ overflowed' = overflowed
  BY <1>2, <1>4, <1>5, <1>6, WriteTyped
<1>8. \A i \in 1 .. Len(fifo') : i > Len(fifo) => fifo'[i] = Byte(nsent + (i - Len(fifo)))
  BY <1>2, <1>7
<1> QED
  BY <1>1, <1>7, <1>8

(* The status byte has its type.                                           *)
LEMMA StatusTyped ==
  ASSUME RadioTypes
  PROVE  /\ TxStatus \in [state : States, free : Nat] /\ TxStatus.state = state
         /\ TxStatus.free <= StatusMax /\ TxStatus.free <= FifoSize - Len(fifo)
         /\ fifo = <<>> => TxStatus.free >= 2
BY SizesAssumption DEF RadioTypes, TypeOK, TxStatus, Least

(* The driver keeps its types.                                             *)
LEMMA DriverTyped == ASSUME RadioTypes, Driver PROVE RadioTypes'
<1>1. CASE FirstStatus
  BY <1>1, StatusTyped DEF FirstStatus, RadioTypes, TypeOK, Points, chipVars, historyVars
<1>2. CASE SecondStatus
  BY <1>2, StatusTyped DEF SecondStatus, RadioTypes, TypeOK, Points, chipVars, historyVars
<1>3. CASE AllSent
  BY <1>3 DEF AllSent, RadioTypes, TypeOK, Points, States, chipVars, historyVars
<1>4. CASE Strobe
  BY <1>4 DEF Strobe, RadioTypes, TypeOK, Points, States, driverVars, historyVars
<1>5. CASE KeepFilling
  BY <1>5 DEF KeepFilling, RadioTypes, TypeOK, Points, chipVars, driverVars, historyVars
<1>6. CASE WriteLength
  <2>1. /\ pc' = "payload" /\ status' = [status EXCEPT !.free = (@ - 1) % CountModulus]
        /\ UNCHANGED <<state, left, count, nsent, packets, written, air, skipped, underflowed>>
        /\ pc = "fill"
    BY <1>6 DEF WriteLength
  <2>2. status' \in [state : States, free : Nat]
    <3>1. status \in [state : States, free : Nat]
      BY DEF RadioTypes, TypeOK
    <3>2. (status.free - 1) % CountModulus \in Nat
      BY <3>1, Rests
    <3> QED
      BY <2>1, <3>1, <3>2
  <2> QED
    BY <1>6, <2>1, <2>2, LengthWrite DEF RadioTypes, TypeOK, Points
<1>7. CASE NoLength
  BY <1>7 DEF NoLength, RadioTypes, TypeOK, Points, chipVars, driverVars, historyVars
<1>8. CASE WritePayload
  <2>1. /\ pc' = "first" /\ nsent' = nsent + Chunk /\ written' = written + Chunk
        /\ UNCHANGED <<state, left, status, count, packets, air, skipped, underflowed>>
        /\ pc = "payload"
    BY <1>8 DEF WritePayload
  <2>2. /\ fifo' \in Seq(FifoByte) /\ Len(fifo') <= FifoSize /\ overflowed' \in BOOLEAN
        /\ \A i \in 1 .. Len(fifo') : fifo'[i].packet \in 1 .. Len(packets')
        /\ Chunk \in 0 .. count - nsent
    BY <1>8, PayloadWrite
  <2> QED
    BY <2>1, <2>2 DEF RadioTypes, TypeOK, Points
<1>9. CASE Flush
  BY <1>9, SizesAssumption DEF Flush, RadioTypes, TypeOK, Points, States, driverVars, historyVars
<1>10. CASE GiveUp
  BY <1>10 DEF GiveUp, RadioTypes, TypeOK, Points, chipVars
<1>11. CASE NothingToReceive
  BY <1>11 DEF NothingToReceive, RadioTypes, TypeOK, Points, chipVars, driverVars, historyVars
<1> QED
  BY <1>1, <1>2, <1>3, <1>4, <1>5, <1>6, <1>7, <1>8, <1>9, <1>10, <1>11 DEF Driver

(* The types hold always.                                                  *)
LEMMA TypesHold == Spec => []RadioTypes
<1>1. Init => RadioTypes
  <2> SUFFICES ASSUME Init PROVE RadioTypes
    OBVIOUS
  <2>1. /\ <<>> \in Seq(FifoByte) /\ <<>> \in Seq(Nat) /\ <<>> \in Seq(Seq(FifoByte))
        /\ <<>> \in Seq(0 .. CountModulus - 1) /\ Len(<<>>) = 0
    BY EmptySeq
  <2>2. 0 \in 0 .. CountModulus - 1 /\ 0 \in 0 .. 0 /\ 0 <= FifoSize
    BY SizesAssumption
  <2>3. [state |-> "IDLE", free |-> 0] \in [state : States, free : Nat]
    BY DEF States
  <2>4. TypeOK
    BY <2>1, <2>2, <2>3 DEF Init, TypeOK, States, Points
  <2> QED
    BY <2>1, <2>4 DEF Init, RadioTypes
<1>2. RadioTypes /\ [Next]_vars => RadioTypes'
  <2> SUFFICES ASSUME RadioTypes, [Next]_vars PROVE RadioTypes'
    OBVIOUS
  <2>1. CASE Chip
    BY <2>1, ChipTyped
  <2>2. CASE StartTx
    BY <2>2, TransmitTyped, Rests, SizesAssumption DEF StartTx
  <2>3. CASE StartTest
    BY <2>3, TransmitTyped, SizesAssumption DEF StartTest
  <2>4. CASE StartRx
    BY <2>4 DEF StartRx, RadioTypes, TypeOK, Points, chipVars, driverVars, historyVars
  <2>5. CASE Driver
    BY <2>5, DriverTyped
  <2>6. CASE UNCHANGED vars
    BY <2>6 DEF vars, RadioTypes, TypeOK, chipVars, driverVars, historyVars
  <2> QED
    BY <2>1, <2>2, <2>3, <2>4, <2>5, <2>6 DEF Next
<1> QED
  BY <1>1, <1>2, PTL DEF Spec

(* Type correctness: every variable of the chip and the driver stays in    *)
(* its range, the uint8_t counts included, and the FIFO in its size.       *)
THEOREM TypeCorrect == Spec => []TypeOK
<1>1. RadioTypes => TypeOK
  BY DEF RadioTypes
<1> QED
  BY <1>1, TypesHold, PTL

-----------------------------------------------------------------------------
(* The idle chip.  A status that says idle stays true until the driver     *)
(* strobes, since nothing else wakes the chip.                             *)
IdleInv ==
  /\ pc \in {"idle", "receive"} => state = "IDLE"
  /\ pc \in {"second", "switch"} /\ status.state = "IDLE" => state = "IDLE"

(* No step of the chip or the driver breaks this.                          *)
LEMMA IdleInvHolds == Spec => []IdleInv
<1>1. Init => IdleInv
  BY DEF Init, IdleInv
<1>2. RadioTypes /\ IdleInv /\ [Next]_vars => IdleInv'
  <2> SUFFICES ASSUME RadioTypes, IdleInv, [Next]_vars PROVE IdleInv'
    OBVIOUS
  <2> USE DEF IdleInv
  <2>1. CASE Chip
    <3>1. UNCHANGED <<pc, status>> /\ (state = "IDLE" => state' = "IDLE")
      BY <2>1 DEF Chip, Settle, TransmitLength, TransmitByte, EndPacket, Underflow,
                  driverVars, historyVars
    <3> QED
      BY <3>1
  <2>2. CASE StartTx \/ StartTest \/ StartRx
    BY <2>2 DEF StartTx, StartTest, StartRx, Transmit, chipVars, driverVars
  <2>3. CASE FirstStatus \/ SecondStatus
    BY <2>3, StatusTyped DEF FirstStatus, SecondStatus, chipVars
  <2>4. CASE AllSent
    BY <2>4 DEF AllSent, chipVars
  <2>5. CASE Strobe \/ KeepFilling \/ NoLength \/ WriteLength \/ WritePayload \/ Flush \/ GiveUp
    <3>1. pc' \in {"fill", "payload", "first"}
      BY <2>5 DEF Strobe, KeepFilling, NoLength, WriteLength, WritePayload, Flush, GiveUp
    <3> QED
      BY <3>1
  <2>6. CASE NothingToReceive
    BY <2>6 DEF NothingToReceive, chipVars
  <2>7. CASE UNCHANGED vars
    BY <2>7 DEF vars, chipVars, driverVars
  <2> QED
    BY <2>1, <2>2, <2>3, <2>4, <2>5, <2>6, <2>7 DEF Next, Driver
<1> QED
  BY <1>1, <1>2, TypesHold, PTL DEF Spec

(* ccTxPacket comes back only with the chip idle: every round of the main  *)
(* loop finds it so.                                                       *)
THEOREM ChipRestsBetweenPackets == Spec => []IdleBetweenPackets
<1>1. IdleInv => IdleBetweenPackets
  BY DEF IdleInv, IdleBetweenPackets
<1> QED
  BY <1>1, IdleInvHolds, PTL

-----------------------------------------------------------------------------
(* Where the bytes of a packet are: none written yet; all that were        *)
(* written in the FIFO, the length byte first; some of them transmitted;   *)
(* all of them.                                                            *)
Fresh   == fifo = <<>> /\ left = NoPacket /\ written = 0 /\ nsent = 0
Loaded  == /\ left = NoPacket /\ Len(fifo) = written + 1 /\ fifo[1] = Byte(0)
           /\ state \in {"SETTLING", "TX"}
Sending == left \in Nat /\ left = count - written + Len(fifo) /\ state = "TX"
Sent    == /\ left = NoPacket /\ fifo = <<>> /\ written = count
           /\ state \in {"IDLE", "CALIBRATE"}

(* Under way: the driver counts what it has written, or gave the rest up.  *)
UnderWay == nsent \in {written, count} /\ (Loaded \/ Sending \/ Sent)

(* What holds at each point of the driver.                                 *)
AtPoint ==
  /\ pc \in {"idle", "receive"} => fifo = <<>> /\ left = NoPacket
  /\ pc \in {"first", "second", "switch"} =>
       \/ Fresh /\ state = "IDLE" /\ (pc # "first" => status.state = "IDLE" /\ status.free >= 2)
       \/ nsent > 0 /\ UnderWay
  /\ pc = "fill" =>
       \/ Fresh /\ state \in {"SETTLING", "TX"} /\ status.free >= 2 /\ count > 0
       \/ nsent > 0 /\ UnderWay
  /\ pc = "payload" => UnderWay /\ (nsent = 0 => status.free > 0 /\ count > 0)

(* A status the driver relies on is never too great, since the chip only   *)
(* makes room.                                                             *)
StatusHolds ==
  /\ pc \in {"second", "switch", "fill", "payload"} =>
       status.free <= FifoSize - Len(fifo) /\ status.free <= StatusMax
  /\ pc \in {"second", "switch"} => status.state # "TX_UNDERFLOW"

Accounting ==
  ~underflowed =>
    /\ ~overflowed /\ state # "TX_UNDERFLOW" /\ written <= count
    /\ pc \notin {"idle", "receive"} => packets[Len(packets)] = count
    /\ StatusHolds /\ AtPoint

(* The chip takes bytes out in order and never adds any.                   *)
LEMMA ChipAccounts ==
  ASSUME RadioTypes, IdleInv, Accounting, Chip, ~underflowed'
  PROVE  Accounting'
<1>1. ~underflowed /\ UNCHANGED <<pc, status, count, nsent, packets, written, overflowed>>
  BY DEF Chip, Settle, TransmitLength, TransmitByte, EndPacket, Underflow, driverVars,
         historyVars, RadioTypes, TypeOK
<1>2. CASE Settle
  <2>1. /\ state \in {"SETTLING", "CALIBRATE"} /\ UNCHANGED <<fifo, left>>
        /\ state' = IF state = "SETTLING" THEN "TX" ELSE "IDLE"
    BY <1>2 DEF Settle
  <2>2. UnderWay => UnderWay'
    BY <1>1, <2>1 DEF UnderWay, Loaded, Sending, Sent, Byte
  <2> QED
    BY <1>1, <2>1, <2>2 DEF Accounting, StatusHolds, AtPoint, Fresh
<1>3. CASE TransmitLength
  <2>1. /\ state = "TX" /\ left = NoPacket /\ fifo # <<>> /\ fifo' = Tail(fifo)
        /\ left' \in LengthsOf(Head(fifo)) /\ UNCHANGED state
    BY <1>3 DEF TransmitLength
  <2>2. /\ fifo \in Seq(FifoByte) /\ count \in Nat /\ written \in Nat
        /\ Len(fifo) \in Nat \ {0} /\ Len(fifo') = Len(fifo) - 1 /\ Head(fifo) = fifo[1]
    BY <2>1, Taken DEF RadioTypes, TypeOK
  <2>3. pc \notin {"idle", "receive"} /\ UnderWay /\ Loaded
    BY <1>1, <2>1, <2>2 DEF Accounting, AtPoint, UnderWay, Fresh, Sending, Sent, NoPacket,
                            RadioTypes, TypeOK, Points
  <2>4. left' = count
    <3>1. Head(fifo) = Byte(0) /\ packets[Len(packets)] = count
      BY <1>1, <2>2, <2>3 DEF Loaded, Accounting
    <3> QED
      BY <2>1, <3>1 DEF LengthsOf, CC1100_CFG, Byte
  <2>5. Sending' /\ UnderWay'
    BY <1>1, <2>1, <2>2, <2>3, <2>4 DEF UnderWay, Loaded, Sending
  <2> QED
    BY <1>1, <2>1, <2>2, <2>3, <2>5, SizesAssumption
       DEF Accounting, StatusHolds, AtPoint, Fresh, RadioTypes, TypeOK
<1>4. CASE TransmitByte
  <2>1. /\ state = "TX" /\ left > 0 /\ fifo # <<>> /\ fifo' = Tail(fifo)
        /\ left' = left - 1 /\ UNCHANGED state
    BY <1>4 DEF TransmitByte
  <2>2. /\ fifo \in Seq(FifoByte) /\ count \in Nat /\ written \in Nat
        /\ Len(fifo) \in Nat \ {0} /\ Len(fifo') = Len(fifo) - 1
    BY <2>1, Taken DEF RadioTypes, TypeOK
  <2>3. pc \notin {"idle", "receive"} /\ UnderWay /\ Sending
    <3>1. left # NoPacket
      BY <2>1 DEF NoPacket
    <3>2. pc \in Points
      BY DEF RadioTypes, TypeOK
    <3> QED
      BY <1>1, <2>1, <3>1, <3>2 DEF Accounting, AtPoint, UnderWay, Fresh, Loaded, Sent, Points
  <2>4. Sending' /\ UnderWay'
    BY <1>1, <2>1, <2>2, <2>3 DEF UnderWay, Sending
  <2> QED
    BY <1>1, <2>1, <2>2, <2>3, <2>4, SizesAssumption
       DEF Accounting, StatusHolds, AtPoint, Fresh, RadioTypes, TypeOK
<1>5. CASE EndPacket
  <2>1. /\ state = "TX" /\ left = 0 /\ left' = NoPacket /\ state' \in {"IDLE", "CALIBRATE"}
        /\ UNCHANGED fifo
    BY <1>5 DEF EndPacket, AfterPacket, CC1100_CFG
  <2>2. pc \notin {"idle", "receive"} /\ UnderWay /\ Sending
    BY <1>1, <2>1 DEF Accounting, AtPoint, UnderWay, Fresh, Loaded, Sent, NoPacket,
                      RadioTypes, TypeOK, Points
  <2>3. fifo = <<>> /\ written = count
    <3>1. count \in Nat /\ written \in Nat /\ Len(fifo) \in Nat /\ fifo \in Seq(FifoByte)
      BY DEF RadioTypes, TypeOK
    <3>2. Len(fifo) = 0 /\ written = count
      BY <1>1, <2>1, <2>2, <3>1 DEF Sending, Accounting
    <3> QED
      BY <3>1, <3>2, EmptySeq
  <2>4. Sent' /\ UnderWay'
    BY <1>1, <2>1, <2>2, <2>3 DEF UnderWay, Sent
  <2> QED
    BY <1>1, <2>1, <2>2, <2>3, <2>4 DEF Accounting, StatusHolds, AtPoint, Fresh
<1> QED
  BY <1>2, <1>3, <1>4, <1>5 DEF Chip, Underflow, Accounting

(* The driver writes no more than the status allows.                       *)
LEMMA DriverAccounts ==
  ASSUME RadioTypes, IdleInv, Accounting, Driver, ~underflowed
  PROVE  Accounting'
<1> USE DEF UnderWay, Loaded, Sending, Sent, Fresh
<1>1. CASE FirstStatus
  BY <1>1, StatusTyped DEF FirstStatus, Accounting, StatusHolds, AtPoint, Byte, chipVars, historyVars
<1>2. CASE SecondStatus
  BY <1>2, StatusTyped DEF SecondStatus, Accounting, StatusHolds, AtPoint, Byte, chipVars, historyVars
<1>3. CASE AllSent
  <2>1. state = "IDLE" /\ fifo = <<>> /\ left = NoPacket
    BY <1>3 DEF AllSent, IdleInv, Accounting, AtPoint
  <2> QED
    BY <1>3, <2>1 DEF AllSent, Accounting, StatusHolds, AtPoint, chipVars, historyVars
<1>4. CASE Strobe
  <2>1. state = "IDLE" /\ Fresh /\ count > 0 /\ status.free >= 2
    BY <1>4 DEF Strobe, IdleInv, Accounting, AtPoint, RadioTypes, TypeOK
  <2> QED
    BY <1>4, <2>1 DEF Strobe, Accounting, StatusHolds, AtPoint, driverVars, historyVars
<1>5. CASE KeepFilling
  BY <1>5 DEF KeepFilling, Accounting, StatusHolds, AtPoint, Byte, chipVars, driverVars, historyVars
<1>6. CASE WriteLength
  <2>1. /\ pc = "fill" /\ nsent = 0 /\ pc' = "payload"
        /\ status' = [status EXCEPT !.free = (@ - 1) % CountModulus]
        /\ UNCHANGED <<state, left, count, nsent, packets, written, air, skipped, underflowed>>
    BY <1>6 DEF WriteLength
  <2>2. /\ Fresh /\ state \in {"SETTLING", "TX"} /\ status.free >= 2 /\ count > 0
        /\ status.free <= FifoSize /\ status.free <= StatusMax /\ Len(fifo) = 0
    <3>1. Fresh /\ state \in {"SETTLING", "TX"} /\ status.free >= 2 /\ count > 0
      BY <2>1 DEF Accounting, AtPoint
    <3>2. /\ Len(fifo) = 0 /\ FifoSize \in Nat /\ FifoSize - 0 = FifoSize
          /\ status.free <= FifoSize - Len(fifo) /\ status.free <= StatusMax
      BY <2>1, <3>1, SizesAssumption DEF Accounting, StatusHolds
    <3> QED
      BY <3>1, <3>2
  <2>3. status' = [status EXCEPT !.free = @ - 1] /\ status'.free = status.free - 1
    <3>1. status \in [state : States, free : Nat]
      BY DEF RadioTypes, TypeOK
    <3>2. (status.free - 1) \in 0 .. CountModulus - 1
      BY <2>2, <3>1, SizesAssumption
    <3> QED
      BY <2>1, <3>1, <3>2, Rests
  <2>4. /\ fifo' \in Seq(FifoByte) /\ Len(fifo') = 1 /\ fifo' # <<>> /\ fifo'[1] = Byte(0)
        /\ UNCHANGED overflowed
    <3>1. fifo = <<>> /\ 1 <= FifoSize - Len(fifo) /\ Len(fifo) + 1 = 1
      BY <2>2, SizesAssumption, EmptySeq
    <3>2. /\ fifo' \in Seq(FifoByte)
          /\ fifo = <<>> /\ fifo' # <<>> => fifo'[1] = Byte(0)
          /\ 1 <= FifoSize - Len(fifo) => Len(fifo') = Len(fifo) + 1 /\ overflowed' = overflowed
      BY <1>6, LengthWrite, Zenon
    <3>3. fifo' # <<>>
      <4>1. Len(fifo') = 1
        BY ONLY <3>1, <3>2
      <4>2. Len(<<>>) = 0
        OBVIOUS
      <4> QED
        BY ONLY <4>1, <4>2
    <3> QED
      BY ONLY <3>1, <3>2, <3>3
  <2>5. Loaded' /\ UnderWay'
    BY <2>1, <2>2, <2>4 DEF Byte
  <2>6. /\ status'.free <= FifoSize - Len(fifo') /\ status'.free <= StatusMax
        /\ status'.free > 0 /\ written <= count
    <3>1. /\ status.free \in Nat /\ FifoSize \in Nat /\ StatusMax \in Nat
          /\ written = 0 /\ count \in Nat
      BY <2>2, SizesAssumption DEF RadioTypes, TypeOK, Fresh
    <3> QED
      BY ONLY <2>2, <2>3, <2>4, <3>1
  <2>7. StatusHolds' /\ AtPoint'
    BY <2>1, <2>2, <2>5, <2>6 DEF StatusHolds, AtPoint
  <2> QED
    BY <2>1, <2>4, <2>6, <2>7 DEF Accounting
<1>7. CASE NoLength
  BY <1>7 DEF NoLength, Accounting, StatusHolds, AtPoint, Byte, RadioTypes, TypeOK, chipVars, driverVars, historyVars
<1>8. CASE WritePayload
  <2>1. /\ pc = "payload" /\ pc' = "first" /\ nsent' = nsent + Chunk /\ written' = written + Chunk
        /\ UNCHANGED <<state, left, status, count, packets, air, skipped, underflowed>>
    BY <1>8 DEF WritePayload
  <2>2. /\ UnderWay /\ (nsent = 0 => status.free > 0 /\ count > 0)
        /\ status.free <= FifoSize - Len(fifo) /\ written <= count
    BY <2>1 DEF Accounting, StatusHolds, AtPoint
  <2>3. /\ Chunk \in 0 .. count - nsent /\ Chunk <= status.free
        /\ Chunk \in {status.free, count - nsent}
        /\ count \in Nat /\ nsent \in 0 .. count /\ written \in Nat /\ status.free \in Nat
        /\ Len(fifo) \in Nat /\ fifo \in Seq(FifoByte)
    BY <1>8, PayloadWrite DEF RadioTypes, TypeOK
  <2> HIDE DEF Chunk
  <2>4. /\ fifo' \in Seq(FifoByte) /\ Len(fifo') = Len(fifo) + Chunk /\ UNCHANGED overflowed
        /\ \A i \in 1 .. Len(fifo) : fifo'[i] = fifo[i]
    BY <1>8, <2>2, <2>3, PayloadWrite, SizesAssumption
  <2>5. nsent' > 0 /\ written' <= count' /\ nsent' \in {written', count'}
    BY <2>1, <2>2, <2>3
  <2>6. Loaded \/ Sending \/ Sent => (Loaded \/ Sending \/ Sent)'
    <3>1. CASE Loaded
      BY <2>1, <2>3, <2>4, <3>1 DEF Byte
    <3>2. CASE Sending
      BY <2>1, <2>3, <2>4, <3>2
    <3>3. CASE Sent
      <4>1. Chunk = 0
        BY <2>2, <2>3, <3>3
      <4> QED
        BY <2>1, <2>3, <2>4, <3>3, <4>1, EmptySeq
    <3> QED
      BY <3>1, <3>2, <3>3
  <2> QED
    BY <2>1, <2>2, <2>4, <2>5, <2>6 DEF Accounting, StatusHolds, AtPoint
<1>9. CASE Flush
  BY <1>9 DEF Flush, Accounting, StatusHolds
<1>10. CASE GiveUp
  BY <1>10 DEF GiveUp, Accounting, StatusHolds, AtPoint, Byte, RadioTypes, TypeOK, chipVars
<1>11. CASE NothingToReceive
  BY <1>11 DEF NothingToReceive, Accounting, StatusHolds, AtPoint, Byte, chipVars, driverVars, historyVars
<1> QED
  BY <1>1, <1>2, <1>3, <1>4, <1>5, <1>6, <1>7, <1>8, <1>9, <1>10, <1>11 DEF Driver

(* No step of the chip or the driver upsets the accounts.                  *)
LEMMA AccountingHolds == Spec => []Accounting
<1>1. Init => Accounting
  BY DEF Init, Accounting, StatusHolds, AtPoint
<1>2. RadioTypes /\ IdleInv /\ Accounting /\ [Next]_vars => Accounting'
  <2> SUFFICES ASSUME RadioTypes, IdleInv, Accounting, [Next]_vars PROVE Accounting'
    OBVIOUS
  <2>1. CASE Chip
    BY <2>1, ChipAccounts DEF Accounting
  <2>2. ASSUME NEW n \in 0 .. CountModulus - 1, Transmit(n) PROVE Accounting'
    <3>1. /\ pc = "idle" /\ packets' = Append(packets, n) /\ count' = n /\ nsent' = 0
          /\ written' = 0 /\ pc' = "first"
          /\ UNCHANGED <<state, fifo, left, status, underflowed, overflowed>>
      BY <2>2 DEF Transmit, chipVars
    <3>2. packets'[Len(packets')] = n
      <4>1. packets \in Seq(0 .. CountModulus - 1)
        BY DEF RadioTypes
      <4> QED
        BY <3>1, <4>1, AppendProperties
    <3>3. state = "IDLE" /\ (~underflowed => fifo = <<>> /\ left = NoPacket)
      BY <3>1 DEF IdleInv, Accounting, AtPoint
    <3> QED
      BY <3>1, <3>2, <3>3, <2>2, SizesAssumption DEF Accounting, StatusHolds, AtPoint, Fresh
  <2>3. CASE StartTx \/ StartTest
    BY <2>2, <2>3, Rests, SizesAssumption DEF StartTx, StartTest
  <2>4. CASE StartRx
    BY <2>4 DEF StartRx, Accounting, StatusHolds, AtPoint, chipVars, driverVars, historyVars
  <2>5. CASE Driver
    <3>1. underflowed' = underflowed
      BY <2>5 DEF Driver, FirstStatus, SecondStatus, AllSent, Strobe, KeepFilling, WriteLength,
                  NoLength, WritePayload, Flush, GiveUp, NothingToReceive, historyVars
    <3> QED
      BY <2>5, <3>1, DriverAccounts DEF Accounting
  <2>6. CASE UNCHANGED vars
    BY <2>6 DEF vars, chipVars, driverVars, historyVars, Accounting, StatusHolds, AtPoint, Fresh,
                UnderWay, Loaded, Sending, Sent, Byte
  <2> QED
    BY <2>1, <2>3, <2>4, <2>5, <2>6 DEF Next
<1>3. Spec => []IdleInv
  BY IdleInvHolds
<1> QED
  BY <1>1, <1>2, <1>3, TypesHold, PTL DEF Spec

(* As long as the FIFO has not run dry, the driver never writes more than  *)
(* there is room for: the status it read is older than the write, and the  *)
(* length byte goes in unasked.                                            *)
THEOREM FifoKeepsItsSize == Spec => []FifoNeverOverflows
<1>1. Accounting => FifoNeverOverflows
  BY DEF Accounting, FifoNeverOverflows
<1> QED
  BY <1>1, AccountingHolds, PTL

-----------------------------------------------------------------------------
(* What is on the air.  A packet of the list p, every byte of it.          *)
Packet(p, k) == [i \in 1 .. p[k] + 1 |-> [packet |-> k, pos |-> i - 1]]

(* The first m transmissions of a are those of the first n packets of p:   *)
(* each whole, in order, and none missing that has a payload.              *)
Heard(a, p, m, n) ==
  /\ m \in 0 .. Len(a) /\ n \in 0 .. Len(p)
  /\ \A i \in 1 .. m :
       /\ a[i][1].packet \in 1 .. n /\ p[a[i][1].packet] # 0
       /\ a[i] = Packet(p, a[i][1].packet)
  /\ \A i \in 1 .. m - 1 : a[i][1].packet < a[i + 1][1].packet
  /\ \A k \in 1 .. n : p[k] = 0 \/ \E i \in 1 .. m : a[i] = Packet(p, k)

(* Nothing of the current packet is on the air, and the FIFO holds all of  *)
(* it that was written, or nothing.                                        *)
Waiting ==
  /\ left = NoPacket /\ Heard(air, packets, Len(air), Len(packets) - 1)
  /\ Len(fifo) = written + 1 \/ (fifo = <<>> /\ written = 0)

(* The last transmission is of the current packet: as much of it as was    *)
(* written and has left the FIFO.                                          *)
OnItsWay ==
  /\ Len(air) > 0 /\ count > 0 /\ Len(fifo) <= written /\ (left # NoPacket \/ written = count)
  /\ Heard(air, packets, Len(air) - 1, Len(packets) - 1)
  /\ Len(air[Len(air)]) = written - Len(fifo) + 1
  /\ \A j \in 1 .. Len(air[Len(air)]) : air[Len(air)][j] = Byte(j - 1)

(* The FIFO holds the bytes of the current packet that were written last.  *)
NextInFifo == \A i \in 1 .. Len(fifo) : fifo[i] = Byte(written - Len(fifo) + i)

AirInv ==
  ~underflowed /\ ~skipped =>
    /\ pc \in {"idle", "receive"} => Heard(air, packets, Len(air), Len(packets))
    /\ pc \notin {"idle", "receive"} => nsent = written /\ NextInFifo /\ (Waiting \/ OnItsWay)

(* What has been heard is not taken back.                                  *)
LEMMA StillHeard ==
  ASSUME NEW a, NEW b, NEW p, NEW q, NEW m \in Nat, NEW n \in Nat, Heard(a, p, m, n),
         Len(b) \in Nat, Len(q) \in Nat, m <= Len(b), n <= Len(q),
         \A i \in 1 .. m : b[i] = a[i], \A k \in 1 .. n : q[k] = p[k]
  PROVE  Heard(b, q, m, n)
<1>1. \A k \in 1 .. n : Packet(q, k) = Packet(p, k)
  BY DEF Packet
<1>2. \A i \in 1 .. m : a[i][1].packet \in 1 .. n /\ p[a[i][1].packet] # 0
                       /\ a[i] = Packet(p, a[i][1].packet)
  BY DEF Heard
<1>3. \A i \in 1 .. m : b[i][1].packet \in 1 .. n /\ q[b[i][1].packet] # 0
                       /\ b[i] = Packet(q, b[i][1].packet)
  BY <1>1, <1>2
<1>4. \A i \in 1 .. m - 1 : b[i][1].packet < b[i + 1][1].packet
  <2>1. \A i \in 1 .. m - 1 : i \in 1 .. m /\ i + 1 \in 1 .. m
    OBVIOUS
  <2> QED
    BY <2>1 DEF Heard
<1>5. \A k \in 1 .. n : q[k] = 0 \/ \E i \in 1 .. m : b[i] = Packet(q, k)
  <2>1. \A k \in 1 .. n : p[k] = 0 \/ \E i \in 1 .. m : a[i] = Packet(p, k)
    BY DEF Heard
  <2> QED
    BY <1>1, <2>1
<1> QED
  BY <1>3, <1>4, <1>5 DEF Heard

(* A packet without payload is never heard, and not missed.                *)
LEMMA NothingToHear ==
  ASSUME NEW a, NEW p, NEW m \in Nat, NEW n \in Nat \ {0}, Len(p) \in Nat, n <= Len(p),
         Heard(a, p, m, n - 1), p[n] = 0
  PROVE  Heard(a, p, m, n)
<1>1. /\ m \in 0 .. Len(a)
      /\ \A i \in 1 .. m : /\ a[i][1].packet \in 1 .. n - 1 /\ p[a[i][1].packet] # 0
                          /\ a[i] = Packet(p, a[i][1].packet)
      /\ \A i \in 1 .. m - 1 : a[i][1].packet < a[i + 1][1].packet
      /\ \A k \in 1 .. n - 1 : p[k] = 0 \/ \E i \in 1 .. m : a[i] = Packet(p, k)
  BY DEF Heard
<1>2. \A k \in 1 .. n - 1 : k \in 1 .. n
  OBVIOUS
<1>3. \A k \in 1 .. n : k \in 1 .. n - 1 \/ k = n
  OBVIOUS
<1>4. \A i \in 1 .. m : /\ a[i][1].packet \in 1 .. n /\ p[a[i][1].packet] # 0
                       /\ a[i] = Packet(p, a[i][1].packet)
  BY <1>1, <1>2
<1>5. \A k \in 1 .. n : p[k] = 0 \/ \E i \in 1 .. m : a[i] = Packet(p, k)
  BY <1>1, <1>3
<1>6. n \in 0 .. Len(p)
  OBVIOUS
<1> QED
  BY <1>1, <1>4, <1>5, <1>6, Zenon DEF Heard

(* One more whole packet is heard.                                         *)
LEMMA HeardNext ==
  ASSUME NEW a, NEW p \in Seq(Nat), NEW m \in Nat, NEW n \in Nat \ {0},
         Len(a) \in Nat, m + 1 <= Len(a), n <= Len(p),
         Heard(a, p, m, n - 1), p[n] # 0, a[m + 1] = Packet(p, n)
  PROVE  Heard(a, p, m + 1, n)
<1>1. Len(p) \in Nat /\ n \in 1 .. Len(p) /\ p[n] \in Nat
  BY ElementOfSeq, LenProperties
<1>2. a[m + 1][1].packet = n
  BY <1>1 DEF Packet
<1>3. \A i \in 1 .. m + 1 : a[i][1].packet \in 1 .. n /\ p[a[i][1].packet] # 0
                           /\ a[i] = Packet(p, a[i][1].packet)
  <2>1. \A i \in 1 .. m + 1 : i \in 1 .. m \/ i = m + 1
    OBVIOUS
  <2>2. \A i \in 1 .. m : a[i][1].packet \in 1 .. n - 1 /\ p[a[i][1].packet] # 0
                         /\ a[i] = Packet(p, a[i][1].packet)
    BY DEF Heard
  <2>3. \A i \in 1 .. m : a[i][1].packet \in 1 .. n
    BY <2>2
  <2>4. n \in 1 .. n
    OBVIOUS
  <2> QED
    BY <1>2, <2>1, <2>2, <2>3, <2>4, Zenon
<1>4. \A i \in 1 .. m : a[i][1].packet < a[i + 1][1].packet
  <2>1. \A i \in 1 .. m : i \in 1 .. m - 1 \/ i = m
    OBVIOUS
  <2>2. \A i \in 1 .. m : a[i][1].packet \in 1 .. n - 1
    BY DEF Heard
  <2>3. \A i \in 1 .. m - 1 : a[i][1].packet < a[i + 1][1].packet
    BY DEF Heard
  <2> SUFFICES ASSUME NEW i \in 1 .. m PROVE a[i][1].packet < a[i + 1][1].packet
    OBVIOUS
  <2>4. CASE i \in 1 .. m - 1
    BY ONLY <2>3, <2>4
  <2>5. CASE i = m
    <3>1. a[i][1].packet \in 1 .. n - 1 /\ a[i + 1][1].packet = n
      BY <1>2, <2>2, <2>5
    <3> QED
      BY ONLY <3>1, n \in Nat \ {0}
  <2> QED
    BY <2>1, <2>4, <2>5
<1>5. \A k \in 1 .. n : p[k] = 0 \/ \E i \in 1 .. m + 1 : a[i] = Packet(p, k)
  <2>1. \A k \in 1 .. n : k \in 1 .. n - 1 \/ k = n
    OBVIOUS
  <2>2. \A k \in 1 .. n - 1 : p[k] = 0 \/ \E i \in 1 .. m : a[i] = Packet(p, k)
    BY DEF Heard
  <2>3. m + 1 \in 1 .. m + 1 /\ \A i \in 1 .. m : i \in 1 .. m + 1
    OBVIOUS
  <2> QED
    BY <2>1, <2>2, <2>3
<1>6. m + 1 \in 0 .. Len(a) /\ n \in 0 .. Len(p) /\ m + 1 - 1 = m
  BY <1>1
<1>7. \A i \in 1 .. m + 1 - 1 : a[i][1].packet < a[i + 1][1].packet
  BY <1>4, <1>6
<1> QED
  BY ONLY <1>3, <1>5, <1>6, <1>7 DEF Heard

(* Once all of the current packet has left the FIFO, it has been heard.    *)
LEMMA HeardToTheEnd ==
  ASSUME RadioTypes, packets # <<>>, packets[Len(packets)] = count,
         OnItsWay, fifo = <<>>, written = count
  PROVE  Heard(air, packets, Len(air), Len(packets))
<1> DEFINE n == Len(packets)
           last == air[Len(air)]
<1>1. /\ packets \in Seq(Nat) /\ n \in Nat \ {0} /\ air \in Seq(Seq(FifoByte))
      /\ Len(air) \in Nat \ {0} /\ count \in Nat \ {0} /\ Len(fifo) = 0
  BY LenProperties, EmptySeq, SizesAssumption DEF RadioTypes, TypeOK, OnItsWay
<1>2. last \in Seq(FifoByte)
  BY <1>1, ElementOfSeq
<1>3. Len(last) = count + 1 /\ \A j \in 1 .. count + 1 : last[j] = [packet |-> n, pos |-> j - 1]
  <2>1. Len(last) = written - Len(fifo) + 1
    BY DEF OnItsWay
  <2>2. \A j \in 1 .. Len(last) : last[j] = [packet |-> n, pos |-> j - 1]
    BY DEF OnItsWay, Byte
  <2> HIDE DEF last, n
  <2>3. Len(last) = count + 1
    BY <1>1, <2>1
  <2> QED
    BY <2>2, <2>3
<1>4. last = [i \in 1 .. count + 1 |-> [packet |-> n, pos |-> i - 1]]
  <2> HIDE DEF last, n
  <2>1. last = [i \in 1 .. Len(last) |-> last[i]]
    BY <1>2, LenProperties
  <2> QED
    BY <1>3, <2>1
<1>5. last = Packet(packets, n)
  BY <1>4 DEF Packet
<1>6. PICK m \in Nat : Len(air) = m + 1 /\ Len(air) - 1 = m
  <2>1. Len(air) - 1 \in Nat /\ Len(air) = (Len(air) - 1) + 1
    BY <1>1
  <2> QED
    BY <2>1, Zenon
<1>7. Heard(air, packets, m, n - 1) /\ packets[n] # 0
  BY <1>1, <1>6 DEF OnItsWay
<1>8. air[m + 1] = Packet(packets, n)
  BY <1>5, <1>6
<1> HIDE DEF n, last
<1>9. Heard(air, packets, m + 1, n)
  <2>1. Len(air) \in Nat /\ m + 1 <= Len(air) /\ n <= Len(packets)
    BY <1>1, <1>6 DEF n
  <2> QED
    BY <1>1, <1>6, <1>7, <1>8, <2>1, HeardNext
<1> QED
  BY <1>6, <1>9 DEF n

(* What a step that leaves the bytes alone keeps.                          *)
LEMMA NothingMoved ==
  ASSUME UNCHANGED <<fifo, air, packets, written, count>>, NextInFifo, Waiting \/ OnItsWay,
         left' = left \/ (left' = NoPacket /\ written = count /\ left # NoPacket)
  PROVE  NextInFifo' /\ (Waiting \/ OnItsWay)'
<1>1. NextInFifo'
  BY DEF NextInFifo, Byte
<1>2. Waiting => (Waiting \/ OnItsWay)'
  BY DEF Waiting
<1>3. OnItsWay => OnItsWay'
  BY DEF OnItsWay, Byte
<1> QED
  BY <1>1, <1>2, <1>3

(* The chip puts the next byte of the packet on the air.                   *)
LEMMA ChipOnAir ==
  ASSUME RadioTypes, RadioTypes', IdleInv, Accounting, AirInv, Chip, ~underflowed', ~skipped
  PROVE  AirInv'
<1>1. ~underflowed /\ UNCHANGED <<pc, status, count, nsent, packets, written, skipped>>
  BY DEF Chip, Settle, TransmitLength, TransmitByte, EndPacket, Underflow, driverVars,
         historyVars, RadioTypes, TypeOK
<1>2. /\ fifo \in Seq(FifoByte) /\ count \in Nat /\ written \in Nat /\ Len(fifo) \in Nat
      /\ packets \in Seq(Nat) /\ Len(packets) \in Nat /\ air \in Seq(Seq(FifoByte))
      /\ Len(air) \in Nat
  BY LenProperties DEF RadioTypes, TypeOK
<1>3. CASE pc \in {"idle", "receive"}
  <2>1. state = "IDLE"
    BY <1>3 DEF IdleInv
  <2> QED
    BY <2>1 DEF Chip, Settle, TransmitLength, TransmitByte, EndPacket, Underflow
<1>4. ASSUME pc \notin {"idle", "receive"} PROVE NextInFifo' /\ (Waiting \/ OnItsWay)'
  <2>1. /\ nsent = written /\ NextInFifo /\ (Waiting \/ OnItsWay)
        /\ packets # <<>> /\ packets[Len(packets)] = count /\ written <= count
    BY <1>1, <1>4 DEF AirInv, RadioTypes, Accounting
  <2>2. UnderWay \/ Fresh
    BY <1>1, <1>4 DEF Accounting, AtPoint, RadioTypes, TypeOK, Points
  <2>3. nsent = 0 => Fresh \/ count > 0
    BY <1>1, <1>4 DEF Accounting, AtPoint, RadioTypes, TypeOK, Points
  <2>4. CASE Settle
    BY <2>1, <2>4, NothingMoved DEF Settle, driverVars, historyVars
  <2>5. CASE TransmitLength
    <3>1. /\ left = NoPacket /\ fifo # <<>> /\ fifo' = Tail(fifo) /\ state = "TX"
          /\ air' = Append(air, <<fifo[1]>>) /\ left' # NoPacket
      <4>1. Head(fifo) = fifo[1] /\ left' \in 0 .. CountModulus - 1 \union {NoPacket}
        BY <2>5, <1>2, HeadTailProperties DEF TransmitLength, RadioTypes, TypeOK
      <4>2. left' \in Nat
        <5>1. Head(fifo).packet \in 1 .. Len(packets)
          BY <1>2, <2>5, Taken DEF TransmitLength, RadioTypes
        <5>2. packets[Head(fifo).packet] \in Nat
          BY <1>2, <5>1, ElementOfSeq
        <5>3. PayloadValues \subseteq Nat
          BY SizesAssumption
        <5> QED
          BY <2>5, <5>2, <5>3 DEF TransmitLength, LengthsOf
      <4> QED
        BY <1>1, <2>5, <4>1, <4>2 DEF TransmitLength, NewOnAir, NoPacket
    <3>2. Loaded /\ nsent \in {written, count}
      BY <2>2, <3>1 DEF UnderWay, Fresh, Sending, Sent, NoPacket
    <3>3. Len(fifo) = written + 1 /\ Waiting
      BY <1>2, <2>1, <3>2 DEF Loaded, OnItsWay
    <3>4. fifo' \in Seq(FifoByte) /\ Len(fifo') = written
          /\ \A i \in 1 .. Len(fifo') : fifo'[i] = fifo[i + 1] /\ i + 1 \in 1 .. Len(fifo)
      BY <1>2, <3>1, <3>3, Taken
    <3>5. count > 0
      BY <1>2, <2>1, <2>3, <3>1, <3>2 DEF Fresh, RadioTypes, TypeOK
    <3>6. NextInFifo'
      <4> SUFFICES ASSUME NEW i \in 1 .. Len(fifo') PROVE fifo'[i] = Byte(written - Len(fifo') + i)
        BY <1>1 DEF NextInFifo, Byte
      <4>1. fifo'[i] = Byte(written - Len(fifo) + (i + 1))
        BY <2>1, <3>4 DEF NextInFifo
      <4>2. written - Len(fifo) + (i + 1) = written - Len(fifo') + i
        BY <1>2, <3>3, <3>4
      <4> QED
        BY <4>1, <4>2
    <3>7. fifo[1] = Byte(0) /\ fifo[1] \in FifoByte
      BY <1>2, <3>1, <3>2, Taken DEF Loaded
    <3>8. /\ air' \in Seq(Seq(FifoByte)) /\ Len(air') = Len(air) + 1
          /\ air'[Len(air) + 1] = <<fifo[1]>> /\ \A i \in 1 .. Len(air) : air'[i] = air[i]
      <4>1. <<fifo[1]>> \in Seq(FifoByte)
        BY <3>7
      <4> QED
        BY <1>2, <3>1, <4>1, AppendProperties
    <3>9. Heard(air', packets', Len(air') - 1, Len(packets') - 1)
      <4>1. /\ Len(air') - 1 = Len(air) /\ Len(air) <= Len(air') /\ Len(air') \in Nat
            /\ Len(packets) - 1 \in Nat /\ Len(packets) - 1 <= Len(packets)
        BY <1>2, <2>1, <3>8, EmptySeq
      <4>2. Heard(air, packets, Len(air), Len(packets) - 1)
        BY <3>3 DEF Waiting
      <4>3. Heard(air', packets, Len(air), Len(packets) - 1)
        <5> DEFINE m == Len(air)
                   n == Len(packets) - 1
        <5>1. /\ m \in Nat /\ n \in Nat /\ m <= Len(air') /\ Len(air') \in Nat /\ n <= Len(packets)
              /\ \A i \in 1 .. m : air'[i] = air[i]
          BY <1>2, <3>8, <4>1
        <5> HIDE DEF m, n
        <5>2. Heard(air, packets, m, n)
          BY <4>2 DEF m, n
        <5>3. Heard(air', packets, m, n)
          BY <1>2, <5>1, <5>2, StillHeard
        <5> QED
          BY <5>3 DEF m, n
      <4> QED
        BY <1>1, <4>1, <4>3
    <3>10. /\ Len(air'[Len(air')]) = written - Len(fifo') + 1
           /\ \A j \in 1 .. Len(air'[Len(air')]) : air'[Len(air')][j] = Byte(j - 1)
      BY <1>2, <3>4, <3>7, <3>8
    <3> QED
      BY <1>1, <1>2, <3>1, <3>4, <3>5, <3>6, <3>8, <3>9, <3>10 DEF OnItsWay, Byte
  <2>6. CASE TransmitByte
    <3> DEFINE a == Len(air)
               last == air[a]
    <3>1. /\ left > 0 /\ fifo # <<>> /\ fifo' = Tail(fifo) /\ left' = left - 1
          /\ air' = [air EXCEPT ![a] = Append(last, fifo[1])] /\ left # NoPacket
      <4>1. Head(fifo) = fifo[1]
        BY <2>6, <1>2, HeadTailProperties DEF TransmitByte
      <4> QED
        BY <1>1, <2>6, <4>1 DEF TransmitByte, MoreOnAir, NoPacket
    <3>2. /\ a \in Nat \ {0} /\ count > 0 /\ Len(fifo) <= written
          /\ Heard(air, packets, a - 1, Len(packets) - 1)
          /\ Len(last) = written - Len(fifo) + 1
          /\ \A j \in 1 .. Len(last) : last[j] = Byte(j - 1)
      BY <1>2, <2>1, <3>1 DEF OnItsWay, Waiting
    <3>3. last \in Seq(FifoByte) /\ Len(last) \in Nat
      BY <1>2, <3>2, ElementOfSeq, LenProperties
    <3>4. /\ fifo' \in Seq(FifoByte) /\ Len(fifo') = Len(fifo) - 1 /\ Len(fifo) > 0
          /\ \A i \in 1 .. Len(fifo') : fifo'[i] = fifo[i + 1] /\ i + 1 \in 1 .. Len(fifo)
          /\ fifo[1] \in FifoByte
      BY <1>2, <3>1, Taken
    <3>5. NextInFifo'
      <4> SUFFICES ASSUME NEW i \in 1 .. Len(fifo') PROVE fifo'[i] = Byte(written - Len(fifo') + i)
        BY <1>1 DEF NextInFifo, Byte
      <4>1. fifo'[i] = Byte(written - Len(fifo) + (i + 1))
        BY <2>1, <3>4 DEF NextInFifo
      <4>2. written - Len(fifo) + (i + 1) = written - Len(fifo') + i
        BY <1>2, <3>4
      <4> QED
        BY <4>1, <4>2
    <3>6. fifo[1] = Byte(Len(last))
      <4>1. 1 \in 1 .. Len(fifo)
        BY <1>2, <3>4
      <4>2. written - Len(fifo) + 1 = Len(last)
        BY <3>2
      <4> QED
        BY <2>1, <4>1, <4>2 DEF NextInFifo
    <3>7. /\ Append(last, fifo[1]) \in Seq(FifoByte)
          /\ Len(Append(last, fifo[1])) = Len(last) + 1
          /\ Append(last, fifo[1])[Len(last) + 1] = fifo[1]
          /\ \A j \in 1 .. Len(last) : Append(last, fifo[1])[j] = last[j]
      BY <3>3, <3>4, AppendProperties
    <3> DEFINE more == Append(last, fifo[1])
    <3>8. /\ air' \in Seq(Seq(FifoByte)) /\ Len(air') = a /\ air'[a] = more
          /\ \A i \in 1 .. a : i # a => air'[i] = air[i]
      <4>1. a \in 1 .. Len(air)
        BY <3>2
      <4> HIDE DEF more
      <4>2. air' = [air EXCEPT ![a] = more]
        BY <3>1 DEF more
      <4>3. more \in Seq(FifoByte)
        BY <3>7 DEF more
      <4> QED
        BY <1>2, <4>1, <4>2, <4>3, ExceptSeq
    <3> HIDE DEF more, last
    <3>9. \A j \in 1 .. Len(more) : more[j] = Byte(j - 1)
      <4> SUFFICES ASSUME NEW j \in 1 .. Len(more) PROVE more[j] = Byte(j - 1)
        OBVIOUS
      <4>1. CASE j \in 1 .. Len(last)
        BY <3>2, <3>7, <4>1 DEF more
      <4>2. CASE j = Len(last) + 1
        BY <3>3, <3>6, <3>7, <4>2 DEF more
      <4> QED
        BY <3>3, <3>7, <4>1, <4>2 DEF more
    <3>10. Len(more) = written - Len(fifo') + 1
      BY <1>2, <3>2, <3>4, <3>7 DEF more
    <3>11. Heard(air', packets', Len(air') - 1, Len(packets') - 1)
      <4>1. /\ a - 1 \in Nat /\ a - 1 <= Len(air')
            /\ Len(packets) - 1 \in Nat /\ Len(packets) - 1 <= Len(packets)
            /\ \A i \in 1 .. a - 1 : i \in 1 .. a /\ i # a
        <5>1. Len(packets) # 0
          BY <1>2, <2>1, EmptySeq
        <5>2. Len(packets) - 1 \in Nat /\ Len(packets) - 1 <= Len(packets)
          BY <1>2, <5>1
        <5> HIDE DEF a
        <5>3. a - 1 \in Nat /\ a - 1 <= a /\ \A i \in 1 .. a - 1 : i \in 1 .. a /\ i # a
          BY <3>2
        <5> QED
          BY <3>8, <5>2, <5>3
      <4>2. Heard(air', packets, a - 1, Len(packets) - 1)
        BY <1>2, <3>2, <3>8, <4>1, StillHeard
      <4> QED
        BY <1>1, <3>8, <4>2
    <3>12. Len(fifo') <= written /\ left' # NoPacket
      <4>1. left \in 0 .. CountModulus - 1
        BY <3>1 DEF RadioTypes, TypeOK
      <4>2. left' # NoPacket
        BY <3>1, <4>1, SizesAssumption DEF NoPacket
      <4>3. Len(fifo') <= written
        BY <1>2, <3>2, <3>4
      <4> QED
        BY <4>2, <4>3
    <3> QED
      BY <1>1, <3>2, <3>5, <3>8, <3>9, <3>10, <3>11, <3>12 DEF OnItsWay, Byte
  <2>7. CASE EndPacket
    <3>1. UNCHANGED <<fifo, air, packets, written, count>> /\ left = 0 /\ left' = NoPacket
          /\ state = "TX"
      BY <2>7 DEF EndPacket, driverVars, historyVars
    <3>2. Sending
      BY <2>2, <3>1 DEF UnderWay, Fresh, Loaded, Sent, NoPacket
    <3>3. written = count /\ left # NoPacket
      BY <1>2, <2>1, <3>1, <3>2 DEF Sending, NoPacket
    <3> QED
      BY <2>1, <3>1, <3>3, NothingMoved
  <2> QED
    BY <2>4, <2>5, <2>6, <2>7 DEF Chip, Underflow
<1> QED
  BY <1>1, <1>3, <1>4 DEF AirInv

(* The driver puts the bytes into the FIFO in order, and comes back with   *)
(* the whole packet on the air.                                            *)
LEMMA DriverOnAir ==
  ASSUME RadioTypes, IdleInv, Accounting, AirInv, Driver, ~underflowed, ~underflowed', ~skipped'
  PROVE  AirInv'
<1>1. ~skipped
  BY DEF Driver, FirstStatus, SecondStatus, AllSent, Strobe, KeepFilling, WriteLength,
         NoLength, WritePayload, Flush, GiveUp, NothingToReceive, historyVars
<1>2. CASE NothingToReceive
  BY <1>1, <1>2 DEF NothingToReceive, AirInv, chipVars, historyVars
<1>3. ASSUME pc \notin {"idle", "receive"}
      PROVE  /\ nsent = written /\ NextInFifo /\ (Waiting \/ OnItsWay)
             /\ packets # <<>> /\ packets[Len(packets)] = count /\ written <= count
             /\ StatusHolds /\ AtPoint
  BY <1>1, <1>3 DEF AirInv, RadioTypes, Accounting
<1>4. CASE FirstStatus \/ SecondStatus \/ Strobe \/ KeepFilling \/ NoLength \/ GiveUp
  <2>1. /\ UNCHANGED <<fifo, left, air, packets, written, count>>
        /\ pc \notin {"idle", "receive"} /\ pc' \notin {"idle", "receive"} /\ nsent' = nsent
    BY <1>4, <1>1 DEF FirstStatus, SecondStatus, Strobe, KeepFilling, NoLength, GiveUp,
                      chipVars, driverVars, historyVars
  <2> QED
    BY <1>3, <2>1, NothingMoved DEF AirInv
<1>5. CASE Flush
  BY <1>5, <1>3 DEF Flush, StatusHolds
<1>6. CASE AllSent
  <2>1. /\ pc = "switch" /\ status.state = "IDLE" /\ nsent = count /\ pc' = "idle"
        /\ UNCHANGED <<fifo, left, air, packets>>
    BY <1>6 DEF AllSent, chipVars, historyVars
  <2>2. state = "IDLE" /\ left = NoPacket /\ fifo = <<>> /\ written = count
    BY <1>3, <2>1 DEF IdleInv, AtPoint, UnderWay, Fresh, Loaded, Sending, Sent
  <2>3. CASE Waiting
    <3>1. /\ packets \in Seq(Nat) /\ Len(packets) \in Nat \ {0} /\ Len(air) \in Nat
          /\ Len(fifo) = 0 /\ written \in Nat
      BY <1>3, <2>1, <2>2, EmptySeq, LenProperties DEF RadioTypes, TypeOK
    <3>2. packets[Len(packets)] = 0 /\ Heard(air, packets, Len(air), Len(packets) - 1)
      BY <1>3, <2>1, <2>2, <2>3, <3>1 DEF Waiting
    <3>3. Heard(air, packets, Len(air), Len(packets))
      BY <3>1, <3>2, NothingToHear
    <3> QED
      BY <2>1, <3>3 DEF AirInv
  <2>4. CASE OnItsWay
    BY <1>3, <2>1, <2>2, <2>4, HeardToTheEnd DEF AirInv
  <2> QED
    BY <1>3, <2>1, <2>3, <2>4
<1>7. CASE WriteLength
  <2>1. /\ pc = "fill" /\ nsent = 0 /\ pc' = "payload"
        /\ UNCHANGED <<state, left, count, nsent, packets, written, air, skipped, underflowed>>
    BY <1>7 DEF WriteLength
  <2>2. Fresh /\ status.free >= 2 /\ count > 0 /\ status.free <= FifoSize - Len(fifo)
    BY <1>3, <2>1 DEF AtPoint, StatusHolds
  <2>3. Waiting
    BY <1>3, <2>1, <2>2 DEF OnItsWay, Fresh
  <2>4. /\ Len(fifo) = 0 /\ 1 <= FifoSize - Len(fifo)
    BY <2>2, SizesAssumption DEF Fresh, RadioTypes, TypeOK
  <2>5. fifo' \in Seq(FifoByte) /\ Len(fifo') = 1 /\ fifo' # <<>> /\ fifo'[1] = Byte(0)
    <3>1. fifo' \in Seq(FifoByte) /\ Len(fifo') = 1 /\ (fifo' # <<>> => fifo'[1] = Byte(0))
      BY <1>7, <2>2, <2>4, LengthWrite DEF Fresh
    <3> QED
      BY <3>1, EmptySeq
  <2>6. NextInFifo'
    BY <2>1, <2>2, <2>5 DEF NextInFifo, Byte, Fresh
  <2>7. Waiting'
    BY <2>1, <2>2, <2>3, <2>5 DEF Waiting, Fresh
  <2> QED
    BY <1>3, <2>1, <2>6, <2>7 DEF AirInv
<1>8. CASE WritePayload
  <2>1. /\ pc = "payload" /\ pc' = "first" /\ nsent' = nsent + Chunk /\ written' = written + Chunk
        /\ UNCHANGED <<state, left, status, count, packets, air, skipped, underflowed>>
    BY <1>8 DEF WritePayload
  <2>2. /\ UnderWay /\ (nsent = 0 => count > 0) /\ status.free <= FifoSize - Len(fifo)
    BY <1>3, <2>1 DEF StatusHolds, AtPoint
  <2>3. /\ Chunk \in 0 .. count - nsent /\ Chunk <= status.free
        /\ count \in Nat /\ nsent \in 0 .. count /\ written \in Nat /\ status.free \in Nat
        /\ Len(fifo) \in Nat /\ fifo \in Seq(FifoByte) /\ FifoSize \in Nat
    BY <1>8, PayloadWrite, SizesAssumption DEF RadioTypes, TypeOK
  <2>4. Chunk <= FifoSize - Len(fifo)
    <3> HIDE DEF Chunk
    <3> QED
      BY <2>2, <2>3
  <2>5. /\ fifo' \in Seq(FifoByte) /\ Len(fifo') = Len(fifo) + Chunk
        /\ \A i \in 1 .. Len(fifo) : fifo'[i] = fifo[i]
        /\ \A i \in 1 .. Len(fifo') : i > Len(fifo) => fifo'[i] = Byte(nsent + (i - Len(fifo)))
    BY <1>8, <2>4, PayloadWrite
  <2> HIDE DEF Chunk
  <2>6. NextInFifo'
    <3> SUFFICES ASSUME NEW i \in 1 .. Len(fifo')
                 PROVE  fifo'[i] = Byte(written' - Len(fifo') + i)
      BY <2>1 DEF NextInFifo, Byte
    <3>1. written' - Len(fifo') = written - Len(fifo)
      BY <2>1, <2>3, <2>5
    <3>2. CASE i \in 1 .. Len(fifo)
      BY <1>3, <2>1, <2>5, <3>1, <3>2 DEF NextInFifo
    <3>3. CASE i > Len(fifo)
      <4>1. nsent + (i - Len(fifo)) = written - Len(fifo) + i
        BY <1>3, <2>1, <2>3, <3>3
      <4> QED
        BY <2>5, <3>1, <3>3, <4>1
    <3> QED
      BY <2>3, <3>2, <3>3
  <2>7. Waiting => Waiting'
    <3>1. ASSUME Waiting PROVE Len(fifo) = written + 1
      <4>1. fifo = <<>> => Len(fifo) = 0
        OBVIOUS
      <4> QED
        BY <1>3, <2>1, <2>2, <2>3, <3>1, <4>1 DEF Waiting, UnderWay, Loaded, Sending, Sent, NoPacket
    <3> SUFFICES ASSUME Waiting PROVE Waiting'
      OBVIOUS
    <3>2. Len(fifo) + Chunk = written + Chunk + 1
      BY <2>3, <3>1
    <3>3. Len(fifo') = written' + 1
      BY <2>1, <2>5, <3>2
    <3>4. left' = left /\ air' = air /\ packets' = packets
      BY <2>1
    <3>5. Heard(air', packets', Len(air'), Len(packets') - 1) /\ left' = NoPacket
      BY ONLY Waiting, <3>4 DEF Waiting
    <3> QED
      BY ONLY <3>3, <3>5 DEF Waiting
  <2>8. OnItsWay => OnItsWay'
    <3> SUFFICES ASSUME OnItsWay PROVE OnItsWay'
      OBVIOUS
    <3>1. /\ written' - Len(fifo') + 1 = written - Len(fifo) + 1 /\ Len(fifo') <= written'
          /\ (written = count => written' = count)
      BY <1>3, <2>1, <2>3, <2>5 DEF OnItsWay
    <3> QED
      BY <2>1, <3>1 DEF OnItsWay, Byte
  <2> QED
    BY <1>3, <2>1, <2>6, <2>7, <2>8 DEF AirInv
<1> QED
  BY <1>2, <1>4, <1>5, <1>6, <1>7, <1>8 DEF Driver

(* A new packet waits behind those that were heard.                        *)
LEMMA CallOnAir ==
  ASSUME RadioTypes, IdleInv, Accounting, AirInv, NEW n \in 0 .. CountModulus - 1, Transmit(n),
         ~underflowed
  PROVE  AirInv'
<1> SUFFICES ASSUME ~skipped PROVE AirInv'
  BY DEF Transmit, AirInv
<1>1. /\ pc = "idle" /\ packets' = Append(packets, n) /\ nsent' = 0 /\ written' = 0 /\ pc' = "first"
      /\ UNCHANGED <<fifo, left, air>>
  BY DEF Transmit, chipVars
<1>2. fifo = <<>> /\ left = NoPacket /\ Heard(air, packets, Len(air), Len(packets))
  BY <1>1 DEF Accounting, AtPoint, AirInv
<1>3. /\ packets \in Seq(0 .. CountModulus - 1) /\ Len(packets) \in Nat /\ Len(air) \in Nat
      /\ Len(packets') = Len(packets) + 1 /\ \A k \in 1 .. Len(packets) : packets'[k] = packets[k]
  BY <1>1, AppendProperties, LenProperties DEF RadioTypes, TypeOK
<1>4. Heard(air, packets', Len(air), Len(packets))
  <2>1. Len(packets') \in Nat /\ Len(packets) <= Len(packets') /\ Len(air) <= Len(air)
    BY <1>3
  <2> QED
    BY <1>2, <1>3, <2>1, StillHeard
<1>5. NextInFifo'
  BY <1>1, <1>2 DEF NextInFifo
<1>6. Waiting'
  <2>1. Len(packets') - 1 = Len(packets)
    BY <1>3
  <2> QED
    BY <1>1, <1>2, <1>4, <2>1 DEF Waiting
<1> QED
  BY <1>1, <1>5, <1>6 DEF AirInv

(* No step of the chip or the driver breaks this.                          *)
LEMMA AirInvHolds == Spec => []AirInv
<1>1. Init => AirInv
  BY DEF Init, AirInv, Heard
<1>2. RadioTypes /\ RadioTypes' /\ IdleInv /\ Accounting /\ AirInv /\ [Next]_vars => AirInv'
  <2> SUFFICES ASSUME RadioTypes, RadioTypes', IdleInv, Accounting, AirInv, [Next]_vars,
                      ~underflowed', ~skipped'
               PROVE  AirInv'
    BY DEF AirInv
  <2>1. CASE Chip
    <3>1. ~skipped
      BY <2>1 DEF Chip, Settle, TransmitLength, TransmitByte, EndPacket, Underflow, historyVars
    <3> QED
      BY <2>1, <3>1, ChipOnAir
  <2>2. CASE StartTx \/ StartTest
    <3>1. PICK n \in 0 .. CountModulus - 1 : Transmit(n)
      BY <2>2, Rests, SizesAssumption DEF StartTx, StartTest
    <3>2. ~underflowed
      BY <3>1 DEF Transmit
    <3> QED
      BY <3>1, <3>2, CallOnAir
  <2>3. CASE StartRx
    BY <2>3 DEF StartRx, AirInv, chipVars, driverVars, historyVars
  <2>4. CASE Driver
    <3>1. ~underflowed
      BY <2>4 DEF Driver, FirstStatus, SecondStatus, AllSent, Strobe, KeepFilling, WriteLength,
                  NoLength, WritePayload, Flush, GiveUp, NothingToReceive, historyVars
    <3> QED
      BY <2>4, <3>1, DriverOnAir
  <2>5. CASE UNCHANGED vars
    BY <2>5 DEF vars, chipVars, driverVars, historyVars, AirInv, NextInFifo, Waiting, OnItsWay, Byte
  <2> QED
    BY <2>1, <2>2, <2>3, <2>4, <2>5 DEF Next
<1> QED
  BY <1>1, <1>2, TypesHold, IdleInvHolds, AccountingHolds, PTL DEF Spec

(* A transmission of which the bytes are those of a packet is a part of it.*)
LEMMA PartOfPacket ==
  ASSUME NEW t \in Seq(FifoByte), NEW k \in 1 .. Len(packets), packets \in Seq(Nat),
         Len(t) <= packets[k] + 1,
         \A j \in 1 .. Len(t) : t[j] = [packet |-> k, pos |-> j - 1]
  PROVE  IsPrefix(t, WholePacket(k))
<1> DEFINE w == WholePacket(k)
<1>1. packets[k] \in Nat /\ Len(t) \in Nat
  BY ElementOfSeq, LenProperties
<1>2. /\ Len(w) = packets[k] + 1
      /\ \A j \in 1 .. packets[k] + 1 : w[j] = [packet |-> k, pos |-> j - 1]
  BY <1>1 DEF WholePacket
<1> HIDE DEF w
<1>3. \A j \in 1 .. Len(t) : t[j] = w[j]
  <2>1. \A j \in 1 .. Len(t) : j \in 1 .. packets[k] + 1
    BY <1>1
  <2> QED
    BY <1>2, <2>1
<1>4. SubSeq(t, 1, Len(t)) = SubSeq(w, 1, Len(t))
  BY <1>1, <1>3 DEF SubSeq
<1> QED
  BY <1>1, <1>2, <1>4 DEF IsPrefix, w

(* As long as the FIFO did not run dry and no packet was given up, what is *)
(* on the air is each packet once, in order and whole, but for the one     *)
(* under way: whatever the chip does between the status the driver reads   *)
(* and the bytes it writes.                                                *)
THEOREM PacketsAreWholeOnAir == Spec => []AirIntact
<1>1. RadioTypes /\ Accounting /\ AirInv => AirIntact
  <2> SUFFICES ASSUME RadioTypes, Accounting, AirInv, ~underflowed, ~skipped PROVE AirIntact
    BY DEF AirIntact
  <2> DEFINE n == Len(packets)
             l == Len(air)
  <2>1. /\ packets \in Seq(Nat) /\ n \in Nat /\ l \in Nat /\ air \in Seq(Seq(FifoByte))
        /\ Len(fifo) \in Nat /\ written \in Nat /\ count \in Nat
    BY LenProperties DEF RadioTypes, TypeOK
  <2>2. \A k : Packet(packets, k) = WholePacket(k)
    BY DEF Packet, WholePacket
  <2> DEFINE Whole(i) == /\ air[i][1].packet \in 1 .. n /\ packets[air[i][1].packet] # 0
                         /\ air[i] = WholePacket(air[i][1].packet)
                         /\ IsPrefix(air[i], WholePacket(air[i][1].packet))
  <2>3. ASSUME NEW m, NEW h, Heard(air, packets, m, h), h <= n
        PROVE  \A i \in 1 .. m : Whole(i)
    <3> SUFFICES ASSUME NEW i \in 1 .. m PROVE Whole(i)
      OBVIOUS
    <3> DEFINE k == air[i][1].packet
    <3>1. k \in 1 .. n /\ packets[k] # 0 /\ air[i] = WholePacket(k)
      <4>1. k \in 1 .. h /\ packets[k] # 0 /\ air[i] = Packet(packets, k) /\ h \in 0 .. n
        BY <2>3 DEF Heard
      <4> HIDE DEF k, n
      <4>2. k \in 1 .. n
        BY <2>1, <4>1
      <4> QED
        BY <2>2, <4>1, <4>2
    <3>2. i \in 1 .. l
      BY <2>1, <2>3 DEF Heard
    <3>3. air[i] \in Seq(FifoByte)
      BY <2>1, <3>2, ElementOfSeq
    <3>4. packets[k] \in Nat
      BY <2>1, <3>1, ElementOfSeq
    <3>5. /\ Len(air[i]) = packets[k] + 1
          /\ \A j \in 1 .. Len(air[i]) : air[i][j] = [packet |-> k, pos |-> j - 1]
      <4> HIDE DEF k
      <4> QED
        BY <3>1, <3>4 DEF WholePacket
    <3> HIDE DEF k
    <3>6. IsPrefix(air[i], WholePacket(k))
      <4>1. Len(air[i]) <= packets[k] + 1 /\ k \in 1 .. Len(packets)
        BY <3>1, <3>4, <3>5
      <4> QED
        BY ONLY <2>1, <3>3, <3>5, <4>1, PartOfPacket
    <3> QED
      BY <3>1, <3>6 DEF k
  <2> HIDE DEF Whole
  <2>4. CASE pc \in {"idle", "receive"}
    <3>1. Heard(air, packets, l, n) /\ fifo = <<>>
      BY <2>4 DEF AirInv, Accounting, AtPoint
    <3>2. \A i \in 1 .. l : Whole(i)
      <4>1. n <= n /\ n - 1 <= n
        BY <2>1
      <4> QED
        BY <2>3, <3>1, <4>1
    <3>3. \A i \in 1 .. l - 1 : air[i][1].packet < air[i + 1][1].packet
      BY <3>1 DEF Heard
    <3>4. \A k \in 1 .. n : packets[k] = 0 \/ OnAir(k)
      BY <2>2, <3>1 DEF Heard, OnAir
    <3>5. \A i \in 1 .. l : i < l => i \in 1 .. l - 1
      BY <2>1
    <3> HIDE DEF n, l
    <3> QED
      BY <2>4, <3>1, <3>2, <3>3, <3>4, <3>5, Zenon DEF AirIntact, n, l, Whole
  <2>5. CASE pc \notin {"idle", "receive"} /\ Waiting
    <3>1. Heard(air, packets, l, n - 1)
      BY <2>5 DEF Waiting
    <3>2. \A i \in 1 .. l : Whole(i)
      <4>1. n <= n /\ n - 1 <= n
        BY <2>1
      <4> QED
        BY <2>3, <3>1, <4>1
    <3>3. \A i \in 1 .. l - 1 : air[i][1].packet < air[i + 1][1].packet
      BY <3>1 DEF Heard
    <3>4. \A i \in 1 .. l : i < l => i \in 1 .. l - 1
      BY <2>1
    <3> HIDE DEF n, l
    <3> QED
      BY <2>5, <3>1, <3>2, <3>3, <3>4, Zenon DEF AirIntact, n, l, Whole
  <2>6. CASE pc \notin {"idle", "receive"} /\ OnItsWay
    <3>1. packets # <<>> /\ packets[n] = count /\ written <= count
      BY <2>6 DEF RadioTypes, Accounting
    <3>2. n \in 1 .. n /\ l \in 1 .. l
      BY <2>1, <2>6, <3>1, EmptySeq DEF OnItsWay
    <3>3. air[l] \in Seq(FifoByte)
      BY <2>1, <3>2, ElementOfSeq
    <3>4. /\ Heard(air, packets, l - 1, n - 1) /\ count > 0
          /\ Len(air[l]) = written - Len(fifo) + 1 /\ Len(air[l]) >= 1
          /\ \A j \in 1 .. Len(air[l]) : air[l][j] = [packet |-> n, pos |-> j - 1]
      BY <2>1, <2>6 DEF OnItsWay, Byte
    <3>5. air[l][1].packet = n /\ packets[n] # 0 /\ Len(air[l]) <= packets[n] + 1
      <4>1. 1 \in 1 .. Len(air[l])
        BY <3>3, <3>4, LenProperties
      <4>2. air[l][1] = [packet |-> n, pos |-> 1 - 1]
        BY ONLY <3>4, <4>1
      <4>3. Len(air[l]) <= count + 1
        BY <2>1, <3>1, <3>4
      <4> QED
        BY <3>1, <3>4, <4>2, <4>3
    <3>6. IsPrefix(air[l], WholePacket(n))
      BY <2>1, <3>2, <3>3, <3>4, <3>5, PartOfPacket
    <3>7. \A i \in 1 .. l - 1 : Whole(i)
      <4>1. n - 1 <= n
        BY <2>1
      <4> QED
        BY <2>3, <3>4, <4>1
    <3>8. \A i \in 1 .. l - 1 : air[i][1].packet < air[i + 1][1].packet
      <4>1. \A i \in 1 .. l - 1 : i \in 1 .. l - 1 - 1 \/ i = l - 1
        BY <2>1
      <4>2. \A i \in 1 .. l - 1 : air[i][1].packet \in 1 .. n - 1
        BY <3>4 DEF Heard
      <4>3. \A i \in 1 .. l - 1 - 1 : air[i][1].packet < air[i + 1][1].packet
        BY <3>4 DEF Heard
      <4>4. l - 1 + 1 = l
        BY <2>1
      <4> HIDE DEF l
      <4> QED
        <5> SUFFICES ASSUME NEW i \in 1 .. l - 1 PROVE air[i][1].packet < air[i + 1][1].packet
          OBVIOUS
        <5>1. CASE i \in 1 .. l - 1 - 1
          BY <4>3, <5>1
        <5>2. CASE i = l - 1
          <6>1. air[i + 1][1].packet = n
            BY <3>5, <4>4, <5>2
          <6>2. air[i][1].packet \in 1 .. n - 1
            BY <4>2
          <6>3. n \in Nat
            BY <2>1
          <6> HIDE DEF n
          <6> QED
            BY ONLY <6>1, <6>2, <6>3
        <5> QED
          BY <4>1, <5>1, <5>2
    <3>9. \A i \in 1 .. l : (i < l => i \in 1 .. l - 1) /\ (i \in 1 .. l - 1 \/ i = l)
      BY <2>1
    <3> HIDE DEF n, l
    <3> QED
      BY <2>6, <3>2, <3>5, <3>6, <3>7, <3>8, <3>9, Zenon DEF AirIntact, n, l, Whole
  <2> QED
    BY <2>4, <2>5, <2>6 DEF AirInv
<1> QED
  BY <1>1, TypesHold, AccountingHolds, AirInvHolds, PTL

=============================================================================
