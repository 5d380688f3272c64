----------------------- MODULE EndpointStreamsProofs -----------------------
(***************************************************************************)
(* Proofs about module EndpointStreams, for any sizes and lengths: type    *)
(* correctness, by which no bank is ever filled beyond its size, the       *)
(* frames of the bus a stream waits for, and that messages arrive as they  *)
(* were sent, in both directions.                                          *)
(***************************************************************************)
EXTENDS EndpointStreams, SequenceTheorems, TLAPS

(* Every byte belongs to one of the first n messages of the host.          *)
Known(s, n) == \A i \in 1 .. Len(s) : s[i].msg \in 1 .. n

(* Type correctness needs to know where bytes come from, that a task that  *)
(* has just begun has transferred none, and that a frame to send has one   *)
(* of the lengths.                                                         *)
StreamTypes ==
  /\ TypeOK
  /\ Known(bank["rx"], Len(received)) /\ Known(hostOut, Len(received))
  /\ Known(buffer, Len(received))
  /\ pc \in {"idle", "selected"} => done = 0
  /\ pc = "selected" /\ job = "tx" => length \in Lengths

(* The sizes are numbers.                                                  *)
LEMMA Sizes ==
  /\ BankSize \in Nat /\ BankSize > 0 /\ HeaderSize \in Nat /\ HeaderSize > 0
  /\ StreamTimeout \in Nat /\ 0 \in 0 .. StreamTimeout /\ 0 \in 0 .. StreamTimeout + 1
  /\ StreamTimeout \in 0 .. StreamTimeout
  /\ \A n \in {0} \union Lengths : n \in Nat /\ 0 \in 0 .. HeaderSize + n
BY SizesAssumption

(* An empty sequence is a sequence of bytes that are known.                *)
LEMMA Empty == <<>> \in Seq(Byte) /\ Len(<<>>) = 0
BY EmptySeq

(* One byte more, and one byte less.                                       *)
LEMMA OneMore ==
  ASSUME NEW s \in Seq(Byte), NEW b \in Byte, NEW n \in Nat
  PROVE  /\ Append(s, b) \in Seq(Byte) /\ Len(Append(s, b)) = Len(s) + 1
         /\ Known(s, n) /\ b.msg \in 1 .. n => Known(Append(s, b), n)
<1>1. /\ Append(s, b) \in Seq(Byte) /\ Len(Append(s, b)) = Len(s) + 1 /\ Len(s) \in Nat
      /\ \A i \in 1 .. Len(s) : Append(s, b)[i] = s[i]
      /\ Append(s, b)[Len(s) + 1] = b
  BY AppendProperties
<1> QED
  BY <1>1 DEF Known

(* One byte less: what is left is as well known as what is taken.          *)
LEMMA OneLess ==
  ASSUME NEW s \in Seq(Byte), s # <<>>, NEW n \in Nat
  PROVE  /\ Head(s) \in Byte /\ Tail(s) \in Seq(Byte) /\ Len(Tail(s)) = Len(s) - 1
         /\ Len(s) \in Nat \ {0}
         /\ Known(s, n) => Known(Tail(s), n) /\ Head(s).msg \in 1 .. n
<1>1. /\ Head(s) \in Byte /\ Tail(s) \in Seq(Byte) /\ Len(Tail(s)) = Len(s) - 1
      /\ \A i \in 1 .. Len(Tail(s)) : Tail(s)[i] = s[i + 1]
  BY HeadTailProperties
<1>2. Len(s) \in Nat \ {0} /\ Head(s) = s[1]
  BY EmptySeq
<1> QED
  BY <1>1, <1>2 DEF Known

(* What the host sends next, and what remains.                             *)
LEMMA Cut ==
  ASSUME NEW s \in Seq(Byte), NEW n \in Nat
  PROVE  LET rest == SubSeq(s, Len(Packet(s)) + 1, Len(s)) IN
         /\ Packet(s) \in Seq(Byte) /\ Len(Packet(s)) <= BankSize
         /\ rest \in Seq(Byte) /\ Len(Packet(s)) + Len(rest) = Len(s)
         /\ \A i \in 1 .. Len(Packet(s)) : Packet(s)[i] = s[i]
         /\ \A i \in 1 .. Len(rest) : rest[i] = s[Len(Packet(s)) + i]
         /\ Known(s, n) => Known(Packet(s), n) /\ Known(rest, n)
<1> DEFINE k == IF Len(s) < BankSize THEN Len(s) ELSE BankSize
           rest == SubSeq(s, k + 1, Len(s))
<1>1. Len(s) \in Nat /\ k \in Nat /\ k <= Len(s) /\ k <= BankSize
  BY Sizes
<1> HIDE DEF k
<1>2. \A i \in 1 .. Len(s) : s[i] \in Byte
  BY ElementOfSeq
<1>3. Packet(s) = SubSeq(s, 1, k)
  BY DEF Packet, k
<1>4. /\ Packet(s) \in Seq(Byte) /\ Len(Packet(s)) = k
      /\ \A i \in 1 .. k : Packet(s)[i] = s[i]
  <2>1. \A i \in 1 .. k : s[i] \in Byte
    BY <1>1, <1>2
  <2>2. /\ SubSeq(s, 1, k) \in Seq(Byte)
        /\ Len(SubSeq(s, 1, k)) = IF 1 <= k THEN k - 1 + 1 ELSE 0
        /\ \A i \in 1 .. k - 1 + 1 : SubSeq(s, 1, k)[i] = s[1 + i - 1]
    BY <1>1, <2>1, SubSeqProperties
  <2> QED
    BY <1>1, <1>3, <2>2
<1>5. /\ rest \in Seq(Byte) /\ Len(rest) = Len(s) - k
      /\ \A i \in 1 .. Len(s) - k : rest[i] = s[k + i]
  <2>1. \A i \in k + 1 .. Len(s) : s[i] \in Byte
    BY <1>1, <1>2
  <2>2. /\ rest \in Seq(Byte)
        /\ Len(rest) = IF k + 1 <= Len(s) THEN Len(s) - (k + 1) + 1 ELSE 0
        /\ \A i \in 1 .. Len(s) - (k + 1) + 1 : rest[i] = s[k + 1 + i - 1]
    BY <1>1, <2>1, SubSeqProperties
  <2> QED
    BY <1>1, <2>2
<1> HIDE DEF rest
<1>6. Known(s, n) => Known(Packet(s), n)
  BY <1>1, <1>4 DEF Known
<1>7. Known(s, n) => Known(rest, n)
  <2> SUFFICES ASSUME Known(s, n), NEW i \in 1 .. Len(rest) PROVE rest[i].msg \in 1 .. n
    BY DEF Known
  <2>1. k + i \in 1 .. Len(s) /\ rest[i] = s[k + i]
    BY <1>1, <1>5
  <2> QED
    BY <2>1 DEF Known
<1> QED
  BY <1>1, <1>4, <1>5, <1>6, <1>7 DEF rest, k

(* A message is a sequence of bytes that belong to it.                     *)
LEMMA MessageTyped ==
  ASSUME NEW m \in Nat, NEW n \in Lengths
  PROVE  Message(m, n) \in Seq(Byte) /\ \A i \in 1 .. Len(Message(m, n)) : Message(m, n)[i].msg = m
<1>1. HeaderSize + n \in Nat
  BY SizesAssumption
<1>2. \A i \in 1 .. HeaderSize + n : [msg |-> m, pos |-> i] \in Byte
  BY <1>1 DEF Byte
<1>3. Message(m, n) \in [1 .. HeaderSize + n -> Byte]
  BY <1>2 DEF Message
<1>4. Message(m, n) \in Seq(Byte) /\ Len(Message(m, n)) = HeaderSize + n
  BY <1>1, <1>3
<1> QED
  BY <1>4 DEF Message

-----------------------------------------------------------------------------
(* The pieces the actions are made of.                                     *)

(* The banks after one is passed on.                                       *)
LEMMA ClearTyped ==
  ASSUME StreamTypes, ClearCurrentBank
  PROVE  /\ bank' \in [DataEndpoints -> Seq(Byte)] /\ toHost' \subseteq DataEndpoints
         /\ \A e \in DataEndpoints : Len(bank'[e]) <= BankSize
         /\ Known(bank'["rx"], Len(received))
<1>1. /\ bank \in [DataEndpoints -> Seq(Byte)] /\ toHost \subseteq DataEndpoints
      /\ \A e \in DataEndpoints : Len(bank[e]) <= BankSize
      /\ Known(bank["rx"], Len(received)) /\ selected \in DataEndpoints \union {"control"}
  BY DEF StreamTypes, TypeOK
<1>2. toHost' \subseteq DataEndpoints
  BY <1>1 DEF ClearCurrentBank, DataEndpoints
<1>3. bank' = bank \/ bank' = [bank EXCEPT !["rx"] = <<>>]
  BY DEF ClearCurrentBank
<1>4. CASE bank' = bank
  BY <1>1, <1>2, <1>4
<1>5. CASE bank' = [bank EXCEPT !["rx"] = <<>>]
  BY <1>1, <1>2, <1>5, Empty, Sizes DEF DataEndpoints, Known
<1> QED
  BY <1>3, <1>4, <1>5

(* What a wait that has just begun leaves.                                 *)
LEMMA StartTyped ==
  ASSUME StartWait
  PROVE  /\ timeout' \in 0 .. StreamTimeout /\ frames' \in 0 .. StreamTimeout + 1
         /\ sofi' \in BOOLEAN /\ pc' = "wait"
BY Sizes DEF StartWait

(* What a task that is over leaves.                                        *)
LEMMA LeaveTyped ==
  ASSUME LeaveTask, NEW n \in Nat
  PROVE  /\ pc' = "idle" /\ stage' \in {"header", "data"} /\ length' \in {0} \union Lengths
         /\ buffer' \in Seq(Byte) /\ Known(buffer', n) /\ done' \in 0 .. HeaderSize + length'
         /\ done' = 0 /\ timeout' \in 0 .. StreamTimeout
         /\ frames' \in 0 .. StreamTimeout + 1 /\ sofi' \in BOOLEAN
<1>1. /\ pc' = "idle" /\ stage' = "header" /\ length' = 0 /\ buffer' = <<>> /\ done' = 0
      /\ timeout' = 0 /\ frames' = 0 /\ sofi' = FALSE
  BY DEF LeaveTask
<1>2. Known(<<>>, n)
  BY Empty DEF Known
<1>3. 0 \in 0 .. HeaderSize + 0
  BY Sizes
<1> QED
  BY <1>1, <1>2, <1>3, Empty, Sizes

(* What follows a stream keeps the types.                                  *)
LEMMA ReturnTyped ==
  ASSUME StreamTypes, NEW c, Return(c)
  PROVE  StreamTypes'
<1>1. /\ disturbed' \in BOOLEAN
      /\ UNCHANGED <<job, selected, enabled, connected, running, floating, hostOut, received,
                     resets, suspends, hostIn, sent>>
  BY DEF Return, wireVars, StreamTypes, TypeOK
<1>2. CASE stage = "header"
  <2>1. AfterHeader
    BY <1>2 DEF Return
  <2>2. PICK n \in DataLengths :
          IF job = "rx" /\ n > MaxFrame
          THEN /\ stalled' = IF selected \in enabled THEN stalled \union {selected} ELSE stalled
               /\ LeaveTask
               /\ UNCHANGED <<bank, toHost, delivered>>
          ELSE /\ length' = n /\ StartStream("data")
               /\ UNCHANGED <<buffer, stalled, bank, toHost, delivered>>
    BY <2>1 DEF AfterHeader
  <2>3. n \in {0} \union Lengths
    <3>1. /\ Known(buffer, Len(received)) /\ received \in Seq(Lengths)
          /\ length \in {0} \union Lengths /\ buffer \in Seq(Byte)
      BY DEF StreamTypes, TypeOK
    <3>2. ASSUME Len(buffer) = HeaderSize PROVE received[buffer[1].msg] \in Lengths
      <4>1. 1 \in 1 .. Len(buffer)
        BY <3>2, Sizes
      <4>2. buffer[1].msg \in 1 .. Len(received)
        BY <3>1, <4>1 DEF Known
      <4> QED
        BY <3>1, <4>2, ElementOfSeq
    <3> QED
      BY <3>1, <3>2 DEF DataLengths
  <2>4. CASE job = "rx" /\ n > MaxFrame
    <3>1. /\ LeaveTask /\ UNCHANGED <<bank, toHost, delivered>>
          /\ stalled' = IF selected \in enabled THEN stalled \union {selected} ELSE stalled
      BY <2>2, <2>4
    <3>2. stalled' \subseteq enabled
      BY <3>1 DEF StreamTypes, TypeOK
    <3> QED
      BY <1>1, <3>1, <3>2, LeaveTyped, SMTT(30) DEF StreamTypes, TypeOK, Points
  <2>5. CASE ~(job = "rx" /\ n > MaxFrame)
    <3>1. /\ length' = n /\ stage' = "data" /\ done' = 0 /\ StartWait
          /\ UNCHANGED <<buffer, stalled, bank, toHost, delivered>>
      BY <2>2, <2>5 DEF StartStream
    <3>2. 0 \in 0 .. HeaderSize + n
      BY <2>3, Sizes
    <3> QED
      BY <1>1, <2>3, <3>1, <3>2, StartTyped DEF StreamTypes, TypeOK, Points
  <2> QED
    BY <2>4, <2>5
<1>3. CASE stage # "header"
  <2>1. /\ ClearCurrentBank /\ LeaveTask /\ UNCHANGED stalled
        /\ delivered' = IF job = "rx" THEN Append(delivered, buffer) ELSE delivered
    BY <1>3 DEF Return, AfterData
  <2>2. delivered' \in Seq(Seq(Byte))
    BY <2>1, AppendProperties DEF StreamTypes, TypeOK
  <2>3. Len(received) \in Nat
    BY DEF StreamTypes, TypeOK
  <2>4. /\ pc' = "idle" /\ stage' \in {"header", "data"} /\ length' \in {0} \union Lengths
        /\ buffer' \in Seq(Byte) /\ Known(buffer', Len(received)) /\ done' \in 0 .. HeaderSize + length'
        /\ done' = 0 /\ timeout' \in 0 .. StreamTimeout
        /\ frames' \in 0 .. StreamTimeout + 1 /\ sofi' \in BOOLEAN
    BY <2>1, <2>3, LeaveTyped
  <2>5. /\ bank' \in [DataEndpoints -> Seq(Byte)] /\ toHost' \subseteq DataEndpoints
        /\ \A e \in DataEndpoints : Len(bank'[e]) <= BankSize
        /\ Known(bank'["rx"], Len(received))
    BY <2>1, ClearTyped
  <2> QED
    BY <1>1, <2>1, <2>2, <2>4, <2>5 DEF StreamTypes, TypeOK, Points
<1> QED
  BY <1>2, <1>3

(* The task keeps the types.                                               *)
LEMMA TaskTyped == ASSUME StreamTypes, EthernetTask PROVE StreamTypes'
<1>1. CASE SelectTx
  <2>1. length' \in Lengths /\ done = 0 /\ done' = done
    BY <1>1 DEF SelectTx, streamVars, StreamTypes
  <2>2. done' \in 0 .. HeaderSize + length'
    BY <2>1, Sizes
  <2> QED
    BY <1>1, <2>1, <2>2 DEF SelectTx, StreamTypes, TypeOK, Points, DataEndpoints, streamVars, Unmoved,
                            linkVars, wireVars
<1>2. CASE SelectRx
  <2>1. length' = 0 /\ done = 0 /\ done' = done
    BY <1>2 DEF SelectRx, streamVars, StreamTypes
  <2>2. done' \in 0 .. HeaderSize + length'
    BY <2>1, Sizes
  <2> QED
    BY <1>2, <2>1, <2>2 DEF SelectRx, StreamTypes, TypeOK, Points, DataEndpoints, streamVars, Unmoved,
                            linkVars, wireVars
<1>3. CASE BeginHeader
  <2>1. /\ pc = "selected" /\ stage' = "header" /\ done' = 0 /\ StartWait /\ buffer' = <<>>
        /\ sent' = IF job = "tx" THEN Append(sent, length) ELSE sent
        /\ UNCHANGED <<job, length, selected, bank, toHost, linkVars, wireVars, disturbed, delivered>>
    BY <1>3 DEF BeginHeader, StartStream
  <2>2. sent' \in Seq(Lengths)
    BY <2>1, AppendProperties DEF StreamTypes, TypeOK
  <2>3. 0 \in 0 .. HeaderSize + length
    BY Sizes DEF StreamTypes, TypeOK
  <2>4. buffer' \in Seq(Byte) /\ Known(buffer', Len(received))
    BY <2>1, Empty DEF Known
  <2> QED
    BY <2>1, <2>2, <2>3, <2>4, StartTyped DEF StreamTypes, TypeOK, Points, linkVars, wireVars
<1>4. CASE NotReady
  BY <1>4, LeaveTyped, SMTT(30) DEF NotReady, StreamTypes, TypeOK, Points, linkVars, wireVars
<1>5. CASE WaitReady
  BY <1>5 DEF WaitReady, StreamTypes, TypeOK, Points, jobVars, streamVars, Unmoved, linkVars, wireVars
<1>6. CASE WaitDisconnected \/ WaitTimeout \/ StreamDone
  BY <1>6, ReturnTyped DEF WaitDisconnected, WaitTimeout, StreamDone
<1>7. CASE WaitFrame
  <2>1. timeout' \in 0 .. StreamTimeout /\ sofi' = FALSE
    BY <1>7, Sizes DEF WaitFrame, StreamTypes, TypeOK
  <2> QED
    BY <1>7, <2>1 DEF WaitFrame, StreamTypes, TypeOK, Points, jobVars, linkVars, wireVars
<1>8. CASE NextBank
  BY <1>8, ClearTyped, StartTyped, ZenonT(30) DEF NextBank, StreamTypes, TypeOK, Points, jobVars, linkVars, wireVars
<1>9. ASSUME pc = "byte", done < StreamLength, done' = done + 1
      PROVE  done' \in 0 .. HeaderSize + length
  <2>1. done \in Nat /\ length \in Nat /\ HeaderSize \in Nat
    BY Sizes DEF StreamTypes, TypeOK
  <2>2. StreamLength <= HeaderSize + length /\ StreamLength \in Nat
    BY <2>1 DEF StreamLength
  <2> QED
    BY <1>9, <2>1, <2>2
<1>10. CASE WriteByte
  <2>1. /\ pc = "byte" /\ done < StreamLength /\ done' = done + 1 /\ Allowed
        /\ bank' = IF selected = "tx" THEN [bank EXCEPT !["tx"] = Append(@, OutByte)] ELSE bank
        /\ UNCHANGED <<pc, jobVars, timeout, frames, sofi, selected, toHost, linkVars, wireVars,
                       sent, disturbed, delivered>>
    BY <1>10 DEF WriteByte
  <2>2. /\ bank' \in [DataEndpoints -> Seq(Byte)] /\ \A e \in DataEndpoints : Len(bank'[e]) <= BankSize
        /\ bank'["rx"] = bank["rx"]
    <3>1. /\ bank \in [DataEndpoints -> Seq(Byte)] /\ \A e \in DataEndpoints : Len(bank[e]) <= BankSize
          /\ bank["tx"] \in Seq(Byte) /\ Len(bank["tx"]) \in Nat
      BY DEF StreamTypes, TypeOK, DataEndpoints
    <3>2. OutByte \in Byte
      BY Sizes DEF OutByte, Byte, StreamTypes, TypeOK
    <3>3. /\ Append(bank["tx"], OutByte) \in Seq(Byte)
          /\ Len(Append(bank["tx"], OutByte)) = Len(bank["tx"]) + 1
      BY <3>1, <3>2, OneMore
    <3>4. ASSUME selected = "tx" PROVE Len(bank["tx"]) + 1 <= BankSize
      BY <2>1, <3>1, <3>4, Sizes DEF Allowed, ReadWriteAllowed
    <3> QED
      BY <2>1, <3>1, <3>3, <3>4 DEF DataEndpoints
  <2>3. done' \in 0 .. HeaderSize + length
    BY <1>9, <2>1
  <2> QED
    BY <2>1, <2>2, <2>3, ZenonT(30) DEF StreamTypes, TypeOK, Points, jobVars, linkVars, wireVars
<1>11. CASE ReadByte
  <2>1. /\ pc = "byte" /\ done < StreamLength /\ done' = done + 1 /\ Allowed
        /\ IF selected = "rx"
           THEN /\ buffer' = Append(buffer, Head(bank["rx"]))
                /\ bank' = [bank EXCEPT !["rx"] = Tail(@)]
           ELSE UNCHANGED <<bank, buffer>>
        /\ UNCHANGED <<pc, job, stage, length, timeout, frames, selected, toHost, sent,
                       disturbed, delivered, sofi, linkVars, wireVars>>
    BY <1>11 DEF ReadByte, Unmoved
  <2>2. /\ bank' \in [DataEndpoints -> Seq(Byte)] /\ \A e \in DataEndpoints : Len(bank'[e]) <= BankSize
        /\ Known(bank'["rx"], Len(received))
        /\ buffer' \in Seq(Byte) /\ Known(buffer', Len(received))
    <3>1. /\ bank \in [DataEndpoints -> Seq(Byte)] /\ \A e \in DataEndpoints : Len(bank[e]) <= BankSize
          /\ bank["rx"] \in Seq(Byte) /\ Len(bank["rx"]) \in Nat /\ buffer \in Seq(Byte)
          /\ Known(bank["rx"], Len(received)) /\ Known(buffer, Len(received))
          /\ Len(received) \in Nat
      BY DEF StreamTypes, TypeOK, DataEndpoints
    <3>2. CASE selected = "rx"
      <4>1. bank["rx"] # <<>>
        BY <2>1, <3>2 DEF Allowed, ReadWriteAllowed
      <4>2. /\ Head(bank["rx"]) \in Byte /\ Tail(bank["rx"]) \in Seq(Byte)
            /\ Len(Tail(bank["rx"])) = Len(bank["rx"]) - 1
            /\ Known(Tail(bank["rx"]), Len(received)) /\ Head(bank["rx"]).msg \in 1 .. Len(received)
        BY <3>1, <4>1, OneLess
      <4>3. /\ Append(buffer, Head(bank["rx"])) \in Seq(Byte)
            /\ Known(Append(buffer, Head(bank["rx"])), Len(received))
        BY <3>1, <4>2, OneMore
      <4>4. Len(bank["rx"]) - 1 <= BankSize
        BY <3>1, Sizes DEF DataEndpoints
      <4> QED
        BY <2>1, <3>1, <3>2, <4>2, <4>3, <4>4 DEF DataEndpoints
    <3>3. CASE selected # "rx"
      BY <2>1, <3>1, <3>3
    <3> QED
      BY <3>2, <3>3
  <2>3. done' \in 0 .. HeaderSize + length
    BY <1>9, <2>1
  <2> QED
    BY <2>1, <2>2, <2>3, ZenonT(30) DEF StreamTypes, TypeOK, Points, linkVars, wireVars
<1> QED
  BY <1>1, <1>2, <1>3, <1>4, <1>5, <1>6, <1>7, <1>8, <1>10, <1>11 DEF EthernetTask, Stream

-----------------------------------------------------------------------------
(* The host and the bus keep the types.                                    *)
LEMMA HostTyped == ASSUME StreamTypes, Host PROVE StreamTypes'
<1>1. CASE HostMessage
  <2>1. PICK n \in Lengths :
          /\ received' = Append(received, n) /\ hostOut' = Message(Len(received) + 1, n)
          /\ UNCHANGED <<TaskVars, sofi, bank, toHost, linkVars, floating, resets, suspends,
                         hostIn, disturbed>>
    BY <1>1 DEF HostMessage
  <2>2. /\ received' \in Seq(Lengths) /\ Len(received') = Len(received) + 1 /\ Len(received) \in Nat
    BY <2>1, AppendProperties DEF StreamTypes, TypeOK
  <2>3. hostOut' \in Seq(Byte) /\ Known(hostOut', Len(received'))
    <3> DEFINE m == Len(received) + 1
    <3>1. m \in Nat /\ m \in 1 .. Len(received')
      BY <2>2
    <3>2. /\ Message(m, n) \in Seq(Byte)
          /\ \A i \in 1 .. Len(Message(m, n)) : Message(m, n)[i].msg = m
      BY <3>1, MessageTyped
    <3>3. hostOut' = Message(m, n)
      BY <2>1
    <3> HIDE DEF m
    <3> QED
      BY <3>1, <3>2, <3>3 DEF Known
  <2>4. \A q \in Seq(Byte) : Known(q, Len(received)) => Known(q, Len(received'))
    BY <2>2 DEF Known
  <2>5. bank["rx"] \in Seq(Byte) /\ buffer \in Seq(Byte)
    BY DEF StreamTypes, TypeOK, DataEndpoints
  <2>6. Known(bank["rx"], Len(received')) /\ Known(buffer, Len(received'))
    BY <2>4, <2>5 DEF StreamTypes
  <2> QED
    BY <2>1, <2>2, <2>3, <2>6, SMTT(30) DEF StreamTypes, TypeOK, TaskVars, jobVars, streamVars, linkVars
<1>2. CASE HostSends
  <2>1. /\ bank' = [bank EXCEPT !["rx"] = Packet(hostOut)]
        /\ hostOut' = SubSeq(hostOut, Len(Packet(hostOut)) + 1, Len(hostOut))
        /\ toHost' = toHost \ {"rx"}
        /\ UNCHANGED <<TaskVars, sofi, linkVars, floating, received, resets, suspends, hostIn, disturbed>>
    BY <1>2 DEF HostSends
  <2>2. hostOut \in Seq(Byte) /\ Len(received) \in Nat /\ Known(hostOut, Len(received))
    BY DEF StreamTypes, TypeOK
  <2>3. /\ Packet(hostOut) \in Seq(Byte) /\ Len(Packet(hostOut)) <= BankSize
        /\ Known(Packet(hostOut), Len(received))
        /\ hostOut' \in Seq(Byte) /\ Known(hostOut', Len(received))
    BY <2>1, <2>2, Cut
  <2>4. /\ bank' \in [DataEndpoints -> Seq(Byte)] /\ \A e \in DataEndpoints : Len(bank'[e]) <= BankSize
        /\ Known(bank'["rx"], Len(received))
    BY <2>1, <2>3 DEF StreamTypes, TypeOK, DataEndpoints
  <2> QED
    BY <2>1, <2>3, <2>4, SMTT(30) DEF StreamTypes, TypeOK, TaskVars, jobVars, streamVars, linkVars
<1>3. ASSUME NEW e \in DataEndpoints, bank' = [bank EXCEPT ![e] = <<>>]
      PROVE  /\ bank' \in [DataEndpoints -> Seq(Byte)] /\ \A d \in DataEndpoints : Len(bank'[d]) <= BankSize
             /\ Known(bank'["rx"], Len(received))
  BY <1>3, Empty, Sizes DEF StreamTypes, TypeOK, DataEndpoints, Known
<1>4. CASE HostReads
  <2>1. /\ hostIn' = hostIn \o bank["tx"] /\ bank' = [bank EXCEPT !["tx"] = <<>>]
        /\ toHost' = toHost \ {"tx"}
        /\ UNCHANGED <<TaskVars, sofi, linkVars, floating, hostOut, received, resets, suspends, disturbed>>
    BY <1>4 DEF HostReads
  <2>2. hostIn' \in Seq(Byte)
    BY <2>1, ConcatProperties DEF StreamTypes, TypeOK, DataEndpoints
  <2>3. /\ bank' \in [DataEndpoints -> Seq(Byte)] /\ \A e \in DataEndpoints : Len(bank'[e]) <= BankSize
        /\ Known(bank'["rx"], Len(received))
    BY <1>3, <2>1 DEF DataEndpoints
  <2> QED
    BY <2>1, <2>2, <2>3, SMTT(30) DEF StreamTypes, TypeOK, TaskVars, jobVars, streamVars, linkVars
<1>5. CASE ClearHalt
  <2>1. /\ stalled' = {} /\ hostOut' = <<>> /\ bank' = [bank EXCEPT !["rx"] = <<>>]
        /\ toHost' = toHost \union {"rx"}
        /\ UNCHANGED <<TaskVars, sofi, enabled, connected, running, floating, received, resets,
                       suspends, hostIn, disturbed>>
    BY <1>5 DEF ClearHalt
  <2>2. /\ bank' \in [DataEndpoints -> Seq(Byte)] /\ \A e \in DataEndpoints : Len(bank'[e]) <= BankSize
        /\ Known(bank'["rx"], Len(received))
    BY <1>3, <2>1 DEF DataEndpoints
  <2>3. hostOut' \in Seq(Byte) /\ Known(hostOut', Len(received)) /\ toHost' \subseteq DataEndpoints
    BY <2>1, Empty DEF Known, StreamTypes, TypeOK, DataEndpoints
  <2> QED
    BY <2>1, <2>2, <2>3 DEF StreamTypes, TypeOK, TaskVars, jobVars, streamVars
<1>6. CASE Configure
  <2>1. /\ connected /\ enabled' = DataEndpoints /\ running' = TRUE /\ stalled' = {}
        /\ toHost' = {"rx"} /\ bank' = [e \in DataEndpoints |-> <<>>]
        /\ disturbed' = TRUE /\ hostOut' = <<>>
        /\ UNCHANGED <<TaskVars, sofi, connected, floating, received, resets, suspends, hostIn>>
    BY <1>6 DEF Configure
  <2>2. /\ bank' \in [DataEndpoints -> Seq(Byte)] /\ \A e \in DataEndpoints : Len(bank'[e]) <= BankSize
        /\ Known(bank'["rx"], Len(received)) /\ toHost' \subseteq DataEndpoints
        /\ hostOut' \in Seq(Byte) /\ Known(hostOut', Len(received))
    BY <2>1, Empty, Sizes DEF DataEndpoints, Known
  <2> QED
    BY <2>1, <2>2 DEF StreamTypes, TypeOK, TaskVars, jobVars, streamVars
<1> QED
  BY <1>1, <1>2, <1>4, <1>5, <1>6 DEF Host

(* The bus and the USB interrupt keep the types, at any point of a stream. *)
LEMMA BusTyped == ASSUME StreamTypes, Bus PROVE StreamTypes'
<1>1. CASE StartOfFrame
  <2>1. frames' \in 0 .. StreamTimeout + 1
    BY <1>1, Sizes DEF StartOfFrame, StreamTypes, TypeOK
  <2> QED
    BY <1>1, <2>1 DEF StartOfFrame, StreamTypes, TypeOK, jobVars, linkVars, wireVars
<1>2. CASE BusReset
  <2>1. /\ enabled' = {} /\ stalled' = {} /\ toHost' = {"rx"} /\ resets < MaxResets
        /\ bank' = [e \in DataEndpoints |-> <<>>] /\ resets' = resets + 1
        /\ selected' = "control" /\ hostOut' = <<>> /\ disturbed' = TRUE
        /\ UNCHANGED <<pc, jobVars, streamVars, sofi, connected, running, floating, received, suspends,
                       hostIn, sent, delivered>>
    BY <1>2 DEF BusReset
  <2>2. /\ bank' \in [DataEndpoints -> Seq(Byte)] /\ \A e \in DataEndpoints : Len(bank'[e]) <= BankSize
        /\ Known(bank'["rx"], Len(received)) /\ toHost' \subseteq DataEndpoints
        /\ hostOut' \in Seq(Byte) /\ Known(hostOut', Len(received))
    BY <2>1, Empty, Sizes DEF DataEndpoints, Known
  <2>3. resets' \in 0 .. MaxResets
    BY <2>1, SizesAssumption DEF StreamTypes, TypeOK
  <2> QED
    BY <2>1, <2>2, <2>3 DEF StreamTypes, TypeOK, jobVars, streamVars
<1>3. CASE Suspend
  <2>1. /\ connected' = FALSE /\ running' = FALSE /\ suspends' = suspends + 1 /\ suspends < MaxSuspends
        /\ hostOut' = <<>> /\ disturbed' = TRUE
        /\ UNCHANGED <<TaskVars, sofi, bank, toHost, enabled, stalled, floating, received, resets, hostIn>>
    BY <1>3 DEF Suspend
  <2>2. suspends' \in 0 .. MaxSuspends /\ hostOut' \in Seq(Byte) /\ Known(hostOut', Len(received))
    BY <2>1, Empty, SizesAssumption DEF StreamTypes, TypeOK, Known
  <2> QED
    BY <2>1, <2>2 DEF StreamTypes, TypeOK, TaskVars, jobVars, streamVars
<1>4. CASE WakeUp
  BY <1>4 DEF WakeUp, StreamTypes, TypeOK, TaskVars, jobVars, streamVars, wireVars
<1> QED
  BY <1>1, <1>2, <1>3, <1>4 DEF Bus

(* The types hold always.                                                  *)
LEMMA TypesHold == Spec => []StreamTypes
<1>1. Init => StreamTypes
  <2> SUFFICES ASSUME Init PROVE StreamTypes
    OBVIOUS
  <2>1. /\ bank \in [DataEndpoints -> Seq(Byte)] /\ \A e \in DataEndpoints : Len(bank[e]) <= BankSize
        /\ Known(bank["rx"], Len(received)) /\ toHost \subseteq DataEndpoints
        /\ hostOut \in Seq(Byte) /\ Known(hostOut, Len(received))
        /\ buffer \in Seq(Byte) /\ Known(buffer, Len(received))
    BY Empty, Sizes DEF Init, DataEndpoints, Known
  <2>2. /\ hostIn \in Seq(Byte) /\ received \in Seq(Lengths) /\ sent \in Seq(Lengths)
        /\ delivered \in Seq(Seq(Byte))
    BY EmptySeq DEF Init
  <2>3. /\ resets \in 0 .. MaxResets /\ suspends \in 0 .. MaxSuspends
        /\ done \in 0 .. HeaderSize + length /\ timeout \in 0 .. StreamTimeout
        /\ frames \in 0 .. StreamTimeout + 1
    BY SizesAssumption DEF Init
  <2> QED
    BY <2>1, <2>2, <2>3 DEF Init, StreamTypes, TypeOK, Points
<1>2. StreamTypes /\ [Next]_vars => StreamTypes'
  <2>1. StreamTypes /\ UNCHANGED vars => StreamTypes'
    BY DEF vars, jobVars, streamVars, linkVars, wireVars, StreamTypes, TypeOK
  <2> QED
    BY <2>1, TaskTyped, HostTyped, BusTyped DEF Next
<1> QED
  BY <1>1, <1>2, PTL DEF Spec

(* Type correctness: whatever the host and the bus do in the middle of a   *)
(* stream, no bank holds more than its size, only endpoints that exist are *)
(* stalled, and the task runs only on a connected bus.                     *)
THEOREM TypeCorrect == Spec => []TypeOK
<1>1. StreamTypes => TypeOK
  BY DEF StreamTypes
<1> QED
  BY <1>1, TypesHold, PTL

-----------------------------------------------------------------------------
(* A stream gives up only after the time-out's whole frames of the bus: no *)
(* flag left from before the wait is counted, and none twice.              *)
THEOREM FramesAreCounted == Spec => []TimeoutCountsFrames
<1>1. Init => TimeoutCountsFrames
  BY DEF Init, TimeoutCountsFrames
<1>2. StreamTypes /\ TimeoutCountsFrames /\ [Next]_vars => TimeoutCountsFrames'
  <2> SUFFICES ASSUME StreamTypes, TimeoutCountsFrames, [Next]_vars PROVE TimeoutCountsFrames'
    OBVIOUS
  <2> USE DEF TimeoutCountsFrames
  <2>1. timeout \in Nat /\ frames \in Nat /\ StreamTimeout \in Nat /\ frames \in 0 .. StreamTimeout + 1
    BY Sizes DEF StreamTypes, TypeOK
  <2>2. StartWait => TimeoutCountsFrames'
    BY <2>1 DEF StartWait
  <2>3. LeaveTask => TimeoutCountsFrames'
    BY DEF LeaveTask
  <2>4. CASE SelectTx \/ SelectRx \/ WaitReady
    BY <2>4 DEF SelectTx, SelectRx, WaitReady
  <2>5. CASE BeginHeader \/ NextBank
    BY <2>2, <2>5 DEF BeginHeader, NextBank, StartStream
  <2>6. CASE NotReady
    BY <2>3, <2>6 DEF NotReady
  <2>7. CASE WaitDisconnected \/ WaitTimeout \/ StreamDone
    <3>1. AfterHeader \/ AfterData
      BY <2>7 DEF WaitDisconnected, WaitTimeout, StreamDone, Return
    <3>2. LeaveTask \/ StartWait
      BY <3>1 DEF AfterHeader, AfterData, StartStream
    <3> QED
      BY <2>2, <2>3, <3>2
  <2>8. CASE WaitFrame
    BY <2>1, <2>8 DEF WaitFrame
  <2>9. CASE WriteByte \/ ReadByte
    BY <2>9 DEF WriteByte, ReadByte
  <2>10. CASE StartOfFrame
    BY <2>1, <2>10 DEF StartOfFrame
  <2>11. CASE Host \/ BusReset \/ Suspend \/ WakeUp
    <3>1. UNCHANGED <<pc, timeout, frames, sofi>>
      BY <2>11 DEF Host, HostMessage, HostSends, HostReads, ClearHalt, Configure, BusReset, Suspend,
                   WakeUp, TaskVars, streamVars
    <3> QED
      BY <3>1
  <2>12. CASE UNCHANGED vars
    BY <2>12 DEF vars, streamVars
  <2> QED
    BY <2>4, <2>5, <2>6, <2>7, <2>8, <2>9, <2>10, <2>11, <2>12
       DEF Next, EthernetTask, Stream, Bus
<1> QED
  BY <1>1, <1>2, TypesHold, PTL DEF Spec

-----------------------------------------------------------------------------
(* What the undisturbed system has to itself: no stream failed, the        *)
(* endpoints are as they were configured, and a task that uses one has it  *)
(* selected.                                                               *)
Streaming(j) == job = j /\ pc \in {"wait", "byte"}

Position == IF stage = "header" THEN done ELSE HeaderSize + done

Quiet ==
  ~disturbed => /\ enabled = DataEndpoints
                /\ pc # "idle" => selected = job

(* The steps that leave the system undisturbed.                            *)
QuietStep ==
  \/ SelectTx \/ SelectRx \/ BeginHeader \/ NotReady \/ WaitReady \/ WaitFrame \/ NextBank
  \/ WriteByte \/ ReadByte \/ StreamDone \/ HostMessage \/ HostSends \/ HostReads
  \/ ClearHalt \/ StartOfFrame \/ WakeUp \/ UNCHANGED vars

(* What is disturbed stays so: a quiet state comes from a quiet step.      *)
LEMMA StaysQuiet ==
  ASSUME StreamTypes, [Next]_vars, ~disturbed'
  PROVE  ~disturbed /\ QuietStep
<1>1. disturbed \in BOOLEAN
  BY DEF StreamTypes, TypeOK
<1>2. ~WaitDisconnected /\ ~WaitTimeout
  BY DEF WaitDisconnected, WaitTimeout, Return
<1>3. ~BusReset /\ ~Configure /\ ~Suspend
  BY DEF BusReset, Configure, Suspend
<1>4. QuietStep
  BY <1>2, <1>3 DEF Next, EthernetTask, Stream, Host, Bus, QuietStep
<1>5. ~disturbed
  <2>1. CASE SelectTx \/ SelectRx \/ BeginHeader \/ NotReady \/ WaitReady \/ WaitFrame
    BY <2>1 DEF SelectTx, SelectRx, BeginHeader, NotReady, WaitReady, WaitFrame
  <2>2. CASE NextBank \/ WriteByte \/ ReadByte \/ StreamDone
    BY <1>1, <2>2 DEF NextBank, WriteByte, ReadByte, StreamDone, Return
  <2>3. CASE HostMessage \/ HostSends \/ HostReads \/ ClearHalt \/ StartOfFrame \/ WakeUp
    BY <2>3 DEF HostMessage, HostSends, HostReads, ClearHalt, StartOfFrame, WakeUp
  <2>4. CASE UNCHANGED vars
    BY <2>4 DEF vars
  <2> QED
    BY <1>4, <2>1, <2>2, <2>3, <2>4 DEF QuietStep
<1> QED
  BY <1>4, <1>5

(* What follows a stream leaves the task, or begins the next stream.       *)
LEMMA AfterStream ==
  ASSUME StreamDone
  PROVE  /\ pc = "byte" /\ done = StreamLength
         /\ UNCHANGED <<job, selected, enabled, connected, running, wireVars, sent>>
         /\ \/ /\ stage = "header" /\ stage' = "data" /\ done' = 0 /\ pc' = "wait"
               /\ length' \in DataLengths /\ ~(job = "rx" /\ length' > MaxFrame)
               /\ UNCHANGED <<buffer, stalled, bank, toHost, delivered>>
            \/ /\ stage = "header" /\ job = "rx" /\ LeaveTask
               /\ stalled' = IF selected \in enabled THEN stalled \union {selected} ELSE stalled
               /\ UNCHANGED <<bank, toHost, delivered>>
            \/ /\ stage # "header" /\ ClearCurrentBank /\ LeaveTask /\ UNCHANGED stalled
               /\ delivered' = IF job = "rx" THEN Append(delivered, buffer) ELSE delivered
<1>1. /\ pc = "byte" /\ done = StreamLength
      /\ IF stage = "header" THEN AfterHeader ELSE AfterData
      /\ UNCHANGED <<job, selected, enabled, connected, running, wireVars, sent>>
  BY DEF StreamDone, Return
<1>2. CASE stage = "header"
  BY <1>1, <1>2 DEF AfterHeader, StartStream, StartWait
<1>3. CASE stage # "header"
  BY <1>1, <1>3 DEF AfterData
<1> QED
  BY <1>1, <1>2, <1>3

(* The undisturbed system stays as it was configured.                      *)
LEMMA QuietKept == ASSUME StreamTypes, Quiet, [Next]_vars PROVE Quiet'
<1> SUFFICES ASSUME ~disturbed'
             PROVE  enabled' = DataEndpoints /\ (pc' # "idle" => selected' = job')
  BY DEF Quiet
<1>1. ~disturbed /\ QuietStep
  BY StaysQuiet
<1>2. enabled = DataEndpoints /\ (pc # "idle" => selected = job)
  BY <1>1 DEF Quiet
<1>3. CASE SelectTx \/ SelectRx \/ BeginHeader \/ NotReady \/ WaitReady \/ WaitFrame
  BY <1>2, <1>3 DEF SelectTx, SelectRx, BeginHeader, NotReady, WaitReady, WaitFrame, jobVars, Unmoved,
                    linkVars, LeaveTask, StartStream, StartWait
<1>4. CASE NextBank \/ WriteByte \/ ReadByte
  BY <1>2, <1>4 DEF NextBank, WriteByte, ReadByte, jobVars, Unmoved, linkVars, StartWait
<1>5. CASE StreamDone
  BY <1>2, <1>5, AfterStream DEF LeaveTask
<1>6. CASE HostMessage \/ HostSends \/ HostReads \/ ClearHalt \/ StartOfFrame \/ WakeUp
  BY <1>2, <1>6 DEF HostMessage, HostSends, HostReads, ClearHalt, StartOfFrame, WakeUp, TaskVars, jobVars,
                    linkVars
<1>7. CASE UNCHANGED vars
  BY <1>2, <1>7 DEF vars, jobVars, linkVars
<1> QED
  BY <1>1, <1>3, <1>4, <1>5, <1>6, <1>7 DEF QuietStep

-----------------------------------------------------------------------------
(* What the device has written, read or still in the bank, and the byte    *)
(* that is due: the next one of the stream, or the first of a message to   *)
(* come.                                                                   *)
Written == hostIn \o bank["tx"]

After(lengths, s) == IF s = <<>> THEN FirstByte ELSE Follows(lengths, s[Len(s)])

Due == IF Streaming("tx") /\ Position < HeaderSize + length
       THEN [msg |-> Len(sent), pos |-> Position + 1]
       ELSE [msg |-> Len(sent) + 1, pos |-> 1]

InOrderThatFar ==
  ~disturbed =>
    /\ InOrder(sent, Written) /\ After(sent, Written) = Due
    /\ Streaming("tx") => sent # <<>> /\ length = sent[Len(sent)]

(* Another message changes nothing for the bytes before it.                *)
LEMMA NextMessage ==
  ASSUME NEW q \in Seq(Lengths), NEW n \in Lengths, NEW s \in Seq(Byte), InOrder(q, s)
  PROVE  /\ InOrder(Append(q, n), s) /\ After(Append(q, n), s) = After(q, s)
         /\ Len(Append(q, n)) = Len(q) + 1 /\ Append(q, n)[Len(q) + 1] = n
<1>1. /\ Append(q, n) \in Seq(Lengths) /\ Len(Append(q, n)) = Len(q) + 1 /\ Len(q) \in Nat
      /\ \A i \in 1 .. Len(q) : Append(q, n)[i] = q[i]
      /\ Append(q, n)[Len(q) + 1] = n
  BY AppendProperties
<1>2. Len(s) \in Nat /\ \A i \in 1 .. Len(s) : s[i] \in Byte /\ s[i].msg \in 1 .. Len(q)
  BY ElementOfSeq DEF InOrder
<1>3. \A i \in 1 .. Len(s) : Follows(Append(q, n), s[i]) = Follows(q, s[i])
  BY <1>1, <1>2 DEF Follows
<1>4. InOrder(Append(q, n), s)
  <2> SUFFICES ASSUME NEW i \in 1 .. Len(s)
               PROVE  /\ s[i].msg \in 1 .. Len(Append(q, n))
                      /\ s[i] = IF i = 1 THEN FirstByte ELSE Follows(Append(q, n), s[i - 1])
    BY DEF InOrder
  <2>1. s[i].msg \in 1 .. Len(Append(q, n))
    BY <1>1, <1>2
  <2>2. i # 1 => i - 1 \in 1 .. Len(s)
    BY <1>2
  <2> QED
    BY <1>3, <2>1, <2>2 DEF InOrder
<1>5. s # <<>> => Len(s) \in 1 .. Len(s)
  BY <1>2, EmptySeq
<1> QED
  BY <1>1, <1>3, <1>4, <1>5 DEF After

(* The byte that is due continues what is there.                           *)
LEMMA OneMoreInOrder ==
  ASSUME NEW q \in Seq(Lengths), NEW s \in Seq(Byte), NEW b \in Byte,
         InOrder(q, s), b = After(q, s), b.msg \in 1 .. Len(q)
  PROVE  InOrder(q, Append(s, b)) /\ After(q, Append(s, b)) = Follows(q, b)
<1>1. /\ Append(s, b) \in Seq(Byte) /\ Len(Append(s, b)) = Len(s) + 1 /\ Len(s) \in Nat
      /\ \A i \in 1 .. Len(s) : Append(s, b)[i] = s[i]
      /\ Append(s, b)[Len(s) + 1] = b
  BY AppendProperties
<1>2. s = <<>> <=> Len(s) = 0
  BY EmptySeq
<1>3. InOrder(q, Append(s, b))
  <2> SUFFICES ASSUME NEW i \in 1 .. Len(s) + 1
               PROVE  /\ Append(s, b)[i].msg \in 1 .. Len(q)
                      /\ Append(s, b)[i] = IF i = 1 THEN FirstByte ELSE Follows(q, Append(s, b)[i - 1])
    BY <1>1 DEF InOrder
  <2>1. CASE i \in 1 .. Len(s)
    <3>1. i # 1 => i - 1 \in 1 .. Len(s)
      BY <1>1, <2>1
    <3> QED
      BY <1>1, <2>1, <3>1 DEF InOrder
  <2>2. CASE i = Len(s) + 1
    <3>1. i # 1 => i - 1 = Len(s) /\ i - 1 \in 1 .. Len(s)
      BY <1>1, <2>2
    <3> QED
      BY <1>1, <1>2, <2>2, <3>1 DEF After
  <2> QED
    BY <1>1, <2>1, <2>2
<1>4. Append(s, b) # <<>>
  BY <1>1, EmptySeq
<1> QED
  BY <1>1, <1>3, <1>4 DEF After

(* A step that moves none of these bytes, and neither begins nor ends a    *)
(* stream of the device, keeps the order.                                  *)
LEMMA NothingWritten ==
  ASSUME InOrderThatFar, ~disturbed, UNCHANGED <<Written, sent, Due>>,
         Streaming("tx")' => Streaming("tx") /\ UNCHANGED length
  PROVE  InOrderThatFar'
BY DEF InOrderThatFar

(* The next byte due is the one the writer stores.                         *)
LEMMA OneByteWritten ==
  ASSUME StreamTypes, Quiet, InOrderThatFar, ~disturbed, WriteByte
  PROVE  InOrderThatFar'
<1>1. /\ pc = "byte" /\ job = "tx" /\ done < StreamLength /\ done' = done + 1 /\ selected = "tx"
      /\ bank' = [bank EXCEPT !["tx"] = Append(@, OutByte)]
      /\ UNCHANGED <<pc, job, stage, length, hostIn, sent>>
  BY DEF WriteByte, Quiet, jobVars, wireVars
<1>2. /\ sent \in Seq(Lengths) /\ hostIn \in Seq(Byte) /\ bank["tx"] \in Seq(Byte)
      /\ bank \in [DataEndpoints -> Seq(Byte)] /\ "tx" \in DataEndpoints
      /\ done \in Nat /\ length \in Nat /\ HeaderSize \in Nat /\ HeaderSize > 0 /\ Len(sent) \in Nat
      /\ stage \in {"header", "data"}
  BY Sizes DEF StreamTypes, TypeOK, DataEndpoints
<1>3. /\ Streaming("tx") /\ Streaming("tx")' /\ Position \in Nat /\ Position < HeaderSize + length
      /\ Position' = Position + 1
  BY <1>1, <1>2 DEF Streaming, Position, StreamLength
<1>4. OutByte = Due /\ OutByte \in Byte
  BY <1>1, <1>2, <1>3 DEF OutByte, Due, Position, Byte
<1>5. Written' = Append(Written, OutByte) /\ Written \in Seq(Byte)
  <2>1. bank'["tx"] = Append(bank["tx"], OutByte)
    BY <1>1, <1>2
  <2>2. hostIn \o Append(bank["tx"], OutByte) = Append(hostIn \o bank["tx"], OutByte)
    BY <1>2, <1>4
  <2> QED
    BY <1>1, <1>2, <2>1, <2>2, ConcatProperties DEF Written
<1>6. /\ InOrder(sent, Written) /\ After(sent, Written) = Due
      /\ sent # <<>> /\ length = sent[Len(sent)]
  BY <1>3 DEF InOrderThatFar
<1>7. OutByte.msg = Len(sent) /\ OutByte.pos = Position + 1 /\ Len(sent) \in 1 .. Len(sent)
  BY <1>2, <1>3, <1>4, <1>6, EmptySeq DEF Due
<1>8. InOrder(sent, Written') /\ After(sent, Written') = Follows(sent, OutByte)
  BY <1>2, <1>4, <1>5, <1>6, <1>7, OneMoreInOrder
<1>9. Follows(sent, OutByte) = Due'
  BY <1>1, <1>2, <1>3, <1>6, <1>7 DEF Follows, Due
<1> QED
  BY <1>1, <1>6, <1>8, <1>9 DEF InOrderThatFar

(* A frame to send becomes the next message: its first byte is due.        *)
LEMMA MessageBegun ==
  ASSUME StreamTypes, InOrderThatFar, ~disturbed, BeginHeader
  PROVE  InOrderThatFar'
<1>1. /\ pc = "selected" /\ stage' = "header" /\ done' = 0 /\ pc' = "wait"
      /\ sent' = IF job = "tx" THEN Append(sent, length) ELSE sent
      /\ UNCHANGED <<job, length, bank, hostIn>>
  BY DEF BeginHeader, StartStream, StartWait, wireVars
<1>2. /\ sent \in Seq(Lengths) /\ Written \in Seq(Byte) /\ Len(sent) \in Nat
      /\ HeaderSize \in Nat /\ HeaderSize > 0
      /\ job = "tx" => length \in Lengths /\ length \in Nat
      /\ ~Streaming("tx") /\ Written' = Written
  BY <1>1, Sizes, ConcatProperties
     DEF StreamTypes, TypeOK, DataEndpoints, Written, Streaming
<1>3. InOrder(sent, Written) /\ After(sent, Written) = [msg |-> Len(sent) + 1, pos |-> 1]
  BY <1>2 DEF InOrderThatFar, Due
<1>4. CASE job = "tx"
  <2>1. /\ InOrder(sent', Written) /\ After(sent', Written) = After(sent, Written)
        /\ Len(sent') = Len(sent) + 1 /\ sent'[Len(sent) + 1] = length
    BY <1>1, <1>2, <1>3, <1>4, NextMessage
  <2>2. Streaming("tx")' /\ Position' = 0
    BY <1>1, <1>4 DEF Streaming, Position
  <2>3. Due' = [msg |-> Len(sent) + 1, pos |-> 1]
    BY <1>1, <1>2, <1>4, <2>1, <2>2 DEF Due
  <2>4. sent' # <<>>
    BY <1>2, <2>1, EmptySeq
  <2> QED
    BY <1>1, <1>2, <1>3, <2>1, <2>3, <2>4 DEF InOrderThatFar
<1>5. CASE job # "tx"
  <2>1. ~Streaming("tx")' /\ sent' = sent
    BY <1>1, <1>5 DEF Streaming
  <2> QED
    BY <1>1, <1>2, <1>3, <2>1 DEF InOrderThatFar, Due
<1> QED
  BY <1>4, <1>5

(* A stream that ends leaves the first byte of the next one due: of the    *)
(* frame, after its header, or of the next message.                        *)
LEMMA StreamWritten ==
  ASSUME StreamTypes, InOrderThatFar, ~disturbed, StreamDone
  PROVE  InOrderThatFar'
<1>1. /\ pc = "byte" /\ done = StreamLength /\ UNCHANGED <<job, hostIn, sent>>
      /\ \/ stage = "header" /\ stage' = "data" /\ done' = 0 /\ pc' = "wait" /\ length' \in DataLengths
         \/ (stage = "header" => job = "rx") /\ pc' = "idle"
      /\ bank' = bank \/ ClearCurrentBank
  BY AfterStream DEF LeaveTask, wireVars
<1>2. bank'["tx"] = bank["tx"]
  BY <1>1 DEF ClearCurrentBank, StreamTypes, TypeOK, DataEndpoints
<1>3. UNCHANGED Written
  BY <1>1, <1>2 DEF Written
<1>4. /\ done \in Nat /\ length \in Nat /\ HeaderSize \in Nat /\ Len(sent) \in Nat
      /\ stage \in {"header", "data"}
  BY Sizes DEF StreamTypes, TypeOK
<1>5. CASE job # "tx"
  <2>1. ~Streaming("tx") /\ ~Streaming("tx")'
    BY <1>1, <1>5 DEF Streaming
  <2> QED
    BY <1>1, <1>3, <2>1, NothingWritten DEF Due
<1>6. CASE job = "tx" /\ stage = "header" /\ pc' = "wait"
  <2>1. /\ Streaming("tx") /\ Streaming("tx")' /\ length' = length
        /\ Position = HeaderSize /\ Position' = HeaderSize
    BY <1>1, <1>4, <1>6 DEF Streaming, DataLengths, Position, StreamLength
  <2> QED
    BY <1>1, <1>3, <2>1, NothingWritten DEF Due
<1>7. CASE job = "tx" /\ stage = "data" /\ pc' = "idle"
  <2>1. ~(Position < HeaderSize + length) /\ ~Streaming("tx")'
    BY <1>1, <1>4, <1>7 DEF Streaming, Position, StreamLength
  <2> QED
    BY <1>1, <1>3, <2>1, NothingWritten DEF Due
<1> QED
  BY <1>1, <1>4, <1>5, <1>6, <1>7

(* The bytes written stay in order, whatever step is taken.                *)
LEMMA OrderKept ==
  ASSUME StreamTypes, Quiet, InOrderThatFar, [Next]_vars
  PROVE  InOrderThatFar'
<1> SUFFICES ASSUME ~disturbed' PROVE InOrderThatFar'
  BY DEF InOrderThatFar
<1>1. ~disturbed /\ QuietStep
  BY StaysQuiet
<1>2. bank \in [DataEndpoints -> Seq(Byte)] /\ "tx" \in DataEndpoints /\ hostIn \in Seq(Byte)
  BY DEF StreamTypes, TypeOK, DataEndpoints
<1>3. ASSUME UNCHANGED <<job, stage, done, length, sent, hostIn>>, bank'["tx"] = bank["tx"],
             Streaming("tx")' <=> Streaming("tx")
      PROVE  InOrderThatFar'
  BY <1>1, <1>3, NothingWritten DEF Written, Due, Position
<1>4. CASE SelectTx \/ SelectRx \/ NotReady
  <2>1. pc \in {"idle", "selected"} /\ pc' \in {"idle", "selected"} /\ UNCHANGED <<sent, hostIn, bank>>
    BY <1>4 DEF SelectTx, SelectRx, NotReady, LeaveTask, Unmoved, wireVars
  <2>2. ~Streaming("tx") /\ ~Streaming("tx")'
    BY <2>1 DEF Streaming
  <2> QED
    BY <1>1, <2>1, <2>2, NothingWritten DEF Written, Due
<1>5. CASE WaitReady \/ WaitFrame \/ NextBank
  <2>1. bank'["tx"] = bank["tx"]
    BY <1>2, <1>5 DEF WaitReady, WaitFrame, NextBank, ClearCurrentBank
  <2>2. pc \in {"wait", "byte"} /\ pc' \in {"wait", "byte"}
    BY <1>5 DEF WaitReady, WaitFrame, NextBank, StartWait
  <2> QED
    BY <1>3, <1>5, <2>1, <2>2
       DEF WaitReady, WaitFrame, NextBank, jobVars, streamVars, Unmoved, wireVars, Streaming
<1>6. CASE ReadByte
  <2>1. /\ job = "rx" /\ job' = "rx" /\ bank'["tx"] = bank["tx"] /\ UNCHANGED <<sent, hostIn>>
    BY <1>2, <1>6 DEF ReadByte, Unmoved, wireVars
  <2>2. ~Streaming("tx") /\ ~Streaming("tx")'
    BY <2>1 DEF Streaming
  <2> QED
    BY <1>1, <2>1, <2>2, NothingWritten DEF Written, Due
<1>7. CASE HostReads
  <2>1. /\ hostIn' = hostIn \o bank["tx"] /\ bank'["tx"] = <<>>
        /\ UNCHANGED <<pc, job, stage, length, done, sent>>
    BY <1>2, <1>7 DEF HostReads, TaskVars, jobVars, streamVars
  <2>2. Written' = Written
    BY <1>2, <2>1, ConcatProperties, EmptySeq DEF Written
  <2> QED
    BY <1>1, <2>1, <2>2, NothingWritten DEF Due, Position, Streaming
<1>8. CASE HostMessage \/ HostSends \/ ClearHalt \/ StartOfFrame \/ WakeUp
  <2>1. bank'["tx"] = bank["tx"]
    BY <1>2, <1>8 DEF HostMessage, HostSends, ClearHalt, StartOfFrame, WakeUp
  <2>2. UNCHANGED <<pc, job, stage, length, done, sent, hostIn>>
    BY <1>8 DEF HostMessage, HostSends, ClearHalt, StartOfFrame, WakeUp, TaskVars, jobVars, streamVars,
                wireVars
  <2> QED
    BY <1>3, <2>1, <2>2 DEF Streaming
<1>9. CASE UNCHANGED vars
  BY <1>3, <1>9 DEF vars, jobVars, streamVars, wireVars, Streaming
<1> QED
  BY <1>1, <1>4, <1>5, <1>6, <1>7, <1>8, <1>9, OneByteWritten, MessageBegun, StreamWritten
     DEF QuietStep

(* What the host reads is what the device sent: as long as no stream       *)
(* fails, every byte of every message once and in order, for any lengths,  *)
(* and wherever they fall on the banks.                                    *)
THEOREM SentIsRead == Spec => []HostReadsWhatWasSent
<1>1. Init => Quiet /\ InOrderThatFar
  <2> SUFFICES ASSUME Init PROVE Quiet /\ InOrderThatFar
    OBVIOUS
  <2>1. Written = <<>> /\ sent = <<>> /\ ~Streaming("tx")
    BY DEF Init, Written, DataEndpoints, Streaming
  <2> QED
    BY <2>1, Empty DEF Init, Quiet, InOrderThatFar, InOrder, After, Due, FirstByte
<1>2. StreamTypes /\ Quiet /\ InOrderThatFar /\ [Next]_vars => Quiet' /\ InOrderThatFar'
  BY QuietKept, OrderKept
<1>3. StreamTypes /\ InOrderThatFar => HostReadsWhatWasSent
  <2> SUFFICES ASSUME StreamTypes, InOrder(sent, hostIn \o bank["tx"])
               PROVE  InOrder(sent, hostIn)
    BY DEF InOrderThatFar, HostReadsWhatWasSent, Written
  <2>1. /\ Len(hostIn \o bank["tx"]) = Len(hostIn) + Len(bank["tx"])
        /\ Len(hostIn) \in Nat /\ Len(bank["tx"]) \in Nat
        /\ \A i \in 1 .. Len(hostIn) : (hostIn \o bank["tx"])[i] = hostIn[i]
    BY ConcatProperties DEF StreamTypes, TypeOK, DataEndpoints
  <2> QED
    BY <2>1, SMTT(30) DEF InOrder
<1> QED
  BY <1>1, <1>2, <1>3, TypesHold, PTL DEF Spec

-----------------------------------------------------------------------------
(* The way of the host's messages: m is the message at the front, at how   *)
(* many of its bytes have left the bank.                                   *)

(* These are bytes of message m, the ones that follow the first at.        *)
Piece(s, m, at) == \A i \in 1 .. Len(s) : s[i] = [msg |-> m, pos |-> at + i]

Size(m) == HeaderSize + received[m]

(* What is under way: nothing; the rest of the host's last message; or the *)
(* end of the message before it, and all of the last.                      *)
Ahead(m, at) ==
  /\ Piece(bank["rx"], m, at)
  /\ \/ m = Len(received) + 1 /\ at = 0 /\ bank["rx"] = <<>> /\ hostOut = <<>>
     \/ /\ m = Len(received) /\ at + Len(bank["rx"]) + Len(hostOut) = Size(m)
        /\ Piece(hostOut, m, at + Len(bank["rx"]))
     \/ /\ m + 1 = Len(received) /\ at + Len(bank["rx"]) = Size(m)
        /\ Len(hostOut) = Size(m + 1) /\ Piece(hostOut, m + 1, 0)

(* What RNDIS_RX has taken of it: the beginning of the message.  Only the  *)
(* message of a stalled endpoint has lost bytes that are not in the buffer.*)
Taken(m, at) ==
  /\ Piece(buffer, m, 0)
  /\ IF Streaming("rx")
     THEN /\ Len(buffer) = Position /\ "rx" \notin stalled
          /\ stage = "data" => length = received[m] /\ length <= MaxFrame
     ELSE buffer = <<>>
  /\ "rx" \in stalled \/ at = Len(buffer)
  /\ "rx" \in toHost => bank["rx"] = <<>> /\ (buffer # <<>> => at < Size(m))

(* What it has handed on: whole messages, older and older ones before it.  *)
Whole(d) ==
  /\ d[1].msg \in 1 .. Len(received) /\ received[d[1].msg] <= MaxFrame
  /\ d = Message(d[1].msg, received[d[1].msg])

HandedOn(m) ==
  \A i \in 1 .. Len(delivered) :
    /\ Whole(delivered[i]) /\ delivered[i][1].msg < m
    /\ i > 1 => delivered[i][1].msg > delivered[i - 1][1].msg

Underway(m, at) == Ahead(m, at) /\ Taken(m, at) /\ HandedOn(m)

MessagesThatFar == ~disturbed => \E m \in Nat \ {0}, at \in Nat : Underway(m, at)

(* What the proofs need of the types.                                      *)
LEMMA ReceiverTypes ==
  ASSUME StreamTypes
  PROVE  /\ bank \in [DataEndpoints -> Seq(Byte)] /\ "rx" \in DataEndpoints /\ "tx" \in DataEndpoints
         /\ bank["rx"] \in Seq(Byte) /\ Len(bank["rx"]) \in Nat
         /\ bank["rx"] = <<>> <=> Len(bank["rx"]) = 0
         /\ buffer \in Seq(Byte) /\ Len(buffer) \in Nat /\ (buffer = <<>> <=> Len(buffer) = 0)
         /\ hostOut \in Seq(Byte) /\ Len(hostOut) \in Nat /\ (hostOut = <<>> <=> Len(hostOut) = 0)
         /\ received \in Seq(Lengths) /\ Len(received) \in Nat
         /\ \A k \in 1 .. Len(received) : received[k] \in Lengths /\ received[k] \in Nat
         /\ HeaderSize \in Nat /\ HeaderSize > 0 /\ MaxFrame \in Nat
         /\ done \in Nat /\ length \in Nat /\ stage \in {"header", "data"} /\ job \in {"tx", "rx"}
         /\ delivered \in Seq(Seq(Byte)) /\ Len(delivered) \in Nat
<1>1. /\ bank \in [DataEndpoints -> Seq(Byte)] /\ buffer \in Seq(Byte) /\ hostOut \in Seq(Byte)
      /\ received \in Seq(Lengths) /\ delivered \in Seq(Seq(Byte))
      /\ stage \in {"header", "data"} /\ job \in {"tx", "rx"}
      /\ done \in Nat /\ length \in Nat
  BY Sizes DEF StreamTypes, TypeOK
<1>2. "rx" \in DataEndpoints /\ "tx" \in DataEndpoints /\ bank["rx"] \in Seq(Byte)
  BY <1>1 DEF DataEndpoints
<1>3. \A s \in Seq(Byte) : Len(s) \in Nat /\ (s = <<>> <=> Len(s) = 0)
  BY EmptySeq
<1>4. \A k \in 1 .. Len(received) : received[k] \in Lengths /\ received[k] \in Nat
  BY <1>1, ElementOfSeq, SizesAssumption
<1> QED
  BY <1>1, <1>2, <1>3, <1>4, SizesAssumption

(* A step that the receiver does not see keeps where it is.                *)
LEMMA NothingTaken ==
  ASSUME NEW m \in Nat \ {0}, NEW at \in Nat, Underway(m, at),
         UNCHANGED <<bank["rx"], hostOut, received, stalled, delivered, buffer>>,
         "rx" \in toHost' <=> "rx" \in toHost,
         Streaming("rx")' <=> Streaming("rx"),
         Streaming("rx") => UNCHANGED <<stage, length, done>>
  PROVE  Underway(m, at)'
<1>1. Ahead(m, at)'
  BY DEF Underway, Ahead, Piece, Size
<1>2. Taken(m, at)'
  BY DEF Underway, Taken, Piece, Size, Position
<1>3. HandedOn(m)'
  BY DEF Underway, HandedOn, Whole
<1> QED
  BY <1>1, <1>2, <1>3 DEF Underway

(* The receiver that reads has a bank of the message at the front.         *)
LEMMA ByteTaken ==
  ASSUME StreamTypes, Quiet, ~disturbed, ReadByte,
         NEW m \in Nat \ {0}, NEW at \in Nat, Underway(m, at)
  PROVE  Underway(m, at + 1)'
<1>1. /\ pc = "byte" /\ job = "rx" /\ done < StreamLength /\ done' = done + 1 /\ selected = "rx" /\ Allowed
      /\ buffer' = Append(buffer, Head(bank["rx"])) /\ bank' = [bank EXCEPT !["rx"] = Tail(@)]
      /\ UNCHANGED <<pc, job, stage, length, hostOut, received, stalled, toHost, delivered>>
  BY DEF ReadByte, Quiet, Unmoved, wireVars, linkVars
<1>2. bank["rx"] # <<>> /\ "rx" \notin toHost /\ "rx" \notin stalled
  BY <1>1 DEF Allowed, ReadWriteAllowed
<1> DEFINE b == bank["rx"]
<1>3. /\ b \in Seq(Byte) /\ Len(b) \in Nat \ {0} /\ bank'["rx"] = Tail(b)
      /\ buffer \in Seq(Byte) /\ Len(buffer) \in Nat /\ HeaderSize \in Nat /\ done \in Nat
      /\ stage \in {"header", "data"}
  BY <1>1, <1>2, ReceiverTypes
<1>4. /\ Head(b) = b[1] /\ Head(b) \in Byte /\ Tail(b) \in Seq(Byte) /\ Len(Tail(b)) = Len(b) - 1
      /\ \A i \in 1 .. Len(Tail(b)) : Tail(b)[i] = b[i + 1]
  BY <1>2, <1>3, HeadTailProperties
<1>5. /\ Append(buffer, Head(b)) \in Seq(Byte) /\ Len(Append(buffer, Head(b))) = Len(buffer) + 1
      /\ \A i \in 1 .. Len(buffer) : Append(buffer, Head(b))[i] = buffer[i]
      /\ Append(buffer, Head(b))[Len(buffer) + 1] = Head(b)
  BY <1>3, <1>4, AppendProperties
<1>6. /\ Streaming("rx") /\ Streaming("rx")' /\ Position \in Nat /\ Position' = Position + 1
      /\ at = Len(buffer)
  BY <1>1, <1>2, <1>3 DEF Streaming, Position, Underway, Taken
<1>7. Piece(b, m, at) /\ Piece(buffer, m, 0) /\ Len(buffer) = Position
  BY <1>6 DEF Underway, Ahead, Taken
<1>8. Piece(Tail(b), m, at + 1)
  <2> SUFFICES ASSUME NEW i \in 1 .. Len(Tail(b))
               PROVE  Tail(b)[i] = [msg |-> m, pos |-> at + 1 + i]
    BY DEF Piece
  <2>1. i + 1 \in 1 .. Len(b) /\ at + 1 + i = at + (i + 1)
    BY <1>3, <1>4
  <2> QED
    BY <1>4, <1>7, <2>1 DEF Piece
<1>9. Piece(Append(buffer, Head(b)), m, 0)
  <2> SUFFICES ASSUME NEW i \in 1 .. Len(buffer) + 1
               PROVE  Append(buffer, Head(b))[i] = [msg |-> m, pos |-> 0 + i]
    BY <1>5 DEF Piece
  <2>1. CASE i \in 1 .. Len(buffer)
    BY <1>5, <1>7, <2>1 DEF Piece
  <2>2. CASE i = Len(buffer) + 1
    <3>1. 1 \in 1 .. Len(b) /\ at + 1 = 0 + i
      BY <1>3, <1>6, <2>2
    <3> QED
      BY <1>4, <1>5, <1>7, <2>2, <3>1 DEF Piece
  <2> QED
    BY <1>3, <2>1, <2>2
<1>10. Ahead(m, at + 1)'
  <2>0. Size(m)' = Size(m) /\ Size(m + 1)' = Size(m + 1)
    BY <1>1 DEF Size
  <2>2. b # <<>>
    BY <1>2
  <2> HIDE DEF b
  <2>1. at + 1 + Len(Tail(b)) = at + Len(b)
    BY <1>3, <1>4
  <2> QED
    BY <1>1, <1>3, <1>8, <2>0, <2>1, <2>2 DEF Underway, Ahead, b
<1>11. Taken(m, at + 1)'
  BY <1>1, <1>2, <1>3, <1>5, <1>6, <1>7, <1>9 DEF Underway, Taken
<1>12. HandedOn(m)'
  BY <1>1 DEF Underway, HandedOn, Whole
<1> QED
  BY <1>10, <1>11, <1>12 DEF Underway

(* A bank that is passed on is empty, and more of its message is to come.  *)
LEMMA BankPassedOn ==
  ASSUME StreamTypes, Quiet, ~disturbed, NextBank,
         NEW m \in Nat \ {0}, NEW at \in Nat, Underway(m, at)
  PROVE  Underway(m, at)'
<1>1. /\ pc = "byte" /\ pc' = "wait" /\ done < StreamLength /\ ~Allowed /\ ClearCurrentBank
      /\ UNCHANGED <<job, stage, length, buffer, done, selected, hostOut, received, stalled, delivered>>
      /\ selected = job /\ enabled = DataEndpoints
  BY DEF NextBank, StartWait, Quiet, jobVars, wireVars, linkVars
<1>2. /\ HeaderSize \in Nat /\ length \in Nat /\ done \in Nat /\ job \in {"tx", "rx"}
      /\ stage \in {"header", "data"} /\ Len(received) \in Nat
      /\ bank \in [DataEndpoints -> Seq(Byte)] /\ "rx" \in DataEndpoints /\ "tx" \in DataEndpoints
  BY ReceiverTypes
<1>3. CASE job = "tx"
  <2>1. bank' = bank /\ toHost' = toHost \union {"tx"}
    BY <1>1, <1>2, <1>3 DEF ClearCurrentBank
  <2> QED
    BY <1>1, <1>3, <2>1, NothingTaken DEF Streaming
<1>4. CASE job = "rx"
  <2>1. Streaming("rx") /\ Streaming("rx")'
    BY <1>1, <1>4 DEF Streaming
  <2>2. "rx" \notin stalled /\ Len(buffer) = Position /\ at = Len(buffer)
    BY <2>1 DEF Underway, Taken
  <2>3. bank["rx"] = <<>>
    BY <1>1, <1>2, <1>4, <2>2 DEF Allowed, ReadWriteAllowed, Underway, Taken
  <2>4. bank'["rx"] = bank["rx"]
    BY <1>1, <1>2, <1>4, <2>3 DEF ClearCurrentBank
  <2>5. buffer # <<>> => at < Size(m)
    <3> SUFFICES ASSUME buffer # <<>> PROVE at < Size(m)
      OBVIOUS
    <3>1. at > 0
      BY <2>2, ReceiverTypes
    <3>2. m \in 1 .. Len(received)
      BY <1>2, <3>1 DEF Underway, Ahead
    <3>3. received[m] \in Nat
      BY <3>2, ReceiverTypes
    <3>4. stage = "data" => length = received[m]
      BY <2>1 DEF Underway, Taken
    <3> QED
      BY <1>1, <1>2, <2>2, <3>3, <3>4 DEF Position, StreamLength, Size
  <2>6. Ahead(m, at)'
    BY <1>1, <2>4 DEF Underway, Ahead, Piece, Size
  <2>7. Taken(m, at)'
    BY <1>1, <2>1, <2>3, <2>4, <2>5 DEF Underway, Taken, Piece, Size, Position
  <2>8. HandedOn(m)'
    BY <1>1 DEF Underway, HandedOn, Whole
  <2> QED
    BY <2>6, <2>7, <2>8 DEF Underway
<1> QED
  BY <1>2, <1>3, <1>4

(* A message begins with a bank, of an endpoint that is not stalled.       *)
LEMMA MessageTaken ==
  ASSUME StreamTypes, Quiet, ~disturbed, BeginHeader,
         NEW m \in Nat \ {0}, NEW at \in Nat, Underway(m, at)
  PROVE  Underway(m, at)'
<1>1. /\ pc = "selected" /\ pc' = "wait" /\ Allowed /\ stage' = "header" /\ done' = 0 /\ buffer' = <<>>
      /\ UNCHANGED <<job, length, selected, bank, toHost, hostOut, received, stalled, delivered>>
      /\ selected = job
  BY DEF BeginHeader, StartStream, StartWait, Quiet, wireVars, linkVars
<1>2. ~Streaming("rx") /\ buffer = <<>>
  BY <1>1 DEF Streaming, Underway, Taken
<1>3. CASE job # "rx"
  BY <1>1, <1>2, <1>3, NothingTaken DEF Streaming
<1>4. CASE job = "rx"
  <2>1. "rx" \notin stalled
    BY <1>1, <1>4 DEF Allowed, ReadWriteAllowed
  <2>2. Ahead(m, at)' /\ HandedOn(m)'
    BY <1>1 DEF Underway, Ahead, Piece, Size, HandedOn, Whole
  <2>3. Position' = 0 /\ Len(buffer') = 0
    BY <1>1, Empty DEF Position
  <2>4. Taken(m, at)'
    BY <1>1, <1>2, <2>1, <2>3 DEF Underway, Taken, Piece
  <2> QED
    BY <2>2, <2>4 DEF Underway
<1> QED
  BY <1>3, <1>4

(* The end of a stream of the receiver: the header tells the length of its *)
(* own message, a frame that is too long is left where it is, and a whole  *)
(* message is handed on with nothing of it left.                           *)
LEMMA StreamTaken ==
  ASSUME StreamTypes, Quiet, ~disturbed, StreamDone,
         NEW m \in Nat \ {0}, NEW at \in Nat, Underway(m, at)
  PROVE  \E k \in Nat \ {0}, n \in Nat : Underway(k, n)'
<1>1. /\ pc = "byte" /\ done = StreamLength
      /\ UNCHANGED <<job, selected, hostOut, received>> /\ selected = job /\ enabled = DataEndpoints
  BY AfterStream DEF Quiet, StreamDone, wireVars
<1>2. /\ HeaderSize \in Nat /\ HeaderSize > 0 /\ length \in Nat /\ done \in Nat /\ job \in {"tx", "rx"}
      /\ stage \in {"header", "data"} /\ Len(received) \in Nat
      /\ bank \in [DataEndpoints -> Seq(Byte)] /\ "rx" \in DataEndpoints /\ "tx" \in DataEndpoints
      /\ Len(buffer) \in Nat /\ buffer \in Seq(Byte) /\ MaxFrame \in Nat
      /\ \A k \in 1 .. Len(received) : received[k] \in Nat
  BY ReceiverTypes
<1>3. Len(<<>>) = 0
  BY EmptySeq
<1>4. CASE job = "tx"
  <2>1. ~Streaming("rx") /\ ~Streaming("rx")' /\ buffer = <<>>
    BY <1>1, <1>4 DEF Streaming, Underway, Taken
  <2>2. buffer' = <<>> /\ UNCHANGED <<stalled, delivered>>
    BY <1>4, <2>1, AfterStream DEF LeaveTask
  <2>3. bank' = bank /\ ("rx" \in toHost' <=> "rx" \in toHost)
    BY <1>1, <1>4, AfterStream DEF ClearCurrentBank
  <2> QED
    BY <1>1, <2>1, <2>2, <2>3, NothingTaken
<1>5. CASE job = "rx"
  <2>1. /\ Streaming("rx") /\ Len(buffer) = Position /\ "rx" \notin stalled /\ at = Len(buffer)
        /\ Position = HeaderSize + (IF stage = "header" THEN 0 ELSE length)
    BY <1>1, <1>2, <1>5 DEF Streaming, Underway, Taken, Position, StreamLength
  <2>2. m \in 1 .. Len(received) /\ buffer # <<>> /\ received[m] \in Nat
    BY <1>2, <1>3, <2>1 DEF Underway, Ahead
  <2>3. \A i \in 1 .. Len(buffer) : buffer[i] = [msg |-> m, pos |-> i]
    BY <1>2 DEF Underway, Taken, Piece
  <2>4. buffer[1].msg = m
    <3>1. 1 \in 1 .. Len(buffer)
      BY <1>2, <2>1
    <3>2. buffer[1] = [msg |-> m, pos |-> 1]
      BY ONLY <2>3, <3>1
    <3> QED
      BY ONLY <3>2
  <2>5. CASE stage = "header" /\ pc' = "wait"
    <3>1. /\ stage' = "data" /\ done' = 0 /\ length' \in DataLengths /\ length' <= MaxFrame
          /\ UNCHANGED <<buffer, stalled, bank, toHost, delivered>>
      <4>1. /\ stage' = "data" /\ done' = 0 /\ length' \in DataLengths /\ ~(length' > MaxFrame)
            /\ UNCHANGED <<buffer, stalled, bank, toHost, delivered>>
        BY <1>5, <2>5, AfterStream DEF LeaveTask
      <4>2. \A n \in DataLengths : n \in Nat
        BY SizesAssumption, <1>2, <2>2, <2>4 DEF DataLengths
      <4> QED
        BY <1>2, <4>1, <4>2
    <3>2. length' = received[m]
      <4>1. Len(buffer) = HeaderSize /\ \A i \in 1 .. HeaderSize : buffer[i].pos = i
        BY <1>2, <2>1, <2>3, <2>5
      <4> QED
        BY <1>5, <2>4, <3>1, <4>1 DEF DataLengths
    <3>3. Streaming("rx")' /\ Position' = HeaderSize
      BY <1>1, <1>2, <1>5, <2>5, <3>1 DEF Streaming, Position
    <3>4. Ahead(m, at)' /\ HandedOn(m)'
      BY <1>1, <3>1 DEF Underway, Ahead, Piece, Size, HandedOn, Whole
    <3>5. Taken(m, at)'
      <4>1. Len(buffer) = HeaderSize
        BY <1>2, <2>1, <2>5
      <4>2. /\ Piece(buffer, m, 0)
            /\ "rx" \in toHost => bank["rx"] = <<>> /\ (buffer # <<>> => at < Size(m))
        BY DEF Underway, Taken
      <4>3. Piece(buffer, m, 0)' /\ Size(m)' = Size(m)
        BY <1>1, <3>1, <4>2 DEF Piece, Size
      <4> QED
        BY <1>1, <2>1, <3>1, <3>2, <3>3, <4>1, <4>2, <4>3 DEF Taken
    <3> QED
      BY <3>4, <3>5 DEF Underway
  <2>6. CASE stage = "header" /\ pc' # "wait"
    <3>1. /\ pc' = "idle" /\ buffer' = <<>> /\ stalled' = stalled \union {"rx"}
          /\ UNCHANGED <<bank, toHost, delivered>>
      BY <1>1, <1>2, <1>5, <2>6, AfterStream DEF LeaveTask
    <3>2. ~Streaming("rx")'
      BY <3>1 DEF Streaming
    <3>3. Ahead(m, at)' /\ HandedOn(m)'
      BY <1>1, <3>1 DEF Underway, Ahead, Piece, Size, HandedOn, Whole
    <3>4. Taken(m, at)'
      BY <1>3, <3>1, <3>2 DEF Underway, Taken, Piece
    <3> QED
      BY <3>3, <3>4 DEF Underway
  <2>7. CASE stage = "data"
    <3>1. /\ pc' = "idle" /\ buffer' = <<>> /\ ClearCurrentBank /\ UNCHANGED stalled
          /\ delivered' = Append(delivered, buffer)
      BY <1>5, <2>7, AfterStream DEF LeaveTask
    <3>2. length = received[m] /\ length <= MaxFrame /\ at = Size(m)
      BY <2>1, <2>7 DEF Underway, Taken, Size
    <3>3. /\ bank'["rx"] = <<>> /\ ~Streaming("rx")'
      BY <1>1, <1>2, <1>5, <3>1 DEF ClearCurrentBank, Streaming
    <3>4. Ahead(m + 1, 0)'
      <4>1. /\ Len(bank["rx"]) \in Nat /\ Len(hostOut) \in Nat
            /\ (hostOut = <<>> <=> Len(hostOut) = 0) /\ (bank["rx"] = <<>> <=> Len(bank["rx"]) = 0)
            /\ Size(m) \in Nat
        BY <1>2, <2>2, ReceiverTypes DEF Size
      <4>2. \/ m = Len(received) /\ hostOut = <<>>
            \/ m + 1 = Len(received) /\ Len(hostOut) = Size(m + 1) /\ Piece(hostOut, m + 1, 0)
        BY <1>2, <2>2, <3>2, <4>1 DEF Underway, Ahead
      <4>3. Piece(<<>>, m + 1, 0)
        BY <1>3 DEF Piece
      <4> QED
        BY <1>1, <1>2, <1>3, <3>3, <4>2, <4>3 DEF Ahead, Size
    <3>5. Taken(m + 1, 0)'
      BY <1>3, <3>1, <3>3 DEF Taken, Piece
    <3>6. HandedOn(m + 1)'
      <4>1. /\ delivered \in Seq(Seq(Byte)) /\ Len(delivered) \in Nat
            /\ Len(delivered') = Len(delivered) + 1 /\ delivered'[Len(delivered) + 1] = buffer
            /\ \A i \in 1 .. Len(delivered) : delivered'[i] = delivered[i]
        BY <1>2, <3>1, ReceiverTypes, AppendProperties
      <4>2. Whole(buffer)
        <5>1. buffer = Message(m, received[m])
          <6>1. /\ Len(buffer) = HeaderSize + received[m] /\ buffer \in [1 .. Len(buffer) -> Byte]
            BY <1>2, <2>1, <2>7, <3>2
          <6> QED
            BY <2>3, <6>1 DEF Message
        <5> QED
          BY <2>2, <2>4, <3>2, <5>1 DEF Whole
      <4>3. \A d : Whole(d)' <=> Whole(d)
        BY <1>1 DEF Whole
      <4>4. \A i \in 1 .. Len(delivered) :
              /\ Whole(delivered[i]) /\ delivered[i][1].msg < m /\ delivered[i][1].msg \in Nat
              /\ i > 1 => delivered[i][1].msg > delivered[i - 1][1].msg
        BY DEF Underway, HandedOn, Whole
      <4> SUFFICES ASSUME NEW i \in 1 .. Len(delivered) + 1
                   PROVE  /\ Whole(delivered'[i]) /\ delivered'[i][1].msg < m + 1
                          /\ i > 1 => delivered'[i][1].msg > delivered'[i - 1][1].msg
        BY <4>1, <4>3 DEF HandedOn
      <4>5. CASE i \in 1 .. Len(delivered)
        <5>1. i > 1 => i - 1 \in 1 .. Len(delivered)
          BY <4>1, <4>5
        <5>2. delivered[i][1].msg < m + 1
          BY <4>4, <4>5
        <5> QED
          BY <4>1, <4>4, <4>5, <5>1, <5>2
      <4>6. CASE i = Len(delivered) + 1
        <5>1. i > 1 => i - 1 \in 1 .. Len(delivered)
          BY <4>1, <4>6
        <5>2. delivered'[i] = buffer
          BY <4>1, <4>6
        <5>3. i > 1 => delivered'[i - 1][1].msg < m /\ delivered'[i - 1][1].msg \in Nat
          BY <4>1, <4>4, <5>1
        <5> QED
          BY <2>4, <4>2, <5>2, <5>3
      <4> QED
        BY <4>1, <4>5, <4>6
    <3> QED
      BY <3>4, <3>5, <3>6 DEF Underway
  <2> QED
    BY <1>2, <2>5, <2>6, <2>7
<1> QED
  BY <1>2, <1>4, <1>5

(* The host's next message comes behind whatever is left of the last.      *)
LEMMA MessageSent ==
  ASSUME StreamTypes, HostMessage, NEW m \in Nat \ {0}, NEW at \in Nat, Underway(m, at)
  PROVE  Underway(m, at)'
<1>1. PICK n \in Lengths :
        /\ hostOut = <<>> /\ received' = Append(received, n) /\ hostOut' = Message(Len(received) + 1, n)
        /\ UNCHANGED <<pc, job, stage, length, buffer, done, bank, toHost, stalled, delivered>>
  BY DEF HostMessage, TaskVars, jobVars, streamVars, linkVars
<1>2. /\ received \in Seq(Lengths) /\ Len(received) \in Nat /\ Len(bank["rx"]) \in Nat /\ Len(<<>>) = 0
      /\ Len(buffer) \in Nat /\ (buffer = <<>> <=> Len(buffer) = 0) /\ stage \in {"header", "data"}
      /\ HeaderSize \in Nat /\ HeaderSize > 0 /\ n \in Nat /\ done \in Nat
      /\ \A k \in 1 .. Len(received) : received[k] \in Nat
  BY ReceiverTypes, EmptySeq, SizesAssumption
<1>3. /\ Len(received') = Len(received) + 1 /\ received'[Len(received) + 1] = n
      /\ \A k \in 1 .. Len(received) : received'[k] = received[k]
  BY <1>1, <1>2, AppendProperties
<1>4. Len(hostOut') = HeaderSize + n /\ Piece(hostOut', Len(received) + 1, 0)
  BY <1>1, <1>2 DEF Message, Piece
<1>5. \A k \in 1 .. Len(received) : Size(k)' = Size(k) /\ Size(k) \in Nat /\ Size(k) > 0
  BY <1>2, <1>3 DEF Size
<1>6. Piece(bank["rx"], m, at)'
  BY <1>1 DEF Underway, Ahead, Piece
<1>7. Ahead(m, at)'
  <2>1. CASE m = Len(received) + 1 /\ at = 0 /\ bank["rx"] = <<>>
    <3>1. m = Len(received') /\ at + Len(bank'["rx"]) + Len(hostOut') = HeaderSize + received'[m]
      BY <1>1, <1>2, <1>3, <1>4, <2>1
    <3>2. Piece(hostOut', m, at + Len(bank'["rx"]))
      BY <1>1, <1>2, <1>4, <2>1
    <3> QED
      BY <1>6, <3>1, <3>2 DEF Ahead, Size, Piece
  <2>2. CASE m = Len(received) /\ at + Len(bank["rx"]) + Len(hostOut) = Size(m)
    <3>1. m + 1 = Len(received') /\ at + Len(bank'["rx"]) = Size(m)'
      BY <1>1, <1>2, <1>3, <1>5, <2>2
    <3>2. Len(hostOut') = HeaderSize + received'[m + 1] /\ Piece(hostOut', m + 1, 0)
      BY <1>3, <1>4, <2>2
    <3> QED
      BY <1>6, <3>1, <3>2 DEF Ahead, Size, Piece
  <2>3. CASE m + 1 = Len(received) /\ Len(hostOut) = Size(m + 1)
    BY <1>1, <1>2, <1>5, <2>3
  <2> QED
    BY <2>1, <2>2, <2>3 DEF Underway, Ahead
<1>8. Taken(m, at)'
  <2>1. Streaming("rx")' <=> Streaming("rx")
    BY <1>1 DEF Streaming
  <2>2. m > Len(received) => buffer = <<>>
    BY <1>2 DEF Underway, Ahead, Taken, Streaming, Position
  <2>3. m <= Len(received) => received'[m] = received[m] /\ Size(m)' = Size(m)
    BY <1>2, <1>3, <1>5
  <2>4. Streaming("rx") /\ stage = "data" => buffer # <<>>
    BY <1>2 DEF Underway, Taken, Position
  <2>5. Piece(buffer, m, 0)'
    BY <1>1 DEF Underway, Taken, Piece
  <2>6. m \in 1 .. Len(received) \/ buffer = <<>>
    BY <1>2, <2>2
  <2>7. UNCHANGED Position
    BY <1>1 DEF Position
  <2>8. IF Streaming("rx")'
        THEN /\ Len(buffer) = Position /\ "rx" \notin stalled
             /\ stage = "data" => length = received'[m] /\ length <= MaxFrame
        ELSE buffer = <<>>
    BY <1>2, <2>1, <2>3, <2>4, <2>6 DEF Underway, Taken
  <2>9. "rx" \in toHost => bank["rx"] = <<>> /\ (buffer # <<>> => at < Size(m)')
    BY <1>2, <2>3, <2>6 DEF Underway, Taken
  <2>10. "rx" \in stalled \/ at = Len(buffer)
    BY DEF Underway, Taken
  <2> QED
    BY <1>1, <2>5, <2>7, <2>8, <2>9, <2>10 DEF Taken
<1>9. HandedOn(m)'
  <2>1. \A d : Whole(d) => Whole(d)'
    BY <1>2, <1>3 DEF Whole
  <2> QED
    BY <1>1, <2>1 DEF Underway, HandedOn
<1> QED
  BY <1>7, <1>8, <1>9 DEF Underway

(* A packet is the next piece of the host's message, into an empty bank.   *)
LEMMA PacketSent ==
  ASSUME StreamTypes, HostSends, NEW m \in Nat \ {0}, NEW at \in Nat, Underway(m, at)
  PROVE  Underway(m, at)'
<1>1. /\ hostOut # <<>> /\ "rx" \in toHost /\ "rx" \notin stalled
      /\ bank' = [bank EXCEPT !["rx"] = Packet(hostOut)]
      /\ hostOut' = SubSeq(hostOut, Len(Packet(hostOut)) + 1, Len(hostOut))
      /\ toHost' = toHost \ {"rx"}
      /\ UNCHANGED <<pc, job, stage, length, buffer, done, received, stalled, delivered>>
  BY DEF HostSends, TaskVars, jobVars, streamVars, linkVars
<1>2. /\ hostOut \in Seq(Byte) /\ Len(received) \in Nat /\ Len(<<>>) = 0 /\ HeaderSize \in Nat
      /\ Len(hostOut) \in Nat
      /\ HeaderSize > 0 /\ Len(buffer) \in Nat /\ (buffer = <<>> <=> Len(buffer) = 0)
      /\ \A k \in 1 .. Len(received) : received[k] \in Nat
      /\ bank'["rx"] = Packet(hostOut)
  BY <1>1, ReceiverTypes, EmptySeq
<1>3. /\ Packet(hostOut) \in Seq(Byte) /\ hostOut' \in Seq(Byte)
      /\ Len(Packet(hostOut)) + Len(hostOut') = Len(hostOut)
      /\ \A i \in 1 .. Len(Packet(hostOut)) : Packet(hostOut)[i] = hostOut[i]
      /\ \A i \in 1 .. Len(hostOut') : hostOut'[i] = hostOut[Len(Packet(hostOut)) + i]
  BY <1>1, <1>2, Cut
<1> DEFINE packet == Packet(hostOut)
<1>4. bank["rx"] = <<>> /\ at = Len(buffer) /\ (buffer # <<>> => at < Size(m))
  BY <1>1 DEF Underway, Taken
<1>5. m = Len(received) /\ at + Len(hostOut) = Size(m) /\ Piece(hostOut, m, at)
  <2>1. CASE m = Len(received) /\ at + Len(bank["rx"]) + Len(hostOut) = Size(m)
             /\ Piece(hostOut, m, at + Len(bank["rx"]))
    <3>1. Len(bank["rx"]) = 0 /\ at + 0 = at /\ at + Len(bank["rx"]) = at
      BY <1>2, <1>4
    <3> QED
      BY <2>1, <3>1
  <2>2. CASE m + 1 = Len(received) /\ at + Len(bank["rx"]) = Size(m)
    <3>1. at = Size(m) /\ Size(m) > 0
      BY <1>2, <1>4, <2>2 DEF Size
    <3> QED
      BY <1>2, <1>4, <3>1
  <2> QED
    BY <1>1, <2>1, <2>2 DEF Underway, Ahead
<1>6. /\ Len(packet) \in Nat /\ Len(hostOut') \in Nat
      /\ Len(packet) + Len(hostOut') = Len(hostOut)
      /\ \A i \in 1 .. Len(packet) : packet[i] = hostOut[i]
      /\ \A i \in 1 .. Len(hostOut') : hostOut'[i] = hostOut[Len(packet) + i]
  BY <1>3
<1> HIDE DEF packet
<1>7. Piece(packet, m, at)
  <2> SUFFICES ASSUME NEW i \in 1 .. Len(packet) PROVE packet[i] = [msg |-> m, pos |-> at + i]
    BY DEF Piece
  <2>1. i \in 1 .. Len(hostOut) /\ packet[i] = hostOut[i]
    BY <1>2, <1>6
  <2> QED
    BY <1>5, <2>1 DEF Piece
<1>8. Piece(hostOut', m, at + Len(packet))
  <2> SUFFICES ASSUME NEW i \in 1 .. Len(hostOut')
               PROVE  hostOut'[i] = [msg |-> m, pos |-> at + Len(packet) + i]
    BY DEF Piece
  <2>1. hostOut'[i] = hostOut[Len(packet) + i] /\ Len(packet) + Len(hostOut') = Len(hostOut)
    BY <1>6
  <2>2. Len(packet) + i \in 1 .. Len(hostOut) /\ at + Len(packet) + i = at + (Len(packet) + i)
    BY <1>2, <1>6, <2>1
  <2> QED
    BY <1>5, <2>1, <2>2 DEF Piece
<1>9. Ahead(m, at)'
  <2>1. at + Len(packet) + Len(hostOut') = Size(m)
    <3>1. at + Len(packet) + Len(hostOut') = at + (Len(packet) + Len(hostOut'))
      BY <1>6
    <3> QED
      BY <1>5, <1>6, <3>1
  <2>2. bank'["rx"] = packet /\ Size(m)' = Size(m)
    BY <1>1, <1>2 DEF packet, Size
  <2> QED
    BY <1>1, <1>5, <1>7, <1>8, <2>1, <2>2 DEF Ahead, Piece
<1>10. Taken(m, at)' /\ HandedOn(m)'
  BY <1>1 DEF Underway, Taken, HandedOn, Whole, Piece, Streaming, Position
<1> QED
  BY <1>9, <1>10 DEF Underway

(* A cleared halt leaves nothing of the message that was refused.          *)
LEMMA RefusedCleared ==
  ASSUME StreamTypes, ClearHalt, NEW m \in Nat \ {0}, NEW at \in Nat, Underway(m, at)
  PROVE  Underway(Len(received) + 1, 0)'
<1>1. /\ pc = "idle" /\ stalled' = {} /\ hostOut' = <<>> /\ bank' = [bank EXCEPT !["rx"] = <<>>]
      /\ UNCHANGED <<pc, received, buffer, delivered>>
  BY DEF ClearHalt, TaskVars, jobVars
<1>2. bank'["rx"] = <<>> /\ Len(<<>>) = 0 /\ Len(received) \in Nat
  BY <1>1, ReceiverTypes, EmptySeq
<1>3. ~Streaming("rx") /\ ~Streaming("rx")' /\ buffer = <<>>
  BY <1>1 DEF Streaming, Underway, Taken
<1>4. Ahead(Len(received) + 1, 0)' /\ Taken(Len(received) + 1, 0)'
  BY <1>1, <1>2, <1>3 DEF Ahead, Taken, Piece
<1>5. HandedOn(Len(received) + 1)'
  BY <1>1, <1>2 DEF Underway, HandedOn, Whole
<1> QED
  BY <1>4, <1>5 DEF Underway

(* Every step keeps the receiver within the host's messages.               *)
LEMMA ReceiverKept ==
  ASSUME StreamTypes, Quiet, MessagesThatFar, [Next]_vars
  PROVE  MessagesThatFar'
<1> SUFFICES ASSUME ~disturbed' PROVE \E k \in Nat \ {0}, n \in Nat : Underway(k, n)'
  BY DEF MessagesThatFar
<1>1. ~disturbed /\ QuietStep
  BY StaysQuiet
<1>2. PICK m \in Nat \ {0}, at \in Nat : Underway(m, at)
  BY <1>1 DEF MessagesThatFar
<1>3. bank \in [DataEndpoints -> Seq(Byte)] /\ "rx" \in DataEndpoints /\ "tx" \in DataEndpoints
  BY ReceiverTypes
<1>4. CASE SelectTx \/ SelectRx \/ NotReady
  <2>1. /\ pc \in {"idle", "selected"} /\ pc' \in {"idle", "selected"} /\ buffer' \in {buffer, <<>>}
        /\ UNCHANGED <<bank, toHost, hostOut, received, stalled, delivered>>
    BY <1>4 DEF SelectTx, SelectRx, NotReady, LeaveTask, Unmoved, wireVars, linkVars
  <2>2. ~Streaming("rx") /\ ~Streaming("rx")'
    BY <2>1 DEF Streaming
  <2>3. buffer = <<>>
    BY <1>2, <2>2 DEF Underway, Taken
  <2> QED
    BY <1>2, <2>1, <2>2, <2>3, NothingTaken
<1>5. CASE WaitReady \/ WaitFrame
  <2>1. /\ pc = "wait" /\ pc' \in {"wait", "byte"}
        /\ UNCHANGED <<job, stage, length, done, buffer, bank, toHost, hostOut, received, stalled,
                       delivered>>
    BY <1>5 DEF WaitReady, WaitFrame, jobVars, streamVars, Unmoved, wireVars, linkVars
  <2> QED
    BY <1>2, <2>1, NothingTaken DEF Streaming
<1>6. CASE WriteByte
  <2>1. /\ job = "tx" /\ job' = "tx" /\ bank'["rx"] = bank["rx"]
        /\ UNCHANGED <<buffer, toHost, hostOut, received, stalled, delivered>>
    BY <1>3, <1>6 DEF WriteByte, jobVars, wireVars, linkVars
  <2> QED
    BY <1>2, <2>1, NothingTaken DEF Streaming
<1>7. CASE HostReads
  <2>1. /\ bank'["rx"] = bank["rx"] /\ toHost' = toHost \ {"tx"}
        /\ UNCHANGED <<pc, job, stage, length, done, buffer, hostOut, received, stalled, delivered>>
    BY <1>3, <1>7 DEF HostReads, TaskVars, jobVars, streamVars, linkVars
  <2> QED
    BY <1>2, <2>1, NothingTaken DEF Streaming
<1>8. CASE StartOfFrame \/ WakeUp \/ UNCHANGED vars
  <2>1. UNCHANGED <<pc, job, stage, length, done, buffer, bank, toHost, hostOut, received, stalled,
                    delivered>>
    BY <1>8 DEF StartOfFrame, WakeUp, TaskVars, vars, jobVars, streamVars, wireVars, linkVars
  <2> QED
    BY <1>2, <2>1, NothingTaken DEF Streaming
<1>9. CASE BeginHeader \/ NextBank \/ ReadByte \/ StreamDone
  <2>1. at + 1 \in Nat
    OBVIOUS
  <2> QED
    BY <1>1, <1>2, <1>9, <2>1, MessageTaken, BankPassedOn, ByteTaken, StreamTaken
<1>10. CASE HostMessage \/ HostSends
  BY <1>2, <1>10, MessageSent, PacketSent
<1>11. CASE ClearHalt
  <2>1. Len(received)' = Len(received) /\ Len(received) + 1 \in Nat \ {0}
    BY <1>11, ReceiverTypes DEF ClearHalt
  <2>2. Underway(Len(received) + 1, 0)'
    BY <1>2, <1>11, RefusedCleared
  <2> QED
    BY <2>1, <2>2
<1> QED
  BY <1>1, <1>4, <1>5, <1>6, <1>7, <1>8, <1>9, <1>10, <1>11 DEF QuietStep

(* The device hands on what the host sent: as long as no stream fails, one *)
(* whole message at a time, each at most once and in order, and it never   *)
(* takes the rest of a refused message for the beginning of another.       *)
THEOREM MessagesHandedOn == Spec => []FramesAreMessages
<1>1. Init => Quiet /\ MessagesThatFar
  <2> SUFFICES ASSUME Init PROVE Quiet /\ MessagesThatFar
    OBVIOUS
  <2>1. /\ pc = "idle" /\ buffer = <<>> /\ hostOut = <<>> /\ received = <<>> /\ delivered = <<>>
        /\ bank["rx"] = <<>> /\ Len(<<>>) = 0 /\ ~Streaming("rx")
    BY EmptySeq DEF Init, DataEndpoints, Streaming
  <2>2. Ahead(1, 0) /\ Taken(1, 0) /\ HandedOn(1)
    BY <2>1 DEF Ahead, Taken, HandedOn, Piece
  <2>3. Quiet
    BY DEF Init, Quiet
  <2> QED
    BY <2>2, <2>3 DEF Underway, MessagesThatFar
<1>2. StreamTypes /\ Quiet /\ MessagesThatFar /\ [Next]_vars => Quiet' /\ MessagesThatFar'
  BY QuietKept, ReceiverKept
<1>3. StreamTypes /\ MessagesThatFar => FramesAreMessages
  <2> SUFFICES ASSUME StreamTypes, MessagesThatFar, ~disturbed
               PROVE  /\ \A i \in 1 .. Len(delivered) :
                           LET m == delivered[i][1].msg IN
                             /\ received[m] <= MaxFrame /\ delivered[i] = Message(m, received[m])
                             /\ i > 1 => m > delivered[i - 1][1].msg
                      /\ job = "rx" /\ buffer # <<>> =>
                           IsPrefix(buffer, Message(buffer[1].msg, received[buffer[1].msg]))
    BY DEF FramesAreMessages
  <2>1. PICK m \in Nat \ {0}, at \in Nat : Underway(m, at)
    BY DEF MessagesThatFar
  <2>2. ASSUME job = "rx", buffer # <<>>
        PROVE  IsPrefix(buffer, Message(buffer[1].msg, received[buffer[1].msg]))
    <3>1. /\ Len(buffer) \in Nat \ {0} /\ HeaderSize \in Nat /\ Len(received) \in Nat
          /\ Len(bank["rx"]) \in Nat /\ Len(hostOut) \in Nat /\ buffer \in Seq(Byte)
          /\ \A k \in 1 .. Len(received) : received[k] \in Nat
      BY <2>2, ReceiverTypes
    <3>2. at = Len(buffer)
      BY <2>1, <2>2 DEF Underway, Taken
    <3>3. m \in 1 .. Len(received) /\ Len(buffer) <= HeaderSize + received[m] /\ received[m] \in Nat
      BY <2>1, <3>1, <3>2 DEF Underway, Ahead, Size
    <3>4. \A i \in 1 .. Len(buffer) : buffer[i] = [msg |-> m, pos |-> i]
      BY <2>1, <3>1 DEF Underway, Taken, Piece
    <3>5. buffer[1].msg = m
      <4>1. 1 \in 1 .. Len(buffer)
        BY <3>1
      <4>2. buffer[1] = [msg |-> m, pos |-> 1]
        BY ONLY <3>4, <4>1
      <4> QED
        BY ONLY <4>2
    <3> DEFINE t == Message(m, received[m])
    <3>6. /\ Len(t) = HeaderSize + received[m] /\ \A i \in 1 .. Len(buffer) : t[i] = buffer[i]
      BY <3>1, <3>3, <3>4 DEF Message
    <3> HIDE DEF t
    <3>7. SubSeq(buffer, 1, Len(buffer)) = SubSeq(t, 1, Len(buffer))
      BY <3>1, <3>6 DEF SubSeq
    <3>8. IsPrefix(buffer, t)
      BY <3>1, <3>3, <3>6, <3>7 DEF IsPrefix
    <3> QED
      BY <3>5, <3>8 DEF t
  <2> QED
    BY <2>1, <2>2 DEF Underway, HandedOn, Whole
<1> QED
  BY <1>1, <1>2, <1>3, TypesHold, PTL DEF Spec

=============================================================================
