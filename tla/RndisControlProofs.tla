------------------------- MODULE RndisControlProofs -------------------------
(***************************************************************************)
(* Proofs about module RndisControl, for every set of commands.            *)
(***************************************************************************)
EXTENDS RndisControl, TLAPS

(* The messages that are in no buffer yet.                                 *)
LEMMA MessagesTyped ==
  /\ Free \in Message /\ NoResponse \in Message /\ PowerOnAdapter \in Adapter
  /\ Free.status = "none" /\ NoResponse.status = "none"
  /\ \A r \in Requests, n \in Nat : /\ Command(r.type, n, r.oid, r.value) \in Message
                                    /\ r.type \in CommandTypes /\ r.value \in Nat
BY ConstantsAssumption
DEF Free, NoId, NoResponse, PowerOnAdapter, Adapter, AdapterStates, Message, Command, CommandTypes,
    OIDs, Statuses

(* The control messages keep the adapter's type.                           *)
LEMMA AdapterTyped ==
  ASSUME NEW a \in Adapter, NEW m \in Message, m.type \in CommandTypes
  PROVE  /\ ProcessRNDISControlMessage(a, m) \in Adapter
         /\ GetEncapsulatedResponse(a) \in Adapter
         /\ Announced(a) \in Adapter
<1>1. Free \in Message
  BY DEF Free, NoId, Message, CommandTypes, OIDs, Statuses
<1>2. \A v \in Nat, s \in Statuses : Response(m, v, s) \in Message
  BY DEF Response, Message
<1>3. GetEncapsulatedResponse(a) \in Adapter /\ Announced(a) \in Adapter
  BY <1>1 DEF GetEncapsulatedResponse, Announced, Adapter
<1>4. \A b \in Adapter, r \in Message : WithResponse(b, r) \in Adapter
  BY DEF WithResponse, Adapter
<1>5. QueryResponse(a, m) \in Message
  BY <1>2 DEF QueryResponse, Adapter, Statuses
<1>6. ProcessNDISSet(a, m) \in Adapter
  BY DEF ProcessNDISSet, Adapter, Message, AdapterStates
<1>7. ProcessRNDISControlMessage(a, m) \in Adapter
  <2>1. CASE m.type = "INITIALIZE"
    <3>1. WithResponse(a, Response(m, 0, "SUCCESS")) \in Adapter
      BY <1>2, <1>4 DEF Statuses
    <3> QED
      BY <2>1, <3>1 DEF ProcessRNDISControlMessage, Adapter, AdapterStates
  <2>2. CASE m.type = "HALT"
    BY <1>1, <2>2 DEF ProcessRNDISControlMessage, Adapter, AdapterStates
  <2>3. CASE m.type = "QUERY"
    BY <1>4, <1>5, <2>3 DEF ProcessRNDISControlMessage
  <2>4. CASE m.type = "SET"
    BY <1>2, <1>4, <1>6, <2>4 DEF ProcessRNDISControlMessage, SetStatus, Statuses
  <2>5. CASE m.type = "KEEPALIVE"
    BY <1>2, <1>4, <2>5 DEF ProcessRNDISControlMessage, Statuses
  <2>6. CASE m.type = "RESET"
    <3>1. [Response(m, 0, "SUCCESS") EXCEPT !.id = NoId] \in Message
      BY <1>2 DEF Message, NoId, Statuses
    <3> QED
      BY <1>4, <2>6, <3>1 DEF ProcessRNDISControlMessage
  <2>7. CASE m.type = "other"
    BY <2>7 DEF ProcessRNDISControlMessage, Adapter
  <2> QED
    BY <2>1, <2>2, <2>3, <2>4, <2>5, <2>6, <2>7 DEF CommandTypes
<1> QED
  BY <1>3, <1>7

(* A command leaves a typed adapter, sent count, command and filter.       *)
LEMMA CommandTyped ==
  ASSUME TypeOK, EncapsulatedCommand
  PROVE  TypeOK'
<1>1. PICK r \in Requests :
        /\ patient => r.type \notin {"HALT", "other"}
        /\ LET m == Command(r.type, sent + 1, r.oid, r.value)
           IN /\ adapter' = ProcessRNDISControlMessage(adapter, m)
              /\ command' = m
              /\ filter' = IF r.type = "SET" /\ r.oid = "PACKET_FILTER" THEN r.value ELSE filter
              /\ waiting' = (r.type # "HALT")
  BY DEF EncapsulatedCommand
<1> DEFINE m == Command(r.type, sent + 1, r.oid, r.value)
<1>2. sent + 1 \in 0 .. MaxCommands /\ sent + 1 \in Nat
  BY ConstantsAssumption DEF TypeOK, EncapsulatedCommand
<1>3. m \in Message /\ m.type \in CommandTypes
  BY <1>2, MessagesTyped DEF Command
<1>4. adapter' \in Adapter
  BY <1>1, <1>3, AdapterTyped DEF TypeOK
<1>5. filter' \in Nat /\ command' \in Message /\ waiting' \in BOOLEAN
  BY <1>1, <1>3, MessagesTyped DEF TypeOK
<1> QED
  BY <1>2, <1>4, <1>5, MessagesTyped DEF TypeOK, EncapsulatedCommand

(* The adapter keeps its type when it is read and announced.               *)
LEMMA ReadTyped ==
  ASSUME NEW a \in Adapter
  PROVE  /\ GetEncapsulatedResponse(a) \in Adapter /\ Announced(a) \in Adapter
         /\ EncapsulatedResponse(a) \in Message
<1>1. Command("HALT", 0, "known", 0) \in Message /\ Command("HALT", 0, "known", 0).type \in CommandTypes
  BY DEF Command, Message, CommandTypes, OIDs, Statuses
<1> QED
  BY <1>1, AdapterTyped, MessagesTyped DEF EncapsulatedResponse, Adapter

(* Every step keeps the types.                                             *)
LEMMA NextTyped == TypeOK /\ [Next]_vars => TypeOK'
<1> SUFFICES ASSUME TypeOK, [Next]_vars PROVE TypeOK'
  OBVIOUS
<1>1. CASE EncapsulatedCommand
  BY <1>1, CommandTyped
<1>2. CASE EncapsulatedResponseRead
  BY <1>2, ReadTyped DEF EncapsulatedResponseRead, TypeOK, history
<1>3. CASE RNDIS_Notification
  BY <1>3, ReadTyped DEF RNDIS_Notification, TypeOK, hostVars, history
<1>4. CASE UsbTaskIdle \/ SetConfiguration \/ BusReset \/ NoticeRead
  BY <1>4 DEF UsbTaskIdle, SetConfiguration, BusReset, NoticeRead, TypeOK, hostVars, history
<1>5. CASE UNCHANGED vars
  BY <1>5 DEF vars, TypeOK, hostVars, history
<1> QED
  BY <1>1, <1>2, <1>3, <1>4, <1>5 DEF Next, Firmware, Host

(* So it is at first.                                                      *)
LEMMA InitTyped == Init => TypeOK
<1>1. 0 \in 0 .. MaxCommands /\ 0 \in Nat
  BY ConstantsAssumption
<1>2. Free \in Message /\ PowerOnAdapter \in Adapter
  BY MessagesTyped
<1> QED
  BY <1>1, <1>2 DEF Init, TypeOK

(* Every variable keeps its type.                                          *)
THEOREM TypeCorrect == Spec => []TypeOK
  BY InitTyped, NextTyped, PTL DEF Spec

-----------------------------------------------------------------------------
(* AnswersLast says of what the host has received what is true of the      *)
(* buffer before: a response in it answers the last command.               *)
AnswerTo(r) ==
  r.status # "none" =>
    /\ Answers(r)
    /\ r.status = Status(command)
    /\ command.type = "QUERY" /\ command.oid = "PACKET_FILTER" => r.value = filter

AnswerInv == AnswerTo(adapter.buffer) /\ AnswerTo(received) /\ adapter.filter = filter

(* What processing a command leaves in the buffer and of the filter.       *)
LEMMA Processed ==
  ASSUME NEW a \in Adapter, NEW m \in Message, m.type \in CommandTypes, m.status = "none"
  PROVE  LET b == ProcessRNDISControlMessage(a, m)
         IN /\ b.buffer.status # "none" =>
                 /\ b.buffer.type = m.type /\ b.buffer.status = Status(m)
                 /\ b.buffer.id = IF m.type = "RESET" THEN NoId ELSE m.id
                 /\ m.type = "QUERY" /\ m.oid = "PACKET_FILTER" => b.buffer.value = a.filter
            /\ b.filter = IF m.type = "SET" /\ m.oid = "PACKET_FILTER" THEN m.value ELSE a.filter
            /\ m.type \notin {"HALT", "other"} => b.ready /\ b.buffer.status # "none"
<1> USE DEF ProcessRNDISControlMessage, WithResponse, Response, Adapter, Message
<1>1. CASE m.type = "INITIALIZE"
  BY <1>1 DEF Status
<1>2. CASE m.type = "HALT"
  BY <1>2, MessagesTyped
<1>3. CASE m.type = "QUERY"
  BY <1>3 DEF QueryResponse, Status, OIDs
<1>4. CASE m.type = "SET"
  BY <1>4 DEF ProcessNDISSet, SetStatus, Status, OIDs
<1>5. CASE m.type \in {"RESET", "KEEPALIVE"}
  BY <1>5 DEF Status
<1>6. CASE m.type = "other"
  BY <1>6
<1> QED
  BY <1>1, <1>2, <1>3, <1>4, <1>5, <1>6 DEF CommandTypes

(* What a command does, seen from the buffer.                              *)
LEMMA CommandProcessed ==
  ASSUME TypeOK, EncapsulatedCommand, adapter.filter = filter
  PROVE  /\ AnswerTo(adapter.buffer)' /\ adapter'.filter = filter'
         /\ patient => waiting' /\ adapter'.ready /\ adapter'.buffer.status # "none"
<1>1. PICK r \in Requests :
        /\ patient => r.type \notin {"HALT", "other"}
        /\ LET m == Command(r.type, sent + 1, r.oid, r.value)
           IN /\ adapter' = ProcessRNDISControlMessage(adapter, m)
              /\ command' = m
              /\ filter' = IF r.type = "SET" /\ r.oid = "PACKET_FILTER" THEN r.value ELSE filter
              /\ waiting' = (r.type # "HALT")
  BY DEF EncapsulatedCommand
<1> DEFINE m == Command(r.type, sent + 1, r.oid, r.value)
<1>2. m \in Message /\ m.type \in CommandTypes /\ m.status = "none" /\ adapter \in Adapter
  BY MessagesTyped, ConstantsAssumption DEF TypeOK, Command
<1>3. sent' = sent + 1 /\ m.id = sent + 1 /\ m.type = r.type /\ m.oid = r.oid /\ m.value = r.value
  BY DEF EncapsulatedCommand, Command
<1>4. \/ m.type = "QUERY" /\ m.oid = "PACKET_FILTER" /\ filter' = filter
      \/ ~ (m.type = "QUERY" /\ m.oid = "PACKET_FILTER")
  BY <1>1, <1>3
<1>5. command' = m /\ adapter' = ProcessRNDISControlMessage(adapter, m)
  BY <1>1
<1>6. AnswerTo(adapter.buffer)'
  BY <1>2, <1>3, <1>4, <1>5, Processed DEF AnswerTo, Answers, Status
<1>7. adapter'.filter = filter'
  BY <1>1, <1>2, <1>3, <1>5, Processed
<1>8. patient => waiting' /\ m.type \notin {"HALT", "other"}
  BY <1>1, <1>3
<1>9. m.type \notin {"HALT", "other"} => adapter'.ready /\ adapter'.buffer.status # "none"
  BY <1>2, <1>5, Processed
<1> QED
  BY <1>6, <1>7, <1>8, <1>9

(* AnswerInv is kept by every step.                                        *)
LEMMA AnswerStep == TypeOK /\ AnswerInv /\ [Next]_vars => AnswerInv'
<1> SUFFICES ASSUME TypeOK, AnswerInv, [Next]_vars PROVE AnswerInv'
  OBVIOUS
<1> USE DEF AnswerInv
<1>1. CASE EncapsulatedCommand
  <2>1. AnswerTo(received)'
    BY <1>1, MessagesTyped DEF EncapsulatedCommand, AnswerTo
  <2> QED
    BY <1>1, <2>1, CommandProcessed
<1>2. CASE EncapsulatedResponseRead
  <2>1. /\ adapter' = GetEncapsulatedResponse(adapter) /\ UNCHANGED history
        /\ received' = EncapsulatedResponse(adapter)
    BY <1>2 DEF EncapsulatedResponseRead
  <2>2. adapter'.buffer = Free /\ adapter'.filter = adapter.filter
    BY <2>1 DEF GetEncapsulatedResponse, TypeOK, Adapter
  <2> QED
    BY <2>1, <2>2, MessagesTyped DEF EncapsulatedResponse, AnswerTo, Answers, Status, history
<1>3. CASE RNDIS_Notification
  <2>1. adapter'.buffer = adapter.buffer /\ adapter'.filter = adapter.filter
    BY <1>3 DEF RNDIS_Notification, Announced, TypeOK, Adapter
  <2> QED
    BY <1>3, <2>1 DEF RNDIS_Notification, AnswerTo, Answers, Status, hostVars, history
<1>4. CASE UNCHANGED <<adapter, received, history>>
  BY <1>4 DEF AnswerTo, Answers, Status, history
<1>5. UsbTaskIdle \/ SetConfiguration \/ BusReset \/ NoticeRead \/ UNCHANGED vars
        => UNCHANGED <<adapter, received, history>>
  BY DEF UsbTaskIdle, SetConfiguration, BusReset, NoticeRead, vars, hostVars
<1> QED
  BY <1>1, <1>2, <1>3, <1>4, <1>5 DEF Next, Firmware, Host

(* Every response that reaches the host answers its last command.          *)
THEOREM ResponsesAnswerLast == Spec => []AnswersLast
<1>1. Init => AnswerInv
  BY MessagesTyped DEF Init, AnswerInv, AnswerTo, PowerOnAdapter
<1>2. AnswerInv => AnswersLast
  BY DEF AnswerInv, AnswerTo, AnswersLast
<1> QED
  BY <1>1, <1>2, AnswerStep, TypeCorrect, PTL DEF Spec

-----------------------------------------------------------------------------
(* AnnouncedHeld: of the three places an announcement can be in, at most   *)
(* one is taken, and its response is the one the host waits for.           *)
OneAnnouncement ==
  /\ ~ (adapter.ready /\ notice)
  /\ ~ (adapter.ready /\ noticed)
  /\ ~ (notice /\ noticed)

HeldInv == AnnouncedHeld /\ (patient => OneAnnouncement)

(* It is kept by every step: nothing is claimed of a host that is not      *)
(* patient, and such a host does not become one.                           *)
LEMMA HeldStep == TypeOK /\ AnswerInv /\ HeldInv /\ [Next]_vars => HeldInv'
<1> SUFFICES ASSUME TypeOK, AnswerInv, HeldInv, [Next]_vars PROVE HeldInv'
  OBVIOUS
<1> USE DEF HeldInv, OneAnnouncement, AnnouncedHeld
<1>1. patient' = patient
  BY DEF Next, Firmware, Host, EncapsulatedCommand, EncapsulatedResponseRead, UsbTaskIdle,
         SetConfiguration, BusReset, RNDIS_Notification, NoticeRead, vars, hostVars
<1>2. CASE ~patient
  BY <1>1, <1>2
<1>3. CASE patient /\ EncapsulatedCommand
  <2>1. waiting' /\ adapter'.buffer.status # "none"
    BY <1>3, CommandProcessed DEF AnswerInv
  <2>2. ~notice' /\ ~noticed'
    BY <1>3 DEF EncapsulatedCommand
  <2> QED
    BY <2>1, <2>2
<1>4. CASE patient /\ EncapsulatedResponseRead
  <2>1. noticed /\ adapter.buffer.status # "none" /\ adapter.buffer # Free
    BY <1>4, MessagesTyped DEF EncapsulatedResponseRead
  <2>2. ~adapter'.ready /\ ~notice' /\ ~noticed'
    BY <1>4, <2>1 DEF EncapsulatedResponseRead, GetEncapsulatedResponse, TypeOK, Adapter
  <2> QED
    BY <2>2
<1>5. CASE patient /\ RNDIS_Notification
  <2>1. adapter'.buffer = adapter.buffer
    BY <1>5 DEF RNDIS_Notification, Announced, TypeOK, Adapter
  <2>2. \/ notice' /\ ~adapter'.ready /\ adapter.ready
        \/ UNCHANGED <<notice, adapter>>
    BY <1>5 DEF RNDIS_Notification, Announced, TypeOK, Adapter
  <2>3. UNCHANGED <<waiting, noticed>>
    BY <1>5 DEF RNDIS_Notification, hostVars
  <2> QED
    BY <1>5, <2>1, <2>2, <2>3
<1>6. CASE patient /\ NoticeRead
  BY <1>6 DEF NoticeRead
<1>7. CASE patient /\ SetConfiguration
  BY <1>7 DEF SetConfiguration, hostVars
<1>8. CASE UsbTaskIdle \/ UNCHANGED vars
  BY <1>8 DEF UsbTaskIdle, vars, hostVars
<1>9. patient => ~BusReset
  BY DEF BusReset
<1> QED
  BY <1>2, <1>3, <1>4, <1>5, <1>6, <1>7, <1>8, <1>9 DEF Next, Firmware, Host

(* A host that waits for announcements and responses is never sent to an   *)
(* empty buffer.                                                           *)
THEOREM AnnouncementsHeld == Spec => []AnnouncedHeld
<1>1. Init => AnswerInv /\ HeldInv
  BY MessagesTyped DEF Init, AnswerInv, HeldInv, OneAnnouncement, AnnouncedHeld, AnswerTo, PowerOnAdapter
<1>2. HeldInv => AnnouncedHeld
  BY DEF HeldInv
<1> QED
  BY <1>1, <1>2, HeldStep, AnswerStep, TypeCorrect, PTL DEF Spec

=============================================================================
