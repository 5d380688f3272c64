--------------------------- MODULE RndisMessages ---------------------------
(***************************************************************************)
(* The RNDIS control messages and what RNDIS.c and the control request     *)
(* handler of CULeth.c do with one of them.  The adapter is a record:      *)
(*                                                                         *)
(*   state   CurrRNDISState                                                *)
(*   filter  CurrPacketFilter, 0 or not                                    *)
(*   ready   ResponseReady                                                 *)
(*   buffer  RNDISMessageBuffer: Free when MessageHeader->MessageLength is *)
(*           0, otherwise the message that the one shared buffer holds     *)
(*                                                                         *)
(* A message is [type, id, oid, value, status]: a command carries what the *)
(* host wrote, its response is built over it in the same bytes and so      *)
(* keeps the RequestId; the response to RESET has its status in that place *)
(* and no RequestId.  Every message of the host has a non-zero length.     *)
(***************************************************************************)
EXTENDS Integers

AdapterStates == {"Uninitialized", "Initialized", "Data_Initialized"}

CommandTypes == {"INITIALIZE", "HALT", "QUERY", "SET", "RESET", "KEEPALIVE", "other"}

(* The OIDs the handlers tell apart: the one with state, one that is       *)
(* answered or accepted without any, and one that is refused.              *)
OIDs == {"PACKET_FILTER", "known", "unknown"}

Statuses == {"none", "SUCCESS", "NOT_SUPPORTED"}

Message == [type : CommandTypes \union {"free", "zero"}, id : Nat, oid : OIDs,
            value : Nat, status : Statuses]

Adapter == [state : AdapterStates, filter : Nat, ready : BOOLEAN, buffer : Message]

NoId == 0

Command(type, id, oid, value) ==
  [type |-> type, id |-> id, oid |-> oid, value |-> value, status |-> "none"]

Response(m, value, status) ==
  [type |-> m.type, id |-> m.id, oid |-> m.oid, value |-> value, status |-> status]

Free == [type |-> "free", id |-> NoId, oid |-> "unknown", value |-> 0, status |-> "none"]

(* The single 0x00 byte the host gets when no response is ready.           *)
NoResponse == [Free EXCEPT !.type = "zero"]

PowerOnAdapter ==
  [state |-> "Uninitialized", filter |-> 0, ready |-> FALSE, buffer |-> Free]

-----------------------------------------------------------------------------
(* Mutant: the status is written over the OID before the OID is read.      *)
QueryResponseStatusFirst(a, m) == Response(m, 0, "NOT_SUPPORTED")

(* ProcessNDISQuery: the value of the one OID that has state, and whether  *)
(* the OID is answered at all.                                             *)
QueryResponse(a, m) ==
  IF m.oid = "unknown" THEN Response(m, 0, "NOT_SUPPORTED")
  ELSE Response(m, IF m.oid = "PACKET_FILTER" THEN a.filter ELSE 0, "SUCCESS")

(* ProcessNDISSet: the packet filter is stored and the adapter becomes     *)
(* Data_Initialized, whatever the filter's value.                          *)
ProcessNDISSet(a, m) ==
  IF m.oid = "PACKET_FILTER"
  THEN [a EXCEPT !.filter = m.value, !.state = "Data_Initialized"]
  ELSE a

SetStatus(m) == IF m.oid = "unknown" THEN "NOT_SUPPORTED" ELSE "SUCCESS"

WithResponse(a, r) == [a EXCEPT !.ready = TRUE, !.buffer = r]

(* SEND_ENCAPSULATED_COMMAND: the message is read into the buffer, over    *)
(* whatever it held, and processed there.  A message of an unknown type    *)
(* stays in the buffer and no response is announced.                       *)
ProcessRNDISControlMessage(a, m) ==
  CASE m.type = "INITIALIZE" ->
         [WithResponse(a, Response(m, 0, "SUCCESS")) EXCEPT !.state = "Initialized"]
    [] m.type = "HALT" ->
         [a EXCEPT !.ready = FALSE, !.buffer = Free, !.state = "Uninitialized"]
    [] m.type = "QUERY" -> WithResponse(a, QueryResponse(a, m))
    [] m.type = "SET" ->
         WithResponse(ProcessNDISSet(a, m), Response(m, 0, SetStatus(m)))
    [] m.type = "KEEPALIVE" -> WithResponse(a, Response(m, 0, "SUCCESS"))
    [] m.type = "RESET" -> WithResponse(a, [Response(m, 0, "SUCCESS") EXCEPT !.id = NoId])
    [] m.type = "other" -> [a EXCEPT !.buffer = m]

(* GET_ENCAPSULATED_RESPONSE: what the host is sent, and the buffer freed. *)
EncapsulatedResponse(a) == IF a.buffer = Free THEN NoResponse ELSE a.buffer

GetEncapsulatedResponse(a) == [a EXCEPT !.buffer = Free]

(* RNDIS_Notification: the announcement goes out once.                     *)
Announced(a) == [a EXCEPT !.ready = FALSE]

(* The gate of RNDIS_RX and RNDIS_TX: data moves only in state             *)
(* Data_Initialized and while the message buffer is free.                  *)
DataOpen(a) == a.state = "Data_Initialized" /\ a.buffer = Free

=============================================================================
