---------------------------- MODULE RndisControl ----------------------------
(***************************************************************************)
(* The RNDIS control channel: commands and responses over the control      *)
(* endpoint, announcements over the notification endpoint, one message     *)
(* buffer for all of it.  The main loop alternates between the USB task,   *)
(* which serves at most one request of the host, and the notification      *)
(* task.                                                                   *)
(***************************************************************************)
EXTENDS RndisMessages

CONSTANTS
  Requests,     \* the [type, oid, value] of the commands the host sends
  MaxCommands   \* bound: how many commands it sends

ASSUME ConstantsAssumption ==
  /\ Requests \subseteq [type : CommandTypes, oid : OIDs, value : Nat]
  /\ MaxCommands \in Nat

VARIABLES
  turn,        \* the task whose turn it is
  adapter,     \* see RndisMessages
  configured,  \* the notification endpoint is configured
  notice,      \* the notification endpoint holds an announcement
  patient,     \* host: what it may do, see below
  waiting,     \* host: waits for the response to its last command
  noticed,     \* host: has read an announcement
  received,    \* host: what it got since its last command, Free if nothing
  sent,        \* history: how many commands were sent
  command,     \* history: the last of them
  filter       \* history: the packet filter the host last set

hostVars == <<patient, waiting, noticed, received>>
history  == <<sent, command, filter>>

vars == <<turn, adapter, configured, notice, hostVars, history>>

-----------------------------------------------------------------------------
(* A patient host follows the protocol: it fetches a response after its    *)
(* announcement, sends no command while it waits for a response, only      *)
(* commands that have one, and does not reset the bus.  Another host does  *)
(* these things in any order.  Which of the two it is does not change.     *)
Init ==
  /\ patient \in BOOLEAN
  /\ turn = "USB"
  /\ adapter = PowerOnAdapter
  /\ configured = FALSE /\ notice = FALSE
  /\ waiting = FALSE /\ noticed = FALSE /\ received = Free
  /\ sent = 0 /\ command = Free /\ filter = 0

(* SEND_ENCAPSULATED_COMMAND.  HALT is the one command without a response. *)
EncapsulatedCommand ==
  /\ turn = "USB" /\ sent < MaxCommands
  /\ patient => ~waiting
  /\ \E r \in Requests :
       /\ patient => r.type \notin {"HALT", "other"}
       /\ LET m == Command(r.type, sent + 1, r.oid, r.value)
          IN /\ adapter' = ProcessRNDISControlMessage(adapter, m)
             /\ command' = m
             /\ filter' = IF r.type = "SET" /\ r.oid = "PACKET_FILTER" THEN r.value ELSE filter
             /\ waiting' = (r.type # "HALT")
  /\ sent' = sent + 1
  /\ received' = Free
  /\ turn' = "Notification"
  /\ UNCHANGED <<configured, notice, patient, noticed>>

(* The host's test for the response to its last command; the response to   *)
(* RESET carries no RequestId.                                             *)
Answers(r) ==
  /\ r.status # "none" /\ r.type = command.type
  /\ r.id = IF command.type = "RESET" THEN NoId ELSE sent

(* GET_ENCAPSULATED_RESPONSE.                                              *)
EncapsulatedResponseRead ==
  /\ turn = "USB"
  /\ patient => noticed
  /\ LET r == EncapsulatedResponse(adapter)
     IN /\ received' = r
        /\ waiting' = (waiting /\ ~Answers(r))
  /\ adapter' = GetEncapsulatedResponse(adapter)
  /\ noticed' = FALSE
  /\ turn' = "Notification"
  /\ UNCHANGED <<configured, notice, patient, history>>

UsbTaskIdle ==
  /\ turn = "USB"
  /\ turn' = "Notification"
  /\ UNCHANGED <<adapter, configured, notice, hostVars, history>>

(* SetConfiguration: the endpoints are configured, the adapter stays.      *)
SetConfiguration ==
  /\ turn = "USB" /\ ~configured
  /\ configured' = TRUE /\ notice' = FALSE
  /\ turn' = "Notification"
  /\ UNCHANGED <<adapter, hostVars, history>>

(* End of bus reset: the endpoints are cleared and the host starts anew,   *)
(* the adapter stays.                                                      *)
BusReset ==
  /\ ~patient /\ configured
  /\ configured' = FALSE /\ notice' = FALSE
  /\ waiting' = FALSE /\ noticed' = FALSE
  /\ UNCHANGED <<turn, adapter, patient, received, history>>

(* Mutant: the announcement is marked as sent while the bank is taken.     *)
RNDIS_NotificationUnchecked ==
  /\ turn = "Notification"
  /\ IF configured /\ adapter.ready
     THEN /\ notice' = notice
          /\ adapter' = Announced(adapter)
     ELSE UNCHANGED <<notice, adapter>>
  /\ turn' = "USB"
  /\ UNCHANGED <<configured, hostVars, history>>

(* Mutant: the flag is not reset and the announcement repeated.            *)
RNDIS_NotificationRepeats ==
  /\ turn = "Notification"
  /\ IF configured /\ ~notice /\ adapter.ready
     THEN notice' = TRUE /\ UNCHANGED adapter
     ELSE UNCHANGED <<notice, adapter>>
  /\ turn' = "USB"
  /\ UNCHANGED <<configured, hostVars, history>>

RNDIS_Notification ==
  /\ turn = "Notification"
  /\ IF configured /\ ~notice /\ adapter.ready
     THEN notice' = TRUE /\ adapter' = Announced(adapter)
     ELSE UNCHANGED <<notice, adapter>>
  /\ turn' = "USB"
  /\ UNCHANGED <<configured, hostVars, history>>

(* The host fetches the announcement from the interrupt endpoint.          *)
NoticeRead ==
  /\ notice
  /\ notice' = FALSE /\ noticed' = TRUE
  /\ UNCHANGED <<turn, adapter, configured, patient, waiting, received, history>>

Firmware == UsbTaskIdle \/ RNDIS_Notification

Host == EncapsulatedCommand \/ EncapsulatedResponseRead \/ SetConfiguration \/ NoticeRead

Next == Firmware \/ Host \/ BusReset

Spec == Init /\ [][Next]_vars

(* The main loop runs, and the host configures the device, reads what it   *)
(* is sent and fetches what was announced.  Strong fairness, because the   *)
(* USB task's turn comes and goes.                                         *)
FairSpec ==
  /\ Spec
  /\ WF_vars(Firmware) /\ WF_vars(NoticeRead)
  /\ SF_vars(SetConfiguration) /\ SF_vars(EncapsulatedResponseRead)

-----------------------------------------------------------------------------
(* Type correctness of every variable.                                     *)
TypeOK ==
  /\ turn \in {"USB", "Notification"}
  /\ adapter \in Adapter
  /\ configured \in BOOLEAN /\ notice \in BOOLEAN
  /\ patient \in BOOLEAN /\ waiting \in BOOLEAN /\ noticed \in BOOLEAN
  /\ received \in Message /\ command \in Message
  /\ sent \in 0 .. MaxCommands /\ filter \in Nat

(* A response that reaches the host is the one to its last command: the    *)
(* same request, refused exactly if its OID is unknown, with the filter    *)
(* that was set last, although commands are written over responses that    *)
(* were not fetched and the bus is reset with a response in the buffer.    *)
(* (A message of an unknown type has no status: it comes back as it was.)  *)
Status(m) ==
  IF m.type \in {"QUERY", "SET"} /\ m.oid = "unknown" THEN "NOT_SUPPORTED" ELSE "SUCCESS"

AnswersLast ==
  received.status # "none" =>
    /\ Answers(received)
    /\ received.status = Status(command)
    /\ command.type = "QUERY" /\ command.oid = "PACKET_FILTER" => received.value = filter

(* With a patient host, an announcement on its way always has its response *)
(* in the buffer: the host is never sent to an empty one.                  *)
AnnouncedHeld ==
  patient /\ (adapter.ready \/ notice \/ noticed) => waiting /\ adapter.buffer.status # "none"

(* Such a host gets every response, so that the data path, which the       *)
(* buffer shuts, opens again.                                              *)
CommandAnswered == (patient /\ waiting) ~> (~waiting /\ adapter.buffer = Free)

(* RNDIS.c, ProcessNDISSet: the state is set to initialized, that is data  *)
(* may flow, if the packet filter is non-zero.                             *)
DataNeedsFilter == adapter.state = "Data_Initialized" => adapter.filter # 0

=============================================================================
