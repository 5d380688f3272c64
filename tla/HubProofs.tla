----------------------------- MODULE HubProofs -----------------------------
(***************************************************************************)
(* Proofs about module Hub, for every value of its constants: its          *)
(* invariants, then that it implements Bridge.                             *)
(***************************************************************************)
EXTENDS Hub, SequenceTheorems, TLAPS

(* What RNDIS_TX and CC1101_TX do to the bank and the history.             *)
LEMMA TransmitTyped ==
  ASSUME TypeOK, NEW p \in Packet, RNDIS_TX(p) \/ CC1101_TX(p) \/ UNCHANGED txVars
  PROVE  inBusy' \in BOOLEAN /\ log' \in Seq(Transmission)
<1>1. \A to \in {"RNDIS", "CC1101"}, whole \in BOOLEAN : Record(to, p, whole) \in Transmission
  BY DEF Record, Transmission
<1>2. \A r \in Transmission : Append(log, r) \in Seq(Transmission)
  BY AppendProperties DEF TypeOK
<1> QED
  BY <1>1, <1>2 DEF TypeOK, RNDIS_TX, CC1101_TX, txVars

-----------------------------------------------------------------------------
(* The values everything in RAM has after a reset.                         *)
LEMMA PowerOnTyped ==
  /\ PowerOnAdapter \in Adapter
  /\ EmptyBuffer \in Packet
  /\ NoArg \in Args
  /\ "boot" \in Points /\ "NONE" \in Interfaces /\ "NONE" \in Extra
  /\ AtBoot \subseteq Tasks /\ "Timer" \notin AtBoot
  /\ 0 \in 0 .. BlinkTicks /\ 0 \in 0 .. WatchdogTicks /\ 0 \in 0 .. MaxFrames
<1>1. PowerOnAdapter \in Adapter
  BY DEF PowerOnAdapter, Adapter, AdapterStates, Free, NoId, Message, CommandTypes, OIDs, Statuses
<1>2. EmptyBuffer \in Packet
  BY DEF EmptyBuffer, Buffer, Packet, Kinds, Interfaces
<1>3. NoArg \in Args
  BY DEF NoArg, Args, Interfaces
<1>4. "boot" \in Points /\ "NONE" \in Interfaces /\ "NONE" \in Extra
  BY DEF Points, Tasks, Interfaces, Extra
<1>5. AtBoot \subseteq Tasks /\ "Timer" \notin AtBoot
  BY DEF AtBoot, Tasks
<1>6. 0 \in 0 .. BlinkTicks /\ 0 \in 0 .. WatchdogTicks /\ 0 \in 0 .. MaxFrames
  BY ConstantsAssumption
<1> QED
  BY <1>1, <1>2, <1>3, <1>4, <1>5, <1>6

(* The initial state is typed.                                             *)
LEMMA InitTyped == Init => TypeOK
<1> SUFFICES ASSUME Init PROVE TypeOK
  OBVIOUS
<1>1. log \in Seq(Transmission)
  BY DEF Init
<1> QED
  BY <1>1, PowerOnTyped DEF Init, TypeOK

(* A reset leaves the power-on values.                                     *)
LEMMA ResetTyped == ASSUME TypeOK, Reset, wdrf' \in BOOLEAN PROVE TypeOK'
  BY PowerOnTyped DEF Reset, TypeOK

(* The host, the radio, the USB interrupt and the power keep the types.    *)
LEMMA EnvironmentTyped == TypeOK /\ Environment => TypeOK'
<1> SUFFICES ASSUME TypeOK, Environment PROVE TypeOK'
  OBVIOUS
<1> USE ConstantsAssumption DEF TypeOK, usbVars, bankVars, frameVars, extraVars, timeVars, bootVars, txVars
<1>1. \A s \in Shapes, src \in {"RNDIS", "CC1101"} :
        sent < MaxFrames => MakeFrame(s, src) \in Frame
  BY DEF MakeFrame, Frame, Shapes
<1>2. CASE HostSend
  BY <1>1, <1>2 DEF HostSend
<1>3. CASE AirSend
  BY <1>1, <1>3 DEF AirSend
<1>4. CASE HostRead
  BY <1>4 DEF HostRead
<1>5. CASE UsbConnect
  BY <1>5 DEF UsbConnect, Tasks
<1>6. CASE UsbDisconnect
  BY <1>6 DEF UsbDisconnect, AtBoot
<1>7. CASE BusReset
  BY <1>7 DEF BusReset
<1>8. CASE PowerCycle
  BY <1>8, ResetTyped DEF PowerCycle
<1> QED
  BY <1>2, <1>3, <1>4, <1>5, <1>6, <1>7, <1>8 DEF Environment

(* The control messages keep the adapter's type.                           *)
LEMMA AdapterTyped ==
  ASSUME NEW a \in Adapter, NEW m \in Message, m.type \in CommandTypes
  PROVE  /\ ProcessRNDISControlMessage(a, m) \in Adapter
         /\ GetEncapsulatedResponse(a) \in Adapter
         /\ Announced(a) \in Adapter
<1>1. Free \in Message
  BY DEF Free, NoId, Message, CommandTypes, OIDs, Statuses
<1>2. \A v \in Nat, s \in Statuses : Response(m, v, s) \in Message
  BY DEF Response, Message
<1>3. GetEncapsulatedResponse(a) \in Adapter /\ Announced(a) \in Adapter
  BY <1>1 DEF GetEncapsulatedResponse, Announced, Adapter
<1>4. \A b \in Adapter, r \in Message : WithResponse(b, r) \in Adapter
  BY DEF WithResponse, Adapter
<1>5. QueryResponse(a, m) \in Message
  BY <1>2 DEF QueryResponse, Adapter, Statuses
<1>6. ProcessNDISSet(a, m) \in Adapter
  BY DEF ProcessNDISSet, Adapter, Message, AdapterStates
<1>7. ProcessRNDISControlMessage(a, m) \in Adapter
  <2>1. CASE m.type = "INITIALIZE"
    <3>1. WithResponse(a, Response(m, 0, "SUCCESS")) \in Adapter
      BY <1>2, <1>4 DEF Statuses
    <3> QED
      BY <2>1, <3>1 DEF ProcessRNDISControlMessage, Adapter, AdapterStates
  <2>2. CASE m.type = "HALT"
    BY <1>1, <2>2 DEF ProcessRNDISControlMessage, Adapter, AdapterStates
  <2>3. CASE m.type = "QUERY"
    BY <1>4, <1>5, <2>3 DEF ProcessRNDISControlMessage
  <2>4. CASE m.type = "SET"
    BY <1>2, <1>4, <1>6, <2>4 DEF ProcessRNDISControlMessage, SetStatus, Statuses
  <2>5. CASE m.type = "KEEPALIVE"
    BY <1>2, <1>4, <2>5 DEF ProcessRNDISControlMessage, Statuses
  <2>6. CASE m.type = "RESET"
    <3>1. [Response(m, 0, "SUCCESS") EXCEPT !.id = NoId] \in Message
      BY <1>2 DEF Message, NoId, Statuses
    <3> QED
      BY <1>4, <2>6, <3>1 DEF ProcessRNDISControlMessage
  <2>7. CASE m.type = "other"
    BY <2>7 DEF ProcessRNDISControlMessage, Adapter
  <2> QED
    BY <2>1, <2>2, <2>3, <2>4, <2>5, <2>6, <2>7 DEF CommandTypes
<1> QED
  BY <1>3, <1>7

(* The turn goes to a task.                                                *)
LEMMA NextTaskTyped == \A t \in Tasks : NextTask[t] \in Points
  BY DEF NextTask, Tasks, Points

(* The steps of main(), the bootloader, the watchdog and the tasks other   *)
(* than Ethernet_Task and Extras_Task.                                     *)
LEMMA SystemTyped ==
  ASSUME TypeOK,
         Boot \/ SkipTask \/ WatchdogTask \/ UsbTask \/ NotificationTask
           \/ ResumedTransfer \/ LeaveBootloader \/ Tick \/ WatchdogReset
  PROVE  TypeOK'
<1> USE ConstantsAssumption
    DEF TypeOK, usbVars, bankVars, frameVars, extraVars, timeVars, bootVars, txVars
<1>0. /\ {"Watchdog", "USB", "Notification", "Ethernet", "Timer", "Extras"} \subseteq Tasks
      /\ {"Watchdog", "bootloader", "boot", "hang"} \subseteq Points
  BY DEF Tasks, Points
<1>1. CASE Boot
  BY <1>0, <1>1 DEF Boot
<1>2. CASE SkipTask
  BY <1>2, NextTaskTyped DEF SkipTask
<1>3. CASE WatchdogTask
  BY <1>0, <1>3, NextTaskTyped DEF WatchdogTask
<1>4. CASE UsbTaskIdle
  BY <1>0, <1>4, NextTaskTyped DEF UsbTaskIdle
<1>5. CASE SetConfiguration
  BY <1>0, <1>5, NextTaskTyped DEF SetConfiguration
<1>6. CASE EncapsulatedCommand
  <2>1. PICK m \in Commands : adapter' = ProcessRNDISControlMessage(adapter, m)
    BY <1>6 DEF EncapsulatedCommand
  <2>2. adapter' \in Adapter
    BY <2>1, AdapterTyped
  <2> QED
    BY <1>0, <1>6, <2>2, NextTaskTyped DEF EncapsulatedCommand
<1>7. CASE EncapsulatedResponseRead
  <2>1. [type |-> "HALT", id |-> 0, oid |-> "known", value |-> 0, status |-> "none"] \in Message
    BY DEF Message, CommandTypes, OIDs, Statuses
  <2>2. adapter' \in Adapter
    BY <1>7, <2>1, AdapterTyped DEF EncapsulatedResponseRead, CommandTypes
  <2> QED
    BY <1>0, <1>7, <2>2, NextTaskTyped DEF EncapsulatedResponseRead
<1>8. CASE AbandonedTransfer
  BY <1>0, <1>8 DEF AbandonedTransfer
<1>9. CASE ResumedTransfer
  BY <1>0, <1>9, NextTaskTyped DEF ResumedTransfer
<1>10. CASE NotificationTask
  BY <1>0, <1>10, NextTaskTyped DEF NotificationTask, Announced, Adapter
<1>11. CASE LeaveBootloader
  BY <1>0, <1>11 DEF LeaveBootloader
<1>12. CASE Tick
  BY <1>12 DEF Tick
<1>13. CASE WatchdogReset
  BY <1>13, ResetTyped DEF WatchdogReset
<1> QED
  BY <1>1, <1>2, <1>3, <1>4, <1>5, <1>6, <1>7, <1>8, <1>9, <1>10, <1>11, <1>12, <1>13 DEF UsbTask

(* Ethernet_Task keeps the types.                                          *)
LEMMA EthernetTyped == ASSUME TypeOK, EthernetTask PROVE TypeOK'
<1> USE ConstantsAssumption
    DEF TypeOK, usbVars, bankVars, frameVars, extraVars, timeVars, bootVars
<1>0. /\ NextTask["Ethernet"] \in Points
      /\ {"forwardHost", "forwardAir", "process", "blink", "answer"} \subseteq Points
      /\ {"NONE", "RNDIS", "CC1101", "INTERNAL"} \subseteq Interfaces
  BY NextTaskTyped DEF Tasks, Points, Interfaces
<1>1. \A k \in Kinds, f \in Frame \union {NoFrame} : Buffer(k, f) \in Packet
  BY DEF Buffer, Packet, Interfaces
<1>2. {"frame", "probe", "answer"} \subseteq Kinds /\ frame.frame \in Frame \union {NoFrame}
  BY DEF Kinds, Packet
<1>3. \A f \in Frame, src \in {"RNDIS", "CC1101"} : Destination(f, src) \subseteq Interfaces
  BY DEF Destination, Frame, Interfaces, Destinations
<1>4. CASE RNDIS_RX
  BY <1>0, <1>1, <1>2, <1>3, <1>4 DEF RNDIS_RX, Receive, CanReceive, txVars
<1>5. CASE CC1101_RX
  BY <1>0, <1>1, <1>2, <1>3, <1>5 DEF CC1101_RX, Receive, txVars
<1>6. CASE NothingReceived
  BY <1>0, <1>6 DEF NothingReceived, txVars
<1>7. CASE ForwardHost
  <2>1. inBusy' \in BOOLEAN /\ log' \in Seq(Transmission)
    BY <1>7, TransmitTyped DEF ForwardHost
  <2> QED
    BY <1>0, <1>7, <2>1 DEF ForwardHost
<1>8. CASE ForwardAir
  <2>1. inBusy' \in BOOLEAN /\ log' \in Seq(Transmission)
    BY <1>8, TransmitTyped DEF ForwardAir
  <2> QED
    BY <1>0, <1>8, <2>1 DEF ForwardAir, Args, Extra
<1>9. CASE ProcessSilent
  BY <1>0, <1>9 DEF ProcessSilent, txVars
<1>10. CASE ProcessRequest
  <2>1. inBusy' \in BOOLEAN /\ log' \in Seq(Transmission)
    BY <1>1, <1>2, <1>10, TransmitTyped DEF ProcessRequest
  <2>2. extraflag' \in Extra /\ extraarg' \in Args
    BY <1>10, PowerOnTyped DEF ProcessRequest, OperationExtra, Extra
  <2> QED
    BY <1>0, <1>1, <1>2, <1>10, <2>1, <2>2 DEF ProcessRequest, BuildAnswer
<1>11. CASE ProcessBlink
  BY <1>0, <1>11 DEF ProcessBlink, txVars
<1>12. CASE Blink
  BY <1>12 DEF Blink, txVars
<1>13. CASE Blinked
  BY <1>0, <1>1, <1>2, <1>13 DEF Blinked, BuildAnswer, txVars
<1>14. CASE Answer
  <2>1. inBusy' \in BOOLEAN /\ log' \in Seq(Transmission)
    BY <1>14, TransmitTyped DEF Answer
  <2> QED
    BY <1>0, <1>14, <2>1 DEF Answer
<1> QED
  BY <1>4, <1>5, <1>6, <1>7, <1>8, <1>9, <1>10, <1>11, <1>12, <1>13, <1>14 DEF EthernetTask

(* Extras_Task keeps the types.                                            *)
LEMMA ExtrasTyped == ASSUME TypeOK, ExtrasTask PROVE TypeOK'
<1> USE DEF TypeOK, usbVars, bankVars, frameVars, extraVars, timeVars, bootVars
<1>0. NextTask["Extras"] \in Points /\ "spin" \in Points
  BY NextTaskTyped DEF Tasks, Points
<1>1. ExtraDone => extraflag' \in Extra /\ extraarg' \in Args /\ pc' \in Points
  BY <1>0, PowerOnTyped DEF ExtraDone
<1>2. ExtraPacket \in Packet
  BY DEF ExtraPacket, Buffer, Packet, Kinds, Interfaces, Args
<1>3. CASE NoExtra
  BY <1>1, <1>3 DEF NoExtra, txVars
<1>4. CASE SendExtra
  <2>1. inBusy' \in BOOLEAN /\ log' \in Seq(Transmission)
    BY <1>2, <1>4, TransmitTyped DEF SendExtra
  <2> QED
    BY <1>1, <1>2, <1>4, <2>1 DEF SendExtra
<1>5. CASE StartSpin
  BY <1>0, <1>5 DEF StartSpin, txVars
<1> QED
  BY <1>3, <1>4, <1>5 DEF ExtrasTask

(* Every variable keeps its type, whatever the constants.                  *)
THEOREM TypeCorrect == Spec => []TypeOK
<1>1. Init => TypeOK
  BY InitTyped
<1>2. TypeOK /\ [Next]_vars => TypeOK'
  <2> SUFFICES ASSUME TypeOK, [Next]_vars PROVE TypeOK'
    OBVIOUS
  <2>1. CASE Next
    BY <2>1, EnvironmentTyped, SystemTyped, EthernetTyped, ExtrasTyped DEF Next, MainLoop
  <2>2. CASE UNCHANGED vars
    BY <2>2 DEF vars, usbVars, bankVars, frameVars, extraVars, timeVars, bootVars, txVars, TypeOK
  <2> QED
    BY <2>1, <2>2
<1> QED
  BY <1>1, <1>2, PTL DEF Spec

-----------------------------------------------------------------------------
Untouched == UNCHANGED <<pc, frameVars, extraVars, taken>>

(* The steps that leave the round, the buffer and the pending extra alone. *)
LEMMA EnvironmentAside ==
  ASSUME Environment \/ Tick \/ WatchdogReset
  PROVE  Untouched \/ Reset
BY DEF Environment, HostSend, AirSend, HostRead, UsbConnect, UsbDisconnect, BusReset,
       PowerCycle, Tick, WatchdogReset, Untouched, frameVars, extraVars

(* The steps of the round that only pass the turn on, none of them from a  *)
(* point at which an extra waits but the ones named.                       *)
PassTurn ==
  /\ \/ pc \in {"boot", "bootloader", "hang", "Watchdog", "USB", "Notification"}
     \/ pc = "Ethernet" /\ pc' = "Timer"
     \/ pc = "Timer" /\ pc' = "Extras"
  /\ pc' \notin {"forwardHost", "forwardAir", "process", "blink", "answer", "Extras", "spin"}
       \/ pc = "Timer"
  /\ pc' = "Timer" => pc = "Ethernet"
  /\ UNCHANGED <<frameVars, extraVars, taken>>

(* The steps of main() and of the other tasks only pass the turn on.       *)
LEMMA SystemPasses ==
  ASSUME TypeOK,
         Boot \/ SkipTask \/ WatchdogTask \/ UsbTask \/ NotificationTask \/ ResumedTransfer
           \/ LeaveBootloader \/ NothingReceived
  PROVE  PassTurn
<1> USE DEF PassTurn, NextTask, frameVars, extraVars
<1>1. CASE Boot
  BY <1>1 DEF Boot
<1>2. CASE SkipTask
  BY <1>2 DEF SkipTask, TypeOK, AtBoot, Tasks
<1>3. CASE WatchdogTask
  BY <1>3 DEF WatchdogTask, Turn
<1>4. CASE UsbTask
  BY <1>4 DEF UsbTask, UsbTaskIdle, SetConfiguration, EncapsulatedCommand,
              EncapsulatedResponseRead, AbandonedTransfer, Turn
<1>5. CASE NotificationTask
  BY <1>5 DEF NotificationTask, Turn
<1>6. CASE ResumedTransfer
  BY <1>6 DEF ResumedTransfer
<1>7. CASE LeaveBootloader
  BY <1>7 DEF LeaveBootloader
<1>8. CASE NothingReceived
  BY <1>8 DEF NothingReceived, Turn
<1> QED
  BY <1>1, <1>2, <1>3, <1>4, <1>5, <1>6, <1>7, <1>8

(* PendingExtra alone does not say what waits while a frame is processed:  *)
(* RequestSticks also needs that it is never a request.                    *)
PendingInv ==
  /\ PendingExtra
  /\ pc \in {"process", "blink"} => extraflag = "PACKET"

(* PendingInv is kept, and a marked request given up by a reset only.      *)
LEMMA PendingStep ==
  ASSUME TypeOK, PendingInv, [Next]_vars
  PROVE  /\ PendingInv'
         /\ extraflag \in {"REBOOT", "BOOTLOADER"} /\ extraflag' # extraflag => pc' = "boot"
<1> USE DEF PendingInv, PendingExtra
<1>1. CASE Untouched
  BY <1>1 DEF Untouched, extraVars
<1>2. CASE Reset
  BY <1>2 DEF Reset
<1>3. CASE PassTurn
  BY <1>3 DEF PassTurn, extraVars
<1>4. CASE EthernetTask /\ ~NothingReceived
  BY <1>4 DEF EthernetTask, RNDIS_RX, CC1101_RX, Receive, ForwardHost, ForwardAir, ProcessSilent,
              ProcessRequest, OperationExtra, ProcessBlink, Blink, Blinked, Answer, Turn, NextTask,
              extraVars
<1>5. CASE ExtrasTask
  BY <1>5 DEF ExtrasTask, NoExtra, SendExtra, StartSpin, ExtraDone, Turn, NextTask, extraVars
<1>6. CASE UNCHANGED vars
  BY <1>6, <1>1 DEF vars, Untouched
<1> QED
  BY <1>1, <1>2, <1>3, <1>4, <1>5, <1>6, EnvironmentAside, SystemPasses
  DEF Next, MainLoop, EthernetTask

(* The pending extra is consumed in the round that raised it.              *)
THEOREM ExtraConsumed == Spec => []PendingExtra
<1>1. Init => PendingInv
  BY DEF Init, PendingInv, PendingExtra
<1>2. TypeOK /\ PendingInv /\ [Next]_vars => PendingInv'
  BY PendingStep
<1>3. PendingInv => PendingExtra
  BY DEF PendingInv
<1> QED
  BY <1>1, <1>2, <1>3, TypeCorrect, PTL DEF Spec

(* A marked reboot or bootloader request is given up by a reset only.      *)
THEOREM MarkedRequestStays == Spec => RequestSticks
<1>1. Init => PendingInv
  BY DEF Init, PendingInv, PendingExtra
<1>2. TypeOK /\ PendingInv /\ [Next]_vars => PendingInv'
  BY PendingStep
<1>3. TypeOK /\ PendingInv /\ [Next]_vars =>
        [(extraflag \in {"REBOOT", "BOOTLOADER"} /\ extraflag' # extraflag) => (pc' = "boot")]_vars
  BY PendingStep
<1> QED
  BY <1>1, <1>2, <1>3, TypeCorrect, PTL DEF Spec, RequestSticks

-----------------------------------------------------------------------------

(* What a frame is owed, seen from the destination interfaces that         *)
(* Ethernet_Task works out.                                                *)
LEMMA OwedByDestination ==
  ASSUME NEW f \in Frame
  PROVE  /\ "host" \in Duty!Owed(f) <=> "RNDIS" \in Destination(f, f.src)
         /\ "air" \in Duty!Owed(f) <=> "CC1101" \in Destination(f, f.src)
         /\ "INTERNAL" \in Destination(f, f.src) <=> f.to \in {"server", "broadcast"}
         /\ "probe" \in Duty!Owed(f) <=> Duty!Answered(f) /\ f.body = "onair"
         /\ "answer" \in Duty!Owed(f) <=> Duty!Answered(f)
         /\ "extra" \in Duty!Owed(f) <=> ~ (Duty!Answered(f) /\ f.body \in {"reboot", "bootloader"})
         /\ Duty!Owed(f) \subseteq {"host", "air", "probe", "answer", "extra"}
         /\ Duty!Owed(f) # {}
         /\ f.src \in {"RNDIS", "CC1101"} /\ f.to \in Destinations /\ f.body \in Bodies
BY DEF Duty!Owed, Duty!Owes, Duty!Answered, Duty!Steps, Destination, Frame, Destinations

(* Module Bridge speaks of the same duties.                                *)
LEMMA SameDuties ==
  /\ \A f \in Frame : Promise!Owed(f) = Duty!Owed(f)
  /\ Promise!Steps = {"host", "air", "probe", "answer", "extra"}
  /\ Promise!After("host") = {"air", "probe", "answer", "extra"}
  /\ Promise!After("air") = {"probe", "answer", "extra"}
  /\ Promise!After("probe") = {"answer", "extra"}
  /\ Promise!After("answer") = {"extra"}
  /\ Promise!After("extra") = {}
<1>1. \A f \in Frame : Promise!Owed(f) = Duty!Owed(f)
  BY DEF Promise!Owed, Duty!Owed, Promise!Owes, Duty!Owes, Promise!Answered, Duty!Answered,
         Promise!Steps, Duty!Steps
<1> QED
  BY <1>1 DEF Promise!Steps, Promise!After, Promise!Rank

-----------------------------------------------------------------------------
(* Service is inductive next to TypeOK and PendingInv.  The banks: a frame *)
(* that arrives has a new number, one that is taken has left its bank.     *)

(* Banked is kept by every step.                                           *)
LEMMA BankedStep ==
  ASSUME TypeOK, Banked, [Next]_vars
  PROVE  Banked'
<1> USE ConstantsAssumption, NoFrameAssumption
    DEF Banked, Waiting, TypeOK, bankVars, usbVars, frameVars, extraVars, timeVars, bootVars, txVars
<1>1. CASE HostSend
  BY <1>1 DEF HostSend, MakeFrame, Frame
<1>2. CASE AirSend
  BY <1>2 DEF AirSend, MakeFrame, Frame
<1>3. CASE RNDIS_RX
  BY <1>3 DEF RNDIS_RX, Receive, CanReceive, Frame
<1>4. CASE CC1101_RX
  BY <1>4 DEF CC1101_RX, Receive, Frame
<1>5. CASE Reset
  BY <1>5 DEF Reset
<1>6. CASE BusReset \/ SetConfiguration
  BY <1>6 DEF BusReset, SetConfiguration
<1>7. CASE UNCHANGED <<bankVars, taken>>
  BY <1>7
<1>8. CASE UNCHANGED vars
  BY <1>8 DEF vars
<1>9. Environment => HostSend \/ AirSend \/ BusReset \/ Reset \/ UNCHANGED <<bankVars, taken>>
  BY DEF Environment, HostRead, UsbConnect, UsbDisconnect, PowerCycle
<1>10. MainLoop => RNDIS_RX \/ CC1101_RX \/ SetConfiguration \/ UNCHANGED <<bankVars, taken>>
  BY DEF MainLoop, Boot, SkipTask, WatchdogTask, UsbTask, UsbTaskIdle, EncapsulatedCommand,
         EncapsulatedResponseRead, AbandonedTransfer, NotificationTask, EthernetTask,
         NothingReceived, ForwardHost, ForwardAir, ProcessSilent, ProcessRequest, ProcessBlink,
         Blink, Blinked, Answer, ExtrasTask, NoExtra, SendExtra, StartSpin
<1>11. Next => \/ HostSend \/ AirSend \/ BusReset \/ Reset
               \/ RNDIS_RX \/ CC1101_RX \/ SetConfiguration \/ UNCHANGED <<bankVars, taken>>
  BY <1>9, <1>10 DEF Next, ResumedTransfer, LeaveBootloader, Tick, WatchdogReset
<1> QED
  BY <1>1, <1>2, <1>3, <1>4, <1>5, <1>6, <1>7, <1>8, <1>11

(* Where the frame in service stands.                                      *)
LEMMA AtPointStep ==
  ASSUME TypeOK, PendingInv, AtPoint, Banked, [Next]_vars
  PROVE  AtPoint'
<1> USE DEF AtPoint, Banked, frameVars, extraVars
<1>1. CASE Untouched
  BY <1>1 DEF Untouched, InService, Noticed, ExtraOfBody, Body
<1>2. CASE Reset
  BY <1>2 DEF Reset
<1>3. CASE PassTurn
  BY <1>3 DEF PassTurn, PendingInv, PendingExtra, InService, Noticed, ExtraOfBody, Body
<1>4. CASE RNDIS_RX
  <2>1. outBank \in Frame /\ outBank.src = "RNDIS"
    BY <1>4, NoFrameAssumption DEF RNDIS_RX, CanReceive, TypeOK, Waiting
  <2> QED
    BY <1>4, <2>1 DEF RNDIS_RX, Receive, InService, Buffer
<1>5. CASE CC1101_RX
  <2>1. airBank \in Frame /\ airBank.src = "CC1101"
    BY <1>5, NoFrameAssumption DEF CC1101_RX, TypeOK, Waiting
  <2> QED
    BY <1>5, <2>1 DEF CC1101_RX, Receive, InService, Buffer
<1>6. CASE ForwardHost
  BY <1>6 DEF ForwardHost, InService
<1>7. CASE ForwardAir
  <2>1. frame.frame \in Frame
    BY <1>7 DEF ForwardAir, InService
  <2>2. "INTERNAL" \in ifDst <=> frame.frame.to \in {"server", "broadcast"}
    BY <1>7, <2>1, OwedByDestination DEF ForwardAir, InService
  <2> QED
    BY <1>7, <2>1, <2>2 DEF ForwardAir, InService, Noticed, NextTask, Duty!Answered
<1>8. CASE ProcessSilent
  BY <1>8 DEF ProcessSilent, InService, Noticed, NextTask, Body, Duty!Answered
<1>9. CASE ProcessRequest
  <2>1. /\ frame.frame \in Frame /\ frame' = Buffer("answer", frame.frame)
        /\ ifSrc' = ifSrc /\ ifSrc = frame.frame.src /\ pc' = "answer"
    BY <1>9 DEF ProcessRequest, InService, BuildAnswer
  <2>2. frame'.frame = frame.frame
    BY <2>1 DEF Buffer
  <2>3. Duty!Answered(frame.frame)
    BY <1>9, <2>1, OwedByDestination DEF ProcessRequest, Body, Duty!Answered, InService
  <2>4. ExtraOfBody'
    BY <1>9, <2>2 DEF ProcessRequest, OperationExtra, ExtraOfBody, Body, Noticed
  <2> QED
    BY <2>1, <2>2, <2>3, <2>4 DEF InService
<1>10. CASE ProcessBlink
  BY <1>10 DEF ProcessBlink, InService, Noticed, Body
<1>11. CASE Blink
  BY <1>11 DEF Blink, InService, Noticed, Body
<1>12. CASE Blinked
  <2>1. /\ frame.frame \in Frame /\ frame' = Buffer("answer", frame.frame)
        /\ ifSrc' = ifSrc /\ ifSrc = frame.frame.src /\ pc' = "answer" /\ Body = "blink"
    BY <1>12 DEF Blinked, InService, BuildAnswer
  <2>2. frame'.frame = frame.frame
    BY <2>1 DEF Buffer
  <2>3. Duty!Answered(frame.frame)
    BY <1>12, <2>1, OwedByDestination DEF Blinked, Body, Duty!Answered, InService
  <2>4. ExtraOfBody'
    BY <1>12, <2>1, <2>2 DEF Blinked, ExtraOfBody, Body, Noticed
  <2> QED
    BY <2>1, <2>2, <2>3, <2>4 DEF InService
<1>13. CASE Answer
  BY <1>13 DEF Answer, InService, ExtraOfBody, Noticed, Body, NextTask
<1>14. CASE ExtrasTask
  BY <1>14 DEF ExtrasTask, NoExtra, SendExtra, StartSpin, ExtraDone, NextTask
<1>15. CASE UNCHANGED vars
  BY <1>15, <1>1 DEF vars, Untouched
<1> QED
  BY <1>1, <1>2, <1>3, <1>4, <1>5, <1>6, <1>7, <1>8, <1>9, <1>10, <1>11, <1>12, <1>13, <1>14, <1>15,
     EnvironmentAside, SystemPasses
  DEF Next, MainLoop, EthernetTask

(* The buffer, the interfaces and the pending extra belong together.       *)
THEOREM BufferInService == Spec => []Service
<1>1. Init => PendingInv /\ Service
  BY DEF Init, PendingInv, PendingExtra, Service, AtPoint, Banked, Waiting
<1>2. TypeOK /\ PendingInv /\ Service /\ [Next]_vars => PendingInv' /\ Service'
  <2> SUFFICES ASSUME TypeOK, PendingInv, Service, [Next]_vars PROVE PendingInv' /\ Service'
    OBVIOUS
  <2>1. Banked'
    BY BankedStep DEF Service
  <2> QED
    BY <2>1, AtPointStep, PendingStep DEF Service
<1> QED
  BY <1>1, <1>2, TypeCorrect, PTL DEF Spec

-----------------------------------------------------------------------------
(* The bootloader is only entered with the request byte set, the byte only *)
(* set by the extra, and the extra only marked by a frame that asked; a    *)
(* start of the application forgets the frames, the byte and the extra.    *)
Asked == \E f \in recent : f.body = "bootloader" /\ f.to \in {"server", "broadcast"}

BootloaderInv ==
  /\ reqbl \/ extraflag = "BOOTLOADER" \/ pc = "bootloader" => Asked
  /\ pc \in {"forwardHost", "forwardAir", "process", "blink", "answer"} => frame.frame \in recent

(* Who asked once has asked until the application is started.              *)
LEMMA AskedStays == ASSUME Asked, recent \subseteq recent' PROVE Asked'
  BY DEF Asked

(* The steps of main() and of the other tasks do not ask for it.           *)
LEMMA SystemAsks ==
  ASSUME Boot \/ SkipTask \/ WatchdogTask \/ UsbTask \/ NotificationTask \/ ResumedTransfer
           \/ LeaveBootloader \/ NothingReceived
  PROVE  /\ reqbl' => reqbl
         /\ pc' = "bootloader" => reqbl
         /\ recent' = recent \/ (pc = "boot" /\ ~reqbl' /\ pc' = "Watchdog")
<1> USE DEF NextTask, Tasks, bootVars
<1>1. CASE Boot
  BY <1>1 DEF Boot
<1>2. CASE SkipTask
  BY <1>2 DEF SkipTask
<1>3. CASE WatchdogTask \/ NotificationTask \/ NothingReceived
  BY <1>3 DEF WatchdogTask, NotificationTask, NothingReceived
<1>4. CASE UsbTask
  BY <1>4 DEF UsbTask, UsbTaskIdle, SetConfiguration, EncapsulatedCommand,
              EncapsulatedResponseRead, AbandonedTransfer
<1>5. CASE ResumedTransfer \/ LeaveBootloader
  BY <1>5 DEF ResumedTransfer, LeaveBootloader
<1> QED
  BY <1>1, <1>2, <1>3, <1>4, <1>5

(* What is left of the environment's steps.                                *)
LEMMA EnvironmentAsks ==
  ASSUME Environment \/ Tick \/ WatchdogReset
  PROVE  reqbl' = reqbl /\ recent' = recent
BY DEF Environment, HostSend, AirSend, HostRead, UsbConnect, UsbDisconnect, BusReset,
       PowerCycle, Tick, WatchdogReset, Reset, bootVars

(* BootloaderInv is kept.                                                  *)
LEMMA BootloaderStep ==
  ASSUME TypeOK, PendingInv, Service, BootloaderInv, [Next]_vars
  PROVE  BootloaderInv'
<1> USE DEF BootloaderInv
<1>1. CASE Environment \/ Tick \/ WatchdogReset
  <2>1. reqbl' = reqbl /\ recent' = recent
    BY <1>1, EnvironmentAsks
  <2>2. CASE Untouched
    BY <2>1, <2>2, AskedStays DEF Untouched, frameVars, extraVars
  <2>3. CASE Reset
    BY <2>1, <2>3, AskedStays DEF Reset
  <2> QED
    BY <1>1, <2>2, <2>3, EnvironmentAside
<1>2. CASE Boot \/ SkipTask \/ WatchdogTask \/ UsbTask \/ NotificationTask \/ ResumedTransfer
             \/ LeaveBootloader \/ NothingReceived
  <2>1. PassTurn
    BY <1>2, SystemPasses
  <2>2. (reqbl' => reqbl) /\ (pc' = "bootloader" => reqbl)
    BY <1>2, SystemAsks
  <2>3. recent' = recent \/ (pc = "boot" /\ ~reqbl' /\ pc' = "Watchdog")
    BY <1>2, SystemAsks
  <2>4. CASE recent' = recent
    BY <2>1, <2>2, <2>4, AskedStays DEF PassTurn, frameVars, extraVars
  <2>5. CASE pc = "boot" /\ ~reqbl' /\ pc' = "Watchdog"
    <3>1. extraflag = "NONE" /\ extraflag' = extraflag
      BY <2>1, <2>5 DEF PassTurn, extraVars, PendingInv, PendingExtra
    <3> QED
      BY <2>5, <3>1
  <2> QED
    BY <2>3, <2>4, <2>5
<1>3. CASE RNDIS_RX \/ CC1101_RX
  <2>1. /\ recent' = recent \union {frame'.frame} /\ pc' = "forwardHost"
        /\ UNCHANGED <<reqbl, extraflag>>
    BY <1>3 DEF RNDIS_RX, CC1101_RX, Receive, Buffer, bootVars, extraVars
  <2> QED
    BY <2>1, AskedStays
<1>4. CASE ForwardHost \/ ForwardAir \/ ProcessSilent \/ ProcessBlink \/ Blink \/ Blinked \/ Answer
  <2>1. /\ UNCHANGED <<recent, reqbl>> /\ frame'.frame = frame.frame
        /\ extraflag' \in {extraflag, "PACKET"}
        /\ pc \in {"forwardHost", "forwardAir", "process", "blink", "answer"}
        /\ pc' # "bootloader"
    BY <1>4 DEF ForwardHost, ForwardAir, ProcessSilent, ProcessBlink, Blink, Blinked, Answer,
                BuildAnswer, Buffer, NextTask, frameVars, extraVars, bootVars
  <2> QED
    BY <2>1, AskedStays
<1>5. CASE ProcessRequest
  <2>1. /\ UNCHANGED <<recent, reqbl>> /\ frame'.frame = frame.frame
        /\ pc = "process" /\ pc' = "answer"
    BY <1>5 DEF ProcessRequest, BuildAnswer, Buffer, bootVars
  <2>2. extraflag' = "BOOTLOADER" => extraflag = "BOOTLOADER" \/ frame.frame.body = "bootloader"
    BY <1>5 DEF ProcessRequest, OperationExtra, Body, extraVars
  <2>3. frame.frame \in Frame /\ frame.frame.to \in {"server", "broadcast"}
    <3>1. frame.frame \in Frame /\ "INTERNAL" \in Destination(frame.frame, frame.frame.src)
      BY <2>1 DEF Service, AtPoint, InService
    <3> QED
      BY <3>1, OwedByDestination
  <2>4. extraflag' = "BOOTLOADER" => Asked
    BY <2>1, <2>2, <2>3 DEF Asked
  <2> QED
    BY <2>1, <2>4, AskedStays
<1>6. CASE ExtrasTask
  <2>1. /\ UNCHANGED recent /\ pc' \in {"Watchdog", "spin"}
        /\ extraflag' = "BOOTLOADER" => extraflag = "BOOTLOADER"
    BY <1>6 DEF ExtrasTask, NoExtra, SendExtra, StartSpin, ExtraDone, NextTask, bootVars, extraVars
  <2>2. reqbl' = reqbl \/ reqbl' = (extraflag = "BOOTLOADER")
    BY <1>6, Zenon DEF ExtrasTask, NoExtra, SendExtra, StartSpin, bootVars
  <2>3. reqbl' => reqbl \/ extraflag = "BOOTLOADER"
    BY <2>2, Zenon
  <2> QED
    BY <2>1, <2>3, AskedStays
<1>7. CASE UNCHANGED vars
  BY <1>7, AskedStays DEF vars, frameVars, extraVars, bootVars
<1> QED
  BY <1>1, <1>2, <1>3, <1>4, <1>5, <1>6, <1>7 DEF Next, MainLoop, EthernetTask

(* The bootloader is entered only if a frame asked CULServer for it since  *)
(* the application was last started.                                       *)
THEOREM BootloaderOnRequest == Spec => []BootloaderRequested
<1>1. Init => PendingInv /\ BootloaderInv
  BY DEF Init, PendingInv, PendingExtra, BootloaderInv
<1>2. TypeOK /\ PendingInv /\ [Next]_vars => PendingInv'
  BY PendingStep
<1>3. TypeOK /\ PendingInv /\ Service /\ BootloaderInv /\ [Next]_vars => BootloaderInv'
  BY BootloaderStep
<1>4. BootloaderInv => BootloaderRequested
  BY DEF BootloaderInv, BootloaderRequested, Asked
<1> QED
  BY <1>1, <1>2, <1>3, <1>4, TypeCorrect, BufferInService, PTL DEF Spec

-----------------------------------------------------------------------------
(* The steps of the hub are steps of Bridge.                               *)

Simulated == Promise!Next \/ UNCHANGED <<CurNow, OwedNow, taken, log>>

(* What a point of the round still owes, without the frame's expression.   *)
LEMMA OwedAt ==
  /\ pc = "forwardHost" => OwedNow = Duty!Owed(frame.frame)
  /\ pc = "forwardAir" => OwedNow = Duty!Owed(frame.frame) \ {"host"}
  /\ pc \in {"process", "blink"} => OwedNow = Duty!Owed(frame.frame) \ {"host", "air"}
  /\ pc = "answer" => OwedNow = Duty!Owed(frame.frame) \intersect {"answer", "extra"}
  /\ pc \in {"Timer", "Extras"} =>
       OwedNow = IF extraflag \in {"PACKET", "TEST"} THEN {"extra"} ELSE {}
  /\ pc \notin {"forwardHost", "forwardAir", "process", "blink", "answer", "Timer", "Extras"} =>
       OwedNow = {}
  /\ CurNow = IF OwedNow = {} THEN NoFrame ELSE frame.frame
BY DEF OwedNow, CurNow

(* The same of the next state.                                             *)
LEMMA OwedNext ==
  /\ pc' = "forwardHost" => OwedNow' = Duty!Owed(frame'.frame)
  /\ pc' = "forwardAir" => OwedNow' = Duty!Owed(frame'.frame) \ {"host"}
  /\ pc' \in {"process", "blink"} => OwedNow' = Duty!Owed(frame'.frame) \ {"host", "air"}
  /\ pc' = "answer" => OwedNow' = Duty!Owed(frame'.frame) \intersect {"answer", "extra"}
  /\ pc' \in {"Timer", "Extras"} =>
       OwedNow' = IF extraflag' \in {"PACKET", "TEST"} THEN {"extra"} ELSE {}
  /\ pc' \notin {"forwardHost", "forwardAir", "process", "blink", "answer", "Timer", "Extras"} =>
       OwedNow' = {}
  /\ CurNow' = IF OwedNow' = {} THEN NoFrame ELSE frame'.frame
BY DEF OwedNow, CurNow, Duty!Owed, Duty!Owes, Duty!Answered

(* A transmission that Bridge allows, a loss and a stutter.                *)
LEMMA EmitSimulated ==
  ASSUME NEW s \in Promise!Steps, s \in OwedNow, NEW whole \in BOOLEAN,
         log' = Append(log, [to |-> Promise!Target(CurNow, s),
                             packet |-> Promise!Content(CurNow, s), whole |-> whole]),
         OwedNow' = OwedNow \intersect Promise!After(s),
         frame'.frame = frame.frame \/ OwedNow' = {},
         taken' = taken
  PROVE  Simulated
<1>1. Promise!Owe(OwedNow \intersect Promise!After(s))
  BY OwedAt, OwedNext DEF Promise!Owe
<1>2. Promise!Emit(s, whole)
  BY <1>1 DEF Promise!Emit
<1> QED
  BY <1>2 DEF Simulated, Promise!Next

(* Duties given up: Lose(S), or nothing at all when S is what there was.   *)
LEMMA LoseSimulated ==
  ASSUME OwedNow' \subseteq OwedNow, OwedNow \subseteq Promise!Steps,
         frame'.frame = frame.frame \/ OwedNow' = {},
         UNCHANGED <<taken, log>>
  PROVE  Simulated
<1>1. Promise!Lose(OwedNow')
  BY OwedAt, OwedNext DEF Promise!Lose, Promise!Owe
<1> QED
  BY <1>1 DEF Simulated, Promise!Next

(* Steps outside the service of a frame: nothing owed changes, or a reset  *)
(* loses all of it.                                                        *)
LEMMA AsideSimulated ==
  ASSUME TypeOK, PendingInv, Service, UNCHANGED <<taken, log>>,
         Untouched \/ Reset \/ PassTurn
  PROVE  Simulated
<1> USE OwedAt, OwedNext DEF frameVars, extraVars
<1>0. OwedNow \subseteq Promise!Steps
  BY SameDuties, OwedByDestination DEF Service, AtPoint, InService
<1>1. CASE Untouched
  BY <1>1 DEF Untouched, Simulated
<1>2. CASE Reset
  <2>1. OwedNow' = {}
    BY <1>2 DEF Reset
  <2> QED
    BY <1>0, <2>1, LoseSimulated
<1>3. CASE PassTurn
  <2>1. OwedNow' = OwedNow
    BY <1>3 DEF PassTurn, PendingInv, PendingExtra
  <2> QED
    BY <1>0, <1>3, <2>1, LoseSimulated DEF PassTurn
<1> QED
  BY <1>1, <1>2, <1>3

(* RX starts the service of a frame that was not taken before.             *)
LEMMA ReceiveSimulated ==
  ASSUME TypeOK, Service, RNDIS_RX \/ CC1101_RX
  PROVE  Simulated
<1>1. PICK f \in Frame : /\ f \notin taken /\ frame' = Buffer("frame", f)
                         /\ taken' = taken \union {f} /\ pc' = "forwardHost"
  BY NoFrameAssumption DEF RNDIS_RX, CC1101_RX, Receive, CanReceive, TypeOK, Service, Banked, Waiting
<1>2. frame'.frame = f
  BY <1>1 DEF Buffer
<1>3. OwedNow = {} /\ UNCHANGED log
  BY OwedAt DEF RNDIS_RX, CC1101_RX, Turn, txVars
<1>4. OwedNow' = Promise!Owed(f) /\ CurNow' = f
  BY <1>1, <1>2, OwedNext, SameDuties, OwedByDestination
<1>5. Promise!Take(f)
  BY <1>1, <1>3, <1>4 DEF Promise!Take
<1> QED
  BY <1>5 DEF Simulated, Promise!Next

(* What RNDIS_TX and CC1101_TX add to the history.                         *)
LEMMA TransmitRecords ==
  ASSUME NEW p
  PROVE  /\ RNDIS_TX(p) => \/ UNCHANGED log
                           \/ \E whole \in BOOLEAN :
                                log' = Append(log, [to |-> "RNDIS", packet |-> p, whole |-> whole])
         /\ CC1101_TX(p) => \E whole \in BOOLEAN :
                              log' = Append(log, [to |-> "CC1101", packet |-> p, whole |-> whole])
BY DEF RNDIS_TX, CC1101_TX, Record, txVars

(* TX(If_Dst) makes the transmissions host and air.                        *)
LEMMA ForwardSimulated ==
  ASSUME TypeOK, Service, ForwardHost \/ ForwardAir
  PROVE  Simulated
<1> DEFINE f == frame.frame
<1>1. /\ f \in Frame /\ frame = Buffer("frame", f) /\ ifSrc = f.src
      /\ ifDst = Destination(f, f.src)
  BY DEF ForwardHost, ForwardAir, Service, AtPoint, InService
<1>2. frame' = frame /\ taken' = taken
  BY DEF ForwardHost, ForwardAir, frameVars
<1>3. OwedNow \subseteq Promise!Steps /\ f \in Frame
  BY <1>1, OwedAt, SameDuties, OwedByDestination DEF ForwardHost, ForwardAir
<1>4. OwedNow # {} => CurNow = f
  BY OwedAt
<1>5. CASE ForwardHost
  <2>1. OwedNow = Duty!Owed(f) /\ OwedNow' = Duty!Owed(f) \ {"host"}
    BY <1>2, <1>5, OwedAt, OwedNext DEF ForwardHost
  <2>2. CASE UNCHANGED log
    BY <1>2, <1>3, <2>1, <2>2, LoseSimulated
  <2>3. CASE log' # log
    <3>1. "RNDIS" \in ifDst /\ RNDIS_TX(frame)
      BY <1>5, <2>3 DEF ForwardHost, txVars
    <3>2. "host" \in OwedNow /\ OwedNow' = OwedNow \intersect Promise!After("host")
      BY <1>1, <2>1, <3>1, OwedByDestination, SameDuties
    <3>3. Promise!Target(CurNow, "host") = "RNDIS" /\ Promise!Content(CurNow, "host") = frame
      BY <1>1, <1>4, <3>2 DEF Promise!Target, Promise!Content, Buffer
    <3> QED
      BY <1>2, <1>3, <2>3, <3>1, <3>2, <3>3, TransmitRecords, EmitSimulated
  <2> QED
    BY <2>2, <2>3
<1>6. CASE ForwardAir
  <2>1. OwedNow = Duty!Owed(f) \ {"host"}
    BY <1>6, OwedAt DEF ForwardAir
  <2>2. OwedNow' = IF "INTERNAL" \in ifDst THEN Duty!Owed(f) \ {"host", "air"} ELSE {"extra"}
    BY <1>2, <1>6, OwedNext DEF ForwardAir, NextTask
  <2>3. OwedNow' = Duty!Owed(f) \ {"host", "air"}
    BY <1>1, <2>2, OwedByDestination DEF Duty!Answered
  <2>4. CASE "CC1101" \notin ifDst
    <3>1. UNCHANGED log
      BY <1>6, <2>4 DEF ForwardAir, txVars
    <3> QED
      BY <1>2, <1>3, <2>1, <2>3, <3>1, LoseSimulated
  <2>5. CASE "CC1101" \in ifDst
    <3>1. CC1101_TX(frame)
      BY <1>6, <2>5 DEF ForwardAir
    <3>2. "air" \in OwedNow /\ OwedNow' = OwedNow \intersect Promise!After("air")
      BY <1>1, <2>1, <2>3, <2>5, OwedByDestination, SameDuties
    <3>3. Promise!Target(CurNow, "air") = "CC1101" /\ Promise!Content(CurNow, "air") = frame
      BY <1>1, <1>4, <3>2 DEF Promise!Target, Promise!Content, Buffer
    <3> QED
      BY <1>2, <1>3, <3>1, <3>2, <3>3, TransmitRecords, EmitSimulated
  <2> QED
    BY <2>4, <2>5
<1> QED
  BY <1>5, <1>6

(* CULServer's operations: a probe at most, the answer is only built.      *)
LEMMA ProcessSimulated ==
  ASSUME TypeOK, Service,
         ProcessSilent \/ ProcessRequest \/ ProcessBlink \/ Blink \/ Blinked
  PROVE  Simulated
<1> DEFINE f == frame.frame
<1>1. /\ f \in Frame /\ frame = Buffer("frame", f) /\ "INTERNAL" \in ifDst /\ Noticed
      /\ ifDst = Destination(f, f.src) /\ pc \in {"process", "blink"}
  BY DEF ProcessSilent, ProcessRequest, ProcessBlink, Blink, Blinked, Service, AtPoint, InService
<1>2. frame'.frame = f /\ taken' = taken
  BY <1>1 DEF ProcessSilent, ProcessRequest, ProcessBlink, Blink, Blinked, BuildAnswer, Buffer,
              frameVars
<1>3. OwedNow = Duty!Owed(f) \ {"host", "air"} /\ OwedNow \subseteq Promise!Steps
  BY <1>1, OwedAt, SameDuties, OwedByDestination
<1>4. OwedNow # {} => CurNow = f
  BY OwedAt
<1>5. f.to \in {"server", "broadcast"}
  BY <1>1, OwedByDestination
<1>6. CASE ProcessSilent
  <2>1. OwedNow' = {"extra"}
    BY <1>1, <1>6, OwedNext DEF ProcessSilent, Noticed, NextTask, extraVars
  <2>2. OwedNow = {"extra"}
    BY <1>1, <1>3, <1>6, OwedByDestination DEF ProcessSilent, Body, Duty!Answered
  <2> QED
    BY <1>2, <1>3, <1>6, <2>1, <2>2, LoseSimulated DEF ProcessSilent, txVars
<1>7. CASE ProcessBlink \/ Blink
  <2>1. OwedNow' = OwedNow
    BY <1>2, <1>3, <1>7, OwedNext DEF ProcessBlink, Blink, Service, AtPoint
  <2> QED
    BY <1>2, <1>3, <1>7, <2>1, LoseSimulated DEF ProcessBlink, Blink, txVars
<1>8. ASSUME ProcessRequest \/ Blinked
      PROVE  /\ OwedNow' = Duty!Owed(f) \intersect {"answer", "extra"}
             /\ Duty!Answered(f)
  <2>1. pc' = "answer"
    BY <1>8 DEF ProcessRequest, Blinked
  <2>2. Duty!Answered(f)
    BY <1>5, <1>8 DEF ProcessRequest, Blinked, Service, AtPoint, Body, Duty!Answered
  <2> QED
    BY <1>2, <2>1, <2>2, OwedNext
<1>9. CASE (ProcessRequest /\ Body # "onair") \/ Blinked
  <2>1. UNCHANGED log
    BY <1>9 DEF ProcessRequest, Blinked, txVars
  <2> QED
    BY <1>2, <1>3, <1>8, <1>9, <2>1, LoseSimulated
<1>10. CASE ProcessRequest /\ Body = "onair"
  <2>1. CC1101_TX(Buffer("probe", f))
    BY <1>10 DEF ProcessRequest
  <2>2. "probe" \in OwedNow /\ OwedNow' = OwedNow \intersect Promise!After("probe")
    BY <1>1, <1>3, <1>8, <1>10, OwedByDestination, SameDuties DEF Body
  <2>3. /\ Promise!Target(CurNow, "probe") = "CC1101"
        /\ Promise!Content(CurNow, "probe") = Buffer("probe", f)
    BY <1>4, <2>2 DEF Promise!Target, Promise!Content, Buffer
  <2> QED
    BY <1>2, <1>3, <2>1, <2>2, <2>3, TransmitRecords, EmitSimulated
<1> QED
  BY <1>6, <1>7, <1>9, <1>10

(* TX(If_Src) makes the transmission answer.                               *)
LEMMA AnswerSimulated ==
  ASSUME TypeOK, Service, Answer
  PROVE  Simulated
<1> DEFINE f == frame.frame
<1>1. /\ f \in Frame /\ frame = Buffer("answer", f) /\ ifSrc = f.src
      /\ Duty!Answered(f) /\ ExtraOfBody
  BY DEF Answer, Service, AtPoint, InService
<1>2. frame' = frame /\ taken' = taken /\ pc' = "Timer" /\ extraflag' = extraflag
  BY DEF Answer, NextTask, extraVars
<1>3. OwedNow = Duty!Owed(f) \intersect {"answer", "extra"}
  BY OwedAt DEF Answer
<1>4. OwedNow' = Duty!Owed(f) \intersect {"extra"}
  <2>1. extraflag \in {"PACKET", "TEST"} <=> f.body \notin {"reboot", "bootloader"}
    BY <1>1 DEF ExtraOfBody, Body, Noticed
  <2> QED
    BY <1>1, <1>2, <2>1, OwedNext, OwedByDestination
<1>5. "answer" \in OwedNow /\ CurNow = f
  BY <1>1, <1>3, OwedAt, OwedByDestination
<1>6. OwedNow \subseteq Promise!Steps /\ OwedNow' = OwedNow \intersect Promise!After("answer")
  BY <1>3, <1>4, SameDuties
<1>7. Promise!Target(CurNow, "answer") = f.src /\ Promise!Content(CurNow, "answer") = frame
  BY <1>1, <1>5 DEF Promise!Target, Promise!Content, Buffer
<1>8. \/ UNCHANGED log
      \/ \E whole \in BOOLEAN :
           log' = Append(log, [to |-> f.src, packet |-> frame, whole |-> whole])
  BY <1>1, TransmitRecords, OwedByDestination DEF Answer
<1>9. CASE UNCHANGED log
  BY <1>2, <1>6, <1>9, LoseSimulated
<1>10. CASE log' # log
  BY <1>2, <1>5, <1>6, <1>7, <1>8, <1>10, EmitSimulated, SameDuties
<1> QED
  BY <1>9, <1>10

(* Extras_Task makes the transmission extra.                               *)
LEMMA ExtrasSimulated ==
  ASSUME TypeOK, PendingInv, Service, ExtrasTask
  PROVE  Simulated
<1> DEFINE f == frame.frame
<1>1. pc = "Extras" /\ taken' = taken
  BY DEF ExtrasTask, NoExtra, SendExtra, StartSpin, Turn
<1>2. OwedNow' = {} /\ OwedNow \subseteq Promise!Steps
  BY <1>1, OwedAt, OwedNext, SameDuties
  DEF ExtrasTask, NoExtra, SendExtra, StartSpin, ExtraDone, NextTask
<1>3. CASE UNCHANGED log
  BY <1>1, <1>2, <1>3, LoseSimulated
<1>4. CASE log' # log
  <2>1. SendExtra /\ extraflag \in {"PACKET", "TEST"}
    BY <1>4 DEF ExtrasTask, NoExtra, SendExtra, StartSpin, txVars
  <2>2. OwedNow = {"extra"} /\ f \in Frame /\ CurNow = f
    BY <1>1, <2>1, OwedAt DEF Service, AtPoint
  <2>3. OwedNow' = OwedNow \intersect Promise!After("extra") /\ "extra" \in Promise!Steps
    BY <1>2, <2>2, SameDuties
  <2>4. Promise!Target(CurNow, "extra") = "RNDIS"
    BY DEF Promise!Target
  <2>5. Promise!Content(CurNow, "extra") = ExtraPacket
    <3>1. CASE Promise!Answered(f) /\ f.body = "test"
      <4>1. extraflag = "TEST"
        BY <1>1, <2>1, <3>1 DEF Service, AtPoint, ExtraOfBody, Body, Promise!Answered, Duty!Answered
      <4> QED
        BY <2>2, <3>1, <4>1 DEF Promise!Content, ExtraPacket, Buffer
    <3>2. CASE ~ (Promise!Answered(f) /\ f.body = "test")
      <4>1. Noticed
        BY <1>1, <2>1, <3>2 DEF Service, AtPoint, ExtraOfBody, Body, Promise!Answered, Duty!Answered, Noticed
      <4>2. Promise!Destinations(f) = Destination(f, f.src)
        BY <2>2, OwedByDestination DEF Promise!Destinations, Destination, Destinations
      <4> QED
        BY <2>2, <3>2, <4>1, <4>2 DEF Promise!Content, ExtraPacket, Noticed
    <3> QED
      BY <3>1, <3>2
  <2> QED
    BY <1>1, <1>2, <1>4, <2>1, <2>2, <2>3, <2>4, <2>5, TransmitRecords, EmitSimulated DEF SendExtra
<1> QED
  BY <1>3, <1>4

(* Every step of the hub is a step of Bridge or leaves it alone.           *)
LEMMA StepSimulated ==
  ASSUME TypeOK, PendingInv, Service, [Next]_vars
  PROVE  [Promise!Next]_<<CurNow, OwedNow, taken, log>>
<1>1. CASE Environment \/ Tick \/ WatchdogReset
  <2>1. UNCHANGED <<taken, log>>
    BY <1>1 DEF Environment, HostSend, AirSend, HostRead, UsbConnect, UsbDisconnect, BusReset,
                PowerCycle, Tick, WatchdogReset, Reset, txVars
  <2> QED
    BY <1>1, <2>1, EnvironmentAside, AsideSimulated DEF Simulated
<1>2. CASE \/ Boot \/ SkipTask \/ WatchdogTask \/ UsbTask \/ NotificationTask
           \/ ResumedTransfer \/ LeaveBootloader \/ NothingReceived
  <2>1. UNCHANGED <<taken, log>>
    BY <1>2 DEF Boot, SkipTask, WatchdogTask, UsbTask, UsbTaskIdle, SetConfiguration,
                EncapsulatedCommand, EncapsulatedResponseRead, AbandonedTransfer, NotificationTask,
                ResumedTransfer, LeaveBootloader, NothingReceived, txVars
  <2> QED
    BY <1>2, <2>1, SystemPasses, AsideSimulated DEF Simulated
<1>3. CASE RNDIS_RX \/ CC1101_RX
  BY <1>3, ReceiveSimulated DEF Simulated
<1>4. CASE ForwardHost \/ ForwardAir
  BY <1>4, ForwardSimulated DEF Simulated
<1>5. CASE ProcessSilent \/ ProcessRequest \/ ProcessBlink \/ Blink \/ Blinked
  BY <1>5, ProcessSimulated DEF Simulated
<1>6. CASE Answer
  BY <1>6, AnswerSimulated DEF Simulated
<1>7. CASE ExtrasTask
  BY <1>7, ExtrasSimulated DEF Simulated
<1>8. CASE UNCHANGED vars
  <2>1. Untouched /\ UNCHANGED <<taken, log>>
    BY <1>8 DEF vars, Untouched, txVars
  <2> QED
    BY <2>1, AsideSimulated DEF Simulated
<1> QED
  BY <1>1, <1>2, <1>3, <1>4, <1>5, <1>6, <1>7, <1>8 DEF Next, MainLoop, EthernetTask

(* The hub serves each frame as Bridge promises: once, in order, to the    *)
(* right interface and with the right content.                             *)
THEOREM HubImplementsBridge == Spec => PromiseKept
<1>1. Init => Promise!Init
  <2> SUFFICES ASSUME Init PROVE Promise!Init
    OBVIOUS
  <2>1. pc = "boot" /\ taken = {} /\ log = <<>>
    BY DEF Init
  <2> QED
    BY <2>1, OwedAt DEF Promise!Init
<1>2. TypeOK /\ PendingInv /\ Service /\ [Next]_vars
        => [Promise!Next]_<<CurNow, OwedNow, taken, log>>
  BY StepSimulated
<1>3. Init => PendingInv
  BY DEF Init, PendingInv, PendingExtra
<1>4. TypeOK /\ PendingInv /\ [Next]_vars => PendingInv'
  BY PendingStep
<1> QED
  BY <1>1, <1>2, <1>3, <1>4, TypeCorrect, BufferInService, PTL
  DEF Spec, PromiseKept, Promise!Spec, Promise!vars

=============================================================================
