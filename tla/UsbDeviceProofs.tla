-------------------------- MODULE UsbDeviceProofs --------------------------
(***************************************************************************)
(* Proofs about module UsbDevice, for any set of requests and any sizes.   *)
(***************************************************************************)
EXTENDS UsbDevice, TLAPS

(* The lesser of two numbers is one of them.                               *)
LEMMA LeastIs ==
  ASSUME NEW m \in Nat, NEW n \in Nat
  PROVE  Least(m, n) = IF m <= n THEN m ELSE n
<1> DEFINE S == {m, n}
           least == IF m <= n THEN m ELSE n
<1>1. least \in S /\ \A y \in S : least <= y
  OBVIOUS
<1>2. \A x \in S : (\A y \in S : x <= y) => x = least
  OBVIOUS
<1>3. Min(S) \in S /\ \A y \in S : Min(S) <= y
  BY <1>1 DEF Min
<1> QED
  BY <1>2, <1>3 DEF Least

(* What a packet of the control endpoint takes off the bytes that remain.  *)
LEMMA FillIs ==
  ASSUME remaining \in Nat
  PROVE  /\ Fill = IF remaining <= ControlEndpointSize THEN remaining ELSE ControlEndpointSize
         /\ Fill \in Nat /\ remaining - Fill \in Nat
BY LeastIs, SizesAssumption DEF Fill

-----------------------------------------------------------------------------
(* Type correctness.                                                       *)

(* The interrupt handlers keep the type of the USB side.                   *)
LEMMA EventsTyped ==
  ASSUME NEW u \in UsbState
  PROVE  Connect(u) \in UsbState /\ Disconnect(u) \in UsbState
BY DEF Connect, Disconnect, Run, Stop, UsbState, DataTasks

(* The suspend branch of the interrupt keeps the type.                     *)
LEMMA SuspendTyped == ASSUME NEW u \in UsbState PROVE AfterSuspend(u) \in UsbState
<1> DEFINE w == [u EXCEPT !.flags = @ \ {"SUSPEND"},
                          !.enabled = (@ \ {"SUSPEND"}) \union {"WAKEUP"},
                          !.frozen = TRUE, !.suspended = TRUE]
<1>1. w \in UsbState
  BY DEF UsbState, Interrupts
<1>2. Disconnect(w) \in UsbState
  BY <1>1, EventsTyped
<1>3. OnSuspend(u) = w \/ OnSuspend(u) = Disconnect(w)
  BY Zenon DEF OnSuspend
<1> QED
  BY <1>1, <1>2, <1>3, Zenon DEF AfterSuspend

(* So does the wake-up branch, whether the bus was suspended or not.       *)
LEMMA WakeUpTyped == ASSUME NEW u \in UsbState PROVE AfterWakeUp(u) \in UsbState
<1> DEFINE w == [u EXCEPT !.flags = @ \ {"WAKEUP"},
                          !.enabled = (@ \ {"WAKEUP"}) \union {"SUSPEND"},
                          !.frozen = FALSE, !.suspended = FALSE]
<1>1. w \in UsbState
  BY DEF UsbState, Interrupts
<1>2. Connect(w) \in UsbState
  BY <1>1, EventsTyped
<1>3. OnWakeUp(u) = w \/ OnWakeUp(u) = Connect(w)
  BY Zenon DEF OnWakeUp
<1> QED
  BY <1>1, <1>2, <1>3, Zenon DEF AfterWakeUp

(* The whole handler, whose branches run one after the other.              *)
LEMMA InterruptTyped ==
  ASSUME NEW u \in UsbState
  PROVE  AfterReset(AfterWakeUp(AfterSuspend(u))) \in UsbState
<1>1. \A v \in UsbState : AfterReset(v) \in UsbState
  BY DEF AfterReset, OnReset, UsbState, Interrupts, DataEndpoints
<1> QED
  BY <1>1, SuspendTyped, WakeUpTyped

(* The idle device.                                                        *)
LEMMA IdleTyped == ResetInterface \in UsbState /\ IdleControl \in ControlState
BY DEF ResetInterface, UsbState, Interrupts, DataEndpoints, DataTasks, IdleControl, ControlState

(* Giving a transfer up.                                                   *)
LEMMA GiveUpTyped ==
  ASSUME TypeOK, GiveUp
  PROVE  phase' \in Phases /\ want' \in Nat /\ abandoned' \subseteq Nat
BY DEF GiveUp, LeaveTransfer, TypeOK, Phases

(* The host, the wire and the interrupt keep the types.                    *)
LEMMA EnvironmentTyped ==
  ASSUME TypeOK, Host \/ Wire \/ Controller \/ Interrupt \/ WatchdogReset
  PROVE  TypeOK'
<1> USE SizesAssumption, RequestsAssumption
    DEF TypeOK, deviceVars, hostVars
<1>1. CASE HostSetup
  <2>1. PICK r \in Requests : /\ request' = r /\ want' = r.length
                              /\ phase' \in {"statusIn", "dataIn", "dataOut"}
    BY <1>1 DEF HostSetup
  <2>2. ep0' \in ControlState /\ setups' \in Nat
    <3>1. \A c \in ControlState :
            [c EXCEPT !.setup = TRUE, !.inFull = FALSE, !.stalled = FALSE] \in ControlState
      BY DEF ControlState
    <3>2. /\ ep0' = [ep0 EXCEPT !.setup = TRUE, !.inFull = FALSE, !.stalled = FALSE]
          /\ setups' = setups + 1
      BY <1>1, Zenon DEF HostSetup
    <3>3. ep0 \in ControlState /\ setups \in Nat
      OBVIOUS
    <3>4. setups' \in Nat
      BY <3>2, <3>3
    <3> QED
      BY <3>1, <3>2, <3>3, <3>4, Zenon
  <2>3. UNCHANGED <<usb, deviceVars, bus, resets, suspends, abandoned, serving>>
    BY <1>1 DEF HostSetup
  <2>4. request' \in Requests /\ want' \in Nat /\ phase' \in Phases
    BY <2>1 DEF Request, Phases
  <2> QED
    BY <2>2, <2>3, <2>4
<1>2. CASE HostReads
  <2>1. want - Least(want, ep0.inBytes) \in Nat
    BY LeastIs DEF ControlState
  <2> QED
    BY <1>2, <2>1 DEF HostReads, ControlState, Phases
<1>3. CASE HostWrites
  <2>1. Least(want, ControlEndpointSize) \in Nat /\ want - Least(want, ControlEndpointSize) \in Nat
    BY LeastIs
  <2> QED
    BY <1>3, <2>1 DEF HostWrites, ControlState, Phases
<1>4. CASE HostSeesStall
  BY <1>4 DEF HostSeesStall, LeaveTransfer, Phases
<1>5. CASE HostGivesUp
  BY <1>5, GiveUpTyped DEF HostGivesUp
<1>6. CASE BusIdle
  BY <1>6, GiveUpTyped DEF BusIdle
<1>7. CASE BusResume
  BY <1>7 DEF BusResume
<1>8. CASE BusReset
  BY <1>8, GiveUpTyped DEF BusReset, UsbState, Interrupts
<1>9. CASE SuspendFlag
  BY <1>9 DEF SuspendFlag, UsbState, Interrupts
<1>10. CASE WakeUpFlag
  BY <1>10 DEF WakeUpFlag, UsbState, Interrupts
<1>11. CASE Interrupt
  BY <1>11, InterruptTyped, IdleTyped DEF Interrupt
<1>12. CASE WatchdogReset
  BY <1>12, GiveUpTyped, IdleTyped DEF WatchdogReset, Points
<1> QED
  BY <1>1, <1>2, <1>3, <1>4, <1>5, <1>6, <1>7, <1>8, <1>9, <1>10, <1>11, <1>12
  DEF Host, Wire, Controller

(* The USB task keeps the types.                                           *)
LEMMA UsbTaskTyped ==
  ASSUME TypeOK, UsbTask
  PROVE  TypeOK'
<1> USE SizesAssumption, RequestsAssumption DEF TypeOK, hostVars, Rest, Points, Spinning
<1>1. /\ request.kind \in RequestKinds /\ request.value \in Nat /\ request.length \in Nat
      /\ \A n \in Nat : Sent(ep0, n) \in ControlState /\ Sent(Accepted, n) \in ControlState
      /\ Accepted \in ControlState
  BY DEF Request, Sent, Accepted, ControlState
<1>2. CASE StartTask
  BY <1>2 DEF StartTask
<1>3. CASE Poll
  BY <1>3 DEF Poll
<1>4. CASE SetAddress \/ SendAddressStatus \/ TakeAddress
  <2>1. request.value % 256 \in Nat /\ wValue % 128 \in Nat
    <3>1. \A n \in Nat : n % 256 \in Nat /\ n % 128 \in Nat
      OBVIOUS
    <3> QED
      BY <1>1, <3>1
  <2>2. CASE SetAddress
    <3>1. wValue' \in Nat
      BY <2>1, <2>2 DEF SetAddress
    <3> QED
      BY <1>1, <2>2, <3>1 DEF SetAddress
  <2>3. CASE SendAddressStatus
    BY <1>1, <2>3 DEF SendAddressStatus
  <2>4. CASE TakeAddress
    <3>1. address' \in Nat /\ wValue' \in Nat
      BY <2>1, <2>4 DEF TakeAddress
    <3> QED
      BY <2>4, <3>1 DEF TakeAddress
  <2> QED
    BY <1>4, <2>2, <2>3, <2>4
<1>5. CASE SetConfiguration
  BY <1>1, <1>5 DEF SetConfiguration, UsbState
<1>6. CASE ConfigurationChanged
  BY <1>6 DEF ConfigurationChanged, Run, UsbState, DataTasks
<1>7. CASE Answer
  BY <1>1, <1>7 DEF Answer, AnswerBytes
<1>8. CASE StatusOut
  BY <1>8 DEF StatusOut, ControlState
<1>9. CASE ChangeHalt
  BY <1>1, <1>9 DEF ChangeHalt, UsbState, DataEndpoints
<1>10. CASE GetDescriptor
  BY <1>1, <1>10, LeastIs DEF GetDescriptor
<1>11. CASE SendDescriptor
  BY <1>1, <1>11, FillIs DEF SendDescriptor
<1>12. CASE AbortDescriptor
  BY <1>12 DEF AbortDescriptor, ControlState
<1>13. CASE EndDescriptor \/ SendDescriptorZLP
  BY <1>1, <1>13 DEF EndDescriptor, SendDescriptorZLP
<1>14. CASE SendEncapsulated
  BY <1>1, <1>14 DEF SendEncapsulated
<1>15. CASE ReadPacket
  <2>1. remaining - Least(remaining, ep0.outBytes) \in Nat
    BY LeastIs DEF ControlState
  <2> QED
    BY <1>15, <2>1 DEF ReadPacket, ControlState
<1>16. CASE ReadDone \/ ProcessMessage
  BY <1>1, <1>16 DEF ReadDone, ProcessMessage
<1>17. CASE GetEncapsulated
  <2>1. Available \in Nat
    BY DEF Available
  <2> QED
    BY <1>1, <1>17, <2>1, LeastIs DEF GetEncapsulated
<1>18. CASE WriteNext \/ WriteDone \/ WriteZLP
  BY <1>1, <1>18 DEF WriteNext, WriteDone, WriteZLP
<1>19. CASE WritePacket
  BY <1>1, <1>19, FillIs DEF WritePacket
<1>20. CASE WriteAborted \/ WriteEnd
  <2>1. /\ ep0' = [ep0 EXCEPT !.outFull = FALSE] /\ responseLength' = 0 /\ pc' = "finish"
        /\ UNCHANGED <<usb, remaining, zlp, wValue, address, Rest>>
    BY <1>20 DEF WriteAborted, WriteEnd
  <2> QED
    BY <2>1 DEF ControlState
<1>21. CASE Refuse
  BY <1>21 DEF Refuse
<1>22. CASE Finish
  BY <1>22 DEF Finish, ControlState
<1> QED
  BY <1>2, <1>3, <1>4, <1>5, <1>6, <1>7, <1>8, <1>9, <1>10, <1>11, <1>12, <1>13, <1>14, <1>15,
     <1>16, <1>17, <1>18, <1>19, <1>20, <1>21, <1>22
  DEF UsbTask, Handler

(* Every variable keeps its type, for any requests.                        *)
THEOREM TypeCorrect == Spec => []TypeOK
<1>1. Init => TypeOK
  <2> SUFFICES ASSUME Init PROVE TypeOK
    OBVIOUS
  <2>1. request \in Requests
    BY RequestsAssumption DEF Init
  <2> QED
    BY <2>1, IdleTyped DEF Init, TypeOK, Points, Phases
<1>2. TypeOK /\ [Next]_vars => TypeOK'
  <2> SUFFICES ASSUME TypeOK, [Next]_vars PROVE TypeOK'
    OBVIOUS
  <2>1. CASE Next
    BY <2>1, EnvironmentTyped, UsbTaskTyped DEF Next
  <2>2. CASE UNCHANGED vars
    BY <2>2 DEF vars, deviceVars, hostVars, TypeOK
  <2> QED
    BY <2>1, <2>2
<1> QED
  BY <1>1, <1>2, PTL DEF Spec

-----------------------------------------------------------------------------
(* The two invariants of the USB side.                                     *)

(* What both say of the USB side alone.                                    *)
Armed(u) ==
  /\ "EORSTI" \in u.enabled
  /\ {"SUSPEND", "WAKEUP"} \intersect u.enabled # {}
  /\ u.frozen <=> u.suspended
  /\ u.frozen => "WAKEUP" \in u.enabled

Equipped(u) ==
  /\ u.configuration # 0 => DataEndpoints \subseteq u.endpoints
  /\ u.halted \subseteq u.endpoints

(* What the steps between the USB side's changes leave of it: everything   *)
(* but the flags, the data endpoints of a request and the tasks.           *)
LEMMA UsbChanges ==
  ASSUME TypeOK, [Next]_vars
  PROVE  \/ /\ usb'.enabled = usb.enabled /\ usb'.frozen = usb.frozen
            /\ usb'.suspended = usb.suspended /\ usb'.configuration = usb.configuration
            /\ usb'.endpoints = usb.endpoints /\ usb'.halted = usb.halted
            /\ pc = "configured" => pc' = "configured"
         \/ Interrupt \/ WatchdogReset \/ SetConfiguration \/ ConfigurationChanged \/ ChangeHalt
<1> DEFINE Kept == /\ usb'.enabled = usb.enabled /\ usb'.frozen = usb.frozen
                   /\ usb'.suspended = usb.suspended /\ usb'.configuration = usb.configuration
                   /\ usb'.endpoints = usb.endpoints /\ usb'.halted = usb.halted
                   /\ pc = "configured" => pc' = "configured"
<1> USE DEF deviceVars, hostVars
<1>1. CASE Host
  BY <1>1 DEF Host, HostSetup, HostReads, HostWrites, HostSeesStall, HostGivesUp
<1>2. CASE BusIdle \/ BusResume
  BY <1>2 DEF BusIdle, BusResume
<1>3. CASE BusReset \/ Controller
  <2>1. PICK f : usb' = [usb EXCEPT !.flags = f]
    <3>1. CASE BusReset
      BY <3>1, Zenon DEF BusReset
    <3>2. CASE SuspendFlag
      BY <3>2, Zenon DEF SuspendFlag
    <3>3. CASE WakeUpFlag
      BY <3>3, Zenon DEF WakeUpFlag
    <3> QED
      BY <1>3, <3>1, <3>2, <3>3 DEF Controller
  <2>2. UNCHANGED pc
    BY <1>3 DEF BusReset, Controller, SuspendFlag, WakeUpFlag
  <2> QED
    BY <2>1, <2>2 DEF TypeOK, UsbState
<1>4. CASE StartTask \/ Poll \/ (Handler /\ ~SetConfiguration /\ ~ConfigurationChanged /\ ~ChangeHalt)
  <2>1. UNCHANGED usb /\ pc # "configured"
    BY <1>4
    DEF StartTask, Poll, Handler, SetAddress, SendAddressStatus, TakeAddress, Answer, StatusOut,
        GetDescriptor, SendDescriptor, AbortDescriptor, EndDescriptor, SendDescriptorZLP,
        SendEncapsulated, ReadPacket, ReadDone, ProcessMessage, GetEncapsulated, WriteNext,
        WritePacket, WriteAborted, WriteDone, WriteZLP, WriteEnd, Refuse, Finish
  <2> QED
    BY <2>1
<1>5. CASE UNCHANGED vars
  BY <1>5 DEF vars
<1> QED
  BY <1>1, <1>2, <1>3, <1>4, <1>5 DEF Next, Wire, UsbTask, Handler

(* The three handlers of the interrupt keep both.                          *)
LEMMA HandlersKeep ==
  ASSUME NEW u \in UsbState, Armed(u), Equipped(u)
  PROVE  LET v == AfterReset(AfterWakeUp(AfterSuspend(u))) IN Armed(v) /\ Equipped(v)
<1> USE DEF Armed, Equipped, UsbState, Interrupts, Run, Stop
<1>1. ASSUME NEW v \in UsbState, Armed(v), Equipped(v)
      PROVE  Armed(AfterSuspend(v)) /\ Equipped(AfterSuspend(v))
  BY <1>1 DEF AfterSuspend, OnSuspend, Disconnect
<1>2. ASSUME NEW v \in UsbState, Armed(v), Equipped(v)
      PROVE  Armed(AfterWakeUp(v)) /\ Equipped(AfterWakeUp(v))
  BY <1>2 DEF AfterWakeUp, OnWakeUp, Connect
<1>3. ASSUME NEW v \in UsbState, Armed(v), Equipped(v)
      PROVE  Armed(AfterReset(v)) /\ Equipped(AfterReset(v))
  BY <1>3 DEF AfterReset, OnReset
<1> QED
  BY <1>1, <1>2, <1>3, SuspendTyped, WakeUpTyped

UsbInv ==
  /\ Armed(usb)
  /\ usb.halted \subseteq usb.endpoints
  /\ pc # "configured" => Equipped(usb)

(* Both are kept.                                                          *)
LEMMA UsbInvStep ==
  ASSUME TypeOK, UsbInv, [Next]_vars
  PROVE  UsbInv'
<1> USE DEF UsbInv
<1>1. CASE /\ usb'.enabled = usb.enabled /\ usb'.frozen = usb.frozen
           /\ usb'.suspended = usb.suspended /\ usb'.configuration = usb.configuration
           /\ usb'.endpoints = usb.endpoints /\ usb'.halted = usb.halted
           /\ pc = "configured" => pc' = "configured"
  BY <1>1 DEF Armed, Equipped
<1>2. CASE Interrupt
  <2>1. /\ usb \in UsbState /\ pc # "configured"
        /\ usb' = AfterReset(AfterWakeUp(AfterSuspend(usb)))
    BY <1>2 DEF Interrupt, TypeOK
  <2>2. Armed(usb') /\ Equipped(usb')
    BY <2>1, HandlersKeep
  <2> QED
    BY <2>2 DEF Equipped
<1>3. CASE WatchdogReset
  BY <1>3 DEF WatchdogReset, ResetInterface, Armed, Equipped
<1>4. CASE SetConfiguration
  BY <1>4 DEF SetConfiguration, Armed, Equipped, TypeOK, UsbState
<1>5. CASE ConfigurationChanged
  BY <1>5 DEF ConfigurationChanged, Run, Armed, Equipped, TypeOK, UsbState
<1>6. CASE ChangeHalt
  BY <1>6 DEF ChangeHalt, Armed, Equipped, TypeOK, UsbState
<1> QED
  BY <1>1, <1>2, <1>3, <1>4, <1>5, <1>6, UsbChanges

(* The invariant of the USB side holds always: no action but the           *)
(* interrupt, the reset of the interface and the requests that configure   *)
(* touches it.                                                             *)
LEMMA UsbInvHolds == Spec => []UsbInv
<1>1. Init => UsbInv
  BY DEF Init, ResetInterface, UsbInv, Armed, Equipped
<1>2. TypeOK /\ UsbInv /\ [Next]_vars => UsbInv'
  BY UsbInvStep
<1> QED
  BY <1>1, <1>2, TypeCorrect, PTL DEF Spec

(* A device that reports a configuration has its data endpoints.           *)
THEOREM ConfiguredHasEndpoints == Spec => []ConfigurationHasEndpoints
<1>1. UsbInv => ConfigurationHasEndpoints
  BY DEF UsbInv, Equipped, ConfigurationHasEndpoints
<1> QED
  BY <1>1, UsbInvHolds, PTL

(* The interrupt that ends each state of the bus stays armed.              *)
THEOREM InterruptsStayArmed == Spec => []InterruptArmed
<1>1. UsbInv => InterruptArmed
  BY DEF UsbInv, Armed, InterruptArmed
<1> QED
  BY <1>1, UsbInvHolds, PTL

-----------------------------------------------------------------------------
(* Device and host never wait for each other.  The invariant follows both  *)
(* sides through the stages of a transfer: what the device has still to    *)
(* send or to read is within what the host still wants or has, and at its  *)
(* end one of them has the packet the other waits for.                     *)

(* What a host sends with wLength: a data stage for a request that has     *)
(* one, and the lengths that the standard prescribes.                      *)
WellFormed(r) ==
  /\ r.kind = "SetAddress" => r.length = 0
  /\ r.kind = "GetStatus" => r.length = 2
  /\ r.kind = "GetConfiguration" => r.length = 1
  /\ r.kind \in {"GetDescriptor", "GetEncapsulated"} => r.length > 0

(* The stage in which the host starts the transfer of a request.           *)
FirstStage(r) ==
  IF r.length = 0 THEN "statusIn" ELSE IF r.kind \in ToHost THEN "dataIn" ELSE "dataOut"

(* The SETUP packet has not been looked at.                                *)
Fresh ==
  ~ep0.inFull /\ phase = FirstStage(request) /\ want = request.length /\ request \in Requests

(* The host is still in the transfer that is being processed.              *)
Current == serving = setups

(* The host is in the status stage or gets there with what is in the bank. *)
StatusComes ==
  \/ ep0.outFull
  \/ Current /\ phase = "statusOut"
  \/ /\ Current /\ phase = "dataIn" /\ ep0.inFull
     /\ ep0.inBytes < ControlEndpointSize \/ want <= ep0.inBytes

(* After a full last packet the host may be waiting for an empty one.      *)
EmptyPacketDue ==
  \/ ep0.outFull
  \/ Current /\ phase = "statusOut"
  \/ /\ Current /\ phase = "dataIn"
     /\ IF ep0.inFull THEN ep0.inBytes = ControlEndpointSize ELSE want > 0

(* There is data to send, and the host wants that much.                    *)
DataDue ==
  /\ Current /\ phase = "dataIn"
  /\ IF ep0.inFull THEN ep0.inBytes = ControlEndpointSize /\ want >= remaining + ep0.inBytes
                   ELSE want >= remaining

(* There is data to receive, and the host has that much.                   *)
DataComing ==
  /\ IF ep0.outFull THEN remaining <= want + ep0.outBytes ELSE remaining <= want
  /\ IF phase = "dataOut" THEN want > 0 ELSE want = 0

Addressing ==
  /\ pc = "addressIn" => ~ep0.inFull /\ Current /\ phase = "statusIn"
  /\ pc = "addressDone" /\ ep0.inFull => Current /\ phase = "statusIn"

Sending ==
  /\ pc \in {"descriptor", "descriptorZLP", "write", "writeIn", "writeZLP"} /\ ep0.inFull =>
       Current /\ phase = "dataIn"
  /\ pc = "writeIn" => remaining > 0
  /\ pc \in {"descriptor", "write", "writeIn"} /\ remaining > 0 => DataDue
  /\ pc \in {"descriptor", "write"} /\ remaining = 0 /\ zlp => EmptyPacketDue
  /\ pc \in {"descriptorZLP", "writeZLP"} => EmptyPacketDue
  /\ pc \in {"descriptor", "write"} /\ remaining = 0 /\ ~zlp => StatusComes
  /\ pc \in {"statusOut", "writeEnd"} => StatusComes

Receiving ==
  /\ pc \in {"readOut", "readEnd"} => ~ep0.inFull /\ Current /\ phase \in {"dataOut", "statusIn"}
  /\ pc = "readOut" /\ remaining > 0 => DataComing

(* Host and device in step, in a transfer the host has not given up.       *)
InStep ==
  /\ serving <= setups
  /\ pc = "dispatch" => Current /\ Fresh /\ ep0.setup
  /\ pc \notin {"dispatch", "finish"} /\ Current => ~ep0.setup
  /\ Addressing /\ Sending /\ Receiving

InHandler == pc \notin {"main", "polled"}

TransferInv ==
  /\ phase # "none" => bus = "active"
  /\ ep0.stalled => ~ep0.setup /\ ~InHandler
  /\ ~InHandler /\ ep0.setup /\ setups \notin abandoned => Fresh
  /\ InHandler /\ serving \notin abandoned => InStep

(* The stages of a request that has one or none.                           *)
LEMMA Stages ==
  ASSUME NEW r \in Requests
  PROVE  /\ r.length \in Nat /\ r.value \in Nat
         /\ FirstStage(r) \in {"statusIn", "dataIn", "dataOut"}
BY RequestsAssumption DEF FirstStage, Request

(* The host's steps keep host and device in step.                          *)
LEMMA HostSetupStep == ASSUME TypeOK, TransferInv, HostSetup PROVE TransferInv'
<1>1. PICK r \in Requests : request' = r /\ want' = r.length /\ phase' = FirstStage(r)
  BY DEF HostSetup, FirstStage
<1>2. /\ ep0'.setup = TRUE /\ ep0'.inFull = FALSE /\ ep0'.stalled = FALSE
      /\ ep0'.outFull = ep0.outFull /\ ep0'.inBytes = ep0.inBytes /\ ep0'.outBytes = ep0.outBytes
  BY DEF HostSetup, TypeOK, ControlState
<1>3. /\ phase = "none" /\ bus' = "active" /\ setups' = setups + 1
      /\ UNCHANGED <<pc, remaining, zlp, abandoned, serving>>
  BY DEF HostSetup, deviceVars
<1>4. Fresh'
  BY <1>1, <1>2 DEF Fresh
<1>5. InHandler /\ serving \notin abandoned => InStep'
  <2> SUFFICES ASSUME InHandler, serving \notin abandoned PROVE InStep'
    OBVIOUS
  <2>1. InStep
    BY DEF TransferInv
  <2>2. serving <= setups' /\ ~Current'
    BY <1>3, <2>1 DEF InStep, Current, TypeOK
  <2>3. pc \notin {"dispatch", "addressIn", "readOut", "readEnd"}
    BY <1>3, <2>1, Stages DEF InStep, Fresh, Addressing, Receiving, FirstStage
  <2>4. Addressing' /\ Receiving'
    BY <1>2, <1>3, <2>3 DEF Addressing, Receiving
  <2>5. Sending'
    BY <1>2, <1>3, <2>1 DEF InStep, Sending, DataDue, EmptyPacketDue, StatusComes
  <2> QED
    BY <1>3, <2>2, <2>3, <2>4, <2>5 DEF InStep
<1> QED
  BY <1>2, <1>3, <1>4, <1>5 DEF TransferInv, InHandler

(* The host takes a packet: it is the last one when the device is done     *)
(* sending.                                                                *)
LEMMA HostReadsStep == ASSUME TypeOK, TransferInv, HostReads PROVE TransferInv'
<1> DEFINE taken == Least(want, ep0.inBytes)
<1>1. /\ ep0'.inFull = FALSE /\ ep0'.setup = FALSE /\ ep0'.stalled = FALSE /\ ep0.inFull
      /\ ~ep0.setup /\ ep0'.outFull = ep0.outFull /\ ep0'.inBytes = ep0.inBytes
      /\ ep0'.outBytes = ep0.outBytes
  BY DEF HostReads, TypeOK, ControlState
<1>2. taken = IF want <= ep0.inBytes THEN want ELSE ep0.inBytes
  BY LeastIs DEF TypeOK, ControlState
<1>3. /\ want' = want - taken /\ want \in Nat /\ ep0.inBytes \in Nat /\ remaining \in Nat
      /\ ControlEndpointSize \in Nat \ {0}
      /\ phase \in {"dataIn", "statusIn"}
      /\ phase' = IF phase = "statusIn" THEN "none"
                  ELSE IF ep0.inBytes < ControlEndpointSize \/ want' = 0 THEN "statusOut"
                  ELSE "dataIn"
      /\ bus' = "active"
      /\ UNCHANGED <<pc, remaining, zlp, abandoned, serving, setups, request>>
  BY SizesAssumption DEF HostReads, deviceVars, TypeOK, ControlState
<1>4. InHandler /\ serving \notin abandoned => InStep'
  <2> SUFFICES ASSUME InHandler, serving \notin abandoned PROVE InStep'
    OBVIOUS
  <2>1. InStep
    BY DEF TransferInv
  <2>2. pc \notin {"dispatch", "readOut", "readEnd", "addressIn"} /\ (Current' <=> Current)
    BY <1>1, <1>3, <2>1 DEF InStep, Fresh, Addressing, Receiving, Current
  <2>3. Addressing' /\ Receiving'
    BY <1>1, <1>3, <2>2 DEF Addressing, Receiving
  <2>4. Sending'
    <3> USE <1>1, <1>2, <1>3, <2>1, <2>2 DEF InStep, Sending, Current
    <3>1. pc \in {"descriptor", "write", "writeIn"} /\ remaining > 0 => DataDue'
      BY DEF DataDue
    <3>2. \/ pc \in {"descriptor", "write"} /\ remaining = 0 /\ zlp
          \/ pc \in {"descriptorZLP", "writeZLP"}
          => EmptyPacketDue'
      BY DEF EmptyPacketDue
    <3>3. \/ pc \in {"descriptor", "write"} /\ remaining = 0 /\ ~zlp
          \/ pc \in {"statusOut", "writeEnd"}
          => StatusComes'
      BY DEF StatusComes
    <3> QED
      BY <3>1, <3>2, <3>3
  <2> QED
    BY <1>1, <1>3, <2>1, <2>2, <2>3, <2>4 DEF InStep
<1> QED
  BY <1>1, <1>3, <1>4 DEF TransferInv, InHandler

(* The host writes a packet: the device has not yet read all it expects.   *)
LEMMA HostWritesStep == ASSUME TypeOK, TransferInv, HostWrites PROVE TransferInv'
<1> DEFINE given == Least(want, ControlEndpointSize)
<1>1. /\ ep0'.outFull = TRUE /\ ep0'.setup = FALSE /\ ep0'.stalled = FALSE /\ ~ep0.outFull
      /\ ~ep0.setup /\ ep0'.inFull = ep0.inFull /\ ep0'.inBytes = ep0.inBytes
      /\ phase = "dataOut" => ep0'.outBytes = given
  BY DEF HostWrites, TypeOK, ControlState
<1>2. given = IF want <= ControlEndpointSize THEN want ELSE ControlEndpointSize
  BY LeastIs, SizesAssumption DEF TypeOK
<1>3. /\ want' = IF phase = "dataOut" THEN want - given ELSE 0
      /\ want \in Nat /\ remaining \in Nat /\ ControlEndpointSize \in Nat \ {0}
      /\ phase \in {"dataOut", "statusOut"}
      /\ phase' = IF phase = "statusOut" THEN "none"
                  ELSE IF want' = 0 THEN "statusIn" ELSE "dataOut"
      /\ bus' = "active"
      /\ UNCHANGED <<pc, remaining, zlp, abandoned, serving, setups, request>>
  BY SizesAssumption DEF HostWrites, deviceVars, TypeOK
<1>4. InHandler /\ serving \notin abandoned => InStep'
  <2> SUFFICES ASSUME InHandler, serving \notin abandoned PROVE InStep'
    OBVIOUS
  <2>1. InStep
    BY DEF TransferInv
  <2>2. pc \notin {"dispatch", "addressIn"} /\ (Current' <=> Current)
    BY <1>1, <1>3, <2>1 DEF InStep, Addressing, Current
  <2>3. Addressing'
    BY <1>1, <1>3, <2>1 DEF InStep, Addressing
  <2>4. Sending'
    BY <1>1, <1>3, <2>1 DEF InStep, Sending, DataDue, EmptyPacketDue, StatusComes
  <2>5. Receiving'
    <3>1. pc \in {"readOut", "readEnd"} =>
            ~ep0'.inFull /\ Current' /\ phase' \in {"dataOut", "statusIn"}
      BY <1>1, <1>3, <2>1, <2>2 DEF InStep, Receiving
    <3>2. pc = "readOut" /\ remaining > 0 => DataComing'
      BY <1>1, <1>2, <1>3, <2>1 DEF InStep, Receiving, DataComing
    <3> QED
      BY <1>3, <3>1, <3>2 DEF Receiving
  <2> QED
    BY <1>1, <1>3, <2>1, <2>2, <2>3, <2>4, <2>5 DEF InStep
<1> QED
  BY <1>1, <1>3, <1>4 DEF TransferInv, InHandler

(* Giving a transfer up leaves host and device in step in an earlier one.  *)
LEMMA GiveUpStep ==
  ASSUME TypeOK, TransferInv, GiveUp,
         UNCHANGED <<ep0, request, pc, remaining, zlp, setups, serving>>
  PROVE  TransferInv'
<1>1. /\ phase' = "none" /\ want' = 0
      /\ abandoned \subseteq abandoned'
      /\ phase # "none" => setups \in abandoned'
  BY DEF GiveUp, LeaveTransfer
<1>2. \A r \in Requests : FirstStage(r) # "none"
  BY DEF FirstStage
<1>3. phase = "none" => ~Fresh
  BY <1>2 DEF Fresh
<1>4. InHandler /\ serving \notin abandoned' => InStep'
  <2> SUFFICES ASSUME InHandler, serving \notin abandoned' PROVE InStep'
    OBVIOUS
  <2>1. InStep /\ (phase = "none" \/ ~Current)
    BY <1>1 DEF TransferInv, Current
  <2> QED
    BY <1>1, <1>3, <2>1
    DEF InStep, Current, Addressing, Sending, Receiving, DataDue, StatusComes, EmptyPacketDue
<1> QED
  BY <1>1, <1>3, <1>4 DEF TransferInv, InHandler

(* The rest of the host, the wire and the controller.                      *)
LEMMA WireStep ==
  ASSUME TypeOK, TransferInv,
         HostSeesStall \/ HostGivesUp \/ Wire \/ Controller \/ Interrupt \/ WatchdogReset
  PROVE  TransferInv'
<1> USE DEF deviceVars, hostVars
<1>1. CASE HostSeesStall
  <2>1. ~InHandler /\ ~ep0.setup /\ phase' = "none"
    BY <1>1 DEF HostSeesStall, LeaveTransfer, TransferInv
  <2> QED
    BY <1>1, <2>1 DEF HostSeesStall, TransferInv, InHandler
<1>2. CASE HostGivesUp \/ BusIdle \/ BusReset
  BY <1>2, GiveUpStep DEF HostGivesUp, BusIdle, BusReset
<1>3. CASE BusResume
  BY <1>3
  DEF BusResume, TransferInv, InHandler, Fresh, InStep, Current, Addressing, Sending, Receiving,
      DataDue, DataComing, StatusComes, EmptyPacketDue
<1>4. CASE Controller
  BY <1>4
  DEF Controller, SuspendFlag, WakeUpFlag, TransferInv, InHandler, Fresh, InStep, Current,
      Addressing, Sending, Receiving, DataDue, DataComing, StatusComes, EmptyPacketDue
<1>5. CASE Interrupt
  <2>1. /\ ~InHandler /\ pc' = pc /\ ep0' \in {ep0, IdleControl}
        /\ UNCHANGED <<request, phase, bus, want, setups, abandoned>>
    BY <1>5 DEF Interrupt, InHandler
  <2> QED
    BY <2>1 DEF TransferInv, InHandler, Fresh, IdleControl
<1>6. CASE WatchdogReset
  BY <1>6 DEF WatchdogReset, GiveUp, LeaveTransfer, TransferInv, InHandler, IdleControl
<1> QED
  BY <1>1, <1>2, <1>3, <1>4, <1>5, <1>6 DEF Wire

(* The task starts on a SETUP packet.                                      *)
LEMMA PollStep == ASSUME TypeOK, TransferInv, StartTask \/ Poll PROVE TransferInv'
<1> USE DEF deviceVars, hostVars
<1>1. CASE StartTask
  BY <1>1 DEF StartTask, TransferInv, InHandler, Fresh
<1>2. CASE Poll
  <2>1. CASE ~ep0.setup
    BY <1>2, <2>1 DEF Poll, TransferInv, InHandler, Fresh
  <2>2. CASE ep0.setup
    <3>1. /\ pc = "polled" /\ pc' = "dispatch" /\ serving' = setups /\ ~ep0.stalled
          /\ UNCHANGED <<ep0, request, setups, abandoned, phase, want, bus>>
      BY <1>2, <2>2 DEF Poll, TransferInv
    <3>2. serving' \notin abandoned' => InStep'
      BY <2>2, <3>1
      DEF TransferInv, InHandler, TypeOK, InStep, Current, Fresh, Addressing, Sending, Receiving
    <3> QED
      BY <3>1, <3>2 DEF TransferInv, InHandler
  <2> QED
    BY <2>1, <2>2
<1> QED
  BY <1>1, <1>2

(* What the handler's steps leave alone, all but its last one.             *)
HandlerFrame ==
  /\ InHandler /\ pc' \notin {"main", "polled", "dispatch"}
  /\ ~ep0'.stalled
  /\ UNCHANGED <<hostVars, request, serving>>

(* What no action of a transfer touches.                                   *)
LEMMA FrameStep ==
  ASSUME TransferInv, HandlerFrame, serving \notin abandoned /\ InStep => InStep'
  PROVE  TransferInv'
BY DEF HandlerFrame, TransferInv, InHandler, hostVars

(* The registers of the control endpoint, field by field.                  *)
LEMMA Registers ==
  ASSUME TypeOK
  PROVE  /\ Accepted.setup = FALSE /\ Accepted.stalled = ep0.stalled
         /\ Accepted.inFull = ep0.inFull /\ Accepted.inBytes = ep0.inBytes
         /\ Accepted.outFull = ep0.outFull /\ Accepted.outBytes = ep0.outBytes
         /\ \A c \in {ep0, Accepted}, n \in Nat :
              /\ Sent(c, n).inFull = TRUE /\ Sent(c, n).inBytes = n
              /\ Sent(c, n).setup = c.setup /\ Sent(c, n).stalled = c.stalled
              /\ Sent(c, n).outFull = c.outFull /\ Sent(c, n).outBytes = c.outBytes
         /\ LET c == [ep0 EXCEPT !.outFull = FALSE]
            IN /\ c.outFull = FALSE /\ c.outBytes = ep0.outBytes /\ c.setup = ep0.setup
               /\ c.stalled = ep0.stalled /\ c.inFull = ep0.inFull /\ c.inBytes = ep0.inBytes
BY DEF TypeOK, ControlState, Accepted, Sent

(* The first step of a handler.                                            *)
LEMMA DispatchStep ==
  ASSUME TypeOK, TransferInv, \A r \in Requests : WellFormed(r),
         \/ SetAddress \/ SetConfiguration \/ Answer \/ ChangeHalt \/ GetDescriptor
         \/ SendEncapsulated \/ GetEncapsulated \/ Refuse
  PROVE  TransferInv'
<1>1. /\ pc = "dispatch" /\ InHandler /\ ~ep0.stalled
      /\ UNCHANGED <<hostVars, request, serving>>
  BY DEF SetAddress, SetConfiguration, Answer, ChangeHalt, GetDescriptor, SendEncapsulated,
         GetEncapsulated, Refuse, InHandler, TransferInv, Rest
<1>2. WellFormed(request) /\ request.length \in Nat /\ request.value \in Nat
  BY Stages DEF TypeOK
<1>3. serving \notin abandoned /\ InStep =>
        /\ Current' /\ serving' <= setups' /\ ~ep0.inFull
        /\ phase' = FirstStage(request) /\ want' = request.length
  BY <1>1 DEF InStep, Fresh, Current, hostVars
<1>a. ~Accepted.setup /\ ~Accepted.stalled /\ Accepted.inFull = ep0.inFull
  BY <1>1, Registers
<1>b. \A n \in Nat : LET c == Sent(Accepted, n)
                    IN c.inFull /\ c.inBytes = n /\ ~c.setup /\ ~c.stalled
  BY <1>a, Registers
<1> USE <1>1, <1>2, <1>3, <1>a, <1>b
    DEF HandlerFrame, InStep, Addressing, Sending, Receiving, hostVars
<1>4. CASE SetAddress
  <2>1. pc' = "addressIn" /\ ep0' = Accepted
    BY <1>4 DEF SetAddress
  <2>2. request.length = 0
    BY <1>4 DEF SetAddress, WellFormed
  <2> QED
    BY <2>1, <2>2, FrameStep DEF FirstStage
<1>5. CASE SetConfiguration \/ ChangeHalt
  <2>1. pc' \in {"configured", "finish"} /\ ep0' = Sent(Accepted, 0)
    BY <1>5 DEF SetConfiguration, ChangeHalt
  <2> QED
    BY <2>1, FrameStep
<1>6. CASE Answer
  <2>1. pc' = "statusOut" /\ ep0' = Sent(Accepted, request.length)
    BY <1>6 DEF Answer, AnswerBytes, WellFormed
  <2>2. request.length > 0 /\ request.kind \in ToHost
    BY <1>6 DEF Answer, AnswerBytes, WellFormed, ToHost
  <2> QED
    <3>1. serving \notin abandoned /\ InStep => StatusComes'
      BY <2>1, <2>2 DEF FirstStage, StatusComes
    <3> QED
      BY <2>1, <3>1, FrameStep
<1>7. CASE GetDescriptor
  <2>1. pc' = "descriptor" /\ ep0' = Accepted /\ remaining' = Least(request.length, request.value)
    BY <1>7 DEF GetDescriptor
  <2>2. request.length > 0 /\ request.value > 0 /\ request.kind \in ToHost
    BY <1>7 DEF GetDescriptor, WellFormed, ToHost
  <2>3. remaining' \in Nat /\ remaining' > 0 /\ request.length >= remaining'
    BY <2>1, <2>2, LeastIs
  <2> QED
    <3>1. serving \notin abandoned /\ InStep => DataDue'
      BY <2>1, <2>2, <2>3 DEF FirstStage, DataDue
    <3> QED
      BY <2>1, <2>3, <3>1, FrameStep
<1>8. CASE SendEncapsulated
  <2>1. pc' = "readOut" /\ ep0' = Accepted /\ remaining' = request.length
    BY <1>8 DEF SendEncapsulated
  <2>2. FirstStage(request) = IF request.length = 0 THEN "statusIn" ELSE "dataOut"
    BY <1>8 DEF SendEncapsulated, FirstStage, ToHost
  <2>3. ep0'.outBytes \in Nat
    BY <2>1, Registers DEF TypeOK, ControlState
  <2> QED
    <3>1. serving \notin abandoned /\ InStep => DataComing'
      BY <2>1, <2>2, <2>3 DEF DataComing
    <3> QED
      BY <2>1, <2>2, <3>1, FrameStep
<1>9. CASE GetEncapsulated
  <2>1. pc' = "write" /\ ep0' = Accepted /\ remaining' = Least(Available, request.length)
    BY <1>9 DEF GetEncapsulated
  <2>2. request.length > 0 /\ request.kind \in ToHost
    BY <1>9 DEF GetEncapsulated, WellFormed, ToHost
  <2>3. Available \in Nat /\ Available > 0
    BY DEF Available, TypeOK
  <2>4. remaining' \in Nat /\ remaining' > 0 /\ request.length >= remaining'
    BY <2>1, <2>2, <2>3, LeastIs
  <2> QED
    <3>1. serving \notin abandoned /\ InStep => DataDue'
      BY <2>1, <2>2, <2>4 DEF FirstStage, DataDue
    <3> QED
      BY <2>1, <2>4, <3>1, FrameStep
<1>10. CASE Refuse
  BY <1>10, FrameStep DEF Refuse
<1> QED
  BY <1>4, <1>5, <1>6, <1>7, <1>8, <1>9, <1>10

(* A packet goes into the bank: as much of what remains as fits.           *)
LEMMA PacketSent ==
  ASSUME TypeOK, InStep, InHandler,
         pc \in {"descriptor", "writeIn"}, pc' \in {"descriptor", "write"},
         remaining > 0, ~ep0.inFull,
         ep0' = Sent(ep0, Fill), remaining' = remaining - Fill,
         zlp' = (Fill = ControlEndpointSize),
         UNCHANGED <<hostVars, request, serving>>
  PROVE  InStep'
<1>1. /\ Fill = IF remaining <= ControlEndpointSize THEN remaining ELSE ControlEndpointSize
      /\ Fill \in Nat /\ remaining' \in Nat /\ remaining \in Nat /\ ControlEndpointSize \in Nat \ {0}
  BY FillIs, SizesAssumption DEF TypeOK
<1>2. /\ ep0'.inFull /\ ep0'.inBytes = Fill /\ ep0'.setup = ep0.setup
  BY <1>1, Registers
<1>3. Current /\ phase = "dataIn" /\ want >= remaining /\ want \in Nat /\ ~ep0.setup
  BY DEF InStep, Sending, DataDue, TypeOK
<1>4. Current' /\ phase' = "dataIn" /\ want' = want /\ serving' <= setups' /\ ~ep0'.setup
  BY <1>2, <1>3 DEF Current, InStep, hostVars
<1>5. remaining' > 0 => DataDue'
  BY <1>1, <1>2, <1>3, <1>4 DEF DataDue
<1>6. zlp' => EmptyPacketDue'
  BY <1>2, <1>4 DEF EmptyPacketDue
<1>7. remaining' = 0 /\ ~zlp' => StatusComes'
  <2>1. ~zlp' => Fill # ControlEndpointSize
    BY Zenon
  <2> QED
    BY <1>1, <1>2, <1>4, <2>1 DEF StatusComes
<1> QED
  BY <1>2, <1>4, <1>5, <1>6, <1>7 DEF InStep, Addressing, Sending, Receiving

(* An empty packet goes into the bank, after which the status stage comes. *)
LEMMA EmptySent ==
  ASSUME TypeOK, InStep, InHandler,
         pc \in {"descriptorZLP", "writeZLP"}, pc' \in {"statusOut", "writeEnd"},
         ~ep0.inFull, ep0' = Sent(ep0, 0),
         UNCHANGED <<hostVars, request, serving>>
  PROVE  InStep'
<1>1. /\ ep0'.inFull /\ ep0'.inBytes = 0 /\ ep0'.setup = ep0.setup /\ ep0'.outFull = ep0.outFull
  BY Registers
<1>2. Current' = Current /\ phase' = phase /\ serving' <= setups'
  BY DEF Current, InStep, hostVars
<1>3. StatusComes'
  BY <1>1, <1>2, SizesAssumption DEF InStep, Sending, EmptyPacketDue, StatusComes
<1> QED
  BY <1>1, <1>2, <1>3 DEF InStep, Addressing, Sending, Receiving

(* The steps in the middle of a handler.                                   *)
LEMMA HandlerStep ==
  ASSUME TypeOK, TransferInv,
         \/ SendAddressStatus \/ TakeAddress \/ ConfigurationChanged \/ StatusOut
         \/ SendDescriptor \/ AbortDescriptor \/ EndDescriptor \/ SendDescriptorZLP
         \/ ReadPacket \/ ReadDone \/ ProcessMessage \/ WriteNext \/ WritePacket \/ WriteAborted
         \/ WriteDone \/ WriteZLP \/ WriteEnd
  PROVE  TransferInv'
<1>1. /\ InHandler /\ ~ep0.stalled /\ pc # "dispatch"
      /\ pc' \notin {"main", "polled", "dispatch"}
      /\ UNCHANGED <<hostVars, request, serving>>
  BY DEF SendAddressStatus, TakeAddress, ConfigurationChanged, StatusOut, SendDescriptor,
         AbortDescriptor, EndDescriptor, SendDescriptorZLP, ReadPacket, ReadDone, ProcessMessage,
         WriteNext, WritePacket, WriteAborted, WriteDone, WriteZLP, WriteEnd, InHandler,
         TransferInv, Rest
<1>2. ~ep0'.stalled
  <2>1. \/ ep0' = ep0 \/ ep0' = Sent(ep0, 0) \/ ep0' = Sent(ep0, Fill)
        \/ ep0' = [ep0 EXCEPT !.outFull = FALSE]
    BY DEF SendAddressStatus, TakeAddress, ConfigurationChanged, StatusOut, SendDescriptor,
           AbortDescriptor, EndDescriptor, SendDescriptorZLP, ReadPacket, ReadDone, ProcessMessage,
           WriteNext, WritePacket, WriteAborted, WriteDone, WriteZLP, WriteEnd
  <2>2. \A n \in Nat : ~Sent(ep0, n).stalled
    BY <1>1, Registers
  <2>3. ~[ep0 EXCEPT !.outFull = FALSE].stalled
    BY <1>1, Registers
  <2>4. Fill \in Nat
    BY FillIs DEF TypeOK
  <2> QED
    BY <1>1, <2>1, <2>2, <2>3, <2>4
<1>3. HandlerFrame
  BY <1>1, <1>2 DEF HandlerFrame
<1>4. InStep => serving' <= setups' /\ (Current' <=> Current) /\ phase' = phase /\ want' = want
  BY <1>1 DEF InStep, Current, hostVars
<1> SUFFICES ASSUME InStep PROVE InStep'
  BY <1>3, FrameStep
<1> USE <1>1, <1>4 DEF InStep, Addressing, Sending, Receiving
<1>5. CASE SendAddressStatus
  <2>1. pc = "addressIn" /\ pc' = "addressDone" /\ ep0'.inFull /\ ep0'.setup = ep0.setup
    BY <1>5, Registers DEF SendAddressStatus
  <2> QED
    BY <2>1
<1>6. CASE TakeAddress \/ ConfigurationChanged \/ StatusOut \/ AbortDescriptor \/ WriteAborted
             \/ WriteEnd \/ ProcessMessage
  <2>1. pc' = "finish"
    BY <1>6 DEF TakeAddress, ConfigurationChanged, StatusOut, AbortDescriptor, WriteAborted,
                WriteEnd, ProcessMessage
  <2> QED
    BY <2>1
<1>7. CASE SendDescriptor
  BY <1>7, PacketSent DEF SendDescriptor
<1>8. CASE WritePacket
  BY <1>8, PacketSent DEF WritePacket
<1>9. CASE SendDescriptorZLP \/ WriteZLP
  BY <1>9, EmptySent DEF SendDescriptorZLP, WriteZLP
<1>10. CASE EndDescriptor \/ WriteDone
  BY <1>10 DEF EndDescriptor, WriteDone, EmptyPacketDue, StatusComes
<1>11. CASE WriteNext
  BY <1>11 DEF WriteNext, DataDue
<1>12. CASE ReadPacket
  <2>1. /\ pc = "readOut" /\ pc' = pc /\ remaining > 0 /\ ep0.outFull
        /\ ~ep0'.outFull /\ ep0'.inFull = ep0.inFull /\ ep0'.setup = ep0.setup
        /\ remaining' = remaining - Least(remaining, ep0.outBytes)
    BY <1>12, Registers DEF ReadPacket
  <2>2. remaining \in Nat /\ ep0.outBytes \in Nat /\ want \in Nat
    BY DEF TypeOK, ControlState
  <2>3. remaining' = IF remaining <= ep0.outBytes THEN 0 ELSE remaining - ep0.outBytes
    BY <2>1, <2>2, LeastIs
  <2>4. remaining' > 0 => DataComing'
    BY <2>1, <2>2, <2>3 DEF DataComing
  <2> QED
    BY <2>1, <2>4
<1>13. CASE ReadDone
  BY <1>13 DEF ReadDone
<1> QED
  BY <1>5, <1>6, <1>7, <1>8, <1>9, <1>10, <1>11, <1>12, <1>13

(* The handler ends.                                                       *)
LEMMA FinishStep == ASSUME TypeOK, TransferInv, Finish PROVE TransferInv'
<1>1. /\ pc' = "main" /\ ~ep0'.setup
      /\ UNCHANGED hostVars
  BY DEF Finish, TypeOK, ControlState
<1> QED
  BY <1>1 DEF TransferInv, InHandler, hostVars

(* In step, one of the two can always move.                                *)
LEMMA InStepMoves == ASSUME TypeOK, TransferInv PROVE NoMutualWait
<1> SUFFICES ASSUME pc \in Spinning, serving \notin abandoned, ~DeviceCanMove PROVE HostCanMove
  BY DEF NoMutualWait
<1>1. InStep /\ ~ep0.stalled /\ (phase # "none" => bus = "active")
  BY DEF TransferInv, InHandler, Spinning
<1>2. remaining \in Nat
  BY DEF TypeOK
<1>3. Current => ~ep0.setup
  BY <1>1 DEF InStep, Spinning
<1>4. CASE pc \in {"addressIn", "addressDone"}
  BY <1>1, <1>3, <1>4 DEF InStep, Addressing, DeviceCanMove, HostCanMove
<1>5. CASE pc \in {"descriptor", "descriptorZLP", "writeIn", "writeZLP"}
  <2>1. ep0.inFull
    BY <1>5 DEF DeviceCanMove
  <2> QED
    BY <1>1, <1>3, <1>5, <2>1 DEF InStep, Sending, HostCanMove
<1>6. CASE pc \in {"statusOut", "writeEnd"}
  <2>1. ~ep0.outFull
    BY <1>6 DEF DeviceCanMove
  <2> QED
    BY <1>1, <1>3, <1>6, <2>1 DEF InStep, Sending, StatusComes, HostCanMove
<1>7. CASE pc = "readOut"
  <2>1. ~ep0.outFull /\ remaining > 0
    BY <1>2, <1>7 DEF DeviceCanMove
  <2>2. Current /\ phase = "dataOut"
    BY <1>1, <1>2, <1>7, <2>1 DEF InStep, Receiving, DataComing
  <2> QED
    BY <1>1, <1>3, <2>1, <2>2 DEF HostCanMove
<1>8. CASE pc = "readEnd"
  BY <1>1, <1>8 DEF InStep, Receiving, DeviceCanMove
<1> QED
  BY <1>4, <1>5, <1>6, <1>7, <1>8 DEF Spinning

(* With a host that sends well-formed requests, in any number and order,   *)
(* that breaks transfers off, resets or suspends the bus at any point, and *)
(* whatever the size of the control endpoint: no transfer that the host    *)
(* carries on with comes to a point where each side waits for the other.   *)
THEOREM NoDeadlockInTransfers ==
  ASSUME \A r \in Requests : WellFormed(r)
  PROVE  Spec => []NoMutualWait
<1>1. Init => TransferInv
  BY DEF Init, IdleControl, TransferInv, InHandler
<1>2. TypeOK /\ TransferInv /\ [Next]_vars => TransferInv'
  <2> SUFFICES ASSUME TypeOK, TransferInv, [Next]_vars PROVE TransferInv'
    OBVIOUS
  <2>1. CASE Host
    BY <2>1, HostSetupStep, HostReadsStep, HostWritesStep, WireStep DEF Host
  <2>2. CASE Wire \/ Controller \/ Interrupt \/ WatchdogReset
    BY <2>2, WireStep
  <2>3. CASE StartTask \/ Poll
    BY <2>3, PollStep
  <2>4. CASE Handler
    BY <2>4, DispatchStep, HandlerStep, FinishStep DEF Handler
  <2>5. CASE UNCHANGED vars
    BY <2>5
    DEF vars, deviceVars, hostVars, TransferInv, InHandler, Fresh, InStep, Current, Addressing,
        Sending, Receiving, DataDue, DataComing, StatusComes, EmptyPacketDue
  <2> QED
    BY <2>1, <2>2, <2>3, <2>4, <2>5 DEF Next, UsbTask
<1>3. TypeOK /\ TransferInv => NoMutualWait
  BY InStepMoves
<1> QED
  BY <1>1, <1>2, <1>3, TypeCorrect, PTL DEF Spec

=============================================================================
