----------------------------- MODULE UsbDevice -----------------------------
(***************************************************************************)
(* LUFA's device mode as CULeth is built with it (a limited controller,    *)
(* without a VBUS pin): the USB interrupt, the events that start and stop  *)
(* the tasks, and the USB task's processing of control requests with the   *)
(* interrupts off.  The other side is the host and the wire: the host      *)
(* walks through the stages of a control transfer, may give one up, send   *)
(* the next SETUP as soon as a transfer is complete, suspend and reset the *)
(* bus.                                                                    *)
(*                                                                         *)
(* usb is what the interrupt and the events change, ep0 the registers of   *)
(* the control endpoint.  pc is the USB task: "main" and "polled" run with *)
(* interrupts on, everything else is inside its ATOMIC_BLOCK.              *)
(***************************************************************************)
EXTENDS Integers, FiniteSetsExt

CONSTANTS
  Requests,             \* the control requests the host makes
  ControlEndpointSize,  \* USB_ControlEndpointSize
  ResponseLengths,      \* MessageLength after an RNDIS message was processed
  MaxSetups,            \* bound: how many SETUP packets the host sends
  MaxResets,            \* bound: how many bus resets
  MaxSuspends           \* bound: how often the bus falls idle

RequestKinds == {"GetStatus", "ClearHalt", "SetHalt", "SetAddress", "GetDescriptor",
                 "GetConfiguration", "SetConfiguration", "SendEncapsulated",
                 "GetEncapsulated", "unsupported"}

(* value is the wValue a request carries: a configuration or address for   *)
(* the two Set requests, the size of the descriptor named (0: there is     *)
(* none) for GetDescriptor.  length is wLength.                            *)
Request == [kind : RequestKinds, value : Nat, length : Nat]

ASSUME RequestsAssumption == Requests \subseteq Request /\ Requests # {}
ASSUME SizesAssumption ==
  /\ ControlEndpointSize \in Nat \ {0}
  /\ ResponseLengths \subseteq Nat
  /\ MaxSetups \in Nat /\ MaxResets \in Nat /\ MaxSuspends \in Nat

DataEndpoints == {"notification", "tx", "rx"}
Interrupts    == {"SUSPEND", "WAKEUP", "EORSTI"}
DataTasks     == {"Notification", "Ethernet"}

ToHost == {"GetStatus", "GetDescriptor", "GetConfiguration", "GetEncapsulated"}

VARIABLES
  usb,             \* flags, interrupts, globals and tasks of the USB side
  ep0,             \* the control endpoint
  request,         \* the SETUP packet received last
  pc,              \* where the USB task is
  remaining,       \* wLength, counted down by a stream
  zlp,             \* SendZLP
  responseLength,  \* MessageHeader->MessageLength
  wValue,          \* wValue_LSB of SetAddress, read before the SETUP is cleared
  address,         \* UDADDR
  bus,             \* "idle" or "active"
  phase,           \* the stage of the host's control transfer
  want,            \* the bytes the host has still to send or to read
  setups, resets, suspends,
  serving,         \* history: the number of the SETUP being processed
  abandoned        \* history: the transfers the host gave up

deviceVars == <<pc, remaining, zlp, responseLength, wValue, address>>
hostVars   == <<bus, phase, want, setups, resets, suspends, abandoned>>
vars       == <<usb, ep0, request, deviceVars, hostVars, serving>>

Phases == {"none", "dataIn", "dataOut", "statusIn", "statusOut"}

(* The points where the code spins until the host has moved.               *)
Spinning == {"addressIn", "addressDone", "descriptor", "descriptorZLP", "statusOut",
             "readOut", "readEnd", "writeIn", "writeZLP", "writeEnd"}

Points == Spinning \union {"main", "polled", "dispatch", "configured", "write", "finish"}

-----------------------------------------------------------------------------
(* USB_Init, after a reset.                                                *)
ResetInterface ==
  [enabled |-> {"SUSPEND", "EORSTI"}, flags |-> {}, connected |-> FALSE,
   suspended |-> FALSE, frozen |-> FALSE, configuration |-> 0,
   endpoints |-> {}, halted |-> {}, running |-> {}]

IdleControl == [setup |-> FALSE, inFull |-> FALSE, inBytes |-> 0,
                outFull |-> FALSE, outBytes |-> 0, stalled |-> FALSE]

Init ==
  /\ usb = ResetInterface /\ ep0 = IdleControl
  /\ request = CHOOSE r \in Requests : TRUE
  /\ pc = "main" /\ remaining = 0 /\ zlp = FALSE /\ responseLength = 0
  /\ wValue = 0 /\ address = 0
  /\ bus = "active" /\ phase = "none" /\ want = 0
  /\ setups = 0 /\ resets = 0 /\ suspends = 0
  /\ serving = 0 /\ abandoned = {}

-----------------------------------------------------------------------------
(* The USB interrupt: three handlers in this order, one after the other.   *)

Fires(u, i) == i \in u.flags \intersect u.enabled

(* Scheduler_SetTaskMode for some tasks: TASK_RUN and TASK_STOP.           *)
Run(u, tasks)  == [u EXCEPT !.running = @ \union tasks]
Stop(u, tasks) == [u EXCEPT !.running = @ \ tasks]

(* EVENT USB_Disconnect and USB_Connect.                                   *)
Disconnect(u) == Stop([u EXCEPT !.connected = FALSE], DataTasks \union {"USB"})
Connect(u)    == Run([u EXCEPT !.connected = TRUE], {"USB"})

OnSuspend(u) ==
  LET v == [u EXCEPT !.flags = @ \ {"SUSPEND"},
                     !.enabled = (@ \ {"SUSPEND"}) \union {"WAKEUP"},
                     !.frozen = TRUE, !.suspended = TRUE]
  IN IF u.connected THEN Disconnect(v) ELSE v

(* Mutant: USB_Connect is not raised.                                      *)
OnWakeUpSilent(u) ==
  [u EXCEPT !.flags = @ \ {"WAKEUP"},
            !.enabled = (@ \ {"WAKEUP"}) \union {"SUSPEND"},
            !.frozen = FALSE, !.suspended = FALSE]

OnWakeUp(u) ==
  LET v == [u EXCEPT !.flags = @ \ {"WAKEUP"},
                     !.enabled = (@ \ {"WAKEUP"}) \union {"SUSPEND"},
                     !.frozen = FALSE, !.suspended = FALSE]
  IN IF u.connected THEN v ELSE Connect(v)

(* Mutant: USB_ConfigurationNumber keeps its value.                        *)
OnResetConfigured(u) ==
  [u EXCEPT !.flags = @ \ {"EORSTI", "SUSPEND"},
            !.enabled = (@ \ {"SUSPEND"}) \union {"WAKEUP"},
            !.endpoints = {"control"}, !.halted = {}]

(* Mutant: the WAKEUP interrupt is not enabled after a bus reset.          *)
OnResetDeaf(u) ==
  [u EXCEPT !.flags = @ \ {"EORSTI", "SUSPEND"}, !.enabled = @ \ {"SUSPEND"},
            !.configuration = 0, !.endpoints = {"control"}, !.halted = {}]

OnReset(u) ==
  [u EXCEPT !.flags = @ \ {"EORSTI", "SUSPEND"},
            !.enabled = (@ \ {"SUSPEND"}) \union {"WAKEUP"},
            !.configuration = 0, !.endpoints = {"control"}, !.halted = {}]

AfterSuspend(u) == IF Fires(u, "SUSPEND") THEN OnSuspend(u) ELSE u
AfterWakeUp(u)  == IF Fires(u, "WAKEUP") THEN OnWakeUp(u) ELSE u
AfterReset(u)   == IF Fires(u, "EORSTI") THEN OnReset(u) ELSE u

Interrupt ==
  /\ pc \in {"main", "polled"}
  /\ \E i \in Interrupts : Fires(usb, i)
  /\ usb' = AfterReset(AfterWakeUp(AfterSuspend(usb)))
  /\ ep0' = IF "EORSTI" \in usb.flags THEN IdleControl ELSE ep0
  /\ UNCHANGED <<request, deviceVars, hostVars, serving>>

-----------------------------------------------------------------------------
(* The host and the wire.                                                  *)

Least(m, n) == Min({m, n})

HostSetup ==
  /\ phase = "none" /\ bus = "active" /\ setups < MaxSetups
  /\ "control" \in usb.endpoints /\ ~usb.frozen
  /\ \E r \in Requests :
       /\ request' = r
       /\ want' = r.length
       /\ phase' = IF r.length = 0 THEN "statusIn"
                   ELSE IF r.kind \in ToHost THEN "dataIn" ELSE "dataOut"
  /\ setups' = setups + 1
  /\ ep0' = [ep0 EXCEPT !.setup = TRUE, !.inFull = FALSE, !.stalled = FALSE]
  /\ UNCHANGED <<usb, deviceVars, bus, resets, suspends, abandoned, serving>>

HostReads ==
  /\ phase \in {"dataIn", "statusIn"} /\ bus = "active"
  /\ ep0.inFull /\ ~ep0.setup /\ ~ep0.stalled
  /\ ep0' = [ep0 EXCEPT !.inFull = FALSE]
  /\ want' = want - Least(want, ep0.inBytes)
  /\ phase' = IF phase = "statusIn" THEN "none"
              ELSE IF ep0.inBytes < ControlEndpointSize \/ want' = 0 THEN "statusOut"
              ELSE "dataIn"
  /\ UNCHANGED <<usb, request, deviceVars, bus, setups, resets, suspends, abandoned,
                 serving>>

HostWrites ==
  /\ phase \in {"dataOut", "statusOut"} /\ bus = "active"
  /\ ~ep0.outFull /\ ~ep0.setup /\ ~ep0.stalled
  /\ LET n == Least(want, ControlEndpointSize) IN
       /\ ep0' = [ep0 EXCEPT !.outFull = TRUE,
                             !.outBytes = IF phase = "dataOut" THEN n ELSE 0]
       /\ want' = IF phase = "dataOut" THEN want - n ELSE 0
  /\ phase' = IF phase = "statusOut" THEN "none"
              ELSE IF want' = 0 THEN "statusIn" ELSE "dataOut"
  /\ UNCHANGED <<usb, request, deviceVars, bus, setups, resets, suspends, abandoned,
                 serving>>

LeaveTransfer == phase' = "none" /\ want' = 0

HostSeesStall ==
  /\ phase # "none" /\ bus = "active" /\ ep0.stalled
  /\ LeaveTransfer /\ UNCHANGED abandoned
  /\ UNCHANGED <<usb, ep0, request, deviceVars, bus, setups, resets, suspends,
                 serving>>

GiveUp ==
  /\ LeaveTransfer
  /\ abandoned' = IF phase = "none" THEN abandoned ELSE abandoned \union {setups}

HostGivesUp ==
  /\ phase # "none"
  /\ GiveUp
  /\ UNCHANGED <<usb, ep0, request, deviceVars, bus, setups, resets, suspends,
                 serving>>

(* The host stops its frames, or the cable is pulled.                      *)
BusIdle ==
  /\ bus = "active" /\ suspends < MaxSuspends
  /\ bus' = "idle" /\ GiveUp
  /\ suspends' = suspends + 1
  /\ UNCHANGED <<usb, ep0, request, deviceVars, setups, resets, serving>>

BusResume ==
  /\ bus = "idle"
  /\ bus' = "active"
  /\ UNCHANGED <<usb, ep0, request, deviceVars, phase, want, setups, resets, suspends,
                 abandoned, serving>>

(* The controller notices three idle milliseconds, and activity when it    *)
(* waits for it.                                                           *)
SuspendFlag ==
  /\ bus = "idle" /\ ~usb.frozen /\ "SUSPEND" \notin usb.flags
  /\ usb' = [usb EXCEPT !.flags = @ \union {"SUSPEND"}]
  /\ UNCHANGED <<ep0, request, deviceVars, hostVars, serving>>

WakeUpFlag ==
  /\ bus = "active" /\ Fires([usb EXCEPT !.flags = Interrupts], "WAKEUP")
  /\ "WAKEUP" \notin usb.flags
  /\ usb' = [usb EXCEPT !.flags = @ \union {"WAKEUP"}]
  /\ UNCHANGED <<ep0, request, deviceVars, hostVars, serving>>

BusReset ==
  /\ resets < MaxResets
  /\ bus' = "active" /\ GiveUp
  /\ resets' = resets + 1
  /\ usb' = [usb EXCEPT !.flags = @ \union {"EORSTI"}
                                    \union (usb.enabled \intersect {"WAKEUP"})]
  /\ address' = 0
  /\ UNCHANGED <<ep0, request, pc, remaining, zlp, responseLength, wValue, setups,
                 suspends, serving>>

-----------------------------------------------------------------------------
(* The USB task.                                                           *)

(* The scheduler runs the task; USB_IsConnected is looked at once.         *)
StartTask ==
  /\ pc = "main" /\ "USB" \in usb.running /\ usb.connected
  /\ pc' = "polled"
  /\ UNCHANGED <<usb, ep0, request, remaining, zlp, responseLength, wValue, address, hostVars,
                 serving>>

Poll ==
  /\ pc = "polled"
  /\ IF ep0.setup THEN pc' = "dispatch" /\ serving' = setups
                  ELSE pc' = "main" /\ UNCHANGED serving
  /\ UNCHANGED <<usb, ep0, request, remaining, zlp, responseLength, wValue, address, hostVars>>

Accepted == [ep0 EXCEPT !.setup = FALSE]

Sent(e, n) == [e EXCEPT !.inFull = TRUE, !.inBytes = n]

(* What the requests that are dispatched leave alone.                      *)
Rest == <<request, hostVars, serving>>

(* SetAddress: reads the address, clears the SETUP packet, so that another *)
(* may come, then waits for the status stage.                              *)
SetAddress ==
  /\ pc = "dispatch" /\ request.kind = "SetAddress"
  /\ wValue' = request.value % 256
  /\ ep0' = Accepted /\ pc' = "addressIn"
  /\ UNCHANGED <<usb, remaining, zlp, responseLength, address, Rest>>

SendAddressStatus ==
  /\ pc = "addressIn" /\ ~ep0.inFull
  /\ ep0' = Sent(ep0, 0) /\ pc' = "addressDone"
  /\ UNCHANGED <<usb, remaining, zlp, responseLength, wValue, address, Rest>>

TakeAddress ==
  /\ pc = "addressDone" /\ ~ep0.inFull
  /\ address' = wValue % 128 /\ wValue' = 0 /\ pc' = "finish"
  /\ UNCHANGED <<usb, ep0, remaining, zlp, responseLength, Rest>>

(* SetConfiguration; the descriptor names one configuration.               *)
SetConfiguration ==
  /\ pc = "dispatch" /\ request.kind = "SetConfiguration" /\ request.value <= 1
  /\ usb' = [usb EXCEPT !.configuration = request.value]
  /\ ep0' = Sent(Accepted, 0) /\ pc' = "configured"
  /\ UNCHANGED <<remaining, zlp, responseLength, wValue, address, Rest>>

(* EVENT USB_ConfigurationChanged.                                         *)
ConfigurationChanged ==
  /\ pc = "configured"
  /\ usb' = Run([usb EXCEPT !.endpoints = @ \union DataEndpoints], DataTasks)
  /\ pc' = "finish"
  /\ UNCHANGED <<ep0, remaining, zlp, responseLength, wValue, address, Rest>>

(* GetConfiguration answers one byte, GetStatus two.                       *)
AnswerBytes == [GetConfiguration |-> 1, GetStatus |-> 2]

Answer ==
  /\ pc = "dispatch" /\ request.kind \in DOMAIN AnswerBytes
  /\ ep0' = Sent(Accepted, AnswerBytes[request.kind]) /\ pc' = "statusOut"
  /\ UNCHANGED <<usb, remaining, zlp, responseLength, wValue, address, Rest>>

StatusOut ==
  /\ pc = "statusOut" /\ ep0.outFull
  /\ ep0' = [ep0 EXCEPT !.outFull = FALSE] /\ pc' = "finish"
  /\ UNCHANGED <<usb, remaining, zlp, responseLength, wValue, address, Rest>>

(* Clear and set the halt feature of a data endpoint: every one stands for *)
(* "rx", the endpoint RNDIS_RX stalls.                                     *)
ChangeHalt ==
  /\ pc = "dispatch" /\ request.kind \in {"ClearHalt", "SetHalt"}
  /\ usb' = [usb EXCEPT !.halted = IF "rx" \notin usb.endpoints THEN @
                                   ELSE IF request.kind = "SetHalt" THEN @ \union {"rx"}
                                   ELSE @ \ {"rx"}]
  /\ ep0' = Sent(Accepted, 0) /\ pc' = "finish"
  /\ UNCHANGED <<remaining, zlp, responseLength, wValue, address, Rest>>

(* GetDescriptor of one there is; SendZLP is not initialised.              *)
GetDescriptor ==
  /\ pc = "dispatch" /\ request.kind = "GetDescriptor" /\ request.value # 0
  /\ ep0' = Accepted /\ pc' = "descriptor"
  /\ remaining' = Least(request.length, request.value)
  /\ zlp' \in BOOLEAN
  /\ UNCHANGED <<usb, responseLength, wValue, address, Rest>>

Fill == Least(remaining, ControlEndpointSize)

SendDescriptor ==
  /\ pc = "descriptor" /\ remaining > 0 /\ ~ep0.inFull
  /\ ep0' = Sent(ep0, Fill)
  /\ remaining' = remaining - Fill /\ zlp' = (Fill = ControlEndpointSize)
  /\ UNCHANGED <<usb, pc, responseLength, wValue, address, Rest>>

(* The host starts the status stage before it has read everything.         *)
AbortDescriptor ==
  /\ pc = "descriptor" /\ remaining > 0 /\ ep0.inFull /\ ep0.outFull
  /\ ep0' = [ep0 EXCEPT !.outFull = FALSE] /\ pc' = "finish"
  /\ UNCHANGED <<usb, remaining, zlp, responseLength, wValue, address, Rest>>

(* Mutant: the zero-length packet is not sent when the last one was full.  *)
EndDescriptorShort ==
  /\ pc = "descriptor" /\ remaining = 0
  /\ pc' = "statusOut"
  /\ UNCHANGED <<usb, ep0, remaining, zlp, responseLength, wValue, address, Rest>>

EndDescriptor ==
  /\ pc = "descriptor" /\ remaining = 0
  /\ pc' = IF zlp THEN "descriptorZLP" ELSE "statusOut"
  /\ UNCHANGED <<usb, ep0, remaining, zlp, responseLength, wValue, address, Rest>>

SendDescriptorZLP ==
  /\ pc = "descriptorZLP" /\ ~ep0.inFull
  /\ ep0' = Sent(ep0, 0) /\ pc' = "statusOut"
  /\ UNCHANGED <<usb, remaining, zlp, responseLength, wValue, address, Rest>>

(* SEND_ENCAPSULATED_COMMAND reads wLength bytes into the message buffer.  *)
SendEncapsulated ==
  /\ pc = "dispatch" /\ request.kind = "SendEncapsulated"
  /\ ep0' = Accepted /\ remaining' = request.length /\ pc' = "readOut"
  /\ UNCHANGED <<usb, zlp, responseLength, wValue, address, Rest>>

ReadPacket ==
  /\ pc = "readOut" /\ remaining > 0 /\ ep0.outFull
  /\ ep0' = [ep0 EXCEPT !.outFull = FALSE]
  /\ remaining' = remaining - Least(remaining, ep0.outBytes)
  /\ UNCHANGED <<usb, pc, zlp, responseLength, wValue, address, Rest>>

ReadDone ==
  /\ pc = "readOut" /\ remaining = 0
  /\ pc' = "readEnd"
  /\ UNCHANGED <<usb, ep0, remaining, zlp, responseLength, wValue, address, Rest>>

ProcessMessage ==
  /\ pc = "readEnd" /\ ~ep0.inFull
  /\ ep0' = Sent(ep0, 0)
  /\ responseLength' \in ResponseLengths
  /\ pc' = "finish"
  /\ UNCHANGED <<usb, remaining, zlp, wValue, address, Rest>>

(* GET_ENCAPSULATED_RESPONSE: one zero byte when there is no response.     *)
Available == IF responseLength = 0 THEN 1 ELSE responseLength

GetEncapsulated ==
  /\ pc = "dispatch" /\ request.kind = "GetEncapsulated"
  /\ responseLength' = Available
  /\ remaining' = Least(Available, request.length)
  /\ zlp' = TRUE
  /\ ep0' = Accepted /\ pc' = "write"
  /\ UNCHANGED <<usb, wValue, address, Rest>>

(* Endpoint_Write_Control_Stream: the OUT flag is looked at before, never  *)
(* while, it waits for a free bank.                                        *)
WriteNext ==
  /\ pc = "write" /\ remaining > 0 /\ ~ep0.outFull
  /\ pc' = "writeIn"
  /\ UNCHANGED <<usb, ep0, remaining, zlp, responseLength, wValue, address, Rest>>

WritePacket ==
  /\ pc = "writeIn" /\ ~ep0.inFull
  /\ ep0' = Sent(ep0, Fill)
  /\ remaining' = remaining - Fill /\ zlp' = (Fill = ControlEndpointSize)
  /\ pc' = "write"
  /\ UNCHANGED <<usb, responseLength, wValue, address, Rest>>

(* The host broke off; the event handler clears the OUT packet.            *)
WriteAborted ==
  /\ pc = "write" /\ ep0.outFull
  /\ ep0' = [ep0 EXCEPT !.outFull = FALSE]
  /\ responseLength' = 0 /\ pc' = "finish"
  /\ UNCHANGED <<usb, remaining, zlp, wValue, address, Rest>>

WriteDone ==
  /\ pc = "write" /\ remaining = 0 /\ ~ep0.outFull
  /\ pc' = IF zlp THEN "writeZLP" ELSE "writeEnd"
  /\ UNCHANGED <<usb, ep0, remaining, zlp, responseLength, wValue, address, Rest>>

WriteZLP ==
  /\ pc = "writeZLP" /\ ~ep0.inFull
  /\ ep0' = Sent(ep0, 0) /\ pc' = "writeEnd"
  /\ UNCHANGED <<usb, remaining, zlp, responseLength, wValue, address, Rest>>

WriteEnd ==
  /\ pc = "writeEnd" /\ ep0.outFull
  /\ ep0' = [ep0 EXCEPT !.outFull = FALSE]
  /\ responseLength' = 0 /\ pc' = "finish"
  /\ UNCHANGED <<usb, remaining, zlp, wValue, address, Rest>>

Supported(r) ==
  CASE r.kind = "SetConfiguration" -> r.value <= 1
    [] r.kind = "GetDescriptor"    -> r.value # 0
    [] OTHER                       -> r.kind # "unsupported"

(* A request no handler takes leaves its SETUP packet for Finish.          *)
Refuse ==
  /\ pc = "dispatch" /\ ~Supported(request)
  /\ pc' = "finish"
  /\ UNCHANGED <<usb, ep0, remaining, zlp, responseLength, wValue, address, Rest>>

(* The end of ProcessControlPacket: a SETUP packet still, or again, in the *)
(* bank is stalled.                                                        *)
Finish ==
  /\ pc = "finish"
  /\ ep0' = IF ep0.setup THEN [ep0 EXCEPT !.setup = FALSE, !.stalled = TRUE] ELSE ep0
  /\ pc' = "main" /\ remaining' = 0 /\ zlp' = FALSE /\ serving' = 0
  /\ UNCHANGED <<usb, responseLength, wValue, address, request, hostVars>>

(* The watchdog ends a wait the host does not end, and main starts again.  *)
WatchdogReset ==
  /\ pc \in Spinning
  /\ usb' = ResetInterface /\ ep0' = IdleControl
  /\ pc' = "main" /\ remaining' = 0 /\ zlp' = FALSE /\ responseLength' = 0
  /\ wValue' = 0 /\ address' = 0
  /\ serving' = 0 /\ GiveUp
  /\ UNCHANGED <<request, bus, setups, resets, suspends>>

-----------------------------------------------------------------------------
Host == HostSetup \/ HostReads \/ HostWrites \/ HostSeesStall \/ HostGivesUp

Wire == BusIdle \/ BusResume \/ BusReset

Controller == SuspendFlag \/ WakeUpFlag

Handler ==
  \/ SetAddress \/ SendAddressStatus \/ TakeAddress
  \/ SetConfiguration \/ ConfigurationChanged
  \/ Answer \/ StatusOut \/ ChangeHalt
  \/ GetDescriptor \/ SendDescriptor \/ AbortDescriptor \/ EndDescriptor \/ SendDescriptorZLP
  \/ SendEncapsulated \/ ReadPacket \/ ReadDone \/ ProcessMessage
  \/ GetEncapsulated \/ WriteNext \/ WritePacket \/ WriteAborted \/ WriteDone
  \/ WriteZLP \/ WriteEnd
  \/ Refuse \/ Finish

UsbTask == StartTask \/ Poll \/ Handler

Next == Host \/ Wire \/ Controller \/ Interrupt \/ UsbTask \/ WatchdogReset

Spec == Init /\ [][Next]_vars

(* The scheduler gives the USB task its turn, the watchdog bites, the      *)
(* controller sees what is on the wire, and an interrupt that waits for    *)
(* the end of an ATOMIC_BLOCK is taken there.  Nothing is assumed of the   *)
(* host.                                                                   *)
Fairness ==
  /\ WF_vars(UsbTask) /\ WF_vars(WatchdogReset)
  /\ WF_vars(WakeUpFlag) /\ SF_vars(Interrupt)

FairSpec == Spec /\ Fairness

-----------------------------------------------------------------------------
UsbState == [enabled : SUBSET Interrupts, flags : SUBSET Interrupts,
             connected : BOOLEAN, suspended : BOOLEAN, frozen : BOOLEAN,
             configuration : Nat, endpoints : SUBSET (DataEndpoints \union {"control"}),
             halted : SUBSET DataEndpoints,
             running : SUBSET ({"USB"} \union DataTasks)]

ControlState == [setup : BOOLEAN, inFull : BOOLEAN, inBytes : Nat,
                 outFull : BOOLEAN, outBytes : Nat, stalled : BOOLEAN]

(* Every variable stays in its range.                                      *)
TypeOK ==
  /\ usb \in UsbState /\ ep0 \in ControlState
  /\ request \in Requests
  /\ pc \in Points /\ remaining \in Nat /\ zlp \in BOOLEAN
  /\ responseLength \in Nat /\ wValue \in Nat /\ address \in Nat
  /\ bus \in {"idle", "active"} /\ phase \in Phases /\ want \in Nat
  /\ setups \in Nat /\ resets \in Nat /\ suspends \in Nat
  /\ serving \in Nat /\ abandoned \subseteq Nat

(* USB_ConfigurationNumber and the hardware agree: a device that reports a *)
(* configuration has its data endpoints, whatever order resets, suspends   *)
(* and requests come in; and an endpoint is only halted while it exists.   *)
ConfigurationHasEndpoints ==
  /\ usb.configuration # 0 /\ pc # "configured" => DataEndpoints \subseteq usb.endpoints
  /\ usb.halted \subseteq usb.endpoints

(* One of SUSPEND and WAKEUP is always armed, WAKEUP whenever the clock is *)
(* frozen, and USB_IsSuspended tells whether it is: the interrupt that     *)
(* ends each state of the bus is never lost.                               *)
InterruptArmed ==
  /\ "EORSTI" \in usb.enabled
  /\ {"SUSPEND", "WAKEUP"} \intersect usb.enabled # {}
  /\ usb.frozen <=> usb.suspended
  /\ usb.frozen => "WAKEUP" \in usb.enabled

(* Whether the host has a step to make in its transfer.                    *)
HostCanMove ==
  /\ bus = "active" /\ ~ep0.setup /\ ~ep0.stalled
  /\ \/ phase \in {"dataIn", "statusIn"} /\ ep0.inFull
     \/ phase \in {"dataOut", "statusOut"} /\ ~ep0.outFull

DeviceCanMove ==
  CASE pc \in {"addressIn", "addressDone", "descriptorZLP", "readEnd", "writeIn", "writeZLP"}
         -> ~ep0.inFull
    [] pc = "descriptor" -> remaining = 0 \/ ~ep0.inFull \/ ep0.outFull
    [] pc = "readOut"    -> remaining = 0 \/ ep0.outFull
    [] OTHER             -> ep0.outFull

(* A control transfer that the host carries on with never comes to a point *)
(* where each side waits for the other: with the interrupts off, only the  *)
(* watchdog would end that.                                                *)
NoMutualWait ==
  pc \in Spinning /\ serving \notin abandoned => HostCanMove \/ DeviceCanMove

(* After a bus reset a device that sees the bus becomes connected, and its *)
(* USB task runs, unless the bus falls idle or the watchdog interferes.    *)
Enumerates ==
  bus = "active" /\ "control" \in usb.endpoints
    ~> \/ usb.connected /\ "USB" \in usb.running
       \/ bus = "idle" \/ "control" \notin usb.endpoints
=============================================================================
