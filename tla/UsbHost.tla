------------------------------ MODULE UsbHost -------------------------------
(***************************************************************************)
(* LUFA in host mode, built with USB_HOST_ONLY: USB_HostTask, which brings *)
(* a device from its attachment to its address, one case of its switch in  *)
(* each round of the scheduler; the control requests it makes; and the     *)
(* interrupt that may change the state of the host between any two steps   *)
(* of the task, which then overwrites it.                                  *)
(*                                                                         *)
(* A flag of the controller that no step reads is left out; a device       *)
(* answers, stalls, fails or keeps silent as it likes.                     *)
(***************************************************************************)
EXTENDS Integers

CONSTANTS
  HOST_DEVICE_SETTLE_DELAY_MS,
  WaitMS,        \* the waits between the steps of the enumeration: 100 and 200
  DefaultSize,   \* PIPE_CONTROLPIPE_DEFAULT_SIZE, the wLength of the first request
  MaxPlugs, MaxDips   \* bounds: how often a device is plugged in, and VBUS dips

ASSUME UsbHostAssumption ==
  /\ HOST_DEVICE_SETTLE_DELAY_MS \in Nat /\ WaitMS \in Nat \ {0}
  /\ DefaultSize \in Nat \ {0} /\ MaxPlugs \in Nat /\ MaxDips \in Nat

VARIABLES
  HostState, PostWaitState, WaitMSRemaining,
  IsConnected,    \* USB_IsConnected
  hostPc,         \* where the task is: "loop" outside, a case, or further on in one
  next,           \* the state the case it is in will wait for
  dataLen,        \* DataLen of the request
  frozen,         \* the control pipe
  addressSent,    \* history: the device took the address since it was attached
  overtaken,      \* history: an interrupt took the state away from a case
  enabledInts, raised,     \* the interrupts of the controller
  plugged, vbus,  \* a device is there, and what switches its power
  plugs, dips

hostVars == <<HostState, PostWaitState, WaitMSRemaining, IsConnected, hostPc, next, dataLen,
              frozen, addressSent, overtaken, enabledInts, raised, plugged, vbus, plugs, dips>>

stateVars == <<HostState, PostWaitState, WaitMSRemaining, overtaken>>
pipeState == <<dataLen, frozen, addressSent>>
intVars   == <<enabledInts, raised, IsConnected, vbus>>
plugVars  == <<plugged, plugs, dips>>

Enumerating ==
  {"Attached", "Settle", "WaitForConnect", "WaitForDevice", "DoReset", "Powered", "Default",
   "PostReset", "PostAddressSet"}

HostInit ==
  /\ HostState = "Unattached" /\ PostWaitState = "WaitForDevice" /\ WaitMSRemaining = 0
  /\ IsConnected = FALSE /\ hostPc = "loop" /\ next = "WaitForDevice" /\ dataLen = 0
  /\ frozen = TRUE /\ addressSent = FALSE /\ overtaken = FALSE
  /\ enabledInts = {"SRPI", "BCERRI"} /\ raised = {}
  /\ plugged = FALSE /\ vbus = "Manual" /\ plugs = 0 /\ dips = 0

-----------------------------------------------------------------------------
(* All interrupts are disabled and forgotten, then some are enabled.       *)
ListenFor(interrupts) == enabledInts' = interrupts /\ raised' = {}

ResetInterface ==
  /\ ListenFor({"SRPI", "BCERRI"})
  /\ IsConnected' = FALSE /\ HostState' = "Unattached" /\ vbus' = "Manual"

(* USB_GEN_vect, of the flags that are up the first in its order.          *)
Pending(i, before) == i \in enabledInts \cap raised /\ before \cap enabledInts \cap raised = {}

Overtakes ==
  /\ overtaken' = (overtaken \/ hostPc # "loop")
  /\ UNCHANGED <<PostWaitState, WaitMSRemaining, hostPc, next>>
  /\ UNCHANGED pipeState /\ UNCHANGED plugVars

OnDisconnect ==
  /\ Pending("DDISCI", {})
  /\ ResetInterface /\ Overtakes

OnVBusError ==
  /\ Pending("VBERRI", {"DDISCI"})
  /\ raised' = raised \ {"VBERRI"} /\ vbus' = "Off" /\ HostState' = "Unattached"
  /\ UNCHANGED <<enabledInts, IsConnected>> /\ Overtakes

OnSessionRequest ==
  /\ Pending("SRPI", {"DDISCI", "VBERRI"})
  /\ raised' = raised \ {"SRPI"} /\ enabledInts' = (enabledInts \ {"SRPI"}) \cup {"DDISCI"}
  /\ HostState' = "Attached"
  /\ UNCHANGED <<IsConnected, vbus>> /\ Overtakes

OnConnectError ==
  /\ Pending("BCERRI", {"DDISCI", "VBERRI", "SRPI"})
  /\ ResetInterface /\ Overtakes

HostInterrupt == OnDisconnect \/ OnVBusError \/ OnSessionRequest \/ OnConnectError

-----------------------------------------------------------------------------
(* USB_HostTask: the cases.                                                *)

Leave(pc) == hostPc' = pc /\ UNCHANGED next

(* The task reads the state and enters its case.                           *)
EnterCase ==
  /\ hostPc = "loop" /\ HostState \in Enumerating
  /\ hostPc' = HostState
  /\ UNCHANGED <<next>> /\ UNCHANGED stateVars /\ UNCHANGED pipeState
  /\ UNCHANGED intVars /\ UNCHANGED plugVars

(* What an interrupt has set is overwritten; a device that is attached     *)
(* starts afresh.                                                          *)
SetState(s) ==
  /\ HostState' = s
  /\ overtaken' = (overtaken /\ s # "Settle")

Unaltered == UNCHANGED pipeState /\ UNCHANGED intVars /\ UNCHANGED plugVars

(* USB_Host_WaitMS(1): a frame passes, unless the device is gone.  A pipe  *)
(* that is frozen neither fails nor is stalled.                            *)
FramePasses == IsConnected

(* Mutant: the frames that pass are not counted.                           *)
WaitForDeviceUncounted ==
  /\ hostPc = "WaitForDevice"
  /\ \/ /\ WaitMSRemaining > 0 /\ FramePasses
        /\ UNCHANGED <<WaitMSRemaining, HostState, overtaken>> /\ Leave("loop")
     \/ /\ WaitMSRemaining > 0 /\ ~FramePasses
        /\ SetState(PostWaitState) /\ Leave("failed") /\ UNCHANGED WaitMSRemaining
     \/ /\ WaitMSRemaining = 0
        /\ SetState(PostWaitState) /\ Leave("loop") /\ UNCHANGED WaitMSRemaining
  /\ UNCHANGED PostWaitState /\ Unaltered

WaitForDevice ==
  /\ hostPc = "WaitForDevice"
  /\ \/ /\ WaitMSRemaining > 0 /\ FramePasses
        /\ WaitMSRemaining' = WaitMSRemaining - 1
        /\ UNCHANGED <<HostState, overtaken>> /\ Leave("loop")
     \/ /\ WaitMSRemaining > 0 /\ ~FramePasses
        /\ SetState(PostWaitState) /\ Leave("failed") /\ UNCHANGED WaitMSRemaining
     \/ /\ WaitMSRemaining = 0
        /\ SetState(PostWaitState) /\ Leave("loop") /\ UNCHANGED WaitMSRemaining
  /\ UNCHANGED PostWaitState /\ Unaltered

Attached ==
  /\ hostPc = "Attached"
  /\ WaitMSRemaining' = HOST_DEVICE_SETTLE_DELAY_MS
  /\ SetState("Settle") /\ Leave("loop")
  /\ UNCHANGED PostWaitState /\ Unaltered

(* The counter wraps below zero and is set before it is used again.        *)
Settle ==
  /\ hostPc = "Settle"
  /\ IF WaitMSRemaining > 0
     THEN /\ WaitMSRemaining' = WaitMSRemaining - 1
          /\ UNCHANGED <<HostState, overtaken, vbus>>
     ELSE /\ vbus' = "Auto" /\ SetState("WaitForConnect")
          /\ UNCHANGED WaitMSRemaining
  /\ Leave("loop")
  /\ UNCHANGED <<PostWaitState, enabledInts, raised, IsConnected>>
  /\ UNCHANGED pipeState /\ UNCHANGED plugVars

(* The rest of a case: reset the device, and wait before the next state.   *)
Then(pc, state) == hostPc' = pc /\ next' = state

WaitForConnect ==
  /\ hostPc = "WaitForConnect"
  /\ IF "DCONNI" \in raised
     THEN /\ raised' = raised \ {"DCONNI", "DDISCI", "VBERRI"}
          /\ enabledInts' = enabledInts \cup {"VBERRI"}
          /\ IsConnected' = TRUE
          /\ frozen' = TRUE /\ Then("wait", "DoReset")
     ELSE Leave("loop") /\ UNCHANGED <<raised, enabledInts, IsConnected, frozen>>
  /\ UNCHANGED <<vbus, dataLen, addressSent>> /\ UNCHANGED stateVars /\ UNCHANGED plugVars

(* HOST_TASK_NONBLOCK_WAIT.                                                *)
NonBlockWait ==
  /\ hostPc = "wait"
  /\ SetState("WaitForDevice") /\ WaitMSRemaining' = WaitMS /\ PostWaitState' = next
  /\ Leave("loop") /\ Unaltered

DoReset ==
  /\ hostPc = "DoReset"
  /\ Then("reset", "Powered")
  /\ UNCHANGED stateVars /\ Unaltered

(* USB_Host_ResetDevice hides disconnections while the bus is reset, and   *)
(* forgets one when a frame is seen within 10 ms.                          *)
ResetBegins ==
  /\ hostPc = "reset"
  /\ enabledInts' = enabledInts \ {"DDISCI"}
  /\ addressSent' = FALSE
  /\ Leave("resetting")
  /\ UNCHANGED <<raised, IsConnected, vbus, dataLen, frozen>>
  /\ UNCHANGED stateVars /\ UNCHANGED plugVars

ResetEnds ==
  /\ hostPc = "resetting"
  /\ raised' \in {raised, raised \ {"DDISCI"}}
  /\ enabledInts' = enabledInts \cup {"DDISCI"}
  /\ Leave("wait")
  /\ UNCHANGED <<IsConnected, vbus>> /\ UNCHANGED pipeState
  /\ UNCHANGED stateVars /\ UNCHANGED plugVars

(* The control pipe is configured, or is not for the size of the device.   *)
Powered ==
  /\ hostPc = "Powered"
  /\ \/ SetState("Default") /\ Leave("loop") /\ UNCHANGED <<PostWaitState, WaitMSRemaining>>
     \/ Leave("failed") /\ UNCHANGED stateVars
  /\ Unaltered

StartRequest(length, state) == dataLen' = length /\ Then("request", state)

Default ==
  /\ hostPc = "Default"
  /\ StartRequest(DefaultSize, "PostReset")
  /\ UNCHANGED <<frozen, addressSent>>
  /\ UNCHANGED stateVars /\ UNCHANGED intVars /\ UNCHANGED plugVars

PostReset ==
  /\ hostPc = "PostReset"
  /\ \/ StartRequest(0, "PostAddressSet")
     \/ Leave("failed") /\ UNCHANGED dataLen
  /\ UNCHANGED <<frozen, addressSent>>
  /\ UNCHANGED stateVars /\ UNCHANGED intVars /\ UNCHANGED plugVars

PostAddressSet ==
  /\ hostPc = "PostAddressSet"
  /\ SetState("Addressed") /\ Leave("loop")
  /\ UNCHANGED <<PostWaitState, WaitMSRemaining>> /\ Unaltered

(* What follows the switch when a case has failed.                         *)
EnumerationFailed ==
  /\ hostPc = "failed"
  /\ IF HostState = "Unattached" THEN UNCHANGED <<HostState, intVars>> ELSE ResetInterface
  /\ Leave("loop")
  /\ UNCHANGED <<PostWaitState, WaitMSRemaining, overtaken>>
  /\ UNCHANGED pipeState /\ UNCHANGED plugVars

-----------------------------------------------------------------------------
(* USB_Host_SendControlRequest: the stages, each of which waits.           *)

Stages == {"setup", "pause", "in", "statusOut", "statusIn"}

RequestUnchanged == UNCHANGED stateVars /\ UNCHANGED intVars /\ UNCHANGED plugVars

(* End_Of_Control_Send.                                                    *)
EndRequest(pc) == frozen' = TRUE /\ Leave(pc) /\ UNCHANGED dataLen

RequestBegins ==
  /\ hostPc = "request"
  /\ IF FramePasses THEN frozen' = FALSE /\ Leave("setup")
                    ELSE UNCHANGED frozen /\ Leave("failed")
  /\ UNCHANGED <<dataLen, addressSent>> /\ RequestUnchanged

SetupSent ==
  /\ hostPc = "setup" /\ IsConnected /\ plugged
  /\ frozen' = TRUE /\ Leave("pause")
  /\ UNCHANGED <<dataLen, addressSent>> /\ RequestUnchanged

(* Only the first request has a data stage.                                *)
PauseEnds ==
  /\ hostPc = "pause" /\ FramePasses
  /\ frozen' = FALSE
  /\ Leave(IF dataLen > 0 THEN "in" ELSE "statusIn")
  /\ UNCHANGED <<dataLen, addressSent>> /\ RequestUnchanged

(* A packet of the device, of which no more is read than was asked for; an *)
(* empty one ends the data.                                                *)
InReceived ==
  /\ hostPc = "in" /\ IsConnected /\ plugged
  /\ \E n \in 0 .. DefaultSize :
       dataLen' = IF n = 0 \/ n > dataLen THEN 0 ELSE dataLen - n
  /\ Leave(IF dataLen' = 0 THEN "statusOut" ELSE "in")
  /\ UNCHANGED <<frozen, addressSent>> /\ RequestUnchanged

StatusOut ==
  /\ hostPc = "statusOut" /\ IsConnected /\ plugged
  /\ EndRequest("reset")
  /\ UNCHANGED addressSent /\ RequestUnchanged

StatusIn ==
  /\ hostPc = "statusIn" /\ IsConnected /\ plugged
  /\ EndRequest("wait")
  /\ addressSent' = TRUE /\ RequestUnchanged

(* Disconnected, an error of the pipe, a stall, or the software time-out.  *)
RequestFails ==
  /\ hostPc \in Stages
  /\ EndRequest("failed")
  /\ UNCHANGED addressSent /\ RequestUnchanged

HostTask ==
  \/ EnterCase \/ WaitForDevice \/ Attached \/ Settle \/ WaitForConnect \/ NonBlockWait
  \/ DoReset \/ ResetBegins \/ ResetEnds \/ Powered \/ Default \/ PostReset \/ PostAddressSet
  \/ EnumerationFailed \/ RequestBegins \/ SetupSent \/ PauseEnds \/ InReceived \/ StatusOut
  \/ StatusIn \/ RequestFails

-----------------------------------------------------------------------------
(* The device and its cable.                                               *)

PlugIn ==
  /\ ~plugged /\ plugs < MaxPlugs
  /\ plugged' = TRUE /\ plugs' = plugs + 1
  /\ raised' = raised \cup {"SRPI"}
  /\ UNCHANGED <<hostPc, next, dips, enabledInts, IsConnected, vbus>>
  /\ UNCHANGED stateVars /\ UNCHANGED pipeState

(* With power, the data lines show the device, or the controller fails to  *)
(* make out what they show.                                                *)
LinesRise ==
  /\ plugged /\ vbus = "Auto" /\ ~IsConnected
  /\ \E i \in {"DCONNI", "BCERRI"} : i \notin raised /\ raised' = raised \cup {i}
  /\ UNCHANGED <<hostPc, next, enabledInts, IsConnected, vbus>>
  /\ UNCHANGED stateVars /\ UNCHANGED pipeState /\ UNCHANGED plugVars

PullOut ==
  /\ plugged
  /\ plugged' = FALSE
  /\ raised' = raised \cup {"DDISCI"}
  /\ UNCHANGED <<hostPc, next, plugs, dips, enabledInts, IsConnected, vbus>>
  /\ UNCHANGED stateVars /\ UNCHANGED pipeState

VBusDips ==
  /\ vbus # "Off" /\ dips < MaxDips
  /\ dips' = dips + 1 /\ raised' = raised \cup {"VBERRI"}
  /\ UNCHANGED <<hostPc, next, plugged, plugs, enabledInts, IsConnected, vbus>>
  /\ UNCHANGED stateVars /\ UNCHANGED pipeState

HostNext == HostTask \/ HostInterrupt \/ PlugIn \/ LinesRise \/ PullOut \/ VBusDips

-----------------------------------------------------------------------------
(* Between two rounds of the task the control pipe is frozen, and a host   *)
(* without a device listens for one, or for the end of the one it had.     *)
(* Unless an interrupt has overtaken a case, whose last assignment then    *)
(* brings the old state back, the steps from the reset on are only taken   *)
(* while a device is connected, and the host takes a device to have its    *)
(* address only after the device has accepted it.                          *)
HostKeepsTrack ==
  /\ hostPc = "loop" => frozen
  /\ hostPc = "loop" /\ HostState = "Unattached" => {"SRPI", "DDISCI"} \cap enabledInts # {}
  /\ HostState \in {"WaitForDevice", "DoReset", "Powered", "Default", "PostReset",
                    "PostAddressSet", "Addressed"} /\ ~overtaken => IsConnected
  /\ HostState \in {"PostAddressSet", "Addressed"} /\ ~overtaken => addressSent

(* The host always keeps track, and every enumeration that goes on without *)
(* waiting for the device to show up comes to its end, whatever the device *)
(* and the interrupts do meanwhile.                                        *)
EnumerationEnds ==
  /\ []HostKeepsTrack
  /\ (HostState \in Enumerating \ {"WaitForConnect"})
       ~> (HostState \in {"WaitForConnect", "Addressed", "Unattached"})

=============================================================================
