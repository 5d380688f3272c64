-------------------------------- MODULE Hub --------------------------------
(***************************************************************************)
(* The running firmware: LUFA's round-robin scheduler, the USB events that *)
(* start and stop tasks, Ethernet_Task with the one frame buffer, CUL-     *)
(* Server's operations, Extras_Task with the one pending extra, and the    *)
(* watchdog that every round feeds.                                        *)
(*                                                                         *)
(* One action is the code between two points where the environment can be  *)
(* noticed: the host fills and drains the endpoint banks, and the USB      *)
(* interrupt fires, between any two actions.  pc is the task whose turn it *)
(* is, or the point reached inside a task.  Time is counted in ticks of    *)
(* half a second, one iteration of the blink loop; every other handler     *)
(* takes less than a tick.                                                 *)
(***************************************************************************)
EXTENDS RndisMessages, Sequences, FiniteSets

CONSTANTS
  NoFrame,        \* an empty bank
  HostFrames,     \* the [to, body] of the frames the host sends
  AirFrames,      \* those the radio delivers; ccRxPacket delivers none today
  MaxFrames,      \* bound: how many frames arrive in all
  Commands,       \* the RNDIS control messages the host sends
  WatchdogTicks,  \* WDTO_2S in ticks
  BlinkTicks,     \* iterations of the blink loop
  PowerLoss       \* whether the power may fail

Destinations == {"server", "broadcast", "other"}

(* What a frame asks of CULServer, by its effect on the hub.  "silent"     *)
(* gets no answer (unknown protocol, other IP address); "query" is every   *)
(* operation that is only answered, ARP, ping and NAK included; "reboot"   *)
(* also stands for the operations that write the EEPROM and then reboot.   *)
Bodies == {"silent", "query", "onair", "test", "blink", "reboot", "bootloader"}

Shapes == [to : Destinations, body : Bodies]

ASSUME ConstantsAssumption ==
  /\ HostFrames \subseteq Shapes /\ AirFrames \subseteq Shapes
  /\ MaxFrames \in Nat /\ WatchdogTicks \in Nat \ {0} /\ BlinkTicks \in Nat \ {0}
  /\ PowerLoss \in BOOLEAN
  /\ Commands \subseteq Message /\ \A m \in Commands : m.type \in CommandTypes

Frame == [id : 1 .. MaxFrames, src : {"RNDIS", "CC1101"}, to : Destinations, body : Bodies]

ASSUME NoFrameAssumption == NoFrame \notin Frame

Interfaces == {"NONE", "RNDIS", "CC1101", "INTERNAL"}

Kinds == {"none", "frame", "probe", "answer", "notice", "test"}

Packet == [kind : Kinds, frame : Frame \union {NoFrame},
           src : Interfaces, dst : SUBSET Interfaces]

Transmission == [to : {"RNDIS", "CC1101"}, packet : Packet, whole : BOOLEAN]

Tasks == {"Watchdog", "USB", "Notification", "Ethernet", "Timer", "Extras"}

Points == Tasks \union {"boot", "bootloader", "hang", "spin", "forwardHost",
                        "forwardAir", "process", "blink", "answer"}

Extra == {"NONE", "PACKET", "TEST", "REBOOT", "BOOTLOADER"}

VARIABLES
  pc,          \* where the main loop is
  running,     \* the tasks whose TaskStatus is TASK_RUN
  connected,   \* USB_IsConnected
  configured,  \* the data endpoints are configured
  adapter,     \* the RNDIS adapter, see RndisMessages
  outBank,     \* the frame in the data OUT endpoint
  airBank,     \* the frame the radio has received
  inBusy,      \* the data IN endpoint holds a packet
  frame,       \* the frame buffer Frame
  ifSrc,       \* If_Src of Ethernet_Task
  ifDst,       \* If_Dst of Ethernet_Task
  extraflag, extraarg,
  blinks,      \* loop counter of the blink operation
  unfed,       \* ticks since the last wdt_reset
  wdrf,        \* the watchdog reset flag of MCUSR
  reqbl,       \* the bootloader request byte of the EEPROM
  sent,        \* history: how many frames have arrived
  taken,       \* history: the frames taken from a bank
  recent,      \* history: those taken since the application last started
  log          \* history: every transmission made

usbVars   == <<running, connected, configured>>
bankVars  == <<outBank, airBank, sent>>
frameVars == <<frame, ifSrc, ifDst>>
extraVars == <<extraflag, extraarg>>
timeVars  == <<unfed, blinks>>
bootVars  == <<wdrf, reqbl>>
txVars    == <<inBusy, log>>

vars == <<pc, usbVars, adapter, bankVars, frameVars, extraVars, timeVars,
          bootVars, txVars, taken, recent>>

-----------------------------------------------------------------------------
NoArg == [src |-> "NONE", dst |-> {}]

Args == [src : Interfaces, dst : SUBSET Interfaces]

Buffer(kind, f) == [kind |-> kind, frame |-> f, src |-> "NONE", dst |-> {}]

EmptyBuffer == Buffer("none", NoFrame)

(* The order of the scheduler's task list.                                 *)
NextTask ==
  [Watchdog |-> "USB", USB |-> "Notification", Notification |-> "Ethernet",
   Ethernet |-> "Timer", Timer |-> "Extras", Extras |-> "Watchdog"]

AtBoot == {"Watchdog", "Extras"}

(* Everything in RAM and in the peripherals after a reset.                 *)
Reset ==
  /\ pc' = "boot"
  /\ running' = AtBoot /\ connected' = FALSE /\ configured' = FALSE
  /\ adapter' = PowerOnAdapter
  /\ outBank' = NoFrame /\ airBank' = NoFrame /\ inBusy' = FALSE
  /\ frame' = EmptyBuffer /\ ifSrc' = "NONE" /\ ifDst' = {}
  /\ extraflag' = "NONE" /\ extraarg' = NoArg
  /\ unfed' = 0 /\ blinks' = 0
  /\ UNCHANGED <<sent, taken, recent, log, reqbl>>

Init ==
  /\ pc = "boot"
  /\ running = AtBoot /\ connected = FALSE /\ configured = FALSE
  /\ adapter = PowerOnAdapter
  /\ outBank = NoFrame /\ airBank = NoFrame /\ inBusy = FALSE
  /\ frame = EmptyBuffer /\ ifSrc = "NONE" /\ ifDst = {}
  /\ extraflag = "NONE" /\ extraarg = NoArg
  /\ unfed = 0 /\ blinks = 0
  /\ wdrf = FALSE /\ reqbl = FALSE
  /\ sent = 0 /\ taken = {} /\ recent = {} /\ log = <<>>

-----------------------------------------------------------------------------
(* The environment: host, radio, USB interrupt, power.                     *)

MakeFrame(s, src) == [id |-> sent + 1, src |-> src, to |-> s.to, body |-> s.body]

HostSend ==
  /\ sent < MaxFrames /\ outBank = NoFrame /\ connected /\ configured
  /\ \E s \in HostFrames : outBank' = MakeFrame(s, "RNDIS")
  /\ sent' = sent + 1
  /\ UNCHANGED <<pc, usbVars, adapter, airBank, frameVars, extraVars, timeVars,
                 bootVars, txVars, taken, recent>>

AirSend ==
  /\ sent < MaxFrames /\ airBank = NoFrame /\ pc \notin {"boot", "bootloader"}
  /\ \E s \in AirFrames : airBank' = MakeFrame(s, "CC1101")
  /\ sent' = sent + 1
  /\ UNCHANGED <<pc, usbVars, adapter, outBank, frameVars, extraVars, timeVars,
                 bootVars, txVars, taken, recent>>

HostRead ==
  /\ inBusy /\ connected
  /\ inBusy' = FALSE
  /\ UNCHANGED <<pc, usbVars, adapter, bankVars, frameVars, extraVars, timeVars,
                 bootVars, log, taken, recent>>

InterruptsOn == pc \notin {"boot", "bootloader", "hang"}

(* WAKEUP interrupt, then EVENT USB_Connect.                               *)
UsbConnect ==
  /\ InterruptsOn /\ ~connected
  /\ connected' = TRUE
  /\ running' = running \union {"USB"}
  /\ UNCHANGED <<pc, configured, adapter, bankVars, frameVars, extraVars, timeVars,
                 bootVars, txVars, taken, recent>>

(* Mutant: the disconnect event stops every task.                          *)
UsbDisconnectStopsAll ==
  /\ InterruptsOn /\ connected
  /\ connected' = FALSE
  /\ running' = {}
  /\ UNCHANGED <<pc, configured, adapter, bankVars, frameVars, extraVars, timeVars,
                 bootVars, txVars, taken, recent>>

(* SUSPEND interrupt, then EVENT USB_Disconnect; the endpoints stay.       *)
UsbDisconnect ==
  /\ InterruptsOn /\ connected
  /\ connected' = FALSE
  /\ running' = running \ {"Notification", "Ethernet", "USB"}
  /\ UNCHANGED <<pc, configured, adapter, bankVars, frameVars, extraVars, timeVars,
                 bootVars, txVars, taken, recent>>

(* End of bus reset: the endpoints are cleared, the tasks run on and the   *)
(* adapter is as it was.                                                   *)
BusReset ==
  /\ InterruptsOn /\ configured
  /\ configured' = FALSE
  /\ outBank' = NoFrame /\ inBusy' = FALSE
  /\ UNCHANGED <<pc, running, connected, adapter, airBank, sent, frameVars, extraVars,
                 timeVars, bootVars, log, taken, recent>>

PowerCycle ==
  /\ PowerLoss
  /\ Reset
  /\ wdrf' = FALSE

-----------------------------------------------------------------------------
(* main() up to Scheduler_Start, the bootloader and the watchdog.          *)

(* Mutant: a request byte that was not honoured is kept.                   *)
BootKeepsRequest ==
  /\ pc = "boot"
  /\ IF wdrf /\ reqbl
     THEN pc' = "bootloader" /\ UNCHANGED <<bootVars, recent>>
     ELSE pc' = "Watchdog" /\ wdrf' = FALSE /\ recent' = {} /\ UNCHANGED reqbl
  /\ UNCHANGED <<usbVars, adapter, bankVars, frameVars, extraVars, timeVars, txVars, taken>>

(* check_bootloader_request, the factory reset of a request that was not   *)
(* honoured, and enable_watchdog.  Module Boot has the details.            *)
Boot ==
  /\ pc = "boot"
  /\ IF wdrf /\ reqbl
     THEN pc' = "bootloader" /\ UNCHANGED <<bootVars, recent>>
     ELSE pc' = "Watchdog" /\ wdrf' = FALSE /\ reqbl' = FALSE /\ recent' = {}
  /\ UNCHANGED <<usbVars, adapter, bankVars, frameVars, extraVars, timeVars, txVars, taken>>

(* The bootloader starts the application, by a jump or by a reset.         *)
LeaveBootloader ==
  /\ pc = "bootloader"
  /\ pc' = "boot"
  /\ wdrf' \in BOOLEAN
  /\ UNCHANGED <<usbVars, adapter, bankVars, frameVars, extraVars, timeVars, reqbl,
                 txVars, taken, recent>>

(* Mutant: the final loop feeds the watchdog.                              *)
TickFeeds ==
  /\ pc \in {"spin", "hang"}
  /\ unfed' = 0
  /\ UNCHANGED <<pc, usbVars, adapter, bankVars, frameVars, extraVars, blinks, bootVars,
                 txVars, taken, recent>>

(* Half a second in a loop that does not feed the watchdog: reboot() and   *)
(* prepare_bootloader() for ever, or a control transfer the host gave up.  *)
Tick ==
  /\ pc \in {"spin", "hang"}
  /\ unfed < WatchdogTicks
  /\ unfed' = unfed + 1
  /\ UNCHANGED <<pc, usbVars, adapter, bankVars, frameVars, extraVars, blinks, bootVars,
                 txVars, taken, recent>>

WatchdogReset ==
  /\ unfed = WatchdogTicks
  /\ Reset
  /\ wdrf' = TRUE

-----------------------------------------------------------------------------
(* The scheduler's round.                                                  *)

SkipTask ==
  /\ pc \in Tasks \ running
  /\ pc' = NextTask[pc]
  /\ UNCHANGED <<usbVars, adapter, bankVars, frameVars, extraVars, timeVars, bootVars,
                 txVars, taken, recent>>

Turn(t) == pc = t /\ t \in running

WatchdogTask ==
  /\ Turn("Watchdog")
  /\ unfed' = 0
  /\ pc' = NextTask["Watchdog"]
  /\ UNCHANGED <<usbVars, adapter, bankVars, frameVars, extraVars, blinks, bootVars,
                 txVars, taken, recent>>

(* USB_USBTask without a pending SETUP, or with one that only reads.       *)
UsbTaskIdle ==
  /\ Turn("USB")
  /\ pc' = NextTask["USB"]
  /\ UNCHANGED <<usbVars, adapter, bankVars, frameVars, extraVars, timeVars, bootVars,
                 txVars, taken, recent>>

(* SetConfiguration, then EVENT USB_ConfigurationChanged.                  *)
SetConfiguration ==
  /\ Turn("USB") /\ connected
  /\ configured' = TRUE
  /\ outBank' = NoFrame /\ inBusy' = FALSE
  /\ running' = running \union {"Notification", "Ethernet"}
  /\ pc' = NextTask["USB"]
  /\ UNCHANGED <<connected, adapter, airBank, sent, frameVars, extraVars, timeVars,
                 bootVars, log, taken, recent>>

(* EVENT USB_UnhandledControlPacket with one of the two RNDIS requests.    *)
EncapsulatedCommand ==
  /\ Turn("USB") /\ connected
  /\ \E m \in Commands : adapter' = ProcessRNDISControlMessage(adapter, m)
  /\ pc' = NextTask["USB"]
  /\ UNCHANGED <<usbVars, bankVars, frameVars, extraVars, timeVars, bootVars, txVars,
                 taken, recent>>

EncapsulatedResponseRead ==
  /\ Turn("USB") /\ connected
  /\ adapter' = GetEncapsulatedResponse(adapter)
  /\ pc' = NextTask["USB"]
  /\ UNCHANGED <<usbVars, bankVars, frameVars, extraVars, timeVars, bootVars, txVars,
                 taken, recent>>

(* The host does not complete a control transfer: the handler waits with   *)
(* interrupts off, until the host goes on after all or the watchdog bites. *)
AbandonedTransfer ==
  /\ Turn("USB") /\ connected
  /\ pc' = "hang"
  /\ UNCHANGED <<usbVars, adapter, bankVars, frameVars, extraVars, timeVars, bootVars,
                 txVars, taken, recent>>

ResumedTransfer ==
  /\ pc = "hang" /\ unfed < WatchdogTicks
  /\ pc' = NextTask["USB"]
  /\ UNCHANGED <<usbVars, adapter, bankVars, frameVars, extraVars, timeVars, bootVars,
                 txVars, taken, recent>>

NotificationTask ==
  /\ Turn("Notification")
  /\ adapter' \in {adapter} \union (IF configured THEN {Announced(adapter)} ELSE {})
  /\ pc' = NextTask["Notification"]
  /\ UNCHANGED <<usbVars, bankVars, frameVars, extraVars, timeVars, bootVars, txVars,
                 taken, recent>>

-----------------------------------------------------------------------------
(* Ethernet_Task.                                                          *)

Record(to, p, whole) == [to |-> to, packet |-> p, whole |-> whole]

(* RNDIS_TX: a packet is handed to the host unless the bank is busy or the *)
(* data path is shut; the return codes of the stream calls are ignored, so *)
(* a packet the host does not fetch in time goes out cut short.            *)
CanSend == configured /\ ~inBusy /\ DataOpen(adapter)

RNDIS_TX(p) ==
  \/ CanSend /\ inBusy' = TRUE
     /\ \E whole \in IF connected THEN BOOLEAN ELSE {FALSE} :
          log' = Append(log, Record("RNDIS", p, whole))
  \/ ~CanSend /\ UNCHANGED txVars

(* CC1101_TX: ccTxPacket may give the packet up half way and is not asked. *)
CC1101_TX(p) ==
  /\ \E whole \in BOOLEAN : log' = Append(log, Record("CC1101", p, whole))
  /\ UNCHANGED inBusy

(* The destination interfaces of the frame in the buffer.                  *)
Destination(f, src) ==
  CASE f.to = "server"    -> {"INTERNAL"}
    [] f.to = "broadcast" -> {"RNDIS", "CC1101", "INTERNAL"} \ {src}
    [] f.to = "other"     -> IF src = "CC1101" THEN {"RNDIS"} ELSE {"CC1101"}

Receive(f, src) ==
  /\ frame' = Buffer("frame", f)
  /\ ifSrc' = src
  /\ ifDst' = Destination(f, src)
  /\ taken' = taken \union {f} /\ recent' = recent \union {f}
  /\ pc' = "forwardHost"

(* Mutant: frames are taken only while the IN bank is free.                *)
CanReceiveWhenDrained == configured /\ outBank # NoFrame /\ ~inBusy /\ DataOpen(adapter)

CanReceive == configured /\ outBank # NoFrame /\ DataOpen(adapter)

(* Mutant: the bank is not released.                                       *)
RNDIS_RXKeepsBank ==
  /\ Turn("Ethernet") /\ CanReceive
  /\ Receive(outBank, "RNDIS")
  /\ UNCHANGED <<usbVars, adapter, bankVars, extraVars, timeVars, bootVars, txVars>>

(* RX: the host's bank first, then the radio.                              *)
RNDIS_RX ==
  /\ Turn("Ethernet") /\ CanReceive
  /\ Receive(outBank, "RNDIS")
  /\ outBank' = NoFrame
  /\ UNCHANGED <<usbVars, adapter, airBank, sent, extraVars, timeVars, bootVars, txVars>>

CC1101_RX ==
  /\ Turn("Ethernet") /\ ~CanReceive /\ airBank # NoFrame
  /\ Receive(airBank, "CC1101")
  /\ airBank' = NoFrame
  /\ UNCHANGED <<usbVars, adapter, outBank, sent, extraVars, timeVars, bootVars, txVars>>

NothingReceived ==
  /\ Turn("Ethernet") /\ ~CanReceive /\ airBank = NoFrame
  /\ pc' = NextTask["Ethernet"]
  /\ UNCHANGED <<usbVars, adapter, bankVars, frameVars, extraVars, timeVars, bootVars,
                 txVars, taken, recent>>

(* TX(If_Dst), the host's half of it.                                      *)
ForwardHost ==
  /\ pc = "forwardHost"
  /\ IF "RNDIS" \in ifDst THEN RNDIS_TX(frame) ELSE UNCHANGED txVars
  /\ pc' = "forwardAir"
  /\ UNCHANGED <<usbVars, adapter, bankVars, frameVars, extraVars, timeVars,
                 bootVars, taken, recent>>

(* The radio's half, then the notice is left for Extras_Task.              *)
ForwardAir ==
  /\ pc = "forwardAir"
  /\ IF "CC1101" \in ifDst THEN CC1101_TX(frame) ELSE UNCHANGED txVars
  /\ extraflag' = "PACKET"
  /\ extraarg' = [src |-> ifSrc, dst |-> ifDst]
  /\ pc' = IF "INTERNAL" \in ifDst THEN "process" ELSE NextTask["Ethernet"]
  /\ UNCHANGED <<usbVars, adapter, bankVars, frameVars, timeVars, bootVars, taken,
                 recent>>

Body == frame.frame.body

(* The answer is built over the frame, in the same buffer.                 *)
BuildAnswer == frame' = Buffer("answer", frame.frame)

(* Ethernet_ProcessPacket returns false: nothing to send.                  *)
ProcessSilent ==
  /\ pc = "process" /\ Body = "silent"
  /\ pc' = NextTask["Ethernet"]
  /\ UNCHANGED <<usbVars, adapter, bankVars, frameVars, extraVars, timeVars, bootVars,
                 txVars, taken, recent>>

(* The operation's mark on extraflag; EXTRA_TEST sets extraarg to 0xff,    *)
(* which nothing decodes.                                                  *)
OperationExtra ==
  CASE Body = "test"       -> extraflag' = "TEST" /\ extraarg' = NoArg
    [] Body = "reboot"     -> extraflag' = "REBOOT" /\ UNCHANGED extraarg
    [] Body = "bootloader" -> extraflag' = "BOOTLOADER" /\ UNCHANGED extraarg
    [] OTHER               -> UNCHANGED extraVars

(* Ethernet_ProcessPacket, but for the operation that blinks.              *)
ProcessRequest ==
  /\ pc = "process" /\ Body \notin {"silent", "blink"}
  /\ OperationExtra
  /\ IF Body = "onair" THEN CC1101_TX(Buffer("probe", frame.frame)) ELSE UNCHANGED txVars
  /\ BuildAnswer
  /\ pc' = "answer"
  /\ UNCHANGED <<usbVars, adapter, bankVars, ifSrc, ifDst, timeVars, bootVars, taken,
                 recent>>

ProcessBlink ==
  /\ pc = "process" /\ Body = "blink"
  /\ blinks' = 0
  /\ pc' = "blink"
  /\ UNCHANGED <<usbVars, adapter, bankVars, frameVars, extraVars, unfed, bootVars,
                 txVars, taken, recent>>

(* One turn of the blink loop takes a tick and does not feed the watchdog. *)
Blink ==
  /\ pc = "blink" /\ unfed < WatchdogTicks
  /\ blinks < BlinkTicks
  /\ blinks' = blinks + 1
  /\ unfed' = unfed + 1
  /\ UNCHANGED <<pc, usbVars, adapter, bankVars, frameVars, extraVars, bootVars,
                 txVars, taken, recent>>

Blinked ==
  /\ pc = "blink" /\ unfed < WatchdogTicks
  /\ blinks = BlinkTicks
  /\ BuildAnswer
  /\ pc' = "answer"
  /\ UNCHANGED <<usbVars, adapter, bankVars, ifSrc, ifDst, extraVars, timeVars, bootVars,
                 txVars, taken, recent>>

(* Mutant: the notice is marked after the frame has been processed.        *)
AnswerThenMark ==
  /\ pc = "answer"
  /\ IF ifSrc = "RNDIS" THEN RNDIS_TX(frame) ELSE CC1101_TX(frame)
  /\ ifDst' = {ifSrc} /\ ifSrc' = "INTERNAL"
  /\ extraflag' = "PACKET" /\ extraarg' = [src |-> ifSrc, dst |-> ifDst]
  /\ pc' = NextTask["Ethernet"]
  /\ UNCHANGED <<usbVars, adapter, bankVars, frame, timeVars, bootVars, taken, recent>>

(* TX(If_Src): the answer goes back to where the frame came from.          *)
Answer ==
  /\ pc = "answer"
  /\ IF ifSrc = "RNDIS" THEN RNDIS_TX(frame) ELSE CC1101_TX(frame)
  /\ ifDst' = {ifSrc} /\ ifSrc' = "INTERNAL"
  /\ pc' = NextTask["Ethernet"]
  /\ UNCHANGED <<usbVars, adapter, bankVars, frame, extraVars, timeVars, bootVars,
                 taken, recent>>

-----------------------------------------------------------------------------
(* Extras_Task.                                                            *)

(* Mutant: the flag is not reset.                                          *)
ExtraDoneKeepsFlag ==
  /\ UNCHANGED extraVars
  /\ pc' = NextTask["Extras"]

ExtraDone ==
  /\ extraflag' = "NONE" /\ extraarg' = NoArg
  /\ pc' = NextTask["Extras"]

NoExtra ==
  /\ Turn("Extras") /\ extraflag = "NONE"
  /\ ExtraDone
  /\ UNCHANGED <<usbVars, adapter, bankVars, frameVars, timeVars, bootVars, txVars,
                 taken, recent>>

(* send_msg and send_packet build their packet over the frame buffer.      *)
ExtraPacket ==
  IF extraflag = "TEST" THEN Buffer("test", NoFrame)
  ELSE [kind |-> "notice", frame |-> NoFrame, src |-> extraarg.src, dst |-> extraarg.dst]

SendExtra ==
  /\ Turn("Extras") /\ extraflag \in {"TEST", "PACKET"}
  /\ frame' = ExtraPacket
  /\ RNDIS_TX(ExtraPacket)
  /\ ExtraDone
  /\ UNCHANGED <<usbVars, adapter, bankVars, ifSrc, ifDst, timeVars, bootVars, taken,
                 recent>>

(* reboot and prepare_bootloader: they never return, extraflag stays.      *)
StartSpin ==
  /\ Turn("Extras") /\ extraflag \in {"REBOOT", "BOOTLOADER"}
  /\ reqbl' = (extraflag = "BOOTLOADER")
  /\ pc' = "spin"
  /\ UNCHANGED <<usbVars, adapter, bankVars, frameVars, extraVars, timeVars, wdrf,
                 txVars, taken, recent>>

-----------------------------------------------------------------------------
Environment ==
  HostSend \/ AirSend \/ HostRead \/ UsbConnect \/ UsbDisconnect \/ BusReset \/ PowerCycle

UsbTask ==
  UsbTaskIdle \/ SetConfiguration \/ EncapsulatedCommand \/ EncapsulatedResponseRead
    \/ AbandonedTransfer

EthernetTask ==
  RNDIS_RX \/ CC1101_RX \/ NothingReceived \/ ForwardHost \/ ForwardAir \/ ProcessSilent
    \/ ProcessRequest \/ ProcessBlink \/ Blink \/ Blinked \/ Answer

ExtrasTask == NoExtra \/ SendExtra \/ StartSpin

MainLoop == Boot \/ SkipTask \/ WatchdogTask \/ UsbTask \/ NotificationTask \/ EthernetTask \/ ExtrasTask

Next ==
  Environment \/ MainLoop \/ ResumedTransfer \/ LeaveBootloader \/ Tick \/ WatchdogReset

Spec == Init /\ [][Next]_vars

(* The processor runs and the watchdog's oscillator ticks; nothing is      *)
(* assumed of the host, the radio or the bootloader.                       *)
FairSpec == Spec /\ WF_vars(MainLoop) /\ WF_vars(Tick) /\ WF_vars(WatchdogReset)

-----------------------------------------------------------------------------
(* The hub as an implementation of Bridge.                                 *)

Duty == INSTANCE Duties

(* What the frame in the buffer is still owed at each point of the round.  *)
OwedNow ==
  LET all == Duty!Owed(frame.frame)
  IN CASE pc = "forwardHost"            -> all
       [] pc = "forwardAir"             -> all \ {"host"}
       [] pc \in {"process", "blink"}   -> all \ {"host", "air"}
       [] pc = "answer"                 -> all \intersect {"answer", "extra"}
       [] pc \in {"Timer", "Extras"}    -> IF extraflag \in {"PACKET", "TEST"}
                                          THEN {"extra"} ELSE {}
       [] OTHER                         -> {}

CurNow == IF OwedNow = {} THEN NoFrame ELSE frame.frame

Promise == INSTANCE Bridge WITH cur <- CurNow, owed <- OwedNow

-----------------------------------------------------------------------------
(* Properties.                                                             *)

(* Type correctness of every variable.                                     *)
TypeOK ==
  /\ pc \in Points
  /\ running \subseteq Tasks /\ AtBoot \subseteq running /\ "Timer" \notin running
  /\ connected \in BOOLEAN /\ configured \in BOOLEAN
  /\ adapter \in Adapter
  /\ outBank \in Frame \union {NoFrame} /\ airBank \in Frame \union {NoFrame}
  /\ inBusy \in BOOLEAN
  /\ frame \in Packet /\ ifSrc \in Interfaces /\ ifDst \subseteq Interfaces
  /\ extraflag \in Extra /\ extraarg \in Args
  /\ blinks \in 0 .. BlinkTicks /\ unfed \in 0 .. WatchdogTicks
  /\ wdrf \in BOOLEAN /\ reqbl \in BOOLEAN
  /\ sent \in 0 .. MaxFrames /\ taken \subseteq Frame /\ recent \subseteq taken
  /\ log \in Seq(Transmission)

(* The one pending extra is raised by Ethernet_Task and consumed by        *)
(* Extras_Task of the same round, so that no later frame overwrites a      *)
(* reboot, a bootloader request or a notice that waits, and no frame is    *)
(* received while one does.                                                *)
PendingExtra ==
  extraflag # "NONE" => pc \in {"process", "blink", "answer", "Timer", "Extras", "spin"}

(* The one buffer holds what the point reached in the round takes it for:  *)
(* the frame in service with the interfaces worked out for it, then the    *)
(* answer built over it; the extra that waits is the one this frame left;  *)
(* and a frame that waits in a bank has not been taken yet.                *)
InService(kind) ==
  /\ frame.frame \in Frame /\ frame = Buffer(kind, frame.frame)
  /\ ifSrc = frame.frame.src

Noticed == extraflag = "PACKET" /\ extraarg = [src |-> frame.frame.src,
                                              dst |-> Destination(frame.frame, frame.frame.src)]

ExtraOfBody ==
  CASE Body = "test"       -> extraflag = "TEST"
    [] Body = "reboot"     -> extraflag = "REBOOT"
    [] Body = "bootloader" -> extraflag = "BOOTLOADER"
    [] OTHER               -> Noticed

Waiting(bank, src) ==
  bank # NoFrame => bank.src = src /\ bank.id <= sent /\ bank \notin taken

AtPoint ==
  /\ pc \in {"forwardHost", "forwardAir", "process", "blink"} =>
       InService("frame") /\ ifDst = Destination(frame.frame, ifSrc)
  /\ pc \in {"process", "blink"} => "INTERNAL" \in ifDst /\ Noticed
  /\ pc = "blink" => Body = "blink"
  /\ pc = "answer" => InService("answer") /\ Duty!Answered(frame.frame) /\ ExtraOfBody
  /\ pc \in {"Timer", "Extras"} /\ extraflag # "NONE" =>
       /\ frame.frame \in Frame
       /\ IF Duty!Answered(frame.frame) THEN ExtraOfBody ELSE Noticed

Banked ==
  /\ Waiting(outBank, "RNDIS") /\ Waiting(airBank, "CC1101")
  /\ \A f \in taken : f.id <= sent

Service == AtPoint /\ Banked

(* The firmware is in the bootloader only if a frame asked CULServer for   *)
(* it since the application was last started: no other reset, of the       *)
(* watchdog or of the power, ends there, and a request that was cut off    *)
(* before it was honoured is not left over for a later watchdog reset.     *)
BootloaderRequested ==
  pc = "bootloader" =>
    \E f \in recent : f.body = "bootloader" /\ f.to \in {"server", "broadcast"}

(* A reboot or a bootloader request, once it is marked, is not replaced by *)
(* anything but a reset, whatever interrupts and frames come in between.   *)
RequestSticks ==
  [][(extraflag \in {"REBOOT", "BOOTLOADER"} /\ extraflag' # extraflag) => (pc' = "boot")]_vars

(* Transmissions are those of module Bridge: each frame is served once, by *)
(* the transmissions it is owed, in order, to the right interface and with *)
(* the right content, whatever the one shared buffer goes through.         *)
PromiseKept == Promise!Spec

(* A request that was marked is carried out: the main loop gets to         *)
(* Extras_Task and the watchdog ends the loop there; a bootloader request  *)
(* ends in the bootloader, or in the power-on reset of a power that fails  *)
(* before.                                                                 *)
RequestsHappen ==
  /\ extraflag = "REBOOT" ~> pc = "boot"
  /\ extraflag = "BOOTLOADER" ~> (pc = "bootloader" \/ (pc = "boot" /\ ~wdrf))

(* A host that does not fetch what the hub sends cannot stop the hub from  *)
(* taking frames: while the data path is open the OUT bank gets free again *)
(* and again.  Nothing is assumed of HostRead.                             *)
DataPathUp == configured /\ DataOpen(adapter) /\ "Ethernet" \in running /\ pc # "hang"

OutBankDrains == <>[]DataPathUp => []<>(outBank = NoFrame)

(* docs/README: every packet that runs through the hub sends a notice to   *)
(* the host.  Here: at least while the link is up and the data path open.  *)
(* Extras_Task drops the notice when the IN bank still holds the answer.   *)
LinkUp == connected /\ configured /\ DataOpen(adapter)

EveryPacketNoticed ==
  [][(pc = "Extras" /\ extraflag = "PACKET" /\ pc' = "Watchdog" /\ LinkUp) => (log' # log)]_vars

=============================================================================
