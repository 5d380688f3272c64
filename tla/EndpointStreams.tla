-------------------------- MODULE EndpointStreams --------------------------
(***************************************************************************)
(* The data endpoints and the stream functions of Endpoint.c, as RNDIS_RX  *)
(* and RNDIS_TX use them: a message is a header and a frame, each a stream *)
(* of its own, cut into packets of one bank.  Between any two bytes the    *)
(* host may fill or drain a bank, a frame of the bus may start, and the    *)
(* USB interrupt may reset the endpoints or note that the bus is idle.     *)
(*                                                                         *)
(* A byte is the message it belongs to and its position there; the data    *)
(* path is taken to be open (module Hub has the conditions).               *)
(***************************************************************************)
EXTENDS Integers, SequencesExt

CONSTANTS
  BankSize,      \* bytes in a bank of the data endpoints
  HeaderSize,    \* sizeof(RNDIS_PACKET_MSG_t)
  MaxFrame,      \* the longest frame MessageLength is allowed to announce
  Lengths,       \* the frame lengths that occur
  StreamTimeout, \* USB_STREAM_TIMEOUT_MS
  MaxReceived,   \* bound: how many messages the host sends
  MaxSent,       \* bound: how many frames the device sends
  MaxResets,     \* bound: how many bus resets
  MaxSuspends    \* bound: how often the bus falls idle

ASSUME SizesAssumption ==
  /\ BankSize \in Nat \ {0} /\ HeaderSize \in Nat \ {0}
  /\ MaxFrame \in Nat /\ Lengths \subseteq Nat /\ StreamTimeout \in Nat
  /\ MaxReceived \in Nat /\ MaxSent \in Nat /\ MaxResets \in Nat /\ MaxSuspends \in Nat

DataEndpoints == {"tx", "rx"}

Byte == [msg : Nat, pos : Nat]

Message(m, length) == [i \in 1 .. HeaderSize + length |-> [msg |-> m, pos |-> i]]

VARIABLES
  pc,         \* the task: "idle", "selected", or in a stream "wait" or "byte"
  job,        \* "tx" or "rx"
  stage,      \* the stream: "header" or "data"
  done,       \* how many bytes of the stream were transferred
  length,     \* the frame length: Frame.FrameLength, or the header's DataLength
  timeout,    \* TimeoutMSRem
  sofi,       \* the start-of-frame flag
  selected,   \* UENUM
  bank,       \* the bytes in each endpoint's bank
  toHost,     \* the banks that belong to the host
  enabled, stalled,
  connected,  \* USB_IsConnected
  running,    \* Ethernet_Task has TASK_RUN
  buffer,     \* the bytes the receiver has copied: header, then frame
  hostOut,    \* what the host has still to send of its message
  received,   \* the frame lengths of the messages the host has sent
  sent,       \* the frame lengths of the messages the device has sent
  resets, suspends,
  floating,   \* what RWAL reads for the control endpoint
  frames,     \* history: frames of the bus since the wait began
  disturbed,  \* history: a stream failed, or the endpoints were reset
  delivered,  \* history: what RNDIS_RX has made of each message
  hostIn      \* history: the bytes the host has read

streamVars == <<done, timeout, frames>>
jobVars    == <<job, stage, length, buffer>>
wireVars   == <<floating, hostOut, received, resets, suspends, hostIn>>
linkVars   == <<enabled, stalled, connected, running>>
vars       == <<pc, jobVars, streamVars, sofi, selected, bank, toHost, linkVars,
                wireVars, sent, disturbed, delivered>>

Init ==
  /\ pc = "idle" /\ job = "tx" /\ stage = "header" /\ length = 0 /\ buffer = <<>>
  /\ done = 0 /\ timeout = 0 /\ frames = 0
  /\ floating \in BOOLEAN
  /\ sofi = FALSE /\ selected = "control"
  /\ bank = [e \in DataEndpoints |-> <<>>] /\ toHost = {"rx"}
  /\ enabled = DataEndpoints /\ stalled = {} /\ connected = TRUE /\ running = TRUE
  /\ hostOut = <<>> /\ received = <<>> /\ sent = <<>> /\ resets = 0 /\ suspends = 0
  /\ disturbed = FALSE /\ delivered = <<>> /\ hostIn = <<>>

-----------------------------------------------------------------------------
(* The bank of the selected endpoint.                                      *)

(* RWAL: an IN bank that is not full, an OUT bank that is not empty; never *)
(* of a stalled or a disabled endpoint.                                    *)
ReadWriteAllowed(e) ==
  /\ e \in enabled /\ e \notin stalled /\ e \notin toHost
  /\ IF e = "tx" THEN Len(bank[e]) < BankSize ELSE bank[e] # <<>>

(* The flag means nothing for a control endpoint, where it may read as     *)
(* either value.                                                           *)
Allowed == IF selected = "control" THEN floating ELSE ReadWriteAllowed(selected)

(* Sends the bank of an IN endpoint, frees that of an OUT endpoint.        *)
ClearCurrentBank ==
  IF selected = "control" THEN UNCHANGED <<bank, toHost>>
  ELSE /\ toHost' = IF selected \in enabled THEN toHost \union {selected} ELSE toHost
       /\ bank' = IF selected = "rx" THEN [bank EXCEPT !["rx"] = <<>>] ELSE bank

StreamLength == IF stage = "header" THEN HeaderSize ELSE length

(* Mutant: the pointer is moved on before it is used.                      *)
OutByteAhead == [msg |-> Len(sent), pos |-> IF stage = "header" THEN done + 1 ELSE HeaderSize + done + 2]

(* The byte a writer stores next, from the header or from the frame.       *)
OutByte == [msg |-> Len(sent), pos |-> IF stage = "header" THEN done + 1 ELSE HeaderSize + done + 1]

-----------------------------------------------------------------------------
(* Ethernet_Task and the two functions of If_RNDIS.c.                      *)

Unmoved == <<sofi, linkVars, wireVars>>

(* Mutant: a flag left from an earlier frame counts.                       *)
StartWaitStale ==
  /\ timeout' = StreamTimeout /\ UNCHANGED sofi /\ frames' = 0
  /\ pc' = "wait"

(* WaitUntilReady starts with TimeoutMSRem = USB_STREAM_TIMEOUT_MS and     *)
(* clears the flag.                                                        *)
StartWait ==
  /\ timeout' = StreamTimeout /\ sofi' = FALSE /\ frames' = 0
  /\ pc' = "wait"

(* Back to the scheduler; the locals are gone, and the flag is cleared by  *)
(* the next wait before it is looked at.                                   *)
LeaveTask ==
  /\ pc' = "idle" /\ stage' = "header" /\ length' = 0 /\ buffer' = <<>>
  /\ done' = 0 /\ timeout' = 0 /\ frames' = 0 /\ sofi' = FALSE

StartStream(s) == /\ stage' = s /\ done' = 0 /\ StartWait

(* RNDIS_TX is called with a frame of some length, RNDIS_RX in every round.*)
SelectTx ==
  /\ pc = "idle" /\ running /\ Len(sent) < MaxSent
  /\ \E n \in {m \in Lengths : m <= MaxFrame} : length' = n
  /\ job' = "tx" /\ selected' = "tx" /\ pc' = "selected"
  /\ UNCHANGED <<stage, buffer, sent, streamVars, bank, toHost, disturbed, delivered, Unmoved>>

SelectRx ==
  /\ pc = "idle" /\ running
  /\ job' = "rx" /\ selected' = "rx" /\ length' = 0 /\ pc' = "selected"
  /\ UNCHANGED <<stage, buffer, sent, streamVars, bank, toHost, disturbed, delivered, Unmoved>>

(* The endpoint is ready: the header is a stream.                          *)
BeginHeader ==
  /\ pc = "selected" /\ Allowed
  /\ StartStream("header") /\ buffer' = <<>>
  /\ sent' = IF job = "tx" THEN Append(sent, length) ELSE sent
  /\ UNCHANGED <<job, length, selected, bank, toHost, linkVars, wireVars,
                 disturbed, delivered>>

(* The frame is dropped, or there is nothing to receive.                   *)
NotReady ==
  /\ pc = "selected" /\ ~Allowed
  /\ LeaveTask
  /\ UNCHANGED <<job, sent, selected, bank, toHost, disturbed, delivered, linkVars, wireVars>>

(* What follows a stream, whose result is ignored: the frame after the     *)
(* header, the end after the frame.                                        *)
DataLengths ==
  IF job = "tx" THEN {length}
  ELSE IF Len(buffer) = HeaderSize /\ \A i \in 1 .. HeaderSize : buffer[i].pos = i
       THEN {received[buffer[1].msg]}
       ELSE Lengths

AfterHeader ==
  \E n \in DataLengths :
    IF job = "rx" /\ n > MaxFrame
    THEN /\ stalled' = IF selected \in enabled THEN stalled \union {selected} ELSE stalled
         /\ LeaveTask
         /\ UNCHANGED <<bank, toHost, delivered>>
    ELSE /\ length' = n /\ StartStream("data")
         /\ UNCHANGED <<buffer, stalled, bank, toHost, delivered>>

AfterData ==
  /\ ClearCurrentBank
  /\ delivered' = IF job = "rx" THEN Append(delivered, buffer) ELSE delivered
  /\ LeaveTask
  /\ UNCHANGED stalled

Return(c) ==
  /\ disturbed' = (disturbed \/ c # "NoError")
  /\ IF stage = "header" THEN AfterHeader ELSE AfterData
  /\ UNCHANGED <<job, selected, enabled, connected, running, wireVars, sent>>

-----------------------------------------------------------------------------
(* The stream functions, which nothing stalls while they wait: wait once,  *)
(* then before each byte that finds no room or nothing to read.            *)

WaitReady ==
  /\ pc = "wait" /\ Allowed
  /\ pc' = "byte"
  /\ UNCHANGED <<jobVars, streamVars, selected, bank, toHost, sent, disturbed, delivered, Unmoved>>

WaitDisconnected ==
  /\ pc = "wait" /\ ~Allowed /\ ~connected
  /\ Return("DeviceDisconnected")

WaitTimeout ==
  /\ pc = "wait" /\ ~Allowed /\ connected /\ sofi
  /\ timeout = 0
  /\ Return("Timeout")

(* Mutant: every frame of the bus starts the time-out anew.                *)
WaitFrameReload ==
  /\ pc = "wait" /\ ~Allowed /\ connected /\ sofi
  /\ timeout > 0
  /\ timeout' = StreamTimeout /\ sofi' = FALSE
  /\ UNCHANGED <<pc, jobVars, done, frames, selected, bank, toHost, linkVars,
                 wireVars, sent, disturbed, delivered>>

WaitFrame ==
  /\ pc = "wait" /\ ~Allowed /\ connected /\ sofi
  /\ timeout > 0
  /\ timeout' = timeout - 1 /\ sofi' = FALSE
  /\ UNCHANGED <<pc, jobVars, done, frames, selected, bank, toHost, linkVars, wireVars,
                 sent, disturbed, delivered>>

(* No room, or nothing left: pass the bank on and wait for the next one.   *)
NextBank ==
  /\ pc = "byte" /\ done < StreamLength /\ ~Allowed
  /\ ClearCurrentBank /\ StartWait
  /\ UNCHANGED <<jobVars, done, selected, linkVars, wireVars, sent, disturbed,
                 delivered>>

WriteByte ==
  /\ pc = "byte" /\ job = "tx" /\ done < StreamLength /\ Allowed
  /\ done' = done + 1
  /\ bank' = IF selected = "tx" THEN [bank EXCEPT !["tx"] = Append(@, OutByte)] ELSE bank
  /\ UNCHANGED <<pc, jobVars, timeout, frames, sofi, selected, toHost, linkVars,
                 wireVars, sent, disturbed, delivered>>

ReadByte ==
  /\ pc = "byte" /\ job = "rx" /\ done < StreamLength /\ Allowed
  /\ done' = done + 1
  /\ IF selected = "rx"
     THEN /\ buffer' = Append(buffer, Head(bank["rx"]))
          /\ bank' = [bank EXCEPT !["rx"] = Tail(@)]
     ELSE UNCHANGED <<bank, buffer>>
  /\ UNCHANGED <<pc, job, stage, length, timeout, frames, selected, toHost, sent,
                 disturbed, delivered, Unmoved>>

StreamDone ==
  /\ pc = "byte" /\ done = StreamLength
  /\ Return("NoError")

-----------------------------------------------------------------------------
(* The host, the bus and the USB interrupt.                                *)

TaskVars == <<pc, jobVars, streamVars, selected, sent, delivered>>

HostMessage ==
  /\ hostOut = <<>> /\ Len(received) < MaxReceived
  /\ \E n \in Lengths :
       /\ received' = Append(received, n)
       /\ hostOut' = Message(Len(received) + 1, n)
  /\ UNCHANGED <<TaskVars, sofi, bank, toHost, linkVars, floating, resets, suspends, hostIn,
                 disturbed>>

Packet(s) == SubSeq(s, 1, IF Len(s) < BankSize THEN Len(s) ELSE BankSize)

HostSends ==
  /\ hostOut # <<>> /\ connected
  /\ "rx" \in toHost /\ "rx" \in enabled /\ "rx" \notin stalled
  /\ bank' = [bank EXCEPT !["rx"] = Packet(hostOut)]
  /\ hostOut' = SubSeq(hostOut, Len(Packet(hostOut)) + 1, Len(hostOut))
  /\ toHost' = toHost \ {"rx"}
  /\ UNCHANGED <<TaskVars, sofi, linkVars, floating, received, resets, suspends, hostIn, disturbed>>

HostReads ==
  /\ connected /\ "tx" \in toHost /\ "tx" \in enabled
  /\ hostIn' = hostIn \o bank["tx"]
  /\ bank' = [bank EXCEPT !["tx"] = <<>>]
  /\ toHost' = toHost \ {"tx"}
  /\ UNCHANGED <<TaskVars, sofi, linkVars, floating, hostOut, received, resets, suspends, disturbed>>

(* Mutant: the bank keeps what was left of the message that was refused.   *)
ClearHaltOnly ==
  /\ pc = "idle" /\ connected /\ "rx" \in stalled
  /\ stalled' = {} /\ hostOut' = <<>>
  /\ UNCHANGED <<TaskVars, sofi, bank, toHost, enabled, connected, running, floating, received, resets,
                 suspends, hostIn, disturbed>>

(* The host gives up a message that is answered with a stall and clears    *)
(* the halt: the USB task clears the stall and resets the FIFO.            *)
ClearHalt ==
  /\ pc = "idle" /\ connected /\ "rx" \in stalled
  /\ stalled' = {} /\ hostOut' = <<>>
  /\ bank' = [bank EXCEPT !["rx"] = <<>>] /\ toHost' = toHost \union {"rx"}
  /\ UNCHANGED <<TaskVars, sofi, enabled, connected, running, floating, received, resets, suspends,
                 hostIn, disturbed>>

StartOfFrame ==
  /\ connected /\ (pc = "wait" \/ (pc = "byte" /\ ~sofi))
  /\ sofi' = TRUE
  /\ frames' = IF pc = "wait" /\ frames <= StreamTimeout THEN frames + 1 ELSE frames
  /\ UNCHANGED <<pc, jobVars, done, timeout, selected, bank, toHost, linkVars, wireVars,
                 sent, disturbed, delivered>>

(* The end of a bus reset, at any point of a task.                         *)
BusReset ==
  /\ connected /\ resets < MaxResets
  /\ resets' = resets + 1
  /\ enabled' = {} /\ stalled' = {} /\ toHost' = {"rx"}
  /\ bank' = [e \in DataEndpoints |-> <<>>]
  /\ selected' = "control" /\ hostOut' = <<>> /\ disturbed' = TRUE
  /\ UNCHANGED <<pc, jobVars, streamVars, sofi, connected, running, floating, received, suspends, hostIn,
                 sent, delivered>>

(* EVENT USB_ConfigurationChanged; the USB task runs between two rounds of *)
(* Ethernet_Task and restores the selected endpoint.                       *)
Configure ==
  /\ pc = "idle" /\ connected /\ (enabled = {} \/ ~running)
  /\ enabled' = DataEndpoints /\ running' = TRUE /\ stalled' = {}
  /\ toHost' = {"rx"} /\ bank' = [e \in DataEndpoints |-> <<>>]
  /\ disturbed' = TRUE /\ hostOut' = <<>>
  /\ UNCHANGED <<TaskVars, sofi, connected, floating, received, resets, suspends, hostIn>>

(* The suspend interrupt, EVENT USB_Disconnect, and back.                  *)
Suspend ==
  /\ connected /\ suspends < MaxSuspends
  /\ connected' = FALSE /\ running' = FALSE /\ suspends' = suspends + 1
  /\ hostOut' = <<>> /\ disturbed' = TRUE
  /\ UNCHANGED <<TaskVars, sofi, bank, toHost, enabled, stalled, floating, received, resets, hostIn>>

WakeUp ==
  /\ ~connected
  /\ connected' = TRUE
  /\ UNCHANGED <<TaskVars, sofi, bank, toHost, enabled, stalled, running, wireVars, disturbed>>

-----------------------------------------------------------------------------
Stream ==
  \/ WaitReady \/ WaitDisconnected \/ WaitTimeout \/ WaitFrame
  \/ NextBank \/ WriteByte \/ ReadByte \/ StreamDone

EthernetTask == SelectTx \/ SelectRx \/ BeginHeader \/ NotReady \/ Stream

Host == HostMessage \/ HostSends \/ HostReads \/ ClearHalt \/ Configure

Bus == StartOfFrame \/ BusReset \/ Suspend \/ WakeUp

Next == EthernetTask \/ Host \/ Bus

Spec == Init /\ [][Next]_vars

(* The scheduler runs the task, and a bus that is connected goes on with   *)
(* its frames or falls idle.  Nothing is assumed of the host.              *)
Fairness == WF_vars(EthernetTask) /\ WF_vars(StartOfFrame \/ Suspend)

FairSpec == Spec /\ Fairness

-----------------------------------------------------------------------------
Points == {"idle", "selected", "wait", "byte"}

(* Every variable stays in its range, and no bank holds more than fits.    *)
TypeOK ==
  /\ pc \in Points /\ job \in {"tx", "rx"} /\ stage \in {"header", "data"}
  /\ done \in 0 .. HeaderSize + length /\ length \in {0} \union Lengths
  /\ timeout \in 0 .. StreamTimeout /\ frames \in 0 .. StreamTimeout + 1 /\ sofi \in BOOLEAN
  /\ floating \in BOOLEAN
  /\ selected \in DataEndpoints \union {"control"}
  /\ bank \in [DataEndpoints -> Seq(Byte)] /\ \A e \in DataEndpoints : Len(bank[e]) <= BankSize
  /\ toHost \subseteq DataEndpoints /\ enabled \subseteq DataEndpoints
  /\ stalled \subseteq enabled
  /\ connected \in BOOLEAN /\ running \in BOOLEAN /\ (running => connected)
  /\ buffer \in Seq(Byte) /\ hostOut \in Seq(Byte) /\ hostIn \in Seq(Byte)
  /\ received \in Seq(Lengths) /\ sent \in Seq(Lengths)
  /\ resets \in 0 .. MaxResets /\ suspends \in 0 .. MaxSuspends
  /\ disturbed \in BOOLEAN /\ delivered \in Seq(Seq(Byte))

(* The byte after b, when messages with frames of these lengths are sent   *)
(* one after the other.                                                    *)
Follows(lengths, b) ==
  IF b.pos < HeaderSize + lengths[b.msg] THEN [msg |-> b.msg, pos |-> b.pos + 1]
                                         ELSE [msg |-> b.msg + 1, pos |-> 1]

FirstByte == [msg |-> 1, pos |-> 1]

(* The bytes are a beginning of what was sent.                             *)
InOrder(lengths, bytes) ==
  \A i \in 1 .. Len(bytes) :
    /\ bytes[i].msg \in 1 .. Len(lengths)
    /\ bytes[i] = IF i = 1 THEN FirstByte ELSE Follows(lengths, bytes[i - 1])

(* As long as no stream fails, the packets the host reads are the messages *)
(* the device sent, byte for byte and in order, however the lengths fall   *)
(* on the banks.                                                           *)
HostReadsWhatWasSent == ~disturbed => InOrder(sent, hostIn)

(* As long as no stream fails, every frame RNDIS_RX hands on is one whole  *)
(* message of the host, in order, and it never takes the middle of a       *)
(* message for a header, not after a message that was refused either.      *)
FramesAreMessages ==
  ~disturbed =>
    /\ \A i \in 1 .. Len(delivered) :
         LET m == delivered[i][1].msg IN
           /\ received[m] <= MaxFrame /\ delivered[i] = Message(m, received[m])
           /\ i > 1 => m > delivered[i - 1][1].msg
    /\ job = "rx" /\ buffer # <<>> =>
         IsPrefix(buffer, Message(buffer[1].msg, received[buffer[1].msg]))

(* A stream gives up only after USB_STREAM_TIMEOUT_MS whole frames of the  *)
(* bus have passed without a bank.                                         *)
TimeoutCountsFrames ==
  pc = "wait" => frames + timeout >= StreamTimeout + (IF sofi THEN 1 ELSE 0)

(* RNDIS_RX and RNDIS_TX always come back to the scheduler, whatever the   *)
(* host and the bus do.                                                    *)
StreamsEnd == pc # "idle" ~> pc = "idle"

=============================================================================
