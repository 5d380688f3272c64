# Verification of CULeth

CULeth is the firmware of a USB stick (AT90USB162, CC1101 radio) that appears
on the host as an RNDIS network adapter and bridges Ethernet frames between the
host and the air. A simulated host, CULServer, answers ARP, ping and UDP
requests, and configures, reboots and reflashes the device. The USB side is the
LUFA library, most of which is in the repository without being compiled into
this firmware. This directory holds TLA+ models of all of it, TLC configurations
that check them, and proofs that TLAPS checks. Paths below are relative to `src/culeth/source/CULeth/` unless
they start with `LUFA/` (`src/culeth/source/LUFA/`) or `docs/`, `tools/`
(`src/culeth/`).

## 1. Inventory

| Component | State | Operations | What is hard | What makes it correct |
|---|---|---|---|---|
| Main loop and scheduler (`CULeth.c`, `LUFA/Scheduler`) | task list with run/stop flags | one round: Watchdog, USB, Notification, Ethernet, Timer, Extras | USB interrupts change the list in the middle of a round | the watchdog and the extras always run; each round ends or the watchdog ends it |
| `Ethernet_Task` (`CULeth.c`, `If_RNDIS.c`, `If_CC1101.c`) | one frame buffer `Frame`, `If_Src`, `If_Dst` | receive, forward, process, answer | one buffer for everything; one-bank endpoints; ignored results | every frame goes once, to the right interfaces, with the right content |
| `Extras_Task` (`extras.c`) | `extraflag`, `extraarg` | notice, test message, reboot, bootloader | one slot shared by all frames | an extra that waits is not overwritten and gets executed |
| CULServer (`CULServer.c`) | none of its own | its operations, one letter each | long delay in blink; EEPROM writes; reset after the answer | each operation is answered, or resets as asked |
| RNDIS control channel (`RNDIS.c`, two requests in `CULeth.c`) | adapter state, filter, message buffer, `ResponseReady` | INITIALIZE, HALT, QUERY, SET, RESET, KEEPALIVE; announcement | command and response share the buffer, and the buffer shuts the data path | the response answers the last command; the host gets it |
| Configuration and boot (`config.c`, `boot.c`, `watchdog.c`, `main`) | EEPROM, `MCUSR.WDRF` | factory reset, setters, bootloader request | resets between any two byte writes | valid header while running; bootloader only on request; settings last |
| USB device (`LUFA/.../USBInterrupt.c`, `USBTask.c`, `DevChapter9.c`) | connected, configuration, endpoints | suspend, wake-up, bus reset, control requests | interrupts between and inside tasks; waits with interrupts off | the device comes back after each of them |
| Endpoint streams (`LUFA/.../Endpoint.c`) | banks | read and write of streams with time-outs | partial transfers, stalls | no mixing of two packets |
| ARP, IP, ICMP, UDP (`ARP.c` ... `Ethernet.c`) | none | answers built in place | every field read before its place is written; lengths, checksums | answers go back where the frame came from and are well formed |
| Radio driver (`cc1100.c`, `spi.c`) | chip state, FIFOs | `ccTxPacket`, `ccRxPacket` | status bytes that are old when used, underflow, wrap of counters | a packet is sent once and whole; the FIFO is never overfilled |
| Clock and delays (`clock.c`, `LUFA/Scheduler`) | `ticks`, `clocktime`, the tick counter | interrupt, `clock_time`, `Scheduler_HasDelayElapsed` | read of four bytes during the interrupt, wraps | a time read is off by no more than a carry, a delay never early |
| Descriptors and the walk over them (`Descriptors.c`, `LUFA/.../ConfigDescriptor.c`) | position and bytes left | three searches | two counters that have to stay in step | a host finds exactly the endpoints the device configures |
| Host tool (`tools/cstool.pl`) | token, address of the server | request and reply, menu | late, lost and doubled replies; a token cut to a byte | a reply belongs to its request; settings come into force |
| LUFA host mode (`LUFA/.../Host.c`, `HostChapter9.c`, `USBTask.c`, `USBInterrupt.c`) | host state, wait, control pipe | enumeration, control requests, host interrupts | interrupts between two steps of the task | every enumeration ends |
| LUFA pipes (`LUFA/.../Pipe.c`, `Pipe.h`) | bank, place in the stream | streams with callbacks | aborts at the end of a bank, time-outs | every byte moves once |
| LUFA HID parser (`LUFA/.../HIDParser.c`) | state table, usage stack, collections | `ProcessHIDReport`, get and set of a field | tables at their limit, nesting | the fields recorded are those declared |
| LUFA allocator (`LUFA/.../DynAlloc.c`) | blocks, handles, heap | allocate, reallocate, free, defragment | blocks move under their handles | what was allocated stays its owner's |
| LEDs, board, ADC, SPI, serial drivers, `tools/target.pl` | none | register access, output | nothing | not modelled |

How they interact: the scheduler calls the tasks; USB interrupts start and stop
tasks through events; the USB task runs the control request handlers, which
change the RNDIS adapter that gates `RNDIS_RX` and `RNDIS_TX`; these move their
frames through the endpoint streams, bank by bank; `Ethernet_Task` leaves its
extra for `Extras_Task` in the two globals and both use `Frame`; CULServer
writes the EEPROM and leaves reboot requests to `Extras_Task`; that writes the
request byte and waits for the watchdog, and `main` reads byte and watchdog flag
at the next start. cstool sees CULServer through the bridge.

## 2. Modules

| Module | Models |
|---|---|
| `RndisMessages` | the RNDIS adapter as a record and the message handlers as operators on it |
| `RndisControl`, `MCRndisControl` | the control channel: USB task, notification task, host |
| `Duties` | what one frame is owed: which transmissions, where, with what content |
| `Bridge` | abstract specification of the hub: frames taken one at a time, duties served in order, possibly lost, never repeated or misdirected |
| `Hub`, `MCHub` | the running firmware: scheduler, USB events, `Ethernet_Task`, extras, watchdog, bank-level host; uses `RndisMessages` |
| `Boot`, `MCBoot` | EEPROM and start-up, byte by byte, across resets and bootloader sessions |
| `UsbDevice`, `MCUsbDevice` | USB in device mode: interrupt, events, every control request, with the host's side of each transfer |
| `EndpointStreams`, `MCEndpointStreams` | `RNDIS_RX` and `RNDIS_TX` byte by byte over the banks, with the bus's interrupts between any two bytes |
| `Radio`, `MCRadio` | `ccTxPacket` and `ccRxPacket` against the chip's state machine and FIFO |
| `Packets` | the one frame buffer, byte by byte: ARP, IP, ICMP, UDP, CULServer's operations, the packets of the extras |
| `CsTool`, `MCCsTool` | `tools/cstool.pl` in dialogue with `Packets` over a network that loses and doubles |
| `Timing` | the delays of the scheduler and the reading of the clock |
| `ConfigWalk` | the configuration descriptor, the host's walk over it, the endpoints the device configures |
| `PipeStreams` | LUFA's pipe streams and the endpoint streams CULeth does not call |
| `UsbHost` | LUFA in host mode |
| `HIDParser` | LUFA's parser of HID report descriptors |
| `DynAlloc` | LUFA's allocator |
| `MCLibrary` | one of the last six at a time, for TLC |
| `HubProofs`, `BootProofs`, `RndisControlProofs`, `UsbDeviceProofs`, `EndpointStreamsProofs`, `RadioProofs`, `CsToolProofs`, `LibraryProofs` | theorems and their proofs |

The modules cut the firmware at different grains. `Hub` has all tasks with a
frame as one value and a bank as full or free; `EndpointStreams` opens up its
transmissions and receptions, `UsbDevice` its control requests and USB events,
`Radio` its transmissions to the air, `Packets` its `Ethernet_ProcessPacket` and
the packets of its extras, `Boot` its resets, `RndisControl` its adapter (the two
share `RndisMessages`). Only Hub and Bridge are connected by a refinement.

### Hub

`pc` is the task whose turn it is or the point reached inside a task. An action
is the code between two points where the environment could be noticed, so that
the host fills and drains banks and the USB interrupt fires in between:

- `Ethernet_Task` is cut into reception (`RNDIS_RX`, `CC1101_RX`,
  `NothingReceived`), the two halves of `TX(If_Dst)` (`ForwardHost`,
  `ForwardAir`, the latter with the assignment to `extraflag`),
  `Ethernet_ProcessPacket` (`ProcessSilent`, `ProcessRequest`, and for the
  operation with the delay `ProcessBlink`, `Blink`, `Blinked`) and the answer
  (`Answer`).
- `Extras_Task` is `NoExtra`, `SendExtra` and `StartSpin`. After `StartSpin`
  the program never comes back, only `WatchdogReset` ends it.
- `UsbConnect`, `UsbDisconnect` and `BusReset` are the interrupt with its event
  handler. `SetConfiguration`, `EncapsulatedCommand` and
  `EncapsulatedResponseRead` are control requests in the USB task, which holds
  interrupts off; `AbandonedTransfer` is the endless wait in it when the host
  gives a transfer up.
- A frame is its source, whom it is addressed to (the server, everybody, other)
  and what it asks of CULServer (`Bodies`): operations with the same effect on
  the hub are one body. "query" is every operation that is just answered, ARP
  and ping included; "reboot" includes those that write the EEPROM first.
- A transmission is recorded in `log` with target, content and whether it is
  whole: the results of the stream calls and of `ccTxPacket` are ignored in the
  code, so it may be cut short. A transmission to a busy bank is dropped.
- Time is counted in half seconds, one turn of the blink loop. All other code
  takes less than one. The radio driver is assumed to return, which `TxEnds` of Radio
  shows as long as the FIFO does not run dry.
- `Boot` is the abstraction of module Boot that the hub needs: bootloader if
  the watchdog flag and the request are both set, otherwise both are cleared.

### Boot

Cells stand for EEPROM bytes, numbered in the order of `factory_reset`'s
writes; `WriteByte` writes one and a reset can fall before, between and after
them. `eeprom_write_word` is two byte writes, a single byte is atomic. The
fields of the configuration are `FieldSize` cells each. Power may fail at any
point, and the watchdog bite wherever it is on. The bootloader is external: it may flash
this or another version and starts the application with either value of the
watchdog flag. The history variables `expected`, `torn`, `fresh` and `asked` record what
each cell was last meant to hold, which cells a reset kept from getting it and
no later write has reached, whether the bootloader or a version change was last,
and whether the bootloader was asked for since the last start.

### RndisControl

The main loop alternates between the USB task, which serves at most one host
request, and the notification task. The message buffer holds a command or the
response built over it, with the RequestId kept, as in the code; the response
to RESET has no RequestId. `patient`, chosen at the start, is the host's
discipline: a patient host follows the protocol, fetches a response after its
announcement, sends no command before it has the response to the last, and only
commands that have one; the other does all of this in any order and resets the
bus.

### UsbDevice

`usb` holds what the interrupt and the events change, `ep0` the registers of the
control endpoint, `pc` the place in the USB task. "main" and "polled" run with
interrupts on, all else is inside its `ATOMIC_BLOCK`, where an interrupt waits.
Every wait loop of `DevChapter9.c`, `Endpoint.c` and `CULeth.c` is a point of its
own. The host is at one stage of one transfer, may give it up (`abandoned`), and
may send the next SETUP as soon as its own side of the transfer is complete. A
descriptor is its size.

### EndpointStreams

A message is a header and a frame, a byte is its message and its place there,
and `done`, `timeout` and `sofi` are the stream function's variables. The
interrupt may reset the endpoints, which leaves the control endpoint selected,
or suspend, between any two bytes. The stream functions return the code of their
wait, so that a stream that fails still looks like a frame; the flag `disturbed`
says that one has. The data path is taken to be open.

### Radio

The chip settles, transmits the length byte and that many bytes, becomes idle, or
runs dry; the driver reads a status byte twice, strobes, and fills. The status
byte shows at most 15 free bytes and is old when it is used. Nothing in the code
strobes SRX, so that the chip never receives and `ccRxPacket` never gets beyond
its first test.

### Packets and CsTool

The buffer keeps what earlier frames left behind the present one, and every
handler reads and writes it at the offsets of its C structures, in the order of
its statements. The counters and chip registers some replies print are left as
single values. `Blink` is the operation whose delay outlasts the watchdog
(`CULServer.c:72`): the device starts again and nothing is answered. CsTool adds
the tool's menu, what the user types and the defaults that replace it
(`ZeroMAC`, `ZeroIP`: `cstool.pl` compares the text with "" as a number), its
tokens and its exits, requests and replies on their way, and the busy IN bank,
which loses a reply. A MAC address of five bytes, which the tool's pattern lets
through, is left out.

### The library modules

`Timing` lets ticks, the seconds' interrupt and the byte reads interleave.
`ConfigWalk` takes the descriptor's fields from `Descriptors.c`, the endpoints
from the calls of `Endpoint_ConfigureEndpoint`, and walks one with the functions
of `ConfigDescriptor.c`, one search after the other; it ends where a search goes
beyond the descriptor ("beyond"). `PipeStreams` follows one call of one function from
beginning to end, `UsbHost` the task and the interrupt of a host, `HIDParser` a
descriptor item by item, with histories of the collections that were begun and
of those that are open, `DynAlloc` an application that allocates and fills.
What follows undefined behaviour (an allocation that reaches over others, a Push
beyond the table) is not followed.

## 3. Runs

| Run | Question | Bounds |
|---|---|---|
| `hub_frames` | Does one frame, of any kind and from either side, get what it is owed, whatever the USB and RNDIS do? Can a request for a reboot or the bootloader get lost, arise by itself, or wait for ever? | 1 frame, of 9 shapes from the host or of 2 from the air, 3 control messages, power failures, watchdog 6 ticks and blink 5 (see below), fairness |
| `hub_pairs` | Can a second frame in the bank disturb the one in service, or a host that does not read stop the hub from receiving it? | 2 frames of 2 shapes (a broadcast, a test request), watchdog 4 ticks, fairness |
| `hub_notice` | violation, finding 1 | 1 frame |
| `boot_resets` | Header, settings, config #1 and bootloader across resets anywhere | 1 cell per field, 1 user value |
| `boot_torn` | violation, finding 2 | as `boot_resets` |
| `rndis_hosts` | Is what a host is sent an answer to its last command, and does one that follows the protocol get every response? | 3 commands of 10 kinds, fairness |
| `rndis_filter` | violation, finding 3 | 2 commands |
| `usb_device` | Can device and host wait for each other, an interrupt be lost, a device not come up again? | packets of 2 bytes, requests of every kind, 2 SETUPs, 2 bus resets, 1 suspend, fairness |
| `streams` | Do messages that fall short of, on and beyond the banks arrive as they were sent, and does every stream end? | banks of 2 bytes, header 1, frames of 1 to 3 of which 2 is the longest allowed, time-out 1, 2 messages received, 1 sent, 1 bus reset, 1 suspend, fairness |
| `radio` | Is a packet whole on the air, and is the FIFO safe from old status bytes? | FIFO of 4 bytes, status shows up to 3, counts modulo 8, packets of 2, 3, 6, 8, 9 bytes and the test packet of 5, 2 packets, fairness |
| `cstool` | Are answers right over the frames they answer, does the tool take only its own reply, do settings come into force, what can make the tool wait for ever? | buffer of 92 bytes, both factory configurations, 10 operations, 2 MAC addresses typed of which one is numerically zero, tokens modulo 3, 3 requests, 2 starts of the tool, 1 other frame of 6 kinds, fairness |
| `library` | Six modules that nothing else here drives: is each right on its own? | 5 blocks and 3 handles; HID descriptors of 6 items; delay counter up to 3, clock of 3 bytes of 2 values; banks of 2, streams of 0, 1, 5 bytes; 5 searches; 2 plugs, 1 dip of VBUS |

Why the bounds are enough: the hub keeps no state from one frame to the next
but the shared buffer and the extra, so two frames show every interference; the
frames of a run are all that arrive between power-up and the end, and resets
and USB events are not bounded. In `Boot` cells of a field are treated alike
and resets are not bounded at all. In `RndisControl` a command's effect depends
on the state, the filter and what is in the buffer, all reached with two
commands before a third. In `UsbDevice` a request can disturb only the one after
it, and packets of two bytes let a descriptor end with a short and with a full
packet, below, at and above what was asked for. In `EndpointStreams` a bank keeps
something only until the next message. The FIFO of `radio` is filled by the first
write, by several, and not at all, and the longest frame does not fit the count,
as one of 256 bytes does not fit a byte. `cstool` wraps the token, with two that
fit before, and has a frame that fills the buffer. In `library` every table has room for a case that
overflows it. The theorems of section 5 hold without these bounds.

`hub_frames` uses values today's build does not have: `ccRxPacket` never returns
a packet (`cc1100.c:405`), so that no frame comes from the air, and the watchdog
(2 s, `watchdog.c:11`) is shorter than the blink loop (2.5 s, `CULServer.c:75`),
which therefore ends in a reset without an answer. Frames from the air and a
longer watchdog make the run check the code behind them too, which is there; the
actions `CC1101_RX` and `Blinked` fire only in it. The other runs of Hub have
neither.

Deadlock is checked except in `usb_device`, `streams`, `cstool` and `library`:
there the bounded environment stops (no more SETUPs, messages, requests), the
tool may wait in recv for ever, and a call of the library ends.

### Fairness

- `Hub!FairSpec`: weak fairness of the main loop, of the watchdog's clock in
  the endless loops and of its reset: the processor runs and the watchdog has an
  oscillator of its own. Nothing is assumed of the host, the radio or the
  bootloader, and an abandoned control transfer is ended by the watchdog.
- `RndisControl!FairSpec`: the main loop runs; the host configures the device,
  reads announcements and then fetches responses. The two host requests need
  strong fairness because the USB task's turn comes and goes; a USB host
  repeats a transfer that was not acknowledged, which is what justifies it.
- `UsbDevice!FairSpec`: the scheduler gives the USB task its turn, the watchdog
  bites, the controller sees what is on the wire; the interrupt has strong
  fairness, because it is held off again and again and is taken as soon as an
  `ATOMIC_BLOCK` ends. Nothing of the host.
- `EndpointStreams!FairSpec`: the task runs, and a connected bus goes on with its
  frames or falls idle, as a USB host's controller makes it. Nothing of the host's software.
- `Radio!FairSpec`: processor and chip run.
- `CsTool!ToolFairSpec`: the hub's main loop serves what it has and, when it
  gets free again and again, takes a request that waits; the tool reads.
- `MCLibrary!MCSpec`: the host's task goes on. Nothing of devices and interrupts.

### Findings

1. `hub_notice`: the notice that `docs/README` promises for every packet is
   dropped when the IN bank still holds the answer (`If_RNDIS.c:96`,
   `extras.c:42`).
2. `boot_torn`: `factory_reset` writes the header before the fields
   (`config.c:59`); a reset in between leaves a mixture that is accepted.
3. `rndis_filter`: packet filter 0 opens the data path (`RNDIS.c:378`).

Seen while modelling, and in the models as the code has it, but not the subject
of a run of their own:

- `CULServer.c:40` computes the low byte of the version as `VERSION && 0xff`,
  which is 1 for every version.
- The product string is declared with length 19 and has 16 characters
  (`Descriptors.c`), so that what lies behind it is sent too.
- A descriptor asked for with length 0 finds `SendZLP` uninitialised
  (`DevChapter9.c:180`) and the handler may wait until the watchdog bites.
- After suspend and resume only the USB task runs; the data tasks need a new
  SetConfiguration (`CULeth.c:108`).
- The default branch at `cc1100.c:357` gives up a packet while the chip settles.
- `LUFA/Drivers/USB/LowLevel/Pipe.h:747` defines `Pipe_Write_Stream` as the
  little-endian read.
- `ConfigDescriptor.h:113` promises that a search that fails puts the pointer
  back; `ConfigDescriptor.c:127` puts back a copy, but the count of what remains
  itself, so that later searches go beyond the end of the descriptor.
- The reply to the operation that blinks is never sent (`CULServer.c:75`,
  `watchdog.c:11`), and the tool waits for it without a time-out.
- `cstool.pl:224` and its like replace what is typed by the default when it is
  numerically zero: a MAC address that begins with 00 or a letter, an IP address
  that begins with 0.0.
- `Mem_FindFreeBlocks` returns the last block of the run it found, so that an
  allocation of several blocks may reach over its neighbours, and `Mem_Alloc(0)`
  sets the flags of the block before the first.
- The HID parser copies a Push from the first entry to before the table, gives
  every outermost collection slot 0 and every nested one slot 2
  (`HIDParser.c:127-163`), so that a collection overwrites the one before it at
  its depth, to which recorded fields still point, and a third level makes slot 2
  its own parent; `HIDParser.h:86` and 195 promise five, nested or not. Offsets
  run on from one report ID to the next (`HIDParser.c:211`), where
  `HIDParser.h:175` means the offset within the report. `SetReportItemInfo` has its masks
  swapped, so that it is right only for fields at the start of a byte.

## 4. Properties

- `PendingExtra`, `RequestSticks`, `RequestsHappen`: the one slot for extras
  never loses a request. A marked reboot leads to a start of `main`, a
  bootloader request to the bootloader, or to the power-on start of a power that
  fails before the watchdog's reset (`CULeth.c:74`).
- `Service`: at every point the buffer, `If_Src`, `If_Dst` and the extra belong
  to the same frame, and a frame in a bank was not taken before.
- `PromiseKept`: Hub implements Bridge. `cur` and `owed` are computed from `pc`,
  the buffer and the extra; `taken` and `log` are the same variables.
- `BootloaderRequested`, `BootloaderAsked`: no reset ends in the bootloader by
  itself. The former looks at the frames taken since the application was last
  started (`recent`), so that an old request does not excuse a new entry.
- `OutBankDrains`: no back-pressure from the IN endpoint to the OUT endpoint.
- `Configured`, `ConfigAsSet`, `ConfigOneWhole`: the EEPROM across resets.
  `ConfigOneActive` is the last without the allowance for torn cells, as the
  documentation has it.
- `AnswersLast`, `AnnouncedHeld`, `CommandAnswered`: the half-duplex buffer and
  the announcement.

- `ConfigurationHasEndpoints`, `InterruptArmed`, `NoMutualWait`, `Enumerates`:
  the registers and flags of the USB side agree, the interrupt that ends each
  state of the bus is armed, host and device never wait for each other with
  interrupts off, and a reset device comes up again.
- `HostReadsWhatWasSent`, `FramesAreMessages`, `TimeoutCountsFrames`,
  `StreamsEnd`: packets add up to messages in both directions, refused ones
  included; a stream ends, and not before its time.
- `AirIntact`, `FifoNeverOverflows`, `IdleBetweenPackets`, `TxEnds`: the driver
  against the chip. All but `IdleBetweenPackets` make an exception for a FIFO that ran dry
  (the processor was too slow), `AirIntact` for a packet given up.
- `AnswersGoBack`, `WellFormed`, `NoticeNamesFrame`: the packets built over each
  other in the one buffer. `AnswersGoBack` asks for ports only of requests
  without IP options, with which the code loses them; `WellFormed` asks for the
  checksum of even lengths, because the code leaves the last odd byte out.
- `AcceptsOwnReply`, `SettingsInForce`, `DiesForReason`, `ToolReturns`: the tool.
  `ToolReturns` names the three reasons for which it may wait for ever: it asked
  for a blink, the reply was lost, or the network doubled a reply, of which a
  tool dies whose next request may then move the server away from the next tool.
  The run violates it without any one of them.
- The library run: `AllocationsIntact`, `FieldsAsDeclared`, `TimeKept`,
  `StreamsInOrder`, `EndpointsAgree`, `EnumerationEnds` (with `HostKeepsTrack`),
  each of the module it is named in and looked at while that part runs.
  `FieldsAsDeclared` compares what the parser recorded with what the descriptor
  declares: each field's data, usage and report, its offset in that report, and
  the names of the collections it was declared in. The code allows less than
  that, and the property excepts exactly what it does not allow: offsets when a
  type has more than one report ID, paths when more than two collections are
  nested, and a collection after another has begun at its depth. Without any one
  of these exceptions the run violates it. `EndpointsAgree` says of a host whose
  search with a comparator has stopped at a descriptor that it takes too much to
  remain, and of every other that it knows what remains and never reads beyond
  the end.

Each is shown to depend on the code by a mutant of a definition
(`PROJECT.json`, operators marked "Mutant" in the modules).

## 5. Proofs

All for every value of the constants, from the assumptions the modules name (in
Hub `ConstantsAssumption` and `NoFrameAssumption`: the empty bank is not a
frame).

- `HubProofs`: `TypeCorrect`; `ExtraConsumed`, whose inductive invariant
  strengthens `PendingExtra` by the kind of extra each point allows, because
  only a notice may be overwritten, and only by the operation of its own frame;
  `MarkedRequestStays` from the same invariant.
  `BufferInService`, then `HubImplementsBridge`: the inductive invariant is
  TypeOK, the pending-extra invariant and `Service`; each step of the hub is
  shown to be one `Take`, `Emit` or `Lose` of Bridge or a stutter.
  `BootloaderOnRequest`: the hub is in the bootloader only if a frame asked for
  it since the application was last started; the invariant follows the request
  from the extra over the request byte to the start that obeys it.
- `BootProofs`: `TypeCorrect`; `RunsConfigured`, from an invariant that says
  which header cells are good at each point of a write loop and of `main`;
  `BootloaderOnlyAsked`; `SettingsLast` and `ConfigOneAfterBootloader`, from an
  invariant that follows the write loop through the cells: those it still has to
  write are meant to hold its value, the others hold what they are meant to
  unless they are torn already, and a reset adds the former to `torn`. That the allowance
  for `torn` is needed is what `boot_torn` shows.
- `RndisControlProofs`: `TypeCorrect`; `ResponsesAnswerLast`, from an invariant about what is in the
  buffer; `AnnouncementsHeld`, from the invariant that of the three places an
  announcement can be in at most one is taken while the host is patient.

- `UsbDeviceProofs`: `TypeCorrect`; `ConfiguredHasEndpoints` and
  `InterruptsStayArmed`, which are inductive with the types and what each point
  of the interrupt's work leaves open; `NoDeadlockInTransfers`, whose invariant
  ties the stage the host is in to the registers of the endpoint, the bytes that
  remain and the point the handler has reached. It assumes that the length of
  every request fits its kind (`WellFormed`: no data with SetAddress, 2 bytes
  with GetStatus, 1 with GetConfiguration, at least 1 with GetDescriptor and
  GetEncapsulated). For a descriptor of length 0 the property does not hold.
- `EndpointStreamsProofs`: `TypeCorrect`, no bank is filled beyond its size;
  `FramesAreCounted`, that a stream's time-out counts whole frames of the bus up
  to the one flag left from before; `SentIsRead` and `MessagesHandedOn`, from
  invariants that say of every byte on its way (in the bank, in the buffer, read
  by the host) that it is the next of its message, and of every message that
  those before it are complete.
- `RadioProofs`: `TypeCorrect`; `ChipRestsBetweenPackets`; `FifoKeepsItsSize`;
  `PacketsAreWholeOnAir`, for which the bytes in the FIFO continue those on the
  air, packet by packet.
  The invariant `Accounting` says how many bytes of this packet are in the FIFO
  at each point (fresh, loaded, sending, sent), so that the free bytes a status
  byte shows are never more than there are. FIFO and status need room for two
  bytes, the length byte and one more, which the chip's 64 and 15 have.

- `CsToolProofs`, its first part about `Packets`: `TypesOfPackets`, `FramesAreWellFormed`, `AnswersReturn`,
  `NoticesNameTheirFrame`, for any buffer of 92 to 511 bytes, any factory
  settings and any arriving frames that have the headers of their protocol
  (`WellMade`: at least an Ethernet header, an IP packet at least an IP header,
  an ICMP packet one without contradiction in its length; the code relies on
  them without a test, and a datagram may be cut short anywhere behind its IP
  header). There is a lemma for each handler: what it leaves of the request, what
  it writes, and that the checksum it computes makes the words sum up to a
  multiple of 65535, although it overwrites words it has summed. The
  invariant between the parts of a round is small (`Round`: the frame is still
  in front of the buffer when it is processed; the pending notice names its
  interfaces under the configuration the processing has left). The checksum is
  a sum over all words, and what is said of it is proved by the least number
  principle (a shortest prefix of which it fails), which is first-order and
  needs no induction rule.

- `CsToolProofs`, its second part about `CsTool`: `AcceptsItsReply`, `DiesOnlyForReason`,
  `DialogueIsSound` (`AnswersGoBack`, `WellFormed` and `NoticeNamesFrame` in the
  dialogue), for any number of requests, restarts of the tool, addresses, ports
  and token modulus. The invariant follows a request by the port of its socket:
  in `toHub`, in service, as a reply at the tool. `UnderWay` says that only
  sockets the tool has had are named there; `Fitting` that, as long as the token
  fits a byte, a request or reply of the running tool does not have a later
  token than the tool, and if it has the same it belongs to the last command;
  `Single` that, unless the network doubled a reply, a waiting tool has exactly
  one place where its request can be and a tool that does not wait has none.
  `AcceptsOwnReply` and `DiesForReason` follow when the reply is taken. Between
  them stands a lemma on `CULServer` (`RepliesTo`), that the reply has the
  token, the operation and as much of the operand as comes back. They assume
  that the datagrams of other hosts do not use a port of the tool's sockets
  (`OtherPortsAssumption`: the reply to one would reach the tool, which does not
  look at the sender), and that the user types whole addresses
  (`EnteredAssumption`).

  `SettingsStayInForce` (`SettingsInForce`) is proved on top of it. It needs two
  things more. One is the effect of every operation on the configuration
  (`SettingsProcessed`, from the lemmas on the handlers of the first part): which
  fields it sets, which it leaves, and whether the round ends in a restart. The
  other is `Settlement`, which says why an acknowledged command cannot be undone:
  requests that are still under way when the reply is accepted, the hub's own
  copy included, repeat the command (`InForce`), and a restart that is still to
  come is the command's own; when a reply with the last token has come, the
  command is in force already and no request is under way (`Answered`); and
  behind the newest request stands no other. `Numbered` adds that tokens begin
  with 1 and that the tool is ready again only after a reply to its last
  command. A restart after a blink (`BlinkSettled`) is the tool's own too, and
  sets nothing. Other senders may ask in between, but must not set, restart or
  blink, and their datagrams must bring an operation along
  (`OthersAskAssumption`): with a datagram without payload the server takes what
  lies in the buffer for one, which is the low byte of the clock in the last
  notice, and that can be the letter of an operation that sets an address. The
  token modulus is between 2 and 256.

- `LibraryProofs`, about `MCLibrary`: `TimeStaysKept`, `StreamsStayInOrder`,
  `EndpointsStayInAgreement`, `AllocationsStayIntact`, `FieldsStayAsDeclared`,
  `HostStaysOnTrack`.
  Each part has an invariant that the steps of the other parts leave alone, so
  that their conjunction (`LibraryInvariant`) is inductive.
  - Delays: the counter never tells of more ticks than there have been
    (`Since`), and a task that asks at every tick has not missed its delay
    (`InTime`). Clock: `Meant` is the time the reading would end with if the
    clock stood still from now on; it is after the clock only by less than what
    a byte is worth into which the clock has carried (`CarriedInto`).
  - Streams: what has been written, has arrived and has been stored are the
    first bytes in the function's order (`Written`, `Arrived`, `Stored`), and
    what was waited and what remains of the time-out make up the limit
    (`Frames`). `WordIsNumber` says that the digits of a number give the number.
  - Walk: the endpoints seen are those up to the place of the walk
    (`EndpointsUpTo`), which the next search adds to; what is said to remain is
    what does, or more once a comparator has stopped a search.
  - Allocator: `Sound` says that each allocation has its blocks with its
    contents, linked up to the last, apart from all others, and that the blocks
    marked as used that belong to no allocation are as many as leaked
    (`LostIn`). The hard step is
    `Mem_Defrag`: it moves blocks down without changing their order
    (`DownTogether`, `DownGrows`), so that an allocation moves as a whole and
    its handle with it.
  - HID parser: `Recorded` says that the fields are those of the main items so
    far, each with the slot for the depth it was declared at, and that while a
    type has one report the offset is what its main items take of that report,
    in 16 bits; `PathsKnown` that, while no more than two collections have been
    nested, the current slot is that of the depth, and a slot holds the name of
    the last collection begun at its depth (`SlotsHold`), which those that are
    open are.
  - Host: as long as no interrupt has overtaken the case the task is in, the
    state is that of the case and what it promises holds (`NotOvertaken`); of
    the two requests the one for the address goes on to the state that relies
    on the address, and no reset does (`OnItsWay`).

  What a recursive function computes (the bytes of the clock, the digits of a
  word, the offsets of the descriptor, the blocks that defragmentation has
  filled, the fields declared) is proved for every argument without an
  induction rule: what holds of 0 and is passed on up to n holds up to n
  (`UpTo`), since there would be a least number of which it fails. For this the
  models define such values as recursive functions over an initial segment of
  the numbers.

Every invariant of the passing runs, and every action property except those
about liveness, is stated by one of these theorems. Out of the prover's reach
are the liveness properties (`RequestsHappen`, `OutBankDrains`,
`CommandAnswered`, `Enumerates`, `StreamsEnd`, `TxEnds`, `ToolReturns`,
`EnumerationEnds`), because liveness under fairness and ENABLED are not
supported by TLAPS here; they are only model-checked. Of `EnumerationEnds` the
half that is safety, `HostKeepsTrack`, is proved. No module of the project uses
a RECURSIVE operator.

## 6. Not modelled

- LEDs and board drivers: output, nothing is read back. The ADC, SPI and serial
  drivers of LUFA are a line of register access each and nothing calls them.
- `tools/target.pl` prints the datagrams it receives.
- The frame counters and the contents of chip registers: they are only printed
  in replies. The strings of the USB descriptors are constant text.
- Reception from the air: the chip is never told to receive, and a packet would
  never be returned if it were.
- LUFA's events and class constants that this firmware neither raises nor
  reads. The firmware is built with USB_DEVICE_ONLY and NO_STREAM_CALLBACKS
  (`makefile`, lines 170 and 171): host mode, pipes, callbacks, HID parser and
  allocator are library code that is modelled for itself and not as part of
  the product.
- What the code does after undefined behaviour in the library: an allocation
  gone wrong, a Push beyond the table, a search that reads beyond the
  descriptor.

What could come next: a refinement between `EndpointStreams` and the
transmissions of `Hub` that may be cut short, and between `UsbDevice` and the
USB events of `Hub`; and the state of the adapter after a reconnect.
