------------------------------ MODULE Packets ------------------------------
(***************************************************************************)
(* The protocols of the hub's own server, byte by byte in the one frame    *)
(* buffer: Ethernet_ProcessPacket, ARP, IP, ICMP, UDP and CULServer build  *)
(* their answer over the request it answers, and Extras_Task builds its    *)
(* packet over both.  A frame is copied to the front of the buffer; what   *)
(* lies behind it is still there from earlier frames.                      *)
(*                                                                         *)
(* Module Hub has the tasks, the banks and the resets around this; here a  *)
(* round is a frame that arrives, its processing and the extra packet.     *)
(***************************************************************************)
EXTENDS Integers, SequencesExt

CONSTANTS
  BufferSize,   \* ETHERNET_FRAME_SIZE_MAX: bytes of the frame buffer, 180
  Defaults,     \* the two configurations of factory_reset
  Arrivals,     \* the frames that arrive, as sequences of bytes
  MaxFrames,    \* bound: how many frames arrive
  MaxClock      \* bound: the seconds counted

Byte == 0 .. 255

VARIABLES
  pc,           \* what the round does next
  buffer,       \* Frame.FrameData
  FrameLength,  \* Frame.FrameLength
  config,       \* the EEPROM from CFG_START to its end
  extra,        \* extraflag and extraarg
  clock,        \* clocktime
  arrived,      \* history: the frame of this round
  answer,       \* history: the answer sent in this round, or empty
  notice,       \* history: the packet Extras_Task sent in this round, or empty
  frames        \* history: how many frames have arrived

vars == <<pc, buffer, FrameLength, config, extra, clock, arrived, answer, notice, frames>>

-----------------------------------------------------------------------------
(* Bytes, words and fields, at offsets that start with 0.  Words of a      *)
(* packet have the high byte first, words of the EEPROM the low byte.      *)

At(b, at) == b[at + 1]
U16(b, at) == b[at + 1] * 256 + b[at + 2]
BE16(n) == <<(n \div 256) % 256, n % 256>>
LE16(n) == <<n % 256, (n \div 256) % 256>>
LE32(n) == LE16(n % 65536) \o LE16(n \div 65536)

Field(b, at, n) == SubSeq(b, at + 1, at + n)

Put(b, at, s) == SubSeq(b, 1, at) \o s \o SubSeq(b, at + Len(s) + 1, Len(b))

SwapEndian_16(n) == (n % 256) * 256 + n \div 256

(* The sum of the first n words from an offset on.                         *)
Words(b, at, n) ==
  LET sum[i \in 0 .. n] == IF i = 0 THEN 0 ELSE sum[i - 1] + U16(b, at + 2 * (i - 1))
  IN sum[n]

(* Mutant: the carries are not added.                                      *)
ChecksumNoCarry(b, at, bytes) == 65535 - (Words(b, at, bytes \div 2) % 65536)

(* Ethernet_Checksum16: the complement of the one's complement sum of the  *)
(* words.  The last byte of an odd number of bytes has no part in it.  Two *)
(* rounds of carries are enough for any packet in the buffer.              *)
Carry(n) == (n % 65536) + n \div 65536

Checksum16(b, at, bytes) == 65535 - Carry(Carry(Words(b, at, bytes \div 2)))

-----------------------------------------------------------------------------
(* Where things are: offsets of the headers in a frame, of the fields in   *)
(* the configuration, and the constants of the protocols.                  *)

ETH == 14
IP == 20
UDP == 8
ICMP == 8
ARP == 28

TIP == 0
TPORT == 4
SIP == 6
SPORT == 10
SMAC == 12
AMAC == 18
REQBL == 25
ConfigLength == 30

ServerIP(c)    == Field(c, SIP, 4)
ServerMAC(c)   == Field(c, SMAC, 6)
TargetIP(c)    == Field(c, TIP, 4)
AdapterMAC(c)  == Field(c, AMAC, 6)
ConfigPort(c, at) == At(c, at) + 256 * At(c, at + 1)

BroadcastMAC == [i \in 1 .. 6 |-> 255]
BroadcastIP  == [i \in 1 .. 4 |-> 255]

TypeARP == 2054
TypeIPv4 == 2048
ProtocolICMP == 1
ProtocolUDP == 17
EchoRequest == 8
EchoReply == 0
ACK == 6
NAK == 21
If_RNDIS == 1
If_CC1101 == 2
If_INTERNAL == 8

NoExtra == [flag |-> "NONE", arg |-> 0]

(* A frame with the headers of its protocol: the code relies on them       *)
(* without a test.                                                         *)
Type(f)   == U16(f, 12)
IsIP(f)   == Type(f) = TypeIPv4
IsUDP(f)  == IsIP(f) /\ At(f, ETH + 9) = ProtocolUDP
IsICMP(f) == IsIP(f) /\ At(f, ETH + 9) = ProtocolICMP

HeaderEnd(f) == ETH + 4 * (At(f, ETH) % 16)

WellMade(f) ==
  /\ f \in Seq(Byte) /\ Len(f) \in ETH .. BufferSize
  /\ IsIP(f)   => Len(f) >= ETH + IP
  /\ IsICMP(f) => At(f, ETH) % 16 >= 5 /\ Len(f) >= HeaderEnd(f) + ICMP

(* The buffer has room for the longest IP header and a request behind it,  *)
(* and Ethernet_Checksum16 counts its words in a uint8_t.                  *)
ASSUME BufferAssumption == BufferSize \in ETH + 60 + UDP + 10 .. 511

ASSUME BoundsAssumption == MaxFrames \in Nat /\ MaxClock \in Nat

ASSUME DefaultsAssumption ==
  \A n \in 1 .. 2 : /\ Defaults[n].fields \in Seq(Byte) /\ Len(Defaults[n].fields) = AMAC + 6
                    /\ Defaults[n].header \in Seq(Byte)
                    /\ Len(Defaults[n].header) = ConfigLength - REQBL - 1

ASSUME ArrivalsAssumption == \A f \in Arrivals : WellMade(f)

(* factory_reset.                                                          *)
FactoryReset(c, n) ==
  Put(Put(c, TIP, Defaults[n].fields), REQBL, <<0>> \o Defaults[n].header)

Blank == [i \in 1 .. ConfigLength |-> 255]

Init ==
  /\ pc = "idle" /\ buffer = [i \in 1 .. BufferSize |-> 0] /\ FrameLength = 0
  /\ config = FactoryReset(Blank, 1) /\ extra = NoExtra /\ clock = 0
  /\ arrived = <<>> /\ answer = <<>> /\ notice = <<>> /\ frames = 0

-----------------------------------------------------------------------------
(* The handlers map a machine m, the buffer, the configuration and the     *)
(* extra, to the machine they leave, with the size of their answer.        *)

Machine == [buffer |-> buffer, config |-> config, extra |-> extra, size |-> 0]

Wrote(m, at, s) == [m EXCEPT !.buffer = Put(@, at, s)]

(* ARP_ProcessARPPacket: a request for the server's IP or MAC address is   *)
(* turned into the reply where it stands.                                  *)
ARPReply(m) ==
  LET b == m.buffer
      Asked == /\ U16(b, ETH + 2) = TypeIPv4 /\ U16(b, ETH + 6) = 1
               /\ \/ Field(b, ETH + 24, 4) = ServerIP(m.config)
                  \/ Field(b, ETH + 18, 6) = ServerMAC(m.config)
  IN IF Asked
     THEN [Wrote(m, ETH + 6, BE16(2) \o ServerMAC(m.config) \o ServerIP(m.config)
                               \o Field(b, ETH + 8, 10)) EXCEPT !.size = ARP]
     ELSE m

(* ICMP_ProcessICMPPacket: an echo request is answered with its data, as   *)
(* far as the frame goes.                                                  *)
ICMPReply(m, in, out) ==
  LET b == m.buffer
      DataSize == FrameLength - (in + ICMP)
      Unsummed == Put(b, out, <<EchoReply, 0, 0, 0>> \o Field(b, in + 4, 4 + DataSize))
      Sum == Checksum16(Unsummed, out, ICMP + DataSize)
  IN IF At(b, in) = EchoRequest
     THEN [m EXCEPT !.buffer = Put(Unsummed, out + 2, BE16(Sum)), !.size = ICMP + DataSize]
     ELSE m

-----------------------------------------------------------------------------
(* CULServer_ProcessPacket.  Results that come from counters, the chip or  *)
(* the LED are not told apart: their bytes stay 0.                         *)

Letter(c) ==
  CASE c = "v" -> 118 [] c = "t" -> 116 [] c = "p" -> 112 [] c = "e" -> 101
    [] c = "E" -> 69  [] c = "F" -> 70  [] c = "T" -> 84  [] c = "I" -> 73
    [] c = "M" -> 77  [] c = "A" -> 65  [] c = "0" -> 48  [] c = ">" -> 62
    [] c = "s" -> 115 [] c = "a" -> 97  [] c = "u" -> 117 [] c = "c" -> 99
    [] c = "b" -> 98

(* ccGetStatusRegisters and ccGetConfig.                                   *)
CC1100_STATUS_SIZE_R == 12
CC1100_CONFIG_SIZE_R == 41
Registers(n) == [i \in 1 .. n |-> 0]

(* VERSION && 0xff is 1.                                                   *)
GetVersion == <<1, 1>>

(* Mutant: the address is stored, the port is not.                         *)
SetAddressOnly(c, at, operand) == Put(c, at, SubSeq(operand, 1, 4))

(* An address and a port, stored as they come.                             *)
SetAddress(c, at, operand) == Put(c, at, operand)

Reboot(m) == [m EXCEPT !.extra.flag = "REBOOT"]

(* The result of an operation, and the machine with its effects.  That of  *)
(* a blink would be built behind a loop that does not end: see Blink.      *)
Operate(m, op, operand) ==
  LET c  == m.config
      ip == SubSeq(operand, 1, 4)
      Answers(n, r) == [machine |-> n, result |-> r, code |-> ACK]
      Set(k) == [m EXCEPT !.config = k]
  IN CASE op = Letter("v") -> Answers(m, GetVersion)
       [] op = Letter("t") -> Answers(m, LE32(clock))
       [] op = Letter("p") -> Answers([m EXCEPT !.extra = [flag |-> "TEST", arg |-> 255]], <<>>)
       [] op = Letter("e") -> Answers(m, Field(c, 0, ConfigLength))
       [] op = Letter("s") -> Answers(m, <<0, 0, 0, 0>>)
       [] op = Letter("u") -> Answers(m, Registers(CC1100_STATUS_SIZE_R))
       [] op = Letter("c") -> Answers(m, Registers(CC1100_CONFIG_SIZE_R))
       [] op \in {Letter("a"), Letter("b")} -> Answers(m, <<0>>)
       [] op = Letter("0") -> Answers(Reboot(m), <<0>>)
       [] op = Letter(">") -> Answers([m EXCEPT !.extra.flag = "BOOTLOADER"], <<176>>)
       [] op = Letter("E") -> Answers(Reboot(Set(FactoryReset(c, 1))), <<>>)
       [] op = Letter("F") -> Answers(Reboot(Set(FactoryReset(c, 2))), <<>>)
       [] op = Letter("T") -> Answers(Set(SetAddress(c, TIP, operand)), ip)
       [] op = Letter("I") -> Answers(Set(SetAddress(c, SIP, operand)), ip)
       [] op = Letter("M") -> Answers(Reboot(Set(Put(c, SMAC, operand))), operand)
       [] op = Letter("A") -> Answers(Reboot(Set(Put(c, AMAC, operand))), operand)
       [] OTHER -> [machine |-> m, result |-> <<>>, code |-> NAK]

(* How many bytes of operand an operation takes.                           *)
OperandLength(op) == IF op \in {Letter(c) : c \in {"T", "I", "M", "A"}} THEN 6 ELSE 0

(* The operation and the token of the reply are the bytes the request has  *)
(* there.  The destination of the request becomes the server's address, so *)
(* that the answer comes from it.                                          *)
ReplyOf(done, out) ==
  LET reply == <<done.code, Len(done.result)>> \o done.result
  IN [Wrote(Wrote(done.machine, out + 2, reply), ETH + 16, ServerIP(done.machine.config))
        EXCEPT !.size = 2 + Len(reply)]

CULServerReply(m, in, out) ==
  LET op == At(m.buffer, in)
  IN ReplyOf(Operate(m, op, Field(m.buffer, in + 4, OperandLength(op))), out)

-----------------------------------------------------------------------------
(* Mutant: the answer goes to the port that was asked.                     *)
UDPHeaderUnswapped(b, in, out, size) ==
  Put(b, out, Field(b, in, 4) \o BE16(UDP + size) \o <<0, 0>>)

(* The header of the answer.  The port it goes to is read from where the   *)
(* header is built: the source port of the request only if the IP header   *)
(* has no options.                                                         *)
UDPHeader(b, in, out, size) ==
  Put(b, out, Field(b, in + 2, 2) \o Field(b, out, 2) \o BE16(UDP + size) \o <<0, 0>>)

(* UDP_ProcessUDPPacket.                                                   *)
UDPAnswer(served, in, out) ==
  [served EXCEPT !.buffer = UDPHeader(@, in, out, served.size), !.size = UDP + @]

UDPReply(m, in, out) ==
  IF U16(m.buffer, in + 2) = ConfigPort(m.config, SPORT)
  THEN UDPAnswer(CULServerReply(m, in + UDP, out + UDP), in, out)
  ELSE m

(* An IP header without options, its checksum still 0.                     *)
IPHeader(protocol, size, src, dst) ==
  <<69, 0>> \o BE16(IP + size) \o <<0, 0, 0, 0, 128, protocol, 0, 0>> \o src \o dst

WithChecksum(b) == Put(b, ETH + 10, BE16(Checksum16(b, ETH, IP)))

(* IP_ProcessIPPacket: the answer starts behind a header without options,  *)
(* wherever the payload of the request started.                            *)
IPAnswer(done) ==
  LET a == done.buffer
      header == IPHeader(At(a, ETH + 9), done.size, Field(a, ETH + 16, 4), Field(a, ETH + 12, 4))
  IN IF done.size > 0
     THEN [done EXCEPT !.buffer = WithChecksum(Put(a, ETH, header)), !.size = IP + @]
     ELSE done

IPReply(m) ==
  LET b == m.buffer
      in == HeaderEnd(b)
  IN IF Field(b, ETH + 16, 4) \notin {ServerIP(m.config), BroadcastIP} THEN m
     ELSE IPAnswer(CASE At(b, ETH + 9) = ProtocolICMP -> ICMPReply(m, in, ETH + IP)
                     [] At(b, ETH + 9) = ProtocolUDP  -> UDPReply(m, in, ETH + IP)
                     [] OTHER -> m)

(* Ethernet_ProcessPacket.  The test meant for the type compares the       *)
(* length of the frame, with its bytes swapped.                            *)
EthernetAnswer(done) ==
  IF done.size > 0
  THEN [done EXCEPT !.buffer = Put(@, 0, Field(@, 6, 6) \o ServerMAC(done.config)),
                    !.size   = ETH + @]
  ELSE done

EthernetReply(m) ==
  LET type == U16(m.buffer, 12)
  IN IF SwapEndian_16(FrameLength) <= 1536 THEN m
     ELSE EthernetAnswer(CASE type = TypeARP  -> ARPReply(m)
                           [] type = TypeIPv4 -> IPReply(m)
                           [] OTHER -> m)

-----------------------------------------------------------------------------
(* RNDIS_RX: the frame is copied to the front of the buffer.               *)
Receive(f) ==
  /\ pc = "idle"
  /\ buffer' = Put(buffer, 0, f) /\ FrameLength' = Len(f)
  /\ arrived' = f /\ answer' = <<>> /\ notice' = <<>> /\ frames' = frames + 1
  /\ pc' = "process"
  /\ UNCHANGED <<config, extra, clock>>

(* Where Ethernet_Task sends a frame from the host.                        *)
Destination ==
  LET dst == Field(buffer, 0, 6)
  IN CASE dst = ServerMAC(config) -> If_INTERNAL
       [] dst = BroadcastMAC      -> If_INTERNAL + If_CC1101
       [] OTHER                   -> If_CC1101

(* The machine that processing leaves behind, with the answer if it has    *)
(* made one.                                                               *)
Leaves(done) ==
  /\ buffer' = done.buffer /\ config' = done.config /\ extra' = done.extra
  /\ FrameLength' = IF done.size > 0 THEN done.size ELSE FrameLength
  /\ answer' = Field(done.buffer, 0, done.size)

(* The frame is a datagram for CULServer_ProcessPacket: its type, address  *)
(* and port let it through.                                                *)
ForServer ==
  /\ Destination # If_CC1101 /\ SwapEndian_16(FrameLength) > 1536 /\ IsUDP(buffer)
  /\ Field(buffer, ETH + 16, 4) \in {ServerIP(config), BroadcastIP}
  /\ U16(buffer, HeaderEnd(buffer) + 2) = ConfigPort(config, SPORT)

Blinks == ForServer /\ At(buffer, HeaderEnd(buffer) + UDP) = Letter("b")

(* The operation that blinks waits 2.5 s within one task, and after 2 s    *)
(* the watchdog resets the device: the request is not answered.            *)
Blink ==
  /\ pc = "process" /\ Blinks
  /\ buffer' = [i \in 1 .. BufferSize |-> 0] /\ FrameLength' = 0
  /\ clock' = 0 /\ extra' = NoExtra /\ pc' = "idle"
  /\ UNCHANGED <<config, arrived, answer, notice, frames>>

(* Ethernet_Task: the notice is prepared first, the server may put another *)
(* extra in its place.                                                     *)
Process ==
  /\ pc = "process" /\ ~Blinks
  /\ LET m == [Machine EXCEPT
                 !.extra = [flag |-> "PACKET", arg |-> 16 * If_RNDIS + Destination]]
     IN Leaves(IF Destination = If_CC1101 THEN m ELSE EthernetReply(m))
  /\ pc' = "extras"
  /\ UNCHANGED <<clock, arrived, notice, frames>>

(* Mutant: the notice goes to the adapter's address, from the adapter.     *)
FinalizeSwapped(b, size) ==
  WithChecksum(Put(b, 0, ServerMAC(config) \o AdapterMAC(config) \o BE16(TypeIPv4)
    \o IPHeader(ProtocolUDP, UDP + size, ServerIP(config), TargetIP(config))
    \o <<0, 0>> \o BE16(ConfigPort(config, TPORT)) \o BE16(UDP + size) \o <<0, 0>>))

(* finalize_UDP_Packet: headers in front of a payload, for the target.     *)
Finalize(b, size) ==
  WithChecksum(Put(b, 0, AdapterMAC(config) \o ServerMAC(config) \o BE16(TypeIPv4)
    \o IPHeader(ProtocolUDP, UDP + size, ServerIP(config), TargetIP(config))
    \o <<0, 0>> \o BE16(ConfigPort(config, TPORT)) \o BE16(UDP + size) \o <<0, 0>>))

(* What send_msg and send_packet put behind the time.                      *)
ExtraPayload ==
  IF extra.flag = "TEST" THEN <<extra.arg, 116, 101, 115, 116, 0>>
                         ELSE <<extra.arg \div 16, extra.arg % 16>>

(* Extras_Task with send_msg or send_packet.                               *)
SendExtra ==
  /\ pc = "extras" /\ extra.flag \in {"TEST", "PACKET"}
  /\ LET payload == LE32(clock) \o ExtraPayload
         built == Finalize(Put(buffer, ETH + IP + UDP, payload), Len(payload))
         length == ETH + IP + UDP + Len(payload)
     IN /\ buffer' = built /\ FrameLength' = length
        /\ notice' = Field(built, 0, length)
  /\ extra' = NoExtra /\ pc' = "idle"
  /\ UNCHANGED <<config, clock, arrived, answer, frames>>

(* Extras_Task with reboot or prepare_bootloader, to the end of the        *)
(* restart: the memory is cleared, the EEPROM is kept.  The bootloader     *)
(* leaves a fresh configuration #1.                                        *)
Restart ==
  /\ pc = "extras" /\ extra.flag \in {"REBOOT", "BOOTLOADER"}
  /\ buffer' = [i \in 1 .. BufferSize |-> 0] /\ FrameLength' = 0
  /\ config' = IF extra.flag = "REBOOT" THEN config ELSE FactoryReset(config, 1)
  /\ clock' = 0 /\ extra' = NoExtra /\ pc' = "idle"
  /\ UNCHANGED <<arrived, answer, notice, frames>>

(* The timer interrupt, every 125th time; between rounds nobody looks.     *)
Second ==
  /\ pc # "idle" /\ clock < MaxClock
  /\ clock' = clock + 1
  /\ UNCHANGED <<pc, buffer, FrameLength, config, extra, arrived, answer, notice, frames>>

Device == Process \/ SendExtra \/ Restart \/ Blink

Arrive(f) == frames < MaxFrames /\ Receive(f)

Next == Device \/ Second \/ \E f \in Arrivals : Arrive(f)

Spec == Init /\ [][Next]_vars

-----------------------------------------------------------------------------
(* The frame has all that its headers announce.                            *)
Complete(f) ==
  IF IsIP(f) THEN Len(f) = ETH + U16(f, ETH + 2) ELSE Len(f) >= ETH + ARP

(* Its IP header has no options.                                           *)
Plain(f) == At(f, ETH) = 69

Extras == {"NONE", "TEST", "PACKET", "REBOOT", "BOOTLOADER"}

(* Every variable stays in its range: answers and notices are made of      *)
(* bytes and end within the buffer.                                        *)
TypeOK ==
  /\ pc \in {"idle", "process", "extras"}
  /\ buffer \in [1 .. BufferSize -> Byte] /\ FrameLength \in 0 .. BufferSize
  /\ config \in [1 .. ConfigLength -> Byte]
  /\ extra.flag \in Extras /\ extra.arg \in Byte /\ clock \in 0 .. MaxClock
  /\ frames \in Nat /\ \A f \in {arrived, answer, notice} : f \in Seq(Byte)

(* What an answer owes the frame it answers, by protocol.                  *)
ARPAnswers(a, q) ==
  /\ Field(a, ETH + 8, 10) = ServerMAC(config) \o ServerIP(config)
  /\ Field(a, ETH + 18, 10) = Field(q, ETH + 8, 10)

ICMPAnswers(a, q) ==
  LET from == IF Plain(q) THEN ETH + IP ELSE HeaderEnd(q)
      rest == Len(q) - from
  IN /\ At(a, ETH + IP) = EchoReply
     /\ Field(a, ETH + IP + 4, rest - 4) = Field(q, from + 4, rest - 4)

UDPAnswers(a, q) ==
  /\ Field(a, ETH + 12, 4) = ServerIP(config)
  /\ Plain(q) /\ Len(q) >= ETH + IP + UDP =>
       /\ Field(a, ETH + IP, 2) = Field(q, ETH + IP + 2, 2)
       /\ Field(a, ETH + IP + 2, 2) = Field(q, ETH + IP, 2)
  /\ Plain(q) /\ Len(q) >= ETH + IP + UDP + 2 =>
       Field(a, ETH + IP + UDP, 2) = Field(q, ETH + IP + UDP, 2)

(* An answer goes back to where its frame came from, address by address,   *)
(* with what the frame is owed: although it is built over that frame, and  *)
(* although the operation may just have changed the server's addresses.    *)
(* Options of an IP header are the exception: the port is lost with them.  *)
AnswersGoBack ==
  pc = "extras" /\ answer # <<>> /\ Complete(arrived) =>
    LET a == answer
        q == arrived
    IN /\ Field(a, 0, 12) = Field(q, 6, 6) \o ServerMAC(config)
       /\ Type(answer) = Type(arrived)
       /\ IsIP(arrived)   => Field(a, ETH + 16, 4) = Field(q, ETH + 12, 4)
       /\ ~IsIP(arrived)  => ARPAnswers(a, q)
       /\ IsICMP(arrived) => ICMPAnswers(a, q)
       /\ IsUDP(arrived)  => UDPAnswers(a, q)

(* A checksum is right when the words it covers, itself included, add up   *)
(* to a multiple of 65535.                                                 *)
SumsUp(b, at, bytes) == Words(b, at, bytes \div 2) % 65535 = 0

(* What is sent is well formed: bytes that end within the buffer, lengths  *)
(* that agree with each other and with the frame, the IP checksum right,   *)
(* that of echoed data too as far as its length is even.                   *)
WellFormed ==
  \A f \in {answer, notice} :
    /\ f \in Seq(Byte) /\ Len(f) <= BufferSize
    /\ f # <<>> /\ IsIP(f) =>
         /\ Complete(f) /\ SumsUp(f, ETH, IP)
         /\ IsUDP(f) => U16(f, ETH + IP + 4) = Len(f) - ETH - IP
         /\ IsICMP(f) /\ Len(f) % 2 = 0 => SumsUp(f, ETH + IP, Len(f) - ETH - IP)

(* The notice of a round goes to the target that is configured when it is  *)
(* sent, and names the interfaces of the frame of its own round.           *)
NoticeNamesFrame ==
  pc = "idle" /\ notice # <<>> =>
    LET n == notice
        dst == Field(arrived, 0, 6)
    IN /\ Field(n, 0, 6) = AdapterMAC(config) /\ Field(n, ETH + 16, 4) = TargetIP(config)
       /\ U16(n, ETH + IP + 2) = ConfigPort(config, TPORT)
       /\ Len(notice) = ETH + IP + UDP + 6 =>
            /\ At(n, ETH + IP + UDP + 4) = If_RNDIS
            /\ At(n, ETH + IP + UDP + 5) = CASE dst = ServerMAC(config) -> If_INTERNAL
                                         [] dst = BroadcastMAC -> If_INTERNAL + If_CC1101
                                         [] OTHER -> If_CC1101

=============================================================================
