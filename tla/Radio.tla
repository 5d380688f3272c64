------------------------------- MODULE Radio -------------------------------
(***************************************************************************)
(* The CC1101 driver: ccTxPacket with the status byte it reads twice, the  *)
(* transmit FIFO it fills while the chip empties it, and the poll of       *)
(* ccRxPacket.  The chip runs on its own: it settles, transmits the length *)
(* byte and that many bytes, falls idle, or runs dry.                      *)
(*                                                                         *)
(* Nothing in the code strobes SRX, so that the chip never receives and    *)
(* ccRxPacket never gets further than its first test.                      *)
(***************************************************************************)
EXTENDS Integers, SequencesExt

CONSTANTS
  FifoSize,      \* bytes in the transmit FIFO, 64 in the chip
  StatusMax,     \* the greatest number of free bytes a status byte shows, 15
  CountModulus,  \* the values of the uint8_t count and n, 256
  FrameLengths,  \* the lengths of the frames sent
  TestPacketSize, \* CC1101_TESTPACKETSIZE, 16
  PayloadValues, \* the values a payload byte taken for a length byte may have
  MaxPackets     \* bound: how many frames are sent

ASSUME SizesAssumption ==
  /\ FifoSize \in Nat \ {0, 1} /\ StatusMax \in Nat \ {0, 1}
  /\ CountModulus \in Nat /\ StatusMax <= CountModulus
  /\ FrameLengths \subseteq Nat /\ TestPacketSize \in 0 .. CountModulus - 1
  /\ PayloadValues \subseteq 0 .. CountModulus - 1 /\ MaxPackets \in Nat

VARIABLES
  state,      \* what the chip is doing
  fifo,       \* its transmit FIFO
  left,       \* payload bytes the chip has still to transmit, or NoPacket
  pc,         \* the driver
  status,     \* the status byte the driver has read
  count,      \* the parameter of ccTxPacket
  nsent,      \* how many bytes it counts as sent
  packets,    \* history: the counts ccTxPacket was called with
  written,    \* history: how many payload bytes of this packet were written
  air,        \* history: what the chip has transmitted, packet by packet
  skipped,    \* history: a state the driver does not know ended a packet
  underflowed, overflowed  \* history: the FIFO ran dry, was written when full

chipVars    == <<state, fifo, left>>
driverVars  == <<status, count, nsent>>
historyVars == <<packets, written, air, skipped, underflowed, overflowed>>
vars        == <<pc, chipVars, driverVars, historyVars>>

(* The states a status byte may show; the chip never comes to the others.  *)
States == {"IDLE", "CALIBRATE", "SETTLING", "TX", "TX_UNDERFLOW"}

NoPacket == -1

Least(m, n) == IF m <= n THEN m ELSE n

(* The byte at a position of the current packet; 0 is the length byte.     *)
Byte(p) == [packet |-> Len(packets), pos |-> p]

WholePacket(k) == [i \in 1 .. packets[k] + 1 |-> [packet |-> k, pos |-> i - 1]]

-----------------------------------------------------------------------------
(* ccInitChip leaves a chip that is reset, configured and calibrated.      *)
Init ==
  /\ state = "IDLE" /\ fifo = <<>> /\ left = NoPacket
  /\ pc = "idle" /\ status = [state |-> "IDLE", free |-> 0] /\ count = 0 /\ nsent = 0
  /\ packets = <<>> /\ written = 0 /\ air = <<>>
  /\ skipped = FALSE /\ underflowed = FALSE /\ overflowed = FALSE

-----------------------------------------------------------------------------
(* The chip.                                                               *)

(* A calibration ends with the chip idle, settling with the transmitter on.*)
Settle ==
  /\ state \in {"SETTLING", "CALIBRATE"}
  /\ state' = IF state = "SETTLING" THEN "TX" ELSE "IDLE"
  /\ UNCHANGED <<pc, fifo, left, driverVars, historyVars>>

(* What the registers say of a transmission: its length is in the packet,  *)
(* and what follows it, every fourth time a calibration first.             *)
CC1100_CFG == [LENGTH_CONFIG |-> "variable", TXOFF_MODE |-> "IDLE", FS_AUTOCAL |-> "fourth"]

AfterPacket ==
  {CC1100_CFG.TXOFF_MODE}
    \union (IF CC1100_CFG.FS_AUTOCAL = "fourth" THEN {"CALIBRATE"} ELSE {})

(* The length byte tells how many bytes follow.  After an underflow it may *)
(* be a byte of the payload.                                               *)
LengthsOf(b) ==
  IF CC1100_CFG.LENGTH_CONFIG = "variable" /\ b.pos = 0 THEN {packets[b.packet]}
                                                       ELSE PayloadValues

(* What has been transmitted; not recorded after an underflow.             *)
NewOnAir(b)  == IF underflowed THEN air ELSE Append(air, <<b>>)
MoreOnAir(b) == IF underflowed THEN air ELSE [air EXCEPT ![Len(air)] = Append(@, b)]

TransmitLength ==
  /\ state = "TX" /\ left = NoPacket /\ fifo # <<>>
  /\ left' \in LengthsOf(Head(fifo))
  /\ fifo' = Tail(fifo)
  /\ air' = NewOnAir(Head(fifo))
  /\ UNCHANGED <<state, pc, driverVars, packets, written, skipped, underflowed, overflowed>>

TransmitByte ==
  /\ state = "TX" /\ left > 0 /\ fifo # <<>>
  /\ left' = left - 1
  /\ fifo' = Tail(fifo)
  /\ air' = MoreOnAir(Head(fifo))
  /\ UNCHANGED <<state, pc, driverVars, packets, written, skipped, underflowed, overflowed>>

EndPacket ==
  /\ state = "TX" /\ left = 0
  /\ left' = NoPacket /\ state' \in AfterPacket
  /\ UNCHANGED <<fifo, pc, driverVars, historyVars>>

Underflow ==
  /\ state = "TX" /\ left # 0 /\ fifo = <<>>
  /\ state' = "TX_UNDERFLOW" /\ left' = NoPacket /\ underflowed' = TRUE
  /\ UNCHANGED <<fifo, pc, driverVars, packets, written, air, skipped, overflowed>>

-----------------------------------------------------------------------------
(* The status byte: ccGetTxStatus and ccGetRxStatus.                       *)

TxStatus == [state |-> state, free |-> Least(StatusMax, FifoSize - Len(fifo))]

(* A call of ccTxPacket.                                                   *)
Transmit(n) ==
  /\ pc = "idle" /\ Len(packets) < MaxPackets
  /\ count' = n /\ packets' = Append(packets, n)
  /\ nsent' = 0 /\ written' = 0
  /\ pc' = "first"
  /\ UNCHANGED <<chipVars, status, air, skipped, underflowed, overflowed>>

(* CC1101_TX, with the frame length cut to a byte.                         *)
StartTx == \E n \in FrameLengths : Transmit(n % CountModulus)

(* CC1101_TX_test: the first bytes of whatever is in the frame buffer.     *)
StartTest == Transmit(TestPacketSize)

(* Reads until two readings in a row agree.                                *)
FirstStatus ==
  /\ pc = "first"
  /\ status' = TxStatus /\ pc' = "second"
  /\ UNCHANGED <<chipVars, count, nsent, historyVars>>

(* Mutant: reads until two readings differ.                                *)
SecondDiffers ==
  /\ pc = "second"
  /\ status' = TxStatus
  /\ pc' = IF status # TxStatus THEN "switch" ELSE pc
  /\ UNCHANGED <<chipVars, count, nsent, historyVars>>

SecondStatus ==
  /\ pc = "second"
  /\ IF status = TxStatus THEN pc' = "switch" /\ UNCHANGED status
                          ELSE status' = TxStatus /\ UNCHANGED pc
  /\ UNCHANGED <<chipVars, count, nsent, historyVars>>

(* Mutant: a packet is taken to be sent as soon as it is in the FIFO.      *)
SentEarly ==
  /\ pc = "switch" /\ nsent = count
  /\ pc' = "idle" /\ status' = [state |-> "IDLE", free |-> 0]
  /\ UNCHANGED <<chipVars, count, nsent, historyVars>>

(* All sent: ccTxPacket returns.                                           *)
AllSent ==
  /\ pc = "switch" /\ status.state = "IDLE" /\ nsent = count
  /\ pc' = "idle" /\ status' = [state |-> "IDLE", free |-> 0]
  /\ UNCHANGED <<chipVars, count, nsent, historyVars>>

(* The STX strobe, then the same as while the chip calibrates or transmits.*)
Strobe ==
  /\ pc = "switch" /\ status.state = "IDLE" /\ nsent # count
  /\ state' = "SETTLING" /\ pc' = "fill"
  /\ UNCHANGED <<fifo, left, driverVars, historyVars>>

KeepFilling ==
  /\ pc = "switch" /\ status.state \in {"CALIBRATE", "TX"}
  /\ pc' = "fill"
  /\ UNCHANGED <<chipVars, driverVars, historyVars>>

(* What the FIFO holds after a write; what does not fit is lost.           *)
Write(bytes) ==
  /\ fifo' = fifo \o SubSeq(bytes, 1, Least(Len(bytes), FifoSize - Len(fifo)))
  /\ overflowed' = (overflowed \/ Len(bytes) > FifoSize - Len(fifo))

(* The first byte in the FIFO is the length byte.                          *)
WriteLength ==
  /\ pc = "fill" /\ nsent = 0
  /\ Write(<<Byte(0)>>)
  /\ status' = [status EXCEPT !.free = (@ - 1) % CountModulus]
  /\ pc' = "payload"
  /\ UNCHANGED <<state, left, count, nsent, packets, written, air, skipped, underflowed>>

NoLength ==
  /\ pc = "fill" /\ nsent # 0
  /\ pc' = "payload"
  /\ UNCHANGED <<chipVars, driverVars, historyVars>>

(* Mutant: the free bytes are not looked at.                               *)
ChunkBlind == count - nsent

(* At most the remaining number of bytes.                                  *)
Chunk == Least(status.free, count - nsent)

(* Mutant: every write starts with the first byte of the packet.           *)
WriteFromStart ==
  /\ pc = "payload"
  /\ Write([i \in 1 .. Chunk |-> Byte(i)])
  /\ nsent' = nsent + Chunk /\ written' = written + Chunk
  /\ pc' = "first"
  /\ UNCHANGED <<state, left, status, count, packets, air, skipped, underflowed>>

WritePayload ==
  /\ pc = "payload"
  /\ Write([i \in 1 .. Chunk |-> Byte(nsent + i)])
  /\ nsent' = nsent + Chunk /\ written' = written + Chunk
  /\ pc' = "first"
  /\ UNCHANGED <<state, left, status, count, packets, air, skipped, underflowed>>

(* The SFTX strobe clears an underflow.                                    *)
Flush ==
  /\ pc = "switch" /\ status.state = "TX_UNDERFLOW"
  /\ state' = "IDLE" /\ fifo' = <<>> /\ pc' = "first"
  /\ UNCHANGED <<left, driverVars, historyVars>>

(* Any other state: the packet counts as sent, and the loop goes on.       *)
GiveUp ==
  /\ pc = "switch" /\ status.state = "SETTLING"
  /\ skipped' = (skipped \/ nsent # count)
  /\ nsent' = count /\ pc' = "first"
  /\ UNCHANGED <<chipVars, status, count, packets, written, air, underflowed, overflowed>>

(* ccRxPacket: an idle chip with an empty receive FIFO has nothing; for    *)
(* the states of a transmission the function has no case.                  *)
StartRx ==
  /\ pc = "idle"
  /\ pc' = "receive"
  /\ UNCHANGED <<chipVars, driverVars, historyVars>>

NothingToReceive ==
  /\ pc = "receive" /\ state = "IDLE"
  /\ pc' = "idle"
  /\ UNCHANGED <<chipVars, driverVars, historyVars>>

-----------------------------------------------------------------------------
Chip == Settle \/ TransmitLength \/ TransmitByte \/ EndPacket \/ Underflow

Driver ==
  \/ FirstStatus \/ SecondStatus \/ AllSent \/ Strobe \/ KeepFilling
  \/ WriteLength \/ NoLength \/ WritePayload \/ Flush \/ GiveUp \/ NothingToReceive

Next == Chip \/ StartTx \/ StartTest \/ StartRx \/ Driver

Spec == Init /\ [][Next]_vars

(* The processor executes the driver, the chip transmits.                  *)
Fairness == WF_vars(Chip) /\ WF_vars(Driver)

FairSpec == Spec /\ Fairness

-----------------------------------------------------------------------------
Points == {"idle", "first", "second", "switch", "fill", "payload", "receive"}

FifoByte == [packet : Nat, pos : Nat]

(* Every variable stays in its range; the FIFO never holds more than fits. *)
TypeOK ==
  /\ state \in States /\ fifo \in Seq(FifoByte) /\ Len(fifo) <= FifoSize
  /\ left \in {NoPacket} \union 0 .. CountModulus - 1
  /\ pc \in Points /\ status \in [state : States, free : Nat]
  /\ count \in 0 .. CountModulus - 1 /\ nsent \in 0 .. count
  /\ packets \in Seq(Nat) /\ written \in Nat /\ air \in Seq(Seq(FifoByte))
  /\ skipped \in BOOLEAN /\ underflowed \in BOOLEAN /\ overflowed \in BOOLEAN

OnAir(k) == \E i \in 1 .. Len(air) : air[i] = WholePacket(k)

(* As long as the FIFO never ran dry and no packet was given up, what is   *)
(* on the air is each packet that has a payload, once and in order, its    *)
(* length byte and its bytes in order; and when ccTxPacket comes back, the *)
(* whole packet is.                                                        *)
AirIntact ==
  ~underflowed /\ ~skipped =>
    /\ \A i \in 1 .. Len(air) :
         LET k == air[i][1].packet IN
           /\ packets[k] # 0
           /\ IsPrefix(air[i], WholePacket(k))
           /\ i < Len(air) \/ pc \in {"idle", "receive"} => air[i] = WholePacket(k)
           /\ i < Len(air) => k < air[i + 1][1].packet
    /\ pc \in {"idle", "receive"} =>
         fifo = <<>> /\ \A k \in 1 .. Len(packets) : packets[k] = 0 \/ OnAir(k)

(* As long as the FIFO never ran dry it is never written beyond its size,  *)
(* although the free bytes come from a status read earlier.                *)
FifoNeverOverflows == ~underflowed => ~overflowed

(* ccTxPacket comes back only when the chip is idle, and nothing puts it   *)
(* back to work: ccRxPacket, which would spin in any other state, always   *)
(* finds it idle.                                                          *)
IdleBetweenPackets == pc \in {"idle", "receive"} => state = "IDLE"

(* Unless the FIFO runs dry, ccTxPacket always returns.  Afterwards it may  *)
(* meet a FIFO with one free byte again and again, and write nothing but   *)
(* the length byte as often as the chip makes room for it.                 *)
TxEnds == pc # "idle" ~> pc = "idle" \/ underflowed

=============================================================================
