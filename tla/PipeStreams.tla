---------------------------- MODULE PipeStreams -----------------------------
(***************************************************************************)
(* The stream functions of Pipe.c and the ones of Endpoint.c that CULeth   *)
(* does not call: in either byte order, discarding, and with a callback    *)
(* that may end the transfer between two banks.  One call is followed from *)
(* its beginning to its end, with the other side of the wire taking and    *)
(* sending packets, stalling and going away.  And the functions of Pipe.h  *)
(* and Endpoint.h that move words, as numbers made of digits.              *)
(*                                                                         *)
(* A byte is its place in the stream: in memory for a writer, in the order *)
(* of arrival for a reader.                                                *)
(***************************************************************************)
EXTENDS Integers, SequencesExt

CONSTANTS
  PipeBank,               \* the bytes of a bank
  StreamLengths,          \* the lengths that streams have
  USB_STREAM_TIMEOUT_MS,
  Digits                  \* the values of a byte of a word

ASSUME PipeStreamsAssumption ==
  /\ PipeBank \in Nat \ {0} /\ StreamLengths \subseteq Nat
  /\ USB_STREAM_TIMEOUT_MS \in 0 .. 255 /\ Digits \in Nat \ {0}

(* What the functions do: move bytes one way, forwards through memory from *)
(* its first byte or backwards from its last.                              *)
Function(bus, moves, order) == [bus |-> bus, moves |-> moves, order |-> order]

Pipe_Write_Stream_LE     == Function("Pipe", "Write", "LE")
Pipe_Write_Stream_BE     == Function("Pipe", "Write", "BE")
Pipe_Discard_Stream      == Function("Pipe", "Discard", "LE")
Pipe_Read_Stream_LE      == Function("Pipe", "Read", "LE")
Pipe_Read_Stream_BE      == Function("Pipe", "Read", "BE")
Endpoint_Discard_Stream  == Function("Endpoint", "Discard", "LE")
Endpoint_Write_Stream_BE == Function("Endpoint", "Write", "BE")
Endpoint_Read_Stream_BE  == Function("Endpoint", "Read", "BE")

StreamFunctions ==
  {Pipe_Write_Stream_LE, Pipe_Write_Stream_BE, Pipe_Discard_Stream, Pipe_Read_Stream_LE,
   Pipe_Read_Stream_BE, Endpoint_Discard_Stream, Endpoint_Write_Stream_BE,
   Endpoint_Read_Stream_BE}

VARIABLES
  function,      \* the function called
  Length,        \* the bytes left to move
  callback,      \* it was given a callback
  streamPc,      \* "wait" for a bank, at a "byte", or what it has returned
  memory,        \* what a reader has stored where; 0 is nothing
  pipeBank,      \* the bytes in the bank
  onWire,        \* the bank belongs to the other side
  wire,          \* the bytes that have crossed the wire
  timeoutMSRem, frameFlag,
  pipeStalled, attached,
  waited,        \* history: the frames since the wait began
  askedFor         \* history: the parameter Length

pipeVars == <<function, Length, callback, streamPc, memory, pipeBank, onWire, wire,
              timeoutMSRem, frameFlag, pipeStalled, attached, waited, askedFor>>

StartWaiting ==
  /\ streamPc' = "wait" /\ timeoutMSRem' = USB_STREAM_TIMEOUT_MS
  /\ frameFlag' = FALSE /\ waited' = 0

PipeInit ==
  /\ function \in StreamFunctions /\ askedFor \in StreamLengths /\ callback \in BOOLEAN
  /\ Length = askedFor /\ streamPc = "wait"
  /\ memory = [i \in 1 .. askedFor |-> 0]
  /\ pipeBank = <<>> /\ onWire = (function.moves # "Write") /\ wire = <<>>
  /\ timeoutMSRem = USB_STREAM_TIMEOUT_MS /\ frameFlag = FALSE /\ waited = 0
  /\ pipeStalled \in (IF function.bus = "Endpoint" THEN BOOLEAN ELSE {FALSE})
  /\ attached = TRUE

Writes == function.moves = "Write"
Moved  == askedFor - Length

(* RWAL; a stalled endpoint has no bank for the program, nor has a pipe    *)
(* after the interface was reset because the device is gone.               *)
ReadWriteAllowed ==
  /\ ~onWire
  /\ IF function.bus = "Endpoint" THEN ~pipeStalled ELSE attached
  /\ IF Writes THEN Len(pipeBank) < PipeBank ELSE pipeBank # <<>>

(* A function that returns.                                                *)
ReturnsWith(c) ==
  /\ streamPc' = c
  /\ UNCHANGED <<timeoutMSRem, frameFlag, waited>>

StreamUnchanged == UNCHANGED <<function, callback, askedFor, pipeStalled, attached>>

-----------------------------------------------------------------------------
(* Pipe_WaitUntilReady and Endpoint_WaitUntilReady, which differ in what   *)
(* they look at first.                                                     *)

BankReady ==
  /\ streamPc = "wait" /\ ReadWriteAllowed
  /\ streamPc' = "byte"
  /\ UNCHANGED <<Length, memory, pipeBank, onWire, wire, timeoutMSRem, frameFlag, waited>>
  /\ StreamUnchanged

WaitEnds ==
  /\ streamPc = "wait" /\ ~ReadWriteAllowed
  /\ \/ /\ function.bus = "Pipe" /\ pipeStalled /\ ReturnsWith("PipeStalled")
     \/ /\ function.bus = "Pipe" /\ ~pipeStalled /\ ~attached
        /\ ReturnsWith("DeviceDisconnected")
     \/ /\ function.bus = "Endpoint" /\ ~attached /\ ReturnsWith("DeviceDisconnected")
     \/ /\ function.bus = "Endpoint" /\ attached /\ pipeStalled
        /\ ReturnsWith("EndpointStalled")
     \/ /\ ~pipeStalled /\ attached /\ frameFlag /\ timeoutMSRem = 0
        /\ ReturnsWith("Timeout")
  /\ UNCHANGED <<Length, memory, pipeBank, onWire, wire>>
  /\ StreamUnchanged

WaitOn ==
  /\ streamPc = "wait" /\ ~ReadWriteAllowed /\ ~pipeStalled /\ attached
  /\ frameFlag /\ timeoutMSRem > 0
  /\ frameFlag' = FALSE /\ timeoutMSRem' = timeoutMSRem - 1
  /\ UNCHANGED <<Length, streamPc, memory, pipeBank, onWire, wire, waited>>
  /\ StreamUnchanged

-----------------------------------------------------------------------------
(* The loop over the bytes.                                                *)

(* The bank is passed on, the callback may abort, and the next is awaited. *)
PassBank ==
  /\ streamPc = "byte" /\ Length > 0 /\ ~ReadWriteAllowed
  /\ onWire' = TRUE
  /\ pipeBank' = IF Writes THEN pipeBank ELSE <<>>
  /\ \/ StartWaiting
     \/ callback /\ ReturnsWith("CallbackAborted")
  /\ UNCHANGED <<Length, memory, wire>>
  /\ StreamUnchanged

(* Mutant: the pointer runs forwards, whatever the byte order.             *)
PlaceForwards(k) == k

(* Where in memory the k-th byte of the stream is.                         *)
Place(k) == IF function.order = "LE" THEN k ELSE askedFor - k + 1

MoveByte ==
  /\ streamPc = "byte" /\ Length > 0 /\ ReadWriteAllowed
  /\ Length' = Length - 1
  /\ pipeBank' = IF Writes THEN Append(pipeBank, Place(Moved + 1)) ELSE Tail(pipeBank)
  /\ memory' = IF function.moves = "Read"
               THEN [memory EXCEPT ![Place(Moved + 1)] = Head(pipeBank)] ELSE memory
  /\ UNCHANGED <<streamPc, onWire, wire, timeoutMSRem, frameFlag, waited>>
  /\ StreamUnchanged

StreamEnds ==
  /\ streamPc = "byte" /\ Length = 0
  /\ ReturnsWith("NoError")
  /\ UNCHANGED <<Length, memory, pipeBank, onWire, wire>>
  /\ StreamUnchanged

-----------------------------------------------------------------------------
(* The other side, and the bus.                                            *)

Underway == streamPc \in {"wait", "byte"}

ProgramUnchanged ==
  UNCHANGED <<function, Length, callback, streamPc, memory, timeoutMSRem, askedFor>>

TakePacket ==
  /\ Underway /\ Writes /\ onWire /\ attached /\ ~pipeStalled
  /\ wire' = wire \o pipeBank /\ pipeBank' = <<>> /\ onWire' = FALSE
  /\ UNCHANGED <<frameFlag, waited, pipeStalled, attached>> /\ ProgramUnchanged

SendPacket ==
  /\ Underway /\ ~Writes /\ onWire /\ attached /\ ~pipeStalled
  /\ \E n \in 1 .. PipeBank :
       /\ pipeBank' = [i \in 1 .. n |-> Len(wire) + i]
       /\ wire' = wire \o pipeBank'
  /\ onWire' = FALSE
  /\ UNCHANGED <<frameFlag, waited, pipeStalled, attached>> /\ ProgramUnchanged

BusFrame ==
  /\ Underway /\ ~frameFlag /\ attached
  /\ frameFlag' = TRUE
  /\ waited' = IF streamPc = "wait" THEN waited + 1 ELSE waited
  /\ UNCHANGED <<pipeBank, onWire, wire, pipeStalled, attached>> /\ ProgramUnchanged

(* A device stalls a pipe; an endpoint is stalled by its own tasks, none   *)
(* of which runs during a stream.                                          *)
StallOrDetach ==
  /\ Underway
  /\ \/ /\ function.bus = "Pipe" /\ ~pipeStalled
        /\ pipeStalled' = TRUE /\ UNCHANGED attached
     \/ attached /\ attached' = FALSE /\ UNCHANGED pipeStalled
  /\ UNCHANGED <<pipeBank, onWire, wire, frameFlag, waited>> /\ ProgramUnchanged

PipeNext ==
  \/ BankReady \/ WaitEnds \/ WaitOn \/ PassBank \/ MoveByte \/ StreamEnds
  \/ TakePacket \/ SendPacket \/ BusFrame \/ StallOrDetach

-----------------------------------------------------------------------------
(* The functions that move words and double words, one after the other in  *)
(* Pipe.h and again in Endpoint.h: the digits of a number, lowest first.   *)

(* What the i-th byte of a number counts, from the lowest one up.          *)
Weight[i \in 0 .. 4] == IF i = 0 THEN 1 ELSE Digits * Weight[i - 1]

(* The number whose digits these are, highest first.                       *)
Number(digits) ==
  LET number[i \in 0 .. Len(digits)] ==
        IF i = 0 THEN 0 ELSE number[i - 1] * Digits + digits[i]
  IN number[Len(digits)]

WriteLE(digits) == digits
WriteBE(digits) == Reverse(digits)
ReadLE(bytes)   == Number(Reverse(bytes))
ReadBE(bytes)   == Number(bytes)

Word(n, size) == [i \in 1 .. size |-> (n \div Weight[i - 1]) % Digits]

-----------------------------------------------------------------------------
(* What has crossed the wire or stands in the bank are the bytes moved, in *)
(* the order of the function, each of them once, however the stream ends;  *)
(* nothing is stored elsewhere, and a bank is passed on before a callback  *)
(* can abort.  It is complete exactly when the function says so, and times *)
(* out after one frame more than its limit.  A word that was written is    *)
(* the one that is read with the same order of bytes.                      *)
StreamsInOrder ==
  /\ Writes => wire \o pipeBank = [k \in 1 .. Moved |->
                                     IF function.order = "LE" THEN k ELSE askedFor + 1 - k]
  /\ ~Writes /\ attached => Len(wire) = Moved + Len(pipeBank)
  /\ function.moves = "Read" =>
       \A i \in 1 .. askedFor :
         memory[i] = LET k == IF function.order = "LE" THEN i ELSE askedFor + 1 - i
                     IN IF k <= Moved THEN k ELSE 0
  /\ streamPc = "NoError" => Length = 0
  /\ streamPc = "CallbackAborted" => callback /\ onWire /\ Length > 0 /\ (Moved > 0 \/ ~attached)
  /\ streamPc = "Timeout" => waited = USB_STREAM_TIMEOUT_MS + 1
  /\ \A size \in {2, 4} : \A n \in 0 .. Weight[size] - 1 :
       /\ ReadLE(WriteLE(Word(n, size))) = n
       /\ ReadBE(WriteBE(Word(n, size))) = n

=============================================================================
