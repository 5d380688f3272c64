----------------------------- MODULE MCLibrary ------------------------------
(***************************************************************************)
(* The parts of LUFA and of CULeth that no other component drives, checked *)
(* one at a time: a behaviour is one of the part chosen in its first       *)
(* state, and the others stay as they are.                                 *)
(***************************************************************************)
EXTENDS DynAlloc, HIDParser, Timing, PipeStreams, ConfigWalk, UsbHost

VARIABLE part

Parts == {"alloc", "hid", "delay", "clock", "pipe", "walk", "host"}

libraryVars == <<part, allocVars, hidVars, delayVars, clockVars, pipeVars, walkVars, hostVars>>

Others(p) ==
  /\ UNCHANGED part
  /\ p # "alloc" => UNCHANGED allocVars
  /\ p # "hid"   => UNCHANGED hidVars
  /\ p # "delay" => UNCHANGED delayVars
  /\ p # "clock" => UNCHANGED clockVars
  /\ p # "pipe"  => UNCHANGED pipeVars
  /\ p # "walk"  => UNCHANGED walkVars
  /\ p # "host"  => UNCHANGED hostVars

(* A part that was not chosen has one initial state.                       *)
MCInit ==
  /\ part \in Parts
  /\ AllocInit /\ HidInit /\ DelayInit /\ ClockInit /\ PipeInit /\ WalkInit /\ HostInit
  /\ part # "delay" => \A d \in Delays : delay <= d
  /\ part # "pipe" =>
       /\ function = Pipe_Write_Stream_LE /\ ~callback
       /\ \A n \in StreamLengths : askedFor <= n

MCNext ==
  \/ part = "alloc" /\ AllocNext /\ Others("alloc")
  \/ part = "hid" /\ HidNext /\ Others("hid")
  \/ part = "delay" /\ DelayNext /\ Others("delay")
  \/ part = "clock" /\ ClockNext /\ Others("clock")
  \/ part = "pipe" /\ PipeNext /\ Others("pipe")
  \/ part = "walk" /\ WalkNext /\ Others("walk")
  \/ part = "host" /\ HostNext /\ Others("host")

MCSpec ==
  /\ MCInit /\ [][MCNext]_libraryVars
  /\ WF_libraryVars(part = "host" /\ HostTask /\ Others("host"))

-----------------------------------------------------------------------------
(* The properties of the parts, each looked at while its part runs: what   *)
(* it says of the initial state of a part that is not chosen, it says of   *)
(* the same state where the part is.                                       *)

(* What an application of the allocator has been given stays its own and   *)
(* keeps what it put there, wherever Mem_Defrag moves it.                  *)
MCAllocationsIntact == part = "alloc" => AllocationsIntact

(* ProcessHIDReport records the fields that the descriptor declares.       *)
MCFieldsAsDeclared == part = "hid" => FieldsAsDeclared

(* Delays and times read are off by no more than the wraps and the carries *)
(* of the counters make them.                                              *)
MCTimeKept == part \in {"delay", "clock"} => TimeKept

(* The stream functions move every byte once, in their order.              *)
MCStreamsInOrder == part = "pipe" => StreamsInOrder

(* A host that walks the descriptor finds the endpoints of the device.     *)
MCEndpointsAgree == part = "walk" => EndpointsAgree

=============================================================================
