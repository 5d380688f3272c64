------------------------------- MODULE MCHub -------------------------------
(***************************************************************************)
(* Small instances of Hub for TLC.                                         *)
(***************************************************************************)
EXTENDS Hub

Shape(to, body) == [to |-> to, body |-> body]

(* The frames of each run.  MixedShapes has one of each body and of each   *)
(* destination that is told from the others.                               *)
MixedShapes ==
  {Shape("server", b) : b \in {"query", "test", "onair", "blink", "reboot"}}
    \union {Shape("broadcast", b) : b \in {"query", "silent", "bootloader"}}
    \union {Shape("other", "silent")}

PairShapes == {Shape("broadcast", "silent"), Shape("server", "test")}

QueryShapes == {Shape("server", "query"), Shape("other", "silent")}

RadioShapes == {Shape("server", "query"), Shape("other", "silent")}

NoShapes == {}

(* The control messages: the one that opens the data path, the one that    *)
(* shuts it, and one that only occupies the message buffer.                *)
OpenCommand  == Command("SET", 1, "PACKET_FILTER", 1)
HaltCommand  == Command("HALT", 1, "unknown", 0)
OtherCommand == Command("other", 1, "unknown", 0)

AllCommands == {OpenCommand, HaltCommand, OtherCommand}
OpenCommands == {OpenCommand}

=============================================================================
