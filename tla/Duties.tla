------------------------------- MODULE Duties -------------------------------
(***************************************************************************)
(* What the hub owes to one frame: the transmissions it makes, where each  *)
(* goes and what it carries.                                               *)
(*                                                                         *)
(*   host    the frame itself, to the host (it came from the air)          *)
(*   air     the frame itself, on the air (it came from the host)          *)
(*   probe   a test packet on the air, if the frame asks for one           *)
(*   answer  CULServer's answer, to where the frame came from              *)
(*   extra   a notice or a test message, to the host                       *)
(***************************************************************************)
EXTENDS Naturals

CONSTANT NoFrame   \* in the place of a frame where there is none

(* What a frame is owed is decided by where it came from, whom it is       *)
(* addressed to and what it asks of CULServer.                             *)

Steps == {"host", "air", "probe", "answer", "extra"}

Rank == [host |-> 1, air |-> 2, probe |-> 3, answer |-> 4, extra |-> 5]

After(s) == {t \in Steps : Rank[t] > Rank[s]}

Answered(f) == f.to \in {"server", "broadcast"} /\ f.body # "silent"

Owes(f, s) ==
  \/ s = "host"   /\ f.src = "CC1101" /\ f.to # "server"
  \/ s = "air"    /\ f.src = "RNDIS" /\ f.to # "server"
  \/ s = "probe"  /\ Answered(f) /\ f.body = "onair"
  \/ s = "answer" /\ Answered(f)
  \/ s = "extra"  /\ ~ (Answered(f) /\ f.body \in {"reboot", "bootloader"})

Owed(f) == {s \in Steps : Owes(f, s)}

Target(f, s) ==
  CASE s \in {"host", "extra"} -> "RNDIS"
    [] s \in {"air", "probe"}  -> "CC1101"
    [] s = "answer"            -> f.src

(* The destination interfaces that a notice reports.                       *)
Destinations(f) ==
  CASE f.to = "server"    -> {"INTERNAL"}
    [] f.to = "broadcast" -> {"RNDIS", "CC1101", "INTERNAL"} \ {f.src}
    [] f.to = "other"     -> {"RNDIS", "CC1101"} \ {f.src}

Content(f, s) ==
  CASE s \in {"host", "air"} -> [kind |-> "frame", frame |-> f, src |-> "NONE", dst |-> {}]
    [] s = "probe"  -> [kind |-> "probe",  frame |-> f, src |-> "NONE", dst |-> {}]
    [] s = "answer" -> [kind |-> "answer", frame |-> f, src |-> "NONE", dst |-> {}]
    [] s = "extra"  ->
         IF Answered(f) /\ f.body = "test"
         THEN [kind |-> "test", frame |-> NoFrame, src |-> "NONE", dst |-> {}]
         ELSE [kind |-> "notice", frame |-> NoFrame, src |-> f.src, dst |-> Destinations(f)]

=============================================================================
