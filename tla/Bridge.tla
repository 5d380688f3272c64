------------------------------- MODULE Bridge -------------------------------
(***************************************************************************)
(* What the hub promises, without its scheduler, its one frame buffer or   *)
(* its endpoints: frames are taken one at a time, each at most once, and a *)
(* frame in service is owed the transmissions of module Duties, in that    *)
(* order.  A transmission may be lost (a bank is busy, the device is reset) or cut *)
(* short, but never repeated, never out of order, never to another         *)
(* interface and never with another content.  Module Hub implements this   *)
(* specification.                                                          *)
(***************************************************************************)
EXTENDS Duties, Sequences

CONSTANT Frame   \* the frames that may be taken: records [id, src, to, body]

VARIABLES cur,      \* the frame in service
          owed,     \* what the frame in service still owes
          taken,    \* the frames taken so far
          log       \* every transmission made, in order

vars == <<cur, owed, taken, log>>

-----------------------------------------------------------------------------
Init == cur = NoFrame /\ owed = {} /\ taken = {} /\ log = <<>>

(* A frame is served to its end: cur falls back with the last thing owed.  *)
Owe(S) == owed' = S /\ cur' = IF S = {} THEN NoFrame ELSE cur

Take(f) ==
  /\ owed = {}
  /\ f \notin taken
  /\ cur' = f
  /\ owed' = Owed(f)
  /\ taken' = taken \union {f}
  /\ UNCHANGED log

Emit(s, whole) ==
  /\ s \in owed
  /\ log' = Append(log, [to |-> Target(cur, s), packet |-> Content(cur, s), whole |-> whole])
  /\ Owe(owed \intersect After(s))
  /\ UNCHANGED taken

Lose(S) ==
  /\ S \subseteq owed
  /\ Owe(S)
  /\ UNCHANGED <<taken, log>>

Next ==
  \/ \E f \in Frame : Take(f)
  \/ \E s \in Steps, whole \in BOOLEAN : Emit(s, whole)
  \/ \E S \in SUBSET Steps : Lose(S)

Spec == Init /\ [][Next]_vars

=============================================================================
