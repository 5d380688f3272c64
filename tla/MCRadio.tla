------------------------------ MODULE MCRadio ------------------------------
(***************************************************************************)
(* A small instance of Radio for TLC: a FIFO of four bytes whose status    *)
(* shows at most three, and frames that fit the first write, that need     *)
(* more writes than one, that fill more than the FIFO, and whose length    *)
(* does not fit the count, which then is zero or one.                      *)
(***************************************************************************)
EXTENDS Radio

Lengths == {2, 3, 6, 8, 9}

Values == {0, 3}
=============================================================================
