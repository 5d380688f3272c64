------------------------------- MODULE MCBoot -------------------------------
(***************************************************************************)
(* A small instance of Boot for TLC.                                       *)
(***************************************************************************)
EXTENDS Boot

OneUser == {"user"}

=============================================================================
