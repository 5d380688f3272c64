------------------------- MODULE MCEndpointStreams -------------------------
(***************************************************************************)
(* A small instance of EndpointStreams for TLC: banks of two bytes and a   *)
(* header of one, so that a message may end with a bank (a frame of one    *)
(* byte) or inside one (two bytes); a frame of three bytes is too long.    *)
(***************************************************************************)
EXTENDS EndpointStreams

FrameLengths == {1, 2, 3}
=============================================================================
