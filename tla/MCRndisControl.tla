--------------------------- MODULE MCRndisControl ---------------------------
(***************************************************************************)
(* Small instances of RndisControl for TLC.                                *)
(***************************************************************************)
EXTENDS RndisControl

Request(type, oid, value) == [type |-> type, oid |-> oid, value |-> value]

(* Every command, with the known and the unknown OID where it has one.     *)
AllRequests ==
  {Request(t, "unknown", 0) : t \in CommandTypes}
    \union {Request("QUERY", "PACKET_FILTER", 0),
            Request("SET", "PACKET_FILTER", 0), Request("SET", "PACKET_FILTER", 1)}

=============================================================================
