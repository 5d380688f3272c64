---------------------------- MODULE MCUsbDevice ----------------------------
(***************************************************************************)
(* A small instance of UsbDevice for TLC.                                  *)
(***************************************************************************)
EXTENDS UsbDevice

Req(kind, value, length) == [kind |-> kind, value |-> value, length |-> length]

(* One request of each kind.  With packets of two bytes a descriptor of    *)
(* three ends with a short packet and one of four with a full one; the     *)
(* host asks for less than, exactly and more than there is.                *)
StandardRequests ==
  {Req("GetStatus", 0, 2), Req("SetHalt", 0, 0), Req("ClearHalt", 0, 0),
   Req("SetAddress", 1, 0), Req("GetConfiguration", 0, 1)}
    \union {Req("SetConfiguration", v, 0) : v \in 0 .. 2}
    \union {Req("GetDescriptor", 3, 6), Req("GetDescriptor", 4, 2),
            Req("GetDescriptor", 4, 4), Req("GetDescriptor", 4, 6),
            Req("GetDescriptor", 0, 6)}

ClassRequests ==
  {Req("SendEncapsulated", 0, 3), Req("GetEncapsulated", 0, 4),
   Req("GetEncapsulated", 0, 6), Req("unsupported", 0, 2)}

AllRequests == StandardRequests \union ClassRequests

MessageLengths == {0, 3, 4}
=============================================================================
