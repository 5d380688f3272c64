------------------------------ MODULE MCCsTool ------------------------------
(***************************************************************************)
(* A small instance of CsTool for TLC.  The other frames are of the kinds  *)
(* the server answers and of those it must not answer: an echo request     *)
(* that fills the buffer, one of odd length with an IP option, one to the  *)
(* broadcast addresses, an ARP request, an operation the server does not   *)
(* know, a datagram for another port.                                      *)
(***************************************************************************)
EXTENDS CsTool

(* config.c: the two factory settings and the header of both.              *)
Factory(n, tport) ==
  [fields |-> <<192, 168, 108, 1>> \o tport \o <<192, 168, 108, 100 + n>> \o <<0, 192>>
                \o <<2, 80, 139, 0, 0, n>> \o <<2, 0, 2, 0, 2, n>>,
   header |-> <<3, 0, 105, 25>>]

FactoryDefaults == <<Factory(1, <<163, 8>>), Factory(2, <<164, 8>>)>>

Hub1 == [mac |-> <<2, 80, 139, 0, 0, 1>>, ip |-> <<192, 168, 108, 101>>]

Frame(dst, ihl, protocol, ip, payload) ==
  dst \o HostMAC \o <<8, 0, 64 + ihl, 0>> \o BE16(4 * ihl + Len(payload))
    \o <<0, 0, 0, 0, 64, protocol, 0, 0>> \o HostIP \o ip
    \o [i \in 1 .. 4 * (ihl - 5) |-> 1] \o payload

Ping(dst, ihl, ip, data) == Frame(dst, ihl, 1, ip, <<8, 0, 1, 2, 3, 4, 5, 6>> \o data)

ARPRequest ==
  BroadcastMAC \o HostMAC \o <<8, 6, 0, 1, 8, 0, 6, 4, 0, 1>> \o HostMAC \o HostIP
    \o <<0, 0, 0, 0, 0, 0>> \o Hub1.ip

OtherFrames ==
  {Ping(Hub1.mac, 5, Hub1.ip, [i \in 1 .. BufferSize - 42 |-> 255 - i]),
   Ping(Hub1.mac, 6, Hub1.ip, <<255, 254, 253>>),
   Ping(BroadcastMAC, 5, BroadcastIP, <<9, 9>>),
   ARPRequest,
   Frame(Hub1.mac, 5, 17, Hub1.ip, <<200, 99, 192, 0, 0, 12, 0, 0, 63, 9, 0, 0>>),
   Frame(Hub1.mac, 5, 17, Hub1.ip, <<1, 1, 2, 2, 0, 12, 0, 0, 118, 9, 0, 0>>)}

UserChoices == {"t", "pt", "e", "B", "E2", "S", "M", "A", "c", "b"}
UserIPs   == {<<192, 168, 108, 9>>}
UserPorts == {513}
UserMACs  == {<<2, 80, 139, 0, 0, 7>>, <<10, 0, 0, 0, 0, 1>>}
=============================================================================
