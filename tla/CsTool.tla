------------------------------- MODULE CsTool -------------------------------
(***************************************************************************)
(* tools/cstool.pl in dialogue with the hub's server of module Packets:    *)
(* one request at a time, each with the next token, and a recv without a   *)
(* timeout.  The answer is lost when the hub's IN bank is busy; a network  *)
(* between them may deliver it twice.                                      *)
(***************************************************************************)
EXTENDS Packets

CONSTANTS
  MenuChoices,   \* what the user chooses from the menu
  IPs, Ports, MACs,  \* the addresses the user types
  TokenModulus,  \* the tokens pack("C") can tell apart, 256
  MaxRequests,   \* bound: how many requests are sent
  MaxStarts      \* bound: how often the tool is started

(* The menu: the operation that each choice sends.                         *)
functions ==
  [B |-> ">", r |-> "0", A |-> "A", M |-> "M", S |-> "I", T |-> "T", e |-> "e", E1 |-> "E",
   E2 |-> "F", s |-> "u", c |-> "c", pa |-> "a", pt |-> "p", t |-> "t", b |-> "b"]

ASSUME MenuAssumption == MenuChoices \subseteq DOMAIN functions

(* What the user types is an address or a port: a MAC address of six       *)
(* bytes, though enter_MAC takes five too, or nothing, which a zero stands *)
(* for.                                                                    *)
MaxPort == 65535

ASSUME EnteredAssumption ==
  /\ \A ip \in IPs : ip \in Seq(Byte) /\ Len(ip) = 4
  /\ \A m \in MACs : m \in Seq(Byte) /\ Len(m) = 6
  /\ \A port \in Ports : port \in 0 .. MaxPort

ASSUME CsToolAssumption ==
  /\ TokenModulus \in 2 .. 256 /\ MaxRequests \in Nat /\ MaxStarts \in 0 .. 255

(* The ports the host's stack gives the tool's sockets.  No other datagram *)
(* names one of them where the server looks for it, and each has its whole *)
(* header.                                                                 *)
PortOf(s) == <<200, s>>

ASSUME OtherPortsAssumption ==
  \A f \in Arrivals : IsUDP(f) =>
    /\ Len(f) >= ETH + IP + UDP
    /\ \A s \in 1 .. MaxStarts : Field(f, ETH + IP, 2) # PortOf(s)

(* Nobody else sets the hub's addresses or lets it restart: the other      *)
(* datagrams bring an operation along, and it is none that does.  Without  *)
(* one the server would take what lies in the buffer, and the low byte of  *)
(* the time in the last notice is there.                                   *)
Setting == {Letter(c) : c \in {"T", "I", "M", "A", "E", "F", "0", ">", "b"}}

ASSUME OthersAskAssumption ==
  \A f \in Arrivals : IsUDP(f) =>
    Len(f) > HeaderEnd(f) + UDP /\ At(f, HeaderEnd(f) + UDP) \notin Setting

VARIABLES
  tool,       \* "closed", "ready", "waiting" or "dead"
  token,      \* $token, never cut to a byte
  socket,     \* the tool's port: a new one each time it is started
  peer,       \* MAC, IP address and port of the server it talks to
  command,    \* the command of the last request
  toHub,      \* requests on their way to the hub
  toTool,     \* replies on their way to the tool
  accepted,   \* history: the last reply accepted and the command it answered
  requests,   \* history: how many requests have been sent
  lost, copied \* history: a reply to the running tool was lost, one was delivered twice

toolVars == <<tool, token, socket, peer, command, toHub, toTool,
              accepted, requests, lost, copied>>

allVars == <<vars, toolVars>>

NoCommand  == [op |-> 0, argument |-> <<>>]
NoAccepted == [command |-> NoCommand, op |-> 0, text |-> <<>>]

ToolInit ==
  /\ Init
  /\ tool = "closed" /\ token = 0 /\ socket = 0 /\ peer = <<>> /\ command = NoCommand
  /\ toHub = <<>> /\ toTool = {} /\ accepted = NoAccepted
  /\ requests = 0 /\ lost = FALSE /\ copied = FALSE

-----------------------------------------------------------------------------
(* The host: its addresses, and the frame its stack builds of a datagram.  *)
HostMAC == <<2, 0, 2, 0, 2, 9>>
HostIP  == <<192, 168, 108, 1>>

Datagram(to, s, payload) ==
  LET bare == SubSeq(to, 1, 6) \o HostMAC \o BE16(TypeIPv4)
                \o IPHeader(ProtocolUDP, UDP + Len(payload), HostIP, SubSeq(to, 7, 10))
                \o PortOf(s) \o <<to[12], to[11]>> \o BE16(UDP + Len(payload)) \o <<0, 0>>
                \o payload
  IN WithChecksum(bare)

(* Mutant: the addresses are the factory settings, whatever was set since. *)
OpenFactory ==
  /\ tool \in {"closed", "dead"} /\ pc = "idle" /\ requests < MaxRequests /\ socket < MaxStarts
  /\ tool' = "ready" /\ token' = 0 /\ socket' = socket + 1
  /\ peer' = ServerMAC(Defaults[1].fields) \o Field(Defaults[1].fields, SIP, 6)
  /\ UNCHANGED <<vars, command, toHub, toTool, accepted, requests, lost, copied>>

(* The tool is started, again perhaps: CULServer_connect, with the         *)
(* addresses the hub is known to have.                                     *)
Open ==
  /\ tool \in {"closed", "dead"} /\ pc = "idle" /\ requests < MaxRequests /\ socket < MaxStarts
  /\ tool' = "ready" /\ token' = 0 /\ socket' = socket + 1
  /\ peer' = ServerMAC(config) \o Field(config, SIP, 6)
  /\ UNCHANGED <<vars, command, toHub, toTool, accepted, requests, lost, copied>>

(* Mutant: the request is packed before the token is counted.              *)
SendOldToken(c) ==
  /\ tool = "ready" /\ requests < MaxRequests
  /\ token' = token + 1 /\ command' = c /\ requests' = requests + 1
  /\ toHub' = Append(toHub, Datagram(peer, socket,
                 <<c.op, token % TokenModulus, 0, 0>> \o c.argument))
  /\ tool' = "waiting"
  /\ UNCHANGED <<vars, socket, peer, toTool, accepted, lost, copied>>

(* CULServer_sendrequest, up to recv.                                      *)
Send(c) ==
  /\ tool = "ready" /\ requests < MaxRequests
  /\ token' = token + 1 /\ command' = c /\ requests' = requests + 1
  /\ toHub' = Append(toHub, Datagram(peer, socket,
                 <<c.op, (token + 1) % TokenModulus, 0, 0>> \o c.argument))
  /\ tool' = "waiting"
  /\ UNCHANGED <<vars, socket, peer, toTool, accepted, lost, copied>>

(* The default takes the place of what is numerically equal to "", for ==  *)
(* compares numbers: a MAC address that begins with 00 or with a letter as *)
(* one of its first two digits and no digit but 0 before it, an IP address *)
(* that begins with 0.0, the port 0.                                       *)
ZeroMAC(m) == m[1] = 0 \/ m[1] \in 10 .. 15 \/ m[1] >= 160
ZeroIP(ip) == ip[1] = 0 /\ ip[2] = 0

OrDefault(typed, zero, default) == IF zero THEN default ELSE typed

(* enter_MAC; enter_IP with enter_Port, the low byte of the port first.    *)
EnteredMAC(default) == {OrDefault(m, ZeroMAC(m), default) : m \in MACs}

EnteredIPPort(default) ==
  {OrDefault(ip, ZeroIP(ip), default) \o LE16(OrDefault(port, port = 0, 7073)) : ip \in IPs, port \in Ports}

(* What a function of the menu sends behind its operation.                 *)
Arguments(op) ==
  CASE op = "A" -> EnteredMAC(<<2, 0, 2, 0, 2, 0>>)
    [] op = "M" -> EnteredMAC(<<2, 80, 139, 0, 0, 1>>)
    [] op = "I" -> EnteredIPPort(<<192, 168, 108, 127>>)
    [] op = "T" -> EnteredIPPort(<<192, 168, 108, 1>>)
    [] OTHER    -> {<<>>}

(* ui: the user chooses, a wrong choice or address is asked for again.     *)
Ui ==
  \E f \in MenuChoices : \E a \in Arguments(functions[f]) :
    Send([op |-> Letter(functions[f]), argument |-> a])

exit_ui ==
  /\ tool = "ready"
  /\ tool' = "closed"
  /\ UNCHANGED <<vars, token, socket, peer, command, toHub, toTool, accepted, requests,
                 lost, copied>>

(* The hub takes the request, in between other frames.                     *)
HubReceives ==
  /\ toHub # <<>> /\ Receive(Head(toHub))
  /\ toHub' = Tail(toHub)
  /\ UNCHANGED <<tool, token, socket, peer, command, toTool, accepted, requests, lost, copied>>

OtherFrame ==
  /\ \E f \in Arrivals : Arrive(f)
  /\ UNCHANGED toolVars

(* A datagram of the server as the tool's socket sees it.                  *)
Reply(f) ==
  LET at == ETH + IP + UDP
  IN [port |-> Field(f, ETH + IP + 2, 2), op |-> At(f, at), token |-> At(f, at + 1),
      code |-> At(f, at + 2), text |-> Field(f, at + 4, At(f, at + 3))]

(* The hub's answer is sent, or lost.                                      *)
HubServes ==
  /\ Process
  /\ IF answer' # <<>> /\ IsUDP(answer')
     THEN \/ toTool' = toTool \union {Reply(answer')} /\ UNCHANGED lost
          \/ lost' = (lost \/ Reply(answer').port = PortOf(socket)) /\ UNCHANGED toTool
     ELSE UNCHANGED <<toTool, lost>>
  /\ UNCHANGED <<tool, token, socket, peer, command, toHub, accepted, requests, copied>>

HubElse ==
  /\ SendExtra \/ Restart \/ Second \/ Blink
  /\ UNCHANGED toolVars

-----------------------------------------------------------------------------
(* The replies recv may return; one that is returned may come again.       *)
Received(r) ==
  /\ tool = "waiting" /\ r \in toTool /\ r.port = PortOf(socket)
  /\ \/ toTool' = toTool \ {r} /\ UNCHANGED copied
     \/ UNCHANGED toTool /\ ~copied /\ copied' = TRUE

(* Mutant: any reply is taken for the answer.                              *)
AnyToken(r) == TRUE

(* $tokenrecv against $token.                                              *)
OwnToken(r) == r.token = token

(* The commands after which the tool exits, when they are acknowledged.    *)
Exits == {Letter(c) : c \in {">", "0", "A", "M", "I", "E", "F"}}

Accept ==
  \E r \in toTool :
    /\ Received(r) /\ OwnToken(r) /\ r.code \in {ACK, NAK}
    /\ tool' = IF r.code = ACK /\ command.op \in Exits THEN "closed" ELSE "ready"
    /\ accepted' = [command |-> command, op |-> r.op, text |-> r.text]
    /\ UNCHANGED <<vars, token, socket, peer, command, toHub, requests, lost>>

Die ==
  \E r \in toTool :
    /\ Received(r) /\ (~OwnToken(r) \/ r.code \notin {ACK, NAK})
    /\ tool' = "dead"
    /\ UNCHANGED <<vars, token, socket, peer, command, toHub, accepted, requests, lost>>

-----------------------------------------------------------------------------
Tool == Accept \/ Die

ToolNext ==
  \/ Open \/ Ui \/ exit_ui \/ Tool \/ HubReceives \/ OtherFrame \/ HubServes \/ HubElse

ToolSpec == ToolInit /\ [][ToolNext]_allVars

(* The hub serves what it has and takes what comes, the tool reads what    *)
(* has arrived.                                                            *)
Serves == pc = "process" /\ pc' \in {"extras", "idle"}
Ends   == pc = "extras" /\ pc' = "idle"
Takes  == pc = "idle" /\ toHub # <<>> /\ toHub' = Tail(toHub)

ToolFairness ==
  WF_pc(Serves) /\ WF_pc(Ends) /\ SF_toHub(Takes) /\ WF_toolVars(Tool)

ToolFairSpec == ToolSpec /\ ToolFairness

-----------------------------------------------------------------------------
(* The reply the tool accepts is the reply to its last request: it names   *)
(* that operation, and an address that was set comes back.                 *)
AcceptsOwnReply ==
  accepted.op = accepted.command.op /\
    LET text == accepted.text
    IN text # <<>> /\ OperandLength(accepted.op) > 0 => IsPrefix(text, accepted.command.argument)

(* What get_eeprom_data and get_time read out of the reply.                *)
Shown(text) ==
  [target |-> Field(text, 0, 6), server |-> Field(text, 6, 6),
   serverMAC |-> Field(text, 12, 6), adapterMAC |-> Field(text, 18, 6)]

Uptime(text) == ((At(text, 3) * 256 + At(text, 2)) * 256 + At(text, 1)) * 256 + At(text, 0)

(* While no request is under way the hub has the addresses and ports that  *)
(* the last acknowledged command set, and those that the tool has shown;   *)
(* the time it has shown is not ahead of the hub's.                        *)
SettingsInForce ==
  tool # "waiting" /\ accepted.command = command =>
    LET c == command
    IN /\ c.op = Letter("I") => Field(config, SIP, 6) = c.argument
       /\ c.op = Letter("T") => Field(config, TIP, 6) = c.argument
       /\ c.op = Letter("M") => Field(config, SMAC, 6) = c.argument
       /\ c.op = Letter("A") => Field(config, AMAC, 6) = c.argument
       /\ c.op = Letter("e") =>
            Shown(accepted.text) = [target |-> Field(config, TIP, 6), server |-> Field(config, SIP, 6),
                                    serverMAC |-> ServerMAC(config), adapterMAC |-> AdapterMAC(config)]
       /\ c.op = Letter("t") => Uptime(accepted.text) <= clock

(* The tool dies of a reply it should not have got only when the network   *)
(* doubled one, or when its token no longer fits a byte.                   *)
DiesForReason == tool = "dead" => copied \/ token >= TokenModulus

(* The tool waits forever in recv only for the reply to a blink, which the *)
(* hub's watchdog prevents, or for a reply of its own that was lost: it    *)
(* has no timeout.  A doubled reply makes it die with a request under way, *)
(* which may change the address to which the next tool sends.              *)
ToolReturns == tool = "waiting" ~> tool # "waiting" \/ command.op = Letter("b") \/ lost \/ copied
=============================================================================
