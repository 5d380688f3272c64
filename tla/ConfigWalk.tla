----------------------------- MODULE ConfigWalk -----------------------------
(***************************************************************************)
(* The configuration descriptor of CULeth, the functions of LUFA that a    *)
(* host walks it with, and the endpoints that the device configures: both  *)
(* sides have to mean the same endpoints.                                  *)
(*                                                                         *)
(* A position is a number of bytes.  A search by comparator leaves the     *)
(* bytes remaining out of step with the position; a walk that goes beyond  *)
(* the end of the descriptor for that is not followed on.                  *)
(***************************************************************************)
EXTENDS Integers, Sequences, FiniteSets, SequencesExt

CONSTANT MaxSearches  \* bound: the searches of one walk

ASSUME ConfigWalkAssumption == MaxSearches \in Nat

Descriptor(type, size) == [type |-> type, size |-> size]

(* sizeof the descriptor types, field by field.                            *)
SizeOfHeader        == 1 + 1
SizeOfDevice        == SizeOfHeader + 2 + 1 + 1 + 1 + 1 + 2 + 2 + 2 + 1 + 1 + 1 + 1
SizeOfConfiguration == SizeOfHeader + 2 + 1 + 1 + 1 + 1 + 1
SizeOfInterface     == SizeOfHeader + 1 + 1 + 1 + 1 + 1 + 1 + 1
SizeOfEndpoint      == SizeOfHeader + 1 + 1 + 2 + 1

Interface(endpoints) ==
  [type |-> "Interface", size |-> SizeOfInterface, TotalEndpoints |-> endpoints]
Functional(dataSize) == Descriptor("Functional", 3 + dataSize)
Endpoint(dir, number, attributes, epsize) ==
  [type |-> "Endpoint", size |-> SizeOfEndpoint, dir |-> dir, number |-> number,
   attributes |-> attributes, epsize |-> epsize]

CDC_NOTIFICATION_EPNUM  == 3
CDC_TX_EPNUM            == 1
CDC_RX_EPNUM            == 2
CDC_NOTIFICATION_EPSIZE == 8
CDC_TXRX_EPSIZE         == 64

ConfigurationDescriptor ==
  <<Descriptor("Configuration", SizeOfConfiguration),
    Interface(1), Functional(2), Functional(2), Functional(1), Functional(2),
    Endpoint("In", CDC_NOTIFICATION_EPNUM, "Interrupt", CDC_NOTIFICATION_EPSIZE),
    Interface(2),
    Endpoint("Out", CDC_RX_EPNUM, "Bulk", CDC_TXRX_EPSIZE),
    Endpoint("In", CDC_TX_EPNUM, "Bulk", CDC_TXRX_EPSIZE)>>

(* Mutant: the numbers of the data endpoints have changed places.          *)
ConfiguredSwapped ==
  {Endpoint("In", CDC_NOTIFICATION_EPNUM, "Interrupt", CDC_NOTIFICATION_EPSIZE),
   Endpoint("In", CDC_RX_EPNUM, "Bulk", CDC_TXRX_EPSIZE),
   Endpoint("Out", CDC_TX_EPNUM, "Bulk", CDC_TXRX_EPSIZE)}

(* What the event handler for ConfigurationChanged configures.             *)
ConfiguredEndpoints ==
  {Endpoint("In", CDC_NOTIFICATION_EPNUM, "Interrupt", CDC_NOTIFICATION_EPSIZE),
   Endpoint("In", CDC_TX_EPNUM, "Bulk", CDC_TXRX_EPSIZE),
   Endpoint("Out", CDC_RX_EPNUM, "Bulk", CDC_TXRX_EPSIZE)}

(* The code of the controller for the smallest bank of so many bytes.      *)
BytesToEPSizeMask(bytes) ==
  CHOOSE m \in 0 .. 5 :
    /\ bytes <= 8 * 2 ^ m \/ m = 5
    /\ \A l \in 0 .. m - 1 : bytes > 8 * 2 ^ l

Places == DOMAIN ConfigurationDescriptor

(* Where each descriptor begins, and the end.                              *)
Offset[i \in 1 .. Len(ConfigurationDescriptor) + 1] ==
  IF i = 1 THEN 0 ELSE Offset[i - 1] + ConfigurationDescriptor[i - 1].size

TotalConfigurationSize == Offset[Len(ConfigurationDescriptor) + 1]

(* USB_GetDescriptor: the size of a descriptor, 0 when there is none.      *)
USB_STRING_LEN(chars) == SizeOfHeader + 2 * chars

DeviceDescriptor == Descriptor("Device", SizeOfDevice)

DescriptorSize(type, number) ==
  CASE type = "Device"                    -> DeviceDescriptor.size
    [] type = "Configuration"             -> TotalConfigurationSize
    [] type = "String" /\ number = 0      -> USB_STRING_LEN(1)
    [] type = "String" /\ number = 1      -> USB_STRING_LEN(11)
    [] type = "String" /\ number = 2      -> USB_STRING_LEN(19)
    [] OTHER                              -> 0

VARIABLES
  walkPc,     \* the host asks for the "size", for the "data", is on the "walk", has
              \* "ended" it before a descriptor, or reads "beyond" the last one
  configSize, \* what it knows the size to be
  CurrConfigLoc, BytesRem,
  searches,
  seen,       \* history: the endpoints its searches have stopped at
  thorough,   \* history: every search was for the next endpoint
  compared    \* history: a search with a comparator has stopped at a descriptor

walkVars == <<walkPc, configSize, CurrConfigLoc, BytesRem, searches, seen, thorough, compared>>

WalkInit ==
  /\ walkPc = "size" /\ configSize = 0 /\ CurrConfigLoc = 0 /\ BytesRem = 0
  /\ searches = 0 /\ seen = <<>> /\ thorough = TRUE /\ compared = FALSE

(* USB_Host_GetDeviceConfigDescriptor: the header first, which has the     *)
(* size, then as many bytes.                                               *)
GetConfigSize ==
  /\ walkPc = "size"
  /\ configSize' = DescriptorSize("Configuration", 0) /\ walkPc' = "data"
  /\ UNCHANGED <<CurrConfigLoc, BytesRem, searches, seen, thorough, compared>>

GetConfigData ==
  /\ walkPc = "data"
  /\ CurrConfigLoc' = 0 /\ BytesRem' = configSize /\ walkPc' = "walk"
  /\ UNCHANGED <<configSize, searches, seen, thorough, compared>>

-----------------------------------------------------------------------------
(* The searches.                                                           *)

At(loc) == CHOOSE i \in Places : Offset[i] = loc
Ahead(loc) == {i \in Places : Offset[i] > loc}
OfType(t, loc) == {i \in Ahead(loc) : ConfigurationDescriptor[i].type = t}
First(s) == CHOOSE i \in s : \A j \in s : i <= j

(* Where USB_Host_GetNextDescriptor comes to rest in a loop for a type.    *)
NextOfType(t, loc) == IF OfType(t, loc) = {} THEN TotalConfigurationSize
                      ELSE Offset[First(OfType(t, loc))]

Search ==
  /\ walkPc = "walk" /\ BytesRem > 0 /\ searches < MaxSearches
  /\ searches' = searches + 1
  /\ UNCHANGED configSize

(* A search that finds nothing goes on while bytes are said to remain.     *)
StopAt(loc, rem) ==
  /\ CurrConfigLoc' = loc /\ BytesRem' = rem
  /\ seen' = IF loc < TotalConfigurationSize /\ ConfigurationDescriptor[At(loc)].type = "Endpoint"
             THEN Append(seen, ConfigurationDescriptor[At(loc)]) ELSE seen
  /\ walkPc' = IF loc = TotalConfigurationSize /\ rem > 0 THEN "beyond" ELSE "walk"

Remaining(loc) == BytesRem - (loc - CurrConfigLoc)

Types == {"Interface", "Functional", "Endpoint"}

GetNextDescriptorOfType ==
  /\ Search /\ UNCHANGED compared
  /\ \E t \in Types :
       /\ LET loc == NextOfType(t, CurrConfigLoc) IN StopAt(loc, Remaining(loc))
       /\ thorough' = (thorough /\ t = "Endpoint")

(* At a descriptor of the other type nothing is said to remain.            *)
GetNextDescriptorOfTypeBefore ==
  /\ Search /\ thorough' = FALSE /\ UNCHANGED compared
  /\ \E t \in Types : \E b \in Types \ {t} :
       LET loc  == NextOfType(t, CurrConfigLoc)
           stop == NextOfType(b, CurrConfigLoc)
       IN IF loc <= stop THEN StopAt(loc, Remaining(loc))
          ELSE /\ CurrConfigLoc' = stop /\ BytesRem' = 0
               /\ walkPc' = "ended" /\ UNCHANGED seen

GetNextDescriptorOfTypeAfter ==
  /\ Search /\ thorough' = FALSE /\ UNCHANGED compared
  /\ \E t, a \in Types :
       LET after == NextOfType(a, CurrConfigLoc)
           loc == IF after = TotalConfigurationSize THEN after ELSE NextOfType(t, after)
       IN StopAt(loc, Remaining(loc))

(* A comparator that finds a descriptor or fails at it: the bytes that     *)
(* remain are put back, the position, of which a copy is put back, is not. *)
GetNextDescriptorComp_P ==
  /\ Search
  /\ \E t \in Types :
       LET loc == NextOfType(t, CurrConfigLoc)
       IN /\ IF loc = TotalConfigurationSize THEN StopAt(loc, Remaining(loc)) /\ UNCHANGED compared
             ELSE /\ StopAt(loc, Remaining(loc) + ConfigurationDescriptor[At(loc) - 1].size)
                  /\ compared' = TRUE
          /\ thorough' = (thorough /\ t = "Endpoint")

WalkNext ==
  \/ GetConfigSize \/ GetConfigData
  \/ GetNextDescriptorOfType \/ GetNextDescriptorOfTypeBefore
  \/ GetNextDescriptorOfTypeAfter \/ GetNextDescriptorComp_P

-----------------------------------------------------------------------------
(* A host that walks the descriptor knows how much of it remains until a   *)
(* search with a comparator has stopped at a descriptor: from then on it   *)
(* takes too much to remain, and only such a host reads beyond the end.    *)
(* Whatever its searches, it comes across no endpoint that the device does *)
(* not configure with this number, direction, type and size, none of them  *)
(* twice; searching for the next endpoint to the end it finds all of them. *)
(* Each interface says how many endpoints follow it, and the controller    *)
(* has a bank of exactly the size of each.                                 *)
EndpointsAgree ==
  /\ walkPc = "walk" =>
       IF compared THEN CurrConfigLoc + BytesRem > TotalConfigurationSize
                   ELSE CurrConfigLoc + BytesRem = TotalConfigurationSize
  /\ walkPc = "beyond" => compared
  /\ ToSet(seen) \subseteq ConfiguredEndpoints
  /\ IsInjective(seen)
  /\ walkPc = "beyond" \/ (walkPc = "walk" /\ BytesRem = 0) =>
       (thorough => ToSet(seen) = ConfiguredEndpoints)
  /\ \A i \in Places : ConfigurationDescriptor[i].type = "Interface" =>
       ConfigurationDescriptor[i].TotalEndpoints =
         Cardinality({j \in OfType("Endpoint", Offset[i]) :
                        \A k \in OfType("Interface", Offset[i]) : j < k})
  /\ \A e \in ConfiguredEndpoints : 8 * 2 ^ BytesToEPSizeMask(e.epsize) = e.epsize

=============================================================================
