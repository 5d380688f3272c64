----------------------------- MODULE HIDParser ------------------------------
(***************************************************************************)
(* LUFA's parser of HID report descriptors, one item of the descriptor     *)
(* after the other, and the two functions that take a field out of a       *)
(* report and put it into one.  A report and a value are the sets of their *)
(* bits that are one.                                                      *)
(*                                                                         *)
(* A Push in the first entry of the state table copies the entry to the    *)
(* one before the table.  What the parser does after that is undefined and *)
(* not followed, so that only the first entry is ever in use.  A nested    *)
(* collection always gets slot 2, and the loop that looks for a free slot  *)
(* is never entered, because only slot 2 has a parent and it is not asked. *)
(***************************************************************************)
EXTENDS Integers, Sequences, SequencesExt

CONSTANTS
  HID_USAGE_STACK_DEPTH, HID_MAX_REPORTITEMS,
  Usages, Attributes, BitSizes, ReportCounts, ReportIDs,  \* what items carry
  MaxItems       \* bound: the items of a report descriptor

ASSUME HIDParserAssumption ==
  /\ HID_USAGE_STACK_DEPTH \in Nat /\ HID_MAX_REPORTITEMS \in Nat /\ MaxItems \in Nat
  /\ Usages \cup Attributes \cup BitSizes \cup ReportCounts \cup ReportIDs \subseteq 0 .. 255

VARIABLES
  parsed,           \* "Parsing", or what ProcessHIDReport has returned
  table,            \* StateTable[0]
  usageStack,       \* UsageStack[0 .. UsageStackSize - 1]
  bitOffset,        \* BitOffsetIn and BitOffsetOut
  reportItems,      \* ReportItems[0 .. TotalReportItems - 1]
  collectionPaths,  \* the slots of CollectionPaths in use
  collectionPath,   \* CurrCollectionPath
  itemsSeen,        \* history: the number of items processed
  mainItems,        \* history: the main items that declare fields
  begun,            \* history: the collections begun, with their depth and their name
  open              \* history: the ones that are open, as indices of begun

hidVars == <<parsed, table, usageStack, bitOffset, reportItems, collectionPaths,
             collectionPath, itemsSeen, mainItems, begun, open>>

ItemTypes == {"In", "Out"}

NoPath  == -1
Slots   == {0, 2}
Globals == {"Attributes", "BitSize", "ReportCount", "ReportID"}
Offset16(n) == n % 65536

(* An entry of the state table and a collection, cleared.                  *)
ClearEntry == [Attributes |-> 0, BitSize |-> 0, ReportCount |-> 0, ReportID |-> 0, MinMax |-> 0]
ClearPath  == [Attributes |-> 0, Usage |-> 0, Parent |-> NoPath]

HidInit ==
  /\ parsed = "Parsing"
  /\ table = ClearEntry
  /\ usageStack = <<>> /\ bitOffset = [t \in ItemTypes |-> 0] /\ reportItems = <<>>
  /\ collectionPaths = [s \in Slots |-> ClearPath]
  /\ collectionPath = NoPath
  /\ itemsSeen = 0 /\ mainItems = <<>> /\ begun = <<>> /\ open = <<>>

NextItem ==
  /\ parsed = "Parsing" /\ itemsSeen < MaxItems
  /\ itemsSeen' = itemsSeen + 1

(* The parser gives up.                                                    *)
Returns(code) ==
  /\ parsed' = code
  /\ UNCHANGED <<table, usageStack, bitOffset, reportItems, collectionPaths,
                 collectionPath, mainItems, begun, open>>

(* What local items have said is forgotten after each main item.           *)
EndOfMain ==
  /\ table' = [table EXCEPT !.MinMax = 0]
  /\ usageStack' = <<>>

FirstUsage == IF usageStack = <<>> THEN 0 ELSE Head(usageStack)

-----------------------------------------------------------------------------
(* Global and local items.                                                 *)

GlobalItem ==
  /\ NextItem
  /\ \E g \in Globals :
       \E v \in CASE g = "Attributes"  -> Attributes
                  [] g = "BitSize"     -> BitSizes
                  [] g = "ReportCount" -> ReportCounts
                  [] g = "ReportID"    -> ReportIDs :
         table' = [table EXCEPT ![g] = v]
  /\ UNCHANGED <<parsed, usageStack, bitOffset, reportItems, collectionPaths, collectionPath,
                 mainItems, begun, open>>

Push == NextItem /\ Returns("Undefined")

Pop == NextItem /\ Returns("HIDStackUnderflow")

UsageItem ==
  /\ NextItem
  /\ \/ /\ Len(usageStack) = HID_USAGE_STACK_DEPTH
        /\ Returns("UsageStackOverflow")
     \/ /\ Len(usageStack) < HID_USAGE_STACK_DEPTH
        /\ \E u \in Usages : usageStack' = Append(usageStack, u)
        /\ UNCHANGED <<parsed, table, bitOffset, reportItems, collectionPaths, collectionPath,
                       mainItems, begun, open>>

UsageRange ==
  /\ NextItem
  /\ \E u \in Usages : table' = [table EXCEPT !.MinMax = u]
  /\ UNCHANGED <<parsed, usageStack, bitOffset, reportItems, collectionPaths, collectionPath,
                 mainItems, begun, open>>

-----------------------------------------------------------------------------
(* Main items.                                                             *)

Collection ==
  /\ NextItem
  /\ LET slot == IF collectionPath = NoPath THEN 0 ELSE 2
     IN /\ collectionPath' = slot
        /\ collectionPaths' =
             [collectionPaths EXCEPT
                ![slot] = [Attributes |-> table.Attributes, Usage |-> FirstUsage,
                           Parent |-> IF slot = 0 THEN @.Parent ELSE collectionPath]]
  /\ begun' = Append(begun,
                [depth |-> Len(open) + 1,
                 name  |-> [Attributes |-> table.Attributes, Usage |-> FirstUsage]])
  /\ open' = Append(open, Len(begun) + 1)
  /\ EndOfMain
  /\ UNCHANGED <<parsed, bitOffset, reportItems, mainItems>>

EndCollection ==
  /\ NextItem
  /\ \/ /\ collectionPath = NoPath
        /\ Returns("UnexpectedEndCollection")
     \/ /\ collectionPath # NoPath
        /\ collectionPath' = collectionPaths[collectionPath].Parent
        /\ open' = IF open = <<>> THEN <<>> ELSE Front(open)
        /\ EndOfMain
        /\ UNCHANGED <<parsed, bitOffset, reportItems, collectionPaths, mainItems, begun>>

(* The fields of a main item, one for each of the report count.            *)
Field(type, k) ==
  [Attributes |-> table.Attributes, MinMax |-> table.MinMax, BitSize |-> table.BitSize,
   ReportID |-> table.ReportID, ItemType |-> type, CollectionPath |-> collectionPath,
   Usage |-> IF k <= Len(usageStack) THEN usageStack[k] ELSE 0,
   BitOffset |-> Offset16(bitOffset[type] + (k - 1) * table.BitSize)]

(* Mutant: a constant field, which is not recorded, takes no room either.  *)
RecordNoPadding(type, constant) ==
  LET fields == [k \in 1 .. table.ReportCount |-> Field(type, k)]
  IN IF constant THEN UNCHANGED <<reportItems, bitOffset>>
     ELSE /\ reportItems' = reportItems \o fields
          /\ bitOffset' = [bitOffset EXCEPT
                             ![type] = Offset16(@ + table.ReportCount * table.BitSize)]

(* Constant fields take room in the report and are not recorded.           *)
Record(type, constant) ==
  LET fields == [k \in 1 .. table.ReportCount |-> Field(type, k)]
  IN /\ reportItems' = IF constant THEN reportItems ELSE reportItems \o fields
     /\ bitOffset' = [bitOffset EXCEPT ![type] = Offset16(@ + table.ReportCount * table.BitSize)]

(* Room for one more item is asked for before each field, constant or not; *)
(* the fields before the one there is no room for have been recorded.      *)
NoRoom(constant) ==
  /\ table.ReportCount > 0
  /\ Len(reportItems) + (IF constant THEN 1 ELSE table.ReportCount) > HID_MAX_REPORTITEMS

RecordWhatFits(type) ==
  reportItems' = reportItems \o
    [k \in 1 .. HID_MAX_REPORTITEMS - Len(reportItems) |-> Field(type, k)]

InputOrOutput ==
  /\ NextItem
  /\ \E type \in ItemTypes, constant \in BOOLEAN :
       /\ mainItems' = Append(mainItems,
                         [table |-> table, usages |-> usageStack, open |-> open,
                          type |-> type, constant |-> constant])
       /\ \/ /\ NoRoom(constant)
             /\ parsed' = "InsufficientReportItems" /\ RecordWhatFits(type)
             /\ UNCHANGED <<table, usageStack, bitOffset>>
          \/ /\ ~NoRoom(constant)
             /\ Record(type, constant) /\ EndOfMain
             /\ UNCHANGED parsed
  /\ UNCHANGED <<collectionPaths, collectionPath, begun, open>>

EndOfDescriptor ==
  /\ parsed = "Parsing"
  /\ Returns("Successful")
  /\ UNCHANGED itemsSeen

HidNext ==
  \/ GlobalItem \/ Push \/ Pop \/ UsageItem \/ UsageRange
  \/ Collection \/ EndCollection \/ InputOrOutput \/ EndOfDescriptor

-----------------------------------------------------------------------------
(* A field in a report.                                                    *)

Bits(size) == 0 .. size - 1

IDByte(id) == {k \in Bits(8) : (id \div 2 ^ k) % 2 = 1}

(* A report with an ID has it in its first byte, before the fields.        *)
IDBits(item) == IF item.ReportID = 0 THEN 0 ELSE 8

GetReportItemInfo(report, item) ==
  IF IDBits(item) > 0 /\ report \cap Bits(8) # IDByte(item.ReportID) THEN {}
  ELSE {k \in Bits(item.BitSize) : IDBits(item) + item.BitOffset + k \in report}

(* The masks of the value and of the report have changed places; a mask    *)
(* beyond the eighth bit is lost in the byte of the report.                *)
SetReportItemInfo(report, item, value) ==
  (report \ Bits(IDBits(item))) \cup IDByte(item.ReportID)
    \cup {IDBits(item) + 8 * ((item.BitOffset + k) \div 8) + k :
            k \in {j \in Bits(item.BitSize) : j < 8 /\ (item.BitOffset + j) % 8 \in value}}

-----------------------------------------------------------------------------
(* What a main item m declares after all that r has declared: the room it  *)
(* takes in its report, which is one of its type and its ID, and the       *)
(* fields, each with the collections it is within, the outermost first.    *)
Reports == ReportIDs \cup {0}

With(r, m) ==
  LET report == <<m.type, m.table.ReportID>>
  IN [room   |-> [r.room EXCEPT ![report] = @ + m.table.ReportCount * m.table.BitSize],
      fields |-> r.fields \o
        [k \in 1 .. IF m.constant THEN 0 ELSE m.table.ReportCount |->
           [Attributes |-> m.table.Attributes, MinMax |-> m.table.MinMax,
            BitSize |-> m.table.BitSize, ReportID |-> m.table.ReportID, ItemType |-> m.type,
            Usage |-> IF k <= Len(m.usages) THEN m.usages[k] ELSE 0,
            BitOffset |-> Offset16(r.room[report] + (k - 1) * m.table.BitSize),
            within |-> m.open]]]

NothingDeclared == [room |-> [report \in ItemTypes \X Reports |-> 0], fields |-> <<>>]

Declared(items) ==
  LET after[d \in 0 .. Len(items)] ==
        IF d = 0 THEN NothingDeclared ELSE With(after[d - 1], items[d])
  IN after[Len(items)]

(* The names on the way to the slot p, the outermost first, as long as no  *)
(* more than two collections have been nested.                             *)
Shallow == \A c \in DOMAIN begun : begun[c].depth <= 2

NameIn(p) == [Attributes |-> collectionPaths[p].Attributes, Usage |-> collectionPaths[p].Usage]

PathOf(p) ==
  IF p = NoPath THEN <<>>
  ELSE IF collectionPaths[p].Parent = NoPath THEN <<NameIn(p)>>
  ELSE <<NameIn(collectionPaths[p].Parent), NameIn(p)>>

(* No later collection has been begun at the depth of c: there is a slot   *)
(* for a depth, not for a collection.                                      *)
Kept(c) == \A d \in DOMAIN begun : d > c => begun[d].depth # begun[c].depth

LeadsTo(p, within) ==
  /\ Len(PathOf(p)) = Len(within)
  /\ \A j \in DOMAIN within : Kept(within[j]) => PathOf(p)[j] = begun[within[j]].name

(* All main items of this type have had this ID: the offsets run on from   *)
(* one report to the next.                                                 *)
OnlyReport(type, id) ==
  \A i \in DOMAIN mainItems : mainItems[i].type = type => mainItems[i].table.ReportID = id

AsDeclared(item, field) ==
  /\ item.Attributes = field.Attributes /\ item.MinMax = field.MinMax
  /\ item.BitSize = field.BitSize /\ item.Usage = field.Usage
  /\ item.ReportID = field.ReportID /\ item.ItemType = field.ItemType
  /\ OnlyReport(item.ItemType, item.ReportID) => item.BitOffset = field.BitOffset
  /\ Shallow => LeadsTo(item.CollectionPath, field.within)

(* The parser records the fields the descriptor declares, in their order   *)
(* and with their usages, and gives up only with the room used up.  While  *)
(* a type has one report, each field is behind all those before it, the    *)
(* unrecorded ones included.  While no more than two collections are       *)
(* nested, the path of a field names the collections it is within, but for *)
(* those after which another has been begun at their depth, and the        *)
(* current path names the open ones, so that the end of each is accepted   *)
(* and no other.  A value of up to a byte that is put into a field at the  *)
(* start of a byte is the value read.                                      *)
FieldsAsDeclared ==
  LET declared == Declared(mainItems).fields
  IN /\ Len(reportItems) <= HID_MAX_REPORTITEMS
     /\ IF parsed = "InsufficientReportItems"
        THEN Len(reportItems) = HID_MAX_REPORTITEMS /\ Len(declared) >= HID_MAX_REPORTITEMS
        ELSE Len(reportItems) = Len(declared)
     /\ \A i \in DOMAIN reportItems : AsDeclared(reportItems[i], declared[i])
     /\ Shallow => PathOf(collectionPath) = [j \in DOMAIN open |-> begun[open[j]].name]
     /\ \A i \in DOMAIN reportItems :
          reportItems[i].BitOffset % 8 = 0 /\ reportItems[i].BitSize <= 8 =>
            \A value \in SUBSET Bits(reportItems[i].BitSize) :
              GetReportItemInfo(SetReportItemInfo({}, reportItems[i], value), reportItems[i]) = value

=============================================================================
