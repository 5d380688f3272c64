----------------------------- MODULE BootProofs -----------------------------
(***************************************************************************)
(* Proofs about module Boot, for every size of the fields, every set of    *)
(* values and every choice of the points where a reset may fall.           *)
(***************************************************************************)
EXTENDS Boot, TLAPS

(* The layout of the cells.                                                *)
LEMMA Layout ==
  /\ LastCell \in Nat /\ LastCell > REQBL /\ LastCell \in Cells
  /\ DataCells = 6 .. LastCell
  /\ Cells = 1 .. LastCell
  /\ \A f \in Fields : /\ First(f) \in 6 .. LastCell /\ Last(f) \in 6 .. LastCell
                       /\ First(f) <= Last(f)
<1>1. FieldSize \in Nat /\ FieldSize >= 1
  BY ConstantsAssumption
<1>2. /\ First(1) = 6 /\ First(2) = 6 + FieldSize
      /\ First(3) = 6 + 2 * FieldSize /\ First(4) = 6 + 3 * FieldSize
      /\ Last(1) = 5 + FieldSize /\ Last(2) = 5 + 2 * FieldSize
      /\ Last(3) = 5 + 3 * FieldSize /\ Last(4) = 5 + 4 * FieldSize
  BY <1>1 DEF First, Last, REQBL
<1>3. \A f \in Fields : f = 1 \/ f = 2 \/ f = 3 \/ f = 4
  BY DEF Fields
<1>4. LastCell = 5 + 4 * FieldSize
  BY <1>2 DEF LastCell
<1> QED
  BY <1>1, <1>2, <1>3, <1>4 DEF LastCell, DataCells, Cells, REQBL

(* What a write loop starts with.                                          *)
LEMMA StartWriteTyped ==
  ASSUME TypeOK, NEW first \in Cells, NEW last \in Cells, first <= last,
         NEW value \in Factory \union UserValues,
         NEW then \in {"version", "request", "watchdogOff", "marked", "running"},
         StartWrite(first, last, value, then), fresh' \in BOOLEAN
  PROVE  TypeOK'
<1>1. job' \in Jobs /\ job'.next \in 1 .. job'.last + 1
  BY Layout DEF StartWrite, Jobs
<1>2. expected' \in [DataCells -> Data] /\ torn' \subseteq DataCells
  BY DEF StartWrite, TypeOK, Data
<1> QED
  BY <1>1, <1>2 DEF StartWrite, TypeOK, Points

(* The two kinds of write loops there are.                                 *)
LEMMA WriteLoops ==
  /\ 1 \in Cells /\ LastCell \in Cells /\ 1 <= LastCell
  /\ \A f \in Fields : First(f) \in Cells /\ Last(f) \in Cells /\ First(f) <= Last(f)
BY Layout DEF REQBL

(* A reset keeps the types.                                                *)
LEMMA ResetTyped == ASSUME TypeOK, NEW flag \in BOOLEAN, ResetWith(flag) PROVE TypeOK'
<1>1. Idle \in Jobs /\ Idle.next \in 1 .. Idle.last + 1
  BY WriteLoops DEF Idle, Jobs, Factory
<1> QED
  BY <1>1 DEF ResetWith, Remaining, TypeOK, Points, Boots

(* The initial states are typed.                                           *)
LEMMA InitTyped == Init => TypeOK
<1> SUFFICES ASSUME Init PROVE TypeOK
  OBVIOUS
<1>1. Idle \in Jobs /\ Idle.next \in 1 .. Idle.last + 1
  BY WriteLoops DEF Idle, Jobs, Factory
<1>2. eeprom \in EEPROM
  BY DEF Init, InitialEEPROM, AllCells, EEPROM, Data, Factory
<1>3. expected \in [DataCells -> Data]
  BY DEF Init, Data, Factory
<1>4. fresh \in BOOLEAN /\ asked \in BOOLEAN
  BY DEF Init, HasVersion
<1> QED
  BY <1>1, <1>2, <1>3, <1>4 DEF Init, TypeOK, Points, Boots

(* So is every step.                                                       *)
LEMMA NextTyped == TypeOK /\ [Next]_vars => TypeOK'
<1> SUFFICES ASSUME TypeOK, [Next]_vars PROVE TypeOK'
  OBVIOUS
<1>1. CASE WriteByte
  <2>1. eeprom' \in EEPROM
    BY <1>1 DEF WriteByte, TypeOK, EEPROM, Written, Data, Jobs
  <2>2. job' \in Jobs /\ job'.next \in 1 .. job'.last + 1
    BY <1>1, Layout DEF WriteByte, TypeOK, Jobs
  <2> QED
    BY <1>1, <2>1, <2>2 DEF WriteByte, TypeOK
<1>2. CASE WriteDone
  BY <1>2 DEF WriteDone, TypeOK, Jobs, Points, Boots
<1>3. CASE CheckMagic \/ CheckVersion \/ CheckFlag
  <2>1. CASE \E then \in {"version", "request", "watchdogOff"} :
               FactoryReset("config1", then) /\ fresh' = TRUE
    BY <2>1, StartWriteTyped, WriteLoops DEF FactoryReset, Factory
  <2>2. CASE \E point \in Points : Goto(point)
    BY <2>2 DEF Goto, TypeOK
  <2> QED
    BY <1>3, <2>1, <2>2 DEF CheckMagic, CheckVersion, CheckFlag, Points, Boots
<1>4. CASE CheckBootloaderRequest \/ EnableWatchdog \/ MarkReboot \/ Reboot \/ PrepareBootloader
  BY <1>4 DEF CheckBootloaderRequest, EnableWatchdog, MarkReboot, Reboot, PrepareBootloader,
              Spin, Goto, TypeOK, Points, Boots, EEPROM
<1>5. CASE EepromReset
  BY <1>5, StartWriteTyped, WriteLoops DEF EepromReset, FactoryReset
<1>6. CASE SetField
  BY <1>6, StartWriteTyped, WriteLoops DEF SetField
<1>7. CASE WatchdogReset \/ WatchdogBites \/ PowerLoss
  BY <1>7, ResetTyped DEF WatchdogReset, WatchdogBites, PowerLoss
<1>8. CASE LeaveBootloader
  <2>1. PICK flashed \in {"good", "stale"} : eeprom' = [eeprom EXCEPT ![3] = flashed]
    BY <1>8 DEF LeaveBootloader
  <2>2. eeprom' \in EEPROM
    BY <2>1 DEF TypeOK, EEPROM, Data
  <2> QED
    BY <1>8, <2>2 DEF LeaveBootloader, TypeOK, Points, Boots
<1>9. CASE UNCHANGED vars
  BY <1>9 DEF vars, TypeOK
<1> QED
  BY <1>1, <1>2, <1>3, <1>4, <1>5, <1>6, <1>7, <1>8, <1>9 DEF Next, Main, Operation, Resets

(* Every variable keeps its type.                                          *)
THEOREM TypeCorrect == Spec => []TypeOK
  BY InitTyped, NextTyped, PTL DEF Spec

-----------------------------------------------------------------------------
(* Configured needs to know what a write loop has left to write: a header  *)
(* or request cell is right, or still ahead of the loop.  The rest says    *)
(* how far into main() each check has been passed.                         *)
Ahead(c) == job.next <= c /\ c <= job.last

HeaderInv ==
  /\ pc = "version" => HasMagic(eeprom)
  /\ pc \in {"request", "flag", "watchdogOff", "running", "marked", "spin", "bootloader"} =>
       HasMagic(eeprom) /\ HasVersion(eeprom)
  /\ pc \in {"watchdogOff", "running", "marked"} => eeprom[REQBL] = "none"
  /\ pc = "bootloader" => eeprom[REQBL] = "request"
  /\ pc = "write" => \A c \in 1 .. REQBL : Ahead(c) \/ eeprom[c] = Written(c, job.value)

(* The header and the request while a write loop runs.                     *)
LEMMA HeaderRead ==
  ASSUME NEW value, \A c \in 1 .. REQBL : eeprom[c] = Written(c, value)
  PROVE  HasMagic(eeprom) /\ HasVersion(eeprom) /\ eeprom[REQBL] = "none"
<1>1. /\ \A c \in Header : c \in 1 .. REQBL
      /\ REQBL \in 1 .. REQBL /\ REQBL \notin Header
  BY DEF Header, Magic, Version, REQBL
<1> QED
  BY <1>1 DEF HasMagic, HasVersion, Written, Header

(* A factory reset has every cell ahead, a setter none of these.           *)
LEMMA StartWriteHeader ==
  ASSUME TypeOK,
         NEW first \in Cells, NEW last \in Cells, NEW value, NEW then,
         StartWrite(first, last, value, then),
         \/ first = 1 /\ last = LastCell
         \/ HasMagic(eeprom) /\ HasVersion(eeprom) /\ eeprom[REQBL] = "none"
  PROVE  HeaderInv'
<1>1. pc' = "write" /\ job'.next = first /\ job'.last = last /\ job'.value = value /\ eeprom' = eeprom
  BY DEF StartWrite
<1>2. CASE first = 1 /\ last = LastCell
  <2>1. \A c \in 1 .. REQBL : first <= c /\ c <= last
    BY <1>2, Layout DEF REQBL
  <2> QED
    BY <1>1, <2>1 DEF HeaderInv, Ahead
<1>3. CASE HasMagic(eeprom) /\ HasVersion(eeprom) /\ eeprom[REQBL] = "none"
  <2>1. \A c \in 1 .. REQBL : eeprom[c] = Written(c, value)
    BY <1>3 DEF HasMagic, HasVersion, Written, Header, Magic, Version, REQBL
  <2> QED
    BY <1>1, <2>1 DEF HeaderInv, Written
<1> QED
  BY <1>2, <1>3

(* Writing one cell.                                                       *)
LEMMA WriteByteCells ==
  ASSUME TypeOK, WriteByte
  PROVE  /\ job.next \in Cells
         /\ \A c \in Cells : /\ c = job.next => eeprom'[c] = Written(c, job'.value)
                             /\ c # job.next => eeprom'[c] = eeprom[c]
                             /\ c # job.next /\ Ahead(c) => Ahead(c)'
         /\ pc' = pc /\ job'.value = job.value
         /\ expected' = expected /\ fresh' = fresh /\ asked' = asked
<1>1. job.next \in Cells
  BY Layout DEF WriteByte, TypeOK, Jobs
<1>2. job.next \in Nat /\ job.last \in Nat /\ \A c \in Cells : c \in Nat
  BY Layout DEF TypeOK, Jobs
<1>3. job'.next = job.next + 1 /\ job'.last = job.last /\ job'.value = job.value
  BY DEF WriteByte, TypeOK, Jobs
<1>4. \A c \in Cells : c # job.next /\ Ahead(c) => Ahead(c)'
  BY <1>2, <1>3 DEF Ahead
<1>5. eeprom' = [eeprom EXCEPT ![job.next] = Written(job.next, job.value)]
  BY DEF WriteByte
<1> QED
  BY <1>1, <1>3, <1>4, <1>5 DEF WriteByte, TypeOK, EEPROM

(* HeaderInv is kept by every step, wherever resets may fall.              *)
LEMMA HeaderStep == TypeOK /\ HeaderInv /\ [Next]_vars => HeaderInv'
<1> SUFFICES ASSUME TypeOK, HeaderInv, [Next]_vars PROVE HeaderInv'
  OBVIOUS
<1>0. /\ 1 .. REQBL \subseteq Cells
      /\ \A e : HasMagic(e) /\ HasVersion(e) <=> \A c \in Header : e[c] = "good"
  BY Layout DEF HasMagic, HasVersion, Header, REQBL
<1>1. CASE WriteByte
  BY <1>0, <1>1, WriteByteCells DEF HeaderInv, WriteByte
<1>2. CASE WriteDone
  <2>1. \A c \in 1 .. REQBL : eeprom[c] = Written(c, job.value)
    BY <1>2, Layout DEF WriteDone, HeaderInv, Ahead, TypeOK, Jobs, REQBL
  <2>2. HasMagic(eeprom) /\ HasVersion(eeprom) /\ eeprom[REQBL] = "none"
    BY <2>1, HeaderRead
  <2> QED
    BY <1>2, <2>2 DEF WriteDone, HeaderInv, HasMagic, HasVersion, TypeOK, Jobs
<1>3. CASE CheckMagic \/ CheckVersion \/ CheckFlag
  <2>1. CASE \E then : FactoryReset("config1", then)
    BY <2>1, StartWriteHeader, WriteLoops DEF FactoryReset
  <2>2. CASE HasMagic(eeprom) /\ Goto("version")
    BY <2>2 DEF Goto, HeaderInv, HasMagic
  <2>3. CASE pc = "version" /\ HasVersion(eeprom) /\ Goto("request")
    BY <2>3 DEF Goto, HeaderInv, HasMagic, HasVersion
  <2>4. CASE pc = "flag" /\ eeprom[REQBL] = "none" /\ Goto("watchdogOff")
    BY <2>4 DEF Goto, HeaderInv, HasMagic, HasVersion
  <2> QED
    BY <1>3, <2>1, <2>2, <2>3, <2>4 DEF CheckMagic, CheckVersion, CheckFlag, HeaderInv
<1>4. CASE CheckBootloaderRequest \/ EnableWatchdog \/ MarkReboot
  BY <1>4 DEF CheckBootloaderRequest, Requested, EnableWatchdog, MarkReboot, Goto, HeaderInv,
              HasMagic, HasVersion
<1>5. CASE Reboot \/ PrepareBootloader
  <2>1. \A c \in Magic \union Version : c \in Cells /\ c # REQBL
    BY <1>0 DEF Magic, Version, REQBL
  <2>2. \A c \in Magic \union Version : eeprom'[c] = eeprom[c]
    BY <1>5, <2>1 DEF Reboot, PrepareBootloader, Spin, TypeOK, EEPROM
  <2> QED
    BY <1>5, <2>2 DEF Reboot, PrepareBootloader, Spin, HeaderInv, HasMagic, HasVersion
<1>6. CASE EepromReset
  BY <1>6, StartWriteHeader, WriteLoops DEF EepromReset, FactoryReset
<1>7. CASE SetField
  BY <1>7, StartWriteHeader, WriteLoops DEF SetField, HeaderInv
<1>8. CASE WatchdogReset \/ WatchdogBites \/ PowerLoss \/ LeaveBootloader
  BY <1>8 DEF WatchdogReset, WatchdogBites, PowerLoss, ResetWith, LeaveBootloader, HeaderInv
<1>9. CASE UNCHANGED vars
  BY <1>9 DEF vars, HeaderInv, HasMagic, HasVersion, Ahead
<1> QED
  BY <1>1, <1>2, <1>3, <1>4, <1>5, <1>6, <1>7, <1>8, <1>9 DEF Next, Main, Operation, Resets

(* It holds at first: main() has checked nothing yet.                      *)
LEMMA HeaderInit == Init => HeaderInv
  BY DEF Init, HeaderInv

(* The main loop never runs on another version's configuration or with a   *)
(* request pending, wherever resets fall.                                  *)
THEOREM RunsConfigured == Spec => []Configured
<1>1. HeaderInv => Configured
  BY DEF HeaderInv, Configured
<1> QED
  BY <1>1, HeaderInit, HeaderStep, TypeCorrect, PTL DEF Spec

-----------------------------------------------------------------------------
(* BootloaderAsked: no write but prepare_bootloader's puts the request     *)
(* there, and the main loop is not entered with it.                        *)
AskedInv == eeprom[REQBL] = "request" => asked

(* AskedInv is kept by every step.                                         *)
LEMMA AskedStep == TypeOK /\ HeaderInv /\ AskedInv /\ [Next]_vars => AskedInv'
<1> SUFFICES ASSUME TypeOK, HeaderInv, AskedInv, [Next]_vars PROVE AskedInv'
  OBVIOUS
<1> USE DEF AskedInv
<1>1. CASE WriteByte
  <2>1. REQBL \in Cells /\ Written(REQBL, job'.value) # "request"
    BY Layout DEF Written, REQBL, Header, Magic, Version
  <2> QED
    BY <1>1, <2>1, WriteByteCells
<1>2. CASE LeaveBootloader
  <2>1. REQBL # 3
    BY DEF REQBL
  <2> QED
    BY <1>2, <2>1 DEF LeaveBootloader, TypeOK, EEPROM
<1>3. CASE EnableWatchdog
  BY <1>3 DEF EnableWatchdog, HeaderInv
<1>4. CASE Reboot \/ PrepareBootloader
  <2>1. REQBL \in Cells
    BY Layout DEF REQBL
  <2> QED
    BY <1>4, <2>1 DEF Reboot, PrepareBootloader, Spin, TypeOK, EEPROM
<1>5. CASE UNCHANGED <<eeprom, asked>>
  BY <1>5
<1>6. CheckMagic \/ CheckVersion \/ CheckFlag \/ EepromReset \/ SetField => UNCHANGED <<eeprom, asked>>
  BY DEF CheckMagic, CheckVersion, CheckFlag, EepromReset, SetField, FactoryReset, StartWrite, Goto
<1>7. WriteDone \/ CheckBootloaderRequest \/ MarkReboot => UNCHANGED <<eeprom, asked>>
  BY DEF WriteDone, CheckBootloaderRequest, MarkReboot, Goto
<1>8. WatchdogReset \/ WatchdogBites \/ PowerLoss => UNCHANGED <<eeprom, asked>>
  BY DEF WatchdogReset, WatchdogBites, PowerLoss, ResetWith
<1>9. UNCHANGED vars => UNCHANGED <<eeprom, asked>>
  BY DEF vars
<1> QED
  BY <1>1, <1>2, <1>3, <1>4, <1>5, <1>6, <1>7, <1>8, <1>9 DEF Next, Main, Operation, Resets

(* No reset ends in the bootloader that was not asked for.                 *)
THEOREM BootloaderOnlyAsked == Spec => []BootloaderAsked
<1>1. Init => AskedInv
  BY DEF Init, AskedInv
<1>2. HeaderInv /\ AskedInv => BootloaderAsked
  BY DEF HeaderInv, AskedInv, BootloaderAsked
<1> QED
  BY <1>1, <1>2, AskedStep, HeaderInit, HeaderStep, TypeCorrect, PTL DEF Spec

-----------------------------------------------------------------------------
(* ConfigAsSet: outside of write loops the cells that are not torn are     *)
(* right whenever the header and the request do not make config_Init or    *)
(* main() write them again; inside one, a cell is torn, or right, or still *)
(* ahead of it, and what it will write there is right.                     *)
Accepted == HasMagic(eeprom) /\ HasVersion(eeprom) /\ eeprom[REQBL] = "none"

Right(c) == c \in torn \/ eeprom[c] = expected[c]

SettingsInv ==
  /\ pc # "write" /\ Accepted => \A c \in DataCells : Right(c)
  /\ pc = "write" => \A c \in DataCells :
       IF Ahead(c) THEN expected[c] = job.value ELSE Right(c)

(* Of the initial EEPROMs only the one with config #1 is accepted.         *)
LEMMA SettingsInit == Init => SettingsInv
<1> SUFFICES ASSUME Init PROVE SettingsInv
  OBVIOUS
<1>1. ASSUME Accepted, NEW c \in DataCells PROVE eeprom[c] = "config1"
  <2>1. 1 \in Cells /\ 3 \in Cells /\ c \in Cells /\ c >= 6
    BY Layout DEF REQBL
  <2>2. eeprom[1] = "good" /\ eeprom[3] = "good"
    BY <1>1 DEF Accepted, HasMagic, HasVersion, Magic, Version
  <2>3. eeprom = AllCells("good", "good", "none", "config1")
    BY <2>1, <2>2 DEF Init, InitialEEPROM, AllCells, Magic, Version
  <2> QED
    BY <2>1, <2>3 DEF AllCells, Magic, Version, REQBL
<1> QED
  BY <1>1 DEF Init, SettingsInv, Right

(* A write loop starts over everything, or over right data.                *)
LEMMA StartWriteSettings ==
  ASSUME TypeOK, SettingsInv, pc # "write",
         NEW first \in Cells, NEW last \in Cells, NEW value, NEW then,
         StartWrite(first, last, value, then),
         (first = 1 /\ last = LastCell) \/ Accepted
  PROVE  SettingsInv'
<1>1. /\ pc' = "write" /\ job'.next = first /\ job'.last = last /\ job'.value = value
      /\ eeprom' = eeprom /\ torn' = torn
      /\ expected' = [c \in DataCells |-> IF c \in first .. last THEN value ELSE expected[c]]
  BY DEF StartWrite
<1>2. ASSUME NEW c \in DataCells
      PROVE  IF Ahead(c)' THEN expected'[c] = value ELSE Right(c)'
  <2>1. Ahead(c)' <=> c \in first .. last
    BY <1>1, Layout DEF Ahead
  <2>2. CASE first = 1 /\ last = LastCell
    BY <1>1, <2>1, <2>2, Layout
  <2>3. CASE Accepted
    BY <1>1, <2>1, <2>3 DEF SettingsInv, Right
  <2> QED
    BY <2>2, <2>3
<1> QED
  BY <1>1, <1>2 DEF SettingsInv

(* SettingsInv is kept by every step.                                      *)
LEMMA SettingsStep ==
  TypeOK /\ HeaderInv /\ SettingsInv /\ [Next]_vars => SettingsInv'
<1> SUFFICES ASSUME TypeOK, HeaderInv, SettingsInv, [Next]_vars PROVE SettingsInv'
  OBVIOUS
<1>0. DataCells \subseteq Cells /\ REQBL \in Cells /\ \A c \in DataCells : c \in Nat /\ c > REQBL
  BY Layout DEF REQBL
<1>1. CASE WriteByte
  <2>1. pc = "write" /\ pc' = "write" /\ torn' = torn \ {job.next}
    BY <1>1 DEF WriteByte
  <2>2. ASSUME NEW c \in DataCells
        PROVE  IF Ahead(c)' THEN expected'[c] = job'.value ELSE Right(c)'
    <3>1. Written(c, job'.value) = job'.value
      BY <1>0 DEF Written, Header, Magic, Version, REQBL
    <3>2. CASE c = job.next
      <4>1. Ahead(c)
        BY <1>1, <3>2, <1>0 DEF WriteByte, Ahead
      <4>2. ~Ahead(c)'
        BY <1>0, <1>1, <3>2 DEF WriteByte, Ahead, TypeOK, Jobs
      <4> QED
        BY <1>0, <1>1, <2>1, <3>1, <3>2, <4>1, <4>2, WriteByteCells DEF SettingsInv, Right
    <3>3. CASE c # job.next
      <4>1. ~Ahead(c) => ~Ahead(c)'
        BY <1>0, <1>1, <3>3, Layout DEF WriteByte, Ahead, TypeOK, Jobs
      <4> QED
        BY <1>0, <1>1, <2>1, <3>3, <4>1, WriteByteCells DEF SettingsInv, Right
    <3> QED
      BY <3>2, <3>3
  <2> QED
    BY <2>1, <2>2 DEF SettingsInv
<1>2. CASE WriteDone
  <2>1. \A c \in DataCells : ~Ahead(c)
    BY <1>2, <1>0, Layout DEF WriteDone, Ahead, TypeOK, Jobs
  <2> QED
    BY <1>2, <2>1 DEF WriteDone, SettingsInv, Right, TypeOK, Jobs
<1>3. CASE \E then : pc # "write" /\ FactoryReset("config1", then)
  BY <1>3, StartWriteSettings, WriteLoops DEF FactoryReset
<1>4. CASE EepromReset
  BY <1>4, StartWriteSettings, WriteLoops DEF EepromReset, FactoryReset
<1>5. CASE SetField
  BY <1>5, StartWriteSettings, WriteLoops DEF SetField, HeaderInv, Accepted
<1>6. CASE pc # "write" /\ pc' # "write" /\ UNCHANGED <<eeprom, expected, torn>>
  BY <1>6 DEF SettingsInv, Right, Accepted, HasMagic, HasVersion
<1>7. CASE Reboot
  <2>1. /\ eeprom' = [eeprom EXCEPT ![REQBL] = "none"] /\ eeprom[REQBL] = "none"
        /\ eeprom \in [Cells -> Data \union {"good", "request", "none"}]
    BY <1>7 DEF Reboot, Spin, HeaderInv, TypeOK, EEPROM
  <2>2. eeprom' = eeprom
    BY <1>0, <2>1
  <2> QED
    BY <1>6, <1>7, <2>2 DEF Reboot, Spin
<1>8. CASE PrepareBootloader \/ LeaveBootloader
  <2>1. REQBL # 3 /\ eeprom'[REQBL] = "request" /\ pc' # "write"
    BY <1>0, <1>8 DEF PrepareBootloader, Spin, LeaveBootloader, HeaderInv, TypeOK, EEPROM, REQBL
  <2> QED
    BY <2>1 DEF SettingsInv, Accepted
<1>9. CASE UNCHANGED vars
  BY <1>9 DEF vars, SettingsInv, Right, Accepted, HasMagic, HasVersion, Ahead
<1>10. CheckMagic \/ CheckVersion \/ CheckFlag =>
         \/ \E then : pc # "write" /\ FactoryReset("config1", then)
         \/ pc # "write" /\ pc' # "write" /\ UNCHANGED <<eeprom, expected, torn>>
  BY DEF CheckMagic, CheckVersion, CheckFlag, Goto
<1>11. CheckBootloaderRequest \/ EnableWatchdog \/ MarkReboot
         => pc # "write" /\ pc' # "write" /\ UNCHANGED <<eeprom, expected, torn>>
  BY DEF CheckBootloaderRequest, EnableWatchdog, MarkReboot, Goto
<1>12. CASE WatchdogReset \/ WatchdogBites \/ PowerLoss
  <2>1. /\ pc' = "config_Init" /\ UNCHANGED <<eeprom, expected>>
        /\ torn' = torn \union Remaining
    BY <1>12 DEF WatchdogReset, WatchdogBites, PowerLoss, ResetWith
  <2>2. CASE pc = "write"
    BY <2>1, <2>2 DEF SettingsInv, Right, Ahead, Remaining
  <2>3. CASE pc # "write"
    BY <2>1, <2>3 DEF SettingsInv, Right, Remaining, Accepted, HasMagic, HasVersion
  <2> QED
    BY <2>2, <2>3
<1> QED
  BY <1>1, <1>2, <1>3, <1>4, <1>5, <1>6, <1>7, <1>8, <1>9, <1>10, <1>11, <1>12
  DEF Next, Main, Operation, Resets

(* Settings last, but for the bytes that a reset kept from being written.  *)
THEOREM SettingsLast == Spec => []ConfigAsSet
<1>1. HeaderInv /\ SettingsInv => ConfigAsSet
  BY DEF HeaderInv, SettingsInv, Right, Accepted, ConfigAsSet
<1> QED
  BY <1>1, SettingsInit, SettingsStep, HeaderInit, HeaderStep, TypeCorrect, PTL DEF Spec

-----------------------------------------------------------------------------
(* ConfigOneWhole: from the bootloader's exit or the version change on,   *)
(* either the configuration is not accepted, so that a factory reset to    *)
(* config #1 is still due, or config #1 is what it is meant to be.         *)
FreshInv ==
  fresh /\ (pc = "write" \/ Accepted) => \A c \in DataCells : expected[c] = "config1"

(* FreshInv is kept by every step.                                         *)
LEMMA FreshStep == TypeOK /\ HeaderInv /\ FreshInv /\ [Next]_vars => FreshInv'
<1> SUFFICES ASSUME TypeOK, HeaderInv, FreshInv, [Next]_vars PROVE FreshInv'
  OBVIOUS
<1> USE DEF FreshInv
<1>1. CASE WriteByte
  BY <1>1, WriteByteCells DEF WriteByte
<1>2. CASE \E then : FactoryReset("config1", then)
  <2>1. \A c \in DataCells : c \in 1 .. LastCell
    BY Layout DEF REQBL
  <2> QED
    BY <1>2, <2>1 DEF FactoryReset, StartWrite
<1>3. CASE EepromReset \/ SetField
  BY <1>3 DEF EepromReset, SetField
<1>4. CASE pc' # "write" /\ UNCHANGED <<eeprom, expected, fresh>>
  BY <1>4 DEF Accepted, HasMagic, HasVersion
<1>5. CASE Reboot
  <2>1. REQBL \in Cells
    BY Layout DEF REQBL
  <2>2. /\ eeprom' = [eeprom EXCEPT ![REQBL] = "none"] /\ eeprom[REQBL] = "none"
        /\ eeprom \in [Cells -> Data \union {"good", "request", "none"}]
    BY <1>5 DEF Reboot, Spin, HeaderInv, TypeOK, EEPROM
  <2>3. eeprom' = eeprom
    BY <2>1, <2>2
  <2> QED
    BY <1>4, <1>5, <2>3 DEF Reboot, Spin
<1>6. CASE PrepareBootloader \/ LeaveBootloader
  <2>0. REQBL \in Cells /\ REQBL # 3
    BY Layout DEF REQBL
  <2>1. eeprom'[REQBL] = "request" /\ pc' # "write"
    BY <1>6, <2>0 DEF PrepareBootloader, Spin, LeaveBootloader, HeaderInv, TypeOK, EEPROM
  <2> QED
    BY <2>1 DEF Accepted
<1>7. CASE UNCHANGED vars
  BY <1>7 DEF vars, Accepted, HasMagic, HasVersion
<1>8. CheckMagic \/ CheckVersion \/ CheckFlag =>
        \/ \E then : FactoryReset("config1", then)
        \/ pc' # "write" /\ UNCHANGED <<eeprom, expected, fresh>>
  BY DEF CheckMagic, CheckVersion, CheckFlag, Goto
<1>9. CheckBootloaderRequest \/ EnableWatchdog \/ MarkReboot \/ WatchdogReset \/ WatchdogBites
        \/ PowerLoss \/ WriteDone => pc' # "write" /\ UNCHANGED <<eeprom, expected, fresh>>
  BY DEF CheckBootloaderRequest, EnableWatchdog, MarkReboot, WatchdogReset, WatchdogBites,
         PowerLoss, ResetWith, Goto, WriteDone, TypeOK, Jobs
<1> QED
  BY <1>1, <1>2, <1>3, <1>4, <1>5, <1>6, <1>7, <1>8, <1>9 DEF Next, Main, Operation, Resets

(* Config #1 is active after the bootloader or a version change, unless a  *)
(* reset cut a write short.                                                *)
THEOREM ConfigOneAfterBootloader == Spec => []ConfigOneWhole
<1>1. Init => FreshInv
  BY DEF Init, FreshInv
<1>2. HeaderInv /\ SettingsInv /\ FreshInv => ConfigOneWhole
  BY DEF HeaderInv, SettingsInv, Right, FreshInv, Accepted, ConfigOneWhole
<1> QED
  BY <1>1, <1>2, FreshStep, SettingsInit, SettingsStep, HeaderInit, HeaderStep, TypeCorrect, PTL
  DEF Spec

=============================================================================
