-------------------------------- MODULE Boot --------------------------------
(***************************************************************************)
(* The configuration in the EEPROM across operations, resets and the       *)
(* bootloader: config_Init, factory_reset, the setters of CULServer,       *)
(* check_bootloader_request and main() up to the main loop.                *)
(*                                                                         *)
(* The EEPROM is written byte by byte and one action writes one byte, so   *)
(* that a reset can fall between any two writes.  A byte is atomic.  Cells *)
(* are numbered in the order in which factory_reset writes them: two of    *)
(* the magic, two of the version, the bootloader request, then the four    *)
(* fields of the configuration.                                            *)
(***************************************************************************)
EXTENDS Naturals

CONSTANTS
  FieldSize,    \* cells per field; 6 in the code
  UserValues    \* what the setters write

Boots == {"config_Init", "version", "request", "flag", "watchdogOff"}

Points == Boots \union {"write", "running", "marked", "spin", "bootloader"}

Factory == {"config1", "config2"}

ASSUME ConstantsAssumption ==
  /\ FieldSize \in Nat \ {0}
  /\ UserValues \intersect (Factory \union {"stale"}) = {}

Magic   == {1, 2}
Version == {3, 4}
REQBL   == 5
Header  == Magic \union Version

(* AMAC, TIP and TPORT, SIP and SPORT, SMAC.                               *)
Fields == 1 .. 4
First(f) == REQBL + (f - 1) * FieldSize + 1
Last(f)  == REQBL + f * FieldSize

LastCell  == Last(4)
DataCells == First(1) .. LastCell
Cells     == 1 .. LastCell

Data == Factory \union UserValues \union {"stale"}

(* "stale" is every byte that none of this firmware's writes put there.    *)
EEPROM == [Cells -> Data \union {"good", "request", "none"}]

(* A write loop under way: the cell it writes next, the last one, what it  *)
(* writes and where the program goes on after it.                          *)
Jobs == [next : Nat, last : Cells, value : Factory \union UserValues,
         then : {"version", "request", "watchdogOff", "marked", "running"}]

VARIABLES
  pc,        \* where the program is
  eeprom,    \* the cells
  wdrf,      \* the watchdog reset flag of MCUSR
  job,       \* the write loop, while pc = "write"
  expected,  \* history: what each data cell was last meant to hold
  torn,      \* history: the data cells whose last write was cut off by a reset
  fresh,     \* history: no operation since the bootloader or a version change
  asked      \* history: the bootloader was asked for since the last start

vars == <<pc, eeprom, wdrf, job, expected, torn, fresh, asked>>

-----------------------------------------------------------------------------
HasMagic(e)   == \A c \in Magic : e[c] = "good"
HasVersion(e) == \A c \in Version : e[c] = "good"

(* What a write loop with this value puts into a cell: for factory_reset   *)
(* the header cells are the constants, for the setters there are none.     *)
Written(c, value) ==
  IF c \in Header THEN "good" ELSE IF c = REQBL THEN "none" ELSE value

AllCells(h, v, r, d) ==
  [c \in Cells |-> IF c \in Magic THEN h ELSE IF c \in Version THEN v
                   ELSE IF c = REQBL THEN r ELSE d]

(* A blank device, one left by a firmware of another version, in use or    *)
(* just after its bootloader request, and one that holds config #1.        *)
InitialEEPROM ==
  {AllCells("stale", "stale", "stale", "stale"),
   AllCells("good", "stale", "none", "stale"),
   AllCells("good", "stale", "request", "stale"),
   AllCells("good", "good", "none", "config1")}

Idle == [next |-> 1, last |-> 1, value |-> "config1", then |-> "version"]

Init ==
  /\ pc = "config_Init"
  /\ eeprom \in InitialEEPROM
  /\ wdrf \in BOOLEAN
  /\ job = Idle
  /\ expected = [c \in DataCells |-> "config1"] /\ torn = {}
  /\ fresh = ~HasVersion(eeprom)
  /\ asked = (eeprom[REQBL] = "request")

-----------------------------------------------------------------------------
(* Write loops.                                                            *)

StartWrite(first, last, value, then) ==
  /\ pc' = "write"
  /\ job' = [next |-> first, last |-> last, value |-> value, then |-> then]
  /\ expected' = [c \in DataCells |-> IF c \in first .. last THEN value ELSE expected[c]]
  /\ UNCHANGED <<eeprom, wdrf, torn, asked>>

(* Mutant: factory_reset leaves the last byte of the server's MAC.         *)
FactoryResetShort(value, then) ==
  /\ pc' = "write"
  /\ job' = [next |-> 1, last |-> LastCell - 1, value |-> value, then |-> then]
  /\ expected' = [c \in DataCells |-> value]
  /\ UNCHANGED <<eeprom, wdrf, torn, asked>>

(* factory_reset.                                                          *)
FactoryReset(value, then) == StartWrite(1, LastCell, value, then)

(* The next byte of eeprom_w1, eeprom_w2 or set_config_n.                  *)
WriteByte ==
  /\ pc = "write" /\ job.next <= job.last
  /\ eeprom' = [eeprom EXCEPT ![job.next] = Written(job.next, job.value)]
  /\ job' = [job EXCEPT !.next = job.next + 1]
  /\ torn' = torn \ {job.next}
  /\ UNCHANGED <<pc, wdrf, expected, fresh, asked>>

WriteDone ==
  /\ pc = "write" /\ job.next > job.last
  /\ pc' = job.then
  /\ UNCHANGED <<eeprom, wdrf, job, expected, torn, fresh, asked>>

-----------------------------------------------------------------------------
(* main() up to Scheduler_Start.                                           *)

Goto(point) == pc' = point /\ UNCHANGED <<eeprom, wdrf, job, expected, torn, fresh, asked>>

CheckMagic ==
  /\ pc = "config_Init"
  /\ \/ HasMagic(eeprom) /\ Goto("version")
     \/ ~HasMagic(eeprom) /\ FactoryReset("config1", "version") /\ fresh' = TRUE

(* Mutant: a version change is not noticed.                                *)
CheckVersionNever == pc = "version" /\ Goto("request")

CheckVersion ==
  /\ pc = "version"
  /\ \/ HasVersion(eeprom) /\ Goto("request")
     \/ ~HasVersion(eeprom) /\ FactoryReset("config1", "request") /\ fresh' = TRUE

Requested == wdrf /\ eeprom[REQBL] = "request"

(* Mutants: the request is cleared when it is honoured; every watchdog     *)
(* reset starts the bootloader.                                            *)
RequestCleared ==
  /\ pc = "request"
  /\ \/ /\ Requested
        /\ pc' = "bootloader" /\ eeprom' = [eeprom EXCEPT ![REQBL] = "none"]
        /\ UNCHANGED <<wdrf, job, expected, torn, fresh, asked>>
     \/ ~Requested /\ Goto("flag")

CheckBootloaderAlways ==
  /\ pc = "request"
  /\ \/ wdrf /\ Goto("bootloader")
     \/ ~wdrf /\ Goto("flag")

(* check_bootloader_request leaves the request in place, for the factory   *)
(* reset that is due when the bootloader is done.                          *)
CheckBootloaderRequest ==
  /\ pc = "request"
  /\ \/ Requested /\ Goto("bootloader")
     \/ ~Requested /\ Goto("flag")

CheckFlag ==
  /\ pc = "flag"
  /\ \/ eeprom[REQBL] = "none" /\ Goto("watchdogOff")
     \/ eeprom[REQBL] # "none" /\ FactoryReset("config1", "watchdogOff") /\ fresh' = TRUE

(* disable_watchdog, the initialisation of the hardware, enable_watchdog.  *)
EnableWatchdog ==
  /\ pc = "watchdogOff"
  /\ pc' = "running" /\ wdrf' = FALSE /\ asked' = FALSE
  /\ UNCHANGED <<eeprom, job, expected, torn, fresh>>

-----------------------------------------------------------------------------
(* The main loop, as far as it reaches the EEPROM.                         *)

(* CULSERVER_OP_REBOOT marks a reboot for Extras_Task.                     *)
MarkReboot == pc = "running" /\ Goto("marked")

EepromReset ==
  /\ pc = "running"
  /\ \E value \in Factory : FactoryReset(value, "marked")
  /\ fresh' = FALSE

(* The setters of an IP address and port go on, those of a MAC reboot.     *)
SetField ==
  /\ pc = "running"
  /\ \E f \in Fields, value \in UserValues :
       StartWrite(First(f), Last(f), value, IF f \in {1, 4} THEN "marked" ELSE "running")
  /\ fresh' = FALSE

Spin(request) ==
  /\ pc' = "spin"
  /\ eeprom' = [eeprom EXCEPT ![REQBL] = request]
  /\ UNCHANGED <<wdrf, job, expected, torn, fresh>>

Reboot == pc = "marked" /\ Spin("none") /\ UNCHANGED asked

PrepareBootloader == pc = "running" /\ Spin("request") /\ asked' = TRUE

-----------------------------------------------------------------------------
(* Resets and the bootloader.                                              *)

Remaining == {c \in DataCells : pc = "write" /\ job.next <= c /\ c <= job.last}

(* The write loop, if there is one, is not taken up again.                 *)
ResetWith(flag) ==
  /\ pc' = "config_Init"
  /\ wdrf' = flag
  /\ job' = Idle
  /\ torn' = torn \union Remaining
  /\ UNCHANGED <<eeprom, expected, fresh, asked>>

(* The watchdog ends the endless loop, or a loop that hangs elsewhere.     *)
WatchdogReset == pc \in {"running", "spin"} /\ ResetWith(TRUE)

(* The watchdog is also on, at its shortest period, from a watchdog reset  *)
(* to disable_watchdog; and a round that took nearly two seconds leaves no *)
(* time for the writes of an operation.                                    *)
WatchdogOn == wdrf \/ pc = "marked" \/ (pc = "write" /\ job.then \in {"marked", "running"})

WatchdogBites == pc # "bootloader" /\ WatchdogOn /\ ResetWith(TRUE)

PowerLoss == ResetWith(FALSE)

(* The bootloader starts the application by a jump or by a watchdog reset, *)
(* after it flashed the same version of the firmware or another one.       *)
LeaveBootloader ==
  /\ pc = "bootloader"
  /\ pc' = "config_Init"
  /\ wdrf' \in BOOLEAN
  /\ \E flashed \in {"good", "stale"} : eeprom' = [eeprom EXCEPT ![3] = flashed]
  /\ fresh' = TRUE
  /\ UNCHANGED <<job, expected, torn, asked>>

-----------------------------------------------------------------------------
Main == CheckMagic \/ CheckVersion \/ CheckBootloaderRequest \/ CheckFlag \/ EnableWatchdog

Operation == MarkReboot \/ EepromReset \/ SetField \/ Reboot \/ PrepareBootloader

Resets == WatchdogReset \/ WatchdogBites \/ PowerLoss \/ LeaveBootloader

Next == WriteByte \/ WriteDone \/ Main \/ Operation \/ Resets

Spec == Init /\ [][Next]_vars

-----------------------------------------------------------------------------
(* Type correctness of every variable.                                     *)
TypeOK ==
  /\ pc \in Points
  /\ eeprom \in EEPROM
  /\ wdrf \in BOOLEAN /\ fresh \in BOOLEAN /\ asked \in BOOLEAN
  /\ job \in Jobs /\ job.next \in 1 .. job.last + 1
  /\ expected \in [DataCells -> Data] /\ torn \subseteq DataCells

(* The main loop runs with this version's magic and version in the EEPROM  *)
(* and without a pending bootloader request, wherever a reset, of the      *)
(* power or of the watchdog, fell into the writes before.                  *)
Configured ==
  pc \in {"running", "marked"} => HasMagic(eeprom) /\ HasVersion(eeprom) /\ eeprom[REQBL] = "none"

(* check_bootloader_request starts the bootloader only after CULServer was *)
(* asked for it, and no longer once the main loop has run again.           *)
BootloaderAsked == pc = "bootloader" => asked

(* Settings last: in the main loop each byte of the configuration is what  *)
(* the last operation or factory reset meant it to be, across any number   *)
(* of reboots, power failures and bootloader sessions - but for the bytes  *)
(* a reset kept that operation from writing.                               *)
ConfigAsSet ==
  pc = "running" => \A c \in DataCells \ torn : eeprom[c] = expected[c]

(* After the bootloader was started or after a version change config #1 is *)
(* active, unless a reset cut a write short.                               *)
ConfigOneWhole ==
  pc = "running" /\ fresh /\ torn = {} => \A c \in DataCells : eeprom[c] = "config1"

(* docs/README: after the bootloader was started or after a version change *)
(* config #1 is active.                                                    *)
ConfigOneActive == pc = "running" /\ fresh => \A c \in DataCells : eeprom[c] = "config1"

=============================================================================
