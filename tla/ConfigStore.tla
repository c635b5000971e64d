---------------------------- MODULE ConfigStore -----------------------------
(***************************************************************************)
(* The persisted configuration of the repeater: src/src/Config.cpp (load,  *)
(* save, migration, defaults), the staging record and commands of          *)
(* src/src/SerialConsole.cpp, the GATT write and commit handlers of        *)
(* src/src/Ble.cpp that share it, and the part of setup() in               *)
(* src/src/main.cpp that brings them up.  Two tasks run the commands: the  *)
(* Arduino loop ("loop") and the Bluefruit callback task ("ble").  Power   *)
(* may fail between any two steps.                                         *)
(***************************************************************************)
EXTENDS Naturals

CONSTANTS
    Radios,       \* the radio settings set_field accepts (freq, bw, sf, cr, txp)
    DefaultRadio, \* the board's DEFAULT_CONFIG_* radio settings
    Unset,        \* a zero-filled field
    Batts,        \* battery multipliers
    DefaultBatt,  \* DEFAULT_CONFIG_BATT_MULT
    LegacyBatt,   \* LEGACY_CONFIG_BATT_MULT (Unset on boards without one)
    Absent, Torn, \* a file that does not exist; one with a wrong size or CRC
    NoConfig,     \* "no configuration on flash"
    FieldedSchemas, \* schemas of the record the flash holds when first powered
    OneConsole,   \* operators commit from one console at a time
    RemoveMayFail, \* removing a file can leave it behind
    MaxCommits, MaxPowerLoss  \* bounds of the exploration

Tasks == {"loop", "ble"}

(***************************************************************************)
(* A configuration, reduced to what its readers here tell apart.  version  *)
(* is 0 only in the zero-filled staging record that exists before          *)
(* serial_console::init(); TX_DISABLED is stored inverted, so a zero-      *)
(* filled flags byte reads as tx enabled, Bluetooth off.                   *)
(***************************************************************************)
Config == [version : {0, 3}, radio : Radios \cup {Unset},
           batt : Batts \cup {Unset}, tx : BOOLEAN, bt : BOOLEAN]

ZeroConfig == [version |-> 0, radio |-> Unset, batt |-> Unset,
               tx |-> TRUE, bt |-> FALSE]

\* Mutant: a board header whose defaults forget TX_DISABLED.
DefaultsTransmitting == [version |-> 3, radio |-> DefaultRadio, batt |-> DefaultBatt,
                         tx |-> TRUE, bt |-> FALSE]

Defaults == [version |-> 3, radio |-> DefaultRadio, batt |-> DefaultBatt,
             tx |-> FALSE, bt |-> FALSE]

Valid(c) == c.version # 0 /\ c.radio # Unset

(***************************************************************************)
(* A file is absent, torn, or a record of one schema with a correct CRC.   *)
(***************************************************************************)
Record == [schema : {1, 2, 3}, cfg : Config]
File == Record \cup {Absent, Torn}
Rec(c) == [schema |-> 3, cfg |-> c]
Complete(f) == f \notin {Absent, Torn}
Readable(f) == Complete(f) /\ Valid(f.cfg)

ASSUME RadioAssumption == DefaultRadio \in Radios /\ Unset \notin Radios
ASSUME BattAssumption == DefaultBatt \in Batts
ASSUME FileAssumption == /\ Absent # Torn
                         /\ Absent \notin Record /\ Torn \notin Record
ASSUME ConfigAssumption == NoConfig \notin Config
ASSUME SchemaAssumption == FieldedSchemas \subseteq {1, 2, 3}
ASSUME FailureAssumption == OneConsole \in BOOLEAN /\ RemoveMayFail \in BOOLEAN
ASSUME BoundAssumption == MaxCommits \in Nat /\ MaxPowerLoss \in Nat

\* v1 and v2 records become v3 ones; v1 had no Bluetooth, which comes up off.
Migrate(r) == [r.cfg EXCEPT !.version = 3, !.bt = IF r.schema = 1 THEN FALSE ELSE @]

\* load_or_defaults() swaps a never-calibrated battery multiplier, in RAM only.
SwapLegacyBatt(c) == IF c.batt = LegacyBatt THEN [c EXCEPT !.batt = DefaultBatt] ELSE c

VARIABLES
    bin,      \* /config.bin
    new,      \* /config.new, save()'s scratch file
    phase,    \* how far setup() has come, or "running"
    live,     \* g_config
    staging,  \* SerialConsole's s_staging, also written by the BLE callbacks
    pc, tmp,  \* each task's place in save(), and save()'s local copy
    since,    \* history: the last acknowledged configuration (or what the
              \* flash held at first power-up) and those offered since; and
              \* NoConfig from the moment a migration takes the record away
    optedIn,  \* history: a TX-enabled record was fielded or committed
    before,   \* history: bin as it was when the task's save() began
    commits, losses  \* counters for the bounds

flash == <<bin, new>>
ram == <<phase, live, staging, pc, tmp, before>>
history == <<since, optedIn, commits, losses>>
vars == <<flash, ram, history>>

Phases == {"boot", "load", "migrateUnlink", "migrateOpen", "migrateWrite",
           "setup", "running"}
SavePcs == {"unlink", "open", "write", "verify", "rename", "cleanup"}
Pcs == {"idle"} \cup SavePcs \cup {"committed", "resetting"}

\* The configuration the next boot will run, if the power failed now.
Recoverable ==
    LET adopted == IF bin = Absent THEN new ELSE bin
    IN  IF Readable(adopted) THEN Migrate(adopted) ELSE NoConfig

Init ==
    /\ new = Absent
    /\ \/ bin \in {Absent, Torn}
       \/ \E s \in FieldedSchemas, c \in Config :
             c.version = 3 /\ bin = [schema |-> s, cfg |-> c]
    /\ phase = "boot" /\ live = ZeroConfig /\ staging = ZeroConfig
    /\ pc = [t \in Tasks |-> "idle"]
    /\ tmp = [t \in Tasks |-> ZeroConfig]
    /\ before = [t \in Tasks |-> Absent]
    /\ since = {Recoverable}
    /\ optedIn = (Readable(bin) /\ bin.cfg.tx)
    /\ commits = 0 /\ losses = 0

(***************************************************************************)
(* The callback task has the higher priority: while it is inside save()    *)
(* the loop task does not run, or waits for the file system's mutex.       *)
(***************************************************************************)
\* Mutant: the two tasks interleave freely.
RunsAnytime(t) == t \in Tasks

Runs(t) == t = "loop" => pc["ble"] \notin SavePcs

-----------------------------------------------------------------------------
(***************************************************************************)
(* setup(): reconcile the scratch file, load, migrate, start the consoles. *)
(***************************************************************************)

Removed(f) == IF RemoveMayFail THEN {Absent, f} ELSE {Absent}

\* Mutant: the scratch file wins over a live record.
ReconcileAdoptsScratch ==
    /\ phase = "boot"
    /\ phase' = "load"
    /\ \/ new = Absent /\ UNCHANGED flash
       \/ new # Absent /\ bin' = new /\ new' = Absent
    /\ UNCHANGED <<live, staging, pc, tmp, before, history>>

\* The results of rename_file() and remove_file() are ignored.
Reconcile ==
    /\ phase = "boot"
    /\ phase' = "load"
    /\ \/ new = Absent /\ UNCHANGED flash
       \/ /\ new # Absent /\ bin = Absent
          /\ \/ bin' = new /\ new' = Absent
             \/ UNCHANGED flash
       \/ /\ new # Absent /\ bin # Absent
          /\ new' \in Removed(new)
          /\ UNCHANGED bin
    /\ UNCHANGED <<live, staging, pc, tmp, before, history>>

\* Mutant: records of an older schema are rejected, not migrated.
LoadDefaultsForOld ==
    /\ phase = "load"
    /\ Readable(bin) => bin.schema # 3
    /\ live' = Defaults
    /\ phase' = "setup"
    /\ UNCHANGED <<flash, staging, pc, tmp, before, history>>

LoadDefaults ==
    /\ phase = "load"
    /\ ~Readable(bin)
    /\ live' = Defaults
    /\ phase' = "setup"
    /\ UNCHANGED <<flash, staging, pc, tmp, before, history>>

LoadRecord ==
    /\ phase = "load"
    /\ Readable(bin)
    /\ live' = SwapLegacyBatt(Migrate(bin))
    /\ phase' = IF bin.schema = 3 THEN "setup" ELSE "migrateUnlink"
    /\ UNCHANGED <<flash, staging, pc, tmp, before, history>>

(***************************************************************************)
(* Migration rewrites /config.bin in place: write_file() unlinks the       *)
(* destination, creates it again and fills it, and a removal that failed   *)
(* does not stop it.  Its result is ignored.                               *)
(* The swap of the battery multiplier comes after it, and is not written.  *)
(***************************************************************************)
MigrateUnlink ==
    /\ phase = "migrateUnlink"
    /\ tmp' = [tmp EXCEPT !["loop"] = Migrate(bin)]
    /\ bin' \in Removed(bin)
    /\ phase' = "migrateOpen"
    /\ since' = since \cup {NoConfig}
    /\ UNCHANGED <<new, live, staging, pc, before, optedIn, commits, losses>>

MigrateOpen ==
    /\ phase = "migrateOpen"
    /\ \/ bin' = Torn /\ phase' = "migrateWrite"
       \/ UNCHANGED bin /\ phase' = "setup"   \* open() failed
    /\ UNCHANGED <<new, live, staging, pc, tmp, before, history>>

\* Mutant: the bare struct is written, with no schema or CRC stamped.
MigrateWriteUnstamped ==
    /\ phase = "migrateWrite"
    /\ bin' \in {tmp["loop"], Torn}
    /\ phase' = "setup"
    /\ UNCHANGED <<new, live, staging, pc, tmp, before, history>>

MigrateWrite ==
    /\ phase = "migrateWrite"
    /\ bin' \in {Rec(tmp["loop"]), Torn}
    /\ phase' = "setup"
    /\ UNCHANGED <<new, live, staging, pc, tmp, before, history>>

\* serial_console::init(): the last step of setup().  BLE is already up.
ConsoleInit ==
    /\ phase = "setup"
    /\ Runs("loop")
    /\ staging' = live
    /\ phase' = "running"
    /\ UNCHANGED <<flash, live, pc, tmp, before, history>>

-----------------------------------------------------------------------------
(***************************************************************************)
(* Console commands.  The loop runs them once setup() is done; the BLE     *)
(* callbacks from the moment ble::init() returns, when Bluetooth is on.    *)
(***************************************************************************)
Ready(t) ==
    /\ pc[t] = "idle" /\ Runs(t)
    /\ \/ t = "loop" /\ phase = "running"
       \/ t = "ble" /\ phase \in {"setup", "running"} /\ live.bt

\* CONFIG SET, CALIBRATE BATTERY, one field of a CONFIG characteristic write.
\* A value set_field() rejects leaves staging alone: no step.
SetField(t) ==
    /\ Ready(t)
    /\ \/ \E r \in Radios : staging' = [staging EXCEPT !.radio = r]
       \/ \E b \in Batts : staging' = [staging EXCEPT !.batt = b]
       \/ \E on \in BOOLEAN : staging' = [staging EXCEPT !.tx = on]
       \/ \E on \in BOOLEAN : staging' = [staging EXCEPT !.bt = on]
    /\ UNCHANGED <<flash, phase, live, pc, tmp, before, history>>

ConfigReset(t) ==
    /\ Ready(t)
    /\ staging' = Defaults
    /\ UNCHANGED <<flash, phase, live, pc, tmp, before, history>>

ConfigRevert(t) ==
    /\ Ready(t)
    /\ phase = "running"   \* s_live is null until ConsoleInit
    /\ staging' = live
    /\ UNCHANGED <<flash, phase, live, pc, tmp, before, history>>

\* CONFIG COMMIT or the COMMIT characteristic, up to save()'s local copy.
\* The record is validated twice and refused without a trace when invalid.
Commit(t) ==
    /\ Ready(t)
    /\ OneConsole => \A u \in Tasks : pc[u] = "idle"
    /\ Valid(staging)
    /\ commits < MaxCommits
    /\ commits' = commits + 1
    /\ tmp' = [tmp EXCEPT ![t] = [staging EXCEPT !.version = 3]]
    /\ pc' = [pc EXCEPT ![t] = "unlink"]
    /\ before' = [before EXCEPT ![t] = bin]
    /\ since' = since \cup {tmp'[t]}
    /\ optedIn' = (optedIn \/ staging.tx)
    /\ UNCHANGED <<flash, phase, live, staging, losses>>

Goto(t, from, to) == /\ pc[t] = from /\ Runs(t)
                     /\ pc' = [pc EXCEPT ![t] = to]

\* Mutant: save() writes /config.bin in place, as it did before the scratch file.
SaveUnlinkInPlace(t) ==
    /\ Goto(t, "unlink", "open")
    /\ bin' = Absent
    /\ UNCHANGED <<new, phase, live, staging, tmp, before, history>>

\* write_file(CONFIG_TMP_PATH) in its three steps: unlink, create, fill.
SaveUnlink(t) ==
    /\ Goto(t, "unlink", "open")
    /\ new' \in Removed(new)
    /\ UNCHANGED <<bin, phase, live, staging, tmp, before, history>>

SaveOpen(t) ==
    /\ \/ Goto(t, "open", "write") /\ new' = Torn
       \/ Goto(t, "open", "cleanup") /\ UNCHANGED new
    /\ UNCHANGED <<bin, phase, live, staging, tmp, before, history>>

\* A short write is noticed at once, one that landed badly is not; nor is one
\* to a file that the other console has unlinked since.
SaveWrite(t) ==
    /\ \/ Goto(t, "write", "verify") /\ new = Torn /\ new' \in {Rec(tmp[t]), Torn}
       \/ Goto(t, "write", "cleanup") /\ new = Torn /\ UNCHANGED new
       \/ Goto(t, "write", "verify") /\ new # Torn /\ UNCHANGED new
    /\ UNCHANGED <<bin, phase, live, staging, tmp, before, history>>

\* Mutant: the byte count is trusted, the scratch file not read back.
SaveVerifySkipped(t) ==
    /\ Goto(t, "verify", "rename")
    /\ UNCHANGED <<flash, phase, live, staging, tmp, before, history>>

SaveVerify(t) ==
    /\ Goto(t, "verify", IF new = Rec(tmp[t]) THEN "rename" ELSE "cleanup")
    /\ UNCHANGED <<flash, phase, live, staging, tmp, before, history>>

SaveRename(t) ==
    /\ \/ /\ Goto(t, "rename", "committed")
          /\ new # Absent
          /\ bin' = new /\ new' = Absent
       \/ Goto(t, "rename", "cleanup") /\ UNCHANGED flash
    /\ UNCHANGED <<phase, live, staging, tmp, before, history>>

\* remove_file(), whose result is ignored; save() returns false, the console
\* reports the error and takes the next command.
SaveCleanup(t) ==
    /\ Goto(t, "cleanup", "idle")
    /\ new' \in Removed(new)
    /\ tmp' = [tmp EXCEPT ![t] = ZeroConfig]
    /\ before' = [before EXCEPT ![t] = Absent]
    /\ UNCHANGED <<bin, phase, live, staging, history>>

\* "committed, rebooting..." and OK: from here on the operator relies on it,
\* or on that of a commit which is still under way on the other console.
Acknowledge(t) ==
    /\ Goto(t, "committed", "resetting")
    /\ since' = {tmp[u] : u \in {v \in Tasks : pc[v] # "idle"}}
    /\ UNCHANGED <<flash, phase, live, staging, tmp, before, optedIn, commits, losses>>

-----------------------------------------------------------------------------
\* RAM after a reset: g_config and s_staging are zero-filled.
Restart ==
    /\ phase' = "boot"
    /\ live' = ZeroConfig /\ staging' = ZeroConfig
    /\ pc' = [t \in Tasks |-> "idle"]
    /\ tmp' = [t \in Tasks |-> ZeroConfig]
    /\ before' = [t \in Tasks |-> Absent]
    /\ UNCHANGED flash

\* NVIC_SystemReset() after a commit's 50 ms delay, REBOOT and DFU.
SystemReset(t) ==
    /\ Runs(t)
    /\ pc[t] = "resetting" \/ Ready(t)
    /\ Restart
    /\ UNCHANGED history

PowerLoss ==
    /\ phase # "boot"
    /\ losses < MaxPowerLoss
    /\ losses' = losses + 1
    /\ Restart
    /\ UNCHANGED <<since, optedIn, commits>>

Boot == \/ Reconcile \/ LoadDefaults \/ LoadRecord
        \/ MigrateUnlink \/ MigrateOpen \/ MigrateWrite \/ ConsoleInit

Console(t) == SetField(t) \/ ConfigReset(t) \/ ConfigRevert(t) \/ Commit(t)

Save(t) == \/ SaveUnlink(t) \/ SaveOpen(t) \/ SaveWrite(t) \/ SaveVerify(t)
           \/ SaveRename(t) \/ SaveCleanup(t) \/ Acknowledge(t)

Next == \/ Boot
        \/ \E t \in Tasks : Console(t) \/ Save(t) \/ SystemReset(t)
        \/ PowerLoss

Spec == Init /\ [][Next]_vars

-----------------------------------------------------------------------------
TypeOK ==
    /\ bin \in File /\ new \in File
    /\ phase \in Phases
    /\ live \in Config /\ staging \in Config
    /\ pc \in [Tasks -> Pcs]
    /\ tmp \in [Tasks -> Config]
    /\ before \in [Tasks -> File]
    /\ since \subseteq Config \cup {NoConfig}
    /\ optedIn \in BOOLEAN
    /\ commits \in 0..MaxCommits /\ losses \in 0..MaxPowerLoss

\* What a reboot would run is the last acknowledged configuration or one that
\* was offered since: no interleaving of commits, write failures and power
\* losses brings back an older one, or none (Config.cpp:373-389).
Durable == Recoverable \in since

\* Once /config.bin holds a complete record of the current schema it always
\* does: no commit, failure or power loss unlinks or tears it
\* (Config.cpp:373-417).
CurrentNeverLost ==
    [][Complete(bin) /\ bin.schema = 3 => Complete(bin') /\ bin'.schema = 3]_vars

\* The same of a record of any schema, as Config.cpp:387-389 has it:
\* "CONFIG_PATH only ever holds a complete record: the old one or the new
\* one, never neither".  The migration of a v1 or v2 record breaks it.
NeverNeither == [][Complete(bin) => Complete(bin')]_vars

\* Until save() renames, and when it reports a failure, /config.bin is what
\* it was when the commit began ("live config left untouched",
\* Config.cpp:391-417).
FailureLeavesLive ==
    OneConsole => \A t \in Tasks : pc[t] \in SavePcs => bin = before[t]

\* A node comes up on a configuration that was acknowledged or offered since,
\* and on the board defaults only while nothing has been acknowledged
\* (Config.cpp:442-461 with main.cpp:83).
BootsDurable ==
    [][ phase = "load" /\ phase' # "boot" =>
          \/ NoConfig \in since /\ live' = Defaults
          \/ \E c \in since \ {NoConfig} : live' = SwapLegacyBatt(c) ]_vars

\* A node transmits only if a TX-enabled record was in the field or was
\* committed: no torn, stale or zero-filled record opens the gate
\* (Config.cpp:104-110, Config.h:70-76).
TxNeedsConsent == phase \in {"setup", "running"} /\ live.tx => optedIn

\* The files implement one atomically replaced configuration.
Abstract == INSTANCE AtomicConfig WITH stored <- Recoverable, allowed <- since
Atomic == Abstract!Spec
=============================================================================
