------------------------- MODULE ConfigStore_proofs -------------------------
(***************************************************************************)
(* Safety of the persisted configuration for every value of the constants  *)
(* of ConfigStore, by one inductive invariant.                             *)
(***************************************************************************)
EXTENDS ConfigStore, TLAPS

\* Two consoles may commit at the same time, or removing a file may fail, but
\* not both: a scratch file left behind by one save could reach the other's
\* rename.
Environment == OneConsole \/ ~RemoveMayFail

Saving(t) == pc[t] \in SavePcs
Committed(t) == pc[t] \in {"committed", "resetting"}

\* No task is in save() before BLE or the console is up; one at a time if the
\* operators promise it.
Exclusion ==
    /\ phase \notin {"setup", "running"} => \A t \in Tasks : pc[t] = "idle"
    /\ OneConsole => \A t, u \in Tasks : pc[t] # "idle" /\ pc[u] # "idle" => t = u

\* What is being saved is valid, current and offered.
TmpOffered ==
    \A t \in Tasks : pc[t] # "idle" =>
        tmp[t] \in since /\ tmp[t].version = 3 /\ Valid(tmp[t])

\* The live record was offered, or the flash is known to hold none.
BinOffered ==
    /\ Complete(bin) => bin.cfg.version = 3
    /\ Readable(bin) => Migrate(bin) \in since
    /\ ~Readable(bin) => NoConfig \in since

\* A complete scratch file holds a valid offered record, and after a commit
\* only that of the other console's save.
NewOffered ==
    /\ Complete(new) => /\ new.schema = 3 /\ new.cfg.version = 3
                        /\ Valid(new.cfg) /\ new.cfg \in since
    /\ \A t \in Tasks : Committed(t) /\ Complete(new) =>
          \E u \in Tasks : pc[u] # "idle" /\ new = Rec(tmp[u])

\* A task about to rename renames what it has verified.
RenameVerified ==
    \A t \in Tasks : pc[t] = "rename" /\ Runs(t) => new \in {Absent, Rec(tmp[t])}

\* After a commit the live record is one of those committed.
CommitLanded ==
    \A t \in Tasks : Committed(t) =>
        \E u \in Tasks : Committed(u) /\ bin = Rec(tmp[u])

MigrationKnown ==
    /\ phase = "migrateUnlink" => Readable(bin) /\ bin.schema # 3
    /\ phase = "migrateOpen" /\ Complete(bin) => bin.schema # 3
    /\ phase = "migrateWrite" => bin = Torn
    /\ phase \in {"migrateOpen", "migrateWrite"} =>
          /\ tmp["loop"] \in since /\ tmp["loop"].version = 3
          /\ Valid(tmp["loop"]) /\ NoConfig \in since

Consent ==
    /\ \A c \in since \ {NoConfig} : c.tx => optedIn
    /\ phase \notin {"boot", "load"} /\ live.tx => optedIn

IInv == /\ TypeOK /\ Exclusion /\ TmpOffered /\ BinOffered /\ NewOffered
        /\ RenameVerified /\ CommitLanded /\ MigrationKnown /\ Consent
        /\ FailureLeavesLive
-----------------------------------------------------------------------------
USE DEF Tasks

LEMMA SavePcNames ==
    /\ SavePcs \subseteq Pcs
    /\ "unlink" \in SavePcs /\ "open" \in SavePcs /\ "write" \in SavePcs
    /\ "verify" \in SavePcs /\ "rename" \in SavePcs /\ "cleanup" \in SavePcs
BY DEF SavePcs, Pcs

LEMMA MigrateRecord ==
    ASSUME NEW r \in Record
    PROVE  /\ Migrate(r) \in Config
           /\ Migrate(r).version = 3
           /\ Migrate(r).tx = r.cfg.tx
           /\ Valid(r.cfg) => Valid(Migrate(r))
BY DEF Record, Config, Migrate, Valid

LEMMA MigrateCurrent ==
    ASSUME NEW c \in Config, c.version = 3
    PROVE  Rec(c) \in Record /\ Rec(c).schema = 3 /\ Rec(c).cfg = c /\ Migrate(Rec(c)) = c
<1>1. Rec(c) \in Record /\ Rec(c).schema = 3 /\ Rec(c).cfg = c
  BY DEF Record, Rec
<1>2. Migrate(Rec(c)) = [c EXCEPT !.version = 3, !.bt = c.bt]
  BY <1>1 DEF Migrate
<1>3. c = [version |-> c.version, radio |-> c.radio, batt |-> c.batt,
           tx |-> c.tx, bt |-> c.bt]
  BY DEF Config
<1>4. [c EXCEPT !.version = 3, !.bt = c.bt]
        = [version |-> 3, radio |-> c.radio, batt |-> c.batt, tx |-> c.tx, bt |-> c.bt]
  BY <1>3
<1> QED
  BY <1>1, <1>2, <1>3, <1>4

LEMMA RecordKnown ==
    ASSUME NEW f \in File, Complete(f)
    PROVE  f \in Record /\ f.cfg \in Config
BY DEF File, Complete, Record

LEMMA RecComplete ==
    ASSUME NEW c \in Config, c.version = 3
    PROVE  Complete(Rec(c)) /\ (Valid(c) => Readable(Rec(c)))
BY MigrateCurrent, FileAssumption DEF Complete, Readable

LEMMA NoRecord == ~Complete(Absent) /\ ~Complete(Torn) /\ ~Readable(Absent) /\ ~Readable(Torn)
BY DEF Complete, Readable

LEMMA SwapType ==
    ASSUME NEW c \in Config
    PROVE  SwapLegacyBatt(c) \in Config /\ SwapLegacyBatt(c).tx = c.tx
BY BattAssumption DEF SwapLegacyBatt, Config

LEMMA ConstantTypes ==
    ZeroConfig \in Config /\ Defaults \in Config /\ Defaults.tx = FALSE
BY RadioAssumption, BattAssumption DEF ZeroConfig, Defaults, Config

-----------------------------------------------------------------------------
LEMMA InitIInv == Init => IInv
<1> SUFFICES ASSUME Init PROVE IInv
  OBVIOUS
<1>1. bin \in File /\ (Complete(bin) => bin.cfg.version = 3)
  BY SchemaAssumption DEF Init, File, Record, Complete
<1>2. Recoverable = IF Readable(bin) THEN Migrate(bin) ELSE NoConfig
  BY NoRecord DEF Init, Recoverable
<1>3. Readable(bin) => bin \in Record /\ Migrate(bin) \in Config /\ Migrate(bin).tx = bin.cfg.tx
  BY <1>1, RecordKnown, MigrateRecord DEF Readable
<1>4. TypeOK
  BY <1>1, <1>2, <1>3, ConstantTypes, BoundAssumption
  DEF Init, TypeOK, File, Phases, Pcs, Readable, Valid, Record, Config
<1>5. /\ Exclusion /\ TmpOffered /\ BinOffered /\ NewOffered /\ RenameVerified
      /\ CommitLanded /\ MigrationKnown /\ FailureLeavesLive
  BY <1>1, <1>2, <1>3, NoRecord
  DEF Init, Exclusion, TmpOffered, BinOffered, NewOffered, RenameVerified,
      CommitLanded, Committed, MigrationKnown, FailureLeavesLive, SavePcs
<1>6. Consent
  BY <1>2, <1>3 DEF Init, Consent
<1> QED
  BY <1>4, <1>5, <1>6 DEF IInv

-----------------------------------------------------------------------------
(***************************************************************************)
(* setup()                                                                 *)
(***************************************************************************)
LEMMA ReconcileIInv ==
    ASSUME IInv, Reconcile PROVE IInv'
<1>1. TypeOK'
  BY DEF IInv, TypeOK, Reconcile, flash, history, Phases, Removed, File
<1>2. \A t \in Tasks : pc'[t] = "idle"
  BY DEF IInv, Exclusion, Reconcile
<1>3. BinOffered' /\ NewOffered'
  <2>1. CASE UNCHANGED flash
    BY <2>1, <1>2, NoRecord
    DEF IInv, TypeOK, BinOffered, NewOffered, Reconcile, history, flash, Committed, Readable, Complete
  <2>2. CASE bin = Absent /\ bin' = new /\ new' = Absent
    <3>1. new \in File /\ (Complete(new) => /\ new.cfg \in since /\ new.cfg.version = 3
                                            /\ new.schema = 3 /\ Valid(new.cfg))
      BY DEF IInv, TypeOK, NewOffered
    <3>2. Complete(new) => Migrate(new) = new.cfg
      <4> SUFFICES ASSUME Complete(new) PROVE Migrate(new) = new.cfg
        OBVIOUS
      <4>1. new \in Record /\ new.cfg \in Config
        BY <3>1, RecordKnown
      <4>2. new = Rec(new.cfg)
        BY <3>1, <4>1 DEF Record, Rec
      <4> QED
        BY <3>1, <4>1, <4>2, MigrateCurrent
    <3> QED
      BY <2>2, <3>1, <3>2, <1>2, NoRecord
      DEF IInv, BinOffered, NewOffered, Reconcile, history, Committed, Readable, Complete
  <2>3. CASE bin' = bin /\ new' \in {Absent, new}
    BY <2>3, <1>2, NoRecord
    DEF IInv, BinOffered, NewOffered, Reconcile, history, Committed, Readable, Complete
  <2> QED
    BY <2>1, <2>2, <2>3 DEF Reconcile, Removed
<1>4. /\ Exclusion' /\ TmpOffered' /\ RenameVerified' /\ CommitLanded'
      /\ MigrationKnown' /\ FailureLeavesLive' /\ Consent'
  BY <1>2 DEF IInv, Exclusion, TmpOffered, RenameVerified, CommitLanded, Committed,
     MigrationKnown, FailureLeavesLive, SavePcs, Consent, Reconcile, history
<1> QED
  BY <1>1, <1>3, <1>4 DEF IInv

LEMMA LoadIInv ==
    ASSUME IInv, LoadDefaults \/ LoadRecord PROVE IInv'
<1>1. Readable(bin) => /\ bin \in Record /\ Migrate(bin) \in Config
                       /\ Migrate(bin) \in since \ {NoConfig}
  BY RecordKnown, MigrateRecord, ConfigAssumption
  DEF IInv, TypeOK, BinOffered, Readable
<1>2. live' \in Config /\ (live'.tx => optedIn)
  <2>1. CASE LoadDefaults
    BY <2>1, ConstantTypes DEF LoadDefaults
  <2>2. CASE LoadRecord
    BY <2>2, <1>1, SwapType DEF LoadRecord, IInv, Consent
  <2> QED
    BY <2>1, <2>2
<1>3. TypeOK'
  BY <1>2 DEF IInv, TypeOK, LoadDefaults, LoadRecord, flash, history, Phases
<1>4. \A t \in Tasks : pc'[t] = "idle"
  BY DEF IInv, Exclusion, LoadDefaults, LoadRecord
<1>5. MigrationKnown'
  BY DEF LoadDefaults, LoadRecord, MigrationKnown, flash, Readable, Complete
<1>6. /\ Exclusion' /\ TmpOffered' /\ RenameVerified' /\ CommitLanded'
      /\ FailureLeavesLive' /\ BinOffered' /\ NewOffered'
  BY <1>4 DEF IInv, Exclusion, TmpOffered, RenameVerified, CommitLanded, Committed,
     FailureLeavesLive, SavePcs, LoadDefaults, LoadRecord, history, flash,
     BinOffered, NewOffered, Readable, Complete
<1>7. Consent'
  BY <1>2 DEF IInv, Consent, LoadDefaults, LoadRecord, history
<1> QED
  BY <1>3, <1>5, <1>6, <1>7 DEF IInv

LEMMA MigrateIInv ==
    ASSUME IInv, MigrateUnlink \/ MigrateOpen \/ MigrateWrite PROVE IInv'
<1>1. \A t \in Tasks : pc'[t] = "idle" /\ pc[t] = "idle"
  BY DEF IInv, Exclusion, MigrateUnlink, MigrateOpen, MigrateWrite
<1>2. CASE MigrateUnlink
  <2>1. /\ bin \in Record /\ Migrate(bin) \in Config /\ Migrate(bin) \in since
        /\ Migrate(bin).version = 3 /\ Valid(Migrate(bin))
    BY <1>2, RecordKnown, MigrateRecord
    DEF IInv, TypeOK, BinOffered, MigrationKnown, MigrateUnlink, Readable
  <2>0. bin' \in {bin, Absent} /\ bin.schema # 3 /\ Complete(bin)
    BY <1>2 DEF MigrateUnlink, Removed, IInv, MigrationKnown, Readable
  <2>2. TypeOK'
    BY <1>2, <2>0, <2>1 DEF IInv, TypeOK, MigrateUnlink, Phases, File
  <2>3. MigrationKnown'
    BY <1>2, <2>0, <2>1, NoRecord DEF IInv, TypeOK, MigrateUnlink, MigrationKnown
  <2>4. BinOffered' /\ NewOffered'
    <3>1. CASE bin' = bin
      BY <1>1, <1>2, <3>1 DEF IInv, MigrateUnlink, BinOffered, NewOffered, Committed,
         Complete, Readable
    <3>2. CASE bin' = Absent
      BY <1>1, <1>2, <3>2, NoRecord DEF IInv, MigrateUnlink, BinOffered, NewOffered,
         Committed, Complete, Readable
    <3> QED
      BY <2>0, <3>1, <3>2
  <2>5. Consent'
    BY <1>2 DEF IInv, Consent, MigrateUnlink
  <2>6. /\ Exclusion' /\ TmpOffered' /\ RenameVerified' /\ CommitLanded' /\ FailureLeavesLive'
    BY <1>1, <1>2 DEF IInv, Exclusion, TmpOffered, RenameVerified, CommitLanded,
       Committed, FailureLeavesLive, SavePcs, MigrateUnlink
  <2> QED
    BY <2>2, <2>3, <2>4, <2>5, <2>6 DEF IInv
<1>3. CASE MigrateOpen
  <2>1. TypeOK' /\ MigrationKnown'
    BY <1>3 DEF IInv, TypeOK, MigrateOpen, Phases, File, MigrationKnown, history
  <2>2. BinOffered' /\ NewOffered'
    BY <1>1, <1>3, NoRecord
    DEF IInv, MigrateOpen, MigrationKnown, BinOffered, NewOffered, Committed, Complete, Readable, history
  <2>3. Consent'
    BY <1>3 DEF IInv, Consent, MigrateOpen, history
  <2>4. /\ Exclusion' /\ TmpOffered' /\ RenameVerified' /\ CommitLanded' /\ FailureLeavesLive'
    BY <1>1, <1>3 DEF IInv, Exclusion, TmpOffered, RenameVerified, CommitLanded,
       Committed, FailureLeavesLive, SavePcs, MigrateOpen, history
  <2> QED
    BY <2>1, <2>2, <2>3, <2>4 DEF IInv
<1>4. CASE MigrateWrite
  <2>0. /\ tmp["loop"] \in Config /\ tmp["loop"] \in since /\ tmp["loop"].version = 3
        /\ NoConfig \in since
    BY <1>4 DEF IInv, TypeOK, MigrateWrite, MigrationKnown
  <2>1. TypeOK' /\ MigrationKnown'
    BY <1>4, <2>0, MigrateCurrent DEF IInv, TypeOK, MigrateWrite, Phases, File, MigrationKnown, history
  <2>2. BinOffered'
    BY <1>4, <2>0, MigrateCurrent, NoRecord DEF IInv, MigrateWrite, BinOffered, Complete, Readable, history
  <2>3. NewOffered' /\ Consent'
    BY <1>1, <1>4 DEF IInv, MigrateWrite, NewOffered, Committed, Complete, history, Consent
  <2>4. /\ Exclusion' /\ TmpOffered' /\ RenameVerified' /\ CommitLanded' /\ FailureLeavesLive'
    BY <1>1, <1>4 DEF IInv, Exclusion, TmpOffered, RenameVerified, CommitLanded,
       Committed, FailureLeavesLive, SavePcs, MigrateWrite, history
  <2> QED
    BY <2>1, <2>2, <2>3, <2>4 DEF IInv
<1> QED
  BY <1>2, <1>3, <1>4

LEMMA ConsoleInitIInv ==
    ASSUME IInv, ConsoleInit PROVE IInv'
<1>1. TypeOK' /\ MigrationKnown' /\ Consent'
  BY DEF IInv, TypeOK, ConsoleInit, flash, history, Phases, MigrationKnown, Consent
<1>2. /\ Exclusion' /\ TmpOffered' /\ RenameVerified' /\ CommitLanded'
      /\ FailureLeavesLive' /\ BinOffered' /\ NewOffered'
  BY DEF IInv, ConsoleInit, flash, history, Exclusion, TmpOffered, RenameVerified,
     CommitLanded, Committed, FailureLeavesLive, BinOffered, NewOffered, Readable, Complete, Runs
<1> QED
  BY <1>1, <1>2 DEF IInv

-----------------------------------------------------------------------------
(***************************************************************************)
(* Console commands                                                        *)
(***************************************************************************)
LEMMA EditIInv ==
    ASSUME IInv, NEW t \in Tasks, SetField(t) \/ ConfigReset(t) \/ ConfigRevert(t)
    PROVE  IInv'
<1>1. staging' \in Config
  <2>1. CASE SetField(t)
    BY <2>1 DEF IInv, TypeOK, SetField, Config
  <2>2. CASE ConfigReset(t) \/ ConfigRevert(t)
    BY <2>2, ConstantTypes DEF IInv, TypeOK, ConfigReset, ConfigRevert
  <2> QED
    BY <2>1, <2>2
<1>2. UNCHANGED <<flash, phase, live, pc, tmp, before, history>>
  BY DEF SetField, ConfigReset, ConfigRevert
<1>3. TypeOK' /\ MigrationKnown' /\ Consent'
  BY <1>1, <1>2 DEF IInv, TypeOK, flash, history, MigrationKnown, Consent
<1>4. /\ Exclusion' /\ TmpOffered' /\ RenameVerified' /\ CommitLanded'
      /\ FailureLeavesLive' /\ BinOffered' /\ NewOffered'
  BY <1>2 DEF IInv, flash, history, Exclusion, TmpOffered, RenameVerified,
     CommitLanded, Committed, FailureLeavesLive, BinOffered, NewOffered, Readable, Complete, Runs
<1> QED
  BY <1>3, <1>4 DEF IInv

LEMMA CommitIInv ==
    ASSUME IInv, NEW t \in Tasks, Commit(t)
    PROVE  IInv'
<1> DEFINE c == [staging EXCEPT !.version = 3]
<1>1. c \in Config /\ c.version = 3 /\ Valid(c) /\ c.tx = staging.tx
  BY DEF IInv, TypeOK, Commit, Config, Valid
<1>2. /\ pc[t] = "idle" /\ tmp' = [tmp EXCEPT ![t] = c] /\ pc' = [pc EXCEPT ![t] = "unlink"]
      /\ since' = since \cup {c} /\ optedIn' = (optedIn \/ c.tx)
      /\ before' = [before EXCEPT ![t] = bin]
      /\ UNCHANGED <<flash, phase, live, staging, losses>>
      /\ phase \in {"setup", "running"}
  BY <1>1 DEF IInv, TypeOK, Commit, Ready
<1> HIDE DEF c
<1>3. TypeOK'
  BY <1>1, <1>2, BoundAssumption DEF IInv, TypeOK, Commit, flash, Pcs, SavePcs
<1>4. Exclusion'
  BY <1>2 DEF IInv, TypeOK, Exclusion, Commit
<1>5. TmpOffered' /\ BinOffered' /\ Consent'
  BY <1>1, <1>2 DEF IInv, TypeOK, TmpOffered, BinOffered, Consent, flash, Readable, Complete
<1>6. NewOffered'
  BY <1>2 DEF IInv, TypeOK, NewOffered, Committed, flash, Complete
<1>7. RenameVerified'
  BY <1>2 DEF IInv, TypeOK, RenameVerified, Runs, flash, SavePcs
<1>8. CommitLanded' /\ MigrationKnown'
  BY <1>2 DEF IInv, TypeOK, CommitLanded, Committed, MigrationKnown, flash
<1>9. FailureLeavesLive'
  BY <1>2, <1>4 DEF IInv, TypeOK, FailureLeavesLive, Exclusion, flash, SavePcs
<1> QED
  BY <1>3, <1>4, <1>5, <1>6, <1>7, <1>8, <1>9 DEF IInv

-----------------------------------------------------------------------------
(***************************************************************************)
(* save().  Only a rename touches the live record, and only an             *)
(* acknowledgement forgets an offer: what the other steps keep is common.  *)
(***************************************************************************)
LEMMA SaveStepIInv ==
    ASSUME IInv, NEW t \in Tasks, NEW from \in Pcs, NEW to \in SavePcs,
           from \in SavePcs, Goto(t, from, to),
           UNCHANGED <<bin, phase, live, staging, tmp, before, history>>,
           new' \in {Absent, Torn, new, Rec(tmp[t])},
           to = "rename" => new' \in {Absent, Rec(tmp[t])}
    PROVE  IInv'
<1>0. tmp[t] \in Config /\ tmp[t] \in since /\ tmp[t].version = 3 /\ Valid(tmp[t])
      /\ pc[t] = from /\ pc[t] # "idle" /\ pc' = [pc EXCEPT ![t] = to] /\ Runs(t)
      /\ phase \in {"setup", "running"}
  BY DEF IInv, TypeOK, TmpOffered, Goto, SavePcs, Exclusion, Phases
<1>1. TypeOK'
  BY <1>0, MigrateCurrent DEF IInv, TypeOK, history, File, Pcs
<1>2. Exclusion' /\ TmpOffered' /\ CommitLanded' /\ FailureLeavesLive'
  BY <1>0 DEF IInv, TypeOK, history, Exclusion, TmpOffered, CommitLanded, Committed,
     FailureLeavesLive, SavePcs
<1>3. BinOffered' /\ MigrationKnown' /\ Consent'
  BY <1>0 DEF IInv, history, BinOffered, MigrationKnown, Consent, Readable, Complete
<1>4. NewOffered'
  <2>1. CASE new' \in {Absent, Torn}
    BY <2>1, NoRecord DEF NewOffered, Complete
  <2>2. CASE new' = new
    BY <2>2, <1>0 DEF IInv, TypeOK, NewOffered, Committed, Complete, history, SavePcs
  <2>3. CASE new' = Rec(tmp[t])
    BY <2>3, <1>0, MigrateCurrent DEF IInv, TypeOK, NewOffered, Committed, Complete, history, SavePcs
  <2> QED
    BY <2>1, <2>2, <2>3
<1>5. RenameVerified'
  <2> SUFFICES ASSUME NEW u \in Tasks, pc'[u] = "rename", Runs(u)'
               PROVE  new' \in {Absent, Rec(tmp[u])}
    BY DEF RenameVerified, history
  <2>1. CASE u = t
    BY <2>1, <1>0 DEF IInv, TypeOK
  <2>2. CASE u # t
    <3>1. pc[u] = "rename" /\ pc'[t] = to
      BY <2>2, <1>0 DEF IInv, TypeOK
    <3>2. CASE u = "loop" /\ t = "ble"
      BY <3>1, <3>2 DEF Runs
    <3>3. CASE u = "ble" /\ t = "loop"
      BY <3>1, <3>3, <1>0 DEF Runs, SavePcs
    <3> QED
      BY <2>2, <3>2, <3>3
  <2> QED
    BY <2>1, <2>2
<1> QED
  BY <1>1, <1>2, <1>3, <1>4, <1>5 DEF IInv

LEMMA SaveWriteIInv ==
    ASSUME IInv, NEW t \in Tasks,
           SaveUnlink(t) \/ SaveOpen(t) \/ SaveWrite(t)
    PROVE  IInv'
<1>1. CASE SaveUnlink(t)
  <2>1. new' \in {new, Absent}
    BY <1>1 DEF SaveUnlink, Removed
  <2>2. CASE new' = new
    BY <1>1, <2>2, SaveStepIInv, SavePcNames
    DEF SaveUnlink
  <2>3. CASE new' = Absent
    BY <1>1, <2>3, SaveStepIInv, SavePcNames
    DEF SaveUnlink
  <2> QED
    BY <2>1, <2>2, <2>3
<1>2. CASE SaveOpen(t)
  <2>1. CASE Goto(t, "open", "write") /\ new' = Torn
    BY <1>2, <2>1, SaveStepIInv, SavePcNames
    DEF SaveOpen
  <2>2. CASE Goto(t, "open", "cleanup") /\ UNCHANGED new
    BY <1>2, <2>2, SaveStepIInv, SavePcNames
    DEF SaveOpen
  <2> QED
    BY <1>2, <2>1, <2>2 DEF SaveOpen
<1>3. CASE SaveWrite(t)
  <2>1. CASE Goto(t, "write", "verify")
    BY <1>3, <2>1, SaveStepIInv, SavePcNames
    DEF SaveWrite
  <2>2. CASE Goto(t, "write", "cleanup")
    BY <1>3, <2>2, SaveStepIInv, SavePcNames
    DEF SaveWrite
  <2> QED
    BY <1>3, <2>1, <2>2 DEF SaveWrite
<1> QED
  BY <1>1, <1>2, <1>3

LEMMA SaveVerifyIInv ==
    ASSUME IInv, NEW t \in Tasks, SaveVerify(t) PROVE IInv'
<1>1. CASE new = Rec(tmp[t])
  BY <1>1, SaveStepIInv, SavePcNames
  DEF SaveVerify, flash
<1>2. CASE new # Rec(tmp[t])
  BY <1>2, SaveStepIInv, SavePcNames
  DEF SaveVerify, flash
<1> QED
  BY <1>1, <1>2

LEMMA SaveRenameIInv ==
    ASSUME IInv, NEW t \in Tasks, SaveRename(t) PROVE IInv'
<1>1. CASE Goto(t, "rename", "cleanup") /\ UNCHANGED flash
  BY <1>1, SaveStepIInv, SavePcNames DEF SaveRename, flash
<1>2. CASE Goto(t, "rename", "committed") /\ new # Absent /\ bin' = new /\ new' = Absent
  <2>1. /\ pc[t] = "rename" /\ pc' = [pc EXCEPT ![t] = "committed"] /\ Runs(t)
        /\ UNCHANGED <<phase, live, staging, tmp, before, history>>
        /\ bin' = Rec(tmp[t]) /\ new' = Absent
    BY <1>2 DEF Goto, SaveRename, IInv, RenameVerified
  <2>2. tmp[t] \in Config /\ tmp[t] \in since /\ tmp[t].version = 3 /\ Valid(tmp[t])
    BY <2>1 DEF IInv, TypeOK, TmpOffered
  <2>3. phase \in {"setup", "running"}
    BY <2>1 DEF IInv, Exclusion
  <2>4. TypeOK'
    BY <2>1, <2>2, MigrateCurrent DEF IInv, TypeOK, File, Pcs, history
  <2>5. Exclusion' /\ TmpOffered'
    BY <2>1 DEF IInv, TypeOK, Exclusion, TmpOffered, history
  <2>6. BinOffered' /\ NewOffered'
    BY <2>1, <2>2, MigrateCurrent, RecComplete, NoRecord
    DEF BinOffered, NewOffered, Readable, Complete, history
  <2>7. RenameVerified' /\ MigrationKnown' /\ Consent'
    BY <2>1, <2>3 DEF IInv, RenameVerified, MigrationKnown, Consent, history
  <2>8. CommitLanded'
    BY <2>1 DEF IInv, TypeOK, CommitLanded, Committed
  <2>9. FailureLeavesLive'
    BY <2>1 DEF IInv, TypeOK, Exclusion, FailureLeavesLive, SavePcs
  <2> QED
    BY <2>4, <2>5, <2>6, <2>7, <2>8, <2>9 DEF IInv
<1> QED
  BY <1>1, <1>2 DEF SaveRename

LEMMA SaveCleanupIInv ==
    ASSUME Environment, IInv, NEW t \in Tasks, SaveCleanup(t) PROVE IInv'
<1>1. /\ pc[t] = "cleanup" /\ pc' = [pc EXCEPT ![t] = "idle"] /\ Runs(t)
      /\ new' \in Removed(new)
      /\ tmp' = [tmp EXCEPT ![t] = ZeroConfig] /\ before' = [before EXCEPT ![t] = Absent]
      /\ UNCHANGED <<bin, phase, live, staging, history>>
  BY DEF SaveCleanup, Goto
<1>2. \/ new' = Absent
      \/ new' = new /\ \A u \in Tasks : pc'[u] = "idle"
  BY <1>1 DEF Removed, Environment, IInv, TypeOK, Exclusion
<1>3. phase \in {"setup", "running"}
  BY <1>1 DEF IInv, Exclusion
<1>4. TypeOK'
  BY <1>1, <1>2, ConstantTypes DEF IInv, TypeOK, File, Pcs, history
<1>5. Exclusion' /\ TmpOffered' /\ FailureLeavesLive'
  BY <1>1 DEF IInv, TypeOK, Exclusion, TmpOffered, FailureLeavesLive, SavePcs, history
<1>6. BinOffered' /\ MigrationKnown' /\ Consent'
  BY <1>1, <1>3 DEF IInv, BinOffered, MigrationKnown, Consent, Readable, Complete, history
<1>7. NewOffered' /\ RenameVerified'
  BY <1>1, <1>2, NoRecord
  DEF IInv, TypeOK, NewOffered, RenameVerified, Committed, Complete, history
<1>8. CommitLanded'
  BY <1>1 DEF IInv, TypeOK, CommitLanded, Committed
<1> QED
  BY <1>4, <1>5, <1>6, <1>7, <1>8 DEF IInv

\* What an acknowledgement keeps contains the record the flash holds.
LEMMA AcknowledgeIInv ==
    ASSUME IInv, NEW t \in Tasks, Acknowledge(t) PROVE IInv'
<1> DEFINE kept == {tmp[u] : u \in {v \in Tasks : pc[v] # "idle"}}
<1>1. /\ pc[t] = "committed" /\ pc' = [pc EXCEPT ![t] = "resetting"] /\ since' = kept
      /\ UNCHANGED <<flash, phase, live, staging, tmp, before, optedIn, commits, losses>>
  BY DEF Acknowledge, Goto
<1>2. kept \subseteq since /\ kept \subseteq Config
  BY DEF IInv, TypeOK, TmpOffered
<1>3. PICK u \in Tasks : Committed(u) /\ bin = Rec(tmp[u])
  BY <1>1 DEF IInv, CommitLanded, Committed
<1>4. tmp[u] \in kept /\ tmp[u] \in Config /\ tmp[u].version = 3 /\ Valid(tmp[u])
  BY <1>3 DEF Committed, IInv, TypeOK, TmpOffered
<1>5. phase \in {"setup", "running"}
  BY <1>1 DEF IInv, Exclusion
<1>6. \A v \in Tasks : pc'[v] # "idle" => tmp[v] \in kept
  BY <1>1 DEF IInv, TypeOK
<1> HIDE DEF kept
<1>7. TypeOK'
  BY <1>1, <1>2 DEF IInv, TypeOK, Pcs, flash
<1>8. Exclusion' /\ TmpOffered' /\ FailureLeavesLive' /\ CommitLanded'
  BY <1>1, <1>6 DEF IInv, TypeOK, Exclusion, TmpOffered, FailureLeavesLive, CommitLanded,
     Committed, SavePcs, flash
<1>9. BinOffered'
  BY <1>1, <1>3, <1>4, MigrateCurrent, RecComplete DEF BinOffered, Readable, Complete, flash
<1>10. NewOffered'
  <2> SUFFICES ASSUME Complete(new) PROVE NewOffered'
    BY <1>1 DEF NewOffered, Complete, flash
  <2>1. PICK v \in Tasks : pc[v] # "idle" /\ new = Rec(tmp[v])
    BY <1>1 DEF IInv, NewOffered, Committed
  <2>2. pc'[v] # "idle" /\ tmp[v] \in kept /\ new.cfg = tmp[v]
    BY <2>1, <1>1, <1>6 DEF IInv, TypeOK, Rec
  <2> QED
    BY <2>1, <2>2, <1>1 DEF IInv, NewOffered, flash
<1>11. RenameVerified' /\ MigrationKnown' /\ Consent'
  BY <1>1, <1>2, <1>5
  DEF IInv, TypeOK, RenameVerified, MigrationKnown, Consent, Runs, SavePcs, flash
<1> QED
  BY <1>7, <1>8, <1>9, <1>10, <1>11 DEF IInv

LEMMA RestartIInv ==
    ASSUME IInv, Restart, UNCHANGED <<since, optedIn, commits>>, losses' \in 0..MaxPowerLoss
    PROVE  IInv'
<1>1. TypeOK'
  BY ConstantTypes DEF IInv, TypeOK, Restart, flash, Phases, Pcs, File
<1>2. BinOffered' /\ NewOffered' /\ Consent'
  BY DEF IInv, Restart, flash, BinOffered, NewOffered, Committed, Consent, Readable, Complete
<1>3. /\ Exclusion' /\ TmpOffered' /\ RenameVerified' /\ CommitLanded'
      /\ MigrationKnown' /\ FailureLeavesLive'
  BY DEF IInv, Restart, Exclusion, TmpOffered, RenameVerified, CommitLanded, Committed,
     MigrationKnown, FailureLeavesLive, SavePcs
<1> QED
  BY <1>1, <1>2, <1>3 DEF IInv

-----------------------------------------------------------------------------
LEMMA NextIInv ==
    Environment /\ IInv /\ [Next]_vars => IInv'
<1> SUFFICES ASSUME Environment, IInv, [Next]_vars PROVE IInv'
  OBVIOUS
<1>1. CASE Boot
  BY <1>1, ReconcileIInv, LoadIInv, MigrateIInv, ConsoleInitIInv DEF Boot
<1>2. ASSUME NEW t \in Tasks, Console(t) PROVE IInv'
  BY <1>2, EditIInv, CommitIInv DEF Console
<1>3. ASSUME NEW t \in Tasks, Save(t) PROVE IInv'
  BY <1>3, SaveWriteIInv, SaveVerifyIInv, SaveRenameIInv, SaveCleanupIInv, AcknowledgeIInv
  DEF Save
<1>4. ASSUME NEW t \in Tasks, SystemReset(t) PROVE IInv'
  BY <1>4, RestartIInv DEF SystemReset, history, IInv, TypeOK
<1>5. CASE PowerLoss
  <2>1. losses' \in 0..MaxPowerLoss
    BY <1>5, BoundAssumption DEF PowerLoss, IInv, TypeOK
  <2> QED
    BY <1>5, <2>1, RestartIInv DEF PowerLoss
<1>6. CASE UNCHANGED vars
  BY <1>6 DEF vars, flash, ram, history, IInv, TypeOK, Exclusion, TmpOffered, BinOffered,
     NewOffered, RenameVerified, CommitLanded, Committed, MigrationKnown, Consent,
     FailureLeavesLive, Readable, Complete, Runs
<1> QED
  BY <1>1, <1>2, <1>3, <1>4, <1>5, <1>6 DEF Next

LEMMA Inductive ==
    ASSUME Environment PROVE Spec => []IInv
<1>1. IInv /\ [Next]_vars => IInv'
  BY NextIInv
<1> QED
  BY InitIInv, <1>1, PTL DEF Spec

-----------------------------------------------------------------------------
(***************************************************************************)
(* The theorems.                                                           *)
(***************************************************************************)

\* Every variable keeps its type: in particular a file is absent, torn or a
\* stamped record, whatever load(), save() and the migration do.
THEOREM TypeCorrect ==
    ASSUME Environment PROVE Spec => []TypeOK
<1>1. IInv => TypeOK
  BY DEF IInv
<1> QED
  BY <1>1, Inductive, PTL

LEMMA IInvDurable == IInv => Durable
<1> SUFFICES ASSUME IInv PROVE Recoverable \in since
  BY DEF Durable
<1>1. CASE bin = Absent
  <2>1. CASE Readable(new)
    <3>1. new \in Record /\ new = Rec(new.cfg) /\ new.cfg \in Config
          /\ new.cfg.version = 3 /\ new.cfg \in since
      BY <2>1, RecordKnown DEF Readable, IInv, TypeOK, NewOffered, Record, Rec
    <3>2. Migrate(new) = new.cfg
      BY <3>1, MigrateCurrent
    <3> QED
      BY <1>1, <2>1, <3>1, <3>2 DEF Recoverable
  <2>2. CASE ~Readable(new)
    BY <1>1, <2>2, NoRecord DEF Recoverable, IInv, BinOffered
  <2> QED
    BY <2>1, <2>2
<1>2. CASE bin # Absent
  BY <1>2 DEF Recoverable, IInv, BinOffered
<1> QED
  BY <1>1, <1>2

\* What a reboot would run is the last acknowledged configuration or one
\* offered since, under every interleaving of the two consoles, file system
\* failures and power losses.
THEOREM DurableHolds ==
    ASSUME Environment PROVE Spec => []Durable
BY IInvDurable, Inductive, PTL

\* A failed or unfinished save() has not touched the live record.
THEOREM FailureLeavesLiveHolds ==
    ASSUME Environment PROVE Spec => []FailureLeavesLive
<1>1. IInv => FailureLeavesLive
  BY DEF IInv
<1> QED
  BY <1>1, Inductive, PTL

\* The transmit gate opens only for a record an operator committed or the node
\* was fielded with.
THEOREM ConsentHolds ==
    ASSUME Environment PROVE Spec => []TxNeedsConsent
<1>1. IInv => TxNeedsConsent
  BY DEF IInv, Consent, TxNeedsConsent
<1> QED
  BY <1>1, Inductive, PTL

\* Steps that write /config.bin: a rename of the verified scratch file, the
\* adoption of a scratch file when there is no record, a migration.
LEMMA BinWritten ==
    ASSUME IInv, Next, bin' # bin
    PROVE  \/ \E t \in Tasks : bin' = Rec(tmp[t])
           \/ bin \in {Absent, Torn}
           \/ bin.schema # 3
<1>1. CASE Boot
  <2>1. CASE Reconcile
    BY <2>1 DEF Reconcile, flash
  <2>2. CASE MigrateUnlink \/ MigrateOpen \/ MigrateWrite
    BY <2>2, NoRecord DEF IInv, MigrationKnown, MigrateUnlink, MigrateOpen, MigrateWrite,
       Readable, TypeOK, File, Complete
  <2>3. CASE LoadDefaults \/ LoadRecord \/ ConsoleInit
    BY <2>3 DEF LoadDefaults, LoadRecord, ConsoleInit, flash
  <2> QED
    BY <1>1, <2>1, <2>2, <2>3 DEF Boot
<1>2. ASSUME NEW t \in Tasks, Console(t) PROVE FALSE
  BY <1>2 DEF Console, SetField, ConfigReset, ConfigRevert, Commit, flash
<1>3. ASSUME NEW t \in Tasks, Save(t) PROVE bin' = Rec(tmp[t])
  <2>1. CASE SaveRename(t)
    BY <2>1 DEF SaveRename, Goto, flash, IInv, RenameVerified
  <2>2. CASE ~SaveRename(t)
    BY <1>3, <2>2 DEF Save, SaveUnlink, SaveOpen, SaveWrite, SaveVerify, SaveCleanup,
       Acknowledge, flash
  <2> QED
    BY <2>1, <2>2
<1>4. ASSUME NEW t \in Tasks, SystemReset(t) PROVE FALSE
  BY <1>4 DEF SystemReset, Restart, flash
<1>5. CASE PowerLoss
  BY <1>5 DEF PowerLoss, Restart, flash
<1> QED
  BY <1>1, <1>2, <1>3, <1>4, <1>5 DEF Next

\* A complete record of the current schema is only ever replaced by another.
THEOREM CurrentNeverLostHolds ==
    ASSUME Environment PROVE Spec => CurrentNeverLost
<1>1. IInv /\ IInv' /\ [Next]_vars =>
         [Complete(bin) /\ bin.schema = 3 => Complete(bin') /\ bin'.schema = 3]_vars
  <2> SUFFICES ASSUME IInv, Next, Complete(bin), bin.schema = 3
               PROVE  Complete(bin') /\ bin'.schema = 3
    OBVIOUS
  <2>1. CASE bin' = bin
    BY <2>1 DEF Complete
  <2>2. CASE bin' # bin
    <3>1. PICK t \in Tasks : bin' = Rec(tmp[t])
      BY <2>2, BinWritten DEF Complete
    <3>2. bin'.schema = 3 /\ (tmp[t] \in Config => Rec(tmp[t]) \in Record)
      BY <3>1 DEF Rec, Record
    <3> QED
      BY <3>1, <3>2, FileAssumption DEF IInv, TypeOK, Complete
  <2> QED
    BY <2>1, <2>2
<1> QED
  BY <1>1, Inductive, PTL DEF Spec, CurrentNeverLost

\* A boot runs an acknowledged or offered configuration, and the board's
\* defaults only while the flash may lawfully hold none.
THEOREM BootsDurableHolds ==
    ASSUME Environment PROVE Spec => BootsDurable
<1> DEFINE A == phase = "load" /\ phase' # "boot" =>
                   \/ NoConfig \in since /\ live' = Defaults
                   \/ \E c \in since \ {NoConfig} : live' = SwapLegacyBatt(c)
<1>1. IInv /\ [Next]_vars => [A]_vars
  <2> SUFFICES ASSUME IInv, Next, phase = "load", phase' # "boot" PROVE A
    OBVIOUS
  <2>1. CASE LoadDefaults
    BY <2>1 DEF LoadDefaults, IInv, BinOffered
  <2>2. CASE LoadRecord
    <3>1. Migrate(bin) \in since /\ Migrate(bin) \in Config
      BY <2>2, RecordKnown, MigrateRecord DEF LoadRecord, IInv, TypeOK, BinOffered, Readable
    <3> QED
      BY <2>2, <3>1, ConfigAssumption DEF LoadRecord
  <2>3. CASE Boot /\ ~LoadDefaults /\ ~LoadRecord
    BY <2>3 DEF Boot, Reconcile, MigrateUnlink, MigrateOpen, MigrateWrite, ConsoleInit
  <2>4. \A t \in Tasks : pc[t] = "idle"
    BY DEF IInv, Exclusion
  <2>5. ASSUME NEW t \in Tasks, Console(t) \/ Save(t) \/ SystemReset(t) PROVE FALSE
    BY <2>4, <2>5 DEF Console, SetField, ConfigReset, ConfigRevert, Commit, Ready, Save,
       SaveUnlink, SaveOpen, SaveWrite, SaveVerify, SaveRename, SaveCleanup, Acknowledge,
       Goto, SystemReset
  <2>6. CASE PowerLoss
    BY <2>6 DEF PowerLoss, Restart
  <2> QED
    BY <2>1, <2>2, <2>3, <2>5, <2>6 DEF Next
<1>2. [A]_vars => [phase = "load" /\ phase' # "boot" =>
                    \/ NoConfig \in since /\ live' = Defaults
                    \/ \E c \in since \ {NoConfig} : live' = SwapLegacyBatt(c)]_vars
  OBVIOUS
<1> QED
  BY <1>1, <1>2, Inductive, PTL DEF Spec, BootsDurable

-----------------------------------------------------------------------------
(***************************************************************************)
(* Refinement.  A node never fielded with an old record never migrates.    *)
(***************************************************************************)
AllCurrent ==
    /\ Complete(bin) => bin.schema = 3
    /\ phase \notin {"migrateUnlink", "migrateOpen", "migrateWrite"}

LEMMA AllCurrentHolds ==
    ASSUME Environment, FieldedSchemas \subseteq {3} PROVE Spec => []AllCurrent
<1>1. Init => AllCurrent
  BY DEF Init, AllCurrent, Complete
<1>2. IInv /\ AllCurrent /\ [Next]_vars => AllCurrent'
  <2> SUFFICES ASSUME IInv, AllCurrent, [Next]_vars PROVE AllCurrent'
    OBVIOUS
  <2>1. CASE UNCHANGED vars
    BY <2>1 DEF AllCurrent, Complete, vars, flash, ram
  <2>2. CASE Boot
    <3>1. CASE Reconcile
      BY <3>1 DEF Reconcile, AllCurrent, Complete, IInv, NewOffered, flash
    <3>2. CASE LoadDefaults \/ LoadRecord \/ ConsoleInit
      BY <3>2 DEF LoadDefaults, LoadRecord, ConsoleInit, AllCurrent, Complete, flash, Readable
    <3> QED
      BY <2>2, <3>1, <3>2 DEF Boot, MigrateUnlink, MigrateOpen, MigrateWrite, AllCurrent
  <2>3. ASSUME NEW t \in Tasks, Console(t) \/ Save(t) \/ SystemReset(t) PROVE AllCurrent'
    <3>1. phase' \in {phase, "boot"}
      BY <2>3 DEF Console, SetField, ConfigReset, ConfigRevert, Commit, Save,
         SaveUnlink, SaveOpen, SaveWrite, SaveVerify, SaveRename, SaveCleanup, Acknowledge,
         SystemReset, Restart
    <3>2. CASE SaveRename(t)
      <4>1. bin' \in {bin, Rec(tmp[t])}
        BY <3>2 DEF SaveRename, Goto, flash, IInv, RenameVerified
      <4> QED
        BY <3>1, <4>1 DEF AllCurrent, Complete, Rec
    <3>3. CASE ~SaveRename(t)
      <4>1. bin' = bin
        BY <2>3, <3>3 DEF Console, SetField, ConfigReset, ConfigRevert, Commit, Save,
           SaveUnlink, SaveOpen, SaveWrite, SaveVerify, SaveCleanup, Acknowledge,
           SystemReset, Restart, flash
      <4> QED
        BY <3>1, <4>1 DEF AllCurrent, Complete
    <3> QED
      BY <3>2, <3>3
  <2>4. CASE PowerLoss
    BY <2>4 DEF PowerLoss, Restart, flash, AllCurrent, Complete
  <2> QED
    BY <2>1, <2>2, <2>3, <2>4 DEF Next
<1> QED
  BY <1>1, <1>2, Inductive, PTL DEF Spec

LEMMA RecoverableUnchanged ==
    ASSUME UNCHANGED flash PROVE Recoverable' = Recoverable
BY DEF flash, Recoverable, Readable, Complete

\* The offers change in a commit, in an acknowledgement, or in a migration.
LEMMA SinceWritten ==
    ASSUME Next, since' # since
    PROVE  MigrateUnlink \/ \E t \in Tasks : Commit(t) \/ Acknowledge(t)
BY DEF Next, Boot, Reconcile, LoadDefaults, LoadRecord, MigrateOpen, MigrateWrite, ConsoleInit,
   Console, SetField, ConfigReset, ConfigRevert, Save, SaveUnlink, SaveOpen, SaveWrite,
   SaveVerify, SaveRename, SaveCleanup, SystemReset, PowerLoss, history

\* The two files and the steps of save() implement one configuration that is
\* replaced atomically, on every node that never held an old record.
THEOREM Refinement ==
    ASSUME Environment, FieldedSchemas \subseteq {3} PROVE Spec => Atomic
<1>0. (IInv => Durable)'
  BY IInvDurable, PTL
<1>1. IInv /\ Init => Abstract!Init
  BY IInvDurable DEF Durable, Init, Abstract!Init, Abstract!Outcomes, IInv, TypeOK
<1>2. IInv /\ AllCurrent /\ IInv' /\ [Next]_vars => [Abstract!Next]_<<Recoverable, since>>
  <2> SUFFICES ASSUME IInv, AllCurrent, IInv', [Next]_vars,
                      <<Recoverable, since>>' # <<Recoverable, since>>
               PROVE  Abstract!Next
    OBVIOUS
  <2>1. Recoverable \in since /\ Recoverable' \in since'
    BY <1>0, IInvDurable DEF Durable
  <2>2. CASE UNCHANGED vars
    BY <2>2, RecoverableUnchanged DEF vars, history, flash
  <2>3. CASE Next /\ since' = since
    <3>1. Recoverable' \in Abstract!Outcomes
      BY <2>1, <2>3 DEF IInv, TypeOK, Abstract!Outcomes
    <3>2. Abstract!Settle(Recoverable')
      BY <2>1, <2>3 DEF Abstract!Settle
    <3> QED
      BY <3>1, <3>2 DEF Abstract!Next
  <2>4. ASSUME NEW t \in Tasks, Commit(t) PROVE Abstract!Next
    <3>1. Recoverable' = Recoverable
      BY <2>4, RecoverableUnchanged DEF Commit
    <3>2. PICK c \in Config : since' = since \cup {c}
      BY <2>4 DEF Commit, IInv, TypeOK
    <3>3. Abstract!Offer(c)
      BY <3>1, <3>2 DEF Abstract!Offer
    <3> QED
      BY <3>2, <3>3 DEF Abstract!Next
  <2>5. ASSUME NEW t \in Tasks, Acknowledge(t) PROVE Abstract!Next
    <3>1. Recoverable' = Recoverable
      BY <2>5, RecoverableUnchanged DEF Acknowledge
    <3>2. since' \in SUBSET (since \cap Config)
      BY <2>5 DEF Acknowledge, IInv, TypeOK, TmpOffered
    <3>3. Abstract!Acknowledge(since')
      BY <2>1, <3>1 DEF Abstract!Acknowledge
    <3> QED
      BY <3>2, <3>3 DEF Abstract!Next
  <2> QED
    BY <2>2, <2>3, <2>4, <2>5, SinceWritten DEF AllCurrent, MigrateUnlink
<1>3. Init => IInv
  BY InitIInv
<1> QED
  BY <1>1, <1>2, <1>3, Inductive, AllCurrentHolds, PTL DEF Spec, Atomic, Abstract!Spec

=============================================================================
