----------------------------- MODULE StateStore -----------------------------
(***************************************************************************)
(* The database as src/scripts/backup_state.py saves it and                *)
(* src/scripts/restore_state.py puts it back, under the audit log.         *)
(* External: SQLite's backup copies the committed state; a transaction     *)
(* that is killed leaves a rollback journal beside the file, which the     *)
(* next process to open the file plays back into whatever file is there.   *)
(* The operator restores the default target, without --allow-running, and  *)
(* does not start the service during a restore.                            *)
(***************************************************************************)
EXTENDS AuditLog, FiniteSets

CONSTANT MaxBackups  \* bound on the backups taken

ASSUME BackupAssumption == MaxBackups \in Nat

VARIABLES
    journal,   \* the rollback journal beside trader.db: none, its own, another's
    whole,     \* is trader.db one committed state, not a mixture or damaged?
    archives,  \* backup archives: their database, and is it undamaged?
    restore    \* the restore: step, the archive it has read, its copy of the target

storeVars == <<journal, whole, archives, restore>>

NoRestore == [step |-> "idle"]
Database == [records |-> records, chain |-> chain, order |-> order, altered |-> altered,
             lost |-> lost \cup {s \in Statuses : \E w \in Writers : Owes(w, s)}]

StoreTypeOK ==
    /\ journal \in {"none", "own", "foreign"} /\ whole \in BOOLEAN
    /\ restore.step \in {"idle", "copy", "replace"}

StoreInit ==
    /\ AuditInit
    /\ journal = "none"
    /\ whole = TRUE
    /\ archives = {}
    /\ restore = NoRestore

\* Opening the file plays a journal back; one that another file left behind
\* mixes the two.
PlayBack == journal' = "none" /\ whole' = (whole /\ journal # "foreign")

-----------------------------------------------------------------------------
Log(w) == Record(w) /\ UNCHANGED storeVars

\* Another process alters the chain of the running service.
AlterChain == serving /\ Alter /\ UNCHANGED storeVars

Kill ==
    /\ Stop
    /\ journal' = IF holder = {} THEN "none" ELSE "own"
    /\ UNCHANGED <<whole, archives, restore>>

Start == Serve /\ restore.step = "idle" /\ PlayBack /\ UNCHANGED <<archives, restore>>

\* backup_state.py, with the service running or not.
Backup ==
    /\ Cardinality(archives) < MaxBackups
    /\ archives' = archives \cup {[db |-> Database, sound |-> TRUE]}
    /\ IF serving THEN UNCHANGED <<journal, whole>> ELSE PlayBack
    /\ UNCHANGED <<auditVars, restore>>

\* An archive is damaged after it has been written.
Damage(a) ==
    /\ a.sound
    /\ archives' = (archives \ {a}) \cup {[a EXCEPT !.sound = FALSE]}
    /\ UNCHANGED <<auditVars, journal, whole, restore>>

\* The checks of a confirmed restore: the service's port is closed, the members
\* are there, their checksums agree and the database passes integrity_check.
RestoreReads(a) ==
    /\ restore.step = "idle" /\ ~serving /\ a.sound
    /\ restore' = [step |-> "copy", archive |-> a, copy |-> {}]
    /\ UNCHANGED <<auditVars, journal, whole, archives>>

\* Mutant: the target is not opened before it is replaced.
RestoreCopiesFile ==
    /\ restore.step = "copy"
    /\ restore' = [step |-> "replace", archive |-> restore.archive, copy |-> {Database}]
    /\ UNCHANGED <<auditVars, journal, whole, archives>>

\* The target is opened, copied and closed.
RestoreCopies ==
    /\ restore.step = "copy"
    /\ PlayBack
    /\ restore' = [step |-> "replace", archive |-> restore.archive, copy |-> {Database}]
    /\ UNCHANGED <<auditVars, archives>>

\* os.replace puts the archive's database in the place of the target.
RestoreReplaces ==
    /\ restore.step = "replace"
    /\ LET db == restore.archive.db IN
        /\ records' = db.records /\ chain' = db.chain
        /\ order' = db.order /\ altered' = db.altered /\ lost' = db.lost
    /\ whole' = restore.archive.sound
    /\ journal' = IF journal = "none" THEN "none" ELSE "foreign"
    /\ restore' = NoRestore
    /\ UNCHANGED <<serving, stops, holder, writer, archives>>

\* The script is killed.
RestoreDies ==
    /\ restore.step # "idle"
    /\ restore' = NoRestore
    /\ UNCHANGED <<auditVars, journal, whole, archives>>

StoreNext ==
    \/ AlterChain \/ Kill \/ Start \/ Backup
    \/ RestoreCopies \/ RestoreReplaces \/ RestoreDies
    \/ \E w \in Writers : Log(w)
    \/ \E a \in archives : Damage(a) \/ RestoreReads(a)

StoreSpec == StoreInit /\ [][StoreNext]_<<auditVars, storeVars>>

-----------------------------------------------------------------------------
\* Whatever is killed, damaged or restored, and in whatever order, trader.db is
\* one state the program has committed: never a damaged archive, and never a
\* restored database into which the journal of a killed transaction is played.
DatabaseWhole == whole

\* A restore never throws a database away: the one it replaces has been copied.
\* (The operator's copies are what undoes a restore of the wrong archive.)
ReplacedIsKept ==
    [][restore.step # "idle" /\ Database' # Database => Database \in restore.copy]_<<auditVars, storeVars>>

\* Backups and restores of trader.db around killed servers and scripts: the
\* database is whole, and what a restore replaces is kept.
RestoreSound == [](StoreTypeOK /\ DatabaseWhole) /\ ReplacedIsKept
=============================================================================
