--------------------------- MODULE StoreMigration ---------------------------
(***************************************************************************)
(* Opening the result store: ResultStore._migrate of                       *)
(* rag_crucible/runner/store.py, run by every process that uses the store. *)
(* A process reads the schema version without a lock, and if it is not the *)
(* latest takes the write lock, reads again, and creates or upgrades the   *)
(* tables statement by statement in one transaction.                       *)
(*                                                                         *)
(* The file is a record: its version, its tables, which of them have the   *)
(* columns of version 1, and the rows of metrics and of the table that     *)
(* migration 0 builds beside it.  The indexes are left out.                *)
(***************************************************************************)
EXTENDS Integers

CONSTANTS
  Openers,     \* API, workers and commands
  RowIds,      \* metric rows the store may hold
  MaxFaults,   \* bound: crashes and failed statements
  NoOne        \* the holder of a free write lock

ASSUME ConstantsAssumption == MaxFaults \in Nat /\ NoOne \notin Openers

STORE_SCHEMA_VERSION == 1
LegacyTables == {"runs", "suite_results", "metrics", "records", "stage_timings"}
Tables == LegacyTables \cup {"metrics_v1"}
\* A row of an old store has a value and no state; the value may be infinite.
RowStates == {"none", "bare", "infinite", "measured", "unmeasured"}

Files == [version : -1..2, tables : SUBSET Tables, columns : SUBSET {"metrics", "records"},
          rows : [RowIds -> RowStates], copy : [RowIds -> RowStates]]

NoRows == [r \in RowIds |-> "none"]
Empty == [version |-> 0, tables |-> {}, columns |-> {}, rows |-> NoRows, copy |-> NoRows]

\* What a path may lead to: nothing yet, a store of before versioning, one of
\* this version, one of a later or an unknown version, or part of a store.
LegacyStores ==
  {[Empty EXCEPT !.tables = LegacyTables, !.rows = f] :
     f \in [RowIds -> {"none", "bare", "infinite"}]}
CurrentStores ==
  {[version |-> 1, tables |-> LegacyTables, columns |-> {"metrics", "records"},
    rows |-> f, copy |-> NoRows] : f \in [RowIds -> {"none", "measured", "unmeasured"}]}
AlienFiles ==
  {[Empty EXCEPT !.version = 2, !.tables = LegacyTables,
                 !.columns = {"metrics", "records"}],
   [Empty EXCEPT !.version = -1],
   [Empty EXCEPT !.tables = {"runs"}]}

Refusals == {"newer", "unknown", "incomplete", "infinite"}
Locked == {"check", "steps"}
Opening == {"look", "begin"} \cup Locked
Ended == Refusals \cup {"readonly", "busy", "failed"}

VARIABLES
  db,        \* the file, as everyone sees it
  writable,  \* whether the file may be written
  lock,      \* who has the write lock
  work,      \* the transaction of who has it
  step,      \* statements it has executed
  pc,        \* where each process is in _migrate, or how that ended
  faults

vars == <<db, writable, lock, work, step, pc, faults>>

TypeOK ==
  /\ db \in Files /\ work \in Files
  /\ writable \in BOOLEAN
  /\ lock \in Openers \cup {NoOne}
  /\ step \in 0..5
  /\ pc \in [Openers -> {"closed", "open"} \cup Opening \cup Ended]
  /\ faults \in 0..MaxFaults

Init ==
  /\ db \in {Empty} \cup LegacyStores \cup CurrentStores \cup AlienFiles
  /\ writable \in BOOLEAN
  /\ lock = NoOne
  /\ work = Empty
  /\ step = 0
  /\ pc = [p \in Openers |-> "closed"]
  /\ faults = 0

Goto(p, phase) == pc' = [pc EXCEPT ![p] = phase]

\* COMMIT, ROLLBACK, or the end of the process.
Release == lock' = NoOne /\ work' = Empty /\ step' = 0

Open(p) ==
  /\ pc[p] = "closed"
  /\ Goto(p, "look")
  /\ UNCHANGED <<db, writable, lock, work, step, faults>>

\* Mutant: any version that has been migrated will do.
MutLook(p) ==
  /\ pc[p] = "look"
  /\ Goto(p, IF db.version >= STORE_SCHEMA_VERSION THEN "open" ELSE "begin")
  /\ UNCHANGED <<db, writable, lock, work, step, faults>>

\* The common case takes no lock.
Look(p) ==
  /\ pc[p] = "look"
  /\ Goto(p, IF db.version = STORE_SCHEMA_VERSION THEN "open" ELSE "begin")
  /\ UNCHANGED <<db, writable, lock, work, step, faults>>

\* BEGIN IMMEDIATE gets the write lock, ...
Begin(p) ==
  /\ pc[p] = "begin"
  /\ writable
  /\ lock = NoOne
  /\ lock' = p
  /\ work' = db
  /\ Goto(p, "check")
  /\ UNCHANGED <<db, writable, step, faults>>

\* Mutant: the error of SQLite is handed on as it is.
MutCannotBegin(p) ==
  /\ pc[p] = "begin"
  /\ ~writable \/ lock # NoOne
  /\ Goto(p, "locked")
  /\ UNCHANGED <<db, writable, lock, work, step, faults>>

\* ... or raises: the file is read-only, or the wait for another process ends.
CannotBegin(p) ==
  /\ pc[p] = "begin"
  /\ \/ ~writable /\ Goto(p, "readonly")
     \/ writable /\ lock # NoOne /\ Goto(p, "busy")
  /\ UNCHANGED <<db, writable, lock, work, step, faults>>

\* A metric value that today's Metric would refuse to read back.
NonFinite(d) == \E r \in RowIds : d.rows[r] = "infinite"

\* What the second look at the store, with the lock held, refuses it for.
Refused(d) ==
  {v \in Refusals :
     \/ v = "newer" /\ d.version > STORE_SCHEMA_VERSION
     \/ v = "unknown" /\ d.version < 0
     \/ v = "incomplete" /\ d.version = 0 /\ d.tables # {} /\ ~(LegacyTables \subseteq d.tables)
     \/ v = "infinite" /\ d.version = 0 /\ LegacyTables \subseteq d.tables /\ NonFinite(d)}

Check(p) ==
  /\ pc[p] = "check"
  /\ \/ \E v \in Refused(work) : Goto(p, v) /\ Release
     \/ Refused(work) = {} /\ Goto(p, "steps") /\ UNCHANGED <<lock, work, step>>
  /\ UNCHANGED <<db, writable, faults>>

\* Mutant: the version read before the lock decides.
MutPlan(d) == IF d.tables = {} THEN "create" ELSE "upgrade"

\* Which statements are run: those of the latest schema, those of the migrations
\* the store is behind on, or none when another process has run them meanwhile.
Plan(d) ==
  IF d.tables = {} THEN "create"
  ELSE IF d.version = 0 THEN "upgrade" ELSE "none"

Schema == <<"runs", "suite_results", "metrics", "records", "stage_timings">>
Length(plan) == IF plan = "none" THEN 0 ELSE 5

Copied(f) == [r \in RowIds |-> IF f[r] = "none" THEN "none" ELSE "measured"]

\* Whether SQLite accepts statement n, by the tables and the CHECKs of metrics_v1.
Accepted(plan, n, d) ==
  IF plan = "create" THEN Schema[n] \notin d.tables
  ELSE CASE n = 1 -> "metrics_v1" \notin d.tables
         [] n = 2 -> \A r \in RowIds : d.rows[r] \notin {"infinite", "unmeasured"}
         [] n = 3 -> "metrics" \in d.tables
         [] n = 4 -> "metrics_v1" \in d.tables /\ "metrics" \notin d.tables
         [] n = 5 -> "records" \notin d.columns

With(d, tables, columns, rows, copy) ==
  [version |-> d.version, tables |-> tables, columns |-> columns, rows |-> rows,
   copy |-> copy]

\* What it does to the file.
Effect(plan, n, d) ==
  IF plan = "create"
  THEN With(d, d.tables \cup {Schema[n]},
            d.columns \cup ({Schema[n]} \cap {"metrics", "records"}), d.rows, d.copy)
  ELSE CASE n = 1 -> [d EXCEPT !.tables = @ \cup {"metrics_v1"}]
         [] n = 2 -> [d EXCEPT !.copy = Copied(d.rows)]
         [] n = 3 -> With(d, d.tables \ {"metrics"}, d.columns, NoRows, d.copy)
         [] n = 4 -> With(d, (d.tables \ {"metrics_v1"}) \cup {"metrics"},
                          d.columns \cup {"metrics"}, d.copy, NoRows)
         [] n = 5 -> [d EXCEPT !.columns = @ \cup {"records"}]

\* Mutant: the statements are committed as they are executed.
MutExecute(p) ==
  /\ pc[p] = "steps"
  /\ step < Length(Plan(db))
  /\ Accepted(Plan(db), step + 1, work)
  /\ work' = Effect(Plan(db), step + 1, work)
  /\ db' = work'
  /\ step' = step + 1
  /\ UNCHANGED <<writable, lock, pc, faults>>

\* A statement is executed, or SQLite refuses it and everything is rolled back.
Execute(p) ==
  /\ pc[p] = "steps"
  /\ step < Length(Plan(db))
  /\ IF Accepted(Plan(db), step + 1, work)
     THEN /\ work' = Effect(Plan(db), step + 1, work)
          /\ step' = step + 1
          /\ UNCHANGED <<lock, pc>>
     ELSE Release /\ Goto(p, "failed")
  /\ UNCHANGED <<db, writable, faults>>

\* PRAGMA user_version, and COMMIT.
Commit(p) ==
  /\ pc[p] = "steps"
  /\ step = Length(Plan(db))
  /\ db' = [work EXCEPT !.version = STORE_SCHEMA_VERSION]
  /\ Release
  /\ Goto(p, "open")
  /\ UNCHANGED <<writable, faults>>

\* An operation on an open store, save_result for one: a transaction of its own.
Write(p, r, s) ==
  /\ pc[p] = "open"
  /\ writable /\ lock = NoOne
  /\ db.rows[r] = "none"
  /\ db' = [db EXCEPT !.rows[r] = s]
  /\ UNCHANGED <<writable, lock, work, step, pc, faults>>

\* The process exits, or is done with the error it got.
Leave(p) ==
  /\ pc[p] \in {"open"} \cup Ended
  /\ Goto(p, "closed")
  /\ UNCHANGED <<db, writable, lock, work, step, faults>>

\* A statement fails for want of space, or the process is killed: in both cases
\* the transaction is rolled back.
Fault(p) ==
  /\ faults < MaxFaults
  /\ faults' = faults + 1
  /\ \/ /\ pc[p] \in Locked
        /\ \E end \in {"failed", "closed"} : Goto(p, end)
        /\ Release
     \/ /\ pc[p] \in {"look", "begin"}
        /\ Goto(p, "closed")
        /\ UNCHANGED <<lock, work, step>>
  /\ UNCHANGED <<db, writable>>

Migrate(p) ==
  Open(p) \/ Look(p) \/ Begin(p) \/ CannotBegin(p) \/ Check(p) \/ Execute(p) \/ Commit(p)

Next ==
  \E p \in Openers :
    \/ Migrate(p) \/ Leave(p) \/ Fault(p)
    \/ \E r \in RowIds, s \in {"measured", "unmeasured"} : Write(p, r, s)

Spec == Init /\ [][Next]_vars

-----------------------------------------------------------------------------
(* Properties.                                                             *)

\* Whoever has the store open works on one that is complete: this version, its
\* tables and columns and nothing of a migration half done, and rows that today's
\* Metric can read back.
OpenIsCurrent ==
  \A p \in Openers : pc[p] = "open" =>
    /\ db.version = STORE_SCHEMA_VERSION
    /\ db.tables = LegacyTables /\ db.columns = {"metrics", "records"}
    /\ \A r \in RowIds : db.rows[r] \notin {"bare", "infinite"}

\* A process that is turned away is told why, and the reason still holds, however
\* many others open, upgrade and use the store meanwhile; nobody fails on a store
\* another process has just upgraded.
RefusedForCause ==
  \A p \in Openers :
    /\ pc[p] \in Refusals => pc[p] \in Refused(db)
    /\ pc[p] = "readonly" => ~writable /\ db.version # STORE_SCHEMA_VERSION
    /\ pc[p] = "failed" => faults > 0

\* Under concurrent openers, crashes and failed statements a store is upgraded
\* once and atomically, keeping its rows and those written since.
Upgrading == INSTANCE StoreUpgrade WITH
  Users <- Openers,
  form <- IF db.version = STORE_SCHEMA_VERSION THEN "current"
          ELSE IF db.version = 0 /\ db.tables = {} THEN "empty"
          ELSE IF db.version = 0 /\ LegacyTables \subseteq db.tables THEN "legacy"
          ELSE "alien",
  rows <- db.rows,
  handle <- [p \in Openers |-> IF pc[p] = "open" THEN "open"
                               ELSE IF pc[p] \in Refusals THEN "refused" ELSE "closed"]
UpgradeSpec == Upgrading!Spec
=============================================================================
