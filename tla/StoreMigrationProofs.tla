------------------------ MODULE StoreMigrationProofs ------------------------
(***************************************************************************)
(* Theorems about StoreMigration, for any set of processes and any rows.   *)
(***************************************************************************)
EXTENDS StoreMigration, TLAPS

Both == {"metrics", "records"}

\* A file a path may lead to, now or after an upgrade.
GoodFile(d) ==
  /\ d \in Files
  /\ d.copy = NoRows
  /\ d.version = 1 =>
       d.tables = LegacyTables /\ d.columns = Both
       /\ \A r \in RowIds : d.rows[r] \notin {"bare", "infinite"}
  /\ d.version = 0 =>
       \/ d.tables = {} /\ d.columns = {} /\ d.rows = NoRows
       \/ d.tables = LegacyTables /\ d.columns = {}
          /\ \A r \in RowIds : d.rows[r] \notin {"measured", "unmeasured"}
       \/ d.tables # {} /\ ~(LegacyTables \subseteq d.tables)

\* The transaction after n statements of the plan for d.
Made(n) == {Schema[i] : i \in 1..n}
Partial(d, n) ==
  IF Plan(d) = "create" THEN With(d, Made(n), Made(n) \cap Both, d.rows, d.copy)
  ELSE IF Plan(d) = "upgrade"
  THEN With(d, IF n \in {1, 2} THEN Tables
                ELSE IF n = 3 THEN Tables \ {"metrics"} ELSE LegacyTables,
                IF n < 4 THEN {} ELSE IF n = 4 THEN {"metrics"} ELSE Both,
                IF n < 3 THEN d.rows ELSE IF n = 3 THEN NoRows ELSE Copied(d.rows),
                IF n \in {2, 3} THEN Copied(d.rows) ELSE NoRows)
  ELSE d

\* Only the holder of the lock is in the transaction, on a store it may write.
LockOK ==
  /\ \A p \in Openers : pc[p] \in Locked => lock = p
  /\ lock # NoOne => lock \in Openers /\ pc[lock] \in Locked /\ writable

WorkOK ==
  \A p \in Openers :
    /\ pc[p] = "check" => work = db /\ step = 0
    /\ pc[p] = "steps" =>
         /\ Refused(db) = {}
         /\ step \in 0..Length(Plan(db))
         /\ work = Partial(db, step)
    /\ lock = NoOne => step = 0

\* A store that cannot be written is as it was when it was looked at.
OpenOK ==
  \A p \in Openers :
    /\ pc[p] = "open" => db.version = 1
    /\ pc[p] = "begin" /\ ~writable => db.version # 1

Inv == TypeOK /\ GoodFile(db) /\ LockOK /\ WorkOK /\ OpenOK /\ RefusedForCause

-----------------------------------------------------------------------------
(* The statements.                                                         *)

\* A file that is not refused is empty, legacy without infinite rows, or current.
LEMMA Accepting ==
  ASSUME NEW d, GoodFile(d), Refused(d) = {}
  PROVE  \/ d.version = 0 /\ d.tables = {} /\ d.columns = {} /\ d.rows = NoRows
            /\ Plan(d) = "create"
         \/ d.version = 0 /\ d.tables = LegacyTables /\ d.columns = {}
            /\ (\A r \in RowIds : d.rows[r] \in {"none", "bare"})
            /\ Plan(d) = "upgrade"
         \/ d.version = 1 /\ d.tables = LegacyTables /\ d.columns = Both
            /\ Plan(d) = "none"
<1>1. d.version \in {0, 1}
  BY DEF Refused, NonFinite, Refusals, GoodFile, Files, STORE_SCHEMA_VERSION
<1>2. CASE d.version = 1
  BY <1>2 DEF GoodFile, Plan, LegacyTables
<1>3. CASE d.version = 0
  <2>1. ~(d.tables # {} /\ ~(LegacyTables \subseteq d.tables))
    BY <1>3 DEF Refused, NonFinite, Refusals
  <2>2. CASE d.tables = {}
    BY <1>3, <2>2 DEF GoodFile, Plan, LegacyTables
  <2>3. CASE d.tables # {}
    <3>1. d.tables = LegacyTables /\ d.columns = {}
          /\ \A r \in RowIds : d.rows[r] \notin {"measured", "unmeasured"}
      BY <1>3, <2>1, <2>3 DEF GoodFile
    <3>2. \A r \in RowIds : d.rows[r] # "infinite"
      BY <1>3, <3>1 DEF Refused, NonFinite, Refusals
    <3>3. d.rows \in [RowIds -> RowStates]
      BY DEF GoodFile, Files
    <3>4. \A r \in RowIds : d.rows[r] \in {"none", "bare"}
      BY <3>1, <3>2, <3>3 DEF RowStates
    <3> QED  BY <1>3, <2>3, <3>1, <3>4 DEF Plan
  <2> QED  BY <2>2, <2>3
<1> QED  BY <1>1, <1>2, <1>3

\* Copying keeps which rows there are.
LEMMA CopiedRows ==
  ASSUME NEW f \in [RowIds -> RowStates]
  PROVE  /\ Copied(f) \in [RowIds -> RowStates]
         /\ \A r \in RowIds : Copied(f)[r] \notin {"bare", "infinite"}
         /\ NoRows \in [RowIds -> RowStates]
BY DEF Copied, RowStates, NoRows

\* The statements of schema creation made so far.
LEMMA MadeSteps ==
  /\ Made(0) = {}
  /\ Made(5) = LegacyTables
  /\ \A n \in 0..4 : Made(n + 1) = Made(n) \cup {Schema[n + 1]} /\ Schema[n + 1] \notin Made(n)
<1>1. Schema[1] = "runs" /\ Schema[2] = "suite_results" /\ Schema[3] = "metrics"
      /\ Schema[4] = "records" /\ Schema[5] = "stage_timings"
  BY DEF Schema
<1>2. Made(0) = {}
  BY DEF Made
<1>3. \A n \in 0..4 : Made(n + 1) = Made(n) \cup {Schema[n + 1]}
  <2> SUFFICES ASSUME NEW n \in 0..4 PROVE Made(n + 1) = Made(n) \cup {Schema[n + 1]}
    OBVIOUS
  <2>1. 1..(n + 1) = (1..n) \cup {n + 1}
    OBVIOUS
  <2> QED  BY <2>1 DEF Made
<1>4. /\ Made(1) = {"runs"}
      /\ Made(2) = {"runs", "suite_results"}
      /\ Made(3) = {"runs", "suite_results", "metrics"}
      /\ Made(4) = {"runs", "suite_results", "metrics", "records"}
      /\ Made(5) = LegacyTables
  <2> HIDE DEF Made
  <2>1. Made(1) = Made(0) \cup {"runs"}  BY <1>1, <1>3, 0 + 1 = 1
  <2>2. Made(2) = Made(1) \cup {"suite_results"}  BY <1>1, <1>3, 1 + 1 = 2
  <2>3. Made(3) = Made(2) \cup {"metrics"}  BY <1>1, <1>3, 2 + 1 = 3
  <2>4. Made(4) = Made(3) \cup {"records"}  BY <1>1, <1>3, 3 + 1 = 4
  <2>5. Made(5) = Made(4) \cup {"stage_timings"}  BY <1>1, <1>3, 4 + 1 = 5
  <2> QED  BY <1>2, <2>1, <2>2, <2>3, <2>4, <2>5 DEF LegacyTables
<1>5. \A n \in 0..4 : Schema[n + 1] \notin Made(n)
  <2> SUFFICES ASSUME NEW n \in 0..4 PROVE Schema[n + 1] \notin Made(n)
    OBVIOUS
  <2>1. n = 0 \/ n = 1 \/ n = 2 \/ n = 3 \/ n = 4  OBVIOUS
  <2> QED  BY <1>1, <1>2, <1>4, <2>1
<1> QED  BY <1>2, <1>3, <1>4, <1>5

\* Each statement of the plan is accepted and leads to the next stage of it.
LEMMA Statement ==
  ASSUME NEW d, GoodFile(d), Refused(d) = {}, NEW n \in Nat, n < Length(Plan(d))
  PROVE  /\ Accepted(Plan(d), n + 1, Partial(d, n))
         /\ Effect(Plan(d), n + 1, Partial(d, n)) = Partial(d, n + 1)
<1>1. n \in 0..4 /\ Plan(d) # "none"
  BY DEF Length, Plan
<1>2. /\ d \in Files
      /\ d = [version |-> d.version, tables |-> d.tables, columns |-> d.columns,
              rows |-> d.rows, copy |-> d.copy]
      /\ d.copy = NoRows
  BY DEF GoodFile, Files
<1>3. CASE Plan(d) = "create"
  <2>1. Partial(d, n) = With(d, Made(n), Made(n) \cap Both, d.rows, d.copy)
    BY <1>3 DEF Partial
  <2>2. Partial(d, n + 1) = With(d, Made(n + 1), Made(n + 1) \cap Both, d.rows, d.copy)
    BY <1>3 DEF Partial
  <2>3. Partial(d, n).tables = Made(n) /\ Partial(d, n).columns = Made(n) \cap Both
    BY <2>1 DEF With
  <2>4. Accepted(Plan(d), n + 1, Partial(d, n))
    BY <1>1, <1>3, <2>3, MadeSteps DEF Accepted
  <2>5. Made(n + 1) = Made(n) \cup {Schema[n + 1]}
    BY <1>1, MadeSteps
  <2>6. Made(n + 1) \cap Both = (Made(n) \cap Both) \cup ({Schema[n + 1]} \cap Both)
    BY <2>5
  <2>7. Effect(Plan(d), n + 1, Partial(d, n)) =
          With(Partial(d, n), Made(n) \cup {Schema[n + 1]},
               (Made(n) \cap Both) \cup ({Schema[n + 1]} \cap Both),
               Partial(d, n).rows, Partial(d, n).copy)
    BY <1>3, <2>3 DEF Effect, Both
  <2>8. Effect(Plan(d), n + 1, Partial(d, n)) =
          With(d, Made(n) \cup {Schema[n + 1]},
                (Made(n) \cap Both) \cup ({Schema[n + 1]} \cap Both), d.rows, d.copy)
    BY <2>1, <2>3, <2>7 DEF With
  <2> QED  BY <2>2, <2>4, <2>5, <2>6, <2>8
<1>4. CASE Plan(d) = "upgrade"
  <2>1. /\ d.tables = LegacyTables /\ d.columns = {}
        /\ \A r \in RowIds : d.rows[r] \in {"none", "bare"}
    BY <1>4, Accepting
  <2>2. n = 0 \/ n = 1 \/ n = 2 \/ n = 3 \/ n = 4
    BY <1>1
  <2>3. /\ LegacyTables \cup {"metrics_v1"} = Tables
        /\ ((Tables \ {"metrics"}) \ {"metrics_v1"}) \cup {"metrics"} = LegacyTables
        /\ "metrics_v1" \notin LegacyTables /\ "metrics" \in Tables
        /\ {} \cup {"metrics"} = {"metrics"} /\ {"metrics"} \cup {"records"} = Both
        /\ "records" \notin {"metrics"} /\ "metrics_v1" \in Tables \ {"metrics"}
    <3>1. Tables \ {"metrics"} = {"runs", "suite_results", "records", "stage_timings",
                                "metrics_v1"}
      BY DEF LegacyTables, Tables
    <3> QED  BY <3>1 DEF LegacyTables, Tables, Both
  <2>4. /\ Partial(d, 0) = With(d, LegacyTables, {}, d.rows, NoRows)
        /\ Partial(d, 1) = With(d, Tables, {}, d.rows, NoRows)
        /\ Partial(d, 2) = With(d, Tables, {}, d.rows, Copied(d.rows))
        /\ Partial(d, 3) = With(d, Tables \ {"metrics"}, {}, NoRows, Copied(d.rows))
        /\ Partial(d, 4) = With(d, LegacyTables, {"metrics"}, Copied(d.rows), NoRows)
        /\ Partial(d, 5) = With(d, LegacyTables, Both, Copied(d.rows), NoRows)
    <3>1. ~(0 \in {1, 2}) /\ ~(3 \in {1, 2}) /\ ~(4 \in {1, 2}) /\ ~(5 \in {1, 2})
      OBVIOUS
    <3>2. ~(0 \in {2, 3}) /\ ~(1 \in {2, 3}) /\ ~(4 \in {2, 3}) /\ ~(5 \in {2, 3})
      OBVIOUS
    <3> QED  BY <1>4, <3>1, <3>2 DEF Partial
  <2>5. /\ 0 + 1 = 1 /\ 1 + 1 = 2 /\ 2 + 1 = 3 /\ 3 + 1 = 4 /\ 4 + 1 = 5
    OBVIOUS
  <2>6. Plan(d) # "create"
    BY <1>4
  <2>7. CASE n = 0
    BY <2>3, <2>4, <2>5, <2>6, <2>7 DEF Accepted, Effect, With
  <2>8. CASE n = 1
    BY <2>1, <2>3, <2>4, <2>5, <2>6, <2>8 DEF Accepted, Effect, With
  <2>9. CASE n = 2
    <3>1. Partial(d, n) = With(d, Tables, {}, d.rows, Copied(d.rows)) /\ n + 1 = 3
      BY <2>4, <2>9
    <3>2. "metrics" \in Partial(d, n).tables
      BY <2>3, <3>1 DEF With
    <3>3. Accepted(Plan(d), 3, Partial(d, n))
      BY <2>6, <3>2 DEF Accepted
    <3>4. Effect(Plan(d), 3, Partial(d, n)) =
            With(Partial(d, n), Partial(d, n).tables \ {"metrics"}, Partial(d, n).columns,
                 NoRows, Partial(d, n).copy)
      BY <2>6 DEF Effect
    <3>5. Effect(Plan(d), 3, Partial(d, n)) =
            With(d, Tables \ {"metrics"}, {}, NoRows, Copied(d.rows))
      BY <3>1, <3>4 DEF With
    <3> QED  BY <2>4, <3>1, <3>3, <3>5
  <2>10. CASE n = 3
    <3>1. /\ Partial(d, n) = With(d, Tables \ {"metrics"}, {}, NoRows, Copied(d.rows))
          /\ n + 1 = 4
      BY <2>4, <2>10
    <3>2. "metrics_v1" \in Partial(d, n).tables /\ "metrics" \notin Partial(d, n).tables
      BY <2>3, <3>1 DEF With
    <3>3. Accepted(Plan(d), 4, Partial(d, n))
      BY <2>6, <3>2 DEF Accepted
    <3>4. Effect(Plan(d), 4, Partial(d, n)) =
            With(Partial(d, n), (Partial(d, n).tables \ {"metrics_v1"}) \cup {"metrics"},
                 Partial(d, n).columns \cup {"metrics"}, Partial(d, n).copy, NoRows)
      BY <2>6 DEF Effect
    <3>5. Effect(Plan(d), 4, Partial(d, n)) =
            With(d, ((Tables \ {"metrics"}) \ {"metrics_v1"}) \cup {"metrics"},
                  {} \cup {"metrics"}, Copied(d.rows), NoRows)
      BY <3>1, <3>4 DEF With
    <3> QED  BY <2>3, <2>4, <3>1, <3>3, <3>5
  <2>11. CASE n = 4
    BY <2>3, <2>4, <2>5, <2>6, <2>11 DEF Accepted, Effect, With
  <2> QED  BY <2>2, <2>7, <2>8, <2>9, <2>10, <2>11
<1> QED  BY <1>1, <1>3, <1>4 DEF Plan

\* A transaction begins with the file as it is.
LEMMA Begun == ASSUME NEW d, GoodFile(d), Refused(d) = {} PROVE Partial(d, 0) = d
<1>1. d = With(d, d.tables, d.columns, d.rows, d.copy) /\ d.copy = NoRows
  BY DEF GoodFile, Files, With
<1>2. CASE Plan(d) = "create"
  <2>1. d.tables = {} /\ d.columns = {}
    BY <1>2, Accepting
  <2>2. Partial(d, 0) = With(d, {}, {}, d.rows, d.copy)
    BY <1>2, MadeSteps DEF Partial
  <2> QED  BY <1>1, <2>1, <2>2
<1>3. CASE Plan(d) = "upgrade"
  <2>1. d.tables = LegacyTables /\ d.columns = {}
    BY <1>3, Accepting
  <2>2. ~(0 \in {1, 2}) /\ ~(0 \in {2, 3})
    OBVIOUS
  <2>3. Partial(d, 0) = With(d, LegacyTables, {}, d.rows, NoRows)
    BY <1>3, <2>2 DEF Partial
  <2> QED  BY <1>1, <2>1, <2>3
<1>4. CASE Plan(d) = "none"
  BY <1>4 DEF Partial
<1> QED  BY <1>2, <1>3, <1>4 DEF Plan

\* Every stage is a file.
LEMMA PartialFiles ==
  ASSUME NEW d, GoodFile(d), NEW n \in 0..5 PROVE Partial(d, n) \in Files
<1>1. d \in Files /\ d.rows \in [RowIds -> RowStates] /\ d.version \in -1..2
      /\ NoRows \in [RowIds -> RowStates] /\ d.copy \in [RowIds -> RowStates]
  BY DEF GoodFile, Files, NoRows, RowStates
<1>2. Made(n) \subseteq LegacyTables /\ LegacyTables \subseteq Tables
  BY DEF Made, Schema, LegacyTables, Tables
<1>3. CASE Plan(d) = "create"
  BY <1>1, <1>2, <1>3 DEF Partial, With, Files, Both
<1>4. CASE Plan(d) = "upgrade"
  <2>1. Copied(d.rows) \in [RowIds -> RowStates]
    BY <1>1, CopiedRows
  <2>2. n \in {0, 1, 2, 3, 4, 5} /\ Tables \ {"metrics"} \subseteq Tables
    OBVIOUS
  <2> QED  BY <1>1, <1>2, <1>4, <2>1, <2>2 DEF Partial, With, Files, Both
<1>5. CASE Plan(d) = "none"
  BY <1>1, <1>5 DEF Partial
<1> QED  BY <1>3, <1>4, <1>5 DEF Plan

\* What COMMIT writes is a current store with the rows there were.
LEMMA Committed ==
  ASSUME NEW d, GoodFile(d), Refused(d) = {},
         NEW w, w = Partial(d, Length(Plan(d))),
         NEW e, e = [w EXCEPT !.version = STORE_SCHEMA_VERSION]
  PROVE  /\ GoodFile(e) /\ e.version = 1
         /\ e.rows = IF Plan(d) = "upgrade" THEN Copied(d.rows) ELSE d.rows
<1>1. /\ d \in Files /\ d.copy = NoRows
      /\ d = [version |-> d.version, tables |-> d.tables, columns |-> d.columns,
              rows |-> d.rows, copy |-> d.copy]
  BY DEF GoodFile, Files
<1>2. d.rows \in [RowIds -> RowStates]
  BY <1>1 DEF Files
<1>3. CASE Plan(d) = "create"
  <2>1. e = [version |-> 1, tables |-> LegacyTables, columns |-> Both, rows |-> d.rows,
             copy |-> NoRows]
    <3>1. Made(5) = LegacyTables /\ LegacyTables \cap Both = Both
      BY MadeSteps DEF LegacyTables, Both
    <3>2. Partial(d, 5) = With(d, LegacyTables, Both, d.rows, d.copy)
      BY <1>3, <3>1 DEF Partial
    <3> QED  BY <1>1, <1>3, <3>2 DEF Length, With, STORE_SCHEMA_VERSION
  <2>2. d.rows = NoRows
    BY <1>3, Accepting
  <2> QED  BY <1>2, <1>3, <2>1, <2>2 DEF GoodFile, Files, NoRows, Tables, Both
<1>4. CASE Plan(d) = "upgrade"
  <2>1. e = [version |-> 1, tables |-> LegacyTables, columns |-> Both,
             rows |-> Copied(d.rows), copy |-> NoRows]
    BY <1>1, <1>4 DEF Partial, With, Length, STORE_SCHEMA_VERSION
  <2> QED  BY <1>2, <1>4, <2>1, CopiedRows DEF GoodFile, Files, Tables, Both
<1>5. CASE Plan(d) = "none"
  <2>1. d.version = 1
    BY <1>5, Accepting
  <2>2. e = d
    BY <1>1, <1>5, <2>1 DEF Partial, STORE_SCHEMA_VERSION
  <2> QED  BY <1>5, <2>1, <2>2
<1> QED  BY <1>3, <1>4, <1>5 DEF Plan

-----------------------------------------------------------------------------
(* The inductive invariant.                                                *)

\* The files a path may lead to at first.
LEMMA FirstFiles == ASSUME Init PROVE GoodFile(db)
<1>1. NoRows \in [RowIds -> RowStates]
  BY DEF NoRows, RowStates
<1>2. Empty = [version |-> 0, tables |-> {}, columns |-> {}, rows |-> NoRows,
               copy |-> NoRows]
  BY DEF Empty
<1>3. CASE db = Empty
  BY <1>1, <1>2, <1>3 DEF GoodFile, Files
<1>4. CASE db \in LegacyStores
  <2>1. PICK f \in [RowIds -> {"none", "bare", "infinite"}] :
          db = [Empty EXCEPT !.tables = LegacyTables, !.rows = f]
    BY <1>4 DEF LegacyStores
  <2>2. db = [version |-> 0, tables |-> LegacyTables, columns |-> {}, rows |-> f,
              copy |-> NoRows]
    BY <1>2, <2>1
  <2>3. f \in [RowIds -> RowStates] /\ \A r \in RowIds : f[r] \notin {"measured", "unmeasured"}
    BY DEF RowStates
  <2> QED  BY <1>1, <2>2, <2>3 DEF GoodFile, Files, Tables
<1>5. CASE db \in CurrentStores
  <2>1. PICK f \in [RowIds -> {"none", "measured", "unmeasured"}] :
          db = [version |-> 1, tables |-> LegacyTables, columns |-> Both, rows |-> f,
                copy |-> NoRows]
    BY <1>5 DEF CurrentStores, Both
  <2>2. f \in [RowIds -> RowStates] /\ \A r \in RowIds : f[r] \notin {"bare", "infinite"}
    BY DEF RowStates
  <2> QED  BY <1>1, <2>1, <2>2 DEF GoodFile, Files, Tables, Both
<1>6. CASE db \in AlienFiles
  <2>1. \/ db = [version |-> 2, tables |-> LegacyTables, columns |-> Both,
                 rows |-> NoRows, copy |-> NoRows]
        \/ db = [version |-> -1, tables |-> {}, columns |-> {}, rows |-> NoRows,
                 copy |-> NoRows]
        \/ db = [version |-> 0, tables |-> {"runs"}, columns |-> {}, rows |-> NoRows,
                 copy |-> NoRows]
    BY <1>2, <1>6 DEF AlienFiles, Both
  <2>2. ~(LegacyTables \subseteq {"runs"})
    BY DEF LegacyTables
  <2> QED  BY <1>1, <2>1, <2>2 DEF GoodFile, Files, Tables, LegacyTables, Both
<1> QED  BY <1>3, <1>4, <1>5, <1>6 DEF Init

\* The invariant holds at first.
LEMMA InitInv == Init => Inv
<1> SUFFICES ASSUME Init PROVE Inv
  OBVIOUS
<1>1. GoodFile(db)
  BY FirstFiles
<1>2. Empty \in Files
  <2>1. NoRows \in [RowIds -> RowStates]
    BY DEF NoRows, RowStates
  <2> QED  BY <2>1 DEF Empty, Files
<1>3. TypeOK
  BY <1>1, <1>2, ConstantsAssumption DEF Init, TypeOK, GoodFile
<1> QED
  BY <1>1, <1>3, ConstantsAssumption
  DEF Init, Inv, LockOK, WorkOK, OpenOK, RefusedForCause, Locked, Refusals

\* A process outside the transaction goes on or ends.
LEMMA OutsideStep ==
  ASSUME Inv, NEW p \in Openers, pc[p] \notin Locked,
         UNCHANGED <<db, writable, lock, work, step>>,
         faults' \in 0..MaxFaults, faults' >= faults,
         NEW x \in {"closed", "open", "look", "begin", "readonly", "busy"}, Goto(p, x),
         x = "open" => db.version = 1,
         x = "begin" => db.version # 1,
         x = "readonly" => ~writable /\ db.version # 1
  PROVE  Inv'
<1>1. pc' = [pc EXCEPT ![p] = x] /\ x \notin Locked /\ x \notin Refusals /\ x # "failed"
  BY DEF Goto, Locked, Refusals
<1>2. Refused(db)' = Refused(db) /\ Partial(db, step)' = Partial(db, step)
      /\ Length(Plan(db))' = Length(Plan(db))
  BY DEF Refused, NonFinite, Partial, Plan
<1>3. TypeOK'
  BY <1>1 DEF Inv, TypeOK, Opening, Ended, Locked
<1>4. GoodFile(db)'
  BY DEF Inv, GoodFile
<1>5. LockOK'
  BY <1>1 DEF Inv, LockOK, TypeOK
<1>6. WorkOK'
  BY <1>1, <1>2 DEF Inv, WorkOK, TypeOK, Locked
<1>7. OpenOK'
  BY <1>1 DEF Inv, OpenOK, TypeOK
<1>8. RefusedForCause'
  BY <1>1, <1>2 DEF Inv, RefusedForCause, TypeOK, STORE_SCHEMA_VERSION
<1> QED  BY <1>3, <1>4, <1>5, <1>6, <1>7, <1>8 DEF Inv

\* The transaction is rolled back.
LEMMA RollbackStep ==
  ASSUME Inv, NEW p \in Openers, pc[p] \in Locked, Release,
         UNCHANGED <<db, writable>>,
         faults' \in 0..MaxFaults, faults' >= faults,
         NEW x \in Refusals \cup {"failed", "closed"}, Goto(p, x),
         x \in Refusals => x \in Refused(db),
         x = "failed" => faults' > 0
  PROVE  Inv'
<1>1. pc' = [pc EXCEPT ![p] = x] /\ x \notin Locked /\ x \notin {"readonly", "open", "begin"}
  BY DEF Goto, Locked, Refusals
<1>2. Refused(db)' = Refused(db)
  BY DEF Refused, NonFinite
<1>3. TypeOK'
  <2>1. Empty \in Files
    <3>1. NoRows \in [RowIds -> RowStates]
      BY DEF NoRows, RowStates
    <3> QED  BY <3>1 DEF Empty, Files
  <2> QED  BY <1>1, <2>1 DEF Inv, TypeOK, Release, Ended
<1>4. GoodFile(db)'
  BY DEF Inv, GoodFile
<1>5. \A q \in Openers : pc'[q] \notin Locked
  BY <1>1 DEF Inv, TypeOK, LockOK
<1>6. LockOK'
  BY <1>5 DEF LockOK, Release
<1>7. WorkOK'
  BY <1>5 DEF WorkOK, Release, Locked
<1>8. OpenOK'
  BY <1>1 DEF Inv, OpenOK, TypeOK
<1>9. RefusedForCause'
  BY <1>1, <1>2 DEF Inv, RefusedForCause, TypeOK
<1> QED  BY <1>3, <1>4, <1>6, <1>7, <1>8, <1>9 DEF Inv

\* A step inside the transaction.
LEMMA InsideStep ==
  ASSUME Inv, NEW p \in Openers, pc[p] \in {"begin"} \cup Locked,
         pc[p] = "begin" => lock = NoOne /\ writable,
         UNCHANGED <<db, writable, faults>>, lock' = p,
         NEW x \in Locked, Goto(p, x),
         work' \in Files, step' \in 0..5,
         x = "check" => work' = db /\ step' = 0,
         x = "steps" => Refused(db) = {} /\ step' \in 0..Length(Plan(db))
                        /\ work' = Partial(db, step')
  PROVE  Inv'
<1>1. pc' = [pc EXCEPT ![p] = x] /\ x \notin Refusals \cup {"open", "begin", "readonly", "failed"}
  BY DEF Goto, Locked, Refusals
<1>2. Refused(db)' = Refused(db) /\ Partial(db, step)' = Partial(db, step')
      /\ Length(Plan(db))' = Length(Plan(db))
  BY DEF Refused, NonFinite, Partial, Plan
<1>3. TypeOK'
  BY <1>1 DEF Inv, TypeOK, Opening
<1>4. GoodFile(db)'
  BY DEF Inv, GoodFile
<1>5. pc'[p] = x /\ \A q \in Openers : q # p => pc'[q] = pc[q] /\ pc'[q] \notin Locked
  BY <1>1, ConstantsAssumption DEF Inv, TypeOK, LockOK, Locked
<1>6. LockOK'
  BY <1>5, ConstantsAssumption DEF Inv, LockOK, Locked
<1>7. WorkOK'
  BY <1>2, <1>5, ConstantsAssumption DEF WorkOK, Locked
<1>8. OpenOK'
  BY <1>1 DEF Inv, OpenOK, TypeOK
<1>9. RefusedForCause'
  BY <1>1, <1>2 DEF Inv, RefusedForCause, TypeOK
<1> QED  BY <1>3, <1>4, <1>6, <1>7, <1>8, <1>9 DEF Inv

\* The transaction is committed.
LEMMA CommitStep == ASSUME Inv, NEW p \in Openers, Commit(p) PROVE Inv'
<1>1. /\ pc[p] = "steps" /\ pc' = [pc EXCEPT ![p] = "open"]
      /\ lock = p /\ writable /\ Refused(db) = {} /\ work = Partial(db, Length(Plan(db)))
      /\ db' = [work EXCEPT !.version = STORE_SCHEMA_VERSION]
      /\ UNCHANGED <<writable, faults>>
  BY ConstantsAssumption DEF Commit, Goto, Inv, LockOK, WorkOK, Locked
<1>2. GoodFile(db') /\ db'.version = 1
  BY <1>1, Committed DEF Inv
<1>3. TypeOK'
  <2>1. Empty \in Files
    <3>1. NoRows \in [RowIds -> RowStates]
      BY DEF NoRows, RowStates
    <3> QED  BY <3>1 DEF Empty, Files
  <2> QED  BY <1>1, <1>2, <2>1 DEF Commit, Inv, TypeOK, Release, GoodFile
<1>4. GoodFile(db)'
  BY <1>2 DEF GoodFile
<1>5. \A q \in Openers : pc'[q] \notin Locked
  BY <1>1 DEF Inv, TypeOK, LockOK, Locked
<1>6. LockOK' /\ WorkOK'
  BY <1>5 DEF Commit, Release, LockOK, WorkOK, Locked
<1>7. OpenOK'
  BY <1>1, <1>2 DEF OpenOK
<1>8. \A q \in Openers : pc[q] \notin Refusals \cup {"readonly"}
  BY <1>1 DEF Inv, RefusedForCause
<1>9. RefusedForCause'
  BY <1>1, <1>8 DEF Inv, RefusedForCause, TypeOK, Refusals
<1> QED  BY <1>3, <1>4, <1>6, <1>7, <1>9 DEF Inv

\* A row is written to an open store.
LEMMA WriteStep ==
  ASSUME Inv, NEW p \in Openers, NEW r \in RowIds, NEW s \in {"measured", "unmeasured"},
         Write(p, r, s)
  PROVE  Inv'
<1>1. /\ db.version = 1 /\ writable /\ lock = NoOne
      /\ UNCHANGED <<writable, lock, work, step, pc, faults>>
  BY DEF Write, Inv, OpenOK
<1>2. /\ db' = [db EXCEPT !.rows = [db.rows EXCEPT ![r] = s]]
      /\ db \in Files
  BY DEF Write, Inv, GoodFile
<1>3. GoodFile(db') /\ db'.version = 1
  <2>1. db' = [version |-> 1, tables |-> db.tables, columns |-> db.columns,
               rows |-> [db.rows EXCEPT ![r] = s], copy |-> db.copy]
    BY <1>1, <1>2 DEF Files
  <2>2. [db.rows EXCEPT ![r] = s] \in [RowIds -> RowStates]
    BY <1>2 DEF Files, RowStates
  <2>3. \A q \in RowIds : [db.rows EXCEPT ![r] = s][q] \notin {"bare", "infinite"}
    BY <1>1, <1>2 DEF Inv, GoodFile, Files
  <2> QED  BY <1>1, <1>2, <2>1, <2>2, <2>3 DEF Inv, GoodFile, Files
<1>4. \A q \in Openers : pc[q] \notin Locked
  BY <1>1, ConstantsAssumption DEF Inv, LockOK
<1>5. Refused(db) = {}
  BY <1>1 DEF Refused, NonFinite, STORE_SCHEMA_VERSION
<1>6. TypeOK' /\ GoodFile(db)' /\ LockOK' /\ OpenOK'
  BY <1>1, <1>3 DEF Inv, TypeOK, GoodFile, LockOK, OpenOK
<1>7. WorkOK'
  BY <1>1, <1>4 DEF Inv, WorkOK, Locked
<1>8. RefusedForCause'
  BY <1>1, <1>5 DEF Inv, RefusedForCause
<1> QED  BY <1>6, <1>7, <1>8 DEF Inv

\* Every step keeps the invariant.
LEMMA NextInv == Inv /\ [Next]_vars => Inv'
<1> SUFFICES ASSUME Inv, [Next]_vars PROVE Inv'
  OBVIOUS
<1> USE DEF STORE_SCHEMA_VERSION
<1>0. faults \in 0..MaxFaults /\ faults \in Int
  BY ConstantsAssumption DEF Inv, TypeOK
<1>1. ASSUME NEW p \in Openers, Open(p) PROVE Inv'
  BY <1>0, <1>1, OutsideStep DEF Open, Locked
<1>2. ASSUME NEW p \in Openers, Look(p) PROVE Inv'
  <2>1. CASE db.version = 1
    BY <1>0, <1>2, <2>1, OutsideStep DEF Look, Locked
  <2>2. CASE db.version # 1
    BY <1>0, <1>2, <2>2, OutsideStep DEF Look, Locked
  <2> QED  BY <2>1, <2>2
<1>3. ASSUME NEW p \in Openers, Begin(p) PROVE Inv'
  <2>1. step = 0 /\ db \in Files
    BY <1>3 DEF Begin, Inv, WorkOK, TypeOK
  <2> QED  BY <1>3, <2>1, InsideStep DEF Begin, Locked
<1>4. ASSUME NEW p \in Openers, CannotBegin(p) PROVE Inv'
  <2>1. ~writable => db.version # 1
    BY <1>4 DEF CannotBegin, Inv, OpenOK
  <2>2. CASE ~writable
    BY <1>0, <1>4, <2>1, <2>2, OutsideStep DEF CannotBegin, Locked
  <2>3. CASE writable
    BY <1>0, <1>4, <2>3, OutsideStep DEF CannotBegin, Locked
  <2> QED  BY <2>2, <2>3
<1>5. ASSUME NEW p \in Openers, Check(p) PROVE Inv'
  <2>1. work = db /\ step = 0 /\ lock = p /\ db \in Files /\ pc[p] \in Locked
    BY <1>5 DEF Check, Inv, WorkOK, LockOK, Locked, TypeOK
  <2>2. CASE \E v \in Refused(work) : Goto(p, v) /\ Release
    <3>1. PICK v \in Refused(db) : Goto(p, v) /\ Release
      BY <2>1, <2>2
    <3>2. v \in Refusals /\ v # "failed"
      BY DEF Refused, NonFinite, Refusals
    <3> QED  BY <1>0, <1>5, <2>1, <3>1, <3>2, RollbackStep DEF Check
  <2>3. CASE Refused(work) = {} /\ Goto(p, "steps") /\ UNCHANGED <<lock, work, step>>
    <3>1. Partial(db, 0) = db
      BY <2>1, <2>3, Begun DEF Inv
    <3>2. step' \in 0..Length(Plan(db)) /\ step' \in 0..5
      BY <2>1, <2>3 DEF Length
    <3> QED  BY <1>5, <2>1, <2>3, <3>1, <3>2, InsideStep DEF Check, Locked
  <2> QED  BY <1>5, <2>2, <2>3 DEF Check
<1>6. ASSUME NEW p \in Openers, Execute(p) PROVE Inv'
  <2>1. /\ pc[p] = "steps" /\ lock = p /\ Refused(db) = {} /\ GoodFile(db)
        /\ step \in 0..Length(Plan(db)) /\ work = Partial(db, step)
        /\ step < Length(Plan(db))
    BY <1>6 DEF Execute, Inv, WorkOK, LockOK, Locked
  <2>2. Length(Plan(db)) \in 0..5 /\ step \in Nat /\ step + 1 \in 0..Length(Plan(db))
        /\ step + 1 \in 0..5
    BY <2>1 DEF Length
  <2>3. /\ Accepted(Plan(db), step + 1, work)
        /\ Effect(Plan(db), step + 1, work) = Partial(db, step + 1)
    BY <2>1, <2>2, Statement
  <2>4. /\ work' = Partial(db, step + 1) /\ step' = step + 1
        /\ UNCHANGED <<lock, pc, db, writable, faults>>
    BY <1>6, <2>3 DEF Execute
  <2>5. Goto(p, "steps")
    BY <2>1, <2>4 DEF Goto, Inv, TypeOK
  <2>6. Partial(db, step + 1) \in Files
    BY <2>1, <2>2, PartialFiles
  <2> QED  BY <2>1, <2>2, <2>4, <2>5, <2>6, InsideStep DEF Locked
<1>7. ASSUME NEW p \in Openers, Commit(p) PROVE Inv'
  BY <1>7, CommitStep
<1>8. ASSUME NEW p \in Openers, NEW r \in RowIds, NEW s \in {"measured", "unmeasured"},
             Write(p, r, s)
      PROVE  Inv'
  BY <1>8, WriteStep
<1>9. ASSUME NEW p \in Openers, Leave(p) PROVE Inv'
  <2>1. pc[p] \notin Locked
    BY <1>9 DEF Leave, Ended, Locked, Refusals
  <2> QED  BY <1>0, <1>9, <2>1, OutsideStep DEF Leave
<1>10. ASSUME NEW p \in Openers, Fault(p) PROVE Inv'
  <2>1. faults' \in 0..MaxFaults /\ faults' >= faults /\ faults' > 0
    BY <1>0, <1>10, ConstantsAssumption DEF Fault
  <2>2. CASE pc[p] \in Locked
    <3>1. PICK end \in {"failed", "closed"} : Goto(p, end) /\ Release
      BY <1>10, <2>2 DEF Fault, Locked
    <3> QED  BY <1>10, <2>1, <2>2, <3>1, RollbackStep DEF Fault, Refusals
  <2>3. CASE pc[p] \notin Locked
    BY <1>10, <2>1, <2>3, OutsideStep DEF Fault, Locked
  <2> QED  BY <2>2, <2>3
<1>11. CASE UNCHANGED vars
  BY <1>11
  DEF vars, Inv, TypeOK, GoodFile, LockOK, WorkOK, OpenOK, RefusedForCause, Refused,
      NonFinite, Partial, Plan
<1> QED
  BY <1>1, <1>2, <1>3, <1>4, <1>5, <1>6, <1>7, <1>8, <1>9, <1>10, <1>11 DEF Next, Migrate

\* The invariant holds in every reachable state.
LEMMA Invariant == Spec => []Inv
  BY InitInv, NextInv, PTL DEF Spec

-----------------------------------------------------------------------------
(* The theorems.                                                           *)

\* The file and the transaction on it are stores at every moment, whatever
\* processes open it and however they end.
THEOREM TypeCorrect == Spec => []TypeOK
  BY Invariant, PTL DEF Inv

\* A process has the store open only when it is complete, of this version and
\* with rows that can be read back.
THEOREM OpenStoresAreCurrent == Spec => []OpenIsCurrent
<1>1. Inv => OpenIsCurrent
  BY DEF Inv, OpenOK, GoodFile, OpenIsCurrent, Both, STORE_SCHEMA_VERSION
<1> QED  BY <1>1, Invariant, PTL

\* A process is refused for what the store holds, as long as it is refused, and
\* no process fails without a fault.
THEOREM RefusalsHaveACause == Spec => []RefusedForCause
  BY Invariant, PTL DEF Inv

-----------------------------------------------------------------------------
(* The refinement.                                                         *)

Form ==
  IF db.version = STORE_SCHEMA_VERSION THEN "current"
  ELSE IF db.version = 0 /\ db.tables = {} THEN "empty"
  ELSE IF db.version = 0 /\ LegacyTables \subseteq db.tables THEN "legacy"
  ELSE "alien"
Handle ==
  [p \in Openers |-> IF pc[p] = "open" THEN "open"
                     ELSE IF pc[p] \in Refusals THEN "refused" ELSE "closed"]

\* A step that leaves the file alone and takes process p somewhere else.
LEMMA MoveMaps ==
  ASSUME Inv, NEW p \in Openers, NEW x, pc' = [pc EXCEPT ![p] = x], db' = db,
         x = "open" => db.version = 1,
         x \in Refusals => x \in Refused(db)
  PROVE  Upgrading!Next \/ UNCHANGED Upgrading!vars
<1>1. Form' = Form
  BY DEF Form
<1>2. Handle' = [Handle EXCEPT ![p] = IF x = "open" THEN "open"
                                      ELSE IF x \in Refusals THEN "refused" ELSE "closed"]
  BY DEF Handle, Inv, TypeOK
<1>3. CASE x = "open"
  <2>1. Form = "current"
    BY <1>3 DEF Form, STORE_SCHEMA_VERSION
  <2>2. Upgrading!Use(p)
    BY <1>1, <1>2, <1>3, <2>1 DEF Upgrading!Use, Form, Handle
  <2> QED  BY <2>2 DEF Upgrading!Next
<1>4. CASE x \in Refusals
  <2>1. Form = "alien" \/ (Form = "legacy" /\ \E r \in RowIds : db.rows[r] = "infinite")
    <3>1. db.version \in -1..2
      BY DEF Inv, GoodFile, Files
    <3>2. \/ db.version > 1
          \/ db.version < 0
          \/ db.version = 0 /\ db.tables # {} /\ ~(LegacyTables \subseteq db.tables)
          \/ db.version = 0 /\ LegacyTables \subseteq db.tables
             /\ \E r \in RowIds : db.rows[r] = "infinite"
      BY <1>4 DEF Refused, NonFinite, STORE_SCHEMA_VERSION
    <3>3. LegacyTables # {}
      BY DEF LegacyTables
    <3> QED  BY <3>1, <3>2, <3>3 DEF Form, STORE_SCHEMA_VERSION
  <2>2. Upgrading!Refuse(p)
    BY <1>1, <1>2, <1>4, <2>1 DEF Upgrading!Refuse, Form, Handle, Refusals
  <2> QED  BY <2>2 DEF Upgrading!Next
<1>5. CASE x # "open" /\ x \notin Refusals
  <2>1. Upgrading!Close(p)
    BY <1>1, <1>2, <1>5 DEF Upgrading!Close, Form, Handle
  <2> QED  BY <2>1 DEF Upgrading!Next
<1> QED  BY <1>3, <1>4, <1>5

\* The commit is the upgrade, or finds it done.
LEMMA CommitMaps ==
  ASSUME Inv, NEW p \in Openers, Commit(p)
  PROVE  Upgrading!Upgrade(p) \/ Upgrading!Use(p)
<1>1. /\ pc[p] = "steps" /\ pc' = [pc EXCEPT ![p] = "open"]
      /\ GoodFile(db) /\ Refused(db) = {} /\ work = Partial(db, Length(Plan(db)))
      /\ db' = [work EXCEPT !.version = STORE_SCHEMA_VERSION]
  BY DEF Commit, Goto, Inv, WorkOK
<1>2. /\ db'.version = 1
      /\ db'.rows = IF Plan(db) = "upgrade" THEN Copied(db.rows) ELSE db.rows
  BY <1>1, Committed
<1>3. Form' = "current" /\ Handle' = [Handle EXCEPT ![p] = "open"]
  BY <1>1, <1>2 DEF Form, Handle, Inv, TypeOK, STORE_SCHEMA_VERSION
<1>4. CASE db.version = 0 /\ db.tables = {} /\ Plan(db) = "create"
  <2>1. Form = "empty" /\ db'.rows = db.rows
    BY <1>2, <1>4 DEF Form, STORE_SCHEMA_VERSION
  <2> QED  BY <1>3, <2>1 DEF Upgrading!Upgrade, Form, Handle
<1>5. CASE db.version = 0 /\ db.tables = LegacyTables /\ Plan(db) = "upgrade"
           /\ \A r \in RowIds : db.rows[r] \in {"none", "bare"}
  <2>1. Form = "legacy" /\ \A r \in RowIds : db.rows[r] # "infinite"
    BY <1>5 DEF Form, STORE_SCHEMA_VERSION, LegacyTables
  <2>2. db'.rows = Upgrading!Kept
    BY <1>2, <1>5 DEF Upgrading!Kept, Copied
  <2> QED  BY <1>3, <2>1, <2>2 DEF Upgrading!Upgrade, Form, Handle
<1>6. CASE db.version = 1 /\ Plan(db) = "none"
  <2>1. Form = "current" /\ db'.rows = db.rows
    BY <1>2, <1>6 DEF Form, STORE_SCHEMA_VERSION
  <2> QED  BY <1>3, <2>1 DEF Upgrading!Use, Form, Handle
<1> QED  BY <1>1, <1>4, <1>5, <1>6, Accepting

\* Opening the store upgrades it once and atomically, and keeps its rows.
THEOREM ImplementsUpgrade == Spec => UpgradeSpec
<1>1. ASSUME Init PROVE Upgrading!Init
  <2>1. GoodFile(db)
    BY <1>1, FirstFiles
  <2>2. db.rows \in [RowIds -> {"none", "bare", "infinite", "measured", "unmeasured"}]
    BY <2>1 DEF GoodFile, Files, RowStates
  <2> QED  BY <1>1, <2>2 DEF Init, Upgrading!Init, Refusals
<1>2. ASSUME Inv, [Next]_vars PROVE Upgrading!Next \/ UNCHANGED Upgrading!vars
  <2>1. ASSUME NEW p \in Openers, Look(p) PROVE Upgrading!Next \/ UNCHANGED Upgrading!vars
    <3>1. PICK x \in {"open", "begin"} :
            pc' = [pc EXCEPT ![p] = x] /\ (x = "open" => db.version = 1)
      BY <2>1 DEF Look, Goto, STORE_SCHEMA_VERSION
    <3>2. db' = db /\ x \notin Refusals
      BY <2>1 DEF Look, Refusals
    <3> QED  BY <1>2, <3>1, <3>2, MoveMaps
  <2>2. ASSUME NEW p \in Openers, Check(p)
        PROVE  Upgrading!Next \/ UNCHANGED Upgrading!vars
    <3>1. work = db
      BY <1>2, <2>2 DEF Check, Inv, WorkOK
    <3>2. PICK x \in Refused(db) \cup {"steps"} : Goto(p, x)
      BY <2>2, <3>1 DEF Check
    <3>3. x # "open" /\ (x \in Refusals => x \in Refused(db))
      BY DEF Refused, NonFinite, Refusals
    <3> QED  BY <1>2, <2>2, <3>2, <3>3, MoveMaps DEF Check, Goto
  <2>3. ASSUME NEW p \in Openers, Execute(p)
        PROVE  Upgrading!Next \/ UNCHANGED Upgrading!vars
    <3>1. pc' = [pc EXCEPT ![p] = "failed"] \/ pc' = pc
      BY <2>3 DEF Execute, Goto
    <3>2. CASE pc' = pc
      BY <2>3, <3>2 DEF Execute, Upgrading!vars
    <3>3. CASE pc' = [pc EXCEPT ![p] = "failed"]
      BY <1>2, <2>3, <3>3, MoveMaps DEF Execute, Refusals
    <3> QED  BY <3>1, <3>2, <3>3
  <2>4. ASSUME NEW p \in Openers, Commit(p) PROVE Upgrading!Next
    BY <1>2, <2>4, CommitMaps DEF Upgrading!Next
  <2>5. ASSUME NEW p \in Openers, NEW r \in RowIds, NEW s \in {"measured", "unmeasured"},
               Write(p, r, s)
        PROVE  Upgrading!Next
    <3>1. db.version = 1 /\ db'.version = 1 /\ db'.rows = [db.rows EXCEPT ![r] = s]
      <4>1. db = [version |-> db.version, tables |-> db.tables, columns |-> db.columns,
                  rows |-> db.rows, copy |-> db.copy]
        BY <1>2 DEF Inv, GoodFile, Files
      <4>2. db' = [db EXCEPT !.rows = [db.rows EXCEPT ![r] = s]]
        BY <2>5 DEF Write
      <4> QED  BY <1>2, <2>5, <4>1, <4>2 DEF Write, Inv, OpenOK
    <3>2. Upgrading!Write(p, r)
      BY <2>5, <3>1 DEF Write, Upgrading!Write, STORE_SCHEMA_VERSION
    <3> QED  BY <3>2 DEF Upgrading!Next
  <2>6. ASSUME NEW p \in Openers,
               Open(p) \/ Begin(p) \/ CannotBegin(p) \/ Leave(p) \/ Fault(p)
        PROVE  Upgrading!Next \/ UNCHANGED Upgrading!vars
    <3>1. PICK x \in {"look", "check", "readonly", "busy", "closed", "failed"} :
            pc' = [pc EXCEPT ![p] = x]
      BY <2>6 DEF Open, Begin, CannotBegin, Leave, Fault, Goto
    <3>2. db' = db
      BY <2>6 DEF Open, Begin, CannotBegin, Leave, Fault
    <3>3. x # "open" /\ x \notin Refusals
      BY DEF Refusals
    <3> QED  BY <1>2, <3>1, <3>2, <3>3, MoveMaps
  <2>7. CASE UNCHANGED vars
    BY <2>7 DEF vars, Upgrading!vars
  <2> QED
    BY <1>2, <2>1, <2>2, <2>3, <2>4, <2>5, <2>6, <2>7 DEF Next, Migrate
<1> QED  BY <1>1, <1>2, Invariant, PTL DEF Spec, UpgradeSpec, Upgrading!Spec
=============================================================================
