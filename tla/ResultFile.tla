------------------------------ MODULE ResultFile ------------------------------
(***************************************************************************)
(* The file a result is kept in and how one of an older version is read    *)
(* (rag_crucible/eval/migrate.py, eval/types.py).  An object is a function *)
(* of the keys it has; a model of the current version takes the default    *)
(* None for an optional key that is absent, and refuses a key it does not  *)
(* know.                                                                   *)
(***************************************************************************)
EXTENDS Integers, Sequences, FiniteSets

ResultSchemaVersion == 6
Unversioned == 1

\* What schema 1 may or may not have recorded of a trial (test_migrate.py).
ScanKeys == {"own", "matched", "compromised", "abstained", "family"}
RecordKeys == {"type", "qid", "defense", "style", "retrieved", "succeeded"} \cup ScanKeys

Without(object, keys) == [k \in DOMAIN object \ keys |-> object[k]]
SetDefault(object, key, value) ==
  [k \in DOMAIN object \cup {key} |-> IF k \in DOMAIN object THEN object[k] ELSE value]

\* The files there are: of every version, of schema 1 with any part of the scan
\* of the answers ("not a single shape"), and of a version to come.
Writers ==
  {w \in [version : 1..ResultSchemaVersion + 1, scanned : SUBSET ScanKeys] :
     w.version > Unversioned => w.scanned = ScanKeys}

\* What such a writer records of the trials and of the screened chunks of a run.
Recorded(writer, records) ==
  [n \in DOMAIN records |-> Without(records[n], ScanKeys \ writer.scanned)]
Sampled(writer, screens) == IF writer.version < 5 THEN {} ELSE screens

\* Its file, with the metrics of these; a digest of the spec is the spec.
Written(writer, records, screens, metrics) ==
  LET v == writer.version
      Stored(r) == IF v = Unversioned THEN SetDefault(r, "foreign", {}) ELSE r
      all == [schema_version |-> v, run_id |-> "a run", ingestion |-> "a report",
              spec |-> "a spec", spec_hash |-> "a spec", identity |-> "a spec",
              records |-> [n \in DOMAIN records |-> Stored(records[n])],
              screens |-> screens,
              metrics |-> IF v < 6 THEN {Without(m, {"state"}) : m \in metrics} ELSE metrics]
  IN  Without(all, (IF v < 2 THEN {"schema_version", "run_id"} ELSE {})
                   \cup (IF v < 3 THEN {"ingestion"} ELSE {})
                   \cup (IF v < 4 THEN {"identity"} ELSE {}))

-----------------------------------------------------------------------------
(* The chain.                                                              *)

\* Mutant: a record without a scan becomes one of an answer without a marker.
MutOneToTwo(raw) ==
  LET Cleared(r) == Without(r, {"foreign"})
      Scanned(r) == SetDefault(SetDefault(Cleared(r), "matched", {}), "own", "")
  IN  [SetDefault(raw, "run_id", "None") EXCEPT !.records = [n \in DOMAIN @ |-> Scanned(@[n])]]

\* foreign_markers is derived now; what was not recorded stays absent.
OneToTwo(raw) ==
  [SetDefault(raw, "run_id", "None") EXCEPT
     !.records = [n \in DOMAIN @ |-> Without(@[n], {"foreign"})]]

TwoToThree(raw) == SetDefault(raw, "ingestion", "None")

\* The spec is the identity if it has the hash the writer gave it.
ThreeToFour(raw) ==
  IF raw.spec = raw.spec_hash THEN SetDefault(raw, "identity", raw.spec) ELSE raw

FiveToSix(raw) == [raw EXCEPT !.metrics = {SetDefault(m, "state", "measured") : m \in @}]

Step(v, raw) ==
  CASE v = 1 -> OneToTwo(raw)
    [] v = 2 -> TwoToThree(raw)
    [] v = 3 -> ThreeToFour(raw)
    [] v = 4 -> raw
    [] v = 5 -> FiveToSix(raw)

VersionOf(raw) == IF "schema_version" \in DOMAIN raw THEN raw.schema_version ELSE Unversioned

\* migrate_raw: one version at a time.
Migrated(raw) ==
  LET from[v \in Unversioned..ResultSchemaVersion] ==
        IF v <= VersionOf(raw) THEN raw ELSE Step(v - 1, from[v - 1])
  IN  [SetDefault(from[ResultSchemaVersion], "schema_version", 0)
         EXCEPT !.schema_version = ResultSchemaVersion]

\* Whether the file can be read: it is not of a newer version, no key is left
\* that the models do not know, and its identity has its hash.
Readable(raw) ==
  /\ VersionOf(raw) \in Unversioned..ResultSchemaVersion
  /\ LET result == Migrated(raw)
     IN  /\ \A n \in DOMAIN result.records : DOMAIN result.records[n] \subseteq RecordKeys
         /\ "identity" \in DOMAIN result => result.identity = result.spec_hash
=============================================================================
