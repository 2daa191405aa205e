------------------------------ MODULE IndexDir ------------------------------
(***************************************************************************)
(* The directory a saved index lives in (rag_crucible/ingest/build.py and  *)
(* rag_crucible/index/).  It is named after the spec alone, and every      *)
(* worker, API and command that uses a spec of that name shares it without *)
(* a lock: runs and /query load or build it, `ingest` builds it, `eval`    *)
(* and `query` open it.                                                    *)
(*                                                                         *)
(* Two specs of one name are told apart by the fingerprint in meta.json;   *)
(* a spec stands for its fingerprint here.  index.faiss and chunks.jsonl   *)
(* are sequences of blocks, one for each chunk, named by the spec they     *)
(* come from: a writer truncates the file when it opens it and writes its  *)
(* blocks at its own offset, whatever others do to the file meanwhile.     *)
(***************************************************************************)
EXTENDS Integers, Sequences, FiniteSets

CONSTANTS
  Procs,       \* the processes that use the directory
  Specs,       \* the specs of its name, by fingerprint
  Count,       \* how many chunks each makes of its corpus
  MaxDeaths,   \* bound: processes that die writing
  Missing,     \* a file that is not there
  Torn,        \* a small file no reader can parse: empty, or two texts in one
  Hole,        \* the bytes between a truncation and a write further on
  Writing,     \* history: a builder has begun and not finished alone
  Overlap      \* history: two builders wrote at the same time

ASSUME ConstantsAssumption ==
  /\ Count \in [Specs -> Nat \ {0}]
  /\ MaxDeaths \in Nat
  /\ Specs \cap {Missing, Torn, Hole, Writing, Overlap} = {}
  /\ Missing # Torn /\ Writing # Overlap

\* load_or_build_index, `ingest`, `ingest --force`, and `query` or `eval`
Modes == {"ensure", "ingest", "force", "open"}
\* The phases of build_index in which the directory holds a half-made index.
Saving == {"vectors", "chunks", "meta", "report", "reporting"}
Phases == Saving \cup {"idle", "exists", "outer", "inner", "load", "parse",
                       "loaded", "serving", "build"}

Blocks == Seq(Specs \cup {Hole})
SmallFile == Specs \cup {Missing, Torn}

\* What a process remembers of its call, and two notes on what others did
\* meanwhile: whether it built alone, and the hands it saw at work.
Idle == [at |-> "idle", mode |-> "ensure", spec |-> Missing, pos |-> 0,
         outer |-> Missing, inner |-> Missing, vecs |-> <<>>, chunks |-> <<>>,
         audit |-> Missing, rebuilt |-> FALSE, alone |-> FALSE, touched |-> {}]

VARIABLES
  vecs, chunks,   \* index.faiss and chunks.jsonl
  meta, report,   \* meta.json and ingest-report.json, by the spec they describe
  call,           \* what each process is doing
  deaths,
  hands           \* history: whose bytes the directory may hold

files == <<vecs, chunks, meta, report>>
vars == <<files, call, deaths, hands>>

TypeOK ==
  /\ {vecs, chunks} \subseteq Blocks
  /\ {meta, report} \subseteq SmallFile
  /\ \A p \in Procs :
       /\ call[p].at \in Phases /\ call[p].mode \in Modes
       /\ call[p].spec \in Specs \cup {Missing}
       /\ call[p].pos \in Nat
       /\ {call[p].outer, call[p].inner, call[p].audit} \subseteq SmallFile \ {Torn}
       /\ {call[p].vecs, call[p].chunks} \subseteq Blocks
       /\ {call[p].rebuilt, call[p].alone} \subseteq BOOLEAN
       /\ call[p].touched \subseteq Specs \cup {Writing, Overlap}
  /\ deaths \in 0..MaxDeaths
  /\ hands \subseteq Specs \cup {Writing, Overlap}

Init ==
  /\ vecs = <<>> /\ chunks = <<>>
  /\ meta = Missing /\ report = Missing
  /\ call = [p \in Procs |-> Idle]
  /\ deaths = 0
  /\ hands = {}

\* A write of block i lands where it belongs, over whatever is there.
Put(file, i, s) ==
  [j \in 1..(IF i > Len(file) THEN i ELSE Len(file)) |->
     IF j = i THEN s ELSE IF j <= Len(file) THEN file[j] ELSE Hole]

\* A small file is written at once.  Over the text another builder has put there
\* meanwhile it may leave the end of it.
Written(file, s) == IF file = Torn THEN {s} ELSE {s, Torn}

Whole(s) == [i \in 1..Count[s] |-> s]

Goto(p, phase) == call' = [call EXCEPT ![p].at = phase]

\* The call raises, or is over: nothing is kept.
Leave(p) == call' = [call EXCEPT ![p] = Idle]

-----------------------------------------------------------------------------
(* Loading.                                                                *)

Begin(p, m, s) ==
  /\ call[p].at = "idle"
  /\ call' = [call EXCEPT ![p] =
       [Idle EXCEPT !.at = CASE m \in {"ensure", "ingest"} -> "exists"
                             [] m = "force" -> "build"
                             [] m = "open" -> "outer",
                    !.mode = m, !.spec = s, !.touched = hands]]
  /\ UNCHANGED <<files, deaths, hands>>

\* Mutant: the report is looked for where it never is.
MutExists(p) ==
  /\ call[p].at = "exists"
  /\ Goto(p, "build")
  /\ UNCHANGED <<files, deaths, hands>>

\* Both files are there, or the index is built.  Neither is ever removed, so
\* the two looks are as good as one.
Exists(p) ==
  /\ call[p].at = "exists"
  /\ Goto(p, IF meta # Missing /\ report # Missing THEN "outer" ELSE "build")
  /\ UNCHANGED <<files, deaths, hands>>

\* read_meta in open_saved_index, or the look of `ingest` at the fingerprint.
ReadOuter(p) ==
  /\ call[p].at = "outer"
  /\ IF meta \in {Missing, Torn} THEN Leave(p)
     ELSE IF call[p].mode # "ingest"
     THEN call' = [call EXCEPT ![p].outer = meta, ![p].at = "inner"]
     ELSE IF meta = call[p].spec THEN Leave(p) ELSE Goto(p, "build")
  /\ UNCHANGED <<files, deaths, hands>>

\* Mutant: meta.json is taken to be readable if it is there.
MutReadInner(p) ==
  /\ call[p].at = "inner"
  /\ IF meta = Missing THEN Leave(p)
     ELSE call' = [call EXCEPT ![p].inner = meta, ![p].at = "load"]
  /\ UNCHANGED <<files, deaths, hands>>

\* FaissIndex.load reads meta.json again: the chunk count it checks is this one's.
ReadInner(p) ==
  /\ call[p].at = "inner"
  /\ IF meta \in {Missing, Torn} THEN Leave(p)
     ELSE call' = [call EXCEPT ![p].inner = meta, ![p].at = "load"]
  /\ UNCHANGED <<files, deaths, hands>>

\* faiss reads as many vectors as the header says and ignores what follows; a
\* file without its header or cut short is an error.
ReadVectors(p) ==
  /\ call[p].at = "load"
  /\ IF vecs # <<>> /\ vecs[1] \in Specs /\ Len(vecs) >= Count[vecs[1]]
     THEN call' = [call EXCEPT ![p].vecs = SubSeq(vecs, 1, Count[vecs[1]]),
                               ![p].at = "parse"]
     ELSE Leave(p)
  /\ UNCHANGED <<files, deaths, hands>>

\* Where a load that succeeded goes: an index of another fingerprint is rebuilt,
\* or refused by `query` and `eval`; after a rebuild nobody compares.
Accept(p) ==
  IF call[p].rebuilt \/ call[p].outer = call[p].spec
  THEN call' = [call EXCEPT ![p].chunks = chunks, ![p].at = "loaded"]
  ELSE IF call[p].mode = "open" THEN Leave(p)
  ELSE call' = [call EXCEPT ![p].outer = Missing, ![p].inner = Missing,
                            ![p].vecs = <<>>, ![p].at = "build"]

\* Mutant: the chunks are not counted.
MutReadChunks(p) ==
  /\ call[p].at = "parse"
  /\ Accept(p)
  /\ UNCHANGED <<files, deaths, hands>>

\* Every line must parse, which lines of two builds at one offset may or may
\* not, and there must be as many as meta.json says.
ReadChunks(p) ==
  /\ call[p].at = "parse"
  /\ \/ /\ \A i \in 1..Len(chunks) : chunks[i] # Hole
        /\ Len(chunks) = Count[call[p].inner]
        /\ Accept(p)
     \/ /\ \/ \E i \in 1..Len(chunks) : chunks[i] # call[p].inner
           \/ Len(chunks) # Count[call[p].inner]
        /\ Leave(p)
  /\ UNCHANGED <<files, deaths, hands>>

\* load_ingest_report, by a run or by `eval`.
ReadReport(p) ==
  /\ call[p].at = "loaded"
  /\ IF report \in {Missing, Torn} THEN Leave(p)
     ELSE call' = [call EXCEPT ![p].audit = report, ![p].at = "serving"]
  /\ UNCHANGED <<files, deaths, hands>>

\* The run, the command or the server is done with the index.
Release(p) ==
  /\ call[p].at \in {"loaded", "serving"}
  /\ Leave(p)
  /\ UNCHANGED <<files, deaths, hands>>

-----------------------------------------------------------------------------
(* Building.                                                               *)

\* No chunks, too many documents dropped, or the embedder fails: nothing is
\* written yet.
BuildFails(p) ==
  /\ call[p].at = "build"
  /\ Leave(p)
  /\ UNCHANGED <<files, deaths, hands>>

Builders == {p \in Procs : call[p].at \in Saving}

\* The corpus is chunked and embedded in memory; saving begins by truncating
\* index.faiss.  Everyone in the middle of a call sees a builder begin.
OpenVectors(p) ==
  LET s == call[p].spec
      begun == {s, Writing} \cup (IF Builders = {} THEN {} ELSE {Overlap}) IN
  /\ call[p].at = "build"
  /\ vecs' = <<>>
  /\ hands' = hands \cup begun
  /\ call' = [q \in Procs |->
       CASE q = p -> [call[p] EXCEPT !.at = "vectors", !.pos = 0,
                                     !.alone = (Builders = {}),
                                     !.touched = @ \cup begun]
         [] q # p /\ call[q].at = "idle" -> call[q]
         [] OTHER -> [call[q] EXCEPT !.touched = @ \cup begun, !.alone = FALSE]]
  /\ UNCHANGED <<chunks, meta, report, deaths>>

WriteVector(p) ==
  /\ call[p].at = "vectors"
  /\ call[p].pos < Count[call[p].spec]
  /\ vecs' = Put(vecs, call[p].pos + 1, call[p].spec)
  /\ call' = [call EXCEPT ![p].pos = @ + 1]
  /\ UNCHANGED <<chunks, meta, report, deaths, hands>>

OpenChunks(p) ==
  /\ call[p].at = "vectors"
  /\ call[p].pos = Count[call[p].spec]
  /\ chunks' = <<>>
  /\ call' = [call EXCEPT ![p].at = "chunks", ![p].pos = 0]
  /\ UNCHANGED <<vecs, meta, report, deaths, hands>>

WriteChunk(p) ==
  /\ call[p].at = "chunks"
  /\ call[p].pos < Count[call[p].spec]
  /\ chunks' = Put(chunks, call[p].pos + 1, call[p].spec)
  /\ call' = [call EXCEPT ![p].pos = @ + 1]
  /\ UNCHANGED <<vecs, meta, report, deaths, hands>>

OpenMeta(p) ==
  /\ call[p].at = "chunks"
  /\ call[p].pos = Count[call[p].spec]
  /\ meta' = Torn
  /\ Goto(p, "meta")
  /\ UNCHANGED <<vecs, chunks, report, deaths, hands>>

WriteMeta(p) ==
  /\ call[p].at = "meta"
  /\ meta' \in Written(meta, call[p].spec)
  /\ Goto(p, "report")
  /\ UNCHANGED <<vecs, chunks, report, deaths, hands>>

OpenReport(p) ==
  /\ call[p].at = "report"
  /\ report' = Torn
  /\ Goto(p, "reporting")
  /\ UNCHANGED <<vecs, chunks, meta, deaths, hands>>

\* The build is over.  load_or_build_index opens what is there now.
WriteReport(p) ==
  /\ call[p].at = "reporting"
  /\ report' \in Written(report, call[p].spec)
  /\ hands' = IF call[p].alone THEN {call[p].spec} ELSE hands
  /\ IF call[p].mode = "ensure"
     THEN call' = [call EXCEPT ![p] =
            [Idle EXCEPT !.at = "outer", !.spec = call[p].spec, !.rebuilt = TRUE,
                         !.touched = hands']]
     ELSE Leave(p)
  /\ UNCHANGED <<vecs, chunks, meta, deaths>>

\* A process is killed, or the disk is full, in the middle of a build.
Die(p) ==
  /\ deaths < MaxDeaths
  /\ call[p].at \in Saving
  /\ deaths' = deaths + 1
  /\ Leave(p)
  /\ UNCHANGED <<files, hands>>

-----------------------------------------------------------------------------

Load(p) ==
  Exists(p) \/ ReadOuter(p) \/ ReadInner(p) \/ ReadVectors(p) \/ ReadChunks(p)
  \/ ReadReport(p) \/ Release(p)

Build(p) ==
  BuildFails(p) \/ OpenVectors(p) \/ WriteVector(p) \/ OpenChunks(p) \/ WriteChunk(p)
  \/ OpenMeta(p) \/ WriteMeta(p) \/ OpenReport(p) \/ WriteReport(p) \/ Die(p)

Next ==
  \E p \in Procs :
    (\E m \in Modes, s \in Specs : Begin(p, m, s)) \/ Load(p) \/ Build(p)

Spec == Init /\ [][Next]_vars

-----------------------------------------------------------------------------
(* Properties.                                                             *)

\* The index p holds is the one its spec asks for, whole, with its own report.
HoldsOwnIndex(p) ==
  LET s == call[p].spec IN
  /\ call[p].vecs = Whole(s)
  /\ call[p].chunks = Whole(s)
  /\ call[p].at = "serving" => call[p].audit = s

\* No process serves an index that is torn, mixed or another spec's, as long as
\* the directory has only ever held a finished index of its spec and one builder
\* at a time rebuilds it: a reader that meets a builder of its own spec, or what a
\* dead one left, gets the whole index or an error.
ServesOwnIndex ==
  \A p \in Procs :
    /\ call[p].at \in {"loaded", "serving"}
    /\ call[p].touched \subseteq {call[p].spec, Writing}
    => HoldsOwnIndex(p)

\* An index that a build finished alone is good until the next build begins:
\* nobody who asks for its spec builds it again or is turned away.
SettledIndexServes ==
  [][\A p \in Procs :
       /\ call[p].touched = {call[p].spec} /\ hands = {call[p].spec}
       /\ call[p].mode # "force"
       => /\ call[p].at \in {"exists", "outer"} => call'[p].at # "build"
          /\ call[p].at \in {"outer", "inner", "load", "parse"}
             /\ call'[p].at = "idle" => call[p].mode = "ingest"]_vars

\* What load_or_build_index and the stale-index check of `query` and `eval` say:
\* whoever gets an index gets the one built from its own ingest configuration.
GetsOwnIndex ==
  \A p \in Procs : call[p].at \in {"loaded", "serving"} => HoldsOwnIndex(p)
=============================================================================
