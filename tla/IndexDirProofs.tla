---------------------------- MODULE IndexDirProofs ----------------------------
(***************************************************************************)
(* Theorems about IndexDir, for any processes, specs of one name, sizes of *)
(* their corpora and number of deaths.                                     *)
(***************************************************************************)
EXTENDS IndexDir, TLAPS

-----------------------------------------------------------------------------
(* The inductive invariant.                                                *)

CallType ==
  [at : Phases, mode : Modes, spec : Specs \cup {Missing}, pos : Nat,
   outer : SmallFile \ {Torn}, inner : SmallFile \ {Torn}, vecs : Blocks, chunks : Blocks,
   audit : SmallFile \ {Torn}, rebuilt : BOOLEAN, alone : BOOLEAN,
   touched : SUBSET (Specs \cup {Writing, Overlap})]

Typed ==
  /\ vecs \in Blocks /\ chunks \in Blocks
  /\ meta \in SmallFile /\ report \in SmallFile
  /\ call \in [Procs -> CallType]
  /\ \A p \in Procs : call[p].at # "idle" => call[p].spec \in Specs
  /\ deaths \in 0..MaxDeaths
  /\ hands \in SUBSET (Specs \cup {Writing, Overlap})

\* The first n blocks of s, and a file no other spec has left bytes in.
Blocked(s, n) == [i \in 1..n |-> s]
Pure(file, s) == \E n \in 0..Count[s] : file = Blocked(s, n)

\* A process has noted every hand there is.
Noted == \A p \in Procs : call[p].at # "idle" => hands \subseteq call[p].touched

\* The hands of the builders are among them, and one that is not alone has met
\* another.
Handed ==
  \A p \in Builders :
    /\ call[p].spec \in hands /\ Writing \in hands
    /\ ~call[p].alone => Overlap \in hands
    /\ call[p].alone => \A q \in Builders : q = p

\* What a builder that is alone has made of the files so far.
Made(c, v, k, m, r) ==
  /\ c.at = "vectors" => c.pos <= Count[c.spec] /\ v = Blocked(c.spec, c.pos)
  /\ c.at # "vectors" => v = Whole(c.spec)
  /\ c.at = "chunks" => c.pos <= Count[c.spec] /\ k = Blocked(c.spec, c.pos)
  /\ c.at \in {"meta", "report", "reporting"} => k = Whole(c.spec)
  /\ c.at = "meta" => m = Torn
  /\ c.at \in {"report", "reporting"} => m = c.spec
  /\ c.at = "reporting" => r = Torn
Built(c) == Made(c, vecs, chunks, meta, report)
AloneBuilds == \A p \in Builders : call[p].alone => Built(call[p])

\* A directory only builders of s have had their hands on, one at a time.
OfOneSpec(s) ==
  /\ Pure(vecs, s) /\ Pure(chunks, s)
  /\ meta \in {Missing, Torn, s} /\ report \in {Missing, Torn, s}
Unmixed == \A s \in Specs : hands \subseteq {s, Writing} => OfOneSpec(s)

\* A directory nobody has touched since a builder of s finished alone.
Settled(s) == vecs = Whole(s) /\ chunks = Whole(s) /\ meta = s /\ report = s
SettledBuilt == \A s \in Specs : hands = {s} => Settled(s)

\* What a reader that has met no other spec and no two builders has read.
OwnReads(c) ==
  /\ c.at \in {"inner", "load", "parse"} => c.outer = c.spec
  /\ c.at \in {"load", "parse"} => c.inner = c.spec
  /\ c.at \in {"parse", "loaded", "serving"} => c.vecs = Whole(c.spec)
  /\ c.at \in {"loaded", "serving"} => c.chunks = Whole(c.spec)
  /\ c.at = "serving" => c.audit = c.spec
ReadsOwn ==
  \A p \in Procs : call[p].touched \subseteq {call[p].spec, Writing} => OwnReads(call[p])

Inv == Typed /\ Noted /\ Handed /\ AloneBuilds /\ Unmixed /\ SettledBuilt /\ ReadsOwn

-----------------------------------------------------------------------------
(* Records of calls.                                                       *)

\* What p remembers becomes c, and no other process notices.
Moves(p, c) == call' = [call EXCEPT ![p] = c]

LEMMA MovesIs ==
  ASSUME Typed, NEW p \in Procs, NEW c \in CallType, Moves(p, c)
  PROVE  /\ call' \in [Procs -> CallType]
         /\ call'[p] = c
         /\ \A q \in Procs : q # p => call'[q] = call[q]
BY DEF Typed, Moves

LEMMA IdleIs ==
  /\ Idle \in CallType /\ Idle.at = "idle"
BY ConstantsAssumption DEF Idle, CallType, Phases, Modes, SmallFile, Blocks

\* A call that goes on to another phase.
LEMMA GoesOn ==
  ASSUME NEW c \in CallType, NEW phase \in Phases
  PROVE  LET d == [c EXCEPT !.at = phase] IN
         /\ d \in CallType /\ d.at = phase
         /\ d.mode = c.mode /\ d.spec = c.spec /\ d.pos = c.pos /\ d.outer = c.outer
         /\ d.inner = c.inner /\ d.vecs = c.vecs /\ d.chunks = c.chunks /\ d.audit = c.audit
         /\ d.rebuilt = c.rebuilt /\ d.alone = c.alone /\ d.touched = c.touched
BY DEF CallType

-----------------------------------------------------------------------------
(* What a step that reads does to the process that takes it.               *)

\* c goes on to a phase in which the process writes nothing, or is over.
Onward(c, d) ==
  /\ d \in CallType /\ d.at \notin Saving
  /\ d.at # "idle" => /\ c.at # "idle" /\ d.spec = c.spec /\ d.mode = c.mode
                      /\ d.touched = c.touched /\ d.rebuilt = c.rebuilt

LEMMA LeaveOnward ==
  ASSUME NEW c
  PROVE  Onward(c, Idle)
BY IdleIs DEF Onward, Saving

LEMMA BeginIs ==
  ASSUME Typed, NEW p \in Procs, NEW m \in Modes, NEW s \in Specs, Begin(p, m, s)
  PROVE  \E d \in CallType :
           /\ Moves(p, d) /\ d.at \in {"exists", "build", "outer"}
           /\ d.spec = s /\ d.touched = hands
<1> DEFINE ph == CASE m \in {"ensure", "ingest"} -> "exists"
                   [] m = "force" -> "build"
                   [] m = "open" -> "outer"
           d == [Idle EXCEPT !.at = ph, !.mode = m, !.spec = s, !.touched = hands]
<1>1. ph \in {"exists", "build", "outer"}
  BY DEF Modes
<1>2. ph \in Phases
  BY <1>1 DEF Phases
<1>3. Moves(p, d)
  BY DEF Begin, Moves
<1> HIDE DEF ph
<1>4. d \in CallType /\ d.at = ph /\ d.spec = s /\ d.touched = hands
  BY <1>2, IdleIs DEF CallType, Typed
<1> HIDE DEF d
<1> QED
  BY <1>1, <1>3, <1>4

LEMMA ExistsIs ==
  ASSUME Typed, NEW p \in Procs, Exists(p)
  PROVE  \E d : /\ Moves(p, d) /\ Onward(call[p], d)
                /\ d.at = IF meta # Missing /\ report # Missing THEN "outer" ELSE "build"
<1> DEFINE ph == IF meta # Missing /\ report # Missing THEN "outer" ELSE "build"
           d == [call[p] EXCEPT !.at = ph]
<1>1. ph \in Phases /\ ph \notin Saving /\ ph # "idle"
  BY DEF Phases, Saving
<1>2. Moves(p, d) /\ call[p].at = "exists" /\ call[p] \in CallType
  BY DEF Exists, Goto, Moves, Typed
<1> HIDE DEF ph
<1>3. /\ d \in CallType /\ d.at = ph /\ d.spec = call[p].spec /\ d.mode = call[p].mode
      /\ d.touched = call[p].touched /\ d.rebuilt = call[p].rebuilt
  BY <1>1, <1>2, GoesOn
<1> HIDE DEF d
<1>4. Onward(call[p], d)
  BY <1>1, <1>2, <1>3 DEF Onward
<1> QED
  BY <1>2, <1>3, <1>4 DEF ph

\* To build, away, or on with the fingerprint that was read.
LEMMA ReadOuterIs ==
  ASSUME Typed, NEW p \in Procs, ReadOuter(p)
  PROVE  \E d : /\ Moves(p, d) /\ Onward(call[p], d)
                /\ \/ d.at = "idle" /\ (meta \in {Missing, Torn} \/ call[p].mode = "ingest")
                   \/ d.at = "build" /\ meta # call[p].spec
                   \/ d.at = "inner" /\ d.outer = meta /\ meta \notin {Missing, Torn}
<1>1. call[p] \in CallType /\ call[p].at = "outer" /\ meta \in SmallFile
  BY DEF Typed, ReadOuter
<1>2. CASE Leave(p) /\ (meta \in {Missing, Torn} \/ call[p].mode = "ingest")
  BY <1>2, LeaveOnward, IdleIs DEF Leave, Moves
<1>3. CASE Goto(p, "build") /\ meta # call[p].spec
  <2> DEFINE d == [call[p] EXCEPT !.at = "build"]
  <2>1. Moves(p, d) /\ "build" \in Phases /\ "build" \notin Saving
    BY <1>3 DEF Goto, Moves, Phases, Saving
  <2>2. /\ d \in CallType /\ d.at = "build" /\ d.spec = call[p].spec /\ d.mode = call[p].mode
        /\ d.touched = call[p].touched /\ d.rebuilt = call[p].rebuilt
    BY <1>1, <2>1, GoesOn
  <2> HIDE DEF d
  <2>3. Onward(call[p], d)
    BY <1>1, <2>1, <2>2 DEF Onward
  <2> QED
    BY <1>3, <2>1, <2>2, <2>3
<1>4. CASE call' = [call EXCEPT ![p].outer = meta, ![p].at = "inner"] /\ meta \notin {Missing, Torn}
  <2> DEFINE d == [call[p] EXCEPT !.outer = meta, !.at = "inner"]
  <2>1. Moves(p, d)
    BY <1>1, <1>4 DEF Moves, Typed
  <2>2. /\ d \in CallType /\ d.at = "inner" /\ d.spec = call[p].spec /\ d.mode = call[p].mode
        /\ d.touched = call[p].touched /\ d.rebuilt = call[p].rebuilt /\ d.outer = meta
    BY <1>1, <1>4 DEF CallType, Phases
  <2> HIDE DEF d
  <2>3. Onward(call[p], d)
    BY <1>1, <2>2 DEF Onward, Saving
  <2> QED
    BY <1>4, <2>1, <2>2, <2>3
<1> QED
  BY <1>2, <1>3, <1>4 DEF ReadOuter

LEMMA ReadInnerIs ==
  ASSUME Typed, NEW p \in Procs, ReadInner(p)
  PROVE  \E d : /\ Moves(p, d) /\ Onward(call[p], d)
                /\ \/ d.at = "idle" /\ meta \in {Missing, Torn}
                   \/ d.at = "load" /\ d.inner = meta /\ d.outer = call[p].outer
                      /\ meta \notin {Missing, Torn}
<1>1. call[p] \in CallType /\ call[p].at = "inner" /\ meta \in SmallFile
  BY DEF Typed, ReadInner
<1>2. CASE Leave(p) /\ meta \in {Missing, Torn}
  BY <1>2, LeaveOnward, IdleIs DEF Leave, Moves
<1>3. CASE call' = [call EXCEPT ![p].inner = meta, ![p].at = "load"] /\ meta \notin {Missing, Torn}
  <2> DEFINE d == [call[p] EXCEPT !.inner = meta, !.at = "load"]
  <2>1. Moves(p, d)
    BY <1>1, <1>3 DEF Moves, Typed
  <2>2. /\ d \in CallType /\ d.at = "load" /\ d.spec = call[p].spec /\ d.mode = call[p].mode
        /\ d.touched = call[p].touched /\ d.rebuilt = call[p].rebuilt /\ d.inner = meta
        /\ d.outer = call[p].outer
    BY <1>1, <1>3 DEF CallType, Phases
  <2> HIDE DEF d
  <2>3. Onward(call[p], d)
    BY <1>1, <2>2 DEF Onward, Saving
  <2> QED
    BY <1>3, <2>1, <2>2, <2>3
<1> QED
  BY <1>2, <1>3 DEF ReadInner

\* The header is there and so are the vectors it announces.
Loadable == vecs # <<>> /\ vecs[1] \in Specs /\ Len(vecs) >= Count[vecs[1]]

LEMMA ReadVectorsIs ==
  ASSUME Typed, NEW p \in Procs, ReadVectors(p)
  PROVE  \E d : /\ Moves(p, d) /\ Onward(call[p], d)
                /\ \/ d.at = "idle" /\ ~Loadable
                   \/ /\ d.at = "parse" /\ d.vecs = SubSeq(vecs, 1, Count[vecs[1]])
                      /\ d.outer = call[p].outer /\ d.inner = call[p].inner
                      /\ Loadable
<1>1. call[p] \in CallType /\ call[p].at = "load" /\ vecs \in Blocks
  BY DEF Typed, ReadVectors
<1>2. CASE Leave(p) /\ ~Loadable
  BY <1>2, LeaveOnward, IdleIs DEF Leave, Moves
<1>3. CASE call' = [call EXCEPT ![p].vecs = SubSeq(vecs, 1, Count[vecs[1]]), ![p].at = "parse"]
           /\ Loadable
  <2> DEFINE sub == SubSeq(vecs, 1, Count[vecs[1]])
             d == [call[p] EXCEPT !.vecs = sub, !.at = "parse"]
  <2>1. Moves(p, d)
    BY <1>1, <1>3 DEF Moves, Typed
  <2>2. sub \in Blocks
    <3>1. Count[vecs[1]] \in Nat
      BY <1>3, ConstantsAssumption DEF Loadable
    <3> QED
      BY <1>1, <1>3, <3>1 DEF Blocks, Loadable
  <2> HIDE DEF sub
  <2>3. /\ d \in CallType /\ d.at = "parse" /\ d.spec = call[p].spec /\ d.mode = call[p].mode
        /\ d.touched = call[p].touched /\ d.rebuilt = call[p].rebuilt /\ d.vecs = sub
        /\ d.outer = call[p].outer /\ d.inner = call[p].inner
    BY <1>1, <2>2 DEF CallType, Phases
  <2> HIDE DEF d
  <2>4. Onward(call[p], d)
    BY <1>1, <2>3 DEF Onward, Saving
  <2> QED
    BY <1>3, <2>1, <2>3, <2>4 DEF sub
<1> QED
  BY <1>2, <1>3 DEF ReadVectors, Loadable

LEMMA ReadChunksIs ==
  ASSUME Typed, NEW p \in Procs, ReadChunks(p)
  PROVE  LET c == call[p] IN
         \E d : /\ Moves(p, d) /\ Onward(c, d)
                /\ \/ /\ d.at = "idle"
                      /\ \/ \E i \in 1..Len(chunks) : chunks[i] # c.inner
                         \/ Len(chunks) # Count[c.inner]
                         \/ c.outer # c.spec
                   \/ d.at = "build" /\ c.outer # c.spec
                   \/ /\ d.at = "loaded" /\ d.chunks = chunks /\ d.vecs = c.vecs
                      /\ Len(chunks) = Count[c.inner]
<1> DEFINE c == call[p]
<1>1. c \in CallType /\ c.at = "parse" /\ chunks \in Blocks
  BY DEF Typed, ReadChunks
<1>2. CASE Leave(p) /\ (\/ \E i \in 1..Len(chunks) : chunks[i] # c.inner
                        \/ Len(chunks) # Count[c.inner]
                        \/ c.outer # c.spec)
  BY <1>2, LeaveOnward, IdleIs DEF Leave, Moves
<1>3. CASE call' = [call EXCEPT ![p].chunks = chunks, ![p].at = "loaded"]
           /\ Len(chunks) = Count[c.inner]
  <2> DEFINE d == [c EXCEPT !.chunks = chunks, !.at = "loaded"]
  <2>1. Moves(p, d)
    BY <1>1, <1>3 DEF Moves, Typed
  <2>2. /\ d \in CallType /\ d.at = "loaded" /\ d.spec = c.spec /\ d.mode = c.mode
        /\ d.touched = c.touched /\ d.rebuilt = c.rebuilt /\ d.chunks = chunks
        /\ d.vecs = c.vecs
    BY <1>1 DEF CallType, Phases
  <2> HIDE DEF d
  <2>3. Onward(c, d)
    BY <1>1, <2>2 DEF Onward, Saving
  <2> QED
    BY <1>3, <2>1, <2>2, <2>3
<1>4. CASE call' = [call EXCEPT ![p].outer = Missing, ![p].inner = Missing,
                                ![p].vecs = <<>>, ![p].at = "build"]
           /\ c.outer # c.spec
  <2> DEFINE d == [c EXCEPT !.outer = Missing, !.inner = Missing, !.vecs = <<>>, !.at = "build"]
  <2>1. Moves(p, d)
    BY <1>1, <1>4 DEF Moves, Typed
  <2>2. Missing \in SmallFile \ {Torn} /\ <<>> \in Blocks
    BY ConstantsAssumption DEF SmallFile, Blocks
  <2>3. /\ d \in CallType /\ d.at = "build" /\ d.spec = c.spec /\ d.mode = c.mode
        /\ d.touched = c.touched /\ d.rebuilt = c.rebuilt
    BY <1>1, <2>2 DEF CallType, Phases
  <2> HIDE DEF d
  <2>4. Onward(c, d)
    BY <1>1, <2>3 DEF Onward, Saving
  <2> QED
    BY <1>4, <2>1, <2>3, <2>4
<1> QED
  BY <1>2, <1>3, <1>4 DEF ReadChunks, Accept

LEMMA ReadReportIs ==
  ASSUME Typed, NEW p \in Procs, ReadReport(p)
  PROVE  \E d : /\ Moves(p, d) /\ Onward(call[p], d)
                /\ \/ d.at = "idle"
                   \/ /\ d.at = "serving" /\ d.audit = report /\ report \notin {Missing, Torn}
                      /\ d.vecs = call[p].vecs /\ d.chunks = call[p].chunks
<1>1. call[p] \in CallType /\ call[p].at = "loaded" /\ report \in SmallFile
  BY DEF Typed, ReadReport
<1>2. CASE Leave(p)
  BY <1>2, LeaveOnward, IdleIs DEF Leave, Moves
<1>3. CASE call' = [call EXCEPT ![p].audit = report, ![p].at = "serving"]
           /\ report \notin {Missing, Torn}
  <2> DEFINE d == [call[p] EXCEPT !.audit = report, !.at = "serving"]
  <2>1. Moves(p, d)
    BY <1>1, <1>3 DEF Moves, Typed
  <2>2. /\ d \in CallType /\ d.at = "serving" /\ d.spec = call[p].spec /\ d.mode = call[p].mode
        /\ d.touched = call[p].touched /\ d.rebuilt = call[p].rebuilt /\ d.audit = report
        /\ d.vecs = call[p].vecs /\ d.chunks = call[p].chunks
    BY <1>1, <1>3 DEF CallType, Phases
  <2> HIDE DEF d
  <2>3. Onward(call[p], d)
    BY <1>1, <2>2 DEF Onward, Saving
  <2> QED
    BY <1>3, <2>1, <2>2, <2>3
<1> QED
  BY <1>2, <1>3 DEF ReadReport

\* The steps that change nothing but what one process remembers.
Reads(p) == (\E m \in Modes, s \in Specs : Begin(p, m, s)) \/ Load(p) \/ BuildFails(p)

LEMMA ReadsIs ==
  ASSUME Typed, NEW p \in Procs, Reads(p)
  PROVE  /\ UNCHANGED <<files, deaths, hands>> /\ call[p].at \notin Saving
         /\ \E d \in CallType :
              /\ Moves(p, d) /\ d.at \notin Saving
              /\ d.at # "idle" =>
                   /\ d.spec \in Specs
                   /\ d.touched = hands \/ (call[p].at # "idle" /\ d.touched = call[p].touched)
<1>1. ASSUME NEW d, Moves(p, d), Onward(call[p], d)
      PROVE  \E e \in CallType :
              /\ Moves(p, e) /\ e.at \notin Saving
              /\ e.at # "idle" =>
                   /\ e.spec \in Specs
                   /\ e.touched = hands \/ (call[p].at # "idle" /\ e.touched = call[p].touched)
  <2>1. call[p].at # "idle" => call[p].spec \in Specs
    BY DEF Typed
  <2> QED
    BY <1>1, <2>1 DEF Onward
<1>2. CASE \E m \in Modes, s \in Specs : Begin(p, m, s)
  <2>1. PICK m \in Modes, s \in Specs : Begin(p, m, s)
    BY <1>2
  <2>2. PICK d \in CallType : /\ Moves(p, d) /\ d.at \in {"exists", "build", "outer"}
                              /\ d.spec = s /\ d.touched = hands
    BY <2>1, BeginIs
  <2>3. d.at \notin Saving /\ call[p].at \notin Saving
    BY <2>1, <2>2 DEF Saving, Begin
  <2> QED
    BY <2>1, <2>2, <2>3 DEF Begin
<1>3. CASE Exists(p)
  BY <1>1, <1>3, ExistsIs DEF Exists, Saving
<1>4. CASE ReadOuter(p)
  BY <1>1, <1>4, ReadOuterIs DEF ReadOuter, Saving
<1>5. CASE ReadInner(p)
  BY <1>1, <1>5, ReadInnerIs DEF ReadInner, Saving
<1>6. CASE ReadVectors(p)
  BY <1>1, <1>6, ReadVectorsIs DEF ReadVectors, Saving
<1>7. CASE ReadChunks(p)
  BY <1>1, <1>7, ReadChunksIs DEF ReadChunks, Saving
<1>8. CASE ReadReport(p)
  BY <1>1, <1>8, ReadReportIs DEF ReadReport, Saving
<1>9. CASE Release(p) \/ BuildFails(p)
  BY <1>1, <1>9, LeaveOnward DEF Release, BuildFails, Leave, Moves, Saving
<1> QED
  BY <1>2, <1>3, <1>4, <1>5, <1>6, <1>7, <1>8, <1>9 DEF Reads, Load

-----------------------------------------------------------------------------
(* What a step that writes does to the builder that takes it.              *)

\* A builder that goes on building.
Working(c, d) ==
  /\ c.at \in Saving /\ d.at \in Saving /\ d \in CallType
  /\ d.spec = c.spec /\ d.alone = c.alone /\ d.touched = c.touched

LEMMA GoesOnWorking ==
  ASSUME Typed, NEW p \in Procs, NEW phase \in Saving, Goto(p, phase), call[p].at \in Saving
  PROVE  \E d : Moves(p, d) /\ Working(call[p], d) /\ d.at = phase
<1> DEFINE d == [call[p] EXCEPT !.at = phase]
<1>1. phase \in Phases /\ call[p] \in CallType
  BY DEF Phases, Typed
<1>2. Moves(p, d)
  BY DEF Goto, Moves
<1>3. /\ d \in CallType /\ d.at = phase /\ d.spec = call[p].spec /\ d.alone = call[p].alone
      /\ d.touched = call[p].touched
  BY <1>1, GoesOn
<1> HIDE DEF d
<1> QED
  BY <1>2, <1>3 DEF Working

\* A builder in a phase, at block n.
AtBlock(c, phase, n) == [c EXCEPT !.at = phase, !.pos = n]

LEMMA AtBlockWorking ==
  ASSUME NEW c \in CallType, c.at \in Saving, NEW phase \in Saving, NEW n \in Nat
  PROVE  /\ Working(c, AtBlock(c, phase, n))
         /\ AtBlock(c, phase, n).at = phase /\ AtBlock(c, phase, n).pos = n
<1> DEFINE d == [c EXCEPT !.at = phase, !.pos = n]
<1>1. phase \in Phases
  BY DEF Phases
<1>2. /\ d \in CallType /\ d.at = phase /\ d.spec = c.spec /\ d.alone = c.alone
      /\ d.touched = c.touched /\ d.pos = n
  BY <1>1 DEF CallType
<1> HIDE DEF d
<1>3. Working(c, d) /\ d.at = phase /\ d.pos = n
  BY <1>2 DEF Working
<1> QED
  BY <1>3 DEF d, AtBlock

\* The next block, of the vectors or of the chunks.
LEMMA WriteBlockIs ==
  ASSUME Typed, NEW p \in Procs, WriteVector(p) \/ WriteChunk(p)
  PROVE  \E d : /\ Moves(p, d) /\ Working(call[p], d) /\ d.at = call[p].at
                /\ d.pos = call[p].pos + 1
<1> DEFINE c == call[p]
           d == AtBlock(c, c.at, c.pos + 1)
<1>1. c \in CallType /\ c.at \in {"vectors", "chunks"} /\ c.pos \in Nat
  BY DEF Typed, WriteVector, WriteChunk, CallType
<1>2. c.at \in Saving /\ c.pos + 1 \in Nat
  BY <1>1 DEF Saving
<1>3. Working(c, d) /\ d.at = c.at /\ d.pos = c.pos + 1
  BY <1>1, <1>2, AtBlockWorking
<1>4. [c EXCEPT !.pos = c.pos + 1] = d
  BY <1>1 DEF CallType, AtBlock
<1>5. call' = [call EXCEPT ![p] = [c EXCEPT !.pos = c.pos + 1]]
  BY DEF WriteVector, WriteChunk
<1>6. Moves(p, d)
  BY <1>4, <1>5 DEF Moves
<1> HIDE DEF c, d
<1> QED
  BY <1>3, <1>6 DEF c

LEMMA OpenChunksIs ==
  ASSUME Typed, NEW p \in Procs, OpenChunks(p)
  PROVE  \E d : Moves(p, d) /\ Working(call[p], d) /\ d.at = "chunks" /\ d.pos = 0
<1> DEFINE d == AtBlock(call[p], "chunks", 0)
<1>1. call[p].at \in Saving /\ "chunks" \in Saving /\ call[p] \in CallType
  BY DEF OpenChunks, Saving, Typed
<1>2. Working(call[p], d) /\ d.at = "chunks" /\ d.pos = 0
  BY <1>1, AtBlockWorking
<1>3. Moves(p, d)
  BY <1>1 DEF OpenChunks, Typed, Moves, AtBlock
<1> HIDE DEF d
<1> QED
  BY <1>2, <1>3

LEMMA SmallFileIs ==
  ASSUME Typed, NEW p \in Procs
  PROVE  /\ OpenMeta(p) => \E d : Moves(p, d) /\ Working(call[p], d) /\ d.at = "meta"
         /\ WriteMeta(p) => \E d : Moves(p, d) /\ Working(call[p], d) /\ d.at = "report"
         /\ OpenReport(p) => \E d : Moves(p, d) /\ Working(call[p], d) /\ d.at = "reporting"
<1>1. {"meta", "report", "reporting", "chunks"} \subseteq Saving
  BY DEF Saving
<1> QED
  BY <1>1, GoesOnWorking DEF OpenMeta, WriteMeta, OpenReport

\* The builder is no builder any more; an index that is wanted is opened.
LEMMA FinishIs ==
  ASSUME Typed, NEW p \in Procs, WriteReport(p), hands' \in SUBSET (Specs \cup {Writing, Overlap})
  PROVE  \E d \in CallType :
           /\ Moves(p, d) /\ d.at \in {"idle", "outer"}
           /\ d.at = "outer" => d.spec = call[p].spec /\ d.touched = hands'
<1>1. call[p] \in CallType
  BY DEF Typed
<1>2. CASE Leave(p)
  BY <1>2, IdleIs DEF Leave, Moves
<1>3. CASE call' = [call EXCEPT ![p] =
            [Idle EXCEPT !.at = "outer", !.spec = call[p].spec, !.rebuilt = TRUE,
                         !.touched = hands']]
  <2> DEFINE now == hands'
             d == [Idle EXCEPT !.at = "outer", !.spec = call[p].spec, !.rebuilt = TRUE,
                               !.touched = now]
  <2>1. Moves(p, d)
    BY <1>3 DEF Moves
  <2>2. now \in SUBSET (Specs \cup {Writing, Overlap})
    OBVIOUS
  <2> HIDE DEF now
  <2>3. call[p].spec \in Specs \cup {Missing}
    BY <1>1 DEF CallType
  <2>4. d \in CallType /\ d.at = "outer" /\ d.spec = call[p].spec /\ d.touched = now
    BY <2>2, <2>3, IdleIs DEF CallType, Phases
  <2> HIDE DEF d
  <2> QED
    BY <2>1, <2>4 DEF now
<1> QED
  BY <1>2, <1>3 DEF WriteReport

\* What everybody notes when p begins to write.
Begun(p) == {call[p].spec, Writing} \cup (IF Builders = {} THEN {} ELSE {Overlap})

LEMMA OpenIs ==
  ASSUME Typed, NEW p \in Procs, OpenVectors(p)
  PROVE  /\ call' \in [Procs -> CallType]
         /\ call'[p].at = "vectors" /\ call'[p].pos = 0 /\ call'[p].alone = (Builders = {})
         /\ call[p].at # "idle" /\ hands' = hands \cup Begun(p)
         /\ \A q \in Procs : q # p /\ call[q].at = "idle" => call'[q] = call[q]
         /\ \A q \in Procs : call[q].at # "idle" =>
              call'[q].touched = call[q].touched \cup Begun(p)
         /\ \A q \in Procs : q # p => call'[q].at = call[q].at
         /\ \A q \in Procs : q # p /\ call[q].at # "idle" => ~call'[q].alone
         /\ \A q \in Procs : /\ call'[q].spec = call[q].spec
                             /\ call'[q].outer = call[q].outer /\ call'[q].inner = call[q].inner
                             /\ call'[q].vecs = call[q].vecs /\ call'[q].chunks = call[q].chunks
                             /\ call'[q].audit = call[q].audit
<1> DEFINE begun == Begun(p)
           mine == [call[p] EXCEPT !.at = "vectors", !.pos = 0, !.alone = (Builders = {}),
                                   !.touched = @ \cup begun]
           theirs(q) == [call[q] EXCEPT !.touched = @ \cup begun, !.alone = FALSE]
<1>1. /\ hands' = hands \cup begun /\ call[p].at = "build"
      /\ call' = [q \in Procs |-> CASE q = p -> mine
                                    [] q # p /\ call[q].at = "idle" -> call[q]
                                    [] OTHER -> theirs(q)]
  BY DEF OpenVectors, Begun
<1>2. call[p].spec \in Specs /\ \A q \in Procs : call[q] \in CallType
  BY <1>1 DEF Typed
<1>3. begun \in SUBSET (Specs \cup {Writing, Overlap}) /\ (Builders = {}) \in BOOLEAN
  BY <1>2 DEF Begun
<1> DEFINE nobody == Builders = {}
<1> HIDE DEF begun, nobody
<1>4. /\ mine \in CallType /\ mine.at = "vectors" /\ mine.pos = 0 /\ mine.alone = nobody
      /\ mine.touched = call[p].touched \cup begun /\ mine.spec = call[p].spec
      /\ mine.outer = call[p].outer /\ mine.inner = call[p].inner
      /\ mine.vecs = call[p].vecs /\ mine.chunks = call[p].chunks
      /\ mine.audit = call[p].audit
  BY <1>2, <1>3 DEF CallType, Phases, Saving, nobody
<1>5. ASSUME NEW q \in Procs
      PROVE  /\ theirs(q) \in CallType /\ theirs(q).at = call[q].at /\ ~theirs(q).alone
             /\ theirs(q).touched = call[q].touched \cup begun /\ theirs(q).spec = call[q].spec
             /\ theirs(q).outer = call[q].outer /\ theirs(q).inner = call[q].inner
             /\ theirs(q).vecs = call[q].vecs /\ theirs(q).chunks = call[q].chunks
             /\ theirs(q).audit = call[q].audit
  BY <1>2, <1>3 DEF CallType
<1>6. call'[p] = mine
  BY <1>1
<1>7. \A q \in Procs : q # p /\ call[q].at = "idle" => call'[q] = call[q]
  BY <1>1
<1>8. \A q \in Procs : q # p /\ call[q].at # "idle" => call'[q] = theirs(q)
  BY <1>1
<1>9. \A q \in Procs : q = p \/ call[q].at = "idle" \/ call[q].at # "idle"
  OBVIOUS
<1> HIDE DEF mine, theirs
<1>10. call' \in [Procs -> CallType]
  <2>1. \A q \in Procs : call'[q] \in CallType
    BY <1>2, <1>4, <1>5, <1>6, <1>7, <1>8
  <2>2. call' = [q \in Procs |-> call'[q]]
    BY <1>1
  <2> QED
    BY <2>1, <2>2
<1> QED
  BY <1>1, <1>4, <1>5, <1>6, <1>7, <1>8, <1>10 DEF begun, nobody

-----------------------------------------------------------------------------
(* Files made of blocks.                                                   *)

LEMMA PutBlock ==
  ASSUME NEW file \in Blocks, NEW i \in Nat \ {0}, NEW s \in Specs
  PROVE  Put(file, i, s) \in Blocks
<1> DEFINE n == Len(file)
           m == IF i > n THEN i ELSE n
           block(j) == IF j = i THEN s ELSE IF j <= n THEN file[j] ELSE Hole
<1>1. n \in Nat /\ m \in Nat /\ \A j \in 1..n : file[j] \in Specs \cup {Hole}
  BY DEF Blocks
<1> HIDE DEF n
<1>2. \A j \in 1..m : block(j) \in Specs \cup {Hole}
  BY <1>1
<1> HIDE DEF m, block
<1>3. [j \in 1..m |-> block(j)] \in Seq(Specs \cup {Hole})
  BY <1>1, <1>2
<1>4. Put(file, i, s) = [j \in 1..m |-> block(j)]
  BY DEF Put, m, block, n
<1> QED
  BY <1>3, <1>4 DEF Blocks

LEMMA BlockedIs ==
  ASSUME NEW s, NEW n \in Nat
  PROVE  /\ Len(Blocked(s, n)) = n /\ DOMAIN Blocked(s, n) = 1..n
         /\ \A i \in 1..n : Blocked(s, n)[i] = s
BY DEF Blocked

\* A file of s, written from the start, one block further.
LEMMA PutNext ==
  ASSUME NEW s, NEW n \in Nat
  PROVE  Put(Blocked(s, n), n + 1, s) = Blocked(s, n + 1)
<1> DEFINE file == Blocked(s, n)
           m == IF n + 1 > Len(file) THEN n + 1 ELSE Len(file)
           block(j) == IF j = n + 1 THEN s ELSE IF j <= Len(file) THEN file[j] ELSE Hole
<1>1. Len(file) = n /\ \A i \in 1..n : file[i] = s
  BY BlockedIs
<1> HIDE DEF file
<1>2. m = n + 1
  BY <1>1
<1>3. \A j \in 1..n + 1 : block(j) = s
  BY <1>1
<1>4. Put(file, n + 1, s) = [j \in 1..m |-> block(j)]
  BY DEF Put
<1> HIDE DEF m, block
<1>5. Put(file, n + 1, s) = [j \in 1..n + 1 |-> s]
  BY <1>2, <1>3, <1>4
<1> QED
  BY <1>5 DEF file, Blocked

LEMMA EmptyBlocked ==
  ASSUME NEW s
  PROVE  <<>> = Blocked(s, 0)
BY DEF Blocked

\* How many blocks a spec has, and a file that has them all.
LEMMA WholeIs ==
  ASSUME NEW s \in Specs
  PROVE  /\ Count[s] \in Nat \ {0} /\ Whole(s) = Blocked(s, Count[s])
         /\ Pure(Whole(s), s) /\ Pure(<<>>, s)
<1>1. Count[s] \in Nat \ {0} /\ Whole(s) = Blocked(s, Count[s])
  BY ConstantsAssumption DEF Whole, Blocked
<1>2. Count[s] \in 0..Count[s] /\ 0 \in 0..Count[s]
  BY <1>1
<1>3. Pure(Whole(s), s)
  BY <1>1, <1>2 DEF Pure
<1>4. Pure(<<>>, s)
  BY <1>2, EmptyBlocked DEF Pure
<1> QED
  BY <1>1, <1>3, <1>4

\* What is read of a file of s is all of s, or refused.
LEMMA PureLoads ==
  ASSUME NEW s \in Specs, Pure(vecs, s), Loadable
  PROVE  SubSeq(vecs, 1, Count[vecs[1]]) = Whole(s)
<1>1. PICK n \in 0..Count[s] : vecs = Blocked(s, n)
  BY DEF Pure
<1>2. Count[s] \in Nat \ {0} /\ n \in Nat
  BY WholeIs
<1>3. n # 0
  BY <1>1, EmptyBlocked DEF Loadable
<1>4. Len(vecs) = n /\ vecs[1] = s
  BY <1>1, <1>2, <1>3, BlockedIs
<1>5. n = Count[s]
  BY <1>2, <1>4 DEF Loadable
<1>6. vecs = Whole(s) /\ vecs = [i \in 1..n |-> s]
  BY <1>1, <1>2, <1>5, WholeIs DEF Blocked
<1>7. SubSeq(vecs, 1, n) = [i \in 1..n |-> s]
  BY <1>2, <1>6
<1> QED
  BY <1>4, <1>5, <1>6, <1>7

LEMMA PureCounts ==
  ASSUME NEW s \in Specs, NEW file, Pure(file, s), Len(file) = Count[s]
  PROVE  file = Whole(s)
<1>1. PICK n \in 0..Count[s] : file = Blocked(s, n)
  BY DEF Pure
<1>2. n = Count[s]
  BY <1>1, BlockedIs, WholeIs
<1> QED
  BY <1>1, <1>2, WholeIs

LEMMA WholeLoads ==
  ASSUME NEW s \in Specs
  PROVE  /\ vecs = Whole(s) => Loadable
         /\ Len(Whole(s)) = Count[s] /\ \A i \in 1..Count[s] : Whole(s)[i] = s
         /\ Whole(s) \in Blocks
<1>1. Count[s] \in Nat \ {0} /\ Whole(s) = Blocked(s, Count[s])
  BY WholeIs
<1>2. Len(Whole(s)) = Count[s] /\ \A i \in 1..Count[s] : Whole(s)[i] = s
  BY <1>1, BlockedIs
<1>3. Whole(s) # <<>>
  BY <1>1, <1>2
<1>4. vecs = Whole(s) => Loadable
  BY <1>1, <1>2, <1>3 DEF Loadable
<1>5. Whole(s) \in Blocks
  BY <1>1 DEF Blocks, Blocked
<1> QED
  BY <1>2, <1>4, <1>5

-----------------------------------------------------------------------------
(* Types and hands.                                                        *)

\* The steps of a builder in the middle of its work.
Works(p) ==
  \/ WriteVector(p) \/ OpenChunks(p) \/ WriteChunk(p) \/ OpenMeta(p) \/ WriteMeta(p)
  \/ OpenReport(p)

LEMMA WorksIs ==
  ASSUME Typed, NEW p \in Procs, Works(p)
  PROVE  UNCHANGED <<deaths, hands>> /\ \E d : Moves(p, d) /\ Working(call[p], d)
<1>1. UNCHANGED <<deaths, hands>>
  BY DEF Works, WriteVector, OpenChunks, WriteChunk, OpenMeta, WriteMeta, OpenReport
<1>2. CASE WriteVector(p) \/ WriteChunk(p)
  BY <1>1, <1>2, WriteBlockIs
<1>3. CASE OpenChunks(p)
  BY <1>1, <1>3, OpenChunksIs
<1>4. CASE OpenMeta(p) \/ WriteMeta(p) \/ OpenReport(p)
  BY <1>1, <1>4, SmallFileIs
<1> QED
  BY <1>2, <1>3, <1>4 DEF Works

\* Every step is one of five kinds.
LEMMA Kinds ==
  ASSUME [Next]_vars
  PROVE  \/ \E p \in Procs : Reads(p)
         \/ \E p \in Procs : OpenVectors(p)
         \/ \E p \in Procs : Works(p)
         \/ \E p \in Procs : WriteReport(p)
         \/ \E p \in Procs : Die(p)
         \/ UNCHANGED vars
BY DEF Next, Build, Reads, Works

LEMMA WritesBlocks ==
  ASSUME Typed, NEW p \in Procs, Works(p)
  PROVE  /\ vecs' \in Blocks /\ chunks' \in Blocks
         /\ meta' \in SmallFile
         /\ report' = report \/ report' = Torn
<1>1. call[p].at \in Saving /\ call[p] \in CallType /\ vecs \in Blocks /\ chunks \in Blocks
  BY DEF Typed, Works, WriteVector, OpenChunks, WriteChunk, OpenMeta, WriteMeta, OpenReport, Saving
<1>2. call[p].spec \in Specs /\ call[p].pos + 1 \in Nat \ {0}
  BY <1>1 DEF Typed, Saving, CallType
<1>3. <<>> \in Blocks /\ Torn \in SmallFile /\ call[p].spec \in SmallFile
  BY <1>2 DEF Blocks, SmallFile
<1>4. /\ Put(vecs, call[p].pos + 1, call[p].spec) \in Blocks
      /\ Put(chunks, call[p].pos + 1, call[p].spec) \in Blocks
  BY <1>1, <1>2, PutBlock
<1>5. vecs' \in Blocks /\ chunks' \in Blocks
  BY <1>1, <1>3, <1>4
     DEF Works, WriteVector, OpenChunks, WriteChunk, OpenMeta, WriteMeta, OpenReport
<1>6. meta' \in SmallFile /\ (report' = report \/ report' = Torn)
  BY <1>3 DEF Typed, Works, WriteVector, OpenChunks, WriteChunk, OpenMeta, WriteMeta, OpenReport,
              Written
<1> QED
  BY <1>5, <1>6

LEMMA TypedStep ==
  ASSUME Typed, [Next]_vars
  PROVE  Typed'
<1>1. ASSUME NEW p \in Procs, NEW d \in CallType, Moves(p, d),
             d.at # "idle" => d.spec \in Specs
      PROVE  /\ call' \in [Procs -> CallType]
             /\ \A q \in Procs : call'[q].at # "idle" => call'[q].spec \in Specs
  <2>1. /\ call' \in [Procs -> CallType] /\ call'[p] = d
        /\ \A q \in Procs : q # p => call'[q] = call[q]
    BY <1>1, MovesIs
  <2>2. \A q \in Procs : q = p \/ call'[q] = call[q]
    BY <2>1
  <2> QED
    BY <1>1, <2>1, <2>2 DEF Typed
<1>2. CASE \E p \in Procs : Reads(p)
  <2>1. PICK p \in Procs : Reads(p)
    BY <1>2
  <2>2. UNCHANGED <<files, deaths, hands>>
    BY <2>1, ReadsIs
  <2>3. PICK d \in CallType : Moves(p, d) /\ (d.at # "idle" => d.spec \in Specs)
    BY <2>1, ReadsIs
  <2> QED
    BY <1>1, <2>2, <2>3 DEF Typed, files
<1>3. CASE \E p \in Procs : OpenVectors(p)
  <2>1. PICK p \in Procs : OpenVectors(p)
    BY <1>3
  <2>2. /\ call' \in [Procs -> CallType] /\ call[p].at # "idle" /\ hands' = hands \cup Begun(p)
        /\ \A q \in Procs : q # p => call'[q].at = call[q].at
        /\ \A q \in Procs : call'[q].spec = call[q].spec
    BY <2>1, OpenIs
  <2>3. call[p].spec \in Specs
    BY <2>2 DEF Typed
  <2>4. hands' \in SUBSET (Specs \cup {Writing, Overlap})
    BY <2>2, <2>3 DEF Begun, Typed
  <2>5. \A q \in Procs : call'[q].at # "idle" => call'[q].spec \in Specs
    <3>1. \A q \in Procs : q = p \/ call'[q].at = call[q].at
      BY <2>2
    <3> QED
      BY <2>2, <2>3, <3>1 DEF Typed
  <2>6. vecs' = <<>> /\ UNCHANGED <<chunks, meta, report, deaths>>
    BY <2>1 DEF OpenVectors
  <2>7. <<>> \in Blocks
    BY DEF Blocks
  <2> QED
    BY <2>2, <2>4, <2>5, <2>6, <2>7 DEF Typed
<1>4. CASE \E p \in Procs : Works(p)
  <2>1. PICK p \in Procs : Works(p)
    BY <1>4
  <2>2. PICK d : Moves(p, d) /\ Working(call[p], d)
    BY <2>1, WorksIs
  <2>3. d \in CallType /\ d.spec \in Specs
    BY <2>2 DEF Working, Typed, Saving
  <2>4. UNCHANGED <<deaths, hands>> /\ vecs' \in Blocks /\ chunks' \in Blocks
        /\ meta' \in SmallFile /\ report' \in SmallFile
    <3>1. report \in SmallFile /\ Torn \in SmallFile
      BY DEF Typed, SmallFile
    <3>2. UNCHANGED <<deaths, hands>>
      BY <2>1, WorksIs
    <3> QED
      BY <2>1, <3>1, <3>2, WritesBlocks
  <2> QED
    BY <1>1, <2>2, <2>3, <2>4 DEF Typed
<1>5. CASE \E p \in Procs : WriteReport(p)
  <2>1. PICK p \in Procs : WriteReport(p)
    BY <1>5
  <2>2. call[p].spec \in Specs
    BY <2>1 DEF WriteReport, Typed
  <2>3. hands' \in SUBSET (Specs \cup {Writing, Overlap})
    BY <2>1, <2>2 DEF WriteReport, Typed
  <2>4. PICK d \in CallType : /\ Moves(p, d) /\ d.at \in {"idle", "outer"}
                              /\ d.at = "outer" => d.spec = call[p].spec /\ d.touched = hands'
    BY <2>1, <2>3, FinishIs
  <2>5. UNCHANGED <<vecs, chunks, meta, deaths>> /\ report' \in SmallFile
    BY <2>1, <2>2 DEF WriteReport, Written, SmallFile
  <2> QED
    BY <1>1, <2>2, <2>3, <2>4, <2>5 DEF Typed
<1>6. CASE \E p \in Procs : Die(p)
  <2>1. PICK p \in Procs : Die(p)
    BY <1>6
  <2>2. Moves(p, Idle) /\ UNCHANGED <<files, hands>> /\ deaths' \in 0..MaxDeaths
    BY <2>1, ConstantsAssumption DEF Die, Leave, Moves, Typed
  <2> QED
    BY <1>1, <2>2, IdleIs DEF Typed, files
<1>7. CASE UNCHANGED vars
  BY <1>7 DEF Typed, vars, files
<1> QED
  BY <1>2, <1>3, <1>4, <1>5, <1>6, <1>7, Kinds

\* Who is building, after a step in which p becomes d.
LEMMA BuildersAfter ==
  ASSUME Typed, NEW p \in Procs, NEW d \in CallType, Moves(p, d)
  PROVE  /\ d.at \notin Saving => Builders' = Builders \ {p}
         /\ d.at \in Saving => Builders' = Builders \cup {p}
<1>1. /\ call'[p] = d
      /\ \A q \in Procs : q # p => call'[q] = call[q]
  BY MovesIs
<1>2. \A q \in Procs : q = p \/ call'[q] = call[q]
  BY <1>1
<1> QED
  BY <1>1, <1>2 DEF Builders

LEMMA NotedStep ==
  ASSUME Typed, Handed, Noted, [Next]_vars
  PROVE  Noted'
<1>1. ASSUME NEW p \in Procs, NEW d \in CallType, Moves(p, d), hands' \subseteq hands,
             d.at # "idle" => hands' \subseteq d.touched
      PROVE  Noted'
  <2>1. /\ call'[p] = d /\ \A q \in Procs : q # p => call'[q] = call[q]
    BY <1>1, MovesIs
  <2>2. \A q \in Procs : q = p \/ call'[q] = call[q]
    BY <2>1
  <2> QED
    BY <1>1, <2>1, <2>2 DEF Noted
<1>2. CASE \E p \in Procs : Reads(p)
  <2>1. PICK p \in Procs : Reads(p)
    BY <1>2
  <2>2. PICK d \in CallType :
           Moves(p, d) /\ (d.at # "idle" =>
             d.touched = hands \/ (call[p].at # "idle" /\ d.touched = call[p].touched))
    BY <2>1, ReadsIs
  <2>3. hands' = hands
    BY <2>1, ReadsIs
  <2> QED
    BY <1>1, <2>2, <2>3 DEF Noted
<1>3. CASE \E p \in Procs : OpenVectors(p)
  <2>1. PICK p \in Procs : OpenVectors(p)
    BY <1>3
  <2>2. /\ call[p].at # "idle" /\ hands' = hands \cup Begun(p)
        /\ \A q \in Procs : call[q].at # "idle" =>
             call'[q].touched = call[q].touched \cup Begun(p)
        /\ \A q \in Procs : q # p => call'[q].at = call[q].at
    BY <2>1, OpenIs
  <2>3. \A q \in Procs : q = p \/ call'[q].at = call[q].at
    BY <2>2
  <2> QED
    BY <2>2, <2>3 DEF Noted
<1>4. CASE \E p \in Procs : Works(p)
  <2>1. PICK p \in Procs : Works(p)
    BY <1>4
  <2>2. PICK d : Moves(p, d) /\ Working(call[p], d)
    BY <2>1, WorksIs
  <2>3. d \in CallType /\ call[p].at # "idle" /\ d.touched = call[p].touched /\ hands' = hands
    BY <2>1, <2>2, WorksIs DEF Working, Saving
  <2> QED
    BY <1>1, <2>2, <2>3 DEF Noted
<1>5. CASE \E p \in Procs : WriteReport(p)
  <2>1. PICK p \in Procs : WriteReport(p)
    BY <1>5
  <2>2. call[p].alone => call[p].spec \in hands
    BY <2>1 DEF WriteReport, Handed, Builders, Saving
  <2>3. hands' \subseteq hands /\ hands' \in SUBSET (Specs \cup {Writing, Overlap})
    BY <2>1, <2>2 DEF WriteReport, Typed
  <2>4. PICK d \in CallType : /\ Moves(p, d) /\ d.at \in {"idle", "outer"}
                              /\ d.at = "outer" => d.spec = call[p].spec /\ d.touched = hands'
    BY <2>1, <2>3, FinishIs
  <2> QED
    BY <1>1, <2>3, <2>4
<1>6. CASE \E p \in Procs : Die(p)
  <2>1. PICK p \in Procs : Die(p)
    BY <1>6
  <2>2. Moves(p, Idle) /\ hands' = hands
    BY <2>1 DEF Die, Leave, Moves
  <2> QED
    BY <1>1, <2>2, IdleIs
<1>7. CASE UNCHANGED vars
  BY <1>7 DEF Noted, vars
<1> QED
  BY <1>2, <1>3, <1>4, <1>5, <1>6, <1>7, Kinds

\* A builder stands alone, or two of them are known.
LEMMA HandedStep ==
  ASSUME Typed, Handed, [Next]_vars
  PROVE  Handed'
<1>1. ASSUME NEW p \in Procs, NEW d \in CallType, Moves(p, d), hands' = hands,
             d.at \notin Saving
      PROVE  Handed'
  <2>1. Builders' = Builders \ {p}
    BY <1>1, BuildersAfter
  <2>2. \A q \in Builders' : q \in Builders /\ call'[q] = call[q]
    BY <1>1, <2>1, MovesIs DEF Builders
  <2> QED
    BY <1>1, <2>1, <2>2 DEF Handed
<1>2. CASE \E p \in Procs : Reads(p)
  <2>1. PICK p \in Procs : Reads(p)
    BY <1>2
  <2>2. hands' = hands
    BY <2>1, ReadsIs
  <2>3. PICK d \in CallType : Moves(p, d) /\ d.at \notin Saving
    BY <2>1, ReadsIs
  <2> QED
    BY <1>1, <2>2, <2>3
<1>3. CASE \E p \in Procs : OpenVectors(p)
  <2>1. PICK p \in Procs : OpenVectors(p)
    BY <1>3
  <2>2. /\ call'[p].at = "vectors" /\ call'[p].alone = (Builders = {})
        /\ hands' = hands \cup Begun(p)
        /\ \A q \in Procs : q # p => call'[q].at = call[q].at
        /\ \A q \in Procs : q # p /\ call[q].at # "idle" => ~call'[q].alone
        /\ \A q \in Procs : call'[q].spec = call[q].spec
    BY <2>1, OpenIs
  <2>3. call[p].at = "build"
    BY <2>1 DEF OpenVectors
  <2>4. p \notin Builders
    BY <2>3 DEF Builders, Saving
  <2>5. Builders' = Builders \cup {p}
    <3>1. \A q \in Procs : q = p \/ call'[q].at = call[q].at
      BY <2>2
    <3> QED
      BY <2>2, <3>1 DEF Builders, Saving
  <2>6. Writing \in hands' /\ call'[p].spec \in hands' /\ (Builders # {} => Overlap \in hands')
    BY <2>2 DEF Begun
  <2>7. ASSUME NEW q \in Builders PROVE call'[q].spec \in hands' /\ ~call'[q].alone
    <3>1. q \in Procs /\ call[q].at # "idle" /\ q # p
      BY <2>4 DEF Builders, Saving
    <3> QED
      BY <2>2, <3>1 DEF Handed
  <2> QED
    BY <2>2, <2>5, <2>6, <2>7 DEF Handed
<1>4. CASE \E p \in Procs : Works(p)
  <2>1. PICK p \in Procs : Works(p)
    BY <1>4
  <2>2. PICK d : Moves(p, d) /\ Working(call[p], d)
    BY <2>1, WorksIs
  <2>3. /\ d \in CallType /\ d.spec = call[p].spec /\ d.alone = call[p].alone
        /\ d.at \in Saving /\ p \in Builders
    BY <2>2 DEF Working, Builders
  <2>4. Builders' = Builders
    BY <2>2, <2>3, BuildersAfter
  <2>5. \A q \in Procs : call'[q].spec = call[q].spec /\ call'[q].alone = call[q].alone
    <3>1. call'[p] = d /\ \A q \in Procs : q # p => call'[q] = call[q]
      BY <2>2, <2>3, MovesIs
    <3>2. \A q \in Procs : q = p \/ call'[q] = call[q]
      BY <3>1
    <3> QED
      BY <2>3, <3>1, <3>2
  <2>6. hands' = hands
    BY <2>1, WorksIs
  <2>7. Builders \subseteq Procs
    BY DEF Builders
  <2> QED
    BY <2>4, <2>5, <2>6, <2>7 DEF Handed
<1>5. CASE \E p \in Procs : WriteReport(p)
  <2>1. PICK p \in Procs : WriteReport(p)
    BY <1>5
  <2>2. call[p].at = "reporting" /\ call[p].spec \in Specs /\ p \in Builders
    BY <2>1 DEF WriteReport, Typed, Builders, Saving
  <2>3. hands' \in SUBSET (Specs \cup {Writing, Overlap})
    BY <2>1, <2>2 DEF WriteReport, Typed
  <2>4. PICK d \in CallType : Moves(p, d) /\ d.at \in {"idle", "outer"}
    BY <2>1, <2>3, FinishIs
  <2>5. d.at \notin Saving
    BY <2>4 DEF Saving
  <2>6. CASE call[p].alone
    <3>1. Builders' = {}
      BY <2>2, <2>4, <2>5, <2>6, BuildersAfter DEF Handed
    <3> QED
      BY <3>1 DEF Handed
  <2>7. CASE ~call[p].alone
    <3>1. hands' = hands
      BY <2>1, <2>7 DEF WriteReport
    <3> QED
      BY <1>1, <2>4, <2>5, <3>1
  <2> QED
    BY <2>6, <2>7
<1>6. CASE \E p \in Procs : Die(p)
  <2>1. PICK p \in Procs : Die(p)
    BY <1>6
  <2>2. Moves(p, Idle) /\ hands' = hands /\ Idle.at \notin Saving
    BY <2>1, IdleIs DEF Die, Leave, Moves, Saving
  <2> QED
    BY <1>1, <2>2, IdleIs
<1>7. CASE UNCHANGED vars
  BY <1>7 DEF Handed, Builders, vars
<1> QED
  BY <1>2, <1>3, <1>4, <1>5, <1>6, <1>7, Kinds

-----------------------------------------------------------------------------
(* The files.                                                              *)

\* A builder that is alone and has made what it should goes on making it.
LEMMA WorksBuilt ==
  ASSUME Typed, NEW p \in Procs, Works(p), Built(call[p])
  PROVE  \E d : Moves(p, d) /\ Working(call[p], d) /\ Made(d, vecs', chunks', meta', report')
<1> DEFINE c == call[p]
           s == c.spec
<1>1. c \in CallType /\ c.pos \in Nat
  BY DEF Typed, CallType
<1>2. CASE WriteVector(p)
  <2>1. /\ c.at = "vectors" /\ c.pos < Count[s] /\ vecs' = Put(vecs, c.pos + 1, s)
        /\ vecs = Blocked(s, c.pos)
    BY <1>2 DEF WriteVector, Built, Made
  <2>2. PICK d : Moves(p, d) /\ Working(c, d) /\ d.at = c.at /\ d.pos = c.pos + 1
    BY <1>2, WriteBlockIs
  <2>3. vecs' = Blocked(s, d.pos) /\ d.pos <= Count[s] /\ d.spec = s
    <3>1. s \in Specs
      BY <2>1 DEF Typed
    <3> QED
      BY <1>1, <2>1, <2>2, <3>1, PutNext, WholeIs DEF Working
  <2>4. Made(d, vecs', chunks', meta', report')
    BY <2>1, <2>2, <2>3 DEF Made
  <2> QED
    BY <2>2, <2>4
<1>3. CASE OpenChunks(p)
  <2>1. /\ c.at = "vectors" /\ c.pos = Count[s] /\ chunks' = <<>> /\ vecs' = vecs
        /\ vecs = Blocked(s, c.pos) /\ s \in Specs
    BY <1>3 DEF OpenChunks, Built, Made, Typed
  <2>2. PICK d : Moves(p, d) /\ Working(c, d) /\ d.at = "chunks" /\ d.pos = 0
    BY <1>3, OpenChunksIs
  <2>3. d.spec = s /\ vecs' = Whole(s) /\ chunks' = Blocked(s, 0) /\ 0 <= Count[s]
    BY <2>1, <2>2, WholeIs, EmptyBlocked DEF Working
  <2>4. Made(d, vecs', chunks', meta', report')
    BY <2>2, <2>3 DEF Built, Made
  <2> QED
    BY <2>2, <2>4
<1>4. CASE WriteChunk(p)
  <2>1. /\ c.at = "chunks" /\ c.pos < Count[s] /\ chunks' = Put(chunks, c.pos + 1, s)
        /\ chunks = Blocked(s, c.pos) /\ vecs' = vecs /\ vecs = Whole(s)
    BY <1>4 DEF WriteChunk, Built, Made
  <2>2. PICK d : Moves(p, d) /\ Working(c, d) /\ d.at = c.at /\ d.pos = c.pos + 1
    BY <1>4, WriteBlockIs
  <2>3. chunks' = Blocked(s, d.pos) /\ d.pos <= Count[s] /\ d.spec = s
    <3>1. s \in Specs
      BY <2>1 DEF Typed
    <3> QED
      BY <1>1, <2>1, <2>2, <3>1, PutNext, WholeIs DEF Working
  <2>4. Made(d, vecs', chunks', meta', report')
    BY <2>1, <2>2, <2>3 DEF Made
  <2> QED
    BY <2>2, <2>4
<1>5. CASE OpenMeta(p)
  <2>1. /\ c.at = "chunks" /\ c.pos = Count[s] /\ meta' = Torn /\ chunks' = chunks /\ vecs' = vecs
        /\ chunks = Blocked(s, c.pos) /\ vecs = Whole(s) /\ s \in Specs
    BY <1>5 DEF OpenMeta, Built, Made, Typed
  <2>2. PICK d : Moves(p, d) /\ Working(c, d) /\ d.at = "meta"
    BY <1>5, SmallFileIs
  <2>3. d.spec = s /\ chunks' = Whole(s)
    BY <2>1, <2>2, WholeIs DEF Working
  <2>4. Made(d, vecs', chunks', meta', report')
    BY <2>1, <2>2, <2>3 DEF Made
  <2> QED
    BY <2>2, <2>4
<1>6. CASE WriteMeta(p)
  <2>1. /\ c.at = "meta" /\ meta = Torn /\ meta' \in Written(meta, s) /\ chunks' = chunks
        /\ vecs' = vecs /\ chunks = Whole(s) /\ vecs = Whole(s)
    BY <1>6 DEF WriteMeta, Built, Made
  <2>2. PICK d : Moves(p, d) /\ Working(c, d) /\ d.at = "report"
    BY <1>6, SmallFileIs
  <2>3. d.spec = s /\ meta' = s
    BY <2>1, <2>2 DEF Working, Written
  <2>4. Made(d, vecs', chunks', meta', report')
    BY <2>1, <2>2, <2>3 DEF Made
  <2> QED
    BY <2>2, <2>4
<1>7. CASE OpenReport(p)
  <2>1. /\ c.at = "report" /\ report' = Torn /\ meta' = meta /\ chunks' = chunks
        /\ vecs' = vecs /\ chunks = Whole(s) /\ vecs = Whole(s) /\ meta = s
    BY <1>7 DEF OpenReport, Built, Made
  <2>2. PICK d : Moves(p, d) /\ Working(c, d) /\ d.at = "reporting"
    BY <1>7, SmallFileIs
  <2>3. d.spec = s
    BY <2>2 DEF Working
  <2>4. Made(d, vecs', chunks', meta', report')
    BY <2>1, <2>2, <2>3 DEF Made
  <2> QED
    BY <2>2, <2>4
<1> QED
  BY <1>2, <1>3, <1>4, <1>5, <1>6, <1>7 DEF Works

LEMMA AloneBuildsStep ==
  ASSUME Typed, Handed, AloneBuilds, [Next]_vars
  PROVE  AloneBuilds'
<1>1. ASSUME NEW p \in Procs, NEW d \in CallType, Moves(p, d), d.at \notin Saving,
             p \notin Builders => UNCHANGED files
      PROVE  AloneBuilds'
  <2>1. Builders' = Builders \ {p}
    BY <1>1, BuildersAfter
  <2>2. ASSUME NEW q \in Builders', call'[q].alone PROVE Made(call'[q], vecs', chunks', meta', report')
    <3>1. q \in Builders /\ q # p /\ call'[q] = call[q]
      BY <1>1, <2>1, MovesIs DEF Builders
    <3>2. p \notin Builders /\ Built(call[q])
      BY <2>2, <3>1 DEF Handed, AloneBuilds
    <3> QED
      BY <1>1, <3>1, <3>2 DEF Built, files
  <2> QED
    BY <2>2 DEF AloneBuilds, Built
<1>2. CASE \E p \in Procs : Reads(p)
  <2>1. PICK p \in Procs : Reads(p)
    BY <1>2
  <2>2. UNCHANGED files
    BY <2>1, ReadsIs
  <2>3. PICK d \in CallType : Moves(p, d) /\ d.at \notin Saving
    BY <2>1, ReadsIs
  <2> QED
    BY <1>1, <2>2, <2>3
<1>3. CASE \E p \in Procs : OpenVectors(p)
  <2>1. PICK p \in Procs : OpenVectors(p)
    BY <1>3
  <2>2. /\ call'[p].at = "vectors" /\ call'[p].pos = 0
        /\ \A q \in Procs : q # p => call'[q].at = call[q].at
        /\ \A q \in Procs : q # p /\ call[q].at # "idle" => ~call'[q].alone
        /\ \A q \in Procs : call'[q].spec = call[q].spec
        /\ call[p].at # "idle"
    BY <2>1, OpenIs
  <2>3. call[p].spec \in Specs /\ vecs' = <<>>
    BY <2>1, <2>2 DEF OpenVectors, Typed
  <2>4. Made(call'[p], vecs', chunks', meta', report')
    BY <2>2, <2>3, WholeIs, EmptyBlocked DEF Made
  <2>5. \A q \in Builders' : q # p => ~call'[q].alone
    BY <2>2 DEF Builders, Saving
  <2> QED
    BY <2>4, <2>5 DEF AloneBuilds, Built
<1>4. CASE \E p \in Procs : Works(p)
  <2>1. PICK p \in Procs : Works(p)
    BY <1>4
  <2>2. PICK e : Moves(p, e) /\ Working(call[p], e)
    BY <2>1, WorksIs
  <2>3. e \in CallType /\ e.at \in Saving /\ p \in Builders /\ e.alone = call[p].alone
    BY <2>2 DEF Working, Builders
  <2>4. Builders' = Builders /\ call'[p] = e
        /\ \A q \in Procs : q # p => call'[q] = call[q]
    BY <2>2, <2>3, BuildersAfter, MovesIs
  <2>5. ASSUME NEW q \in Builders', call'[q].alone PROVE q = p /\ Made(call'[q], vecs', chunks', meta', report')
    <3>1. call[q].alone /\ q \in Builders
      BY <2>3, <2>4, <2>5 DEF Builders
    <3>2. q = p /\ Built(call[p])
      BY <2>3, <3>1 DEF Handed, AloneBuilds
    <3>3. PICK d : Moves(p, d) /\ Working(call[p], d) /\ Made(d, vecs', chunks', meta', report')
      BY <2>1, <3>2, WorksBuilt
    <3>4. call'[p] = d
      BY <3>3, MovesIs DEF Working
    <3> QED
      BY <3>2, <3>3, <3>4
  <2> QED
    BY <2>5 DEF AloneBuilds, Built
<1>5. CASE \E p \in Procs : WriteReport(p)
  <2>1. PICK p \in Procs : WriteReport(p)
    BY <1>5
  <2>2. call[p].at = "reporting" /\ call[p].spec \in Specs /\ p \in Builders
    BY <2>1 DEF WriteReport, Typed, Builders, Saving
  <2>3. hands' \in SUBSET (Specs \cup {Writing, Overlap})
    BY <2>1, <2>2 DEF WriteReport, Typed
  <2>4. PICK d \in CallType : Moves(p, d) /\ d.at \in {"idle", "outer"}
    BY <2>1, <2>3, FinishIs
  <2>5. d.at \notin Saving
    BY <2>4 DEF Saving
  <2> QED
    BY <1>1, <2>2, <2>4, <2>5
<1>6. CASE \E p \in Procs : Die(p)
  <2>1. PICK p \in Procs : Die(p)
    BY <1>6
  <2>2. Moves(p, Idle) /\ UNCHANGED files /\ Idle.at \notin Saving
    BY <2>1, IdleIs DEF Die, Leave, Moves, Saving
  <2> QED
    BY <1>1, <2>2, IdleIs
<1>7. CASE UNCHANGED vars
  BY <1>7 DEF AloneBuilds, Built, Builders, vars, files
<1> QED
  BY <1>2, <1>3, <1>4, <1>5, <1>6, <1>7, Kinds

\* Where only builders of s have been, one at a time, one that works is of s
\* and alone.
LEMMA BuilderOwn ==
  ASSUME Typed, Handed, AloneBuilds, NEW s \in Specs, hands \subseteq {s, Writing},
         NEW p \in Builders
  PROVE  call[p].spec = s /\ call[p].alone /\ Built(call[p])
<1>1. p \in Procs /\ call[p].at # "idle"
  BY DEF Builders, Saving
<1>2. call[p].spec \in Specs /\ call[p].alone \in BOOLEAN
  BY <1>1 DEF Typed, CallType
<1>3. call[p].spec = s
  BY <1>2, ConstantsAssumption DEF Handed
<1>4. Overlap \notin hands
  BY ConstantsAssumption
<1>5. call[p].alone
  BY <1>2, <1>4 DEF Handed
<1> QED
  BY <1>3, <1>5 DEF AloneBuilds

LEMMA UnmixedStep ==
  ASSUME Typed, Handed, AloneBuilds, Unmixed, [Next]_vars
  PROVE  Unmixed'
<1> SUFFICES ASSUME NEW s \in Specs, hands' \subseteq {s, Writing}
             PROVE  OfOneSpec(s)'
  BY DEF Unmixed
<1>1. ASSUME UNCHANGED files, hands' = hands PROVE OfOneSpec(s)'
  BY <1>1 DEF Unmixed, OfOneSpec, files
<1>2. CASE \E p \in Procs : Reads(p)
  BY <1>1, <1>2, ReadsIs
<1>3. CASE \E p \in Procs : OpenVectors(p)
  <2>1. PICK p \in Procs : OpenVectors(p)
    BY <1>3
  <2>2. hands \subseteq {s, Writing} /\ vecs' = <<>> /\ UNCHANGED <<chunks, meta, report>>
    BY <2>1 DEF OpenVectors
  <2>3. OfOneSpec(s) /\ Pure(vecs', s)
    BY <2>2, WholeIs DEF Unmixed
  <2> QED
    BY <2>2, <2>3 DEF OfOneSpec
<1>4. CASE \E p \in Procs : Works(p)
  <2>1. PICK p \in Procs : Works(p)
    BY <1>4
  <2>2. hands \subseteq {s, Writing} /\ OfOneSpec(s)
    BY <2>1, WorksIs DEF Unmixed
  <2>3. p \in Builders
    BY <2>1, WorksIs DEF Working, Builders
  <2>4. call[p].spec = s /\ Built(call[p])
    BY <2>2, <2>3, BuilderOwn
  <2>5. call[p].pos \in Nat /\ Count[s] \in Nat
    BY WholeIs DEF Typed, CallType
  <2>6. ASSUME NEW file, file = Blocked(s, call[p].pos), call[p].pos < Count[s]
        PROVE  Pure(Put(file, call[p].pos + 1, s), s)
    <3>1. Put(file, call[p].pos + 1, s) = Blocked(s, call[p].pos + 1)
      BY <2>5, <2>6, PutNext
    <3>2. call[p].pos + 1 \in 0..Count[s]
      BY <2>5, <2>6
    <3> QED
      BY <3>1, <3>2 DEF Pure
  <2>7. Pure(vecs', s)
    <3>1. CASE WriteVector(p)
      BY <2>4, <2>6, <3>1 DEF WriteVector, Built, Made
    <3>2. CASE ~WriteVector(p)
      <4>1. vecs' = vecs
        BY <2>1, <3>2 DEF Works, OpenChunks, WriteChunk, OpenMeta, WriteMeta, OpenReport
      <4> QED
        BY <2>2, <4>1 DEF OfOneSpec
    <3> QED
      BY <3>1, <3>2
  <2>8. Pure(chunks', s)
    <3>1. CASE WriteChunk(p)
      BY <2>4, <2>6, <3>1 DEF WriteChunk, Built, Made
    <3>2. CASE OpenChunks(p)
      BY <3>2, WholeIs DEF OpenChunks
    <3>3. CASE ~WriteChunk(p) /\ ~OpenChunks(p)
      <4>1. chunks' = chunks
        BY <2>1, <3>3 DEF Works, WriteVector, OpenMeta, WriteMeta, OpenReport
      <4> QED
        BY <2>2, <4>1 DEF OfOneSpec
    <3> QED
      BY <3>1, <3>2, <3>3
  <2>9. meta' \in {Missing, Torn, s} /\ report' \in {Missing, Torn, s}
    BY <2>1, <2>2, <2>4
       DEF Works, WriteVector, OpenChunks, WriteChunk, OpenMeta, WriteMeta, OpenReport, Written,
           OfOneSpec
  <2> QED
    BY <2>7, <2>8, <2>9 DEF OfOneSpec
<1>5. CASE \E p \in Procs : WriteReport(p)
  <2>1. PICK p \in Procs : WriteReport(p)
    BY <1>5
  <2>2. /\ call[p].at = "reporting" /\ call[p].spec \in Specs /\ p \in Builders
        /\ call[p].alone \in BOOLEAN
    BY <2>1 DEF WriteReport, Typed, CallType, Builders, Saving
  <2>3. call[p].spec = s /\ Built(call[p])
    <3>1. CASE call[p].alone
      <4>1. hands' = {call[p].spec}
        BY <2>1, <3>1 DEF WriteReport
      <4> QED
        BY <2>2, <3>1, <4>1, ConstantsAssumption DEF AloneBuilds
    <3>2. CASE ~call[p].alone
      <4>1. hands' = hands
        BY <2>1, <3>2 DEF WriteReport
      <4> QED
        BY <2>2, <4>1, BuilderOwn
    <3> QED
      BY <2>2, <3>1, <3>2
  <2>4. /\ vecs = Whole(s) /\ chunks = Whole(s) /\ meta = s /\ report = Torn
    BY <2>2, <2>3 DEF Built, Made
  <2>5. /\ UNCHANGED <<vecs, chunks, meta>> /\ report' = s
    BY <2>1, <2>3, <2>4 DEF WriteReport, Written
  <2> QED
    BY <2>4, <2>5, WholeIs DEF OfOneSpec
<1>6. CASE \E p \in Procs : Die(p)
  BY <1>1, <1>6 DEF Die
<1>7. CASE UNCHANGED vars
  BY <1>1, <1>7 DEF vars
<1> QED
  BY <1>2, <1>3, <1>4, <1>5, <1>6, <1>7, Kinds

LEMMA SettledStep ==
  ASSUME Typed, Handed, AloneBuilds, SettledBuilt, [Next]_vars
  PROVE  SettledBuilt'
<1> SUFFICES ASSUME NEW s \in Specs, hands' = {s}
             PROVE  Settled(s)'
  BY DEF SettledBuilt
<1>1. ASSUME UNCHANGED files, hands' = hands PROVE Settled(s)'
  BY <1>1 DEF SettledBuilt, Settled, files
<1>2. Writing \notin hands'
  BY ConstantsAssumption
<1>3. CASE \E p \in Procs : Reads(p)
  BY <1>1, <1>3, ReadsIs
<1>4. CASE \E p \in Procs : OpenVectors(p)
  BY <1>2, <1>4, OpenIs DEF Begun
<1>5. CASE \E p \in Procs : Works(p)
  <2>1. PICK p \in Procs : Works(p)
    BY <1>5
  <2>2. p \in Builders /\ hands' = hands
    BY <2>1, WorksIs DEF Working, Builders
  <2> QED
    BY <1>2, <2>2 DEF Handed
<1>6. CASE \E p \in Procs : WriteReport(p)
  <2>1. PICK p \in Procs : WriteReport(p)
    BY <1>6
  <2>2. /\ call[p].at = "reporting" /\ p \in Builders /\ call[p].alone \in BOOLEAN
    BY <2>1 DEF WriteReport, Typed, CallType, Builders, Saving
  <2>3. call[p].alone
    <3>1. ~call[p].alone => hands' = hands
      BY <2>1 DEF WriteReport
    <3> QED
      BY <1>2, <2>2, <3>1 DEF Handed
  <2>4. call[p].spec = s /\ Built(call[p])
    <3>1. hands' = {call[p].spec}
      BY <2>1, <2>3 DEF WriteReport
    <3> QED
      BY <2>2, <2>3, <3>1 DEF AloneBuilds
  <2>5. /\ vecs = Whole(s) /\ chunks = Whole(s) /\ meta = s /\ report = Torn
    BY <2>2, <2>4 DEF Built, Made
  <2>6. /\ UNCHANGED <<vecs, chunks, meta>> /\ report' = s
    BY <2>1, <2>4, <2>5 DEF WriteReport, Written
  <2> QED
    BY <2>5, <2>6 DEF Settled
<1>7. CASE \E p \in Procs : Die(p)
  BY <1>1, <1>7 DEF Die
<1>8. CASE UNCHANGED vars
  BY <1>1, <1>8 DEF vars
<1> QED
  BY <1>3, <1>4, <1>5, <1>6, <1>7, <1>8, Kinds

-----------------------------------------------------------------------------
(* The readers.                                                            *)

LEMMA ReadsOwnStep ==
  ASSUME Typed, Noted, Handed, Unmixed, ReadsOwn, [Next]_vars
  PROVE  ReadsOwn'
<1>1. ASSUME NEW p \in Procs, NEW d \in CallType, Moves(p, d),
             d.touched \subseteq {d.spec, Writing} => OwnReads(d)
      PROVE  ReadsOwn'
  <2>1. call'[p] = d /\ \A q \in Procs : q # p => call'[q] = call[q]
    BY <1>1, MovesIs
  <2>2. \A q \in Procs : q = p \/ call'[q] = call[q]
    BY <2>1
  <2> QED
    BY <1>1, <2>1, <2>2 DEF ReadsOwn
<1>2. ASSUME NEW d, d.at \in Saving \cup {"idle", "exists", "build", "outer"} PROVE OwnReads(d)
  BY <1>2 DEF OwnReads, Saving
<1>3. CASE \E p \in Procs : Reads(p)
  <2>1. PICK p \in Procs : Reads(p)
    BY <1>3
  <2> DEFINE c == call[p]
             s == c.spec
  <2>2. ASSUME NEW d, Moves(p, d), Onward(c, d),
               /\ d.at # "idle" /\ s \in Specs /\ OfOneSpec(s) /\ OwnReads(c) => OwnReads(d)
        PROVE  ReadsOwn'
    <3>1. ASSUME d.at # "idle", d.touched \subseteq {d.spec, Writing} PROVE OwnReads(d)
      <4>1. c.at # "idle" /\ d.spec = s /\ c.touched \subseteq {s, Writing} /\ s \in Specs
        BY <2>2, <3>1 DEF Onward, Typed
      <4>2. hands \subseteq {s, Writing}
        BY <4>1 DEF Noted
      <4> QED
        BY <2>2, <3>1, <4>1, <4>2 DEF Unmixed, ReadsOwn
    <3>2. d.at = "idle" => OwnReads(d)
      BY <1>2
    <3> QED
      BY <1>1, <2>2, <3>1, <3>2 DEF Onward
  <2>3. CASE \E m \in Modes, t \in Specs : Begin(p, m, t)
    <3>1. PICK d \in CallType : Moves(p, d) /\ d.at \in {"exists", "build", "outer"}
      BY <2>3, BeginIs
    <3> QED
      BY <1>1, <1>2, <3>1
  <2>4. CASE Exists(p)
    <3>1. PICK d : /\ Moves(p, d) /\ Onward(c, d)
                   /\ d.at = IF meta # Missing /\ report # Missing THEN "outer" ELSE "build"
      BY <2>4, ExistsIs
    <3>2. OwnReads(d)
      BY <1>2, <3>1
    <3> QED
      BY <2>2, <3>1, <3>2
  <2>5. CASE ReadOuter(p)
    <3>1. PICK d : /\ Moves(p, d) /\ Onward(c, d)
                   /\ \/ d.at = "idle"
                      \/ d.at = "build"
                      \/ d.at = "inner" /\ d.outer = meta /\ meta \notin {Missing, Torn}
      BY <2>5, ReadOuterIs
    <3>2. ASSUME d.at # "idle", OfOneSpec(s), OwnReads(c) PROVE OwnReads(d)
      BY <3>1, <3>2 DEF OwnReads, OfOneSpec, Onward
    <3> QED
      BY <2>2, <3>1, <3>2
  <2>6. CASE ReadInner(p)
    <3>1. PICK d : /\ Moves(p, d) /\ Onward(c, d)
                   /\ \/ d.at = "idle"
                      \/ d.at = "load" /\ d.inner = meta /\ d.outer = c.outer
                         /\ meta \notin {Missing, Torn}
      BY <2>6, ReadInnerIs
    <3>2. ASSUME d.at # "idle", OfOneSpec(s), OwnReads(c) PROVE OwnReads(d)
      <4>1. c.outer = s
        BY <2>6, <3>2 DEF ReadInner, OwnReads
      <4> QED
        BY <3>1, <3>2, <4>1 DEF OwnReads, OfOneSpec, Onward
    <3> QED
      BY <2>2, <3>1, <3>2
  <2>7. CASE ReadVectors(p)
    <3>1. PICK d : /\ Moves(p, d) /\ Onward(c, d)
                   /\ \/ d.at = "idle"
                      \/ /\ d.at = "parse" /\ d.vecs = SubSeq(vecs, 1, Count[vecs[1]])
                         /\ d.outer = c.outer /\ d.inner = c.inner /\ Loadable
      BY <2>7, ReadVectorsIs
    <3>2. ASSUME d.at # "idle", s \in Specs, OfOneSpec(s), OwnReads(c) PROVE OwnReads(d)
      <4>1. c.outer = s /\ c.inner = s
        BY <2>7, <3>2 DEF ReadVectors, OwnReads
      <4>2. d.vecs = Whole(s)
        BY <3>1, <3>2, PureLoads DEF OfOneSpec
      <4> QED
        BY <3>1, <3>2, <4>1, <4>2 DEF OwnReads, Onward
    <3> QED
      BY <2>2, <3>1, <3>2
  <2>8. CASE ReadChunks(p)
    <3>1. PICK d : /\ Moves(p, d) /\ Onward(c, d)
                   /\ \/ d.at = "idle"
                      \/ d.at = "build"
                      \/ /\ d.at = "loaded" /\ d.chunks = chunks /\ d.vecs = c.vecs
                         /\ Len(chunks) = Count[c.inner]
      BY <2>8, ReadChunksIs
    <3>2. ASSUME d.at # "idle", s \in Specs, OfOneSpec(s), OwnReads(c) PROVE OwnReads(d)
      <4>1. c.inner = s /\ c.vecs = Whole(s)
        BY <2>8, <3>2 DEF ReadChunks, OwnReads
      <4>2. d.at = "loaded" => d.chunks = Whole(s)
        BY <3>1, <3>2, <4>1, PureCounts DEF OfOneSpec
      <4> QED
        BY <3>1, <3>2, <4>1, <4>2 DEF OwnReads, Onward
    <3> QED
      BY <2>2, <3>1, <3>2
  <2>9. CASE ReadReport(p)
    <3>1. PICK d : /\ Moves(p, d) /\ Onward(c, d)
                   /\ \/ d.at = "idle"
                      \/ /\ d.at = "serving" /\ d.audit = report /\ report \notin {Missing, Torn}
                         /\ d.vecs = c.vecs /\ d.chunks = c.chunks
      BY <2>9, ReadReportIs
    <3>2. ASSUME d.at # "idle", OfOneSpec(s), OwnReads(c) PROVE OwnReads(d)
      <4>1. c.vecs = Whole(s) /\ c.chunks = Whole(s)
        BY <2>9, <3>2 DEF ReadReport, OwnReads
      <4> QED
        BY <3>1, <3>2, <4>1 DEF OwnReads, OfOneSpec, Onward
    <3> QED
      BY <2>2, <3>1, <3>2
  <2>10. CASE Release(p) \/ BuildFails(p)
    <3>1. Moves(p, Idle)
      BY <2>10 DEF Release, BuildFails, Leave, Moves
    <3> QED
      BY <1>1, <1>2, <3>1, IdleIs
  <2> QED
    BY <2>1, <2>3, <2>4, <2>5, <2>6, <2>7, <2>8, <2>9, <2>10 DEF Reads, Load
<1>4. CASE \E p \in Procs : OpenVectors(p)
  <2>1. PICK p \in Procs : OpenVectors(p)
    BY <1>4
  <2>2. call'[p].at = "vectors"
    BY <2>1, OpenIs
  <2>3. ASSUME NEW q \in Procs, call'[q].touched \subseteq {call'[q].spec, Writing}
        PROVE  OwnReads(call'[q])
    <3>1. CASE q = p
      BY <1>2, <2>2, <3>1 DEF Saving
    <3>2. CASE q # p /\ call[q].at = "idle"
      <4>1. call'[q] = call[q]
        BY <2>1, <3>2, OpenIs
      <4> QED
        BY <1>2, <3>2, <4>1
    <3>3. CASE q # p /\ call[q].at # "idle"
      <4>1. /\ call'[q].touched = call[q].touched \cup Begun(p) /\ call'[q].at = call[q].at
            /\ call'[q].spec = call[q].spec
            /\ call'[q].outer = call[q].outer /\ call'[q].inner = call[q].inner
            /\ call'[q].vecs = call[q].vecs /\ call'[q].chunks = call[q].chunks
            /\ call'[q].audit = call[q].audit
        BY <2>1, <3>3, OpenIs
      <4>2. OwnReads(call[q])
        BY <2>3, <4>1 DEF ReadsOwn
      <4> QED
        BY <4>1, <4>2 DEF OwnReads
    <3> QED
      BY <3>1, <3>2, <3>3
  <2> QED
    BY <2>3 DEF ReadsOwn
<1>5. CASE \E p \in Procs : Works(p)
  <2>1. PICK p \in Procs : Works(p)
    BY <1>5
  <2>2. PICK d : Moves(p, d) /\ Working(call[p], d)
    BY <2>1, WorksIs
  <2> QED
    BY <1>1, <1>2, <2>2 DEF Working
<1>6. CASE \E p \in Procs : WriteReport(p)
  <2>1. PICK p \in Procs : WriteReport(p)
    BY <1>6
  <2>2. call[p].spec \in Specs
    BY <2>1 DEF WriteReport, Typed
  <2>3. hands' \in SUBSET (Specs \cup {Writing, Overlap})
    BY <2>1, <2>2 DEF WriteReport, Typed
  <2>4. PICK d \in CallType : Moves(p, d) /\ d.at \in {"idle", "outer"}
    BY <2>1, <2>3, FinishIs
  <2> QED
    BY <1>1, <1>2, <2>4
<1>7. CASE \E p \in Procs : Die(p)
  BY <1>1, <1>2, <1>7, IdleIs DEF Die, Leave, Moves
<1>8. CASE UNCHANGED vars
  BY <1>8 DEF ReadsOwn, vars
<1> QED
  BY <1>3, <1>4, <1>5, <1>6, <1>7, <1>8, Kinds

-----------------------------------------------------------------------------
(* The theorems.                                                           *)

LEMMA InvFirst ==
  ASSUME Init
  PROVE  Inv
<1>1. /\ vecs = <<>> /\ chunks = <<>> /\ meta = Missing /\ report = Missing
      /\ call = [p \in Procs |-> Idle] /\ deaths = 0 /\ hands = {}
  BY DEF Init
<1>2. \A p \in Procs : call[p] = Idle
  BY <1>1
<1>3. Typed
  <2>1. <<>> \in Blocks /\ Missing \in SmallFile /\ 0 \in 0..MaxDeaths
    BY ConstantsAssumption DEF Blocks, SmallFile
  <2> QED
    BY <1>1, <1>2, <2>1, IdleIs DEF Typed
<1>4. Builders = {}
  BY <1>2, IdleIs DEF Builders, Saving
<1>5. Unmixed
  BY <1>1, WholeIs DEF Unmixed, OfOneSpec
<1>6. SettledBuilt
  BY <1>1 DEF SettledBuilt
<1>7. ReadsOwn
  BY <1>2, IdleIs DEF ReadsOwn, OwnReads
<1> QED
  BY <1>2, <1>3, <1>4, <1>5, <1>6, <1>7, IdleIs DEF Inv, Noted, Handed, AloneBuilds

LEMMA InvStep ==
  ASSUME Inv, [Next]_vars
  PROVE  Inv'
BY TypedStep, NotedStep, HandedStep, AloneBuildsStep, UnmixedStep, SettledStep, ReadsOwnStep
   DEF Inv

LEMMA Invariant == Spec => []Inv
<1>1. Init => Inv
  BY InvFirst
<1>2. Inv /\ [Next]_vars => Inv'
  BY InvStep
<1> QED
  BY <1>1, <1>2, PTL DEF Spec

\* The directory and every call on it keep their types.
THEOREM TypeCorrect == Spec => []TypeOK
<1>1. Typed => TypeOK
  BY DEF Typed, TypeOK, CallType
<1> QED
  BY <1>1, Invariant, PTL DEF Inv

\* Without a lock, and with readers, builders and deaths in any order: as long
\* as one builder at a time, and of its own spec, has been at the directory, a
\* process that gets an index gets all of its own (load_or_build_index).
THEOREM ReadersGetTheirOwn == Spec => []ServesOwnIndex
<1>1. Inv => ServesOwnIndex
  BY DEF Inv, ReadsOwn, OwnReads, ServesOwnIndex, HoldsOwnIndex
<1> QED
  BY <1>1, Invariant, PTL

\* The step of a call that loads: whoever takes another leaves its phase alone.
LEMMA OwnStep ==
  ASSUME Typed, [Next]_vars, NEW p \in Procs,
         call[p].at \in {"exists", "outer", "inner", "load", "parse"}
  PROVE  call'[p].at = call[p].at \/ Reads(p)
<1>1. ASSUME NEW q \in Procs, q # p, NEW d \in CallType, Moves(q, d)
      PROVE  call'[p].at = call[p].at
  BY <1>1, MovesIs
<1>2. ASSUME NEW q \in Procs, Reads(q)
      PROVE  call'[p].at = call[p].at \/ Reads(p)
  BY <1>1, <1>2, ReadsIs
<1>3. CASE \E q \in Procs : OpenVectors(q)
  <2>1. PICK q \in Procs : OpenVectors(q)
    BY <1>3
  <2>2. call[q].at = "build"
    BY <2>1 DEF OpenVectors
  <2> QED
    BY <2>1, <2>2, OpenIs
<1>4. CASE \E q \in Procs : Works(q)
  <2>1. PICK q \in Procs : Works(q)
    BY <1>4
  <2>2. PICK d : Moves(q, d) /\ Working(call[q], d)
    BY <2>1, WorksIs
  <2> QED
    BY <1>1, <2>2 DEF Working, Saving
<1>5. CASE \E q \in Procs : WriteReport(q)
  <2>1. PICK q \in Procs : WriteReport(q)
    BY <1>5
  <2>2. q # p /\ call[q].spec \in Specs
    BY <2>1 DEF WriteReport, Typed
  <2>3. hands' \in SUBSET (Specs \cup {Writing, Overlap})
    BY <2>1, <2>2 DEF WriteReport, Typed
  <2>4. PICK d \in CallType : Moves(q, d)
    BY <2>1, <2>3, FinishIs
  <2> QED
    BY <1>1, <2>2, <2>4
<1>6. CASE \E q \in Procs : Die(q)
  BY <1>1, <1>6, IdleIs DEF Die, Leave, Moves, Saving
<1>7. CASE UNCHANGED vars
  BY <1>7 DEF vars
<1> QED
  BY <1>2, <1>3, <1>4, <1>5, <1>6, <1>7, Kinds

\* What a call that has met nobody but finished builders of its spec does next.
LEMMA SettledReads ==
  ASSUME Inv, [Next]_vars, NEW p \in Procs,
         call[p].at \in {"exists", "outer", "inner", "load", "parse"},
         hands = {call[p].spec}, call[p].touched = {call[p].spec}
  PROVE  /\ call[p].at \in {"exists", "outer"} => call'[p].at # "build"
         /\ call[p].at # "exists" /\ call'[p].at = "idle" => call[p].mode = "ingest"
<1> DEFINE c == call[p]
           s == c.spec
<1>1. Typed /\ s \in Specs
  BY DEF Inv, Typed
<1>2. Settled(s) /\ OwnReads(c)
  BY <1>1 DEF Inv, SettledBuilt, ReadsOwn
<1>3. s \notin {Missing, Torn}
  BY <1>1, ConstantsAssumption
<1>4. ASSUME NEW d \in CallType, Moves(p, d) PROVE call'[p] = d
  BY <1>1, <1>4, MovesIs
<1>5. CASE call'[p].at = c.at
  BY <1>5
<1>6. CASE \E m \in Modes, t \in Specs : Begin(p, m, t)
  BY <1>6 DEF Begin
<1>7. CASE Exists(p)
  <2>1. c.at = "exists" /\ meta = s /\ report = s
    BY <1>2, <1>7 DEF Exists, Settled
  <2>2. PICK d : Moves(p, d) /\ Onward(c, d) /\ d.at = "outer"
    BY <1>1, <1>3, <1>7, <2>1, ExistsIs
  <2> QED
    BY <1>4, <2>1, <2>2 DEF Onward
<1>8. CASE ReadOuter(p)
  <2>1. PICK d : /\ Moves(p, d) /\ Onward(c, d)
                 /\ \/ d.at = "idle" /\ (meta \in {Missing, Torn} \/ c.mode = "ingest")
                    \/ d.at = "build" /\ meta # s
                    \/ d.at = "inner" /\ d.outer = meta /\ meta \notin {Missing, Torn}
    BY <1>1, <1>8, ReadOuterIs
  <2> QED
    BY <1>2, <1>3, <1>4, <2>1 DEF Onward, Settled
<1>9. CASE ReadInner(p)
  <2>1. PICK d : Moves(p, d) /\ Onward(c, d) /\ (d.at = "load" \/ meta \in {Missing, Torn})
    BY <1>1, <1>9, ReadInnerIs
  <2>2. c.at = "inner"
    BY <1>9 DEF ReadInner
  <2> QED
    BY <1>2, <1>3, <1>4, <2>1, <2>2 DEF Onward, Settled
<1>10. CASE ReadVectors(p)
  <2>1. PICK d : Moves(p, d) /\ Onward(c, d) /\ (d.at = "parse" \/ ~Loadable)
    BY <1>1, <1>10, ReadVectorsIs
  <2>2. Loadable /\ c.at = "load"
    BY <1>1, <1>2, <1>10, WholeLoads DEF Settled, ReadVectors
  <2> QED
    BY <1>4, <2>1, <2>2 DEF Onward
<1>11. CASE ReadChunks(p)
  <2>1. c.at = "parse" /\ c.outer = s /\ c.inner = s
    BY <1>2, <1>11 DEF ReadChunks, OwnReads
  <2>2. Len(chunks) = Count[s] /\ \A i \in 1..Len(chunks) : chunks[i] = s
    BY <1>1, <1>2, WholeLoads DEF Settled
  <2>3. PICK d : /\ Moves(p, d) /\ Onward(c, d)
                 /\ \/ d.at \in {"build", "loaded"}
                    \/ \E i \in 1..Len(chunks) : chunks[i] # c.inner
                    \/ Len(chunks) # Count[c.inner]
                    \/ c.outer # c.spec
    BY <1>1, <1>11, ReadChunksIs
  <2> QED
    BY <1>4, <2>1, <2>2, <2>3 DEF Onward
<1>12. CASE ReadReport(p) \/ Release(p) \/ BuildFails(p)
  BY <1>12 DEF ReadReport, Release, BuildFails
<1> QED
  BY <1>1, <1>5, <1>6, <1>7, <1>8, <1>9, <1>10, <1>11, <1>12, OwnStep DEF Reads, Load

\* An index that was finished alone stays good, whatever the size of its corpus and
\* however many read it: nobody who asks for its spec builds it again or fails to
\* open it, until the next build begins (load_or_build_index, open_saved_index).
THEOREM SettledIndexesServe == Spec => SettledIndexServes
<1> DEFINE quiet(p) == /\ call[p].touched = {call[p].spec} /\ hands = {call[p].spec}
                       /\ call[p].mode # "force"
<1>1. ASSUME Inv, [Next]_vars, NEW p \in Procs, quiet(p)
      PROVE  /\ call[p].at \in {"exists", "outer"} => call'[p].at # "build"
             /\ call[p].at \in {"outer", "inner", "load", "parse"}
                /\ call'[p].at = "idle" => call[p].mode = "ingest"
  BY <1>1, SettledReads
<1>2. Inv /\ [Next]_vars =>
        [\A p \in Procs :
           quiet(p) => /\ call[p].at \in {"exists", "outer"} => call'[p].at # "build"
                       /\ call[p].at \in {"outer", "inner", "load", "parse"}
                          /\ call'[p].at = "idle" => call[p].mode = "ingest"]_vars
  BY <1>1
<1> QED
  BY <1>2, Invariant, PTL DEF Spec, SettledIndexServes
=============================================================================
