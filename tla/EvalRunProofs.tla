---------------------------- MODULE EvalRunProofs ----------------------------
(***************************************************************************)
(* Theorems about EvalRun, for any suites, rounds, calls and bounds.       *)
(***************************************************************************)
EXTENDS EvalRun, FiniteSetTheorems, TLAPS

\* A coroutine's calls: what it has made of the one it is at, and of how many
\* the collector knows.
ItemOK(t) ==
  /\ done[t] <= Calls[t.suite]
  /\ samples[t] = IF done[t] >= Timed[t.suite] THEN 1 ELSE 0
  /\ at[t] \in {"none", "queued"} => done[t] = 0 /\ attempt[t] = 0 /\ made[t] = 0
  /\ at[t] = "calling" =>
       made[t] = attempt[t] + 1 /\ attempt[t] < MaxAttempts /\ done[t] < Calls[t.suite]
  /\ at[t] = "sleeping" =>
       made[t] = attempt[t] /\ attempt[t] < MaxAttempts /\ done[t] < Calls[t.suite]
  /\ at[t] = "done" => done[t] = Calls[t.suite]
  /\ at[t] = "error" => fatal[t] \/ made[t] = MaxAttempts
  /\ made[t] <= MaxAttempts

\* Rounds behind the current one are done, those before it not begun; the
\* records are those of the rounds that are done.
Past(r, s) == {t \in Own(r, s) : t.round < suite[r][s].round}
SuiteOK(r, s) ==
  LET c == suite[r][s]
  IN  /\ c.at \in {"none", "skipped"} => c.round = 0
      /\ c.at \notin {"none", "skipped"} => c.round \in 1..Len(Rounds[s])
      /\ \A t \in Own(r, s) : t.round > c.round => at[t] = "none"
      /\ \A t \in Own(r, s) : t.round < c.round => at[t] = "done"
      /\ c.at = "prepare" => \A t \in Own(r, s) : t.round = c.round => at[t] = "none"
      /\ c.at \in {"prepare", "gather"} => Complete(c.records, Past(r, s))
      /\ c.at = "ok" =>
           Complete(c.records, Own(r, s)) /\ \A t \in Own(r, s) : at[t] = "done"
      /\ c.at = "failed" =>
           /\ c.records = <<>>
           /\ \/ \E t \in Own(r, s) : at[t] = "error"
              \/ \A t \in Own(r, s) : t.round >= c.round => at[t] = "none"

\* Runs that have not begun have no suites; a run that was kept has only
\* suites that are over, and their timings.
RunOK ==
  /\ stage \in {"warmup", "suites"} => run \in RunId /\ outcome[run] = "running"
  /\ stage = "warmup" => \A s \in Suites : suite[run][s] = NoSuite
  /\ \A r \in RunId : r > run => outcome[r] = "none" /\ \A s \in Suites : suite[r][s] = NoSuite
  /\ \A r \in RunId : outcome[r] = "kept" => \A s \in Suites : suite[r][s].at \in SuiteOver
  /\ \A t \in Tasks : outcome[t.run] = "kept" /\ suite[t.run][t.suite].at = "ok" =>
       stats[t.run][t] = 1

Inv ==
  /\ TypeOK
  /\ \A t \in Tasks : ItemOK(t)
  /\ \A r \in RunId, s \in Suites : SuiteOK(r, s)
  /\ RunOK

-----------------------------------------------------------------------------
(* The items and the records.                                              *)

LEMMA TaskFields ==
  ASSUME NEW t \in Tasks
  PROVE  /\ t.run \in RunId /\ t.suite \in Suites
         /\ t.round \in 1..Len(Rounds[t.suite])
         /\ t.item \in 1..Rounds[t.suite][t.round].items
         /\ t = [run |-> t.run, suite |-> t.suite, round |-> t.round, item |-> t.item]
<1>1. PICK x \in RunId \X Suites : t \in UNION {Items(x[1], x[2], k) : k \in 1..Len(Rounds[x[2]])}
  BY DEF Tasks
<1>2. PICK k \in 1..Len(Rounds[x[2]]) : t \in Items(x[1], x[2], k)
  BY <1>1
<1>3. PICK i \in 1..Rounds[x[2]][k].items :
        t = [run |-> x[1], suite |-> x[2], round |-> k, item |-> i]
  BY <1>2 DEF Items
<1> QED
  BY <1>1, <1>3

LEMMA ItemsAre ==
  ASSUME NEW r \in RunId, NEW s \in Suites, NEW k \in 1..Len(Rounds[s])
  PROVE  Items(r, s, k) = {t \in Tasks : t.run = r /\ t.suite = s /\ t.round = k}
<1>1. ASSUME NEW t \in Items(r, s, k) PROVE t \in Tasks /\ t.run = r /\ t.suite = s /\ t.round = k
  <2>1. t.run = r /\ t.suite = s /\ t.round = k
    BY <1>1 DEF Items
  <2>2. <<r, s>> \in RunId \X Suites
    OBVIOUS
  <2> DEFINE x == <<r, s>>
  <2>3. t \in UNION {Items(x[1], x[2], j) : j \in 1..Len(Rounds[x[2]])}
    BY <1>1
  <2> HIDE DEF x
  <2>4. x \in RunId \X Suites
    BY <2>2 DEF x
  <2>5. t \in Tasks
    BY <2>3, <2>4 DEF Tasks
  <2> QED
    BY <2>1, <2>5
<1>2. ASSUME NEW t \in Tasks, t.run = r, t.suite = s, t.round = k PROVE t \in Items(r, s, k)
  BY <1>2, TaskFields DEF Items
<1> QED
  BY <1>1, <1>2

LEMMA RoundType ==
  ASSUME NEW s \in Suites, NEW k \in 1..Len(Rounds[s])
  PROVE  /\ Rounds[s][k].items \in Nat /\ Rounds[s][k].prepare \in BOOLEAN
         /\ Len(Rounds[s]) \in Nat \ {0}
<1>1. Rounds[s] \in Seq(RoundSpec)
  BY ConstantsAssumption
<1>2. Rounds[s][k] \in RoundSpec /\ Len(Rounds[s]) \in Nat
  BY <1>1
<1> QED
  BY <1>2 DEF RoundSpec

LEMMA GatheredAre ==
  ASSUME NEW r \in RunId, NEW s \in Suites, NEW k \in 1..Len(Rounds[s])
  PROVE  /\ Gathered(r, s, k) \in Seq(Tasks)
         /\ Complete(Gathered(r, s, k), Items(r, s, k))
<1> DEFINE n == Rounds[s][k].items
           g == Gathered(r, s, k)
<1>1. n \in Nat
  BY RoundType
<1>2. g = [i \in 1..n |-> [run |-> r, suite |-> s, round |-> k, item |-> i]]
  BY DEF Gathered
<1>3. \A i \in 1..n : g[i] \in Items(r, s, k)
  BY <1>2 DEF Items
<1>4. g \in Seq(Tasks) /\ DOMAIN g = 1..n
  <2>1. \A i \in 1..n : g[i] \in Tasks
    BY <1>3, ItemsAre
  <2>2. DOMAIN g = 1..n /\ g = [i \in 1..n |-> g[i]]
    BY <1>2
  <2> HIDE DEF g
  <2>3. g \in [1..n -> Tasks]
    BY <2>1, <2>2
  <2> QED
    BY <1>1, <2>2, <2>3
<1>5. {g[i] : i \in DOMAIN g} = Items(r, s, k)
  <2>1. ASSUME NEW t \in Items(r, s, k) PROVE \E i \in DOMAIN g : g[i] = t
    <3>1. PICK i \in 1..n : t = [run |-> r, suite |-> s, round |-> k, item |-> i]
      BY DEF Items
    <3> QED
      BY <1>2, <3>1
  <2>2. \A i \in DOMAIN g : g[i] \in Items(r, s, k)
    BY <1>3, <1>4
  <2> HIDE DEF g
  <2> QED
    BY <2>1, <2>2
<1>6. \A i, j \in DOMAIN g : i < j => Before(g[i], g[j])
  BY <1>2 DEF Before
<1> QED
  BY <1>4, <1>5, <1>6 DEF Complete

LEMMA Extend ==
  ASSUME NEW a \in Seq(Tasks), NEW b \in Seq(Tasks), NEW A, NEW B,
         Complete(a, A), Complete(b, B), \A x \in A, y \in B : Before(x, y)
  PROVE  Complete(a \o b, A \cup B)
<1> DEFINE c == a \o b
<1>1. /\ Len(c) = Len(a) + Len(b) /\ Len(a) \in Nat /\ Len(b) \in Nat
      /\ DOMAIN a = 1..Len(a) /\ DOMAIN b = 1..Len(b) /\ DOMAIN c = 1..Len(c)
      /\ \A n \in 1..Len(a) : c[n] = a[n]
      /\ \A n \in 1..Len(b) : c[Len(a) + n] = b[n]
  OBVIOUS
<1> HIDE DEF c
<1>2. \A n \in DOMAIN c : n \notin DOMAIN a => n - Len(a) \in DOMAIN b /\ c[n] = b[n - Len(a)]
  BY <1>1
<1>3. \A n \in DOMAIN c : IF n \in DOMAIN a THEN c[n] = a[n] /\ c[n] \in A ELSE c[n] \in B
  <2>1. (\A n \in DOMAIN a : a[n] \in A) /\ \A n \in DOMAIN b : b[n] \in B
    BY DEF Complete
  <2> QED
    BY <1>1, <1>2, <2>1
<1>4. {c[n] : n \in DOMAIN c} = A \cup B
  <2>1. ASSUME NEW x \in A PROVE \E n \in DOMAIN c : c[n] = x
    <3>1. PICK n \in DOMAIN a : a[n] = x
      BY <2>1 DEF Complete
    <3> QED
      BY <1>1, <3>1
  <2>2. ASSUME NEW x \in B PROVE \E n \in DOMAIN c : c[n] = x
    <3>1. PICK n \in DOMAIN b : b[n] = x
      BY <2>2 DEF Complete
    <3>2. Len(a) + n \in DOMAIN c /\ c[Len(a) + n] = x
      BY <1>1, <3>1
    <3> QED
      BY <3>2
  <2> QED
    BY <1>3, <2>1, <2>2
<1>5. ASSUME NEW m \in DOMAIN c, NEW n \in DOMAIN c, m < n PROVE Before(c[m], c[n])
  <2>1. CASE n \in DOMAIN a
    <3>1. m \in DOMAIN a
      BY <1>1, <1>5, <2>1
    <3> QED
      BY <1>3, <1>5, <2>1, <3>1 DEF Complete
  <2>2. CASE m \in DOMAIN a /\ n \notin DOMAIN a
    BY <1>3, <2>2
  <2>3. CASE m \notin DOMAIN a /\ n \notin DOMAIN a
    <3>1. m - Len(a) < n - Len(a)
      BY <1>1, <1>5
    <3> QED
      BY <1>2, <2>3, <3>1 DEF Complete
  <2>4. n \notin DOMAIN a \/ m \in DOMAIN a
    BY <1>1, <1>5
  <2> QED
    BY <2>1, <2>2, <2>3, <2>4
<1> QED
  BY <1>4, <1>5 DEF Complete, c

-----------------------------------------------------------------------------
(* Types.                                                                  *)

SuiteType == [at : {"none", "prepare", "gather"} \cup SuiteOver,
              round : Nat, records : Seq(Tasks)]

\* The constants a step counts with.
LEMMA Counts ==
  /\ MaxAttempts \in Nat \ {0} /\ MaxRuns \in Nat /\ MaxFaults \in Nat
  /\ Concurrency \in Nat \ {0}
  /\ \A t \in Tasks : /\ Timed[t.suite] \in Nat \ {0} /\ Calls[t.suite] \in Nat \ {0}
                       /\ Timed[t.suite] <= Calls[t.suite]
<1>1. \A t \in Tasks : t.suite \in Suites
  BY TaskFields
<1> QED
  BY <1>1, ConstantsAssumption

\* Creating the items of a round.
LEMMA QueueType ==
  ASSUME TypeOK, NEW entering, Queue(entering)
  PROVE  at' \in [Tasks -> {"none"} \cup Live \cup Over]
BY DEF TypeOK, Queue, Live

LEMMA CloseType ==
  ASSUME TypeOK, Close
  PROVE  at' \in [Tasks -> {"none"} \cup Live \cup Over]
BY DEF TypeOK, Close, Over

LEMMA RaiseType ==
  ASSUME TypeOK, Raise, stage \in {"warmup", "suites"}, faults' \in 0..MaxFaults
  PROVE  TypeOK'
<1>1. CASE Guarded
  BY <1>1 DEF TypeOK, Raise, taskVars
<1>2. CASE ~Guarded
  <2>1. at' \in [Tasks -> {"none"} \cup Live \cup Over]
    BY <1>2, CloseType DEF Raise
  <2> QED
    BY <1>2, <2>1 DEF TypeOK, Raise
<1> QED
  BY <1>1, <1>2

\* One suite's coroutine moves.
Moved(r, s, c) == suite' = [suite EXCEPT ![r][s] = c]

LEMMA MovedSuite ==
  ASSUME TypeOK, NEW r \in RunId, NEW s \in Suites, NEW c \in SuiteType, Moved(r, s, c)
  PROVE  /\ suite' \in [RunId -> [Suites -> SuiteType]]
         /\ suite'[r][s] = c
         /\ \A q \in RunId, x \in Suites : q # r \/ x # s => suite'[q][x] = suite[q][x]
<1>1. suite \in [RunId -> [Suites -> SuiteType]]
  BY DEF TypeOK, SuiteType
<1> QED
  BY <1>1 DEF Moved

\* What each step of a suite makes of its coroutine.
LEMMA SuiteMoves ==
  ASSUME Inv, NEW r \in RunId, NEW s \in Suites
  PROVE  LET c == suite[r][s] IN
         /\ c \in SuiteType
         /\ Prepared(r, s) => Moved(r, s, [c EXCEPT !.at = "gather"])
         /\ PrepareFails(r, s) \/ ItemFails(r, s) =>
              Moved(r, s, [c EXCEPT !.at = "failed", !.records = <<>>])
         /\ RoundEnds(r, s) =>
              LET k == c.round
                  records == c.records \o Gathered(r, s, k)
              IN  /\ k \in 1..Len(Rounds[s]) /\ records \in Seq(Tasks)
                  /\ k = Len(Rounds[s]) =>
                       Moved(r, s, [c EXCEPT !.at = "ok", !.records = records])
                  /\ k # Len(Rounds[s]) =>
                       Moved(r, s, [at |-> Entered(s, k + 1), round |-> k + 1,
                                    records |-> records])
<1> DEFINE c == suite[r][s]
<1>1. suite \in [RunId -> [Suites -> SuiteType]]
  BY DEF Inv, TypeOK, SuiteType
<1>2. c \in SuiteType
  BY <1>1
<1>3. ASSUME Prepared(r, s) PROVE Moved(r, s, [c EXCEPT !.at = "gather"])
  <2>1. suite' = [suite EXCEPT ![r][s].at = "gather"]
    BY <1>3 DEF Prepared
  <2> QED
    BY <1>1, <2>1 DEF Moved
<1>4. ASSUME PrepareFails(r, s) \/ ItemFails(r, s)
      PROVE  Moved(r, s, [c EXCEPT !.at = "failed", !.records = <<>>])
  <2>1. suite' = [suite EXCEPT ![r][s].at = "failed", ![r][s].records = <<>>]
    BY <1>4 DEF PrepareFails, ItemFails, Fail
  <2> QED
    BY <1>1, <2>1 DEF Moved
<1>5. ASSUME RoundEnds(r, s)
      PROVE  LET k == c.round
                 records == c.records \o Gathered(r, s, k)
             IN  /\ k \in 1..Len(Rounds[s]) /\ records \in Seq(Tasks)
                 /\ k = Len(Rounds[s]) =>
                      Moved(r, s, [c EXCEPT !.at = "ok", !.records = records])
                 /\ k # Len(Rounds[s]) =>
                      Moved(r, s, [at |-> Entered(s, k + 1), round |-> k + 1,
                                   records |-> records])
  <2> DEFINE k == c.round
             records == c.records \o Gathered(r, s, k)
  <2>1. k \in 1..Len(Rounds[s])
    BY <1>5 DEF Inv, SuiteOK, RoundEnds, Active
  <2>2. records \in Seq(Tasks)
    BY <1>2, <2>1, GatheredAre DEF SuiteType
  <2>3. CASE k = Len(Rounds[s])
    <3>1. suite' = [suite EXCEPT ![r][s].at = "ok", ![r][s].records = records]
      BY <1>5, <2>3 DEF RoundEnds
    <3>2. Moved(r, s, [c EXCEPT !.at = "ok", !.records = records])
      <4> HIDE DEF records
      <4> QED
        BY <1>1, <3>1 DEF Moved
    <3> QED
      BY <2>1, <2>2, <2>3, <3>2
  <2>4. CASE k # Len(Rounds[s])
    BY <1>5, <2>1, <2>2, <2>4 DEF RoundEnds, Moved
  <2> QED
    BY <2>1, <2>2, <2>3, <2>4
<1> QED
  BY <1>2, <1>3, <1>4, <1>5

\* Every step keeps the types.
LEMMA TypeStep ==
  ASSUME Inv, [Next]_vars PROVE TypeOK'
<1> USE Counts
<1>0. TypeOK /\ suite \in [RunId -> [Suites -> SuiteType]]
  BY DEF Inv, TypeOK, SuiteType
<1> DEFINE SuitesTyped == suite' \in [RunId -> [Suites -> SuiteType]]
           AtTyped == at' \in [Tasks -> {"none"} \cup Live \cup Over]
<1>1. CASE UNCHANGED vars
  BY <1>0, <1>1 DEF TypeOK, vars, loopVars, taskVars
<1>2. CASE Begin
  <2>1. run' \in 0..MaxRuns
    BY <1>0, <1>2 DEF Begin, TypeOK
  <2>2. outcome' \in [RunId -> {"none", "running", "kept", "raised"}]
    BY <1>0, <1>2 DEF Begin, TypeOK
  <2> QED
    BY <1>0, <1>2, <2>1, <2>2 DEF Begin, TypeOK, taskVars
<1>3. ASSUME NEW u \in Unlabelled, Launch(u) PROVE TypeOK'
  <2>1. AtTyped
    BY <1>0, <1>3, QueueType DEF Launch
  <2> DEFINE c(s) == IF s \in u THEN [NoSuite EXCEPT !.at = "skipped"]
                      ELSE [NoSuite EXCEPT !.at = Entered(s, 1), !.round = 1]
  <2>2. SuitesTyped
    <3>0. <<>> \in Seq(Tasks) /\ 0 \in Nat /\ 1 \in Nat
      OBVIOUS
    <3>1. ASSUME NEW s \in Suites PROVE c(s) \in SuiteType
      <4>1. CASE s \in u
        BY <3>0, <4>1 DEF NoSuite, SuiteType, SuiteOver
      <4>2. CASE s \notin u
        BY <3>0, <4>2 DEF NoSuite, SuiteType, Entered
      <4> QED
        BY <4>1, <4>2
    <3>2. suite' = [suite EXCEPT ![run] = [s \in Suites |-> c(s)]]
      BY <1>3 DEF Launch
    <3> HIDE DEF c
    <3> QED
      BY <1>0, <3>1, <3>2
  <2> QED
    BY <1>0, <1>3, <2>1, <2>2 DEF Launch, TypeOK, SuiteType
<1>4. CASE Return
  BY <1>0, <1>4 DEF Return, TypeOK, taskVars, NoSamples
<1>5. CASE FailFast
  BY <1>0, <1>5, RaiseType DEF FailFast, TypeOK
<1>6. CASE StartFails
  <2>1. faults' \in 0..MaxFaults
    BY <1>0, <1>6 DEF StartFails, Fault, TypeOK
  <2> QED
    BY <1>0, <1>6, <2>1, RaiseType DEF StartFails
<1>7. CASE Exit
  BY <1>0, <1>7, CloseType DEF Exit, TypeOK
<1>8. ASSUME NEW r \in RunId, NEW s \in Suites, SuiteStep(r, s) \/ PrepareFails(r, s)
      PROVE  TypeOK'
  <2>1. SuitesTyped
    <3>1. CASE Prepared(r, s)
      <4>1. [suite[r][s] EXCEPT !.at = "gather"] \in SuiteType
        BY SuiteMoves DEF SuiteType
      <4> QED
        BY <1>0, <3>1, <4>1, SuiteMoves, MovedSuite
    <3>2. CASE PrepareFails(r, s) \/ ItemFails(r, s)
      <4>1. [suite[r][s] EXCEPT !.at = "failed", !.records = <<>>] \in SuiteType
        <5>1. <<>> \in Seq(Tasks) /\ suite[r][s] \in SuiteType
          BY <1>0
        <5> QED
          BY <5>1 DEF SuiteType, SuiteOver
      <4> QED
        BY <1>0, <3>2, <4>1, SuiteMoves, MovedSuite
    <3>3. CASE RoundEnds(r, s)
      <4> DEFINE k == suite[r][s].round
                 records == suite[r][s].records \o Gathered(r, s, k)
                 last == [suite[r][s] EXCEPT !.at = "ok", !.records = records]
                 next == [at |-> Entered(s, k + 1), round |-> k + 1, records |-> records]
      <4>1. /\ k \in 1..Len(Rounds[s]) /\ records \in Seq(Tasks)
            /\ Moved(r, s, last) \/ Moved(r, s, next)
        BY <3>3, SuiteMoves
      <4> HIDE DEF records
      <4>2. last \in SuiteType
        BY <4>1, SuiteMoves DEF SuiteType, SuiteOver
      <4>3. next \in SuiteType
        BY <4>1 DEF SuiteType, Entered
      <4> HIDE DEF last, next
      <4> QED
        BY <1>0, <4>1, <4>2, <4>3, MovedSuite
    <3> QED
      BY <1>8, <3>1, <3>2, <3>3 DEF SuiteStep
  <2>2. AtTyped
    BY <1>0, <1>8, QueueType DEF SuiteStep, Prepared, PrepareFails, RoundEnds, ItemFails,
       taskVars, TypeOK
  <2>3. faults' \in 0..MaxFaults
    <3>1. UNCHANGED faults \/ Fault
      BY <1>8 DEF SuiteStep, Prepared, PrepareFails, RoundEnds, ItemFails
    <3> QED
      BY <1>0, <3>1 DEF Fault, TypeOK
  <2>4. UNCHANGED <<loopVars, done, attempt, made, fatal, samples, stats>>
    BY <1>8 DEF SuiteStep, Prepared, PrepareFails, RoundEnds, ItemFails, taskVars
  <2> QED
    BY <1>0, <2>1, <2>2, <2>3, <2>4 DEF TypeOK, SuiteType, loopVars
<1>9. ASSUME NEW t \in Tasks, ItemStep(t) \/ Retryable(t) \/ Unretried(t) PROVE TypeOK'
  <2>1. CASE Acquire(t) \/ Wake(t)
    <3>1. AtTyped
      BY <1>0, <2>1 DEF Acquire, Wake, TypeOK, Live
    <3>2. made' \in [Tasks -> Nat]
      <4>1. made \in [Tasks -> Nat] /\ made' = [made EXCEPT ![t] = @ + 1]
        BY <1>0, <2>1 DEF Acquire, Wake, TypeOK
      <4> QED
        BY <4>1
    <3> QED
      BY <1>0, <2>1, <3>1, <3>2 DEF Acquire, Wake, TypeOK, loopVars
  <2>2. CASE Answer(t)
    <3>1. AtTyped
      <4>1. at' = at \/ at' = [at EXCEPT ![t] = "done"]
        BY <2>2 DEF Answer
      <4> QED
        BY <1>0, <4>1 DEF TypeOK, Over
    <3>2. made' \in [Tasks -> Nat]
      <4>1. made \in [Tasks -> Nat] /\ (made' = made \/ made' = [made EXCEPT ![t] = 1])
        BY <1>0, <2>2 DEF Answer, TypeOK
      <4> QED
        BY <4>1
    <3>3. samples' \in [Tasks -> Nat]
      <4>1. /\ samples \in [Tasks -> Nat]
            /\ samples' = [samples EXCEPT ![t] = IF done[t] + 1 = Timed[t.suite] THEN @ + 1 ELSE @]
        BY <1>0, <2>2 DEF Answer, TypeOK
      <4> QED
        BY <4>1
    <3>4. done' \in [Tasks -> Nat] /\ attempt' \in [Tasks -> 0..MaxAttempts]
      BY <1>0, <2>2 DEF Answer, TypeOK
    <3> QED
      BY <1>0, <2>2, <3>1, <3>2, <3>3, <3>4 DEF Answer, TypeOK, loopVars
  <2>3. CASE Retryable(t)
    <3>1. attempt[t] + 1 \in 0..MaxAttempts
      BY <1>0, <2>3 DEF Inv, ItemOK, Retryable, TypeOK
    <3> QED
      BY <1>0, <2>3, <3>1 DEF Retryable, TypeOK, loopVars, Over, Live, Fault
  <2>4. CASE Unretried(t)
    BY <1>0, <2>4 DEF Unretried, TypeOK, loopVars, Over, Fault
  <2> QED
    BY <1>9, <2>1, <2>2, <2>3, <2>4 DEF ItemStep
<1> QED
  BY <1>1, <1>2, <1>3, <1>4, <1>5, <1>6, <1>7, <1>8, <1>9 DEF Next, Loop

-----------------------------------------------------------------------------
(* Items.                                                                  *)

LEMMA AtType ==
  ASSUME TypeOK
  PROVE  /\ at \in [Tasks -> {"none"} \cup Live \cup Over]
         /\ done \in [Tasks -> Nat] /\ attempt \in [Tasks -> 0..MaxAttempts]
         /\ made \in [Tasks -> Nat] /\ fatal \in [Tasks -> BOOLEAN]
         /\ samples \in [Tasks -> Nat]
BY DEF TypeOK

\* The items that a step creates did not exist.
LEMMA Entering ==
  ASSUME Inv
  PROVE  /\ \A u \in Unlabelled : Launch(u) =>
               \A t \in Tasks : at'[t] = at[t] \/ (/\ at[t] = "none" /\ at'[t] = "queued"
                                                /\ t.run = run /\ t.suite \notin u /\ t.round = 1
                                                /\ ~Rounds[t.suite][1].prepare)
         /\ \A r \in RunId, s \in Suites : Prepared(r, s) =>
               \A t \in Tasks : at'[t] = at[t] \/ (/\ at[t] = "none" /\ at'[t] = "queued"
                                                /\ t \in Own(r, s) /\ t.round = suite[r][s].round)
         /\ \A r \in RunId, s \in Suites : RoundEnds(r, s) =>
               \A t \in Tasks : at'[t] = at[t] \/ (/\ at[t] = "none" /\ at'[t] = "queued"
                                                /\ t \in Own(r, s) /\ t.round = suite[r][s].round + 1
                                                /\ t.round <= Len(Rounds[s])
                                                /\ ~Rounds[s][t.round].prepare)
<1>0. at \in [Tasks -> {"none"} \cup Live \cup Over] /\ run \in 0..MaxRuns
  BY DEF Inv, TypeOK
<1>1. ASSUME NEW entering, Queue(entering), NEW t \in Tasks
      PROVE  at'[t] = at[t] \/ (t \in entering /\ at'[t] = "queued")
  BY <1>0, <1>1 DEF Queue
<1>2. ASSUME NEW u \in Unlabelled, Launch(u), NEW t \in Tasks
      PROVE  at'[t] = at[t] \/ (/\ at[t] = "none" /\ at'[t] = "queued"
                               /\ t.run = run /\ t.suite \notin u /\ t.round = 1
                               /\ ~Rounds[t.suite][1].prepare)
  <2> DEFINE entering == UNION {Items(run, s, 1) : s \in {x \in Suites \ u : ~Rounds[x][1].prepare}}
  <2>1. Queue(entering) /\ run \in RunId /\ \A s \in Suites : suite[run][s] = NoSuite
    BY <1>2 DEF Launch, Inv, RunOK
  <2>2. ASSUME t \in entering
        PROVE  at[t] = "none" /\ t.run = run /\ t.suite \notin u /\ t.round = 1
               /\ ~Rounds[t.suite][1].prepare
    <3>1. PICK s \in Suites \ u : ~Rounds[s][1].prepare /\ t \in Items(run, s, 1)
      BY <2>2
    <3>2. t.run = run /\ t.suite = s /\ t.round = 1
      BY <3>1 DEF Items
    <3>3. SuiteOK(run, s) /\ suite[run][s].round = 0 /\ t \in Own(run, s)
      BY <2>1, <3>1, <3>2 DEF Inv, NoSuite, Own
    <3>4. at[t] = "none"
      BY <3>2, <3>3 DEF SuiteOK
    <3> QED
      BY <3>1, <3>2, <3>4
  <2> HIDE DEF entering
  <2> QED
    BY <1>1, <2>1, <2>2
<1>3. ASSUME NEW r \in RunId, NEW s \in Suites, Prepared(r, s), NEW t \in Tasks
      PROVE  at'[t] = at[t] \/ (/\ at[t] = "none" /\ at'[t] = "queued"
                               /\ t \in Own(r, s) /\ t.round = suite[r][s].round)
  <2>1. Queue(Items(r, s, suite[r][s].round)) /\ suite[r][s].at = "prepare"
    BY <1>3 DEF Prepared, Active
  <2>2. suite[r][s].round \in 1..Len(Rounds[s])
    BY <2>1 DEF Inv, SuiteOK
  <2>3. t \in Items(r, s, suite[r][s].round) => t \in Own(r, s) /\ t.round = suite[r][s].round
    BY <2>2, ItemsAre DEF Own
  <2>4. t \in Own(r, s) /\ t.round = suite[r][s].round => at[t] = "none"
    BY <2>1 DEF Inv, SuiteOK
  <2> QED
    BY <1>1, <2>1, <2>3, <2>4
<1>4. ASSUME NEW r \in RunId, NEW s \in Suites, RoundEnds(r, s), NEW t \in Tasks
      PROVE  at'[t] = at[t] \/ (/\ at[t] = "none" /\ at'[t] = "queued"
                               /\ t \in Own(r, s) /\ t.round = suite[r][s].round + 1
                               /\ t.round <= Len(Rounds[s])
                               /\ ~Rounds[s][t.round].prepare)
  <2> DEFINE k == suite[r][s].round
  <2>1. k \in 1..Len(Rounds[s]) /\ Len(Rounds[s]) \in Nat
    BY <1>4, RoundType DEF Inv, SuiteOK, RoundEnds, Active
  <2>2. \/ at' = at
        \/ k # Len(Rounds[s]) /\ Queue(IF Rounds[s][k + 1].prepare THEN {} ELSE Items(r, s, k + 1))
    BY <1>4 DEF RoundEnds
  <2>3. CASE at' = at
    BY <2>3
  <2>4. CASE at' # at
    <3>1. k + 1 \in 1..Len(Rounds[s])
      BY <2>1, <2>2, <2>4
    <3>2. at'[t] = at[t] \/ (~Rounds[s][k + 1].prepare /\ t \in Items(r, s, k + 1) /\ at'[t] = "queued")
      BY <1>1, <2>2, <2>4
    <3>3. t \in Items(r, s, k + 1) => t \in Own(r, s) /\ t.round = k + 1
      BY <3>1, ItemsAre DEF Own
    <3>4. t \in Own(r, s) /\ t.round = k + 1 => at[t] = "none"
      BY <2>1 DEF Inv, SuiteOK
    <3> QED
      BY <2>1, <3>1, <3>2, <3>3, <3>4
  <2> QED
    BY <2>3, <2>4
<1> QED
  BY <1>2, <1>3, <1>4

\* A step leaves an item as it is, creates it, cancels it, or is its own.
LEMMA ItemMoves ==
  ASSUME Inv, [Next]_vars, NEW t \in Tasks
  PROVE  \/ UNCHANGED <<at[t], done[t], attempt[t], made[t], fatal[t], samples[t]>>
         \/ /\ UNCHANGED <<done[t], attempt[t], made[t], fatal[t], samples[t]>>
            /\ \/ at[t] = "none" /\ at'[t] = "queued"
               \/ at[t] \in Live /\ at'[t] = "cancelled"
         \/ ItemStep(t) \/ Retryable(t) \/ Unretried(t)
<1>0. /\ at \in [Tasks -> {"none"} \cup Live \cup Over]
      /\ done \in [Tasks -> Nat] /\ attempt \in [Tasks -> 0..MaxAttempts]
      /\ made \in [Tasks -> Nat] /\ fatal \in [Tasks -> BOOLEAN]
      /\ samples \in [Tasks -> Nat]
  BY AtType DEF Inv
<1>1. CASE UNCHANGED vars \/ Begin \/ Return
  BY <1>1 DEF vars, taskVars, Begin, Return
<1>2. ASSUME NEW u \in Unlabelled, Launch(u)
      PROVE  /\ UNCHANGED <<done[t], attempt[t], made[t], fatal[t], samples[t]>>
             /\ at'[t] = at[t] \/ (at[t] = "none" /\ at'[t] = "queued")
  BY <1>2, Entering DEF Launch
<1>3. ASSUME Close \/ UNCHANGED at, UNCHANGED <<done, attempt, made, fatal, samples>>
      PROVE  /\ UNCHANGED <<done[t], attempt[t], made[t], fatal[t], samples[t]>>
             /\ at'[t] = at[t] \/ (at[t] \in Live /\ at'[t] = "cancelled")
  BY <1>0, <1>3 DEF Close
<1>4. CASE FailFast \/ StartFails \/ Exit
  <2>1. (Close \/ UNCHANGED at) /\ UNCHANGED <<done, attempt, made, fatal, samples>>
    BY <1>4 DEF FailFast, StartFails, Exit, Raise, taskVars
  <2> QED
    BY <1>3, <2>1
<1>5. ASSUME NEW r \in RunId, NEW s \in Suites, SuiteStep(r, s) \/ PrepareFails(r, s)
      PROVE  /\ UNCHANGED <<done[t], attempt[t], made[t], fatal[t], samples[t]>>
             /\ at'[t] = at[t] \/ (at[t] = "none" /\ at'[t] = "queued")
  <2>1. UNCHANGED <<done, attempt, made, fatal, samples>>
    BY <1>5 DEF SuiteStep, PrepareFails, Prepared, RoundEnds, ItemFails, taskVars
  <2>2. CASE Prepared(r, s) \/ RoundEnds(r, s)
    BY <2>1, <2>2, Entering
  <2>3. CASE PrepareFails(r, s) \/ ItemFails(r, s)
    BY <2>1, <2>3 DEF PrepareFails, ItemFails, taskVars
  <2> QED
    BY <1>5, <2>2, <2>3 DEF SuiteStep
<1>6. ASSUME NEW u \in Tasks, ItemStep(u) \/ Retryable(u) \/ Unretried(u), u # t
      PROVE  UNCHANGED <<at[t], done[t], attempt[t], made[t], fatal[t], samples[t]>>
  BY <1>0, <1>6 DEF ItemStep, Acquire, Answer, Wake, Retryable, Unretried
<1> QED
  BY <1>1, <1>2, <1>4, <1>5, <1>6 DEF Next, Loop

LEMMA ItemsOK ==
  ASSUME Inv, [Next]_vars, NEW t \in Tasks PROVE ItemOK(t)'
<1>0. /\ ItemOK(t)
      /\ at \in [Tasks -> {"none"} \cup Live \cup Over]
      /\ done \in [Tasks -> Nat] /\ attempt \in [Tasks -> 0..MaxAttempts]
      /\ made \in [Tasks -> Nat] /\ fatal \in [Tasks -> BOOLEAN]
      /\ samples \in [Tasks -> Nat]
      /\ MaxAttempts \in Nat \ {0}
      /\ Timed[t.suite] \in Nat \ {0} /\ Calls[t.suite] \in Nat \ {0}
      /\ Timed[t.suite] <= Calls[t.suite]
  BY AtType, Counts DEF Inv
<1>1. CASE UNCHANGED <<at[t], done[t], attempt[t], made[t], fatal[t], samples[t]>>
  BY <1>0, <1>1 DEF ItemOK
<1>2. CASE /\ UNCHANGED <<done[t], attempt[t], made[t], fatal[t], samples[t]>>
           /\ \/ at[t] = "none" /\ at'[t] = "queued"
              \/ at[t] \in Live /\ at'[t] = "cancelled"
  BY <1>0, <1>2 DEF ItemOK
<1>3. CASE Acquire(t)
  BY <1>0, <1>3 DEF ItemOK, Acquire
<1>4. CASE Answer(t)
  <2>1. /\ at[t] = "calling" /\ done'[t] = done[t] + 1 /\ attempt'[t] = 0
        /\ samples'[t] = IF done[t] + 1 = Timed[t.suite] THEN samples[t] + 1 ELSE samples[t]
        /\ fatal'[t] = fatal[t]
    BY <1>0, <1>4 DEF Answer
  <2>2. \/ done[t] + 1 = Calls[t.suite] /\ at'[t] = "done" /\ made'[t] = made[t]
        \/ done[t] + 1 # Calls[t.suite] /\ at'[t] = "calling" /\ made'[t] = 1
    BY <1>0, <1>4 DEF Answer
  <2>3. done[t] < Calls[t.suite] /\ done[t] \in Nat
    BY <1>0, <2>1 DEF ItemOK
  <2>4. samples'[t] = IF done'[t] >= Timed[t.suite] THEN 1 ELSE 0
    BY <1>0, <2>1, <2>3 DEF ItemOK
  <2> QED
    BY <1>0, <2>1, <2>2, <2>3, <2>4 DEF ItemOK
<1>5. CASE Wake(t)
  BY <1>0, <1>5 DEF ItemOK, Wake
<1>6. CASE Retryable(t)
  BY <1>0, <1>6 DEF ItemOK, Retryable, Exhausted
<1>7. CASE Unretried(t)
  BY <1>0, <1>7 DEF ItemOK, Unretried
<1> QED
  BY <1>1, <1>2, <1>3, <1>4, <1>5, <1>6, <1>7, ItemMoves DEF ItemStep

-----------------------------------------------------------------------------
(* Suites.                                                                 *)

\* A suite whose coroutine does not move is as well off as it was: of its
\* items only those alive change.
LEMMA SuiteSame ==
  ASSUME Inv, NEW r \in RunId, NEW s \in Suites, suite'[r][s] = suite[r][s],
         \A t \in Own(r, s) : at[t] \notin Live => at'[t] = at[t]
  PROVE  SuiteOK(r, s)'
<1>1. \A t \in Own(r, s) : at[t] \in {"none", "done", "error"} => at'[t] = at[t]
  BY DEF Live
<1>2. SuiteOK(r, s)
  BY DEF Inv
<1> QED
  BY <1>1, <1>2 DEF SuiteOK, Past, Own

\* The steps that move no suite.
LEMMA Settled ==
  ASSUME Inv,
         \/ UNCHANGED vars \/ Begin \/ Return \/ FailFast \/ StartFails \/ Exit
         \/ \E t \in Tasks : ItemStep(t) \/ Retryable(t) \/ Unretried(t)
  PROVE  UNCHANGED suite /\ \A t \in Tasks : at[t] \notin Live => at'[t] = at[t]
<1>0. at \in [Tasks -> {"none"} \cup Live \cup Over]
  BY AtType DEF Inv
<1>1. CASE UNCHANGED vars \/ Begin \/ Return
  BY <1>1 DEF vars, taskVars, Begin, Return
<1>2. CASE FailFast \/ StartFails \/ Exit
  <2>1. UNCHANGED suite /\ (Close \/ UNCHANGED at)
    BY <1>2 DEF FailFast, StartFails, Exit, Raise, taskVars
  <2> QED
    BY <1>0, <2>1 DEF Close
<1>3. ASSUME NEW u \in Tasks, ItemStep(u) \/ Retryable(u) \/ Unretried(u)
      PROVE  UNCHANGED suite /\ \A t \in Tasks : at[t] \notin Live => at'[t] = at[t]
  <2>1. UNCHANGED suite /\ at[u] \in Live
    BY <1>3 DEF ItemStep, Acquire, Answer, Wake, Retryable, Unretried, Live
  <2>2. \A t \in Tasks : t # u => at'[t] = at[t]
    BY <1>0, <1>3 DEF ItemStep, Acquire, Answer, Wake, Retryable, Unretried
  <2> QED
    BY <2>1, <2>2
<1> QED
  BY <1>1, <1>2, <1>3

LEMMA NoRecords == Complete(<<>>, {})
BY DEF Complete

\* A suite that is launched.
LEMMA LaunchOK ==
  ASSUME Inv, NEW u \in Unlabelled, Launch(u), NEW r \in RunId, r = run,
         NEW s \in Suites
  PROVE  SuiteOK(r, s)'
<1>1. suite[r][s] = NoSuite /\ suite \in [RunId -> [Suites -> SuiteType]]
  BY DEF Launch, Inv, RunOK, TypeOK, SuiteType
<1>2. suite'[r][s] = IF s \in u THEN [NoSuite EXCEPT !.at = "skipped"]
                       ELSE [NoSuite EXCEPT !.at = Entered(s, 1), !.round = 1]
  BY <1>1 DEF Launch
<1>4. \A t \in Own(r, s) : at[t] = "none" /\ t.round > 0
  <2>1. SuiteOK(r, s) /\ suite[r][s].round = 0
    BY <1>1 DEF Inv, NoSuite
  <2>2. \A t \in Own(r, s) : t.round > 0
    BY TaskFields DEF Own
  <2> QED
    BY <2>1, <2>2 DEF SuiteOK
<1>5. \A t \in Own(r, s) : at'[t] = "none" \/ (t.round = 1 /\ s \notin u /\ ~Rounds[s][1].prepare)
  BY <1>4, Entering DEF Own
<1>6. CASE s \in u
  <2>1. suite'[r][s].at = "skipped" /\ suite'[r][s].round = 0
    BY <1>2, <1>6 DEF NoSuite
  <2>2. \A t \in Own(r, s) : at'[t] = "none" /\ ~(t.round < 0)
    BY <1>5, <1>6, TaskFields DEF Own
  <2> QED
    BY <2>1, <2>2 DEF SuiteOK, Own
<1>7. CASE s \notin u
  <2>1. /\ suite'[r][s].at = Entered(s, 1) /\ suite'[r][s].round = 1
        /\ suite'[r][s].records = <<>>
    BY <1>2, <1>7 DEF NoSuite
  <2>2. 1 \in 1..Len(Rounds[s])
    BY ConstantsAssumption
  <2>3. Entered(s, 1) \in {"prepare", "gather"}
        /\ (Entered(s, 1) = "prepare" => Rounds[s][1].prepare)
    BY DEF Entered
  <2>4. \A t \in Own(r, s) : ~(t.round < 1)
    BY TaskFields DEF Own
  <2>5. Past(r, s)' = {}
    BY <2>1, <2>4 DEF Past, Own
  <2>6. \A t \in Own(r, s) : t.round > 1 => at'[t] = "none"
    BY <1>5
  <2>7. Entered(s, 1) = "prepare" => \A t \in Own(r, s) : at'[t] = "none"
    BY <1>5, <2>3
  <2> QED
    BY <2>1, <2>2, <2>3, <2>4, <2>5, <2>6, <2>7, NoRecords DEF SuiteOK, Own
<1> QED
  BY <1>6, <1>7

\* The rounds of a suite's items.
LEMMA OwnRounds ==
  ASSUME NEW r \in RunId, NEW s \in Suites, NEW t \in Own(r, s)
  PROVE  t \in Tasks /\ t.round \in 1..Len(Rounds[s]) /\ t.item \in Nat
<1>1. t \in Tasks /\ t.suite = s
  BY DEF Own
<1>2. t.round \in 1..Len(Rounds[s]) /\ t.item \in 1..Rounds[s][t.round].items
  BY <1>1, TaskFields
<1>3. t.item \in Nat
  BY <1>2, RoundType
<1> QED
  BY <1>1, <1>2, <1>3

\* A round that is over completes the records up to it.
LEMMA RoundRecords ==
  ASSUME Inv, NEW r \in RunId, NEW s \in Suites, RoundEnds(r, s)
  PROVE  LET k == suite[r][s].round
         IN  /\ Complete(suite[r][s].records \o Gathered(r, s, k),
                         {t \in Own(r, s) : t.round <= k})
             /\ \A t \in Own(r, s) : t.round <= k => at[t] = "done"
<1> DEFINE k == suite[r][s].round
           records == suite[r][s].records
<1>1. /\ suite[r][s].at = "gather" /\ RoundOver(r, s, k)
      /\ SuiteOK(r, s) /\ records \in Seq(Tasks)
  BY SuiteMoves DEF RoundEnds, Active, Inv, SuiteType
<1>2. k \in 1..Len(Rounds[s])
  BY <1>1 DEF SuiteOK
<1>3. Items(r, s, k) = {t \in Own(r, s) : t.round = k}
  BY <1>2, ItemsAre DEF Own
<1>4. Past(r, s) \cup Items(r, s, k) = {t \in Own(r, s) : t.round <= k}
  BY <1>2, <1>3, OwnRounds DEF Past
<1>5. \A x \in Past(r, s), y \in Items(r, s, k) : Before(x, y)
  BY <1>3 DEF Past, Before
<1>6. Complete(records, Past(r, s))
  BY <1>1 DEF SuiteOK
<1>7. Complete(records \o Gathered(r, s, k), {t \in Own(r, s) : t.round <= k})
  BY <1>1, <1>2, <1>4, <1>5, <1>6, GatheredAre, Extend
<1>8. ASSUME NEW t \in Own(r, s), t.round <= k PROVE at[t] = "done"
  <2>1. CASE t.round = k
    BY <1>1, <1>3, <2>1 DEF RoundOver
  <2>2. CASE t.round # k
    <3>1. t.round < k
      BY <1>2, <1>8, <2>2, OwnRounds
    <3> QED
      BY <1>1, <3>1 DEF SuiteOK
  <2> QED
    BY <2>1, <2>2
<1> QED
  BY <1>7, <1>8

\* A suite whose coroutine moves.
LEMMA MoveOK ==
  ASSUME Inv, NEW r \in RunId, NEW s \in Suites, SuiteStep(r, s) \/ PrepareFails(r, s)
  PROVE  SuiteOK(r, s)'
<1> DEFINE c == suite[r][s]
           d == suite'[r][s]
<1>1. /\ TypeOK /\ SuiteOK(r, s) /\ c \in SuiteType
  BY SuiteMoves DEF Inv
<1>2. CASE Prepared(r, s)
  <2>1. c.at = "prepare"
    BY <1>2 DEF Prepared, Active
  <2>2. d = [c EXCEPT !.at = "gather"]
    <3>1. [c EXCEPT !.at = "gather"] \in SuiteType
      BY <1>1 DEF SuiteType
    <3>2. Moved(r, s, [c EXCEPT !.at = "gather"])
      BY <1>2, SuiteMoves
    <3> QED
      BY <1>1, <3>1, <3>2, MovedSuite
  <2>3. d.at = "gather" /\ d.round = c.round /\ d.records = c.records
    BY <1>1, <2>2 DEF SuiteType
  <2>4. \A t \in Own(r, s) : at'[t] = at[t] \/ t.round = c.round
    BY <1>2, Entering DEF Own
  <2>5. Past(r, s)' = Past(r, s)
    BY <2>3 DEF Past, Own
  <2>6. c.round \in 1..Len(Rounds[s]) /\ Complete(c.records, Past(r, s))
    BY <1>1, <2>1 DEF SuiteOK
  <2>7. \A t \in Own(r, s) : /\ t.round > c.round => at'[t] = "none"
                             /\ t.round < c.round => at'[t] = "done"
    <3>1. \A t \in Own(r, s) : (t.round > c.round \/ t.round < c.round) => at'[t] = at[t]
      BY <2>4, <2>6, OwnRounds
    <3> QED
      BY <1>1, <3>1 DEF SuiteOK
  <2> QED
    BY <2>3, <2>5, <2>6, <2>7 DEF SuiteOK, Own
<1>3. CASE PrepareFails(r, s) \/ ItemFails(r, s)
  <2>1. UNCHANGED at
    BY <1>3 DEF PrepareFails, ItemFails, taskVars
  <2>2. d = [c EXCEPT !.at = "failed", !.records = <<>>]
    <3>1. <<>> \in Seq(Tasks)
      OBVIOUS
    <3>2. [c EXCEPT !.at = "failed", !.records = <<>>] \in SuiteType
      BY <1>1, <3>1 DEF SuiteType, SuiteOver
    <3>3. Moved(r, s, [c EXCEPT !.at = "failed", !.records = <<>>])
      BY <1>3, SuiteMoves
    <3> QED
      BY <1>1, <3>2, <3>3, MovedSuite
  <2>3. d.at = "failed" /\ d.round = c.round /\ d.records = <<>>
    BY <1>1, <2>2 DEF SuiteType
  <2>4. c.at \in {"prepare", "gather"} /\ c.round \in 1..Len(Rounds[s])
    BY <1>1, <1>3 DEF PrepareFails, ItemFails, Active, SuiteOK
  <2>5. \/ \E t \in Own(r, s) : at[t] = "error"
        \/ \A t \in Own(r, s) : t.round >= c.round => at[t] = "none"
    <3>1. CASE PrepareFails(r, s)
      <4>1. c.at = "prepare"
        BY <3>1 DEF PrepareFails, Active
      <4>2. \A t \in Own(r, s) : t.round >= c.round => t.round > c.round \/ t.round = c.round
        BY <2>4, OwnRounds
      <4> QED
        BY <1>1, <4>1, <4>2 DEF SuiteOK
    <3>2. CASE ItemFails(r, s)
      <4>1. \E t \in Items(r, s, c.round) : at[t] = "error"
        BY <3>2 DEF ItemFails
      <4> QED
        BY <2>4, <4>1, ItemsAre DEF Own
    <3> QED
      BY <1>3, <3>1, <3>2
  <2> QED
    BY <1>1, <2>1, <2>3, <2>4, <2>5 DEF SuiteOK, Own
<1>4. CASE RoundEnds(r, s)
  <2> DEFINE k == c.round
             records == c.records \o Gathered(r, s, k)
             next == [at |-> Entered(s, k + 1), round |-> k + 1, records |-> records]
             last == [c EXCEPT !.at = "ok", !.records = records]
  <2>1. k \in 1..Len(Rounds[s]) /\ records \in Seq(Tasks)
    BY <1>4, SuiteMoves
  <2>2. /\ Complete(records, {t \in Own(r, s) : t.round <= k})
        /\ \A t \in Own(r, s) : t.round <= k => at[t] = "done"
    BY <1>4, RoundRecords
  <2>3. \A t \in Own(r, s) : at[t] = "done" => at'[t] = "done"
    BY <1>4, Entering DEF Own
  <2>4. \A t \in Own(r, s) : t.round <= k => at'[t] = "done"
    BY <2>2, <2>3
  <2>5. CASE k = Len(Rounds[s])
    <3>1. d = last
      <4>1. Moved(r, s, last)
        BY <1>4, <2>5, SuiteMoves
      <4> HIDE DEF records
      <4>2. last \in SuiteType
        BY <1>1, <2>1 DEF SuiteType, SuiteOver
      <4> QED
        BY <1>1, <4>1, <4>2, MovedSuite
    <3>2. d.at = "ok" /\ d.round = k /\ d.records = records
      BY <1>1, <3>1 DEF SuiteType
    <3>3. \A t \in Own(r, s) : t.round <= k /\ ~(t.round > k)
      BY <2>1, <2>5, OwnRounds
    <3>4. {t \in Own(r, s) : t.round <= k} = Own(r, s)
      BY <3>3
    <3>5. Complete(records, Own(r, s)) /\ \A t \in Own(r, s) : at'[t] = "done"
      BY <2>2, <2>4, <3>3, <3>4
    <3> HIDE DEF records
    <3> QED
      BY <2>1, <3>2, <3>3, <3>5 DEF SuiteOK, Own
  <2>6. CASE k # Len(Rounds[s])
    <3>1. d = next
      <4>1. Moved(r, s, next)
        BY <1>4, <2>6, SuiteMoves
      <4> HIDE DEF records
      <4>2. next \in SuiteType
        BY <2>1 DEF SuiteType, Entered
      <4> QED
        BY <1>1, <4>1, <4>2, MovedSuite
    <3>2. d.at = Entered(s, k + 1) /\ d.round = k + 1 /\ d.records = records
      <4> HIDE DEF records
      <4> QED
        BY <3>1
    <3>3. k + 1 \in 1..Len(Rounds[s])
      BY <2>1, <2>6
    <3>4. \A t \in Own(r, s) : t.round \in Nat /\ (t.round < k + 1 <=> t.round <= k)
      BY <2>1, OwnRounds
    <3>5. Complete(records, Past(r, s)')
      <4>1. Past(r, s)' = {t \in Own(r, s) : t.round < d.round}
        BY DEF Past, Own
      <4>2. Past(r, s)' = {t \in Own(r, s) : t.round <= k}
        BY <3>2, <3>4, <4>1
      <4> QED
        BY <2>2, <4>2
    <3>6. \A t \in Own(r, s) : t.round > k => at[t] = "none"
      BY <1>1 DEF SuiteOK
    <3>7. \A t \in Own(r, s) :
             at'[t] = at[t] \/ (t.round = k + 1 /\ ~Rounds[s][k + 1].prepare)
      BY <1>4, Entering DEF Own
    <3>8. \A t \in Own(r, s) : t.round > k + 1 => at'[t] = "none"
      BY <2>1, <3>4, <3>6, <3>7
    <3>9. Rounds[s][k + 1].prepare => \A t \in Own(r, s) : t.round = k + 1 => at'[t] = "none"
      BY <2>1, <3>6, <3>7
    <3>10. Entered(s, k + 1) \in {"prepare", "gather"}
           /\ (Entered(s, k + 1) = "prepare" => Rounds[s][k + 1].prepare)
      BY DEF Entered
    <3> HIDE DEF records
    <3> QED
      BY <2>1, <2>4, <3>2, <3>3, <3>4, <3>5, <3>8, <3>9, <3>10 DEF SuiteOK, Own
  <2> QED
    BY <2>5, <2>6
<1> QED
  BY <1>2, <1>3, <1>4 DEF SuiteStep

LEMMA SuitesOK ==
  ASSUME Inv, [Next]_vars, NEW r \in RunId, NEW s \in Suites
  PROVE  SuiteOK(r, s)'
<1>0. TypeOK /\ suite \in [RunId -> [Suites -> SuiteType]]
  BY DEF Inv, TypeOK, SuiteType
<1>1. CASE \/ UNCHANGED vars \/ Begin \/ Return \/ FailFast \/ StartFails \/ Exit
           \/ \E t \in Tasks : ItemStep(t) \/ Retryable(t) \/ Unretried(t)
  <2>1. UNCHANGED suite /\ \A t \in Tasks : at[t] \notin Live => at'[t] = at[t]
    BY <1>1, Settled
  <2> QED
    BY <2>1, SuiteSame DEF Own
<1>2. ASSUME NEW u \in Unlabelled, Launch(u) PROVE SuiteOK(r, s)'
  <2>1. CASE r = run
    BY <1>2, <2>1, LaunchOK
  <2>2. CASE r # run
    <3>1. suite'[r] = suite[r]
      BY <1>0, <1>2, <2>2 DEF Launch
    <3>2. \A t \in Own(r, s) : at'[t] = at[t]
      BY <1>2, <2>2, Entering DEF Own
    <3> QED
      BY <3>1, <3>2, SuiteSame
  <2> QED
    BY <2>1, <2>2
<1>3. ASSUME NEW q \in RunId, NEW x \in Suites, SuiteStep(q, x) \/ PrepareFails(q, x)
      PROVE  SuiteOK(r, s)'
  <2>1. CASE q = r /\ x = s
    BY <1>3, <2>1, MoveOK
  <2>2. CASE q # r \/ x # s
    <3>1. \E c : Moved(q, x, c)
      BY <1>3, SuiteMoves DEF SuiteStep
    <3>2. suite'[r][s] = suite[r][s]
      BY <1>0, <2>2, <3>1 DEF Moved
    <3>3. \A t \in Own(r, s) : at'[t] = at[t]
      <4>1. CASE Prepared(q, x) \/ RoundEnds(q, x)
        BY <2>2, <4>1, Entering DEF Own
      <4>2. CASE PrepareFails(q, x) \/ ItemFails(q, x)
        BY <4>2 DEF PrepareFails, ItemFails, taskVars
      <4> QED
        BY <1>3, <4>1, <4>2 DEF SuiteStep
    <3> QED
      BY <3>2, <3>3, SuiteSame
  <2> QED
    BY <2>1, <2>2
<1> QED
  BY <1>1, <1>2, <1>3 DEF Next, Loop

-----------------------------------------------------------------------------
(* Runs.                                                                   *)

\* The suites of a run that is kept do not move any more.
LEMMA KeptRuns ==
  ASSUME Inv, [Next]_vars, NEW r \in RunId, outcome[r] = "kept"
  PROVE  suite'[r] = suite[r] /\ outcome'[r] = "kept" /\ stats'[r] = stats[r]
<1>0. /\ suite \in [RunId -> [Suites -> SuiteType]]
      /\ outcome \in [RunId -> {"none", "running", "kept", "raised"}]
      /\ stats \in [RunId -> [Tasks -> Nat]] /\ run \in 0..MaxRuns /\ MaxRuns \in Nat
  BY Counts DEF Inv, TypeOK, SuiteType
<1>1. /\ stage \in {"warmup", "suites"} => r # run
      /\ ~(r > run)
      /\ \A s \in Suites : suite[r][s].at \in SuiteOver
  BY DEF Inv, RunOK
<1>2. CASE UNCHANGED vars \/ Exit
  BY <1>2 DEF vars, loopVars, Exit
<1>3. CASE Begin
  BY <1>0, <1>1, <1>3 DEF Begin
<1>4. ASSUME NEW u \in Unlabelled, Launch(u)
      PROVE  suite'[r] = suite[r] /\ outcome'[r] = "kept" /\ stats'[r] = stats[r]
  BY <1>0, <1>1, <1>4 DEF Launch
<1>5. CASE Return
  BY <1>0, <1>1, <1>5 DEF Return
<1>6. CASE FailFast \/ StartFails
  BY <1>0, <1>1, <1>6 DEF FailFast, StartFails, Raise
<1>7. ASSUME NEW q \in RunId, NEW x \in Suites, SuiteStep(q, x) \/ PrepareFails(q, x)
      PROVE  suite'[r] = suite[r] /\ outcome'[r] = "kept" /\ stats'[r] = stats[r]
  <2>1. suite[q][x].at \in {"prepare", "gather"}
    BY <1>7 DEF SuiteStep, Prepared, PrepareFails, RoundEnds, ItemFails, Active
  <2>2. q # r
    BY <1>1, <2>1 DEF SuiteOver
  <2>3. \E c : Moved(q, x, c)
    BY <1>7, SuiteMoves DEF SuiteStep
  <2>4. suite'[r] = suite[r]
    BY <1>0, <2>2, <2>3 DEF Moved
  <2>5. UNCHANGED <<outcome, stats>>
    BY <1>7 DEF SuiteStep, Prepared, PrepareFails, RoundEnds, ItemFails, loopVars
  <2> QED
    BY <2>4, <2>5
<1>8. ASSUME NEW t \in Tasks, ItemStep(t) \/ Retryable(t) \/ Unretried(t)
      PROVE  suite'[r] = suite[r] /\ outcome'[r] = "kept" /\ stats'[r] = stats[r]
  BY <1>8 DEF ItemStep, Acquire, Answer, Wake, Retryable, Unretried, loopVars
<1> QED
  BY <1>2, <1>3, <1>4, <1>5, <1>6, <1>7, <1>8 DEF Next, Loop

\* A suite that is ok has the timings of every item of its own.
LEMMA OkSampled ==
  ASSUME Inv, NEW t \in Tasks, suite[t.run][t.suite].at = "ok"
  PROVE  samples[t] = 1
<1>1. t.run \in RunId /\ t.suite \in Suites /\ t \in Own(t.run, t.suite)
  BY TaskFields DEF Own
<1>2. at[t] = "done"
  BY <1>1 DEF Inv, SuiteOK
<1>3. done[t] = Calls[t.suite] /\ samples[t] = IF done[t] >= Timed[t.suite] THEN 1 ELSE 0
  BY <1>2 DEF Inv, ItemOK
<1> QED
  BY <1>3, Counts

\* The run that is executed, and those that have not begun.
LEMMA StageOK ==
  ASSUME Inv, [Next]_vars
  PROVE  /\ stage' \in {"warmup", "suites"} => run' \in RunId /\ outcome'[run'] = "running"
         /\ stage' = "warmup" => \A s \in Suites : suite'[run'][s] = NoSuite
         /\ \A r \in RunId : r > run' =>
              outcome'[r] = "none" /\ \A s \in Suites : suite'[r][s] = NoSuite
<1> DEFINE Goal ==
      /\ stage' \in {"warmup", "suites"} => run' \in RunId /\ outcome'[run'] = "running"
      /\ stage' = "warmup" => \A s \in Suites : suite'[run'][s] = NoSuite
      /\ \A r \in RunId : r > run' =>
           outcome'[r] = "none" /\ \A s \in Suites : suite'[r][s] = NoSuite
<1>0. /\ suite \in [RunId -> [Suites -> SuiteType]]
      /\ outcome \in [RunId -> {"none", "running", "kept", "raised"}]
      /\ run \in 0..MaxRuns /\ MaxRuns \in Nat
  BY Counts DEF Inv, TypeOK, SuiteType
<1>1. RunOK
  BY DEF Inv
<1>2. CASE UNCHANGED <<stage, run, outcome, suite>>
  BY <1>1, <1>2 DEF RunOK
<1>3. CASE Begin
  <2>1. /\ run' = run + 1 /\ run + 1 \in RunId /\ stage' = "warmup" /\ suite' = suite
        /\ outcome'[run + 1] = "running" /\ \A r \in RunId : r # run + 1 => outcome'[r] = outcome[r]
    BY <1>0, <1>3 DEF Begin, RunId
  <2>2. \A r \in RunId : r > run => suite[r] = suite'[r] /\ outcome[r] = "none"
                                    /\ \A s \in Suites : suite[r][s] = NoSuite
    BY <1>1, <2>1 DEF RunOK
  <2>3. run + 1 > run /\ \A r \in RunId : r > run + 1 => r > run /\ r # run + 1
    BY <1>0 DEF RunId
  <2> QED
    BY <2>1, <2>2, <2>3
<1>4. ASSUME NEW u \in Unlabelled, Launch(u) PROVE Goal
  <2>1. /\ run' = run /\ outcome' = outcome /\ stage' = "suites" /\ run \in RunId
        /\ outcome[run] = "running"
    BY <1>1, <1>4 DEF Launch, RunOK
  <2>2. \A r \in RunId : r > run => suite'[r] = suite[r]
    <3>1. \E f : suite' = [suite EXCEPT ![run] = f]
      BY <1>4 DEF Launch
    <3>2. \A r \in RunId : r > run => r # run
      BY <1>0 DEF RunId
    <3> QED
      BY <1>0, <3>1, <3>2
  <2>3. \A r \in RunId : r > run => outcome[r] = "none" /\ \A s \in Suites : suite[r][s] = NoSuite
    BY <1>1 DEF RunOK
  <2>4. \A r \in RunId : r > run =>
           outcome'[r] = "none" /\ \A s \in Suites : suite'[r][s] = NoSuite
    BY <2>1, <2>2, <2>3
  <2> QED
    BY <2>1, <2>4
<1>5. CASE Return \/ FailFast \/ StartFails
  <2>1. /\ run' = run /\ suite' = suite /\ stage' \in {"idle", "closed"}
        /\ \A r \in RunId : r # run => outcome'[r] = outcome[r]
    BY <1>0, <1>5 DEF Return, FailFast, StartFails, Raise
  <2>2. \A r \in RunId : r > run => r # run
    BY <1>0 DEF RunId
  <2> QED
    BY <1>1, <2>1, <2>2 DEF RunOK
<1>6. CASE Exit
  BY <1>1, <1>6 DEF Exit, RunOK
<1>7. ASSUME NEW q \in RunId, NEW x \in Suites, SuiteStep(q, x) \/ PrepareFails(q, x)
      PROVE  Goal
  <2>1. UNCHANGED <<stage, run, outcome>>
    BY <1>7 DEF SuiteStep, Prepared, PrepareFails, RoundEnds, ItemFails, loopVars
  <2>2. suite[q][x].at \in {"prepare", "gather"}
    BY <1>7 DEF SuiteStep, Prepared, PrepareFails, RoundEnds, ItemFails, Active
  <2>3. \E c : Moved(q, x, c)
    BY <1>7, SuiteMoves DEF SuiteStep
  <2>4. \A r \in RunId, s \in Suites : suite[r][s] = NoSuite => suite'[r][s] = NoSuite
    BY <1>0, <2>2, <2>3 DEF Moved, NoSuite
  <2> QED
    BY <1>1, <2>1, <2>4 DEF RunOK
<1>8. ASSUME NEW t \in Tasks, ItemStep(t) \/ Retryable(t) \/ Unretried(t) PROVE Goal
  BY <1>2, <1>8 DEF ItemStep, Acquire, Answer, Wake, Retryable, Unretried, loopVars
<1>9. UNCHANGED vars => UNCHANGED <<stage, run, outcome, suite>>
  BY DEF vars, loopVars
<1> QED
  BY <1>2, <1>3, <1>4, <1>5, <1>6, <1>7, <1>8, <1>9 DEF Next, Loop

LEMMA RunsOK ==
  ASSUME Inv, [Next]_vars PROVE RunOK'
<1>0. /\ outcome \in [RunId -> {"none", "running", "kept", "raised"}]
      /\ stats \in [RunId -> [Tasks -> Nat]]
  BY DEF Inv, TypeOK
<1>1. ASSUME NEW r \in RunId, outcome'[r] = "kept", outcome[r] # "kept"
      PROVE  Return /\ r = run
  <2>1. outcome' # outcome
    BY <1>1
  <2>2. Begin \/ Return \/ Raise
    BY <2>1 DEF Next, Loop, FailFast, StartFails, Exit, Launch, vars, loopVars, SuiteStep,
       Prepared, PrepareFails, RoundEnds, ItemFails, ItemStep, Acquire, Answer, Wake,
       Retryable, Unretried
  <2> QED
    BY <1>0, <1>1, <2>2 DEF Begin, Return, Raise
<1>2. ASSUME NEW r \in RunId, outcome'[r] = "kept"
      PROVE  \A s \in Suites : suite'[r][s].at \in SuiteOver
  <2>1. CASE outcome[r] = "kept"
    BY <2>1, KeptRuns DEF Inv, RunOK
  <2>2. CASE outcome[r] # "kept"
    BY <1>1, <1>2, <2>2 DEF Return
  <2> QED
    BY <2>1, <2>2
<1>3. ASSUME NEW t \in Tasks, outcome'[t.run] = "kept", suite'[t.run][t.suite].at = "ok"
      PROVE  stats'[t.run][t] = 1
  <2>0. t.run \in RunId
    BY TaskFields
  <2>1. CASE outcome[t.run] = "kept"
    BY <1>3, <2>0, <2>1, KeptRuns DEF Inv, RunOK
  <2>2. CASE outcome[t.run] # "kept"
    <3>1. Return /\ t.run = run
      BY <1>1, <1>3, <2>0, <2>2
    <3>2. samples[t] = 1
      BY <1>3, <3>1, OkSampled DEF Return
    <3>3. stats'[t.run][t] = samples[t]
      BY <1>0, <2>0, <3>1 DEF Return
    <3> QED
      BY <3>2, <3>3
  <2> QED
    BY <2>1, <2>2
<1> QED
  BY <1>2, <1>3, StageOK DEF RunOK

-----------------------------------------------------------------------------
(* Items in flight.                                                        *)

Bounded(r, s) ==
  IsFiniteSet(InFlight(r, s)) /\ Cardinality(InFlight(r, s)) <= Concurrency

\* The items of a suite that are alive are those of the round it is at.
LEMMA OneRound ==
  ASSUME Inv, NEW t \in Tasks, at[t] \in Live
  PROVE  InFlight(t.run, t.suite) =
           {u \in Items(t.run, t.suite, t.round) : at[u] \in Holding}
<1> DEFINE c == suite[t.run][t.suite]
<1>1. t.run \in RunId /\ t.suite \in Suites /\ t.round \in 1..Len(Rounds[t.suite])
  BY TaskFields
<1>2. SuiteOK(t.run, t.suite) /\ c \in SuiteType
  BY <1>1 DEF Inv, TypeOK, SuiteType
<1>3. ASSUME NEW u \in Own(t.run, t.suite), at[u] \in Live PROVE u.round = c.round
  <2>1. ~(u.round > c.round) /\ ~(u.round < c.round)
    BY <1>2, <1>3 DEF SuiteOK, Live
  <2>2. u.round \in Int /\ c.round \in Int
    BY <1>1, <1>2, OwnRounds DEF SuiteType
  <2> QED
    BY <2>1, <2>2
<1>4. \A u \in Own(t.run, t.suite) : at[u] \in Holding => u.round = t.round
  BY <1>3 DEF Holding, Live, Own
<1> QED
  BY <1>1, <1>4, ItemsAre DEF InFlight, Own

LEMMA FlightStep ==
  ASSUME Inv, [Next]_vars, NEW r \in RunId, NEW s \in Suites, Bounded(r, s)
  PROVE  Bounded(r, s)'
<1> DEFINE S == InFlight(r, s)
           N == InFlight(r, s)'
<1>0. at \in [Tasks -> {"none"} \cup Live \cup Over] /\ Concurrency \in Nat
  BY AtType, Counts DEF Inv
<1>1. N = {t \in Tasks : t.run = r /\ t.suite = s /\ at'[t] \in Holding}
  BY DEF InFlight, Holding
<1>2. \A t \in N : t \in S \/ Acquire(t)
  <2>1. ASSUME NEW t \in Tasks, at'[t] \in Holding PROVE at[t] \in Holding \/ Acquire(t)
    BY <2>1, ItemMoves DEF Holding, ItemStep, Answer, Wake, Retryable, Unretried
  <2> QED
    BY <1>1, <2>1 DEF InFlight
<1>3. CASE N \subseteq S
  BY <1>0, <1>3, FS_Subset, FS_CardinalityType DEF Bounded
<1>4. CASE \E t \in N : Acquire(t)
  <2>1. PICK t \in N : Acquire(t)
    BY <1>4
  <2>2. t \in Tasks /\ t.run = r /\ t.suite = s /\ at[t] = "queued"
    BY <1>1, <2>1 DEF Acquire
  <2>3. at' = [at EXCEPT ![t] = "calling"]
        /\ Cardinality({u \in Items(t.run, t.suite, t.round) : at[u] \in Holding}) < Concurrency
    BY <2>1 DEF Acquire
  <2>4. Cardinality(S) < Concurrency
    BY <2>2, <2>3, OneRound DEF Live
  <2>5. N = S \cup {t}
    BY <1>0, <1>1, <2>2, <2>3 DEF InFlight, Holding
  <2>6. IsFiniteSet(N) /\ Cardinality(N) <= Cardinality(S) + 1
    BY <2>5, FS_AddElement, FS_CardinalityType DEF Bounded
  <2>7. Cardinality(S) \in Nat /\ Cardinality(N) \in Nat
    BY <2>6, FS_CardinalityType DEF Bounded
  <2> HIDE DEF S, N
  <2>8. Cardinality(N) <= Concurrency
    BY <1>0, <2>4, <2>6, <2>7
  <2> QED
    BY <2>6, <2>8 DEF Bounded, N
<1> QED
  BY <1>2, <1>3, <1>4

-----------------------------------------------------------------------------
(* Theorems.                                                               *)

IInv == Inv /\ \A r \in RunId, s \in Suites : Bounded(r, s)

LEMMA InitIInv == Init => IInv
<1> SUFFICES ASSUME Init PROVE IInv
  OBVIOUS
<1> USE Counts DEF Init
<1>0. <<>> \in Seq(Tasks) /\ NoSuite \in SuiteType
  BY DEF NoSuite, SuiteType
<1>1. TypeOK
  BY <1>0 DEF TypeOK, NoSamples, SuiteType
<1>2. \A t \in Tasks : ItemOK(t)
  BY DEF ItemOK, NoSamples
<1>3. ASSUME NEW r \in RunId, NEW s \in Suites PROVE SuiteOK(r, s)
  <2>1. \A t \in Own(r, s) : at[t] = "none" /\ ~(t.round < 0)
    BY OwnRounds
  <2> QED
    BY <2>1 DEF SuiteOK, NoSuite
<1>4. RunOK
  <2>1. stage = "idle" /\ \A r \in RunId : outcome[r] = "none" /\ \A s \in Suites : suite[r][s] = NoSuite
    OBVIOUS
  <2>2. \A t \in Tasks : outcome[t.run] = "none"
    BY TaskFields
  <2> HIDE DEF Init
  <2> QED
    BY <2>1, <2>2 DEF RunOK
<1>5. ASSUME NEW r \in RunId, NEW s \in Suites PROVE Bounded(r, s)
  <2>1. InFlight(r, s) = {}
    BY DEF InFlight, Holding
  <2> QED
    BY <2>1, FS_EmptySet DEF Bounded
<1> QED
  BY <1>1, <1>2, <1>3, <1>4, <1>5 DEF IInv, Inv

LEMMA Invariance == Spec => []IInv
<1>1. Init => IInv
  BY InitIInv
<1>2. IInv /\ [Next]_vars => IInv'
  <2> SUFFICES ASSUME IInv, [Next]_vars PROVE IInv'
    OBVIOUS
  <2>1. Inv
    BY DEF IInv
  <2>2. TypeOK'
    BY <2>1, TypeStep
  <2>3. \A t \in Tasks : ItemOK(t)'
    BY <2>1, ItemsOK
  <2>4. \A r \in RunId, s \in Suites : SuiteOK(r, s)'
    BY <2>1, SuitesOK
  <2>5. RunOK'
    BY <2>1, RunsOK
  <2>6. \A r \in RunId, s \in Suites : Bounded(r, s)'
    BY <2>1, FlightStep DEF IInv
  <2> QED
    BY <2>2, <2>3, <2>4, <2>5, <2>6 DEF IInv, Inv
<1> QED
  BY <1>1, <1>2, PTL DEF Spec

\* The variables of the loop, the suites and the items have their types.
THEOREM TypeCorrect == Spec => []TypeOK
<1>1. IInv => TypeOK
  BY DEF IInv, Inv
<1> QED
  BY <1>1, Invariance, PTL

\* suites.concurrency bounds the items of one suite in flight, for any number
\* of rounds, items and runs on the loop, also once the suite has failed and its
\* items go on: no second round begins before the first has ended (Suite.run
\* awaits its bounded_gather calls in turn).
THEOREM ConcurrencyBounded == Spec => []InFlightBounded
<1>1. IInv => InFlightBounded
  BY DEF IInv, Bounded, InFlightBounded
<1> QED
  BY <1>1, Invariance, PTL

\* A suite is ok with the records of all its items in input order, or failed
\* by one of its own (_guard, bounded_gather), whatever other suites did.
THEOREM VerdictsCorrect == Spec => []VerdictsAreOwn
<1>1. IInv => VerdictsAreOwn
  BY DEF IInv, Inv, SuiteOK, VerdictsAreOwn
<1> QED
  BY <1>1, Invariance, PTL

\* with_retries never exceeds max_attempts and gives up only at them.
THEOREM RetriesBounded == Spec => []RetryBudget
<1>1. IInv => RetryBudget
  BY DEF IInv, Inv, ItemOK, RetryBudget
<1> QED
  BY <1>1, Invariance, PTL

\* The timings of a result are complete and hold no item twice, with any
\* number of retries (TimingsCollector, assemble_timings).
THEOREM TimingsCorrect == Spec => []TimingsComplete
<1>1. IInv => TimingsComplete
  <2> SUFFICES ASSUME IInv, NEW t \in Tasks
               PROVE  /\ samples[t] <= 1
                      /\ outcome[t.run] = "kept" /\ suite[t.run][t.suite].at = "ok" =>
                           stats[t.run][t] = 1
    BY DEF TimingsComplete
  <2>1. samples[t] <= 1
    BY DEF IInv, Inv, ItemOK
  <2> QED
    BY <2>1 DEF IInv, Inv, RunOK
<1> QED
  BY <1>1, Invariance, PTL

=============================================================================
