------------------------------- MODULE EvalRun -------------------------------
(***************************************************************************)
(* run_eval (rag_crucible/eval/run.py) on one event loop: the suites of a  *)
(* run are coroutines that run together, each guarded on its own; a suite  *)
(* awaits its rounds of items one after the other, a round being one       *)
(* bounded_gather (eval/concurrent.py) with a semaphore of its own; an     *)
(* item makes provider calls, each within with_retries                     *)
(* (providers/retry.py), and adds its timings to the collector of its run  *)
(* (obs/aggregate.py) when the pipeline has answered.                      *)
(*                                                                         *)
(* asyncio.gather passes the first exception on and cancels nothing, so    *)
(* the items of a failed suite go on.  They end with the loop; a worker's  *)
(* loop goes on to its next run with them.                                 *)
(***************************************************************************)
EXTENDS Integers, Sequences, FiniteSets

CONSTANTS
  Suites,       \* the suites the spec selects
  Rounds,       \* Rounds[s]: the rounds of s, as records of RoundSpec
  Timed,        \* Timed[s]: the provider calls of an item its timings cover
  Calls,        \* Calls[s]: all of them, the judge's calls come last
  Concurrency,  \* suites.concurrency
  MaxAttempts,  \* max_attempts of with_retries
  MaxRuns,      \* bound: the runs one loop executes
  MaxFaults     \* bound: provider calls that fail

\* A round may first await the embedding of an index it needs.
RoundSpec == [prepare : BOOLEAN, items : Nat]
RunId == 1..MaxRuns

ASSUME ConstantsAssumption ==
  /\ IsFiniteSet(Suites)
  /\ Rounds \in [Suites -> Seq(RoundSpec)]
  /\ \A s \in Suites : Len(Rounds[s]) > 0
  /\ Timed \in [Suites -> Nat \ {0}]
  /\ Calls \in [Suites -> Nat \ {0}]
  /\ \A s \in Suites : Timed[s] <= Calls[s]
  /\ Concurrency \in Nat \ {0}
  /\ MaxAttempts \in Nat \ {0}
  /\ MaxRuns \in Nat
  /\ MaxFaults \in Nat

\* The items of a round, in the order bounded_gather is given them.
Items(r, s, k) == {[run |-> r, suite |-> s, round |-> k, item |-> i]
                     : i \in 1..Rounds[s][k].items}
Tasks == UNION {UNION {Items(x[1], x[2], k) : k \in 1..Len(Rounds[x[2]])}
                  : x \in RunId \X Suites}

\* Mutant: an item that raises leaves the semaphore without releasing it.
MutHolding == {"calling", "sleeping", "error"}
\* Mutant: an item that is done keeps its place in the semaphore.
MutHoldingDone == {"calling", "sleeping", "done"}

\* Inside `async with semaphore`: with_retries sleeps there too.
Holding == {"calling", "sleeping"}
Over == {"done", "error", "cancelled"}
Live == {"queued", "calling", "sleeping"}
SuiteOver == {"ok", "failed", "skipped"}

\* What the loop was started for: the runs of `worker` or `submit`, or `eval`,
\* whose one run has fail_fast=True.
Commands == {"worker", "eval"}

VARIABLES
  command,
  stage,    \* of the loop: what run_eval awaits, or the loop itself
  run,      \* the run it executes
  outcome,  \* per run: an EvalRunResult was returned, or run_eval raised
  suite,    \* per run and suite: its coroutine, its round and its records
  at,       \* per item: where its coroutine is
  done,     \* per item: provider calls answered
  attempt,  \* per item: failed attempts at the current call
  made,     \* history, per item: calls made to the provider for it
  fatal,    \* history, per item: a call failed in a way never retried
  samples,  \* per item: the times it is in the collector of its run
  stats,    \* per run: the samples when stage_stats was computed
  faults

loopVars == <<command, stage, run, outcome>>
taskVars == <<at, done, attempt, made, fatal>>
vars == <<loopVars, suite, taskVars, samples, stats, faults>>

NoSuite == [at |-> "none", round |-> 0, records |-> <<>>]
NoSamples == [t \in Tasks |-> 0]

TypeOK ==
  /\ command \in Commands
  /\ stage \in {"idle", "warmup", "suites", "closed"}
  /\ run \in 0..MaxRuns
  /\ outcome \in [RunId -> {"none", "running", "kept", "raised"}]
  /\ suite \in [RunId -> [Suites ->
       [at : {"none", "prepare", "gather"} \cup SuiteOver,
        round : Nat, records : Seq(Tasks)]]]
  /\ at \in [Tasks -> {"none"} \cup Live \cup Over]
  /\ done \in [Tasks -> Nat]
  /\ attempt \in [Tasks -> 0..MaxAttempts]
  /\ made \in [Tasks -> Nat]
  /\ fatal \in [Tasks -> BOOLEAN]
  /\ samples \in [Tasks -> Nat]
  /\ stats \in [RunId -> [Tasks -> Nat]]
  /\ faults \in 0..MaxFaults

Init ==
  /\ command \in Commands
  /\ stage = "idle" /\ run = 0
  /\ outcome = [r \in RunId |-> "none"]
  /\ suite = [r \in RunId |-> [s \in Suites |-> NoSuite]]
  /\ at = [t \in Tasks |-> "none"]
  /\ done = [t \in Tasks |-> 0]
  /\ attempt = [t \in Tasks |-> 0]
  /\ made = [t \in Tasks |-> 0]
  /\ fatal = [t \in Tasks |-> FALSE]
  /\ samples = NoSamples
  /\ stats = [r \in RunId |-> NoSamples]
  /\ faults = 0

Guarded == command # "eval"
Fault == faults < MaxFaults /\ faults' = faults + 1

-----------------------------------------------------------------------------
(* The loop and run_eval.                                                  *)

\* worker_loop claims a run and awaits run_eval, which warms the providers.
Begin ==
  /\ stage = "idle" /\ run < MaxRuns
  /\ command = "eval" => run = 0
  /\ run' = run + 1
  /\ stage' = "warmup"
  /\ outcome' = [outcome EXCEPT ![run + 1] = "running"]
  /\ UNCHANGED <<command, suite, taskVars, samples, stats, faults>>

\* asyncio.run cancels whatever is still running when its coroutine ends.
Close == at' = [t \in Tasks |-> IF at[t] \in Live THEN "cancelled" ELSE at[t]]

\* run_eval raises: with fail_fast out of the command, else as a failed run.
Raise ==
  /\ outcome' = [outcome EXCEPT ![run] = "raised"]
  /\ IF Guarded
     THEN stage' = "idle" /\ UNCHANGED taskVars
     ELSE stage' = "closed" /\ Close /\ UNCHANGED <<done, attempt, made, fatal>>
  /\ UNCHANGED <<command, run, suite, samples, stats>>

\* Mutant: the run is left as it was when nothing has been started yet.
MutStartFails ==
  /\ stage = "warmup" /\ Fault
  /\ outcome' = [outcome EXCEPT ![run] = "error"]
  /\ stage' = "idle"
  /\ UNCHANGED <<command, run, suite, taskVars, samples, stats>>

\* What no guard is around: the warmup, and opening the judge's cache or
\* building its generator while the coroutines are collected.
StartFails == stage = "warmup" /\ Fault /\ Raise

\* What a suite awaits in its k-th round, the items of which are then created.
Entered(s, k) == IF Rounds[s][k].prepare THEN "prepare" ELSE "gather"
Queue(entering) ==
  at' = [t \in Tasks |-> IF t \in entering THEN "queued" ELSE at[t]]

\* The guarded coroutines start.  unlabelled holds "retrieval" when questions
\* without relevance labels make that suite return at once as skipped.
Launch(unlabelled) ==
  /\ stage = "warmup"
  /\ stage' = "suites"
  /\ suite' = [suite EXCEPT ![run] = [s \in Suites |->
       IF s \in unlabelled THEN [NoSuite EXCEPT !.at = "skipped"]
       ELSE [NoSuite EXCEPT !.at = Entered(s, 1), !.round = 1]]]
  /\ Queue(UNION {Items(run, s, 1) :
             s \in {x \in Suites \ unlabelled : ~Rounds[x][1].prepare}})
  /\ UNCHANGED <<command, run, outcome, done, attempt, made, fatal, samples, stats, faults>>

\* Every coroutine has returned: the result is assembled from what they
\* returned and from the collector as it is now.
Return ==
  /\ stage = "suites"
  /\ \A s \in Suites : suite[run][s].at \in SuiteOver
  /\ Guarded \/ \A s \in Suites : suite[run][s].at # "failed"
  /\ outcome' = [outcome EXCEPT ![run] = "kept"]
  /\ stats' = [stats EXCEPT ![run] =
       [t \in Tasks |-> IF t.run = run THEN samples[t] ELSE 0]]
  /\ stage' = "idle"
  /\ UNCHANGED <<command, run, suite, taskVars, samples, faults>>

\* fail_fast: the outer gather passes on the first suite's exception.
FailFast ==
  /\ stage = "suites" /\ ~Guarded
  /\ \E s \in Suites : suite[run][s].at = "failed"
  /\ Raise
  /\ UNCHANGED faults

\* `worker --once` finds no run, or `submit` or `eval` has executed its own: the
\* loop ends.  That of a worker without --once may go on forever.
Exit ==
  /\ stage = "idle"
  /\ stage' = "closed"
  /\ Close
  /\ UNCHANGED <<command, run, outcome, suite, done, attempt, made, fatal, samples, stats, faults>>

-----------------------------------------------------------------------------
(* A suite: its rounds one after the other.  The loop is open.             *)

Active(r, s, where) == stage # "closed" /\ suite[r][s].at = where

\* The index is embedded and the items of the round are created.
Prepared(r, s) ==
  /\ Active(r, s, "prepare")
  /\ suite' = [suite EXCEPT ![r][s].at = "gather"]
  /\ Queue(Items(r, s, suite[r][s].round))
  /\ UNCHANGED <<loopVars, done, attempt, made, fatal, samples, stats, faults>>

\* _guard turns the suite's exception into a result without records.
Fail(r, s) == suite' = [suite EXCEPT ![r][s].at = "failed", ![r][s].records = <<>>]

PrepareFails(r, s) ==
  /\ Active(r, s, "prepare")
  /\ Fault
  /\ Fail(r, s)
  /\ UNCHANGED <<loopVars, taskVars, samples, stats>>

\* Mutant: the round is over when its first item is.
MutRoundOver(r, s, k) == \E t \in Items(r, s, k) : at[t] = "done"

RoundOver(r, s, k) == \A t \in Items(r, s, k) : at[t] = "done"

\* asyncio.gather returns in the order of its arguments.
Gathered(r, s, k) == [i \in 1..Rounds[s][k].items |->
                        [run |-> r, suite |-> s, round |-> k, item |-> i]]

\* The answers of a round are kept; the next one begins, or the suite returns.
RoundEnds(r, s) ==
  LET k == suite[r][s].round
      records == suite[r][s].records \o Gathered(r, s, k)
  IN  /\ Active(r, s, "gather")
      /\ RoundOver(r, s, k)
      /\ IF k = Len(Rounds[s])
         THEN /\ suite' = [suite EXCEPT ![r][s].at = "ok", ![r][s].records = records]
              /\ UNCHANGED at
         ELSE /\ suite' = [suite EXCEPT ![r][s] =
                   [at |-> Entered(s, k + 1), round |-> k + 1, records |-> records]]
              /\ Queue(IF Rounds[s][k + 1].prepare THEN {} ELSE Items(r, s, k + 1))
      /\ UNCHANGED <<loopVars, done, attempt, made, fatal, samples, stats, faults>>

\* Mutant: the first failed item fails every suite that is gathering.
MutItemFails(r, s) ==
  /\ Active(r, s, "gather")
  /\ \E t \in Tasks : t.run = r /\ at[t] = "error"
  /\ Fail(r, s)
  /\ UNCHANGED <<loopVars, taskVars, samples, stats, faults>>

\* gather passes on the exception of an item.
ItemFails(r, s) ==
  /\ Active(r, s, "gather")
  /\ \E t \in Items(r, s, suite[r][s].round) : at[t] = "error"
  /\ Fail(r, s)
  /\ UNCHANGED <<loopVars, taskVars, samples, stats, faults>>

-----------------------------------------------------------------------------
(* An item: run_one, with_retries and the provider.                        *)

InFlight(r, s) == {t \in Tasks : t.run = r /\ t.suite = s /\ at[t] \in Holding}

Earlier(t) == {u \in Items(t.run, t.suite, t.round) : u.item < t.item}

\* The semaphore of the round lets its items in, in their order.
Acquire(t) ==
  /\ stage # "closed" /\ at[t] = "queued"
  /\ \A u \in Earlier(t) : at[u] # "queued"
  /\ Cardinality({u \in Items(t.run, t.suite, t.round) : at[u] \in Holding}) < Concurrency
  /\ at' = [at EXCEPT ![t] = "calling"]
  /\ made' = [made EXCEPT ![t] = @ + 1]
  /\ UNCHANGED <<loopVars, suite, done, attempt, fatal, samples, stats, faults>>

\* The call answers.  With the last call of the pipeline the timings of the
\* item go into the collector; after the last of all the item is a record.
Answer(t) ==
  /\ at[t] = "calling" /\ stage # "closed"
  /\ done' = [done EXCEPT ![t] = @ + 1]
  /\ attempt' = [attempt EXCEPT ![t] = 0]
  /\ samples' = [samples EXCEPT ![t] = IF done[t] + 1 = Timed[t.suite] THEN @ + 1 ELSE @]
  /\ IF done[t] + 1 = Calls[t.suite]
     THEN at' = [at EXCEPT ![t] = "done"] /\ UNCHANGED made
     ELSE made' = [made EXCEPT ![t] = 1] /\ UNCHANGED at
  /\ UNCHANGED <<loopVars, suite, fatal, stats, faults>>

\* Mutant: the attempts are compared before the failed one is counted.
MutExhausted(t) == attempt[t] >= MaxAttempts

\* The failed attempt is counted first, then compared.
Exhausted(t) == attempt[t] + 1 >= MaxAttempts

\* A rate limit or a transient failure: back off, or give up.
Retryable(t) ==
  /\ at[t] = "calling" /\ stage # "closed"
  /\ Fault
  /\ attempt' = [attempt EXCEPT ![t] = @ + 1]
  /\ at' = [at EXCEPT ![t] = IF Exhausted(t) THEN "error" ELSE "sleeping"]
  /\ UNCHANGED <<loopVars, suite, done, made, fatal, samples, stats>>

\* Any other failure, of a provider or of the code around the call.
Unretried(t) ==
  /\ at[t] = "calling" /\ stage # "closed"
  /\ Fault
  /\ at' = [at EXCEPT ![t] = "error"]
  /\ fatal' = [fatal EXCEPT ![t] = TRUE]
  /\ UNCHANGED <<loopVars, suite, done, attempt, made, samples, stats>>

\* Mutant: the timings of every attempt are collected.
MutWake(t) ==
  /\ at[t] = "sleeping" /\ stage # "closed"
  /\ at' = [at EXCEPT ![t] = "calling"]
  /\ made' = [made EXCEPT ![t] = @ + 1]
  /\ samples' = [samples EXCEPT ![t] = @ + 1]
  /\ UNCHANGED <<loopVars, suite, done, attempt, fatal, stats, faults>>

\* The backoff is over and the call is made again.
Wake(t) ==
  /\ at[t] = "sleeping" /\ stage # "closed"
  /\ at' = [at EXCEPT ![t] = "calling"]
  /\ made' = [made EXCEPT ![t] = @ + 1]
  /\ UNCHANGED <<loopVars, suite, done, attempt, fatal, samples, stats, faults>>

Unlabelled == {{}, {"retrieval"} \cap Suites}

Loop == Begin \/ (\E u \in Unlabelled : Launch(u)) \/ Return \/ FailFast
SuiteStep(r, s) == Prepared(r, s) \/ RoundEnds(r, s) \/ ItemFails(r, s)
ItemStep(t) == Acquire(t) \/ Answer(t) \/ Wake(t)

Next ==
  \/ Loop \/ StartFails \/ Exit
  \/ \E r \in RunId, s \in Suites : SuiteStep(r, s) \/ PrepareFails(r, s)
  \/ \E t \in Tasks : ItemStep(t) \/ Retryable(t) \/ Unretried(t)

Spec == Init /\ [][Next]_vars

\* The loop polls every coroutine that is ready, and every provider call and
\* every sleep ends: a call that hangs ends by the client's own timeout.
FairSpec ==
  /\ Spec
  /\ WF_vars(Loop)
  /\ \A r \in RunId, s \in Suites : WF_vars(SuiteStep(r, s))
  /\ \A t \in Tasks : WF_vars(ItemStep(t))

-----------------------------------------------------------------------------
(* Properties.                                                             *)

\* suites.concurrency bounds the items of a suite that call a provider or
\* wait to call it again, over all its rounds, whatever became of the suite
\* (bounded_gather makes a new semaphore for every round).
InFlightBounded ==
  \A r \in RunId, s \in Suites : Cardinality(InFlight(r, s)) <= Concurrency

Own(r, s) == {t \in Tasks : t.run = r /\ t.suite = s}

\* The records are those of the items, in input order.
Before(t, u) == t.round < u.round \/ (t.round = u.round /\ t.item < u.item)
Complete(records, items) ==
  /\ {records[n] : n \in DOMAIN records} = items
  /\ \A m, n \in DOMAIN records : m < n => Before(records[m], records[n])

\* A suite that ran is recorded as ok with a record of each of its items, in
\* input order, or failed by an item of its own or by its own preparation
\* and without records: never by another suite (_guard, bounded_gather).
VerdictsAreOwn ==
  \A r \in RunId, s \in Suites :
    /\ suite[r][s].at = "ok" =>
         /\ Complete(suite[r][s].records, Own(r, s))
         /\ \A t \in Own(r, s) : at[t] = "done"
    /\ suite[r][s].at = "failed" =>
         /\ suite[r][s].records = <<>>
         /\ \/ \E t \in Own(r, s) : at[t] = "error"
            \/ \A t \in Own(r, s) : t.round >= suite[r][s].round => at[t] = "none"

\* with_retries makes max_attempts calls at most, and an item fails only when
\* it made them all or a failure is not one to retry.
RetryBudget ==
  \A t \in Tasks :
    /\ made[t] <= MaxAttempts
    /\ at[t] = "error" => fatal[t] \/ made[t] = MaxAttempts

\* stage_stats holds one sample of every item of a suite that is ok, however
\* often its calls were retried, and never two of any item.
TimingsComplete ==
  \A t \in Tasks :
    /\ samples[t] <= 1
    /\ outcome[t.run] = "kept" /\ suite[t.run][t.suite].at = "ok" => stats[t.run][t] = 1

\* A run that was begun returns a result or raises.
RunsEnd == stage \in {"warmup", "suites"} ~> stage \in {"idle", "closed"}

\* Every item a suite has created ends, also when the suite has failed before
\* the item got its turn: a time comes when none is alive.
ItemsEnd == (\E t \in Tasks : at[t] \in Live) ~> (\A t \in Tasks : at[t] \notin Live)
=============================================================================
