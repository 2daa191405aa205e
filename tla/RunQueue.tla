------------------------------ MODULE RunQueue ------------------------------
(***************************************************************************)
(* The result store used as a job queue (rag_crucible/runner/store.py) and *)
(* the processes that share it: API requests and CLI commands that submit, *)
(* the background and the inline workers (rag_crucible/runner/worker.py),  *)
(* cancellation, and the reads behind GET /runs/{id}/results.              *)
(*                                                                         *)
(* Every store method opens its own connection.  Python's sqlite3 begins a *)
(* transaction at the first INSERT or UPDATE, never at a SELECT, so each   *)
(* SELECT is a step of its own and each write transaction is one step.     *)
(***************************************************************************)
EXTENDS Integers, FiniteSets

CONSTANTS
  Clients,     \* API requests and `submit` commands, one at a time each
  Workers,     \* background worker_loop processes
  Drainers,    \* the workers started with --once
  Readers,     \* requests for a run's results, each made once
  Hashes,      \* the spec hashes that may be submitted
  MaxRuns,     \* bound: rows ever inserted
  MaxClock,    \* bound: seconds the wall clock advances
  FaultKinds,  \* which faults happen: a subset of {"crash", "busy"}
  MaxFaults,   \* bound: how many of them
  NoProc,      \* the owner of a row nobody claimed
  NoHash       \* the hash of a row not inserted yet

Procs == Clients \cup Workers
RunId == 1..MaxRuns          \* rowids, in the order of the inserts
NoRun == 0

ASSUME ConstantsAssumption ==
  /\ MaxRuns \in Nat
  /\ MaxClock \in Nat
  /\ MaxFaults \in Nat
  /\ Clients \cap Workers = {}
  /\ Drainers \subseteq Workers
  /\ NoProc \notin Procs
  /\ NoHash \notin Hashes

Statuses == {"absent", "pending", "running", "succeeded", "failed", "cancelled"}
Terminal == {"succeeded", "failed", "cancelled"}
\* Mutant: only a run still in the queue makes a submission a duplicate.
MutBlocking == {"pending"}

\* The statuses that make an identical submission a duplicate.
Blocking == {"pending", "running", "succeeded"}
Outcomes == {"none", "ok", "bad"}

\* What a submission carries, and what the inserted row keeps of it: since is
\* how many rows there were when the submission looked for a duplicate.
Requests == [hash : Hashes \cup {NoHash}, forced : BOOLEAN,
             created : 0..MaxClock, since : 0..MaxRuns]
NoRequest == [hash |-> NoHash, forced |-> FALSE, created |-> 0, since |-> 0]

\* The phases of execute_run, and all the places a process can be.
Executing == {"eval", "save", "report", "finish", "except"}
Phases == Executing \cup
          {"idle", "stamp", "insert", "attach", "wait", "claim", "stopped", "dead"}

NoResponse == [at |-> "idle", run |-> NoRun, status |-> "absent",
               suites |-> "none", metrics |-> "none", timings |-> "none"]
\* What a reader holds of get_results, and which SELECT it made last.
Responses == [at : {"run", "suites", "metrics", "done"},
              run : RunId, status : Statuses,
              suites : Outcomes, metrics : Outcomes, timings : Outcomes]

VARIABLES
  \* the tables of the store
  nrows,     \* rows inserted so far
  status,    \* runs.status
  row,       \* the columns of a row that never change after its insert
  owner,     \* the process whose UPDATE claimed the row
  saved,     \* suite_results, metrics and stage_timings of the run
  records,   \* how many copies of the run's records rows exist
  report,    \* whether the report artifacts of the run are written
  \* the processes
  pc, job, req, inline, verdict,
  lost,      \* runs whose process died executing them
  response,  \* what each reader has collected
  clock,     \* the last second a submission read from the wall clock
  faults     \* how many faults happened

storeVars == <<nrows, status, row, owner, saved, records, report>>
procVars == <<pc, job, req, inline, verdict, lost>>
vars == <<storeVars, procVars, response, clock, faults>>

TypeOK ==
  /\ nrows \in 0..MaxRuns
  /\ status \in [RunId -> Statuses]
  /\ row \in [RunId -> Requests]
  /\ owner \in [RunId -> Procs \cup {NoProc}]
  /\ saved \in [RunId -> Outcomes]
  /\ records \in [RunId -> Nat]
  /\ report \in [RunId -> BOOLEAN]
  /\ pc \in [Procs -> Phases]
  /\ job \in [Procs -> RunId \cup {NoRun}]
  /\ req \in [Procs -> Requests]
  /\ inline \in [Procs -> BOOLEAN]
  /\ verdict \in [Procs -> Outcomes]
  /\ lost \in SUBSET (RunId \cup {NoRun})
  /\ response \in [Readers -> Responses \cup {NoResponse}]
  /\ clock \in 0..MaxClock
  /\ faults \in 0..MaxFaults

Init ==
  /\ nrows = 0
  /\ status = [r \in RunId |-> "absent"]
  /\ row = [r \in RunId |-> NoRequest]
  /\ owner = [r \in RunId |-> NoProc]
  /\ saved = [r \in RunId |-> "none"]
  /\ records = [r \in RunId |-> 0]
  /\ report = [r \in RunId |-> FALSE]
  /\ pc = [p \in Procs |-> "idle"]
  /\ job = [p \in Procs |-> NoRun]
  /\ req = [p \in Procs |-> NoRequest]
  /\ inline = [p \in Procs |-> FALSE]
  /\ verdict = [p \in Procs |-> "none"]
  /\ lost = {}
  /\ response = [x \in Readers |-> NoResponse]
  /\ clock = 0
  /\ faults = 0

Goto(p, phase) == pc' = [pc EXCEPT ![p] = phase]

\* The submission is over: its request is no longer held.
Forget(c) ==
  /\ req' = [req EXCEPT ![c] = NoRequest]
  /\ inline' = [inline EXCEPT ![c] = FALSE]

-----------------------------------------------------------------------------
(* Submitting: the duplicate check, the timestamp and the INSERT.          *)

Duplicates(h) == {r \in RunId : status[r] \in Blocking /\ row[r].hash = h}

\* The row the check reports: the newest by created_at, ties in any order.
Reported(h) == {r \in Duplicates(h) :
                  \A q \in Duplicates(h) : row[q].created <= row[r].created}

\* Nothing blocks the submission, or it is forced: go on to insert.
SubmitCheck(c, h, forced, wait) ==
  /\ pc[c] = "idle"
  /\ nrows < MaxRuns
  /\ forced \/ Duplicates(h) = {}
  /\ req' = [req EXCEPT ![c] = [hash |-> h, forced |-> forced,
                                created |-> 0, since |-> nrows]]
  /\ inline' = [inline EXCEPT ![c] = wait]
  /\ Goto(c, "stamp")
  /\ UNCHANGED <<storeVars, job, verdict, lost, response, clock, faults>>

\* DuplicateRunError.  The API and --queue-only report it and change nothing;
\* the inline command looks at the row it was told of.
SubmitDuplicate(c, h, r) ==
  /\ pc[c] = "idle"
  /\ r \in Reported(h)
  /\ job' = [job EXCEPT ![c] = r]
  /\ Goto(c, "attach")
  /\ UNCHANGED <<storeVars, req, inline, verdict, lost, response, clock, faults>>

\* created_at is read before the INSERT waits for the write lock.  The wall
\* clock is read nowhere else that matters, so it advances here.
SubmitStamp(c) ==
  /\ pc[c] = "stamp"
  /\ clock' \in clock..MaxClock
  /\ req' = [req EXCEPT ![c].created = clock']
  /\ Goto(c, "insert")
  /\ UNCHANGED <<storeVars, job, inline, verdict, lost, response, faults>>

SubmitInsert(c) ==
  LET r == nrows + 1 IN
  /\ pc[c] = "insert"
  /\ nrows < MaxRuns
  /\ nrows' = r
  /\ status' = [status EXCEPT ![r] = "pending"]
  /\ row' = [row EXCEPT ![r] = req[c]]
  /\ Goto(c, IF inline[c] THEN "wait" ELSE "idle")
  /\ job' = [job EXCEPT ![c] = IF inline[c] THEN r ELSE NoRun]
  /\ Forget(c)
  /\ UNCHANGED <<owner, saved, records, report, verdict, lost, response, clock,
                 faults>>

\* The command attaches to the reported run if it is still active.
Attach(c) ==
  /\ pc[c] = "attach"
  /\ IF status[job[c]] \in {"pending", "running"}
     THEN Goto(c, "wait") /\ UNCHANGED job
     ELSE Goto(c, "idle") /\ job' = [job EXCEPT ![c] = NoRun]
  /\ UNCHANGED <<storeVars, req, inline, verdict, lost, response, clock, faults>>

\* Mutant: the UPDATE does not look at the status.
MutCancel(r) ==
  /\ status[r] \in {"pending", "running"}
  /\ status' = [status EXCEPT ![r] = "cancelled"]
  /\ UNCHANGED <<nrows, row, owner, saved, records, report, procVars, response,
                 clock, faults>>

\* DELETE /runs/{id}.  A row that left the queue is left alone.
Cancel(r) ==
  /\ status[r] = "pending"
  /\ status' = [status EXCEPT ![r] = "cancelled"]
  /\ UNCHANGED <<nrows, row, owner, saved, records, report, procVars, response,
                 clock, faults>>

-----------------------------------------------------------------------------
(* Claiming.                                                               *)

Pending == {r \in RunId : status[r] = "pending"}

\* Mutant: created_at alone, and ties to the newest row.
MutBefore(q, r) ==
  \/ row[q].created < row[r].created
  \/ row[q].created = row[r].created /\ q >= r

\* ORDER BY created_at, rowid
Before(q, r) ==
  \/ row[q].created < row[r].created
  \/ row[q].created = row[r].created /\ q <= r

Oldest == {r \in Pending : \A q \in Pending : Before(r, q)}

Claim(p, r) ==
  /\ status' = [status EXCEPT ![r] = "running"]
  /\ owner' = [owner EXCEPT ![r] = p]
  /\ job' = [job EXCEPT ![p] = r]
  /\ Goto(p, "eval")
  /\ UNCHANGED <<nrows, row, saved, records, report, req, inline, verdict, lost,
                 response, clock, faults>>

\* worker_loop: with nothing pending a worker sleeps and asks again.
ClaimNext(w) ==
  /\ pc[w] = "idle"
  /\ \E r \in Oldest : Claim(w, r)

\* Mutant: every worker returns when it finds nothing to claim.
MutDrainDone(w) ==
  /\ pc[w] = "idle"
  /\ Pending = {}
  /\ Goto(w, "stopped")
  /\ UNCHANGED <<storeVars, job, req, inline, verdict, lost, response, clock, faults>>

\* worker_loop with drain: the queue is empty, so return.
DrainDone(w) ==
  /\ w \in Drainers
  /\ pc[w] = "idle"
  /\ Pending = {}
  /\ Goto(w, "stopped")
  /\ UNCHANGED <<storeVars, job, req, inline, verdict, lost, response, clock, faults>>

\* Mutant: cancelled is not taken for a terminal status.
MutWaitLook(c) ==
  /\ pc[c] = "wait"
  /\ \/ /\ status[job[c]] \in {"succeeded", "failed"}
        /\ Goto(c, "idle")
        /\ job' = [job EXCEPT ![c] = NoRun]
     \/ /\ status[job[c]] = "pending"
        /\ Goto(c, "claim")
        /\ UNCHANGED job
  /\ UNCHANGED <<storeVars, req, inline, verdict, lost, response, clock, faults>>

\* execute_or_wait_for_run reads the row: done, claimable, or ask again later.
WaitLook(c) ==
  /\ pc[c] = "wait"
  /\ \/ /\ status[job[c]] \in Terminal
        /\ Goto(c, "idle")
        /\ job' = [job EXCEPT ![c] = NoRun]
     \/ /\ status[job[c]] = "pending"
        /\ Goto(c, "claim")
        /\ UNCHANGED job
  /\ UNCHANGED <<storeVars, req, inline, verdict, lost, response, clock, faults>>

\* Mutant: the UPDATE claims the row by id alone.
MutClaimRun(c) ==
  /\ pc[c] = "claim"
  /\ Claim(c, job[c])

ClaimRun(c) ==
  /\ pc[c] = "claim"
  /\ \/ /\ status[job[c]] = "pending"
        /\ Claim(c, job[c])
     \/ /\ status[job[c]] # "pending"
        /\ Goto(c, "wait")
        /\ UNCHANGED <<storeVars, job, req, inline, verdict, lost, response,
                       clock, faults>>

-----------------------------------------------------------------------------
(* execute_run, by a worker or by the inline command that claimed the run. *)

\* Building or loading the index and run_eval return, with no suite failed or
\* with some ...
Evaluate(p, v) ==
  /\ pc[p] = "eval"
  /\ verdict' = [verdict EXCEPT ![p] = v]
  /\ Goto(p, "save")
  /\ UNCHANGED <<storeVars, job, req, inline, lost, response, clock, faults>>

\* ... or something before the suites raises; or the report cannot be written.
Raise(p) ==
  /\ pc[p] \in {"eval", "report"}
  /\ Goto(p, "except")
  /\ UNCHANGED <<storeVars, job, req, inline, verdict, lost, response, clock, faults>>

\* One transaction: the result tables are replaced, the records are added.
SaveResult(p) ==
  /\ pc[p] = "save"
  /\ saved' = [saved EXCEPT ![job[p]] = verdict[p]]
  /\ records' = [records EXCEPT ![job[p]] = @ + 1]
  /\ Goto(p, "report")
  /\ UNCHANGED <<nrows, status, row, owner, report, job, req, inline, verdict,
                 lost, response, clock, faults>>

WriteReport(p) ==
  /\ pc[p] = "report"
  /\ report' = [report EXCEPT ![job[p]] = TRUE]
  /\ Goto(p, "finish")
  /\ UNCHANGED <<nrows, status, row, owner, saved, records, job, req, inline,
                 verdict, lost, response, clock, faults>>

\* mark_succeeded or mark_failed: UPDATE by id, whatever the status is.  Then
\* a worker asks for the next run and the inline command reads its row again.
EndRun(p, outcome) ==
  /\ status' = [status EXCEPT ![job[p]] = outcome]
  /\ verdict' = [verdict EXCEPT ![p] = "none"]
  /\ Goto(p, IF p \in Workers THEN "idle" ELSE "wait")
  /\ job' = [job EXCEPT ![p] = IF p \in Workers THEN NoRun ELSE @]
  /\ UNCHANGED <<nrows, row, owner, saved, records, report, req, inline, lost,
                 response, clock, faults>>

\* Mutant: the outcome of the suites is stored as the status of the run.
MutFinishType(p) ==
  /\ pc[p] = "finish"
  /\ EndRun(p, verdict[p])

\* Mutant: a saved result is a success, whatever its suites did.
MutFinish(p) ==
  /\ pc[p] = "finish"
  /\ EndRun(p, "succeeded")

Finish(p) ==
  /\ pc[p] = "finish"
  /\ EndRun(p, IF verdict[p] = "ok" THEN "succeeded" ELSE "failed")

\* Mutant: the except clause logs and returns.
MutMarkFailed(p) ==
  /\ pc[p] = "except"
  /\ EndRun(p, status[job[p]])

MarkFailed(p) ==
  /\ pc[p] = "except"
  /\ EndRun(p, "failed")

-----------------------------------------------------------------------------
(* get_results: four SELECTs, the status first.                            *)

Collect(x, a) ==
  /\ response' = [response EXCEPT ![x] = a]
  /\ UNCHANGED <<storeVars, procVars, clock, faults>>

ReadRun(x, r) ==
  /\ response[x].at = "idle"
  /\ status[r] # "absent"
  /\ Collect(x, [NoResponse EXCEPT !.at = "run", !.run = r, !.status = status[r]])

ReadSuites(x) ==
  /\ response[x].at = "run"
  /\ Collect(x, [response[x] EXCEPT !.at = "suites",
                                    !.suites = saved[response[x].run]])

ReadMetrics(x) ==
  /\ response[x].at = "suites"
  /\ Collect(x, [response[x] EXCEPT !.at = "metrics",
                                    !.metrics = saved[response[x].run]])

\* Mutant: the row is read again after the tables.
MutReadTimings(x) ==
  /\ response[x].at = "metrics"
  /\ Collect(x, [response[x] EXCEPT !.at = "done",
                                    !.timings = saved[response[x].run],
                                    !.status = status[response[x].run]])

ReadTimings(x) ==
  /\ response[x].at = "metrics"
  /\ Collect(x, [response[x] EXCEPT !.at = "done",
                                    !.timings = saved[response[x].run]])

-----------------------------------------------------------------------------
(* Faults.                                                                 *)

CanFail(kind) == kind \in FaultKinds /\ faults < MaxFaults

\* A process that stops for good leaves its run behind in status running.  The
\* place of a client is free for another request or command.
Die(p) ==
  /\ Goto(p, IF p \in Workers THEN "dead" ELSE "idle")
  /\ lost' = IF pc[p] \in Executing THEN lost \cup {job[p]} ELSE lost
  /\ job' = [job EXCEPT ![p] = NoRun]
  /\ verdict' = [verdict EXCEPT ![p] = "none"]
  /\ Forget(p)

\* A write waits out the busy timeout and raises OperationalError.  Inside the
\* try of execute_run it is caught; in the except clause, in claim_next and in
\* claim_run nothing catches it and the process ends; a submission reports it.
StoreBusy(p) ==
  /\ CanFail("busy")
  /\ \/ /\ pc[p] \in {"save", "finish"}
        /\ Goto(p, "except")
        /\ UNCHANGED <<job, req, inline, verdict, lost>>
     \/ /\ pc[p] \in {"except", "claim"} \/ (p \in Workers /\ pc[p] = "idle")
        /\ Die(p)
     \/ /\ pc[p] = "insert"
        /\ Goto(p, "idle")
        /\ Forget(p)
        /\ UNCHANGED <<job, verdict, lost>>
  /\ faults' = faults + 1
  /\ UNCHANGED <<storeVars, response, clock>>

\* Ctrl-C, a kill or a lost host: BaseException passes `except Exception`.
Crash(p) ==
  /\ CanFail("crash")
  /\ pc[p] \notin {"stopped", "dead"}
  /\ p \in Workers \/ pc[p] # "idle"
  /\ Die(p)
  /\ faults' = faults + 1
  /\ UNCHANGED <<storeVars, response, clock>>

\* A new worker in its place.  It looks at no run left in status running.
Restart(w) ==
  /\ pc[w] = "dead"
  /\ Goto(w, "idle")
  /\ UNCHANGED <<storeVars, job, req, inline, verdict, lost, response, clock, faults>>

-----------------------------------------------------------------------------

Execute(p) ==
  \/ \E v \in {"ok", "bad"} : Evaluate(p, v)
  \/ Raise(p)
  \/ SaveResult(p)
  \/ WriteReport(p)
  \/ Finish(p)
  \/ MarkFailed(p)

WorkerStep(w) == ClaimNext(w) \/ DrainDone(w) \/ Execute(w)

\* What a client does once it has begun, without anyone asking again.
ClientStep(c) ==
  SubmitStamp(c) \/ SubmitInsert(c) \/ Attach(c) \/ WaitLook(c) \/ ClaimRun(c)
  \/ Execute(c)

Submit(c) ==
  \E h \in Hashes :
    \/ \E forced, wait \in BOOLEAN : SubmitCheck(c, h, forced, wait)
    \/ \E r \in RunId : SubmitDuplicate(c, h, r)

Read(x) ==
  \/ \E r \in RunId : ReadRun(x, r)
  \/ ReadSuites(x) \/ ReadMetrics(x) \/ ReadTimings(x)

Fault(p) == StoreBusy(p) \/ Crash(p)

Next ==
  \/ \E c \in Clients : Submit(c) \/ ClientStep(c)
  \/ \E w \in Workers : WorkerStep(w) \/ Restart(w)
  \/ \E r \in RunId : Cancel(r)
  \/ \E x \in Readers : Read(x)
  \/ \E p \in Procs : Fault(p)

Spec == Init /\ [][Next]_vars

\* Every live process keeps running; nobody has to submit, cancel, read or
\* restart anything, and no fault has to happen.
Fairness ==
  /\ \A w \in Workers : WF_vars(WorkerStep(w))
  /\ \A c \in Clients : WF_vars(ClientStep(c))

FairSpec == Spec /\ Fairness

-----------------------------------------------------------------------------
(* Properties.                                                             *)

\* A run is in status running exactly while the process that claimed it is
\* inside execute_run with it, or after that process died there: no run is
\* executed twice and none is dropped by a live worker, although mark_succeeded
\* and mark_failed never look at the status they overwrite.
OwnedExecution ==
  /\ \A p \in Procs : pc[p] \in Executing =>
       status[job[p]] = "running" /\ owner[job[p]] = p /\ job[p] \notin lost
  /\ \A r \in RunId : status[r] = "running" /\ r \notin lost =>
       owner[r] \in Procs /\ pc[owner[r]] \in Executing /\ job[owner[r]] = r

\* What the tables hold for a run agrees with its status: a succeeded run has
\* the full result with no suite failed, one copy of its records and its
\* report; a run that was never claimed, a cancelled one among them, has nothing;
\* and no run ever has its records twice.
EvidenceMatchesStatus ==
  \A r \in RunId :
    /\ status[r] = "succeeded" => saved[r] = "ok" /\ report[r]
    /\ status[r] \in {"absent", "pending", "cancelled"} =>
         owner[r] = NoProc /\ saved[r] = "none" /\ ~report[r]
    /\ records[r] = (IF saved[r] = "none" THEN 0 ELSE 1)

\* Two unforced runs of one spec are both alive only if they were submitted
\* concurrently: every row that was already there when an unforced submission
\* made its duplicate check, and has its hash, had failed or been cancelled.
OnlyRacesDuplicate ==
  \A r \in RunId : status[r] # "absent" /\ ~row[r].forced =>
    \A q \in 1..row[r].since :
      row[q].hash = row[r].hash => status[q] \in {"failed", "cancelled"}

\* The claim by unforced runs that the docs make: an identical spec is deduped,
\* so no two unforced runs of one hash are pending, running or succeeded.
DuplicatesRefused ==
  \A q, r \in RunId :
    /\ status[q] \in Blocking /\ status[r] \in Blocking
    /\ ~row[q].forced /\ ~row[r].forced
    /\ row[q].hash = row[r].hash
    => q = r

\* The four SELECTs of get_results are not one snapshot, but the status is read
\* first and the evidence is only ever added: a response that says succeeded
\* carries every table complete, one that says failed or cancelled is final, and
\* no response lists a suite without the metrics and timings of that result.
ResponseCoherent ==
  \A x \in Readers : response[x].at = "done" =>
    LET a == response[x] IN
    /\ a.status = "succeeded" => a.suites = "ok" /\ a.metrics = "ok" /\ a.timings = "ok"
    /\ a.status \in Terminal => a.suites = a.timings /\ status[a.run] = a.status
    /\ a.suites # "none" => a.metrics = a.suites /\ a.timings = a.suites

\* worker_loop takes runs in the order they were submitted: it never claims a run
\* while one that was in the table before that run's submission began is pending.
ClaimsInOrder ==
  [][\A w \in Workers, r \in RunId :
       ClaimNext(w) /\ owner'[r] # owner[r] =>
         \A q \in 1..row[r].since : status[q] # "pending"]_vars

\* Each run goes through the life RunLifecycle promises, whoever executes it.
Lifecycle == INSTANCE RunLifecycle WITH
  Runs <- RunId, Holders <- Procs, Nobody <- NoProc,
  holder <- owner, evidence <- saved
LifecycleSpec == Lifecycle!Spec

\* Every submitted run leaves the queue, unless every long-running worker died:
\* one that survives is enough, whatever the others and the clients do.
QueueDrains ==
  \A r \in RunId :
    status[r] = "pending" ~>
      status[r] # "pending" \/ \A w \in Workers \ Drainers : pc[w] = "dead"

\* A claimed run ends unless the process that executes it dies.
ClaimedRunsEnd ==
  \A r \in RunId : status[r] = "running" ~> status[r] \in Terminal \/ r \in lost

\* An inline submit returns, or dies itself, or waits for a run whose process died.
SubmitReturns ==
  \A c \in Clients :
    pc[c] = "wait" ~> pc[c] = "idle" \/ job[c] \in lost

\* The contract worker.py states, with no exception for a worker that dies: one
\* submit command means submit and complete.
SubmitCompletes ==
  \A c \in Clients : pc[c] = "wait" ~> pc[c] = "idle"
=============================================================================
