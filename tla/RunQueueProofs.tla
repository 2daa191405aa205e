--------------------------- MODULE RunQueueProofs ---------------------------
(***************************************************************************)
(* What RunQueue promises, proved for any number of clients, workers,      *)
(* readers, specs, runs, seconds and faults.                               *)
(***************************************************************************)
EXTENDS RunQueue, TLAPS

-----------------------------------------------------------------------------
(* The parts of the inductive invariant behind the properties above.       *)

\* Rows are inserted in order and never deleted.
RowsInv == \A r \in RunId : status[r] = "absent" <=> nrows < r

\* A process that looks at a run or executes one knows which.
JobInv ==
  \A p \in Procs :
    pc[p] \in Executing \cup {"attach", "wait", "claim"} => job[p] \in 1..nrows

\* A run left behind by a dead process stays in status running.
LostInv == \A r \in lost : status[r] = "running"

\* How far execute_run has come, and what is in the tables by then.
PhaseInv ==
  \A p \in Procs :
    /\ pc[p] \in {"eval", "save"} => saved[job[p]] = "none"
    /\ pc[p] \in {"save", "report", "finish"} => verdict[p] # "none"
    /\ pc[p] \in {"report", "finish"} => saved[job[p]] = verdict[p]
    /\ pc[p] = "finish" => report[job[p]]

Submitting(c) == pc[c] \in {"stamp", "insert"}

\* The rows a submission found at its check are earlier rows.
SinceInv ==
  /\ \A r \in RunId : row[r].since < r
  /\ \A c \in Procs : Submitting(c) => req[c].since <= nrows

\* A row not inserted yet found no rows.
AbsentInv == \A r \in RunId : status[r] = "absent" => row[r].since = 0

\* The duplicate check of a submission still holds while it goes on.
CheckedInv ==
  \A c \in Procs : Submitting(c) /\ ~req[c].forced =>
    \A q \in 1..req[c].since :
      row[q].hash = req[c].hash => status[q] \in {"failed", "cancelled"}

\* A row is stamped no earlier than the rows its submission found.
StampInv ==
  /\ \A r \in RunId : row[r].created <= clock
  /\ \A r \in RunId : \A q \in 1..row[r].since : row[q].created <= row[r].created
  /\ \A c \in Procs : pc[c] = "insert" =>
       /\ req[c].created <= clock
       /\ \A q \in 1..req[c].since : row[q].created <= req[c].created

\* What a reader has collected is still what the tables hold.
ReadOf(a) ==
  /\ a.at # "idle" => a.run \in 1..nrows
  /\ a.at # "idle" /\ a.status \in Terminal => status[a.run] = a.status
  /\ a.at \in {"suites", "metrics", "done"} /\ (a.suites # "none" \/ a.status \in Terminal) =>
       saved[a.run] = a.suites
  /\ a.at \in {"metrics", "done"} /\ (a.metrics # "none" \/ a.status \in Terminal) =>
       saved[a.run] = a.metrics
  /\ a.at = "done" /\ (a.timings # "none" \/ a.status \in Terminal) =>
       saved[a.run] = a.timings
  /\ a.at \in {"metrics", "done"} /\ a.suites # "none" => a.metrics = a.suites
  /\ a.at = "done" /\ a.suites # "none" => a.timings = a.suites

\* All responses are true to the tables.
ReadInv == \A x \in Readers : ReadOf(response[x])

-----------------------------------------------------------------------------
(* Types.                                                                  *)

\* The parts of the definitions nearly every step needs.
LEMMA NoRequestType == NoRequest \in Requests
  BY ConstantsAssumption DEF NoRequest, Requests

\* What the four reads add to a response is a response.
LEMMA FirstReadType ==
  ASSUME NEW r \in RunId, NEW s \in Statuses
  PROVE  [NoResponse EXCEPT !.at = "run", !.run = r, !.status = s] \in Responses
  BY DEF Responses, NoResponse, Outcomes

\* So is what each later read makes of it.
LEMMA CollectType ==
  ASSUME NEW a \in Responses, NEW e \in Outcomes
  PROVE  /\ [a EXCEPT !.at = "suites", !.suites = e] \in Responses
         /\ [a EXCEPT !.at = "metrics", !.metrics = e] \in Responses
         /\ [a EXCEPT !.at = "done", !.timings = e] \in Responses
  BY DEF Responses

\* The types hold initially ...
LEMMA InitType == Init => TypeOK
  BY ConstantsAssumption, NoRequestType
    DEF Init, TypeOK, Statuses, Outcomes, Phases, Procs

\* ... and every step of every process keeps them.
LEMMA NextType == TypeOK /\ [Next]_vars => TypeOK'
  <1> SUFFICES ASSUME TypeOK, [Next]_vars PROVE TypeOK'
    OBVIOUS
  <1> USE ConstantsAssumption, NoRequestType
      DEF TypeOK, storeVars, procVars, Goto, Forget
  <1>1. ASSUME NEW c \in Clients, Submit(c) PROVE TypeOK'
    <2>1. ASSUME NEW h \in Hashes, NEW forced \in BOOLEAN, NEW wait \in BOOLEAN,
                 SubmitCheck(c, h, forced, wait)
          PROVE TypeOK'
      BY <2>1 DEF SubmitCheck, Requests, Phases, Procs
    <2>2. ASSUME NEW h \in Hashes, NEW r \in RunId, SubmitDuplicate(c, h, r)
          PROVE TypeOK'
      BY <2>2 DEF SubmitDuplicate, Phases, Procs
    <2>3. QED
      BY <1>1, <2>1, <2>2 DEF Submit
  <1>2. ASSUME NEW c \in Clients, SubmitStamp(c) PROVE TypeOK'
    <2>1. ASSUME NEW q \in Requests, NEW t \in 0..MaxClock
          PROVE [q EXCEPT !.created = t] \in Requests
      BY DEF Requests
    <2>2. req[c] \in Requests /\ clock' \in 0..MaxClock
      BY <1>2 DEF SubmitStamp, Procs
    <2>3. [req[c] EXCEPT !.created = clock'] \in Requests
      BY <2>1, <2>2
    <2>4. req' = [req EXCEPT ![c] = [req[c] EXCEPT !.created = clock']]
      BY <1>2 DEF SubmitStamp
    <2>5. req' \in [Procs -> Requests]
      BY <2>3, <2>4
    <2>6. QED
      BY <1>2, <2>2, <2>5 DEF SubmitStamp, Phases
  <1>3. ASSUME NEW c \in Clients, SubmitInsert(c) PROVE TypeOK'
    BY <1>3 DEF SubmitInsert, Phases, Procs, Statuses, RunId
  <1>4. ASSUME NEW c \in Clients, Attach(c) PROVE TypeOK'
    BY <1>4 DEF Attach, Phases, Procs
  <1>5. ASSUME NEW c \in Clients, WaitLook(c) PROVE TypeOK'
    BY <1>5 DEF WaitLook, Phases, Procs
  <1>6. ASSUME NEW p \in Procs, NEW r \in RunId \cup {NoRun}, Claim(p, r)
        PROVE TypeOK'
    BY <1>6 DEF Claim, Phases, Statuses, Executing
  <1>7. ASSUME NEW c \in Clients, ClaimRun(c) PROVE TypeOK'
    BY <1>7, <1>6 DEF ClaimRun, Phases, Procs
  <1>8. ASSUME NEW w \in Workers, ClaimNext(w) \/ DrainDone(w) \/ Restart(w)
        PROVE TypeOK'
    BY <1>8, <1>6 DEF ClaimNext, Oldest, Pending, DrainDone, Restart, Phases, Procs
  <1>9. ASSUME NEW p \in Procs, Execute(p) PROVE TypeOK'
    <2>1. ASSUME NEW v \in {"ok", "bad"}, Evaluate(p, v) PROVE TypeOK'
      BY <2>1 DEF Evaluate, Phases, Executing, Outcomes
    <2>2. CASE Raise(p)
      BY <2>2 DEF Raise, Phases, Executing
    <2>3. CASE SaveResult(p)
      <3>1. ASSUME NEW r \in RunId PROVE records'[r] \in Nat
        BY <2>3 DEF SaveResult
      <3>2. records' \in [RunId -> Nat]
        BY <2>3, <3>1 DEF SaveResult
      <3>3. QED
        BY <2>3, <3>2 DEF SaveResult, Phases, Executing
    <2>4. CASE WriteReport(p)
      BY <2>4 DEF WriteReport, Phases, Executing
    <2>5. ASSUME NEW outcome \in {"succeeded", "failed"}, EndRun(p, outcome)
          PROVE TypeOK'
      BY <2>5 DEF EndRun, Phases, Statuses, Outcomes
    <2>6. QED
      BY <1>9, <2>1, <2>2, <2>3, <2>4, <2>5 DEF Execute, Finish, MarkFailed
  <1>10. ASSUME NEW r \in RunId, Cancel(r) PROVE TypeOK'
    BY <1>10 DEF Cancel, Statuses
  <1>11. ASSUME NEW x \in Readers, Read(x) PROVE TypeOK'
    <2>1. ASSUME NEW a \in Responses, Collect(x, a) PROVE TypeOK'
      BY <2>1 DEF Collect
    <2>2. ASSUME NEW r \in RunId, ReadRun(x, r) PROVE TypeOK'
      BY <2>1, <2>2, FirstReadType DEF ReadRun
    <2>a. response[x].at # "idle" =>
            response[x] \in Responses /\ saved[response[x].run] \in Outcomes
      <3>1. NoResponse.at = "idle"
        BY DEF NoResponse
      <3>2. response[x] \in Responses \/ response[x] = NoResponse
        OBVIOUS
      <3>3. ASSUME response[x] \in Responses PROVE saved[response[x].run] \in Outcomes
        <4>1. response[x].run \in RunId
          BY <3>3 DEF Responses
        <4>2. QED
          BY <4>1
      <3>4. QED
        BY <3>1, <3>2, <3>3
    <2>3. CASE ReadSuites(x)
      <3>1. response[x] \in Responses /\ saved[response[x].run] \in Outcomes
        BY <2>3, <2>a DEF ReadSuites
      <3>2. QED
        BY <2>1, <2>3, <3>1, CollectType DEF ReadSuites
    <2>4. CASE ReadMetrics(x)
      <3>1. response[x] \in Responses /\ saved[response[x].run] \in Outcomes
        BY <2>4, <2>a DEF ReadMetrics
      <3>2. QED
        BY <2>1, <2>4, <3>1, CollectType DEF ReadMetrics
    <2>5. CASE ReadTimings(x)
      <3>1. response[x] \in Responses /\ saved[response[x].run] \in Outcomes
        BY <2>5, <2>a DEF ReadTimings
      <3>2. QED
        BY <2>1, <2>5, <3>1, CollectType DEF ReadTimings
    <2>6. QED
      BY <1>11, <2>2, <2>3, <2>4, <2>5 DEF Read
  <1>12. ASSUME NEW p \in Procs, Fault(p) PROVE TypeOK'
    <2>1. CASE StoreBusy(p)
      <3>1. faults' \in 0..MaxFaults /\ UNCHANGED <<storeVars, response, clock>>
        BY <2>1 DEF StoreBusy, CanFail
      <3>2. CASE pc[p] \in {"save", "finish"} /\ Goto(p, "except")
                   /\ UNCHANGED <<job, req, inline, verdict, lost>>
        BY <3>1, <3>2 DEF Phases, Executing
      <3>3. CASE Die(p)
        BY <3>1, <3>3 DEF Die, Phases, Outcomes
      <3>4. CASE Goto(p, "idle") /\ Forget(p) /\ UNCHANGED <<job, verdict, lost>>
        BY <3>1, <3>4 DEF Phases
      <3>5. QED
        BY <2>1, <3>2, <3>3, <3>4 DEF StoreBusy
    <2>2. CASE Crash(p)
      BY <1>12, <2>2 DEF Crash, CanFail, Die, Phases, Executing, Outcomes
    <2>3. QED
      BY <1>12, <2>1, <2>2 DEF Fault
  <1>13. CASE UNCHANGED vars
    BY <1>13 DEF vars
  <1>14. QED
    BY <1>1, <1>2, <1>3, <1>4, <1>5, <1>7, <1>8, <1>9, <1>10, <1>11, <1>12, <1>13
    DEF Next, ClientStep, WorkerStep, Procs

\* Every variable keeps the type of the column, phase or counter it models.
THEOREM TypeCorrect == Spec => []TypeOK
  BY InitType, NextType, PTL DEF Spec

-----------------------------------------------------------------------------
(* Ownership and evidence.                                                 *)

CoreInv ==
  /\ TypeOK
  /\ RowsInv /\ JobInv /\ LostInv /\ PhaseInv
  /\ OwnedExecution /\ EvidenceMatchesStatus

\* An empty store satisfies the invariant.
LEMMA InitCore == Init => CoreInv
  <1> SUFFICES ASSUME Init PROVE CoreInv
    OBVIOUS
  <1>1. TypeOK
    BY InitType
  <1>2. RowsInv
    BY DEF Init, RowsInv, RunId
  <1>3. JobInv /\ LostInv /\ PhaseInv
    BY DEF Init, JobInv, LostInv, PhaseInv, Executing
  <1>4. OwnedExecution /\ EvidenceMatchesStatus
    BY DEF Init, OwnedExecution, EvidenceMatchesStatus, Executing, RunId
  <1>5. QED
    BY <1>1, <1>2, <1>3, <1>4 DEF CoreInv

\* A step of p outside execute_run that leaves the tables alone.
LEMMA QuietStep ==
  ASSUME CoreInv, TypeOK', UNCHANGED <<storeVars, lost>>,
         NEW p \in Procs, pc[p] \notin Executing, pc'[p] \notin Executing,
         pc'[p] \in {"attach", "wait", "claim"} => job'[p] \in 1..nrows,
         \A q \in Procs \ {p} : pc'[q] = pc[q] /\ job'[q] = job[q] /\ verdict'[q] = verdict[q]
  PROVE  CoreInv'
  <1> USE DEF CoreInv, storeVars
  <1>1. RowsInv' /\ LostInv' /\ EvidenceMatchesStatus'
    BY DEF RowsInv, LostInv, EvidenceMatchesStatus
  <1>2. JobInv'
    BY DEF JobInv
  <1>3. PhaseInv'
    BY DEF PhaseInv, Executing
  <1>4. OwnedExecution'
    BY DEF OwnedExecution
  <1>5. QED
    BY <1>1, <1>2, <1>3, <1>4

\* The INSERT of submit_run appends a pending row with nothing saved for it.
LEMMA InsertStep ==
  ASSUME CoreInv, TypeOK', NEW c \in Procs, SubmitInsert(c)
  PROVE  CoreInv'
  <1> USE ConstantsAssumption DEF CoreInv, SubmitInsert, Goto
  <1> DEFINE r == nrows + 1
  <1>1. r \in RunId /\ status[r] = "absent"
    BY DEF RowsInv, RunId, TypeOK
  <1>2. RowsInv'
    BY <1>1 DEF RowsInv, RunId, TypeOK
  <1>3. JobInv'
    BY <1>1 DEF JobInv, TypeOK, Executing
  <1>4. LostInv'
    BY <1>1 DEF LostInv, TypeOK
  <1>5. PhaseInv'
    BY <1>1 DEF PhaseInv, TypeOK, Executing
  <1>6. OwnedExecution'
    BY <1>1 DEF OwnedExecution, TypeOK, Executing
  <1>7. EvidenceMatchesStatus'
    BY <1>1 DEF EvidenceMatchesStatus, TypeOK
  <1>8. QED
    BY <1>2, <1>3, <1>4, <1>5, <1>6, <1>7

\* Cancelling takes a run nobody executes.
LEMMA CancelStep ==
  ASSUME CoreInv, TypeOK', NEW r \in RunId, Cancel(r)
  PROVE  CoreInv'
  <1> USE DEF CoreInv, Cancel, procVars
  <1>1. RowsInv' /\ JobInv' /\ LostInv'
    BY DEF RowsInv, JobInv, LostInv, TypeOK
  <1>2. PhaseInv'
    BY DEF PhaseInv
  <1>3. OwnedExecution'
    BY DEF OwnedExecution, TypeOK
  <1>4. EvidenceMatchesStatus'
    BY DEF EvidenceMatchesStatus, TypeOK
  <1>5. QED
    BY <1>1, <1>2, <1>3, <1>4

\* A claim takes a pending run, with nothing saved for it, for one process.
LEMMA ClaimStep ==
  ASSUME CoreInv, TypeOK', NEW p \in Procs, NEW r \in RunId,
         pc[p] \notin Executing, status[r] = "pending", Claim(p, r)
  PROVE  CoreInv'
  <1> USE DEF CoreInv, Claim, Goto
  <1>1. r \in 1..nrows /\ r \notin lost /\ saved[r] = "none"
    BY DEF RowsInv, LostInv, EvidenceMatchesStatus, RunId, TypeOK
  <1>2. \A q \in Procs : pc[q] \in Executing => job[q] # r
    BY DEF OwnedExecution
  <1>3. RowsInv' /\ JobInv' /\ LostInv'
    BY <1>1 DEF RowsInv, JobInv, LostInv, TypeOK
  <1>4. PhaseInv'
    BY <1>1 DEF PhaseInv, TypeOK
  <1>5. OwnedExecution'
    BY <1>1, <1>2 DEF OwnedExecution, TypeOK, Executing
  <1>6. EvidenceMatchesStatus'
    BY <1>1 DEF EvidenceMatchesStatus, TypeOK
  <1>7. QED
    BY <1>3, <1>4, <1>5, <1>6

\* A step of p inside execute_run that leaves it there and touches no table.
LEMMA StayStep ==
  ASSUME CoreInv, TypeOK', UNCHANGED <<storeVars, job, lost>>,
         NEW p \in Procs, pc[p] \in Executing, pc'[p] \in {"save", "except"},
         pc'[p] = "save" => pc[p] = "eval" /\ verdict'[p] # "none",
         \A q \in Procs \ {p} : pc'[q] = pc[q] /\ verdict'[q] = verdict[q]
  PROVE  CoreInv'
  <1> USE DEF CoreInv, storeVars
  <1>1. RowsInv' /\ LostInv' /\ EvidenceMatchesStatus'
    BY DEF RowsInv, LostInv, EvidenceMatchesStatus
  <1>2. JobInv'
    BY DEF JobInv
  <1>3. PhaseInv'
    BY DEF PhaseInv
  <1>4. OwnedExecution'
    BY DEF OwnedExecution, Executing
  <1>5. QED
    BY <1>1, <1>2, <1>3, <1>4

\* What holds of the run that p executes.
LEMMA ExecutedRun ==
  ASSUME CoreInv, NEW p \in Procs, pc[p] \in Executing
  PROVE  /\ job[p] \in RunId /\ job[p] \in 1..nrows /\ job[p] \notin lost
         /\ status[job[p]] = "running" /\ owner[job[p]] = p
         /\ \A q \in Procs : q # p /\ pc[q] \in Executing => job[q] # job[p]
  <1>1. job[p] \in 1..nrows
    BY DEF CoreInv, JobInv
  <1>2. nrows \in 0..MaxRuns
    BY DEF CoreInv, TypeOK
  <1>3. job[p] \in RunId
    BY <1>1, <1>2, ConstantsAssumption DEF RunId
  <1>4. /\ job[p] \notin lost /\ status[job[p]] = "running" /\ owner[job[p]] = p
        /\ \A q \in Procs : q # p /\ pc[q] \in Executing => job[q] # job[p]
    BY DEF CoreInv, OwnedExecution
  <1>5. QED
    BY <1>1, <1>3, <1>4

\* save_result publishes the verdict of the one process that executes the run.
LEMMA SaveStep ==
  ASSUME CoreInv, TypeOK', NEW p \in Procs, SaveResult(p)
  PROVE  CoreInv'
  <1> USE DEF CoreInv, SaveResult, Goto
  <1>1. pc[p] \in Executing /\ saved[job[p]] = "none" /\ verdict[p] # "none"
    BY DEF PhaseInv, Executing
  <1>2. /\ job[p] \in RunId
        /\ status[job[p]] = "running"
        /\ \A q \in Procs : q # p /\ pc[q] \in Executing => job[q] # job[p]
    BY <1>1, ExecutedRun
  <1>3. RowsInv' /\ LostInv' /\ JobInv'
    BY <1>1 DEF RowsInv, LostInv, JobInv, TypeOK
  <1>4. PhaseInv'
    BY <1>1, <1>2 DEF PhaseInv, TypeOK, Executing
  <1>5. OwnedExecution'
    BY <1>1 DEF OwnedExecution, TypeOK, Executing
  <1>6. EvidenceMatchesStatus'
    BY <1>1, <1>2 DEF EvidenceMatchesStatus, TypeOK
  <1>7. QED
    BY <1>3, <1>4, <1>5, <1>6

\* write_report marks the report of the run its process executes.
LEMMA ReportStep ==
  ASSUME CoreInv, TypeOK', NEW p \in Procs, WriteReport(p)
  PROVE  CoreInv'
  <1> USE DEF CoreInv, WriteReport, Goto
  <1>1. pc[p] \in Executing
    BY DEF Executing
  <1>2. job[p] \in RunId /\ status[job[p]] = "running"
    BY <1>1, ExecutedRun
  <1>3. RowsInv' /\ LostInv' /\ JobInv'
    BY <1>1 DEF RowsInv, LostInv, JobInv, TypeOK
  <1>4. PhaseInv'
    BY <1>1, <1>2 DEF PhaseInv, TypeOK, Executing
  <1>5. OwnedExecution'
    BY <1>1 DEF OwnedExecution, TypeOK, Executing
  <1>6. EvidenceMatchesStatus'
    BY <1>2 DEF EvidenceMatchesStatus, TypeOK
  <1>7. QED
    BY <1>3, <1>4, <1>5, <1>6

\* mark_succeeded and mark_failed end the run their process executes.
LEMMA EndStep ==
  ASSUME CoreInv, TypeOK', NEW p \in Procs, pc[p] \in Executing,
         NEW outcome \in {"succeeded", "failed"}, EndRun(p, outcome),
         outcome = "succeeded" => saved[job[p]] = "ok" /\ report[job[p]]
  PROVE  CoreInv'
  <1> USE DEF CoreInv, EndRun, Goto
  <1>1. /\ job[p] \in RunId /\ job[p] \in 1..nrows /\ job[p] \notin lost
        /\ status[job[p]] = "running" /\ owner[job[p]] = p
        /\ \A q \in Procs : q # p /\ pc[q] \in Executing => job[q] # job[p]
    BY ExecutedRun
  <1>2. RowsInv' /\ LostInv'
    BY <1>1 DEF RowsInv, LostInv, TypeOK
  <1>3. JobInv'
    BY <1>1 DEF JobInv, TypeOK, Executing
  <1>4. PhaseInv'
    BY <1>1 DEF PhaseInv, TypeOK, Executing
  <1>5. OwnedExecution'
    <2>1. ASSUME NEW q \in Procs, pc'[q] \in Executing
          PROVE  status'[job'[q]] = "running" /\ owner'[job'[q]] = q /\ job'[q] \notin lost'
      <3>1. q # p /\ pc[q] \in Executing /\ job'[q] = job[q]
        BY <2>1 DEF TypeOK, Executing
      <3>2. job[q] # job[p]
        BY <1>1, <3>1
      <3>3. QED
        BY <3>1, <3>2 DEF OwnedExecution, TypeOK
    <2>2. ASSUME NEW r \in RunId, status'[r] = "running", r \notin lost'
          PROVE  owner'[r] \in Procs /\ pc'[owner'[r]] \in Executing /\ job'[owner'[r]] = r
      <3>1. r # job[p] /\ status[r] = "running"
        BY <2>2, <1>1 DEF TypeOK
      <3>2. owner[r] \in Procs /\ pc[owner[r]] \in Executing /\ job[owner[r]] = r
        BY <2>2, <3>1 DEF OwnedExecution
      <3>3. owner[r] # p
        BY <3>1, <3>2
      <3>4. QED
        BY <3>2, <3>3 DEF TypeOK
    <2>3. QED
      BY <2>1, <2>2 DEF OwnedExecution
  <1>6. EvidenceMatchesStatus'
    BY <1>1 DEF EvidenceMatchesStatus, TypeOK
  <1>7. QED
    BY <1>2, <1>3, <1>4, <1>5, <1>6

\* A process dies inside execute_run.
LEMMA DieStep ==
  ASSUME CoreInv, TypeOK', NEW p \in Procs, pc[p] \in Executing, Die(p),
         UNCHANGED storeVars
  PROVE  CoreInv'
  <1> USE DEF CoreInv, Die, Goto, storeVars
  <1>1. /\ job[p] \in RunId /\ status[job[p]] = "running" /\ owner[job[p]] = p
        /\ \A q \in Procs : q # p /\ pc[q] \in Executing => job[q] # job[p]
    BY ExecutedRun
  <1>2. RowsInv' /\ LostInv' /\ EvidenceMatchesStatus'
    BY <1>1 DEF RowsInv, LostInv, EvidenceMatchesStatus
  <1>3. JobInv'
    BY DEF JobInv, TypeOK, Executing
  <1>4. PhaseInv'
    BY DEF PhaseInv, TypeOK, Executing
  <1>5. OwnedExecution'
    BY <1>1 DEF OwnedExecution, TypeOK, Executing
  <1>6. QED
    BY <1>2, <1>3, <1>4, <1>5

\* Every step keeps the invariant.
LEMMA NextCore == CoreInv /\ TypeOK' /\ [Next]_vars => CoreInv'
  <1> SUFFICES ASSUME CoreInv, TypeOK', [Next]_vars PROVE CoreInv'
    OBVIOUS
  <1> USE ConstantsAssumption DEF Goto
  <1>a. ASSUME NEW r \in RunId, status[r] # "absent" PROVE r \in 1..nrows
    BY <1>a DEF CoreInv, RowsInv, RunId, TypeOK
  <1>b. Clients \subseteq Procs /\ Workers \subseteq Procs
    BY DEF Procs
  <1>1. ASSUME NEW c \in Clients, Submit(c) PROVE CoreInv'
    <2>1. ASSUME NEW h \in Hashes, NEW forced \in BOOLEAN, NEW wait \in BOOLEAN,
                 SubmitCheck(c, h, forced, wait)
          PROVE CoreInv'
      BY <1>b, <2>1, QuietStep DEF SubmitCheck, CoreInv, TypeOK, Executing
    <2>2. ASSUME NEW h \in Hashes, NEW r \in RunId, SubmitDuplicate(c, h, r)
          PROVE CoreInv'
      <3>1. r \in 1..nrows
        BY <1>a, <2>2 DEF SubmitDuplicate, Reported, Duplicates, Blocking
      <3>2. QED
        BY <1>b, <2>2, <3>1, QuietStep DEF SubmitDuplicate, CoreInv, TypeOK, Executing
    <2>3. QED
      BY <1>1, <2>1, <2>2 DEF Submit
  <1>2. ASSUME NEW c \in Clients, SubmitStamp(c) PROVE CoreInv'
    BY <1>b, <1>2, QuietStep DEF SubmitStamp, CoreInv, TypeOK, Executing
  <1>3. ASSUME NEW c \in Clients, SubmitInsert(c) PROVE CoreInv'
    BY <1>b, <1>3, InsertStep
  <1>4. ASSUME NEW c \in Clients, Attach(c) PROVE CoreInv'
    BY <1>b, <1>4, QuietStep DEF Attach, CoreInv, TypeOK, JobInv, Executing
  <1>5. ASSUME NEW c \in Clients, WaitLook(c) PROVE CoreInv'
    BY <1>b, <1>5, QuietStep DEF WaitLook, CoreInv, TypeOK, JobInv, Executing
  <1>6. ASSUME NEW c \in Clients, ClaimRun(c) PROVE CoreInv'
    <2>1. job[c] \in 1..nrows /\ job[c] \in RunId /\ pc[c] \notin Executing
      BY <1>b, <1>6 DEF ClaimRun, CoreInv, JobInv, TypeOK, RunId, Executing
    <2>2. CASE status[job[c]] = "pending" /\ Claim(c, job[c])
      BY <1>b, <2>1, <2>2, ClaimStep
    <2>3. CASE status[job[c]] # "pending" /\ Goto(c, "wait")
               /\ UNCHANGED <<storeVars, job, req, inline, verdict, lost, response,
                               clock, faults>>
      BY <1>b, <2>1, <2>3, QuietStep DEF CoreInv, TypeOK, Executing
    <2>4. QED
      BY <1>6, <2>2, <2>3 DEF ClaimRun
  <1>7. ASSUME NEW w \in Workers, WorkerStep(w) \/ Restart(w), ~Execute(w)
        PROVE CoreInv'
    <2>1. CASE ClaimNext(w)
      BY <1>b, <2>1, ClaimStep DEF ClaimNext, Oldest, Pending, Executing
    <2>2. CASE DrainDone(w)
      BY <1>b, <2>2, QuietStep DEF DrainDone, CoreInv, TypeOK, Executing
    <2>3. CASE Restart(w)
      BY <1>b, <2>3, QuietStep DEF Restart, CoreInv, TypeOK, Executing
    <2>4. QED
      BY <1>7, <2>1, <2>2, <2>3 DEF WorkerStep
  <1>8. ASSUME NEW p \in Procs, Execute(p) PROVE CoreInv'
    <2>1. ASSUME NEW v \in {"ok", "bad"}, Evaluate(p, v) PROVE CoreInv'
      BY <2>1, StayStep DEF Evaluate, CoreInv, TypeOK, Executing
    <2>2. CASE Raise(p)
      BY <2>2, StayStep DEF Raise, CoreInv, TypeOK, Executing
    <2>3. CASE SaveResult(p)
      BY <2>3, SaveStep
    <2>4. CASE WriteReport(p)
      BY <2>4, ReportStep
    <2>5. CASE Finish(p)
      <3>1. pc[p] \in Executing
        BY <2>5 DEF Finish, Executing
      <3>2. verdict[p] = "ok" => saved[job[p]] = "ok" /\ report[job[p]]
        BY <2>5 DEF Finish, CoreInv, PhaseInv
      <3>3. QED
        BY <2>5, <3>1, <3>2, EndStep DEF Finish
    <2>6. CASE MarkFailed(p)
      <3>1. pc[p] \in Executing
        BY <2>6 DEF MarkFailed, Executing
      <3>2. QED
        BY <2>6, <3>1, EndStep DEF MarkFailed
    <2>7. QED
      BY <1>8, <2>1, <2>2, <2>3, <2>4, <2>5, <2>6 DEF Execute
  <1>9. ASSUME NEW r \in RunId, Cancel(r) PROVE CoreInv'
    BY <1>9, CancelStep
  <1>10. ASSUME UNCHANGED <<storeVars, procVars>> PROVE CoreInv'
    BY <1>10 DEF CoreInv, RowsInv, JobInv, LostInv, PhaseInv, OwnedExecution,
                 EvidenceMatchesStatus, storeVars, procVars
  <1>11. ASSUME NEW x \in Readers, Read(x) PROVE CoreInv'
    BY <1>10, <1>11
    DEF Read, ReadRun, ReadSuites, ReadMetrics, ReadTimings, Collect
  <1>12. ASSUME NEW p \in Procs, Fault(p) PROVE CoreInv'
    <2>1. ASSUME Die(p), UNCHANGED storeVars PROVE CoreInv'
      <3>1. CASE pc[p] \in Executing
        BY <2>1, <3>1, DieStep
      <3>2. CASE pc[p] \notin Executing
        BY <2>1, <3>2, QuietStep DEF Die, CoreInv, TypeOK, Executing
      <3>3. QED
        BY <3>1, <3>2
    <2>2. CASE pc[p] \in {"save", "finish"} /\ Goto(p, "except")
               /\ UNCHANGED <<storeVars, job, req, inline, verdict, lost>>
      BY <2>2, StayStep DEF CoreInv, TypeOK, Executing
    <2>3. CASE pc[p] = "insert" /\ Goto(p, "idle")
               /\ UNCHANGED <<storeVars, job, verdict, lost>>
      BY <2>3, QuietStep DEF CoreInv, TypeOK, Executing
    <2>4. QED
      BY <1>12, <2>1, <2>2, <2>3 DEF Fault, StoreBusy, Crash
  <1>13. CASE UNCHANGED vars
    BY <1>10, <1>13 DEF vars
  <1>14. QED
    BY <1>b, <1>1, <1>2, <1>3, <1>4, <1>5, <1>6, <1>7, <1>8, <1>9, <1>11, <1>12, <1>13
    DEF Next, ClientStep, WorkerStep

\* The inductive invariant behind the two safety properties: types, rows in order,
\* who executes what, how far it has come and what the tables hold by then.
THEOREM CoreCorrect == Spec => []CoreInv
  <1>1. Init => CoreInv
    BY InitCore
  <1>2. CoreInv /\ [Next]_vars => CoreInv'
    BY NextType, NextCore DEF CoreInv
  <1>3. QED
    BY <1>1, <1>2, PTL DEF Spec

\* No run is ever executed by two processes, and none that a live process
\* claimed is dropped, for any number of workers, submitters and faults.
THEOREM ExecutionIsOwned == Spec => []OwnedExecution
  BY CoreCorrect, PTL DEF CoreInv

\* The tables agree with the status of every run: a success has its whole
\* result, a run nobody claimed has none, and records are never doubled.
THEOREM EvidenceIsConsistent == Spec => []EvidenceMatchesStatus
  BY CoreCorrect, PTL DEF CoreInv

-----------------------------------------------------------------------------
(* The queue implements the lifecycle.                                     *)

\* Every step of the queue is a step of RunLifecycle, or none.
LEMMA StepRefines ==
  ASSUME CoreInv, [Next]_vars
  PROVE  [Lifecycle!Next]_(Lifecycle!vars)
  <1> USE ConstantsAssumption DEF Lifecycle!Next, Lifecycle!vars
  <1>b. Clients \subseteq Procs /\ Workers \subseteq Procs
    BY DEF Procs
  <1>q. ASSUME UNCHANGED <<status, owner, saved>>
        PROVE  [Lifecycle!Next]_(Lifecycle!vars)
    BY <1>q
  <1>1. ASSUME NEW c \in Clients, Submit(c) PROVE [Lifecycle!Next]_(Lifecycle!vars)
    BY <1>q, <1>1 DEF Submit, SubmitCheck, SubmitDuplicate, storeVars
  <1>2. ASSUME NEW c \in Clients, SubmitInsert(c)
        PROVE  [Lifecycle!Next]_(Lifecycle!vars)
    <2>1. nrows + 1 \in RunId /\ status[nrows + 1] = "absent"
      BY <1>2 DEF SubmitInsert, CoreInv, RowsInv, RunId, TypeOK
    <2>2. Lifecycle!Enqueue(nrows + 1)
      BY <1>2, <2>1 DEF SubmitInsert, Lifecycle!Enqueue
    <2>3. QED
      BY <2>1, <2>2
  <1>3. ASSUME NEW c \in Clients,
               SubmitStamp(c) \/ Attach(c) \/ WaitLook(c)
        PROVE  [Lifecycle!Next]_(Lifecycle!vars)
    BY <1>q, <1>3 DEF SubmitStamp, Attach, WaitLook, storeVars
  <1>4. ASSUME NEW p \in Procs, NEW r \in RunId, status[r] = "pending", Claim(p, r)
        PROVE  [Lifecycle!Next]_(Lifecycle!vars)
    <2>1. Lifecycle!Take(r, p)
      BY <1>4 DEF Claim, Lifecycle!Take
    <2>2. QED
      BY <1>4, <2>1
  <1>5. ASSUME NEW c \in Clients, ClaimRun(c)
        PROVE  [Lifecycle!Next]_(Lifecycle!vars)
    <2>1. job[c] \in RunId
      BY <1>b, <1>5 DEF ClaimRun, CoreInv, JobInv, TypeOK, RunId
    <2>2. QED
      BY <1>b, <1>q, <1>4, <1>5, <2>1 DEF ClaimRun, storeVars
  <1>6. ASSUME NEW w \in Workers, ClaimNext(w) \/ DrainDone(w) \/ Restart(w)
        PROVE  [Lifecycle!Next]_(Lifecycle!vars)
    BY <1>b, <1>q, <1>4, <1>6
    DEF ClaimNext, Oldest, Pending, DrainDone, Restart, storeVars
  <1>7. ASSUME NEW p \in Procs, Execute(p)
        PROVE  [Lifecycle!Next]_(Lifecycle!vars)
    <2>1. CASE \E v \in {"ok", "bad"} : Evaluate(p, v)
      BY <1>q, <2>1 DEF Evaluate, storeVars
    <2>2. CASE Raise(p) \/ WriteReport(p)
      BY <1>q, <2>2 DEF Raise, WriteReport, storeVars
    <2>3. ASSUME pc[p] \in Executing
          PROVE  job[p] \in RunId /\ status[job[p]] = "running"
      BY <2>3, ExecutedRun
    <2>4. CASE SaveResult(p)
      <3>1. /\ job[p] \in RunId /\ status[job[p]] = "running"
            /\ saved[job[p]] = "none" /\ verdict[p] \in {"ok", "bad"}
        BY <2>3, <2>4 DEF SaveResult, CoreInv, PhaseInv, TypeOK, Outcomes, Executing
      <3>2. Lifecycle!Publish(job[p], verdict[p])
        BY <2>4, <3>1 DEF SaveResult, Lifecycle!Publish
      <3>3. QED
        BY <3>1, <3>2
    <2>5. ASSUME job[p] \in RunId, status[job[p]] = "running", EndRun(p, "failed")
          PROVE  [Lifecycle!Next]_(Lifecycle!vars)
      <3>1. Lifecycle!Fail(job[p])
        BY <2>5 DEF EndRun, Lifecycle!Fail
      <3>2. QED
        BY <2>5, <3>1
    <2>6. CASE Finish(p) /\ verdict[p] = "ok"
      <3>1. /\ job[p] \in RunId /\ status[job[p]] = "running"
            /\ saved[job[p]] = "ok"
        BY <2>3, <2>6 DEF Finish, CoreInv, PhaseInv, Executing
      <3>2. Lifecycle!Succeed(job[p])
        BY <2>6, <3>1 DEF Finish, EndRun, Lifecycle!Succeed
      <3>3. QED
        BY <3>1, <3>2
    <2>7. CASE (Finish(p) /\ verdict[p] # "ok") \/ MarkFailed(p)
      BY <2>3, <2>5, <2>7 DEF Finish, MarkFailed, Executing
    <2>8. QED
      BY <1>7, <2>1, <2>2, <2>4, <2>6, <2>7 DEF Execute
  <1>8. ASSUME NEW r \in RunId, Cancel(r) PROVE [Lifecycle!Next]_(Lifecycle!vars)
    <2>1. Lifecycle!Withdraw(r)
      BY <1>8 DEF Cancel, Lifecycle!Withdraw
    <2>2. QED
      BY <2>1
  <1>9. ASSUME NEW x \in Readers, Read(x) PROVE [Lifecycle!Next]_(Lifecycle!vars)
    BY <1>q, <1>9 DEF Read, ReadRun, ReadSuites, ReadMetrics, ReadTimings, Collect,
                      storeVars
  <1>10. ASSUME NEW p \in Procs, Fault(p) PROVE [Lifecycle!Next]_(Lifecycle!vars)
    BY <1>q, <1>10 DEF Fault, StoreBusy, Crash, storeVars
  <1>11. CASE UNCHANGED vars
    BY <1>q, <1>11 DEF vars, storeVars
  <1>12. QED
    BY <1>b, <1>1, <1>2, <1>3, <1>5, <1>6, <1>7, <1>8, <1>9, <1>10, <1>11
    DEF Next, ClientStep, WorkerStep

\* RunQueue implements RunLifecycle: whatever the processes do and wherever they
\* fail, each run is enqueued once, taken once, published once and ended once,
\* and terminal statuses are final.
THEOREM QueueImplementsLifecycle == Spec => LifecycleSpec
  <1>1. Init => Lifecycle!Init
    BY DEF Init, Lifecycle!Init
  <1>2. CoreInv /\ [Next]_vars => [Lifecycle!Next]_(Lifecycle!vars)
    BY StepRefines
  <1>3. QED
    BY <1>1, <1>2, CoreCorrect, PTL DEF Spec, LifecycleSpec, Lifecycle!Spec

\* A terminal status and a published result never change again.
LEMMA Finality ==
  ASSUME CoreInv, [Next]_vars, NEW r \in RunId
  PROVE  /\ status[r] \in Terminal => status'[r] = status[r] /\ saved'[r] = saved[r]
         /\ saved[r] # "none" => saved'[r] = saved[r]
  <1>1. [Lifecycle!Next]_(Lifecycle!vars)
    BY StepRefines
  <1>2. status \in [RunId -> Statuses] /\ saved \in [RunId -> Outcomes]
    BY DEF CoreInv, TypeOK
  <1>3. QED
    BY <1>1, <1>2
    DEF Lifecycle!Next, Lifecycle!vars, Lifecycle!Enqueue, Lifecycle!Withdraw,
        Lifecycle!Take, Lifecycle!Publish, Lifecycle!Succeed, Lifecycle!Fail, Terminal

\* A row never goes away.
LEMMA RowStays ==
  ASSUME CoreInv, [Next]_vars, NEW r \in RunId, status[r] # "absent"
  PROVE  status'[r] # "absent"
  <1>1. [Lifecycle!Next]_(Lifecycle!vars)
    BY StepRefines
  <1>2. status \in [RunId -> Statuses]
    BY DEF CoreInv, TypeOK
  <1>3. QED
    BY <1>1, <1>2
    DEF Lifecycle!Next, Lifecycle!vars, Lifecycle!Enqueue, Lifecycle!Withdraw,
        Lifecycle!Take, Lifecycle!Publish, Lifecycle!Succeed, Lifecycle!Fail

-----------------------------------------------------------------------------
(* Submission: duplicates and the order of claims.                         *)

SubmitInv ==
  /\ CoreInv
  /\ SinceInv /\ AbsentInv /\ CheckedInv /\ OnlyRacesDuplicate /\ StampInv

\* Every step other than those of a submission.
LEMMA OtherStep ==
  ASSUME SubmitInv, CoreInv', [Next]_vars, UNCHANGED <<nrows, row, clock>>,
         \A r \in RunId : status'[r] = "absent" => status[r] = "absent",
         \A p \in Procs : Submitting(p)' =>
            Submitting(p) /\ req'[p] = req[p] /\ (pc'[p] = "insert" => pc[p] = "insert"),
         \A r \in RunId : status[r] = "absent" => status'[r] = "absent"
  PROVE  SubmitInv'
  <1> USE DEF SubmitInv
  <1>1. \A r \in RunId : status[r] \in {"failed", "cancelled"} => status'[r] = status[r]
    BY Finality DEF Terminal
  <1>2. SinceInv' /\ AbsentInv'
    BY DEF SinceInv, AbsentInv
  <1>3. ASSUME NEW c \in Procs, Submitting(c)', NEW q \in 1..req'[c].since
        PROVE  q \in RunId
    BY <1>3, ConstantsAssumption DEF SinceInv, CoreInv, TypeOK, RunId, Requests
  <1>4. CheckedInv'
    BY <1>1, <1>3 DEF CheckedInv
  <1>5. ASSUME NEW r \in RunId, NEW q \in 1..row[r].since PROVE q \in RunId
    BY <1>5, ConstantsAssumption DEF SinceInv, RunId, CoreInv, TypeOK, Requests
  <1>6. OnlyRacesDuplicate'
    BY <1>1, <1>5 DEF OnlyRacesDuplicate
  <1>7. StampInv'
    BY DEF StampInv, Submitting
  <1>8. QED
    BY <1>2, <1>4, <1>6, <1>7

\* The duplicate check of submit_run sees every live row there is.
LEMMA CheckStep ==
  ASSUME SubmitInv, CoreInv', NEW c \in Procs, NEW h \in Hashes,
         NEW forced \in BOOLEAN, NEW wait \in BOOLEAN, SubmitCheck(c, h, forced, wait)
  PROVE  SubmitInv'
  <1> USE DEF SubmitInv, SubmitCheck, storeVars, Goto
  <1>1. pc' = [pc EXCEPT ![c] = "stamp"] /\ c \in DOMAIN pc /\ c \in DOMAIN req
    BY DEF CoreInv, TypeOK
  <1>2. req'[c].since = nrows /\ req'[c].hash = h /\ req'[c].forced = forced
    BY <1>1
  <1>3. \A p \in Procs \ {c} : req'[p] = req[p] /\ pc'[p] = pc[p]
    BY DEF CoreInv, TypeOK
  <1>4. SinceInv' /\ AbsentInv'
    BY <1>2, <1>3 DEF SinceInv, AbsentInv, Submitting, CoreInv, TypeOK
  <1>5. ASSUME ~forced, NEW q \in 1..nrows, row[q].hash = h
        PROVE  status[q] \in {"failed", "cancelled"}
    <2>1. q \in RunId /\ status[q] # "absent"
      BY <1>5, ConstantsAssumption DEF CoreInv, RowsInv, TypeOK, RunId
    <2>2. status[q] \notin Blocking
      BY <1>5, <2>1 DEF Duplicates
    <2>3. QED
      BY <2>1, <2>2 DEF Blocking, CoreInv, TypeOK, Statuses
  <1>6. CheckedInv'
    BY <1>2, <1>3, <1>5 DEF CheckedInv, Submitting
  <1>7. OnlyRacesDuplicate' /\ StampInv'
    BY <1>1, <1>3 DEF OnlyRacesDuplicate, StampInv
  <1>8. QED
    BY <1>4, <1>6, <1>7

\* The timestamp of a submission is no older than that of any row it found.
LEMMA StampStep ==
  ASSUME SubmitInv, CoreInv', NEW c \in Procs, SubmitStamp(c)
  PROVE  SubmitInv'
  <1> USE DEF SubmitInv, SubmitStamp, storeVars, Goto
  <1>1. /\ Submitting(c) /\ pc'[c] = "insert" /\ clock \in Nat /\ clock' \in Nat
        /\ clock <= clock' /\ req[c] \in Requests
    BY ConstantsAssumption DEF CoreInv, TypeOK, Submitting
  <1>2. /\ req'[c].since = req[c].since /\ req'[c].hash = req[c].hash
        /\ req'[c].forced = req[c].forced /\ req'[c].created = clock'
    <2>1. req'[c] = [req[c] EXCEPT !.created = clock']
      BY DEF CoreInv, TypeOK
    <2>2. QED
      BY <1>1, <2>1 DEF Requests
  <1>3. \A p \in Procs \ {c} : req'[p] = req[p] /\ pc'[p] = pc[p]
    BY DEF CoreInv, TypeOK
  <1>4. SinceInv' /\ AbsentInv'
    BY <1>1, <1>2, <1>3 DEF SinceInv, AbsentInv, Submitting
  <1>5. CheckedInv' /\ OnlyRacesDuplicate'
    BY <1>1, <1>2, <1>3 DEF CheckedInv, OnlyRacesDuplicate, Submitting
  <1>6. ASSUME NEW r \in RunId PROVE row[r].created \in Nat /\ row[r].created <= clock
    BY ConstantsAssumption DEF StampInv, CoreInv, TypeOK, Requests
  <1>7. ASSUME NEW q \in 1..req[c].since PROVE q \in RunId
    BY <1>1, <1>7, ConstantsAssumption DEF SinceInv, CoreInv, TypeOK, Requests, RunId
  <1>8. ASSUME NEW p \in Procs, pc'[p] = "insert"
        PROVE  /\ req'[p].created <= clock'
               /\ \A q \in 1..req'[p].since : row[q].created <= req'[p].created
    <2>1. CASE p = c
      BY <1>1, <1>2, <1>6, <1>7, <2>1
    <2>2. CASE p # c
      <3>1. req[p] \in Requests /\ req[p].created <= clock
        BY <1>3, <1>8, <2>2 DEF StampInv, CoreInv, TypeOK
      <3>2. req[p].created \in Nat
        BY <3>1, ConstantsAssumption DEF Requests
      <3>3. QED
        BY <1>1, <1>3, <1>8, <2>2, <3>1, <3>2 DEF StampInv
    <2>3. QED
      BY <2>1, <2>2
  <1>9. StampInv'
    BY <1>1, <1>6, <1>8 DEF StampInv
  <1>10. QED
    BY <1>4, <1>5, <1>9

\* The INSERT hands what the submission found and when over to the row.
LEMMA InsertSubmitStep ==
  ASSUME SubmitInv, CoreInv', NEW c \in Procs, SubmitInsert(c)
  PROVE  SubmitInv'
  <1> USE ConstantsAssumption DEF SubmitInv, SubmitInsert, Goto, Forget
  <1> DEFINE n == nrows + 1
  <1>1. /\ n \in RunId /\ nrows \in Nat /\ status[n] = "absent" /\ nrows' = n
        /\ Submitting(c) /\ ~Submitting(c)'
    BY DEF CoreInv, RowsInv, TypeOK, RunId, Submitting
  <1>2. row'[n] = req[c] /\ \A r \in RunId \ {n} : row'[r] = row[r] /\ status'[r] = status[r]
    BY <1>1 DEF CoreInv, TypeOK
  <1>3. status'[n] = "pending"
    BY <1>1 DEF CoreInv, TypeOK
  <1>4. \A p \in Procs \ {c} : req'[p] = req[p] /\ pc'[p] = pc[p]
    BY DEF CoreInv, TypeOK
  <1>5. req[c].since \in Nat /\ req[c].since <= nrows
    BY <1>1 DEF SinceInv, CoreInv, TypeOK, Requests
  <1>6. ASSUME NEW p \in Procs, Submitting(p), NEW q \in 1..req[p].since
        PROVE  q \in RunId \ {n}
    BY <1>1, <1>6 DEF SinceInv, CoreInv, TypeOK, RunId, Requests
  <1>7. ASSUME NEW r \in RunId \ {n}, NEW q \in 1..row[r].since
        PROVE  q \in RunId /\ (status[r] # "absent" => q # n)
    <2>1. row[r].since \in Nat /\ row[r].since < r
      BY DEF SinceInv, CoreInv, TypeOK, Requests
    <2>2. status[r] # "absent" => r <= nrows
      BY <1>1 DEF CoreInv, RowsInv, TypeOK, RunId
    <2>3. QED
      BY <1>1, <1>7, <2>1, <2>2 DEF RunId
  <1>8. ASSUME NEW r \in RunId, status[r] = "absent" PROVE row[r].since = 0
    BY <1>8 DEF AbsentInv
  <1>9. SinceInv'
    BY <1>1, <1>2, <1>4, <1>5 DEF SinceInv, Submitting, CoreInv, TypeOK, Requests
  <1>10. CheckedInv'
    BY <1>1, <1>2, <1>4, <1>6 DEF CheckedInv, Submitting
  <1>11. OnlyRacesDuplicate'
    <2>1. ASSUME NEW r \in RunId, status'[r] # "absent", ~row'[r].forced,
                 NEW q \in 1..row'[r].since, row'[q].hash = row'[r].hash
          PROVE  status'[q] \in {"failed", "cancelled"}
      <3>1. CASE r = n
        BY <1>1, <1>2, <1>6, <2>1, <3>1 DEF CheckedInv
      <3>2. CASE r # n
        BY <1>2, <1>7, <2>1, <3>2 DEF OnlyRacesDuplicate
      <3>3. QED
        BY <3>1, <3>2
    <2>2. QED
      BY <2>1 DEF OnlyRacesDuplicate
  <1>12. StampInv'
    <2>1. pc[c] = "insert"
      OBVIOUS
    <2>2. \A r \in RunId : row'[r].created <= clock'
      BY <1>1, <1>2, <2>1 DEF StampInv
    <2>3. ASSUME NEW r \in RunId, NEW q \in 1..row'[r].since
          PROVE  row'[q].created <= row'[r].created
      <3>1. CASE r = n
        BY <1>1, <1>2, <1>6, <2>1, <2>3, <3>1 DEF StampInv
      <3>2. CASE r # n
        <4>1. q # n /\ q \in RunId
          BY <1>2, <1>7, <1>8, <2>3, <3>2
        <4>2. QED
          BY <1>2, <2>3, <3>2, <4>1 DEF StampInv
      <3>3. QED
        BY <3>1, <3>2
    <2>4. ASSUME NEW p \in Procs, pc'[p] = "insert"
          PROVE  /\ req'[p].created <= clock'
                 /\ \A q \in 1..req'[p].since : row'[q].created <= req'[p].created
      <3>1. p # c /\ req'[p] = req[p] /\ pc[p] = "insert" /\ Submitting(p)
        BY <1>1, <1>4, <2>4 DEF Submitting
      <3>2. QED
        BY <1>2, <1>6, <3>1 DEF StampInv
    <2>5. QED
      BY <2>2, <2>3, <2>4 DEF StampInv
  <1>13. AbsentInv'
    BY <1>2, <1>3 DEF AbsentInv
  <1>14. QED
    BY <1>9, <1>10, <1>11, <1>12, <1>13

\* An empty store satisfies the invariant of submissions.
LEMMA InitSubmit == Init => SubmitInv
  <1> SUFFICES ASSUME Init PROVE SubmitInv
    OBVIOUS
  <1> USE ConstantsAssumption DEF Init, NoRequest, Submitting
  <1>1. CoreInv
    BY InitCore
  <1>2. SinceInv /\ AbsentInv /\ CheckedInv /\ OnlyRacesDuplicate
    BY DEF SinceInv, AbsentInv, CheckedInv, OnlyRacesDuplicate, RunId
  <1>3. StampInv
    BY DEF StampInv, RunId
  <1>4. QED
    BY <1>1, <1>2, <1>3 DEF SubmitInv

\* Every step keeps the invariant of submissions.
LEMMA NextSubmit == SubmitInv /\ CoreInv' /\ [Next]_vars => SubmitInv'
  <1> SUFFICES ASSUME SubmitInv, CoreInv', [Next]_vars PROVE SubmitInv'
    OBVIOUS
  <1>b. Clients \subseteq Procs /\ Workers \subseteq Procs
    BY DEF Procs
  <1>c. CoreInv /\ TypeOK
    BY DEF SubmitInv, CoreInv
  \* What a step does to the rows that exist follows from their numbering.
  <1>d. ASSUME UNCHANGED nrows, NEW r \in RunId
        PROVE  status'[r] = "absent" <=> status[r] = "absent"
    BY <1>d DEF SubmitInv, CoreInv, RowsInv
  <1>e. ASSUME NEW p \in Procs, UNCHANGED <<nrows, row, clock>>,
               ~Submitting(p)',
               \A q \in Procs \ {p} : pc'[q] = pc[q] /\ req'[q] = req[q]
        PROVE  SubmitInv'
    BY <1>d, <1>e, OtherStep DEF Submitting
  <1>f. ASSUME UNCHANGED <<nrows, row, clock, pc, req>> PROVE SubmitInv'
    BY <1>d, <1>f, OtherStep DEF Submitting
  <1> USE DEF Goto, storeVars, Submitting, TypeOK
  <1>1. ASSUME NEW c \in Clients, Submit(c) PROVE SubmitInv'
    <2>1. ASSUME NEW h \in Hashes, NEW r \in RunId, SubmitDuplicate(c, h, r)
          PROVE SubmitInv'
      BY <1>b, <1>c, <1>e, <2>1 DEF SubmitDuplicate
    <2>2. QED
      BY <1>1, <1>b, <2>1, CheckStep DEF Submit
  <1>2. ASSUME NEW c \in Clients, SubmitStamp(c) \/ SubmitInsert(c) PROVE SubmitInv'
    BY <1>b, <1>2, StampStep, InsertSubmitStep
  <1>3. ASSUME NEW c \in Clients, Attach(c) \/ WaitLook(c) PROVE SubmitInv'
    <2>1. CASE Attach(c)
      BY <1>b, <1>c, <1>e, <2>1 DEF Attach
    <2>2. CASE WaitLook(c)
      BY <1>b, <1>c, <1>e, <2>2 DEF WaitLook
    <2>3. QED
      BY <1>3, <2>1, <2>2
  <1>4. ASSUME NEW p \in Procs, NEW r, Claim(p, r) PROVE SubmitInv'
    BY <1>c, <1>e, <1>4 DEF Claim
  <1>5. ASSUME NEW c \in Clients, ClaimRun(c) PROVE SubmitInv'
    BY <1>b, <1>c, <1>e, <1>4, <1>5 DEF ClaimRun
  <1>6. ASSUME NEW w \in Workers, ClaimNext(w) \/ DrainDone(w) \/ Restart(w)
        PROVE  SubmitInv'
    BY <1>b, <1>c, <1>e, <1>4, <1>6 DEF ClaimNext, DrainDone, Restart
  <1>7. ASSUME NEW p \in Procs, Execute(p) PROVE SubmitInv'
    <2>1. CASE \E v \in {"ok", "bad"} : Evaluate(p, v)
      BY <1>c, <1>e, <2>1 DEF Evaluate
    <2>2. CASE Raise(p)
      BY <1>c, <1>e, <2>2 DEF Raise
    <2>3. CASE SaveResult(p)
      BY <1>c, <1>e, <2>3 DEF SaveResult
    <2>4. CASE WriteReport(p)
      BY <1>c, <1>e, <2>4 DEF WriteReport
    <2>5. ASSUME NEW outcome, EndRun(p, outcome) PROVE SubmitInv'
      BY <1>c, <1>e, <2>5 DEF EndRun
    <2>6. QED
      BY <1>7, <2>1, <2>2, <2>3, <2>4, <2>5 DEF Execute, Finish, MarkFailed
  <1>8. ASSUME NEW r \in RunId, Cancel(r) PROVE SubmitInv'
    BY <1>f, <1>8 DEF Cancel, procVars
  <1>9. ASSUME NEW x \in Readers, Read(x) PROVE SubmitInv'
    BY <1>f, <1>9 DEF Read, ReadRun, ReadSuites, ReadMetrics, ReadTimings, Collect,
                      procVars
  <1>10. ASSUME NEW p \in Procs, Fault(p) PROVE SubmitInv'
    <2>1. CASE StoreBusy(p)
      BY <1>c, <1>e, <2>1 DEF StoreBusy, Die, Forget
    <2>2. CASE Crash(p)
      BY <1>c, <1>e, <2>2 DEF Crash, Die, Forget
    <2>3. QED
      BY <1>10, <2>1, <2>2 DEF Fault
  <1>11. CASE UNCHANGED vars
    BY <1>f, <1>11 DEF vars, procVars
  <1>12. QED
    BY <1>b, <1>1, <1>2, <1>3, <1>5, <1>6, <1>7, <1>8, <1>9, <1>10, <1>11
    DEF Next, ClientStep, WorkerStep

\* What a submission found at its duplicate check stays true while it goes on and
\* after its INSERT: the invariant behind deduplication and the order of claims.
THEOREM SubmitCorrect == Spec => []SubmitInv
  <1>1. Init => SubmitInv
    BY InitSubmit
  <1>2. SubmitInv /\ CoreInv' /\ [Next]_vars => SubmitInv'
    BY NextSubmit
  <1>3. QED
    BY <1>1, <1>2, CoreCorrect, PTL DEF Spec

\* The duplicate check and the INSERT are two steps, and still only submissions
\* that overlap in time can leave two live unforced runs of one spec.
THEOREM DuplicatesNeedARace == Spec => []OnlyRacesDuplicate
  BY SubmitCorrect, PTL DEF SubmitInv

\* worker_loop never overtakes: a run is claimed only when every run that was
\* in the table before its submission began has left the queue.
THEOREM ClaimsFollowSubmissions == Spec => ClaimsInOrder
  <1>1. ASSUME SubmitInv, NEW w \in Workers, NEW r \in RunId, ClaimNext(w),
               owner'[r] # owner[r], NEW q \in 1..row[r].since
        PROVE  status[q] # "pending"
    <2>1. r \in Oldest
      BY <1>1 DEF ClaimNext, Claim, SubmitInv, CoreInv, TypeOK
    <2>2. /\ row[r].since \in Nat /\ row[r].since < r /\ q \in RunId
          /\ row[q].created <= row[r].created
          /\ row[q].created \in Nat /\ row[r].created \in Nat
      <3>1. row[r] \in Requests /\ row[r].since < r
        BY <1>1 DEF SubmitInv, SinceInv, CoreInv, TypeOK
      <3>2. q \in RunId
        BY <1>1, <3>1, ConstantsAssumption DEF RunId, Requests
      <3>3. row[q] \in Requests
        BY <1>1, <3>2 DEF SubmitInv, CoreInv, TypeOK
      <3>4. QED
        BY <1>1, <3>1, <3>2, <3>3, ConstantsAssumption DEF SubmitInv, StampInv, Requests
    <2>3. q < r
      BY <1>1, <2>2 DEF RunId
    <2>4. ~Before(r, q)
      BY <2>2, <2>3 DEF Before, RunId
    <2>5. QED
      BY <2>1, <2>2, <2>4 DEF Oldest, Pending
  <1>2. SubmitInv /\ [Next]_vars =>
          [\A w \in Workers, r \in RunId :
             ClaimNext(w) /\ owner'[r] # owner[r] =>
               \A q \in 1..row[r].since : status[q] # "pending"]_vars
    BY <1>1
  <1>3. QED
    BY <1>2, SubmitCorrect, PTL DEF Spec, ClaimsInOrder

-----------------------------------------------------------------------------
(* The reads behind GET /runs/{id}/results.                                *)

\* A response stays true to the tables whatever anyone does to them.
LEMMA KeepRead ==
  ASSUME CoreInv, CoreInv', [Next]_vars, NEW a \in Responses \cup {NoResponse},
         ReadOf(a)
  PROVE  ReadOf(a)'
  <1>1. CASE a = NoResponse
    BY <1>1 DEF ReadOf, NoResponse
  <1>2. CASE a \in Responses
    <2>1. a.run \in RunId /\ a.run \in 1..nrows /\ a.at # "idle"
      BY <1>2, ConstantsAssumption DEF ReadOf, CoreInv, TypeOK, RunId, Responses
    <2>2. /\ status[a.run] \in Terminal =>
               status'[a.run] = status[a.run] /\ saved'[a.run] = saved[a.run]
          /\ saved[a.run] # "none" => saved'[a.run] = saved[a.run]
      BY <2>1, Finality
    <2>3. status[a.run] # "absent"
      BY <2>1 DEF CoreInv, RowsInv, TypeOK, RunId
    <2>4. status'[a.run] # "absent"
      BY <2>1, <2>3, RowStays
    <2>5. a.run \in 1..nrows'
      BY <2>1, <2>4, ConstantsAssumption DEF CoreInv, RowsInv, TypeOK, RunId
    <2>6. QED
      BY <2>1, <2>2, <2>5 DEF ReadOf
  <1>3. QED
    BY <1>1, <1>2

\* A first read is of a row there is.
LEMMA FirstRead ==
  ASSUME CoreInv, NEW r \in RunId, status[r] # "absent"
  PROVE  ReadOf([NoResponse EXCEPT !.at = "run", !.run = r, !.status = status[r]])
  <1>1. r \in 1..nrows
    BY ConstantsAssumption DEF CoreInv, RowsInv, TypeOK, RunId
  <1>2. QED
    BY <1>1 DEF ReadOf, NoResponse

\* Each later read adds what the tables hold now.
LEMMA LaterRead ==
  ASSUME CoreInv, NEW a \in Responses, ReadOf(a)
  PROVE  LET e == saved[a.run] IN
         /\ a.at = "run" => ReadOf([a EXCEPT !.at = "suites", !.suites = e])
         /\ a.at = "suites" => ReadOf([a EXCEPT !.at = "metrics", !.metrics = e])
         /\ a.at = "metrics" => ReadOf([a EXCEPT !.at = "done", !.timings = e])
  BY DEF ReadOf, Responses

\* Where the tables do not change, what is true of a response stays true.
LEMMA SameTables ==
  ASSUME UNCHANGED storeVars, NEW a, ReadOf(a)
  PROVE  ReadOf(a)'
  BY DEF ReadOf, storeVars

\* A step of reader x alone.
LEMMA ReadStep ==
  ASSUME CoreInv, ReadInv, NEW x \in Readers, Read(x)
  PROVE  ReadInv'
  <1>1. PICK b : Collect(x, b) /\ ReadOf(b)
    <2>1. response[x] \in Responses \cup {NoResponse} /\ ReadOf(response[x])
      BY DEF CoreInv, TypeOK, ReadInv
    <2>2. ASSUME NEW r \in RunId, ReadRun(x, r)
          PROVE  \E b : Collect(x, b) /\ ReadOf(b)
      BY <2>2, FirstRead DEF ReadRun
    <2>3. response[x].at # "idle" => response[x] \in Responses
      BY <2>1 DEF NoResponse
    <2>4. CASE ReadSuites(x)
      BY <2>1, <2>3, <2>4, LaterRead DEF ReadSuites
    <2>5. CASE ReadMetrics(x)
      BY <2>1, <2>3, <2>5, LaterRead DEF ReadMetrics
    <2>6. CASE ReadTimings(x)
      BY <2>1, <2>3, <2>6, LaterRead DEF ReadTimings
    <2>7. QED
      BY <2>2, <2>4, <2>5, <2>6 DEF Read
  <1>2. UNCHANGED storeVars /\ response' = [response EXCEPT ![x] = b]
    BY <1>1 DEF Collect
  <1>3. ASSUME NEW y \in Readers PROVE ReadOf(response[y])'
    <2>1. PICK a : a = response'[y] /\ ReadOf(a)
      BY <1>1, <1>2 DEF CoreInv, TypeOK, ReadInv
    <2>2. ReadOf(a)'
      BY <2>1, <1>2, SameTables
    <2>3. QED
      BY <2>1, <2>2 DEF ReadOf
  <1>4. QED
    BY <1>3 DEF ReadInv

\* A step of anyone else.
LEMMA UnreadStep ==
  ASSUME CoreInv, CoreInv', ReadInv, [Next]_vars, UNCHANGED response
  PROVE  ReadInv'
  <1>1. ASSUME NEW y \in Readers PROVE ReadOf(response[y])'
    <2>1. PICK a \in Responses \cup {NoResponse} : a = response[y] /\ ReadOf(a)
      BY DEF CoreInv, TypeOK, ReadInv
    <2>2. ReadOf(a)'
      BY <2>1, KeepRead
    <2>3. QED
      BY <2>1, <2>2 DEF ReadOf
  <1>2. QED
    BY <1>1 DEF ReadInv

\* Only the reads change what a reader holds.
LEMMA NextRead == CoreInv /\ CoreInv' /\ ReadInv /\ [Next]_vars => ReadInv'
  <1> SUFFICES ASSUME CoreInv, CoreInv', ReadInv, [Next]_vars PROVE ReadInv'
    OBVIOUS
  <1>1. (\E x \in Readers : Read(x)) \/ UNCHANGED response
    BY DEF Next, vars, Submit, SubmitCheck, SubmitDuplicate, ClientStep, SubmitStamp,
       SubmitInsert, Attach, WaitLook, ClaimRun, Claim, WorkerStep, ClaimNext,
       DrainDone, Execute, Evaluate, Raise, SaveResult, WriteReport, Finish,
       MarkFailed, EndRun, Restart, Cancel, Fault, StoreBusy, Crash
  <1>2. QED
    BY <1>1, ReadStep, UnreadStep

\* The four SELECTs behind a response are no snapshot, and it is still one that
\* a snapshot could have given where it matters: a terminal status is final and
\* comes with all the evidence there will ever be.
THEOREM ResponsesAreCoherent == Spec => []ResponseCoherent
  <1>1. Init => ReadInv
    BY DEF Init, ReadInv, ReadOf, NoResponse
  <1>2. CoreInv /\ ReadInv => ResponseCoherent
    <2> SUFFICES ASSUME CoreInv, ReadInv, NEW x \in Readers, response[x].at = "done",
                        NEW a, a = response[x]
                 PROVE  /\ a.status = "succeeded" =>
                             a.suites = "ok" /\ a.metrics = "ok" /\ a.timings = "ok"
                        /\ a.status \in Terminal =>
                             a.suites = a.timings /\ status[a.run] = a.status
                        /\ a.suites # "none" =>
                             a.metrics = a.suites /\ a.timings = a.suites
      BY DEF ResponseCoherent
    <2>1. ReadOf(a) /\ a.at = "done"
      BY DEF ReadInv
    <2>2. a.run \in RunId
      BY <2>1, ConstantsAssumption DEF ReadOf, RunId, CoreInv, TypeOK
    <2>3. status[a.run] = "succeeded" => saved[a.run] = "ok"
      BY <2>2 DEF CoreInv, EvidenceMatchesStatus
    <2>4. QED
      BY <2>1, <2>3 DEF ReadOf, Terminal
  <1>3. QED
    BY <1>1, <1>2, NextRead, CoreCorrect, PTL DEF Spec
=============================================================================
