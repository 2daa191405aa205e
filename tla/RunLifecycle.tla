---------------------------- MODULE RunLifecycle ----------------------------
(***************************************************************************)
(* What the run queue promises about each run, with no table, no poll and  *)
(* no lock: a run enters the queue once, is taken by at most one holder or *)
(* withdrawn, has its evidence published at most once, by its holder while *)
(* it holds it, and ends once.  It ends "succeeded" only on evidence in    *)
(* which no suite failed.  RunQueue implements this specification.         *)
(***************************************************************************)
CONSTANTS Runs,      \* the runs that may ever be submitted
          Holders,   \* the processes that may execute one
          Nobody     \* the holder of a run nobody has taken

VARIABLES status,    \* where each run stands
          holder,    \* who took it
          evidence   \* what is published about it: "none", "ok" or "bad"

vars == <<status, holder, evidence>>

Init ==
  /\ status = [r \in Runs |-> "absent"]
  /\ holder = [r \in Runs |-> Nobody]
  /\ evidence = [r \in Runs |-> "none"]

Enqueue(r) ==
  /\ status[r] = "absent"
  /\ status' = [status EXCEPT ![r] = "pending"]
  /\ UNCHANGED <<holder, evidence>>

Withdraw(r) ==
  /\ status[r] = "pending"
  /\ status' = [status EXCEPT ![r] = "cancelled"]
  /\ UNCHANGED <<holder, evidence>>

Take(r, h) ==
  /\ status[r] = "pending"
  /\ status' = [status EXCEPT ![r] = "running"]
  /\ holder' = [holder EXCEPT ![r] = h]
  /\ UNCHANGED evidence

Publish(r, e) ==
  /\ status[r] = "running"
  /\ evidence[r] = "none"
  /\ evidence' = [evidence EXCEPT ![r] = e]
  /\ UNCHANGED <<status, holder>>

Succeed(r) ==
  /\ status[r] = "running"
  /\ evidence[r] = "ok"
  /\ status' = [status EXCEPT ![r] = "succeeded"]
  /\ UNCHANGED <<holder, evidence>>

Fail(r) ==
  /\ status[r] = "running"
  /\ status' = [status EXCEPT ![r] = "failed"]
  /\ UNCHANGED <<holder, evidence>>

Next ==
  \E r \in Runs :
    \/ Enqueue(r)
    \/ Withdraw(r)
    \/ \E h \in Holders : Take(r, h)
    \/ \E e \in {"ok", "bad"} : Publish(r, e)
    \/ Succeed(r)
    \/ Fail(r)

Spec == Init /\ [][Next]_vars
=============================================================================
