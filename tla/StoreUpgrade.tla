---------------------------- MODULE StoreUpgrade ----------------------------
(***************************************************************************)
(* What opening a result store promises, with no lock, no statement and no *)
(* failure in the middle: a store changes once, from empty or legacy to    *)
(* current, with every row it held; it can be used only when it is         *)
(* current, and is refused only for what it holds.  StoreMigration         *)
(* implements this specification.                                          *)
(***************************************************************************)
CONSTANTS Users,     \* the processes that open the store
          RowIds     \* the metric rows it may hold

VARIABLES form,      \* "empty", "legacy", "current" or "alien"
          rows,      \* what each row says, "none" where there is none
          handle     \* what each process has: "closed", "open" or "refused"

vars == <<form, rows, handle>>

Init ==
  /\ form \in {"empty", "legacy", "current", "alien"}
  /\ rows \in [RowIds -> {"none", "bare", "infinite", "measured", "unmeasured"}]
  /\ handle = [u \in Users |-> "closed"]

\* An old row could only be measured.
Kept == [r \in RowIds |-> IF rows[r] = "none" THEN "none" ELSE "measured"]

Upgrade(u) ==
  /\ \/ form = "empty" /\ UNCHANGED rows
     \/ form = "legacy" /\ (\A r \in RowIds : rows[r] # "infinite") /\ rows' = Kept
  /\ form' = "current"
  /\ handle' = [handle EXCEPT ![u] = "open"]

Use(u) ==
  /\ form = "current"
  /\ handle' = [handle EXCEPT ![u] = "open"]
  /\ UNCHANGED <<form, rows>>

Refuse(u) ==
  /\ form = "alien" \/ (form = "legacy" /\ \E r \in RowIds : rows[r] = "infinite")
  /\ handle' = [handle EXCEPT ![u] = "refused"]
  /\ UNCHANGED <<form, rows>>

Write(u, r) ==
  /\ handle[u] = "open"
  /\ form = "current"
  /\ rows[r] = "none"
  /\ \E s \in {"measured", "unmeasured"} : rows' = [rows EXCEPT ![r] = s]
  /\ UNCHANGED <<form, handle>>

Close(u) ==
  /\ handle' = [handle EXCEPT ![u] = "closed"]
  /\ UNCHANGED <<form, rows>>

Next ==
  \E u \in Users :
    Upgrade(u) \/ Use(u) \/ Refuse(u) \/ Close(u) \/ \E r \in RowIds : Write(u, r)

Spec == Init /\ [][Next]_vars
=============================================================================
