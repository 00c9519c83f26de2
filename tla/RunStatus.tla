----------------------------- MODULE RunStatus -----------------------------
(***************************************************************************)
(* What the run table promises its readers: a run is created PENDING and   *)
(* from then on its status moves only along ALLOWED_TRANSITIONS            *)
(* (core/core/domain/transitions.py).  COMPLETED, FAILED and CANCELLED     *)
(* have no way out.  RunLifecycle implements this specification.           *)
(***************************************************************************)
CONSTANT Runs               \* the identifiers of the runs that may be created

VARIABLE status             \* the status column of the run table

\* "absent" stands for a run that has no row yet.
RunStatuses == {"absent", "pending", "running", "suspended",
                "completed", "failed", "cancelled"}

TerminalStatuses == {"completed", "failed", "cancelled"}

AllowedTransitions ==
  {<<"pending", "running">>,   <<"pending", "cancelled">>,
   <<"running", "completed">>, <<"running", "failed">>,
   <<"running", "cancelled">>, <<"running", "suspended">>,
   <<"suspended", "running">>, <<"suspended", "cancelled">>,
   <<"suspended", "failed">>}

Init == status = [r \in Runs |-> "absent"]

Created(r) == status[r] = "absent" /\ status'[r] = "pending"

Moved(r) == <<status[r], status'[r]>> \in AllowedTransitions

\* Runs do not wait for each other: any number of them may move in one step,
\* as they do when a stopping process cancels all its tasks.
Next ==
  /\ status' \in [Runs -> RunStatuses]
  /\ \A r \in Runs : Created(r) \/ Moved(r) \/ status'[r] = status[r]

Spec == Init /\ [][Next]_status
=============================================================================
