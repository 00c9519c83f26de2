-------------------------- MODULE RunLifecycleInv --------------------------
(***************************************************************************)
(* The inductive invariant behind the safety properties of RunLifecycle,   *)
(* for a process without sweeper, with the default timeout action and      *)
(* clients that answer the approval their run has open.                    *)
(***************************************************************************)
EXTENDS RunLifecycle

\* The configuration the theorems are about.
Honest == ~Sweeper /\ TimeoutAction = "reject" /\ ~AnyApprovalId

SweepIdle == sweepList = {} /\ sweeping = {}

\* What a task may assume of the row it is about to overwrite.
TaskMatchesStatus ==
  \A r \in Runs : ~cancelReq[r] =>
    /\ task[r] = "created" => status[r] \in {"pending", "running"}
    /\ task[r] = "streaming" => status[r] = "running"
    /\ task[r] \in {"waiting", "timedOut"} =>
         status[r] \in {"suspended", "running", "failed"}
    /\ task[r] = "completing" => status[r] = "completed"
    /\ task[r] = "failing" => status[r] = "failed"

\* A task can be cancelled: its run is in the registry.
LiveIsRegistered == \A r \in Runs : task[r] \in LiveTasks => registered[r]

\* At most one API handler is half-way.
OneRequest == \A c, d \in request : c = d

\* What a handler has read still holds when it writes.
RequestIsCurrent ==
  \A c \in request :
    /\ c.step = "cancel" =>
         /\ status[c.run] \in ActiveStatuses
         /\ task[c.run] \in LiveTasks => cancelReq[c.run]
    /\ c.step # "cancel" =>
         /\ status[c.run] = "suspended" /\ c.owner = c.run /\ c.call \in Calls
         /\ c.step \in {"read", "resolve"} => approval[c.run][c.call] = "open"
         /\ c.step = "resolve" => c.open
         /\ c.step = "update" => approval[c.run][c.call] = c.decision

\* A waiting task waits for the approval that an answer to its run resolves.
\* While its run is SUSPENDED, nobody has answered or a handler is doing so;
\* a FAILED run under a waiting task means that the approval was rejected.
WaitIsForOpen ==
  \A r \in Runs : task[r] \in {"waiting", "timedOut"} =>
    /\ Mode[r] = "executor"
    /\ waitsOn[r] \in Calls
    /\ \A i \in OpenCalls(r) : i = waitsOn[r]
    /\ \A c \in request : c.run = r /\ c.step # "cancel" => c.call = waitsOn[r]
    /\ status[r] = "suspended" /\ (\A c \in request : c.run # r) =>
         approval[r][waitsOn[r]] = "open"
    /\ status[r] = "failed" /\ ~cancelReq[r] => approval[r][waitsOn[r]] = "reject"

\* A graph run has an approved row for every call behind its checkpoint, at
\* most one undecided row, for the call at the checkpoint, and none beyond;
\* a continuation starts only with that row approved.  It has made exactly the
\* calls behind its checkpoint, all of them once it is COMPLETED.
GraphPosition ==
  \A r \in Runs : Mode[r] = "graph" =>
    /\ \A i \in Calls : i <= pos[r] => approval[r][i] = "approve"
    /\ \A i \in Calls : i > pos[r] + 1 => approval[r][i] = "none"
    /\ resumed[r] => pos[r] + 1 \in Calls /\ approval[r][pos[r] + 1] = "approve"
    /\ task[r] \in {"created", "streaming"} /\ ~resumed[r] /\ pos[r] + 1 \in Calls =>
         approval[r][pos[r] + 1] = "none"
    /\ \A c \in request : c.run = r /\ c.step # "cancel" => c.call = pos[r] + 1
    /\ executed[r] = 1 .. pos[r]
    /\ pos[r] <= GatedCalls[r]
    /\ status[r] = "completed" => pos[r] = GatedCalls[r]

AbsentIsFresh ==
  \A r \in Runs : status[r] = "absent" =>
    /\ pos[r] = 0 /\ ~resumed[r]
    /\ \A i \in Calls : approval[r][i] = "none"

IInv ==
  /\ TypeOK
  /\ SweepIdle
  /\ TaskMatchesStatus
  /\ LiveIsRegistered
  /\ OneRequest
  /\ RequestIsCurrent
  /\ WaitIsForOpen
  /\ GraphPosition
  /\ AbsentIsFresh
  /\ OneOpenApproval
  /\ GatedToolApproved
  /\ AnnouncedMatchesRow
=============================================================================
