---------------------------- MODULE RunLifecycle ----------------------------
(***************************************************************************)
(* The life of a run in the runtime process: RunService creates it,        *)
(* executes it as an asyncio task, suspends it when a tool call needs a    *)
(* human decision, resumes, cancels and finishes it, while the HITL        *)
(* sweeper fails suspended runs from a thread of its own.                  *)
(*                                                                         *)
(* Three actors take steps:                                                *)
(*  - the event loop: API handlers and run tasks, which interleave only at *)
(*    awaits.  A handler is one action unless the sweeper's thread may     *)
(*    come between two of its database accesses; then "request" holds it   *)
(*    half-way and every other event-loop action waits (LoopFree);         *)
(*  - the sweeper's thread, which interleaves with everything;             *)
(*  - the operating system, which kills or stops the process.              *)
(* Database rows survive a restart; the registry of run_execution.py, the  *)
(* tasks and the two kinds of half-done work do not.                       *)
(***************************************************************************)
EXTENDS Naturals

CONSTANTS
  Runs,           \* the identifiers of the runs that may be created
  Mode,           \* how each run meets a gated call: "graph", "executor", "plugin"
  MaxGated,       \* an upper bound of GatedCalls
  GatedCalls,     \* the number of calls of gated tools each run makes
  Sweeper,        \* settings.hitl_sweeper_enabled
  TimeoutAction,  \* settings.hitl_timeout_action
  AnyApprovalId,  \* may a client name an approval other than its run's open one?
  AnyReplaySource,  \* may a resume ask for the replay of what is no run's id?
  MaxCrashes      \* bound: how often the process stops

\* research-chain and hitl-demo wait at a LangGraph interrupt, research in its
\* tool executor; in any other graph the executor's exception is not caught.
ASSUME ModeAssumption == Mode \in [Runs -> {"graph", "executor", "plugin"}]
ASSUME GatedAssumption == MaxGated \in Nat /\ GatedCalls \in [Runs -> 0 .. MaxGated]
ASSUME SettingsAssumption ==
  /\ Sweeper \in BOOLEAN
  /\ AnyApprovalId \in BOOLEAN /\ AnyReplaySource \in BOOLEAN
  /\ TimeoutAction \in {"reject", "approve"}
ASSUME CrashAssumption == MaxCrashes \in Nat

VARIABLES
  \* rows of the database and of the graph checkpointer
  status,       \* run table: the status of each run, "absent" without a row
  approval,     \* run_approvals: the decision on each run's i-th gated call
  expired,      \* the approvals whose expires_at is in the past
  pos,          \* gated calls the run is past: the graph's checkpoint, and
                \* for any other run the point its stream has reached
  \* memory of the process
  registered,   \* does run_execution._registry hold the run's state?
  task,         \* what the run's asyncio task is doing
  cancelReq,    \* the task was cancelled and has not seen it yet
  signalled,    \* RunExecutionState.approval_event
  waitsOn,      \* the gated call whose decision a waiting task awaits
  resumed,      \* chain_resume: the task continues an interrupted graph
  request,      \* at most one API handler, half-way
  sweepList,    \* approvals the sweeper has listed and not yet processed
  sweeping,     \* at most one approval the sweeper is processing
  \* what the world outside has seen
  executed,     \* the gated calls that have really been made
  announced,    \* the final events published for each run
  crashes

rowVars == <<status, approval, expired, pos>>
loopVars == <<registered, task, cancelReq, signalled, waitsOn, resumed>>
sweepVars == <<sweepList, sweeping>>
outVars == <<executed, announced>>
vars == <<rowVars, loopVars, request, sweepVars, outVars, crashes>>

RunStates == INSTANCE RunStatus

-----------------------------------------------------------------------------
(* Types.                                                                   *)

Calls == 1 .. MaxGated
ActiveStatuses == {"pending", "running", "suspended"}

\* "none": the row does not exist.  MODIFY approves with other arguments.
Decisions == {"none", "open", "approve", "reject"}

\* "streaming": iterating over the orchestrator's chunks; "waiting": inside
\* wait_for_decision; "timedOut": its timer fired and it has not run since;
\* "completing" and "failing": the final status is written, its event is not
\* yet published.  "none" is a task that is done or never existed.
LiveTasks == {"created", "streaming", "waiting", "timedOut", "completing", "failing"}

ResumeSteps == {"read", "resolve", "update"}

Requests == [step : ResumeSteps \cup {"cancel"}, run : Runs, owner : Runs,
             call : Calls \cup {0}, decision : {"approve", "reject"}, open : BOOLEAN]

Sweeps == [step : ResumeSteps, run : Runs, call : Calls,
           seen : RunStates!RunStatuses, open : BOOLEAN]

TypeOK ==
  /\ status \in [Runs -> RunStates!RunStatuses]
  /\ approval \in [Runs -> [Calls -> Decisions]]
  /\ expired \subseteq Runs \X Calls
  /\ pos \in [Runs -> 0 .. MaxGated]
  /\ registered \in [Runs -> BOOLEAN]
  /\ task \in [Runs -> LiveTasks \cup {"none"}]
  /\ cancelReq \in [Runs -> BOOLEAN]
  /\ signalled \in [Runs -> BOOLEAN]
  /\ waitsOn \in [Runs -> 0 .. MaxGated]
  /\ resumed \in [Runs -> BOOLEAN]
  /\ request \subseteq Requests
  /\ sweepList \subseteq Runs \X Calls
  /\ sweeping \subseteq Sweeps
  /\ executed \in [Runs -> SUBSET Calls]
  /\ announced \in [Runs -> SUBSET {"completed", "failed"}]
  /\ crashes \in 0 .. MaxCrashes

Init ==
  /\ status = [r \in Runs |-> "absent"]
  /\ approval = [r \in Runs |-> [i \in Calls |-> "none"]]
  /\ expired = {}
  /\ pos = [r \in Runs |-> 0]
  /\ registered = [r \in Runs |-> FALSE]
  /\ task = [r \in Runs |-> "none"]
  /\ cancelReq = [r \in Runs |-> FALSE]
  /\ signalled = [r \in Runs |-> FALSE]
  /\ waitsOn = [r \in Runs |-> 0]
  /\ resumed = [r \in Runs |-> FALSE]
  /\ request = {}
  /\ sweepList = {}
  /\ sweeping = {}
  /\ executed = [r \in Runs |-> {}]
  /\ announced = [r \in Runs |-> {}]
  /\ crashes = 0

-----------------------------------------------------------------------------
(* Helpers.                                                                 *)

\* Mutant: a handler awaits between its check and its write.
LoopFree_Await == TRUE

\* No API handler is half-way: the event loop may pick another callback.
LoopFree == request = {}

\* Mutant: CancelledError does not reach the task.
Running_Deaf(r, state) == LoopFree /\ task[r] = state

\* The run's task is scheduled and has not been told to stop.
Running(r, state) == LoopFree /\ task[r] = state /\ ~cancelReq[r]

\* Mutant: asks whether the run is registered, not whether its task is done.
HasTask_Registered(r) == registered[r]

\* state.task exists and is not done.
HasTask(r) == task[r] \in LiveTasks

OpenCalls(r) == {i \in Calls : approval[r][i] = "open"}

\* The run has a gated call ahead of it.
CallAhead(r) == pos[r] < GatedCalls[r]

\* Mutant: create_pending always inserts.
Requested_Inserts(r) == {pos[r] + 1}

\* ApprovalRepository.create_pending hands back an open approval of the run
\* if there is one, whatever call it is for, and inserts a row otherwise.
Requested(r) == IF OpenCalls(r) = {} THEN {pos[r] + 1} ELSE OpenCalls(r)

\* INSERT or UPDATE of one row of run_approvals.
Decide(r, i, decision) == approval' = [approval EXCEPT ![r][i] = decision]

\* Mutant: the row is not looked at before it is written.
Resolve_Overwrites(r, i, open, decision) == Decide(r, i, decision)

\* ApprovalRepository.resolve: a row that was read resolved is left alone.
Resolve(r, i, open, decision) ==
  IF open THEN Decide(r, i, decision) ELSE UNCHANGED approval

\* Mutant: CancelledError cancels a run whatever its status.
CancelledStatus_Always(s) == "cancelled"

\* The except clause of CancelledError: only a RUNNING run becomes CANCELLED.
CancelledStatus(s) == IF s = "running" THEN "cancelled" ELSE s

\* Mutant: cancel_run forgets the final statuses.
Cancellable_Always(r) == status[r] # "absent"

\* cancel_run leaves a run alone that has ended.
Cancellable(r) == status[r] \in ActiveStatuses

\* Mutant: the branch on the decision is lost.
Answered_Either(c, decision) == c.step = "update"

\* A resume handler that has resolved the approval and now acts on its answer.
Answered(c, decision) == c.step = "update" /\ c.decision = decision

\* Mutant: only a run that still RUNS is failed by the sweeper.
SweepFails_Running(s) == s.seen = "running"

\* The run the sweeper has read is one that it fails.
SweepFails(s) == s.seen \in {"suspended", "running"}

\* Mutant: the status and what is left to do are exchanged.
FinalWrite_Swapped(r, outcome, closing) ==
  /\ status' = [status EXCEPT ![r] = closing]
  /\ task' = [task EXCEPT ![r] = closing]

\* The end of _run_lifecycle_body: a run that is SUSPENDED in the database is
\* left alone, any other status is overwritten.
FinalWrite(r, outcome, closing) ==
  IF status[r] = "suspended"
    THEN /\ task' = [task EXCEPT ![r] = "none"]
         /\ UNCHANGED status
    ELSE /\ status' = [status EXCEPT ![r] = outcome]
         /\ task' = [task EXCEPT ![r] = closing]

-----------------------------------------------------------------------------
(* The run's task.                                                          *)

\* The run comes to a gated call that its tool executor has no decision for.
Undecided(r) == CallAhead(r) /\ approval[r][pos[r] + 1] \notin {"approve", "reject"}

\* The except clause of Exception: only a RUNNING run becomes FAILED.  The
\* finally clause keeps the registry entry of a SUSPENDED run.
RaiseWrite(r) ==
  IF status[r] = "running"
    THEN /\ status' = [status EXCEPT ![r] = "failed"]
         /\ task' = [task EXCEPT ![r] = "failing"]
         /\ UNCHANGED registered
    ELSE /\ task' = [task EXCEPT ![r] = "none"]
         /\ registered' = [registered EXCEPT ![r] = (status[r] = "suspended")]
         /\ UNCHANGED status

\* POST /runs.  With execute = FALSE the run stays PENDING without a task.
CreateRun(r, execute) ==
  /\ LoopFree
  /\ status[r] = "absent"
  /\ status' = [status EXCEPT ![r] = "pending"]
  /\ registered' = [registered EXCEPT ![r] = execute]
  /\ task' = [task EXCEPT ![r] = IF execute THEN "created" ELSE "none"]
  /\ UNCHANGED <<approval, expired, pos, cancelReq, signalled, waitsOn, resumed,
                 request, sweepVars, outVars, crashes>>

\* The first step of a task; a continuation finds its run RUNNING already.
\* Only a graph has a checkpoint to go on from.
StartTask(r) ==
  /\ Running(r, "created")
  /\ status[r] \in ActiveStatuses
  /\ status' = [status EXCEPT ![r] = "running"]
  /\ task' = [task EXCEPT ![r] = "streaming"]
  /\ pos' = [pos EXCEPT ![r] = IF Mode[r] = "graph" THEN @ ELSE 0]
  /\ UNCHANGED <<approval, expired, registered, cancelReq, signalled,
                 waitsOn, resumed, request, sweepVars, outVars, crashes>>

\* The run ended before its task ran: InvalidStateTransitionError.
StartTaskTooLate(r) ==
  /\ Running(r, "created")
  /\ status[r] \in RunStates!TerminalStatuses
  /\ task' = [task EXCEPT ![r] = "none"]
  /\ registered' = [registered EXCEPT ![r] = FALSE]
  /\ UNCHANGED <<rowVars, cancelReq, signalled, waitsOn, resumed, request,
                 sweepVars, outVars, crashes>>

\* build_orchestrator raises before the lifecycle begins.  POST /runs has validated
\* the run's policy and any replay it asks for: so either the process was restarted
\* with other keys, or it was the resume that asked for a replay of no run.
BuildFails(r) ==
  /\ Running(r, "created")
  /\ crashes > 0 \/ (resumed[r] /\ AnyReplaySource)
  /\ task' = [task EXCEPT ![r] = "none"]
  /\ UNCHANGED <<rowVars, registered, cancelReq, signalled, waitsOn, resumed,
                 request, sweepVars, outVars, crashes>>

\* Mutant: the node swallows what its call raises and goes on.
GraphResumeCall_Swallows(r) ==
  /\ Running(r, "streaming") /\ Mode[r] = "graph"
  /\ resumed[r] /\ CallAhead(r)
  /\ pos' = [pos EXCEPT ![r] = @ + 1]
  /\ resumed' = [resumed EXCEPT ![r] = FALSE]
  /\ UNCHANGED <<status, approval, expired, registered, task, cancelReq, signalled,
                 waitsOn, request, sweepVars, outVars, crashes>>

\* interrupt() returns the resume value in the node it was raised in, which
\* then makes the call; no approval row is read again.
GraphResumeCall(r) ==
  /\ Running(r, "streaming") /\ Mode[r] = "graph"
  /\ resumed[r] /\ CallAhead(r)
  /\ executed' = [executed EXCEPT ![r] = @ \cup {pos[r] + 1}]
  /\ pos' = [pos EXCEPT ![r] = @ + 1]
  /\ resumed' = [resumed EXCEPT ![r] = FALSE]
  /\ UNCHANGED <<status, approval, expired, registered, task, cancelReq, signalled,
                 waitsOn, request, sweepVars, announced, crashes>>

\* A gated call in a graph: interrupt, approval row, SUSPENDED, and the task
\* ends.  The run's registry entry stays for its continuation.
GraphInterrupt(r) ==
  /\ Running(r, "streaming") /\ Mode[r] = "graph"
  /\ ~resumed[r] /\ CallAhead(r)
  /\ \E i \in Requested(r) : Decide(r, i, "open")
  /\ status' = [status EXCEPT ![r] = "suspended"]
  /\ task' = [task EXCEPT ![r] = "none"]
  /\ UNCHANGED <<expired, pos, registered, cancelReq, signalled, waitsOn, resumed,
                 request, sweepVars, outVars, crashes>>

\* ApprovalToolExecutor.invoke when the call has been approved.
ExecutorCall(r) ==
  /\ Running(r, "streaming") /\ Mode[r] # "graph"
  /\ CallAhead(r) /\ approval[r][pos[r] + 1] = "approve"
  /\ executed' = [executed EXCEPT ![r] = @ \cup {pos[r] + 1}]
  /\ pos' = [pos EXCEPT ![r] = @ + 1]
  /\ UNCHANGED <<status, approval, expired, loopVars, request, sweepVars,
                 announced, crashes>>

\* ... when it has been rejected: ToolPermissionDenied, an error chunk.
ExecutorDenied(r) ==
  /\ Running(r, "streaming") /\ Mode[r] # "graph"
  /\ CallAhead(r) /\ approval[r][pos[r] + 1] = "reject"
  /\ FinalWrite(r, "failed", "failing")
  /\ UNCHANGED <<approval, expired, pos, registered, cancelReq, signalled, waitsOn,
                 resumed, request, sweepVars, outVars, crashes>>

\* ... and when nobody has decided: the task writes SUSPENDED and waits.
ExecutorSuspend(r) ==
  /\ Running(r, "streaming") /\ Mode[r] = "executor"
  /\ Undecided(r)
  /\ \E i \in Requested(r) :
        /\ Decide(r, i, "open")
        /\ waitsOn' = [waitsOn EXCEPT ![r] = i]
  /\ status' = [status EXCEPT ![r] = "suspended"]
  /\ task' = [task EXCEPT ![r] = "waiting"]
  /\ signalled' = [signalled EXCEPT ![r] = FALSE]
  /\ UNCHANGED <<expired, pos, registered, cancelReq, resumed, request, sweepVars,
                 outVars, crashes>>

\* A plugin's graph does not catch HitlApprovalPending: the approval row stays
\* behind and the run fails.
HitlUncaught(r) ==
  /\ Running(r, "streaming") /\ Mode[r] = "plugin"
  /\ Undecided(r)
  /\ \E i \in Requested(r) : Decide(r, i, "open")
  /\ RaiseWrite(r)
  /\ UNCHANGED <<expired, pos, cancelReq, signalled, waitsOn, resumed, request,
                 sweepVars, outVars, crashes>>

\* The timer of wait_for fires, which it may do even when the event was set
\* but the task has not been scheduled since.
WaitTimesOut(r) ==
  /\ Running(r, "waiting")
  /\ <<r, waitsOn[r]>> \in expired
  /\ task' = [task EXCEPT ![r] = "timedOut"]
  /\ UNCHANGED <<rowVars, registered, cancelReq, signalled, waitsOn, resumed,
                 request, sweepVars, outVars, crashes>>

\* Mutant: wait_for_decision never gives up.
Awake_Patient(r) == Running(r, "waiting") /\ signalled[r]

\* The task runs again after wait_for_decision.
Awake(r) ==
  \/ Running(r, "waiting") /\ signalled[r]
  \/ Running(r, "timedOut")

\* Mutant: without a decision the run is rejected, whatever the policy says.
DecisionSeen_Rejects(r) ==
  IF task[r] = "waiting" /\ approval[r][waitsOn[r]] \in {"approve", "reject"}
    THEN approval[r][waitsOn[r]]
    ELSE "reject"

\* wait_for_decision returns the decision it reads, or None for a timeout and
\* for an approval that is still open; None means the timeout policy.
DecisionSeen(r) ==
  IF task[r] = "waiting" /\ approval[r][waitsOn[r]] \in {"approve", "reject"}
    THEN approval[r][waitsOn[r]]
    ELSE TimeoutAction

\* Mutant: the timeout wins over an answer that came first.
ApplyPolicy_Wins(r) == Decide(r, waitsOn[r], TimeoutAction)

\* apply_timeout_policy resolves the approval; resolving twice does nothing.
ApplyPolicy(r) ==
  Resolve(r, waitsOn[r], approval[r][waitsOn[r]] = "open", TimeoutAction)

\* The run is set RUNNING and restart_stream raised, but the break out of the
\* chunks also leaves the while loop: the stream is not restarted, and what
\* was a RUNNING run a moment ago is written COMPLETED.
WakeApproved(r) ==
  /\ Awake(r)
  /\ DecisionSeen(r) = "approve"
  /\ ApplyPolicy(r)
  /\ status' = [status EXCEPT ![r] = "completed"]
  /\ task' = [task EXCEPT ![r] = "completing"]
  /\ UNCHANGED <<expired, pos, registered, cancelReq, signalled, waitsOn, resumed, request,
                 sweepVars, outVars, crashes>>

WakeRejected(r) ==
  /\ Awake(r)
  /\ DecisionSeen(r) = "reject"
  /\ ApplyPolicy(r)
  /\ FinalWrite(r, "failed", "failing")
  /\ UNCHANGED <<expired, pos, registered, cancelReq, signalled, waitsOn, resumed,
                 request, sweepVars, outVars, crashes>>

\* A provider or tool error that the orchestrator turns into an error chunk.
ErrorChunk(r) ==
  /\ Running(r, "streaming")
  /\ FinalWrite(r, "failed", "failing")
  /\ UNCHANGED <<approval, expired, pos, registered, cancelReq, signalled, waitsOn,
                 resumed, request, sweepVars, outVars, crashes>>

\* Any other exception.
StreamRaises(r) ==
  /\ Running(r, "streaming")
  /\ RaiseWrite(r)
  /\ UNCHANGED <<approval, expired, pos, cancelReq, signalled, waitsOn, resumed,
                 request, sweepVars, outVars, crashes>>

\* Mutant: the chunks of an interrupted graph end like those of a finished one.
StreamEnds_Interrupted(r) ==
  /\ Running(r, "streaming")
  /\ FinalWrite(r, "completed", "completing")
  /\ UNCHANGED <<approval, expired, pos, registered, cancelReq, signalled, waitsOn,
                 resumed, request, sweepVars, outVars, crashes>>

\* The chunks are exhausted.
StreamEnds(r) ==
  /\ Running(r, "streaming")
  /\ pos[r] = GatedCalls[r]
  /\ FinalWrite(r, "completed", "completing")
  /\ UNCHANGED <<approval, expired, pos, registered, cancelReq, signalled, waitsOn,
                 resumed, request, sweepVars, outVars, crashes>>

\* What follows the final write: hot memory, usage export, the event.  Each
\* may raise, which the lifecycle logs and drops; then the event is lost.
Finish(r) ==
  /\ \E closing \in {"completing", "failing"} :
       /\ Running(r, closing)
       /\ LET event == IF closing = "completing" THEN "completed" ELSE "failed"
          IN \E published \in {{}, {event}} :
               announced' = [announced EXCEPT ![r] = @ \cup published]
  /\ task' = [task EXCEPT ![r] = "none"]
  /\ registered' = [registered EXCEPT ![r] = FALSE]
  /\ UNCHANGED <<rowVars, cancelReq, signalled, waitsOn, resumed, request, sweepVars,
                 executed, crashes>>

\* CancelledError reaches the task at its next step.  A coroutine that never
\* started runs no handler at all; any other runs except and finally.
TaskCancelled(r) ==
  /\ LoopFree /\ cancelReq[r] /\ HasTask(r)
  /\ task' = [task EXCEPT ![r] = "none"]
  /\ cancelReq' = [cancelReq EXCEPT ![r] = FALSE]
  /\ IF task[r] = "created"
       THEN UNCHANGED <<status, registered>>
       ELSE /\ status' = [status EXCEPT ![r] = CancelledStatus(@)]
            /\ registered' = [registered EXCEPT ![r] = (status[r] = "suspended")]
  /\ UNCHANGED <<approval, expired, pos, signalled, waitsOn, resumed, request,
                 sweepVars, outVars, crashes>>

-----------------------------------------------------------------------------
(* API handlers.                                                            *)

\* RunService.cancel_run, called when the SSE connection of a client drops.
\* Such a connection has found the run in the registry, so the entry is still
\* there unless the run has ended.
CancelRun(r) ==
  /\ LoopFree
  /\ registered[r] \/ status[r] \in RunStates!TerminalStatuses
  /\ Cancellable(r) \/ HasTask(r)
  /\ cancelReq' = [cancelReq EXCEPT ![r] = @ \/ (registered[r] /\ HasTask(r))]
  /\ request' = IF Cancellable(r)
                  THEN {[step |-> "cancel", run |-> r, owner |-> r, call |-> 0,
                         decision |-> "reject", open |-> FALSE]}
                  ELSE {}
  /\ UNCHANGED <<rowVars, registered, task, signalled, waitsOn, resumed, sweepVars,
                 outVars, crashes>>

CancelWrite(c) ==
  /\ c.step = "cancel"
  /\ status' = [status EXCEPT ![c.run] = "cancelled"]
  /\ request' = {}
  /\ UNCHANGED <<approval, expired, pos, loopVars, sweepVars, outVars, crashes>>

\* RunService.resume_run: the run must be SUSPENDED and the approval must
\* exist.  An approval named by the client is not compared with the run, nor
\* is it required to be open; without a name the run's open one is taken.
ResumeRun(r, owner, i, decision) ==
  /\ LoopFree
  /\ status[r] = "suspended"
  /\ IF AnyApprovalId THEN approval[owner][i] # "none"
                      ELSE owner = r /\ approval[r][i] = "open"
  /\ request' = {[step |-> "read", run |-> r, owner |-> owner, call |-> i,
                  decision |-> decision, open |-> FALSE]}
  /\ UNCHANGED <<rowVars, loopVars, sweepVars, outVars, crashes>>

\* ApprovalRepository.resolve reads the row ...
ResumeRead(c) ==
  /\ c.step = "read"
  /\ request' = {[c EXCEPT !.step = "resolve",
                           !.open = (approval[c.owner][c.call] = "open")]}
  /\ UNCHANGED <<rowVars, loopVars, sweepVars, outVars, crashes>>

\* ... and writes the decision unless the row it read was resolved.  Either
\* way the event of the approval's run is set.
ResumeResolve(c) ==
  /\ c.step = "resolve"
  /\ Resolve(c.owner, c.call, c.open, c.decision)
  /\ signalled' = [signalled EXCEPT ![c.owner] = @ \/ registered[c.owner]]
  /\ request' = {[c EXCEPT !.step = "update"]}
  /\ UNCHANGED <<status, expired, pos, registered, task, cancelReq, waitsOn, resumed,
                 sweepVars, outVars, crashes>>

ResumeRejects(c) ==
  /\ Answered(c, "reject")
  /\ status' = [status EXCEPT ![c.run] = "failed"]
  /\ request' = {}
  /\ UNCHANGED <<approval, expired, pos, loopVars, sweepVars, outVars, crashes>>

\* A graph approval spawns a continuation unless the run still has a task.
ResumeSpawns(c) ==
  /\ Answered(c, "approve") /\ Mode[c.owner] = "graph"
  /\ status' = [status EXCEPT ![c.run] = "running"]
  /\ registered' = [registered EXCEPT ![c.run] = TRUE]
  /\ IF HasTask(c.run)
       THEN UNCHANGED <<task, resumed>>
       ELSE /\ task' = [task EXCEPT ![c.run] = "created"]
            /\ resumed' = [resumed EXCEPT ![c.run] = TRUE]
  /\ request' = {}
  /\ UNCHANGED <<approval, expired, pos, cancelReq, signalled, waitsOn, sweepVars,
                 outVars, crashes>>

\* An executor approval sets the event of the run's task.  Without registry
\* entry the handler answers 409, after it has written RUNNING.
ResumeSignals(c) ==
  /\ Answered(c, "approve") /\ Mode[c.owner] # "graph"
  /\ status' = [status EXCEPT ![c.run] = "running"]
  /\ signalled' = [signalled EXCEPT ![c.run] = @ \/ registered[c.run]]
  /\ request' = {}
  /\ UNCHANGED <<approval, expired, pos, registered, task, cancelReq, waitsOn, resumed,
                 sweepVars, outVars, crashes>>

RequestStep ==
  \E c \in request :
    \/ CancelWrite(c) \/ ResumeRead(c) \/ ResumeResolve(c)
    \/ ResumeRejects(c) \/ ResumeSpawns(c) \/ ResumeSignals(c)

-----------------------------------------------------------------------------
(* Time and the sweeper's thread.                                           *)

\* hitl_approval_ttl_sec elapse.
Expire(r, i) ==
  /\ approval[r][i] = "open" /\ <<r, i>> \notin expired
  /\ expired' = expired \cup {<<r, i>>}
  /\ UNCHANGED <<status, approval, pos, loopVars, request, sweepVars, outVars, crashes>>

\* sweep_expired_hitl_once: one query for the expired open approvals ...
SweepExpired ==
  /\ Sweeper /\ sweepList = {} /\ sweeping = {}
  /\ sweepList' = {a \in expired : approval[a[1]][a[2]] = "open"}
  /\ sweepList' # {}
  /\ UNCHANGED <<rowVars, loopVars, request, sweeping, outVars, crashes>>

\* ... then, for each, the run is read,
SweepReadRun(a) ==
  /\ a \in sweepList /\ sweeping = {}
  /\ sweepList' = sweepList \ {a}
  /\ sweeping' = {[step |-> "read", run |-> a[1], call |-> a[2],
                   seen |-> status[a[1]], open |-> FALSE]}
  /\ UNCHANGED <<rowVars, loopVars, request, outVars, crashes>>

\* the approval is read,
SweepReadApproval(s) ==
  /\ s.step = "read"
  /\ sweeping' = {[s EXCEPT !.step = "resolve",
                            !.open = (approval[s.run][s.call] = "open")]}
  /\ UNCHANGED <<rowVars, loopVars, request, sweepList, outVars, crashes>>

\* resolved by the timeout policy if it was open,
SweepResolve(s) ==
  /\ s.step = "resolve"
  /\ Resolve(s.run, s.call, s.open, TimeoutAction)
  /\ signalled' = [signalled EXCEPT ![s.run] = @ \/ registered[s.run]]
  /\ sweeping' = {[s EXCEPT !.step = "update"]}
  /\ UNCHANGED <<status, expired, pos, registered, task, cancelReq, waitsOn, resumed,
                 request, sweepList, outVars, crashes>>

\* and a run that was SUSPENDED or RUNNING when it was read becomes FAILED.
SweepUpdateRun(s) ==
  /\ s.step = "update"
  /\ status' = IF SweepFails(s)
                 THEN [status EXCEPT ![s.run] = "failed"] ELSE status
  /\ sweeping' = {}
  /\ UNCHANGED <<approval, expired, pos, loopVars, request, sweepList, outVars, crashes>>

SweepStep ==
  \/ SweepExpired
  \/ \E a \in sweepList : SweepReadRun(a)
  \/ \E s \in sweeping : SweepReadApproval(s) \/ SweepResolve(s) \/ SweepUpdateRun(s)

-----------------------------------------------------------------------------
(* The process stops.  Nothing looks for RUNNING runs when it starts again. *)

MemoryLost ==
  /\ crashes < MaxCrashes
  /\ crashes' = crashes + 1
  /\ registered' = [r \in Runs |-> FALSE]
  /\ task' = [r \in Runs |-> "none"]
  /\ cancelReq' = [r \in Runs |-> FALSE]
  /\ signalled' = [r \in Runs |-> FALSE]
  /\ waitsOn' = [r \in Runs |-> 0]
  /\ resumed' = [r \in Runs |-> FALSE]
  /\ request' = {}
  /\ sweepList' = {}
  /\ sweeping' = {}
  /\ UNCHANGED <<expired, pos, outVars>>

Crash ==
  /\ MemoryLost
  /\ UNCHANGED <<status, approval>>

\* Two steps of a task make two commits that no await separates.  In one, the
\* approval row is inserted and the process dies before SUSPENDED is written.
CrashInsideSuspend(r) ==
  /\ Running(r, "streaming")
  /\ IF Mode[r] = "graph" THEN ~resumed[r] /\ CallAhead(r) ELSE Undecided(r)
  /\ MemoryLost
  /\ \E i \in Requested(r) : Decide(r, i, "open")
  /\ UNCHANGED status

\* In the other, a wait that is over applies the timeout policy, may write
\* RUNNING, and the process dies before the run's final write.
CrashInsideWake(r) ==
  /\ Awake(r)
  /\ ApplyPolicy(r)
  /\ MemoryLost
  /\ \/ UNCHANGED status
     \/ /\ DecisionSeen(r) = "approve"
        /\ status' = [status EXCEPT ![r] = "running"]

\* A graceful stop cancels every task that has started; asyncio waits for the
\* sweeper's thread.
Shutdown ==
  /\ LoopFree /\ sweepList = {} /\ sweeping = {}
  /\ MemoryLost
  /\ status' = [r \in Runs |->
                  IF task[r] \in LiveTasks \ {"created"}
                    THEN CancelledStatus(status[r]) ELSE status[r]]
  /\ UNCHANGED approval

-----------------------------------------------------------------------------
TaskStep(r) ==
  \/ StartTask(r)     \/ StartTaskTooLate(r) \/ HitlUncaught(r)
  \/ GraphResumeCall(r) \/ GraphInterrupt(r)
  \/ ExecutorCall(r)  \/ ExecutorDenied(r) \/ ExecutorSuspend(r)
  \/ WakeApproved(r)  \/ WakeRejected(r)
  \/ StreamEnds(r)    \/ Finish(r)         \/ TaskCancelled(r)

TaskFailure(r) == BuildFails(r) \/ ErrorChunk(r) \/ StreamRaises(r)

Client(r) ==
  \/ \E execute \in BOOLEAN : CreateRun(r, execute)
  \/ CancelRun(r)
  \/ \E owner \in Runs, i \in Calls, decision \in {"approve", "reject"} :
       ResumeRun(r, owner, i, decision)

Next ==
  \/ \E r \in Runs : TaskStep(r) \/ TaskFailure(r) \/ WaitTimesOut(r) \/ Client(r)
  \/ RequestStep
  \/ \E r \in Runs, i \in Calls : Expire(r, i)
  \/ SweepStep
  \/ Crash
  \/ \E r \in Runs : CrashInsideSuspend(r) \/ CrashInsideWake(r)
  \/ Shutdown

Spec == Init /\ [][Next]_vars

\* The event loop runs what is ready, a handler runs to its end, time passes
\* and timers fire, the sweeper loops.  Clients, errors and crashes owe nothing.
Fairness ==
  /\ \A r \in Runs : WF_vars(TaskStep(r)) /\ WF_vars(WaitTimesOut(r))
  /\ WF_vars(RequestStep)
  /\ \A r \in Runs, i \in Calls : WF_vars(Expire(r, i))
  /\ WF_vars(SweepStep)

FairSpec == Spec /\ Fairness

-----------------------------------------------------------------------------
(* Safety.                                                                  *)

\* At most one approval of a run is open, so "the open approval of the run"
\* (get_open_for_run, the resume handler's default) is never a choice.
OneOpenApproval ==
  \A r \in Runs : \A i, j \in OpenCalls(r) : i = j

\* A gated tool that ran had been approved, and the table still says so.
GatedToolApproved ==
  \A r \in Runs : \A i \in executed[r] : approval[r][i] = "approve"

\* A COMPLETED graph run has made every gated call of its graph, however often
\* it was interrupted, answered and continued, and whatever restarts it saw.
GraphRunMadeItsCalls ==
  \A r \in Runs : Mode[r] = "graph" /\ status[r] = "completed" =>
    executed[r] = 1 .. GatedCalls[r]

\* A COMPLETED run has made every call that a human approved.  Executor runs
\* have not: see WakeApproved.
ApprovedCallIsMade ==
  \A r \in Runs : status[r] = "completed" =>
    \A i \in Calls : approval[r][i] = "approve" => i \in executed[r]

\* A decision, once in the table, is never replaced or withdrawn: neither by
\* a second answer nor by a timeout that races the answer.
DecisionIsFinal ==
  [][\A r \in Runs, i \in Calls :
       approval[r][i] \in {"approve", "reject"} => approval'[r][i] = approval[r][i]]_vars

\* No gated tool runs for a run that was cancelled, failed or is suspended.
ToolsOnlyWhileRunning ==
  [][\A r \in Runs : executed'[r] # executed[r] => status[r] = "running"]_vars

\* A published final event agrees with the row, now and ever after.
AnnouncedMatchesRow ==
  \A r \in Runs : \A event \in announced[r] : status[r] = event

\* As long as the process lives, a RUNNING run has a task working on it (of
\* clients that name no AnyReplaySource).
RunningHasTask ==
  crashes = 0 => \A r \in Runs : status[r] = "running" => task[r] \in LiveTasks

\* A SUSPENDED run can still be answered: an approval is open, or somebody is
\* already acting on the answer.
SuspendedIsAnswerable ==
  \A r \in Runs : status[r] = "suspended" =>
    OpenCalls(r) # {} \/ task[r] \in LiveTasks \/ \E c \in request : c.run = r

\* A run goes from SUSPENDED to FAILED only when one of its calls was rejected.
SuspendedFailsOnlyRejected ==
  [][\A r \in Runs : status[r] = "suspended" /\ status'[r] = "failed" =>
       \E i \in Calls : approval'[r][i] = "reject"]_vars

\* The status of every run moves along ALLOWED_TRANSITIONS, although three of
\* the writers overwrite it without looking.
ImplementsRunStatus == RunStates!Spec

(* Liveness.                                                                *)

\* Every task comes to its end: no wait and no hand-over is lost.
TaskEnds == \A r \in Runs : task[r] \in LiveTasks ~> task[r] = "none"

\* Nobody stays suspended for ever: an answer or the timeout moves the run.
SuspensionEnds == \A r \in Runs : status[r] = "suspended" ~> status[r] # "suspended"
=============================================================================
