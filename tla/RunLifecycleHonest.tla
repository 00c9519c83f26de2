------------------------- MODULE RunLifecycleHonest -------------------------
(***************************************************************************)
(* What holds of RunLifecycle without a sweeper, with the default timeout  *)
(* action and clients that answer their own run's open approval: IInv is   *)
(* an invariant, and from it follow the safety properties the runs check.  *)
(*                                                                         *)
(* The first lemmas say which steps may touch what; each conjunct of IInv  *)
(* then has a lemma of its own.                                            *)
(***************************************************************************)
EXTENDS RunLifecycleProofs

USE DEF rowVars, loopVars, sweepVars, outVars,
        HasTask, Resolve, CancelledStatus, Cancellable, Answered, SweepFails

\* Without a sweeper, its thread takes no step.
LEMMA HonestNext ==
  ASSUME IInv, Honest, [Next]_vars
  PROVE  UnsweptStep
BY UnsweptNext DEF IInv, Honest

\* Which steps change what the world has seen, and where a run stands.
LEMMA WhoMoves ==
  ASSUME IInv, Honest, [Next]_vars
  PROVE  /\ UNCHANGED executed \/ \E r \in Runs : GraphResumeCall(r) \/ ExecutorCall(r)
         /\ UNCHANGED announced \/ \E r \in Runs : Finish(r)
         /\ \/ UNCHANGED pos
            \/ \E r \in Runs : GraphResumeCall(r) \/ ExecutorCall(r) \/ StartTask(r)
         /\ \/ UNCHANGED resumed
            \/ \E r \in Runs : GraphResumeCall(r)
            \/ \E c \in request : ResumeSpawns(c)
            \/ MemoryLost
<1>1. ASSUME NEW r \in Runs, TaskStep(r) \/ TaskFailure(r) \/ WaitTimesOut(r),
             ~GraphResumeCall(r), ~ExecutorCall(r)
      PROVE  /\ UNCHANGED executed
             /\ UNCHANGED announced \/ Finish(r)
             /\ UNCHANGED pos \/ StartTask(r)
             /\ UNCHANGED resumed
  BY <1>1 DEF TaskStep, TaskFailure, StartTask, StartTaskTooLate, GraphInterrupt,
    ExecutorDenied, ExecutorSuspend, WakeApproved, WakeRejected, StreamEnds, Finish,
    TaskCancelled, BuildFails, HitlUncaught,
    ErrorChunk, StreamRaises, WaitTimesOut
<1>2. ASSUME NEW r \in Runs, GraphResumeCall(r) \/ ExecutorCall(r)
      PROVE  UNCHANGED announced /\ (UNCHANGED resumed \/ GraphResumeCall(r))
  BY <1>2 DEF GraphResumeCall, ExecutorCall
<1>3. ASSUME NEW r \in Runs, Client(r)
      PROVE  UNCHANGED <<executed, announced, pos, resumed>>
  BY <1>3 DEF Client, CreateRun, CancelRun, ResumeRun
<1>4. ASSUME NEW c \in request, ~ResumeSpawns(c),
             \/ CancelWrite(c) \/ ResumeRead(c) \/ ResumeResolve(c)
             \/ ResumeRejects(c) \/ ResumeSignals(c)
      PROVE  UNCHANGED <<executed, announced, pos, resumed>>
  BY <1>4 DEF CancelWrite, ResumeRead, ResumeResolve, ResumeRejects, ResumeSignals
<1>5. ASSUME NEW c \in request, ResumeSpawns(c)
      PROVE  UNCHANGED <<executed, announced, pos>>
  BY <1>5 DEF ResumeSpawns
<1>6. CASE MemoryLost
  BY <1>6 DEF MemoryLost
<1>7. CASE \E r \in Runs, i \in Calls : Expire(r, i)
  BY <1>7 DEF Expire
<1>8. CASE UNCHANGED vars
  BY <1>8 DEF vars
<1> QED
  BY <1>1, <1>2, <1>3, <1>4, <1>5, <1>6, <1>7, <1>8, HonestNext
  DEF UnsweptStep, RequestStep, Crash, Shutdown, CrashInsideSuspend, CrashInsideWake

\* No writer of the table replaces a decision: an approval is inserted only for
\* a call that has none, and decided only while it is open.
LEMMA DecisionsKept ==
  ASSUME IInv, Honest, [Next]_vars
  PROVE  \A q \in Runs, j \in Calls :
           approval[q][j] \in {"approve", "reject"} => approval'[q][j] = approval[q][j]
<1> USE DEF IInv
<1>1. ASSUME NEW r \in Runs, Opens(r), NEW i \in Requested(r), i \in Calls
      PROVE  approval[r][i] \notin {"approve", "reject"}
  <2>1. CASE OpenCalls(r) # {}
    BY <1>1, <2>1 DEF Requested, OpenCalls
  <2>2. CASE OpenCalls(r) = {} /\ Mode[r] = "graph"
    BY <1>1, <2>2 DEF Requested, Opens, GraphInterrupt, ExecutorSuspend, HitlUncaught,
      CrashInsideSuspend, Running, GraphPosition
  <2>3. CASE OpenCalls(r) = {} /\ Mode[r] # "graph"
    BY <1>1, <2>3 DEF Requested, Opens, GraphInterrupt, ExecutorSuspend, HitlUncaught,
      CrashInsideSuspend, Undecided
  <2> QED
    BY <2>1, <2>2, <2>3
<1>2. ASSUME NEW r \in Runs, Opens(r)
      PROVE  \A q \in Runs, j \in Calls :
               approval[q][j] \in {"approve", "reject"} => approval'[q][j] = approval[q][j]
  <2>1. PICK i \in Requested(r) : Decide(r, i, "open")
    BY <1>2 DEF Opens
  <2>2. \A q \in Runs, j \in Calls :
          approval'[q][j] = IF q = r /\ j = i THEN "open" ELSE approval[q][j]
    BY <2>1, DecideWrites DEF Decisions, TypeOK
  <2> QED
    BY <1>1, <1>2, <2>2
<1>3. ASSUME NEW r \in Runs, NEW i, Decides(r, i)
      PROVE  \A q \in Runs, j \in Calls :
               approval[q][j] \in {"approve", "reject"} => approval'[q][j] = approval[q][j]
  <2>1. PICK decision \in {"approve", "reject"} : Decide(r, i, decision)
    BY <1>3 DEF Decides
  <2>2. \A q \in Runs, j \in Calls :
          approval'[q][j] = IF q = r /\ j = i THEN decision ELSE approval[q][j]
    BY <2>1, DecideWrites DEF Decisions, TypeOK
  <2>3. approval[r][i] = "open"
    BY <1>3 DEF Decides, RequestIsCurrent, ResumeResolve, SweepIdle
  <2> QED
    BY <2>2, <2>3
<1> QED
  BY <1>2, <1>3, ApprovalChanges
\* Every writer of the status moves it along ALLOWED_TRANSITIONS.
LEMMA StatusMoves ==
  ASSUME IInv, Honest, [Next]_vars
  PROVE  \A q \in Runs : RunStates!Created(q) \/ RunStates!Moved(q) \/ status'[q] = status[q]
<1> DEFINE Moves == \A q \in Runs :
                      RunStates!Created(q) \/ RunStates!Moved(q) \/ status'[q] = status[q]
<1> USE DEF IInv, TypeOK, RunStates!Created, RunStates!Moved, RunStates!AllowedTransitions
<1>1. ASSUME NEW r \in Runs, TaskStep(r) \/ TaskFailure(r)
      PROVE  Moves
  <2> USE DEF TaskMatchesStatus, Running, LiveTasks
  <2>1. CASE \/ StartTaskTooLate(r) \/ BuildFails(r) \/ GraphResumeCall(r)
             \/ ExecutorCall(r) \/ Finish(r)
    BY <2>1 DEF StartTaskTooLate, BuildFails, GraphResumeCall, ExecutorCall, Finish
  <2>2. CASE StartTask(r) \/ GraphInterrupt(r) \/ ExecutorSuspend(r)
    BY <2>2 DEF StartTask, GraphInterrupt, ExecutorSuspend
  <2>3. CASE ExecutorDenied(r) \/ ErrorChunk(r) \/ StreamEnds(r)
    BY <2>3 DEF ExecutorDenied, ErrorChunk, StreamEnds, FinalWrite
  <2>4. CASE StreamRaises(r) \/ HitlUncaught(r)
    BY <2>4 DEF StreamRaises, HitlUncaught, RaiseWrite
  <2>5. CASE TaskCancelled(r)
    BY <2>5 DEF TaskCancelled
  <2>6. CASE WakeApproved(r)
    <3>1. /\ task[r] = "waiting" /\ request = {} /\ ~cancelReq[r]
          /\ approval[r][waitsOn[r]] = "approve"
      BY <2>6 DEF WakeApproved, Awake, DecisionSeen, LoopFree, Honest
    <3>2. status[r] = "running"
      BY <3>1 DEF WaitIsForOpen
    <3> QED
      BY <2>6, <3>2 DEF WakeApproved
  <2>7. CASE WakeRejected(r)
    BY <2>7 DEF WakeRejected, Awake, FinalWrite
  <2> QED
    BY <1>1, <2>1, <2>2, <2>3, <2>4, <2>5, <2>6, <2>7 DEF TaskStep, TaskFailure
<1>2. ASSUME NEW r \in Runs, WaitTimesOut(r) \/ Client(r)
      PROVE  Moves
  BY <1>2 DEF WaitTimesOut, Client, CreateRun, CancelRun, ResumeRun
<1>3. ASSUME NEW c \in request, CancelWrite(c)
      PROVE  Moves
  BY <1>3 DEF CancelWrite, RequestIsCurrent, ActiveStatuses
<1>4. ASSUME NEW c \in request, ResumeRejects(c) \/ ResumeSpawns(c) \/ ResumeSignals(c)
      PROVE  Moves
  <2>1. status[c.run] = "suspended"
    BY <1>4 DEF ResumeRejects, ResumeSpawns, ResumeSignals, RequestIsCurrent
  <2> QED
    BY <1>4, <2>1 DEF ResumeRejects, ResumeSpawns, ResumeSignals
<1>5. CASE RequestStep
  BY <1>3, <1>4, <1>5 DEF RequestStep, ResumeRead, ResumeResolve
<1>6. CASE Shutdown
  BY <1>6 DEF Shutdown
<1>7. ASSUME NEW r \in Runs, CrashInsideWake(r)
      PROVE  Moves
  <2>1. CASE UNCHANGED status
    BY <2>1
  <2>2. CASE DecisionSeen(r) = "approve" /\ status' = [status EXCEPT ![r] = "running"]
    <3>1. /\ task[r] = "waiting" /\ request = {} /\ ~cancelReq[r]
          /\ approval[r][waitsOn[r]] = "approve"
      BY <1>7, <2>2 DEF CrashInsideWake, Awake, Running, DecisionSeen, LoopFree, Honest
    <3>2. status[r] = "running"
      BY <3>1 DEF WaitIsForOpen, TaskMatchesStatus
    <3> QED
      BY <2>2, <3>2
  <2> QED
    BY <1>7, <2>1, <2>2 DEF CrashInsideWake
<1> QED
  BY <1>1, <1>2, <1>5, <1>6, <1>7, HonestNext
  DEF UnsweptStep, Expire, Crash, CrashInsideSuspend, vars

-----------------------------------------------------------------------------

\* A task overwrites the status only from the state its stage was entered in:
\* others write it meanwhile only after a cancellation, or while it waits.
LEMMA TaskMatchesStep ==
  ASSUME IInv, Honest, [Next]_vars
  PROVE  TaskMatchesStatus'
<1> USE DEF IInv, TypeOK, TaskMatchesStatus, Running, LiveTasks
<1>1. ASSUME NEW r \in Runs, TaskStep(r) \/ TaskFailure(r) \/ WaitTimesOut(r)
      PROVE  TaskMatchesStatus'
  <2>1. CASE \/ StartTaskTooLate(r) \/ BuildFails(r) \/ GraphResumeCall(r)
             \/ ExecutorCall(r) \/ Finish(r)
    BY <2>1 DEF StartTaskTooLate, BuildFails, GraphResumeCall, ExecutorCall, Finish
  <2>2. CASE StartTask(r) \/ GraphInterrupt(r) \/ ExecutorSuspend(r)
    BY <2>2 DEF StartTask, GraphInterrupt, ExecutorSuspend
  <2>3. CASE ExecutorDenied(r) \/ ErrorChunk(r) \/ StreamEnds(r)
    BY <2>3 DEF ExecutorDenied, ErrorChunk, StreamEnds, FinalWrite
  <2>4. CASE StreamRaises(r) \/ HitlUncaught(r)
    BY <2>4 DEF StreamRaises, HitlUncaught, RaiseWrite
  <2>5. CASE TaskCancelled(r)
    BY <2>5 DEF TaskCancelled
  <2>6. CASE WakeApproved(r)
    BY <2>6 DEF WakeApproved
  <2>7. CASE WakeRejected(r)
    BY <2>7 DEF WakeRejected, FinalWrite
  <2>8. CASE WaitTimesOut(r)
    BY <2>8 DEF WaitTimesOut
  <2> QED
    BY <1>1, <2>1, <2>2, <2>3, <2>4, <2>5, <2>6, <2>7, <2>8 DEF TaskStep, TaskFailure
<1>2. ASSUME NEW r \in Runs, Client(r)
      PROVE  TaskMatchesStatus'
  <2>1. ASSUME NEW execute \in BOOLEAN, CreateRun(r, execute)
        PROVE  TaskMatchesStatus'
    BY <2>1 DEF CreateRun
  <2>2. CASE CancelRun(r)
    <3>1. \A q \in Runs : cancelReq[q] => cancelReq'[q]
      BY <2>2 DEF CancelRun
    <3> QED
      BY <2>2, <3>1 DEF CancelRun
  <2> QED
    BY <1>2, <2>1, <2>2 DEF Client, ResumeRun
<1>3. ASSUME NEW c \in request, CancelWrite(c)
      PROVE  TaskMatchesStatus'
  <2>1. c.run \in Runs /\ (task[c.run] \in LiveTasks => cancelReq[c.run])
    BY <1>3 DEF CancelWrite, RequestIsCurrent, Requests
  <2> QED
    BY <1>3, <2>1 DEF CancelWrite
<1>4. ASSUME NEW c \in request, ResumeRejects(c) \/ ResumeSpawns(c) \/ ResumeSignals(c)
      PROVE  TaskMatchesStatus'
  <2>1. c.run \in Runs /\ status[c.run] = "suspended"
    BY <1>4 DEF ResumeRejects, ResumeSpawns, ResumeSignals, RequestIsCurrent, Requests
  <2>2. CASE ResumeSpawns(c)
    BY <2>1, <2>2 DEF ResumeSpawns
  <2> QED
    BY <1>4, <2>1, <2>2 DEF ResumeRejects, ResumeSignals
<1>5. CASE RequestStep
  BY <1>3, <1>4, <1>5 DEF RequestStep, ResumeRead, ResumeResolve
<1>6. CASE MemoryLost
  BY <1>6 DEF MemoryLost
<1> QED
  BY <1>1, <1>2, <1>5, <1>6, HonestNext
  DEF UnsweptStep, Expire, Crash, Shutdown, CrashInsideSuspend, CrashInsideWake, vars

\* Only a task that ends leaves the registry.
LEMMA RegisteredStep ==
  ASSUME IInv, Honest, [Next]_vars
  PROVE  LiveIsRegistered'
<1> USE DEF IInv, TypeOK, LiveIsRegistered, Running, LiveTasks
<1>1. ASSUME NEW r \in Runs, TaskStep(r) \/ TaskFailure(r) \/ WaitTimesOut(r)
      PROVE  LiveIsRegistered'
  <2>1. CASE \/ StartTask(r) \/ GraphResumeCall(r) \/ ExecutorCall(r) \/ GraphInterrupt(r)
             \/ ExecutorSuspend(r) \/ WakeApproved(r) \/ WaitTimesOut(r)
    BY <2>1 DEF StartTask, GraphResumeCall, ExecutorCall, GraphInterrupt, ExecutorSuspend,
                WakeApproved, WaitTimesOut, Awake
  <2>2. CASE ExecutorDenied(r) \/ ErrorChunk(r) \/ StreamEnds(r) \/ WakeRejected(r)
    BY <2>2 DEF ExecutorDenied, ErrorChunk, StreamEnds, WakeRejected, FinalWrite, Awake
  <2>3. CASE \/ StartTaskTooLate(r) \/ BuildFails(r) \/ StreamRaises(r) \/ HitlUncaught(r)
             \/ Finish(r) \/ TaskCancelled(r)
    BY <2>3 DEF StartTaskTooLate, BuildFails, StreamRaises, HitlUncaught, RaiseWrite,
                Finish, TaskCancelled
  <2> QED
    BY <1>1, <2>1, <2>2, <2>3 DEF TaskStep, TaskFailure
<1>2. ASSUME NEW r \in Runs, Client(r)
      PROVE  LiveIsRegistered'
  BY <1>2 DEF Client, CreateRun, CancelRun, ResumeRun
<1>3. CASE RequestStep
  BY <1>3 DEF RequestStep, CancelWrite, ResumeRead, ResumeResolve, ResumeRejects,
              ResumeSpawns, ResumeSignals
<1>4. CASE MemoryLost
  BY <1>4 DEF MemoryLost
<1> QED
  BY <1>1, <1>2, <1>3, <1>4, HonestNext
  DEF UnsweptStep, Expire, Crash, Shutdown, CrashInsideSuspend, CrashInsideWake, vars

\* A handler that moves on keeps what it is about.
LEMMA ReadFields ==
  ASSUME NEW c \in Requests, NEW d, d = [c EXCEPT !.step = "resolve", !.open = TRUE]
  PROVE  /\ d.step = "resolve" /\ d.run = c.run /\ d.owner = c.owner
         /\ d.call = c.call /\ d.open
BY DEF Requests

LEMMA ResolveFields ==
  ASSUME NEW c \in Requests, NEW d, d = [c EXCEPT !.step = "update"]
  PROVE  /\ d.step = "update" /\ d.run = c.run /\ d.owner = c.owner
         /\ d.call = c.call /\ d.decision = c.decision
BY DEF Requests

\* While a handler is half-way no other callback of the event loop runs, so
\* what it has read stays true.
LEMMA RequestCurrentStep ==
  ASSUME IInv, Honest, [Next]_vars
  PROVE  RequestIsCurrent'
<1> USE DEF IInv, TypeOK, RequestIsCurrent
<1>1. ASSUME NEW r \in Runs, TaskStep(r) \/ TaskFailure(r) \/ WaitTimesOut(r)
      PROVE  request' = {}
  <2>1. request = {}
    BY <1>1 DEF TaskStep, TaskFailure, StartTask, StartTaskTooLate, GraphResumeCall,
      GraphInterrupt, ExecutorCall, ExecutorDenied, ExecutorSuspend, WakeApproved,
      WakeRejected, Awake, StreamEnds, Finish, TaskCancelled, BuildFails, HitlUncaught,
      ErrorChunk, StreamRaises, WaitTimesOut, Running, LoopFree
  <2> QED
    BY <1>1, <2>1 DEF TaskStep, TaskFailure, StartTask, StartTaskTooLate, GraphResumeCall,
      GraphInterrupt, ExecutorCall, ExecutorDenied, ExecutorSuspend, WakeApproved,
      WakeRejected, StreamEnds, Finish, TaskCancelled, BuildFails, HitlUncaught,
      ErrorChunk, StreamRaises, WaitTimesOut
<1>2. ASSUME NEW r \in Runs, NEW execute \in BOOLEAN, CreateRun(r, execute)
      PROVE  request' = {}
  BY <1>2 DEF CreateRun, LoopFree
<1>3. ASSUME NEW r \in Runs, CancelRun(r)
      PROVE  RequestIsCurrent'
  <2>1. task[r] \in LiveTasks => cancelReq'[r]
    BY <1>3 DEF CancelRun, LiveIsRegistered
  <2>2. \A c \in request' : c.step = "cancel" /\ c.run = r /\ status[r] \in ActiveStatuses
    BY <1>3 DEF CancelRun
  <2>3. UNCHANGED <<status, task>>
    BY <1>3 DEF CancelRun
  <2> QED
    BY <2>1, <2>2, <2>3
<1>4. ASSUME NEW r \in Runs, NEW owner \in Runs, NEW i \in Calls,
             NEW decision \in {"approve", "reject"}, ResumeRun(r, owner, i, decision)
      PROVE  RequestIsCurrent'
  BY <1>4 DEF ResumeRun, Honest
<1>5. ASSUME NEW c \in request, ResumeRead(c)
      PROVE  RequestIsCurrent'
  <2>1. /\ c.run \in Runs /\ c.owner = c.run /\ c.call \in Calls
        /\ status[c.run] = "suspended" /\ approval[c.run][c.call] = "open"
    BY <1>5 DEF ResumeRead, Requests
  <2>2. \A d \in request' : /\ d.step = "resolve" /\ d.run = c.run /\ d.owner = c.owner
                            /\ d.call = c.call /\ d.open
    <3>1. request' = {[c EXCEPT !.step = "resolve", !.open = TRUE]}
      BY <1>5, <2>1 DEF ResumeRead
    <3>2. c \in Requests
      OBVIOUS
    <3> HIDE DEF IInv, TypeOK, RequestIsCurrent
    <3> QED
      BY <3>1, <3>2, ReadFields
  <2>3. UNCHANGED <<status, approval>>
    BY <1>5 DEF ResumeRead
  <2> QED
    BY <2>1, <2>2, <2>3
<1>6. ASSUME NEW c \in request, ResumeResolve(c)
      PROVE  RequestIsCurrent'
  <2>1. /\ c.run \in Runs /\ c.owner = c.run /\ c.call \in Calls /\ c.open
        /\ c.decision \in {"approve", "reject"}
        /\ status[c.run] = "suspended" /\ approval[c.run][c.call] = "open"
    BY <1>6 DEF ResumeResolve, Requests
  <2>2. \A d \in request' : /\ d.step = "update" /\ d.run = c.run /\ d.owner = c.owner
                            /\ d.call = c.call /\ d.decision = c.decision
    <3>1. request' = {[c EXCEPT !.step = "update"]}
      BY <1>6 DEF ResumeResolve
    <3>2. c \in Requests
      OBVIOUS
    <3> HIDE DEF IInv, TypeOK, RequestIsCurrent
    <3> QED
      BY <3>1, <3>2, ResolveFields
  <2>3. approval'[c.run][c.call] = c.decision
    <3>1. Decide(c.owner, c.call, c.decision)
      BY <1>6, <2>1 DEF ResumeResolve
    <3> QED
      BY <2>1, <3>1, DecideWrites DEF Decisions
  <2>4. UNCHANGED status
    BY <1>6 DEF ResumeResolve
  <2> QED
    BY <2>1, <2>2, <2>3, <2>4
<1>7. CASE RequestStep
  BY <1>5, <1>6, <1>7 DEF RequestStep, CancelWrite, ResumeRejects, ResumeSpawns, ResumeSignals
<1>8. CASE MemoryLost
  BY <1>8 DEF MemoryLost
<1>9. ASSUME NEW r \in Runs, NEW i \in Calls, Expire(r, i)
      PROVE  RequestIsCurrent'
  BY <1>9 DEF Expire
<1>10. CASE UNCHANGED vars
  BY <1>10 DEF vars
<1>11. ASSUME NEW r \in Runs, Client(r)
       PROVE  RequestIsCurrent'
  BY <1>2, <1>3, <1>4, <1>11 DEF Client
<1> QED
  BY <1>1, <1>7, <1>8, <1>9, <1>10, <1>11, HonestNext
  DEF UnsweptStep, Crash, Shutdown, CrashInsideSuspend, CrashInsideWake

\* A run without row has no approvals: nothing of it can change before it is created.
LEMMA AbsentStep ==
  ASSUME IInv, Honest, [Next]_vars
  PROVE  AbsentIsFresh'
<1>1. SUFFICES ASSUME NEW q \in Runs, status'[q] = "absent"
               PROVE  pos'[q] = 0 /\ ~resumed'[q] /\ \A j \in Calls : approval'[q][j] = "none"
  BY DEF AbsentIsFresh
<1>2. status[q] = "absent"
  BY <1>1, StatusMoves DEF RunStates!Created, RunStates!Moved, RunStates!AllowedTransitions
<1> USE DEF IInv, TypeOK, AbsentIsFresh, TaskMatchesStatus
<1>3. pos[q] = 0 /\ ~resumed[q] /\ \A j \in Calls : approval[q][j] = "none"
  BY <1>2
<1>4. \A j \in Calls : approval'[q][j] = approval[q][j]
  <2>1. ASSUME NEW r \in Runs, Opens(r)
        PROVE  approval'[q] = approval[q]
    <3>1. r # q
      BY <2>1, <1>2 DEF Opens, GraphInterrupt, ExecutorSuspend, HitlUncaught,
        CrashInsideSuspend, Running
    <3> QED
      BY <2>1, <3>1 DEF Opens, Decide
  <2>2. ASSUME NEW r \in Runs, NEW i, Decides(r, i)
        PROVE  \A j \in Calls : approval'[q][j] = approval[q][j]
    <3>1. approval[r][i] = "open"
      BY <2>2 DEF Decides, RequestIsCurrent, ResumeResolve, SweepIdle
    <3>2. PICK decision \in {"approve", "reject"} : Decide(r, i, decision)
      BY <2>2 DEF Decides
    <3>3. \A j \in Calls : approval'[q][j] = IF q = r /\ j = i THEN decision ELSE approval[q][j]
      BY <3>2, DecideWrites DEF Decisions
    <3> QED
      BY <1>3, <3>1, <3>3
  <2> QED
    BY <2>1, <2>2, ApprovalChanges
<1>5. pos'[q] = pos[q]
  <2>1. ASSUME NEW r \in Runs, GraphResumeCall(r) \/ ExecutorCall(r) \/ StartTask(r)
        PROVE  pos'[q] = pos[q]
    BY <1>1, <1>2, <2>1 DEF GraphResumeCall, ExecutorCall, StartTask, Running, ActiveStatuses
  <2> QED
    BY <2>1, WhoMoves
<1>6. ~resumed'[q]
  <2>1. ASSUME NEW c \in request, ResumeSpawns(c)
        PROVE  ~resumed'[q]
    BY <1>2, <1>3, <2>1 DEF ResumeSpawns, RequestIsCurrent
  <2>2. ASSUME NEW r \in Runs, GraphResumeCall(r)
        PROVE  ~resumed'[q]
    BY <1>3, <2>2 DEF GraphResumeCall
  <2>3. CASE MemoryLost
    BY <2>3 DEF MemoryLost
  <2> QED
    BY <1>3, <2>1, <2>2, <2>3, WhoMoves
<1> QED
  BY <1>3, <1>4, <1>5, <1>6

\* A call is made only with its own row approved, and the row stays so.
LEMMA ToolsStep ==
  ASSUME IInv, Honest, [Next]_vars
  PROVE  GatedToolApproved'
<1> USE DEF IInv, TypeOK, GatedToolApproved
<1>1. ASSUME NEW r \in Runs, GraphResumeCall(r) \/ ExecutorCall(r)
      PROVE  GatedToolApproved'
  <2>1. approval[r][pos[r] + 1] = "approve"
    BY <1>1 DEF GraphResumeCall, ExecutorCall, GraphPosition
  <2>2. \A q \in Runs : executed'[q] \subseteq IF q = r THEN executed[q] \cup {pos[r] + 1} ELSE executed[q]
    BY <1>1 DEF GraphResumeCall, ExecutorCall
  <2>3. UNCHANGED approval
    BY <1>1 DEF GraphResumeCall, ExecutorCall
  <2> QED
    BY <2>1, <2>2, <2>3
<1>2. ASSUME UNCHANGED executed
      PROVE  GatedToolApproved'
  BY <1>2, DecisionsKept
<1> QED
  BY <1>1, <1>2, WhoMoves

\* An event is published after its status is written; no final status changes.
LEMMA AnnouncedStep ==
  ASSUME IInv, Honest, [Next]_vars
  PROVE  AnnouncedMatchesRow'
<1> USE DEF IInv, TypeOK, AnnouncedMatchesRow
<1>1. ASSUME NEW r \in Runs, Finish(r)
      PROVE  AnnouncedMatchesRow'
  BY <1>1 DEF Finish, TaskMatchesStatus, Running
<1>2. CASE UNCHANGED announced
  BY <1>2, StatusMoves DEF RunStates!Created, RunStates!Moved, RunStates!AllowedTransitions
<1> QED
  BY <1>1, <1>2, WhoMoves

\* A half-done answer names the call of an earlier state of its handler, or,
\* when the handler begins, an open one.
LEMMA WhoAnswers ==
  ASSUME IInv, Honest, [Next]_vars, NEW d \in request', d.step # "cancel"
  PROVE  \/ d.run \in Runs /\ d.call \in Calls /\ approval[d.run][d.call] = "open"
         \/ \E c \in request : c.step # "cancel" /\ c.run = d.run /\ c.call = d.call
<1> DEFINE Goal == \/ d.run \in Runs /\ d.call \in Calls /\ approval[d.run][d.call] = "open"
                   \/ \E c \in request : c.step # "cancel" /\ c.run = d.run /\ c.call = d.call
<1>1. ASSUME NEW r \in Runs, TaskStep(r) \/ TaskFailure(r) \/ WaitTimesOut(r)
      PROVE  UNCHANGED request
  BY <1>1 DEF TaskStep, TaskFailure, StartTask, StartTaskTooLate, GraphResumeCall,
    GraphInterrupt, ExecutorCall, ExecutorDenied, ExecutorSuspend, WakeApproved,
    WakeRejected, StreamEnds, Finish, TaskCancelled, BuildFails, HitlUncaught,
    ErrorChunk, StreamRaises, WaitTimesOut
<1>2. ASSUME NEW r \in Runs, NEW execute \in BOOLEAN, CreateRun(r, execute)
      PROVE  UNCHANGED request
  BY <1>2 DEF CreateRun
<1>3. ASSUME NEW r \in Runs, CancelRun(r)
      PROVE  FALSE
  BY <1>3 DEF CancelRun
<1>4. ASSUME NEW r \in Runs, NEW owner \in Runs, NEW i \in Calls,
             NEW decision \in {"approve", "reject"}, ResumeRun(r, owner, i, decision)
      PROVE  Goal
  BY <1>4 DEF ResumeRun, Honest
<1>5. ASSUME NEW c \in request, ResumeRead(c) \/ ResumeResolve(c)
      PROVE  Goal
  <2>1. c \in Requests /\ c.step # "cancel"
    BY <1>5 DEF IInv, TypeOK, ResumeRead, ResumeResolve
  <2>2. d.run = c.run /\ d.call = c.call
    <3>1. PICK open \in BOOLEAN :
            d = [c EXCEPT !.step = "resolve", !.open = open] \/ d = [c EXCEPT !.step = "update"]
      BY <1>5 DEF ResumeRead, ResumeResolve
    <3> QED
      BY <2>1, <3>1 DEF Requests
  <2> QED
    BY <2>1, <2>2
<1>6. CASE RequestStep
  BY <1>5, <1>6 DEF RequestStep, CancelWrite, ResumeRejects, ResumeSpawns, ResumeSignals
<1>7. CASE MemoryLost
  BY <1>7 DEF MemoryLost
<1>8. ASSUME NEW r \in Runs, Client(r)
      PROVE  UNCHANGED request \/ Goal
  BY <1>2, <1>3, <1>4, <1>8 DEF Client
<1>9. UNCHANGED request => Goal
  OBVIOUS
<1> QED
  BY <1>1, <1>6, <1>7, <1>8, <1>9, HonestNext
  DEF UnsweptStep, Expire, Crash, Shutdown, CrashInsideSuspend, CrashInsideWake, vars

\* What may happen to a run whose task waits.
LEMMA WhoWaits ==
  ASSUME IInv, Honest, [Next]_vars, NEW q \in Runs, task'[q] \in {"waiting", "timedOut"},
         ~ExecutorSuspend(q)
  PROVE  /\ task[q] \in {"waiting", "timedOut"}
         /\ waitsOn'[q] = waitsOn[q]
         /\ cancelReq[q] => cancelReq'[q]
         /\ \/ status'[q] # "failed"
            \/ status[q] = "failed"
            \/ \E c \in request : ResumeRejects(c) /\ c.run = q
<1> USE DEF IInv, TypeOK
<1> DEFINE Goal == /\ task[q] \in {"waiting", "timedOut"}
                   /\ waitsOn'[q] = waitsOn[q]
                   /\ cancelReq[q] => cancelReq'[q]
                   /\ \/ status'[q] # "failed"
                      \/ status[q] = "failed"
                      \/ \E c \in request : ResumeRejects(c) /\ c.run = q
<1>1. ASSUME NEW r \in Runs, TaskStep(r) \/ TaskFailure(r) \/ WaitTimesOut(r)
      PROVE  Goal
  <2>1. CASE \/ StartTask(r) \/ StartTaskTooLate(r) \/ GraphResumeCall(r) \/ GraphInterrupt(r)
             \/ ExecutorCall(r) \/ WakeApproved(r) \/ Finish(r) \/ WaitTimesOut(r)
    BY <2>1 DEF StartTask, StartTaskTooLate, GraphResumeCall, GraphInterrupt, ExecutorCall,
                WakeApproved, Finish, WaitTimesOut, Running
  <2>2. CASE ExecutorDenied(r) \/ ErrorChunk(r) \/ StreamEnds(r) \/ WakeRejected(r)
    BY <2>2 DEF ExecutorDenied, ErrorChunk, StreamEnds, WakeRejected, FinalWrite
  <2>3. CASE BuildFails(r) \/ StreamRaises(r) \/ HitlUncaught(r) \/ TaskCancelled(r)
    BY <2>3 DEF BuildFails, StreamRaises, HitlUncaught, RaiseWrite, Decide, TaskCancelled
  <2>4. CASE ExecutorSuspend(r)
    BY <2>4 DEF ExecutorSuspend
  <2> QED
    BY <1>1, <2>1, <2>2, <2>3, <2>4 DEF TaskStep, TaskFailure
<1>2. ASSUME NEW r \in Runs, Client(r)
      PROVE  Goal
  <2>1. CASE CancelRun(r)
    <3>1. cancelReq[q] => cancelReq'[q]
      BY <2>1 DEF CancelRun
    <3> QED
      BY <2>1, <3>1 DEF CancelRun
  <2> QED
    BY <1>2, <2>1 DEF Client, CreateRun, ResumeRun
<1>3. ASSUME NEW c \in request,
             \/ CancelWrite(c) \/ ResumeRead(c) \/ ResumeResolve(c) \/ ResumeRejects(c)
             \/ ResumeSpawns(c) \/ ResumeSignals(c)
      PROVE  Goal
  BY <1>3 DEF CancelWrite, ResumeRead, ResumeResolve, ResumeRejects, ResumeSpawns,
              ResumeSignals
<1>4. CASE RequestStep
  BY <1>3, <1>4 DEF RequestStep
<1>5. CASE MemoryLost
  BY <1>5 DEF MemoryLost
<1> QED
  BY <1>1, <1>2, <1>4, <1>5, HonestNext
  DEF UnsweptStep, Expire, Crash, Shutdown, CrashInsideSuspend, CrashInsideWake, vars

\* A run stays SUSPENDED under its waiting task until a handler takes its answer.
LEMMA WhoStaysSuspended ==
  ASSUME IInv, Honest, [Next]_vars, NEW q \in Runs, task'[q] \in {"waiting", "timedOut"},
         ~ExecutorSuspend(q), status'[q] = "suspended", \A d \in request' : d.run # q
  PROVE  /\ status[q] = "suspended"
         /\ \A c \in request : c.run # q
         /\ approval'[q] = approval[q]
<1> USE DEF IInv, TypeOK
<1> DEFINE Goal == status[q] = "suspended" /\ \A c \in request : c.run # q
<1>1. ASSUME NEW r \in Runs, TaskStep(r) \/ TaskFailure(r) \/ WaitTimesOut(r)
      PROVE  Goal
  <2>1. CASE \/ StartTask(r) \/ StartTaskTooLate(r) \/ GraphResumeCall(r) \/ GraphInterrupt(r)
             \/ ExecutorCall(r) \/ WakeApproved(r) \/ Finish(r) \/ WaitTimesOut(r)
    BY <2>1 DEF StartTask, StartTaskTooLate, GraphResumeCall, GraphInterrupt, ExecutorCall,
                WakeApproved, Finish, WaitTimesOut
  <2>2. CASE ExecutorDenied(r) \/ ErrorChunk(r) \/ StreamEnds(r) \/ WakeRejected(r)
    BY <2>2 DEF ExecutorDenied, ErrorChunk, StreamEnds, WakeRejected, FinalWrite
  <2>3. CASE BuildFails(r) \/ StreamRaises(r) \/ HitlUncaught(r) \/ TaskCancelled(r)
    BY <2>3 DEF BuildFails, StreamRaises, HitlUncaught, RaiseWrite, TaskCancelled
  <2>4. CASE ExecutorSuspend(r)
    BY <2>4 DEF ExecutorSuspend
  <2> QED
    BY <1>1, <2>1, <2>2, <2>3, <2>4 DEF TaskStep, TaskFailure
<1>2. ASSUME NEW r \in Runs, Client(r)
      PROVE  Goal
  BY <1>2 DEF Client, CreateRun, CancelRun, ResumeRun, LoopFree
<1>3. ASSUME NEW c \in request, CancelWrite(c) \/ ResumeRejects(c) \/ ResumeSpawns(c) \/ ResumeSignals(c)
      PROVE  Goal
  <2>1. c.run # q
    BY <1>3 DEF CancelWrite, ResumeRejects, ResumeSpawns, ResumeSignals
  <2>2. \A d \in request : d = c
    BY <1>3 DEF OneRequest
  <2> QED
    BY <1>3, <2>1, <2>2 DEF CancelWrite, ResumeRejects, ResumeSpawns, ResumeSignals
<1>4. ASSUME NEW c \in request, ResumeRead(c) \/ ResumeResolve(c)
      PROVE  Goal /\ c.run # q
  <2>1. PICK d \in request' : d.run = c.run
    <3>1. c \in Requests /\ (approval[c.owner][c.call] = "open") \in BOOLEAN
      OBVIOUS
    <3>2. PICK open \in BOOLEAN :
            request' \in {{[c EXCEPT !.step = "resolve", !.open = open]},
                         {[c EXCEPT !.step = "update"]}}
      BY <1>4, <3>1 DEF ResumeRead, ResumeResolve
    <3>3. /\ [c EXCEPT !.step = "resolve", !.open = open].run = c.run
          /\ [c EXCEPT !.step = "update"].run = c.run
      BY <3>1 DEF Requests
    <3> QED
      BY <3>2, <3>3
  <2>2. \A e \in request : e = c
    BY <1>4 DEF OneRequest
  <2> QED
    BY <1>4, <2>1, <2>2 DEF ResumeRead, ResumeResolve
<1>5. RequestStep => Goal
  BY <1>3, <1>4 DEF RequestStep
<1>6. CASE MemoryLost
  BY <1>6 DEF MemoryLost
<1>7. Goal
  BY <1>1, <1>2, <1>5, <1>6, HonestNext
  DEF UnsweptStep, Expire, Crash, Shutdown, CrashInsideSuspend, CrashInsideWake, vars
<1>8. ASSUME NEW r \in Runs, Opens(r)
      PROVE  approval'[q] = approval[q]
  <2>1. r # q
    BY <1>8 DEF Opens, GraphInterrupt, HitlUncaught, RaiseWrite, CrashInsideSuspend, MemoryLost, Running
  <2> QED
    BY <1>8, <2>1 DEF Opens, Decide
<1>9. ASSUME NEW r \in Runs, NEW i, Decides(r, i)
      PROVE  approval'[q] = approval[q]
  <2>1. ASSUME NEW c \in request, ResumeResolve(c), c.owner = r
        PROVE  r # q
    BY <1>4, <2>1 DEF ResumeResolve, RequestIsCurrent
  <2>2. ~(WakeApproved(q) \/ WakeRejected(q) \/ CrashInsideWake(q))
    BY DEF WakeApproved, WakeRejected, FinalWrite, CrashInsideWake, MemoryLost
  <2>3. r # q
    BY <1>9, <2>1, <2>2 DEF Decides, SweepIdle
  <2> QED
    BY <1>9, <2>3 DEF Decides, Decide
<1> QED
  BY <1>7, <1>8, <1>9, ApprovalChanges

\* A task waits for the one approval its run has open, whose rejection is the
\* only way its run fails meanwhile.
LEMMA WaitStep ==
  ASSUME IInv, Honest, [Next]_vars
  PROVE  WaitIsForOpen'
<1> USE DEF IInv, TypeOK
<1>1. SUFFICES ASSUME NEW q \in Runs, task'[q] \in {"waiting", "timedOut"}
               PROVE  /\ Mode[q] = "executor"
                      /\ waitsOn'[q] \in Calls
                      /\ \A j \in Calls : approval'[q][j] = "open" => j = waitsOn'[q]
                      /\ \A d \in request' : d.run = q /\ d.step # "cancel" => d.call = waitsOn'[q]
                      /\ status'[q] = "suspended" /\ (\A d \in request' : d.run # q) =>
                           approval'[q][waitsOn'[q]] = "open"
                      /\ status'[q] = "failed" /\ ~cancelReq'[q] =>
                           approval'[q][waitsOn'[q]] = "reject"
  BY DEF WaitIsForOpen, OpenCalls
<1>2. CASE ExecutorSuspend(q)
  <2>1. PICK i \in Requested(q) : Decide(q, i, "open") /\ waitsOn' = [waitsOn EXCEPT ![q] = i]
    BY <1>2 DEF ExecutorSuspend
  <2>2. i \in Calls
    BY <1>2, AheadIsCall DEF ExecutorSuspend, Undecided, Requested, OpenCalls
  <2>3. \A j \in Calls : approval'[q][j] = IF j = i THEN "open" ELSE approval[q][j]
    <3>1. Decide(q, i, "open") /\ "open" \in Decisions
      BY <2>1 DEF Decisions
    <3> QED
      BY <3>1, DecideWrites
  <2>4. \A j \in Calls : approval[q][j] = "open" => j = i
    BY <2>1 DEF Requested, OpenCalls, OneOpenApproval
  <2>5. request' = {} /\ status'[q] # "failed" /\ Mode[q] = "executor" /\ waitsOn'[q] = i
    BY <1>2, <2>1, <2>2 DEF ExecutorSuspend, Running, LoopFree
  <2> QED
    BY <2>2, <2>3, <2>4, <2>5
<1>3. CASE ~ExecutorSuspend(q)
  <2>1. /\ task[q] \in {"waiting", "timedOut"} /\ waitsOn'[q] = waitsOn[q]
        /\ cancelReq[q] => cancelReq'[q]
    BY <1>1, <1>3, WhoWaits
  <2>2. /\ Mode[q] = "executor" /\ waitsOn[q] \in Calls
        /\ \A j \in Calls : approval[q][j] = "open" => j = waitsOn[q]
    BY <2>1 DEF WaitIsForOpen, OpenCalls
  <2>3. \A j \in Calls : approval'[q][j] = "open" => j = waitsOn[q]
    <3>1. ASSUME NEW r \in Runs, Opens(r)
          PROVE  approval'[q] = approval[q]
      <4>1. r # q
        BY <1>1, <1>3, <2>1, <3>1
        DEF Opens, GraphInterrupt, HitlUncaught, CrashInsideSuspend, MemoryLost, Running
      <4> QED
        BY <3>1, <4>1 DEF Opens, Decide
    <3>2. ASSUME NEW r \in Runs, NEW i, Decides(r, i)
          PROVE  \A j \in Calls : approval'[q][j] = "open" => approval[q][j] = "open"
      <4>1. PICK decision \in {"approve", "reject"} : Decide(r, i, decision)
        BY <3>2 DEF Decides
      <4>2. \A j \in Calls :
              approval'[q][j] = IF q = r /\ j = i THEN decision ELSE approval[q][j]
        BY <4>1, DecideWrites DEF Decisions
      <4> QED
        BY <4>2
    <3> QED
      BY <2>2, <3>1, <3>2, ApprovalChanges
  <2>4. ASSUME NEW d \in request', d.run = q, d.step # "cancel"
        PROVE  d.call = waitsOn[q]
    <3>1. CASE d.call \in Calls /\ approval[q][d.call] = "open"
      BY <2>2, <3>1
    <3>2. ASSUME NEW c \in request, c.step # "cancel", c.run = q, c.call = d.call
          PROVE  d.call = waitsOn[q]
      BY <2>1, <3>2 DEF WaitIsForOpen
    <3> QED
      BY <2>4, <3>1, <3>2, WhoAnswers
  <2>5. ASSUME status'[q] = "failed", ~cancelReq'[q]
        PROVE  approval'[q][waitsOn[q]] = "reject"
    <3>1. approval[q][waitsOn[q]] = "reject"
      <4>1. CASE status[q] = "failed"
        BY <2>1, <2>5, <4>1 DEF WaitIsForOpen
      <4>2. ASSUME NEW c \in request, ResumeRejects(c), c.run = q
            PROVE  approval[q][waitsOn[q]] = "reject"
        BY <2>1, <4>2 DEF ResumeRejects, RequestIsCurrent, WaitIsForOpen
      <4> QED
        BY <1>1, <1>3, <2>5, <4>1, <4>2, WhoWaits
    <3> QED
      BY <2>2, <3>1, DecisionsKept
  <2>6. ASSUME status'[q] = "suspended", \A d \in request' : d.run # q
        PROVE  approval'[q][waitsOn[q]] = "open"
    <3>1. /\ status[q] = "suspended" /\ \A c \in request : c.run # q
          /\ approval'[q] = approval[q]
      BY <1>1, <1>3, <2>6, WhoStaysSuspended
    <3> QED
      BY <2>1, <3>1 DEF WaitIsForOpen
  <2> QED
    BY <2>1, <2>2, <2>3, <2>4, <2>5, <2>6
<1> QED
  BY <1>2, <1>3

\* What may happen to a run whose task is starting or streaming from the beginning.
LEMMA WhoStarts ==
  ASSUME IInv, Honest, [Next]_vars, NEW q \in Runs,
         task'[q] \in {"created", "streaming"}, ~resumed'[q],
         ~GraphResumeCall(q)
  PROVE  \/ task[q] \in {"created", "streaming"} /\ ~resumed[q]
         \/ status[q] = "absent"
<1> USE DEF IInv, TypeOK
<1> DEFINE Goal == \/ task[q] \in {"created", "streaming"} /\ ~resumed[q]
                   \/ status[q] = "absent"
<1>1. ASSUME NEW r \in Runs, TaskStep(r) \/ TaskFailure(r) \/ WaitTimesOut(r)
      PROVE  Goal
  <2>1. CASE \/ StartTask(r) \/ StartTaskTooLate(r) \/ GraphResumeCall(r) \/ GraphInterrupt(r)
             \/ ExecutorCall(r) \/ ExecutorSuspend(r) \/ WakeApproved(r) \/ Finish(r)
             \/ WaitTimesOut(r)
    BY <2>1 DEF StartTask, StartTaskTooLate, GraphResumeCall, GraphInterrupt, ExecutorCall,
                ExecutorSuspend, WakeApproved, Finish, WaitTimesOut, Running
  <2>2. CASE ExecutorDenied(r) \/ ErrorChunk(r) \/ StreamEnds(r) \/ WakeRejected(r)
    BY <2>2 DEF ExecutorDenied, ErrorChunk, StreamEnds, WakeRejected, FinalWrite
  <2>3. CASE BuildFails(r) \/ StreamRaises(r) \/ HitlUncaught(r) \/ TaskCancelled(r)
    BY <2>3 DEF BuildFails, StreamRaises, HitlUncaught, RaiseWrite, Decide, TaskCancelled
  <2> QED
    BY <1>1, <2>1, <2>2, <2>3 DEF TaskStep, TaskFailure
<1>2. ASSUME NEW r \in Runs, Client(r)
      PROVE  Goal
  BY <1>2 DEF Client, CreateRun, CancelRun, ResumeRun
<1>3. ASSUME NEW c \in request,
             \/ CancelWrite(c) \/ ResumeRead(c) \/ ResumeResolve(c) \/ ResumeRejects(c)
             \/ ResumeSpawns(c) \/ ResumeSignals(c)
      PROVE  Goal
  BY <1>3 DEF CancelWrite, ResumeRead, ResumeResolve, ResumeRejects, ResumeSpawns,
              ResumeSignals
<1>4. CASE RequestStep
  BY <1>3, <1>4 DEF RequestStep
<1>5. CASE MemoryLost
  BY <1>5 DEF MemoryLost
<1> QED
  BY <1>1, <1>2, <1>4, <1>5, HonestNext
  DEF UnsweptStep, Expire, Crash, Shutdown, CrashInsideSuspend, CrashInsideWake, vars

\* A run becomes COMPLETED when its chunks are exhausted or its wait is over.
LEMMA WhoCompletes ==
  ASSUME IInv, Honest, [Next]_vars, NEW q \in Runs, status'[q] = "completed"
  PROVE  status[q] = "completed" \/ StreamEnds(q) \/ WakeApproved(q)
<1> USE DEF IInv, TypeOK
<1> DEFINE Goal == status[q] = "completed" \/ StreamEnds(q) \/ WakeApproved(q)
<1>1. ASSUME NEW r \in Runs, TaskStep(r) \/ TaskFailure(r) \/ WaitTimesOut(r)
      PROVE  Goal
  <2>1. CASE \/ StartTask(r) \/ StartTaskTooLate(r) \/ GraphResumeCall(r) \/ GraphInterrupt(r)
             \/ ExecutorCall(r) \/ ExecutorSuspend(r) \/ WakeApproved(r) \/ Finish(r)
             \/ WaitTimesOut(r)
    BY <2>1 DEF StartTask, StartTaskTooLate, GraphResumeCall, GraphInterrupt, ExecutorCall,
                ExecutorSuspend, WakeApproved, Finish, WaitTimesOut
  <2>2. CASE ExecutorDenied(r) \/ ErrorChunk(r) \/ StreamEnds(r) \/ WakeRejected(r)
    BY <2>2 DEF ExecutorDenied, ErrorChunk, StreamEnds, WakeRejected, FinalWrite
  <2>3. CASE BuildFails(r) \/ StreamRaises(r) \/ HitlUncaught(r) \/ TaskCancelled(r)
    BY <2>3 DEF BuildFails, StreamRaises, HitlUncaught, RaiseWrite, Decide, TaskCancelled
  <2> QED
    BY <1>1, <2>1, <2>2, <2>3 DEF TaskStep, TaskFailure
<1>2. ASSUME NEW r \in Runs, Client(r)
      PROVE  Goal
  BY <1>2 DEF Client, CreateRun, CancelRun, ResumeRun
<1>3. CASE RequestStep
  BY <1>3 DEF RequestStep, CancelWrite, ResumeRead, ResumeResolve, ResumeRejects,
              ResumeSpawns, ResumeSignals
<1>4. ASSUME NEW r \in Runs, CrashInsideWake(r)
      PROVE  Goal
  BY <1>4 DEF CrashInsideWake
<1> QED
  BY <1>1, <1>2, <1>3, <1>4, HonestNext
  DEF UnsweptStep, Expire, Crash, Shutdown, CrashInsideSuspend, vars

\* A checkpoint never gets ahead of the decisions.
LEMMA GraphStep ==
  ASSUME IInv, Honest, [Next]_vars
  PROVE  GraphPosition'
<1> USE DEF IInv, TypeOK
<1>1. SUFFICES ASSUME NEW q \in Runs, Mode[q] = "graph"
               PROVE  /\ \A i \in Calls : i <= pos'[q] => approval'[q][i] = "approve"
                      /\ \A i \in Calls : i > pos'[q] + 1 => approval'[q][i] = "none"
                      /\ resumed'[q] => /\ pos'[q] + 1 \in Calls
                                        /\ approval'[q][pos'[q] + 1] = "approve"
                      /\ /\ task'[q] \in {"created", "streaming"} /\ ~resumed'[q]
                         /\ pos'[q] + 1 \in Calls
                         => approval'[q][pos'[q] + 1] = "none"
                      /\ \A d \in request' :
                           d.run = q /\ d.step # "cancel" => d.call = pos'[q] + 1
                      /\ executed'[q] = 1 .. pos'[q]
                      /\ pos'[q] <= GatedCalls[q]
                      /\ status'[q] = "completed" => pos'[q] = GatedCalls[q]
  BY DEF GraphPosition
<1>2. /\ \A i \in Calls : i <= pos[q] => approval[q][i] = "approve"
      /\ \A i \in Calls : i > pos[q] + 1 => approval[q][i] = "none"
      /\ resumed[q] => pos[q] + 1 \in Calls /\ approval[q][pos[q] + 1] = "approve"
      /\ task[q] \in {"created", "streaming"} /\ ~resumed[q] /\ pos[q] + 1 \in Calls =>
           approval[q][pos[q] + 1] = "none"
      /\ \A c \in request : c.run = q /\ c.step # "cancel" => c.call = pos[q] + 1
      /\ executed[q] = 1 .. pos[q]
      /\ pos[q] <= GatedCalls[q]
      /\ status[q] = "completed" => pos[q] = GatedCalls[q]
  BY <1>1 DEF GraphPosition
<1>3. pos[q] \in Nat /\ GatedCalls[q] \in Nat /\ \A i \in Calls : i \in Nat
  BY GatedAssumption DEF Calls
\* Only the call at the checkpoint may be open.
<1>4. \A i \in Calls : approval[q][i] = "open" => i = pos[q] + 1
  <2> HIDE DEF IInv, TypeOK
  <2>1. \A i \in Calls : i <= pos[q] \/ i = pos[q] + 1 \/ i > pos[q] + 1
    BY <1>3
  <2> QED
    BY <1>2, <2>1
<1>5. CASE GraphResumeCall(q)
  <2>1. /\ resumed[q] /\ pos'[q] = pos[q] + 1 /\ resumed'[q] = FALSE
        /\ UNCHANGED approval /\ request' = {}
        /\ executed'[q] = executed[q] \cup {pos[q] + 1}
        /\ pos[q] < GatedCalls[q]
    BY <1>5 DEF GraphResumeCall, CallAhead, Running, LoopFree
  <2>4. status'[q] # "completed"
    BY <1>5 DEF GraphResumeCall, Running, TaskMatchesStatus
  <2> HIDE DEF IInv, TypeOK
  <2>2. \A i \in Calls : /\ i <= pos[q] + 1 => i <= pos[q] \/ i = pos[q] + 1
                         /\ i > pos[q] + 1 + 1 => i > pos[q] + 1
    BY <1>3
  <2>3. pos[q] + 1 + 1 \in Calls => pos[q] + 1 + 1 > pos[q] + 1
    BY <1>3
  <2>5. executed'[q] = 1 .. pos'[q] /\ pos'[q] <= GatedCalls[q]
    BY <1>2, <1>3, <2>1
  <2> QED
    BY <1>2, <2>1, <2>2, <2>3, <2>4, <2>5
<1>6. CASE ~GraphResumeCall(q)
  <2>1. pos'[q] = pos[q]
    <3>1. ASSUME NEW r \in Runs, GraphResumeCall(r) \/ ExecutorCall(r)
          PROVE  pos'[q] = pos[q]
      <4>1. r # q
        BY <1>1, <1>6, <3>1 DEF ExecutorCall
      <4> QED
        BY <3>1, <4>1 DEF GraphResumeCall, ExecutorCall
    <3>2. ASSUME NEW r \in Runs, StartTask(r)
          PROVE  pos'[q] = pos[q]
      BY <1>1, <3>2 DEF StartTask
    <3> QED
      BY <3>1, <3>2, WhoMoves
  <2>2. \A i \in Calls : i # pos[q] + 1 => approval'[q][i] = approval[q][i]
    <3>1. ASSUME NEW r \in Runs, Opens(r)
          PROVE  \A i \in Calls : i # pos[q] + 1 => approval'[q][i] = approval[q][i]
      <4>1. PICK i \in Requested(r) : Decide(r, i, "open")
        BY <3>1 DEF Opens
      <4>2. r = q => i = pos[q] + 1
        BY <1>4, <4>1 DEF Requested, OpenCalls
      <4>3. \A j \in Calls :
              approval'[q][j] = IF q = r /\ j = i THEN "open" ELSE approval[q][j]
        BY <4>1, DecideWrites DEF Decisions
      <4> QED
        BY <4>2, <4>3
    <3>2. ASSUME NEW r \in Runs, NEW i, Decides(r, i)
          PROVE  \A j \in Calls : j # pos[q] + 1 => approval'[q][j] = approval[q][j]
      <4>1. PICK decision \in {"approve", "reject"} : Decide(r, i, decision)
        BY <3>2 DEF Decides
      <4>2. approval[r][i] = "open"
        BY <3>2 DEF Decides, RequestIsCurrent, ResumeResolve, SweepIdle
      <4>3. \A j \in Calls :
              approval'[q][j] = IF q = r /\ j = i THEN decision ELSE approval[q][j]
        BY <4>1, DecideWrites DEF Decisions
      <4> QED
        BY <1>4, <4>2, <4>3
    <3> QED
      BY <3>1, <3>2, ApprovalChanges
  <2>3. resumed'[q] => pos[q] + 1 \in Calls /\ approval[q][pos[q] + 1] = "approve"
    <3>1. ASSUME NEW c \in request, ResumeSpawns(c), resumed'[q], ~resumed[q]
          PROVE  pos[q] + 1 \in Calls /\ approval[q][pos[q] + 1] = "approve"
      <4>1. c.run = q
        BY <3>1 DEF ResumeSpawns
      <4>2. c.step # "cancel" /\ c.decision = "approve" /\ c.call \in Calls
            /\ approval[c.run][c.call] = c.decision
        BY <3>1 DEF ResumeSpawns, RequestIsCurrent
      <4>3. c.call = pos[q] + 1
        BY <1>2, <4>1, <4>2
      <4> QED
        BY <4>1, <4>2, <4>3
    <3>2. ASSUME NEW r \in Runs, GraphResumeCall(r), resumed'[q]
          PROVE  resumed[q]
      BY <3>2 DEF GraphResumeCall
    <3>3. CASE MemoryLost
      BY <3>3 DEF MemoryLost
    <3> QED
      BY <1>2, <3>1, <3>2, <3>3, WhoMoves
  <2>4. ASSUME task'[q] \in {"created", "streaming"}, ~resumed'[q], pos[q] + 1 \in Calls
        PROVE  approval'[q][pos[q] + 1] = "none"
    <3>1. approval[q][pos[q] + 1] = "none"
      BY <1>2, <1>6, <2>4, WhoStarts DEF AbsentIsFresh
    <3>2. ~Opens(q)
      BY <1>1, <2>4 DEF Opens, GraphInterrupt, ExecutorSuspend, HitlUncaught,
        CrashInsideSuspend, MemoryLost
    <3>3. ASSUME NEW r \in Runs, Opens(r)
          PROVE  approval'[q] = approval[q]
      BY <3>2, <3>3 DEF Opens, Decide
    <3>4. ASSUME NEW r \in Runs, NEW i, Decides(r, i)
          PROVE  approval'[q][pos[q] + 1] = approval[q][pos[q] + 1]
      <4>1. PICK decision \in {"approve", "reject"} : Decide(r, i, decision)
        BY <3>4 DEF Decides
      <4>2. approval[r][i] = "open"
        BY <3>4 DEF Decides, RequestIsCurrent, ResumeResolve, SweepIdle
      <4>3. approval'[q][pos[q] + 1] =
              IF q = r /\ pos[q] + 1 = i THEN decision ELSE approval[q][pos[q] + 1]
        BY <2>4, <4>1, DecideWrites DEF Decisions
      <4> QED
        BY <3>1, <4>2, <4>3
    <3> DEFINE Same == approval'[q][pos[q] + 1] = approval[q][pos[q] + 1]
    <3>5. TypeOK
      OBVIOUS
    <3>6. \A r \in Runs : Opens(r) => Same
      BY <3>3
    <3>7. \A r \in Runs : \A i : Decides(r, i) => Same
      BY <3>4
    <3>8. UNCHANGED approval => Same
      OBVIOUS
    <3> HIDE DEF IInv, TypeOK, Same
    <3>9. Same
      BY <3>5, <3>6, <3>7, <3>8, ApprovalChanges, Zenon
    <3> USE DEF Same
    <3> QED
      BY <3>1, <3>9
  <2>5. ASSUME NEW d \in request', d.run = q, d.step # "cancel"
        PROVE  d.call = pos[q] + 1
    <3>1. CASE d.call \in Calls /\ approval[q][d.call] = "open"
      BY <1>4, <3>1
    <3>2. ASSUME NEW c \in request, c.step # "cancel", c.run = q, c.call = d.call
          PROVE  d.call = pos[q] + 1
      BY <1>2, <3>2
    <3> QED
      BY <2>5, <3>1, <3>2, WhoAnswers
  <2>6. \A i \in Calls : /\ i <= pos[q] => approval'[q][i] = "approve"
                         /\ i > pos[q] + 1 => approval'[q][i] = "none"
    <3> HIDE DEF IInv, TypeOK
    <3>1. \A i \in Calls : i <= pos[q] \/ i > pos[q] + 1 => i # pos[q] + 1
      BY <1>3
    <3> QED
      BY <1>2, <2>2, <3>1
  <2>7. resumed'[q] => approval'[q][pos[q] + 1] = "approve"
    BY <2>3, DecisionsKept
  <2>8. executed'[q] = executed[q]
    <3>1. ASSUME NEW r \in Runs, GraphResumeCall(r) \/ ExecutorCall(r)
          PROVE  executed'[q] = executed[q]
      BY <1>1, <1>6, <3>1 DEF GraphResumeCall, ExecutorCall
    <3> QED
      BY <3>1, WhoMoves
  <2>9. status'[q] = "completed" => pos[q] = GatedCalls[q]
    <3>1. ~WakeApproved(q)
      BY <1>1 DEF WakeApproved, Awake, Running, WaitIsForOpen
    <3>2. StreamEnds(q) => pos[q] = GatedCalls[q]
      BY DEF StreamEnds
    <3> QED
      BY <1>2, <3>1, <3>2, WhoCompletes
  <2> HIDE DEF IInv, TypeOK
  <2> QED
    BY <1>2, <2>1, <2>3, <2>4, <2>5, <2>6, <2>7, <2>8, <2>9
<1> QED
  BY <1>5, <1>6

-----------------------------------------------------------------------------

LEMMA InitInvariant == Init => IInv
BY CrashAssumption, GatedAssumption
   DEF Init, IInv, TypeOK, SweepIdle, TaskMatchesStatus, LiveIsRegistered, OneRequest,
       RequestIsCurrent, WaitIsForOpen, GraphPosition, AbsentIsFresh, OneOpenApproval, OpenCalls,
       GatedToolApproved, AnnouncedMatchesRow, LiveTasks, Decisions, RunStates!RunStatuses,
       Requests, Sweeps, Calls

\* IInv is an invariant of an honest configuration, for any set of runs, any
\* number of gated calls and any number of crashes.
THEOREM InductiveInvariant ==
  ASSUME Honest
  PROVE  Spec => []IInv
<1>1. IInv /\ [Next]_vars => IInv'
  <2> SUFFICES ASSUME IInv, [Next]_vars
               PROVE  IInv'
    OBVIOUS
  <2>1. TypeOK'
    BY TypeStep DEF IInv
  <2>2. /\ SweepIdle' /\ TaskMatchesStatus' /\ LiveIsRegistered'
        /\ OneRequest' /\ RequestIsCurrent'
    BY IdleStep, TaskMatchesStep, RegisteredStep, OneRequestStep, RequestCurrentStep
       DEF IInv, Honest
  <2>3. WaitIsForOpen' /\ GraphPosition' /\ AbsentIsFresh'
    BY WaitStep, GraphStep, AbsentStep
  <2>4. OneOpenApproval' /\ GatedToolApproved' /\ AnnouncedMatchesRow'
    BY OneOpenStep, ToolsStep, AnnouncedStep DEF IInv
  <2> QED
    BY <2>1, <2>2, <2>3, <2>4 DEF IInv
<1> QED
  BY <1>1, InitInvariant, PTL DEF Spec

\* A gated tool that ran had been approved, and the table still says so.
THEOREM ApprovedBeforeUse ==
  ASSUME Honest
  PROVE  Spec => []GatedToolApproved
<1>1. IInv => GatedToolApproved
  BY DEF IInv
<1> QED
  BY <1>1, InductiveInvariant, PTL

\* A final event that was published agrees with the row ever after.
THEOREM AnnouncedTruth ==
  ASSUME Honest
  PROVE  Spec => []AnnouncedMatchesRow
<1>1. IInv => AnnouncedMatchesRow
  BY DEF IInv
<1> QED
  BY <1>1, InductiveInvariant, PTL

\* No gated tool runs for a run that is suspended or has ended.
THEOREM ToolsRunWhileRunning ==
  ASSUME Honest
  PROVE  Spec => ToolsOnlyWhileRunning
<1>1. IInv /\ [Next]_vars =>
        [\A r \in Runs : executed'[r] # executed[r] => status[r] = "running"]_vars
  <2> SUFFICES ASSUME IInv, [Next]_vars, NEW q \in Runs, executed'[q] # executed[q]
               PROVE  status[q] = "running"
    OBVIOUS
  <2>1. GraphResumeCall(q) \/ ExecutorCall(q)
    <3>1. ASSUME NEW r \in Runs, GraphResumeCall(r) \/ ExecutorCall(r)
          PROVE  r = q
      BY <3>1 DEF GraphResumeCall, ExecutorCall, IInv, TypeOK
    <3> QED
      BY <3>1, WhoMoves
  <2> QED
    BY <2>1 DEF GraphResumeCall, ExecutorCall, Running, IInv, TaskMatchesStatus
<1> QED
  BY <1>1, InductiveInvariant, PTL DEF Spec, ToolsOnlyWhileRunning

\* Only a rejection takes a run from SUSPENDED to FAILED.
LEMMA WhoFails ==
  ASSUME IInv, Honest, [Next]_vars, NEW q \in Runs,
         status[q] = "suspended", status'[q] = "failed"
  PROVE  \E c \in request : ResumeRejects(c) /\ c.run = q
<1> USE DEF IInv, TypeOK
<1>1. ASSUME NEW r \in Runs, TaskStep(r) \/ TaskFailure(r) \/ WaitTimesOut(r)
      PROVE  FALSE
  <2>1. CASE \/ StartTask(r) \/ StartTaskTooLate(r) \/ GraphResumeCall(r) \/ GraphInterrupt(r)
             \/ ExecutorCall(r) \/ ExecutorSuspend(r) \/ WakeApproved(r) \/ Finish(r)
             \/ WaitTimesOut(r)
    BY <2>1 DEF StartTask, StartTaskTooLate, GraphResumeCall, GraphInterrupt, ExecutorCall,
                ExecutorSuspend, WakeApproved, Finish, WaitTimesOut
  <2>2. CASE ExecutorDenied(r) \/ ErrorChunk(r) \/ StreamEnds(r) \/ WakeRejected(r)
    BY <2>2 DEF ExecutorDenied, ErrorChunk, StreamEnds, WakeRejected, FinalWrite
  <2>3. CASE BuildFails(r) \/ StreamRaises(r) \/ HitlUncaught(r) \/ TaskCancelled(r)
    BY <2>3 DEF BuildFails, StreamRaises, HitlUncaught, RaiseWrite, Decide, TaskCancelled
  <2> QED
    BY <1>1, <2>1, <2>2, <2>3 DEF TaskStep, TaskFailure
<1>2. ASSUME NEW r \in Runs, Client(r)
      PROVE  FALSE
  BY <1>2 DEF Client, CreateRun, CancelRun, ResumeRun
<1>3. ASSUME NEW c \in request,
             \/ CancelWrite(c) \/ ResumeRead(c) \/ ResumeResolve(c)
             \/ ResumeSpawns(c) \/ ResumeSignals(c)
      PROVE  FALSE
  BY <1>3 DEF CancelWrite, ResumeRead, ResumeResolve, ResumeSpawns, ResumeSignals
<1>4. ASSUME NEW c \in request, ResumeRejects(c)
      PROVE  c.run = q
  BY <1>4 DEF ResumeRejects
<1> QED
  BY <1>1, <1>2, <1>3, <1>4, HonestNext
  DEF UnsweptStep, RequestStep, Expire, Crash, Shutdown, CrashInsideSuspend, CrashInsideWake, vars

\* A run goes from SUSPENDED to FAILED only by the rejection of one of its calls.
THEOREM SuspendedFailsRejected ==
  ASSUME Honest
  PROVE  Spec => SuspendedFailsOnlyRejected
<1>1. IInv /\ [Next]_vars =>
        [\A r \in Runs : status[r] = "suspended" /\ status'[r] = "failed" =>
           \E i \in Calls : approval'[r][i] = "reject"]_vars
  <2> SUFFICES ASSUME IInv, [Next]_vars, NEW q \in Runs,
                      status[q] = "suspended", status'[q] = "failed"
               PROVE  \E i \in Calls : approval'[q][i] = "reject"
    OBVIOUS
  <2>1. PICK c \in request : ResumeRejects(c) /\ c.run = q
    BY WhoFails
  <2>2. c.call \in Calls /\ approval[q][c.call] = "reject"
    BY <2>1 DEF ResumeRejects, RequestIsCurrent, IInv
  <2> QED
    BY <2>2, DecisionsKept
<1> QED
  BY <1>1, InductiveInvariant, PTL DEF Spec, SuspendedFailsOnlyRejected

\* The service implements the table of allowed transitions.
THEOREM StatusRefines ==
  ASSUME Honest
  PROVE  Spec => ImplementsRunStatus
<1>1. Init => RunStates!Init
  BY DEF Init, RunStates!Init
<1>2. IInv /\ [Next]_vars => [RunStates!Next]_status
  <2> SUFFICES ASSUME IInv, [Next]_vars
               PROVE  RunStates!Next
    OBVIOUS
  <2>1. status' \in [Runs -> RunStates!RunStatuses]
    BY TypeStep DEF IInv, TypeOK
  <2> QED
    BY <2>1, StatusMoves DEF RunStates!Next
<1> QED
  BY <1>1, <1>2, InductiveInvariant, PTL DEF Spec, ImplementsRunStatus, RunStates!Spec

-----------------------------------------------------------------------------
(* That a RUNNING run has a task, as long as the process has not stopped.   *)
(* IInv does not say so: an answer writes RUNNING over SUSPENDED, and the   *)
(* task that then goes on must have been there all the time.                *)

\* Who cancels a task ends its run first: what a task that was told to stop
\* finds is a final status, or the handler that is about to write one.
CancelEndsRun ==
  \A r \in Runs : cancelReq[r] =>
    \/ status[r] \in RunStates!TerminalStatuses
    \/ \E c \in request : c.step = "cancel" /\ c.run = r

\* Nothing suspends the run of a plugin's graph.
PluginsRun == \A r \in Runs : Mode[r] = "plugin" => status[r] # "suspended"

\* An executor run that can be answered, or is just being answered, waits.
AnswerMeetsTask ==
  crashes = 0 => \A r \in Runs :
    Mode[r] = "executor" /\ status[r] = "suspended" =>
      \/ task[r] \in LiveTasks
      \/ OpenCalls(r) = {} /\ \A c \in request : c.run = r => c.step = "cancel"

TaskInv ==
  /\ CancelEndsRun
  /\ PluginsRun
  /\ AnswerMeetsTask
  /\ RunningHasTask

-----------------------------------------------------------------------------

\* A run that ended stays ended.
LEMMA FinalStays ==
  ASSUME IInv, Honest, [Next]_vars, NEW q \in Runs, status[q] \in RunStates!TerminalStatuses
  PROVE  status'[q] = status[q]
BY StatusMoves DEF RunStates!Created, RunStates!Moved, RunStates!AllowedTransitions,
                   RunStates!TerminalStatuses

\* Only a graph's interrupt and an executor suspend a run.
LEMMA PluginsStep ==
  ASSUME IInv, Honest, [Next]_vars, PluginsRun
  PROVE  PluginsRun'
BY WhoSuspends DEF PluginsRun, GraphInterrupt, ExecutorSuspend, IInv, Honest

\* A handler that is half-way is the only one, so its writes are the next.
LEMMA CancelStep ==
  ASSUME IInv, Honest, [Next]_vars, CancelEndsRun
  PROVE  CancelEndsRun'
<1> USE DEF IInv, TypeOK
<1> SUFFICES ASSUME NEW q \in Runs, cancelReq'[q]
             PROVE  \/ status'[q] \in RunStates!TerminalStatuses
                    \/ \E c \in request' : c.step = "cancel" /\ c.run = q
  BY DEF CancelEndsRun
<1>1. CASE status[q] \in RunStates!TerminalStatuses
  BY <1>1, FinalStays
<1>2. CASE status[q] \notin RunStates!TerminalStatuses
  <2>1. ASSUME NEW r \in Runs, TaskStep(r) \/ TaskFailure(r) \/ WaitTimesOut(r)
        PROVE  FALSE
    <3>1. request = {} /\ (cancelReq'[q] => cancelReq[q])
      BY <2>1 DEF TaskStep, TaskFailure, StartTask, StartTaskTooLate, GraphResumeCall,
        GraphInterrupt, ExecutorCall, ExecutorDenied, ExecutorSuspend, WakeApproved,
        WakeRejected, Awake, StreamEnds, Finish, TaskCancelled, BuildFails, HitlUncaught,
        ErrorChunk, StreamRaises, WaitTimesOut, Running, LoopFree
    <3> QED
      BY <1>2, <3>1 DEF CancelEndsRun
  <2>2. ASSUME NEW r \in Runs, CancelRun(r)
        PROVE  \E c \in request' : c.step = "cancel" /\ c.run = q
    <3>1. ~cancelReq[q]
      BY <1>2, <2>2 DEF CancelRun, LoopFree, CancelEndsRun
    <3>2. q = r /\ task[q] \in LiveTasks
      BY <2>2, <3>1 DEF CancelRun
    <3>3. status[q] \in ActiveStatuses
      BY <1>2, <3>1, <3>2 DEF TaskMatchesStatus, LiveTasks, ActiveStatuses,
                              RunStates!TerminalStatuses
    <3> QED
      BY <2>2, <3>2, <3>3 DEF CancelRun
  <2>3. ASSUME NEW r \in Runs, Client(r), ~CancelRun(r)
        PROVE  FALSE
    <3>1. request = {} /\ UNCHANGED cancelReq
      BY <2>3 DEF Client, CreateRun, ResumeRun, LoopFree
    <3> QED
      BY <1>2, <3>1 DEF CancelEndsRun
  <2>4. ASSUME NEW c \in request,
               \/ CancelWrite(c) \/ ResumeRead(c) \/ ResumeResolve(c)
               \/ ResumeRejects(c) \/ ResumeSpawns(c) \/ ResumeSignals(c)
        PROVE  status'[q] \in RunStates!TerminalStatuses
    <3>1. UNCHANGED cancelReq
      BY <2>4 DEF CancelWrite, ResumeRead, ResumeResolve, ResumeRejects, ResumeSpawns,
                  ResumeSignals
    <3>2. c.step = "cancel" /\ c.run = q
      BY <1>2, <3>1 DEF CancelEndsRun, OneRequest
    <3>3. CancelWrite(c)
      BY <2>4, <3>2 DEF ResumeRead, ResumeResolve, ResumeRejects, ResumeSpawns, ResumeSignals
    <3> QED
      BY <3>2, <3>3 DEF CancelWrite, RunStates!TerminalStatuses
  <2>5. CASE MemoryLost
    BY <2>5 DEF MemoryLost
  <2>6. CASE (\E r \in Runs, i \in Calls : Expire(r, i)) \/ UNCHANGED vars
    BY <1>2, <2>6 DEF Expire, vars, CancelEndsRun
  <2> QED
    BY <2>1, <2>2, <2>3, <2>4, <2>5, <2>6, HonestNext
    DEF UnsweptStep, RequestStep, Crash, Shutdown, CrashInsideSuspend, CrashInsideWake
<1> QED
  BY <1>1, <1>2

\* A task of a run that is suspended or running ends only by writing the status,
\* or, of a run that waits, after its approval is resolved.
LEMMA WhoEnds ==
  ASSUME IInv, Honest, ~AnyReplaySource, [Next]_vars, TaskInv, crashes' = 0,
         NEW q \in Runs, task[q] \in LiveTasks, task'[q] \notin LiveTasks
  PROVE  GraphInterrupt(q) \/ WakeRejected(q) \/ status'[q] \in RunStates!TerminalStatuses
<1> USE DEF IInv, TypeOK
<1>1. ~MemoryLost
  BY RestartCounts
<1>2. ASSUME NEW r \in Runs, TaskStep(r) \/ TaskFailure(r) \/ WaitTimesOut(r)
      PROVE  GraphInterrupt(q) \/ WakeRejected(q) \/ status'[q] \in RunStates!TerminalStatuses
  <2>1. CASE \/ StartTask(r) \/ GraphResumeCall(r) \/ ExecutorCall(r) \/ ExecutorSuspend(r)
             \/ WakeApproved(r) \/ WaitTimesOut(r)
    BY <2>1 DEF StartTask, GraphResumeCall, ExecutorCall, ExecutorSuspend, WakeApproved,
                WaitTimesOut, LiveTasks
  <2>2. CASE StartTaskTooLate(r)
    BY <2>2 DEF StartTaskTooLate
  <2>3. CASE GraphInterrupt(r) \/ WakeRejected(r)
    BY <2>3 DEF GraphInterrupt, WakeRejected, FinalWrite
  <2>4. CASE ExecutorDenied(r) \/ ErrorChunk(r) \/ StreamEnds(r)
    BY <2>4 DEF ExecutorDenied, ErrorChunk, StreamEnds, FinalWrite, Running,
                TaskMatchesStatus, LiveTasks
  <2>5. CASE StreamRaises(r) \/ HitlUncaught(r)
    BY <2>5 DEF StreamRaises, HitlUncaught, RaiseWrite, Running, TaskMatchesStatus, LiveTasks
  <2>6. CASE Finish(r)
    BY <2>6 DEF Finish, Running, TaskMatchesStatus, RunStates!TerminalStatuses
  <2>7. CASE TaskCancelled(r)
    <3>1. q = r
      BY <2>7 DEF TaskCancelled
    <3>2. status[q] \in RunStates!TerminalStatuses
      BY <2>7, <3>1 DEF TaskCancelled, LoopFree, TaskInv, CancelEndsRun
    <3> QED
      BY <3>2, FinalStays
  <2>8. CASE BuildFails(r)
    BY <2>8 DEF BuildFails
  <2> QED
    BY <1>2, <2>1, <2>2, <2>3, <2>4, <2>5, <2>6, <2>7, <2>8 DEF TaskStep, TaskFailure
<1>3. ASSUME NEW r \in Runs, Client(r)
      PROVE  FALSE
  BY <1>3 DEF Client, CreateRun, CancelRun, ResumeRun, TaskMatchesStatus, LiveTasks, 
              AbsentIsFresh, TaskInv, CancelEndsRun, LoopFree, RunStates!TerminalStatuses
<1>4. CASE RequestStep
  BY <1>4 DEF RequestStep, CancelWrite, ResumeRead, ResumeResolve, ResumeRejects,
              ResumeSpawns, ResumeSignals, LiveTasks
<1> QED
  BY <1>1, <1>2, <1>3, <1>4, HonestNext
  DEF UnsweptStep, Expire, Crash, Shutdown, CrashInsideSuspend, CrashInsideWake, vars

\* A wait that is over leaves no approval open.
LEMMA WakeCloses ==
  ASSUME IInv, Honest, [Next]_vars, NEW q \in Runs, WakeRejected(q), status'[q] = "suspended"
  PROVE  OpenCalls(q)' = {} /\ request' = {}
<1> USE DEF IInv, TypeOK
<1>1. /\ task[q] \in {"waiting", "timedOut"} /\ request = {} /\ request' = {}
      /\ status[q] = "suspended" /\ ApplyPolicy(q)
  BY DEF WakeRejected, Awake, Running, LoopFree, FinalWrite
<1>2. /\ waitsOn[q] \in Calls /\ approval[q][waitsOn[q]] = "open"
      /\ \A i \in OpenCalls(q) : i = waitsOn[q]
  BY <1>1 DEF WaitIsForOpen
<1>3. Decide(q, waitsOn[q], "reject")
  BY <1>1, <1>2 DEF ApplyPolicy, Honest
<1>4. \A j \in Calls : approval'[q][j] = IF j = waitsOn[q] THEN "reject" ELSE approval[q][j]
  BY <1>2, <1>3 DEF Decide
<1> QED
  BY <1>1, <1>2, <1>4 DEF OpenCalls

\* Which steps write RUNNING: a task's first, and an answer.
LEMMA WhoRuns ==
  ASSUME IInv, Honest, [Next]_vars, crashes' = 0, NEW q \in Runs,
         status'[q] = "running", status[q] # "running"
  PROVE  \/ StartTask(q)
         \/ \E c \in request : (ResumeSpawns(c) \/ ResumeSignals(c)) /\ c.run = q
<1> USE DEF IInv, TypeOK
<1>1. ~MemoryLost
  BY RestartCounts
<1>2. ASSUME NEW r \in Runs, TaskStep(r) \/ TaskFailure(r) \/ WaitTimesOut(r)
      PROVE  StartTask(q)
  <2>1. CASE \/ StartTaskTooLate(r) \/ GraphResumeCall(r) \/ ExecutorCall(r)
             \/ WakeApproved(r) \/ Finish(r) \/ WaitTimesOut(r) \/ BuildFails(r)
             \/ GraphInterrupt(r) \/ ExecutorSuspend(r) \/ TaskCancelled(r)
    BY <2>1 DEF StartTaskTooLate, GraphResumeCall, ExecutorCall, WakeApproved, Finish,
                WaitTimesOut, BuildFails, GraphInterrupt, ExecutorSuspend, TaskCancelled
  <2>2. CASE ExecutorDenied(r) \/ ErrorChunk(r) \/ StreamEnds(r) \/ WakeRejected(r)
    BY <2>2 DEF ExecutorDenied, ErrorChunk, StreamEnds, WakeRejected, FinalWrite
  <2>3. CASE StreamRaises(r) \/ HitlUncaught(r)
    BY <2>3 DEF StreamRaises, HitlUncaught, RaiseWrite
  <2>4. CASE StartTask(r)
    <3>1. q = r
      BY <2>4 DEF StartTask
    <3> QED
      BY <2>4, <3>1
  <2> QED
    BY <1>2, <2>1, <2>2, <2>3, <2>4 DEF TaskStep, TaskFailure
<1>3. ASSUME NEW r \in Runs, Client(r)
      PROVE  FALSE
  BY <1>3 DEF Client, CreateRun, CancelRun, ResumeRun
<1>4. ASSUME NEW c \in request,
             \/ CancelWrite(c) \/ ResumeRead(c) \/ ResumeResolve(c) \/ ResumeRejects(c)
      PROVE  FALSE
  BY <1>4 DEF CancelWrite, ResumeRead, ResumeResolve, ResumeRejects
<1>5. ASSUME NEW c \in request, ResumeSpawns(c) \/ ResumeSignals(c)
      PROVE  c.run = q
  BY <1>5 DEF ResumeSpawns, ResumeSignals
<1> QED
  BY <1>1, <1>2, <1>3, <1>4, <1>5, HonestNext
  DEF UnsweptStep, RequestStep, Expire, Crash, Shutdown, CrashInsideSuspend, CrashInsideWake, vars

\* What can be answered is waited for: an approval that opens has its task, and
\* a handler begins only with an open approval.
LEMMA AnswerStep ==
  ASSUME IInv, Honest, ~AnyReplaySource, [Next]_vars, TaskInv
  PROVE  AnswerMeetsTask'
<1> USE DEF IInv, TypeOK
<1> SUFFICES ASSUME crashes' = 0, NEW q \in Runs, Mode[q] = "executor",
                    status'[q] = "suspended", task'[q] \notin LiveTasks
             PROVE  /\ OpenCalls(q)' = {}
                    /\ \A c \in request' : c.run = q => c.step = "cancel"
  BY DEF AnswerMeetsTask
<1>0. crashes = 0 /\ ~MemoryLost
  BY CrashesStay, RestartCounts DEF Honest
<1>1. status[q] = "suspended"
  BY WhoSuspends DEF GraphInterrupt, ExecutorSuspend, LiveTasks, Honest
<1>2. CASE task[q] \in LiveTasks
  <2>1. WakeRejected(q)
    BY <1>2, WhoEnds DEF GraphInterrupt, Running, RunStates!TerminalStatuses
  <2> QED
    BY <2>1, WakeCloses
<1>3. CASE task[q] \notin LiveTasks
  <2>1. OpenCalls(q) = {} /\ \A c \in request : c.run = q => c.step = "cancel"
    BY <1>0, <1>1, <1>3 DEF TaskInv, AnswerMeetsTask
  <2>2. OpenCalls(q)' = {}
    <3>1. ASSUME NEW r \in Runs, Opens(r)
          PROVE  r # q
      BY <1>3, <3>1, <1>0 DEF Opens, GraphInterrupt, ExecutorSuspend, HitlUncaught,
        CrashInsideSuspend, Running, LiveTasks
    <3>2. ASSUME NEW r \in Runs, Opens(r)
          PROVE  OpenCalls(q)' = {}
      <4>1. PICK i \in Requested(r) : Decide(r, i, "open")
        BY <3>2 DEF Opens
      <4>2. \A j \in Calls : approval'[q][j] = approval[q][j]
        BY <3>1, <3>2, <4>1, DecideWrites DEF Decisions
      <4> QED
        BY <2>1, <4>2 DEF OpenCalls
    <3>3. ASSUME NEW r \in Runs, NEW i, Decides(r, i)
          PROVE  OpenCalls(q)' = {}
      <4>1. PICK decision \in {"approve", "reject"} : Decide(r, i, decision)
        BY <3>3 DEF Decides
      <4>2. \A j \in Calls : approval'[q][j] \in {approval[q][j], decision}
        BY <4>1, DecideWrites DEF Decisions
      <4> QED
        BY <2>1, <4>2 DEF OpenCalls
    <3> QED
      BY <2>1, <3>2, <3>3, ApprovalChanges DEF OpenCalls
  <2>3. \A c \in request' : c.run = q => c.step = "cancel"
    <3>1. ASSUME NEW r \in Runs, Client(r)
          PROVE  \A c \in request' : c.run = q => c.step = "cancel"
      BY <2>1, <3>1 DEF Client, CreateRun, CancelRun, ResumeRun, OpenCalls, Honest
    <3>2. ASSUME NEW c \in request,
                 \/ CancelWrite(c) \/ ResumeRead(c) \/ ResumeResolve(c)
                 \/ ResumeRejects(c) \/ ResumeSpawns(c) \/ ResumeSignals(c)
          PROVE  \A d \in request' : d.run = q => d.step = "cancel"
      <4>1. CASE CancelWrite(c) \/ ResumeRejects(c) \/ ResumeSpawns(c) \/ ResumeSignals(c)
        BY <4>1 DEF CancelWrite, ResumeRejects, ResumeSpawns, ResumeSignals
      <4>2. CASE ResumeRead(c) \/ ResumeResolve(c)
        <5>1. c \in Requests /\ c.run # q
          BY <2>1, <4>2 DEF ResumeRead, ResumeResolve
        <5>2. \A d \in request' : d.run = c.run
          <6>1. CASE ResumeRead(c)
            <7>1. request' = {[c EXCEPT !.step = "resolve", !.open = TRUE]}
              BY <6>1 DEF ResumeRead, RequestIsCurrent
            <7> QED
              BY <5>1, <7>1, ReadFields
          <6>2. CASE ResumeResolve(c)
            BY <5>1, <6>2, ResolveFields DEF ResumeResolve
          <6> QED
            BY <4>2, <6>1, <6>2
        <5> QED
          BY <5>1, <5>2
      <4> QED
        BY <3>2, <4>1, <4>2
    <3>3. ASSUME NEW r \in Runs, TaskStep(r) \/ TaskFailure(r) \/ WaitTimesOut(r)
          PROVE  UNCHANGED request
      BY <3>3 DEF TaskStep, TaskFailure, StartTask, StartTaskTooLate, GraphResumeCall,
        GraphInterrupt, ExecutorCall, ExecutorDenied, ExecutorSuspend, WakeApproved,
        WakeRejected, StreamEnds, Finish, TaskCancelled, BuildFails, HitlUncaught,
        ErrorChunk, StreamRaises, WaitTimesOut
    <3> QED
      BY <2>1, <3>1, <3>2, <3>3, <1>0, HonestNext
      DEF UnsweptStep, RequestStep, Expire, Crash, Shutdown, CrashInsideSuspend, CrashInsideWake, vars
  <2> QED
    BY <2>2, <2>3
<1> QED
  BY <1>2, <1>3

\* RUNNING is written by the task itself or for one that is there or spawned.
LEMMA RunningStep ==
  ASSUME IInv, Honest, ~AnyReplaySource, [Next]_vars, TaskInv
  PROVE  RunningHasTask'
<1> USE DEF IInv, TypeOK
<1> SUFFICES ASSUME crashes' = 0, crashes = 0, NEW q \in Runs, status'[q] = "running"
             PROVE  task'[q] \in LiveTasks
  BY CrashesStay DEF RunningHasTask, Honest
<1>1. CASE status[q] = "running"
  <2>1. task[q] \in LiveTasks
    BY <1>1 DEF TaskInv, RunningHasTask
  <2> QED
    BY <1>1, <2>1, WhoEnds DEF GraphInterrupt, WakeRejected, FinalWrite, RunStates!TerminalStatuses
<1>2. CASE status[q] # "running" /\ StartTask(q)
  BY <1>2 DEF StartTask, LiveTasks
<1>3. ASSUME NEW c \in request, ResumeSpawns(c), c.run = q
      PROVE  task'[q] \in LiveTasks
  BY <1>3 DEF ResumeSpawns, LiveTasks
<1>4. ASSUME NEW c \in request, ResumeSignals(c), c.run = q
      PROVE  task'[q] \in LiveTasks
  <2>1. c.step = "update" /\ c.owner = q /\ status[q] = "suspended"
    BY <1>4 DEF ResumeSignals, RequestIsCurrent
  <2>2. Mode[q] = "executor"
    BY <1>4, <2>1, ModeAssumption DEF ResumeSignals, TaskInv, PluginsRun
  <2>3. task[q] \in LiveTasks
    BY <1>4, <2>1, <2>2 DEF TaskInv, AnswerMeetsTask
  <2> QED
    BY <1>4, <2>3 DEF ResumeSignals
<1> QED
  BY <1>1, <1>2, <1>3, <1>4, WhoRuns

LEMMA TaskInvariant ==
  ASSUME Honest, ~AnyReplaySource
  PROVE  Spec => []TaskInv
<1>1. Init => TaskInv
  BY DEF Init, TaskInv, CancelEndsRun, PluginsRun, AnswerMeetsTask, RunningHasTask
<1>2. IInv /\ TaskInv /\ [Next]_vars => TaskInv'
  <2> SUFFICES ASSUME IInv, TaskInv, [Next]_vars
               PROVE  TaskInv'
    OBVIOUS
  <2> QED
    BY CancelStep, PluginsStep, AnswerStep, RunningStep DEF TaskInv
<1> QED
  BY <1>1, <1>2, InductiveInvariant, PTL DEF Spec

\* As long as the process has not stopped, a RUNNING run has a task: an answer
\* writes RUNNING only for a task that is waiting, or spawns one that can be built.
THEOREM RunningIsWorkedOn ==
  ASSUME Honest, ~AnyReplaySource
  PROVE  Spec => []RunningHasTask
<1>1. TaskInv => RunningHasTask
  BY DEF TaskInv
<1> QED
  BY <1>1, TaskInvariant, PTL
=============================================================================
