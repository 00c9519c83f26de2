------------------------- MODULE RunLifecycleProofs -------------------------
(***************************************************************************)
(* What holds of RunLifecycle in every configuration: the types, that a    *)
(* run has at most one open approval, and which calls it has made; and,    *)
(* without the sweeper, that no decision is replaced.  RunLifecycleHonest  *)
(* continues for clients that answer their own run.                        *)
(***************************************************************************)
EXTENDS RunLifecycleInv, TLAPS

USE DEF rowVars, loopVars, sweepVars, outVars,
        HasTask, Resolve, CancelledStatus, Cancellable, Answered, SweepFails

\* The tuples of the specification name every variable: nothing changes in a
\* stuttering step.
LEMMA StutterTypes == TypeOK /\ UNCHANGED vars => TypeOK'
BY DEF TypeOK, vars

\* Writing one row leaves a table, and leaves the other rows alone.
LEMMA DecideWrites ==
  ASSUME NEW r \in Runs, NEW i, NEW decision \in Decisions,
         approval \in [Runs -> [Calls -> Decisions]], Decide(r, i, decision)
  PROVE  /\ approval' \in [Runs -> [Calls -> Decisions]]
         /\ \A q \in Runs, j \in Calls :
              approval'[q][j] = IF q = r /\ j = i THEN decision ELSE approval[q][j]
BY DEF Decide

LEMMA RequestAdvances ==
  ASSUME NEW c \in Requests, NEW step \in ResumeSteps
  PROVE  [c EXCEPT !.step = step] \in Requests
BY DEF Requests

\* Every step of a run's own task keeps the types.
LEMMA TaskTypes ==
  ASSUME NEW r \in Runs, TypeOK, TaskStep(r) \/ TaskFailure(r) \/ WaitTimesOut(r)
  PROVE  TypeOK'
<1> USE ModeAssumption, GatedAssumption, SettingsAssumption
    DEF TypeOK, Running, LiveTasks, Decisions, RunStates!RunStatuses, CallAhead
<1>1. CASE StartTask(r)
  BY <1>1 DEF StartTask
<1>2. CASE StartTaskTooLate(r)
  BY <1>2 DEF StartTaskTooLate
<1>3. CASE GraphResumeCall(r)
  <2>1. pos[r] + 1 \in 1 .. GatedCalls[r]
    BY <1>3 DEF GraphResumeCall
  <2>2. pos[r] + 1 \in Calls /\ pos[r] + 1 \in 0 .. MaxGated
    BY <2>1 DEF Calls
  <2> QED
    BY <1>3, <2>2 DEF GraphResumeCall
<1>4. CASE GraphInterrupt(r)
  <2>1. PICK i \in Requested(r) : Decide(r, i, "open")
    BY <1>4 DEF GraphInterrupt
  <2>2. approval' \in [Runs -> [Calls -> Decisions]]
    BY <2>1, DecideWrites
  <2> QED
    BY <1>4, <2>2 DEF GraphInterrupt
<1>5. CASE ExecutorCall(r)
  BY <1>5 DEF ExecutorCall, Calls
<1>6. CASE ExecutorDenied(r)
  BY <1>6 DEF ExecutorDenied, FinalWrite
<1>7. CASE ExecutorSuspend(r)
  <2>1. PICK i \in Requested(r) : Decide(r, i, "open") /\ waitsOn' = [waitsOn EXCEPT ![r] = i]
    BY <1>7 DEF ExecutorSuspend
  <2>2. i \in 0 .. MaxGated
    BY <1>7 DEF ExecutorSuspend, Undecided, Requested, OpenCalls, Calls
  <2>3. approval' \in [Runs -> [Calls -> Decisions]]
    BY <2>1, DecideWrites
  <2> QED
    BY <1>7, <2>1, <2>2, <2>3 DEF ExecutorSuspend
<1>8. CASE WakeApproved(r)
  <2>1. approval' \in [Runs -> [Calls -> Decisions]]
    <3>1. CASE approval[r][waitsOn[r]] = "open"
      <4>1. Decide(r, waitsOn[r], TimeoutAction)
        BY <1>8, <3>1 DEF WakeApproved, ApplyPolicy
      <4> QED
        BY <4>1, DecideWrites
    <3> QED
      BY <1>8, <3>1 DEF WakeApproved, ApplyPolicy
  <2>2. /\ task' \in [Runs -> LiveTasks \cup {"none"}]
        /\ status' \in [Runs -> RunStates!RunStatuses]
    BY <1>8 DEF WakeApproved
  <2> QED
    BY <1>8, <2>1, <2>2 DEF WakeApproved
<1>9. CASE WakeRejected(r)
  <2>1. approval' \in [Runs -> [Calls -> Decisions]]
    <3>1. CASE approval[r][waitsOn[r]] = "open"
      <4>1. Decide(r, waitsOn[r], TimeoutAction)
        BY <1>9, <3>1 DEF WakeRejected, ApplyPolicy
      <4> QED
        BY <4>1, DecideWrites
    <3> QED
      BY <1>9, <3>1 DEF WakeRejected, ApplyPolicy
  <2>2. /\ task' \in [Runs -> LiveTasks \cup {"none"}]
        /\ status' \in [Runs -> RunStates!RunStatuses]
    BY <1>9 DEF WakeRejected, FinalWrite
  <2> QED
    BY <1>9, <2>1, <2>2 DEF WakeRejected
<1>10. CASE StreamEnds(r)
  BY <1>10 DEF StreamEnds, FinalWrite
<1>11. CASE Finish(r)
  BY <1>11 DEF Finish
<1>12. CASE TaskCancelled(r)
  BY <1>12 DEF TaskCancelled
<1>13. CASE ErrorChunk(r)
  BY <1>13 DEF ErrorChunk, FinalWrite
<1>14. CASE StreamRaises(r)
  BY <1>14 DEF StreamRaises, RaiseWrite
<1>15. CASE WaitTimesOut(r)
  BY <1>15 DEF WaitTimesOut
<1>16. CASE BuildFails(r)
  BY <1>16 DEF BuildFails
<1>17. CASE HitlUncaught(r)
  <2>1. PICK i \in Requested(r) : Decide(r, i, "open")
    BY <1>17 DEF HitlUncaught
  <2>2. approval' \in [Runs -> [Calls -> Decisions]]
    BY <2>1, DecideWrites
  <2> QED
    BY <1>17, <2>2 DEF HitlUncaught, RaiseWrite
<1> QED
  BY <1>1, <1>2, <1>3, <1>4, <1>5, <1>6, <1>7, <1>8, <1>9, <1>10, <1>11, <1>12,
     <1>13, <1>14, <1>15, <1>16, <1>17 DEF TaskStep, TaskFailure

\* So does every step of an API handler.
LEMMA HandlerTypes ==
  ASSUME TypeOK, (\E r \in Runs : Client(r)) \/ RequestStep
  PROVE  TypeOK'
<1> USE ModeAssumption, GatedAssumption, SettingsAssumption
    DEF TypeOK, LiveTasks, Decisions, RunStates!RunStatuses, Requests, ResumeSteps
<1>1. ASSUME NEW r \in Runs, NEW execute \in BOOLEAN, CreateRun(r, execute)
      PROVE  TypeOK'
  BY <1>1 DEF CreateRun
<1>2. ASSUME NEW r \in Runs, CancelRun(r)
      PROVE  TypeOK'
  <2> DEFINE heard == cancelReq[r] \/ (registered[r] /\ task[r] \in LiveTasks)
  <2>0. heard \in BOOLEAN /\ cancelReq' = [cancelReq EXCEPT ![r] = heard]
    BY <1>2 DEF CancelRun
  <2>1. cancelReq' \in [Runs -> BOOLEAN]
    <3> HIDE DEF heard
    <3> QED
      BY <2>0
  <2>2. request' \subseteq Requests
    <3>1. CASE status[r] \in ActiveStatuses
      BY <1>2, <3>1 DEF CancelRun
    <3>2. CASE status[r] \notin ActiveStatuses
      BY <1>2, <3>2 DEF CancelRun
    <3> QED
      BY <3>1, <3>2
  <2> QED
    BY <1>2, <2>1, <2>2 DEF CancelRun
<1>3. ASSUME NEW r \in Runs, NEW owner \in Runs, NEW i \in Calls,
             NEW decision \in {"approve", "reject"}, ResumeRun(r, owner, i, decision)
      PROVE  TypeOK'
  BY <1>3 DEF ResumeRun
<1>4. ASSUME NEW c \in request, CancelWrite(c)
      PROVE  TypeOK'
  BY <1>4 DEF CancelWrite
<1>5. ASSUME NEW c \in request, ResumeRead(c)
      PROVE  TypeOK'
  BY <1>5 DEF ResumeRead
<1>6. ASSUME NEW c \in request, ResumeResolve(c)
      PROVE  TypeOK'
  <2>1. /\ c.owner \in Runs /\ c.decision \in Decisions
        /\ c.open => Decide(c.owner, c.call, c.decision)
        /\ ~c.open => UNCHANGED approval
    BY <1>6 DEF ResumeResolve
  <2>2. approval' \in [Runs -> [Calls -> Decisions]]
    BY <2>1, DecideWrites
  <2>3. [c EXCEPT !.step = "update"] \in Requests
    BY c \in Requests, RequestAdvances
  <2>4. signalled' \in [Runs -> BOOLEAN]
    <3> DEFINE set == signalled[c.owner] \/ registered[c.owner]
    <3>1. set \in BOOLEAN /\ signalled' = [signalled EXCEPT ![c.owner] = set]
      BY <1>6 DEF ResumeResolve
    <3> HIDE DEF set
    <3> QED
      BY <3>1
  <2> QED
    BY <1>6, <2>2, <2>3, <2>4 DEF ResumeResolve
<1>7. ASSUME NEW c \in request, ResumeRejects(c)
      PROVE  TypeOK'
  BY <1>7 DEF ResumeRejects
<1>8. ASSUME NEW c \in request, ResumeSpawns(c)
      PROVE  TypeOK'
  BY <1>8 DEF ResumeSpawns
<1>9. ASSUME NEW c \in request, ResumeSignals(c)
      PROVE  TypeOK'
  BY <1>9 DEF ResumeSignals
<1> QED
  BY <1>1, <1>2, <1>3, <1>4, <1>5, <1>6, <1>7, <1>8, <1>9 DEF Client, RequestStep

\* And every step of the sweeper, of time and of the operating system.
LEMMA OutsideTypes ==
  ASSUME TypeOK,
         \/ \E r \in Runs, i \in Calls : Expire(r, i)
         \/ SweepStep
         \/ Crash
         \/ \E r \in Runs : CrashInsideSuspend(r) \/ CrashInsideWake(r)
         \/ Shutdown
  PROVE  TypeOK'
<1> USE GatedAssumption, SettingsAssumption, CrashAssumption
    DEF TypeOK, Decisions, RunStates!RunStatuses, Sweeps, ResumeSteps
<1>1. ASSUME NEW r \in Runs, NEW i \in Calls, Expire(r, i)
      PROVE  TypeOK'
  BY <1>1 DEF Expire
<1>2. CASE SweepExpired
  BY <1>2 DEF SweepExpired
<1>3. ASSUME NEW a \in sweepList, SweepReadRun(a)
      PROVE  TypeOK'
  BY <1>3 DEF SweepReadRun
<1>4. ASSUME NEW s \in sweeping, SweepReadApproval(s)
      PROVE  TypeOK'
  BY <1>4 DEF SweepReadApproval
<1>5. ASSUME NEW s \in sweeping, SweepResolve(s)
      PROVE  TypeOK'
  <2>1. approval' \in [Runs -> [Calls -> Decisions]]
    BY <1>5, DecideWrites DEF SweepResolve
  <2>2. {[s EXCEPT !.step = "update"]} \subseteq Sweeps
    OBVIOUS
  <2> QED
    BY <1>5, <2>1, <2>2 DEF SweepResolve
<1>6. ASSUME NEW s \in sweeping, SweepUpdateRun(s)
      PROVE  TypeOK'
  BY <1>6 DEF SweepUpdateRun
<1>7. CASE Crash
  BY <1>7 DEF Crash, MemoryLost, LiveTasks
<1>8. ASSUME NEW r \in Runs, CrashInsideSuspend(r)
      PROVE  TypeOK'
  <2>1. PICK i \in Requested(r) : Decide(r, i, "open")
    BY <1>8 DEF CrashInsideSuspend
  <2>2. approval' \in [Runs -> [Calls -> Decisions]]
    BY <2>1, DecideWrites
  <2> QED
    BY <1>8, <2>2 DEF CrashInsideSuspend, MemoryLost, LiveTasks
<1>9. CASE Shutdown
  BY <1>9 DEF Shutdown, MemoryLost, LiveTasks
<1>10. ASSUME NEW r \in Runs, CrashInsideWake(r)
       PROVE  TypeOK'
  <2>1. approval' \in [Runs -> [Calls -> Decisions]]
    BY <1>10, DecideWrites DEF CrashInsideWake, ApplyPolicy
  <2>2. status' \in [Runs -> RunStates!RunStatuses]
    BY <1>10 DEF CrashInsideWake
  <2> QED
    BY <1>10, <2>1, <2>2 DEF CrashInsideWake, MemoryLost, LiveTasks
<1> QED
  BY <1>1, <1>2, <1>3, <1>4, <1>5, <1>6, <1>7, <1>8, <1>9, <1>10 DEF SweepStep

LEMMA TypeStep == TypeOK /\ [Next]_vars => TypeOK'
BY StutterTypes, TaskTypes, HandlerTypes, OutsideTypes DEF Next

\* Every variable keeps its type, in every configuration.
THEOREM TypeCorrect == Spec => []TypeOK
<1>1. Init => TypeOK
  BY CrashAssumption, GatedAssumption
     DEF Init, TypeOK, LiveTasks, Decisions, RunStates!RunStatuses, Requests, Sweeps
<1> QED
  BY <1>1, TypeStep, PTL DEF Spec

-----------------------------------------------------------------------------
\* The steps that insert an approval row or find one open.
Opens(r) ==
  /\ GraphInterrupt(r) \/ ExecutorSuspend(r) \/ HitlUncaught(r) \/ CrashInsideSuspend(r)
  /\ \E i \in Requested(r) : Decide(r, i, "open")

\* The steps that write a decision into row i of run r.
Decides(r, i) ==
  /\ \E decision \in {"approve", "reject"} : Decide(r, i, decision)
  /\ \/ /\ approval[r][i] = "open"
        /\ WakeApproved(r) \/ WakeRejected(r) \/ CrashInsideWake(r)
     \/ \E c \in request : ResumeResolve(c) /\ c.open /\ c.owner = r /\ c.call = i
     \/ \E s \in sweeping : SweepResolve(s)

\* How the table of approvals changes, in any configuration.
LEMMA ApprovalChanges ==
  ASSUME TypeOK, [Next]_vars
  PROVE  \/ UNCHANGED approval
         \/ \E r \in Runs : Opens(r)
         \/ \E r \in Runs : \E i : Decides(r, i)
<1> DEFINE Goal == \/ UNCHANGED approval
                   \/ \E r \in Runs : Opens(r)
                   \/ \E r \in Runs : \E i : Decides(r, i)
<1> USE SettingsAssumption
<1>1. ASSUME NEW r \in Runs, TaskStep(r)
      PROVE  Goal
  <2>1. CASE GraphInterrupt(r) \/ ExecutorSuspend(r) \/ HitlUncaught(r)
    BY <2>1 DEF GraphInterrupt, ExecutorSuspend, HitlUncaught, Opens
  <2>2. CASE WakeApproved(r) \/ WakeRejected(r)
    <3>1. CASE approval[r][waitsOn[r]] = "open"
      BY <2>2, <3>1 DEF WakeApproved, WakeRejected, ApplyPolicy, Decides
    <3> QED
      BY <2>2, <3>1 DEF WakeApproved, WakeRejected, ApplyPolicy
  <2>3. CASE \/ StartTask(r) \/ StartTaskTooLate(r) \/ GraphResumeCall(r) \/ ExecutorCall(r)
             \/ ExecutorDenied(r) \/ StreamEnds(r) \/ Finish(r) \/ TaskCancelled(r)
    BY <2>3 DEF StartTask, StartTaskTooLate, GraphResumeCall, ExecutorCall,
                ExecutorDenied, StreamEnds, Finish, TaskCancelled
  <2> QED
    BY <1>1, <2>1, <2>2, <2>3 DEF TaskStep
<1>2. ASSUME NEW r \in Runs, TaskFailure(r) \/ WaitTimesOut(r) \/ Client(r)
      PROVE  UNCHANGED approval
  BY <1>2 DEF TaskFailure, BuildFails, ErrorChunk, StreamRaises, WaitTimesOut, Client, CreateRun,
              CancelRun, ResumeRun
<1>3. ASSUME NEW c \in request, ResumeResolve(c)
      PROVE  Goal
  <2>1. CASE c.open
    <3>1. c.owner \in Runs /\ c.decision \in {"approve", "reject"}
      BY DEF TypeOK, Requests
    <3> QED
      BY <1>3, <2>1, <3>1 DEF Decides, ResumeResolve
  <2> QED
    BY <1>3, <2>1 DEF ResumeResolve
<1>4. CASE RequestStep
  BY <1>3, <1>4 DEF RequestStep, CancelWrite, ResumeRead, ResumeRejects, ResumeSpawns,
                    ResumeSignals
<1>5. CASE SweepStep
  <2>1. ASSUME NEW s \in sweeping, SweepResolve(s)
        PROVE  Goal
    <3>1. s.run \in Runs
      BY DEF TypeOK, Sweeps
    <3> QED
      BY <2>1, <3>1 DEF SweepResolve, Decides
  <2> QED
    BY <1>5, <2>1 DEF SweepStep, SweepExpired, SweepReadRun, SweepReadApproval,
                      SweepUpdateRun
<1>6. ASSUME NEW r \in Runs, CrashInsideSuspend(r)
      PROVE  Goal
  BY <1>6 DEF CrashInsideSuspend, Opens
<1>7. ASSUME NEW r \in Runs, CrashInsideWake(r)
      PROVE  Goal
  <2>1. CASE approval[r][waitsOn[r]] = "open"
    BY <1>7, <2>1 DEF CrashInsideWake, ApplyPolicy, Decides
  <2> QED
    BY <1>7, <2>1 DEF CrashInsideWake, ApplyPolicy
<1> QED
  BY <1>1, <1>2, <1>4, <1>5, <1>6, <1>7 DEF Next, Expire, Crash, Shutdown, vars

\* Opening finds the open row if there is one; deciding opens nothing.
LEMMA OneOpenStep ==
  ASSUME TypeOK, OneOpenApproval, [Next]_vars
  PROVE  OneOpenApproval'
<1> USE DEF TypeOK
<1>1. CASE UNCHANGED approval
  BY <1>1 DEF OneOpenApproval, OpenCalls
<1>2. ASSUME NEW r \in Runs, Opens(r)
      PROVE  OneOpenApproval'
  <2>1. PICK i \in Requested(r) : Decide(r, i, "open")
    BY <1>2 DEF Opens
  <2>2. \A q \in Runs, j \in Calls :
          approval'[q][j] = IF q = r /\ j = i THEN "open" ELSE approval[q][j]
    BY <2>1, DecideWrites DEF Decisions
  <2>3. \A j \in OpenCalls(r) : j = i
    BY <2>1 DEF Requested, OneOpenApproval
  <2> QED
    BY <2>2, <2>3 DEF OneOpenApproval, OpenCalls
<1>3. ASSUME NEW r \in Runs, NEW i, Decides(r, i)
      PROVE  OneOpenApproval'
  <2>1. PICK decision \in {"approve", "reject"} : Decide(r, i, decision)
    BY <1>3 DEF Decides
  <2>2. \A q \in Runs, j \in Calls :
          approval'[q][j] = IF q = r /\ j = i THEN decision ELSE approval[q][j]
    BY <2>1, DecideWrites DEF Decisions
  <2> QED
    BY <2>2 DEF OneOpenApproval, OpenCalls
<1> QED
  BY <1>1, <1>2, <1>3, ApprovalChanges

\* In every configuration, whatever the clients name and whether or not the
\* sweeper runs, a run has at most one open approval.
THEOREM OneOpen == Spec => []OneOpenApproval
<1>1. Init => TypeOK /\ OneOpenApproval
  <2> SUFFICES ASSUME Init
               PROVE  TypeOK /\ OneOpenApproval
    OBVIOUS
  <2>1. TypeOK
    BY CrashAssumption, GatedAssumption
       DEF Init, TypeOK, LiveTasks, Decisions, RunStates!RunStatuses, Requests, Sweeps
  <2>2. OneOpenApproval
    BY DEF Init, OneOpenApproval, OpenCalls
  <2> QED
    BY <2>1, <2>2
<1>2. (TypeOK /\ OneOpenApproval) /\ [Next]_vars => (TypeOK /\ OneOpenApproval)'
  BY TypeStep, OneOpenStep
<1> QED
  BY <1>1, <1>2, PTL DEF Spec

-----------------------------------------------------------------------------
(* The calls of a run, in every configuration: what a graph's checkpoint    *)
(* says it has made, and that a plugin's run is never asked for twice.      *)

\* An approval is that of a call which the run makes.
NoCallBeyond ==
  \A r \in Runs, i \in Calls : approval[r][i] # "none" => i <= GatedCalls[r]

\* Whoever is about to write an approval has found its row, and no plugin's run
\* is ever answered.
RowsAreFound ==
  /\ \A c \in request : c.step # "cancel" =>
       Mode[c.run] # "plugin" /\ c.call \in Calls /\ approval[c.owner][c.call] # "none"
  /\ \A a \in sweepList : approval[a[1]][a[2]] # "none"
  /\ \A s \in sweeping : approval[s.run][s.call] # "none"

Fresh(r) ==
  status[r] = "absent" => task[r] = "none" /\ \A i \in Calls : approval[r][i] = "none"

ExecutorWaits(r) == task[r] \in {"waiting", "timedOut"} => Mode[r] = "executor"

GraphCalls(r) ==
  Mode[r] = "graph" =>
    /\ pos[r] <= GatedCalls[r] /\ executed[r] = 1 .. pos[r]
    /\ status[r] = "completed" => pos[r] = GatedCalls[r]

PluginCalls(r) ==
  Mode[r] = "plugin" =>
    /\ pos[r] = 0 /\ status[r] # "suspended"
    /\ task[r] \in {"created", "streaming"} => \A i \in Calls : approval[r][i] = "none"
    /\ status[r] = "completed" => GatedCalls[r] = 0

CallsOf(r) == Fresh(r) /\ ExecutorWaits(r) /\ GraphCalls(r) /\ PluginCalls(r)

CallsInv == TypeOK /\ NoCallBeyond /\ RowsAreFound /\ \A r \in Runs : CallsOf(r)

\* A row stays, and is inserted for the call the run comes to, which it has ahead.
LEMMA RowsStay ==
  ASSUME CallsInv, [Next]_vars
  PROVE  /\ \A q \in Runs, j \in Calls : approval[q][j] # "none" => approval'[q][j] # "none"
         /\ \A q \in Runs, j \in Calls :
              approval[q][j] = "none" /\ approval'[q][j] # "none" =>
                Opens(q) /\ j <= GatedCalls[q] /\ j = pos[q] + 1
<1> DEFINE Goal ==
      /\ \A q \in Runs, j \in Calls : approval[q][j] # "none" => approval'[q][j] # "none"
      /\ \A q \in Runs, j \in Calls :
           approval[q][j] = "none" /\ approval'[q][j] # "none" =>
             Opens(q) /\ j <= GatedCalls[q] /\ j = pos[q] + 1
<1> USE DEF CallsInv, TypeOK
<1>1. CASE UNCHANGED approval
  BY <1>1
<1>2. ASSUME NEW r \in Runs, Opens(r)
      PROVE  Goal
  <2>1. PICK i \in Requested(r) : Decide(r, i, "open")
    BY <1>2 DEF Opens
  <2>2. \A q \in Runs, j \in Calls :
          approval'[q][j] = IF q = r /\ j = i THEN "open" ELSE approval[q][j]
    BY <2>1, DecideWrites DEF Decisions
  <2>3. CallAhead(r)
    BY <1>2 DEF Opens, GraphInterrupt, ExecutorSuspend, HitlUncaught, CrashInsideSuspend,
                Undecided
  <2>4. i \in Calls /\ approval[r][i] = "none" => i <= GatedCalls[r] /\ i = pos[r] + 1
    BY <2>1, <2>3, GatedAssumption DEF Requested, OpenCalls, CallAhead
  <2> QED
    BY <1>2, <2>2, <2>4
<1>3. ASSUME NEW r \in Runs, NEW i, Decides(r, i)
      PROVE  Goal
  <2>1. PICK decision \in {"approve", "reject"} : Decide(r, i, decision)
    BY <1>3 DEF Decides
  <2>2. \A q \in Runs, j \in Calls :
          approval'[q][j] = IF q = r /\ j = i THEN decision ELSE approval[q][j]
    BY <2>1, DecideWrites DEF Decisions
  <2>3. CASE \E s \in sweeping : SweepResolve(s)
    <3>1. PICK s \in sweeping : SweepResolve(s)
      BY <2>3
    <3>2. s.run \in Runs /\ s.call \in Calls /\ approval[s.run][s.call] # "none"
      BY DEF Sweeps, RowsAreFound
    <3>3. UNCHANGED approval \/ Decide(s.run, s.call, TimeoutAction)
      BY <3>1 DEF SweepResolve
    <3>4. CASE Decide(s.run, s.call, TimeoutAction)
      <4>1. \A q \in Runs, j \in Calls :
              approval'[q][j] = IF q = s.run /\ j = s.call THEN TimeoutAction ELSE approval[q][j]
        BY <3>2, <3>4, DecideWrites, SettingsAssumption DEF Decisions
      <4> QED
        BY <3>2, <4>1, SettingsAssumption
    <3> QED
      BY <1>1, <3>3, <3>4
  <2>4. CASE ~\E s \in sweeping : SweepResolve(s)
    <3>1. approval[r][i] # "none"
      BY <1>3, <2>4 DEF Decides, ResumeResolve, RowsAreFound
    <3> QED
      BY <2>2, <3>1
  <2> QED
    BY <2>3, <2>4
<1> QED
  BY <1>1, <1>2, <1>3, ApprovalChanges

LEMMA BeyondStep ==
  ASSUME CallsInv, [Next]_vars
  PROVE  NoCallBeyond'
BY RowsStay DEF CallsInv, NoCallBeyond

\* Where a handler that answers comes from: from itself one step earlier, or from
\* a client that found the run SUSPENDED and an approval to name.
LEMMA WhoAsks ==
  ASSUME TypeOK, [Next]_vars, NEW c \in request', c.step # "cancel"
  PROVE  \/ /\ c.call \in Calls /\ approval[c.owner][c.call] # "none"
            /\ status[c.run] = "suspended" /\ c.step = "read" /\ ~c.open
            /\ UNCHANGED <<approval, status, task>>
         \/ \E d \in request :
              /\ d.step # "cancel" /\ d.run = c.run /\ d.owner = c.owner /\ d.call = c.call
              /\ d = c \/ ResumeRead(d) \/ ResumeResolve(d)
<1> DEFINE Goal == \/ /\ c.call \in Calls /\ approval[c.owner][c.call] # "none"
                      /\ status[c.run] = "suspended" /\ c.step = "read" /\ ~c.open
                      /\ UNCHANGED <<approval, status, task>>
                   \/ \E d \in request :
                        /\ d.step # "cancel" /\ d.run = c.run
                        /\ d.owner = c.owner /\ d.call = c.call
                        /\ d = c \/ ResumeRead(d) \/ ResumeResolve(d)
<1>1. CASE UNCHANGED request
  BY <1>1
<1>2. ASSUME NEW r \in Runs, TaskStep(r) \/ TaskFailure(r) \/ WaitTimesOut(r)
      PROVE  UNCHANGED request
  BY <1>2 DEF TaskStep, TaskFailure, StartTask, StartTaskTooLate, GraphResumeCall,
    GraphInterrupt, ExecutorCall, ExecutorDenied, ExecutorSuspend, WakeApproved,
    WakeRejected, StreamEnds, Finish, TaskCancelled, BuildFails, HitlUncaught,
    ErrorChunk, StreamRaises, WaitTimesOut
<1>3. ASSUME NEW r \in Runs, Client(r)
      PROVE  Goal
  <2>1. CASE CancelRun(r) \/ \E execute \in BOOLEAN : CreateRun(r, execute)
    BY <1>1, <2>1 DEF CancelRun, CreateRun
  <2>2. ASSUME NEW owner \in Runs, NEW i \in Calls, NEW decision \in {"approve", "reject"},
               ResumeRun(r, owner, i, decision)
        PROVE  Goal
    <3>1. c = [step |-> "read", run |-> r, owner |-> owner, call |-> i,
               decision |-> decision, open |-> FALSE]
      BY <2>2 DEF ResumeRun
    <3>2. c.step = "read" /\ c.run = r /\ c.owner = owner /\ c.call = i /\ ~c.open
      BY <3>1
    <3>3. approval[owner][i] # "none" /\ status[r] = "suspended"
          /\ UNCHANGED <<approval, status, task>>
      BY <2>2, SettingsAssumption DEF ResumeRun
    <3> QED
      BY <3>2, <3>3
  <2> QED
    BY <1>3, <2>1, <2>2 DEF Client
<1>4. CASE RequestStep
  <2>1. PICK d \in request : \/ CancelWrite(d) \/ ResumeRead(d) \/ ResumeResolve(d)
                             \/ ResumeRejects(d) \/ ResumeSpawns(d) \/ ResumeSignals(d)
    BY <1>4 DEF RequestStep
  <2>2. d \in Requests
    BY DEF TypeOK
  <2>3. CASE ResumeRead(d)
    <3>1. c = [d EXCEPT !.step = "resolve", !.open = (approval[d.owner][d.call] = "open")]
      BY <2>3 DEF ResumeRead
    <3>2. d.step = "read" /\ d.run = c.run /\ d.owner = c.owner /\ d.call = c.call
      BY <2>2, <2>3, <3>1 DEF ResumeRead, Requests
    <3> QED
      BY <2>3, <3>2
  <2>4. CASE ResumeResolve(d)
    <3>1. c = [d EXCEPT !.step = "update"]
      BY <2>4 DEF ResumeResolve
    <3>2. d.step = "resolve" /\ d.run = c.run /\ d.owner = c.owner /\ d.call = c.call
      BY <2>2, <2>4, <3>1 DEF ResumeResolve, Requests
    <3> QED
      BY <2>4, <3>2
  <2>5. CASE CancelWrite(d) \/ ResumeRejects(d) \/ ResumeSpawns(d) \/ ResumeSignals(d)
    BY <2>5 DEF CancelWrite, ResumeRejects, ResumeSpawns, ResumeSignals
  <2> QED
    BY <2>1, <2>3, <2>4, <2>5
<1>5. CASE MemoryLost
  BY <1>5 DEF MemoryLost
<1>6. CASE SweepStep \/ \E r \in Runs, i \in Calls : Expire(r, i)
  BY <1>1, <1>6 DEF SweepStep, SweepExpired, SweepReadRun, SweepReadApproval, SweepResolve,
    SweepUpdateRun, Expire
<1> QED
  BY <1>1, <1>2, <1>3, <1>4, <1>5, <1>6
  DEF Next, Crash, Shutdown, CrashInsideSuspend, CrashInsideWake, vars

LEMMA RowsFoundStep ==
  ASSUME CallsInv, [Next]_vars
  PROVE  RowsAreFound'
<1> USE DEF CallsInv, TypeOK
<1>1. ASSUME NEW c \in request', c.step # "cancel"
      PROVE  Mode[c.run] # "plugin" /\ c.call \in Calls /\ approval'[c.owner][c.call] # "none"
  <2>1. c.run \in Runs /\ c.owner \in Runs
    BY TypeStep DEF Requests
  <2>2. Mode[c.run] # "plugin" /\ c.call \in Calls /\ approval[c.owner][c.call] # "none"
    <3>1. CASE \E d \in request : d.step # "cancel" /\ d.run = c.run /\ d.owner = c.owner
                                   /\ d.call = c.call
      BY <3>1 DEF RowsAreFound
    <3>2. CASE /\ status[c.run] = "suspended"
               /\ c.call \in Calls /\ approval[c.owner][c.call] # "none"
      BY <2>1, <3>2 DEF CallsOf, PluginCalls
    <3> QED
      BY <1>1, <3>1, <3>2, WhoAsks
  <2> QED
    BY <2>1, <2>2, RowsStay
<1>2. /\ \A a \in sweepList' : a \in Runs \X Calls /\ approval[a[1]][a[2]] # "none"
      /\ \A s \in sweeping' : s.run \in Runs /\ s.call \in Calls /\ approval[s.run][s.call] # "none"
  <2> DEFINE Goal ==
        /\ \A a \in sweepList' : a \in Runs \X Calls /\ approval[a[1]][a[2]] # "none"
        /\ \A s \in sweeping' :
             s.run \in Runs /\ s.call \in Calls /\ approval[s.run][s.call] # "none"
  <2> USE DEF RowsAreFound, Sweeps
  <2>1. CASE UNCHANGED sweepVars
    BY <2>1
  <2>2. CASE MemoryLost
    BY <2>2 DEF MemoryLost
  <2>3. CASE SweepExpired
    BY <2>3 DEF SweepExpired
  <2>4. ASSUME NEW a \in sweepList, SweepReadRun(a)
        PROVE  Goal
    <3>1. a \in Runs \X Calls /\ approval[a[1]][a[2]] # "none"
      OBVIOUS
    <3> QED
      BY <2>4, <3>1 DEF SweepReadRun
  <2>5. ASSUME NEW s \in sweeping, SweepReadApproval(s) \/ SweepResolve(s) \/ SweepUpdateRun(s)
        PROVE  Goal
    <3>1. s \in Sweeps /\ approval[s.run][s.call] # "none"
      OBVIOUS
    <3>2. ASSUME NEW t \in sweeping'
          PROVE  t.run = s.run /\ t.call = s.call
      <4>1. CASE SweepReadApproval(s)
        <5> DEFINE found == (approval[s.run][s.call] = "open")
        <5>1. t = [s EXCEPT !.step = "resolve", !.open = found]
          BY <3>2, <4>1 DEF SweepReadApproval
        <5> HIDE DEF found
        <5> QED
          BY <3>1, <5>1
      <4>2. CASE SweepResolve(s)
        <5>1. t = [s EXCEPT !.step = "update"]
          BY <3>2, <4>2 DEF SweepResolve
        <5> QED
          BY <3>1, <5>1
      <4>3. CASE SweepUpdateRun(s)
        BY <3>2, <4>3 DEF SweepUpdateRun
      <4> QED
        BY <2>5, <4>1, <4>2, <4>3
    <3>3. UNCHANGED sweepList
      BY <2>5 DEF SweepReadApproval, SweepResolve, SweepUpdateRun
    <3> QED
      BY <3>1, <3>2, <3>3
  <2>6. ASSUME NEW r \in Runs, TaskStep(r) \/ TaskFailure(r) \/ WaitTimesOut(r) \/ Client(r)
        PROVE  UNCHANGED sweepVars
    BY <2>6 DEF TaskStep, TaskFailure, StartTask, StartTaskTooLate, GraphResumeCall,
      GraphInterrupt, ExecutorCall, ExecutorDenied, ExecutorSuspend, WakeApproved,
      WakeRejected, StreamEnds, Finish, TaskCancelled, BuildFails, HitlUncaught,
      ErrorChunk, StreamRaises, WaitTimesOut, Client, CreateRun, CancelRun, ResumeRun
  <2>7. CASE RequestStep \/ \E r \in Runs, i \in Calls : Expire(r, i)
    BY <2>1, <2>7 DEF RequestStep, CancelWrite, ResumeRead, ResumeResolve, ResumeRejects,
      ResumeSpawns, ResumeSignals, Expire
  <2> QED
    BY <2>1, <2>2, <2>3, <2>4, <2>5, <2>6, <2>7
    DEF Next, SweepStep, Crash, Shutdown, CrashInsideSuspend, CrashInsideWake, vars
<1> QED
  BY <1>1, <1>2, RowsStay DEF RowsAreFound

\* How a step moves a run on, as far as its calls are concerned.
CallsMove(q) ==
  /\ status'[q] = "absent" => status[q] = "absent" /\ task'[q] \in {task[q], "none"}
  /\ task'[q] \in {"waiting", "timedOut"} =>
       task[q] \in {"waiting", "timedOut"} \/ Mode[q] = "executor"
  /\ status'[q] = "suspended" => status[q] = "suspended" \/ Mode[q] # "plugin"
  /\ task'[q] \in {"created", "streaming"} =>
       \/ task[q] \in {"created", "streaming"}
       \/ status[q] = "absent" \/ Mode[q] # "plugin"
  /\ status'[q] = "completed" =>
       status[q] = "completed" \/ pos[q] = GatedCalls[q] \/ Mode[q] = "executor"
  /\ \/ pos'[q] = pos[q] /\ executed'[q] = executed[q]
     \/ /\ Mode[q] = "graph" /\ pos[q] < GatedCalls[q] /\ pos'[q] = pos[q] + 1
        /\ executed'[q] = executed[q] \cup {pos[q] + 1}
     \/ /\ Mode[q] # "graph"
        /\ pos'[q] = 0 \/ (task[q] = "streaming" /\ approval[q][pos[q] + 1] = "approve"
                              /\ pos[q] < GatedCalls[q])

LEMMA TaskMoves ==
  ASSUME CallsInv, NEW r \in Runs, TaskStep(r) \/ TaskFailure(r) \/ WaitTimesOut(r),
         NEW q \in Runs
  PROVE  CallsMove(q)
<1> USE DEF CallsInv, TypeOK, Running, CallAhead, CallsMove
<1>1. CASE StartTask(r)
  BY <1>1 DEF StartTask, ActiveStatuses
<1>2. CASE StartTaskTooLate(r) \/ BuildFails(r) \/ Finish(r)
  BY <1>2 DEF StartTaskTooLate, BuildFails, Finish
<1>3. CASE GraphResumeCall(r)
  BY <1>3 DEF GraphResumeCall
<1>4. CASE GraphInterrupt(r) \/ ExecutorSuspend(r)
  BY <1>4 DEF GraphInterrupt, ExecutorSuspend
<1>5. CASE ExecutorCall(r)
  BY <1>5 DEF ExecutorCall
<1>6. CASE ExecutorDenied(r) \/ ErrorChunk(r) \/ StreamEnds(r)
  BY <1>6 DEF ExecutorDenied, ErrorChunk, StreamEnds, FinalWrite
<1>7. CASE StreamRaises(r) \/ HitlUncaught(r)
  BY <1>7 DEF StreamRaises, HitlUncaught, RaiseWrite
<1>8. CASE TaskCancelled(r)
  BY <1>8 DEF TaskCancelled
<1>9. CASE WakeApproved(r) \/ WakeRejected(r)
  <2>1. Mode[r] = "executor"
    BY <1>9 DEF WakeApproved, WakeRejected, Awake, CallsOf, ExecutorWaits
  <2>2. UNCHANGED <<pos, executed>>
    BY <1>9 DEF WakeApproved, WakeRejected
  <2>3. CASE q # r
    BY <1>9, <2>2, <2>3 DEF WakeApproved, WakeRejected, FinalWrite
  <2>4. CASE q = r
    <3>1. CASE WakeApproved(r)
      BY <2>1, <2>2, <2>4, <3>1 DEF WakeApproved
    <3>2. CASE WakeRejected(r)
      BY <2>1, <2>2, <2>4, <3>2 DEF WakeRejected, FinalWrite
    <3> QED
      BY <1>9, <3>1, <3>2
  <2> QED
    BY <2>3, <2>4
<1>10. CASE WaitTimesOut(r)
  <2>1. /\ task[r] = "waiting" /\ task' = [task EXCEPT ![r] = "timedOut"]
        /\ UNCHANGED <<status, pos, executed>>
    BY <1>10 DEF WaitTimesOut
  <2>2. status[r] # "absent"
    BY <2>1 DEF CallsOf, Fresh
  <2> QED
    BY <2>1, <2>2
<1> QED
  BY <1>1, <1>2, <1>3, <1>4, <1>5, <1>6, <1>7, <1>8, <1>9, <1>10 DEF TaskStep, TaskFailure

LEMMA OtherMoves ==
  ASSUME CallsInv, [Next]_vars, NEW q \in Runs
  PROVE  CallsMove(q)
<1> USE DEF CallsInv, TypeOK, CallsMove
<1>1. ASSUME NEW r \in Runs, Client(r)
      PROVE  CallsMove(q)
  BY <1>1 DEF Client, CreateRun, CancelRun, ResumeRun
<1>2. ASSUME NEW c \in request, ResumeSpawns(c)
      PROVE  CallsMove(q)
  <2>1. c.run \in Runs /\ Mode[c.run] # "plugin"
    BY <1>2 DEF Requests, RowsAreFound, ResumeSpawns
  <2> QED
    BY <1>2, <2>1 DEF ResumeSpawns
<1>3. ASSUME NEW c \in request,
             \/ CancelWrite(c) \/ ResumeRead(c) \/ ResumeResolve(c)
             \/ ResumeRejects(c) \/ ResumeSignals(c)
      PROVE  CallsMove(q)
  BY <1>3 DEF CancelWrite, ResumeRead, ResumeResolve, ResumeRejects, ResumeSignals
<1>4. CASE SweepStep \/ \E r \in Runs, i \in Calls : Expire(r, i)
  BY <1>4 DEF SweepStep, SweepExpired, SweepReadRun, SweepReadApproval, SweepResolve,
    SweepUpdateRun, Expire
<1>5. CASE Crash \/ Shutdown
  BY <1>5 DEF Crash, Shutdown, MemoryLost
<1>6. ASSUME NEW r \in Runs, CrashInsideSuspend(r) \/ CrashInsideWake(r)
      PROVE  CallsMove(q)
  BY <1>6 DEF CrashInsideSuspend, CrashInsideWake, MemoryLost
<1>7. CASE UNCHANGED vars
  BY <1>7 DEF vars
<1> QED
  BY <1>1, <1>2, <1>3, <1>4, <1>5, <1>6, <1>7, TaskMoves DEF Next, RequestStep

\* A run that asks for a decision leaves its stream.
LEMMA WhoOpens ==
  ASSUME TypeOK, NEW q \in Runs, Opens(q)
  PROVE  task[q] = "streaming" /\ task'[q] \notin {"created", "streaming"}
BY DEF TypeOK, Opens, GraphInterrupt, ExecutorSuspend, HitlUncaught, CrashInsideSuspend,
       MemoryLost, Running, RaiseWrite

LEMMA CallsStep ==
  ASSUME CallsInv, [Next]_vars, NEW q \in Runs
  PROVE  CallsOf(q)'
<1> USE DEF CallsInv, TypeOK
<1>1. CallsMove(q) /\ CallsOf(q)
  BY OtherMoves
<1>2. ASSUME NEW j \in Calls, approval'[q][j] # "none"
      PROVE  \/ approval[q][j] # "none"
             \/ task[q] = "streaming" /\ task'[q] \notin {"created", "streaming"}
  BY <1>2, RowsStay, WhoOpens
<1>3. pos[q] \in Nat /\ GatedCalls[q] \in 0 .. MaxGated /\ MaxGated \in Nat
  BY GatedAssumption
<1>4. Fresh(q)'
  BY <1>1, <1>2 DEF CallsOf, Fresh, CallsMove
<1>5. ExecutorWaits(q)'
  BY <1>1 DEF CallsOf, ExecutorWaits, CallsMove
<1>6. GraphCalls(q)'
  <2> SUFFICES ASSUME Mode[q] = "graph"
               PROVE  GraphCalls(q)'
    BY DEF GraphCalls
  <2>1. /\ pos[q] <= GatedCalls[q] /\ executed[q] = 1 .. pos[q]
        /\ status[q] = "completed" => pos[q] = GatedCalls[q]
    BY <1>1 DEF CallsOf, GraphCalls
  <2>2. /\ status'[q] = "completed" => pos[q] = GatedCalls[q]
        /\ \/ pos'[q] = pos[q] /\ executed'[q] = executed[q]
           \/ /\ pos[q] < GatedCalls[q] /\ pos'[q] = pos[q] + 1
              /\ executed'[q] = executed[q] \cup {pos[q] + 1}
    BY <1>1, <2>1 DEF CallsMove
  <2>3. 1 .. (pos[q] + 1) = (1 .. pos[q]) \cup {pos[q] + 1}
    BY <1>3
  <2>4. CASE pos'[q] = pos[q] /\ executed'[q] = executed[q]
    BY <2>1, <2>2, <2>4 DEF GraphCalls
  <2>5. CASE /\ pos[q] < GatedCalls[q] /\ pos'[q] = pos[q] + 1
             /\ executed'[q] = executed[q] \cup {pos[q] + 1}
    <3>1. pos'[q] <= GatedCalls[q] /\ status'[q] # "completed"
      BY <1>3, <2>2, <2>5
    <3>2. executed'[q] = 1 .. pos'[q]
      BY <2>1, <2>3, <2>5
    <3> QED
      BY <3>1, <3>2 DEF GraphCalls
  <2> QED
    BY <2>2, <2>4, <2>5
<1>7. PluginCalls(q)'
  <2> SUFFICES ASSUME Mode[q] = "plugin"
               PROVE  PluginCalls(q)'
    BY DEF PluginCalls
  <2>1. pos'[q] = 0
    <3>1. pos[q] = 0 /\ (task[q] = "streaming" => \A i \in Calls : approval[q][i] = "none")
      BY <1>1 DEF CallsOf, PluginCalls
    <3>2. \/ pos'[q] = pos[q] \/ pos'[q] = 0
          \/ task[q] = "streaming" /\ approval[q][pos[q] + 1] = "approve" /\ pos[q] < GatedCalls[q]
      BY <1>1 DEF CallsMove
    <3>3. pos[q] < GatedCalls[q] => pos[q] + 1 \in Calls
      BY <1>3 DEF Calls
    <3> QED
      BY <3>1, <3>2, <3>3
  <2>2. task'[q] \in {"created", "streaming"} => \A i \in Calls : approval'[q][i] = "none"
    BY <1>1, <1>2 DEF CallsOf, PluginCalls, Fresh, CallsMove
  <2> QED
    BY <1>1, <2>1, <2>2 DEF CallsOf, PluginCalls, CallsMove
<1> QED
  BY <1>4, <1>5, <1>6, <1>7 DEF CallsOf

LEMMA CallsInvariant == Spec => []CallsInv
<1>1. Init => CallsInv
  <2> SUFFICES ASSUME Init
               PROVE  CallsInv
    OBVIOUS
  <2>1. TypeOK
    BY CrashAssumption, GatedAssumption
       DEF Init, TypeOK, LiveTasks, Decisions, RunStates!RunStatuses, Requests, Sweeps
  <2>2. NoCallBeyond /\ RowsAreFound
    BY DEF Init, NoCallBeyond, RowsAreFound
  <2>3. \A r \in Runs : CallsOf(r)
    <3> SUFFICES ASSUME NEW r \in Runs
                 PROVE  CallsOf(r)
      OBVIOUS
    <3>1. /\ status[r] = "absent" /\ task[r] = "none" /\ pos[r] = 0 /\ executed[r] = {}
          /\ \A i \in Calls : approval[r][i] = "none"
      BY DEF Init
    <3>2. 0 <= GatedCalls[r] /\ 1 .. 0 = {}
      BY GatedAssumption
    <3> QED
      BY <3>1, <3>2 DEF CallsOf, Fresh, ExecutorWaits, GraphCalls, PluginCalls
  <2> QED
    BY <2>1, <2>2, <2>3 DEF CallsInv
<1>2. CallsInv /\ [Next]_vars => CallsInv'
  <2> SUFFICES ASSUME CallsInv, [Next]_vars
               PROVE  CallsInv'
    OBVIOUS
  <2>1. TypeOK'
    BY TypeStep DEF CallsInv
  <2> QED
    BY <2>1, BeyondStep, RowsFoundStep, CallsStep DEF CallsInv
<1> QED
  BY <1>1, <1>2, PTL DEF Spec

\* However often a graph run is interrupted, answered, swept, continued and
\* restarted, and whoever answers, once it is COMPLETED it has made every gated
\* call of its graph.
THEOREM GraphRunCompletes == Spec => []GraphRunMadeItsCalls
<1>1. CallsInv => GraphRunMadeItsCalls
  BY DEF CallsInv, CallsOf, GraphCalls, GraphRunMadeItsCalls
<1> QED
  BY <1>1, CallsInvariant, PTL

\* No run waits in its tool executor.
NoExecutor == \A r \in Runs : Mode[r] # "executor"

\* A COMPLETED run has made every call that was approved, with the sweeper or
\* without, whoever answers: a graph's run has made all its calls, and a plugin's
\* that made any call would have failed at it.
THEOREM ApprovedCallsAreMade ==
  ASSUME NoExecutor
  PROVE  Spec => []ApprovedCallIsMade
<1>1. CallsInv => ApprovedCallIsMade
  <2> SUFFICES ASSUME CallsInv, NEW r \in Runs, NEW i \in Calls,
                      status[r] = "completed", approval[r][i] = "approve"
               PROVE  i \in executed[r]
    BY DEF ApprovedCallIsMade
  <2>1. i <= GatedCalls[r] /\ CallsOf(r) /\ i \in 1 .. MaxGated
    BY DEF CallsInv, NoCallBeyond, Calls
  <2>2. Mode[r] = "graph"
    <3>1. ASSUME Mode[r] = "plugin"
          PROVE  FALSE
      BY <2>1, <3>1, GatedAssumption DEF CallsOf, PluginCalls
    <3> QED
      BY <3>1, ModeAssumption DEF NoExecutor
  <2> QED
    BY <2>1, <2>2, GatedAssumption DEF CallsOf, GraphCalls
<1> QED
  BY <1>1, CallsInvariant, PTL

-----------------------------------------------------------------------------
(* Without the sweeper: no decision is replaced, whatever approvals clients *)
(* name and whatever a timeout decides.                                     *)

\* The steps that remain when the sweeper does not run.
UnsweptStep ==
  \/ \E r \in Runs : TaskStep(r) \/ TaskFailure(r) \/ WaitTimesOut(r) \/ Client(r)
  \/ RequestStep
  \/ \E r \in Runs, i \in Calls : Expire(r, i)
  \/ Crash
  \/ \E r \in Runs : CrashInsideSuspend(r) \/ CrashInsideWake(r)
  \/ Shutdown
  \/ UNCHANGED vars

LEMMA UnsweptNext ==
  ASSUME SweepIdle, ~Sweeper, [Next]_vars
  PROVE  UnsweptStep
BY DEF SweepIdle, SweepStep, SweepExpired, SweepReadRun, SweepReadApproval,
       SweepResolve, SweepUpdateRun, Next, UnsweptStep

\* A handler begins when none is half-way, and goes on as itself.
LEMMA OneRequestStep ==
  ASSUME OneRequest, SweepIdle, ~Sweeper, [Next]_vars
  PROVE  OneRequest'
<1> USE DEF OneRequest
<1>1. ASSUME NEW r \in Runs, TaskStep(r) \/ TaskFailure(r) \/ WaitTimesOut(r)
      PROVE  UNCHANGED request
  BY <1>1 DEF TaskStep, TaskFailure, StartTask, StartTaskTooLate, GraphResumeCall,
    GraphInterrupt, ExecutorCall, ExecutorDenied, ExecutorSuspend, WakeApproved,
    WakeRejected, StreamEnds, Finish, TaskCancelled, BuildFails, HitlUncaught,
    ErrorChunk, StreamRaises, WaitTimesOut
<1>2. ASSUME NEW r \in Runs, Client(r)
      PROVE  OneRequest'
  BY <1>2 DEF Client, CreateRun, CancelRun, ResumeRun
<1>3. CASE RequestStep
  BY <1>3 DEF RequestStep, CancelWrite, ResumeRead, ResumeResolve, ResumeRejects,
    ResumeSpawns, ResumeSignals
<1>4. CASE MemoryLost
  BY <1>4 DEF MemoryLost
<1> QED
  BY <1>1, <1>2, <1>3, <1>4, UnsweptNext
  DEF UnsweptStep, Expire, Crash, Shutdown, CrashInsideSuspend, CrashInsideWake, vars

\* The sweeper stays idle.
LEMMA IdleStep ==
  ASSUME SweepIdle, ~Sweeper, [Next]_vars
  PROVE  SweepIdle'
<1>1. ASSUME NEW r \in Runs, TaskStep(r) \/ TaskFailure(r) \/ WaitTimesOut(r) \/ Client(r)
      PROVE  UNCHANGED sweepVars
  BY <1>1 DEF TaskStep, TaskFailure, StartTask, StartTaskTooLate, GraphResumeCall,
    GraphInterrupt, ExecutorCall, ExecutorDenied, ExecutorSuspend, WakeApproved,
    WakeRejected, StreamEnds, Finish, TaskCancelled, BuildFails, HitlUncaught,
    ErrorChunk, StreamRaises, WaitTimesOut, Client, CreateRun, CancelRun, ResumeRun
<1>2. CASE RequestStep
  BY <1>2 DEF RequestStep, CancelWrite, ResumeRead, ResumeResolve, ResumeRejects,
    ResumeSpawns, ResumeSignals, SweepIdle
<1>3. CASE MemoryLost
  BY <1>3 DEF MemoryLost, SweepIdle
<1> QED
  BY <1>1, <1>2, <1>3, UnsweptNext
  DEF UnsweptStep, Expire, Crash, Shutdown, CrashInsideSuspend, CrashInsideWake, vars, SweepIdle

\* Until a handler has written its answer, what it has read is so.
AnswerIsCurrent ==
  \A c \in request : c.step # "cancel" =>
    /\ status[c.run] = "suspended"
    /\ c.step = "resolve" /\ c.open => approval[c.owner][c.call] = "open"

\* A graph that asks for a call has no row for it: it asked only once.
AskedOnce(r) ==
  Mode[r] = "graph" =>
    /\ status[r] = "suspended" => task[r] = "none"
    /\ \A i \in Calls : i > pos[r] + 1 => approval[r][i] = "none"
    /\ task[r] \in {"created", "streaming"} /\ ~resumed[r] /\ pos[r] + 1 \in Calls =>
         approval[r][pos[r] + 1] = "none"

AnswerInv ==
  CallsInv /\ SweepIdle /\ OneRequest /\ AnswerIsCurrent /\ \A r \in Runs : AskedOnce(r)

\* While a handler is half-way nobody else writes.
LEMMA HandlerAlone ==
  ASSUME AnswerInv, ~Sweeper, [Next]_vars, NEW d \in request, request' # {}
  PROVE  \/ UNCHANGED <<status, approval, request>>
         \/ ResumeRead(d) \/ ResumeResolve(d)
<1> USE DEF AnswerInv
<1>1. ASSUME NEW r \in Runs, TaskStep(r) \/ TaskFailure(r) \/ WaitTimesOut(r) \/ Client(r)
      PROVE  FALSE
  BY <1>1 DEF TaskStep, TaskFailure, StartTask, StartTaskTooLate, GraphResumeCall,
    GraphInterrupt, ExecutorCall, ExecutorDenied, ExecutorSuspend, WakeApproved, Awake,
    WakeRejected, StreamEnds, Finish, TaskCancelled, BuildFails, HitlUncaught, Running, LoopFree,
    ErrorChunk, StreamRaises, WaitTimesOut, Client, CreateRun, CancelRun, ResumeRun
<1>2. ASSUME NEW c \in request,
             \/ CancelWrite(c) \/ ResumeRead(c) \/ ResumeResolve(c)
             \/ ResumeRejects(c) \/ ResumeSpawns(c) \/ ResumeSignals(c)
      PROVE  ResumeRead(d) \/ ResumeResolve(d)
  <2>1. c = d
    BY DEF OneRequest
  <2> QED
    BY <1>2, <2>1 DEF CancelWrite, ResumeRejects, ResumeSpawns, ResumeSignals
<1>3. ~MemoryLost
  BY DEF MemoryLost
<1> QED
  BY <1>1, <1>2, <1>3, UnsweptNext
  DEF UnsweptStep, RequestStep, Expire, Crash, Shutdown, CrashInsideSuspend, CrashInsideWake, vars

LEMMA AnswerCurrentStep ==
  ASSUME AnswerInv, ~Sweeper, [Next]_vars
  PROVE  AnswerIsCurrent'
<1> USE DEF AnswerInv, CallsInv, TypeOK
<1> SUFFICES ASSUME NEW c \in request', c.step # "cancel"
             PROVE  /\ status'[c.run] = "suspended"
                    /\ c.step = "resolve" /\ c.open => approval'[c.owner][c.call] = "open"
  BY DEF AnswerIsCurrent
<1>1. CASE /\ status[c.run] = "suspended" /\ c.step = "read" /\ UNCHANGED status
  BY <1>1
<1>2. ASSUME NEW d \in request, d.step # "cancel", d.run = c.run, d.owner = c.owner,
             d.call = c.call, d = c \/ ResumeRead(d) \/ ResumeResolve(d)
      PROVE  /\ status'[c.run] = "suspended"
             /\ c.step = "resolve" /\ c.open => approval'[c.owner][c.call] = "open"
  <2>1. status[c.run] = "suspended"
    BY <1>2 DEF AnswerIsCurrent
  <2>2. CASE ResumeRead(d)
    <3> DEFINE found == (approval[d.owner][d.call] = "open")
    <3>1. /\ c = [d EXCEPT !.step = "resolve", !.open = found]
          /\ UNCHANGED <<status, approval>>
      BY <2>2 DEF ResumeRead
    <3> HIDE DEF found
    <3>2. c.open = found
      BY <3>1 DEF Requests
    <3> QED
      BY <1>2, <2>1, <3>1, <3>2 DEF found
  <2>3. CASE ResumeResolve(d)
    <3>1. c = [d EXCEPT !.step = "update"] /\ UNCHANGED status
      BY <2>3 DEF ResumeResolve
    <3>2. c.step = "update"
      BY <3>1 DEF Requests
    <3> QED
      BY <2>1, <3>1, <3>2
  <2>4. CASE UNCHANGED <<status, approval, request>>
    BY <2>4 DEF AnswerIsCurrent
  <2> QED
    BY <2>2, <2>3, <2>4, HandlerAlone
<1> QED
  BY <1>1, <1>2, WhoAsks

\* How a graph's run comes to ask.
Asks(q) ==
  /\ status'[q] = "suspended" =>
       task'[q] = "none" \/ (status[q] = "suspended" /\ task'[q] = task[q])
  /\ task'[q] \in {"created", "streaming"} /\ ~resumed'[q] =>
       \/ task[q] \in {"created", "streaming"} /\ ~resumed[q] /\ pos'[q] = pos[q]
       \/ pos'[q] = pos[q] + 1
       \/ status[q] = "absent"

LEMMA GraphAsks ==
  ASSUME AnswerInv, ~Sweeper, [Next]_vars, NEW q \in Runs, Mode[q] = "graph"
  PROVE  Asks(q)
<1> USE DEF AnswerInv, CallsInv, TypeOK, Asks, Running, LiveTasks
<1>1. ASSUME NEW r \in Runs, TaskStep(r) \/ TaskFailure(r) \/ WaitTimesOut(r)
      PROVE  Asks(q)
  <2>0. task[r] # "none" => status[r] # "suspended" \/ Mode[r] # "graph"
    BY DEF AskedOnce
  <2>1. CASE StartTask(r)
    BY <2>1 DEF StartTask
  <2>2. CASE StartTaskTooLate(r) \/ BuildFails(r) \/ Finish(r)
    BY <2>2 DEF StartTaskTooLate, BuildFails, Finish
  <2>3. CASE GraphResumeCall(r)
    BY <2>0, <2>3 DEF GraphResumeCall
  <2>4. CASE GraphInterrupt(r) \/ ExecutorSuspend(r)
    BY <2>4 DEF GraphInterrupt, ExecutorSuspend
  <2>5. CASE ExecutorCall(r)
    BY <2>5 DEF ExecutorCall
  <2>6. CASE ExecutorDenied(r) \/ ErrorChunk(r) \/ StreamEnds(r)
    BY <2>0, <2>6 DEF ExecutorDenied, ErrorChunk, StreamEnds, FinalWrite
  <2>7. CASE StreamRaises(r) \/ HitlUncaught(r)
    BY <2>0, <2>7 DEF StreamRaises, HitlUncaught, RaiseWrite
  <2>8. CASE TaskCancelled(r)
    BY <2>8 DEF TaskCancelled
  <2>9. CASE WakeApproved(r) \/ WakeRejected(r) \/ WaitTimesOut(r)
    <3>1. r # q
      BY <2>9 DEF WakeApproved, WakeRejected, WaitTimesOut, Awake, CallsOf, ExecutorWaits
    <3> QED
      BY <2>9, <3>1 DEF WakeApproved, WakeRejected, WaitTimesOut, FinalWrite
  <2> QED
    BY <1>1, <2>1, <2>2, <2>3, <2>4, <2>5, <2>6, <2>7, <2>8, <2>9 DEF TaskStep, TaskFailure
<1>2. ASSUME NEW r \in Runs, Client(r)
      PROVE  Asks(q)
  BY <1>2 DEF Client, CreateRun, CancelRun, ResumeRun
<1>3. ASSUME NEW c \in request, ResumeSpawns(c)
      PROVE  Asks(q)
  <2>1. c.run \in Runs /\ status[c.run] = "suspended"
    BY <1>3 DEF Requests, AnswerIsCurrent, ResumeSpawns
  <2>2. c.run = q => task[q] = "none"
    BY <2>1 DEF AskedOnce
  <2> QED
    BY <1>3, <2>1, <2>2 DEF ResumeSpawns
<1>4. ASSUME NEW c \in request,
             \/ CancelWrite(c) \/ ResumeRead(c) \/ ResumeResolve(c)
             \/ ResumeRejects(c) \/ ResumeSignals(c)
      PROVE  Asks(q)
  BY <1>4 DEF CancelWrite, ResumeRead, ResumeResolve, ResumeRejects, ResumeSignals
<1>5. CASE MemoryLost
  BY <1>5 DEF MemoryLost
<1> QED
  BY <1>1, <1>2, <1>3, <1>4, <1>5, UnsweptNext
  DEF UnsweptStep, RequestStep, Expire, Crash, Shutdown, CrashInsideSuspend, CrashInsideWake, vars

LEMMA AskedOnceStep ==
  ASSUME AnswerInv, ~Sweeper, [Next]_vars, NEW q \in Runs
  PROVE  AskedOnce(q)'
<1> USE DEF AnswerInv, CallsInv, TypeOK
<1> SUFFICES ASSUME Mode[q] = "graph"
             PROVE  AskedOnce(q)'
  BY DEF AskedOnce
<1>1. Asks(q) /\ CallsMove(q) /\ AskedOnce(q)
  BY GraphAsks, OtherMoves
<1>2. pos[q] \in Nat /\ (pos'[q] = pos[q] \/ pos'[q] = pos[q] + 1)
  BY <1>1 DEF CallsMove
<1>3. ASSUME NEW i \in Calls, approval[q][i] = "none", approval'[q][i] # "none"
      PROVE  i = pos[q] + 1 /\ task'[q] \notin {"created", "streaming"}
  BY <1>3, RowsStay, WhoOpens
<1>4. \A i \in Calls : i > pos'[q] + 1 => approval'[q][i] = "none"
  <2>1. ASSUME NEW i \in Calls, i > pos'[q] + 1
        PROVE  i > pos[q] + 1
    BY <1>2, <2>1 DEF Calls
  <2> QED
    BY <1>1, <1>2, <1>3, <2>1 DEF AskedOnce, Calls
<1>5. ASSUME task'[q] \in {"created", "streaming"}, ~resumed'[q], pos'[q] + 1 \in Calls
      PROVE  approval'[q][pos'[q] + 1] = "none"
  <2>1. approval[q][pos'[q] + 1] = "none"
    <3>1. CASE status[q] = "absent"
      BY <1>5, <3>1 DEF CallsOf, Fresh
    <3>2. CASE pos'[q] = pos[q] + 1
      BY <1>1, <1>2, <1>5, <3>2 DEF AskedOnce
    <3>3. CASE task[q] \in {"created", "streaming"} /\ ~resumed[q] /\ pos'[q] = pos[q]
      BY <1>1, <1>5, <3>3 DEF AskedOnce
    <3> QED
      BY <1>1, <1>5, <3>1, <3>2, <3>3 DEF Asks
  <2> QED
    BY <1>3, <1>5, <2>1
<1>6. status'[q] = "suspended" => task'[q] = "none"
  BY <1>1 DEF Asks, AskedOnce
<1> QED
  BY <1>4, <1>5, <1>6 DEF AskedOnce

\* A row that is opened was not decided, and a decision is written only over
\* an open row: the handler that read it open is the only writer.
LEMMA DecisionsStay ==
  ASSUME AnswerInv, ~Sweeper, [Next]_vars
  PROVE  \A q \in Runs, j \in Calls :
           approval[q][j] \in {"approve", "reject"} => approval'[q][j] = approval[q][j]
<1> DEFINE Goal == \A q \in Runs, j \in Calls :
                     approval[q][j] \in {"approve", "reject"} => approval'[q][j] = approval[q][j]
<1> USE DEF AnswerInv, CallsInv, TypeOK
<1>1. ASSUME NEW r \in Runs, Opens(r), NEW i \in Requested(r), i \in Calls
      PROVE  approval[r][i] \notin {"approve", "reject"}
  <2>1. CASE OpenCalls(r) # {}
    BY <1>1, <2>1 DEF Requested, OpenCalls
  <2>2. CASE OpenCalls(r) = {} /\ Mode[r] = "graph"
    BY <1>1, <2>2 DEF Requested, Opens, GraphInterrupt, ExecutorSuspend, HitlUncaught,
      CrashInsideSuspend, Running, AskedOnce
  <2>3. CASE OpenCalls(r) = {} /\ Mode[r] # "graph"
    BY <1>1, <2>3 DEF Requested, Opens, GraphInterrupt, ExecutorSuspend, HitlUncaught,
      CrashInsideSuspend, Undecided
  <2> QED
    BY <2>1, <2>2, <2>3
<1>2. ASSUME NEW r \in Runs, Opens(r)
      PROVE  Goal
  <2>1. PICK i \in Requested(r) : Decide(r, i, "open")
    BY <1>2 DEF Opens
  <2>2. \A q \in Runs, j \in Calls :
          approval'[q][j] = IF q = r /\ j = i THEN "open" ELSE approval[q][j]
    BY <2>1, DecideWrites DEF Decisions
  <2> QED
    BY <1>1, <1>2, <2>2
<1>3. ASSUME NEW r \in Runs, NEW i, Decides(r, i)
      PROVE  Goal
  <2>1. PICK decision \in {"approve", "reject"} : Decide(r, i, decision)
    BY <1>3 DEF Decides
  <2>2. \A q \in Runs, j \in Calls :
          approval'[q][j] = IF q = r /\ j = i THEN decision ELSE approval[q][j]
    BY <2>1, DecideWrites DEF Decisions
  <2>3. approval[r][i] = "open"
    BY <1>3 DEF Decides, AnswerIsCurrent, ResumeResolve, SweepIdle
  <2> QED
    BY <2>2, <2>3
<1> QED
  BY <1>2, <1>3, ApprovalChanges

LEMMA AnswerInvariant ==
  ASSUME ~Sweeper
  PROVE  Spec => []AnswerInv
<1>1. Init => SweepIdle /\ OneRequest /\ AnswerIsCurrent /\ \A r \in Runs : AskedOnce(r)
  BY DEF Init, SweepIdle, OneRequest, AnswerIsCurrent, AskedOnce
<1>2. ASSUME AnswerInv, [Next]_vars
      PROVE  (SweepIdle /\ OneRequest /\ AnswerIsCurrent /\ \A r \in Runs : AskedOnce(r))'
  <2>1. SweepIdle' /\ OneRequest'
    BY <1>2, IdleStep, OneRequestStep DEF AnswerInv
  <2>2. AnswerIsCurrent' /\ \A r \in Runs : AskedOnce(r)'
    BY <1>2, AnswerCurrentStep, AskedOnceStep
  <2> QED
    BY <2>1, <2>2
<1>3. CallsInv /\ SweepIdle /\ OneRequest /\ AnswerIsCurrent /\ (\A r \in Runs : AskedOnce(r))
        <=> AnswerInv
  BY DEF AnswerInv
<1> QED
  BY <1>1, <1>2, <1>3, CallsInvariant, PTL DEF Spec

\* Without the sweeper a decision is never replaced or withdrawn, though the
\* clients name any approval and race each other and the run's own timeout,
\* whatever that timeout decides and whenever the process stops.
THEOREM DecisionsAreFinal ==
  ASSUME ~Sweeper
  PROVE  Spec => DecisionIsFinal
<1>1. ASSUME AnswerInv, [Next]_vars
      PROVE  [\A r \in Runs, i \in Calls :
                approval[r][i] \in {"approve", "reject"} =>
                  approval'[r][i] = approval[r][i]]_vars
  BY <1>1, DecisionsStay
<1> QED
  BY <1>1, AnswerInvariant, PTL DEF Spec, DecisionIsFinal

-----------------------------------------------------------------------------
(* Without the sweeper: who is suspended can be answered.  What a timeout   *)
(* decides matters only to a run that waits in its tool executor.           *)

\* A gated call ahead is a call.
LEMMA AheadIsCall ==
  ASSUME TypeOK, NEW r \in Runs, CallAhead(r)
  PROVE  pos[r] + 1 \in Calls
BY GatedAssumption DEF TypeOK, CallAhead, Calls

\* A restart is counted.
LEMMA RestartCounts == TypeOK /\ MemoryLost => crashes' # 0
BY CrashAssumption DEF TypeOK, MemoryLost

\* Steps without a restart leave the count alone.
LEMMA CrashesStay ==
  ASSUME TypeOK, SweepIdle, ~Sweeper, [Next]_vars, crashes' = 0
  PROVE  crashes = 0
<1>1. ~MemoryLost
  BY RestartCounts
<1> QED
  BY <1>1, UnsweptNext
  DEF UnsweptStep, Crash, Shutdown, CrashInsideSuspend, CrashInsideWake, vars, Expire,
    TaskStep, TaskFailure, StartTask, StartTaskTooLate, GraphResumeCall,
    GraphInterrupt, ExecutorCall, ExecutorDenied, ExecutorSuspend, WakeApproved,
    WakeRejected, StreamEnds, Finish, TaskCancelled, BuildFails, HitlUncaught,
    ErrorChunk, StreamRaises, WaitTimesOut, Client, CreateRun, CancelRun, ResumeRun,
    RequestStep, CancelWrite, ResumeRead, ResumeResolve, ResumeRejects,
    ResumeSpawns, ResumeSignals

\* Which steps of a task write SUSPENDED.
LEMMA WhoSuspends ==
  ASSUME TypeOK, SweepIdle, ~Sweeper, [Next]_vars, NEW q \in Runs,
         status'[q] = "suspended", status[q] # "suspended"
  PROVE  GraphInterrupt(q) \/ ExecutorSuspend(q)
<1> USE DEF TypeOK
<1>1. ASSUME NEW r \in Runs, TaskStep(r) \/ TaskFailure(r) \/ WaitTimesOut(r)
      PROVE  GraphInterrupt(q) \/ ExecutorSuspend(q)
  <2>1. CASE \/ StartTask(r) \/ StartTaskTooLate(r) \/ GraphResumeCall(r) \/ ExecutorCall(r)
             \/ WakeApproved(r) \/ Finish(r) \/ WaitTimesOut(r) \/ BuildFails(r)
             \/ TaskCancelled(r)
    BY <2>1 DEF StartTask, StartTaskTooLate, GraphResumeCall, ExecutorCall,
                WakeApproved, Finish, WaitTimesOut, BuildFails, TaskCancelled
  <2>2. CASE ExecutorDenied(r) \/ ErrorChunk(r) \/ StreamEnds(r) \/ WakeRejected(r)
    BY <2>2 DEF ExecutorDenied, ErrorChunk, StreamEnds, WakeRejected, FinalWrite
  <2>3. CASE StreamRaises(r) \/ HitlUncaught(r)
    BY <2>3 DEF StreamRaises, HitlUncaught, RaiseWrite
  <2>4. CASE GraphInterrupt(r) \/ ExecutorSuspend(r)
    <3>1. q = r
      BY <2>4 DEF GraphInterrupt, ExecutorSuspend
    <3> QED
      BY <2>4, <3>1
  <2> QED
    BY <1>1, <2>1, <2>2, <2>3, <2>4 DEF TaskStep, TaskFailure
<1>2. ASSUME NEW r \in Runs, Client(r)
      PROVE  FALSE
  BY <1>2 DEF Client, CreateRun, CancelRun, ResumeRun
<1>3. CASE RequestStep
  BY <1>3 DEF RequestStep, CancelWrite, ResumeRead, ResumeResolve, ResumeRejects,
              ResumeSpawns, ResumeSignals
<1> QED
  BY <1>1, <1>2, <1>3, UnsweptNext
  DEF UnsweptStep, Expire, Crash, Shutdown, CrashInsideSuspend, CrashInsideWake, vars

\* Clients answer the approval their own run has open.
AnswerIsOwn == \A c \in request : c.step # "cancel" => c.owner = c.run

\* Somebody can still answer the run, or a handler is moving it on.
CanBeAnswered(q) ==
  status[q] = "suspended" => OpenCalls(q) # {} \/ \E c \in request : c.run = q

\* A timeout does not reject a run that stays SUSPENDED.
TimeoutMovesOn == TimeoutAction = "approve" \/ NoExecutor

LEMMA OwnStep ==
  ASSUME AnswerInv, ~Sweeper, ~AnyApprovalId, [Next]_vars, AnswerIsOwn
  PROVE  AnswerIsOwn'
<1> USE DEF AnswerInv, CallsInv, TypeOK
<1>1. ASSUME NEW r \in Runs, TaskStep(r) \/ TaskFailure(r) \/ WaitTimesOut(r)
      PROVE  UNCHANGED request
  BY <1>1 DEF TaskStep, TaskFailure, StartTask, StartTaskTooLate, GraphResumeCall,
    GraphInterrupt, ExecutorCall, ExecutorDenied, ExecutorSuspend, WakeApproved,
    WakeRejected, StreamEnds, Finish, TaskCancelled, BuildFails, HitlUncaught,
    ErrorChunk, StreamRaises, WaitTimesOut
<1>2. ASSUME NEW r \in Runs, Client(r)
      PROVE  AnswerIsOwn'
  BY <1>2 DEF Client, CreateRun, CancelRun, ResumeRun, AnswerIsOwn
<1>3. ASSUME NEW c \in request,
             \/ CancelWrite(c) \/ ResumeRead(c) \/ ResumeResolve(c)
             \/ ResumeRejects(c) \/ ResumeSpawns(c) \/ ResumeSignals(c)
      PROVE  AnswerIsOwn'
  <2>1. c \in Requests
    OBVIOUS
  <2>2. ASSUME NEW d \in request', ResumeRead(c) \/ ResumeResolve(c)
        PROVE  d.owner = d.run
    <3>1. PICK open \in BOOLEAN :
            d = [c EXCEPT !.step = "resolve", !.open = open] \/ d = [c EXCEPT !.step = "update"]
      BY <2>2 DEF ResumeRead, ResumeResolve
    <3>2. d.owner = c.owner /\ d.run = c.run
      BY <2>1, <3>1 DEF Requests
    <3> QED
      BY <2>2, <3>2 DEF AnswerIsOwn, ResumeRead, ResumeResolve
  <2> QED
    BY <1>3, <2>2 DEF AnswerIsOwn, CancelWrite, ResumeRejects, ResumeSpawns, ResumeSignals
<1>4. CASE MemoryLost
  BY <1>4 DEF MemoryLost, AnswerIsOwn
<1> QED
  BY <1>1, <1>2, <1>3, <1>4, UnsweptNext
  DEF UnsweptStep, RequestStep, Expire, Crash, Shutdown, CrashInsideSuspend, CrashInsideWake,
    vars, AnswerIsOwn

\* A handler goes on about its run, or ends by moving that run on.
LEMMA HandlerGoesOn ==
  ASSUME AnswerInv, ~Sweeper, [Next]_vars, crashes' = 0, NEW c \in request,
         status'[c.run] = "suspended"
  PROVE  \E d \in request' : d.run = c.run
<1> USE DEF AnswerInv, CallsInv, TypeOK
<1>1. ~MemoryLost
  BY RestartCounts
<1>2. ASSUME NEW r \in Runs, TaskStep(r) \/ TaskFailure(r) \/ WaitTimesOut(r)
      PROVE  UNCHANGED request
  BY <1>2 DEF TaskStep, TaskFailure, StartTask, StartTaskTooLate, GraphResumeCall,
    GraphInterrupt, ExecutorCall, ExecutorDenied, ExecutorSuspend, WakeApproved,
    WakeRejected, StreamEnds, Finish, TaskCancelled, BuildFails, HitlUncaught,
    ErrorChunk, StreamRaises, WaitTimesOut
<1>3. ASSUME NEW r \in Runs, Client(r)
      PROVE  FALSE
  BY <1>3 DEF Client, CreateRun, CancelRun, ResumeRun, LoopFree
<1>4. ASSUME NEW b \in request,
             \/ CancelWrite(b) \/ ResumeRead(b) \/ ResumeResolve(b) \/ ResumeRejects(b)
             \/ ResumeSpawns(b) \/ ResumeSignals(b)
      PROVE  \E d \in request' : d.run = c.run
  <2>1. b = c /\ c \in Requests
    BY DEF OneRequest
  <2>2. CASE CancelWrite(c) \/ ResumeRejects(c) \/ ResumeSpawns(c) \/ ResumeSignals(c)
    BY <2>1, <2>2 DEF CancelWrite, ResumeRejects, ResumeSpawns, ResumeSignals, Requests
  <2>3. CASE ResumeRead(c) \/ ResumeResolve(c)
    <3>1. PICK d \in request', open \in BOOLEAN :
            d = [c EXCEPT !.step = "resolve", !.open = open] \/ d = [c EXCEPT !.step = "update"]
      BY <2>3 DEF ResumeRead, ResumeResolve
    <3>2. d.run = c.run
      BY <2>1, <3>1 DEF Requests
    <3> QED
      BY <3>2
  <2> QED
    BY <1>4, <2>1, <2>2, <2>3
<1> QED
  BY <1>1, <1>2, <1>3, <1>4, UnsweptNext
  DEF UnsweptStep, RequestStep, Expire, Crash, Shutdown, CrashInsideSuspend, CrashInsideWake, vars

\* Who closes an approval moves its run on, at once or as its handler.
LEMMA CloserMovesOn ==
  ASSUME AnswerInv, ~Sweeper, AnswerIsOwn, TimeoutMovesOn, [Next]_vars, crashes' = 0,
         NEW q \in Runs, NEW k \in Calls, Decides(q, k), status'[q] = "suspended"
  PROVE  \E d \in request' : d.run = q
<1> USE DEF AnswerInv, CallsInv, TypeOK
<1>1. ~CrashInsideWake(q)
  BY RestartCounts DEF CrashInsideWake
<1>2. ~WakeApproved(q)
  BY DEF WakeApproved
<1>3. ASSUME WakeRejected(q), approval[q][k] = "open"
      PROVE  FALSE
  <2>1. Mode[q] = "executor"
    BY <1>3 DEF WakeRejected, Awake, Running, CallsOf, ExecutorWaits
  <2>2. TimeoutAction = "approve"
    BY <2>1 DEF TimeoutMovesOn, NoExecutor
  <2>3. approval[q][waitsOn[q]] = "reject"
    BY <1>3, <2>2 DEF WakeRejected, DecisionSeen
  <2>4. UNCHANGED approval
    BY <1>3, <2>3 DEF WakeRejected, ApplyPolicy
  <2>5. PICK decision \in {"approve", "reject"} : Decide(q, k, decision)
    BY DEF Decides
  <2>6. approval'[q][k] = decision
    BY <2>5, DecideWrites DEF Decisions
  <2> QED
    BY <1>3, <2>4, <2>6
<1>4. PICK c \in request : ResumeResolve(c) /\ c.owner = q
  BY <1>1, <1>2, <1>3 DEF Decides, SweepIdle
<1>5. c.run = q
  BY <1>4 DEF AnswerIsOwn, ResumeResolve
<1> QED
  BY <1>4, <1>5, HandlerGoesOn

LEMMA AnswerableStep ==
  ASSUME AnswerInv, ~Sweeper, AnswerIsOwn, TimeoutMovesOn, [Next]_vars, crashes' = 0,
         NEW q \in Runs, CanBeAnswered(q)
  PROVE  CanBeAnswered(q)'
<1> USE DEF AnswerInv, CallsInv, TypeOK
<1> SUFFICES ASSUME status'[q] = "suspended"
             PROVE  OpenCalls(q)' # {} \/ \E c \in request' : c.run = q
  BY DEF CanBeAnswered
<1>1. CASE GraphInterrupt(q) \/ ExecutorSuspend(q)
  <2>1. PICK i \in Requested(q) : Decide(q, i, "open")
    BY <1>1 DEF GraphInterrupt, ExecutorSuspend
  <2>2. i \in Calls
    BY <1>1, <2>1, AheadIsCall DEF GraphInterrupt, ExecutorSuspend, Undecided, Requested, OpenCalls
  <2>3. \A r \in Runs, j \in Calls :
          approval'[r][j] = IF r = q /\ j = i THEN "open" ELSE approval[r][j]
    BY <2>1, DecideWrites DEF Decisions
  <2> QED
    BY <2>2, <2>3 DEF OpenCalls
<1>2. CASE status[q] # "suspended"
  BY <1>1, <1>2, WhoSuspends
<1>3. ASSUME NEW i \in OpenCalls(q)
      PROVE  OpenCalls(q)' # {} \/ \E c \in request' : c.run = q
  <2>1. CASE UNCHANGED approval
    BY <1>3, <2>1 DEF OpenCalls
  <2>2. ASSUME NEW r \in Runs, Opens(r)
        PROVE  approval'[q][i] = "open"
    <3>1. PICK k \in Requested(r) : Decide(r, k, "open")
      BY <2>2 DEF Opens
    <3> QED
      BY <1>3, <3>1, DecideWrites DEF Decisions, OpenCalls
  <2>3. ASSUME NEW r \in Runs, NEW k, Decides(r, k), r # q \/ k \notin Calls
        PROVE  approval'[q][i] = "open"
    <3>1. PICK decision \in {"approve", "reject"} : Decide(r, k, decision)
      BY <2>3 DEF Decides
    <3>2. approval'[q][i] = IF q = r /\ i = k THEN decision ELSE approval[q][i]
      BY <1>3, <3>1, DecideWrites DEF Decisions, OpenCalls
    <3> QED
      BY <1>3, <2>3, <3>2 DEF OpenCalls
  <2> QED
    BY <1>3, <2>1, <2>2, <2>3, CloserMovesOn, ApprovalChanges DEF OpenCalls
<1>4. ASSUME NEW c \in request, c.run = q
      PROVE  \E d \in request' : d.run = q
  BY <1>4, HandlerGoesOn
<1> QED
  BY <1>2, <1>3, <1>4 DEF CanBeAnswered

\* As long as the process has not stopped, a SUSPENDED run can be answered or
\* is being answered.  Where a restart comes between the two writes of an
\* answer this is lost: the approval is closed and the run still SUSPENDED.  It
\* is lost, too, where a timeout rejects a run that waits in its executor.
THEOREM SuspendedCanBeAnswered ==
  ASSUME ~Sweeper, ~AnyApprovalId, TimeoutMovesOn
  PROVE  Spec => [](crashes = 0 => SuspendedIsAnswerable)
<1> DEFINE Answerable == crashes = 0 => \A q \in Runs : CanBeAnswered(q)
<1>1. Init => AnswerIsOwn /\ Answerable
  BY DEF Init, AnswerIsOwn, CanBeAnswered
<1>2. AnswerInv /\ AnswerIsOwn /\ [Next]_vars => AnswerIsOwn'
  BY OwnStep
<1>3. AnswerInv /\ AnswerIsOwn /\ Answerable /\ [Next]_vars => Answerable'
  BY AnswerableStep, CrashesStay DEF AnswerInv, CallsInv
<1>4. Answerable => (crashes = 0 => SuspendedIsAnswerable)
  BY DEF SuspendedIsAnswerable, CanBeAnswered
<1> QED
  BY <1>1, <1>2, <1>3, <1>4, AnswerInvariant, PTL DEF Spec
=============================================================================
