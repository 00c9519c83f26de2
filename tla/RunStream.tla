----------------------------- MODULE RunStream -----------------------------
(***************************************************************************)
(* GET /runs/{id}/stream: how the chunks of one run reach its subscribers. *)
(*                                                                         *)
(* The run's task appends every chunk to a history and puts it on a queue; *)
(* both belong to the run's entry in the registry.  A subscriber first     *)
(* replays the history and then takes from the queue, which all            *)
(* subscribers share.  The final "done" is only on the queue.  A           *)
(* subscriber that leaves cancels the run.                                 *)
(*                                                                         *)
(* The task is RunLifecycle's, reduced to what a subscriber can notice, in *)
(* one process that does not stop and has no sweeper.                      *)
(***************************************************************************)
EXTENDS Naturals, Sequences

CONSTANTS
  Subscribers,   \* the clients that may open streams
  MaxChunks,     \* bound: the length of the history
  MaxStreams     \* bound: how many streams are opened

ASSUME BoundsAssumption == MaxChunks \in Nat /\ MaxStreams \in Nat

VARIABLES
  graph,         \* does the run wait at a graph interrupt, or in its executor?
  approves,      \* does the executor's task approve when its wait is timed out?
  status,        \* the run's row
  task,          \* what the run's asyncio task is doing
  cancelReq,     \* the task was cancelled and has not seen it yet
  registered,    \* is the entry still in the registry?
  cancelled,     \* RunExecutionState.cancelled
  history,       \* RunExecutionState.history: the kinds of the chunks
  queue,         \* RunExecutionState.queue
  phase,         \* where each subscriber's stream is
  prompt,        \* was the history still empty when the stream was opened?
  got,           \* the chunks the subscriber has received, in order
  due,           \* how long the history was when the stream began to wait, or ended
  ending,        \* how the stream ended
  streams        \* how many streams have been opened

runVars == <<graph, approves, status, task, cancelReq>>
entryVars == <<registered, cancelled, history, queue>>
streamVars == <<phase, prompt, got, due, ending, streams>>
vars == <<runVars, entryVars, streamVars>>

Row == INSTANCE RunStatus WITH Runs <- {"run"}, status <- [r \in {"run"} |-> status]

Active == {"pending", "running", "suspended"}
Ended == {"completed", "failed", "cancelled"}

\* "step" chunks travel like "token" chunks.
Kinds == {"token", "approval_required", "suspended", "error"}

\* The queue holds chunks by their place in the history, and the final event.
QueueItems == [chunk : 1 .. MaxChunks, done : {"no"}] \cup [chunk : {0}, done : Ended]

\* "closing": the final status is written, its chunk is not yet on the queue.
Tasks == {"created", "streaming", "waiting", "closing", "none"}

\* "queue": about to look at the entry; "getting": inside wait_for(queue.get()),
\* which found the queue empty.
Phases == {"idle", "history", "queue", "getting", "over"}

\* How a stream may end, other than with the run's final status.
Endings == {"none", "error", "suspended", "replayed", "left"}

TypeOK ==
  /\ graph \in BOOLEAN /\ approves \in BOOLEAN
  /\ status \in Active \cup Ended
  /\ task \in Tasks
  /\ cancelReq \in BOOLEAN
  /\ registered \in BOOLEAN
  /\ cancelled \in BOOLEAN
  /\ history \in Seq(Kinds) /\ Len(history) <= MaxChunks
  /\ queue \in Seq(QueueItems)
  /\ phase \in [Subscribers -> Phases]
  /\ prompt \in [Subscribers -> BOOLEAN]
  /\ got \in [Subscribers -> Seq(1 .. MaxChunks)]
  /\ due \in [Subscribers -> 0 .. MaxChunks]
  /\ ending \in [Subscribers -> Ended \cup Endings]
  /\ streams \in 0 .. MaxStreams

\* POST /runs has registered the run and created its task.
Init ==
  /\ graph \in BOOLEAN /\ approves \in BOOLEAN /\ (graph => ~approves)
  /\ status = "pending" /\ task = "created" /\ cancelReq = FALSE
  /\ registered = TRUE /\ cancelled = FALSE
  /\ history = <<>> /\ queue = <<>>
  /\ phase = [s \in Subscribers |-> "idle"]
  /\ prompt = [s \in Subscribers |-> FALSE]
  /\ got = [s \in Subscribers |-> <<>>]
  /\ due = [s \in Subscribers |-> 0]
  /\ ending = [s \in Subscribers |-> "none"]
  /\ streams = 0

-----------------------------------------------------------------------------
(* The run's task.                                                          *)

Running(state) == task = state /\ ~cancelReq

\* Chunks of these kinds go to the history and onto the queue.
Put(kinds) ==
  /\ Len(history) + Len(kinds) <= MaxChunks
  /\ history' = history \o kinds
  /\ queue' = queue \o [i \in 1 .. Len(kinds) |->
                          [chunk |-> Len(history) + i, done |-> "no"]]

\* The final write of _run_lifecycle_body.
Ends(outcome) ==
  /\ status' = outcome
  /\ task' = "closing"

\* The finally clause of a run that is not SUSPENDED.
Release(final) ==
  /\ queue' = Append(queue, [chunk |-> 0, done |-> final])
  /\ registered' = FALSE
  /\ task' = "none"

Start ==
  /\ Running("created")
  /\ status' = "running"
  /\ task' = "streaming"
  /\ UNCHANGED <<graph, approves, cancelReq, entryVars, streamVars>>

Token ==
  /\ Running("streaming")
  /\ Put(<<"token">>)
  /\ UNCHANGED <<runVars, registered, cancelled, streamVars>>

\* A graph run ends its task; an executor run waits in it.
AskApproval ==
  /\ Running("streaming")
  /\ Put(IF graph THEN <<"approval_required", "suspended">> ELSE <<"approval_required">>)
  /\ status' = "suspended"
  /\ task' = IF graph THEN "none" ELSE "waiting"
  /\ UNCHANGED <<graph, approves, cancelReq, registered, cancelled, streamVars>>

\* The task reads the human's answer, which the row shows, or finds that it is
\* timed out, also when the answer came while it was about to run.
Outcome(timedOut) ==
  IF timedOut THEN (IF approves THEN "completed" ELSE "failed")
              ELSE IF status = "running" THEN "completed" ELSE "failed"

\* Mutant: the finally clause does not ask whether the run is SUSPENDED.
Wake_Releases ==
  /\ Running("waiting")
  /\ IF status = "suspended" /\ ~approves
       THEN Release(status) /\ UNCHANGED status
       ELSE (\E timedOut \in BOOLEAN : Ends(Outcome(timedOut))) /\ UNCHANGED <<registered, queue>>
  /\ UNCHANGED <<graph, approves, cancelReq, cancelled, history, streamVars>>

\* The wait is over.  Approved, the run is RUNNING and at once COMPLETED (see
\* RunLifecycle's WakeApproved), whatever its row is; rejected, it is FAILED,
\* unless the row is still SUSPENDED: then nothing more is done.
Wake ==
  /\ Running("waiting")
  /\ \E timedOut \in BOOLEAN :
       /\ status = "suspended" => timedOut
       /\ IF status = "suspended" /\ Outcome(timedOut) = "failed"
            THEN task' = "none" /\ UNCHANGED status
            ELSE Ends(Outcome(timedOut))
  /\ UNCHANGED <<graph, approves, cancelReq, entryVars, streamVars>>

StreamEnds ==
  /\ Running("streaming")
  /\ Ends("completed")
  /\ UNCHANGED <<graph, approves, cancelReq, entryVars, streamVars>>

ErrorChunk ==
  /\ Running("streaming")
  /\ Put(<<"error">>)
  /\ Ends("failed")
  /\ UNCHANGED <<graph, approves, cancelReq, registered, cancelled, streamVars>>

\* An exception.
Raises ==
  /\ Running("streaming")
  /\ Ends("failed")
  /\ UNCHANGED <<graph, approves, cancelReq, entryVars, streamVars>>

Close ==
  /\ Running("closing")
  /\ Release(status)
  /\ UNCHANGED <<graph, approves, status, cancelReq, cancelled, history, streamVars>>

\* CancelledError: a coroutine that never started runs no finally clause.
TaskCancelled ==
  /\ cancelReq /\ task # "none"
  /\ cancelReq' = FALSE
  /\ IF task = "created"
       THEN task' = "none" /\ UNCHANGED <<registered, queue>>
       ELSE Release(status)
  /\ UNCHANGED <<graph, approves, status, cancelled, history, streamVars>>

-----------------------------------------------------------------------------
(* The human's answer and the cancellation.                                 *)

\* RunService.resume_run.  An approval spawns the continuation of a graph and
\* wakes the task of an executor, if it still waits.
Answer(approved) ==
  /\ status = "suspended"
  /\ status' = IF approved THEN "running" ELSE "failed"
  /\ task' = IF approved /\ graph THEN "created" ELSE task
  /\ UNCHANGED <<graph, approves, cancelReq, entryVars, streamVars>>

\* Mutant: a run that has ended is cancelled too.
CancelRun_Always ==
  /\ cancelled' = (cancelled \/ registered)
  /\ cancelReq' = (cancelReq \/ (registered /\ task # "none"))
  /\ status' = "cancelled"

\* RunService.cancel_run: the flag is set whatever the status, as long as the
\* entry is there.
CancelRun ==
  /\ cancelled' = (cancelled \/ registered)
  /\ cancelReq' = (cancelReq \/ (registered /\ task # "none"))
  /\ status' = IF status \in Active THEN "cancelled" ELSE status

-----------------------------------------------------------------------------
(* A subscriber's stream.  Each action is what runs between two awaits.     *)

\* The stream goes on; before it waits or ends it sees what has been put so far.
Moves(s, to) ==
  /\ phase' = [phase EXCEPT ![s] = to]
  /\ due' = [due EXCEPT ![s] = IF to \in {"getting", "over"} THEN Len(history) ELSE 0]

\* The stream is over; its last event was how.
Over(s, how) == Moves(s, "over") /\ ending' = [ending EXCEPT ![s] = how]

Receives(s, i) == got' = [got EXCEPT ![s] = Append(@, i)]

\* Mutant: the generator is at an await before it looks at the history.
FirstPhase_Late == "history"

\* An empty history leads straight to the queue.
FirstPhase == IF history = <<>> THEN "queue" ELSE "history"

\* Without an entry the finished row is replayed and the stream is over.
Open(s) ==
  /\ phase[s] \in {"idle", "over"}
  /\ streams < MaxStreams
  /\ streams' = streams + 1
  /\ got' = [got EXCEPT ![s] = <<>>]
  /\ IF registered
       THEN /\ Moves(s, FirstPhase)
            /\ prompt' = [prompt EXCEPT ![s] = (history = <<>>)]
            /\ ending' = [ending EXCEPT ![s] = "none"]
       ELSE Over(s, "replayed") /\ prompt' = [prompt EXCEPT ![s] = FALSE]
  /\ UNCHANGED <<runVars, entryVars>>

\* All that a stream in this phase has received is from the history.
ReplayHistory(s) ==
  /\ phase[s] = "history" /\ Len(got[s]) < Len(history)
  /\ LET next == Len(got[s]) + 1 IN
       /\ Receives(s, next)
       /\ IF history[next] = "error" THEN Over(s, "error") ELSE UNCHANGED <<phase, due, ending>>
  /\ UNCHANGED <<runVars, entryVars, prompt, streams>>

HistoryReplayed(s) ==
  /\ phase[s] = "history" /\ Len(got[s]) = Len(history)
  /\ Moves(s, "queue")
  /\ UNCHANGED <<runVars, entryVars, prompt, got, ending, streams>>

\* Which chunks are the last ones of a stream.
LastKinds == {"error", "suspended"}

\* queue.get() returns, and what it returns is sent.
TakeChunk(s) ==
  /\ queue # <<>>
  /\ LET item == Head(queue) IN
       IF item.chunk = 0
         THEN Over(s, item.done) /\ UNCHANGED got
         ELSE /\ Receives(s, item.chunk)
              /\ IF history[item.chunk] \in LastKinds
                   THEN Over(s, history[item.chunk])
                   ELSE Moves(s, "queue") /\ UNCHANGED ending
  /\ queue' = Tail(queue)
  /\ UNCHANGED <<runVars, registered, cancelled, history, prompt, streams>>

\* Mutant: the stream waits although chunks are on the queue.
LookAtQueue_Waits(s) ==
  /\ phase[s] = "queue"
  /\ IF cancelled THEN Over(s, "cancelled") ELSE Moves(s, "getting") /\ UNCHANGED ending
  /\ UNCHANGED <<runVars, entryVars, prompt, got, streams>>

\* The flag is looked at, and then queue.get() waits only if the queue is empty.
LookAtQueue(s) ==
  /\ phase[s] = "queue"
  /\ IF queue # <<>> /\ ~cancelled
       THEN TakeChunk(s)
       ELSE /\ IF cancelled THEN Over(s, "cancelled")
                            ELSE Moves(s, "getting") /\ UNCHANGED ending
            /\ UNCHANGED <<runVars, entryVars, prompt, got, streams>>

\* A chunk has woken queue.get().
WaitedWell(s) == phase[s] = "getting" /\ TakeChunk(s)

\* Mutant: a row in a final status is not looked for.
WaitedInVain_Blind(s) ==
  /\ phase[s] = "getting"
  /\ LET how == IF cancelled THEN "cancelled" ELSE "none"
     IN  /\ ending' = [ending EXCEPT ![s] = how]
         /\ phase' = [phase EXCEPT ![s] = IF how = "none" THEN "queue" ELSE "over"]
  /\ UNCHANGED <<runVars, entryVars, prompt, got, due, streams>>

\* wait_for gives up after a second, also when a chunk has been put that the
\* stream was about to take; the flag and the row are looked at, the queue is not.
WaitedInVain(s) ==
  /\ phase[s] = "getting"
  /\ LET how == IF cancelled THEN "cancelled"
             ELSE IF status \in Ended THEN status ELSE "none"
     IN  /\ ending' = [ending EXCEPT ![s] = how]
         /\ phase' = [phase EXCEPT ![s] = IF how = "none" THEN "queue" ELSE "over"]
  /\ UNCHANGED <<runVars, entryVars, prompt, got, due, streams>>

\* The client disconnects, and what it has received is forgotten.  The web
\* server tells the watcher, or only the response, whose end cancels the watcher.
Leave(s) ==
  /\ phase[s] \in {"history", "queue", "getting"}
  /\ Over(s, "left")
  /\ got' = [got EXCEPT ![s] = <<>>]
  /\ prompt' = [prompt EXCEPT ![s] = FALSE]
  /\ CancelRun \/ UNCHANGED <<cancelled, cancelReq, status>>
  /\ UNCHANGED <<graph, approves, task, registered, history, queue, streams>>

-----------------------------------------------------------------------------
TaskStep ==
  \/ Start \/ AskApproval \/ Wake \/ StreamEnds \/ Close \/ TaskCancelled

StreamStep(s) ==
  \/ ReplayHistory(s) \/ HistoryReplayed(s) \/ LookAtQueue(s)
  \/ WaitedWell(s) \/ WaitedInVain(s)

Next ==
  \/ TaskStep \/ Token \/ ErrorChunk \/ Raises
  \/ \E approved \in BOOLEAN : Answer(approved)
  \/ \E s \in Subscribers : StreamStep(s) \/ Open(s) \/ Leave(s)

\* The event loop runs what is ready.
Spec == Init /\ [][Next]_vars
             /\ WF_vars(TaskStep)
             /\ \A s \in Subscribers : WF_vars(StreamStep(s))

-----------------------------------------------------------------------------
(* Properties.                                                              *)

\* No other client has opened a stream of this run.
Alone(s) == \A t \in Subscribers \ {s} : phase[t] = "idle"

\* A client that streams alone, and is told that the run has completed or
\* failed, has received every chunk that had been put when its stream last
\* looked for one, however often it has left and come back, and although most
\* chunks passed by the queue.  What it misses was put while the stream waited
\* for the last time and its timer fired.
SoleStreamIsComplete ==
  \A s \in Subscribers :
    Alone(s) /\ ending[s] \in {"completed", "failed", "error"} =>
      1 .. due[s] \subseteq {got[s][i] : i \in DOMAIN got[s]}

\* A client that streams alone from the very beginning receives every chunk
\* once and in order: what it has, and then what is on the queue, is the
\* history, and after it at most the final event.
PromptStreamIsExact ==
  LET Places == [i \in DOMAIN history |-> i] IN
  \A s \in Subscribers :
    Alone(s) /\ prompt[s] =>
      got[s] \o [i \in DOMAIN queue |-> queue[i].chunk] \in {Places, Append(Places, 0)}

\* A stream that reports COMPLETED agrees with the row for ever, and so does one
\* that reports FAILED, unless an executor's timeout approves what a human has
\* rejected: then the row is COMPLETED in the end.
EndingMatchesRow ==
  \A s \in Subscribers :
    /\ ending[s] = "completed" => status = "completed"
    /\ ending[s] = "failed" =>
         status = "failed" \/ (approves /\ status = "completed")

\* The wait of an executor is timed out and approved.  From SUSPENDED the row
\* passes RUNNING unseen; over FAILED, which a human's rejection has written
\* meanwhile, the task writes without looking.
TimeoutApproves ==
  /\ approves /\ task = "waiting" /\ task' = "closing"
  /\ status \in {"suspended", "failed"} /\ status' = "completed"

\* But for that, the row moves along ALLOWED_TRANSITIONS, as RunLifecycle's does.
RowFollowsTransitions == [][Row!Next \/ TimeoutApproves]_status

\* Once the run has ended, every stream comes to its end, also those whose
\* final chunk went to another subscriber.
StreamsEnd ==
  \A s \in Subscribers :
    status \in Ended /\ phase[s] # "idle" ~> phase[s] = "over"
=============================================================================
