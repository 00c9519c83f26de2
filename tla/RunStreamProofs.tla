--------------------------- MODULE RunStreamProofs ---------------------------
(***************************************************************************)
(* What RunStream promises a subscriber, for any number of clients, chunks *)
(* and streams.                                                            *)
(*                                                                         *)
(* The queue is shared and a stream ends by what it finds there, so the    *)
(* invariant says what may be on the queue: places of the history in their *)
(* order, and after them the final event, which carries the row's final    *)
(* status.  The rest ties the row to the task that may still write it.     *)
(***************************************************************************)
EXTENDS RunStream, SequenceTheorems, TLAPS

\* The row, as far as the task that owns it has brought it.  A cancelled task
\* leaves the row alone: it has already ended.
RowMatchesTask ==
  /\ task = "created" /\ ~cancelReq => status \in {"pending", "running"}
  /\ task = "streaming" /\ ~cancelReq => status = "running"
  /\ task = "waiting" => ~graph
  /\ task = "waiting" /\ ~cancelReq => status \in {"suspended", "running", "failed"}
  /\ task = "closing" => status \in Ended
  /\ cancelReq => task # "none" /\ status \in Ended
  /\ task \in {"created", "streaming"} => status \notin {"completed", "failed"}
  /\ ~registered => task = "none" /\ status \in Ended
  /\ status = "pending" => task = "created"
  /\ approves => ~graph

\* The run reports an error once, and then nothing more.
ErrorIsLast ==
  \A i \in DOMAIN history :
    history[i] = "error" =>
      i = Len(history) /\ status = "failed" /\ task \in {"closing", "none"}

\* The queue holds places of the history in their order.  The final event
\* comes last, once the entry is released, and agrees with the row.
QueueInOrder ==
  /\ \A i \in DOMAIN queue :
       IF queue[i].chunk = 0
         THEN ~registered /\ status = queue[i].done
         ELSE queue[i].chunk <= Len(history)
  /\ \A i, j \in DOMAIN queue :
       i < j => /\ queue[i].chunk # 0
                /\ queue[j].chunk = 0 \/ queue[i].chunk < queue[j].chunk

\* A stream that has ended so has told the truth about the row.
EndingIsTrue ==
  \A s \in Subscribers :
    /\ phase[s] # "over" => ending[s] = "none"
    /\ ending[s] = "completed" => status = "completed"
    /\ ending[s] = "failed" => status = "failed" \/ (approves /\ status = "completed")
    /\ ending[s] = "error" => status = "failed" /\ task \in {"closing", "none"}

\* The places that a stream has received, and those on the queue.
Received(s) == {got[s][i] : i \in DOMAIN got[s]}
Queued == {queue[i].chunk : i \in DOMAIN queue} \ {0}

\* A stream alone has what is not on the queue; when it waits or is over, it
\* has all that was there when it looked last.
SoleStreamMisses ==
  \A s \in Subscribers :
    /\ phase[s] = "history" =>
         /\ Len(got[s]) <= Len(history)
         /\ \A i \in DOMAIN got[s] : got[s][i] = i
    /\ Alone(s) /\ phase[s] \in {"queue", "getting"} =>
         Received(s) \cup Queued = DOMAIN history
    /\ Alone(s) /\ (phase[s] = "getting" \/ ending[s] \in {"completed", "failed", "error"}) =>
         1 .. due[s] \subseteq Received(s)

\* A stream alone from the beginning has a first part of the history, and the
\* queue has the rest of it and at most the final event.
PromptStreamSplits ==
  \A s \in Subscribers :
    prompt[s] =>
      /\ phase[s] \in {"queue", "getting", "over"}
      /\ Alone(s) =>
           /\ Len(got[s]) <= Len(history)
           /\ Len(got[s]) + Len(queue) \in Len(history) .. (Len(history) + 1)
           /\ \A i \in DOMAIN got[s] : got[s][i] = i
           /\ \A i \in DOMAIN queue :
                IF Len(got[s]) + i <= Len(history)
                  THEN queue[i].chunk = Len(got[s]) + i
                  ELSE queue[i].chunk = 0

\* The stream looks at the queue in vain, or takes what is there, at once or
\* after a wait.
BeginsWait(s) ==
  /\ phase[s] = "queue"
  /\ cancelled => Over(s, "cancelled")
  /\ ~cancelled => queue = <<>> /\ Moves(s, "getting") /\ UNCHANGED ending
  /\ UNCHANGED <<runVars, entryVars, prompt, got, streams>>

Takes(s) == phase[s] \in {"queue", "getting"} /\ TakeChunk(s)

StreamInv ==
  /\ TypeOK
  /\ RowMatchesTask
  /\ ErrorIsLast
  /\ QueueInOrder
  /\ EndingIsTrue
  /\ SoleStreamMisses
  /\ PromptStreamSplits

-----------------------------------------------------------------------------
(* What a step does to the row, whoever takes it.                           *)

\* A stopped program changes nothing.
LEMMA StreamStutters == StreamInv /\ UNCHANGED vars => StreamInv'
<1> SUFFICES ASSUME StreamInv, UNCHANGED vars PROVE StreamInv'
  OBVIOUS
<1> USE DEF vars, runVars, entryVars, streamVars, StreamInv
<1>1. TypeOK'
  BY DEF TypeOK
<1>2. RowMatchesTask' /\ ErrorIsLast' /\ QueueInOrder' /\ EndingIsTrue'
  BY DEF RowMatchesTask, ErrorIsLast, QueueInOrder, EndingIsTrue
<1>3. SoleStreamMisses'
  <2>1. UNCHANGED <<phase, got, due, ending, history, queue>>
    OBVIOUS
  <2>2. Queued' = Queued /\ \A s \in Subscribers : Alone(s)' = Alone(s) /\ Received(s)' = Received(s)
    BY <2>1 DEF Alone, Received, Queued
  <2> QED
    BY <2>1, <2>2 DEF SoleStreamMisses
<1>4. PromptStreamSplits'
  BY DEF PromptStreamSplits, Alone
<1> QED
  BY <1>1, <1>2, <1>3, <1>4

\* What a stream may do next.
LEMMA StreamCases ==
  ASSUME NEW s \in Subscribers, StreamStep(s)
  PROVE  ReplayHistory(s) \/ HistoryReplayed(s) \/ BeginsWait(s) \/ Takes(s) \/ WaitedInVain(s)
BY DEF StreamStep, LookAtQueue, WaitedWell, BeginsWait, Takes

\* Where the stream is, and what it has looked at.
LEMMA Seen ==
  ASSUME TypeOK, NEW s \in Subscribers, NEW to \in Phases, Moves(s, to)
  PROVE  /\ phase' \in [Subscribers -> Phases] /\ due' \in [Subscribers -> 0 .. MaxChunks]
         /\ phase'[s] = to
         /\ due'[s] = IF to \in {"getting", "over"} THEN Len(history) ELSE 0
<1>1. Len(history) \in 0 .. MaxChunks /\ 0 \in 0 .. MaxChunks
  BY BoundsAssumption, LenProperties DEF TypeOK
<1> QED
  BY <1>1 DEF Moves, TypeOK

\* The parts of a concatenation.
LEMMA AppendedPart ==
  ASSUME NEW S, NEW p \in Seq(S), NEW q \in Seq(S)
  PROVE  /\ p \o q \in Seq(S) /\ Len(p \o q) = Len(p) + Len(q)
         /\ \A i \in DOMAIN p : (p \o q)[i] = p[i]
         /\ \A i \in 1 .. Len(q) : (p \o q)[Len(p) + i] = q[i]
OBVIOUS

\* Put appends chunks to the history and their places to the queue.
LEMMA PutAppends ==
  ASSUME TypeOK, NEW kinds \in Seq(Kinds), Put(kinds)
  PROVE  /\ history' \in Seq(Kinds) /\ Len(history') = Len(history) + Len(kinds)
         /\ Len(history') <= MaxChunks
         /\ \A i \in DOMAIN history : history'[i] = history[i]
         /\ \A i \in DOMAIN kinds : history'[Len(history) + i] = kinds[i]
         /\ queue' \in Seq(QueueItems) /\ Len(queue') = Len(queue) + Len(kinds)
         /\ \A i \in DOMAIN queue : queue'[i] = queue[i]
         /\ \A i \in DOMAIN kinds :
              queue'[Len(queue) + i] = [chunk |-> Len(history) + i, done |-> "no"]
<1> DEFINE new == [i \in 1 .. Len(kinds) |-> [chunk |-> Len(history) + i, done |-> "no"]]
<1>1. /\ history \in Seq(Kinds) /\ queue \in Seq(QueueItems) /\ MaxChunks \in Nat
      /\ Len(history) \in Nat /\ Len(kinds) \in Nat /\ Len(queue) \in Nat
      /\ DOMAIN history = 1 .. Len(history) /\ DOMAIN kinds = 1 .. Len(kinds)
      /\ DOMAIN queue = 1 .. Len(queue)
  BY BoundsAssumption, LenProperties DEF TypeOK
<1>2. /\ Len(history) + Len(kinds) <= MaxChunks
      /\ history' = history \o kinds /\ queue' = queue \o new
  BY DEF Put
<1>3. \A i \in 1 .. Len(kinds) : [chunk |-> Len(history) + i, done |-> "no"] \in QueueItems
  BY <1>1, <1>2 DEF QueueItems
<1>4. /\ new \in Seq(QueueItems) /\ Len(new) = Len(kinds)
      /\ \A i \in 1 .. Len(kinds) : new[i] = [chunk |-> Len(history) + i, done |-> "no"]
  BY <1>1, <1>3
<1> HIDE DEF new
<1>5. /\ history' \in Seq(Kinds) /\ Len(history') = Len(history) + Len(kinds)
      /\ \A i \in DOMAIN history : history'[i] = history[i]
      /\ \A i \in DOMAIN kinds : history'[Len(history) + i] = kinds[i]
  BY <1>1, <1>2
<1>6. /\ queue' \in Seq(QueueItems) /\ Len(queue') = Len(queue) + Len(kinds)
      /\ \A i \in DOMAIN queue : queue'[i] = queue[i]
      /\ \A i \in DOMAIN kinds : queue'[Len(queue) + i] = new[i]
  <2>1. queue' = queue \o new
    BY <1>2
  <2>2. queue \in Seq(QueueItems) /\ new \in Seq(QueueItems)
    BY <1>1, <1>4
  <2>3. /\ queue \o new \in Seq(QueueItems) /\ Len(queue \o new) = Len(queue) + Len(new)
        /\ \A i \in DOMAIN queue : (queue \o new)[i] = queue[i]
        /\ \A i \in 1 .. Len(new) : (queue \o new)[Len(queue) + i] = new[i]
    BY <2>2, AppendedPart
  <2>4. Len(new) = Len(kinds) /\ DOMAIN kinds = 1 .. Len(kinds)
    BY <1>1, <1>4
  <2> QED
    BY <2>1, <2>3, <2>4
<1> QED
  BY <1>1, <1>2, <1>4, <1>5, <1>6

\* Release puts the final event behind what is on the queue.
LEMMA ReleaseAppends ==
  ASSUME TypeOK, NEW final \in Ended, Release(final)
  PROVE  /\ queue' \in Seq(QueueItems) /\ Len(queue') = Len(queue) + 1
         /\ \A i \in DOMAIN queue : queue'[i] = queue[i]
         /\ queue'[Len(queue) + 1] = [chunk |-> 0, done |-> final]
<1>1. queue \in Seq(QueueItems) /\ [chunk |-> 0, done |-> final] \in QueueItems
  BY DEF TypeOK, QueueItems
<1> QED
  BY <1>1 DEF Release

\* The first item leaves the queue and the others move up.
LEMMA TakeShifts ==
  ASSUME TypeOK, queue # <<>>, queue' = Tail(queue)
  PROVE  /\ Head(queue) = queue[1] /\ queue[1] \in QueueItems /\ 1 \in DOMAIN queue
         /\ queue' \in Seq(QueueItems) /\ Len(queue) = Len(queue') + 1
         /\ DOMAIN queue = 1 .. Len(queue) /\ Len(queue) \in Nat \ {0}
         /\ \A i \in DOMAIN queue' : queue'[i] = queue[i + 1] /\ i + 1 \in DOMAIN queue
<1>1. queue \in Seq(QueueItems)
  BY DEF TypeOK
<1> QED
  BY <1>1

-----------------------------------------------------------------------------
(* Each conjunct through a step.                                            *)

LEMMA TypingStep == StreamInv /\ Next => TypeOK'
<1> SUFFICES ASSUME StreamInv, Next PROVE TypeOK'
  OBVIOUS
<1> USE BoundsAssumption DEF StreamInv, runVars, entryVars, streamVars
<1>1. ASSUME Start \/ Wake \/ StreamEnds \/ Raises PROVE TypeOK'
  BY <1>1 DEF TypeOK, Start, Wake, Outcome, StreamEnds, Raises, Running, Ends, Active, Ended, Tasks
<1>2. ASSUME Token PROVE TypeOK'
  <2>1. <<"token">> \in Seq(Kinds) /\ Len(<<"token">>) = 1
    BY DEF Kinds
  <2> QED
    BY <1>2, <2>1, PutAppends DEF TypeOK, Token
<1>3. ASSUME ErrorChunk PROVE TypeOK'
  <2>1. <<"error">> \in Seq(Kinds) /\ Len(<<"error">>) = 1
    BY DEF Kinds
  <2>2. /\ history' \in Seq(Kinds) /\ Len(history') <= MaxChunks /\ queue' \in Seq(QueueItems)
    BY <1>3, <2>1, PutAppends DEF ErrorChunk
  <2>3. status' \in Active \cup Ended /\ task' \in Tasks
    BY <1>3 DEF ErrorChunk, Ends, Ended, Tasks
  <2>4. UNCHANGED <<graph, approves, cancelReq, registered, cancelled, streamVars>>
    BY <1>3 DEF ErrorChunk
  <2> QED
    BY <2>2, <2>3, <2>4 DEF TypeOK
<1>4. ASSUME AskApproval PROVE TypeOK'
  <2> DEFINE kinds == IF graph THEN <<"approval_required", "suspended">>
                               ELSE <<"approval_required">>
  <2>1. kinds \in Seq(Kinds)
    <3>1. /\ <<"approval_required", "suspended">> \in Seq(Kinds)
          /\ <<"approval_required">> \in Seq(Kinds)
      BY DEF Kinds
    <3> QED
      BY <3>1, Zenon
  <2>2. Put(kinds)
    BY <1>4 DEF AskApproval
  <2> HIDE DEF kinds
  <2>3. /\ history' \in Seq(Kinds) /\ Len(history') <= MaxChunks /\ queue' \in Seq(QueueItems)
    BY <2>1, <2>2, PutAppends
  <2> QED
    BY <1>4, <2>3 DEF TypeOK, AskApproval, Active, Tasks
<1>5. ASSUME Close \/ TaskCancelled PROVE TypeOK'
  <2>1. status \in Ended
    BY <1>5 DEF RowMatchesTask, Close, TaskCancelled, Running
  <2>2. Release(status) => queue' \in Seq(QueueItems)
    BY <2>1, ReleaseAppends
  <2>3. queue' \in Seq(QueueItems)
    BY <1>5, <2>2 DEF TypeOK, Close, TaskCancelled
  <2> QED
    BY <1>5, <2>3 DEF TypeOK, Close, TaskCancelled, Release, Tasks
<1>6. ASSUME NEW approved \in BOOLEAN, Answer(approved) PROVE TypeOK'
  BY <1>6 DEF TypeOK, Answer, Active, Ended, Tasks
<1>7. ASSUME NEW s \in Subscribers, StreamStep(s) PROVE TypeOK'
  <2>1. CASE ReplayHistory(s)
    <3>1. Len(got[s]) + 1 \in 1 .. MaxChunks /\ got[s] \in Seq(1 .. MaxChunks)
      BY <2>1, LenProperties DEF ReplayHistory, TypeOK
    <3>2. got' \in [Subscribers -> Seq(1 .. MaxChunks)]
      BY <2>1, <3>1 DEF ReplayHistory, Receives, TypeOK
    <3>3. /\ phase' \in [Subscribers -> Phases] /\ due' \in [Subscribers -> 0 .. MaxChunks]
          /\ ending' \in [Subscribers -> Ended \cup Endings]
      BY <2>1, Seen DEF ReplayHistory, TypeOK, Over, Phases, Endings
    <3> QED
      BY <2>1, <3>2, <3>3 DEF ReplayHistory, TypeOK
  <2>2. CASE HistoryReplayed(s)
    BY <2>2, Seen DEF TypeOK, HistoryReplayed, Phases
  <2>3. CASE BeginsWait(s)
    BY <2>3, Seen DEF TypeOK, BeginsWait, Over, Phases, Ended
  <2>4. CASE Takes(s)
    <3>1. /\ queue' \in Seq(QueueItems) /\ Head(queue) \in QueueItems
          /\ queue' = Tail(queue) /\ Head(queue) = queue[1] /\ 1 \in DOMAIN queue
      BY <2>4, TakeShifts DEF Takes, TakeChunk
    <3>2. CASE Head(queue).chunk = 0
      <4>1. Head(queue).done \in Ended
        BY <3>1, <3>2 DEF QueueItems
      <4> QED
        BY <2>4, <3>1, <3>2, <4>1, Seen DEF Takes, TakeChunk, TypeOK, Over, Phases
    <3>3. CASE Head(queue).chunk # 0
      <4>1. Head(queue).chunk \in 1 .. MaxChunks /\ got[s] \in Seq(1 .. MaxChunks)
        BY <3>1, <3>3 DEF QueueItems, TypeOK
      <4>0. Append(got[s], Head(queue).chunk) \in Seq(1 .. MaxChunks)
        BY <4>1
      <4>2. got' \in [Subscribers -> Seq(1 .. MaxChunks)]
        BY <2>4, <3>3, <4>0 DEF Takes, TakeChunk, Receives, TypeOK
      <4>3. /\ phase' \in [Subscribers -> Phases] /\ due' \in [Subscribers -> 0 .. MaxChunks]
            /\ ending' \in [Subscribers -> Ended \cup Endings]
        <5>1. CASE history[Head(queue).chunk] \in LastKinds
          <6>1. /\ Moves(s, "over") /\ "over" \in Phases
                /\ ending' = [ending EXCEPT ![s] = history[Head(queue).chunk]]
            BY <2>4, <3>3, <5>1 DEF Takes, TakeChunk, Over, Phases
          <6> QED
            BY <5>1, <6>1, Seen DEF TypeOK, Endings, LastKinds
        <5>2. CASE history[Head(queue).chunk] \notin LastKinds
          BY <2>4, <3>3, <5>2, Seen DEF Takes, TakeChunk, TypeOK, Phases
        <5> QED
          BY <5>1, <5>2
      <4> QED
        BY <2>4, <3>1, <4>2, <4>3 DEF Takes, TakeChunk, TypeOK
    <3> QED
      BY <3>2, <3>3
  <2>5. CASE WaitedInVain(s)
    <3>1. phase' \in [Subscribers -> Phases] /\ ending' \in [Subscribers -> Ended \cup Endings]
      BY <2>5 DEF TypeOK, WaitedInVain, Phases, Ended, Endings
    <3> QED
      BY <2>5, <3>1 DEF TypeOK, WaitedInVain
  <2> QED
    BY <1>7, <2>1, <2>2, <2>3, <2>4, <2>5, StreamCases
<1>8. ASSUME NEW s \in Subscribers, Open(s) PROVE TypeOK'
  <2>1. <<>> \in Seq(1 .. MaxChunks)
    OBVIOUS
  <2>2. got' \in [Subscribers -> Seq(1 .. MaxChunks)]
    BY <1>8, <2>1 DEF Open, TypeOK
  <2>3. /\ phase' \in [Subscribers -> Phases] /\ due' \in [Subscribers -> 0 .. MaxChunks]
        /\ prompt' \in [Subscribers -> BOOLEAN]
    BY <1>8, Seen DEF Open, TypeOK, Over, FirstPhase, Phases
  <2>4. ending' \in [Subscribers -> Ended \cup Endings]
    BY <1>8 DEF Open, TypeOK, Over, Endings
  <2> QED
    BY <1>8, <2>2, <2>3, <2>4 DEF Open, TypeOK
<1>9. ASSUME NEW s \in Subscribers, Leave(s) PROVE TypeOK'
  <2>1. <<>> \in Seq(1 .. MaxChunks)
    OBVIOUS
  <2>2. got' \in [Subscribers -> Seq(1 .. MaxChunks)]
    BY <1>9, <2>1 DEF Leave, TypeOK
  <2>3. /\ phase' \in [Subscribers -> Phases] /\ prompt' \in [Subscribers -> BOOLEAN]
        /\ due' \in [Subscribers -> 0 .. MaxChunks]
        /\ ending' \in [Subscribers -> Ended \cup Endings]
    BY <1>9, Seen DEF Leave, TypeOK, Over, Phases, Endings
  <2>4. status' \in Active \cup Ended /\ cancelled' \in BOOLEAN /\ cancelReq' \in BOOLEAN
    BY <1>9 DEF Leave, CancelRun, TypeOK, Ended
  <2> QED
    BY <1>9, <2>2, <2>3, <2>4 DEF Leave, TypeOK
<1> QED
  BY <1>1, <1>2, <1>3, <1>4, <1>5, <1>6, <1>7, <1>8, <1>9 DEF Next, TaskStep

LEMMA RowStep == StreamInv /\ Next => RowMatchesTask'
<1> SUFFICES ASSUME StreamInv, Next PROVE RowMatchesTask'
  OBVIOUS
<1> USE DEF StreamInv, runVars, entryVars, streamVars, RowMatchesTask
<1>0. status \in Active \cup Ended /\ task \in Tasks
  BY DEF TypeOK
<1> USE <1>0 DEF Active, Ended, Tasks
<1>1. ASSUME Start \/ Wake \/ StreamEnds \/ Raises PROVE RowMatchesTask'
  BY <1>1 DEF Start, Wake, Outcome, StreamEnds, Raises, Running, Ends
<1>2. ASSUME Token \/ ErrorChunk \/ AskApproval PROVE RowMatchesTask'
  BY <1>2 DEF Token, ErrorChunk, AskApproval, Running, Ends
<1>3. ASSUME Close \/ TaskCancelled PROVE RowMatchesTask'
  BY <1>3 DEF Close, TaskCancelled, Running, Release
<1>4. ASSUME NEW approved \in BOOLEAN, Answer(approved) PROVE RowMatchesTask'
  BY <1>4 DEF Answer
<1>5. ASSUME NEW s \in Subscribers, StreamStep(s) \/ Open(s) PROVE RowMatchesTask'
  BY <1>5, StreamCases DEF ReplayHistory, HistoryReplayed, BeginsWait, Takes, TakeChunk,
              WaitedInVain, Open
<1>6. ASSUME NEW s \in Subscribers, Leave(s) PROVE RowMatchesTask'
  <2>1. CASE UNCHANGED <<cancelled, cancelReq, status>>
    BY <1>6, <2>1 DEF Leave
  <2>2. CASE CancelRun
    <3>1. /\ UNCHANGED <<graph, approves, task, registered>>
          /\ status' = IF status \in Active THEN "cancelled" ELSE status
      BY <1>6, <2>2 DEF Leave, CancelRun
    <3>2. cancelReq' <=> cancelReq \/ (registered /\ task # "none")
      BY <2>2 DEF CancelRun
    <3> QED
      BY <3>1, <3>2
  <2> QED
    BY <1>6, <2>1, <2>2 DEF Leave
<1> QED
  BY <1>1, <1>2, <1>3, <1>4, <1>5, <1>6 DEF Next, TaskStep

\* Only a task that streams has something to say, and its entry is there.
LEMMA PutSteps ==
  ASSUME StreamInv, Token \/ ErrorChunk \/ AskApproval
  PROVE  /\ task = "streaming" /\ status = "running" /\ registered
         /\ UNCHANGED <<graph, approves, registered, cancelled, cancelReq, streamVars>>
         /\ \E kinds \in Seq(Kinds) :
              /\ Put(kinds)
              /\ \A i \in DOMAIN kinds :
                   kinds[i] = "error" =>
                     i = Len(kinds) /\ status' = "failed" /\ task' = "closing"
<1> USE DEF runVars, entryVars
<1>1. /\ task = "streaming" /\ status = "running" /\ registered
      /\ UNCHANGED <<graph, approves, registered, cancelled, cancelReq, streamVars>>
  BY DEF StreamInv, RowMatchesTask, Token, ErrorChunk, AskApproval, Running
<1>2. ASSUME Token
      PROVE  \E kinds \in Seq(Kinds) : Put(kinds) /\ \A i \in DOMAIN kinds : kinds[i] # "error"
  <2>1. <<"token">> \in Seq(Kinds) /\ \A i \in DOMAIN <<"token">> : <<"token">>[i] # "error"
    BY DEF Kinds
  <2> QED
    BY <1>2, <2>1 DEF Token
<1>3. ASSUME ErrorChunk
      PROVE  \E kinds \in Seq(Kinds) :
               /\ Put(kinds)
               /\ \A i \in DOMAIN kinds :
                    i = Len(kinds) /\ status' = "failed" /\ task' = "closing"
  <2>1. /\ <<"error">> \in Seq(Kinds)
        /\ \A i \in DOMAIN <<"error">> : i = Len(<<"error">>)
    BY DEF Kinds
  <2>2. Put(<<"error">>) /\ status' = "failed" /\ task' = "closing"
    BY <1>3 DEF ErrorChunk, Ends
  <2> QED
    BY <2>1, <2>2
<1>4. ASSUME AskApproval
      PROVE  \E kinds \in Seq(Kinds) : Put(kinds) /\ \A i \in DOMAIN kinds : kinds[i] # "error"
  <2> DEFINE two == <<"approval_required", "suspended">>
             one == <<"approval_required">>
  <2>1. /\ two \in Seq(Kinds) /\ \A i \in DOMAIN two : two[i] # "error"
        /\ one \in Seq(Kinds) /\ \A i \in DOMAIN one : one[i] # "error"
    BY DEF Kinds
  <2>2. Put(two) \/ Put(one)
    <3>1. Put(IF graph THEN two ELSE one)
      BY <1>4 DEF AskApproval
    <3>2. CASE graph
      BY <3>1, <3>2
    <3>3. CASE ~graph
      BY <3>1, <3>3
    <3> QED
      BY <3>2, <3>3
  <2> HIDE DEF two, one
  <2> QED
    BY <2>1, <2>2
<1> QED
  BY <1>1, <1>2, <1>3, <1>4

\* The row is final when the task lets go of its entry.
LEMMA ReleaseSteps ==
  ASSUME StreamInv, Close \/ TaskCancelled
  PROVE  /\ status \in Ended /\ registered /\ task' = "none"
         /\ UNCHANGED <<graph, approves, status, cancelled, history, streamVars>>
         /\ Release(status) \/ UNCHANGED <<registered, queue>>
BY DEF StreamInv, RowMatchesTask, Close, TaskCancelled, Running, Release, Ended

\* The other steps of the task, and the answer, leave the entry alone.
LEMMA QuietSteps ==
  ASSUME StreamInv,
         \/ Start \/ Wake \/ StreamEnds \/ Raises
         \/ \E approved \in BOOLEAN : Answer(approved)
  PROVE  /\ UNCHANGED <<graph, approves, registered, cancelled, history, queue, streamVars>>
         /\ registered
         /\ status \notin {"completed", "cancelled"}
         /\ status = "failed" =>
              /\ task = "waiting"
              /\ status' = "failed" \/ (approves /\ status' = "completed")
         /\ task = "waiting" => task' \in {"closing", "waiting", "none"}
<1>1. /\ status \in Active \cup Ended /\ task \in Tasks /\ RowMatchesTask
  BY DEF StreamInv, TypeOK
<1>2. CASE Wake
  <2>1. PICK timedOut \in BOOLEAN :
          IF status = "suspended" /\ Outcome(timedOut) = "failed"
            THEN task' = "none" /\ UNCHANGED status
            ELSE Ends(Outcome(timedOut))
    BY <1>2 DEF Wake
  <2>2. /\ UNCHANGED <<graph, approves, registered, cancelled, history, queue, streamVars>>
        /\ task = "waiting" /\ ~cancelReq
    BY <1>2 DEF Wake, Running, entryVars
  <2>3. status = "failed" => Outcome(timedOut) = "failed" \/ (approves /\ Outcome(timedOut) = "completed")
    BY DEF Outcome
  <2> QED
    <3>1. status \in {"suspended", "running", "failed"} /\ registered
      BY <1>1, <2>2 DEF RowMatchesTask, Ended, StreamInv
    <3> QED
      BY <2>1, <2>2, <2>3, <3>1 DEF Ends
<1>3. CASE Start \/ StreamEnds \/ Raises \/ \E approved \in BOOLEAN : Answer(approved)
  BY <1>1, <1>3 DEF RowMatchesTask, Start, StreamEnds, Raises, Answer, Running, Ends,
                    runVars, entryVars, Ended, Tasks
<1> QED
  BY <1>2, <1>3

\* The step of a stream leaves the run and its entry alone, but for the queue;
\* leaving may cancel the run.
LEMMA StreamSteps ==
  ASSUME StreamInv, NEW s \in Subscribers, StreamStep(s) \/ Open(s) \/ Leave(s)
  PROVE  /\ UNCHANGED <<graph, approves, task, registered, history>>
         /\ status \in Ended => status' = status
         /\ status' # status => status' = "cancelled"
         /\ \/ UNCHANGED queue
            \/ Takes(s)
         /\ \A t \in Subscribers \ {s} :
              /\ phase'[t] = phase[t] /\ prompt'[t] = prompt[t]
              /\ got'[t] = got[t] /\ ending'[t] = ending[t]
<1> USE DEF StreamInv, runVars, entryVars
<1>1. ASSUME ReplayHistory(s) \/ HistoryReplayed(s) \/ BeginsWait(s)
      PROVE  /\ UNCHANGED <<graph, approves, status, task, registered, history, queue>>
             /\ \A t \in Subscribers \ {s} :
                  /\ phase'[t] = phase[t] /\ prompt'[t] = prompt[t]
                  /\ got'[t] = got[t] /\ ending'[t] = ending[t]
  BY <1>1 DEF ReplayHistory, HistoryReplayed, BeginsWait, TypeOK, Over, Moves, Receives
<1>2. ASSUME Takes(s)
      PROVE  /\ UNCHANGED <<graph, approves, status, task, registered, history>>
             /\ \A t \in Subscribers \ {s} :
                  /\ phase'[t] = phase[t] /\ prompt'[t] = prompt[t]
                  /\ got'[t] = got[t] /\ ending'[t] = ending[t]
  BY <1>2 DEF Takes, TakeChunk, TypeOK, Over, Moves, Receives
<1>3. ASSUME WaitedInVain(s) \/ Open(s)
      PROVE  /\ UNCHANGED <<graph, approves, status, task, registered, history, queue>>
             /\ \A t \in Subscribers \ {s} :
                  /\ phase'[t] = phase[t] /\ prompt'[t] = prompt[t]
                  /\ got'[t] = got[t] /\ ending'[t] = ending[t]
  BY <1>3 DEF WaitedInVain, Open, TypeOK, Over, Moves
<1>4. ASSUME Leave(s)
      PROVE  /\ UNCHANGED <<graph, approves, task, registered, history, queue>>
             /\ status \in Ended => status' = status
             /\ status' # status => status' = "cancelled"
             /\ \A t \in Subscribers \ {s} :
                  /\ phase'[t] = phase[t] /\ prompt'[t] = prompt[t]
                  /\ got'[t] = got[t] /\ ending'[t] = ending[t]
  BY <1>4 DEF Leave, CancelRun, TypeOK, Over, Moves, Active, Ended
<1> QED
  BY <1>1, <1>2, <1>3, <1>4, StreamCases

\* Who takes a step.
LEMMA WhoSteps ==
  ASSUME Next
  PROVE  \/ Token \/ ErrorChunk \/ AskApproval
         \/ Close \/ TaskCancelled
         \/ \/ Start \/ Wake \/ StreamEnds \/ Raises
            \/ \E approved \in BOOLEAN : Answer(approved)
         \/ \E s \in Subscribers : StreamStep(s) \/ Open(s) \/ Leave(s)
BY DEF Next, TaskStep

LEMMA ErrorStep == StreamInv /\ Next => ErrorIsLast'
<1> SUFFICES ASSUME StreamInv, Next PROVE ErrorIsLast'
  OBVIOUS
<1>1. ASSUME Token \/ ErrorChunk \/ AskApproval PROVE ErrorIsLast'
  <2>1. PICK kinds \in Seq(Kinds) :
          /\ Put(kinds)
          /\ \A i \in DOMAIN kinds :
               kinds[i] = "error" => i = Len(kinds) /\ status' = "failed" /\ task' = "closing"
    BY <1>1, PutSteps
  <2>2. \A i \in DOMAIN history : history[i] # "error"
    BY <1>1, PutSteps DEF StreamInv, ErrorIsLast
  <2>3. /\ history \in Seq(Kinds) /\ history' \in Seq(Kinds)
        /\ Len(history') = Len(history) + Len(kinds)
        /\ \A i \in DOMAIN history : history'[i] = history[i]
        /\ \A i \in DOMAIN kinds : history'[Len(history) + i] = kinds[i]
    BY <2>1, PutAppends DEF StreamInv, TypeOK
  <2> SUFFICES ASSUME NEW i \in DOMAIN history', history'[i] = "error"
               PROVE  i = Len(history') /\ status' = "failed" /\ task' \in {"closing", "none"}
    BY DEF ErrorIsLast
  <2>4. i \notin DOMAIN history
    BY <2>2, <2>3
  <2>5. i - Len(history) \in DOMAIN kinds /\ i = Len(history) + (i - Len(history))
    BY <2>3, <2>4
  <2> QED
    BY <2>1, <2>3, <2>5
<1>2. ASSUME Close \/ TaskCancelled PROVE ErrorIsLast'
  BY <1>2, ReleaseSteps DEF StreamInv, ErrorIsLast
<1>3. ASSUME \/ Start \/ Wake \/ StreamEnds \/ Raises
             \/ \E approved \in BOOLEAN : Answer(approved)
      PROVE ErrorIsLast'
  BY <1>3, QuietSteps DEF StreamInv, ErrorIsLast
<1>4. ASSUME NEW s \in Subscribers, StreamStep(s) \/ Open(s) \/ Leave(s) PROVE ErrorIsLast'
  BY <1>4, StreamSteps DEF StreamInv, ErrorIsLast, Ended
<1> QED
  BY <1>1, <1>2, <1>3, <1>4, WhoSteps

LEMMA QueueStep == StreamInv /\ Next => QueueInOrder'
<1> SUFFICES ASSUME StreamInv, Next PROVE QueueInOrder'
  OBVIOUS
<1>0. /\ queue \in Seq(QueueItems) /\ DOMAIN queue = 1 .. Len(queue) /\ Len(queue) \in Nat
      /\ Len(history) \in Nat
      /\ \A i \in DOMAIN queue : queue[i].chunk \in Nat
  BY DEF StreamInv, TypeOK, QueueItems
<1>1. ASSUME Token \/ ErrorChunk \/ AskApproval PROVE QueueInOrder'
  <2>1. PICK kinds \in Seq(Kinds) : Put(kinds)
    BY <1>1, PutSteps
  <2>2. registered
    BY <1>1, PutSteps
  <2>3. /\ \A i \in DOMAIN queue : queue[i].chunk # 0 /\ queue[i].chunk <= Len(history)
        /\ \A i, j \in DOMAIN queue : i < j => queue[i].chunk < queue[j].chunk
    BY <2>2 DEF StreamInv, QueueInOrder
  <2>4. /\ Len(history') = Len(history) + Len(kinds) /\ Len(kinds) \in Nat
        /\ DOMAIN kinds = 1 .. Len(kinds) /\ DOMAIN queue' = 1 .. Len(queue')
        /\ Len(queue') = Len(queue) + Len(kinds)
        /\ \A i \in DOMAIN queue : queue'[i] = queue[i]
        /\ \A i \in DOMAIN kinds :
             queue'[Len(queue) + i] = [chunk |-> Len(history) + i, done |-> "no"]
    BY <2>1, PutAppends DEF StreamInv, TypeOK
  <2>5. \A i \in DOMAIN queue' :
          \/ i \in DOMAIN queue /\ queue'[i] = queue[i]
          \/ /\ i \notin DOMAIN queue /\ i - Len(queue) \in DOMAIN kinds
             /\ queue'[i].chunk = Len(history) + (i - Len(queue))
    <3> SUFFICES ASSUME NEW i \in DOMAIN queue', i \notin DOMAIN queue
                 PROVE  /\ i - Len(queue) \in DOMAIN kinds
                        /\ queue'[i].chunk = Len(history) + (i - Len(queue))
      BY <2>4
    <3>1. i - Len(queue) \in DOMAIN kinds /\ i = Len(queue) + (i - Len(queue))
      BY <1>0, <2>4
    <3>2. queue'[Len(queue) + (i - Len(queue))]
            = [chunk |-> Len(history) + (i - Len(queue)), done |-> "no"]
      BY <2>4, <3>1, Zenon
    <3>3. queue'[i] = [chunk |-> Len(history) + (i - Len(queue)), done |-> "no"]
      BY <3>1, <3>2, Zenon
    <3> QED
      BY <3>1, <3>3
  <2>6. \A i \in DOMAIN queue' : queue'[i].chunk # 0 /\ queue'[i].chunk <= Len(history')
    BY <1>0, <2>3, <2>4, <2>5
  <2>7. \A i, j \in DOMAIN queue' : i < j => queue'[i].chunk < queue'[j].chunk
    BY <1>0, <2>3, <2>4, <2>5
  <2> QED
    BY <2>6, <2>7 DEF QueueInOrder
<1>2. ASSUME Close \/ TaskCancelled PROVE QueueInOrder'
  <2>1. /\ status \in Ended /\ registered /\ UNCHANGED <<status, history>>
        /\ Release(status) \/ UNCHANGED <<registered, queue>>
    BY <1>2, ReleaseSteps
  <2>2. CASE UNCHANGED <<registered, queue>>
    BY <2>1, <2>2 DEF StreamInv, QueueInOrder
  <2>3. CASE Release(status)
    <3>1. /\ \A i \in DOMAIN queue : queue[i].chunk # 0 /\ queue[i].chunk <= Len(history)
          /\ \A i, j \in DOMAIN queue : i < j => queue[i].chunk < queue[j].chunk
      BY <2>1 DEF StreamInv, QueueInOrder
    <3>2. /\ DOMAIN queue' = 1 .. Len(queue) + 1
          /\ \A i \in DOMAIN queue : queue'[i] = queue[i]
          /\ queue'[Len(queue) + 1] = [chunk |-> 0, done |-> status]
      BY <2>1, <2>3, <1>0, ReleaseAppends DEF StreamInv
    <3>3. ~registered'
      BY <2>3 DEF Release
    <3>4. \A i \in DOMAIN queue' :
            \/ i \in DOMAIN queue /\ queue'[i] = queue[i]
            \/ i = Len(queue) + 1 /\ queue'[i].chunk = 0 /\ queue'[i].done = status
      BY <1>0, <3>2
    <3>5. \A i \in DOMAIN queue' :
            IF queue'[i].chunk = 0
              THEN ~registered' /\ status' = queue'[i].done
              ELSE queue'[i].chunk <= Len(history')
      BY <2>1, <3>1, <3>3, <3>4
    <3>6. \A i, j \in DOMAIN queue' :
            i < j => /\ queue'[i].chunk # 0
                     /\ queue'[j].chunk = 0 \/ queue'[i].chunk < queue'[j].chunk
      BY <1>0, <3>1, <3>2, <3>4
    <3> QED
      BY <3>5, <3>6 DEF QueueInOrder
  <2> QED
    BY <2>1, <2>2, <2>3
<1>3. ASSUME \/ Start \/ Wake \/ StreamEnds \/ Raises
             \/ \E approved \in BOOLEAN : Answer(approved)
      PROVE QueueInOrder'
  BY <1>3, QuietSteps DEF StreamInv, QueueInOrder
<1>4. ASSUME NEW s \in Subscribers, StreamStep(s) \/ Open(s) \/ Leave(s) PROVE QueueInOrder'
  <2>1. /\ UNCHANGED <<registered, history>>
        /\ ~registered => status' = status
    BY <1>4, StreamSteps DEF StreamInv, RowMatchesTask
  <2>2. CASE UNCHANGED queue
    BY <2>1, <2>2 DEF StreamInv, QueueInOrder
  <2>3. CASE Takes(s)
    <3>1. /\ DOMAIN queue' = 1 .. Len(queue') /\ Len(queue) = Len(queue') + 1
          /\ \A i \in DOMAIN queue' : queue'[i] = queue[i + 1] /\ i + 1 \in DOMAIN queue
      BY <2>3, TakeShifts DEF StreamInv, Takes, TakeChunk
    <3>2. \A i \in DOMAIN queue' :
            IF queue'[i].chunk = 0
              THEN ~registered' /\ status' = queue'[i].done
              ELSE queue'[i].chunk <= Len(history')
      BY <2>1, <3>1 DEF StreamInv, QueueInOrder
    <3>3. ASSUME NEW i \in DOMAIN queue', NEW j \in DOMAIN queue', i < j
          PROVE  /\ queue'[i].chunk # 0
                 /\ queue'[j].chunk = 0 \/ queue'[i].chunk < queue'[j].chunk
      <4>1. /\ queue'[i] = queue[i + 1] /\ i + 1 \in DOMAIN queue
            /\ queue'[j] = queue[j + 1] /\ j + 1 \in DOMAIN queue
        BY <3>1
      <4>2. i + 1 < j + 1
        BY <1>0, <3>1, <3>3
      <4> QED
        BY <4>1, <4>2 DEF StreamInv, QueueInOrder
    <3> QED
      BY <3>2, <3>3 DEF QueueInOrder
  <2> QED
    BY <1>4, <2>2, <2>3, StreamSteps
<1> QED
  BY <1>1, <1>2, <1>3, <1>4, WhoSteps

LEMMA EndingStep == StreamInv /\ Next => EndingIsTrue'
<1> SUFFICES ASSUME StreamInv, Next PROVE EndingIsTrue'
  OBVIOUS
<1>1. ASSUME Token \/ ErrorChunk \/ AskApproval PROVE EndingIsTrue'
  BY <1>1, PutSteps DEF StreamInv, EndingIsTrue, streamVars
<1>2. ASSUME Close \/ TaskCancelled PROVE EndingIsTrue'
  BY <1>2, ReleaseSteps DEF StreamInv, EndingIsTrue, streamVars
<1>3. ASSUME \/ Start \/ Wake \/ StreamEnds \/ Raises
             \/ \E approved \in BOOLEAN : Answer(approved)
      PROVE EndingIsTrue'
  BY <1>3, QuietSteps DEF StreamInv, EndingIsTrue, streamVars
<1>4. ASSUME NEW s \in Subscribers, StreamStep(s) \/ Open(s) \/ Leave(s) PROVE EndingIsTrue'
  <2>1. status \in Ended => status' = status
    BY <1>4, StreamSteps
  <2>2. ASSUME NEW t \in Subscribers \ {s}
        PROVE  /\ phase'[t] # "over" => ending'[t] = "none"
               /\ ending'[t] = "completed" => status' = "completed"
               /\ ending'[t] = "failed" =>
                    status' = "failed" \/ (approves' /\ status' = "completed")
               /\ ending'[t] = "error" => status' = "failed" /\ task' \in {"closing", "none"}
    BY <1>4, <2>1, StreamSteps DEF StreamInv, EndingIsTrue, Ended
  <2>3. /\ phase'[s] # "over" => ending'[s] = "none"
        /\ ending'[s] = "completed" => status' = "completed"
        /\ ending'[s] = "failed" =>
             status' = "failed" \/ (approves' /\ status' = "completed")
        /\ ending'[s] = "error" => status' = "failed" /\ task' \in {"closing", "none"}
    <3> USE DEF StreamInv, Over, Moves, runVars, entryVars
    <3>0. /\ phase \in [Subscribers -> Phases]
          /\ ending \in [Subscribers -> Ended \cup Endings]
          /\ phase[s] # "over" => ending[s] = "none"
          /\ ending[s] = "completed" => status = "completed"
          /\ ending[s] = "failed" => status = "failed" \/ (approves /\ status = "completed")
          /\ ending[s] = "error" => status = "failed" /\ task \in {"closing", "none"}
      BY DEF TypeOK, EndingIsTrue
    <3>1. CASE ReplayHistory(s)
      <4>1. Len(got[s]) + 1 \in DOMAIN history
        BY <3>1, LenProperties DEF ReplayHistory, TypeOK
      <4>2. history[Len(got[s]) + 1] = "error" => status = "failed" /\ task \in {"closing", "none"}
        BY <4>1 DEF ErrorIsLast
      <4>3. status' = status /\ task' = task /\ approves' = approves
        BY <3>1 DEF ReplayHistory
      <4> QED
        BY <3>0, <3>1, <4>2, <4>3 DEF ReplayHistory
    <3>2. CASE HistoryReplayed(s) \/ BeginsWait(s)
      BY <3>0, <3>2 DEF HistoryReplayed, BeginsWait
    <3>3. CASE Takes(s)
      <4>1. /\ Head(queue) = queue[1] /\ 1 \in DOMAIN queue /\ queue[1].chunk \in Nat
        BY <3>3, TakeShifts DEF Takes, TakeChunk, QueueItems
      <4>2. CASE queue[1].chunk = 0
        <5>1. queue[1].done = status
          BY <4>1, <4>2 DEF QueueInOrder
        <5>2. ending'[s] = status /\ phase'[s] = "over" /\ status' = status
          BY <3>0, <3>3, <4>1, <4>2, <5>1 DEF Takes, TakeChunk
        <5>3. status # "error"
          BY DEF TypeOK, Active, Ended
        <5> QED
          BY <5>2, <5>3
      <4>3. CASE queue[1].chunk # 0
        <5>1. queue[1].chunk \in DOMAIN history
          BY <4>1, <4>3, LenProperties DEF QueueInOrder, TypeOK
        <5>2. history[queue[1].chunk] = "error" => status = "failed" /\ task \in {"closing", "none"}
          BY <5>1 DEF ErrorIsLast
        <5> QED
          BY <3>0, <3>3, <4>1, <4>3, <5>2 DEF Takes, TakeChunk, LastKinds
      <4> QED
        BY <4>2, <4>3
    <3>4. CASE WaitedInVain(s)
      BY <3>0, <3>4 DEF WaitedInVain, Ended
    <3>5. CASE Open(s)
      BY <3>0, <3>5 DEF Open
    <3>6. CASE Leave(s)
      BY <3>0, <3>6 DEF Leave
    <3> QED
      BY <1>4, <3>1, <3>2, <3>3, <3>4, <3>5, <3>6, StreamCases
  <2> QED
    BY <2>2, <2>3 DEF EndingIsTrue
<1> QED
  BY <1>1, <1>2, <1>3, <1>4, WhoSteps

\* A client that acts is no longer one that has never come.
LEMMA ActorIsKnown ==
  ASSUME StreamInv, NEW s \in Subscribers, StreamStep(s) \/ Open(s) \/ Leave(s)
  PROVE  /\ \A t \in Subscribers \ {s} : ~Alone(t)'
         /\ Alone(s)' <=> Alone(s)
<1>1. phase'[s] # "idle"
  <2>1. phase \in [Subscribers -> Phases]
    BY DEF StreamInv, TypeOK
  <2> QED
    BY <2>1, StreamCases DEF ReplayHistory, HistoryReplayed, BeginsWait, Takes, TakeChunk,
                WaitedInVain, Open, Leave, Over, Moves, FirstPhase, runVars, entryVars
<1>2. \A t \in Subscribers \ {s} : phase'[t] = phase[t]
  BY StreamSteps
<1> QED
  BY <1>1, <1>2 DEF Alone

LEMMA SoleStep == StreamInv /\ Next => SoleStreamMisses'
<1> SUFFICES ASSUME StreamInv, Next PROVE SoleStreamMisses'
  OBVIOUS
<1>0. /\ history \in Seq(Kinds) /\ DOMAIN history = 1 .. Len(history) /\ Len(history) \in Nat
      /\ queue \in Seq(QueueItems) /\ DOMAIN queue = 1 .. Len(queue) /\ Len(queue) \in Nat
      /\ \A i \in DOMAIN queue : queue[i].chunk \in Nat
      /\ phase \in [Subscribers -> Phases] /\ ending \in [Subscribers -> Ended \cup Endings]
      /\ got \in [Subscribers -> Seq(1 .. MaxChunks)]
      /\ \A s \in Subscribers :
           /\ got[s] \in Seq(1 .. MaxChunks)
           /\ DOMAIN got[s] = 1 .. Len(got[s]) /\ Len(got[s]) \in Nat
      /\ MaxChunks \in Nat /\ Len(history) <= MaxChunks
  BY BoundsAssumption DEF StreamInv, TypeOK, QueueItems
<1>1. ASSUME Token \/ ErrorChunk \/ AskApproval PROVE SoleStreamMisses'
  <2>1. PICK kinds \in Seq(Kinds) : Put(kinds)
    BY <1>1, PutSteps
  <2>2. status = "running" /\ UNCHANGED streamVars
    BY <1>1, PutSteps
  <2>3. /\ Len(history') = Len(history) + Len(kinds) /\ Len(kinds) \in Nat
        /\ DOMAIN history' = 1 .. Len(history')
        /\ DOMAIN kinds = 1 .. Len(kinds) /\ DOMAIN queue' = 1 .. Len(queue')
        /\ Len(queue') = Len(queue) + Len(kinds)
        /\ \A i \in DOMAIN queue : queue'[i] = queue[i]
        /\ \A i \in DOMAIN kinds :
             queue'[Len(queue) + i] = [chunk |-> Len(history) + i, done |-> "no"]
    BY <2>1, PutAppends DEF StreamInv, TypeOK
  <2>4. Queued' = Queued \cup (Len(history) + 1 .. Len(history'))
    <3>1. ASSUME NEW c \in Queued' PROVE c \in Queued \cup (Len(history) + 1 .. Len(history'))
      <4>1. PICK i \in DOMAIN queue' : c = queue'[i].chunk /\ c # 0
        BY DEF Queued
      <4>2. CASE i \in DOMAIN queue
        BY <4>1, <4>2, <2>3 DEF Queued
      <4>3. CASE i \notin DOMAIN queue
        <5>1. i - Len(queue) \in DOMAIN kinds /\ i = Len(queue) + (i - Len(queue))
          BY <1>0, <2>3, <4>3
        <5>2. queue'[i] = [chunk |-> Len(history) + (i - Len(queue)), done |-> "no"]
          BY <2>3, <5>1, Zenon
        <5>3. c = Len(history) + (i - Len(queue))
          BY <4>1, <5>2
        <5> QED
          BY <1>0, <2>3, <5>1, <5>3
      <4> QED
        BY <4>2, <4>3
    <3>2. ASSUME NEW c \in Queued PROVE c \in Queued'
      <4>1. PICK i \in DOMAIN queue : c = queue[i].chunk /\ c # 0
        BY DEF Queued
      <4>2. i \in DOMAIN queue' /\ queue'[i] = queue[i]
        BY <1>0, <2>3
      <4> QED
        BY <4>1, <4>2 DEF Queued
    <3>3. ASSUME NEW c \in Len(history) + 1 .. Len(history') PROVE c \in Queued'
      <4>1. /\ c - Len(history) \in DOMAIN kinds /\ c = Len(history) + (c - Len(history))
            /\ Len(queue) + (c - Len(history)) \in DOMAIN queue' /\ c # 0
        BY <1>0, <2>3
      <4>2. queue'[Len(queue) + (c - Len(history))]
              = [chunk |-> Len(history) + (c - Len(history)), done |-> "no"]
        BY <2>3, <4>1, Zenon
      <4>3. queue'[Len(queue) + (c - Len(history))].chunk = c
        BY <4>1, <4>2
      <4> QED
        BY <4>1, <4>3 DEF Queued
    <3> QED
      BY <3>1, <3>2, <3>3
  <2> SUFFICES ASSUME NEW s \in Subscribers
               PROVE  /\ phase'[s] = "history" =>
                           /\ Len(got'[s]) <= Len(history')
                           /\ \A i \in DOMAIN got'[s] : got'[s][i] = i
                      /\ Alone(s)' /\ phase'[s] \in {"queue", "getting"} =>
                           Received(s)' \cup Queued' = DOMAIN history'
                      /\ Alone(s)' /\ (phase'[s] = "getting"
                                       \/ ending'[s] \in {"completed", "failed", "error"}) =>
                           1 .. due'[s] \subseteq Received(s)'
    BY DEF SoleStreamMisses
  <2>5. Alone(s)' = Alone(s) /\ Received(s)' = Received(s)
    BY <2>2 DEF Alone, Received, streamVars
  <2>6. DOMAIN history' = DOMAIN history \cup (Len(history) + 1 .. Len(history'))
    BY <1>0, <2>3
  <2> QED
    BY <1>0, <2>2, <2>3, <2>4, <2>5, <2>6 DEF StreamInv, SoleStreamMisses, streamVars
<1>2. ASSUME Close \/ TaskCancelled PROVE SoleStreamMisses'
  <2>1. status \in Ended /\ UNCHANGED <<history, streamVars>>
    BY <1>2, ReleaseSteps
  <2>2. Queued' = Queued
    <3>1. CASE UNCHANGED queue
      BY <3>1 DEF Queued
    <3>2. CASE Release(status)
      <4>1. /\ DOMAIN queue' = 1 .. Len(queue) + 1
            /\ \A i \in DOMAIN queue : queue'[i] = queue[i]
            /\ queue'[Len(queue) + 1].chunk = 0
        <5>1. /\ queue' \in Seq(QueueItems) /\ Len(queue') = Len(queue) + 1
              /\ \A i \in DOMAIN queue : queue'[i] = queue[i]
              /\ queue'[Len(queue) + 1] = [chunk |-> 0, done |-> status]
          BY <2>1, <3>2, ReleaseAppends DEF StreamInv
        <5> QED
          BY <5>1
      <4>2. DOMAIN queue' = DOMAIN queue \cup {Len(queue) + 1}
        BY <1>0, <4>1
      <4> QED
        BY <4>1, <4>2 DEF Queued
    <3> QED
      BY <1>2, <3>1, <3>2, ReleaseSteps
  <2>3. \A s \in Subscribers : Alone(s)' = Alone(s) /\ Received(s)' = Received(s)
    BY <2>1 DEF Alone, Received, streamVars
  <2> QED
    BY <2>1, <2>2, <2>3 DEF StreamInv, SoleStreamMisses, streamVars
<1>3. ASSUME \/ Start \/ Wake \/ StreamEnds \/ Raises
             \/ \E approved \in BOOLEAN : Answer(approved)
      PROVE SoleStreamMisses'
  <2>1. UNCHANGED <<history, queue, streamVars>>
    BY <1>3, QuietSteps
  <2>2. \A s \in Subscribers : Alone(s)' = Alone(s) /\ Received(s)' = Received(s)
    BY <2>1 DEF Alone, Received, streamVars
  <2> QED
    BY <2>1, <2>2 DEF StreamInv, SoleStreamMisses, streamVars, Queued
<1>4. ASSUME NEW s \in Subscribers, StreamStep(s) \/ Open(s) \/ Leave(s)
      PROVE SoleStreamMisses'
  <2>1. history' = history
    BY <1>4, StreamSteps
  <2>2. ASSUME NEW t \in Subscribers \ {s}
        PROVE  /\ phase'[t] = "history" =>
                    /\ Len(got'[t]) <= Len(history')
                    /\ \A i \in DOMAIN got'[t] : got'[t][i] = i
               /\ ~Alone(t)'
    BY <1>4, <2>1, StreamSteps, ActorIsKnown DEF StreamInv, SoleStreamMisses
  <2>3. /\ phase'[s] = "history" =>
             /\ Len(got'[s]) <= Len(history)
             /\ \A i \in DOMAIN got'[s] : got'[s][i] = i
        /\ Alone(s) /\ phase'[s] \in {"queue", "getting"} =>
             Received(s)' \cup Queued' = DOMAIN history
        /\ Alone(s) /\ (phase'[s] = "getting" \/ ending'[s] \in {"completed", "failed", "error"}) =>
             1 .. due'[s] \subseteq Received(s)'
    <3> USE DEF Over, Moves, runVars, entryVars
    <3>0. /\ phase[s] = "history" =>
               /\ Len(got[s]) <= Len(history)
               /\ \A i \in DOMAIN got[s] : got[s][i] = i
          /\ Alone(s) /\ phase[s] \in {"queue", "getting"} =>
               Received(s) \cup Queued = DOMAIN history
          /\ Alone(s) /\ (phase[s] = "getting" \/ ending[s] \in {"completed", "failed", "error"}) =>
               1 .. due[s] \subseteq Received(s)
          /\ phase[s] # "over" => ending[s] = "none"
      BY DEF StreamInv, SoleStreamMisses, EndingIsTrue
    <3>1. Queued \subseteq DOMAIN history
      BY <1>0 DEF StreamInv, QueueInOrder, Queued
    <3>2. CASE ReplayHistory(s)
      <4> DEFINE next == Len(got[s]) + 1
      <4>1. next \in DOMAIN history /\ next \in 1 .. MaxChunks
        BY <1>0, <3>2 DEF ReplayHistory
      <4>2. got'[s] = Append(got[s], next)
        BY <1>0, <3>2 DEF ReplayHistory, Receives
      <4>3. DOMAIN got'[s] = 1 .. next /\ Len(got'[s]) = next /\ \A i \in DOMAIN got'[s] : got'[s][i] = i
        BY <1>0, <3>0, <3>2, <4>1, <4>2 DEF ReplayHistory
      <4>4. CASE history[next] = "error"
        <5>1. next = Len(history)
          BY <4>1, <4>4 DEF StreamInv, ErrorIsLast
        <5>2. Received(s)' = DOMAIN history
          <6>1. DOMAIN got'[s] = DOMAIN history
            BY <1>0, <4>3, <5>1
          <6> QED
            BY <4>3, <6>1 DEF Received
        <5>3. phase'[s] = "over" /\ due'[s] = Len(history)
          BY <1>0, <3>2, <4>4, Seen DEF StreamInv, ReplayHistory, Phases
        <5> QED
          BY <1>0, <5>2, <5>3
      <4>5. CASE history[next] # "error"
        <5>1. phase'[s] = "history" /\ ending'[s] = "none"
          BY <3>0, <3>2, <4>5 DEF ReplayHistory
        <5> QED
          BY <1>0, <4>1, <4>3, <5>1
      <4> QED
        BY <4>4, <4>5
    <3>3. CASE HistoryReplayed(s)
      <4>1. /\ phase'[s] = "queue" /\ ending'[s] = "none" /\ got' = got /\ queue' = queue
            /\ Len(got[s]) = Len(history) /\ \A i \in DOMAIN got[s] : got[s][i] = i
        BY <1>0, <3>0, <3>3 DEF HistoryReplayed
      <4>2. Received(s)' = DOMAIN history
        BY <1>0, <4>1 DEF Received
      <4>3. Queued' = Queued
        BY <4>1 DEF Queued
      <4> QED
        BY <3>1, <4>1, <4>2, <4>3
    <3>4. CASE BeginsWait(s)
      <4>1. /\ got' = got /\ queue' = queue /\ phase[s] = "queue"
            /\ \/ phase'[s] = "over" /\ ending'[s] = "cancelled"
               \/ /\ phase'[s] = "getting" /\ ending'[s] = "none" /\ queue = <<>>
                  /\ due'[s] = Len(history)
        BY <1>0, <3>0, <3>4, Seen DEF StreamInv, BeginsWait, Phases
      <4>2. Received(s)' = Received(s) /\ Queued' = Queued /\ (queue = <<>> => Queued = {})
        BY <4>1 DEF Received, Queued
      <4> QED
        BY <1>0, <3>0, <4>1, <4>2
    <3>5. CASE WaitedInVain(s)
      <4>1. /\ got' = got /\ queue' = queue /\ due' = due /\ phase[s] = "getting"
            /\ phase'[s] \in {"over", "queue"}
            /\ phase'[s] = "queue" => ending'[s] = "none"
        BY <1>0, <3>5 DEF WaitedInVain, Ended
      <4>2. Received(s)' = Received(s) /\ Queued' = Queued
        BY <4>1 DEF Received, Queued
      <4> QED
        BY <3>0, <4>1, <4>2
    <3>6. CASE Open(s)
      <4>1. got'[s] = <<>> /\ queue' = queue
        BY <1>0, <3>6 DEF Open
      <4>2. ending'[s] \in {"none", "replayed"} /\ phase'[s] # "getting"
        BY <1>0, <3>6 DEF Open, FirstPhase
      <4>3. phase'[s] = "queue" => history = <<>>
        BY <1>0, <3>6 DEF Open, FirstPhase
      <4>4. Received(s)' = {} /\ Queued' = Queued
        BY <4>1 DEF Received, Queued
      <4>5. Len(got'[s]) <= Len(history) /\ \A i \in DOMAIN got'[s] : got'[s][i] = i
        BY <1>0, <4>1
      <4>6. phase'[s] = "queue" => Queued = {} /\ DOMAIN history = {}
        BY <3>1, <4>3
      <4> QED
        BY <4>2, <4>4, <4>5, <4>6
    <3>7. CASE Leave(s)
      BY <1>0, <3>7 DEF Leave
    <3>8. CASE Takes(s)
      <4>1. /\ Head(queue) = queue[1] /\ 1 \in DOMAIN queue /\ queue[1].chunk \in Nat
            /\ DOMAIN queue' = 1 .. Len(queue') /\ Len(queue) = Len(queue') + 1
            /\ \A i \in DOMAIN queue' : queue'[i] = queue[i + 1] /\ i + 1 \in DOMAIN queue
            /\ phase[s] \in {"queue", "getting"} /\ Len(queue') \in Nat
        <5>1. /\ Head(queue) = queue[1] /\ 1 \in DOMAIN queue
              /\ queue' \in Seq(QueueItems) /\ Len(queue) = Len(queue') + 1
              /\ \A i \in DOMAIN queue' : queue'[i] = queue[i + 1] /\ i + 1 \in DOMAIN queue
              /\ phase[s] \in {"queue", "getting"}
          BY <3>8, TakeShifts DEF StreamInv, Takes, TakeChunk
        <5>2. Len(queue') \in Nat /\ DOMAIN queue' = 1 .. Len(queue')
          BY <5>1
        <5> QED
          BY <1>0, <5>1, <5>2
      <4>2. CASE queue[1].chunk = 0
        <5>1. Queued = {}
          <6>1. \A j \in DOMAIN queue : ~(1 < j)
            BY <4>1, <4>2 DEF StreamInv, QueueInOrder
          <6>2. DOMAIN queue = {1}
            BY <1>0, <4>1, <6>1
          <6> QED
            BY <4>2, <6>2 DEF Queued
        <5>2. got' = got /\ phase'[s] = "over" /\ due'[s] = Len(history)
          BY <1>0, <3>8, <4>1, <4>2, Seen DEF StreamInv, Phases, Takes, TakeChunk
        <5>3. Received(s)' = Received(s)
          BY <5>2 DEF Received
        <5> QED
          BY <1>0, <3>0, <4>1, <5>1, <5>2, <5>3
      <4>3. CASE queue[1].chunk # 0
        <5> DEFINE c == queue[1].chunk
        <5>1. c \in DOMAIN history /\ c \in 1 .. MaxChunks
          <6>1. queue[1].chunk <= Len(history)
            BY <4>1, <4>3 DEF StreamInv, QueueInOrder
          <6>2. queue[1].chunk \in 1 .. Len(history)
            BY <1>0, <4>1, <4>3, <6>1
          <6> QED
            BY <1>0, <6>2
        <5>2. got'[s] = Append(got[s], c)
          BY <1>0, <3>8, <4>1, <4>3 DEF Takes, TakeChunk, Receives
        <5>3. Received(s)' = Received(s) \cup {c}
          <6>1. /\ DOMAIN got'[s] = DOMAIN got[s] \cup {Len(got[s]) + 1}
                /\ \A i \in DOMAIN got[s] : got'[s][i] = got[s][i]
                /\ got'[s][Len(got[s]) + 1] = c
            BY <1>0, <5>1, <5>2
          <6> QED
            BY <6>1 DEF Received
        <5>4. Queued = Queued' \cup {c}
          <6>1. ASSUME NEW i \in DOMAIN queue
                PROVE  i = 1 \/ (i - 1 \in DOMAIN queue' /\ queue'[i - 1] = queue[i])
            <7>1. CASE i # 1
              <8>1. i - 1 \in DOMAIN queue' /\ (i - 1) + 1 = i
                BY <1>0, <4>1, <7>1
              <8> QED
                BY <4>1, <8>1, Zenon
            <7> QED
              BY <7>1
          <6>2. Queued \subseteq Queued' \cup {c}
            BY <6>1 DEF Queued
          <6>3. Queued' \subseteq Queued
            BY <4>1 DEF Queued
          <6>4. c \in Queued
            BY <4>1, <4>3 DEF Queued
          <6> QED
            BY <6>2, <6>3, <6>4
        <5>5. history[c] = "error" => Queued' = {}
          <6> SUFFICES ASSUME history[c] = "error", NEW i \in DOMAIN queue'
                       PROVE  queue'[i].chunk = 0
            BY DEF Queued
          <6>1. c = Len(history)
            BY <5>1 DEF StreamInv, ErrorIsLast
          <6>2. i + 1 \in DOMAIN queue /\ queue'[i] = queue[i + 1] /\ 1 < i + 1
            BY <4>1
          <6>3. queue[i + 1].chunk = 0 \/ c < queue[i + 1].chunk
            BY <4>1, <6>2 DEF StreamInv, QueueInOrder
          <6>4. queue[i + 1].chunk <= Len(history)
            BY <1>0, <6>2 DEF StreamInv, QueueInOrder
          <6> QED
            BY <1>0, <6>1, <6>2, <6>3, <6>4
        <5>6. \/ /\ phase'[s] = "over" /\ history[c] \in LastKinds /\ ending'[s] = history[c]
                 /\ due'[s] = Len(history)
              \/ phase'[s] = "queue" /\ ending'[s] = "none"
          <6>1. CASE history[c] \in LastKinds
            <7>1. /\ Moves(s, "over") /\ "over" \in Phases
                  /\ ending' = [ending EXCEPT ![s] = history[c]]
              BY <3>8, <4>1, <4>3, <6>1 DEF Takes, TakeChunk, Phases
            <7> QED
              BY <1>0, <6>1, <7>1, Seen DEF StreamInv
          <6>2. CASE history[c] \notin LastKinds
            BY <1>0, <3>0, <3>8, <4>1, <4>3, <6>2, Seen DEF StreamInv, Phases, Takes, TakeChunk
          <6> QED
            BY <6>1, <6>2
        <5>7. Alone(s) => Received(s) \cup Queued = DOMAIN history
          BY <3>0, <4>1
        <5> HIDE DEF c
        <5> QED
          BY <1>0, <5>3, <5>4, <5>5, <5>6, <5>7 DEF LastKinds
      <4> QED
        BY <4>2, <4>3
    <3> QED
      BY <1>4, <3>2, <3>3, <3>4, <3>5, <3>6, <3>7, <3>8, StreamCases
  <2>4. Alone(s)' <=> Alone(s)
    BY <1>4, ActorIsKnown
  <2> QED
    BY <2>1, <2>2, <2>3, <2>4 DEF SoleStreamMisses
<1> QED
  BY <1>1, <1>2, <1>3, <1>4, WhoSteps

LEMMA PromptStep == StreamInv /\ Next => PromptStreamSplits'
<1> SUFFICES ASSUME StreamInv, Next PROVE PromptStreamSplits'
  OBVIOUS
<1>0. /\ history \in Seq(Kinds) /\ Len(history) \in Nat
      /\ queue \in Seq(QueueItems) /\ DOMAIN queue = 1 .. Len(queue) /\ Len(queue) \in Nat
      /\ \A i \in DOMAIN queue : queue[i].chunk \in Nat
      /\ phase \in [Subscribers -> Phases]
      /\ prompt \in [Subscribers -> BOOLEAN]
      /\ got \in [Subscribers -> Seq(1 .. MaxChunks)]
      /\ \A s \in Subscribers :
           /\ got[s] \in Seq(1 .. MaxChunks)
           /\ DOMAIN got[s] = 1 .. Len(got[s]) /\ Len(got[s]) \in Nat
      /\ MaxChunks \in Nat /\ Len(history) <= MaxChunks
  BY BoundsAssumption DEF StreamInv, TypeOK, QueueItems
\* As long as the entry is there, nothing but places is on the queue.
<1>1. ASSUME NEW s \in Subscribers, prompt[s], Alone(s), registered
      PROVE  Len(got[s]) + Len(queue) = Len(history)
  <2>1. /\ Len(got[s]) <= Len(history)
        /\ Len(got[s]) + Len(queue) \in Len(history) .. (Len(history) + 1)
        /\ \A i \in DOMAIN queue :
             IF Len(got[s]) + i <= Len(history)
               THEN queue[i].chunk = Len(got[s]) + i
               ELSE queue[i].chunk = 0
    BY <1>1 DEF StreamInv, PromptStreamSplits
  <2>2. \A i \in DOMAIN queue : queue[i].chunk # 0
    BY <1>1 DEF StreamInv, QueueInOrder
  <2>3. CASE Len(got[s]) + Len(queue) = Len(history) + 1
    <3>0. /\ Len(got[s]) \in Nat /\ Len(queue) \in Nat /\ Len(history) \in Nat
          /\ Len(got[s]) <= Len(history) /\ DOMAIN queue = 1 .. Len(queue)
      BY <1>0, <2>1
    <3>1. Len(queue) \in DOMAIN queue
      BY <2>3, <3>0
    <3>2. queue[Len(queue)].chunk = 0
      BY <2>1, <2>3, <3>0, <3>1
    <3> QED
      BY <2>2, <3>1, <3>2
  <2> QED
    BY <1>0, <2>1, <2>3
<1>2. ASSUME Token \/ ErrorChunk \/ AskApproval PROVE PromptStreamSplits'
  <2>1. PICK kinds \in Seq(Kinds) : Put(kinds)
    BY <1>2, PutSteps
  <2>2. registered /\ UNCHANGED streamVars
    BY <1>2, PutSteps
  <2>3. /\ Len(history') = Len(history) + Len(kinds) /\ Len(kinds) \in Nat
        /\ DOMAIN kinds = 1 .. Len(kinds) /\ DOMAIN queue' = 1 .. Len(queue')
        /\ Len(queue') = Len(queue) + Len(kinds)
        /\ \A i \in DOMAIN queue : queue'[i] = queue[i]
        /\ \A i \in DOMAIN kinds :
             queue'[Len(queue) + i] = [chunk |-> Len(history) + i, done |-> "no"]
    BY <2>1, PutAppends DEF StreamInv, TypeOK
  <2> SUFFICES ASSUME NEW s \in Subscribers, prompt[s]
               PROVE  /\ phase[s] \in {"queue", "getting", "over"}
                      /\ Alone(s) =>
                           /\ Len(got[s]) <= Len(history')
                           /\ Len(got[s]) + Len(queue')
                                \in Len(history') .. (Len(history') + 1)
                           /\ \A i \in DOMAIN got[s] : got[s][i] = i
                           /\ \A i \in DOMAIN queue' :
                                IF Len(got[s]) + i <= Len(history')
                                  THEN queue'[i].chunk = Len(got[s]) + i
                                  ELSE queue'[i].chunk = 0
    BY <2>2 DEF PromptStreamSplits, Alone, streamVars
  <2>4. phase[s] \in {"queue", "getting", "over"}
    BY DEF StreamInv, PromptStreamSplits
  <2> SUFFICES ASSUME Alone(s)
               PROVE  /\ Len(got[s]) <= Len(history')
                      /\ Len(got[s]) + Len(queue') \in Len(history') .. (Len(history') + 1)
                      /\ \A i \in DOMAIN got[s] : got[s][i] = i
                      /\ \A i \in DOMAIN queue' :
                           IF Len(got[s]) + i <= Len(history')
                             THEN queue'[i].chunk = Len(got[s]) + i
                             ELSE queue'[i].chunk = 0
    BY <2>4
  <2>5. Len(got[s]) + Len(queue) = Len(history)
    BY <1>1, <2>2
  <2>6. /\ \A i \in DOMAIN got[s] : got[s][i] = i
        /\ \A i \in DOMAIN queue :
             IF Len(got[s]) + i <= Len(history)
               THEN queue[i].chunk = Len(got[s]) + i
               ELSE queue[i].chunk = 0
    BY DEF StreamInv, PromptStreamSplits
  <2>7. ASSUME NEW i \in DOMAIN queue'
        PROVE  Len(got[s]) + i <= Len(history') /\ queue'[i].chunk = Len(got[s]) + i
    <3>1. CASE i \in DOMAIN queue
      BY <1>0, <2>3, <2>5, <2>6, <3>1
    <3>2. CASE i \notin DOMAIN queue
      <4>1. i - Len(queue) \in DOMAIN kinds /\ i = Len(queue) + (i - Len(queue))
        BY <1>0, <2>3, <3>2
      <4>2. queue'[i] = [chunk |-> Len(history) + (i - Len(queue)), done |-> "no"]
        BY <2>3, <4>1, Zenon
      <4>3. queue'[i].chunk = Len(history) + (i - Len(queue))
        BY <4>2
      <4>4. /\ Len(got[s]) \in Nat /\ Len(queue) \in Nat /\ Len(history) \in Nat
            /\ Len(kinds) \in Nat /\ i \in Int /\ i - Len(queue) <= Len(kinds)
            /\ Len(history') = Len(history) + Len(kinds)
        <5>1. Len(got[s]) \in Nat /\ Len(queue) \in Nat /\ Len(history) \in Nat
          BY <1>0
        <5>2. Len(kinds) \in Nat /\ Len(history') = Len(history) + Len(kinds)
          BY <2>3
        <5>3. i - Len(queue) \in 1 .. Len(kinds)
          BY <2>3, <4>1
        <5>4. i \in Int
          BY <1>0, <2>3
        <5> QED
          BY <5>1, <5>2, <5>3, <5>4
      <4>5. /\ Len(history) + (i - Len(queue)) = Len(got[s]) + i
            /\ Len(got[s]) + i <= Len(history')
        <5> DEFINE g == Len(got[s])
                   q == Len(queue)
                   h == Len(history)
                   k == Len(kinds)
        <5>1. /\ g \in Nat /\ q \in Nat /\ h \in Nat /\ k \in Nat /\ i \in Int
              /\ g + q = h /\ i - q <= k /\ Len(history') = h + k
          BY <2>5, <4>4
        <5> HIDE DEF g, q, h, k
        <5>2. h + (i - q) = g + i /\ g + i <= h + k
          BY ONLY <5>1
        <5> QED
          BY <5>1, <5>2 DEF g, q, h, k
      <4> QED
        BY <4>3, <4>5
    <3> QED
      BY <3>1, <3>2
  <2>8. /\ Len(got[s]) <= Len(history')
        /\ Len(got[s]) + Len(queue') \in Len(history') .. (Len(history') + 1)
    BY <1>0, <2>3, <2>5
  <2> QED
    BY <2>6, <2>7, <2>8
<1>3. ASSUME Close \/ TaskCancelled PROVE PromptStreamSplits'
  <2>1. status \in Ended /\ registered /\ UNCHANGED <<history, streamVars>>
    BY <1>3, ReleaseSteps
  <2>2. CASE UNCHANGED queue
    BY <2>1, <2>2 DEF StreamInv, PromptStreamSplits, Alone, streamVars
  <2>3. CASE Release(status)
    <3>1. /\ queue' \in Seq(QueueItems) /\ Len(queue') = Len(queue) + 1
          /\ \A i \in DOMAIN queue : queue'[i] = queue[i]
          /\ queue'[Len(queue) + 1] = [chunk |-> 0, done |-> status]
      BY <2>1, <2>3, ReleaseAppends DEF StreamInv
    <3>2. \A i \in DOMAIN queue' :
            \/ i \in DOMAIN queue /\ queue'[i] = queue[i]
            \/ i = Len(queue) + 1 /\ queue'[i].chunk = 0
      BY <1>0, <3>1
    <3> SUFFICES ASSUME NEW s \in Subscribers, prompt[s]
                 PROVE  /\ phase[s] \in {"queue", "getting", "over"}
                        /\ Alone(s) =>
                             /\ Len(got[s]) <= Len(history)
                             /\ Len(got[s]) + Len(queue')
                                  \in Len(history) .. (Len(history) + 1)
                             /\ \A i \in DOMAIN got[s] : got[s][i] = i
                             /\ \A i \in DOMAIN queue' :
                                  IF Len(got[s]) + i <= Len(history)
                                    THEN queue'[i].chunk = Len(got[s]) + i
                                    ELSE queue'[i].chunk = 0
      BY <2>1 DEF PromptStreamSplits, Alone, streamVars
    <3>3. phase[s] \in {"queue", "getting", "over"}
      BY DEF StreamInv, PromptStreamSplits
    <3>4. CASE Alone(s)
      <4>1. Len(got[s]) + Len(queue) = Len(history)
        BY <1>1, <2>1, <3>4
      <4>2. /\ \A i \in DOMAIN got[s] : got[s][i] = i
            /\ \A i \in DOMAIN queue :
                 IF Len(got[s]) + i <= Len(history)
                   THEN queue[i].chunk = Len(got[s]) + i
                   ELSE queue[i].chunk = 0
        BY <3>4 DEF StreamInv, PromptStreamSplits
      <4> QED
        BY <1>0, <3>1, <3>2, <3>3, <4>1, <4>2
    <3> QED
      BY <3>3, <3>4
  <2> QED
    BY <1>3, <2>2, <2>3, ReleaseSteps
<1>4. ASSUME \/ Start \/ Wake \/ StreamEnds \/ Raises
             \/ \E approved \in BOOLEAN : Answer(approved)
      PROVE PromptStreamSplits'
  BY <1>4, QuietSteps DEF StreamInv, PromptStreamSplits, Alone, streamVars
<1>5. ASSUME NEW s \in Subscribers, StreamStep(s) \/ Open(s) \/ Leave(s)
      PROVE PromptStreamSplits'
  <2>1. history' = history
    BY <1>5, StreamSteps
  <2>2. ASSUME NEW t \in Subscribers \ {s}, prompt'[t]
        PROVE  phase'[t] \in {"queue", "getting", "over"} /\ ~Alone(t)'
    BY <1>5, <2>2, StreamSteps, ActorIsKnown DEF StreamInv, PromptStreamSplits
  <2>3. ASSUME prompt'[s]
        PROVE  /\ phase'[s] \in {"queue", "getting", "over"}
               /\ Alone(s) =>
                    /\ Len(got'[s]) <= Len(history)
                    /\ Len(got'[s]) + Len(queue') \in Len(history) .. (Len(history) + 1)
                    /\ \A i \in DOMAIN got'[s] : got'[s][i] = i
                    /\ \A i \in DOMAIN queue' :
                         IF Len(got'[s]) + i <= Len(history)
                           THEN queue'[i].chunk = Len(got'[s]) + i
                           ELSE queue'[i].chunk = 0
    <3> USE DEF Over, Moves, runVars, entryVars
    <3>0. prompt[s] =>
            /\ phase[s] \in {"queue", "getting", "over"}
            /\ Alone(s) =>
                 /\ Len(got[s]) <= Len(history)
                 /\ Len(got[s]) + Len(queue) \in Len(history) .. (Len(history) + 1)
                 /\ \A i \in DOMAIN got[s] : got[s][i] = i
                 /\ \A i \in DOMAIN queue :
                      IF Len(got[s]) + i <= Len(history)
                        THEN queue[i].chunk = Len(got[s]) + i
                        ELSE queue[i].chunk = 0
      BY DEF StreamInv, PromptStreamSplits
    <3>1. CASE ReplayHistory(s) \/ HistoryReplayed(s)
      BY <2>3, <3>0, <3>1 DEF ReplayHistory, HistoryReplayed
    <3>2. CASE BeginsWait(s) \/ WaitedInVain(s)
      <4>1. /\ got' = got /\ queue' = queue /\ prompt' = prompt
            /\ phase'[s] \in {"queue", "getting", "over"}
        BY <1>0, <3>2 DEF BeginsWait, WaitedInVain
      <4> QED
        BY <2>3, <3>0, <4>1
    <3>3. CASE Open(s)
      <4>1. /\ registered /\ history = <<>> /\ got'[s] = <<>> /\ queue' = queue
            /\ phase'[s] = "queue"
        BY <1>0, <2>3, <3>3 DEF Open, FirstPhase
      <4>2. \A i \in DOMAIN queue : queue[i].chunk # 0 /\ queue[i].chunk <= Len(history)
        BY <4>1 DEF StreamInv, QueueInOrder
      <4>3. DOMAIN queue = {}
        BY <1>0, <4>1, <4>2
      <4>4. Len(queue) = 0
        BY <1>0, <4>3
      <4> QED
        BY <1>0, <4>1, <4>3, <4>4
    <3>4. CASE Leave(s)
      BY <1>0, <2>3, <3>4 DEF Leave
    <3>5. CASE Takes(s)
      <4>1. /\ Head(queue) = queue[1] /\ 1 \in DOMAIN queue
            /\ queue' \in Seq(QueueItems) /\ Len(queue) = Len(queue') + 1
            /\ \A i \in DOMAIN queue' : queue'[i] = queue[i + 1] /\ i + 1 \in DOMAIN queue
            /\ prompt[s]
        BY <2>3, <3>5, TakeShifts DEF StreamInv, Takes, TakeChunk
      <4>2. DOMAIN queue' = 1 .. Len(queue') /\ Len(queue') \in Nat
        BY <4>1
      <4>3. phase'[s] \in {"queue", "over"}
        BY <1>0, <3>5 DEF Takes, TakeChunk
      <4>4. CASE ~Alone(s)
        BY <4>3, <4>4
      <4>5. CASE Alone(s) /\ queue[1].chunk = 0
        <5>1. got' = got
          BY <3>5, <4>1, <4>5 DEF Takes, TakeChunk
        <5>2. Len(got[s]) = Len(history) /\ \A i \in DOMAIN got[s] : got[s][i] = i
          <6>1. /\ Len(got[s]) <= Len(history)
                /\ Len(got[s]) \in Nat /\ Len(history) \in Nat
                /\ \A i \in DOMAIN got[s] : got[s][i] = i
            BY <1>0, <3>0, <4>1, <4>5
          <6>2. IF Len(got[s]) + 1 <= Len(history)
                  THEN queue[1].chunk = Len(got[s]) + 1
                  ELSE queue[1].chunk = 0
            BY <3>0, <4>1, <4>5
          <6> QED
            BY <4>5, <6>1, <6>2
        <5>3. Len(queue') = 0
          BY <1>0, <3>0, <4>1, <4>2, <4>5, <5>2
        <5> QED
          BY <1>0, <4>2, <4>3, <5>1, <5>2, <5>3
      <4>6. CASE Alone(s) /\ queue[1].chunk # 0
        <5> DEFINE c == queue[1].chunk
        <5>1. /\ c = Len(got[s]) + 1 /\ Len(got[s]) + 1 <= Len(history)
              /\ Len(got[s]) + Len(queue) \in Len(history) .. (Len(history) + 1)
              /\ \A i \in DOMAIN got[s] : got[s][i] = i
              /\ \A i \in DOMAIN queue :
                   IF Len(got[s]) + i <= Len(history)
                     THEN queue[i].chunk = Len(got[s]) + i
                     ELSE queue[i].chunk = 0
          BY <3>0, <4>1, <4>6
        <5>2. c \in 1 .. MaxChunks
          BY <1>0, <5>1
        <5>3. got'[s] = Append(got[s], c)
          BY <1>0, <3>5, <4>1, <4>6 DEF Takes, TakeChunk, Receives
        <5> HIDE DEF c
        <5>4. /\ Len(got'[s]) = Len(got[s]) + 1
              /\ \A i \in DOMAIN got'[s] : got'[s][i] = i
          BY <1>0, <5>1, <5>2, <5>3
        <5>5. ASSUME NEW i \in DOMAIN queue'
              PROVE  IF Len(got'[s]) + i <= Len(history)
                       THEN queue'[i].chunk = Len(got'[s]) + i
                       ELSE queue'[i].chunk = 0
          <6>1. i + 1 \in DOMAIN queue /\ queue'[i] = queue[i + 1] /\ i \in Nat
            BY <4>1, <4>2
          <6>2. IF Len(got[s]) + (i + 1) <= Len(history)
                  THEN queue[i + 1].chunk = Len(got[s]) + (i + 1)
                  ELSE queue[i + 1].chunk = 0
            BY <5>1, <6>1
          <6>3. Len(got'[s]) + i = Len(got[s]) + (i + 1)
            BY <1>0, <5>4, <6>1
          <6> QED
            BY <6>1, <6>2, <6>3
        <5>6. /\ Len(got'[s]) <= Len(history)
              /\ Len(got'[s]) + Len(queue') \in Len(history) .. (Len(history) + 1)
          BY <1>0, <4>1, <4>2, <5>1, <5>4
        <5> QED
          BY <4>3, <5>4, <5>5, <5>6
      <4> QED
        BY <4>4, <4>5, <4>6
    <3> QED
      BY <1>5, <3>1, <3>2, <3>3, <3>4, <3>5, StreamCases
  <2>4. Alone(s)' <=> Alone(s)
    BY <1>5, ActorIsKnown
  <2> QED
    BY <2>1, <2>2, <2>3, <2>4 DEF PromptStreamSplits
<1> QED
  BY <1>2, <1>3, <1>4, <1>5, WhoSteps

-----------------------------------------------------------------------------
(* The theorems.                                                            *)

\* The invariant holds of every run of the program, from the creation of the
\* task in POST /runs on: the queue is in order behind the history, and the
\* row has got as far as the task that writes it.
THEOREM StreamInvariant == Spec => []StreamInv
<1>1. Init => StreamInv
  <2> SUFFICES ASSUME Init PROVE StreamInv
    OBVIOUS
  <2>0. /\ <<>> \in Seq(Kinds) /\ <<>> \in Seq(QueueItems) /\ <<>> \in Seq(1 .. MaxChunks)
        /\ Len(<<>>) = 0 /\ DOMAIN <<>> = {}
    OBVIOUS
  <2>1. TypeOK
    <3>1. /\ phase \in [Subscribers -> Phases] /\ prompt \in [Subscribers -> BOOLEAN]
          /\ got \in [Subscribers -> Seq(1 .. MaxChunks)]
          /\ ending \in [Subscribers -> Ended \cup Endings]
      BY <2>0 DEF Init, Phases, Endings
    <3>2. /\ history \in Seq(Kinds) /\ Len(history) <= MaxChunks /\ queue \in Seq(QueueItems)
          /\ streams \in 0 .. MaxStreams /\ due \in [Subscribers -> 0 .. MaxChunks]
      BY <2>0, BoundsAssumption DEF Init
    <3> QED
      BY <3>1, <3>2 DEF Init, TypeOK, Active, Tasks
  <2>2. RowMatchesTask /\ ErrorIsLast /\ QueueInOrder /\ EndingIsTrue
    BY <2>0 DEF Init, RowMatchesTask, ErrorIsLast, QueueInOrder, EndingIsTrue
  <2>3. SoleStreamMisses /\ PromptStreamSplits
    BY DEF Init, SoleStreamMisses, PromptStreamSplits
  <2> QED
    BY <2>1, <2>2, <2>3 DEF StreamInv
<1>2. StreamInv /\ [Next]_vars => StreamInv'
  BY StreamStutters, TypingStep, RowStep, ErrorStep, QueueStep, EndingStep, SoleStep, PromptStep
     DEF StreamInv
<1> QED
  BY <1>1, <1>2, PTL DEF Spec

\* The variables of the run, its entry and the streams keep their types; a
\* final event only ever carries a final status (core/domain/run.py).
THEOREM StreamTypeCorrect == Spec => []TypeOK
<1>1. StreamInv => TypeOK
  BY DEF StreamInv
<1> QED
  BY <1>1, StreamInvariant, PTL

\* A client that streams alone, and is told that the run has completed or
\* failed, has every chunk of the run, however often it has come back.
THEOREM SoleStreamCompletes == Spec => []SoleStreamIsComplete
<1>1. StreamInv => SoleStreamIsComplete
  BY DEF StreamInv, SoleStreamMisses, SoleStreamIsComplete, Received
<1> QED
  BY <1>1, StreamInvariant, PTL

\* A client that streams alone from the beginning has every chunk once and in
\* order: what it has, and what waits for it, is the history.
THEOREM PromptStreamExact == Spec => []PromptStreamIsExact
<1>1. StreamInv => PromptStreamIsExact
  <2> SUFFICES ASSUME StreamInv PROVE PromptStreamIsExact
    OBVIOUS
  <2> DEFINE Places == [i \in DOMAIN history |-> i]
             chunks == [i \in DOMAIN queue |-> queue[i].chunk]
  <2> SUFFICES ASSUME NEW s \in Subscribers, Alone(s), prompt[s]
               PROVE  got[s] \o chunks \in {Places, Append(Places, 0)}
    BY DEF PromptStreamIsExact
  <2>1. /\ Len(got[s]) <= Len(history)
        /\ Len(got[s]) + Len(queue) \in Len(history) .. (Len(history) + 1)
        /\ \A i \in DOMAIN got[s] : got[s][i] = i
        /\ \A i \in DOMAIN queue :
             IF Len(got[s]) + i <= Len(history)
               THEN queue[i].chunk = Len(got[s]) + i
               ELSE queue[i].chunk = 0
    BY DEF StreamInv, PromptStreamSplits
  <2>2. /\ Len(history) \in Nat /\ DOMAIN history = 1 .. Len(history)
        /\ Len(queue) \in Nat /\ DOMAIN queue = 1 .. Len(queue)
        /\ Len(got[s]) \in Nat /\ DOMAIN got[s] = 1 .. Len(got[s])
        /\ got[s] \in Seq(Nat)
        /\ \A i \in DOMAIN queue : queue[i].chunk \in Nat
    <3>1. history \in Seq(Kinds) /\ queue \in Seq(QueueItems) /\ got[s] \in Seq(1 .. MaxChunks)
      BY DEF StreamInv, TypeOK
    <3>2. got[s] \in [1 .. Len(got[s]) -> 1 .. MaxChunks] /\ Len(got[s]) \in Nat
      BY <3>1, LenProperties
    <3>3. got[s] \in Seq(Nat)
      <4>1. got[s] \in [1 .. Len(got[s]) -> Nat]
        BY <3>2
      <4> QED
        BY <3>2, <4>1, SeqDef
    <3>4. \A i \in DOMAIN queue : queue[i].chunk \in Nat
      BY <3>1 DEF QueueItems
    <3> QED
      BY <3>1, <3>3, <3>4
  <2>3. chunks \in Seq(Nat) /\ Len(chunks) = Len(queue)
    BY <2>2
  <2>4. Places \in Seq(Nat) /\ Len(Places) = Len(history)
    BY <2>2
  <2> DEFINE g == Len(got[s])
             q == Len(queue)
             h == Len(history)
             all == got[s] \o chunks
  <2>5. /\ all \in Seq(Nat) /\ Len(all) = g + q
        /\ \A i \in 1 .. g : all[i] = i
        /\ \A i \in 1 .. q : all[g + i] = chunks[i]
    <3> HIDE DEF chunks
    <3>1. /\ got[s] \o chunks \in Seq(Nat) /\ Len(got[s] \o chunks) = Len(got[s]) + Len(chunks)
          /\ \A i \in DOMAIN got[s] : (got[s] \o chunks)[i] = got[s][i]
          /\ \A i \in 1 .. Len(chunks) : (got[s] \o chunks)[Len(got[s]) + i] = chunks[i]
      <4>1. got[s] \in Seq(Nat) /\ chunks \in Seq(Nat)
        BY <2>2, <2>3
      <4> QED
        BY ONLY <4>1, AppendedPart
    <3> QED
      BY <2>1, <2>2, <2>3, <3>1
  <2>6. \A i \in 1 .. q : chunks[i] = IF g + i <= h THEN g + i ELSE 0
    BY <2>1, <2>2
  <2>7. g \in Nat /\ q \in Nat /\ h \in Nat /\ g <= h /\ g + q \in h .. h + 1
    BY <2>1, <2>2
  <2>8. \A i \in 1 .. h : Places[i] = i
    BY <2>2
  <2>9. Len(Places) = h
    BY <2>4
  <2> HIDE DEF g, q, h, all, chunks, Places
  <2>10. \A i \in 1 .. g + q : all[i] = IF i <= h THEN i ELSE 0
    <3> SUFFICES ASSUME NEW i \in 1 .. g + q PROVE all[i] = IF i <= h THEN i ELSE 0
      OBVIOUS
    <3>1. CASE i <= g
      BY <2>5, <2>7, <3>1
    <3>2. CASE ~(i <= g)
      <4>1. i - g \in 1 .. q /\ g + (i - g) = i
        BY <2>7, <3>2
      <4>2. all[i] = chunks[i - g]
        BY <2>5, <4>1, Zenon
      <4>3. chunks[i - g] = IF g + (i - g) <= h THEN g + (i - g) ELSE 0
        BY <2>6, <4>1
      <4> QED
        BY <4>1, <4>2, <4>3
    <3> QED
      BY <3>1, <3>2
  <2>11. CASE g + q = h
    <3>1. Len(all) = Len(Places) /\ \A i \in 1 .. Len(all) : all[i] = Places[i]
      BY <2>5, <2>7, <2>8, <2>9, <2>10, <2>11
    <3>2. all = Places
      BY <2>4, <2>5, <3>1, SeqEqual
    <3> QED
      BY <3>2 DEF all
  <2>12. CASE g + q = h + 1
    <3>1. /\ Append(Places, 0) \in Seq(Nat) /\ Len(Append(Places, 0)) = h + 1
          /\ \A i \in 1 .. h : Append(Places, 0)[i] = Places[i]
          /\ Append(Places, 0)[h + 1] = 0
      BY <2>4, <2>7, <2>9, AppendProperties
    <3>2. \A i \in 1 .. Len(all) : all[i] = Append(Places, 0)[i]
      BY <2>5, <2>7, <2>8, <2>10, <2>12, <3>1
    <3>3. all = Append(Places, 0)
      BY <2>5, <2>7, <2>12, <3>1, <3>2, SeqEqual
    <3> QED
      BY <3>3 DEF all
  <2>13. g + q = h \/ g + q = h + 1
    BY <2>7
  <2>14. all \in {Places, Append(Places, 0)}
    BY <2>11, <2>12, <2>13 DEF all
  <2> QED
    BY <2>14 DEF all
<1> QED
  BY <1>1, StreamInvariant, PTL

\* A stream that reports COMPLETED or FAILED agrees with the row for ever: the
\* cancellation that a leaving subscriber asks for cannot take it back.
THEOREM EndingsAgree == Spec => []EndingMatchesRow
<1>1. StreamInv => EndingMatchesRow
  BY DEF StreamInv, EndingIsTrue, EndingMatchesRow
<1> QED
  BY <1>1, StreamInvariant, PTL

\* Whatever the task, the human and the subscribers do to it, the row moves
\* along ALLOWED_TRANSITIONS (core/domain/transitions.py).
THEOREM StreamRowTransitions == Spec => RowFollowsTransitions
<1>1. StreamInv /\ [Next]_vars => [Row!Next \/ TimeoutApproves]_status
  <2> SUFFICES ASSUME StreamInv, Next, status' # status PROVE Row!Next \/ TimeoutApproves
    BY DEF vars, runVars
  <2>1. CASE ~TimeoutApproves
    <3> SUFFICES <<status, status'>> \in Row!AllowedTransitions /\ status' \in Row!RunStatuses
      BY DEF Row!Next, Row!Moved
    <3> USE DEF StreamInv, RowMatchesTask, Row!AllowedTransitions, Row!RunStatuses,
                runVars, entryVars
    <3>0. status \in Active \cup Ended /\ task \in Tasks
      BY DEF TypeOK
    <3>1. CASE Token \/ ErrorChunk \/ AskApproval
      BY <3>1 DEF Token, ErrorChunk, AskApproval, Running, Ends
    <3>2. CASE Close \/ TaskCancelled
      BY <3>2 DEF Close, TaskCancelled
    <3>3. CASE Start \/ StreamEnds \/ Raises
      BY <3>3 DEF Start, StreamEnds, Raises, Running, Ends
    <3>6. CASE Wake
      <4>1. PICK timedOut \in BOOLEAN :
              /\ status = "suspended" => timedOut
              /\ IF status = "suspended" /\ Outcome(timedOut) = "failed"
                   THEN task' = "none" /\ UNCHANGED status
                   ELSE Ends(Outcome(timedOut))
        BY <3>6 DEF Wake
      <4>2. /\ Ends(Outcome(timedOut)) /\ task = "waiting"
            /\ ~(status = "suspended" /\ Outcome(timedOut) = "failed")
        BY <3>6, <4>1 DEF Wake, Running
      <4>3. CASE status = "running"
        BY <4>2, <4>3 DEF Ends, Outcome
      <4>4. CASE status = "suspended"
        BY <2>1, <4>1, <4>2, <4>4 DEF Ends, Outcome, TimeoutApproves
      <4>5. CASE status = "failed"
        BY <2>1, <4>1, <4>2, <4>5 DEF Ends, Outcome, TimeoutApproves
      <4>6. status \in {"running", "suspended", "failed"}
        BY <3>0, <3>6, <4>2, QuietSteps DEF Active, Ended
      <4> QED
        BY <4>3, <4>4, <4>5, <4>6
    <3>4. CASE \E approved \in BOOLEAN : Answer(approved)
      BY <3>4 DEF Answer
    <3>5. CASE \E s \in Subscribers : StreamStep(s) \/ Open(s) \/ Leave(s)
      <4>1. status' = "cancelled" /\ status \notin Ended
        BY <3>5, StreamSteps
      <4> QED
        BY <3>0, <4>1 DEF Active
    <3> QED
      BY <3>1, <3>2, <3>3, <3>4, <3>5, <3>6, WhoSteps
  <2> QED
    BY <2>1
<1> QED
  BY <1>1, StreamInvariant, PTL DEF Spec, RowFollowsTransitions
=============================================================================
