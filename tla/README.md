# Aicery, specified

Aicery runs LLM agents: a FastAPI **runtime** executes runs as asyncio tasks, a
**gateway** sells access to it, and SDKs and a CLI talk to both.  This directory models
the parts of it that keep state and whose actors really race: the life of a run, the
stream a client reads, what an agent records and a replay repeats, the indexing of files,
the history of a conversation, and the gateway with its limits and its billing.  Each is
model-checked on small instances and proved about for every value of its constants.

## The system

| Component | State | Operations | What is hard | Correct when |
|---|---|---|---|---|
| Run lifecycle (`services/run_service.py`, `run_execution.py`, `transitions.py`, `api/routes/runs.py`) | `run` rows; registry of tasks in memory | create, execute, cancel, resume, finish, fail | handlers and the task write the same row; cancellation arrives at any await; restarts keep rows and lose tasks | the status follows `ALLOWED_TRANSITIONS`; final events agree with the row; no run is stuck |
| Human in the loop (`hitl_service`, `hitl_coordinator`, `hitl_sweeper`, `approval_repository`, `approval_executor`, `chain_hitl`, `graph_run_driver`) | `run_approvals` rows; an asyncio event per run; graph checkpoint | request, wait, resolve, time out, sweep, resume | two ways of waiting; timer against answer; the sweeper's thread reads early and writes late | a gated tool runs only when approved, an approved call is made, decisions are final, every suspension ends |
| SSE stream (`api/routes/stream.py`) | history and queue of chunks | subscribe, replay, watch for disconnect | several subscribers on one queue; history against queue | a subscriber misses nothing; its stream ends and reports the row |
| Agents, trace and replay (`langgraph_orchestrator`, `trace_emitter`, `providers/replay`, `mock_executor`) | trace steps | record, look up | cut previews, equal keys, failing commits, a source that still runs | what was told is recorded; a replay tells it again or has a reason |
| Tools (`registry_executor`, `persisting_executor`, `tracing_executor`, chaos) | `tool_calls` rows | invoke, retry, book, record | handler, row and step are three moments that fail apart | a call has one fate, and row and step agree about it |
| Providers (`providers/*`, metering, router) | usage of the last call | stream, retry, fail over, meter | a failure in the middle of a stream | what was said is recorded and metered |
| Workspace index (`index_job_service`, `intelligence/*`) | `index_jobs`, chunks in Qdrant | ask, read, upsert, finish; search | concurrent jobs on one file; jobs lost at restart; files that change | what a completed job claims is in the index; no row stays running but for a restart or a failing write |
| Hot memory (`redis_hot`, `hot_memory_hooks`) | turns of a conversation in Redis | append, read, compact, expire | commands of several processes interleave; deleting and summarising are apart | no turn is lost without a reason |
| Gateway (`proxy.py`, `quota.py`, `rate_limit.py`, `auth`) | orgs, keys, workspaces, run links, counts | authenticate, count, check, forward, link, access | check, use and booking are far apart; timeouts; counts per process | quota and rates as promised; orgs are isolated |
| Usage export (`usage_service`, `usage_ingest`) | `usage_events` | post, book | sent once, repeated, broken off half-way | booked once, on the right org |
| Billing (`billing.py`, `stripe/webhooks.py`) | tier, customer, subscription row | checkout, event | events late, twice, out of order, handled half | the tier is the one paid for |
| Routing, manifests, sandbox, trace mining, SDKs, CLI, telemetry, admin pages | none shared | - | little | - |

How they meet: handlers and run tasks of a runtime share one event loop and interleave
only at awaits; the sweeper runs in a worker thread (`asyncio.to_thread`) and interleaves
with every database access; all share the database, and processes also share Redis and
Qdrant.  A run's task and the handlers share the `RunExecutionState` in `_registry`.
Gateway and runtime know of each other through forwarded requests, and through the
webhook that a COMPLETED run sends.

## Modules

| Module | What it is |
|---|---|
| `RunStatus` | the abstract specification: each run's status, moving along `ALLOWED_TRANSITIONS` |
| `RunLifecycle` | the detailed one: task, handlers, sweeper, time, restarts; its properties |
| `RunLifecycleInv` | the configuration the theorems are about (`Honest`) and the inductive invariant `IInv` |
| `RunLifecycleProofs` | proved for every configuration: `TypeOK`, `OneOpenApproval` and which calls a run has made; without the sweeper: decisions are final, and who is suspended can be answered |
| `RunLifecycleHonest` | `IInv` and what follows from it, refinement included, proved for `Honest`; then that a RUNNING run has a task |
| `RunStream` | the SSE endpoint: history, shared queue, subscribers, the watcher; the run's task reduced to what a subscriber notices, its row checked against `RunStatus` |
| `RunStreamProofs` | its safety properties, proved |
| `Trace` | steps, previews, keys; appending with commits that fail; looking up |
| `Provider` | a model call through metering, router and adapter, piece by piece; extends `Trace` |
| `Tools` | a tool call through the stack of executors; extends `Provider` |
| `AgentRun` | the built-in agents as programs over both, and replays of them; extends `Tools` |
| `AgentRunProofs` | all its properties, proved |
| `WorkspaceIndex` | index jobs, batches, the index and its search |
| `WorkspaceIndexProofs` | its properties, proved; and the types of both memories, for which it extends `MCMemory` and `HotMemoryProofs` |
| `HotMemory` | the history of a conversation |
| `HotMemoryProofs` | `TurnsKept` and the types, proved |
| `RateLimit` | the fixed-window limiter that gateway and runtime both have |
| `Billing` | checkouts, Stripe and its events |
| `Gateway` | requests, quota, links, usage; composes `Billing` and two instances of `RateLimit`, its own and the runtime's |
| `GatewayProofs` | types, rates, isolation and booking, proved |
| `EntitlementProofs` | the quota and the tier that is paid for, proved; extends `GatewayProofs` |
| `MCRunLifecycle`, `MCRunStream`, `MCAgentRun`, `MCMemory`, `MCGateway` | constants for TLC; `MCMemory` runs `WorkspaceIndex` and `HotMemory`, which share nothing, as alternatives |

### The life of a run: state and code

| Variable | Code |
|---|---|
| `status` | `run.status` in the database (`RunRepository`); `absent` is no row |
| `approval`, `expired` | a `run_approvals` row's decision, and whether `expires_at` has passed |
| `pos` | the durable graph checkpoint: gated calls the graph is past; for other runs how far the stream of the current task got |
| `registered`, `signalled` | an entry of `run_execution._registry`, and its `approval_event` |
| `task`, `cancelReq`, `waitsOn`, `resumed` | the asyncio task: where it is suspended, whether `cancel()` was called, the approval it waits for, and `chain_resume` |
| `request` | a cancel or resume handler between two of its database accesses |
| `sweepList`, `sweeping` | the sweeper's result list and the approval it is working on |
| `executed`, `announced` | gated tools really called and `run.completed` / `run.failed` events published: history, for the properties |
| `crashes` | counts restarts, bounded by `MaxCrashes` |

An action is a piece of code that runs without an await that another callback could use
**and** without a database access the sweeper's thread could separate from another one
with effect.  So `CreateRun` is one action; `resume_run` is four (look up, read the
approval, write the decision, write the run), during which `LoopFree` holds the event
loop; the sweeper's pass is five.  A run meets its gated calls in one of three ways
(`Mode`): `graph` (research-chain, hitl-demo: a LangGraph interrupt, the task ends and a
continuation is spawned by the approval), `executor` (the research agent: the task itself
waits on an event with a timer) and `plugin` (any other graph: the executor's exception
is not caught and fails the run).

Abstractions: an approval is identified by its run and the ordinal of the gated call, the
calls of an executor run being calls of different tools; MODIFY is an approval; output
text, usage and hot memory are one step (`Finish`) that may lose its event; the graph
checkpointer is the durable one.  Two commits of one task with no await between are one
action, with a crash between them as an action of its own (`CrashInsideSuspend`,
`CrashInsideWake`).  A resume that asks for a replay is modelled only where no run is
named to be replayed, so that its continuation cannot be built (`AnyReplaySource`,
`BuildFails`).  Left out as unreachable: the `state.cancelled` check, which only a
state without task would meet, the `GRAPH_CHECKPOINT_PENDING` error, and the sweeper's
branch for an approval without run.

### What an agent does: state and code

| Variable | Code |
|---|---|
| `run`, `pc` | a run with what was asked of it, and how far its agent's program is: `ProgramOf` is the sequence of notes, tool calls and model call of each built-in agent |
| `llm`, `text`, `metered` | the model call in progress (provider, attempt, pieces said); tokens sent to the client; what `MeteringProvider` keeps |
| `call`, `rows`, `heard` | the tool call in progress; `tool_calls`; results that reached the agent (history) |
| `trace` | `trace_steps` |
| `frozen` | what a replay loaded from its source: the model's steps when its orchestrator is built, the tools' and the shared turns when its stream begins |
| `files`, `turns`, `args`, `content` | the workspace; runs in the shared history; the next call's argument and the last one's result |
| `faults`, `hurt` | failures so far, bounded; runs that a failing commit of a step hit (history) |

hitl-demo asks no model, and `on_complete` records what its action returned as an answer, its
usage estimated; a plugin's one tool call stands for the four that the example in
`examples/stock-advisor` makes one after another; whether a node of the chain begins beyond
`max_graph_steps` is a choice (`StepLimit`), as a request may lower the limit.
Statuses are `RunLifecycle`'s business; here a run is only running, suspended or over.
A text is a sequence of pieces (`Words`: files, providers, the dots of a cut) named by who
said them, which is enough to tell what a failed-over or retried stream repeats; a key stands
for the hash of what was asked, whole, while results are kept as previews.  A commit that fails
may have been made (`Trace!Record`, `Tools!HandlerReturns`).  A run whose executor waits for
approval ends at its approval, as `RunLifecycle` finds.

### Index and history: state and code

`WorkspaceIndex`: `job` is the `index_jobs` row or the answer of a request without row,
`work` the locals of `index()` in the job's thread, `index` Qdrant's chunks by id, `files`
the directory; what was asked for is a list of paths, of which `Directory` stands for all
its files.  An action is a file read, cut and embedded, or one upsert of a batch, or
one write of the row; a restart loses `work` and keeps `job`.  Scores, embeddings and
metadata are left out, `top_k` is large enough and a query matches every text, and of the
search's recursion through `search_workspace` only the last level counts.  Blobs are
written and not read again, and are not kept.

`HotMemory`: `list` and `ttl` are the Redis key, `op` what a process is about and what it
has read, `asked` and `kept` the runs that appended a question, or both turns, and
`reasons` why turns may be gone (history).  An action is one Redis command, or RPUSH with
its EXPIRE where only a break-off comes between.  A turn's `text` is short (under 12
characters: never quoted), whole, or long (quoted by its beginning, `begun`): `Lengths` gives
one of these to each turn.  Compaction begins at a number of turns; the threshold in
characters is left out.

### The gateway: state and code

| Variable | Code |
|---|---|
| `orgs`, `keyed`, `spaces` | rows: orgs, those with an active key, workspaces (org and id in the runtime) |
| `req`, `link` | where a request's handler is, its org, target, minute and workspace; `run_links` |
| `run` | the run in the runtime, as the gateway's webhook tells of it |
| `mail`, `usage` | the webhook of a run; `usage_events`, unique by run and metric |
| `backend`, `counts`, `lives`; `serviceCount` | the gateway's limiter and its restarts; the runtime's, which counts all forwarded requests, those for an existing run too (`Access`), under one client |
| `tier`, `customer`, `subRow` | columns of `orgs`; the `subscriptions` row |
| `visit`, `outbox` | Stripe: checkouts with the subscriptions that came of them, events not acknowledged |
| `passed`, `servicePassed`, `seen`, `ceiling`, `peak`, `tidy` | histories the properties speak of |

The gateway is one process.  Its handlers are async and interleave at the forwarding of a
request and, with Redis, at the counting; webhook handlers run in threads, and an event
whose handler stopped after its first commit is `HandleHalf`.  A request that times out
leaves a run that is not linked (`Timeout`, `abandoned`).  A revoked or expired key is one
that is not there.  Counts of tool calls go the way of the other metrics and are left out.

## Runs

The first four and the four violations use `MCRunLifecycle`, two runs, at most one
restart.  Two runs are what it takes for one run's handler, event or approval to meet
another run; two gated calls are what it takes for a resumed graph to be interrupted
again, or an old approval to meet a new call.

| Run | Instance | Shows |
|---|---|---|
| `lifecycle` | graph run with 2 gated calls, executor run with 1, one restart, no sweeper | `IInv`, `GatedToolApproved`, `GraphRunMadeItsCalls`, `AnnouncedMatchesRow`, `RunningHasTask`, `DecisionIsFinal`, `ToolsOnlyWhileRunning`, `SuspendedFailsOnlyRejected`; implements `RunStatus` |
| `lifecycle_sweeper` | graph and plugin run, sweeper, continuations that cannot be built, fairness | `SuspensionEnds`, `ApprovedCallIsMade` with the sweeper's stale reads |
| `lifecycle_any_approval` | clients name any approval, continuations that cannot be built, up to 3 gated calls | `OneOpenApproval` and `DecisionIsFinal` even then |
| `lifecycle_timeout_approve` | timeout action approve, executor and plugin run, fairness | `SuspendedIsAnswerable`, `SuspensionEnds`, `TaskEnds` |
| `stream` | 2 streams in all, by one client or two; up to 3 chunks: a suspension of a graph takes two, so there is one before or after it; graph runs, and executor runs under either timeout action | `SoleStreamIsComplete`, `PromptStreamIsExact`, `EndingMatchesRow`, `StreamsEnd`; `RowFollowsTransitions` |
| `agent_run` | a run of each agent and a replay of it or of another agent; two settings of failover, privacy proxy and approval; previews of 2 pieces, answers of up to 2 a provider, files of 1 or 3; one fault | `OutputRecorded`, `ToolOutcomeRecorded`, `UsagePerCall`, `ReplayFaithful`, `MissExplained` |
| `memory` | two jobs, one of them within its request, of the directory or of one file named twice, two files of up to 3 windows, batches of 2, two mishaps, fairness; or two processes, three runs, threshold 3, limit 4, a short question and a long answer | `CompletedIsIndexed`, `LastReaderWins`, `JobsEnd`; `TurnsKept` |
| `gateway` | two orgs, one of them set up, two requests, two checkouts, two minutes and months, limits of 1 and 2, inputs that cost 12 | `UsageWithinQuota`, `BookedOnItsOrg`, `OnlyOwnRuns`, `RatesHonoured`, `TierAsPaid` |
| `executor_never_calls` | violation of `ApprovedCallIsMade` | see below |
| `executor_timeout_stuck` | violation of `SuspendedIsAnswerable` | see below |
| `sweeper_status` | violation of `ImplementsRunStatus` | see below |
| `foreign_approval` | violation of `GatedToolApproved` | see below |

Deadlock is not checked: every run may have ended, jobs are done, and no client owes
another request.

Bounds.  `agent_run`: attempts of Gemini and tries of a tool are the code's three, and
providers break off without bound; `MaxFaults` bounds failed commits, failed tools, chaos
and edits only, one of which is what a single broken call needs.  An answer that is
repeated after a failover exceeds the preview, as do a file and a list of hits.
`memory`: a text of four letters makes two windows, which two jobs may write in turn;
two mishaps are a restart and an edit, or two edits around a read; a file named twice is
read twice, and may have become shorter or longer in between.  Four turns reach the
threshold, six the limit.  `gateway`: requests, clock and restarts cost 4 of the 12 inputs
and what people do at the checkout and Stripe costs 3, so that three of the former or four
of the latter happen in one behaviour, or both in a mixture, in any order with everything
the system does on its own; two requests are what a quota of one is exceeded with, and
four inputs of billing take a subscription through its checkout, its payment and two
changes, with their events repeated and out of order.

What the four violations show, each a short counterexample:

- **An approved executor run completes without its call** (`run_service.py:327`).  The
  approval sets `restart_stream`, but the `break` that leaves the chunks also leaves the
  `while`: the stream is not restarted, and the run is written COMPLETED.
- **A timed-out executor run stays SUSPENDED** (`run_service.py:330`).  The policy has
  resolved the approval, the row still says SUSPENDED, and the lifecycle returns.
  Neither the sweeper nor a plain resume finds the run again.
- **The sweeper overwrites a final status** (`hitl_sweeper.py:37`).  It tests a status
  read before it resolved the approval.
- **An approval of another run opens the gate** (`run_service.py:118`).  `resume_run`
  takes any approval id.

### What is not promised

The properties state what holds, which may be less than a reader expects.  No document or
test of the repository contradicts these, so they are described here and not reported.

- *Streams.*  A client that opens its stream after the first chunk receives the chunks up
  to then twice, from the history and from the queue.  Two clients share the queue, so
  each sees a part.  A stream may report "cancelled" for a run that is COMPLETED, when
  another client left after the final write (`EndingMatchesRow` speaks of the other two
  statuses).  When the timer of the poll fires in the iteration in which a chunk is put and
  the final status is written, the stream ends with that chunk unread: `SoleStreamIsComplete`
  is about the chunks that were there when the stream last looked (`due`).  And where a timeout
  approves (`approves`), an executor's task that finds its wait timed out writes RUNNING and
  COMPLETED without looking at the row, also over the FAILED of a human's rejection: a stream
  may have reported "failed" before, and the row leaves `ALLOWED_TRANSITIONS`
  (`TimeoutApproves`, which `RowFollowsTransitions` allows besides).  A `suspended` chunk
  that nobody took ends the first stream that drains the queue, even if the run was resumed
  long before.
- *Agents.*  A stream that fails over or is retried says its beginning twice, and that is
  what is recorded; pieces said before a retry of Gemini are not metered; the privacy
  proxy hides the usage of a streaming agent.
- *Replays.*  `MissExplained` lists why a replay may miss: the source was still running or
  failed, another agent or another state of the shared history was asked for, the source's
  model has another name, a plugin's question is recorded otherwise than it was
  asked, nothing was said, results were cut or not taken from the trace, a human changed
  the arguments, or a commit failed.
- *Tools.*  A call that worked may be booked as failed when its row could not be
  committed; it is then neither recorded as a step nor heard by the agent.
- *Index.*  When a file gets shorter, chunks of its longer text stay in the index and are
  found, also those of the same job if it names the file twice, whose result then counts
  the file twice; a job hit by a restart stays `running`, and so does one of which neither
  "completed" nor "failed" could be written.
- *History.*  `TurnsKept` lists the ways a turn may go: the history was longer than what is
  read or quoted, the turn was too short to be quoted or was cut, a summary was summarised,
  a process appended during the replacement or broke off, or the key expired.
- *Gateway.*  An org exceeds its runs by those that were in flight together
  (`UsageWithinQuota` says by how much).  With the limiter in memory a restart opens a new
  allowance.  A tier is certain only for an org with one customer, one subscription at a
  time and events in their order; two first checkouts at once make two customers.

### Fairness

`RunStream` assumes weak fairness of the run's task and of each open stream: the event
loop runs what is ready, and the poll's timer always fires.  In `RunLifecycle`,
`FairSpec` asks for weak fairness of each run's task and timer (the event loop runs what
is ready, and `wait_for`'s timer is one of its callbacks), of a handler that has begun,
of time passing (`Expire`) and of the sweeper (`run_hitl_sweeper_loop` runs for ever and
logs any exception).  In `MCMemory`, of each job's steps: its task and the thread it
waits for go on, and neither waits for anyone else.  Nothing is asked of clients, provider
errors or crashes; a finite number of restarts is part of the model.  `SuspensionEnds`
needs either the sweeper or a task that waits; a graph run without sweeper may stay
suspended for ever, and the runs are chosen accordingly.

## Proofs

For every set of runs, every mode and number of gated calls and any number of restarts:

- In **every** configuration, with the sweeper, either timeout action and clients that name
  any approval, `TypeCorrect` and `OneOpen`.  The argument for `OneOpenApproval`: only two
  helpers write approvals; `Requested` opens a row only if none is open, `Decide` never
  makes one open otherwise (`ApprovalChanges`).
- Again in every configuration, `GraphRunCompletes`: a COMPLETED graph run has made all its
  calls; and, where no run waits in its tool executor (`NoExecutor`; with one,
  `executor_never_calls` shows it to be false), `ApprovedCallsAreMade`.  The invariant is
  `CallsInv`.  A graph has made exactly the calls behind its checkpoint, all of them once it
  is COMPLETED.  No row is of a call beyond those the run makes (`NoCallBeyond`), and half-done
  work, the sweeper's too, names rows that exist (`RowsAreFound`).  A plugin's run, which
  fails at its first row, is not COMPLETED with one.
- Without the sweeper, `DecisionsAreFinal`: whatever approvals the clients name, whatever a
  timeout decides, whenever the process stops.  `AnswerInv` adds to `CallsInv` that the row a
  handler has read is as it read it (`AnswerIsCurrent`), since nobody else writes while it is
  half-way (`HandlerAlone`), and that a graph asks for a call only once (`AskedOnce`), so
  that it does not open a decided row again.  With the sweeper this is false, as its thread
  may write over a row that was answered after it had read it.
- Without the sweeper and with clients that answer their run's open approval,
  `SuspendedCanBeAnswered`, as long as the process has not stopped and where a timeout
  approves or no run waits in its executor (`TimeoutMovesOn`; otherwise
  `executor_timeout_stuck`).  Who closes an approval moves its run on, at once or as the
  handler that holds it (`CloserMovesOn`, `HandlerGoesOn`).  A restart between the two writes
  of a handler leaves the run SUSPENDED without an open approval, so that `crashes = 0` cannot
  be dropped.
- For `Honest` (no sweeper, timeout action reject, clients that answer their run's open
  approval): `InductiveInvariant`, and from it `ApprovedBeforeUse`, `AnnouncedTruth`,
  `ToolsRunWhileRunning`, `SuspendedFailsRejected` and the refinement `StatusRefines`; and,
  with three more conjuncts, `RunningIsWorkedOn`, where continuations can be built
  (no `AnyReplaySource`).

`Honest` is needed, not convenient.  `sweeper_status` and `foreign_approval` show what is
false with the sweeper and with clients that name any approval; and where a timeout approves,
a timer that fires while a rejection is being written lets the task write COMPLETED over
FAILED.

Why `IInv` is what it is.  The properties are about the *next* write of an actor, so the
invariant says what each actor may still rely on between what it read and what it writes:

- `TaskMatchesStatus`: the status a task will overwrite is the one its stage implies
  unless it has been cancelled, which a handler can do because the run is registered
  (`LiveIsRegistered`);
- `OneRequest`, `RequestIsCurrent`: a handler runs alone on the loop, so what it read is
  still true when it writes;
- `WaitIsForOpen`: a waiting task waits for the approval that an answer resolves, and
  while its run is SUSPENDED that approval is open or a handler is acting on it;
- `GraphPosition`: approvals, checkpoint and calls made agree: everything behind the
  checkpoint is approved and made, at most the call at the checkpoint is undecided, and
  a continuation starts only with that one approved;
- `AbsentIsFresh`, `SweepIdle`: the rows of a run that does not exist, and the sweeper.

`RunLifecycleHonest` first proves which steps may touch what (`WhoMoves`, `WhoWaits`,
`WhoStarts`, ...), then one lemma per conjunct.

Its second part adds what an answer that writes RUNNING relies on: an executor run
that can be answered, or is being answered, still has its task (`AnswerMeetsTask`); a
plugin's run is never suspended (`PluginsRun`); and a task that was told to stop finds its
run ended, or a handler about to end it (`CancelEndsRun`).

The gateway, for every number of orgs, requests, checkouts, limits, minutes and months:

- `RatesAreHonoured`: what was let through is at most the count, capped at the limit, and
  one limit more for each process whose counts were lost with it (`LetThrough`).
- `OrgsAreIsolated`: a link names the org of the request that made the run (`LinkIsOwn`),
  and access goes by the link.
- `UsageIsBookedRight`, assuming `OwnWorkspaces` (no two orgs have the same runtime
  workspace, which only an administrator's mistake would break): what is forwarded has a
  workspace of its org (`SentHasSpace`), so that the webhook finds that org; only completed
  runs are booked, with the tokens they ended with (`OnlyCompletedIsBooked`); and a webhook
  that is half booked goes on with the org it began with (`HalfIsOwn`).
- `TypeCorrect`: types of gateway, billing and both limiters, histories included.

- `QuotaIsKept`, assuming `OwnWorkspaces`: units booked and runs in flight grow together
  only by the check, which sees fewer units than the tier allows; from then on a run is in
  flight until it lands as one unit (`FlightStep`), nothing is booked ahead of its month
  (`UsageIsPast`), and `ceiling` and `peak` have seen what the tier allowed and what was on
  its way (`WatchSees`).  So what an org has used is below its ceiling when the last check
  passes, and exceeds it by no more than what was in flight.
- `TierIsPaidFor`: for a tidy org, what is stored is true or an event that will set it is
  still to come, and the newest of those is true (`Told`); tier and row have different
  events that set them, and taking the oldest, or repeating one, keeps the newest
  (`Taken`).  Stripe's customers are those of the org's checkouts (`CheckoutsLinked`).

The stream of a run, for any numbers of clients, streams and chunks:

- `StreamTypeCorrect`, `SoleStreamCompletes`, `PromptStreamExact`, `EndingsAgree` and
  `StreamRowTransitions`.  The queue holds places of the history in their order and at most
  one final event, last, which agrees with the row (`QueueInOrder`); hence a stream alone
  has what is not on the queue (`SoleStreamMisses`), and one alone from the beginning has a
  first part of the history while the queue has exactly the rest (`PromptStreamSplits`).
  All this is proved with the timer that races a chunk and with either timeout action.
  Which statuses the task may still overwrite is `RowMatchesTask`; an error is the last
  chunk (`ErrorIsLast`).

Agents and replays, for any sets of runs, requests, files, words, lengths of previews and
numbers of attempts, tries and failures:

- `TypeIsKept`: a call is always that of the step its program is at, and is over when the
  run is (`Busy`); nothing is there of a run that nobody asked for (`Blank`).
- `OutputIsRecorded` and `UsageIsMetered`: what streams has told what the model said, and
  the pieces counted are those that were said (`Says`); a run has a step of the model only
  once it is over, the one it was about to record, with its text (`Concluded`): hitl-demo's
  too, which is what its action returned.
- `ToolOutcomeIsRecorded`: each tool comes once in a program, so a row or a step with its
  label was made by this call (`RowsOnce`, `StepsOnce`); a call that is to be traced has
  its row (`ToBeTraced`), and what was heard is recorded and booked (`OneFate`).
- `ReplayIsFaithful`: what a replay loaded is a part of its source's trace for ever, also
  of one that still runs, since traces only grow (`Loaded`), and what it says and hears is
  from there (`Retold`).
- `MissIsExplained`: the work of an agent can be read off its trace unless a human changed
  it or a commit failed (`Retraceable`), because a preview that is not cut is the whole
  (`UncutPreview`) and an unmarked search found nothing; so a replay without a reason to
  miss works on what its source did (`Retraces`), recalls each call
  (`RecallsTheSame`) and finds its question (`AsksTheSame`).

`AgentRunProofs` first says what each action does to its run and that it does nothing to the
others (the lemmas named `...At`, `OthersStay`), and which way programs are made
(`Programs`); the invariants `Placed`, `Told`, `Kept` and `Traceable` each contain the one
before.

The history, for any number of processes and runs and any thresholds:

- `TurnsAreKept`.  Every turn is pushed at most once (`OnceEach`), so what a process has
  read and will replace is the beginning of the list, or shares no turn with it because
  another process has deleted it (`HotInv`); as long as no other reason has been noted than
  that turns are short or cut, a turn is thus in the list, in what is read whole
  (`WholeIsRead`), or, by its beginning, in the one summary (`Placed`), unless it is short.
- `HotTypes`: what a process is about has the run or the turns it needs.

The index, for any numbers of jobs, workspaces and mishaps, any files, texts and lists of
paths, and any sizes of windows and batches:

- `CompletedAreIndexed` and `LastReadersWin`, from the inductive `IndexInv`.  Neither
  property is inductive, as both speak of jobs that completed, and a piece takes several
  steps from the file to the index.  The invariant follows it there (`Delivered`): of each
  piece that a job has read, until the job breaks off, the *last* of its id in the batch has
  the text read last, or none is in the batch and the index has the id, with that text if
  the job wrote it, and otherwise from another job.  That other job has noted it in `mixed`
  if it read the file earlier, so that the last reader's pieces are its own
  (`LastHasRead`, `IndexLabelled`).  Since a batch is upserted in order and each id keeps
  its last chunk, splitting the batch keeps this (`BatchSplits`, `LastOwnIs`).
- The count needs more: a job that names no file twice reads each once (`ReadsOnce`), so
  that the ids of its batch are distinct and upserted plus pending pieces are as many as the
  ids it has read (`Counted`).
- About the windows themselves: the first that reaches the end is the last one, each letter
  is in one of them, and whichever window that has it is asked gives the same letter, so
  that the pieces put together are the text (`WindowsAre`, `LetterInWindow`,
  `TextIsReassembled`).
- `IndexTypes`, and `MemoryTypes` for the composition that the run `memory` checks.

Assumptions: the named ones in the modules, those on the settings stated above (`Honest`,
`NoExecutor`, `TimeoutMovesOn`, no sweeper, no `AnyReplaySource`) and `OwnWorkspaces`, nothing else.  Those
of the modules say that constants are of their types, that `Threshold` is at most `Limit`,
that there are finitely many runs and requests, that `None` is no run, code or step, that
live runs are not replays, that a result of a tool is not empty, as each is a JSON object
(`ResultsAssumption`), that windows are longer than what they share (otherwise `chunk_text`
would not end) and that a directory lists a file once (`ListingAssumption`).

Some definitions are chosen for the prover's sake: `Gateway!Used` counts the units booked as
a set instead of folding a sum, `Trace!StepsOf` and `Lookup` speak of indices where the code
filters and overwrites, and `CASE` arms exclude each other.  `WorkspaceIndex!ChunkText` says
where the i-th window begins and which is the last, where the code goes from one to the next;
`Listed` has a place for every file of the directory and `None` where one is not there; the
index is a function on the ids it has; and `CompletedIsIndexed` counts ids.

Only model-checked: liveness (`SuspensionEnds`, `TaskEnds`, `StreamsEnd`, `JobsEnd`), which
is outside the prover's reach.  Every invariant and every action property of the passing
runs is stated by a theorem, under the assumptions on the settings given with it.

## Not modelled, and the plan

1. What is left of `GatedToolApproved` with the sweeper on, which may reject a call after it
   was made: that the call had been approved when the run was continued.
2. The runtime's memory behind the gateway: `RunLifecycle`'s final write and `Gateway`'s
   webhook composed, so that a lost export is the lifecycle's own.
3. The in-memory graph checkpointer, and the race of two first callers on the pool.

Not modelled because they keep no state that other parts share: agent routing (a score
over descriptions), trace mining and drift reports (reads of finished traces), the sandbox
runner (a container for each request), plugin discovery and manifests (read at start), the
masking of text by the privacy proxy, SDKs, CLI and telemetry.  Of the gateway's
administration only what requests depend on is modelled; lists, logins and pages are one
transaction or none each.
