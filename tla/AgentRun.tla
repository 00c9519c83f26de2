------------------------------- MODULE AgentRun -------------------------------
(***************************************************************************)
(* What an agent does while its run is RUNNING, and what a replay of it    *)
(* does.  An agent is a short program over tool calls and a model call;    *)
(* every step of it leaves something in the trace.  A replay executes the  *)
(* program again and takes the model's answer, and if asked the tools'     *)
(* results, from the trace of its source, which may still be running.      *)
(* The status of a run is RunLifecycle's; here it is what becomes of it.   *)
(***************************************************************************)
EXTENDS Tools, FiniteSets

CONSTANTS
  Requests,      \* bound: the requests for a live run: agent, provider, input, shared
  Replayings,    \* bound: the requests for a replay: source's agent, agent, shared
  Paths,         \* files of the workspace
  Readme,        \* the file read for want of a hit
  Texts, Content,  \* what a file may contain, and contains at first
  Hits           \* what search_workspace may find

ASSUME ReadmeAssumption == Readme \in Paths /\ Content \in [Paths -> Texts]

VARIABLES
  run,           \* a run and what was asked of it
  pc,            \* how far its program is
  args,          \* the path or target the next tool call is for
  content,       \* what the last tool call returned
  frozen,        \* the steps a replay loaded from its source
  files,         \* the contents of the workspace
  turns          \* runs in the history of the shared conversation

agentVars == <<run, pc, args, content, frozen>>
vars == <<traceVars, config, providerVars, toolVars, agentVars, files, turns>>

Agents == {"echo", "research", "research-chain", "hitl-demo", "plugin"}
Inputs == {"a question", "a path"}

\* A result is a document, and so not empty; it may hold names of files.
Documents == Seq(Words) \ {<<>>}

\* What a tool is called for, what a model is asked, and the steps of a trace.
Subjects == [query : Inputs, hitsFor : Agents] \cup Paths
ToolNames == {"search_workspace", "read_file", "hitl_probe", "get_stock"}
Questions == ({"echo"} \X Inputs \X Nat) \cup ({"user"} \X Inputs) \cup (Agents \X Seq(Words))

Notes == [type : {"agent"}, key : Seq(Agents), out : {<<>>}, code : {None}, usage : {None}]
Outcomes == [type : {"tool"}, key : ToolNames \X Subjects, out : Seq(Words),
             code : Codes \cup {None}, usage : {None}]
Answers == [type : {"llm"}, key : Models \X Questions, out : Seq(Words),
            code : {None}, usage : Nat \cup {None}]
Steps == Notes \cup Outcomes \cup Answers

ASSUME RequestsAssumption ==
  /\ Requests \subseteq [agent : Agents, kind : Kinds, model : Models \cup {None},
                         input : Inputs, shared : BOOLEAN]
  /\ Replayings \subseteq [of : Agents, agent : Agents, shared : BOOLEAN]
  /\ IsFiniteSet(Runs)
ASSUME PathsAssumption == Paths \subseteq Words
ASSUME ResultsAssumption == Texts \subseteq Documents /\ Hits \subseteq Documents
ASSUME StepsAssumption == None \notin Steps

EchoProgram == <<"note", "model", "record">>
ResearchProgram == <<"note", "search", "read", "model", "record">>
PathProgram == <<"note", "read", "model", "record">>
ChainProgram == <<"search", "note", "read", "note", "model", "note", "complete">>
HitlDemoProgram == <<"probe", "note", "complete">>
\* Its one tool call stands for the four that the plugin makes one after another.
PluginProgram == <<"probe", "model", "note", "complete">>

\* research need not search for a path that its input names.
ProgramOf(q) ==
  CASE q.agent = "echo" -> EchoProgram
    [] q.agent = "research" -> IF q.input = "a path" THEN PathProgram ELSE ResearchProgram
    [] q.agent = "research-chain" -> ChainProgram
    [] q.agent = "hitl-demo" -> HitlDemoProgram
    [] q.agent = "plugin" -> PluginProgram

\* echo and research stream the provider's tokens; graphs give the text at their end.
Streams(agent) == agent \in {"echo", "research"}

Graph(agent) == ~Streams(agent)

Statuses == {"none", "running", "suspended", "completed", "failed"}

NoRun == [status |-> "none", code |-> None, agent |-> "echo", kind |-> "mock", model |-> None,
          input |-> "a question", shared |-> FALSE, source |-> None, mock |-> FALSE,
          granted |-> FALSE, changed |-> FALSE]

TypeOK ==
  /\ ProviderTypeOK /\ ToolsTypeOK
  /\ faults \in 0 .. MaxFaults
  /\ \A r \in Runs :
       /\ run[r].status \in Statuses
       /\ run[r].code \in Codes \cup {None}
       /\ run[r].status = "failed" <=> run[r].code # None
       /\ pc[r] \in 0 .. Len(ProgramOf(run[r]))
  /\ files \in [Paths -> Texts]
  /\ turns \in 0 .. Cardinality(Runs)

Init ==
  /\ TraceInit /\ ProviderInit /\ ToolsInit
  /\ run = [r \in Runs |-> NoRun]
  /\ pc = [r \in Runs |-> 0]
  /\ args = [r \in Runs |-> Readme]
  /\ content = [r \in Runs |-> <<>>]
  /\ frozen = [r \in Runs |-> [llm |-> <<>>, tools |-> <<>>, whole |-> FALSE, turns |-> 0]]
  /\ files = Content
  /\ turns = 0

-----------------------------------------------------------------------------

Replays(r) == run[r].source # None
Running(r) == run[r].status = "running"

At(r, step) ==
  /\ Running(r)
  /\ LET program == ProgramOf(run[r])
     IN pc[r] \in 1 .. Len(program) /\ program[pc[r]] = step

Idle(r) == call[r].at = "none" /\ ~llm[r].on
Advance(r) == pc' = [pc EXCEPT ![r] = @ + 1]

Fail_NoCode(r, code) == run' = [run EXCEPT ![r].status = "failed"]

Fail(r, code) == run' = [run EXCEPT ![r].status = "failed", ![r].code = code]

-----------------------------------------------------------------------------
(* A run is requested.                                                      *)

StartLive(r, q) ==
  /\ run[r].status = "none"
  /\ run' = [run EXCEPT ![r] = [NoRun EXCEPT !.status = "running", !.agent = q.agent, !.kind = q.kind,
                                  !.model = q.model, !.input = q.input, !.shared = q.shared]]
  /\ UNCHANGED <<traceVars, config, providerVars, toolVars, pc, args, content, frozen, files, turns>>

\* The input has to be the source's, nothing else; the model's answers are
\* loaded when the orchestrator is built.
StartReplay(r, s, agent, mock, shared) ==
  /\ run[r].status = "none" /\ run[s].status # "none"
  /\ run' = [run EXCEPT ![r] = [NoRun EXCEPT !.status = "running", !.agent = agent, !.kind = "gemini",
                                  !.input = run[s].input, !.shared = shared,
                                  !.source = s, !.mock = mock]]
  /\ frozen' = [frozen EXCEPT ![r].llm = trace[s],
                              ![r].whole = run[s].status = "completed"]
  /\ UNCHANGED <<traceVars, config, providerVars, toolVars, pc, args, content, files, turns>>

\* stream() builds the tools, which load the source's steps once more, and, for
\* echo, the history.
Build(r) ==
  /\ Running(r) /\ pc[r] = 0
  /\ Advance(r)
  /\ frozen' = [frozen EXCEPT ![r].turns = IF run[r].shared THEN turns ELSE 0,
                  ![r].tools = IF run[r].mock THEN trace[run[r].source] ELSE <<>>]
  /\ UNCHANGED <<traceVars, config, providerVars, toolVars, run, args, content, files, turns>>

-----------------------------------------------------------------------------
(* Steps of an agent.                                                       *)

Note(r) ==
  /\ At(r, "note")
  /\ Record(r, AgentStep(run[r].agent), Advance(r) /\ UNCHANGED run,
            Fail(r, "RUN_FAILED") /\ UNCHANGED pc)
  /\ UNCHANGED <<config, providerVars, toolVars, args, content, frozen, files, turns>>

\* The tool call a program is at.
AtTool(r) == At(r, "search") \/ At(r, "read") \/ At(r, "probe")

Tool(r) ==
  CASE At(r, "search") -> "search_workspace"
    [] At(r, "read") -> "read_file"
    [] OTHER -> IF run[r].agent = "hitl-demo" THEN "hitl_probe" ELSE "get_stock"

\* The agents that search ask for different numbers of hits.
Arguments(r) ==
  IF At(r, "search") THEN [query |-> run[r].input, hitsFor |-> run[r].agent] ELSE args[r]

\* Calls that a human has to approve; graphs of a replay do not ask.
Gated(r) ==
  /\ config.hitl
  /\ ~run[r].granted
  /\ \/ At(r, "read") /\ run[r].agent = "research-chain" /\ ~Replays(r)
     \/ At(r, "probe") /\ run[r].agent = "hitl-demo" /\ ~Replays(r)
     \/ At(r, "read") /\ run[r].agent = "research" /\ ~run[r].mock

\* The first hit, if there is one; "none" stands for an empty list.
FirstHit(result) == IF result[1] \in Paths THEN result[1] ELSE Readme

Returns(r, key, result) ==
  /\ heard' = [heard EXCEPT ![r] = Append(@, [key |-> key, result |-> result])]
  /\ call' = [call EXCEPT ![r] = NoTool]
  /\ Advance(r)
  /\ IF At(r, "search")
     THEN args' = [args EXCEPT ![r] = FirstHit(result)] /\ UNCHANGED content
     ELSE content' = [content EXCEPT ![r] = result] /\ UNCHANGED args
  /\ UNCHANGED run

\* A search that fails in any way, a mismatch of a replay included, found nothing;
\* any other call that fails ends the run.
Errs(r, code) ==
  /\ call' = [call EXCEPT ![r] = NoTool]
  /\ IF At(r, "search")
     THEN Advance(r) /\ args' = [args EXCEPT ![r] = Readme] /\ UNCHANGED run
     ELSE Fail(r, code) /\ UNCHANGED <<pc, args>>
  /\ UNCHANGED <<heard, content>>

CallTool(r) ==
  /\ AtTool(r) /\ ~Gated(r) /\ Idle(r) /\ ~run[r].mock
  /\ Invoke(r, Tool(r), Arguments(r))
  /\ UNCHANGED <<config, providerVars, agentVars, files, turns>>

\* Chaos fails a live call before anything is written.
ChaosFails(r) ==
  /\ AtTool(r) /\ Idle(r) /\ ~Replays(r)
  /\ Fault
  /\ Errs(r, "RUN_FAILED")
  /\ UNCHANGED <<trace, hurt, config, providerVars, rows, frozen, files, turns>>

\* With recorded tools no handler runs, nothing is booked and nobody is asked.
RecallTool(r) ==
  LET key == <<Tool(r), Arguments(r)>>
      step == Recalled(frozen[r].tools, key)
  IN /\ AtTool(r) /\ Idle(r) /\ run[r].mock
     /\ IF step = None THEN Errs(r, "REPLAY_MISMATCH") /\ UNCHANGED traceVars
        ELSE Record(r, ToolStep(key, step.out, None),
                    Returns(r, key, step.out), Errs(r, "RUN_FAILED"))
     /\ UNCHANGED <<config, providerVars, rows, frozen, files, turns>>

Results(c) ==
  CASE c.tool = "search_workspace" -> Hits
    [] c.tool = "hitl_probe" -> {<<c.args>>}
    [] OTHER -> {files[c.args]}

ToolWorks(r) ==
  /\ call[r].at = "handler"
  /\ Handler(r) \/ \E result \in Results(call[r]) : HandlerReturns(r, result)
  /\ UNCHANGED <<config, providerVars, agentVars, files, turns>>

\* After the row is booked and the event sent, the step is recorded.
ToolEnds(r) ==
  /\ \/ /\ call[r].at = "trace"
        /\ Record(r, TracedStep(r),
                  IF call[r].code = None THEN Returns(r, Key(call[r]), call[r].result)
                  ELSE Errs(r, call[r].code),
                  Errs(r, "RUN_FAILED"))
     \/ call[r].at = "raised" /\ Errs(r, call[r].code) /\ UNCHANGED traceVars
  /\ UNCHANGED <<config, providerVars, rows, frozen, files, turns>>

-----------------------------------------------------------------------------
(* Human approval, see RunLifecycle.                                        *)

Asks(r) ==
  /\ Gated(r) /\ Idle(r)
  /\ run' = [run EXCEPT ![r].status = "suspended"]
  /\ UNCHANGED <<traceVars, config, providerVars, toolVars, pc, args, content, frozen, files, turns>>

\* A graph goes on with the arguments it gets.
GraphGoesOn(r) ==
  /\ run[r].status = "suspended" /\ Graph(run[r].agent)
  /\ \E path \in Paths :
       /\ run' = [run EXCEPT ![r].status = "running", ![r].granted = TRUE,
                             ![r].changed = path # args[r]]
       /\ args' = [args EXCEPT ![r] = path]
  /\ UNCHANGED <<traceVars, config, providerVars, toolVars, pc, content, frozen, files, turns>>

\* The stream of an executor's approval is not entered again: the run is over.
ExecutorStops(r) ==
  /\ run[r].status = "suspended" /\ Streams(run[r].agent)
  /\ run' = [run EXCEPT ![r].status = "completed", ![r].granted = TRUE]
  /\ UNCHANGED <<traceVars, config, providerVars, toolVars, pc, args, content, frozen, files, turns>>

Rejected(r) ==
  /\ run[r].status = "suspended"
  /\ Fail(r, "TOOL_PERMISSION_DENIED")
  /\ UNCHANGED <<traceVars, config, providerVars, toolVars, pc, args, content, frozen, files, turns>>

-----------------------------------------------------------------------------
(* The model call.                                                          *)

Question(r) ==
  CASE run[r].agent = "echo" -> <<"echo", run[r].input, frozen[r].turns>>
    [] OTHER -> <<run[r].agent, content[r]>>

RecordedQuestion_AnyGraph(r) ==
  IF Graph(run[r].agent) THEN <<"user", run[r].input>> ELSE Question(r)

\* A plugin's question is put together anew from the messages of its state,
\* which are not those that it asked the model; so is hitl-demo's, which asked none.
RecordedQuestion(r) ==
  IF run[r].agent \in {"plugin", "hitl-demo"} THEN <<"user", run[r].input>> ELSE Question(r)

CallModel(r) ==
  /\ At(r, "model") /\ Idle(r) /\ metered[r] = None /\ ~Replays(r)
  /\ Call(r, run[r].kind, Streams(run[r].agent))
  /\ UNCHANGED <<traceVars, config, toolVars, agentVars, files, turns>>

ModelSpeaks(r) ==
  /\ \/ Piece(r) /\ UNCHANGED traceVars
     \/ (GeminiRetries(r) \/ RouterFailsOver(r)) /\ UNCHANGED traceVars
  /\ UNCHANGED <<config, toolVars, agentVars, files, turns>>

ModelEnds(r) ==
  /\ Answered(r)
  /\ Advance(r)
  /\ UNCHANGED <<traceVars, config, toolVars, run, args, content, frozen, files, turns>>

ModelFails(r) ==
  /\ ProviderRaises(r)
  /\ Fail(r, "RUN_FAILED")
  /\ UNCHANGED <<traceVars, config, toolVars, pc, args, content, frozen, files, turns>>

\* TraceReplayProvider.
Recorded(r) == Lookup(frozen[r].llm, "llm", <<GeminiModel, Question(r)>>)

ReplayModel(r) ==
  /\ At(r, "model") /\ Idle(r) /\ Replays(r)
  /\ Recorded(r) # None
  /\ llm' = [llm EXCEPT ![r] = [NoCall EXCEPT !.streams = Streams(run[r].agent),
                                              !.said = Recorded(r).out]]
  /\ text' = IF Streams(run[r].agent) THEN [text EXCEPT ![r] = Recorded(r).out] ELSE text
  /\ metered' = [metered EXCEPT ![r] = Recorded(r).usage]
  /\ Advance(r)
  /\ UNCHANGED <<traceVars, config, toolVars, run, args, content, frozen, files, turns>>

ReplayMisses(r) ==
  /\ At(r, "model") /\ Idle(r) /\ Replays(r)
  /\ Recorded(r) = None
  /\ Fail(r, "REPLAY_MISMATCH")
  /\ UNCHANGED <<traceVars, config, providerVars, toolVars, pc, args, content, frozen, files, turns>>

\* A node of the chain begins beyond max_graph_steps, which a request may lower.
StepLimit(r) ==
  /\ run[r].agent = "research-chain" /\ Idle(r)
  /\ At(r, "search") \/ At(r, "read") \/ At(r, "model")
  /\ Fail(r, "GRAPH_STEP_LIMIT")
  /\ UNCHANGED <<traceVars, config, providerVars, toolVars, pc, args, content, frozen, files, turns>>

-----------------------------------------------------------------------------
(* The end of a run: what was said is recorded, and without another await   *)
(* the run is COMPLETED and its turns join the history.                     *)

ModelOf(r) == ResolvedModel(run[r].kind, run[r].model)

\* What is told: the model's answer or, by hitl-demo, what its action returned.
Reply(r) == IF run[r].agent = "hitl-demo" THEN content[r] ELSE llm[r].said

\* A graph estimates the usage that it cannot pop.
UsageOf(r) ==
  LET popped == IF Replays(r) THEN metered[r] ELSE PopUsage(r)
  IN IF popped = None /\ Graph(run[r].agent) THEN EstimatedUsage(Reply(r)) ELSE popped

ModelStep(r) ==
  LlmStep(<<ModelOf(r), RecordedQuestion(r)>>, Reply(r), UsageOf(r))

Finishes(r) ==
  /\ run' = [run EXCEPT ![r].status = "completed"]
  /\ turns' = IF run[r].shared /\ text'[r] # <<>> THEN turns + 1 ELSE turns

BreaksOff(r) == Fail(r, "RUN_FAILED") /\ UNCHANGED turns

RecordModel(r) ==
  /\ At(r, "record")
  /\ UNCHANGED text
  /\ Record(r, ModelStep(r), Finishes(r), BreaksOff(r))
  /\ UNCHANGED <<config, llm, metered, toolVars, pc, args, content, frozen, files>>

\* A graph whose model said nothing has no answer recorded.
SaidNothing(r) == Graph(run[r].agent) /\ Reply(r) = <<>>

\* on_complete.
Complete(r) ==
  /\ At(r, "complete")
  /\ text' = [text EXCEPT ![r] = Reply(r)]
  /\ IF SaidNothing(r) THEN Finishes(r) /\ UNCHANGED traceVars
     ELSE Record(r, ModelStep(r), Finishes(r), BreaksOff(r))
  /\ UNCHANGED <<config, llm, metered, toolVars, pc, args, content, frozen, files>>

-----------------------------------------------------------------------------

\* Someone edits the workspace.
EditFile ==
  /\ Fault
  /\ \E path \in Paths, new \in Texts : files' = [files EXCEPT ![path] = new]
  /\ UNCHANGED <<trace, hurt, config, providerVars, toolVars, agentVars, turns>>

Start ==
  \/ \E r \in LiveRuns, q \in Requests : StartLive(r, q)
  \/ \E r \in ReplayRuns, s \in Runs, q \in Replayings, mock \in BOOLEAN :
       run[s].agent = q.of /\ StartReplay(r, s, q.agent, mock, q.shared)

AgentStepOf(r) ==
  \/ Build(r) \/ Note(r)
  \/ CallTool(r) \/ ChaosFails(r) \/ RecallTool(r) \/ ToolWorks(r) \/ ToolEnds(r)
  \/ Asks(r) \/ GraphGoesOn(r) \/ ExecutorStops(r) \/ Rejected(r)
  \/ CallModel(r) \/ ModelSpeaks(r) \/ ModelEnds(r) \/ ModelFails(r)
  \/ ReplayModel(r) \/ ReplayMisses(r) \/ StepLimit(r)
  \/ RecordModel(r) \/ Complete(r)

Next == Start \/ EditFile \/ \E r \in Runs : AgentStepOf(r)

Spec == Init /\ [][Next]_vars

-----------------------------------------------------------------------------

LlmSteps(r) == StepsOf(trace[r], "llm")
ToolSteps(r) == StepsOf(trace[r], "tool")

(* What the client was told is what the trace has.  A run that completed    *)
(* recorded one answer, and it is the text that was streamed or told, with  *)
(* everything a provider said before it broke off and the next one began    *)
(* again; hitl-demo records so what its action returned.  A graph that said *)
(* nothing and a run that ended at its approval record no answer.           *)
OutputRecorded ==
  \A r \in Runs : run[r].status = "completed" =>
    IF SaidNothing(r) \/ pc[r] < Len(ProgramOf(run[r]))
    THEN LlmSteps(r) = {}
    ELSE \E i \in DOMAIN trace[r] : LlmSteps(r) = {i} /\ trace[r][i].out = Preview(text[r])

(* A tool call has one fate.  A result that reached the agent is booked as  *)
(* a success and recorded with its preview; a step, good or bad, that the   *)
(* trace has is booked the same way; and no call is booked twice, however   *)
(* its handler, its row or its step failed.                                 *)
ToolOutcomeRecorded ==
  \A r \in Runs :
    /\ \A i \in DOMAIN heard[r] : \E j \in ToolSteps(r) :
         /\ trace[r][j].key = heard[r][i].key /\ trace[r][j].code = None
         /\ trace[r][j].out = Preview(heard[r][i].result)
    /\ \A j \in ToolSteps(r) : run[r].mock \/ \E i \in DOMAIN rows[r] :
         /\ rows[r][i].key = trace[r][j].key /\ rows[r][i].code = trace[r][j].code
         /\ trace[r][j].code = None => Preview(rows[r][i].result) = trace[r][j].out
    /\ \A i, j \in DOMAIN rows[r] : rows[r][i].key = rows[r][j].key => i = j

(* What is metered is what was said.  The usage in the step of a live run   *)
(* counts every piece of the answer, also when two providers gave it, and   *)
(* of hitl-demo's text, for which no provider was asked; only what Gemini's *)
(* adapter said before a retry is not counted.  It is missing just when the *)
(* privacy proxy hides it from a streaming agent.                           *)
UsagePerCall ==
  \A r \in LiveRuns : \A i \in LlmSteps(r) :
    LET usage == trace[r][i].usage
    IN IF config.privacy /\ Streams(run[r].agent) THEN usage = None
       ELSE /\ usage # None
            /\ text[r] # <<>> /\ ~llm[r].retried => usage = Len(text[r])
            /\ llm[r].retried => usage <= Len(text[r])

(* A replay that completes with a model's answer tells what its source      *)
(* told, as far as previews keep it, whatever agent it was asked of, even   *)
(* if the source was still running.  One of hitl-demo, which asks no model, *)
(* tells what its completed source told, unless a human changed what was to *)
(* be done.  And with recorded tools an agent heard what the source's did.  *)
ReplayFaithful ==
  \A r \in ReplayRuns : run[r].status = "completed" =>
    LET s == run[r].source
    IN /\ run[r].agent # "hitl-demo" /\ LlmSteps(r) # {} => text[r] = Preview(text[s])
       /\ /\ run[r].agent = "hitl-demo" /\ run[s].agent = "hitl-demo"
          /\ run[s].status = "completed" /\ ~run[s].changed
          => text[r] = text[s]
       /\ run[r].mock => \A i \in DOMAIN heard[r] :
            \E j \in DOMAIN trace[s] : trace[s][j].key = heard[r][i].key
                                          /\ trace[s][j].out = heard[r][i].result

\* What makes a replay miss: each is a limit of the trace or of the request.
SourceIncomplete(r) == ~frozen[r].whole \/ run[run[r].source].code # None
OtherRequest(r) ==
  LET s == run[r].source
  IN run[r].agent # run[s].agent \/ frozen[r].turns # frozen[s].turns
OtherModel(r) == ModelOf(run[r].source) # GeminiModel
OtherQuestionRecorded(r) == run[r].agent = "plugin"
NothingSaid(r) == text[run[r].source] = <<>>
ResultsNotKept(r) ==
  ~run[r].mock \/ \E i \in ToolSteps(run[r].source) : IsCut(trace[run[r].source][i].out)
HumanChanged(r) == run[run[r].source].changed
CommitsFailed(r) == {r, run[r].source} \cap hurt # {}

(* A replay misses for a reason.  When a completed run is asked again of    *)
(* the same agent, with recorded tools and the model's default name, and    *)
(* its results fit into previews, its arguments were not changed by a human *)
(* and no commit of a step failed, no question of it is missed.             *)
MissExplained ==
  \A r \in ReplayRuns : run[r].code = "REPLAY_MISMATCH" =>
    \/ SourceIncomplete(r) \/ OtherRequest(r) \/ OtherModel(r) \/ OtherQuestionRecorded(r)
    \/ NothingSaid(r) \/ ResultsNotKept(r) \/ HumanChanged(r) \/ CommitsFailed(r)
=============================================================================
