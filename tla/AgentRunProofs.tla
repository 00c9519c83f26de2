---------------------------- MODULE AgentRunProofs ----------------------------
(***************************************************************************)
(* What AgentRun promises of a run and of a replay of it, for any number   *)
(* of runs that replay each other, any answers and any failures.           *)
(***************************************************************************)
EXTENDS AgentRun, FiniteSetTheorems, TLAPS

Labels == {"note", "search", "read", "probe", "model", "record", "complete"}

RunRecords ==
  [status : Statuses, code : Codes \cup {None}, agent : Agents, kind : Kinds,
   model : Models \cup {None}, input : Inputs,
   shared : BOOLEAN, source : Runs \cup {None}, mock : BOOLEAN, granted : BOOLEAN, changed : BOOLEAN]
FrozenRecords == [llm : Seq(Steps), tools : Seq(Steps), whole : BOOLEAN, turns : Nat]
ModelCalls ==
  [on : BOOLEAN, kind : Kinds, streams : BOOLEAN, source : Sources, attempt : 1 .. Attempts,
   got : 0 .. MaxPieces, said : Seq(Words), retried : BOOLEAN]
ToolKeys == ToolNames \X Subjects
ToolCalls ==
  [at : Moments, tool : ToolNames \cup {""}, args : Subjects \cup {None}, tries : 0 .. MaxTries,
   result : Seq(Words), code : Codes \cup {None}]
RowRecords == [key : ToolKeys, result : Seq(Words), code : Codes \cup {None}]
HeardRecords == [key : ToolKeys, result : Seq(Words)]

\* A run and what its agent works on, its calls of a model and of tools, and
\* what all runs share.
RunTypes ==
  /\ run \in [Runs -> RunRecords]
  /\ pc \in [Runs -> Nat]
  /\ args \in [Runs -> Paths]
  /\ content \in [Runs -> Seq(Words)]

ModelTypes ==
  /\ llm \in [Runs -> ModelCalls]
  /\ text \in [Runs -> Seq(Words)]
  /\ metered \in [Runs -> Nat \cup {None}]

ToolTypes ==
  /\ call \in [Runs -> ToolCalls]
  /\ heard \in [Runs -> Seq(HeardRecords)]

TraceTypes ==
  /\ trace \in [Runs -> Seq(Steps)]
  /\ faults \in 0 .. MaxFaults
  /\ hurt \subseteq Runs

SharedTypes ==
  /\ rows \in [Runs -> Seq(RowRecords)]
  /\ frozen \in [Runs -> FrozenRecords]
  /\ config \in [failover : BOOLEAN, privacy : BOOLEAN, hitl : BOOLEAN]
  /\ files \in [Paths -> Texts]
  /\ turns \in Nat

Types == RunTypes /\ ModelTypes /\ ToolTypes /\ TraceTypes /\ SharedTypes

\* Where a program may stand.
Here(program, p, label) == p \in 1 .. Len(program) /\ program[p] = label
PassedAt(program, p, label) == \E i \in 1 .. Len(program) : program[i] = label /\ i < p

Program(r) == ProgramOf(run[r])
Passed(r, label) == PassedAt(Program(r), pc[r], label)

\* Nothing is there of a run that nobody asked for.
Blank(r) ==
  run[r].status = "none" =>
    /\ run[r] = NoRun /\ pc[r] = 0 /\ args[r] = Readme /\ content[r] = <<>>
    /\ trace[r] = <<>> /\ rows[r] = <<>> /\ heard[r] = <<>>
    /\ llm[r] = NoCall /\ call[r] = NoTool /\ text[r] = <<>> /\ metered[r] = None

\* A call is of the step that the program is at, and a run has a reason to fail.
Busy(r) ==
  /\ pc[r] \in 0 .. Len(Program(r))
  /\ run[r].status = "failed" <=> run[r].code # None
  /\ run[r].mock => Replays(r)
  /\ llm[r].on => At(r, "model") /\ call[r].at = "none" /\ ~Replays(r)
  /\ call[r].at # "none" =>
       AtTool(r) /\ ~run[r].mock /\ Key(call[r]) = <<Tool(r), Arguments(r)>>
  /\ call[r].at = "raised" => call[r].code # None
  /\ run[r].status = "suspended" =>
       /\ Here(Program(r), pc[r], "read") \/ Here(Program(r), pc[r], "probe")
       /\ ~run[r].mock

-----------------------------------------------------------------------------
(* The programs.                                                            *)

USE DEF Graph, Streams

\* What a program is made of: a step that is not a note comes once, the last
\* step ends the run, and what is asked of the model comes after the tools.
Orderly(program) ==
  /\ program \in Seq(Labels) /\ Len(program) \in 3 .. 7
  /\ \A i, j \in 1 .. Len(program) : program[i] = program[j] => i = j \/ program[i] = "note"
  /\ \A i \in 1 .. Len(program) : program[i] \in {"record", "complete"} <=> i = Len(program)
  /\ \A i, j \in 1 .. Len(program) :
       i < j => /\ program[i] = "model" => program[j] \in {"note", "record", "complete"}
                /\ program[i] \in {"read", "probe"} => program[j] # "search"

\* The steps that an agent takes.
Suits(program, agent) ==
  \A i \in 1 .. Len(program) :
    /\ program[i] = "record" => Streams(agent)
    /\ program[i] = "complete" => Graph(agent)
    /\ program[i] = "search" => agent \in {"research", "research-chain"}
    /\ program[i] = "read" => agent \in {"research", "research-chain"}
    /\ program[i] = "probe" => agent \in {"hitl-demo", "plugin"}
    /\ program[i] = "model" => agent # "hitl-demo"

\* The six programs are such, and one that is no hitl-demo asks the model.
LEMMA Programs ==
  ASSUME NEW q, q.agent \in Agents
  PROVE  /\ Orderly(ProgramOf(q)) /\ Suits(ProgramOf(q), q.agent)
         /\ q.agent # "hitl-demo" =>
              \E i \in 1 .. Len(ProgramOf(q)) - 1 : ProgramOf(q)[i] = "model"
<1> DEFINE program == ProgramOf(q)
<1> USE DEF Labels, Orderly, Suits, Agents
<1>1. CASE q.agent = "echo"
  <2>1. program = EchoProgram
    BY <1>1 DEF ProgramOf
  <2>2. EchoProgram[2] = "model" /\ Len(EchoProgram) = 3
    BY DEF EchoProgram
  <2>3. Orderly(EchoProgram)
    BY DEF EchoProgram
  <2>4. Suits(EchoProgram, q.agent)
    BY <1>1 DEF EchoProgram
  <2> QED
    BY ONLY <2>1, <2>2, <2>3, <2>4
<1>2. CASE q.agent = "research" /\ q.input = "a path"
  <2>1. program = PathProgram
    BY <1>2 DEF ProgramOf
  <2>2. PathProgram[3] = "model" /\ Len(PathProgram) = 4
    BY DEF PathProgram
  <2>3. Orderly(PathProgram)
    BY DEF PathProgram
  <2>4. Suits(PathProgram, "research")
    BY DEF PathProgram
  <2>5. q.agent = "research"
    BY <1>2
  <2> HIDE DEF Orderly, Suits
  <2>6. Suits(program, q.agent)
    BY ONLY <2>1, <2>4, <2>5
  <2> QED
    BY ONLY <2>1, <2>2, <2>3, <2>6
<1>3. CASE q.agent = "research" /\ q.input # "a path"
  <2>1. program = ResearchProgram
    BY <1>3 DEF ProgramOf
  <2>2. ResearchProgram[4] = "model" /\ Len(ResearchProgram) = 5
    BY DEF ResearchProgram
  <2>3. Orderly(ResearchProgram)
    BY DEF ResearchProgram
  <2>4. Suits(ResearchProgram, "research")
    BY DEF ResearchProgram
  <2>5. q.agent = "research"
    BY <1>3
  <2> HIDE DEF Orderly, Suits
  <2>6. Suits(program, q.agent)
    BY ONLY <2>1, <2>4, <2>5
  <2> QED
    BY ONLY <2>1, <2>2, <2>3, <2>6
<1>4. CASE q.agent = "research-chain"
  <2>1. program = ChainProgram
    BY <1>4 DEF ProgramOf
  <2>2. ChainProgram[5] = "model" /\ Len(ChainProgram) = 7
    BY DEF ChainProgram
  <2>3. Orderly(ChainProgram)
    BY DEF ChainProgram
  <2>4. Suits(ChainProgram, q.agent)
    BY <1>4 DEF ChainProgram
  <2> QED
    BY ONLY <2>1, <2>2, <2>3, <2>4
<1>5. CASE q.agent = "hitl-demo"
  <2>1. program = HitlDemoProgram
    BY <1>5 DEF ProgramOf
  <2> QED
    BY <2>1, <1>5 DEF HitlDemoProgram
<1>6. CASE q.agent = "plugin"
  <2>1. program = PluginProgram
    BY <1>6 DEF ProgramOf
  <2>2. PluginProgram[2] = "model" /\ Len(PluginProgram) = 4
    BY DEF PluginProgram
  <2>3. Orderly(PluginProgram)
    BY DEF PluginProgram
  <2>4. Suits(PluginProgram, q.agent)
    BY <1>6 DEF PluginProgram
  <2> QED
    BY ONLY <2>1, <2>2, <2>3, <2>4
<1> QED
  BY <1>1, <1>2, <1>3, <1>4, <1>5, <1>6

\* A step of a program that goes on is followed by another.
LEMMA GoesOn ==
  ASSUME NEW program, Orderly(program), NEW p, NEW label \in Labels \ {"record", "complete"},
         Here(program, p, label)
  PROVE  p + 1 \in 1 .. Len(program) /\ p < Len(program)
BY DEF Orderly, Here, Labels

\* What is behind the program once it goes on.
LEMMA LeftBehind ==
  ASSUME NEW program, Orderly(program), NEW p \in 0 .. Len(program), NEW label
  PROVE  PassedAt(program, p + 1, label) <=> PassedAt(program, p, label) \/ Here(program, p, label)
BY DEF Orderly, Here, PassedAt

\* A step that comes once is not behind the program while it is there.
LEMMA NotYetBehind ==
  ASSUME NEW program, Orderly(program), NEW p, NEW label, label # "note",
         Here(program, p, label)
  PROVE  ~PassedAt(program, p, label)
BY DEF Orderly, Here, PassedAt

-----------------------------------------------------------------------------
(* What steps are made of.                                                  *)

LEMMA PreviewKeeps ==
  ASSUME NEW S, Dots \in S, NEW said \in Seq(S)
  PROVE  Preview(said) \in Seq(S) /\ (Preview(said) = <<>> <=> said = <<>>)
<1>1. CASE Len(said) <= PreviewLength
  BY <1>1 DEF Preview
<1>2. CASE Len(said) > PreviewLength
  <2>1. PreviewLength - 1 \in Nat /\ PreviewLength - 1 <= Len(said)
    BY <1>2, PreviewAssumption
  <2>2. SubSeq(said, 1, PreviewLength - 1) \in Seq(S)
    BY <2>1
  <2>3. Preview(said) = Append(SubSeq(said, 1, PreviewLength - 1), Dots)
    BY <1>2, PreviewAssumption DEF Preview
  <2>4. said # <<>>
    BY <1>2, PreviewAssumption
  <2> QED
    BY <2>2, <2>3, <2>4
<1> QED
  BY <1>1, <1>2, PreviewAssumption

LEMMA NoteTyped == ASSUME NEW agent \in Agents PROVE AgentStep(agent) \in Steps
<1>1. Preview(<<>>) = <<>>
  BY PreviewAssumption DEF Preview
<1>2. <<agent>> \in Seq(Agents)
  OBVIOUS
<1> QED
  BY <1>1, <1>2 DEF AgentStep, Step, Steps, Notes

LEMMA OutcomeTyped ==
  ASSUME NEW key \in ToolKeys, NEW result \in Seq(Words), NEW code \in Codes \cup {None}
  PROVE  /\ ToolStep(key, result, code) \in Steps
         /\ ToolStep(key, result, code).type = "tool" /\ ToolStep(key, result, code).key = key
         /\ ToolStep(key, result, code).code = code
         /\ code = None => ToolStep(key, result, code).out = Preview(result)
         /\ code # None => ToolStep(key, result, code).out = <<>>
<1> DEFINE output == IF code = None THEN result ELSE <<>>
<1>0. Dots \in Words
  BY WordsAssumption, PathsAssumption
<1>1. output \in Seq(Words)
  OBVIOUS
<1>2. Preview(output) \in Seq(Words) /\ Preview(<<>>) = <<>>
  BY <1>0, <1>1, PreviewKeeps, PreviewAssumption DEF Preview
<1>3. ToolStep(key, result, code) =
        [type |-> "tool", key |-> key, out |-> Preview(output), code |-> code, usage |-> None]
  BY DEF ToolStep, Step
<1>4. ToolStep(key, result, code) \in Outcomes
  BY ONLY <1>2, <1>3, key \in ToolKeys, code \in Codes \cup {None} DEF Outcomes, ToolKeys
<1> QED
  BY <1>2, <1>3, <1>4 DEF Steps

LEMMA AnswerTyped ==
  ASSUME NEW key \in Models \X Questions, NEW said \in Seq(Words),
         NEW usage \in Nat \cup {None}
  PROVE  LlmStep(key, said, usage) \in Steps
<1>1. Preview(said) \in Seq(Words)
  BY PreviewKeeps, WordsAssumption
<1> QED
  BY <1>1 DEF LlmStep, Step, Steps, Answers

\* The steps of a model's answer and of a tool's outcome, by their types.
LEMMA StepTypes ==
  ASSUME NEW step \in Steps
  PROVE  /\ step.type \in {"agent", "tool", "llm"} /\ step # None
         /\ step.type = "llm" => step.out \in Seq(Words) /\ step.usage \in Nat \cup {None}
         /\ step.type = "tool" => step.key \in ToolKeys /\ step.code \in Codes \cup {None}
         /\ step.out \in Seq(Words)
<1>1. CASE step \in Notes
  <2>1. step.out = <<>> /\ step.type = "agent" /\ step # None
    BY <1>1, StepsAssumption DEF Notes, Steps
  <2>2. step.out \in Seq(Words)
    BY <2>1
  <2> QED
    BY <2>1, <2>2
<1>2. CASE step \in Outcomes
  BY <1>2, StepsAssumption DEF Outcomes, Steps, ToolKeys
<1>3. CASE step \in Answers
  <2> DEFINE keys == Models \X Questions
  <2>1. step \in [type : {"llm"}, key : keys, out : Seq(Words), code : {None}, usage : Nat \cup {None}]
    BY <1>3 DEF Answers
  <2> HIDE DEF keys
  <2>2. step.out \in Seq(Words) /\ step.usage \in Nat \cup {None} /\ step.type = "llm"
    BY ONLY <2>1
  <2> QED
    BY <2>2, StepsAssumption
<1> QED
  BY <1>1, <1>2, <1>3 DEF Steps

\* What is looked up is there, is not empty and is what was asked for; and what
\* is there is found, when nothing else has its key.
LEMMA LookupFinds ==
  ASSUME NEW steps \in Seq(Steps), NEW type, NEW key, NEW step,
         step = Lookup(steps, type, key), step # None
  PROVE  \E i \in DOMAIN steps :
           steps[i] = step /\ step.type = type /\ step.key = key /\ step.out # <<>>
<1> DEFINE last == Newest({i \in StepsOf(steps, type) : steps[i].key = key})
<1>1. step = IF \E i \in last : steps[i].out # <<>> THEN steps[CHOOSE i \in last : TRUE] ELSE None
  BY DEF Lookup
<1>2. PICK i \in last : steps[i].out # <<>>
  BY <1>1
<1>3. \A j \in last : j = i
  <2>1. \A j \in last : j \in Nat /\ j <= i /\ i <= j
    BY DEF Newest, StepsOf
  <2> QED
    BY ONLY <2>1, <1>2
<1>4. step = steps[i]
  BY <1>1, <1>2, <1>3
<1>5. i \in DOMAIN steps /\ steps[i].type = type /\ steps[i].key = key
  BY DEF Newest, StepsOf
<1> QED
  BY <1>2, <1>4, <1>5

LEMMA LookupMeets ==
  ASSUME NEW steps \in Seq(Steps), NEW type, NEW key, NEW i \in DOMAIN steps,
         steps[i].type = type, steps[i].key = key, steps[i].out # <<>>,
         \A j \in DOMAIN steps : steps[j].type = type /\ steps[j].key = key => j = i
  PROVE  Lookup(steps, type, key) = steps[i]
<1> DEFINE last == Newest({j \in StepsOf(steps, type) : steps[j].key = key})
<1>1. last = {i}
  BY DEF Newest, StepsOf
<1>2. (CHOOSE j \in last : TRUE) = i
  BY <1>1
<1>3. \E j \in last : steps[j].out # <<>>
  BY <1>1
<1> QED
  BY <1>2, <1>3 DEF Lookup

-----------------------------------------------------------------------------
(* Types.                                                                   *)

USE DEF Program, Replays, Running

LEMMA NoToolTyped == NoTool \in ToolCalls
BY TriesAssumption DEF NoTool, ToolCalls, Moments

LEMMA NoCallTyped == NoCall \in ModelCalls
<1>1. "mock" \in Kinds /\ "mock" \in Sources /\ 1 \in 1 .. Attempts /\ 0 \in 0 .. MaxPieces
  BY CallsAssumption DEF Kinds, Sources
<1> QED
  BY <1>1 DEF NoCall, ModelCalls

LEMMA TypesAtFirst == Init => Types
<1> SUFFICES ASSUME Init PROVE Types
  OBVIOUS
<1> USE DEF Init, TraceInit, ProviderInit, ToolsInit
<1>1. NoRun \in RunRecords
  BY DEF NoRun, RunRecords, Statuses, Agents, Kinds, Inputs
<1>2. RunTypes
  BY <1>1, ReadmeAssumption DEF RunTypes
<1>3. NoCall \in ModelCalls
  BY NoCallTyped
<1>4. ModelTypes
  <2>1. llm \in [Runs -> ModelCalls] /\ text \in [Runs -> Seq(Words)]
    BY <1>3
  <2>2. metered \in [Runs -> Nat \cup {None}]
    OBVIOUS
  <2> QED
    BY <2>1, <2>2 DEF ModelTypes
<1>5. NoTool \in ToolCalls
  BY NoToolTyped
<1>6. ToolTypes
  BY <1>5 DEF ToolTypes
<1>7. TraceTypes
  BY FaultsAssumption DEF TraceTypes
<1>8. frozen \in [Runs -> FrozenRecords]
  BY DEF FrozenRecords
<1>9. files \in [Paths -> Texts] /\ config \in [failover : BOOLEAN, privacy : BOOLEAN, hitl : BOOLEAN]
  BY ReadmeAssumption, ConfigsAssumption
<1> QED
  BY <1>2, <1>4, <1>6, <1>7, <1>8, <1>9 DEF Types, SharedTypes

\* A step is written, or its commit failed: then it may be missing.
Written(r, step) ==
  /\ trace' \in {trace, [trace EXCEPT ![r] = Append(@, step)]}
  /\ faults' \in 0 .. MaxFaults
  /\ hurt' \in {hurt, hurt \cup {r}}
  /\ r \notin hurt' => trace' = [trace EXCEPT ![r] = Append(@, step)]

LEMMA Faulty == ASSUME TraceTypes, Fault PROVE faults' \in 0 .. MaxFaults
BY FaultsAssumption DEF TraceTypes, Fault

LEMMA WrittenTyped ==
  ASSUME TraceTypes, NEW r \in Runs, NEW step \in Steps, Written(r, step)
  PROVE  TraceTypes'
<1>1. Append(trace[r], step) \in Seq(Steps)
  BY DEF TraceTypes
<1>2. trace' \in [Runs -> Seq(Steps)]
  BY <1>1 DEF TraceTypes, Written
<1> QED
  BY <1>2 DEF TraceTypes, Written

LEMMA Unwritten == ASSUME TraceTypes, UNCHANGED traceVars PROVE TraceTypes'
BY DEF TraceTypes, traceVars

LEMMA FailTyped ==
  ASSUME RunTypes, NEW r \in Runs, NEW code \in Codes, Fail(r, code)
  PROVE  /\ run' \in [Runs -> RunRecords]
         /\ run' = [run EXCEPT ![r] = [run[r] EXCEPT !.status = "failed", !.code = code]]
<1>1. [run[r] EXCEPT !.status = "failed", !.code = code] \in RunRecords
  BY DEF RunTypes, RunRecords, Statuses
<1> QED
  BY <1>1 DEF Fail, RunTypes

LEMMA ErrsTyped ==
  ASSUME RunTypes, ToolTypes, NEW r \in Runs, NEW code \in Codes, Errs(r, code)
  PROVE  RunTypes' /\ ToolTypes'
<1>1. NoTool \in ToolCalls
  BY NoToolTyped
<1>2. ToolTypes'
  BY <1>1 DEF ToolTypes, Errs
<1>3. CASE At(r, "search")
  <2>1. run' = run /\ content' = content /\ args' = [args EXCEPT ![r] = Readme]
        /\ pc' = [pc EXCEPT ![r] = pc[r] + 1]
    BY <1>3 DEF Errs, Advance
  <2> QED
    BY <2>1, <1>2, ReadmeAssumption DEF RunTypes
<1>4. CASE ~At(r, "search")
  <2>1. Fail(r, code) /\ pc' = pc /\ args' = args /\ content' = content
    BY <1>4 DEF Errs
  <2>2. run' \in [Runs -> RunRecords]
    BY <2>1, FailTyped
  <2> QED
    BY <2>1, <2>2, <1>2 DEF RunTypes
<1> QED
  BY <1>2, <1>3, <1>4

LEMMA ReturnsTyped ==
  ASSUME RunTypes, ToolTypes, NEW r \in Runs, NEW key \in ToolKeys, NEW result \in Seq(Words),
         Returns(r, key, result)
  PROVE  RunTypes' /\ ToolTypes'
<1>1. NoTool \in ToolCalls
  BY NoToolTyped
<1>2. [key |-> key, result |-> result] \in HeardRecords
  BY DEF HeardRecords
<1>3. ToolTypes'
  BY <1>1, <1>2 DEF ToolTypes, Returns
<1>4. FirstHit(result) \in Paths
  BY ReadmeAssumption DEF FirstHit
<1>5. CASE At(r, "search")
  <2>1. run' = run /\ content' = content /\ args' = [args EXCEPT ![r] = FirstHit(result)]
        /\ pc' = [pc EXCEPT ![r] = pc[r] + 1]
    BY <1>5 DEF Returns, Advance
  <2> QED
    BY <2>1, <1>3, <1>4 DEF RunTypes
<1>6. CASE ~At(r, "search")
  <2>1. run' = run /\ args' = args /\ content' = [content EXCEPT ![r] = result]
        /\ pc' = [pc EXCEPT ![r] = pc[r] + 1]
    BY <1>6 DEF Returns, Advance
  <2> QED
    BY <2>1, <1>3 DEF RunTypes
<1> QED
  BY <1>3, <1>5, <1>6

LEMMA AtOne == ASSUME NEW r \in Runs, NEW a, NEW b, At(r, a), At(r, b) PROVE a = b
BY DEF At

\* What a tool is called with, and what the handler of a call gives.
LEMMA KeyTyped == ASSUME RunTypes, NEW r \in Runs PROVE <<Tool(r), Arguments(r)>> \in ToolKeys
<1>1. Tool(r) \in ToolNames
  BY DEF Tool, ToolNames
<1>2. [query |-> run[r].input, hitsFor |-> run[r].agent] \in Subjects
  BY DEF Subjects, RunTypes, RunRecords
<1>3. args[r] \in Subjects
  BY DEF Subjects, RunTypes
<1> QED
  BY <1>1, <1>2, <1>3 DEF Arguments, ToolKeys

LEMMA ToolAnswers ==
  ASSUME RunTypes, SharedTypes, NEW r \in Runs, call[r].at # "none", Busy(r),
         NEW result \in Results(call[r])
  PROVE  result \in Documents
<1>1. call[r].tool = Tool(r) /\ call[r].args = Arguments(r)
  BY DEF Busy, Key
<1>2. CASE At(r, "search")
  <2>1. call[r].tool = "search_workspace"
    BY <1>1, <1>2, AtOne DEF Tool
  <2> QED
    BY <2>1, ResultsAssumption DEF Results
<1>3. CASE ~At(r, "search")
  <2>1. call[r].args \in Paths /\ call[r].tool # "search_workspace"
    BY <1>1, <1>3 DEF Arguments, Tool, RunTypes
  <2>2. <<call[r].args>> \in Documents
    BY <2>1, WordsAssumption, PathsAssumption DEF Documents
  <2>3. files[call[r].args] \in Documents
    BY <2>1, ResultsAssumption DEF SharedTypes
  <2> QED
    BY <2>1, <2>2, <2>3 DEF Results
<1> QED
  BY <1>2, <1>3

LEMMA ModelStepTyped ==
  ASSUME RunTypes, ModelTypes, SharedTypes, NEW r \in Runs
  PROVE  /\ ModelStep(r) \in Steps
         /\ UsageOf(r) \in Nat \cup {None}
<1>1. ModelOf(r) \in Models
  <2>1. run[r].model \in Models \cup {None}
    BY DEF RunTypes, RunRecords
  <2> QED
    BY <2>1 DEF ModelOf, ResolvedModel, GeminiModel, Models
<1>2. Question(r) \in Questions
  <2>1. <<"echo", run[r].input, frozen[r].turns>> \in {"echo"} \X Inputs \X Nat
    BY DEF RunTypes, RunRecords, SharedTypes, FrozenRecords
  <2>2. <<run[r].agent, content[r]>> \in Agents \X Seq(Words)
    BY DEF RunTypes, RunRecords
  <2> QED
    BY <2>1, <2>2 DEF Question, Questions
<1>3. <<"user", run[r].input>> \in Questions
  BY DEF Questions, RunTypes, RunRecords
<1>4. RecordedQuestion(r) \in Questions
  BY <1>2, <1>3 DEF RecordedQuestion
<1>5. Reply(r) \in Seq(Words) /\ metered[r] \in Nat \cup {None}
  <2>1. llm[r].said \in Seq(Words) /\ content[r] \in Seq(Words) /\ metered[r] \in Nat \cup {None}
    BY DEF ModelTypes, ModelCalls, RunTypes
  <2> QED
    BY <2>1 DEF Reply
<1>6. EstimatedUsage(Reply(r)) \in Nat
  BY <1>5 DEF EstimatedUsage
<1>7. UsageOf(r) \in Nat \cup {None}
  BY <1>5, <1>6 DEF UsageOf, PopUsage
<1>8. <<ModelOf(r), RecordedQuestion(r)>> \in Models \X Questions
  BY <1>1, <1>4
<1>9. ModelStep(r) \in Steps
  BY ONLY <1>5, <1>7, <1>8, AnswerTyped DEF ModelStep
<1> QED
  BY <1>7, <1>9

\* What an action leaves alone keeps its type.
LEMMA RunsKept == RunTypes /\ UNCHANGED <<run, pc, args, content>> => RunTypes'
BY DEF RunTypes
LEMMA ModelsKept == ModelTypes /\ UNCHANGED providerVars => ModelTypes'
BY DEF ModelTypes, providerVars
LEMMA ToolsKept == ToolTypes /\ UNCHANGED <<call, heard>> => ToolTypes'
BY DEF ToolTypes
LEMMA SharedKept ==
  SharedTypes /\ UNCHANGED <<rows, frozen, config, files, turns>> => SharedTypes'
BY DEF SharedTypes

\* The three ways of Record: the step is there, or a fault went with it.
LEMMA RecordWrites ==
  ASSUME TraceTypes, NEW r \in Runs, NEW step \in Steps, NEW ACTION Then, NEW ACTION Else,
         Record(r, step, Then, Else)
  PROVE  /\ Written(r, step) /\ TraceTypes'
         /\ \/ Then /\ hurt' = hurt /\ trace' = [trace EXCEPT ![r] = Append(@, step)]
            \/ Else /\ r \in hurt'
<1>1. CASE /\ trace' = [trace EXCEPT ![r] = Append(@, step)]
           /\ Then
           /\ UNCHANGED <<faults, hurt>>
  BY <1>1, WrittenTyped DEF Written, TraceTypes
<1>2. CASE /\ Fault
           /\ trace' \in {trace, [trace EXCEPT ![r] = Append(@, step)]}
           /\ hurt' = hurt \cup {r}
           /\ Else
  <2>1. Written(r, step)
    BY <1>2, Faulty DEF Written
  <2> QED
    BY <1>2, <2>1, WrittenTyped
<1> QED
  BY <1>1, <1>2 DEF Record

\* Every action keeps the types.
LEMMA BuildTyped == ASSUME Types, NEW r \in Runs, Busy(r), Build(r) PROVE Types'
<1> USE DEF Types
<1>1. RunTypes'
  BY DEF Build, Advance, RunTypes
<1>2. frozen' \in [Runs -> FrozenRecords]
  <2> DEFINE tools == IF run[r].mock THEN trace[run[r].source] ELSE <<>>
             steps == IF run[r].shared THEN turns ELSE 0
  <2>1. frozen' = [frozen EXCEPT ![r].turns = steps, ![r].tools = tools]
    BY DEF Build
  <2>2. tools \in Seq(Steps) /\ steps \in Nat
    BY DEF TraceTypes, Busy, RunTypes, RunRecords, SharedTypes
  <2> HIDE DEF tools, steps
  <2> QED
    BY <2>1, <2>2 DEF SharedTypes, FrozenRecords
<1>3. ModelTypes' /\ ToolTypes' /\ TraceTypes'
  BY ModelsKept, ToolsKept, Unwritten DEF Build, toolVars
<1> QED
  BY <1>1, <1>2, <1>3 DEF Build, SharedTypes, toolVars

LEMMA NoteStepTyped == ASSUME Types, NEW r \in Runs, Note(r) PROVE Types'
<1> USE DEF Types
<1>1. AgentStep(run[r].agent) \in Steps
  BY NoteTyped DEF RunTypes, RunRecords
<1>2. /\ TraceTypes'
      /\ (Advance(r) /\ UNCHANGED run) \/ (Fail(r, "RUN_FAILED") /\ UNCHANGED pc)
  BY <1>1, RecordWrites DEF Note
<1>3. RunTypes'
  <2>1. args' = args /\ content' = content
    BY DEF Note
  <2>2. CASE Advance(r) /\ UNCHANGED run
    BY <2>1, <2>2 DEF Advance, RunTypes
  <2>3. CASE Fail(r, "RUN_FAILED") /\ UNCHANGED pc
    BY <2>1, <2>3, FailTyped DEF RunTypes, Codes
  <2> QED
    BY <1>2, <2>2, <2>3
<1>4. ModelTypes' /\ ToolTypes' /\ SharedTypes'
  BY ModelsKept, ToolsKept, SharedKept DEF Note, toolVars
<1> QED
  BY <1>2, <1>3, <1>4

\* A call of a tool begins, and moves on.
LEMMA CallMoves ==
  ASSUME NEW old \in ToolCalls, NEW tool \in ToolNames, NEW subject \in Subjects, NEW moment \in Moments,
         NEW result \in Seq(Words), NEW code \in Codes \cup {None}
  PROVE  /\ [old EXCEPT !.at = "handler", !.tool = tool, !.args = subject, !.tries = 1] \in ToolCalls
         /\ [old EXCEPT !.at = moment, !.result = result, !.code = code] \in ToolCalls
<1>1. 1 \in 0 .. MaxTries /\ "handler" \in Moments
  BY TriesAssumption DEF Moments
<1> QED
  BY <1>1 DEF ToolCalls

LEMMA CallToolTyped == ASSUME Types, NEW r \in Runs, CallTool(r) PROVE Types'
<1> USE DEF Types
<1> DEFINE made == [NoTool EXCEPT !.at = "handler", !.tool = Tool(r), !.args = Arguments(r), !.tries = 1]
<1>1. call' = [call EXCEPT ![r] = made] /\ heard' = heard
  BY DEF CallTool, Invoke
<1>2. Tool(r) \in ToolNames /\ Arguments(r) \in Subjects
  BY KeyTyped DEF ToolKeys
<1>3. made \in ToolCalls
  <2>1. "none" \in Moments /\ <<>> \in Seq(Words)
    BY DEF Moments
  <2> QED
    BY <2>1, <1>2, NoToolTyped, CallMoves
<1> HIDE DEF made
<1>4. ToolTypes'
  BY <1>1, <1>3 DEF ToolTypes
<1> QED
  BY <1>4, RunsKept, ModelsKept, SharedKept, Unwritten DEF CallTool, Invoke, agentVars

LEMMA ChaosTyped == ASSUME Types, NEW r \in Runs, ChaosFails(r) PROVE Types'
<1> USE DEF Types
<1>1. RunTypes' /\ ToolTypes'
  BY ErrsTyped DEF ChaosFails, Codes
<1>2. TraceTypes'
  BY Faulty DEF ChaosFails, TraceTypes
<1> QED
  BY <1>1, <1>2, ModelsKept, SharedKept DEF ChaosFails

LEMMA RecalledSound ==
  ASSUME NEW steps \in Seq(Steps), NEW key, Recalled(steps, key) # None
  PROVE  \E i \in DOMAIN steps :
           /\ steps[i] = Recalled(steps, key) /\ steps[i].type = "tool" /\ steps[i].key = key
           /\ steps[i].out # <<>> /\ ~IsCut(steps[i].out)
<1>1. Recalled(steps, key) = Lookup(steps, "tool", key) /\ ~IsCut(Recalled(steps, key).out)
  BY DEF Recalled
<1> QED
  BY <1>1, LookupFinds

LEMMA RecallTyped == ASSUME Types, NEW r \in Runs, RecallTool(r) PROVE Types'
<1> USE DEF Types
<1> DEFINE key == <<Tool(r), Arguments(r)>>
           step == Recalled(frozen[r].tools, key)
<1>1. key \in ToolKeys
  BY KeyTyped
<1>2. ModelTypes' /\ SharedTypes'
  BY ModelsKept, SharedKept DEF RecallTool
<1>3. CASE step = None
  BY <1>2, <1>3, ErrsTyped, Unwritten DEF RecallTool, Codes
<1>4. CASE step # None
  <2>1. step.out \in Seq(Words)
    <3>1. frozen[r].tools \in Seq(Steps)
      BY DEF SharedTypes, FrozenRecords
    <3>2. step \in Steps
      BY <1>4, <3>1, RecalledSound
    <3> QED
      BY <3>2, StepTypes
  <2> DEFINE new == ToolStep(key, step.out, None)
  <2>2. new \in Steps
    BY <1>1, <2>1, OutcomeTyped
  <2>3. Record(r, new, Returns(r, key, step.out), Errs(r, "RUN_FAILED"))
    BY <1>4 DEF RecallTool
  <2> HIDE DEF new, key, step
  <2>4. TraceTypes' /\ (Returns(r, key, step.out) \/ Errs(r, "RUN_FAILED"))
    BY <2>2, <2>3, RecordWrites
  <2>5. RunTypes' /\ ToolTypes'
    BY <1>1, <2>1, <2>4, ReturnsTyped, ErrsTyped DEF Codes
  <2> QED
    BY <1>2, <2>4, <2>5
<1> QED
  BY <1>3, <1>4

\* A row is booked, or not, and the call leaves the handler.
LEMMA BookedTyped ==
  ASSUME SharedTypes, NEW r \in Runs, Key(call[r]) \in ToolKeys, NEW result \in Seq(Words),
         NEW code \in Codes \cup {None}, Booked(r, result, code) \/ UNCHANGED rows
  PROVE  rows' \in [Runs -> Seq(RowRecords)]
<1> DEFINE row == [key |-> Key(call[r]), result |-> result, code |-> code]
<1>1. row \in RowRecords
  BY DEF RowRecords
<1>2. Booked(r, result, code) => rows' = [rows EXCEPT ![r] = Append(@, row)]
  BY DEF Booked
<1> HIDE DEF row
<1>3. Append(rows[r], row) \in Seq(RowRecords)
  BY <1>1 DEF SharedTypes
<1> QED
  BY <1>2, <1>3 DEF SharedTypes

LEMMA LeftTyped ==
  ASSUME ToolTypes, NEW r \in Runs, NEW moment \in Moments, NEW result \in Seq(Words),
         NEW code \in Codes \cup {None}, Left(r, moment, result, code)
  PROVE  call' \in [Runs -> ToolCalls]
<1>1. call' = [call EXCEPT ![r] = [call[r] EXCEPT !.at = moment, !.result = result, !.code = code]]
  BY Zenon DEF Left
<1>2. [call[r] EXCEPT !.at = moment, !.result = result, !.code = code] \in ToolCalls
  BY DEF ToolTypes, ToolCalls
<1> QED
  BY <1>1, <1>2 DEF ToolTypes

LEMMA ToolWorksTyped == ASSUME Types, NEW r \in Runs, Busy(r), ToolWorks(r) PROVE Types'
<1> USE DEF Types
<1>1. RunTypes' /\ ModelTypes'
  BY RunsKept, ModelsKept DEF ToolWorks, agentVars
<1>2. call[r].at = "handler" /\ Key(call[r]) \in ToolKeys
  BY KeyTyped DEF ToolWorks, Busy
<1>3. UNCHANGED <<trace, hurt, heard, config, frozen, files, turns>>
  BY DEF ToolWorks, Handler, Handling, HandlerRetried, HandlerFails, HandlerReturns, agentVars
<1>4. SUFFICES faults' \in 0 .. MaxFaults /\ call' \in [Runs -> ToolCalls]
               /\ rows' \in [Runs -> Seq(RowRecords)]
  BY <1>1, <1>3 DEF ToolTypes, TraceTypes, SharedTypes
<1>5. ASSUME Fault PROVE faults' \in 0 .. MaxFaults
  BY <1>5, Faulty
<1>6. CASE HandlerRetried(r)
  <2>1. call' = [call EXCEPT ![r].tries = @ + 1] /\ call[r].tries < MaxTries
        /\ UNCHANGED <<faults, rows>>
    BY <1>6 DEF HandlerRetried, Retries
  <2>2. call' \in [Runs -> ToolCalls]
    <3>1. call[r].tries + 1 \in 0 .. MaxTries
      <4>1. call[r] \in ToolCalls
        BY DEF ToolTypes
      <4>2. call[r].tries \in 0 .. MaxTries
        BY ONLY <4>1 DEF ToolCalls
      <4> QED
        BY ONLY <4>2, <2>1, TriesAssumption
    <3> QED
      BY <2>1, <3>1 DEF ToolTypes, ToolCalls
  <2> QED
    BY <2>1, <2>2 DEF SharedTypes, TraceTypes
<1>7. CASE HandlerFails(r)
  <2>1. PICK code \in TracedCodes \cup {"TOOL_ERROR"} : Fails(r, code) \/ BookingFails(r, <<>>, code)
    BY <1>7 DEF HandlerFails
  <2>2. Fault
    BY <1>7 DEF HandlerFails
  <2>3. code \in Codes /\ <<>> \in Seq(Words)
    BY DEF Codes, TracedCodes
  <2>4. rows' \in [Runs -> Seq(RowRecords)]
    BY <2>1, <2>3, <1>2, BookedTyped DEF Fails, BookingFails
  <2>5. call' \in [Runs -> ToolCalls]
    <3>1. PICK moment \in {"trace", "raised"}, left \in Codes : Left(r, moment, <<>>, left)
      BY <2>1, <2>3 DEF Fails, BookingFails, Codes
    <3> QED
      BY <3>1, <2>3, LeftTyped DEF Moments
  <2> QED
    BY <2>2, <2>4, <2>5, <1>5
<1>8. ASSUME NEW result \in Results(call[r]), HandlerReturns(r, result)
      PROVE  faults' \in 0 .. MaxFaults /\ call' \in [Runs -> ToolCalls]
             /\ rows' \in [Runs -> Seq(RowRecords)]
  <2>1. result \in Seq(Words) /\ <<>> \in Seq(Words)
    BY <1>2, ToolAnswers DEF Documents
  <2>2. faults' \in 0 .. MaxFaults
    BY <1>8, <1>5 DEF HandlerReturns, TraceTypes
  <2>3. rows' \in [Runs -> Seq(RowRecords)]
    BY <1>8, <2>1, <1>2, BookedTyped DEF HandlerReturns, BookingFails, Codes
  <2>4. \E moment \in {"trace", "raised"}, said \in {result, <<>>}, left \in Codes \cup {None} :
          Left(r, moment, said, left)
    BY <1>8 DEF HandlerReturns, BookingFails, Codes
  <2>5. call' \in [Runs -> ToolCalls]
    BY <2>4, <2>1, LeftTyped DEF Moments
  <2> QED
    BY <2>2, <2>3, <2>5
<1> QED
  BY <1>6, <1>7, <1>8 DEF ToolWorks, Handler

LEMMA ToolEndsTyped == ASSUME Types, NEW r \in Runs, Busy(r), ToolEnds(r) PROVE Types'
<1> USE DEF Types
<1>1. ModelTypes' /\ SharedTypes'
  BY ModelsKept, SharedKept DEF ToolEnds
<1>2. /\ Key(call[r]) \in ToolKeys /\ call[r].result \in Seq(Words)
      /\ call[r].code \in Codes \cup {None} /\ "RUN_FAILED" \in Codes
  BY KeyTyped DEF ToolEnds, Busy, ToolTypes, ToolCalls, Codes
<1>3. CASE call[r].at = "trace"
  <2>1. TracedStep(r) \in Steps
    BY <1>2, OutcomeTyped DEF TracedStep
  <2>2. /\ TraceTypes'
        /\ \/ IF call[r].code = None THEN Returns(r, Key(call[r]), call[r].result)
              ELSE Errs(r, call[r].code)
           \/ Errs(r, "RUN_FAILED")
    BY <1>3, <2>1, RecordWrites DEF ToolEnds
  <2>3. RunTypes' /\ ToolTypes'
    BY <1>2, <2>2, ReturnsTyped, ErrsTyped
  <2> QED
    BY <1>1, <2>2, <2>3
<1>4. CASE call[r].at = "raised"
  <2>1. Errs(r, call[r].code) /\ UNCHANGED traceVars /\ call[r].code \in Codes
    BY <1>2, <1>4 DEF ToolEnds, Busy
  <2> QED
    BY <1>1, <2>1, ErrsTyped, Unwritten
<1> QED
  BY <1>3, <1>4 DEF ToolEnds

\* How a run and a call of a model move.
LEMMA RunMoves ==
  ASSUME NEW old \in RunRecords, NEW status \in {"running", "suspended", "completed"},
         NEW changed \in BOOLEAN
  PROVE  /\ [old EXCEPT !.status = status] \in RunRecords
         /\ [old EXCEPT !.status = status, !.granted = TRUE] \in RunRecords
         /\ [old EXCEPT !.status = status, !.granted = TRUE, !.changed = changed] \in RunRecords
<1>1. status \in Statuses /\ TRUE \in BOOLEAN
  BY DEF Statuses
<1> QED
  BY <1>1 DEF RunRecords

LEMMA CallBegins ==
  ASSUME NEW kind \in Kinds, NEW streams \in BOOLEAN, NEW source \in Sources, NEW said \in Seq(Words)
  PROVE  /\ [NoCall EXCEPT !.on = TRUE, !.kind = kind, !.streams = streams, !.source = source]
              \in ModelCalls
         /\ [NoCall EXCEPT !.streams = streams, !.said = said] \in ModelCalls
<1> DEFINE old == NoCall
<1>1. old \in ModelCalls /\ TRUE \in BOOLEAN
  BY NoCallTyped
<1> HIDE DEF old
<1>2. /\ [old EXCEPT !.on = TRUE, !.kind = kind, !.streams = streams, !.source = source]
           \in ModelCalls
      /\ [old EXCEPT !.streams = streams, !.said = said] \in ModelCalls
  BY <1>1 DEF ModelCalls
<1> QED
  BY <1>2 DEF old

\* Approval only moves the run, and what the next call is for.
LEMMA ApprovalTyped ==
  ASSUME Types, NEW r \in Runs,
         Asks(r) \/ GraphGoesOn(r) \/ ExecutorStops(r) \/ Rejected(r)
  PROVE  Types'
<1> USE DEF Types
<1>1. ModelTypes' /\ ToolTypes' /\ TraceTypes' /\ SharedTypes'
  BY ModelsKept, ToolsKept, SharedKept, Unwritten
     DEF Asks, GraphGoesOn, ExecutorStops, Rejected, toolVars
<1>2. CASE Asks(r)
  <2>1. run' = [run EXCEPT ![r] = [run[r] EXCEPT !.status = "suspended"]]
    BY <1>2, Zenon DEF Asks
  <2>2. run' \in [Runs -> RunRecords]
    BY <2>1, RunMoves DEF RunTypes
  <2> QED
    BY <1>1, <1>2, <2>2 DEF Asks, RunTypes
<1>3. CASE GraphGoesOn(r)
  <2>1. PICK path \in Paths :
          /\ run' = [run EXCEPT ![r].status = "running", ![r].granted = TRUE,
                                ![r].changed = path # args[r]]
          /\ args' = [args EXCEPT ![r] = path]
    BY <1>3 DEF GraphGoesOn
  <2>2. run' \in [Runs -> RunRecords]
    <3> DEFINE changed == path # args[r]
    <3>1. run' = [run EXCEPT ![r] =
                    [run[r] EXCEPT !.status = "running", !.granted = TRUE, !.changed = changed]]
      BY <2>1, Zenon
    <3>2. changed \in BOOLEAN
      OBVIOUS
    <3> HIDE DEF changed
    <3> QED
      BY <3>1, <3>2, RunMoves DEF RunTypes
  <2> QED
    BY <1>1, <1>3, <2>1, <2>2 DEF GraphGoesOn, RunTypes
<1>4. CASE ExecutorStops(r)
  <2>1. run' = [run EXCEPT ![r] = [run[r] EXCEPT !.status = "completed", !.granted = TRUE]]
    BY <1>4, Zenon DEF ExecutorStops
  <2>2. run' \in [Runs -> RunRecords]
    BY <2>1, RunMoves DEF RunTypes
  <2> QED
    BY <1>1, <1>4, <2>2 DEF ExecutorStops, RunTypes
<1>5. CASE Rejected(r)
  BY <1>1, <1>5, FailTyped DEF Rejected, RunTypes, Codes, TracedCodes
<1> QED
  BY <1>2, <1>3, <1>4, <1>5

LEMMA CallModelTyped == ASSUME Types, NEW r \in Runs, CallModel(r) PROVE Types'
<1> USE DEF Types
<1> DEFINE made == [NoCall EXCEPT !.on = TRUE, !.kind = run[r].kind, !.streams = Streams(run[r].agent),
                           !.source = IF run[r].kind = "mock" THEN "mock" ELSE "primary"]
<1>1. llm' = [llm EXCEPT ![r] = made]
  BY DEF CallModel, Call
<1>2. made \in ModelCalls
  <2> DEFINE source == IF run[r].kind = "mock" THEN "mock" ELSE "primary"
             streams == Streams(run[r].agent)
  <2>1. run[r].kind \in Kinds /\ source \in Sources /\ streams \in BOOLEAN
    BY DEF RunTypes, RunRecords, Sources
  <2>2. made = [NoCall EXCEPT !.on = TRUE, !.kind = run[r].kind, !.streams = streams, !.source = source]
    OBVIOUS
  <2>3. <<>> \in Seq(Words)
    OBVIOUS
  <2> HIDE DEF source, streams, made
  <2> QED
    BY <2>1, <2>2, <2>3, CallBegins
<1> HIDE DEF made
<1>3. ModelTypes'
  BY <1>1, <1>2 DEF CallModel, Call, ModelTypes
<1> QED
  BY <1>3, RunsKept, ToolsKept, SharedKept, Unwritten DEF CallModel, agentVars, toolVars

\* Calling again, and saying another piece.
LEMMA AgainTyped ==
  ASSUME ModelTypes, NEW r \in Runs, NEW source \in Sources, NEW attempt \in 1 .. Attempts
  PROVE  Again(r, source, attempt) \in ModelCalls
<1> DEFINE retried == llm[r].retried \/ source = "primary"
           said == IF llm[r].streams THEN llm[r].said ELSE <<>>
<1>1. llm[r] \in ModelCalls
  BY DEF ModelTypes
<1>2. said \in Seq(Words) /\ retried \in BOOLEAN /\ 0 \in 0 .. MaxPieces
  BY <1>1, CallsAssumption DEF ModelCalls
<1>3. Again(r, source, attempt) =
        [llm[r] EXCEPT !.source = source, !.attempt = attempt, !.got = 0,
                       !.retried = retried, !.said = said]
  BY DEF Again
<1> HIDE DEF retried, said
<1> QED
  BY <1>1, <1>2, <1>3 DEF ModelCalls

LEMMA SpeaksTyped == ASSUME Types, NEW r \in Runs, ModelSpeaks(r) PROVE Types'
<1> USE DEF Types
<1>1. RunTypes' /\ ToolTypes' /\ SharedTypes' /\ TraceTypes'
  BY RunsKept, ToolsKept, SharedKept, Unwritten DEF ModelSpeaks, agentVars, toolVars
<1>2. llm[r] \in ModelCalls
  BY DEF ModelTypes
<1>3. CASE Piece(r)
  <2>1. /\ llm' = [llm EXCEPT ![r].got = llm[r].got + 1, ![r].said = Append(llm[r].said, llm[r].source)]
        /\ llm[r].got < MaxPieces
        /\ text' \in {text, [text EXCEPT ![r] = Append(text[r], llm[r].source)]}
        /\ metered' = metered
    BY <1>3 DEF Piece
  <2>2. Append(llm[r].said, llm[r].source) \in Seq(Words) /\ llm[r].got \in 0 .. MaxPieces
        /\ llm[r].source \in Words
    BY <1>2, WordsAssumption DEF ModelCalls
  <2>3. llm[r].got + 1 \in 0 .. MaxPieces
    BY <2>1, <2>2, CallsAssumption
  <2>4. llm' \in [Runs -> ModelCalls]
    <3> DEFINE made == [llm[r] EXCEPT !.got = llm[r].got + 1,
                                      !.said = Append(llm[r].said, llm[r].source)]
    <3>1. llm' = [llm EXCEPT ![r] = made]
      BY <2>1, Zenon
    <3>2. made \in ModelCalls
      BY <1>2, <2>2, <2>3 DEF ModelCalls
    <3> HIDE DEF made
    <3> QED
      BY <3>1, <3>2 DEF ModelTypes
  <2>5. Append(text[r], llm[r].source) \in Seq(Words)
    BY <2>2 DEF ModelTypes
  <2> QED
    BY <1>1, <2>1, <2>4, <2>5 DEF ModelTypes
<1>4. CASE GeminiRetries(r) \/ RouterFailsOver(r)
  <2>1. PICK source \in Sources, attempt \in 1 .. Attempts :
          llm' = [llm EXCEPT ![r] = Again(r, source, attempt)]
    <3>1. llm[r].attempt \in 1 .. Attempts
      BY <1>2 DEF ModelCalls
    <3>2. llm[r].attempt < Attempts => llm[r].attempt + 1 \in 1 .. Attempts
      BY <3>1, CallsAssumption
    <3> QED
      BY <1>4, <3>1, <3>2 DEF GeminiRetries, RouterFailsOver, Sources
  <2>2. Again(r, source, attempt) \in ModelCalls
    BY AgainTyped
  <2>3. ModelTypes'
    BY <2>1, <2>2, <1>4 DEF GeminiRetries, RouterFailsOver, Breaks, ModelTypes
  <2> QED
    BY <1>1, <2>3
<1> QED
  BY <1>3, <1>4 DEF ModelSpeaks

LEMMA CollectTyped == ASSUME ModelTypes, NEW r \in Runs PROVE CollectUsage(r) \in Nat
<1>1. llm[r].got \in Nat /\ llm[r].said \in Seq(Words)
  BY CallsAssumption DEF ModelTypes, ModelCalls
<1>2. Len(llm[r].said) \in Nat
  BY <1>1
<1> QED
  BY <1>1, <1>2 DEF CollectUsage, EstimatedUsage, OpenAIUsage, GeminiUsage, AnthropicUsage

LEMMA EndsTyped == ASSUME Types, NEW r \in Runs, ModelEnds(r) \/ ModelFails(r) PROVE Types'
<1> USE DEF Types
<1>1. ToolTypes' /\ SharedTypes' /\ TraceTypes'
  BY ToolsKept, SharedKept, Unwritten DEF ModelEnds, ModelFails, toolVars
<1>2. llm' = [llm EXCEPT ![r].on = FALSE] /\ text' = text
  BY DEF ModelEnds, ModelFails, Answered, ProviderRaises, Breaks
<1>3. llm' \in [Runs -> ModelCalls]
  BY <1>2 DEF ModelTypes, ModelCalls
<1>4. metered' \in [Runs -> Nat \cup {None}]
  BY CollectTyped DEF ModelTypes, ModelEnds, ModelFails, Answered, ProviderRaises, Breaks
<1>5. RunTypes'
  <2>1. CASE ModelEnds(r)
    BY <2>1 DEF ModelEnds, Advance, RunTypes
  <2>2. CASE ModelFails(r)
    BY <2>2, FailTyped DEF ModelFails, RunTypes, Codes
  <2> QED
    BY <2>1, <2>2
<1> QED
  BY <1>1, <1>2, <1>3, <1>4, <1>5 DEF ModelTypes

\* A recorded answer is the model's answer of a step.
LEMMA RecordedSound ==
  ASSUME SharedTypes, NEW r \in Runs, Recorded(r) # None
  PROVE  /\ \E i \in DOMAIN frozen[r].llm :
              /\ frozen[r].llm[i] = Recorded(r) /\ Recorded(r).type = "llm"
              /\ Recorded(r).key = <<GeminiModel, Question(r)>>
         /\ Recorded(r).out # <<>>
         /\ Recorded(r).out \in Seq(Words)
         /\ Recorded(r).usage \in Nat \cup {None}
<1>1. frozen[r].llm \in Seq(Steps)
  BY DEF SharedTypes, FrozenRecords
<1>2. PICK i \in DOMAIN frozen[r].llm :
        /\ frozen[r].llm[i] = Recorded(r) /\ Recorded(r).type = "llm"
        /\ Recorded(r).key = <<GeminiModel, Question(r)>> /\ Recorded(r).out # <<>>
  <2> DEFINE step == Recorded(r)
  <2>1. step = Lookup(frozen[r].llm, "llm", <<GeminiModel, Question(r)>>)
    BY DEF Recorded
  <2> HIDE DEF step
  <2>2. step # None
    BY DEF step
  <2> QED
    BY <1>1, <2>1, <2>2, LookupFinds DEF step
<1>3. Recorded(r) \in Steps
  BY <1>1, <1>2
<1> QED
  BY <1>2, <1>3, StepTypes

LEMMA ReplayModelTyped ==
  ASSUME Types, NEW r \in Runs, ReplayModel(r) \/ ReplayMisses(r) \/ StepLimit(r) PROVE Types'
<1> USE DEF Types
<1>1. ToolTypes' /\ SharedTypes' /\ TraceTypes'
  BY ToolsKept, SharedKept, Unwritten DEF ReplayModel, ReplayMisses, StepLimit, toolVars
<1>2. CASE ReplayModel(r)
  <2> DEFINE step == Recorded(r)
             made == [NoCall EXCEPT !.streams = Streams(run[r].agent), !.said = step.out]
  <2>1. /\ step.out \in Seq(Words) /\ step.usage \in Nat \cup {None}
    BY <1>2, RecordedSound DEF ReplayModel
  <2>2. /\ llm' = [llm EXCEPT ![r] = made]
        /\ text' \in {text, [text EXCEPT ![r] = step.out]}
        /\ metered' = [metered EXCEPT ![r] = step.usage]
    BY <1>2 DEF ReplayModel
  <2> HIDE DEF step
  <2>4. made \in ModelCalls
    <3> DEFINE streams == Streams(run[r].agent)
    <3>1. streams \in BOOLEAN /\ "mock" \in Kinds /\ "mock" \in Sources
      BY DEF Kinds, Sources
    <3>2. made = [NoCall EXCEPT !.streams = streams, !.said = step.out]
      OBVIOUS
    <3> HIDE DEF streams, made
    <3> QED
      BY <2>1, <3>1, <3>2, CallBegins
  <2> HIDE DEF made
  <2>5. ModelTypes'
    BY <2>1, <2>2, <2>4 DEF ModelTypes
  <2>6. RunTypes'
    BY <1>2 DEF ReplayModel, Advance, RunTypes
  <2> QED
    BY <1>1, <2>5, <2>6
<1>3. CASE ReplayMisses(r) \/ StepLimit(r)
  <2>1. RunTypes'
    BY <1>3, FailTyped DEF ReplayMisses, StepLimit, RunTypes, Codes
  <2> QED
    BY <1>1, <1>3, <2>1, ModelsKept DEF ReplayMisses, StepLimit
<1> QED
  BY <1>2, <1>3

\* The end of a run: completed, or failed with the commit of its answer.
LEMMA FinishTyped ==
  ASSUME Types, NEW r \in Runs, Finishes(r) \/ BreaksOff(r)
  PROVE  run' \in [Runs -> RunRecords] /\ turns' \in Nat
<1> USE DEF Types
<1>1. CASE Finishes(r)
  <2>1. run' = [run EXCEPT ![r] = [run[r] EXCEPT !.status = "completed"]]
    BY <1>1, Zenon DEF Finishes
  <2>2. run' \in [Runs -> RunRecords]
    BY <2>1, RunMoves DEF RunTypes
  <2> QED
    BY <1>1, <2>2 DEF Finishes, SharedTypes
<1>2. CASE BreaksOff(r)
  BY <1>2, FailTyped DEF BreaksOff, SharedTypes, Codes
<1> QED
  BY <1>1, <1>2

LEMMA RecordTyped ==
  ASSUME Types, NEW r \in Runs, RecordModel(r) \/ Complete(r) PROVE Types'
<1> USE DEF Types
<1>1. UNCHANGED <<pc, args, content, llm, metered, call, heard, rows, frozen, config, files>>
  BY DEF RecordModel, Complete, toolVars
<1>2. /\ Finishes(r) \/ BreaksOff(r)
      /\ TraceTypes'
  <2>1. CASE Record(r, ModelStep(r), Finishes(r), BreaksOff(r))
    BY <2>1, ModelStepTyped, RecordWrites
  <2>2. CASE Finishes(r) /\ UNCHANGED traceVars
    BY <2>2, Unwritten
  <2> QED
    BY <2>1, <2>2 DEF RecordModel, Complete
<1>3. run' \in [Runs -> RunRecords] /\ turns' \in Nat
  BY <1>2, FinishTyped
<1>4. text' \in [Runs -> Seq(Words)]
  <2>2. Reply(r) \in Seq(Words)
    BY DEF RunTypes, ModelTypes, ModelCalls, Reply
  <2>3. PICK said \in Seq(Words) : text' \in {text, [text EXCEPT ![r] = said]}
    BY <2>2 DEF RecordModel, Complete
  <2> QED
    BY <2>3 DEF ModelTypes
<1>5. RunTypes' /\ ToolTypes'
  BY <1>1, <1>3 DEF RunTypes, ToolTypes
<1>6. ModelTypes'
  BY <1>1, <1>4 DEF ModelTypes
<1>7. SharedTypes'
  BY <1>1, <1>3 DEF SharedTypes
<1> QED
  BY <1>2, <1>5, <1>6, <1>7

LEMMA StepTyped ==
  ASSUME Types, NEW r \in Runs, Busy(r), AgentStepOf(r) PROVE Types'
BY BuildTyped, NoteStepTyped, CallToolTyped, ChaosTyped, RecallTyped, ToolWorksTyped, ToolEndsTyped,
   ApprovalTyped, CallModelTyped, SpeaksTyped, EndsTyped, ReplayModelTyped, RecordTyped
   DEF AgentStepOf

\* What a request asks for.
Asked(asked) ==
  /\ asked.status = "running" /\ asked.code = None
  /\ ~asked.granted /\ ~asked.changed
  /\ asked.mock => asked.source # None

LEMMA StartLiveTyped ==
  ASSUME Types, NEW r \in LiveRuns, NEW q \in Requests, StartLive(r, q)
  PROVE  /\ Types'
         /\ \E asked \in RunRecords :
              /\ Asked(asked) /\ asked.source = None /\ ~asked.mock
              /\ run' = [run EXCEPT ![r] = asked]
<1> USE DEF Types
<1> DEFINE asked == [NoRun EXCEPT !.status = "running", !.agent = q.agent, !.kind = q.kind,
                                  !.model = q.model, !.input = q.input, !.shared = q.shared]
<1>1. run' = [run EXCEPT ![r] = asked]
  BY DEF StartLive
<1>2. /\ q.agent \in Agents /\ q.kind \in Kinds /\ q.input \in Inputs /\ q.shared \in BOOLEAN
      /\ q.model \in Models \cup {None}
      /\ "running" \in Statuses /\ r \in Runs
  BY RequestsAssumption DEF Statuses, Runs
<1>3. NoRun \in RunRecords
  BY DEF NoRun, RunRecords, Statuses, Agents, Kinds, Inputs
<1>4. asked \in RunRecords
  BY <1>2, <1>3 DEF RunRecords
<1>5. Asked(asked) /\ asked.source = None /\ ~asked.mock
  BY DEF NoRun, Asked
<1> HIDE DEF asked
<1>6. RunTypes'
  BY <1>1, <1>2, <1>4 DEF StartLive, RunTypes
<1>7. Types'
  BY <1>6, ModelsKept, ToolsKept, SharedKept, Unwritten DEF StartLive, toolVars
<1> QED
  BY <1>1, <1>4, <1>5, <1>7

LEMMA StartReplayTyped ==
  ASSUME Types, NEW r \in ReplayRuns, NEW s \in Runs, NEW q \in Replayings, NEW mock \in BOOLEAN,
         StartReplay(r, s, q.agent, mock, q.shared)
  PROVE  /\ Types'
         /\ \E asked \in RunRecords :
              /\ Asked(asked) /\ asked.source = s /\ asked.mock = mock
              /\ asked.input = run[s].input /\ asked.agent = q.agent /\ asked.kind = "gemini"
              /\ run' = [run EXCEPT ![r] = asked]
<1> USE DEF Types
<1> DEFINE asked == [NoRun EXCEPT !.status = "running", !.agent = q.agent, !.kind = "gemini",
                                  !.input = run[s].input, !.shared = q.shared,
                                  !.source = s, !.mock = mock]
<1>1. run' = [run EXCEPT ![r] = asked]
  BY DEF StartReplay
<1>2. /\ q.agent \in Agents /\ "gemini" \in Kinds /\ run[s].input \in Inputs /\ q.shared \in BOOLEAN
      /\ "running" \in Statuses /\ r \in Runs
  BY RequestsAssumption DEF Statuses, Runs, Kinds, RunTypes, RunRecords
<1>3. NoRun \in RunRecords
  BY DEF NoRun, RunRecords, Statuses, Agents, Kinds, Inputs
<1>4. asked \in RunRecords
  BY <1>2, <1>3 DEF RunRecords
<1>5. Asked(asked) /\ asked.source = s /\ asked.mock = mock /\ asked.input = run[s].input
      /\ asked.agent = q.agent /\ asked.kind = "gemini"
  BY RunsAssumption DEF NoRun, Asked
<1> HIDE DEF asked
<1>6. RunTypes'
  BY <1>1, <1>2, <1>4 DEF StartReplay, RunTypes
<1>7. frozen' \in [Runs -> FrozenRecords]
  <2> DEFINE whole == run[s].status = "completed"
  <2>1. frozen' = [frozen EXCEPT ![r] = [frozen[r] EXCEPT !.llm = trace[s], !.whole = whole]]
    BY Zenon DEF StartReplay
  <2>2. whole \in BOOLEAN /\ trace[s] \in Seq(Steps)
    BY DEF TraceTypes
  <2> HIDE DEF whole
  <2>3. [frozen[r] EXCEPT !.llm = trace[s], !.whole = whole] \in FrozenRecords
    BY <1>2, <2>2 DEF SharedTypes, FrozenRecords
  <2> QED
    BY <2>1, <2>3 DEF SharedTypes
<1>8. Types'
  BY <1>6, <1>7, ModelsKept, ToolsKept, Unwritten DEF StartReplay, toolVars, SharedTypes
<1> QED
  BY <1>1, <1>4, <1>5, <1>8

LEMMA EditTyped == ASSUME Types, EditFile PROVE Types'
<1> USE DEF Types
<1>1. files' \in [Paths -> Texts]
  BY DEF EditFile, SharedTypes
<1> QED
  BY <1>1, RunsKept, ModelsKept, ToolsKept, Faulty
     DEF EditFile, SharedTypes, TraceTypes, agentVars, toolVars

-----------------------------------------------------------------------------
(* What a step does to a run: to its own, and to the others.                *)

SameAsked(r) ==
  /\ run'[r].agent = run[r].agent /\ run'[r].kind = run[r].kind /\ run'[r].model = run[r].model
  /\ run'[r].input = run[r].input
  /\ run'[r].shared = run[r].shared /\ run'[r].source = run[r].source /\ run'[r].mock = run[r].mock

RunStays(r) == run'[r] = run[r]
PcStays(r) == pc'[r] = pc[r]
PcGoesOn(r) == pc'[r] = pc[r] + 1
WorkStays(r) == args'[r] = args[r] /\ content'[r] = content[r]
FrozenStays(r) == frozen'[r] = frozen[r]
ModelStays(r) == llm'[r] = llm[r] /\ text'[r] = text[r] /\ metered'[r] = metered[r]
CallStays(r) == call'[r] = call[r]
HeardStays(r) == heard'[r] = heard[r]
RowsStay(r) == rows'[r] = rows[r]
TraceStays(r) == trace'[r] = trace[r]
HurtStays(r) == r \in hurt' <=> r \in hurt

\* Everything of a run stays.
Stays(r) ==
  /\ RunStays(r) /\ PcStays(r) /\ WorkStays(r) /\ FrozenStays(r) /\ ModelStays(r)
  /\ CallStays(r) /\ HeardStays(r) /\ RowsStay(r) /\ TraceStays(r) /\ HurtStays(r)

\* A run changes its status, and nothing that was asked.
Becomes(r, status, code) ==
  /\ SameAsked(r) /\ run'[r].status = status /\ run'[r].code = code
  /\ run'[r].granted = run[r].granted /\ run'[r].changed = run[r].changed

FailsWith(r, code) == Becomes(r, "failed", code)

\* A step joins the trace, unless its commit failed.
Joins(r, step) == trace'[r] = Append(trace[r], step) /\ HurtStays(r)
MayJoin(r, step) == trace'[r] \in {trace[r], Append(trace[r], step)} /\ r \in hurt'

\* A call is over: its error is overlooked by a search and ends any other run, ...
Errored(r, code) ==
  /\ call'[r] = NoTool /\ HeardStays(r) /\ content'[r] = content[r]
  /\ \/ At(r, "search") /\ RunStays(r) /\ PcGoesOn(r) /\ args'[r] = Readme
     \/ ~At(r, "search") /\ FailsWith(r, code) /\ PcStays(r) /\ args'[r] = args[r]

\* ... its result reaches the agent.
Returned(r, key, result) ==
  /\ call'[r] = NoTool /\ RunStays(r) /\ PcGoesOn(r)
  /\ heard'[r] = Append(heard[r], [key |-> key, result |-> result])
  /\ \/ At(r, "search") /\ args'[r] = FirstHit(result) /\ content'[r] = content[r]
     \/ ~At(r, "search") /\ content'[r] = result /\ args'[r] = args[r]

LEMMA FailAt ==
  ASSUME Types, NEW r \in Runs, NEW code \in Codes, Fail(r, code) PROVE FailsWith(r, code)
<1> USE DEF Types
<1> DEFINE new == [run[r] EXCEPT !.status = "failed", !.code = code]
<1>1. run' = [run EXCEPT ![r] = new]
  BY FailTyped
<1> HIDE DEF new
<1>2. run'[r] = new /\ run[r] \in RunRecords
  BY <1>1 DEF RunTypes
<1> QED
  BY <1>2 DEF new, RunRecords, FailsWith, Becomes, SameAsked

LEMMA ErrsAt ==
  ASSUME Types, NEW r \in Runs, NEW code \in Codes, Errs(r, code) PROVE Errored(r, code)
<1> USE DEF Types
<1>1. call'[r] = NoTool /\ HeardStays(r) /\ content'[r] = content[r]
  BY DEF Errs, ToolTypes, HeardStays
<1>2. CASE At(r, "search")
  BY <1>1, <1>2 DEF Errs, RunTypes, Errored, RunStays, PcGoesOn, Advance
<1>3. CASE ~At(r, "search")
  BY <1>1, <1>3, FailAt DEF Errs, Errored, PcStays
<1> QED
  BY <1>2, <1>3

LEMMA ReturnsAt ==
  ASSUME Types, NEW r \in Runs, NEW key, NEW result, Returns(r, key, result)
  PROVE  Returned(r, key, result)
<1> USE DEF Types
<1>1. /\ call'[r] = NoTool /\ RunStays(r) /\ PcGoesOn(r)
      /\ heard'[r] = Append(heard[r], [key |-> key, result |-> result])
  BY DEF Returns, ToolTypes, RunTypes, RunStays, PcGoesOn, Advance
<1>2. CASE At(r, "search")
  BY <1>1, <1>2 DEF Returns, RunTypes, Returned
<1>3. CASE ~At(r, "search")
  BY <1>1, <1>3 DEF Returns, RunTypes, Returned
<1> QED
  BY <1>2, <1>3

LEMMA RecordAt ==
  ASSUME Types, NEW r \in Runs, NEW step \in Steps, NEW ACTION Then, NEW ACTION Else,
         Record(r, step, Then, Else)
  PROVE  \/ Then /\ Joins(r, step)
         \/ Else /\ MayJoin(r, step)
<1> USE DEF Types
<1>1. Written(r, step)
  BY RecordWrites
<1>2. CASE Then /\ hurt' = hurt /\ trace' = [trace EXCEPT ![r] = Append(@, step)]
  BY <1>2 DEF Joins, HurtStays, TraceTypes
<1>3. CASE Else /\ r \in hurt'
  BY <1>1, <1>3 DEF MayJoin, Written, TraceTypes
<1> QED
  BY <1>2, <1>3, RecordWrites

\* The actions, as a run sees them.
LEMMA BuildAt ==
  ASSUME Types, NEW r \in Runs, Build(r)
  PROVE  /\ Running(r) /\ pc[r] = 0 /\ PcGoesOn(r)
         /\ RunStays(r) /\ WorkStays(r) /\ ModelStays(r) /\ CallStays(r) /\ HeardStays(r)
         /\ RowsStay(r) /\ TraceStays(r) /\ HurtStays(r)
         /\ frozen'[r].llm = frozen[r].llm /\ frozen'[r].whole = frozen[r].whole
         /\ frozen'[r].turns = IF run[r].shared THEN turns ELSE 0
         /\ frozen'[r].tools = IF run[r].mock THEN trace[run[r].source] ELSE <<>>
<1> USE DEF Types
<1>1. /\ Running(r) /\ pc[r] = 0 /\ PcGoesOn(r)
      /\ RunStays(r) /\ WorkStays(r) /\ ModelStays(r) /\ CallStays(r) /\ HeardStays(r)
      /\ RowsStay(r) /\ TraceStays(r) /\ HurtStays(r)
  BY DEF Build, Advance, RunTypes, PcGoesOn, RunStays, WorkStays, ModelStays, CallStays, HeardStays,
         RowsStay, TraceStays, HurtStays, traceVars, providerVars, toolVars
<1>2. frozen[r] \in FrozenRecords /\ DOMAIN frozen = Runs
  BY DEF SharedTypes
<1> DEFINE tools == IF run[r].mock THEN trace[run[r].source] ELSE <<>>
           steps == IF run[r].shared THEN turns ELSE 0
<1>3. frozen' = [frozen EXCEPT ![r].turns = steps, ![r].tools = tools]
  BY DEF Build
<1> HIDE DEF tools, steps
<1>4. /\ frozen'[r].llm = frozen[r].llm /\ frozen'[r].whole = frozen[r].whole
      /\ frozen'[r].turns = steps /\ frozen'[r].tools = tools
  BY <1>2, <1>3 DEF FrozenRecords
<1> QED
  BY <1>1, <1>4 DEF tools, steps

LEMMA NoteAt ==
  ASSUME Types, NEW r \in Runs, Note(r)
  PROVE  /\ At(r, "note") /\ WorkStays(r) /\ FrozenStays(r) /\ ModelStays(r)
         /\ CallStays(r) /\ HeardStays(r) /\ RowsStay(r)
         /\ \/ RunStays(r) /\ PcGoesOn(r) /\ Joins(r, AgentStep(run[r].agent))
            \/ FailsWith(r, "RUN_FAILED") /\ PcStays(r) /\ MayJoin(r, AgentStep(run[r].agent))
<1> USE DEF Types
<1>1. AgentStep(run[r].agent) \in Steps
  BY NoteTyped DEF RunTypes, RunRecords
<1>2. \/ Advance(r) /\ UNCHANGED run /\ Joins(r, AgentStep(run[r].agent))
      \/ Fail(r, "RUN_FAILED") /\ UNCHANGED pc /\ MayJoin(r, AgentStep(run[r].agent))
  BY <1>1, RecordAt DEF Note
<1>3. /\ At(r, "note") /\ WorkStays(r) /\ FrozenStays(r) /\ ModelStays(r)
      /\ CallStays(r) /\ HeardStays(r) /\ RowsStay(r)
  BY DEF Note, WorkStays, FrozenStays, ModelStays, CallStays, HeardStays, RowsStay,
         providerVars, toolVars
<1>4. ASSUME Fail(r, "RUN_FAILED") PROVE FailsWith(r, "RUN_FAILED")
  BY <1>4, FailAt DEF Codes
<1> QED
  BY <1>2, <1>3, <1>4 DEF RunStays, PcStays, PcGoesOn, Advance, RunTypes

LEMMA CallToolAt ==
  ASSUME Types, NEW r \in Runs, CallTool(r)
  PROVE  /\ AtTool(r) /\ ~Gated(r) /\ Idle(r) /\ ~run[r].mock
         /\ call'[r].at = "handler" /\ Key(call'[r]) = <<Tool(r), Arguments(r)>>
         /\ call'[r].code = None /\ call'[r].tries = 1
         /\ RunStays(r) /\ PcStays(r) /\ WorkStays(r) /\ FrozenStays(r) /\ ModelStays(r)
         /\ HeardStays(r) /\ RowsStay(r) /\ TraceStays(r) /\ HurtStays(r)
<1> USE DEF Types
<1> DEFINE made == [NoTool EXCEPT !.at = "handler", !.tool = Tool(r), !.args = Arguments(r), !.tries = 1]
<1>1. call'[r] = made
  BY DEF CallTool, Invoke, ToolTypes
<1>2. /\ made.at = "handler" /\ made.tool = Tool(r) /\ made.args = Arguments(r)
      /\ made.code = None /\ made.tries = 1
  BY DEF NoTool
<1> HIDE DEF made
<1> QED
  BY <1>1, <1>2 DEF CallTool, Invoke, Key, RunStays, PcStays, WorkStays, FrozenStays, ModelStays,
     HeardStays, RowsStay, TraceStays, HurtStays, agentVars, providerVars, traceVars

\* What calls of tools, however they end, leave.
ToolLeaves(r) == FrozenStays(r) /\ ModelStays(r) /\ RowsStay(r)

LEMMA ChaosAt ==
  ASSUME Types, NEW r \in Runs, ChaosFails(r)
  PROVE  /\ AtTool(r) /\ Idle(r) /\ ~Replays(r) /\ Errored(r, "RUN_FAILED")
         /\ TraceStays(r) /\ HurtStays(r) /\ ToolLeaves(r)
<1>1. Errored(r, "RUN_FAILED")
  BY ErrsAt DEF ChaosFails, Codes
<1> QED
  BY <1>1 DEF ChaosFails, TraceStays, HurtStays, ToolLeaves, FrozenStays, ModelStays, RowsStay,
              providerVars

Recall(r) == Recalled(frozen[r].tools, <<Tool(r), Arguments(r)>>)

LEMMA RecallAt ==
  ASSUME Types, NEW r \in Runs, RecallTool(r)
  PROVE  /\ AtTool(r) /\ Idle(r) /\ run[r].mock /\ ToolLeaves(r)
         /\ \/ /\ Recall(r) = None /\ Errored(r, "REPLAY_MISMATCH")
               /\ TraceStays(r) /\ HurtStays(r)
            \/ /\ Recall(r) # None /\ Recall(r).out \in Seq(Words)
               /\ \/ /\ Returned(r, <<Tool(r), Arguments(r)>>, Recall(r).out)
                     /\ Joins(r, ToolStep(<<Tool(r), Arguments(r)>>, Recall(r).out, None))
                  \/ /\ Errored(r, "RUN_FAILED")
                     /\ MayJoin(r, ToolStep(<<Tool(r), Arguments(r)>>, Recall(r).out, None))
<1> USE DEF Types
<1> DEFINE key == <<Tool(r), Arguments(r)>>
           step == Recalled(frozen[r].tools, key)
<1>1. key \in ToolKeys
  BY KeyTyped
<1>2. AtTool(r) /\ Idle(r) /\ run[r].mock /\ ToolLeaves(r)
  BY DEF RecallTool, ToolLeaves, FrozenStays, ModelStays, RowsStay, providerVars
<1>3. CASE step = None
  <2>1. Errs(r, "REPLAY_MISMATCH") /\ UNCHANGED traceVars
    BY <1>3 DEF RecallTool
  <2>2. Errored(r, "REPLAY_MISMATCH")
    BY <2>1, ErrsAt DEF Codes
  <2> QED
    BY <1>2, <1>3, <2>1, <2>2 DEF Recall, TraceStays, HurtStays, traceVars
<1>4. CASE step # None
  <2>1. step.out \in Seq(Words)
    <3>1. frozen[r].tools \in Seq(Steps)
      BY DEF SharedTypes, FrozenRecords
    <3>2. step \in Steps
      BY <1>4, <3>1, RecalledSound
    <3> QED
      BY <3>2, StepTypes
  <2> DEFINE new == ToolStep(key, step.out, None)
  <2>2. new \in Steps
    BY <1>1, <2>1, OutcomeTyped
  <2>3. Record(r, new, Returns(r, key, step.out), Errs(r, "RUN_FAILED"))
    BY <1>4 DEF RecallTool
  <2> HIDE DEF new, key, step
  <2>4. \/ Returns(r, key, step.out) /\ Joins(r, new)
        \/ Errs(r, "RUN_FAILED") /\ MayJoin(r, new)
    BY <2>2, <2>3, RecordAt
  <2>5. \/ Returned(r, key, step.out) /\ Joins(r, new)
        \/ Errored(r, "RUN_FAILED") /\ MayJoin(r, new)
    BY <2>4, ReturnsAt, ErrsAt DEF Codes
  <2> QED
    BY <1>2, <1>4, <2>1, <2>5 DEF Recall, new, key, step
<1> QED
  BY <1>3, <1>4

\* The call at the handler is booked, or not, and goes on to its step or its end.
BookedAt(r, result, code) ==
  rows'[r] = Append(rows[r], [key |-> Key(call[r]), result |-> result, code |-> code])

LeftAt(r, moment, result, code) ==
  /\ call'[r].at = moment /\ Key(call'[r]) = Key(call[r])
  /\ call'[r].result = result /\ call'[r].code = code

LEMMA LeavesAt ==
  ASSUME Types, NEW r \in Runs, NEW moment \in Moments, NEW result \in Seq(Words),
         NEW code \in Codes \cup {None}, Left(r, moment, result, code)
  PROVE  LeftAt(r, moment, result, code)
<1> USE DEF Types
<1> DEFINE new == [call[r] EXCEPT !.at = moment, !.result = result, !.code = code]
<1>1. call' = [call EXCEPT ![r] = new]
  BY Zenon DEF Left
<1> HIDE DEF new
<1>2. call'[r] = new /\ call[r] \in ToolCalls
  BY <1>1 DEF ToolTypes
<1> QED
  BY <1>2 DEF new, ToolCalls, LeftAt, Key

LEMMA BooksAt ==
  ASSUME Types, NEW r \in Runs, NEW result, NEW code
  PROVE  /\ Booked(r, result, code) => BookedAt(r, result, code)
         /\ UNCHANGED rows => RowsStay(r)
BY DEF Types, SharedTypes, Booked, BookedAt, RowsStay

\* hitl_probe returns what it is called for.
Echoes(key, result) == key[1] = "hitl_probe" => result = <<key[2]>>

LEMMA ToolWorksAt ==
  ASSUME Types, NEW r \in Runs, Busy(r), ToolWorks(r)
  PROVE  /\ call[r].at = "handler"
         /\ RunStays(r) /\ PcStays(r) /\ WorkStays(r) /\ FrozenStays(r) /\ ModelStays(r)
         /\ HeardStays(r) /\ TraceStays(r) /\ HurtStays(r)
         /\ \/ RowsStay(r) /\ call'[r].at = "handler" /\ Key(call'[r]) = Key(call[r])
            \/ \E result \in Seq(Words), code \in Codes \cup {None} :
                 /\ LeftAt(r, "trace", result, code) /\ BookedAt(r, result, code)
                 /\ code = None => result # <<>> /\ Echoes(Key(call[r]), result)
            \/ \E booked \in Seq(Words), result \in Seq(Words),
                  code \in Codes \cup {None}, raised \in Codes :
                 /\ LeftAt(r, "raised", result, raised)
                 /\ BookedAt(r, booked, code) \/ RowsStay(r)
<1> USE DEF Types
<1>1. /\ call[r].at = "handler"
      /\ RunStays(r) /\ PcStays(r) /\ WorkStays(r) /\ FrozenStays(r) /\ ModelStays(r)
      /\ HeardStays(r) /\ TraceStays(r) /\ HurtStays(r)
  BY DEF ToolWorks, Handler, Handling, HandlerRetried, HandlerFails, HandlerReturns, agentVars,
         providerVars, RunStays, PcStays, WorkStays, FrozenStays, ModelStays,
         HeardStays, TraceStays, HurtStays
<1>2. /\ <<>> \in Seq(Words) /\ "TOOL_ERROR" \in Codes /\ "RUN_FAILED" \in Codes
      /\ TracedCodes \subseteq Codes /\ "trace" \in Moments /\ "raised" \in Moments
  BY DEF Codes, Moments
<1>3. CASE HandlerRetried(r)
  <2>1. call' = [call EXCEPT ![r].tries = @ + 1] /\ UNCHANGED rows
    BY <1>3 DEF HandlerRetried
  <2>2. call'[r].at = "handler" /\ Key(call'[r]) = Key(call[r])
    BY <2>1, <1>1 DEF ToolTypes, ToolCalls, Key
  <2> QED
    BY <1>1, <2>1, <2>2, BooksAt
<1>4. CASE HandlerFails(r)
  <2>1. PICK code \in Codes : Fails(r, code) \/ BookingFails(r, <<>>, code)
    BY <1>4, <1>2 DEF HandlerFails
  <2>2. CASE Fails(r, code)
    <3>1. BookedAt(r, <<>>, code)
      BY <2>2, BooksAt DEF Fails
    <3>2. LeftAt(r, "trace", <<>>, code) \/ LeftAt(r, "raised", <<>>, code)
      BY <2>2, <1>2, LeavesAt DEF Fails
    <3> QED
      BY <1>1, <1>2, <3>1, <3>2, CodesAssumption
  <2>3. CASE BookingFails(r, <<>>, code)
    <3>1. BookedAt(r, <<>>, code) \/ RowsStay(r)
      BY <2>3, BooksAt DEF BookingFails
    <3>2. LeftAt(r, "raised", <<>>, "RUN_FAILED")
      BY <2>3, <1>2, LeavesAt DEF BookingFails
    <3> QED
      BY <1>1, <1>2, <3>1, <3>2
  <2> QED
    BY <2>1, <2>2, <2>3
<1>5. ASSUME NEW result \in Results(call[r]), HandlerReturns(r, result)
      PROVE  \/ /\ LeftAt(r, "trace", result, None) /\ BookedAt(r, result, None)
                /\ result # <<>> /\ Echoes(Key(call[r]), result)
             \/ LeftAt(r, "raised", <<>>, "TOOL_ERROR") /\ BookedAt(r, result, "TOOL_ERROR")
             \/ /\ LeftAt(r, "raised", <<>>, "RUN_FAILED")
                /\ BookedAt(r, result, None) \/ RowsStay(r)
  <2>1. result \in Seq(Words) /\ result # <<>> /\ Echoes(Key(call[r]), result)
    BY <1>1, ToolAnswers DEF Documents, Results, Echoes, Key
  <2> QED
    BY <1>5, <1>2, <2>1, LeavesAt, BooksAt DEF HandlerReturns, BookingFails
<1>6. ASSUME NEW result \in Results(call[r]) PROVE result \in Seq(Words)
  BY <1>1, ToolAnswers DEF Documents
<1>7. CASE \E result \in Results(call[r]) : HandlerReturns(r, result)
  BY <1>1, <1>2, <1>5, <1>6, <1>7
<1> QED
  BY <1>3, <1>4, <1>7 DEF ToolWorks, Handler

LEMMA ToolEndsAt ==
  ASSUME Types, NEW r \in Runs, Busy(r), ToolEnds(r)
  PROVE  /\ call[r].at # "none" /\ AtTool(r) /\ ~run[r].mock /\ ToolLeaves(r)
         /\ Key(call[r]) = <<Tool(r), Arguments(r)>>
         /\ \/ /\ call[r].at = "trace"
               /\ \/ /\ Joins(r, TracedStep(r))
                     /\ \/ call[r].code = None /\ Returned(r, Key(call[r]), call[r].result)
                        \/ call[r].code # None /\ Errored(r, call[r].code)
                  \/ MayJoin(r, TracedStep(r)) /\ Errored(r, "RUN_FAILED")
            \/ /\ call[r].at = "raised" /\ Errored(r, call[r].code)
               /\ TraceStays(r) /\ HurtStays(r)
<1> USE DEF Types
<1>1. /\ call[r].at # "none" /\ AtTool(r) /\ ~run[r].mock /\ ToolLeaves(r)
      /\ Key(call[r]) = <<Tool(r), Arguments(r)>>
  BY DEF ToolEnds, Busy, ToolLeaves, FrozenStays, ModelStays, RowsStay, providerVars
<1>2. /\ Key(call[r]) \in ToolKeys /\ call[r].result \in Seq(Words)
      /\ call[r].code \in Codes \cup {None} /\ "RUN_FAILED" \in Codes
  BY <1>1, KeyTyped DEF ToolTypes, ToolCalls, Codes
<1>3. CASE call[r].at = "trace"
  <2>1. TracedStep(r) \in Steps
    BY <1>2, OutcomeTyped DEF TracedStep
  <2>2. \/ /\ Joins(r, TracedStep(r))
           /\ IF call[r].code = None THEN Returns(r, Key(call[r]), call[r].result)
              ELSE Errs(r, call[r].code)
        \/ MayJoin(r, TracedStep(r)) /\ Errs(r, "RUN_FAILED")
    BY <1>3, <2>1, RecordAt DEF ToolEnds
  <2> QED
    BY <1>1, <1>2, <1>3, <2>2, ReturnsAt, ErrsAt
<1>4. CASE call[r].at = "raised"
  <2>1. Errs(r, call[r].code) /\ UNCHANGED traceVars /\ call[r].code \in Codes
    BY <1>2, <1>4 DEF ToolEnds, Busy
  <2> QED
    BY <1>1, <1>4, <2>1, ErrsAt DEF TraceStays, HurtStays, traceVars
<1> QED
  BY <1>3, <1>4 DEF ToolEnds

\* What approval leaves, and what is asked of a model.
LEMMA ApprovalAt ==
  ASSUME Types, NEW r \in Runs
  PROVE  /\ Asks(r) \/ GraphGoesOn(r) \/ ExecutorStops(r) \/ Rejected(r) =>
              /\ SameAsked(r) /\ PcStays(r) /\ content'[r] = content[r] /\ FrozenStays(r)
              /\ ModelStays(r) /\ CallStays(r) /\ HeardStays(r) /\ RowsStay(r)
              /\ TraceStays(r) /\ HurtStays(r)
         /\ Asks(r) =>
              /\ Gated(r) /\ Idle(r) /\ args'[r] = args[r] /\ Becomes(r, "suspended", run[r].code)
         /\ GraphGoesOn(r) =>
              /\ run[r].status = "suspended" /\ Graph(run[r].agent)
              /\ run'[r].status = "running" /\ run'[r].code = run[r].code /\ run'[r].granted
              /\ run'[r].changed <=> args'[r] # args[r]
         /\ ExecutorStops(r) =>
              /\ run[r].status = "suspended" /\ Streams(run[r].agent) /\ args'[r] = args[r]
              /\ run'[r].status = "completed" /\ run'[r].code = run[r].code
              /\ run'[r].changed = run[r].changed /\ run'[r].granted
         /\ Rejected(r) =>
              /\ run[r].status = "suspended" /\ args'[r] = args[r]
              /\ FailsWith(r, "TOOL_PERMISSION_DENIED")
<1> USE DEF Types
<1>0. run[r] \in RunRecords
  BY DEF RunTypes
<1>1. ASSUME Asks(r) \/ GraphGoesOn(r) \/ ExecutorStops(r) \/ Rejected(r)
      PROVE  /\ PcStays(r) /\ content'[r] = content[r] /\ FrozenStays(r)
             /\ ModelStays(r) /\ CallStays(r) /\ HeardStays(r) /\ RowsStay(r)
             /\ TraceStays(r) /\ HurtStays(r)
  BY <1>1 DEF Asks, GraphGoesOn, ExecutorStops, Rejected, PcStays, FrozenStays, ModelStays,
              CallStays, HeardStays, RowsStay, TraceStays, HurtStays, traceVars, providerVars, toolVars
<1>2. ASSUME Asks(r)
      PROVE  Gated(r) /\ Idle(r) /\ args'[r] = args[r] /\ Becomes(r, "suspended", run[r].code)
  <2>1. run' = [run EXCEPT ![r].status = "suspended"]
    BY <1>2 DEF Asks
  <2> QED
    BY <1>2, <1>0, <2>1 DEF Asks, RunTypes, RunRecords, Becomes, SameAsked
<1>3. ASSUME GraphGoesOn(r)
      PROVE  /\ run[r].status = "suspended" /\ Graph(run[r].agent) /\ SameAsked(r)
             /\ run'[r].status = "running" /\ run'[r].code = run[r].code /\ run'[r].granted
             /\ run'[r].changed <=> args'[r] # args[r]
  <2>1. PICK path \in Paths :
          /\ run' = [run EXCEPT ![r].status = "running", ![r].granted = TRUE,
                                ![r].changed = path # args[r]]
          /\ args' = [args EXCEPT ![r] = path]
    BY <1>3 DEF GraphGoesOn
  <2> DEFINE changed == path # args[r]
             new == [run[r] EXCEPT !.status = "running", !.granted = TRUE, !.changed = changed]
  <2>2. run' = [run EXCEPT ![r] = new]
    BY <2>1, Zenon
  <2>3. args'[r] = path
    BY <2>1 DEF RunTypes
  <2>4. changed <=> args'[r] # args[r]
    BY <2>3
  <2> HIDE DEF new, changed
  <2>5. run'[r] = new
    BY <2>2 DEF RunTypes
  <2>6. /\ new.agent = run[r].agent /\ new.kind = run[r].kind /\ new.input = run[r].input
        /\ new.model = run[r].model
        /\ new.shared = run[r].shared /\ new.source = run[r].source /\ new.mock = run[r].mock
        /\ new.status = "running" /\ new.code = run[r].code /\ new.changed = changed
        /\ new.granted = TRUE
    BY <1>0 DEF new, RunRecords
  <2>7. SameAsked(r) /\ run'[r].status = "running" /\ run'[r].code = run[r].code
    BY <2>5, <2>6 DEF SameAsked
  <2>8. (run'[r].changed <=> changed) /\ run'[r].granted
    BY ONLY <2>5, <2>6
  <2> QED
    BY <1>3, <2>4, <2>7, <2>8 DEF GraphGoesOn
<1>4. ASSUME ExecutorStops(r)
      PROVE  /\ run[r].status = "suspended" /\ Streams(run[r].agent) /\ args'[r] = args[r]
             /\ SameAsked(r) /\ run'[r].status = "completed" /\ run'[r].code = run[r].code
             /\ run'[r].changed = run[r].changed /\ run'[r].granted
  <2>1. run' = [run EXCEPT ![r].status = "completed", ![r].granted = TRUE]
    BY <1>4 DEF ExecutorStops
  <2> QED
    BY <1>4, <1>0, <2>1 DEF ExecutorStops, RunTypes, RunRecords, SameAsked
<1>5. ASSUME Rejected(r)
      PROVE  /\ run[r].status = "suspended" /\ args'[r] = args[r]
             /\ FailsWith(r, "TOOL_PERMISSION_DENIED")
  BY <1>5, FailAt DEF Rejected, Codes, TracedCodes
<1> QED
  BY <1>1, <1>2, <1>3, <1>4, <1>5 DEF Becomes, FailsWith

\* What a call of the model leaves.
ModelLeaves(r) ==
  /\ WorkStays(r) /\ FrozenStays(r) /\ CallStays(r) /\ HeardStays(r) /\ RowsStay(r)
  /\ TraceStays(r) /\ HurtStays(r)

LEMMA CallModelAt ==
  ASSUME Types, NEW r \in Runs, CallModel(r)
  PROVE  /\ At(r, "model") /\ Idle(r) /\ metered[r] = None /\ ~Replays(r)
         /\ RunStays(r) /\ PcStays(r) /\ ModelLeaves(r)
         /\ text'[r] = text[r] /\ metered'[r] = metered[r]
         /\ llm'[r].on /\ llm'[r].kind = run[r].kind /\ llm'[r].said = <<>> /\ llm'[r].got = 0
         /\ ~llm'[r].retried /\ (llm'[r].streams <=> Streams(run[r].agent))
<1> USE DEF Types
<1> DEFINE streams == Streams(run[r].agent)
           source == IF run[r].kind = "mock" THEN "mock" ELSE "primary"
           made == [NoCall EXCEPT !.on = TRUE, !.kind = run[r].kind, !.streams = streams, !.source = source]
<1>1. llm' = [llm EXCEPT ![r] = made]
  BY DEF CallModel, Call
<1> HIDE DEF streams, source
<1>2. /\ made.on = TRUE /\ made.kind = run[r].kind /\ made.said = <<>> /\ made.got = 0
      /\ made.retried = FALSE /\ made.streams = streams
  BY DEF NoCall
<1> HIDE DEF made
<1>3. llm'[r] = made
  BY <1>1 DEF ModelTypes
<1>4. llm'[r].streams <=> streams
  BY ONLY <1>2, <1>3
<1>5. llm'[r].on /\ ~llm'[r].retried /\ llm'[r].kind = run[r].kind /\ llm'[r].said = <<>>
      /\ llm'[r].got = 0
  BY ONLY <1>2, <1>3
<1> QED
  BY <1>4, <1>5 DEF streams, CallModel, Call, RunStays, PcStays, ModelLeaves, WorkStays, FrozenStays,
     CallStays, HeardStays, RowsStay, TraceStays, HurtStays, agentVars, toolVars, traceVars

LEMMA SpeaksAt ==
  ASSUME Types, NEW r \in Runs, ModelSpeaks(r)
  PROVE  /\ llm[r].on /\ llm'[r].on /\ RunStays(r) /\ PcStays(r) /\ ModelLeaves(r)
         /\ metered'[r] = metered[r] /\ llm'[r].kind = llm[r].kind
         /\ llm'[r].streams = llm[r].streams
         /\ \/ /\ llm'[r].got = llm[r].got + 1 /\ llm'[r].said = Append(llm[r].said, llm[r].source)
               /\ llm'[r].source = llm[r].source /\ (llm'[r].retried <=> llm[r].retried)
               /\ \/ llm[r].streams /\ text'[r] = Append(text[r], llm[r].source)
                  \/ ~llm[r].streams /\ text'[r] = text[r]
            \/ /\ text'[r] = text[r] /\ llm'[r].got = 0
               /\ llm'[r].said = IF llm[r].streams THEN llm[r].said ELSE <<>>
               /\ \/ /\ llm'[r].source = "primary" /\ llm'[r].retried /\ llm[r].kind = "gemini"
                  \/ /\ llm'[r].source = "mock" /\ (llm'[r].retried <=> llm[r].retried)
<1> USE DEF Types
<1>1. /\ llm[r].on /\ RunStays(r) /\ PcStays(r) /\ ModelLeaves(r) /\ metered'[r] = metered[r]
  BY DEF ModelSpeaks, Piece, GeminiRetries, RouterFailsOver, Breaks, RunStays, PcStays, ModelLeaves,
     WorkStays, FrozenStays, CallStays, HeardStays, RowsStay, TraceStays, HurtStays,
     agentVars, toolVars, traceVars
<1>2. llm[r] \in ModelCalls
  BY DEF ModelTypes
<1>3. CASE Piece(r)
  <2> DEFINE made == [llm[r] EXCEPT !.got = llm[r].got + 1,
                                    !.said = Append(llm[r].said, llm[r].source)]
  <2>1. llm' = [llm EXCEPT ![r] = made]
    BY <1>3, Zenon DEF Piece
  <2>2. /\ made.got = llm[r].got + 1 /\ made.said = Append(llm[r].said, llm[r].source)
        /\ made.source = llm[r].source /\ made.retried = llm[r].retried /\ made.on = llm[r].on
        /\ made.kind = llm[r].kind /\ made.streams = llm[r].streams
    BY <1>2 DEF ModelCalls
  <2> HIDE DEF made
  <2>3. llm'[r] = made
    BY <2>1 DEF ModelTypes
  <2>4. \/ llm[r].streams /\ text'[r] = Append(text[r], llm[r].source)
        \/ ~llm[r].streams /\ text'[r] = text[r]
    BY <1>3 DEF Piece, ModelTypes
  <2>5. (llm'[r].retried <=> llm[r].retried) /\ llm'[r].on
    BY ONLY <1>1, <2>2, <2>3
  <2> QED
    BY ONLY <1>1, <2>2, <2>3, <2>4, <2>5
<1>4. ASSUME NEW source \in Sources, NEW attempt,
             llm' = [llm EXCEPT ![r] = Again(r, source, attempt)]
      PROVE  /\ llm'[r].got = 0 /\ llm'[r].source = source /\ llm'[r].on /\ llm'[r].kind = llm[r].kind
             /\ llm'[r].streams = llm[r].streams
             /\ llm'[r].said = IF llm[r].streams THEN llm[r].said ELSE <<>>
             /\ llm'[r].retried <=> llm[r].retried \/ source = "primary"
  <2> DEFINE retried == llm[r].retried \/ source = "primary"
             said == IF llm[r].streams THEN llm[r].said ELSE <<>>
             made == [llm[r] EXCEPT !.source = source, !.attempt = attempt, !.got = 0,
                                    !.retried = retried, !.said = said]
  <2>1. llm' = [llm EXCEPT ![r] = made]
    BY <1>4 DEF Again
  <2> HIDE DEF retried, said
  <2>2. /\ made.got = 0 /\ made.said = said /\ made.on = llm[r].on /\ made.kind = llm[r].kind
        /\ made.source = source /\ made.retried = retried /\ made.streams = llm[r].streams
    BY <1>2 DEF ModelCalls
  <2> HIDE DEF made
  <2>3. llm'[r] = made
    BY <2>1 DEF ModelTypes
  <2>4. (llm'[r].retried <=> retried) /\ llm'[r].on
    BY ONLY <1>1, <2>2, <2>3
  <2>5. retried <=> llm[r].retried \/ source = "primary"
    BY DEF retried
  <2>6. said = IF llm[r].streams THEN llm[r].said ELSE <<>>
    BY DEF said
  <2> QED
    BY ONLY <1>1, <2>2, <2>3, <2>4, <2>5, <2>6
<1>5. CASE GeminiRetries(r)
  BY <1>1, <1>4, <1>5 DEF GeminiRetries, Breaks, Sources
<1>6. CASE RouterFailsOver(r)
  BY <1>1, <1>4, <1>6 DEF RouterFailsOver, Breaks, Sources
<1> QED
  BY <1>3, <1>5, <1>6 DEF ModelSpeaks

LEMMA EndsAt ==
  ASSUME Types, NEW r \in Runs, ModelEnds(r) \/ ModelFails(r)
  PROVE  /\ llm[r].on /\ ~llm'[r].on /\ ModelLeaves(r) /\ text'[r] = text[r]
         /\ llm'[r].said = llm[r].said /\ llm'[r].got = llm[r].got
         /\ llm'[r].source = llm[r].source /\ (llm'[r].retried <=> llm[r].retried)
         /\ llm'[r].kind = llm[r].kind /\ (llm'[r].streams <=> llm[r].streams)
         /\ CollectUsage(r)' = CollectUsage(r)
         /\ ModelEnds(r) => /\ RunStays(r) /\ PcGoesOn(r) /\ metered'[r] = CollectUsage(r)
                            /\ llm[r].source = "mock" => llm[r].got > 0
         /\ ModelFails(r) => FailsWith(r, "RUN_FAILED") /\ PcStays(r) /\ metered'[r] = metered[r]
<1> USE DEF Types
<1>1. llm[r].on /\ ModelLeaves(r) /\ text'[r] = text[r]
  BY DEF ModelEnds, ModelFails, Answered, ProviderRaises, Breaks, ModelLeaves,
     WorkStays, FrozenStays, CallStays, HeardStays, RowsStay, TraceStays, HurtStays,
     toolVars, traceVars
<1>2. llm' = [llm EXCEPT ![r].on = FALSE]
  BY DEF ModelEnds, ModelFails, Answered, ProviderRaises
<1>3. llm[r] \in ModelCalls
  BY DEF ModelTypes
<1>4. llm'[r] = [llm[r] EXCEPT !.on = FALSE]
  BY <1>2 DEF ModelTypes
<1>5. /\ llm'[r].on = FALSE /\ llm'[r].said = llm[r].said /\ llm'[r].got = llm[r].got
      /\ llm'[r].source = llm[r].source /\ llm'[r].retried = llm[r].retried
      /\ llm'[r].kind = llm[r].kind /\ llm'[r].streams = llm[r].streams
  BY <1>3, <1>4 DEF ModelCalls
<1>6. (llm'[r].retried <=> llm[r].retried) /\ (llm'[r].streams <=> llm[r].streams) /\ ~llm'[r].on
  BY ONLY <1>5
<1>7. CollectUsage(r)' = CollectUsage(r)
  BY <1>5, <1>6 DEF CollectUsage, EstimatedUsage, OpenAIUsage, AnthropicUsage, GeminiUsage
<1>8. ASSUME ModelEnds(r)
      PROVE  /\ RunStays(r) /\ PcGoesOn(r) /\ metered'[r] = CollectUsage(r)
             /\ llm[r].source = "mock" => llm[r].got > 0
  BY <1>8 DEF ModelEnds, Answered, RunStays, PcGoesOn, Advance, RunTypes, ModelTypes
<1>9. ASSUME ModelFails(r)
      PROVE  FailsWith(r, "RUN_FAILED") /\ PcStays(r) /\ metered'[r] = metered[r]
  BY <1>9, FailAt DEF ModelFails, ProviderRaises, Breaks, PcStays, Codes
<1> QED
  BY <1>1, <1>5, <1>6, <1>7, <1>8, <1>9

LEMMA ReplayModelAt ==
  ASSUME Types, NEW r \in Runs, ReplayModel(r)
  PROVE  /\ At(r, "model") /\ Idle(r) /\ Replays(r) /\ Recorded(r) # None
         /\ RunStays(r) /\ PcGoesOn(r) /\ ModelLeaves(r)
         /\ ~llm'[r].on /\ llm'[r].said = Recorded(r).out /\ metered'[r] = Recorded(r).usage
         /\ (llm'[r].streams <=> Streams(run[r].agent))
         /\ text'[r] = IF Streams(run[r].agent) THEN Recorded(r).out ELSE text[r]
<1> USE DEF Types
<1> DEFINE streams == Streams(run[r].agent)
           step == Recorded(r)
           made == [NoCall EXCEPT !.streams = streams, !.said = step.out]
<1>1. llm' = [llm EXCEPT ![r] = made]
  BY DEF ReplayModel
<1>2. /\ metered'[r] = step.usage
      /\ text'[r] = IF streams THEN step.out ELSE text[r]
  BY DEF ReplayModel, ModelTypes
<1> HIDE DEF streams, step
<1>3. made.on = FALSE /\ made.said = step.out /\ made.streams = streams
  BY DEF NoCall
<1> HIDE DEF made
<1>4. llm'[r] = made
  BY <1>1 DEF ModelTypes
<1>5. ~llm'[r].on /\ llm'[r].said = step.out /\ (llm'[r].streams <=> streams)
  BY ONLY <1>3, <1>4
<1>6. /\ At(r, "model") /\ Idle(r) /\ Replays(r) /\ Recorded(r) # None
      /\ RunStays(r) /\ PcGoesOn(r) /\ ModelLeaves(r)
  BY DEF ReplayModel, Advance, RunTypes, RunStays, PcGoesOn, ModelLeaves,
     WorkStays, FrozenStays, CallStays, HeardStays, RowsStay, TraceStays, HurtStays,
     toolVars, traceVars
<1> QED
  BY <1>2, <1>5, <1>6 DEF streams, step

LEMMA MissesAt ==
  ASSUME Types, NEW r \in Runs, ReplayMisses(r)
  PROVE  /\ At(r, "model") /\ Idle(r) /\ Replays(r) /\ Recorded(r) = None
         /\ FailsWith(r, "REPLAY_MISMATCH") /\ PcStays(r) /\ ModelStays(r) /\ ModelLeaves(r)
<1>1. FailsWith(r, "REPLAY_MISMATCH")
  BY FailAt DEF ReplayMisses, Codes
<1> QED
  BY <1>1 DEF ReplayMisses, PcStays, ModelStays, ModelLeaves,
     WorkStays, FrozenStays, CallStays, HeardStays, RowsStay, TraceStays, HurtStays,
     toolVars, traceVars, providerVars

LEMMA LimitAt ==
  ASSUME Types, NEW r \in Runs, StepLimit(r)
  PROVE  /\ At(r, "search") \/ At(r, "read") \/ At(r, "model")
         /\ Idle(r) /\ Running(r)
         /\ FailsWith(r, "GRAPH_STEP_LIMIT") /\ PcStays(r) /\ ModelStays(r) /\ ModelLeaves(r)
<1>1. FailsWith(r, "GRAPH_STEP_LIMIT")
  BY FailAt DEF StepLimit, Codes
<1> QED
  BY <1>1 DEF StepLimit, At, PcStays, ModelStays, ModelLeaves,
     WorkStays, FrozenStays, CallStays, HeardStays, RowsStay, TraceStays, HurtStays,
     toolVars, traceVars, providerVars

LEMMA LastStepAt ==
  ASSUME Types, NEW r \in Runs, RecordModel(r) \/ Complete(r)
  PROVE  /\ PcStays(r) /\ WorkStays(r) /\ FrozenStays(r) /\ CallStays(r) /\ HeardStays(r)
         /\ RowsStay(r) /\ llm'[r] = llm[r] /\ metered'[r] = metered[r] /\ config' = config
         /\ \/ At(r, "record") /\ text'[r] = text[r]
            \/ /\ At(r, "complete")
               /\ text'[r] = Reply(r)
         /\ \/ Becomes(r, "completed", run[r].code) /\ Joins(r, ModelStep(r))
               /\ (At(r, "complete") => ~SaidNothing(r))
            \/ FailsWith(r, "RUN_FAILED") /\ MayJoin(r, ModelStep(r))
               /\ (At(r, "complete") => ~SaidNothing(r))
            \/ /\ Becomes(r, "completed", run[r].code) /\ TraceStays(r) /\ HurtStays(r)
               /\ At(r, "complete") /\ SaidNothing(r)
<1> USE DEF Types
<1>1. /\ PcStays(r) /\ WorkStays(r) /\ FrozenStays(r) /\ CallStays(r) /\ HeardStays(r)
      /\ RowsStay(r) /\ llm'[r] = llm[r] /\ metered'[r] = metered[r] /\ config' = config
  BY DEF RecordModel, Complete, PcStays, WorkStays, FrozenStays, CallStays, HeardStays, RowsStay,
     toolVars
<1>2. \/ At(r, "record") /\ text'[r] = text[r]
      \/ /\ At(r, "complete")
         /\ text'[r] = Reply(r)
  <2>1. CASE RecordModel(r)
    BY <2>1 DEF RecordModel
  <2>2. CASE Complete(r)
    BY <2>2 DEF Complete, ModelTypes
  <2> QED
    BY <2>1, <2>2
<1>3. ASSUME Finishes(r) PROVE Becomes(r, "completed", run[r].code)
  <2>1. run' = [run EXCEPT ![r].status = "completed"] /\ run[r] \in RunRecords
    BY <1>3 DEF Finishes, RunTypes
  <2> QED
    BY <2>1 DEF RunTypes, RunRecords, Becomes, SameAsked
<1>4. ASSUME BreaksOff(r) PROVE FailsWith(r, "RUN_FAILED")
  BY <1>4, FailAt DEF BreaksOff, Codes
<1>5. CASE /\ Record(r, ModelStep(r), Finishes(r), BreaksOff(r))
           /\ At(r, "complete") => ~SaidNothing(r)
  <2>1. \/ Finishes(r) /\ Joins(r, ModelStep(r))
        \/ BreaksOff(r) /\ MayJoin(r, ModelStep(r))
    BY <1>5, ModelStepTyped, RecordAt
  <2> QED
    BY <1>1, <1>2, <1>3, <1>4, <1>5, <2>1
<1>6. CASE Finishes(r) /\ UNCHANGED traceVars /\ At(r, "complete") /\ SaidNothing(r)
  BY <1>1, <1>2, <1>3, <1>6 DEF TraceStays, HurtStays, traceVars
<1>7. RecordModel(r) => ~At(r, "complete")
  BY AtOne DEF RecordModel
<1> QED
  BY <1>5, <1>6, <1>7 DEF RecordModel, Complete

\* A step of a run is nothing to the others.
LEMMA OthersStay ==
  ASSUME Types, NEW r \in Runs, AgentStepOf(r), NEW q \in Runs, q # r
  PROVE  Stays(q) /\ config' = config
<1> USE DEF Types
<1> USE DEF Stays, RunStays, PcStays, WorkStays, FrozenStays, ModelStays, CallStays, HeardStays,
        RowsStay, TraceStays, HurtStays, traceVars, providerVars, toolVars, agentVars
<1>0. /\ DOMAIN run = Runs /\ DOMAIN pc = Runs /\ DOMAIN args = Runs /\ DOMAIN content = Runs
      /\ DOMAIN llm = Runs /\ DOMAIN text = Runs /\ DOMAIN metered = Runs
      /\ DOMAIN call = Runs /\ DOMAIN heard = Runs /\ DOMAIN trace = Runs
      /\ DOMAIN rows = Runs /\ DOMAIN frozen = Runs
  BY DEF RunTypes, ModelTypes, ToolTypes, TraceTypes, SharedTypes
<1> HIDE DEF Types
<1>1. ASSUME NEW code, Fail(r, code) PROVE RunStays(q)
  BY <1>0, <1>1 DEF Fail
<1>2. ASSUME Advance(r) PROVE PcStays(q)
  BY <1>0, <1>2 DEF Advance
<1>3. ASSUME NEW code, Errs(r, code)
      PROVE  RunStays(q) /\ PcStays(q) /\ WorkStays(q) /\ CallStays(q) /\ HeardStays(q)
  <2>1. CASE At(r, "search")
    BY <1>0, <1>2, <1>3, <2>1 DEF Errs
  <2>2. CASE ~At(r, "search")
    BY <1>0, <1>1, <1>3, <2>2 DEF Errs
  <2> QED
    BY <2>1, <2>2
<1>4. ASSUME NEW key, NEW result, Returns(r, key, result)
      PROVE  RunStays(q) /\ PcStays(q) /\ WorkStays(q) /\ CallStays(q) /\ HeardStays(q)
  <2>1. CASE At(r, "search")
    BY <1>0, <1>2, <1>4, <2>1 DEF Returns
  <2>2. CASE ~At(r, "search")
    BY <1>0, <1>2, <1>4, <2>2 DEF Returns
  <2> QED
    BY <2>1, <2>2
<1>5. ASSUME NEW step, NEW ACTION Then, NEW ACTION Else, Record(r, step, Then, Else)
      PROVE  TraceStays(q) /\ HurtStays(q) /\ (Then \/ Else)
  BY <1>0, <1>5 DEF Record
<1>6. CASE Build(r)
  BY <1>0, <1>2, <1>6 DEF Build
<1>7. CASE Note(r)
  <2>0. Record(r, AgentStep(run[r].agent), Advance(r) /\ UNCHANGED run,
               Fail(r, "RUN_FAILED") /\ UNCHANGED pc)
    BY <1>7 DEF Note
  <2>1. /\ TraceStays(q) /\ HurtStays(q)
        /\ \/ Advance(r) /\ UNCHANGED run
           \/ Fail(r, "RUN_FAILED") /\ UNCHANGED pc
    BY <2>0, <1>5
  <2>2. RunStays(q) /\ PcStays(q)
    BY <2>1, <1>1, <1>2
  <2> QED
    BY <1>7, <2>1, <2>2 DEF Note
<1>8. CASE CallTool(r)
  BY <1>0, <1>8 DEF CallTool, Invoke
<1>9. CASE ChaosFails(r)
  BY <1>3, <1>9 DEF ChaosFails
<1>10. CASE RecallTool(r)
  <2> DEFINE key == <<Tool(r), Arguments(r)>>
             step == Recalled(frozen[r].tools, key)
  <2>1. RunStays(q) /\ PcStays(q) /\ WorkStays(q) /\ CallStays(q) /\ HeardStays(q)
        /\ TraceStays(q) /\ HurtStays(q)
    <3>1. CASE step = None
      BY <1>3, <1>10, <3>1 DEF RecallTool
    <3>2. CASE step # None
      <4>1. Record(r, ToolStep(key, step.out, None),
                   Returns(r, key, step.out), Errs(r, "RUN_FAILED"))
        BY <1>10, <3>2 DEF RecallTool
      <4>2. TraceStays(q) /\ HurtStays(q) /\ (Returns(r, key, step.out) \/ Errs(r, "RUN_FAILED"))
        BY <4>1, <1>5
      <4> QED
        BY <4>2, <1>3, <1>4
    <3> QED
      BY <3>1, <3>2
  <2> QED
    BY <1>10, <2>1 DEF RecallTool
<1>11. CASE ToolWorks(r)
  <2>1. CallStays(q) /\ RowsStay(q)
    BY <1>0, <1>11 DEF ToolWorks, Handler, HandlerRetried, HandlerFails, HandlerReturns, Fails,
                       BookingFails, Booked, Left
  <2>2. UNCHANGED <<trace, hurt, heard>>
    BY <1>11 DEF ToolWorks, Handler, Handling, HandlerRetried, HandlerFails, HandlerReturns
  <2> QED
    BY <1>11, <2>1, <2>2 DEF ToolWorks
<1>12. CASE ToolEnds(r)
  <2>1. RunStays(q) /\ PcStays(q) /\ WorkStays(q) /\ CallStays(q) /\ HeardStays(q)
        /\ TraceStays(q) /\ HurtStays(q)
    <3>1. CASE call[r].at = "raised" /\ Errs(r, call[r].code) /\ UNCHANGED traceVars
      BY <1>3, <3>1
    <3>2. CASE Record(r, TracedStep(r),
                  IF call[r].code = None THEN Returns(r, Key(call[r]), call[r].result)
                  ELSE Errs(r, call[r].code),
                  Errs(r, "RUN_FAILED"))
      <4>1. /\ TraceStays(q) /\ HurtStays(q)
            /\ \/ IF call[r].code = None THEN Returns(r, Key(call[r]), call[r].result)
                  ELSE Errs(r, call[r].code)
               \/ Errs(r, "RUN_FAILED")
        BY <3>2, <1>5
      <4> QED
        BY <4>1, <1>3, <1>4
    <3> QED
      BY <1>12, <3>1, <3>2 DEF ToolEnds
  <2> QED
    BY <1>12, <2>1 DEF ToolEnds
<1>13. CASE Asks(r) \/ GraphGoesOn(r) \/ ExecutorStops(r) \/ Rejected(r)
  BY <1>0, <1>1, <1>13 DEF Asks, GraphGoesOn, ExecutorStops, Rejected
<1>14. CASE CallModel(r)
  BY <1>0, <1>14 DEF CallModel, Call
<1>15. CASE ModelSpeaks(r)
  BY <1>0, <1>15 DEF ModelSpeaks, Piece, GeminiRetries, RouterFailsOver, Breaks
<1>16. CASE ModelEnds(r)
  BY <1>0, <1>2, <1>16 DEF ModelEnds, Answered
<1>17. CASE ModelFails(r)
  BY <1>0, <1>1, <1>17 DEF ModelFails, ProviderRaises, Breaks
<1>18. CASE ReplayModel(r)
  BY <1>0, <1>2, <1>18 DEF ReplayModel
<1>19. CASE ReplayMisses(r) \/ StepLimit(r)
  BY <1>0, <1>1, <1>19 DEF ReplayMisses, StepLimit
<1>20. CASE RecordModel(r) \/ Complete(r)
  <2>1. TraceStays(q) /\ HurtStays(q) /\ (Finishes(r) \/ BreaksOff(r))
    BY <1>5, <1>20 DEF RecordModel, Complete
  <2>2. RunStays(q)
    BY <1>0, <1>1, <2>1 DEF Finishes, BreaksOff
  <2>3. text'[q] = text[q]
    BY <1>0, <1>20 DEF RecordModel, Complete
  <2> QED
    BY <1>20, <2>1, <2>2, <2>3 DEF RecordModel, Complete
<1> QED
  BY <1>6, <1>7, <1>8, <1>9, <1>10, <1>11, <1>12, <1>13, <1>14, <1>15, <1>16, <1>17, <1>18, <1>19, <1>20
     DEF AgentStepOf

-----------------------------------------------------------------------------
(* Where a run is.                                                          *)

LEMMA ItsProgram ==
  ASSUME Types, NEW r \in Runs
  PROVE  /\ Orderly(Program(r)) /\ Suits(Program(r), run[r].agent)
         /\ run[r].agent # "hitl-demo" =>
              \E i \in 1 .. Len(Program(r)) - 1 : Program(r)[i] = "model"
         /\ Len(Program(r)) \in 3 .. 7
BY Programs DEF Types, RunTypes, RunRecords, Orderly

LEMMA AtHere ==
  ASSUME NEW r, NEW label
  PROVE  At(r, label) <=> Running(r) /\ Here(Program(r), pc[r], label)
BY DEF At, Here

\* A program is of the agent and the input, which never change.
LEMMA ProgramStays == ASSUME NEW r, SameAsked(r) PROVE Program(r)' = Program(r)
BY DEF SameAsked, ProgramOf

LEMMA Unmoved ==
  ASSUME NEW r, RunStays(r), PcStays(r)
  PROVE  /\ \A label : At(r, label)' <=> At(r, label)
         /\ Program(r)' = Program(r) /\ (AtTool(r)' <=> AtTool(r))
         /\ Tool(r)' = Tool(r)
         /\ args'[r] = args[r] => Arguments(r)' = Arguments(r)
<1>1. \A label : At(r, label)' <=> At(r, label)
  BY DEF RunStays, PcStays, At
<1>2. Program(r)' = Program(r)
  BY DEF RunStays
<1>3. AtTool(r)' <=> AtTool(r)
  BY <1>1 DEF AtTool
<1>4. Tool(r)' = Tool(r)
  BY <1>1 DEF Tool, RunStays
<1>5. args'[r] = args[r] => Arguments(r)' = Arguments(r)
  BY <1>1 DEF Arguments, RunStays
<1> QED
  BY <1>1, <1>2, <1>3, <1>4, <1>5

\* A run that may go on has not got to its end.
LEMMA NotAtEnd ==
  ASSUME Types, NEW r \in Runs, Busy(r),
         pc[r] = 0 \/ \E label \in Labels \ {"record", "complete"} : At(r, label)
  PROVE  pc[r] + 1 \in 1 .. Len(Program(r)) /\ pc[r] + 1 \in 0 .. Len(Program(r))
<1>1. CASE pc[r] = 0
  <2> DEFINE n == Len(Program(r))
  <2>1. n \in 3 .. 7
    BY ItsProgram
  <2> HIDE DEF n
  <2>2. pc[r] + 1 \in 1 .. n /\ pc[r] + 1 \in 0 .. n
    BY <1>1, <2>1
  <2> QED
    BY <2>2 DEF n
<1>2. CASE \E label \in Labels \ {"record", "complete"} : At(r, label)
  BY <1>2, AtHere, GoesOn, ItsProgram DEF Orderly
<1> QED
  BY <1>1, <1>2

\* A run that is idle and stays so is at any place of its program.
LEMMA IdleBusy ==
  ASSUME Types, NEW r \in Runs, Busy(r), SameAsked(r),
         pc'[r] \in 0 .. Len(Program(r)),
         run'[r].status = "failed" <=> run'[r].code # None,
         run'[r].status # "suspended",
         ~llm'[r].on, call'[r].at = "none"
  PROVE  Busy(r)'
<1>1. Program(r)' = Program(r)
  BY ProgramStays
<1>2. (pc[r] \in 0 .. Len(Program(r)))'
  BY <1>1
<1>3. (run[r].mock => Replays(r))'
  BY DEF Busy, SameAsked
<1> QED
  BY <1>2, <1>3 DEF Busy

LEMMA ToolSteps1 ==
  ASSUME Types, NEW r \in Runs, Busy(r), AtTool(r), Idle(r) \/ call[r].at # "none", ToolLeaves(r),
         NEW code \in Codes, NEW key, NEW result, Errored(r, code) \/ Returned(r, key, result)
  PROVE  Busy(r)'
<1>1. NoTool.at = "none"
  BY DEF NoTool
<1>2. ~llm'[r].on
  BY DEF Busy, Idle, ToolLeaves, ModelStays
<1>3. Running(r) /\ run[r].code = None /\ pc[r] \in 0 .. Len(Program(r))
  BY DEF AtTool, At, Busy
<1>4. pc[r] + 1 \in 0 .. Len(Program(r))
  BY NotAtEnd DEF AtTool, Labels
<1>5. CASE RunStays(r) /\ PcGoesOn(r) /\ call'[r] = NoTool
  BY <1>1, <1>2, <1>3, <1>4, <1>5, IdleBusy DEF RunStays, SameAsked, PcGoesOn
<1>6. CASE FailsWith(r, code) /\ PcStays(r) /\ call'[r] = NoTool
  BY <1>1, <1>2, <1>3, <1>6, IdleBusy, CodesAssumption DEF FailsWith, Becomes, PcStays
<1> QED
  BY <1>5, <1>6 DEF Errored, Returned

LEMMA BusyKept == ASSUME Types, NEW r \in Runs, Busy(r), AgentStepOf(r) PROVE Busy(r)'
<1>0. NoTool.at = "none" /\ run[r].status = "failed" <=> run[r].code # None
  BY DEF NoTool, Busy
<1>1. CASE Build(r)
  <2>1. /\ Running(r) /\ pc[r] = 0 /\ PcGoesOn(r) /\ RunStays(r) /\ ModelStays(r) /\ CallStays(r)
    BY <1>1, BuildAt
  <2>2. ~llm[r].on /\ call[r].at = "none"
    BY <2>1 DEF Busy, At, AtTool
  <2>3. pc[r] + 1 \in 0 .. Len(Program(r))
    BY <2>1, NotAtEnd
  <2> QED
    BY <2>1, <2>2, <2>3, IdleBusy DEF RunStays, ModelStays, CallStays, PcGoesOn, SameAsked, Busy
<1>2. CASE Note(r)
  <2>1. /\ At(r, "note") /\ ModelStays(r) /\ CallStays(r)
        /\ \/ RunStays(r) /\ PcGoesOn(r)
           \/ FailsWith(r, "RUN_FAILED") /\ PcStays(r)
    BY <1>2, NoteAt
  <2>2. ~llm[r].on /\ call[r].at = "none"
    BY <2>1, AtOne DEF Busy, AtTool
  <2>3. pc[r] + 1 \in 0 .. Len(Program(r)) /\ pc[r] \in 0 .. Len(Program(r))
    BY <2>1, NotAtEnd DEF Labels, Busy
  <2>4. Running(r)
    BY <2>1 DEF At
  <2>5. CASE RunStays(r) /\ PcGoesOn(r)
    BY <2>1, <2>2, <2>3, <2>4, <2>5, IdleBusy
       DEF RunStays, ModelStays, CallStays, PcGoesOn, SameAsked, Busy
  <2>6. CASE FailsWith(r, "RUN_FAILED") /\ PcStays(r)
    BY <2>1, <2>2, <2>3, <2>6, IdleBusy, CodesAssumption
       DEF FailsWith, Becomes, ModelStays, CallStays, PcStays, Codes
  <2> QED
    BY <2>1, <2>5, <2>6
<1>3. CASE CallTool(r)
  <2>1. /\ AtTool(r) /\ Idle(r) /\ ~run[r].mock
        /\ call'[r].at = "handler" /\ Key(call'[r]) = <<Tool(r), Arguments(r)>>
        /\ RunStays(r) /\ PcStays(r) /\ WorkStays(r) /\ ModelStays(r)
    BY <1>3, CallToolAt
  <2> QED
    BY <2>1, Unmoved DEF Busy, Idle, RunStays, PcStays, ModelStays, WorkStays, AtTool, At
<1>4. CASE ChaosFails(r)
  BY <1>4, ChaosAt, ToolSteps1 DEF Codes
<1>5. CASE RecallTool(r)
  <2>1. /\ AtTool(r) /\ Idle(r) /\ ToolLeaves(r)
        /\ \/ Errored(r, "REPLAY_MISMATCH")
           \/ Errored(r, "RUN_FAILED")
           \/ Returned(r, <<Tool(r), Arguments(r)>>, Recall(r).out)
    BY <1>5, RecallAt
  <2> QED
    BY <2>1, ToolSteps1 DEF Codes
<1>6. CASE ToolWorks(r)
  <2>1. /\ call[r].at = "handler" /\ RunStays(r) /\ PcStays(r) /\ WorkStays(r) /\ ModelStays(r)
        /\ Key(call'[r]) = Key(call[r])
        /\ call'[r].at = "raised" => call'[r].code \in Codes
    BY <1>6, ToolWorksAt DEF LeftAt
  <2> QED
    BY <2>1, Unmoved, CodesAssumption DEF Busy, RunStays, PcStays, ModelStays, WorkStays
<1>7. CASE ToolEnds(r)
  <2>1. /\ call[r].at # "none" /\ AtTool(r) /\ ToolLeaves(r)
        /\ \/ Returned(r, Key(call[r]), call[r].result)
           \/ Errored(r, "RUN_FAILED")
           \/ call[r].code # None /\ Errored(r, call[r].code)
    BY <1>7, ToolEndsAt DEF Busy
  <2>2. call[r].code \in Codes \cup {None}
    BY DEF Types, ToolTypes, ToolCalls
  <2> QED
    BY <2>1, <2>2, ToolSteps1 DEF Codes
<1>8. CASE Asks(r)
  <2>1. /\ Gated(r) /\ Idle(r) /\ SameAsked(r) /\ PcStays(r) /\ ModelStays(r) /\ CallStays(r)
        /\ run'[r].status = "suspended" /\ run'[r].code = run[r].code
    BY <1>8, ApprovalAt DEF Becomes
  <2>2. ~run[r].mock /\ Running(r)
        /\ (Here(Program(r), pc[r], "read") \/ Here(Program(r), pc[r], "probe"))
    BY <2>1, AtHere DEF Gated, Busy
  <2>3. Program(r)' = Program(r)
    BY <2>1, ProgramStays
  <2> QED
    BY <1>0, <2>1, <2>2, <2>3 DEF Busy, Idle, SameAsked, PcStays, ModelStays, CallStays
<1>9. CASE GraphGoesOn(r) \/ ExecutorStops(r) \/ Rejected(r)
  <2>1. /\ run[r].status = "suspended" /\ SameAsked(r) /\ PcStays(r) /\ ModelStays(r) /\ CallStays(r)
        /\ \/ run'[r].status \in {"running", "completed"} /\ run'[r].code = run[r].code
           \/ FailsWith(r, "TOOL_PERMISSION_DENIED")
    BY <1>9, ApprovalAt
  <2>2. ~llm[r].on /\ call[r].at = "none" /\ run[r].code = None
    BY <2>1 DEF Busy, At, AtTool
  <2> QED
    BY <2>1, <2>2, IdleBusy, CodesAssumption
       DEF FailsWith, Becomes, ModelStays, CallStays, PcStays, Codes, TracedCodes, Busy
<1>10. CASE CallModel(r)
  <2>1. /\ At(r, "model") /\ Idle(r) /\ ~Replays(r) /\ RunStays(r) /\ PcStays(r) /\ CallStays(r)
    BY <1>10, CallModelAt DEF ModelLeaves
  <2>2. At(r, "model")' /\ ~Replays(r)'
    BY <2>1, Unmoved DEF RunStays
  <2> QED
    BY <2>1, <2>2, Unmoved DEF Busy, Idle, RunStays, PcStays, CallStays, At
<1>11. CASE ModelSpeaks(r)
  <2>1. /\ llm[r].on /\ RunStays(r) /\ PcStays(r) /\ CallStays(r) /\ WorkStays(r)
    BY <1>11, SpeaksAt DEF ModelLeaves
  <2> QED
    BY <2>1, Unmoved DEF Busy, RunStays, PcStays, CallStays, WorkStays
<1>12. CASE ModelEnds(r) \/ ModelFails(r)
  <2>1. /\ llm[r].on /\ ~llm'[r].on /\ CallStays(r)
        /\ \/ RunStays(r) /\ PcGoesOn(r)
           \/ FailsWith(r, "RUN_FAILED") /\ PcStays(r)
    BY <1>12, EndsAt DEF ModelLeaves
  <2>2. call[r].at = "none" /\ At(r, "model")
    BY <2>1 DEF Busy
  <2>3. pc[r] + 1 \in 0 .. Len(Program(r)) /\ pc[r] \in 0 .. Len(Program(r))
    BY <2>2, NotAtEnd DEF Labels, Busy
  <2>4. Running(r)
    BY <2>2 DEF At
  <2>5. CASE RunStays(r) /\ PcGoesOn(r)
    BY <2>1, <2>2, <2>3, <2>4, <2>5, IdleBusy
       DEF RunStays, CallStays, PcGoesOn, SameAsked, Busy
  <2>6. CASE FailsWith(r, "RUN_FAILED") /\ PcStays(r)
    BY <2>1, <2>2, <2>3, <2>6, IdleBusy, CodesAssumption
       DEF FailsWith, Becomes, CallStays, PcStays, Codes
  <2> QED
    BY <2>1, <2>5, <2>6
<1>13. CASE ReplayModel(r) \/ ReplayMisses(r)
  <2>1. /\ At(r, "model") /\ Idle(r) /\ CallStays(r) /\ ~llm'[r].on
        /\ \/ RunStays(r) /\ PcGoesOn(r)
           \/ FailsWith(r, "REPLAY_MISMATCH") /\ PcStays(r)
    BY <1>13, ReplayModelAt, MissesAt DEF ModelLeaves, ModelStays, Idle
  <2>3. pc[r] + 1 \in 0 .. Len(Program(r)) /\ pc[r] \in 0 .. Len(Program(r))
    BY <2>1, NotAtEnd DEF Labels, Busy
  <2>4. Running(r) /\ call[r].at = "none"
    BY <2>1 DEF At, Idle
  <2>5. CASE RunStays(r) /\ PcGoesOn(r)
    BY <2>1, <2>3, <2>4, <2>5, IdleBusy
       DEF RunStays, CallStays, PcGoesOn, SameAsked, Busy
  <2>6. CASE FailsWith(r, "REPLAY_MISMATCH") /\ PcStays(r)
    BY <2>1, <2>3, <2>4, <2>6, IdleBusy, CodesAssumption
       DEF FailsWith, Becomes, CallStays, PcStays, Codes
  <2> QED
    BY <2>1, <2>5, <2>6
<1>14. CASE RecordModel(r) \/ Complete(r)
  <2>1. /\ At(r, "record") \/ At(r, "complete")
        /\ PcStays(r) /\ CallStays(r) /\ llm'[r] = llm[r]
        /\ Becomes(r, "completed", run[r].code) \/ FailsWith(r, "RUN_FAILED")
    BY <1>14, LastStepAt
  <2>2. ~llm[r].on /\ call[r].at = "none" /\ run[r].code = None
    BY <2>1, AtOne DEF Busy, AtTool, At
  <2> QED
    BY <2>1, <2>2, IdleBusy, CodesAssumption DEF FailsWith, Becomes, CallStays, PcStays, Codes, Busy
<1>15. CASE StepLimit(r)
  <2>1. /\ Running(r) /\ Idle(r) /\ CallStays(r) /\ llm'[r] = llm[r]
        /\ FailsWith(r, "GRAPH_STEP_LIMIT") /\ PcStays(r)
    BY <1>15, LimitAt DEF ModelLeaves, ModelStays
  <2>2. ~llm'[r].on /\ call[r].at = "none"
    BY <2>1 DEF Idle
  <2> QED
    BY <2>1, <2>2, IdleBusy, CodesAssumption DEF FailsWith, Becomes, CallStays, PcStays, Codes, Busy
<1> QED
  BY <1>1, <1>2, <1>3, <1>4, <1>5, <1>6, <1>7, <1>8, <1>9, <1>10, <1>11, <1>12, <1>13, <1>14, <1>15
     DEF AgentStepOf

\* What every step of a run is like.
Moves(r) ==
  /\ run[r].status \in {"running", "suspended"} /\ run'[r].status \in Statuses \ {"none"}
  /\ SameAsked(r) /\ (r \in hurt => r \in hurt')
  /\ pc'[r] \in {pc[r], pc[r] + 1}
  /\ frozen'[r].llm = frozen[r].llm /\ frozen'[r].whole = frozen[r].whole
  /\ pc[r] # 0 => FrozenStays(r)
  /\ \E step : trace'[r] \in {trace[r], Append(trace[r], step)}

LEMMA StepMoves == ASSUME Types, NEW r \in Runs, Busy(r), AgentStepOf(r) PROVE Moves(r)
<1>0. Types'
  BY StepTyped
<1>1. run'[r].status \in Statuses
  BY <1>0 DEF Types, RunTypes, RunRecords
<1>2. SUFFICES /\ run[r].status \in {"running", "suspended"} /\ run'[r].status # "none"
               /\ SameAsked(r) /\ (r \in hurt => r \in hurt')
               /\ pc'[r] \in {pc[r], pc[r] + 1}
               /\ frozen'[r].llm = frozen[r].llm /\ frozen'[r].whole = frozen[r].whole
               /\ pc[r] # 0 => FrozenStays(r)
               /\ \E step : trace'[r] \in {trace[r], Append(trace[r], step)}
  BY <1>1 DEF Moves
<1> USE DEF PcStays, PcGoesOn, HurtStays, FrozenStays, TraceStays, Joins, MayJoin
<1>3. RunStays(r) => SameAsked(r)
  BY DEF RunStays, SameAsked
<1>4. AtTool(r) => Running(r)
  BY DEF AtTool, At
<1>5. \A code : FailsWith(r, code) => SameAsked(r) /\ run'[r].status = "failed"
  BY DEF FailsWith, Becomes
<1>6. Running(r) /\ RunStays(r) => run[r].status = "running" /\ run'[r].status # "none"
  BY DEF RunStays
<1>7. CASE Build(r)
  BY <1>7, BuildAt, <1>3, <1>6
<1>8. CASE Note(r)
  BY <1>8, NoteAt, <1>3, <1>5, <1>6 DEF At
<1>9. CASE CallTool(r)
  BY <1>9, CallToolAt, <1>3, <1>4, <1>6
<1>10. ASSUME NEW code, AtTool(r), Errored(r, code)
       PROVE  /\ run[r].status = "running" /\ run'[r].status # "none"
              /\ SameAsked(r) /\ pc'[r] \in {pc[r], pc[r] + 1}
  BY <1>10, <1>3, <1>4, <1>5, <1>6 DEF Errored
<1>11. ASSUME NEW key, NEW result, AtTool(r), Returned(r, key, result)
       PROVE  /\ run[r].status = "running" /\ run'[r].status # "none"
              /\ SameAsked(r) /\ pc'[r] \in {pc[r], pc[r] + 1}
  BY <1>11, <1>3, <1>4, <1>6 DEF Returned
<1>12. CASE ChaosFails(r)
  BY <1>12, ChaosAt, <1>10 DEF ToolLeaves
<1>13. CASE RecallTool(r)
  BY <1>13, RecallAt, <1>10, <1>11 DEF ToolLeaves
<1>14. CASE ToolWorks(r)
  BY <1>14, ToolWorksAt, <1>3, <1>4, <1>6 DEF Busy
<1>15. CASE ToolEnds(r)
  BY <1>15, ToolEndsAt, <1>10, <1>11 DEF ToolLeaves
<1>16. CASE Asks(r) \/ GraphGoesOn(r) \/ ExecutorStops(r) \/ Rejected(r)
  BY <1>16, ApprovalAt, <1>4, <1>5 DEF Becomes, Gated, At
<1>17. CASE CallModel(r)
  BY <1>17, CallModelAt, <1>3, <1>6 DEF ModelLeaves, At
<1>18. CASE ModelSpeaks(r)
  BY <1>18, SpeaksAt, <1>3, <1>6 DEF ModelLeaves, Busy, At
<1>19. CASE ModelEnds(r)
  BY <1>19, EndsAt, <1>3, <1>6 DEF ModelLeaves, Busy, At
<1>20. CASE ModelFails(r)
  BY <1>20, EndsAt, <1>5 DEF ModelLeaves, Busy, At
<1>21. CASE ReplayModel(r)
  BY <1>21, ReplayModelAt, <1>3, <1>6 DEF ModelLeaves, At
<1>22. CASE ReplayMisses(r)
  BY <1>22, MissesAt, <1>5 DEF ModelLeaves, At
<1>23. CASE RecordModel(r) \/ Complete(r)
  BY <1>23, LastStepAt, <1>5 DEF Becomes, At
<1>24. CASE StepLimit(r)
  BY <1>24, LimitAt, <1>5 DEF ModelLeaves
<1> QED
  BY <1>7, <1>8, <1>9, <1>12, <1>13, <1>14, <1>15, <1>16, <1>17, <1>18, <1>19, <1>20, <1>21, <1>22, <1>23, <1>24
     DEF AgentStepOf

LEMMA ConfigStays == ASSUME NEW r \in Runs, AgentStepOf(r) PROVE config' = config
BY DEF AgentStepOf, Build, Note, CallTool, ChaosFails, RecallTool, ToolWorks, ToolEnds, Asks,
   GraphGoesOn, ExecutorStops, Rejected, CallModel, ModelSpeaks, ModelEnds, ModelFails, ReplayModel,
   ReplayMisses, StepLimit, RecordModel, Complete

\* A run begins: nothing of it is there yet but what was asked, and a replay has
\* the answers of its source.
Begins(r) ==
  /\ run[r].status = "none" /\ Asked(run'[r])
  /\ PcStays(r) /\ WorkStays(r) /\ ModelStays(r)
  /\ CallStays(r) /\ HeardStays(r) /\ RowsStay(r) /\ TraceStays(r) /\ HurtStays(r)
  /\ frozen'[r].tools = frozen[r].tools /\ frozen'[r].turns = frozen[r].turns
  /\ \/ r \in LiveRuns /\ run'[r].source = None /\ ~run'[r].mock /\ FrozenStays(r)
     \/ /\ r \in ReplayRuns
        /\ \E s \in Runs :
             /\ run[s].status # "none" /\ run'[r].source = s /\ run'[r].input = run[s].input
             /\ run'[r].kind = "gemini"
             /\ frozen'[r].llm = trace[s]
             /\ frozen'[r].whole <=> run[s].status = "completed"

LEMMA StartBegins ==
  ASSUME Types, Start
  PROVE  /\ Types' /\ config' = config
         /\ \E r \in Runs : Begins(r) /\ \A q \in Runs : q # r => Stays(q)
<1> USE DEF Types
<1> USE DEF Stays, RunStays, PcStays, WorkStays, FrozenStays, ModelStays, CallStays, HeardStays,
        RowsStay, TraceStays, HurtStays, traceVars, providerVars, toolVars
<1>1. ASSUME NEW r \in LiveRuns, NEW q \in Requests, StartLive(r, q)
      PROVE  /\ Types' /\ config' = config /\ r \in Runs
             /\ Begins(r) /\ \A o \in Runs : o # r => Stays(o)
  <2>1. r \in Runs /\ config' = config
    BY <1>1 DEF Runs, StartLive
  <2>2. PICK asked \in RunRecords :
          /\ Types' /\ Asked(asked) /\ asked.source = None /\ ~asked.mock
          /\ run' = [run EXCEPT ![r] = asked]
    BY <1>1, StartLiveTyped
  <2>3. run'[r] = asked /\ \A o \in Runs : o # r => run'[o] = run[o]
    BY <2>1, <2>2 DEF RunTypes
  <2> QED
    BY <1>1, <2>1, <2>2, <2>3 DEF StartLive, Begins
<1>2. ASSUME NEW r \in ReplayRuns, NEW s \in Runs, NEW q \in Replayings, NEW mock \in BOOLEAN,
             StartReplay(r, s, q.agent, mock, q.shared)
      PROVE  /\ Types' /\ config' = config /\ r \in Runs
             /\ Begins(r) /\ \A o \in Runs : o # r => Stays(o)
  <2>1. r \in Runs /\ config' = config
    BY <1>2 DEF Runs, StartReplay
  <2>2. PICK asked \in RunRecords :
          /\ Types' /\ Asked(asked) /\ asked.source = s /\ asked.input = run[s].input
          /\ asked.kind = "gemini" /\ run' = [run EXCEPT ![r] = asked]
    BY <1>2, StartReplayTyped
  <2>3. run'[r] = asked /\ \A o \in Runs : o # r => run'[o] = run[o]
    BY <2>1, <2>2 DEF RunTypes
  <2> DEFINE whole == run[s].status = "completed"
             new == [frozen[r] EXCEPT !.llm = trace[s], !.whole = whole]
  <2>4. frozen' = [frozen EXCEPT ![r] = new]
    BY <1>2, Zenon DEF StartReplay
  <2> HIDE DEF whole
  <2>5. new.llm = trace[s] /\ new.whole = whole /\ new.turns = frozen[r].turns
        /\ new.tools = frozen[r].tools
    BY <2>1 DEF SharedTypes, FrozenRecords
  <2> HIDE DEF new
  <2>6. frozen'[r] = new /\ \A o \in Runs : o # r => frozen'[o] = frozen[o]
    BY <2>1, <2>4 DEF SharedTypes
  <2>7. frozen'[r].whole <=> whole
    BY ONLY <2>5, <2>6
  <2>8. /\ frozen'[r].llm = trace[s] /\ frozen'[r].turns = frozen[r].turns
        /\ frozen'[r].tools = frozen[r].tools
    BY <2>5, <2>6
  <2>9. Begins(r)
    BY <1>2, <2>2, <2>3, <2>7, <2>8 DEF StartReplay, Begins, whole
  <2>10. \A o \in Runs : o # r => Stays(o)
    BY <1>2, <2>3, <2>6 DEF StartReplay
  <2> QED
    BY <2>1, <2>2, <2>9, <2>10
<1> QED
  BY <1>1, <1>2 DEF Start

-----------------------------------------------------------------------------
(* The type invariant.                                                      *)

\* Only a run that completed has turns in the history.
Done == {r \in Runs : run[r].status = "completed"}
Counted == turns <= Cardinality(Done)

Placed ==
  /\ Types
  /\ \A r \in Runs : Blank(r) /\ Busy(r)
  /\ Counted

\* A step is of one run, which begins or goes on, or of none.
LEMMA NextCases ==
  ASSUME Types, \A r \in Runs : Busy(r), [Next]_vars
  PROVE  /\ Types' /\ config' = config
         /\ \/ \A q \in Runs : Stays(q)
            \/ \E r \in Runs :
                 /\ Begins(r) \/ (AgentStepOf(r) /\ Moves(r))
                 /\ \A q \in Runs : q # r => Stays(q)
<1>1. CASE UNCHANGED vars
  <2> USE <1>1 DEF vars, traceVars, providerVars, toolVars, agentVars
  <2>1. Types'
    BY DEF Types, RunTypes, ModelTypes, ToolTypes, TraceTypes, SharedTypes
  <2>2. \A q \in Runs : Stays(q)
    BY DEF Stays, RunStays, PcStays, WorkStays, FrozenStays, ModelStays, CallStays, HeardStays,
           RowsStay, TraceStays, HurtStays
  <2> QED
    BY <2>1, <2>2
<1>2. CASE EditFile
  <2>1. \A q \in Runs : Stays(q)
    BY <1>2 DEF EditFile, Stays, RunStays, PcStays, WorkStays, FrozenStays, ModelStays, CallStays,
                HeardStays, RowsStay, TraceStays, HurtStays, providerVars, toolVars, agentVars
  <2>2. Types' /\ config' = config
    BY <1>2, EditTyped DEF EditFile
  <2> QED
    BY <2>1, <2>2
<1>3. CASE Start
  <2>1. PICK r \in Runs : Begins(r) /\ \A q \in Runs : q # r => Stays(q)
    BY <1>3, StartBegins
  <2> QED
    BY <1>3, <2>1, StartBegins
<1>4. CASE \E r \in Runs : AgentStepOf(r)
  BY <1>4, StepTyped, ConfigStays, StepMoves, OthersStay
<1> QED
  BY <1>1, <1>2, <1>3, <1>4 DEF Next

LEMMA BusyStays == ASSUME NEW r, Stays(r), Busy(r) PROVE Busy(r)'
<1>1. /\ RunStays(r) /\ PcStays(r) /\ args'[r] = args[r] /\ llm'[r] = llm[r] /\ call'[r] = call[r]
  BY DEF Stays, WorkStays, ModelStays, CallStays
<1> QED
  BY <1>1, Unmoved DEF Busy, RunStays, PcStays

LEMMA BusyBegins == ASSUME Types', NEW r \in Runs, Blank(r), Begins(r) PROVE Busy(r)'
<1>1. /\ pc'[r] = 0 /\ llm'[r] = NoCall /\ call'[r] = NoTool
  BY DEF Blank, Begins, PcStays, ModelStays, CallStays
<1>2. ~llm'[r].on /\ call'[r].at = "none"
  <2>1. NoCall.on = FALSE /\ NoTool.at = "none"
    BY DEF NoCall, NoTool
  <2> QED
    BY ONLY <1>1, <2>1
<1>3. Asked(run'[r])
  BY DEF Begins
<1>4. Len(Program(r)') \in Nat
  <2>1. Len(Program(r)') \in 3 .. 7
    <3>1. run'[r].agent \in Agents
      BY DEF Types, RunTypes, RunRecords
    <3> QED
      BY <3>1, Programs DEF Orderly
  <2> QED
    BY <2>1
<1> QED
  BY <1>1, <1>2, <1>3, <1>4 DEF Busy, Asked

LEMMA PlacedKept == Placed /\ [Next]_vars => Placed'
<1> SUFFICES ASSUME Placed, [Next]_vars PROVE Placed'
  OBVIOUS
<1> USE DEF Placed
<1>1. /\ Types' /\ config' = config
      /\ \/ \A q \in Runs : Stays(q)
         \/ \E r \in Runs :
              /\ Begins(r) \/ (AgentStepOf(r) /\ Moves(r))
              /\ \A q \in Runs : q # r => Stays(q)
  BY NextCases
<1>2. ASSUME NEW q \in Runs, Stays(q) PROVE Blank(q)' /\ Busy(q)'
  <2>1. Blank(q)'
    BY <1>2 DEF Stays, RunStays, PcStays, WorkStays, ModelStays, CallStays, HeardStays, RowsStay,
                TraceStays, Blank
  <2> QED
    BY <1>2, <2>1, BusyStays
<1>3. ASSUME NEW r \in Runs, Begins(r) PROVE Blank(r)' /\ Busy(r)'
  <2>1. Blank(r)'
    BY <1>3 DEF Begins, Asked, Blank
  <2> QED
    BY <1>1, <1>3, <2>1, BusyBegins
<1>4. ASSUME NEW r \in Runs, AgentStepOf(r), Moves(r) PROVE Blank(r)' /\ Busy(r)'
  <2>1. Blank(r)'
    BY <1>4 DEF Moves, Blank
  <2> QED
    BY <1>4, <2>1, BusyKept
<1>5. \A q \in Runs : Blank(q)' /\ Busy(q)'
  BY <1>1, <1>2, <1>3, <1>4
<1>6. Counted'
  <2>1. turns \in Nat /\ IsFiniteSet(Runs)
    BY RequestsAssumption DEF Types, SharedTypes
  <2>2. IsFiniteSet(Done) /\ IsFiniteSet(Done') /\ Cardinality(Done) \in Nat /\ Cardinality(Done') \in Nat
    BY <2>1, FS_Subset, FS_CardinalityType DEF Done
  <2>3. Done \subseteq Done'
    BY <1>1 DEF Done, Stays, RunStays, Begins, Moves
  <2>4. Cardinality(Done) <= Cardinality(Done')
    BY <2>2, <2>3, FS_Subset
  <2>5. CASE turns' <= turns
    BY <2>1, <2>2, <2>4, <2>5, <1>1 DEF Counted, Types, SharedTypes
  <2>6. ASSUME NEW r \in Runs, Finishes(r), AgentStepOf(r), turns' = turns + 1 PROVE Counted'
    <3>1. run'[r].status = "completed" /\ run[r].status # "completed"
      <4>1. run'[r].status = "completed"
        BY <2>6 DEF Finishes, Types, RunTypes, RunRecords
      <4> QED
        BY <4>1, <2>6, StepMoves DEF Moves
    <3>2. r \in Done' /\ r \notin Done
      BY <3>1 DEF Done
    <3>3. Cardinality(Done \cup {r}) = Cardinality(Done) + 1 /\ IsFiniteSet(Done \cup {r})
      BY <2>2, <3>2, FS_AddElement
    <3>4. Cardinality(Done \cup {r}) <= Cardinality(Done')
      BY <2>2, <2>3, <3>2, FS_Subset
    <3> QED
      BY ONLY <2>1, <2>2, <2>6, <3>3, <3>4, Counted DEF Counted
  <2>7. \/ turns' = turns
        \/ \E r \in Runs : Finishes(r) /\ AgentStepOf(r) /\ turns' = turns + 1
    <3>1. CASE UNCHANGED vars
      BY <3>1 DEF vars
    <3>2. CASE EditFile \/ Start
      BY <3>2 DEF EditFile, Start, StartLive, StartReplay
    <3>3. ASSUME NEW r \in Runs, AgentStepOf(r)
          PROVE  turns' = turns \/ (Finishes(r) /\ turns' = turns + 1)
      <4>1. CASE RecordModel(r) \/ Complete(r)
        <5>1. Finishes(r) \/ BreaksOff(r)
          BY <4>1 DEF RecordModel, Complete, Record
        <5> QED
          <6>1. Finishes(r) => turns' = turns + 1 \/ turns' = turns
            BY DEF Finishes
          <6>2. BreaksOff(r) => turns' = turns
            BY DEF BreaksOff
          <6> QED
            BY <5>1, <6>1, <6>2
      <4>2. CASE ~(RecordModel(r) \/ Complete(r))
        <5>1. turns' = turns
          BY <3>3, <4>2 DEF AgentStepOf, Build, Note, CallTool, ChaosFails, RecallTool, ToolWorks,
           ToolEnds, Asks, GraphGoesOn, ExecutorStops, Rejected, CallModel, ModelSpeaks, ModelEnds,
           ModelFails, ReplayModel, ReplayMisses, StepLimit
        <5> QED
          BY <5>1
      <4> QED
        BY <4>1, <4>2
    <3> QED
      BY <3>1, <3>2, <3>3 DEF Next
  <2> QED
    BY <2>1, <2>5, <2>6, <2>7
<1> QED
  BY <1>1, <1>5, <1>6

LEMMA PlacedAtFirst == Init => Placed
<1> SUFFICES ASSUME Init PROVE Placed
  OBVIOUS
<1> USE DEF Init, TraceInit, ProviderInit, ToolsInit
<1>1. Types
  BY TypesAtFirst
<1>2. ASSUME NEW r \in Runs PROVE Blank(r) /\ Busy(r)
  <2>1. /\ run[r] = NoRun /\ pc[r] = 0 /\ llm[r] = NoCall /\ call[r] = NoTool
    OBVIOUS
  <2>2. Blank(r)
    BY DEF Blank
  <2>3. /\ NoRun.status = "none" /\ NoRun.code = None /\ NoRun.mock = FALSE
        /\ NoCall.on = FALSE /\ NoTool.at = "none"
    BY DEF NoRun, NoCall, NoTool
  <2>4. 0 \in 0 .. Len(Program(r))
    BY <1>1, ItsProgram
  <2> HIDE DEF Init
  <2>5. Busy(r)
    BY <2>1, <2>3, <2>4 DEF Busy
  <2> QED
    BY <2>2, <2>5
<1>3. Counted
  BY RequestsAssumption, FS_Subset, FS_CardinalityType DEF Counted, Done
<1> QED
  BY <1>1, <1>2, <1>3 DEF Placed

LEMMA PlacedTypes == Placed => TypeOK
<1> SUFFICES ASSUME Placed PROVE TypeOK
  OBVIOUS
<1> USE DEF Placed, Types
<1>1. ProviderTypeOK
  BY DEF ProviderTypeOK, ModelTypes, SharedTypes, ModelCalls
<1>2. ASSUME NEW r \in Runs, NEW i \in 1 .. Len(rows[r]) PROVE rows[r][i].code \in Codes \cup {None}
  <2>1. rows[r][i] \in RowRecords
    BY DEF SharedTypes
  <2> QED
    BY <2>1 DEF RowRecords
<1>3. ToolsTypeOK
  BY <1>2 DEF ToolsTypeOK, ToolTypes, ToolCalls
<1>4. turns \in 0 .. Cardinality(Runs)
  <2>1. IsFiniteSet(Runs) /\ Done \subseteq Runs
    BY RequestsAssumption DEF Done
  <2>2. Cardinality(Done) <= Cardinality(Runs) /\ Cardinality(Done) \in Nat /\ Cardinality(Runs) \in Nat
    BY <2>1, FS_Subset, FS_CardinalityType
  <2>3. turns \in Nat /\ turns <= Cardinality(Done)
    BY DEF Counted, SharedTypes
  <2> QED
    BY ONLY <2>2, <2>3
<1>5. ASSUME NEW r \in Runs
      PROVE  /\ run[r].status \in Statuses
             /\ run[r].code \in Codes \cup {None}
             /\ run[r].status = "failed" <=> run[r].code # None
             /\ pc[r] \in 0 .. Len(ProgramOf(run[r]))
  BY DEF RunTypes, RunRecords, Busy
<1> QED
  BY <1>1, <1>3, <1>4, <1>5 DEF TypeOK, TraceTypes, SharedTypes

LEMMA PlacedInvariant == Spec => []Placed
BY PlacedAtFirst, PlacedKept, PTL DEF Spec

\* The settings, the calls, their rows and the runs are what their types say:
\* a run has a code just when it failed, it stands in its program, and the
\* conversation has no more turns than there are runs.
THEOREM TypeIsKept == Spec => []TypeOK
BY PlacedInvariant, PlacedTypes, PTL

-----------------------------------------------------------------------------
(* What the model said, and what of it is metered.                          *)

LEMMA PassedMoves ==
  ASSUME Types, NEW r \in Runs, Busy(r), SameAsked(r)
  PROVE  /\ PcStays(r) => \A label : Passed(r, label)' <=> Passed(r, label)
         /\ PcGoesOn(r) => \A label :
              Passed(r, label)' <=> Passed(r, label) \/ Here(Program(r), pc[r], label)
<1>1. Program(r)' = Program(r)
  BY ProgramStays
<1>2. Orderly(Program(r)) /\ pc[r] \in 0 .. Len(Program(r))
  BY ItsProgram DEF Busy
<1>3. ASSUME PcStays(r), NEW label PROVE Passed(r, label)' <=> Passed(r, label)
  BY <1>1, <1>3 DEF Passed, PcStays
<1>4. ASSUME PcGoesOn(r), NEW label
      PROVE  Passed(r, label)' <=> Passed(r, label) \/ Here(Program(r), pc[r], label)
  <2>1. PassedAt(Program(r), pc[r] + 1, label) <=>
          PassedAt(Program(r), pc[r], label) \/ Here(Program(r), pc[r], label)
    BY <1>2, LeftBehind
  <2>2. Passed(r, label)' <=> PassedAt(Program(r), pc[r] + 1, label)
    BY <1>1, <1>4 DEF Passed, PcGoesOn
  <2> QED
    BY <2>1, <2>2 DEF Passed
<1> QED
  BY <1>3, <1>4

LEMMA NotPassed ==
  ASSUME Types, NEW r \in Runs, NEW label, label # "note", At(r, label)
  PROVE  ~Passed(r, label)
BY ItsProgram, NotYetBehind, AtHere DEF Passed

\* An agent that streams has told what the model said; before the call nothing
\* is said or metered; and the count of the pieces is kept up, unless Gemini was
\* asked again.
Says(r) ==
  /\ llm[r].on \/ Passed(r, "model") => (llm[r].streams <=> Streams(run[r].agent))
  /\ Streams(run[r].agent) => text[r] = llm[r].said
  /\ ~llm[r].on /\ ~Passed(r, "model") /\ run[r].status # "failed" =>
       llm[r].said = <<>> /\ metered[r] = None
  /\ run[r].agent = "hitl-demo" => metered[r] = None
  /\ ~Replays(r) =>
       /\ llm[r].got <= Len(llm[r].said)
       /\ llm[r].source = "primary" /\ ~llm[r].retried => llm[r].got = Len(llm[r].said)
       /\ llm[r].retried => llm[r].kind = "gemini"
       /\ Passed(r, "model") => metered[r] = CollectUsage(r)

LEMMA SaysStays == ASSUME NEW r, Stays(r), Says(r) PROVE Says(r)'
BY DEF Stays, RunStays, PcStays, ModelStays, Says, Passed, CollectUsage, EstimatedUsage, OpenAIUsage,
       AnthropicUsage, GeminiUsage

LEMMA SaysBegins == ASSUME Types', NEW r \in Runs, Blank(r), Begins(r) PROVE Says(r)'
<1>1. /\ pc'[r] = 0 /\ llm'[r] = NoCall /\ text'[r] = <<>> /\ metered'[r] = None
  BY DEF Blank, Begins, PcStays, ModelStays
<1>2. /\ NoCall.on = FALSE /\ NoCall.got = 0 /\ NoCall.said = <<>> /\ NoCall.retried = FALSE
      /\ NoCall.source = "mock"
  BY DEF NoCall
<1>3. /\ ~llm'[r].on /\ ~llm'[r].retried /\ llm'[r].got = 0 /\ llm'[r].said = <<>>
  BY ONLY <1>1, <1>2
<1>4. ~Passed(r, "model")'
  BY <1>1 DEF Passed, PassedAt
<1> QED
  BY <1>1, <1>3, <1>4 DEF Says

\* A step that is not the model's leaves it so.
LEMMA SaysQuiet ==
  ASSUME Types, NEW r \in Runs, Busy(r), Says(r), SameAsked(r), run[r].status # "failed",
         llm'[r] = llm[r], metered'[r] = metered[r],
         text'[r] = text[r] \/ ~Streams(run[r].agent),
         PcStays(r) \/ (PcGoesOn(r) /\ ~Here(Program(r), pc[r], "model"))
  PROVE  Says(r)'
<1>1. Passed(r, "model")' <=> Passed(r, "model")
  BY PassedMoves
<1>2. CollectUsage(r)' = CollectUsage(r)
  BY DEF CollectUsage, EstimatedUsage, OpenAIUsage, AnthropicUsage, GeminiUsage
<1> QED
  BY <1>1, <1>2 DEF Says, SameAsked

LEMMA SaysKept ==
  ASSUME Types, NEW r \in Runs, Busy(r), Says(r), AgentStepOf(r), Moves(r) PROVE Says(r)'
<1>1. SameAsked(r) /\ run[r].status # "failed"
  BY DEF Moves
<1>2. /\ \A label \in {"note", "search", "read", "probe", "record", "complete"} :
           At(r, label) => ~Here(Program(r), pc[r], "model")
      /\ AtTool(r) => ~Here(Program(r), pc[r], "model")
  BY DEF At, Here, AtTool
<1>0. At(r, "model") => run[r].agent # "hitl-demo"
  BY ItsProgram, AtHere DEF Suits, Here
<1>3. ASSUME ModelStays(r), PcStays(r) \/ (PcGoesOn(r) /\ ~Here(Program(r), pc[r], "model"))
      PROVE  Says(r)'
  BY <1>1, <1>3, SaysQuiet DEF ModelStays
<1>4. CASE Build(r)
  <2>1. ~Here(Program(r), pc[r], "model")
    BY <1>4, BuildAt DEF Here
  <2> QED
    BY <1>3, <1>4, <2>1, BuildAt
<1>5. CASE Note(r)
  BY <1>2, <1>3, <1>5, NoteAt
<1>6. CASE CallTool(r) \/ ToolWorks(r)
  BY <1>3, <1>6, CallToolAt, ToolWorksAt
<1>7. CASE ChaosFails(r) \/ RecallTool(r) \/ ToolEnds(r)
  <2>1. AtTool(r) /\ ToolLeaves(r)
    BY <1>7, ChaosAt, RecallAt, ToolEndsAt
  <2>2. PcStays(r) \/ PcGoesOn(r)
    BY DEF Moves, PcStays, PcGoesOn
  <2> QED
    BY <1>2, <1>3, <2>1, <2>2 DEF ToolLeaves
<1>8. CASE Asks(r) \/ GraphGoesOn(r) \/ ExecutorStops(r) \/ Rejected(r)
  BY <1>3, <1>8, ApprovalAt
<1>9. CASE CallModel(r)
  <2>1. /\ At(r, "model") /\ metered[r] = None /\ ~Replays(r) /\ Idle(r)
        /\ RunStays(r) /\ PcStays(r) /\ text'[r] = text[r] /\ metered'[r] = metered[r]
        /\ llm'[r].on /\ llm'[r].said = <<>> /\ llm'[r].got = 0
        /\ ~llm'[r].retried /\ (llm'[r].streams <=> Streams(run[r].agent))
    BY <1>9, CallModelAt
  <2>2. ~Passed(r, "model") /\ ~Passed(r, "model")'
    BY <1>1, <2>1, NotPassed, PassedMoves
  <2>3. Streams(run[r].agent) => text[r] = <<>>
    BY <1>1, <2>1, <2>2 DEF Says, Idle
  <2> QED
    BY <2>1, <2>2, <2>3 DEF Says, RunStays
<1>10. CASE ModelSpeaks(r)
  <2>1. llm[r].on /\ llm'[r].on /\ RunStays(r) /\ PcStays(r)
    BY <1>10, SpeaksAt
  <2>2. At(r, "model") /\ ~Replays(r)
    BY <2>1 DEF Busy
  <2>3. ~Passed(r, "model") /\ ~Passed(r, "model")'
    BY <1>1, <2>1, <2>2, NotPassed, PassedMoves
  <2>4. llm[r].said \in Seq(Words) /\ llm[r].got \in Nat /\ llm[r].streams \in BOOLEAN
        /\ llm[r].source \in Sources
    BY CallsAssumption DEF Types, ModelTypes, ModelCalls
  <2>5. CASE /\ llm'[r].got = llm[r].got + 1 /\ llm'[r].said = Append(llm[r].said, llm[r].source)
             /\ llm'[r].source = llm[r].source /\ (llm'[r].retried <=> llm[r].retried)
             /\ \/ llm[r].streams /\ text'[r] = Append(text[r], llm[r].source)
                \/ ~llm[r].streams /\ text'[r] = text[r]
    <3>1. Len(llm'[r].said) = Len(llm[r].said) + 1
      BY <2>4, <2>5
    <3>2. llm[r].got <= Len(llm[r].said) => llm'[r].got <= Len(llm'[r].said)
      BY <2>4, <2>5, <3>1
    <3> QED
      BY <1>10, <2>1, <2>2, <2>3, <2>5, <3>1, <3>2, SpeaksAt DEF Says, RunStays
  <2>6. CASE /\ text'[r] = text[r] /\ llm'[r].got = 0
             /\ llm'[r].said = IF llm[r].streams THEN llm[r].said ELSE <<>>
             /\ \/ /\ llm'[r].source = "primary" /\ llm'[r].retried /\ llm[r].kind = "gemini"
                \/ /\ llm'[r].source = "mock" /\ (llm'[r].retried <=> llm[r].retried)
    <3>1. Len(llm'[r].said) \in Nat
      BY <2>4, <2>6
    <3> QED
      BY <1>10, <2>1, <2>2, <2>3, <2>6, <3>1, SpeaksAt DEF Says, RunStays
  <2> QED
    BY <1>10, <2>5, <2>6, SpeaksAt
<1>11. CASE ModelEnds(r) \/ ModelFails(r)
  <2>1. /\ llm[r].on /\ ~llm'[r].on /\ text'[r] = text[r]
        /\ llm'[r].said = llm[r].said /\ llm'[r].got = llm[r].got
        /\ llm'[r].source = llm[r].source /\ (llm'[r].retried <=> llm[r].retried)
        /\ llm'[r].kind = llm[r].kind /\ (llm'[r].streams <=> llm[r].streams)
        /\ CollectUsage(r)' = CollectUsage(r)
        /\ \/ RunStays(r) /\ PcGoesOn(r) /\ metered'[r] = CollectUsage(r)
           \/ FailsWith(r, "RUN_FAILED") /\ PcStays(r) /\ metered'[r] = metered[r]
    BY <1>11, EndsAt
  <2>2. At(r, "model") /\ ~Passed(r, "model")
    BY <2>1, NotPassed DEF Busy
  <2>3. CASE RunStays(r) /\ PcGoesOn(r) /\ metered'[r] = CollectUsage(r)
    <3>1. Passed(r, "model")'
      BY <1>1, <2>2, <2>3, PassedMoves, AtHere
    <3> QED
      BY <1>0, <2>1, <2>2, <2>3, <3>1 DEF Says, RunStays
  <2>4. CASE FailsWith(r, "RUN_FAILED") /\ PcStays(r)
    <3>1. ~Passed(r, "model")'
      BY <1>1, <2>2, <2>4, PassedMoves
    <3> QED
      BY <1>0, <1>1, <2>1, <2>2, <2>4, <3>1 DEF Says, FailsWith, Becomes, SameAsked
  <2> QED
    BY <2>1, <2>3, <2>4
<1>12. CASE ReplayModel(r)
  <2>1. /\ At(r, "model") /\ Replays(r) /\ RunStays(r) /\ PcGoesOn(r) /\ Idle(r)
        /\ ~llm'[r].on /\ llm'[r].said = Recorded(r).out
        /\ (llm'[r].streams <=> Streams(run[r].agent))
        /\ text'[r] = IF Streams(run[r].agent) THEN Recorded(r).out ELSE text[r]
    BY <1>12, ReplayModelAt
  <2>2. Passed(r, "model")'
    BY <1>1, <2>1, PassedMoves, AtHere
  <2> QED
    BY <1>0, <2>1, <2>2 DEF Says, RunStays
<1>13. CASE ReplayMisses(r) \/ StepLimit(r)
  BY <1>3, <1>13, MissesAt, LimitAt
<1>14. CASE RecordModel(r) \/ Complete(r)
  <2>1. /\ PcStays(r) /\ llm'[r] = llm[r] /\ metered'[r] = metered[r]
        /\ text'[r] = text[r] \/ At(r, "complete")
    BY <1>14, LastStepAt
  <2>2. At(r, "complete") => ~Streams(run[r].agent)
    BY ItsProgram, AtHere DEF Suits, Here
  <2> QED
    BY <1>1, <2>1, <2>2, SaysQuiet
<1> QED
  BY <1>4, <1>5, <1>6, <1>7, <1>8, <1>9, <1>10, <1>11, <1>12, <1>13, <1>14 DEF AgentStepOf

-----------------------------------------------------------------------------
(* How a run ends.                                                          *)

Over(r) == run[r].status \in {"completed", "failed"}

\* The last step of a run records the answer, once, as it was told; but
\* not that of a graph that said nothing, and not in a run that its approval ended.
Concluded(r) ==
  /\ LlmSteps(r) # {} => Over(r)
  /\ \A i \in LlmSteps(r) :
       /\ LlmSteps(r) = {i} /\ trace[r][i] = ModelStep(r)
       /\ text[r] = Reply(r) /\ pc[r] = Len(Program(r)) /\ ~SaidNothing(r)
       /\ run[r].agent # "hitl-demo" => Passed(r, "model")
  /\ run[r].status = "completed" =>
       \/ /\ pc[r] = Len(Program(r)) /\ text[r] = Reply(r)
          /\ ~SaidNothing(r) => LlmSteps(r) # {}
       \/ /\ pc[r] < Len(Program(r)) /\ LlmSteps(r) = {} /\ text[r] = <<>>
          /\ Streams(run[r].agent)

\* The steps of a type, once there is one more.
LEMMA StepsGrow ==
  ASSUME NEW steps \in Seq(Steps), NEW step, NEW type
  PROVE  /\ step.type # type => StepsOf(Append(steps, step), type) = StepsOf(steps, type)
         /\ step.type = type =>
              StepsOf(Append(steps, step), type) = StepsOf(steps, type) \cup {Len(steps) + 1}
         /\ \A i \in DOMAIN steps : Append(steps, step)[i] = steps[i]
         /\ Append(steps, step)[Len(steps) + 1] = step
         /\ DOMAIN Append(steps, step) = DOMAIN steps \cup {Len(steps) + 1}
<1>1. /\ DOMAIN Append(steps, step) = 1 .. Len(steps) + 1 /\ DOMAIN steps = 1 .. Len(steps)
      /\ Len(steps) \in Nat
  OBVIOUS
<1>2. \A i \in DOMAIN steps : Append(steps, step)[i] = steps[i]
  OBVIOUS
<1>3. Append(steps, step)[Len(steps) + 1] = step
  OBVIOUS
<1>4. 1 .. Len(steps) + 1 = (1 .. Len(steps)) \cup {Len(steps) + 1}
  BY <1>1
<1> DEFINE longer == Append(steps, step)
           n == Len(steps)
<1>5. /\ DOMAIN longer = (1 .. n) \cup {n + 1} /\ DOMAIN steps = 1 .. n /\ n + 1 \notin 1 .. n
      /\ \A i \in 1 .. n : longer[i] = steps[i]
      /\ longer[n + 1] = step
  BY <1>1, <1>2, <1>3, <1>4
<1> HIDE DEF longer, n
<1>6. /\ step.type # type => StepsOf(longer, type) = StepsOf(steps, type)
      /\ step.type = type => StepsOf(longer, type) = StepsOf(steps, type) \cup {n + 1}
  BY ONLY <1>5 DEF StepsOf
<1> QED
  BY <1>5, <1>6 DEF longer, n

\* The answer that would be recorded is that of the run as it is.
LEMMA ModelStepStays ==
  ASSUME NEW r, SameAsked(r), config' = config, llm'[r] = llm[r], metered'[r] = metered[r],
         FrozenStays(r), content'[r] = content[r]
  PROVE  /\ ModelStep(r)' = ModelStep(r) /\ (SaidNothing(r)' <=> SaidNothing(r))
         /\ Reply(r)' = Reply(r)
<1>0. Reply(r)' = Reply(r) /\ ModelOf(r)' = ModelOf(r)
  BY DEF SameAsked, Reply, ModelOf
<1>1. Question(r)' = Question(r)
  BY DEF SameAsked, FrozenStays, Question
<1>2. RecordedQuestion(r)' = RecordedQuestion(r)
  BY <1>1 DEF SameAsked, RecordedQuestion
<1>3. UsageOf(r)' = UsageOf(r)
  BY <1>0 DEF SameAsked, UsageOf, PopUsage
<1>4. SaidNothing(r)' <=> SaidNothing(r)
  BY <1>0 DEF SameAsked, SaidNothing
<1> QED
  BY <1>0, <1>2, <1>3, <1>4 DEF ModelStep

LEMMA ConcludedStays ==
  ASSUME NEW r, Stays(r), config' = config, Concluded(r) PROVE Concluded(r)'
<1>1. ModelStep(r)' = ModelStep(r) /\ (SaidNothing(r)' <=> SaidNothing(r)) /\ Reply(r)' = Reply(r)
  BY ModelStepStays DEF Stays, RunStays, SameAsked, ModelStays, WorkStays
<1>2. LlmSteps(r)' = LlmSteps(r) /\ (Passed(r, "model")' <=> Passed(r, "model"))
      /\ Program(r)' = Program(r) /\ (Over(r)' <=> Over(r))
  BY DEF Stays, TraceStays, LlmSteps, RunStays, PcStays, Passed, Over
<1> QED
  BY <1>1, <1>2 DEF Concluded, Stays, RunStays, PcStays, TraceStays, ModelStays

LEMMA ConcludedBegins == ASSUME Types', NEW r \in Runs, Blank(r), Begins(r) PROVE Concluded(r)'
<1>1. trace'[r] = <<>> /\ run'[r].status = "running"
  BY DEF Blank, Begins, TraceStays, Asked
<1>2. LlmSteps(r)' = {}
  BY <1>1 DEF LlmSteps, StepsOf
<1> QED
  BY <1>1, <1>2 DEF Concluded

\* What goes on has no answer recorded, and a step of its that is none keeps it so.
LEMMA ConcludedQuiet ==
  ASSUME Types, NEW r \in Runs, Concluded(r), Moves(r), run'[r].status # "completed",
         NEW step, step.type # "llm", trace'[r] \in {trace[r], Append(trace[r], step)}
  PROVE  Concluded(r)'
<1>1. trace[r] \in Seq(Steps)
  BY DEF Types, TraceTypes
<1>2. LlmSteps(r) = {}
  BY DEF Moves, Concluded, Over
<1>3. LlmSteps(r)' = {}
  <2>1. CASE trace'[r] = trace[r]
    BY <1>2, <2>1 DEF LlmSteps
  <2>2. CASE trace'[r] = Append(trace[r], step)
    <3>1. StepsOf(Append(trace[r], step), "llm") = StepsOf(trace[r], "llm")
      BY <1>1, StepsGrow
    <3> QED
      BY <1>2, <2>2, <3>1 DEF LlmSteps
  <2> QED
    BY <2>1, <2>2
<1> QED
  BY <1>3 DEF Concluded

LEMMA NoteIsNote == ASSUME NEW agent PROVE AgentStep(agent).type = "agent"
BY DEF AgentStep, Step

LEMMA AnswerIsAnswer ==
  ASSUME NEW r PROVE ModelStep(r).type = "llm" /\ ModelStep(r).out = Preview(Reply(r))
                                           /\ ModelStep(r).usage = UsageOf(r)
BY DEF ModelStep, LlmStep, Step

LEMMA OutcomeIsOutcome == ASSUME NEW key, NEW result, NEW code PROVE ToolStep(key, result, code).type = "tool"
BY DEF ToolStep, Step

\* A run that has got to its end has left the model's call behind.
LEMMA AtTheEnd ==
  ASSUME Types, NEW r \in Runs, At(r, "record") \/ At(r, "complete")
  PROVE  /\ pc[r] = Len(Program(r))
         /\ run[r].agent # "hitl-demo" <=> Passed(r, "model")
         /\ At(r, "record") <=> Streams(run[r].agent)
<1>1. pc[r] = Len(Program(r)) /\ pc[r] \in Nat
  BY AtHere, ItsProgram DEF Orderly, Here, Types, RunTypes
<1>2. At(r, "record") <=> Streams(run[r].agent)
  BY AtHere, ItsProgram DEF Suits, Here
<1>3. run[r].agent # "hitl-demo" => Passed(r, "model")
  <2> DEFINE n == Len(Program(r))
  <2>1. n \in Nat
    BY <1>1
  <2> SUFFICES ASSUME run[r].agent # "hitl-demo" PROVE Passed(r, "model")
    OBVIOUS
  <2>2. PICK i \in 1 .. n - 1 : Program(r)[i] = "model"
    BY ItsProgram
  <2> HIDE DEF n
  <2>3. i \in 1 .. n /\ i < n
    BY <2>1
  <2> QED
    BY <1>1, <2>2, <2>3 DEF Passed, PassedAt, n
<1>4. Passed(r, "model") => run[r].agent # "hitl-demo"
  BY ItsProgram DEF Passed, PassedAt, Suits
<1> QED
  BY <1>1, <1>2, <1>3, <1>4

LEMMA ConcludedAtTheEnd ==
  ASSUME Types, NEW r \in Runs, Busy(r), Says(r), Concluded(r), Moves(r),
         RecordModel(r) \/ Complete(r)
  PROVE  Concluded(r)'
<1>1. /\ PcStays(r) /\ WorkStays(r) /\ FrozenStays(r)
      /\ llm'[r] = llm[r] /\ metered'[r] = metered[r] /\ config' = config
      /\ \/ At(r, "record") /\ text'[r] = text[r]
         \/ /\ At(r, "complete")
            /\ text'[r] = Reply(r)
      /\ \/ Becomes(r, "completed", run[r].code) /\ Joins(r, ModelStep(r))
            /\ (At(r, "complete") => ~SaidNothing(r))
         \/ FailsWith(r, "RUN_FAILED") /\ MayJoin(r, ModelStep(r))
            /\ (At(r, "complete") => ~SaidNothing(r))
         \/ /\ Becomes(r, "completed", run[r].code) /\ TraceStays(r) /\ HurtStays(r)
            /\ At(r, "complete") /\ SaidNothing(r)
  BY LastStepAt
<1>2. SameAsked(r) /\ LlmSteps(r) = {} /\ trace[r] \in Seq(Steps)
  BY DEF Moves, Concluded, Over, Types, TraceTypes
<1>3. ModelStep(r)' = ModelStep(r) /\ (SaidNothing(r)' <=> SaidNothing(r)) /\ Reply(r)' = Reply(r)
  BY <1>1, <1>2, ModelStepStays DEF WorkStays
<1>4. /\ pc[r] = Len(Program(r))
      /\ run[r].agent # "hitl-demo" <=> Passed(r, "model")
      /\ At(r, "record") <=> Streams(run[r].agent)
  BY <1>1, AtTheEnd
<1>5. /\ pc'[r] = Len(Program(r)') /\ Program(r)' = Program(r)
      /\ Passed(r, "model")' <=> Passed(r, "model")
  BY <1>1, <1>2, <1>4, ProgramStays, PassedMoves DEF PcStays
<1>6. text'[r] = Reply(r)'
  <2>1. CASE At(r, "record") /\ text'[r] = text[r]
    <3>1. Streams(run[r].agent)
      BY <1>4, <2>1
    <3>2. text[r] = llm[r].said /\ run[r].agent # "hitl-demo"
      BY <3>1 DEF Says
    <3> QED
      BY <1>3, <2>1, <3>2 DEF Reply
  <2>2. CASE text'[r] = Reply(r)
    BY <1>3, <2>2
  <2> QED
    BY <1>1, <2>1, <2>2
<1>7. CASE /\ trace'[r] = trace[r]
           /\ \/ FailsWith(r, "RUN_FAILED")
              \/ Becomes(r, "completed", run[r].code) /\ SaidNothing(r)
  <2>1. LlmSteps(r)' = {}
    BY <1>2, <1>7 DEF LlmSteps
  <2>2. run'[r].status = "failed" \/ (run'[r].status = "completed" /\ SaidNothing(r))
    BY <1>7 DEF Becomes, FailsWith
  <2>3. run'[r].agent = run[r].agent
    BY <1>2 DEF SameAsked
  <2> QED
    BY <1>3, <1>5, <1>6, <2>1, <2>2, <2>3 DEF Concluded
<1>8. CASE /\ trace'[r] = Append(trace[r], ModelStep(r)) /\ (At(r, "complete") => ~SaidNothing(r))
           /\ Becomes(r, "completed", run[r].code) \/ FailsWith(r, "RUN_FAILED")
  <2> DEFINE last == Len(trace[r]) + 1
  <2>0. ModelStep(r).type = "llm"
    BY AnswerIsAnswer
  <2>1. /\ StepsOf(Append(trace[r], ModelStep(r)), "llm") = StepsOf(trace[r], "llm") \cup {last}
        /\ Append(trace[r], ModelStep(r))[last] = ModelStep(r)
    <3> DEFINE step == ModelStep(r)
               steps == trace[r]
    <3>1. steps \in Seq(Steps) /\ step.type = "llm"
      BY <1>2, <2>0
    <3> HIDE DEF step, steps
    <3>2. /\ StepsOf(Append(steps, step), "llm") = StepsOf(steps, "llm") \cup {Len(steps) + 1}
          /\ Append(steps, step)[Len(steps) + 1] = step
      BY <3>1, StepsGrow
    <3> QED
      BY <3>2 DEF step, steps
  <2>2. LlmSteps(r)' = {last} /\ trace'[r][last] = ModelStep(r)
    BY <1>2, <1>8, <2>1 DEF LlmSteps
  <2>3. ~SaidNothing(r)
    BY <1>1, <1>4, <1>8 DEF SaidNothing
  <2>4. run[r].agent # "hitl-demo" => Passed(r, "model")
    BY <1>4
  <2>5. run'[r].status \in {"completed", "failed"}
    BY <1>8 DEF Becomes, FailsWith
  <2> QED
    BY <1>2, <1>3, <1>4, <1>5, <1>6, <2>2, <2>3, <2>4, <2>5 DEF Concluded, Over, SameAsked
<1> QED
  BY <1>1, <1>7, <1>8 DEF Joins, MayJoin, TraceStays

LEMMA ConcludedKept ==
  ASSUME Types, NEW r \in Runs, Busy(r), Says(r), Concluded(r), AgentStepOf(r), Moves(r)
  PROVE  Concluded(r)'
<1>0. SameAsked(r)
  BY DEF Moves
<1>1. ASSUME RunStays(r) PROVE run'[r].status # "completed"
  BY <1>1 DEF RunStays, Moves
<1>2. ASSUME NEW code, FailsWith(r, code) PROVE run'[r].status # "completed"
  BY <1>2 DEF FailsWith, Becomes
<1>3. ASSUME TraceStays(r), run'[r].status # "completed" PROVE Concluded(r)'
  <2>1. AgentStep(run[r].agent).type # "llm"
    BY NoteIsNote
  <2> QED
    BY <1>3, <2>1, ConcludedQuiet DEF TraceStays
<1>4. CASE Build(r)
  BY <1>1, <1>3, <1>4, BuildAt
<1>5. CASE Note(r)
  BY <1>1, <1>2, <1>5, NoteAt, NoteIsNote, ConcludedQuiet DEF Joins, MayJoin
<1>6. CASE CallTool(r) \/ ToolWorks(r)
  BY <1>1, <1>3, <1>6, CallToolAt, ToolWorksAt
<1>7. ASSUME NEW code, Errored(r, code) PROVE run'[r].status # "completed"
  BY <1>1, <1>2, <1>7 DEF Errored
<1>8. ASSUME NEW key, NEW result, Returned(r, key, result) PROVE run'[r].status # "completed"
  BY <1>1, <1>8 DEF Returned
<1>9. ASSUME NEW key, NEW result, NEW code, run'[r].status # "completed",
             Joins(r, ToolStep(key, result, code)) \/ MayJoin(r, ToolStep(key, result, code))
      PROVE  Concluded(r)'
  BY <1>9, OutcomeIsOutcome, ConcludedQuiet DEF Joins, MayJoin
<1>10. CASE ChaosFails(r)
  BY <1>3, <1>7, <1>10, ChaosAt
<1>11. CASE RecallTool(r)
  BY <1>3, <1>7, <1>8, <1>9, <1>11, RecallAt
<1>12. CASE ToolEnds(r)
  BY <1>3, <1>7, <1>8, <1>9, <1>12, ToolEndsAt DEF TracedStep
<1>13. CASE Asks(r) \/ GraphGoesOn(r) \/ Rejected(r)
  <2>1. TraceStays(r) /\ run'[r].status # "completed"
    BY <1>13, ApprovalAt DEF Becomes, FailsWith
  <2> QED
    BY <1>3, <2>1
<1>14. CASE ExecutorStops(r)
  <2>1. /\ run[r].status = "suspended" /\ Streams(run[r].agent)
        /\ PcStays(r) /\ ModelStays(r) /\ TraceStays(r)
    BY <1>14, ApprovalAt DEF ExecutorStops
  <2>2. LlmSteps(r)' = {}
    BY <2>1 DEF LlmSteps, TraceStays, Concluded, Over
  <2>3. Here(Program(r), pc[r], "read") \/ Here(Program(r), pc[r], "probe")
    BY <2>1 DEF Busy, At
  <2>4. pc[r] < Len(Program(r)) /\ ~Passed(r, "model")
    <3>1. pc[r] \in Nat /\ Len(Program(r)) \in Nat
      BY ItsProgram DEF Types, RunTypes
    <3> QED
      BY <2>3, <3>1, ItsProgram DEF Orderly, Here, Passed, PassedAt
  <2>5. text'[r] = <<>>
    <3>1. ~llm[r].on
      BY <2>1 DEF Busy, At
    <3> QED
      BY <2>1, <2>4, <3>1 DEF Says, ModelStays
  <2>6. Program(r)' = Program(r)
    BY <1>0, ProgramStays
  <2> QED
    BY <1>0, <2>1, <2>2, <2>4, <2>5, <2>6 DEF Concluded, PcStays, SameAsked
<1>15. CASE CallModel(r) \/ ModelSpeaks(r) \/ ModelEnds(r) \/ ModelFails(r)
            \/ ReplayModel(r) \/ ReplayMisses(r) \/ StepLimit(r)
  <2>1. TraceStays(r)
    BY <1>15, CallModelAt, SpeaksAt, EndsAt, ReplayModelAt, MissesAt, LimitAt DEF ModelLeaves
  <2>2. run'[r].status # "completed"
    BY <1>1, <1>2, <1>15, CallModelAt, SpeaksAt, EndsAt, ReplayModelAt, MissesAt, LimitAt
  <2> QED
    BY <1>3, <2>1, <2>2
<1>16. CASE RecordModel(r) \/ Complete(r)
  BY <1>16, ConcludedAtTheEnd
<1> QED
  BY <1>4, <1>5, <1>6, <1>10, <1>11, <1>12, <1>13, <1>14, <1>15, <1>16 DEF AgentStepOf

-----------------------------------------------------------------------------
(* What a run was asked, and what of it a human may change.                 *)

\* Only a replay has a source, which began before and has its input; a human is
\* asked once; and before the program is built nothing was looked for.
Sourced(r) ==
  /\ r \in LiveRuns => ~Replays(r)
  /\ r \in ReplayRuns /\ run[r].status # "none" => Replays(r)
  /\ Replays(r) => run[run[r].source].status # "none" /\ run[r].input = run[run[r].source].input
  /\ run[r].changed => run[r].granted
  /\ run[r].status = "suspended" => ~run[r].granted
  /\ pc[r] = 0 => args[r] = Readme

\* A run that began never changes what was asked of it.
LEMMA AskedStays ==
  ASSUME Types, NEW r \in Runs, Stays(r) \/ Moves(r), run[r].status # "none"
  PROVE  SameAsked(r) /\ run'[r].status # "none"
BY DEF Stays, Moves, RunStays, SameAsked

LEMMA SourcedAtFirst == ASSUME Init, NEW r \in Runs PROVE Sourced(r)
BY DEF Init, NoRun, Sourced

\* Approval apart, a step leaves what a human said, and has arguments changed
\* only by a tool's call.
LEMMA OtherSteps ==
  ASSUME Types, NEW r \in Runs, Busy(r), AgentStepOf(r),
         ~(Asks(r) \/ GraphGoesOn(r) \/ ExecutorStops(r) \/ Rejected(r))
  PROVE  /\ run'[r].granted = run[r].granted /\ run'[r].changed = run[r].changed
         /\ run'[r].status # "suspended"
         /\ args'[r] = args[r] \/ pc[r] # 0
<1> DEFINE Fine == /\ run'[r].granted = run[r].granted /\ run'[r].changed = run[r].changed
                   /\ run'[r].status # "suspended"
           Still == args'[r] = args[r]
<1>1. Running(r) /\ RunStays(r) => Fine
  BY DEF RunStays
<1>2. ASSUME NEW code, FailsWith(r, code) \/ Becomes(r, "completed", code) PROVE Fine
  BY <1>2 DEF FailsWith, Becomes
<1>3. AtTool(r) => Running(r) /\ pc[r] # 0
  BY DEF AtTool, At
<1>4. WorkStays(r) => Still
  BY DEF WorkStays
<1>5. llm[r].on => Running(r)
  BY DEF Busy, At
<1> HIDE DEF Fine, Still
<1>6. CASE Build(r)
  BY <1>1, <1>4, <1>6, BuildAt DEF Fine, Still
<1>7. CASE Note(r)
  BY <1>1, <1>2, <1>4, <1>7, NoteAt DEF At, Fine, Still
<1>8. CASE CallTool(r) \/ ToolWorks(r)
  <2>1. RunStays(r) /\ WorkStays(r) /\ Running(r)
    BY <1>3, <1>8, CallToolAt, ToolWorksAt DEF Busy
  <2> QED
    BY <1>1, <1>4, <2>1 DEF Fine, Still
<1>9. CASE ChaosFails(r) \/ RecallTool(r) \/ ToolEnds(r)
  <2>1. /\ AtTool(r)
        /\ (\E code : Errored(r, code)) \/ (\E key, result : Returned(r, key, result))
    BY <1>9, ChaosAt, RecallAt, ToolEndsAt
  <2>2. RunStays(r) \/ \E code : FailsWith(r, code)
    BY <2>1 DEF Errored, Returned
  <2> QED
    <3>1. Fine
      BY <1>1, <1>2, <1>3, <2>1, <2>2
    <3> QED
      BY <1>3, <2>1, <3>1 DEF Fine
<1>10. CASE CallModel(r) \/ ModelSpeaks(r) \/ ReplayModel(r)
  <2>1. RunStays(r) /\ WorkStays(r) /\ Running(r)
    BY <1>5, <1>10, CallModelAt, SpeaksAt, ReplayModelAt DEF ModelLeaves, At
  <2> QED
    BY <1>1, <1>4, <2>1 DEF Fine, Still
<1>11. CASE ModelEnds(r) \/ ModelFails(r) \/ ReplayMisses(r) \/ StepLimit(r)
  <2>1. /\ WorkStays(r) /\ Running(r)
        /\ RunStays(r) \/ \E code : FailsWith(r, code)
    BY <1>5, <1>11, EndsAt, MissesAt, LimitAt DEF ModelLeaves, At
  <2> QED
    BY <1>1, <1>2, <1>4, <2>1 DEF Fine, Still
<1>12. CASE RecordModel(r) \/ Complete(r)
  BY <1>2, <1>4, <1>12, LastStepAt DEF Fine, Still
<1> QED
  BY <1>6, <1>7, <1>8, <1>9, <1>10, <1>11, <1>12 DEF AgentStepOf

LEMMA SourcedKept ==
  ASSUME Types, Types', NEW r \in Runs, Blank(r), Busy(r), Sourced(r),
         \/ Stays(r) \/ Begins(r) \/ (AgentStepOf(r) /\ Moves(r)),
         \A s \in Runs : run[s].status # "none" => SameAsked(s) /\ run'[s].status # "none"
  PROVE  Sourced(r)'
<1>1. CASE Stays(r)
  <2>1. run'[r] = run[r] /\ pc'[r] = pc[r] /\ args'[r] = args[r]
    BY <1>1 DEF Stays, RunStays, PcStays, WorkStays
  <2>2. run[r].source \in Runs \cup {None}
    BY DEF Types, RunTypes, RunRecords
  <2> QED
    BY <2>1, <2>2 DEF Sourced, SameAsked
<1>2. CASE Begins(r)
  <2>1. args'[r] = Readme /\ ~run'[r].changed /\ run'[r].status = "running"
    BY <1>2 DEF Begins, Blank, WorkStays, Asked
  <2>2. CASE r \in LiveRuns /\ run'[r].source = None
    BY <2>1, <2>2, RunsAssumption DEF Sourced
  <2>3. CASE /\ r \in ReplayRuns
             /\ \E s \in Runs : run[s].status # "none" /\ run'[r].source = s /\ run'[r].input = run[s].input
    BY <2>1, <2>3, RunsAssumption DEF Sourced, SameAsked
  <2> QED
    BY <1>2, <2>2, <2>3 DEF Begins
<1>3. CASE AgentStepOf(r) /\ Moves(r)
  <2>1. /\ SameAsked(r) /\ run[r].source \in Runs \cup {None} /\ run[r].status # "none"
        /\ pc'[r] = 0 => pc[r] = 0
    BY <1>3 DEF Types, RunTypes, RunRecords, Moves
  <2>2. CASE Asks(r) \/ GraphGoesOn(r) \/ ExecutorStops(r) \/ Rejected(r)
    <3>1. pc[r] # 0
      BY <2>2, ApprovalAt, AtHere DEF Busy, Here, Gated, At
    <3>2. pc'[r] # 0
      BY <2>1, <3>1
    <3>3. /\ run'[r].changed => run'[r].granted
          /\ run'[r].status = "suspended" => ~run'[r].granted
      <4>1. CASE Asks(r)
        BY <4>1, ApprovalAt DEF Sourced, Becomes, Gated
      <4>2. CASE GraphGoesOn(r) \/ ExecutorStops(r)
        BY <4>2, ApprovalAt
      <4>3. CASE Rejected(r)
        BY <4>3, ApprovalAt DEF Sourced, Becomes, FailsWith
      <4> QED
        BY <2>2, <4>1, <4>2, <4>3
    <3> QED
      BY <2>1, <3>2, <3>3 DEF Sourced, SameAsked
  <2>3. CASE ~(Asks(r) \/ GraphGoesOn(r) \/ ExecutorStops(r) \/ Rejected(r))
    <3>1. /\ run'[r].granted = run[r].granted /\ run'[r].changed = run[r].changed
          /\ run'[r].status # "suspended"
          /\ args'[r] = args[r] \/ pc[r] # 0
      BY <1>3, <2>3, OtherSteps
    <3> QED
      BY <2>1, <3>1 DEF Sourced, SameAsked
  <2> QED
    BY <2>2, <2>3
<1> QED
  BY <1>1, <1>2, <1>3

-----------------------------------------------------------------------------
(* The answer of a run and its usage.                                       *)

Told ==
  /\ Placed
  /\ \A r \in Runs : Sourced(r) /\ Says(r) /\ Concluded(r)

LEMMA ToldAtFirst == Init => Told
<1> SUFFICES ASSUME Init PROVE Told
  OBVIOUS
<1>1. Placed
  BY PlacedAtFirst
<1>2. ASSUME NEW r \in Runs PROVE Says(r) /\ Concluded(r)
  <2>1. /\ run[r].status = "none" /\ run[r] = NoRun /\ pc[r] = 0 /\ llm[r] = NoCall
        /\ text[r] = <<>> /\ metered[r] = None /\ trace[r] = <<>>
    BY DEF Init, TraceInit, ProviderInit, ToolsInit, NoRun
  <2>2. /\ NoCall.on = FALSE /\ NoCall.got = 0 /\ NoCall.said = <<>> /\ NoCall.retried = FALSE
        /\ NoCall.source = "mock"
    BY DEF NoCall
  <2>3. /\ ~llm[r].on /\ ~llm[r].retried /\ llm[r].got = 0 /\ llm[r].said = <<>>
    BY ONLY <2>1, <2>2
  <2>4. ~Passed(r, "model")
    BY <2>1 DEF Passed, PassedAt
  <2>5. LlmSteps(r) = {}
    BY <2>1 DEF LlmSteps, StepsOf
  <2> QED
    BY <2>1, <2>3, <2>4, <2>5 DEF Says, Concluded
<1> QED
  BY <1>1, <1>2, SourcedAtFirst DEF Told

LEMMA ToldKept == Told /\ [Next]_vars => Told'
<1> SUFFICES ASSUME Told, [Next]_vars PROVE Told'
  OBVIOUS
<1>1. /\ Placed /\ Placed' /\ Types /\ \A r \in Runs : Blank(r) /\ Busy(r)
      /\ \A r \in Runs : Sourced(r) /\ Says(r) /\ Concluded(r)
  BY PlacedKept DEF Told, Placed
<1>2. /\ Types' /\ config' = config
      /\ \/ \A q \in Runs : Stays(q)
         \/ \E r \in Runs :
              /\ Begins(r) \/ (AgentStepOf(r) /\ Moves(r))
              /\ \A q \in Runs : q # r => Stays(q)
  BY <1>1, NextCases
<1>3. \A r \in Runs : Stays(r) \/ Begins(r) \/ (AgentStepOf(r) /\ Moves(r))
  BY <1>2
<1>4. \A s \in Runs : run[s].status # "none" => SameAsked(s) /\ run'[s].status # "none"
  BY <1>1, <1>3, AskedStays DEF Begins
<1>5. ASSUME NEW r \in Runs PROVE Sourced(r)' /\ Says(r)' /\ Concluded(r)'
  <2>1. Sourced(r)'
    BY <1>1, <1>2, <1>3, <1>4, SourcedKept
  <2>2. CASE Stays(r)
    BY <1>1, <1>2, <2>1, <2>2, SaysStays, ConcludedStays
  <2>3. CASE Begins(r)
    BY <1>1, <1>2, <2>1, <2>3, SaysBegins, ConcludedBegins
  <2>4. CASE AgentStepOf(r) /\ Moves(r)
    BY <1>1, <2>1, <2>4, SaysKept, ConcludedKept
  <2> QED
    BY <1>3, <2>2, <2>3, <2>4
<1> QED
  BY <1>1, <1>5 DEF Told

LEMMA ToldInvariant == Spec => []Told
BY ToldAtFirst, ToldKept, PTL DEF Spec

LEMMA ToldOutput == Told => OutputRecorded
<1> SUFFICES ASSUME Told, NEW r \in Runs, run[r].status = "completed"
             PROVE  IF SaidNothing(r) \/ pc[r] < Len(Program(r))
                    THEN LlmSteps(r) = {}
                    ELSE \E i \in DOMAIN trace[r] :
                           LlmSteps(r) = {i} /\ trace[r][i].out = Preview(text[r])
  BY DEF OutputRecorded
<1>1. Types /\ Concluded(r)
  BY DEF Told, Placed
<1>2. pc[r] \in Nat /\ Len(Program(r)) \in Nat
  BY <1>1, ItsProgram DEF Types, RunTypes
<1>3. CASE LlmSteps(r) = {}
  BY <1>1, <1>2, <1>3 DEF Concluded
<1>4. CASE LlmSteps(r) # {}
  <2>1. PICK i \in LlmSteps(r) : TRUE
    BY <1>4
  <2>2. /\ LlmSteps(r) = {i} /\ trace[r][i] = ModelStep(r) /\ text[r] = Reply(r)
        /\ ~SaidNothing(r) /\ ~(pc[r] < Len(Program(r)))
    BY <1>1, <1>2, <1>4, <2>1 DEF Concluded
  <2>3. i \in DOMAIN trace[r] /\ trace[r][i].out = Preview(text[r])
    BY <2>1, <2>2, AnswerIsAnswer DEF LlmSteps, StepsOf
  <2> QED
    BY <2>2, <2>3
<1> QED
  BY <1>3, <1>4

LEMMA ToldUsage == Told => UsagePerCall
<1> SUFFICES ASSUME Told, NEW r \in LiveRuns, NEW i \in LlmSteps(r)
             PROVE  LET usage == trace[r][i].usage
                    IN IF config.privacy /\ Streams(run[r].agent) THEN usage = None
                       ELSE /\ usage # None
                            /\ text[r] # <<>> /\ ~llm[r].retried => usage = Len(text[r])
                            /\ llm[r].retried => usage <= Len(text[r])
  BY DEF UsagePerCall
<1>1. r \in Runs /\ Types /\ Says(r) /\ Concluded(r) /\ ~Replays(r)
  BY DEF Told, Placed, Runs, Sourced
<1>2. trace[r][i].usage = UsageOf(r) /\ text[r] = Reply(r)
  BY <1>1, AnswerIsAnswer DEF Concluded
<1>3. /\ llm[r].got <= Len(llm[r].said)
      /\ llm[r].source = "primary" /\ ~llm[r].retried => llm[r].got = Len(llm[r].said)
      /\ llm[r].retried => llm[r].kind = "gemini"
  BY <1>1 DEF Says
<1>13. run[r].agent # "hitl-demo" =>
         metered[r] = CollectUsage(r) /\ text[r] = llm[r].said
  BY <1>1, <1>2 DEF Says, Concluded, Reply
<1>4. /\ llm[r].said \in Seq(Words) /\ content[r] \in Seq(Words)
      /\ llm[r].got \in Nat /\ llm[r].source \in Sources
      /\ None \notin Nat /\ config.privacy \in BOOLEAN
  BY <1>1, CallsAssumption DEF Types, RunTypes, ModelTypes, ModelCalls, SharedTypes
<1> DEFINE n == Len(text[r])
<1>5. n \in Nat /\ (text[r] # <<>> => n # 0)
  BY <1>2, <1>4 DEF Reply
<1>6. UsageOf(r) = IF PopUsage(r) = None /\ Graph(run[r].agent) THEN n ELSE PopUsage(r)
  BY <1>1, <1>2 DEF UsageOf, EstimatedUsage
<1>7. CASE config.privacy /\ Streams(run[r].agent)
  BY <1>2, <1>6, <1>7 DEF PopUsage
<1>8. CASE PopUsage(r) = None /\ ~Streams(run[r].agent)
  <2>1. UsageOf(r) = n
    BY <1>6, <1>8
  <2> HIDE DEF n
  <2>2. trace[r][i].usage = n /\ n \in Nat /\ n # None /\ n <= n
    BY <1>2, <1>4, <1>5, <2>1
  <2> QED
    BY <1>8, <2>2 DEF n
<1>9. CASE ~config.privacy /\ run[r].agent # "hitl-demo"
  <2>1. UsageOf(r) = CollectUsage(r)
    <3>1. PopUsage(r) = CollectUsage(r) /\ CollectUsage(r) # None
      BY <1>1, <1>4, <1>9, <1>13, CollectTyped DEF PopUsage, Types
    <3> QED
      BY <1>6, <3>1
  <2>2. CollectUsage(r) \in Nat
    BY <1>1, CollectTyped DEF Types
  <2>3. /\ text[r] # <<>> /\ ~llm[r].retried => CollectUsage(r) = n
        /\ llm[r].retried => CollectUsage(r) <= n
    <3>1. llm[r].got <= n /\ n = Len(llm[r].said) /\ llm[r].got \in Nat
      BY <1>2, <1>3, <1>4, <1>9, <1>13
    <3>2. CASE llm[r].source = "mock"
      <4>1. CollectUsage(r) = n
        BY <1>9, <1>13, <3>2 DEF CollectUsage, EstimatedUsage
      <4> QED
        BY <1>5, <4>1
    <3>3. CASE llm[r].source = "primary"
      <4>1. CASE llm[r].retried
        <5>1. CollectUsage(r) = llm[r].got
          BY <1>3, <3>3, <4>1 DEF CollectUsage, GeminiUsage
        <5> QED
          BY <3>1, <4>1, <5>1
      <4>2. CASE ~llm[r].retried
        <5>1. llm[r].got = n
          BY <1>3, <3>1, <3>3, <4>2
        <5>2. CollectUsage(r) = llm[r].got \/ (llm[r].got = 0 /\ llm[r].kind = "anthropic")
          BY <3>3 DEF CollectUsage, GeminiUsage, OpenAIUsage, AnthropicUsage
        <5> QED
          BY <1>5, <4>2, <5>1, <5>2
      <4> QED
        BY <4>1, <4>2
    <3> QED
      BY <1>4, <3>2, <3>3 DEF Sources
  <2>4. trace[r][i].usage = CollectUsage(r) /\ CollectUsage(r) # None
    BY <1>2, <1>4, <2>1, <2>2
  <2> QED
    BY <1>9, <2>3, <2>4
<1>10. CASE ~Streams(run[r].agent) /\ (config.privacy \/ run[r].agent = "hitl-demo")
  <2>1. PopUsage(r) = None
    BY <1>1, <1>10 DEF PopUsage, Says
  <2> QED
    BY <1>8, <1>10, <2>1
<1> QED
  BY <1>4, <1>7, <1>9, <1>10

\* What the client was told is what the trace has: a run that completed recorded
\* one answer, with the text that was streamed or told, whatever its providers
\* broke off and said again; hitl-demo so records what its action returned.
THEOREM OutputIsRecorded == Spec => []OutputRecorded
BY ToldInvariant, ToldOutput, PTL

\* What is metered of a live run is what was said, piece by piece, but for what
\* Gemini said before it was asked again and for what the privacy proxy hides; of
\* hitl-demo, which asks no model, it is the estimate of its text.
THEOREM UsageIsMetered == Spec => []UsagePerCall
BY ToldInvariant, ToldUsage, PTL

-----------------------------------------------------------------------------
(* What becomes of a tool call.                                             *)

\* The step of a program that makes a call.
LabelOf(key) ==
  IF key[1] = "search_workspace" THEN "search" ELSE IF key[1] = "read_file" THEN "read" ELSE "probe"

\* A program has made the calls of the steps behind it, and the last one, if that
\* is over.
MadeAt(program, p, label, over) ==
  PassedAt(program, p, label) \/ (Here(program, p, label) /\ over)

\* Every call has a row, and a step, of its own.
RowsOnce(r) ==
  /\ \A i \in DOMAIN rows[r] :
       MadeAt(Program(r), pc[r], LabelOf(rows[r][i].key),
              run[r].status = "failed" \/ call[r].at \in {"trace", "raised"})
  /\ \A i, j \in DOMAIN rows[r] : LabelOf(rows[r][i].key) = LabelOf(rows[r][j].key) => i = j

StepsOnce(r) ==
  /\ \A i \in ToolSteps(r) :
       MadeAt(Program(r), pc[r], LabelOf(trace[r][i].key), run[r].status = "failed")
  /\ \A i, j \in ToolSteps(r) : LabelOf(trace[r][i].key) = LabelOf(trace[r][j].key) => i = j

\* A call that is to be recorded is booked.
Row(key, result, code) == [key |-> key, result |-> result, code |-> code]

ToBeTraced(r) ==
  call[r].at = "trace" =>
    /\ call[r].code = None => call[r].result # <<>>
    /\ \E i \in DOMAIN rows[r] : rows[r][i] = Row(Key(call[r]), call[r].result, call[r].code)

\* What was heard is recorded, and what is recorded is booked.
OneFate(r) ==
  /\ \A i \in DOMAIN heard[r] : \E j \in ToolSteps(r) :
       /\ trace[r][j].key = heard[r][i].key /\ trace[r][j].code = None
       /\ trace[r][j].out = Preview(heard[r][i].result)
  /\ \A j \in ToolSteps(r) : run[r].mock \/ \E i \in DOMAIN rows[r] :
       /\ rows[r][i].key = trace[r][j].key /\ rows[r][i].code = trace[r][j].code
       /\ trace[r][j].code = None => Preview(rows[r][i].result) = trace[r][j].out

Fated(r) == RowsOnce(r) /\ StepsOnce(r) /\ ToBeTraced(r) /\ OneFate(r)

LEMMA AppendOne ==
  ASSUME NEW S, NEW s \in Seq(S), NEW e
  PROVE  /\ DOMAIN Append(s, e) = DOMAIN s \cup {Len(s) + 1} /\ Len(s) + 1 \notin DOMAIN s
         /\ \A i \in DOMAIN s : Append(s, e)[i] = s[i]
         /\ Append(s, e)[Len(s) + 1] = e
<1> DEFINE n == Len(s)
<1>1. n \in Nat /\ DOMAIN s = 1 .. n /\ DOMAIN Append(s, e) = 1 .. n + 1
  OBVIOUS
<1>2. (\A i \in DOMAIN s : Append(s, e)[i] = s[i]) /\ Append(s, e)[n + 1] = e
  OBVIOUS
<1> HIDE DEF n
<1>3. 1 .. n + 1 = (1 .. n) \cup {n + 1} /\ n + 1 \notin 1 .. n
  BY <1>1
<1> QED
  BY ONLY <1>1, <1>2, <1>3 DEF n

\* A call is made at the step of its tool.
LEMMA ToolLabel ==
  ASSUME NEW r \in Runs, AtTool(r)
  PROVE  LET key == <<Tool(r), Arguments(r)>>
         IN At(r, LabelOf(key)) /\ LabelOf(key) # "note" /\ LabelOf(key) \in {"search", "read", "probe"}
<1> DEFINE key == <<Tool(r), Arguments(r)>>
<1>0. key[1] = Tool(r)
  OBVIOUS
<1> HIDE DEF key
<1>1. CASE At(r, "search")
  BY <1>0, <1>1 DEF Tool, LabelOf
<1>2. CASE ~At(r, "search") /\ At(r, "read")
  BY <1>0, <1>2 DEF Tool, LabelOf
<1>3. CASE ~At(r, "search") /\ ~At(r, "read")
  <2>1. Tool(r) \in {"hitl_probe", "get_stock"} /\ At(r, "probe")
    BY <1>3 DEF Tool, AtTool
  <2> QED
    BY <1>0, <2>1 DEF LabelOf
<1> QED
  BY <1>1, <1>2, <1>3 DEF key

LEMMA MadeStays ==
  ASSUME NEW program, NEW p, NEW label, NEW over, NEW after, over => after,
         MadeAt(program, p, label, over)
  PROVE  MadeAt(program, p, label, after)
BY DEF MadeAt

LEMMA MadeGoesOn ==
  ASSUME NEW program, Orderly(program), NEW p \in 0 .. Len(program), NEW label, NEW over, NEW after,
         MadeAt(program, p, label, over)
  PROVE  MadeAt(program, p + 1, label, after)
BY LeftBehind DEF MadeAt

\* What a call that is made now is not yet in.
LEMMA NotMadeYet ==
  ASSUME Types, NEW r \in Runs, AtTool(r), NEW label, MadeAt(Program(r), pc[r], label, FALSE)
  PROVE  label # LabelOf(<<Tool(r), Arguments(r)>>)
<1>1. Passed(r, label)
  BY DEF MadeAt, Passed
<1> QED
  BY <1>1, ToolLabel, NotPassed

\* A run whose rows stay, and whose last call is not forgotten before it goes on.
LEMMA RowsOnceQuiet ==
  ASSUME Types, NEW r \in Runs, Busy(r), RowsOnce(r), SameAsked(r), RowsStay(r),
         run[r].status # "failed",
         \/ PcGoesOn(r)
         \/ PcStays(r) /\ (run'[r].status = "failed" \/ CallStays(r) \/ call[r].at \in {"none", "handler"})
  PROVE  RowsOnce(r)'
<1> DEFINE before == run[r].status = "failed" \/ call[r].at \in {"trace", "raised"}
           after == run'[r].status = "failed" \/ call'[r].at \in {"trace", "raised"}
<1>1. /\ Program(r)' = Program(r) /\ rows'[r] = rows[r]
      /\ Orderly(Program(r)) /\ pc[r] \in 0 .. Len(Program(r))
  BY ProgramStays, ItsProgram DEF RowsStay, Busy
<1>2. ASSUME NEW i \in DOMAIN rows[r]
      PROVE  MadeAt(Program(r), pc'[r], LabelOf(rows[r][i].key), after)
  <2>1. MadeAt(Program(r), pc[r], LabelOf(rows[r][i].key), before)
    BY DEF RowsOnce
  <2>2. CASE PcGoesOn(r)
    <3>1. MadeAt(Program(r), pc[r] + 1, LabelOf(rows[r][i].key), after)
      BY ONLY <1>1, <2>1, MadeGoesOn
    <3> QED
      BY <2>2, <3>1 DEF PcGoesOn
  <2>3. CASE PcStays(r) /\ (before => after)
    BY <2>1, <2>3, MadeStays DEF PcStays
  <2> QED
    BY <2>2, <2>3 DEF CallStays
<1> QED
  BY <1>1, <1>2 DEF RowsOnce

LEMMA RowsOnceBooks ==
  ASSUME Types, NEW r \in Runs, Busy(r), RowsOnce(r), call[r].at = "handler", RunStays(r), PcStays(r),
         NEW result, NEW code, BookedAt(r, result, code), call'[r].at \in {"trace", "raised"}
  PROVE  RowsOnce(r)'
<1> DEFINE key == <<Tool(r), Arguments(r)>>
           after == run'[r].status = "failed" \/ call'[r].at \in {"trace", "raised"}
           new == Row(key, result, code)
           n == Len(rows[r]) + 1
<1>1. AtTool(r) /\ Key(call[r]) = key /\ run[r].status = "running"
  BY DEF Busy, AtTool, At
<1>2. Program(r)' = Program(r) /\ pc'[r] = pc[r] /\ after
  BY DEF RunStays, PcStays
<1>3. rows'[r] = Append(rows[r], new)
  BY <1>1 DEF BookedAt, Row
<1>4. rows[r] \in Seq(RowRecords)
  BY DEF Types, SharedTypes
<1> HIDE DEF new
<1>5. /\ DOMAIN rows'[r] = DOMAIN rows[r] \cup {n} /\ n \notin DOMAIN rows[r]
      /\ \A i \in DOMAIN rows[r] : rows'[r][i] = rows[r][i]
      /\ rows'[r][n] = new
  BY <1>3, <1>4, AppendOne
<1>6. new.key = key
  BY DEF new, Row
<1>7. ASSUME NEW i \in DOMAIN rows[r]
      PROVE  /\ MadeAt(Program(r), pc[r], LabelOf(rows[r][i].key), after)
             /\ LabelOf(rows[r][i].key) # LabelOf(key)
  <2>1. MadeAt(Program(r), pc[r], LabelOf(rows[r][i].key), FALSE)
    BY <1>1 DEF RowsOnce, MadeAt
  <2> QED
    BY <1>1, <2>1, MadeStays, NotMadeYet
<1>8. MadeAt(Program(r), pc[r], LabelOf(key), after)
  BY <1>1, <1>2, ToolLabel, AtHere DEF MadeAt
<1> HIDE DEF key, n, after
<1>9. \A i \in DOMAIN rows'[r] : MadeAt(Program(r), pc[r], LabelOf(rows'[r][i].key), after)
  BY <1>5, <1>6, <1>7, <1>8
<1>10. \A i, j \in DOMAIN rows'[r] :
         LabelOf(rows'[r][i].key) = LabelOf(rows'[r][j].key) => i = j
  BY <1>5, <1>6, <1>7 DEF RowsOnce
<1> QED
  BY <1>2, <1>9, <1>10 DEF RowsOnce, after

\* A run that records no call, ...
LEMMA StepsOnceQuiet ==
  ASSUME Types, NEW r \in Runs, Busy(r), StepsOnce(r), SameAsked(r), run[r].status # "failed",
         PcGoesOn(r) \/ PcStays(r),
         NEW step, step.type # "tool", trace'[r] \in {trace[r], Append(trace[r], step)}
  PROVE  /\ StepsOnce(r)' /\ ToolSteps(r)' = ToolSteps(r)
         /\ \A i \in ToolSteps(r) : trace'[r][i] = trace[r][i]
<1>1. trace[r] \in Seq(Steps)
  BY DEF Types, TraceTypes
<1>2. StepsOf(trace'[r], "tool") = StepsOf(trace[r], "tool")
  <2> DEFINE steps == trace[r]
  <2>1. steps \in Seq(Steps) /\ trace'[r] \in {steps, Append(steps, step)}
    BY <1>1
  <2> HIDE DEF steps
  <2>2. StepsOf(Append(steps, step), "tool") = StepsOf(steps, "tool")
    BY <2>1, StepsGrow
  <2> QED
    BY <2>1, <2>2 DEF steps
<1>3. ToolSteps(r)' = ToolSteps(r)
  BY <1>2 DEF ToolSteps
<1>4. \A i \in ToolSteps(r) : trace'[r][i] = trace[r][i]
  BY <1>1, StepsGrow DEF ToolSteps, StepsOf
<1>5. /\ Program(r)' = Program(r) /\ Orderly(Program(r)) /\ pc[r] \in 0 .. Len(Program(r))
  BY ProgramStays, ItsProgram DEF Busy
<1> DEFINE before == run[r].status = "failed"
           after == run'[r].status = "failed"
<1>6. ASSUME NEW i \in ToolSteps(r)
      PROVE  MadeAt(Program(r), pc'[r], LabelOf(trace[r][i].key), after)
  <2>1. MadeAt(Program(r), pc[r], LabelOf(trace[r][i].key), before)
    BY DEF StepsOnce
  <2>2. CASE PcGoesOn(r)
    <3>1. MadeAt(Program(r), pc[r] + 1, LabelOf(trace[r][i].key), after)
      BY ONLY <1>5, <2>1, MadeGoesOn
    <3> QED
      BY <2>2, <3>1 DEF PcGoesOn
  <2>3. CASE PcStays(r)
    BY <2>1, <2>3, MadeStays DEF PcStays
  <2> QED
    BY <2>2, <2>3
<1>7. StepsOnce(r)'
  BY <1>3, <1>4, <1>5, <1>6 DEF StepsOnce
<1> QED
  BY <1>3, <1>4, <1>7

\* ... and one that records one, or has the commit of it fail.
LEMMA StepsOnceMore ==
  ASSUME Types, NEW r \in Runs, Busy(r), StepsOnce(r), SameAsked(r), AtTool(r),
         PcGoesOn(r) \/ (PcStays(r) /\ run'[r].status = "failed"),
         NEW step, step.type = "tool", step.key = <<Tool(r), Arguments(r)>>,
         trace'[r] = Append(trace[r], step)
  PROVE  /\ StepsOnce(r)' /\ ToolSteps(r)' = ToolSteps(r) \cup {Len(trace[r]) + 1}
         /\ trace'[r][Len(trace[r]) + 1] = step
         /\ \A i \in ToolSteps(r) : trace'[r][i] = trace[r][i]
<1> DEFINE key == <<Tool(r), Arguments(r)>>
           n == Len(trace[r]) + 1
           after == run'[r].status = "failed"
<1>1. trace[r] \in Seq(Steps) /\ run[r].status = "running"
  BY DEF Types, TraceTypes, AtTool, At
<1>2. StepsOf(trace'[r], "tool") = StepsOf(trace[r], "tool") \cup {n}
  <2> DEFINE steps == trace[r]
  <2>1. steps \in Seq(Steps) /\ trace'[r] = Append(steps, step)
    BY <1>1
  <2> HIDE DEF steps
  <2>2. StepsOf(Append(steps, step), "tool") = StepsOf(steps, "tool") \cup {Len(steps) + 1}
    BY <2>1, StepsGrow
  <2> QED
    BY <2>1, <2>2 DEF steps
<1>3. ToolSteps(r)' = ToolSteps(r) \cup {n}
  BY <1>2 DEF ToolSteps
<1>4. (\A i \in ToolSteps(r) : trace'[r][i] = trace[r][i]) /\ trace'[r][n] = step
  BY <1>1, StepsGrow DEF ToolSteps, StepsOf
<1>5. n \notin ToolSteps(r)
  BY <1>1, AppendOne DEF ToolSteps, StepsOf
<1>6. /\ Program(r)' = Program(r) /\ Orderly(Program(r)) /\ pc[r] \in 0 .. Len(Program(r))
  BY ProgramStays, ItsProgram DEF Busy
<1>7. ASSUME NEW label, MadeAt(Program(r), pc[r], label, TRUE)
      PROVE  MadeAt(Program(r), pc'[r], label, after)
  <2>1. CASE PcGoesOn(r)
    <3>1. MadeAt(Program(r), pc[r] + 1, label, after)
      BY ONLY <1>6, <1>7, MadeGoesOn
    <3> QED
      BY <2>1, <3>1 DEF PcGoesOn
  <2>2. CASE PcStays(r) /\ after
    BY <1>7, <2>2, MadeStays DEF PcStays
  <2> QED
    BY <2>1, <2>2
<1>8. ASSUME NEW i \in ToolSteps(r)
      PROVE  /\ MadeAt(Program(r), pc'[r], LabelOf(trace[r][i].key), after)
             /\ LabelOf(trace[r][i].key) # LabelOf(key)
  <2>1. MadeAt(Program(r), pc[r], LabelOf(trace[r][i].key), FALSE)
    BY <1>1 DEF StepsOnce, MadeAt
  <2> QED
    BY <1>7, <2>1, MadeStays, NotMadeYet
<1>9. MadeAt(Program(r), pc'[r], LabelOf(key), after)
  <2>1. MadeAt(Program(r), pc[r], LabelOf(key), TRUE)
    BY ToolLabel, AtHere DEF MadeAt
  <2> QED
    BY <1>7, <2>1
<1> HIDE DEF key, n, after
<1>10. step.key = key
  BY DEF key
<1>11. \A i \in ToolSteps(r)' : MadeAt(Program(r), pc'[r], LabelOf(trace'[r][i].key), after)
  BY <1>3, <1>4, <1>8, <1>9, <1>10
<1>12. \A i, j \in ToolSteps(r)' :
         LabelOf(trace'[r][i].key) = LabelOf(trace'[r][j].key) => i = j
  BY <1>3, <1>4, <1>8, <1>10 DEF StepsOnce
<1>13. StepsOnce(r)'
  BY <1>6, <1>11, <1>12 DEF StepsOnce, after
<1> QED
  BY <1>3, <1>4, <1>13 DEF n

\* A step that makes no record of a call.
LEMMA FatedQuiet ==
  ASSUME Types, NEW r \in Runs, Busy(r), Fated(r), Moves(r),
         RowsStay(r), HeardStays(r), PcGoesOn(r) \/ PcStays(r),
         \/ CallStays(r)
         \/ /\ call'[r].at # "trace"
            /\ call[r].at \in {"none", "handler"} \/ PcGoesOn(r) \/ run'[r].status = "failed",
         NEW step, step.type # "tool", trace'[r] \in {trace[r], Append(trace[r], step)}
  PROVE  Fated(r)'
<1>1. SameAsked(r) /\ run[r].status # "failed"
  BY DEF Moves
<1>2. RowsOnce(r) /\ StepsOnce(r) /\ ToBeTraced(r) /\ OneFate(r)
  BY DEF Fated
<1>3. RowsOnce(r)'
  BY <1>1, <1>2, RowsOnceQuiet
<1>4. /\ StepsOnce(r)' /\ ToolSteps(r)' = ToolSteps(r)
      /\ \A i \in ToolSteps(r) : trace'[r][i] = trace[r][i]
  BY <1>1, <1>2, StepsOnceQuiet
<1>5. ToBeTraced(r)'
  <2>1. CASE CallStays(r)
    BY <1>2, <2>1 DEF ToBeTraced, CallStays, RowsStay
  <2>2. CASE call'[r].at # "trace"
    BY <2>2 DEF ToBeTraced
  <2> QED
    BY <2>1, <2>2
<1>6. OneFate(r)'
  BY <1>1, <1>2, <1>4 DEF OneFate, RowsStay, HeardStays, SameAsked
<1> QED
  BY <1>3, <1>4, <1>5, <1>6 DEF Fated

LEMMA QuietTrace ==
  ASSUME NEW r, TraceStays(r)
  PROVE  \E step : step.type # "tool" /\ trace'[r] \in {trace[r], Append(trace[r], step)}
<1>1. AgentStep(run[r].agent).type # "tool"
  BY NoteIsNote
<1> QED
  BY <1>1 DEF TraceStays

LEMMA FatedBooks ==
  ASSUME Types, NEW r \in Runs, Busy(r), Fated(r), Moves(r), call[r].at = "handler",
         RunStays(r), PcStays(r), HeardStays(r), TraceStays(r),
         NEW result, NEW code, BookedAt(r, result, code), call'[r].at \in {"trace", "raised"},
         call'[r].at = "trace" => LeftAt(r, "trace", result, code) /\ (code = None => result # <<>>)
  PROVE  Fated(r)'
<1>1. SameAsked(r) /\ run[r].status # "failed"
  BY DEF Moves
<1>2. RowsOnce(r) /\ StepsOnce(r) /\ OneFate(r)
  BY DEF Fated
<1>3. RowsOnce(r)'
  BY <1>2, RowsOnceBooks
<1>4. /\ StepsOnce(r)' /\ ToolSteps(r)' = ToolSteps(r)
      /\ \A i \in ToolSteps(r) : trace'[r][i] = trace[r][i]
  BY <1>1, <1>2, StepsOnceQuiet, QuietTrace
<1> DEFINE new == Row(Key(call[r]), result, code)
           n == Len(rows[r]) + 1
<1>5. rows'[r] = Append(rows[r], new) /\ rows[r] \in Seq(RowRecords)
  BY DEF BookedAt, Row, Types, SharedTypes
<1> HIDE DEF new
<1>6. /\ DOMAIN rows'[r] = DOMAIN rows[r] \cup {n}
      /\ \A i \in DOMAIN rows[r] : rows'[r][i] = rows[r][i]
      /\ rows'[r][n] = new
  BY <1>5, AppendOne
<1> HIDE DEF n
<1>7. ToBeTraced(r)'
  <2> SUFFICES ASSUME call'[r].at = "trace" PROVE ToBeTraced(r)'
    BY DEF ToBeTraced
  <2>1. /\ Key(call'[r]) = Key(call[r]) /\ call'[r].result = result /\ call'[r].code = code
        /\ code = None => result # <<>>
    BY DEF LeftAt
  <2>2. n \in DOMAIN rows'[r] /\ rows'[r][n] = Row(Key(call'[r]), call'[r].result, call'[r].code)
    BY <1>6, <2>1 DEF new
  <2> QED
    BY <2>1, <2>2 DEF ToBeTraced
<1>8. OneFate(r)'
  <2>1. run'[r].mock = run[r].mock /\ heard'[r] = heard[r] /\ (run'[r].mock <=> run[r].mock)
    BY <1>1 DEF SameAsked, HeardStays
  <2> QED
    BY <1>2, <1>4, <1>6, <2>1 DEF OneFate
<1> QED
  BY <1>3, <1>4, <1>7, <1>8 DEF Fated

\* A step that records a call.
LEMMA FatedRecords ==
  ASSUME Types, NEW r \in Runs, Busy(r), Fated(r), Moves(r), AtTool(r), RowsStay(r), call'[r] = NoTool,
         PcGoesOn(r) \/ (PcStays(r) /\ run'[r].status = "failed"),
         NEW result \in Seq(Words), NEW code \in Codes \cup {None},
         trace'[r] = Append(trace[r], ToolStep(<<Tool(r), Arguments(r)>>, result, code)),
         \/ HeardStays(r)
         \/ /\ code = None
            /\ heard'[r] = Append(heard[r], [key |-> <<Tool(r), Arguments(r)>>, result |-> result]),
         run[r].mock \/ \E i \in DOMAIN rows[r] : rows[r][i] = Row(<<Tool(r), Arguments(r)>>, result, code)
  PROVE  Fated(r)'
<1> DEFINE key == <<Tool(r), Arguments(r)>>
           step == ToolStep(key, result, code)
           n == Len(trace[r]) + 1
<1>1. SameAsked(r) /\ run[r].status # "failed" /\ NoTool.at = "none"
  BY DEF Moves, NoTool
<1>2. RowsOnce(r) /\ StepsOnce(r) /\ OneFate(r)
  BY DEF Fated
<1>3. /\ step.type = "tool" /\ step.key = key /\ step.code = code
      /\ code = None => step.out = Preview(result)
  BY KeyTyped, OutcomeTyped DEF Types
<1>4. ToBeTraced(r)' /\ (call'[r].at \notin {"trace", "raised"})
  BY <1>1 DEF ToBeTraced
<1>5. RowsOnce(r)'
  <2>1. PcGoesOn(r) \/ (PcStays(r) /\ run'[r].status = "failed")
    OBVIOUS
  <2> QED
    BY <1>1, <1>2, <2>1, RowsOnceQuiet
<1> HIDE DEF step
<1>6. trace'[r] = Append(trace[r], step)
  BY DEF step
<1>7. /\ StepsOnce(r)' /\ ToolSteps(r)' = ToolSteps(r) \cup {n}
      /\ trace'[r][n] = step
      /\ \A i \in ToolSteps(r) : trace'[r][i] = trace[r][i]
  BY <1>1, <1>2, <1>3, <1>6, StepsOnceMore
<1> HIDE DEF n
<1>8. heard[r] \in Seq(HeardRecords)
  BY DEF Types, ToolTypes
<1>9. ASSUME NEW i \in DOMAIN heard'[r]
      PROVE  \E j \in ToolSteps(r)' :
               /\ trace'[r][j].key = heard'[r][i].key /\ trace'[r][j].code = None
               /\ trace'[r][j].out = Preview(heard'[r][i].result)
  <2>1. CASE i \in DOMAIN heard[r] /\ heard'[r][i] = heard[r][i]
    <3>1. PICK j \in ToolSteps(r) :
            /\ trace[r][j].key = heard[r][i].key /\ trace[r][j].code = None
            /\ trace[r][j].out = Preview(heard[r][i].result)
      BY <1>2, <2>1 DEF OneFate
    <3>2. j \in ToolSteps(r)' /\ trace'[r][j] = trace[r][j]
      BY <1>7
    <3> QED
      BY <2>1, <3>1, <3>2
  <2>2. CASE code = None /\ heard'[r][i] = [key |-> key, result |-> result]
    <3>1. n \in ToolSteps(r)' /\ trace'[r][n] = step
      BY <1>7
    <3>2. heard'[r][i].key = key /\ heard'[r][i].result = result
      BY <2>2
    <3> QED
      BY <1>3, <2>2, <3>1, <3>2
  <2>3. \/ i \in DOMAIN heard[r] /\ heard'[r][i] = heard[r][i]
        \/ code = None /\ heard'[r][i] = [key |-> key, result |-> result]
    <3>1. CASE HeardStays(r)
      BY <3>1 DEF HeardStays
    <3>2. CASE code = None /\ heard'[r] = Append(heard[r], [key |-> key, result |-> result])
      <4> DEFINE new == [key |-> key, result |-> result]
                 others == heard[r]
      <4>1. others \in Seq(HeardRecords) /\ heard'[r] = Append(others, new)
        BY <1>8, <3>2
      <4> HIDE DEF new, others
      <4>2. i \in DOMAIN others \cup {Len(others) + 1}
        BY <4>1, AppendOne
      <4>3. \/ i \in DOMAIN others /\ heard'[r][i] = others[i]
            \/ heard'[r][i] = new
        BY <4>1, <4>2, AppendOne
      <4> QED
        BY <3>2, <4>3 DEF new, others
    <3> QED
      BY <3>1, <3>2
  <2> QED
    BY <2>1, <2>2, <2>3
<1>10. ASSUME NEW j \in ToolSteps(r)', ~run'[r].mock
       PROVE  \E i \in DOMAIN rows'[r] :
                /\ rows'[r][i].key = trace'[r][j].key /\ rows'[r][i].code = trace'[r][j].code
                /\ trace'[r][j].code = None => Preview(rows'[r][i].result) = trace'[r][j].out
  <2>1. rows'[r] = rows[r] /\ ~run[r].mock
    BY <1>1, <1>10 DEF RowsStay, SameAsked
  <2>2. CASE j \in ToolSteps(r)
    BY <1>2, <1>7, <2>1, <2>2 DEF OneFate
  <2>3. CASE j = n
    <3>1. PICK i \in DOMAIN rows[r] : rows[r][i] = Row(key, result, code)
      BY <2>1
    <3>2. rows[r][i].key = key /\ rows[r][i].code = code /\ rows[r][i].result = result
      BY <3>1 DEF Row
    <3> QED
      BY <1>3, <1>7, <2>1, <2>3, <3>2
  <2> QED
    BY <1>7, <2>2, <2>3
<1>11. OneFate(r)'
  BY <1>9, <1>10 DEF OneFate
<1> QED
  BY <1>4, <1>5, <1>7, <1>11 DEF Fated

LEMMA FatedStays == ASSUME NEW r, Stays(r), Fated(r) PROVE Fated(r)'
<1>1. /\ run'[r] = run[r] /\ pc'[r] = pc[r] /\ call'[r] = call[r] /\ rows'[r] = rows[r]
      /\ heard'[r] = heard[r] /\ trace'[r] = trace[r]
  BY DEF Stays, RunStays, PcStays, CallStays, RowsStay, HeardStays, TraceStays
<1>2. ToolSteps(r)' = ToolSteps(r)
  BY <1>1 DEF ToolSteps
<1> QED
  BY <1>1, <1>2 DEF Fated, RowsOnce, StepsOnce, ToBeTraced, OneFate

LEMMA Nothing == NoTool.at = "none" /\ DOMAIN <<>> = {}
BY DEF NoTool

LEMMA FatedFromNothing ==
  ASSUME NEW r, trace[r] = <<>>, rows[r] = <<>>, heard[r] = <<>>, call[r] = NoTool PROVE Fated(r)
<1>1. ToolSteps(r) = {}
  BY DEF ToolSteps, StepsOf
<1>2. NoTool.at = "none" /\ DOMAIN <<>> = {}
  BY Nothing
<1>3. DOMAIN rows[r] = {} /\ DOMAIN heard[r] = {} /\ call[r].at = "none"
  BY <1>2
<1> QED
  BY <1>1, <1>3 DEF Fated, RowsOnce, StepsOnce, ToBeTraced, OneFate

LEMMA FatedBegins == ASSUME NEW r \in Runs, Blank(r), Begins(r) PROVE Fated(r)'
<1>1. trace'[r] = <<>> /\ rows'[r] = <<>> /\ heard'[r] = <<>> /\ call'[r] = NoTool
  BY DEF Blank, Begins, TraceStays, RowsStay, HeardStays, CallStays
<1>2. ToolSteps(r)' = {}
  BY <1>1 DEF ToolSteps, StepsOf
<1>3. NoTool.at = "none" /\ DOMAIN <<>> = {}
  BY Nothing
<1>4. DOMAIN rows'[r] = {} /\ DOMAIN heard'[r] = {} /\ call'[r].at = "none"
  BY <1>1, <1>3
<1> QED
  BY <1>2, <1>4 DEF Fated, RowsOnce, StepsOnce, ToBeTraced, OneFate

LEMMA FatedKept ==
  ASSUME Types, NEW r \in Runs, Busy(r), Fated(r), AgentStepOf(r), Moves(r) PROVE Fated(r)'
<1>0. NoTool.at = "none" /\ (PcGoesOn(r) \/ PcStays(r))
  BY DEF NoTool, Moves, PcGoesOn, PcStays
<1>1. ASSUME TraceStays(r), RowsStay(r), HeardStays(r),
             \/ CallStays(r)
             \/ /\ call'[r].at # "trace"
                /\ call[r].at \in {"none", "handler"} \/ PcGoesOn(r) \/ run'[r].status = "failed"
      PROVE  Fated(r)'
  BY <1>0, <1>1, QuietTrace, FatedQuiet
<1>2. ASSUME NEW code, Errored(r, code)
      PROVE  /\ call'[r] = NoTool /\ HeardStays(r)
             /\ PcGoesOn(r) \/ (PcStays(r) /\ run'[r].status = "failed")
  BY <1>2 DEF Errored, FailsWith, Becomes
<1>3. CASE Build(r) \/ CallTool(r)
  <2>1. /\ TraceStays(r) /\ RowsStay(r) /\ HeardStays(r)
        /\ CallStays(r) \/ (call'[r].at = "handler" /\ call[r].at = "none")
    BY <1>3, BuildAt, CallToolAt DEF Idle
  <2> QED
    BY <1>1, <2>1
<1>4. CASE Note(r)
  <2>1. /\ CallStays(r) /\ RowsStay(r) /\ HeardStays(r)
        /\ trace'[r] \in {trace[r], Append(trace[r], AgentStep(run[r].agent))}
    BY <1>4, NoteAt DEF Joins, MayJoin
  <2>2. AgentStep(run[r].agent).type # "tool"
    BY NoteIsNote
  <2> QED
    BY <1>0, <2>1, <2>2, FatedQuiet
<1>5. CASE ChaosFails(r)
  BY <1>0, <1>1, <1>2, <1>5, ChaosAt DEF ToolLeaves, Idle
<1>6. CASE RecallTool(r)
  <2> DEFINE key == <<Tool(r), Arguments(r)>>
             result == Recall(r).out
  <2>1. AtTool(r) /\ Idle(r) /\ run[r].mock /\ RowsStay(r)
    BY <1>6, RecallAt DEF ToolLeaves
  <2>2. CASE Recall(r) = None
    BY <1>0, <1>1, <1>2, <1>6, <2>1, <2>2, RecallAt DEF Idle
  <2>3. CASE Recall(r) # None
    <3>1. /\ result \in Seq(Words)
          /\ \/ Returned(r, key, result) /\ Joins(r, ToolStep(key, result, None))
             \/ Errored(r, "RUN_FAILED") /\ MayJoin(r, ToolStep(key, result, None))
      BY <1>6, <2>3, RecallAt
    <3> HIDE DEF result
    <3>2. CASE Returned(r, key, result) /\ Joins(r, ToolStep(key, result, None))
      <4>1. /\ call'[r] = NoTool /\ PcGoesOn(r)
            /\ heard'[r] = Append(heard[r], [key |-> key, result |-> result])
            /\ trace'[r] = Append(trace[r], ToolStep(key, result, None))
        BY <3>2 DEF Returned, Joins
      <4> QED
        BY <2>1, <3>1, <4>1, FatedRecords
    <3>3. CASE Errored(r, "RUN_FAILED") /\ TraceStays(r)
      BY <1>0, <1>1, <1>2, <2>1, <3>3 DEF Idle
    <3>4. CASE Errored(r, "RUN_FAILED") /\ trace'[r] = Append(trace[r], ToolStep(key, result, None))
      BY <1>2, <2>1, <3>1, <3>4, FatedRecords
    <3> QED
      BY <3>1, <3>2, <3>3, <3>4 DEF MayJoin, TraceStays
  <2> QED
    BY <2>2, <2>3
<1>7. CASE ToolWorks(r)
  <2>1. /\ call[r].at = "handler" /\ RunStays(r) /\ PcStays(r) /\ HeardStays(r) /\ TraceStays(r)
    BY <1>7, ToolWorksAt
  <2>2. \/ RowsStay(r) /\ call'[r].at # "trace"
        \/ \E result, code :
             /\ BookedAt(r, result, code) /\ call'[r].at \in {"trace", "raised"}
             /\ call'[r].at = "trace" =>
                  LeftAt(r, "trace", result, code) /\ (code = None => result # <<>>)
    <3>1. CASE RowsStay(r) /\ call'[r].at = "handler"
      BY <3>1
    <3>2. ASSUME NEW result, NEW code, LeftAt(r, "trace", result, code), BookedAt(r, result, code),
                 code = None => result # <<>>
          PROVE  call'[r].at = "trace"
      BY <3>2 DEF LeftAt
    <3>3. ASSUME NEW booked, NEW result, NEW code, NEW raised, LeftAt(r, "raised", result, raised),
                 BookedAt(r, booked, code) \/ RowsStay(r)
          PROVE  call'[r].at = "raised"
      BY <3>3 DEF LeftAt
    <3> QED
      BY <1>7, <3>1, <3>2, <3>3, ToolWorksAt
  <2>3. CASE RowsStay(r) /\ call'[r].at # "trace"
    BY <1>1, <2>1, <2>3
  <2>4. ASSUME NEW result, NEW code, BookedAt(r, result, code), call'[r].at \in {"trace", "raised"},
               call'[r].at = "trace" =>
                  LeftAt(r, "trace", result, code) /\ (code = None => result # <<>>)
        PROVE  Fated(r)'
    BY <2>1, <2>4, FatedBooks
  <2> QED
    BY <2>2, <2>3, <2>4
<1>8. CASE ToolEnds(r)
  <2> DEFINE key == <<Tool(r), Arguments(r)>>
             result == call[r].result
             code == call[r].code
             step == ToolStep(key, result, code)
  <2>1. AtTool(r) /\ ~run[r].mock /\ RowsStay(r) /\ Key(call[r]) = key /\ TracedStep(r) = step
    BY <1>8, ToolEndsAt DEF ToolLeaves, TracedStep
  <2>2. result \in Seq(Words) /\ code \in Codes \cup {None}
    BY DEF Types, ToolTypes, ToolCalls
  <2>3. CASE call[r].at = "trace"
    <3>1. \E i \in DOMAIN rows[r] : rows[r][i] = Row(key, result, code)
      BY <2>1, <2>3 DEF Fated, ToBeTraced
    <3>2. \/ /\ Joins(r, step)
             /\ \/ code = None /\ Returned(r, key, result)
                \/ code # None /\ Errored(r, code)
          \/ MayJoin(r, step) /\ Errored(r, "RUN_FAILED")
      BY <1>8, <2>1, <2>3, ToolEndsAt
    <3> HIDE DEF result, code, step
    <3>3. CASE code = None /\ Returned(r, key, result) /\ Joins(r, step)
      <4>1. /\ call'[r] = NoTool /\ PcGoesOn(r)
            /\ heard'[r] = Append(heard[r], [key |-> key, result |-> result])
            /\ trace'[r] = Append(trace[r], ToolStep(key, result, code))
        BY <3>3 DEF Returned, Joins, step
      <4> QED
        BY <2>1, <2>2, <3>1, <3>3, <4>1, FatedRecords
    <3>4. ASSUME NEW any, Errored(r, any), trace'[r] = Append(trace[r], step) PROVE Fated(r)'
      <4>1. /\ call'[r] = NoTool /\ HeardStays(r)
            /\ PcGoesOn(r) \/ (PcStays(r) /\ run'[r].status = "failed")
            /\ trace'[r] = Append(trace[r], ToolStep(key, result, code))
        BY <1>2, <3>4 DEF step
      <4> QED
        BY <2>1, <2>2, <3>1, <4>1, FatedRecords
    <3>5. CASE Errored(r, "RUN_FAILED") /\ TraceStays(r)
      BY <1>0, <1>1, <1>2, <2>1, <3>5
    <3> QED
      BY <3>2, <3>3, <3>4, <3>5 DEF Joins, MayJoin, TraceStays
  <2>4. CASE call[r].at = "raised"
    <3>1. Errored(r, code) /\ TraceStays(r)
      BY <1>8, <2>4, ToolEndsAt
    <3> QED
      BY <1>0, <1>1, <1>2, <2>1, <3>1
  <2> QED
    BY <1>8, <2>3, <2>4, ToolEndsAt
<1>9. CASE Asks(r) \/ GraphGoesOn(r) \/ ExecutorStops(r) \/ Rejected(r)
  <2>1. TraceStays(r) /\ RowsStay(r) /\ HeardStays(r) /\ CallStays(r)
    BY <1>9, ApprovalAt
  <2> QED
    BY <1>1, <2>1
<1>10. CASE CallModel(r) \/ ModelSpeaks(r) \/ ModelEnds(r) \/ ModelFails(r)
            \/ ReplayModel(r) \/ ReplayMisses(r) \/ StepLimit(r)
  <2>1. ModelLeaves(r)
    BY <1>10, CallModelAt, SpeaksAt, EndsAt, ReplayModelAt, MissesAt, LimitAt
  <2> QED
    BY <1>1, <2>1 DEF ModelLeaves
<1>11. CASE RecordModel(r) \/ Complete(r)
  <2>1. /\ CallStays(r) /\ RowsStay(r) /\ HeardStays(r)
        /\ trace'[r] \in {trace[r], Append(trace[r], ModelStep(r))}
    BY <1>11, LastStepAt DEF Joins, MayJoin, TraceStays
  <2>2. ModelStep(r).type # "tool"
    BY AnswerIsAnswer
  <2> QED
    BY <1>0, <2>1, <2>2, FatedQuiet
<1> QED
  BY <1>3, <1>4, <1>5, <1>6, <1>7, <1>8, <1>9, <1>10, <1>11 DEF AgentStepOf

-----------------------------------------------------------------------------
(* What a replay has from its source.                                       *)

\* The steps that a replay loaded are steps of its source, which only gets more
\* of them; if it had completed they are all of them.
IsPart(steps, all) == \A i \in DOMAIN steps : i \in DOMAIN all /\ steps[i] = all[i]

Loaded(r) ==
  Replays(r) =>
    LET s == run[r].source
    IN /\ IsPart(frozen[r].llm, trace[s])
       /\ pc[r] # 0 => IsPart(frozen[r].tools, trace[s])
       /\ frozen[r].whole => run[s].status = "completed" /\ frozen[r].llm = trace[s]
       /\ frozen[r].whole /\ run[r].mock /\ pc[r] # 0 => frozen[r].tools = trace[s]

\* What its agent heard and what it tells is in the trace of its source.
Retold(r) ==
  Replays(r) =>
    LET s == run[r].source
    IN /\ run[r].mock => \A i \in DOMAIN heard[r] : \E j \in DOMAIN trace[s] :
            trace[s][j].key = heard[r][i].key /\ trace[s][j].out = heard[r][i].result
       /\ Passed(r, "model") => \E i \in DOMAIN trace[s] :
            trace[s][i].type = "llm" /\ trace[s][i].out = llm[r].said

\* A trace only grows, and a run that is over stays.
Grows(s) ==
  /\ trace'[s] \in Seq(Steps) /\ IsPart(trace[s], trace'[s])
  /\ run[s].status = "completed" => Stays(s)

LEMMA AllGrow ==
  ASSUME Types, Types', NEW s \in Runs, Stays(s) \/ Begins(s) \/ (AgentStepOf(s) /\ Moves(s))
  PROVE  Grows(s)
<1>1. trace[s] \in Seq(Steps) /\ trace'[s] \in Seq(Steps)
  BY DEF Types, TraceTypes
<1>2. trace'[s] = trace[s] \/ \E step : trace'[s] = Append(trace[s], step)
  BY DEF Stays, Begins, Moves, TraceStays
<1>3. IsPart(trace[s], trace'[s])
  <2>1. CASE trace'[s] = trace[s]
    BY <2>1 DEF IsPart
  <2>2. ASSUME NEW step, trace'[s] = Append(trace[s], step) PROVE IsPart(trace[s], trace'[s])
    <3> DEFINE steps == trace[s]
    <3>1. steps \in Seq(Steps)
      BY <1>1
    <3> HIDE DEF steps
    <3>2. /\ DOMAIN Append(steps, step) = DOMAIN steps \cup {Len(steps) + 1}
          /\ \A i \in DOMAIN steps : Append(steps, step)[i] = steps[i]
      BY <3>1, AppendOne
    <3>3. IsPart(steps, Append(steps, step))
      BY <3>2 DEF IsPart
    <3> QED
      BY <2>2, <3>3 DEF steps
  <2> QED
    BY <1>2, <2>1, <2>2
<1>4. run[s].status = "completed" => Stays(s)
  BY DEF Begins, Moves
<1> QED
  BY <1>1, <1>3, <1>4 DEF Grows

\* Before the program is built nothing else happens.
LEMMA OnlyBuilds ==
  ASSUME Types, NEW r \in Runs, Busy(r), AgentStepOf(r), pc[r] = 0 PROVE Build(r)
<1>1. \A label : ~At(r, label)
  BY DEF At
<1>2. ~AtTool(r) /\ ~Gated(r) /\ run[r].status # "suspended" /\ ~llm[r].on /\ call[r].at = "none"
  BY <1>1 DEF AtTool, Gated, Busy, Here
<1> QED
  BY <1>1, <1>2 DEF AgentStepOf, Note, CallTool, ChaosFails, RecallTool, ToolWorks, ToolEnds, Asks,
     GraphGoesOn, ExecutorStops, Rejected, CallModel, ModelSpeaks, Piece, GeminiRetries,
     RouterFailsOver, Breaks, ModelEnds, Answered, ModelFails, ProviderRaises, ReplayModel,
     ReplayMisses, StepLimit, RecordModel, Complete

\* A replay says what was recorded, or nothing new; it hears what was recorded.
LEMMA ReplaySteps ==
  ASSUME Types, NEW r \in Runs, Busy(r), AgentStepOf(r), Moves(r), Replays(r)
  PROVE  /\ \/ ReplayModel(r)
            \/ llm'[r].said = llm[r].said /\ (Passed(r, "model")' <=> Passed(r, "model"))
         /\ HeardStays(r) \/ RecallTool(r) \/ ~run[r].mock
<1>0. SameAsked(r) /\ (PcStays(r) \/ PcGoesOn(r)) /\ ~llm[r].on
  BY DEF Moves, PcStays, PcGoesOn, Busy
<1>1. ASSUME llm'[r] = llm[r], PcStays(r) \/ ~Here(Program(r), pc[r], "model")
      PROVE  llm'[r].said = llm[r].said /\ (Passed(r, "model")' <=> Passed(r, "model"))
  BY <1>0, <1>1, PassedMoves
<1>2. /\ \A label \in {"note", "search", "read", "probe", "record", "complete"} :
           At(r, label) => ~Here(Program(r), pc[r], "model")
      /\ AtTool(r) => ~Here(Program(r), pc[r], "model")
  BY DEF At, Here, AtTool
<1>3. CASE Build(r)
  <2>1. ~Here(Program(r), pc[r], "model") /\ ModelStays(r) /\ HeardStays(r)
    BY <1>3, BuildAt DEF Here
  <2> QED
    BY <1>1, <2>1 DEF ModelStays
<1>4. CASE Note(r)
  BY <1>1, <1>2, <1>4, NoteAt DEF ModelStays
<1>5. CASE CallTool(r) \/ ToolWorks(r)
  BY <1>1, <1>5, CallToolAt, ToolWorksAt DEF ModelStays
<1>6. CASE ChaosFails(r) \/ RecallTool(r) \/ ToolEnds(r)
  BY <1>1, <1>2, <1>6, ChaosAt, RecallAt, ToolEndsAt DEF ToolLeaves, ModelStays
<1>7. CASE Asks(r) \/ GraphGoesOn(r) \/ ExecutorStops(r) \/ Rejected(r)
  BY <1>1, <1>7, ApprovalAt DEF ModelStays
<1>8. CASE CallModel(r) \/ ModelSpeaks(r) \/ ModelEnds(r) \/ ModelFails(r)
  BY <1>0, <1>8, CallModelAt, SpeaksAt, EndsAt
<1>9. CASE ReplayModel(r)
  BY <1>9, ReplayModelAt DEF ModelLeaves
<1>10. CASE ReplayMisses(r) \/ StepLimit(r)
  BY <1>1, <1>10, MissesAt, LimitAt DEF ModelStays, ModelLeaves
<1>11. CASE RecordModel(r) \/ Complete(r)
  BY <1>1, <1>11, LastStepAt
<1> QED
  BY <1>3, <1>4, <1>5, <1>6, <1>7, <1>8, <1>9, <1>10, <1>11 DEF AgentStepOf

LEMMA LoadedKept ==
  ASSUME Types, Types', NEW r \in Runs, Blank(r), Busy(r), Loaded(r),
         \/ Stays(r)
         \/ /\ Begins(r) \/ (AgentStepOf(r) /\ Moves(r))
            /\ \A q \in Runs : q # r => Stays(q),
         \A s \in Runs : Grows(s)
  PROVE  Loaded(r)'
<1> SUFFICES ASSUME Replays(r)' PROVE Loaded(r)'
  BY DEF Loaded
<1> DEFINE s == run'[r].source
<1>0. s \in Runs
  BY DEF Types, RunTypes, RunRecords
<1>1. Grows(s) /\ trace'[s] \in Seq(Steps)
  BY <1>0 DEF Grows
<1> HIDE DEF s
<1>2. ASSUME NEW steps, IsPart(steps, trace[s]) PROVE IsPart(steps, trace'[s])
  BY <1>1, <1>2 DEF Grows, IsPart
<1>3. run[s].status = "completed" => run'[s].status = "completed" /\ trace'[s] = trace[s]
  BY <1>1 DEF Grows, Stays, RunStays, TraceStays
<1>4. SUFFICES /\ IsPart(frozen'[r].llm, trace'[s])
               /\ pc'[r] # 0 => IsPart(frozen'[r].tools, trace'[s])
               /\ frozen'[r].whole => run'[s].status = "completed" /\ frozen'[r].llm = trace'[s]
               /\ frozen'[r].whole /\ run'[r].mock /\ pc'[r] # 0 => frozen'[r].tools = trace'[s]
  BY DEF Loaded, s
<1>5. ASSUME run'[r].source = run[r].source
      PROVE  /\ IsPart(frozen[r].llm, trace[s])
             /\ pc[r] # 0 => IsPart(frozen[r].tools, trace[s])
             /\ frozen[r].whole => run[s].status = "completed" /\ frozen[r].llm = trace[s]
             /\ frozen[r].whole /\ run[r].mock /\ pc[r] # 0 => frozen[r].tools = trace[s]
  BY <1>5 DEF Loaded, s
<1>6. CASE Stays(r)
  <2>1. frozen'[r] = frozen[r] /\ pc'[r] = pc[r] /\ run'[r] = run[r]
    BY <1>6 DEF Stays, FrozenStays, PcStays, RunStays
  <2> QED
    BY <1>2, <1>3, <1>5, <2>1
<1>7. CASE Begins(r) /\ \A q \in Runs : q # r => Stays(q)
  <2>1. /\ pc'[r] = 0 /\ frozen'[r].llm = trace[s] /\ trace'[s] = trace[s]
        /\ frozen'[r].whole => run[s].status = "completed"
    BY <1>0, <1>7 DEF Begins, Blank, PcStays, Stays, TraceStays, s
  <2> QED
    BY <1>3, <2>1 DEF IsPart
<1>8. CASE /\ AgentStepOf(r) /\ Moves(r)
           /\ \A q \in Runs : q # r => Stays(q)
  <2>1. /\ run'[r].source = run[r].source /\ (run'[r].mock <=> run[r].mock)
        /\ frozen'[r].llm = frozen[r].llm /\ frozen'[r].whole = frozen[r].whole
        /\ (frozen'[r].whole <=> frozen[r].whole)
    BY <1>8 DEF Moves, SameAsked
  <2>2. CASE pc[r] # 0
    <3>1. frozen'[r] = frozen[r]
      BY <1>8, <2>2 DEF Moves, FrozenStays
    <3> QED
      BY <1>2, <1>3, <1>5, <2>1, <2>2, <3>1
  <2>3. CASE pc[r] = 0
    <3>1. /\ frozen'[r].tools = IF run[r].mock THEN trace[run[r].source] ELSE <<>>
          /\ TraceStays(r)
      BY <1>8, <2>3, OnlyBuilds, BuildAt
    <3>2. trace'[s] = trace[s]
      BY <1>0, <1>8, <3>1 DEF TraceStays, Stays
    <3>3. IsPart(frozen'[r].tools, trace'[s]) /\ (run[r].mock => frozen'[r].tools = trace'[s])
      BY <2>1, <3>1, <3>2 DEF IsPart, s
    <3> QED
      BY <1>2, <1>3, <1>5, <2>1, <3>3
  <2> QED
    BY <2>2, <2>3
<1> QED
  BY <1>6, <1>7, <1>8

LEMMA RetoldKept ==
  ASSUME Types, Types', NEW r \in Runs, Blank(r), Busy(r), Loaded(r), Retold(r),
         Stays(r) \/ Begins(r) \/ (AgentStepOf(r) /\ Moves(r)),
         \A s \in Runs : Grows(s)
  PROVE  Retold(r)'
<1> SUFFICES ASSUME Replays(r)' PROVE Retold(r)'
  BY DEF Retold
<1> DEFINE s == run'[r].source
<1>0. s \in Runs
  BY DEF Types, RunTypes, RunRecords
<1>1. IsPart(trace[s], trace'[s])
  BY <1>0 DEF Grows
<1> HIDE DEF s
<1>2. SUFFICES /\ run'[r].mock => \A i \in DOMAIN heard'[r] : \E j \in DOMAIN trace[s] :
                    trace[s][j].key = heard'[r][i].key /\ trace[s][j].out = heard'[r][i].result
               /\ Passed(r, "model")' => \E i \in DOMAIN trace[s] :
                    trace[s][i].type = "llm" /\ trace[s][i].out = llm'[r].said
  BY <1>1 DEF Retold, IsPart, s
<1>3. ASSUME run'[r].source = run[r].source
      PROVE  /\ run[r].mock => \A i \in DOMAIN heard[r] : \E j \in DOMAIN trace[s] :
                  trace[s][j].key = heard[r][i].key /\ trace[s][j].out = heard[r][i].result
             /\ Passed(r, "model") => \E i \in DOMAIN trace[s] :
                  trace[s][i].type = "llm" /\ trace[s][i].out = llm[r].said
             /\ IsPart(frozen[r].llm, trace[s])
             /\ pc[r] # 0 => IsPart(frozen[r].tools, trace[s])
             /\ Replays(r)
  BY <1>3 DEF Retold, Loaded, s
<1>4. CASE Stays(r)
  <2>1. /\ run'[r] = run[r] /\ heard'[r] = heard[r] /\ llm'[r] = llm[r]
        /\ Passed(r, "model")' <=> Passed(r, "model")
    BY <1>4 DEF Stays, RunStays, HeardStays, ModelStays, PcStays, Passed
  <2> QED
    BY <1>3, <2>1
<1>5. CASE Begins(r)
  <2>1. heard'[r] = <<>> /\ pc'[r] = 0
    BY <1>5 DEF Begins, Blank, HeardStays, PcStays
  <2>2. ~Passed(r, "model")' /\ DOMAIN heard'[r] = {}
    BY <2>1, Nothing DEF Passed, PassedAt
  <2> QED
    BY <2>2
<1>6. CASE AgentStepOf(r) /\ Moves(r)
  <2>1. /\ run'[r].source = run[r].source /\ (run'[r].mock <=> run[r].mock) /\ Replays(r)
    BY <1>3, <1>6 DEF Moves, SameAsked
  <2>2. Passed(r, "model")' => \E i \in DOMAIN trace[s] :
          trace[s][i].type = "llm" /\ trace[s][i].out = llm'[r].said
    <3>1. CASE ReplayModel(r)
      <4>1. llm'[r].said = Recorded(r).out /\ Recorded(r) # None
        BY <3>1, ReplayModelAt
      <4>2. PICK i \in DOMAIN frozen[r].llm :
              frozen[r].llm[i] = Recorded(r) /\ Recorded(r).type = "llm"
        BY <4>1, RecordedSound DEF Types
      <4> QED
        BY <1>3, <2>1, <4>1, <4>2 DEF IsPart
    <3>2. CASE llm'[r].said = llm[r].said /\ (Passed(r, "model")' <=> Passed(r, "model"))
      BY <1>3, <2>1, <3>2
    <3> QED
      BY <1>6, <2>1, <3>1, <3>2, ReplaySteps
  <2>3. ASSUME run'[r].mock, NEW i \in DOMAIN heard'[r]
        PROVE  \E j \in DOMAIN trace[s] :
                 trace[s][j].key = heard'[r][i].key /\ trace[s][j].out = heard'[r][i].result
    <3>1. CASE i \in DOMAIN heard[r] /\ heard'[r][i] = heard[r][i]
      BY <1>3, <2>1, <2>3, <3>1
    <3>2. CASE /\ RecallTool(r) /\ Recall(r) # None
               /\ heard'[r][i] = [key |-> <<Tool(r), Arguments(r)>>, result |-> Recall(r).out]
      <4> DEFINE key == <<Tool(r), Arguments(r)>>
      <4>1. frozen[r].tools \in Seq(Steps)
        BY DEF Types, SharedTypes, FrozenRecords
      <4>2. Recalled(frozen[r].tools, key) # None
        BY <3>2 DEF Recall
      <4> HIDE DEF key
      <4>3. PICK j \in DOMAIN frozen[r].tools :
              /\ frozen[r].tools[j] = Recalled(frozen[r].tools, key) /\ frozen[r].tools[j].key = key
        BY <4>1, <4>2, RecalledSound
      <4>4. pc[r] # 0
        BY <3>2, RecallAt DEF AtTool, At
      <4>5. j \in DOMAIN trace[s] /\ trace[s][j] = frozen[r].tools[j]
        BY <1>3, <2>1, <4>3, <4>4 DEF IsPart
      <4>6. heard'[r][i].key = key /\ heard'[r][i].result = frozen[r].tools[j].out
        BY <3>2, <4>3 DEF key, Recall
      <4> QED
        BY <4>3, <4>5, <4>6
    <3>3. \/ HeardStays(r)
          \/ /\ RecallTool(r) /\ Recall(r) # None
             /\ heard'[r] = Append(heard[r], [key |-> <<Tool(r), Arguments(r)>>, result |-> Recall(r).out])
      <4>1. HeardStays(r) \/ RecallTool(r)
        BY <1>6, <2>1, <2>3, ReplaySteps
      <4> QED
        BY <4>1, RecallAt DEF Errored, Returned
    <3>4. heard[r] \in Seq(HeardRecords)
      BY DEF Types, ToolTypes
    <3>5. CASE HeardStays(r)
      BY <3>1, <3>5 DEF HeardStays
    <3>6. ASSUME NEW e, heard'[r] = Append(heard[r], e)
          PROVE  (i \in DOMAIN heard[r] /\ heard'[r][i] = heard[r][i]) \/ heard'[r][i] = e
      BY <3>4, <3>6, AppendOne
    <3> QED
      BY <3>1, <3>2, <3>3, <3>5, <3>6
  <2> QED
    BY <2>2, <2>3
<1> QED
  BY <1>4, <1>5, <1>6

-----------------------------------------------------------------------------
(* What hitl-demo tells.                                                    *)

\* Probes return what they are called for, and so hitl-demo tells its target,
\* which is the Readme unless a human changed it; a replay asks no human.
Echoed(r) ==
  /\ \A i \in ToolSteps(r) : trace[r][i].out # <<>> => Echoes(trace[r][i].key, trace[r][i].out)
  /\ call[r].at = "trace" /\ call[r].code = None => Echoes(Key(call[r]), call[r].result)
  /\ run[r].agent = "hitl-demo" =>
       /\ Passed(r, "probe") => content[r] = <<args[r]>>
       /\ ~run[r].changed => args[r] = Readme
       /\ Replays(r) => run[r].status # "suspended" /\ ~run[r].changed

LEMMA EchoedAtFirst == ASSUME Init, NEW r \in Runs PROVE Echoed(r)
<1>1. /\ trace[r] = <<>> /\ call[r] = NoTool /\ pc[r] = 0 /\ args[r] = Readme
      /\ run[r] = NoRun
  BY DEF Init, TraceInit, ToolsInit
<1>2. ToolSteps(r) = {} /\ ~Passed(r, "probe") /\ NoTool.at = "none"
  BY <1>1, Nothing DEF ToolSteps, StepsOf, Passed, PassedAt
<1>3. NoRun.agent = "echo"
  BY DEF NoRun
<1> QED
  BY <1>1, <1>2, <1>3 DEF Echoed

\* The step of a call that echoes does so, as a short preview is the whole text.
LEMMA StepEchoes ==
  ASSUME NEW key \in ToolKeys, NEW result \in Seq(Words), NEW code \in Codes \cup {None},
         code = None => Echoes(key, result), NEW step, step = ToolStep(key, result, code)
  PROVE  step.type = "tool" /\ (step.out # <<>> => Echoes(step.key, step.out))
<1>1. /\ step.type = "tool" /\ step.key = key
      /\ code = None => step.out = Preview(result)
      /\ code # None => step.out = <<>>
  BY OutcomeTyped
<1>2. ASSUME NEW x, result = <<x>> PROVE Preview(result) = result
  BY <1>2, PreviewAssumption DEF Preview
<1> QED
  BY <1>1, <1>2 DEF Echoes

\* A trace that grows by such a step, or by none of a tool, echoes.
LEMMA TraceEchoes ==
  ASSUME Types, NEW r \in Runs, Echoed(r), NEW step,
         trace'[r] \in {trace[r], Append(trace[r], step)},
         step.type = "tool" /\ step.out # <<>> => Echoes(step.key, step.out)
  PROVE  \A i \in ToolSteps(r)' : trace'[r][i].out # <<>> => Echoes(trace'[r][i].key, trace'[r][i].out)
<1>1. trace[r] \in Seq(Steps)
  BY DEF Types, TraceTypes
<1>2. CASE trace'[r] = trace[r]
  BY <1>2 DEF Echoed, ToolSteps
<1>3. CASE trace'[r] = Append(trace[r], step)
  <2> DEFINE steps == trace[r]
  <2>1. steps \in Seq(Steps)
        /\ \A i \in StepsOf(steps, "tool") : steps[i].out # <<>> => Echoes(steps[i].key, steps[i].out)
    BY <1>1 DEF Echoed, ToolSteps
  <2>2. ToolSteps(r)' = StepsOf(Append(steps, step), "tool") /\ trace'[r] = Append(steps, step)
    BY <1>3 DEF ToolSteps
  <2> HIDE DEF steps
  <2>3. /\ step.type # "tool" => StepsOf(Append(steps, step), "tool") = StepsOf(steps, "tool")
        /\ step.type = "tool" =>
             StepsOf(Append(steps, step), "tool") = StepsOf(steps, "tool") \cup {Len(steps) + 1}
        /\ \A i \in DOMAIN steps : Append(steps, step)[i] = steps[i]
        /\ Append(steps, step)[Len(steps) + 1] = step
    BY <2>1, StepsGrow
  <2>4. StepsOf(steps, "tool") \subseteq DOMAIN steps
    BY DEF StepsOf
  <2> QED
    BY <2>1, <2>2, <2>3, <2>4
<1> QED
  BY <1>2, <1>3

\* A step of an agent at no tool, and not of its human, keeps it so.
LEMMA EchoedQuiet ==
  ASSUME Types, NEW r \in Runs, Busy(r), Echoed(r), Moves(r), WorkStays(r),
         PcStays(r) \/ (PcGoesOn(r) /\ ~Here(Program(r), pc[r], "probe")),
         run'[r].changed = run[r].changed, run'[r].status # "suspended",
         CallStays(r) \/ call'[r].at # "trace",
         NEW step, step.type # "tool", trace'[r] \in {trace[r], Append(trace[r], step)}
  PROVE  Echoed(r)'
<1>1. \A i \in ToolSteps(r)' : trace'[r][i].out # <<>> => Echoes(trace'[r][i].key, trace'[r][i].out)
  BY TraceEchoes
<1>2. SameAsked(r) /\ (Passed(r, "probe")' <=> Passed(r, "probe"))
  BY PassedMoves DEF Moves
<1>3. Replays(r)' <=> Replays(r)
  BY <1>2 DEF SameAsked
<1> QED
  BY <1>1, <1>2, <1>3 DEF Echoed, WorkStays, CallStays, SameAsked

\* The end of a call keeps it so: hitl-demo gets its target back.
LEMMA EchoedTool ==
  ASSUME Types, NEW r \in Runs, Busy(r), Echoed(r), Moves(r), AtTool(r),
         NEW key, key = <<Tool(r), Arguments(r)>>, NEW result, NEW code,
         Errored(r, code) \/ (Returned(r, key, result) /\ Echoes(key, result)),
         NEW step, step.type = "tool" /\ step.out # <<>> => Echoes(step.key, step.out),
         trace'[r] \in {trace[r], Append(trace[r], step)}
  PROVE  Echoed(r)'
<1>1. \A i \in ToolSteps(r)' : trace'[r][i].out # <<>> => Echoes(trace'[r][i].key, trace'[r][i].out)
  BY TraceEchoes
<1>2. SameAsked(r) /\ call'[r].at = "none"
  BY Nothing DEF Moves, Errored, Returned
<1>3. (Replays(r)' <=> Replays(r)) /\ run'[r].agent = run[r].agent
  BY <1>2 DEF SameAsked
<1>4. ASSUME run[r].agent = "hitl-demo" PROVE At(r, "probe") /\ ~At(r, "search")
  <2>1. ~At(r, "search") /\ ~At(r, "read")
    BY <1>4, AtHere, ItsProgram DEF Suits, Here
  <2> QED
    BY <2>1 DEF AtTool
<1>5. ASSUME run[r].agent = "hitl-demo", Errored(r, code)
      PROVE  /\ ~Passed(r, "probe")' /\ args'[r] = args[r]
             /\ run'[r].changed = run[r].changed /\ run'[r].status = "failed"
  <2>1. FailsWith(r, code) /\ PcStays(r) /\ args'[r] = args[r]
    BY <1>4, <1>5 DEF Errored
  <2>2. ~Passed(r, "probe")
    BY <1>4, <1>5, NotPassed
  <2> QED
    BY <1>2, <2>1, <2>2, PassedMoves DEF FailsWith, Becomes
<1>6. ASSUME run[r].agent = "hitl-demo", Returned(r, key, result), Echoes(key, result)
      PROVE  content'[r] = <<args'[r]>> /\ args'[r] = args[r] /\ run'[r] = run[r]
  <2>1. content'[r] = result /\ args'[r] = args[r] /\ run'[r] = run[r]
    BY <1>4, <1>6 DEF Returned, RunStays
  <2>2. key = <<"hitl_probe", args[r]>>
    <3>1. ~At(r, "search") /\ ~At(r, "read")
      BY <1>4, <1>6, AtOne
    <3> QED
      BY <1>6, <3>1 DEF Tool, Arguments
  <2>3. result = <<args[r]>>
    BY <1>6, <2>2 DEF Echoes
  <2> QED
    BY <2>1, <2>3
<1> QED
  BY <1>1, <1>2, <1>3, <1>5, <1>6 DEF Echoed

\* Only a run that replays nothing asks a human, who may change its target.
LEMMA EchoedApproval ==
  ASSUME Types, NEW r \in Runs, Busy(r), Sourced(r), Echoed(r), Moves(r),
         Asks(r) \/ GraphGoesOn(r) \/ ExecutorStops(r) \/ Rejected(r)
  PROVE  Echoed(r)'
<1>1. /\ SameAsked(r) /\ PcStays(r) /\ content'[r] = content[r] /\ CallStays(r) /\ TraceStays(r)
  BY ApprovalAt
<1>2. \A i \in ToolSteps(r)' : trace'[r][i].out # <<>> => Echoes(trace'[r][i].key, trace'[r][i].out)
  BY <1>1 DEF TraceStays, ToolSteps, Echoed
<1>3. (Passed(r, "probe")' <=> Passed(r, "probe")) /\ (Replays(r)' <=> Replays(r))
      /\ run'[r].agent = run[r].agent
  BY <1>1, PassedMoves DEF SameAsked
<1>4. ASSUME run[r].agent = "hitl-demo", Asks(r)
      PROVE  ~Replays(r) /\ args'[r] = args[r] /\ run'[r].changed = run[r].changed
  BY <1>4, ApprovalAt DEF Gated, Becomes
<1>5. ASSUME run[r].agent = "hitl-demo", GraphGoesOn(r)
      PROVE  ~Replays(r) /\ ~Passed(r, "probe") /\ (~run'[r].changed => args'[r] = Readme)
  <2>1. run[r].status = "suspended" /\ (run'[r].changed <=> args'[r] # args[r])
    BY <1>5, ApprovalAt
  <2>2. ~Replays(r) /\ ~run[r].changed /\ args[r] = Readme
    BY <1>5, <2>1 DEF Echoed, Sourced
  <2>3. Here(Program(r), pc[r], "probe")
    BY <1>5, <2>1, ItsProgram DEF Busy, Here, Suits
  <2>4. ~Passed(r, "probe")
    BY <2>3, ItsProgram, NotYetBehind DEF Passed
  <2> QED
    BY <2>1, <2>2, <2>4
<1>6. ASSUME ExecutorStops(r) \/ Rejected(r)
      PROVE  args'[r] = args[r] /\ run'[r].changed = run[r].changed /\ run'[r].status # "suspended"
  BY <1>6, ApprovalAt DEF FailsWith, Becomes
<1> QED
  BY <1>1, <1>2, <1>3, <1>4, <1>5, <1>6 DEF Echoed, CallStays

LEMMA EchoedKept ==
  ASSUME Types, Types', NEW r \in Runs, Blank(r), Busy(r), Sourced(r), Loaded(r), Echoed(r),
         \A q \in Runs : Echoed(q),
         Stays(r) \/ Begins(r) \/ (AgentStepOf(r) /\ Moves(r))
  PROVE  Echoed(r)'
<1>1. CASE Stays(r)
  <2>1. (Passed(r, "probe")' <=> Passed(r, "probe")) /\ (Replays(r)' <=> Replays(r))
        /\ ToolSteps(r)' = ToolSteps(r)
    BY <1>1 DEF Stays, RunStays, PcStays, TraceStays, Passed, ToolSteps
  <2> QED
    BY <1>1, <2>1 DEF Echoed, Stays, RunStays, WorkStays, CallStays, TraceStays
<1>2. CASE Begins(r)
  <2>1. /\ trace'[r] = <<>> /\ call'[r] = NoTool /\ pc'[r] = 0 /\ args'[r] = Readme
        /\ run'[r].status = "running" /\ ~run'[r].changed
    BY <1>2 DEF Begins, Blank, Asked, TraceStays, CallStays, PcStays, WorkStays
  <2>2. ToolSteps(r)' = {} /\ ~Passed(r, "probe")' /\ NoTool.at = "none"
    BY <2>1, Nothing DEF ToolSteps, StepsOf, Passed, PassedAt
  <2> QED
    BY <2>1, <2>2 DEF Echoed
<1>3. CASE (Asks(r) \/ GraphGoesOn(r) \/ ExecutorStops(r) \/ Rejected(r)) /\ Moves(r)
  BY <1>3, EchoedApproval
<1>4. CASE /\ AgentStepOf(r) /\ Moves(r)
           /\ ~(Asks(r) \/ GraphGoesOn(r) \/ ExecutorStops(r) \/ Rejected(r))
  <2> DEFINE key == <<Tool(r), Arguments(r)>>
  <2>0. run'[r].changed = run[r].changed /\ run'[r].status # "suspended" /\ Moves(r)
    BY <1>4, OtherSteps
  <2>1. ASSUME NEW label, label # "probe", At(r, label) PROVE ~Here(Program(r), pc[r], "probe")
    BY <2>1, AtHere DEF Here
  <2>2. CASE Build(r)
    <3>1. /\ PcGoesOn(r) /\ ~Here(Program(r), pc[r], "probe") /\ WorkStays(r) /\ CallStays(r)
          /\ TraceStays(r)
      BY <2>2, BuildAt DEF Here
    <3> QED
      BY <2>0, <3>1, QuietTrace, EchoedQuiet
  <2>3. CASE Note(r)
    BY <2>0, <2>1, <2>3, NoteAt, NoteIsNote, EchoedQuiet DEF Joins, MayJoin
  <2>4. CASE CallTool(r)
    BY <2>0, <2>4, CallToolAt, QuietTrace, EchoedQuiet
  <2>5. CASE ToolWorks(r)
    <3>1. /\ RunStays(r) /\ PcStays(r) /\ WorkStays(r) /\ TraceStays(r)
      BY <2>5, ToolWorksAt
    <3>2. CASE call'[r].at # "trace"
      BY <2>0, <3>1, <3>2, QuietTrace, EchoedQuiet
    <3>3. CASE call'[r].at = "trace"
      <4>1. call'[r].code = None => Echoes(Key(call'[r]), call'[r].result)
        BY <2>5, <3>3, ToolWorksAt DEF LeftAt
      <4>2. (Passed(r, "probe")' <=> Passed(r, "probe")) /\ (Replays(r)' <=> Replays(r))
            /\ ToolSteps(r)' = ToolSteps(r)
        BY <3>1 DEF RunStays, PcStays, TraceStays, Passed, ToolSteps
      <4>3. Key(call[r])' = Key(call'[r])
        BY DEF Key
      <4> QED
        BY <3>1, <4>1, <4>2, <4>3 DEF Echoed, RunStays, WorkStays, TraceStays
    <3> QED
      BY <3>2, <3>3
  <2>6. CASE ChaosFails(r)
    <3>1. AtTool(r) /\ Errored(r, "RUN_FAILED") /\ TraceStays(r)
      BY <2>6, ChaosAt
    <3>2. PICK step : step.type # "tool" /\ trace'[r] \in {trace[r], Append(trace[r], step)}
      BY <3>1, QuietTrace
    <3> QED
      BY <2>0, <3>1, <3>2, EchoedTool
  <2>7. CASE RecallTool(r)
    <3> DEFINE result == Recall(r).out
               new == ToolStep(key, result, None)
    <3>1. AtTool(r) /\ key \in ToolKeys /\ run[r].mock /\ pc[r] # 0
      BY <2>7, RecallAt, KeyTyped DEF Types, AtTool, At
    <3>2. CASE Errored(r, "REPLAY_MISMATCH") /\ TraceStays(r)
      <4>1. PICK step : step.type # "tool" /\ trace'[r] \in {trace[r], Append(trace[r], step)}
        BY <3>2, QuietTrace
      <4> QED
        BY <2>0, <3>1, <3>2, <4>1, EchoedTool
    <3>3. CASE /\ Recall(r) # None /\ result \in Seq(Words)
               /\ \/ Returned(r, key, result) /\ Joins(r, new)
                  \/ Errored(r, "RUN_FAILED") /\ MayJoin(r, new)
      <4> DEFINE s == run[r].source
      <4>1. frozen[r].tools \in Seq(Steps)
        BY DEF Types, SharedTypes, FrozenRecords
      <4>2. Recall(r) = Recalled(frozen[r].tools, key)
        BY DEF Recall
      <4> HIDE DEF key
      <4>3. PICK j \in DOMAIN frozen[r].tools :
              /\ frozen[r].tools[j] = Recall(r) /\ frozen[r].tools[j].key = key
              /\ Recall(r).type = "tool" /\ Recall(r).out # <<>>
        BY <3>3, <4>1, <4>2, RecalledSound
      <4>4. Replays(r) /\ s \in Runs
        BY <3>1 DEF Busy, Types, RunTypes, RunRecords
      <4>5. j \in DOMAIN trace[s] /\ trace[s][j] = Recall(r)
        BY <3>1, <4>3, <4>4 DEF Loaded, IsPart
      <4>6. Echoes(key, result)
        BY <4>3, <4>4, <4>5 DEF Echoed, ToolSteps, StepsOf
      <4>7. new.out # <<>> => Echoes(new.key, new.out)
        BY <3>1, <3>3, <4>6, StepEchoes
      <4>8. trace'[r] \in {trace[r], Append(trace[r], new)}
        BY <3>3 DEF Joins, MayJoin
      <4>9. Errored(r, "RUN_FAILED") \/ Returned(r, key, result)
        BY <3>3
      <4>10. key = <<Tool(r), Arguments(r)>>
        BY DEF key
      <4> HIDE DEF new, result
      <4> QED
        BY <2>0, <3>1, <4>6, <4>7, <4>8, <4>9, <4>10, EchoedTool
    <3> QED
      BY <2>7, <3>2, <3>3, RecallAt
  <2>8. CASE ToolEnds(r)
    <3> DEFINE result == call[r].result
               new == TracedStep(r)
    <3>1. /\ AtTool(r) /\ Key(call[r]) = key /\ key \in ToolKeys
          /\ result \in Seq(Words) /\ call[r].code \in Codes \cup {None}
      BY <2>8, ToolEndsAt, KeyTyped DEF Types, ToolTypes, ToolCalls
    <3>2. CASE TraceStays(r) /\ Errored(r, call[r].code)
      <4>1. PICK step : step.type # "tool" /\ trace'[r] \in {trace[r], Append(trace[r], step)}
        BY <3>2, QuietTrace
      <4> QED
        BY <2>0, <3>1, <3>2, <4>1, EchoedTool
    <3>3. CASE /\ call[r].at = "trace" /\ trace'[r] \in {trace[r], Append(trace[r], new)}
               /\ \/ \E code : Errored(r, code)
                  \/ call[r].code = None /\ Returned(r, Key(call[r]), result)
      <4>1. call[r].code = None => Echoes(key, result)
        BY <3>1, <3>3 DEF Echoed
      <4>2. new = ToolStep(key, result, call[r].code)
        BY <3>1 DEF TracedStep
      <4> HIDE DEF new, result, key
      <4>3. new.out # <<>> => Echoes(new.key, new.out)
        BY <3>1, <4>1, <4>2, StepEchoes
      <4>4. \/ \E code : Errored(r, code)
            \/ Returned(r, key, result) /\ Echoes(key, result)
        BY <3>1, <3>3, <4>1
      <4>5. key = <<Tool(r), Arguments(r)>>
        BY DEF key
      <4> QED
        BY <2>0, <3>1, <3>3, <4>3, <4>4, <4>5, EchoedTool
    <3>4. \/ TraceStays(r) /\ Errored(r, call[r].code)
          \/ /\ call[r].at = "trace" /\ trace'[r] \in {trace[r], Append(trace[r], new)}
             /\ \/ \E code : Errored(r, code)
                \/ call[r].code = None /\ Returned(r, Key(call[r]), result)
      BY <2>8, ToolEndsAt DEF Joins, MayJoin
    <3> QED
      BY <3>2, <3>3, <3>4
  <2>9. CASE \/ CallModel(r) \/ ModelSpeaks(r) \/ ModelEnds(r) \/ ModelFails(r)
             \/ ReplayModel(r) \/ ReplayMisses(r)
    <3>1. WorkStays(r) /\ TraceStays(r) /\ CallStays(r) /\ (PcStays(r) \/ PcGoesOn(r)) /\ At(r, "model")
      BY <2>9, CallModelAt, SpeaksAt, EndsAt, ReplayModelAt, MissesAt DEF ModelLeaves, Busy
    <3> QED
      BY <2>0, <2>1, <3>1, QuietTrace, EchoedQuiet
  <2>10. CASE StepLimit(r)
    <3>1. WorkStays(r) /\ TraceStays(r) /\ CallStays(r) /\ PcStays(r)
      BY <2>10, LimitAt DEF ModelLeaves
    <3> QED
      BY <2>0, <3>1, QuietTrace, EchoedQuiet
  <2>11. CASE RecordModel(r) \/ Complete(r)
    <3>1. /\ WorkStays(r) /\ PcStays(r) /\ CallStays(r)
          /\ trace'[r] \in {trace[r], Append(trace[r], ModelStep(r))}
      BY <2>11, LastStepAt DEF Joins, MayJoin, TraceStays
    <3>2. ModelStep(r).type # "tool"
      BY AnswerIsAnswer
    <3> QED
      BY <2>0, <3>1, <3>2, EchoedQuiet
  <2> QED
    BY <1>4, <2>2, <2>3, <2>4, <2>5, <2>6, <2>7, <2>8, <2>9, <2>10, <2>11 DEF AgentStepOf
<1> QED
  BY <1>1, <1>2, <1>3, <1>4

-----------------------------------------------------------------------------
(* Tool calls and replays.                                                  *)

Kept ==
  /\ Told
  /\ \A r \in Runs : Fated(r) /\ Loaded(r) /\ Retold(r) /\ Echoed(r)

LEMMA KeptAtFirst == Init => Kept
<1> SUFFICES ASSUME Init PROVE Kept
  OBVIOUS
<1>1. ASSUME NEW r \in Runs PROVE Fated(r) /\ Loaded(r) /\ Retold(r) /\ Echoed(r)
  <2>1. trace[r] = <<>> /\ rows[r] = <<>> /\ heard[r] = <<>> /\ call[r] = NoTool /\ ~Replays(r)
    BY DEF Init, TraceInit, ProviderInit, ToolsInit, NoRun
  <2> QED
    BY <2>1, FatedFromNothing, EchoedAtFirst DEF Loaded, Retold
<1> QED
  BY <1>1, ToldAtFirst DEF Kept

LEMMA KeptKept == Kept /\ [Next]_vars => Kept'
<1> SUFFICES ASSUME Kept, [Next]_vars PROVE Kept'
  OBVIOUS
<1>1. /\ Told /\ Told' /\ Types /\ Types' /\ \A r \in Runs : Blank(r) /\ Busy(r)
      /\ \A r \in Runs : Fated(r) /\ Loaded(r) /\ Retold(r) /\ Echoed(r)
      /\ \A r \in Runs : Sourced(r)
  BY ToldKept DEF Kept, Told, Placed
<1>2. \/ \A q \in Runs : Stays(q)
      \/ \E r \in Runs :
           /\ Begins(r) \/ (AgentStepOf(r) /\ Moves(r))
           /\ \A q \in Runs : q # r => Stays(q)
  BY <1>1, NextCases
<1>3. \A r \in Runs :
        \/ Stays(r)
        \/ /\ Begins(r) \/ (AgentStepOf(r) /\ Moves(r))
           /\ \A q \in Runs : q # r => Stays(q)
  BY <1>2
<1>4. \A s \in Runs : Grows(s)
  BY <1>1, <1>3, AllGrow
<1>5. ASSUME NEW r \in Runs PROVE Fated(r)' /\ Loaded(r)' /\ Retold(r)' /\ Echoed(r)'
  <2>1. Loaded(r)' /\ Retold(r)'
    BY <1>1, <1>3, <1>4, LoadedKept, RetoldKept
  <2>2. Fated(r)'
    BY <1>1, <1>3, FatedStays, FatedBegins, FatedKept
  <2>3. Echoed(r)'
    BY <1>1, <1>3, EchoedKept
  <2> QED
    BY <2>1, <2>2, <2>3
<1> QED
  BY <1>1, <1>5 DEF Kept

LEMMA KeptInvariant == Spec => []Kept
BY KeptAtFirst, KeptKept, PTL DEF Spec

LEMMA KeptOutcome == Kept => ToolOutcomeRecorded
<1> SUFFICES ASSUME Kept, NEW r \in Runs
             PROVE  OneFate(r) /\ \A i, j \in DOMAIN rows[r] : rows[r][i].key = rows[r][j].key => i = j
  BY DEF ToolOutcomeRecorded, OneFate
<1>1. OneFate(r) /\ RowsOnce(r)
  BY DEF Kept, Fated
<1> QED
  BY <1>1 DEF RowsOnce

\* A hitl-demo that completed told its target.
LEMMA DemoTells ==
  ASSUME Kept, NEW r \in Runs, run[r].agent = "hitl-demo", run[r].status = "completed",
         ~run[r].changed
  PROVE  text[r] = <<Readme>>
<1>1. Types /\ Concluded(r) /\ Echoed(r)
  BY DEF Kept, Told, Placed
<1>2. /\ pc[r] = Len(Program(r)) /\ text[r] = Reply(r)
  BY <1>1 DEF Concluded
<1>3. Program(r) = HitlDemoProgram
  BY DEF ProgramOf
<1>4. Passed(r, "probe")
  BY <1>2, <1>3 DEF Passed, PassedAt, HitlDemoProgram
<1> QED
  BY <1>1, <1>2, <1>4 DEF Echoed, Reply

LEMMA KeptReplay == Kept => ReplayFaithful
<1> SUFFICES ASSUME Kept, NEW r \in ReplayRuns, run[r].status = "completed"
             PROVE  LET s == run[r].source
                    IN /\ run[r].agent # "hitl-demo" /\ LlmSteps(r) # {} => text[r] = Preview(text[s])
                       /\ /\ run[r].agent = "hitl-demo" /\ run[s].agent = "hitl-demo"
                          /\ run[s].status = "completed" /\ ~run[s].changed
                          => text[r] = text[s]
                       /\ run[r].mock => \A i \in DOMAIN heard[r] :
                            \E j \in DOMAIN trace[s] : trace[s][j].key = heard[r][i].key
                                                          /\ trace[s][j].out = heard[r][i].result
  BY DEF ReplayFaithful
<1> DEFINE s == run[r].source
<1>1. r \in Runs /\ Types /\ Sourced(r) /\ Concluded(r) /\ Retold(r) /\ Echoed(r)
  BY DEF Kept, Told, Placed, Runs
<1>2. Replays(r) /\ s \in Runs
  BY <1>1 DEF Sourced, Types, RunTypes, RunRecords
<1>3. Concluded(s)
  BY <1>2 DEF Kept, Told
<1>4. ASSUME run[r].agent # "hitl-demo", LlmSteps(r) # {} PROVE text[r] = Preview(text[s])
  <2>1. text[r] = llm[r].said /\ Passed(r, "model")
    BY <1>1, <1>4 DEF Concluded, Reply
  <2>2. PICK i \in DOMAIN trace[s] : trace[s][i].type = "llm" /\ trace[s][i].out = llm[r].said
    BY <1>1, <1>2, <2>1 DEF Retold
  <2>3. i \in LlmSteps(s)
    BY <2>2 DEF LlmSteps, StepsOf
  <2>4. trace[s][i] = ModelStep(s) /\ text[s] = Reply(s)
    BY <1>3, <2>3 DEF Concluded
  <2> QED
    BY <2>1, <2>2, <2>4, AnswerIsAnswer
<1>5. ASSUME run[r].agent = "hitl-demo", run[s].agent = "hitl-demo",
             run[s].status = "completed", ~run[s].changed
      PROVE  text[r] = text[s]
  <2>1. ~run[r].changed
    BY <1>1, <1>2, <1>5 DEF Echoed
  <2> QED
    BY <1>1, <1>2, <1>5, <2>1, DemoTells
<1>6. run[r].mock => \A i \in DOMAIN heard[r] :
        \E j \in DOMAIN trace[s] : trace[s][j].key = heard[r][i].key
                                      /\ trace[s][j].out = heard[r][i].result
  BY <1>1, <1>2 DEF Retold
<1> QED
  BY <1>4, <1>5, <1>6

\* A tool call has one fate: a result that reached the agent is booked and
\* recorded as such, a step of the trace is booked the same way, and no call is
\* booked twice, however its handler, its row or its step failed.
THEOREM ToolOutcomeIsRecorded == Spec => []ToolOutcomeRecorded
BY KeptInvariant, KeptOutcome, PTL

\* A replay that completes with a model's answer tells what its source told, as
\* far as a preview keeps it, also when it was asked of another agent or of a run
\* that was not over; one of hitl-demo tells what its completed source told, unless
\* a human changed what was to be done; and with recorded tools its agent heard
\* what the source's trace has.
THEOREM ReplayIsFaithful == Spec => []ReplayFaithful
BY KeptInvariant, KeptReplay, PTL

-----------------------------------------------------------------------------
(* What of a run's tools a replay of it can find.                           *)

SearchKey(r) == <<"search_workspace", [query |-> run[r].input, hitsFor |-> run[r].agent]>>

\* A call with this key is in the trace with a preview of this result.
TracedAs(r, key, result) ==
  /\ result # <<>>
  /\ \E i \in ToolSteps(r) : trace[r][i].key = key /\ trace[r][i].out = Preview(result)

SearchFails(r) == \A i \in ToolSteps(r) : LabelOf(trace[r][i].key) = "search" => trace[r][i].out = <<>>

\* What an agent works on is what its trace has of the calls it made, ...
Found(r) ==
  /\ ~Passed(r, "search") => args[r] = Readme
  /\ Passed(r, "search") =>
       \/ \E result \in Documents : TracedAs(r, SearchKey(r), result) /\ args[r] = FirstHit(result)
       \/ SearchFails(r) /\ args[r] = Readme
  /\ Passed(r, "read") => TracedAs(r, <<"read_file", args[r]>>, content[r])
  /\ Passed(r, "probe") /\ run[r].agent = "hitl-demo" =>
       \E result \in Documents : TracedAs(r, <<"hitl_probe", args[r]>>, result)

\* ... unless a human changed it, or a commit of a step failed.
Retraceable(r) == run[r].changed \/ r \in hurt \/ Found(r)

\* A preview that is not cut is the whole text.
LEMMA UncutPreview ==
  ASSUME NEW S, NEW said \in Seq(S), ~IsCut(Preview(said))
  PROVE  Preview(said) = said
<1> SUFFICES ASSUME Len(said) > PreviewLength PROVE FALSE
  BY PreviewAssumption DEF Preview
<1> DEFINE kept == SubSeq(said, 1, PreviewLength - 1)
<1>1. PreviewLength - 1 \in Nat /\ PreviewLength - 1 <= Len(said)
  BY PreviewAssumption
<1>2. kept \in Seq(S)
  BY <1>1
<1>3. Preview(said) = Append(kept, Dots)
  BY PreviewAssumption DEF Preview
<1> HIDE DEF kept
<1>4. /\ Append(kept, Dots) # <<>> /\ Len(Append(kept, Dots)) = Len(kept) + 1
      /\ Append(kept, Dots)[Len(kept) + 1] = Dots
  BY <1>2
<1> QED
  BY <1>3, <1>4 DEF IsCut

\* What the tools of a run are called for: the search comes before the reading,
\* and no agent both reads and probes.
LEMMA CallsApart ==
  ASSUME Types, NEW r \in Runs
  PROVE  /\ At(r, "search") => ~Passed(r, "read") /\ ~Passed(r, "probe")
         /\ At(r, "read") => ~Passed(r, "probe")
         /\ At(r, "probe") => ~Passed(r, "read")
         /\ At(r, "search") => <<Tool(r), Arguments(r)>> = SearchKey(r)
         /\ At(r, "read") => <<Tool(r), Arguments(r)>> = <<"read_file", args[r]>>
         /\ At(r, "probe") /\ run[r].agent = "hitl-demo" =>
              <<Tool(r), Arguments(r)>> = <<"hitl_probe", args[r]>>
<1>1. Orderly(Program(r)) /\ Suits(Program(r), run[r].agent)
  BY ItsProgram
<1>2. \A label : At(r, label) => Here(Program(r), pc[r], label)
  BY AtHere
<1>3. /\ At(r, "search") => ~Passed(r, "read")
      /\ At(r, "search") => ~Passed(r, "probe")
  BY <1>1, <1>2 DEF Orderly, Here, Passed, PassedAt
<1>4. /\ At(r, "read") => ~Passed(r, "probe")
      /\ At(r, "probe") => ~Passed(r, "read")
  <2>1. /\ Here(Program(r), pc[r], "read") \/ Passed(r, "read") =>
             run[r].agent \in {"research", "research-chain"}
        /\ Here(Program(r), pc[r], "probe") \/ Passed(r, "probe") =>
             run[r].agent \in {"hitl-demo", "plugin"}
    BY <1>1 DEF Suits, Here, Passed, PassedAt
  <2>2. At(r, "read") => Here(Program(r), pc[r], "read")
    BY <1>2
  <2>3. At(r, "probe") => Here(Program(r), pc[r], "probe")
    BY <1>2
  <2> QED
    BY ONLY <2>1, <2>2, <2>3
<1>5. /\ At(r, "search") => Tool(r) = "search_workspace"
      /\ At(r, "search") => Arguments(r) = [query |-> run[r].input, hitsFor |-> run[r].agent]
  BY AtOne DEF Tool, Arguments
<1>6. At(r, "read") => Tool(r) = "read_file" /\ Arguments(r) = args[r] /\ ~At(r, "search")
  BY AtOne DEF Tool, Arguments
<1>7. At(r, "probe") /\ run[r].agent = "hitl-demo" => Tool(r) = "hitl_probe" /\ Arguments(r) = args[r]
  <2>1. At(r, "probe") => ~At(r, "search") /\ ~At(r, "read")
    BY AtOne
  <2> QED
    BY <2>1 DEF Tool, Arguments
<1> QED
  BY <1>3, <1>4, <1>5, <1>6, <1>7 DEF SearchKey

LEMMA TracedAsKept ==
  ASSUME NEW r, ToolSteps(r) \subseteq ToolSteps(r)', \A i \in ToolSteps(r) : trace'[r][i] = trace[r][i],
         NEW key, NEW result, TracedAs(r, key, result)
  PROVE  TracedAs(r, key, result)'
BY DEF TracedAs

\* A step that calls no tool leaves what was found, ...
LEMMA FoundQuiet ==
  ASSUME Types, NEW r \in Runs, Busy(r), StepsOnce(r), Found(r), Moves(r), WorkStays(r),
         \/ PcStays(r)
         \/ PcGoesOn(r) /\ \A label \in {"search", "read", "probe"} : ~Here(Program(r), pc[r], label),
         NEW step, step.type # "tool", trace'[r] \in {trace[r], Append(trace[r], step)}
  PROVE  Found(r)'
<1>1. SameAsked(r) /\ run[r].status # "failed"
  BY DEF Moves
<1>2. ToolSteps(r)' = ToolSteps(r) /\ \A i \in ToolSteps(r) : trace'[r][i] = trace[r][i]
  BY <1>1, StepsOnceQuiet
<1>3. \A label \in {"search", "read", "probe"} : Passed(r, label)' <=> Passed(r, label)
  BY <1>1, PassedMoves
<1>4. SearchKey(r)' = SearchKey(r)
  BY <1>1 DEF SameAsked, SearchKey
<1>5. \A key, result : TracedAs(r, key, result) => TracedAs(r, key, result)'
  BY <1>2, TracedAsKept
<1>6. SearchFails(r) => SearchFails(r)'
  BY <1>2 DEF SearchFails
<1> QED
  BY <1>1, <1>3, <1>4, <1>5, <1>6 DEF Found, WorkStays, SameAsked

\* ... and so does a call that fails; a search that fails found nothing.
LEMMA FoundFails ==
  ASSUME Types, NEW r \in Runs, Busy(r), StepsOnce(r), Found(r), Moves(r), AtTool(r),
         NEW code, Errored(r, code),
         \/ TraceStays(r)
         \/ \E step : /\ step.type = "tool" /\ step.key = <<Tool(r), Arguments(r)>> /\ step.out = <<>>
                      /\ trace'[r] = Append(trace[r], step)
  PROVE  Found(r)'
<1>1. /\ SameAsked(r) /\ run[r].status # "failed" /\ content'[r] = content[r]
      /\ PcGoesOn(r) \/ (PcStays(r) /\ run'[r].status = "failed")
  BY DEF Moves, Errored, FailsWith, Becomes
<1>2. /\ ToolSteps(r) \subseteq ToolSteps(r)' /\ \A i \in ToolSteps(r) : trace'[r][i] = trace[r][i]
      /\ \A i \in ToolSteps(r)' : i \in ToolSteps(r) \/ trace'[r][i].out = <<>>
  <2>1. CASE TraceStays(r)
    BY <2>1 DEF TraceStays, ToolSteps
  <2>2. ASSUME NEW step, step.type = "tool", step.key = <<Tool(r), Arguments(r)>>, step.out = <<>>,
               trace'[r] = Append(trace[r], step)
        PROVE  /\ ToolSteps(r) \subseteq ToolSteps(r)'
               /\ \A i \in ToolSteps(r) : trace'[r][i] = trace[r][i]
               /\ \A i \in ToolSteps(r)' : i \in ToolSteps(r) \/ trace'[r][i].out = <<>>
    <3>1. /\ ToolSteps(r)' = ToolSteps(r) \cup {Len(trace[r]) + 1}
          /\ trace'[r][Len(trace[r]) + 1] = step
          /\ \A i \in ToolSteps(r) : trace'[r][i] = trace[r][i]
      BY <1>1, <2>2, StepsOnceMore
    <3> QED
      BY <2>2, <3>1
  <2> QED
    BY <2>1, <2>2
<1>3. \A key, result : TracedAs(r, key, result) => TracedAs(r, key, result)'
  BY <1>2, TracedAsKept
<1>4. SearchFails(r) => SearchFails(r)'
  BY <1>2 DEF SearchFails
<1>5. SearchKey(r)' = SearchKey(r)
  BY <1>1 DEF SameAsked, SearchKey
<1>6. CASE At(r, "search") /\ PcGoesOn(r) /\ args'[r] = Readme
  <2>1. /\ Passed(r, "search")' /\ ~Passed(r, "read")' /\ ~Passed(r, "probe")'
    <3>1. /\ Here(Program(r), pc[r], "search") /\ ~Here(Program(r), pc[r], "read")
          /\ ~Here(Program(r), pc[r], "probe")
      BY <1>6, AtHere DEF Here
    <3> QED
      BY <1>1, <1>6, <3>1, CallsApart, PassedMoves
  <2>2. SearchFails(r)
    <3> SUFFICES ASSUME NEW i \in ToolSteps(r) PROVE LabelOf(trace[r][i].key) # "search"
      BY DEF SearchFails
    <3>1. MadeAt(Program(r), pc[r], LabelOf(trace[r][i].key), FALSE)
      BY <1>1 DEF StepsOnce, MadeAt
    <3>2. LabelOf(<<Tool(r), Arguments(r)>>) = "search"
      BY <1>6, ToolLabel, AtOne
    <3> QED
      BY <3>1, <3>2, NotMadeYet
  <2> QED
    BY <1>4, <1>6, <2>1, <2>2 DEF Found
<1>7. CASE PcStays(r) /\ args'[r] = args[r]
  <2>1. \A label : Passed(r, label)' <=> Passed(r, label)
    BY <1>1, <1>7, PassedMoves
  <2> QED
    BY <1>1, <1>3, <1>4, <1>5, <1>7, <2>1 DEF Found, SameAsked
<1> QED
  BY <1>6, <1>7 DEF Errored

\* A call that succeeds is recorded with what the agent does with it.
LEMMA FoundReturns ==
  ASSUME Types, NEW r \in Runs, Busy(r), StepsOnce(r), Found(r), Moves(r), AtTool(r),
         NEW key, key = <<Tool(r), Arguments(r)>>, NEW result \in Seq(Words), result # <<>>,
         Returned(r, key, result),
         NEW step, step.type = "tool", step.key = key, step.out = Preview(result),
         trace'[r] = Append(trace[r], step)
  PROVE  Found(r)'
<1>1. SameAsked(r) /\ run[r].status # "failed" /\ PcGoesOn(r)
  BY DEF Moves, Returned
<1>2. /\ ToolSteps(r)' = ToolSteps(r) \cup {Len(trace[r]) + 1}
      /\ trace'[r][Len(trace[r]) + 1] = step
      /\ \A i \in ToolSteps(r) : trace'[r][i] = trace[r][i]
  BY <1>1, StepsOnceMore
<1>3. \A k, t : TracedAs(r, k, t) => TracedAs(r, k, t)'
  BY <1>2, TracedAsKept
<1>4. TracedAs(r, key, result)'
  BY <1>2 DEF TracedAs
<1>5. SearchKey(r)' = SearchKey(r)
  BY <1>1 DEF SameAsked, SearchKey
<1>6. CASE At(r, "search")
  <2>1. /\ Passed(r, "search")' /\ ~Passed(r, "read")' /\ ~Passed(r, "probe")'
    <3>1. /\ Here(Program(r), pc[r], "search") /\ ~Here(Program(r), pc[r], "read")
          /\ ~Here(Program(r), pc[r], "probe")
      BY <1>6, AtHere DEF Here
    <3> QED
      BY <1>1, <1>6, <3>1, CallsApart, PassedMoves
  <2>2. key = SearchKey(r) /\ args'[r] = FirstHit(result)
    BY <1>6, CallsApart DEF Returned
  <2> QED
    BY <1>4, <1>5, <2>1, <2>2 DEF Found, Documents
<1>7. CASE ~At(r, "search")
  <2>0. ~Here(Program(r), pc[r], "search")
    BY <1>7, AtHere DEF AtTool, At
  <2>1. args'[r] = args[r] /\ content'[r] = result /\ (Passed(r, "search")' <=> Passed(r, "search"))
    BY <1>1, <1>7, <2>0, PassedMoves DEF Returned
  <2>2. SearchFails(r) => SearchFails(r)'
    <3>1. LabelOf(key) # "search"
      BY <1>7, ToolLabel
    <3> QED
      BY <1>2, <3>1 DEF SearchFails
  <2>3. /\ ~Passed(r, "search")' => args'[r] = Readme
        /\ Passed(r, "search")' =>
             \/ \E t \in Documents : TracedAs(r, SearchKey(r), t)' /\ args'[r] = FirstHit(t)
             \/ SearchFails(r)' /\ args'[r] = Readme
    BY <1>3, <1>5, <2>1, <2>2 DEF Found
  <2>4. CASE At(r, "read")
    <3>1. Passed(r, "read")' /\ ~Passed(r, "probe")'
      <4>1. Here(Program(r), pc[r], "read") /\ ~Here(Program(r), pc[r], "probe")
        BY <2>4, AtHere DEF Here
      <4> QED
        BY <1>1, <2>4, <4>1, CallsApart, PassedMoves
    <3>2. key = <<"read_file", args'[r]>>
      BY <2>1, <2>4, CallsApart
    <3> QED
      BY <1>4, <1>5, <2>1, <2>3, <3>1, <3>2 DEF Found
  <2>5. CASE At(r, "probe")
    <3>1. ~Passed(r, "read")'
      <4>1. ~Here(Program(r), pc[r], "read")
        BY <2>5, AtHere DEF Here
      <4> QED
        BY <1>1, <2>5, <4>1, CallsApart, PassedMoves
    <3>2. run[r].agent = "hitl-demo" => key = <<"hitl_probe", args'[r]>>
      BY <2>1, <2>5, CallsApart
    <3>3. run'[r].agent = "hitl-demo" => \E t \in Documents : TracedAs(r, <<"hitl_probe", args[r]>>, t)'
      BY <1>1, <1>4, <2>1, <3>2 DEF SameAsked, Documents
    <3> QED
      BY <1>5, <2>3, <3>1, <3>3 DEF Found
  <2> QED
    BY <1>7, <2>4, <2>5 DEF AtTool
<1> QED
  BY <1>6, <1>7

LEMMA RetraceableStays ==
  ASSUME NEW r, Stays(r), Retraceable(r) PROVE Retraceable(r)'
<1>1. /\ run'[r] = run[r] /\ args'[r] = args[r] /\ content'[r] = content[r] /\ trace'[r] = trace[r]
      /\ pc'[r] = pc[r] /\ (r \in hurt' <=> r \in hurt)
  BY DEF Stays, RunStays, WorkStays, TraceStays, PcStays, HurtStays
<1>2. ToolSteps(r)' = ToolSteps(r) /\ SearchKey(r)' = SearchKey(r)
      /\ \A label : Passed(r, label)' <=> Passed(r, label)
  BY <1>1 DEF ToolSteps, SearchKey, Passed
<1>3. SearchFails(r)' <=> SearchFails(r)
  BY <1>1, <1>2 DEF SearchFails
<1>4. \A key, result : TracedAs(r, key, result)' <=> TracedAs(r, key, result)
  BY <1>1, <1>2 DEF TracedAs
<1>5. Found(r) => Found(r)'
  BY <1>1, <1>2, <1>3, <1>4 DEF Found
<1> QED
  BY <1>1, <1>5 DEF Retraceable

LEMMA FoundAtFirst ==
  ASSUME NEW r, pc[r] = 0, args[r] = Readme PROVE Found(r)
<1>1. \A label : ~Passed(r, label)
  BY DEF Passed, PassedAt
<1> QED
  BY <1>1 DEF Found

LEMMA FoundBegins ==
  ASSUME NEW r \in Runs, Blank(r), Begins(r) PROVE Found(r)'
<1>1. pc'[r] = 0 /\ args'[r] = Readme
  BY DEF Begins, Blank, PcStays, WorkStays
<1>2. \A label : ~Passed(r, label)'
  BY <1>1 DEF Passed, PassedAt
<1> QED
  BY <1>1, <1>2 DEF Found

LEMMA RetraceableKept ==
  ASSUME Types, NEW r \in Runs, Busy(r), Sourced(r), Fated(r), Retraceable(r),
         AgentStepOf(r), Moves(r)
  PROVE  Retraceable(r)'
<1> SUFFICES ASSUME ~run'[r].changed, r \notin hurt' PROVE Found(r)'
  BY DEF Retraceable
<1> DEFINE key == <<Tool(r), Arguments(r)>>
<1>0. CASE StepLimit(r)
  <2>1. WorkStays(r) /\ PcStays(r) /\ TraceStays(r) /\ run'[r].changed = run[r].changed
    BY <1>0, LimitAt DEF ModelLeaves, FailsWith, Becomes
  <2>2. Found(r) /\ StepsOnce(r)
    BY <2>1 DEF Retraceable, Moves, Fated
  <2> QED
    BY <2>1, <2>2, QuietTrace, FoundQuiet
<1>1. CASE Asks(r) \/ GraphGoesOn(r) \/ ExecutorStops(r) \/ Rejected(r)
  <2>1. ~run[r].changed /\ args'[r] = args[r]
    <3>1. CASE Asks(r) \/ ExecutorStops(r) \/ Rejected(r)
      BY <3>1, ApprovalAt DEF Becomes, FailsWith
    <3>2. CASE GraphGoesOn(r)
      BY <3>2, ApprovalAt DEF Sourced
    <3> QED
      BY <1>1, <3>1, <3>2
  <2>2. WorkStays(r) /\ PcStays(r) /\ TraceStays(r)
    BY <1>1, <2>1, ApprovalAt DEF WorkStays
  <2>3. Found(r) /\ StepsOnce(r)
    BY <2>1 DEF Retraceable, Moves, Fated
  <2> QED
    BY <2>2, <2>3, QuietTrace, FoundQuiet
<1>2. CASE ~(Asks(r) \/ GraphGoesOn(r) \/ ExecutorStops(r) \/ Rejected(r)) /\ ~StepLimit(r)
  <2>0. Found(r) /\ StepsOnce(r) /\ ToBeTraced(r) /\ run[r].status # "failed"
    BY <1>2, OtherSteps DEF Retraceable, Moves, Fated
  <2>1. ASSUME NEW label, label \notin {"search", "read", "probe"}, At(r, label)
        PROVE  \A tool \in {"search", "read", "probe"} : ~Here(Program(r), pc[r], tool)
    BY <2>1, AtHere DEF Here
  <2>2. CASE Build(r)
    <3>1. \A tool \in {"search", "read", "probe"} : ~Here(Program(r), pc[r], tool)
      BY <2>2, BuildAt DEF Here
    <3>2. PcGoesOn(r) /\ WorkStays(r) /\ TraceStays(r)
      BY <2>2, BuildAt
    <3> QED
      BY <2>0, <3>1, <3>2, QuietTrace, FoundQuiet
  <2>3. CASE Note(r)
    <3>1. /\ \A tool \in {"search", "read", "probe"} : ~Here(Program(r), pc[r], tool)
          /\ WorkStays(r) /\ (PcGoesOn(r) \/ PcStays(r))
          /\ trace'[r] \in {trace[r], Append(trace[r], AgentStep(run[r].agent))}
      BY <2>1, <2>3, NoteAt DEF Joins, MayJoin
    <3>2. AgentStep(run[r].agent).type # "tool"
      BY NoteIsNote
    <3> QED
      BY <2>0, <3>1, <3>2, FoundQuiet
  <2>4. CASE CallTool(r) \/ ToolWorks(r)
    <3>1. WorkStays(r) /\ PcStays(r) /\ TraceStays(r)
      BY <2>4, CallToolAt, ToolWorksAt
    <3> QED
      BY <2>0, <3>1, QuietTrace, FoundQuiet
  <2>5. CASE ChaosFails(r)
    <3>1. AtTool(r) /\ Errored(r, "RUN_FAILED") /\ TraceStays(r)
      BY <2>5, ChaosAt
    <3> QED
      BY <2>0, <3>1, FoundFails
  <2>6. CASE RecallTool(r)
    <3>1. CASE Errored(r, "REPLAY_MISMATCH") /\ TraceStays(r)
      BY <2>0, <2>6, <3>1, RecallAt, FoundFails
    <3>2. CASE /\ Recall(r) # None /\ Recall(r).out \in Seq(Words)
               /\ Returned(r, key, Recall(r).out) /\ Joins(r, ToolStep(key, Recall(r).out, None))
      <4>1. frozen[r].tools \in Seq(Steps) /\ key \in ToolKeys /\ AtTool(r)
        BY <2>6, RecallAt, KeyTyped DEF Types, SharedTypes, FrozenRecords
      <4> HIDE DEF key
      <4>2. Recall(r).out # <<>>
        <5>1. Recall(r) = Recalled(frozen[r].tools, key)
          BY DEF Recall, key
        <5> QED
          BY <3>2, <4>1, <5>1, RecalledSound
      <4> DEFINE step == ToolStep(key, Recall(r).out, None)
                 result == Recall(r).out
      <4>3. step.type = "tool" /\ step.key = key /\ step.out = Preview(result)
        BY <3>2, <4>1, OutcomeTyped
      <4>4. trace'[r] = Append(trace[r], step) /\ Returned(r, key, result) /\ result \in Seq(Words)
            /\ result # <<>>
        BY <3>2, <4>2 DEF Joins
      <4>5. key = <<Tool(r), Arguments(r)>>
        BY DEF key
      <4> HIDE DEF step, result
      <4> QED
        BY <2>0, <4>1, <4>3, <4>4, <4>5, FoundReturns
    <3>3. ~(\E step : MayJoin(r, step))
      BY DEF MayJoin
    <3> QED
      BY <2>6, <3>1, <3>2, <3>3, RecallAt
  <2>7. CASE ToolEnds(r)
    <3>1. /\ AtTool(r) /\ Key(call[r]) = key /\ key \in ToolKeys
          /\ call[r].result \in Seq(Words) /\ call[r].code \in Codes \cup {None}
      BY <2>7, ToolEndsAt, KeyTyped DEF Types, ToolTypes, ToolCalls
    <3>2. CASE TraceStays(r) /\ Errored(r, call[r].code)
      BY <2>0, <3>1, <3>2, FoundFails
    <3>3. CASE Joins(r, TracedStep(r)) /\ call[r].code # None /\ Errored(r, call[r].code)
      <4> DEFINE step == TracedStep(r)
      <4>1. step.type = "tool" /\ step.key = key /\ step.out = <<>>
        BY <3>1, <3>3, OutcomeTyped DEF TracedStep
      <4>2. trace'[r] = Append(trace[r], step)
        BY <3>3 DEF Joins
      <4> HIDE DEF step
      <4> QED
        BY <2>0, <3>1, <3>3, <4>1, <4>2, FoundFails
    <3>4. CASE /\ call[r].at = "trace" /\ Joins(r, TracedStep(r)) /\ call[r].code = None
               /\ Returned(r, Key(call[r]), call[r].result)
      <4> DEFINE step == TracedStep(r)
                 result == call[r].result
      <4>1. step.type = "tool" /\ step.key = key /\ step.out = Preview(result)
        BY <3>1, <3>4, OutcomeTyped DEF TracedStep
      <4>2. trace'[r] = Append(trace[r], step) /\ Returned(r, key, result) /\ result \in Seq(Words)
            /\ result # <<>>
        BY <2>0, <3>1, <3>4 DEF Joins, ToBeTraced
      <4>3. key = <<Tool(r), Arguments(r)>>
        OBVIOUS
      <4> HIDE DEF step, result, key
      <4> QED
        BY <2>0, <3>1, <4>1, <4>2, <4>3, FoundReturns
    <3>5. ~(\E step : MayJoin(r, step))
      BY DEF MayJoin
    <3> QED
      BY <2>7, <3>2, <3>3, <3>4, <3>5, ToolEndsAt
  <2>8. CASE \/ CallModel(r) \/ ModelSpeaks(r) \/ ModelEnds(r) \/ ModelFails(r)
             \/ ReplayModel(r) \/ ReplayMisses(r)
    <3>1. WorkStays(r) /\ TraceStays(r) /\ (PcStays(r) \/ PcGoesOn(r)) /\ At(r, "model")
      BY <2>8, CallModelAt, SpeaksAt, EndsAt, ReplayModelAt, MissesAt DEF ModelLeaves, Busy
    <3> QED
      BY <2>0, <2>1, <3>1, QuietTrace, FoundQuiet
  <2>9. CASE RecordModel(r) \/ Complete(r)
    <3>1. /\ WorkStays(r) /\ PcStays(r)
          /\ trace'[r] \in {trace[r], Append(trace[r], ModelStep(r))}
      BY <2>9, LastStepAt DEF Joins, MayJoin, TraceStays
    <3>2. ModelStep(r).type # "tool"
      BY AnswerIsAnswer
    <3> QED
      BY <2>0, <3>1, <3>2, FoundQuiet
  <2> QED
    BY <1>2, <2>2, <2>3, <2>4, <2>5, <2>6, <2>7, <2>8, <2>9 DEF AgentStepOf
<1> QED
  BY <1>0, <1>1, <1>2

-----------------------------------------------------------------------------
(* Why a replay misses.                                                     *)

\* The reasons that MissExplained names.
Reason(r) ==
  \/ SourceIncomplete(r) \/ OtherRequest(r) \/ OtherModel(r) \/ OtherQuestionRecorded(r)
  \/ NothingSaid(r) \/ ResultsNotKept(r) \/ HumanChanged(r) \/ CommitsFailed(r)

\* The agent of a replay works on what its source's did.
Follows(r) ==
  /\ args[r] = IF Passed(r, "search") THEN args[run[r].source] ELSE Readme
  /\ Passed(r, "read") => content[r] = content[run[r].source]

\* A replay that has no reason to miss follows its source and does not miss.
Retraces(r) ==
  Replays(r) /\ ~Reason(r) =>
    /\ run[r].code # "REPLAY_MISMATCH"
    /\ Running(r) => Follows(r)

\* A research agent reads before it asks the model.
LEMMA ReadsFirst ==
  ASSUME NEW q, q.agent \in {"research", "research-chain"}
  PROVE  \E i, j \in 1 .. Len(ProgramOf(q)) :
           ProgramOf(q)[i] = "read" /\ ProgramOf(q)[j] = "model" /\ i < j
<1>1. CASE q.agent = "research" /\ q.input = "a path"
  <2>1. ProgramOf(q) = PathProgram
    BY <1>1 DEF ProgramOf
  <2>2. PathProgram[2] = "read" /\ PathProgram[3] = "model" /\ Len(PathProgram) = 4
    BY DEF PathProgram
  <2> QED
    BY ONLY <2>1, <2>2
<1>2. CASE q.agent = "research" /\ q.input # "a path"
  <2>1. ProgramOf(q) = ResearchProgram
    BY <1>2 DEF ProgramOf
  <2>2. ResearchProgram[3] = "read" /\ ResearchProgram[4] = "model" /\ Len(ResearchProgram) = 5
    BY DEF ResearchProgram
  <2> QED
    BY ONLY <2>1, <2>2
<1>3. CASE q.agent = "research-chain"
  <2>1. ProgramOf(q) = ChainProgram
    BY <1>3 DEF ProgramOf
  <2>2. ChainProgram[3] = "read" /\ ChainProgram[5] = "model" /\ Len(ChainProgram) = 7
    BY DEF ChainProgram
  <2> QED
    BY ONLY <2>1, <2>2
<1> QED
  BY <1>1, <1>2, <1>3

\* What is behind the program when a step of it is reached.
LEMMA Before ==
  ASSUME Types, NEW r \in Runs
  PROVE  /\ At(r, "read") /\ (\E i \in 1 .. Len(Program(r)) : Program(r)[i] = "search") =>
              Passed(r, "search")
         /\ At(r, "model") /\ run[r].agent \in {"research", "research-chain"} => Passed(r, "read")
<1>1. Orderly(Program(r)) /\ pc[r] \in Nat
  BY ItsProgram DEF Types, RunTypes
<1>2. ASSUME At(r, "read"), NEW i \in 1 .. Len(Program(r)), Program(r)[i] = "search"
      PROVE  Passed(r, "search")
  <2>1. Here(Program(r), pc[r], "read")
    BY <1>2, AtHere
  <2>2. ~(pc[r] < i) /\ pc[r] # i
    BY <1>1, <1>2, <2>1 DEF Orderly, Here
  <2>3. i < pc[r]
    BY <1>1, <2>2, i \in 1 .. Len(Program(r))
  <2> QED
    BY <1>2, <2>3 DEF Passed, PassedAt
<1>3. ASSUME At(r, "model"), run[r].agent \in {"research", "research-chain"}
      PROVE  Passed(r, "read")
  <2>1. PICK i, j \in 1 .. Len(Program(r)) :
          Program(r)[i] = "read" /\ Program(r)[j] = "model" /\ i < j
    BY <1>3, ReadsFirst
  <2>2. Here(Program(r), pc[r], "model")
    BY <1>3, AtHere
  <2>3. j = pc[r]
    BY <1>1, <2>1, <2>2 DEF Orderly, Here
  <2> QED
    BY <2>1, <2>3 DEF Passed, PassedAt
<1> QED
  BY <1>2, <1>3

\* At the end everything else is behind the program.
LEMMA AllPassed ==
  ASSUME NEW program, Orderly(program), NEW i \in 1 .. Len(program),
         program[i] \notin {"record", "complete"}
  PROVE  PassedAt(program, Len(program), program[i])
<1>1. i # Len(program)
  BY DEF Orderly
<1>2. i < Len(program)
  BY <1>1 DEF Orderly
<1> QED
  BY <1>2 DEF PassedAt

\* A recorded call is recalled with its whole result, if that was kept.
LEMMA RecallHits ==
  ASSUME NEW steps \in Seq(Steps), NEW key, NEW result \in Seq(Words), result # <<>>,
         NEW i \in StepsOf(steps, "tool"), steps[i].key = key, steps[i].out = Preview(result),
         ~IsCut(steps[i].out),
         \A j, k \in StepsOf(steps, "tool") : LabelOf(steps[j].key) = LabelOf(steps[k].key) => j = k
  PROVE  Recalled(steps, key) # None /\ Recalled(steps, key).out = result
<1>1. Preview(result) = result
  BY UncutPreview
<1>2. steps[i].type = "tool" /\ i \in DOMAIN steps /\ steps[i].out # <<>>
  BY <1>1 DEF StepsOf
<1>3. \A j \in DOMAIN steps : steps[j].type = "tool" /\ steps[j].key = key => j = i
  BY DEF StepsOf
<1>4. Lookup(steps, "tool", key) = steps[i]
  BY <1>2, <1>3, LookupMeets
<1>5. steps[i] # None
  BY <1>2, StepTypes
<1> QED
  BY <1>1, <1>4, <1>5 DEF Recalled

\* What a replay without a reason to miss has of its source.
LEMMA Unhindered ==
  ASSUME Kept, NEW r \in Runs, Replays(r), ~Reason(r), NEW s, s = run[r].source,
         \A q \in Runs : Retraceable(q)
  PROVE  /\ s \in Runs /\ run[r].mock /\ run[s].status = "completed" /\ frozen[r].llm = trace[s]
         /\ pc[r] # 0 => frozen[r].tools = trace[s]
         /\ run[s].agent = run[r].agent /\ run[s].input = run[r].input /\ Program(s) = Program(r)
         /\ frozen[s].turns = frozen[r].turns /\ ModelOf(s) = GeminiModel
         /\ text[s] # <<>> /\ run[r].agent # "plugin"
         /\ pc[s] = Len(Program(s)) /\ Found(s) /\ StepsOnce(s)
         /\ \A i \in ToolSteps(s) : ~IsCut(trace[s][i].out)
<1> USE DEF Reason
<1>1. s \in Runs /\ Loaded(r) /\ Sourced(r) /\ Concluded(s) /\ Fated(s)
  BY DEF Kept, Told, Placed, Types, RunTypes, RunRecords
<1>2. frozen[r].whole /\ run[r].mock
  BY DEF SourceIncomplete, ResultsNotKept
<1>3. /\ run[s].status = "completed" /\ frozen[r].llm = trace[s]
      /\ pc[r] # 0 => frozen[r].tools = trace[s]
  BY <1>1, <1>2 DEF Loaded
<1>4. run[s].agent = run[r].agent /\ frozen[s].turns = frozen[r].turns
  BY DEF OtherRequest
<1>5. run[s].input = run[r].input
  BY <1>1 DEF Sourced
<1>6. Program(s) = Program(r)
  BY <1>4, <1>5 DEF ProgramOf
<1>7. /\ ModelOf(s) = GeminiModel /\ text[s] # <<>> /\ run[r].agent # "plugin"
      /\ \A i \in ToolSteps(s) : ~IsCut(trace[s][i].out)
      /\ ~run[s].changed /\ s \notin hurt
  BY DEF OtherModel, NothingSaid, OtherQuestionRecorded, ResultsNotKept, HumanChanged, CommitsFailed
<1>8. pc[s] = Len(Program(s))
  BY <1>1, <1>3, <1>7 DEF Concluded
<1>9. Found(s) /\ StepsOnce(s)
  BY <1>1, <1>7 DEF Retraceable, Fated
<1> QED
  BY <1>1, <1>2, <1>3, <1>4, <1>5, <1>6, <1>7, <1>8, <1>9

\* A tool call of it is recalled, or is a search that found nothing before; then
\* it works on the same as its source again.
LEMMA RecallsTheSame ==
  ASSUME Kept, NEW r \in Runs, Replays(r), ~Reason(r), \A q \in Runs : Retraceable(q),
         Follows(r), AtTool(r)
  PROVE  LET s == run[r].source
         IN /\ At(r, "search") =>
                 \/ Recall(r) # None /\ FirstHit(Recall(r).out) = args[s]
                 \/ Recall(r) = None /\ Readme = args[s]
            /\ ~At(r, "search") => Recall(r) # None
            /\ At(r, "read") => Recall(r).out = content[s]
<1> DEFINE s == run[r].source
           key == <<Tool(r), Arguments(r)>>
           steps == trace[s]
<1>0. pc[r] # 0
  BY DEF AtTool, At
<1>1. /\ s \in Runs /\ run[s].agent = run[r].agent /\ run[s].input = run[r].input
      /\ Program(s) = Program(r) /\ pc[s] = Len(Program(s)) /\ Found(s) /\ StepsOnce(s)
      /\ frozen[r].tools = trace[s] /\ run[r].agent # "plugin"
      /\ \A i \in ToolSteps(s) : ~IsCut(trace[s][i].out)
  BY <1>0, Unhindered
<1>2. Types /\ Orderly(Program(r)) /\ Suits(Program(r), run[r].agent) /\ steps \in Seq(Steps)
      /\ content[s] \in Seq(Words)
  BY <1>1, ItsProgram DEF Kept, Told, Placed, Types, TraceTypes, RunTypes
<1>3. Recall(r) = Recalled(steps, key)
  BY <1>1 DEF Recall
<1>4. ASSUME NEW label \in {"search", "read", "probe"}, At(r, label) PROVE Passed(s, label)
  <2>1. Here(Program(r), pc[r], label)
    BY <1>4, AtHere
  <2> QED
    BY <1>1, <1>2, <2>1, AllPassed DEF Here, Passed
<1>5. ASSUME NEW result \in Seq(Words), TracedAs(s, key, result)
      PROVE  Recall(r) # None /\ Recall(r).out = result
  <2>1. PICK i \in StepsOf(steps, "tool") :
          steps[i].key = key /\ steps[i].out = Preview(result) /\ ~IsCut(steps[i].out)
    BY <1>1, <1>5 DEF TracedAs, ToolSteps
  <2>2. result # <<>>
    BY <1>5 DEF TracedAs
  <2>3. \A j, k \in StepsOf(steps, "tool") : LabelOf(steps[j].key) = LabelOf(steps[k].key) => j = k
    BY <1>1 DEF StepsOnce, ToolSteps
  <2> HIDE DEF steps, key
  <2> QED
    BY <1>2, <1>3, <2>1, <2>2, <2>3, RecallHits
<1>6. ASSUME At(r, "search")
      PROVE  \/ Recall(r) # None /\ FirstHit(Recall(r).out) = args[s]
             \/ Recall(r) = None /\ Readme = args[s]
  <2>1. key = SearchKey(s) /\ Passed(s, "search")
    BY <1>1, <1>2, <1>4, <1>6, CallsApart DEF SearchKey
  <2>2. CASE \E result \in Documents : TracedAs(s, SearchKey(s), result) /\ args[s] = FirstHit(result)
    BY <1>5, <2>1, <2>2 DEF Documents
  <2>3. CASE SearchFails(s) /\ args[s] = Readme
    <3>1. SUFFICES ASSUME Recall(r) # None PROVE FALSE
      BY <2>3
    <3>2. LabelOf(key) = "search"
      BY <1>6, <1>2, ToolLabel, AtOne
    <3> HIDE DEF key
    <3>3. PICK i \in DOMAIN steps : steps[i].type = "tool" /\ steps[i].key = key /\ steps[i].out # <<>>
      BY <1>2, <1>3, <3>1, RecalledSound
    <3>4. i \in ToolSteps(s)
      BY <3>3 DEF ToolSteps, StepsOf
    <3> QED
      BY <2>3, <3>2, <3>3, <3>4 DEF SearchFails
  <2> QED
    BY <1>1, <2>1, <2>2, <2>3 DEF Found
<1>7. ASSUME At(r, "read") PROVE Recall(r) # None /\ Recall(r).out = content[s]
  <2>1. Passed(s, "read") /\ key = <<"read_file", args[r]>>
    BY <1>2, <1>4, <1>7, CallsApart
  <2>2. args[r] = args[s]
    <3>1. CASE Passed(r, "search")
      BY <3>1 DEF Follows
    <3>2. CASE ~Passed(r, "search")
      <4>1. \A i \in 1 .. Len(Program(s)) : Program(s)[i] # "search"
        BY <1>1, <1>2, <1>7, <3>2, Before
      <4>2. ~Passed(s, "search")
        BY <4>1 DEF Passed, PassedAt
      <4> QED
        BY <1>1, <3>2, <4>2 DEF Found, Follows
    <3> QED
      BY <3>1, <3>2
  <2> QED
    BY <1>1, <1>2, <1>5, <2>1, <2>2 DEF Found
<1>8. ASSUME At(r, "probe") PROVE Recall(r) # None
  <2>1. run[r].agent = "hitl-demo" /\ Passed(s, "probe")
    <3>1. Here(Program(r), pc[r], "probe")
      BY <1>8, AtHere
    <3> QED
      BY <1>1, <1>2, <1>4, <1>8, <3>1 DEF Suits, Here
  <2>2. ~Passed(r, "search") /\ ~Passed(s, "search")
    BY <1>1, <1>2, <2>1 DEF Suits, Passed, PassedAt
  <2>3. key = <<"hitl_probe", args[s]>>
    BY <1>1, <1>2, <1>8, <2>1, <2>2, CallsApart DEF Found, Follows
  <2>4. PICK result \in Documents : TracedAs(s, <<"hitl_probe", args[s]>>, result)
    BY <1>1, <2>1 DEF Found
  <2> QED
    BY <1>5, <2>3, <2>4 DEF Documents
<1> QED
  BY <1>6, <1>7, <1>8 DEF AtTool

\* The answer to its question is recorded.
LEMMA AsksTheSame ==
  ASSUME Kept, NEW r \in Runs, Replays(r), ~Reason(r), \A q \in Runs : Retraceable(q),
         Follows(r), At(r, "model")
  PROVE  Recorded(r) # None
<1> DEFINE s == run[r].source
           steps == trace[s]
           key == <<GeminiModel, Question(r)>>
<1>1. /\ s \in Runs /\ run[s].agent = run[r].agent /\ run[s].input = run[r].input
      /\ run[s].status = "completed" /\ frozen[r].llm = steps
      /\ frozen[s].turns = frozen[r].turns /\ ModelOf(s) = GeminiModel
      /\ text[s] # <<>> /\ run[r].agent # "plugin" /\ pc[s] = Len(Program(s))
  BY Unhindered
<1>2. Types /\ steps \in Seq(Steps) /\ Concluded(s) /\ llm[s].said \in Seq(Words)
  BY <1>1 DEF Kept, Told, Placed, Types, TraceTypes, ModelTypes, ModelCalls
<1>3. run[r].agent # "hitl-demo" /\ run[r].agent \in Agents
  <2>1. Here(Program(r), pc[r], "model")
    BY AtHere
  <2> QED
    BY <1>2, <2>1, ItsProgram DEF Suits, Here, Types, RunTypes, RunRecords
<1>4. text[s] = llm[s].said /\ llm[s].said # <<>> /\ LlmSteps(s) # {} /\ Reply(s) = llm[s].said
  <2>1. text[s] = Reply(s) /\ (~SaidNothing(s) => LlmSteps(s) # {})
    BY <1>1, <1>2 DEF Concluded
  <2>2. Reply(s) = llm[s].said
    BY <1>1, <1>3 DEF Reply
  <2> QED
    BY <1>1, <2>1, <2>2 DEF SaidNothing
<1>5. PICK i \in LlmSteps(s) : LlmSteps(s) = {i} /\ steps[i] = ModelStep(s)
  BY <1>2, <1>4 DEF Concluded
<1>6. Question(s) = Question(r)
  <2>1. CASE run[r].agent = "echo"
    BY <1>1, <2>1 DEF Question
  <2>2. CASE run[r].agent \in {"research", "research-chain"}
    <3>1. content[r] = content[s]
      BY <1>2, <2>2, Before DEF Follows
    <3> QED
      BY <1>1, <2>2, <3>1 DEF Question
  <2> QED
    BY <1>1, <1>3, <2>1, <2>2 DEF Agents
<1>7. RecordedQuestion(s) = Question(r)
  BY <1>1, <1>3, <1>6 DEF RecordedQuestion
<1>8. steps[i].key = key /\ steps[i].out = Preview(llm[s].said) /\ steps[i].type = "llm"
  BY <1>1, <1>4, <1>5, <1>7 DEF ModelStep, LlmStep, Step
<1>9. steps[i].out # <<>>
  BY <1>2, <1>4, <1>8, PreviewKeeps, WordsAssumption
<1>10. /\ i \in DOMAIN steps
       /\ \A j \in DOMAIN steps : steps[j].type = "llm" /\ steps[j].key = key => j = i
  BY <1>5 DEF LlmSteps, StepsOf
<1>11. Recorded(r) = Lookup(steps, "llm", key)
  BY <1>1 DEF Recorded
<1> HIDE DEF steps, key
<1>12. Lookup(steps, "llm", key) = steps[i]
  BY <1>2, <1>8, <1>9, <1>10, LookupMeets
<1>13. steps[i] # None
  BY <1>2, <1>10, StepTypes
<1> QED
  BY <1>11, <1>12, <1>13

\* A reason stays: the source is over, and what failed has failed.
LEMMA ReasonStays ==
  ASSUME Types, NEW r \in Runs, Loaded(r), Replays(r), SameAsked(r), FrozenStays(r),
         r \in hurt => r \in hurt', \A q \in Runs : Grows(q), ~Reason(r)'
  PROVE  ~Reason(r) /\ Stays(run[r].source)
<1> DEFINE s == run[r].source
<1>1. s \in Runs
  BY DEF Types, RunTypes, RunRecords
<1>2. run'[r].source = s /\ frozen'[r] = frozen[r] /\ run'[r].agent = run[r].agent
      /\ (run'[r].mock <=> run[r].mock)
  BY DEF SameAsked, FrozenStays
<1>3. frozen[r].whole
  BY <1>2 DEF Reason, SourceIncomplete
<1>4. Stays(s)
  BY <1>1, <1>3 DEF Loaded, Grows
<1>5. /\ run'[s] = run[s] /\ frozen'[s] = frozen[s] /\ text'[s] = text[s] /\ trace'[s] = trace[s]
      /\ (s \in hurt' <=> s \in hurt)
  BY <1>4 DEF Stays, RunStays, FrozenStays, ModelStays, TraceStays, HurtStays
<1>6. ToolSteps(s)' = ToolSteps(s)
  BY <1>2, <1>5 DEF ToolSteps
<1> HIDE DEF s
<1>7. /\ SourceIncomplete(r) => SourceIncomplete(r)'
      /\ OtherRequest(r) => OtherRequest(r)'
      /\ OtherModel(r) => OtherModel(r)'
      /\ OtherQuestionRecorded(r) => OtherQuestionRecorded(r)'
      /\ NothingSaid(r) => NothingSaid(r)'
  BY <1>2, <1>5 DEF SourceIncomplete, OtherRequest, OtherModel, ModelOf, OtherQuestionRecorded, NothingSaid, s
<1>8. ResultsNotKept(r) => ResultsNotKept(r)'
  BY <1>2, <1>5, <1>6 DEF ResultsNotKept, s
<1>9. HumanChanged(r) => HumanChanged(r)'
  BY <1>2, <1>5 DEF HumanChanged, s
<1>10. CommitsFailed(r) => CommitsFailed(r)'
  BY <1>2, <1>5 DEF CommitsFailed, s
<1> QED
  BY <1>4, <1>7, <1>8, <1>9, <1>10 DEF Reason, s

\* What is left to check of a step that leaves the work, or ends the run.
LEMMA FollowsStays ==
  ASSUME Types, NEW r \in Runs, Busy(r), SameAsked(r), Stays(run[r].source), Follows(r),
         WorkStays(r),
         \/ PcStays(r)
         \/ PcGoesOn(r) /\ ~Here(Program(r), pc[r], "search") /\ ~Here(Program(r), pc[r], "read")
  PROVE  Follows(r)'
<1> DEFINE s == run[r].source
<1>1. args'[s] = args[s] /\ content'[s] = content[s] /\ run'[r].source = s
      /\ args'[r] = args[r] /\ content'[r] = content[r]
  BY DEF Stays, WorkStays, SameAsked
<1>2. (Passed(r, "search")' <=> Passed(r, "search")) /\ (Passed(r, "read")' <=> Passed(r, "read"))
  BY PassedMoves
<1> QED
  BY <1>1, <1>2 DEF Follows

LEMMA RetracesMoves ==
  ASSUME Kept, NEW r \in Runs, AgentStepOf(r), Moves(r), Replays(r), ~Reason(r), Retraces(r),
         pc[r] # 0, \A q \in Runs : Retraceable(q), Stays(run[r].source), r \notin hurt'
  PROVE  run'[r].code # "REPLAY_MISMATCH" /\ (Running(r)' => Follows(r)')
<1> DEFINE s == run[r].source
           Fine == run'[r].code # "REPLAY_MISMATCH" /\ (Running(r)' => Follows(r)')
<1>0. /\ Types /\ Busy(r) /\ SameAsked(r) /\ run[r].status \in {"running", "suspended"}
      /\ run[r].code # "REPLAY_MISMATCH" /\ run[r].mock
      /\ args'[s] = args[s] /\ content'[s] = content[s] /\ run'[r].source = s
  BY Unhindered DEF Kept, Told, Placed, Retraces, Moves, SameAsked, Stays, WorkStays
<1>1. ASSUME Running(r), RunStays(r), WorkStays(r),
             \/ PcStays(r)
             \/ PcGoesOn(r) /\ ~Here(Program(r), pc[r], "search") /\ ~Here(Program(r), pc[r], "read")
      PROVE  Fine
  <2>1. Follows(r)
    BY <1>1 DEF Retraces
  <2>2. Follows(r)'
    BY <1>0, <1>1, <2>1, FollowsStays
  <2> QED
    BY <1>0, <1>1, <2>2 DEF RunStays
<1>2. ASSUME NEW code, code # "REPLAY_MISMATCH", FailsWith(r, code) \/ Becomes(r, "completed", code)
      PROVE  Fine
  BY <1>2 DEF FailsWith, Becomes
<1> SUFFICES Fine
  OBVIOUS
<1> HIDE DEF Fine
<1>3. CASE Build(r)
  BY <1>3, BuildAt, <1>0
<1>4. CASE Note(r)
  <2>1. /\ ~Here(Program(r), pc[r], "search") /\ ~Here(Program(r), pc[r], "read") /\ Running(r)
    BY <1>0, <1>4, NoteAt, AtHere DEF Here
  <2>2. CASE RunStays(r) /\ PcGoesOn(r) /\ WorkStays(r)
    BY <1>1, <2>1, <2>2
  <2>3. CASE FailsWith(r, "RUN_FAILED")
    BY <1>2, <2>3
  <2> QED
    BY <1>0, <1>4, <2>2, <2>3, NoteAt
<1>5. CASE CallTool(r) \/ ChaosFails(r) \/ ToolWorks(r) \/ ToolEnds(r)
  BY <1>0, <1>5, CallToolAt, ChaosAt, ToolWorksAt, ToolEndsAt DEF Busy
<1>6. CASE Asks(r) \/ GraphGoesOn(r) \/ ExecutorStops(r) \/ Rejected(r)
  <2>1. ~Gated(r) /\ run[r].status # "suspended"
    BY <1>0 DEF Gated, Busy
  <2> QED
    BY <1>0, <1>6, <2>1, ApprovalAt
<1>7. CASE CallModel(r) \/ ModelSpeaks(r) \/ ModelEnds(r) \/ ModelFails(r)
  BY <1>0, <1>7, CallModelAt, SpeaksAt, EndsAt DEF Busy
<1>8. CASE ReplayModel(r)
  <2>1. /\ ~Here(Program(r), pc[r], "search") /\ ~Here(Program(r), pc[r], "read") /\ Running(r)
        /\ RunStays(r) /\ PcGoesOn(r) /\ WorkStays(r)
    BY <1>0, <1>8, ReplayModelAt, AtHere DEF Here, ModelLeaves
  <2> QED
    BY <1>1, <2>1
<1>9. CASE ReplayMisses(r)
  <2>1. At(r, "model") /\ Recorded(r) = None /\ Follows(r)
    BY <1>0, <1>9, MissesAt DEF At, Retraces
  <2> QED
    BY <2>1, AsksTheSame
<1>10. CASE RecordModel(r) \/ Complete(r) \/ StepLimit(r)
  BY <1>0, <1>2, <1>10, LastStepAt, LimitAt
<1>11. CASE RecallTool(r)
  <2>1. AtTool(r) /\ Running(r) /\ Follows(r)
    BY <1>0, <1>11, RecallAt DEF AtTool, At, Retraces
  <2>2. /\ At(r, "search") =>
             \/ Recall(r) # None /\ FirstHit(Recall(r).out) = args[s]
             \/ Recall(r) = None /\ Readme = args[s]
        /\ ~At(r, "search") => Recall(r) # None
        /\ At(r, "read") => Recall(r).out = content[s]
    BY <2>1, RecallsTheSame
  <2>3. /\ RunStays(r) /\ PcGoesOn(r)
        /\ \/ At(r, "search") /\ args'[r] = args[s] /\ content'[r] = content[r]
           \/ ~At(r, "search") /\ args'[r] = args[r] /\ content'[r] = Recall(r).out
    <3>1. CASE Recall(r) = None /\ Errored(r, "REPLAY_MISMATCH")
      BY <2>2, <3>1 DEF Errored
    <3>2. CASE Recall(r) # None /\ Returned(r, <<Tool(r), Arguments(r)>>, Recall(r).out)
      BY <2>2, <3>2 DEF Returned
    <3>3. ~MayJoin(r, ToolStep(<<Tool(r), Arguments(r)>>, Recall(r).out, None))
      BY DEF MayJoin
    <3> QED
      BY <1>0, <1>11, <3>1, <3>2, <3>3, RecallAt
  <2>4. /\ Passed(r, "search")' <=> Passed(r, "search") \/ At(r, "search")
        /\ Passed(r, "read")' <=> Passed(r, "read") \/ At(r, "read")
    BY <1>0, <2>1, <2>3, PassedMoves, AtHere
  <2>5. CASE At(r, "search")
    <3>1. ~Passed(r, "read") /\ ~At(r, "read")
      BY <1>0, <2>5, CallsApart, AtOne
    <3>2. Follows(r)'
      BY <1>0, <2>3, <2>4, <2>5, <3>1 DEF Follows
    <3> QED
      BY <1>0, <2>3, <3>2 DEF Fine, RunStays
  <2>6. CASE ~At(r, "search")
    <3>1. Passed(r, "read")' => content'[r] = content[s]
      <4>1. At(r, "probe") => ~Passed(r, "read")
        BY <1>0, CallsApart
      <4>2. At(r, "read") \/ At(r, "probe")
        BY <2>1, <2>6 DEF AtTool
      <4>3. At(r, "probe") => ~At(r, "read")
        BY AtOne
      <4> QED
        BY <2>2, <2>3, <2>4, <2>6, <4>1, <4>2, <4>3
    <3>2. Follows(r)'
      BY <1>0, <2>1, <2>3, <2>4, <2>6, <3>1 DEF Follows
    <3> QED
      BY <1>0, <2>3, <3>2 DEF Fine, RunStays
  <2> QED
    BY <2>5, <2>6
<1> QED
  BY <1>3, <1>4, <1>5, <1>6, <1>7, <1>8, <1>9, <1>10, <1>11 DEF AgentStepOf

LEMMA RetracesStays ==
  ASSUME Types, NEW r \in Runs, Busy(r), Loaded(r), Stays(r), Retraces(r),
         \A q \in Runs : Grows(q)
  PROVE  Retraces(r)'
<1> SUFFICES ASSUME Replays(r)', ~Reason(r)'
             PROVE  run'[r].code # "REPLAY_MISMATCH" /\ (Running(r)' => Follows(r)')
  BY DEF Retraces
<1>1. /\ run'[r] = run[r] /\ SameAsked(r) /\ FrozenStays(r) /\ WorkStays(r) /\ PcStays(r)
      /\ r \in hurt => r \in hurt'
  BY DEF Stays, RunStays, SameAsked, HurtStays
<1>2. Replays(r) /\ ~Reason(r) /\ Stays(run[r].source)
  BY <1>1, ReasonStays
<1>3. run[r].code # "REPLAY_MISMATCH" /\ (Running(r) => Follows(r))
  BY <1>2 DEF Retraces
<1> QED
  BY <1>1, <1>2, <1>3, FollowsStays

LEMMA FollowsAtFirst ==
  ASSUME NEW r, pc'[r] \in {0, 1}, args'[r] = Readme PROVE Follows(r)'
<1>1. \A i \in 1 .. Len(Program(r)') : ~(i < pc'[r])
  OBVIOUS
<1>2. ~Passed(r, "search")' /\ ~Passed(r, "read")'
  BY <1>1 DEF Passed, PassedAt
<1> QED
  BY <1>2 DEF Follows

LEMMA RetracesKept ==
  ASSUME Kept, Types', NEW r \in Runs, Retraces(r), \A q \in Runs : Retraceable(q),
         Stays(r) \/ Begins(r) \/ (AgentStepOf(r) /\ Moves(r)),
         \A q \in Runs : Grows(q)
  PROVE  Retraces(r)'
<1>0. Types /\ Blank(r) /\ Busy(r) /\ Loaded(r) /\ Sourced(r)
  BY DEF Kept, Told, Placed
<1>1. CASE Stays(r)
  BY <1>0, <1>1, RetracesStays
<1>2. CASE Begins(r)
  <2>1. pc'[r] = 0 /\ args'[r] = Readme /\ run'[r].code # "REPLAY_MISMATCH"
    BY <1>0, <1>2, CodesAssumption DEF Begins, Blank, PcStays, WorkStays, Asked, Codes
  <2> QED
    BY <2>1, FollowsAtFirst DEF Retraces
<1>3. CASE AgentStepOf(r) /\ Moves(r) /\ pc[r] = 0
  <2>1. Build(r)
    BY <1>0, <1>3, OnlyBuilds
  <2>2. /\ pc'[r] = 1 /\ args'[r] = Readme /\ run'[r] = run[r] /\ Running(r)
    BY <1>0, <1>3, <2>1, BuildAt DEF PcGoesOn, WorkStays, RunStays, Sourced
  <2>3. run'[r].code # "REPLAY_MISMATCH"
    BY <1>0, <2>2, CodesAssumption DEF Busy, Codes
  <2> QED
    BY <2>2, <2>3, FollowsAtFirst DEF Retraces
<1>4. CASE AgentStepOf(r) /\ Moves(r) /\ pc[r] # 0
  <2> SUFFICES ASSUME Replays(r)', ~Reason(r)'
               PROVE  run'[r].code # "REPLAY_MISMATCH" /\ (Running(r)' => Follows(r)')
    BY DEF Retraces
  <2>1. SameAsked(r) /\ FrozenStays(r) /\ (r \in hurt => r \in hurt') /\ Replays(r)
    BY <1>4 DEF Moves, SameAsked
  <2>2. ~Reason(r) /\ Stays(run[r].source)
    BY <1>0, <2>1, ReasonStays
  <2>3. r \notin hurt'
    BY DEF Reason, CommitsFailed
  <2> QED
    BY <1>4, <2>1, <2>2, <2>3, RetracesMoves
<1> QED
  BY <1>1, <1>2, <1>3, <1>4

-----------------------------------------------------------------------------

Traceable == Kept /\ \A r \in Runs : Retraceable(r) /\ Retraces(r)

LEMMA TraceableInvariant == Spec => []Traceable
<1>1. Init => Traceable
  <2> SUFFICES ASSUME Init, NEW r \in Runs PROVE Retraceable(r) /\ Retraces(r)
    BY KeptAtFirst DEF Traceable
  <2>1. pc[r] = 0 /\ args[r] = Readme /\ ~Replays(r)
    BY DEF Init, NoRun
  <2> QED
    BY <2>1, FoundAtFirst DEF Retraceable, Retraces
<1>2. Traceable /\ [Next]_vars => Traceable'
  <2> SUFFICES ASSUME Traceable, [Next]_vars PROVE Traceable'
    OBVIOUS
  <2>1. /\ Kept /\ Kept' /\ Types /\ Types' /\ \A r \in Runs : Retraceable(r) /\ Retraces(r)
        /\ \A r \in Runs : Blank(r) /\ Busy(r) /\ Sourced(r) /\ Fated(r)
    BY KeptKept DEF Traceable, Kept, Told, Placed
  <2>2. \A r \in Runs : Stays(r) \/ Begins(r) \/ (AgentStepOf(r) /\ Moves(r))
    BY <2>1, NextCases
  <2>3. \A r \in Runs : Grows(r)
    BY <2>1, <2>2, AllGrow
  <2>4. ASSUME NEW r \in Runs PROVE Retraceable(r)' /\ Retraces(r)'
    <3>1. Retraces(r)'
      BY <2>1, <2>2, <2>3, RetracesKept
    <3>2. CASE Stays(r)
      BY <2>1, <3>1, <3>2, RetraceableStays
    <3>3. CASE Begins(r)
      BY <2>1, <3>1, <3>3, FoundBegins DEF Retraceable
    <3>4. CASE AgentStepOf(r) /\ Moves(r)
      BY <2>1, <3>1, <3>4, RetraceableKept
    <3> QED
      BY <2>2, <3>2, <3>3, <3>4
  <2> QED
    BY <2>1, <2>4 DEF Traceable
<1> QED
  BY <1>1, <1>2, PTL DEF Spec

LEMMA TraceableMisses == Traceable => MissExplained
<1> SUFFICES ASSUME Traceable, NEW r \in ReplayRuns, run[r].code = "REPLAY_MISMATCH" PROVE Reason(r)
  BY DEF MissExplained, Reason
<1>1. r \in Runs /\ Retraces(r) /\ Sourced(r) /\ Types /\ Blank(r) /\ Busy(r)
  BY DEF Traceable, Kept, Told, Placed, Runs
<1>2. run[r].status # "none"
  BY <1>1, CodesAssumption DEF Busy, Codes
<1> QED
  BY <1>1, <1>2 DEF Sourced, Retraces

\* A replay misses for a reason: asked again of a completed run and of the same
\* agent, with recorded tools and the model's default name, whose results fit
\* into previews and were not changed by a human, when no commit of a step
\* failed, it finds the answer to every question that it asks.
THEOREM MissIsExplained == Spec => []MissExplained
BY TraceableInvariant, TraceableMisses, PTL
=============================================================================
