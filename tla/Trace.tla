-------------------------------- MODULE Trace --------------------------------
(***************************************************************************)
(* The trace of a run: append-only steps that the orchestrator and the     *)
(* tools write, each in a commit of its own, and that replays read.        *)
(*                                                                         *)
(* A text is a sequence of pieces.  A step's key stands for the hash of    *)
(* what was asked, which is taken over the whole of it; what was answered  *)
(* is kept as a preview only.                                              *)
(***************************************************************************)
EXTENDS Naturals, Sequences

CONSTANTS
  LiveRuns, ReplayRuns,   \* runs, and runs that replay another
  None,                   \* no step, no usage, no error
  Words,                  \* the pieces of a text
  PreviewLength,          \* max_len of a preview, in pieces
  MaxFaults               \* bound: failed commits, failed tools and edits of files

Runs == LiveRuns \cup ReplayRuns

ASSUME RunsAssumption == LiveRuns \cap ReplayRuns = {} /\ None \notin Runs
ASSUME PreviewAssumption == PreviewLength \in Nat \ {0}
ASSUME FaultsAssumption == MaxFaults \in Nat

VARIABLES
  trace,                  \* trace_steps, by run in the order of started_at
  faults,                 \* the failures so far, bounded by MaxFaults
  hurt                    \* history: runs that a failing commit of a step hit

traceVars == <<trace, faults, hurt>>

TraceInit ==
  /\ trace = [r \in Runs |-> <<>>]
  /\ faults = 0
  /\ hurt = {}

-----------------------------------------------------------------------------

Dots == "..."

Preview(text) ==
  IF Len(text) <= PreviewLength THEN text
  ELSE Append(SubSeq(text, 1, PreviewLength - 1), Dots)

\* A cut preview of a result is not JSON any more.
IsCut(preview) == preview # <<>> /\ preview[Len(preview)] = Dots

Step(type, key, output, code, usage) ==
  [type |-> type, key |-> key, out |-> Preview(output), code |-> code, usage |-> usage]

AgentStep(node) == Step("agent", <<node>>, <<>>, None, None)
LlmStep(key, output, usage) == Step("llm", key, output, None, usage)

\* A failed call has no result, and so an empty preview.
ToolStep(key, result, code) ==
  Step("tool", key, IF code = None THEN result ELSE <<>>, code, None)

StepsOf(steps, type) == {i \in DOMAIN steps : steps[i].type = type}

-----------------------------------------------------------------------------

Fault == faults < MaxFaults /\ faults' = faults + 1

\* Appending a step: it is committed, or the commit fails and is rolled back,
\* or the commit takes place and its confirmation is lost; then Else follows.
Record(r, step, Then, Else) ==
  \/ /\ trace' = [trace EXCEPT ![r] = Append(@, step)]
     /\ Then
     /\ UNCHANGED <<faults, hurt>>
  \/ /\ Fault
     /\ trace' \in {trace, [trace EXCEPT ![r] = Append(@, step)]}
     /\ hurt' = hurt \cup {r}
     /\ Else

-----------------------------------------------------------------------------
(* Replay looks a question up by its key; of equal keys the last counts.    *)

Newest(places) == {i \in places : \A j \in places : j <= i}

Lookup_LastOfType(steps, type, key) ==
  LET last == Newest(StepsOf(steps, type))
  IN IF \E i \in last : steps[i].out # <<>> THEN steps[CHOOSE i \in last : TRUE] ELSE None

Lookup(steps, type, key) ==
  LET last == Newest({i \in StepsOf(steps, type) : steps[i].key = key})
  IN IF \E i \in last : steps[i].out # <<>> THEN steps[CHOOSE i \in last : TRUE] ELSE None

=============================================================================
