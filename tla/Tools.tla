-------------------------------- MODULE Tools --------------------------------
(***************************************************************************)
(* A tool call through the executors that build_tool_executor stacks: the  *)
(* registry runs the handler, the persisting executor books the call as a  *)
(* row of tool_calls, the tracing executor records it as a step.  Handler, *)
(* row and step are three moments, and each may fail after the one before. *)
(***************************************************************************)
EXTENDS Provider

CONSTANTS MaxTries        \* attempts of a retryable tool: MAX_RETRIES + 1

VARIABLES
  call,          \* the tool call of a run
  rows,          \* tool_calls of a run
  heard          \* history: the calls an agent got the result of

toolVars == <<call, rows, heard>>

Retryable == {"search_workspace", "http_request"}

\* The errors that the tracing executor records.
TracedCodes == {"TOOL_PERMISSION_DENIED", "TOOL_TIMEOUT", "TOOL_NOT_FOUND"}
Codes == TracedCodes \cup {"TOOL_ERROR", "REPLAY_MISMATCH", "GRAPH_STEP_LIMIT", "RUN_FAILED"}

ASSUME TriesAssumption == MaxTries \in Nat \ {0}
ASSUME CodesAssumption == None \notin Codes

Moments == {"none", "handler", "trace", "raised"}

NoTool == [at |-> "none", tool |-> "", args |-> None, tries |-> 0, result |-> <<>>, code |-> None]

ToolsInit ==
  /\ call = [r \in Runs |-> NoTool]
  /\ rows = [r \in Runs |-> <<>>]
  /\ heard = [r \in Runs |-> <<>>]

ToolsTypeOK ==
  \A r \in Runs :
    /\ call[r].at \in Moments /\ call[r].tries \in 0 .. MaxTries
    /\ call[r].code \in Codes \cup {None}
    /\ \A i \in 1 .. Len(rows[r]) : rows[r][i].code \in Codes \cup {None}

Key(c) == <<c.tool, c.args>>

-----------------------------------------------------------------------------
(* RegistryToolExecutor.                                                    *)

Invoke(r, tool, args) ==
  /\ call' = [call EXCEPT ![r] = [NoTool EXCEPT !.at = "handler", !.tool = tool,
                                                !.args = args, !.tries = 1]]
  /\ UNCHANGED <<traceVars, rows, heard>>

Handling(r) == call[r].at = "handler" /\ UNCHANGED <<trace, hurt, heard>>

Retries(r) == call[r].tool \in Retryable /\ call[r].tries < MaxTries

\* The handler's thread goes on, whatever becomes of the call.
HandlerRetried(r) ==
  /\ Handling(r) /\ Retries(r)
  /\ call' = [call EXCEPT ![r].tries = @ + 1]
  /\ UNCHANGED <<faults, rows>>

-----------------------------------------------------------------------------
(* PersistingToolExecutor, and the tracing executor's choice of errors.     *)

Booked(r, result, code) ==
  rows' = [rows EXCEPT ![r] = Append(@, [key |-> Key(call[r]), result |-> result, code |-> code])]

Left(r, moment, result, code) ==
  call' = [call EXCEPT ![r].at = moment, ![r].result = result, ![r].code = code]

\* A call that fails is booked, and goes on to its step if the error is recorded.
Fails(r, code) ==
  /\ Booked(r, <<>>, code)
  /\ Left(r, IF code \in TracedCodes THEN "trace" ELSE "raised", <<>>, code)

\* Booking that fails may yet have booked.
BookingFails(r, result, code) ==
  /\ Booked(r, result, code) \/ UNCHANGED rows
  /\ Left(r, "raised", <<>>, "RUN_FAILED")

\* A second record of the call, made although the first one was committed.
HandlerReturns_Twice(r, result) ==
  /\ Handling(r)
  /\ \/ Booked(r, result, None) /\ Left(r, "trace", result, None) /\ UNCHANGED faults
     \/ /\ Fault
        /\ rows' = [rows EXCEPT ![r] = @ \o <<[key |-> Key(call[r]), result |-> result, code |-> None],
                                  [key |-> Key(call[r]), result |-> result, code |-> "TOOL_ERROR"]>>]
        /\ Left(r, "raised", <<>>, "TOOL_ERROR")

\* When booking a success fails, the same record is booked as an error: that
\* succeeds if the first attempt did not book, conflicts if it did, or fails too.
HandlerReturns(r, result) ==
  /\ Handling(r)
  /\ \/ Booked(r, result, None) /\ Left(r, "trace", result, None) /\ UNCHANGED faults
     \/ Fault /\ Booked(r, result, "TOOL_ERROR") /\ Left(r, "raised", <<>>, "TOOL_ERROR")
     \/ Fault /\ BookingFails(r, result, None)

\* A tool that the manifest does not list or that is not registered; the last
\* timeout; a missing file, a path outside of the workspace, ...
HandlerFails(r) ==
  /\ Handling(r)
  /\ Fault
  /\ \E code \in TracedCodes \cup {"TOOL_ERROR"} :
       /\ code = "TOOL_TIMEOUT" => ~Retries(r)
       /\ code \in {"TOOL_PERMISSION_DENIED", "TOOL_NOT_FOUND"} => call[r].tries = 1
       /\ Fails(r, code) \/ BookingFails(r, <<>>, code)

Handler(r) == HandlerRetried(r) \/ HandlerFails(r)

-----------------------------------------------------------------------------
(* TracingToolExecutor and MockToolExecutor: the step of a call.            *)

TracedStep(r) == ToolStep(Key(call[r]), call[r].result, call[r].code)

Recalled(steps, key) ==
  LET step == Lookup(steps, "tool", key)
  IN IF step = None THEN None ELSE IF IsCut(step.out) THEN None ELSE step
=============================================================================
