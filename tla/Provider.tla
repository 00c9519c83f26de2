------------------------------- MODULE Provider -------------------------------
(***************************************************************************)
(* A model call through the chain that get_provider builds: privacy proxy, *)
(* metering, router, and the provider of the policy with the mock behind   *)
(* it.  An answer comes in pieces: a stream hands each of them on at once, *)
(* and what is handed on cannot be taken back when the provider breaks off *)
(* and is tried again or replaced.                                         *)
(***************************************************************************)
EXTENDS Trace

CONSTANTS
  Configs,       \* settings: failover, privacy proxy, human approval
  MaxPieces,     \* bound: pieces of an answer
  Attempts       \* attempts that GeminiProvider makes

Sources == {"primary", "mock"}

ASSUME ConfigsAssumption == Configs \subseteq [failover : BOOLEAN, privacy : BOOLEAN, hitl : BOOLEAN]
ASSUME WordsAssumption == Sources \cup {Dots} \subseteq Words
ASSUME CallsAssumption == MaxPieces \in Nat /\ Attempts \in Nat \ {0} /\ None \notin Nat
ASSUME ModelsAssumption == None \notin {"gemini", "gpt", "another"}

VARIABLES
  config,        \* the settings of the process
  llm,           \* the model call of a run
  text,          \* tokens that reached the client: output_parts of RunService
  metered        \* what MeteringProvider keeps for pop_usage

providerVars == <<llm, text, metered>>

Kinds == {"mock", "gemini", "openai", "groq", "anthropic"}

\* The model that replays look up is settings.gemini_model.  A step has the name
\* that the policy gives, or else OpenAI's or, for every other provider, Gemini's.
Models == {"gemini", "gpt", "another"}
GeminiModel == "gemini"
ResolvedModel(kind, model) ==
  IF model # None THEN model ELSE IF kind = "openai" THEN "gpt" ELSE GeminiModel

NoCall == [on |-> FALSE, kind |-> "mock", streams |-> FALSE, source |-> "mock",
           attempt |-> 1, got |-> 0, said |-> <<>>, retried |-> FALSE]

ProviderInit ==
  /\ config \in Configs
  /\ llm = [r \in Runs |-> NoCall]
  /\ text = [r \in Runs |-> <<>>]
  /\ metered = [r \in Runs |-> None]

ProviderTypeOK ==
  /\ config \in [failover : BOOLEAN, privacy : BOOLEAN, hitl : BOOLEAN]
  /\ llm \in [Runs -> [on : BOOLEAN, kind : Kinds, streams : BOOLEAN,
                       source : Sources, attempt : 1 .. Attempts,
                       got : 0 .. MaxPieces, said : Seq(Words),
                       retried : BOOLEAN]]
  /\ metered \in [Runs -> Nat \cup {None}]

-----------------------------------------------------------------------------

\* Gemini without a key is the mock, too.
Call(r, kind, streams) ==
  /\ llm' = [llm EXCEPT ![r] =
       [NoCall EXCEPT !.on = TRUE, !.kind = kind, !.streams = streams,
                      !.source = IF kind = "mock" THEN "mock" ELSE "primary"]]
  /\ UNCHANGED <<text, metered>>

Piece(r) ==
  /\ llm[r].on /\ llm[r].got < MaxPieces
  /\ llm' = [llm EXCEPT ![r].got = @ + 1, ![r].said = Append(@, llm[r].source)]
  /\ text' = IF llm[r].streams
             THEN [text EXCEPT ![r] = Append(@, llm[r].source)] ELSE text
  /\ UNCHANGED metered

\* A call starts again, at the same provider or the next: a stream goes on from
\* what it has said, a completion has said nothing yet.
Again_Forgetful(r, source, attempt) ==
  [llm[r] EXCEPT !.source = source, !.attempt = attempt, !.got = 0,
                 !.retried = @ \/ source = "primary", !.said = <<>>]

Again(r, source, attempt) ==
  [llm[r] EXCEPT !.source = source, !.attempt = attempt, !.got = 0,
                 !.retried = @ \/ source = "primary",
                 !.said = IF llm[r].streams THEN @ ELSE <<>>]

Breaks(r) == llm[r].on /\ llm[r].source = "primary" /\ UNCHANGED <<text, metered>>

\* A transient error, which only Gemini's adapter retries.
GeminiRetries(r) ==
  /\ Breaks(r)
  /\ llm[r].kind = "gemini" /\ llm[r].attempt < Attempts
  /\ llm' = [llm EXCEPT ![r] = Again(r, "primary", llm[r].attempt + 1)]

RouterFailsOver(r) ==
  /\ Breaks(r)
  /\ config.failover
  /\ llm' = [llm EXCEPT ![r] = Again(r, "mock", llm[r].attempt)]

ProviderRaises(r) ==
  /\ Breaks(r)
  /\ ~config.failover
  /\ llm' = [llm EXCEPT ![r].on = FALSE]

-----------------------------------------------------------------------------
(* Usage: output tokens, one for each piece.                                *)

OpenAIUsage(r) == llm[r].got
GeminiUsage(r) == llm[r].got

\* Anthropic's adapter counts at least one token, even of an empty stream.
AnthropicUsage(r) == IF llm[r].streams /\ llm[r].got = 0 THEN 1 ELSE llm[r].got

EstimatedUsage(said) == Len(said)

CollectUsage_OfFallback(r) == llm[r].got

\* The router's primary is asked; it has no usage when it failed.
CollectUsage(r) ==
  IF llm[r].source = "mock" THEN EstimatedUsage(llm[r].said)
  ELSE CASE llm[r].kind \in {"openai", "groq"} -> OpenAIUsage(r)
         [] llm[r].kind = "anthropic" -> AnthropicUsage(r)
         [] OTHER -> GeminiUsage(r)

\* The mock never answers nothing.
Answered(r) ==
  /\ llm[r].on
  /\ llm[r].source = "mock" => llm[r].got > 0
  /\ llm' = [llm EXCEPT ![r].on = FALSE]
  /\ metered' = [metered EXCEPT ![r] = CollectUsage(r)]
  /\ UNCHANGED text

\* The privacy proxy has no usage to pop.
PopUsage(r) == IF config.privacy THEN None ELSE metered[r]

=============================================================================
