------------------------------- MODULE HotMemory -------------------------------
(***************************************************************************)
(* The history of a conversation in Redis.  A run that completed appends   *)
(* its question and its answer; echo reads the recent turns and, when they *)
(* have become many, replaces all turns by a summary.  Each is a series of *)
(* commands.  Within a process nothing comes between them; the processes   *)
(* of the runtime share the key.                                           *)
(***************************************************************************)
EXTENDS Naturals, Sequences, SequencesExt, FiniteSets

CONSTANTS
  Processes,
  MaxSpeakers,    \* bound: runs of the conversation
  Limit,          \* hot_memory_turn_limit
  Threshold,      \* compactor_turn_threshold, with turns that are long enough
  MaxFacts,       \* turns that a summary quotes
  Lengths,        \* of each turn: less than a quotation needs, or more than one takes
  MaxBroken,      \* bound: processes that break off, expiries
  Nobody

ASSUME CompactorAssumption ==
  /\ Threshold \in Nat /\ Limit \in Nat /\ MaxFacts \in Nat
  /\ 1 < Threshold /\ Threshold <= Limit /\ 0 < MaxFacts
ASSUME SpeakersAssumption ==
  MaxSpeakers \in Nat /\ MaxBroken \in Nat /\ Nobody \notin 1 .. MaxSpeakers
ASSUME LengthsAssumption ==
  Lengths \in [(1 .. MaxSpeakers) \X {"user", "assistant"} -> {"short", "whole", "long"}]

VARIABLES
  list,           \* the turns under the key
  ttl,            \* the key will expire
  op,             \* what a process is about
  asked,          \* runs that have appended their question, or tried to
  kept,           \* runs that have appended both turns
  broken,         \* failures and expiries so far
  reasons         \* history: why turns are not kept

hotVars == <<list, ttl, op, asked, kept, broken, reasons>>

Speakers == 1 .. MaxSpeakers

Turn(r, role) == [run |-> r, role |-> role, text |-> Lengths[<<r, role>>], facts |-> {}]
Summary(facts) == [run |-> Nobody, role |-> "assistant", text |-> "long", facts |-> facts]

Idle == [doing |-> "nothing", run |-> Nobody, read |-> <<>>]

HotTypeOK ==
  /\ \A p \in Processes :
       /\ op[p].doing \in {"nothing", "answer", "delete", "summary"}
       /\ op[p].run \in Speakers <=> op[p].doing = "answer"
       /\ op[p].read # <<>> <=> op[p].doing \in {"delete", "summary"}
  /\ asked \in 0 .. MaxSpeakers /\ kept \subseteq 1 .. asked
  /\ broken \in 0 .. MaxBroken

HotInit ==
  /\ list = <<>>
  /\ ttl = FALSE
  /\ op = [p \in Processes |-> Idle]
  /\ asked = 0
  /\ kept = {}
  /\ broken = 0
  /\ reasons = {}

Broken == broken < MaxBroken /\ broken' = broken + 1

-----------------------------------------------------------------------------

\* RPUSH, then EXPIRE: a process that breaks off between the two leaves a key
\* that keeps the lifetime it had, or none.
Push(p, turn, next) ==
  \/ /\ list' = Append(list, turn) /\ ttl' = TRUE
     /\ op' = [op EXCEPT ![p] = next]
     /\ UNCHANGED <<broken, reasons>>
  \/ /\ Broken
     /\ list' \in {list, Append(list, turn)} /\ UNCHANGED ttl
     /\ op' = [op EXCEPT ![p] = Idle]
     /\ reasons' = reasons \cup {"broken off"}

\* persist_run_turns, of the next run that completes.
AppendQuestion(p) ==
  /\ op[p] = Idle /\ asked < MaxSpeakers
  /\ asked' = asked + 1
  /\ Push(p, Turn(asked', "user"), [Idle EXCEPT !.doing = "answer", !.run = asked'])
  /\ UNCHANGED kept

AppendAnswer(p) ==
  /\ op[p].doing = "answer"
  /\ Push(p, Turn(op[p].run, "assistant"), Idle)
  /\ kept' = IF broken' = broken THEN kept \cup {op[p].run} ELSE kept
  /\ UNCHANGED asked

-----------------------------------------------------------------------------

RecentTurns == SubSeq(list, IF Len(list) > Limit THEN Len(list) - Limit + 1 ELSE 1, Len(list))

Quotable(turn) == turn.text # "short"
Beginning(turn) == [turn EXCEPT !.text = IF @ = "long" THEN "begun" ELSE @]

QuotableAmong(turns, n) == Cardinality({k \in 1 .. n : Quotable(turns[k])})

Facts_OffByOne(turns) ==
  {Beginning(turns[i]) : i \in {k \in 1 .. Len(turns) :
     Quotable(turns[k]) /\ turns[k].run # Nobody /\ QuotableAmong(turns, k) < MaxFacts}}

\* An earlier summary takes the place of a quotation.  What is quoted of it is its
\* beginning, which is its heading and no fact.
Facts(turns) ==
  {Beginning(turns[i]) : i \in {k \in 1 .. Len(turns) :
     Quotable(turns[k]) /\ turns[k].run # Nobody /\ QuotableAmong(turns, k) <= MaxFacts}}

\* maybe_compact_history reads the recent turns.
ReadTurns(p) ==
  /\ op[p] = Idle
  /\ Len(RecentTurns) >= Threshold
  /\ op' = [op EXCEPT ![p] = [Idle EXCEPT !.doing = "delete", !.read = RecentTurns]]
  /\ reasons' = reasons
       \cup {why \in {"beyond the limit"} : Len(list) > Limit}
       \cup {why \in {"not quoted"} : QuotableAmong(RecentTurns, Len(RecentTurns)) > MaxFacts}
       \cup {why \in {"too short"} : \E i \in 1 .. Len(RecentTurns) : ~Quotable(RecentTurns[i])}
       \cup {why \in {"cut"} : \E i \in 1 .. Len(RecentTurns) :
                                RecentTurns[i].text = "long" /\ RecentTurns[i].run # Nobody}
       \cup {why \in {"summary of a summary"} :
               \E i \in 1 .. Len(RecentTurns) : RecentTurns[i].run = Nobody}
  /\ UNCHANGED <<list, ttl, asked, kept, broken>>

\* DEL: with it goes what came since the turns were read.
DeleteTurns(p) ==
  /\ op[p].doing = "delete"
  /\ list' = <<>> /\ ttl' = FALSE
  /\ \/ /\ op' = [op EXCEPT ![p].doing = "summary"] /\ UNCHANGED broken
        /\ reasons' = reasons \cup {why \in {"overtaken"} : RecentTurns # op[p].read}
     \/ Broken /\ op' = [op EXCEPT ![p] = Idle] /\ reasons' = reasons \cup {"broken off"}
  /\ UNCHANGED <<asked, kept>>

PushSummary(p) ==
  /\ op[p].doing = "summary"
  /\ Push(p, Summary(Facts(op[p].read)), Idle)
  /\ UNCHANGED <<asked, kept>>

Expire ==
  /\ ttl /\ Broken
  /\ list' = <<>> /\ ttl' = FALSE
  /\ reasons' = reasons \cup {"expired"}
  /\ UNCHANGED <<op, asked, kept>>

HotNext ==
  \/ \E p \in Processes : \/ AppendQuestion(p) \/ AppendAnswer(p)
                          \/ ReadTurns(p) \/ DeleteTurns(p) \/ PushSummary(p)
  \/ Expire

HotSpec == HotInit /\ [][HotNext]_hotVars

-----------------------------------------------------------------------------

Remembered(turn) ==
  \E i \in 1 .. Len(list) : list[i] = turn \/ turn \in list[i].facts

InSummary(turn) ==
  \E p \in Processes : op[p].doing = "summary" /\ turn \in Facts(op[p].read)

(* No turn is lost without a reason.  What a run has appended is in the     *)
(* history, is quoted in its summary or is on its way into it: a long turn  *)
(* by its beginning once turns were summarised, and a turn that is too      *)
(* short to be quoted not at all.  It may be otherwise when the history was *)
(* longer than what is read or than what is quoted, was summarised twice,   *)
(* expired, was appended to by another process during the replacement, or a *)
(* process broke off.  An answer that is in the history with its question   *)
(* comes after it; and a history that is left alone expires, unless a       *)
(* process broke off before it said so.                                     *)
TurnsKept ==
  /\ reasons \subseteq {"too short", "cut"} =>
       \A r \in kept, role \in {"user", "assistant"} :
         LET turn == Turn(r, role)
         IN  \/ Remembered(turn)
             \/ /\ Remembered(Beginning(turn)) \/ InSummary(Beginning(turn))
                /\ turn.text = "long" => "cut" \in reasons
             \/ turn.text = "short" /\ "too short" \in reasons
  /\ \A i, k \in 1 .. Len(list) :
       list[i].run = list[k].run /\ list[i].run # Nobody
         /\ list[i].role = "user" /\ list[k].role = "assistant" => i < k
  /\ list # <<>> /\ "broken off" \notin reasons => ttl
=============================================================================
