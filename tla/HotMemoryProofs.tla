---------------------------- MODULE HotMemoryProofs ----------------------------
(***************************************************************************)
(* No turn of a conversation is lost without a reason, for any number of   *)
(* processes, runs and failures and any limits of the compactor.           *)
(*                                                                         *)
(* The argument is about a process that has read the history and is about  *)
(* to delete it.  What it read is still the beginning of the history, or   *)
(* none of it is there any more, as a turn is pushed only once; if the     *)
(* recent turns are what it read, it therefore has read all of them.       *)
(***************************************************************************)
EXTENDS HotMemory, SequenceTheorems, FiniteSetTheorems, TLAPS

Roles == {"user", "assistant"}
Turns == {Turn(r, role) : r \in Speakers, role \in Roles}
Beginnings == {Beginning(turn) : turn \in Turns}
Entries == Turns \cup {Summary(facts) : facts \in SUBSET Beginnings}

Operations == [doing : {"nothing", "answer", "delete", "summary"},
               run : Speakers \cup {Nobody}, read : Seq(Entries)]

Types ==
  /\ list \in Seq(Entries)
  /\ op \in [Processes -> Operations]
  /\ asked \in 0 .. MaxSpeakers
  /\ kept \subseteq Speakers
  /\ broken \in Nat
  /\ \A p \in Processes : op[p].doing = "answer" => op[p].run \in 1 .. asked

\* The turns that have been pushed, and will not be again.
PushedTurns ==
  {turn \in Turns :
     /\ turn.run \in 1 .. asked
     /\ turn.role = "assistant" =>
          \A p \in Processes : ~(op[p].doing = "answer" /\ op[p].run = turn.run)}

ListIsPushed == \A i \in 1 .. Len(list) : list[i] \in Turns => list[i] \in PushedTurns

ReadIsPushed ==
  \A p \in Processes : op[p].doing = "delete" =>
    \A k \in 1 .. Len(op[p].read) : op[p].read[k] \in Turns => op[p].read[k] \in PushedTurns

OneAnswers ==
  \A p, q \in Processes :
    op[p].doing = "answer" /\ op[q].doing = "answer" /\ op[p].run = op[q].run => p = q

OnceEach ==
  \A i, k \in 1 .. Len(list) : list[i] = list[k] /\ list[i] \in Turns => i = k

Begins(read, turns) ==
  /\ Len(read) <= Len(turns)
  /\ \A k \in 1 .. Len(read) : turns[k] = read[k]

Apart(read, turns) == \A i \in 1 .. Len(turns), k \in 1 .. Len(read) : turns[i] # read[k]

\* Nothing happened to the history but what its turns bear with their lengths.
Excused == reasons \subseteq {"too short", "cut"}

WholeRead(read) ==
  /\ Len(read) \in Nat \ {0} /\ QuotableAmong(read, Len(read)) <= MaxFacts
  /\ \A k \in 1 .. Len(read) :
       /\ read[k] \in Turns
       /\ read[k].text = "short" => "too short" \in reasons
       /\ read[k].text = "long" => "cut" \in reasons

WholeIsRead ==
  Excused =>
    \A p \in Processes : op[p].doing = "delete" =>
      /\ WholeRead(op[p].read)
      /\ Begins(op[p].read, list) \/ Apart(op[p].read, list)

InPlace(turn) ==
  \/ Remembered(turn)
  \/ /\ Remembered(Beginning(turn)) \/ InSummary(Beginning(turn))
     /\ turn.text = "long" => "cut" \in reasons
  \/ turn.text = "short" /\ "too short" \in reasons

Answering(r) == \E p \in Processes : op[p].doing = "answer" /\ op[p].run = r

Placed ==
  Excused =>
    \A r \in Speakers :
      /\ r \in kept \/ Answering(r) => InPlace(Turn(r, "user"))
      /\ r \in kept => InPlace(Turn(r, "assistant"))

Ordered ==
  \A i, k \in 1 .. Len(list) :
    list[i].run = list[k].run /\ list[i].run # Nobody
      /\ list[i].role = "user" /\ list[k].role = "assistant" => i < k

Lives == list # <<>> /\ "broken off" \notin reasons => ttl

HotInv ==
  /\ Types /\ ListIsPushed /\ ReadIsPushed /\ OneAnswers /\ OnceEach /\ WholeIsRead /\ Placed
  /\ Ordered /\ Lives

-----------------------------------------------------------------------------
(* Turns and entries.                                                       *)

LEMMA TurnFields ==
  /\ \A r, role : Turn(r, role).run = r /\ Turn(r, role).role = role /\ Turn(r, role).facts = {}
  /\ \A facts : Summary(facts).run = Nobody /\ Summary(facts).facts = facts
BY DEF Turn, Summary

LEMMA TextsAre ==
  \A r \in Speakers, role \in Roles : Turn(r, role).text \in {"short", "whole", "long"}
<1>1. \A r \in Speakers, role \in Roles : Lengths[<<r, role>>] \in {"short", "whole", "long"}
  BY LengthsAssumption DEF Speakers, Roles
<1>2. \A r, role : Turn(r, role).text = Lengths[<<r, role>>]
  BY DEF Turn
<1> QED
  BY <1>1, <1>2

LEMMA TurnsAre ==
  /\ \A t \in Turns : t.run \in Speakers /\ t.role \in Roles /\ t = Turn(t.run, t.role)
  /\ \A t \in Turns : t.run # Nobody /\ t.facts = {} /\ t.text \in {"short", "whole", "long"}
  /\ \A r \in Speakers, role \in Roles : Turn(r, role) \in Turns
  /\ \A e \in Entries : e \in Turns <=> e.run # Nobody
<1>1. \A r \in Speakers : r # Nobody
  BY SpeakersAssumption DEF Speakers
<1>2. \A t \in Turns : \E r \in Speakers, role \in Roles : t = Turn(r, role)
  BY DEF Turns
<1>3. \A r \in Speakers, role \in Roles : Turn(r, role) \in Turns
  BY DEF Turns
<1>4. \A t \in Turns : t.run \in Speakers /\ t.role \in Roles /\ t = Turn(t.run, t.role)
                       /\ t.facts = {}
  BY <1>2, TurnFields
<1>5. \A t \in Turns : t.text \in {"short", "whole", "long"}
  BY <1>2, TextsAre
<1>6. \A e \in Entries : e \in Turns \/ \E facts \in SUBSET Beginnings : e = Summary(facts)
  BY DEF Entries
<1>7. \A e \in Entries : e \in Turns \/ e.run = Nobody
  BY <1>6, TurnFields
<1> QED
  BY <1>1, <1>3, <1>4, <1>5, <1>7

\* The beginning of a turn is its own beginning; it tells turns apart, and only a
\* long turn from itself.
LEMMA BeginningIs ==
  /\ \A t \in Turns : t.text # "long" => Beginning(t) = t
  /\ \A t \in Turns : t.text = "long" => Beginning(t) \notin Turns
  /\ \A t, u \in Turns : Beginning(t) = Beginning(u) => t = u
  /\ \A t, u \in Turns : t = Beginning(u) => t = u
<1>1. \A t \in Turns : t = [run |-> t.run, role |-> t.role, text |-> t.text, facts |-> t.facts]
  BY TurnsAre DEF Turn
<1>2. \A t \in Turns : Beginning(t) = [run |-> t.run, role |-> t.role,
                                       text |-> IF t.text = "long" THEN "begun" ELSE t.text,
                                       facts |-> t.facts]
  BY <1>1 DEF Beginning
<1>3. \A t \in Turns : Beginning(t).run = t.run /\ Beginning(t).role = t.role
                       /\ Beginning(t).text = IF t.text = "long" THEN "begun" ELSE t.text
  BY <1>2
<1>4. \A t, u \in Turns : t.run = u.run /\ t.role = u.role => t = u
  BY TurnsAre
<1>5. \A t \in Turns : t.text # "long" => Beginning(t) = t
  BY <1>1, <1>2
<1>6. \A t \in Turns : t.text = "long" => Beginning(t) \notin Turns
  <2>1. \A t \in Turns : t.text = "long" => Beginning(t).text = "begun"
    BY <1>3
  <2> QED
    BY <2>1, TurnsAre
<1>7. \A t, u \in Turns : Beginning(t) = Beginning(u) => t = u
  BY <1>3, <1>4
<1>8. \A t, u \in Turns : t = Beginning(u) => t = u
  BY <1>3, <1>4
<1> QED
  BY <1>5, <1>6, <1>7, <1>8

LEMMA FactsAreBeginnings ==
  ASSUME NEW turns \in Seq(Entries)
  PROVE  Facts(turns) \subseteq Beginnings
<1>1. \A k \in 1 .. Len(turns) : turns[k] \in Entries
  OBVIOUS
<1>2. \A k \in 1 .. Len(turns) : turns[k].run # Nobody => Beginning(turns[k]) \in Beginnings
  BY <1>1, TurnsAre DEF Beginnings
<1> QED
  BY <1>2 DEF Facts

\* Of turns that were read whole, every one that can be quoted is.
LEMMA AllAreQuoted ==
  ASSUME NEW turns \in Seq(Entries), WholeRead(turns),
         NEW k \in 1 .. Len(turns), turns[k].text # "short"
  PROVE  Beginning(turns[k]) \in Facts(turns)
<1> DEFINE Quoted(n) == {i \in 1 .. n : Quotable(turns[i])}
<1>1. Len(turns) \in Nat /\ k \in Nat /\ 1 \in Int /\ MaxFacts \in Nat
  BY CompactorAssumption
<1>2. IsFiniteSet(1 .. Len(turns))
  BY <1>1, FS_Interval
<1>3. IsFiniteSet(Quoted(Len(turns)))
  <2>1. Quoted(Len(turns)) \subseteq 1 .. Len(turns)
    OBVIOUS
  <2> QED
    BY <1>2, <2>1, FS_Subset
<1>4. Quoted(k) \subseteq Quoted(Len(turns))
  BY <1>1
<1>5. IsFiniteSet(Quoted(k)) /\ Cardinality(Quoted(k)) <= Cardinality(Quoted(Len(turns)))
  BY <1>3, <1>4, FS_Subset
<1>6. Cardinality(Quoted(k)) \in Nat /\ Cardinality(Quoted(Len(turns))) \in Nat
  BY <1>3, <1>5, FS_CardinalityType
<1>7. QuotableAmong(turns, k) = Cardinality(Quoted(k))
      /\ QuotableAmong(turns, Len(turns)) = Cardinality(Quoted(Len(turns)))
  BY DEF QuotableAmong
<1> HIDE DEF Quoted
<1>8. QuotableAmong(turns, k) <= MaxFacts
  <2>1. QuotableAmong(turns, Len(turns)) <= MaxFacts
    BY DEF WholeRead
  <2> QED
    BY <1>1, <1>5, <1>6, <1>7, <2>1
<1>9. Quotable(turns[k]) /\ turns[k].run # Nobody
  BY TurnsAre DEF Quotable, WholeRead
<1> QED
  BY <1>8, <1>9 DEF Facts

-----------------------------------------------------------------------------
(* A push.                                                                  *)

\* The history as it was, or with the entry at its end.
LEMMA Grows ==
  ASSUME list \in Seq(Entries), NEW e \in Entries, list' \in {list, Append(list, e)}
  PROVE  /\ list' \in Seq(Entries)
         /\ Len(list) \in Nat /\ Len(list') \in Nat /\ Len(list) <= Len(list')
         /\ \A i \in 1 .. Len(list) : i \in 1 .. Len(list') /\ list'[i] = list[i]
         /\ \A i \in 1 .. Len(list') :
              i \in 1 .. Len(list) \/ (i = Len(list) + 1 /\ list'[i] = e)
         /\ list' = Append(list, e) => Len(list) + 1 \in 1 .. Len(list') /\ list'[Len(list) + 1] = e
<1>1. CASE list' = list
  <2>1. Len(list) \in Nat
    OBVIOUS
  <2>2. list # Append(list, e)
    <3>1. Len(Append(list, e)) = Len(list) + 1
      OBVIOUS
    <3> QED
      BY <2>1, <3>1
  <2> QED
    BY <1>1, <2>1, <2>2
<1>2. CASE list' = Append(list, e)
  <2>1. /\ list' \in Seq(Entries) /\ Len(list) \in Nat /\ Len(list') = Len(list) + 1
        /\ \A i \in 1 .. Len(list) : list'[i] = list[i]
        /\ list'[Len(list) + 1] = e
    BY <1>2
  <2> QED
    BY <2>1
<1> QED
  BY <1>1, <1>2

\* What was pushed stays where it was.
LEMMA StaysRemembered ==
  ASSUME list \in Seq(Entries), NEW e \in Entries, list' \in {list, Append(list, e)},
         NEW t, Remembered(t)
  PROVE  Remembered(t)'
<1>1. PICK i \in 1 .. Len(list) : list[i] = t \/ t \in list[i].facts
  BY DEF Remembered
<1>2. i \in 1 .. Len(list') /\ list'[i] = list[i]
  BY Grows
<1> QED
  BY <1>1, <1>2 DEF Remembered

LEMMA EndIsRemembered ==
  ASSUME list \in Seq(Entries), NEW e \in Entries, list' = Append(list, e),
         NEW t, t = e \/ t \in e.facts
  PROVE  Remembered(t)'
<1>1. Len(list) + 1 \in 1 .. Len(list') /\ list'[Len(list) + 1] = e
  BY Grows
<1> QED
  BY <1>1 DEF Remembered

LEMMA PushCases ==
  ASSUME NEW p \in Processes, NEW e, NEW next, Push(p, e, next)
  PROVE  /\ list' \in {list, Append(list, e)}
         /\ op' = [op EXCEPT ![p] = next] \/ op' = [op EXCEPT ![p] = Idle]
         /\ \/ /\ list' = Append(list, e) /\ ttl' = TRUE /\ op' = [op EXCEPT ![p] = next]
               /\ broken' = broken /\ reasons' = reasons
            \/ broken' = broken + 1 /\ "broken off" \in reasons' /\ reasons \subseteq reasons'
BY DEF Push, Broken

\* The invariant's parts about the history, for a push by any process.
LEMMA PushKeepsOrder ==
  ASSUME Types, ListIsPushed, OnceEach, Ordered,
         NEW e \in Entries, list' \in {list, Append(list, e)},
         e \in Turns => \A i \in 1 .. Len(list) : list[i] # e,
         e \in Turns /\ e.role = "user" => \A i \in 1 .. Len(list) : list[i].run # e.run
  PROVE  OnceEach' /\ Ordered'
<1> USE DEF Types
<1>1. OnceEach'
  BY Grows DEF OnceEach
<1>2. Ordered'
  <2> SUFFICES ASSUME NEW i \in 1 .. Len(list'), NEW k \in 1 .. Len(list'),
                      list'[i].run = list'[k].run, list'[i].run # Nobody,
                      list'[i].role = "user", list'[k].role = "assistant"
               PROVE  i < k
    BY DEF Ordered
  <2>1. CASE i \in 1 .. Len(list) /\ k \in 1 .. Len(list)
    BY <2>1, Grows DEF Ordered
  <2>2. CASE i \in 1 .. Len(list) /\ k = Len(list) + 1
    BY <2>2, Grows
  <2>3. CASE i = Len(list) + 1 /\ list'[i] = e /\ k \in 1 .. Len(list)
    <3>1. e \in Turns /\ e.role = "user"
      BY <2>3, TurnsAre
    <3>2. list[k].run = e.run
      BY <2>3, Grows
    <3> QED
      BY <2>3, <3>1, <3>2
  <2>4. CASE i = Len(list) + 1 /\ list'[i] = e /\ k = Len(list) + 1
    BY <2>4
  <2> QED
    BY <2>1, <2>2, <2>3, <2>4, Grows
<1> QED
  BY <1>1, <1>2

\* What another process has read stays the beginning of the history, or apart.
LEMMA PushKeepsReads ==
  ASSUME Types, NEW e \in Entries, list' \in {list, Append(list, e)},
         NEW read \in Seq(Entries), \A k \in 1 .. Len(read) : read[k] # e,
         Begins(read, list) \/ Apart(read, list)
  PROVE  Begins(read, list') \/ Apart(read, list')
<1> USE DEF Types
<1>1. CASE Begins(read, list)
  <2>1. Len(read) \in Nat
    OBVIOUS
  <2>2. /\ Len(list) \in Nat /\ Len(list') \in Nat /\ Len(list) <= Len(list')
        /\ \A i \in 1 .. Len(list) : list'[i] = list[i]
    BY Grows
  <2> QED
    BY <1>1, <2>1, <2>2 DEF Begins
<1>2. CASE Apart(read, list)
  BY <1>2, Grows DEF Apart
<1> QED
  BY <1>1, <1>2

LEMMA PushKeepsPlaces ==
  ASSUME Types, NEW p \in Processes, NEW e \in Entries, list' \in {list, Append(list, e)},
         \A q \in Processes : q # p => op'[q] = op[q],
         op[p].doing = "summary" => list' = Append(list, e) /\ Facts(op[p].read) = e.facts,
         reasons \subseteq reasons',
         NEW t, InPlace(t)
  PROVE  InPlace(t)'
<1> USE DEF Types
<1>1. \A u : Remembered(u) => Remembered(u)'
  BY StaysRemembered
<1>2. ASSUME NEW u, NEW q \in Processes, op[q].doing = "summary", u \in Facts(op[q].read)
      PROVE  Remembered(u)' \/ InSummary(u)'
  <2>1. CASE q = p
    BY <1>2, <2>1, EndIsRemembered
  <2>2. CASE q # p
    BY <1>2, <2>2 DEF InSummary
  <2> QED
    BY <2>1, <2>2
<1>3. \A u : InSummary(u) => Remembered(u)' \/ InSummary(u)'
  BY <1>2 DEF InSummary
<1> QED
  BY <1>1, <1>3 DEF InPlace

\* What a step does to the operations of the processes.
LEMMA OpMoves ==
  ASSUME Types, NEW p \in Processes, NEW next \in Operations, op' = [op EXCEPT ![p] = next]
  PROVE  /\ op' \in [Processes -> Operations]
         /\ op'[p] = next
         /\ \A q \in Processes : q # p => op'[q] = op[q]
BY DEF Types

LEMMA IdleIs ==
  /\ Idle \in Operations
  /\ Idle.doing = "nothing" /\ Idle.run = Nobody /\ Idle.read = <<>>
BY DEF Idle, Operations

-----------------------------------------------------------------------------
(* The actions.                                                             *)

\* The parts of the invariant that only depend on what is pushed.
LEMMA PushStep ==
  ASSUME HotInv, NEW p \in Processes, NEW e \in Entries, NEW next \in Operations,
         Push(p, e, next), next.doing \in {"nothing", "answer"},
         e \in Turns => e \notin PushedTurns /\ e \in PushedTurns',
         PushedTurns \subseteq PushedTurns',
         e \in Turns /\ e.role = "user" => \A i \in 1 .. Len(list) : list[i].run # e.run
  PROVE  ListIsPushed' /\ ReadIsPushed' /\ OnceEach' /\ Ordered' /\ WholeIsRead' /\ Lives'
<1> USE DEF HotInv
<1>1. /\ list' \in {list, Append(list, e)}
      /\ op' = [op EXCEPT ![p] = next] \/ op' = [op EXCEPT ![p] = Idle]
      /\ \/ list' = Append(list, e) /\ ttl' = TRUE /\ reasons' = reasons
         \/ "broken off" \in reasons' /\ reasons \subseteq reasons'
  BY PushCases
<1>2. /\ op'[p] = next \/ op'[p] = Idle
      /\ \A q \in Processes : q # p => op'[q] = op[q]
  BY <1>1, OpMoves, IdleIs
<1>3. list \in Seq(Entries) /\ op \in [Processes -> Operations]
  BY DEF Types
<1>4. \A q \in Processes : op'[q].doing = "delete" => q # p /\ op'[q] = op[q]
  BY <1>2, IdleIs
<1>5. \A i \in 1 .. Len(list) : e \in Turns => list[i] # e
  BY DEF ListIsPushed
<1>6. ListIsPushed'
  BY <1>1, <1>3, Grows DEF ListIsPushed
<1>7. ReadIsPushed'
  BY <1>4 DEF ReadIsPushed
<1>8. OnceEach' /\ Ordered'
  BY <1>1, <1>5, PushKeepsOrder
<1>9. WholeIsRead'
  <2> SUFFICES ASSUME Excused', NEW q \in Processes, op'[q].doing = "delete"
               PROVE  /\ WholeRead(op[q].read)'
                      /\ Begins(op'[q].read, list') \/ Apart(op'[q].read, list')
    BY DEF WholeIsRead
  <2>1. op'[q] = op[q] /\ Excused /\ reasons' = reasons /\ op[q].read \in Seq(Entries)
    BY <1>1, <1>3, <1>4 DEF Operations, Excused
  <2>2. \A k \in 1 .. Len(op[q].read) : op[q].read[k] # e
    BY <2>1 DEF ReadIsPushed, WholeIsRead, WholeRead
  <2>3. Begins(op[q].read, list) \/ Apart(op[q].read, list)
    BY <2>1 DEF WholeIsRead
  <2>4. Begins(op[q].read, list') \/ Apart(op[q].read, list')
    BY <1>1, <2>1, <2>2, <2>3, PushKeepsReads
  <2>5. WholeRead(op[q].read)' <=> WholeRead(op[q].read)
    BY <2>1 DEF WholeRead, QuotableAmong
  <2> QED
    BY <2>1, <2>4, <2>5 DEF WholeIsRead
<1>10. Lives'
  BY <1>1 DEF Lives
<1> QED
  BY <1>6, <1>7, <1>8, <1>9, <1>10

LEMMA QuestionStep ==
  ASSUME HotInv, NEW p \in Processes, AppendQuestion(p)
  PROVE  HotInv'
<1> USE DEF HotInv
<1>1. PICK r \in Speakers : r = asked + 1 /\ asked' = r /\ asked \in 0 .. MaxSpeakers
  BY SpeakersAssumption DEF AppendQuestion, Types, Speakers
<1> DEFINE e == Turn(r, "user")
           next == [Idle EXCEPT !.doing = "answer", !.run = r]
<1>2. Push(p, e, next) /\ kept' = kept /\ op[p] = Idle
  BY <1>1 DEF AppendQuestion
<1>3. /\ e \in Turns /\ e \in Entries /\ e.run = r /\ e.role = "user" /\ e.facts = {}
      /\ next \in Operations /\ next.doing = "answer" /\ next.run = r
  <2>1. e \in Turns /\ e \in Entries
    BY TurnsAre DEF Entries, Roles
  <2>2. e.run = r /\ e.role = "user" /\ e.facts = {}
    BY TurnFields
  <2>3. next \in Operations /\ next.doing = "answer" /\ next.run = r
    BY IdleIs DEF Operations
  <2> QED
    BY <2>1, <2>2, <2>3
<1> HIDE DEF e, next
<1>4. /\ list' \in {list, Append(list, e)}
      /\ op' = [op EXCEPT ![p] = next] \/ op' = [op EXCEPT ![p] = Idle]
      /\ \/ /\ list' = Append(list, e) /\ ttl' = TRUE /\ op' = [op EXCEPT ![p] = next]
            /\ broken' = broken /\ reasons' = reasons
         \/ broken' = broken + 1 /\ "broken off" \in reasons' /\ reasons \subseteq reasons'
  BY <1>2, PushCases
<1>5. /\ op' \in [Processes -> Operations]
      /\ op'[p] = next \/ op'[p] = Idle
      /\ \A q \in Processes : q # p => op'[q] = op[q]
  BY <1>3, <1>4, OpMoves, IdleIs
<1>6. /\ list \in Seq(Entries) /\ list' \in Seq(Entries) /\ op[p].doing = "nothing"
      /\ op \in [Processes -> Operations]
  BY <1>2, <1>3, <1>4, Grows, IdleIs DEF Types
<1>7. \A t : t \in PushedTurns => t.run # r
  BY <1>1 DEF PushedTurns
<1>8. \A i \in 1 .. Len(list) : list[i].run # r
  <2> SUFFICES ASSUME NEW i \in 1 .. Len(list), list[i].run = r
               PROVE  FALSE
    OBVIOUS
  <2>1. list[i] \in Entries /\ r # Nobody
    BY <1>6, SpeakersAssumption DEF Speakers
  <2>2. list[i] \in Turns
    BY <2>1, TurnsAre
  <2> QED
    BY <1>7, <2>2 DEF ListIsPushed
<1>9. \A q \in Processes : op[q].doing = "answer" => op[q].run # r
  BY <1>1 DEF Types
<1>10. \A t \in Turns : t \in PushedTurns \/ t = e => t \in PushedTurns'
  <2> SUFFICES ASSUME NEW t \in Turns, t \in PushedTurns \/ t = e
               PROVE  t \in PushedTurns'
    OBVIOUS
  <2>1. t.run \in 1 .. asked'
    BY <1>1, <1>3 DEF PushedTurns
  <2>2. ASSUME t.role = "assistant", NEW q \in Processes, op'[q].doing = "answer", op'[q].run = t.run
        PROVE  FALSE
    <3>1. t \in PushedTurns /\ t.run # r
      BY <1>3, <1>7, <2>2
    <3>2. q # p
      BY <1>3, <1>5, <2>2, <3>1, IdleIs
    <3> QED
      BY <1>5, <2>2, <3>1, <3>2 DEF PushedTurns
  <2> QED
    BY <2>1, <2>2 DEF PushedTurns
<1>11. Types'
  <2>1. broken \in Nat /\ (broken' = broken \/ broken' = broken + 1)
    BY <1>4 DEF Types
  <2>2. \A q \in Processes : op'[q].doing = "answer" => op'[q].run \in 1 .. asked'
    <3> SUFFICES ASSUME NEW q \in Processes, op'[q].doing = "answer"
                 PROVE  op'[q].run \in 1 .. r
      BY <1>1
    <3>1. CASE q = p
      BY <1>1, <1>3, <1>5, <3>1, IdleIs DEF Speakers
    <3>2. CASE q # p
      BY <1>1, <1>5, <3>2 DEF Types
    <3> QED
      BY <3>1, <3>2
  <2> QED
    BY <1>1, <1>2, <1>5, <1>6, <2>1, <2>2 DEF Types, Speakers
<1>12. OneAnswers'
  BY <1>3, <1>5, <1>9, IdleIs DEF OneAnswers
<1>13. Placed'
  <2> SUFFICES ASSUME Excused', NEW s \in Speakers
               PROVE  /\ s \in kept' \/ Answering(s)' => InPlace(Turn(s, "user"))'
                      /\ s \in kept' => InPlace(Turn(s, "assistant"))'
    BY DEF Placed
  <2>1. Excused /\ reasons' = reasons /\ list' = Append(list, e) /\ kept' = kept
    BY <1>2, <1>4 DEF Excused
  <2>2. \A t : InPlace(t) => InPlace(t)'
    BY <1>3, <1>4, <1>5, <1>6, <2>1, PushKeepsPlaces
  <2>3. CASE s \in kept \/ Answering(s)
    BY <2>1, <2>2, <2>3 DEF Placed
  <2>4. CASE Answering(s)' /\ ~Answering(s)
    <3>1. s = r
      BY <1>3, <1>5, <2>4, IdleIs DEF Answering
    <3>2. InPlace(e)'
      BY <1>3, <1>6, <2>1, EndIsRemembered DEF InPlace
    <3>3. s \notin kept' \/ s \in kept
      BY <2>1
    <3> QED
      BY <2>1, <2>2, <3>1, <3>2, <3>3 DEF Placed, e
  <2> QED
    BY <2>1, <2>3, <2>4
<1>14. ListIsPushed' /\ ReadIsPushed' /\ OnceEach' /\ Ordered' /\ WholeIsRead' /\ Lives'
  <2>1. e \notin PushedTurns /\ e \in PushedTurns' /\ PushedTurns \subseteq PushedTurns'
    <3>1. PushedTurns \subseteq Turns
      BY DEF PushedTurns
    <3> QED
      BY <1>3, <1>7, <1>10, <3>1
  <2> QED
    BY <1>2, <1>3, <1>8, <2>1, PushStep
<1> QED
  BY <1>11, <1>12, <1>13, <1>14

LEMMA AnswerStep ==
  ASSUME HotInv, NEW p \in Processes, AppendAnswer(p)
  PROVE  HotInv'
<1> USE DEF HotInv
<1>1. PICK r \in Speakers : r = op[p].run /\ r \in 1 .. asked /\ op[p].doing = "answer"
  <2>1. op[p].doing = "answer" /\ op[p].run \in 1 .. asked /\ asked \in 0 .. MaxSpeakers
    BY DEF AppendAnswer, Types
  <2> QED
    BY <2>1, SpeakersAssumption DEF Speakers
<1> DEFINE e == Turn(r, "assistant")
<1>2. /\ Push(p, e, Idle) /\ asked' = asked
      /\ kept' = IF broken' = broken THEN kept \cup {r} ELSE kept
  BY <1>1 DEF AppendAnswer
<1>3. e \in Turns /\ e \in Entries /\ e.run = r /\ e.role = "assistant" /\ e.facts = {}
  BY TurnsAre, TurnFields DEF Entries, Roles
<1> HIDE DEF e
<1>4. /\ list' \in {list, Append(list, e)}
      /\ op' = [op EXCEPT ![p] = Idle]
      /\ \/ list' = Append(list, e) /\ broken' = broken /\ reasons' = reasons
         \/ broken' = broken + 1 /\ "broken off" \in reasons'
  BY <1>2, PushCases
<1>5. /\ op' \in [Processes -> Operations]
      /\ op'[p] = Idle
      /\ \A q \in Processes : q # p => op'[q] = op[q]
  BY <1>4, OpMoves, IdleIs
<1>6. /\ list \in Seq(Entries) /\ list' \in Seq(Entries)
      /\ op \in [Processes -> Operations]
  BY <1>3, <1>4, Grows DEF Types
<1>7. e \notin PushedTurns
  BY <1>1, <1>3 DEF PushedTurns
<1>8. \A q \in Processes : op'[q].doing = "answer" => op'[q] = op[q] /\ op[q].run # r
  BY <1>1, <1>5, IdleIs DEF OneAnswers
<1>9. e \in PushedTurns' /\ PushedTurns \subseteq PushedTurns'
  BY <1>1, <1>2, <1>3, <1>8 DEF PushedTurns
<1>10. Types'
  <2>1. broken \in Nat /\ (broken' = broken \/ broken' = broken + 1)
    BY <1>4 DEF Types
  <2>2. kept' \subseteq Speakers
    BY <1>2 DEF Types
  <2> QED
    BY <1>2, <1>5, <1>6, <1>8, <2>1, <2>2 DEF Types
<1>11. OneAnswers'
  BY <1>8 DEF OneAnswers
<1>12. Placed'
  <2> SUFFICES ASSUME Excused', NEW s \in Speakers
               PROVE  /\ s \in kept' \/ Answering(s)' => InPlace(Turn(s, "user"))'
                      /\ s \in kept' => InPlace(Turn(s, "assistant"))'
    BY DEF Placed
  <2>1. Excused /\ reasons' = reasons /\ list' = Append(list, e) /\ kept' = kept \cup {r}
    BY <1>2, <1>4 DEF Excused
  <2>2. \A t : InPlace(t) => InPlace(t)'
    BY <1>1, <1>3, <1>4, <1>5, <2>1, PushKeepsPlaces
  <2>3. Answering(s)' => Answering(s)
    BY <1>8 DEF Answering
  <2>4. Answering(r)
    BY <1>1 DEF Answering
  <2>5. InPlace(Turn(r, "user"))' /\ InPlace(e)'
    BY <1>3, <1>6, <2>1, <2>2, <2>4, EndIsRemembered DEF InPlace, Placed
  <2>6. CASE s = r
    BY <2>5, <2>6 DEF e
  <2>7. CASE s # r
    BY <2>1, <2>2, <2>3, <2>7 DEF Placed
  <2> QED
    BY <2>6, <2>7
<1>13. ListIsPushed' /\ ReadIsPushed' /\ OnceEach' /\ Ordered' /\ WholeIsRead' /\ Lives'
  BY <1>2, <1>3, <1>7, <1>9, IdleIs, PushStep
<1> QED
  BY <1>10, <1>11, <1>12, <1>13

LEMMA SummaryStep ==
  ASSUME HotInv, NEW p \in Processes, PushSummary(p)
  PROVE  HotInv'
<1> USE DEF HotInv
<1>1. op \in [Processes -> Operations] /\ op[p].read \in Seq(Entries) /\ list \in Seq(Entries)
  BY DEF Types, Operations
<1>2. PICK facts \in SUBSET Beginnings : facts = Facts(op[p].read)
  BY <1>1, FactsAreBeginnings
<1> DEFINE e == Summary(facts)
<1>3. Push(p, e, Idle) /\ asked' = asked /\ kept' = kept /\ op[p].doing = "summary"
  BY <1>2 DEF PushSummary
<1>4. e \in Entries /\ e \notin Turns /\ e.facts = facts
  BY TurnFields, TurnsAre DEF Entries
<1> HIDE DEF e
<1>5. /\ list' \in {list, Append(list, e)}
      /\ op' = [op EXCEPT ![p] = Idle]
      /\ \/ list' = Append(list, e) /\ broken' = broken /\ reasons' = reasons
         \/ broken' = broken + 1 /\ "broken off" \in reasons'
  BY <1>3, PushCases
<1>6. /\ op' \in [Processes -> Operations]
      /\ op'[p] = Idle
      /\ \A q \in Processes : q # p => op'[q] = op[q]
  BY <1>5, OpMoves, IdleIs
<1>7. \A q \in Processes : op'[q].doing = "answer" => op'[q] = op[q]
  BY <1>6, IdleIs
<1>8. PushedTurns \subseteq PushedTurns'
  BY <1>3, <1>7 DEF PushedTurns
<1>9. Types'
  <2>1. broken \in Nat /\ (broken' = broken \/ broken' = broken + 1)
    BY <1>5 DEF Types
  <2>2. list' \in Seq(Entries)
    BY <1>1, <1>4, <1>5, Grows
  <2> QED
    BY <1>3, <1>6, <1>7, <2>1, <2>2 DEF Types
<1>10. OneAnswers'
  BY <1>7 DEF OneAnswers
<1>11. Placed'
  <2> SUFFICES ASSUME Excused'
               PROVE  Placed'
    BY DEF Placed
  <2>1. Excused /\ reasons' = reasons /\ list' = Append(list, e)
    BY <1>5 DEF Excused
  <2>2. \A t : InPlace(t) => InPlace(t)'
    BY <1>2, <1>4, <1>6, <2>1, PushKeepsPlaces
  <2>3. \A s : Answering(s)' => Answering(s)
    BY <1>7 DEF Answering
  <2> QED
    BY <1>3, <2>1, <2>2, <2>3 DEF Placed
<1>12. ListIsPushed' /\ ReadIsPushed' /\ OnceEach' /\ Ordered' /\ WholeIsRead' /\ Lives'
  BY <1>3, <1>4, <1>8, IdleIs, PushStep
<1> QED
  BY <1>9, <1>10, <1>11, <1>12

LEMMA RecentTurnsAre ==
  ASSUME list \in Seq(Entries)
  PROVE  /\ RecentTurns \in Seq(Entries)
         /\ Len(list) <= Limit => RecentTurns = list
         /\ Len(list) > Limit => /\ Len(RecentTurns) = Limit
                                 /\ RecentTurns[Limit] = list[Len(list)]
         /\ \A k \in 1 .. Len(RecentTurns) : \E i \in 1 .. Len(list) : RecentTurns[k] = list[i]
<1>1. Len(list) \in Nat /\ Limit \in Nat /\ Limit > 1
  BY CompactorAssumption
<1>2. \A i \in 1 .. Len(list) : list[i] \in Entries
  OBVIOUS
<1>3. CASE Len(list) <= Limit
  <2>1. RecentTurns = SubSeq(list, 1, Len(list))
    <3>1. ~(Len(list) > Limit)
      BY <1>1, <1>3
    <3> QED
      BY <3>1, Zenon DEF RecentTurns
  <2>2. SubSeq(list, 1, Len(list)) = list
    OBVIOUS
  <2>3. RecentTurns = list
    BY <2>1, <2>2
  <2>4. ~(Len(list) > Limit)
    BY <1>1, <1>3
  <2>5. \A k \in 1 .. Len(list) : \E i \in 1 .. Len(list) : list[k] = list[i]
    OBVIOUS
  <2> QED
    BY <2>3, <2>4, <2>5, Zenon
<1>4. CASE Len(list) > Limit
  <2> DEFINE first == Len(list) - Limit + 1
  <2>1. RecentTurns = SubSeq(list, first, Len(list))
    BY <1>4, Zenon DEF RecentTurns
  <2>2. first \in Int /\ first >= 1 /\ first <= Len(list) /\ Len(list) - first + 1 = Limit
    BY <1>1, <1>4
  <2> HIDE DEF first
  <2>3. /\ SubSeq(list, first, Len(list)) \in Seq(Entries)
        /\ Len(SubSeq(list, first, Len(list))) = Limit
        /\ \A i \in 1 .. Limit : SubSeq(list, first, Len(list))[i] = list[first + i - 1]
    <3>1. \A i \in first .. Len(list) : list[i] \in Entries
      BY <1>1, <1>2, <2>2
    <3> QED
      BY <1>1, <2>2, <3>1, SubSeqProperties
  <2>4. \A i \in 1 .. Limit : first + i - 1 \in 1 .. Len(list)
    BY <1>1, <2>2
  <2>5. RecentTurns[Limit] = list[Len(list)]
    <3>1. Limit \in 1 .. Limit /\ first + Limit - 1 = Len(list)
      BY <1>1, <2>2
    <3> QED
      BY <2>1, <2>3, <3>1
  <2>6. \A k \in 1 .. Limit : \E i \in 1 .. Len(list) : RecentTurns[k] = list[i]
    BY <2>1, <2>3, <2>4
  <2>7. RecentTurns \in Seq(Entries) /\ Len(RecentTurns) = Limit
    BY <2>1, <2>3
  <2>8. ~(Len(list) <= Limit)
    BY <1>1, <1>4
  <2> QED
    BY <2>5, <2>6, <2>7, <2>8, Zenon
<1> QED
  BY <1>1, <1>3, <1>4

LEMMA ReadStep ==
  ASSUME HotInv, NEW p \in Processes, ReadTurns(p)
  PROVE  HotInv'
<1> USE DEF HotInv
<1> DEFINE next == [Idle EXCEPT !.doing = "delete", !.read = RecentTurns]
<1>1. /\ op[p] = Idle /\ op' = [op EXCEPT ![p] = next]
      /\ UNCHANGED <<list, ttl, asked, kept, broken>>
      /\ Len(RecentTurns) >= Threshold
  BY DEF ReadTurns
<1>2. list \in Seq(Entries) /\ op \in [Processes -> Operations]
  BY DEF Types
<1>3. next \in Operations /\ next.doing = "delete" /\ next.run = Nobody /\ next.read = RecentTurns
  BY <1>2, RecentTurnsAre, IdleIs DEF Operations
<1> HIDE DEF next
<1>4. /\ op' \in [Processes -> Operations]
      /\ op'[p] = next
      /\ \A q \in Processes : q # p => op'[q] = op[q]
  BY <1>1, <1>3, OpMoves
<1>5. \A q \in Processes : op'[q].doing \in {"answer", "summary"} => op'[q] = op[q] /\ q # p
  BY <1>3, <1>4
<1>6. \A q \in Processes : op[q].doing \in {"answer", "summary"} => op'[q] = op[q]
  BY <1>1, <1>4, IdleIs
<1>7. PushedTurns' = PushedTurns
  BY <1>1, <1>5, <1>6 DEF PushedTurns
<1>8. Types'
  BY <1>1, <1>4, <1>5 DEF Types
<1>9. ListIsPushed' /\ OnceEach' /\ Ordered'
  BY <1>1, <1>7 DEF ListIsPushed, OnceEach, Ordered
<1>10. ReadIsPushed'
  <2> SUFFICES ASSUME NEW q \in Processes, op'[q].doing = "delete",
                      NEW k \in 1 .. Len(op'[q].read), op'[q].read[k] \in Turns
               PROVE  op'[q].read[k] \in PushedTurns'
    BY DEF ReadIsPushed
  <2>1. CASE q = p
    <3>1. \E i \in 1 .. Len(list) : op'[q].read[k] = list[i]
      BY <1>2, <1>3, <1>4, <2>1, RecentTurnsAre
    <3> QED
      BY <1>7, <3>1 DEF ListIsPushed
  <2>2. CASE q # p
    BY <1>4, <1>7, <2>2 DEF ReadIsPushed
  <2> QED
    BY <2>1, <2>2
<1>11. OneAnswers'
  BY <1>5 DEF OneAnswers
<1>12. reasons \subseteq reasons'
  BY DEF ReadTurns
<1>13. WholeIsRead'
  <2> SUFFICES ASSUME Excused', NEW q \in Processes, op'[q].doing = "delete"
               PROVE  /\ WholeRead(op[q].read)'
                      /\ Begins(op'[q].read, list) \/ Apart(op'[q].read, list)
    BY <1>1 DEF WholeIsRead
  <2>1. /\ ~(Len(list) > Limit) /\ ~(QuotableAmong(RecentTurns, Len(RecentTurns)) > MaxFacts)
        /\ ~\E i \in 1 .. Len(RecentTurns) : RecentTurns[i].run = Nobody
        /\ (\E i \in 1 .. Len(RecentTurns) : ~Quotable(RecentTurns[i])) => "too short" \in reasons'
        /\ (\E i \in 1 .. Len(RecentTurns) :
              RecentTurns[i].text = "long" /\ RecentTurns[i].run # Nobody) => "cut" \in reasons'
    <3>1. reasons' = reasons
            \cup {why \in {"beyond the limit"} : Len(list) > Limit}
            \cup {why \in {"not quoted"} : QuotableAmong(RecentTurns, Len(RecentTurns)) > MaxFacts}
            \cup {why \in {"too short"} : \E i \in 1 .. Len(RecentTurns) : ~Quotable(RecentTurns[i])}
            \cup {why \in {"cut"} : \E i \in 1 .. Len(RecentTurns) :
                                     RecentTurns[i].text = "long" /\ RecentTurns[i].run # Nobody}
            \cup {why \in {"summary of a summary"} :
                    \E i \in 1 .. Len(RecentTurns) : RecentTurns[i].run = Nobody}
      BY DEF ReadTurns
    <3>2. /\ Len(list) > Limit => "beyond the limit" \in reasons'
          /\ QuotableAmong(RecentTurns, Len(RecentTurns)) > MaxFacts => "not quoted" \in reasons'
          /\ (\E i \in 1 .. Len(RecentTurns) : RecentTurns[i].run = Nobody)
               => "summary of a summary" \in reasons'
          /\ (\E i \in 1 .. Len(RecentTurns) : ~Quotable(RecentTurns[i])) => "too short" \in reasons'
          /\ (\E i \in 1 .. Len(RecentTurns) :
                RecentTurns[i].text = "long" /\ RecentTurns[i].run # Nobody) => "cut" \in reasons'
      BY ONLY <3>1
    <3> QED
      BY ONLY <3>2, Excused' DEF Excused
  <2>2. CASE q = p
    <3>1. RecentTurns = list /\ op'[q].read = list
      <4>1. Len(list) <= Limit
        <5>1. Len(list) \in Nat /\ Limit \in Nat
          BY <1>2, CompactorAssumption
        <5>2. ~(Len(list) > Limit)
          BY <2>1
        <5> QED
          BY ONLY <5>1, <5>2
      <4> QED
        BY <1>2, <1>3, <1>4, <2>2, <4>1, RecentTurnsAre
    <3>2. Len(list) \in Nat \ {0} /\ QuotableAmong(list, Len(list)) <= MaxFacts
      <4>1. IsFiniteSet({k \in 1 .. Len(list) : Quotable(list[k])})
        <5>1. IsFiniteSet(1 .. Len(list))
          BY <1>2, FS_Interval
        <5>2. {k \in 1 .. Len(list) : Quotable(list[k])} \subseteq 1 .. Len(list)
          OBVIOUS
        <5> QED
          BY <5>1, <5>2, FS_Subset
      <4>2. QuotableAmong(list, Len(list)) \in Nat
        BY <4>1, FS_CardinalityType DEF QuotableAmong
      <4>3. Len(list) \in Nat /\ Len(list) >= Threshold
        BY <1>1, <1>2, <3>1
      <4>4. ~(QuotableAmong(list, Len(list)) > MaxFacts)
        BY <2>1, <3>1
      <4> QED
        BY <4>2, <4>3, <4>4, CompactorAssumption
    <3>3. \A k \in 1 .. Len(list) : list[k] \in Turns /\ list[k].run # Nobody
      <4>1. \A k \in 1 .. Len(list) : list[k] \in Entries /\ list[k].run # Nobody
        <5>1. ~\E i \in 1 .. Len(list) : list[i].run = Nobody
          BY <2>1, <3>1, Zenon
        <5> QED
          BY <1>2, <5>1
      <4> QED
        BY <4>1, TurnsAre
    <3>4. Begins(list, list)
      BY <1>2 DEF Begins
    <3>5. /\ (\E k \in 1 .. Len(list) : list[k].text = "short") => "too short" \in reasons'
          /\ (\E k \in 1 .. Len(list) : list[k].text = "long") => "cut" \in reasons'
      BY <2>1, <3>1, <3>3 DEF Quotable
    <3>6. WholeRead(list)'
      BY <1>1, <3>2, <3>3, <3>5 DEF WholeRead, QuotableAmong
    <3> QED
      BY <1>1, <3>1, <3>4, <3>6
  <2>3. CASE q # p
    <3>1. op'[q] = op[q] /\ Excused
      BY <1>4, <1>12, <2>3 DEF Excused
    <3>2. WholeRead(op[q].read)
      BY <3>1 DEF WholeIsRead
    <3>3. WholeRead(op[q].read)'
      BY <1>12, <3>1, <3>2 DEF WholeRead, QuotableAmong
    <3> QED
      BY <1>4, <2>3, <3>1, <3>3 DEF WholeIsRead
  <2> QED
    BY <2>2, <2>3
<1>15. Placed'
  <2> SUFFICES ASSUME Excused'
               PROVE  Placed'
    BY DEF Placed
  <2>1. Excused
    BY <1>12 DEF Excused
  <2>2. \A t : (Remembered(t) => Remembered(t)') /\ (InSummary(t) => InSummary(t)')
    BY <1>1, <1>6 DEF Remembered, InSummary
  <2>3. \A t : InPlace(t) => InPlace(t)'
    BY <1>12, <2>2 DEF InPlace
  <2>4. \A s : Answering(s)' => Answering(s)
    BY <1>5 DEF Answering
  <2> QED
    BY <1>1, <2>1, <2>3, <2>4 DEF Placed
<1>16. Lives'
  BY <1>1, <1>12 DEF Lives
<1> QED
  BY <1>8, <1>9, <1>10, <1>11, <1>13, <1>15, <1>16

\* A process that finds what it read has read everything.
LEMMA NothingOvertook ==
  ASSUME HotInv, Excused, NEW p \in Processes, op[p].doing = "delete",
         RecentTurns = op[p].read,
         NEW t \in Turns, Remembered(t) \/ Remembered(Beginning(t))
  PROVE  /\ t.text # "short" => Beginning(t) \in Facts(op[p].read)
         /\ t.text = "short" => "too short" \in reasons
         /\ t.text = "long" => "cut" \in reasons
<1> DEFINE read == op[p].read
<1> USE DEF HotInv
<1>1. list \in Seq(Entries) /\ read \in Seq(Entries) /\ Limit \in Nat
  BY CompactorAssumption DEF Types, Operations
<1>2. /\ WholeRead(read) /\ Len(read) \in Nat \ {0}
      /\ \A k \in 1 .. Len(read) : read[k] \in Turns
      /\ Begins(read, list) \/ Apart(read, list)
  BY DEF WholeIsRead, WholeRead
<1>3. RecentTurns = read
  OBVIOUS
<1> HIDE DEF read
<1>4. Begins(read, list)
  <2>1. 1 \in 1 .. Len(read)
    BY <1>2
  <2>2. \E i \in 1 .. Len(list) : read[1] = list[i]
    BY <1>1, <1>3, <2>1, RecentTurnsAre
  <2>3. ~Apart(read, list)
    BY <2>1, <2>2 DEF Apart
  <2> QED
    BY <1>2, <2>3
<1>5. Len(list) = Len(read)
  <2>1. CASE Len(list) <= Limit
    BY <1>1, <1>3, <2>1, RecentTurnsAre
  <2>2. CASE Len(list) > Limit
    <3>1. Len(read) = Limit /\ read[Limit] = list[Len(list)]
      BY <1>1, <1>3, <2>2, RecentTurnsAre
    <3>2. Len(list) \in Nat /\ Len(list) \in 1 .. Len(list) /\ Limit \in 1 .. Len(list)
          /\ Limit \in 1 .. Len(read)
      BY <1>1, <1>2, <2>2, <3>1
    <3>3. list[Limit] = list[Len(list)] /\ list[Limit] \in Turns
      BY <1>2, <1>4, <3>1, <3>2 DEF Begins
    <3>4. Limit = Len(list)
      BY <3>2, <3>3 DEF OnceEach
    <3> QED
      BY <3>1, <3>4
  <2> QED
    BY <1>1, <2>1, <2>2
<1>6. PICK u \in {t, Beginning(t)}, i \in 1 .. Len(list) : list[i] = u \/ u \in list[i].facts
  BY DEF Remembered
<1>7. i \in 1 .. Len(read) /\ list[i] = read[i] /\ read[i] \in Turns
  BY <1>2, <1>4, <1>5 DEF Begins
<1>8. read[i] = u
  BY <1>6, <1>7, TurnsAre
<1>9. read[i] = t
  BY <1>7, <1>8, BeginningIs
<1>10. t.text # "short" => Beginning(t) \in Facts(read)
  BY <1>1, <1>2, <1>7, <1>9, AllAreQuoted
<1>11. /\ t.text = "short" => "too short" \in reasons
       /\ t.text = "long" => "cut" \in reasons
  BY <1>2, <1>7, <1>9 DEF WholeRead
<1> QED
  BY <1>10, <1>11 DEF read

\* What holds when the history is emptied.
LEMMA EmptyStep ==
  ASSUME HotInv, list' = <<>>, asked' = asked, op' \in [Processes -> Operations],
         \A q \in Processes : op'[q].doing \in {"answer", "delete"} => op'[q] = op[q],
         \A q \in Processes : op[q].doing = "answer" => op'[q] = op[q],
         reasons \subseteq reasons'
  PROVE  ListIsPushed' /\ ReadIsPushed' /\ OneAnswers' /\ OnceEach' /\ WholeIsRead'
         /\ Ordered' /\ Lives' /\ \A s : Answering(s)' => Answering(s)
<1> USE DEF HotInv
<1>1. Len(list') = 0 /\ list' \in Seq(Entries)
  OBVIOUS
<1>2. ListIsPushed' /\ OnceEach' /\ Ordered'
  BY <1>1 DEF ListIsPushed, OnceEach, Ordered
<1>3. PushedTurns' = PushedTurns
  BY DEF PushedTurns
<1>4. ReadIsPushed' /\ OneAnswers'
  BY <1>3 DEF ReadIsPushed, OneAnswers
<1>5. WholeIsRead'
  <2> SUFFICES ASSUME Excused', NEW q \in Processes, op'[q].doing = "delete"
               PROVE  WholeRead(op[q].read)' /\ Apart(op[q].read, list)'
    BY DEF WholeIsRead
  <2>1. op'[q] = op[q] /\ Excused
    BY DEF Excused
  <2>2. WholeRead(op[q].read)
    BY <2>1 DEF WholeIsRead
  <2>3. WholeRead(op[q].read)'
    BY <2>1, <2>2 DEF WholeRead, QuotableAmong
  <2> QED
    BY <1>1, <2>3 DEF Apart
<1> QED
  BY <1>2, <1>4, <1>5 DEF Lives, Answering

LEMMA DeleteStep ==
  ASSUME HotInv, NEW p \in Processes, DeleteTurns(p)
  PROVE  HotInv'
<1> USE DEF HotInv
<1> DEFINE next == [op[p] EXCEPT !.doing = "summary"]
<1>1. op \in [Processes -> Operations] /\ op[p] \in Operations
  BY DEF Types
<1>2. next \in Operations /\ next.doing = "summary" /\ next.read = op[p].read
  BY <1>1 DEF Operations
<1>3. /\ op[p].doing = "delete" /\ list' = <<>> /\ UNCHANGED <<asked, kept>>
      /\ \/ /\ op' = [op EXCEPT ![p] = next] /\ broken' = broken
            /\ reasons' = reasons \cup {why \in {"overtaken"} : RecentTurns # op[p].read}
         \/ /\ op' = [op EXCEPT ![p] = Idle] /\ broken' = broken + 1
            /\ reasons' = reasons \cup {"broken off"}
  BY DEF DeleteTurns, Broken
<1> HIDE DEF next
<1>4. /\ op' \in [Processes -> Operations]
      /\ op'[p] = next \/ op'[p] = Idle
      /\ \A q \in Processes : q # p => op'[q] = op[q]
  BY <1>2, <1>3, OpMoves, IdleIs
<1>5. /\ \A q \in Processes : op'[q].doing \in {"answer", "delete"} => op'[q] = op[q]
      /\ \A q \in Processes : op[q].doing \in {"answer", "summary"} => op'[q] = op[q] /\ q # p
  BY <1>2, <1>3, <1>4, IdleIs
<1>6. Types'
  <2>1. broken \in Nat /\ (broken' = broken \/ broken' = broken + 1)
    BY <1>3 DEF Types
  <2>2. \A q \in Processes : op'[q].doing = "answer" => op'[q].run \in 1 .. asked
    BY <1>5 DEF Types
  <2>3. list' \in Seq(Entries) /\ broken' \in Nat
    <3>1. list' = <<>>
      BY <1>3
    <3>2. broken' \in Nat
      BY <2>1
    <3> QED
      BY ONLY <3>1, <3>2
  <2>4. asked \in 0 .. MaxSpeakers /\ kept \subseteq Speakers /\ asked' = asked /\ kept' = kept
    BY <1>3 DEF Types
  <2> QED
    BY <1>4, <2>2, <2>3, <2>4 DEF Types
<1>7. reasons \subseteq reasons'
  BY <1>3
<1>8. /\ ListIsPushed' /\ ReadIsPushed' /\ OneAnswers' /\ OnceEach' /\ WholeIsRead'
      /\ Ordered' /\ Lives' /\ \A s : Answering(s)' => Answering(s)
  BY <1>3, <1>4, <1>5, <1>7, EmptyStep
<1>9. Placed'
  <2> SUFFICES ASSUME Excused'
               PROVE  Placed'
    BY DEF Placed
  <2>1. Excused /\ reasons' = reasons /\ RecentTurns = op[p].read /\ op' = [op EXCEPT ![p] = next]
    <3>1. "broken off" \notin reasons' /\ "overtaken" \notin reasons'
      BY DEF Excused
    <3>2. /\ reasons' = reasons \cup {why \in {"overtaken"} : RecentTurns # op[p].read}
          /\ op' = [op EXCEPT ![p] = next]
      BY <1>3, <3>1
    <3>3. RecentTurns = op[p].read
      BY <3>1, <3>2
    <3>4. reasons' = reasons
      BY <3>2, <3>3
    <3> QED
      BY <3>2, <3>3, <3>4 DEF Excused
  <2>2. op'[p] = next
    BY <1>1, <2>1
  <2>3. \A t \in Turns : InPlace(t) => InPlace(t)'
    <3> SUFFICES ASSUME NEW t \in Turns, InPlace(t)
                 PROVE  InPlace(t)'
      OBVIOUS
    <3>1. CASE Remembered(t) \/ Remembered(Beginning(t))
      <4>1. /\ t.text # "short" => Beginning(t) \in Facts(op[p].read)
            /\ t.text = "short" => "too short" \in reasons'
            /\ t.text = "long" => "cut" \in reasons'
        BY <1>3, <2>1, <3>1, NothingOvertook
      <4>2. op'[p].doing = "summary" /\ op'[p].read = op[p].read
        BY <1>2, <2>2
      <4>3. t.text # "short" => InSummary(Beginning(t))'
        BY <4>1, <4>2 DEF InSummary
      <4> QED
        BY <4>1, <4>3 DEF InPlace
    <3>2. CASE InSummary(Beginning(t)) /\ (t.text = "long" => "cut" \in reasons)
      <4>1. InSummary(Beginning(t))'
        BY <1>5, <3>2 DEF InSummary
      <4> QED
        BY <2>1, <3>2, <4>1 DEF InPlace
    <3>3. CASE t.text = "short" /\ "too short" \in reasons
      BY <2>1, <3>3 DEF InPlace
    <3> QED
      BY <3>1, <3>2, <3>3 DEF InPlace
  <2>4. \A r \in Speakers : Turn(r, "user") \in Turns /\ Turn(r, "assistant") \in Turns
    BY TurnsAre DEF Roles
  <2> QED
    BY <1>3, <1>8, <2>1, <2>3, <2>4 DEF Placed
<1> QED
  BY <1>6, <1>8, <1>9

LEMMA ExpireStep ==
  ASSUME HotInv, Expire
  PROVE  HotInv'
<1> USE DEF HotInv
<1>1. /\ list' = <<>> /\ op' = op /\ asked' = asked /\ kept' = kept /\ broken' = broken + 1
      /\ reasons' = reasons \cup {"expired"}
  BY DEF Expire, Broken
<1>2. Types'
  <2>1. broken \in Nat /\ broken' = broken + 1
    BY <1>1 DEF Types
  <2>2. broken' \in Nat
    BY <2>1
  <2> QED
    BY <1>1, <2>2 DEF Types
<1>3. /\ ListIsPushed' /\ ReadIsPushed' /\ OneAnswers' /\ OnceEach' /\ WholeIsRead'
      /\ Ordered' /\ Lives'
  BY <1>1, EmptyStep DEF Types
<1>4. Placed'
  BY <1>1 DEF Placed, Excused
<1> QED
  BY <1>2, <1>3, <1>4

-----------------------------------------------------------------------------

LEMMA HotInitInv ==
  ASSUME HotInit
  PROVE  HotInv
<1>1. /\ list = <<>> /\ Len(list) = 0 /\ op = [p \in Processes |-> Idle]
      /\ asked = 0 /\ kept = {} /\ broken = 0
  BY DEF HotInit
<1>2. \A p \in Processes : op[p] = Idle /\ op[p].doing = "nothing"
  BY <1>1, IdleIs
<1>3. Types
  BY <1>1, <1>2, IdleIs, SpeakersAssumption DEF Types
<1>4. ListIsPushed /\ ReadIsPushed /\ OneAnswers /\ OnceEach /\ WholeIsRead
  BY <1>1, <1>2 DEF ListIsPushed, ReadIsPushed, OneAnswers, OnceEach, WholeIsRead
<1>5. Placed /\ Ordered /\ Lives
  BY <1>1, <1>2 DEF Placed, Answering, Ordered, Lives
<1> QED
  BY <1>3, <1>4, <1>5 DEF HotInv

LEMMA HotStep ==
  ASSUME HotInv, [HotNext]_hotVars
  PROVE  HotInv'
<1>1. CASE UNCHANGED hotVars
  <2>1. /\ list' = list /\ ttl' = ttl /\ op' = op /\ asked' = asked /\ kept' = kept
        /\ broken' = broken /\ reasons' = reasons
    BY <1>1 DEF hotVars
  <2>2. Types' /\ PushedTurns' = PushedTurns /\ OneAnswers'
    BY <2>1 DEF HotInv, Types, PushedTurns, OneAnswers
  <2>3. ListIsPushed' /\ ReadIsPushed' /\ OnceEach' /\ Ordered' /\ Lives'
    BY <2>1, <2>2 DEF HotInv, ListIsPushed, ReadIsPushed, OnceEach, Ordered, Lives
  <2>4. WholeIsRead'
    BY <2>1 DEF HotInv, WholeIsRead, Excused, WholeRead, QuotableAmong
  <2>5. \A t : InPlace(t)' <=> InPlace(t)
    BY <2>1 DEF InPlace, Remembered, InSummary
  <2>6. Placed'
    BY <2>1, <2>5 DEF HotInv, Placed, Answering, Excused
  <2> QED
    BY <2>2, <2>3, <2>4, <2>6 DEF HotInv
<1>2. CASE HotNext
  BY <1>2, QuestionStep, AnswerStep, ReadStep, DeleteStep, SummaryStep, ExpireStep
     DEF HotNext
<1> QED
  BY <1>1, <1>2

\* No turn of a conversation is lost without a reason, its turns keep their order,
\* and a history expires unless a process broke off, however many processes
\* append to the history and summarise it.
THEOREM TurnsAreKept == HotSpec => []TurnsKept
<1>1. HotInv => TurnsKept
  <2> SUFFICES ASSUME HotInv
               PROVE  TurnsKept
    OBVIOUS
  <2>1. ASSUME Excused, NEW r \in kept, NEW role \in Roles
        PROVE  InPlace(Turn(r, role))
    BY <2>1 DEF HotInv, Types, Placed, Roles
  <2>2. Ordered /\ Lives
    BY DEF HotInv
  <2> QED
    BY ONLY <2>1, <2>2 DEF Ordered, Lives, TurnsKept, Excused, InPlace, Roles
<1> QED
  BY <1>1, HotInitInv, HotStep, PTL DEF HotSpec

-----------------------------------------------------------------------------
(* The types.                                                               *)

\* What a process is about has the run, or the turns, that it needs.
OpTypeOK(o) ==
  /\ o.doing \in {"nothing", "answer", "delete", "summary"}
  /\ o.run \in Speakers <=> o.doing = "answer"
  /\ o.read # <<>> <=> o.doing \in {"delete", "summary"}

LEMMA OpTypes ==
  /\ OpTypeOK(Idle)
  /\ \A r \in Speakers : OpTypeOK([Idle EXCEPT !.doing = "answer", !.run = r])
  /\ \A turns : turns # <<>> => OpTypeOK([Idle EXCEPT !.doing = "delete", !.read = turns])
<1>1. Nobody \notin Speakers
  BY SpeakersAssumption DEF Speakers
<1> QED
  BY <1>1 DEF OpTypeOK, Idle

\* A step gives one process another operation, counts a failure while it may,
\* and keeps runs that have asked.
LEMMA HotTypeStep ==
  ASSUME HotTypeOK, Types, NEW p \in Processes, NEW o, OpTypeOK(o),
         op' = [op EXCEPT ![p] = o] \/ op' = [op EXCEPT ![p] = Idle] \/ op' = op,
         broken' = broken \/ Broken,
         asked' \in asked .. MaxSpeakers, kept' \subseteq 1 .. asked'
  PROVE  HotTypeOK'
<1>1. \A q \in Processes : OpTypeOK(op[q])
  BY DEF HotTypeOK, OpTypeOK
<1>2. \A q \in Processes : OpTypeOK(op'[q])
  BY <1>1, OpTypes DEF Types
<1>3. asked' \in 0 .. MaxSpeakers /\ broken' \in 0 .. MaxBroken
  BY SpeakersAssumption DEF HotTypeOK, Broken
<1> QED
  BY <1>2, <1>3 DEF HotTypeOK, OpTypeOK

LEMMA HotTypeNext ==
  ASSUME HotInv, HotTypeOK, [HotNext]_hotVars
  PROVE  HotTypeOK'
<1>1. /\ Types /\ asked \in 0 .. MaxSpeakers /\ kept \subseteq 1 .. asked
      /\ asked \in asked .. MaxSpeakers /\ 1 .. asked \subseteq Speakers
  BY SpeakersAssumption DEF HotInv, HotTypeOK, Types, Speakers
<1>2. ASSUME NEW p \in Processes, AppendQuestion(p)
      PROVE  HotTypeOK'
  <2> DEFINE r == asked + 1
             next == [Idle EXCEPT !.doing = "answer", !.run = r]
  <2>1. /\ asked' = r /\ r \in Speakers /\ kept' = kept
        /\ asked' \in asked .. MaxSpeakers /\ kept' \subseteq 1 .. asked'
    BY <1>1, <1>2, SpeakersAssumption DEF AppendQuestion, Speakers
  <2>2. /\ op' = [op EXCEPT ![p] = next] \/ op' = [op EXCEPT ![p] = Idle]
        /\ broken' = broken \/ Broken
    BY <1>2, <2>1 DEF AppendQuestion, Push
  <2>3. OpTypeOK(next)
    BY <2>1, OpTypes
  <2> QED
    BY <1>1, <2>1, <2>2, <2>3, HotTypeStep
<1>3. ASSUME NEW p \in Processes, AppendAnswer(p) \/ PushSummary(p)
      PROVE  HotTypeOK'
  <2>1. /\ op' = [op EXCEPT ![p] = Idle] /\ asked' = asked
        /\ broken' = broken \/ Broken
    BY <1>3 DEF AppendAnswer, PushSummary, Push
  <2>2. CASE AppendAnswer(p)
    <3>1. op[p].run \in Speakers => op[p].run \in 1 .. asked
      BY <1>1, <2>2 DEF Types, AppendAnswer
    <3>2. op[p].run \in Speakers
      BY <2>2 DEF HotTypeOK, AppendAnswer
    <3>3. kept' = kept \/ kept' = kept \cup {op[p].run}
      BY <2>2 DEF AppendAnswer
    <3> QED
      BY <1>1, <2>1, <3>1, <3>2, <3>3, OpTypes, HotTypeStep
  <2>3. CASE PushSummary(p)
    BY <1>1, <2>1, <2>3, OpTypes, HotTypeStep DEF PushSummary
  <2> QED
    BY <1>3, <2>2, <2>3
<1>4. ASSUME NEW p \in Processes, ReadTurns(p)
      PROVE  HotTypeOK'
  <2> DEFINE next == [Idle EXCEPT !.doing = "delete", !.read = RecentTurns]
  <2>1. RecentTurns # <<>>
    <3>1. Len(RecentTurns) >= Threshold
      BY <1>4 DEF ReadTurns
    <3>2. Threshold > 1 /\ Threshold \in Nat
      BY CompactorAssumption
    <3>3. ASSUME NEW t, t = <<>>
          PROVE  Len(t) = 0
      BY <3>3
    <3> QED
      BY ONLY <3>1, <3>2, <3>3
  <2>2. OpTypeOK(next)
    BY <2>1, OpTypes
  <2>3. /\ op' = [op EXCEPT ![p] = next] /\ asked' = asked /\ kept' = kept /\ broken' = broken
    BY <1>4 DEF ReadTurns
  <2> QED
    BY <1>1, <2>2, <2>3, HotTypeStep
<1>5. ASSUME NEW p \in Processes, DeleteTurns(p)
      PROVE  HotTypeOK'
  <2> DEFINE next == [op[p] EXCEPT !.doing = "summary"]
  <2>1. op[p] \in Operations /\ OpTypeOK(op[p]) /\ op[p].doing = "delete"
    BY <1>1, <1>5 DEF DeleteTurns, HotTypeOK, OpTypeOK, Types
  <2>2. OpTypeOK(next)
    BY <2>1 DEF OpTypeOK, Operations
  <2>3. /\ op' = [op EXCEPT ![p] = next] \/ op' = [op EXCEPT ![p] = Idle]
        /\ asked' = asked /\ kept' = kept /\ (broken' = broken \/ Broken)
    BY <1>1, <1>5 DEF DeleteTurns, Types
  <2> QED
    BY <1>1, <2>2, <2>3, HotTypeStep
<1>6. ASSUME Expire
      PROVE  HotTypeOK'
  <2>1. op' = op /\ asked' = asked /\ kept' = kept /\ Broken
    BY <1>6 DEF Expire
  <2> QED
    BY <1>1, <2>1, SpeakersAssumption DEF HotTypeOK, Broken
<1>7. CASE UNCHANGED hotVars
  BY <1>7 DEF hotVars, HotTypeOK
<1> QED
  BY <1>2, <1>3, <1>4, <1>5, <1>6, <1>7 DEF HotNext

LEMMA HotTypeInit ==
  ASSUME HotInit
  PROVE  HotTypeOK
<1>1. \A p \in Processes : op[p] = Idle
  BY DEF HotInit
<1>2. \A p \in Processes : OpTypeOK(op[p])
  BY <1>1, OpTypes
<1>3. asked \in 0 .. MaxSpeakers /\ broken \in 0 .. MaxBroken /\ kept \subseteq 1 .. asked
  BY SpeakersAssumption DEF HotInit
<1> QED
  BY <1>2, <1>3 DEF HotTypeOK, OpTypeOK

\* A process answers for a run that has asked, and deletes and summarises turns
\* that it has read; no run is kept that has not asked.
THEOREM HotTypes == HotSpec => []HotTypeOK
<1>1. HotInit => HotInv /\ HotTypeOK
  BY HotInitInv, HotTypeInit
<1>2. HotInv /\ HotTypeOK /\ [HotNext]_hotVars => (HotInv /\ HotTypeOK)'
  BY HotStep, HotTypeNext
<1> QED
  BY <1>1, <1>2, PTL DEF HotSpec
=============================================================================
