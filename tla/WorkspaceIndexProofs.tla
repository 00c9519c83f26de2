-------------------------- MODULE WorkspaceIndexProofs --------------------------
(***************************************************************************)
(* What the index holds of the files that jobs have read, for any number   *)
(* of jobs and workspaces, any texts, sizes of windows and batches, and    *)
(* any failures, restarts and edits.                                       *)
(*                                                                         *)
(* The argument follows a piece of a text that a job has read: until the   *)
(* job breaks off, the piece is the last of its id in the batch, or it has *)
(* been upserted; then only another job replaces it, and says so if it     *)
(* read the file earlier.                                                  *)
(***************************************************************************)
EXTENDS MCMemory, HotMemoryProofs, SequenceTheorems, FiniteSetTheorems, TLAPS

-----------------------------------------------------------------------------
(* Windows.                                                                 *)

\* Numbers have a least one.
LEMMA LeastOf ==
  ASSUME NEW S \in SUBSET Nat, S # {}
  PROVE  Min(S) \in S /\ \A m \in S : Min(S) <= m
<1>1. \E n \in S : \A m \in S : ~(<<m, n>> \in OpToRel(<, Nat))
  BY WFMin, NatLessThanWellFounded
<1>2. PICK n \in S : \A m \in S : ~(<<m, n>> \in OpToRel(<, Nat))
  BY <1>1
<1>3. ASSUME NEW m \in S
      PROVE  n <= m
  <2>1. m \in Nat /\ n \in Nat
    OBVIOUS
  <2>2. ~(m < n)
    BY <1>2, <2>1 DEF OpToRel
  <2> QED
    BY <2>1, <2>2
<1> QED
  BY <1>3 DEF Min

LEMMA SizeIs ==
  /\ Size \in Int /\ Size >= 1 /\ Overlap \in Int /\ Overlap >= 0 /\ Overlap < Size
BY WindowAssumption

LEMMA StartIs ==
  /\ Start(1) = 0
  /\ \A i \in Nat : Start(i + 1) = Start(i) + (Size - Overlap)
  /\ \A i \in Nat \ {0} : Start(i) \in Nat /\ Start(i) >= i - 1
<1>1. Size - Overlap \in Nat \ {0}
  BY WindowAssumption
<1>2. Start(1) = 0
  BY <1>1 DEF Start
<1>3. ASSUME NEW i \in Nat
      PROVE  Start(i + 1) = Start(i) + (Size - Overlap)
  <2> DEFINE s == Size - Overlap
  <2>1. s \in Int
    BY <1>1
  <2> HIDE DEF s
  <2>2. (i + 1 - 1) * s = (i - 1) * s + s
    BY <2>1
  <2> QED
    BY <2>2 DEF Start, s
<1>4. ASSUME NEW i \in Nat \ {0}
      PROVE  Start(i) \in Nat /\ Start(i) >= i - 1
  <2> DEFINE s == Size - Overlap
  <2>1. s \in Nat \ {0}
    BY <1>1
  <2> HIDE DEF s
  <2>2. (i - 1) * s \in Nat /\ (i - 1) * s >= i - 1
    BY <2>1
  <2> QED
    BY <2>2 DEF Start, s
<1> QED
  BY <1>2, <1>3, <1>4

\* The last window is the first that reaches the end, and every window begins
\* before it.
LEMMA WindowsAre ==
  ASSUME NEW text \in Texts
  PROVE  /\ Len(text) \in Nat /\ Windows(text) \in Nat
         /\ text = <<>> <=> Windows(text) = 0
         /\ text # <<>> => /\ Start(Windows(text)) + Size >= Len(text)
                           /\ \A i \in 1 .. Windows(text) - 1 : Start(i) + Size < Len(text)
                           /\ \A i \in 1 .. Windows(text) : Start(i) < Len(text)
<1>1. Len(text) \in Nat /\ (text # <<>> => Len(text) > 0)
  BY TextAssumption
<1>2. CASE text = <<>>
  BY <1>1, <1>2 DEF Windows
<1>3. CASE text # <<>>
  <2> DEFINE S == {i \in 1 .. Len(text) : Start(i) + Size >= Len(text)}
  <2>1. Len(text) \in S
    <3>1. Len(text) \in Nat \ {0} /\ Len(text) \in 1 .. Len(text)
      BY <1>1, <1>3
    <3>2. Start(Len(text)) \in Nat /\ Start(Len(text)) >= Len(text) - 1
      BY <3>1, StartIs
    <3>3. Start(Len(text)) + Size >= Len(text)
      BY <3>1, <3>2, SizeIs
    <3> QED
      BY <3>1, <3>3
  <2>2. S \in SUBSET Nat
    OBVIOUS
  <2>3. Min(S) \in S /\ \A m \in S : Min(S) <= m
    BY <2>1, <2>2, LeastOf
  <2>4. Windows(text) \in S /\ \A m \in S : Windows(text) <= m
    BY <1>3, <2>3 DEF Windows
  <2>5. ASSUME NEW i \in 1 .. Windows(text) - 1
        PROVE  Start(i) + Size < Len(text)
    <3>1. i \in 1 .. Len(text) /\ i \notin S
      BY <1>1, <2>4
    <3>2. i \in Nat \ {0}
      BY <1>1, <2>4
    <3>3. Start(i) \in Nat
      BY <3>2, StartIs
    <3> QED
      BY <1>1, <3>1, <3>3, SizeIs
  <2>6. ASSUME NEW i \in 1 .. Windows(text)
        PROVE  Start(i) < Len(text)
    <3>1. CASE i = 1
      BY <1>1, <1>3, <3>1, StartIs
    <3>2. CASE i # 1
      <4>1. i - 1 \in 1 .. Windows(text) - 1 /\ i - 1 \in Nat \ {0} /\ i = (i - 1) + 1
        BY <2>4, <3>2
      <4>2. Start(i) = Start(i - 1) + (Size - Overlap) /\ Start(i - 1) \in Nat
        BY <4>1, StartIs
      <4>3. Start(i - 1) + Size < Len(text)
        BY <2>5, <4>1
      <4> QED
        BY <1>1, <4>2, <4>3, SizeIs
    <3> QED
      BY <3>1, <3>2
  <2> QED
    BY <1>1, <1>3, <2>4, <2>5, <2>6
<1> QED
  BY <1>2, <1>3

LEMMA MinOfTwo ==
  ASSUME NEW a \in Int, NEW b \in Int
  PROVE  Min({a, b}) = IF a <= b THEN a ELSE b
BY DEF Min

\* The pieces of a text: each is there, is not longer than a window, and has the
\* letters from where it starts.
LEMMA PiecesAre ==
  ASSUME NEW text \in Texts
  PROVE  /\ Len(ChunkText(text)) = Windows(text)
         /\ ChunkText(text) \in Seq(UNION {Range(ChunkText(t)) : t \in Texts})
         /\ \A i \in 1 .. Windows(text) :
              /\ Len(ChunkText(text)[i])
                   = (IF Start(i) + Size <= Len(text) THEN Size ELSE Len(text) - Start(i))
              /\ \A k \in 1 .. Len(ChunkText(text)[i]) :
                   ChunkText(text)[i][k] = text[Start(i) + k]
<1> DEFINE n == Windows(text)
<1>1. n \in Nat /\ Len(text) \in Nat /\ (n # 0 => text # <<>>)
  BY WindowsAre
<1>2. /\ Len(ChunkText(text)) = n /\ DOMAIN ChunkText(text) = 1 .. n
      /\ \A i \in 1 .. n : ChunkText(text)[i]
                             = SubSeq(text, Start(i) + 1, Min({Start(i) + Size, Len(text)}))
  <2> DEFINE f == ChunkText(text)
  <2>1. DOMAIN f = 1 .. n
    BY DEF ChunkText
  <2>2. \A i \in 1 .. n : f[i] = SubSeq(text, Start(i) + 1, Min({Start(i) + Size, Len(text)}))
    BY DEF ChunkText
  <2>3. f = [i \in 1 .. n |-> f[i]]
    BY <2>1 DEF ChunkText
  <2> HIDE DEF n, f
  <2>4. Len(f) = n
    BY <1>1, <2>3
  <2> QED
    BY <2>1, <2>2, <2>4 DEF f
<1>3. ChunkText(text) \in Seq(UNION {Range(ChunkText(t)) : t \in Texts})
  <2>1. \A i \in 1 .. n : ChunkText(text)[i] \in Range(ChunkText(text))
    BY <1>2 DEF Range
  <2>2. \A i \in 1 .. n : ChunkText(text)[i] \in UNION {Range(ChunkText(t)) : t \in Texts}
    BY <2>1
  <2>3. ChunkText(text) = [i \in 1 .. n |-> ChunkText(text)[i]]
    BY <1>2 DEF ChunkText
  <2> HIDE DEF n
  <2> QED
    BY <1>1, <2>2, <2>3
<1>4. ASSUME NEW i \in 1 .. n
      PROVE  /\ Len(ChunkText(text)[i])
                  = (IF Start(i) + Size <= Len(text) THEN Size ELSE Len(text) - Start(i))
             /\ \A k \in 1 .. Len(ChunkText(text)[i]) :
                  ChunkText(text)[i][k] = text[Start(i) + k]
  <2> DEFINE a == Start(i) + 1
             b == Min({Start(i) + Size, Len(text)})
  <2>1. Start(i) \in Nat /\ Start(i) < Len(text) /\ Size \in Nat \ {0}
    <3>1. i \in Nat \ {0} /\ text # <<>>
      BY <1>1
    <3> QED
      BY <3>1, StartIs, WindowsAre, SizeIs
  <2>2. b = IF Start(i) + Size <= Len(text) THEN Start(i) + Size ELSE Len(text)
    BY <1>1, <2>1, MinOfTwo
  <2>3. a \in 1 .. Len(text) /\ b \in a .. Len(text)
    BY <1>1, <2>1, <2>2
  <2>4. text \in Seq(Range(text))
    BY TextAssumption
  <2>5. \A l \in a .. b : text[l] \in Range(text)
    BY <2>3, <2>4
  <2> HIDE DEF a, b
  <2>6. /\ Len(SubSeq(text, a, b)) = b - a + 1
        /\ \A k \in 1 .. b - a + 1 : SubSeq(text, a, b)[k] = text[a + k - 1]
    BY <2>3, <2>5, SubSeqProperties
  <2>7. ChunkText(text)[i] = SubSeq(text, a, b)
    BY <1>2 DEF a, b
  <2>8. b - a + 1 = IF Start(i) + Size <= Len(text) THEN Size ELSE Len(text) - Start(i)
    BY <1>1, <2>1, <2>2 DEF a
  <2>9. \A k \in 1 .. b - a + 1 : a + k - 1 = Start(i) + k
    BY <2>1 DEF a
  <2> QED
    BY <2>6, <2>7, <2>8, <2>9
<1> QED
  BY <1>2, <1>3, <1>4

\* A letter is in a window.
LEMMA LetterInWindow ==
  ASSUME NEW text \in Texts, NEW k \in 1 .. Len(text)
  PROVE  \E i \in 1 .. Windows(text) :
           Start(i) < k /\ k <= Start(i) + Len(ChunkText(text)[i])
<1> DEFINE n == Windows(text)
           S == {i \in 1 .. n : k <= Start(i) + Size}
<1>1. /\ Len(text) \in Nat /\ n \in Nat /\ text # <<>> /\ n # 0
      /\ Start(n) + Size >= Len(text)
  <2>1. Len(text) \in Nat /\ text # <<>>
    BY WindowsAre
  <2> QED
    BY <2>1, WindowsAre
<1>2. n \in S
  <2>1. n \in Nat \ {0} /\ n \in 1 .. n
    BY <1>1
  <2>2. Start(n) \in Nat
    BY <2>1, StartIs
  <2> QED
    BY <1>1, <2>1, <2>2, SizeIs
<1>3. S \in SUBSET Nat
  BY <1>1
<1>4. Min(S) \in S /\ \A m \in S : Min(S) <= m
  BY <1>2, <1>3, LeastOf
<1> DEFINE i == Min(S)
<1> HIDE DEF i
<1>i. i \in S /\ \A m \in S : i <= m
  BY <1>4 DEF i
<1>5. Start(i) \in Nat /\ i \in 1 .. n /\ k <= Start(i) + Size
  <2>1. i \in Nat \ {0}
    BY <1>1, <1>i
  <2> QED
    BY <1>i, <2>1, StartIs
<1>6. Start(i) < k
  <2>1. CASE i = 1
    BY <2>1, StartIs
  <2>2. CASE i # 1
    <3>1. i - 1 \in 1 .. n /\ i - 1 \notin S /\ i - 1 \in Nat \ {0} /\ i = (i - 1) + 1
      <4>1. i - 1 \in 1 .. n /\ i - 1 \in Nat \ {0} /\ i = (i - 1) + 1
        BY <1>1, <1>5, <2>2
      <4>2. ~(i <= i - 1)
        BY <1>1, <1>5
      <4> QED
        BY <1>i, <4>1, <4>2
    <3>2. Start(i) = Start(i - 1) + (Size - Overlap) /\ Start(i - 1) \in Nat
      BY <3>1, StartIs
    <3>3. ~(k <= Start(i - 1) + Size)
      BY <3>1
    <3> QED
      BY <3>2, <3>3, SizeIs
  <2> QED
    BY <2>1, <2>2
<1>7. k <= Start(i) + Len(ChunkText(text)[i])
  <2>1. Len(ChunkText(text)[i])
          = IF Start(i) + Size <= Len(text) THEN Size ELSE Len(text) - Start(i)
    BY <1>5, PiecesAre
  <2> HIDE DEF n, S
  <2> QED
    BY <1>1, <1>5, <2>1, SizeIs
<1> QED
  BY <1>5, <1>6, <1>7

\* The pieces put together give the text.
LEMMA TextIsReassembled ==
  ASSUME NEW text \in Texts
  PROVE  Reassembled(ChunkText(text)) = text
<1> DEFINE pieces == ChunkText(text)
           n == Len(pieces)
           Window(k) == CHOOSE i \in 1 .. n : Start(i) < k /\ k <= Start(i) + Len(pieces[i])
           total == IF n = 0 THEN 0 ELSE Start(n) + Len(pieces[n])
<1>1. n = Windows(text) /\ n \in Nat /\ Len(text) \in Nat
  BY WindowsAre, PiecesAre
<1>2. total = Len(text)
  <2>1. CASE n = 0
    <3>1. text = <<>>
      BY <1>1, <2>1, WindowsAre
    <3> QED
      BY <2>1, <3>1
  <2>2. CASE n # 0
    <3>1. text # <<>> /\ Start(n) + Size >= Len(text) /\ Start(n) \in Nat
      <4>1. n \in Nat \ {0}
        BY <1>1, <2>2
      <4> QED
        BY <1>1, <4>1, WindowsAre, StartIs
    <3>2. Len(pieces[n])
            = IF Start(n) + Size <= Len(text) THEN Size ELSE Len(text) - Start(n)
      <4>1. n \in 1 .. Windows(text)
        BY <1>1, <2>2
      <4> QED
        BY <4>1, PiecesAre
    <3> QED
      BY <1>1, <2>2, <3>1, <3>2, SizeIs
  <2> QED
    BY <2>1, <2>2
<1>3. ASSUME NEW k \in 1 .. Len(text)
      PROVE  pieces[Window(k)][k - Start(Window(k))] = text[k]
  <2>1. \E i \in 1 .. n : Start(i) < k /\ k <= Start(i) + Len(pieces[i])
    BY <1>1, LetterInWindow
  <2>2. /\ Window(k) \in 1 .. n /\ Start(Window(k)) < k
        /\ k <= Start(Window(k)) + Len(pieces[Window(k)])
    BY <2>1
  <2> DEFINE i == Window(k)
  <2> HIDE DEF Window, i
  <2>3. i \in 1 .. n /\ Start(i) < k /\ k <= Start(i) + Len(pieces[i])
    BY <2>2 DEF i
  <2>4. Start(i) \in Nat
    <3>1. i \in Nat \ {0}
      BY <1>1, <2>3
    <3> QED
      BY <3>1, StartIs
  <2>5. Len(pieces[i]) \in Nat
    BY <1>1, <2>3, <2>4, PiecesAre, SizeIs, WindowsAre
  <2>6. k - Start(i) \in 1 .. Len(pieces[i]) /\ Start(i) + (k - Start(i)) = k
    BY <2>3, <2>4, <2>5
  <2>7. pieces[i][k - Start(i)] = text[Start(i) + (k - Start(i))]
    BY <1>1, <2>3, <2>6, PiecesAre
  <2> QED
    BY <2>6, <2>7 DEF i
<1>4. Reassembled(pieces) = [k \in 1 .. total |-> pieces[Window(k)][k - Start(Window(k))]]
  BY DEF Reassembled
<1>5. text = [k \in 1 .. Len(text) |-> text[k]]
  BY TextAssumption
<1> HIDE DEF total, Window, pieces, n
<1>6. Reassembled(pieces) = [k \in 1 .. Len(text) |-> text[k]]
  BY <1>2, <1>3, <1>4
<1> QED
  BY <1>5, <1>6 DEF pieces
-----------------------------------------------------------------------------
(* Batches.                                                                 *)

\* Positions have a greatest one.
LEMMA GreatestOf ==
  ASSUME NEW n \in Nat, NEW S \in SUBSET (1 .. n), S # {}
  PROVE  Max(S) \in S /\ \A m \in S : m <= Max(S)
<1> DEFINE T == {t \in 0 .. n : n - t \in S}
           t0 == Min(T)
<1>1. T \in SUBSET Nat
  OBVIOUS
<1>2. T # {}
  <2>1. PICK m \in S : TRUE
    OBVIOUS
  <2>2. m \in 1 .. n
    OBVIOUS
  <2>3. n - m \in 0 .. n /\ n - (n - m) = m
    BY <2>2
  <2> QED
    BY <2>1, <2>3
<1>3. t0 \in T /\ \A t \in T : t0 <= t
  BY <1>1, <1>2, LeastOf
<1> HIDE DEF t0
<1>4. n - t0 \in S /\ t0 \in 0 .. n
  BY <1>3
<1>5. ASSUME NEW m \in S
      PROVE  m <= n - t0
  <2>1. m \in 1 .. n
    OBVIOUS
  <2>2. n - m \in 0 .. n /\ n - (n - m) = m
    BY <2>1
  <2>3. t0 <= n - m
    BY <1>3, <2>2
  <2> QED
    BY <1>4, <2>1, <2>3
<1>6. \E x \in S : \A y \in S : x >= y
  <2>1. \A y \in S : n - t0 >= y
    BY <1>4, <1>5
  <2> QED
    BY <1>4, <2>1
<1>7. Max(S) \in S /\ \A y \in S : Max(S) >= y
  BY <1>6 DEF Max
<1> QED
  BY <1>7

\* The greatest is the one that is not below another.
LEMMA GreatestIs ==
  ASSUME NEW n \in Nat, NEW S \in SUBSET (1 .. n), NEW k \in S, \A m \in S : m <= k
  PROVE  Max(S) = k
<1>1. Max(S) \in S /\ \A m \in S : m <= Max(S)
  BY GreatestOf
<1>2. Max(S) <= k /\ k <= Max(S) /\ Max(S) \in 1 .. n /\ k \in 1 .. n
  BY <1>1
<1> QED
  BY <1>2

LEMMA BatchSplits ==
  ASSUME NEW R, NEW s \in Seq(R), NEW n \in 0 .. Len(s)
  PROVE  /\ SubSeq(s, 1, n) \in Seq(R) /\ Len(SubSeq(s, 1, n)) = n
         /\ \A k \in 1 .. n : SubSeq(s, 1, n)[k] = s[k]
         /\ SubSeq(s, n + 1, Len(s)) \in Seq(R)
         /\ Len(SubSeq(s, n + 1, Len(s))) = Len(s) - n
         /\ \A k \in 1 .. Len(s) - n : SubSeq(s, n + 1, Len(s))[k] = s[n + k]
<1>1. Len(s) \in Nat /\ n \in Nat /\ n <= Len(s)
  OBVIOUS
<1>2. \A k \in 1 .. Len(s) : s[k] \in R
  OBVIOUS
<1>3. \A k \in 1 .. n : s[k] \in R
  BY <1>1, <1>2
<1>4. /\ SubSeq(s, 1, n) \in Seq(R)
      /\ Len(SubSeq(s, 1, n)) = IF 1 <= n THEN n - 1 + 1 ELSE 0
      /\ \A k \in 1 .. n - 1 + 1 : SubSeq(s, 1, n)[k] = s[1 + k - 1]
  BY <1>1, <1>3, SubSeqProperties
<1>5. \A k \in n + 1 .. Len(s) : s[k] \in R
  BY <1>1, <1>2
<1>6. /\ SubSeq(s, n + 1, Len(s)) \in Seq(R)
      /\ Len(SubSeq(s, n + 1, Len(s))) = IF n + 1 <= Len(s) THEN Len(s) - (n + 1) + 1 ELSE 0
      /\ \A k \in 1 .. Len(s) - (n + 1) + 1 :
           SubSeq(s, n + 1, Len(s))[k] = s[n + 1 + k - 1]
  BY <1>1, <1>5, SubSeqProperties
<1>7. n - 1 + 1 = n /\ Len(s) - (n + 1) + 1 = Len(s) - n
  BY <1>1
<1>8. \A k \in 1 .. n : 1 + k - 1 = k
  OBVIOUS
<1>9. \A k \in 1 .. Len(s) - n : n + 1 + k - 1 = n + k
  BY <1>1
<1>a. /\ Len(SubSeq(s, 1, n)) = n /\ SubSeq(s, 1, n) \in Seq(R)
      /\ \A k \in 1 .. n : SubSeq(s, 1, n)[k] = s[k]
  <2>1. Len(SubSeq(s, 1, n)) = n
    BY <1>1, <1>4
  <2>2. ASSUME NEW k \in 1 .. n
        PROVE  SubSeq(s, 1, n)[k] = s[k]
    <3>1. SubSeq(s, 1, n)[k] = s[1 + k - 1]
      BY <1>4, <1>7
    <3> QED
      BY <1>8, <3>1
  <2> QED
    BY <1>4, <2>1, <2>2
<1>b. /\ Len(SubSeq(s, n + 1, Len(s))) = Len(s) - n
      /\ \A k \in 1 .. Len(s) - n : SubSeq(s, n + 1, Len(s))[k] = s[n + k]
  <2>1. Len(SubSeq(s, n + 1, Len(s))) = Len(s) - n
    BY <1>1, <1>6
  <2>2. ASSUME NEW k \in 1 .. Len(s) - n
        PROVE  SubSeq(s, n + 1, Len(s))[k] = s[n + k]
    <3>1. SubSeq(s, n + 1, Len(s))[k] = s[n + 1 + k - 1]
      BY <1>6, <1>7
    <3> QED
      BY <1>9, <3>1
  <2> QED
    BY <2>1, <2>2
<1> QED
  BY <1>6, <1>a, <1>b

\* Of the chunks of an id, which one is the last.
LEMMA LastOwn ==
  ASSUME NEW R, NEW s \in Seq(R), NEW id, Own(s, id) # {}
  PROVE  /\ Max(Own(s, id)) \in 1 .. Len(s) /\ s[Max(Own(s, id))].id = id
         /\ \A k \in 1 .. Len(s) : s[k].id = id => k <= Max(Own(s, id))
<1>1. Own(s, id) \in SUBSET (1 .. Len(s)) /\ Len(s) \in Nat
  BY DEF Own
<1>2. Max(Own(s, id)) \in Own(s, id) /\ \A m \in Own(s, id) : m <= Max(Own(s, id))
  BY <1>1, GreatestOf
<1> QED
  BY <1>2 DEF Own

LEMMA LastOwnIs ==
  ASSUME NEW R, NEW s \in Seq(R), NEW id, NEW k \in 1 .. Len(s), s[k].id = id,
         \A m \in 1 .. Len(s) : s[m].id = id => m <= k
  PROVE  Own(s, id) # {} /\ Max(Own(s, id)) = k
<1>1. Own(s, id) \in SUBSET (1 .. Len(s)) /\ Len(s) \in Nat
  BY DEF Own
<1>2. k \in Own(s, id) /\ \A m \in Own(s, id) : m <= k
  BY DEF Own
<1> QED
  BY <1>1, <1>2, GreatestIs

LEMMA IdsAreOwn ==
  ASSUME NEW s, NEW id
  PROVE  id \in Ids(s) <=> Own(s, id) # {}
BY DEF Ids, Own

\* The chunks of a text.
LEMMA ChunksAre ==
  ASSUME NEW j \in Jobs, job[j].workspace \in Workspaces, NEW path \in Paths, NEW text \in Texts
  PROVE  LET chunks == Chunks(j, path, text)
         IN /\ chunks \in Seq(ChunkRecords) /\ Len(chunks) = Len(ChunkText(text))
            /\ Len(ChunkText(text)) \in Nat
            /\ \A i \in 1 .. Len(chunks) :
                 /\ chunks[i].id = <<job[j].workspace, path, i>>
                 /\ chunks[i].text = ChunkText(text)[i] /\ chunks[i].by = j
<1> DEFINE n == Len(ChunkText(text))
           w == job[j].workspace
           C == UNION {Range(ChunkText(t)) : t \in Texts}
           chunks == Chunks(j, path, text)
<1>1. n \in Nat /\ ChunkText(text) \in Seq(C)
  BY PiecesAre, WindowsAre
<1>2. \A i \in 1 .. n : ChunkText(text)[i] \in C
  BY <1>1
<1>3. chunks = [i \in 1 .. n |-> [id |-> <<w, path, i>>, text |-> ChunkText(text)[i], by |-> j]]
  BY DEF Chunks
<1> HIDE DEF C, n, w
<1>4. ASSUME NEW i \in 1 .. n
      PROVE  [id |-> <<w, path, i>>, text |-> ChunkText(text)[i], by |-> j] \in ChunkRecords
  <2>1. i \in Nat \ {0}
    BY <1>1
  <2>2. <<w, path, i>> \in ChunkIds
    BY <2>1 DEF ChunkIds, w
  <2> QED
    BY <1>2, <2>2 DEF ChunkRecords, C
<1> HIDE DEF chunks
<1>5. chunks \in Seq(ChunkRecords) /\ Len(chunks) = n
  BY <1>1, <1>3, <1>4
<1>6. \A i \in 1 .. n : chunks[i] = [id |-> <<w, path, i>>, text |-> ChunkText(text)[i], by |-> j]
  BY <1>3
<1>7. ASSUME NEW i \in 1 .. n
      PROVE  /\ chunks[i].id = <<w, path, i>>
             /\ chunks[i].text = ChunkText(text)[i] /\ chunks[i].by = j
  <2>1. chunks[i] = [id |-> <<w, path, i>>, text |-> ChunkText(text)[i], by |-> j]
    BY <1>6
  <2> QED
    BY <2>1
<1> QED
  BY <1>1, <1>5, <1>7 DEF chunks, n, w

\* An upsert writes the last chunk of each id, and leaves the others.
LEMMA UpsertedIs ==
  ASSUME NEW s \in Seq(ChunkRecords), DOMAIN index \subseteq ChunkIds,
         index \in [DOMAIN index -> ChunkRecords], \A id \in DOMAIN index : index[id].id = id
  PROVE  /\ DOMAIN Upserted(s) = DOMAIN index \cup Ids(s) /\ DOMAIN Upserted(s) \subseteq ChunkIds
         /\ Upserted(s) \in [DOMAIN Upserted(s) -> ChunkRecords]
         /\ \A id \in DOMAIN Upserted(s) : Upserted(s)[id].id = id
         /\ \A id \in Ids(s) : /\ Max(Own(s, id)) \in 1 .. Len(s)
                               /\ s[Max(Own(s, id))].id = id
                               /\ Upserted(s)[id] = s[Max(Own(s, id))]
         /\ \A id \in DOMAIN index \ Ids(s) : Upserted(s)[id] = index[id]
<1>1. ASSUME NEW id \in Ids(s)
      PROVE  /\ Max(Own(s, id)) \in 1 .. Len(s) /\ s[Max(Own(s, id))].id = id
             /\ s[Max(Own(s, id))] \in ChunkRecords
  <2>1. Own(s, id) # {}
    BY IdsAreOwn
  <2>2. Max(Own(s, id)) \in 1 .. Len(s) /\ s[Max(Own(s, id))].id = id
    BY <2>1, LastOwn
  <2> QED
    BY <2>2
<1>2. Ids(s) \subseteq ChunkIds
  <2>1. ASSUME NEW i \in 1 .. Len(s)
        PROVE  s[i].id \in ChunkIds
    <3>1. s[i] \in ChunkRecords
      OBVIOUS
    <3> QED
      BY <3>1 DEF ChunkRecords
  <2> QED
    BY <2>1 DEF Ids
<1>3. /\ DOMAIN Upserted(s) = DOMAIN index \cup Ids(s)
      /\ \A id \in DOMAIN index \cup Ids(s) :
           Upserted(s)[id] = IF id \in Ids(s) THEN s[Max(Own(s, id))] ELSE index[id]
      /\ Upserted(s) = [id \in DOMAIN index \cup Ids(s) |->
                          IF id \in Ids(s) THEN s[Max(Own(s, id))] ELSE index[id]]
  BY DEF Upserted
<1>4. \A id \in DOMAIN index \cup Ids(s) :
        (IF id \in Ids(s) THEN s[Max(Own(s, id))] ELSE index[id]) \in ChunkRecords
  BY <1>1
<1>5. Upserted(s) \in [DOMAIN index \cup Ids(s) -> ChunkRecords]
  BY <1>3, <1>4
<1> QED
  BY <1>1, <1>2, <1>3, <1>5
-----------------------------------------------------------------------------
(* The invariant.                                                           *)

\* A job that has not broken off.
Unbroken(j) ==
  \/ work[j].at \in {"queued", "indexing"}
  \/ work[j].at = "ending" /\ ~work[j].error
  \/ job[j].row = "completed"

\* Where a job is, and what it can have done by then.
Stages(j) ==
  /\ job[j].row = "none" => work[j] = NoWork
  /\ job[j].row # "none" => job[j].workspace \in Workspaces
  /\ work[j].at = "ending" /\ ~work[j].error => work[j].batch = <<>>
  /\ job[j].row = "completed" => /\ work[j].at = "gone" /\ work[j].batch = <<>>
                                 /\ job[j].upserted = work[j].upserted

\* A piece is of a text that its job has read; if the job reads each file once,
\* of the text that it keeps.
Labelled(j) ==
  \A k \in 1 .. Len(work[j].batch) :
    LET chunk == work[j].batch[k]
    IN /\ chunk.by = j /\ chunk.id[1] = job[j].workspace
       /\ \A path \in Paths :
            Once(j) /\ chunk.id[2] = path => chunk.id[3] <= Len(PiecesOf(j, path))

IndexLabelled ==
  \A id \in DOMAIN index, j \in Jobs : index[id].by = j =>
    job[j].row # "none" /\ (Once(j) => id[3] <= Len(PiecesOf(j, id[2])))

\* The last reader of a file has its text.
LastHasRead ==
  \A w \in Workspaces, path \in Paths, j \in Jobs : last[<<w, path>>] = j =>
    job[j].workspace = w /\ work[j].read[path] # None

\* A piece of what a job has read waits in the batch, or is in the index.
Delivered(j) ==
  Unbroken(j) => \A path \in Paths : \A i \in 1 .. Len(PiecesOf(j, path)) :
    LET w == job[j].workspace
        id == <<w, path, i>>
        own == Own(work[j].batch, id)
    IN /\ own # {} => work[j].batch[Max(own)].text = PiecesOf(j, path)[i]
       /\ own = {} =>
            /\ id \in DOMAIN index
            /\ index[id].by = j => index[id].text = PiecesOf(j, path)[i]
            /\ last[<<w, path>>] = j /\ <<w, path>> \notin mixed => index[id].by = j

\* A job that names no file twice reads none twice.
ReadsOnce(j) ==
  Once(j) /\ work[j].at \in {"queued", "indexing"} =>
    LET todo == work[j].todo
    IN /\ \A i, k \in 1 .. Len(todo) : i # k => todo[i] # todo[k] \/ todo[i] = None
       /\ \A i \in 1 .. Len(todo) : todo[i] \in Paths => work[j].read[todo[i]] = None
       /\ \A i \in 1 .. Len(todo) : todo[i] = Directory =>
            Len(todo) = 1 /\ \A path \in Paths : work[j].read[path] = None

\* Then its pieces are as many as it has upserted, and waits to.
Counted(j) ==
  Once(j) /\ Unbroken(j) =>
    /\ IsFiniteSet(ReadIds(j))
    /\ work[j].upserted + Len(work[j].batch) = Cardinality(ReadIds(j))

JobInv(j) == Stages(j) /\ Labelled(j) /\ Delivered(j) /\ ReadsOnce(j) /\ Counted(j)

IndexInv == IndexTypeOK /\ IndexLabelled /\ LastHasRead /\ \A j \in Jobs : JobInv(j)

-----------------------------------------------------------------------------
(* Steps of a job.                                                          *)

Others(j) == \A k \in Jobs \ {j} : work'[k] = work[k] /\ job'[k] = job[k]

LEMMA FieldTypes ==
  ASSUME IndexTypeOK, NEW j \in Jobs
  PROVE  /\ job[j] \in JobRecords /\ work[j] \in WorkRecords
         /\ work[j].todo \in Seq(Paths \cup {Directory, None})
         /\ work[j].batch \in Seq(ChunkRecords) /\ Len(work[j].batch) \in Nat
         /\ work[j].read \in [Paths -> Texts \cup {None}]
         /\ work[j].indexed \in Nat /\ work[j].upserted \in Nat
         /\ work[j].missing \in BOOLEAN /\ work[j].error \in BOOLEAN
         /\ job[j].row \in Rows /\ job[j].workspace \in Workspaces \cup {None}
         /\ job[j].paths \in Seq(Paths \cup {Directory})
<1>1. job[j] \in JobRecords /\ work[j] \in WorkRecords
  BY DEF IndexTypeOK
<1>2. job[j].paths \in Seq(Paths \cup {Directory})
  <2>1. job[j].paths \in PathLists \cup {<<>>}
    BY <1>1 DEF JobRecords
  <2>2. <<>> \in Seq(Paths \cup {Directory})
    OBVIOUS
  <2> QED
    BY <2>1, <2>2, PathListsAssumption
<1>3. work[j].batch \in Seq(ChunkRecords)
  BY <1>1 DEF WorkRecords
<1> QED
  BY <1>1, <1>2, <1>3 DEF JobRecords, WorkRecords

LEMMA PiecesAreSeq ==
  ASSUME IndexTypeOK, NEW j \in Jobs, NEW path \in Paths
  PROVE  /\ Len(PiecesOf(j, path)) \in Nat
         /\ work[j].read[path] = None => PiecesOf(j, path) = <<>>
         /\ work[j].read[path] # None =>
              work[j].read[path] \in Texts /\ PiecesOf(j, path) = ChunkText(work[j].read[path])
<1>1. work[j].read[path] \in Texts \cup {None}
  BY FieldTypes
<1>2. CASE work[j].read[path] = None
  BY <1>2 DEF PiecesOf
<1>3. CASE work[j].read[path] # None
  <2>1. work[j].read[path] \in Texts
    BY <1>1, <1>3
  <2>2. Len(ChunkText(work[j].read[path])) \in Nat
    BY <2>1, PiecesAre, WindowsAre
  <2> QED
    BY <1>3, <2>1, <2>2 DEF PiecesOf
<1> QED
  BY <1>2, <1>3

LEMMA SameReads ==
  ASSUME NEW j \in Jobs, job'[j].paths = job[j].paths, job'[j].workspace = job[j].workspace,
         work'[j].read = work[j].read
  PROVE  /\ Once(j)' <=> Once(j)
         /\ \A path \in Paths : PiecesOf(j, path)' = PiecesOf(j, path)
         /\ ReadIds(j)' = ReadIds(j)
<1>1. Once(j)' <=> Once(j)
  BY DEF Once
<1>2. \A path \in Paths : PiecesOf(j, path)' = PiecesOf(j, path)
  BY DEF PiecesOf
<1>3. ReadIds(j)' = ReadIds(j)
  BY <1>2 DEF ReadIds
<1> QED
  BY <1>1, <1>2, <1>3

\* A job that keeps what it has read and what waits, and index that stays as it is.
Quiet(k) ==
  /\ job'[k].paths = job[k].paths /\ job'[k].workspace = job[k].workspace
  /\ job[k].row # "none" => job'[k].row # "none"
  /\ work'[k].read = work[k].read /\ work'[k].batch = work[k].batch
  /\ work'[k].upserted = work[k].upserted
  /\ Unbroken(k)' => Unbroken(k)

LEMMA OthersAreQuiet ==
  ASSUME NEW j \in Jobs, NEW k \in Jobs, work'[k] = work[k], job'[k] = job[k]
  PROVE  Quiet(k)
BY DEF Quiet, Unbroken

LEMMA QuietStep ==
  ASSUME IndexInv, UNCHANGED <<index, last, mixed>>,
         NEW K \in SUBSET Jobs, \A k \in K : Quiet(k),
         \A id \in DOMAIN index : index[id].by \in K, \A spot \in Spots : last[spot] \in K \cup {None}
  PROVE  /\ IndexLabelled' /\ LastHasRead'
         /\ \A k \in K : Labelled(k)' /\ Delivered(k)' /\ Counted(k)'
<1> USE DEF Quiet
<1>1. \A k \in K : /\ Once(k)' <=> Once(k)
                   /\ \A path \in Paths : PiecesOf(k, path)' = PiecesOf(k, path)
                   /\ ReadIds(k)' = ReadIds(k)
  BY SameReads
<1>2. IndexLabelled'
  <2>1. ASSUME NEW id \in DOMAIN index, NEW k \in Jobs, index[id].by = k
        PROVE  job'[k].row # "none" /\ (Once(k)' => id[3] <= Len(PiecesOf(k, id[2])'))
    <3>1. k \in K /\ id[2] \in Paths
      BY <2>1 DEF IndexInv, IndexTypeOK, ChunkIds
    <3>2. job[k].row # "none" /\ (Once(k) => id[3] <= Len(PiecesOf(k, id[2])))
      BY <2>1 DEF IndexInv, IndexLabelled
    <3> QED
      BY <1>1, <3>1, <3>2
  <2> QED
    BY <2>1 DEF IndexLabelled
<1>3. LastHasRead'
  <2>1. ASSUME NEW w \in Workspaces, NEW path \in Paths, NEW k \in Jobs, last[<<w, path>>] = k
        PROVE  job'[k].workspace = w /\ work'[k].read[path] # None
    <3>1. k \in K
      BY <2>1, JobAssumption DEF Spots
    <3>2. job[k].workspace = w /\ work[k].read[path] # None
      BY <2>1 DEF IndexInv, LastHasRead
    <3> QED
      BY <3>1, <3>2
  <2> QED
    BY <2>1 DEF LastHasRead
<1>4. ASSUME NEW k \in K
      PROVE  Labelled(k)' /\ Delivered(k)' /\ Counted(k)'
  <2>0. k \in Jobs /\ Quiet(k) /\ Labelled(k) /\ Delivered(k) /\ Counted(k)
    BY DEF IndexInv, JobInv
  <2>1. Labelled(k)'
    <3>1. Once(k)' <=> Once(k)
      BY <1>1
    <3> QED
      BY <2>0, <3>1 DEF Labelled, PiecesOf
  <2>2. Delivered(k)'
    <3>2. ASSUME Unbroken(k)', NEW path \in Paths, NEW i \in 1 .. Len(PiecesOf(k, path))
          PROVE  LET w == job'[k].workspace
                     id == <<w, path, i>>
                     own == Own(work'[k].batch, id)
                 IN /\ own # {} => work'[k].batch[Max(own)].text = PiecesOf(k, path)[i]
                    /\ own = {} =>
                         /\ id \in DOMAIN index'
                         /\ index'[id].by = k => index'[id].text = PiecesOf(k, path)[i]
                         /\ last'[<<w, path>>] = k /\ <<w, path>> \notin mixed' =>
                              index'[id].by = k
      BY <2>0, <3>2 DEF Delivered
    <3> QED
      BY <1>1, <3>2 DEF Delivered
  <2>3. Counted(k)'
    BY <1>1, <2>0 DEF Counted
  <2> QED
    BY <2>1, <2>2, <2>3
<1> QED
  BY <1>2, <1>3, <1>4
LEMMA SameStage ==
  ASSUME NEW k \in Jobs, work'[k] = work[k], job'[k] = job[k], Stages(k), ReadsOnce(k)
  PROVE  Stages(k)' /\ ReadsOnce(k)'
<1>1. Stages(k)'
  BY DEF Stages
<1>2. ReadsOnce(k)'
  <2>1. Once(k)' <=> Once(k)
    BY DEF Once
  <2> QED
    BY <2>1 DEF ReadsOnce
<1> QED
  BY <1>1, <1>2

\* A step of a job that leaves the index as it is and what it has read.
LEMMA QuietJobStep ==
  ASSUME IndexInv, IndexTypeOK', UNCHANGED <<index, last, mixed>>,
         NEW j \in Jobs, Others(j), Quiet(j), Stages(j)', ReadsOnce(j)'
  PROVE  IndexInv'
<1>1. \A k \in Jobs : Quiet(k)
  BY OthersAreQuiet DEF Others
<1>2. /\ IndexLabelled' /\ LastHasRead'
      /\ \A k \in Jobs : Labelled(k)' /\ Delivered(k)' /\ Counted(k)'
  <2>1. \A id \in DOMAIN index : index[id].by \in Jobs
    BY DEF IndexInv, IndexTypeOK, ChunkRecords
  <2>2. \A spot \in Spots : last[spot] \in Jobs \cup {None}
    BY DEF IndexInv, IndexTypeOK
  <2> QED
    BY <1>1, <2>1, <2>2, QuietStep
<1>3. \A k \in Jobs : Stages(k)' /\ ReadsOnce(k)'
  BY SameStage DEF Others, IndexInv, JobInv
<1> QED
  BY <1>2, <1>3 DEF IndexInv, JobInv

\* What the types say of a job's step.
LEMMA JobStepTypes ==
  ASSUME IndexTypeOK, NEW j \in Jobs,
         NEW r \in JobRecords, r.row = "completed" => r.upserted \in Nat,
         NEW t \in WorkRecords,
         job' = [job EXCEPT ![j] = r], work' = [work EXCEPT ![j] = t]
  PROVE  /\ job' \in [Jobs -> JobRecords] /\ work' \in [Jobs -> WorkRecords]
         /\ \A k \in Jobs : job'[k].row = "completed" => job'[k].upserted \in Nat
         /\ job'[j] = r /\ work'[j] = t /\ Others(j)
<1>1. job \in [Jobs -> JobRecords] /\ work \in [Jobs -> WorkRecords]
  BY DEF IndexTypeOK
<1>2. job' \in [Jobs -> JobRecords] /\ work' \in [Jobs -> WorkRecords]
  BY <1>1
<1>3. job'[j] = r /\ work'[j] = t /\ Others(j)
  BY <1>1 DEF Others
<1>4. \A k \in Jobs : job'[k].row = "completed" => job'[k].upserted \in Nat
  BY <1>3 DEF Others, IndexTypeOK
<1> QED
  BY <1>2, <1>3, <1>4

LEMMA IndexInitInv ==
  ASSUME IndexInit
  PROVE  IndexInv
<1>1. \A j \in Jobs : work[j] = NoWork
  BY DEF IndexInit
<1>2. \A j \in Jobs : job[j] = [row |-> "none", workspace |-> None,
                                paths |-> <<>>, upserted |-> None, hit |-> FALSE]
  BY DEF IndexInit
<1>3. NoWork \in WorkRecords
  BY DEF NoWork, WorkRecords
<1>4. [row |-> "none", workspace |-> None, paths |-> <<>>, upserted |-> None, hit |-> FALSE]
        \in JobRecords
  BY DEF JobRecords, Rows
<1>5. DOMAIN index = {}
  BY DEF IndexInit
<1>6. IndexTypeOK
  <2>1. job \in [Jobs -> JobRecords] /\ work \in [Jobs -> WorkRecords]
    BY <1>3, <1>4 DEF IndexInit
  <2>2. index = <<>> /\ index \in [DOMAIN index -> ChunkRecords]
    BY <1>5 DEF IndexInit
  <2>3. files \in [Paths -> Texts \cup {None}]
    BY ContentsAssumption DEF IndexInit
  <2>4. last \in [Spots -> Jobs \cup {None}] /\ mixed \subseteq Spots
    BY DEF IndexInit
  <2>5. mishaps \in 0 .. MaxMishaps
    BY MishapAssumption DEF IndexInit
  <2>6. \A j \in Jobs : job[j].row # "completed"
    BY <1>2
  <2> QED
    BY <1>5, <2>1, <2>2, <2>3, <2>4, <2>5, <2>6 DEF IndexTypeOK
<1>7. IndexLabelled
  BY <1>5 DEF IndexLabelled
<1>8. LastHasRead
  BY JobAssumption DEF LastHasRead, IndexInit, Spots
<1>9. ASSUME NEW j \in Jobs
      PROVE  JobInv(j)
  <2>1. job[j].row = "none" /\ work[j].at = "none" /\ work[j].batch = <<>>
    BY <1>1, <1>2 DEF NoWork
  <2>2. ~Unbroken(j)
    BY <2>1 DEF Unbroken
  <2>3. Stages(j)
    BY <1>1, <2>1 DEF Stages
  <2>4. Labelled(j)
    BY <2>1 DEF Labelled
  <2>5. Delivered(j) /\ ReadsOnce(j) /\ Counted(j)
    BY <2>1, <2>2 DEF Delivered, ReadsOnce, Counted
  <2> QED
    BY <2>3, <2>4, <2>5 DEF JobInv
<1> QED
  BY <1>6, <1>7, <1>8, <1>9 DEF IndexInv

LEMMA StartJobStep ==
  ASSUME IndexInv, NEW j \in Jobs, StartJob(j)
  PROVE  IndexInv'
<1>1. IndexTypeOK /\ job[j] \in JobRecords /\ work[j] \in WorkRecords /\ work[j].at = "queued"
  BY FieldTypes DEF IndexInv, StartJob
<1>2. PICK row \in {"pending", "running"}, hit \in BOOLEAN, at \in {"indexing", "gone"} :
        /\ job' = [job EXCEPT ![j] = [job[j] EXCEPT !.row = row, !.hit = hit]]
        /\ work' = [work EXCEPT ![j] = [work[j] EXCEPT !.at = at]]
  <2>1. CASE /\ job' = [job EXCEPT ![j].row = "running"]
             /\ work' = [work EXCEPT ![j].at = "indexing"]
    <3>1. job' = [job EXCEPT ![j] = [job[j] EXCEPT !.row = "running", !.hit = job[j].hit]]
      BY <1>1, <2>1 DEF JobRecords
    <3>2. job[j].hit \in BOOLEAN
      BY <1>1 DEF JobRecords
    <3> QED
      BY <2>1, <3>1, <3>2
  <2>2. CASE \E row \in {"pending", "running"} :
               /\ job' = [job EXCEPT ![j].row = row, ![j].hit = TRUE]
               /\ work' = [work EXCEPT ![j].at = "gone"]
    BY <2>2, <1>1
  <2> QED
    BY <2>1, <2>2 DEF StartJob
<1> DEFINE r == [job[j] EXCEPT !.row = row, !.hit = hit]
           t == [work[j] EXCEPT !.at = at]
<1>3. r \in JobRecords /\ r.row = row /\ r.workspace = job[j].workspace /\ r.paths = job[j].paths
  BY <1>1 DEF JobRecords, Rows
<1>4. /\ t \in WorkRecords /\ t.at = at /\ t.todo = work[j].todo /\ t.read = work[j].read
      /\ t.batch = work[j].batch /\ t.upserted = work[j].upserted
  BY <1>1 DEF WorkRecords
<1> HIDE DEF r, t
<1>5. /\ job' \in [Jobs -> JobRecords] /\ work' \in [Jobs -> WorkRecords]
      /\ \A k \in Jobs : job'[k].row = "completed" => job'[k].upserted \in Nat
      /\ job'[j] = r /\ work'[j] = t /\ Others(j)
  BY <1>1, <1>2, <1>3, <1>4, JobStepTypes DEF r, t
<1>6. UNCHANGED <<files, index, last, mixed>> /\ mishaps' \in 0 .. MaxMishaps
  BY <1>1, MishapAssumption DEF StartJob, Mishap, IndexTypeOK
<1>7. IndexTypeOK'
  BY <1>1, <1>5, <1>6 DEF IndexTypeOK
<1>8. Quiet(j)
  BY <1>1, <1>3, <1>4, <1>5 DEF Quiet, Unbroken
<1>9. Stages(j)'
  <2>1. Stages(j)
    BY DEF IndexInv, JobInv
  <2> QED
    BY <1>1, <1>3, <1>4, <1>5, <2>1 DEF Stages, NoWork
<1>10. ReadsOnce(j)'
  <2>1. ReadsOnce(j)
    BY DEF IndexInv, JobInv
  <2>2. Once(j)' <=> Once(j)
    BY <1>3, <1>5 DEF Once
  <2> QED
    BY <1>1, <1>4, <1>5, <2>1, <2>2 DEF ReadsOnce
<1> QED
  BY <1>5, <1>6, <1>7, <1>8, <1>9, <1>10, QuietJobStep
LEMMA TodoElements ==
  ASSUME IndexTypeOK, NEW j \in Jobs, work[j].todo # <<>>
  PROVE  LET todo == work[j].todo
         IN /\ Head(todo) = todo[1] /\ Len(todo) \in Nat \ {0} /\ Len(Tail(todo)) = Len(todo) - 1
            /\ Tail(todo) \in Seq(Paths \cup {Directory, None})
            /\ \A i \in 1 .. Len(todo) - 1 : Tail(todo)[i] = todo[i + 1]
<1> DEFINE todo == work[j].todo
<1>1. todo \in Seq(Paths \cup {Directory, None})
  BY FieldTypes
<1> HIDE DEF todo
<1>2. todo # <<>>
  BY DEF todo
<1>3. Len(todo) \in Nat \ {0} /\ Head(todo) = todo[1]
  BY <1>1, <1>2
<1>4. /\ Tail(todo) \in Seq(Paths \cup {Directory, None}) /\ Len(Tail(todo)) = Len(todo) - 1
      /\ \A i \in 1 .. Len(Tail(todo)) : Tail(todo)[i] = todo[i + 1]
  BY <1>1, <1>2, HeadTailProperties
<1> QED
  BY <1>3, <1>4 DEF todo

\* What is left to read has not been read.
LEMMA TailReadsOnce ==
  ASSUME IndexInv, NEW j \in Jobs, work[j].at = "indexing", work[j].todo # <<>>,
         work'[j].todo = Tail(work[j].todo), job'[j].paths = job[j].paths,
         \A path \in Paths :
           work'[j].read[path] = work[j].read[path] \/ path = Head(work[j].todo)
  PROVE  ReadsOnce(j)'
<1> DEFINE todo == work[j].todo
           n == Len(todo)
<1>1. /\ Head(todo) = todo[1] /\ n \in Nat \ {0} /\ Len(Tail(todo)) = n - 1
      /\ \A i \in 1 .. n - 1 : Tail(todo)[i] = todo[i + 1]
  BY TodoElements DEF IndexInv
<1> HIDE DEF n
<1>2. Once(j)' <=> Once(j)
  BY DEF Once
<1> DEFINE rest == Tail(todo)
<1>3. SUFFICES ASSUME Once(j)
               PROVE  /\ \A i, k \in 1 .. Len(rest) : i # k => rest[i] # rest[k] \/ rest[i] = None
                      /\ \A i \in 1 .. Len(rest) :
                           rest[i] \in Paths => work'[j].read[rest[i]] = None
                      /\ \A i \in 1 .. Len(rest) : rest[i] # Directory
  <2>1. work'[j].todo = rest
    OBVIOUS
  <2> HIDE DEF rest
  <2> QED
    BY <1>2, <2>1 DEF ReadsOnce
<1>4. /\ \A i, k \in 1 .. n : i # k => todo[i] # todo[k] \/ todo[i] = None
      /\ \A i \in 1 .. n : todo[i] \in Paths => work[j].read[todo[i]] = None
      /\ \A i \in 1 .. n : todo[i] = Directory => n = 1
  BY <1>3 DEF IndexInv, JobInv, ReadsOnce, n
<1>5. \A i \in 1 .. n - 1 : i + 1 \in 1 .. n /\ i + 1 # 1
  BY <1>1
<1>6. \A i, k \in 1 .. n - 1 : i # k => todo[i + 1] # todo[k + 1] \/ todo[i + 1] = None
  BY <1>1, <1>4, <1>5
<1>7. ASSUME NEW i \in 1 .. n - 1, todo[i + 1] \in Paths
      PROVE  work'[j].read[todo[i + 1]] = None
  <2>1. todo[i + 1] # None
    BY <1>7, ListingAssumption
  <2>2. 1 \in 1 .. n
    BY <1>1
  <2>3. todo[i + 1] # todo[1]
    BY <1>4, <1>5, <2>1, <2>2
  <2>4. work[j].read[todo[i + 1]] = None
    BY <1>4, <1>5, <1>7
  <2> QED
    BY <1>1, <1>7, <2>3, <2>4
<1>8. \A i \in 1 .. n - 1 : todo[i + 1] # Directory
  <2>1. ASSUME NEW i \in 1 .. n - 1, todo[i + 1] = Directory
        PROVE  FALSE
    <3>1. n = 1
      BY <1>4, <1>5, <2>1
    <3> QED
      BY <3>1
  <2> QED
    BY <2>1
<1>9. Len(rest) = n - 1 /\ \A i \in 1 .. n - 1 : rest[i] = todo[i + 1]
  BY <1>1
<1> HIDE DEF rest, todo
<1> QED
  BY <1>6, <1>7, <1>8, <1>9

LEMMA ListedIs ==
  /\ Listed \in Seq(Paths \cup {Directory, None}) /\ Len(Listed) \in Nat
  /\ \A i \in 1 .. Len(Listed) : Listed[i] \in Paths \cup {None}
  /\ \A i, k \in 1 .. Len(Listed) : i # k => Listed[i] # Listed[k] \/ Listed[i] = None
<1> DEFINE n == Len(Listing)
<1>1. n \in Nat /\ \A i \in 1 .. n : Listing[i] \in Paths
  BY ListingAssumption
<1>2. \A i, k \in 1 .. n : Listing[i] = Listing[k] => i = k
  BY ListingAssumption
<1> HIDE DEF n
<1>3. Listed = [i \in 1 .. n |-> IF Listing[i] \in Present THEN Listing[i] ELSE None]
  BY DEF Listed, n
<1>4. \A i \in 1 .. n : Listed[i] = IF Listing[i] \in Present THEN Listing[i] ELSE None
  BY <1>3
<1>5. Listed \in Seq(Paths \cup {Directory, None}) /\ Len(Listed) = n
  <2>1. \A i \in 1 .. n :
          (IF Listing[i] \in Present THEN Listing[i] ELSE None) \in Paths \cup {Directory, None}
    BY <1>1
  <2> QED
    BY <1>1, <1>3, <2>1
<1> QED
  BY <1>1, <1>2, <1>4, <1>5

LEMMA VisitStep ==
  ASSUME IndexInv, NEW j \in Jobs, Visit(j)
  PROVE  IndexInv'
<1> DEFINE todo == work[j].todo
           path == Head(todo)
           rest == (IF path = Directory THEN Listed ELSE <<>>) \o Tail(todo)
           missing == work[j].missing
                        \/ (path # Directory /\ path \in Range(job[j].paths))
           t == [work[j] EXCEPT !.todo = rest, !.missing = missing]
<1>1. /\ IndexTypeOK /\ job[j] \in JobRecords /\ work[j] \in WorkRecords
      /\ work[j].at = "indexing" /\ todo # <<>>
  BY FieldTypes DEF IndexInv, Visit, Indexing
<1>2. /\ job' = job /\ UNCHANGED <<files, index, last, mixed, mishaps>>
      /\ work' = [work EXCEPT ![j] = t]
  BY <1>1 DEF Visit
<1>3. Tail(todo) \in Seq(Paths \cup {Directory, None}) /\ Len(Tail(todo)) = Len(todo) - 1
      /\ Head(todo) = todo[1] /\ Len(todo) \in Nat \ {0}
  BY <1>1, TodoElements
<1>4. rest \in Seq(Paths \cup {Directory, None})
  <2>1. (IF path = Directory THEN Listed ELSE <<>>) \in Seq(Paths \cup {Directory, None})
    BY ListedIs
  <2> QED
    BY <1>3, <2>1, ConcatProperties
<1>5. missing \in BOOLEAN
  OBVIOUS
<1> HIDE DEF rest, missing
<1>6. /\ t \in WorkRecords /\ t.at = "indexing" /\ t.todo = rest /\ t.read = work[j].read
      /\ t.batch = work[j].batch /\ t.upserted = work[j].upserted
  BY <1>1, <1>4, <1>5 DEF WorkRecords
<1> HIDE DEF t
<1>7. job' = [job EXCEPT ![j] = job[j]]
  BY <1>1, <1>2 DEF IndexTypeOK
<1>8. /\ job' \in [Jobs -> JobRecords] /\ work' \in [Jobs -> WorkRecords]
      /\ \A k \in Jobs : job'[k].row = "completed" => job'[k].upserted \in Nat
      /\ job'[j] = job[j] /\ work'[j] = t /\ Others(j)
  <2>1. job[j].row = "completed" => job[j].upserted \in Nat
    BY <1>1 DEF IndexTypeOK
  <2> QED
    BY <1>1, <1>2, <1>6, <1>7, <2>1, JobStepTypes
<1>9. IndexTypeOK'
  BY <1>1, <1>2, <1>8 DEF IndexTypeOK
<1>10. Quiet(j)
  BY <1>1, <1>6, <1>8 DEF Quiet, Unbroken
<1>11. Stages(j)'
  <2>1. Stages(j)
    BY DEF IndexInv, JobInv
  <2> QED
    BY <1>1, <1>6, <1>8, <2>1 DEF Stages, NoWork
<1>12. ReadsOnce(j)'
  <2>1. CASE path # Directory
    <3>1. rest = Tail(todo)
      BY <1>3, <2>1, ConcatEmptySeq DEF rest
    <3>2. /\ work[j].todo # <<>> /\ work'[j].todo = Tail(work[j].todo)
          /\ job'[j].paths = job[j].paths /\ work'[j].read = work[j].read
      BY <1>1, <1>6, <1>8, <3>1
    <3> QED
      BY <1>1, <3>2, TailReadsOnce
  <2>2. CASE path = Directory
    <3>1. Once(j)' <=> Once(j)
      BY <1>8 DEF Once
    <3>2. CASE ~Once(j)
      BY <3>1, <3>2 DEF ReadsOnce
    <3>3. CASE Once(j)
      <4>1. todo[1] = Directory /\ 1 \in 1 .. Len(todo)
        BY <1>3, <2>2
      <4>2. Len(todo) = 1 /\ \A p \in Paths : work[j].read[p] = None
        BY <1>1, <3>3, <4>1 DEF IndexInv, JobInv, ReadsOnce
      <4>3. Tail(todo) = <<>>
        <5> DEFINE s == Tail(todo)
        <5>1. s \in Seq(Paths \cup {Directory, None}) /\ Len(s) = 0
          BY <1>3, <4>2
        <5> HIDE DEF s
        <5>2. s = <<>>
          BY <5>1
        <5> QED
          BY <5>2 DEF s
      <4>4. rest = Listed
        BY <2>2, <4>3, ListedIs, ConcatEmptySeq DEF rest
      <4>5. Directory \notin Paths \cup {None}
        BY ListingAssumption
      <4>6. work'[j].todo = Listed /\ work'[j].read = work[j].read
        BY <1>6, <1>8, <4>4
      <4> QED
        BY <4>2, <4>5, <4>6, ListedIs DEF ReadsOnce
    <3> QED
      BY <3>2, <3>3
  <2> QED
    BY <2>1, <2>2
<1> QED
  BY <1>2, <1>8, <1>9, <1>10, <1>11, <1>12, QuietJobStep
LEMMA FinishIndexStep ==
  ASSUME IndexInv, NEW j \in Jobs, FinishIndex(j)
  PROVE  IndexInv'
<1> DEFINE error == work[j].missing /\ work[j].indexed = 0
           t == [work[j] EXCEPT !.at = "ending", !.error = error]
<1>1. /\ IndexTypeOK /\ job[j] \in JobRecords /\ work[j] \in WorkRecords
      /\ work[j].at = "indexing" /\ work[j].batch = <<>>
  BY FieldTypes DEF IndexInv, FinishIndex, Indexing
<1>2. /\ job' = job /\ UNCHANGED <<files, index, last, mixed, mishaps>>
      /\ work' = [work EXCEPT ![j] = t]
  BY <1>1 DEF FinishIndex
<1>3. error \in BOOLEAN
  OBVIOUS
<1> HIDE DEF error
<1>4. /\ t \in WorkRecords /\ t.at = "ending" /\ t.read = work[j].read
      /\ t.batch = work[j].batch /\ t.upserted = work[j].upserted
  BY <1>1, <1>3 DEF WorkRecords
<1> HIDE DEF t
<1>5. job' = [job EXCEPT ![j] = job[j]]
  BY <1>1, <1>2 DEF IndexTypeOK
<1>6. /\ job' \in [Jobs -> JobRecords] /\ work' \in [Jobs -> WorkRecords]
      /\ \A k \in Jobs : job'[k].row = "completed" => job'[k].upserted \in Nat
      /\ job'[j] = job[j] /\ work'[j] = t /\ Others(j)
  <2>1. job[j].row = "completed" => job[j].upserted \in Nat
    BY <1>1 DEF IndexTypeOK
  <2> QED
    BY <1>1, <1>2, <1>4, <1>5, <2>1, JobStepTypes
<1>7. IndexTypeOK'
  BY <1>1, <1>2, <1>6 DEF IndexTypeOK
<1>8. Quiet(j)
  BY <1>1, <1>4, <1>6 DEF Quiet, Unbroken
<1>9. Stages(j)'
  <2>1. Stages(j)
    BY DEF IndexInv, JobInv
  <2> QED
    BY <1>1, <1>4, <1>6, <2>1 DEF Stages, NoWork
<1>10. ReadsOnce(j)'
  BY <1>4, <1>6 DEF ReadsOnce
<1> QED
  BY <1>2, <1>6, <1>7, <1>8, <1>9, <1>10, QuietJobStep

LEMMA EndJobStep ==
  ASSUME IndexInv, NEW j \in Jobs, EndJob(j)
  PROVE  IndexInv'
<1> DEFINE t == [work[j] EXCEPT !.at = "gone"]
           r(row, upserted, hit) == [job[j] EXCEPT !.row = row, !.upserted = upserted, !.hit = hit]
<1>1. /\ IndexTypeOK /\ job[j] \in JobRecords /\ work[j] \in WorkRecords
      /\ work[j].at = "ending" /\ work[j].upserted \in Nat
  BY FieldTypes DEF IndexInv, EndJob
<1>2. /\ UNCHANGED <<files, index, last, mixed>> /\ mishaps' \in 0 .. MaxMishaps
      /\ work' = [work EXCEPT ![j] = t]
  BY <1>1, MishapAssumption
     DEF EndJob, MarkFailed, Complete, Row, Mishap, IndexTypeOK
<1>3. PICK row \in {"completed", "failed", "running"},
           upserted \in {None, work[j].upserted}, hit \in BOOLEAN :
        /\ job' = [job EXCEPT ![j] = r(row, upserted, hit)]
        /\ row = "completed" => ~work[j].error /\ upserted = work[j].upserted
  <2>1. job \in [Jobs -> JobRecords]
    BY <1>1 DEF IndexTypeOK
  <2>2. CASE Row(j, "failed", None, FALSE)
    <3>1. job' = [job EXCEPT ![j] = r("failed", None, FALSE)]
      BY <2>1, <2>2 DEF Row
    <3> QED
      BY <3>1
  <2>3. CASE Row(j, "running", None, TRUE)
    <3>1. job' = [job EXCEPT ![j] = r("running", None, TRUE)]
      BY <2>1, <2>3 DEF Row
    <3> QED
      BY <3>1
  <2>4. CASE ~work[j].error /\ Row(j, "completed", work[j].upserted, FALSE)
    <3>1. job' = [job EXCEPT ![j] = r("completed", work[j].upserted, FALSE)]
      BY <2>1, <2>4 DEF Row
    <3> QED
      BY <2>4, <3>1
  <2>5. CASE Row(j, "failed", work[j].upserted, FALSE)
    <3>1. job' = [job EXCEPT ![j] = r("failed", work[j].upserted, FALSE)]
      BY <2>1, <2>5 DEF Row
    <3> QED
      BY <3>1
  <2>6. CASE ~work[j].error /\ Row(j, "completed", work[j].upserted, TRUE)
    <3>1. job' = [job EXCEPT ![j] = r("completed", work[j].upserted, TRUE)]
      BY <2>1, <2>6 DEF Row
    <3> QED
      BY <2>6, <3>1
  <2> QED
    BY <2>2, <2>3, <2>4, <2>5, <2>6 DEF EndJob, MarkFailed, Complete
<1> DEFINE rec == r(row, upserted, hit)
<1>4. /\ rec \in JobRecords /\ rec.row = row /\ rec.upserted = upserted
      /\ rec.workspace = job[j].workspace /\ rec.paths = job[j].paths
  BY <1>1 DEF JobRecords, Rows
<1>5. /\ t \in WorkRecords /\ t.at = "gone" /\ t.read = work[j].read
      /\ t.batch = work[j].batch /\ t.upserted = work[j].upserted
  BY <1>1 DEF WorkRecords
<1>i. job' = [job EXCEPT ![j] = rec]
  BY <1>3
<1> HIDE DEF t, rec
<1>6. /\ job' \in [Jobs -> JobRecords] /\ work' \in [Jobs -> WorkRecords]
      /\ \A k \in Jobs : job'[k].row = "completed" => job'[k].upserted \in Nat
      /\ job'[j] = rec /\ work'[j] = t /\ Others(j)
  <2>1. rec.row = "completed" => rec.upserted \in Nat
    BY <1>1, <1>3, <1>4
  <2> QED
    BY <1>1, <1>2, <1>i, <1>4, <1>5, <2>1, JobStepTypes
<1>7. IndexTypeOK'
  BY <1>1, <1>2, <1>6 DEF IndexTypeOK
<1>8. Quiet(j)
  BY <1>1, <1>3, <1>4, <1>5, <1>6 DEF Quiet, Unbroken
<1>9. Stages(j)'
  <2>1. Stages(j)
    BY DEF IndexInv, JobInv
  <2> QED
    BY <1>1, <1>3, <1>4, <1>5, <1>6, <2>1 DEF Stages, NoWork
<1>10. ReadsOnce(j)'
  BY <1>5, <1>6 DEF ReadsOnce
<1> QED
  BY <1>2, <1>6, <1>7, <1>8, <1>9, <1>10, QuietJobStep

\* Of those that a restart hits, none completes.
LEMMA RestartIndexStep ==
  ASSUME IndexInv, RestartIndex
  PROVE  IndexInv'
<1>1. IndexTypeOK /\ UNCHANGED <<files, index, last, mixed>> /\ mishaps' \in 0 .. MaxMishaps
  BY MishapAssumption DEF IndexInv, RestartIndex, Mishap, IndexTypeOK
<1>2. ASSUME NEW k \in Jobs, work[k].at \in {"none", "gone"}
      PROVE  work'[k] = work[k] /\ job'[k] = job[k]
  BY <1>2 DEF RestartIndex
<1>3. ASSUME NEW k \in Jobs, work[k].at \notin {"none", "gone"}
      PROVE  /\ work'[k] = [work[k] EXCEPT !.at = "gone"]
             /\ job'[k] = [job[k] EXCEPT !.hit = TRUE]
  BY <1>3 DEF RestartIndex
<1>4. ASSUME NEW k \in Jobs, work[k].at \notin {"none", "gone"}
      PROVE  /\ work'[k] \in WorkRecords /\ work'[k].at = "gone"
             /\ work'[k].read = work[k].read /\ work'[k].batch = work[k].batch
             /\ work'[k].upserted = work[k].upserted
             /\ job'[k] \in JobRecords /\ job'[k].row = job[k].row
             /\ job'[k].upserted = job[k].upserted
             /\ job'[k].workspace = job[k].workspace /\ job'[k].paths = job[k].paths
  <2>1. job[k] \in JobRecords /\ work[k] \in WorkRecords
    BY <1>1, FieldTypes
  <2>2. /\ work'[k] = [work[k] EXCEPT !.at = "gone"]
        /\ job'[k] = [job[k] EXCEPT !.hit = TRUE]
    BY <1>3, <1>4
  <2>3. /\ work'[k] \in WorkRecords /\ work'[k].at = "gone"
        /\ work'[k].read = work[k].read /\ work'[k].batch = work[k].batch
        /\ work'[k].upserted = work[k].upserted
    BY <2>1, <2>2 DEF WorkRecords
  <2> QED
    BY <2>1, <2>2, <2>3 DEF JobRecords
<1>5. IndexTypeOK'
  <2>1. \A k \in Jobs : work'[k] \in WorkRecords /\ job'[k] \in JobRecords
    BY <1>1, <1>2, <1>4 DEF IndexTypeOK
  <2>2. work' \in [Jobs -> WorkRecords] /\ job' \in [Jobs -> JobRecords]
    BY <2>1 DEF RestartIndex
  <2>3. \A k \in Jobs : job'[k].row = "completed" => job'[k].upserted \in Nat
    BY <1>1, <1>2, <1>4 DEF IndexTypeOK
  <2> QED
    BY <1>1, <2>2, <2>3 DEF IndexTypeOK
<1>6. ASSUME NEW k \in Jobs
      PROVE  Quiet(k) /\ Stages(k)' /\ ReadsOnce(k)'
  <2>1. Stages(k) /\ ReadsOnce(k)
    BY DEF IndexInv, JobInv
  <2>2. CASE work[k].at \in {"none", "gone"}
    BY <1>2, <2>1, <2>2, OthersAreQuiet, SameStage
  <2>3. CASE work[k].at \notin {"none", "gone"}
    <3>1. job[k].row # "completed" /\ job[k].row # "none"
      BY <2>1, <2>3 DEF Stages, NoWork
    <3>2. Quiet(k)
      BY <1>4, <2>3, <3>1 DEF Quiet, Unbroken
    <3>3. Stages(k)'
      BY <1>4, <2>1, <2>3, <3>1 DEF Stages
    <3>4. ReadsOnce(k)'
      BY <1>4, <2>3 DEF ReadsOnce
    <3> QED
      BY <3>2, <3>3, <3>4
  <2> QED
    BY <2>2, <2>3
<1>7. /\ \A id \in DOMAIN index : index[id].by \in Jobs
      /\ \A spot \in Spots : last[spot] \in Jobs \cup {None}
  BY <1>1 DEF IndexTypeOK, ChunkRecords
<1>8. /\ IndexLabelled' /\ LastHasRead'
      /\ \A k \in Jobs : Labelled(k)' /\ Delivered(k)' /\ Counted(k)'
  BY <1>1, <1>6, <1>7, QuietStep
<1> QED
  BY <1>5, <1>6, <1>8 DEF IndexInv, JobInv

LEMMA EditFilesStep ==
  ASSUME IndexInv, EditFiles
  PROVE  IndexInv'
<1>1. UNCHANGED <<job, work, index, last, mixed>> /\ mishaps' \in 0 .. MaxMishaps
  BY MishapAssumption DEF IndexInv, EditFiles, Mishap, IndexTypeOK
<1>2. files' \in [Paths -> Texts \cup {None}]
  BY DEF IndexInv, EditFiles, IndexTypeOK
<1>3. IndexTypeOK'
  BY <1>1, <1>2 DEF IndexInv, IndexTypeOK
<1>4. \A k \in Jobs : Quiet(k) /\ Stages(k)' /\ ReadsOnce(k)'
  BY <1>1, OthersAreQuiet, SameStage DEF IndexInv, JobInv
<1>5. /\ \A id \in DOMAIN index : index[id].by \in Jobs
      /\ \A spot \in Spots : last[spot] \in Jobs \cup {None}
  BY DEF IndexInv, IndexTypeOK, ChunkRecords
<1>6. /\ IndexLabelled' /\ LastHasRead'
      /\ \A k \in Jobs : Labelled(k)' /\ Delivered(k)' /\ Counted(k)'
  BY <1>1, <1>4, <1>5, QuietStep
<1> QED
  BY <1>3, <1>4, <1>6 DEF IndexInv, JobInv

\* A job begins with nothing read.
LEMMA AskStep ==
  ASSUME IndexInv, NEW j \in Jobs, NEW w \in Workspaces, NEW paths \in PathLists, Ask(j, w, paths)
  PROVE  IndexInv'
<1> DEFINE row == IF Sync(j) THEN "running" ELSE "pending"
           at == IF Sync(j) THEN "indexing" ELSE "queued"
           r == [job[j] EXCEPT !.row = row, !.workspace = w, !.paths = paths]
           t == [work[j] EXCEPT !.at = at, !.todo = paths]
<1>1. /\ IndexTypeOK /\ job[j] \in JobRecords /\ work[j] \in WorkRecords
      /\ job[j].row = "none" /\ work[j] = NoWork
  BY FieldTypes DEF IndexInv, JobInv, Stages, Ask
<1>2. /\ UNCHANGED <<files, index, last, mixed, mishaps>>
      /\ job' = [job EXCEPT ![j] = r] /\ work' = [work EXCEPT ![j] = t]
  BY <1>1 DEF Ask, IndexTypeOK
<1>3. row \in {"running", "pending"} /\ at \in {"indexing", "queued"}
  OBVIOUS
<1> HIDE DEF row, at
<1>4. r \in JobRecords /\ r.row = row /\ r.workspace = w /\ r.paths = paths
  BY <1>1, <1>3 DEF JobRecords, Rows
<1>5. paths \in Seq(Paths \cup {Directory})
  BY PathListsAssumption
<1>6. /\ t \in WorkRecords /\ t.at = at /\ t.todo = paths /\ t.read = [p \in Paths |-> None]
      /\ t.batch = <<>> /\ t.upserted = 0
  <2>1. paths \in Seq(Paths \cup {Directory, None})
    BY <1>5
  <2> QED
    <3>1. /\ t \in WorkRecords /\ t.at = at /\ t.todo = paths /\ t.read = work[j].read
          /\ t.batch = work[j].batch /\ t.upserted = work[j].upserted
      BY <1>1, <1>3, <2>1 DEF WorkRecords
    <3> QED
      BY <1>1, <3>1 DEF NoWork
<1> HIDE DEF r, t
<1>7. /\ job' \in [Jobs -> JobRecords] /\ work' \in [Jobs -> WorkRecords]
      /\ \A k \in Jobs : job'[k].row = "completed" => job'[k].upserted \in Nat
      /\ job'[j] = r /\ work'[j] = t /\ Others(j)
  BY <1>1, <1>2, <1>3, <1>4, <1>6, JobStepTypes
<1>8. IndexTypeOK'
  BY <1>1, <1>2, <1>7 DEF IndexTypeOK
<1> DEFINE K == Jobs \ {j}
<1>9. \A k \in K : Quiet(k) /\ Stages(k)' /\ ReadsOnce(k)'
  BY <1>7, OthersAreQuiet, SameStage DEF Others, IndexInv, JobInv
<1>10. \A id \in DOMAIN index : index[id].by \in K
  BY <1>1 DEF IndexInv, IndexLabelled, IndexTypeOK, ChunkRecords
<1>11. \A spot \in Spots : last[spot] \in K \cup {None}
  <2>1. ASSUME NEW w0 \in Workspaces, NEW path \in Paths, last[<<w0, path>>] = j
        PROVE  FALSE
    <3>1. j # None
      BY JobAssumption
    <3>2. work[j].read[path] # None
      BY <2>1, <3>1 DEF IndexInv, LastHasRead
    <3> QED
      BY <1>1, <3>2 DEF NoWork
  <2> QED
    BY <1>1, <2>1 DEF IndexTypeOK, Spots
<1>12. /\ IndexLabelled' /\ LastHasRead'
       /\ \A k \in K : Labelled(k)' /\ Delivered(k)' /\ Counted(k)'
  <2> HIDE DEF K
  <2>1. K \in SUBSET Jobs
    BY DEF K
  <2> QED
    BY <1>2, <1>9, <1>10, <1>11, <2>1, QuietStep
<1>13. \A path \in Paths : PiecesOf(j, path)' = <<>>
  BY <1>6, <1>7 DEF PiecesOf
<1>14. Labelled(j)'
  BY <1>6, <1>7 DEF Labelled
<1>15. Stages(j)'
  BY <1>3, <1>4, <1>6, <1>7 DEF Stages
<1>16. Delivered(j)'
  BY <1>13 DEF Delivered
<1>17. Counted(j)'
  <2>1. ReadIds(j)' = {}
    BY <1>13 DEF ReadIds
  <2> QED
    BY <1>6, <1>7, <2>1, FS_EmptySet DEF Counted
<1>18. ReadsOnce(j)'
  <2>1. SUFFICES ASSUME Once(j)'
                 PROVE  /\ \A i, k \in 1 .. Len(paths) : i # k => paths[i] # paths[k]
                        /\ \A i \in 1 .. Len(paths) : paths[i] = Directory => Len(paths) = 1
    BY <1>6, <1>7 DEF ReadsOnce
  <2>2. \A i, k \in 1 .. Len(paths) : i # k => paths[i] # paths[k] /\ paths[i] # Directory
    BY <1>4, <1>7, <2>1 DEF Once
  <2>3. ASSUME NEW i \in 1 .. Len(paths), paths[i] = Directory, Len(paths) # 1
        PROVE  FALSE
    <3>1. Len(paths) \in Nat
      BY <1>5
    <3>2. \E k \in 1 .. Len(paths) : k # i
      <4>1. 1 \in 1 .. Len(paths) /\ 2 \in 1 .. Len(paths)
        <5> DEFINE n == Len(paths)
        <5>1. n \in Nat /\ i \in 1 .. n /\ n # 1
          BY <2>3, <3>1
        <5> HIDE DEF n
        <5>2. 1 \in 1 .. n /\ 2 \in 1 .. n
          BY <5>1
        <5> QED
          BY <5>2 DEF n
      <4> QED
        BY <4>1
    <3> QED
      BY <2>2, <2>3, <3>2
  <2> QED
    BY <2>2, <2>3
<1> QED
  BY <1>8, <1>9, <1>12, <1>14, <1>15, <1>16, <1>17, <1>18 DEF IndexInv, JobInv
-----------------------------------------------------------------------------
(* Reading a file.                                                          *)

\* A file that is passed over, or ends the job.
LEMMA FileNotRead ==
  ASSUME IndexInv, NEW j \in Jobs, work[j].at = "indexing", work[j].todo # <<>>,
         UNCHANGED <<files, job, index, last, mixed>>, mishaps' \in 0 .. MaxMishaps,
         work' = [work EXCEPT ![j].todo = Tail(@)] \/ Raises(j)
  PROVE  IndexInv'
<1>1. IndexTypeOK /\ job[j] \in JobRecords /\ work[j] \in WorkRecords
  BY FieldTypes DEF IndexInv
<1>2. Tail(work[j].todo) \in Seq(Paths \cup {Directory, None})
  BY <1>1, TodoElements
<1>3. PICK t \in {[work[j] EXCEPT !.todo = Tail(work[j].todo)],
                  [work[j] EXCEPT !.at = "ending", !.error = TRUE]} :
        work' = [work EXCEPT ![j] = t]
  <2>1. CASE work' = [work EXCEPT ![j].todo = Tail(@)]
    <3>1. work' = [work EXCEPT ![j] = [work[j] EXCEPT !.todo = Tail(work[j].todo)]]
      BY <1>1, <2>1
    <3> QED
      BY <3>1
  <2>2. CASE Raises(j)
    <3>1. work' = [work EXCEPT ![j] = [work[j] EXCEPT !.at = "ending", !.error = TRUE]]
      BY <1>1, <2>2 DEF Raises
    <3> QED
      BY <3>1
  <2> QED
    BY <2>1, <2>2
<1>4. /\ t \in WorkRecords /\ t.read = work[j].read
      /\ t.batch = work[j].batch /\ t.upserted = work[j].upserted
      /\ \/ t.at = "indexing" /\ t.todo = Tail(work[j].todo)
         \/ t.at = "ending" /\ t.error
  <2>1. CASE t = [work[j] EXCEPT !.todo = Tail(work[j].todo)]
    BY <1>1, <1>2, <2>1 DEF WorkRecords
  <2>2. CASE t = [work[j] EXCEPT !.at = "ending", !.error = TRUE]
    BY <1>1, <2>2 DEF WorkRecords
  <2> QED
    BY <2>1, <2>2
<1>5. job' = [job EXCEPT ![j] = job[j]]
  BY <1>1 DEF IndexTypeOK
<1>6. /\ job' \in [Jobs -> JobRecords] /\ work' \in [Jobs -> WorkRecords]
      /\ \A k \in Jobs : job'[k].row = "completed" => job'[k].upserted \in Nat
      /\ job'[j] = job[j] /\ work'[j] = t /\ Others(j)
  <2>1. job[j].row = "completed" => job[j].upserted \in Nat
    BY <1>1 DEF IndexTypeOK
  <2> QED
    BY <1>1, <1>3, <1>4, <1>5, <2>1, JobStepTypes
<1>7. IndexTypeOK'
  BY <1>1, <1>6 DEF IndexTypeOK
<1>8. Quiet(j)
  BY <1>4, <1>6 DEF Quiet, Unbroken
<1>9. Stages(j)'
  <2>1. Stages(j)
    BY DEF IndexInv, JobInv
  <2> QED
    BY <1>4, <1>6, <2>1 DEF Stages, NoWork
<1>10. ReadsOnce(j)'
  <2>1. CASE t.at = "indexing" /\ t.todo = Tail(work[j].todo)
    BY <1>4, <1>6, <2>1, TailReadsOnce
  <2>2. CASE t.at = "ending"
    BY <1>6, <2>2 DEF ReadsOnce
  <2> QED
    BY <1>4, <2>1, <2>2
<1> QED
  BY <1>6, <1>7, <1>8, <1>9, <1>10, QuietJobStep

FirstIds(w, path, n) == {<<w, path, i>> : i \in 1 .. n}

LEMMA NumberOfIds ==
  ASSUME NEW w, NEW path, NEW n \in Nat
  PROVE  IsFiniteSet(FirstIds(w, path, n)) /\ Cardinality(FirstIds(w, path, n)) = n
<1> DEFINE T == {<<w, path, i>> : i \in 1 .. n}
           f == [i \in 1 .. n |-> <<w, path, i>>]
<1>1. IsFiniteSet(1 .. n) /\ Cardinality(1 .. n) = n
  BY FS_Interval
<1>2. f \in Bijection(1 .. n, T)
  <2>1. f \in [1 .. n -> T]
    OBVIOUS
  <2>2. \A a, b \in 1 .. n : f[a] = f[b] => a = b
    OBVIOUS
  <2>3. \A t \in T : \E a \in 1 .. n : f[a] = t
    OBVIOUS
  <2> HIDE DEF f, T
  <2> QED
    BY <2>1, <2>2, <2>3 DEF Bijection, Injection, Surjection, IsInjective
<1>3. ExistsBijection(1 .. n, T)
  BY <1>2 DEF ExistsBijection
<1> HIDE DEF T
<1>4. IsFiniteSet(T) /\ Cardinality(T) = n
  BY <1>1, <1>3, FS_Bijection
<1> QED
  BY <1>4 DEF T, FirstIds
\* What reading a file does.
ReadsFile(j, path, text) ==
  /\ work[j].at = "indexing" /\ work[j].todo # <<>> /\ path = Head(work[j].todo)
  /\ job[j].workspace \in Workspaces
  /\ Others(j) /\ job'[j] = job[j] /\ index' = index
  /\ work'[j].at = "indexing" /\ work'[j].todo = Tail(work[j].todo)
  /\ work'[j].read = [work[j].read EXCEPT ![path] = text]
  /\ work'[j].batch = work[j].batch \o Chunks(j, path, text)
  /\ work'[j].upserted = work[j].upserted
  /\ last' = [last EXCEPT ![<<job[j].workspace, path>>] = j]
  /\ mixed' = mixed \ {<<job[j].workspace, path>>}

LEMMA ReadPieces ==
  ASSUME IndexInv, NEW j \in Jobs, NEW path \in Paths, NEW text \in Texts, ReadsFile(j, path, text)
  PROVE  /\ \A k \in Jobs : Once(k)' <=> Once(k)
         /\ \A k \in Jobs \ {j} : /\ \A p \in Paths : PiecesOf(k, p)' = PiecesOf(k, p)
                                  /\ ReadIds(k)' = ReadIds(k)
         /\ \A p \in Paths :
              PiecesOf(j, p)' = IF p = path THEN ChunkText(text) ELSE PiecesOf(j, p)
         /\ Once(j) => PiecesOf(j, path) = <<>>
<1>1. \A k \in Jobs : Once(k)' <=> Once(k)
  BY DEF ReadsFile, Others, Once
<1>2. ASSUME NEW k \in Jobs \ {j}
      PROVE  /\ \A p \in Paths : PiecesOf(k, p)' = PiecesOf(k, p)
             /\ ReadIds(k)' = ReadIds(k)
  <2>1. work'[k] = work[k] /\ job'[k] = job[k]
    BY DEF ReadsFile, Others
  <2> QED
    BY <2>1, SameReads
<1>3. \A p \in Paths :
        PiecesOf(j, p)' = IF p = path THEN ChunkText(text) ELSE PiecesOf(j, p)
  <2>1. work[j].read \in [Paths -> Texts \cup {None}]
    BY FieldTypes DEF IndexInv
  <2>2. /\ work'[j].read[path] = text /\ text # None
        /\ \A p \in Paths : p # path => work'[j].read[p] = work[j].read[p]
    BY <2>1, TextAssumption DEF ReadsFile
  <2> QED
    BY <2>2 DEF PiecesOf
<1>4. ASSUME Once(j)
      PROVE  PiecesOf(j, path) = <<>>
  <2>1. work[j].todo[1] = path /\ 1 \in 1 .. Len(work[j].todo)
    BY TodoElements DEF IndexInv, ReadsFile
  <2>2. work[j].read[path] = None
    BY <1>4, <2>1 DEF IndexInv, JobInv, ReadsOnce, ReadsFile
  <2> QED
    BY <2>2 DEF PiecesOf
<1> QED
  BY <1>1, <1>2, <1>3, <1>4

LEMMA ReadBatch ==
  ASSUME IndexInv, NEW j \in Jobs, NEW path \in Paths, NEW text \in Texts, ReadsFile(j, path, text)
  PROVE  LET b == work[j].batch
             c == Chunks(j, path, text)
         IN /\ work'[j].batch \in Seq(ChunkRecords)
            /\ Len(b) \in Nat /\ Len(c) \in Nat /\ Len(work'[j].batch) = Len(b) + Len(c)
            /\ Len(c) = Len(ChunkText(text))
            /\ \A k \in 1 .. Len(b) : work'[j].batch[k] = b[k]
            /\ \A i \in 1 .. Len(c) :
                 LET chunk == work'[j].batch[Len(b) + i]
                 IN /\ chunk.id = <<job[j].workspace, path, i>>
                    /\ chunk.text = ChunkText(text)[i] /\ chunk.by = j
            /\ \A k \in 1 .. Len(b) + Len(c) : k > Len(b) => k - Len(b) \in 1 .. Len(c)
<1> DEFINE b == work[j].batch
           c == Chunks(j, path, text)
<1>1. b \in Seq(ChunkRecords)
  BY FieldTypes DEF IndexInv
<1>2. /\ c \in Seq(ChunkRecords) /\ Len(c) = Len(ChunkText(text))
      /\ \A i \in 1 .. Len(c) :
           /\ c[i].id = <<job[j].workspace, path, i>>
           /\ c[i].text = ChunkText(text)[i] /\ c[i].by = j
  BY ChunksAre DEF ReadsFile
<1>3. work'[j].batch = b \o c
  BY DEF ReadsFile
<1> HIDE DEF b, c
<1>4. Len(b) \in Nat /\ Len(c) \in Nat
  BY <1>1, <1>2
<1>5. /\ b \o c \in Seq(ChunkRecords) /\ Len(b \o c) = Len(b) + Len(c)
      /\ \A k \in 1 .. Len(b) + Len(c) :
           (b \o c)[k] = IF k <= Len(b) THEN b[k] ELSE c[k - Len(b)]
  <2>1. c \in Seq(ChunkRecords)
    BY <1>2
  <2> QED
    BY <1>1, <2>1, ConcatProperties
<1>6. \A k \in 1 .. Len(b) : (b \o c)[k] = b[k]
  BY <1>4, <1>5
<1>7. \A i \in 1 .. Len(c) : (b \o c)[Len(b) + i] = c[i]
  <2>1. ASSUME NEW i \in 1 .. Len(c)
        PROVE  (b \o c)[Len(b) + i] = c[i]
    <3>1. Len(b) + i \in 1 .. Len(b) + Len(c) /\ ~(Len(b) + i <= Len(b))
             /\ Len(b) + i - Len(b) = i
      BY <1>4
    <3> QED
      BY <1>5, <3>1
  <2> QED
    BY <2>1
<1>8. \A k \in 1 .. Len(b) + Len(c) : k > Len(b) => k - Len(b) \in 1 .. Len(c)
  BY <1>4
<1>9. ASSUME NEW i \in 1 .. Len(c)
      PROVE  LET chunk == (b \o c)[Len(b) + i]
             IN /\ chunk.id = <<job[j].workspace, path, i>>
                /\ chunk.text = ChunkText(text)[i] /\ chunk.by = j
  <2>1. (b \o c)[Len(b) + i] = c[i]
    BY <1>7
  <2> QED
    BY <1>2, <2>1
<1>10. /\ work'[j].batch \in Seq(ChunkRecords) /\ Len(work'[j].batch) = Len(b) + Len(c)
       /\ \A k \in 1 .. Len(b) : work'[j].batch[k] = b[k]
       /\ \A i \in 1 .. Len(c) :
            LET chunk == work'[j].batch[Len(b) + i]
            IN /\ chunk.id = <<job[j].workspace, path, i>>
               /\ chunk.text = ChunkText(text)[i] /\ chunk.by = j
  BY <1>3, <1>5, <1>6, <1>9
<1> QED
  BY <1>2, <1>4, <1>8, <1>10 DEF b, c

LEMMA ReadKeepsLabels ==
  ASSUME IndexInv, NEW j \in Jobs, NEW path \in Paths, NEW text \in Texts, ReadsFile(j, path, text)
  PROVE  IndexLabelled' /\ LastHasRead' /\ \A k \in Jobs : Labelled(k)'
<1>0. job'[j] = job[j] /\ index' = index /\ Others(j)
  BY DEF ReadsFile
<1>1. IndexLabelled'
  <2>1. ASSUME NEW id \in DOMAIN index, NEW k \in Jobs, index[id].by = k
        PROVE  job'[k].row # "none" /\ (Once(k)' => id[3] <= Len(PiecesOf(k, id[2])'))
    <3>1. id[2] \in Paths /\ id[3] \in Nat \ {0}
      BY DEF IndexInv, IndexTypeOK, ChunkIds
    <3>2. job[k].row # "none" /\ (Once(k) => id[3] <= Len(PiecesOf(k, id[2])))
      BY <2>1 DEF IndexInv, IndexLabelled
    <3>3. job'[k].row # "none" /\ (Once(k)' <=> Once(k))
      BY <1>0, <3>2, ReadPieces DEF Others
    <3>4. CASE k = j /\ id[2] = path
      <4>1. ~Once(j)
        <5>1. Once(j) => id[3] <= Len(<<>>)
          BY <3>2, <3>4, ReadPieces
        <5> QED
          BY <3>1, <5>1
      <4> QED
        BY <3>3, <3>4, <4>1
    <3>5. CASE ~(k = j /\ id[2] = path)
      <4>1. PiecesOf(k, id[2])' = PiecesOf(k, id[2])
        BY <3>1, <3>5, ReadPieces
      <4> QED
        BY <3>2, <3>3, <4>1
    <3> QED
      BY <3>4, <3>5
  <2> QED
    BY <1>0, <2>1 DEF IndexLabelled
<1>2. LastHasRead'
  <2>1. ASSUME NEW w \in Workspaces, NEW p \in Paths, NEW k \in Jobs, last'[<<w, p>>] = k
        PROVE  job'[k].workspace = w /\ work'[k].read[p] # None
    <3>1. last \in [Spots -> Jobs \cup {None}] /\ work[j].read \in [Paths -> Texts \cup {None}]
      BY FieldTypes DEF IndexInv, IndexTypeOK
    <3>2. /\ work'[j].read[path] # None
          /\ \A q \in Paths : q # path => work'[j].read[q] = work[j].read[q]
      BY <3>1, TextAssumption DEF ReadsFile
    <3>3. CASE <<w, p>> = <<job[j].workspace, path>>
      <4>1. last'[<<w, p>>] = j
        BY <3>1, <3>3 DEF ReadsFile, Spots
      <4> QED
        BY <1>0, <2>1, <3>2, <3>3, <4>1
    <3>4. CASE <<w, p>> # <<job[j].workspace, path>>
      <4>1. last[<<w, p>>] = k
        BY <2>1, <3>1, <3>4 DEF ReadsFile, Spots
      <4>2. job[k].workspace = w /\ work[k].read[p] # None
        BY <4>1 DEF IndexInv, LastHasRead
      <4> QED
        BY <1>0, <3>2, <4>2 DEF Others
    <3> QED
      BY <3>3, <3>4
  <2> QED
    BY <2>1 DEF LastHasRead
<1>3. ASSUME NEW k \in Jobs \ {j}
      PROVE  Labelled(k)'
  <2>1. work'[k] = work[k] /\ job'[k] = job[k] /\ Labelled(k)
    BY DEF ReadsFile, Others, IndexInv, JobInv
  <2>2. (Once(k)' <=> Once(k)) /\ \A p \in Paths : PiecesOf(k, p)' = PiecesOf(k, p)
    BY ReadPieces
  <2> QED
    BY <2>1, <2>2 DEF Labelled
<1>4. Labelled(j)'
  <2> DEFINE b == work[j].batch
             c == Chunks(j, path, text)
  <2>1. ASSUME NEW k \in 1 .. Len(b) + Len(c)
        PROVE  LET chunk == work'[j].batch[k]
               IN /\ chunk.by = j /\ chunk.id[1] = job[j].workspace
                  /\ \A p \in Paths :
                       Once(j) /\ chunk.id[2] = p => chunk.id[3] <= Len(PiecesOf(j, p)')
    <3>1. CASE k \in 1 .. Len(b)
      <4>1. work'[j].batch[k] = b[k]
        BY <3>1, ReadBatch
      <4>2. b[k] \in ChunkRecords
        BY <3>1, FieldTypes DEF IndexInv
      <4>3. b[k].id[3] \in Nat \ {0}
        BY <4>2 DEF ChunkRecords, ChunkIds
      <4>4. /\ b[k].by = j /\ b[k].id[1] = job[j].workspace
            /\ \A p \in Paths :
                 Once(j) /\ b[k].id[2] = p => b[k].id[3] <= Len(PiecesOf(j, p))
        BY <3>1 DEF IndexInv, JobInv, Labelled
      <4>5. ASSUME NEW p \in Paths, Once(j), b[k].id[2] = p
            PROVE  b[k].id[3] <= Len(PiecesOf(j, p)')
        <5>1. p # path
          <6>1. p = path => b[k].id[3] <= Len(<<>>)
            BY <4>4, <4>5, ReadPieces
          <6> QED
            BY <4>3, <6>1
        <5>2. PiecesOf(j, p)' = PiecesOf(j, p)
          BY <5>1, ReadPieces
        <5> QED
          BY <4>4, <4>5, <5>2
      <4> QED
        BY <4>1, <4>4, <4>5
    <3>2. CASE k \notin 1 .. Len(b)
      <4>0. Len(b) \in Nat /\ Len(c) \in Nat
        BY ReadBatch
      <4>1. k - Len(b) \in 1 .. Len(c) /\ Len(b) + (k - Len(b)) = k
        BY <3>2, <4>0
      <4> DEFINE i == k - Len(b)
      <4> HIDE DEF i, b, c
      <4>2. i \in 1 .. Len(c) /\ k = Len(b) + i
        BY <4>1 DEF i
      <4>3. /\ work'[j].batch[k].id = <<job[j].workspace, path, i>>
            /\ work'[j].batch[k].by = j
        BY <4>2, ReadBatch DEF b, c
      <4>4. PiecesOf(j, path)' = ChunkText(text) /\ i <= Len(ChunkText(text))
        BY <4>0, <4>2, ReadPieces, ReadBatch DEF c
      <4> QED
        BY <4>3, <4>4
    <3> QED
      BY <3>1, <3>2
  <2>2. Len(work'[j].batch) = Len(b) + Len(c) /\ (Once(j)' <=> Once(j))
    BY ReadBatch, ReadPieces
  <2> HIDE DEF b, c
  <2> QED
    BY <1>0, <2>1, <2>2 DEF Labelled
<1> QED
  BY <1>1, <1>2, <1>3, <1>4
LEMMA ReadDelivers ==
  ASSUME IndexInv, NEW j \in Jobs, NEW path \in Paths, NEW text \in Texts, ReadsFile(j, path, text)
  PROVE  \A k \in Jobs : Delivered(k)'
<1>0. /\ job'[j] = job[j] /\ index' = index /\ Others(j)
      /\ last \in [Spots -> Jobs \cup {None}] /\ job[j].workspace \in Workspaces
  BY DEF ReadsFile, IndexInv, IndexTypeOK
<1>1. /\ last' = [last EXCEPT ![<<job[j].workspace, path>>] = j]
      /\ mixed' = mixed \ {<<job[j].workspace, path>>}
  BY DEF ReadsFile
<1>2. ASSUME NEW k \in Jobs \ {j}
      PROVE  Delivered(k)'
  <2>1. work'[k] = work[k] /\ job'[k] = job[k] /\ Delivered(k)
    BY <1>0 DEF Others, IndexInv, JobInv
  <2>2. \A p \in Paths : PiecesOf(k, p)' = PiecesOf(k, p)
    BY ReadPieces
  <2>3. Unbroken(k)' => Unbroken(k)
    BY <2>1 DEF Unbroken
  <2>4. ASSUME Unbroken(k)', NEW p \in Paths, NEW i \in 1 .. Len(PiecesOf(k, p))
        PROVE  LET w == job'[k].workspace
                   id == <<w, p, i>>
                   own == Own(work'[k].batch, id)
               IN /\ own # {} => work'[k].batch[Max(own)].text = PiecesOf(k, p)[i]
                  /\ own = {} =>
                       /\ id \in DOMAIN index'
                       /\ index'[id].by = k => index'[id].text = PiecesOf(k, p)[i]
                       /\ last'[<<w, p>>] = k /\ <<w, p>> \notin mixed' => index'[id].by = k
    <3> DEFINE w == job[k].workspace
               id == <<w, p, i>>
               own == Own(work[k].batch, id)
    <3>1. /\ own # {} => work[k].batch[Max(own)].text = PiecesOf(k, p)[i]
          /\ own = {} =>
               /\ id \in DOMAIN index
               /\ index[id].by = k => index[id].text = PiecesOf(k, p)[i]
               /\ last[<<w, p>>] = k /\ <<w, p>> \notin mixed => index[id].by = k
      BY <2>1, <2>3, <2>4 DEF Delivered
    <3>2. ASSUME last'[<<w, p>>] = k, <<w, p>> \notin mixed', w \in Workspaces
          PROVE  last[<<w, p>>] = k /\ <<w, p>> \notin mixed
      <4>1. <<w, p>> \in Spots /\ <<job[j].workspace, path>> \in Spots
        BY <1>0, <3>2 DEF Spots
      <4>2. <<w, p>> # <<job[j].workspace, path>>
        BY <1>0, <1>1, <3>2, <4>1
      <4> QED
        BY <1>0, <1>1, <3>2, <4>1, <4>2
    <3>3. w \in Workspaces
      <4>1. Unbroken(k) /\ Stages(k)
        BY <2>3, <2>4 DEF IndexInv, JobInv
      <4> QED
        BY <4>1 DEF Unbroken, Stages, NoWork
    <3> HIDE DEF own
    <3> QED
      BY <1>0, <2>1, <3>1, <3>2, <3>3 DEF own
  <2> QED
    BY <2>2, <2>4 DEF Delivered
<1>3. Delivered(j)'
  <2> DEFINE w == job[j].workspace
             b == work[j].batch
             c == Chunks(j, path, text)
             new == work'[j].batch
  <2>1. /\ new \in Seq(ChunkRecords) /\ b \in Seq(ChunkRecords)
        /\ Len(b) \in Nat /\ Len(c) \in Nat /\ Len(new) = Len(b) + Len(c)
        /\ Len(c) = Len(ChunkText(text))
        /\ \A k \in 1 .. Len(b) : new[k] = b[k]
        /\ \A i \in 1 .. Len(c) : /\ new[Len(b) + i].id = <<w, path, i>>
                                  /\ new[Len(b) + i].text = ChunkText(text)[i]
        /\ \A k \in 1 .. Len(b) + Len(c) : k > Len(b) => k - Len(b) \in 1 .. Len(c)
    BY ReadBatch, FieldTypes DEF IndexInv
  <2>2. Delivered(j) /\ Unbroken(j)
    BY DEF IndexInv, JobInv, Unbroken, ReadsFile
  <2> HIDE DEF b, c, new
  <2>3. ASSUME NEW i \in 1 .. Len(ChunkText(text))
        PROVE  LET own == Own(new, <<w, path, i>>)
               IN own # {} /\ new[Max(own)].text = ChunkText(text)[i]
    <3> DEFINE k == Len(b) + i
    <3>1. k \in 1 .. Len(new) /\ new[k].id = <<w, path, i>> /\ new[k].text = ChunkText(text)[i]
      BY <2>1
    <3>2. ASSUME NEW m \in 1 .. Len(new), new[m].id = <<w, path, i>>
          PROVE  m <= k
      <4>1. CASE m <= Len(b)
        BY <2>1, <4>1
      <4>2. CASE ~(m <= Len(b))
        <5> DEFINE l == m - Len(b)
        <5>1. l \in 1 .. Len(c) /\ m = Len(b) + l
          BY <2>1, <4>2
        <5> HIDE DEF l
        <5>2. new[m].id = <<w, path, l>>
          BY <2>1, <5>1
        <5>3. l = i
          BY <3>2, <5>2
        <5> QED
          BY <2>1, <5>1, <5>3
      <4> QED
        BY <4>1, <4>2
    <3> HIDE DEF k
    <3>3. Own(new, <<w, path, i>>) # {} /\ Max(Own(new, <<w, path, i>>)) = k
      BY <2>1, <3>1, <3>2, LastOwnIs
    <3> QED
      BY <3>1, <3>3
  <2>4. ASSUME NEW p \in Paths, p # path, NEW i \in 1 .. Len(PiecesOf(j, p))
        PROVE  LET id == <<w, p, i>>
                   own == Own(new, id)
               IN /\ own # {} => new[Max(own)].text = PiecesOf(j, p)[i]
                  /\ own = {} =>
                       /\ id \in DOMAIN index'
                       /\ index'[id].by = j => index'[id].text = PiecesOf(j, p)[i]
                       /\ last'[<<w, p>>] = j /\ <<w, p>> \notin mixed' => index'[id].by = j
    <3> DEFINE id == <<w, p, i>>
    <3>1. Own(new, id) = Own(b, id)
      <4>1. ASSUME NEW m \in 1 .. Len(new)
            PROVE  new[m].id = id <=> m \in 1 .. Len(b) /\ b[m].id = id
        <5>1. CASE m <= Len(b)
          <6>1. m \in 1 .. Len(b)
            BY <2>1, <5>1
          <6> QED
            BY <2>1, <6>1
        <5>2. CASE ~(m <= Len(b))
          <6> DEFINE l == m - Len(b)
          <6>1. l \in 1 .. Len(c) /\ m = Len(b) + l
            BY <2>1, <5>2
          <6> HIDE DEF l
          <6>2. new[m].id = <<w, path, l>>
            BY <2>1, <6>1
          <6>3. new[m].id # id
            BY <2>4, <6>2
          <6> QED
            BY <2>1, <5>2, <6>3
        <5> QED
          BY <5>1, <5>2
      <4>2. \A m \in 1 .. Len(b) : m \in 1 .. Len(new)
        BY <2>1
      <4> HIDE DEF id
      <4> QED
        BY <4>1, <4>2 DEF Own
    <3>2. Own(b, id) # {} => Max(Own(b, id)) \in 1 .. Len(b)
      BY <2>1, LastOwn
    <3>3. /\ Own(b, id) # {} => b[Max(Own(b, id))].text = PiecesOf(j, p)[i]
          /\ Own(b, id) = {} =>
               /\ id \in DOMAIN index
               /\ index[id].by = j => index[id].text = PiecesOf(j, p)[i]
               /\ last[<<w, p>>] = j /\ <<w, p>> \notin mixed => index[id].by = j
      BY <2>2 DEF Delivered, b
    <3>4. /\ last'[<<w, p>>] = last[<<w, p>>]
          /\ <<w, p>> \notin mixed' => <<w, p>> \notin mixed
      <4>1. <<w, p>> \in Spots /\ <<w, p>> # <<w, path>>
        BY <1>0, <2>4 DEF Spots
      <4> QED
        BY <1>0, <1>1, <4>1
    <3>5. Own(new, id) # {} => new[Max(Own(new, id))].text = PiecesOf(j, p)[i]
      BY <2>1, <3>1, <3>2, <3>3
    <3> HIDE DEF id
    <3> QED
      BY <1>0, <3>1, <3>3, <3>4, <3>5 DEF id
  <2>5. \A p \in Paths : PiecesOf(j, p)' = IF p = path THEN ChunkText(text) ELSE PiecesOf(j, p)
    BY ReadPieces
  <2>6. ASSUME NEW p \in Paths, NEW i \in 1 .. Len(PiecesOf(j, p)')
        PROVE  LET id == <<w, p, i>>
                   own == Own(new, id)
               IN /\ own # {} => new[Max(own)].text = (PiecesOf(j, p)')[i]
                  /\ own = {} =>
                       /\ id \in DOMAIN index'
                       /\ index'[id].by = j => index'[id].text = (PiecesOf(j, p)')[i]
                       /\ last'[<<w, p>>] = j /\ <<w, p>> \notin mixed' => index'[id].by = j
    <3>1. CASE p = path
      BY <2>3, <2>5, <3>1
    <3>2. CASE p # path
      BY <2>4, <2>5, <3>2
    <3> QED
      BY <3>1, <3>2
  <2> QED
    BY <1>0, <2>6 DEF Delivered, new
<1> QED
  BY <1>2, <1>3
\* The pieces of a file that is read once come to those of the others.
LEMMA ReadCounts ==
  ASSUME IndexInv, NEW j \in Jobs, NEW path \in Paths, NEW text \in Texts, ReadsFile(j, path, text)
  PROVE  \A k \in Jobs : Counted(k)'
<1>1. ASSUME NEW k \in Jobs \ {j}
      PROVE  Counted(k)'
  <2>1. work'[k] = work[k] /\ job'[k] = job[k] /\ Counted(k)
    BY DEF ReadsFile, Others, IndexInv, JobInv
  <2>2. (Once(k)' <=> Once(k)) /\ ReadIds(k)' = ReadIds(k)
    BY ReadPieces
  <2>3. Unbroken(k)' => Unbroken(k)
    BY <2>1 DEF Unbroken
  <2> QED
    BY <2>1, <2>2, <2>3 DEF Counted
<1>2. Counted(j)'
  <2> DEFINE w == job[j].workspace
             n == Len(ChunkText(text))
             New == FirstIds(w, path, n)
             Old == ReadIds(j)
  <2>1. Once(j)' <=> Once(j)
    BY ReadPieces
  <2>2. SUFFICES ASSUME Once(j)
                 PROVE  /\ IsFiniteSet(ReadIds(j)')
                        /\ work'[j].upserted + Len(work'[j].batch) = Cardinality(ReadIds(j)')
    BY <2>1 DEF Counted
  <2>3. /\ IsFiniteSet(Old) /\ Cardinality(Old) \in Nat
        /\ work[j].upserted + Len(work[j].batch) = Cardinality(Old)
    <3>1. Counted(j) /\ Unbroken(j)
      BY DEF IndexInv, JobInv, Unbroken, ReadsFile
    <3> QED
      BY <2>2, <3>1, FS_CardinalityType DEF Counted
  <2>4. /\ work'[j].upserted = work[j].upserted /\ work[j].upserted \in Nat
        /\ Len(work[j].batch) \in Nat /\ n \in Nat
        /\ Len(work'[j].batch) = Len(work[j].batch) + n
    <3>1. work'[j].upserted = work[j].upserted
      BY DEF ReadsFile
    <3>2. work[j].upserted \in Nat
      BY FieldTypes DEF IndexInv
    <3>3. LET b == work[j].batch
              c == Chunks(j, path, text)
          IN /\ Len(b) \in Nat /\ Len(c) \in Nat /\ Len(work'[j].batch) = Len(b) + Len(c)
             /\ Len(c) = n
      BY ReadBatch
    <3> QED
      BY <3>1, <3>2, <3>3
  <2>5. IsFiniteSet(New) /\ Cardinality(New) = n
    <3>1. n \in Nat
      BY <2>4
    <3> HIDE DEF n, w
    <3> QED
      BY <3>1, NumberOfIds
  <2>6. PiecesOf(j, path) = <<>>
    BY <2>2, ReadPieces
  <2>7. \A p \in Paths : PiecesOf(j, p)' = IF p = path THEN ChunkText(text) ELSE PiecesOf(j, p)
    BY ReadPieces
  <2>8. ReadIds(j)' = Old \cup New
    <3> DEFINE Of(pieces, p) == {<<w, p, i>> : i \in 1 .. Len(pieces)}
    <3>1. ReadIds(j)' = UNION {Of(PiecesOf(j, p)', p) : p \in Paths}
      <4>1. job'[j] = job[j]
        BY DEF ReadsFile
      <4> QED
        BY <4>1 DEF ReadIds
    <3>2. Old = UNION {Of(PiecesOf(j, p), p) : p \in Paths}
      BY DEF ReadIds
    <3>3. Of(PiecesOf(j, path), path) = {}
      BY <2>6
    <3>4. Of(PiecesOf(j, path)', path) = New
      BY <2>7 DEF FirstIds
    <3>5. \A p \in Paths : p # path => Of(PiecesOf(j, p)', p) = Of(PiecesOf(j, p), p)
      BY <2>7
    <3> HIDE DEF Of, New, Old
    <3> QED
      BY <3>1, <3>2, <3>3, <3>4, <3>5
  <2>9. Old \cap New = {}
    <3>1. ASSUME NEW id \in Old
          PROVE  id[2] # path
      <4>1. PICK p \in Paths : \E i \in 1 .. Len(PiecesOf(j, p)) : id = <<w, p, i>>
        BY DEF ReadIds
      <4>2. 1 .. Len(PiecesOf(j, p)) # {}
        BY <4>1
      <4>3. p # path
        BY <2>6, <4>2
      <4> QED
        BY <4>1, <4>3
    <3>2. \A id \in New : id[2] = path
      BY DEF FirstIds
    <3> HIDE DEF New, Old
    <3> QED
      BY <3>1, <3>2
  <2> HIDE DEF Old, New, n
  <2>10. IsFiniteSet(Old \cup New) /\ Cardinality(Old \cup New) = Cardinality(Old) + n
    <3>1. /\ IsFiniteSet(Old \cup New)
          /\ Cardinality(Old \cup New) = Cardinality(Old) + Cardinality(New) - Cardinality({})
      BY <2>3, <2>5, <2>9, FS_Union
    <3> QED
      BY <2>3, <2>4, <2>5, <3>1, FS_EmptySet
  <2> QED
    BY <2>3, <2>4, <2>8, <2>10
<1> QED
  BY <1>1, <1>2

LEMMA IndexFileStep ==
  ASSUME IndexInv, NEW j \in Jobs, IndexFile(j)
  PROVE  IndexInv'
<1> DEFINE path == Head(work[j].todo)
           text == files[path]
           w == job[j].workspace
<1>1. /\ IndexTypeOK /\ job[j] \in JobRecords /\ work[j] \in WorkRecords
      /\ work[j].at = "indexing" /\ work[j].todo # <<>>
      /\ UNCHANGED <<files, job, index>>
  BY FieldTypes DEF IndexInv, IndexFile, Indexing
<1>2. path \in Paths /\ text \in Texts
  BY <1>1 DEF IndexFile, Present, IndexTypeOK
<1>3. w \in Workspaces
  <2>1. Stages(j)
    BY DEF IndexInv, JobInv
  <2>2. job[j].row # "none"
    BY <1>1, <2>1 DEF Stages, NoWork
  <2> QED
    BY <2>1, <2>2 DEF Stages
<1>4. mishaps' \in 0 .. MaxMishaps
  <2>1. UNCHANGED mishaps \/ Mishap
    BY DEF IndexFile
  <2> QED
    BY <1>1, <2>1, MishapAssumption DEF Mishap, IndexTypeOK
<1> DEFINE Reads == /\ work' = [work EXCEPT ![j].todo = Tail(@), ![j].read[path] = text,
                                            ![j].batch = @ \o Chunks(j, path, text),
                                            ![j].indexed = IF text = <<>> THEN @ ELSE @ + 1]
                    /\ last' = [last EXCEPT ![<<w, path>>] = j]
                    /\ mixed' = mixed \ {<<w, path>>}
<1>5. CASE UNCHANGED <<last, mixed>> /\ (work' = [work EXCEPT ![j].todo = Tail(@)] \/ Raises(j))
  BY <1>1, <1>4, <1>5, FileNotRead
<1>6. CASE Reads
  <2> DEFINE indexed == IF text = <<>> THEN work[j].indexed ELSE work[j].indexed + 1
             batch == work[j].batch \o Chunks(j, path, text)
             read == [work[j].read EXCEPT ![path] = text]
             todo == Tail(work[j].todo)
             t == [work[j] EXCEPT !.todo = todo, !.read = read, !.batch = batch,
                                  !.indexed = indexed]
  <2>1. work' = [work EXCEPT ![j] = t]
    BY <1>1, <1>6
  <2>2. /\ todo \in Seq(Paths \cup {Directory, None})
        /\ read \in [Paths -> Texts \cup {None}] /\ indexed \in Nat
    BY <1>1, <1>2, TodoElements, FieldTypes
  <2>3. batch \in Seq(ChunkRecords)
    <3>1. Chunks(j, path, text) \in Seq(ChunkRecords)
      BY <1>2, <1>3, ChunksAre
    <3>2. work[j].batch \in Seq(ChunkRecords)
      BY <1>1, FieldTypes
    <3> QED
      BY <3>1, <3>2, ConcatProperties
  <2> HIDE DEF batch, read, todo, indexed
  <2>4. /\ t \in WorkRecords /\ t.at = "indexing" /\ t.todo = todo /\ t.read = read
        /\ t.batch = batch /\ t.upserted = work[j].upserted /\ t.error = work[j].error
    BY <1>1, <2>2, <2>3 DEF WorkRecords
  <2> HIDE DEF t
  <2>5. job' = [job EXCEPT ![j] = job[j]]
    BY <1>1 DEF IndexTypeOK
  <2>6. /\ job' \in [Jobs -> JobRecords] /\ work' \in [Jobs -> WorkRecords]
        /\ \A k \in Jobs : job'[k].row = "completed" => job'[k].upserted \in Nat
        /\ job'[j] = job[j] /\ work'[j] = t /\ Others(j)
    <3>1. job[j].row = "completed" => job[j].upserted \in Nat
      BY <1>1 DEF IndexTypeOK
    <3> QED
      BY <1>1, <2>1, <2>4, <2>5, <3>1, JobStepTypes
  <2>7. IndexTypeOK'
    <3>1. last' \in [Spots -> Jobs \cup {None}] /\ mixed' \subseteq Spots
      BY <1>1, <1>6 DEF IndexTypeOK
    <3> QED
      BY <1>1, <1>4, <2>6, <3>1 DEF IndexTypeOK
  <2>8. ReadsFile(j, path, text)
    BY <1>1, <1>3, <1>6, <2>4, <2>6 DEF ReadsFile, read, batch, todo
  <2>9. ASSUME NEW k \in Jobs \ {j}
        PROVE  Stages(k)' /\ ReadsOnce(k)'
    BY <2>6, SameStage DEF Others, IndexInv, JobInv
  <2>10. Stages(j)'
    <3>1. Stages(j)
      BY DEF IndexInv, JobInv
    <3> QED
      BY <1>1, <2>4, <2>6, <3>1 DEF Stages, NoWork
  <2>11. ReadsOnce(j)'
    <3>1. \A p \in Paths : work'[j].read[p] = work[j].read[p] \/ p = Head(work[j].todo)
      BY <1>1, <2>4, <2>6, FieldTypes DEF read
    <3>2. work'[j].todo = Tail(work[j].todo) /\ job'[j].paths = job[j].paths
      BY <2>4, <2>6 DEF todo
    <3> QED
      BY <1>1, <3>1, <3>2, TailReadsOnce
  <2> HIDE DEF path, text
  <2>12. IndexLabelled' /\ LastHasRead' /\ \A k \in Jobs : Labelled(k)'
    BY <1>2, <2>8, ReadKeepsLabels
  <2>13. \A k \in Jobs : Delivered(k)' /\ Counted(k)'
    BY <1>2, <2>8, ReadDelivers, ReadCounts
  <2> QED
    BY <2>7, <2>9, <2>10, <2>11, <2>12, <2>13 DEF IndexInv, JobInv
<1> QED
  BY <1>5, <1>6 DEF IndexFile
-----------------------------------------------------------------------------
(* Flushing a batch.                                                        *)

\* What a flush of a batch's first n chunks does to what jobs share, and to what
\* jobs have read.
Flushes(j, n) ==
  LET s == SubSeq(work[j].batch, 1, n)
  IN /\ work[j].at = "indexing" /\ n \in 0 .. Len(work[j].batch)
     /\ Others(j) /\ job'[j] = job[j] /\ last' = last /\ work'[j].read = work[j].read
     /\ index' \in {index, Upserted(s)}
     /\ mixed' = mixed \cup {spot \in Spots : /\ last[spot] # j
                                              /\ \E id \in Ids(s) : <<id[1], id[2]>> = spot}

LEMMA FlushReads ==
  ASSUME NEW j \in Jobs, NEW n, Flushes(j, n)
  PROVE  \A k \in Jobs : /\ job'[k] = job[k] /\ work'[k].read = work[k].read
                         /\ Once(k)' <=> Once(k)
                         /\ \A p \in Paths : PiecesOf(k, p)' = PiecesOf(k, p)
                         /\ ReadIds(k)' = ReadIds(k)
<1> SUFFICES ASSUME NEW k \in Jobs
             PROVE  /\ job'[k] = job[k] /\ work'[k].read = work[k].read
                    /\ Once(k)' <=> Once(k)
                    /\ \A p \in Paths : PiecesOf(k, p)' = PiecesOf(k, p)
                    /\ ReadIds(k)' = ReadIds(k)
  OBVIOUS
<1>1. job'[k] = job[k] /\ work'[k].read = work[k].read
  BY DEF Flushes, Others
<1> QED
  BY <1>1, SameReads

\* The head of the batch, and the rest.
LEMMA FlushBatch ==
  ASSUME IndexInv, NEW j \in Jobs, NEW n \in 0 .. Len(work[j].batch)
  PROVE  LET b == work[j].batch
             s == SubSeq(b, 1, n)
             rest == SubSeq(b, n + 1, Len(b))
         IN /\ b \in Seq(ChunkRecords) /\ Len(b) \in Nat
            /\ s \in Seq(ChunkRecords) /\ Len(s) = n /\ \A i \in 1 .. n : s[i] = b[i]
            /\ rest \in Seq(ChunkRecords) /\ Len(rest) = Len(b) - n
            /\ \A i \in 1 .. Len(b) - n : rest[i] = b[n + i]
<1>1. work[j].batch \in Seq(ChunkRecords) /\ Len(work[j].batch) \in Nat
  BY FieldTypes DEF IndexInv
<1> QED
  BY <1>1, BatchSplits

\* In the index a chunk stays, or is replaced by one of the batch.
LEMMA FlushIndex ==
  ASSUME IndexInv, NEW j \in Jobs, NEW n, Flushes(j, n)
  PROVE  LET s == SubSeq(work[j].batch, 1, n)
         IN /\ DOMAIN index \subseteq DOMAIN index' /\ DOMAIN index' \subseteq ChunkIds
            /\ index' \in [DOMAIN index' -> ChunkRecords]
            /\ \A id \in DOMAIN index' : index'[id].id = id
            /\ \A id \in DOMAIN index' :
                 \/ id \in DOMAIN index /\ index'[id] = index[id]
                 \/ /\ id \in Ids(s)
                    /\ \E m \in 1 .. n : /\ index'[id] = work[j].batch[m]
                                         /\ work[j].batch[m].id = id /\ index'[id].by = j
<1> DEFINE b == work[j].batch
           s == SubSeq(b, 1, n)
<1>1. n \in 0 .. Len(b)
  BY DEF Flushes
<1>2. /\ b \in Seq(ChunkRecords) /\ Len(b) \in Nat
      /\ s \in Seq(ChunkRecords) /\ Len(s) = n /\ \A i \in 1 .. n : s[i] = b[i]
  BY <1>1, FlushBatch
<1>3. /\ DOMAIN index \subseteq ChunkIds /\ index \in [DOMAIN index -> ChunkRecords]
      /\ \A id \in DOMAIN index : index[id].id = id
  BY DEF IndexInv, IndexTypeOK
<1>4. index' \in {index, Upserted(s)}
  BY DEF Flushes
<1>5. \A m \in 1 .. Len(b) : b[m].by = j
  BY DEF IndexInv, JobInv, Labelled
<1>6. CASE index' = index
  BY <1>3, <1>6
<1>7. CASE index' = Upserted(s)
  <2> HIDE DEF s
  <2>1. /\ DOMAIN Upserted(s) = DOMAIN index \cup Ids(s) /\ DOMAIN Upserted(s) \subseteq ChunkIds
        /\ Upserted(s) \in [DOMAIN Upserted(s) -> ChunkRecords]
        /\ \A id \in DOMAIN Upserted(s) : Upserted(s)[id].id = id
        /\ \A id \in Ids(s) : /\ Max(Own(s, id)) \in 1 .. Len(s)
                              /\ s[Max(Own(s, id))].id = id
                              /\ Upserted(s)[id] = s[Max(Own(s, id))]
        /\ \A id \in DOMAIN index \ Ids(s) : Upserted(s)[id] = index[id]
    BY <1>2, <1>3, UpsertedIs
  <2>2. ASSUME NEW id \in Ids(s)
        PROVE  \E m \in 1 .. n : /\ Upserted(s)[id] = b[m] /\ b[m].id = id
                                 /\ Upserted(s)[id].by = j
    <3> DEFINE m == Max(Own(s, id))
    <3>1. m \in 1 .. n /\ s[m].id = id /\ Upserted(s)[id] = s[m]
      BY <1>2, <2>1
    <3> HIDE DEF m
    <3>2. s[m] = b[m] /\ m \in 1 .. Len(b)
      BY <1>1, <1>2, <3>1
    <3> QED
      BY <1>5, <3>1, <3>2
  <2> QED
    BY <1>7, <2>1, <2>2 DEF s
<1> QED
  BY <1>4, <1>6, <1>7

LEMMA FlushKeepsLabels ==
  ASSUME IndexInv, NEW j \in Jobs, NEW n, Flushes(j, n)
  PROVE  IndexLabelled' /\ LastHasRead' /\ \A k \in Jobs \ {j} : Labelled(k)'
<1>1. IndexLabelled'
  <2>1. ASSUME NEW id \in DOMAIN index', NEW k \in Jobs, index'[id].by = k
        PROVE  job'[k].row # "none" /\ (Once(k)' => id[3] <= Len(PiecesOf(k, id[2])'))
    <3>1. id[2] \in Paths
      BY FlushIndex DEF ChunkIds
    <3>2. job[k].row # "none" /\ (Once(k) => id[3] <= Len(PiecesOf(k, id[2])))
      <4>1. CASE id \in DOMAIN index /\ index'[id] = index[id]
        BY <2>1, <4>1 DEF IndexInv, IndexLabelled
      <4>2. CASE \E m \in 1 .. n : /\ index'[id] = work[j].batch[m]
                                   /\ work[j].batch[m].id = id /\ index'[id].by = j
        <5>1. PICK m \in 1 .. n : work[j].batch[m].id = id /\ k = j
          BY <2>1, <4>2
        <5>2. n \in 0 .. Len(work[j].batch) /\ Len(work[j].batch) \in Nat /\ work[j].at = "indexing"
          BY FieldTypes DEF Flushes, IndexInv
        <5>3. m \in 1 .. Len(work[j].batch)
          BY <5>2
        <5>4. Once(j) => id[3] <= Len(PiecesOf(j, id[2]))
          BY <3>1, <5>1, <5>3 DEF IndexInv, JobInv, Labelled
        <5>5. Stages(j)
          BY DEF IndexInv, JobInv
        <5> QED
          BY <5>1, <5>2, <5>4, <5>5 DEF Stages, NoWork
      <4> QED
        BY <4>1, <4>2, FlushIndex
    <3> QED
      BY <3>1, <3>2, FlushReads
  <2> QED
    BY <2>1 DEF IndexLabelled
<1>2. LastHasRead'
  <2>1. last' = last /\ \A k \in Jobs : job'[k] = job[k] /\ work'[k].read = work[k].read
    BY FlushReads DEF Flushes
  <2> QED
    BY <2>1 DEF IndexInv, LastHasRead
<1>3. ASSUME NEW k \in Jobs \ {j}
      PROVE  Labelled(k)'
  <2>1. work'[k] = work[k] /\ job'[k] = job[k] /\ Labelled(k)
    BY DEF Flushes, Others, IndexInv, JobInv
  <2>2. (Once(k)' <=> Once(k)) /\ \A p \in Paths : PiecesOf(k, p)' = PiecesOf(k, p)
    BY FlushReads
  <2> QED
    BY <2>1, <2>2 DEF Labelled
<1> QED
  BY <1>1, <1>2, <1>3

\* What a job waits for or has delivered another job replaces, and says so.
LEMMA FlushKeepsDelivered ==
  ASSUME IndexInv, NEW j \in Jobs, NEW n, Flushes(j, n)
  PROVE  \A k \in Jobs \ {j} : Delivered(k)' /\ Counted(k)'
<1> SUFFICES ASSUME NEW k \in Jobs \ {j}
             PROVE  Delivered(k)' /\ Counted(k)'
  OBVIOUS
<1> DEFINE s == SubSeq(work[j].batch, 1, n)
<1>1. work'[k] = work[k] /\ job'[k] = job[k] /\ Delivered(k) /\ Counted(k) /\ Stages(k)
  BY DEF Flushes, Others, IndexInv, JobInv
<1>2. /\ Once(k)' <=> Once(k)
      /\ \A p \in Paths : PiecesOf(k, p)' = PiecesOf(k, p)
      /\ ReadIds(k)' = ReadIds(k)
  BY FlushReads
<1>3. Unbroken(k)' => Unbroken(k)
  BY <1>1 DEF Unbroken
<1>4. Counted(k)'
  BY <1>1, <1>2, <1>3 DEF Counted
<1>5. ASSUME Unbroken(k)', NEW p \in Paths, NEW i \in 1 .. Len(PiecesOf(k, p))
      PROVE  LET w == job'[k].workspace
                 id == <<w, p, i>>
                 own == Own(work'[k].batch, id)
             IN /\ own # {} => work'[k].batch[Max(own)].text = PiecesOf(k, p)[i]
                /\ own = {} =>
                     /\ id \in DOMAIN index'
                     /\ index'[id].by = k => index'[id].text = PiecesOf(k, p)[i]
                     /\ last'[<<w, p>>] = k /\ <<w, p>> \notin mixed' => index'[id].by = k
  <2> DEFINE w == job[k].workspace
             id == <<w, p, i>>
             own == Own(work[k].batch, id)
  <2>1. /\ own # {} => work[k].batch[Max(own)].text = PiecesOf(k, p)[i]
        /\ own = {} =>
             /\ id \in DOMAIN index
             /\ index[id].by = k => index[id].text = PiecesOf(k, p)[i]
             /\ last[<<w, p>>] = k /\ <<w, p>> \notin mixed => index[id].by = k
    BY <1>1, <1>3, <1>5 DEF Delivered
  <2>2. w \in Workspaces
    <3>1. job[k].row # "none"
      BY <1>1, <1>3, <1>5 DEF Unbroken, Stages, NoWork
    <3> QED
      BY <1>1, <3>1 DEF Stages
  <2>3. ASSUME id \in DOMAIN index
        PROVE  /\ id \in DOMAIN index'
               /\ index'[id] = index[id] \/ (id \in Ids(s) /\ index'[id].by = j)
    BY <2>3, FlushIndex
  <2>4. ASSUME last'[<<w, p>>] = k, <<w, p>> \notin mixed'
        PROVE  last[<<w, p>>] = k /\ <<w, p>> \notin mixed /\ id \notin Ids(s)
    <3>1. <<w, p>> \in Spots /\ <<id[1], id[2]>> = <<w, p>>
      BY <2>2 DEF Spots
    <3> QED
      BY <2>4, <3>1 DEF Flushes
  <2> HIDE DEF own, id, s
  <2> QED
    BY <1>1, <2>1, <2>3, <2>4 DEF own, id
<1>6. Delivered(k)'
  BY <1>2, <1>5 DEF Delivered
<1> QED
  BY <1>4, <1>6
\* Of a chunk that waits more than once the last stands for the piece: in the
\* rest of the batch, or in the index.
LEMMA FlushDelivers ==
  ASSUME IndexInv, NEW j \in Jobs, NEW n, Flushes(j, n),
         index' = Upserted(SubSeq(work[j].batch, 1, n)),
         work'[j].batch = SubSeq(work[j].batch, n + 1, Len(work[j].batch))
  PROVE  Labelled(j)' /\ Delivered(j)'
<1> DEFINE b == work[j].batch
           s == SubSeq(b, 1, n)
           rest == SubSeq(b, n + 1, Len(b))
           w == job[j].workspace
<1>1. /\ n \in 0 .. Len(b) /\ last' = last /\ job'[j] = job[j] /\ mixed \subseteq mixed'
      /\ Labelled(j) /\ Delivered(j) /\ Unbroken(j)
  BY DEF Flushes, IndexInv, JobInv, Unbroken
<1>2. /\ b \in Seq(ChunkRecords) /\ Len(b) \in Nat
      /\ s \in Seq(ChunkRecords) /\ Len(s) = n /\ \A i \in 1 .. n : s[i] = b[i]
      /\ rest \in Seq(ChunkRecords) /\ Len(rest) = Len(b) - n
      /\ \A i \in 1 .. Len(b) - n : rest[i] = b[n + i]
  BY <1>1, FlushBatch
<1>3. /\ Once(j)' <=> Once(j)
      /\ \A p \in Paths : PiecesOf(j, p)' = PiecesOf(j, p)
  BY FlushReads
<1>4. work'[j].batch = rest
  OBVIOUS
<1>5. /\ \A id \in Ids(s) : index'[id] = s[Max(Own(s, id))]
      /\ \A id \in DOMAIN index \ Ids(s) : index'[id] = index[id]
      /\ DOMAIN index' = DOMAIN index \cup Ids(s)
  BY <1>2, UpsertedIs DEF IndexInv, IndexTypeOK
<1> HIDE DEF b, s, rest, w
<1>6. \A i \in 1 .. Len(rest) : n + i \in 1 .. Len(b) /\ n + i > n /\ rest[i] = b[n + i]
  BY <1>1, <1>2
<1>7. \A m \in 1 .. Len(b) : m > n => m - n \in 1 .. Len(rest) /\ n + (m - n) = m
  BY <1>1, <1>2
<1>8. Labelled(j)'
  <2>1. \A m \in 1 .. Len(b) :
          /\ b[m].by = j /\ b[m].id[1] = job[j].workspace
          /\ \A p \in Paths : Once(j) /\ b[m].id[2] = p => b[m].id[3] <= Len(PiecesOf(j, p))
    BY <1>1 DEF Labelled, b
  <2>2. \A i \in 1 .. Len(rest) :
          /\ rest[i].by = j /\ rest[i].id[1] = job[j].workspace
          /\ \A p \in Paths : Once(j) /\ rest[i].id[2] = p => rest[i].id[3] <= Len(PiecesOf(j, p))
    BY <1>6, <2>1
  <2> QED
    BY <1>1, <1>3, <1>4, <2>2 DEF Labelled
<1>9. ASSUME NEW p \in Paths, NEW i \in 1 .. Len(PiecesOf(j, p))
      PROVE  LET id == <<w, p, i>>
                 own == Own(rest, id)
             IN /\ own # {} => rest[Max(own)].text = PiecesOf(j, p)[i]
                /\ own = {} =>
                     /\ id \in DOMAIN index'
                     /\ index'[id].by = j => index'[id].text = PiecesOf(j, p)[i]
                     /\ last'[<<w, p>>] = j /\ <<w, p>> \notin mixed' => index'[id].by = j
  <2> DEFINE id == <<w, p, i>>
  <2>1. /\ Own(b, id) # {} => b[Max(Own(b, id))].text = PiecesOf(j, p)[i]
        /\ Own(b, id) = {} =>
             /\ id \in DOMAIN index
             /\ index[id].by = j => index[id].text = PiecesOf(j, p)[i]
             /\ last[<<w, p>>] = j /\ <<w, p>> \notin mixed => index[id].by = j
    BY <1>1 DEF Delivered, b, w
  <2> HIDE DEF id
  <2>2. CASE Own(rest, id) # {}
    <3> DEFINE m == Max(Own(rest, id))
    <3>1. /\ m \in 1 .. Len(rest) /\ rest[m].id = id
          /\ \A k \in 1 .. Len(rest) : rest[k].id = id => k <= m
      BY <1>2, <2>2, LastOwn
    <3> HIDE DEF m
    <3>2. n + m \in 1 .. Len(b) /\ b[n + m].id = id /\ rest[m] = b[n + m]
      BY <1>6, <3>1
    <3>3. ASSUME NEW k \in 1 .. Len(b), b[k].id = id
          PROVE  k <= n + m
      <4>1. CASE k > n
        <5> DEFINE l == k - n
        <5>1. l \in 1 .. Len(rest) /\ n + l = k
          BY <1>7, <4>1
        <5> HIDE DEF l
        <5>2. rest[l].id = id
          BY <1>6, <3>3, <5>1
        <5>3. l <= m
          BY <3>1, <5>1, <5>2
        <5> QED
          BY <1>1, <1>2, <3>1, <5>1, <5>3
      <4>2. CASE ~(k > n)
        BY <1>1, <1>2, <3>1, <4>2
      <4> QED
        BY <4>1, <4>2
    <3>4. Own(b, id) # {} /\ Max(Own(b, id)) = n + m
      BY <1>2, <3>2, <3>3, LastOwnIs
    <3>5. rest[Max(Own(rest, id))].text = PiecesOf(j, p)[i]
      BY <2>1, <3>2, <3>4 DEF m
    <3> QED
      BY <2>2, <3>5 DEF id
  <2>3. CASE Own(rest, id) = {} /\ Own(b, id) # {}
    <3> DEFINE m == Max(Own(b, id))
    <3>1. /\ m \in 1 .. Len(b) /\ b[m].id = id
          /\ \A k \in 1 .. Len(b) : b[k].id = id => k <= m
      BY <1>2, <2>3, LastOwn
    <3> HIDE DEF m
    <3>2. m <= n
      <4>1. CASE m > n
        <5> DEFINE l == m - n
        <5>1. l \in 1 .. Len(rest) /\ n + l = m
          BY <1>7, <3>1, <4>1
        <5> HIDE DEF l
        <5>2. rest[l].id = id
          BY <1>6, <3>1, <5>1
        <5>3. Own(rest, id) # {}
          BY <5>1, <5>2 DEF Own
        <5> QED
          BY <2>3, <5>3
      <4> QED
        BY <1>1, <1>2, <3>1, <4>1
    <3>3. m \in 1 .. Len(s) /\ s[m].id = id /\ s[m] = b[m]
      BY <1>1, <1>2, <3>1, <3>2
    <3>4. \A k \in 1 .. Len(s) : s[k].id = id => k <= m
      <4>1. ASSUME NEW k \in 1 .. Len(s), s[k].id = id
            PROVE  k <= m
        <5>1. k \in 1 .. Len(b) /\ b[k].id = id
          BY <1>1, <1>2, <4>1
        <5> QED
          BY <3>1, <5>1
      <4> QED
        BY <4>1
    <3>5. Own(s, id) # {} /\ Max(Own(s, id)) = m
      BY <1>2, <3>3, <3>4, LastOwnIs
    <3>6. id \in Ids(s)
      BY <3>5, IdsAreOwn
    <3>7. index'[id] = b[m] /\ id \in DOMAIN index'
      BY <1>5, <3>3, <3>5, <3>6
    <3>8. b[m].by = j
      BY <1>1, <3>1 DEF Labelled, b
    <3>9. b[m].text = PiecesOf(j, p)[i]
      BY <2>1, <2>3 DEF m
    <3> QED
      BY <2>3, <3>7, <3>8, <3>9 DEF id
  <2>4. CASE Own(rest, id) = {} /\ Own(b, id) = {}
    <3>1. id \notin Ids(s)
      <4>1. ASSUME id \in Ids(s)
            PROVE  FALSE
        <5>1. PICK k \in 1 .. Len(s) : s[k].id = id
          BY <4>1 DEF Ids
        <5>2. k \in 1 .. Len(b) /\ b[k].id = id
          BY <1>1, <1>2, <5>1
        <5>3. Own(b, id) # {}
          BY <5>2 DEF Own
        <5> QED
          BY <2>4, <5>3
      <4> QED
        BY <4>1
    <3>2. id \in DOMAIN index /\ id \in DOMAIN index' /\ index'[id] = index[id]
      BY <1>5, <2>1, <2>4, <3>1
    <3> QED
      BY <1>1, <2>1, <2>4, <3>2 DEF id
  <2> QED
    BY <2>2, <2>3, <2>4 DEF id
<1>10. Delivered(j)'
  <2>1. ASSUME NEW p \in Paths, NEW i \in 1 .. Len(PiecesOf(j, p))
        PROVE  LET id == <<job'[j].workspace, p, i>>
                   own == Own(work'[j].batch, id)
               IN /\ own # {} => work'[j].batch[Max(own)].text = PiecesOf(j, p)[i]
                  /\ own = {} =>
                       /\ id \in DOMAIN index'
                       /\ index'[id].by = j => index'[id].text = PiecesOf(j, p)[i]
                       /\ last'[<<job'[j].workspace, p>>] = j
                            /\ <<job'[j].workspace, p>> \notin mixed' => index'[id].by = j
    <3>1. job'[j].workspace = w /\ work'[j].batch = rest
      BY <1>1, <1>4 DEF w
    <3> QED
      BY ONLY <1>9, <2>1, <3>1
  <2> QED
    BY <1>3, <2>1 DEF Delivered
<1> QED
  BY <1>8, <1>10

LEMMA FlushStep ==
  ASSUME IndexInv, NEW j \in Jobs, Flush(j)
  PROVE  IndexInv'
<1> DEFINE b == work[j].batch
           n == Min({BatchSize, Len(b)})
           s == SubSeq(b, 1, n)
           rest == SubSeq(b, n + 1, Len(b))
           up == work[j].upserted + n
           t1 == [work[j] EXCEPT !.batch = rest, !.upserted = up]
           t2 == [work[j] EXCEPT !.at = "ending", !.error = TRUE]
<1>1. /\ IndexTypeOK /\ job[j] \in JobRecords /\ work[j] \in WorkRecords
      /\ work[j].at = "indexing" /\ work[j].upserted \in Nat
      /\ b \in Seq(ChunkRecords) /\ Len(b) \in Nat
  BY FieldTypes DEF IndexInv, Flush, Indexing
<1>2. n \in 0 .. Len(b)
  <2>1. BatchSize \in Nat /\ BatchSize \in Int /\ Len(b) \in Int
    BY <1>1, BatchAssumption
  <2>2. n = IF BatchSize <= Len(b) THEN BatchSize ELSE Len(b)
    BY <2>1, MinOfTwo
  <2> HIDE DEF n
  <2> QED
    BY <1>1, <2>1, <2>2
<1> HIDE DEF n
<1>3. /\ s \in Seq(ChunkRecords) /\ Len(s) = n
      /\ rest \in Seq(ChunkRecords) /\ Len(rest) = Len(b) - n
  BY <1>2, FlushBatch
<1>4. /\ UNCHANGED <<files, job, last>>
      /\ mixed' = mixed \cup {spot \in Spots : /\ last[spot] # j
                                               /\ \E id \in Ids(s) : <<id[1], id[2]>> = spot}
      /\ \/ /\ index' = Upserted(s) /\ UNCHANGED mishaps
            /\ work' = [work EXCEPT ![j] = t1]
         \/ /\ Mishap /\ index' \in {index, Upserted(s)}
            /\ work' = [work EXCEPT ![j] = t2]
  <2>1. /\ UNCHANGED <<files, job, last>>
        /\ mixed' = mixed \cup {spot \in Spots : /\ last[spot] # j
                                                 /\ \E id \in Ids(s) : <<id[1], id[2]>> = spot}
        /\ \/ /\ index' = Upserted(s) /\ UNCHANGED mishaps
              /\ work' = [work EXCEPT ![j].batch = SubSeq(@, Len(s) + 1, Len(@)),
                                      ![j].upserted = @ + Len(s)]
           \/ Mishap /\ index' \in {index, Upserted(s)} /\ Raises(j)
    BY DEF Flush, n
  <2>2. CASE /\ index' = Upserted(s) /\ UNCHANGED mishaps
             /\ work' = [work EXCEPT ![j].batch = SubSeq(@, Len(s) + 1, Len(@)),
                                     ![j].upserted = @ + Len(s)]
    <3> HIDE DEF s
    <3>1. work' = [work EXCEPT ![j] = t1]
      BY <1>1, <1>3, <2>2
    <3> QED
      BY <2>1, <2>2, <3>1
  <2>3. CASE Mishap /\ index' \in {index, Upserted(s)} /\ Raises(j)
    <3> HIDE DEF s
    <3>1. work' = [work EXCEPT ![j] = t2]
      BY <1>1, <2>3 DEF Raises
    <3> QED
      BY <2>1, <2>3, <3>1
  <2> QED
    BY <2>1, <2>2, <2>3
<1>5. index' \in {index, Upserted(s)} /\ \E t \in {t1, t2} : work' = [work EXCEPT ![j] = t]
  BY <1>4
<1>6. up \in Nat
  BY <1>1, <1>2
<1> HIDE DEF rest, up
<1>7. /\ t1 \in WorkRecords /\ t1.at = "indexing" /\ t1.todo = work[j].todo
      /\ t1.read = work[j].read /\ t1.batch = rest /\ t1.upserted = up
  BY <1>1, <1>3, <1>6 DEF WorkRecords
<1>8. t2 \in WorkRecords /\ t2.at = "ending" /\ t2.error /\ t2.read = work[j].read
  BY <1>1 DEF WorkRecords
<1> HIDE DEF t1, t2
<1>9. PICK t \in {t1, t2} : work' = [work EXCEPT ![j] = t]
  BY <1>5
<1>10. job' = [job EXCEPT ![j] = job[j]]
  BY <1>1, <1>4 DEF IndexTypeOK
<1>11. /\ job' \in [Jobs -> JobRecords] /\ work' \in [Jobs -> WorkRecords]
       /\ \A k \in Jobs : job'[k].row = "completed" => job'[k].upserted \in Nat
       /\ job'[j] = job[j] /\ work'[j] = t /\ Others(j)
  <2>1. job[j].row = "completed" => job[j].upserted \in Nat
    BY <1>1 DEF IndexTypeOK
  <2> QED
    BY <1>1, <1>7, <1>8, <1>9, <1>10, <2>1, JobStepTypes
<1>12. Flushes(j, n)
  BY <1>1, <1>2, <1>4, <1>7, <1>8, <1>9, <1>11 DEF Flushes
<1>13. IndexTypeOK'
  <2>1. mixed' \subseteq Spots
    BY <1>1, <1>4 DEF IndexTypeOK
  <2>2. mishaps' \in 0 .. MaxMishaps
    BY <1>1, <1>4, MishapAssumption DEF IndexTypeOK, Mishap
  <2>3. /\ DOMAIN index' \subseteq ChunkIds /\ index' \in [DOMAIN index' -> ChunkRecords]
        /\ \A id \in DOMAIN index' : index'[id].id = id
    BY <1>12, FlushIndex
  <2> QED
    BY <1>1, <1>4, <1>11, <2>1, <2>2, <2>3 DEF IndexTypeOK
<1>14. IndexLabelled' /\ LastHasRead'
  BY <1>12, FlushKeepsLabels
<1>15. ASSUME NEW k \in Jobs \ {j}
       PROVE  JobInv(k)'
  <2>1. Labelled(k)' /\ Delivered(k)' /\ Counted(k)'
    BY <1>12, FlushKeepsLabels, FlushKeepsDelivered
  <2>2. Stages(k)' /\ ReadsOnce(k)'
    BY <1>11, SameStage DEF Others, IndexInv, JobInv
  <2> QED
    BY <2>1, <2>2 DEF JobInv
<1>16. JobInv(j)'
  <2>1. Stages(j) /\ ReadsOnce(j) /\ Counted(j) /\ Labelled(j)
    BY DEF IndexInv, JobInv
  <2>2. job[j].row # "none" /\ job[j].row # "completed"
    BY <1>1, <2>1 DEF Stages, NoWork
  <2>3. /\ Once(j)' <=> Once(j)
        /\ \A p \in Paths : PiecesOf(j, p)' = PiecesOf(j, p)
        /\ ReadIds(j)' = ReadIds(j)
    BY <1>12, FlushReads
  <2>4. Stages(j)'
    BY <1>7, <1>8, <1>9, <1>11, <2>1, <2>2 DEF Stages
  <2>5. CASE /\ index' = Upserted(s) /\ UNCHANGED mishaps
             /\ work' = [work EXCEPT ![j] = t1]
    <3>1. work'[j] = t1
      BY <1>1, <2>5 DEF IndexTypeOK
    <3>2. Labelled(j)' /\ Delivered(j)'
      BY <1>7, <1>12, <2>5, <3>1, FlushDelivers DEF rest
    <3>3. ReadsOnce(j)'
      BY <1>1, <1>7, <2>1, <2>3, <3>1 DEF ReadsOnce
    <3>4. up + Len(rest) = work[j].upserted + Len(b)
      BY SMTT(60), <1>1, <1>2, <1>3 DEF up
    <3>5. Counted(j)'
      <4>1. Unbroken(j)
        BY <1>1 DEF Unbroken
      <4> QED
        BY <1>7, <2>1, <2>3, <3>1, <3>4, <4>1 DEF Counted
    <3> QED
      BY <2>4, <3>2, <3>3, <3>5 DEF JobInv
  <2>6. CASE /\ Mishap /\ index' \in {index, Upserted(s)}
             /\ work' = [work EXCEPT ![j] = t2]
    <3>1. work'[j] = t2 /\ t2.batch = b
      BY <1>1, <2>6 DEF IndexTypeOK, t2, WorkRecords
    <3>2. ~Unbroken(j)'
      BY <1>8, <1>11, <2>2, <3>1 DEF Unbroken
    <3>3. Labelled(j)'
      BY <1>11, <2>1, <2>3, <3>1 DEF Labelled
    <3>4. Delivered(j)' /\ Counted(j)' /\ ReadsOnce(j)'
      BY <1>8, <3>1, <3>2 DEF Delivered, Counted, ReadsOnce
    <3> QED
      BY <2>4, <3>3, <3>4 DEF JobInv
  <2> QED
    BY <1>4, <2>5, <2>6
<1> QED
  BY <1>13, <1>14, <1>15, <1>16 DEF IndexInv
-----------------------------------------------------------------------------
(* Theorems.                                                                *)

LEMMA IndexStep ==
  ASSUME IndexInv, [IndexNext]_indexVars
  PROVE  IndexInv'
<1>1. CASE IndexNext
  <2>1. ASSUME NEW j \in Jobs, JobStep(j)
        PROVE  IndexInv'
    BY <2>1, StartJobStep, VisitStep, IndexFileStep, FlushStep, FinishIndexStep, EndJobStep
       DEF JobStep
  <2>2. ASSUME NEW j \in Jobs, NEW w \in Workspaces, NEW paths \in PathLists, Ask(j, w, paths)
        PROVE  IndexInv'
    BY <2>2, AskStep
  <2> QED
    BY <1>1, <2>1, <2>2, RestartIndexStep, EditFilesStep DEF IndexNext
<1>2. CASE UNCHANGED indexVars
  <2>1. UNCHANGED <<files, job, work, index, last, mixed, mishaps>>
    BY <1>2 DEF indexVars
  <2>2. IndexTypeOK'
    BY <2>1 DEF IndexInv, IndexTypeOK
  <2>3. \A k \in Jobs : Quiet(k) /\ Stages(k)' /\ ReadsOnce(k)'
    BY <2>1, OthersAreQuiet, SameStage DEF IndexInv, JobInv
  <2>4. /\ \A id \in DOMAIN index : index[id].by \in Jobs
        /\ \A spot \in Spots : last[spot] \in Jobs \cup {None}
    BY DEF IndexInv, IndexTypeOK, ChunkRecords
  <2>5. /\ IndexLabelled' /\ LastHasRead'
        /\ \A k \in Jobs : Labelled(k)' /\ Delivered(k)' /\ Counted(k)'
    BY <2>1, <2>3, <2>4, QuietStep
  <2> QED
    BY <2>2, <2>3, <2>5 DEF IndexInv, JobInv
<1> QED
  BY <1>1, <1>2

\* The types of the index and its jobs: index() and the row of a job keep them.
THEOREM IndexTypes == IndexSpec => []IndexTypeOK
<1>1. IndexInv => IndexTypeOK
  BY DEF IndexInv
<1> QED
  BY <1>1, IndexInitInv, IndexStep, PTL DEF IndexSpec

\* Nothing of a job that completed waits any more.
LEMMA CompletedPiece ==
  ASSUME IndexInv, NEW j \in Jobs, job[j].row = "completed",
         NEW path \in Paths, NEW i \in 1 .. Len(PiecesOf(j, path))
  PROVE  LET w == job[j].workspace
             id == <<w, path, i>>
         IN /\ id \in DOMAIN index
            /\ index[id].by = j => index[id].text = PiecesOf(j, path)[i]
            /\ last[<<w, path>>] = j /\ <<w, path>> \notin mixed => index[id].by = j
<1>1. Stages(j) /\ Delivered(j)
  BY DEF IndexInv, JobInv
<1>2. Unbroken(j) /\ work[j].batch = <<>>
  BY <1>1 DEF Unbroken, Stages
<1>3. Own(work[j].batch, <<job[j].workspace, path, i>>) = {}
  BY <1>2 DEF Own
<1> QED
  BY <1>1, <1>2, <1>3 DEF Delivered

LEMMA CompletedHolds ==
  ASSUME IndexInv
  PROVE  CompletedIsIndexed
<1> SUFFICES ASSUME NEW j \in Jobs, job[j].row = "completed"
             PROVE  /\ ReadIds(j) \subseteq DOMAIN index
                    /\ \A path \in Paths :
                         LET w == job[j].workspace
                             InIndex == [i \in 1 .. Len(PiecesOf(j, path)) |-> index[<<w, path, i>>]]
                         IN work[j].read[path] # None =>
                              /\ (\A i \in 1 .. Len(InIndex) : InIndex[i].by = j) =>
                                   Reassembled([i \in 1 .. Len(InIndex) |-> InIndex[i].text])
                                     = work[j].read[path]
                              /\ work[j].read[path] # <<>> => \E id \in Search(w) : id[2] = path
                    /\ Once(j) => job[j].upserted = Cardinality(ReadIds(j))
  BY DEF CompletedIsIndexed
<1> DEFINE w == job[j].workspace
<1>1. ReadIds(j) \subseteq DOMAIN index
  <2>1. ASSUME NEW id \in ReadIds(j)
        PROVE  id \in DOMAIN index
    <3>1. PICK path \in Paths : \E i \in 1 .. Len(PiecesOf(j, path)) : id = <<w, path, i>>
      BY DEF ReadIds
    <3> QED
      BY <3>1, CompletedPiece
  <2> QED
    BY <2>1
<1>2. Once(j) => job[j].upserted = Cardinality(ReadIds(j))
  <2>1. Stages(j) /\ Counted(j) /\ work[j].upserted \in Nat
    BY FieldTypes DEF IndexInv, JobInv
  <2>2. Unbroken(j) /\ work[j].batch = <<>> /\ job[j].upserted = work[j].upserted
    BY <2>1 DEF Unbroken, Stages
  <2>3. Len(work[j].batch) = 0
    BY <2>2
  <2>4. Once(j) => work[j].upserted + 0 = Cardinality(ReadIds(j))
    BY <2>1, <2>2, <2>3 DEF Counted
  <2> QED
    BY <2>1, <2>2, <2>4
<1>3. ASSUME NEW path \in Paths, work[j].read[path] # None
      PROVE  LET InIndex == [i \in 1 .. Len(PiecesOf(j, path)) |-> index[<<w, path, i>>]]
             IN /\ (\A i \in 1 .. Len(InIndex) : InIndex[i].by = j) =>
                     Reassembled([i \in 1 .. Len(InIndex) |-> InIndex[i].text]) = work[j].read[path]
                /\ work[j].read[path] # <<>> => \E id \in Search(w) : id[2] = path
  <2> DEFINE text == work[j].read[path]
             pieces == PiecesOf(j, path)
             n == Len(pieces)
             InIndex == [i \in 1 .. n |-> index[<<w, path, i>>]]
  <2>1. text \in Texts /\ pieces = ChunkText(text) /\ n \in Nat
    BY <1>3, PiecesAreSeq DEF IndexInv
  <2>2. \A i \in 1 .. n : /\ <<w, path, i>> \in DOMAIN index
                          /\ index[<<w, path, i>>].by = j => index[<<w, path, i>>].text = pieces[i]
    BY CompletedPiece
  <2>3. pieces = [i \in 1 .. n |-> pieces[i]]
    <3>1. pieces \in Seq(UNION {Range(ChunkText(t)) : t \in Texts})
      BY <2>1, PiecesAre
    <3> HIDE DEF pieces
    <3> QED
      BY <3>1
  <2>4. text # <<>> => \E id \in Search(w) : id[2] = path
    <3>1. ASSUME text # <<>>
          PROVE  <<w, path, 1>> \in VectorHits(w)
      <4>1. n # 0
        BY <2>1, <3>1, WindowsAre, PiecesAre
      <4>2. 1 \in 1 .. n
        BY <2>1, <4>1
      <4>3. <<w, path, 1>> \in DOMAIN index
        BY <2>2, <4>2
      <4> QED
        BY <4>3 DEF VectorHits
    <3>2. VectorHits(w) \subseteq Search(w)
      BY DEF Search
    <3> HIDE DEF text, w
    <3>3. text # <<>> => <<w, path, 1>> \in Search(w) /\ <<w, path, 1>>[2] = path
      BY <3>1, <3>2
    <3> QED
      BY <3>3
  <2> HIDE DEF pieces, n, text
  <2>5. Len(InIndex) = n
    BY <2>1
  <2>6. ASSUME \A i \in 1 .. n : InIndex[i].by = j
        PROVE  Reassembled([i \in 1 .. n |-> InIndex[i].text]) = text
    <3>1. \A i \in 1 .. n : InIndex[i].text = pieces[i]
      BY <2>2, <2>6
    <3> HIDE DEF InIndex
    <3>2. [i \in 1 .. n |-> InIndex[i].text] = pieces
      BY <2>3, <3>1
    <3> QED
      BY <2>1, <3>2, TextIsReassembled
  <2> QED
    BY <2>4, <2>5, <2>6 DEF n, pieces, text
<1> QED
  BY <1>1, <1>2, <1>3

\* What a job says that completed is in the index: every piece of every file that
\* index() read, though a batch failed here and there and others upserted; the
\* pieces of its own put together give the text that was cut; their number is the
\* result's; and the search of the workspace has a hit for each file.
THEOREM CompletedAreIndexed == IndexSpec => []CompletedIsIndexed
<1> QED
  BY CompletedHolds, IndexInitInv, IndexStep, PTL DEF IndexSpec

LEMMA LastReaderHolds ==
  ASSUME IndexInv
  PROVE  LastReaderWins
<1> SUFFICES ASSUME NEW w \in Workspaces, NEW path \in Paths, NEW j, j = last[<<w, path>>],
                    j # None, <<w, path>> \notin mixed, job[j].row = "completed"
             PROVE  /\ \A i \in 1 .. Len(PiecesOf(j, path)) :
                         /\ index[<<w, path, i>>].by = j
                         /\ index[<<w, path, i>>].text = PiecesOf(j, path)[i]
                    /\ \A id \in DOMAIN index :
                         LET by == index[id].by
                         IN <<id[1], id[2]>> = <<w, path>> /\ id[3] > Len(PiecesOf(j, path))
                              /\ Once(by) => by # j /\ id[3] <= Len(PiecesOf(by, path))
  BY DEF LastReaderWins
<1>1. j \in Jobs
  BY DEF IndexInv, IndexTypeOK, Spots
<1>2. job[j].workspace = w
  BY <1>1 DEF IndexInv, LastHasRead
<1>3. ASSUME NEW i \in 1 .. Len(PiecesOf(j, path))
      PROVE  /\ index[<<w, path, i>>].by = j
             /\ index[<<w, path, i>>].text = PiecesOf(j, path)[i]
  BY <1>1, <1>2, CompletedPiece
<1>4. ASSUME NEW id \in DOMAIN index, NEW by, by = index[id].by, <<id[1], id[2]>> = <<w, path>>,
             id[3] > Len(PiecesOf(j, path)), Once(by)
      PROVE  by # j /\ id[3] <= Len(PiecesOf(by, path))
  <2>1. by \in Jobs /\ id \in ChunkIds
    BY <1>4 DEF IndexInv, IndexTypeOK, ChunkRecords
  <2>2. id[2] = path /\ id[3] \in Nat
    BY <1>4, <2>1 DEF ChunkIds
  <2>3. id[3] <= Len(PiecesOf(by, path))
    BY <1>4, <2>1, <2>2 DEF IndexInv, IndexLabelled
  <2>4. Len(PiecesOf(j, path)) \in Nat
    BY <1>1, PiecesAreSeq DEF IndexInv
  <2> QED
    BY <1>4, <2>2, <2>3, <2>4
<1> QED
  BY <1>3, <1>4

\* When the job that read a file last completed, and no batch of an earlier reader
\* came after it, upsert_chunks has left its text in the index, and besides it
\* nothing but the tail of a longer text that another job had read.
THEOREM LastReadersWin == IndexSpec => []LastReaderWins
<1> QED
  BY LastReaderHolds, IndexInitInv, IndexStep, PTL DEF IndexSpec

-----------------------------------------------------------------------------
(* The index and the history.                                               *)

\* The jobs, the index and the histories keep their types, in every behaviour of
\* the index and of a history: an index entry is a piece that some job read, a
\* history is written only by a process that has read or asked.
THEOREM MemoryTypes == Spec => []TypeOK
<1> DEFINE Inv == IndexInv /\ HotInv /\ HotTypeOK
<1>1. Init => Inv
  BY IndexInitInv, HotInitInv, HotTypeInit DEF Init
<1>2. Inv /\ [Next]_vars => Inv'
  <2> SUFFICES ASSUME Inv, [Next]_vars
               PROVE  Inv'
    OBVIOUS
  <2>1. [IndexNext]_indexVars /\ [HotNext]_hotVars
    BY DEF Next, vars
  <2> QED
    BY <2>1, IndexStep, HotStep, HotTypeNext
<1>3. Inv => TypeOK
  BY DEF IndexInv, TypeOK
<1> QED
  BY <1>1, <1>2, <1>3, PTL DEF Spec
=============================================================================
