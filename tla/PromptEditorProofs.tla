------------------------- MODULE PromptEditorProofs -------------------------
(***************************************************************************)
(* What is proved of PromptEditor, for any characters of any width, texts  *)
(* of any length, any histories and any lists of files: the cursor stays   *)
(* on the boundary of a character, the popup shows what matches, the draft *)
(* comes back, and references are deleted whole.                           *)
(***************************************************************************)
EXTENDS PromptEditor, TLAPS, FiniteSetTheorems, SequenceTheorems, WellFoundedInduction

-----------------------------------------------------------------------------
(***************************************************************************)
(* Numbers.                                                                *)
(***************************************************************************)

\* Every set of numbers that is not empty has a least one.
LEMMA LeastNumber ==
    ASSUME NEW T \in SUBSET Nat, T # {}
    PROVE  \E m \in T : \A n \in T : m <= n
  <1>1. PICK m \in T : \A n \in T : ~(<<n, m>> \in OpToRel(<, Nat))
    BY NatLessThanWellFounded, WFMin
  <1>2. \A n \in T : n \in Nat /\ m \in Nat /\ ~(n < m)
    BY <1>1 DEF OpToRel
  <1> QED BY <1>2

\* A bounded one also has a greatest.
LEMMA GreatestNumber ==
    ASSUME NEW T \in SUBSET Nat, T # {}, NEW b \in Nat, \A n \in T : n <= b
    PROVE  \E m \in T : \A n \in T : m >= n
  <1> DEFINE U == {u \in Nat : \A n \in T : n <= u}
  <1>1. U \in SUBSET Nat /\ b \in U
    OBVIOUS
  <1>2. PICK u \in U : \A v \in U : u <= v
    <2> HIDE DEF U
    <2> QED BY <1>1, LeastNumber
  <1>3. u \in Nat /\ \A n \in T : n <= u
    BY <1>2
  <1>4. CASE u \in T
    BY <1>3, <1>4
  <1>5. CASE u \notin T
    <2>1. PICK n \in T : TRUE
      OBVIOUS
    <2>2. u # 0
      BY <1>3, <1>5, <2>1
    <2>3. u - 1 \in Nat /\ \A m \in T : m <= u - 1
      BY <1>3, <1>5, <2>2
    <2>4. u - 1 \in U
      BY <2>3
    <2> QED BY <1>2, <1>3, <2>4
  <1> QED BY <1>4, <1>5

\* The largest and the smallest of a set.
LEMMA MaxFacts ==
    ASSUME NEW T \in SUBSET Nat, T # {}, NEW b \in Nat, \A n \in T : n <= b
    PROVE  Max(T) \in T /\ \A n \in T : n <= Max(T)
  <1>1. \E m \in T : \A n \in T : m >= n
    BY GreatestNumber
  <1>2. Max(T) \in T /\ \A n \in T : Max(T) >= n
    BY <1>1 DEF Max
  <1> QED BY <1>2

\* The smallest of a set.
LEMMA MinFacts ==
    ASSUME NEW T \in SUBSET Nat, T # {}
    PROVE  Min(T) \in T /\ \A n \in T : Min(T) <= n
  <1>1. \E m \in T : \A n \in T : m <= n
    BY LeastNumber
  <1> QED BY <1>1 DEF Min

\* The smaller of two.
LEMMA MinOfTwo ==
    ASSUME NEW m \in Nat, NEW n \in Nat
    PROVE  Min({m, n}) \in Nat /\ Min({m, n}) <= m /\ Min({m, n}) <= n
           /\ (Min({m, n}) = m \/ Min({m, n}) = n)
  BY MinFacts

-----------------------------------------------------------------------------
(***************************************************************************)
(* Bytes and characters.                                                   *)
(***************************************************************************)

\* The bytes of a text, counted up to position n of it.
Counting(t, f, n) ==
    f = [i \in 0..n |-> IF i = 0 THEN 0 ELSE f[i - 1] + Width[t[i]]]

\* They can be counted.
LEMMA CountingExists ==
    ASSUME NEW t, NEW N \in Nat
    PROVE  \E f : Counting(t, f, N)
  <1> DEFINE T == {n \in 0..N : ~\E f : Counting(t, f, n)}
  <1>1. SUFFICES ASSUME T # {} PROVE FALSE
    <2>1. T = {}
      OBVIOUS
    <2>2. N \in 0..N
      OBVIOUS
    <2> QED BY <2>1, <2>2
  <1>2. PICK n \in T : \A m \in T : n <= m
    <2>1. T \in SUBSET Nat
      OBVIOUS
    <2> HIDE DEF T
    <2> QED BY <1>1, <2>1, LeastNumber
  <1>3. n # 0
    <2>1. ASSUME n = 0 PROVE FALSE
      <3> DEFINE g == [i \in 0..0 |-> 0]
      <3>1. g = [i \in 0..0 |-> IF i = 0 THEN 0 ELSE g[i - 1] + Width[t[i]]]
        OBVIOUS
      <3> HIDE DEF g
      <3>2. Counting(t, g, 0)
        BY <3>1 DEF Counting
      <3> QED BY <1>2, <2>1, <3>2
    <2> QED BY <2>1
  <1>4. n \in Nat /\ n \in 1..N /\ n - 1 \in 0..N /\ ~(n <= n - 1)
    BY <1>2, <1>3
  <1>5. PICK g : Counting(t, g, n - 1)
    BY <1>2, <1>4
  <1> DEFINE h == [i \in 0..n |-> IF i = 0 THEN 0 ELSE g[i - 1] + Width[t[i]]]
  <1>6. \A i \in 0..(n - 1) : g[i] = h[i]
    <2>1. SUFFICES ASSUME NEW i \in 0..(n - 1) PROVE g[i] = h[i]
      OBVIOUS
    <2>2. i \in 0..n
      BY <1>4
    <2>3. g[i] = IF i = 0 THEN 0 ELSE g[i - 1] + Width[t[i]]
      BY <1>5 DEF Counting
    <2> QED BY <2>2, <2>3
  <1>7. Counting(t, h, n)
    <2>1. \A i \in 0..n : i # 0 => i - 1 \in 0..(n - 1)
      BY <1>4
    <2>2. h = [i \in 0..n |-> IF i = 0 THEN 0 ELSE h[i - 1] + Width[t[i]]]
      BY <1>6, <2>1
    <2> HIDE DEF h
    <2> QED BY <2>2 DEF Counting
  <1>8. n \in 0..N /\ ~\E f : Counting(t, f, n)
    BY <1>2
  <1> QED BY <1>7, <1>8

\* Offsets is that count.
LEMMA OffsetsStep ==
    ASSUME NEW t \in Seq(Chars)
    PROVE  /\ DOMAIN Offsets(t) = 0..Len(t)
           /\ Offsets(t)[0] = 0
           /\ \A i \in 1..Len(t) : Offsets(t)[i] = Offsets(t)[i - 1] + Width[t[i]]
  <1> DEFINE f == CHOOSE f : f = [i \in 0..Len(t) |-> IF i = 0 THEN 0 ELSE f[i - 1] + Width[t[i]]]
  <1>1. Offsets(t) = f
    BY DEF Offsets
  <1>2. Len(t) \in Nat
    OBVIOUS
  <1>3. \E g : g = [i \in 0..Len(t) |-> IF i = 0 THEN 0 ELSE g[i - 1] + Width[t[i]]]
    BY <1>2, CountingExists DEF Counting
  <1>4. f = [i \in 0..Len(t) |-> IF i = 0 THEN 0 ELSE f[i - 1] + Width[t[i]]]
    BY <1>3
  <1> HIDE DEF f
  <1>5. 0 \in 0..Len(t) /\ \A i \in 1..Len(t) : i \in 0..Len(t) /\ i # 0
    BY <1>2
  <1>6. DOMAIN f = 0..Len(t) /\ f[0] = 0
        /\ \A i \in 1..Len(t) : f[i] = f[i - 1] + Width[t[i]]
    BY <1>4, <1>5
  <1> QED BY <1>1, <1>6

\* Every character takes bytes, so that positions and bytes have the same order.
LEMMA OffsetsGrow ==
    ASSUME NEW t \in Seq(Chars)
    PROVE  /\ \A i \in 0..Len(t) : Offsets(t)[i] \in Nat
           /\ \A i, j \in 0..Len(t) : i < j => Offsets(t)[i] < Offsets(t)[j]
  <1> DEFINE f == Offsets(t)
             Good(n) == f[n] \in Nat /\ \A i \in 0..n : i < n => f[i] < f[n]
             T == {n \in 0..Len(t) : ~Good(n)}
  <1>1. SUFFICES ASSUME T # {} PROVE FALSE
    <2>1. \A n \in 0..Len(t) : Good(n)
      OBVIOUS
    <2>2. \A i, j \in 0..Len(t) : i < j => i \in 0..j
      OBVIOUS
    <2> QED BY <2>1, <2>2
  <1>2. PICK n \in T : \A m \in T : n <= m
    <2>1. T \in SUBSET Nat
      OBVIOUS
    <2> HIDE DEF T
    <2> QED BY <1>1, <2>1, LeastNumber
  <1>3. n \in 0..Len(t) /\ ~Good(n)
    BY <1>2
  <1>4. n # 0
    BY <1>3, OffsetsStep
  <1>5. n - 1 \in 0..Len(t) /\ n - 1 \notin T /\ n \in 1..Len(t)
    BY <1>2, <1>3, <1>4
  <1>6. Good(n - 1)
    BY <1>5
  <1>7. Width[t[n]] \in 1..4 /\ f[n] = f[n - 1] + Width[t[n]]
    <2>1. t[n] \in Chars
      BY <1>5
    <2> QED BY <1>5, <2>1, PromptAssumption, OffsetsStep
  <1>8. f[n] \in Nat /\ f[n - 1] < f[n]
    BY <1>6, <1>7
  <1>9. ASSUME NEW i \in 0..n, i < n PROVE f[i] < f[n]
    <2>1. CASE i = n - 1
      BY <1>8, <2>1
    <2>2. CASE i # n - 1
      <3>1. i \in 0..(n - 1) /\ i < n - 1 /\ i \in 0..Len(t)
        BY <1>5, <1>9, <2>2
      <3>2. f[i] < f[n - 1]
        BY <1>6, <3>1
      <3>3. i \notin T
        BY <1>2, <1>9, <3>1
      <3>4. f[i] \in Nat
        BY <3>1, <3>3
      <3> HIDE DEF f
      <3> QED BY <1>6, <1>8, <3>2, <3>4
    <2> QED BY <2>1, <2>2
  <1> QED BY <1>3, <1>8, <1>9

\* A boundary is the place of one character, and the place of a character is a
\* boundary.
LEMMA CharsToFacts ==
    ASSUME NEW t \in Seq(Chars)
    PROVE  /\ \A b \in Boundaries(t) : /\ CharsTo(t, b) \in 0..Len(t)
                                       /\ Offsets(t)[CharsTo(t, b)] = b
                                       /\ b \in Nat
           /\ \A k \in 0..Len(t) : /\ Offsets(t)[k] \in Boundaries(t)
                                   /\ CharsTo(t, Offsets(t)[k]) = k
  <1>1. \A i \in 0..Len(t) : Offsets(t)[i] \in Nat
    BY OffsetsGrow
  <1>2. \A i, j \in 0..Len(t) : i < j => Offsets(t)[i] < Offsets(t)[j]
    BY OffsetsGrow
  <1>3. ASSUME NEW b \in Boundaries(t)
        PROVE  CharsTo(t, b) \in 0..Len(t) /\ Offsets(t)[CharsTo(t, b)] = b /\ b \in Nat
    <2>1. \E i \in 0..Len(t) : Offsets(t)[i] = b
      BY DEF Boundaries
    <2> QED BY <1>1, <2>1 DEF CharsTo
  <1>4. ASSUME NEW k \in 0..Len(t)
        PROVE  Offsets(t)[k] \in Boundaries(t) /\ CharsTo(t, Offsets(t)[k]) = k
    <2>1. Offsets(t)[k] \in Boundaries(t)
      BY DEF Boundaries
    <2> DEFINE j == CharsTo(t, Offsets(t)[k])
    <2>2. j \in 0..Len(t) /\ Offsets(t)[j] = Offsets(t)[k]
      BY <1>3, <2>1
    <2> HIDE DEF j
    <2>3. Len(t) \in Nat
      OBVIOUS
    <2>4. ~(j < k) /\ ~(k < j)
      BY <1>1, <1>2, <2>2
    <2>5. j = k
      BY <2>2, <2>3, <2>4
    <2> QED BY <2>1, <2>5 DEF j
  <1> QED BY <1>3, <1>4

\* The last position before, and the first one after, a place in a text.
LEMMA SearchFacts ==
    ASSUME NEW t \in Seq(Chars), NEW k \in 0..Len(t), NEW S
    PROVE  /\ LastOf(t, k, S) \in 0..k
           /\ FirstOf(t, k, S) \in (k + 1)..(Len(t) + 1)
  <1> DEFINE back == {0} \union {i \in 1..k : t[i] \in S}
             forth == {Len(t) + 1} \union {i \in (k + 1)..Len(t) : t[i] \in S}
  <1>1. Len(t) \in Nat
    OBVIOUS
  <1>2. back \in SUBSET Nat /\ back # {} /\ back \subseteq 0..k /\ k \in Nat
    BY <1>1
  <1>3. forth \in SUBSET Nat /\ forth # {} /\ forth \subseteq (k + 1)..(Len(t) + 1)
    BY <1>1
  <1>4. LastOf(t, k, S) = Max(back) /\ FirstOf(t, k, S) = Min(forth)
    BY DEF LastOf, FirstOf
  <1> HIDE DEF back, forth
  <1>5. Max(back) \in back
    <2>1. \A n \in back : n <= k
      BY <1>2
    <2> QED BY <1>2, <2>1, MaxFacts
  <1>6. Min(forth) \in forth
    BY <1>3, MinFacts
  <1> QED BY <1>2, <1>3, <1>4, <1>5, <1>6

-----------------------------------------------------------------------------
(***************************************************************************)
(* What a handler makes of the prompt.                                     *)
(***************************************************************************)

\* The cursor is before some character, or at the end.
LEMMA BeforeFacts ==
    ASSUME NEW p, PromptOK(p)
    PROVE  /\ p.input \in Seq(Chars) /\ Len(p.input) \in Nat
           /\ Before(p) \in 0..Len(p.input) /\ Before(p) \in Nat
           /\ Offsets(p.input)[Before(p)] = p.cursor
  <1>1. p.input \in Seq(Chars) /\ p.cursor \in Boundaries(p.input)
    BY DEF PromptOK, PromptState
  <1>2. CharsTo(p.input, p.cursor) \in 0..Len(p.input)
        /\ Offsets(p.input)[CharsTo(p.input, p.cursor)] = p.cursor
    BY <1>1, CharsToFacts
  <1> QED BY <1>1, <1>2 DEF Before

\* What every handler keeps: the popup's list, a highlighted line that is in it,
\* and the draft while the history is on screen.
Continues(p, q) ==
    /\ PromptOK(q)
    /\ q.cache = p.cache
    /\ q.selected # p.selected /\ q.selected # 0 => q.selected < Count(p)
    /\ q.index # 0 => q.draft = IF p.index = 0 THEN p.input ELSE p.draft

\* A handler that leaves the history or stays where it is in it.
LEMMA Continuing ==
    ASSUME NEW p, NEW q, PromptOK(p), PromptOK(q), q.cache = p.cache,
           q.selected \in {0, p.selected},
           q.index = 0 \/ (p.index # 0 /\ q.index # 0 /\ q.draft = p.draft)
    PROVE  Continues(p, q)
  BY DEF Continues

\* Moving the cursor changes nothing else.
LEMMA MovedToOK ==
    ASSUME NEW p, PromptOK(p), NEW k \in 0..Len(p.input)
    PROVE  /\ PromptOK(MovedTo(p, k)) /\ Continues(p, MovedTo(p, k))
           /\ MovedTo(p, k).index = p.index
  <1>1. p \in PromptState
    BY DEF PromptOK
  <1>2. Offsets(p.input)[k] \in Boundaries(p.input) /\ Offsets(p.input)[k] \in Nat
    BY BeforeFacts, CharsToFacts
  <1> DEFINE at == Offsets(p.input)[k]
             q == [p EXCEPT !.cursor = at]
  <1>3. MovedTo(p, k) = q
    BY DEF MovedTo
  <1> HIDE DEF at
  <1>4. q \in PromptState
    BY <1>1, <1>2 DEF PromptState, at
  <1>5. /\ q.input = p.input /\ q.cursor = at /\ q.history = p.history /\ q.index = p.index
        /\ q.draft = p.draft /\ q.undo = p.undo /\ q.selected = p.selected /\ q.cache = p.cache
    BY <1>1 DEF PromptState
  <1> HIDE DEF q
  <1>6. PromptOK(q)
    BY <1>2, <1>4, <1>5 DEF PromptOK, at
  <1> QED BY <1>3, <1>5, <1>6, Continuing

\* Nothing at all is changed.
LEMMA UnchangedOK == ASSUME NEW p, PromptOK(p) PROVE Continues(p, p)
  BY Continuing

\* Every motion is one to some character.
LEMMA MotionOK ==
    ASSUME NEW p, PromptOK(p),
           NEW q \in {Left(p), Right(p), Up(p), Down(p), WordLeft(p), WordRight(p),
                      LineStart(p), LineEnd(p)}
    PROVE  Continues(p, q) /\ q.index = p.index
  <1> DEFINE t == p.input
             k == Before(p)
  <1>1. t \in Seq(Chars) /\ Len(t) \in Nat /\ k \in 0..Len(t) /\ k \in Nat
    BY BeforeFacts
  <1>2. SUFFICES q = p \/ \E n \in 0..Len(t) : q = MovedTo(p, n)
    BY UnchangedOK, MovedToOK
  <1>3. \A S : LastOf(t, k, S) \in 0..k /\ FirstOf(t, k, S) \in (k + 1)..(Len(t) + 1)
    BY <1>1, SearchFacts
  <1>4. CASE q = Left(p) \/ q = Right(p)
    BY <1>1, <1>4 DEF Left, Right
  <1>5. CASE q = Up(p)
    <2> DEFINE start == LastOf(t, k, {"nl"})
               above == LastOf(t, start - 1, {"nl"})
               column == Column(t, k)
    <2>1. CASE start = 0
      BY <1>5, <2>1 DEF Up
    <2>2. CASE start # 0
      <3>1. start \in 1..k /\ start - 1 \in 0..Len(t)
        BY <1>1, <1>3, <2>2
      <3>2. above \in 0..(start - 1)
        BY <1>1, <3>1, SearchFacts
      <3>3. column \in Nat
        BY <1>1, <3>1 DEF Column
      <3>4. q = MovedTo(p, Min({above + column, start - 1}))
        BY <1>5, <2>2 DEF Up, AtColumn
      <3> HIDE DEF column, start, above
      <3>5. above + column \in Nat /\ start - 1 \in Nat
        BY <1>1, <3>1, <3>2, <3>3
      <3> DEFINE n == Min({above + column, start - 1})
      <3>6. n \in Nat /\ n <= start - 1
        BY <3>5, MinOfTwo
      <3> HIDE DEF n
      <3>7. n \in 0..Len(t)
        BY <1>1, <3>1, <3>6
      <3> QED BY <3>4, <3>7 DEF n
    <2> QED BY <2>1, <2>2
  <1>6. CASE q = Down(p)
    <2> DEFINE end == FirstOf(t, k, {"nl"})
               next == FirstOf(t, end, {"nl"})
               column == Column(t, k)
    <2>1. CASE end > Len(t)
      BY <1>6, <2>1 DEF Down
    <2>2. CASE ~(end > Len(t))
      <3>1. end \in (k + 1)..Len(t) /\ end \in 0..Len(t)
        BY <1>1, <1>3, <2>2
      <3>2. next \in (end + 1)..(Len(t) + 1)
        BY <1>1, <3>1, SearchFacts
      <3>3. column \in Nat
        BY <1>1, <1>3 DEF Column
      <3>4. q = MovedTo(p, Min({end + column, next - 1}))
        BY <1>6, <2>2 DEF Down, AtColumn
      <3> HIDE DEF column, end, next
      <3>5. end + column \in Nat /\ next - 1 \in Nat
        BY <1>1, <3>1, <3>2, <3>3
      <3> DEFINE n == Min({end + column, next - 1})
      <3>6. n \in Nat /\ n <= next - 1
        BY <3>5, MinOfTwo
      <3> HIDE DEF n
      <3>7. n \in 0..Len(t)
        BY <1>1, <3>1, <3>2, <3>6
      <3> QED BY <3>4, <3>7 DEF n
    <2> QED BY <2>1, <2>2
  <1>7. CASE q = WordLeft(p)
    <2> DEFINE trimmed == LastOf(t, k, Chars \ Spaces)
    <2>1. trimmed \in 0..Len(t)
      BY <1>1, <1>3
    <2>2. LastOf(t, trimmed, Spaces) \in 0..Len(t)
      <3> HIDE DEF trimmed
      <3>1. LastOf(t, trimmed, Spaces) \in 0..trimmed
        BY <1>1, <2>1, SearchFacts
      <3> QED BY <1>1, <2>1, <3>1
    <2> QED BY <1>7, <2>2 DEF WordLeft
  <1>8. CASE q = WordRight(p)
    <2> DEFINE wordEnd == FirstOf(t, k, Spaces) - 1
    <2>1. wordEnd \in 0..Len(t)
      BY <1>1, <1>3
    <2>2. FirstOf(t, wordEnd, Chars \ Spaces) - 1 \in 0..Len(t)
      <3> HIDE DEF wordEnd
      <3>1. FirstOf(t, wordEnd, Chars \ Spaces) \in (wordEnd + 1)..(Len(t) + 1)
        BY <1>1, <2>1, SearchFacts
      <3> QED BY <1>1, <2>1, <3>1
    <2> QED BY <1>8, <2>2 DEF WordRight
  <1>9. CASE q = LineStart(p)
    <2>1. LastOf(t, k, {"nl"}) \in 0..Len(t)
      BY <1>1, <1>3
    <2> QED BY <1>9, <2>1 DEF LineStart
  <1>10. CASE q = LineEnd(p)
    <2>1. FirstOf(t, k, {"nl"}) - 1 \in 0..Len(t)
      BY <1>1, <1>3
    <2> QED BY <1>10, <2>1 DEF LineEnd
  <1> QED BY <1>4, <1>5, <1>6, <1>7, <1>8, <1>9, <1>10

\* A part of a text gives way to another text, and the cursor goes behind that.
LEMMA ReplacedOK ==
    ASSUME NEW p, PromptOK(p), NEW k \in 0..Len(p.input), NEW e \in k..Len(p.input),
           NEW t \in Seq(Chars)
    PROVE  /\ PromptOK(Replaced(p, k, e, t)) /\ Continues(p, Replaced(p, k, e, t))
           /\ Replaced(p, k, e, t).index = 0 /\ Replaced(p, k, e, t).cache = p.cache
           /\ Replaced(p, k, e, t).selected = p.selected
           /\ Len(Replaced(p, k, e, t).input) = (Len(p.input) - (e - k)) + Len(t)
           /\ Before(Replaced(p, k, e, t)) = k + Len(t)
  <1> DEFINE first == SubSeq(p.input, 1, k)
             last == SubSeq(p.input, e + 1, Len(p.input))
             input == first \o t \o last
  <1>1. p \in PromptState /\ p.input \in Seq(Chars) /\ Len(p.input) \in Nat
    BY DEF PromptOK, PromptState
  <1>2. k \in Nat /\ e \in Nat /\ k <= e /\ e <= Len(p.input)
    BY <1>1
  <1>3. first \in Seq(Chars) /\ Len(first) = k
    <2>1. \A i \in 1..k : p.input[i] \in Chars
      BY <1>1, <1>2
    <2> QED BY <1>1, <1>2, <2>1, SubSeqProperties
  <1>4. last \in Seq(Chars) /\ Len(last) = Len(p.input) - e
    <2>1. \A i \in (e + 1)..Len(p.input) : p.input[i] \in Chars
      BY <1>1, <1>2
    <2>2. last \in Seq(Chars)
      BY <1>1, <1>2, <2>1, SubSeqProperties
    <2>3. Len(last) = IF e + 1 <= Len(p.input) THEN Len(p.input) - (e + 1) + 1 ELSE 0
      BY <1>1, <1>2, <2>1, SubSeqProperties
    <2> QED BY <1>1, <1>2, <2>2, <2>3
  <1>5. Len(t) \in Nat
    OBVIOUS
  <1> HIDE DEF first, last
  <1>6. input \in Seq(Chars) /\ Len(input) = k + Len(t) + (Len(p.input) - e)
    <2> DEFINE head == first \o t
    <2>1. head \in Seq(Chars) /\ Len(head) = k + Len(t)
      BY <1>3, ConcatProperties
    <2>2. input = head \o last
      OBVIOUS
    <2> HIDE DEF head, input
    <2>3. input \in Seq(Chars) /\ Len(input) = Len(head) + Len(last)
      BY <1>4, <2>1, <2>2, ConcatProperties
    <2> QED BY <1>4, <2>1, <2>3
  <1> DEFINE at == Offsets(input)[k + Len(t)]
             undo == [on |-> TRUE, input |-> p.input, cursor |-> p.cursor]
             q == [p EXCEPT !.undo = undo, !.index = 0, !.draft = <<>>,
                            !.input = input, !.cursor = at]
  <1>7. Replaced(p, k, e, t) = q
    BY DEF Replaced, Remembered, first, last
  <1> HIDE DEF input
  <1>8. k + Len(t) \in 0..Len(input)
    BY <1>1, <1>2, <1>5, <1>6
  <1>9. at \in Boundaries(input) /\ at \in Nat /\ CharsTo(input, at) = k + Len(t)
    BY <1>6, <1>8, CharsToFacts
  <1>10. undo \in UndoState /\ undo.input = p.input /\ undo.cursor = p.cursor
    BY <1>1 DEF UndoState, PromptState
  <1> HIDE DEF at, undo
  <1>11. <<>> \in Seq(Chars)
    OBVIOUS
  <1>12. q \in PromptState
    BY <1>1, <1>6, <1>9, <1>10, <1>11 DEF PromptState
  <1>13. /\ q.input = input /\ q.cursor = at /\ q.history = p.history /\ q.index = 0
         /\ q.undo = undo /\ q.selected = p.selected /\ q.cache = p.cache
    BY <1>1 DEF PromptState
  <1> HIDE DEF q
  <1>14. p.cursor \in Boundaries(p.input)
    BY DEF PromptOK
  <1>15. p.history \in Seq(Seq(Chars))
    BY <1>1 DEF PromptState
  <1>16. PromptOK(q)
    BY <1>9, <1>10, <1>12, <1>13, <1>14, <1>15 DEF PromptOK
  <1>17. Before(q) = k + Len(t)
    BY <1>9, <1>13 DEF Before
  <1>18. Len(q.input) = (Len(p.input) - (e - k)) + Len(t)
    <2>1. Len(q.input) = Len(input)
      BY <1>13
    <2> HIDE DEF at, undo
    <2> DEFINE m == Len(t)
               n == Len(p.input)
    <2>2. m \in Nat /\ n \in Nat /\ k \in Nat /\ e \in Nat
      BY <1>1, <1>2, <1>5
    <2>3. Len(input) = k + m + (n - e)
      BY <1>6
    <2> HIDE DEF m, n
    <2>4. Len(input) = (n - (e - k)) + m
      BY <2>2, <2>3
    <2>5. Len(q.input) = (n - (e - k)) + m
      BY <2>1, <2>4
    <2> QED BY <2>5 DEF m, n
  <1>19. Continues(p, q)
    BY <1>13, <1>16, Continuing
  <1> QED BY <1>7, <1>13, <1>16, <1>17, <1>18, <1>19

\* So it is when characters are inserted, one after the other.
LEMMA InsertOK ==
    ASSUME NEW p, PromptOK(p), NEW c \in Chars
    PROVE  Continues(p, Insert(p, c)) /\ Insert(p, c).cache = p.cache /\ Insert(p, c).index = 0
  <1> DEFINE r == Replaced(p, Before(p), Before(p), <<c>>)
             q == [r EXCEPT !.selected = 0]
  <1>1. Before(p) \in 0..Len(p.input) /\ Before(p) \in Before(p)..Len(p.input)
    BY BeforeFacts
  <1>2. <<c>> \in Seq(Chars)
    OBVIOUS
  <1>3. PromptOK(r) /\ r.index = 0 /\ r.cache = p.cache
    BY <1>1, <1>2, ReplacedOK
  <1>4. Insert(p, c) = q
    BY DEF Insert
  <1> HIDE DEF r
  <1>5. PromptOK(q) /\ q.index = 0 /\ q.cache = p.cache /\ q.selected = 0
    BY <1>3 DEF PromptOK, PromptState
  <1> HIDE DEF q
  <1>6. Continues(p, q)
    BY <1>5, Continuing
  <1> QED BY <1>4, <1>5, <1>6

\* A paste inserts its characters.
LEMMA InsertAllOK ==
    ASSUME NEW p, PromptOK(p), NEW t \in Seq(Chars)
    PROVE  Continues(p, InsertAll(p, t))
  <1>1. CASE t = <<>>
    BY <1>1, UnchangedOK DEF InsertAll
  <1>2. CASE t # <<>>
    <2> DEFINE r == Replaced(p, Before(p), Before(p), Front(t))
    <2>1. Front(t) \in Seq(Chars) /\ Last(t) \in Chars
      <3>1. Len(t) \in Nat /\ Len(t) # 0
        BY <1>2, EmptySeq
      <3>2. \A i \in 1..Len(t) : t[i] \in Chars
        OBVIOUS
      <3>3. \A i \in 1..(Len(t) - 1) : t[i] \in Chars
        BY <3>1, <3>2
      <3>4. SubSeq(t, 1, Len(t) - 1) \in Seq(Chars)
        BY <3>1, <3>3, SubSeqProperties
      <3> QED BY <3>1, <3>2, <3>4 DEF Front, Last
    <2>2. Before(p) \in 0..Len(p.input) /\ Before(p) \in Before(p)..Len(p.input)
      BY BeforeFacts
    <2>3. PromptOK(r) /\ r.index = 0 /\ r.cache = p.cache /\ r.selected = p.selected
      BY <2>1, <2>2, ReplacedOK
    <2>4. InsertAll(p, t) = Insert(r, Last(t))
      BY <1>2 DEF InsertAll
    <2> HIDE DEF r
    <2> DEFINE q == Insert(r, Last(t))
    <2>5. Continues(r, q) /\ q.cache = r.cache /\ q.index = 0
      BY <2>1, <2>3, InsertOK
    <2>6. Count(r) = Count(p)
      BY <2>3 DEF Count
    <2> HIDE DEF q
    <2>7. Continues(p, q)
      BY <2>3, <2>5, <2>6 DEF Continues
    <2> QED BY <2>4, <2>7 DEF q
  <1> QED BY <1>1, <1>2

-----------------------------------------------------------------------------
(***************************************************************************)
(* References.  The scan of a text goes on behind each one that it finds.  *)
(***************************************************************************)

\* The position of the last character of the reference that begins at i, and
\* the ranges from i on.
RangeEnd(t, i) ==
    IF i < Len(t) /\ t[i + 1] = "open" THEN FirstOf(t, i + 1, {"close"}) ELSE FirstOf(t, i, Spaces) - 1
RangesFrom(t, f, i) ==
    IF i > Len(t) THEN {}
    ELSE IF t[i] # "at" THEN f[i + 1]
    ELSE IF RangeEnd(t, i) > Len(t) THEN {}
    ELSE {<<i - 1, RangeEnd(t, i)>>} \union f[RangeEnd(t, i) + 1]

\* A reference ends where it begins or later.
LEMMA RangeEndFacts ==
    ASSUME NEW t \in Seq(Chars), NEW i \in 1..Len(t)
    PROVE  RangeEnd(t, i) \in i..(Len(t) + 1)
  <1>1. Len(t) \in Nat /\ i \in 0..Len(t)
    OBVIOUS
  <1>2. CASE i < Len(t) /\ t[i + 1] = "open"
    <2>1. i + 1 \in 0..Len(t)
      BY <1>1, <1>2
    <2>2. FirstOf(t, i + 1, {"close"}) \in ((i + 1) + 1)..(Len(t) + 1)
      BY <2>1, SearchFacts
    <2>3. RangeEnd(t, i) = FirstOf(t, i + 1, {"close"})
      BY <1>2 DEF RangeEnd
    <2> QED BY <1>1, <2>2, <2>3
  <1>3. CASE ~(i < Len(t) /\ t[i + 1] = "open")
    <2>1. FirstOf(t, i, Spaces) \in (i + 1)..(Len(t) + 1)
      BY <1>1, SearchFacts
    <2>2. RangeEnd(t, i) = FirstOf(t, i, Spaces) - 1
      BY <1>3 DEF RangeEnd
    <2> QED BY <1>1, <2>1, <2>2
  <1> QED BY <1>2, <1>3

\* f holds the ranges of the last n positions of t, and of its end.
Scanning(t, f, n) ==
    f = [i \in (Len(t) + 1 - n)..(Len(t) + 1) |-> RangesFrom(t, f, i)]

\* Every text can be scanned.
LEMMA ScanningExists ==
    ASSUME NEW t \in Seq(Chars)
    PROVE  \E f : Scanning(t, f, Len(t))
  <1> DEFINE N == Len(t)
             T == {n \in 0..N : ~\E f : Scanning(t, f, n)}
  <1>0. N \in Nat
    OBVIOUS
  <1>1. SUFFICES ASSUME T # {} PROVE FALSE
    <2>1. T = {}
      OBVIOUS
    <2>2. N \in 0..N
      BY <1>0
    <2> QED BY <2>1, <2>2
  <1>2. PICK n \in T : \A m \in T : n <= m
    <2>1. T \in SUBSET Nat
      OBVIOUS
    <2> HIDE DEF T
    <2> QED BY <1>1, <2>1, LeastNumber
  <1>3. n # 0
    <2>1. ASSUME n = 0 PROVE FALSE
      <3> DEFINE g == [i \in (N + 1 - 0)..(N + 1) |-> {}]
      <3>1. \A i \in (N + 1 - 0)..(N + 1) : RangesFrom(t, g, i) = {}
        BY <1>0 DEF RangesFrom
      <3>2. g = [i \in (N + 1 - 0)..(N + 1) |-> RangesFrom(t, g, i)]
        BY <3>1
      <3> HIDE DEF g
      <3>3. Scanning(t, g, 0)
        BY <3>2 DEF Scanning
      <3> QED BY <1>2, <2>1, <3>3
    <2> QED BY <2>1
  <1>4. n \in Nat /\ n \in 1..N /\ n - 1 \in 0..N /\ ~(n <= n - 1)
    BY <1>2, <1>3
  <1>5. PICK g : Scanning(t, g, n - 1)
    BY <1>2, <1>4
  <1> DEFINE h == [i \in (N + 1 - n)..(N + 1) |-> RangesFrom(t, g, i)]
             old == (N + 1 - (n - 1))..(N + 1)
  <1>6. \A i \in old : g[i] = h[i] /\ i \in (N + 1 - n)..(N + 1)
    <2>1. SUFFICES ASSUME NEW i \in old PROVE g[i] = h[i] /\ i \in (N + 1 - n)..(N + 1)
      OBVIOUS
    <2>2. i \in (N + 1 - n)..(N + 1)
      BY <1>0, <1>4
    <2>3. g = [k \in old |-> RangesFrom(t, g, k)]
      BY <1>5 DEF Scanning
    <2>4. g[i] = RangesFrom(t, g, i)
      BY <2>3
    <2> QED BY <2>2, <2>4
  <1>7. ASSUME NEW i \in (N + 1 - n)..(N + 1)
        PROVE  RangesFrom(t, g, i) = RangesFrom(t, h, i)
    <2>1. CASE i > N
      BY <2>1 DEF RangesFrom
    <2>2. CASE ~(i > N)
      <3>1. i \in 1..N /\ i \in Nat
        BY <1>0, <1>4, <2>2
      <3>2. i + 1 \in old
        BY <1>0, <1>4, <3>1
      <3>3. RangeEnd(t, i) \in i..(N + 1)
        BY <3>1, RangeEndFacts
      <3>4. ~(RangeEnd(t, i) > N) => RangeEnd(t, i) + 1 \in old
        BY <1>0, <1>4, <3>1, <3>3
      <3>5. h[i + 1] = g[i + 1]
        BY <1>6, <3>2
      <3>6. ~(RangeEnd(t, i) > N) => h[RangeEnd(t, i) + 1] = g[RangeEnd(t, i) + 1]
        BY <1>6, <3>4
      <3> HIDE DEF h, old
      <3> QED BY <3>5, <3>6 DEF RangesFrom
    <2> QED BY <2>1, <2>2
  <1>8. Scanning(t, h, n)
    <2>1. h = [i \in (N + 1 - n)..(N + 1) |-> RangesFrom(t, h, i)]
      BY <1>7
    <2> HIDE DEF h
    <2> QED BY <2>1 DEF Scanning
  <1>9. n \in 0..N /\ ~\E f : Scanning(t, f, n)
    BY <1>2
  <1> QED BY <1>8, <1>9

\* Ranges of a text of n characters that begin behind the first k and are apart.
Apart(ranges, k, n) ==
    /\ \A r \in ranges : /\ r[1] \in Nat /\ r[2] \in Nat
                         /\ k <= r[1] /\ r[1] < r[2] /\ r[2] <= n
    /\ \A r, q \in ranges : r = q \/ r[2] <= q[1] \/ q[2] <= r[1]

\* The references of a text are apart.
LEMMA ReferencesApart ==
    ASSUME NEW t \in Seq(Chars)
    PROVE  Apart(ReferenceRanges(t), 0, Len(t))
  <1> DEFINE N == Len(t)
             f == CHOOSE f : f = [i \in 1..(N + 1) |-> RangesFrom(t, f, i)]
             T == {m \in 0..N : ~Apart(f[N + 1 - m], N - m, N)}
  <1>0. N \in Nat
    OBVIOUS
  <1>1. ReferenceRanges(t) = f[1]
    BY DEF ReferenceRanges, RangesFrom, RangeEnd
  <1>2. f = [i \in 1..(N + 1) |-> RangesFrom(t, f, i)]
    <2>1. N + 1 - N = 1
      BY <1>0
    <2>2. \E g : g = [i \in 1..(N + 1) |-> RangesFrom(t, g, i)]
      BY <2>1, ScanningExists DEF Scanning
    <2> QED BY <2>2
  <1> HIDE DEF f
  <1>3. \A i \in 1..(N + 1) : f[i] = RangesFrom(t, f, i)
    BY <1>2
  <1>4. SUFFICES ASSUME T # {} PROVE FALSE
    <2>1. N \in 0..N /\ N + 1 - N = 1 /\ N - N = 0
      BY <1>0
    <2>2. Apart(f[N + 1 - N], N - N, N)
      BY <2>1
    <2> QED BY <1>1, <2>1, <2>2
  <1>5. PICK m \in T : \A k \in T : m <= k
    <2>1. T \in SUBSET Nat
      OBVIOUS
    <2> HIDE DEF T
    <2> QED BY <1>4, <2>1, LeastNumber
  <1> DEFINE i == N + 1 - m
  <1>6. m \in 0..N /\ ~Apart(f[i], N - m, N) /\ i \in 1..(N + 1) /\ N - m = i - 1
    BY <1>0, <1>5
  <1>7. ASSUME NEW j \in (i + 1)..(N + 1) PROVE Apart(f[j], j - 1, N)
    <2>1. N + 1 - j \in 0..N /\ ~(m <= N + 1 - j)
      BY <1>0, <1>6
    <2>2. N + 1 - j \notin T
      BY <1>5, <2>1
    <2>3. Apart(f[N + 1 - (N + 1 - j)], N - (N + 1 - j), N)
      BY <2>1, <2>2
    <2>4. N + 1 - (N + 1 - j) = j /\ N - (N + 1 - j) = j - 1
      BY <1>0, <1>6
    <2> QED BY <2>3, <2>4
  <1> HIDE DEF T
  <1>8. Apart(f[i], i - 1, N)
    <2>1. CASE i > N
      <3>1. f[i] = {}
        BY <1>3, <1>6, <2>1 DEF RangesFrom
      <3> QED BY <3>1 DEF Apart
    <2>2. CASE ~(i > N) /\ t[i] # "at"
      <3> HIDE DEF i
      <3>0. i + 1 \in (i + 1)..(N + 1) /\ i \in Nat
        BY <1>0, <1>6, <2>2
      <3>1. f[i] = f[i + 1] /\ i + 1 \in (i + 1)..(N + 1) /\ i \in Nat
        BY <1>3, <1>6, <2>2, <3>0 DEF RangesFrom
      <3>2. Apart(f[i + 1], (i + 1) - 1, N)
        BY <1>7, <3>1
      <3>3. (i + 1) - 1 = i /\ i - 1 <= i
        BY <3>0
      <3>4. ASSUME NEW r \in f[i]
            PROVE  /\ r[1] \in Nat /\ r[2] \in Nat
                   /\ i - 1 <= r[1] /\ r[1] < r[2] /\ r[2] <= N
        <4>1. r[1] \in Nat /\ r[2] \in Nat /\ i <= r[1] /\ r[1] < r[2] /\ r[2] <= N
          BY <3>1, <3>2, <3>3, <3>4 DEF Apart
        <4> QED BY <3>0, <4>1
      <3>5. \A r, q \in f[i] : r = q \/ r[2] <= q[1] \/ q[2] <= r[1]
        BY <3>1, <3>2 DEF Apart
      <3> QED BY <3>4, <3>5 DEF Apart
    <2>3. CASE ~(i > N) /\ t[i] = "at" /\ RangeEnd(t, i) > N
      <3>1. f[i] = {}
        BY <1>3, <1>6, <2>3 DEF RangesFrom
      <3> QED BY <3>1 DEF Apart
    <2>4. CASE ~(i > N) /\ t[i] = "at" /\ ~(RangeEnd(t, i) > N)
      <3> DEFINE e == RangeEnd(t, i)
                 first == <<i - 1, e>>
      <3>1. i \in 1..N /\ i \in Nat
        BY <1>0, <1>6, <2>4
      <3>2. e \in i..N
        BY <1>0, <2>4, <3>1, RangeEndFacts
      <3>3. f[i] = {first} \union f[e + 1]
        BY <1>3, <1>6, <2>4 DEF RangesFrom
      <3> HIDE DEF i, e
      <3>4. e + 1 \in (i + 1)..(N + 1) /\ e \in Nat /\ e + 1 - 1 = e /\ i <= e /\ e <= N
        BY <1>0, <3>1, <3>2
      <3>5. Apart(f[e + 1], e, N)
        BY <1>7, <3>4
      <3>6. first[1] = i - 1 /\ first[2] = e /\ i - 1 \in Nat /\ i - 1 < e
        BY <3>1, <3>4
      <3> HIDE DEF first
      <3>7. ASSUME NEW r \in f[i]
            PROVE  /\ r[1] \in Nat /\ r[2] \in Nat
                   /\ i - 1 <= r[1] /\ r[1] < r[2] /\ r[2] <= N
                   /\ r = first \/ (r \in f[e + 1] /\ e <= r[1])
        <4>1. CASE r = first
          BY <1>0, <3>1, <3>4, <3>6, <4>1
        <4>2. CASE r \in f[e + 1]
          <5>1. r[1] \in Nat /\ r[2] \in Nat /\ e <= r[1] /\ r[1] < r[2] /\ r[2] <= N
            BY <3>5, <4>2 DEF Apart
          <5> QED BY <3>1, <3>4, <4>2, <5>1
        <4> QED BY <3>3, <4>1, <4>2
      <3>8. ASSUME NEW r \in f[i], NEW q \in f[i] PROVE r = q \/ r[2] <= q[1] \/ q[2] <= r[1]
        <4>1. CASE r = first /\ q = first
          BY <4>1
        <4>2. CASE r = first /\ q # first
          BY <3>6, <3>7, <4>2
        <4>3. CASE r # first /\ q = first
          BY <3>6, <3>7, <4>3
        <4>4. CASE r # first /\ q # first
          <5>1. r \in f[e + 1] /\ q \in f[e + 1]
            BY <3>7, <4>4
          <5> QED BY <3>5, <5>1 DEF Apart
        <4> QED BY <4>1, <4>2, <4>3, <4>4
      <3> QED BY <3>7, <3>8 DEF Apart
    <2> QED BY <2>1, <2>2, <2>3, <2>4
  <1> QED BY <1>6, <1>8

-----------------------------------------------------------------------------
(***************************************************************************)
(* Deleting.                                                               *)
(***************************************************************************)

\* What Backspace and Delete make of the prompt: nothing, one character less
\* that is in no reference, or one reference less.
Deletes(p, q) ==
    \/ q = p
    \/ \E k \in 0..Len(p.input) : \E e \in k..Len(p.input) :
          /\ Before(q) = k
          /\ Len(q.input) = Len(p.input) - (e - k)
          /\ \/ \E r \in ReferenceRanges(p.input) : r[1] = k /\ r[2] = e
             \/ /\ e = k + 1
                /\ \A r \in ReferenceRanges(p.input) :
                      PathIn(SubSeq(p.input, r[1] + 1, r[2])) \in ToSet(files) =>
                          e <= r[1] \/ r[2] <= k

\* A text in which some characters give way to nothing.
LEMMA RemovedOK ==
    ASSUME NEW p, PromptOK(p), NEW k \in 0..Len(p.input), NEW e \in k..Len(p.input)
    PROVE  /\ PromptOK(Replaced(p, k, e, <<>>)) /\ Continues(p, Replaced(p, k, e, <<>>))
           /\ Replaced(p, k, e, <<>>).index = 0 /\ Replaced(p, k, e, <<>>).cache = p.cache
           /\ Len(Replaced(p, k, e, <<>>).input) = Len(p.input) - (e - k)
           /\ Before(Replaced(p, k, e, <<>>)) = k
  <1> DEFINE none == <<>>
             q == Replaced(p, k, e, none)
  <1>1. none \in Seq(Chars) /\ Len(none) = 0
    OBVIOUS
  <1>2. Len(p.input) \in Nat /\ k \in Nat /\ e \in Nat
    BY BeforeFacts
  <1> HIDE DEF none
  <1>3. /\ PromptOK(q) /\ Continues(p, q) /\ q.index = 0 /\ q.cache = p.cache
        /\ Len(q.input) = (Len(p.input) - (e - k)) + Len(none)
        /\ Before(q) = k + Len(none)
    <2>1. PromptOK(q) /\ Continues(p, q) /\ q.index = 0 /\ q.cache = p.cache
      BY <1>1, ReplacedOK
    <2>2. Before(q) = k + Len(none)
      BY <1>1, ReplacedOK
    <2>3. Len(q.input) = (Len(p.input) - (e - k)) + Len(none)
      <3>1. \A x \in Seq(Chars) : Len(Replaced(p, k, e, x).input) = (Len(p.input) - (e - k)) + Len(x)
        BY ReplacedOK
      <3> QED BY <1>1, <3>1, Zenon
    <2> QED BY <2>1, <2>2, <2>3
  <1>4. k + 0 = k /\ (Len(p.input) - (e - k)) + 0 = Len(p.input) - (e - k)
    BY <1>2
  <1>5. Len(q.input) = Len(p.input) - (e - k) /\ Before(q) = k
    <2> HIDE DEF q
    <2> QED BY <1>1, <1>3, <1>4
  <1> QED BY <1>3, <1>5 DEF none

\* A reference beside the cursor goes as a whole.
LEMMA WithoutReferenceOK ==
    ASSUME NEW p, PromptOK(p), NEW backwards \in BOOLEAN, ReferencesAt(p, backwards) # {}
    PROVE  /\ Continues(p, WithoutReference(p, backwards))
           /\ Deletes(p, WithoutReference(p, backwards))
  <1> DEFINE r == CHOOSE r \in ReferencesAt(p, backwards) : TRUE
  <1>1. r \in ReferenceRanges(p.input)
    BY DEF ReferencesAt
  <1>2. p.input \in Seq(Chars) /\ Len(p.input) \in Nat
    BY BeforeFacts
  <1>3. /\ r[1] \in Nat /\ r[2] \in Nat /\ r[1] < r[2] /\ r[2] <= Len(p.input)
    BY <1>1, <1>2, ReferencesApart DEF Apart
  <1> DEFINE s == Replaced(p, r[1], r[2], <<>>)
             q == [s EXCEPT !.selected = 0]
  <1>4. WithoutReference(p, backwards) = q
    BY DEF WithoutReference
  <1> HIDE DEF r
  <1>5. r[1] \in 0..Len(p.input) /\ r[2] \in r[1]..Len(p.input)
    BY <1>2, <1>3
  <1>6. /\ PromptOK(s) /\ s.index = 0 /\ s.cache = p.cache
        /\ Len(s.input) = Len(p.input) - (r[2] - r[1]) /\ Before(s) = r[1]
    BY <1>5, RemovedOK
  <1> HIDE DEF s
  <1>7. /\ PromptOK(q) /\ q.index = 0 /\ q.cache = p.cache /\ q.selected = 0
        /\ q.input = s.input /\ q.cursor = s.cursor
    BY <1>6 DEF PromptOK, PromptState
  <1> HIDE DEF q
  <1>8. Continues(p, q)
    BY <1>7, Continuing
  <1>9. Before(q) = r[1] /\ Len(q.input) = Len(p.input) - (r[2] - r[1])
    BY <1>6, <1>7 DEF Before
  <1>10. Deletes(p, q)
    BY <1>1, <1>5, <1>9 DEF Deletes
  <1> QED BY <1>4, <1>8, <1>10

\* Backspace, Delete and the deletion of a line.
LEMMA DeletionOK ==
    ASSUME NEW p, PromptOK(p)
    PROVE  /\ Continues(p, Backspace(p)) /\ Deletes(p, Backspace(p))
           /\ Continues(p, Delete(p)) /\ Deletes(p, Delete(p))
           /\ Continues(p, DeleteLine(p))
  <1> DEFINE t == p.input
             b == Before(p)
  <1>1. t \in Seq(Chars) /\ Len(t) \in Nat /\ b \in 0..Len(t) /\ b \in Nat
    BY BeforeFacts
  <1>2. \A r \in ReferenceRanges(t) : r[1] \in Nat /\ r[2] \in Nat /\ r[1] < r[2] /\ r[2] <= Len(t)
    BY <1>1, ReferencesApart DEF Apart
  <1>3. Continues(p, p) /\ Deletes(p, p)
    BY UnchangedOK DEF Deletes
  <1>4. Continues(p, Backspace(p)) /\ Deletes(p, Backspace(p))
    <2>1. CASE ReferencesAt(p, TRUE) # {}
      BY <2>1, WithoutReferenceOK DEF Backspace
    <2>2. CASE ReferencesAt(p, TRUE) = {} /\ b = 0
      BY <1>3, <2>2 DEF Backspace
    <2>3. CASE ReferencesAt(p, TRUE) = {} /\ b # 0
      <3> DEFINE q == Replaced(p, b - 1, b, <<>>)
      <3>1. Backspace(p) = q
        BY <2>3 DEF Backspace
      <3>2. b - 1 \in 0..Len(t) /\ b \in (b - 1)..Len(t) /\ b = (b - 1) + 1
        BY <1>1, <2>3
      <3>3. Continues(p, q) /\ Len(q.input) = Len(t) - (b - (b - 1)) /\ Before(q) = b - 1
        BY <3>2, RemovedOK
      <3>4. ASSUME NEW r \in ReferenceRanges(t), PathIn(SubSeq(t, r[1] + 1, r[2])) \in ToSet(files)
            PROVE  b <= r[1] \/ r[2] <= b - 1
        <4>1. r \notin ReferencesAt(p, TRUE)
          BY <2>3
        <4>2. ~(r[1] < b + 0 /\ b < r[2] + 1)
          BY <3>4, <4>1 DEF ReferencesAt
        <4>3. r[1] \in Nat /\ r[2] \in Nat
          BY <1>2
        <4> QED BY <1>1, <4>2, <4>3
      <3> HIDE DEF q, b
      <3>5. Deletes(p, q)
        BY <3>2, <3>3, <3>4 DEF Deletes
      <3> QED BY <3>1, <3>3, <3>5
    <2> QED BY <2>1, <2>2, <2>3
  <1>5. Continues(p, Delete(p)) /\ Deletes(p, Delete(p))
    <2>1. CASE ReferencesAt(p, FALSE) # {}
      BY <2>1, WithoutReferenceOK DEF Delete
    <2>2. CASE ReferencesAt(p, FALSE) = {} /\ b = Len(t)
      BY <1>3, <2>2 DEF Delete
    <2>3. CASE ReferencesAt(p, FALSE) = {} /\ b # Len(t)
      <3> DEFINE q == Replaced(p, b, b + 1, <<>>)
      <3>1. Delete(p) = q
        BY <2>3 DEF Delete
      <3>2. b + 1 \in b..Len(t)
        BY <1>1, <2>3
      <3>3. Continues(p, q) /\ Len(q.input) = Len(t) - ((b + 1) - b) /\ Before(q) = b
        BY <1>1, <3>2, RemovedOK
      <3>4. ASSUME NEW r \in ReferenceRanges(t), PathIn(SubSeq(t, r[1] + 1, r[2])) \in ToSet(files)
            PROVE  b + 1 <= r[1] \/ r[2] <= b
        <4>1. r \notin ReferencesAt(p, FALSE)
          BY <2>3
        <4>2. ~(r[1] < b + 1 /\ b < r[2] + 0)
          BY <3>4, <4>1 DEF ReferencesAt
        <4>3. r[1] \in Nat /\ r[2] \in Nat
          BY <1>2
        <4> QED BY <1>1, <4>2, <4>3
      <3> HIDE DEF q, b
      <3>5. Deletes(p, q)
        BY <1>1, <3>2, <3>3, <3>4 DEF Deletes
      <3> QED BY <3>1, <3>3, <3>5
    <2> QED BY <2>1, <2>2, <2>3
  <1>6. Continues(p, DeleteLine(p))
    <2>1. CASE t = <<>>
      BY <1>3, <2>1 DEF DeleteLine
    <2>2. CASE t # <<>>
      <3> DEFINE start == LastOf(t, b, {"nl"})
                 after == FirstOf(t, b, {"nl"})
                 end == Min({after, Len(t)})
      <3>1. start \in 0..b /\ after \in (b + 1)..(Len(t) + 1)
        BY <1>1, SearchFacts
      <3>2. DeleteLine(p) = Replaced(p, start, end, <<>>)
        BY <2>2 DEF DeleteLine
      <3> HIDE DEF start, after
      <3>3. end \in Nat /\ end <= Len(t) /\ (end = after \/ end = Len(t))
        BY <1>1, <3>1, MinOfTwo
      <3> HIDE DEF end
      <3>4. start \in 0..Len(t) /\ end \in start..Len(t)
        BY <1>1, <3>1, <3>3
      <3> QED BY <3>2, <3>4, RemovedOK
    <2> QED BY <2>1, <2>2
  <1> QED BY <1>4, <1>5, <1>6

-----------------------------------------------------------------------------
(***************************************************************************)
(* Whole texts.                                                            *)
(***************************************************************************)

\* The end of a text is a boundary; the empty text has no other.
LEMMA TextEnds ==
    ASSUME NEW t \in Seq(Chars)
    PROVE  /\ Offsets(t)[Len(t)] \in Boundaries(t) /\ Offsets(t)[Len(t)] \in Nat
           /\ <<>> \in Seq(Chars) /\ 0 \in Boundaries(<<>>)
  <1>1. Len(t) \in 0..Len(t)
    OBVIOUS
  <1>2. Offsets(t)[Len(t)] \in Boundaries(t) /\ Offsets(t)[Len(t)] \in Nat
    BY <1>1, CharsToFacts
  <1>3. <<>> \in Seq(Chars) /\ 0 \in 0..Len(<<>>)
    OBVIOUS
  <1>4. Offsets(<<>>)[0] = 0
    BY <1>3, OffsetsStep
  <1> QED BY <1>2, <1>3, <1>4 DEF Boundaries

\* A text is shown, with the cursor at its end.
LEMMA ShowsOK ==
    ASSUME NEW p, PromptOK(p), NEW t \in Seq(Chars)
    PROVE  /\ PromptOK(Shows(p, t)) /\ Continues(p, Shows(p, t))
           /\ Shows(p, t).input = t /\ Shows(p, t).cache = p.cache
           /\ Shows(p, t).index = p.index /\ Shows(p, t).draft = p.draft
           /\ Shows(p, t).selected = p.selected /\ Shows(p, t).history = p.history
  <1> DEFINE at == Offsets(t)[Len(t)]
             q == [p EXCEPT !.input = t, !.cursor = at]
  <1>1. at \in Boundaries(t) /\ at \in Nat
    BY TextEnds
  <1>2. Shows(p, t) = q
    BY DEF Shows
  <1> HIDE DEF at
  <1>3. q \in PromptState
    BY <1>1 DEF PromptOK, PromptState
  <1>4. /\ q.input = t /\ q.cursor = at /\ q.history = p.history /\ q.index = p.index
        /\ q.draft = p.draft /\ q.undo = p.undo /\ q.selected = p.selected /\ q.cache = p.cache
    BY DEF PromptOK, PromptState
  <1> HIDE DEF q
  <1>5. PromptOK(q)
    BY <1>1, <1>3, <1>4 DEF PromptOK
  <1>6. Continues(p, q)
    BY <1>4, <1>5, Continuing
  <1> QED BY <1>2, <1>4, <1>5, <1>6

\* Browsing takes a text of the history, or gives the draft back.
LEMMA BrowseOK ==
    ASSUME NEW p, PromptOK(p)
    PROVE  /\ Continues(p, BrowseBack(p))
           /\ Continues(p, BrowseForth(p))
           /\ p.index # 0 /\ BrowseForth(p).index = 0 => BrowseForth(p).input = p.draft
  <1>1. /\ p.history \in Seq(Seq(Chars)) /\ Len(p.history) \in Nat
        /\ p.index \in 0..Len(p.history) /\ p.draft \in Seq(Chars) /\ p.input \in Seq(Chars)
    BY DEF PromptOK, PromptState
  <1>2. \A i \in 1..Len(p.history) : p.history[i] \in Seq(Chars)
    BY <1>1
  <1>3. Continues(p, BrowseBack(p))
    <2>1. CASE p.history = <<>>
      BY <2>1, UnchangedOK DEF BrowseBack
    <2>2. CASE p.history # <<>>
      <3> DEFINE i == IF p.index = 0 THEN Len(p.history) ELSE Max({p.index - 1, 1})
                 s == Shows(p, p.history[i])
                 draft == IF p.index = 0 THEN p.input ELSE p.draft
                 q == [s EXCEPT !.index = i, !.draft = draft]
      <3>1. Len(p.history) # 0
        BY <1>1, <2>2, EmptySeq
      <3>2. i \in 1..Len(p.history)
        <4>1. CASE p.index = 0
          BY <1>1, <3>1, <4>1
        <4>2. CASE p.index # 0
          <5> DEFINE T == {p.index - 1, 1}
          <5>1. T \in SUBSET Nat /\ T # {} /\ Len(p.history) \in Nat /\ 1 \in T
                /\ \A n \in T : n <= Len(p.history)
            BY <1>1, <3>1, <4>2
          <5> HIDE DEF T
          <5>2. Max(T) \in T /\ 1 <= Max(T)
            BY <5>1, MaxFacts
          <5> DEFINE m == Max(T)
                     n == Len(p.history)
          <5>3. m \in Nat /\ m <= n /\ 1 <= m /\ n \in Nat
            BY <5>1, <5>2
          <5>4. i = m
            BY <4>2 DEF T
          <5> HIDE DEF m, n
          <5>5. m \in 1..n
            BY <5>3
          <5> QED BY <5>4, <5>5 DEF n
        <4> QED BY <4>1, <4>2
      <3> HIDE DEF i
      <3>3. /\ PromptOK(s) /\ s.cache = p.cache /\ s.index = p.index /\ s.draft = p.draft
            /\ s.selected = p.selected /\ s.history = p.history
        BY <1>2, <3>2, ShowsOK
      <3>4. BrowseBack(p) = q
        BY <2>2, <3>3 DEF BrowseBack, i
      <3> HIDE DEF s, draft
      <3>5. draft \in Seq(Chars) /\ i \in Nat /\ i \in 0..Len(p.history)
        BY <1>1, <3>2 DEF draft
      <3>6. q \in PromptState
        BY <3>3, <3>5 DEF PromptOK, PromptState
      <3>7. /\ q.input = s.input /\ q.cursor = s.cursor /\ q.history = s.history /\ q.index = i
            /\ q.draft = draft /\ q.undo = s.undo /\ q.selected = s.selected /\ q.cache = s.cache
        BY <3>3 DEF PromptOK, PromptState
      <3> HIDE DEF q
      <3>8. PromptOK(q)
        BY <3>3, <3>5, <3>6, <3>7 DEF PromptOK
      <3>9. Continues(p, q)
        BY <3>3, <3>7, <3>8 DEF Continues, draft
      <3> QED BY <3>4, <3>9
    <2> QED BY <2>1, <2>2
  <1>4. /\ Continues(p, BrowseForth(p))
        /\ p.index # 0 /\ BrowseForth(p).index = 0 => BrowseForth(p).input = p.draft
    <2>1. CASE p.history = <<>> \/ p.index = 0
      <3>1. BrowseForth(p) = p /\ p.index = 0
        BY <1>1, <2>1 DEF BrowseForth
      <3> QED BY <3>1, UnchangedOK
    <2>2. CASE p.history # <<>> /\ p.index # 0 /\ p.index < Len(p.history)
      <3> DEFINE s == Shows(p, p.history[p.index + 1])
                 q == [s EXCEPT !.index = p.index + 1]
      <3>1. p.index + 1 \in 1..Len(p.history) /\ p.index + 1 # 0 /\ p.index + 1 \in Nat
            /\ p.index + 1 \in 0..Len(p.history)
        BY <1>1, <2>2
      <3>2. /\ PromptOK(s) /\ s.cache = p.cache /\ s.index = p.index /\ s.draft = p.draft
            /\ s.selected = p.selected /\ s.history = p.history
        BY <1>2, <3>1, ShowsOK
      <3>3. BrowseForth(p) = q
        BY <2>2, <3>2 DEF BrowseForth
      <3> HIDE DEF s
      <3>4. q \in PromptState
        BY <3>1, <3>2 DEF PromptOK, PromptState
      <3>5. /\ q.input = s.input /\ q.cursor = s.cursor /\ q.history = s.history
            /\ q.index = p.index + 1
            /\ q.draft = s.draft /\ q.undo = s.undo /\ q.selected = s.selected /\ q.cache = s.cache
        BY <3>2 DEF PromptOK, PromptState
      <3> HIDE DEF q
      <3>6. PromptOK(q)
        BY <3>1, <3>2, <3>4, <3>5 DEF PromptOK
      <3>7. Continues(p, q) /\ q.index # 0
        BY <2>2, <3>1, <3>2, <3>5, <3>6, Continuing
      <3> QED BY <3>3, <3>7
    <2>3. CASE p.history # <<>> /\ p.index # 0 /\ ~(p.index < Len(p.history))
      <3> DEFINE s == Shows(p, p.draft)
                 q == [s EXCEPT !.index = 0, !.draft = <<>>]
      <3>1. /\ PromptOK(s) /\ s.cache = p.cache /\ s.input = p.draft
            /\ s.selected = p.selected /\ s.history = p.history
        BY <1>1, ShowsOK
      <3>2. BrowseForth(p) = q
        BY <2>3 DEF BrowseForth
      <3> HIDE DEF s
      <3>3. <<>> \in Seq(Chars)
        OBVIOUS
      <3>4. q \in PromptState
        BY <3>1, <3>3 DEF PromptOK, PromptState
      <3>5. /\ q.input = s.input /\ q.cursor = s.cursor /\ q.history = s.history /\ q.index = 0
            /\ q.undo = s.undo /\ q.selected = s.selected /\ q.cache = s.cache
        BY <3>1 DEF PromptOK, PromptState
      <3> HIDE DEF q
      <3>6. 0 \in 0..Len(p.history)
        BY <1>1
      <3>7. PromptOK(q)
        BY <3>1, <3>4, <3>5, <3>6 DEF PromptOK
      <3>8. Continues(p, q)
        BY <3>1, <3>5, <3>7, Continuing
      <3> QED BY <3>1, <3>2, <3>5, <3>8
    <2> QED BY <2>1, <2>2, <2>3
  <1> QED BY <1>3, <1>4

\* The history of another session takes the place of this one's.
LEMMA RestoredOK ==
    ASSUME NEW p, PromptOK(p), NEW h \in Seq(Seq(Chars))
    PROVE  Continues(p, Restored(p, h))
  <1> DEFINE q == [p EXCEPT !.history = h, !.index = 0, !.draft = <<>>]
  <1>1. Restored(p, h) = q
    BY DEF Restored
  <1>2. <<>> \in Seq(Chars) /\ 0 \in 0..Len(h)
    OBVIOUS
  <1>3. q \in PromptState
    BY <1>2 DEF PromptOK, PromptState
  <1>4. /\ q.input = p.input /\ q.cursor = p.cursor /\ q.history = h /\ q.index = 0
        /\ q.undo = p.undo /\ q.selected = p.selected /\ q.cache = p.cache
    BY DEF PromptOK, PromptState
  <1> HIDE DEF q
  <1>5. PromptOK(q)
    BY <1>2, <1>3, <1>4 DEF PromptOK
  <1> QED BY <1>1, <1>4, <1>5, Continuing

\* The line is cleared.
LEMMA ClearedOK ==
    ASSUME NEW p, PromptOK(p)
    PROVE  /\ PromptOK(Cleared(p)) /\ Continues(p, Cleared(p))
           /\ Cleared(p).cache = p.cache /\ Cleared(p).selected = 0
  <1> DEFINE q == [p EXCEPT !.input = <<>>, !.cursor = 0, !.selected = 0, !.index = 0, !.draft = <<>>]
  <1>1. Cleared(p) = q
    BY DEF Cleared
  <1>2. <<>> \in Seq(Chars) /\ 0 \in Boundaries(<<>>) /\ 0 \in 0..Len(p.history)
    BY TextEnds DEF PromptOK, PromptState
  <1>3. q \in PromptState
    BY <1>2 DEF PromptOK, PromptState
  <1>4. /\ q.input = <<>> /\ q.cursor = 0 /\ q.history = p.history /\ q.index = 0
        /\ q.undo = p.undo /\ q.selected = 0 /\ q.cache = p.cache
    BY DEF PromptOK, PromptState
  <1> HIDE DEF q
  <1>5. PromptOK(q)
    BY <1>2, <1>3, <1>4 DEF PromptOK
  <1> QED BY <1>1, <1>4, <1>5, Continuing

\* A new session has no history.
LEMMA NewSessionOK ==
    ASSUME NEW p, PromptOK(p)
    PROVE  Continues(p, Restored(Cleared(p), <<>>))
  <1> DEFINE c == Cleared(p)
             none == <<>>
             q == Restored(c, none)
  <1>1. PromptOK(c) /\ c.cache = p.cache /\ c.selected = 0
    BY ClearedOK
  <1>2. none \in Seq(Seq(Chars))
    OBVIOUS
  <1>3. q.index = 0 /\ q.cache = c.cache /\ q.selected = c.selected
    BY <1>1 DEF Restored, PromptOK, PromptState
  <1> HIDE DEF c, none
  <1>4. Continues(c, q)
    BY <1>1, <1>2, RestoredOK
  <1> HIDE DEF q
  <1>5. PromptOK(q) /\ q.selected = 0 /\ q.cache = p.cache
    BY <1>1, <1>3, <1>4 DEF Continues
  <1>6. Continues(p, q)
    BY <1>3, <1>5, Continuing
  <1> QED BY <1>6 DEF q, c, none

\* The text is sent and becomes the latest of the history.
LEMMA SentOK ==
    ASSUME NEW p, PromptOK(p)
    PROVE  Continues(p, Sent(p))
  <1> DEFINE history == IF p.history # <<>> /\ Last(p.history) = p.input THEN p.history
                        ELSE Append(p.history, p.input)
             q == [p EXCEPT !.input = <<>>, !.cursor = 0, !.index = 0, !.draft = <<>>,
                            !.history = history]
  <1>1. Sent(p) = q
    BY DEF Sent, PromptOK, PromptState
  <1>2. history \in Seq(Seq(Chars))
    BY DEF PromptOK, PromptState
  <1> HIDE DEF history
  <1>3. <<>> \in Seq(Chars) /\ 0 \in Boundaries(<<>>) /\ 0 \in 0..Len(history)
    BY <1>2, TextEnds
  <1>4. q \in PromptState
    BY <1>2, <1>3 DEF PromptOK, PromptState
  <1>5. /\ q.input = <<>> /\ q.cursor = 0 /\ q.history = history /\ q.index = 0
        /\ q.undo = p.undo /\ q.selected = p.selected /\ q.cache = p.cache
    BY DEF PromptOK, PromptState
  <1> HIDE DEF q
  <1>6. PromptOK(q)
    BY <1>3, <1>4, <1>5 DEF PromptOK
  <1> QED BY <1>1, <1>5, <1>6, Continuing

\* Undo brings back the text before the last change.
LEMMA UndoOK ==
    ASSUME NEW p, PromptOK(p)
    PROVE  Continues(p, Undo(p))
  <1>1. CASE ~p.undo.on
    BY <1>1, UnchangedOK DEF Undo
  <1>2. CASE p.undo.on
    <2> DEFINE q == [p EXCEPT !.input = p.undo.input, !.cursor = p.undo.cursor, !.undo = NoUndo]
    <2>1. Undo(p) = q
      BY <1>2 DEF Undo
    <2>2. p.undo.input \in Seq(Chars) /\ p.undo.cursor \in Nat
          /\ p.undo.cursor \in Boundaries(p.undo.input)
      BY DEF PromptOK, PromptState, UndoState
    <2>3. NoUndo \in UndoState /\ NoUndo.cursor \in Boundaries(NoUndo.input)
      <3>1. <<>> \in Seq(Chars) /\ 0 \in Boundaries(<<>>)
        BY <2>2, TextEnds
      <3> QED BY <3>1 DEF NoUndo, UndoState
    <2>4. q \in PromptState
      BY <2>2, <2>3 DEF PromptOK, PromptState
    <2>5. /\ q.input = p.undo.input /\ q.cursor = p.undo.cursor /\ q.history = p.history
          /\ q.index = p.index /\ q.draft = p.draft
          /\ q.undo = NoUndo /\ q.selected = p.selected /\ q.cache = p.cache
      BY DEF PromptOK, PromptState
    <2> HIDE DEF q
    <2>6. PromptOK(q)
      BY <2>2, <2>3, <2>4, <2>5 DEF PromptOK
    <2> QED BY <2>1, <2>5, <2>6, Continuing
  <1> QED BY <1>1, <1>2

-----------------------------------------------------------------------------
(***************************************************************************)
(* The popup.                                                              *)
(***************************************************************************)

\* What the token asks for is a text, and what matches are positions of the list.
LEMMA QueryType ==
    ASSUME NEW p, PromptOK(p)
    PROVE  Query(p) \in [on : BOOLEAN, text : Seq(Chars)] /\ TokenSpace(p) \in 0..Before(p)
  <1>1. p.input \in Seq(Chars) /\ Before(p) \in 0..Len(p.input) /\ Len(p.input) \in Nat
    BY BeforeFacts
  <1>2. TokenSpace(p) \in 0..Before(p)
    BY <1>1, SearchFacts DEF TokenSpace
  <1> DEFINE t == Token(p)
  <1>3. t \in Seq(Chars)
    <2> DEFINE k == TokenSpace(p) + 1
               b == Before(p)
    <2>1. k \in Nat /\ 1 <= k /\ b \in Nat /\ b <= Len(p.input)
      BY <1>1, <1>2
    <2>2. t = SubSeq(p.input, k, b)
      BY DEF Token
    <2> HIDE DEF k, b
    <2>3. \A i \in k..b : p.input[i] \in Chars
      BY <1>1, <2>1
    <2>4. SubSeq(p.input, k, b) \in Seq(Chars)
      BY <1>1, <2>1, <2>3, SubSeqProperties
    <2> QED BY <2>2, <2>4
  <1>4. <<>> \in Seq(Chars)
    OBVIOUS
  <1>5. CASE t # <<>> /\ t[1] = "at" /\ ~(Len(t) > 1 /\ t[2] = "open")
    <2>1. Query(p) = [on |-> TRUE, text |-> Tail(t)]
      BY <1>5 DEF Query
    <2>2. Tail(t) \in Seq(Chars)
      BY <1>3, <1>5
    <2> HIDE DEF t
    <2> QED BY <1>2, <2>1, <2>2
  <1>6. CASE ~(t # <<>> /\ t[1] = "at" /\ ~(Len(t) > 1 /\ t[2] = "open"))
    <2>1. Query(p) = [on |-> FALSE, text |-> <<>>]
      BY <1>6 DEF Query, NoQuery
    <2> QED BY <1>2, <1>4, <2>1
  <1> QED BY <1>5, <1>6

\* The matches are some of the list's places, and can be counted.
LEMMA MatchesFacts ==
    ASSUME NEW query, NEW index \in Seq(Seq(Chars))
    PROVE  LET matches == MatchesOf(query, index)
           IN  /\ matches \subseteq DOMAIN index /\ matches \in SUBSET Nat
               /\ IsFiniteSet(matches) /\ Cardinality(matches) \in Nat
               /\ matches = {} <=> Cardinality(matches) = 0
  <1> DEFINE matches == MatchesOf(query, index)
  <1>1. matches \subseteq DOMAIN index
    BY DEF MatchesOf
  <1>2. DOMAIN index = 1..Len(index) /\ Len(index) \in Nat
    OBVIOUS
  <1>3. IsFiniteSet(1..Len(index))
    BY <1>2, FS_Interval
  <1> HIDE DEF matches
  <1>4. IsFiniteSet(matches)
    BY <1>1, <1>2, <1>3, FS_Subset
  <1>5. Cardinality(matches) \in Nat /\ (matches = {} <=> Cardinality(matches) = 0)
    BY <1>4, FS_CardinalityType, FS_EmptySet
  <1>6. matches \in SUBSET Nat
    BY <1>1, <1>2
  <1> QED BY <1>1, <1>4, <1>5, <1>6 DEF matches

\* Taking the greatest of a finite set takes one.
LEMMA WithoutGreatest ==
    ASSUME NEW S \in SUBSET Nat, IsFiniteSet(S), NEW m \in S, \A n \in S : n <= m
    PROVE  Cardinality({j \in S : j < m}) = Cardinality(S) - 1
  <1>1. {j \in S : j < m} = S \ {m}
    <2>1. \A j \in S : j < m <=> j # m
      OBVIOUS
    <2> QED BY <2>1, Zenon
  <1>2. Cardinality(S \ {m}) = Cardinality(S) - 1
    BY FS_RemoveElement
  <1> QED BY <1>1, <1>2

\* A finite set of numbers has an n-th, counted from 0, for each n below its size.
LEMMA NthExists ==
    ASSUME NEW M \in SUBSET Nat, IsFiniteSet(M), NEW b \in Nat, \A n \in M : n <= b,
           NEW k \in Nat, k < Cardinality(M)
    PROVE  \E i \in M : Cardinality({j \in M : j < i}) = k
  <1> DEFINE c(i) == Cardinality({j \in M : j < i})
             T == {i \in M : c(i) >= k}
  <1>1. Cardinality(M) \in Nat
    BY FS_CardinalityType
  <1>2. ASSUME NEW i \in M PROVE IsFiniteSet({j \in M : j < i}) /\ c(i) \in Nat
    <2>1. IsFiniteSet({j \in M : j < i})
      BY FS_Subset
    <2> QED BY <2>1, FS_CardinalityType
  <1>3. M # {}
    <2>1. ASSUME M = {} PROVE FALSE
      BY <1>1, <2>1, FS_EmptySet
    <2> QED BY <2>1
  <1>4. PICK top \in M : \A n \in M : n <= top
    BY <1>3, GreatestNumber
  <1>5. c(top) = Cardinality(M) - 1
    BY <1>4, WithoutGreatest
  <1>6. top \in T
    BY <1>1, <1>5
  <1>7. PICK i \in T : \A n \in T : i <= n
    <2>1. T \in SUBSET Nat /\ T # {}
      BY <1>6
    <2> HIDE DEF T
    <2> QED BY <2>1, LeastNumber
  <1>8. i \in M /\ c(i) \in Nat /\ c(i) >= k
    BY <1>2, <1>7
  <1>9. ASSUME c(i) > k PROVE FALSE
    <2> DEFINE L == {j \in M : j < i}
    <2>1. L \in SUBSET Nat /\ IsFiniteSet(L) /\ L \subseteq M /\ \A n \in L : n <= b
      BY <1>2, <1>8
    <2>2. L # {}
      <3>1. ASSUME L = {} PROVE FALSE
        <4>1. c(i) = 0
          BY <3>1, FS_EmptySet
        <4> QED BY <1>9, <4>1
      <3> QED BY <3>1
    <2>3. PICK j \in L : \A n \in L : n <= j
      <3> HIDE DEF L
      <3> QED BY <2>1, <2>2, GreatestNumber
    <2>4. j \in M /\ j < i /\ j \in Nat /\ i \in Nat
      BY <1>8, <2>3
    <2>5. {n \in M : n < j} = {n \in L : n < j}
      <3>1. \A n \in M : n < j => n < i
        BY <2>4
      <3> QED BY <3>1, Zenon
    <2>6. Cardinality({n \in L : n < j}) = Cardinality(L) - 1
      <3> HIDE DEF L
      <3> QED BY <2>1, <2>3, WithoutGreatest
    <2>7. c(j) = c(i) - 1
      BY <2>5, <2>6
    <2> HIDE DEF c, L
    <2>8. c(j) >= k
      BY <1>8, <1>9, <2>7
    <2>9. j \in T
      BY <2>4, <2>8
    <2> QED BY <1>7, <2>4, <2>9
  <1> HIDE DEF c
  <1>10. c(i) = k
    BY <1>8, <1>9
  <1> QED BY <1>8, <1>10 DEF c

\* What the popup highlights is a file of the index.
LEMMA SuggestionType ==
    ASSUME NEW p, files \in Seq(Seq(Chars)), p.cache.matches = MatchesOf(p.cache.query, files),
           NEW n \in Nat, n < Count(p)
    PROVE  Suggestion(p, n) \in Seq(Chars)
  <1> DEFINE M == MatchesOf(p.cache.query, files)
  <1>1. M \subseteq DOMAIN files /\ M \in SUBSET Nat /\ IsFiniteSet(M)
    BY MatchesFacts
  <1>2. DOMAIN files = 1..Len(files) /\ Len(files) \in Nat
    OBVIOUS
  <1>3. p.cache.matches = M /\ Count(p) = Cardinality(M)
    BY DEF Count
  <1> HIDE DEF M
  <1>4. \A m \in M : m <= Len(files)
    BY <1>1, <1>2
  <1>5. \E i \in M : Cardinality({j \in M : j < i}) = n
    <2>1. n < Cardinality(M)
      BY <1>3
    <2> QED BY <1>1, <1>2, <1>4, <2>1, NthExists
  <1> DEFINE i == CHOOSE i \in M : Cardinality({j \in M : j < i}) = n
  <1>6. i \in M
    BY <1>5
  <1>7. Suggestion(p, n) = files[i]
    BY <1>3 DEF Suggestion
  <1> HIDE DEF i
  <1>8. files[i] \in Seq(Chars)
    BY <1>1, <1>6
  <1> QED BY <1>7, <1>8

\* A completion puts a reference in the place of the token.
LEMMA CompletedOK ==
    ASSUME NEW p, PromptOK(p), files \in Seq(Seq(Chars)),
           p.cache.matches = MatchesOf(p.cache.query, files),
           p.selected < Count(p), NEW finish \in BOOLEAN
    PROVE  Continues(p, Completed(p, finish))
  <1> DEFINE path == Suggestion(p, p.selected)
             reference == ReferenceTo(path)
             text == IF finish THEN Append(reference, "space") ELSE reference
             r == Replaced(p, TokenSpace(p), Before(p), text)
             q == [r EXCEPT !.selected = 0]
  <1>1. p.selected \in Nat
    BY DEF PromptOK, PromptState
  <1>2. path \in Seq(Chars)
    BY <1>1, SuggestionType
  <1>3. Completed(p, finish) = q
    BY DEF Completed
  <1> HIDE DEF path
  <1>4. "at" \in Chars /\ "open" \in Chars /\ "close" \in Chars /\ "space" \in Chars
    BY PromptAssumption
  <1>5. reference \in Seq(Chars)
    <2>1. <<"at", "open">> \in Seq(Chars) /\ <<"close">> \in Seq(Chars) /\ <<"at">> \in Seq(Chars)
      BY <1>4
    <2>2. <<"at", "open">> \o path \in Seq(Chars) /\ <<"at">> \o path \in Seq(Chars)
      BY <1>2, <2>1, ConcatProperties
    <2>3. (<<"at", "open">> \o path) \o <<"close">> \in Seq(Chars)
      BY <2>1, <2>2, ConcatProperties
    <2> QED BY <2>2, <2>3, Zenon DEF ReferenceTo
  <1> HIDE DEF reference
  <1>6. text \in Seq(Chars)
    BY <1>4, <1>5
  <1> HIDE DEF text
  <1>7. TokenSpace(p) \in 0..Len(p.input) /\ Before(p) \in TokenSpace(p)..Len(p.input)
    BY BeforeFacts, QueryType
  <1>8. PromptOK(r) /\ r.index = 0 /\ r.cache = p.cache
    BY <1>6, <1>7, ReplacedOK
  <1> HIDE DEF r
  <1>9. PromptOK(q) /\ q.index = 0 /\ q.cache = p.cache /\ q.selected = 0
    BY <1>8 DEF PromptOK, PromptState
  <1> HIDE DEF q
  <1> QED BY <1>3, <1>9, Continuing

\* The arrows move within the popup.
LEMMA SelectOK ==
    ASSUME NEW p, PromptOK(p), NEW n \in Nat, n < Count(p)
    PROVE  Continues(p, [p EXCEPT !.selected = n])
  <1> DEFINE q == [p EXCEPT !.selected = n]
  <1>1. /\ PromptOK(q) /\ q.selected = n /\ q.cache = p.cache
        /\ q.index = p.index /\ q.draft = p.draft
    BY DEF PromptOK, PromptState
  <1> HIDE DEF q
  <1>2. Continues(p, q)
    BY <1>1 DEF Continues
  <1> QED BY <1>2 DEF q

\* Whatever an event does, the popup lists the matches of the token at the
\* cursor afterwards.
LEMMA RefreshedOK ==
    ASSUME NEW p, PromptOK(p), NEW index \in Seq(Seq(Chars)), NEW rev \in {0, 1},
           p.cache.revision = rev => /\ p.cache.matches = MatchesOf(p.cache.query, index)
                                     /\ Count(p) > 0 => p.selected < Count(p)
    PROVE  LET q == Refreshed(p, index, rev)
           IN  /\ PromptOK(q)
               /\ q.input = p.input /\ q.cursor = p.cursor
               /\ q.index = p.index /\ q.draft = p.draft
               /\ q.cache.revision = rev
               /\ q.cache.query = Query(q)
               /\ q.cache.matches = MatchesOf(q.cache.query, index)
               /\ Count(q) > 0 => q.selected < Count(q)
  <1>1. CASE p.cache.revision = rev /\ p.cache.query = Query(p)
    <2>1. Refreshed(p, index, rev) = p
      BY <1>1 DEF Refreshed
    <2> QED BY <1>1, <2>1
  <1>2. CASE ~(p.cache.revision = rev /\ p.cache.query = Query(p))
    <2> DEFINE query == Query(p)
               matches == MatchesOf(query, index)
               cache == [revision |-> rev, query |-> query, matches |-> matches]
               n == Cardinality(matches)
               selected == IF matches = {} THEN 0 ELSE p.selected % n
               q == [p EXCEPT !.cache = cache, !.selected = selected]
    <2>1. Refreshed(p, index, rev) = q
      BY <1>2 DEF Refreshed, PromptOK, PromptState
    <2>2. query \in [on : BOOLEAN, text : Seq(Chars)]
      BY QueryType
    <2>3. matches \in SUBSET Nat /\ n \in Nat /\ (matches = {} <=> n = 0)
      BY MatchesFacts
    <2>4. p.selected \in Nat
      BY DEF PromptOK, PromptState
    <2> DEFINE m == p.selected
    <2> HIDE DEF query, matches, n, m
    <2>5. cache \in Cache /\ cache.revision = rev /\ cache.query = query /\ cache.matches = matches
      BY <2>2, <2>3 DEF Cache
    <2>6. selected \in Nat /\ (n > 0 => selected < n)
      <3>1. CASE n = 0
        BY <2>3, <3>1
      <3>2. CASE n # 0
        <4>1. m \in Nat
          BY <2>4 DEF m
        <4>2. m % n \in 0..(n - 1)
          BY <2>3, <3>2, <4>1
        <4>3. selected = m % n
          BY <2>3, <3>2 DEF m
        <4> HIDE DEF selected
        <4> QED BY <2>3, <3>2, <4>2, <4>3
      <3> QED BY <3>1, <3>2
    <2> HIDE DEF cache, selected
    <2>7. q \in PromptState
      BY <2>5, <2>6 DEF PromptOK, PromptState
    <2>8. /\ q.input = p.input /\ q.cursor = p.cursor /\ q.history = p.history
          /\ q.index = p.index /\ q.draft = p.draft /\ q.undo = p.undo
          /\ q.selected = selected /\ q.cache = cache
      BY DEF PromptOK, PromptState
    <2> HIDE DEF q
    <2>9. PromptOK(q)
      BY <2>7, <2>8 DEF PromptOK
    <2>10. Query(q) = Query(p)
      BY <2>8 DEF Query, Token, TokenSpace, Before
    <2>11. Count(q) = n
      BY <2>5, <2>8 DEF Count, n
    <2> QED BY <2>1, <2>5, <2>6, <2>8, <2>9, <2>10, <2>11 DEF query, matches
  <1> QED BY <1>1, <1>2

-----------------------------------------------------------------------------
(***************************************************************************)
(* The invariant.                                                          *)
(***************************************************************************)

\* The popup's list is that of its query, which is the token at the cursor.
PopupInv ==
    /\ prompt.cache.revision = revision
    /\ prompt.cache.matches = MatchesOf(prompt.cache.query, files)
    /\ fate = "on" => /\ prompt.cache.query = Query(prompt)
                      /\ Popup => prompt.selected < Count(prompt)

\* While the history is on screen, the draft is the text that was left for it.
DraftInv == prompt.index # 0 => prompt.draft = left

EditorInv == TypeOK /\ PopupInv /\ DraftInv

\* At first there is no text, no history and no popup.
LEMMA EditorInit == Init => EditorInv
  <1> SUFFICES ASSUME Init PROVE EditorInv
    OBVIOUS
  <1> DEFINE cache == [revision |-> 0, query |-> NoQuery, matches |-> {}]
             undo == NoUndo
             none == <<>>
             p == [input |-> none, cursor |-> 0, history |-> none, index |-> 0, draft |-> none,
                   undo |-> undo, selected |-> 0, cache |-> cache]
  <1>1. prompt = p /\ files = none /\ revision = 0 /\ fate = "on" /\ left = none
    BY DEF Init
  <1>2. /\ none \in Seq(Chars) /\ none \in Seq(Seq(Chars)) /\ Len(none) = 0
        /\ 0 \in 0..Len(none)
    OBVIOUS
  <1>3. 0 \in Boundaries(none)
    BY <1>2, TextEnds
  <1>4. NoQuery \in [on : BOOLEAN, text : Seq(Chars)] /\ ~NoQuery.on
    BY <1>2 DEF NoQuery
  <1>5. cache \in Cache /\ cache.revision = 0 /\ cache.query = NoQuery /\ cache.matches = {}
    BY <1>4 DEF Cache
  <1>6. undo \in UndoState /\ undo.cursor \in Boundaries(undo.input)
    BY <1>2, <1>3 DEF NoUndo, UndoState
  <1>7. Token(p) = none
    <2>1. p.input = none
      OBVIOUS
    <2>2. PromptOK(p)
      <3> HIDE DEF cache, undo, none
      <3> QED BY <1>2, <1>3, <1>5, <1>6 DEF PromptOK, PromptState
    <2> HIDE DEF p, none
    <2>3. Before(p) \in 0..Len(none) /\ TokenSpace(p) \in 0..Before(p)
      BY <2>1, <2>2, BeforeFacts, QueryType
    <2>4. Before(p) = 0 /\ TokenSpace(p) = 0
      BY <1>2, <2>3
    <2>5. SubSeq(p.input, 0 + 1, 0) = <<>>
      BY <1>2, <2>1
    <2> QED BY <2>4, <2>5 DEF Token, none
  <1>8. Query(p) = NoQuery
    BY <1>7 DEF Query
  <1> HIDE DEF cache, undo, none
  <1>9. PromptOK(p)
    BY <1>2, <1>3, <1>5, <1>6 DEF PromptOK, PromptState
  <1>10. p.cache = cache /\ p.index = 0
    OBVIOUS
  <1> HIDE DEF p
  <1>11. TypeOK
    BY <1>1, <1>2, <1>9 DEF TypeOK
  <1>12. MatchesOf(NoQuery, files) = {}
    BY <1>4 DEF MatchesOf
  <1>13. Count(prompt) = 0
    BY <1>1, <1>5, <1>10, FS_EmptySet DEF Count
  <1>14. PopupInv
    BY <1>1, <1>5, <1>8, <1>10, <1>12, <1>13 DEF PopupInv, Popup
  <1> QED BY <1>1, <1>10, <1>11, <1>14 DEF EditorInv, DraftInv

\* Every event that continues keeps the invariant, and changes no text after it.
LEMMA HandledOK ==
    ASSUME EditorInv, NEW q, Continues(prompt, q), Handled(q)
    PROVE  EditorInv' /\ prompt'.input = q.input /\ prompt'.cursor = q.cursor
           /\ prompt'.index = q.index
  <1>1. /\ PromptOK(prompt) /\ files \in Seq(Seq(Chars)) /\ revision \in {0, 1}
        /\ left \in Seq(Chars) /\ prompt.input \in Seq(Chars)
    BY DEF EditorInv, TypeOK, PromptOK, PromptState
  <1>2. /\ fate = "on" /\ UNCHANGED <<files, revision>>
        /\ left' = IF q.index = 0 THEN <<>> ELSE IF prompt.index = 0 THEN prompt.input ELSE left
    BY DEF Handled
  <1>3. /\ PromptOK(q) /\ q.cache = prompt.cache
        /\ q.index # 0 => q.draft = IF prompt.index = 0 THEN prompt.input ELSE prompt.draft
    BY DEF Continues
  <1>4. left' \in Seq(Chars)
    BY <1>1, <1>2
  <1>5. q.index # 0 => q.draft = left'
    BY <1>2, <1>3 DEF EditorInv, DraftInv
  <1>6. CASE SlicePanics(q)
    <2>1. prompt' = q /\ fate' = "panicked"
      BY <1>6 DEF Handled
    <2>2. TypeOK'
      BY <1>1, <1>2, <1>3, <1>4, <2>1 DEF TypeOK
    <2>3. PopupInv'
      BY <1>2, <1>3, <2>1 DEF EditorInv, PopupInv
    <2>4. DraftInv'
      BY <1>5, <2>1 DEF DraftInv
    <2> QED BY <2>1, <2>2, <2>3, <2>4 DEF EditorInv
  <1>7. CASE ~SlicePanics(q)
    <2> DEFINE r == Refreshed(q, files, revision)
    <2>1. prompt' = r /\ fate' = "on"
      BY <1>2, <1>7 DEF Handled
    <2>2. /\ q.cache.revision = revision
          /\ q.cache.matches = MatchesOf(q.cache.query, files)
      BY <1>3 DEF EditorInv, PopupInv
    <2>3. Count(q) > 0 => q.selected < Count(q)
      <3>1. Count(q) = Count(prompt)
        BY <1>3 DEF Count
      <3>2. Count(prompt) > 0 => prompt.selected < Count(prompt)
        BY <1>2 DEF EditorInv, PopupInv, Popup
      <3> QED BY <3>1, <3>2 DEF Continues
    <2>4. /\ PromptOK(r) /\ r.input = q.input /\ r.cursor = q.cursor
          /\ r.index = q.index /\ r.draft = q.draft
          /\ r.cache.revision = revision /\ r.cache.query = Query(r)
          /\ r.cache.matches = MatchesOf(r.cache.query, files)
          /\ Count(r) > 0 => r.selected < Count(r)
      BY <1>1, <1>3, <2>2, <2>3, RefreshedOK
    <2> HIDE DEF r
    <2>5. TypeOK'
      BY <1>1, <1>2, <1>4, <2>1, <2>4 DEF TypeOK
    <2>6. PopupInv'
      BY <1>2, <2>1, <2>4 DEF PopupInv, Popup, Count, Query, Token, TokenSpace, Before
    <2>7. DraftInv'
      BY <1>5, <2>1, <2>4 DEF DraftInv
    <2> QED BY <2>1, <2>4, <2>5, <2>6, <2>7 DEF EditorInv
  <1> QED BY <1>6, <1>7

\* The keys with which the user goes through the popup, the history or the lines.
LEMMA ArrowsContinue ==
    ASSUME EditorInv, KeyUp \/ KeyDown
    PROVE  \E q : Continues(prompt, q) /\ Handled(q)
  <1>1. PromptOK(prompt)
    BY DEF EditorInv, TypeOK
  <1>2. ASSUME Popup, fate = "on"
        PROVE  \A n \in Nat : n < Count(prompt) => Continues(prompt, [prompt EXCEPT !.selected = n])
    BY <1>1, SelectOK
  <1>3. prompt.selected \in Nat /\ Count(prompt) \in Nat
    <2>1. files \in Seq(Seq(Chars)) /\ prompt.cache.matches = MatchesOf(prompt.cache.query, files)
      BY DEF EditorInv, TypeOK, PopupInv
    <2> QED BY <1>1, <2>1, MatchesFacts DEF Count, PromptOK, PromptState
  <1> DEFINE n == Count(prompt)
             up == IF prompt.selected = 0 THEN n - 1 ELSE prompt.selected - 1
             down == (prompt.selected + 1) % n
  <1>4. ASSUME Popup, fate = "on" PROVE up \in Nat /\ up < n
    <2>1. n > 0 /\ prompt.selected < n
      BY <1>4 DEF EditorInv, PopupInv, Popup
    <2> HIDE DEF n
    <2> QED BY <1>3, <2>1 DEF n
  <1>5. ASSUME Popup, fate = "on" PROVE down \in Nat /\ down < n
    <2> DEFINE m == prompt.selected
    <2>1. n > 0 /\ n \in Nat /\ m \in Nat
      BY <1>3, <1>5 DEF Popup
    <2> HIDE DEF n, m
    <2>2. (m + 1) % n \in 0..(n - 1)
      BY <2>1
    <2>3. (m + 1) % n \in Nat /\ (m + 1) % n < n
      BY <2>1, <2>2
    <2> QED BY <2>3 DEF n, m
  <1>6. CASE KeyUp
    <2>1. CASE Popup /\ Handled([prompt EXCEPT !.selected = IF @ = 0 THEN Count(prompt) - 1 ELSE @ - 1])
      <3>1. fate = "on" /\ Popup
        BY <2>1 DEF Handled
      <3>2. Handled([prompt EXCEPT !.selected = up])
        BY <2>1
      <3>3. Continues(prompt, [prompt EXCEPT !.selected = up])
        BY <1>2, <1>4, <3>1
      <3> QED BY <3>2, <3>3
    <2>2. CASE Handled(BrowseBack(prompt))
      BY <1>1, <2>2, BrowseOK
    <2>3. CASE Handled(Up(prompt))
      BY <1>1, <2>3, MotionOK
    <2> QED BY <1>6, <2>1, <2>2, <2>3 DEF KeyUp
  <1>7. CASE KeyDown
    <2>1. CASE Popup /\ Handled([prompt EXCEPT !.selected = (@ + 1) % Count(prompt)])
      <3>1. fate = "on" /\ Popup
        BY <2>1 DEF Handled
      <3>2. Handled([prompt EXCEPT !.selected = down])
        BY <2>1
      <3>3. Continues(prompt, [prompt EXCEPT !.selected = down])
        BY <1>2, <1>5, <3>1
      <3> QED BY <3>2, <3>3
    <2>2. CASE Handled(BrowseForth(prompt))
      BY <1>1, <2>2, BrowseOK
    <2>3. CASE Handled(Down(prompt))
      BY <1>1, <2>3, MotionOK
    <2> QED BY <1>7, <2>1, <2>2, <2>3 DEF KeyDown
  <1> QED BY <1>6, <1>7

\* Every event continues, but for a new list of files.
LEMMA EventContinues ==
    ASSUME EditorInv, Next, ~IndexFiles
    PROVE  \E q : Continues(prompt, q) /\ Handled(q)
  <1>1. PromptOK(prompt)
    BY DEF EditorInv, TypeOK
  <1>2. files \in Seq(Seq(Chars)) /\ prompt.cache.matches = MatchesOf(prompt.cache.query, files)
    BY DEF EditorInv, TypeOK, PopupInv
  <1>3. CASE Type
    <2>1. PICK c \in Typed : Handled(Insert(prompt, c))
      BY <1>3 DEF Type
    <2>2. c \in Chars
      BY PromptAssumption
    <2> QED BY <1>1, <2>1, <2>2, InsertOK
  <1>4. CASE Paste
    <2>1. PICK t \in Pastes : Handled(InsertAll(prompt, t))
      BY <1>4 DEF Paste
    <2>2. t \in Seq(Chars)
      BY PromptAssumption
    <2> QED BY <1>1, <2>1, <2>2, InsertAllOK
  <1>5. CASE KeyLeft \/ KeyRight \/ KeyWordLeft \/ KeyWordRight \/ KeyHome \/ KeyEnd
    BY <1>1, <1>5, MotionOK DEF KeyLeft, KeyRight, KeyWordLeft, KeyWordRight, KeyHome, KeyEnd
  <1>6. CASE KeyUp \/ KeyDown
    BY <1>6, ArrowsContinue
  <1>7. CASE KeyBackspace \/ KeyDelete \/ KeyDeleteLine
    BY <1>1, <1>7, DeletionOK DEF KeyBackspace, KeyDelete, KeyDeleteLine
  <1>8. CASE KeyUndo
    BY <1>1, <1>8, UndoOK DEF KeyUndo
  <1>9. ASSUME Popup, NEW finish \in BOOLEAN, Handled(Completed(prompt, finish))
        PROVE  \E q : Continues(prompt, q) /\ Handled(q)
    <2>1. prompt.selected < Count(prompt)
      BY <1>9 DEF EditorInv, PopupInv, Handled
    <2> QED BY <1>1, <1>2, <1>9, <2>1, CompletedOK
  <1>10. CASE KeyTab
    BY <1>9, <1>10 DEF KeyTab
  <1>11. CASE KeyEscape
    BY <1>1, <1>11, ClearedOK DEF KeyEscape
  <1>12. CASE EditMessage
    <2>1. PICK t \in ToSet(prompt.history) : Handled(Shows(prompt, t))
      BY <1>12 DEF EditMessage
    <2>2. t \in Seq(Chars)
      BY <1>1 DEF ToSet, PromptOK, PromptState
    <2> QED BY <1>1, <2>1, <2>2, ShowsOK
  <1>13. CASE KeyEnter
    <2>1. CASE Popup /\ Handled(Completed(prompt, TRUE))
      BY <1>9, <2>1
    <2>2. CASE Handled(Sent(prompt))
      BY <1>1, <2>2, SentOK
    <2> QED BY <1>13, <2>1, <2>2 DEF KeyEnter
  <1>14. CASE SwitchSession
    <2>1. PICK h \in Histories : Handled(Restored(prompt, h))
      BY <1>14 DEF SwitchSession
    <2>2. h \in Seq(Seq(Chars))
      BY PromptAssumption
    <2> QED BY <1>1, <2>1, <2>2, RestoredOK
  <1>15. CASE NewSession
    BY <1>1, <1>15, NewSessionOK DEF NewSession
  <1> QED BY <1>3, <1>4, <1>5, <1>6, <1>7, <1>8, <1>10, <1>11, <1>12, <1>13, <1>14, <1>15 DEF Next

\* A new list of files is looked through at once.
LEMMA IndexFilesOK ==
    ASSUME EditorInv, IndexFiles
    PROVE  EditorInv'
  <1>1. /\ PromptOK(prompt) /\ revision \in {0, 1} /\ left \in Seq(Chars)
        /\ prompt.cache.revision = revision
    BY DEF EditorInv, TypeOK, PopupInv
  <1>2. PICK s \in Snapshots \ {files} :
            /\ files' = s /\ revision' = 1 - revision
            /\ prompt' = Refreshed([prompt EXCEPT !.selected = 0], s, 1 - revision)
    BY DEF IndexFiles
  <1>3. s \in Seq(Seq(Chars))
    BY PromptAssumption
  <1>4. fate' = "on" /\ left' = left
    BY DEF IndexFiles
  <1> DEFINE q == [prompt EXCEPT !.selected = 0]
             rev == 1 - revision
             r == Refreshed(q, s, rev)
  <1>5. rev \in {0, 1} /\ rev # revision
    BY <1>1
  <1>6. /\ PromptOK(q) /\ q.cache = prompt.cache
        /\ q.index = prompt.index /\ q.draft = prompt.draft
    BY <1>1 DEF PromptOK, PromptState
  <1> HIDE DEF q, rev
  <1>7. q.cache.revision # rev
    BY <1>1, <1>5, <1>6
  <1>8. /\ PromptOK(r) /\ r.index = q.index /\ r.draft = q.draft
        /\ r.cache.revision = rev /\ r.cache.query = Query(r)
        /\ r.cache.matches = MatchesOf(r.cache.query, s)
        /\ Count(r) > 0 => r.selected < Count(r)
    BY <1>3, <1>5, <1>6, <1>7, RefreshedOK
  <1>9. prompt' = r /\ revision' = rev
    BY <1>2 DEF q, rev
  <1> HIDE DEF r
  <1>10. TypeOK'
    BY <1>1, <1>2, <1>3, <1>4, <1>5, <1>8, <1>9 DEF TypeOK
  <1>11. PopupInv'
    BY <1>2, <1>8, <1>9 DEF PopupInv, Popup, Count, Query, Token, TokenSpace, Before
  <1>12. DraftInv'
    BY <1>4, <1>6, <1>8, <1>9 DEF EditorInv, DraftInv
  <1> QED BY <1>10, <1>11, <1>12 DEF EditorInv

\* Every step keeps the invariant.
LEMMA EditorNext == ASSUME EditorInv, [Next]_vars PROVE EditorInv'
  <1>1. CASE UNCHANGED vars
    BY <1>1 DEF vars, EditorInv, TypeOK, PopupInv, DraftInv, Popup, Count, Query, Token, TokenSpace,
                Before
  <1>2. CASE IndexFiles
    BY <1>2, IndexFilesOK
  <1>3. CASE Next /\ ~IndexFiles
    <2>1. PICK q : Continues(prompt, q) /\ Handled(q)
      BY <1>3, EventContinues
    <2> QED BY <2>1, HandledOK
  <1> QED BY <1>1, <1>2, <1>3

\* So it always holds.
LEMMA EditorAlways == Spec => []EditorInv
  BY EditorInit, EditorNext, PTL DEF Spec

-----------------------------------------------------------------------------
(***************************************************************************)
(* The theorems.                                                           *)
(***************************************************************************)

\* The cursor and the one of undo are on boundaries of characters, and the place
\* in the history exists, whatever characters a text is made of, also where the
\* program ends with a panic: that comes from the token, never from a slice at
\* the cursor (PromptState).
THEOREM TypeCorrect == Spec => []TypeOK
  BY EditorAlways, PTL DEF EditorInv

\* A token that cannot be cut out begins inside of a wide white space.
LEMMA PanicIsWide ==
    ASSUME NEW p, PromptOK(p), SlicePanics(p)
    PROVE  /\ TokenSpace(p) # 0 /\ p.input[TokenSpace(p)] \in Spaces
           /\ Width[p.input[TokenSpace(p)]] > 1
  <1> DEFINE t == p.input
             k == TokenSpace(p)
             b == Before(p)
             back == {0} \union {i \in 1..b : t[i] \in Spaces}
  <1>1. t \in Seq(Chars) /\ Len(t) \in Nat /\ b \in 0..Len(t) /\ b \in Nat
    BY BeforeFacts
  <1>2. k \in back /\ k \in Nat
    <2>1. back \in SUBSET Nat /\ 0 \in back /\ \A n \in back : n <= b
      BY <1>1
    <2>2. k = Max(back)
      BY DEF TokenSpace, LastOf
    <2> HIDE DEF back, b, k
    <2> QED BY <1>1, <2>1, <2>2, MaxFacts
  <1>3. TokenStart(p) \notin Boundaries(t) /\ TokenStart(p) = IF k = 0 THEN 0 ELSE Offsets(t)[k - 1] + 1
    BY DEF SlicePanics, TokenStart
  <1> HIDE DEF t, k, b
  <1>4. /\ Offsets(t)[0] = 0 /\ 0 \in 0..Len(t)
        /\ \A i \in 1..Len(t) : Offsets(t)[i] = Offsets(t)[i - 1] + Width[t[i]]
        /\ \A i \in 0..Len(t) : Offsets(t)[i] \in Boundaries(t)
    BY <1>1, OffsetsStep, CharsToFacts
  <1>5. k # 0
    BY <1>3, <1>4
  <1>6. k \in 1..Len(t) /\ k \in 0..Len(t) /\ t[k] \in Spaces /\ t[k] \in Chars
    BY <1>1, <1>2, <1>5
  <1>7. Width[t[k]] \in 1..4
    BY <1>6, PromptAssumption
  <1>8. Width[t[k]] # 1
    BY <1>3, <1>4, <1>5, <1>6
  <1> QED BY <1>5, <1>6, <1>7, <1>8 DEF t, k

\* The program panics only at a white space of several bytes: with those of one
\* byte no key and no text ends it (refresh_file_reference_cache).
THEOREM PanicsAreAtWideSpaces == Spec => []OnlyWideSpacesPanic
  <1>1. Init => OnlyWideSpacesPanic
    BY DEF Init, OnlyWideSpacesPanic
  <1>2. ASSUME EditorInv, OnlyWideSpacesPanic, [Next]_vars PROVE OnlyWideSpacesPanic'
    <2>1. CASE UNCHANGED vars
      BY <1>2, <2>1 DEF vars, OnlyWideSpacesPanic, TokenSpace, Before
    <2>2. CASE IndexFiles
      BY <2>2 DEF IndexFiles, OnlyWideSpacesPanic
    <2>3. CASE Next /\ ~IndexFiles
      <3>1. PICK q : Continues(prompt, q) /\ Handled(q)
        BY <1>2, <2>3, EventContinues
      <3>2. CASE SlicePanics(q)
        <4>1. PromptOK(q) /\ prompt' = q
          BY <3>1, <3>2 DEF Continues, Handled
        <4> QED BY <3>2, <4>1, PanicIsWide DEF OnlyWideSpacesPanic, TokenSpace, Before
      <3>3. CASE ~SlicePanics(q)
        BY <3>1, <3>3 DEF Handled, OnlyWideSpacesPanic
      <3> QED BY <3>2, <3>3
    <2> QED BY <1>2, <2>1, <2>2, <2>3
  <1> QED BY <1>1, <1>2, EditorAlways, PTL DEF Spec

\* Enter and Tab complete what the popup shows: it lists the files that match
\* the token at the cursor, however the text, the cursor or the list have
\* changed (refresh_file_reference_cache).
THEOREM PopupIsCurrent == Spec => []SuggestionsAreCurrent
  <1>1. EditorInv => SuggestionsAreCurrent
    BY DEF EditorInv, PopupInv, SuggestionsAreCurrent
  <1> QED BY <1>1, EditorAlways, PTL

\* Who goes back in the history and returns to its end finds the text that was
\* left there (browse_input_history).
THEOREM DraftReturns == Spec => DraftComesBack
  <1>1. ASSUME EditorInv, prompt.index # 0, prompt'.index = 0, KeyDown
        PROVE  prompt'.input = left
    <2>1. PromptOK(prompt) /\ prompt.draft = left
      BY <1>1 DEF EditorInv, TypeOK, DraftInv
    <2>2. CASE Popup /\ Handled([prompt EXCEPT !.selected = (@ + 1) % Count(prompt)])
      <3> DEFINE n == (prompt.selected + 1) % Count(prompt)
                 q == [prompt EXCEPT !.selected = n]
      <3>1. Handled(q)
        BY <2>2
      <3> HIDE DEF n
      <3>2. q.index = prompt.index /\ "index" \in DOMAIN q
        BY <2>1 DEF PromptOK, PromptState
      <3> HIDE DEF q
      <3> DEFINE cache == [revision |-> revision, query |-> Query(q),
                           matches |-> MatchesOf(Query(q), files)]
                 m == IF MatchesOf(Query(q), files) = {} THEN 0
                      ELSE q.selected % Cardinality(MatchesOf(Query(q), files))
      <3>3. prompt'.index = q.index
        <4>1. prompt' = q \/ prompt' = [q EXCEPT !.cache = cache, !.selected = m]
          BY <3>1 DEF Handled, Refreshed
        <4> HIDE DEF cache, m
        <4> QED BY <3>2, <4>1
      <3> QED BY <1>1, <3>2, <3>3
    <2>3. CASE Handled(BrowseForth(prompt))
      <3> DEFINE q == BrowseForth(prompt)
      <3>1. Continues(prompt, q) /\ (prompt.index # 0 /\ q.index = 0 => q.input = prompt.draft)
        BY <2>1, BrowseOK
      <3> HIDE DEF q
      <3>2. prompt'.input = q.input /\ prompt'.index = q.index
        BY <1>1, <2>3, <3>1, HandledOK DEF q
      <3> QED BY <1>1, <2>1, <3>1, <3>2
    <2>4. CASE Handled(Down(prompt))
      <3> DEFINE q == Down(prompt)
      <3>1. Continues(prompt, q) /\ q.index = prompt.index
        BY <2>1, MotionOK
      <3> HIDE DEF q
      <3>2. prompt'.index = q.index
        BY <1>1, <2>4, <3>1, HandledOK DEF q
      <3> QED BY <1>1, <3>1, <3>2
    <2> QED BY <1>1, <2>2, <2>3, <2>4 DEF KeyDown
  <1>2. EditorInv => [prompt.index # 0 /\ prompt'.index = 0 /\ KeyDown => prompt'.input = left]_vars
    BY <1>1
  <1> QED BY <1>2, EditorAlways, PTL DEF DraftComesBack

\* What Backspace and Delete take is one character outside of all references to
\* files, or one reference as a whole (file_reference_range_at).
THEOREM ReferencesGoWhole == Spec => ReferencesStayWhole
  <1> DEFINE Whole(r) ==
                 LET k == Before(prompt)'
                     n == Len(prompt.input) - Len(prompt.input)'
                 IN  k + n <= r[1] \/ k >= r[2] \/ (k <= r[1] /\ r[2] <= k + n)
  <1>1. ASSUME EditorInv, Len(prompt'.input) < Len(prompt.input), KeyBackspace \/ KeyDelete,
               NEW r \in ReferenceRanges(prompt.input),
               PathIn(SubSeq(prompt.input, r[1] + 1, r[2])) \in ToSet(files)
        PROVE  Whole(r)
    <2>1. PromptOK(prompt) /\ prompt.input \in Seq(Chars) /\ Len(prompt.input) \in Nat
      BY <1>1, BeforeFacts DEF EditorInv, TypeOK
    <2>2. PICK q : Continues(prompt, q) /\ Deletes(prompt, q) /\ Handled(q)
      BY <1>1, <2>1, DeletionOK DEF KeyBackspace, KeyDelete
    <2>3. prompt'.input = q.input /\ prompt'.cursor = q.cursor
      BY <1>1, <2>2, HandledOK
    <2>4. Before(prompt)' = Before(q)
      BY <2>3 DEF Before
    <2>5. q # prompt
      BY <1>1, <2>1, <2>3
    <2>6. PICK k \in 0..Len(prompt.input) : \E e \in k..Len(prompt.input) :
              /\ Before(q) = k
              /\ Len(q.input) = Len(prompt.input) - (e - k)
              /\ \/ \E s \in ReferenceRanges(prompt.input) : s[1] = k /\ s[2] = e
                 \/ /\ e = k + 1
                    /\ \A s \in ReferenceRanges(prompt.input) :
                          PathIn(SubSeq(prompt.input, s[1] + 1, s[2])) \in ToSet(files) =>
                              e <= s[1] \/ s[2] <= k
      BY <2>2, <2>5 DEF Deletes
    <2>7. PICK e \in k..Len(prompt.input) :
              /\ Before(q) = k
              /\ Len(q.input) = Len(prompt.input) - (e - k)
              /\ \/ \E s \in ReferenceRanges(prompt.input) : s[1] = k /\ s[2] = e
                 \/ /\ e = k + 1
                    /\ \A s \in ReferenceRanges(prompt.input) :
                          PathIn(SubSeq(prompt.input, s[1] + 1, s[2])) \in ToSet(files) =>
                              e <= s[1] \/ s[2] <= k
      BY <2>6
    <2> DEFINE n == Len(prompt.input) - Len(prompt'.input)
    <2>8. k \in Nat /\ e \in Nat
      BY <2>1
    <2>9. n = e - k
      <3> DEFINE a == Len(prompt.input)
                 b == Len(prompt'.input)
      <3>1. a \in Nat /\ b = a - (e - k)
        BY <2>1, <2>3, <2>7
      <3> HIDE DEF a, b
      <3>2. a - b = e - k
        BY <2>8, <3>1
      <3> QED BY <3>2 DEF a, b
    <2>10. r[1] \in Nat /\ r[2] \in Nat /\ r[1] < r[2]
      BY <1>1, <2>1, ReferencesApart DEF Apart
    <2>11. e <= r[1] \/ k >= r[2] \/ (k <= r[1] /\ r[2] <= e)
      <3>1. CASE \E s \in ReferenceRanges(prompt.input) : s[1] = k /\ s[2] = e
        <4>1. PICK s \in ReferenceRanges(prompt.input) : s[1] = k /\ s[2] = e
          BY <3>1
        <4>2. r = s \/ r[2] <= s[1] \/ s[2] <= r[1]
          BY <1>1, <2>1, ReferencesApart DEF Apart
        <4> QED BY <2>8, <2>10, <4>1, <4>2
      <3>2. CASE e <= r[1] \/ r[2] <= k
        BY <2>8, <2>10, <3>2
      <3> QED BY <1>1, <2>7, <3>1, <3>2
    <2> HIDE DEF n
    <2>12. k + n = e
      BY <2>8, <2>9
    <2>13. k + n <= r[1] \/ k >= r[2] \/ (k <= r[1] /\ r[2] <= k + n)
      BY <2>11, <2>12
    <2>14. Before(prompt)' = k
      BY <2>4, <2>7
    <2> QED BY <2>13, <2>14 DEF n
  <1>2. EditorInv =>
            [Len(prompt'.input) < Len(prompt.input) /\ (KeyBackspace \/ KeyDelete) =>
                \A r \in ReferenceRanges(prompt.input) :
                    PathIn(SubSeq(prompt.input, r[1] + 1, r[2])) \in ToSet(files) => Whole(r)]_vars
    BY <1>1
  <1> QED BY <1>2, EditorAlways, PTL DEF ReferencesStayWhole
=============================================================================
