-------------------------- MODULE InputEventsProofs --------------------------
(***************************************************************************)
(* What is proved of InputEvents, for any kinds of input, any size of a    *)
(* wheel report and any amount of input: what is on its way to the program *)
(* is all that was read, in order, but for the drags that another follows. *)
(***************************************************************************)
EXTENDS InputEvents, TLAPS, SequenceTheorems, WellFoundedInduction

-----------------------------------------------------------------------------
(***************************************************************************)
(* Sums.                                                                   *)
(***************************************************************************)

\* Every set of numbers that is not empty has a least one.
LEMMA LeastOf ==
    ASSUME NEW T \in SUBSET Nat, T # {}
    PROVE  \E m \in T : \A n \in T : m <= n
  <1>1. PICK m \in T : \A n \in T : ~(<<n, m>> \in OpToRel(<, Nat))
    BY NatLessThanWellFounded, WFMin
  <1>2. \A n \in T : n \in Nat /\ m \in Nat /\ ~(n < m)
    BY <1>1 DEF OpToRel
  <1> QED BY <1>2

\* The sums of the first n of f.
Sums(f, n, g) == g = [i \in 0..n |-> IF i = 0 THEN 0 ELSE g[i - 1] + f[i]]

\* There are such sums for every sequence.
LEMMA SumsExist ==
    ASSUME NEW f \in Seq(Int), NEW N \in Nat
    PROVE  \E g : Sums(f, N, g)
  <1> DEFINE T == {n \in 0..N : ~\E g : Sums(f, n, g)}
  <1>1. SUFFICES ASSUME T # {} PROVE FALSE
    <2>1. N \in 0..N
      OBVIOUS
    <2> QED BY <2>1
  <1>2. PICK n \in T : \A m \in T : n <= m
    <2>1. T \in SUBSET Nat
      OBVIOUS
    <2> HIDE DEF T
    <2> QED BY <1>1, <2>1, LeastOf
  <1>3. n # 0
    <2>1. ASSUME n = 0 PROVE FALSE
      <3> DEFINE g == [i \in 0..0 |-> 0]
      <3>1. g = [i \in 0..0 |-> IF i = 0 THEN 0 ELSE g[i - 1] + f[i]]
        OBVIOUS
      <3> HIDE DEF g
      <3>2. Sums(f, 0, g)
        BY <3>1 DEF Sums
      <3> QED BY <2>1, <3>2
    <2> QED BY <2>1
  <1>4. n \in Nat /\ n - 1 \in 0..N /\ ~(n <= n - 1)
    BY <1>3
  <1>5. PICK g : Sums(f, n - 1, g)
    BY <1>2, <1>4
  <1> DEFINE h == [i \in 0..n |-> IF i = 0 THEN 0 ELSE g[i - 1] + f[i]]
  <1>6. \A i \in 0..n : i # 0 => g[i - 1] = h[i - 1]
    <2>1. SUFFICES ASSUME NEW i \in 0..n, i # 0 PROVE g[i - 1] = h[i - 1]
      OBVIOUS
    <2>2. i - 1 \in 0..(n - 1) /\ i - 1 \in 0..n
      BY <1>4, <2>1
    <2>3. g[i - 1] = IF i - 1 = 0 THEN 0 ELSE g[(i - 1) - 1] + f[i - 1]
      BY <1>5, <2>2 DEF Sums
    <2> QED BY <2>2, <2>3
  <1>7. Sums(f, n, h)
    <2>1. h = [i \in 0..n |-> IF i = 0 THEN 0 ELSE h[i - 1] + f[i]]
      BY <1>6
    <2> HIDE DEF h
    <2> QED BY <2>1 DEF Sums
  <1> QED BY <1>2, <1>7

\* Two functions grow alike: by the numbers of s, up to N.
GrowAlike(g, h, s, N) ==
    /\ g[0] \in Int /\ h[0] \in Int
    /\ \A i \in 1..N : g[i] = g[i - 1] + s[i] /\ h[i] = h[i - 1] + s[i]

\* They differ at the end as much as at the beginning.
LEMMA SameSteps ==
    ASSUME NEW s \in Seq(Int), NEW N \in Nat, N = Len(s), NEW g, NEW h, GrowAlike(g, h, s, N)
    PROVE  g[N] \in Int /\ h[N] = g[N] + (h[0] - g[0])
  <1> DEFINE T == {n \in 0..N : ~(g[n] \in Int /\ h[n] = g[n] + (h[0] - g[0]))}
  <1>1. SUFFICES ASSUME T # {} PROVE FALSE
    <2>1. N \in 0..N
      OBVIOUS
    <2> QED BY <2>1
  <1>2. PICK n \in T : \A m \in T : n <= m
    <2>1. T \in SUBSET Nat
      OBVIOUS
    <2> HIDE DEF T
    <2> QED BY <1>1, <2>1, LeastOf
  <1>3. n \in 1..N /\ n - 1 \in 0..N /\ ~(n <= n - 1)
    BY DEF GrowAlike
  <1>4. g[n - 1] \in Int /\ h[n - 1] = g[n - 1] + (h[0] - g[0])
    BY <1>2, <1>3
  <1>5. s[n] \in Int /\ g[n] = g[n - 1] + s[n] /\ h[n] = h[n - 1] + s[n]
    BY <1>3 DEF GrowAlike
  <1>6. g[0] \in Int /\ h[0] \in Int
    BY DEF GrowAlike
  <1> QED BY <1>2, <1>4, <1>5, <1>6

\* Total is the last of the sums.
LEMMA TotalFacts ==
    ASSUME NEW f \in Seq(Int)
    PROVE  /\ Total(f) \in Int
           /\ \E g : /\ g[0] = 0 /\ Total(f) = g[Len(f)]
                     /\ \A i \in 1..Len(f) : g[i] = g[i - 1] + f[i]
  <1> DEFINE g == CHOOSE g : g = [i \in 0..Len(f) |-> IF i = 0 THEN 0 ELSE g[i - 1] + f[i]]
  <1>1. Len(f) \in Nat /\ \A i \in 1..Len(f) : f[i] \in Int
    OBVIOUS
  <1>2. g = [i \in 0..Len(f) |-> IF i = 0 THEN 0 ELSE g[i - 1] + f[i]]
    BY <1>1, SumsExist DEF Sums
  <1>3. Total(f) = g[Len(f)]
    BY DEF Total
  <1> HIDE DEF g
  <1>4. g[0] = 0 /\ \A i \in 1..Len(f) : g[i] = g[i - 1] + f[i]
    BY <1>1, <1>2
  <1>5. g[Len(f)] \in Int
    <2>1. \A i \in 1..Len(f) : g[i] = g[i - 1] + f[i] /\ g[i] = g[i - 1] + f[i]
      BY <1>1, <1>4
    <2>2. GrowAlike(g, g, f, Len(f))
      BY <1>4, <2>1 DEF GrowAlike
    <2> QED BY <1>1, <2>2, SameSteps
  <1> QED BY <1>3, <1>4, <1>5

\* The total of two sequences is that of both.
LEMMA TotalConcat ==
    ASSUME NEW f \in Seq(Int), NEW h \in Seq(Int)
    PROVE  Total(f \o h) = Total(f) + Total(h)
  <1> DEFINE m == Len(f)
             n == Len(h)
  <1>1. /\ m \in Nat /\ n \in Nat /\ f \o h \in Seq(Int) /\ Len(f \o h) = m + n
        /\ \A i \in 1..m : (f \o h)[i] = f[i] /\ f[i] \in Int
        /\ \A i \in 1..n : (f \o h)[m + i] = h[i] /\ h[i] \in Int
    OBVIOUS
  <1>2. PICK F : /\ F[0] = 0 /\ Total(f) = F[m]
                 /\ \A i \in 1..m : F[i] = F[i - 1] + f[i]
    BY TotalFacts
  <1>3. PICK H : /\ H[0] = 0 /\ Total(h) = H[n]
                 /\ \A i \in 1..n : H[i] = H[i - 1] + h[i]
    BY TotalFacts
  <1>4. PICK G : /\ G[0] = 0 /\ Total(f \o h) = G[m + n]
                 /\ \A i \in 1..(m + n) : G[i] = G[i - 1] + (f \o h)[i]
    <2> DEFINE fh == f \o h
    <2>1. fh \in Seq(Int) /\ Len(fh) = m + n
      BY <1>1
    <2> HIDE DEF fh
    <2>2. \E G : /\ G[0] = 0 /\ Total(fh) = G[Len(fh)]
                 /\ \A i \in 1..Len(fh) : G[i] = G[i - 1] + fh[i]
      BY <2>1, TotalFacts
    <2> HIDE DEF m, n
    <2>3. \E G : /\ G[0] = 0 /\ Total(fh) = G[m + n]
                 /\ \A i \in 1..(m + n) : G[i] = G[i - 1] + fh[i]
      BY <2>1, <2>2
    <2> QED BY <2>3 DEF fh
  <1> HIDE DEF m, n
  <1>5. G[m] = F[m] /\ F[m] \in Int
    <2>1. \A i \in 1..m : F[i] = F[i - 1] + f[i] /\ G[i] = G[i - 1] + f[i]
      <3>1. SUFFICES ASSUME NEW i \in 1..m
                     PROVE  F[i] = F[i - 1] + f[i] /\ G[i] = G[i - 1] + f[i]
        OBVIOUS
      <3>2. i \in 1..(m + n)
        BY <1>1
      <3> QED BY <1>1, <1>2, <1>4, <3>2
    <2>2. F[0] \in Int /\ G[0] \in Int /\ F[0] = G[0]
      BY <1>2, <1>4
    <2>3. F[m] \in Int /\ G[m] = F[m] + (G[0] - F[0])
      <3>1. m \in Nat /\ m = Len(f)
        BY <1>1 DEF m
      <3>2. GrowAlike(F, G, f, m)
        BY <2>1, <2>2 DEF GrowAlike
      <3> QED BY <3>1, <3>2, SameSteps
    <2> QED BY <2>2, <2>3
  <1>6. G[m + n] = H[n] + G[m]
    <2> DEFINE K == [i \in 0..n |-> G[m + i]]
    <2>1. \A i \in 1..n : H[i] = H[i - 1] + h[i] /\ K[i] = K[i - 1] + h[i]
      <3>1. SUFFICES ASSUME NEW i \in 1..n
                     PROVE  H[i] = H[i - 1] + h[i] /\ K[i] = K[i - 1] + h[i]
        OBVIOUS
      <3>2. m + i \in 1..(m + n) /\ (m + i) - 1 = m + (i - 1) /\ i - 1 \in 0..n /\ i \in 0..n
        BY <1>1
      <3>3. G[m + i] = G[m + (i - 1)] + h[i]
        BY <1>1, <1>4, <3>2
      <3> QED BY <1>1, <1>3, <3>2, <3>3
    <2>2. H[0] = 0 /\ K[0] = G[m] /\ H[0] \in Int /\ K[0] \in Int /\ K[n] = G[m + n]
      BY <1>1, <1>3, <1>5
    <2> HIDE DEF K
    <2>3. H[n] \in Int /\ K[n] = H[n] + (K[0] - H[0])
      <3>1. n \in Nat /\ n = Len(h)
        BY <1>1 DEF n
      <3>2. GrowAlike(H, K, h, n)
        BY <2>1, <2>2 DEF GrowAlike
      <3> QED BY <3>1, <3>2, SameSteps
    <2> QED BY <2>2, <2>3
  <1>7. Total(h) \in Int
    BY TotalFacts
  <1> QED BY <1>2, <1>3, <1>4, <1>5, <1>6, <1>7

\* The totals of no number and of one.
LEMMA TotalOfFew ==
    /\ Total(<<>>) = 0
    /\ \A x \in Int : Total(<<x>>) = x
  <1>1. Total(<<>>) = 0
    <2>1. <<>> \in Seq(Int) /\ Len(<<>>) = 0
      OBVIOUS
    <2> QED BY <2>1, TotalFacts
  <1>2. ASSUME NEW x \in Int PROVE Total(<<x>>) = x
    <2>1. <<x>> \in Seq(Int) /\ Len(<<x>>) = 1 /\ <<x>>[1] = x /\ 1 \in 1..1
      OBVIOUS
    <2>2. PICK g : g[0] = 0 /\ Total(<<x>>) = g[1] /\ g[1] = g[1 - 1] + x
      BY <2>1, TotalFacts
    <2> QED BY <2>2
  <1> QED BY <1>1, <1>2

-----------------------------------------------------------------------------
(***************************************************************************)
(* What is with the program or on its way, as a sequence w, of the first t *)
(* events of the input.                                                    *)
(***************************************************************************)
ItemsTo(t) == [is : {"Terminal"}, number : 1..t, delta : {0}]
              \union [is : {"ScrollDelta"}, number : {NoEvent}, delta : Int] \union {ClosedEvent}
IsEssential(in, n) == in[n] \in {"key", "release"}
Holds(w, n) == \E i \in DOMAIN w : w[i] = Terminal(n)

\* No essential event is missing; all are in order; and a drag that is missing
\* is followed by one that is not, with no essential event in between.
NoneMissing(w, in, t) == \A n \in 1..t : IsEssential(in, n) => Holds(w, n)
InOrder(w) ==
    \A i, j \in DOMAIN w :
        i < j /\ w[i].is = "Terminal" /\ w[j].is = "Terminal" => w[i].number < w[j].number
DragsFollow(w, in, t) ==
    \A d \in 1..t : in[d] = "drag" =>
        \E e \in d..t : in[e] = "drag" /\ Holds(w, e) /\ \A n \in d..e : ~IsEssential(in, n)
Good(w, in, t) == NoneMissing(w, in, t) /\ InOrder(w) /\ DragsFollow(w, in, t)

\* What an item is.
LEMMA ItemFacts ==
    ASSUME NEW t \in Nat, NEW x \in ItemsTo(t)
    PROVE  /\ x.delta \in Int
           /\ x.is \in {"Terminal", "ScrollDelta", "Closed"}
           /\ x.is = "Terminal" => x.number \in 1..t /\ x = Terminal(x.number) /\ x.delta = 0
           /\ x.is = "Closed" => x.delta = 0
  BY DEF ItemsTo, Terminal, ClosedEvent, NoEvent

\* The items in general.
LEMMA SomeItems ==
    ASSUME NEW t \in Nat
    PROVE  /\ \A n \in 1..t : Terminal(n) \in ItemsTo(t)
           /\ \A delta \in Int : ScrollDelta(delta) \in ItemsTo(t)
           /\ ClosedEvent \in ItemsTo(t)
           /\ ItemsTo(t) \subseteq ItemsTo(t + 1)
           /\ Item = ItemsTo(taken)
  BY DEF ItemsTo, Item, Terminal, ScrollDelta, ClosedEvent, NoEvent

\* The next event joins at the end.
LEMMA TerminalJoins ==
    ASSUME NEW in, NEW t \in Nat, NEW w \in Seq(ItemsTo(t)), Good(w, in, t)
    PROVE  Good(Append(w, Terminal(t + 1)), in, t + 1)
  <1> DEFINE v == Append(w, Terminal(t + 1))
             m == Len(w)
  <1>1. /\ m \in Nat /\ DOMAIN w = 1..m /\ DOMAIN v = 1..(m + 1)
        /\ v[m + 1] = Terminal(t + 1)
        /\ \A i \in 1..m : v[i] = w[i] /\ w[i] \in ItemsTo(t)
    OBVIOUS
  <1> HIDE DEF v, m
  <1>2. \A n : Holds(w, n) \/ n = t + 1 => Holds(v, n)
    <2>1. ASSUME NEW n, Holds(w, n) PROVE Holds(v, n)
      <3>1. PICK i \in 1..m : w[i] = Terminal(n)
        BY <1>1, <2>1 DEF Holds
      <3> QED BY <1>1, <3>1 DEF Holds
    <2>2. Holds(v, t + 1)
      BY <1>1 DEF Holds
    <2> QED BY <2>1, <2>2
  <1>3. NoneMissing(v, in, t + 1)
    <2>1. SUFFICES ASSUME NEW n \in 1..(t + 1), IsEssential(in, n) PROVE Holds(v, n)
      BY DEF NoneMissing
    <2>2. CASE n \in 1..t
      BY <1>2, <2>1, <2>2 DEF Good, NoneMissing
    <2>3. CASE n = t + 1
      BY <1>2, <2>3
    <2> QED BY <2>2, <2>3
  <1>4. InOrder(v)
    <2>1. SUFFICES ASSUME NEW i \in 1..(m + 1), NEW j \in 1..(m + 1), i < j,
                          v[i].is = "Terminal", v[j].is = "Terminal"
                   PROVE  v[i].number < v[j].number
      BY <1>1 DEF InOrder
    <2>2. i \in 1..m
      BY <1>1, <2>1
    <2>3. CASE j \in 1..m
      BY <1>1, <2>1, <2>2, <2>3 DEF Good, InOrder
    <2>4. CASE j = m + 1
      <3>1. v[j].number = t + 1
        BY <1>1, <2>4 DEF Terminal
      <3>2. v[i].number \in 1..t
        BY <1>1, <2>1, <2>2, ItemFacts
      <3> QED BY <3>1, <3>2
    <2> QED BY <2>3, <2>4, <1>1
  <1>5. DragsFollow(v, in, t + 1)
    <2>1. SUFFICES ASSUME NEW d \in 1..(t + 1), in[d] = "drag"
                   PROVE  \E e \in d..(t + 1) : in[e] = "drag" /\ Holds(v, e)
                                                /\ \A n \in d..e : ~IsEssential(in, n)
      BY DEF DragsFollow
    <2>2. CASE d \in 1..t
      <3>1. PICK e \in d..t : in[e] = "drag" /\ Holds(w, e) /\ \A n \in d..e : ~IsEssential(in, n)
        BY <2>1, <2>2 DEF Good, DragsFollow
      <3>2. e \in d..(t + 1) /\ Holds(v, e)
        BY <1>2, <3>1
      <3> QED BY <3>1, <3>2
    <2>3. CASE d = t + 1
      <3>1. d \in d..(t + 1) /\ \A n \in d..d : n = d
        BY <2>3
      <3>2. ~IsEssential(in, d)
        BY <2>1 DEF IsEssential
      <3> QED BY <1>2, <2>1, <2>3, <3>1, <3>2
    <2> QED BY <2>2, <2>3
  <1> QED BY <1>3, <1>4, <1>5 DEF Good, v

\* A scroll or the end joins.
LEMMA OtherJoins ==
    ASSUME NEW in, NEW t \in Nat, NEW w \in Seq(ItemsTo(t)), Good(w, in, t),
           NEW x \in ItemsTo(t), x.is # "Terminal"
    PROVE  Good(Append(w, x), in, t)
  <1> DEFINE v == Append(w, x)
             m == Len(w)
  <1>1. /\ m \in Nat /\ DOMAIN w = 1..m /\ DOMAIN v = 1..(m + 1)
        /\ v[m + 1] = x
        /\ \A i \in 1..m : v[i] = w[i]
    OBVIOUS
  <1> HIDE DEF v, m
  <1>2. ASSUME NEW n, Holds(w, n) PROVE Holds(v, n)
    <2>1. PICK i \in 1..m : w[i] = Terminal(n)
      BY <1>1, <1>2 DEF Holds
    <2> QED BY <1>1, <2>1 DEF Holds
  <1>3. NoneMissing(v, in, t)
    BY <1>2 DEF Good, NoneMissing
  <1>4. InOrder(v)
    <2>1. SUFFICES ASSUME NEW i \in 1..(m + 1), NEW j \in 1..(m + 1), i < j,
                          v[i].is = "Terminal", v[j].is = "Terminal"
                   PROVE  v[i].number < v[j].number
      BY <1>1 DEF InOrder
    <2>2. i \in 1..m /\ j \in 1..m
      BY <1>1, <2>1
    <2> QED BY <1>1, <2>1, <2>2 DEF Good, InOrder
  <1>5. DragsFollow(v, in, t)
    BY <1>2 DEF Good, DragsFollow
  <1> QED BY <1>3, <1>4, <1>5 DEF Good, v

\* A report of the wheel is nothing that has to be in the sequence.
LEMMA WheelIsRead ==
    ASSUME NEW in, NEW t \in Nat, NEW w, Good(w, in, t),
           in[t + 1] \in {"wheel_up", "wheel_down"}
    PROVE  Good(w, in, t + 1)
  <1>1. ~IsEssential(in, t + 1) /\ in[t + 1] # "drag"
    BY DEF IsEssential
  <1>2. \A n \in 1..(t + 1) : n \in 1..t \/ n = t + 1
    OBVIOUS
  <1>3. NoneMissing(w, in, t + 1)
    BY <1>1, <1>2 DEF Good, NoneMissing
  <1>4. DragsFollow(w, in, t + 1)
    <2>1. SUFFICES ASSUME NEW d \in 1..(t + 1), in[d] = "drag"
                   PROVE  \E e \in d..(t + 1) : in[e] = "drag" /\ Holds(w, e)
                                                /\ \A n \in d..e : ~IsEssential(in, n)
      BY DEF DragsFollow
    <2>2. d \in 1..t
      BY <1>1, <1>2, <2>1
    <2>3. PICK e \in d..t : in[e] = "drag" /\ Holds(w, e) /\ \A n \in d..e : ~IsEssential(in, n)
      BY <2>1, <2>2 DEF Good, DragsFollow
    <2>4. e \in d..(t + 1)
      OBVIOUS
    <2> QED BY <2>3, <2>4
  <1> QED BY <1>3, <1>4 DEF Good

\* What the user does next changes nothing of what was read.
LEMMA InputGrows ==
    ASSUME NEW in \in Seq(Kinds), NEW kind \in Kinds, NEW t \in 0..Len(in), NEW w, Good(w, in, t)
    PROVE  Good(w, Append(in, kind), t)
  <1> DEFINE new == Append(in, kind)
  <1>1. \A n \in 1..t : new[n] = in[n]
    OBVIOUS
  <1> HIDE DEF new
  <1>2. \A n \in 1..t : IsEssential(new, n) <=> IsEssential(in, n)
    BY <1>1 DEF IsEssential
  <1>3. NoneMissing(w, new, t)
    BY <1>2 DEF Good, NoneMissing
  <1>4. DragsFollow(w, new, t)
    <2>1. SUFFICES ASSUME NEW d \in 1..t, new[d] = "drag"
                   PROVE  \E e \in d..t : new[e] = "drag" /\ Holds(w, e)
                                          /\ \A n \in d..e : ~IsEssential(new, n)
      BY DEF DragsFollow
    <2>2. PICK e \in d..t : in[e] = "drag" /\ Holds(w, e) /\ \A n \in d..e : ~IsEssential(in, n)
      BY <1>1, <2>1 DEF Good, DragsFollow
    <2>3. e \in 1..t /\ \A n \in d..e : n \in 1..t
      OBVIOUS
    <2> QED BY <1>1, <1>2, <2>2, <2>3
  <1> QED BY <1>3, <1>4 DEF Good, new

\* An item may be left out that is no event, or that is a drag with another
\* right behind it.
LEMMA ItemIsLeftOut ==
    ASSUME NEW in, NEW t \in Nat, NEW w \in Seq(ItemsTo(t)), Good(w, in, t),
           NEW p \in 1..Len(w), NEW v, DOMAIN v = 1..(Len(w) - 1),
           \A i \in 1..(Len(w) - 1) : v[i] = IF i < p THEN w[i] ELSE w[i + 1],
           \/ w[p].is # "Terminal"
           \/ /\ p < Len(w) /\ w[p].is = "Terminal" /\ w[p + 1].is = "Terminal"
              /\ in[w[p].number] = "drag" /\ in[w[p + 1].number] = "drag"
    PROVE  Good(v, in, t)
  <1> DEFINE m == Len(w)
             a == w[p].number
             b == w[p + 1].number
             q(i) == IF i < p THEN i ELSE i + 1
  <1>1. /\ m \in Nat /\ DOMAIN w = 1..m /\ p \in 1..m /\ DOMAIN v = 1..(m - 1)
        /\ \A i \in 1..m : w[i] \in ItemsTo(t)
        /\ \A i \in 1..(m - 1) : q(i) \in 1..m /\ v[i] = w[q(i)]
        /\ \A i, j \in 1..(m - 1) : i < j => q(i) < q(j)
    OBVIOUS
  <1>2. \A i \in 1..m : w[i].is = "Terminal" => w[i].number \in 1..t /\ w[i] = Terminal(w[i].number)
    BY <1>1, ItemFacts
  <1>3. \/ w[p].is # "Terminal"
        \/ /\ p + 1 \in 1..m /\ w[p].is = "Terminal" /\ w[p + 1].is = "Terminal"
           /\ in[a] = "drag" /\ in[b] = "drag"
    OBVIOUS
  <1>4. \A n : Terminal(n).is = "Terminal" /\ Terminal(n).number = n
    BY DEF Terminal
  <1>5. ASSUME NEW n, Holds(w, n), w[p] # Terminal(n) PROVE Holds(v, n)
    <2>1. PICK i \in 1..m : w[i] = Terminal(n)
      BY <1>1, <1>5 DEF Holds
    <2>2. \E k \in 1..(m - 1) : q(k) = i
      <3>1. CASE i < p
        <4>1. i \in 1..(m - 1) /\ q(i) = i
          BY <1>1, <3>1
        <4> QED BY <4>1
      <3>2. CASE i > p
        <4>1. i - 1 \in 1..(m - 1) /\ q(i - 1) = i
          BY <1>1, <3>2
        <4> QED BY <4>1
      <3>3. i # p
        BY <1>5, <2>1
      <3> QED BY <1>1, <3>1, <3>2, <3>3
    <2>3. PICK k \in 1..(m - 1) : v[k] = Terminal(n)
      BY <1>1, <2>1, <2>2
    <2> QED BY <1>1, <2>3 DEF Holds
  <1> HIDE DEF m, q
  <1>6. \A n : IsEssential(in, n) => w[p] # Terminal(n)
    BY <1>3, <1>4 DEF IsEssential
  <1>7. NoneMissing(v, in, t)
    BY <1>5, <1>6 DEF Good, NoneMissing
  <1>8. InOrder(v)
    <2>1. SUFFICES ASSUME NEW i \in 1..(m - 1), NEW j \in 1..(m - 1), i < j,
                          v[i].is = "Terminal", v[j].is = "Terminal"
                   PROVE  v[i].number < v[j].number
      BY <1>1 DEF InOrder
    <2>2. q(i) \in DOMAIN w /\ q(j) \in DOMAIN w /\ q(i) < q(j) /\ v[i] = w[q(i)] /\ v[j] = w[q(j)]
      BY <1>1, <2>1
    <2> QED BY <2>1, <2>2 DEF Good, InOrder
  <1>9. DragsFollow(v, in, t)
    <2>1. SUFFICES ASSUME NEW d \in 1..t, in[d] = "drag"
                   PROVE  \E e \in d..t : in[e] = "drag" /\ Holds(v, e)
                                          /\ \A n \in d..e : ~IsEssential(in, n)
      BY DEF DragsFollow
    <2>2. PICK e \in d..t : in[e] = "drag" /\ Holds(w, e) /\ \A n \in d..e : ~IsEssential(in, n)
      BY <2>1 DEF Good, DragsFollow
    <2>3. CASE w[p] # Terminal(e)
      BY <1>5, <2>2, <2>3
    <2>4. CASE w[p] = Terminal(e)
      <3>1. /\ a = e /\ w[p].is = "Terminal" /\ p + 1 \in 1..m /\ w[p + 1].is = "Terminal"
            /\ in[b] = "drag"
        BY <1>3, <1>4, <2>4
      <3>2. a < b
        <4>1. p \in DOMAIN w /\ p + 1 \in DOMAIN w /\ p < p + 1
          BY <1>1, <3>1
        <4> QED BY <3>1, <4>1 DEF Good, InOrder
      <3>3. b \in 1..t /\ w[p + 1] = Terminal(b)
        BY <1>2, <3>1
      <3>4. b \in d..t
        BY <3>1, <3>2, <3>3
      <3>5. Holds(v, b)
        <4>1. Holds(w, b)
          BY <1>1, <3>1, <3>3 DEF Holds
        <4>2. w[p] # Terminal(b)
          BY <1>4, <3>1, <3>2, <3>3, <2>4
        <4> QED BY <1>5, <4>1, <4>2
      <3>6. \A n \in d..b : ~IsEssential(in, n)
        <4>1. SUFFICES ASSUME NEW n \in d..b, IsEssential(in, n) PROVE FALSE
          OBVIOUS
        <4>2. n > e /\ n \in 1..t
          BY <2>2, <3>3, <4>1
        <4>3. n # b
          BY <3>1, <4>1 DEF IsEssential
        <4>4. PICK k \in 1..m : w[k] = Terminal(n)
          BY <1>1, <4>1, <4>2 DEF Good, NoneMissing, Holds
        <4>5. w[k].is = "Terminal" /\ w[k].number = n
          BY <1>4, <4>4
        <4>6. ~(k < p)
          <5>1. ASSUME k < p PROVE n < a
            BY <1>1, <3>1, <4>5, <5>1 DEF Good, InOrder
          <5> QED BY <3>1, <4>2, <5>1
        <4>7. ~(p + 1 < k)
          <5>1. ASSUME p + 1 < k PROVE b < n
            BY <1>1, <3>1, <4>5, <5>1 DEF Good, InOrder
          <5> QED BY <3>3, <4>1, <5>1
        <4>8. k = p \/ k = p + 1
          BY <1>1, <4>6, <4>7
        <4> QED BY <3>1, <4>2, <4>3, <4>5, <4>8
      <3> QED BY <3>1, <3>4, <3>5, <3>6
    <2> QED BY <2>3, <2>4
  <1> QED BY <1>7, <1>8, <1>9 DEF Good

-----------------------------------------------------------------------------
(***************************************************************************)
(* What is with the program, and behind it what is on its way.             *)
(***************************************************************************)
WayOf(g, o) == [i \in DOMAIN g |-> Terminal(g[i])] \o o

\* The places in it.
LEMMA WayFacts ==
    ASSUME NEW t \in Nat, NEW g \in Seq(1..t), NEW o \in Seq(ItemsTo(t))
    PROVE  /\ WayOf(g, o) \in Seq(ItemsTo(t))
           /\ Len(WayOf(g, o)) = Len(g) + Len(o) /\ Len(g) \in Nat /\ Len(o) \in Nat
           /\ DOMAIN WayOf(g, o) = 1..(Len(g) + Len(o))
           /\ \A i \in 1..Len(g) : WayOf(g, o)[i] = Terminal(g[i])
           /\ \A i \in 1..Len(o) : WayOf(g, o)[Len(g) + i] = o[i]
  <1> DEFINE u == [i \in DOMAIN g |-> Terminal(g[i])]
  <1>1. Len(g) \in Nat /\ DOMAIN g = 1..Len(g) /\ \A i \in 1..Len(g) : g[i] \in 1..t
    OBVIOUS
  <1>2. \A i \in 1..Len(g) : u[i] \in ItemsTo(t)
    BY <1>1, SomeItems
  <1>3. u \in Seq(ItemsTo(t)) /\ Len(u) = Len(g)
    BY <1>1, <1>2
  <1>4. \A i \in 1..Len(g) : u[i] = Terminal(g[i])
    BY <1>1
  <1> HIDE DEF u
  <1>5. /\ u \o o \in Seq(ItemsTo(t)) /\ Len(u \o o) = Len(g) + Len(o) /\ Len(o) \in Nat
        /\ \A i \in 1..Len(g) : (u \o o)[i] = u[i]
        /\ \A i \in 1..Len(o) : (u \o o)[Len(g) + i] = o[i]
    <2>1. /\ u \o o \in Seq(ItemsTo(t)) /\ Len(u \o o) = Len(u) + Len(o) /\ Len(o) \in Nat
          /\ \A i \in 1..(Len(u) + Len(o)) :
                (u \o o)[i] = IF i <= Len(u) THEN u[i] ELSE o[i - Len(u)]
      <3> DEFINE M == ItemsTo(t)
      <3>1. u \in Seq(M) /\ o \in Seq(M)
        BY <1>3
      <3> HIDE DEF M
      <3>2. /\ u \o o \in Seq(M) /\ Len(u \o o) = Len(u) + Len(o)
            /\ \A i \in 1..(Len(u) + Len(o)) :
                  (u \o o)[i] = IF i <= Len(u) THEN u[i] ELSE o[i - Len(u)]
        BY <3>1, ConcatProperties
      <3> QED BY <3>1, <3>2, LenProperties DEF M
    <2>2. \A i \in 1..Len(g) : i \in 1..(Len(g) + Len(o)) /\ i <= Len(g)
      BY <1>1, <2>1
    <2>3. \A i \in 1..Len(o) : /\ Len(g) + i \in 1..(Len(g) + Len(o)) /\ ~(Len(g) + i <= Len(g))
                               /\ (Len(g) + i) - Len(g) = i
      BY <1>1, <2>1
    <2> QED BY <1>3, <2>1, <2>2, <2>3
  <1>6. DOMAIN (u \o o) = 1..(Len(g) + Len(o))
    BY <1>5
  <1>7. WayOf(g, o) = u \o o
    BY DEF WayOf, u
  <1> QED BY <1>1, <1>4, <1>5, <1>6, <1>7

\* What is sent comes to its end.
LEMMA WayJoined ==
    ASSUME NEW t \in Nat, NEW g \in Seq(1..t), NEW o \in Seq(ItemsTo(t)), NEW x \in ItemsTo(t)
    PROVE  WayOf(g, Append(o, x)) = Append(WayOf(g, o), x)
  <1> DEFINE w == WayOf(g, o)
             a == Append(o, x)
             v == WayOf(g, a)
             u == Append(w, x)
             m == Len(g)
             n == Len(o)
  <1>1. /\ a \in Seq(ItemsTo(t)) /\ Len(a) = n + 1
        /\ a[n + 1] = x /\ \A i \in 1..n : a[i] = o[i]
    OBVIOUS
  <1> HIDE DEF a
  <1>2. /\ w \in Seq(ItemsTo(t)) /\ Len(w) = m + n /\ m \in Nat /\ n \in Nat
        /\ \A i \in 1..m : w[i] = Terminal(g[i])
        /\ \A i \in 1..n : w[m + i] = o[i]
    BY WayFacts
  <1>3. /\ v \in Seq(ItemsTo(t)) /\ Len(v) = m + (n + 1)
        /\ \A i \in 1..m : v[i] = Terminal(g[i])
        /\ \A i \in 1..(n + 1) : v[m + i] = a[i]
    <2>1. /\ v \in Seq(ItemsTo(t)) /\ Len(v) = Len(g) + Len(a)
          /\ \A i \in 1..Len(g) : v[i] = Terminal(g[i])
          /\ \A i \in 1..Len(a) : v[Len(g) + i] = a[i]
      BY <1>1, WayFacts
    <2> QED BY <1>1, <2>1
  <1> HIDE DEF w, v
  <1>4. u \in Seq(ItemsTo(t)) /\ Len(u) = m + n + 1 /\ u[m + n + 1] = x
        /\ \A i \in 1..(m + n) : u[i] = w[i]
    BY <1>2
  <1> HIDE DEF u, m, n
  <1>5. ASSUME NEW i \in 1..(m + n + 1) PROVE v[i] = u[i]
    <2>1. CASE i \in 1..m
      BY <1>2, <1>3, <1>4, <2>1
    <2>2. CASE i \in (m + 1)..(m + n)
      <3>1. i - m \in 1..n /\ i - m \in 1..(n + 1) /\ m + (i - m) = i /\ i \in 1..(m + n)
        BY <1>2, <2>2
      <3> DEFINE j == i - m
      <3>2. j \in 1..n /\ j \in 1..(n + 1) /\ m + j = i /\ i \in 1..(m + n)
        BY <3>1
      <3> HIDE DEF j
      <3>3. v[i] = a[j] /\ w[i] = o[j] /\ u[i] = w[i] /\ a[j] = o[j]
        BY <1>1, <1>2, <1>3, <1>4, <3>2
      <3> QED BY <3>3
    <2>3. CASE i = m + n + 1
      <3>1. n + 1 \in 1..(n + 1) /\ m + (n + 1) = i
        BY <1>2, <2>3
      <3> QED BY <1>1, <1>3, <1>4, <2>3, <3>1
    <2> QED BY <1>2, <2>1, <2>2, <2>3
  <1>6. v = u
    <2>1. Len(v) = Len(u) /\ \A i \in 1..Len(v) : v[i] = u[i]
      BY <1>2, <1>3, <1>4, <1>5
    <2> QED BY <1>3, <1>4, <2>1, SeqEqual
  <1> QED BY <1>6 DEF v, u, w, a

\* An event that the program is given stays at its place.
LEMMA WayHandedOn ==
    ASSUME NEW t \in Nat, NEW g \in Seq(1..t), NEW n \in 1..t, NEW r \in Seq(ItemsTo(t))
    PROVE  WayOf(Append(g, n), r) = WayOf(g, <<Terminal(n)>> \o r)
  <1> DEFINE m == Len(g)
             k == Len(r)
             o == <<Terminal(n)>> \o r
             h == Append(g, n)
             w == WayOf(h, r)
             v == WayOf(g, o)
  <1>1. /\ h \in Seq(1..t) /\ Len(h) = m + 1 /\ h[m + 1] = n /\ \A i \in 1..m : h[i] = g[i]
    OBVIOUS
  <1>2. Terminal(n) \in ItemsTo(t)
    BY SomeItems
  <1>3. /\ o \in Seq(ItemsTo(t)) /\ Len(o) = k + 1 /\ o[1] = Terminal(n)
        /\ \A i \in 1..k : o[i + 1] = r[i]
    BY <1>2
  <1> HIDE DEF o, h
  <1>4. /\ w \in Seq(ItemsTo(t)) /\ Len(w) = (m + 1) + k /\ m \in Nat /\ k \in Nat
        /\ \A i \in 1..(m + 1) : w[i] = Terminal(h[i])
        /\ \A i \in 1..k : w[(m + 1) + i] = r[i]
    <2>1. /\ w \in Seq(ItemsTo(t)) /\ Len(w) = Len(h) + Len(r)
          /\ \A i \in 1..Len(h) : w[i] = Terminal(h[i])
          /\ \A i \in 1..Len(r) : w[Len(h) + i] = r[i]
      BY <1>1, WayFacts
    <2>2. Len(g) \in Nat /\ Len(r) \in Nat
      OBVIOUS
    <2> QED BY <1>1, <2>1, <2>2
  <1>5. /\ v \in Seq(ItemsTo(t)) /\ Len(v) = m + (k + 1)
        /\ \A i \in 1..m : v[i] = Terminal(g[i])
        /\ \A i \in 1..(k + 1) : v[m + i] = o[i]
    <2>1. /\ v \in Seq(ItemsTo(t)) /\ Len(v) = Len(g) + Len(o)
          /\ \A i \in 1..Len(g) : v[i] = Terminal(g[i])
          /\ \A i \in 1..Len(o) : v[Len(g) + i] = o[i]
      BY <1>3, WayFacts
    <2> QED BY <1>3, <2>1
  <1> HIDE DEF w, v, m, k
  <1>6. ASSUME NEW i \in 1..(m + k + 1) PROVE v[i] = w[i]
    <2>1. CASE i \in 1..m
      <3>1. i \in 1..(m + 1)
        BY <1>4, <2>1
      <3> QED BY <1>1, <1>4, <1>5, <2>1, <3>1
    <2>2. CASE i = m + 1
      <3>1. i \in 1..(m + 1) /\ 1 \in 1..(k + 1)
        BY <1>4, <2>2
      <3> QED BY <1>1, <1>3, <1>4, <1>5, <2>2, <3>1
    <2>3. CASE i \in (m + 2)..(m + k + 1)
      <3> DEFINE j == i - (m + 1)
      <3>1. j \in 1..k /\ (m + 1) + j = i /\ j + 1 \in 1..(k + 1) /\ m + (j + 1) = i
        BY <1>4, <2>3
      <3> HIDE DEF j
      <3> QED BY <1>3, <1>4, <1>5, <3>1
    <2> QED BY <1>4, <2>1, <2>2, <2>3
  <1>7. v = w
    BY <1>4, <1>5, <1>6, SeqEqual
  <1> QED BY <1>7 DEF v, w, h, o

\* The first item on its way is left out.
LEMMA WayWithout ==
    ASSUME NEW in, NEW t \in Nat, NEW g \in Seq(1..t), NEW x \in ItemsTo(t), NEW r \in Seq(ItemsTo(t)),
           Good(WayOf(g, <<x>> \o r), in, t),
           \/ x.is # "Terminal"
           \/ /\ r # <<>> /\ x.is = "Terminal" /\ r[1].is = "Terminal"
              /\ in[x.number] = "drag" /\ in[r[1].number] = "drag"
    PROVE  Good(WayOf(g, r), in, t)
  <1> DEFINE m == Len(g)
             k == Len(r)
             o == <<x>> \o r
             w == WayOf(g, o)
             v == WayOf(g, r)
             p == m + 1
  <1>1. /\ o \in Seq(ItemsTo(t)) /\ Len(o) = k + 1 /\ o[1] = x
        /\ \A i \in 1..k : o[i + 1] = r[i]
    OBVIOUS
  <1>2. /\ w \in Seq(ItemsTo(t)) /\ Len(w) = m + (k + 1)
        /\ \A i \in 1..m : w[i] = Terminal(g[i])
        /\ \A i \in 1..(k + 1) : w[m + i] = o[i]
    BY <1>1, WayFacts
  <1>3. /\ v \in Seq(ItemsTo(t)) /\ DOMAIN v = 1..(m + k) /\ m \in Nat /\ k \in Nat
        /\ \A i \in 1..m : v[i] = Terminal(g[i])
        /\ \A i \in 1..k : v[m + i] = r[i]
    BY WayFacts
  <1>4. Good(w, in, t)
    OBVIOUS
  <1>5. \/ x.is # "Terminal"
        \/ /\ k >= 1 /\ x.is = "Terminal" /\ r[1].is = "Terminal"
           /\ in[x.number] = "drag" /\ in[r[1].number] = "drag"
    <2>1. r # <<>> => k >= 1
      OBVIOUS
    <2> QED BY <2>1
  <1> HIDE DEF o, w, v, m, k
  <1>6. p \in 1..Len(w) /\ DOMAIN v = 1..(Len(w) - 1) /\ w[p] = x
    <2>1. 1 \in 1..(k + 1)
      BY <1>3
    <2> QED BY <1>1, <1>2, <1>3, <2>1
  <1>7. k >= 1 => p < Len(w) /\ w[p + 1] = r[1]
    <2>1. k >= 1 => 2 \in 1..(k + 1) /\ 1 \in 1..k /\ m + 2 = p + 1
      BY <1>3
    <2> QED BY <1>1, <1>2, <1>3, <2>1
  <1>8. \A i \in 1..(Len(w) - 1) : v[i] = IF i < p THEN w[i] ELSE w[i + 1]
    <2>1. SUFFICES ASSUME NEW i \in 1..(m + k)
                   PROVE  v[i] = IF i < p THEN w[i] ELSE w[i + 1]
      BY <1>2, <1>3
    <2>2. CASE i < p
      <3>1. i \in 1..m
        BY <1>3, <2>2
      <3> QED BY <1>2, <1>3, <2>2, <3>1
    <2>3. CASE ~(i < p)
      <3> DEFINE j == i - m
      <3>1. j \in 1..k /\ m + j = i /\ j + 1 \in 1..(k + 1) /\ m + (j + 1) = i + 1
        BY <1>3, <2>3
      <3> HIDE DEF j
      <3>2. v[i] = r[j] /\ w[i + 1] = o[j + 1]
        BY <1>2, <1>3, <3>1
      <3> QED BY <1>1, <2>3, <3>1, <3>2
    <2> QED BY <2>2, <2>3
  <1>9. \/ w[p].is # "Terminal"
        \/ /\ p < Len(w) /\ w[p].is = "Terminal" /\ w[p + 1].is = "Terminal"
           /\ in[w[p].number] = "drag" /\ in[w[p + 1].number] = "drag"
    BY <1>5, <1>6, <1>7
  <1> HIDE DEF p
  <1>10. Good(v, in, t)
    BY <1>2, <1>4, <1>6, <1>8, <1>9, ItemIsLeftOut
  <1> QED BY <1>10 DEF v

-----------------------------------------------------------------------------
(***************************************************************************)
(* The rows of the wheel.                                                  *)
(***************************************************************************)

\* The rows of a sequence of items, when one is put behind it or before it.
LEMMA DeltasJoined ==
    ASSUME NEW t \in Nat, NEW o \in Seq(ItemsTo(t)), NEW x \in ItemsTo(t)
    PROVE  /\ Total(Deltas(o)) \in Int
           /\ Total(Deltas(Append(o, x))) = Total(Deltas(o)) + x.delta
           /\ Total(Deltas(<<x>> \o o)) = x.delta + Total(Deltas(o))
  <1> DEFINE ds == Deltas(o)
             one == <<x.delta>>
             n == Len(o)
  <1>1. x.delta \in Int /\ \A i \in 1..n : o[i].delta \in Int
    <2>1. \A i \in 1..n : o[i] \in ItemsTo(t)
      OBVIOUS
    <2> QED BY <2>1, ItemFacts
  <1>2. ds \in Seq(Int) /\ Len(ds) = n /\ n \in Nat /\ \A i \in 1..n : ds[i] = o[i].delta
    <2>1. DOMAIN o = 1..n /\ n \in Nat
      OBVIOUS
    <2> QED BY <1>1, <2>1 DEF Deltas
  <1>3. one \in Seq(Int) /\ Len(one) = 1 /\ one[1] = x.delta
    BY <1>1
  <1>4. Deltas(Append(o, x)) = ds \o one
    <2> DEFINE a == Append(o, x)
    <2>1. DOMAIN a = 1..(n + 1) /\ a[n + 1] = x /\ \A i \in 1..n : a[i] = o[i]
      OBVIOUS
    <2> HIDE DEF a
    <2>2. Deltas(a) = [i \in 1..(n + 1) |-> a[i].delta]
      BY <2>1 DEF Deltas
    <2> DEFINE b == ds \o one
    <2>3. b \in Seq(Int) /\ Len(b) = n + 1 /\ b[n + 1] = x.delta /\ \A i \in 1..n : b[i] = ds[i]
      BY <1>2, <1>3
    <2> HIDE DEF b, ds, one, n
    <2>4. b = [i \in 1..(n + 1) |-> b[i]]
      BY <2>3
    <2>5. \A i \in 1..(n + 1) : b[i] = a[i].delta
      BY <1>2, <2>1, <2>3
    <2>6. Deltas(a) = b
      BY <2>2, <2>4, <2>5
    <2> QED BY <2>6 DEF a, b
  <1>5. Deltas(<<x>> \o o) = one \o ds
    <2> DEFINE a == <<x>> \o o
    <2>1. DOMAIN a = 1..(n + 1) /\ a[1] = x /\ \A i \in 1..n : a[i + 1] = o[i]
      OBVIOUS
    <2> HIDE DEF a
    <2>2. Deltas(a) = [i \in 1..(n + 1) |-> a[i].delta]
      BY <2>1 DEF Deltas
    <2> DEFINE b == one \o ds
    <2>3. b \in Seq(Int) /\ Len(b) = n + 1 /\ b[1] = x.delta /\ \A i \in 1..n : b[i + 1] = ds[i]
      BY <1>2, <1>3
    <2> HIDE DEF b, ds, one, n
    <2>4. b = [i \in 1..(n + 1) |-> b[i]]
      BY <2>3
    <2>5. ASSUME NEW i \in 1..(n + 1) PROVE b[i] = a[i].delta
      <3>1. CASE i = 1
        BY <2>1, <2>3, <3>1
      <3>2. CASE i # 1
        <4>1. i - 1 \in 1..n /\ (i - 1) + 1 = i
          BY <1>2, <3>2
        <4>2. b[i] = ds[i - 1] /\ a[i] = o[i - 1]
          BY <2>1, <2>3, <4>1
        <4> QED BY <1>2, <4>1, <4>2
      <3> QED BY <3>1, <3>2
    <2>6. Deltas(a) = b
      BY <2>2, <2>4, <2>5
    <2> QED BY <2>6 DEF a, b
  <1>6. Total(one) = x.delta
    BY <1>1, TotalOfFew
  <1>7. Total(ds) \in Int
    BY <1>2, TotalFacts
  <1> HIDE DEF ds, one
  <1>8. Total(ds \o one) = Total(ds) + Total(one) /\ Total(one \o ds) = Total(one) + Total(ds)
    BY <1>2, <1>3, TotalConcat
  <1> QED BY <1>4, <1>5, <1>6, <1>7, <1>8 DEF ds

\* The rows of the first t events.
RowsOf(in, t) == Total([n \in 1..t |-> WheelDelta(in[n])])

\* The rows of one more.
LEMMA RowsRead ==
    ASSUME NEW in, NEW t \in Nat
    PROVE  /\ RowsOf(in, t) \in Int /\ WheelDelta(in[t + 1]) \in Int
           /\ RowsOf(in, t + 1) = RowsOf(in, t) + WheelDelta(in[t + 1])
  <1> DEFINE f == [n \in 1..t |-> WheelDelta(in[n])]
             g == [n \in 1..(t + 1) |-> WheelDelta(in[n])]
             x == WheelDelta(in[t + 1])
  <1>1. \A kind : WheelDelta(kind) \in Int
    <2>1. Rows \in Int /\ -Rows \in Int
      BY InputAssumption
    <2> QED BY <2>1 DEF WheelDelta
  <1>2. f \in Seq(Int) /\ Len(f) = t /\ x \in Int
    BY <1>1
  <1>3. <<x>> \in Seq(Int) /\ Len(<<x>>) = 1 /\ <<x>>[1] = x
    BY <1>2
  <1>4. g = f \o <<x>>
    <2> HIDE DEF x
    <2> DEFINE h == f \o <<x>>
    <2>1. Len(h) = t + 1 /\ h \in Seq(Int) /\ h[t + 1] = x /\ \A i \in 1..t : h[i] = f[i]
      BY <1>2, <1>3
    <2> HIDE DEF h
    <2>2. h = [i \in 1..(t + 1) |-> h[i]]
      BY <2>1
    <2>3. \A i \in 1..(t + 1) : h[i] = g[i]
      BY <2>1 DEF x
    <2>4. h = g
      BY <2>2, <2>3
    <2> QED BY <2>4 DEF h
  <1> HIDE DEF f, g, x
  <1>5. Total(g) = Total(f) + x /\ Total(f) \in Int
    <2>1. Total(f \o <<x>>) = Total(f) + Total(<<x>>)
      BY <1>2, <1>3, TotalConcat
    <2>2. Total(<<x>>) = x
      BY <1>2, TotalOfFew
    <2>3. Total(f) \in Int
      BY <1>2, TotalFacts
    <2> QED BY <1>4, <2>1, <2>2, <2>3
  <1> QED BY <1>1, <1>5 DEF RowsOf, f, g, x

-----------------------------------------------------------------------------
(***************************************************************************)
(* The way carries all of the input: g is what the program was given, o is *)
(* on its way, s are the rows that are scrolled or pending.                *)
(***************************************************************************)
Carries(g, o, in, t, s) ==
    /\ t \in Nat /\ s \in Int /\ g \in Seq(1..t) /\ o \in Seq(ItemsTo(t))
    /\ Good(WayOf(g, o), in, t)
    /\ s + Total(Deltas(o)) = RowsOf(in, t)

\* What is a sequence for fewer events is one for more.
LEMMA SequencesGrow ==
    ASSUME NEW t \in Nat
    PROVE  /\ Seq(1..t) \subseteq Seq(1..(t + 1))
           /\ Seq(ItemsTo(t)) \subseteq Seq(ItemsTo(t + 1))
  <1>1. 1..t \subseteq 1..(t + 1) /\ ItemsTo(t) \subseteq ItemsTo(t + 1)
    BY SomeItems
  <1> QED BY <1>1, SeqMonotonic

\* The reader sends on an event that is not the wheel's.
LEMMA CarriesEvent ==
    ASSUME NEW g, NEW o, NEW in, NEW t, NEW s, Carries(g, o, in, t, s),
           in[t + 1] \notin {"wheel_up", "wheel_down"}
    PROVE  Carries(g, Append(o, Terminal(t + 1)), in, t + 1, s)
  <1> DEFINE u == t + 1
             x == Terminal(u)
  <1>1. /\ t \in Nat /\ s \in Int /\ g \in Seq(1..t) /\ o \in Seq(ItemsTo(t))
        /\ Good(WayOf(g, o), in, t) /\ s + Total(Deltas(o)) = RowsOf(in, t)
    BY DEF Carries
  <1>2. u \in Nat /\ g \in Seq(1..u) /\ o \in Seq(ItemsTo(u)) /\ x \in ItemsTo(u) /\ u \in 1..u
    BY <1>1, SequencesGrow, SomeItems
  <1>3. Append(o, x) \in Seq(ItemsTo(u))
    BY <1>2
  <1>4. WayOf(g, Append(o, x)) = Append(WayOf(g, o), x)
    BY <1>2, WayJoined
  <1>5. Good(WayOf(g, Append(o, x)), in, u)
    <2> DEFINE w == WayOf(g, o)
    <2>1. w \in Seq(ItemsTo(t)) /\ Good(w, in, t)
      BY <1>1, WayFacts
    <2> HIDE DEF w
    <2>2. Good(Append(w, Terminal(t + 1)), in, t + 1)
      BY <1>1, <2>1, TerminalJoins
    <2> QED BY <1>4, <2>2 DEF w
  <1>6. x.delta = 0
    BY DEF Terminal
  <1>7. WheelDelta(in[u]) = 0
    BY DEF WheelDelta
  <1>8. RowsOf(in, u) = RowsOf(in, t) + WheelDelta(in[u]) /\ RowsOf(in, t) \in Int
    BY <1>1, RowsRead
  <1>9. Total(Deltas(Append(o, x))) = Total(Deltas(o)) + x.delta /\ Total(Deltas(o)) \in Int
    BY <1>2, DeltasJoined
  <1> HIDE DEF u, x
  <1>10. s + Total(Deltas(Append(o, x))) = RowsOf(in, u)
    BY <1>1, <1>6, <1>7, <1>8, <1>9
  <1>11. Carries(g, Append(o, x), in, u, s)
    BY <1>1, <1>2, <1>3, <1>5, <1>10 DEF Carries
  <1> QED BY <1>11 DEF u, x

\* The reader sends a scroll or the end.
LEMMA CarriesOther ==
    ASSUME NEW g, NEW o, NEW in, NEW t, NEW s, Carries(g, o, in, t, s),
           NEW x \in ItemsTo(t), x.is # "Terminal"
    PROVE  Carries(g, Append(o, x), in, t, s - x.delta)
  <1>1. /\ t \in Nat /\ s \in Int /\ g \in Seq(1..t) /\ o \in Seq(ItemsTo(t))
        /\ Good(WayOf(g, o), in, t) /\ s + Total(Deltas(o)) = RowsOf(in, t)
    BY DEF Carries
  <1>2. Append(o, x) \in Seq(ItemsTo(t)) /\ x.delta \in Int
    BY <1>1, ItemFacts
  <1>3. WayOf(g, Append(o, x)) = Append(WayOf(g, o), x)
    BY <1>1, WayJoined
  <1>4. Good(WayOf(g, Append(o, x)), in, t)
    BY <1>1, <1>3, WayFacts, OtherJoins
  <1>5. Total(Deltas(Append(o, x))) = Total(Deltas(o)) + x.delta /\ Total(Deltas(o)) \in Int
    BY <1>1, DeltasJoined
  <1>6. (s - x.delta) + Total(Deltas(Append(o, x))) = RowsOf(in, t) /\ s - x.delta \in Int
    BY <1>1, <1>2, <1>5
  <1> QED BY <1>1, <1>2, <1>4, <1>6 DEF Carries

\* The reader adds a report of the wheel to what is pending.
LEMMA CarriesWheel ==
    ASSUME NEW g, NEW o, NEW in, NEW t, NEW s, Carries(g, o, in, t, s),
           in[t + 1] \in {"wheel_up", "wheel_down"}
    PROVE  Carries(g, o, in, t + 1, s + WheelDelta(in[t + 1]))
  <1>1. /\ t \in Nat /\ s \in Int /\ g \in Seq(1..t) /\ o \in Seq(ItemsTo(t))
        /\ Good(WayOf(g, o), in, t) /\ s + Total(Deltas(o)) = RowsOf(in, t)
    BY DEF Carries
  <1>2. g \in Seq(1..(t + 1)) /\ o \in Seq(ItemsTo(t + 1)) /\ t + 1 \in Nat
    BY <1>1, SequencesGrow
  <1>3. Good(WayOf(g, o), in, t + 1)
    BY <1>1, WheelIsRead
  <1>4. /\ RowsOf(in, t + 1) = RowsOf(in, t) + WheelDelta(in[t + 1])
        /\ RowsOf(in, t) \in Int /\ WheelDelta(in[t + 1]) \in Int
    BY <1>1, RowsRead
  <1>5. Total(Deltas(o)) \in Int
    <2>1. ClosedEvent \in ItemsTo(t)
      BY <1>1, SomeItems
    <2> QED BY <1>1, <2>1, DeltasJoined
  <1>6. (s + WheelDelta(in[t + 1])) + Total(Deltas(o)) = RowsOf(in, t + 1)
    BY <1>1, <1>4, <1>5
  <1> QED BY <1>1, <1>2, <1>3, <1>4, <1>6 DEF Carries

\* The user goes on.
LEMMA CarriesInput ==
    ASSUME NEW g, NEW o, NEW in \in Seq(Kinds), NEW t \in 0..Len(in), NEW s,
           Carries(g, o, in, t, s), NEW kind \in Kinds
    PROVE  Carries(g, o, Append(in, kind), t, s)
  <1>1. /\ t \in Nat /\ s \in Int /\ g \in Seq(1..t) /\ o \in Seq(ItemsTo(t))
        /\ Good(WayOf(g, o), in, t) /\ s + Total(Deltas(o)) = RowsOf(in, t)
    BY DEF Carries
  <1>2. Good(WayOf(g, o), Append(in, kind), t)
    BY <1>1, InputGrows
  <1>3. RowsOf(Append(in, kind), t) = RowsOf(in, t)
    <2>1. \A n \in 1..t : Append(in, kind)[n] = in[n]
      OBVIOUS
    <2>2. [n \in 1..t |-> WheelDelta(Append(in, kind)[n])] = [n \in 1..t |-> WheelDelta(in[n])]
      BY <2>1
    <2> QED BY <2>2 DEF RowsOf
  <1> QED BY <1>1, <1>2, <1>3 DEF Carries

\* The program is given the first event that is on its way.
LEMMA CarriesGiven ==
    ASSUME NEW g, NEW r, NEW in, NEW t \in Nat, NEW s, NEW n \in 1..t, r \in Seq(ItemsTo(t)),
           Carries(g, <<Terminal(n)>> \o r, in, t, s)
    PROVE  Carries(Append(g, n), r, in, t, s)
  <1> DEFINE x == Terminal(n)
  <1>1. /\ s \in Int /\ g \in Seq(1..t)
        /\ Good(WayOf(g, <<x>> \o r), in, t) /\ s + Total(Deltas(<<x>> \o r)) = RowsOf(in, t)
    BY DEF Carries
  <1>2. Good(WayOf(Append(g, n), r), in, t)
    BY <1>1, WayHandedOn
  <1>3. x \in ItemsTo(t) /\ x.delta = 0
    BY SomeItems DEF Terminal
  <1>4. Total(Deltas(<<x>> \o r)) = x.delta + Total(Deltas(r)) /\ Total(Deltas(r)) \in Int
    BY <1>3, DeltasJoined
  <1>5. Append(g, n) \in Seq(1..t)
    BY <1>1
  <1> HIDE DEF x
  <1>6. s + Total(Deltas(r)) = RowsOf(in, t)
    BY <1>1, <1>3, <1>4
  <1> QED BY <1>1, <1>2, <1>5, <1>6 DEF Carries

\* The program scrolls, or a drag is left out for the next.
LEMMA CarriesWithout ==
    ASSUME NEW g, NEW r, NEW in, NEW t \in Nat, NEW s, NEW x \in ItemsTo(t), r \in Seq(ItemsTo(t)),
           Carries(g, <<x>> \o r, in, t, s),
           \/ x.is # "Terminal"
           \/ /\ r # <<>> /\ x.is = "Terminal" /\ r[1].is = "Terminal"
              /\ in[x.number] = "drag" /\ in[r[1].number] = "drag"
    PROVE  Carries(g, r, in, t, s + x.delta)
  <1>1. /\ s \in Int /\ g \in Seq(1..t)
        /\ Good(WayOf(g, <<x>> \o r), in, t) /\ s + Total(Deltas(<<x>> \o r)) = RowsOf(in, t)
    BY DEF Carries
  <1>2. Good(WayOf(g, r), in, t)
    BY <1>1, WayWithout
  <1>3. Total(Deltas(<<x>> \o r)) = x.delta + Total(Deltas(r)) /\ Total(Deltas(r)) \in Int
    BY DeltasJoined
  <1>4. x.delta \in Int
    BY ItemFacts
  <1>5. (s + x.delta) + Total(Deltas(r)) = RowsOf(in, t) /\ s + x.delta \in Int
    BY <1>1, <1>3, <1>4
  <1> QED BY <1>1, <1>2, <1>5 DEF Carries

-----------------------------------------------------------------------------
(***************************************************************************)
(* The invariant.                                                          *)
(***************************************************************************)
\* While drags are drained nothing is put back, and the latest is a drag.
DrainInv ==
    app.pc = "coalesce" => pending = <<>> /\ app.latest \in 1..taken /\ input[app.latest] = "drag"

InputInv ==
    /\ TypeOK
    /\ app.pc # "off" => DrainInv /\ Carries(got, OnItsWay, input, taken, rows + reader.delta)

\* What is on its way for an application a, what it put back and a channel.
OnWayOf(a, p, c) == (IF a.pc = "coalesce" THEN <<Terminal(a.latest)>> ELSE <<>>) \o p \o c

\* It has items, and what is sent joins at the end.
LEMMA SentJoins ==
    ASSUME NEW t \in Nat, NEW a, a.pc = "coalesce" => a.latest \in 1..t,
           NEW p \in Seq(ItemsTo(t)), NEW c \in Seq(ItemsTo(t)), NEW x \in ItemsTo(t)
    PROVE  /\ OnWayOf(a, p, c) \in Seq(ItemsTo(t))
           /\ OnWayOf(a, p, Append(c, x)) = Append(OnWayOf(a, p, c), x)
  <1> DEFINE first == IF a.pc = "coalesce" THEN <<Terminal(a.latest)>> ELSE <<>>
             M == ItemsTo(t)
  <1>1. first \in Seq(M)
    <2>1. CASE a.pc = "coalesce"
      <3>1. Terminal(a.latest) \in M
        BY <2>1, SomeItems
      <3> QED BY <2>1, <3>1
    <2>2. CASE a.pc # "coalesce"
      BY <2>2
    <2> QED BY <2>1, <2>2
  <1>2. p \in Seq(M) /\ c \in Seq(M) /\ x \in M
    OBVIOUS
  <1> HIDE DEF first, M
  <1>3. first \o p \in Seq(M)
    BY <1>1, <1>2
  <1> DEFINE u == first \o p
  <1>4. u \in Seq(M)
    BY <1>3
  <1> HIDE DEF u
  <1>5. u \o c \in Seq(M) /\ u \o Append(c, x) = Append(u \o c, x)
    <2>1. <<x>> \in Seq(M)
      BY <1>2
    <2>2. Append(c, x) = c \o <<x>> /\ Append(u \o c, x) = (u \o c) \o <<x>>
      BY <1>2, <1>4, ConcatProperties, AppendIsConcat
    <2>3. u \o (c \o <<x>>) = (u \o c) \o <<x>>
      BY <1>2, <1>4, <2>1, ConcatAssociative
    <2> QED BY <1>2, <1>4, <2>2, <2>3, ConcatProperties
  <1> QED BY <1>5 DEF OnWayOf, u, first, M

\* What TypeOK says, with the items named by their number.
LEMMA Typed ==
    TypeOK <=>
        /\ input \in Seq(Kinds) /\ taken \in 0..Len(input)
        /\ reader \in [pc : {"poll", "burst", "look", "done"}, delta : Int]
        /\ channel \in Seq(ItemsTo(taken))
        /\ pending \in Seq(ItemsTo(taken)) /\ Len(pending) <= 1
        /\ app \in [pc : {"receive", "coalesce", "off"}, latest : 0..taken]
        /\ got \in Seq(1..taken) /\ rows \in Int
  BY DEF TypeOK, Item, ItemsTo

\* The same of the next state.
LEMMA TypedNext ==
    ASSUME NEW t, taken' = t,
           input' \in Seq(Kinds) /\ t \in 0..Len(input'),
           reader' \in [pc : {"poll", "burst", "look", "done"}, delta : Int],
           channel' \in Seq(ItemsTo(t)),
           pending' \in Seq(ItemsTo(t)) /\ Len(pending') <= 1,
           app' \in [pc : {"receive", "coalesce", "off"}, latest : 0..t],
           got' \in Seq(1..t) /\ rows' \in Int
    PROVE  TypeOK'
  BY DEF TypeOK, Item, ItemsTo

\* The next event is one of those that were read, once it is.
LEMMA UpcomingFacts ==
    ASSUME TypeOK, Ready
    PROVE  /\ taken \in Nat /\ Upcoming = taken + 1 /\ Upcoming \in 0..Len(input)
           /\ channel \in Seq(ItemsTo(Upcoming)) /\ pending \in Seq(ItemsTo(Upcoming))
           /\ app \in [pc : {"receive", "coalesce", "off"}, latest : 0..Upcoming]
           /\ got \in Seq(1..Upcoming)
           /\ WheelDelta(input[Upcoming]) \in Int
           /\ Terminal(Upcoming) \in ItemsTo(Upcoming)
           /\ IsWheel(Upcoming) <=> input[taken + 1] \in {"wheel_up", "wheel_down"}
  <1>1. taken \in Nat /\ Len(input) \in Nat /\ taken < Len(input) /\ Upcoming = taken + 1
    BY DEF TypeOK, Ready, Upcoming
  <1>2. Upcoming \in 0..Len(input) /\ Upcoming \in 1..Upcoming /\ 0..taken \subseteq 0..Upcoming
    BY <1>1
  <1>3. channel \in Seq(ItemsTo(Upcoming)) /\ pending \in Seq(ItemsTo(Upcoming)) /\ got \in Seq(1..Upcoming)
    BY <1>1, Typed, SequencesGrow
  <1>4. app \in [pc : {"receive", "coalesce", "off"}, latest : 0..Upcoming]
    BY <1>2 DEF TypeOK
  <1>5. WheelDelta(input[Upcoming]) \in Int
    BY <1>1, RowsRead
  <1>6. Terminal(Upcoming) \in ItemsTo(Upcoming)
    BY <1>1, <1>2, SomeItems
  <1> QED BY <1>1, <1>2, <1>3, <1>4, <1>5, <1>6 DEF IsWheel

\* At first nothing was read.
LEMMA InputInit == Init => InputInv
  <1> SUFFICES ASSUME Init PROVE InputInv
    OBVIOUS
  <1> DEFINE none == <<>>
  <1>1. /\ input = none /\ taken = 0 /\ reader = [pc |-> "poll", delta |-> 0]
        /\ channel = none /\ pending = none /\ app = [pc |-> "receive", latest |-> 0]
        /\ got = none /\ rows = 0
    BY DEF Init, Idle, NoEvent
  <1>2. /\ none \in Seq(Kinds) /\ none \in Seq(ItemsTo(0)) /\ none \in Seq(1..0)
        /\ Len(none) = 0 /\ 0 \in 0..0
    OBVIOUS
  <1>3. TypeOK
    BY <1>1, <1>2, Typed
  <1>4. OnItsWay = <<>> /\ DOMAIN got = {}
    BY <1>1 DEF OnItsWay
  <1>5. WayOf(got, OnItsWay) = <<>>
    BY <1>1, <1>4 DEF WayOf
  <1>6. Good(<<>>, input, 0)
    BY DEF Good, NoneMissing, InOrder, DragsFollow
  <1>7. Total(Deltas(<<>>)) = 0
    <2>1. Deltas(<<>>) = <<>>
      BY DEF Deltas
    <2> QED BY <2>1, TotalOfFew
  <1>8. RowsOf(input, 0) = 0
    <2>1. [n \in 1..0 |-> WheelDelta(input[n])] = <<>>
      OBVIOUS
    <2> QED BY <2>1, TotalOfFew DEF RowsOf
  <1>9. Carries(got, OnItsWay, input, taken, rows + reader.delta)
    BY <1>1, <1>2, <1>4, <1>5, <1>6, <1>7, <1>8 DEF Carries
  <1> QED BY <1>1, <1>3, <1>9 DEF InputInv, DrainInv

\* The user goes on.
LEMMA InputKeeps == InputInv /\ Input => InputInv'
  <1> SUFFICES ASSUME InputInv, Input PROVE InputInv'
    OBVIOUS
  <1>1. PICK kind \in Kinds : input' = Append(input, kind)
    BY DEF Input
  <1>2. /\ taken' = taken /\ reader' = reader /\ channel' = channel /\ pending' = pending
        /\ app' = app /\ got' = got /\ rows' = rows
    BY DEF Input
  <1>3. TypeOK /\ input \in Seq(Kinds) /\ taken \in 0..Len(input)
    BY DEF InputInv, TypeOK
  <1>4. /\ input' \in Seq(Kinds) /\ taken \in 0..Len(input')
        /\ \A n \in 1..taken : input'[n] = input[n]
    BY <1>1, <1>3
  <1>5. TypeOK'
    BY <1>2, <1>3, <1>4 DEF TypeOK, Item
  <1>6. ASSUME app'.pc # "off"
        PROVE  DrainInv' /\ Carries(got, OnItsWay, input, taken, rows + reader.delta)'
    <2>1. DrainInv /\ Carries(got, OnItsWay, input, taken, rows + reader.delta)
      BY <1>2, <1>6 DEF InputInv
    <2>2. DrainInv'
      BY <1>2, <1>4, <2>1 DEF DrainInv
    <2>3. OnItsWay' = OnItsWay
      BY <1>2 DEF OnItsWay
    <2>4. Carries(got, OnItsWay, input', taken, rows + reader.delta)
      BY <1>1, <1>3, <2>1, CarriesInput
    <2> QED BY <1>2, <2>2, <2>3, <2>4
  <1> QED BY <1>5, <1>6 DEF InputInv

\* What is on its way grows with the channel.
LEMMA ChannelGrows ==
    ASSUME NEW t \in Nat, DrainInv, taken <= t, taken \in Nat, pending \in Seq(ItemsTo(t)),
           NEW c \in Seq(ItemsTo(t)), NEW x \in ItemsTo(t), NEW o, o = OnWayOf(app, pending, c)
    PROVE  OnWayOf(app, pending, Append(c, x)) = Append(o, x)
  <1>1. app.pc = "coalesce" => app.latest \in 1..t
    BY DEF DrainInv
  <1> QED BY <1>1, SentJoins

\* The reader takes a report of the wheel.
LEMMA WheelKeeps ==
    ASSUME InputInv, Ready, IsWheel(Upcoming), taken' = Upcoming,
           reader' = [pc |-> "burst", delta |-> reader.delta + WheelDelta(input[Upcoming])],
           UNCHANGED <<channel, input, pending, app, got, rows>>
    PROVE  InputInv'
  <1>1. TypeOK /\ reader.delta \in Int /\ rows \in Int
    BY DEF InputInv, TypeOK
  <1>2. TypeOK'
    BY <1>1, UpcomingFacts, Typed, TypedNext
  <1>3. ASSUME app'.pc # "off"
        PROVE  DrainInv' /\ Carries(got, OnItsWay, input, taken, rows + reader.delta)'
    <2>1. DrainInv /\ Carries(got, OnItsWay, input, taken, rows + reader.delta)
      BY <1>3 DEF InputInv
    <2>2. DrainInv'
      BY <1>1, <2>1, UpcomingFacts DEF DrainInv
    <2>3. Carries(got, OnItsWay, input, taken + 1, (rows + reader.delta) + WheelDelta(input[taken + 1]))
      BY <1>1, <2>1, UpcomingFacts, CarriesWheel
    <2>4. (rows + reader.delta) + WheelDelta(input[taken + 1]) = rows' + reader'.delta
      BY <1>1, UpcomingFacts
    <2>5. OnItsWay' = OnItsWay /\ taken' = taken + 1 /\ input' = input /\ got' = got
      BY <1>1, UpcomingFacts DEF OnItsWay
    <2> QED BY <2>2, <2>3, <2>4, <2>5
  <1> QED BY <1>2, <1>3 DEF InputInv

\* A thread that ends without sending changes nothing for the program.
LEMMA ReaderAlone ==
    ASSUME InputInv, reader' \in [pc : {"poll", "burst", "look", "done"}, delta : Int],
           app.pc # "off" => reader'.delta = reader.delta,
           \/ taken' = taken
           \/ app.pc = "off" /\ Ready /\ taken' = Upcoming,
           UNCHANGED <<channel, input, pending, app, got, rows>>
    PROVE  InputInv'
  <1>1. TypeOK
    BY DEF InputInv
  <1>2. TypeOK'
    <2>1. CASE taken' = taken
      BY <1>1, <2>1, Typed, TypedNext
    <2>2. CASE Ready /\ taken' = Upcoming
      BY <1>1, <2>2, UpcomingFacts, Typed, TypedNext
    <2> QED BY <2>1, <2>2
  <1>3. ASSUME app'.pc # "off"
        PROVE  DrainInv' /\ Carries(got, OnItsWay, input, taken, rows + reader.delta)'
    <2>1. DrainInv /\ Carries(got, OnItsWay, input, taken, rows + reader.delta) /\ taken' = taken
      BY <1>3 DEF InputInv
    <2>2. OnItsWay' = OnItsWay /\ DrainInv' /\ rows' + reader'.delta = rows + reader.delta
      BY <1>3, <2>1 DEF OnItsWay, DrainInv
    <2> QED BY <2>1, <2>2
  <1> QED BY <1>2, <1>3 DEF InputInv

\* The reader sends the event it has taken, if its rows are not pending or sent
\* before it.
LEMMA EventKeeps ==
    ASSUME InputInv, Ready, ~IsWheel(Upcoming), taken' = Upcoming, app.pc # "off",
           \/ reader' = reader /\ channel' = channel \o <<Terminal(Upcoming)>>
           \/ /\ reader' = Idle
              /\ channel' = channel \o <<ScrollDelta(reader.delta), Terminal(Upcoming)>>,
           UNCHANGED <<input, pending, app, got, rows>>
    PROVE  InputInv'
  <1> DEFINE u == Upcoming
             t == taken
             x == Terminal(u)
             y == ScrollDelta(reader.delta)
             d == rows + reader.delta
             c == Append(channel, y)
  <1>1. /\ TypeOK /\ reader.delta \in Int /\ rows \in Int /\ d \in Int /\ DrainInv
        /\ reader \in [pc : {"poll", "burst", "look", "done"}, delta : Int]
        /\ Carries(got, OnItsWay, input, t, d) /\ t \in Nat
        /\ channel \in Seq(ItemsTo(t)) /\ pending \in Seq(ItemsTo(t))
    BY Typed DEF InputInv
  <1>2. /\ u = t + 1 /\ u \in 0..Len(input) /\ x \in ItemsTo(u) /\ u \in Nat
        /\ channel \in Seq(ItemsTo(u)) /\ pending \in Seq(ItemsTo(u)) /\ t <= u
    BY <1>1, UpcomingFacts
  <1>3. y \in ItemsTo(t) /\ y \in ItemsTo(u) /\ y.delta = reader.delta /\ y.is # "Terminal"
    BY <1>1, <1>2, SomeItems DEF ScrollDelta
  <1>4. c \in Seq(ItemsTo(t)) /\ c \in Seq(ItemsTo(u))
    BY <1>1, <1>2, <1>3
  <1>5. OnItsWay = OnWayOf(app, pending, channel) /\ OnItsWay' = OnWayOf(app, pending, channel')
    BY DEF OnItsWay, OnWayOf
  <1>6. input[t + 1] \notin {"wheel_up", "wheel_down"}
    BY <1>1, UpcomingFacts
  <1>7. \/ reader' = reader /\ channel' = Append(channel, x)
        \/ reader' = [pc |-> "poll", delta |-> 0] /\ channel' = Append(c, x)
    <2>1. channel \o <<x>> = Append(channel, x)
      BY <1>2
    <2>2. channel \o <<y, x>> = Append(Append(channel, y), x)
      BY <1>2, <1>3
    <2> QED BY <2>1, <2>2 DEF Idle
  <1> HIDE DEF u, t, x, y, d, c
  <1>8. channel' \in Seq(ItemsTo(u))
    <2> DEFINE M == ItemsTo(u)
    <2>1. x \in M /\ channel \in Seq(M) /\ c \in Seq(M)
      BY <1>2, <1>4
    <2> HIDE DEF M
    <2>2. Append(channel, x) \in Seq(M) /\ Append(c, x) \in Seq(M)
      BY <2>1, AppendProperties
    <2>3. channel' = Append(channel, x) \/ channel' = Append(c, x)
      BY <1>7
    <2> QED BY <2>2, <2>3 DEF M
  <1>9. TypeOK'
    <2>1. reader' \in [pc : {"poll", "burst", "look", "done"}, delta : Int]
      BY <1>1, <1>7
    <2>2. taken' = u /\ input' = input /\ pending' = pending /\ app' = app /\ got' = got /\ rows' = rows
      BY DEF u
    <2>3. /\ pending \in Seq(ItemsTo(u)) /\ app \in [pc : {"receive", "coalesce", "off"}, latest : 0..u]
          /\ got \in Seq(1..u) /\ u \in 0..Len(input)
      BY <1>1, UpcomingFacts DEF u
    <2>4. Len(pending) <= 1 /\ input \in Seq(Kinds) /\ rows \in Int
      BY <1>1, Typed
    <2> QED BY <1>8, <2>1, <2>2, <2>3, <2>4, TypedNext
  <1>10. DrainInv'
    <2>1. app' = app /\ pending' = pending /\ input' = input /\ taken' = u
      BY DEF u
    <2>2. 1..t \subseteq 1..u
      BY <1>1, <1>2
    <2> QED BY <1>1, <2>1, <2>2 DEF DrainInv, t
  <1>11. Carries(got, OnItsWay', input, u, rows + reader'.delta)
    <2>1. CASE reader' = reader /\ channel' = Append(channel, x)
      <3>1. OnItsWay' = Append(OnItsWay, x)
        <4>1. taken <= u /\ taken \in Nat
          BY <1>1, <1>2 DEF t
        <4> QED BY <1>1, <1>2, <1>5, <2>1, <4>1, ChannelGrows
      <3>2. Carries(got, Append(OnItsWay, x), input, u, d)
        BY <1>1, <1>2, <1>6, CarriesEvent DEF x
      <3> QED BY <2>1, <3>1, <3>2 DEF d
    <2>2. CASE reader' = [pc |-> "poll", delta |-> 0] /\ channel' = Append(c, x)
      <3> DEFINE o == OnWayOf(app, pending, c)
      <3>1. o = Append(OnItsWay, y)
        <4>1. taken <= t /\ taken \in Nat
          BY <1>1 DEF t
        <4> QED BY <1>1, <1>3, <1>5, <4>1, ChannelGrows DEF c
      <3> HIDE DEF o
      <3>2. OnItsWay' = Append(o, x)
        <4>1. taken <= u /\ taken \in Nat
          BY <1>1, <1>2 DEF t
        <4> QED BY <1>1, <1>2, <1>4, <1>5, <2>2, <4>1, ChannelGrows DEF o
      <3>3. Carries(got, o, input, t, d - y.delta)
        BY <1>1, <1>3, <3>1, CarriesOther
      <3>4. Carries(got, Append(o, x), input, u, d - y.delta)
        BY <1>2, <1>6, <3>3, CarriesEvent DEF x
      <3>5. d - y.delta = rows + reader'.delta
        BY <1>1, <1>3, <2>2 DEF d
      <3> QED BY <3>2, <3>4, <3>5
    <2> QED BY <1>7, <2>1, <2>2
  <1>12. got' = got /\ input' = input /\ taken' = u /\ rows' = rows
    BY DEF u
  <1> QED BY <1>9, <1>10, <1>11, <1>12 DEF InputInv

\* The reader sends a scroll or the end, and nothing else happens.
LEMMA OtherKeeps ==
    ASSUME InputInv, app.pc # "off", NEW x \in ItemsTo(taken), x.is # "Terminal",
           channel' = channel \o <<x>>,
           reader' \in [pc : {"poll", "burst", "look", "done"}, delta : Int],
           reader.delta = reader'.delta + x.delta,
           UNCHANGED <<input, taken, pending, app, got, rows>>
    PROVE  InputInv'
  <1>1. /\ TypeOK /\ reader.delta \in Int /\ rows \in Int /\ DrainInv
        /\ Carries(got, OnItsWay, input, taken, rows + reader.delta) /\ taken \in Nat
        /\ channel \in Seq(ItemsTo(taken)) /\ pending \in Seq(ItemsTo(taken)) /\ taken <= taken
    BY Typed DEF InputInv
  <1>2. channel' = Append(channel, x) /\ channel' \in Seq(ItemsTo(taken))
    BY <1>1
  <1>3. TypeOK'
    BY <1>1, <1>2, Typed, TypedNext
  <1>4. OnItsWay = OnWayOf(app, pending, channel) /\ OnItsWay' = OnWayOf(app, pending, channel')
    BY DEF OnItsWay, OnWayOf
  <1>5. OnItsWay' = Append(OnItsWay, x)
    BY <1>1, <1>2, <1>4, ChannelGrows
  <1>6. Carries(got, OnItsWay', input, taken, (rows + reader.delta) - x.delta)
    BY <1>1, <1>5, CarriesOther
  <1>7. (rows + reader.delta) - x.delta = rows + reader'.delta
    BY <1>1, ItemFacts
  <1>8. DrainInv'
    BY <1>1 DEF DrainInv
  <1> QED BY <1>3, <1>6, <1>7, <1>8 DEF InputInv

\* What the reader sends to a program that has ended ends the reader.
LEMMA SendsSay ==
    ASSUME NEW items, NEW after, Sends(items, after), TypeOK
    PROVE  \/ /\ app.pc = "off" /\ channel' = channel
              /\ reader' \in [pc : {"poll", "burst", "look", "done"}, delta : Int]
           \/ app.pc # "off" /\ reader' = after /\ channel' = channel \o items
  BY DEF Sends, TypeOK

\* The reader, event by event.
LEMMA ReadEventKeeps == InputInv /\ ReadEvent => InputInv'
  <1> SUFFICES ASSUME InputInv, ReadEvent PROVE InputInv'
    OBVIOUS
  <1>1. /\ reader.pc = "poll" /\ Ready /\ taken' = Upcoming
        /\ UNCHANGED <<input, pending, app, got, rows>> /\ TypeOK
    BY DEF ReadEvent, InputInv
  <1>2. CASE IsWheel(Upcoming)
    <2>1. /\ reader' = [pc |-> "burst", delta |-> reader.delta + WheelDelta(input[Upcoming])]
          /\ UNCHANGED channel
      BY <1>2 DEF ReadEvent
    <2> QED BY <1>1, <1>2, <2>1, WheelKeeps
  <1>3. CASE ~IsWheel(Upcoming)
    <2>1. Sends(<<Terminal(Upcoming)>>, reader)
      BY <1>3 DEF ReadEvent
    <2>2. CASE /\ app.pc = "off" /\ channel' = channel
               /\ reader' \in [pc : {"poll", "burst", "look", "done"}, delta : Int]
      BY <1>1, <2>2, ReaderAlone
    <2>3. CASE app.pc # "off" /\ reader' = reader /\ channel' = channel \o <<Terminal(Upcoming)>>
      BY <1>1, <1>3, <2>3, EventKeeps
    <2> QED BY <1>1, <2>1, <2>2, <2>3, SendsSay
  <1> QED BY <1>2, <1>3

\* In a burst the wheel adds to the scroll; any other event ends the burst, and
\* the scroll is sent ahead of it.
LEMMA ReadBurstKeeps == InputInv /\ ReadBurst => InputInv'
  <1> SUFFICES ASSUME InputInv, ReadBurst PROVE InputInv'
    OBVIOUS
  <1>1. /\ reader.pc = "burst" /\ Ready /\ taken' = Upcoming
        /\ UNCHANGED <<input, pending, app, got, rows>> /\ TypeOK
    BY DEF ReadBurst, InputInv
  <1>2. CASE IsWheel(Upcoming)
    <2>1. /\ reader' = [reader EXCEPT !.delta = reader.delta + WheelDelta(input[Upcoming])]
          /\ UNCHANGED channel
      BY <1>2 DEF ReadBurst
    <2>2. reader \in [pc : {"poll", "burst", "look", "done"}, delta : Int]
      BY <1>1 DEF TypeOK
    <2>3. reader' = [pc |-> "burst", delta |-> reader.delta + WheelDelta(input[Upcoming])]
      BY <1>1, <2>1, <2>2
    <2> QED BY <1>1, <1>2, <2>1, <2>3, WheelKeeps
  <1>3. CASE ~IsWheel(Upcoming)
    <2>1. Sends(<<ScrollDelta(reader.delta), Terminal(Upcoming)>>, Idle)
      BY <1>3 DEF ReadBurst
    <2>2. CASE /\ app.pc = "off" /\ channel' = channel
               /\ reader' \in [pc : {"poll", "burst", "look", "done"}, delta : Int]
      BY <1>1, <2>2, ReaderAlone
    <2>3. CASE /\ app.pc # "off" /\ reader' = Idle
               /\ channel' = channel \o <<ScrollDelta(reader.delta), Terminal(Upcoming)>>
      BY <1>1, <1>3, <2>3, EventKeeps
    <2> QED BY <1>1, <2>1, <2>2, <2>3, SendsSay
  <1> QED BY <1>2, <1>3

\* The end of a burst, of which the program hears a scroll or nothing.
LEMMA BurstKeeps == InputInv /\ (BurstEnds \/ LookAgain) => InputInv'
  <1> SUFFICES ASSUME InputInv, BurstEnds \/ LookAgain PROVE InputInv'
    OBVIOUS
  <1>1. TypeOK /\ reader \in [pc : {"poll", "burst", "look", "done"}, delta : Int]
    BY DEF InputInv, TypeOK
  <1>2. UNCHANGED <<input, taken, pending, app, got, rows>>
    BY DEF BurstEnds, LookAgain
  <1>3. CASE /\ channel' = channel
             /\ \/ reader' = [reader EXCEPT !.pc = "look"]
                \/ reader' = [reader EXCEPT !.pc = "poll"]
    <2>1. reader' \in [pc : {"poll", "burst", "look", "done"}, delta : Int] /\ reader'.delta = reader.delta
      BY <1>1, <1>3
    <2> QED BY <1>2, <1>3, <2>1, ReaderAlone
  <1>4. CASE Sends(<<ScrollDelta(reader.delta)>>, Idle)
    <2>1. CASE /\ app.pc = "off" /\ channel' = channel
               /\ reader' \in [pc : {"poll", "burst", "look", "done"}, delta : Int]
      BY <1>2, <2>1, ReaderAlone
    <2>2. CASE app.pc # "off" /\ reader' = Idle /\ channel' = channel \o <<ScrollDelta(reader.delta)>>
      <3> DEFINE x == ScrollDelta(reader.delta)
      <3>1. x \in ItemsTo(taken) /\ x.is # "Terminal" /\ x.delta = reader.delta
        <4>1. taken \in Nat
          BY <1>1 DEF TypeOK
        <4> QED BY <1>1, <4>1, SomeItems DEF ScrollDelta
      <3>2. /\ reader' \in [pc : {"poll", "burst", "look", "done"}, delta : Int]
            /\ reader.delta = reader'.delta + x.delta
        BY <1>1, <2>2, <3>1 DEF Idle
      <3> HIDE DEF x
      <3>3. channel' = channel \o <<x>>
        BY <2>2 DEF x
      <3> QED BY <1>2, <2>2, <3>1, <3>2, <3>3, OtherKeeps
    <2> QED BY <1>1, <1>4, <2>1, <2>2, SendsSay
  <1> QED BY <1>3, <1>4 DEF BurstEnds, LookAgain

\* The terminal is gone.
LEMMA ReadFailsKeeps == InputInv /\ ReadFails => InputInv'
  <1> SUFFICES ASSUME InputInv, ReadFails PROVE InputInv'
    OBVIOUS
  <1>1. TypeOK /\ reader \in [pc : {"poll", "burst", "look", "done"}, delta : Int] /\ taken \in Nat
    BY DEF InputInv, TypeOK
  <1>2. /\ UNCHANGED <<input, taken, pending, app, got, rows>>
        /\ Sends(<<ClosedEvent>>, [reader EXCEPT !.pc = "done"])
    BY DEF ReadFails
  <1>3. CASE /\ app.pc = "off" /\ channel' = channel
             /\ reader' \in [pc : {"poll", "burst", "look", "done"}, delta : Int]
    BY <1>2, <1>3, ReaderAlone
  <1>4. CASE /\ app.pc # "off" /\ reader' = [reader EXCEPT !.pc = "done"]
             /\ channel' = channel \o <<ClosedEvent>>
    <2>1. ClosedEvent \in ItemsTo(taken) /\ ClosedEvent.is # "Terminal" /\ ClosedEvent.delta = 0
      BY <1>1, SomeItems DEF ClosedEvent
    <2>2. /\ reader' \in [pc : {"poll", "burst", "look", "done"}, delta : Int]
          /\ reader.delta = reader'.delta + ClosedEvent.delta
      BY <1>1, <1>4, <2>1
    <2> QED BY <1>2, <1>4, <2>1, <2>2, OtherKeeps
  <1> QED BY <1>1, <1>2, <1>3, <1>4, SendsSay

-----------------------------------------------------------------------------
(***************************************************************************)
(* The program.                                                            *)
(***************************************************************************)

\* It takes the first item x, and r is still on its way; d is true when another
\* drag takes the place of x.
LEMMA ItemKeeps ==
    ASSUME InputInv, app.pc # "off", NEW x \in ItemsTo(taken), NEW r \in Seq(ItemsTo(taken)),
           OnItsWay = <<x>> \o r, pending' \o channel' = r,
           channel' \in Seq(ItemsTo(taken)), pending' \in Seq(ItemsTo(taken)), Len(pending') <= 1,
           IsDrag(x) \/ Dispatched(x), IsDrag(x) => (app.pc # "coalesce" /\ Taken(x)) \/ Dispatched(x),
           IsDrag(x) /\ ~Dispatched(x) => pending' = <<>>,
           UNCHANGED <<input, taken, reader>>
    PROVE  InputInv'
  <1> DEFINE s == rows + reader.delta
  <1>1. /\ TypeOK /\ rows \in Int /\ reader.delta \in Int /\ s \in Int /\ taken \in Nat
        /\ Carries(got, <<x>> \o r, input, taken, s) /\ got \in Seq(1..taken)
        /\ input \in Seq(Kinds) /\ taken \in 0..Len(input)
        /\ reader \in [pc : {"poll", "burst", "look", "done"}, delta : Int]
    BY DEF InputInv, TypeOK
  <1>2. /\ x.delta \in Int /\ x.is \in {"Terminal", "ScrollDelta", "Closed"}
        /\ x.is = "Terminal" => x.number \in 1..taken /\ x = Terminal(x.number) /\ x.delta = 0
        /\ x.is = "Closed" => x.delta = 0
    BY <1>1, ItemFacts
  <1> HIDE DEF s
  <1>3. CASE Dispatched(x)
    <2>1. /\ app' = [pc |-> IF x.is = "Closed" THEN "off" ELSE "receive", latest |-> 0]
          /\ got' = IF x.is = "Terminal" THEN Append(got, x.number) ELSE got
          /\ rows' = rows + x.delta
      BY <1>3 DEF Dispatched, NoEvent
    <2>2. got' \in Seq(1..taken) /\ rows' \in Int
      <3>1. CASE x.is = "Terminal"
        <4>1. Append(got, x.number) \in Seq(1..taken)
          BY <1>1, <1>2, <3>1, AppendProperties
        <4> QED BY <1>1, <1>2, <2>1, <3>1, <4>1
      <3>2. CASE x.is # "Terminal"
        BY <1>1, <1>2, <2>1, <3>2
      <3> QED BY <3>1, <3>2
    <2>3. app' \in [pc : {"receive", "coalesce", "off"}, latest : 0..taken]
      <3>1. 0 \in 0..taken
        BY <1>1
      <3> QED BY <2>1, <3>1
    <2>4. TypeOK'
      BY <1>1, <2>2, <2>3, TypedNext
    <2>5. ASSUME app'.pc # "off"
          PROVE  DrainInv' /\ Carries(got, OnItsWay, input, taken, rows + reader.delta)'
      <3>1. x.is # "Closed" /\ app'.pc = "receive"
        BY <2>1, <2>5
      <3>2. DrainInv'
        BY <3>1 DEF DrainInv
      <3>3. OnItsWay' = r
        <4>1. OnItsWay' = (<<>> \o pending') \o channel'
          BY <3>1 DEF OnItsWay
        <4>2. <<>> \o pending' = pending'
          OBVIOUS
        <4> QED BY <4>1, <4>2
      <3>4. Carries(got', r, input, taken, s + x.delta)
        <4>1. CASE x.is = "Terminal"
          <5>1. Carries(Append(got, x.number), r, input, taken, s)
            <6> DEFINE n == x.number
            <6>1. n \in 1..taken /\ x = Terminal(n)
              BY <1>2, <4>1
            <6> HIDE DEF n
            <6>2. Carries(Append(got, n), r, input, taken, s)
              BY <1>1, <6>1, CarriesGiven
            <6> QED BY <6>2 DEF n
          <5> QED BY <1>1, <1>2, <2>1, <4>1, <5>1
        <4>2. CASE x.is # "Terminal"
          <5>1. Carries(got, r, input, taken, s + x.delta)
            BY <1>1, <4>2, CarriesWithout
          <5> QED BY <2>1, <4>2, <5>1
        <4> QED BY <4>1, <4>2
      <3>5. s + x.delta = rows' + reader'.delta
        BY <1>1, <1>2, <2>1 DEF s
      <3> QED BY <3>2, <3>3, <3>4, <3>5
    <2> QED BY <2>4, <2>5 DEF InputInv
  <1>4. CASE IsDrag(x) /\ ~Dispatched(x)
    <2>1. x.is = "Terminal" /\ input[x.number] = "drag"
      BY <1>4 DEF IsDrag
    <2>2. /\ app' = [pc |-> "coalesce", latest |-> x.number]
          /\ got' = got /\ rows' = rows /\ pending' = <<>>
      BY <1>4 DEF Taken
    <2>3. app' \in [pc : {"receive", "coalesce", "off"}, latest : 0..taken]
      <3>1. x.number \in 0..taken
        BY <1>1, <1>2, <2>1
      <3> QED BY <2>2, <3>1
    <2>4. TypeOK'
      BY <1>1, <2>2, <2>3, TypedNext
    <2>5. DrainInv'
      BY <1>2, <2>1, <2>2 DEF DrainInv
    <2>6. OnItsWay' = OnItsWay
      <3>1. OnItsWay' = (<<x>> \o pending') \o channel'
        <4>1. Terminal(app'.latest) = x /\ app'.pc = "coalesce"
          BY <1>2, <2>1, <2>2
        <4> QED BY <4>1 DEF OnItsWay
      <3>2. <<x>> \o pending' = <<x>> /\ channel' = r
        BY <2>2
      <3> QED BY <3>1, <3>2
    <2> QED BY <1>1, <2>2, <2>4, <2>5, <2>6 DEF InputInv, s
  <1> QED BY <1>3, <1>4

\* The first of a sequence of items and the rest.
LEMMA FirstAndRest ==
    ASSUME NEW M, NEW c \in Seq(M), c # <<>>
    PROVE  /\ Head(c) \in M /\ Tail(c) \in Seq(M) /\ c = <<Head(c)>> \o Tail(c)
           /\ c[1] = Head(c)
  <1>1. Head(c) \in M /\ Tail(c) \in Seq(M) /\ Len(c) \in Nat \ {0} /\ Len(Tail(c)) = Len(c) - 1
        /\ Head(c) = c[1] /\ \A i \in 1..(Len(c) - 1) : Tail(c)[i] = c[i + 1]
    BY HeadTailProperties
  <1> DEFINE d == <<Head(c)>> \o Tail(c)
  <1>2. d \in Seq(M) /\ Len(d) = Len(c) /\ \A i \in 1..Len(c) : d[i] = c[i]
    <2>1. <<Head(c)>> \in Seq(M) /\ Len(<<Head(c)>>) = 1 /\ <<Head(c)>>[1] = Head(c)
      BY <1>1
    <2> DEFINE one == <<Head(c)>>
               rest == Tail(c)
    <2>2. one \in Seq(M) /\ Len(one) = 1 /\ one[1] = c[1] /\ rest \in Seq(M)
          /\ Len(rest) = Len(c) - 1 /\ \A i \in 1..(Len(c) - 1) : rest[i] = c[i + 1]
      BY <1>1, <2>1
    <2> HIDE DEF one, rest
    <2>3. one \o rest \in Seq(M) /\ Len(one \o rest) = Len(c)
          /\ \A i \in 1..Len(c) : (one \o rest)[i] = IF i <= 1 THEN one[i] ELSE rest[i - 1]
      <3>1. /\ one \o rest \in Seq(M) /\ Len(one \o rest) = Len(one) + Len(rest)
            /\ \A i \in 1..(Len(one) + Len(rest)) :
                  (one \o rest)[i] = IF i <= Len(one) THEN one[i] ELSE rest[i - Len(one)]
        <4>1. \A u, v \in Seq(M) :
                 /\ u \o v \in Seq(M) /\ Len(u \o v) = Len(u) + Len(v)
                 /\ \A i \in 1..(Len(u) + Len(v)) :
                       (u \o v)[i] = IF i <= Len(u) THEN u[i] ELSE v[i - Len(u)]
          BY ConcatProperties
        <4> QED BY <2>2, <4>1
      <3>2. Len(one) + Len(rest) = Len(c)
        BY <1>1, <2>2
      <3> QED BY <2>2, <3>1, <3>2
    <2>4. \A i \in 1..Len(c) : (one \o rest)[i] = c[i]
      BY <1>1, <2>2, <2>3
    <2> QED BY <2>3, <2>4 DEF one, rest
  <1> HIDE DEF d
  <1>3. d = c
    BY <1>2, SeqEqual
  <1> QED BY <1>1, <1>3 DEF d

\* It takes what was put back, or else the head of the channel.
LEMMA ReceiveKeeps == InputInv /\ Receive => InputInv'
  <1> SUFFICES ASSUME InputInv, Receive PROVE InputInv'
    OBVIOUS
  <1> DEFINE M == ItemsTo(taken)
  <1>1. /\ channel \in Seq(M) /\ pending \in Seq(M) /\ Len(pending) <= 1
        /\ app.pc = "receive" /\ app.pc # "off" /\ app.pc # "coalesce"
        /\ UNCHANGED <<input, taken, reader>>
    BY Typed DEF InputInv, Receive
  <1>2. OnItsWay = (<<>> \o pending) \o channel
    BY <1>1 DEF OnItsWay
  <1>3. <<>> \in Seq(M) /\ Len(<<>>) = 0
    OBVIOUS
  <1>4. CASE pending # <<>>
    <2> DEFINE x == pending[1]
    <2>1. pending' = <<>> /\ Taken(x) /\ channel' = channel
      BY <1>4 DEF Receive
    <2>2. x \in M /\ pending = <<x>>
      <3>1. Len(pending) = 1 /\ x \in M
        <4> HIDE DEF M
        <4>1. Len(pending) \in Nat /\ Len(pending) # 0
          BY <1>1, <1>4
        <4>2. Len(pending) = 1
          BY <1>1, <4>1
        <4>3. \A i \in 1..Len(pending) : pending[i] \in M
          BY <1>1, ElementOfSeq
        <4>4. 1 \in 1..Len(pending)
          BY <4>2
        <4> QED BY <4>2, <4>3, <4>4
      <3>2. pending = [i \in 1..1 |-> pending[i]]
        BY <1>1, <3>1
      <3> QED BY <3>1, <3>2
    <2> HIDE DEF x, M
    <2>3. <<>> \o pending = <<x>>
      BY <1>1, <2>2
    <2>4. OnItsWay = <<x>> \o channel
      BY <1>2, <2>3
    <2>5. pending' \o channel' = channel
      BY <1>1, <2>1
    <2>6. /\ IsDrag(x) \/ Dispatched(x)
          /\ IsDrag(x) => (app.pc # "coalesce" /\ Taken(x)) \/ Dispatched(x)
      BY <1>1, <2>1 DEF Taken
    <2>7. /\ channel' \in Seq(M) /\ pending' \in Seq(M) /\ Len(pending') <= 1
          /\ IsDrag(x) /\ ~Dispatched(x) => pending' = <<>>
      BY <1>1, <1>3, <2>1
    <2> QED BY <1>1, <2>2, <2>4, <2>5, <2>6, <2>7, ItemKeeps DEF M
  <1>5. CASE pending = <<>>
    <2> DEFINE x == Head(channel)
               r == Tail(channel)
    <2>1. pending' = <<>> /\ Taken(x) /\ channel' = r /\ channel # <<>>
      BY <1>5 DEF Receive
    <2>2. x \in M /\ r \in Seq(M) /\ channel = <<x>> \o r
      <3> HIDE DEF M
      <3> QED BY <1>1, <2>1, FirstAndRest
    <2> HIDE DEF x, r, M
    <2>3. <<>> \o pending = <<>> /\ <<>> \o channel = channel /\ <<>> \o r = r
      BY <1>1, <1>5, <2>2
    <2>4. OnItsWay = <<x>> \o r
      BY <1>2, <2>2, <2>3
    <2>5. pending' \o channel' = r
      BY <2>1, <2>3
    <2>6. /\ IsDrag(x) \/ Dispatched(x)
          /\ IsDrag(x) => (app.pc # "coalesce" /\ Taken(x)) \/ Dispatched(x)
      BY <1>1, <2>1 DEF Taken
    <2>7. /\ channel' \in Seq(M) /\ pending' \in Seq(M) /\ Len(pending') <= 1
          /\ IsDrag(x) /\ ~Dispatched(x) => pending' = <<>>
      BY <1>3, <2>1, <2>2
    <2> QED BY <1>1, <2>2, <2>4, <2>5, <2>6, <2>7, ItemKeeps DEF M
  <1> QED BY <1>4, <1>5

\* A drag gives way to the next in the queue, or it is handled and what follows
\* it is put back.
LEMMA CoalesceKeeps == InputInv /\ Coalesce => InputInv'
  <1> SUFFICES ASSUME InputInv, Coalesce PROVE InputInv'
    OBVIOUS
  <1> DEFINE M == ItemsTo(taken)
             x == Terminal(app.latest)
  <1>1. /\ channel \in Seq(M) /\ pending = <<>> /\ taken \in Nat
        /\ app.pc = "coalesce" /\ app.pc # "off"
        /\ app.latest \in 1..taken /\ input[app.latest] = "drag"
        /\ UNCHANGED <<input, taken, reader>>
    BY Typed DEF InputInv, DrainInv, Coalesce
  <1>2. x \in M /\ x.is = "Terminal" /\ x.number = app.latest /\ x.delta = 0 /\ IsDrag(x)
    BY <1>1, SomeItems DEF Terminal, IsDrag
  <1>3. OnItsWay = <<x>> \o channel
    <2>1. OnItsWay = (<<x>> \o <<>>) \o channel
      BY <1>1 DEF OnItsWay
    <2>2. <<x>> \o <<>> = <<x>>
      OBVIOUS
    <2> QED BY <2>1, <2>2
  <1>4. CASE channel # <<>> /\ IsDrag(Head(channel))
    <2> DEFINE y == Head(channel)
               r == Tail(channel)
    <2>1. /\ app' = [app EXCEPT !.latest = y.number] /\ UNCHANGED <<pending, got, rows>>
          /\ channel' = r
      BY <1>4 DEF Coalesce
    <2>2. y \in M /\ r \in Seq(M) /\ channel = <<y>> \o r /\ channel[1] = y
      <3> HIDE DEF M
      <3> QED BY <1>1, <1>4, FirstAndRest
    <2>3. y.is = "Terminal" /\ input[y.number] = "drag"
      BY <1>4 DEF IsDrag
    <2> HIDE DEF x, y, r
    <2>4. y.number \in 1..taken /\ y = Terminal(y.number)
      BY <1>1, <2>2, <2>3, ItemFacts
    <2>5. app'.latest = y.number /\ app'.pc = "coalesce"
          /\ app' \in [pc : {"receive", "coalesce", "off"}, latest : 0..taken]
      <3>1. app \in [pc : {"receive", "coalesce", "off"}, latest : 0..taken] /\ y.number \in 0..taken
        BY <1>1, <2>4 DEF InputInv, TypeOK
      <3> QED BY <1>1, <2>1, <3>1
    <2>6. TypeOK'
      <3>1. /\ input \in Seq(Kinds) /\ taken \in 0..Len(input)
            /\ reader \in [pc : {"poll", "burst", "look", "done"}, delta : Int]
            /\ pending \in Seq(M) /\ Len(pending) <= 1 /\ got \in Seq(1..taken) /\ rows \in Int
        BY Typed DEF InputInv
      <3> QED BY <1>1, <2>1, <2>2, <2>5, <3>1, TypedNext
    <2>7. DrainInv'
      BY <1>1, <2>1, <2>3, <2>4, <2>5 DEF DrainInv
    <2>8. OnItsWay' = channel
      <3>1. OnItsWay' = (<<y>> \o <<>>) \o r
        BY <1>1, <2>1, <2>4, <2>5 DEF OnItsWay
      <3>2. <<y>> \o <<>> = <<y>>
        OBVIOUS
      <3> QED BY <2>2, <3>1, <3>2
    <2>9. Carries(got, channel, input, taken, rows + reader.delta)
      <3> DEFINE s == rows + reader.delta
      <3>1. Carries(got, <<x>> \o channel, input, taken, s) /\ s \in Int
        BY <1>1, <1>3 DEF InputInv, TypeOK
      <3> HIDE DEF s
      <3>2. Carries(got, channel, input, taken, s + x.delta)
        <4>1. channel[1].is = "Terminal" /\ input[channel[1].number] = "drag"
          BY <2>2, <2>3
        <4>2. x.is = "Terminal" /\ input[x.number] = "drag"
          BY <1>1, <1>2
        <4> QED BY <1>1, <1>2, <1>4, <3>1, <4>1, <4>2, CarriesWithout
      <3>3. s + x.delta = s
        BY <1>2, <3>1
      <3> QED BY <3>2, <3>3 DEF s
    <2> QED BY <1>1, <2>1, <2>6, <2>7, <2>8, <2>9 DEF InputInv
  <1>5. CASE ~(channel # <<>> /\ IsDrag(Head(channel)))
    <2>1. /\ pending' = IF channel = <<>> THEN <<>> ELSE <<Head(channel)>>
          /\ Dispatched(x) /\ channel' = IF channel = <<>> THEN channel ELSE Tail(channel)
      BY <1>5 DEF Coalesce
    <2> HIDE DEF x, M
    <2>2. /\ pending' \o channel' = channel /\ channel' \in Seq(M)
          /\ pending' \in Seq(M) /\ Len(pending') <= 1
      <3>1. CASE channel = <<>>
        BY <1>1, <2>1, <3>1
      <3>2. CASE channel # <<>>
        <4>1. Head(channel) \in M /\ Tail(channel) \in Seq(M) /\ channel = <<Head(channel)>> \o Tail(channel)
          BY <1>1, <3>2, FirstAndRest
        <4>2. <<Head(channel)>> \in Seq(M) /\ Len(<<Head(channel)>>) = 1
          BY <4>1
        <4> QED BY <2>1, <3>2, <4>1, <4>2
      <3> QED BY <3>1, <3>2
    <2> QED BY <1>1, <1>2, <1>3, <2>1, <2>2, ItemKeeps DEF M
  <1> QED BY <1>4, <1>5

\* When the program has ended nothing is asked any more.
LEMMA QuitKeeps == InputInv /\ Quit => InputInv'
  <1> SUFFICES ASSUME InputInv, Quit PROVE InputInv'
    OBVIOUS
  <1>1. app.pc = "receive" /\ app' = [app EXCEPT !.pc = "off"]
        /\ channel' = <<>> /\ pending' = <<>> /\ UNCHANGED <<input, taken, reader, got, rows>>
    BY DEF Quit
  <1>2. /\ input \in Seq(Kinds) /\ taken \in 0..Len(input)
        /\ reader \in [pc : {"poll", "burst", "look", "done"}, delta : Int]
        /\ app \in [pc : {"receive", "coalesce", "off"}, latest : 0..taken]
        /\ got \in Seq(1..taken) /\ rows \in Int
    BY DEF InputInv, TypeOK
  <1>3. app'.pc = "off" /\ app' \in [pc : {"receive", "coalesce", "off"}, latest : 0..taken]
    BY <1>1, <1>2
  <1>4. /\ channel' \in Seq(ItemsTo(taken))
        /\ pending' \in Seq(ItemsTo(taken)) /\ Len(pending') <= 1
    BY <1>1
  <1>5. TypeOK'
    BY <1>1, <1>2, <1>3, <1>4, TypedNext
  <1> QED BY <1>3, <1>5 DEF InputInv

\* Every step keeps the invariant.
LEMMA InputStep == InputInv /\ [Next]_vars => InputInv'
  <1> SUFFICES ASSUME InputInv, [Next]_vars PROVE InputInv'
    OBVIOUS
  <1>1. CASE Input \/ Reader \/ ReadFails
    BY <1>1, InputKeeps, ReadEventKeeps, ReadBurstKeeps, BurstKeeps, ReadFailsKeeps DEF Reader
  <1>2. CASE Application \/ Quit
    BY <1>2, ReceiveKeeps, CoalesceKeeps, QuitKeeps DEF Application
  <1>3. CASE UNCHANGED vars
    BY <1>3 DEF vars, InputInv, TypeOK, Item, DrainInv, OnItsWay
  <1> QED BY <1>1, <1>2, <1>3 DEF Next

-----------------------------------------------------------------------------
(***************************************************************************)
(* What the invariant says of what the program was given.                  *)
(***************************************************************************)

\* The greatest of some numbers, the latest of them.
LEMMA GreatestOf ==
    ASSUME NEW b \in Nat, NEW T \in SUBSET (1..b), T # {}
    PROVE  Max(T) \in T /\ \A n \in T : n <= Max(T)
  <1> DEFINE P(m) == \A n \in T : n <= m
             U == {m \in Nat : P(m)}
  <1>1. b \in U
    OBVIOUS
  <1>2. PICK m \in U : \A u \in U : m <= u
    <2> HIDE DEF U
    <2>1. U \in SUBSET Nat
      BY DEF U
    <2> QED BY <1>1, <2>1, LeastOf
  <1>3. m \in T
    <2> SUFFICES ASSUME m \notin T PROVE FALSE
      OBVIOUS
    <2>1. m \in Nat /\ \A n \in T : n <= m - 1 /\ n >= 1
      BY <1>2
    <2>2. PICK k \in T : TRUE
      OBVIOUS
    <2>3. m - 1 \in Nat
      BY <2>1, <2>2
    <2>4. m - 1 \in U
      BY <2>1, <2>3
    <2> QED BY <1>2, <2>1, <2>4
  <1>4. \A n \in T : m >= n
    BY <1>2
  <1>5. \E k \in T : \A n \in T : k >= n
    BY <1>3, <1>4
  <1> QED BY <1>5 DEF Max

\* Nothing but wheel and drags is reduced.
LEMMA InputSays == InputInv => NothingElseIsReduced
  <1> SUFFICES ASSUME InputInv, app.pc # "off"
               PROVE  EssentialInOrder /\ RowsAddUp /\ PointerIsCurrent
    BY DEF NothingElseIsReduced
  <1> DEFINE w == WayOf(got, OnItsWay)
  <1>1. /\ taken \in Nat /\ got \in Seq(1..taken) /\ OnItsWay \in Seq(ItemsTo(taken))
        /\ Good(w, input, taken)
        /\ rows + reader.delta + Total(Deltas(OnItsWay)) = RowsOf(input, taken)
    BY DEF InputInv, Carries
  <1>2. Way = w
    BY DEF Way, WayOf
  <1> HIDE DEF w
  <1>3. EssentialInOrder
    BY <1>1, <1>2 DEF EssentialInOrder, Good, NoneMissing, InOrder, Holds, IsEssential, Essential
  <1>4. RowsAddUp
    BY <1>1 DEF RowsAddUp, RowsOf
  <1>5. PointerIsCurrent
    <2> SUFFICES ASSUME NEW i \in DOMAIN got, Essential(got[i]), Drags(got[i]) # {}
                 PROVE  \E j \in 1..(i - 1) : got[j] = Max(Drags(got[i]))
      BY DEF PointerIsCurrent
    <2> DEFINE k == got[i]
               d == Max(Drags(k))
    <2>1. /\ Len(got) \in Nat /\ i \in 1..Len(got) /\ k \in 1..taken
          /\ DOMAIN w = 1..(Len(got) + Len(OnItsWay)) /\ Len(OnItsWay) \in Nat
          /\ \A j \in 1..Len(got) : w[j] = Terminal(got[j])
      <3>1. Len(got) \in Nat /\ DOMAIN got = 1..Len(got) /\ \A j \in 1..Len(got) : got[j] \in 1..taken
        BY <1>1
      <3> QED BY <1>1, <3>1, WayFacts DEF w
    <2>2. d \in Drags(k) /\ \A n \in Drags(k) : n <= d
      <3>1. k \in Nat /\ Drags(k) \in SUBSET (1..k)
        BY <2>1 DEF Drags
      <3> HIDE DEF k
      <3> QED BY <3>1, GreatestOf DEF k
    <2> HIDE DEF d, k
    <2>3. d \in 1..taken /\ d <= k /\ input[d] = "drag"
      <3>1. d \in 1..k /\ input[d] = "drag"
        BY <2>2 DEF Drags
      <3> QED BY <1>1, <2>1, <3>1
    <2>4. PICK e \in d..taken : input[e] = "drag" /\ Holds(w, e) /\ \A n \in d..e : ~IsEssential(input, n)
      BY <1>1, <2>3 DEF Good, DragsFollow
    <2>5. e < k
      <3>1. IsEssential(input, k)
        BY DEF IsEssential, Essential, k
      <3> QED BY <2>1, <2>3, <2>4, <3>1
    <2>6. e = d
      <3>1. e \in Drags(k)
        BY <2>1, <2>3, <2>4, <2>5 DEF Drags
      <3> QED BY <2>2, <2>3, <2>4, <3>1
    <2>7. PICK j \in DOMAIN w : w[j] = Terminal(d)
      BY <2>4, <2>6 DEF Holds
    <2>8. ~(i < j) /\ i # j
      <3>1. w[i] = Terminal(k) /\ w[i].is = "Terminal" /\ w[i].number = k
        BY <2>1 DEF Terminal, k
      <3>2. w[j].is = "Terminal" /\ w[j].number = d
        BY <2>7 DEF Terminal
      <3>3. i \in DOMAIN w
        BY <2>1
      <3>4. i < j => k < d
        BY <1>1, <2>7, <3>1, <3>2, <3>3 DEF Good, InOrder
      <3> QED BY <2>1, <2>3, <2>5, <2>6, <3>1, <3>2, <3>4
    <2>9. j \in 1..(i - 1) /\ j \in 1..Len(got)
      BY <2>1, <2>7, <2>8
    <2>10. got[j] = d
      <3>1. Terminal(got[j]) = Terminal(d)
        BY <2>1, <2>7, <2>9
      <3> QED BY <3>1 DEF Terminal
    <2> QED BY <2>9, <2>10 DEF d, k
  <1> QED BY <1>3, <1>4, <1>5

-----------------------------------------------------------------------------
\* The invariant holds throughout, however much is typed.
LEMMA InputAlways == Spec => []InputInv
  <1> QED BY InputInit, InputStep, PTL DEF Spec

\* Every variable has its type; above all the channel and what was put back
\* hold no event that was not read, and at most one item is put back.
THEOREM TypeCorrect == Spec => []TypeOK
  <1>1. InputInv => TypeOK
    BY DEF InputInv
  <1> QED BY <1>1, InputAlways, PTL

\* For every sequence of input, however the reader and the program alternate
\* and wherever the reader finds the terminal empty: no key and no release is
\* lost, doubled or overtaken, no row of the wheel is lost on the way, and an
\* event finds the pointer where the last drag before it left it
\* (EventHandler::new, recv_timeout, coalesce_drag_events).
THEOREM InputIsReducedRightly == Spec => []NothingElseIsReduced
  <1> QED BY InputSays, InputAlways, PTL
=============================================================================
