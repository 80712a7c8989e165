---------------------------- MODULE Render_proofs ----------------------------
(***************************************************************************)
(* What the fold does to any log: the order it takes the events in is the  *)
(* stable one by rank and attempt; the observations are those the run's    *)
(* outcomes carry, and no edit loses a version or leaves two live that     *)
(* were made one upon the other.  The argument: the sort arranges one      *)
(* event more at a time; after each event of the run every observation     *)
(* comes from the event that decided it; after each edit every version     *)
(* known is live or in the chain of one that is.                           *)
(***************************************************************************)
EXTENDS Render, FiniteSetTheorems, WellFoundedInduction, TLAPS
-----------------------------------------------------------------------------
(* Induction.  A property of numbers is the set of numbers that have it.   *)

\* A set of natural numbers has a least element.
LEMMA Least ==
  ASSUME NEW T, T \subseteq Nat, T # {}
  PROVE  \E x \in T : \A y \in T : x <= y
<1>. DEFINE U == {0 .. n : n \in T}
<1>1. U \subseteq FiniteSubsetsOf(Nat)
  <2>1. \A n \in Nat : IsFiniteSet(0 .. n) /\ 0 .. n \subseteq Nat
    BY FS_Interval
  <2>. QED BY <2>1 DEF FiniteSubsetsOf
<1>2. IsWellFoundedOn(StrictSubsetOrdering(Nat), FiniteSubsetsOf(Nat))
  BY FS_StrictSubsetOrderingWellFounded
<1>3. U # {}
  OBVIOUS
<1>4. PICK u \in U : \A v \in U : ~ (<<v, u>> \in StrictSubsetOrdering(Nat))
  <2>. HIDE DEF U
  <2>. QED BY <1>1, <1>2, <1>3, WFMin
<1>5. PICK n \in T : u = 0 .. n
  OBVIOUS
<1>6. ASSUME NEW m \in T, m < n PROVE FALSE
  <2>1. 0 .. m \in U /\ 0 .. m # 0 .. n /\ 0 .. m \subseteq 0 .. n /\ 0 .. n \subseteq Nat
    BY <1>6
  <2>2. <<0 .. m, 0 .. n>> \in StrictSubsetOrdering(Nat)
    BY <2>1 DEF StrictSubsetOrdering
  <2>. QED BY <1>4, <1>5, <2>1, <2>2
<1>. QED BY <1>6

\* From a to b, one by one.
LEMMA Climb ==
  ASSUME NEW a \in Nat, NEW b \in Nat, a <= b, NEW Good,
         a \in Good,
         \A k \in a + 1 .. b : k - 1 \in Good => k \in Good
  PROVE  \A k \in a .. b : k \in Good
<1>. SUFFICES ASSUME (a .. b) \ Good # {} PROVE FALSE
  OBVIOUS
<1>1. PICK x \in (a .. b) \ Good : \A y \in (a .. b) \ Good : x <= y
  <2>1. (a .. b) \ Good \subseteq Nat
    OBVIOUS
  <2>. QED BY <2>1, Least
<1>2. x # a /\ x - 1 \in a .. b /\ x \in a + 1 .. b
  BY <1>1
<1>3. x - 1 \in Good
  BY <1>1, <1>2
<1>. QED BY <1>1, <1>2, <1>3

\* From 0 to n, one by one.
LEMMA CountUp ==
  ASSUME NEW n \in Nat, NEW Good, 0 \in Good,
         \A k \in 1 .. n : k - 1 \in Good => k \in Good
  PROVE  \A k \in 0 .. n : k \in Good
<1>1. 0 \in Nat /\ 0 <= n /\ 0 + 1 = 1
  OBVIOUS
<1>. QED BY <1>1, Climb
-----------------------------------------------------------------------------
(* The order of the fold.                                                  *)

\* A log whose events can be told apart by the key they are sorted by.
Sortable(events) ==
  /\ Len(events) \in Nat
  /\ DOMAIN events = 1 .. Len(events)
  /\ \A i \in DOMAIN events : events[i].step \in DOMAIN Rank /\ events[i].key[2] \in Nat

\* The ranks are numbers.
LEMMA RankIsNat == \A st \in DOMAIN Rank : Rank[st] \in Nat
  BY DEF Rank

\* Before is a weak order: not later is transitive.
LEMMA WeakOrder ==
  ASSUME NEW events, Sortable(events),
         NEW i \in DOMAIN events, NEW j \in DOMAIN events, NEW k \in DOMAIN events
  PROVE  /\ ~Before(events[i], events[i])
         /\ Before(events[i], events[j]) => ~Before(events[j], events[i])
         /\ ~Before(events[j], events[i]) /\ ~Before(events[k], events[j])
              => ~Before(events[k], events[i])
<1>1. /\ Rank[events[i].step] \in Nat /\ Rank[events[j].step] \in Nat
      /\ Rank[events[k].step] \in Nat
      /\ events[i].key[2] \in Nat /\ events[j].key[2] \in Nat /\ events[k].key[2] \in Nat
  BY RankIsNat DEF Sortable
<1>. QED BY <1>1 DEF Before

\* What is where in the concatenation of two sequences.
LEMMA Concat ==
  ASSUME NEW S, NEW s \in Seq(S), NEW t \in Seq(S)
  PROVE  /\ s \o t \in Seq(S)
         /\ Len(s \o t) = Len(s) + Len(t)
         /\ \A m \in 1 .. Len(s) : (s \o t)[m] = s[m]
         /\ \A m \in Len(s) + 1 .. Len(s) + Len(t) : (s \o t)[m] = t[m - Len(s)]
  OBVIOUS

\* What is where after an insertion.
LEMMA InsertIs ==
  ASSUME NEW s \in Seq(Nat), NEW p \in 1 .. Len(s) + 1, NEW e \in Nat
  PROVE  /\ InsertAt(s, p, e) \in Seq(Nat)
         /\ Len(InsertAt(s, p, e)) = Len(s) + 1
         /\ \A m \in 1 .. p - 1 : InsertAt(s, p, e)[m] = s[m]
         /\ InsertAt(s, p, e)[p] = e
         /\ \A m \in p + 1 .. Len(s) + 1 : InsertAt(s, p, e)[m] = s[m - 1]
<1>. DEFINE a == SubSeq(s, 1, p - 1)
            b == SubSeq(s, p, Len(s))
<1>1. a \in Seq(Nat) /\ Len(a) = p - 1 /\ \A m \in 1 .. p - 1 : a[m] = s[m]
  OBVIOUS
<1>2. b \in Seq(Nat) /\ Len(b) = Len(s) - p + 1
      /\ \A m \in 1 .. Len(s) - p + 1 : b[m] = s[p + m - 1]
  OBVIOUS
<1>3. InsertAt(s, p, e) = a \o <<e>> \o b
  BY DEF InsertAt
<1>. HIDE DEF a, b
<1>. DEFINE c == a \o <<e>>
<1>4. <<e>> \in Seq(Nat) /\ Len(<<e>>) = 1 /\ <<e>>[1] = e
  OBVIOUS
<1>5. c \in Seq(Nat) /\ Len(c) = p /\ (\A m \in 1 .. p - 1 : c[m] = s[m]) /\ c[p] = e
  <2>1. c \in Seq(Nat) /\ Len(c) = (p - 1) + 1 /\ (\A m \in 1 .. p - 1 : c[m] = a[m])
    BY <1>1, <1>4, Concat
  <2>2. p \in Len(a) + 1 .. Len(a) + Len(<<e>>) /\ p - Len(a) = 1
    BY <1>1, <1>4
  <2>3. c[p] = <<e>>[1]
    BY <1>1, <1>4, <2>2, Concat
  <2>. QED BY <1>1, <1>4, <2>1, <2>3
<1>. HIDE DEF c
<1>6. c \o b \in Seq(Nat) /\ Len(c \o b) = p + Len(b)
      /\ (\A m \in 1 .. p : (c \o b)[m] = c[m])
      /\ (\A m \in p + 1 .. p + Len(b) : (c \o b)[m] = b[m - p])
  <2>1. c \in Seq(Nat) /\ b \in Seq(Nat) /\ Len(c) = p
    BY <1>2, <1>5
  <2>. HIDE DEF b
  <2>. QED BY <2>1, Concat
<1>7. InsertAt(s, p, e) = c \o b
  BY <1>3 DEF c
<1>8. p + Len(b) = Len(s) + 1
  BY <1>2
<1>9. ASSUME NEW m \in p + 1 .. Len(s) + 1
      PROVE  (c \o b)[m] = s[m - 1]
  <2>1. m - p \in 1 .. Len(s) - p + 1 /\ p + (m - p) - 1 = m - 1
    OBVIOUS
  <2>2. (c \o b)[m] = b[m - p]
    BY <1>6, <1>8
  <2>. QED BY <1>2, <2>1, <2>2
<1>10. \A m \in 1 .. p : (c \o b)[m] = c[m]
  BY <1>6
<1>11. p \in 1 .. p /\ \A m \in 1 .. p - 1 : m \in 1 .. p
  OBVIOUS
<1>12. (c \o b)[p] = e /\ \A m \in 1 .. p - 1 : (c \o b)[m] = s[m]
  BY <1>5, <1>10, <1>11
<1>. QED BY <1>6, <1>7, <1>8, <1>9, <1>12

\* The first k events, each once, none behind one it comes before, and those
\* that neither comes before the other in the order of the log.
Arranged(events, s, k) ==
  /\ s \in Seq(Nat) /\ Len(s) = k
  /\ \A m \in 1 .. k : s[m] \in 1 .. k
  /\ \A i \in 1 .. k : \E m \in 1 .. k : s[m] = i
  /\ \A a, b \in 1 .. k :
       a < b =>
         /\ s[a] # s[b] /\ ~Before(events[s[b]], events[s[a]])
         /\ ~Before(events[s[a]], events[s[b]]) => s[a] < s[b]

\* Among events in order there is one slot for another.
LEMMA SlotIs ==
  ASSUME NEW events, Sortable(events), NEW k \in 1 .. Len(events),
         NEW s, Arranged(events, s, k - 1)
  PROVE  /\ Slot(events, s, k) \in 1 .. k
         /\ \A m \in Slot(events, s, k) .. k - 1 : Before(events[k], events[s[m]])
         /\ \A m \in 1 .. Slot(events, s, k) - 1 : ~Before(events[k], events[s[m]])
<1>. DEFINE Behind == {m \in 1 .. k - 1 : Before(events[k], events[s[m]])}
<1>0. k \in DOMAIN events /\ \A m \in 1 .. k - 1 : s[m] \in DOMAIN events
  <2>1. Len(events) \in Nat /\ DOMAIN events = 1 .. Len(events)
    BY DEF Sortable
  <2>2. \A m \in 1 .. k - 1 : s[m] \in 1 .. k - 1
    BY DEF Arranged
  <2>. QED BY <2>1, <2>2
<1>1. PICK p \in Behind \union {k} : \A m \in Behind \union {k} : p <= m
  <2>1. Behind \union {k} \subseteq Nat /\ Behind \union {k} # {}
    OBVIOUS
  <2>. QED BY <2>1, Least
<1>2. p \in 1 .. k
  BY <1>1
<1>3. \A m \in 1 .. p - 1 : ~Before(events[k], events[s[m]])
  BY <1>1, <1>2
<1>4. ASSUME NEW m \in p .. k - 1 PROVE Before(events[k], events[s[m]])
  <2>1. p \in Behind /\ p \in 1 .. k - 1 /\ m \in 1 .. k - 1
    BY <1>1, <1>2
  <2>2. CASE m = p
    BY <2>1, <2>2
  <2>3. CASE m > p
    <3>1. ~Before(events[s[m]], events[s[p]])
      BY <2>1, <2>3 DEF Arranged
    <3>2. Before(events[k], events[s[p]])
      BY <2>1
    <3>. QED BY <1>0, <2>1, <3>1, <3>2, WeakOrder
  <2>. QED BY <2>1, <2>2, <2>3
<1>. QED BY <1>2, <1>3, <1>4 DEF Slot

\* Sorting does what its equation says.
LEMMA SortingIs ==
  ASSUME NEW events, Sortable(events)
  PROVE  /\ Sorting(events)[0] = <<>>
         /\ \A k \in 1 .. Len(events) :
              Sorting(events)[k] =
                InsertAt(Sorting(events)[k - 1], Slot(events, Sorting(events)[k - 1], k), k)
<1>. DEFINE N == Len(events)
            Next(g, k) == IF k = 0 THEN <<>>
                          ELSE InsertAt(g[k - 1], Slot(events, g[k - 1], k), k)
            Good == {b \in 0 .. N : \E g : g = [k \in 0 .. b |-> Next(g, k)]}
<1>0. N \in Nat
  BY DEF Sortable
<1>1. 0 \in Good
  <2>1. [k \in 0 .. 0 |-> <<>>] = [k \in 0 .. 0 |-> Next([j \in 0 .. 0 |-> <<>>], k)]
    OBVIOUS
  <2>2. \E g : g = [k \in 0 .. 0 |-> Next(g, k)]
    BY <2>1
  <2>. QED BY <1>0, <2>2
<1>2. ASSUME NEW b \in 1 .. N, b - 1 \in Good PROVE b \in Good
  <2>1. PICK g : g = [k \in 0 .. b - 1 |-> Next(g, k)]
    BY <1>2
  <2>. DEFINE h == [k \in 0 .. b |-> IF k = b THEN Next(g, k) ELSE g[k]]
  <2>2. ASSUME NEW k \in 0 .. b PROVE h[k] = Next(h, k)
    <3>1. CASE k = 0
      <4>1. 0 \in 0 .. b - 1 /\ 0 # b
        OBVIOUS
      <4>2. g[0] = Next(g, 0)
        BY <2>1, <4>1
      <4>. QED BY <3>1, <4>1, <4>2
    <3>2. CASE k # 0
      <4>1. k - 1 \in 0 .. b - 1 /\ k - 1 # b /\ k - 1 \in 0 .. b
        BY <3>2
      <4>2. h[k - 1] = g[k - 1]
        BY <4>1
      <4>3. Next(h, k) = Next(g, k)
        BY <4>2
      <4>4. h[k] = Next(g, k)
        <5>1. CASE k = b
          BY <5>1
        <5>2. CASE k # b
          <6>1. k \in 0 .. b - 1
            BY <5>2
          <6>2. g[k] = Next(g, k)
            BY <2>1, <6>1
          <6>. QED BY <5>2, <6>2
        <5>. QED BY <5>1, <5>2
      <4>. QED BY <4>3, <4>4
    <3>. QED BY <3>1, <3>2
  <2>3. h = [k \in 0 .. b |-> Next(h, k)]
    <3>. DEFINE e == [k \in 0 .. b |-> Next(h, k)]
    <3>1. \A k \in 0 .. b : h[k] = e[k]
      <4>. HIDE DEF h
      <4>. QED BY <2>2
    <3>. QED BY <3>1
  <2>4. \E f : f = [k \in 0 .. b |-> Next(f, k)]
    <3>. HIDE DEF h, Next
    <3>. QED BY <2>3
  <2>. HIDE DEF Next
  <2>. QED BY <2>4
<1>3. N \in Good
  <2>. HIDE DEF Good
  <2>1. \A b \in 0 .. N : b \in Good
    BY <1>0, <1>1, <1>2, CountUp
  <2>. QED BY <1>0, <2>1
<1>4. Sorting(events) = [k \in 0 .. N |-> Next(Sorting(events), k)]
  <2>1. \E g : g = [k \in 0 .. N |-> Next(g, k)]
    BY <1>3
  <2>. DEFINE c == CHOOSE g : g = [k \in 0 .. N |-> Next(g, k)]
  <2>2. c = [k \in 0 .. N |-> Next(c, k)]
    <3>. HIDE DEF Next
    <3>. QED BY <2>1
  <2>3. Sorting(events) = c
    BY DEF Sorting
  <2>. QED BY <2>2, <2>3
<1>. DEFINE S == Sorting(events)
<1>. HIDE DEF S
<1>5. S = [k \in 0 .. N |-> Next(S, k)]
  BY <1>4 DEF S
<1>6. \A k \in 0 .. N : S[k] = Next(S, k)
  <2>. HIDE DEF Next
  <2>. QED BY <1>5
<1>7. \A k \in 1 .. N : k \in 0 .. N /\ k # 0
  BY <1>0
<1>8. 0 \in 0 .. N
  BY <1>0
<1>. QED BY <1>6, <1>7, <1>8 DEF S

\* Sorting the first k events arranges them, for every k.
LEMMA SortingArranges ==
  ASSUME NEW events, Sortable(events)
  PROVE  \A k \in 0 .. Len(events) : Arranged(events, Sorting(events)[k], k)
<1>. DEFINE N == Len(events)
            S == Sorting(events)
            Good == {k \in 0 .. N : Arranged(events, S[k], k)}
<1>0. N \in Nat
  BY DEF Sortable
<1>1. 0 \in Good
  <2>1. S[0] = <<>>
    BY SortingIs
  <2>2. Arranged(events, <<>>, 0)
    BY DEF Arranged
  <2>. QED BY <1>0, <2>1, <2>2
<1>2. ASSUME NEW k \in 1 .. N, k - 1 \in Good PROVE k \in Good
  <2>. DEFINE s == S[k - 1]
              p == Slot(events, s, k)
              t == S[k]
  <2>0. k \in 1 .. N /\ k \in Nat /\ k - 1 \in Nat /\ k \in 0 .. N
    BY <1>0
  <2>1. Arranged(events, s, k - 1)
    BY <1>2
  <2>2. /\ p \in 1 .. k
        /\ \A m \in p .. k - 1 : Before(events[k], events[s[m]])
        /\ \A m \in 1 .. p - 1 : ~Before(events[k], events[s[m]])
    BY <2>0, <2>1, SlotIs
  <2>3. t = InsertAt(s, p, k)
    BY <2>0, SortingIs
  <2>. HIDE DEF s, p, t
  <2>4. s \in Seq(Nat) /\ Len(s) = k - 1
    BY <2>1 DEF Arranged
  <2>5. p \in 1 .. Len(s) + 1
    BY <2>0, <2>2, <2>4
  <2>6. /\ t \in Seq(Nat) /\ Len(t) = k /\ t[p] = k
        /\ \A m \in 1 .. p - 1 : t[m] = s[m]
        /\ \A m \in p + 1 .. k : t[m] = s[m - 1]
    <3>1. Len(s) + 1 = k
      BY <2>0, <2>4
    <3>. QED BY <2>0, <2>3, <2>4, <2>5, <3>1, InsertIs
  <2>a. /\ \A m \in 1 .. k - 1 : s[m] \in 1 .. k - 1
        /\ \A i \in 1 .. k - 1 : \E m \in 1 .. k - 1 : s[m] = i
    BY <2>1 DEF Arranged
  <2>7. ASSUME NEW m \in 1 .. k PROVE t[m] \in 1 .. k
    <3>1. CASE m = p
      BY <2>0, <2>6, <3>1
    <3>2. CASE m < p
      <4>1. m \in 1 .. p - 1 /\ m \in 1 .. k - 1
        BY <2>2, <3>2
      <4>2. t[m] = s[m] /\ s[m] \in 1 .. k - 1
        BY <2>6, <2>a, <4>1
      <4>. QED BY <2>0, <4>2
    <3>3. CASE m > p
      <4>1. m \in p + 1 .. k /\ m - 1 \in 1 .. k - 1
        BY <2>2, <3>3
      <4>2. t[m] = s[m - 1] /\ s[m - 1] \in 1 .. k - 1
        BY <2>6, <2>a, <4>1
      <4>. QED BY <2>0, <4>2
    <3>. QED BY <2>2, <3>1, <3>2, <3>3
  <2>8. ASSUME NEW i \in 1 .. k PROVE \E m \in 1 .. k : t[m] = i
    <3>1. CASE i = k
      BY <2>2, <2>6, <3>1
    <3>2. CASE i # k
      <4>1. PICK m \in 1 .. k - 1 : s[m] = i
        <5>1. i \in 1 .. k - 1
          BY <2>0, <3>2
        <5>. QED BY <2>a, <5>1
      <4>2. CASE m < p
        <5>1. m \in 1 .. p - 1 /\ m \in 1 .. k
          BY <2>2, <4>2
        <5>. QED BY <2>6, <4>1, <5>1
      <4>3. CASE m >= p
        <5>1. m + 1 \in p + 1 .. k /\ m + 1 \in 1 .. k /\ (m + 1) - 1 = m
          BY <2>2, <4>3
        <5>. QED BY <2>6, <4>1, <5>1
      <4>. QED BY <2>2, <4>2, <4>3
    <3>. QED BY <3>1, <3>2
  <2>9. ASSUME NEW a \in 1 .. k, NEW b \in 1 .. k, a < b
        PROVE  /\ t[a] # t[b] /\ ~Before(events[t[b]], events[t[a]])
               /\ ~Before(events[t[a]], events[t[b]]) => t[a] < t[b]
    <3>0. /\ \A m \in 1 .. k - 1 : s[m] \in 1 .. k - 1
          /\ \A c, d \in 1 .. k - 1 : c < d =>
               /\ s[c] # s[d] /\ ~Before(events[s[d]], events[s[c]])
               /\ ~Before(events[s[c]], events[s[d]]) => s[c] < s[d]
          /\ k \in DOMAIN events /\ 1 .. k - 1 \subseteq DOMAIN events
      <4>1. k \in DOMAIN events /\ 1 .. k - 1 \subseteq DOMAIN events
        BY <2>0 DEF Sortable
      <4>. QED BY <2>1, <4>1 DEF Arranged
    <3>1. CASE b < p
      <4>1. a \in 1 .. p - 1 /\ b \in 1 .. p - 1 /\ a \in 1 .. k - 1 /\ b \in 1 .. k - 1
        BY <2>2, <2>9, <3>1
      <4>. QED BY <2>6, <2>9, <3>0, <4>1
    <3>2. CASE b = p
      <4>1. a \in 1 .. p - 1 /\ a \in 1 .. k - 1
        BY <2>2, <2>9, <3>2
      <4>2. t[a] = s[a] /\ t[b] = k /\ s[a] < k
        BY <2>0, <2>6, <3>0, <3>2, <4>1
      <4>. QED BY <2>2, <4>1, <4>2
    <3>3. CASE a = p
      <4>1. b \in p + 1 .. k /\ b - 1 \in p .. k - 1 /\ b - 1 \in 1 .. k - 1
        BY <2>2, <2>9, <3>3
      <4>2. t[a] = k /\ t[b] = s[b - 1] /\ s[b - 1] # k
        BY <2>0, <2>6, <3>0, <3>3, <4>1
      <4>3. Before(events[k], events[s[b - 1]])
        BY <2>2, <4>1
      <4>4. s[b - 1] \in DOMAIN events /\ k \in DOMAIN events
        BY <3>0, <4>1
      <4>5. ~Before(events[s[b - 1]], events[k])
        BY <4>3, <4>4, WeakOrder
      <4>. QED BY <4>2, <4>3, <4>5
    <3>4. CASE a < p /\ b > p
      <4>1. a \in 1 .. p - 1 /\ b \in p + 1 .. k /\ b - 1 \in 1 .. k - 1 /\ a \in 1 .. k - 1
            /\ a < b - 1
        BY <2>2, <3>4
      <4>2. t[a] = s[a] /\ t[b] = s[b - 1]
        BY <2>6, <4>1
      <4>. QED BY <3>0, <4>1, <4>2
    <3>5. CASE a > p
      <4>1. a \in p + 1 .. k /\ b \in p + 1 .. k /\ a - 1 \in 1 .. k - 1 /\ b - 1 \in 1 .. k - 1
            /\ a - 1 < b - 1
        BY <2>2, <2>9, <3>5
      <4>2. t[a] = s[a - 1] /\ t[b] = s[b - 1]
        BY <2>6, <4>1
      <4>. QED BY <3>0, <4>1, <4>2
    <3>. QED BY <2>2, <2>9, <3>1, <3>2, <3>3, <3>4, <3>5
  <2>10. Arranged(events, t, k)
    BY <2>6, <2>7, <2>8, <2>9 DEF Arranged
  <2>. QED BY <2>0, <2>10 DEF t
<1>3. \A k \in 0 .. N : k \in Good
  <2>. HIDE DEF Good
  <2>. QED BY <1>0, <1>1, <1>2, CountUp
<1>. QED BY <1>3

\* The order of the fold is a stable sort of any log: every position once, none
\* behind one whose event it comes before, ties as they were appended (render()
\* takes sorted(events, key=sort_key)).
THEOREM OrderedIs ==
  ASSUME NEW events, Sortable(events)
  PROVE  Arranged(events, Ordered(events), Len(events))
<1>1. Len(events) \in Nat /\ Len(events) \in 0 .. Len(events)
  BY DEF Sortable
<1>. QED BY <1>1, SortingArranges DEF Ordered

-----------------------------------------------------------------------------
(* The fold, event by event.                                               *)

\* Folding does what its equation says.
LEMMA FoldingIs ==
  ASSUME NEW events, Sortable(events)
  PROVE  /\ Folding(events)[0] = Nothing
         /\ \A k \in 1 .. Len(events) :
              Folding(events)[k] = Apply(Folding(events)[k - 1], events[Ordered(events)[k]])
<1>. DEFINE N == Len(events)
            order == Ordered(events)
            Next(g, k) == IF k = 0 THEN Nothing ELSE Apply(g[k - 1], events[order[k]])
            Good == {b \in 0 .. N : \E g : g = [k \in 0 .. b |-> Next(g, k)]}
<1>0. N \in Nat
  BY DEF Sortable
<1>1. 0 \in Good
  <2>1. [k \in 0 .. 0 |-> Nothing] = [k \in 0 .. 0 |-> Next([j \in 0 .. 0 |-> Nothing], k)]
    OBVIOUS
  <2>2. \E g : g = [k \in 0 .. 0 |-> Next(g, k)]
    BY <2>1
  <2>. QED BY <1>0, <2>2
<1>2. ASSUME NEW b \in 1 .. N, b - 1 \in Good PROVE b \in Good
  <2>1. PICK g : g = [k \in 0 .. b - 1 |-> Next(g, k)]
    BY <1>2
  <2>. DEFINE h == [k \in 0 .. b |-> IF k = b THEN Next(g, k) ELSE g[k]]
  <2>2. ASSUME NEW k \in 0 .. b PROVE h[k] = Next(h, k)
    <3>1. CASE k = 0
      <4>1. 0 \in 0 .. b - 1 /\ 0 # b
        OBVIOUS
      <4>2. g[0] = Next(g, 0)
        BY <2>1, <4>1
      <4>. QED BY <3>1, <4>1, <4>2
    <3>2. CASE k # 0
      <4>1. k - 1 \in 0 .. b - 1 /\ k - 1 # b /\ k - 1 \in 0 .. b
        BY <3>2
      <4>2. h[k - 1] = g[k - 1]
        BY <4>1
      <4>3. Next(h, k) = Next(g, k)
        BY <4>2
      <4>4. h[k] = Next(g, k)
        <5>1. CASE k = b
          BY <5>1
        <5>2. CASE k # b
          <6>1. k \in 0 .. b - 1
            BY <5>2
          <6>2. g[k] = Next(g, k)
            BY <2>1, <6>1
          <6>. QED BY <5>2, <6>2
        <5>. QED BY <5>1, <5>2
      <4>. QED BY <4>3, <4>4
    <3>. QED BY <3>1, <3>2
  <2>3. h = [k \in 0 .. b |-> Next(h, k)]
    <3>. DEFINE e == [k \in 0 .. b |-> Next(h, k)]
    <3>1. \A k \in 0 .. b : h[k] = e[k]
      <4>. HIDE DEF h
      <4>. QED BY <2>2
    <3>. QED BY <3>1
  <2>4. \E f : f = [k \in 0 .. b |-> Next(f, k)]
    <3>. HIDE DEF h, Next
    <3>. QED BY <2>3
  <2>. HIDE DEF Next
  <2>. QED BY <2>4
<1>3. N \in Good
  <2>. HIDE DEF Good
  <2>1. \A b \in 0 .. N : b \in Good
    BY <1>0, <1>1, <1>2, CountUp
  <2>. QED BY <1>0, <2>1
<1>4. Folding(events) = [k \in 0 .. N |-> Next(Folding(events), k)]
  <2>1. \E g : g = [k \in 0 .. N |-> Next(g, k)]
    BY <1>3
  <2>. DEFINE c == CHOOSE g : g = [k \in 0 .. N |-> Next(g, k)]
  <2>2. c = [k \in 0 .. N |-> Next(c, k)]
    <3>. HIDE DEF Next
    <3>. QED BY <2>1
  <2>3. Folding(events) = c
    BY DEF Folding
  <2>. QED BY <2>2, <2>3
<1>. DEFINE S == Folding(events)
<1>. HIDE DEF S
<1>5. S = [k \in 0 .. N |-> Next(S, k)]
  BY <1>4 DEF S
<1>6. \A k \in 0 .. N : S[k] = Next(S, k)
  <2>. HIDE DEF Next
  <2>. QED BY <1>5
<1>7. \A k \in 1 .. N : k \in 0 .. N /\ k # 0
  BY <1>0
<1>8. 0 \in 0 .. N
  BY <1>0
<1>. QED BY <1>6, <1>7, <1>8 DEF S

\* The events folded by step k.
Past(events, k) == {Ordered(events)[m] : m \in 1 .. k}

\* Step k takes an event that was not folded yet, after every event it does not
\* come before and before every event that does not come before it.
LEMMA FoldStep ==
  ASSUME NEW events, Sortable(events), NEW k \in 1 .. Len(events)
  PROVE  LET i == Ordered(events)[k] IN
         /\ i \in DOMAIN events /\ i \notin Past(events, k - 1)
         /\ Past(events, k) = Past(events, k - 1) \union {i}
         /\ Past(events, k - 1) \subseteq DOMAIN events
         /\ Folding(events)[k] = Apply(Folding(events)[k - 1], events[i])
         /\ \A j \in Past(events, k - 1) : ~Before(events[i], events[j])
         /\ \A j \in DOMAIN events : Before(events[j], events[i]) => j \in Past(events, k - 1)
<1>. DEFINE N == Len(events)
            s == Ordered(events)
            i == s[k]
<1>. HIDE DEF s
<1>0. N \in Nat /\ DOMAIN events = 1 .. N /\ k - 1 \in 0 .. N /\ k \in 1 .. N
  BY DEF Sortable
<1>1. /\ \A m \in 1 .. N : s[m] \in 1 .. N
      /\ \A j \in 1 .. N : \E m \in 1 .. N : s[m] = j
      /\ \A a, b \in 1 .. N : a < b => s[a] # s[b] /\ ~Before(events[s[b]], events[s[a]])
  BY OrderedIs DEF Arranged, s
<1>2. \A b : Past(events, b) = {s[m] : m \in 1 .. b}
  BY DEF Past, s
<1>3. \A m \in 1 .. k - 1 : m \in 1 .. N /\ m < k
  BY <1>0
<1>4. i \in DOMAIN events
  BY <1>0, <1>1
<1>5. /\ i \notin Past(events, k - 1)
      /\ \A j \in Past(events, k - 1) : j \in DOMAIN events /\ ~Before(events[i], events[j])
  <2>1. ASSUME NEW m \in 1 .. k - 1
        PROVE  s[m] # i /\ s[m] \in DOMAIN events /\ ~Before(events[i], events[s[m]])
    BY <1>0, <1>1, <1>3
  <2>. QED BY <1>2, <2>1
<1>6. Past(events, k) = Past(events, k - 1) \union {i}
  <2>1. 1 .. k = 1 .. k - 1 \union {k}
    BY <1>0
  <2>. QED BY <1>2, <2>1
<1>7. Folding(events)[k] = Apply(Folding(events)[k - 1], events[i])
  BY FoldingIs DEF s
<1>8. ASSUME NEW j \in DOMAIN events, Before(events[j], events[i])
      PROVE  j \in Past(events, k - 1)
  <2>1. PICK m \in 1 .. N : s[m] = j
    BY <1>0, <1>1
  <2>2. CASE m < k
    <3>1. m \in 1 .. k - 1
      BY <1>0, <2>2
    <3>. QED BY <1>2, <2>1, <3>1
  <2>3. CASE m = k
    BY <1>4, <1>8, <2>1, <2>3, WeakOrder
  <2>4. CASE m > k
    <3>1. ~Before(events[s[m]], events[s[k]])
      BY <1>0, <1>1, <2>4
    <3>. QED BY <1>8, <2>1, <3>1
  <2>. QED BY <1>0, <2>2, <2>3, <2>4
<1>. QED BY <1>4, <1>5, <1>6, <1>7, <1>8 DEF s

\* The fold begins with nothing folded and ends with everything.
LEMMA FoldEnds ==
  ASSUME NEW events, Sortable(events)
  PROVE  /\ Len(events) \in Nat
         /\ Past(events, 0) = {} /\ Folding(events)[0] = Nothing
         /\ Past(events, Len(events)) = DOMAIN events
         /\ Fold(events) = Folding(events)[Len(events)]
<1>1. Arranged(events, Ordered(events), Len(events))
  BY OrderedIs
<1>2. Past(events, Len(events)) = DOMAIN events
  <2>1. DOMAIN events = 1 .. Len(events)
    BY DEF Sortable
  <2>2. /\ \A m \in 1 .. Len(events) : Ordered(events)[m] \in 1 .. Len(events)
        /\ \A i \in 1 .. Len(events) : \E m \in 1 .. Len(events) : Ordered(events)[m] = i
    BY <1>1 DEF Arranged
  <2>. QED BY <2>1, <2>2 DEF Past
<1>3. Past(events, 0) = {}
  BY DEF Past
<1>. QED BY <1>2, <1>3, FoldingIs DEF Fold, Sortable

-----------------------------------------------------------------------------
(* What one event does.                                                    *)

\* An accumulator has these fields.
IsFold(f) ==
  f = [ current |-> f.current, history |-> f.history, outcome |-> f.outcome,
        drafted |-> f.drafted, rejected |-> f.rejected, students |-> f.students,
        flagged |-> f.flagged, excluded |-> f.excluded, anomalies |-> f.anomalies ]

\* A fold with some of its fields replaced is a fold.
LEMMA FoldWith ==
  ASSUME NEW f, IsFold(f), NEW c, NEW d, NEW s, NEW o, NEW a
  PROVE  /\ IsFold([f EXCEPT !.current = c, !.drafted = d, !.students = s, !.outcome = o])
         /\ IsFold([f EXCEPT !.outcome = o, !.current = c, !.drafted = d, !.students = s,
                             !.anomalies = a])
<1>1. ASSUME NEW g, IsFold(g), NEW v
      PROVE  /\ IsFold([g EXCEPT !.current = v]) /\ IsFold([g EXCEPT !.drafted = v])
             /\ IsFold([g EXCEPT !.students = v]) /\ IsFold([g EXCEPT !.outcome = v])
             /\ IsFold([g EXCEPT !.anomalies = v])
  <2>1. IsFold([g EXCEPT !.current = v])
    BY <1>1 DEF IsFold
  <2>2. IsFold([g EXCEPT !.drafted = v])
    BY <1>1 DEF IsFold
  <2>3. IsFold([g EXCEPT !.students = v])
    BY <1>1 DEF IsFold
  <2>4. IsFold([g EXCEPT !.outcome = v])
    BY <1>1 DEF IsFold
  <2>5. IsFold([g EXCEPT !.anomalies = v])
    BY <1>1 DEF IsFold
  <2>. QED BY <2>1, <2>2, <2>3, <2>4, <2>5
<1>2. IsFold([[[[f EXCEPT !.current = c] EXCEPT !.drafted = d] EXCEPT !.students = s] EXCEPT !.outcome = o])
  BY <1>1
<1>3. IsFold([[[[[f EXCEPT !.outcome = o] EXCEPT !.current = c] EXCEPT !.drafted = d]
               EXCEPT !.students = s] EXCEPT !.anomalies = a])
  BY <1>1
<1>. QED BY <1>2, <1>3

\* The steps that touch neither the observations nor what is known of them.
Inert == DOMAIN Rank \ ({"ObservationDrafted", "ObservationRejected", "ObservationEditedByHuman",
                         "SubmissionIngested"} \union CriterionOutcome)

\* What an event of each step does to the observations.
LEMMA ApplyIs ==
  ASSUME NEW f, IsFold(f), NEW e, e.step \in DOMAIN Rank
  PROVE  LET g == Apply(f, e) IN
         /\ IsFold(g)
         /\ e.step \in Inert \union {"SubmissionIngested", "ObservationDrafted", "ObservationRejected"}
              => g.current = f.current /\ g.history = f.history /\ f.students \subseteq g.students
         /\ e.step \in Inert => g.drafted = f.drafted /\ g.rejected = f.rejected /\ g.students = f.students
         /\ e.step = "SubmissionIngested" => g.drafted = f.drafted /\ g.rejected = f.rejected
              /\ g.students = f.students \union {e.unit}
         /\ e.step = "ObservationDrafted" => g.drafted = Put(f.drafted, Observation(e))
              /\ g.rejected = f.rejected /\ g.students = f.students
         /\ e.step = "ObservationRejected" => g.drafted = f.drafted
              /\ g.rejected = f.rejected \union {<<e.unit, e.body.about[1]>>}
              /\ g.students = f.students
         /\ e.step \in CriterionOutcome => g.history = f.history /\ g.rejected = f.rejected
              /\ f.students \subseteq g.students
         /\ e.step = "ObservationAccepted" =>
              /\ g.current = Put(f.current, Observation(e))
              /\ g.drafted = Without(f.drafted, Observation(e).id)
              /\ g.students = f.students \union {Observation(e).student}
         /\ e.step = "NoEvidenceRecorded" =>
              /\ g.current = Put(f.current, Observation(e))
              /\ g.drafted = f.drafted
              /\ g.students = f.students \union {Observation(e).student}
         /\ e.step = "NeedsHumanReview" =>
              /\ g.current = IF Source(f, e) = {} THEN f.current
                             ELSE Without(f.current, ObservationId(e))
                                    \union {[o EXCEPT !.needs_human = TRUE] : o \in Source(f, e)}
              /\ g.drafted = IF Source(f, e) = {} THEN f.drafted
                             ELSE Without(f.drafted, ObservationId(e))
              /\ g.students = f.students \union {o.student : o \in Source(f, e)}
         /\ e.step = "ObservationEditedByHuman" =>
              /\ g.current = Put(Without(f.current, e.body.before.id), e.body.after)
              /\ g.history = Put(f.history, [id |-> e.body.after.id,
                   chain |-> Superseded(f, e.body.before.id, e.body.after.id, e.body.before)])
              /\ g.drafted = f.drafted /\ g.rejected = f.rejected /\ g.students = f.students
<1>0. CriterionOutcome = {"ObservationAccepted", "NoEvidenceRecorded", "NeedsHumanReview"}
  BY DEF CriterionOutcome
<1>1. CASE e.step = "SubmissionIngested"
  <2>1. Apply(f, e) = [f EXCEPT !.students = @ \union {e.unit}]
    BY <1>1 DEF Apply
  <2>. QED BY <1>0, <1>1, <2>1 DEF IsFold, Inert
<1>2. CASE e.step = "ObservationDrafted"
  <2>1. Apply(f, e) = [f EXCEPT !.drafted = Put(@, Observation(e))]
    BY <1>2 DEF Apply, Drafted
  <2>. QED BY <1>0, <1>2, <2>1 DEF IsFold, Inert
<1>3. CASE e.step = "ObservationRejected"
  <2>1. Apply(f, e) = [f EXCEPT !.rejected = @ \union {<<e.unit, e.body.about[1]>>}]
    BY <1>3 DEF Apply, Rejected
  <2>. QED BY <1>0, <1>3, <2>1 DEF IsFold, Inert
<1>4. CASE e.step = "ObservationAccepted"
  <2>1. Apply(f, e) = Accepted(f, e)
    BY <1>4 DEF Apply
  <2>2. LET h == Accepted(f, e) IN
        /\ h.current = Put(f.current, Observation(e))
        /\ h.drafted = Without(f.drafted, Observation(e).id)
        /\ h.students = f.students \union {Observation(e).student}
        /\ h.history = f.history /\ h.rejected = f.rejected
    BY DEF IsFold, Accepted
  <2>3. IsFold(Accepted(f, e))
    BY FoldWith DEF Accepted
  <2>. QED BY <1>0, <1>4, <2>1, <2>2, <2>3 DEF Inert
<1>5. CASE e.step = "NoEvidenceRecorded"
  <2>1. Apply(f, e) = NoEvidence(f, e)
    BY <1>5 DEF Apply
  <2>. QED BY <1>0, <1>5, <2>1 DEF IsFold, Inert, NoEvidence
<1>6. CASE e.step = "NeedsHumanReview"
  <2>1. Apply(f, e) = NeedsHuman(f, e)
    BY <1>6 DEF Apply
  <2>2. LET h == NeedsHuman(f, e) IN
        /\ h.current = IF Source(f, e) = {} THEN f.current
                       ELSE Without(f.current, ObservationId(e))
                              \union {[o EXCEPT !.needs_human = TRUE] : o \in Source(f, e)}
        /\ h.drafted = IF Source(f, e) = {} THEN f.drafted
                       ELSE Without(f.drafted, ObservationId(e))
        /\ h.students = f.students \union {o.student : o \in Source(f, e)}
        /\ h.history = f.history /\ h.rejected = f.rejected
    BY DEF IsFold, NeedsHuman
  <2>3. IsFold(NeedsHuman(f, e))
    BY FoldWith DEF NeedsHuman
  <2>. QED BY <1>0, <1>6, <2>1, <2>2, <2>3 DEF Inert
<1>7. CASE e.step = "ObservationEditedByHuman"
  <2>1. Apply(f, e) = Edited(f, e)
    BY <1>7 DEF Apply
  <2>. QED BY <1>0, <1>7, <2>1 DEF IsFold, Inert, Edited
<1>8. CASE e.step \in Inert
  <2>1. \/ Apply(f, e) = f
        \/ Apply(f, e) \in {InjectionDetected(f, e), Abandoned(f, e), Failed(f, e)}
    BY <1>0, <1>8 DEF Apply, Inert, Rank
  <2>2. e.step \notin CriterionOutcome \union {"ObservationDrafted", "ObservationRejected",
                         "ObservationEditedByHuman", "SubmissionIngested"}
    BY <1>8 DEF Inert
  <2>. QED BY <1>0, <2>1, <2>2 DEF IsFold, InjectionDetected, Abandoned, Failed
<1>. QED BY <1>0, <1>1, <1>2, <1>3, <1>4, <1>5, <1>6, <1>7, <1>8 DEF Inert

-----------------------------------------------------------------------------
(* The fold of what a run left: no edits yet.                              *)

\* A version of an observation, of the run or of an edit.
IsObs(o) ==
  /\ o = [ id |-> <<o.student, o.crit, o.attempts, o.id[4]>>, student |-> o.student,
           crit |-> o.crit, attempts |-> o.attempts, kind |-> o.kind, checked |-> o.checked,
           needs_human |-> o.needs_human, text |-> o.text ]
  /\ o.id[4] \in Seq(Nat)

\* An observation the run left, not an edited one.
Original(o) == IsObs(o) /\ o.id[4] = <<>>

\* The observation of an event is an original, of its unit and criterion.
LEMMA ObservationIs ==
  ASSUME NEW e
  PROVE  /\ Original(Observation(e)) /\ Observation(e).id = ObservationId(e)
         /\ Observation(e).student = e.unit /\ Observation(e).crit = e.body.about[1]
         /\ Observation(e).attempts = e.body.about[2]
<1>1. /\ Observation(e).id = ObservationId(e)
      /\ Observation(e).student = e.unit /\ Observation(e).crit = e.body.about[1]
      /\ Observation(e).attempts = e.body.about[2]
  BY DEF Observation
<1>2. ObservationId(e)[4] = <<>> /\ <<>> \in Seq(Nat)
  BY DEF ObservationId
<1>3. Observation(e).id = <<e.unit, e.body.about[1], e.body.about[2], Observation(e).id[4]>>
  BY <1>1, <1>2 DEF ObservationId
<1>4. Observation(e) =
        [ id |-> Observation(e).id, student |-> Observation(e).student,
          crit |-> Observation(e).crit, attempts |-> Observation(e).attempts,
          kind |-> Observation(e).kind, checked |-> Observation(e).checked,
          needs_human |-> Observation(e).needs_human, text |-> Observation(e).text ]
  BY DEF Observation
<1>. QED BY <1>1, <1>2, <1>3, <1>4 DEF Original, IsObs

\* Two originals with one id are about the same.
LEMMA SameId ==
  ASSUME NEW o, NEW p, IsObs(o), IsObs(p), o.id = p.id
  PROVE  o.student = p.student /\ o.crit = p.crit /\ o.attempts = p.attempts
<1>1. /\ o.id = <<o.student, o.crit, o.attempts, o.id[4]>>
      /\ p.id = <<p.student, p.crit, p.attempts, p.id[4]>>
  <2>1. /\ o.id = [ id |-> <<o.student, o.crit, o.attempts, o.id[4]>>, student |-> o.student,
           crit |-> o.crit, attempts |-> o.attempts, kind |-> o.kind, checked |-> o.checked,
           needs_human |-> o.needs_human, text |-> o.text ].id
        /\ p.id = [ id |-> <<p.student, p.crit, p.attempts, p.id[4]>>, student |-> p.student,
           crit |-> p.crit, attempts |-> p.attempts, kind |-> p.kind, checked |-> p.checked,
           needs_human |-> p.needs_human, text |-> p.text ].id
    BY Zenon DEF IsObs
  <2>. QED BY <2>1
<1>. QED BY <1>1

\* The id of an observation.
LEMMA IdOf ==
  ASSUME NEW o, IsObs(o)
  PROVE  o.id = <<o.student, o.crit, o.attempts, o.id[4]>>
<1>1. o.id = [ id |-> <<o.student, o.crit, o.attempts, o.id[4]>>, student |-> o.student,
         crit |-> o.crit, attempts |-> o.attempts, kind |-> o.kind, checked |-> o.checked,
         needs_human |-> o.needs_human, text |-> o.text ].id
  BY Zenon DEF IsObs
<1>. QED BY <1>1

\* What an escalation changes of an observation.
LEMMA Escalates ==
  ASSUME NEW o, Original(o), NEW f, NEW e
  PROVE  LET p == [o EXCEPT !.needs_human = TRUE]
             q == Presentable(f, e, o)
         IN /\ Original(p) /\ p.id = o.id /\ p.student = o.student
            /\ Original(q) /\ q.id = o.id /\ q.student = o.student
<1>a. o.id = <<o.student, o.crit, o.attempts, o.id[4]>> /\ o.id[4] = <<>> /\ o.id[4] \in Seq(Nat)
  BY IdOf DEF Original, IsObs
<1>1. o = [ id |-> o.id, student |-> o.student,
         crit |-> o.crit, attempts |-> o.attempts, kind |-> o.kind, checked |-> o.checked,
         needs_human |-> o.needs_human, text |-> o.text ]
  BY <1>a, Zenon DEF Original, IsObs
<1>b. ASSUME NEW v
      PROVE  /\ [o EXCEPT !.needs_human = v] =
                  [ id |-> o.id, student |-> o.student, crit |-> o.crit,
                    attempts |-> o.attempts, kind |-> o.kind, checked |-> o.checked,
                    needs_human |-> v, text |-> o.text ]
             /\ [o EXCEPT !.kind = v] =
                  [ id |-> o.id, student |-> o.student, crit |-> o.crit,
                    attempts |-> o.attempts, kind |-> v, checked |-> o.checked,
                    needs_human |-> o.needs_human, text |-> o.text ]
  BY <1>1
<1>. DEFINE p == [o EXCEPT !.needs_human = TRUE]
            q == [o EXCEPT !.kind = "no_evidence"]
<1>2. p = [ id |-> o.id, student |-> o.student,
           crit |-> o.crit, attempts |-> o.attempts, kind |-> o.kind, checked |-> o.checked,
           needs_human |-> TRUE, text |-> o.text ]
  BY <1>b, Zenon
<1>3. q = [ id |-> o.id, student |-> o.student,
           crit |-> o.crit, attempts |-> o.attempts, kind |-> "no_evidence", checked |-> o.checked,
           needs_human |-> o.needs_human, text |-> o.text ]
  BY <1>b, Zenon
<1>. HIDE DEF p, q
<1>4. Original(p) /\ p.id = o.id /\ p.student = o.student
  <2>1. /\ p.id = o.id /\ p.student = o.student /\ p.crit = o.crit /\ p.attempts = o.attempts
        /\ p.kind = o.kind /\ p.checked = o.checked /\ p.needs_human = TRUE /\ p.text = o.text
    BY <1>2
  <2>. QED BY <1>a, <1>2, <2>1 DEF Original, IsObs
<1>5. Original(q) /\ q.id = o.id /\ q.student = o.student
  <2>1. /\ q.id = o.id /\ q.student = o.student /\ q.crit = o.crit /\ q.attempts = o.attempts
        /\ q.kind = "no_evidence" /\ q.checked = o.checked /\ q.needs_human = o.needs_human
        /\ q.text = o.text
    BY <1>3
  <2>. QED BY <1>a, <1>3, <2>1 DEF Original, IsObs
<1>. QED BY <1>4, <1>5 DEF Presentable, p, q

\* No two entries have one id, as in a dict.
Distinct(D) == \A o, p \in D : o.id = p.id => o = p

\* The steps that decide a criterion, and those that bring in a student.
Decides(e) == e.step \in CriterionOutcome
Enters(e) == e.step = "SubmissionIngested" \/ Decides(e)

\* The observations come from the events that decided them, each under an id of
\* its own; whoever has one has a sheet, and sheets are of those who came in.
RunFold(events, S, f) ==
  /\ IsFold(f) /\ f.history = {}
  /\ Distinct(f.current) /\ Distinct(f.drafted)
  /\ \A o \in f.current \union f.drafted : Original(o)
  /\ \A o \in f.current :
       /\ o.student \in f.students
       /\ \E i \in S : Decides(events[i]) /\ o.id = ObservationId(events[i])
  /\ \A s \in f.students : \E i \in S : Enters(events[i]) /\ events[i].unit = s

\* The fold begins empty.
LEMMA NothingIs == IsFold(Nothing) /\ \A events : RunFold(events, {}, Nothing)
  BY DEF Nothing, IsFold, RunFold, Distinct

LEMMA ObservationIdIs ==
  ASSUME NEW o, NEW e, Original(o), o.id = ObservationId(e)
  PROVE  o.student = e.unit /\ o.crit = e.body.about[1] /\ o.attempts = e.body.about[2]
<1>1. IsObs(o) /\ IsObs(Observation(e)) /\ Observation(e).id = o.id
  BY ObservationIs DEF Original
<1>2. /\ o.student = Observation(e).student /\ o.crit = Observation(e).crit
      /\ o.attempts = Observation(e).attempts
  BY <1>1, SameId, Zenon
<1>. QED BY <1>2, ObservationIs

\* What an escalation shows is at most one observation, under its own id.
LEMMA SourceIs ==
  ASSUME NEW f, NEW e, Distinct(f.current), Distinct(f.drafted),
         \A o \in f.current \union f.drafted : Original(o)
  PROVE  /\ \A o \in Source(f, e) : Original(o) /\ o.id = ObservationId(e) /\ o.student = e.unit
         /\ \A o, p \in Source(f, e) : o = p
<1>1. CASE Carried(e) # {}
  <2>1. Source(f, e) = {Observation(e)}
    BY <1>1 DEF Source, Carried
  <2>. QED BY <2>1, ObservationIs
<1>2. CASE Carried(e) = {}
  <2>. DEFINE i == ObservationId(e)
              known == IF At(f.current, i) # {} THEN At(f.current, i) ELSE At(f.drafted, i)
  <2>1. Source(f, e) = {Presentable(f, e, o) : o \in known}
    BY <1>2 DEF Source
  <2>2. \A o \in known : Original(o) /\ o.id = i
    BY DEF At
  <2>3. \A o, p \in known : o = p
    BY DEF At, Distinct
  <2>. HIDE DEF known
  <2>4. \A o \in known : Original(Presentable(f, e, o)) /\ Presentable(f, e, o).id = i
    BY <2>2, Escalates
  <2>5. \A o \in known : Presentable(f, e, o).student = e.unit
    BY <2>4, ObservationIdIs
  <2>. QED BY <2>1, <2>3, <2>4, <2>5
<1>. QED BY <1>1, <1>2

\* An outcome puts its observation on the sheet.
LEMMA ApplyDecides ==
  ASSUME NEW f, IsFold(f), NEW e, e.step \in {"ObservationAccepted", "NoEvidenceRecorded"}
  PROVE  /\ Apply(f, e).current = Put(f.current, Observation(e))
         /\ Apply(f, e).students = f.students \union {Observation(e).student}
<1>1. CASE e.step = "ObservationAccepted"
  <2>1. Apply(f, e) = Accepted(f, e)
    BY <1>1 DEF Apply
  <2>. QED BY <2>1 DEF IsFold, Accepted
<1>2. CASE e.step = "NoEvidenceRecorded"
  <2>1. Apply(f, e) = NoEvidence(f, e)
    BY <1>2 DEF Apply
  <2>. QED BY <2>1 DEF IsFold, NoEvidence
<1>. QED BY <1>1, <1>2

\* One event of the run more.
LEMMA RunFoldStep ==
  ASSUME NEW events, NEW S, NEW f, NEW i, RunFold(events, S, f),
         events[i].step \in DOMAIN Rank, events[i].step # "ObservationEditedByHuman"
  PROVE  RunFold(events, S \union {i}, Apply(f, events[i]))
<1>. DEFINE e == events[i]
            g == Apply(f, e)
            T == S \union {i}
<1>0. IsFold(f) /\ e.step \in DOMAIN Rank
  BY DEF RunFold
<1>. HIDE DEF g
<1>1. CASE e.step \in Inert \union {"SubmissionIngested", "ObservationDrafted", "ObservationRejected"}
  <2>1. /\ IsFold(g) /\ g.current = f.current /\ g.history = f.history /\ f.students \subseteq g.students
    BY <1>0, <1>1, ApplyIs DEF g
  <2>2. g.drafted = f.drafted \/ g.drafted = Put(f.drafted, Observation(e))
    BY <1>0, <1>1, ApplyIs DEF g
  <2>3. Distinct(g.drafted) /\ \A o \in g.drafted : Original(o)
    <3>1. CASE g.drafted = f.drafted
      BY <3>1 DEF RunFold
    <3>2. CASE g.drafted = Put(f.drafted, Observation(e))
      <4>1. \A o \in g.drafted : o = Observation(e) \/ (o \in f.drafted /\ o.id # Observation(e).id)
        BY <3>2 DEF Put, Without
      <4>. QED BY <4>1, ObservationIs DEF RunFold, Distinct
    <3>. QED BY <2>2, <3>1, <3>2
  <2>4. \A s \in g.students : s \in f.students \/ (e.step = "SubmissionIngested" /\ s = e.unit)
    <3>1. CASE e.step = "SubmissionIngested"
      <4>1. g.students = f.students \union {e.unit}
        BY <1>0, <3>1, ApplyIs DEF g
      <4>. QED BY <3>1, <4>1
    <3>2. CASE e.step # "SubmissionIngested"
      <4>1. g.students = f.students
        BY <1>0, <1>1, <3>2, ApplyIs DEF g
      <4>. QED BY <4>1
    <3>. QED BY <3>1, <3>2
  <2>5. \A s \in g.students : \E j \in T : Enters(events[j]) /\ events[j].unit = s
    BY <2>4 DEF RunFold, Enters
  <2>. QED BY <2>1, <2>3, <2>5 DEF RunFold, g
<1>2. CASE e.step \in {"ObservationAccepted", "NoEvidenceRecorded"}
  <2>0. Decides(e)
    BY <1>2 DEF Decides, CriterionOutcome
  <2>1. /\ IsFold(g) /\ g.history = f.history /\ g.current = Put(f.current, Observation(e))
        /\ g.students = f.students \union {Observation(e).student}
        /\ g.drafted \subseteq f.drafted
    <3>1. g.drafted = f.drafted \/ g.drafted = Without(f.drafted, Observation(e).id)
      BY <1>0, <1>2, ApplyIs DEF g
    <3>2. g.drafted \subseteq f.drafted
      BY <3>1 DEF Without
    <3>3. IsFold(g) /\ g.history = f.history
      BY <1>0, <2>0, ApplyIs DEF g, Decides
    <3>4. /\ g.current = Put(f.current, Observation(e))
          /\ g.students = f.students \union {Observation(e).student}
      <4>1. IsFold(f) /\ e.step \in {"ObservationAccepted", "NoEvidenceRecorded"}
        BY <1>0, <1>2
      <4>. HIDE DEF e
      <4>2. /\ Apply(f, e).current = Put(f.current, Observation(e))
            /\ Apply(f, e).students = f.students \union {Observation(e).student}
        BY <4>1, ApplyDecides
      <4>. QED BY <4>2 DEF g
    <3>. QED BY <3>2, <3>3, <3>4
  <2>2. \A o \in g.current :
          o = Observation(e) \/ (o \in f.current /\ o.id # Observation(e).id)
    BY <2>1 DEF Put, Without
  <2>3. Distinct(g.current) /\ Distinct(g.drafted)
    BY <2>1, <2>2 DEF RunFold, Distinct
  <2>4. \A o \in g.current \union g.drafted : Original(o)
    BY <2>1, <2>2, ObservationIs DEF RunFold
  <2>5. \A o \in g.current : /\ o.student \in g.students
                             /\ \E j \in T : Decides(events[j]) /\ o.id = ObservationId(events[j])
    BY <2>0, <2>1, <2>2, ObservationIs DEF RunFold
  <2>6. \A s \in g.students : \E j \in T : Enters(events[j]) /\ events[j].unit = s
    BY <2>0, <2>1, ObservationIs DEF RunFold, Enters
  <2>. QED BY <2>1, <2>3, <2>4, <2>5, <2>6 DEF RunFold, g
<1>3. CASE e.step = "NeedsHumanReview"
  <2>0. Decides(e)
    BY <1>3 DEF Decides, CriterionOutcome
  <2>. DEFINE src == Source(f, e)
              new == {[o EXCEPT !.needs_human = TRUE] : o \in src}
  <2>1. /\ IsFold(g) /\ g.history = f.history
        /\ g.current = IF src = {} THEN f.current
                       ELSE Without(f.current, ObservationId(e)) \union new
        /\ g.drafted = IF src = {} THEN f.drafted ELSE Without(f.drafted, ObservationId(e))
        /\ g.students = f.students \union {o.student : o \in src}
    <3>1. IsFold(g) /\ g.history = f.history
      BY <1>0, <2>0, ApplyIs DEF g, Decides
    <3>2. /\ g.current = IF src = {} THEN f.current
                         ELSE Without(f.current, ObservationId(e)) \union new
          /\ g.drafted = IF src = {} THEN f.drafted ELSE Without(f.drafted, ObservationId(e))
          /\ g.students = f.students \union {o.student : o \in src}
      BY <1>0, <1>3, ApplyIs, Zenon DEF g
    <3>. QED BY <3>1, <3>2
  <2>2. /\ \A o \in src : Original(o) /\ o.id = ObservationId(e) /\ o.student = e.unit
        /\ \A o, p \in src : o = p
    BY SourceIs DEF RunFold
  <2>. HIDE DEF src
  <2>3. /\ \A o \in new : Original(o) /\ o.id = ObservationId(e) /\ o.student = e.unit
        /\ \A o, p \in new : o = p
    BY <2>2, Escalates
  <2>4. \A o \in new : o.student \in g.students
    BY <2>1, <2>2, <2>3
  <2>. HIDE DEF new
  <2>5. \A o \in g.current :
          \/ o \in new
          \/ o \in f.current /\ (new # {} => o.id # ObservationId(e))
    <3>1. src = {} => new = {}
      BY DEF new
    <3>. QED BY <2>1, <3>1 DEF Without
  <2>6. g.drafted \subseteq f.drafted /\ f.students \subseteq g.students
    BY <2>1 DEF Without
  <2>7. Distinct(g.current) /\ Distinct(g.drafted)
    BY <2>3, <2>5, <2>6 DEF RunFold, Distinct
  <2>8. \A o \in g.current \union g.drafted : Original(o)
    BY <2>3, <2>5, <2>6 DEF RunFold
  <2>9. \A o \in g.current : /\ o.student \in g.students
                             /\ \E j \in T : Decides(events[j]) /\ o.id = ObservationId(events[j])
    BY <2>0, <2>3, <2>4, <2>5, <2>6 DEF RunFold
  <2>10. \A s \in g.students : s \in f.students \/ s = e.unit
    BY <2>1, <2>2
  <2>11. \A s \in g.students : \E j \in T : Enters(events[j]) /\ events[j].unit = s
    BY <2>0, <2>10 DEF RunFold, Enters
  <2>. QED BY <2>1, <2>7, <2>8, <2>9, <2>11 DEF RunFold, g
<1>. QED BY <1>0, <1>1, <1>2, <1>3 DEF Inert, CriterionOutcome

\* As long as no edit is folded.
LEMMA RunFolds ==
  ASSUME NEW events, Sortable(events), NEW m \in 0 .. Len(events),
         \A k \in 1 .. m : events[Ordered(events)[k]].step # "ObservationEditedByHuman"
  PROVE  RunFold(events, Past(events, m), Folding(events)[m])
<1>. DEFINE Good == {k \in 0 .. m : RunFold(events, Past(events, k), Folding(events)[k])}
<1>0. Len(events) \in Nat /\ m \in Nat /\ m <= Len(events)
  BY DEF Sortable
<1>1. 0 \in Good
  <2>1. RunFold(events, Past(events, 0), Folding(events)[0])
    BY FoldEnds, NothingIs, Zenon
  <2>. QED BY <1>0, <2>1
<1>2. ASSUME NEW k \in 1 .. m, k - 1 \in Good PROVE k \in Good
  <2>. DEFINE i == Ordered(events)[k]
  <2>0. k \in 1 .. Len(events) /\ k \in 0 .. m
    BY <1>0
  <2>1. /\ i \in DOMAIN events /\ Past(events, k) = Past(events, k - 1) \union {i}
        /\ Folding(events)[k] = Apply(Folding(events)[k - 1], events[i])
    BY <2>0, FoldStep
  <2>2. events[i].step \in DOMAIN Rank /\ events[i].step # "ObservationEditedByHuman"
    BY <2>1 DEF Sortable
  <2>. HIDE DEF i
  <2>3. RunFold(events, Past(events, k - 1), Folding(events)[k - 1])
    BY <1>2
  <2>. DEFINE S == Past(events, k - 1)
              f == Folding(events)[k - 1]
  <2>4. RunFold(events, Past(events, k), Folding(events)[k])
    <3>1. RunFold(events, S, f)
      BY <2>3
    <3>2. Past(events, k) = S \union {i} /\ Folding(events)[k] = Apply(f, events[i])
      BY <2>1
    <3>. HIDE DEF S, f
    <3>3. RunFold(events, S \union {i}, Apply(f, events[i]))
      BY <2>2, <3>1, RunFoldStep
    <3>. QED BY <3>2, <3>3
  <2>. QED BY <2>0, <2>4
<1>3. \A k \in 0 .. m : k \in Good
  <2>. HIDE DEF Good
  <2>. QED BY <1>0, <1>1, <1>2, CountUp
<1>. QED BY <1>0, <1>3

-----------------------------------------------------------------------------
(* The fold of the edits, which comes after that of the run.               *)

\* Where the edits are in the log.
EditsAt(events) == {k \in DOMAIN events : events[k].step = "ObservationEditedByHuman"}

\* What is folded before any edit.
Early(e) == Rank[e.step] < Rank["ObservationEditedByHuman"]

\* Where in the order of the fold the edits may begin.
SplitAt(events) ==
  CHOOSE m \in 0 .. Len(events) :
    \A k \in 1 .. Len(events) : k <= m <=> Early(events[Ordered(events)[k]])

\* The observations as the run left them.
Base(events) == Folding(events)[SplitAt(events)].current

\* There is such a place.
LEMMA SplitIs ==
  ASSUME NEW events, Sortable(events)
  PROVE  /\ SplitAt(events) \in 0 .. Len(events)
         /\ \A k \in 1 .. Len(events) :
              k <= SplitAt(events) <=> Early(events[Ordered(events)[k]])
<1>. DEFINE N == Len(events)
            s == Ordered(events)
            Late == {k \in 1 .. N : ~Early(events[s[k]])}
<1>0. N \in Nat /\ DOMAIN events = 1 .. N
  BY DEF Sortable
<1>1. /\ \A k \in 1 .. N : s[k] \in 1 .. N
      /\ \A a, b \in 1 .. N : a < b => ~Before(events[s[b]], events[s[a]])
  BY OrderedIs DEF Arranged
<1>. HIDE DEF s
<1>2. PICK x \in Late \union {N + 1} : \A k \in Late \union {N + 1} : x <= k
  <2>1. Late \union {N + 1} \subseteq Nat /\ Late \union {N + 1} # {}
    BY <1>0
  <2>. HIDE DEF Late
  <2>. QED BY <2>1, Least
<1>3. x \in 1 .. N + 1 /\ x - 1 \in 0 .. N
  BY <1>0, <1>2
<1>4. ASSUME NEW k \in 1 .. N
      PROVE  k <= x - 1 <=> Early(events[s[k]])
  <2>1. CASE k < x
    <3>1. k \notin Late
      BY <1>2, <1>3, <2>1
    <3>. QED BY <1>3, <2>1, <3>1
  <2>2. CASE k = x
    <3>1. k \in Late
      BY <1>0, <1>2, <2>2
    <3>. QED BY <1>3, <2>2, <3>1
  <2>3. CASE k > x
    <3>1. x \in Late /\ x \in 1 .. N
      BY <1>0, <1>2, <1>3, <2>3
    <3>2. ~Before(events[s[k]], events[s[x]]) /\ s[k] \in DOMAIN events /\ s[x] \in DOMAIN events
      BY <1>0, <1>1, <2>3, <3>1
    <3>3. ~Early(events[s[x]])
      BY <3>1
    <3>4. /\ Rank[events[s[k]].step] \in Nat /\ Rank[events[s[x]].step] \in Nat
      BY <3>2, RankIsNat DEF Sortable
    <3>5. Rank["ObservationEditedByHuman"] \in Nat
      BY DEF Rank
    <3>6. ~Early(events[s[k]])
      BY <3>2, <3>3, <3>4, <3>5 DEF Before, Early
    <3>. QED BY <1>3, <2>3, <3>6
  <2>. QED BY <1>3, <2>1, <2>2, <2>3
<1>5. \E m \in 0 .. N : \A k \in 1 .. N : k <= m <=> Early(events[s[k]])
  BY <1>3, <1>4
<1>. QED BY <1>5 DEF SplitAt, s

\* What is folded by the split: all that is early and nothing else.
LEMMA BaseIs ==
  ASSUME NEW events, Sortable(events)
  PROVE  RunFold(events, Past(events, SplitAt(events)), Folding(events)[SplitAt(events)])
<1>1. Len(events) \in Nat /\ SplitAt(events) \in 0 .. Len(events)
  BY SplitIs DEF Sortable
<1>2. ASSUME NEW k \in 1 .. SplitAt(events)
      PROVE  events[Ordered(events)[k]].step # "ObservationEditedByHuman"
  <2>1. k \in 1 .. Len(events) /\ k <= SplitAt(events)
    BY <1>1
  <2>2. Early(events[Ordered(events)[k]])
    BY <2>1, SplitIs
  <2>3. Rank["ObservationEditedByHuman"] \in Nat
    BY DEF Rank
  <2>. QED BY <2>2, <2>3 DEF Early
<1>. QED BY <1>1, <1>2, RunFolds

\* Whatever was edited, sheets are of those who came in.
LEMMA StudentsEnter ==
  ASSUME NEW events, Sortable(events), NEW s \in Fold(events).students
  PROVE  \E i \in DOMAIN events : Enters(events[i]) /\ events[i].unit = s
<1>. DEFINE m == SplitAt(events)
            N == Len(events)
            base == Folding(events)[m]
            Good == {k \in 0 .. N : /\ IsFold(Folding(events)[k])
                                    /\ Folding(events)[k].students = base.students}
<1>1. N \in Nat /\ m \in 0 .. N /\ DOMAIN events = 1 .. N
  BY SplitIs DEF Sortable
<1>2. RunFold(events, Past(events, m), base)
  BY BaseIs
<1>3. m \in Good
  <2>. HIDE DEF base
  <2>1. IsFold(base) /\ base = Folding(events)[m]
    BY <1>2 DEF RunFold, base
  <2>. QED BY <1>1, <2>1
<1>4. ASSUME NEW k \in m + 1 .. N, k - 1 \in Good PROVE k \in Good
  <2>. DEFINE i == Ordered(events)[k]
              f == Folding(events)[k - 1]
              g == Apply(f, events[i])
  <2>0. k \in 1 .. N /\ k \in 0 .. N /\ ~(k <= m)
    BY <1>1
  <2>1. i \in DOMAIN events /\ Folding(events)[k] = g
    BY <2>0, FoldStep
  <2>2. ~Early(events[i])
    BY <2>0, SplitIs
  <2>3. IsFold(f) /\ f.students = base.students
    BY <1>4
  <2>4. events[i].step \in DOMAIN Rank
    BY <2>1 DEF Sortable
  <2>. HIDE DEF i, f, base
  <2>5. events[i].step = "ObservationEditedByHuman" \/ events[i].step \in Inert
    BY <2>2, <2>4 DEF Early, Inert, Rank, CriterionOutcome
  <2>6. IsFold(g) /\ g.students = f.students
    BY <2>3, <2>4, <2>5, ApplyIs
  <2>. HIDE DEF g
  <2>. QED BY <2>0, <2>1, <2>3, <2>6
<1>5. N \in Good
  <2>1. m \in Nat /\ m <= N
    BY <1>1
  <2>. HIDE DEF Good, m, N
  <2>2. \A k \in m .. N : k \in Good
    BY <1>1, <1>3, <1>4, <2>1, Climb
  <2>3. N \in m .. N
    BY <1>1, <2>1
  <2>. QED BY <2>2, <2>3
<1>6. s \in base.students
  <2>1. Fold(events) = Folding(events)[N]
    BY FoldEnds
  <2>2. Folding(events)[N].students = base.students
    BY <1>5
  <2>. HIDE DEF base, N
  <2>. QED BY <2>1, <2>2
<1>7. PICK i \in Past(events, m) : Enters(events[i]) /\ events[i].unit = s
  <2>. HIDE DEF base, m
  <2>. QED BY <1>2, <1>6 DEF RunFold
<1>8. Past(events, m) \subseteq DOMAIN events
  <2>1. \A k \in 1 .. N : Ordered(events)[k] \in DOMAIN events
    BY FoldStep
  <2>. HIDE DEF m, N
  <2>2. \A k \in 1 .. m : k \in 1 .. N
    BY <1>1
  <2>. QED BY <2>1, <2>2 DEF Past
<1>. QED BY <1>7, <1>8

\* Each criterion of each student was decided by one event.
Decided(events) ==
  \A i, j \in DOMAIN events :
    /\ Decides(events[i]) /\ Decides(events[j])
    /\ events[i].unit = events[j].unit
    /\ events[i].body.about[1] = events[j].body.about[1]
    => i = j

\* Then there is one observation of it.
LEMMA BaseOne ==
  ASSUME NEW events, Sortable(events), Decided(events),
         NEW o \in Base(events), NEW p \in Base(events),
         o.student = p.student, o.crit = p.crit
  PROVE  o = p
<1>. DEFINE m == SplitAt(events)
            f == Folding(events)[m]
<1>1. RunFold(events, Past(events, m), f)
  BY BaseIs
<1>2. o \in f.current /\ p \in f.current
  BY DEF Base
<1>3. Past(events, m) \subseteq DOMAIN events
  <2>1. m \in 0 .. Len(events) /\ Len(events) \in Nat /\ DOMAIN events = 1 .. Len(events)
    BY SplitIs DEF Sortable
  <2>2. \A k \in 1 .. Len(events) : Ordered(events)[k] \in 1 .. Len(events)
    BY OrderedIs DEF Arranged
  <2>. QED BY <2>1, <2>2 DEF Past
<1>. HIDE DEF f, m
<1>4. PICK i \in Past(events, m) : Decides(events[i]) /\ o.id = ObservationId(events[i])
  BY <1>1, <1>2 DEF RunFold
<1>5. PICK j \in Past(events, m) : Decides(events[j]) /\ p.id = ObservationId(events[j])
  BY <1>1, <1>2 DEF RunFold
<1>6. Original(o) /\ Original(p)
  BY <1>1, <1>2 DEF RunFold
<1>7. /\ o.student = events[i].unit /\ o.crit = events[i].body.about[1]
      /\ p.student = events[j].unit /\ p.crit = events[j].body.about[1]
  BY <1>4, <1>5, <1>6, ObservationIdIs
<1>8. i = j
  BY <1>3, <1>4, <1>5, <1>7 DEF Decided
<1>. QED BY <1>1, <1>2, <1>4, <1>5, <1>8 DEF RunFold, Distinct

\* An edit says what it edits, and its version is named after it.
IsEdit(e) ==
  LET b == e.body.before
      a == e.body.after
  IN /\ IsObs(b) /\ IsObs(a)
     /\ e.unit = b.student /\ e.key[1] = b.crit /\ e.key = <<e.key[1], e.key[2]>>
     /\ a.student = b.student /\ a.crit = b.crit
     /\ a.id[4] = Append(b.id[4], e.key[2] + 1)

\* Each edit is of a version that the log held before, and one that is folded
\* before it; no two edits have one identity.
WellEdited(events) ==
  /\ Sortable(events)
  /\ \A k \in EditsAt(events) :
       /\ IsEdit(events[k])
       /\ \/ events[k].body.before \in Base(events)
          \/ \E j \in EditsAt(events) :
               /\ j < k /\ events[j].body.after = events[k].body.before
               /\ events[j].key[2] < events[k].key[2]
  /\ \A j, k \in EditsAt(events) :
       /\ events[j].unit = events[k].unit
       /\ events[j].key[1] = events[k].key[1] /\ events[j].key[2] = events[k].key[2]
       => j = k

\* The versions known once the events at S are folded.
Known(events, S) == Base(events) \union {events[j].body.after : j \in EditsAt(events) \intersect S}

\* No version has the id of another.
LEMMA KnownIds ==
  ASSUME NEW events, WellEdited(events)
  PROVE  /\ \A v \in Base(events) : Original(v)
         /\ \A v, w \in Base(events) : v.id = w.id => v = w
         /\ \A v \in Base(events), j \in EditsAt(events) : v.id # events[j].body.after.id
         /\ \A j, k \in EditsAt(events) :
              events[j].body.after.id = events[k].body.after.id => j = k
<1>1. /\ \A v \in Base(events) : Original(v)
      /\ \A v, w \in Base(events) : v.id = w.id => v = w
  <2>1. RunFold(events, Past(events, SplitAt(events)), Folding(events)[SplitAt(events)])
    BY BaseIs DEF WellEdited
  <2>. QED BY <2>1 DEF RunFold, Distinct, Base
<1>2. ASSUME NEW j \in EditsAt(events)
      PROVE  /\ IsObs(events[j].body.after)
             /\ events[j].body.after.student = events[j].unit
             /\ events[j].body.after.crit = events[j].key[1]
             /\ Len(events[j].body.after.id[4]) > 0
             /\ events[j].body.after.id[4][Len(events[j].body.after.id[4])] = events[j].key[2] + 1
             /\ events[j].key[2] \in Nat
  <2>. DEFINE e == events[j]
              x == e.body.before.id[4]
  <2>1. IsEdit(e) /\ e.key[2] \in Nat
    BY DEF WellEdited, EditsAt, Sortable
  <2>. HIDE DEF e
  <2>2. x \in Seq(Nat) /\ e.body.after.id[4] = Append(x, e.key[2] + 1)
    BY <2>1 DEF IsEdit, IsObs
  <2>. HIDE DEF x
  <2>3. Len(Append(x, e.key[2] + 1)) > 0
        /\ Append(x, e.key[2] + 1)[Len(Append(x, e.key[2] + 1))] = e.key[2] + 1
    BY <2>1, <2>2
  <2>. QED BY <2>1, <2>2, <2>3 DEF IsEdit, e
<1>3. ASSUME NEW v \in Base(events), NEW j \in EditsAt(events), v.id = events[j].body.after.id
      PROVE  FALSE
  <2>1. v.id[4] = <<>>
    BY <1>1 DEF Original
  <2>2. Len(v.id[4]) > 0
    BY <1>2, <1>3
  <2>3. Len(<<>>) = 0
    OBVIOUS
  <2>. QED BY <2>1, <2>2, <2>3
<1>4. ASSUME NEW j \in EditsAt(events), NEW k \in EditsAt(events),
             events[j].body.after.id = events[k].body.after.id
      PROVE  j = k
  <2>1. events[j].unit = events[k].unit /\ events[j].key[1] = events[k].key[1]
    <3>. DEFINE o == events[j].body.after
                p == events[k].body.after
    <3>1. /\ IsObs(o) /\ o.student = events[j].unit /\ o.crit = events[j].key[1]
          /\ IsObs(p) /\ p.student = events[k].unit /\ p.crit = events[k].key[1]
      BY <1>2, <1>4
    <3>2. o.id = p.id
      BY <1>4
    <3>. HIDE DEF o, p
    <3>. QED BY <3>1, <3>2, SameId
  <2>2. events[j].key[2] + 1 = events[k].key[2] + 1
    BY <1>2, <1>4
  <2>3. events[j].key[2] = events[k].key[2]
    BY <1>2, <2>2
  <2>. QED BY <2>1, <2>3 DEF WellEdited
<1>. QED BY <1>1, <1>3, <1>4

\* An id is of one version only.
LEMMA KnownOnce ==
  ASSUME NEW events, WellEdited(events), NEW S,
         NEW v \in Known(events, S), NEW w \in Known(events, S), v.id = w.id
  PROVE  v = w
  BY KnownIds DEF Known

LEMMA SeqGrows ==
  ASSUME NEW S, NEW T, S \subseteq T, NEW s \in Seq(S)
  PROVE  s \in Seq(T)
  OBVIOUS

\* What a concatenation holds.
LEMMA Joined ==
  ASSUME NEW S, NEW s \in Seq(S), NEW b \in S
  PROVE  /\ s \o <<>> \o <<b>> \in Seq(S)
         /\ \A x : x \in ToSet(s) => x \in ToSet(s \o <<>> \o <<b>>)
         /\ b \in ToSet(s \o <<>> \o <<b>>)
<1>1. s \o <<>> = s
  OBVIOUS
<1>2. <<b>> \in Seq(S) /\ Len(<<b>>) = 1 /\ <<b>>[1] = b
  OBVIOUS
<1>. DEFINE t == s \o <<b>>
<1>3. /\ t \in Seq(S) /\ Len(t) = Len(s) + 1 /\ \A m \in 1 .. Len(s) : t[m] = s[m]
  BY <1>2, Concat
<1>4. t[Len(s) + 1] = b
  <2>1. Len(s) + 1 \in Len(s) + 1 .. Len(s) + Len(<<b>>) /\ Len(s) + 1 - Len(s) = 1
    BY <1>2
  <2>2. t[Len(s) + 1] = <<b>>[1]
    BY <1>2, <2>1, Concat
  <2>. QED BY <1>2, <2>2
<1>. HIDE DEF t
<1>5. /\ DOMAIN t = 1 .. Len(s) + 1 /\ DOMAIN s = 1 .. Len(s) /\ Len(s) \in Nat
  BY <1>3
<1>6. ASSUME NEW x \in ToSet(s) PROVE x \in ToSet(t)
  <2>1. PICK m \in 1 .. Len(s) : s[m] = x
    BY <1>5 DEF ToSet
  <2>2. m \in DOMAIN t /\ t[m] = x
    BY <1>3, <1>5, <2>1
  <2>. QED BY <2>2 DEF ToSet
<1>7. b \in ToSet(t)
  <2>1. Len(s) + 1 \in DOMAIN t
    BY <1>5
  <2>. QED BY <1>4, <2>1 DEF ToSet
<1>. QED BY <1>1, <1>3, <1>6, <1>7 DEF t


\* The chain of an id is what its entry says.
LEMMA ChainIs ==
  ASSUME NEW f, NEW i
  PROVE  /\ At(f.history, i) = {} => ChainOf(f, i) = <<>>
         /\ \A h : At(f.history, i) = {h} => ChainOf(f, i) = h.chain
         /\ \A g : At(g.history, i) = At(f.history, i) => ChainOf(g, i) = ChainOf(f, i)
  BY DEF ChainOf, Chain

\* Every known version is live or in the chain of one that is, of the same
\* student; none is live that an edit replaced; a chain belongs to an edit.
EditFold(events, S, f) ==
  /\ IsFold(f)
  /\ f.current \subseteq Known(events, S)
  /\ \A j \in EditsAt(events) \intersect S :
       events[j].body.before \in Known(events, S) \ f.current
  /\ \A v \in Known(events, S) :
       \E o \in f.current : o.student = v.student /\ (o = v \/ v \in ToSet(ChainOf(f, o.id)))
  /\ \A h \in f.history :
       /\ h.chain \in Seq(Known(events, S))
       /\ \E j \in EditsAt(events) \intersect S : h.id = events[j].body.after.id
  /\ Distinct(f.history)
  /\ f.students = Folding(events)[SplitAt(events)].students
  /\ \A v \in Known(events, S) : v.student \in f.students

\* One edit is folded.
LEMMA EditFoldStep ==
  ASSUME NEW events, WellEdited(events), NEW S, NEW f, EditFold(events, S, f),
         NEW i \in EditsAt(events), i \notin S,
         \A j \in DOMAIN events : Before(events[j], events[i]) => j \in S
  PROVE  EditFold(events, S \union {i}, Apply(f, events[i]))
<1>. DEFINE e == events[i]
            g == Apply(f, e)
            K == Known(events, S)
            L == Known(events, S \union {i})
            a == e.body.after
            b == e.body.before
            ch == ChainOf(f, b.id) \o <<>> \o <<b>>
<1>1. e.step = "ObservationEditedByHuman" /\ e.step \in DOMAIN Rank /\ i \in DOMAIN events
  BY DEF EditsAt, Rank
<1>2. IsEdit(e)
  BY DEF WellEdited
<1>3. a.student = b.student
  BY <1>2 DEF IsEdit
<1>4. L = K \union {a}
  BY DEF Known
<1>5. b \in K
  <2>1. CASE b \in Base(events)
    BY <2>1 DEF Known
  <2>2. CASE \E j \in EditsAt(events) : /\ j < i /\ events[j].body.after = b
                                        /\ events[j].key[2] < e.key[2]
    <3>1. PICK j \in EditsAt(events) : events[j].body.after = b /\ events[j].key[2] < e.key[2]
      BY <2>2
    <3>2. Before(events[j], e) /\ j \in DOMAIN events
      BY <1>1, <3>1 DEF Before, EditsAt
    <3>. QED BY <3>1, <3>2 DEF Known
  <2>. QED BY <2>1, <2>2 DEF WellEdited
<1>6. \A v \in K : v.id # a.id
  BY KnownIds DEF Known
<1>7. \A v \in K : v.id = b.id => v = b
  BY <1>5, KnownOnce
<1>8. At(f.history, a.id) = {}
  <2>1. ASSUME NEW h \in f.history, h.id = a.id PROVE FALSE
    <3>1. PICK j \in EditsAt(events) \intersect S : h.id = events[j].body.after.id
      BY DEF EditFold
    <3>2. j = i
      BY <2>1, <3>1, KnownIds
    <3>. QED BY <3>1, <3>2
  <2>. QED BY <2>1 DEF At
<1>9. /\ IsFold(f) /\ f.current \subseteq K
      /\ \A j \in EditsAt(events) \intersect S : events[j].body.before \in K \ f.current
      /\ \A v \in K :
           \E o \in f.current : o.student = v.student /\ (o = v \/ v \in ToSet(ChainOf(f, o.id)))
      /\ \A h \in f.history :
           /\ h.chain \in Seq(K)
           /\ \E j \in EditsAt(events) \intersect S : h.id = events[j].body.after.id
      /\ Distinct(f.history)
      /\ f.students = Folding(events)[SplitAt(events)].students
      /\ \A v \in K : v.student \in f.students
  BY DEF EditFold
<1>10. ChainOf(f, b.id) \in Seq(K)
  <2>1. CASE At(f.history, b.id) = {}
    <3>1. <<>> \in Seq(K)
      OBVIOUS
    <3>2. ChainOf(f, b.id) = <<>>
      BY <2>1, ChainIs
    <3>. QED BY <3>1, <3>2
  <2>2. CASE At(f.history, b.id) # {}
    <3>1. PICK h \in f.history : h.id = b.id
      BY <2>2 DEF At
    <3>2. At(f.history, b.id) = {h}
      BY <1>9, <3>1 DEF At, Distinct
    <3>. QED BY <1>9, <3>2, ChainIs
  <2>. QED BY <2>1, <2>2
<1>11. /\ ch \in Seq(K) /\ b \in ToSet(ch)
       /\ \A x : x \in ToSet(ChainOf(f, b.id)) => x \in ToSet(ch)
  <2>. HIDE DEF K
  <2>. QED BY <1>5, <1>10, Joined
<1>12. Superseded(f, b.id, a.id, b) = ch
  BY <1>8, ChainIs DEF Superseded
<1>13. /\ IsFold(g)
       /\ g.current = Put(Without(f.current, b.id), a)
       /\ g.history = Put(f.history, [id |-> a.id, chain |-> ch])
       /\ g.students = f.students
  <2>. HIDE DEF e
  <2>1. /\ IsFold(Apply(f, e))
        /\ Apply(f, e).current = Put(Without(f.current, e.body.before.id), e.body.after)
        /\ Apply(f, e).history = Put(f.history, [id |-> e.body.after.id,
             chain |-> Superseded(f, e.body.before.id, e.body.after.id, e.body.before)])
        /\ Apply(f, e).students = f.students
    BY <1>1, <1>9, ApplyIs
  <2>. HIDE DEF a, b, ch
  <2>2. /\ IsFold(g)
        /\ g.current = Put(Without(f.current, b.id), a)
        /\ g.history = Put(f.history, [id |-> a.id, chain |-> Superseded(f, b.id, a.id, b)])
        /\ g.students = f.students
    BY <2>1 DEF a, b
  <2>. QED BY <1>12, <2>2
<1>. HIDE DEF e, g, a, b, ch, K, L
<1>14. g.current = (f.current \ {b}) \union {a}
  BY <1>5, <1>6, <1>7, <1>9, <1>13 DEF Put, Without
<1>. DEFINE new == [id |-> a.id, chain |-> ch]
<1>15. new.id = a.id /\ new.chain = ch
  OBVIOUS
<1>. HIDE DEF new
<1>16. g.history = f.history \union {new}
  <2>1. \A h \in f.history : h.id # a.id
    BY <1>8 DEF At
  <2>2. g.history = Put(f.history, new)
    BY <1>13 DEF new
  <2>. QED BY <1>15, <2>1, <2>2 DEF Put, Without
<1>17. ChainOf(g, a.id) = ch
  <2>1. At(g.history, a.id) = {new}
    BY <1>8, <1>15, <1>16 DEF At
  <2>. QED BY <1>15, <2>1, ChainIs
<1>18. \A v \in K : ChainOf(g, v.id) = ChainOf(f, v.id)
  <2>1. \A v \in K : At(g.history, v.id) = At(f.history, v.id)
    BY <1>6, <1>15, <1>16 DEF At
  <2>. QED BY <2>1, ChainIs
<1>19. g.current \subseteq L
  BY <1>4, <1>9, <1>14
<1>20. ASSUME NEW j \in EditsAt(events) \intersect (S \union {i})
       PROVE  events[j].body.before \in L \ g.current
  <2>1. CASE j \in S
    <3>1. events[j].body.before \in K \ f.current
      BY <1>9, <2>1
    <3>. QED BY <1>4, <1>6, <1>14, <3>1
  <2>2. CASE j = i
    <3>1. events[j].body.before = b
      BY <2>2 DEF b, e
    <3>. QED BY <1>4, <1>5, <1>6, <1>14, <3>1
  <2>. QED BY <2>1, <2>2
<1>21. ASSUME NEW v \in L
       PROVE  \E o \in g.current : /\ o.student = v.student
                                   /\ o = v \/ v \in ToSet(ChainOf(g, o.id))
  <2>1. CASE v = a
    BY <1>14, <2>1
  <2>2. CASE v \in K
    <3>1. PICK o \in f.current :
            o.student = v.student /\ (o = v \/ v \in ToSet(ChainOf(f, o.id)))
      BY <1>9, <2>2
    <3>2. CASE o # b
      <4>1. o \in g.current /\ o \in K
        BY <1>9, <1>14, <3>2
      <4>2. ChainOf(g, o.id) = ChainOf(f, o.id)
        BY <1>18, <4>1
      <4>. QED BY <3>1, <4>1, <4>2
    <3>3. CASE o = b
      <4>1. v \in ToSet(ch)
        BY <1>11, <3>1, <3>3
      <4>2. a \in g.current /\ a.student = v.student
        BY <1>3, <1>14, <3>1, <3>3
      <4>. QED BY <1>17, <4>1, <4>2
    <3>. QED BY <3>2, <3>3
  <2>. QED BY <1>4, <2>1, <2>2
<1>22. ASSUME NEW h \in g.history
       PROVE  /\ h.chain \in Seq(L)
              /\ \E j \in EditsAt(events) \intersect (S \union {i}) :
                   h.id = events[j].body.after.id
  <2>1. h.chain \in Seq(K)
    BY <1>9, <1>11, <1>15, <1>16
  <2>2. h.chain \in Seq(L)
    BY <1>4, <2>1, SeqGrows
  <2>3. h = new => h.id = events[i].body.after.id
    BY <1>15 DEF a, e
  <2>4. h \in f.history =>
          \E j \in EditsAt(events) \intersect S : h.id = events[j].body.after.id
    BY <1>9
  <2>. QED BY <1>16, <2>2, <2>3, <2>4
<1>23. Distinct(g.history)
  <2>1. \A h \in f.history : h.id # new.id
    BY <1>8, <1>15 DEF At
  <2>. QED BY <1>9, <1>16, <2>1 DEF Distinct
<1>24. \A v \in L : v.student \in g.students
  BY <1>3, <1>4, <1>5, <1>9, <1>13
<1>25. EditFold(events, S \union {i}, g)
  BY <1>24, <1>9, <1>13, <1>19, <1>20, <1>21, <1>22, <1>23 DEF EditFold, L
<1>. QED BY <1>25 DEF g, e

\* Whatever log is folded whose edits are of versions it holds.
LEMMA EditsFold ==
  ASSUME NEW events, WellEdited(events)
  PROVE  EditFold(events, DOMAIN events, Fold(events))
<1>. DEFINE m == SplitAt(events)
            N == Len(events)
            Good == {k \in 0 .. N : EditFold(events, Past(events, k), Folding(events)[k])}
<1>0. Sortable(events)
  BY DEF WellEdited
<1>1. N \in Nat /\ m \in 0 .. N /\ DOMAIN events = 1 .. N
  BY <1>0, SplitIs DEF Sortable
<1>2. m \in Good
  <2>. DEFINE f == Folding(events)[m]
              S == Past(events, m)
  <2>1. RunFold(events, S, f)
    BY <1>0, BaseIs
  <2>2. EditsAt(events) \intersect S = {}
    <3>1. ASSUME NEW k \in 1 .. m
          PROVE  events[Ordered(events)[k]].step # "ObservationEditedByHuman"
      <4>1. k \in 1 .. N /\ k <= m
        BY <1>1
      <4>2. Early(events[Ordered(events)[k]])
        BY <1>0, <4>1, SplitIs
      <4>3. Rank["ObservationEditedByHuman"] \in Nat
        BY DEF Rank
      <4>. QED BY <4>2, <4>3 DEF Early
    <3>. QED BY <3>1 DEF EditsAt, Past
  <2>. HIDE DEF S
  <2>3. Known(events, S) = f.current
    BY <2>2 DEF Known, Base
  <2>4. /\ IsFold(f) /\ f.history = {} /\ \A o \in f.current : o.student \in f.students
    BY <2>1 DEF RunFold
  <2>5. EditFold(events, S, f)
    BY <2>2, <2>3, <2>4 DEF EditFold, Distinct
  <2>. QED BY <1>1, <2>5 DEF S
<1>3. ASSUME NEW k \in m + 1 .. N, k - 1 \in Good PROVE k \in Good
  <2>. DEFINE i == Ordered(events)[k]
              S == Past(events, k - 1)
              f == Folding(events)[k - 1]
  <2>0. k \in 1 .. N /\ k \in 0 .. N /\ ~(k <= m)
    BY <1>1
  <2>1. /\ i \in DOMAIN events /\ i \notin S /\ Past(events, k) = S \union {i}
        /\ Folding(events)[k] = Apply(f, events[i])
        /\ \A j \in DOMAIN events : Before(events[j], events[i]) => j \in S
    BY <1>0, <2>0, FoldStep
  <2>2. ~Early(events[i])
    BY <1>0, <2>0, SplitIs
  <2>3. EditFold(events, S, f)
    BY <1>3
  <2>. HIDE DEF i, S, f
  <2>4. EditFold(events, S \union {i}, Apply(f, events[i]))
    <3>1. CASE i \in EditsAt(events)
      BY <2>1, <2>3, <3>1, EditFoldStep
    <3>2. CASE i \notin EditsAt(events)
      <4>1. events[i].step \in Inert
        <5>1. events[i].step \in DOMAIN Rank /\ events[i].step # "ObservationEditedByHuman"
          BY <1>0, <2>1, <3>2 DEF EditsAt, Sortable
        <5>. QED BY <2>2, <5>1 DEF Early, Inert, Rank, CriterionOutcome
      <4>. DEFINE g == Apply(f, events[i])
      <4>2. IsFold(f) /\ events[i].step \in DOMAIN Rank
        BY <2>3, <4>1 DEF EditFold, Inert
      <4>3. /\ IsFold(g) /\ g.current = f.current /\ g.history = f.history
            /\ g.students = f.students
        BY <4>1, <4>2, ApplyIs
      <4>. HIDE DEF g
      <4>4. EditsAt(events) \intersect (S \union {i}) = EditsAt(events) \intersect S
        BY <3>2
      <4>5. Known(events, S \union {i}) = Known(events, S)
        BY <4>4 DEF Known
      <4>6. \A x : ChainOf(g, x) = ChainOf(f, x)
        BY <4>3, ChainIs
      <4>7. EditFold(events, S \union {i}, g)
        <5>. DEFINE K == Known(events, S)
                    J == EditsAt(events) \intersect S
        <5>1. /\ Known(events, S \union {i}) = K
              /\ EditsAt(events) \intersect (S \union {i}) = J
          BY <4>4, <4>5
        <5>2. /\ g.current \subseteq K
              /\ \A j \in J : events[j].body.before \in K \ g.current
              /\ \A v \in K : v.student \in g.students
              /\ \A v \in K :
                   \E o \in f.current :
                     o.student = v.student /\ (o = v \/ v \in ToSet(ChainOf(f, o.id)))
              /\ \A h \in g.history :
                   h.chain \in Seq(K) /\ \E j \in J : h.id = events[j].body.after.id
              /\ Distinct(g.history)
              /\ g.students = Folding(events)[SplitAt(events)].students
          BY <2>3, <4>3 DEF EditFold
        <5>3. \A v \in K :
                \E o \in g.current :
                  o.student = v.student /\ (o = v \/ v \in ToSet(ChainOf(g, o.id)))
          BY <4>3, <4>6, <5>2
        <5>. HIDE DEF K, J
        <5>. QED BY <4>3, <5>1, <5>2, <5>3 DEF EditFold
      <4>. QED BY <4>7 DEF g
    <3>. QED BY <3>1, <3>2
  <2>. QED BY <2>0, <2>1, <2>4
<1>4. \A k \in m .. N : k \in Good
  <2>1. m \in Nat /\ m <= N
    BY <1>1
  <2>. HIDE DEF Good, m, N
  <2>. QED BY <1>1, <1>2, <1>3, <2>1, Climb
<1>5. EditFold(events, Past(events, N), Folding(events)[N])
  <2>1. N \in m .. N
    BY <1>1
  <2>. QED BY <1>4, <2>1
<1>. QED BY <1>0, <1>5, FoldEnds

\* The fold discards no version: what was before and after each edit of a log is
\* on the sheet of its student, live or in the chain of a version that is
\* (_apply_edit appends the version it replaces to history).
THEOREM VersionsKept ==
  ASSUME NEW events, WellEdited(events), NEW j \in EditsAt(events)
  PROVE  LET f == Fold(events)
             e == events[j]
         IN /\ e.unit \in f.students
            /\ {e.body.before, e.body.after} \subseteq
                 Sheet(f, e.unit).observations \union Sheet(f, e.unit).superseded
<1>. DEFINE f == Fold(events)
            e == events[j]
            K == Known(events, DOMAIN events)
            obs == {o \in f.current : o.student = e.unit}
            sup == UNION {ToSet(ChainOf(f, o.id)) : o \in obs}
<1>1. EditFold(events, DOMAIN events, f)
  BY EditsFold
<1>2. IsEdit(e) /\ j \in DOMAIN events
  BY DEF WellEdited, EditsAt
<1>3. e.body.before.student = e.unit /\ e.body.after.student = e.unit
  BY <1>2 DEF IsEdit
<1>4. e.body.before \in K /\ e.body.after \in K
  BY <1>1, <1>2 DEF EditFold, Known
<1>. HIDE DEF f, K
<1>5. \A v \in K :
        /\ v.student \in f.students
        /\ \E o \in f.current : o.student = v.student /\ (o = v \/ v \in ToSet(ChainOf(f, o.id)))
  BY <1>1 DEF EditFold, K
<1>6. \A v \in K : v.student = e.unit => v \in obs \union sup
  BY <1>5
<1>7. Sheet(f, e.unit).observations = obs /\ Sheet(f, e.unit).superseded = sup
  BY DEF Sheet
<1>. QED BY <1>3, <1>4, <1>5, <1>6, <1>7 DEF f

-----------------------------------------------------------------------------
(* Edits that were made one at a time.                                     *)

\* Each is of the version the one before it left.
Linear(events) ==
  \A k \in EditsAt(events) :
    \/ events[k].key[2] = 0 /\ events[k].body.before \in Base(events)
    \/ \E j \in EditsAt(events) :
         /\ events[j].key[2] + 1 = events[k].key[2]
         /\ events[j].body.after = events[k].body.before

\* The edits of one observation.
EditsOn(events, s, c) == {k \in EditsAt(events) : events[k].unit = s /\ events[k].key[1] = c}

\* One that no edit replaced is the last there is.
LEMMA LastIs ==
  ASSUME NEW events, WellEdited(events), Decided(events), Linear(events),
         NEW v \in Known(events, DOMAIN events),
         \A i \in EditsAt(events) : events[i].body.before # v,
         NEW k \in EditsOn(events, v.student, v.crit)
  PROVE  \E j \in EditsOn(events, v.student, v.crit) :
           events[j].body.after = v /\ events[k].key[2] <= events[j].key[2]
<1>. DEFINE E == EditsOn(events, v.student, v.crit)
            Gen(i) == events[i].key[2]
<1>1. Sortable(events) /\ E \subseteq EditsAt(events) /\ EditsAt(events) \subseteq DOMAIN events
  BY DEF WellEdited, EditsAt, EditsOn
<1>2. \A i \in EditsAt(events) : Gen(i) \in Nat
  BY <1>1 DEF Sortable
<1>3. ASSUME NEW i \in EditsAt(events)
      PROVE  /\ events[i].body.before.student = events[i].unit
             /\ events[i].body.before.crit = events[i].key[1]
             /\ events[i].body.after.student = events[i].unit
             /\ events[i].body.after.crit = events[i].key[1]
  <2>1. IsEdit(events[i])
    BY DEF WellEdited
  <2>. QED BY <2>1 DEF IsEdit
\* The one before an edit, unless it is the first, is of the same observation.
<1>4. ASSUME NEW i \in E
      PROVE  \/ Gen(i) = 0 /\ events[i].body.before \in Base(events)
             \/ \E j \in E : Gen(j) + 1 = Gen(i) /\ events[j].body.after = events[i].body.before
  BY <1>1, <1>3 DEF Linear, EditsOn
<1>5. ASSUME NEW i \in E, NEW j \in E, Gen(i) = Gen(j)
      PROVE  i = j
  BY <1>1, <1>5 DEF WellEdited, EditsOn
<1>6. ASSUME NEW T \in SUBSET E, T # {}
      PROVE  \E i \in T : \A j \in T : Gen(i) <= Gen(j)
  <2>. DEFINE N == {Gen(i) : i \in T}
  <2>1. N \subseteq Nat /\ N # {}
    BY <1>1, <1>2, <1>6
  <2>2. \E x \in N : \A y \in N : x <= y
    <3>. HIDE DEF N
    <3>. QED BY <2>1, Least
  <2>. QED BY <2>2
<1>. HIDE DEF Gen
<1>7. CASE v \in Base(events)
  <2>1. PICK i \in E : \A j \in E : Gen(i) <= Gen(j)
    BY <1>6
  <2>2. Gen(i) \in Nat /\ \A j \in E : Gen(j) \in Nat
    BY <1>1, <1>2
  <2>3. ~ \E j \in E : Gen(j) + 1 = Gen(i)
    BY <2>1, <2>2
  <2>4. events[i].body.before \in Base(events)
    BY <1>4, <2>3
  <2>5. events[i].body.before.student = v.student /\ events[i].body.before.crit = v.crit
    BY <1>1, <1>3 DEF EditsOn
  <2>6. events[i].body.before = v
    BY <1>1, <1>7, <2>4, <2>5, BaseOne
  <2>. QED BY <1>1, <2>6
<1>8. CASE \E j \in EditsAt(events) : v = events[j].body.after
  <2>1. PICK j \in EditsAt(events) : v = events[j].body.after
    BY <1>8
  <2>2. j \in E
    BY <1>3, <2>1 DEF EditsOn
  <2>3. ASSUME ~(Gen(k) <= Gen(j)) PROVE FALSE
    <3>. DEFINE T == {i \in E : Gen(j) < Gen(i)}
    <3>1. Gen(j) \in Nat /\ Gen(k) \in Nat
      BY <1>1, <1>2, <2>2
    <3>2. T \in SUBSET E /\ k \in T
      BY <2>3, <3>1
    <3>3. PICK i \in T : \A m \in T : Gen(i) <= Gen(m)
      <4>. HIDE DEF T
      <4>. QED BY <1>6, <3>2
    <3>4. i \in E /\ Gen(j) < Gen(i) /\ Gen(i) \in Nat
      BY <1>1, <1>2, <3>3
    <3>5. PICK m \in E : Gen(m) + 1 = Gen(i) /\ events[m].body.after = events[i].body.before
      BY <1>4, <3>1, <3>4
    <3>6. Gen(m) \in Nat
      BY <1>1, <1>2
    <3>7. ~(Gen(j) < Gen(m))
      BY <3>3, <3>4, <3>5, <3>6
    <3>8. Gen(m) = Gen(j)
      BY <3>1, <3>4, <3>5, <3>6, <3>7
    <3>9. m = j
      BY <1>5, <2>2, <3>8
    <3>. QED BY <1>1, <2>1, <3>4, <3>5, <3>9
  <2>. QED BY <2>1, <2>2, <2>3 DEF Gen
<1>. QED BY <1>7, <1>8 DEF Known

\* The fold of a log of edits made each upon the last version leaves one version
\* of each criterion of a student live (_apply_edit takes the one it replaces
\* out of current).
THEOREM OneLive ==
  ASSUME NEW events, WellEdited(events), Decided(events), Linear(events),
         NEW o \in Fold(events).current, NEW p \in Fold(events).current,
         o.student = p.student, o.crit = p.crit
  PROVE  o = p
<1>. DEFINE f == Fold(events)
            K == Known(events, DOMAIN events)
            E == EditsOn(events, o.student, o.crit)
<1>1. EditFold(events, DOMAIN events, f)
  BY EditsFold
<1>2. EditsAt(events) \intersect DOMAIN events = EditsAt(events)
  BY DEF EditsAt
<1>3. /\ o \in K /\ \A i \in EditsAt(events) : events[i].body.before # o
      /\ p \in K /\ \A i \in EditsAt(events) : events[i].body.before # p
  BY <1>1, <1>2 DEF EditFold
<1>4. CASE E = {}
  <2>1. ASSUME NEW v \in K, v.student = o.student, v.crit = o.crit PROVE v \in Base(events)
    <3>1. ASSUME NEW j \in EditsAt(events), v = events[j].body.after PROVE FALSE
      <4>1. IsEdit(events[j])
        BY DEF WellEdited
      <4>. QED BY <1>4, <2>1, <3>1, <4>1 DEF IsEdit, EditsOn
    <3>. QED BY <3>1 DEF Known
  <2>2. o \in Base(events) /\ p \in Base(events)
    BY <1>3, <2>1
  <2>. QED BY <2>2, BaseOne DEF WellEdited
<1>5. CASE E # {}
  <2>1. PICK k \in E : TRUE
    BY <1>5
  <2>. HIDE DEF K, E
  <2>2. PICK i \in E : events[i].body.after = o
    BY <1>3, <2>1, LastIs DEF E, K
  <2>3. PICK j \in E : events[j].body.after = p /\ events[i].key[2] <= events[j].key[2]
    BY <1>3, <2>2, LastIs DEF E, K
  <2>4. PICK m \in E : events[m].body.after = o /\ events[j].key[2] <= events[m].key[2]
    BY <1>3, <2>3, LastIs DEF E, K
  <2>5. m = i
    BY <2>2, <2>4, KnownIds DEF E, EditsOn
  <2>6. events[i].key[2] \in Nat /\ events[j].key[2] \in Nat
    BY DEF E, EditsOn, EditsAt, WellEdited, Sortable
  <2>7. i = j
    BY <2>3, <2>4, <2>5, <2>6 DEF E, EditsOn, WellEdited
  <2>. QED BY <2>2, <2>3, <2>7
<1>. QED BY <1>4, <1>5

-----------------------------------------------------------------------------
(* A log that only grew by what is folded late is folded the same way up   *)
(* to the edits.                                                           *)

\* q is the beginning of l, and what l has more is folded after the run.
Cut(q, l) ==
  /\ Len(q) \in Nat /\ DOMAIN q = 1 .. Len(q) /\ Len(q) <= Len(l)
  /\ \A i \in 1 .. Len(q) : q[i] = l[i]
  /\ \A i \in Len(q) + 1 .. Len(l) : ~Early(l[i])

\* An earlier log is sorted as the first events of the later one are.
LEMMA CutSorts ==
  ASSUME NEW l, Sortable(l), NEW q, Cut(q, l)
  PROVE  Sortable(q) /\ \A k \in 0 .. Len(q) : Sorting(q)[k] = Sorting(l)[k]
<1>. DEFINE n == Len(q)
            N == Len(l)
            Good == {k \in 0 .. n : Sorting(q)[k] = Sorting(l)[k]}
<1>1. /\ n \in Nat /\ N \in Nat /\ n <= N /\ DOMAIN q = 1 .. n /\ DOMAIN l = 1 .. N
      /\ \A i \in 1 .. n : q[i] = l[i]
  BY DEF Cut, Sortable
<1>2. Sortable(q)
  BY <1>1 DEF Sortable
<1>3. 0 \in Good
  BY <1>1, <1>2, SortingIs
<1>4. ASSUME NEW k \in 1 .. n, k - 1 \in Good PROVE k \in Good
  <2>. DEFINE s == Sorting(q)[k - 1]
              a == Slot(q, s, k)
              b == Slot(l, s, k)
  <2>0. k \in 1 .. N /\ k - 1 \in 0 .. n /\ k \in 0 .. n /\ k \in 1 .. n /\ k - 1 \in 0 .. N
    BY <1>1
  <2>1. s = Sorting(l)[k - 1]
    BY <1>4
  <2>2. Arranged(q, s, k - 1) /\ Arranged(l, s, k - 1)
    <3>1. Arranged(q, s, k - 1)
      BY <1>2, <2>0, SortingArranges
    <3>2. Arranged(l, Sorting(l)[k - 1], k - 1)
      BY <2>0, SortingArranges
    <3>. QED BY <2>1, <3>1, <3>2
  <2>3. /\ Sorting(q)[k] = InsertAt(s, a, k)
        /\ Sorting(l)[k] = InsertAt(s, b, k)
    <3>1. Sorting(q)[k] = InsertAt(s, a, k)
      BY <1>2, <2>0, SortingIs
    <3>2. Sorting(l)[k] = InsertAt(Sorting(l)[k - 1], Slot(l, Sorting(l)[k - 1], k), k)
      BY <2>0, SortingIs
    <3>. QED BY <2>1, <3>1, <3>2
  <2>. HIDE DEF s
  <2>4. /\ a \in 1 .. k
        /\ \A m \in a .. k - 1 : Before(q[k], q[s[m]])
        /\ \A m \in 1 .. a - 1 : ~Before(q[k], q[s[m]])
    BY <1>2, <2>0, <2>2, SlotIs
  <2>5. /\ b \in 1 .. k
        /\ \A m \in b .. k - 1 : Before(l[k], l[s[m]])
        /\ \A m \in 1 .. b - 1 : ~Before(l[k], l[s[m]])
    BY <2>0, <2>2, SlotIs
  <2>6. \A m \in 1 .. k - 1 : s[m] \in 1 .. k - 1
    BY <2>2 DEF Arranged
  <2>7. /\ q[k] = l[k]
        /\ \A m \in 1 .. k - 1 : q[s[m]] = l[s[m]]
    <3>1. \A m \in 1 .. k - 1 : s[m] \in 1 .. n
      BY <1>1, <2>6
    <3>. QED BY <1>1, <3>1
  <2>. HIDE DEF a, b
  <2>8. ~(a < b)
    <3>1. ASSUME a < b PROVE FALSE
      <4>1. a \in a .. k - 1 /\ a \in 1 .. b - 1 /\ a \in 1 .. k - 1
        BY <1>1, <2>4, <2>5, <3>1
      <4>. QED BY <2>4, <2>5, <2>7, <4>1
    <3>. QED BY <3>1
  <2>9. ~(b < a)
    <3>1. ASSUME b < a PROVE FALSE
      <4>1. b \in b .. k - 1 /\ b \in 1 .. a - 1 /\ b \in 1 .. k - 1
        BY <1>1, <2>4, <2>5, <3>1
      <4>. QED BY <2>4, <2>5, <2>7, <4>1
    <3>. QED BY <3>1
  <2>10. a = b
    BY <2>4, <2>5, <2>8, <2>9
  <2>. QED BY <2>0, <2>3, <2>10
<1>5. \A k \in 0 .. n : k \in Good
  <2>. HIDE DEF Good
  <2>. QED BY <1>1, <1>3, <1>4, CountUp
<1>. QED BY <1>2, <1>5

\* What is folded before any edit stands at the same places in both.
LEMMA CutOrders ==
  ASSUME NEW l, Sortable(l), NEW q, Cut(q, l)
  PROVE  \A m \in 1 .. SplitAt(q) : Ordered(l)[m] = Ordered(q)[m]
<1>. DEFINE n == Len(q)
            N == Len(l)
            d == SplitAt(q)
            Good == {k \in n .. N : \A m \in 1 .. d : Sorting(l)[k][m] = Ordered(q)[m]}
<1>1. /\ n \in Nat /\ N \in Nat /\ n <= N /\ DOMAIN q = 1 .. n /\ DOMAIN l = 1 .. N
      /\ \A i \in 1 .. n : q[i] = l[i]
      /\ \A i \in n + 1 .. N : ~Early(l[i])
  BY DEF Cut, Sortable
<1>2. Sortable(q) /\ \A k \in 0 .. n : Sorting(q)[k] = Sorting(l)[k]
  BY CutSorts
<1>3. d \in 0 .. n /\ \A k \in 1 .. n : k <= d <=> Early(q[Ordered(q)[k]])
  BY <1>2, SplitIs
<1>4. \A m \in 1 .. n : Ordered(q)[m] \in 1 .. n
  BY <1>2, OrderedIs DEF Arranged
<1>5. n \in Good
  <2>1. n \in 0 .. n
    BY <1>1
  <2>. QED BY <1>1, <1>2, <2>1 DEF Ordered
<1>6. ASSUME NEW k \in n + 1 .. N, k - 1 \in Good PROVE k \in Good
  <2>. DEFINE s == Sorting(l)[k - 1]
              p == Slot(l, s, k)
  <2>0. k \in 1 .. N /\ k - 1 \in 0 .. N /\ k \in n .. N /\ k \in Nat /\ n <= k - 1
    BY <1>1
  <2>1. Arranged(l, s, k - 1)
    BY <2>0, SortingArranges
  <2>2. Sorting(l)[k] = InsertAt(s, p, k)
    BY <2>0, SortingIs
  <2>3. \A m \in 1 .. d : s[m] = Ordered(q)[m]
    BY <1>6
  <2>. HIDE DEF s, d
  <2>4. /\ p \in 1 .. k
        /\ \A m \in p .. k - 1 : Before(l[k], l[s[m]])
    BY <2>0, <2>1, SlotIs
  <2>5. s \in Seq(Nat) /\ Len(s) = k - 1
    BY <2>1 DEF Arranged
  <2>. HIDE DEF p
  <2>6. d < p
    <3>1. ASSUME ~(d < p) PROVE FALSE
      <4>1. p \in 1 .. d /\ p \in p .. k - 1 /\ p \in 1 .. n /\ p <= d
        BY <1>1, <1>3, <2>0, <2>4, <3>1
      <4>2. Before(l[k], l[s[p]]) /\ s[p] = Ordered(q)[p]
        BY <2>3, <2>4, <4>1
      <4>3. Early(q[Ordered(q)[p]]) /\ Ordered(q)[p] \in 1 .. n
        BY <1>3, <1>4, <4>1
      <4>4. Early(l[s[p]]) /\ s[p] \in DOMAIN l
        BY <1>1, <4>2, <4>3
      <4>5. ~Early(l[k]) /\ k \in DOMAIN l
        BY <1>1, <2>0
      <4>6. /\ Rank[l[k].step] \in Nat /\ Rank[l[s[p]].step] \in Nat
            /\ Rank["ObservationEditedByHuman"] \in Nat
        <5>1. Rank["ObservationEditedByHuman"] \in Nat
          BY DEF Rank
        <5>. QED BY <4>4, <4>5, <5>1, RankIsNat DEF Sortable
      <4>. QED BY <4>2, <4>4, <4>5, <4>6 DEF Before, Early
    <3>. QED BY <3>1
  <2>7. \A m \in 1 .. p - 1 : InsertAt(s, p, k)[m] = s[m]
    <3>1. p \in 1 .. Len(s) + 1
      BY <2>0, <2>4, <2>5
    <3>. QED BY <2>0, <2>5, <3>1, InsertIs
  <2>8. \A m \in 1 .. d : m \in 1 .. p - 1
    BY <1>1, <1>3, <2>0, <2>4, <2>6
  <2>. QED BY <2>0, <2>2, <2>3, <2>7, <2>8
<1>7. \A k \in n .. N : k \in Good
  <2>. HIDE DEF Good, n, N
  <2>. QED BY <1>1, <1>5, <1>6, Climb
<1>8. N \in n .. N
  BY <1>1
<1>. QED BY <1>7, <1>8 DEF Ordered

\* The run left the same observations in both.
LEMMA CutSame ==
  ASSUME NEW l, Sortable(l), NEW q, Cut(q, l)
  PROVE  /\ Sortable(q) /\ SplitAt(q) = SplitAt(l)
         /\ Folding(q)[SplitAt(q)] = Folding(l)[SplitAt(l)]
         /\ Base(q) = Base(l)
<1>. DEFINE n == Len(q)
            N == Len(l)
            d == SplitAt(q)
            Good == {k \in 0 .. d : Folding(q)[k] = Folding(l)[k]}
<1>1. /\ n \in Nat /\ N \in Nat /\ n <= N /\ DOMAIN q = 1 .. n /\ DOMAIN l = 1 .. N
      /\ \A i \in 1 .. n : q[i] = l[i]
      /\ \A i \in n + 1 .. N : ~Early(l[i])
  BY DEF Cut, Sortable
<1>2. Sortable(q)
  BY CutSorts
<1>3. d \in 0 .. n /\ \A k \in 1 .. n : k <= d <=> Early(q[Ordered(q)[k]])
  BY <1>2, SplitIs
<1>4. /\ \A m \in 1 .. n : Ordered(q)[m] \in 1 .. n
      /\ \A i \in 1 .. n : \E m \in 1 .. n : Ordered(q)[m] = i
  BY <1>2, OrderedIs DEF Arranged
<1>5. /\ \A m \in 1 .. N : Ordered(l)[m] \in 1 .. N
      /\ \A a, b \in 1 .. N : a < b => Ordered(l)[a] # Ordered(l)[b]
  BY OrderedIs DEF Arranged
<1>6. \A m \in 1 .. d : Ordered(l)[m] = Ordered(q)[m]
  BY CutOrders
<1>7. ASSUME NEW k \in 1 .. N
      PROVE  k <= d <=> Early(l[Ordered(l)[k]])
  <2>1. CASE k <= d
    <3>1. k \in 1 .. d /\ k \in 1 .. n
      BY <1>1, <1>3, <2>1
    <3>2. Ordered(l)[k] = Ordered(q)[k] /\ Ordered(q)[k] \in 1 .. n /\ Early(q[Ordered(q)[k]])
      BY <1>3, <1>4, <1>6, <2>1, <3>1
    <3>. QED BY <1>1, <2>1, <3>2
  <2>2. CASE ~(k <= d)
    <3>1. ASSUME Early(l[Ordered(l)[k]]) PROVE FALSE
      <4>. DEFINE i == Ordered(l)[k]
      <4>1. i \in 1 .. N
        BY <1>5
      <4>2. i \in 1 .. n /\ q[i] = l[i]
        BY <1>1, <3>1, <4>1
      <4>3. PICK m \in 1 .. n : Ordered(q)[m] = i
        BY <1>4, <4>2
      <4>4. m <= d
        BY <1>3, <3>1, <4>2, <4>3
      <4>5. m \in 1 .. d /\ m \in 1 .. N /\ m < k
        BY <1>1, <1>3, <2>2, <4>4
      <4>6. Ordered(l)[m] = Ordered(l)[k]
        BY <1>6, <4>3, <4>5
      <4>. QED BY <1>5, <4>5, <4>6
    <3>. QED BY <2>2, <3>1
  <2>. QED BY <2>1, <2>2
<1>8. SplitAt(l) = d
  <2>. DEFINE c == SplitAt(l)
  <2>1. c \in 0 .. N /\ \A k \in 1 .. N : k <= c <=> Early(l[Ordered(l)[k]])
    BY SplitIs
  <2>. HIDE DEF c, d
  <2>2. \A k \in 1 .. N : k <= c <=> k <= d
    BY <1>7, <2>1
  <2>3. c < d => FALSE
    <3>1. c < d => c + 1 \in 1 .. N /\ c + 1 <= d /\ ~(c + 1 <= c)
      BY <1>1, <1>3, <2>1
    <3>. QED BY <2>2, <3>1
  <2>4. d < c => FALSE
    <3>1. d < c => d + 1 \in 1 .. N /\ d + 1 <= c /\ ~(d + 1 <= d)
      BY <1>1, <1>3, <2>1
    <3>. QED BY <2>2, <3>1
  <2>5. c = d
    BY <1>3, <1>1, <2>1, <2>3, <2>4
  <2>. QED BY <2>5 DEF c
<1>9. 0 \in Good
  BY <1>1, <1>2, <1>3, FoldingIs
<1>10. ASSUME NEW k \in 1 .. d, k - 1 \in Good PROVE k \in Good
  <2>1. k \in 1 .. n /\ k \in 1 .. N /\ k \in 0 .. d
    BY <1>1, <1>3
  <2>2. /\ Folding(q)[k] = Apply(Folding(q)[k - 1], q[Ordered(q)[k]])
        /\ Folding(l)[k] = Apply(Folding(l)[k - 1], l[Ordered(l)[k]])
    BY <1>2, <2>1, FoldingIs
  <2>3. q[Ordered(q)[k]] = l[Ordered(l)[k]]
    BY <1>1, <1>4, <1>6, <2>1
  <2>. QED BY <1>10, <2>1, <2>2, <2>3
<1>11. \A k \in 0 .. d : k \in Good
  <2>1. d \in Nat
    BY <1>1, <1>3
  <2>. HIDE DEF Good, d
  <2>. QED BY <1>9, <1>10, <2>1, CountUp
<1>12. Folding(q)[d] = Folding(l)[d]
  BY <1>1, <1>3, <1>11
<1>. QED BY <1>2, <1>8, <1>12 DEF Base

-----------------------------------------------------------------------------
(* The two tables of the overview.                                         *)

\* The cells of a column: as many for each criterion as it counts.
Cells(D, n) == UNION {{c} \X (1 .. n[c]) : c \in D}

\* What is counted has a criterion of D, and n says how many each has.
ColumnCounted(T, D, n) ==
  /\ IsFiniteSet(T)
  /\ \A o \in T : o.crit \in D
  /\ \A c \in D : n[c] = Cardinality({o \in T : o.crit = c})

\* Parts of a finite set, told apart by their criterion, add up to it.
LEMMA PartsAddUp ==
  ASSUME NEW T, NEW D, NEW n, ColumnCounted(T, D, n)
  PROVE  Cardinality(Cells(D, n)) = Cardinality(T)
<1>. DEFINE Part(c) == {o \in T : o.crit = c}
            Pairs == Cells(D, n)
            b == [c \in D |-> CHOOSE g : g \in Bijection(1 .. n[c], Part(c))]
            h == [o \in T |-> <<o.crit, CHOOSE i \in 1 .. n[o.crit] : b[o.crit][i] = o>>]
<1>0. /\ IsFiniteSet(T) /\ \A o \in T : o.crit \in D
      /\ \A c \in D : n[c] = Cardinality(Part(c))
  BY DEF ColumnCounted
<1>1. ASSUME NEW c \in D PROVE b[c] \in Bijection(1 .. n[c], Part(c))
  <2>1. IsFiniteSet(Part(c))
    BY <1>0, FS_Subset
  <2>2. Bijection(1 .. n[c], Part(c)) # {}
    BY <1>0, <2>1, FS_CardinalityType DEF ExistsBijection
  <2>. HIDE DEF Part
  <2>. QED BY <2>2
<1>2. ASSUME NEW c \in D
      PROVE  /\ \A i \in 1 .. n[c] : b[c][i] \in T /\ b[c][i].crit = c
             /\ \A i, j \in 1 .. n[c] : b[c][i] = b[c][j] => i = j
             /\ \A o \in T : o.crit = c => \E i \in 1 .. n[c] : b[c][i] = o
  <2>. DEFINE g == b[c]
  <2>1. g \in Bijection(1 .. n[c], Part(c))
    BY <1>1
  <2>. HIDE DEF g
  <2>2. /\ g \in [1 .. n[c] -> Part(c)]
        /\ \A i, j \in 1 .. n[c] : g[i] = g[j] => i = j
        /\ \A o \in Part(c) : \E i \in 1 .. n[c] : g[i] = o
    BY <2>1 DEF Bijection, Injection, Surjection, IsInjective
  <2>. QED BY <2>2 DEF g
<1>. HIDE DEF b
<1>3. ASSUME NEW o \in T
      PROVE  /\ o.crit \in D /\ h[o] = <<o.crit, h[o][2]>> /\ h[o][2] \in 1 .. n[o.crit]
             /\ b[o.crit][h[o][2]] = o
  <2>1. \E i \in 1 .. n[o.crit] : b[o.crit][i] = o
    BY <1>0, <1>2
  <2>. QED BY <1>0, <2>1
<1>4. h \in [T -> Pairs]
  <2>1. ASSUME NEW o \in T PROVE h[o] \in Pairs
    <3>. HIDE DEF h
    <3>1. o.crit \in D /\ h[o] = <<o.crit, h[o][2]>> /\ h[o][2] \in 1 .. n[o.crit]
      BY <1>3
    <3>2. h[o] \in {o.crit} \X (1 .. n[o.crit])
      BY <3>1
    <3>. QED BY <3>1, <3>2 DEF Cells
  <2>2. h = [o \in T |-> h[o]]
    OBVIOUS
  <2>. HIDE DEF h, Pairs
  <2>. QED BY <2>1, <2>2
<1>5. ASSUME NEW o \in T, NEW p \in T, h[o] = h[p] PROVE o = p
  <2>. HIDE DEF h
  <2>1. o.crit = p.crit /\ h[o][2] = h[p][2]
    BY <1>3, <1>5
  <2>. QED BY <1>3, <2>1
<1>6. ASSUME NEW x \in Pairs PROVE \E o \in T : h[o] = x
  <2>1. PICK c \in D : x \in {c} \X (1 .. n[c])
    BY DEF Cells
  <2>2. x = <<c, x[2]>> /\ x[2] \in 1 .. n[c]
    BY <2>1
  <2>. DEFINE o == b[c][x[2]]
  <2>3. o \in T /\ o.crit = c
    BY <1>2, <2>2
  <2>. HIDE DEF h, o
  <2>4. h[o] = <<c, h[o][2]>> /\ h[o][2] \in 1 .. n[c] /\ b[c][h[o][2]] = o
    BY <1>3, <2>3
  <2>5. h[o][2] = x[2]
    BY <1>2, <2>2, <2>4 DEF o
  <2>. QED BY <2>2, <2>3, <2>4, <2>5
<1>7. ExistsBijection(T, Pairs)
  <2>. HIDE DEF h, Pairs
  <2>. QED BY <1>4, <1>5, <1>6 DEF ExistsBijection, Bijection, Injection, Surjection, IsInjective
<1>. QED BY <1>0, <1>7, FS_Bijection, Zenon

\* Two finite sets that name the same ids, each id once, are of one size.
LEMMA SameIds ==
  ASSUME NEW S, NEW T, IsFiniteSet(S), Distinct(S), Distinct(T),
         \A o \in S : \E x \in T : x.id = o.id,
         \A x \in T : \E o \in S : o.id = x.id
  PROVE  Cardinality(S) = Cardinality(T)
<1>. DEFINE h == [o \in S |-> CHOOSE x \in T : x.id = o.id]
<1>1. \A o \in S : h[o] \in T /\ h[o].id = o.id
  OBVIOUS
<1>2. h \in [S -> T]
  BY <1>1
<1>. HIDE DEF h
<1>3. \A o, p \in S : h[o] = h[p] => o = p
  BY <1>1 DEF Distinct
<1>4. \A x \in T : \E o \in S : h[o] = x
  BY <1>1 DEF Distinct
<1>5. ExistsBijection(S, T)
  BY <1>2, <1>3, <1>4 DEF ExistsBijection, Bijection, Injection, Surjection, IsInjective
<1>. QED BY <1>5, FS_Bijection, Zenon

\* One observation and one outcome under an id, and no outcome that stands in a
\* column without its observation.
Listed(f) ==
  /\ IsFold(f)
  /\ IsFiniteSet(f.current) /\ IsFiniteSet(f.outcome)
  /\ Distinct(f.current) /\ Distinct(f.outcome)
  /\ \A x \in f.outcome :
       x.what \in Tile /\ (Columns(x.what) # {} => \E o \in f.current : o.id = x.id)

\* Then a column sums to the outcomes that stand in it.
LEMMA ColumnIs ==
  ASSUME NEW f, Listed(f), NEW r, r.by_criterion = ByCriterion(f), NEW col \in Column
  PROVE  InColumn(r, col) = Cardinality({x \in f.outcome : col \in Columns(x.what)})
<1>. DEFINE by == r.by_criterion
            D == {o.crit : o \in f.current}
            T == {o \in f.current : col \in ColumnsOf(f, o)}
            X == {x \in f.outcome : col \in Columns(x.what)}
            n == [c \in D |-> by[c][col]]
<1>1. by = [c \in D |-> [k \in Column |->
              Cardinality({o \in f.current : o.crit = c /\ k \in ColumnsOf(f, o)})]]
  BY DEF ByCriterion
<1>2. \A c \in D : by[c][col] = Cardinality({o \in f.current : o.crit = c /\ col \in ColumnsOf(f, o)})
  <2>. HIDE DEF D, by
  <2>. QED BY <1>1
<1>3. \A c \in D : n[c] = Cardinality({o \in T : o.crit = c})
  <2>1. \A c : {o \in T : o.crit = c} = {o \in f.current : o.crit = c /\ col \in ColumnsOf(f, o)}
    OBVIOUS
  <2>. HIDE DEF T, D, by
  <2>. QED BY <1>2, <2>1
<1>4. DOMAIN by = D
  <2>. HIDE DEF D, by
  <2>. QED BY <1>1
<1>5. IsFiniteSet(T)
  BY FS_Subset DEF Listed
<1>6. Cardinality(Cells(D, n)) = Cardinality(T)
  <2>1. \A o \in T : o.crit \in D
    OBVIOUS
  <2>. HIDE DEF T, D, n
  <2>2. ColumnCounted(T, D, n)
    BY <1>3, <1>5, <2>1 DEF ColumnCounted
  <2>. QED BY <2>2, PartsAddUp, Zenon
<1>7. InColumn(r, col) = Cardinality(T)
  <2>1. \A c \in D : n[c] = by[c][col]
    <3>. HIDE DEF D, by
    <3>. QED OBVIOUS
  <2>. HIDE DEF T, D, n
  <2>2. Cells(D, n) = UNION {{c} \X (1 .. by[c][col]) : c \in D}
    BY <2>1 DEF Cells
  <2>. QED BY <1>4, <1>6, <2>2 DEF InColumn
<1>8. \A o \in f.current : o \in T <=> \E x \in X : x.id = o.id
  BY DEF ColumnsOf, At
<1>9. \A x \in X : \E o \in f.current : o.id = x.id
  BY DEF Listed
<1>10. Distinct(T) /\ Distinct(X)
  BY DEF Listed, Distinct
<1>11. Cardinality(T) = Cardinality(X)
  <2>1. /\ \A o \in T : \E x \in X : x.id = o.id
        /\ \A x \in X : \E o \in T : o.id = x.id
    <3>1. T \subseteq f.current
      OBVIOUS
    <3>. HIDE DEF T, X
    <3>. QED BY <1>8, <1>9, <3>1
  <2>. HIDE DEF T, X
  <2>. QED BY <1>5, <1>10, <2>1, SameIds
<1>. QED BY <1>7, <1>11

\* So each column sums to its tiles.
LEMMA ListedAddsUp ==
  ASSUME NEW f, Listed(f), NEW r, r.by_criterion = ByCriterion(f),
         r.terminal_outcomes = TerminalOutcomes(f)
  PROVE  AddsUp(r)
<1>. DEFINE W(w) == {x \in f.outcome : x.what = w}
            first == W("accepted_first_attempt")
            later == W("accepted_after_retry")
<1>1. /\ r.terminal_outcomes["no_evidence"] = Cardinality(W("no_evidence"))
      /\ r.terminal_outcomes["needs_human"] = Cardinality(W("needs_human"))
      /\ r.terminal_outcomes["accepted_first_attempt"] = Cardinality(first)
      /\ r.terminal_outcomes["accepted_after_retry"] = Cardinality(later)
  BY DEF TerminalOutcomes, Tile
<1>2. ASSUME NEW x \in f.outcome
      PROVE  /\ "no_evidence" \in Columns(x.what) <=> x.what = "no_evidence"
             /\ "needs_human" \in Columns(x.what) <=> x.what = "needs_human"
             /\ "evidence" \in Columns(x.what) <=>
                  x.what \in {"accepted_first_attempt", "accepted_after_retry"}
  <2>1. x.what \in Tile
    BY DEF Listed
  <2>. QED BY <2>1 DEF Columns, Column, Tile
<1>3. /\ {x \in f.outcome : "no_evidence" \in Columns(x.what)} = W("no_evidence")
      /\ {x \in f.outcome : "needs_human" \in Columns(x.what)} = W("needs_human")
      /\ {x \in f.outcome : "evidence" \in Columns(x.what)} = first \union later
  BY <1>2
<1>4. Cardinality(first \union later) = Cardinality(first) + Cardinality(later)
  <2>1. IsFiniteSet(first) /\ IsFiniteSet(later)
    BY FS_Subset DEF Listed
  <2>2. first \intersect later = {}
    OBVIOUS
  <2>. HIDE DEF first, later
  <2>3. Cardinality(first \union later) = Cardinality(first) + Cardinality(later) - Cardinality({})
    BY <2>1, <2>2, FS_Union
  <2>4. Cardinality(first) \in Nat /\ Cardinality(later) \in Nat /\ Cardinality({}) = 0
    BY <2>1, FS_CardinalityType, FS_EmptySet
  <2>. QED BY <2>3, <2>4
<1>5. /\ InColumn(r, "no_evidence") = Cardinality(W("no_evidence"))
      /\ InColumn(r, "needs_human") = Cardinality(W("needs_human"))
      /\ InColumn(r, "evidence") = Cardinality(first \union later)
  <2>1. {"no_evidence", "needs_human", "evidence"} \subseteq Column
    BY DEF Column
  <2>. HIDE DEF W, first, later
  <2>. QED BY <1>3, <2>1, ColumnIs
<1>. HIDE DEF W, first, later
<1>. QED BY <1>1, <1>4, <1>5 DEF AddsUp

\* A dict with one entry more.
LEMMA PutIs ==
  ASSUME NEW D, IsFiniteSet(D), Distinct(D), NEW d
  PROVE  /\ IsFiniteSet(Put(D, d)) /\ Distinct(Put(D, d)) /\ d \in Put(D, d)
         /\ \A x \in Put(D, d) : x = d \/ x \in D
         /\ \A x \in D : x.id # d.id => x \in Put(D, d)
         /\ \A i : IsFiniteSet(Without(D, i)) /\ Distinct(Without(D, i))
<1>1. \A i : IsFiniteSet(Without(D, i))
  BY FS_Subset DEF Without
<1>2. IsFiniteSet(Put(D, d))
  BY <1>1, FS_AddElement DEF Put
<1>. QED BY <1>1, <1>2 DEF Put, Without, Distinct

\* What an event does to the outcomes.
LEMMA OutcomeIs ==
  ASSUME NEW f, IsFold(f), NEW e, e.step \in DOMAIN Rank
  PROVE  LET g == Apply(f, e)
             before == e.body.before.id
             after == e.body.after.id
         IN
         /\ e.step \in CriterionOutcome =>
              \E w \in Tile : g.outcome = Put(f.outcome, [id |-> ObservationId(e), what |-> w])
         /\ e.step = "ObservationEditedByHuman" =>
              g.outcome = IF At(Without(f.outcome, before), after) # {}
                          THEN Without(f.outcome, before)
                          ELSE Put(Without(f.outcome, before),
                                   [id |-> after, what |-> "accepted_first_attempt"])
         /\ e.step \notin CriterionOutcome \union {"ObservationEditedByHuman"} =>
              \/ g.outcome = f.outcome
              \/ g.outcome = Put(f.outcome, [id |-> <<e.unit, "abandoned">>, what |-> "abandoned"])
<1>0. CriterionOutcome = {"ObservationAccepted", "NoEvidenceRecorded", "NeedsHumanReview"}
  BY DEF CriterionOutcome
<1>1. CASE e.step = "ObservationAccepted"
  <2>1. Apply(f, e) = Accepted(f, e)
    BY <1>1 DEF Apply
  <2>2. Accepted(f, e).outcome =
          Put(f.outcome, [id |-> ObservationId(e),
            what |-> IF Observation(e).attempts <= 1 THEN "accepted_first_attempt"
                                                    ELSE "accepted_after_retry"])
    BY ObservationIs DEF Accepted, IsFold
  <2>3. \E w \in Tile : Accepted(f, e).outcome = Put(f.outcome, [id |-> ObservationId(e), what |-> w])
    BY <2>2 DEF Tile
  <2>. QED BY <1>0, <1>1, <2>1, <2>3
<1>2. CASE e.step = "NoEvidenceRecorded"
  <2>1. Apply(f, e) = NoEvidence(f, e)
    BY <1>2 DEF Apply
  <2>2. NoEvidence(f, e).outcome = Put(f.outcome, [id |-> ObservationId(e), what |-> "no_evidence"])
    BY ObservationIs DEF NoEvidence, IsFold
  <2>3. "no_evidence" \in Tile
    BY DEF Tile
  <2>. QED BY <1>0, <1>2, <2>1, <2>2, <2>3
<1>3. CASE e.step = "NeedsHumanReview"
  <2>1. Apply(f, e) = NeedsHuman(f, e)
    BY <1>3 DEF Apply
  <2>2. NeedsHuman(f, e).outcome = Put(f.outcome, [id |-> ObservationId(e), what |-> "needs_human"])
    BY DEF NeedsHuman, IsFold
  <2>3. "needs_human" \in Tile
    BY DEF Tile
  <2>. QED BY <1>0, <1>3, <2>1, <2>2, <2>3
<1>4. CASE e.step = "ObservationEditedByHuman"
  <2>1. Apply(f, e) = Edited(f, e)
    BY <1>4 DEF Apply
  <2>2. Edited(f, e).outcome =
          IF At(Without(f.outcome, e.body.before.id), e.body.after.id) # {}
          THEN Without(f.outcome, e.body.before.id)
          ELSE Put(Without(f.outcome, e.body.before.id),
                   [id |-> e.body.after.id, what |-> "accepted_first_attempt"])
    BY DEF Edited, OutcomesLeft, IsFold
  <2>. QED BY <1>0, <1>4, <2>1, <2>2
<1>5. CASE e.step \notin CriterionOutcome \union {"ObservationEditedByHuman"}
  <2>1. CASE e.step = "TaskAbandoned"
    <3>1. Apply(f, e) = Abandoned(f, e)
      BY <2>1 DEF Apply
    <3>. QED BY <1>5, <3>1 DEF Abandoned, IsFold
  <2>2. CASE e.step # "TaskAbandoned"
    <3>1. \/ Apply(f, e) \in {f, InjectionDetected(f, e), Drafted(f, e), Rejected(f, e), Failed(f, e)}
          \/ Apply(f, e) = [f EXCEPT !.students = @ \union {e.unit}]
      BY <1>0, <1>5, <2>2 DEF Apply
    <3>. QED BY <1>5, <3>1 DEF InjectionDetected, Drafted, Rejected, Failed, IsFold
  <2>. QED BY <2>1, <2>2
<1>. QED BY <1>0, <1>1, <1>2, <1>3, <1>4, <1>5

\* What an escalation does to the two dicts it may move an observation between.
LEMMA EscalationIs ==
  ASSUME NEW f, IsFold(f), NEW e, e.step = "NeedsHumanReview"
  PROVE  /\ Source(f, e) = {} =>
              Apply(f, e).current = f.current /\ Apply(f, e).drafted = f.drafted
         /\ Source(f, e) # {} =>
              /\ Apply(f, e).current = Without(f.current, ObservationId(e))
                                         \union {[x EXCEPT !.needs_human = TRUE] : x \in Source(f, e)}
              /\ Apply(f, e).drafted = Without(f.drafted, ObservationId(e))
<1>1. Apply(f, e) = NeedsHuman(f, e)
  BY DEF Apply
<1>2. /\ NeedsHuman(f, e).current =
           IF Source(f, e) = {} THEN f.current
           ELSE Without(f.current, ObservationId(e)) \union {[x EXCEPT !.needs_human = TRUE] : x \in Source(f, e)}
      /\ NeedsHuman(f, e).drafted =
           IF Source(f, e) = {} THEN f.drafted ELSE Without(f.drafted, ObservationId(e))
  BY DEF NeedsHuman, IsFold
<1>. QED BY <1>1, <1>2

\* What the steps that decide nothing do to them.
LEMMA UndecidedIs ==
  ASSUME NEW f, IsFold(f), NEW e, e.step \in DOMAIN Rank,
         e.step \notin CriterionOutcome \union {"ObservationEditedByHuman"}
  PROVE  /\ Apply(f, e).current = f.current
         /\ IF e.step = "ObservationDrafted"
            THEN Apply(f, e).drafted = Put(f.drafted, Observation(e))
            ELSE Apply(f, e).drafted = f.drafted
<1>1. CASE e.step = "ObservationDrafted"
  <2>1. Apply(f, e) = Drafted(f, e)
    BY <1>1 DEF Apply
  <2>2. Drafted(f, e).current = f.current /\ Drafted(f, e).drafted = Put(f.drafted, Observation(e))
    BY DEF Drafted, IsFold
  <2>. QED BY <1>1, <2>1, <2>2
<1>2. CASE e.step # "ObservationDrafted"
  <2>1. \/ Apply(f, e) \in {f, InjectionDetected(f, e), Abandoned(f, e), Rejected(f, e), Failed(f, e)}
        \/ Apply(f, e) = [f EXCEPT !.students = @ \union {e.unit}]
    BY <1>2 DEF Apply, CriterionOutcome, Rank
  <2>. QED BY <1>2, <2>1 DEF InjectionDetected, Abandoned, Rejected, Failed, IsFold
<1>. QED BY <1>1, <1>2

\* What an acceptance and a statement of no evidence do to them.
LEMMA DecisionIs ==
  ASSUME NEW f, IsFold(f), NEW e, e.step \in {"ObservationAccepted", "NoEvidenceRecorded"}
  PROVE  /\ Apply(f, e).current = Put(f.current, Observation(e))
         /\ Apply(f, e).drafted \in {f.drafted, Without(f.drafted, Observation(e).id)}
<1>1. CASE e.step = "ObservationAccepted"
  <2>1. Apply(f, e) = Accepted(f, e)
    BY <1>1 DEF Apply
  <2>. QED BY <2>1 DEF Accepted, IsFold
<1>2. CASE e.step = "NoEvidenceRecorded"
  <2>1. Apply(f, e) = NoEvidence(f, e)
    BY <1>2 DEF Apply
  <2>. QED BY <2>1 DEF NoEvidence, IsFold
<1>. QED BY <1>1, <1>2

\* One event more, as long as what an escalation shows is known.
LEMMA ListedStep ==
  ASSUME NEW f, Listed(f), NEW e, e.step \in DOMAIN Rank,
         e.step = "NeedsHumanReview" =>
           /\ Source(f, e) # {} /\ Distinct(f.drafted)
           /\ \A o \in f.current \union f.drafted : Original(o)
  PROVE  Listed(Apply(f, e))
<1>. DEFINE g == Apply(f, e)
            i == ObservationId(e)
            before == e.body.before.id
            after == e.body.after.id
<1>0. IsFold(f) /\ IsFiniteSet(f.current) /\ IsFiniteSet(f.outcome)
      /\ Distinct(f.current) /\ Distinct(f.outcome) /\ IsFold(g)
      /\ \A x \in f.outcome :
           x.what \in Tile /\ (Columns(x.what) # {} => \E o \in f.current : o.id = x.id)
  BY ApplyIs DEF Listed
<1>a. ASSUME NEW d
      PROVE  /\ IsFiniteSet(Put(f.current, d)) /\ Distinct(Put(f.current, d))
             /\ d \in Put(f.current, d)
             /\ \A p \in f.current : p.id # d.id => p \in Put(f.current, d)
  <2>1. IsFiniteSet(f.current) /\ Distinct(f.current)
    BY <1>0
  <2>. QED BY <2>1, PutIs
<1>b. ASSUME NEW d
      PROVE  /\ IsFiniteSet(Put(f.outcome, d)) /\ Distinct(Put(f.outcome, d))
             /\ \A x \in Put(f.outcome, d) : x = d \/ x \in f.outcome
  <2>1. IsFiniteSet(f.outcome) /\ Distinct(f.outcome)
    BY <1>0
  <2>. QED BY <2>1, PutIs
<1>. HIDE DEF g
<1>1. CASE e.step \in CriterionOutcome
  <2>1. PICK w \in Tile : g.outcome = Put(f.outcome, [id |-> i, what |-> w])
    BY <1>0, <1>1, OutcomeIs DEF g
  <2>2. PICK o : /\ o.id = i /\ o \in g.current
                 /\ IsFiniteSet(g.current) /\ Distinct(g.current)
                 /\ \A p \in f.current : p.id # i => p \in g.current
    <3>1. CASE e.step \in {"ObservationAccepted", "NoEvidenceRecorded"}
      <4>1. g.current = Put(f.current, Observation(e))
        BY <1>0, <3>1, ApplyDecides DEF g
      <4>. DEFINE d == Observation(e)
      <4>2. d.id = i
        BY ObservationIs
      <4>. HIDE DEF d
      <4>3. /\ IsFiniteSet(Put(f.current, d)) /\ Distinct(Put(f.current, d)) /\ d \in Put(f.current, d)
            /\ \A p \in f.current : p.id # d.id => p \in Put(f.current, d)
        BY <1>a
      <4>. QED BY <4>1, <4>2, <4>3 DEF d
    <3>2. CASE e.step = "NeedsHumanReview"
      <4>1. PICK s : s \in Source(f, e)
        BY <3>2
      <4>2. Source(f, e) = {s} /\ Original(s) /\ s.id = i
        BY <1>0, <3>2, <4>1, SourceIs
      <4>. DEFINE t == [s EXCEPT !.needs_human = TRUE]
      <4>3. t.id = i
        BY <4>2, Escalates
      <4>4. g.current = Without(f.current, i) \union {[x EXCEPT !.needs_human = TRUE] : x \in Source(f, e)}
        BY <1>0, <3>2, <4>2, EscalationIs DEF g
      <4>5. g.current = Put(f.current, t)
        BY <4>2, <4>3, <4>4 DEF Put
      <4>. HIDE DEF t
      <4>. QED BY <1>a, <4>3, <4>5
    <3>. QED BY <1>1, <3>1, <3>2 DEF CriterionOutcome
  <2>. DEFINE y == [id |-> i, what |-> w]
  <2>3. y.id = i /\ y.what = w
    OBVIOUS
  <2>. HIDE DEF y
  <2>4. /\ IsFiniteSet(g.outcome) /\ Distinct(g.outcome)
        /\ \A x \in g.outcome : x = y \/ x \in f.outcome
    BY <1>b, <2>1 DEF y
  <2>5. ASSUME NEW x \in g.outcome
        PROVE  x.what \in Tile /\ (Columns(x.what) # {} => \E p \in g.current : p.id = x.id)
    BY <1>0, <2>2, <2>3, <2>4, <2>5
  <2>. QED BY <1>0, <2>2, <2>4, <2>5 DEF Listed, g
<1>2. CASE e.step = "ObservationEditedByHuman"
  <2>. DEFINE C == Without(f.current, before)
              left == Without(f.outcome, before)
              y == [id |-> after, what |-> "accepted_first_attempt"]
  <2>1. g.current = Put(C, e.body.after)
    BY <1>0, <1>2, ApplyIs DEF g
  <2>2. g.outcome = left \/ g.outcome = Put(left, y)
    BY <1>0, <1>2, OutcomeIs DEF g
  <2>3. y.id = after /\ y.what \in Tile
    BY DEF Tile
  <2>4. IsFiniteSet(C) /\ Distinct(C) /\ IsFiniteSet(left) /\ Distinct(left)
    BY <1>0, PutIs
  <2>5. /\ \A p \in f.current : p.id # before => p \in C
        /\ \A x \in left : x \in f.outcome /\ x.id # before
    BY DEF Without
  <2>. HIDE DEF C, left, y
  <2>6. /\ IsFiniteSet(g.current) /\ Distinct(g.current) /\ e.body.after \in g.current
        /\ \A p \in C : p.id # after => p \in g.current
    <3>. DEFINE d == e.body.after
    <3>. HIDE DEF d
    <3>1. /\ IsFiniteSet(Put(C, d)) /\ Distinct(Put(C, d)) /\ d \in Put(C, d)
          /\ \A p \in C : p.id # d.id => p \in Put(C, d)
      BY <2>4, PutIs
    <3>. QED BY <2>1, <3>1 DEF d
  <2>7. /\ IsFiniteSet(g.outcome) /\ Distinct(g.outcome)
        /\ \A x \in g.outcome : x = y \/ x \in left
    <3>1. /\ IsFiniteSet(Put(left, y)) /\ Distinct(Put(left, y))
          /\ \A x \in Put(left, y) : x = y \/ x \in left
      BY <2>4, PutIs
    <3>. QED BY <2>2, <2>4, <3>1
  <2>8. ASSUME NEW x \in g.outcome
        PROVE  x.what \in Tile /\ (Columns(x.what) # {} => \E p \in g.current : p.id = x.id)
    BY <1>0, <2>3, <2>5, <2>6, <2>7
  <2>. QED BY <1>0, <2>6, <2>7, <2>8 DEF Listed, g
<1>3. CASE e.step \notin CriterionOutcome \union {"ObservationEditedByHuman"}
  <2>. DEFINE y == [id |-> <<e.unit, "abandoned">>, what |-> "abandoned"]
  <2>1. g.outcome = f.outcome \/ g.outcome = Put(f.outcome, y)
    BY <1>0, <1>3, OutcomeIs DEF g
  <2>2. y.what \in Tile /\ Columns(y.what) = {}
    BY DEF Tile, Columns, Column
  <2>. HIDE DEF y
  <2>3. g.current = f.current
    BY <1>0, <1>3, UndecidedIs DEF g
  <2>4. /\ IsFiniteSet(g.outcome) /\ Distinct(g.outcome)
        /\ \A x \in g.outcome : x = y \/ x \in f.outcome
    BY <1>0, <1>b, <2>1
  <2>. QED BY <1>0, <2>2, <2>3, <2>4 DEF Listed, g
<1>. QED BY <1>1, <1>2, <1>3

\* Each draft that was folded is known, as a draft or as what was decided of it.
DraftsKnown(events, S, f) ==
  \A j \in S : events[j].step = "ObservationDrafted" =>
    \E o \in f.current \union f.drafted : o.id = ObservationId(events[j])

\* It stays so until edits are folded.
LEMMA DraftsKnownStep ==
  ASSUME NEW events, NEW S, NEW f, NEW j, RunFold(events, S, f), DraftsKnown(events, S, f),
         events[j].step \in DOMAIN Rank, events[j].step # "ObservationEditedByHuman"
  PROVE  DraftsKnown(events, S \union {j}, Apply(f, events[j]))
<1>. DEFINE e == events[j]
            g == Apply(f, e)
<1>0. IsFold(f) /\ e.step \in DOMAIN Rank /\ e.step # "ObservationEditedByHuman"
  BY DEF RunFold
<1>. HIDE DEF g, e
<1>1. ASSUME NEW D, NEW d, NEW o \in D PROVE \E p \in Put(D, d) : p.id = o.id
  BY DEF Put, Without
<1>2. ASSUME NEW o \in f.current \union f.drafted
      PROVE  \E p \in g.current \union g.drafted : p.id = o.id
  <2>1. CASE e.step \notin CriterionOutcome
    <3>1. g.current = f.current /\ (g.drafted = f.drafted \/ g.drafted = Put(f.drafted, Observation(e)))
      BY <1>0, <2>1, UndecidedIs DEF g
    <3>. QED BY <1>1, <1>2, <3>1
  <2>2. CASE e.step \in {"ObservationAccepted", "NoEvidenceRecorded"}
    <3>1. /\ g.current = Put(f.current, Observation(e))
          /\ g.drafted = f.drafted \/ g.drafted = Without(f.drafted, Observation(e).id)
      BY <1>0, <2>2, DecisionIs DEF g
    <3>2. Observation(e) \in g.current
      BY <3>1 DEF Put
    <3>. QED BY <1>1, <1>2, <3>1, <3>2 DEF Without
  <2>3. CASE e.step = "NeedsHumanReview"
    <3>1. CASE Source(f, e) = {}
      <4>1. g.current = f.current /\ g.drafted = f.drafted
        BY <1>0, <2>3, <3>1, EscalationIs DEF g
      <4>. QED BY <1>2, <4>1
    <3>2. CASE Source(f, e) # {}
      <4>1. PICK s \in Source(f, e) : Original(s) /\ s.id = ObservationId(e)
        BY <3>2, SourceIs DEF RunFold
      <4>2. g.current = Without(f.current, ObservationId(e))
                             \union {[x EXCEPT !.needs_human = TRUE] : x \in Source(f, e)}
        BY <1>0, <2>3, <3>2, EscalationIs DEF g
      <4>a. g.drafted = Without(f.drafted, ObservationId(e))
        BY <1>0, <2>3, <3>2, EscalationIs DEF g
      <4>. DEFINE t == [s EXCEPT !.needs_human = TRUE]
      <4>3. t.id = ObservationId(e)
        BY <4>1, Escalates
      <4>4. t \in g.current
        BY <4>1, <4>2
      <4>. HIDE DEF t
      <4>. QED BY <1>2, <4>2, <4>a, <4>3, <4>4 DEF Without
    <3>. QED BY <3>1, <3>2
  <2>. QED BY <2>1, <2>2, <2>3 DEF CriterionOutcome
<1>3. ASSUME e.step = "ObservationDrafted"
      PROVE  \E p \in g.current \union g.drafted : p.id = ObservationId(e)
  <2>1. g.drafted = Put(f.drafted, Observation(e))
    BY <1>0, <1>3, UndecidedIs DEF g, CriterionOutcome
  <2>. QED BY <2>1, ObservationIs DEF Put
<1>. QED BY <1>2, <1>3 DEF DraftsKnown, g, e

\* Whatever the cap escalates was drafted.
CapsHaveDrafts(events) ==
  \A i \in DOMAIN events :
    events[i].step = "NeedsHumanReview" /\ events[i].body.why = "attempt_cap_reached" =>
      \E j \in DOMAIN events : /\ events[j].step = "ObservationDrafted"
                               /\ ObservationId(events[j]) = ObservationId(events[i])

\* Then an escalation that comes before the edits has something to show.
LEMMA SourceKnown ==
  ASSUME NEW events, Sortable(events), CapsHaveDrafts(events), NEW k \in 1 .. Len(events),
         events[Ordered(events)[k]].step = "NeedsHumanReview",
         DraftsKnown(events, Past(events, k - 1), Folding(events)[k - 1])
  PROVE  Source(Folding(events)[k - 1], events[Ordered(events)[k]]) # {}
<1>. DEFINE i == Ordered(events)[k]
            e == events[i]
            f == Folding(events)[k - 1]
<1>1. /\ i \in DOMAIN events
      /\ \A j \in DOMAIN events : Before(events[j], e) => j \in Past(events, k - 1)
  BY FoldStep
<1>. HIDE DEF i, f
<1>2. CASE e.body.why # "attempt_cap_reached"
  BY <1>2 DEF Source, Carried, f, i
<1>3. CASE e.body.why = "attempt_cap_reached"
  <2>1. PICK j \in DOMAIN events : /\ events[j].step = "ObservationDrafted"
                                   /\ ObservationId(events[j]) = ObservationId(e)
    BY <1>1, <1>3 DEF CapsHaveDrafts, i
  <2>2. Rank["ObservationDrafted"] < Rank["NeedsHumanReview"]
    BY DEF Rank
  <2>3. Before(events[j], e)
    BY <2>1, <2>2 DEF Before, i
  <2>4. PICK o \in f.current \union f.drafted : o.id = ObservationId(e)
    BY <1>1, <2>1, <2>3 DEF DraftsKnown, f
  <2>5. At(f.current, ObservationId(e)) # {} \/ At(f.drafted, ObservationId(e)) # {}
    BY <2>4 DEF At
  <2>. QED BY <1>3, <2>5 DEF Source, Carried, f, i
<1>. QED BY <1>2, <1>3

\* The tables of the overview agree in the fold of any log whose caps escalate
\* what was drafted (_outcome_column: "a column here sums to its tile there").
THEOREM TablesAgree ==
  ASSUME NEW events, Sortable(events), CapsHaveDrafts(events)
  PROVE  /\ AddsUp(Render(events))
         /\ Render(events).terminal_outcomes["needs_human"] \in Nat
<1>. DEFINE N == Len(events)
            m == SplitAt(events)
            S(k) == Past(events, k)
            F(k) == Folding(events)[k]
            Good == {k \in 0 .. N : Listed(F(k)) /\ (k <= m => DraftsKnown(events, S(k), F(k)))}
<1>0. /\ N \in Nat /\ m \in 0 .. N
      /\ \A k \in 1 .. N : k <= m <=> Early(events[Ordered(events)[k]])
  BY SplitIs DEF Sortable
<1>1. 0 \in Good
  <2>1. Listed(Nothing)
    BY FS_EmptySet, NothingIs DEF Listed, Nothing, Distinct
  <2>2. F(0) = Nothing /\ S(0) = {}
    BY FoldEnds
  <2>. QED BY <1>0, <2>1, <2>2 DEF DraftsKnown
<1>2. ASSUME NEW k \in 1 .. N, k - 1 \in Good PROVE k \in Good
  <2>. DEFINE i == Ordered(events)[k]
              e == events[i]
  <2>1. /\ i \in DOMAIN events /\ S(k) = S(k - 1) \union {i}
        /\ F(k) = Apply(F(k - 1), e)
    BY FoldStep
  <2>2. e.step \in DOMAIN Rank
    BY <2>1 DEF Sortable
  <2>3. Listed(F(k - 1)) /\ (k - 1 <= m => DraftsKnown(events, S(k - 1), F(k - 1)))
    BY <1>2
  <2>4. ASSUME k <= m
        PROVE  /\ RunFold(events, S(k - 1), F(k - 1)) /\ e.step # "ObservationEditedByHuman"
               /\ DraftsKnown(events, S(k - 1), F(k - 1))
    <3>1. k - 1 <= m /\ k - 1 \in 0 .. N
      BY <1>0, <2>4
    <3>2. \A n \in 1 .. k : n \in 1 .. N /\ Early(events[Ordered(events)[n]])
      BY <1>0, <2>4
    <3>3. \A n \in 1 .. k : events[Ordered(events)[n]].step # "ObservationEditedByHuman"
      <4>1. Rank["ObservationEditedByHuman"] \in Nat
        BY DEF Rank
      <4>. QED BY <3>2, <4>1 DEF Early
    <3>4. RunFold(events, S(k - 1), F(k - 1))
      <4>1. \A n \in 1 .. k - 1 : n \in 1 .. k
        OBVIOUS
      <4>. QED BY <3>1, <3>3, <4>1, RunFolds
    <3>. QED BY <2>3, <3>1, <3>3, <3>4
  <2>5. ASSUME e.step = "NeedsHumanReview" PROVE k <= m
    <3>1. Rank["NeedsHumanReview"] < Rank["ObservationEditedByHuman"]
      BY DEF Rank
    <3>. QED BY <1>0, <2>5, <3>1 DEF Early
  <2>6. Listed(F(k))
    <3>1. e.step = "NeedsHumanReview" => Source(F(k - 1), e) # {}
      BY <2>4, <2>5, SourceKnown
    <3>. HIDE DEF e
    <3>2. e.step = "NeedsHumanReview" =>
            /\ Source(F(k - 1), e) # {} /\ Distinct(F(k - 1).drafted)
            /\ \A o \in F(k - 1).current \union F(k - 1).drafted : Original(o)
      BY <2>4, <2>5, <3>1 DEF RunFold
    <3>3. Listed(Apply(F(k - 1), e))
      <4>. DEFINE f == F(k - 1)
      <4>. HIDE DEF f
      <4>1. /\ Listed(f)
            /\ e.step = "NeedsHumanReview" =>
                 /\ Source(f, e) # {} /\ Distinct(f.drafted)
                 /\ \A o \in f.current \union f.drafted : Original(o)
        BY <2>3, <3>2 DEF f
      <4>2. Listed(Apply(f, e))
        BY <2>2, <4>1, ListedStep
      <4>. QED BY <4>2 DEF f
    <3>. QED BY <2>1, <3>3
  <2>7. k <= m => DraftsKnown(events, S(k), F(k))
    <3>. HIDE DEF i
    <3>. QED BY <2>1, <2>2, <2>4, DraftsKnownStep
  <2>. QED BY <2>6, <2>7
<1>3. N \in Good
  <2>. HIDE DEF Good
  <2>1. \A k \in 0 .. N : k \in Good
    BY <1>0, <1>1, <1>2, CountUp
  <2>. QED BY <1>0, <2>1
<1>4. Listed(Fold(events))
  BY <1>3, FoldEnds
<1>5. /\ Render(events).by_criterion = ByCriterion(Fold(events))
      /\ Render(events).terminal_outcomes = TerminalOutcomes(Fold(events))
  BY DEF Render
<1>6. Render(events).terminal_outcomes["needs_human"] \in Nat
  <2>. DEFINE needing == {x \in Fold(events).outcome : x.what = "needs_human"}
  <2>1. IsFiniteSet(needing)
    BY <1>4, FS_Subset DEF Listed
  <2>2. Cardinality(needing) \in Nat
    BY <2>1, FS_CardinalityType
  <2>3. TerminalOutcomes(Fold(events))["needs_human"] = Cardinality(needing)
    BY DEF TerminalOutcomes, Tile
  <2>. QED BY <1>5, <2>2, <2>3
<1>. QED BY <1>4, <1>5, <1>6, ListedAddsUp
=============================================================================
