--------------------------- MODULE Citation_proofs ---------------------------
(***************************************************************************)
(* Theorems, for any file, any width of the surroundings, any citation of  *)
(* whatever length and any patterns to look for.                           *)
(*                                                                         *)
(* A citation of a rendition with positions is accepted exactly when its   *)
(* words stand in the span it names between the surroundings it reports,   *)
(* these as wide as asked for or cut short by the span's ends.             *)
(* The argument: whatever is handed in, the rendition is a text and its    *)
(* spans are intervals of it; in a text, an occurrence whose surroundings  *)
(* are those reported is the place where prefix, quote and suffix stand in *)
(* a row.                                                                  *)
(*                                                                         *)
(* normalize() changes nothing in a rendition, and the line ends a file    *)
(* was saved with leave no trace in it.  The argument: what one pass       *)
(* removes, no later one brings back, and a text with nothing to remove    *)
(* stays as it is; a text saved with the other line ends has each of its   *)
(* characters in its place, so the same positions are kept of it.          *)
(*                                                                         *)
(* A payload begins in a detection of its pattern, a detection is one, and *)
(* its span is the one it begins in.  The argument: each reading of a      *)
(* pattern begins in a match, as finditer() goes on behind the last one;   *)
(* in a normalized text every character in sight stands in exactly one     *)
(* span, and a gap crosses no end of a span, so that the readings of the   *)
(* folded text are the payloads of the rendition.                          *)
(*                                                                         *)
(* No word is lost, doubled or moved between the file and the spans.  The  *)
(* argument: a pass replaces blanks by blanks or drops blanks, and never   *)
(* brings an accent next to a letter; joining and cutting at blanks keeps  *)
(* the words in their order, line by line, paragraph by paragraph, page by *)
(* page; and what stands between two spans is blank.                       *)
(***************************************************************************)
EXTENDS Citation, FiniteSetTheorems, WellFoundedInduction, TLAPS
-----------------------------------------------------------------------------
(* Induction.  A property of numbers is the set of numbers that have it.   *)

\* A set of natural numbers has a least element.
LEMMA Least ==
  ASSUME NEW T, T \subseteq Nat, T # {}
  PROVE  \E x \in T : \A y \in T : x <= y
<1>. DEFINE U == {0 .. n : n \in T}
<1>1. U \subseteq FiniteSubsetsOf(Nat)
  <2>1. \A n \in Nat : IsFiniteSet(0 .. n) /\ 0 .. n \subseteq Nat
    BY FS_Interval
  <2>. QED BY <2>1 DEF FiniteSubsetsOf
<1>2. IsWellFoundedOn(StrictSubsetOrdering(Nat), FiniteSubsetsOf(Nat))
  BY FS_StrictSubsetOrderingWellFounded
<1>3. U # {}
  OBVIOUS
<1>4. PICK u \in U : \A v \in U : ~ (<<v, u>> \in StrictSubsetOrdering(Nat))
  <2>. HIDE DEF U
  <2>. QED BY <1>1, <1>2, <1>3, WFMin
<1>5. PICK n \in T : u = 0 .. n
  OBVIOUS
<1>6. ASSUME NEW m \in T, m < n PROVE FALSE
  <2>1. 0 .. m \in U /\ 0 .. m # 0 .. n /\ 0 .. m \subseteq 0 .. n /\ 0 .. n \subseteq Nat
    BY <1>6
  <2>2. <<0 .. m, 0 .. n>> \in StrictSubsetOrdering(Nat)
    BY <2>1 DEF StrictSubsetOrdering
  <2>. QED BY <1>4, <1>5, <2>1, <2>2
<1>. QED BY <1>6

\* From a to b, one by one.
LEMMA Climb ==
  ASSUME NEW a \in Nat, NEW b \in Nat, a <= b, NEW Good,
         a \in Good,
         \A k \in a + 1 .. b : k - 1 \in Good => k \in Good
  PROVE  \A k \in a .. b : k \in Good
<1>. SUFFICES ASSUME (a .. b) \ Good # {} PROVE FALSE
  OBVIOUS
<1>1. PICK x \in (a .. b) \ Good : \A y \in (a .. b) \ Good : x <= y
  <2>1. (a .. b) \ Good \subseteq Nat
    OBVIOUS
  <2>. QED BY <2>1, Least
<1>2. x # a /\ x - 1 \in a .. b /\ x \in a + 1 .. b
  BY <1>1
<1>3. x - 1 \in Good
  BY <1>1, <1>2
<1>. QED BY <1>1, <1>2, <1>3

\* From 0 to n, one by one.
LEMMA CountUp ==
  ASSUME NEW n \in Nat, NEW Good, 0 \in Good,
         \A k \in 1 .. n : k - 1 \in Good => k \in Good
  PROVE  \A k \in 0 .. n : k \in Good
<1>1. 0 \in Nat /\ 0 <= n /\ 0 + 1 = 1
  OBVIOUS
<1>. QED BY <1>1, Climb
-----------------------------------------------------------------------------
(* Sequences.                                                              *)

\* Positions are numbered without a gap.
LEMMA NthIs ==
  ASSUME NEW N \in Nat, NEW P, P \subseteq 1 .. N, NEW n \in 1 .. Cardinality(P)
  PROVE  Nth(P, n) \in P /\ Cardinality({j \in P : j < Nth(P, n)}) = n - 1
<1>. DEFINE Upto(m) == {j \in P : j <= m}
            Found(k) == \E i \in P : Cardinality({j \in P : j < i}) = k - 1
            Good == {m \in 0 .. N : \A k \in 1 .. Cardinality(Upto(m)) : Found(k)}
<1>a. IsFiniteSet(P)
  <2>1. IsFiniteSet(1 .. N)
    BY FS_Interval
  <2>. QED BY <2>1, FS_Subset
<1>0. IsFiniteSet(P) /\ \A j \in P : j \in Nat /\ 1 <= j /\ j <= N
  <2>1. ASSUME NEW j \in P PROVE j \in 1 .. N
    OBVIOUS
  <2>. QED BY <1>a, <2>1
<1>1. 0 \in Good
  <2>1. Upto(0) = {}
    <3>1. \A j \in P : ~ (j <= 0)
      BY <1>0
    <3>. QED BY <3>1, Zenon
  <2>2. 1 .. Cardinality(Upto(0)) = {}
    BY <2>1, FS_EmptySet
  <2>. HIDE DEF Upto, Found
  <2>. QED BY <2>2
<1>2. ASSUME NEW m \in 1 .. N, m - 1 \in Good PROVE m \in Good
  <2>1. IsFiniteSet(Upto(m - 1)) /\ Cardinality(Upto(m - 1)) \in Nat
    BY <1>0, FS_Subset, FS_CardinalityType
  <2>2. CASE m \notin P
    <3>1. Upto(m) = Upto(m - 1)
      <4>1. \A j \in P : j <= m <=> j <= m - 1
        BY <1>0, <2>2
      <4>. QED BY <4>1, Zenon
    <3>. HIDE DEF Upto, Found
    <3>. QED BY <1>2, <3>1
  <2>3. CASE m \in P
    <3>1. Upto(m) = Upto(m - 1) \union {m} /\ m \notin Upto(m - 1)
      <4>1. \A j \in P : j <= m <=> j <= m - 1 \/ j = m
        BY <1>0
      <4>2. ~ (m <= m - 1)
        OBVIOUS
      <4>. QED BY <2>3, <4>1, <4>2, Zenon
    <3>2. {j \in P : j < m} = Upto(m - 1)
      <4>1. \A j \in P : j < m <=> j <= m - 1
        BY <1>0
      <4>. QED BY <4>1, Zenon
    <3>. HIDE DEF Upto
    <3>3. Cardinality(Upto(m)) = Cardinality(Upto(m - 1)) + 1
      BY <2>1, <3>1, FS_AddElement
    <3>4. ASSUME NEW k \in 1 .. Cardinality(Upto(m)) PROVE Found(k)
      <4>1. CASE k = Cardinality(Upto(m))
        <5>1. Cardinality({j \in P : j < m}) = k - 1
          BY <2>1, <3>2, <3>3, <4>1
        <5>. QED BY <2>3, <5>1
      <4>2. CASE k # Cardinality(Upto(m))
        <5>1. k \in 1 .. Cardinality(Upto(m - 1))
          BY <2>1, <3>3, <4>2
        <5>. HIDE DEF Found
        <5>. QED BY <1>2, <5>1
      <4>. QED BY <4>1, <4>2
    <3>. HIDE DEF Found
    <3>. QED BY <3>4
  <2>. QED BY <2>2, <2>3
<1>3. N \in Good
  <2>. HIDE DEF Good
  <2>1. \A m \in 0 .. N : m \in Good
    BY <1>1, <1>2, CountUp
  <2>. QED BY <2>1
<1>4. Upto(N) = P
  BY <1>0
<1>5. Found(n)
  <2>. HIDE DEF Upto, Found
  <2>. QED BY <1>3, <1>4
<1>. QED BY <1>5 DEF Nth

\* A function on 1 .. n is a sequence.
LEMMA SequenceOf ==
  ASSUME NEW S, NEW n \in Nat, NEW F, F = [k \in 1 .. n |-> F[k]], \A k \in 1 .. n : F[k] \in S
  PROVE  F \in Seq(S) /\ Len(F) = n /\ DOMAIN F = 1 .. n
<1>1. F \in [1 .. n -> S]
  OBVIOUS
<1>. QED BY <1>1

\* What is kept of a sequence is a sequence of its elements.
LEMMA KeepIs ==
  ASSUME NEW S, NEW t \in Seq(S), NEW P, P \subseteq DOMAIN t
  PROVE  /\ Keep(t, P) \in Seq(S)
         /\ \A n \in DOMAIN Keep(t, P) : \E i \in P : Keep(t, P)[n] = t[i]
<1>1. Len(t) \in Nat /\ P \subseteq 1 .. Len(t)
  OBVIOUS
<1>2. Cardinality(P) \in Nat
  <2>1. IsFiniteSet(1 .. Len(t))
    BY <1>1, FS_Interval
  <2>. QED BY <1>1, <2>1, FS_Subset, FS_CardinalityType
<1>3. \A n \in 1 .. Cardinality(P) : Nth(P, n) \in P
  BY <1>1, NthIs
<1>4. \A i \in P : t[i] \in S
  OBVIOUS
<1>5. Keep(t, P) \in [1 .. Cardinality(P) -> S]
  BY <1>3, <1>4 DEF Keep
<1>6. \A n \in 1 .. Cardinality(P) : Keep(t, P)[n] = t[Nth(P, n)]
  BY DEF Keep
<1>. QED BY <1>2, <1>3, <1>5, <1>6

\* c[k] is the first k sequences in a row.
Builds(c, S, ss) ==
  \A k \in 1 .. Len(ss) : c[k] \in Seq(S) /\ c[k] = IF k = 1 THEN ss[k] ELSE c[k - 1] \o ss[k]

\* Sequences in a row make a sequence.
LEMMA FlattenIs ==
  ASSUME NEW S, NEW ss \in Seq(Seq(S))
  PROVE  /\ FlattenSeq(ss) \in Seq(S)
         /\ ss = <<>> => FlattenSeq(ss) = <<>>
         /\ ss # <<>> => \E c : Builds(c, S, ss) /\ FlattenSeq(ss) = c[Len(ss)]
<1>. DEFINE N == Len(ss)
            Step(g, k) == IF k = 1 THEN ss[k] ELSE g[k - 1] \o ss[k]
            Good == {b \in 0 .. N : \E g : /\ g = [k \in 1 .. b |-> Step(g, k)]
                                           /\ \A k \in 1 .. b : g[k] \in Seq(S)}
<1>0. N \in Nat /\ \A k \in 1 .. N : ss[k] \in Seq(S)
  OBVIOUS
<1>1. 0 \in Good
  <2>1. 1 .. 0 = {}
    OBVIOUS
  <2>2. [k \in 1 .. 0 |-> 0] = [k \in 1 .. 0 |-> Step([j \in 1 .. 0 |-> 0], k)]
    BY <2>1
  <2>3. \E g : g = [k \in 1 .. 0 |-> Step(g, k)] /\ \A k \in 1 .. 0 : g[k] \in Seq(S)
    <3>. HIDE DEF Step
    <3>. QED BY <2>1, <2>2
  <2>4. 0 \in 0 .. N
    BY <1>0
  <2>. HIDE DEF Step
  <2>. QED BY <2>3, <2>4
<1>2. ASSUME NEW b \in 1 .. N, b - 1 \in Good PROVE b \in Good
  <2>1. PICK g : /\ g = [k \in 1 .. b - 1 |-> Step(g, k)]
                 /\ \A k \in 1 .. b - 1 : g[k] \in Seq(S)
    BY <1>2
  <2>. DEFINE h == [k \in 1 .. b |-> IF k = b THEN Step(g, k) ELSE g[k]]
  <2>2. ASSUME NEW k \in 1 .. b PROVE h[k] = Step(h, k) /\ h[k] \in Seq(S)
    <3>1. k # 1 => /\ k - 1 \in 1 .. b - 1 /\ k - 1 \in 1 .. b /\ k - 1 # b
                   /\ g[k - 1] \in Seq(S)
      BY <2>1
    <3>2. k # 1 => h[k - 1] = g[k - 1]
      BY <3>1
    <3>3. Step(h, k) = Step(g, k)
      <4>. HIDE DEF h
      <4>. QED BY <3>2
    <3>4. k # b => k \in 1 .. b - 1
      OBVIOUS
    <3>5. h[k] = Step(g, k)
      <4>1. k # b => g[k] = Step(g, k)
        <5>. HIDE DEF Step
        <5>. QED BY <2>1, <3>4
      <4>. HIDE DEF Step
      <4>. QED BY <4>1
    <3>6. Step(g, k) \in Seq(S)
      <4>1. ss[k] \in Seq(S)
        BY <1>0
      <4>. QED BY <3>1, <4>1
    <3>. HIDE DEF h, Step
    <3>. QED BY <3>3, <3>5, <3>6
  <2>3. h = [k \in 1 .. b |-> Step(h, k)]
    <3>. DEFINE e == [k \in 1 .. b |-> Step(h, k)]
    <3>1. \A k \in 1 .. b : h[k] = e[k]
      <4>. HIDE DEF h
      <4>. QED BY <2>2
    <3>. QED BY <3>1
  <2>4. \E f : f = [k \in 1 .. b |-> Step(f, k)] /\ \A k \in 1 .. b : f[k] \in Seq(S)
    <3>. HIDE DEF h, Step
    <3>. QED BY <2>2, <2>3
  <2>5. b \in 0 .. N
    BY <1>0
  <2>. HIDE DEF Step
  <2>. QED BY <2>4, <2>5
<1>3. \E g : g = [k \in 1 .. N |-> Step(g, k)]
  <2>. HIDE DEF Good
  <2>1. \A b \in 0 .. N : b \in Good
    BY <1>0, <1>1, <1>2, CountUp
  <2>2. N \in Good
    BY <1>0, <2>1
  <2>. QED BY <2>2 DEF Good
<1>. DEFINE c == CHOOSE g : g = [k \in 1 .. N |-> Step(g, k)]
<1>4. c = [k \in 1 .. N |-> Step(c, k)]
  <2>. HIDE DEF Step
  <2>. QED BY <1>3
<1>5. \A k \in 1 .. N : c[k] = Step(c, k)
  <2>. HIDE DEF c, Step
  <2>. QED BY <1>4
<1>. HIDE DEF c
<1>. DEFINE Texts == {k \in 0 .. N : k = 0 \/ c[k] \in Seq(S)}
<1>6. ASSUME NEW k \in 1 .. N, k - 1 \in Texts PROVE k \in Texts
  <2>1. c[k] \in Seq(S)
    <3>1. CASE k = 1
      BY <1>0, <1>5, <3>1
    <3>2. CASE k # 1
      <4>1. c[k - 1] \in Seq(S) /\ ss[k] \in Seq(S)
        BY <1>0, <1>6, <3>2
      <4>2. c[k] = c[k - 1] \o ss[k]
        BY <1>5, <3>2
      <4>. QED BY <4>1, <4>2
    <3>. QED BY <3>1, <3>2
  <2>. QED BY <2>1
<1>7. \A k \in 0 .. N : k \in Texts
  <2>1. 0 \in Texts
    BY <1>0
  <2>. HIDE DEF Texts
  <2>. QED BY <1>0, <1>6, <2>1, CountUp
<1>8. CASE N = 0
  <2>1. FlattenSeq(ss) = ss /\ ss = <<>>
    BY <1>8 DEF FlattenSeq
  <2>. QED BY <2>1
<1>9. CASE N # 0
  <2>1. FlattenSeq(ss) = c[N]
    BY <1>9 DEF FlattenSeq, c
  <2>2. \A k \in 1 .. N : c[k] \in Seq(S)
    <3>1. \A k \in 1 .. N : k \in Texts
      <4>. HIDE DEF Texts
      <4>. QED BY <1>0, <1>7
    <3>. QED BY <3>1
  <2>3. Builds(c, S, ss)
    BY <1>5, <2>2 DEF Builds
  <2>. QED BY <1>0, <1>9, <2>1, <2>2, <2>3
<1>. QED BY <1>8, <1>9

\* So does what is joined.
LEMMA JoinIs ==
  ASSUME NEW S, NEW ts \in Seq(Seq(S)), NEW gap \in Seq(S)
  PROVE  Join(ts, gap) \in Seq(S)
<1>. DEFINE ss == [k \in DOMAIN ts |-> IF k = 1 THEN ts[k] ELSE gap \o ts[k]]
<1>1. \A k \in 1 .. Len(ts) : ts[k] \in Seq(S)
  OBVIOUS
<1>2. Len(ts) \in Nat /\ DOMAIN ts = 1 .. Len(ts)
  OBVIOUS
<1>3. ss \in Seq(Seq(S))
  BY <1>1, <1>2
<1>. HIDE DEF ss
<1>4. FlattenSeq(ss) \in Seq(S)
  BY <1>3, FlattenIs
<1>. QED BY <1>4 DEF Join, ss
-----------------------------------------------------------------------------
(* Whatever is handed in, the rendition is a text with intervals of it.    *)

\* The characters there are, with those normalize() puts in.
Char == STRING \union {Accented, Cr, Nl, Sp}

Str == Seq(Char)

\* What normalize() is made of makes a text of a text.
LEMMA PassesAreTexts ==
  ASSUME NEW t \in Str
  PROVE  /\ Nfc(t) \in Str /\ LineEnds(t) \in Str /\ Visible(t) \in Str
         /\ WithoutTrailing(t) \in Str /\ WithoutBlankRuns(t) \in Str
         /\ Strip(t) \in Str /\ RStrip(t) \in Str
<1>0. Len(t) \in Nat /\ DOMAIN t = 1 .. Len(t) /\ \A i \in 1 .. Len(t) : t[i] \in Char
  BY DEF Str
<1>1. ASSUME NEW P, P \subseteq DOMAIN t PROVE Keep(t, P) \in Str
  BY <1>1, KeepIs DEF Str
<1>2. Nfc(t) \in Str
  <2>. DEFINE u == [i \in DOMAIN t |-> IF i < Len(t) /\ t[i] = "a" /\ t[i + 1] = Mark THEN Accented ELSE t[i]]
  <2>1. u \in Str /\ DOMAIN u = DOMAIN t
    <3>1. \A i \in 1 .. Len(t) : u[i] \in Char
      BY <1>0 DEF Char
    <3>. QED BY <1>0, <3>1, SequenceOf DEF Str
  <2>. HIDE DEF u
  <2>2. \A P : P \subseteq DOMAIN t => Keep(u, P) \in Str
    BY <2>1, KeepIs DEF Str
  <2>3. {i \in DOMAIN t : ~ (t[i] = Mark /\ i > 1 /\ t[i - 1] = "a")} \subseteq DOMAIN t
    OBVIOUS
  <2>4. Keep(u, {i \in DOMAIN t : ~ (t[i] = Mark /\ i > 1 /\ t[i - 1] = "a")}) \in Str
    BY <2>2, <2>3
  <2>. QED BY <2>4 DEF Nfc, u
<1>3. LineEnds(t) \in Str
  <2>. DEFINE u == [i \in DOMAIN t |-> IF t[i] = Cr THEN Nl ELSE t[i]]
  <2>1. u \in Str /\ DOMAIN u = DOMAIN t
    <3>1. \A i \in 1 .. Len(t) : u[i] \in Char
      BY <1>0 DEF Char
    <3>. QED BY <1>0, <3>1, SequenceOf DEF Str
  <2>. HIDE DEF u
  <2>2. \A P : P \subseteq DOMAIN t => Keep(u, P) \in Str
    BY <2>1, KeepIs DEF Str
  <2>. QED BY <2>2 DEF LineEnds, u
<1>4. Visible(t) \in Str
  <2>. DEFINE u == [i \in DOMAIN t |-> IF t[i] = Inv THEN Sp ELSE t[i]]
  <2>1. \A i \in 1 .. Len(t) : u[i] \in Char
    BY <1>0 DEF Char
  <2>. QED BY <1>0, <2>1, SequenceOf DEF Visible, Str
<1>5. WithoutTrailing(t) \in Str
  BY <1>1 DEF WithoutTrailing
<1>6. WithoutBlankRuns(t) \in Str
  BY <1>1 DEF WithoutBlankRuns
<1>7. Strip(t) \in Str /\ RStrip(t) \in Str
  BY <1>1 DEF Strip, RStrip
<1>. QED BY <1>2, <1>3, <1>4, <1>5, <1>6, <1>7

\* Normalizing a text gives a text.
LEMMA NormalizeIs == ASSUME NEW t \in Str PROVE Normalize(t) \in Str
<1>1. Visible(LineEnds(Nfc(t))) \in Str
  BY PassesAreTexts
<1>. QED BY <1>1, PassesAreTexts DEF Normalize, Tidied

\* A part of a text is a text.
LEMMA SubSeqIs ==
  ASSUME NEW S, NEW t \in Seq(S), NEW m \in Int, NEW n \in Int, 1 <= m, n <= Len(t)
  PROVE  /\ SubSeq(t, m, n) \in Seq(S)
         /\ Len(SubSeq(t, m, n)) = IF m <= n THEN n - m + 1 ELSE 0
         /\ \A k \in 1 .. n - m + 1 : SubSeq(t, m, n)[k] = t[k + m - 1]
  OBVIOUS

\* The lines of a text are texts.
LEMMA LinesAreTexts ==
  ASSUME NEW t \in Str
  PROVE  Lines(t) \in Seq(Str)
<1>. DEFINE ends == {i \in DOMAIN t : t[i] \in LineEnd}
                      \union (IF t # NoText /\ Last(t) \notin LineEnd THEN {Len(t) + 1} ELSE {})
            C == Cardinality(ends)
            lines == [k \in 1 .. C |->
                        SubSeq(t, IF k = 1 THEN 1 ELSE Nth(ends, k - 1) + 1, Nth(ends, k) - 1)]
<1>0. Len(t) \in Nat /\ DOMAIN t = 1 .. Len(t)
  BY DEF Str
<1>1. ends \subseteq 1 .. Len(t) + 1
  BY <1>0
<1>2. C \in Nat /\ \A k \in 1 .. C : Nth(ends, k) \in 1 .. Len(t) + 1
  <2>. HIDE DEF ends
  <2>1. IsFiniteSet(1 .. Len(t) + 1) /\ Len(t) + 1 \in Nat
    BY <1>0, FS_Interval
  <2>2. C \in Nat
    BY <1>1, <2>1, FS_Subset, FS_CardinalityType
  <2>3. \A k \in 1 .. C : Nth(ends, k) \in ends
    BY <1>1, <2>1, NthIs
  <2>. QED BY <1>1, <2>2, <2>3
<1>. HIDE DEF ends, C
<1>3. ASSUME NEW k \in 1 .. C PROVE lines[k] \in Str
  <2>. DEFINE m == IF k = 1 THEN 1 ELSE Nth(ends, k - 1) + 1
              n == Nth(ends, k) - 1
  <2>1. m \in Int /\ 1 <= m
    <3>1. k # 1 => k - 1 \in 1 .. C
      BY <1>2
    <3>. QED BY <1>2, <3>1
  <2>2. n \in Int /\ n <= Len(t)
    BY <1>0, <1>2
  <2>. HIDE DEF m, n
  <2>3. SubSeq(t, m, n) \in Str
    BY <2>1, <2>2, SubSeqIs DEF Str
  <2>. QED BY <2>3 DEF m, n
<1>4. lines \in Seq(Str)
  <2>. HIDE DEF Str
  <2>1. lines = [k \in 1 .. C |-> lines[k]]
    OBVIOUS
  <2>. HIDE DEF lines
  <2>. QED BY <1>2, <1>3, <2>1, SequenceOf
<1>5. Lines(t) = lines
  BY DEF Lines, ends, C
<1>. QED BY <1>4, <1>5

\* What a page is read into, line by line.
Paragraphs == [done : Seq(Str), open : Seq(Str)]

\* A paragraph put together from its lines is a text.
LEMMA RejoinedIs ==
  ASSUME NEW done \in Seq(Str), NEW open \in Seq(Str)
  PROVE  Rejoined(done, open) \in Seq(Str)
<1>1. <<Sp>> \in Str
  <2>1. Sp \in Char
    BY DEF Char
  <2>. QED BY <2>1 DEF Str
<1>2. Join(open, <<Sp>>) \in Str
  BY <1>1, JoinIs DEF Str
<1>. HIDE DEF Str
<1>. QED BY <1>2 DEF Rejoined

\* A line is added to the open paragraph, which it may close.
LEMMA AddLineIs ==
  ASSUME NEW a \in Paragraphs, NEW line \in Str, NEW closes
  PROVE  AddLine(a, line, closes) \in Paragraphs
<1>. DEFINE open == Append(a.open, Strip(line))
<1>1. Strip(line) \in Str
  BY PassesAreTexts
<1>2. a.done \in Seq(Str) /\ open \in Seq(Str)
  BY <1>1 DEF Paragraphs
<1>. HIDE DEF open
<1>3. Rejoined(a.done, open) \in Seq(Str)
  BY <1>2, RejoinedIs
<1>4. [done |-> Rejoined(a.done, open), open |-> <<>>] \in Paragraphs
  BY <1>3 DEF Paragraphs
<1>5. [a EXCEPT !.open = open] \in Paragraphs
  BY <1>2 DEF Paragraphs
<1>. QED BY <1>4, <1>5 DEF AddLine, open

\* A page is read line by line.
LEMMA RejoiningGoes ==
  ASSUME NEW lines \in Seq(Str), NEW closing, NEW c, c = Rejoining(lines, closing)
  PROVE  /\ c[0] = [done |-> <<>>, open |-> <<>>]
         /\ \A k \in 1 .. Len(lines) : c[k] = AddLine(c[k - 1], lines[k], k \in closing)
<1>. DEFINE N == Len(lines)
            None == [done |-> <<>>, open |-> <<>>]
            Step(g, k) == IF k = 0 THEN None ELSE AddLine(g[k - 1], lines[k], k \in closing)
            Good == {b \in 0 .. N : \E g : g = [k \in 0 .. b |-> Step(g, k)]}
<1>0. N \in Nat /\ \A k \in 1 .. N : lines[k] \in Str
  OBVIOUS
<1>1. 0 \in Good
  <2>1. [k \in 0 .. 0 |-> None] = [k \in 0 .. 0 |-> Step([j \in 0 .. 0 |-> None], k)]
    OBVIOUS
  <2>2. \E g : g = [k \in 0 .. 0 |-> Step(g, k)]
    BY <2>1
  <2>. HIDE DEF Step
  <2>. QED BY <1>0, <2>2
<1>2. ASSUME NEW b \in 1 .. N, b - 1 \in Good PROVE b \in Good
  <2>1. PICK g : g = [k \in 0 .. b - 1 |-> Step(g, k)]
    BY <1>2
  <2>. DEFINE h == [k \in 0 .. b |-> IF k = b THEN Step(g, k) ELSE g[k]]
  <2>2. ASSUME NEW k \in 0 .. b PROVE h[k] = Step(h, k)
    <3>1. k # 0 => k - 1 \in 0 .. b - 1 /\ k - 1 \in 0 .. b /\ k - 1 # b
      OBVIOUS
    <3>2. k # 0 => h[k - 1] = g[k - 1]
      BY <3>1
    <3>3. Step(h, k) = Step(g, k)
      <4>. HIDE DEF h
      <4>. QED BY <3>2
    <3>4. k # b => k \in 0 .. b - 1
      OBVIOUS
    <3>5. h[k] = Step(g, k)
      <4>1. k # b => g[k] = Step(g, k)
        <5>. HIDE DEF Step
        <5>. QED BY <2>1, <3>4
      <4>. HIDE DEF Step
      <4>. QED BY <4>1
    <3>. HIDE DEF h, Step
    <3>. QED BY <3>3, <3>5
  <2>3. h = [k \in 0 .. b |-> Step(h, k)]
    <3>. DEFINE e == [k \in 0 .. b |-> Step(h, k)]
    <3>1. \A k \in 0 .. b : h[k] = e[k]
      <4>. HIDE DEF h
      <4>. QED BY <2>2
    <3>. QED BY <3>1
  <2>4. \E f : f = [k \in 0 .. b |-> Step(f, k)]
    <3>. HIDE DEF h, Step
    <3>. QED BY <2>3
  <2>5. b \in 0 .. N
    BY <1>0
  <2>. HIDE DEF Step
  <2>. QED BY <2>4, <2>5
<1>3. \E g : g = [k \in 0 .. N |-> Step(g, k)]
  <2>. HIDE DEF Good
  <2>1. \A b \in 0 .. N : b \in Good
    BY <1>0, <1>1, <1>2, CountUp
  <2>2. N \in Good
    BY <1>0, <2>1
  <2>. QED BY <2>2 DEF Good
<1>. DEFINE r == CHOOSE g : g = [k \in 0 .. N |-> Step(g, k)]
<1>4. r = [k \in 0 .. N |-> Step(r, k)]
  <2>. HIDE DEF Step
  <2>. QED BY <1>3
<1>5. \A k \in 0 .. N : r[k] = Step(r, k)
  <2>. HIDE DEF r, Step
  <2>. QED BY <1>4
<1>6. c = r
  BY DEF Rejoining
<1>. HIDE DEF r
<1>7. c[0] = None
  BY <1>0, <1>5, <1>6
<1>8. ASSUME NEW k \in 1 .. N PROVE c[k] = AddLine(c[k - 1], lines[k], k \in closing)
  <2>1. k \in 0 .. N /\ k # 0
    BY <1>0
  <2>2. c[k] = Step(c, k)
    <3>. HIDE DEF Step
    <3>. QED BY <1>5, <1>6, <2>1
  <2>. QED BY <2>1, <2>2
<1>. QED BY <1>7, <1>8

\* So, after the last line, what is collected are texts.
LEMMA RejoiningIs ==
  ASSUME NEW lines \in Seq(Str), NEW closing
  PROVE  \A k \in 0 .. Len(lines) : Rejoining(lines, closing)[k] \in Paragraphs
<1>. DEFINE N == Len(lines)
            c == Rejoining(lines, closing)
            Typed == {k \in 0 .. N : c[k] \in Paragraphs}
<1>0. N \in Nat /\ \A k \in 1 .. N : lines[k] \in Str
  OBVIOUS
<1>1. /\ c[0] = [done |-> <<>>, open |-> <<>>]
      /\ \A k \in 1 .. N : c[k] = AddLine(c[k - 1], lines[k], k \in closing)
  BY RejoiningGoes
<1>. HIDE DEF c
<1>2. 0 \in Typed
  <2>1. 0 \in 0 .. N
    BY <1>0
  <2>2. [done |-> <<>>, open |-> <<>>] \in Paragraphs
    BY DEF Paragraphs
  <2>. QED BY <1>1, <2>1, <2>2
<1>3. ASSUME NEW k \in 1 .. N, k - 1 \in Typed PROVE k \in Typed
  <2>1. k \in 0 .. N /\ c[k] = AddLine(c[k - 1], lines[k], k \in closing)
    BY <1>0, <1>1
  <2>2. c[k - 1] \in Paragraphs /\ lines[k] \in Str
    BY <1>0, <1>3
  <2>3. AddLine(c[k - 1], lines[k], k \in closing) \in Paragraphs
    BY <2>2, AddLineIs
  <2>. QED BY <2>1, <2>3
<1>4. \A k \in 0 .. N : k \in Typed
  <2>. HIDE DEF Typed
  <2>. QED BY <1>0, <1>2, <1>3, CountUp
<1>. QED BY <1>4 DEF c

\* What is not empty among texts are texts.
LEMMA NonEmptyIs ==
  ASSUME NEW ts \in Seq(Str)
  PROVE  NonEmpty(ts) \in Seq(Str)
<1>1. {k \in DOMAIN ts : ts[k] # NoText} \subseteq DOMAIN ts
  OBVIOUS
<1>. QED BY <1>1, KeepIs DEF NonEmpty

\* Stripped texts are texts.
LEMMA MappedIs ==
  ASSUME NEW ts \in Seq(Str)
  PROVE  /\ [k \in DOMAIN ts |-> RStrip(ts[k])] \in Seq(Str)
         /\ [k \in DOMAIN ts |-> Strip(ts[k])] \in Seq(Str)
<1>1. \A k \in 1 .. Len(ts) : ts[k] \in Str
  OBVIOUS
<1>2. Len(ts) \in Nat /\ DOMAIN ts = 1 .. Len(ts)
  OBVIOUS
<1>3. \A k \in 1 .. Len(ts) : RStrip(ts[k]) \in Str /\ Strip(ts[k]) \in Str
  BY <1>1, PassesAreTexts
<1>4. /\ [k \in DOMAIN ts |-> RStrip(ts[k])] \in Seq(Str)
      /\ [k \in DOMAIN ts |-> Strip(ts[k])] \in Seq(Str)
  BY <1>2, <1>3
<1>. QED BY <1>4

\* A page of a PDF, its paragraphs rejoined, is a text.
LEMMA PageIs ==
  ASSUME NEW t \in Str
  PROVE  RejoinPdfParagraphs(t) \in Str
<1>. DEFINE all_lines == Lines(t)
            lines == NonEmpty([k \in DOMAIN all_lines |-> RStrip(all_lines[k])])
            all == Rejoining(lines, Closing(lines))[Len(lines)]
            gap == <<Nl, Nl>>
<1>1. all_lines \in Seq(Str)
  BY LinesAreTexts
<1>2. lines \in Seq(Str)
  <2>. HIDE DEF all_lines
  <2>1. [k \in DOMAIN all_lines |-> RStrip(all_lines[k])] \in Seq(Str)
    BY <1>1, MappedIs
  <2>. QED BY <2>1, NonEmptyIs
<1>. HIDE DEF lines
<1>3. all \in Paragraphs
  <2>1. Len(lines) \in 0 .. Len(lines)
    BY <1>2
  <2>. QED BY <1>2, <2>1, RejoiningIs
<1>. HIDE DEF all
<1>4. NonEmpty(Rejoined(all.done, all.open)) \in Seq(Str)
  <2>1. all.done \in Seq(Str) /\ all.open \in Seq(Str)
    BY <1>3 DEF Paragraphs
  <2>2. Rejoined(all.done, all.open) \in Seq(Str)
    BY <2>1, RejoinedIs
  <2>. QED BY <2>2, NonEmptyIs
<1>5. gap \in Str
  <2>1. Nl \in Char
    BY DEF Char
  <2>. QED BY <2>1 DEF Str
<1>6. Join(NonEmpty(Rejoined(all.done, all.open)), gap) \in Str
  <2>. HIDE DEF gap
  <2>. QED BY <1>4, <1>5, JoinIs DEF Str
<1>7. NoText \in Str
  BY DEF NoText, Str
<1>8. RejoinPdfParagraphs(t) \in {NoText, Join(NonEmpty(Rejoined(all.done, all.open)), gap)}
  BY DEF RejoinPdfParagraphs, all, lines
<1>. QED BY <1>6, <1>7, <1>8

\* The parts of a file are texts.
LEMMA PartsAreTexts == ASSUME NEW f \in Sources PROVE f.parts \in Seq(Str)
<1>1. f.parts \in Seq(Seq(STRING))
  BY SourcesAssumption
<1>2. Len(f.parts) \in Nat /\ f.parts = [k \in 1 .. Len(f.parts) |-> f.parts[k]]
      /\ \A k \in 1 .. Len(f.parts) : f.parts[k] \in Seq(STRING)
  BY <1>1
<1>3. ASSUME NEW t \in Seq(STRING) PROVE t \in Str
  <2>1. \A i \in 1 .. Len(t) : t[i] \in Char
    BY DEF Char
  <2>2. Len(t) \in Nat /\ t = [i \in 1 .. Len(t) |-> t[i]]
    OBVIOUS
  <2>. QED BY <2>1, <2>2, SequenceOf DEF Str
<1>. QED BY <1>2, <1>3, SequenceOf

\* What extract() returns is a text.
LEMMA ExtractIs ==
  ASSUME NEW f \in Sources
  PROVE  Extract(f).text \in Str
<1>. DEFINE gap == <<Nl, Nl>>
<1>0. gap \in Str /\ NoText \in Str
  <2>1. Nl \in Char
    BY DEF Char
  <2>. QED BY <2>1 DEF Str, NoText
<1>1. f.parts \in Seq(Str)
  BY PartsAreTexts
<1>. HIDE DEF gap
<1>2. UnparseableSource.text \in Str
  BY <1>0 DEF UnparseableSource, Extracted
<1>3. CASE f.kind = "md"
  <2>1. f.parts[1] \in Str
    BY <1>1, <1>3, SourcesAssumption
  <2>2. LineEnds(f.parts[1]) \in Str
    BY <2>1, PassesAreTexts
  <2>3. ExtractText(f) \in {UnparseableSource, Extracted(LineEnds(f.parts[1]), "text")}
    BY DEF ExtractText
  <2>4. ExtractText(f).text \in Str
    BY <1>2, <2>2, <2>3 DEF Extracted
  <2>. QED BY <1>3, <2>4 DEF Extract
<1>4. CASE f.kind = "docx"
  <2>. DEFINE stripped == [k \in DOMAIN f.parts |-> Strip(f.parts[k])]
              raw == Join(NonEmpty(stripped), gap)
  <2>1. stripped \in Seq(Str)
    BY <1>1, MappedIs
  <2>2. raw \in Str
    <3>. HIDE DEF stripped
    <3>1. NonEmpty(stripped) \in Seq(Str)
      BY <2>1, NonEmptyIs
    <3>. QED BY <1>0, <3>1, JoinIs DEF Str
  <2>3. ExtractDocx(f) \in {UnparseableSource, Extracted(raw, "docx")}
    BY DEF ExtractDocx, gap
  <2>. HIDE DEF raw
  <2>4. ExtractDocx(f).text \in Str
    BY <1>2, <2>2, <2>3 DEF Extracted
  <2>. QED BY <1>4, <2>4 DEF Extract
<1>5. CASE f.kind = "pdf"
  <2>. DEFINE P == {k \in DOMAIN f.parts : Strip(f.parts[k]) # NoText}
              pages == Keep(f.parts, P)
              texts == [k \in DOMAIN pages |-> RejoinPdfParagraphs(pages[k])]
              raw == Join(texts, gap)
  <2>1. pages \in Seq(Str)
    <3>1. P \subseteq DOMAIN f.parts
      OBVIOUS
    <3>. HIDE DEF P
    <3>. QED BY <1>1, <3>1, KeepIs
  <2>. HIDE DEF pages
  <2>2. texts \in Seq(Str)
    <3>1. Len(pages) \in Nat /\ DOMAIN pages = 1 .. Len(pages)
          /\ \A k \in 1 .. Len(pages) : RejoinPdfParagraphs(pages[k]) \in Str
      BY <2>1, PageIs
    <3>. QED BY <3>1
  <2>3. raw \in Str
    <3>. HIDE DEF texts
    <3>. QED BY <1>0, <2>2, JoinIs DEF Str
  <2>4. ExtractPdf(f) \in {Extracted(raw, "pdf_image"), Extracted(raw, "pdf_text")}
    BY DEF ExtractPdf, gap, pages
  <2>. HIDE DEF raw
  <2>5. ExtractPdf(f).text \in Str
    BY <2>3, <2>4 DEF Extracted
  <2>. QED BY <1>5, <2>5 DEF Extract
<1>6. CASE f.kind = "unreadable"
  BY <1>2, <1>6 DEF Extract
<1>. QED BY <1>3, <1>4, <1>5, <1>6, SourcesAssumption

\* Some of the numbers up to N have a least and a greatest.
LEMMA Ends ==
  ASSUME NEW N \in Nat, NEW P, P \subseteq 1 .. N, P # {}
  PROVE  Max(P) \in P /\ Min(P) \in P /\ \A x \in P : Min(P) <= x /\ x <= Max(P)
<1>. DEFINE Below == {N - x : x \in P}
<1>0. \A x \in P : x \in Nat /\ N - x \in Nat
  <2>1. ASSUME NEW x \in P PROVE x \in 1 .. N
    OBVIOUS
  <2>. QED BY <2>1
<1>1. PICK x \in P : \A y \in P : x <= y
  <2>1. P \subseteq Nat
    BY <1>0
  <2>. QED BY <2>1, Least
<1>2. PICK z \in Below : \A y \in Below : z <= y
  <2>1. Below \subseteq Nat /\ Below # {}
    BY <1>0
  <2>. HIDE DEF Below
  <2>. QED BY <2>1, Least
<1>3. PICK g \in P : z = N - g
  BY <1>2
<1>4. \A y \in P : g >= y
  BY <1>0, <1>2, <1>3
<1>5. Max(P) \in P /\ \A y \in P : Max(P) >= y
  BY <1>4 DEF Max
<1>6. Min(P) \in P /\ \A y \in P : Min(P) <= y
  BY <1>1 DEF Min
<1>. QED BY <1>0, <1>5, <1>6

\* A text with intervals of it.
IsRendition(r) ==
  /\ r.text \in Str
  /\ r.spans \in Seq([from : 1 .. Len(r.text), to : 1 .. Len(r.text)])

\* The paragraphs of a text are intervals of it.
LEMMA OffsetsAre ==
  ASSUME NEW t \in Str
  PROVE  ParagraphOffsets(t) \in Seq([from : 1 .. Len(t), to : 1 .. Len(t)])
<1>. DEFINE begins == {b \in DOMAIN t : /\ t[b] # Nl
                                        /\ \/ \A i \in 1 .. b - 1 : t[i] = Nl
                                           \/ b > 2 /\ t[b - 1] = Nl /\ t[b - 2] = Nl}
            blank(i) == t[i] = Nl /\ i < Len(t) /\ t[i + 1] = Nl
            within(b) == {i \in b .. Len(t) : t[i] \notin {Nl, Sp} /\ \A k \in b .. i : ~blank(k)}
            kept == {b \in begins : within(b) # {}}
            C == Cardinality(kept)
            spans == [n \in 1 .. C |-> [from |-> Nth(kept, n), to |-> Max(within(Nth(kept, n)))]]
<1>0. Len(t) \in Nat /\ DOMAIN t = 1 .. Len(t)
  BY DEF Str
<1>1. kept \subseteq 1 .. Len(t) /\ \A b \in kept : within(b) # {}
  BY <1>0
<1>2. \A b \in 1 .. Len(t) : within(b) \subseteq 1 .. Len(t)
  BY <1>0
<1>. HIDE DEF kept, within
<1>3. C \in Nat
  <2>1. IsFiniteSet(1 .. Len(t))
    BY <1>0, FS_Interval
  <2>. QED BY <1>1, <2>1, FS_Subset, FS_CardinalityType
<1>4. \A n \in 1 .. C : Nth(kept, n) \in kept
  BY <1>0, <1>1, NthIs
<1>5. \A b \in kept : Max(within(b)) \in 1 .. Len(t)
  <2>1. ASSUME NEW b \in kept PROVE Max(within(b)) \in within(b)
    BY <1>0, <1>1, <1>2, Ends
  <2>. QED BY <1>1, <1>2, <2>1
<1>. HIDE DEF C
<1>6. spans \in Seq([from : 1 .. Len(t), to : 1 .. Len(t)])
  <2>. DEFINE R == [from : 1 .. Len(t), to : 1 .. Len(t)]
  <2>1. \A n \in 1 .. C : spans[n] \in R
    BY <1>1, <1>4, <1>5
  <2>2. spans = [n \in 1 .. C |-> spans[n]]
    OBVIOUS
  <2>. HIDE DEF spans, R
  <2>3. spans \in Seq(R)
    BY <1>3, <2>1, <2>2, SequenceOf
  <2>. QED BY <2>3 DEF R
<1>7. ParagraphOffsets(t) = spans
  BY DEF ParagraphOffsets, kept, within, C
<1>. QED BY <1>6, <1>7

\* A frozen rendition is a text with its paragraphs.
LEMMA FreezeIs ==
  ASSUME NEW f \in Sources
  PROVE  IsRendition(Freeze(f))
<1>. DEFINE text == Normalize(Extract(f).text)
<1>1. text \in Str
  BY ExtractIs, NormalizeIs
<1>2. Freeze(f).text = text /\ Freeze(f).spans = ParagraphOffsets(text)
  BY DEF Freeze
<1>. HIDE DEF text
<1>. QED BY <1>1, <1>2, OffsetsAre DEF IsRendition

\* The text of a span is a text.
LEMMA TextOfIs ==
  ASSUME NEW r, IsRendition(r), NEW s \in SpanIds(r)
  PROVE  TextOf(r, s) \in Str
<1>1. r.spans[s] \in [from : 1 .. Len(r.text), to : 1 .. Len(r.text)]
  <2>. DEFINE R == [from : 1 .. Len(r.text), to : 1 .. Len(r.text)]
  <2>1. r.spans \in Seq(R) /\ s \in DOMAIN r.spans
    BY DEF IsRendition, SpanIds
  <2>. HIDE DEF R
  <2>2. r.spans[s] \in R
    BY <2>1
  <2>. QED BY <2>2 DEF R
<1>2. /\ r.spans[s].from \in Int /\ r.spans[s].to \in Int
      /\ 1 <= r.spans[s].from /\ r.spans[s].to <= Len(r.text)
  BY <1>1
<1>. QED BY <1>2, SubSeqIs DEF IsRendition, TextOf, Str
-----------------------------------------------------------------------------
(* An occurrence with the surroundings reported is a row that stands there. *)

\* In a text, three parts stand in a row from a exactly when each stands where
\* it should.
RowStands(t, p, q, u, a) ==
  LET row == p \o q \o u
      o == a + Len(p)
  IN  /\ Len(row) = Len(p) + Len(q) + Len(u)
      /\ SubSeq(t, a, a + Len(row) - 1) = row <=>
           /\ SubSeq(t, a, o - 1) = p
           /\ SubSeq(t, o, o + Len(q) - 1) = q
           /\ SubSeq(t, o + Len(q), o + Len(q) + Len(u) - 1) = u

\* Where p, q and u stand in a row, each stands where the one before it ends.
LEMMA RowIs ==
  ASSUME NEW S, NEW t \in Seq(S), NEW p \in Seq(S), NEW q \in Seq(S), NEW u \in Seq(S),
         NEW a \in Nat, 1 <= a, a + Len(p) + Len(q) + Len(u) - 1 <= Len(t)
  PROVE  RowStands(t, p, q, u, a)
<1>. DEFINE row == p \o q \o u
            o == a + Len(p)
            P == Len(p)
            Q == Len(q)
            U == Len(u)
<1>0. P \in Nat /\ Q \in Nat /\ U \in Nat /\ Len(t) \in Nat
  OBVIOUS
<1>1. row \in Seq(S) /\ Len(row) = P + Q + U
  OBVIOUS
<1>2. /\ \A k \in 1 .. P : row[k] = p[k]
      /\ \A k \in 1 .. Q : row[P + k] = q[k]
      /\ \A k \in 1 .. U : row[P + Q + k] = u[k]
  OBVIOUS
<1>. HIDE DEF row, o, P, Q, U
<1>3. ASSUME NEW x \in Seq(S), NEW m \in Nat, 1 <= m, m + Len(x) - 1 <= Len(t)
      PROVE  SubSeq(t, m, m + Len(x) - 1) = x <=> \A k \in 1 .. Len(x) : t[m + k - 1] = x[k]
  OBVIOUS
<1>4. /\ o \in Nat /\ o = a + P /\ 1 <= o
      /\ P = Len(p) /\ Q = Len(q) /\ U = Len(u)
      /\ a + (P + Q + U) - 1 <= Len(t)
  BY <1>0 DEF o, P, Q, U
<1>5. SubSeq(t, a, a + Len(row) - 1) = row <=> \A k \in 1 .. P + Q + U : t[a + k - 1] = row[k]
  <2>1. a + Len(row) - 1 <= Len(t)
    BY <1>1, <1>4
  <2>2. SubSeq(t, a, a + Len(row) - 1) = row <=> \A k \in 1 .. Len(row) : t[a + k - 1] = row[k]
    BY <1>1, <1>3, <2>1
  <2>. QED BY <1>1, <2>2
<1>6. SubSeq(t, a, o - 1) = p <=> \A k \in 1 .. P : t[a + k - 1] = p[k]
  <2>1. o - 1 = a + Len(p) - 1 /\ a + Len(p) - 1 <= Len(t)
    BY <1>0, <1>4
  <2>. QED BY <1>3, <1>4, <2>1
<1>7. SubSeq(t, o, o + Q - 1) = q <=> \A k \in 1 .. Q : t[o + k - 1] = q[k]
  <2>1. o + Len(q) - 1 <= Len(t)
    BY <1>0, <1>4
  <2>. QED BY <1>3, <1>4, <2>1
<1>8. SubSeq(t, o + Q, o + Q + U - 1) = u <=> \A k \in 1 .. U : t[o + Q + k - 1] = u[k]
  <2>1. o + Q \in Nat /\ 1 <= o + Q /\ o + Q + Len(u) - 1 <= Len(t)
    BY <1>0, <1>4
  <2>. QED BY <1>3, <1>4, <2>1
<1>9. ASSUME \A k \in 1 .. P + Q + U : t[a + k - 1] = row[k]
      PROVE  /\ \A k \in 1 .. P : t[a + k - 1] = p[k]
             /\ \A k \in 1 .. Q : t[o + k - 1] = q[k]
             /\ \A k \in 1 .. U : t[o + Q + k - 1] = u[k]
  <2>1. ASSUME NEW k \in 1 .. P PROVE t[a + k - 1] = p[k]
    <3>1. k \in 1 .. P + Q + U
      BY <1>0
    <3>. QED BY <1>2, <1>9, <3>1
  <2>2. ASSUME NEW k \in 1 .. Q PROVE t[o + k - 1] = q[k]
    <3>1. P + k \in 1 .. P + Q + U /\ a + (P + k) - 1 = o + k - 1
      BY <1>0, <1>4
    <3>. QED BY <1>2, <1>9, <3>1
  <2>3. ASSUME NEW k \in 1 .. U PROVE t[o + Q + k - 1] = u[k]
    <3>1. P + Q + k \in 1 .. P + Q + U /\ a + (P + Q + k) - 1 = o + Q + k - 1
      BY <1>0, <1>4
    <3>. QED BY <1>2, <1>9, <3>1
  <2>. QED BY <2>1, <2>2, <2>3
<1>10. ASSUME \A k \in 1 .. P : t[a + k - 1] = p[k],
              \A k \in 1 .. Q : t[o + k - 1] = q[k],
              \A k \in 1 .. U : t[o + Q + k - 1] = u[k],
              NEW k \in 1 .. P + Q + U
       PROVE  t[a + k - 1] = row[k]
  <2>1. CASE k <= P
    <3>1. k \in 1 .. P
      BY <1>0, <2>1
    <3>. QED BY <1>2, <1>10, <3>1
  <2>2. CASE P < k /\ k <= P + Q
    <3>1. k - P \in 1 .. Q /\ P + (k - P) = k /\ o + (k - P) - 1 = a + k - 1
      BY <1>0, <1>4, <2>2
    <3>. QED BY <1>2, <1>10, <3>1
  <2>3. CASE P + Q < k
    <3>1. /\ k - (P + Q) \in 1 .. U /\ P + Q + (k - (P + Q)) = k
          /\ o + Q + (k - (P + Q)) - 1 = a + k - 1
      BY <1>0, <1>4, <2>3
    <3>. QED BY <1>2, <1>10, <3>1
  <2>. QED BY <1>0, <2>1, <2>2, <2>3
<1>11. SubSeq(t, a, a + Len(row) - 1) = row <=>
         /\ SubSeq(t, a, o - 1) = p
         /\ SubSeq(t, o, o + Q - 1) = q
         /\ SubSeq(t, o + Q, o + Q + U - 1) = u
  BY <1>5, <1>6, <1>7, <1>8, <1>9, <1>10
<1>. QED BY <1>1, <1>11 DEF RowStands, row, o, P, Q, U

\* A citation as a model can make it: some words, and whatever around them.
IsCitation(c) ==
  c.quote \in Str /\ Len(c.quote) >= 1 /\ c.prefix \in Str /\ c.suffix \in Str

\* One of the occurrences matches exactly when the row stands somewhere.
LEMMA MatchedIs ==
  ASSUME NEW t \in Str, NEW c, IsCitation(c)
  PROVE  Matched(c, t) <=> \E a \in DOMAIN t : HoldsAt(c, t, a)
<1>. DEFINE p == c.prefix
            q == c.quote
            u == c.suffix
            L == Len(t)
            P == Len(p)
            Q == Len(q)
            U == Len(u)
<1>0. /\ L \in Nat /\ P \in Nat /\ Q \in Nat /\ U \in Nat /\ Width \in Nat
      /\ Q >= 1 /\ DOMAIN t = 1 .. L
  BY WidthAssumption DEF Str, IsCitation
<1>1. t \in Seq(Char) /\ p \in Seq(Char) /\ q \in Seq(Char) /\ u \in Seq(Char)
  BY DEF Str, IsCitation
<1>a. L = Len(t) /\ P = Len(p) /\ Q = Len(q) /\ U = Len(u)
  OBVIOUS
<1>. HIDE DEF p, q, u, L, P, Q, U
\* In numbers.
<1>b. ASSUME NEW a \in Nat, 1 <= a, a + P + Q + U - 1 <= L
      PROVE  LET row == p \o q \o u IN
             /\ Len(row) = P + Q + U
             /\ SubSeq(t, a, a + Len(row) - 1) = row <=>
                  /\ SubSeq(t, a, (a + P) - 1) = p
                  /\ SubSeq(t, a + P, a + P + Q - 1) = q
                  /\ SubSeq(t, a + P + Q, a + P + Q + U - 1) = u
  <2>1. a + Len(p) + Len(q) + Len(u) - 1 <= Len(t)
    BY <1>a, <1>b
  <2>2. RowStands(t, p, q, u, a)
    BY <1>1, <1>b, <2>1, RowIs, Zenon
  <2>. QED BY <2>2 DEF RowStands, P, Q, U
\* What the code compares with, in numbers.
<1>2. ASSUME NEW o \in 1 .. L - Q + 1
      PROVE  LET from == IF o > Width THEN o - Width ELSE 1
                 to == IF o + Q + Width - 1 <= L THEN o + Q + Width - 1 ELSE L
             IN  SamePlace(c, t, o) <=> SubSeq(t, from, o - 1) = p /\ SubSeq(t, o + Q, to) = u
  <2>1. o \in Nat /\ o - Width \in Int
    BY <1>0
  <2>2. Max({1, o - Width}) = IF o > Width THEN o - Width ELSE 1
    BY <1>0, <2>1 DEF Max
  <2>3. Min({L, o + Q + Width - 1}) = IF o + Q + Width - 1 <= L THEN o + Q + Width - 1 ELSE L
    BY <1>0, <2>1 DEF Min
  <2>. QED BY <2>2, <2>3 DEF SamePlace, SpanLocalContext, p, q, u, L, Q
<1>3. ASSUME NEW o \in Occurrences(q, t), SamePlace(c, t, o)
      PROVE  \E a \in DOMAIN t : HoldsAt(c, t, a)
  <2>. DEFINE from == IF o > Width THEN o - Width ELSE 1
              to == IF o + Q + Width - 1 <= L THEN o + Q + Width - 1 ELSE L
  <2>1. o \in 1 .. L - Q + 1 /\ SubSeq(t, o, o + Q - 1) = q
    BY DEF Occurrences, L, Q
  <2>2. /\ o \in Nat /\ 1 <= o /\ o + Q - 1 <= L /\ from \in Nat /\ 1 <= from /\ from <= o
        /\ to \in Nat /\ to <= L /\ o + Q - 1 <= to
    BY <1>0, <2>1
  <2>3. SubSeq(t, from, o - 1) = p /\ SubSeq(t, o + Q, to) = u
    BY <1>2, <1>3, <2>1
  <2>4. from = IF o > Width THEN o - Width ELSE 1
    OBVIOUS
  <2>5. to = IF o + Q + Width - 1 <= L THEN o + Q + Width - 1 ELSE L
    OBVIOUS
  <2>. HIDE DEF from, to
  <2>6. P = o - from
    <3>1. Len(SubSeq(t, from, o - 1)) = IF from <= o - 1 THEN o - 1 - from + 1 ELSE 0
      BY <1>0, <1>1, <1>a, <2>2, SubSeqIs
    <3>2. P = IF from <= o - 1 THEN o - 1 - from + 1 ELSE 0
      BY <1>a, <2>3, <3>1
    <3>. QED BY <2>2, <3>2
  <2>7. U = to - (o + Q) + 1
    <3>1. Len(SubSeq(t, o + Q, to)) = IF o + Q <= to THEN to - (o + Q) + 1 ELSE 0
      BY <1>0, <1>1, <1>a, <2>2, SubSeqIs
    <3>2. U = IF o + Q <= to THEN to - (o + Q) + 1 ELSE 0
      BY <1>a, <2>3, <3>1
    <3>. QED BY <1>0, <2>2, <3>2
  <2>8. /\ from + P = o /\ from + P + Q + U - 1 = to /\ o + Q + U - 1 = to
        /\ P = Width \/ (P < Width /\ from = 1)
        /\ U = Width \/ (U < Width /\ to = L)
        /\ from \in DOMAIN t
    BY <1>0, <2>2, <2>4, <2>5, <2>6, <2>7
  <2>. DEFINE row == p \o q \o u
  <2>9. Len(row) = P + Q + U /\ SubSeq(t, from, from + Len(row) - 1) = row
    <3>1. from \in Nat /\ 1 <= from /\ from + P + Q + U - 1 <= L
      BY <2>2, <2>8
    <3>2. /\ Len(row) = P + Q + U
          /\ SubSeq(t, from, from + Len(row) - 1) = row <=>
               /\ SubSeq(t, from, (from + P) - 1) = p
               /\ SubSeq(t, from + P, from + P + Q - 1) = q
               /\ SubSeq(t, from + P + Q, from + P + Q + U - 1) = u
      BY <1>b, <3>1
    <3>3. SubSeq(t, from, (from + P) - 1) = p
      <4>1. (from + P) - 1 = o - 1
        BY <1>0, <2>2, <2>8
      <4>. QED BY <2>3, <4>1
    <3>4. SubSeq(t, from + P, from + P + Q - 1) = q
      BY <2>1, <2>8
    <3>5. SubSeq(t, from + P + Q, from + P + Q + U - 1) = u
      BY <2>3, <2>8
    <3>. QED BY <3>2, <3>3, <3>4, <3>5
  <2>10. from + Len(row) - 1 = to
    <3>. HIDE DEF row
    <3>. QED BY <1>0, <2>2, <2>8, <2>9
  <2>11. HoldsAt(c, t, from)
    BY <2>2, <2>8, <2>9, <2>10 DEF HoldsAt, p, q, u, P, U, L
  <2>. QED BY <2>8, <2>11
<1>4. ASSUME NEW a \in DOMAIN t, HoldsAt(c, t, a)
      PROVE  Matched(c, t)
  <2>. DEFINE o == a + P
              row == p \o q \o u
  <2>0. Len(row) = P + Q + U
    BY <1>1, <1>a
  <2>1. /\ a + Len(row) - 1 <= L /\ SubSeq(t, a, a + Len(row) - 1) = row
        /\ P = Width \/ (P < Width /\ a = 1)
        /\ U = Width \/ (U < Width /\ a + Len(row) - 1 = L)
    BY <1>4 DEF HoldsAt, p, q, u, P, U, L
  <2>2. a \in Nat /\ 1 <= a /\ a <= L /\ a + P + Q + U - 1 <= L
    BY <1>0, <2>0, <2>1
  <2>3. /\ SubSeq(t, a, (a + P) - 1) = p
        /\ SubSeq(t, a + P, a + P + Q - 1) = q
        /\ SubSeq(t, a + P + Q, a + P + Q + U - 1) = u
    <3>1. SubSeq(t, a, a + Len(row) - 1) = row <=>
               /\ SubSeq(t, a, (a + P) - 1) = p
               /\ SubSeq(t, a + P, a + P + Q - 1) = q
               /\ SubSeq(t, a + P + Q, a + P + Q + U - 1) = u
      BY <1>b, <2>2
    <3>. QED BY <2>1, <3>1
  <2>. HIDE DEF row
  <2>4. o \in 1 .. L - Q + 1
    BY <1>0, <2>2
  <2>5. o \in Occurrences(q, t)
    BY <2>3, <2>4 DEF Occurrences, L, Q
  <2>6. a = IF o > Width THEN o - Width ELSE 1
    BY <1>0, <2>1, <2>2
  <2>7. a + P + Q + U - 1 = IF o + Q + Width - 1 <= L THEN o + Q + Width - 1 ELSE L
    <3>1. a + Len(row) - 1 = a + P + Q + U - 1
      <4>. HIDE DEF row
      <4>. QED BY <1>0, <2>0, <2>2
    <3>2. U = Width \/ (U < Width /\ a + P + Q + U - 1 = L)
      BY <2>1, <3>1
    <3>. HIDE DEF row
    <3>. QED BY <1>0, <2>2, <3>2
  <2>8. SamePlace(c, t, o)
    <3>1. SubSeq(t, a, o - 1) = p /\ SubSeq(t, o + Q, a + P + Q + U - 1) = u
      <4>1. o - 1 = (a + P) - 1 /\ o + Q = a + P + Q
        BY <1>0, <2>2
      <4>. HIDE DEF o
      <4>. QED BY <2>3, <4>1
    <3>. HIDE DEF o
    <3>. QED BY <1>2, <2>4, <2>6, <2>7, <3>1
  <2>. QED BY <2>5, <2>8 DEF Matched, q
<1>. QED BY <1>3, <1>4 DEF Matched, q
-----------------------------------------------------------------------------
(* The citation's way.                                                     *)

\* What the steps before have left, and what the verdict is about.
IInv ==
  /\ IsRendition(rendition)
  /\ stage \in {"cited", "judged"} => IsCitation(citation)
  /\ stage \in {"built", "built and judged"} =>
       /\ citation.span \in SpanIds(rendition)
       /\ Matched(citation, TextOf(rendition, citation.span))
  /\ verdict = IF stage \in {"judged", "built and judged"} THEN ValidateCitation(citation, rendition)
               ELSE NoVerdict

\* What is copied from a rendition is a text, and a quote is not empty.
LEMMA CopiedAreTexts ==
  ASSUME NEW r, IsRendition(r), NEW n, NEW q \in Copied(r, n)
  PROVE  q \in Str /\ Len(q) \in Nat /\ (q # NoText => Len(q) >= 1)
<1>1. q \in Seq(Char)
  <2>1. CASE q = NoText
    BY <2>1 DEF NoText
  <2>2. CASE q # NoText
    <3>1. PICK s \in SpanIds(r) : q \in SubSeqs(TextOf(r, s))
      BY <2>2 DEF Copied
    <3>2. TextOf(r, s) \in Seq(Char)
      BY TextOfIs DEF Str
    <3>3. PICK i \in 0 .. Len(TextOf(r, s)), j \in 0 .. Len(TextOf(r, s)) :
                 q = SubSeq(TextOf(r, s), i + 1, j)
      BY <3>1 DEF SubSeqs
    <3>4. i + 1 \in Int /\ j \in Int /\ 1 <= i + 1 /\ j <= Len(TextOf(r, s))
      BY <3>2
    <3>. QED BY <3>2, <3>3, <3>4, SubSeqIs
  <2>. QED BY <2>1, <2>2
<1>. QED BY <1>1 DEF Str, NoText

\* What the verdict depends on.
LEMMA VerdictIs ==
  ASSUME NEW c, NEW r
  PROVE  /\ ValidateCitation(c, r).ok <=>
              /\ c.span \in SpanIds(r)
              /\ Occurrences(c.quote, TextOf(r, c.span)) # {}
              /\ AnchorCapability(r) = "doc_only" \/ Matched(c, TextOf(r, c.span))
         /\ AnchorCapability(r) = "doc_only" => ValidateCitation(c, r).positional = NotRun
<1>. DEFINE t == TextOf(r, c.span)
<1>. HIDE DEF t
<1>1. CASE c.span \notin SpanIds(r)
  <2>1. ValidateCitation(c, r) = Outcome(FALSE, Failed, NotRun, NotRun)
    BY <1>1 DEF ValidateCitation
  <2>. QED BY <1>1, <2>1 DEF Outcome
<1>2. CASE c.span \in SpanIds(r) /\ Occurrences(c.quote, t) = {}
  <2>1. ValidateCitation(c, r) = Outcome(FALSE, Passed, Failed, NotRun)
    BY <1>2 DEF ValidateCitation, t
  <2>. QED BY <1>2, <2>1 DEF Outcome, t
<1>3. CASE c.span \in SpanIds(r) /\ Occurrences(c.quote, t) # {} /\ AnchorCapability(r) = "doc_only"
  <2>1. ValidateCitation(c, r) = Outcome(TRUE, Passed, Passed, NotRun)
    BY <1>3 DEF ValidateCitation, t
  <2>. QED BY <1>3, <2>1 DEF Outcome, t
<1>4. CASE /\ c.span \in SpanIds(r) /\ Occurrences(c.quote, t) # {} /\ AnchorCapability(r) # "doc_only"
           /\ Matched(c, t)
  <2>1. ValidateCitation(c, r) = Outcome(TRUE, Passed, Passed, Passed)
    BY <1>4 DEF ValidateCitation, t
  <2>. QED BY <1>4, <2>1 DEF Outcome, t
<1>5. CASE /\ c.span \in SpanIds(r) /\ Occurrences(c.quote, t) # {} /\ AnchorCapability(r) # "doc_only"
           /\ ~Matched(c, t)
  <2>1. ValidateCitation(c, r) = Outcome(FALSE, Passed, Passed, Failed)
    BY <1>5 DEF ValidateCitation, t
  <2>. QED BY <1>5, <2>1 DEF Outcome, t
<1>. QED BY <1>1, <1>2, <1>3, <1>4, <1>5

\* No rendition, no verdict.
LEMMA InitIInv == Init => IInv
<1>. SUFFICES ASSUME Init PROVE IInv
  OBVIOUS
<1>1. rendition = NoRendition /\ stage = "handed in" /\ verdict = NoVerdict
  BY DEF Init
<1>2. IsRendition(NoRendition)
  BY DEF IsRendition, NoRendition, NoText, Str
<1>. QED BY <1>1, <1>2 DEF IInv

\* No step of the pipeline breaks the invariant.
LEMMA NextIInv == (IInv /\ source \in Sources) /\ [Next]_vars => IInv'
<1>. SUFFICES ASSUME IInv, source \in Sources, [Next]_vars PROVE IInv'
  OBVIOUS
<1>1. CASE FreezeSource
  <2>1. /\ stage = "handed in" /\ verdict = NoVerdict /\ verdict' = NoVerdict
    BY <1>1 DEF FreezeSource, IInv
  <2>2. stage' \in {"unparseable", "frozen"} /\ rendition' \in {rendition, Freeze(source)}
    BY <1>1 DEF FreezeSource
  <2>3. IsRendition(rendition')
    BY <2>2, FreezeIs DEF IInv
  <2>. QED BY <2>1, <2>2, <2>3 DEF IInv
<1>2. CASE Scan
  BY <1>2 DEF Scan, IInv
<1>3. CASE Cite
  <2>1. /\ stage = "scanned" /\ stage' = "cited"
        /\ UNCHANGED <<rendition, verdict>>
    BY <1>3 DEF Cite
  <2>2. PICK s \in SpanIds(rendition) \union {0}, quote \in Quotes(rendition) :
          \E prefix, suffix \in Copied(rendition, MaxContext) :
            citation' = Cited(s, quote, [prefix |-> prefix, suffix |-> suffix])
    BY <1>3 DEF Cite
  <2>a. PICK prefix \in Copied(rendition, MaxContext), suffix \in Copied(rendition, MaxContext) :
          citation' = Cited(s, quote, [prefix |-> prefix, suffix |-> suffix])
    BY <2>2
  <2>3. quote \in Str /\ Len(quote) \in Nat /\ Len(quote) >= 1
    BY CopiedAreTexts DEF IInv, Quotes
  <2>4. prefix \in Str /\ suffix \in Str
    BY CopiedAreTexts DEF IInv
  <2>5. IsCitation(citation')
    BY <2>a, <2>3, <2>4 DEF IsCitation, Cited
  <2>. QED BY <2>1, <2>5 DEF IInv
<1>4. CASE BuildCitation
  <2>1. /\ stage = "scanned" /\ stage' = "built"
        /\ UNCHANGED <<rendition, verdict>>
    BY <1>4 DEF BuildCitation
  <2>2. PICK s \in SpanIds(rendition), quote \in Quotes(rendition) :
          LET t == TextOf(rendition, s) IN
          /\ Occurrences(quote, t) # {}
          /\ citation' = Cited(s, quote, SpanLocalContext(t, Min(Occurrences(quote, t)), Len(quote)))
    BY <1>4 DEF BuildCitation
  <2>. DEFINE t == TextOf(rendition, s)
              o == Min(Occurrences(quote, t))
  <2>3. t \in Str /\ Len(t) \in Nat
    <3>1. IsRendition(rendition) /\ s \in SpanIds(rendition)
      BY DEF IInv
    <3>2. t \in Str
      BY <3>1, TextOfIs
    <3>. QED BY <3>2 DEF Str
  <2>4. quote \in Str /\ Len(quote) \in Nat /\ Len(quote) >= 1
    BY CopiedAreTexts DEF IInv, Quotes
  <2>5. o \in Occurrences(quote, t)
    <3>1. Occurrences(quote, t) \subseteq 1 .. Len(t)
      BY <2>3, <2>4 DEF Occurrences
    <3>. HIDE DEF t
    <3>. QED BY <2>2, <2>3, <3>1, Ends DEF t
  <2>6. citation' = Cited(s, quote, SpanLocalContext(t, o, Len(quote)))
    BY <2>2
  <2>. HIDE DEF t, o
  <2>7. citation'.span = s /\ citation'.quote = quote /\ SamePlace(citation', t, o)
    BY <2>6 DEF Cited, SamePlace
  <2>8. Matched(citation', TextOf(rendition, citation'.span))
    BY <2>5, <2>7 DEF Matched, t
  <2>. QED BY <2>1, <2>7, <2>8 DEF IInv
<1>5. CASE Judge
  <2>1. /\ verdict' = ValidateCitation(citation, rendition)
        /\ UNCHANGED <<rendition, citation>>
        /\ \/ stage = "cited" /\ stage' = "judged"
           \/ stage = "built" /\ stage' = "built and judged"
    BY <1>5 DEF Judge
  <2>. QED BY <2>1 DEF IInv
<1>6. CASE UNCHANGED vars
  BY <1>6 DEF vars, IInv
<1>. QED BY <1>1, <1>2, <1>3, <1>4, <1>5, <1>6 DEF Next

\* The invariant of the pipeline.
LEMMA Invariance == Spec => [](IInv /\ source \in Sources)
<1>1. Init => IInv /\ source \in Sources
  BY InitIInv DEF Init
<1>2. source \in Sources /\ [Next]_vars => (source \in Sources)'
  BY DEF Next, vars, FreezeSource, Scan, Cite, BuildCitation, Judge
<1>. QED BY <1>1, <1>2, NextIInv, PTL DEF Spec

\* validate_citation() accepts a citation of a rendition with positions exactly
\* when prefix, quote and suffix stand in a row in the span it names, each
\* surrounding as wide as asked for or cut short by the span's end, whatever the
\* model reports and of whatever length; it accepts what build_citation() returns,
\* and gives no positional verdict where there are no positions.
THEOREM CitedWhereItStands == Spec => []AcceptedWhereItHolds
<1>1. IInv => AcceptedWhereItHolds
  <2>. SUFFICES ASSUME IInv PROVE AcceptedWhereItHolds
    OBVIOUS
  <2>. DEFINE t == TextOf(rendition, citation.span)
              V == ValidateCitation(citation, rendition)
  <2>1. V.ok <=> /\ citation.span \in SpanIds(rendition)
                 /\ Occurrences(citation.quote, t) # {}
                 /\ AnchorCapability(rendition) = "doc_only" \/ Matched(citation, t)
    BY VerdictIs
  <2>2. AnchorCapability(rendition) = "doc_only" => V.positional = NotRun
    BY VerdictIs
  <2>3. Matched(citation, t) => Occurrences(citation.quote, t) # {}
    BY DEF Matched
  <2>4. NoVerdict.positional = NotRun
    BY DEF NoVerdict
  <2>5. ASSUME stage = "judged", AnchorCapability(rendition) = "exact"
        PROVE  verdict.ok <=> /\ citation.span \in SpanIds(rendition)
                              /\ \E o \in DOMAIN t : HoldsAt(citation, t, o)
    <3>1. verdict = V /\ IsCitation(citation) /\ IsRendition(rendition)
      BY <2>5 DEF IInv
    <3>2. V.ok <=> citation.span \in SpanIds(rendition) /\ Matched(citation, t)
      BY <2>1, <2>3, <2>5
    <3>3. citation.span \in SpanIds(rendition) =>
            (Matched(citation, t) <=> \E o \in DOMAIN t : HoldsAt(citation, t, o))
      BY <3>1, TextOfIs, MatchedIs
    <3>. QED BY <3>1, <3>2, <3>3
  <2>6. ASSUME stage = "built and judged" PROVE verdict.ok
    <3>1. verdict = V /\ citation.span \in SpanIds(rendition) /\ Matched(citation, t)
      BY <2>6 DEF IInv
    <3>. QED BY <2>1, <2>3, <3>1
  <2>7. AnchorCapability(rendition) = "doc_only" => verdict.positional = NotRun
    BY <2>2, <2>4 DEF IInv
  <2>. QED BY <2>5, <2>6, <2>7 DEF AcceptedWhereItHolds
<1>. QED BY <1>1, Invariance, PTL
-----------------------------------------------------------------------------
(* What stays of a sequence stays in its order.                            *)

\* The numbering follows the order and leaves none out.
LEMMA NthOrder ==
  ASSUME NEW N \in Nat, NEW P, P \subseteq 1 .. N
  PROVE  /\ Cardinality(P) \in Nat
         /\ \A n \in 1 .. Cardinality(P) : Nth(P, n) \in P
         /\ \A m, n \in 1 .. Cardinality(P) : m < n => Nth(P, m) < Nth(P, n)
         /\ \A i \in P : \E n \in 1 .. Cardinality(P) : Nth(P, n) = i
<1>. DEFINE C == Cardinality(P)
            Below(i) == {j \in P : j < i}
            rank(i) == Cardinality(Below(i))
<1>0. IsFiniteSet(P) /\ C \in Nat /\ \A j \in P : j \in Nat
  <2>1. IsFiniteSet(1 .. N)
    BY FS_Interval
  <2>2. IsFiniteSet(P)
    BY <2>1, FS_Subset
  <2>. QED BY <2>2, FS_CardinalityType
<1>1. ASSUME NEW i \in P PROVE rank(i) \in 0 .. C - 1
  <2>1. Below(i) \subseteq P /\ i \notin Below(i)
    BY <1>0
  <2>. HIDE DEF Below
  <2>2. IsFiniteSet(Below(i)) /\ Cardinality(Below(i)) <= C /\ Cardinality(Below(i)) # C
    BY <1>0, <2>1, FS_Subset
  <2>3. Cardinality(Below(i)) \in Nat
    BY <2>2, FS_CardinalityType
  <2>. QED BY <1>0, <2>2, <2>3
<1>2. ASSUME NEW i \in P, NEW k \in P, i < k PROVE rank(i) < rank(k)
  <2>1. Below(i) \subseteq Below(k) /\ i \in Below(k) /\ i \notin Below(i) /\ Below(k) \subseteq P
    <3>1. \A j \in P : j < i => j < k
      BY <1>0, <1>2
    <3>2. ~ (i < i)
      BY <1>0
    <3>. QED BY <1>2, <3>1, <3>2, Zenon
  <2>. HIDE DEF Below
  <2>2. IsFiniteSet(Below(k))
    BY <1>0, <2>1, FS_Subset
  <2>3. Cardinality(Below(i)) <= Cardinality(Below(k)) /\ Cardinality(Below(i)) # Cardinality(Below(k))
    BY <2>1, <2>2, FS_Subset
  <2>. QED BY <1>1, <2>3
<1>3. ASSUME NEW n \in 1 .. C PROVE Nth(P, n) \in P /\ rank(Nth(P, n)) = n - 1
  BY NthIs
<1>. HIDE DEF rank, Below
<1>4. ASSUME NEW m \in 1 .. C, NEW n \in 1 .. C, m < n PROVE Nth(P, m) < Nth(P, n)
  <2>. DEFINE i == Nth(P, m)
              k == Nth(P, n)
  <2>1. i \in P /\ k \in P /\ rank(i) = m - 1 /\ rank(k) = n - 1
    BY <1>3
  <2>. HIDE DEF i, k
  <2>2. rank(i) < rank(k) /\ i \in Nat /\ k \in Nat
    BY <1>0, <1>4, <2>1
  <2>3. ~ (k < i) /\ i # k
    <3>1. k < i => rank(k) < rank(i)
      BY <1>2, <2>1
    <3>2. i = k => rank(i) = rank(k)
      OBVIOUS
    <3>. QED BY <1>0, <1>4, <2>1, <3>1, <3>2
  <2>4. i < k
    BY <2>2, <2>3
  <2>. QED BY <2>4 DEF i, k
<1>5. ASSUME NEW i \in P PROVE \E n \in 1 .. C : Nth(P, n) = i
  <2>. DEFINE n == rank(i) + 1
              k == Nth(P, n)
  <2>1. n \in 1 .. C /\ n - 1 = rank(i)
    BY <1>0, <1>1
  <2>. HIDE DEF n
  <2>2. k \in P /\ rank(k) = rank(i)
    BY <1>3, <2>1
  <2>. HIDE DEF k
  <2>3. k = i
    <3>1. k < i => rank(k) < rank(i)
      BY <1>2, <2>2
    <3>2. i < k => rank(i) < rank(k)
      BY <1>2, <2>2
    <3>. QED BY <1>0, <1>1, <2>2, <3>1, <3>2
  <2>. QED BY <2>1, <2>3 DEF k
<1>. QED BY <1>0, <1>3, <1>4, <1>5

\* f numbers the positions in P: in their order, and none is passed over.
Numbers(f, P, N) ==
  /\ \A n \in DOMAIN f : f[n] \in P /\ f[n] \in 1 .. N
  /\ \A n \in DOMAIN f :
       n + 1 \in DOMAIN f => f[n] < f[n + 1] /\ \A i \in P : ~ (f[n] < i /\ i < f[n + 1])
  /\ \A n \in DOMAIN f : f[n] + 1 \in P => n + 1 \in DOMAIN f /\ f[n + 1] = f[n] + 1
  /\ \A n \in DOMAIN f : n + 1 \notin DOMAIN f => \A i \in P : i <= f[n]
  /\ \A i \in P : 1 \in DOMAIN f /\ f[1] <= i

\* f tells where what is kept of t stood.
Whence(f, t, P, k) ==
  /\ Len(k) \in Nat /\ DOMAIN k = 1 .. Len(k) /\ DOMAIN f = 1 .. Len(k)
  /\ \A n \in 1 .. Len(k) : k[n] = t[f[n]]
  /\ Numbers(f, P, Len(t))

\* Whoever lists the positions in P in their order numbers them.
LEMMA NumbersIs ==
  ASSUME NEW N \in Nat, NEW P, P \subseteq 1 .. N, NEW C \in Nat, NEW f,
         DOMAIN f = 1 .. C,
         \A m \in 1 .. C : f[m] \in P,
         \A m, o \in 1 .. C : m < o => f[m] < f[o],
         \A i \in P : \E m \in 1 .. C : f[m] = i
  PROVE  Numbers(f, P, N)
<1>1. \A m \in 1 .. C : f[m] \in 1 .. N
  OBVIOUS
<1>2. ASSUME NEW n \in 1 .. C, n + 1 \in 1 .. C, NEW i \in P, f[n] < i, i < f[n + 1] PROVE FALSE
  <2>1. PICK m \in 1 .. C : f[m] = i
    OBVIOUS
  <2>2. ~ (m < n) /\ m # n /\ m # n + 1
    BY <1>1, <1>2, <2>1
  <2>3. n + 1 < m
    BY <2>2
  <2>4. f[n + 1] < f[m]
    BY <1>2, <2>3
  <2>. QED BY <1>1, <1>2, <2>1, <2>4
<1>3. ASSUME NEW n \in 1 .. C, n + 1 \in 1 .. C PROVE f[n] < f[n + 1]
  BY <1>3
<1>4. ASSUME NEW n \in 1 .. C, n + 1 \notin 1 .. C, NEW i \in P PROVE i <= f[n]
  <2>1. PICK m \in 1 .. C : f[m] = i
    OBVIOUS
  <2>2. m < n \/ m = n
    BY <1>4
  <2>. QED BY <1>1, <2>1, <2>2
<1>5. ASSUME NEW n \in 1 .. C, f[n] + 1 \in P PROVE n + 1 \in 1 .. C /\ f[n + 1] = f[n] + 1
  <2>1. n + 1 \in 1 .. C
    BY <1>1, <1>4, <1>5
  <2>2. f[n] < f[n + 1] /\ f[n] \in 1 .. N /\ f[n + 1] \in 1 .. N
    BY <1>1, <1>3, <2>1
  <2>3. ~ (f[n] + 1 < f[n + 1])
    BY <1>2, <1>5, <2>1, <2>2
  <2>. QED BY <2>1, <2>2, <2>3
<1>6. ASSUME NEW i \in P PROVE 1 \in 1 .. C /\ f[1] <= i
  <2>1. PICK m \in 1 .. C : f[m] = i
    OBVIOUS
  <2>2. 1 \in 1 .. C /\ (m = 1 \/ 1 < m)
    OBVIOUS
  <2>. QED BY <1>1, <2>1, <2>2
<1>. QED BY <1>1, <1>2, <1>3, <1>4, <1>5, <1>6 DEF Numbers

\* What is kept stands in its order, with nothing kept passed over.
LEMMA KeepOrder ==
  ASSUME NEW S, NEW t \in Seq(S), NEW P, P \subseteq DOMAIN t
  PROVE  \E f : Whence(f, t, P, Keep(t, P))
<1>. DEFINE C == Cardinality(P)
            f == [n \in 1 .. C |-> Nth(P, n)]
<1>1. Len(t) \in Nat /\ P \subseteq 1 .. Len(t)
  OBVIOUS
<1>2. /\ C \in Nat
      /\ \A n \in 1 .. C : Nth(P, n) \in P
      /\ \A m, n \in 1 .. C : m < n => Nth(P, m) < Nth(P, n)
      /\ \A i \in P : \E n \in 1 .. C : Nth(P, n) = i
  BY <1>1, NthOrder
<1>3. Keep(t, P) = [n \in 1 .. C |-> t[Nth(P, n)]] /\ Keep(t, P) \in Seq(S)
  BY KeepIs DEF Keep
<1>4. Len(Keep(t, P)) = C /\ DOMAIN Keep(t, P) = 1 .. C
  BY <1>2, <1>3
<1>5. DOMAIN f = 1 .. C /\ \A n \in 1 .. C : f[n] = Nth(P, n) /\ Keep(t, P)[n] = t[Nth(P, n)]
  BY <1>3
<1>. HIDE DEF f, C
<1>6. /\ \A n \in 1 .. C : f[n] \in P
      /\ \A m, n \in 1 .. C : m < n => f[m] < f[n]
      /\ \A i \in P : \E n \in 1 .. C : f[n] = i
  BY <1>2, <1>5
<1>7. Numbers(f, P, Len(t))
  BY <1>1, <1>2, <1>5, <1>6, NumbersIs
<1>8. Whence(f, t, P, Keep(t, P))
  BY <1>2, <1>4, <1>5, <1>7 DEF Whence
<1>. QED BY <1>8

\* Who keeps everything changes nothing.
LEMMA KeepAll ==
  ASSUME NEW S, NEW t \in Seq(S)
  PROVE  Keep(t, DOMAIN t) = t
<1>. DEFINE N == Len(t)
<1>1. N \in Nat /\ DOMAIN t = 1 .. N /\ t = [n \in 1 .. N |-> t[n]]
  OBVIOUS
<1>. HIDE DEF N
<1>2. Cardinality(1 .. N) = N
  <2>1. N \in Int /\ 1 \in Int /\ (IF 1 > N THEN 0 ELSE N - 1 + 1) = N
    BY <1>1
  <2>. QED BY <2>1, FS_Interval
<1>3. ASSUME NEW i \in 1 .. N PROVE Cardinality({j \in 1 .. N : j < i}) = i - 1
  <2>1. \A j : j \in 1 .. N /\ j < i <=> j \in 1 .. i - 1
    BY <1>1
  <2>2. {j \in 1 .. N : j < i} = 1 .. i - 1
    BY <2>1, Zenon
  <2>3. Cardinality(1 .. i - 1) = i - 1
    BY <1>1, FS_Interval
  <2>. QED BY <2>2, <2>3
<1>4. ASSUME NEW n \in 1 .. N PROVE Nth(1 .. N, n) = n
  <2>1. n \in 1 .. Cardinality(1 .. N)
    BY <1>2
  <2>2. /\ Nth(1 .. N, n) \in 1 .. N
        /\ Cardinality({j \in 1 .. N : j < Nth(1 .. N, n)}) = n - 1
    BY <1>1, <2>1, NthIs
  <2>3. Nth(1 .. N, n) - 1 = n - 1
    BY <1>3, <2>2
  <2>. QED BY <1>1, <2>2, <2>3
<1>5. Keep(t, DOMAIN t) = [n \in 1 .. N |-> t[n]]
  BY <1>1, <1>2, <1>4 DEF Keep
<1>. QED BY <1>1, <1>5
-----------------------------------------------------------------------------
(* What each pass of normalize() removes, none of the later ones brings    *)
(* back.                                                                   *)

\* No accent follows a letter it could be composed with.
Composed(t) == \A i \in 1 .. Len(t) - 1 : t[i] = "a" => t[i + 1] # Mark
\* The character c does not occur.
Without(t, c) == \A i \in 1 .. Len(t) : t[i] # c
\* No blank stands before a line break or the end.
NoTrailing(t) == \A i \in 1 .. Len(t) : t[i] = Sp => i < Len(t) /\ t[i + 1] # Nl
\* There are never three line breaks in a row.
NoRuns(t) == \A i \in 3 .. Len(t) : ~ (t[i] = Nl /\ t[i - 1] = Nl /\ t[i - 2] = Nl)
\* Neither the first nor the last character is blank.
Trimmed(t) == Len(t) # 0 => t[1] \notin Blank /\ t[Len(t)] \notin Blank

\* The characters the passes look at are different ones.
LEMMA Apart ==
  /\ Sp # Nl /\ Sp # Cr /\ Sp # Inv /\ Sp # Mark /\ Sp # "a" /\ Sp # Accented
  /\ Nl # Cr /\ Nl # Inv /\ Nl # Mark /\ Nl # "a" /\ Nl # Accented
  /\ Cr # Inv /\ Cr # Mark /\ Cr # "a" /\ Cr # Accented
  /\ Inv # Mark /\ Inv # "a" /\ Inv # Accented
  /\ Mark # "a" /\ Mark # Accented /\ Accented # "a"
BY DEF Sp, Nl, Cr, Inv, Mark, Accented

\* Composing leaves no accent to compose, and brings in the composed form only.
LEMMA NfcPass ==
  ASSUME NEW t \in Str
  PROVE  /\ Composed(Nfc(t))
         /\ \A c : Without(t, c) /\ c # Accented => Without(Nfc(t), c)
<1>. DEFINE N == Len(t)
            P == {i \in DOMAIN t : ~ (t[i] = Mark /\ i > 1 /\ t[i - 1] = "a")}
            u == [i \in DOMAIN t |-> IF i < Len(t) /\ t[i] = "a" /\ t[i + 1] = Mark THEN Accented ELSE t[i]]
            k == Nfc(t)
<1>0. /\ N \in Nat /\ DOMAIN t = 1 .. N /\ N = Len(t)
      /\ \A i \in 1 .. N : t[i] \in Char
  BY DEF Str
<1>1. u \in Seq(Char) /\ Len(u) = N /\ DOMAIN u = 1 .. N
  <2>1. \A i \in 1 .. N : u[i] \in Char
    BY <1>0 DEF Char
  <2>. QED BY <1>0, <2>1, SequenceOf
<1>2. \A i \in 1 .. N : u[i] = IF i < N /\ t[i] = "a" /\ t[i + 1] = Mark THEN Accented ELSE t[i]
  BY <1>0
<1>3. \A i : i \in P <=> i \in 1 .. N /\ ~ (t[i] = Mark /\ i > 1 /\ t[i - 1] = "a")
  BY <1>0
<1>4. k = Keep(u, P)
  BY DEF Nfc
<1>. HIDE DEF u, P, k, N
<1>5. P \subseteq DOMAIN u
  BY <1>1, <1>3
<1>6. PICK f : Whence(f, u, P, k)
  BY <1>1, <1>4, <1>5, KeepOrder
<1>7. /\ Len(k) \in Nat
      /\ \A n \in 1 .. Len(k) : f[n] \in P /\ f[n] \in 1 .. N /\ k[n] = u[f[n]]
      /\ \A n \in 1 .. Len(k) : n + 1 \in 1 .. Len(k) =>
           f[n] < f[n + 1] /\ (f[n] + 1 \in P => f[n + 1] = f[n] + 1)
  BY <1>1, <1>6 DEF Whence, Numbers
<1>8. Composed(k)
  <2>1. SUFFICES ASSUME NEW n \in 1 .. Len(k) - 1, k[n] = "a", k[n + 1] = Mark PROVE FALSE
    BY DEF Composed
  <2>2. n \in 1 .. Len(k) /\ n + 1 \in 1 .. Len(k) /\ n < Len(k)
    BY <1>7
  <2>. DEFINE i == f[n]
  <2>3. i \in 1 .. N /\ u[i] = "a" /\ f[n + 1] \in 1 .. N /\ u[f[n + 1]] = Mark /\ i < f[n + 1]
    BY <1>7, <2>1, <2>2
  <2>4. i + 1 \in P => f[n + 1] = i + 1
    BY <1>7, <2>2
  <2>. HIDE DEF i
  <2>5. t[i] = "a" /\ i < N /\ i + 1 \in 1 .. N /\ i + 1 > 1 /\ (i + 1) - 1 = i
    BY <1>0, <1>2, <2>3, Apart
  <2>6. t[i + 1] # Mark
    BY <1>2, <2>3, <2>5, Apart
  <2>7. i + 1 \in P
    BY <1>3, <2>5, <2>6
  <2>8. u[i + 1] = t[i + 1] \/ u[i + 1] = Accented
    BY <1>2, <2>5
  <2>. QED BY <2>3, <2>4, <2>6, <2>7, <2>8, Apart
<1>9. ASSUME NEW c, Without(t, c), c # Accented PROVE Without(k, c)
  BY <1>0, <1>2, <1>3, <1>7, <1>9 DEF Without
<1>. QED BY <1>8, <1>9 DEF k

\* Translating the line ends leaves no carriage return, and no accent to compose.
LEMMA LineEndsPass ==
  ASSUME NEW t \in Str, Composed(t)
  PROVE  Composed(LineEnds(t)) /\ Without(LineEnds(t), Cr)
<1>. DEFINE N == Len(t)
            P == {i \in DOMAIN t : ~ (t[i] = Nl /\ i > 1 /\ t[i - 1] = Cr)}
            u == [i \in DOMAIN t |-> IF t[i] = Cr THEN Nl ELSE t[i]]
            k == LineEnds(t)
<1>0. /\ N \in Nat /\ DOMAIN t = 1 .. N /\ N = Len(t)
      /\ \A i \in 1 .. N : t[i] \in Char
  BY DEF Str
<1>1. u \in Seq(Char) /\ Len(u) = N /\ DOMAIN u = 1 .. N
  <2>1. \A i \in 1 .. N : u[i] \in Char
    BY <1>0 DEF Char
  <2>. QED BY <1>0, <2>1, SequenceOf
<1>2. \A i \in 1 .. N : u[i] = IF t[i] = Cr THEN Nl ELSE t[i]
  BY <1>0
<1>3. \A i : i \in P <=> i \in 1 .. N /\ ~ (t[i] = Nl /\ i > 1 /\ t[i - 1] = Cr)
  BY <1>0
<1>4. k = Keep(u, P)
  BY DEF LineEnds
<1>. HIDE DEF u, P, k, N
<1>5. P \subseteq DOMAIN u
  BY <1>1, <1>3
<1>6. PICK f : Whence(f, u, P, k)
  BY <1>1, <1>4, <1>5, KeepOrder
<1>7. /\ Len(k) \in Nat
      /\ \A n \in 1 .. Len(k) : f[n] \in P /\ f[n] \in 1 .. N /\ k[n] = u[f[n]]
      /\ \A n \in 1 .. Len(k) : n + 1 \in 1 .. Len(k) =>
           f[n] < f[n + 1] /\ (f[n] + 1 \in P => f[n + 1] = f[n] + 1)
  BY <1>1, <1>6 DEF Whence, Numbers
<1>8. Composed(k)
  <2>1. SUFFICES ASSUME NEW n \in 1 .. Len(k) - 1, k[n] = "a", k[n + 1] = Mark PROVE FALSE
    BY DEF Composed
  <2>2. n \in 1 .. Len(k) /\ n + 1 \in 1 .. Len(k) /\ n < Len(k)
    BY <1>7
  <2>. DEFINE i == f[n]
  <2>3. i \in 1 .. N /\ u[i] = "a" /\ f[n + 1] \in 1 .. N /\ u[f[n + 1]] = Mark /\ i < f[n + 1]
    BY <1>7, <2>1, <2>2
  <2>4. i + 1 \in P => f[n + 1] = i + 1
    BY <1>7, <2>2
  <2>. HIDE DEF i
  <2>5. t[i] = "a" /\ i + 1 \in 1 .. N /\ (i + 1) - 1 = i /\ i \in 1 .. Len(t) - 1
    BY <1>0, <1>2, <2>3, Apart
  <2>6. i + 1 \in P /\ t[i + 1] # Mark
    BY <1>3, <2>5, Apart DEF Composed
  <2>. QED BY <1>2, <2>3, <2>4, <2>5, <2>6, Apart
<1>9. Without(k, Cr)
  BY <1>0, <1>2, <1>3, <1>7, Apart DEF Without
<1>. QED BY <1>8, <1>9 DEF k

\* Nothing invisible is left, and what was gone stays gone.
LEMMA VisiblePass ==
  ASSUME NEW t \in Str, Composed(t), Without(t, Cr)
  PROVE  Composed(Visible(t)) /\ Without(Visible(t), Cr) /\ Without(Visible(t), Inv)
<1>1. /\ Len(t) \in Nat /\ DOMAIN t = 1 .. Len(t)
      /\ Len(Visible(t)) = Len(t)
      /\ \A i \in 1 .. Len(t) : Visible(t)[i] = IF t[i] = Inv THEN Sp ELSE t[i]
  BY DEF Visible, Str
<1>2. Without(Visible(t), Cr) /\ Without(Visible(t), Inv)
  BY <1>1, Apart DEF Without
<1>3. Composed(Visible(t))
  <2>1. SUFFICES ASSUME NEW i \in 1 .. Len(t) - 1, Visible(t)[i] = "a", Visible(t)[i + 1] = Mark
                 PROVE  FALSE
    BY <1>1 DEF Composed
  <2>2. i \in 1 .. Len(t) /\ i + 1 \in 1 .. Len(t)
    BY <1>1
  <2>3. t[i] = "a" /\ t[i + 1] = Mark
    BY <1>1, <2>1, <2>2, Apart
  <2>. QED BY <2>3 DEF Composed
<1>. QED BY <1>2, <1>3

\* What is merely kept, of a text.
LEMMA Kept ==
  ASSUME NEW t \in Str, NEW P, P \subseteq DOMAIN t
  PROVE  \A c : Without(t, c) => Without(Keep(t, P), c)
<1>1. PICK f : Whence(f, t, P, Keep(t, P))
  BY KeepOrder DEF Str
<1>2. DOMAIN t = 1 .. Len(t)
  BY DEF Str
<1>. QED BY <1>1, <1>2 DEF Whence, Numbers, Without

\* No blanks are left before a line break, and what was gone stays gone.
LEMMA TrailingPass ==
  ASSUME NEW t \in Str, Composed(t)
  PROVE  /\ Composed(WithoutTrailing(t)) /\ NoTrailing(WithoutTrailing(t))
         /\ \A c : Without(t, c) => Without(WithoutTrailing(t), c)
<1>. DEFINE N == Len(t)
            Runs(i, e) == /\ e \in i + 1 .. N + 1 /\ (e = N + 1 \/ t[e] = Nl)
                          /\ \A j \in i .. e - 1 : t[j] = Sp
            trailing(i) == \E e \in i + 1 .. Len(t) + 1 : /\ e = Len(t) + 1 \/ t[e] = Nl
                                                          /\ \A j \in i .. e - 1 : t[j] = Sp
            P == {i \in DOMAIN t : ~ trailing(i)}
            k == WithoutTrailing(t)
<1>0. N \in Nat /\ DOMAIN t = 1 .. N /\ N = Len(t) /\ t \in Seq(Char)
  BY DEF Str
<1>1. \A i : trailing(i) <=> \E e : Runs(i, e)
  BY <1>0
<1>2. P \subseteq DOMAIN t /\ (\A i \in P : i \in 1 .. N /\ ~ trailing(i))
                           /\ (\A i \in 1 .. N : i \notin P => trailing(i))
  BY <1>0
<1>3. k = Keep(t, P)
  BY DEF WithoutTrailing
<1>. HIDE DEF P, k, trailing, N
<1>4. PICK f : Whence(f, t, P, k)
  BY <1>0, <1>2, <1>3, KeepOrder
<1>5. /\ Len(k) \in Nat
      /\ \A n \in 1 .. Len(k) : f[n] \in P /\ f[n] \in 1 .. N /\ k[n] = t[f[n]]
      /\ \A n \in 1 .. Len(k) : n + 1 \in 1 .. Len(k) =>
           f[n] < f[n + 1] /\ \A i \in P : ~ (f[n] < i /\ i < f[n + 1])
      /\ \A n \in 1 .. Len(k) : f[n] + 1 \in P => n + 1 \in 1 .. Len(k) /\ f[n + 1] = f[n] + 1
  BY <1>0, <1>4 DEF Whence, Numbers
<1>6. ASSUME NEW i \in 1 .. N, NEW e, Runs(i, e) PROVE t[i] = Sp
  BY <1>0, <1>6
<1>7. ASSUME NEW i \in P, t[i] = Sp PROVE i < N /\ i + 1 \in P /\ t[i + 1] # Nl
  <2>0. N \in Nat
    BY <1>0
  <2>1. i \in 1 .. N
    BY <1>2
  <2>2. \A e : ~ Runs(i, e)
    BY <1>1, <1>2
  <2>3. i # N
    <3>1. i = N => Runs(i, N + 1)
      BY <1>0, <1>7
    <3>. QED BY <2>2, <3>1
  <2>4. i + 1 \in 1 .. N
    BY <2>0, <2>1, <2>3
  <2>5. t[i + 1] # Nl
    <3>1. ASSUME t[i + 1] = Nl PROVE Runs(i, i + 1)
      <4>1. i + 1 \in i + 1 .. N + 1 /\ \A j \in i .. (i + 1) - 1 : j = i
        BY <2>0, <2>1, <2>4
      <4>. QED BY <1>7, <3>1, <4>1
    <3>. HIDE DEF Runs
    <3>. QED BY <2>2, <3>1
  <2>6. ASSUME NEW e, Runs(i + 1, e) PROVE Runs(i, e)
    <3>1. e \in i + 1 .. N + 1 /\ \A j \in i .. e - 1 : j = i \/ j \in i + 1 .. e - 1
      BY <2>0, <2>1, <2>6
    <3>. QED BY <1>7, <2>6, <3>1
  <2>7. ~ trailing(i + 1)
    <3>. HIDE DEF Runs
    <3>. QED BY <1>1, <2>2, <2>6
  <2>8. i + 1 \in P
    BY <1>2, <2>4, <2>7
  <2>. QED BY <2>0, <2>1, <2>3, <2>5, <2>8
<1>8. NoTrailing(k)
  <2>1. SUFFICES ASSUME NEW n \in 1 .. Len(k), k[n] = Sp PROVE n < Len(k) /\ k[n + 1] # Nl
    BY DEF NoTrailing
  <2>2. f[n] \in P /\ t[f[n]] = Sp
    BY <1>5, <2>1
  <2>3. f[n] < N /\ f[n] + 1 \in P /\ t[f[n] + 1] # Nl
    BY <1>7, <2>2
  <2>4. n + 1 \in 1 .. Len(k) /\ f[n + 1] = f[n] + 1
    BY <1>5, <2>3
  <2>. QED BY <1>5, <2>3, <2>4
<1>9. Composed(k)
  <2>1. SUFFICES ASSUME NEW n \in 1 .. Len(k) - 1, k[n] = "a", k[n + 1] = Mark PROVE FALSE
    BY DEF Composed
  <2>2. n \in 1 .. Len(k) /\ n + 1 \in 1 .. Len(k) /\ n < Len(k)
    BY <1>5
  <2>. DEFINE i == f[n]
              h == f[n + 1]
  <2>3. /\ i \in 1 .. N /\ t[i] = "a" /\ h \in 1 .. N /\ t[h] = Mark /\ i < h
        /\ h \in P
    BY <1>5, <2>1, <2>2
  <2>4. /\ i + 1 \in P => h = i + 1
        /\ \A j \in P : ~ (i < j /\ j < h)
    BY <1>5, <2>2
  <2>. HIDE DEF i, h
  <2>5. t[i + 1] # Mark /\ i + 1 \in 1 .. N
    BY <1>0, <2>3 DEF Composed
  <2>6. i + 1 \notin P
    BY <2>3, <2>4, <2>5
  <2>7. PICK e : Runs(i + 1, e)
    BY <1>1, <1>2, <2>5, <2>6
  <2>8. ~ (h <= e - 1)
    <3>1. h <= e - 1 => t[h] = Sp
      BY <2>3, <2>7
    <3>. QED BY <2>3, <3>1, Apart
  <2>9. e \in 1 .. N /\ t[e] = Nl /\ e <= h /\ i < e
    BY <1>0, <2>3, <2>7, <2>8
  <2>10. e \in P
    <3>1. \A j : ~ Runs(e, j)
      BY <1>6, <2>9, Apart
    <3>. QED BY <1>1, <1>2, <2>9, <3>1
  <2>11. e = h
    BY <2>3, <2>4, <2>9, <2>10
  <2>. QED BY <2>3, <2>9, <2>11, Apart
<1>10. \A c : Without(t, c) => Without(k, c)
  BY <1>2, <1>3, Kept
<1>. QED BY <1>8, <1>9, <1>10 DEF k

\* No three line breaks are left in a row, and what was gone stays gone.
LEMMA BlankRunsPass ==
  ASSUME NEW t \in Str, Composed(t), NoTrailing(t)
  PROVE  /\ Composed(WithoutBlankRuns(t)) /\ NoTrailing(WithoutBlankRuns(t))
         /\ NoRuns(WithoutBlankRuns(t))
         /\ \A c : Without(t, c) => Without(WithoutBlankRuns(t), c)
<1>. DEFINE N == Len(t)
            P == {i \in DOMAIN t : ~ (i > 2 /\ t[i] = Nl /\ t[i - 1] = Nl /\ t[i - 2] = Nl)}
            k == WithoutBlankRuns(t)
<1>0. N \in Nat /\ DOMAIN t = 1 .. N /\ N = Len(t) /\ t \in Seq(Char)
  BY DEF Str
<1>1. \A i : i \in P <=> i \in 1 .. N /\ ~ (i > 2 /\ t[i] = Nl /\ t[i - 1] = Nl /\ t[i - 2] = Nl)
  BY <1>0
<1>2. k = Keep(t, P)
  BY DEF WithoutBlankRuns
<1>. HIDE DEF P, k, N
<1>3. P \subseteq DOMAIN t
  BY <1>0, <1>1
<1>4. PICK f : Whence(f, t, P, k)
  BY <1>0, <1>2, <1>3, KeepOrder
<1>5. /\ Len(k) \in Nat
      /\ \A n \in 1 .. Len(k) : f[n] \in P /\ f[n] \in 1 .. N /\ k[n] = t[f[n]]
      /\ \A n \in 1 .. Len(k) : n + 1 \in 1 .. Len(k) =>
           f[n] < f[n + 1] /\ \A i \in P : ~ (f[n] < i /\ i < f[n + 1])
      /\ \A n \in 1 .. Len(k) : f[n] + 1 \in P => n + 1 \in 1 .. Len(k) /\ f[n + 1] = f[n] + 1
  BY <1>0, <1>4 DEF Whence, Numbers
<1>6. ASSUME NEW n \in 1 .. Len(k), f[n] < N, t[f[n] + 1] # Nl \/ t[f[n]] # Nl
      PROVE  n + 1 \in 1 .. Len(k) /\ f[n + 1] = f[n] + 1
  <2>1. f[n] \in 1 .. N /\ f[n] + 1 \in 1 .. N /\ (f[n] + 1) - 1 = f[n]
    BY <1>0, <1>5, <1>6
  <2>2. f[n] + 1 \in P
    BY <1>1, <1>6, <2>1
  <2>. QED BY <1>5, <2>2
<1>7. Composed(k)
  <2>1. SUFFICES ASSUME NEW n \in 1 .. Len(k) - 1, k[n] = "a", k[n + 1] = Mark PROVE FALSE
    BY DEF Composed
  <2>2. n \in 1 .. Len(k) /\ n + 1 \in 1 .. Len(k) /\ n < Len(k)
    BY <1>5
  <2>3. /\ f[n] \in 1 .. N /\ t[f[n]] = "a"
        /\ f[n + 1] \in 1 .. N /\ t[f[n + 1]] = Mark /\ f[n] < f[n + 1]
    BY <1>5, <2>1, <2>2
  <2>4. f[n + 1] = f[n] + 1
    <3>1. f[n] < N /\ t[f[n]] # Nl
      BY <1>0, <2>3, Apart
    <3>. QED BY <1>6, <2>2, <3>1
  <2>5. f[n] \in 1 .. Len(t) - 1
    BY <1>0, <2>3
  <2>. QED BY <2>3, <2>4, <2>5 DEF Composed
<1>8. NoTrailing(k)
  <2>1. SUFFICES ASSUME NEW n \in 1 .. Len(k), k[n] = Sp PROVE n < Len(k) /\ k[n + 1] # Nl
    BY DEF NoTrailing
  <2>2. f[n] \in 1 .. N /\ t[f[n]] = Sp
    BY <1>5, <2>1
  <2>3. f[n] < N /\ t[f[n] + 1] # Nl
    BY <1>0, <2>2 DEF NoTrailing
  <2>4. n + 1 \in 1 .. Len(k) /\ f[n + 1] = f[n] + 1
    BY <1>6, <2>3
  <2>. QED BY <1>5, <2>3, <2>4
<1>9. NoRuns(k)
  <2>1. SUFFICES ASSUME NEW n \in 3 .. Len(k), k[n] = Nl, k[n - 1] = Nl, k[n - 2] = Nl PROVE FALSE
    BY DEF NoRuns
  <2>2. /\ n \in 1 .. Len(k) /\ n - 1 \in 1 .. Len(k) /\ n - 2 \in 1 .. Len(k)
        /\ (n - 1) + 1 = n /\ (n - 2) + 1 = n - 1
    BY <1>5
  <2>. DEFINE h == f[n]
              j == f[n - 1]
              i == f[n - 2]
  <2>3. /\ h \in 1 .. N /\ j \in 1 .. N /\ i \in 1 .. N /\ h \in P /\ j \in P /\ i \in P
        /\ t[h] = Nl /\ t[j] = Nl /\ t[i] = Nl
    BY <1>5, <2>1, <2>2
  <2>4. j < h /\ \A x \in P : ~ (j < x /\ x < h)
    BY <1>5, <2>2
  <2>5. i < j /\ \A x \in P : ~ (i < x /\ x < j)
    BY <1>5, <2>2
  <2>. HIDE DEF h, i, j
  <2>6. h > 2 /\ h - 1 \in 1 .. N /\ h - 2 \in 1 .. N
    BY <1>0, <2>3, <2>4, <2>5
  <2>7. h - 1 \in P
    <3>1. h - 1 \notin P => t[h - 1] = Nl /\ t[(h - 1) - 1] = Nl
      BY <1>1, <2>6
    <3>2. (h - 1) - 1 = h - 2
      BY <2>3
    <3>. QED BY <1>1, <2>3, <2>6, <3>1, <3>2
  <2>8. j = h - 1
    BY <2>3, <2>4, <2>6, <2>7
  <2>9. h - 2 \in P
    <3>1. h - 2 \notin P => t[h - 2] = Nl
      BY <1>1, <2>6
    <3>. QED BY <1>1, <2>3, <2>6, <2>8, <3>1
  <2>10. i = h - 2
    BY <2>3, <2>5, <2>6, <2>8, <2>9
  <2>. QED BY <1>1, <2>3, <2>6, <2>8, <2>10
<1>10. \A c : Without(t, c) => Without(k, c)
  BY <1>2, <1>3, Kept
<1>. QED BY <1>7, <1>8, <1>9, <1>10 DEF k

\* Nothing blank is left at the ends, and what was gone stays gone.
LEMMA StripPass ==
  ASSUME NEW t \in Str, Composed(t), NoTrailing(t), NoRuns(t)
  PROVE  /\ Composed(Strip(t)) /\ NoTrailing(Strip(t)) /\ NoRuns(Strip(t)) /\ Trimmed(Strip(t))
         /\ \A c : Without(t, c) => Without(Strip(t), c)
<1>. DEFINE N == Len(t)
            P == {i \in DOMAIN t : /\ \E j \in 1 .. i : t[j] \notin Blank
                                   /\ \E j \in i .. Len(t) : t[j] \notin Blank}
            k == Strip(t)
<1>0. N \in Nat /\ DOMAIN t = 1 .. N /\ N = Len(t) /\ t \in Seq(Char)
  BY DEF Str
<1>1. \A i : i \in P <=> /\ i \in 1 .. N
                         /\ \E j \in 1 .. i : t[j] \notin Blank
                         /\ \E j \in i .. N : t[j] \notin Blank
  BY <1>0
<1>2. k = Keep(t, P)
  BY DEF Strip
<1>. HIDE DEF P, k, N
<1>3. P \subseteq DOMAIN t
  BY <1>0, <1>1
<1>4. PICK f : Whence(f, t, P, k)
  BY <1>0, <1>2, <1>3, KeepOrder
<1>5. /\ Len(k) \in Nat
      /\ \A n \in 1 .. Len(k) : f[n] \in P /\ f[n] \in 1 .. N /\ k[n] = t[f[n]]
      /\ \A n \in 1 .. Len(k) : n + 1 \in 1 .. Len(k) =>
           f[n] < f[n + 1] /\ \A i \in P : ~ (f[n] < i /\ i < f[n + 1])
      /\ \A n \in 1 .. Len(k) : f[n] + 1 \in P => n + 1 \in 1 .. Len(k) /\ f[n + 1] = f[n] + 1
  BY <1>0, <1>4 DEF Whence, Numbers
<1>6. ASSUME NEW n \in 1 .. Len(k), n < Len(k) PROVE f[n + 1] = f[n] + 1 /\ n + 1 \in 1 .. Len(k)
  <2>1. n + 1 \in 1 .. Len(k)
    BY <1>5, <1>6
  <2>2. f[n] < f[n + 1] /\ f[n] \in P /\ f[n + 1] \in P /\ f[n] \in 1 .. N /\ f[n + 1] \in 1 .. N
    BY <1>5, <2>1
  <2>3. f[n] + 1 \in P
    <3>1. f[n] + 1 \in 1 .. N
      BY <1>0, <2>2
    <3>2. \E j \in 1 .. f[n] + 1 : t[j] \notin Blank
      BY <1>1, <2>2
    <3>3. \E j \in f[n] + 1 .. N : t[j] \notin Blank
      BY <1>1, <2>2
    <3>. QED BY <1>1, <3>1, <3>2, <3>3
  <2>. QED BY <1>5, <2>1, <2>3
<1>7. Trimmed(k)
  <2>1. SUFFICES ASSUME Len(k) # 0 PROVE k[1] \notin Blank /\ k[Len(k)] \notin Blank
    BY DEF Trimmed
  <2>2. 1 \in 1 .. Len(k) /\ Len(k) \in 1 .. Len(k)
    BY <1>5, <2>1
  <2>3. k[1] \notin Blank
    <3>1. PICK j \in 1 .. f[1] : t[j] \notin Blank
      BY <1>1, <1>5, <2>2
    <3>2. j \in 1 .. N /\ j <= f[1] /\ f[1] \in 1 .. N
      BY <1>0, <1>5, <2>2
    <3>3. j \in P
      BY <1>0, <1>1, <3>1, <3>2
    <3>4. f[1] <= j
      BY <1>4, <3>3 DEF Whence, Numbers
    <3>5. f[1] = j
      BY <3>2, <3>4
    <3>. QED BY <1>5, <2>2, <3>1, <3>5
  <2>4. k[Len(k)] \notin Blank
    <3>1. PICK j \in f[Len(k)] .. N : t[j] \notin Blank
      BY <1>1, <1>5, <2>2
    <3>2. j \in 1 .. N /\ f[Len(k)] <= j /\ f[Len(k)] \in 1 .. N
      BY <1>0, <1>5, <2>2
    <3>3. j \in P
      BY <1>0, <1>1, <3>1, <3>2
    <3>a. Len(k) + 1 \notin 1 .. Len(k)
      BY <1>5
    <3>4. j <= f[Len(k)]
      BY <1>4, <2>2, <3>3, <3>a DEF Whence, Numbers
    <3>5. f[Len(k)] = j
      BY <3>2, <3>4
    <3>. QED BY <1>5, <2>2, <3>1, <3>5
  <2>. QED BY <2>3, <2>4
<1>8. Composed(k)
  <2>1. SUFFICES ASSUME NEW n \in 1 .. Len(k) - 1, k[n] = "a" PROVE k[n + 1] # Mark
    BY DEF Composed
  <2>2. n \in 1 .. Len(k) /\ n < Len(k)
    BY <1>5
  <2>3. f[n + 1] = f[n] + 1 /\ n + 1 \in 1 .. Len(k)
    BY <1>6, <2>2
  <2>4. f[n] \in 1 .. N - 1 /\ t[f[n]] = "a" /\ k[n + 1] = t[f[n] + 1]
    BY <1>0, <1>5, <2>1, <2>2, <2>3
  <2>. QED BY <1>0, <2>4 DEF Composed
<1>9. NoTrailing(k)
  <2>1. SUFFICES ASSUME NEW n \in 1 .. Len(k), k[n] = Sp PROVE n < Len(k) /\ k[n + 1] # Nl
    BY DEF NoTrailing
  <2>2. n < Len(k)
    <3>1. n # Len(k)
      BY <1>5, <1>7, <2>1 DEF Trimmed, Blank
    <3>. QED BY <1>5, <3>1
  <2>3. f[n + 1] = f[n] + 1 /\ n + 1 \in 1 .. Len(k)
    BY <1>6, <2>2
  <2>4. f[n] \in 1 .. N /\ t[f[n]] = Sp /\ k[n + 1] = t[f[n] + 1]
    BY <1>5, <2>1, <2>3
  <2>. QED BY <1>0, <2>2, <2>4 DEF NoTrailing
<1>10. NoRuns(k)
  <2>1. SUFFICES ASSUME NEW n \in 3 .. Len(k), k[n] = Nl, k[n - 1] = Nl, k[n - 2] = Nl PROVE FALSE
    BY DEF NoRuns
  <2>2. /\ n \in 1 .. Len(k) /\ n - 1 \in 1 .. Len(k) /\ n - 2 \in 1 .. Len(k)
        /\ (n - 1) + 1 = n /\ (n - 2) + 1 = n - 1
    BY <1>5
  <2>3. f[n] = f[n - 1] + 1 /\ f[n - 1] = f[n - 2] + 1
    BY <1>6, <2>2
  <2>a. f[n] \in 1 .. N /\ f[n - 1] \in 1 .. N /\ f[n - 2] \in 1 .. N /\ N \in Nat
    BY <1>0, <1>5, <2>2
  <2>4. f[n] \in 3 .. N /\ f[n - 1] = f[n] - 1 /\ f[n - 2] = f[n] - 2
    BY <2>3, <2>a
  <2>5. t[f[n]] = Nl /\ t[f[n] - 1] = Nl /\ t[f[n] - 2] = Nl
    BY <1>5, <2>1, <2>2, <2>4
  <2>. QED BY <1>0, <2>4, <2>5 DEF NoRuns
<1>11. \A c : Without(t, c) => Without(k, c)
  BY <1>2, <1>3, Kept
<1>. QED BY <1>7, <1>8, <1>9, <1>10, <1>11 DEF k

\* Without carriage returns the line ends are what they should be.
LEMMA LineEndsFixed ==
  ASSUME NEW t \in Str, Without(t, Cr)
  PROVE  LineEnds(t) = t
<1>. DEFINE P == {i \in DOMAIN t : ~ (t[i] = Nl /\ i > 1 /\ t[i - 1] = Cr)}
            u == [i \in DOMAIN t |-> IF t[i] = Cr THEN Nl ELSE t[i]]
<1>0. /\ Len(t) \in Nat /\ DOMAIN t = 1 .. Len(t) /\ t \in Seq(Char)
      /\ t = [i \in 1 .. Len(t) |-> t[i]]
  BY DEF Str
<1>1. \A i \in 1 .. Len(t) : t[i] # Cr
  BY DEF Without
<1>2. u = t
  BY <1>0, <1>1
<1>3. \A i \in 1 .. Len(t) : i > 1 => i - 1 \in 1 .. Len(t)
  BY <1>0
<1>4. P = DOMAIN t
  BY <1>0, <1>1, <1>3
<1>5. LineEnds(t) = Keep(u, P)
  BY DEF LineEnds
<1>. QED BY <1>0, <1>2, <1>4, <1>5, KeepAll

\* A text without an accent to compose is composed.
LEMMA NfcFixed ==
  ASSUME NEW t \in Str, Composed(t)
  PROVE  Nfc(t) = t
<1>. DEFINE N == Len(t)
            P == {i \in DOMAIN t : ~ (t[i] = Mark /\ i > 1 /\ t[i - 1] = "a")}
            u == [i \in DOMAIN t |-> IF i < Len(t) /\ t[i] = "a" /\ t[i + 1] = Mark THEN Accented ELSE t[i]]
<1>0. N \in Nat /\ DOMAIN t = 1 .. N /\ N = Len(t) /\ t \in Seq(Char) /\ t = [i \in 1 .. N |-> t[i]]
  BY DEF Str
<1>1. ASSUME NEW i \in 1 .. N, i < N, t[i] = "a" PROVE t[i + 1] # Mark
  <2>1. i \in 1 .. Len(t) - 1
    BY <1>0, <1>1
  <2>. QED BY <1>1, <2>1 DEF Composed
<1>2. u = t
  BY <1>0, <1>1
<1>3. ASSUME NEW i \in 1 .. N, i > 1, t[i - 1] = "a" PROVE t[i] # Mark
  <2>1. i - 1 \in 1 .. N /\ i - 1 < N /\ (i - 1) + 1 = i
    BY <1>0, <1>3
  <2>. QED BY <1>1, <1>3, <2>1
<1>4. P = DOMAIN t
  BY <1>0, <1>3
<1>5. Nfc(t) = Keep(u, P)
  BY DEF Nfc
<1>. QED BY <1>0, <1>2, <1>4, <1>5, KeepAll

\* A text in which there is nothing to remove stays as it is.
LEMMA FixedPoint ==
  ASSUME NEW t \in Str, Composed(t), Without(t, Cr), Without(t, Inv), NoTrailing(t), NoRuns(t),
         Trimmed(t)
  PROVE  Normalize(t) = t
<1>. DEFINE N == Len(t)
<1>0. N \in Nat /\ DOMAIN t = 1 .. N /\ N = Len(t) /\ t \in Seq(Char) /\ t = [i \in 1 .. N |-> t[i]]
  BY DEF Str
<1>1. Keep(t, DOMAIN t) = t
  BY <1>0, KeepAll
<1>2. Nfc(t) = t
  BY NfcFixed
<1>3. LineEnds(t) = t
  BY LineEndsFixed
<1>4. Visible(t) = t
  BY <1>0 DEF Visible, Without
<1>5. WithoutTrailing(t) = t
  <2>. DEFINE trailing(i) == \E e \in i + 1 .. Len(t) + 1 : /\ e = Len(t) + 1 \/ t[e] = Nl
                                                            /\ \A j \in i .. e - 1 : t[j] = Sp
  <2>1. ASSUME NEW i \in 1 .. N, trailing(i) PROVE FALSE
    <3>1. PICK e \in i + 1 .. Len(t) + 1 : /\ e = Len(t) + 1 \/ t[e] = Nl
                                           /\ \A j \in i .. e - 1 : t[j] = Sp
      BY <2>1
    <3>2. e - 1 \in i .. e - 1 /\ e - 1 \in 1 .. Len(t) /\ (e - 1) + 1 = e
      BY <1>0, <3>1
    <3>3. t[e - 1] = Sp
      BY <3>1, <3>2
    <3>4. e - 1 < Len(t) /\ t[(e - 1) + 1] # Nl
      BY <3>2, <3>3 DEF NoTrailing
    <3>. QED BY <1>0, <3>1, <3>2, <3>4
  <2>2. {i \in DOMAIN t : ~ trailing(i)} = DOMAIN t
    <3>. HIDE DEF trailing
    <3>. QED BY <1>0, <2>1
  <2>3. WithoutTrailing(t) = Keep(t, {i \in DOMAIN t : ~ trailing(i)})
    BY DEF WithoutTrailing
  <2>. HIDE DEF trailing
  <2>. QED BY <1>1, <2>2, <2>3
<1>6. WithoutBlankRuns(t) = t
  <2>1. {i \in DOMAIN t : ~ (i > 2 /\ t[i] = Nl /\ t[i - 1] = Nl /\ t[i - 2] = Nl)} = DOMAIN t
    BY <1>0 DEF NoRuns
  <2>. QED BY <1>1, <2>1 DEF WithoutBlankRuns
<1>7. Strip(t) = t
  <2>. DEFINE P == {i \in DOMAIN t : /\ \E j \in 1 .. i : t[j] \notin Blank
                                     /\ \E j \in i .. Len(t) : t[j] \notin Blank}
  <2>1. ASSUME NEW i \in 1 .. N PROVE i \in P
    <3>1. 1 \in 1 .. i /\ Len(t) \in i .. Len(t) /\ Len(t) # 0
      BY <1>0
    <3>2. t[1] \notin Blank /\ t[Len(t)] \notin Blank
      BY <3>1 DEF Trimmed
    <3>. QED BY <1>0, <3>1, <3>2
  <2>2. P = DOMAIN t
    <3>1. P \subseteq DOMAIN t
      OBVIOUS
    <3>. HIDE DEF P
    <3>. QED BY <1>0, <2>1, <3>1
  <2>3. Strip(t) = Keep(t, P)
    BY DEF Strip
  <2>. HIDE DEF P
  <2>. QED BY <1>1, <2>2, <2>3
<1>. QED BY <1>2, <1>3, <1>4, <1>5, <1>6, <1>7 DEF Normalize, Tidied

\* What a normalized text looks like.
Settled(t) ==
  /\ t \in Str /\ Composed(t) /\ NoTrailing(t) /\ NoRuns(t) /\ Trimmed(t)
  /\ Without(t, Cr) /\ Without(t, Inv)

\* A normalized text looks like that.
LEMMA NormalizedIs ==
  ASSUME NEW t \in Str
  PROVE  Settled(Normalize(t))
<1>. DEFINE t1 == Nfc(t)
            t2 == LineEnds(t1)
            t3 == Visible(t2)
            t4 == WithoutTrailing(t3)
            t5 == WithoutBlankRuns(t4)
            t6 == Strip(t5)
<1>0. Normalize(t) = t6
  BY DEF Normalize, Tidied
<1>1. t1 \in Str /\ Composed(t1)
  BY PassesAreTexts, NfcPass
<1>. HIDE DEF t1
<1>2. t2 \in Str /\ Composed(t2) /\ Without(t2, Cr)
  BY <1>1, PassesAreTexts, LineEndsPass
<1>. HIDE DEF t2
<1>3. t3 \in Str /\ Composed(t3) /\ Without(t3, Cr) /\ Without(t3, Inv)
  BY <1>2, PassesAreTexts, VisiblePass
<1>. HIDE DEF t3
<1>4. t4 \in Str /\ Composed(t4) /\ NoTrailing(t4) /\ Without(t4, Cr) /\ Without(t4, Inv)
  BY <1>3, PassesAreTexts, TrailingPass
<1>. HIDE DEF t4
<1>5. /\ t5 \in Str /\ Composed(t5) /\ NoTrailing(t5) /\ NoRuns(t5)
      /\ Without(t5, Cr) /\ Without(t5, Inv)
  BY <1>4, PassesAreTexts, BlankRunsPass
<1>. HIDE DEF t5
<1>6. /\ t6 \in Str /\ Composed(t6) /\ NoTrailing(t6) /\ NoRuns(t6) /\ Trimmed(t6)
      /\ Without(t6, Cr) /\ Without(t6, Inv)
  BY <1>5, PassesAreTexts, StripPass
<1>. HIDE DEF t6
<1>. QED BY <1>0, <1>6 DEF Settled

\* Normalizing twice is normalizing once.
LEMMA Idempotent ==
  ASSUME NEW t \in Str
  PROVE  Normalize(Normalize(t)) = Normalize(t)
<1>. DEFINE u == Normalize(t)
<1>1. Settled(u)
  BY NormalizedIs
<1>. HIDE DEF u
<1>2. Normalize(u) = u
  BY <1>1, FixedPoint DEF Settled
<1>. QED BY <1>2 DEF u

-----------------------------------------------------------------------------
(* Line ends.                                                              *)

\* g lists P in its order.
Lists(g, C, P) ==
  /\ g = [n \in 1 .. C |-> g[n]]
  /\ \A n \in 1 .. C : g[n] \in P
  /\ \A m, n \in 1 .. C : m < n => g[m] < g[n]
  /\ \A i \in P : \E n \in 1 .. C : g[n] = i

\* Whoever lists P in its order numbers it like Nth.
LEMMA OneNumbering ==
  ASSUME NEW N \in Nat, NEW C \in Nat, NEW P \in SUBSET (1 .. N), NEW g, Lists(g, C, P)
  PROVE  C = Cardinality(P) /\ \A n \in 1 .. C : Nth(P, n) = g[n]
<1>. USE DEF Lists
<1>0. /\ IsFiniteSet(P) /\ Cardinality(P) \in Nat
      /\ \A n \in 1 .. C : g[n] \in 1 .. N
      /\ \A m, n \in 1 .. C : g[m] = g[n] => m = n
  <2>1. IsFiniteSet(1 .. N)
    BY FS_Interval
  <2>2. IsFiniteSet(P)
    BY <2>1, FS_Subset
  <2>3. \A n \in 1 .. C : g[n] \in 1 .. N
    OBVIOUS
  <2>4. \A m, n \in 1 .. C : g[m] = g[n] => m = n
    <3>1. SUFFICES ASSUME NEW m \in 1 .. C, NEW n \in 1 .. C, g[m] = g[n], m # n PROVE FALSE
      OBVIOUS
    <3>2. m < n \/ n < m
      BY <3>1
    <3>. QED BY <2>3, <3>1, <3>2
  <2>. QED BY <2>2, <2>3, <2>4, FS_CardinalityType
<1>1. C = Cardinality(P)
  <2>1. g \in Bijection(1 .. C, P)
    BY <1>0 DEF Bijection, Injection, Surjection, IsInjective
  <2>2. IsFiniteSet(1 .. C) /\ Cardinality(1 .. C) = C
    BY FS_Interval
  <2>. QED BY <2>1, <2>2, FS_Bijection DEF ExistsBijection
<1>2. ASSUME NEW n \in 1 .. C PROVE Cardinality({j \in P : j < g[n]}) = n - 1
  <2>. DEFINE B == {j \in P : j < g[n]}
              h == [m \in 1 .. n - 1 |-> g[m]]
  <2>1. \A m \in 1 .. n - 1 : m \in 1 .. C /\ h[m] = g[m] /\ g[m] \in B
    OBVIOUS
  <2>2. ASSUME NEW j \in B PROVE \E m \in 1 .. n - 1 : h[m] = j
    <3>1. PICK m \in 1 .. C : g[m] = j
      OBVIOUS
    <3>2. ~ (n < m) /\ m # n
      BY <1>0, <3>1
    <3>3. m \in 1 .. n - 1
      BY <3>2
    <3>. QED BY <3>1, <3>3
  <2>3. h = [m \in 1 .. n - 1 |-> h[m]]
    OBVIOUS
  <2>. HIDE DEF B, h
  <2>4. h \in Bijection(1 .. n - 1, B)
    <3>1. h \in [1 .. n - 1 -> B]
      BY <2>1, <2>3
    <3>2. \A m, o \in 1 .. n - 1 : h[m] = h[o] => m = o
      BY <1>0, <2>1
    <3>. QED BY <2>2, <3>1, <3>2 DEF Bijection, Injection, Surjection, IsInjective
  <2>5. IsFiniteSet(1 .. n - 1) /\ Cardinality(1 .. n - 1) = n - 1
    <3>1. n - 1 \in Int /\ 1 \in Int /\ (IF 1 > n - 1 THEN 0 ELSE (n - 1) - 1 + 1) = n - 1
      OBVIOUS
    <3>. QED BY <3>1, FS_Interval
  <2>6. Cardinality(B) = Cardinality(1 .. n - 1)
    BY <2>4, <2>5, FS_Bijection DEF ExistsBijection
  <2>. QED BY <2>5, <2>6 DEF B
<1>3. ASSUME NEW n \in 1 .. C PROVE Nth(P, n) = g[n]
  <2>1. n \in 1 .. Cardinality(P)
    BY <1>1
  <2>. DEFINE i == Nth(P, n)
  <2>2. i \in P /\ Cardinality({j \in P : j < i}) = n - 1
    BY <2>1, NthIs
  <2>. HIDE DEF i
  <2>3. PICK m \in 1 .. C : g[m] = i
    BY <2>2
  <2>4. Cardinality({j \in P : j < i}) = m - 1
    BY <1>2, <2>3
  <2>5. m = n
    BY <2>2, <2>4
  <2>. QED BY <2>3, <2>5 DEF i
<1>. QED BY <1>1, <1>3

\* The places h names for the members of Q.
At(h, Q) == {h[k] : k \in Q}

\* u is what stands in t at the M places h names in their order.
Along(u, t, h, M, N) ==
  /\ M \in Nat /\ N \in Nat
  /\ u = [k \in 1 .. M |-> t[h[k]]]
  /\ \A k \in 1 .. M : h[k] \in 1 .. N
  /\ \A k, l \in 1 .. M : k < l => h[k] < h[l]

\* Keeping of what was taken in order is keeping of what it was taken from.
LEMMA KeepAlong ==
  ASSUME NEW N, NEW t, NEW M, NEW u, NEW h, Along(u, t, h, M, N), NEW Q \in SUBSET (1 .. M)
  PROVE  Keep(u, Q) = Keep(t, At(h, Q))
<1>. USE DEF Along
<1>. DEFINE R == {h[k] : k \in Q}
            C == Cardinality(Q)
            g == [n \in 1 .. C |-> h[Nth(Q, n)]]
<1>1. /\ C \in Nat
      /\ \A n \in 1 .. C : Nth(Q, n) \in Q
      /\ \A m, n \in 1 .. C : m < n => Nth(Q, m) < Nth(Q, n)
      /\ \A i \in Q : \E n \in 1 .. C : Nth(Q, n) = i
  BY NthOrder
<1>2. R \subseteq 1 .. N
  OBVIOUS
<1>3. g = [n \in 1 .. C |-> g[n]] /\ \A n \in 1 .. C : g[n] = h[Nth(Q, n)]
  OBVIOUS
<1>4. \A n \in 1 .. C : g[n] \in R
  BY <1>1, <1>3
<1>5. \A m, n \in 1 .. C : m < n => g[m] < g[n]
  <2>1. SUFFICES ASSUME NEW m \in 1 .. C, NEW n \in 1 .. C, m < n PROVE g[m] < g[n]
    OBVIOUS
  <2>2. Nth(Q, m) < Nth(Q, n) /\ Nth(Q, m) \in 1 .. M /\ Nth(Q, n) \in 1 .. M
    BY <1>1, <2>1
  <2>. HIDE DEF g, C
  <2>. QED BY <1>3, <2>2
<1>6. \A i \in R : \E n \in 1 .. C : g[n] = i
  <2>1. SUFFICES ASSUME NEW k \in Q PROVE \E n \in 1 .. C : g[n] = h[k]
    OBVIOUS
  <2>2. PICK n \in 1 .. C : Nth(Q, n) = k
    BY <1>1
  <2>. QED BY <1>3, <2>2
<1>. HIDE DEF R, C, g
<1>7. C = Cardinality(R) /\ \A n \in 1 .. C : Nth(R, n) = g[n]
  <2>1. C \in Nat
    BY <1>1
  <2>2. Lists(g, C, R)
    BY <1>3, <1>4, <1>5, <1>6 DEF Lists
  <2>3. N \in Nat /\ R \in SUBSET (1 .. N)
    BY <1>2
  <2>. HIDE DEF Along
  <2>. QED BY <2>1, <2>2, <2>3, OneNumbering
<1>8. \A n \in 1 .. C : u[Nth(Q, n)] = t[Nth(R, n)]
  BY <1>1, <1>3, <1>7
<1>9. Keep(u, Q) = [n \in 1 .. C |-> u[Nth(Q, n)]]
  BY DEF Keep, C
<1>10. Keep(t, R) = [n \in 1 .. C |-> t[Nth(R, n)]]
  BY <1>7 DEF Keep
<1>. QED BY <1>8, <1>9, <1>10 DEF R, At

\* A text as it is saved with the other line ends.
Saved(r) == FlattenSeq([i \in DOMAIN r |-> IF r[i] = Nl THEN <<Cr, Nl>> ELSE <<r[i]>>])

\* h tells where each character of r begins in f.
Places(h, r, f) ==
  /\ \A i \in 1 .. Len(r) : h[i] \in 1 .. Len(f) /\ f[h[i]] = IF r[i] = Nl THEN Cr ELSE r[i]
  /\ \A i \in 1 .. Len(r) : r[i] = Nl => h[i] + 1 \in 1 .. Len(f) /\ f[h[i] + 1] = Nl
  /\ \A p \in 1 .. Len(f) : \E i \in 1 .. Len(r) : h[i] = p \/ (r[i] = Nl /\ h[i] + 1 = p)
  /\ \A i \in 1 .. Len(r) - 1 : h[i + 1] = h[i] + (IF r[i] = Nl THEN 2 ELSE 1)
  /\ \A i, j \in 1 .. Len(r) : i < j => h[i] < h[j]

\* What stands where in one sequence after another.
Following(a, b) ==
  /\ Len(a \o b) = Len(a) + Len(b)
  /\ \A p \in 1 .. Len(a) : (a \o b)[p] = a[p]
  /\ \A j \in 1 .. Len(b) : (a \o b)[Len(a) + j] = b[j]

\* The second sequence begins where the first has ended.
LEMMA InARow ==
  ASSUME NEW S, NEW a \in Seq(S), NEW b \in Seq(S)
  PROVE  Following(a, b)
<1>1. ASSUME NEW j \in 1 .. Len(b) PROVE (a \o b)[Len(a) + j] = b[j]
  <2>1. Len(a) \in Nat /\ Len(b) \in Nat
    OBVIOUS
  <2>. DEFINE p == Len(a) + j
  <2>2. p \in 1 .. Len(a) + Len(b) /\ ~ (p <= Len(a)) /\ p - Len(a) = j
    BY <2>1
  <2>3. (a \o b)[p] = b[p - Len(a)]
    <3>. HIDE DEF p
    <3>. QED BY <2>1, <2>2
  <2>. QED BY <2>2, <2>3
<1>. QED BY <1>1 DEF Following

\* Every character of a text has its place in what is saved.
LEMMA PlacesAre ==
  ASSUME NEW r \in Str
  PROVE  Saved(r) \in Str /\ \E h : Places(h, r, Saved(r))
<1>. DEFINE N == Len(r)
            ss == [i \in DOMAIN r |-> IF r[i] = Nl THEN <<Cr, Nl>> ELSE <<r[i]>>]
<1>0. N \in Nat /\ DOMAIN r = 1 .. N /\ N = Len(r) /\ \A i \in 1 .. N : r[i] \in Char
  BY DEF Str
<1>1. \A i \in 1 .. N : ss[i] \in Seq(Char) /\ ss[i] = IF r[i] = Nl THEN <<Cr, Nl>> ELSE <<r[i]>>
  <2>1. SUFFICES ASSUME NEW i \in 1 .. N
                 PROVE  ss[i] \in Seq(Char) /\ ss[i] = IF r[i] = Nl THEN <<Cr, Nl>> ELSE <<r[i]>>
    OBVIOUS
  <2>2. ss[i] = IF r[i] = Nl THEN <<Cr, Nl>> ELSE <<r[i]>>
    BY <1>0
  <2>3. r[i] \in Char /\ Cr \in Char /\ Nl \in Char
    BY <1>0 DEF Char
  <2>4. <<Cr, Nl>> \in Seq(Char) /\ <<r[i]>> \in Seq(Char)
    BY <2>3
  <2>. HIDE DEF ss
  <2>. QED BY <2>2, <2>4
<1>2. ss \in Seq(Seq(Char)) /\ Len(ss) = N
  <2>1. ss = [i \in 1 .. N |-> ss[i]]
    BY <1>0
  <2>. HIDE DEF ss, N
  <2>. QED BY <1>0, <1>1, <2>1, SequenceOf
<1>3. Saved(r) = FlattenSeq(ss)
  BY DEF Saved
<1>. HIDE DEF ss, N
<1>4. Saved(r) \in Str
  BY <1>2, <1>3, FlattenIs DEF Str
<1>5. CASE N = 0
  <2>1. ss = <<>>
    BY <1>2, <1>5
  <2>2. Saved(r) = <<>>
    BY <1>2, <1>3, <2>1, FlattenIs
  <2>3. Len(Saved(r)) = 0 /\ Len(r) = 0
    BY <1>0, <1>5, <2>2
  <2>4. Places(<<>>, r, Saved(r))
    BY <2>3 DEF Places
  <2>. QED BY <1>4, <2>4
<1>6. CASE N # 0
  <2>1. ss # <<>>
    BY <1>2, <1>6
  <2>2. PICK c : Builds(c, Char, ss) /\ Saved(r) = c[N]
    BY <1>2, <1>3, <2>1, FlattenIs
  <2>3. \A k \in 1 .. N : c[k] \in Seq(Char) /\ c[k] = IF k = 1 THEN ss[k] ELSE c[k - 1] \o ss[k]
    BY <1>2, <2>2 DEF Builds
  <2>. DEFINE h == [i \in 1 .. N |-> IF i = 1 THEN 1 ELSE Len(c[i - 1]) + 1]
              wide(i) == IF r[i] = Nl THEN 2 ELSE 1
              Placed(k) ==
                /\ \A i \in 1 .. k : h[i] \in 1 .. Len(c[k]) /\ c[k][h[i]] = IF r[i] = Nl THEN Cr ELSE r[i]
                /\ \A i \in 1 .. k : r[i] = Nl => h[i] + 1 \in 1 .. Len(c[k]) /\ c[k][h[i] + 1] = Nl
                /\ \A p \in 1 .. Len(c[k]) : \E i \in 1 .. k : h[i] = p \/ (r[i] = Nl /\ h[i] + 1 = p)
              Good == {k \in 1 .. N : Placed(k)}
  <2>4. \A i \in 1 .. N : h[i] = IF i = 1 THEN 1 ELSE Len(c[i - 1]) + 1
    OBVIOUS
  <2>. HIDE DEF h
  <2>5. /\ \A k \in 1 .. N : Len(c[k]) \in Nat
        /\ \A k \in 1 .. N : /\ Len(ss[k]) = wide(k)
                             /\ ss[k][1] = IF r[k] = Nl THEN Cr ELSE r[k]
                             /\ r[k] = Nl => ss[k][2] = Nl
    <3>1. \A k \in 1 .. N : Len(c[k]) \in Nat
      BY <2>3
    <3>2. ASSUME NEW k \in 1 .. N
          PROVE  /\ Len(ss[k]) = wide(k)
                 /\ ss[k][1] = IF r[k] = Nl THEN Cr ELSE r[k]
                 /\ r[k] = Nl => ss[k][2] = Nl
      <4>1. ss[k] = IF r[k] = Nl THEN <<Cr, Nl>> ELSE <<r[k]>>
        BY <1>1
      <4>2. CASE r[k] = Nl
        <5>1. ss[k] = <<Cr, Nl>>
          BY <4>1, <4>2
        <5>. QED BY <4>2, <5>1
      <4>3. CASE r[k] # Nl
        <5>1. ss[k] = <<r[k]>>
          BY <4>1, <4>3
        <5>. QED BY <4>3, <5>1
      <4>. QED BY <4>2, <4>3
    <3>. QED BY <3>1, <3>2
  <2>6. \A k \in 2 .. N : /\ Len(c[k]) = Len(c[k - 1]) + wide(k)
                          /\ \A p \in 1 .. Len(c[k - 1]) : c[k][p] = c[k - 1][p]
                          /\ \A j \in 1 .. wide(k) : c[k][Len(c[k - 1]) + j] = ss[k][j]
    <3>1. SUFFICES ASSUME NEW k \in 2 .. N
                   PROVE  /\ Len(c[k]) = Len(c[k - 1]) + wide(k)
                          /\ \A p \in 1 .. Len(c[k - 1]) : c[k][p] = c[k - 1][p]
                          /\ \A j \in 1 .. wide(k) : c[k][Len(c[k - 1]) + j] = ss[k][j]
      OBVIOUS
    <3>2. k \in 1 .. N /\ k - 1 \in 1 .. N /\ k # 1
      BY <1>0
    <3>3. /\ c[k] = c[k - 1] \o ss[k] /\ c[k - 1] \in Seq(Char) /\ ss[k] \in Seq(Char)
          /\ Len(ss[k]) = wide(k)
      BY <1>1, <2>3, <2>5, <3>2
    <3>. HIDE DEF wide
    <3>4. Following(c[k - 1], ss[k])
      BY <3>3, InARow
    <3>. QED BY <3>3, <3>4 DEF Following
  <2>7. Placed(1)
    <3>1. 1 \in 1 .. N /\ c[1] = ss[1] /\ h[1] = 1
      BY <1>0, <1>6, <2>3, <2>4
    <3>2. Len(c[1]) = wide(1) /\ c[1][1] = (IF r[1] = Nl THEN Cr ELSE r[1]) /\ (r[1] = Nl => c[1][2] = Nl)
      BY <2>5, <3>1
    <3>3. \A i \in 1 .. 1 : i = 1
      OBVIOUS
    <3>. QED BY <3>1, <3>2, <3>3
  <2>8. ASSUME NEW k \in 2 .. N, Placed(k - 1) PROVE Placed(k)
    <3>1. k \in 1 .. N /\ k - 1 \in 1 .. N /\ h[k] = Len(c[k - 1]) + 1 /\ Len(c[k - 1]) \in Nat
      BY <1>0, <2>4, <2>5
    <3>2. /\ Len(c[k]) = Len(c[k - 1]) + wide(k)
          /\ \A p \in 1 .. Len(c[k - 1]) : c[k][p] = c[k - 1][p]
          /\ c[k][Len(c[k - 1]) + 1] = IF r[k] = Nl THEN Cr ELSE r[k]
          /\ r[k] = Nl => c[k][Len(c[k - 1]) + 2] = Nl
      <4>1. /\ Len(c[k]) = Len(c[k - 1]) + wide(k)
            /\ \A p \in 1 .. Len(c[k - 1]) : c[k][p] = c[k - 1][p]
            /\ \A j \in 1 .. wide(k) : c[k][Len(c[k - 1]) + j] = ss[k][j]
        BY <2>6
      <4>2. 1 \in 1 .. wide(k) /\ (r[k] = Nl => 2 \in 1 .. wide(k))
        OBVIOUS
      <4>3. /\ ss[k][1] = IF r[k] = Nl THEN Cr ELSE r[k]
            /\ r[k] = Nl => ss[k][2] = Nl
        BY <2>5, <3>1
      <4>. HIDE DEF wide
      <4>. QED BY <4>1, <4>2, <4>3
    <3>3. \A i \in 1 .. k : i \in 1 .. k - 1 \/ i = k
      BY <1>0
    <3>a. /\ r[k] = Nl => Len(c[k]) = Len(c[k - 1]) + 2
          /\ r[k] # Nl => Len(c[k]) = Len(c[k - 1]) + 1
      BY <3>2
    <3>. DEFINE K == Len(c[k - 1])
                L == Len(c[k])
    <3>b. /\ K \in Nat /\ L \in Nat /\ h[k] = K + 1 /\ K = Len(c[k - 1]) /\ L = Len(c[k])
          /\ r[k] = Nl => L = K + 2
          /\ r[k] # Nl => L = K + 1
      BY <2>5, <3>1, <3>a
    <3>. HIDE DEF K, L
    <3>4. ASSUME NEW i \in 1 .. k
          PROVE  /\ h[i] \in 1 .. Len(c[k]) /\ c[k][h[i]] = IF r[i] = Nl THEN Cr ELSE r[i]
                 /\ r[i] = Nl => h[i] + 1 \in 1 .. Len(c[k]) /\ c[k][h[i] + 1] = Nl
      <4>1. CASE i = k
        <5>1. h[k] + 1 = K + 2 /\ h[k] \in 1 .. L /\ (r[k] = Nl => h[k] + 1 \in 1 .. L)
          BY <3>b
        <5>2. /\ c[k][K + 1] = IF r[k] = Nl THEN Cr ELSE r[k]
              /\ r[k] = Nl => c[k][K + 2] = Nl
          BY <3>2, <3>b
        <5>. QED BY <3>b, <4>1, <5>1, <5>2
      <4>2. CASE i # k
        <5>1. i \in 1 .. k - 1
          BY <3>3, <4>2
        <5>2. /\ h[i] \in 1 .. Len(c[k - 1]) /\ c[k - 1][h[i]] = IF r[i] = Nl THEN Cr ELSE r[i]
              /\ r[i] = Nl => h[i] + 1 \in 1 .. Len(c[k - 1]) /\ c[k - 1][h[i] + 1] = Nl
          BY <2>8, <5>1
        <5>3. \A p \in 1 .. Len(c[k - 1]) : p \in 1 .. Len(c[k]) /\ c[k][p] = c[k - 1][p]
          <6>1. \A p \in 1 .. K : p \in 1 .. L
            BY <3>b
          <6>. QED BY <3>2, <3>b, <6>1
        <5>. QED BY <5>2, <5>3
      <4>. QED BY <4>1, <4>2
    <3>5. ASSUME NEW p \in 1 .. Len(c[k])
          PROVE  \E i \in 1 .. k : h[i] = p \/ (r[i] = Nl /\ h[i] + 1 = p)
      <4>1. CASE p \in 1 .. Len(c[k - 1])
        <5>1. PICK i \in 1 .. k - 1 : h[i] = p \/ (r[i] = Nl /\ h[i] + 1 = p)
          BY <2>8, <4>1
        <5>. QED BY <5>1
      <4>2. CASE p \notin 1 .. Len(c[k - 1])
        <5>1. p = Len(c[k - 1]) + 1 \/ (r[k] = Nl /\ p = Len(c[k - 1]) + 2)
          <6>1. p \in 1 .. L /\ p \notin 1 .. K
            BY <3>b, <4>2
          <6>2. p = K + 1 \/ (r[k] = Nl /\ p = K + 2)
            BY <3>b, <6>1
          <6>. QED BY <3>b, <6>2
        <5>2. k \in 1 .. k
          BY <3>1
        <5>. QED BY <3>1, <5>1, <5>2
      <4>. QED BY <4>1, <4>2
    <3>. QED BY <3>4, <3>5
  <2>. HIDE DEF Placed
  <2>9. Placed(N)
    <3>1. 1 \in Nat /\ 1 <= N /\ 1 + 1 = 2 /\ N \in 1 .. N /\ 1 \in 1 .. N
      BY <1>0, <1>6
    <3>2. 1 \in Good
      BY <2>7, <3>1
    <3>3. ASSUME NEW k \in 1 + 1 .. N, k - 1 \in Good PROVE k \in Good
      BY <1>0, <2>8, <3>3
    <3>4. \A k \in 1 .. N : k \in Good
      <4>. HIDE DEF Good
      <4>. QED BY <1>0, <3>1, <3>2, <3>3, Climb
    <3>. QED BY <3>1, <3>4
  <2>10. \A i \in 1 .. N - 1 : h[i + 1] = h[i] + wide(i)
    <3>1. SUFFICES ASSUME NEW i \in 1 .. N - 1 PROVE h[i + 1] = h[i] + wide(i)
      OBVIOUS
    <3>2. i \in 1 .. N /\ i + 1 \in 1 .. N /\ i + 1 # 1 /\ (i + 1) - 1 = i
      BY <1>0
    <3>3. h[i + 1] = Len(c[i]) + 1
      BY <2>4, <3>2
    <3>4. CASE i = 1
      BY <2>3, <2>4, <2>5, <3>2, <3>3, <3>4
    <3>5. CASE i # 1
      <4>1. i \in 2 .. N /\ i - 1 \in 1 .. N
        BY <1>0, <3>2, <3>5
      <4>2. h[i] = Len(c[i - 1]) + 1 /\ Len(c[i - 1]) \in Nat
        BY <2>4, <2>5, <3>2, <3>5, <4>1
      <4>3. Len(c[i]) = Len(c[i - 1]) + wide(i)
        BY <2>6, <4>1
      <4>4. wide(i) \in Nat
        OBVIOUS
      <4>. HIDE DEF wide
      <4>. QED BY <3>3, <4>2, <4>3, <4>4
    <3>. QED BY <3>4, <3>5
  <2>11. ASSUME NEW i \in 1 .. N, NEW j \in 1 .. N, i < j PROVE h[i] < h[j]
    <3>. DEFINE Above == {k \in i + 1 .. N : h[i] < h[k]}
    <3>1. \A k \in 1 .. N : h[k] \in Int
      <4>1. SUFFICES ASSUME NEW k \in 1 .. N PROVE h[k] \in Int
        OBVIOUS
      <4>2. k # 1 => k - 1 \in 1 .. N
        BY <1>0
      <4>3. k # 1 => Len(c[k - 1]) \in Nat
        BY <2>5, <4>2
      <4>. QED BY <2>4, <4>3
    <3>2. i + 1 \in Above
      <4>1. i \in 1 .. N - 1 /\ i + 1 \in i + 1 .. N
        BY <1>0, <2>11
      <4>. QED BY <2>10, <3>1, <4>1
    <3>3. ASSUME NEW k \in (i + 1) + 1 .. N, k - 1 \in Above PROVE k \in Above
      <4>1. k - 1 \in 1 .. N - 1 /\ (k - 1) + 1 = k /\ k \in 1 .. N /\ k \in i + 1 .. N
        BY <1>0
      <4>2. h[k] = h[k - 1] + wide(k - 1)
        BY <2>10, <4>1
      <4>. QED BY <3>1, <3>3, <4>1, <4>2
    <3>4. i + 1 \in Nat /\ i + 1 <= N /\ j \in i + 1 .. N
      BY <1>0, <2>11
    <3>. HIDE DEF Above
    <3>5. j \in Above
      BY <1>0, <3>2, <3>3, <3>4, Climb
    <3>. QED BY <3>5 DEF Above
  <2>12. Places(h, r, Saved(r))
    BY <1>0, <2>2, <2>9, <2>10, <2>11 DEF Places, Placed
  <2>. QED BY <1>4, <2>12
<1>. QED BY <1>5, <1>6

\* What stands next to a character of r in f, as far as the accents go.
LEMMA NextTo ==
  ASSUME NEW r \in Str, Without(r, Cr), NEW f \in Str, NEW h, Places(h, r, f),
         NEW i \in 1 .. Len(r)
  PROVE  /\ h[i] > 1 /\ f[h[i] - 1] = "a" <=> i > 1 /\ r[i - 1] = "a"
         /\ r[i] = "a" => (h[i] < Len(f) /\ f[h[i] + 1] = Mark <=> i < Len(r) /\ r[i + 1] = Mark)
<1>. DEFINE N == Len(r)
            M == Len(f)
<1>0. N \in Nat /\ M \in Nat /\ i \in 1 .. N
  BY DEF Str
<1>1. /\ \A j \in 1 .. N : h[j] \in 1 .. M /\ f[h[j]] = IF r[j] = Nl THEN Cr ELSE r[j]
      /\ \A j \in 1 .. N : r[j] = Nl => h[j] + 1 \in 1 .. M /\ f[h[j] + 1] = Nl
      /\ \A p \in 1 .. M : \E j \in 1 .. N : h[j] = p \/ (r[j] = Nl /\ h[j] + 1 = p)
      /\ \A j, l \in 1 .. N : j < l => h[j] < h[l]
  BY DEF Places
<1>2. \A j \in 1 .. N - 1 : h[j + 1] = h[j] + IF r[j] = Nl THEN 2 ELSE 1
  BY DEF Places
<1>. HIDE DEF N, M
<1>3. ASSUME NEW j \in 1 .. N, NEW l \in 1 .. N, h[j] = h[l] PROVE j = l
  <2>1. ~ (j < l) /\ ~ (l < j)
    BY <1>1, <1>3
  <2>. QED BY <1>0, <2>1
<1>4. ASSUME i > 1, r[i - 1] = "a" PROVE h[i] > 1 /\ f[h[i] - 1] = "a"
  <2>1. i - 1 \in 1 .. N /\ i - 1 \in 1 .. N - 1 /\ (i - 1) + 1 = i
    BY <1>0, <1>4
  <2>2. h[i] = h[i - 1] + 1 /\ f[h[i - 1]] = "a" /\ h[i - 1] \in 1 .. M
    BY <1>1, <1>2, <1>4, <2>1, Apart
  <2>3. h[i] - 1 = h[i - 1] /\ h[i] > 1
    BY <1>0, <2>2
  <2>. QED BY <2>2, <2>3
<1>5. ASSUME h[i] > 1, f[h[i] - 1] = "a" PROVE i > 1 /\ r[i - 1] = "a"
  <2>. DEFINE p == h[i] - 1
  <2>1. h[i] \in 1 .. M /\ p \in 1 .. M /\ p + 1 = h[i] /\ f[p] = "a"
    <3>1. h[i] \in 1 .. M
      BY <1>0, <1>1
    <3>2. p \in 1 .. M /\ p + 1 = h[i]
      BY <1>0, <1>5, <3>1
    <3>. QED BY <1>5, <3>1, <3>2
  <2>. HIDE DEF p
  <2>2. PICK j \in 1 .. N : h[j] = p
    BY <1>1, <2>1, Apart
  <2>3. r[j] = "a" /\ j < i
    <3>1. r[j] = "a"
      BY <1>1, <2>1, <2>2, Apart
    <3>2. ~ (i < j) /\ i # j
      BY <1>0, <1>1, <2>1, <2>2
    <3>. QED BY <1>0, <3>1, <3>2
  <2>4. j \in 1 .. N - 1 /\ j + 1 \in 1 .. N
    BY <1>0, <2>3
  <2>5. h[j + 1] = h[i]
    BY <1>2, <2>1, <2>2, <2>3, <2>4, Apart
  <2>6. j + 1 = i
    BY <1>0, <1>3, <2>4, <2>5
  <2>7. i > 1 /\ i - 1 = j
    BY <1>0, <2>4, <2>6
  <2>. QED BY <2>3, <2>7
<1>6. ASSUME r[i] = "a", i < N, r[i + 1] = Mark PROVE h[i] < M /\ f[h[i] + 1] = Mark
  <2>1. i \in 1 .. N - 1 /\ i + 1 \in 1 .. N
    BY <1>0, <1>6
  <2>2. h[i + 1] = h[i] + 1 /\ f[h[i + 1]] = Mark /\ h[i + 1] \in 1 .. M /\ h[i] \in 1 .. M
    BY <1>0, <1>1, <1>2, <1>6, <2>1, Apart
  <2>. QED BY <1>0, <2>2
<1>7. ASSUME r[i] = "a", h[i] < M, f[h[i] + 1] = Mark PROVE i < N /\ r[i + 1] = Mark
  <2>1. h[i] \in 1 .. M /\ h[i] + 1 \in 1 .. M
    BY <1>0, <1>1, <1>7
  <2>2. PICK j \in 1 .. N : h[j] = h[i] + 1
    BY <1>1, <1>7, <2>1, Apart
  <2>3. r[j] = Mark /\ i < j
    <3>1. r[j] = Mark
      BY <1>1, <1>7, <2>2, Apart
    <3>2. ~ (j < i) /\ i # j
      BY <1>0, <1>1, <2>1, <2>2
    <3>. QED BY <1>0, <3>1, <3>2
  <2>4. i \in 1 .. N - 1 /\ i + 1 \in 1 .. N /\ i < N
    BY <1>0, <2>3
  <2>5. h[i + 1] = h[j]
    BY <1>2, <1>7, <2>2, <2>4, Apart
  <2>6. i + 1 = j
    BY <1>3, <2>4, <2>5
  <2>. QED BY <2>3, <2>4, <2>6
<1>. QED BY <1>4, <1>5, <1>6, <1>7 DEF N, M

\* With either line ends the same is left.
LEMMA SavedAlike ==
  ASSUME NEW r \in Str, Without(r, Cr)
  PROVE  LineEnds(Nfc(Saved(r))) = Nfc(r)
<1>. DEFINE f == Saved(r)
            N == Len(r)
            M == Len(f)
            uf == [p \in DOMAIN f |-> IF p < Len(f) /\ f[p] = "a" /\ f[p + 1] = Mark THEN Accented ELSE f[p]]
            ur == [i \in DOMAIN r |-> IF i < Len(r) /\ r[i] = "a" /\ r[i + 1] = Mark THEN Accented ELSE r[i]]
            P == {p \in DOMAIN f : ~ (f[p] = Mark /\ p > 1 /\ f[p - 1] = "a")}
            G == {i \in DOMAIN r : ~ (r[i] = Mark /\ i > 1 /\ r[i - 1] = "a")}
            C == Cardinality(P)
            k == Nfc(f)
            Q == {n \in DOMAIN k : ~ (k[n] = Nl /\ n > 1 /\ k[n - 1] = Cr)}
            v == [n \in DOMAIN k |-> IF k[n] = Cr THEN Nl ELSE k[n]]
            w == [p \in 1 .. M |-> IF uf[p] = Cr THEN Nl ELSE uf[p]]
<1>1. f \in Str
  BY PlacesAre
<1>2. PICK h : Places(h, r, f)
  BY PlacesAre
<1>3. LineEnds(k) = Keep(v, Q) /\ Nfc(r) = Keep(ur, G)
  BY DEF LineEnds, Nfc
<1>4. k = [n \in 1 .. C |-> uf[Nth(P, n)]]
  BY DEF Nfc, Keep
<1>. HIDE DEF f
<1>0. /\ N \in Nat /\ M \in Nat /\ DOMAIN r = 1 .. N /\ DOMAIN f = 1 .. M
      /\ N = Len(r) /\ M = Len(f)
  BY <1>1 DEF Str
<1>5. /\ \A p \in 1 .. M : /\ uf[p] = IF p < M /\ f[p] = "a" /\ f[p + 1] = Mark THEN Accented ELSE f[p]
                           /\ w[p] = IF uf[p] = Cr THEN Nl ELSE uf[p]
      /\ \A i \in 1 .. N : ur[i] = IF i < N /\ r[i] = "a" /\ r[i + 1] = Mark THEN Accented ELSE r[i]
      /\ ur = [i \in 1 .. N |-> ur[i]]
  BY <1>0
<1>6. /\ \A p : p \in P <=> p \in 1 .. M /\ ~ (f[p] = Mark /\ p > 1 /\ f[p - 1] = "a")
      /\ \A i : i \in G <=> i \in 1 .. N /\ ~ (r[i] = Mark /\ i > 1 /\ r[i - 1] = "a")
  BY <1>0
<1>. HIDE DEF P, G, uf, ur, w, N, M, k
<1>7. /\ C \in Nat
      /\ \A n \in 1 .. C : Nth(P, n) \in P /\ Nth(P, n) \in 1 .. M
      /\ \A m, n \in 1 .. C : m < n => Nth(P, m) < Nth(P, n)
      /\ \A p \in P : \E n \in 1 .. C : Nth(P, n) = p
  <2>1. P \subseteq 1 .. M
    BY <1>6
  <2>. QED BY <1>0, <2>1, NthOrder
<1>. HIDE DEF C
<1>8. DOMAIN k = 1 .. C /\ \A n \in 1 .. C : k[n] = uf[Nth(P, n)]
  BY <1>4
<1>9. /\ \A i \in 1 .. N : h[i] \in 1 .. M /\ f[h[i]] = IF r[i] = Nl THEN Cr ELSE r[i]
      /\ \A i \in 1 .. N : r[i] = Nl => h[i] + 1 \in 1 .. M /\ f[h[i] + 1] = Nl
      /\ \A p \in 1 .. M : \E i \in 1 .. N : h[i] = p \/ (r[i] = Nl /\ h[i] + 1 = p)
      /\ \A i, j \in 1 .. N : i < j => h[i] < h[j]
  BY <1>0, <1>2 DEF Places
<1>10. \A i \in 1 .. N :
         /\ h[i] > 1 /\ f[h[i] - 1] = "a" <=> i > 1 /\ r[i - 1] = "a"
         /\ r[i] = "a" => (h[i] < M /\ f[h[i] + 1] = Mark <=> i < N /\ r[i + 1] = Mark)
  BY <1>0, <1>1, <1>2, NextTo
<1>11. \A i \in 1 .. N : r[i] # Cr
  BY <1>0 DEF Without
<1>12. ASSUME NEW i \in 1 .. N PROVE ur[i] = w[h[i]]
  <2>1. h[i] \in 1 .. M /\ f[h[i]] = IF r[i] = Nl THEN Cr ELSE r[i]
    BY <1>9
  <2>2. f[h[i]] = "a" <=> r[i] = "a"
    BY <1>11, <2>1, Apart
  <2>3. uf[h[i]] = IF i < N /\ r[i] = "a" /\ r[i + 1] = Mark THEN Accented ELSE f[h[i]]
    BY <1>5, <1>10, <2>1, <2>2
  <2>4. w[h[i]] = IF uf[h[i]] = Cr THEN Nl ELSE uf[h[i]]
    BY <1>5, <2>1
  <2>5. ur[i] = IF i < N /\ r[i] = "a" /\ r[i + 1] = Mark THEN Accented ELSE r[i]
    BY <1>5
  <2>. QED BY <1>11, <2>1, <2>3, <2>4, <2>5, Apart
<1>13. Keep(ur, G) = Keep(w, At(h, G))
  <2>1. ur = [i \in 1 .. N |-> w[h[i]]]
    BY <1>5, <1>12
  <2>2. G \in SUBSET (1 .. N) /\ Along(ur, w, h, N, M)
    BY <1>0, <1>6, <1>9, <2>1 DEF Along
  <2>. QED BY <2>2, KeepAlong
<1>14. Q \subseteq 1 .. C /\ Keep(v, Q) = Keep(w, {Nth(P, n) : n \in Q})
  <2>. DEFINE g == [n \in 1 .. C |-> Nth(P, n)]
  <2>1. \A n \in 1 .. C : v[n] = w[g[n]]
    BY <1>5, <1>7, <1>8
  <2>2. v = [n \in 1 .. C |-> w[g[n]]]
    BY <1>8, <2>1
  <2>3. Q \subseteq 1 .. C
    BY <1>8
  <2>4. \A n \in 1 .. C : g[n] = Nth(P, n)
    OBVIOUS
  <2>. HIDE DEF v, Q, g
  <2>5. Keep(v, Q) = Keep(w, At(g, Q))
    <3>1. Along(v, w, g, C, M)
      BY <1>0, <1>7, <2>2, <2>4 DEF Along
    <3>2. Q \in SUBSET (1 .. C)
      BY <2>3
    <3>. QED BY <3>1, <3>2, KeepAlong
  <2>6. At(g, Q) = {Nth(P, n) : n \in Q}
    BY <2>3, <2>4 DEF At
  <2>. QED BY <2>3, <2>5, <2>6
<1>15. ASSUME NEW n \in Q PROVE \E i \in G : h[i] = Nth(P, n)
  <2>. DEFINE p == Nth(P, n)
  <2>1. /\ n \in 1 .. C /\ p \in P /\ p \in 1 .. M /\ k[n] = uf[p]
        /\ ~ (k[n] = Nl /\ n > 1 /\ k[n - 1] = Cr)
    BY <1>7, <1>8, <1>14
  <2>2. PICK i \in 1 .. N : h[i] = p \/ (r[i] = Nl /\ h[i] + 1 = p)
    BY <1>9, <2>1
  <2>3. CASE h[i] = p
    <3>1. r[i] = Mark => f[p] = Mark
      BY <1>9, <2>3, Apart
    <3>2. i \in G
      BY <1>6, <1>10, <2>1, <2>3, <3>1
    <3>. QED BY <2>3, <3>2
  <2>4. CASE r[i] = Nl /\ h[i] + 1 = p
    <3>. DEFINE q == h[i]
    <3>1. q \in 1 .. M /\ f[q] = Cr /\ f[p] = Nl /\ q + 1 = p
      BY <1>9, <2>4
    <3>2. q \in P /\ uf[q] = Cr /\ uf[p] = Nl
      BY <1>5, <1>6, <2>1, <3>1, Apart
    <3>. HIDE DEF q, p
    <3>3. PICK m \in 1 .. C : Nth(P, m) = q
      BY <1>7, <3>2
    <3>4. m < n
      <4>1. ~ (n < m) /\ n # m
        BY <1>7, <2>1, <3>1, <3>3 DEF p
      <4>. QED BY <1>7, <2>1, <4>1
    <3>5. ~ (m + 1 < n)
      <4>1. SUFFICES ASSUME m + 1 < n PROVE FALSE
        OBVIOUS
      <4>2. m + 1 \in 1 .. C
        BY <1>7, <2>1, <4>1
      <4>3. Nth(P, m) < Nth(P, m + 1) /\ Nth(P, m + 1) < Nth(P, n) /\ Nth(P, m + 1) \in 1 .. M
        BY <1>7, <2>1, <4>1, <4>2
      <4>. QED BY <3>1, <3>3, <4>3 DEF p
    <3>6. n > 1 /\ n - 1 = m
      BY <1>7, <2>1, <3>4, <3>5
    <3>7. k[m] = Cr /\ k[n] = Nl
      BY <1>8, <2>1, <3>2, <3>3
    <3>. QED BY <2>1, <3>6, <3>7
  <2>. QED BY <2>2, <2>3, <2>4
<1>16. ASSUME NEW i \in G PROVE \E n \in Q : Nth(P, n) = h[i]
  <2>1. i \in 1 .. N /\ h[i] \in 1 .. M /\ f[h[i]] = IF r[i] = Nl THEN Cr ELSE r[i]
    BY <1>6, <1>9
  <2>2. h[i] \in P
    BY <1>6, <1>10, <2>1, Apart
  <2>3. PICK n \in 1 .. C : Nth(P, n) = h[i]
    BY <1>7, <2>2
  <2>4. k[n] = uf[h[i]] /\ uf[h[i]] # Nl
    BY <1>5, <1>8, <2>1, <2>3, Apart
  <2>5. n \in Q
    BY <1>8, <2>4
  <2>. QED BY <2>3, <2>5
<1>17. {Nth(P, n) : n \in Q} = At(h, G)
  <2>. HIDE DEF Q
  <2>. QED BY <1>15, <1>16 DEF At
<1>. QED BY <1>3, <1>13, <1>14, <1>17 DEF f, k
-----------------------------------------------------------------------------
(* The scan.                                                               *)

\* What g[p] is made of depends on g further on.
Onwards(g, N, stop, m, nxt) ==
  g = [p \in 1 .. N + 1 |-> IF p \in stop THEN {} ELSE {m[p]} \union g[nxt[p]]]

\* There is such a function.
LEMMA Downwards ==
  ASSUME NEW N \in Nat, NEW stop, NEW m, NEW nxt,
         \A p \in 1 .. N : p \notin stop => nxt[p] \in p + 1 .. N + 1,
         N + 1 \in stop
  PROVE  \E g : Onwards(g, N, stop, m, nxt)
<1>. DEFINE Step(g, p) == IF p \in stop THEN {} ELSE {m[p]} \union g[nxt[p]]
            Good == {b \in 0 .. N : \E g : g = [p \in N + 1 - b .. N + 1 |-> Step(g, p)]}
<1>1. 0 \in Good
  <2>1. \A p \in N + 1 - 0 .. N + 1 : p \in stop
    <3>1. \A p \in N + 1 - 0 .. N + 1 : p = N + 1
      OBVIOUS
    <3>. QED BY <3>1
  <2>2. [p \in N + 1 - 0 .. N + 1 |-> {}] = [p \in N + 1 - 0 .. N + 1 |-> Step([q \in N + 1 - 0 .. N + 1 |-> {}], p)]
    BY <2>1
  <2>3. \E g : g = [p \in N + 1 - 0 .. N + 1 |-> Step(g, p)]
    <3>. HIDE DEF Step
    <3>. QED BY <2>2
  <2>. HIDE DEF Step
  <2>. QED BY <2>3
<1>2. ASSUME NEW b \in 1 .. N, b - 1 \in Good PROVE b \in Good
  <2>. DEFINE a == N + 1 - b
  <2>1. a \in 1 .. N /\ a + 1 = N + 1 - (b - 1)
    OBVIOUS
  <2>2. PICK g : g = [p \in a + 1 .. N + 1 |-> Step(g, p)]
    <3>. HIDE DEF a, Step
    <3>. QED BY <1>2, <2>1
  <2>. HIDE DEF a
  <2>. DEFINE h == [p \in a .. N + 1 |-> IF p = a THEN Step(g, p) ELSE g[p]]
  <2>3. ASSUME NEW p \in a .. N + 1 PROVE h[p] = Step(h, p)
    <3>1. p \notin stop => nxt[p] \in a + 1 .. N + 1 /\ nxt[p] \in a .. N + 1 /\ nxt[p] # a
      <4>1. SUFFICES ASSUME p \notin stop PROVE nxt[p] \in a + 1 .. N + 1 /\ nxt[p] \in a .. N + 1 /\ nxt[p] # a
        OBVIOUS
      <4>2. p \in 1 .. N
        BY <2>1, <4>1
      <4>3. nxt[p] \in p + 1 .. N + 1
        BY <4>1, <4>2
      <4>. QED BY <2>1, <4>3
    <3>2. p \notin stop => h[nxt[p]] = g[nxt[p]]
      BY <3>1
    <3>3. Step(h, p) = Step(g, p)
      <4>. HIDE DEF h
      <4>. QED BY <3>2
    <3>4. p # a => p \in a + 1 .. N + 1
      BY <2>1
    <3>5. h[p] = Step(g, p)
      <4>1. p # a => g[p] = Step(g, p)
        <5>. HIDE DEF Step
        <5>. QED BY <2>2, <3>4
      <4>. HIDE DEF Step
      <4>. QED BY <4>1
    <3>. HIDE DEF h, Step
    <3>. QED BY <3>3, <3>5
  <2>4. h = [p \in a .. N + 1 |-> Step(h, p)]
    <3>. DEFINE e == [p \in a .. N + 1 |-> Step(h, p)]
    <3>1. \A p \in a .. N + 1 : h[p] = e[p]
      <4>. HIDE DEF h
      <4>. QED BY <2>3
    <3>. QED BY <3>1
  <2>5. \E f : f = [p \in a .. N + 1 |-> Step(f, p)]
    <3>. HIDE DEF h, Step
    <3>. QED BY <2>4
  <2>. HIDE DEF Step
  <2>. QED BY <2>5 DEF a
<1>3. \E g : g = [p \in N + 1 - N .. N + 1 |-> Step(g, p)]
  <2>. HIDE DEF Good
  <2>1. \A b \in 0 .. N : b \in Good
    BY <1>1, <1>2, CountUp
  <2>2. N \in Good
    BY <2>1
  <2>. QED BY <2>2 DEF Good
<1>4. N + 1 - N = 1
  OBVIOUS
<1>. QED BY <1>3, <1>4 DEF Onwards
-----------------------------------------------------------------------------
\* What the assumption says of a pattern.
LEMMA PatternIs ==
  ASSUME NEW p \in Patterns
  PROVE  /\ Len(p.words) \in Nat /\ Len(p.words) > 1 /\ DOMAIN p.words = 1 .. Len(p.words)
         /\ DOMAIN p.between = 1 .. Len(p.words) - 1
         /\ \A k \in 1 .. Len(p.words) : \A c \in p.words[k] : c \notin {Nl, Sp, Stop}
         /\ p.most \in Nat
<1>1. /\ p.words \in Seq(SUBSET STRING) /\ Len(p.words) > 1 /\ p.most \in Nat
      /\ \A k \in DOMAIN p.words : p.words[k] \cap (Blank \union {Stop}) = {}
      /\ p.between \in Seq({Gap, Blanks}) /\ Len(p.between) = Len(p.words) - 1
  BY PatternAssumption
<1>2. {Nl, Sp, Stop} \subseteq Blank \union {Stop}
  BY DEF Blank
<1>3. Len(p.words) \in Nat /\ DOMAIN p.words = 1 .. Len(p.words) /\ DOMAIN p.between = 1 .. Len(p.between)
  BY <1>1
<1>4. \A k \in 1 .. Len(p.words) : \A c \in p.words[k] : c \notin {Nl, Sp, Stop}
  BY <1>1, <1>2, <1>3
<1>. QED BY <1>1, <1>3, <1>4

\* The words of a pattern stand one behind the other.
LEMMA WordsInARow ==
  ASSUME NEW p \in Patterns, NEW t \in Str, NEW at \in Readings(t, p)
  PROVE  at[1] \in 1 .. Len(t) /\ at[Len(p.words)] \in at[1] + 1 .. Len(t)
<1>. DEFINE n == Len(p.words)
            Good == {k \in 1 .. n : k = 1 \/ at[1] < at[k]}
<1>0. n \in Nat /\ n > 1 /\ DOMAIN p.words = 1 .. n /\ DOMAIN p.between = 1 .. n - 1
  BY PatternIs
<1>1. Len(t) \in Nat /\ DOMAIN t = 1 .. Len(t) /\ p.most \in Nat
  BY PatternIs DEF Str
<1>. HIDE DEF n
<1>2. \A k \in 1 .. n : at[k] \in 1 .. Len(t)
  BY <1>0, <1>1 DEF Readings
<1>3. ASSUME NEW k \in 1 .. n - 1 PROVE at[k] < at[k + 1]
  <2>1. k \in 1 .. n /\ k + 1 \in 1 .. n
    BY <1>0
  <2>2. at[k] \in Int /\ at[k + 1] \in Int
    BY <1>2, <2>1
  <2>3. Separated(p, k, t, at[k], at[k + 1])
    BY <1>0 DEF Readings
  <2>4. at[k + 1] - at[k] \in 1 .. p.most + 1 \/ at[k + 1] - at[k] > 1
    BY <2>3 DEF Separated
  <2>. QED BY <1>1, <2>2, <2>4
<1>4. \A k \in 1 .. n : k \in Good
  <2>1. ASSUME NEW k \in 1 + 1 .. n, k - 1 \in Good PROVE k \in Good
    <3>1. k \in 1 .. n /\ k - 1 \in 1 .. n - 1 /\ k - 1 \in 1 .. n /\ (k - 1) + 1 = k /\ 1 \in 1 .. n
      BY <1>0
    <3>2. at[k - 1] < at[k]
      BY <1>3, <3>1
    <3>3. at[1] \in Int /\ at[k - 1] \in Int /\ at[k] \in Int
      BY <1>2, <3>1
    <3>4. k - 1 = 1 \/ at[1] < at[k - 1]
      BY <2>1
    <3>. QED BY <3>1, <3>2, <3>3, <3>4
  <2>2. 1 \in Good /\ 1 \in Nat /\ 1 <= n
    BY <1>0
  <2>. HIDE DEF Good
  <2>. QED BY <1>0, <2>1, <2>2, Climb
<1>5. at[1] < at[n] /\ at[1] \in 1 .. Len(t) /\ at[n] \in 1 .. Len(t)
  <2>1. n \in Good /\ n # 1 /\ n \in 1 .. n /\ 1 \in 1 .. n
    BY <1>0, <1>4
  <2>2. at[1] < at[n]
    BY <2>1
  <2>. QED BY <1>2, <2>1, <2>2
<1>. QED BY <1>1, <1>5 DEF n
-----------------------------------------------------------------------------
\* Where the readings of a pattern that begin at i end.
Ending(t, p, i) == {at[Len(p.words)] : at \in {r \in Readings(t, p) : r[1] = i}}

\* Every match is a reading, and every reading begins in a match.
LEMMA MatchesAre ==
  ASSUME NEW t \in Str, NEW p, \A i \in 1 .. Len(t) : Ending(t, p, i) \subseteq i + 1 .. Len(t)
  PROVE  /\ \A m \in Matches(t, p) : m.from \in 1 .. Len(t) /\ m.to \in Ending(t, p, m.from)
         /\ \A i \in 1 .. Len(t) : Ending(t, p, i) # {} =>
              \E m \in Matches(t, p) : m.from <= i /\ i <= m.to
<1>. DEFINE N == Len(t)
            readings == Readings(t, p)
            aims(i) == {at[Len(p.words)] : at \in {r \in readings : r[1] = i}}
            starts(q) == {i \in q .. Len(t) : aims(i) # {}}
            first(q) == Min(starts(q))
            last(q) == Min(aims(first(q)))
            stop == {q \in 1 .. N + 1 : starts(q) = {}}
            nxt == [q \in 1 .. N + 1 |-> last(q) + 1]
            ms == [q \in 1 .. N + 1 |-> [from |-> first(q), to |-> last(q)]]
            from == CHOOSE g : g = [q \in 1 .. N + 1 |-> IF q \in stop THEN {} ELSE {ms[q]} \union g[nxt[q]]]
<1>0. N \in Nat /\ N = Len(t)
  BY DEF Str
<1>1. \A i : aims(i) = Ending(t, p, i)
  BY DEF Ending
<1>2. Matches(t, p) = from[1]
  <2>. DEFINE body(g) == [q \in 1 .. N + 1 |-> IF starts(q) = {} THEN {}
                            ELSE LET i == Min(starts(q))
                                     j == Min(aims(i))
                                 IN {[from |-> i, to |-> j]} \union g[j + 1]]
              fun == CHOOSE g : g = body(g)
  <2>1. Matches(t, p) = fun[1]
    BY DEF Matches
  <2>2. ASSUME NEW g PROVE body(g) = [q \in 1 .. N + 1 |-> IF q \in stop THEN {} ELSE {ms[q]} \union g[nxt[q]]]
    <3>1. ASSUME NEW q \in 1 .. N + 1
          PROVE  /\ q \in stop <=> starts(q) = {}
                 /\ ms[q] = [from |-> first(q), to |-> last(q)]
                 /\ nxt[q] = last(q) + 1
      <4>. HIDE DEF starts, first, last
      <4>. QED OBVIOUS
    <3>. HIDE DEF stop, ms, nxt, starts, aims
    <3>. QED BY <3>1
  <2>3. fun = from
    <3>. HIDE DEF body, stop, ms, nxt, N
    <3>. QED BY <2>2, Zenon
  <2>. HIDE DEF fun, from
  <2>. QED BY <2>1, <2>3
<1>3. ASSUME NEW q \in 1 .. N, q \notin stop
      PROVE  /\ first(q) \in q .. N /\ last(q) \in aims(first(q)) /\ last(q) \in first(q) + 1 .. N
             /\ \A i \in q .. N : aims(i) # {} => first(q) <= i
  <2>1. starts(q) # {} /\ starts(q) \subseteq q .. N /\ starts(q) \subseteq 1 .. N
        /\ \A i \in q .. N : aims(i) # {} => i \in starts(q)
    <3>1. starts(q) # {}
      <4>1. q \in 1 .. N + 1
        BY <1>0
      <4>. HIDE DEF starts
      <4>. QED BY <1>3, <4>1
    <3>2. q .. N \subseteq 1 .. N
      BY <1>0
    <3>3. starts(q) \subseteq q .. N /\ \A i \in q .. N : aims(i) # {} => i \in starts(q)
      <4>. HIDE DEF aims
      <4>. QED OBVIOUS
    <3>. HIDE DEF starts
    <3>. QED BY <3>1, <3>2, <3>3
  <2>2. first(q) \in starts(q) /\ \A i \in starts(q) : first(q) <= i
    <3>. HIDE DEF starts, N
    <3>. QED BY <1>0, <2>1, Ends
  <2>3. first(q) \in q .. N /\ first(q) \in 1 .. N /\ aims(first(q)) # {}
    <3>1. first(q) \in starts(q)
      BY <2>2
    <3>. HIDE DEF first, aims
    <3>. QED BY <2>1, <3>1
  <2>4. aims(first(q)) \subseteq first(q) + 1 .. N /\ aims(first(q)) \subseteq 1 .. N
    <3>1. first(q) + 1 .. N \subseteq 1 .. N
      <4>. HIDE DEF first
      <4>. QED BY <1>0, <2>3
    <3>. HIDE DEF first, aims
    <3>. QED BY <1>0, <1>1, <2>3, <3>1
  <2>5. last(q) \in aims(first(q))
    <3>. HIDE DEF aims, first, N
    <3>. QED BY <1>0, <2>3, <2>4, Ends
  <2>. HIDE DEF aims, first, last, starts
  <2>. QED BY <2>1, <2>2, <2>3, <2>4, <2>5
<1>4. N + 1 \in stop
  <2>1. N + 1 .. N = {}
    BY <1>0
  <2>2. starts(N + 1) = {}
    <3>. HIDE DEF aims
    <3>. QED BY <2>1
  <2>. HIDE DEF starts
  <2>. QED BY <1>0, <2>2
<1>. HIDE DEF aims, starts
<1>5. ASSUME NEW q \in 1 .. N, q \notin stop
      PROVE  nxt[q] = last(q) + 1 /\ nxt[q] \in q + 1 .. N + 1 /\ ms[q] = [from |-> first(q), to |-> last(q)]
  <2>1. q \in 1 .. N + 1
    BY <1>0
  <2>2. nxt[q] = last(q) + 1 /\ ms[q] = [from |-> first(q), to |-> last(q)]
    <3>. HIDE DEF first, last
    <3>. QED BY <2>1
  <2>3. first(q) \in q .. N /\ last(q) \in first(q) + 1 .. N
    BY <1>3, <1>5
  <2>. HIDE DEF first, last, nxt, ms
  <2>. QED BY <1>0, <2>2, <2>3
<1>. HIDE DEF first, last, nxt, ms, stop
<1>6. from = [q \in 1 .. N + 1 |-> IF q \in stop THEN {} ELSE {ms[q]} \union from[nxt[q]]]
  <2>1. N \in Nat /\ N + 1 \in stop /\ \A q \in 1 .. N : q \notin stop => nxt[q] \in q + 1 .. N + 1
    BY <1>0, <1>4, <1>5
  <2>2. \E g : Onwards(g, N, stop, ms, nxt)
    <3>. HIDE DEF N, from
    <3>. QED BY <2>1, Downwards
  <2>. QED BY <2>2 DEF Onwards
<1>. HIDE DEF from
<1>7. \A q \in 1 .. N + 1 : from[q] = IF q \in stop THEN {} ELSE {ms[q]} \union from[nxt[q]]
  BY <1>6
<1>. HIDE DEF N
<1>. DEFINE Right(q) == /\ \A m \in from[q] : m.from \in 1 .. N /\ m.to \in aims(m.from)
                        /\ \A i \in q .. N : aims(i) # {} => \E m \in from[q] : m.from <= i /\ i <= m.to
            Wrong == {q \in 1 .. N + 1 : ~Right(q)}
            Far == {N + 1 - q : q \in Wrong}
<1>8. \A q \in 1 .. N + 1 : Right(q)
  <2>1. SUFFICES ASSUME Wrong # {} PROVE FALSE
    <3>. HIDE DEF Right
    <3>. QED OBVIOUS
  <2>2. Wrong \subseteq 1 .. N + 1
    OBVIOUS
  <2>. HIDE DEF Wrong
  <2>3. PICK q \in Wrong : \A z \in Wrong : z <= q
    <3>1. N + 1 \in Nat
      BY <1>0
    <3>2. Max(Wrong) \in Wrong /\ \A z \in Wrong : z <= Max(Wrong)
      BY <2>1, <2>2, <3>1, Ends
    <3>. QED BY <3>2
  <2>4. q \in 1 .. N + 1 /\ ~Right(q)
    <3>. HIDE DEF Right
    <3>. QED BY DEF Wrong
  <2>5. ASSUME NEW z \in 1 .. N + 1, q < z PROVE Right(z)
    <3>1. z \notin Wrong
      BY <2>2, <2>3, <2>5
    <3>. HIDE DEF Right
    <3>. QED BY <3>1 DEF Wrong
  <2>6. CASE q \in stop
    <3>1. from[q] = {}
      BY <1>7, <2>4, <2>6
    <3>2. starts(q) = {}
      BY <2>6 DEF stop
    <3>3. \A i \in q .. N : aims(i) = {}
      BY <1>0, <3>2 DEF starts
    <3>. QED BY <2>4, <3>1, <3>3
  <2>7. CASE q \notin stop
    <3>1. q \in 1 .. N
      BY <1>0, <1>4, <2>4, <2>7
    <3>. DEFINE z == nxt[q]
                m == ms[q]
    <3>2. from[q] = {m} \union from[z]
      BY <1>7, <2>4, <2>7
    <3>3. z = last(q) + 1 /\ z \in q + 1 .. N + 1 /\ m.from = first(q) /\ m.to = last(q)
      <4>1. m = [from |-> first(q), to |-> last(q)]
        BY <1>5, <2>7, <3>1
      <4>2. z = last(q) + 1 /\ z \in q + 1 .. N + 1
        BY <1>5, <2>7, <3>1
      <4>. HIDE DEF m, z
      <4>. QED BY <4>1, <4>2
    <3>4. /\ first(q) \in q .. N /\ last(q) \in aims(first(q)) /\ last(q) \in first(q) + 1 .. N
          /\ \A i \in q .. N : aims(i) # {} => first(q) <= i
      BY <1>3, <2>7, <3>1
    <3>. HIDE DEF z, m
    <3>5. Right(z)
      <4>1. z \in 1 .. N + 1 /\ q < z
        BY <1>0, <3>1, <3>3
      <4>. HIDE DEF Right
      <4>. QED BY <2>5, <4>1
    <3>6. ASSUME NEW x \in from[q] PROVE x.from \in 1 .. N /\ x.to \in aims(x.from)
      <4>1. CASE x = m
        <5>1. first(q) \in 1 .. N
          BY <1>0, <3>1, <3>4
        <5>. QED BY <3>3, <3>4, <4>1, <5>1
      <4>2. CASE x \in from[z]
        BY <3>5, <4>2
      <4>. QED BY <3>2, <4>1, <4>2
    <3>7. ASSUME NEW i \in q .. N, aims(i) # {} PROVE \E x \in from[q] : x.from <= i /\ i <= x.to
      <4>1. first(q) <= i
        BY <3>4, <3>7
      <4>2. CASE i <= last(q)
        BY <3>2, <3>3, <4>1, <4>2
      <4>3. CASE ~ (i <= last(q))
        <5>1. i \in z .. N
          <6>1. last(q) \in Int /\ i \in Int /\ i <= N
            BY <1>0, <3>1, <3>4
          <6>. QED BY <1>0, <3>3, <4>3, <6>1
        <5>2. PICK x \in from[z] : x.from <= i /\ i <= x.to
          BY <3>5, <3>7, <5>1
        <5>. QED BY <3>2, <5>2
      <4>. QED BY <4>2, <4>3
    <3>. QED BY <2>4, <3>6, <3>7
  <2>. QED BY <2>6, <2>7
<1>9. Right(1)
  <2>1. 1 \in 1 .. N + 1
    BY <1>0
  <2>. HIDE DEF Right
  <2>. QED BY <1>8, <2>1
<1>. QED BY <1>1, <1>2, <1>9 DEF N
-----------------------------------------------------------------------------
(* Paragraphs.                                                             *)

\* The first of two line breaks.
BreakAt(t, i) == t[i] = Nl /\ i < Len(t) /\ t[i + 1] = Nl

\* Where paragraphs may begin, and what belongs to the one that begins at b.
Begins(t) == {b \in DOMAIN t : /\ t[b] # Nl
                               /\ \/ \A i \in 1 .. b - 1 : t[i] = Nl
                                  \/ b > 2 /\ t[b - 1] = Nl /\ t[b - 2] = Nl}
Within(t, b) == {i \in b .. Len(t) : t[i] \notin {Nl, Sp} /\ \A k \in b .. i : ~BreakAt(t, k)}

\* There is one span for each beginning to which something belongs, up to the last.
LEMMA SpansAre ==
  ASSUME NEW t \in Str, NEW S, S = ParagraphOffsets(t)
  PROVE  /\ \A s \in DOMAIN S : /\ S[s].from \in Begins(t) /\ S[s].to \in Within(t, S[s].from)
                                /\ \A i \in Within(t, S[s].from) : i <= S[s].to
         /\ \A b \in Begins(t) : Within(t, b) # {} => \E s \in DOMAIN S : S[s].from = b
         /\ \A r, s \in DOMAIN S : S[r].from = S[s].from => r = s
         /\ \A s \in DOMAIN S : s # 0
<1>. DEFINE kept == {b \in Begins(t) : Within(t, b) # {}}
            C == Cardinality(kept)
            W(b) == Within(t, b)
<1>0. Len(t) \in Nat /\ DOMAIN t = 1 .. Len(t)
  BY DEF Str
<1>1. S = [n \in 1 .. C |-> [from |-> Nth(kept, n), to |-> Max(W(Nth(kept, n)))]]
  BY DEF ParagraphOffsets, Begins, Within, BreakAt
<1>2. kept \subseteq 1 .. Len(t) /\ kept \subseteq Begins(t) /\ \A b \in kept : W(b) # {}
  BY <1>0 DEF Begins
<1>3. \A b \in kept : W(b) \subseteq 1 .. Len(t)
  <2>1. SUFFICES ASSUME NEW b \in kept PROVE W(b) \subseteq 1 .. Len(t)
    OBVIOUS
  <2>2. b .. Len(t) \subseteq 1 .. Len(t)
    BY <1>0, <1>2
  <2>. QED BY <2>2 DEF Within
<1>4. \A b \in Begins(t) : Within(t, b) # {} => b \in kept
  OBVIOUS
<1>. HIDE DEF kept, W
<1>5. /\ C \in Nat
      /\ \A n \in 1 .. C : Nth(kept, n) \in kept
      /\ \A m, n \in 1 .. C : m < n => Nth(kept, m) < Nth(kept, n)
      /\ \A i \in kept : \E n \in 1 .. C : Nth(kept, n) = i
  BY <1>0, <1>2, NthOrder
<1>. HIDE DEF C
<1>6. DOMAIN S = 1 .. C /\ \A n \in 1 .. C : S[n].from = Nth(kept, n) /\ S[n].to = Max(W(Nth(kept, n)))
  BY <1>1
<1>7. \A b \in kept : Max(W(b)) \in W(b) /\ \A i \in W(b) : i <= Max(W(b))
  <2>1. SUFFICES ASSUME NEW b \in kept PROVE Max(W(b)) \in W(b) /\ \A i \in W(b) : i <= Max(W(b))
    OBVIOUS
  <2>2. W(b) # {} /\ W(b) \subseteq 1 .. Len(t)
    BY <1>2, <1>3
  <2>. QED BY <1>0, <2>2, Ends
<1>8. \A s \in 1 .. C : /\ S[s].from \in Begins(t) /\ S[s].to \in W(S[s].from)
                        /\ \A i \in W(S[s].from) : i <= S[s].to
  BY <1>2, <1>5, <1>6, <1>7
<1>9. \A b \in Begins(t) : Within(t, b) # {} => \E s \in DOMAIN S : S[s].from = b
  BY <1>4, <1>5, <1>6
<1>10. \A r, s \in 1 .. C : S[r].from = S[s].from => r = s
  <2>1. SUFFICES ASSUME NEW r \in 1 .. C, NEW s \in 1 .. C, S[r].from = S[s].from, r # s PROVE FALSE
    OBVIOUS
  <2>2. r < s \/ s < r
    BY <2>1
  <2>3. Nth(kept, r) = Nth(kept, s) /\ Nth(kept, r) \in 1 .. Len(t)
    BY <1>2, <1>5, <1>6, <2>1
  <2>. QED BY <1>5, <2>2, <2>3
<1>11. \A s \in 1 .. C : s # 0
  OBVIOUS
<1>. QED BY <1>6, <1>8, <1>9, <1>10, <1>11 DEF W

\* Every character in sight stands in a span.
LEMMA SpansCover ==
  ASSUME NEW t, Settled(t), NEW S, S = ParagraphOffsets(t),
         NEW i \in 1 .. Len(t), t[i] \notin {Nl, Sp}
  PROVE  \E s \in DOMAIN S : S[s].from <= i /\ i <= S[s].to
<1>. DEFINE N == Len(t)
            Bs == {b \in Begins(t) : b <= i}
<1>0. t \in Str /\ N \in Nat /\ DOMAIN t = 1 .. N /\ N = Len(t)
  BY DEF Settled, Str
<1>1. 1 \in Bs
  <2>1. t[1] # Nl /\ 1 \in 1 .. N
    BY <1>0 DEF Settled, Trimmed, Blank
  <2>2. 1 .. 1 - 1 = {}
    OBVIOUS
  <2>. QED BY <1>0, <2>1, <2>2 DEF Begins
<1>2. Bs \subseteq 1 .. N
  BY <1>0 DEF Begins
<1>. DEFINE b == Max(Bs)
<1>3. b \in Bs /\ \A c \in Bs : c <= b
  <2>1. Bs # {}
    BY <1>1
  <2>. HIDE DEF Bs, N
  <2>. QED BY <1>0, <1>2, <2>1, Ends
<1>. HIDE DEF b
<1>4. b \in Begins(t) /\ b \in 1 .. N /\ b <= i
  BY <1>2, <1>3
<1>5. ASSUME NEW k \in b .. i, BreakAt(t, k) PROVE FALSE
  <2>1. t[k] = Nl /\ t[k + 1] = Nl /\ k \in 1 .. N /\ k < N
    BY <1>0, <1>4, <1>5 DEF BreakAt
  <2>2. k # i /\ k + 1 # i
    BY <2>1
  <2>3. k + 2 <= i /\ k + 2 \in 3 .. N /\ (k + 2) - 1 = k + 1 /\ (k + 2) - 2 = k
    BY <1>0, <2>1, <2>2
  <2>4. t[k + 2] # Nl
    BY <1>0, <2>1, <2>3 DEF Settled, NoRuns
  <2>5. k + 2 \in Begins(t)
    BY <1>0, <2>1, <2>3, <2>4 DEF Begins
  <2>6. k + 2 <= b
    BY <1>3, <2>3, <2>5
  <2>. QED BY <1>4, <2>1, <2>6
<1>6. i \in Within(t, b)
  BY <1>0, <1>4, <1>5 DEF Within
<1>7. PICK s \in DOMAIN S : S[s].from = b
  BY <1>0, <1>4, <1>6, SpansAre
<1>8. i <= S[s].to
  BY <1>0, <1>6, <1>7, SpansAre
<1>. QED BY <1>4, <1>7, <1>8

\* No character stands in two spans.
LEMMA SpansAreApart ==
  ASSUME NEW t, Settled(t), NEW S, S = ParagraphOffsets(t), NEW i \in Int,
         NEW r \in DOMAIN S, S[r].from <= i, i <= S[r].to,
         NEW s \in DOMAIN S, S[s].from <= i, i <= S[s].to
  PROVE  r = s
<1>0. t \in Str /\ Len(t) \in Nat /\ DOMAIN t = 1 .. Len(t)
  BY DEF Settled, Str
<1>1. ASSUME NEW p \in DOMAIN S, NEW q \in DOMAIN S, S[p].from < S[q].from, S[q].from <= S[p].to PROVE FALSE
  <2>. DEFINE a == S[p].from
              b == S[q].from
              e == S[p].to
  <2>1. a \in Begins(t) /\ b \in Begins(t) /\ e \in Within(t, a)
    BY <1>0, SpansAre
  <2>2. a < b /\ b <= e
    BY <1>1
  <2>. HIDE DEF a, b, e
  <2>3. a \in 1 .. Len(t) /\ b \in 1 .. Len(t) /\ t[a] # Nl /\ t[b] # Nl
    BY <1>0, <2>1 DEF Begins
  <2>4. e \in a .. Len(t) /\ \A k \in a .. e : ~BreakAt(t, k)
    BY <2>1 DEF Within
  <2>5. ~ (\A k \in 1 .. b - 1 : t[k] = Nl)
    <3>1. a \in 1 .. b - 1
      BY <2>2, <2>3
    <3>. QED BY <2>3, <3>1
  <2>6. b > 2 /\ t[b - 1] = Nl /\ t[b - 2] = Nl
    BY <2>1, <2>5 DEF Begins
  <2>7. a # b - 1 /\ a # b - 2
    BY <2>3, <2>6
  <2>8. b - 2 \in a .. e /\ b - 2 < Len(t) /\ (b - 2) + 1 = b - 1
    BY <1>0, <2>2, <2>3, <2>4, <2>7
  <2>9. BreakAt(t, b - 2)
    BY <2>6, <2>8 DEF BreakAt
  <2>. QED BY <2>4, <2>8, <2>9
<1>2. /\ S[r].from \in Int /\ S[s].from \in Int /\ S[r].to \in Int /\ S[s].to \in Int
  <2>1. ASSUME NEW p \in DOMAIN S PROVE S[p].from \in Int /\ S[p].to \in Int
    <3>1. S[p].from \in Begins(t) /\ S[p].to \in Within(t, S[p].from)
      BY <1>0, SpansAre
    <3>2. S[p].from \in 1 .. Len(t)
      BY <1>0, <3>1 DEF Begins
    <3>3. S[p].to \in S[p].from .. Len(t)
      BY <3>1 DEF Within
    <3>. QED BY <1>0, <3>2, <3>3
  <2>. QED BY <2>1
<1>3. S[s].from <= S[r].to /\ S[r].from <= S[s].to
  BY <1>2
<1>4. S[r].from = S[s].from
  BY <1>1, <1>2, <1>3
<1>. QED BY <1>0, <1>4, SpansAre

\* What follows in a span without a blank line between stands in it too.
LEMMA SpansGoOn ==
  ASSUME NEW t \in Str, NEW S, S = ParagraphOffsets(t),
         NEW s \in DOMAIN S, NEW i \in Int, S[s].from <= i, i <= S[s].to,
         NEW j \in i .. Len(t), t[j] \notin {Nl, Sp}, \A k \in i + 1 .. j : ~BreakAt(t, k)
  PROVE  j <= S[s].to
<1>. DEFINE b == S[s].from
            e == S[s].to
<1>1. b \in Begins(t) /\ e \in Within(t, b) /\ \A x \in Within(t, b) : x <= e
  BY SpansAre
<1>2. b <= i /\ i <= e /\ b = S[s].from /\ e = S[s].to
  OBVIOUS
<1>. HIDE DEF b, e
<1>3. Len(t) \in Nat /\ b \in 1 .. Len(t)
  BY <1>1 DEF Begins, Str
<1>4. e \in b .. Len(t) /\ \A k \in b .. e : ~BreakAt(t, k)
  BY <1>1 DEF Within
<1>5. \A k \in b .. j : ~BreakAt(t, k)
  <2>1. \A k \in b .. j : k \in b .. e \/ k \in i + 1 .. j
    BY <1>2, <1>3, <1>4
  <2>. QED BY <1>4, <2>1
<1>6. j \in b .. Len(t)
  BY <1>2, <1>3
<1>7. j \in Within(t, b)
  BY <1>5, <1>6 DEF Within
<1>. QED BY <1>1, <1>2, <1>7

\* Folding touches nothing but line breaks, and keeps the first half of a blank line.
LEMMA FoldedIs ==
  ASSUME NEW t \in Str
  PROVE  /\ Folded(t) \in Str /\ Len(Folded(t)) = Len(t)
         /\ \A i \in 1 .. Len(t) : Folded(t)[i] = Nl <=> BreakAt(t, i)
         /\ \A i \in 1 .. Len(t) : \A c : c \notin {Nl, Sp} => (Folded(t)[i] = c <=> t[i] = c)
         /\ \A i \in 1 .. Len(t) : Folded(t)[i] \in Blank <=> t[i] \in Blank
<1>. DEFINE F == Folded(t)
<1>0. Len(t) \in Nat /\ DOMAIN t = 1 .. Len(t) /\ \A i \in 1 .. Len(t) : t[i] \in Char
  BY DEF Str
<1>1. /\ F = [i \in 1 .. Len(t) |-> F[i]]
      /\ \A i \in 1 .. Len(t) : F[i] = IF t[i] = Nl /\ ~(i < Len(t) /\ t[i + 1] = Nl) THEN Sp ELSE t[i]
  BY <1>0 DEF Folded
<1>. HIDE DEF F
<1>2. \A i \in 1 .. Len(t) : F[i] \in Char
  BY <1>0, <1>1 DEF Char
<1>3. F \in Str /\ Len(F) = Len(t)
  BY <1>0, <1>1, <1>2, SequenceOf DEF Str
<1>4. \A i \in 1 .. Len(t) : F[i] = Nl <=> BreakAt(t, i)
  BY <1>1, Apart DEF BreakAt
<1>5. \A i \in 1 .. Len(t) : \A c : c \notin {Nl, Sp} => (F[i] = c <=> t[i] = c)
  BY <1>1
<1>6. \A i \in 1 .. Len(t) : F[i] \in Blank <=> t[i] \in Blank
  BY <1>1 DEF Blank
<1>. QED BY <1>3, <1>4, <1>5, <1>6 DEF F
-----------------------------------------------------------------------------
(* Detections in spans.                                                    *)

\* What spans are, in numbers.
LEMMA SpansInNumbers ==
  ASSUME NEW t \in Str, NEW S, S = ParagraphOffsets(t), NEW s \in DOMAIN S
  PROVE  /\ S[s].from \in 1 .. Len(t) /\ S[s].to \in S[s].from .. Len(t)
         /\ \A k \in S[s].from .. S[s].to : ~BreakAt(t, k)
<1>1. S[s].from \in Begins(t) /\ S[s].to \in Within(t, S[s].from)
  BY SpansAre
<1>2. S[s].from \in 1 .. Len(t)
  BY <1>1 DEF Begins, Str
<1>. QED BY <1>1, <1>2 DEF Within

\* What the scanner takes for the gap between two words is what the reader does.
LEMMA GapsAre ==
  ASSUME NEW r, Settled(r.text), r.spans = ParagraphOffsets(r.text), NEW p \in Patterns, NEW n,
         NEW i \in 1 .. Len(r.text), r.text[i] \notin {Nl, Sp, Stop},
         NEW j \in 1 .. Len(r.text), r.text[j] \notin {Nl, Sp, Stop}
  PROVE  Separated(p, n, Folded(r.text), i, j) <=> Together(p, n, r, i, j)
<1>. DEFINE t == r.text
            S == r.spans
            F == Folded(t)
            N == Len(t)
<1>0. t \in Str /\ N \in Nat /\ N = Len(t) /\ i \in Int /\ j \in Int /\ p.most \in Nat
  BY PatternIs DEF Settled, Str
<1>1. S = ParagraphOffsets(t) /\ Settled(t) /\ SpanIds(r) = DOMAIN S
  BY DEF SpanIds
<1>2. /\ \A k \in 1 .. N : F[k] = Nl <=> BreakAt(t, k)
      /\ \A k \in 1 .. N : F[k] = Stop <=> t[k] = Stop
      /\ \A k \in 1 .. N : F[k] \in Blank <=> t[k] \in Blank
  <2>1. Stop \notin {Nl, Sp}
    BY DEF Stop, Nl, Sp
  <2>2. /\ \A k \in 1 .. Len(t) : F[k] = Nl <=> BreakAt(t, k)
        /\ \A k \in 1 .. Len(t) : \A c : c \notin {Nl, Sp} => (F[k] = c <=> t[k] = c)
        /\ \A k \in 1 .. Len(t) : F[k] \in Blank <=> t[k] \in Blank
    BY <1>0, FoldedIs
  <2>. HIDE DEF F, t
  <2>. QED BY <1>0, <2>1, <2>2
<1>3. t[i] \notin {Nl, Sp, Stop} /\ t[j] \notin {Nl, Sp, Stop} /\ i \in 1 .. N /\ j \in 1 .. N
  OBVIOUS
<1>4. /\ Separated(p, n, F, i, j) <=>
           \/ p.between[n] = Gap /\ j - i \in 1 .. p.most + 1 /\ \A k \in i + 1 .. j - 1 : F[k] \notin {Stop, Nl}
           \/ p.between[n] = Blanks /\ j - i > 1 /\ \A k \in i + 1 .. j - 1 : F[k] \in Blank
      /\ Together(p, n, r, i, j) <=>
           \/ /\ p.between[n] = Gap /\ InOneSpan(r, i, j) /\ i < j /\ j - i <= p.most + 1
              /\ \A k \in i .. j : t[k] # Stop
           \/ p.between[n] = Blanks /\ i + 1 < j /\ \A k \in i + 1 .. j - 1 : t[k] \in Blank
  BY DEF Separated, Together
<1>5. InOneSpan(r, i, j) <=> \E s \in DOMAIN S : i \in S[s].from .. S[s].to /\ j \in S[s].from .. S[s].to
  BY <1>1 DEF InOneSpan
<1>. HIDE DEF t, S, F, N
<1>6. \A k \in i + 1 .. j - 1 : k \in 1 .. N /\ k \in i .. j
  BY <1>0, <1>3
<1>7. j - i > 1 <=> i + 1 < j
  BY <1>0
<1>8. (\A k \in i + 1 .. j - 1 : F[k] \in Blank) <=> (\A k \in i + 1 .. j - 1 : t[k] \in Blank)
  BY <1>2, <1>6
<1>9. ASSUME j - i \in 1 .. p.most + 1, \A k \in i + 1 .. j - 1 : F[k] \notin {Stop, Nl}
      PROVE  /\ InOneSpan(r, i, j) /\ i < j /\ j - i <= p.most + 1
             /\ \A k \in i .. j : t[k] # Stop
  <2>1. i < j /\ j - i <= p.most + 1 /\ j \in i .. N
    BY <1>0, <1>3, <1>9
  <2>2. \A k \in i .. j : k = i \/ k = j \/ k \in i + 1 .. j - 1
    BY <1>0
  <2>3. \A k \in i + 1 .. j - 1 : t[k] # Stop /\ ~BreakAt(t, k)
    BY <1>2, <1>6, <1>9
  <2>4. \A k \in i .. j : t[k] # Stop
    BY <1>3, <2>2, <2>3
  <2>5. \A k \in i + 1 .. j : ~BreakAt(t, k)
    <3>1. ~BreakAt(t, j)
      BY <1>3 DEF BreakAt
    <3>2. \A k \in i + 1 .. j : k = j \/ k \in i + 1 .. j - 1
      BY <1>0
    <3>. QED BY <2>3, <3>1, <3>2
  <2>6. PICK s \in DOMAIN S : S[s].from <= i /\ i <= S[s].to
    BY <1>0, <1>1, <1>3, SpansCover
  <2>7. j <= S[s].to
    BY <1>0, <1>1, <1>3, <2>1, <2>5, <2>6, SpansGoOn
  <2>8. S[s].from \in Int /\ S[s].to \in Int
    BY <1>0, <1>1, SpansInNumbers
  <2>9. i \in S[s].from .. S[s].to /\ j \in S[s].from .. S[s].to
    BY <1>0, <2>1, <2>6, <2>7, <2>8
  <2>10. InOneSpan(r, i, j)
    BY <1>5, <2>9
  <2>. QED BY <2>1, <2>4, <2>10
<1>10. ASSUME InOneSpan(r, i, j), i < j, j - i <= p.most + 1, \A k \in i .. j : t[k] # Stop
       PROVE  j - i \in 1 .. p.most + 1 /\ \A k \in i + 1 .. j - 1 : F[k] \notin {Stop, Nl}
  <2>1. j - i \in 1 .. p.most + 1
    BY <1>0, <1>10
  <2>2. PICK s \in DOMAIN S : i \in S[s].from .. S[s].to /\ j \in S[s].from .. S[s].to
    BY <1>5, <1>10
  <2>3. /\ S[s].from \in 1 .. N /\ S[s].to \in S[s].from .. N
        /\ \A k \in S[s].from .. S[s].to : ~BreakAt(t, k)
    BY <1>0, <1>1, SpansInNumbers
  <2>4. ASSUME NEW k \in i + 1 .. j - 1 PROVE F[k] \notin {Stop, Nl}
    <3>1. k \in 1 .. N /\ k \in i .. j
      BY <1>6
    <3>2. k \in S[s].from .. S[s].to
      BY <1>0, <2>2, <2>3, <3>1
    <3>3. t[k] # Stop /\ ~BreakAt(t, k)
      BY <1>10, <2>3, <3>1, <3>2
    <3>. QED BY <1>2, <3>1, <3>3
  <2>. QED BY <2>1, <2>4
<1>. QED BY <1>4, <1>7, <1>8, <1>9, <1>10 DEF F, t

\* What the scanner reads in the folded text are the payloads of the rendition.
LEMMA PayloadsAre ==
  ASSUME NEW r, Settled(r.text), r.spans = ParagraphOffsets(r.text), NEW p \in Patterns
  PROVE  Readings(Folded(r.text), p) = Payloads(r, p)
<1>. DEFINE t == r.text
            F == Folded(t)
            n == Len(p.words)
<1>0. t \in Str /\ DOMAIN t = 1 .. Len(t) /\ DOMAIN F = 1 .. Len(t)
  <2>1. t \in Str
    BY DEF Settled
  <2>2. F \in Str /\ Len(F) = Len(t)
    BY <2>1, FoldedIs
  <2>. HIDE DEF F
  <2>. QED BY <2>1, <2>2 DEF Str
<1>1. \A i \in 1 .. Len(t) : \A c : c \notin {Nl, Sp} => (F[i] = c <=> t[i] = c)
  BY <1>0, FoldedIs
<1>2. /\ n \in Nat /\ n > 1 /\ DOMAIN p.words = 1 .. n /\ DOMAIN p.between = 1 .. n - 1
      /\ \A k \in 1 .. n : \A c \in p.words[k] : c \notin {Nl, Sp, Stop}
  BY PatternIs
<1>. HIDE DEF n
<1>. DEFINE W == [1 .. n -> 1 .. Len(t)]
<1>3. ASSUME NEW at \in W
      PROVE  at \in Readings(F, p) <=> at \in Payloads(r, p)
  <2>1. \A k \in 1 .. n : at[k] \in 1 .. Len(t)
    OBVIOUS
  <2>2. /\ at \in Readings(F, p) <=>
             /\ \A k \in 1 .. n : F[at[k]] \in p.words[k]
             /\ \A k \in 1 .. n - 1 : Separated(p, k, F, at[k], at[k + 1])
        /\ at \in Payloads(r, p) <=>
             /\ \A k \in 1 .. n : t[at[k]] \in p.words[k]
             /\ \A k \in 1 .. n - 1 : Together(p, k, r, at[k], at[k + 1])
    <3>. HIDE DEF F
    <3>. QED BY <1>0, <1>2 DEF Readings, Payloads
  <2>3. (\A k \in 1 .. n : F[at[k]] \in p.words[k]) <=> (\A k \in 1 .. n : t[at[k]] \in p.words[k])
    <3>1. ASSUME NEW k \in 1 .. n PROVE F[at[k]] \in p.words[k] <=> t[at[k]] \in p.words[k]
      <4>1. at[k] \in 1 .. Len(t) /\ \A c \in p.words[k] : c \notin {Nl, Sp}
        BY <1>2, <2>1
      <4>. HIDE DEF F, t
      <4>. QED BY <1>1, <4>1
    <3>. HIDE DEF F, t
    <3>. QED BY <3>1
  <2>4. ASSUME \A k \in 1 .. n : t[at[k]] \in p.words[k], NEW k \in 1 .. n - 1
        PROVE  Separated(p, k, F, at[k], at[k + 1]) <=> Together(p, k, r, at[k], at[k + 1])
    <3>1. k \in 1 .. n /\ k + 1 \in 1 .. n
      BY <1>2
    <3>2. /\ at[k] \in 1 .. Len(t) /\ t[at[k]] \notin {Nl, Sp, Stop}
          /\ at[k + 1] \in 1 .. Len(t) /\ t[at[k + 1]] \notin {Nl, Sp, Stop}
      BY <1>2, <2>1, <2>4, <3>1
    <3>. QED BY <3>2, GapsAre
  <2>. HIDE DEF F, t
  <2>. QED BY <2>2, <2>3, <2>4
<1>4. Readings(F, p) \subseteq W /\ Payloads(r, p) \subseteq W
  <2>. HIDE DEF F
  <2>. QED BY <1>0, <1>2 DEF Readings, Payloads
<1>. HIDE DEF W
<1>5. Readings(F, p) = Payloads(r, p)
  BY <1>3, <1>4
<1>. QED BY <1>5 DEF F, t

\* Where a match is reported to begin, if a word stands there.
LEMMA LocatedIs ==
  ASSUME NEW r, Settled(r.text), r.spans = ParagraphOffsets(r.text), NEW p, NEW m,
         m.from \in 1 .. Len(r.text), r.text[m.from] \notin {Nl, Sp}
  PROVE  LET d == Locate(r, p, m) IN
         /\ d.pattern = p /\ d.from = m.from /\ d.to = m.to
         /\ d.span \in SpanIds(r)
         /\ r.spans[d.span].from <= d.from /\ d.from <= r.spans[d.span].to
<1>. DEFINE t == r.text
            S == r.spans
            holding == {s \in SpanIds(r) : r.spans[s].from <= m.from /\ m.from <= r.spans[s].to}
            d == Locate(r, p, m)
<1>0. t \in Str /\ S = ParagraphOffsets(t) /\ Settled(t)
  BY DEF Settled
<1>1. Len(S) \in Nat /\ SpanIds(r) = 1 .. Len(S) /\ SpanIds(r) = DOMAIN S
  <2>1. S \in Seq([from : 1 .. Len(t), to : 1 .. Len(t)])
    BY <1>0, OffsetsAre
  <2>. QED BY <2>1 DEF SpanIds
<1>2. holding # {}
  <2>1. \E x \in DOMAIN S : S[x].from <= m.from /\ m.from <= S[x].to
    <3>. HIDE DEF S
    <3>. QED BY <1>0, SpansCover
  <2>. QED BY <1>1, <2>1
<1>3. d = [pattern |-> p, from |-> m.from, to |-> m.to, span |-> IF holding = {} THEN 0 ELSE Min(holding)]
  BY DEF Locate
<1>4. d.pattern = p /\ d.from = m.from /\ d.to = m.to /\ d.span = Min(holding)
  <2>. HIDE DEF holding, d
  <2>. QED BY <1>2, <1>3
<1>5. Min(holding) \in holding
  <2>1. holding \subseteq 1 .. Len(S)
    BY <1>1
  <2>. HIDE DEF holding, S
  <2>. QED BY <1>1, <1>2, <2>1, Ends
<1>. HIDE DEF d
<1>. QED BY <1>4, <1>5 DEF d

\* A payload whose words only gaps separate ends in the span it begins in.
LEMMA StaysInItsSpan ==
  ASSUME NEW r, Settled(r.text), r.spans = ParagraphOffsets(r.text), NEW p \in Patterns,
         \A k \in DOMAIN p.between : p.between[k] = Gap,
         NEW at \in Payloads(r, p),
         NEW s \in SpanIds(r), r.spans[s].from <= at[1], at[1] <= r.spans[s].to
  PROVE  at[Len(p.words)] <= r.spans[s].to
<1>. DEFINE S == r.spans
            n == Len(p.words)
            Good == {k \in 1 .. n : S[s].from <= at[k] /\ at[k] <= S[s].to}
<1>0. n \in Nat /\ n > 1 /\ DOMAIN p.words = 1 .. n /\ DOMAIN p.between = 1 .. n - 1
  BY PatternIs
<1>1. /\ Settled(r.text) /\ S = ParagraphOffsets(r.text) /\ SpanIds(r) = DOMAIN S
      /\ s \in DOMAIN S /\ S[s].from <= at[1] /\ at[1] <= S[s].to
  BY DEF SpanIds
<1>2. r.text \in Str /\ DOMAIN r.text = 1 .. Len(r.text)
  BY DEF Settled, Str
<1>. HIDE DEF n
<1>3. \A k \in 1 .. n : at[k] \in 1 .. Len(r.text)
  BY <1>0, <1>2 DEF Payloads
<1>4. ASSUME NEW k \in 1 .. n - 1
      PROVE  \E x \in DOMAIN S : at[k] \in S[x].from .. S[x].to /\ at[k + 1] \in S[x].from .. S[x].to
  <2>1. Together(p, k, r, at[k], at[k + 1]) /\ p.between[k] = Gap
    BY <1>0 DEF Payloads
  <2>2. Gap # Blanks
    BY DEF Gap, Blanks
  <2>. QED BY <1>1, <2>1, <2>2 DEF Together, InOneSpan
<1>. HIDE DEF S
<1>5. ASSUME NEW k \in 1 + 1 .. n, k - 1 \in Good PROVE k \in Good
  <2>1. k \in 1 .. n /\ k - 1 \in 1 .. n - 1 /\ k - 1 \in 1 .. n /\ (k - 1) + 1 = k
    BY <1>0
  <2>2. PICK x \in DOMAIN S : at[k - 1] \in S[x].from .. S[x].to /\ at[k] \in S[x].from .. S[x].to
    BY <1>4, <2>1
  <2>3. at[k - 1] \in Int /\ S[s].from <= at[k - 1] /\ at[k - 1] <= S[s].to
    BY <1>3, <1>5, <2>1
  <2>4. S[x].from <= at[k - 1] /\ at[k - 1] <= S[x].to /\ S[x].from <= at[k] /\ at[k] <= S[x].to
    BY <2>2
  <2>5. x = s
    BY <1>1, <2>3, <2>4, SpansAreApart
  <2>. QED BY <2>1, <2>4, <2>5
<1>6. n \in Good
  <2>1. 1 \in Good /\ 1 \in Nat /\ 1 <= n /\ n \in 1 .. n
    BY <1>0, <1>1
  <2>. HIDE DEF Good
  <2>. QED BY <1>0, <1>5, <2>1, Climb
<1>. QED BY <1>6 DEF n, S
-----------------------------------------------------------------------------
(* Words: what is left of a text when blanks and line breaks do not count. *)

\* What is not seen.
NoWord == Blank \union {Inv}

\* The characters as Nfc() composes them, and the positions of those that count.
Vals(t) == [i \in DOMAIN t |-> IF i < Len(t) /\ t[i] = "a" /\ t[i + 1] = Mark THEN Accented ELSE t[i]]
Pos(t) == {i \in DOMAIN t : t[i] \notin NoWord /\ ~ (t[i] = Mark /\ i > 1 /\ t[i - 1] = "a")}

\* What a letter or an accent is, is no blank.
LEMMA WordCharacters ==
  /\ "a" \notin NoWord /\ Mark \notin NoWord /\ Accented \notin NoWord
  /\ Sp \in NoWord /\ Nl \in NoWord /\ Cr \in NoWord /\ Ls \in NoWord /\ Inv \in NoWord
BY DEF NoWord, Blank, Sp, Nl, Cr, Ls, Inv, Mark, Accented

\* What is seen of a text are the characters that count, composed.
LEMMA SeenIs ==
  ASSUME NEW t \in Str
  PROVE  Seen(t) = Keep(Vals(t), Pos(t))
<1>. DEFINE N == Len(t)
            v == Vals(t)
            P == {i \in DOMAIN t : ~ (t[i] = Mark /\ i > 1 /\ t[i - 1] = "a")}
            C == Cardinality(P)
            k == Nfc(t)
            g == [n \in 1 .. C |-> Nth(P, n)]
            Q == {n \in DOMAIN k : k[n] \notin NoWord}
<1>0. N \in Nat /\ DOMAIN t = 1 .. N /\ N = Len(t)
  BY DEF Str
<1>1. k = [n \in 1 .. C |-> v[Nth(P, n)]]
  BY DEF Nfc, Keep, Vals
<1>2. Seen(t) = Keep(k, Q)
  BY DEF Seen, NoWord
<1>3. \A i : i \in P <=> i \in 1 .. N /\ ~ (t[i] = Mark /\ i > 1 /\ t[i - 1] = "a")
  BY <1>0
<1>4. \A i \in 1 .. N : v[i] = IF i < N /\ t[i] = "a" /\ t[i + 1] = Mark THEN Accented ELSE t[i]
  BY <1>0 DEF Vals
<1>. HIDE DEF k, v, P
<1>5. /\ C \in Nat
      /\ \A n \in 1 .. C : Nth(P, n) \in P
      /\ \A m, n \in 1 .. C : m < n => Nth(P, m) < Nth(P, n)
      /\ \A i \in P : \E n \in 1 .. C : Nth(P, n) = i
  <2>1. P \subseteq 1 .. N
    BY <1>3
  <2>. QED BY <1>0, <2>1, NthOrder
<1>. HIDE DEF C, N
<1>6. \A n \in 1 .. C : g[n] = Nth(P, n)
  OBVIOUS
<1>. HIDE DEF g
<1>7. Along(k, v, g, C, N)
  <2>1. k = [n \in 1 .. C |-> v[g[n]]]
    BY <1>1, <1>6
  <2>2. \A n \in 1 .. C : g[n] \in 1 .. N
    BY <1>3, <1>5, <1>6
  <2>. QED BY <1>0, <1>5, <1>6, <2>1, <2>2 DEF Along
<1>8. Q \in SUBSET (1 .. C) /\ \A n : n \in Q <=> n \in 1 .. C /\ v[g[n]] \notin NoWord
  BY <1>1, <1>6
<1>. HIDE DEF Q
<1>9. Keep(k, Q) = Keep(v, At(g, Q))
  BY <1>7, <1>8, KeepAlong
<1>10. At(g, Q) = Pos(t)
  <2>1. ASSUME NEW i \in 1 .. N PROVE v[i] \notin NoWord <=> t[i] \notin NoWord
    BY <1>4, WordCharacters
  <2>2. \A n \in Q : g[n] \in Pos(t)
    BY <1>0, <1>3, <1>5, <1>6, <1>8, <2>1 DEF Pos
  <2>3. ASSUME NEW i \in Pos(t) PROVE \E n \in Q : g[n] = i
    <3>1. i \in P /\ t[i] \notin NoWord /\ i \in 1 .. N
      BY <1>0, <1>3 DEF Pos
    <3>2. PICK n \in 1 .. C : g[n] = i
      BY <1>5, <1>6, <3>1
    <3>. QED BY <1>8, <2>1, <3>1, <3>2
  <2>. QED BY <2>2, <2>3 DEF At
<1>. QED BY <1>2, <1>9, <1>10 DEF v

\* One blank is as good as another.
LEMMA BlankForBlank ==
  ASSUME NEW t \in Str, NEW u \in Str, Len(u) = Len(t),
         \A i \in 1 .. Len(t) : u[i] = t[i] \/ (u[i] \in NoWord /\ t[i] \in NoWord)
  PROVE  Seen(u) = Seen(t)
<1>0. Len(t) \in Nat /\ DOMAIN t = 1 .. Len(t) /\ DOMAIN u = 1 .. Len(t)
  BY DEF Str
<1>1. \A i \in 1 .. Len(t) : \A c : c \notin NoWord => (u[i] = c <=> t[i] = c)
  OBVIOUS
<1>2. \A i \in 1 .. Len(t) : u[i] \notin NoWord <=> t[i] \notin NoWord
  OBVIOUS
<1>3. \A i \in 1 .. Len(t) : i > 1 => i - 1 \in 1 .. Len(t)
  BY <1>0
<1>4. Pos(u) = Pos(t)
  <2>1. ASSUME NEW i \in 1 .. Len(t) PROVE i \in Pos(u) <=> i \in Pos(t)
    <3>1. u[i] = Mark <=> t[i] = Mark
      BY <1>1, WordCharacters
    <3>2. i > 1 => (u[i - 1] = "a" <=> t[i - 1] = "a")
      BY <1>1, <1>3, WordCharacters
    <3>. QED BY <1>0, <1>2, <3>1, <3>2 DEF Pos
  <2>. QED BY <1>0, <2>1 DEF Pos
<1>5. \A i \in Pos(t) : Vals(u)[i] = Vals(t)[i]
  <2>1. SUFFICES ASSUME NEW i \in Pos(t) PROVE Vals(u)[i] = Vals(t)[i]
    OBVIOUS
  <2>2. i \in 1 .. Len(t) /\ u[i] = t[i]
    BY <1>0 DEF Pos
  <2>3. i < Len(t) => (u[i + 1] = Mark <=> t[i + 1] = Mark)
    <3>1. i < Len(t) => i + 1 \in 1 .. Len(t)
      BY <1>0, <2>2
    <3>. QED BY <1>1, <3>1, WordCharacters
  <2>4. /\ Vals(u)[i] = IF i < Len(t) /\ u[i] = "a" /\ u[i + 1] = Mark THEN Accented ELSE u[i]
        /\ Vals(t)[i] = IF i < Len(t) /\ t[i] = "a" /\ t[i + 1] = Mark THEN Accented ELSE t[i]
    BY <1>0, <2>2 DEF Vals
  <2>. QED BY <2>2, <2>3, <2>4
<1>6. \A n \in 1 .. Cardinality(Pos(t)) : Nth(Pos(t), n) \in Pos(t)
  <2>1. Pos(t) \subseteq 1 .. Len(t)
    BY <1>0 DEF Pos
  <2>. QED BY <1>0, <2>1, NthOrder
<1>7. Keep(Vals(u), Pos(t)) = Keep(Vals(t), Pos(t))
  BY <1>5, <1>6 DEF Keep
<1>. QED BY <1>4, <1>7, SeenIs

\* What stays of a text are all its words, and no accent finds a letter it did not belong to.
KeepsWords(t, D) ==
  /\ \A i \in 1 .. Len(t) : i \notin D => t[i] \in NoWord
  /\ \A p, q \in D : p + 1 < q /\ (\A i \in p + 1 .. q - 1 : i \notin D) => t[p] # "a" \/ t[q] # Mark

\* Then the same is seen of it.
LEMMA FewerBlanks ==
  ASSUME NEW t \in Str, NEW D, D \subseteq 1 .. Len(t), KeepsWords(t, D)
  PROVE  Seen(Keep(t, D)) = Seen(t)
<1>. DEFINE N == Len(t)
            u == Keep(t, D)
            M == Len(u)
<1>0. N \in Nat /\ DOMAIN t = 1 .. N /\ N = Len(t) /\ D \subseteq DOMAIN t /\ t \in Seq(Char)
  BY DEF Str
<1>1. u \in Str
  BY <1>0, KeepIs DEF Str
<1>. DEFINE C == Cardinality(D)
            f == [n \in 1 .. C |-> Nth(D, n)]
<1>2. u = [n \in 1 .. C |-> t[Nth(D, n)]]
  BY DEF Keep
<1>. HIDE DEF u
<1>a. /\ C \in Nat
      /\ \A n \in 1 .. C : Nth(D, n) \in D
      /\ \A m, n \in 1 .. C : m < n => Nth(D, m) < Nth(D, n)
      /\ \A i \in D : \E n \in 1 .. C : Nth(D, n) = i
  BY <1>0, NthOrder
<1>b. M = C /\ DOMAIN u = 1 .. M /\ \A n \in 1 .. M : u[n] = t[f[n]] /\ f[n] = Nth(D, n)
  BY <1>1, <1>2, <1>a
<1>c. M \in Nat /\ M = Len(u) /\ DOMAIN f = 1 .. M
  BY <1>a, <1>b
<1>. HIDE DEF f, C, M, N
<1>3. /\ \A n \in 1 .. M : f[n] \in D /\ f[n] \in 1 .. N
      /\ \A m, n \in 1 .. M : m < n => f[m] < f[n]
      /\ \A i \in D : \E n \in 1 .. M : f[n] = i
  <2>1. M = C /\ \A n \in 1 .. M : f[n] = Nth(D, n)
    BY <1>b
  <2>2. \A n \in 1 .. M : f[n] \in D /\ f[n] \in 1 .. N
    BY <1>0, <1>a, <2>1
  <2>3. \A m, n \in 1 .. M : m < n => f[m] < f[n]
    BY <1>a, <2>1
  <2>4. \A i \in D : \E n \in 1 .. M : f[n] = i
    BY <1>a, <2>1
  <2>. QED BY <2>2, <2>3, <2>4
<1>4. \A n \in 1 .. M : f[n] + 1 \in D => n + 1 \in 1 .. M /\ f[n + 1] = f[n] + 1
  <2>1. Numbers(f, D, N)
    BY <1>0, <1>3, <1>c, NumbersIs
  <2>. QED BY <1>c, <2>1 DEF Numbers
\* Neighbours in u are neighbours in t, as far as it matters.
<1>5. ASSUME NEW n \in 1 .. M, n + 1 \in 1 .. M, u[n] = "a", u[n + 1] = Mark
      PROVE  f[n + 1] = f[n] + 1
  <2>1. f[n] \in D /\ f[n + 1] \in D /\ f[n] \in 1 .. N /\ f[n + 1] \in 1 .. N /\ f[n] < f[n + 1]
    BY <1>3, <1>5
  <2>2. t[f[n]] = "a" /\ t[f[n + 1]] = Mark
    BY <1>5, <1>b
  <2>3. CASE f[n] + 1 \in D
    BY <1>4, <2>3
  <2>4. CASE f[n] + 1 \notin D
    <3>1. f[n] + 1 < f[n + 1]
      BY <2>1, <2>4
    <3>2. \A i \in D : ~ (f[n] < i /\ i < f[n + 1])
      <4>1. Numbers(f, D, N)
        BY <1>0, <1>3, <1>c, NumbersIs
      <4>. QED BY <1>5, <1>c, <4>1 DEF Numbers
    <3>3. \A i \in f[n] + 1 .. f[n + 1] - 1 : i \notin D
      BY <2>1, <3>2
    <3>. QED BY <2>1, <2>2, <3>1, <3>3 DEF KeepsWords
  <2>. QED BY <2>3, <2>4
<1>6. ASSUME NEW n \in 1 .. M
      PROVE  /\ (n < M /\ u[n] = "a" /\ u[n + 1] = Mark) <=> (f[n] < N /\ t[f[n]] = "a" /\ t[f[n] + 1] = Mark)
             /\ (u[n] = Mark /\ n > 1 /\ u[n - 1] = "a") <=> (t[f[n]] = Mark /\ f[n] > 1 /\ t[f[n] - 1] = "a")
  <2>0. u[n] = t[f[n]] /\ f[n] \in 1 .. N /\ f[n] \in D
    BY <1>3, <1>b
  <2>1. ASSUME n < M, u[n] = "a", u[n + 1] = Mark PROVE f[n] < N /\ t[f[n] + 1] = Mark
    <3>1. n + 1 \in 1 .. M
      BY <1>c, <2>1
    <3>2. f[n + 1] = f[n] + 1 /\ f[n + 1] \in 1 .. N /\ u[n + 1] = t[f[n + 1]]
      BY <1>3, <1>5, <1>b, <2>1, <3>1
    <3>. QED BY <1>0, <2>0, <2>1, <3>2
  <2>2. ASSUME f[n] < N, t[f[n]] = "a", t[f[n] + 1] = Mark PROVE n < M /\ u[n + 1] = Mark
    <3>1. f[n] + 1 \in 1 .. N
      BY <1>0, <2>0, <2>2
    <3>2. f[n] + 1 \in D
      BY <1>0, <2>2, <3>1, WordCharacters DEF KeepsWords
    <3>3. n + 1 \in 1 .. M /\ f[n + 1] = f[n] + 1
      BY <1>4, <3>2
    <3>. QED BY <1>b, <1>c, <2>2, <3>3
  <2>3. ASSUME n > 1, u[n] = Mark, u[n - 1] = "a" PROVE f[n] > 1 /\ t[f[n] - 1] = "a"
    <3>1. n - 1 \in 1 .. M /\ (n - 1) + 1 = n
      BY <1>c, <2>3
    <3>2. f[n] = f[n - 1] + 1 /\ f[n - 1] \in 1 .. N /\ t[f[n - 1]] = "a"
      BY <1>3, <1>5, <1>b, <2>3, <3>1
    <3>. QED BY <1>0, <3>2
  <2>4. ASSUME f[n] > 1, t[f[n]] = Mark, t[f[n] - 1] = "a" PROVE n > 1 /\ u[n - 1] = "a"
    <3>1. f[n] - 1 \in 1 .. N /\ (f[n] - 1) + 1 = f[n]
      BY <1>0, <2>0, <2>4
    <3>2. f[n] - 1 \in D
      BY <1>0, <2>4, <3>1, WordCharacters DEF KeepsWords
    <3>3. PICK m \in 1 .. M : f[m] = f[n] - 1
      BY <1>3, <3>2
    <3>4. m + 1 \in 1 .. M /\ f[m + 1] = f[n]
      BY <1>4, <2>0, <3>1, <3>3
    <3>5. m + 1 = n
      <4>1. ~ (m + 1 < n) /\ ~ (n < m + 1)
        BY <1>3, <2>0, <3>4
      <4>. QED BY <1>c, <3>4, <4>1
    <3>6. n > 1 /\ n - 1 = m
      BY <3>5
    <3>. QED BY <1>b, <2>4, <3>3, <3>6
  <2>. QED BY <2>0, <2>1, <2>2, <2>3, <2>4
<1>7. Along(Vals(u), Vals(t), f, M, N)
  <2>1. ASSUME NEW n \in 1 .. M PROVE Vals(u)[n] = Vals(t)[f[n]]
    <3>1. f[n] \in 1 .. N /\ u[n] = t[f[n]]
      BY <1>3, <1>b
    <3>2. Vals(t)[f[n]] = IF f[n] < N /\ t[f[n]] = "a" /\ t[f[n] + 1] = Mark THEN Accented ELSE t[f[n]]
      BY <1>0, <3>1 DEF Vals
    <3>3. Vals(u)[n] = IF n < M /\ u[n] = "a" /\ u[n + 1] = Mark THEN Accented ELSE u[n]
      BY <1>b, <1>c DEF Vals
    <3>. QED BY <1>6, <3>1, <3>2, <3>3
  <2>2. Vals(u) = [n \in 1 .. M |-> Vals(u)[n]]
    BY <1>b DEF Vals
  <2>3. Vals(u) = [n \in 1 .. M |-> Vals(t)[f[n]]]
    BY <2>1, <2>2
  <2>. QED BY <1>0, <1>3, <1>c, <2>3 DEF Along
<1>8. At(f, Pos(u)) = Pos(t) /\ Pos(u) \in SUBSET (1 .. M)
  <2>1. ASSUME NEW n \in 1 .. M PROVE n \in Pos(u) <=> f[n] \in Pos(t)
    BY <1>0, <1>3, <1>6, <1>b DEF Pos
  <2>2. Pos(u) \subseteq 1 .. M
    BY <1>b DEF Pos
  <2>3. ASSUME NEW i \in Pos(t) PROVE \E n \in Pos(u) : f[n] = i
    <3>1. i \in 1 .. N /\ t[i] \notin NoWord
      BY <1>0 DEF Pos
    <3>2. i \in D
      BY <1>0, <3>1 DEF KeepsWords
    <3>3. PICK n \in 1 .. M : f[n] = i
      BY <1>3, <3>2
    <3>. QED BY <2>1, <3>3
  <2>. QED BY <2>1, <2>2, <2>3 DEF At
<1>9. Keep(Vals(u), Pos(u)) = Keep(Vals(t), Pos(t))
  BY <1>7, <1>8, KeepAlong
<1>. QED BY <1>1, <1>9, SeenIs DEF u

\* None of the passes that normalize() and extract() are made of touches a word.
LEMMA PassesKeepWords ==
  ASSUME NEW t \in Str
  PROVE  /\ Seen(Nfc(t)) = Seen(t)
         /\ Seen(LineEnds(t)) = Seen(t)
         /\ Seen(Visible(t)) = Seen(t)
         /\ Seen(WithoutTrailing(t)) = Seen(t)
         /\ Seen(WithoutBlankRuns(t)) = Seen(t)
         /\ Seen(Strip(t)) = Seen(t)
         /\ Seen(RStrip(t)) = Seen(t)
<1>. DEFINE N == Len(t)
<1>0. N \in Nat /\ DOMAIN t = 1 .. N /\ N = Len(t)
  BY DEF Str
<1>w. Blank \subseteq NoWord
  BY DEF NoWord
<1>. HIDE DEF N
<1>1. Seen(Nfc(t)) = Seen(t)
  <2>1. Nfc(t) \in Str /\ Composed(Nfc(t))
    BY PassesAreTexts, NfcPass
  <2>2. Nfc(Nfc(t)) = Nfc(t)
    BY <2>1, NfcFixed
  <2>. QED BY <2>2 DEF Seen
<1>2. Seen(LineEnds(t)) = Seen(t)
  <2>. DEFINE u == [i \in DOMAIN t |-> IF t[i] = Cr THEN Nl ELSE t[i]]
              D == {i \in DOMAIN t : ~ (t[i] = Nl /\ i > 1 /\ t[i - 1] = Cr)}
  <2>1. u \in Str /\ Len(u) = N /\ \A i \in 1 .. N : u[i] = IF t[i] = Cr THEN Nl ELSE t[i]
    <3>1. \A i \in 1 .. N : t[i] \in Char /\ Nl \in Char
      BY <1>0 DEF Str, Char
    <3>. QED BY <1>0, <3>1 DEF Str
  <2>2. D \subseteq 1 .. N /\ \A i \in 1 .. N : i \notin D => t[i] = Nl /\ i > 1 /\ t[i - 1] = Cr
    BY <1>0
  <2>3. LineEnds(t) = Keep(u, D)
    BY DEF LineEnds
  <2>. HIDE DEF u, D
  <2>4. Seen(u) = Seen(t)
    BY <1>0, <2>1, WordCharacters, BlankForBlank
  <2>5. KeepsWords(u, D)
    <3>1. \A i \in 1 .. N : i \notin D => u[i] \in NoWord
      BY <2>1, <2>2, WordCharacters
    <3>2. ASSUME NEW p \in D, NEW q \in D, p + 1 < q, \A i \in p + 1 .. q - 1 : i \notin D PROVE u[p] # "a"
      <4>1. p \in 1 .. N /\ q \in 1 .. N /\ p + 1 \in p + 1 .. q - 1 /\ p + 1 \in 1 .. N /\ (p + 1) - 1 = p
        BY <1>0, <2>2, <3>2
      <4>2. t[p] = Cr
        BY <2>2, <3>2, <4>1
      <4>. QED BY <2>1, <4>1, <4>2, Apart
    <3>. QED BY <2>1, <3>1, <3>2 DEF KeepsWords
  <2>6. Seen(Keep(u, D)) = Seen(u)
    BY <2>1, <2>2, <2>5, FewerBlanks
  <2>. QED BY <2>3, <2>4, <2>6
<1>3. Seen(Visible(t)) = Seen(t)
  <2>1. /\ Visible(t) \in Str /\ Len(Visible(t)) = N
        /\ \A i \in 1 .. N : Visible(t)[i] = IF t[i] = Inv THEN Sp ELSE t[i]
    <3>1. Visible(t) \in Str
      BY PassesAreTexts
    <3>2. Visible(t) = [i \in 1 .. N |-> IF t[i] = Inv THEN Sp ELSE t[i]]
      BY <1>0 DEF Visible
    <3>. QED BY <1>0, <3>1, <3>2 DEF Str
  <2>. QED BY <1>0, <2>1, WordCharacters, BlankForBlank
<1>4. Seen(WithoutTrailing(t)) = Seen(t)
  <2>. DEFINE trailing(i) == \E e \in i + 1 .. Len(t) + 1 : /\ e = Len(t) + 1 \/ t[e] = Nl
                                                            /\ \A j \in i .. e - 1 : t[j] = Sp
              D == {i \in DOMAIN t : ~ trailing(i)}
  <2>1. WithoutTrailing(t) = Keep(t, D)
    BY DEF WithoutTrailing
  <2>2. D \subseteq 1 .. N /\ \A i \in 1 .. N : i \notin D => trailing(i)
    BY <1>0
  <2>. HIDE DEF D
  <2>3. ASSUME NEW i \in 1 .. N, i \notin D PROVE t[i] \in NoWord
    <3>1. PICK e \in i + 1 .. N + 1 : \A j \in i .. e - 1 : t[j] = Sp
      BY <1>0, <2>2, <2>3
    <3>2. i \in i .. e - 1
      BY <1>0, <3>1
    <3>. QED BY <3>1, <3>2, WordCharacters
  <2>4. ASSUME NEW p \in D, NEW q \in D, p + 1 < q, \A i \in p + 1 .. q - 1 : i \notin D PROVE t[q] # Mark
    <3>1. p \in 1 .. N /\ q \in 1 .. N /\ q - 1 \in p + 1 .. q - 1 /\ q - 1 \in 1 .. N
      BY <1>0, <2>2, <2>4
    <3>2. PICK e \in (q - 1) + 1 .. N + 1 : /\ e = N + 1 \/ t[e] = Nl
                                            /\ \A j \in q - 1 .. e - 1 : t[j] = Sp
      BY <1>0, <2>2, <2>4, <3>1
    <3>3. CASE e = q
      BY <1>0, <3>1, <3>2, <3>3, Apart
    <3>4. CASE e # q
      <4>1. q \in q - 1 .. e - 1
        BY <1>0, <3>1, <3>2, <3>4
      <4>. QED BY <3>2, <4>1, Apart
    <3>. QED BY <3>3, <3>4
  <2>5. KeepsWords(t, D)
    BY <1>0, <2>3, <2>4 DEF KeepsWords
  <2>. QED BY <1>0, <2>1, <2>2, <2>5, FewerBlanks
<1>5. Seen(WithoutBlankRuns(t)) = Seen(t)
  <2>. DEFINE D == {i \in DOMAIN t : ~ (i > 2 /\ t[i] = Nl /\ t[i - 1] = Nl /\ t[i - 2] = Nl)}
  <2>1. WithoutBlankRuns(t) = Keep(t, D)
    BY DEF WithoutBlankRuns
  <2>2. D \subseteq 1 .. N /\ \A i \in 1 .. N : i \notin D => t[i] = Nl /\ t[i - 1] = Nl
    BY <1>0
  <2>. HIDE DEF D
  <2>3. ASSUME NEW p \in D, NEW q \in D, p + 1 < q, \A i \in p + 1 .. q - 1 : i \notin D PROVE t[p] # "a"
    <3>1. p \in 1 .. N /\ q \in 1 .. N /\ p + 1 \in p + 1 .. q - 1 /\ p + 1 \in 1 .. N /\ (p + 1) - 1 = p
      BY <1>0, <2>2, <2>3
    <3>2. t[p] = Nl
      BY <2>2, <2>3, <3>1
    <3>. QED BY <3>2, Apart
  <2>4. KeepsWords(t, D)
    BY <1>0, <2>2, <2>3, WordCharacters DEF KeepsWords
  <2>. QED BY <1>0, <2>1, <2>2, <2>4, FewerBlanks
<1>6. Seen(Strip(t)) = Seen(t)
  <2>. DEFINE D == {i \in DOMAIN t : /\ \E j \in 1 .. i : t[j] \notin Blank
                                     /\ \E j \in i .. Len(t) : t[j] \notin Blank}
  <2>1. Strip(t) = Keep(t, D)
    BY DEF Strip
  <2>2. \A i : i \in D <=> /\ i \in 1 .. N
                           /\ \E j \in 1 .. i : t[j] \notin Blank
                           /\ \E j \in i .. N : t[j] \notin Blank
    BY <1>0
  <2>. HIDE DEF D
  <2>3. ASSUME NEW i \in 1 .. N, i \notin D PROVE t[i] \in NoWord
    <3>1. i \in 1 .. i /\ i \in i .. N
      BY <1>0
    <3>. QED BY <1>w, <2>2, <2>3, <3>1
  <2>4. ASSUME NEW p \in D, NEW q \in D, p + 1 < q PROVE p + 1 \in D /\ p + 1 \in p + 1 .. q - 1
    <3>1. p \in 1 .. N /\ q \in 1 .. N
      BY <2>2
    <3>2. PICK j \in 1 .. p : t[j] \notin Blank
      BY <2>2
    <3>3. PICK k \in q .. N : t[k] \notin Blank
      BY <2>2
    <3>4. p + 1 \in 1 .. N /\ j \in 1 .. p + 1 /\ k \in p + 1 .. N /\ p + 1 \in p + 1 .. q - 1
      BY <1>0, <2>4, <3>1, <3>2, <3>3
    <3>. QED BY <2>2, <3>2, <3>3, <3>4
  <2>5. KeepsWords(t, D)
    BY <1>0, <2>3, <2>4 DEF KeepsWords
  <2>6. D \subseteq 1 .. Len(t)
    BY <1>0, <2>2
  <2>. QED BY <2>1, <2>5, <2>6, FewerBlanks
<1>7. Seen(RStrip(t)) = Seen(t)
  <2>. DEFINE D == {i \in DOMAIN t : \E j \in i .. Len(t) : t[j] \notin Blank}
  <2>1. RStrip(t) = Keep(t, D)
    BY DEF RStrip
  <2>2. \A i : i \in D <=> i \in 1 .. N /\ \E j \in i .. N : t[j] \notin Blank
    BY <1>0
  <2>. HIDE DEF D
  <2>3. ASSUME NEW i \in 1 .. N, i \notin D PROVE t[i] \in NoWord
    <3>1. i \in i .. N
      BY <1>0
    <3>. QED BY <1>w, <2>2, <2>3, <3>1
  <2>4. ASSUME NEW p \in D, NEW q \in D, p + 1 < q PROVE p + 1 \in D /\ p + 1 \in p + 1 .. q - 1
    <3>1. p \in 1 .. N /\ q \in 1 .. N
      BY <2>2
    <3>2. PICK k \in q .. N : t[k] \notin Blank
      BY <2>2
    <3>3. p + 1 \in 1 .. N /\ k \in p + 1 .. N /\ p + 1 \in p + 1 .. q - 1
      BY <1>0, <2>4, <3>1, <3>2
    <3>. QED BY <2>2, <3>2, <3>3
  <2>5. KeepsWords(t, D)
    BY <1>0, <2>3, <2>4 DEF KeepsWords
  <2>6. D \subseteq 1 .. Len(t)
    BY <1>0, <2>2
  <2>. QED BY <2>1, <2>5, <2>6, FewerBlanks
<1>. QED BY <1>1, <1>2, <1>3, <1>4, <1>5, <1>6, <1>7

\* So what is seen of a text is seen of it when it is normalized.
LEMMA NormalizeKeepsWords ==
  ASSUME NEW t \in Str
  PROVE  Seen(Normalize(t)) = Seen(t)
<1>. DEFINE a == Nfc(t)
            b == LineEnds(a)
            c == Visible(b)
            d == WithoutTrailing(c)
            e == WithoutBlankRuns(d)
<1>1. a \in Str /\ b \in Str /\ c \in Str /\ d \in Str /\ e \in Str
  BY PassesAreTexts
<1>2. Seen(Strip(e)) = Seen(t)
  BY <1>1, PassesKeepWords
<1>. QED BY <1>2 DEF Normalize, Tidied

\* Of a text of blanks nothing is seen.
LEMMA NothingToSee ==
  ASSUME NEW t \in Str, \A i \in 1 .. Len(t) : t[i] \in NoWord
  PROVE  Seen(t) = <<>>
<1>1. Pos(t) = {}
  BY DEF Pos, Str
<1>2. Cardinality({}) = 0 /\ 1 .. 0 = {}
  BY FS_EmptySet
<1>3. Keep(Vals(t), {}) = <<>>
  BY <1>2 DEF Keep
<1>. QED BY <1>1, <1>3, SeenIs

\* Of a text that is normalized and not empty the first character is seen.
LEMMA SomethingSeen ==
  ASSUME NEW t, Settled(t), Len(t) # 0
  PROVE  Seen(t) # NoText
<1>. DEFINE P == Pos(t)
            C == Cardinality(P)
<1>0. t \in Str /\ Len(t) \in Nat /\ DOMAIN t = 1 .. Len(t) /\ 1 \in 1 .. Len(t)
  BY DEF Settled, Str
<1>1. t[1] \notin NoWord
  BY <1>0 DEF Settled, Trimmed, Without, NoWord
<1>2. 1 \in P /\ P \subseteq 1 .. Len(t)
  BY <1>0, <1>1 DEF Pos
<1>. HIDE DEF P
<1>3. \E n \in 1 .. C : Nth(P, n) = 1
  BY <1>0, <1>2, NthOrder
<1>4. Seen(t) = [n \in 1 .. C |-> Vals(t)[Nth(P, n)]]
  BY <1>0, SeenIs DEF Keep, P
<1>. HIDE DEF C
<1>5. DOMAIN Seen(t) = 1 .. C /\ DOMAIN NoText = {}
  BY <1>4 DEF NoText
<1>. QED BY <1>3, <1>5

\* What is seen of a text is a text.
LEMMA SeenIsText == ASSUME NEW t \in Str PROVE Seen(t) \in Str
<1>1. Nfc(t) \in Str
  BY PassesAreTexts
<1>2. {i \in DOMAIN Nfc(t) : Nfc(t)[i] \notin Blank \union {Inv}} \subseteq DOMAIN Nfc(t)
  OBVIOUS
<1>. QED BY <1>1, <1>2, KeepIs DEF Seen, Str
-----------------------------------------------------------------------------
(* Words of a text that goes on with another.                              *)

\* A sequence is the function its elements make.
LEMMA AsFunction ==
  ASSUME NEW S, NEW x \in Seq(S)
  PROVE  x = [n \in 1 .. Len(x) |-> x[n]]
OBVIOUS

\* The positions in Q, in a sequence that begins behind the first n.
Behind(n, Q) == {n + j : j \in Q}

\* Of a sequence that goes on with another is kept what is kept of the one and of the other.
KeepsBoth(a, b, P, Q) ==
  Keep(a \o b, P \union Behind(Len(a), Q)) = Keep(a, P) \o Keep(b, Q)

\* So it is.
LEMMA KeepOfBoth ==
  ASSUME NEW S, NEW a \in Seq(S), NEW b \in Seq(S),
         NEW P \in SUBSET (1 .. Len(a)), NEW Q \in SUBSET (1 .. Len(b))
  PROVE  KeepsBoth(a, b, P, Q)
<1>. DEFINE M == Len(a)
            N == Len(b)
            R == P \union Behind(M, Q)
            C == Cardinality(P)
            D == Cardinality(Q)
            g == [n \in 1 .. C + D |-> IF n <= C THEN Nth(P, n) ELSE M + Nth(Q, n - C)]
            u == Keep(a, P)
            w == Keep(b, Q)
<1>0. M \in Nat /\ N \in Nat /\ Following(a, b)
  BY InARow
<1>1. /\ C \in Nat
      /\ \A n \in 1 .. C : Nth(P, n) \in P /\ Nth(P, n) \in 1 .. M
      /\ \A m, n \in 1 .. C : m < n => Nth(P, m) < Nth(P, n)
      /\ \A i \in P : \E n \in 1 .. C : Nth(P, n) = i
  <2>1. P \subseteq 1 .. M
    OBVIOUS
  <2>. HIDE DEF M
  <2>. QED BY <1>0, <2>1, NthOrder
<1>2. /\ D \in Nat
      /\ \A n \in 1 .. D : Nth(Q, n) \in Q /\ Nth(Q, n) \in 1 .. N
      /\ \A m, n \in 1 .. D : m < n => Nth(Q, m) < Nth(Q, n)
      /\ \A i \in Q : \E n \in 1 .. D : Nth(Q, n) = i
  <2>1. Q \subseteq 1 .. N
    OBVIOUS
  <2>. HIDE DEF N
  <2>. QED BY <1>0, <2>1, NthOrder
<1>3. u = [n \in 1 .. C |-> a[Nth(P, n)]] /\ w = [n \in 1 .. D |-> b[Nth(Q, n)]]
  BY DEF Keep
<1>4. u \in Seq(S) /\ w \in Seq(S) /\ Len(u) = C /\ Len(w) = D
  <2>1. P \subseteq DOMAIN a /\ Q \subseteq DOMAIN b
    OBVIOUS
  <2>2. u \in Seq(S) /\ w \in Seq(S)
    BY <2>1, KeepIs
  <2>. QED BY <1>1, <1>2, <1>3, <2>2
<1>5. g = [n \in 1 .. C + D |-> g[n]] /\ \A n \in 1 .. C + D : g[n] = IF n <= C THEN Nth(P, n) ELSE M + Nth(Q, n - C)
  OBVIOUS
<1>6. R \in SUBSET (1 .. M + N) /\ \A i : i \in R <=> i \in P \/ \E j \in Q : i = M + j
  <2>1. \A i : i \in R <=> i \in P \/ \E j \in Q : i = M + j
    BY DEF Behind
  <2>2. \A i \in P : i \in 1 .. M + N
    BY <1>0
  <2>3. \A j \in Q : M + j \in 1 .. M + N
    BY <1>0
  <2>. HIDE DEF R, M, N
  <2>. QED BY <2>1, <2>2, <2>3
<1>. HIDE DEF M, N, R, C, D, g, u, w
<1>7. \A n \in 1 .. C + D : ~ (n <= C) => n - C \in 1 .. D
  BY <1>1, <1>2
<1>8. Lists(g, C + D, R)
  <2>1. ASSUME NEW n \in 1 .. C + D PROVE g[n] \in R
    <3>1. n <= C => n \in 1 .. C
      OBVIOUS
    <3>. QED BY <1>1, <1>2, <1>5, <1>6, <1>7, <3>1
  <2>2. ASSUME NEW m \in 1 .. C + D, NEW n \in 1 .. C + D, m < n PROVE g[m] < g[n]
    <3>0. m \in Int /\ n \in Int
      BY <1>1, <1>2
    <3>1. CASE n <= C
      <4>1. m \in 1 .. C /\ n \in 1 .. C /\ m <= C
        BY <1>1, <2>2, <3>0, <3>1
      <4>. QED BY <1>1, <1>5, <2>2, <3>1, <4>1
    <3>2. CASE ~ (n <= C) /\ m <= C
      <4>1. g[m] = Nth(P, m) /\ g[m] \in 1 .. M
        <5>1. m \in 1 .. C
          BY <1>1, <3>0, <3>2
        <5>. QED BY <1>1, <1>5, <3>2, <5>1
      <4>2. g[n] = M + Nth(Q, n - C) /\ Nth(Q, n - C) \in 1 .. N
        BY <1>2, <1>5, <1>7, <3>2
      <4>. QED BY <1>0, <4>1, <4>2
    <3>3. CASE ~ (n <= C) /\ ~ (m <= C)
      <4>1. m - C \in 1 .. D /\ n - C \in 1 .. D /\ m - C < n - C
        BY <1>1, <1>7, <2>2, <3>0, <3>3
      <4>2. Nth(Q, m - C) < Nth(Q, n - C) /\ Nth(Q, m - C) \in 1 .. N /\ Nth(Q, n - C) \in 1 .. N
        BY <1>2, <4>1
      <4>3. g[m] = M + Nth(Q, m - C) /\ g[n] = M + Nth(Q, n - C)
        BY <1>5, <3>3
      <4>. QED BY <1>0, <4>2, <4>3
    <3>. QED BY <3>1, <3>2, <3>3
  <2>3. ASSUME NEW i \in R PROVE \E n \in 1 .. C + D : g[n] = i
    <3>1. CASE i \in P
      <4>1. PICK n \in 1 .. C : Nth(P, n) = i
        BY <1>1, <3>1
      <4>2. n \in 1 .. C + D /\ n <= C
        BY <1>1, <1>2, <4>1
      <4>. QED BY <1>5, <4>1, <4>2
    <3>2. ASSUME NEW j \in Q, i = M + j PROVE \E n \in 1 .. C + D : g[n] = i
      <4>1. PICK n \in 1 .. D : Nth(Q, n) = j
        BY <1>2
      <4>. DEFINE m == C + n
      <4>2. m \in 1 .. C + D /\ ~ (m <= C) /\ m - C = n
        BY <1>1, <1>2, <4>1
      <4>. HIDE DEF m
      <4>3. g[m] = i
        BY <1>5, <3>2, <4>1, <4>2
      <4>. QED BY <4>2, <4>3
    <3>. QED BY <1>6, <3>1, <3>2
  <2>. QED BY <1>5, <2>1, <2>2, <2>3 DEF Lists
<1>9. C + D = Cardinality(R) /\ \A n \in 1 .. C + D : Nth(R, n) = g[n]
  <2>1. M + N \in Nat /\ C + D \in Nat
    BY <1>0, <1>1, <1>2
  <2>. QED BY <1>6, <1>8, <2>1, OneNumbering
<1>10. Keep(a \o b, R) = [n \in 1 .. C + D |-> (a \o b)[g[n]]]
  BY <1>9 DEF Keep
<1>11. Following(u, w)
  BY <1>4, InARow
<1>12. ASSUME NEW n \in 1 .. C + D PROVE (a \o b)[g[n]] = (u \o w)[n]
  <2>1. CASE n <= C
    <3>1. n \in 1 .. C
      BY <2>1
    <3>2. g[n] \in 1 .. M /\ g[n] = Nth(P, n)
      BY <1>1, <1>5, <2>1, <3>1
    <3>3. (a \o b)[g[n]] = a[Nth(P, n)]
      BY <1>0, <3>2 DEF Following, M
    <3>4. (u \o w)[n] = u[n]
      BY <1>4, <1>11, <3>1 DEF Following
    <3>. QED BY <1>3, <3>1, <3>3, <3>4
  <2>2. CASE ~ (n <= C)
    <3>1. n - C \in 1 .. D /\ C + (n - C) = n
      BY <1>1, <1>2, <1>7, <2>2
    <3>2. g[n] = M + Nth(Q, n - C) /\ Nth(Q, n - C) \in 1 .. N
      BY <1>2, <1>5, <2>2, <3>1
    <3>3. (a \o b)[g[n]] = b[Nth(Q, n - C)]
      BY <1>0, <3>2 DEF Following, M, N
    <3>4. (u \o w)[n] = w[n - C]
      <4>1. (u \o w)[C + (n - C)] = w[n - C]
        BY <1>4, <1>11, <3>1 DEF Following
      <4>. QED BY <3>1, <4>1
    <3>. QED BY <1>3, <3>1, <3>3, <3>4
  <2>. QED BY <2>1, <2>2
<1>13. u \o w = [n \in 1 .. C + D |-> (u \o w)[n]]
  <2>1. u \o w \in Seq(S) /\ Len(u \o w) = C + D
    BY <1>4, <1>11 DEF Following
  <2>2. u \o w = [n \in 1 .. Len(u \o w) |-> (u \o w)[n]]
    BY <2>1, AsFunction
  <2>. QED BY <2>1, <2>2
<1>. QED BY <1>10, <1>12, <1>13 DEF R, M, u, w, KeepsBoth

\* What is seen of one text after another is seen of the one and of the other,
\* unless an accent is composed across the seam.
LEMMA SeenOfBoth ==
  ASSUME NEW a \in Str, NEW b \in Str,
         Len(a) = 0 \/ Len(b) = 0 \/ a[Len(a)] # "a" \/ b[1] # Mark
  PROVE  Seen(a \o b) = Seen(a) \o Seen(b)
<1>. DEFINE M == Len(a)
            N == Len(b)
            t == a \o b
<1>0. /\ M \in Nat /\ N \in Nat /\ t \in Str /\ Len(t) = M + N
      /\ DOMAIN a = 1 .. M /\ DOMAIN b = 1 .. N /\ DOMAIN t = 1 .. M + N
      /\ \A i \in 1 .. M : t[i] = a[i]
      /\ \A j \in 1 .. N : t[M + j] = b[j]
  <2>1. Following(a, b)
    BY InARow DEF Str
  <2>. QED BY <2>1 DEF Following, Str
<1>. HIDE DEF t
<1>1. ASSUME NEW i \in 1 .. M
      PROVE  /\ i < M + N /\ t[i] = "a" /\ t[i + 1] = Mark <=> i < M /\ a[i] = "a" /\ a[i + 1] = Mark
             /\ t[i] = Mark /\ i > 1 /\ t[i - 1] = "a" <=> a[i] = Mark /\ i > 1 /\ a[i - 1] = "a"
             /\ i \in 1 .. M + N
  <2>1. CASE i < M
    <3>1. i + 1 \in 1 .. M /\ t[i + 1] = a[i + 1] /\ i < M + N
      BY <1>0, <2>1
    <3>2. i > 1 => i - 1 \in 1 .. M
      BY <1>0
    <3>. QED BY <1>0, <2>1, <3>1, <3>2
  <2>2. CASE ~ (i < M)
    <3>0. i = M
      <4>1. M \in Nat
        BY <1>0
      <4>. HIDE DEF M
      <4>. QED BY <2>2, <4>1
    <3>1. i > 1 => i - 1 \in 1 .. M
      BY <1>0
    <3>2. ~ (M < M + N /\ a[M] = "a" /\ t[M + 1] = Mark)
      <4>1. M < M + N => 1 \in 1 .. N /\ t[M + 1] = b[1]
        BY <1>0
      <4>2. M # 0
        BY <3>0
      <4>. QED BY <1>0, <4>1, <4>2
    <3>. QED BY <1>0, <3>0, <3>1, <3>2
  <2>. QED BY <2>1, <2>2
<1>2. ASSUME NEW j \in 1 .. N
      PROVE  /\ M + j < M + N /\ t[M + j] = "a" /\ t[(M + j) + 1] = Mark <=> j < N /\ b[j] = "a" /\ b[j + 1] = Mark
             /\ t[M + j] = Mark /\ M + j > 1 /\ t[(M + j) - 1] = "a" <=> b[j] = Mark /\ j > 1 /\ b[j - 1] = "a"
             /\ M + j \in 1 .. M + N
  <2>0. t[M + j] = b[j] /\ M + j \in 1 .. M + N
    BY <1>0
  <2>1. j < N => t[(M + j) + 1] = b[j + 1]
    <3>1. j < N => j + 1 \in 1 .. N /\ M + (j + 1) = (M + j) + 1
      BY <1>0
    <3>. QED BY <1>0, <3>1
  <2>2. M + j < M + N <=> j < N
    BY <1>0
  <2>3. CASE j > 1
    <3>1. j - 1 \in 1 .. N /\ M + (j - 1) = (M + j) - 1 /\ M + j > 1
      BY <1>0, <2>3
    <3>2. t[(M + j) - 1] = b[j - 1]
      BY <1>0, <3>1
    <3>. QED BY <2>0, <2>1, <2>2, <2>3, <3>1, <3>2
  <2>4. CASE ~ (j > 1)
    <3>1. j = 1 /\ (M + j) - 1 = M
      BY <1>0, <2>4
    <3>2. M + j > 1 => M # 0 /\ M \in 1 .. M
      BY <1>0, <3>1
    <3>3. ~ (b[j] = Mark /\ M + j > 1 /\ t[(M + j) - 1] = "a")
      BY <1>0, <3>1, <3>2
    <3>. QED BY <2>0, <2>1, <2>2, <2>4, <3>3
  <2>. QED BY <2>3, <2>4
<1>. DEFINE va == Vals(a)
            vb == Vals(b)
            V == {va[i] : i \in 1 .. M} \union {vb[j] : j \in 1 .. N}
<1>3. /\ va = [i \in 1 .. M |-> IF i < M /\ a[i] = "a" /\ a[i + 1] = Mark THEN Accented ELSE a[i]]
      /\ vb = [j \in 1 .. N |-> IF j < N /\ b[j] = "a" /\ b[j + 1] = Mark THEN Accented ELSE b[j]]
      /\ Vals(t) = [i \in 1 .. M + N |-> IF i < M + N /\ t[i] = "a" /\ t[i + 1] = Mark THEN Accented ELSE t[i]]
  BY <1>0 DEF Vals
<1>4. va \in Seq(V) /\ vb \in Seq(V) /\ Len(va) = M /\ Len(vb) = N
  <2>1. va = [i \in 1 .. M |-> va[i]] /\ vb = [j \in 1 .. N |-> vb[j]]
    BY <1>3
  <2>2. (\A i \in 1 .. M : va[i] \in V) /\ \A j \in 1 .. N : vb[j] \in V
    OBVIOUS
  <2>. HIDE DEF va, vb, V, M, N
  <2>. QED BY <1>0, <2>1, <2>2, SequenceOf
<1>5. Vals(t) = va \o vb
  <2>1. Following(va, vb)
    <3>. HIDE DEF va, vb, V
    <3>. QED BY <1>4, InARow
  <2>2. va \o vb \in Seq(V)
    <3>. HIDE DEF va, vb, V
    <3>. QED BY <1>4
  <2>3. va \o vb = [n \in 1 .. M + N |-> (va \o vb)[n]]
    <3>1. Len(va \o vb) = M + N
      BY <1>4, <2>1 DEF Following
    <3>2. va \o vb = [n \in 1 .. Len(va \o vb) |-> (va \o vb)[n]]
      <4>. HIDE DEF va, vb, V
      <4>. QED BY <2>2, AsFunction
    <3>. QED BY <3>1, <3>2
  <2>4. ASSUME NEW n \in 1 .. M + N PROVE Vals(t)[n] = (va \o vb)[n]
    <3>1. CASE n \in 1 .. M
      <4>1. (va \o vb)[n] = va[n]
        BY <1>4, <2>1, <3>1 DEF Following
      <4>. HIDE DEF va, vb
      <4>. QED BY <1>0, <1>1, <1>3, <3>1, <4>1
    <3>2. CASE n \notin 1 .. M
      <4>. DEFINE j == n - M
      <4>1. j \in 1 .. N /\ n = M + j
        BY <1>0, <3>2
      <4>. HIDE DEF j
      <4>2. (va \o vb)[M + j] = vb[j]
        BY <1>4, <2>1, <4>1 DEF Following
      <4>3. vb[j] = IF j < N /\ b[j] = "a" /\ b[j + 1] = Mark THEN Accented ELSE b[j]
        BY <1>3, <4>1
      <4>4. Vals(t)[n] = IF n < M + N /\ t[n] = "a" /\ t[n + 1] = Mark THEN Accented ELSE t[n]
        BY <1>3
      <4>5. t[n] = b[j]
        BY <1>0, <4>1
      <4>6. n < M + N /\ t[n] = "a" /\ t[n + 1] = Mark <=> j < N /\ b[j] = "a" /\ b[j + 1] = Mark
        BY <1>2, <4>1
      <4>. QED BY <4>1, <4>2, <4>3, <4>4, <4>5, <4>6
    <3>. QED BY <3>1, <3>2
  <2>5. Vals(t) = [n \in 1 .. M + N |-> Vals(t)[n]]
    BY <1>3
  <2>. HIDE DEF va, vb, M, N
  <2>. QED BY <2>3, <2>4, <2>5
<1>6. Pos(t) = Pos(a) \union Behind(M, Pos(b))
  <2>1. \A i \in 1 .. M : i \in Pos(t) <=> i \in Pos(a)
    BY <1>0, <1>1 DEF Pos
  <2>2. \A j \in 1 .. N : M + j \in Pos(t) <=> j \in Pos(b)
    BY <1>0, <1>2 DEF Pos
  <2>3. Pos(t) \subseteq 1 .. M + N /\ Pos(a) \subseteq 1 .. M /\ Pos(b) \subseteq 1 .. N
    BY <1>0 DEF Pos
  <2>4. ASSUME NEW i \in Pos(t) PROVE i \in Pos(a) \union Behind(M, Pos(b))
    <3>1. CASE i \in 1 .. M
      BY <2>1, <3>1
    <3>2. CASE i \notin 1 .. M
      <4>1. i - M \in 1 .. N /\ M + (i - M) = i
        BY <1>0, <2>3, <3>2
      <4>2. i - M \in Pos(b)
        BY <2>2, <4>1
      <4>. QED BY <4>1, <4>2 DEF Behind
    <3>. QED BY <3>1, <3>2
  <2>5. \A i \in Pos(a) : i \in Pos(t)
    BY <2>1, <2>3
  <2>6. \A i \in Behind(M, Pos(b)) : i \in Pos(t)
    BY <2>2, <2>3 DEF Behind
  <2>. QED BY <2>4, <2>5, <2>6
<1>7. Pos(a) \in SUBSET (1 .. M) /\ Pos(b) \in SUBSET (1 .. N)
  BY <1>0 DEF Pos
<1>8. Keep(va \o vb, Pos(a) \union Behind(M, Pos(b))) = Keep(va, Pos(a)) \o Keep(vb, Pos(b))
  <2>1. Pos(a) \in SUBSET (1 .. Len(va)) /\ Pos(b) \in SUBSET (1 .. Len(vb))
    BY <1>4, <1>7
  <2>2. Keep(va \o vb, Pos(a) \union Behind(Len(va), Pos(b))) = Keep(va, Pos(a)) \o Keep(vb, Pos(b))
    <3>. HIDE DEF va, vb, V
    <3>1. va \in Seq(V) /\ vb \in Seq(V)
      BY <1>4
    <3>2. KeepsBoth(va, vb, Pos(a), Pos(b))
      BY <2>1, <3>1, KeepOfBoth
    <3>. QED BY <3>2 DEF KeepsBoth
  <2>. QED BY <1>4, <2>2
<1>9. Seen(t) = Keep(Vals(t), Pos(t)) /\ Seen(a) = Keep(Vals(a), Pos(a)) /\ Seen(b) = Keep(Vals(b), Pos(b))
  BY <1>0, SeenIs
<1>. QED BY <1>5, <1>6, <1>8, <1>9 DEF t

\* A gap of blanks joins and adds nothing.
LEMMA SeenAcross ==
  ASSUME NEW a \in Str, NEW g \in Str, NEW b \in Str,
         Len(g) # 0, \A i \in 1 .. Len(g) : g[i] \in NoWord
  PROVE  Seen((a \o g) \o b) = Seen(a) \o Seen(b)
<1>1. a \o g \in Str /\ Len(g) \in Nat /\ Len(a) \in Nat /\ Seen(a) \in Str
  BY SeenIsText DEF Str
<1>2. g[1] # Mark /\ g[Len(g)] # "a"
  <2>1. 1 \in 1 .. Len(g) /\ Len(g) \in 1 .. Len(g)
    BY <1>1
  <2>. QED BY <2>1, WordCharacters
<1>3. Seen(a \o g) = Seen(a)
  <2>1. Seen(a \o g) = Seen(a) \o Seen(g)
    BY <1>2, SeenOfBoth
  <2>2. Seen(g) = <<>>
    BY NothingToSee
  <2>3. Seen(a) \o <<>> = Seen(a)
    BY <1>1 DEF Str
  <2>. QED BY <2>1, <2>2, <2>3
<1>4. (a \o g)[Len(a \o g)] # "a"
  <2>1. Following(a, g)
    BY InARow DEF Str
  <2>2. Len(a \o g) = Len(a) + Len(g) /\ Len(g) \in 1 .. Len(g)
    BY <1>1, <2>1 DEF Following
  <2>3. (a \o g)[Len(a) + Len(g)] = g[Len(g)]
    BY <2>1, <2>2 DEF Following
  <2>. QED BY <1>2, <2>2, <2>3
<1>5. Seen((a \o g) \o b) = Seen(a \o g) \o Seen(b)
  BY <1>1, <1>4, SeenOfBoth
<1>. QED BY <1>3, <1>5
-----------------------------------------------------------------------------
(* Words of several texts.                                                 *)

\* One text and then another.
Then(x, y) == x \o y

\* Nothing before or after a text changes it.
LEMMA ThenIs ==
  ASSUME NEW x \in Str, NEW y \in Str, NEW z \in Str
  PROVE  /\ Then(x, y) \in Str
         /\ Then(x, <<>>) = x /\ Then(<<>>, x) = x
         /\ Then(x, Then(y, z)) = Then(Then(x, y), z)
<1>1. x \in Seq(Char) /\ y \in Seq(Char) /\ z \in Seq(Char)
  BY DEF Str
<1>2. x \o y \in Seq(Char) /\ x \o <<>> = x /\ <<>> \o x = x
  BY <1>1
<1>3. x \o (y \o z) = (x \o y) \o z
  <2>. DEFINE a == x \o (y \o z)
              b == (x \o y) \o z
  <2>1. Following(y, z) /\ Following(x, y)
    BY <1>1, InARow
  <2>2. y \o z \in Seq(Char) /\ x \o y \in Seq(Char)
    BY <1>1
  <2>3. Following(x, y \o z) /\ Following(x \o y, z)
    BY <1>1, <2>2, InARow
  <2>4. a \in Seq(Char) /\ b \in Seq(Char)
    BY <1>1, <2>2
  <2>. DEFINE M == Len(x)
              N == Len(y)
              O == Len(z)
  <2>5. M \in Nat /\ N \in Nat /\ O \in Nat
    BY <1>1
  <2>6. /\ Len(a) = M + (N + O)
        /\ \A i \in 1 .. M : a[i] = x[i]
        /\ \A i \in 1 .. N : a[M + i] = y[i]
        /\ \A i \in 1 .. O : a[M + (N + i)] = z[i]
    <3>. DEFINE u == y \o z
    <3>1. Len(u) = N + O /\ (\A i \in 1 .. N : u[i] = y[i]) /\ \A i \in 1 .. O : u[N + i] = z[i]
      BY <2>1 DEF Following
    <3>2. /\ Len(a) = M + Len(u) /\ (\A i \in 1 .. M : a[i] = x[i])
          /\ \A i \in 1 .. Len(u) : a[M + i] = u[i]
      BY <2>3 DEF Following
    <3>. HIDE DEF u, a
    <3>3. \A i \in 1 .. N : i \in 1 .. Len(u)
      BY <2>5, <3>1
    <3>4. \A i \in 1 .. O : N + i \in 1 .. Len(u)
      BY <2>5, <3>1
    <3>. HIDE DEF M, N, O
    <3>. QED BY <3>1, <3>2, <3>3, <3>4
  <2>7. /\ Len(b) = (M + N) + O
        /\ \A i \in 1 .. M : b[i] = x[i]
        /\ \A i \in 1 .. N : b[M + i] = y[i]
        /\ \A i \in 1 .. O : b[(M + N) + i] = z[i]
    <3>. DEFINE u == x \o y
    <3>1. Len(u) = M + N /\ (\A i \in 1 .. M : u[i] = x[i]) /\ \A i \in 1 .. N : u[M + i] = y[i]
      BY <2>1 DEF Following
    <3>2. /\ Len(b) = Len(u) + O /\ (\A i \in 1 .. Len(u) : b[i] = u[i])
          /\ \A i \in 1 .. O : b[Len(u) + i] = z[i]
      BY <2>3 DEF Following
    <3>. HIDE DEF u, b
    <3>3. \A i \in 1 .. M : i \in 1 .. Len(u)
      BY <2>5, <3>1
    <3>4. \A i \in 1 .. N : M + i \in 1 .. Len(u)
      BY <2>5, <3>1
    <3>. HIDE DEF M, N, O
    <3>. QED BY <3>1, <3>2, <3>3, <3>4
  <2>8. a = [n \in 1 .. Len(a) |-> a[n]] /\ b = [n \in 1 .. Len(b) |-> b[n]]
    <3>. HIDE DEF a, b
    <3>. QED BY <2>4, AsFunction
  <2>. HIDE DEF a, b, M, N, O
  <2>9. ASSUME NEW n \in 1 .. (M + N) + O PROVE a[n] = b[n]
    <3>1. CASE n \in 1 .. M
      BY <2>6, <2>7, <3>1
    <3>2. CASE n \notin 1 .. M /\ n <= M + N
      <4>1. n - M \in 1 .. N /\ M + (n - M) = n
        BY <2>5, <3>2
      <4>2. a[M + (n - M)] = y[n - M] /\ b[M + (n - M)] = y[n - M]
        BY <2>6, <2>7, <4>1
      <4>. QED BY <4>1, <4>2
    <3>3. CASE ~ (n <= M + N)
      <4>. DEFINE i == n - (M + N)
      <4>1. i \in 1 .. O /\ M + (N + i) = n /\ (M + N) + i = n
        BY <2>5, <3>3
      <4>. HIDE DEF i
      <4>2. a[M + (N + i)] = z[i] /\ b[(M + N) + i] = z[i]
        BY <2>6, <2>7, <4>1
      <4>. QED BY <4>1, <4>2
    <3>. QED BY <3>1, <3>2, <3>3
  <2>10. Len(a) = (M + N) + O /\ Len(b) = (M + N) + O
    BY <2>5, <2>6, <2>7
  <2>11. a = b
    BY <2>8, <2>9, <2>10
  <2>. QED BY <2>11 DEF a, b
<1>4. x \o <<>> = x /\ <<>> \o x = x /\ x \o y \in Str
  BY <1>2 DEF Str
<1>. QED BY <1>3, <1>4 DEF Then

\* In which order texts are put together does not matter.
LEMMA ThenThrice ==
  ASSUME NEW x \in Str, NEW y \in Str, NEW z \in Str
  PROVE  Then(x, Then(y, z)) = Then(Then(x, y), z)
BY ThenIs

\* d[k] are the words of the first k texts.
Tells(d, ts) ==
  /\ d[0] = <<>>
  /\ \A k \in 1 .. Len(ts) : d[k] = Then(d[k - 1], Seen(ts[k]))

\* What is seen of each text, in a row.
LEMMA WordsFlatten ==
  ASSUME NEW ts \in Seq(Str), NEW ss, ss = [k \in DOMAIN ts |-> Seen(ts[k])]
  PROVE  /\ ss \in Seq(Str) /\ Len(ss) = Len(ts) /\ Len(ts) \in Nat /\ DOMAIN ts = 1 .. Len(ts)
         /\ Words(ts) = FlattenSeq(ss)
         /\ Words(ts) \in Str
         /\ \A k \in 1 .. Len(ts) : ts[k] \in Str /\ Seen(ts[k]) \in Str /\ ss[k] = Seen(ts[k])
<1>1. Len(ts) \in Nat /\ DOMAIN ts = 1 .. Len(ts) /\ \A k \in 1 .. Len(ts) : ts[k] \in Str
  OBVIOUS
<1>2. \A k \in 1 .. Len(ts) : Seen(ts[k]) \in Str /\ ss[k] = Seen(ts[k])
  BY <1>1, SeenIsText
<1>3. ss = [k \in 1 .. Len(ts) |-> ss[k]] /\ \A k \in 1 .. Len(ts) : ss[k] \in Str
  BY <1>1, <1>2
<1>4. ss \in Seq(Str) /\ Len(ss) = Len(ts)
  BY <1>1, <1>3, SequenceOf
<1>5. Words(ts) = FlattenSeq(ss)
  BY DEF Words
<1>6. FlattenSeq(ss) \in Str
  BY <1>4, FlattenIs DEF Str
<1>. QED BY <1>1, <1>2, <1>4, <1>5, <1>6

\* The words of some texts, told one text after another, are their words.
LEMMA WordsTold ==
  ASSUME NEW ts \in Seq(Str), NEW d, Tells(d, ts)
  PROVE  Words(ts) = d[Len(ts)] /\ \A k \in 0 .. Len(ts) : d[k] \in Str
<1>. DEFINE N == Len(ts)
            ss == [k \in DOMAIN ts |-> Seen(ts[k])]
            Good == {k \in 0 .. N : d[k] \in Str}
<1>1. /\ ss \in Seq(Str) /\ Len(ss) = N /\ N \in Nat /\ N = Len(ts)
      /\ Words(ts) = FlattenSeq(ss)
      /\ \A k \in 1 .. N : Seen(ts[k]) \in Str /\ ss[k] = Seen(ts[k])
  BY WordsFlatten
<1>. HIDE DEF ss, N
<1>2. /\ d[0] = <<>> /\ <<>> \in Str
      /\ \A k \in 1 .. N : d[k] = Then(d[k - 1], ss[k])
  BY <1>1 DEF Tells, Str
<1>3. \A k \in 0 .. N : k \in Good
  <2>1. 0 \in Good
    BY <1>1, <1>2
  <2>2. ASSUME NEW k \in 1 .. N, k - 1 \in Good PROVE k \in Good
    <3>1. d[k - 1] \in Str /\ ss[k] \in Str
      BY <1>1, <2>2
    <3>2. Then(d[k - 1], ss[k]) \in Str
      BY <3>1, ThenIs
    <3>. QED BY <1>1, <1>2, <3>2
  <2>. HIDE DEF Good
  <2>. QED BY <1>1, <2>1, <2>2, CountUp
<1>4. CASE N = 0
  <2>1. ss = <<>>
    BY <1>1, <1>4
  <2>2. FlattenSeq(ss) = <<>>
    BY <1>1, <2>1, FlattenIs DEF Str
  <2>. QED BY <1>1, <1>2, <1>3, <1>4, <2>2
<1>5. CASE N # 0
  <2>1. ss # <<>>
    BY <1>1, <1>5
  <2>2. PICK c : Builds(c, Char, ss) /\ FlattenSeq(ss) = c[N]
    BY <1>1, <2>1, FlattenIs DEF Str
  <2>. DEFINE Same == {k \in 0 .. N : k = 0 \/ c[k] = d[k]}
  <2>3. \A k \in 0 .. N : k \in Same
    <3>1. 0 \in Same
      BY <1>1
    <3>2. ASSUME NEW k \in 1 .. N, k - 1 \in Same PROVE k \in Same
      <4>1. c[k] = IF k = 1 THEN ss[k] ELSE Then(c[k - 1], ss[k])
        BY <1>1, <2>2 DEF Builds, Then
      <4>2. CASE k = 1
        <5>1. Then(<<>>, ss[k]) = ss[k]
          BY <1>1, ThenIs
        <5>2. d[k] = Then(d[0], ss[k])
          BY <1>2, <4>2
        <5>. QED BY <1>1, <1>2, <4>1, <4>2, <5>1, <5>2
      <4>3. CASE k # 1
        <5>1. c[k - 1] = d[k - 1]
          BY <3>2, <4>3
        <5>. QED BY <1>1, <1>2, <4>1, <4>3, <5>1
      <4>. QED BY <4>2, <4>3
    <3>. HIDE DEF Same
    <3>. QED BY <1>1, <3>1, <3>2, CountUp
  <2>4. c[N] = d[N]
    BY <1>1, <1>5, <2>3
  <2>. QED BY <1>1, <1>3, <2>2, <2>4 DEF N
<1>. QED BY <1>4, <1>5, <1>3 DEF N

\* They can be told so.
LEMMA Told ==
  ASSUME NEW ts \in Seq(Str)
  PROVE  \E d : Tells(d, ts)
<1>. DEFINE N == Len(ts)
            ss == [k \in DOMAIN ts |-> Seen(ts[k])]
<1>1. /\ ss \in Seq(Str) /\ Len(ss) = N /\ N \in Nat
      /\ \A k \in 1 .. N : Seen(ts[k]) \in Str /\ ss[k] = Seen(ts[k])
  BY WordsFlatten
<1>. HIDE DEF ss
<1>2. CASE N = 0
  <2>. DEFINE d == [k \in 0 .. 0 |-> <<>>]
  <2>1. d[0] = <<>> /\ 1 .. N = {}
    BY <1>2
  <2>2. Tells(d, ts)
    BY <2>1 DEF Tells
  <2>. QED BY <2>2
<1>3. CASE N # 0
  <2>1. ss # <<>>
    BY <1>1, <1>3
  <2>2. PICK c : Builds(c, Char, ss)
    BY <1>1, <2>1, FlattenIs DEF Str
  <2>. DEFINE d == [k \in 0 .. N |-> IF k = 0 THEN <<>> ELSE c[k]]
  <2>3. d[0] = <<>> /\ \A k \in 1 .. N : d[k] = c[k]
    BY <1>1
  <2>. HIDE DEF d
  <2>4. ASSUME NEW k \in 1 .. N PROVE d[k] = Then(d[k - 1], Seen(ts[k]))
    <3>1. c[k] = IF k = 1 THEN ss[k] ELSE Then(c[k - 1], ss[k])
      BY <1>1, <2>2 DEF Builds, Then
    <3>2. CASE k = 1
      <4>1. Then(<<>>, ss[k]) = ss[k]
        BY <1>1, ThenIs
      <4>2. d[k - 1] = <<>>
        BY <2>3, <3>2
      <4>. QED BY <1>1, <2>3, <3>1, <3>2, <4>1, <4>2
    <3>3. CASE k # 1
      <4>1. k - 1 \in 1 .. N
        BY <1>1, <3>3
      <4>. QED BY <1>1, <2>3, <3>1, <3>3, <4>1
    <3>. QED BY <3>2, <3>3
  <2>5. Tells(d, ts)
    BY <2>3, <2>4 DEF Tells
  <2>. QED BY <2>5
<1>. QED BY <1>2, <1>3

\* No texts, no words; one text, its words.
LEMMA FewWords ==
  /\ Words(<<>>) = <<>>
  /\ \A t \in Str : Words(<<t>>) = Seen(t)
<1>1. Words(<<>>) = <<>>
  <2>1. <<>> \in Seq(Str) /\ Len(<<>>) = 0
    OBVIOUS
  <2>2. PICK d : Tells(d, <<>>)
    BY <2>1, Told
  <2>. QED BY <2>1, <2>2, WordsTold DEF Tells
<1>2. ASSUME NEW t \in Str PROVE Words(<<t>>) = Seen(t)
  <2>1. <<t>> \in Seq(Str) /\ Len(<<t>>) = 1 /\ <<t>>[1] = t
    OBVIOUS
  <2>2. PICK d : Tells(d, <<t>>)
    BY <2>1, Told
  <2>3. d[1] = Then(d[1 - 1], Seen(t)) /\ d[0] = <<>>
    BY <2>1, <2>2 DEF Tells
  <2>4. Then(<<>>, Seen(t)) = Seen(t)
    BY SeenIsText, ThenIs
  <2>5. Words(<<t>>) = d[1]
    BY <2>1, <2>2, WordsTold
  <2>. QED BY <2>3, <2>4, <2>5
<1>. QED BY <1>1, <1>2

\* A text more, its words more.
LEMMA AppendWords ==
  ASSUME NEW ts \in Seq(Str), NEW x \in Str
  PROVE  Words(Append(ts, x)) = Then(Words(ts), Seen(x))
<1>. DEFINE N == Len(ts)
            us == Append(ts, x)
<1>1. N \in Nat /\ us \in Seq(Str) /\ Len(us) = N + 1 /\ us[N + 1] = x /\ \A k \in 1 .. N : us[k] = ts[k]
  OBVIOUS
<1>. HIDE DEF us
<1>2. PICK d : Tells(d, us)
  BY <1>1, Told
<1>3. d[0] = <<>> /\ \A k \in 1 .. N + 1 : d[k] = Then(d[k - 1], Seen(us[k]))
  BY <1>1, <1>2 DEF Tells
<1>4. Tells(d, ts)
  <2>1. \A k \in 1 .. N : k \in 1 .. N + 1
    BY <1>1
  <2>2. \A k \in 1 .. N : d[k] = Then(d[k - 1], Seen(ts[k]))
    BY <1>1, <1>3, <2>1
  <2>. QED BY <1>3, <2>2 DEF Tells
<1>5. Words(ts) = d[N] /\ Words(us) = d[N + 1]
  BY <1>1, <1>2, <1>4, WordsTold
<1>6. d[N + 1] = Then(d[N], Seen(x))
  <2>1. N + 1 \in 1 .. N + 1 /\ (N + 1) - 1 = N
    BY <1>1
  <2>. QED BY <1>1, <1>3, <2>1
<1>. QED BY <1>5, <1>6 DEF us

\* Texts of which the same is seen have the same words.
LEMMA AlikeWords ==
  ASSUME NEW ts, NEW us, DOMAIN us = DOMAIN ts, \A k \in DOMAIN ts : Seen(us[k]) = Seen(ts[k])
  PROVE  Words(us) = Words(ts)
BY DEF Words

\* Texts joined by blanks have the words they had.
LEMMA JoinedWords ==
  ASSUME NEW ts \in Seq(Str), NEW gap \in Str, Len(gap) # 0, \A i \in 1 .. Len(gap) : gap[i] \in NoWord
  PROVE  Seen(Join(ts, gap)) = Words(ts)
<1>. DEFINE N == Len(ts)
            ss == [k \in DOMAIN ts |-> IF k = 1 THEN ts[k] ELSE gap \o ts[k]]
<1>1. N \in Nat /\ N = Len(ts) /\ DOMAIN ts = 1 .. N /\ \A k \in 1 .. N : ts[k] \in Str
  OBVIOUS
<1>2. Join(ts, gap) = FlattenSeq(ss)
  BY DEF Join
<1>3. ss \in Seq(Str) /\ Len(ss) = N /\ \A k \in 1 .. N : ss[k] = IF k = 1 THEN ts[k] ELSE Then(gap, ts[k])
  <2>1. \A k \in 1 .. N : ss[k] = IF k = 1 THEN ts[k] ELSE Then(gap, ts[k])
    BY <1>1 DEF Then
  <2>2. ss = [k \in 1 .. N |-> ss[k]]
    BY <1>1
  <2>3. \A k \in 1 .. N : ss[k] \in Str
    BY <1>1, <2>1, ThenIs
  <2>. HIDE DEF ss, N
  <2>. QED BY <1>1, <2>1, <2>2, <2>3, SequenceOf
<1>. HIDE DEF ss, N
<1>4. CASE N = 0
  <2>1. ss = <<>> /\ ts = <<>>
    BY <1>1, <1>3, <1>4
  <2>2. Join(ts, gap) = <<>>
    BY <1>2, <1>3, <2>1, FlattenIs DEF Str
  <2>3. Seen(<<>>) = <<>>
    <3>1. <<>> \in Str /\ \A i \in 1 .. Len(<<>>) : <<>>[i] \in NoWord
      BY DEF Str
    <3>. QED BY <3>1, NothingToSee
  <2>. QED BY <2>1, <2>2, <2>3, FewWords
<1>5. CASE N # 0
  <2>1. PICK c : Builds(c, Char, ss) /\ FlattenSeq(ss) = c[N]
    <3>1. ss # <<>>
      BY <1>1, <1>3, <1>5
    <3>. QED BY <1>3, <3>1, FlattenIs DEF Str
  <2>2. \A k \in 1 .. N : c[k] \in Str /\ c[k] = IF k = 1 THEN ss[k] ELSE Then(c[k - 1], ss[k])
    BY <1>3, <2>1 DEF Builds, Str, Then
  <2>. DEFINE d == [k \in 0 .. N |-> IF k = 0 THEN <<>> ELSE Seen(c[k])]
  <2>3. d[0] = <<>> /\ \A k \in 1 .. N : d[k] = Seen(c[k])
    BY <1>1
  <2>. HIDE DEF d
  <2>4. ASSUME NEW k \in 1 .. N PROVE d[k] = Then(d[k - 1], Seen(ts[k]))
    <3>1. CASE k = 1
      <4>1. c[k] = ts[k]
        BY <1>3, <2>2, <3>1
      <4>2. Then(<<>>, Seen(ts[k])) = Seen(ts[k])
        BY <1>1, SeenIsText, ThenIs
      <4>3. d[k - 1] = <<>>
        BY <2>3, <3>1
      <4>. QED BY <2>3, <4>1, <4>2, <4>3
    <3>2. CASE k # 1
      <4>1. k - 1 \in 1 .. N
        BY <1>1, <3>2
      <4>2. c[k - 1] \in Str /\ ts[k] \in Str /\ c[k] = Then(c[k - 1], Then(gap, ts[k]))
        BY <1>1, <1>3, <2>2, <3>2, <4>1
      <4>3. c[k] = Then(Then(c[k - 1], gap), ts[k])
        <5>1. c[k - 1] \in Str /\ gap \in Str /\ ts[k] \in Str
          BY <4>2
        <5>2. Then(c[k - 1], Then(gap, ts[k])) = Then(Then(c[k - 1], gap), ts[k])
          BY <5>1, ThenThrice
        <5>. QED BY <4>2, <5>2
      <4>4. Seen(Then(Then(c[k - 1], gap), ts[k])) = Then(Seen(c[k - 1]), Seen(ts[k]))
        BY <4>2, SeenAcross DEF Then
      <4>. QED BY <2>3, <4>1, <4>2, <4>3, <4>4
    <3>. QED BY <3>1, <3>2
  <2>5. Tells(d, ts)
    BY <1>1, <2>3, <2>4 DEF Tells
  <2>6. Words(ts) = d[N]
    BY <1>1, <2>5, WordsTold
  <2>7. N \in 1 .. N
    BY <1>1, <1>5
  <2>. QED BY <1>2, <2>1, <2>3, <2>6, <2>7
<1>. QED BY <1>4, <1>5

\* Texts without a word can be left out.
LEMMA KeptWords ==
  ASSUME NEW ts \in Seq(Str), NEW P, P \subseteq DOMAIN ts, \A k \in DOMAIN ts : k \notin P => Seen(ts[k]) = <<>>
  PROVE  Words(Keep(ts, P)) = Words(ts)
<1>. DEFINE N == Len(ts)
            us == Keep(ts, P)
            M == Len(us)
<1>1. N \in Nat /\ N = Len(ts) /\ DOMAIN ts = 1 .. N /\ \A k \in 1 .. N : ts[k] \in Str
  OBVIOUS
<1>2. us \in Seq(Str)
  BY KeepIs
<1>3. PICK f : Whence(f, ts, P, us)
  BY KeepOrder
<1>. HIDE DEF us, N
<1>4. /\ M \in Nat /\ DOMAIN f = 1 .. M
      /\ \A n \in 1 .. M : us[n] = ts[f[n]] /\ f[n] \in P /\ f[n] \in 1 .. N
      /\ \A n \in 1 .. M : n + 1 \in 1 .. M => f[n] < f[n + 1] /\ \A i \in P : ~ (f[n] < i /\ i < f[n + 1])
      /\ \A n \in 1 .. M : n + 1 \notin 1 .. M => \A i \in P : i <= f[n]
      /\ \A i \in P : 1 \in 1 .. M /\ f[1] <= i
  BY <1>1, <1>3 DEF Whence, Numbers
<1>. HIDE DEF M
<1>5. PICK c : Tells(c, ts)
  BY Told
<1>6. c[0] = <<>> /\ \A k \in 1 .. N : c[k] = Then(c[k - 1], Seen(ts[k]))
  BY <1>1, <1>5 DEF Tells
<1>7. Words(ts) = c[N] /\ \A k \in 0 .. N : c[k] \in Str
  BY <1>1, <1>5, WordsTold
\* Where nothing is kept, nothing is told.
<1>8. ASSUME NEW a \in 0 .. N, NEW b \in 0 .. N, a <= b, \A k \in a + 1 .. b : k \notin P
      PROVE  c[b] = c[a]
  <2>. DEFINE Good == {k \in a .. b : c[k] = c[a]}
  <2>1. a \in Nat /\ b \in Nat /\ a \in Good
    BY <1>1, <1>8
  <2>2. ASSUME NEW k \in a + 1 .. b, k - 1 \in Good PROVE k \in Good
    <3>1. k \in 1 .. N /\ k \in a .. b /\ k - 1 \in 0 .. N
      BY <1>1, <2>1
    <3>2. Seen(ts[k]) = <<>>
      BY <1>1, <1>8, <3>1
    <3>3. Then(c[k - 1], <<>>) = c[k - 1]
      BY <1>7, <3>1, ThenIs
    <3>. QED BY <1>6, <2>2, <3>1, <3>2, <3>3
  <2>3. \A k \in a .. b : k \in Good
    <3>. HIDE DEF Good
    <3>. QED BY <1>8, <2>1, <2>2, Climb
  <2>4. b \in a .. b
    BY <1>8, <2>1
  <2>. QED BY <2>3, <2>4
<1>. DEFINE d == [n \in 0 .. M |-> IF n = 0 THEN <<>> ELSE c[f[n]]]
<1>9. d[0] = <<>> /\ \A n \in 1 .. M : d[n] = c[f[n]]
  BY <1>4
<1>. HIDE DEF d
<1>10. ASSUME NEW n \in 1 .. M PROVE d[n] = Then(d[n - 1], Seen(us[n]))
  <2>1. f[n] \in 1 .. N /\ us[n] = ts[f[n]]
    BY <1>4
  <2>2. c[f[n]] = Then(c[f[n] - 1], Seen(us[n]))
    BY <1>6, <2>1
  <2>3. c[f[n] - 1] = d[n - 1]
    <3>1. CASE n = 1
      <4>1. \A k \in 0 + 1 .. f[1] - 1 : k \notin P
        BY <1>1, <1>4
      <4>2. 0 \in 0 .. N /\ f[1] - 1 \in 0 .. N /\ 0 <= f[1] - 1
        BY <1>1, <2>1, <3>1
      <4>3. c[f[1] - 1] = c[0]
        BY <1>8, <4>1, <4>2
      <4>. QED BY <1>6, <1>9, <3>1, <4>3
    <3>2. CASE n # 1
      <4>. DEFINE m == n - 1
      <4>1. m \in 1 .. M /\ m + 1 = n
        BY <1>4, <3>2
      <4>. HIDE DEF m
      <4>2. f[m] < f[n] /\ f[m] \in 1 .. N /\ \A i \in P : ~ (f[m] < i /\ i < f[n])
        BY <1>4, <4>1
      <4>3. f[m] \in 0 .. N /\ f[n] - 1 \in 0 .. N /\ f[m] <= f[n] - 1
        BY <1>1, <2>1, <4>2
      <4>4. \A k \in f[m] + 1 .. f[n] - 1 : k \notin P
        BY <2>1, <4>2
      <4>5. c[f[n] - 1] = c[f[m]]
        BY <1>8, <4>3, <4>4
      <4>. QED BY <1>9, <4>1, <4>5 DEF m
    <3>. QED BY <3>1, <3>2
  <2>. QED BY <1>9, <2>2, <2>3
<1>11. Tells(d, us)
  BY <1>9, <1>10 DEF Tells, M
<1>12. Words(us) = d[M]
  BY <1>2, <1>11, WordsTold DEF M
<1>13. d[M] = c[N]
  <2>1. CASE M = 0
    <3>1. \A k \in 0 + 1 .. N : k \notin P
      BY <1>4, <2>1
    <3>2. 0 \in 0 .. N /\ N \in 0 .. N /\ 0 <= N
      BY <1>1
    <3>. QED BY <1>6, <1>8, <1>9, <2>1, <3>1, <3>2
  <2>2. CASE M # 0
    <3>1. M \in 1 .. M /\ M + 1 \notin 1 .. M
      BY <1>4, <2>2
    <3>2. f[M] \in 1 .. N /\ \A i \in P : i <= f[M]
      BY <1>4, <3>1
    <3>3. f[M] \in 0 .. N /\ N \in 0 .. N /\ f[M] <= N /\ \A k \in f[M] + 1 .. N : k \notin P
      BY <1>1, <3>2
    <3>4. c[N] = c[f[M]]
      BY <1>8, <3>3
    <3>. QED BY <1>9, <3>1, <3>4
  <2>. QED BY <2>1, <2>2
<1>. QED BY <1>7, <1>12, <1>13 DEF us
-----------------------------------------------------------------------------
(* Words of the parts of a text.                                           *)

\* A text up to b, with blanks in it from a on.
LEMMA SeenUpTo ==
  ASSUME NEW t \in Str, NEW a \in Nat, NEW b \in Nat, NEW e \in Nat, a < b, b <= e, e <= Len(t),
         \A i \in a + 1 .. b : t[i] \in NoWord
  PROVE  Seen(SubSeq(t, 1, e)) = Then(Seen(SubSeq(t, 1, a)), Seen(SubSeq(t, b + 1, e)))
<1>. DEFINE x == SubSeq(t, 1, a)
            g == SubSeq(t, a + 1, b)
            y == SubSeq(t, b + 1, e)
            z == SubSeq(t, 1, e)
            w == (x \o g) \o y
<1>0. t \in Seq(Char) /\ Len(t) \in Nat
  BY DEF Str
<1>1. /\ x \in Seq(Char) /\ Len(x) = a /\ \A k \in 1 .. a : x[k] = t[k]
      /\ z \in Seq(Char) /\ Len(z) = e /\ \A k \in 1 .. e : z[k] = t[k]
  BY <1>0
<1>2. g \in Seq(Char) /\ Len(g) = b - a /\ \A k \in 1 .. b - a : g[k] = t[a + k]
  <2>1. a + 1 \in Int /\ 1 <= a + 1 /\ b <= Len(t) /\ b \in Int /\ a + 1 <= b
    BY <1>0
  <2>2. /\ g \in Seq(Char) /\ Len(g) = b - (a + 1) + 1
        /\ \A k \in 1 .. b - (a + 1) + 1 : g[k] = t[k + (a + 1) - 1]
    BY <1>0, <2>1, SubSeqIs
  <2>. HIDE DEF g
  <2>3. b - (a + 1) + 1 = b - a /\ \A k \in 1 .. b - a : k + (a + 1) - 1 = a + k
    OBVIOUS
  <2>. QED BY <2>2, <2>3
<1>3. y \in Seq(Char) /\ Len(y) = e - b /\ \A k \in 1 .. e - b : y[k] = t[b + k]
  <2>1. b + 1 \in Int /\ 1 <= b + 1 /\ e <= Len(t) /\ e \in Int
    BY <1>0
  <2>2. /\ y \in Seq(Char) /\ Len(y) = IF b + 1 <= e THEN e - (b + 1) + 1 ELSE 0
        /\ \A k \in 1 .. e - (b + 1) + 1 : y[k] = t[k + (b + 1) - 1]
    BY <1>0, <2>1, SubSeqIs
  <2>. HIDE DEF y
  <2>3. e - (b + 1) + 1 = e - b /\ \A k \in 1 .. e - b : k + (b + 1) - 1 = b + k
    OBVIOUS
  <2>. QED BY <2>2, <2>3
<1>. HIDE DEF x, g, y, z
<1>4. Following(x, g) /\ Following(x \o g, y) /\ x \o g \in Seq(Char) /\ w \in Seq(Char)
  <2>1. x \o g \in Seq(Char)
    BY <1>1, <1>2
  <2>2. w \in Seq(Char)
    BY <1>3, <2>1
  <2>. QED BY <1>1, <1>2, <1>3, <2>1, <2>2, InARow
<1>5. /\ Len(x \o g) = b
      /\ \A k \in 1 .. a : (x \o g)[k] = t[k]
      /\ \A k \in 1 .. b - a : (x \o g)[a + k] = t[a + k]
  <2>. DEFINE v == x \o g
  <2>1. Len(v) = Len(x) + Len(g) /\ (\A k \in 1 .. Len(x) : v[k] = x[k])
        /\ \A k \in 1 .. Len(g) : v[Len(x) + k] = g[k]
    BY <1>4 DEF Following
  <2>. HIDE DEF v
  <2>2. Len(x) = a /\ Len(g) = b - a /\ a + (b - a) = b
    BY <1>1, <1>2
  <2>3. Len(v) = b
    BY <2>1, <2>2
  <2>4. \A k \in 1 .. a : v[k] = t[k]
    BY <1>1, <2>1, <2>2
  <2>5. \A k \in 1 .. b - a : v[a + k] = t[a + k]
    BY <1>2, <2>1, <2>2
  <2>. QED BY <2>3, <2>4, <2>5 DEF v
<1>6. /\ Len(w) = e
      /\ \A k \in 1 .. b : w[k] = (x \o g)[k]
      /\ \A k \in 1 .. e - b : w[b + k] = t[b + k]
  <2>. DEFINE u == x \o g
              v == u \o y
  <2>1. Len(v) = Len(u) + Len(y) /\ (\A k \in 1 .. Len(u) : v[k] = u[k])
        /\ \A k \in 1 .. Len(y) : v[Len(u) + k] = y[k]
    BY <1>4 DEF Following
  <2>2. Len(u) = b /\ Len(y) = e - b /\ \A k \in 1 .. e - b : y[k] = t[b + k]
    BY <1>3, <1>5
  <2>. HIDE DEF v, u
  <2>3. Len(v) = e /\ (\A k \in 1 .. b : v[k] = u[k]) /\ \A k \in 1 .. e - b : v[b + k] = t[b + k]
    BY <2>1, <2>2
  <2>. QED BY <2>3 DEF u, v
<1>7. z = w
  <2>1. ASSUME NEW k \in 1 .. e PROVE w[k] = t[k]
    <3>1. CASE k \in 1 .. a
      <4>1. k \in 1 .. b
        BY <3>1
      <4>. QED BY <1>5, <1>6, <3>1, <4>1
    <3>2. CASE k \notin 1 .. a /\ k <= b
      <4>1. k - a \in 1 .. b - a /\ a + (k - a) = k /\ k \in 1 .. b
        BY <3>2
      <4>2. (x \o g)[a + (k - a)] = t[a + (k - a)]
        BY <1>5, <4>1
      <4>. QED BY <1>6, <4>1, <4>2
    <3>3. CASE ~ (k <= b)
      <4>1. k - b \in 1 .. e - b /\ b + (k - b) = k
        BY <3>3
      <4>2. w[b + (k - b)] = t[b + (k - b)]
        BY <1>6, <4>1
      <4>. QED BY <4>1, <4>2
    <3>. QED BY <3>1, <3>2, <3>3
  <2>2. z = [k \in 1 .. e |-> z[k]]
    BY <1>1, AsFunction
  <2>3. w = [k \in 1 .. e |-> w[k]]
    <3>1. w = [k \in 1 .. Len(w) |-> w[k]]
      <4>. HIDE DEF w
      <4>. QED BY <1>4, AsFunction
    <3>. HIDE DEF w
    <3>. QED BY <1>6, <3>1
  <2>. HIDE DEF w
  <2>. QED BY <1>1, <2>1, <2>2, <2>3
<1>8. Seen(w) = Seen(x) \o Seen(y)
  <2>1. Len(g) # 0
    BY <1>2
  <2>2. ASSUME NEW i \in 1 .. Len(g) PROVE g[i] \in NoWord
    <3>1. i \in 1 .. b - a /\ a + i \in a + 1 .. b
      BY <1>2
    <3>. QED BY <1>2, <3>1
  <2>3. x \in Str /\ g \in Str /\ y \in Str
    BY <1>1, <1>2, <1>3 DEF Str
  <2>. QED BY <2>1, <2>2, <2>3, SeenAcross
<1>. QED BY <1>7, <1>8 DEF x, y, z, Then

\* A whole text is its part from the first to the last character; nothing is seen
\* of the part that has none.
LEMMA WholeAndNothing ==
  ASSUME NEW t \in Str
  PROVE  /\ SubSeq(t, 1, Len(t)) = t
         /\ SubSeq(t, 1, 0) = <<>>
         /\ SubSeq(t, Len(t) + 1, Len(t)) = <<>>
         /\ Seen(<<>>) = <<>>
<1>0. t \in Seq(Char) /\ Len(t) \in Nat
  BY DEF Str
<1>1. SubSeq(t, 1, Len(t)) = t
  BY <1>0
<1>2. SubSeq(t, 1, 0) = <<>> /\ SubSeq(t, Len(t) + 1, Len(t)) = <<>>
  BY <1>0
<1>3. Seen(<<>>) = <<>>
  <2>1. <<>> \in Str /\ \A i \in 1 .. Len(<<>>) : <<>>[i] \in NoWord
    BY DEF Str
  <2>. QED BY <2>1, NothingToSee
<1>. QED BY <1>1, <1>2, <1>3

\* The lines of a text have its words.
LEMMA LinesWords ==
  ASSUME NEW t \in Str
  PROVE  Words(Lines(t)) = Seen(t)
<1>. DEFINE N == Len(t)
            B == {i \in DOMAIN t : t[i] \in LineEnd}
            open == t # NoText /\ Last(t) \notin LineEnd
            ends == B \union (IF open THEN {N + 1} ELSE {})
            C == Cardinality(ends)
            f(k) == Nth(ends, k)
            L == Lines(t)
<1>0. N \in Nat /\ DOMAIN t = 1 .. N /\ N = Len(t) /\ (N = 0 <=> t = NoText)
  BY DEF Str, NoText
<1>1. L = [k \in 1 .. C |-> SubSeq(t, IF k = 1 THEN 1 ELSE f(k - 1) + 1, f(k) - 1)]
  BY DEF Lines
<1>2. L \in Seq(Str)
  BY LinesAreTexts
<1>3. /\ \A i : i \in ends <=> i \in B \/ (open /\ i = N + 1)
      /\ \A i : i \in B <=> i \in 1 .. N /\ t[i] \in LineEnd
      /\ \A i \in B : t[i] \in NoWord
  BY <1>0 DEF LineEnd, NoWord, Blank
<1>4. open <=> N # 0 /\ t[N] \notin LineEnd
  BY <1>0 DEF Last
<1>. HIDE DEF B, open, ends, L, N
<1>5. /\ C \in Nat
      /\ \A k \in 1 .. C : f(k) \in ends /\ f(k) \in 1 .. N + 1
      /\ \A j, k \in 1 .. C : j < k => f(j) < f(k)
      /\ \A i \in ends : \E k \in 1 .. C : f(k) = i
  <2>1. ends \subseteq 1 .. N + 1
    BY <1>0, <1>3
  <2>2. N + 1 \in Nat
    BY <1>0
  <2>. QED BY <2>1, <2>2, NthOrder
<1>. HIDE DEF C, f
<1>6. Len(L) = C /\ \A k \in 1 .. C : L[k] = SubSeq(t, IF k = 1 THEN 1 ELSE f(k - 1) + 1, f(k) - 1)
  <2>1. DOMAIN L = 1 .. C
    BY <1>1
  <2>2. Len(L) = C
    BY <1>2, <1>5, <2>1
  <2>3. \A k \in 1 .. C : L[k] = SubSeq(t, IF k = 1 THEN 1 ELSE f(k - 1) + 1, f(k) - 1)
    BY <1>1
  <2>. QED BY <2>2, <2>3
<1>. DEFINE d == [k \in 0 .. C |-> IF k = 0 THEN <<>> ELSE Seen(SubSeq(t, 1, f(k) - 1))]
<1>7. d[0] = <<>> /\ \A k \in 1 .. C : d[k] = Seen(SubSeq(t, 1, f(k) - 1))
  BY <1>5
<1>. HIDE DEF d
<1>8. ASSUME NEW k \in 1 .. C PROVE d[k] = Then(d[k - 1], Seen(L[k]))
  <2>1. CASE k = 1
    <3>1. L[k] = SubSeq(t, 1, f(k) - 1) /\ d[k - 1] = <<>>
      BY <1>6, <1>7, <2>1
    <3>2. L[k] \in Str
      BY <1>2, <1>6
    <3>3. Then(<<>>, Seen(L[k])) = Seen(L[k])
      BY <3>2, SeenIsText, ThenIs
    <3>. QED BY <1>7, <3>1, <3>3
  <2>2. CASE k # 1
    <3>. DEFINE b == f(k - 1)
                e == f(k) - 1
    <3>1. k - 1 \in 1 .. C /\ k - 1 < k
      BY <1>5, <2>2
    <3>2. b \in ends /\ b \in 1 .. N + 1 /\ f(k) \in 1 .. N + 1 /\ b < f(k)
      BY <1>5, <3>1
    <3>3. L[k] = SubSeq(t, b + 1, e) /\ d[k] = Seen(SubSeq(t, 1, e)) /\ d[k - 1] = Seen(SubSeq(t, 1, b - 1))
      BY <1>6, <1>7, <2>2, <3>1
    <3>. HIDE DEF b
    <3>4. b - 1 \in Nat /\ b \in Nat /\ e \in Nat /\ b - 1 < b /\ b <= e /\ e <= N /\ b # N + 1
      BY <1>0, <3>2
    <3>5. \A i \in (b - 1) + 1 .. b : t[i] \in NoWord
      <4>1. \A i \in (b - 1) + 1 .. b : i = b
        BY <3>4
      <4>2. t[b] \in NoWord
        BY <1>3, <3>2, <3>4
      <4>. QED BY <4>1, <4>2
    <3>. HIDE DEF e
    <3>6. Seen(SubSeq(t, 1, e)) = Then(Seen(SubSeq(t, 1, b - 1)), Seen(SubSeq(t, b + 1, e)))
      BY <1>0, <3>4, <3>5, SeenUpTo
    <3>. QED BY <3>3, <3>6
  <2>. QED BY <2>1, <2>2
<1>9. Words(L) = d[C]
  <2>1. Tells(d, L)
    BY <1>6, <1>7, <1>8 DEF Tells
  <2>. QED BY <1>2, <1>6, <2>1, WordsTold
<1>10. d[C] = Seen(t)
  <2>1. CASE N = 0
    <3>1. C = 0
      <4>1. \A i : i \notin ends
        BY <1>0, <1>3, <1>4, <2>1
      <4>. QED BY <1>5, <4>1
    <3>. QED BY <1>0, <1>7, <2>1, <3>1, WholeAndNothing DEF NoText
  <2>2. CASE N # 0
    <3>1. N \in ends \/ N + 1 \in ends
      BY <1>0, <1>3, <1>4, <2>2
    <3>2. C # 0
      BY <1>5, <3>1
    <3>3. \A i \in ends : i <= f(C)
      <4>1. SUFFICES ASSUME NEW i \in ends PROVE i <= f(C)
        OBVIOUS
      <4>2. PICK k \in 1 .. C : f(k) = i
        BY <1>5
      <4>3. C \in 1 .. C /\ (k = C \/ k < C) /\ f(C) \in 1 .. N + 1
        BY <1>5, <3>2
      <4>. QED BY <1>5, <4>2, <4>3
    <3>4. C \in 1 .. C /\ f(C) \in ends /\ f(C) \in 1 .. N + 1
      BY <1>5, <3>2
    <3>5. CASE open
      <4>1. f(C) - 1 = N
        BY <1>0, <1>3, <3>3, <3>4, <3>5
      <4>2. d[C] = Seen(SubSeq(t, 1, N))
        BY <1>7, <3>4, <4>1
      <4>. QED BY <1>0, <4>2, WholeAndNothing
    <3>6. CASE ~ open
      <4>1. N \in ends /\ t[N] \in NoWord /\ N \in B
        BY <1>0, <1>3, <1>4, <2>2, <3>6
      <4>2. f(C) = N
        BY <1>0, <1>3, <3>3, <3>4, <3>6, <4>1
      <4>3. N - 1 \in Nat /\ N - 1 < N /\ N <= N /\ N <= Len(t)
        BY <1>0, <2>2
      <4>4. Seen(SubSeq(t, 1, N)) = Then(Seen(SubSeq(t, 1, N - 1)), Seen(SubSeq(t, N + 1, N)))
        <5>1. \A i \in (N - 1) + 1 .. N : t[i] \in NoWord
          <6>1. N \in Nat
            BY <1>0
          <6>2. \A i \in (N - 1) + 1 .. N : i = N
            BY <6>1
          <6>. QED BY <4>1, <6>2
        <5>. QED BY <1>0, <4>3, <5>1, SeenUpTo
      <4>5. Seen(t) = Then(Seen(SubSeq(t, 1, N - 1)), <<>>)
        BY <1>0, <4>4, WholeAndNothing
      <4>6. SubSeq(t, 1, N - 1) \in Str
        <5>1. N - 1 \in Int /\ 1 \in Int /\ 1 <= 1 /\ N - 1 <= Len(t)
          BY <1>0
        <5>. QED BY <5>1, SubSeqIs DEF Str
      <4>7. Then(Seen(SubSeq(t, 1, N - 1)), <<>>) = Seen(SubSeq(t, 1, N - 1))
        BY <4>6, SeenIsText, ThenIs
      <4>. QED BY <1>7, <3>4, <4>2, <4>5, <4>7
    <3>. QED BY <3>5, <3>6
  <2>. QED BY <2>1, <2>2
<1>. QED BY <1>9, <1>10 DEF L
-----------------------------------------------------------------------------
(* Words of a page.                                                        *)

\* The blanks that paragraphs and lines are joined with.
LEMMA Gaps ==
  /\ <<Sp>> \in Str /\ Len(<<Sp>>) # 0 /\ \A i \in 1 .. Len(<<Sp>>) : <<Sp>>[i] \in NoWord
  /\ <<Nl, Nl>> \in Str /\ Len(<<Nl, Nl>>) # 0 /\ \A i \in 1 .. Len(<<Nl, Nl>>) : <<Nl, Nl>>[i] \in NoWord
<1>1. Sp \in Char /\ Nl \in Char /\ Sp \in NoWord /\ Nl \in NoWord
  BY WordCharacters DEF Char
<1>. QED BY <1>1 DEF Str

\* A paragraph is closed with the words it has.
LEMMA RejoinedWords ==
  ASSUME NEW done \in Seq(Str), NEW open \in Seq(Str)
  PROVE  Words(Rejoined(done, open)) = Then(Words(done), Words(open))
<1>1. CASE open = <<>>
  <2>1. Words(done) \in Str
    BY WordsFlatten
  <2>2. Then(Words(done), <<>>) = Words(done)
    BY <2>1, ThenIs
  <2>. QED BY <1>1, <2>2, FewWords DEF Rejoined
<1>2. CASE open # <<>>
  <2>. DEFINE x == Join(open, <<Sp>>)
  <2>1. Seen(x) = Words(open)
    BY Gaps, JoinedWords
  <2>2. x \in Str
    BY Gaps, JoinIs DEF Str
  <2>3. Rejoined(done, open) = Append(done, x)
    BY <1>2 DEF Rejoined
  <2>. HIDE DEF x
  <2>. QED BY <2>1, <2>2, <2>3, AppendWords
<1>. QED BY <1>1, <1>2

\* A line is added with its words.
LEMMA AddLineWords ==
  ASSUME NEW a \in Paragraphs, NEW line \in Str, NEW closes, NEW r, r = AddLine(a, line, closes)
  PROVE  Then(Words(r.done), Words(r.open)) = Then(Then(Words(a.done), Words(a.open)), Seen(line))
<1>. DEFINE open == Append(a.open, Strip(line))
<1>1. Strip(line) \in Str /\ Seen(Strip(line)) = Seen(line)
  BY PassesAreTexts, PassesKeepWords
<1>2. a.done \in Seq(Str) /\ a.open \in Seq(Str) /\ open \in Seq(Str)
  BY <1>1 DEF Paragraphs
<1>3. Words(open) = Then(Words(a.open), Seen(line))
  BY <1>1, <1>2, AppendWords
<1>. HIDE DEF open
<1>4. Words(a.done) \in Str /\ Words(a.open) \in Str /\ Words(open) \in Str /\ Seen(line) \in Str
  BY <1>2, WordsFlatten, SeenIsText
<1>5. Then(Words(a.done), Words(open)) = Then(Then(Words(a.done), Words(a.open)), Seen(line))
  BY <1>3, <1>4, ThenThrice
<1>6. CASE closes
  <2>1. r.done = Rejoined(a.done, open) /\ r.open = <<>>
    BY <1>6 DEF AddLine, open
  <2>2. Words(r.done) = Then(Words(a.done), Words(open))
    BY <1>2, <2>1, RejoinedWords
  <2>3. Then(Words(r.done), <<>>) = Words(r.done)
    BY <1>4, <2>2, ThenIs
  <2>. QED BY <1>5, <2>1, <2>2, <2>3, FewWords
<1>7. CASE ~ closes
  <2>1. r.done = a.done /\ r.open = open
    BY <1>2, <1>7 DEF AddLine, open, Paragraphs
  <2>. QED BY <1>5, <2>1
<1>. QED BY <1>6, <1>7

\* So the paragraphs of a page have the words of its lines.
LEMMA RejoiningWords ==
  ASSUME NEW lines \in Seq(Str), NEW closing, NEW all, all = Rejoining(lines, closing)[Len(lines)]
  PROVE  Then(Words(all.done), Words(all.open)) = Words(lines)
<1>. DEFINE N == Len(lines)
            c == Rejoining(lines, closing)
            d == [k \in 0 .. N |-> Then(Words(c[k].done), Words(c[k].open))]
<1>1. N \in Nat /\ \A k \in 1 .. N : lines[k] \in Str
  OBVIOUS
<1>2. /\ c[0] = [done |-> <<>>, open |-> <<>>]
      /\ \A k \in 1 .. N : c[k] = AddLine(c[k - 1], lines[k], k \in closing)
      /\ \A k \in 0 .. N : c[k] \in Paragraphs
  BY RejoiningGoes, RejoiningIs
<1>. HIDE DEF c
<1>3. \A k \in 0 .. N : d[k] = Then(Words(c[k].done), Words(c[k].open))
  OBVIOUS
<1>. HIDE DEF d
<1>4. d[0] = <<>>
  <2>1. 0 \in 0 .. N /\ c[0].done = <<>> /\ c[0].open = <<>>
    BY <1>1, <1>2
  <2>2. d[0] = Then(<<>>, <<>>)
    BY <1>3, <2>1, FewWords
  <2>3. <<>> \in Str
    BY DEF Str
  <2>4. Then(<<>>, <<>>) = <<>>
    BY <2>3, ThenIs
  <2>. QED BY <2>2, <2>4
<1>5. ASSUME NEW k \in 1 .. N PROVE d[k] = Then(d[k - 1], Seen(lines[k]))
  <2>1. k \in 0 .. N /\ k - 1 \in 0 .. N
    BY <1>1
  <2>2. c[k - 1] \in Paragraphs /\ lines[k] \in Str /\ c[k] = AddLine(c[k - 1], lines[k], k \in closing)
    BY <1>1, <1>2, <2>1
  <2>3. Then(Words(c[k].done), Words(c[k].open))
          = Then(Then(Words(c[k - 1].done), Words(c[k - 1].open)), Seen(lines[k]))
    BY <2>2, AddLineWords
  <2>. QED BY <1>3, <2>1, <2>3
<1>6. Words(lines) = d[N]
  <2>1. Tells(d, lines)
    BY <1>4, <1>5 DEF Tells
  <2>. QED BY <2>1, WordsTold
<1>7. N \in 0 .. N
  BY <1>1
<1>. QED BY <1>3, <1>6, <1>7 DEF c

\* What is empty has no words.
LEMMA NonEmptyWords ==
  ASSUME NEW ts \in Seq(Str)
  PROVE  Words(NonEmpty(ts)) = Words(ts)
<1>. DEFINE P == {k \in DOMAIN ts : ts[k] # NoText}
<1>1. P \subseteq DOMAIN ts /\ \A k \in DOMAIN ts : k \notin P => Seen(ts[k]) = <<>>
  <2>1. Seen(NoText) = <<>>
    <3>1. <<>> \in Str
      BY DEF Str
    <3>. QED BY <3>1, WholeAndNothing DEF NoText
  <2>. QED BY <2>1
<1>. HIDE DEF P
<1>2. Words(Keep(ts, P)) = Words(ts)
  BY <1>1, KeptWords
<1>. QED BY <1>2 DEF NonEmpty, P

\* A page, its paragraphs rejoined, has the words it had.
LEMMA PageWords ==
  ASSUME NEW t \in Str
  PROVE  Seen(RejoinPdfParagraphs(t)) = Seen(t)
<1>. DEFINE all_lines == Lines(t)
            stripped == [k \in DOMAIN all_lines |-> RStrip(all_lines[k])]
            lines == NonEmpty(stripped)
            all == Rejoining(lines, Closing(lines))[Len(lines)]
            done == Rejoined(all.done, all.open)
<1>1. all_lines \in Seq(Str) /\ Words(all_lines) = Seen(t)
  BY LinesAreTexts, LinesWords
<1>. HIDE DEF all_lines
<1>2. stripped \in Seq(Str) /\ Words(stripped) = Words(all_lines)
  <2>1. stripped \in Seq(Str)
    BY <1>1, MappedIs
  <2>2. DOMAIN stripped = DOMAIN all_lines
    OBVIOUS
  <2>3. \A k \in DOMAIN all_lines : all_lines[k] \in Str /\ stripped[k] = RStrip(all_lines[k])
    BY <1>1
  <2>. HIDE DEF stripped
  <2>4. \A k \in DOMAIN all_lines : Seen(stripped[k]) = Seen(all_lines[k])
    BY <2>3, PassesKeepWords
  <2>. QED BY <2>1, <2>2, <2>4, AlikeWords
<1>. HIDE DEF stripped
<1>3. lines \in Seq(Str) /\ Words(lines) = Words(stripped)
  BY <1>2, NonEmptyIs, NonEmptyWords
<1>. HIDE DEF lines
<1>4. all \in Paragraphs /\ Then(Words(all.done), Words(all.open)) = Words(lines)
  <2>1. Len(lines) \in 0 .. Len(lines)
    BY <1>3
  <2>. QED BY <1>3, <2>1, RejoiningIs, RejoiningWords
<1>. HIDE DEF all
<1>5. done \in Seq(Str) /\ Words(done) = Words(lines)
  <2>1. all.done \in Seq(Str) /\ all.open \in Seq(Str)
    BY <1>4 DEF Paragraphs
  <2>. QED BY <1>4, <2>1, RejoinedIs, RejoinedWords
<1>. HIDE DEF done
<1>6. NonEmpty(done) \in Seq(Str) /\ Words(NonEmpty(done)) = Words(done)
  BY <1>5, NonEmptyIs, NonEmptyWords
<1>7. Seen(Join(NonEmpty(done), <<Nl, Nl>>)) = Words(NonEmpty(done))
  BY <1>6, Gaps, JoinedWords
<1>8. RejoinPdfParagraphs(t) = IF lines = <<>> THEN NoText ELSE Join(NonEmpty(done), <<Nl, Nl>>)
  BY DEF RejoinPdfParagraphs, done, all, lines, stripped, all_lines
<1>9. CASE lines = <<>>
  <2>1. Seen(t) = <<>>
    BY <1>1, <1>2, <1>3, <1>9, FewWords
  <2>2. Seen(NoText) = <<>>
    BY WholeAndNothing DEF NoText
  <2>. QED BY <1>8, <1>9, <2>1, <2>2
<1>10. CASE lines # <<>>
  BY <1>1, <1>2, <1>3, <1>5, <1>6, <1>7, <1>8, <1>10
<1>. QED BY <1>9, <1>10
-----------------------------------------------------------------------------
(* Words of the spans.                                                     *)

\* The spans stand in the text in their order, with something between them.
InOrder(S, N) ==
  /\ Len(S) \in Nat /\ DOMAIN S = 1 .. Len(S)
  /\ \A s \in 1 .. Len(S) : S[s].from \in 1 .. N /\ S[s].to \in S[s].from .. N
  /\ \A r, s \in 1 .. Len(S) : r < s => S[r].from < S[s].from /\ S[r].to + 1 < S[s].from

\* They do.
LEMMA SpansInOrder ==
  ASSUME NEW t, Settled(t), NEW S, S = ParagraphOffsets(t)
  PROVE  InOrder(S, Len(t))
<1>. DEFINE kept == {b \in Begins(t) : Within(t, b) # {}}
            C == Cardinality(kept)
            W(b) == Within(t, b)
            N == Len(t)
<1>0. t \in Str /\ N \in Nat /\ DOMAIN t = 1 .. N /\ N = Len(t)
  BY DEF Settled, Str
<1>1. S = [n \in 1 .. C |-> [from |-> Nth(kept, n), to |-> Max(W(Nth(kept, n)))]]
  BY DEF ParagraphOffsets, Begins, Within, BreakAt
<1>2. kept \subseteq 1 .. N
  BY <1>0 DEF Begins
<1>. HIDE DEF kept, W
<1>3. /\ C \in Nat
      /\ \A m, n \in 1 .. C : m < n => Nth(kept, m) < Nth(kept, n)
  BY <1>0, <1>2, NthOrder
<1>. HIDE DEF C
<1>4. DOMAIN S = 1 .. C /\ \A n \in 1 .. C : S[n].from = Nth(kept, n)
  BY <1>1
<1>5. Len(S) \in Nat /\ DOMAIN S = 1 .. Len(S)
  <2>. DEFINE R == [from : 1 .. Len(t), to : 1 .. Len(t)]
  <2>1. S \in Seq(R)
    BY <1>0, OffsetsAre
  <2>. HIDE DEF R
  <2>. QED BY <2>1
<1>6. \A s \in 1 .. Len(S) : S[s].from \in Begins(t) /\ S[s].to \in Within(t, S[s].from)
  BY <1>0, <1>5, SpansAre
<1>7. \A s \in 1 .. Len(S) : S[s].from \in 1 .. N /\ S[s].to \in S[s].from .. N /\ t[S[s].to] # Nl /\ t[S[s].from] # Nl
  BY <1>0, <1>6 DEF Begins, Within
<1>8. ASSUME NEW r \in 1 .. Len(S), NEW s \in 1 .. Len(S), r < s
      PROVE  S[r].from < S[s].from /\ S[r].to + 1 < S[s].from
  <2>. DEFINE a == S[r].from
              e == S[r].to
              b == S[s].from
  <2>1. a < b
    <3>1. r \in 1 .. C /\ s \in 1 .. C
      BY <1>4, <1>5
    <3>. QED BY <1>3, <1>4, <1>8, <3>1
  <2>2. a \in 1 .. N /\ b \in 1 .. N /\ e \in a .. N /\ t[e] # Nl /\ t[a] # Nl /\ b \in Begins(t) /\ b <= S[s].to
    BY <1>0, <1>6, <1>7
  <2>3. e < b
    <3>1. SUFFICES ASSUME ~ (e < b) PROVE FALSE
      OBVIOUS
    <3>2. b \in Int /\ a <= b /\ b <= e /\ b <= b
      BY <1>0, <2>1, <2>2, <3>1
    <3>3. r \in DOMAIN S /\ s \in DOMAIN S
      BY <1>5
    <3>4. r = s
      <4>. HIDE DEF b
      <4>1. S[r].from <= b /\ b <= S[r].to /\ S[s].from <= b /\ b <= S[s].to
        BY <2>2, <3>2 DEF b
      <4>. QED BY <3>2, <3>3, <4>1, SpansAreApart
    <3>. QED BY <1>5, <1>8, <3>4
  <2>. HIDE DEF a, b, e
  <2>4. t[b - 1] = Nl
    <3>1. a \in 1 .. b - 1
      BY <2>1, <2>2
    <3>. QED BY <2>2, <3>1 DEF Begins
  <2>5. e # b - 1
    BY <2>2, <2>4
  <2>6. e + 1 < b
    BY <1>0, <2>2, <2>3, <2>5
  <2>. QED BY <2>1, <2>6 DEF a, b, e
<1>. QED BY <1>5, <1>7, <1>8 DEF InOrder

\* What no span holds is blank.
LEMMA OutsideIsBlank ==
  ASSUME NEW t, Settled(t), NEW S, S = ParagraphOffsets(t), NEW i \in 1 .. Len(t),
         \A s \in 1 .. Len(S) : ~ (S[s].from <= i /\ i <= S[s].to)
  PROVE  t[i] \in NoWord
<1>1. DOMAIN S = 1 .. Len(S)
  BY SpansInOrder DEF InOrder
<1>2. t[i] \in {Nl, Sp}
  BY <1>1, SpansCover
<1>. QED BY <1>2, WordCharacters

\* The spans of a text have its words.
LEMMA SpanWords ==
  ASSUME NEW t, Settled(t), NEW r, r.text = t, r.spans = ParagraphOffsets(t)
  PROVE  Words(SpanTexts(r)) = Seen(t)
<1>. DEFINE S == r.spans
            K == Len(S)
            N == Len(t)
            T == SpanTexts(r)
            d == [k \in 0 .. K |-> IF k = 0 THEN <<>> ELSE Seen(SubSeq(t, 1, S[k].to))]
<1>0. t \in Str /\ N \in Nat /\ DOMAIN t = 1 .. N /\ N = Len(t) /\ S = ParagraphOffsets(t)
  BY DEF Settled, Str
<1>1. T = [s \in DOMAIN S |-> SubSeq(t, S[s].from, S[s].to)]
  BY DEF SpanTexts, SpanIds, TextOf
<1>. HIDE DEF S, T, N
<1>2. /\ K \in Nat /\ DOMAIN S = 1 .. K
      /\ \A s \in 1 .. K : S[s].from \in 1 .. N /\ S[s].to \in S[s].from .. N
      /\ \A p, s \in 1 .. K : p < s => S[p].from < S[s].from /\ S[p].to + 1 < S[s].from
  BY <1>0, SpansInOrder DEF InOrder
<1>3. ASSUME NEW i \in 1 .. N, \A s \in 1 .. K : ~ (S[s].from <= i /\ i <= S[s].to) PROVE t[i] \in NoWord
  BY <1>0, <1>3, OutsideIsBlank
<1>. HIDE DEF K
<1>4. T = [s \in 1 .. K |-> SubSeq(t, S[s].from, S[s].to)]
  BY <1>1, <1>2
<1>5. \A k \in 1 .. K : T[k] = SubSeq(t, S[k].from, S[k].to)
  BY <1>4
<1>6. T \in Seq(Str) /\ Len(T) = K
  <2>1. \A k \in 1 .. K : T[k] \in Str
    <3>1. SUFFICES ASSUME NEW k \in 1 .. K PROVE T[k] \in Str
      OBVIOUS
    <3>2. S[k].from \in Int /\ S[k].to \in Int /\ 1 <= S[k].from /\ S[k].to <= Len(t)
      BY <1>0, <1>2
    <3>3. t \in Seq(Char)
      BY <1>0 DEF Str
    <3>4. SubSeq(t, S[k].from, S[k].to) \in Seq(Char)
      BY <3>2, <3>3, SubSeqIs
    <3>. QED BY <1>5, <3>4 DEF Str
  <2>2. T = [k \in 1 .. K |-> T[k]]
    BY <1>4
  <2>. QED BY <1>2, <2>1, <2>2, SequenceOf
<1>7. d[0] = <<>> /\ \A k \in 1 .. K : d[k] = Seen(SubSeq(t, 1, S[k].to))
  BY <1>2
<1>. HIDE DEF d
<1>8. ASSUME NEW k \in 1 .. K PROVE d[k] = Then(d[k - 1], Seen(T[k]))
  <2>. DEFINE a == IF k = 1 THEN 0 ELSE S[k - 1].to
              b == S[k].from - 1
              e == S[k].to
  <2>1. b \in Nat /\ e \in Nat /\ b <= e /\ e <= N /\ b + 1 = S[k].from
    BY <1>0, <1>2
  <2>2. k # 1 => k - 1 \in 1 .. K /\ k - 1 < k
    BY <1>2
  <2>3. a \in Nat /\ (a < b \/ (a = b /\ k = 1))
    <3>1. CASE k = 1
      BY <2>1, <3>1
    <3>2. CASE k # 1
      <4>1. S[k - 1].from \in 1 .. N /\ S[k - 1].to \in S[k - 1].from .. N
            /\ S[k - 1].to + 1 < S[k].from
        BY <1>2, <2>2, <3>2
      <4>. QED BY <1>0, <2>1, <3>2, <4>1
    <3>. QED BY <3>1, <3>2
  <2>4. \A i \in a + 1 .. b : t[i] \in NoWord
    <3>1. SUFFICES ASSUME NEW i \in a + 1 .. b PROVE t[i] \in NoWord
      OBVIOUS
    <3>2. i \in 1 .. N /\ i < S[k].from /\ a < i
      BY <1>0, <2>1, <2>3
    <3>3. ASSUME NEW s \in 1 .. K, S[s].from <= i, i <= S[s].to PROVE FALSE
      <4>1. S[s].from \in 1 .. N /\ S[s].to \in S[s].from .. N /\ S[k].from \in 1 .. N
        BY <1>2
      <4>2. ~ (k <= s)
        <5>1. k = s \/ k < s \/ ~ (k <= s)
          BY <1>2
        <5>2. k < s => S[k].from < S[s].from
          BY <1>2
        <5>. QED BY <1>0, <3>2, <3>3, <4>1, <5>1, <5>2
      <4>3. k # 1 /\ k - 1 \in 1 .. K /\ (s = k - 1 \/ s < k - 1)
        BY <1>2, <4>2
      <4>4. a = S[k - 1].to
        BY <4>3
      <4>5. S[k - 1].from \in 1 .. N /\ S[k - 1].to \in S[k - 1].from .. N
        BY <1>2, <4>3
      <4>6. s < k - 1 => S[s].to + 1 < S[k - 1].from
        BY <1>2, <4>3
      <4>7. i \in Int /\ S[s].to \in Int /\ S[k - 1].from \in Int /\ S[k - 1].to \in Int
        BY <1>0, <3>2, <4>1, <4>5
      <4>8. S[s].to <= S[k - 1].to
        BY <4>3, <4>5, <4>6, <4>7
      <4>. QED BY <3>2, <3>3, <4>4, <4>7, <4>8
    <3>. QED BY <1>3, <3>2, <3>3
  <2>5. T[k] = SubSeq(t, b + 1, e) /\ d[k] = Seen(SubSeq(t, 1, e))
    BY <1>5, <1>7, <2>1
  <2>6. d[k - 1] = Seen(SubSeq(t, 1, a))
    <3>1. CASE k = 1
      <4>1. SubSeq(t, 1, 0) = <<>> /\ Seen(<<>>) = <<>>
        BY <1>0, WholeAndNothing
      <4>2. a = 0 /\ k - 1 = 0
        BY <3>1
      <4>. QED BY <1>7, <4>1, <4>2
    <3>2. CASE k # 1
      BY <1>7, <2>2, <3>2
    <3>. QED BY <3>1, <3>2
  <2>. HIDE DEF a, b, e
  <2>7. CASE a < b
    <3>1. e <= Len(t)
      BY <1>0, <2>1
    <3>2. Seen(SubSeq(t, 1, e)) = Then(Seen(SubSeq(t, 1, a)), Seen(SubSeq(t, b + 1, e)))
      BY <1>0, <2>1, <2>3, <2>4, <2>7, <3>1, SeenUpTo
    <3>. QED BY <2>5, <2>6, <3>2
  <2>8. CASE a = b /\ k = 1
    <3>1. a = 0
      BY <2>8 DEF a
    <3>2. b + 1 = 1 /\ k - 1 = 0
      BY <2>8, <3>1
    <3>3. d[k] = Seen(T[k]) /\ d[k - 1] = <<>>
      BY <1>7, <2>5, <3>2
    <3>4. T[k] \in Str
      BY <1>6
    <3>5. Then(<<>>, Seen(T[k])) = Seen(T[k])
      BY <3>4, SeenIsText, ThenIs
    <3>. QED BY <3>3, <3>5
  <2>. QED BY <2>3, <2>7, <2>8
<1>9. Words(T) = d[K]
  <2>1. Tells(d, T)
    BY <1>6, <1>7, <1>8 DEF Tells
  <2>. QED BY <1>6, <2>1, WordsTold
<1>10. d[K] = Seen(t)
  <2>1. CASE K = 0
    <3>1. \A i \in 1 .. N : t[i] \in NoWord
      BY <1>3, <2>1
    <3>2. Seen(t) = <<>>
      BY <1>0, <3>1, NothingToSee
    <3>. QED BY <1>7, <2>1, <3>2
  <2>2. CASE K # 0
    <3>. DEFINE a == S[K].to
    <3>1. K \in 1 .. K
      BY <1>2, <2>2
    <3>a. a \in Nat /\ a <= N
      BY <1>0, <1>2, <3>1
    <3>2. a \in Nat /\ a <= N /\ d[K] = Seen(SubSeq(t, 1, a))
      BY <1>7, <3>1, <3>a
    <3>3. \A i \in a + 1 .. N : t[i] \in NoWord
      <4>1. SUFFICES ASSUME NEW i \in a + 1 .. N PROVE t[i] \in NoWord
        OBVIOUS
      <4>2. i \in 1 .. N /\ a < i
        BY <1>0, <3>2
      <4>3. ASSUME NEW s \in 1 .. K, S[s].from <= i, i <= S[s].to PROVE FALSE
        <5>1. S[s].to \in S[s].from .. N /\ S[s].from \in 1 .. N /\ S[K].from \in 1 .. N /\ S[K].to \in S[K].from .. N
          BY <1>2, <3>1
        <5>2. s = K \/ s < K
          BY <1>2
        <5>3. s < K => S[s].to + 1 < S[K].from
          BY <1>2, <3>1
        <5>. QED BY <1>0, <4>2, <4>3, <5>1, <5>2, <5>3
      <4>. QED BY <1>3, <4>2, <4>3
    <3>. HIDE DEF a
    <3>4. CASE a = N
      BY <1>0, <3>2, <3>4, WholeAndNothing
    <3>5. CASE a # N
      <4>a. N \in Nat /\ N = Len(t)
        BY <1>0
      <4>b. a \in Nat /\ a <= N /\ a # N
        BY <3>a, <3>5
      <4>1. a < N /\ N <= N /\ N <= Len(t)
        BY <4>a, <4>b
      <4>2. Seen(SubSeq(t, 1, N)) = Then(Seen(SubSeq(t, 1, a)), Seen(SubSeq(t, N + 1, N)))
        BY <1>0, <3>2, <3>3, <4>1, SeenUpTo
      <4>3. Seen(t) = Then(Seen(SubSeq(t, 1, a)), <<>>)
        BY <1>0, <4>2, WholeAndNothing
      <4>4. SubSeq(t, 1, a) \in Str
        <5>1. a \in Int /\ 1 \in Int /\ 1 <= 1 /\ a <= Len(t)
          BY <1>0, <3>2
        <5>. QED BY <1>0, <5>1, SubSeqIs DEF Str
      <4>5. Then(Seen(SubSeq(t, 1, a)), <<>>) = Seen(SubSeq(t, 1, a))
        BY <4>4, SeenIsText, ThenIs
      <4>. QED BY <3>2, <4>3, <4>5
    <3>. QED BY <3>4, <3>5
  <2>. QED BY <2>1, <2>2
<1>. QED BY <1>9, <1>10 DEF T
-----------------------------------------------------------------------------
(* Words of a file.                                                        *)

\* Of an empty text nothing is seen.
LEMMA NothingSeen == Seen(NoText) = <<>> /\ NoText = <<>> /\ NoText \in Str
<1>1. NoText = <<>> /\ <<>> \in Str
  BY DEF NoText, Str
<1>. QED BY <1>1, WholeAndNothing

\* Extraction loses no word.
LEMMA ExtractWords ==
  ASSUME NEW f \in Sources
  PROVE  Seen(Extract(f).text) = Words(f.parts)
<1>. DEFINE gap == <<Nl, Nl>>
<1>0. gap \in Str /\ Len(gap) # 0 /\ \A i \in 1 .. Len(gap) : gap[i] \in NoWord
  BY Gaps
<1>1. f.parts \in Seq(Str)
  BY PartsAreTexts
<1>. HIDE DEF gap
<1>2. Seen(UnparseableSource.text) = <<>>
  BY NothingSeen DEF UnparseableSource, Extracted
<1>3. CASE f.kind = "md"
  <2>1. Len(f.parts) = 1
    BY <1>3, SourcesAssumption
  <2>2. f.parts[1] \in Str /\ f.parts = <<f.parts[1]>>
    BY <1>1, <2>1
  <2>3. Words(f.parts) = Seen(f.parts[1])
    BY <2>2, FewWords
  <2>4. Seen(Strip(f.parts[1])) = Seen(f.parts[1]) /\ Seen(LineEnds(f.parts[1])) = Seen(f.parts[1])
    BY <2>2, PassesKeepWords
  <2>5. Extract(f) = ExtractText(f)
    BY <1>3 DEF Extract
  <2>6. CASE Strip(f.parts[1]) = NoText
    <3>1. ExtractText(f).text = UnparseableSource.text
      BY <2>6 DEF ExtractText
    <3>. QED BY <1>2, <2>3, <2>4, <2>5, <2>6, <3>1, NothingSeen
  <2>7. CASE Strip(f.parts[1]) # NoText
    <3>1. ExtractText(f).text = LineEnds(f.parts[1])
      BY <2>7 DEF ExtractText, Extracted
    <3>. QED BY <2>3, <2>4, <2>5, <3>1
  <2>. QED BY <2>6, <2>7
<1>4. CASE f.kind = "docx"
  <2>. DEFINE stripped == [k \in DOMAIN f.parts |-> Strip(f.parts[k])]
              raw == Join(NonEmpty(stripped), gap)
  <2>1. stripped \in Seq(Str)
    BY <1>1, MappedIs
  <2>2. Words(stripped) = Words(f.parts)
    <3>1. DOMAIN stripped = DOMAIN f.parts
      OBVIOUS
    <3>2. \A k \in DOMAIN f.parts : f.parts[k] \in Str /\ stripped[k] = Strip(f.parts[k])
      BY <1>1
    <3>. HIDE DEF stripped
    <3>3. \A k \in DOMAIN f.parts : Seen(stripped[k]) = Seen(f.parts[k])
      BY <3>2, PassesKeepWords
    <3>. QED BY <3>1, <3>3, AlikeWords
  <2>3. Seen(raw) = Words(f.parts)
    <3>. HIDE DEF stripped
    <3>1. NonEmpty(stripped) \in Seq(Str) /\ Words(NonEmpty(stripped)) = Words(stripped)
      BY <2>1, NonEmptyIs, NonEmptyWords
    <3>2. Seen(raw) = Words(NonEmpty(stripped))
      BY <1>0, <3>1, JoinedWords
    <3>. QED BY <2>2, <3>1, <3>2
  <2>4. ExtractDocx(f) = IF raw = NoText THEN UnparseableSource ELSE Extracted(raw, "docx")
    BY DEF ExtractDocx, gap
  <2>. HIDE DEF raw
  <2>5. Extract(f) = ExtractDocx(f)
    BY <1>4 DEF Extract
  <2>6. CASE raw = NoText
    BY <1>2, <2>3, <2>4, <2>5, <2>6, NothingSeen
  <2>7. CASE raw # NoText
    <3>1. ExtractDocx(f).text = raw
      BY <2>4, <2>7 DEF Extracted
    <3>. QED BY <2>3, <2>5, <3>1
  <2>. QED BY <2>6, <2>7
<1>5. CASE f.kind = "pdf"
  <2>. DEFINE P == {k \in DOMAIN f.parts : Strip(f.parts[k]) # NoText}
              pages == Keep(f.parts, P)
              texts == [k \in DOMAIN pages |-> RejoinPdfParagraphs(pages[k])]
              raw == Join(texts, gap)
  <2>1. P \subseteq DOMAIN f.parts /\ \A k \in DOMAIN f.parts : k \notin P => Strip(f.parts[k]) = NoText
    OBVIOUS
  <2>2. pages \in Seq(Str) /\ Words(pages) = Words(f.parts)
    <3>. HIDE DEF P
    <3>1. \A k \in DOMAIN f.parts : k \notin P => Seen(f.parts[k]) = <<>>
      <4>1. SUFFICES ASSUME NEW k \in DOMAIN f.parts, k \notin P PROVE Seen(f.parts[k]) = <<>>
        OBVIOUS
      <4>2. f.parts[k] \in Str
        BY <1>1
      <4>3. Strip(f.parts[k]) = NoText
        BY <2>1, <4>1
      <4>4. Seen(Strip(f.parts[k])) = Seen(f.parts[k])
        BY <4>2, PassesKeepWords
      <4>. QED BY <4>3, <4>4, NothingSeen
    <3>. QED BY <1>1, <2>1, <3>1, KeepIs, KeptWords
  <2>. HIDE DEF pages
  <2>3. Len(pages) \in Nat /\ DOMAIN pages = 1 .. Len(pages) /\ \A k \in 1 .. Len(pages) : pages[k] \in Str
    BY <2>2
  <2>4. texts \in Seq(Str)
    <3>1. \A k \in 1 .. Len(pages) : RejoinPdfParagraphs(pages[k]) \in Str
      BY <2>3, PageIs
    <3>. QED BY <2>3, <3>1
  <2>5. Words(texts) = Words(pages)
    <3>1. DOMAIN texts = DOMAIN pages /\ \A k \in DOMAIN pages : texts[k] = RejoinPdfParagraphs(pages[k])
      OBVIOUS
    <3>. HIDE DEF texts
    <3>2. \A k \in DOMAIN pages : Seen(texts[k]) = Seen(pages[k])
      BY <2>3, <3>1, PageWords
    <3>. QED BY <3>1, <3>2, AlikeWords
  <2>6. Seen(raw) = Words(texts)
    <3>. HIDE DEF texts
    <3>. QED BY <1>0, <2>4, JoinedWords
  <2>7. ExtractPdf(f) \in {Extracted(raw, "pdf_image"), Extracted(raw, "pdf_text")}
    BY DEF ExtractPdf, gap, pages
  <2>. HIDE DEF raw, texts
  <2>8. ExtractPdf(f).text = raw
    BY <2>7 DEF Extracted
  <2>9. Extract(f) = ExtractPdf(f)
    BY <1>5 DEF Extract
  <2>. QED BY <2>2, <2>5, <2>6, <2>8, <2>9
<1>6. CASE f.kind = "unreadable"
  <2>1. f.parts = <<>>
    BY <1>6, SourcesAssumption
  <2>2. Words(f.parts) = <<>>
    BY <2>1, FewWords
  <2>. QED BY <1>2, <1>6, <2>2 DEF Extract
<1>. QED BY <1>3, <1>4, <1>5, <1>6, SourcesAssumption

\* What freeze() returns has the words of the file in its spans.
LEMMA FreezeWords ==
  ASSUME NEW f \in Sources
  PROVE  /\ Words(SpanTexts(Freeze(f))) = Words(f.parts)
         /\ Freeze(f).spans = <<>> <=> Words(f.parts) = NoText
<1>. DEFINE r == Freeze(f)
            t == Normalize(Extract(f).text)
<1>1. r.text = t /\ r.spans = ParagraphOffsets(t)
  BY DEF Freeze
<1>2. Settled(t) /\ Seen(t) = Seen(Extract(f).text)
  BY ExtractIs, NormalizedIs, NormalizeKeepsWords
<1>. HIDE DEF r, t
<1>3. Words(SpanTexts(r)) = Words(f.parts)
  BY <1>1, <1>2, SpanWords, ExtractWords
<1>4. ASSUME r.spans = <<>> PROVE Words(f.parts) = NoText
  <2>1. SpanTexts(r) = <<>>
    BY <1>4 DEF SpanTexts, SpanIds
  <2>. QED BY <1>3, <2>1, FewWords DEF NoText
<1>5. ASSUME r.spans # <<>> PROVE Words(f.parts) # NoText
  <2>1. Len(t) # 0
    <3>1. t \in Str /\ r.spans \in Seq([from : 1 .. Len(t), to : 1 .. Len(t)])
      BY <1>1, <1>2, OffsetsAre DEF Settled
    <3>. DEFINE R == [from : 1 .. Len(t), to : 1 .. Len(t)]
    <3>. HIDE DEF R
    <3>2. r.spans[1] \in R
      <4>1. r.spans \in Seq(R) /\ r.spans # <<>>
        BY <1>5, <3>1 DEF R
      <4>. QED BY <4>1
    <3>3. r.spans[1].from \in 1 .. Len(t)
      BY <3>2 DEF R
    <3>. QED BY <3>3
  <2>2. Seen(t) # NoText
    BY <1>2, <2>1, SomethingSeen
  <2>. QED BY <1>2, <2>2, ExtractWords
<1>. QED BY <1>3, <1>4, <1>5 DEF r
-----------------------------------------------------------------------------
(* The frozen rendition.                                                   *)

\* Out of nothing comes no span.
LEMMA NothingCitable == ParagraphOffsets(Normalize(NoText)) = <<>>
<1>1. NoText \in Str /\ Len(NoText) = 0 /\ DOMAIN NoText = {}
  BY DEF Str, NoText
<1>2. Normalize(NoText) = NoText
  <2>1. /\ 1 .. Len(NoText) - 1 = {} /\ 1 .. Len(NoText) = {} /\ 3 .. Len(NoText) = {}
    BY <1>1
  <2>2. /\ Composed(NoText) /\ Without(NoText, Cr) /\ Without(NoText, Inv) /\ NoTrailing(NoText)
        /\ NoRuns(NoText) /\ Trimmed(NoText)
    BY <1>1, <2>1 DEF Composed, Without, NoTrailing, NoRuns, Trimmed
  <2>. QED BY <1>1, <2>2, FixedPoint
<1>3. ParagraphOffsets(NoText) = <<>>
  <2>. DEFINE t == NoText
              begins == {b \in DOMAIN t : /\ t[b] # Nl
                                          /\ \/ \A i \in 1 .. b - 1 : t[i] = Nl
                                             \/ b > 2 /\ t[b - 1] = Nl /\ t[b - 2] = Nl}
              blank(i) == t[i] = Nl /\ i < Len(t) /\ t[i + 1] = Nl
              within(b) == {i \in b .. Len(t) : t[i] \notin {Nl, Sp} /\ \A k \in b .. i : ~blank(k)}
              kept == {b \in begins : within(b) # {}}
              C == Cardinality(kept)
              spans == [n \in 1 .. C |-> [from |-> Nth(kept, n), to |-> Max(within(Nth(kept, n)))]]
  <2>1. ParagraphOffsets(t) = spans
    BY DEF ParagraphOffsets
  <2>2. begins = {}
    BY <1>1
  <2>3. kept = {}
    <3>. HIDE DEF begins, within
    <3>. QED BY <2>2
  <2>4. 1 .. C = {}
    <3>1. C = 0
      <4>. HIDE DEF kept
      <4>. QED BY <2>3, FS_EmptySet
    <3>. HIDE DEF C
    <3>. QED BY <3>1
  <2>5. spans = <<>>
    <3>. HIDE DEF C, kept, within
    <3>. QED BY <2>4
  <2>. QED BY <2>1, <2>5
<1>. QED BY <1>2, <1>3

\* The line ends a file is saved with leave no trace.
LEMMA LineEndsDoNotMatter ==
  ASSUME NEW f \in Sources, f.kind = "md", Without(f.parts[1], Cr), Freeze(f).spans # <<>>
  PROVE  Normalize(Saved(f.parts[1])) = Freeze(f).text
<1>. DEFINE raw == f.parts[1]
<1>1. raw \in Str
  <2>1. f.parts \in Seq(Str) /\ Len(f.parts) = 1
    BY PartsAreTexts, SourcesAssumption
  <2>. QED BY <2>1
<1>2. /\ Freeze(f).text = Normalize(Extract(f).text)
      /\ Freeze(f).spans = ParagraphOffsets(Normalize(Extract(f).text))
  BY DEF Freeze
<1>3. Extract(f) = ExtractText(f)
  BY DEF Extract
<1>4. Strip(raw) # NoText
  <2>1. SUFFICES ASSUME Strip(raw) = NoText PROVE FALSE
    OBVIOUS
  <2>2. Extract(f).text = NoText
    BY <1>3, <2>1 DEF ExtractText, UnparseableSource, Extracted
  <2>. QED BY <1>2, <2>2, NothingCitable
<1>5. Extract(f).text = LineEnds(raw)
  BY <1>3, <1>4 DEF ExtractText, Extracted
<1>. HIDE DEF raw
<1>6. Without(raw, Cr)
  BY DEF raw
<1>7. LineEnds(raw) = raw
  BY <1>1, <1>6, LineEndsFixed
<1>8. LineEnds(Nfc(raw)) = Nfc(raw)
  <2>1. Nfc(raw) \in Str
    BY <1>1, PassesAreTexts
  <2>2. Without(Nfc(raw), Cr)
    BY <1>1, <1>6, NfcPass, Apart
  <2>. QED BY <2>1, <2>2, LineEndsFixed
<1>9. LineEnds(Nfc(Saved(raw))) = Nfc(raw)
  BY <1>1, <1>6, SavedAlike
<1>10. Normalize(Saved(raw)) = Normalize(raw)
  BY <1>8, <1>9 DEF Normalize
<1>. QED BY <1>2, <1>5, <1>7, <1>10 DEF raw

\* What the scanner reports of a rendition.
Found(r) == UNION {{Locate(r, p, m) : m \in Matches(Folded(r.text), p)} : p \in Patterns}

\* What is frozen is what freeze() returned, what is scanned is that, and a file is
\* refused exactly when it has no span.
Frozen ==
  /\ source \in Sources
  /\ stage # "handed in" => (stage = "unparseable" <=> Freeze(source).spans = <<>>)
  /\ stage \in {"frozen", "scanned"} => rendition = Freeze(source)
  /\ stage = "scanned" => detections = Found(rendition)

\* No step breaks that.
LEMMA FrozenIs == Spec => []Frozen
<1>1. Init => Frozen
  BY DEF Init, Frozen
<1>2. Frozen /\ [Next]_vars => Frozen'
  <2>. SUFFICES ASSUME Frozen, [Next]_vars PROVE Frozen'
    OBVIOUS
  <2>1. source' = source
    BY DEF Next, vars, FreezeSource, Scan, Cite, BuildCitation, Judge
  <2>2. CASE FreezeSource
    BY <2>1, <2>2 DEF FreezeSource, Frozen
  <2>3. CASE Scan
    <3>1. /\ stage = "frozen" /\ stage' = "scanned" /\ rendition' = rendition
          /\ detections' = Found(rendition)
      BY <2>3 DEF Scan, Found
    <3>. QED BY <2>1, <3>1 DEF Frozen
  <2>4. CASE Cite \/ BuildCitation \/ Judge
    <3>1. /\ stage' \notin {"handed in", "unparseable", "frozen", "scanned"}
          /\ stage \notin {"handed in", "unparseable"}
      BY <2>4 DEF Cite, BuildCitation, Judge
    <3>. QED BY <2>1, <3>1 DEF Frozen
  <2>5. CASE UNCHANGED vars
    <3>1. stage' = stage /\ rendition' = rendition /\ detections' = detections
      BY <2>5 DEF vars
    <3>. QED BY <2>1, <3>1 DEF Frozen
  <2>. QED BY <2>2, <2>3, <2>4, <2>5 DEF Next
<1>. QED BY <1>1, <1>2, PTL DEF Spec

\* normalize() changes nothing in what freeze() returned, and a file saved with
\* the other line ends gives the same rendition.
THEOREM NormalizedOnce == Spec => []RenditionIsSettled
<1>1. Frozen => RenditionIsSettled
  <2>. SUFFICES ASSUME Frozen, stage = "frozen"
       PROVE  /\ Normalize(rendition.text) = rendition.text
              /\ source.kind = "md" /\ (\A i \in DOMAIN source.parts[1] : source.parts[1][i] # Cr) =>
                   Normalize(Saved(source.parts[1])) = rendition.text
    BY DEF RenditionIsSettled, Saved
  <2>1. rendition = Freeze(source) /\ Freeze(source).spans # <<>> /\ source \in Sources
    BY DEF Frozen
  <2>2. Normalize(rendition.text) = rendition.text
    <3>1. rendition.text = Normalize(Extract(source).text)
      BY <2>1 DEF Freeze
    <3>2. Extract(source).text \in Str
      BY <2>1, ExtractIs
    <3>. QED BY <3>1, <3>2, Idempotent
  <2>3. ASSUME source.kind = "md", \A i \in DOMAIN source.parts[1] : source.parts[1][i] # Cr
        PROVE  Normalize(Saved(source.parts[1])) = rendition.text
    <3>1. DOMAIN source.parts[1] = 1 .. Len(source.parts[1])
      <4>1. source.parts \in Seq(Seq(STRING)) /\ Len(source.parts) = 1
        BY <2>1, <2>3, SourcesAssumption
      <4>2. source.parts[1] \in Seq(STRING)
        BY <4>1
      <4>. QED BY <4>2
    <3>2. Without(source.parts[1], Cr)
      BY <2>3, <3>1 DEF Without
    <3>. QED BY <2>1, <2>3, <3>2, LineEndsDoNotMatter
  <2>. QED BY <2>2, <2>3
<1>. QED BY <1>1, FrozenIs, PTL

\* In what was scanned, every payload of a pattern begins in a detection of it;
\* every detection is a payload of its pattern and names the span it begins in, and
\* it ends there if none of its words are separated by blanks alone.
THEOREM PayloadsAreCaught == Spec => []CaughtInItsParagraph
<1>1. Frozen => CaughtInItsParagraph
  <2>. SUFFICES ASSUME Frozen, stage = "scanned", NEW p \in Patterns
       PROVE  LET found == {d \in detections : d.pattern = p}
                  payloads == Payloads(rendition, p)
              IN /\ \A at \in payloads : \E d \in found : d.from <= at[1] /\ at[1] <= d.to
                 /\ \A d \in found :
                      /\ \E at \in payloads : at[1] = d.from /\ at[Len(p.words)] = d.to
                      /\ d.span \in SpanIds(rendition)
                      /\ rendition.spans[d.span].from <= d.from /\ d.from <= rendition.spans[d.span].to
                      /\ (\A k \in DOMAIN p.between : p.between[k] = Gap) =>
                           d.to <= rendition.spans[d.span].to
    BY DEF CaughtInItsParagraph
  <2>. DEFINE t == rendition.text
              F == Folded(t)
              n == Len(p.words)
              found == {d \in detections : d.pattern = p}
              payloads == Payloads(rendition, p)
  <2>1. /\ Settled(t) /\ rendition.spans = ParagraphOffsets(t) /\ t \in Str
        /\ detections = UNION {{Locate(rendition, q, m) : m \in Matches(F, q)} : q \in Patterns}
    <3>1. /\ rendition = Freeze(source) /\ source \in Sources
          /\ detections = Found(rendition)
      BY DEF Frozen
    <3>2. rendition.text = Normalize(Extract(source).text) /\ rendition.spans = ParagraphOffsets(rendition.text)
      BY <3>1 DEF Freeze
    <3>3. Settled(rendition.text)
      BY <3>1, <3>2, ExtractIs, NormalizedIs
    <3>4. Found(rendition) = UNION {{Locate(rendition, q, m) : m \in Matches(F, q)} : q \in Patterns}
      BY DEF Found
    <3>. HIDE DEF F
    <3>. QED BY <3>1, <3>2, <3>3, <3>4 DEF Settled
  <2>2. F \in Str /\ Len(F) = Len(t)
    BY <2>1, FoldedIs
  <2>3. Readings(F, p) = payloads
    BY <2>1, PayloadsAre
  <2>. HIDE DEF F
  <2>4. ASSUME NEW i
        PROVE  /\ Ending(F, p, i) \subseteq i + 1 .. Len(F)
               /\ \A j \in Ending(F, p, i) : \E at \in payloads : at[1] = i /\ at[n] = j
               /\ \A at \in payloads : at[1] = i => at[n] \in Ending(F, p, i)
    BY <2>2, <2>3, WordsInARow DEF Ending
  <2>5. /\ \A m \in Matches(F, p) : m.from \in 1 .. Len(t) /\ m.to \in Ending(F, p, m.from)
        /\ \A i \in 1 .. Len(t) : Ending(F, p, i) # {} => \E m \in Matches(F, p) : m.from <= i /\ i <= m.to
    BY <2>2, <2>4, MatchesAre
  <2>6. \A at \in payloads : at[1] \in 1 .. Len(t) /\ t[at[1]] \notin {Nl, Sp}
    <3>1. SUFFICES ASSUME NEW at \in payloads PROVE at[1] \in 1 .. Len(t) /\ t[at[1]] \notin {Nl, Sp}
      OBVIOUS
    <3>2. at[1] \in 1 .. Len(t)
      BY <2>2, <2>3, <3>1, WordsInARow
    <3>3. 1 \in 1 .. Len(p.words) /\ 1 \in DOMAIN p.words /\ \A c \in p.words[1] : c \notin {Nl, Sp}
      BY PatternIs
    <3>4. t[at[1]] \in p.words[1]
      BY <3>1, <3>3 DEF Payloads
    <3>. QED BY <3>2, <3>3, <3>4
  <2>7. ASSUME NEW m \in Matches(F, p)
        PROVE  LET d == Locate(rendition, p, m) IN
               /\ d.pattern = p /\ d.from = m.from /\ d.to = m.to
               /\ d.span \in SpanIds(rendition)
               /\ rendition.spans[d.span].from <= d.from /\ d.from <= rendition.spans[d.span].to
    <3>1. m.from \in 1 .. Len(t) /\ t[m.from] \notin {Nl, Sp}
      BY <2>4, <2>5, <2>6
    <3>. QED BY <2>1, <3>1, LocatedIs
  <2>8. ASSUME NEW at \in payloads PROVE \E d \in found : d.from <= at[1] /\ at[1] <= d.to
    <3>1. at[1] \in 1 .. Len(t) /\ Ending(F, p, at[1]) # {}
      BY <2>4, <2>6
    <3>2. PICK m \in Matches(F, p) : m.from <= at[1] /\ at[1] <= m.to
      BY <2>5, <3>1
    <3>. DEFINE d == Locate(rendition, p, m)
    <3>3. d \in detections
      BY <2>1
    <3>4. d.pattern = p /\ d.from = m.from /\ d.to = m.to
      BY <2>7
    <3>. HIDE DEF d
    <3>. QED BY <3>2, <3>3, <3>4
  <2>9. ASSUME NEW d \in found
        PROVE  /\ \E at \in payloads : at[1] = d.from /\ at[n] = d.to
               /\ d.span \in SpanIds(rendition)
               /\ rendition.spans[d.span].from <= d.from /\ d.from <= rendition.spans[d.span].to
               /\ (\A k \in DOMAIN p.between : p.between[k] = Gap) => d.to <= rendition.spans[d.span].to
    <3>1. PICK q \in Patterns : \E m \in Matches(F, q) : d = Locate(rendition, q, m)
      BY <2>1
    <3>2. PICK m \in Matches(F, q) : d = Locate(rendition, q, m)
      BY <3>1
    <3>3. q = p
      <4>1. Locate(rendition, q, m).pattern = q
        BY DEF Locate
      <4>. QED BY <3>2, <4>1
    <3>4. /\ d.from = m.from /\ d.to = m.to /\ d.span \in SpanIds(rendition)
          /\ rendition.spans[d.span].from <= d.from /\ d.from <= rendition.spans[d.span].to
      BY <2>7, <3>2, <3>3
    <3>5. PICK at \in payloads : at[1] = d.from /\ at[n] = d.to
      BY <2>4, <2>5, <3>2, <3>3, <3>4
    <3>6. (\A k \in DOMAIN p.between : p.between[k] = Gap) => d.to <= rendition.spans[d.span].to
      <4>1. SUFFICES ASSUME \A k \in DOMAIN p.between : p.between[k] = Gap
            PROVE  d.to <= rendition.spans[d.span].to
        OBVIOUS
      <4>2. rendition.spans[d.span].from <= at[1] /\ at[1] <= rendition.spans[d.span].to
        BY <3>4, <3>5
      <4>3. at[n] <= rendition.spans[d.span].to
        BY <2>1, <3>4, <4>1, <4>2, StaysInItsSpan
      <4>. QED BY <3>5, <4>3
    <3>. QED BY <3>4, <3>5, <3>6
  <2>. QED BY <2>8, <2>9
<1>. QED BY <1>1, FrozenIs, PTL

\* The spans of a frozen rendition have the words of what extract() reads of the
\* file, in their order, and a file is refused exactly when there are none: freeze()
\* drops, doubles and swaps nothing.  A document's tables and headers are not read.
THEOREM NoWordIsLost == Spec => []NothingIsLost
<1>1. Frozen => NothingIsLost
  BY FreezeWords DEF Frozen, NothingIsLost
<1>. QED BY <1>1, FrozenIs, PTL
=============================================================================
