---------------------------- MODULE Docket_proofs ----------------------------
(***************************************************************************)
(* The docket keeps every version and serves the fold of its log, for any  *)
(* class, any requests, any number of them at once and any log a run may   *)
(* have left.  The argument: the log only grows, by deliveries and edits,  *)
(* so whatever was read of it is a beginning of it that has the run's      *)
(* observations; each edit is of a version that the log knew before; and   *)
(* the generations of the edits of an observation are the first numbers.   *)
(* If requests come one at a time, the version a request edits is the last *)
(* one and its generation the next.                                        *)
(***************************************************************************)
EXTENDS Docket, Render_proofs, FunctionTheorems
-----------------------------------------------------------------------------
(* Logs that grow.                                                         *)

\* A sequence of events the fold can sort.
IsLog(l) == l \in Seq(ToSet(l)) /\ Sortable(l)

\* A log is its events, from the first to the last.
LEMMA LogIs ==
  ASSUME NEW l, l \in Seq(ToSet(l))
  PROVE  Len(l) \in Nat /\ DOMAIN l = 1 .. Len(l) /\ ToSet(l) = {l[i] : i \in 1 .. Len(l)}
<1>. DEFINE S == ToSet(l)
<1>1. Len(l) \in Nat /\ DOMAIN l = 1 .. Len(l)
  <2>1. l \in Seq(S)
    OBVIOUS
  <2>. HIDE DEF S
  <2>. QED BY <2>1
<1>. QED BY <1>1 DEF ToSet

\* A log and one event more.
LEMMA AppendIs ==
  ASSUME NEW l, l \in Seq(ToSet(l)), NEW e
  PROVE  LET m == Append(l, e) IN
         /\ m \in Seq(ToSet(m)) /\ ToSet(m) = ToSet(l) \union {e}
         /\ Len(m) = Len(l) + 1 /\ DOMAIN m = 1 .. Len(l) + 1
         /\ m[Len(l) + 1] = e /\ \A i \in 1 .. Len(l) : m[i] = l[i]
<1>. DEFINE m == Append(l, e)
            S == ToSet(l) \union {e}
<1>1. Len(l) \in Nat /\ DOMAIN l = 1 .. Len(l) /\ ToSet(l) = {l[i] : i \in 1 .. Len(l)}
  BY LogIs
<1>2. l \in Seq(S) /\ e \in S
  <2>1. l \in Seq(ToSet(l)) /\ ToSet(l) \subseteq S
    OBVIOUS
  <2>. HIDE DEF S
  <2>2. l \in Seq(S)
    BY <2>1, SeqGrows
  <2>. QED BY <2>2 DEF S
<1>3. /\ m \in Seq(S) /\ Len(m) = Len(l) + 1 /\ DOMAIN m = 1 .. Len(l) + 1
      /\ m[Len(l) + 1] = e /\ \A i \in 1 .. Len(l) : m[i] = l[i]
  <2>. HIDE DEF S
  <2>. QED BY <1>1, <1>2
<1>. HIDE DEF m
<1>4. ToSet(m) = S
  <2>1. ToSet(m) = {m[i] : i \in 1 .. Len(l) + 1}
    BY <1>3 DEF ToSet
  <2>2. 1 .. Len(l) + 1 = (1 .. Len(l)) \union {Len(l) + 1}
    BY <1>1
  <2>. HIDE DEF S
  <2>3. ToSet(m) \subseteq S
    BY <1>1, <1>3, <2>1, <2>2 DEF S
  <2>4. S \subseteq ToSet(m)
    BY <1>1, <1>3, <2>1, <2>2 DEF S
  <2>. QED BY <2>3, <2>4
<1>. QED BY <1>3, <1>4 DEF m

\* An earlier log, of which the later one is more by what is folded late.
Earlier(q, l) == q \in Seq(ToSet(q)) /\ Cut(q, l)

\* It is a prefix, and the log itself when it is as long.
LEMMA EarlierIs ==
  ASSUME NEW l, l \in Seq(ToSet(l)), NEW q, Earlier(q, l)
  PROVE  IsPrefix(q, l) /\ (Len(q) = Len(l) => q = l)
<1>1. /\ Len(l) \in Nat /\ DOMAIN l = 1 .. Len(l) /\ Len(q) \in Nat /\ DOMAIN q = 1 .. Len(q)
      /\ Len(q) <= Len(l) /\ \A i \in 1 .. Len(q) : q[i] = l[i]
  BY LogIs DEF Earlier, Cut
<1>. DEFINE S == ToSet(l)
            T == ToSet(q)
<1>2. l \in Seq(S) /\ q \in Seq(T)
  BY DEF Earlier
<1>. HIDE DEF S, T
<1>3. SubSeq(q, 1, Len(q)) = SubSeq(l, 1, Len(q))
  <2>1. SubSeq(q, 1, Len(q)) = [i \in 1 .. Len(q) |-> q[i]]
    BY <1>1, <1>2
  <2>2. SubSeq(l, 1, Len(q)) = [i \in 1 .. Len(q) |-> l[i]]
    BY <1>1, <1>2
  <2>. QED BY <1>1, <2>1, <2>2
<1>4. Len(q) = Len(l) => q = l
  <2>1. q = [i \in 1 .. Len(q) |-> q[i]] /\ l = [i \in 1 .. Len(l) |-> l[i]]
    BY <1>1, <1>2
  <2>. QED BY <1>1, <2>1
<1>. QED BY <1>1, <1>3, <1>4 DEF IsPrefix

\* A log is earlier than itself.
LEMMA EarlierSelf ==
  ASSUME NEW l, l \in Seq(ToSet(l))
  PROVE  Earlier(l, l)
  BY LogIs DEF Earlier, Cut

\* Of two earlier logs the shorter is earlier than the longer.
LEMMA EarlierThan ==
  ASSUME NEW l, NEW q, NEW p, Len(l) \in Nat, Earlier(p, l), Earlier(q, l), Len(p) <= Len(q)
  PROVE  Earlier(p, q)
<1>1. /\ Len(p) \in Nat /\ DOMAIN p = 1 .. Len(p)
      /\ \A i \in 1 .. Len(p) : p[i] = l[i]
      /\ \A i \in Len(p) + 1 .. Len(l) : ~Early(l[i])
      /\ Len(q) \in Nat /\ Len(q) <= Len(l) /\ \A i \in 1 .. Len(q) : q[i] = l[i]
  BY DEF Earlier, Cut
<1>2. \A i \in 1 .. Len(p) : p[i] = q[i]
  BY <1>1
<1>3. \A i \in Len(p) + 1 .. Len(q) : ~Early(q[i])
  BY <1>1
<1>. QED BY <1>1, <1>2, <1>3 DEF Earlier, Cut

\* An event that is folded late leaves what was earlier so.
LEMMA EarlierAppend ==
  ASSUME NEW l, l \in Seq(ToSet(l)), NEW e, ~Early(e), NEW q, Earlier(q, l)
  PROVE  Earlier(q, Append(l, e))
<1>. DEFINE m == Append(l, e)
<1>1. /\ Len(m) = Len(l) + 1 /\ Len(l) \in Nat
      /\ m[Len(l) + 1] = e /\ \A i \in 1 .. Len(l) : m[i] = l[i]
  BY AppendIs, LogIs
<1>2. /\ Len(q) \in Nat /\ DOMAIN q = 1 .. Len(q) /\ Len(q) <= Len(l)
      /\ \A i \in 1 .. Len(q) : q[i] = l[i]
      /\ \A i \in Len(q) + 1 .. Len(l) : ~Early(l[i])
  BY DEF Earlier, Cut
<1>. HIDE DEF m
<1>3. \A i \in 1 .. Len(q) : q[i] = m[i]
  BY <1>1, <1>2
<1>4. \A i \in Len(q) + 1 .. Len(m) : ~Early(m[i])
  BY <1>1, <1>2
<1>5. Cut(q, m)
  BY <1>1, <1>2, <1>3, <1>4 DEF Cut
<1>. QED BY <1>5 DEF Earlier, m

\* One more event that is folded late.
LEMMA Grown ==
  ASSUME NEW l, IsLog(l), NEW e, e.step \in DOMAIN Rank, e.key[2] \in Nat, ~Early(e)
  PROVE  LET m == Append(l, e) IN
         /\ IsLog(m) /\ Earlier(l, m) /\ Base(m) = Base(l)
         /\ Len(l) \in Nat /\ Len(m) = Len(l) + 1 /\ m[Len(l) + 1] = e
         /\ DOMAIN l = 1 .. Len(l) /\ DOMAIN m = 1 .. Len(l) + 1
         /\ \A k \in 1 .. Len(l) : m[k] = l[k]
         /\ EditsAt(m) = IF e.step = "ObservationEditedByHuman" THEN EditsAt(l) \union {Len(l) + 1}
                         ELSE EditsAt(l)
<1>. DEFINE m == Append(l, e)
            n == Len(l)
<1>1. /\ m \in Seq(ToSet(m)) /\ Len(m) = n + 1 /\ DOMAIN m = 1 .. n + 1
      /\ m[n + 1] = e /\ \A i \in 1 .. n : m[i] = l[i]
  BY AppendIs DEF IsLog
<1>2. Earlier(l, m)
  BY EarlierSelf, EarlierAppend DEF IsLog
<1>3. n \in Nat /\ DOMAIN l = 1 .. n
  BY LogIs DEF IsLog
<1>. HIDE DEF m, n
<1>4. \A i \in 1 .. n + 1 : i \in 1 .. n \/ i = n + 1
  BY <1>3
<1>5. Sortable(m)
  <2>1. \A i \in 1 .. n : l[i].step \in DOMAIN Rank /\ l[i].key[2] \in Nat
    BY <1>3 DEF IsLog, Sortable
  <2>2. \A i \in 1 .. n + 1 : m[i].step \in DOMAIN Rank /\ m[i].key[2] \in Nat
    BY <1>1, <1>4, <2>1
  <2>. QED BY <1>1, <1>3, <2>2 DEF Sortable
<1>6. Base(m) = Base(l)
  BY <1>2, <1>5, CutSame DEF Earlier
<1>7. EditsAt(m) = IF e.step = "ObservationEditedByHuman" THEN EditsAt(l) \union {n + 1}
                   ELSE EditsAt(l)
  <2>1. EditsAt(m) = {k \in 1 .. n + 1 : m[k].step = "ObservationEditedByHuman"}
    BY <1>1 DEF EditsAt
  <2>2. EditsAt(l) = {k \in 1 .. n : l[k].step = "ObservationEditedByHuman"}
    BY <1>3 DEF EditsAt
  <2>3. \A k \in 1 .. n : k \in 1 .. n + 1
    BY <1>3
  <2>4. n + 1 \in 1 .. n + 1
    BY <1>3
  <2>. QED BY <1>1, <1>4, <2>1, <2>2, <2>3, <2>4
<1>. QED BY <1>1, <1>2, <1>3, <1>5, <1>6, <1>7 DEF IsLog, m, n

\* An event that decides nothing leaves each criterion its one outcome.
LEMMA DecidedStays ==
  ASSUME NEW l, IsLog(l), Decided(l), NEW e, ~Decides(e)
  PROVE  Decided(Append(l, e))
<1>. DEFINE m == Append(l, e)
            n == Len(l)
<1>1. DOMAIN m = 1 .. n + 1 /\ m[n + 1] = e /\ \A i \in 1 .. n : m[i] = l[i]
  BY AppendIs DEF IsLog
<1>2. n \in Nat /\ DOMAIN l = 1 .. n
  BY LogIs DEF IsLog
<1>. HIDE DEF m, n
<1>3. \A i \in DOMAIN m : Decides(m[i]) => i \in DOMAIN l /\ m[i] = l[i]
  <2>1. \A i \in 1 .. n + 1 : i \in 1 .. n \/ i = n + 1
    BY <1>2
  <2>. QED BY <1>1, <1>2, <2>1
<1>4. Decided(m)
  BY <1>3 DEF Decided
<1>. QED BY <1>4 DEF m

\* Deliveries are no edits.
LEMMA DeliveryKeeps ==
  ASSUME NEW l, IsLog(l), WellEdited(l), NEW e, e.step = "ArtifactDelivered", e.key[2] \in Nat
  PROVE  /\ WellEdited(Append(l, e))
         /\ Linear(l) => Linear(Append(l, e))
<1>. DEFINE m == Append(l, e)
<1>1. e.step \in DOMAIN Rank /\ ~Early(e) /\ e.step # "ObservationEditedByHuman"
  BY DEF Rank, Early
<1>2. /\ IsLog(m) /\ Base(m) = Base(l) /\ EditsAt(m) = EditsAt(l)
      /\ DOMAIN l = 1 .. Len(l) /\ \A k \in 1 .. Len(l) : m[k] = l[k]
  BY <1>1, Grown
<1>. HIDE DEF m
<1>3. \A k \in EditsAt(l) : m[k] = l[k]
  BY <1>2 DEF EditsAt
<1>4. WellEdited(m)
  BY <1>2, <1>3 DEF WellEdited, IsLog
<1>5. Linear(l) => Linear(m)
  BY <1>2, <1>3 DEF Linear
<1>. QED BY <1>4, <1>5 DEF m

\* An edit of a version the log holds, under a generation of its own.
LEMMA EditKeeps ==
  ASSUME NEW l, IsLog(l), WellEdited(l),
         NEW e, e.step = "ObservationEditedByHuman", e.key[2] \in Nat, IsEdit(e),
         \/ e.body.before \in Base(l)
         \/ \E j \in EditsAt(l) : l[j].body.after = e.body.before /\ l[j].key[2] < e.key[2],
         \A j \in EditsAt(l) :
           l[j].unit = e.unit /\ l[j].key[1] = e.key[1] => l[j].key[2] # e.key[2]
  PROVE  LET m == Append(l, e) IN
         /\ WellEdited(m)
         /\ Linear(l) /\ ( \/ e.key[2] = 0 /\ e.body.before \in Base(l)
                           \/ \E j \in EditsAt(l) : /\ l[j].key[2] + 1 = e.key[2]
                                                    /\ l[j].body.after = e.body.before )
              => Linear(m)
         /\ Known(m, DOMAIN m) = Known(l, DOMAIN l) \union {e.body.after}
<1>. DEFINE m == Append(l, e)
            n == Len(l)
<1>1. e.step \in DOMAIN Rank /\ ~Early(e)
  BY DEF Rank, Early
<1>2. /\ IsLog(m) /\ Base(m) = Base(l) /\ EditsAt(m) = EditsAt(l) \union {n + 1}
      /\ DOMAIN l = 1 .. n /\ DOMAIN m = 1 .. n + 1 /\ n \in Nat
      /\ m[n + 1] = e /\ \A k \in 1 .. n : m[k] = l[k]
  BY <1>1, Grown
<1>. HIDE DEF m, n
<1>3. \A k \in EditsAt(l) : m[k] = l[k] /\ k \in 1 .. n /\ k < n + 1
  BY <1>2 DEF EditsAt
<1>4. WellEdited(m)
  <2>1. ASSUME NEW k \in EditsAt(m)
        PROVE  /\ IsEdit(m[k])
               /\ \/ m[k].body.before \in Base(m)
                  \/ \E j \in EditsAt(m) :
                       /\ j < k /\ m[j].body.after = m[k].body.before
                       /\ m[j].key[2] < m[k].key[2]
    <3>1. CASE k \in EditsAt(l)
      <4>1. /\ IsEdit(l[k])
            /\ \/ l[k].body.before \in Base(l)
               \/ \E j \in EditsAt(l) :
                    /\ j < k /\ l[j].body.after = l[k].body.before
                    /\ l[j].key[2] < l[k].key[2]
        BY <3>1 DEF WellEdited
      <4>. QED BY <1>2, <1>3, <3>1, <4>1
    <3>2. CASE k = n + 1
      BY <1>2, <1>3, <3>2
    <3>. QED BY <1>2, <2>1, <3>1, <3>2
  <2>2. ASSUME NEW j \in EditsAt(m), NEW k \in EditsAt(m),
               m[j].unit = m[k].unit, m[j].key[1] = m[k].key[1], m[j].key[2] = m[k].key[2]
        PROVE  j = k
    <3>1. CASE j \in EditsAt(l) /\ k \in EditsAt(l)
      BY <1>3, <2>2, <3>1 DEF WellEdited
    <3>2. CASE j = n + 1 /\ k \in EditsAt(l)
      BY <1>2, <1>3, <2>2, <3>2
    <3>3. CASE j \in EditsAt(l) /\ k = n + 1
      BY <1>2, <1>3, <2>2, <3>3
    <3>. QED BY <1>2, <3>1, <3>2, <3>3
  <2>. QED BY <1>2, <2>1, <2>2 DEF WellEdited, IsLog
<1>5. ASSUME Linear(l),
             \/ e.key[2] = 0 /\ e.body.before \in Base(l)
             \/ \E j \in EditsAt(l) : /\ l[j].key[2] + 1 = e.key[2]
                                      /\ l[j].body.after = e.body.before
      PROVE  Linear(m)
  <2>1. ASSUME NEW k \in EditsAt(l)
        PROVE  \/ m[k].key[2] = 0 /\ m[k].body.before \in Base(m)
               \/ \E j \in EditsAt(m) :
                    m[j].key[2] + 1 = m[k].key[2] /\ m[j].body.after = m[k].body.before
    <3>1. \/ l[k].key[2] = 0 /\ l[k].body.before \in Base(l)
          \/ \E j \in EditsAt(l) :
               l[j].key[2] + 1 = l[k].key[2] /\ l[j].body.after = l[k].body.before
      BY <1>5 DEF Linear
    <3>. QED BY <1>2, <1>3, <3>1
  <2>2. \/ m[n + 1].key[2] = 0 /\ m[n + 1].body.before \in Base(m)
        \/ \E j \in EditsAt(m) :
             m[j].key[2] + 1 = m[n + 1].key[2] /\ m[j].body.after = m[n + 1].body.before
    BY <1>2, <1>3, <1>5
  <2>. QED BY <1>2, <2>1, <2>2 DEF Linear
<1>6. Known(m, DOMAIN m) = Known(l, DOMAIN l) \union {e.body.after}
  <2>1. /\ EditsAt(m) \intersect DOMAIN m = EditsAt(l) \union {n + 1}
        /\ EditsAt(l) \intersect DOMAIN l = EditsAt(l)
    BY <1>2 DEF EditsAt
  <2>2. {m[j].body.after : j \in EditsAt(l) \union {n + 1}} =
          {l[j].body.after : j \in EditsAt(l)} \union {e.body.after}
    <3>. DEFINE A == {m[j].body.after : j \in EditsAt(l) \union {n + 1}}
                B == {l[j].body.after : j \in EditsAt(l)} \union {e.body.after}
    <3>1. ASSUME NEW x \in A PROVE x \in B
      <4>1. PICK j \in EditsAt(l) \union {n + 1} : x = m[j].body.after
        OBVIOUS
      <4>. QED BY <1>2, <1>3, <4>1
    <3>2. ASSUME NEW x \in B PROVE x \in A
      <4>1. CASE x = e.body.after
        BY <1>2, <4>1
      <4>2. CASE \E j \in EditsAt(l) : x = l[j].body.after
        BY <1>3, <4>2
      <4>. QED BY <3>2, <4>1, <4>2
    <3>. QED BY <3>1, <3>2
  <2>. QED BY <1>2, <2>1, <2>2 DEF Known
<1>. QED BY <1>4, <1>5, <1>6 DEF m

\* What is true of the edits of a log was true of them before.
LEMMA EarlierEdits ==
  ASSUME NEW l, WellEdited(l), NEW q, Earlier(q, l)
  PROVE  /\ WellEdited(q) /\ Base(q) = Base(l)
         /\ EditsAt(q) = {k \in EditsAt(l) : k <= Len(q)}
         /\ \A k \in EditsAt(q) : q[k] = l[k]
         /\ Known(q, DOMAIN q) \subseteq Known(l, DOMAIN l)
<1>. DEFINE n == Len(q)
<1>0. Sortable(l)
  BY DEF WellEdited
<1>1. /\ n \in Nat /\ Len(l) \in Nat /\ DOMAIN q = 1 .. n /\ n <= Len(l) /\ DOMAIN l = 1 .. Len(l)
      /\ \A i \in 1 .. n : q[i] = l[i]
  BY <1>0 DEF Earlier, Cut, Sortable
<1>2. Sortable(q) /\ Base(q) = Base(l)
  BY <1>0, CutSame DEF Earlier
<1>3. EditsAt(q) = {k \in EditsAt(l) : k <= n}
  <2>1. \A k : k \in 1 .. n <=> k \in 1 .. Len(l) /\ k <= n
    BY <1>1
  <2>. QED BY <1>1, <2>1 DEF EditsAt
<1>4. \A k \in EditsAt(q) : q[k] = l[k] /\ k \in EditsAt(l)
  BY <1>1, <1>3 DEF EditsAt
<1>5. WellEdited(q)
  <2>1. ASSUME NEW k \in EditsAt(q)
        PROVE  /\ IsEdit(q[k])
               /\ \/ q[k].body.before \in Base(q)
                  \/ \E j \in EditsAt(q) :
                       /\ j < k /\ q[j].body.after = q[k].body.before
                       /\ q[j].key[2] < q[k].key[2]
    <3>1. /\ IsEdit(l[k])
          /\ \/ l[k].body.before \in Base(l)
             \/ \E j \in EditsAt(l) :
                  /\ j < k /\ l[j].body.after = l[k].body.before
                  /\ l[j].key[2] < l[k].key[2]
      BY <1>4 DEF WellEdited
    <3>2. ASSUME NEW j \in EditsAt(l), j < k PROVE j \in EditsAt(q)
      <4>1. j \in 1 .. Len(l) /\ k \in 1 .. n
        BY <1>1 DEF EditsAt
      <4>2. j <= n
        BY <1>1, <3>2, <4>1
      <4>. QED BY <1>3, <4>2
    <3>. QED BY <1>2, <1>4, <3>1, <3>2
  <2>2. \A j, k \in EditsAt(q) :
          /\ q[j].unit = q[k].unit
          /\ q[j].key[1] = q[k].key[1] /\ q[j].key[2] = q[k].key[2]
          => j = k
    BY <1>4 DEF WellEdited
  <2>. QED BY <1>2, <2>1, <2>2 DEF WellEdited
<1>6. Known(q, DOMAIN q) \subseteq Known(l, DOMAIN l)
  <2>1. ASSUME NEW v \in Known(q, DOMAIN q) PROVE v \in Known(l, DOMAIN l)
    <3>1. CASE v \in Base(q)
      BY <1>2, <3>1 DEF Known
    <3>2. CASE \E j \in EditsAt(q) : v = q[j].body.after
      <4>1. PICK j \in EditsAt(q) : v = q[j].body.after
        BY <3>2
      <4>. QED BY <1>4, <4>1 DEF Known, EditsAt
    <3>. QED BY <2>1, <3>1, <3>2 DEF Known
  <2>. QED BY <2>1
<1>. QED BY <1>2, <1>3, <1>4, <1>5, <1>6

-----------------------------------------------------------------------------
(* How many edits there are of an observation.                             *)

Edits(l, s, c) == Cardinality(EditsOn(l, s, c))

\* Their generations are the first numbers.
Counted(l) == \A s, c : {l[k].key[2] : k \in EditsOn(l, s, c)} = 0 .. Edits(l, s, c) - 1

\* There are finitely many.
LEMMA EditsFinite ==
  ASSUME NEW l, IsLog(l)
  PROVE  \A s, c : IsFiniteSet(EditsOn(l, s, c)) /\ Edits(l, s, c) \in Nat
<1>1. DOMAIN l = 1 .. Len(l) /\ Len(l) \in Nat
  BY LogIs DEF IsLog
<1>2. IsFiniteSet(1 .. Len(l))
  BY <1>1, FS_Interval
<1>. TAKE s, c
<1>3. EditsOn(l, s, c) \subseteq 1 .. Len(l)
  BY <1>1 DEF EditsOn, EditsAt
<1>. QED BY <1>2, <1>3, FS_Subset, FS_CardinalityType DEF Edits

\* Never more than there are requests that made one.
LEMMA FewEdits ==
  ASSUME NEW l, IsLog(l), NEW T, IsFiniteSet(T),
         \A k \in EditsAt(l) : l[k].body.by \in T,
         \A j, k \in EditsAt(l) : l[j].body.by = l[k].body.by => j = k,
         NEW s, NEW c
  PROVE  Edits(l, s, c) \in 0 .. Cardinality(T)
<1>. DEFINE E == EditsOn(l, s, c)
            f == [k \in E |-> l[k].body.by]
<1>1. E \subseteq EditsAt(l)
  BY DEF EditsOn
<1>2. f \in [E -> T] /\ \A j, k \in E : f[j] = f[k] => j = k
  BY <1>1
<1>3. f \in Injection(E, T)
  <2>. HIDE DEF E, f
  <2>. QED BY <1>2 DEF Injection, IsInjective
<1>4. Cardinality(E) <= Cardinality(T)
  <2>. HIDE DEF E, f
  <2>. QED BY <1>3, FS_Injection
<1>. QED BY <1>4, EditsFinite, FS_CardinalityType DEF Edits

\* One more.
LEMMA CountedGrows ==
  ASSUME NEW l, IsLog(l), Counted(l), NEW e, e.step = "ObservationEditedByHuman",
         e.key[2] \in Nat, e.key[2] <= Edits(l, e.unit, e.key[1]),
         \A j \in EditsAt(l) :
           l[j].unit = e.unit /\ l[j].key[1] = e.key[1] => l[j].key[2] # e.key[2]
  PROVE  /\ e.key[2] = Edits(l, e.unit, e.key[1])
         /\ Edits(Append(l, e), e.unit, e.key[1]) = Edits(l, e.unit, e.key[1]) + 1
         /\ \A s, c : Edits(l, s, c) <= Edits(Append(l, e), s, c)
         /\ Counted(Append(l, e))
<1>. DEFINE m == Append(l, e)
            n == Len(l)
<1>1. e.step \in DOMAIN Rank /\ ~Early(e)
  BY DEF Rank, Early
<1>2. /\ EditsAt(m) = EditsAt(l) \union {n + 1}
      /\ DOMAIN l = 1 .. n /\ n \in Nat /\ m[n + 1] = e /\ \A k \in 1 .. n : m[k] = l[k]
  BY <1>1, Grown
<1>. HIDE DEF m, n
<1>3. \A k \in EditsAt(l) : m[k] = l[k] /\ k # n + 1
  BY <1>2 DEF EditsAt
<1>4. ASSUME NEW s, NEW c
      PROVE  EditsOn(m, s, c) = IF s = e.unit /\ c = e.key[1] THEN EditsOn(l, s, c) \union {n + 1}
                                ELSE EditsOn(l, s, c)
  <2>1. EditsOn(m, s, c) = {k \in EditsAt(l) \union {n + 1} : m[k].unit = s /\ m[k].key[1] = c}
    BY <1>2 DEF EditsOn
  <2>2. EditsOn(l, s, c) = {k \in EditsAt(l) : m[k].unit = s /\ m[k].key[1] = c}
    BY <1>3 DEF EditsOn
  <2>. QED BY <1>2, <2>1, <2>2
<1>5. \A s, c : IsFiniteSet(EditsOn(l, s, c)) /\ Edits(l, s, c) \in Nat
  BY EditsFinite
<1>. DEFINE N == Edits(l, e.unit, e.key[1])
            E == EditsOn(l, e.unit, e.key[1])
<1>6. n + 1 \notin E
  BY <1>3 DEF EditsOn
<1>7. Edits(m, e.unit, e.key[1]) = N + 1
  <2>1. EditsOn(m, e.unit, e.key[1]) = E \union {n + 1}
    BY <1>4
  <2>2. IsFiniteSet(E)
    BY <1>5
  <2>. HIDE DEF E
  <2>3. Cardinality(E \union {n + 1}) = Cardinality(E) + 1
    BY <1>6, <2>2, FS_AddElement
  <2>. QED BY <2>1, <2>3 DEF Edits, E
<1>8. e.key[2] = N
  <2>1. {l[k].key[2] : k \in E} = 0 .. N - 1
    BY DEF Counted
  <2>2. e.key[2] \notin {l[k].key[2] : k \in E}
    BY DEF EditsOn
  <2>3. N \in Nat
    BY <1>5
  <2>. HIDE DEF N, E
  <2>4. e.key[2] \notin 0 .. N - 1
    BY <2>1, <2>2
  <2>. QED BY <2>3, <2>4 DEF N
<1>9. ASSUME NEW s, NEW c
      PROVE  /\ Edits(l, s, c) <= Edits(m, s, c)
             /\ {m[k].key[2] : k \in EditsOn(m, s, c)} = 0 .. Edits(m, s, c) - 1
  <2>1. CASE s = e.unit /\ c = e.key[1]
    <3>1. EditsOn(m, s, c) = E \union {n + 1} /\ Edits(m, s, c) = N + 1 /\ Edits(l, s, c) = N
      BY <1>4, <1>7, <2>1
    <3>2. {l[k].key[2] : k \in E} = 0 .. N - 1 /\ N \in Nat
      BY <1>5 DEF Counted
    <3>3. \A k \in E : m[k] = l[k]
      BY <1>3 DEF EditsOn
    <3>. HIDE DEF N, E
    <3>4. {m[k].key[2] : k \in E \union {n + 1}} = {l[k].key[2] : k \in E} \union {e.key[2]}
      <4>. DEFINE A == {m[k].key[2] : k \in E \union {n + 1}}
                  B == {l[k].key[2] : k \in E} \union {e.key[2]}
      <4>1. ASSUME NEW x \in A PROVE x \in B
        <5>1. PICK k \in E \union {n + 1} : x = m[k].key[2]
          OBVIOUS
        <5>. QED BY <1>2, <3>3, <5>1
      <4>2. ASSUME NEW x \in B PROVE x \in A
        BY <1>2, <3>3
      <4>. QED BY <4>1, <4>2
    <3>5. (0 .. N - 1) \union {N} = 0 .. N
      BY <3>2
    <3>6. {m[k].key[2] : k \in E \union {n + 1}} = 0 .. N
      BY <1>8, <3>2, <3>4, <3>5 DEF N
    <3>7. N <= N + 1
      BY <3>2
    <3>8. EditsOn(m, s, c) = E \union {n + 1} /\ Edits(m, s, c) = N + 1
      BY <3>1
    <3>9. {m[k].key[2] : k \in EditsOn(m, s, c)} = 0 .. Edits(m, s, c) - 1
      <4>1. Edits(m, s, c) - 1 = N
        BY <3>2, <3>8
      <4>. QED BY <3>6, <3>8, <4>1
    <3>10. Edits(l, s, c) <= Edits(m, s, c)
      BY <3>1, <3>7
    <3>. QED BY <3>9, <3>10
  <2>2. CASE ~(s = e.unit /\ c = e.key[1])
    <3>1. EditsOn(m, s, c) = EditsOn(l, s, c)
      BY <1>4, <2>2
    <3>2. Edits(m, s, c) = Edits(l, s, c)
      BY <3>1 DEF Edits
    <3>3. {m[k].key[2] : k \in EditsOn(l, s, c)} = {l[k].key[2] : k \in EditsOn(l, s, c)}
      BY <1>3 DEF EditsOn
    <3>4. {l[k].key[2] : k \in EditsOn(l, s, c)} = 0 .. Edits(l, s, c) - 1
      BY DEF Counted
    <3>5. Edits(l, s, c) <= Edits(l, s, c)
      BY <1>5
    <3>. QED BY <3>1, <3>2, <3>3, <3>4, <3>5
  <2>. QED BY <2>1, <2>2
<1>. QED BY <1>7, <1>8, <1>9 DEF Counted, m

\* A delivery counts for no edit.
LEMMA CountedStays ==
  ASSUME NEW l, IsLog(l), NEW e, e.step = "ArtifactDelivered", e.key[2] \in Nat
  PROVE  /\ \A s, c : EditsOn(Append(l, e), s, c) = EditsOn(l, s, c)
         /\ \A s, c : Edits(Append(l, e), s, c) = Edits(l, s, c)
         /\ Counted(l) => Counted(Append(l, e))
<1>. DEFINE m == Append(l, e)
<1>1. e.step \in DOMAIN Rank /\ ~Early(e) /\ e.step # "ObservationEditedByHuman"
  BY DEF Rank, Early
<1>2. /\ EditsAt(m) = EditsAt(l) /\ DOMAIN l = 1 .. Len(l) /\ \A k \in 1 .. Len(l) : m[k] = l[k]
  BY <1>1, Grown
<1>. HIDE DEF m
<1>3. \A k \in EditsAt(l) : m[k] = l[k]
  BY <1>2 DEF EditsAt
<1>4. ASSUME NEW s, NEW c
      PROVE  /\ EditsOn(m, s, c) = EditsOn(l, s, c)
             /\ {m[k].key[2] : k \in EditsOn(m, s, c)} = {l[k].key[2] : k \in EditsOn(l, s, c)}
  <2>1. EditsOn(m, s, c) = EditsOn(l, s, c)
    BY <1>2, <1>3 DEF EditsOn
  <2>2. \A k \in EditsOn(l, s, c) : m[k] = l[k]
    BY <1>3 DEF EditsOn
  <2>. QED BY <2>1, <2>2
<1>5. \A s, c : Edits(m, s, c) = Edits(l, s, c)
  BY <1>4 DEF Edits
<1>6. ASSUME Counted(l), NEW s, NEW c
      PROVE  {m[k].key[2] : k \in EditsOn(m, s, c)} = 0 .. Edits(m, s, c) - 1
  <2>1. {l[k].key[2] : k \in EditsOn(l, s, c)} = 0 .. Edits(l, s, c) - 1
    BY <1>6 DEF Counted
  <2>2. {m[k].key[2] : k \in EditsOn(m, s, c)} = 0 .. Edits(l, s, c) - 1
    BY <1>4, <2>1
  <2>. QED BY <1>5, <2>2
<1>7. Counted(l) => Counted(m)
  BY <1>6 DEF Counted
<1>. QED BY <1>4, <1>5, <1>7 DEF m

-----------------------------------------------------------------------------
(* The inductive invariant.                                                *)

\* The events of a ratification.
Deliveries ==
  [ step : {"ArtifactDelivered"}, unit : Student \union {RunId},
    key : {"sheet", "csv"} \X {0}, body : Seq(Nat) ]

\* The local variables of a handler.
Locals(m) ==
  /\ m = [ before |-> m.before, generation |-> m.generation, targets |-> m.targets,
           events |-> m.events, read |-> m.read, grade |-> m.grade ]
  /\ m.generation \in 0 .. Cardinality(Request)
  /\ m.targets \subseteq Student
  /\ m.events \in Seq(Deliveries)

\* What a request has when it goes somewhere: a grade of those typed in for the
\* grades database, an event for the store.
Ready(where, m) ==
  /\ where \in {"set", "history"} => m.grade[1] \in Student /\ m.grade[2] \in Value
  /\ where = "put" => m.events # <<>>

\* The variables that are not logs have their types.
Typed ==
  /\ grade \in [Student -> SUBSET Value] /\ \A s \in Student : Cardinality(grade[s]) <= 1
  /\ history \in [Student -> SUBSET Value]
  /\ pc \in [Request -> {"new"} \union Waiting \union Over]
  /\ my = [r \in Request |-> my[r]] /\ \A r \in Request : Locals(my[r])
  /\ \A r \in Request : Ready(pc[r], my[r])
  /\ overlapped \in BOOLEAN

\* Which store there is, and the index of the file store, which may be behind.
Kept ==
  /\ store \in {"local", "firestore"} /\ given \in BOOLEAN
  /\ index \subseteq ToSet(log) /\ apart \subseteq Request

\* The log: a run's, then deliveries and edits, of each request one at most; each
\* of a version that was there, under a generation of its own, if the store takes
\* an identity once.
Logged ==
  /\ IsLog(log)
  /\ \A k \in DOMAIN log : Enters(log[k]) => log[k].unit \in Student
  /\ Decided(log)
  /\ \A k \in EditsAt(log) :
       /\ log[k].body.by \in Request
       /\ pc[log[k].body.by] \notin {"new", "count", "create", "append"}
  /\ \A j, k \in EditsAt(log) : log[j].body.by = log[k].body.by => j = k
  /\ \A r \in Request : pc[r] = "reread" => \E k \in EditsAt(log) : log[k].body.by = r
  /\ TakesOnce => WellEdited(log) /\ Counted(log)

\* What was read of it: never ahead, and behind by no more than what is folded
\* last.
Behind ==
  /\ Earlier(folded, log) /\ Earlier(started, folded)
  /\ \A r \in Request : my[r].read = <<>> \/ Earlier(my[r].read, log)
  /\ \A r \in Request :
       pc[r] = "assign" => Earlier(my[r].read, log) /\ Earlier(started, my[r].read)

\* What a request is about to edit, and under which generation at most.
Chosen ==
  TakesOnce => \A r \in Request :
    /\ pc[r] \in {"count", "create", "append"} =>
         my[r].before = {Old(r)} /\ Old(r) \in Known(log, DOMAIN log)
    /\ pc[r] \in {"create", "append"} =>
         /\ my[r].generation <= Edits(log, Old(r).student, Old(r).crit)
         /\ \/ Old(r) \in Base(log)
            \/ \E j \in EditsAt(log) :
                 log[j].body.after = Old(r) /\ log[j].key[2] < my[r].generation

\* No edit that is in the log was reported as failed.
Answered == \A k \in EditsAt(log) : pc[log[k].body.by] # "failed"

\* As long as requests come one at a time: each edits under the next generation,
\* and what it wrote is served once it is over.
OneByOne ==
  ~overlapped =>
    /\ \A r, q \in Busy : r = q
    /\ \A r \in Request : pc[r] \in {"create", "append"} =>
         my[r].generation = Edits(log, Old(r).student, Old(r).crit)
    /\ \A r \in Request : pc[r] = "assign" => my[r].read = log
    /\ (\A r \in Request :
          pc[r] \notin {"write", "put", "reread", "assign", "failed", "collided"}) =>
         folded = log

\* And each edits the last version, as long as none of them failed.
InLine ==
  ~overlapped /\ Answered =>
    /\ Linear(log)
    /\ \A r \in Request : pc[r] \in {"count", "create", "append"} =>
         \A k \in EditsAt(log) : log[k].body.before # Old(r)
    /\ (\A r \in Request : pc[r] \notin {"reread", "assign"}) =>
         \A k \in EditsAt(log) : k <= Len(folded)

IInv == Typed /\ Kept /\ Logged /\ Behind /\ Chosen /\ OneByOne /\ InLine

\* The events a run leaves.
LEMMA RunStepIs ==
  ASSUME NEW st \in WorkerStep \union DispatcherStep
  PROVE  st \in DOMAIN Rank /\ st # "ObservationEditedByHuman"
  BY DEF WorkerStep, DispatcherStep, Rank

\* What a run leaves satisfies the invariant before any request.
LEMMA InitHolds == Init => IInv
<1>. SUFFICES ASSUME Init PROVE IInv
  OBVIOUS
<1>1. log \in RunLog /\ folded = log /\ started = log
  BY DEF Init
<1>a. Idle
  BY DEF Init
<1>2. /\ log \in Seq(ToSet(log))
      /\ \A e \in ToSet(log) :
           /\ e.step \in WorkerStep \union DispatcherStep /\ e.key[2] \in Nat
           /\ e.step \in CriterionOutcome \union {"SubmissionIngested"} => e.unit \in Student
  BY <1>1, RunLogAssumption
<1>3. DOMAIN log = 1 .. Len(log) /\ Len(log) \in Nat /\ ToSet(log) = {log[i] : i \in DOMAIN log}
  BY <1>2, LogIs DEF ToSet
<1>4. \A i \in DOMAIN log :
        /\ log[i].step \in DOMAIN Rank /\ log[i].step # "ObservationEditedByHuman"
        /\ log[i].key[2] \in Nat
        /\ Enters(log[i]) => log[i].unit \in Student
  <2>1. \A i \in DOMAIN log : log[i] \in ToSet(log)
    BY <1>3
  <2>. QED BY <1>2, <2>1, RunStepIs DEF Enters, Decides
<1>5. IsLog(log) /\ EditsAt(log) = {}
  BY <1>2, <1>3, <1>4 DEF IsLog, Sortable, EditsAt
<1>6. Decided(log)
  BY <1>1, OutcomeAssumption DEF Decided, Decides
<1>7. WellEdited(log) /\ Linear(log)
  BY <1>5 DEF WellEdited, Linear, IsLog
<1>8. Counted(log)
  <2>. SUFFICES ASSUME NEW s, NEW c
                PROVE  {log[k].key[2] : k \in EditsOn(log, s, c)} = 0 .. Edits(log, s, c) - 1
    BY DEF Counted
  <2>1. EditsOn(log, s, c) = {}
    BY <1>5 DEF EditsOn
  <2>2. Edits(log, s, c) = 0
    BY <2>1, FS_EmptySet DEF Edits
  <2>3. 0 .. Edits(log, s, c) - 1 = {}
    BY <2>2
  <2>. QED BY <2>1, <2>3
<1>10. Earlier(log, log)
  BY <1>2, EarlierSelf
<1>11. \A r \in Request : pc[r] = "new" /\ my[r] = NoLocals
  BY <1>a DEF Idle
<1>9. Logged
  BY <1>4, <1>5, <1>6, <1>7, <1>8, <1>11 DEF Logged
<1>12. Behind
  BY <1>1, <1>10, <1>11 DEF Behind, NoLocals
<1>13. Chosen
  BY <1>11 DEF Chosen
<1>14. Busy = {}
  BY <1>11 DEF Busy, Waiting
<1>15. OneByOne
  BY <1>1, <1>5, <1>7, <1>11, <1>14 DEF OneByOne
<1>b. InLine
  BY <1>5, <1>7, <1>11 DEF InLine
<1>c. Kept
  <2>1. Loaded(log) \subseteq ToSet(log)
    BY DEF Loaded, ToSet
  <2>. QED BY <1>a, <2>1 DEF Kept, Idle
<1>16. Typed
  <2>1. Cardinality({}) = 0
    BY FS_EmptySet
  <2>2. Cardinality(Request) \in Nat
    BY RunAssumption, FS_CardinalityType
  <2>3. Locals(NoLocals)
    <3>1. <<>> \in Seq(Deliveries)
      OBVIOUS
    <3>. QED BY <2>2, <3>1 DEF Locals, NoLocals
  <2>4. my = [r \in Request |-> my[r]] /\ \A r \in Request : Locals(my[r])
    <3>1. my = [r \in Request |-> NoLocals]
      BY <1>a DEF Idle
    <3>2. my = [r \in Request |-> my[r]]
      BY <3>1
    <3>3. \A r \in Request : Locals(my[r])
      BY <1>11, <2>3
    <3>. QED BY <3>2, <3>3
  <2>5. /\ grade \in [Student -> SUBSET Value] /\ \A s \in Student : Cardinality(grade[s]) <= 1
        /\ history \in [Student -> SUBSET Value] /\ overlapped \in BOOLEAN
    <3>1. grade = [s \in Student |-> {}] /\ history = [s \in Student |-> {}] /\ overlapped = FALSE
      BY <1>a DEF Idle
    <3>2. \A s \in Student : grade[s] = {}
      BY <3>1
    <3>3. Cardinality({}) <= 1
      BY <2>1
    <3>4. \A s \in Student : Cardinality(grade[s]) <= 1
      BY <3>2, <3>3
    <3>5. /\ grade \in [Student -> SUBSET Value] /\ history \in [Student -> SUBSET Value]
          /\ overlapped \in BOOLEAN
      BY <3>1
    <3>. QED BY <3>4, <3>5
  <2>6. /\ pc \in [Request -> {"new"} \union Waiting \union Over]
        /\ \A r \in Request : pc[r] \notin {"set", "history", "put"}
    BY <1>a DEF Idle
  <2>. QED BY <2>4, <2>5, <2>6 DEF Typed, Ready
<1>. QED BY <1>9, <1>12, <1>13, <1>15, <1>16, <1>b, <1>c DEF IInv

-----------------------------------------------------------------------------
(* What the steps do to the local variables.                               *)

\* Nobody but r.
Only(r) == \A q \in Request : q # r => my'[q] = my[q] /\ pc'[q] = pc[q]

\* A request that goes somewhere leaves the others where they are.
LEMMA Goes ==
  ASSUME Typed, NEW r \in Request, NEW where, Goto(r, where)
  PROVE  pc'[r] = where /\ \A q \in Request : q # r => pc'[q] = pc[q]
  BY DEF Goto, Typed

\* Setting one local variable leaves the others.
LEMMA Sets ==
  ASSUME Typed, NEW r \in Request, NEW v
  PROVE  LET m == my[r] IN
         /\ my' = [my EXCEPT ![r].before = v] =>
              my' = [my EXCEPT ![r] = [ before |-> v, generation |-> m.generation,
                targets |-> m.targets, events |-> m.events, read |-> m.read, grade |-> m.grade ]]
         /\ my' = [my EXCEPT ![r].generation = v] =>
              my' = [my EXCEPT ![r] = [ before |-> m.before, generation |-> v,
                targets |-> m.targets, events |-> m.events, read |-> m.read, grade |-> m.grade ]]
         /\ my' = [my EXCEPT ![r].targets = v] =>
              my' = [my EXCEPT ![r] = [ before |-> m.before, generation |-> m.generation,
                targets |-> v, events |-> m.events, read |-> m.read, grade |-> m.grade ]]
         /\ my' = [my EXCEPT ![r].events = v] =>
              my' = [my EXCEPT ![r] = [ before |-> m.before, generation |-> m.generation,
                targets |-> m.targets, events |-> v, read |-> m.read, grade |-> m.grade ]]
         /\ my' = [my EXCEPT ![r].read = v] =>
              my' = [my EXCEPT ![r] = [ before |-> m.before, generation |-> m.generation,
                targets |-> m.targets, events |-> m.events, read |-> v, grade |-> m.grade ]]
         /\ my' = [my EXCEPT ![r].grade = v] =>
              my' = [my EXCEPT ![r] = [ before |-> m.before, generation |-> m.generation,
                targets |-> m.targets, events |-> m.events, read |-> m.read, grade |-> v ]]
<1>1. /\ my[r] = [ before |-> my[r].before, generation |-> my[r].generation,
                   targets |-> my[r].targets, events |-> my[r].events, read |-> my[r].read,
                   grade |-> my[r].grade ]
      /\ my = [q \in Request |-> my[q]]
  BY DEF Typed, Locals
<1>. QED BY <1>1

\* The same of my, with the types.
LEMMA Becomes ==
  ASSUME Typed, NEW r \in Request, NEW v, my' = [my EXCEPT ![r] = v]
  PROVE  /\ my' = [q \in Request |-> my'[q]] /\ my'[r] = v
         /\ \A q \in Request : q # r => my'[q] = my[q]
         /\ Locals(v) => \A q \in Request : Locals(my'[q])
<1>1. /\ my' = [q \in Request |-> my'[q]] /\ my'[r] = v
      /\ \A q \in Request : q # r => my'[q] = my[q]
  BY DEF Typed
<1>2. \A q \in Request : Locals(my[q])
  BY DEF Typed
<1>3. ASSUME Locals(v), NEW q \in Request PROVE Locals(my'[q])
  <2>1. my'[q] = v \/ my'[q] = my[q]
    BY <1>1
  <2>. QED BY <1>2, <1>3, <2>1
<1>. QED BY <1>1, <1>3

\* The events of a delivery.
LEMMA DeliveryEventsAre ==
  ASSUME NEW targets, targets \subseteq Student, NEW graded
  PROVE  DeliveryEvents(targets, graded) \in Seq(Deliveries)
<1>. DEFINE S == {Delivered(s, "sheet", <<>>) : s \in targets}
            f == [s \in targets |-> Delivered(s, "sheet", <<>>)]
            last == Delivered(RunId, "csv",
                      <<Cardinality(targets), Cardinality(targets \intersect graded)>>)
<1>1. IsFiniteSet(targets) /\ IsFiniteSet(targets \intersect graded)
  <2>1. targets \in SUBSET Student /\ targets \intersect graded \in SUBSET Student
    OBVIOUS
  <2>. QED BY <2>1, RunAssumption, FS_Subset
<1>2. S \subseteq Deliveries /\ last \in Deliveries
  <2>1. Cardinality(targets) \in Nat /\ Cardinality(targets \intersect graded) \in Nat
    BY <1>1, FS_CardinalityType
  <2>2. <<>> \in Seq(Nat)
        /\ <<Cardinality(targets), Cardinality(targets \intersect graded)>> \in Seq(Nat)
    BY <2>1
  <2>3. ASSUME NEW u \in Student \union {RunId}, NEW k \in {"sheet", "csv"}, NEW b \in Seq(Nat)
        PROVE  Delivered(u, k, b) \in Deliveries
    <3>1. <<k, 0>> \in {"sheet", "csv"} \X {0}
      OBVIOUS
    <3>. QED BY <3>1 DEF Deliveries, Delivered
  <2>4. last \in Deliveries
    BY <2>2, <2>3
  <2>5. ASSUME NEW s \in targets PROVE Delivered(s, "sheet", <<>>) \in Deliveries
    BY <2>2, <2>3
  <2>. QED BY <2>4, <2>5
<1>3. IsFiniteSet(S)
  <2>1. f \in [targets -> S] /\ \A x \in S : \E s \in targets : f[s] = x
    OBVIOUS
  <2>. HIDE DEF S, f
  <2>2. f \in Surjection(targets, S)
    BY <2>1 DEF Surjection
  <2>. QED BY <1>1, <2>2, FS_Surjection
<1>. HIDE DEF S, last
<1>4. SetToSeq(S) \in Seq(S)
  <2>1. Cardinality(S) \in Nat /\ ExistsBijection(1 .. Cardinality(S), S)
    BY <1>3, FS_CardinalityType
  <2>2. \E g \in [1 .. Cardinality(S) -> S] : IsInjective(g)
    BY <2>1 DEF ExistsBijection, Bijection, Injection, IsInjective
  <2>3. SetToSeq(S) \in [1 .. Cardinality(S) -> S]
    BY <2>2 DEF SetToSeq
  <2>. QED BY <2>1, <2>3
<1>5. SetToSeq(S) \in Seq(Deliveries)
  BY <1>2, <1>4, SeqGrows
<1>6. <<last>> \in Seq(Deliveries)
  BY <1>2
<1>7. SetToSeq(S) \o <<last>> \in Seq(Deliveries)
  BY <1>5, <1>6
<1>. QED BY <1>7 DEF DeliveryEvents, S, last

\* Every sheet is of a student.
LEMMA SheetsAre ==
  ASSUME Logged, Behind
  PROVE  DOMAIN Served.sheets \subseteq Student
<1>1. IsLog(log) /\ Earlier(folded, log)
  BY DEF Logged, Behind
<1>2. /\ DOMAIN folded = 1 .. Len(folded) /\ Len(folded) <= Len(log) /\ Len(folded) \in Nat
      /\ \A i \in 1 .. Len(folded) : folded[i] = log[i]
      /\ DOMAIN log = 1 .. Len(log) /\ Len(log) \in Nat
  BY <1>1, LogIs DEF Earlier, Cut, IsLog
<1>3. \A k \in DOMAIN folded : k \in DOMAIN log /\ folded[k] = log[k]
  BY <1>2
<1>4. Sortable(folded)
  BY <1>1, CutSame DEF Earlier, IsLog
<1>5. ASSUME NEW s \in Fold(folded).students PROVE s \in Student
  <2>1. PICK i \in DOMAIN folded : Enters(folded[i]) /\ folded[i].unit = s
    BY <1>4, StudentsEnter
  <2>. QED BY <1>3, <2>1 DEF Logged
<1>6. DOMAIN Served.sheets = Fold(folded).students
  BY DEF Served, Render
<1>. QED BY <1>5, <1>6

\* Every claim is of a known version that no edit of what is served replaced, and
\* has an id of its own.
LEMMA ServedIs ==
  ASSUME Logged, Behind, TakesOnce
  PROVE  /\ WellEdited(folded) /\ EditsAt(folded) = {k \in EditsAt(log) : k <= Len(folded)}
         /\ \A k \in EditsAt(folded) : folded[k] = log[k]
         /\ \A o \in Served.claims :
              /\ o \in Known(log, DOMAIN log)
              /\ \A k \in EditsAt(folded) : folded[k].body.before # o
         /\ \A o, p \in Served.claims : o.id = p.id => o = p
<1>. DEFINE f == Fold(folded)
<1>1. WellEdited(log) /\ Earlier(folded, log) /\ IsLog(log)
  BY DEF Logged, Behind
<1>2. /\ WellEdited(folded) /\ EditsAt(folded) = {k \in EditsAt(log) : k <= Len(folded)}
      /\ \A k \in EditsAt(folded) : folded[k] = log[k]
      /\ Known(folded, DOMAIN folded) \subseteq Known(log, DOMAIN log)
  BY <1>1, EarlierEdits
<1>3. EditFold(folded, DOMAIN folded, f)
  BY <1>2, EditsFold
<1>4. Served.claims = f.current
  BY DEF Served, Render
<1>6. EditsAt(folded) \intersect DOMAIN folded = EditsAt(folded)
  BY DEF EditsAt
<1>. HIDE DEF f
<1>7. \A o \in f.current :
        /\ o \in Known(folded, DOMAIN folded)
        /\ \A k \in EditsAt(folded) : folded[k].body.before # o
  BY <1>3, <1>6 DEF EditFold
<1>8. \A o, p \in f.current : o.id = p.id => o = p
  BY <1>2, <1>7, KnownOnce
<1>. QED BY <1>2, <1>4, <1>7, <1>8

\* The generation /edit reads is the number of edits.
LEMMA GenerationIs == \A s, c : Generation(s, c) = Edits(log, s, c)
  BY DEF Generation, Edits, EditsOf, EditsOn, EditsAt

-----------------------------------------------------------------------------
(* The types.                                                              *)

\* What a step does not touch it sets to itself.
LEMMA Stays ==
  ASSUME Typed, NEW r \in Request
  PROVE  my = [my EXCEPT ![r] = my[r]] /\ pc = [pc EXCEPT ![r] = pc[r]]
  BY DEF Typed

\* A handler that is over leaves locals of their types.
LEMMA NoLocalsTyped == Locals(NoLocals)
<1>1. 0 \in 0 .. Cardinality(Request)
  BY RunAssumption, FS_CardinalityType
<1>2. <<>> \in Seq(Deliveries)
  OBVIOUS
<1>. QED BY <1>1, <1>2 DEF Locals, NoLocals

\* It is enough that the request that moves has locals of their types.
LEMMA TypedGoes ==
  ASSUME Typed, NEW r \in Request,
         NEW where \in {"new"} \union Waiting \union Over, Goto(r, where),
         NEW v, Locals(v), my' = [my EXCEPT ![r] = v],
         Ready(where, v),
         overlapped' \in BOOLEAN,
         grade' \in [Student -> SUBSET Value], \A s \in Student : Cardinality(grade'[s]) <= 1,
         history' \in [Student -> SUBSET Value]
  PROVE  Typed'
<1>1. /\ my' = [q \in Request |-> my'[q]] /\ my'[r] = v
      /\ \A q \in Request : q # r => my'[q] = my[q]
      /\ \A q \in Request : Locals(my'[q])
  BY Becomes
<1>2. pc'[r] = where /\ \A q \in Request : q # r => pc'[q] = pc[q]
  BY Goes
<1>3. pc' \in [Request -> {"new"} \union Waiting \union Over]
  BY DEF Typed, Goto
<1>4. ASSUME NEW q \in Request
      PROVE  Ready(pc'[q], my'[q])
  <2>1. CASE q = r
    BY <1>1, <1>2, <2>1
  <2>2. CASE q # r
    BY <1>1, <1>2, <2>2 DEF Typed
  <2>. QED BY <2>1, <2>2
<1>. QED BY <1>1, <1>3, <1>4 DEF Typed

\* A step that leaves the grades alone.
LEMMA TypedMoves ==
  ASSUME Typed, NEW r \in Request,
         NEW where \in {"new"} \union Waiting \union Over, Goto(r, where),
         NEW v, Locals(v), my' = [my EXCEPT ![r] = v],
         Ready(where, v),
         overlapped' \in BOOLEAN, UNCHANGED <<grade, history>>
  PROVE  Typed'
<1>1. /\ grade' \in [Student -> SUBSET Value] /\ \A s \in Student : Cardinality(grade'[s]) <= 1
      /\ history' \in [Student -> SUBSET Value]
  BY DEF Typed
<1>. QED BY <1>1, TypedGoes

\* What Locals becomes when one of the variables does.
LEMMA LocalsWith ==
  ASSUME NEW m, Locals(m)
  PROVE  /\ \A v : Locals([ before |-> v, generation |-> m.generation, targets |-> m.targets,
                            events |-> m.events, read |-> m.read, grade |-> m.grade ])
         /\ \A v \in 0 .. Cardinality(Request) :
              Locals([ before |-> m.before, generation |-> v, targets |-> m.targets,
                       events |-> m.events, read |-> m.read, grade |-> m.grade ])
         /\ \A v : v \subseteq Student =>
              Locals([ before |-> m.before, generation |-> m.generation, targets |-> v,
                       events |-> m.events, read |-> m.read, grade |-> m.grade ])
         /\ \A v \in Seq(Deliveries) :
              Locals([ before |-> m.before, generation |-> m.generation, targets |-> m.targets,
                       events |-> v, read |-> m.read, grade |-> m.grade ])
         /\ \A v : Locals([ before |-> m.before, generation |-> m.generation,
                            targets |-> m.targets, events |-> m.events, read |-> v,
                            grade |-> m.grade ])
         /\ \A v : Locals([ before |-> m.before, generation |-> m.generation,
                            targets |-> m.targets, events |-> m.events, read |-> m.read,
                            grade |-> v ])
  BY DEF Locals

\* Each step keeps the types.
LEMMA TypedStep == IInv /\ [Next]_vars => Typed'
<1>. SUFFICES ASSUME IInv, [Next]_vars PROVE Typed'
  OBVIOUS
<1>0. Typed /\ Logged /\ Behind
  BY DEF IInv
<1>1. \A r \in Request : Locals(my[r])
  BY <1>0 DEF Typed
<1>2. overlapped \in BOOLEAN
  BY <1>0 DEF Typed
<1>3. \A q \in Request : my[q].events \in Seq(Deliveries) /\ my[q].targets \subseteq Student
  BY <1>1 DEF Locals
<1>4. CASE UNCHANGED vars
  BY <1>0, <1>4 DEF vars, Typed, Locals
<1>5. ASSUME NEW r \in Request, NEW i, Edit(r, i) PROVE Typed'
  <2>. DEFINE b == At(Served.claims, i)
              v == [ before |-> b, generation |-> my[r].generation, targets |-> my[r].targets,
                     events |-> my[r].events, read |-> my[r].read, grade |-> my[r].grade ]
              w == IF b = {} THEN "done" ELSE "count"
  <2>1. Goto(r, w) /\ my' = [my EXCEPT ![r].before = b] /\ overlapped' \in BOOLEAN
        /\ UNCHANGED <<grade, history>>
    BY <1>2, <1>5 DEF Edit, Begin
  <2>2. my' = [my EXCEPT ![r] = v]
    BY <1>0, <2>1, Sets
  <2>3. Locals(v)
    BY <1>1, LocalsWith
  <2>4. w \in Waiting \union Over /\ w \notin {"set", "history", "put"}
    BY DEF Waiting, Over
  <2>. HIDE DEF v, w
  <2>. QED BY <1>0, <2>1, <2>2, <2>3, <2>4, TypedMoves DEF Ready
<1>6. ASSUME NEW r \in Request, Count(r) PROVE Typed'
  <2>. DEFINE g == Generation(Old(r).student, Old(r).crit)
              v == [ before |-> my[r].before, generation |-> g, targets |-> my[r].targets,
                     events |-> my[r].events, read |-> my[r].read, grade |-> my[r].grade ]
  <2>1. Goto(r, "create") /\ my' = [my EXCEPT ![r].generation = g] /\ overlapped' \in BOOLEAN
        /\ UNCHANGED <<grade, history>>
    BY <1>2, <1>6 DEF Count
  <2>2. my' = [my EXCEPT ![r] = v]
    BY <1>0, <2>1, Sets
  <2>3. g \in 0 .. Cardinality(Request)
    <3>1. /\ IsLog(log) /\ \A k \in EditsAt(log) : log[k].body.by \in Request
          /\ \A j, k \in EditsAt(log) : log[j].body.by = log[k].body.by => j = k
      BY <1>0 DEF Logged
    <3>2. Edits(log, Old(r).student, Old(r).crit) \in 0 .. Cardinality(Request)
      BY <3>1, RunAssumption, FewEdits
    <3>. QED BY <3>2, GenerationIs
  <2>. HIDE DEF g
  <2>4. Locals(v)
    BY <1>1, <2>3, LocalsWith
  <2>5. "create" \in Waiting /\ "create" \notin {"set", "history", "put"}
    BY DEF Waiting
  <2>. HIDE DEF v
  <2>. QED BY <1>0, <2>1, <2>2, <2>4, <2>5, TypedMoves DEF Ready
\* create() returns.
<1>7. ASSUME NEW r \in Request, Returns(r), CallsCreate(r) \/ Appends(r),
             UNCHANGED <<grade, history, overlapped>>
      PROVE  Typed'
  <2>1. CASE Goto(r, "reread") /\ UNCHANGED my
    <3>1. my' = [my EXCEPT ![r] = my[r]]
      BY <1>0, <2>1, Stays
    <3>2. "reread" \in Waiting /\ "reread" \notin {"set", "history", "put"}
      BY DEF Waiting
    <3>. QED BY <1>0, <1>1, <1>2, <1>7, <2>1, <3>1, <3>2, TypedMoves DEF Ready
  <2>2. CASE /\ pc[r] \in {"write", "put"} /\ Goto(r, "write")
             /\ my' = [my EXCEPT ![r].events = Tail(@)]
    <3>. DEFINE es == Tail(my[r].events)
                v == [ before |-> my[r].before, generation |-> my[r].generation,
                       targets |-> my[r].targets, events |-> es, read |-> my[r].read,
                       grade |-> my[r].grade ]
    <3>1. my' = [my EXCEPT ![r].events = es]
      BY <2>2
    <3>2. my' = [my EXCEPT ![r] = v]
      BY <1>0, <3>1, Sets
    <3>3. my[r].events # <<>>
      <4>1. Ready(pc[r], my[r])
        BY <1>0 DEF Typed
      <4>. QED BY <1>7, <2>2, <4>1 DEF CallsCreate, Appends, Ready
    <3>4. es \in Seq(Deliveries)
      BY <1>3, <3>3
    <3>. HIDE DEF es
    <3>5. Locals(v)
      BY <1>1, <3>4, LocalsWith
    <3>6. "write" \in Waiting /\ "write" \notin {"set", "history", "put"}
      BY DEF Waiting
    <3>. HIDE DEF v
    <3>. QED BY <1>0, <1>2, <1>7, <2>2, <3>2, <3>5, <3>6, TypedMoves DEF Ready
  <2>. QED BY <1>7, <2>1, <2>2 DEF Returns
<1>8. ASSUME NEW r \in Request, Reread(r) PROVE Typed'
  <2>. DEFINE v == [ before |-> my[r].before, generation |-> my[r].generation,
                     targets |-> my[r].targets, events |-> my[r].events, read |-> log,
                     grade |-> my[r].grade ]
  <2>1. Goto(r, "assign") /\ my' = [my EXCEPT ![r].read = log] /\ overlapped' \in BOOLEAN
        /\ UNCHANGED <<grade, history>>
    BY <1>2, <1>8 DEF Reread
  <2>2. my' = [my EXCEPT ![r] = v]
    BY <1>0, <2>1, Sets
  <2>3. Locals(v)
    BY <1>1, LocalsWith
  <2>4. "assign" \in Waiting /\ "assign" \notin {"set", "history", "put"}
    BY DEF Waiting
  <2>. HIDE DEF v
  <2>. QED BY <1>0, <2>1, <2>2, <2>3, <2>4, TypedMoves DEF Ready
\* A request that is over.
<1>9. ASSUME NEW r \in Request, NEW how \in {"done", "failed", "collided"}, Leave(r, how),
             UNCHANGED <<grade, history, overlapped>>
      PROVE  Typed'
  <2>1. Goto(r, how) /\ my' = [my EXCEPT ![r] = NoLocals]
    BY <1>9 DEF Leave
  <2>2. how \in Over /\ how \notin {"set", "history", "put"}
    BY DEF Over
  <2>. QED BY <1>0, <1>2, <1>9, <2>1, <2>2, NoLocalsTyped, TypedMoves DEF Ready
<1>10. ASSUME NEW r \in Request, Assign(r) \/ Raises(r) \/ CollisionFails(r) PROVE Typed'
  <2>1. /\ Leave(r, "done") \/ Leave(r, "failed") \/ Leave(r, "collided")
        /\ UNCHANGED <<grade, history, overlapped>>
    BY <1>10 DEF Assign, Raises, CollisionFails
  <2>. QED BY <1>9, <2>1
<1>11. ASSUME NEW r \in Request, NEW named, Ratify(r, named) PROVE Typed'
  <2>. DEFINE t == IF named = {} THEN DOMAIN Served.sheets
                   ELSE named \intersect DOMAIN Served.sheets
              v == [ before |-> my[r].before, generation |-> my[r].generation, targets |-> t,
                     events |-> my[r].events, read |-> my[r].read, grade |-> my[r].grade ]
  <2>1. Goto(r, "deliver") /\ my' = [my EXCEPT ![r].targets = t] /\ overlapped' \in BOOLEAN
        /\ UNCHANGED <<grade, history>>
    BY <1>2, <1>11 DEF Ratify, Begin
  <2>2. my' = [my EXCEPT ![r] = v]
    BY <1>0, <2>1, Sets
  <2>3. t \subseteq Student
    BY <1>0, SheetsAre
  <2>. HIDE DEF t
  <2>4. Locals(v)
    BY <1>1, <2>3, LocalsWith
  <2>5. "deliver" \in Waiting /\ "deliver" \notin {"set", "history", "put"}
    BY DEF Waiting
  <2>. HIDE DEF v
  <2>. QED BY <1>0, <2>1, <2>2, <2>4, <2>5, TypedMoves DEF Ready
<1>12. ASSUME NEW r \in Request, NEW reachable, Deliver(r, reachable) PROVE Typed'
  <2>. DEFINE es == DeliveryEvents(my[r].targets,
                      IF reachable THEN {s \in Student : grade[s] # {}} ELSE {})
              v == [ before |-> my[r].before, generation |-> my[r].generation,
                     targets |-> my[r].targets, events |-> es, read |-> my[r].read,
                     grade |-> my[r].grade ]
  <2>1. Goto(r, "write") /\ my' = [my EXCEPT ![r].events = es] /\ overlapped' \in BOOLEAN
        /\ UNCHANGED <<grade, history>>
    BY <1>2, <1>12 DEF Deliver
  <2>2. my' = [my EXCEPT ![r] = v]
    BY <1>0, <2>1, Sets
  <2>3. es \in Seq(Deliveries)
    BY <1>3, DeliveryEventsAre
  <2>. HIDE DEF es
  <2>4. Locals(v)
    BY <1>1, <2>3, LocalsWith
  <2>5. "write" \in Waiting /\ "write" \notin {"set", "history", "put"}
    BY DEF Waiting
  <2>. HIDE DEF v
  <2>. QED BY <1>0, <2>1, <2>2, <2>4, <2>5, TypedMoves DEF Ready
<1>13. ASSUME NEW r \in Request, AlreadyHeld(r) \/ Commit(r) \/ AppendLine(r) PROVE Typed'
  <2>1. /\ (Returns(r) /\ (CallsCreate(r) \/ Appends(r))) \/ Leave(r, "failed")
        /\ UNCHANGED <<grade, history, overlapped>>
    BY <1>13 DEF AlreadyHeld, Commit, AppendLine
  <2>. QED BY <1>7, <1>9, <2>1
<1>19. ASSUME NEW r \in Request, LookUp(r) PROVE Typed'
  <2>. DEFINE w == IF pc[r] = "create" THEN "append" ELSE "put"
  <2>1. /\ Goto(r, w) /\ CallsCreate(r) /\ my' = [my EXCEPT ![r] = my[r]]
        /\ UNCHANGED <<grade, history, overlapped>>
    BY <1>0, <1>19, Stays DEF LookUp
  <2>2. w \in Waiting /\ Ready(w, my[r])
    BY <2>1 DEF Waiting, Ready, CallsCreate
  <2>. HIDE DEF w
  <2>. QED BY <1>0, <1>1, <1>2, <2>1, <2>2, TypedMoves
<1>14. ASSUME NEW r \in Request, NEW s \in Student, NEW x \in Value, Grade(r, s, x) PROVE Typed'
  <2>. DEFINE v == [ before |-> my[r].before, generation |-> my[r].generation,
                     targets |-> my[r].targets, events |-> my[r].events, read |-> my[r].read,
                     grade |-> <<s, x>> ]
  <2>1. Goto(r, "set") /\ my' = [my EXCEPT ![r].grade = <<s, x>>] /\ overlapped' \in BOOLEAN
        /\ UNCHANGED <<grade, history>>
    BY <1>2, <1>14 DEF Grade, Begin
  <2>2. my' = [my EXCEPT ![r] = v]
    BY <1>0, <2>1, Sets
  <2>3. Locals(v)
    BY <1>1, LocalsWith
  <2>4. "set" \in Waiting
    BY DEF Waiting
  <2>5. Ready("set", v)
    BY DEF Ready
  <2>. HIDE DEF v
  <2>. QED BY <1>0, <2>1, <2>2, <2>3, <2>4, <2>5, TypedMoves
<1>15. ASSUME NEW r \in Request, SetGrade(r) PROVE Typed'
  <2>1. /\ pc[r] = "set" /\ Goto(r, "history") /\ my' = [my EXCEPT ![r] = my[r]]
        /\ grade' = [grade EXCEPT ![my[r].grade[1]] = {my[r].grade[2]}]
        /\ UNCHANGED <<history, overlapped>>
    BY <1>0, <1>15, Stays DEF SetGrade
  <2>2. my[r].grade[1] \in Student /\ my[r].grade[2] \in Value
    BY <1>0, <2>1 DEF Typed, Ready
  <2>. DEFINE s == my[r].grade[1]
              x == my[r].grade[2]
  <2>. HIDE DEF s, x
  <2>3. grade' = [grade EXCEPT ![s] = {x}] /\ s \in Student /\ x \in Value
    BY <2>1, <2>2 DEF s, x
  <2>4. Cardinality({x}) <= 1
    BY FS_Singleton
  <2>5. grade \in [Student -> SUBSET Value] /\ \A u \in Student : Cardinality(grade[u]) <= 1
    BY <1>0 DEF Typed
  <2>6. grade' \in [Student -> SUBSET Value] /\ \A u \in Student : grade'[u] \in {grade[u], {x}}
    BY <2>3, <2>5
  <2>7. \A u \in Student : Cardinality(grade'[u]) <= 1
    BY <2>4, <2>5, <2>6
  <2>8. "history" \in Waiting /\ history' \in [Student -> SUBSET Value]
    BY <1>0, <2>1 DEF Waiting, Typed
  <2>9. Ready("history", my[r])
    BY <1>0, <2>1 DEF Typed, Ready
  <2>. QED BY <1>0, <1>1, <1>2, <2>1, <2>6, <2>7, <2>8, <2>9, TypedGoes
<1>16. ASSUME NEW r \in Request, AppendHistory(r) PROVE Typed'
  <2>1. /\ pc[r] = "history" /\ Goto(r, "done") /\ my' = [my EXCEPT ![r] = NoLocals]
        /\ history' = [history EXCEPT ![my[r].grade[1]] = @ \union {my[r].grade[2]}]
        /\ UNCHANGED <<grade, overlapped>>
    BY <1>16 DEF AppendHistory, Leave
  <2>2. my[r].grade[1] \in Student /\ my[r].grade[2] \in Value
    BY <1>0, <2>1 DEF Typed, Ready
  <2>3. history \in [Student -> SUBSET Value] /\ grade \in [Student -> SUBSET Value]
        /\ \A u \in Student : Cardinality(grade[u]) <= 1
    BY <1>0 DEF Typed
  <2>4. history' \in [Student -> SUBSET Value]
    BY <2>1, <2>2, <2>3
  <2>5. "done" \in Over /\ "done" \notin {"set", "history", "put"}
    BY DEF Over
  <2>6. grade' \in [Student -> SUBSET Value] /\ \A s \in Student : Cardinality(grade'[s]) <= 1
    BY <2>1, <2>3
  <2>. QED BY <1>0, <1>2, <2>1, <2>4, <2>5, <2>6, NoLocalsTyped, TypedGoes DEF Ready
<1>17. ASSUME NEW r \in Request, GradeRefused(r) PROVE Typed'
  <2>1. Goto(r, "refused") /\ my' = [my EXCEPT ![r] = my[r]] /\ overlapped' \in BOOLEAN
        /\ UNCHANGED <<grade, history>>
    BY <1>0, <1>2, <1>17, Stays DEF GradeRefused
  <2>2. "refused" \in Over /\ "refused" \notin {"set", "history", "put"}
    BY DEF Over
  <2>. QED BY <1>0, <1>1, <2>1, <2>2, TypedMoves DEF Ready
<1>18. CASE Restart
  <2>1. /\ pc' = [r \in Request |-> IF r \in Busy THEN "killed" ELSE pc[r]]
        /\ my' = [r \in Request |-> IF r \in Busy THEN NoLocals ELSE my[r]]
        /\ UNCHANGED <<grade, history, overlapped>>
    BY <1>18 DEF Restart
  <2>2. pc' \in [Request -> {"new"} \union Waiting \union Over]
    BY <1>0, <2>1 DEF Typed, Over
  <2>3. \A r \in Request : my'[r] = NoLocals \/ my'[r] = my[r]
    BY <2>1
  <2>4. my' = [r \in Request |-> my'[r]]
    BY <2>1
  <2>5. \A r \in Request : Locals(my'[r])
    BY <1>1, <2>3, NoLocalsTyped
  <2>6. \A r \in Request : pc'[r] \notin {"set", "history", "put"}
    BY <2>1 DEF Busy, Waiting
  <2>. QED BY <1>0, <2>1, <2>2, <2>4, <2>5, <2>6 DEF Typed, Ready
<1>. QED BY <1>4, <1>5, <1>6, <1>8, <1>10, <1>11, <1>12, <1>13, <1>14, <1>15, <1>16, <1>17,
            <1>18, <1>19 DEF Next, Handles

-----------------------------------------------------------------------------
(* The steps, by what they do to the log and to what was read of it.       *)

\* The log and the pages stay.
Unread == UNCHANGED <<log, folded, started>>

\* A request comes in.
Enter == overlapped' = (overlapped \/ Busy # {})

\* A request for an edit comes in.
Picks(r) ==
  /\ Unread /\ Only(r) /\ Enter /\ pc[r] = "new" /\ my'[r].read = my[r].read
  /\ \/ pc'[r] = "done"
     \/ /\ pc'[r] = "count" /\ my'[r].before # {}
        /\ \E i : my'[r].before = At(Served.claims, i)

Counts(r) ==
  /\ Unread /\ Only(r) /\ UNCHANGED overlapped /\ pc[r] = "count" /\ pc'[r] = "create"
  /\ my'[r].read = my[r].read /\ my'[r].before = my[r].before
  /\ my'[r].generation = Generation(Old(r).student, Old(r).crit)

\* The file store finds nothing in its index.
Looks(r) ==
  /\ Unread /\ Only(r) /\ UNCHANGED <<my, overlapped>>
  /\ \/ pc[r] = "create" /\ pc'[r] = "append"
     \/ pc[r] = "write" /\ pc'[r] = "put"

\* An edit gets into the log, whether its request learns of it or not.
Records(r) ==
  /\ UNCHANGED <<folded, started, overlapped>> /\ Only(r)
  /\ pc[r] \in {"create", "append"} /\ pc'[r] \in {"reread", "failed"}
  /\ my'[r] \in {my[r], NoLocals}
  /\ log' = Append(log, EditEvent(r))
  /\ store = "firestore" => Fresh(ToSet(log), EditEvent(r))

Rereads(r) ==
  /\ Unread /\ Only(r) /\ UNCHANGED overlapped
  /\ pc[r] \in {"reread", "write"} /\ pc'[r] = "assign" /\ my'[r].read = log

Assigns(r) ==
  /\ UNCHANGED <<log, started, overlapped>> /\ Only(r)
  /\ pc[r] = "assign" /\ pc'[r] = "done" /\ folded' = my[r].read /\ my'[r] = NoLocals

\* A delivery gets into the log, or is there.
Reports(r) ==
  /\ UNCHANGED <<folded, started, overlapped>> /\ Only(r)
  /\ pc[r] \in {"write", "put"} /\ pc'[r] \in {"write", "failed"}
  /\ my'[r].read \in {my[r].read, <<>>}
  /\ \/ log' = log
     \/ \E e \in Deliveries : log' = Append(log, e)

\* A call raises and nothing was written.
Fails(r) ==
  /\ Unread /\ Only(r) /\ UNCHANGED overlapped /\ my'[r] = NoLocals
  /\ pc[r] \in {"count", "create", "append", "deliver", "write", "put", "reread"}
  /\ \/ pc'[r] = "failed"
     \/ pc'[r] = "collided" /\ pc[r] # "reread"

\* What neither writes to the log nor reads it.
Aside(r) ==
  /\ Unread /\ Only(r) /\ my'[r].read \in {my[r].read, <<>>}
  /\ \/ pc[r] = "new" /\ pc'[r] \in {"deliver", "set"} /\ Enter
     \/ pc[r] = "deliver" /\ pc'[r] = "write" /\ UNCHANGED overlapped
     \/ pc[r] \in {"set", "history"} /\ pc'[r] \in {"history", "done", "refused"}
        /\ UNCHANGED overlapped

Does(r) ==
  \/ Picks(r) \/ Counts(r) \/ Looks(r) \/ Records(r) \/ Rereads(r) \/ Assigns(r)
  \/ Reports(r) \/ Fails(r) \/ Aside(r)

\* The edit of a request is not in the log before it is written.
LEMMA NotRecorded ==
  ASSUME Logged, NEW r \in Request, pc[r] \in {"create", "append"}
  PROVE  EditEvent(r) \notin ToSet(log)
<1>1. SUFFICES ASSUME EditEvent(r) \in ToSet(log) PROVE FALSE
  OBVIOUS
<1>2. PICK k \in DOMAIN log : log[k] = EditEvent(r)
  BY <1>1 DEF ToSet
<1>3. log[k].step = "ObservationEditedByHuman" /\ log[k].body.by = r
  BY <1>2 DEF EditEvent
<1>. QED BY <1>3 DEF Logged, EditsAt

\* What a process keeps as it was started, and that requests overlapped.
LEMMA Fixed ==
  ASSUME [Next]_vars
  PROVE  /\ store' = store /\ given' \in {given, TRUE}
         /\ overlapped' = overlapped \/ Enter
<1>1. ASSUME NEW r \in Request, Handles(r) PROVE UNCHANGED start /\ (UNCHANGED overlapped \/ Enter)
  <2>1. CASE (\E i \in IdsOnPages : Edit(r, i)) \/ (\E named \in SUBSET Student : Ratify(r, named))
             \/ (\E s \in Student, v \in Value : Grade(r, s, v))
    BY <2>1 DEF Edit, Ratify, Grade, Begin, Enter
  <2>2. CASE Count(r) \/ Reread(r) \/ Assign(r) \/ AlreadyHeld(r) \/ CollisionFails(r)
             \/ Commit(r) \/ LookUp(r) \/ AppendLine(r)
    BY <2>2 DEF Count, Reread, Assign, AlreadyHeld, CollisionFails, Commit, LookUp, AppendLine
  <2>3. CASE (\E reachable \in BOOLEAN : Deliver(r, reachable)) \/ SetGrade(r)
             \/ AppendHistory(r) \/ GradeRefused(r) \/ Raises(r)
    BY <2>3 DEF Deliver, SetGrade, AppendHistory, GradeRefused, Raises
  <2>. QED BY <1>1, <2>1, <2>2, <2>3 DEF Handles
<1>2. CASE Restart
  BY <1>2 DEF Restart
<1>3. CASE UNCHANGED vars
  BY <1>3 DEF vars, start
<1>. QED BY <1>1, <1>2, <1>3 DEF Next, start

\* A store that takes an identity once did so before.
LEMMA TookOnce ==
  ASSUME [Next]_vars, overlapped \in BOOLEAN, TakesOnce'
  PROVE  TakesOnce
  BY Fixed DEF TakesOnce, Enter

\* Each step of the server is one of these.
LEMMA StepIs ==
  ASSUME Typed, Kept, Logged, [Next]_vars
  PROVE  UNCHANGED vars \/ Restart \/ \E r \in Request : Does(r)
<1>1. \A r \in Request : Locals(my[r])
  BY DEF Typed
<1>2. ASSUME NEW r \in Request, NEW where, Goto(r, where)
      PROVE  pc'[r] = where /\ \A q \in Request : q # r => pc'[q] = pc[q]
  BY <1>2, Goes
<1>3. ASSUME NEW r \in Request, NEW v, my' = [my EXCEPT ![r] = v]
      PROVE  my'[r] = v /\ \A q \in Request : q # r => my'[q] = my[q]
  BY <1>3, Becomes
<1>4. NoLocals.read = <<>>
  BY DEF NoLocals
<1>5. ASSUME NEW r \in Request, NEW i, Edit(r, i) PROVE Picks(r)
  <2>. DEFINE b == At(Served.claims, i)
              w == IF b = {} THEN "done" ELSE "count"
  <2>1. /\ Goto(r, w) /\ my' = [my EXCEPT ![r].before = b] /\ Enter /\ Unread /\ pc[r] = "new"
    BY <1>5 DEF Edit, Begin, Enter, Unread, start
  <2>2. my' = [my EXCEPT ![r] = [ before |-> b, generation |-> my[r].generation,
                targets |-> my[r].targets, events |-> my[r].events, read |-> my[r].read,
                grade |-> my[r].grade ]]
    BY <2>1, Sets
  <2>3. my'[r].before = b /\ my'[r].read = my[r].read
    <3>1. my'[r] = [ before |-> b, generation |-> my[r].generation,
                      targets |-> my[r].targets, events |-> my[r].events, read |-> my[r].read,
                      grade |-> my[r].grade ]
      BY <1>3, <2>2
    <3>. QED BY <3>1
  <2>4. Only(r) /\ pc'[r] = w
    BY <1>2, <1>3, <2>1, <2>2 DEF Only
  <2>5. (pc'[r] = "done") \/ (pc'[r] = "count" /\ b # {})
    BY <2>4
  <2>. HIDE DEF w
  <2>. QED BY <2>1, <2>3, <2>4, <2>5 DEF Picks
<1>6. ASSUME NEW r \in Request, Count(r) PROVE Counts(r)
  <2>. DEFINE g == Generation(Old(r).student, Old(r).crit)
  <2>1. /\ Goto(r, "create") /\ my' = [my EXCEPT ![r].generation = g] /\ UNCHANGED overlapped
        /\ Unread /\ pc[r] = "count"
    BY <1>6 DEF Count, Unread, start
  <2>. HIDE DEF g
  <2>2. my' = [my EXCEPT ![r] = [ before |-> my[r].before, generation |-> g,
                targets |-> my[r].targets, events |-> my[r].events, read |-> my[r].read,
                grade |-> my[r].grade ]]
    BY <2>1, Sets
  <2>3. my'[r].before = my[r].before /\ my'[r].read = my[r].read /\ my'[r].generation = g
    <3>1. my'[r] = [ before |-> my[r].before, generation |-> g,
                      targets |-> my[r].targets, events |-> my[r].events, read |-> my[r].read,
                      grade |-> my[r].grade ]
      BY <1>3, <2>2
    <3>. QED BY <3>1
  <2>4. Only(r) /\ pc'[r] = "create"
    BY <1>2, <1>3, <2>1, <2>2 DEF Only
  <2>. QED BY <2>1, <2>3, <2>4 DEF Counts, g
<1>8. ASSUME NEW r \in Request, Reread(r) PROVE Rereads(r)
  <2>1. /\ Goto(r, "assign") /\ my' = [my EXCEPT ![r].read = log] /\ UNCHANGED overlapped
        /\ Unread /\ pc[r] \in {"reread", "write"}
    BY <1>8 DEF Reread, Unread, start
  <2>2. my' = [my EXCEPT ![r] = [ before |-> my[r].before, generation |-> my[r].generation,
                targets |-> my[r].targets, events |-> my[r].events, read |-> log,
                grade |-> my[r].grade ]]
    BY <2>1, Sets
  <2>3. my'[r].read = log
    <3>1. my'[r] = [ before |-> my[r].before, generation |-> my[r].generation,
                      targets |-> my[r].targets, events |-> my[r].events, read |-> log,
                      grade |-> my[r].grade ]
      BY <1>3, <2>2
    <3>. QED BY <3>1
  <2>4. Only(r) /\ pc'[r] = "assign"
    BY <1>2, <1>3, <2>1, <2>2 DEF Only
  <2>. QED BY <2>1, <2>3, <2>4 DEF Rereads
<1>9. ASSUME NEW r \in Request, NEW how, Leave(r, how)
      PROVE  Only(r) /\ pc'[r] = how /\ my'[r] = NoLocals
  BY <1>2, <1>3, <1>9 DEF Leave, Only
<1>10. ASSUME NEW r \in Request, Assign(r) PROVE Assigns(r)
  <2>1. /\ pc[r] = "assign" /\ folded' = my[r].read /\ Leave(r, "done")
        /\ UNCHANGED <<log, started, overlapped>>
    BY <1>10 DEF Assign, Refolded, start
  <2>. QED BY <1>9, <2>1 DEF Assigns
<1>11. ASSUME NEW r \in Request, NEW named, Ratify(r, named) PROVE Aside(r)
  <2>. DEFINE t == IF named = {} THEN DOMAIN Served.sheets
                   ELSE named \intersect DOMAIN Served.sheets
  <2>1. /\ Goto(r, "deliver") /\ my' = [my EXCEPT ![r].targets = t] /\ Enter /\ Unread
        /\ pc[r] = "new"
    BY <1>11 DEF Ratify, Begin, Enter, Unread, start
  <2>. HIDE DEF t
  <2>2. my' = [my EXCEPT ![r] = [ before |-> my[r].before, generation |-> my[r].generation,
                targets |-> t, events |-> my[r].events, read |-> my[r].read,
                grade |-> my[r].grade ]]
    BY <2>1, Sets
  <2>3. my'[r].read = my[r].read
    <3>1. my'[r] = [ before |-> my[r].before, generation |-> my[r].generation,
                      targets |-> t, events |-> my[r].events, read |-> my[r].read,
                      grade |-> my[r].grade ]
      BY <1>3, <2>2
    <3>. QED BY <3>1
  <2>4. Only(r) /\ pc'[r] = "deliver"
    BY <1>2, <1>3, <2>1, <2>2 DEF Only
  <2>. QED BY <2>1, <2>3, <2>4 DEF Aside
<1>12. ASSUME NEW r \in Request, NEW reachable, Deliver(r, reachable) PROVE Aside(r)
  <2>. DEFINE es == DeliveryEvents(my[r].targets,
                      IF reachable THEN {s \in Student : grade[s] # {}} ELSE {})
  <2>1. /\ Goto(r, "write") /\ my' = [my EXCEPT ![r].events = es] /\ UNCHANGED overlapped
        /\ Unread /\ pc[r] = "deliver"
    BY <1>12 DEF Deliver, Unread, start
  <2>. HIDE DEF es
  <2>2. my' = [my EXCEPT ![r] = [ before |-> my[r].before, generation |-> my[r].generation,
                targets |-> my[r].targets, events |-> es, read |-> my[r].read,
                grade |-> my[r].grade ]]
    BY <2>1, Sets
  <2>3. my'[r].read = my[r].read
    <3>1. my'[r] = [ before |-> my[r].before, generation |-> my[r].generation,
                      targets |-> my[r].targets, events |-> es, read |-> my[r].read,
                      grade |-> my[r].grade ]
      BY <1>3, <2>2
    <3>. QED BY <3>1
  <2>4. Only(r) /\ pc'[r] = "write"
    BY <1>2, <1>3, <2>1, <2>2 DEF Only
  <2>. QED BY <2>1, <2>3, <2>4 DEF Aside
<1>13. ASSUME NEW r \in Request, Raises(r) \/ CollisionFails(r) PROVE Fails(r)
  <2>1. CASE Raises(r)
    <3>1. /\ Leave(r, "failed") /\ Unread /\ UNCHANGED overlapped
          /\ pc[r] \in {"count", "create", "append", "deliver", "write", "put", "reread"}
      BY <2>1 DEF Raises, Unread, start
    <3>. QED BY <1>9, <3>1 DEF Fails
  <2>2. CASE CollisionFails(r)
    <3>1. /\ Leave(r, "collided") /\ Unread /\ UNCHANGED overlapped
          /\ pc[r] \in {"create", "write"}
      BY <2>2 DEF CollisionFails, CallsCreate, Unread, start
    <3>. QED BY <1>9, <3>1 DEF Fails
  <2>. QED BY <1>13, <2>1, <2>2
\* create() of an edit and of a delivery.
<1>14. ASSUME NEW r \in Request, pc[r] \in {"create", "append"},
              AlreadyHeld(r) \/ Commit(r) \/ AppendLine(r)
       PROVE  Records(r)
  <2>1. Written(r) = EditEvent(r)
    BY <1>14 DEF Written
  <2>2. Held \subseteq ToSet(log) /\ (store = "firestore" => Held = ToSet(log))
    BY DEF Held, Kept
  <2>3. ~AlreadyHeld(r)
    BY <1>14, <2>1, <2>2, NotRecorded DEF AlreadyHeld, Recorded
  <2>4. /\ UNCHANGED <<folded, started, overlapped>> /\ log' = Append(log, EditEvent(r))
        /\ Returns(r) \/ Leave(r, "failed")
        /\ store = "firestore" => Fresh(ToSet(log), EditEvent(r))
    BY <1>14, <2>1, <2>2, <2>3 DEF Commit, AppendLine, start
  <2>5. CASE Returns(r)
    <3>1. Goto(r, "reread") /\ UNCHANGED my
      BY <1>14, <2>5 DEF Returns
    <3>2. Only(r) /\ pc'[r] = "reread" /\ my'[r] = my[r]
      BY <1>2, <3>1 DEF Only
    <3>. QED BY <1>14, <2>4, <3>2 DEF Records
  <2>6. CASE Leave(r, "failed")
    <3>1. Only(r) /\ pc'[r] = "failed" /\ my'[r] = NoLocals
      BY <1>9, <2>6
    <3>. QED BY <1>14, <2>4, <3>1 DEF Records
  <2>. QED BY <2>4, <2>5, <2>6
<1>15. ASSUME NEW r \in Request, pc[r] \notin {"create", "append"},
              AlreadyHeld(r) \/ Commit(r) \/ AppendLine(r)
       PROVE  Reports(r)
  <2>. DEFINE es == my[r].events
              e == Head(es)
  <2>1. /\ pc[r] \in {"write", "put"} /\ es # <<>>
    <3>1. Ready(pc[r], my[r])
      BY DEF Typed
    <3>. QED BY <1>15, <3>1 DEF AlreadyHeld, Commit, AppendLine, CallsCreate, Appends, Ready
  <2>2. Written(r) = e
    BY <1>15 DEF Written
  <2>3. e \in Deliveries
    <3>1. es \in Seq(Deliveries)
      BY <1>1 DEF Locals
    <3>. HIDE DEF es
    <3>. QED BY <2>1, <3>1
  <2>4. /\ UNCHANGED <<folded, started, overlapped>>
        /\ Returns(r) \/ Leave(r, "failed")
        /\ log' = log \/ log' = Append(log, Written(r))
    BY <1>15 DEF AlreadyHeld, Commit, AppendLine, start
  <2>5. log' = log \/ \E d \in Deliveries : log' = Append(log, d)
    <3>. HIDE DEF e
    <3>. QED BY <2>2, <2>3, <2>4
  <2>6. CASE Returns(r)
    <3>1. Goto(r, "write") /\ my' = [my EXCEPT ![r].events = Tail(@)]
      BY <1>15, <2>6 DEF Returns
    <3>2. my' = [my EXCEPT ![r].events = Tail(es)]
      BY <3>1
    <3>3. my' = [my EXCEPT ![r] = [ before |-> my[r].before, generation |-> my[r].generation,
                  targets |-> my[r].targets, events |-> Tail(es), read |-> my[r].read,
                  grade |-> my[r].grade ]]
      BY <3>2, Sets
    <3>4. my'[r].read = my[r].read
      <4>1. my'[r] = [ before |-> my[r].before, generation |-> my[r].generation,
                        targets |-> my[r].targets, events |-> Tail(es), read |-> my[r].read,
                        grade |-> my[r].grade ]
        BY <1>3, <3>3
      <4>. QED BY <4>1
    <3>5. Only(r) /\ pc'[r] = "write"
      BY <1>2, <1>3, <3>1, <3>3 DEF Only
    <3>. HIDE DEF es, e
    <3>. QED BY <2>1, <2>4, <2>5, <3>4, <3>5 DEF Reports
  <2>7. CASE Leave(r, "failed")
    <3>1. Only(r) /\ pc'[r] = "failed" /\ my'[r] = NoLocals
      BY <1>9, <2>7
    <3>. HIDE DEF es, e
    <3>. QED BY <1>4, <2>1, <2>4, <2>5, <3>1 DEF Reports
  <2>. QED BY <2>4, <2>6, <2>7
<1>19. ASSUME NEW r \in Request, LookUp(r) PROVE Looks(r)
  <2>1. /\ CallsCreate(r) /\ Goto(r, IF pc[r] = "create" THEN "append" ELSE "put")
        /\ Unread /\ UNCHANGED <<my, overlapped>>
    BY <1>19 DEF LookUp, Unread, start
  <2>2. Only(r) /\ pc'[r] = IF pc[r] = "create" THEN "append" ELSE "put"
    BY <1>2, <2>1 DEF Only
  <2>. QED BY <2>1, <2>2 DEF Looks, CallsCreate
<1>16. ASSUME NEW r \in Request, NEW s, NEW x, Grade(r, s, x) PROVE Aside(r)
  <2>1. /\ Goto(r, "set") /\ my' = [my EXCEPT ![r].grade = <<s, x>>] /\ Enter /\ Unread
        /\ pc[r] = "new"
    BY <1>16 DEF Grade, Begin, Enter, Unread, start
  <2>2. my' = [my EXCEPT ![r] = [ before |-> my[r].before, generation |-> my[r].generation,
                targets |-> my[r].targets, events |-> my[r].events, read |-> my[r].read,
                grade |-> <<s, x>> ]]
    BY <2>1, Sets
  <2>3. my'[r].read = my[r].read
    <3>1. my'[r] = [ before |-> my[r].before, generation |-> my[r].generation,
                      targets |-> my[r].targets, events |-> my[r].events, read |-> my[r].read,
                      grade |-> <<s, x>> ]
      BY <1>3, <2>2
    <3>. QED BY <3>1
  <2>4. Only(r) /\ pc'[r] = "set"
    BY <1>2, <1>3, <2>1, <2>2 DEF Only
  <2>. QED BY <2>1, <2>3, <2>4 DEF Aside
<1>17. ASSUME NEW r \in Request, SetGrade(r) \/ GradeRefused(r) PROVE Aside(r)
  <2>1. /\ pc[r] \in {"set", "history"} /\ Unread /\ UNCHANGED <<my, overlapped>>
        /\ Goto(r, "history") \/ Goto(r, "refused")
    BY <1>17 DEF SetGrade, GradeRefused, Unread, start
  <2>2. Only(r) /\ pc'[r] \in {"history", "refused"}
    BY <1>2, <2>1 DEF Only
  <2>. QED BY <2>1, <2>2 DEF Aside
<1>18. ASSUME NEW r \in Request, AppendHistory(r) PROVE Aside(r)
  <2>1. pc[r] = "history" /\ Leave(r, "done") /\ Unread /\ UNCHANGED overlapped
    BY <1>18 DEF AppendHistory, Unread, start
  <2>. QED BY <1>4, <1>9, <2>1 DEF Aside
<1>. QED BY <1>5, <1>6, <1>8, <1>10, <1>11, <1>12, <1>13, <1>14, <1>15, <1>16, <1>17, <1>18, <1>19
         DEF Next, Handles, Does

-----------------------------------------------------------------------------
(* The log.                                                                *)

\* The new version of an observation is an observation of the same student and
\* criterion, whose id has one more edit.
LEMMA AfterIs ==
  ASSUME NEW r \in Request, IsObs(Old(r)), my[r].generation \in Nat
  PROVE  LET a == After(r) IN
         /\ IsObs(a) /\ a.student = Old(r).student /\ a.crit = Old(r).crit
         /\ a.id[4] = Append(Old(r).id[4], my[r].generation + 1)
<1>. DEFINE o == Old(r)
            g == my[r].generation + 1
            x == Append(o.id[4], g)
            i == <<o.id[1], o.id[2], o.id[3], x>>
<1>1. o.id = <<o.student, o.crit, o.attempts, o.id[4]>> /\ o.id[4] \in Seq(Nat)
  BY IdOf DEF IsObs
<1>. HIDE DEF o
<1>2. o = [ id |-> o.id, student |-> o.student, crit |-> o.crit, attempts |-> o.attempts,
            kind |-> o.kind, checked |-> o.checked, needs_human |-> o.needs_human,
            text |-> o.text ]
  BY <1>1, Zenon DEF IsObs, o
<1>3. i = <<o.student, o.crit, o.attempts, x>> /\ x \in Seq(Nat)
  BY <1>1
<1>. HIDE DEF i, x, g
<1>4. ASSUME NEW t, NEW n
      PROVE  [o EXCEPT !.id = i, !.text = t, !.needs_human = n] =
               [ id |-> i, student |-> o.student, crit |-> o.crit, attempts |-> o.attempts,
                 kind |-> o.kind, checked |-> o.checked, needs_human |-> n, text |-> t ]
  <2>1. DOMAIN o = {"id", "student", "crit", "attempts", "kind", "checked", "needs_human", "text"}
    BY <1>2
  <2>. DEFINE p == [o EXCEPT !.id = i, !.text = t, !.needs_human = n]
  <2>2. p = [fld \in DOMAIN o |-> p[fld]]
    OBVIOUS
  <2>3. /\ p.id = i /\ p.text = t /\ p.needs_human = n /\ p.student = o.student
        /\ p.crit = o.crit /\ p.attempts = o.attempts /\ p.kind = o.kind
        /\ p.checked = o.checked
    BY <2>1
  <2>. HIDE DEF p
  <2>4. p = [ id |-> i, student |-> o.student, crit |-> o.crit, attempts |-> o.attempts,
              kind |-> o.kind, checked |-> o.checked, needs_human |-> n, text |-> t ]
    BY <2>1, <2>2, <2>3
  <2>. QED BY <2>4 DEF p
<1>. DEFINE a == [o EXCEPT !.id = i, !.text = r, !.needs_human = FALSE]
<1>5. a = [ id |-> i, student |-> o.student, crit |-> o.crit, attempts |-> o.attempts,
            kind |-> o.kind, checked |-> o.checked, needs_human |-> FALSE,
            text |-> r ]
  BY <1>4, Zenon
<1>. HIDE DEF a
<1>6. /\ a.id = i /\ a.student = o.student /\ a.crit = o.crit /\ a.attempts = o.attempts
      /\ a.kind = o.kind /\ a.checked = o.checked /\ a.needs_human = FALSE
      /\ a.text = r
  BY <1>5
<1>7. a.id[4] = x
  BY <1>3, <1>6
<1>8. IsObs(a)
  BY <1>3, <1>5, <1>6, <1>7 DEF IsObs
<1>9. After(r) = a
  BY DEF After, a, i, x, g, o
<1>. QED BY <1>6, <1>7, <1>8, <1>9 DEF x, g, o

\* What a request that is about to write its edit writes.
LEMMA EditEventHas ==
  ASSUME Typed, NEW r \in Request
  PROVE  LET e == EditEvent(r) IN
         /\ e.step = "ObservationEditedByHuman" /\ e.key[2] = my[r].generation
         /\ e.key[2] \in Nat /\ e.body.by = r /\ e.body.before = Old(r)
         /\ e.unit = Old(r).student /\ e.key[1] = Old(r).crit
         /\ e.step \in DOMAIN Rank /\ ~Early(e) /\ ~Enters(e) /\ ~Decides(e)
<1>. DEFINE e == EditEvent(r)
<1>1. my[r].generation \in Nat
  BY RunAssumption, FS_CardinalityType DEF Typed, Locals
<1>2. /\ e.step = "ObservationEditedByHuman" /\ e.unit = Old(r).student
      /\ e.key = <<Old(r).crit, my[r].generation>> /\ e.body.before = Old(r) /\ e.body.by = r
  BY DEF EditEvent
<1>. HIDE DEF e
<1>3. e.key[1] = Old(r).crit /\ e.key[2] = my[r].generation
  BY <1>2
<1>4. e.step \in DOMAIN Rank /\ ~Early(e) /\ ~Enters(e) /\ ~Decides(e)
  BY <1>2 DEF Rank, Early, Enters, Decides, CriterionOutcome
<1>. QED BY <1>1, <1>2, <1>3, <1>4 DEF e

\* It is an edit of a version there is.
LEMMA EditEventIs ==
  ASSUME Typed, Logged, Chosen, TakesOnce, NEW r \in Request, pc[r] \in {"create", "append"}
  PROVE  IsEdit(EditEvent(r))
<1>. DEFINE e == EditEvent(r)
            o == Old(r)
<1>1. my[r].generation \in Nat
  BY RunAssumption, FS_CardinalityType DEF Typed, Locals
<1>2. o \in Known(log, DOMAIN log) /\ WellEdited(log)
  BY DEF Chosen, Logged
<1>3. IsObs(o)
  <2>1. CASE o \in Base(log)
    BY <1>2, <2>1, KnownIds DEF Original
  <2>2. CASE \E j \in EditsAt(log) : o = log[j].body.after
    BY <1>2, <2>2 DEF WellEdited, IsEdit
  <2>. QED BY <1>2, <2>1, <2>2 DEF Known
<1>4. /\ IsObs(After(r)) /\ After(r).student = o.student /\ After(r).crit = o.crit
      /\ After(r).id[4] = Append(o.id[4], my[r].generation + 1)
  BY <1>1, <1>3, AfterIs
<1>. HIDE DEF o
<1>5. /\ e.unit = o.student /\ e.key = <<o.crit, my[r].generation>>
      /\ e.body.before = o /\ e.body.after = After(r)
  BY DEF EditEvent, o
<1>. HIDE DEF e
<1>6. e.key[1] = o.crit /\ e.key[2] = my[r].generation
  BY <1>5
<1>7. IsEdit(e)
  BY <1>3, <1>4, <1>5, <1>6 DEF IsEdit
<1>. QED BY <1>7 DEF e

\* The generation of an edit is free.
IsFree(e) ==
  \A j \in EditsAt(log) :
    log[j].unit = e.unit /\ log[j].key[1] = e.key[1] => log[j].key[2] # e.key[2]

\* That is when no event of the log has its identity.
LEMMA Free ==
  ASSUME Typed, Logged, Chosen, TakesOnce, NEW r \in Request, pc[r] \in {"create", "append"}
  PROVE  Fresh(ToSet(log), EditEvent(r)) <=> IsFree(EditEvent(r))
<1>. DEFINE e == EditEvent(r)
<1>1. /\ e.step = "ObservationEditedByHuman" /\ IsEdit(e)
  BY EditEventHas, EditEventIs
<1>. HIDE DEF e
<1>3. e.key = <<e.key[1], e.key[2]>>
  BY <1>1 DEF IsEdit
<1>4. \A j \in EditsAt(log) : log[j].key = <<log[j].key[1], log[j].key[2]>>
  BY DEF Logged, WellEdited, IsEdit
<1>5. ASSUME NEW j \in EditsAt(log)
      PROVE  EventId(log[j]) = EventId(e) <=>
               /\ log[j].unit = e.unit
               /\ log[j].key[1] = e.key[1] /\ log[j].key[2] = e.key[2]
  <2>1. log[j].step = e.step
    BY <1>1 DEF EditsAt
  <2>2. log[j].key = e.key <=> log[j].key[1] = e.key[1] /\ log[j].key[2] = e.key[2]
    BY <1>3, <1>4
  <2>. QED BY <2>1, <2>2 DEF EventId
<1>6. \A f \in ToSet(log) : EventId(f) = EventId(e) => \E j \in EditsAt(log) : f = log[j]
  BY <1>1 DEF EventId, EditsAt, ToSet
<1>7. \A j \in EditsAt(log) : log[j] \in ToSet(log)
  BY DEF EditsAt, ToSet
<1>8. Fresh(ToSet(log), e) <=> \A j \in EditsAt(log) : EventId(log[j]) # EventId(e)
  BY <1>6, <1>7 DEF Fresh
<1>. QED BY <1>5, <1>8 DEF IsFree, e

\* The next generation is.
LEMMA NextIsFree ==
  ASSUME Typed, Logged, OneByOne, ~overlapped, NEW r \in Request, pc[r] \in {"create", "append"}
  PROVE  IsFree(EditEvent(r))
<1>. DEFINE e == EditEvent(r)
            s == Old(r).student
            c == Old(r).crit
            N == Edits(log, s, c)
<1>1. e.unit = s /\ e.key[1] = c /\ e.key[2] = my[r].generation
  BY EditEventHas
<1>2. my[r].generation = N
  BY DEF OneByOne
<1>3. N \in Nat /\ {log[k].key[2] : k \in EditsOn(log, s, c)} = 0 .. N - 1
  BY EditsFinite DEF Logged, Counted, TakesOnce
<1>4. ASSUME NEW j \in EditsAt(log), log[j].unit = s, log[j].key[1] = c
      PROVE  log[j].key[2] # N
  <2>1. j \in EditsOn(log, s, c)
    BY <1>4 DEF EditsOn
  <2>. HIDE DEF N, s, c
  <2>2. log[j].key[2] \in 0 .. N - 1
    BY <1>3, <2>1
  <2>. QED BY <1>3, <2>2
<1>. HIDE DEF e, s, c, N
<1>. QED BY <1>1, <1>2, <1>4 DEF IsFree, e

\* The generation of an edit that is written is free, if the store takes an
\* identity once.
LEMMA WrittenIsFree ==
  ASSUME Typed, Logged, Chosen, OneByOne, TakesOnce, NEW r \in Request, Records(r)
  PROVE  IsFree(EditEvent(r))
  BY Free, NextIsFree DEF Records, TakesOnce

\* Once an edit is written its request does not go back to before.
LEMMA NeverBack ==
  ASSUME Typed, Kept, Logged, [Next]_vars, NEW q \in Request
  PROVE  /\ pc[q] \notin {"new", "count", "create", "append"} =>
              pc'[q] \notin {"new", "count", "create", "append"}
         /\ pc[q] = "failed" => pc'[q] = "failed"
<1>1. CASE UNCHANGED vars
  BY <1>1 DEF vars
<1>2. CASE Restart
  <2>1. pc' = [r \in Request |-> IF r \in Busy THEN "killed" ELSE pc[r]]
    BY <1>2 DEF Restart
  <2>. QED BY <2>1 DEF Busy, Waiting
<1>3. ASSUME NEW r \in Request, Does(r), q # r PROVE pc'[q] = pc[q]
  <2>1. Only(r)
    BY <1>3 DEF Does, Picks, Counts, Looks, Records, Rereads, Assigns, Reports, Fails, Aside
  <2>. QED BY <1>3, <2>1 DEF Only
<1>4. ASSUME Does(q)
      PROVE  /\ pc[q] \notin {"new", "count", "create", "append"} =>
                  pc'[q] \notin {"new", "count", "create", "append"}
             /\ pc[q] # "failed"
  <2>1. CASE Picks(q) \/ Counts(q) \/ Looks(q) \/ Records(q) \/ Rereads(q)
    BY <2>1 DEF Picks, Counts, Looks, Records, Rereads
  <2>2. CASE Assigns(q) \/ Reports(q) \/ Fails(q) \/ Aside(q)
    BY <2>2 DEF Assigns, Reports, Fails, Aside
  <2>. QED BY <1>4, <2>1, <2>2 DEF Does
<1>. QED BY <1>1, <1>2, <1>3, <1>4, StepIs

\* What a step does to the log.
LEMMA LogSteps ==
  ASSUME Typed, Kept, Logged, [Next]_vars
  PROVE  \/ log' = log
         \/ \E r \in Request : Records(r)
         \/ \E e \in Deliveries : log' = Append(log, e)
<1>1. ASSUME NEW r \in Request, Does(r)
      PROVE  \/ log' = log \/ Records(r)
             \/ \E e \in Deliveries : log' = Append(log, e)
  BY <1>1 DEF Unread, Does, Picks, Counts, Looks, Rereads, Assigns, Reports, Fails, Aside
<1>. QED BY <1>1, StepIs DEF vars, Restart

\* A delivery is no edit.
LEMMA DeliveryIs ==
  \A e \in Deliveries :
    /\ e.step = "ArtifactDelivered" /\ e.key[2] \in Nat
    /\ e.step \in DOMAIN Rank /\ ~Early(e) /\ ~Enters(e) /\ ~Decides(e)
<1>. SUFFICES ASSUME NEW e \in Deliveries
              PROVE  /\ e.step = "ArtifactDelivered" /\ e.key[2] \in Nat
                     /\ e.step \in DOMAIN Rank /\ ~Early(e) /\ ~Enters(e) /\ ~Decides(e)
  OBVIOUS
<1>1. e.step = "ArtifactDelivered" /\ e.key[2] \in Nat
  BY DEF Deliveries
<1>. QED BY <1>1 DEF Rank, Early, Enters, Decides, CriterionOutcome

\* The log stays, or has one event more, which is folded late and decides nothing.
LEMMA LogIsMore ==
  ASSUME Typed, Kept, Logged, [Next]_vars
  PROVE  \/ log' = log
         \/ \E e : /\ log' = Append(log, e) /\ e.step \in DOMAIN Rank /\ e.key[2] \in Nat
                   /\ ~Early(e) /\ ~Enters(e) /\ ~Decides(e)
<1>1. ASSUME NEW r \in Request, Records(r)
      PROVE  \E e : /\ log' = Append(log, e) /\ e.step \in DOMAIN Rank /\ e.key[2] \in Nat
                    /\ ~Early(e) /\ ~Enters(e) /\ ~Decides(e)
  <2>1. log' = Append(log, EditEvent(r))
    BY <1>1 DEF Records
  <2>. QED BY <2>1, EditEventHas
<1>2. ASSUME NEW e \in Deliveries, log' = Append(log, e)
      PROVE  \E d : /\ log' = Append(log, d) /\ d.step \in DOMAIN Rank /\ d.key[2] \in Nat
                    /\ ~Early(d) /\ ~Enters(d) /\ ~Decides(d)
  BY <1>2, DeliveryIs
<1>. QED BY <1>1, <1>2, LogSteps

\* What a step keeps of the log and of its versions.
LEMMA LogKeeps ==
  ASSUME Typed, Kept, Logged, [Next]_vars
  PROVE  /\ IsLog(log') /\ Decided(log') /\ ToSet(log) \subseteq ToSet(log')
         /\ \A k \in DOMAIN log' : Enters(log'[k]) => log'[k].unit \in Student
         /\ \A q : Earlier(q, log) => Earlier(q, log')
         /\ Base(log') = Base(log) /\ Known(log, DOMAIN log) \subseteq Known(log', DOMAIN log')
         /\ \A k \in EditsAt(log) : k \in EditsAt(log') /\ log'[k] = log[k]
<1>1. /\ IsLog(log) /\ Decided(log) /\ log \in Seq(ToSet(log))
      /\ \A k \in DOMAIN log : Enters(log[k]) => log[k].unit \in Student
  BY DEF Logged, IsLog
<1>2. CASE log' = log
  BY <1>1, <1>2
<1>3. ASSUME NEW e, log' = Append(log, e), e.step \in DOMAIN Rank, e.key[2] \in Nat,
             ~Early(e), ~Enters(e), ~Decides(e)
      PROVE  /\ IsLog(log') /\ Decided(log') /\ ToSet(log) \subseteq ToSet(log')
             /\ \A k \in DOMAIN log' : Enters(log'[k]) => log'[k].unit \in Student
             /\ \A q : Earlier(q, log) => Earlier(q, log')
             /\ Base(log') = Base(log)
             /\ Known(log, DOMAIN log) \subseteq Known(log', DOMAIN log')
             /\ \A k \in EditsAt(log) : k \in EditsAt(log') /\ log'[k] = log[k]
  <2>. DEFINE m == Append(log, e)
              n == Len(log)
  <2>1. /\ IsLog(m) /\ Base(m) = Base(log) /\ DOMAIN log = 1 .. n /\ DOMAIN m = 1 .. n + 1
        /\ n \in Nat /\ m[n + 1] = e /\ \A k \in 1 .. n : m[k] = log[k]
        /\ EditsAt(log) \subseteq EditsAt(m)
    BY <1>1, <1>3, Grown
  <2>2. ToSet(log) \subseteq ToSet(m)
    BY <1>1, AppendIs
  <2>3. Decided(m)
    BY <1>1, <1>3, DecidedStays
  <2>4. \A q : Earlier(q, log) => Earlier(q, m)
    BY <1>1, <1>3, EarlierAppend
  <2>. HIDE DEF m, n
  <2>5. \A k \in EditsAt(log) : k \in EditsAt(m) /\ m[k] = log[k]
    BY <2>1 DEF EditsAt
  <2>6. ASSUME NEW v \in Known(log, DOMAIN log) PROVE v \in Known(m, DOMAIN m)
    <3>1. CASE v \in Base(log)
      BY <2>1, <3>1 DEF Known
    <3>2. CASE \E j \in EditsAt(log) : v = log[j].body.after
      BY <2>5, <3>2 DEF Known, EditsAt
    <3>. QED BY <2>6, <3>1, <3>2 DEF Known
  <2>7. \A k \in DOMAIN m : Enters(m[k]) => m[k].unit \in Student
    <3>1. \A k \in 1 .. n + 1 : k \in 1 .. n \/ k = n + 1
      BY <2>1
    <3>. QED BY <1>1, <1>3, <2>1, <3>1
  <2>8. log' = m
    BY <1>3 DEF m
  <2>. QED BY <2>1, <2>2, <2>3, <2>4, <2>5, <2>6, <2>7, <2>8
<1>. QED BY <1>2, <1>3, LogIsMore

\* Edits do not become fewer.
LEMMA EditsGrow ==
  ASSUME Typed, Kept, Logged, [Next]_vars
  PROVE  \A s, c : /\ Edits(log, s, c) \in Nat /\ Edits(log', s, c) \in Nat
                   /\ Edits(log, s, c) <= Edits(log', s, c)
<1>. TAKE s, c
<1>1. IsLog(log) /\ IsLog(log')
  BY LogKeeps DEF Logged
<1>2. /\ IsFiniteSet(EditsOn(log', s, c))
      /\ Edits(log, s, c) \in Nat /\ Edits(log', s, c) \in Nat
  BY <1>1, EditsFinite
<1>3. EditsOn(log, s, c) \in SUBSET EditsOn(log', s, c)
  BY LogKeeps DEF EditsOn
<1>. QED BY <1>2, <1>3, FS_Subset DEF Edits

\* Each step keeps what the index is about.
LEMMA KeptStep == IInv /\ [Next]_vars => Kept'
<1>. SUFFICES ASSUME IInv, [Next]_vars PROVE Kept'
  OBVIOUS
<1>1. Typed /\ Kept /\ Logged
  BY DEF IInv
<1>2. /\ ToSet(log) \subseteq ToSet(log') /\ index \subseteq ToSet(log)
      /\ log \in Seq(ToSet(log))
  BY <1>1, LogKeeps DEF Kept, Logged, IsLog
<1>3. ASSUME NEW r \in Request, Handles(r) PROVE index' = index \/ AppendLine(r)
  <2>1. CASE (\E i \in IdsOnPages : Edit(r, i)) \/ (\E named \in SUBSET Student : Ratify(r, named))
             \/ (\E s \in Student, v \in Value : Grade(r, s, v))
    BY <2>1 DEF Edit, Ratify, Grade
  <2>2. CASE Count(r) \/ Reread(r) \/ Assign(r) \/ AlreadyHeld(r) \/ CollisionFails(r)
             \/ Commit(r) \/ LookUp(r) \/ AppendLine(r)
    BY <2>2 DEF Count, Reread, Assign, AlreadyHeld, CollisionFails, Commit, LookUp
  <2>3. CASE (\E reachable \in BOOLEAN : Deliver(r, reachable)) \/ SetGrade(r)
             \/ AppendHistory(r) \/ GradeRefused(r) \/ Raises(r)
    BY <2>3 DEF Deliver, SetGrade, AppendHistory, GradeRefused, Raises
  <2>. QED BY <1>3, <2>1, <2>2, <2>3 DEF Handles
<1>4. ASSUME NEW r \in Request, AppendLine(r) PROVE index' \subseteq ToSet(log')
  <2>. DEFINE e == Written(r)
  <2>1. log' = Append(log, e) /\ (index' = index \/ index' = Noted(e))
    BY <1>4 DEF AppendLine
  <2>. HIDE DEF e
  <2>2. ToSet(log') = ToSet(log) \union {e}
    BY <1>2, <2>1, AppendIs
  <2>. QED BY <1>2, <2>1, <2>2 DEF Noted
<1>5. Restart => index' \subseteq ToSet(log')
  <2>. SUFFICES ASSUME Restart PROVE index' \subseteq ToSet(log')
    OBVIOUS
  <2>1. index' = Loaded(log) /\ log' = log
    BY DEF Restart
  <2>2. Loaded(log) \subseteq ToSet(log)
    BY DEF Loaded, ToSet
  <2>. QED BY <2>1, <2>2
<1>6. UNCHANGED vars => index' = index
  BY DEF vars
<1>7. index' \subseteq ToSet(log')
  <2>1. CASE \E r \in Request : Handles(r)
    BY <1>2, <1>3, <1>4, <2>1
  <2>. QED BY <1>2, <1>5, <1>6, <2>1 DEF Next
<1>8. apart' \subseteq Request
  <2>. SUFFICES ASSUME apart' # apart PROVE apart' \subseteq Request
    BY <1>1 DEF Kept
  <2>1. ASSUME NEW r \in Request, Handles(r) PROVE apart' \subseteq apart \union {r}
    <3>1. LookUp(r) \/ AppendLine(r) \/ Raises(r)
      BY <2>1 DEF Handles, Edit, Ratify, Grade, Count, Reread, Assign, AlreadyHeld,
                  CollisionFails, Commit, Deliver, SetGrade, AppendHistory, GradeRefused
    <3>. QED BY <3>1 DEF LookUp, AppendLine, Raises
  <2>2. CASE Restart
    BY <2>2 DEF Restart
  <2>. QED BY <1>1, <2>1, <2>2 DEF Next, vars, Kept
<1>. QED BY <1>1, <1>7, <1>8, Fixed DEF Kept

\* Each step keeps the log as it should be.
LEMMA LoggedStep == IInv /\ [Next]_vars => Logged'
<1>. SUFFICES ASSUME IInv, [Next]_vars PROVE Logged'
  OBVIOUS
<1>0. Typed /\ Kept /\ Logged /\ Chosen /\ OneByOne /\ overlapped \in BOOLEAN
  BY DEF IInv, Typed
<1>1. /\ IsLog(log)
      /\ \A k \in EditsAt(log) :
           /\ log[k].body.by \in Request
           /\ pc[log[k].body.by] \notin {"new", "count", "create", "append"}
      /\ \A j, k \in EditsAt(log) : log[j].body.by = log[k].body.by => j = k
      /\ \A r \in Request : pc[r] = "reread" => \E k \in EditsAt(log) : log[k].body.by = r
      /\ TakesOnce => WellEdited(log) /\ Counted(log)
  BY <1>0 DEF Logged
<1>2. /\ IsLog(log') /\ Decided(log')
      /\ \A k \in DOMAIN log' : Enters(log'[k]) => log'[k].unit \in Student
      /\ \A k \in EditsAt(log) : k \in EditsAt(log') /\ log'[k] = log[k]
  BY <1>0, LogKeeps
<1>3. TakesOnce' => TakesOnce
  BY <1>0, TookOnce
\* The requests whose edits are in the log.
<1>4. ASSUME EditsAt(log') = EditsAt(log), \A r \in Request : ~Records(r)
      PROVE  /\ \A k \in EditsAt(log') :
                  /\ log'[k].body.by \in Request
                  /\ pc'[log'[k].body.by] \notin {"new", "count", "create", "append"}
             /\ \A j, k \in EditsAt(log') : log'[j].body.by = log'[k].body.by => j = k
             /\ \A r \in Request :
                  pc'[r] = "reread" => \E k \in EditsAt(log') : log'[k].body.by = r
  <2>1. \A k \in EditsAt(log') :
          /\ log'[k].body.by \in Request
          /\ pc'[log'[k].body.by] \notin {"new", "count", "create", "append"}
    <3>1. \A k \in EditsAt(log) : log'[k] = log[k]
      BY <1>2
    <3>2. \A q \in Request : pc[q] \notin {"new", "count", "create", "append"} =>
                             pc'[q] \notin {"new", "count", "create", "append"}
      BY <1>0, NeverBack
    <3>. QED BY <1>1, <1>4, <3>1, <3>2
  <2>2. \A r \in Request : pc'[r] = "reread" => pc[r] = "reread"
    <3>1. CASE UNCHANGED vars
      BY <3>1 DEF vars
    <3>2. CASE Restart
      BY <3>2 DEF Restart
    <3>3. ASSUME NEW r \in Request, Does(r)
          PROVE  \A q \in Request : pc'[q] = "reread" => pc[q] = "reread"
      <4>1. Only(r)
        BY <3>3 DEF Does, Picks, Counts, Looks, Records, Rereads, Assigns, Reports, Fails, Aside
      <4>2. pc'[r] # "reread"
        BY <1>4, <3>3 DEF Does, Picks, Counts, Looks, Rereads, Assigns, Reports, Fails, Aside
      <4>. QED BY <4>1, <4>2 DEF Only
    <3>. QED BY <1>0, <3>1, <3>2, <3>3, StepIs
  <2>3. \A j, k \in EditsAt(log') : log'[j].body.by = log'[k].body.by => j = k
    BY <1>1, <1>2, <1>4
  <2>4. \A r \in Request : pc'[r] = "reread" => \E k \in EditsAt(log') : log'[k].body.by = r
    BY <1>1, <1>2, <2>2
  <2>. QED BY <2>1, <2>3, <2>4
<1>5. ASSUME NEW r \in Request, Records(r) PROVE Logged'
  <2>. DEFINE e == EditEvent(r)
              n == Len(log)
  <2>1. /\ pc[r] \in {"create", "append"} /\ pc'[r] \in {"reread", "failed"}
        /\ log' = Append(log, e) /\ Only(r)
    BY <1>5 DEF Records
  <2>2. /\ e.step = "ObservationEditedByHuman" /\ e.key[2] = my[r].generation
        /\ e.key[2] \in Nat /\ e.body.by = r /\ e.body.before = Old(r)
        /\ e.unit = Old(r).student /\ e.key[1] = Old(r).crit
        /\ e.step \in DOMAIN Rank /\ ~Early(e)
    BY <1>0, EditEventHas
  <2>3. TakesOnce' => WellEdited(log') /\ Counted(log')
    <3>. SUFFICES ASSUME TakesOnce PROVE WellEdited(Append(log, e)) /\ Counted(Append(log, e))
      BY <1>3, <2>1
    <3>1. \A j \in EditsAt(log) :
            log[j].unit = e.unit /\ log[j].key[1] = e.key[1] => log[j].key[2] # e.key[2]
      BY <1>0, <1>5, WrittenIsFree DEF IsFree
    <3>2. /\ my[r].generation <= Edits(log, Old(r).student, Old(r).crit)
          /\ \/ Old(r) \in Base(log)
             \/ \E j \in EditsAt(log) :
                  log[j].body.after = Old(r) /\ log[j].key[2] < my[r].generation
      BY <1>0, <2>1 DEF Chosen
    <3>3. IsEdit(e) /\ WellEdited(log) /\ Counted(log)
      BY <1>0, <1>1, <2>1, EditEventIs
    <3>. HIDE DEF e
    <3>4. \/ e.body.before \in Base(log)
          \/ \E j \in EditsAt(log) :
               log[j].body.after = e.body.before /\ log[j].key[2] < e.key[2]
      BY <2>2, <3>2
    <3>5. e.key[2] <= Edits(log, e.unit, e.key[1])
      BY <2>2, <3>2
    <3>6. WellEdited(Append(log, e))
      BY <1>1, <2>2, <3>1, <3>3, <3>4, EditKeeps
    <3>7. Counted(Append(log, e))
      BY <1>1, <2>2, <3>1, <3>3, <3>5, CountedGrows
    <3>. QED BY <3>6, <3>7
  <2>. HIDE DEF e, n
  <2>4. EditsAt(log') = EditsAt(log) \union {n + 1} /\ log'[n + 1] = e
    BY <1>1, <2>1, <2>2, Grown DEF n
  <2>5. \A k \in EditsAt(log) : log'[k] = log[k] /\ log[k].body.by # r
    <3>1. pc[r] \in {"new", "count", "create", "append"}
      BY <2>1
    <3>2. \A k \in EditsAt(log) : log[k].body.by # r
      BY <1>1, <3>1
    <3>3. \A k \in EditsAt(log) : log'[k] = log[k]
      BY <1>2
    <3>. QED BY <3>2, <3>3
  <2>6. \A q \in Request : q # r => pc'[q] = pc[q]
    BY <2>1 DEF Only
  <2>7. \A k \in EditsAt(log') :
          /\ log'[k].body.by \in Request
          /\ pc'[log'[k].body.by] \notin {"new", "count", "create", "append"}
    <3>1. ASSUME NEW k \in EditsAt(log)
          PROVE  /\ log'[k].body.by \in Request
                 /\ pc'[log'[k].body.by] \notin {"new", "count", "create", "append"}
      BY <1>1, <2>5, <2>6
    <3>2. /\ log'[n + 1].body.by \in Request
          /\ pc'[log'[n + 1].body.by] \notin {"new", "count", "create", "append"}
      BY <2>1, <2>2, <2>4
    <3>. QED BY <2>4, <3>1, <3>2
  <2>8. \A j, k \in EditsAt(log') : log'[j].body.by = log'[k].body.by => j = k
    BY <1>1, <2>2, <2>4, <2>5
  <2>9. \A q \in Request : pc'[q] = "reread" => \E k \in EditsAt(log') : log'[k].body.by = q
    <3>1. ASSUME NEW q \in Request, pc'[q] = "reread", q # r
          PROVE  \E k \in EditsAt(log') : log'[k].body.by = q
      <4>1. PICK k \in EditsAt(log) : log[k].body.by = q
        BY <1>1, <2>6, <3>1
      <4>. QED BY <2>4, <2>5, <4>1
    <3>. QED BY <2>2, <2>4, <3>1
  <2>. QED BY <1>2, <2>3, <2>7, <2>8, <2>9 DEF Logged
<1>6. ASSUME NEW e \in Deliveries, log' = Append(log, e), \A r \in Request : ~Records(r)
      PROVE  Logged'
  <2>1. /\ e.step = "ArtifactDelivered" /\ e.key[2] \in Nat /\ e.step \in DOMAIN Rank /\ ~Early(e)
    BY DeliveryIs
  <2>2. TakesOnce' => WellEdited(log') /\ Counted(log')
    BY <1>1, <1>3, <1>6, <2>1, DeliveryKeeps, CountedStays
  <2>3. EditsAt(log') = EditsAt(log)
    BY <1>1, <1>6, <2>1, Grown
  <2>. QED BY <1>2, <1>4, <1>6, <2>2, <2>3 DEF Logged
<1>7. CASE log' = log /\ \A r \in Request : ~Records(r)
  BY <1>1, <1>2, <1>3, <1>4, <1>7 DEF Logged
<1>. QED BY <1>0, <1>5, <1>6, <1>7, LogSteps

-----------------------------------------------------------------------------
(* What was read.                                                          *)

\* Earlier is transitive.
LEMMA EarlierTrans ==
  ASSUME NEW l, NEW q, NEW p, Len(l) \in Nat, Earlier(p, q), Earlier(q, l)
  PROVE  Earlier(p, l)
<1>1. /\ Len(p) \in Nat /\ DOMAIN p = 1 .. Len(p) /\ Len(p) <= Len(q)
      /\ \A i \in 1 .. Len(p) : p[i] = q[i]
      /\ \A i \in Len(p) + 1 .. Len(q) : ~Early(q[i])
      /\ Len(q) \in Nat /\ Len(q) <= Len(l) /\ \A i \in 1 .. Len(q) : q[i] = l[i]
      /\ \A i \in Len(q) + 1 .. Len(l) : ~Early(l[i])
  BY DEF Earlier, Cut
<1>2. \A i \in 1 .. Len(p) : p[i] = l[i]
  BY <1>1
<1>3. ASSUME NEW i \in Len(p) + 1 .. Len(l) PROVE ~Early(l[i])
  <2>1. i \in Len(p) + 1 .. Len(q) \/ i \in Len(q) + 1 .. Len(l)
    BY <1>1
  <2>2. i \in Len(p) + 1 .. Len(q) => i \in 1 .. Len(q)
    BY <1>1
  <2>. QED BY <1>1, <2>1, <2>2
<1>4. Len(p) <= Len(l)
  BY <1>1
<1>. QED BY <1>1, <1>2, <1>3, <1>4 DEF Earlier, Cut

\* Each step keeps what was read behind the log.
LEMMA BehindStep == IInv /\ [Next]_vars => Behind'
<1>. SUFFICES ASSUME IInv, [Next]_vars PROVE Behind'
  OBVIOUS
<1>0. Typed /\ Kept /\ Logged
  BY DEF IInv
<1>1. /\ Earlier(folded, log) /\ Earlier(started, folded)
      /\ \A r \in Request : my[r].read = <<>> \/ Earlier(my[r].read, log)
      /\ \A r \in Request :
           pc[r] = "assign" => Earlier(my[r].read, log) /\ Earlier(started, my[r].read)
  BY DEF IInv, Behind
<1>2. \A q : Earlier(q, log) => Earlier(q, log')
  BY <1>0, LogKeeps
<1>3. log \in Seq(ToSet(log)) /\ Len(log) \in Nat
  BY <1>0, LogIs DEF Logged, IsLog
<1>4. Earlier(log, log) /\ Earlier(started, log)
  BY <1>1, <1>3, EarlierSelf, EarlierTrans
<1>5. CASE UNCHANGED vars
  BY <1>1, <1>5 DEF vars, start, Behind
<1>6. CASE Restart
  <2>1. /\ log' = log /\ folded' = log /\ started' = log
        /\ \A r \in Request : /\ pc'[r] = IF r \in Busy THEN "killed" ELSE pc[r]
                              /\ my'[r] = IF r \in Busy THEN NoLocals ELSE my[r]
    BY <1>6 DEF Restart
  <2>2. NoLocals.read = <<>>
    BY DEF NoLocals
  <2>3. \A r \in Request : my'[r].read = <<>> \/ Earlier(my'[r].read, log')
    BY <1>1, <2>1, <2>2
  <2>4. \A r \in Request : pc'[r] # "assign"
    BY <2>1 DEF Busy, Waiting
  <2>. QED BY <1>4, <2>1, <2>3, <2>4 DEF Behind
<1>7. ASSUME NEW r \in Request, Does(r) PROVE Behind'
  <2>1. Only(r)
    BY <1>7 DEF Does, Picks, Counts, Looks, Records, Rereads, Assigns, Reports, Fails,
           Aside
  \* Everybody else.
  <2>2. ASSUME UNCHANGED started, NEW q \in Request, q # r
        PROVE  /\ my'[q].read = <<>> \/ Earlier(my'[q].read, log')
               /\ pc'[q] = "assign" =>
                    Earlier(my'[q].read, log') /\ Earlier(started', my'[q].read)
    BY <1>1, <1>2, <2>1, <2>2 DEF Only
  <2>3. UNCHANGED started
    BY <1>7 DEF Does, Unread, Picks, Counts, Looks, Records, Rereads, Assigns, Reports, Fails,
           Aside
  <2>4. ASSUME UNCHANGED folded,
               my'[r].read = <<>> \/ Earlier(my'[r].read, log'),
               pc'[r] = "assign" =>
                 Earlier(my'[r].read, log') /\ Earlier(started', my'[r].read)
        PROVE  Behind'
    <3>1. Earlier(folded', log') /\ Earlier(started', folded')
      BY <1>1, <1>2, <2>3, <2>4
    <3>. QED BY <2>2, <2>3, <2>4, <3>1 DEF Behind
  <2>5. NoLocals.read = <<>>
    BY DEF NoLocals
  <2>6. CASE Picks(r) \/ Counts(r) \/ Records(r) \/ Looks(r)
            \/ Reports(r) \/ Fails(r) \/ Aside(r)
    <3>1. UNCHANGED folded /\ my'[r].read \in {my[r].read, <<>>} /\ pc'[r] # "assign"
      BY <2>5, <2>6 DEF Unread, Picks, Counts, Looks, Records, Reports, Fails,
                           Aside
    <3>2. my'[r].read = <<>> \/ Earlier(my'[r].read, log')
      BY <1>1, <1>2, <3>1
    <3>. QED BY <2>4, <3>1, <3>2
  <2>7. CASE Rereads(r)
    <3>1. UNCHANGED <<log, folded, started>> /\ my'[r].read = log
      BY <2>7 DEF Rereads, Unread
    <3>2. Earlier(my'[r].read, log') /\ Earlier(started', my'[r].read)
      BY <1>4, <3>1
    <3>. QED BY <2>4, <3>1, <3>2
  <2>8. CASE Assigns(r)
    <3>1. /\ log' = log /\ pc[r] = "assign" /\ pc'[r] = "done" /\ folded' = my[r].read
          /\ my'[r] = NoLocals
      BY <2>8 DEF Assigns
    <3>2. Earlier(folded', log') /\ Earlier(started', folded')
      BY <1>1, <2>3, <3>1
    <3>. QED BY <2>2, <2>3, <2>5, <3>1, <3>2 DEF Behind
  <2>. QED BY <1>7, <2>6, <2>7, <2>8 DEF Does
<1>. QED BY <1>0, <1>5, <1>6, <1>7, StepIs

-----------------------------------------------------------------------------
(* The edit in progress.                                                   *)

\* Each step leaves what is about to be edited a version that is known.
LEMMA ChosenStep == IInv /\ [Next]_vars => Chosen'
<1>. SUFFICES ASSUME IInv, [Next]_vars, TakesOnce' PROVE Chosen'
  BY DEF Chosen
<1>0. Typed /\ Kept /\ Logged /\ Chosen /\ Behind /\ TakesOnce
  BY TookOnce DEF IInv, Typed
<1>1. /\ Base(log') = Base(log) /\ Known(log, DOMAIN log) \subseteq Known(log', DOMAIN log')
      /\ \A k \in EditsAt(log) : k \in EditsAt(log') /\ log'[k] = log[k]
  BY <1>0, LogKeeps
<1>2. \A s, c : /\ Edits(log, s, c) \in Nat /\ Edits(log', s, c) \in Nat
                /\ Edits(log, s, c) <= Edits(log', s, c)
  BY <1>0, EditsGrow
<1>3. \A r \in Request : my[r].generation \in Nat
  BY RunAssumption, FS_CardinalityType, <1>0 DEF Typed, Locals
\* Who did nothing, chose the same.
<1>4. ASSUME NEW q \in Request, my'[q] = my[q], pc'[q] = pc[q]
      PROVE  /\ pc'[q] \in {"count", "create", "append"} =>
                  my'[q].before = {Old(q)'} /\ Old(q)' \in Known(log', DOMAIN log')
             /\ pc'[q] \in {"create", "append"} =>
                  /\ my'[q].generation <= Edits(log', Old(q)'.student, Old(q)'.crit)
                  /\ \/ Old(q)' \in Base(log')
                     \/ \E j \in EditsAt(log') :
                          log'[j].body.after = Old(q)' /\ log'[j].key[2] < my'[q].generation
  <2>1. Old(q)' = Old(q)
    BY <1>4 DEF Old
  <2>2. pc[q] \in {"count", "create", "append"} =>
          my[q].before = {Old(q)} /\ Old(q) \in Known(log, DOMAIN log)
    BY <1>0 DEF Chosen
  <2>3. ASSUME pc[q] \in {"create", "append"}
        PROVE  /\ my[q].generation <= Edits(log', Old(q).student, Old(q).crit)
               /\ \/ Old(q) \in Base(log')
                  \/ \E j \in EditsAt(log') :
                       log'[j].body.after = Old(q) /\ log'[j].key[2] < my[q].generation
    <3>1. /\ my[q].generation <= Edits(log, Old(q).student, Old(q).crit)
          /\ \/ Old(q) \in Base(log)
             \/ \E j \in EditsAt(log) :
                  log[j].body.after = Old(q) /\ log[j].key[2] < my[q].generation
      BY <1>0, <2>3 DEF Chosen
    <3>2. my[q].generation <= Edits(log', Old(q).student, Old(q).crit)
      <4>. DEFINE x == Edits(log, Old(q).student, Old(q).crit)
                  y == Edits(log', Old(q).student, Old(q).crit)
      <4>1. x \in Nat /\ y \in Nat /\ x <= y /\ my[q].generation <= x
        BY <1>1, <1>2, <3>1
      <4>. HIDE DEF x, y
      <4>2. my[q].generation <= y
        BY <1>3, <4>1
      <4>. QED BY <4>2 DEF y
    <3>. QED BY <1>1, <3>1, <3>2
  <2>. QED BY <1>1, <1>4, <2>1, <2>2, <2>3
<1>5. CASE UNCHANGED vars
  BY <1>4, <1>5 DEF vars, Chosen
<1>6. CASE Restart
  <2>1. \A r \in Request : /\ pc'[r] = IF r \in Busy THEN "killed" ELSE pc[r]
                           /\ my'[r] = IF r \in Busy THEN NoLocals ELSE my[r]
    BY <1>6 DEF Restart
  <2>2. \A r \in Request : pc'[r] \notin {"count", "create", "append"}
    BY <2>1 DEF Busy, Waiting
  <2>. QED BY <2>2 DEF Chosen
<1>7. ASSUME NEW r \in Request, Does(r) PROVE Chosen'
  <2>1. \A q \in Request : q # r => my'[q] = my[q] /\ pc'[q] = pc[q]
    BY <1>7 DEF Only, Does, Picks, Counts, Looks, Records, Rereads, Assigns, Reports, Fails,
           Aside
  <2>2. CASE pc'[r] \notin {"count", "create", "append"}
    BY <1>4, <2>1, <2>2 DEF Chosen
  <2>3. CASE Picks(r) /\ pc'[r] = "count"
    <3>1. PICK i : my'[r].before = At(Served.claims, i) /\ my'[r].before # {}
      BY <2>3 DEF Picks
    <3>2. /\ \A o \in Served.claims : o \in Known(log, DOMAIN log)
          /\ \A o, p \in Served.claims : o.id = p.id => o = p
      BY <1>0, ServedIs
    <3>3. PICK o \in Served.claims : o \in my'[r].before /\ o.id = i
      BY <3>1 DEF At
    <3>4. my'[r].before = {o}
      BY <3>1, <3>2, <3>3 DEF At
    <3>5. Old(r)' = o
      BY <3>4 DEF Old
    <3>6. my'[r].before = {Old(r)'} /\ Old(r)' \in Known(log', DOMAIN log')
      BY <1>1, <3>2, <3>3, <3>4, <3>5
    <3>. QED BY <1>4, <2>1, <2>3, <3>6 DEF Chosen
  <2>4. CASE Counts(r)
    <3>1. /\ pc[r] = "count" /\ log' = log /\ my'[r].before = my[r].before
          /\ my'[r].generation = Generation(Old(r).student, Old(r).crit)
      BY <2>4 DEF Counts, Unread
    <3>2. Old(r)' = Old(r)
      BY <3>1 DEF Old
    <3>3. my[r].before = {Old(r)} /\ Old(r) \in Known(log, DOMAIN log)
      BY <1>0, <3>1 DEF Chosen
    <3>4. my'[r].generation = Edits(log, Old(r).student, Old(r).crit)
      BY <3>1, GenerationIs
    <3>5. my'[r].generation <= Edits(log', Old(r)'.student, Old(r)'.crit)
      BY <1>2, <3>1, <3>2, <3>4
    <3>6. \/ Old(r) \in Base(log)
          \/ \E j \in EditsAt(log) :
               log[j].body.after = Old(r) /\ log[j].key[2] < my'[r].generation
      <4>1. ASSUME NEW j \in EditsAt(log), log[j].body.after = Old(r)
            PROVE  log[j].key[2] < my'[r].generation
        <5>. DEFINE s == Old(r).student
                    c == Old(r).crit
        <5>1. log[j].unit = s /\ log[j].key[1] = c
          <6>1. IsEdit(log[j])
            BY <1>0 DEF Logged, WellEdited
          <6>. QED BY <4>1, <6>1 DEF IsEdit
        <5>. HIDE DEF s, c
        <5>2. j \in EditsOn(log, s, c)
          BY <5>1 DEF EditsOn
        <5>3. {log[k].key[2] : k \in EditsOn(log, s, c)} = 0 .. Edits(log, s, c) - 1
          BY <1>0 DEF Logged, Counted
        <5>4. log[j].key[2] \in 0 .. Edits(log, s, c) - 1
          BY <5>2, <5>3
        <5>5. Edits(log, s, c) \in Nat
          BY <1>2
        <5>6. log[j].key[2] < Edits(log, s, c)
          BY <5>4, <5>5
        <5>. QED BY <3>4, <5>6 DEF s, c
      <4>. QED BY <3>3, <4>1 DEF Known
    <3>7. /\ my'[r].before = {Old(r)'} /\ Old(r)' \in Known(log', DOMAIN log')
          /\ \/ Old(r)' \in Base(log')
             \/ \E j \in EditsAt(log') :
                  log'[j].body.after = Old(r)' /\ log'[j].key[2] < my'[r].generation
      BY <3>1, <3>2, <3>3, <3>6
    <3>. QED BY <1>4, <2>1, <3>5, <3>7 DEF Chosen
  <2>5. CASE Looks(r) /\ pc[r] = "create"
    <3>1. /\ log' = log /\ my'[r] = my[r] /\ pc'[r] = "append"
      BY <2>5 DEF Looks, Unread
    <3>2. Old(r)' = Old(r)
      BY <3>1 DEF Old
    <3>3. /\ my[r].before = {Old(r)} /\ Old(r) \in Known(log, DOMAIN log)
          /\ my[r].generation <= Edits(log, Old(r).student, Old(r).crit)
          /\ \/ Old(r) \in Base(log)
             \/ \E j \in EditsAt(log) :
                  log[j].body.after = Old(r) /\ log[j].key[2] < my[r].generation
      BY <1>0, <2>5 DEF Chosen
    <3>. QED BY <1>4, <2>1, <3>1, <3>2, <3>3 DEF Chosen
  <2>. QED BY <1>7, <2>2, <2>3, <2>4, <2>5
           DEF Does, Picks, Looks, Records, Rereads, Assigns, Reports, Fails, Aside
<1>. QED BY <1>0, <1>5, <1>6, <1>7, StepIs

-----------------------------------------------------------------------------
(* Requests that come one at a time.                                       *)

\* Who does something is the only one who is busy.
LEMMA Alone ==
  ASSUME Typed, ~overlapped', overlapped \in BOOLEAN,
         ~overlapped => \A p, q \in Busy : p = q,
         NEW r \in Request, Does(r)
  PROVE  /\ ~overlapped /\ Only(r)
         /\ \A q \in Request : q # r => pc[q] \notin Waiting /\ pc'[q] \notin Waiting
<1>1. Only(r)
  BY DEF Does, Picks, Counts, Looks, Records, Rereads, Assigns, Reports, Fails,
           Aside
<1>2. Enter \/ UNCHANGED overlapped
  BY DEF Does, Picks, Counts, Looks, Records, Rereads, Assigns, Reports, Fails,
           Aside
<1>3. ~overlapped
  BY <1>2 DEF Enter
<1>4. Enter => Busy = {}
  BY DEF Enter
<1>5. ~Enter => pc[r] \in Waiting
  BY DEF Does, Picks, Counts, Looks, Records, Rereads, Assigns, Reports, Fails,
           Aside, Waiting
<1>6. \A q \in Request : q # r => pc[q] \notin Waiting
  BY <1>3, <1>4, <1>5 DEF Busy
<1>. QED BY <1>1, <1>3, <1>6 DEF Only

\* The next edit in line.
LEMMA NextInLine ==
  ASSUME Typed, Logged, Chosen, TakesOnce, Linear(log), NEW r \in Request,
         pc[r] \in {"create", "append"},
         \A k \in EditsAt(log) : log[k].body.before # Old(r),
         my[r].generation = Edits(log, Old(r).student, Old(r).crit)
  PROVE  LET e == EditEvent(r) IN
         \/ e.key[2] = 0 /\ e.body.before \in Base(log)
         \/ \E j \in EditsAt(log) :
              log[j].key[2] + 1 = e.key[2] /\ log[j].body.after = e.body.before
<1>. DEFINE e == EditEvent(r)
            o == Old(r)
            N == Edits(log, o.student, o.crit)
            E == EditsOn(log, o.student, o.crit)
<1>1. e.key[2] = N /\ e.body.before = o
  BY EditEventHas
<1>2. N \in Nat /\ {log[k].key[2] : k \in E} = 0 .. N - 1
  BY EditsFinite DEF Logged, Counted
<1>3. /\ o \in Known(log, DOMAIN log)
      /\ \/ o \in Base(log)
         \/ \E j \in EditsAt(log) : log[j].body.after = o /\ log[j].key[2] < N
  BY DEF Chosen
<1>4. \A k \in EditsAt(log) : log[k].key[2] \in Nat
  BY DEF Logged, IsLog, Sortable, EditsAt
<1>5. E \subseteq EditsAt(log)
  BY DEF EditsOn
<1>6. CASE N = 0
  <2>. HIDE DEF N, o
  <2>1. o \in Base(log)
    BY <1>3, <1>4, <1>6
  <2>. QED BY <1>1, <1>6, <2>1 DEF e
<1>7. CASE N # 0
  <2>1. PICK k \in E : log[k].key[2] = N - 1
    <3>. HIDE DEF N, E
    <3>1. N - 1 \in 0 .. N - 1
      BY <1>2, <1>7
    <3>. QED BY <1>2, <3>1
  <2>2. /\ WellEdited(log) /\ Decided(log)
        /\ \A i \in EditsAt(log) : log[i].body.before # o
    BY DEF Logged
  <2>3. PICK j \in E : log[j].body.after = o /\ log[k].key[2] <= log[j].key[2]
    <3>. HIDE DEF o
    <3>. QED BY <1>3, <2>1, <2>2, LastIs
  <2>4. log[j].key[2] \in 0 .. N - 1
    BY <1>2, <2>3
  <2>. HIDE DEF N, E, o, e
  <2>5. log[j].key[2] + 1 = N
    BY <1>2, <2>1, <2>3, <2>4
  <2>6. log[j].key[2] + 1 = e.key[2] /\ log[j].body.after = e.body.before /\ j \in EditsAt(log)
    BY <1>1, <1>5, <2>3, <2>5
  <2>. QED BY <2>6 DEF e
<1>. QED BY <1>6, <1>7

\* Each step of requests that come one at a time lets the next one in only after
\* what was written is served.
LEMMA OneByOneStep == IInv /\ [Next]_vars => OneByOne'
<1>. SUFFICES ASSUME IInv, [Next]_vars, ~overlapped' PROVE OneByOne'
  BY DEF OneByOne
<1>0. Typed /\ Kept /\ Logged /\ OneByOne /\ overlapped \in BOOLEAN
  BY DEF IInv, Typed
<1>1. CASE UNCHANGED vars
  <2>1. OneByOne
    BY <1>0
  <2>2. \A r \in Request : Old(r)' = Old(r)
    BY <1>1 DEF vars, Old
  <2>. QED BY <1>1, <2>1, <2>2 DEF vars, OneByOne, Busy
<1>2. CASE Restart
  <2>1. /\ log' = log /\ folded' = log
        /\ \A r \in Request : pc'[r] = IF r \in Busy THEN "killed" ELSE pc[r]
    BY <1>2 DEF Restart
  <2>2. \A r \in Request : pc'[r] \notin Waiting
    BY <2>1 DEF Busy, Waiting
  <2>. QED BY <2>1, <2>2 DEF OneByOne, Busy, Waiting
<1>3. ASSUME NEW r \in Request, Does(r) PROVE OneByOne'
  <2>1. /\ ~overlapped
        /\ \A q \in Request : q # r =>
             /\ my'[q] = my[q] /\ pc'[q] = pc[q]
             /\ pc[q] \notin Waiting /\ pc'[q] \notin Waiting
    BY <1>0, <1>3, Alone DEF OneByOne, Only
  <2>2. /\ pc[r] \in {"create", "append"} =>
             my[r].generation = Edits(log, Old(r).student, Old(r).crit)
        /\ pc[r] = "assign" => my[r].read = log
        /\ (\A q \in Request :
              pc[q] \notin {"write", "put", "reread", "assign", "failed", "collided"}) =>
             folded = log
    BY <1>0, <2>1 DEF OneByOne
  <2>3. ASSUME pc[r] \notin {"write", "put", "reread", "assign", "failed", "collided"},
               \A q \in Request :
                 pc'[q] \notin {"write", "put", "reread", "assign", "failed", "collided"}
        PROVE  folded = log
    <3>1. \A q \in Request :
            pc[q] \notin {"write", "put", "reread", "assign", "failed", "collided"}
      BY <2>1, <2>3
    <3>. QED BY <2>2, <3>1
  \* It is enough to look at r.
  <2>4. ASSUME pc'[r] \in {"create", "append"} =>
                 my'[r].generation = Edits(log', Old(r)'.student, Old(r)'.crit),
               pc'[r] = "assign" => my'[r].read = log',
               (\A q \in Request :
                  pc'[q] \notin {"write", "put", "reread", "assign", "failed", "collided"}) =>
                 folded' = log'
        PROVE  OneByOne'
    <3>1. \A p, q \in Busy' : p = q
      BY <2>1 DEF Busy
    <3>2. \A q \in Request : pc'[q] \in {"create", "append"} =>
            my'[q].generation = Edits(log', Old(q)'.student, Old(q)'.crit)
      BY <2>1, <2>4 DEF Waiting
    <3>3. \A q \in Request : pc'[q] = "assign" => my'[q].read = log'
      BY <2>1, <2>4 DEF Waiting
    <3>. QED BY <2>4, <3>1, <3>2, <3>3 DEF OneByOne
  <2>5. CASE Picks(r)
    <3>1. /\ log' = log /\ folded' = folded /\ pc[r] = "new" /\ pc'[r] \in {"done", "count"}
      BY <2>5 DEF Picks, Unread
    <3>. QED BY <2>3, <2>4, <3>1
  <2>6. CASE Counts(r)
    <3>1. /\ log' = log /\ folded' = folded /\ pc[r] = "count" /\ pc'[r] = "create"
          /\ my'[r].before = my[r].before
          /\ my'[r].generation = Generation(Old(r).student, Old(r).crit)
      BY <2>6 DEF Counts, Unread
    <3>2. Old(r)' = Old(r)
      BY <3>1 DEF Old
    <3>3. my'[r].generation = Edits(log', Old(r)'.student, Old(r)'.crit)
      BY <3>1, <3>2, GenerationIs
    <3>. QED BY <2>3, <2>4, <3>1, <3>3
  <2>7. CASE Looks(r)
    <3>1. /\ log' = log /\ folded' = folded /\ my' = my
          /\ \/ pc[r] = "create" /\ pc'[r] = "append"
             \/ pc[r] = "write" /\ pc'[r] = "put"
      BY <2>7 DEF Looks, Unread
    <3>2. Old(r)' = Old(r)
      BY <3>1 DEF Old
    <3>. QED BY <2>2, <2>3, <2>4, <3>1, <3>2
  <2>8. CASE Records(r)
    BY <2>4, <2>8 DEF Records
  <2>9. CASE Rereads(r)
    <3>1. log' = log /\ pc'[r] = "assign" /\ my'[r].read = log
      BY <2>9 DEF Rereads, Unread
    <3>. QED BY <2>4, <3>1
  <2>10. CASE Assigns(r)
    <3>1. log' = log /\ pc[r] = "assign" /\ pc'[r] = "done" /\ folded' = my[r].read
      BY <2>10 DEF Assigns
    <3>. QED BY <2>2, <2>4, <3>1
  <2>11. CASE Reports(r)
    BY <2>4, <2>11 DEF Reports
  <2>12. CASE Fails(r)
    BY <2>4, <2>12 DEF Fails
  <2>13. CASE Aside(r)
    <3>1. /\ log' = log /\ folded' = folded /\ pc[r] \in {"new", "deliver", "set", "history"}
          /\ pc'[r] \in {"deliver", "set", "write", "history", "done", "refused"}
      BY <2>13 DEF Aside, Unread
    <3>. QED BY <2>3, <2>4, <3>1
  <2>. QED BY <1>3, <2>5, <2>6, <2>7, <2>8, <2>9, <2>10, <2>11, <2>12, <2>13 DEF Does
<1>. QED BY <1>0, <1>1, <1>2, <1>3, StepIs

\* An edit that is reported as failed stays so.
LEMMA AnsweredBefore ==
  ASSUME Typed, Kept, Logged, [Next]_vars, Answered'
  PROVE  Answered
<1>1. \A k \in EditsAt(log) : k \in EditsAt(log') /\ log'[k] = log[k]
  BY LogKeeps
<1>2. \A k \in EditsAt(log) : log[k].body.by \in Request
  BY DEF Logged
<1>. QED BY <1>1, <1>2, NeverBack DEF Answered

\* Each step of requests that come one at a time keeps the edits in line.
LEMMA InLineStep == IInv /\ [Next]_vars => InLine'
<1>. SUFFICES ASSUME IInv, [Next]_vars, ~overlapped', Answered' PROVE InLine'
  BY DEF InLine
<1>0. /\ Typed /\ Kept /\ Logged /\ Chosen /\ Behind /\ OneByOne /\ InLine
      /\ overlapped \in BOOLEAN
  BY DEF IInv, Typed
<1>a. IsLog(log) /\ \A k \in EditsAt(log) : k <= Len(log)
  BY <1>0, LogIs DEF Logged, IsLog, EditsAt
<1>b. Answered
  BY <1>0, AnsweredBefore
<1>1. CASE UNCHANGED vars
  <2>1. \A r \in Request : Old(r)' = Old(r)
    BY <1>1 DEF vars, Old
  <2>. QED BY <1>0, <1>b, <1>1, <2>1 DEF vars, InLine
<1>2. CASE Restart
  <2>1. /\ log' = log /\ folded' = log /\ overlapped' = overlapped
        /\ \A r \in Request : pc'[r] = IF r \in Busy THEN "killed" ELSE pc[r]
    BY <1>2 DEF Restart
  <2>2. \A r \in Request : pc'[r] \notin Waiting
    BY <2>1 DEF Busy, Waiting
  <2>3. Linear(log)
    BY <1>0, <1>b, <2>1 DEF InLine
  <2>. QED BY <1>a, <2>1, <2>2, <2>3 DEF InLine, Waiting
<1>3. ASSUME NEW r \in Request, Does(r) PROVE InLine'
  <2>1. /\ ~overlapped
        /\ \A q \in Request : q # r =>
             /\ my'[q] = my[q] /\ pc'[q] = pc[q]
             /\ pc[q] \notin Waiting /\ pc'[q] \notin Waiting
    BY <1>0, <1>3, Alone DEF OneByOne, Only
  <2>2. /\ Linear(log)
        /\ pc[r] \in {"count", "create", "append"} =>
             \A k \in EditsAt(log) : log[k].body.before # Old(r)
        /\ (\A q \in Request : pc[q] \notin {"reread", "assign"}) =>
             \A k \in EditsAt(log) : k <= Len(folded)
    BY <1>0, <1>b, <2>1 DEF InLine
  <2>3. pc[r] \notin {"reread", "assign"} => \A k \in EditsAt(log) : k <= Len(folded)
    <3>1. \A q \in Request : q # r => pc[q] \notin {"reread", "assign"}
      BY <2>1 DEF Waiting
    <3>. QED BY <2>2, <3>1
  \* It is enough to look at r.
  <2>4. ASSUME Linear(log'),
               pc'[r] \in {"count", "create", "append"} =>
                 \A k \in EditsAt(log') : log'[k].body.before # Old(r)',
               pc'[r] \notin {"reread", "assign"} => \A k \in EditsAt(log') : k <= Len(folded')
        PROVE  InLine'
    <3>1. \A q \in Request : pc'[q] \in {"count", "create", "append"} =>
            \A k \in EditsAt(log') : log'[k].body.before # Old(q)'
      BY <2>1, <2>4 DEF Waiting
    <3>. QED BY <2>4, <3>1 DEF InLine
  <2>5. CASE Picks(r)
    <3>1. /\ log' = log /\ folded' = folded /\ pc[r] = "new" /\ pc'[r] \in {"done", "count"}
      BY <2>5 DEF Picks, Unread
    <3>2. ASSUME pc'[r] = "count"
          PROVE  \A k \in EditsAt(log) : log[k].body.before # Old(r)'
      <4>1. PICK i : my'[r].before = At(Served.claims, i) /\ my'[r].before # {}
        BY <2>5, <3>2 DEF Picks
      <4>2. /\ EditsAt(folded) = {k \in EditsAt(log) : k <= Len(folded)}
            /\ \A k \in EditsAt(folded) : folded[k] = log[k]
            /\ \A o \in Served.claims :
                 \A k \in EditsAt(folded) : folded[k].body.before # o
        BY <1>0, <2>1, ServedIs DEF TakesOnce
      <4>3. \A o \in Served.claims : \A k \in EditsAt(log) : log[k].body.before # o
        BY <2>3, <3>1, <4>2
      <4>4. Old(r)' \in my'[r].before
        BY <4>1 DEF Old
      <4>5. Old(r)' \in Served.claims
        BY <4>1, <4>4 DEF At
      <4>. QED BY <4>3, <4>5
    <3>. QED BY <2>2, <2>3, <2>4, <3>1, <3>2
  <2>6. CASE Counts(r)
    <3>1. /\ log' = log /\ folded' = folded /\ pc[r] = "count" /\ pc'[r] = "create"
          /\ my'[r].before = my[r].before
      BY <2>6 DEF Counts, Unread
    <3>2. Old(r)' = Old(r)
      BY <3>1 DEF Old
    <3>. QED BY <2>2, <2>3, <2>4, <3>1, <3>2
  <2>7. CASE Looks(r)
    <3>1. /\ log' = log /\ folded' = folded /\ my' = my
          /\ \/ pc[r] = "create" /\ pc'[r] = "append"
             \/ pc[r] = "write" /\ pc'[r] = "put"
      BY <2>7 DEF Looks, Unread
    <3>2. Old(r)' = Old(r)
      BY <3>1 DEF Old
    <3>. QED BY <2>2, <2>3, <2>4, <3>1, <3>2
  <2>8. CASE Records(r)
    <3>. DEFINE e == EditEvent(r)
    <3>1. /\ pc[r] \in {"create", "append"} /\ pc'[r] \in {"reread", "failed"}
          /\ log' = Append(log, e)
      BY <2>8 DEF Records
    <3>2. /\ e.step = "ObservationEditedByHuman" /\ e.key[2] = my[r].generation
          /\ e.key[2] \in Nat /\ e.body.before = Old(r) /\ e.body.by = r
          /\ e.step \in DOMAIN Rank /\ ~Early(e)
      BY <1>0, EditEventHas
    <3>3. TakesOnce /\ IsEdit(e)
      BY <1>0, <2>1, <3>1, EditEventIs DEF TakesOnce
    <3>4. \A j \in EditsAt(log) :
            log[j].unit = e.unit /\ log[j].key[1] = e.key[1] => log[j].key[2] # e.key[2]
      BY <1>0, <2>8, <3>3, WrittenIsFree DEF IsFree
    <3>5. my[r].generation = Edits(log, Old(r).student, Old(r).crit)
      BY <1>0, <2>1, <3>1 DEF OneByOne
    <3>6. \/ e.key[2] = 0 /\ e.body.before \in Base(log)
          \/ \E j \in EditsAt(log) :
               log[j].key[2] + 1 = e.key[2] /\ log[j].body.after = e.body.before
      BY <1>0, <2>2, <3>1, <3>3, <3>5, NextInLine
    <3>7. \/ e.body.before \in Base(log)
          \/ \E j \in EditsAt(log) :
               log[j].body.after = e.body.before /\ log[j].key[2] < e.key[2]
      BY <1>0, <3>1, <3>2, <3>3 DEF Chosen
    <3>. HIDE DEF e
    <3>8. IsLog(log) /\ WellEdited(log)
      BY <1>0, <3>3 DEF Logged
    <3>9. Linear(log')
      BY <2>2, <3>1, <3>2, <3>3, <3>4, <3>6, <3>7, <3>8, EditKeeps
    \* The request did not fail, or its edit would not have been answered.
    <3>10. pc'[r] = "reread"
      <4>1. EditsAt(log') = EditsAt(log) \union {Len(log) + 1} /\ log'[Len(log) + 1] = e
        BY <3>1, <3>2, <3>8, Grown
      <4>2. pc'[r] # "failed"
        BY <3>2, <4>1 DEF Answered
      <4>. QED BY <3>1, <4>2
    <3>. QED BY <2>4, <3>9, <3>10
  <2>9. CASE Rereads(r)
    <3>1. log' = log /\ pc'[r] = "assign"
      BY <2>9 DEF Rereads, Unread
    <3>. QED BY <2>2, <2>4, <3>1
  <2>10. CASE Assigns(r)
    <3>1. log' = log /\ pc[r] = "assign" /\ pc'[r] = "done" /\ folded' = my[r].read
      BY <2>10 DEF Assigns
    <3>2. folded' = log
      BY <1>0, <2>1, <3>1 DEF OneByOne
    <3>. QED BY <1>a, <2>2, <2>4, <3>1, <3>2
  <2>11. CASE Reports(r)
    <3>1. pc[r] \in {"write", "put"} /\ pc'[r] \in {"write", "failed"} /\ folded' = folded
      BY <2>11 DEF Reports
    <3>2. CASE log' = log
      BY <2>2, <2>3, <2>4, <3>1, <3>2
    <3>3. ASSUME NEW e \in Deliveries, log' = Append(log, e) PROVE InLine'
      <4>1. /\ e.step = "ArtifactDelivered" /\ e.key[2] \in Nat
            /\ e.step \in DOMAIN Rank /\ ~Early(e)
        BY DeliveryIs
      <4>2. EditsAt(log') = EditsAt(log)
        BY <1>a, <3>3, <4>1, Grown
      <4>3. Linear(log')
        BY <1>0, <1>a, <2>1, <2>2, <3>3, <4>1, DeliveryKeeps DEF Logged, TakesOnce
      <4>4. \A k \in EditsAt(log') : k <= Len(folded')
        BY <2>3, <3>1, <4>2
      <4>. QED BY <2>4, <3>1, <4>3, <4>4
    <3>. QED BY <2>11, <3>2, <3>3 DEF Reports
  <2>12. CASE Fails(r)
    <3>1. /\ log' = log /\ folded' = folded /\ pc'[r] \in {"failed", "collided"}
          /\ pc[r] \in {"count", "create", "append", "deliver", "write", "put", "reread"}
          /\ pc'[r] = "failed" \/ pc[r] # "reread"
      BY <2>12 DEF Fails, Unread
    \* Nor does a request fail that has written its edit.
    <3>2. pc[r] # "reread"
      <4>. SUFFICES ASSUME pc[r] = "reread" PROVE FALSE
        OBVIOUS
      <4>1. PICK k \in EditsAt(log) : log[k].body.by = r
        BY <1>0 DEF Logged
      <4>2. pc'[r] # "failed"
        BY <3>1, <4>1 DEF Answered
      <4>. QED BY <3>1, <4>2
    <3>. QED BY <2>2, <2>3, <2>4, <3>1, <3>2
  <2>13. CASE Aside(r)
    <3>1. /\ log' = log /\ folded' = folded /\ pc[r] \in {"new", "deliver", "set", "history"}
          /\ pc'[r] \in {"deliver", "set", "write", "history", "done", "refused"}
      BY <2>13 DEF Aside, Unread
    <3>. QED BY <2>2, <2>3, <2>4, <3>1
  <2>. QED BY <1>3, <2>5, <2>6, <2>7, <2>8, <2>9, <2>10, <2>11, <2>12, <2>13 DEF Does
<1>. QED BY <1>0, <1>1, <1>2, <1>3, StepIs
-----------------------------------------------------------------------------
(* The theorems.                                                           *)

\* The inductive invariant holds of every reachable state.
THEOREM Invariant == Spec => []IInv
<1>1. Init => IInv
  BY InitHolds
<1>2. IInv /\ [Next]_vars => IInv'
  BY TypedStep, KeptStep, LoggedStep, BehindStep, ChosenStep, OneByOneStep, InLineStep DEF IInv
<1>. QED BY <1>1, <1>2, PTL DEF Spec

\* The variables keep their types; what is served, what the process was started
\* with and what a request has read are each the beginning of the log.
THEOREM TypeCorrect == Spec => []TypeOK
<1>1. IInv => TypeOK
  <2>. SUFFICES ASSUME IInv PROVE TypeOK
    OBVIOUS
  <2>1. log \in Seq(ToSet(log)) /\ Earlier(folded, log) /\ Earlier(started, folded)
    BY DEF IInv, Logged, IsLog, Behind
  <2>2. Len(log) \in Nat
    BY <2>1, LogIs
  <2>3. Earlier(started, log)
    BY <2>1, <2>2, EarlierTrans
  <2>4. IsPrefix(folded, log) /\ IsPrefix(started, log)
    BY <2>1, <2>3, EarlierIs
  <2>5. ASSUME NEW r \in Request PROVE IsPrefix(my[r].read, log)
    <3>1. CASE my[r].read = <<>>
      <4>1. Len(<<>>) <= Len(log) /\ SubSeq(<<>>, 1, Len(<<>>)) = SubSeq(log, 1, Len(<<>>))
        BY <2>1, <2>2
      <4>. QED BY <3>1, <4>1 DEF IsPrefix
    <3>2. CASE Earlier(my[r].read, log)
      BY <2>1, <3>2, EarlierIs
    <3>. QED BY <3>1, <3>2 DEF IInv, Behind
  <2>6. \A r \in Request : my[r].generation \in 0 .. Cardinality(Request)
                           /\ my[r].targets \subseteq Student
    BY DEF IInv, Typed, Locals
  <2>7. /\ store \in {"local", "firestore"} /\ given \in BOOLEAN
        /\ index \subseteq ToSet(log) /\ apart \subseteq Request
    BY DEF IInv, Kept
  <2>. QED BY <2>4, <2>5, <2>6, <2>7 DEF IInv, Typed, TypeOK
<1>. QED BY <1>1, Invariant, PTL

\* On the deployed store, whatever requests edit an observation at whatever time,
\* and on the file store as long as they come one at a time, whatever fails and
\* whenever the process is restarted: every version that was before or after an
\* edit is on its student's sheet in the fold of the log, live or in the chain of
\* one that is (_apply_edit only moves the version it replaces).
THEOREM VersionsAreKept == Spec => []NoVersionIsLost
<1>1. IInv => NoVersionIsLost
  <2>. SUFFICES ASSUME IInv, TakesOnce, NEW e \in EditsIn(log)
                PROVE  {e.body.before, e.body.after} \subseteq Versions(e.unit)
    BY DEF NoVersionIsLost
  <2>1. PICK j \in EditsAt(log) : log[j] = e
    BY DEF EditsIn, EditsAt, ToSet
  <2>2. WellEdited(log)
    BY DEF IInv, Logged
  <2>. QED BY <2>1, <2>2, VersionsKept DEF Versions
<1>. QED BY <1>1, Invariant, PTL

\* As long as requests come one at a time and none failed whose edit is in the
\* log, restarts or not, no criterion of a student has two live observations: an
\* edit supersedes the last version, since /edit looks it up in a page that is
\* folded anew after each write.
THEOREM OneVersionIsLive == Spec => []OneLiveVersion
<1>1. IInv => OneLiveVersion
  <2>. SUFFICES ASSUME IInv, ~overlapped, \A e \in EditsIn(log) : pc[e.body.by] # "failed",
                       NEW o \in Render(log).claims, NEW p \in Render(log).claims,
                       o.student = p.student, o.crit = p.crit
                PROVE  o = p
    BY DEF OneLiveVersion
  <2>1. Answered
    <3>1. \A k \in EditsAt(log) : log[k] \in EditsIn(log)
      BY DEF EditsIn, EditsAt, ToSet
    <3>. QED BY <3>1 DEF Answered
  <2>2. WellEdited(log) /\ Decided(log) /\ Linear(log)
    BY <2>1 DEF IInv, Logged, InLine, TakesOnce
  <2>3. Render(log).claims = Fold(log).current
    BY DEF Render
  <2>. QED BY <2>2, <2>3, OneLive
<1>. QED BY <1>1, Invariant, PTL

\* As long as requests come one at a time, no edit is refused for its identity,
\* whatever failed before: /edit counts the edits that are in the store, and their
\* generations are the numbers below.
THEOREM EditsAreFree == Spec => []EditsNeverCollide
<1>1. IInv => EditsNeverCollide
  <2>. SUFFICES ASSUME IInv, ~overlapped, NEW r \in Request, pc[r] = "create"
                PROVE  ~Collides(Held, Written(r))
    BY DEF EditsNeverCollide
  <2>1. Typed /\ Kept /\ Logged /\ Chosen /\ OneByOne /\ TakesOnce
    BY DEF IInv, TakesOnce
  <2>2. Fresh(ToSet(log), EditEvent(r))
    BY <2>1, NextIsFree, Free
  <2>3. Held \subseteq ToSet(log)
    BY <2>1 DEF Held, Kept
  <2>4. Fresh(Held, EditEvent(r))
    BY <2>2, <2>3 DEF Fresh
  <2>5. Written(r) = EditEvent(r)
    BY DEF Written
  <2>. QED BY <2>4, <2>5 DEF Collides
<1>. QED BY <1>1, Invariant, PTL

\* Once requests that came one at a time are over, and none of them failed, the
\* page served is the fold of the whole log: /edit and /ratify fold what they read
\* after the last of their writes.
THEOREM ServedIsCurrent == Spec => []ServedIsTheFold
<1>1. IInv => ServedIsTheFold
  <2>. SUFFICES ASSUME IInv, ~overlapped, Busy = {},
                       \A r \in Request : pc[r] \notin {"failed", "collided"}
                PROVE  folded = log
    BY DEF ServedIsTheFold, Quiet
  <2>1. \A r \in Request :
          pc[r] \notin {"write", "put", "reread", "assign", "failed", "collided"}
    BY DEF Busy, Waiting
  <2>. QED BY <2>1 DEF IInv, OneByOne
<1>. QED BY <1>1, Invariant, PTL

\* An appeal packet holds every version before or after an edit in the range of
\* events that it names, under the condition of VersionsAreKept; /replay shows a
\* beginning of that range, if the process was given its events at the start; and
\* the range is the whole log under the condition of ServedIsCurrent.
THEOREM PacketsAreComplete == Spec => []PacketIsComplete
<1>1. IInv /\ ServedIsTheFold => PacketIsComplete
  <2>. SUFFICES ASSUME IInv, ServedIsTheFold PROVE PacketIsComplete
    OBVIOUS
  <2>1. Earlier(folded, log) /\ Earlier(started, folded)
    BY DEF IInv, Behind
  <2>2. given => IsPrefix(Replayed, folded)
    <3>1. folded \in Seq(ToSet(folded))
      BY <2>1 DEF Earlier
    <3>. QED BY <2>1, <3>1, EarlierIs DEF Replayed
  <2>3. TakesOnce => WellEdited(folded)
    BY <2>1, EarlierEdits DEF IInv, Logged
  <2>4. ASSUME TakesOnce, NEW e \in EditsIn(folded)
        PROVE  {e.body.before, e.body.after} \subseteq AppealPacket(e.unit).versions
    <3>. DEFINE f == Fold(folded)
                sheet == Sheet(f, e.unit)
    <3>1. PICK j \in EditsAt(folded) : folded[j] = e
      BY DEF EditsIn, EditsAt, ToSet
    <3>2. /\ e.unit \in f.students
          /\ {e.body.before, e.body.after} \subseteq sheet.observations \union sheet.superseded
      BY <2>3, <2>4, <3>1, VersionsKept
    <3>3. Served.sheets = [s \in f.students |-> Sheet(f, s)]
      BY DEF Served, Render
    <3>. HIDE DEF f
    <3>4. Served.sheets[e.unit] = sheet
      BY <3>2, <3>3
    <3>. HIDE DEF sheet
    <3>. QED BY <3>2, <3>4 DEF AppealPacket
  <2>5. Quiet /\ (\A r \in Request : pc[r] \notin {"failed", "collided"}) =>
          \A s \in DOMAIN Served.sheets : AppealPacket(s).source_event_count = Len(log)
    <3>1. \A s : AppealPacket(s).source_event_count = Len(folded)
      BY DEF AppealPacket
    <3>. QED BY <3>1 DEF ServedIsTheFold
  <2>. QED BY <2>2, <2>4, <2>5 DEF PacketIsComplete
<1>. QED BY <1>1, Invariant, ServedIsCurrent, PTL

-----------------------------------------------------------------------------
(* The tables of the overview.                                             *)

\* What the cap escalates was drafted in a log if it was in an earlier one, and
\* the other way round: both are what the run left.
LEMMA EarlierCaps ==
  ASSUME NEW l, Sortable(l), NEW q, Earlier(q, l)
  PROVE  CapsHaveDrafts(q) <=> CapsHaveDrafts(l)
<1>1. /\ DOMAIN q = 1 .. Len(q) /\ DOMAIN l = 1 .. Len(l) /\ Len(q) \in Nat /\ Len(l) \in Nat
      /\ Len(q) <= Len(l) /\ \A i \in 1 .. Len(q) : q[i] = l[i]
      /\ \A i \in Len(q) + 1 .. Len(l) : ~Early(l[i])
  BY DEF Earlier, Cut, Sortable
<1>2. /\ Rank["ObservationDrafted"] < Rank["ObservationEditedByHuman"]
      /\ Rank["NeedsHumanReview"] < Rank["ObservationEditedByHuman"]
  BY DEF Rank
<1>3. ASSUME NEW i \in DOMAIN l, l[i].step \in {"ObservationDrafted", "NeedsHumanReview"}
      PROVE  i \in DOMAIN q /\ q[i] = l[i]
  <2>1. Early(l[i])
    BY <1>2, <1>3 DEF Early
  <2>. QED BY <1>1, <2>1
<1>4. \A i \in DOMAIN q : i \in DOMAIN l /\ q[i] = l[i]
  BY <1>1
<1>. QED BY <1>3, <1>4 DEF CapsHaveDrafts

\* What the cap escalated of the run had been drafted.
CapsEarned == CapsHaveDrafts(log)

\* The tables of the overview agree in what is served and in what the log says,
\* however edits overlap, if what the cap escalated in the run had been drafted:
\* the premise is what Review shows of a run whose answers could all be used.
THEOREM TablesAlwaysAgree ==
  ASSUME \A l \in RunLog : CapsHaveDrafts(l)
  PROVE  Spec => []EveryPageAddsUp
<1>1. Init => CapsEarned
  BY DEF Init, CapsEarned
<1>2. ASSUME IInv, CapsEarned, [Next]_vars, IInv' PROVE CapsEarned'
  <2>1. log \in Seq(ToSet(log)) /\ Sortable(log')
    BY <1>2 DEF IInv, Logged, IsLog
  <2>2. Earlier(log, log')
    BY <1>2, <2>1, EarlierSelf, LogKeeps DEF IInv
  <2>. QED BY <1>2, <2>1, <2>2, EarlierCaps DEF CapsEarned
<1>3. ASSUME IInv, CapsEarned PROVE EveryPageAddsUp
  <2>1. Sortable(log) /\ Earlier(folded, log)
    BY <1>3 DEF IInv, Logged, IsLog, Behind
  <2>2. Sortable(folded)
    BY <2>1, CutSame DEF Earlier
  <2>3. CapsHaveDrafts(folded)
    BY <1>3, <2>1, EarlierCaps DEF CapsEarned
  <2>4. AddsUp(Render(folded)) /\ AddsUp(Render(log))
    BY <1>3, <2>1, <2>2, <2>3, TablesAgree DEF CapsEarned
  <2>. QED BY <2>4 DEF EveryPageAddsUp, Served
<1>. QED BY <1>1, <1>2, <1>3, Invariant, PTL DEF Spec
=============================================================================
