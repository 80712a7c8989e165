--------------------------- MODULE Stores_proofs ----------------------------
(***************************************************************************)
(* What open_store() hands out keeps its promise, whichever store it is.   *)
(*                                                                         *)
(* The file-backed store first: with a sole writer it keeps one fact per   *)
(* identity, loses nothing silently, and implements EventLog, for any      *)
(* number of processes, threads, identities and contents, across kills and *)
(* failed writes, with the identities in doubt whose line a failed write   *)
(* left whole.  The argument: the index a process works with covers the    *)
(* file but for those, and is backed by it while the file can be read.       *)
(*                                                                         *)
(* Then the deployed store: an answer is given only for a document, and a  *)
(* document is never replaced.                                             *)
(*                                                                         *)
(* Then the opened store: the one that was not opened does nothing, so     *)
(* each step of the program is a step of one store and none of the other.  *)
(***************************************************************************)
EXTENDS Stores, FiniteSetTheorems, WellFoundedInduction, TLAPS

\* The index knows the identity, or an error was raised after its line was whole.
Knows(d, i) == d[i] # NoContent \/ i \in unnoted

\* It knows those of all the lines of the file.
Covers(d) == \A k \in DOMAIN lines : Knows(d, lines[k].id)

\* What the index knows stands in the file, if the file can be read.
Backed(d) ==
  Readable => \A i \in EventId :
                d[i] # NoContent => [id |-> i, content |-> d[i]] \in Recorded

Writing(t) == pc[t] \in {"check", "append", "record"}

\* One process, one create() at a time.
Alone ==
  /\ \A p, q \in up : p = q
  /\ \A t, u \in Thread : pc[t] # Idle /\ pc[u] # Idle => t = u
  /\ \A t \in Thread : pc[t] # Idle => Owner[t] \in up /\ arg[t] \in Fact

\* Between calls the published index mirrors the file.
Mirrored ==
  \A p \in Process :
    shared[p] # NoThread =>
      /\ p \in up
      /\ Backed(dict[shared[p]])
      /\ (\A t \in Thread : pc[t] # "record") => Covers(dict[shared[p]])

\* Where create() is, what its index says of the file.
Progress ==
  \A t \in Thread :
    /\ pc[t] \in {"load", "publish"} => shared[Owner[t]] = NoThread
    /\ pc[t] = "publish" => Covers(dict[t]) /\ Backed(dict[t])
    /\ Writing(t) => held[t] \in Thread /\ held[t] = shared[Owner[t]]
    /\ pc[t] = "append" => dict[held[t]][arg[t].id] = NoContent
    /\ pc[t] = "record" =>
         /\ Readable => arg[t] \in Recorded
         /\ \A k \in DOMAIN lines :
              lines[k].id # arg[t].id => Knows(dict[held[t]], lines[k].id)

IInv == TypeOK /\ OneFactPerId /\ ReadableLogIsComplete /\ Alone /\ Mirrored /\ Progress
-----------------------------------------------------------------------------
(* Facts about the file.                                                   *)

\* Appending a line adds one fact and keeps the others.
LEMMA RecordedAppend ==
  ASSUME NEW ls \in Seq(Fact), NEW e \in Fact
  PROVE  /\ Append(ls, e) \in Seq(Fact)
         /\ DOMAIN Append(ls, e) = DOMAIN ls \union {Len(ls) + 1}
         /\ Len(ls) + 1 \notin DOMAIN ls
         /\ \A k \in DOMAIN ls : Append(ls, e)[k] = ls[k]
         /\ Append(ls, e)[Len(ls) + 1] = e
  OBVIOUS

\* Of some lines one is the last.
LEMMA LastIsThere ==
  ASSUME NEW n \in Nat, NEW S, S \subseteq 1 .. n, S # {}
  PROVE  Last(S) \in S
<1>. DEFINE U == {k .. n : k \in S}
<1>1. U \subseteq FiniteSubsetsOf(Nat)
  <2>1. \A k \in 1 .. n : IsFiniteSet(k .. n) /\ k .. n \subseteq Nat
    BY FS_Interval
  <2>. QED BY <2>1 DEF FiniteSubsetsOf
<1>2. IsWellFoundedOn(StrictSubsetOrdering(Nat), FiniteSubsetsOf(Nat))
  BY FS_StrictSubsetOrderingWellFounded
<1>3. U # {}
  OBVIOUS
<1>4. PICK u \in U : \A v \in U : ~ (<<v, u>> \in StrictSubsetOrdering(Nat))
  <2>. HIDE DEF U
  <2>. QED BY <1>1, <1>2, <1>3, WFMin
<1>5. PICK k \in S : u = k .. n
  OBVIOUS
<1>6. ASSUME NEW m \in S, k < m PROVE FALSE
  <2>0. k \in 1 .. n /\ m \in 1 .. n
    OBVIOUS
  <2>1. m .. n \in U /\ m .. n # k .. n /\ m .. n \subseteq k .. n /\ k .. n \subseteq Nat
    BY <1>6, <2>0
  <2>2. <<m .. n, k .. n>> \in StrictSubsetOrdering(Nat)
    BY <2>1 DEF StrictSubsetOrdering
  <2>. QED BY <1>4, <1>5, <2>1, <2>2
<1>7. \A j \in S : j <= k
  BY <1>6
<1>. QED BY <1>7 DEF Last

\* An index loaded from a file knows every identity in it and nothing else.
LEMMA IndexOfFile ==
  ASSUME NEW ls \in Seq(Fact)
  PROVE  /\ IndexOf(ls) \in Index
         /\ \A k \in DOMAIN ls : IndexOf(ls)[ls[k].id] # NoContent
         /\ \A i \in EventId : IndexOf(ls)[i] # NoContent =>
              \E k \in DOMAIN ls : ls[k] = [id |-> i, content |-> IndexOf(ls)[i]]
<1>1. \A k \in DOMAIN ls : ls[k] \in Fact /\ k \in 1 .. Len(ls)
  OBVIOUS
<1>2. ASSUME NEW i \in EventId, LinesWith(ls, i) # {}
      PROVE  /\ Last(LinesWith(ls, i)) \in DOMAIN ls
             /\ ls[Last(LinesWith(ls, i))].id = i
  <2>1. LinesWith(ls, i) \subseteq 1 .. Len(ls) /\ Len(ls) \in Nat
    BY <1>1 DEF LinesWith
  <2>2. Last(LinesWith(ls, i)) \in LinesWith(ls, i)
    BY <1>2, <2>1, LastIsThere
  <2>. QED BY <2>2 DEF LinesWith
<1>3. ASSUME NEW i \in EventId
      PROVE  \/ LinesWith(ls, i) = {} /\ IndexOf(ls)[i] = NoContent
             \/ /\ LinesWith(ls, i) # {}
                /\ \E k \in DOMAIN ls : ls[k].id = i /\ IndexOf(ls)[i] = ls[k].content
  BY <1>2 DEF IndexOf
<1>4. IndexOf(ls) \in Index
  BY <1>1, <1>3 DEF IndexOf, Index, Fact
<1>5. ASSUME NEW k \in DOMAIN ls
      PROVE  IndexOf(ls)[ls[k].id] # NoContent
  <2>1. ls[k].id \in EventId /\ LinesWith(ls, ls[k].id) # {}
    BY <1>1 DEF Fact, LinesWith
  <2>. QED BY <1>1, <1>3, <2>1, ContentAssumption DEF Fact
<1>6. ASSUME NEW i \in EventId, IndexOf(ls)[i] # NoContent
      PROVE  \E k \in DOMAIN ls : ls[k] = [id |-> i, content |-> IndexOf(ls)[i]]
  BY <1>1, <1>3, <1>6 DEF Fact
<1>. QED BY <1>4, <1>5, <1>6
-----------------------------------------------------------------------------
(* The invariant holds initially and is kept by every action.              *)

\* No process, an empty file.
LEMMA InitIInv == Init => IInv
<1>. SUFFICES ASSUME Init PROVE IInv
  OBVIOUS
<1>1. TypeOK
  <2>1. lines \in Seq(Fact)
    BY DEF Init
  <2>2. garbled \in BOOLEAN /\ tail \in {"none", "part", "whole"}
    BY DEF Init
  <2>3. /\ up \subseteq Process /\ confirmed \subseteq Fact /\ unnoted \subseteq EventId
        /\ shared \in [Process -> Thread \union {NoThread}]
        /\ held \in [Thread -> Thread \union {NoThread}]
        /\ arg \in [Thread -> Fact \union {NoFact}]
    BY DEF Init
  <2>4. dict \in [Thread -> Index] /\ pc \in [Thread -> Step]
    BY DEF Init, Index, EmptyIndex, Step, Idle
  <2>. QED BY <2>1, <2>2, <2>3, <2>4 DEF TypeOK
<1>2. OneFactPerId /\ ReadableLogIsComplete
  BY DEF Init, OneFactPerId, ReadableLogIsComplete
<1>3. Alone /\ Mirrored /\ Progress
  BY OwnerAssumption DEF Init, Alone, Mirrored, Progress, Writing, Idle
<1>. QED BY <1>1, <1>2, <1>3 DEF IInv

\* A process opens the store.
LEMMA StartStep ==
  ASSUME SoleWriter, IInv, NEW p \in Process, Start(p)
  PROVE  IInv'
<1>1. TypeOK' /\ OneFactPerId' /\ ReadableLogIsComplete'
  BY DEF IInv, TypeOK, OneFactPerId, ReadableLogIsComplete, Readable, Recorded, Start
<1>2. Alone'
  BY OwnerAssumption DEF IInv, TypeOK, Alone, Start
<1>3. Mirrored'
  BY ThreadAssumption DEF IInv, TypeOK, Mirrored, Covers, Knows, Backed, Readable, Recorded, Start
<1>4. Progress'
  BY OwnerAssumption
  DEF IInv, TypeOK, Alone, Progress, Writing, Covers, Knows, Backed, Readable, Recorded, Start,
      Idle
<1>. QED BY <1>1, <1>2, <1>3, <1>4 DEF IInv

\* A caller hands in an event.
LEMMA CallStep ==
  ASSUME SoleWriter, IInv, NEW t \in Thread, NEW e \in Fact, Call(t, e)
  PROVE  IInv'
<1>1. TypeOK' /\ OneFactPerId' /\ ReadableLogIsComplete'
  BY DEF IInv, TypeOK, OneFactPerId, ReadableLogIsComplete, Readable, Recorded, Call, Step
<1>2. Alone'
  BY DEF IInv, TypeOK, Alone, Call, Idle
<1>3. Mirrored'
  BY DEF IInv, TypeOK, Mirrored, Covers, Knows, Backed, Readable, Recorded, Call, Idle
<1>4. Progress'
  BY
    DEF IInv, TypeOK, Alone, Progress, Writing, Covers, Knows, Backed, Readable, Recorded, Call,
        Idle
<1>. QED BY <1>1, <1>2, <1>3, <1>4 DEF IInv

\* The process looks for its index.
LEMMA LookupStep ==
  ASSUME SoleWriter, IInv, NEW t \in Thread, Lookup(t)
  PROVE  IInv'
<1>1. TypeOK' /\ OneFactPerId' /\ ReadableLogIsComplete'
  <2>1. TypeOK'
    BY OwnerAssumption DEF IInv, TypeOK, Lookup, Step
  <2>2. UNCHANGED <<lines, tail, garbled, confirmed, unnoted>>
    BY DEF Lookup
  <2>. QED
    BY <2>1, <2>2 DEF IInv, OneFactPerId, ReadableLogIsComplete, Readable, Recorded
<1>2. Alone'
  BY DEF IInv, TypeOK, Alone, Lookup, Idle, Step
<1>3. Mirrored'
  BY DEF IInv, TypeOK, Mirrored, Covers, Knows, Backed, Readable, Recorded, Lookup
<1>4. Progress'
  BY OwnerAssumption
  DEF IInv, TypeOK, Alone, Progress, Writing, Covers, Knows, Backed, Readable, Recorded, Lookup,
      Idle
<1>. QED BY <1>1, <1>2, <1>3, <1>4 DEF IInv

\* The new index mirrors the file; nobody else works with the dict it replaces.
LEMMA LoadStep ==
  ASSUME SoleWriter, IInv, NEW t \in Thread, Load(t)
  PROVE  IInv'
<1>. DEFINE d == IndexOf(lines)
<1>1. d \in Index /\ Covers(d) /\ Backed(d)
  <2>1. /\ IndexOf(lines) \in Index
        /\ \A k \in DOMAIN lines : IndexOf(lines)[lines[k].id] # NoContent
        /\ \A i \in EventId : IndexOf(lines)[i] # NoContent =>
             \E k \in DOMAIN lines : lines[k] = [id |-> i, content |-> IndexOf(lines)[i]]
    BY IndexOfFile DEF IInv, TypeOK
  <2>. QED BY <2>1 DEF Covers, Knows, Backed, Recorded
<1>. HIDE DEF d
<1>2. dict' = [dict EXCEPT ![t] = d]
  BY DEF Load, d
<1>3. TypeOK' /\ OneFactPerId' /\ ReadableLogIsComplete'
  BY <1>1, <1>2
  DEF IInv, TypeOK, OneFactPerId, ReadableLogIsComplete, Readable, Recorded, Load, Step
<1>4. Alone'
  BY DEF IInv, TypeOK, Alone, Load, Idle
<1>5. \A p \in Process : shared[p] = NoThread
  BY OwnerAssumption
  DEF IInv, TypeOK, Alone, Mirrored, Progress, Load, Idle
<1>6. Mirrored'
  BY <1>5 DEF Mirrored, Load
<1>7. Progress'
  BY <1>1, <1>2
  DEF IInv, TypeOK, Alone, Progress, Writing, Covers, Knows, Backed, Readable, Recorded, Load, Idle
<1>. QED BY <1>3, <1>4, <1>6, <1>7 DEF IInv

LEMMA LoadRaisesStep ==
  ASSUME SoleWriter, IInv, NEW t \in Thread, LoadRaises(t)
  PROVE  IInv'
<1>1. TypeOK' /\ OneFactPerId' /\ ReadableLogIsComplete'
  BY DEF IInv, TypeOK, OneFactPerId, ReadableLogIsComplete, Readable, Recorded, LoadRaises,
         Return, Step
<1>2. Alone'
  BY DEF IInv, TypeOK, Alone, LoadRaises, Return, Idle
<1>3. Mirrored'
  BY
    DEF IInv, TypeOK, Mirrored, Covers, Knows, Backed, Readable, Recorded, LoadRaises, Return,
        Idle
<1>4. Progress'
  BY DEF IInv, TypeOK, Alone, Progress, Writing, Covers, Knows, Backed, Readable, Recorded,
         LoadRaises, Return, Idle
<1>. QED BY <1>1, <1>2, <1>3, <1>4 DEF IInv

LEMMA PublishStep ==
  ASSUME SoleWriter, IInv, NEW t \in Thread, Publish(t)
  PROVE  IInv'
<1>1. TypeOK' /\ OneFactPerId' /\ ReadableLogIsComplete'
  <2>1. TypeOK'
    BY OwnerAssumption DEF IInv, TypeOK, Publish, Step
  <2>2. UNCHANGED <<lines, tail, garbled, confirmed, unnoted>>
    BY DEF Publish
  <2>. QED
    BY <2>1, <2>2 DEF IInv, OneFactPerId, ReadableLogIsComplete, Readable, Recorded
<1>2. Alone'
  BY DEF IInv, TypeOK, Alone, Publish, Idle
<1>3. Mirrored'
  BY OwnerAssumption
  DEF IInv, TypeOK, Alone, Mirrored, Progress, Covers, Knows, Backed, Readable, Recorded,
      Publish, Idle
<1>4. Progress'
  BY OwnerAssumption, ThreadAssumption
  DEF IInv, TypeOK, Alone, Progress, Writing, Covers, Knows, Backed, Readable, Recorded,
      Publish, Idle
<1>. QED BY <1>1, <1>2, <1>3, <1>4 DEF IInv

\* While a create() is between its check and its return, its index is the one
\* its process has published, and no other create() is under way.
LEMMA IndexInHand ==
  ASSUME SoleWriter, IInv, NEW t \in Thread, pc[t] \in {"check", "append"}
  PROVE  /\ held[t] \in Thread
         /\ held[t] = shared[Owner[t]]
         /\ Owner[t] \in Process
         /\ arg[t] \in Fact
         /\ \A u \in Thread : u # t => pc[u] = Idle
         /\ Covers(dict[held[t]])
         /\ Backed(dict[held[t]])
  BY OwnerAssumption, ThreadAssumption
  DEF IInv, TypeOK, Alone, Mirrored, Progress, Writing, Idle

LEMMA CheckSameStep ==
  ASSUME SoleWriter, IInv, NEW t \in Thread, CheckSame(t)
  PROVE  IInv'
<1>1. arg[t] \in Fact /\ (Readable => arg[t] \in Recorded)
  <2>1. arg[t] \in Fact /\ Backed(dict[held[t]])
    BY IndexInHand DEF CheckSame
  <2>2. arg[t].id \in EventId /\ arg[t] = [id |-> arg[t].id, content |-> arg[t].content]
    BY <2>1 DEF Fact
  <2>. QED BY <2>1, <2>2 DEF Backed, CheckSame, Known, Taken
<1>2. TypeOK' /\ OneFactPerId' /\ ReadableLogIsComplete'
  BY <1>1
  DEF IInv, TypeOK, OneFactPerId, ReadableLogIsComplete, Readable, Recorded, CheckSame,
      Return, Step
<1>3. Alone'
  BY DEF IInv, TypeOK, Alone, CheckSame, Return, Idle
<1>4. Mirrored'
  BY DEF IInv, TypeOK, Mirrored, Covers, Knows, Backed, Readable, Recorded, CheckSame, Return, Idle
<1>5. Progress'
  BY DEF IInv, TypeOK, Alone, Progress, Writing, Covers, Knows, Backed, Readable, Recorded,
         CheckSame, Return, Idle
<1>. QED BY <1>2, <1>3, <1>4, <1>5 DEF IInv

LEMMA CheckCollidesStep ==
  ASSUME SoleWriter, IInv, NEW t \in Thread, CheckCollides(t)
  PROVE  IInv'
<1>1. TypeOK' /\ OneFactPerId' /\ ReadableLogIsComplete'
  BY DEF IInv, TypeOK, OneFactPerId, ReadableLogIsComplete, Readable, Recorded,
         CheckCollides, Return, Step
<1>2. Alone'
  BY DEF IInv, TypeOK, Alone, CheckCollides, Return, Idle
<1>3. Mirrored'
  BY
    DEF IInv, TypeOK, Mirrored, Covers, Knows, Backed, Readable, Recorded, CheckCollides,
        Return, Idle
<1>4. Progress'
  BY DEF IInv, TypeOK, Alone, Progress, Writing, Covers, Knows, Backed, Readable, Recorded,
         CheckCollides, Return, Idle
<1>. QED BY <1>1, <1>2, <1>3, <1>4 DEF IInv

LEMMA CheckFreeStep ==
  ASSUME SoleWriter, IInv, NEW t \in Thread, CheckFree(t)
  PROVE  IInv'
<1>1. TypeOK' /\ OneFactPerId' /\ ReadableLogIsComplete'
  BY DEF IInv, TypeOK, OneFactPerId, ReadableLogIsComplete, Readable, Recorded,
         CheckFree, Step
<1>2. Alone'
  BY DEF IInv, TypeOK, Alone, CheckFree, Idle
<1>3. Mirrored'
  BY DEF IInv, TypeOK, Mirrored, Covers, Knows, Backed, Readable, Recorded, CheckFree
<1>4. Progress'
  BY DEF IInv, TypeOK, Alone, Progress, Writing, Covers, Knows, Backed, Readable, Recorded,
         CheckFree, Taken, Known, Idle
<1>. QED BY <1>1, <1>2, <1>3, <1>4 DEF IInv

\* Where create() appends, the file gains one line, under an identity that is
\* free or in doubt.
LEMMA GrownFile ==
  ASSUME SoleWriter, IInv, NEW t \in Thread, pc[t] = "append",
         lines' = Append(lines, arg[t])
  PROVE  /\ lines' \in Seq(Fact)
         /\ DOMAIN lines' = DOMAIN lines \union {Len(lines) + 1}
         /\ Len(lines) + 1 \notin DOMAIN lines
         /\ \A k \in DOMAIN lines : lines'[k] = lines[k]
         /\ lines'[Len(lines) + 1] = arg[t]
         /\ Recorded' = Recorded \union {arg[t]}
         /\ \A k \in DOMAIN lines : lines[k].id = arg[t].id => arg[t].id \in unnoted
<1>1. arg[t] \in Fact /\ Covers(dict[held[t]]) /\ dict[held[t]][arg[t].id] = NoContent
  BY IndexInHand DEF IInv, Progress
<1>2. /\ lines' \in Seq(Fact)
      /\ DOMAIN lines' = DOMAIN lines \union {Len(lines) + 1}
      /\ Len(lines) + 1 \notin DOMAIN lines
      /\ \A k \in DOMAIN lines : lines'[k] = lines[k]
      /\ lines'[Len(lines) + 1] = arg[t]
  BY <1>1, RecordedAppend DEF IInv, TypeOK
<1>3. Recorded' = Recorded \union {arg[t]}
  BY <1>2 DEF Recorded
<1>4. \A k \in DOMAIN lines : lines[k].id = arg[t].id => arg[t].id \in unnoted
  BY <1>1 DEF Covers, Knows
<1>. QED BY <1>2, <1>3, <1>4

\* Whatever a write that does not return leaves, a file that could not be read
\* cannot be read afterwards, and at most the event's line is new.
LEMMA CutOffFile ==
  ASSUME SoleWriter, IInv, NEW t \in Thread, pc[t] = "append", CutOff(t)
  PROVE  /\ tail' \in {"none", "part", "whole"} /\ garbled' \in BOOLEAN
         /\ Readable' => Readable
         /\ lines' = lines \/ lines' = Append(lines, arg[t])
<1>0. tail \in {"none", "part", "whole"} /\ garbled \in BOOLEAN
  BY DEF IInv, TypeOK
<1>1. CASE UNCHANGED <<lines, tail, garbled>>
  BY <1>0, <1>1 DEF Readable
<1>2. CASE tail' = "part" /\ UNCHANGED <<lines, garbled>>
  BY <1>0, <1>2 DEF Readable
<1>3. CASE PutWhole(t) /\ tail' \in {"none", "whole"}
  <2>1. CASE Parses(t)
    BY <1>0, <1>3, <2>1 DEF Readable, PutWhole, Parses
  <2>2. CASE ~Parses(t)
    BY <1>0, <1>3, <2>2 DEF Readable, PutWhole
  <2>. QED BY <2>1, <2>2
<1>. QED BY <1>1, <1>2, <1>3 DEF CutOff

\* The line can be parsed: it is new, or in doubt.
LEMMA AppendCleanStep ==
  ASSUME SoleWriter, IInv, NEW t \in Thread, AppendLine(t), Parses(t)
  PROVE  IInv'
<1>1. /\ held[t] \in Thread /\ held[t] = shared[Owner[t]] /\ Owner[t] \in Process
      /\ arg[t] \in Fact
      /\ \A u \in Thread : u # t => pc[u] = Idle
      /\ Covers(dict[held[t]])
      /\ Backed(dict[held[t]])
  BY IndexInHand DEF AppendLine
<1>2. /\ lines' = Append(lines, arg[t])
      /\ tail' = tail /\ garbled' = garbled
      /\ pc' = [pc EXCEPT ![t] = "record"]
      /\ UNCHANGED <<up, shared, dict, held, arg, confirmed, unnoted>>
  BY DEF AppendLine, PutWhole, Parses
<1>3. /\ lines' \in Seq(Fact)
      /\ DOMAIN lines' = DOMAIN lines \union {Len(lines) + 1}
      /\ Len(lines) + 1 \notin DOMAIN lines
      /\ \A k \in DOMAIN lines : lines'[k] = lines[k]
      /\ lines'[Len(lines) + 1] = arg[t]
      /\ Recorded' = Recorded \union {arg[t]}
      /\ \A k \in DOMAIN lines : lines[k].id = arg[t].id => arg[t].id \in unnoted
  BY <1>2, GrownFile DEF AppendLine
<1>6. TypeOK'
  BY <1>2, <1>3 DEF IInv, TypeOK, Step
<1>7. OneFactPerId'
  BY <1>2, <1>3 DEF IInv, OneFactPerId
<1>8. ReadableLogIsComplete'
  BY <1>2, <1>3 DEF IInv, ReadableLogIsComplete, Readable
<1>9. Alone'
  BY <1>1, <1>2 DEF IInv, TypeOK, Alone, AppendLine, Idle
<1>10. \A i \in Thread : Backed(dict[i]) => Backed(dict[i])'
  BY <1>2, <1>3 DEF Backed, Readable
<1>11. Mirrored'
  <2>. SUFFICES ASSUME NEW p \in Process, shared[p] # NoThread
                PROVE  p \in up /\ Backed(dict[shared[p]])' /\ pc'[t] = "record"
    BY <1>2 DEF Mirrored
  <2>. QED BY <1>2, <1>10 DEF IInv, TypeOK, Mirrored
<1>12. Progress'
  <2>. SUFFICES ASSUME NEW u \in Thread
                PROVE  /\ pc'[u] \notin {"load", "publish", "append"}
                       /\ Writing(u)' => u = t
                       /\ pc'[t] = "record"
                       /\ arg[t] \in Recorded'
                       /\ \A k \in DOMAIN lines' :
                            lines'[k].id # arg[t].id => Knows(dict[held[t]], lines'[k].id)
    BY <1>1, <1>2 DEF Progress, Writing, Knows
  <2>1. pc'[t] = "record" /\ (u # t => pc'[u] = Idle)
    BY <1>1, <1>2 DEF IInv, TypeOK
  <2>2. \A k \in DOMAIN lines' :
          lines'[k].id # arg[t].id => Knows(dict[held[t]], lines'[k].id)
    BY <1>1, <1>3 DEF Covers, Knows
  <2>. QED BY <2>1, <2>2, <1>3 DEF Writing, Idle
<1>. QED BY <1>6, <1>7, <1>8, <1>9, <1>11, <1>12 DEF IInv

\* The line lands on an unfinished one or is taken apart: the event is swallowed,
\* and from here on no reader can open the file.
LEMMA AppendTornStep ==
  ASSUME SoleWriter, IInv, NEW t \in Thread, AppendLine(t), ~Parses(t)
  PROVE  IInv'
<1>1. /\ held[t] \in Thread /\ held[t] = shared[Owner[t]]
      /\ \A u \in Thread : u # t => pc[u] = Idle
      /\ Covers(dict[held[t]])
  BY IndexInHand DEF AppendLine
<1>2. /\ tail' = "none" /\ garbled' = TRUE /\ ~Readable'
      /\ pc' = [pc EXCEPT ![t] = "record"]
      /\ UNCHANGED <<lines, up, shared, dict, held, arg, confirmed, unnoted>>
  BY DEF AppendLine, PutWhole, Readable
<1>3. TypeOK' /\ OneFactPerId' /\ ReadableLogIsComplete'
  BY <1>2 DEF IInv, TypeOK, OneFactPerId, ReadableLogIsComplete, Step
<1>4. Alone'
  BY <1>1, <1>2 DEF IInv, TypeOK, Alone, AppendLine, Idle
<1>5. Mirrored'
  BY <1>2 DEF IInv, TypeOK, Mirrored, Backed
<1>6. Progress'
  BY <1>1, <1>2 DEF IInv, TypeOK, Progress, Writing, Covers, Knows, Backed, Idle
<1>. QED BY <1>3, <1>4, <1>5, <1>6 DEF IInv

\* An error in the write: what it left whole is in doubt from here on.
LEMMA AppendFailsStep ==
  ASSUME SoleWriter, IInv, NEW t \in Thread, AppendFails(t)
  PROVE  IInv'
<1>1. /\ pc' = [pc EXCEPT ![t] = Idle]
      /\ arg' = [arg EXCEPT ![t] = NoFact]
      /\ held' = [held EXCEPT ![t] = NoThread]
      /\ unnoted' = IF lines' = lines THEN unnoted ELSE unnoted \union {arg[t].id}
      /\ UNCHANGED <<up, shared, dict, confirmed>>
  BY DEF AppendFails, Return
<1>2. /\ tail' \in {"none", "part", "whole"} /\ garbled' \in BOOLEAN
      /\ Readable' => Readable
      /\ lines' = lines \/ lines' = Append(lines, arg[t])
  BY CutOffFile DEF AppendFails
<1>3. /\ arg[t] \in Fact /\ \A u \in Thread : u # t => pc[u] = Idle
      /\ pc[t] = "append"
  BY IndexInHand DEF AppendFails
<1>4. /\ lines' \in Seq(Fact) /\ unnoted \subseteq unnoted' /\ unnoted' \subseteq EventId
      /\ \A f \in Recorded : f \in Recorded'
      /\ \A k \in DOMAIN lines' : \/ k \in DOMAIN lines /\ lines'[k] = lines[k]
                                 \/ lines'[k].id \in unnoted'
      /\ OneFactPerId'
  <2>1. CASE lines' = lines
    BY <1>1, <2>1 DEF IInv, TypeOK, OneFactPerId, Recorded
  <2>2. CASE lines' # lines
    <3>1. lines' = Append(lines, arg[t]) /\ unnoted' = unnoted \union {arg[t].id}
      BY <1>1, <1>2, <2>2
    <3>2. arg[t].id \in EventId
      BY <1>3 DEF Fact
    <3>3. /\ lines' \in Seq(Fact)
          /\ DOMAIN lines' = DOMAIN lines \union {Len(lines) + 1}
          /\ Len(lines) + 1 \notin DOMAIN lines
          /\ \A k \in DOMAIN lines : lines'[k] = lines[k]
          /\ lines'[Len(lines) + 1] = arg[t]
          /\ Recorded' = Recorded \union {arg[t]}
      BY <1>3, <3>1, GrownFile
    <3>. QED BY <3>1, <3>2, <3>3 DEF IInv, TypeOK, OneFactPerId
  <2>. QED BY <2>1, <2>2
<1>5. TypeOK' /\ ReadableLogIsComplete'
  BY <1>1, <1>2, <1>4 DEF IInv, TypeOK, ReadableLogIsComplete, Step
<1>6. Alone'
  BY <1>1 DEF IInv, TypeOK, Alone, Idle
<1>7. /\ \A i \in Thread : Backed(dict[i]) => Backed(dict[i])'
      /\ \A i \in Thread : Covers(dict[i]) => Covers(dict[i])'
  <2>1. \A i \in Thread : Backed(dict[i]) => Backed(dict[i])'
    BY <1>1, <1>2, <1>4 DEF Backed
  <2>2. \A i \in Thread : Covers(dict[i]) => Covers(dict[i])'
    BY <1>1, <1>4 DEF Covers, Knows
  <2>. QED BY <2>1, <2>2
<1>8. Mirrored'
  BY <1>1, <1>3, <1>7 DEF IInv, TypeOK, Mirrored, Idle
<1>9. Progress'
  BY <1>1, <1>3 DEF IInv, TypeOK, Progress, Writing, Idle
<1>. QED BY <1>4, <1>5, <1>6, <1>8, <1>9 DEF IInv

LEMMA RecordStep ==
  ASSUME SoleWriter, IInv, NEW t \in Thread, Record(t)
  PROVE  IInv'
<1>1. /\ held[t] \in Thread /\ held[t] = shared[Owner[t]] /\ Owner[t] \in Process
      /\ arg[t] \in Fact /\ arg[t].id \in EventId /\ arg[t].content \in Content
      /\ arg[t] = [id |-> arg[t].id, content |-> arg[t].content]
      /\ \A u \in Thread : u # t => pc[u] = Idle
      /\ Readable => arg[t] \in Recorded
      /\ dict[held[t]] \in Index
      /\ Backed(dict[held[t]])
      /\ \A k \in DOMAIN lines :
           lines[k].id # arg[t].id => Knows(dict[held[t]], lines[k].id)
  <2>1. arg[t] \in Fact /\ Owner[t] \in Process
    BY OwnerAssumption DEF IInv, Alone, Record, Idle
  <2>2. arg[t].id \in EventId /\ arg[t].content \in Content
        /\ arg[t] = [id |-> arg[t].id, content |-> arg[t].content]
    BY <2>1 DEF Fact
  <2>3. held[t] \in Thread /\ held[t] = shared[Owner[t]] /\ dict[held[t]] \in Index
    BY DEF IInv, TypeOK, Progress, Writing, Record
  <2>4. Backed(dict[held[t]])
    BY <2>1, <2>3, ThreadAssumption DEF IInv, Mirrored
  <2>. QED BY <2>1, <2>2, <2>3, <2>4 DEF IInv, TypeOK, Alone, Progress, Record, Idle
<1>. DEFINE d == [dict[held[t]] EXCEPT ![arg[t].id] = arg[t].content]
<1>2. /\ dict' = [dict EXCEPT ![held[t]] = d]
      /\ confirmed' = confirmed \union {arg[t]}
      /\ pc' = [pc EXCEPT ![t] = Idle]
      /\ arg' = [arg EXCEPT ![t] = NoFact]
      /\ held' = [held EXCEPT ![t] = NoThread]
      /\ UNCHANGED <<lines, tail, garbled, up, shared, unnoted>>
  BY DEF Record, Return, NoteWritten
<1>3. d \in Index /\ Covers(d) /\ Backed(d)
  <2>1. d \in Index
    BY <1>1 DEF Index
  <2>2. \A i \in EventId : d[i] = IF i = arg[t].id THEN arg[t].content ELSE dict[held[t]][i]
    BY <1>1 DEF Index
  <2>3. \A k \in DOMAIN lines : lines[k] \in Fact
    BY DEF IInv, TypeOK
  <2>4. Covers(d)
    BY <1>1, <2>2, <2>3, ContentAssumption DEF Covers, Knows, Fact
  <2>5. Backed(d)
    BY <1>1, <2>2 DEF Backed
  <2>. QED BY <2>1, <2>4, <2>5
<1>. HIDE DEF d
<1>4. TypeOK' /\ OneFactPerId' /\ ReadableLogIsComplete'
  BY <1>1, <1>2, <1>3
  DEF IInv, TypeOK, OneFactPerId, ReadableLogIsComplete, Readable, Recorded, Step
<1>5. Alone'
  BY <1>2 DEF IInv, TypeOK, Alone, Idle
<1>6. \A p \in Process : shared[p] # NoThread => p = Owner[t] /\ p \in up
  BY <1>1 DEF IInv, Alone, Mirrored, Record, Idle
<1>7. dict'[held[t]] = d /\ shared' = shared
  BY <1>1, <1>2 DEF IInv, TypeOK
<1>8. Mirrored'
  BY <1>1, <1>2, <1>3, <1>6, <1>7
  DEF Mirrored, Covers, Knows, Backed, Readable, Recorded
<1>9. Progress'
  BY <1>1, <1>2 DEF IInv, TypeOK, Progress, Writing, Idle
<1>. QED BY <1>4, <1>5, <1>8, <1>9 DEF IInv

\* A kill, wherever the process is.
LEMMA CrashStep ==
  ASSUME SoleWriter, IInv, NEW p \in Process, Crash(p)
  PROVE  IInv'
<1>1. /\ tail' \in {"none", "part", "whole"} /\ garbled' \in BOOLEAN
      /\ Readable' => Readable
      /\ UNCHANGED <<confirmed, unnoted>>
      /\ \/ lines' = lines
         \/ \E t \in Thread : pc[t] = "append" /\ lines' = Append(lines, arg[t])
  <2>1. CASE UNCHANGED <<lines, tail, garbled>>
    BY <2>1 DEF Crash, Readable, IInv, TypeOK
  <2>2. CASE \E t \in Thread : Owner[t] = p /\ pc[t] = "append" /\ CutOff(t)
    BY <2>2, CutOffFile DEF Crash
  <2>. QED BY <2>1, <2>2 DEF Crash
<1>2. up' = {} /\ (\A t \in Thread : pc'[t] = Idle)
  BY OwnerAssumption DEF IInv, TypeOK, Alone, Crash
<1>3. lines' \in Seq(Fact) /\ OneFactPerId' /\ (\A f \in Recorded : f \in Recorded')
  <2>1. CASE lines' = lines
    BY <1>1, <2>1 DEF IInv, TypeOK, OneFactPerId, Recorded
  <2>2. CASE lines' # lines
    <3>. PICK t \in Thread : pc[t] = "append" /\ lines' = Append(lines, arg[t])
      BY <1>1, <2>2
    <3>1. /\ lines' \in Seq(Fact)
          /\ DOMAIN lines' = DOMAIN lines \union {Len(lines) + 1}
          /\ Len(lines) + 1 \notin DOMAIN lines
          /\ \A k \in DOMAIN lines : lines'[k] = lines[k]
          /\ lines'[Len(lines) + 1] = arg[t]
          /\ Recorded' = Recorded \union {arg[t]}
          /\ \A k \in DOMAIN lines : lines[k].id = arg[t].id => arg[t].id \in unnoted
      BY GrownFile
    <3>. QED BY <1>1, <3>1 DEF IInv, OneFactPerId
  <2>. QED BY <2>1, <2>2
<1>4. TypeOK'
  BY <1>1, <1>3 DEF IInv, TypeOK, Crash, Index, EmptyIndex, Step
<1>5. ReadableLogIsComplete'
  BY <1>1, <1>3 DEF IInv, ReadableLogIsComplete
<1>6. Alone'
  BY <1>2 DEF Alone
<1>7. Mirrored'
  BY DEF IInv, TypeOK, Alone, Mirrored, Crash
<1>8. Progress'
  BY <1>2 DEF Progress, Writing, Idle
<1>. QED BY <1>3, <1>4, <1>5, <1>6, <1>7, <1>8 DEF IInv

\* No step of any process breaks the invariant.
LEMMA NextIInv ==
  ASSUME SoleWriter
  PROVE  IInv /\ [Next]_vars => IInv'
<1>. SUFFICES ASSUME IInv, [Next]_vars PROVE IInv'
  OBVIOUS
<1>1. CASE \E p \in Process : Start(p) \/ Crash(p)
  BY <1>1, StartStep, CrashStep
<1>2. CASE \E t \in Thread, e \in Fact : Call(t, e)
  BY <1>2, CallStep
<1>3. CASE \E t \in Thread : Create(t)
  <2>. PICK t \in Thread : Create(t)
    BY <1>3
  <2>1. AppendLine(t) => IInv'
    BY AppendCleanStep, AppendTornStep
  <2>. QED BY <2>1, LookupStep, LoadStep, LoadRaisesStep, PublishStep, CheckSameStep,
              CheckCollidesStep, CheckFreeStep, AppendFailsStep, RecordStep DEF Create
<1>4. CASE UNCHANGED vars
  BY <1>4
  DEF vars, IInv, TypeOK, OneFactPerId, ReadableLogIsComplete, Alone, Mirrored, Progress,
      Writing, Covers, Knows, Backed, Readable, Recorded
<1>. QED BY <1>1, <1>2, <1>3, <1>4 DEF Next

\* The invariant of a store with a sole writer.
LEMMA Invariance ==
  ASSUME SoleWriter
  PROVE  Spec => []IInv
<1>1. Init => IInv
  BY InitIInv
<1>2. IInv /\ [Next]_vars => IInv'
  BY NextIInv
<1>. QED BY <1>1, <1>2, PTL DEF Spec
-----------------------------------------------------------------------------
(* What the invariant gives.                                               *)

\* Every variable keeps its type (LocalEventStore's fields and file).
THEOREM TypeCorrect ==
  ASSUME SoleWriter
  PROVE  Spec => []TypeOK
<1>1. IInv => TypeOK
  BY DEF IInv
<1>. QED BY <1>1, Invariance, PTL

\* LocalEventStore.create puts two lines under one identity only after an error
\* was raised for it with its line whole; whatever else is retried, killed or
\* interrupted never does, as long as one process writes at a time.
THEOREM CreateOnly ==
  ASSUME SoleWriter
  PROVE  Spec => []OneFactPerId
<1>1. IInv => OneFactPerId
  BY DEF IInv
<1>. QED BY <1>1, Invariance, PTL

\* A file that read_run can still open holds every event create() returned for.
THEOREM NoSilentLoss ==
  ASSUME SoleWriter
  PROVE  Spec => []ReadableLogIsComplete
<1>1. IInv => ReadableLogIsComplete
  BY DEF IInv
<1>. QED BY <1>1, Invariance, PTL

\* Only an append changes what is recorded, and it records a fact under an
\* identity that is free or in doubt.
LEMMA StepRefines ==
  ASSUME SoleWriter, IInv, [Next]_vars
  PROVE  [Log!Next]_<<Recorded, unnoted>>
<1>1. ASSUME NEW t \in Thread, pc[t] = "append", lines' = Append(lines, arg[t]),
             unnoted' = unnoted \/ unnoted' = unnoted \union {arg[t].id}
      PROVE  Log!Next
  <2>1. /\ arg[t] \in Fact
        /\ Recorded' = Recorded \union {arg[t]}
        /\ \A k \in DOMAIN lines : lines[k].id = arg[t].id => arg[t].id \in unnoted
    BY <1>1, GrownFile, IndexInHand
  <2>2. Log!Record(arg[t])
    BY <2>1 DEF Log!Record, Recorded
  <2>. QED BY <1>1, <2>1, <2>2 DEF Log!Next, Log!Fact, Fact
<1>2. ASSUME NEW t \in Thread, AppendLine(t)
      PROVE  Log!Next \/ UNCHANGED <<lines, unnoted>>
  <2>1. CASE Parses(t)
    BY <1>1, <1>2, <2>1 DEF AppendLine, PutWhole
  <2>2. CASE ~Parses(t)
    BY <1>2, <2>2 DEF AppendLine, PutWhole
  <2>. QED BY <2>1, <2>2
<1>3. ASSUME NEW t \in Thread, AppendFails(t)
      PROVE  Log!Next \/ UNCHANGED <<lines, unnoted>>
  BY <1>1, <1>3, CutOffFile DEF AppendFails
<1>4. ASSUME NEW p \in Process, Crash(p)
      PROVE  Log!Next \/ UNCHANGED <<lines, unnoted>>
  BY <1>1, <1>4, CutOffFile DEF Crash
<1>5. ASSUME NEW t \in Thread,
             \/ Lookup(t) \/ Load(t) \/ LoadRaises(t) \/ Publish(t)
             \/ CheckSame(t) \/ CheckCollides(t) \/ CheckFree(t) \/ Record(t)
      PROVE  UNCHANGED <<lines, unnoted>>
  BY <1>5 DEF Lookup, Load, LoadRaises, Publish, CheckSame, CheckCollides, CheckFree, Record
<1>6. Next => Log!Next \/ UNCHANGED <<lines, unnoted>>
  <2>1. CASE \E p \in Process : Start(p) \/ Crash(p)
    <3>1. \A p \in Process : Start(p) => UNCHANGED <<lines, unnoted>>
      BY DEF Start
    <3>. QED BY <2>1, <3>1, <1>4
  <2>2. CASE \E t \in Thread : Create(t)
    <3>. PICK t \in Thread : Create(t)
      BY <2>2
    <3>. QED BY <1>2, <1>3, <1>5 DEF Create
  <2>3. CASE \E t \in Thread, e \in Fact : Call(t, e)
    BY <2>3 DEF Call
  <2>. QED BY <2>1, <2>2, <2>3 DEF Next
<1>7. CASE UNCHANGED vars
  BY <1>7 DEF vars, Recorded
<1>. QED BY <1>6, <1>7 DEF Recorded

\* LocalEventStore implements the create-only log of the EventStore protocol,
\* up to the identities an error was raised for with their line whole.
THEOREM Refinement ==
  ASSUME SoleWriter
  PROVE  Spec => ImplementsEventLog
<1>1. Init => Log!Init
  BY DEF Init, Log!Init, Recorded
<1>2. IInv /\ [Next]_vars => [Log!Next]_<<Recorded, unnoted>>
  BY StepRefines
<1>. QED BY <1>1, <1>2, Invariance, PTL DEF Spec, ImplementsEventLog, Log!Spec
-----------------------------------------------------------------------------
(* The deployed store.                                                     *)

\* A writer under way has an event; one waiting for the answer has stored it.
UnderWay ==
  \A w \in Thread :
    /\ at[w] # "idle" => sending[w] \in Cloud!Fact
    /\ at[w] = "reply" => sending[w] \in Cloud!Documents

CloudIInv == Cloud!TypeOK /\ Cloud!AnsweredIsStored /\ UnderWay

\* What is stored stays: only an identity without a document gets one.
LEMMA DocumentsGrow ==
  ASSUME CloudIInv, NEW w \in Thread, Cloud!Commit(w)
  PROVE  /\ sending[w] \in Cloud!Fact
         /\ Cloud!Documents' = Cloud!Documents \union {sending[w]}
         /\ \A e \in Cloud!Documents : e.id # sending[w].id
<1>1. sending[w] \in Cloud!Fact /\ docs[sending[w].id] = NoContent
  BY DEF CloudIInv, UnderWay, Cloud!Commit, Cloud!Free
<1>2. docs' = [docs EXCEPT ![sending[w].id] = sending[w].content]
  BY DEF Cloud!Commit
<1>3. \A e \in Cloud!Documents : e.id # sending[w].id
  BY <1>1, ContentAssumption DEF Cloud!Documents, Cloud!Fact
<1>4. ASSUME NEW e \in Cloud!Fact
      PROVE  docs'[e.id] = e.content <=> e \in Cloud!Documents \union {sending[w]}
  <2>1. CASE e.id = sending[w].id
    BY <2>1, <1>1, <1>2, <1>3 DEF CloudIInv, Cloud!TypeOK, Cloud!Fact
  <2>2. CASE e.id # sending[w].id
    BY <2>2, <1>1, <1>2 DEF CloudIInv, Cloud!TypeOK, Cloud!Fact, Cloud!Documents
  <2>. QED BY <2>1, <2>2
<1>5. Cloud!Documents' = Cloud!Documents \union {sending[w]}
  BY <1>1, <1>4 DEF Cloud!Documents
<1>. QED BY <1>1, <1>3, <1>5

\* No writer is under way at the start.
LEMMA CloudInit == Cloud!Init => CloudIInv
  BY DEF Cloud!Init, CloudIInv, Cloud!TypeOK, Cloud!Stage, Cloud!AnsweredIsStored, UnderWay

\* The step that stores a document.
LEMMA CommitStep ==
  ASSUME CloudIInv, NEW w \in Thread, Cloud!Commit(w)
  PROVE  CloudIInv'
<1>1. sending[w] \in Cloud!Fact /\ Cloud!Documents' = Cloud!Documents \union {sending[w]}
  BY DocumentsGrow
<1>2. Cloud!TypeOK'
  BY <1>1 DEF CloudIInv, Cloud!TypeOK, Cloud!Commit, Cloud!Goto, Cloud!Stage, Cloud!Fact
<1>3. Cloud!AnsweredIsStored'
  BY <1>1 DEF CloudIInv, Cloud!AnsweredIsStored, Cloud!Commit
<1>4. UnderWay'
  BY <1>1 DEF CloudIInv, Cloud!TypeOK, UnderWay, Cloud!Commit, Cloud!Goto
<1>. QED BY <1>2, <1>3, <1>4 DEF CloudIInv

\* The steps that leave the documents alone.
LEMMA OtherSteps ==
  ASSUME CloudIInv, NEW w \in Thread,
         \/ Cloud!Acknowledged(w) \/ Cloud!AnswerLost(w) \/ Cloud!Refuse(w)
         \/ Cloud!FoundOwn(w) \/ Cloud!FoundOther(w) \/ Cloud!GiveUp(w)
         \/ \E e \in Cloud!Fact : Cloud!Call(w, e)
  PROVE  CloudIInv' /\ Cloud!Documents' = Cloud!Documents
<1>1. docs' = docs /\ Cloud!Documents' = Cloud!Documents
  BY DEF Cloud!Documents, Cloud!Acknowledged, Cloud!AnswerLost, Cloud!Refuse,
        Cloud!FoundOwn, Cloud!FoundOther, Cloud!GiveUp, Cloud!Call
<1>2. CASE Cloud!Acknowledged(w)
  BY <1>1, <1>2
  DEF CloudIInv, Cloud!TypeOK, Cloud!AnsweredIsStored, UnderWay, Cloud!Acknowledged,
      Cloud!Return, Cloud!Goto, Cloud!Stage
<1>3. CASE Cloud!AnswerLost(w) \/ Cloud!Refuse(w)
  BY <1>1, <1>3
  DEF CloudIInv, Cloud!TypeOK, Cloud!AnsweredIsStored, UnderWay, Cloud!AnswerLost,
      Cloud!Refuse, Cloud!Goto, Cloud!Stage
<1>4. CASE Cloud!FoundOwn(w)
  <2>1. sending[w] \in Cloud!Documents
    BY <1>4 DEF CloudIInv, UnderWay, Cloud!FoundOwn, Cloud!Settled, Cloud!Documents
  <2>. QED
    BY <1>1, <1>4, <2>1
    DEF CloudIInv, Cloud!TypeOK, Cloud!AnsweredIsStored, UnderWay, Cloud!FoundOwn,
        Cloud!Return, Cloud!Goto, Cloud!Stage, Cloud!Documents
<1>5. CASE Cloud!FoundOther(w) \/ Cloud!GiveUp(w)
  BY <1>1, <1>5
  DEF CloudIInv, Cloud!TypeOK, Cloud!AnsweredIsStored, UnderWay, Cloud!FoundOther,
      Cloud!GiveUp, Cloud!Return, Cloud!Goto, Cloud!Stage
<1>6. CASE \E e \in Cloud!Fact : Cloud!Call(w, e)
  BY <1>1, <1>6
    DEF CloudIInv, Cloud!TypeOK, Cloud!AnsweredIsStored, UnderWay, Cloud!Call,
        Cloud!Goto, Cloud!Stage
<1>. QED BY <1>1, <1>2, <1>3, <1>4, <1>5, <1>6

\* No step of any writer breaks the invariant.
LEMMA CloudNext == CloudIInv /\ [Cloud!Next]_Cloud!cloud => CloudIInv'
<1>. SUFFICES ASSUME CloudIInv, [Cloud!Next]_Cloud!cloud PROVE CloudIInv'
  OBVIOUS
<1>1. CASE Cloud!Next
  BY <1>1, CommitStep, OtherSteps DEF Cloud!Next, Cloud!Create
<1>2. CASE UNCHANGED Cloud!cloud
  BY <1>2
    DEF Cloud!cloud, CloudIInv, Cloud!TypeOK, Cloud!AnsweredIsStored, UnderWay,
        Cloud!Documents
<1>. QED BY <1>1, <1>2

\* The invariant of the deployed store.
LEMMA CloudInvariance == Cloud!Spec => []CloudIInv
  BY CloudInit, CloudNext, PTL DEF Cloud!Spec
-----------------------------------------------------------------------------
(* What the deployed store promises.                                       *)

\* FirestoreEventStore.create() returns, True or False, only for an event that
\* is stored and stays stored, whatever answers are lost and however writers
\* race.
THEOREM Answers == Cloud!Spec => []Cloud!AnsweredIsStored
<1>1. CloudIInv => Cloud!AnsweredIsStored
  BY DEF CloudIInv
<1>. QED BY <1>1, CloudInvariance, PTL

\* The deployed store implements the create-only log of the EventStore protocol.
THEOREM CloudRefinement == Cloud!Spec => Cloud!CloudImplementsEventLog
<1>1. Cloud!Init => Cloud!Log!Init
  BY ContentAssumption DEF Cloud!Init, Cloud!Log!Init, Cloud!Documents, Cloud!Fact
<1>2. CloudIInv /\ [Cloud!Next]_Cloud!cloud => [Cloud!Log!Next]_<<Cloud!Documents, {}>>
  <2>. SUFFICES ASSUME CloudIInv, [Cloud!Next]_Cloud!cloud
                PROVE  [Cloud!Log!Next]_<<Cloud!Documents, {}>>
    OBVIOUS
  <2>1. CASE \E w \in Thread : Cloud!Commit(w)
    <3>. PICK w \in Thread : Cloud!Commit(w)
      BY <2>1
    <3>1. Cloud!Log!Record(sending[w]) /\ sending[w] \in Cloud!Log!Fact
      BY DocumentsGrow DEF Cloud!Log!Record, Cloud!Log!Fact, Cloud!Fact
    <3>. QED BY <3>1 DEF Cloud!Log!Next
  <2>2. CASE Cloud!Next /\ ~ \E w \in Thread : Cloud!Commit(w)
    BY <2>2, OtherSteps DEF Cloud!Next, Cloud!Create
  <2>3. CASE UNCHANGED Cloud!cloud
    BY <2>3 DEF Cloud!cloud, Cloud!Documents
  <2>. QED BY <2>1, <2>2, <2>3
<1>. QED BY <1>1, <1>2, CloudInvariance, PTL
     DEF Cloud!Spec, Cloud!CloudImplementsEventLog, Cloud!Log!Spec
-----------------------------------------------------------------------------
(* The store a process opened.                                             *)

\* Opened, the deployed store runs as it does alone.
LEMMA RunsDeployed == StoresSpec => Cloud!Spec
<1>1. OpenStore => Cloud!Init
  BY DEF OpenStore
<1>2. [StoresNext]_<<vars, backend, docs, sending, at,
answered>> => [Cloud!Next]_Cloud!cloud
  BY DEF StoresNext, Cloud!cloud
<1>. QED BY <1>1, <1>2, PTL DEF StoresSpec, Cloud!Spec

\* The store a process opened returns from create(), with True or False, only
\* for an event it holds for good.
THEOREM OpenedAnswers == StoresSpec => []AnsweredIsStored
  BY Answers, RunsDeployed, PTL DEF AnsweredIsStored

\* It is the create-only log of the EventStore protocol.
THEOREM OpenedIsEventLog == StoresSpec => CloudImplementsEventLog
  BY CloudRefinement, RunsDeployed, PTL DEF CloudImplementsEventLog

\* So does the file-backed store.
LEMMA RunsFileStore == StoresSpec => Spec
<1>1. OpenStore => Init
  BY DEF OpenStore
<1>2. [StoresNext]_<<vars, backend, docs, sending, at, answered>> => [Next]_vars
  BY DEF StoresNext
<1>. QED BY <1>1, <1>2, PTL DEF StoresSpec, Spec

\* What is proved of the file store holds of the store that was opened: with a
\* sole writer no identity is written twice unless an error was raised for it with
\* its line whole, it is the create-only log up to those identities, and nothing
\* is lost as long as the file can be read.
THEOREM OpenedFileStore ==
  ASSUME SoleWriter
  PROVE  StoresSpec => [](OneFactPerId /\ ReadableLogIsComplete) /\ ImplementsEventLog
  BY CreateOnly, NoSilentLoss, Refinement, RunsFileStore, PTL
=============================================================================
