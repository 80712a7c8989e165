----------------------------- MODULE LocalStore -----------------------------
(***************************************************************************)
(* The file-backed event store (store/local.py), one run's JSONL file.     *)
(*                                                                         *)
(* create() is not one step: it looks the run's index up, loads it from    *)
(* the file when the process has none, compares the identity, appends the  *)
(* line and only then notes it in the index, with no lock anywhere.  The   *)
(* index is a Python dict: a thread keeps using the object it obtained,    *)
(* even after another thread has published a new one.                      *)
(*                                                                         *)
(* Processes start and are killed at any point.  A kill, or an OSError     *)
(* from open, write, flush or fsync, leaves none of the line, part of it,  *)
(* all of it but its end, or all of it.  What is appended after an         *)
(* unfinished line lands on that line.  After an OSError the process lives *)
(* on, and its index does not know the event even if the whole line is in  *)
(* the file.  The JSON writer leaves U+2028 and U+0085 as they are inside  *)
(* a string, and the reader ends a line there.                             *)
(***************************************************************************)
EXTENDS Naturals, Sequences, Facts

CONSTANTS
  Splitting,  \* payloads whose line str.splitlines() takes apart
  Process,    \* operating-system processes that open the store
  Thread,     \* their threads
  Owner,      \* [Thread -> Process]
  NoThread,
  SoleWriter, \* TRUE: one process at a time, one create() at a time
  MaxLines    \* bound: no create() is called on a longer file

ASSUME SplittingAssumption == Splitting \subseteq Content
ASSUME OwnerAssumption == Owner \in [Thread -> Process]
ASSUME ThreadAssumption == NoThread \notin Thread
ASSUME SoleWriterAssumption == SoleWriter \in BOOLEAN
ASSUME MaxLinesAssumption == MaxLines \in Nat

VARIABLES
  lines,      \* the events written whole, each on a line of its own, in order
  tail,       \* how the file ends: "none": with a line end; "part": with part
              \* of a line; "whole": with a line that only lacks its end
  garbled,    \* a line that cannot be parsed stands before the last line end
  up,         \* the processes that are running
  shared,     \* [Process -> Thread or NoThread]: whose dict self._index holds
  dict,       \* [Thread -> index]: the dict object that thread last built
  held,       \* [Thread -> Thread or NoThread]: whose dict its local `index` is
  arg,        \* [Thread -> Fact or NoFact]: the event being created
  pc,         \* [Thread -> where in create() the thread is]
  confirmed,  \* facts some create() returned for (history)
  unnoted     \* identities written whole by a create() that raised (history)

vars == <<lines, tail, garbled, up, shared, dict, held, arg, pc, confirmed, unnoted>>

Index == [EventId -> Content \union {NoContent}]
Idle == "idle"
Step == {Idle, "lookup", "load", "publish", "check", "append", "record"}
-----------------------------------------------------------------------------
(* Reading the file.                                                       *)

EmptyIndex == [i \in EventId |-> NoContent]

\* MUTANT of Readable: a reader that skips what does not parse.
TolerantReader == tail \in {"none", "part", "whole"}

\* Readers parse every line: one that does not parse makes them raise.  A last
\* line without its end is a line to splitlines().
Readable == ~garbled /\ tail # "part"

LinesWith(ls, i) == {k \in DOMAIN ls : ls[k].id = i}

Last(S) == CHOOSE k \in S : \A j \in S : j <= k

\* MUTANT of IndexOf: a new process starts with an empty index.
ForgetfulIndex(ls) == EmptyIndex

\* The dict _load_index builds: of two lines with one id the later one stays.
IndexOf(ls) ==
  [i \in EventId |-> IF LinesWith(ls, i) = {} THEN NoContent
                     ELSE ls[Last(LinesWith(ls, i))].content]

Recorded == {lines[k] : k \in DOMAIN lines}
-----------------------------------------------------------------------------
\* create() returns or raises: its local variables are gone.
Return(t) ==
  /\ pc' = [pc EXCEPT ![t] = Idle]
  /\ arg' = [arg EXCEPT ![t] = NoFact]
  /\ held' = [held EXCEPT ![t] = NoThread]

Init ==
  /\ lines = <<>>
  /\ tail = "none"
  /\ garbled = FALSE
  /\ up = {}
  /\ shared = [p \in Process |-> NoThread]
  /\ dict = [t \in Thread |-> EmptyIndex]
  /\ held = [t \in Thread |-> NoThread]
  /\ arg = [t \in Thread |-> NoFact]
  /\ pc = [t \in Thread |-> Idle]
  /\ confirmed = {}
  /\ unnoted = {}

\* A process opens the store: LocalEventStore.__init__ leaves the index empty.
Start(p) ==
  /\ p \notin up
  /\ SoleWriter => up = {}
  /\ up' = up \union {p}
  /\ shared' = [shared EXCEPT ![p] = NoThread]
  /\ UNCHANGED <<lines, tail, garbled, dict, held, arg, pc, confirmed, unnoted>>

Call(t, e) ==
  /\ Owner[t] \in up
  /\ pc[t] = Idle
  /\ Len(lines) < MaxLines
  /\ SoleWriter => \A u \in Thread : pc[u] = Idle
  /\ arg' = [arg EXCEPT ![t] = e]
  /\ pc' = [pc EXCEPT ![t] = "lookup"]
  /\ UNCHANGED <<lines, tail, garbled, up, shared, dict, held, confirmed, unnoted>>

\* `if run_id in self._index: return self._index[run_id]`
Lookup(t) ==
  /\ pc[t] = "lookup"
  /\ held' = [held EXCEPT ![t] = shared[Owner[t]]]
  /\ pc' = [pc EXCEPT ![t] =
              IF shared[Owner[t]] = NoThread THEN "load" ELSE "check"]
  /\ UNCHANGED <<lines, tail, garbled, up, shared, dict, arg, confirmed, unnoted>>

\* The file is read line by line; a line that does not parse raises.
Load(t) ==
  /\ pc[t] = "load"
  /\ Readable
  /\ dict' = [dict EXCEPT ![t] = IndexOf(lines)]
  /\ pc' = [pc EXCEPT ![t] = "publish"]
  /\ UNCHANGED <<lines, tail, garbled, up, shared, held, arg, confirmed, unnoted>>

LoadRaises(t) ==
  /\ pc[t] = "load"
  /\ ~Readable
  /\ Return(t)
  /\ UNCHANGED <<lines, tail, garbled, up, shared, dict, confirmed, unnoted>>

\* `self._index[run_id] = index`, whatever another thread put there meanwhile.
Publish(t) ==
  /\ pc[t] = "publish"
  /\ shared' = [shared EXCEPT ![Owner[t]] = t]
  /\ held' = [held EXCEPT ![t] = t]
  /\ pc' = [pc EXCEPT ![t] = "check"]
  /\ UNCHANGED <<lines, tail, garbled, up, dict, arg, confirmed, unnoted>>

Known(t) == dict[held[t]][arg[t].id]

\* The identity is in the index: the same content is an idempotent retry, ...
Taken(t) == Known(t) # NoContent

CheckSame(t) ==
  /\ pc[t] = "check"
  /\ Taken(t) /\ Known(t) = arg[t].content
  /\ confirmed' = confirmed \union {arg[t]}
  /\ Return(t)
  /\ UNCHANGED <<lines, tail, garbled, up, shared, dict, unnoted>>

\* ... another content raises EventIdCollision, ...
CheckCollides(t) ==
  /\ pc[t] = "check"
  /\ Taken(t) /\ Known(t) # arg[t].content
  /\ Return(t)
  /\ UNCHANGED <<lines, tail, garbled, up, shared, dict, confirmed, unnoted>>

\* ... and a free identity goes on to the file.
CheckFree(t) ==
  /\ pc[t] = "check"
  /\ ~Taken(t)
  /\ pc' = [pc EXCEPT ![t] = "append"]
  /\ UNCHANGED <<lines, tail, garbled, up, shared, dict, held, arg, confirmed, unnoted>>

\* A reader will find the event on a line of its own: nothing unfinished stands
\* before it, and nothing in it ends a line.
Parses(t) == tail = "none" /\ arg[t].content \notin Splitting

\* The event's text gets into the file, on a line of its own or joined to what
\* stood there unfinished.
PutWhole(t) ==
  IF Parses(t) THEN lines' = Append(lines, arg[t]) /\ UNCHANGED garbled
               ELSE garbled' = TRUE /\ UNCHANGED lines

\* open("a"), write, flush and fsync return.
AppendLine(t) ==
  /\ pc[t] = "append"
  /\ PutWhole(t)
  /\ tail' = "none"
  /\ pc' = [pc EXCEPT ![t] = "record"]
  /\ UNCHANGED <<up, shared, dict, held, arg, confirmed, unnoted>>

\* What is in the file when open, write, flush or fsync does not return: nothing
\* new, part of the line, the whole line without its end, or the whole line.
CutOff(t) ==
  \/ UNCHANGED <<lines, tail, garbled>>
  \/ tail' = "part" /\ UNCHANGED <<lines, garbled>>
  \/ Parses(t) /\ PutWhole(t) /\ tail' = "whole"
  \/ PutWhole(t) /\ tail' = "none"

\* One of them raises OSError (a full disk, a failed device): create() raises,
\* the process lives on and its index does not know the identity.
AppendFails(t) ==
  /\ pc[t] = "append"
  /\ CutOff(t)
  /\ unnoted' = IF lines' = lines THEN unnoted ELSE unnoted \union {arg[t].id}
  /\ Return(t)
  /\ UNCHANGED <<up, shared, dict, confirmed>>

\* MUTANT of NoteWritten: the index is left as it was loaded.
NoteNothing(t) == dict

\* MUTANT of NoteWritten: the event is noted, not its content hash.
NoteEvent(t) == [dict EXCEPT ![held[t]][arg[t].id] = arg[t]]

\* `index[event.event_id] = incoming`, in the dict object the thread holds.
NoteWritten(t) == [dict EXCEPT ![held[t]][arg[t].id] = arg[t].content]

Record(t) ==
  /\ pc[t] = "record"
  /\ dict' = NoteWritten(t)
  /\ confirmed' = confirmed \union {arg[t]}
  /\ Return(t)
  /\ UNCHANGED <<lines, tail, garbled, up, shared, unnoted>>

\* A kill.  Caught inside a write it leaves what an error there would leave.
Crash(p) ==
  /\ p \in up
  /\ up' = up \ {p}
  /\ \/ UNCHANGED <<lines, tail, garbled>>
     \/ \E t \in Thread : Owner[t] = p /\ pc[t] = "append" /\ CutOff(t)
  /\ shared' = [shared EXCEPT ![p] = NoThread]
  /\ dict' = [t \in Thread |-> IF Owner[t] = p THEN EmptyIndex ELSE dict[t]]
  /\ held' = [t \in Thread |-> IF Owner[t] = p THEN NoThread ELSE held[t]]
  /\ arg' = [t \in Thread |-> IF Owner[t] = p THEN NoFact ELSE arg[t]]
  /\ pc' = [t \in Thread |-> IF Owner[t] = p THEN Idle ELSE pc[t]]
  /\ UNCHANGED <<confirmed, unnoted>>

Create(t) ==
  \/ Lookup(t) \/ Load(t) \/ LoadRaises(t) \/ Publish(t)
  \/ CheckSame(t) \/ CheckCollides(t) \/ CheckFree(t)
  \/ AppendLine(t) \/ AppendFails(t) \/ Record(t)

Next ==
  \/ \E p \in Process : Start(p) \/ Crash(p)
  \/ \E t \in Thread : Create(t) \/ \E e \in Fact : Call(t, e)

Spec == Init /\ [][Next]_vars
-----------------------------------------------------------------------------
TypeOK ==
  /\ lines \in Seq(Fact)
  /\ tail \in {"none", "part", "whole"}
  /\ garbled \in BOOLEAN
  /\ up \subseteq Process
  /\ shared \in [Process -> Thread \union {NoThread}]
  /\ dict \in [Thread -> Index]
  /\ held \in [Thread -> Thread \union {NoThread}]
  /\ arg \in [Thread -> Fact \union {NoFact}]
  /\ pc \in [Thread -> Step]
  /\ confirmed \subseteq Fact
  /\ unnoted \subseteq EventId

\* An identity stands twice in the file only if an error was raised for it after
\* its line was whole: kills, torn lines, restarts and retries alone never repeat
\* one (LocalEventStore.create, create-only).
OneFactPerId ==
  \A j, k \in DOMAIN lines :
    lines[j].id = lines[k].id => j = k \/ lines[j].id \in unnoted

\* Two different facts never share an identity in the file: whichever process
\* tries the second one gets EventIdCollision (the comment on self._index).
CollisionsAreSeen ==
  \A j, k \in DOMAIN lines :
    lines[j].id = lines[k].id => lines[j] = lines[k] \/ lines[j].id \in unnoted

\* Whatever was interrupted or failed, a file a reader can still open holds
\* every event create() ever returned for: a loss is never silent.
ReadableLogIsComplete == Readable => confirmed \subseteq Recorded

\* What read_run() returns; nothing where it raises.
ReadBack == IF Readable THEN Recorded ELSE {}

\* create() returned, so the event can be read back (its docstring: "Returns
\* True if the event was written"; the log is "the only durable record of a run").
ConfirmedIsDurable == confirmed \subseteq ReadBack

\* The store implements the create-only log its interface promises, with the
\* identities in doubt that an error was raised for after their line was whole.
Log == INSTANCE EventLog WITH log <- Recorded, doubtful <- unnoted
ImplementsEventLog == Log!Spec
=============================================================================
