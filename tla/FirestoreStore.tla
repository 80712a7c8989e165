--------------------------- MODULE FirestoreStore ---------------------------
(***************************************************************************)
(* The deployed event store (store/firestore.py), one run's documents.     *)
(*                                                                         *)
(* Any number of writers call create() at once.  The server decides in one *)
(* step whether the document exists; its answer may be lost on the way, in *)
(* which case the client library sends the same request again, or gives up *)
(* and raises.  A writer that is told ALREADY_EXISTS reads the document to *)
(* find out whether it met its own fact or another one, and the document   *)
(* may be its own, written by the request whose answer was lost.           *)
(***************************************************************************)
EXTENDS Facts

CONSTANT Writer  \* threads of any process

VARIABLES
  docs,      \* [EventId -> Content or NoContent]: content_hash of each document
  sending,   \* [Writer -> Fact or NoFact]: the event being created
  at,        \* [Writer -> where in create() the writer is]
  answered   \* facts some create() returned for (history)

cloud == <<docs, sending, at, answered>>

Stage == {"idle", "request", "reply", "read"}

Documents == {e \in Fact : docs[e.id] = e.content}
-----------------------------------------------------------------------------
Init ==
  /\ docs = [i \in EventId |-> NoContent]
  /\ sending = [w \in Writer |-> NoFact]
  /\ at = [w \in Writer |-> "idle"]
  /\ answered = {}

Goto(w, stage) == at' = [at EXCEPT ![w] = stage]

\* create() returns or raises.
Return(w) ==
  /\ Goto(w, "idle")
  /\ sending' = [sending EXCEPT ![w] = NoFact]

Call(w, e) ==
  /\ at[w] = "idle"
  /\ sending' = [sending EXCEPT ![w] = e]
  /\ Goto(w, "request")
  /\ UNCHANGED <<docs, answered>>

\* MUTANT of Free: set() in the place of create(), which overwrites.
Overwritten(w) == docs[sending[w].id] \in Content \union {NoContent}

Free(w) == docs[sending[w].id] = NoContent

\* The server has no such document and stores this one.
Commit(w) ==
  /\ at[w] = "request"
  /\ Free(w)
  /\ docs' = [docs EXCEPT ![sending[w].id] = sending[w].content]
  /\ Goto(w, "reply")
  /\ UNCHANGED <<sending, answered>>

\* `return True`
Acknowledged(w) ==
  /\ at[w] = "reply"
  /\ answered' = answered \union {sending[w]}
  /\ Return(w)
  /\ UNCHANGED docs

\* The answer is lost and the client library repeats the request.
AnswerLost(w) ==
  /\ at[w] = "reply"
  /\ Goto(w, "request")
  /\ UNCHANGED <<docs, sending, answered>>

\* ALREADY_EXISTS
Refuse(w) ==
  /\ at[w] = "request"
  /\ ~Free(w)
  /\ Goto(w, "read")
  /\ UNCHANGED <<docs, sending, answered>>

\* MUTANT of Settled: whatever stands there is taken for an earlier attempt.
SettledByAnything(w) == docs[sending[w].id] # NoContent

\* `existing_hash == event.content_hash`
Settled(w) == docs[sending[w].id] = sending[w].content

\* `return False`: an idempotent retry.
FoundOwn(w) ==
  /\ at[w] = "read"
  /\ Settled(w)
  /\ answered' = answered \union {sending[w]}
  /\ Return(w)
  /\ UNCHANGED docs

\* EventIdCollision.
FoundOther(w) ==
  /\ at[w] = "read"
  /\ ~Settled(w)
  /\ Return(w)
  /\ UNCHANGED <<docs, answered>>

\* The client library gives up, or the process is killed: whether the document
\* was stored depends on how far the request got.
GiveUp(w) ==
  /\ at[w] # "idle"
  /\ Return(w)
  /\ UNCHANGED <<docs, answered>>

Create(w) ==
  \/ Commit(w) \/ Acknowledged(w) \/ AnswerLost(w) \/ Refuse(w)
  \/ FoundOwn(w) \/ FoundOther(w) \/ GiveUp(w)

Next == \E w \in Writer : Create(w) \/ \E e \in Fact : Call(w, e)

Spec == Init /\ [][Next]_cloud
-----------------------------------------------------------------------------
TypeOK ==
  /\ docs \in [EventId -> Content \union {NoContent}]
  /\ sending \in [Writer -> Fact \union {NoFact}]
  /\ at \in [Writer -> Stage]
  /\ answered \subseteq Fact

\* What create() returned for, True or False, is stored for good; of two facts
\* under one identity at most one writer is ever told its own is in the log,
\* however the requests race and are repeated (create(): "two different facts
\* under one deterministic ID means every artifact folded from this log is
\* unsound").
AnsweredIsStored == answered \subseteq Documents

\* The deployed store implements the create-only log of the interface, with no
\* identity ever in doubt.
Log == INSTANCE EventLog WITH log <- Documents, doubtful <- {}
CloudImplementsEventLog == Log!Spec
=============================================================================
