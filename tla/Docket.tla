------------------------------- MODULE Docket -------------------------------
(***************************************************************************)
(* The docket server (docket/server.py): the requests that write, over the *)
(* event store, the one rendered run it serves and the grades database,    *)
(* and what the pages that read are made of.                               *)
(*                                                                         *)
(* The handlers are plain functions, which the server runs in a pool of    *)
(* threads, so the steps of any two requests interleave.  A request may    *)
(* fail wherever it calls the store, the delivery or the fold, and the     *)
(* process may be restarted at any point.  create() is one step of the     *)
(* deployed store and two of the file store: a look into the index, then   *)
(* the append.  What a torn line does to the file is the subject of module *)
(* LocalStore: here the reads that fail after it are requests that fail.   *)
(***************************************************************************)
EXTENDS Render

CONSTANTS
  Student,
  RunId,
  Request,   \* the requests somebody makes, each one once
  AtOnce,    \* bound: how many of them are in progress at once
  Value,     \* the grades an instructor may type in
  RunLog     \* the logs a run may have left

ASSUME RunAssumption ==
  RunId \notin Student /\ IsFiniteSet(Student) /\ IsFiniteSet(Request)

\* What a run leaves: events of the worker and the dispatcher, about students it
\* was given, each with its attempt ...
ASSUME RunLogAssumption ==
  \A l \in RunLog :
    /\ l \in Seq(ToSet(l))
    /\ \A e \in ToSet(l) :
         /\ e.step \in WorkerStep \union DispatcherStep
         /\ e.key[2] \in Nat
         /\ e.step \in CriterionOutcome \union {"SubmissionIngested"} => e.unit \in Student

\* ... each criterion of each of them decided by one event: what one execution of
\* the run writes (OneOutcomeEach in module Worker).
ASSUME OutcomeAssumption ==
  \A l \in RunLog :
    \A i, j \in {k \in DOMAIN l : l[k].step \in CriterionOutcome} :
      l[i].unit = l[j].unit /\ l[i].body.about[1] = l[j].body.about[1] => i = j

VARIABLES
  store,      \* which event store the process was given
  log,        \* the events in it
  index,      \* those the file store's index knows
  apart,      \* the requests that note what they append in a dropped index
  folded,     \* the events state["run"] is the fold of
  started,    \* the events the process was started with ...
  given,      \* ... and whether serve() was given them: `events` is not None
  grade,      \* [Student -> the values of its grade document, one at most]
  history,    \* [Student -> the values in its history]
  pc,         \* [Request -> where in its handler the request is]
  my,         \* [Request -> the local variables of its handler]
  overlapped  \* two requests were in progress at once (history)

\* What a process keeps as it was started.
start == <<store, started, given>>

vars == <<start, log, index, apart, folded, grade, history, pc, my, overlapped>>

NoLocals == [before |-> {}, generation |-> 0, targets |-> {}, events |-> <<>>,
             read |-> <<>>, grade |-> <<>>]

Waiting == {"count", "create", "append", "deliver", "write", "put", "reread", "assign",
            "set", "history"}
Over == {"done", "failed", "collided", "refused", "killed"}

Busy == {r \in Request : pc[r] \in Waiting}

Served == Render(folded)

Goto(r, where) == pc' = [pc EXCEPT ![r] = where]

\* The handler returns or raises; its local variables are gone.
Leave(r, how) ==
  /\ Goto(r, how)
  /\ my' = [my EXCEPT ![r] = NoLocals]

\* A request that may write comes in (writes_open).
Begin(r, where) ==
  /\ pc[r] = "new" /\ Cardinality(Busy) < AtOnce
  /\ Goto(r, where)
  /\ overlapped' = (overlapped \/ Busy # {})

\* _load_index: of the lines with one identity the last one counts.
Loaded(l) ==
  {l[k] : k \in {i \in DOMAIN l : \A j \in DOMAIN l : EventId(l[j]) = EventId(l[i]) => j <= i}}

\* cmd_docket gives serve() the events it read, cmd_run does not.
Idle ==
  /\ store \in {"local", "firestore"}
  /\ given \in BOOLEAN
  /\ index = Loaded(log)
  /\ apart = {}
  /\ grade = [s \in Student |-> {}]
  /\ history = [s \in Student |-> {}]
  /\ pc = [r \in Request |-> "new"]
  /\ my = [r \in Request |-> NoLocals]
  /\ overlapped = FALSE

\* The run served is the fold of the store.
Init == log \in RunLog /\ folded = log /\ started = log /\ Idle
-----------------------------------------------------------------------------
(* POST /edit.                                                             *)

\* A page that shows or has shown the observation has its id in the form.
IdsOnPages ==
  LET sheets == Served.sheets IN
  UNION {{o.id : o \in sheets[s].observations \union sheets[s].superseded} :
           s \in DOMAIN sheets}

\* What is live under that id is `before`; an id superseded since is ignored.
Edit(r, i) ==
  LET before == At(Served.claims, i) IN
  /\ Begin(r, IF before = {} THEN "done" ELSE "count")
  /\ my' = [my EXCEPT ![r].before = before]
  /\ UNCHANGED <<start, log, index, apart, folded, grade, history>>

Old(r) == CHOOSE o \in my[r].before : TRUE

EditsOf(s, c) ==
  {k \in DOMAIN log : /\ log[k].step = "ObservationEditedByHuman"
                      /\ log[k].unit = s /\ log[k].key[1] = c}

\* MUTANT of Generation: the attempt of every edit is the same.
GenerationZero(s, c) == 0

\* How often this unit of work has been edited, read from the log.
Generation(s, c) == Cardinality(EditsOf(s, c))

Count(r) ==
  /\ pc[r] = "count"
  /\ my' = [my EXCEPT ![r].generation = Generation(Old(r).student, Old(r).crit)]
  /\ Goto(r, "create")
  /\ UNCHANGED <<start, log, index, apart, folded, grade, history, overlapped>>

\* The new version: "{observation_id}+edit{generation + 1}", no longer escalated.
After(r) ==
  [Old(r) EXCEPT !.id = <<@[1], @[2], @[3], Append(@[4], my[r].generation + 1)>>,
                     !.text = r,
                     !.needs_human = FALSE]

\* `by`: the text, the reason and the time stamp inside the payload.
EditEvent(r) ==
  [ step |-> "ObservationEditedByHuman", unit |-> Old(r).student,
    key |-> <<Old(r).crit, my[r].generation>>,
    body |-> [before |-> Old(r), after |-> After(r), by |-> r] ]

-----------------------------------------------------------------------------
(* create(), called by /edit for one event and by /ratify for each of its  *)
(* events in turn.                                                         *)

CallsCreate(r) == pc[r] = "create" \/ (pc[r] = "write" /\ my[r].events # <<>>)
Appends(r) == pc[r] \in {"append", "put"}

Written(r) ==
  IF pc[r] \in {"create", "append"} THEN EditEvent(r) ELSE Head(my[r].events)

\* What the store compares a new event with.
Held == IF store = "firestore" THEN ToSet(log) ELSE index

\* create() returns: the edit is re-folded, the ratification has one event less.
Returns(r) ==
  \/ /\ pc[r] \in {"create", "append"}
     /\ Goto(r, "reread")
     /\ UNCHANGED my
  \/ /\ pc[r] \in {"write", "put"}
     /\ Goto(r, "write")
     /\ my' = [my EXCEPT ![r].events = Tail(@)]

\* The event is held with this very content: nothing is written.
AlreadyHeld(r) ==
  /\ CallsCreate(r) /\ Recorded(Held, Written(r))
  /\ Returns(r)
  /\ UNCHANGED <<start, log, index, apart, folded, grade, history, overlapped>>

\* EventIdCollision, which nothing catches: the request ends in a 500.
CollisionFails(r) ==
  /\ CallsCreate(r) /\ Collides(Held, Written(r))
  /\ Leave(r, "collided")
  /\ UNCHANGED <<start, log, index, apart, folded, grade, history, overlapped>>

\* Firestore looks and writes in one step; the answer may be lost, and with it
\* every retry of the client: the call raises with the event in the store.
Commit(r) ==
  /\ store = "firestore" /\ CallsCreate(r) /\ Fresh(Held, Written(r))
  /\ log' = Append(log, Written(r))
  /\ Returns(r) \/ Leave(r, "failed")
  /\ UNCHANGED <<start, index, apart, folded, grade, history, overlapped>>

\* Two requests that are in the first create() of the process load an index each,
\* and one of the two is dropped, with what is noted in it.
LoadedTwice(r) ==
  /\ index \in {Loaded(started), {}}
  /\ \E q \in Request \ {r} : CallsCreate(q) \/ Appends(q)

\* The file store finds nothing in its index; no lock is held from here ...
LookUp(r) ==
  /\ store = "local" /\ CallsCreate(r) /\ Fresh(Held, Written(r))
  /\ Goto(r, IF pc[r] = "create" THEN "append" ELSE "put")
  /\ apart' = apart \/ (LoadedTwice(r) /\ apart' = apart \union {r})
  /\ UNCHANGED <<start, log, index, folded, grade, history, my, overlapped>>

\* The index with an event noted: it has one content for each identity.
Noted(e) == {f \in index : EventId(f) # EventId(e)} \union {e}

\* ... to here, where the line is written and noted.  flush() or fsync() may raise
\* with the line in the file, which is not noted then.
AppendLine(r) ==
  /\ store = "local" /\ Appends(r)
  /\ log' = Append(log, Written(r))
  /\ \/ Returns(r) /\ index' = IF r \in apart THEN index ELSE Noted(Written(r))
     \/ Leave(r, "failed") /\ UNCHANGED index
  /\ apart' = apart \ {r}
  /\ UNCHANGED <<start, folded, grade, history, overlapped>>
-----------------------------------------------------------------------------
(* Re-folding, at the end of /edit and of /ratify.                         *)

Reread(r) ==
  /\ \/ pc[r] = "reread"
     \/ pc[r] = "write" /\ my[r].events = <<>>
  /\ my' = [my EXCEPT ![r].read = log]
  /\ Goto(r, "assign")
  /\ UNCHANGED <<start, log, index, apart, folded, grade, history, overlapped>>

\* MUTANT of Refolded: the page served is not replaced.
NotRefolded(r) == folded

\* MUTANT of Refolded: the edit is patched into the page served.
PatchedIn(r) ==
  folded \o SelectSeq(my[r].read,
    LAMBDA e : e.step = "ObservationEditedByHuman" /\ e.body.by = r)

Refolded(r) == my[r].read

Assign(r) ==
  /\ pc[r] = "assign"
  /\ folded' = Refolded(r)
  /\ Leave(r, "done")
  /\ UNCHANGED <<start, log, index, apart, grade, history, overlapped>>
-----------------------------------------------------------------------------
(* POST /ratify.                                                           *)

\* No student named means all of them.
Ratify(r, named) ==
  /\ Begin(r, "deliver")
  /\ my' = [my EXCEPT ![r].targets =
              IF named = {} THEN DOMAIN Served.sheets
              ELSE named \intersect DOMAIN Served.sheets]
  /\ UNCHANGED <<start, log, index, apart, folded, grade, history>>

Delivered(u, k, b) == [step |-> "ArtifactDelivered", unit |-> u, key |-> <<k, 0>>, body |-> b]

\* One event per sheet, then the one about the csv, which counts the rows and
\* the grades that were there.
DeliveryEvents(targets, graded) ==
  SetToSeq({Delivered(s, "sheet", <<>>) : s \in targets})
    \o <<Delivered(RunId, "csv", <<Cardinality(targets), Cardinality(targets \intersect graded)>>)>>

\* deliver() writes the files of the targets it was called with; the grades
\* database may be out of reach, which exports blanks.
Deliver(r, reachable) ==
  /\ pc[r] = "deliver"
  /\ my' = [my EXCEPT ![r].events = DeliveryEvents(my[r].targets,
              IF reachable THEN {s \in Student : grade[s] # {}} ELSE {})]
  /\ Goto(r, "write")
  /\ UNCHANGED <<start, log, index, apart, folded, grade, history, overlapped>>

-----------------------------------------------------------------------------
\* A call raises and leaves nothing in the store: the store cannot be reached or
\* read, the disk is full, the upload fails, an event read cannot be folded.
\* Nothing catches it: the request ends in a 500, whatever was done before.
Raises(r) ==
  /\ pc[r] \in {"count", "create", "append", "deliver", "write", "put", "reread"}
  /\ Leave(r, "failed")
  /\ apart' = apart \ {r}
  /\ UNCHANGED <<start, log, index, folded, grade, history, overlapped>>
-----------------------------------------------------------------------------
(* POST /grade.                                                            *)

Grade(r, s, v) ==
  /\ Begin(r, "set")
  /\ s \in DOMAIN Served.sheets
  /\ my' = [my EXCEPT ![r].grade = <<s, v>>]
  /\ UNCHANGED <<start, log, index, apart, folded, grade, history>>

SetGrade(r) ==
  /\ pc[r] = "set"
  /\ grade' = [grade EXCEPT ![my[r].grade[1]] = {my[r].grade[2]}]
  /\ Goto(r, "history")
  /\ UNCHANGED <<start, log, index, apart, folded, history, my, overlapped>>

AppendHistory(r) ==
  /\ pc[r] = "history"
  /\ history' = [history EXCEPT ![my[r].grade[1]] = @ \union {my[r].grade[2]}]
  /\ Leave(r, "done")
  /\ UNCHANGED <<start, log, index, apart, folded, grade, overlapped>>

\* The store may be out of reach, and either write denied or fail; the page says
\* that nothing was recorded.  (my[r] is kept: it is what the page is about.)
GradeRefused(r) ==
  /\ pc[r] \in {"set", "history"}
  /\ Goto(r, "refused")
  /\ UNCHANGED <<start, log, index, apart, folded, grade, history, my, overlapped>>
-----------------------------------------------------------------------------
(* The pages that read.                                                    *)

\* MUTANT of AppealPacket: what is live, without what it superseded.
AppealSummary(s) ==
  [versions |-> Served.sheets[s].observations, source_event_count |-> Len(folded)]

\* GET /appeal: what is live and what it superseded, and the range they come from.
AppealPacket(s) ==
  [ versions |-> Served.sheets[s].observations \union Served.sheets[s].superseded,
    source_event_count |-> Len(folded) ]

\* GET /replay shows the events given at start-up, if any were, or else the
\* store's.
Replayed == IF given THEN started ELSE log
-----------------------------------------------------------------------------
\* The process is restarted; cmd_docket folds the log anew.
Restart ==
  /\ folded' = log
  /\ started' = log
  /\ given' = TRUE
  /\ index' = Loaded(log)
  /\ apart' = {}
  /\ pc' = [r \in Request |-> IF r \in Busy THEN "killed" ELSE pc[r]]
  /\ my' = [r \in Request |-> IF r \in Busy THEN NoLocals ELSE my[r]]
  /\ UNCHANGED <<store, log, grade, history, overlapped>>

Handles(r) ==
  \/ pc[r] = "new" /\ \E i \in IdsOnPages : Edit(r, i)
  \/ Count(r) \/ Reread(r) \/ Assign(r)
  \/ AlreadyHeld(r) \/ CollisionFails(r) \/ Commit(r) \/ LookUp(r) \/ AppendLine(r)
  \/ \E named \in SUBSET Student : Ratify(r, named)
  \/ \E reachable \in BOOLEAN : Deliver(r, reachable)
  \/ \E s \in Student, v \in Value : Grade(r, s, v)
  \/ SetGrade(r) \/ AppendHistory(r) \/ GradeRefused(r)
  \/ Raises(r)

Next == (\E r \in Request : Handles(r)) \/ Restart

Spec == Init /\ [][Next]_vars
-----------------------------------------------------------------------------
TypeOK ==
  /\ store \in {"local", "firestore"} /\ given \in BOOLEAN
  /\ IsPrefix(folded, log) /\ IsPrefix(started, log) /\ index \subseteq ToSet(log)
  /\ apart \subseteq Request
  /\ grade \in [Student -> SUBSET Value] /\ \A s \in Student : Cardinality(grade[s]) <= 1
  /\ history \in [Student -> SUBSET Value]
  /\ pc \in [Request -> {"new"} \union Waiting \union Over]
  /\ \A r \in Request : /\ my[r].generation \in 0 .. Cardinality(Request)
                        /\ my[r].targets \subseteq Student
                        /\ IsPrefix(my[r].read, log)
  /\ overlapped \in BOOLEAN

EditsIn(es) == {e \in ToSet(es) : e.step = "ObservationEditedByHuman"}

Versions(s) ==
  LET f == Fold(log) IN
  IF s \in f.students THEN Sheet(f, s).observations \union Sheet(f, s).superseded ELSE {}

\* The store takes an identity once: the deployed one always, the file store as
\* long as requests come one at a time.
TakesOnce == store = "firestore" \/ ~overlapped

\* Requests came one at a time and are over.
Quiet == ~overlapped /\ Busy = {}

\* Whatever was edited and failed, on the deployed store by whomever at the same
\* time, every version there ever was is live or in the chain of one that is.
NoVersionIsLost ==
  TakesOnce => \A e \in EditsIn(log) : {e.body.before, e.body.after} \subseteq Versions(e.unit)

\* The fold of the log has one live version of each observation the run left, as
\* long as requests come one at a time, whenever the process is restarted, if no
\* edit that was stored was reported as failed ("the fold replaces the live
\* version").
OneLiveVersion ==
  ~overlapped /\ (\A e \in EditsIn(log) : pc[e.body.by] # "failed") =>
    \A o, p \in Render(log).claims : o.student = p.student /\ o.crit = p.crit => o = p

\* Correcting a correction is never an error (test_docket_edit: "An instructor
\* cannot be expected to know that their second correction is the one the system
\* cannot represent"), whatever failed before.
EditsNeverCollide ==
  ~overlapped => \A r \in Request : pc[r] = "create" => ~Collides(Held, Written(r))

\* The two tables of the overview agree in what is served and in what the log
\* says, however edits overlap.
EveryPageAddsUp == AddsUp(Served) /\ AddsUp(Render(log))

\* Between requests that came one at a time and did not fail, what is served is
\* the fold of the whole log ("The artifact is a function of the log").
ServedIsTheFold ==
  Quiet /\ (\A r \in Request : pc[r] \notin {"failed", "collided"}) => folded = log

\* A packet holds every version its range of events knows, and the range is the
\* log as soon as requests came one at a time; a replay of the events given at
\* start-up may be behind the page and is never ahead of it (appeal(): "A packet
\* that omitted superseded versions would be a summary").
PacketIsComplete ==
  /\ given => IsPrefix(Replayed, folded)
  /\ TakesOnce => \A e \in EditsIn(folded) :
       {e.body.before, e.body.after} \subseteq AppealPacket(e.unit).versions
  /\ Quiet /\ (\A r \in Request : pc[r] \notin {"failed", "collided"}) =>
       \A s \in DOMAIN Served.sheets : AppealPacket(s).source_event_count = Len(log)

\* NoVersionIsLost whatever the store, of requests that did not fail
\* (test_every_earlier_version_survives: "Supersession never discards").
SupersessionNeverDiscards ==
  (\A r \in Request : pc[r] # "failed") =>
    \A e \in EditsIn(log) : {e.body.before, e.body.after} \subseteq Versions(e.unit)

\* OneLiveVersion whatever failed.
EditsReplace ==
  ~overlapped =>
    \A o, p \in Render(log).claims : o.student = p.student /\ o.crit = p.crit => o = p
=============================================================================
