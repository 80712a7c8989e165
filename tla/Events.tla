------------------------------- MODULE Events -------------------------------
(***************************************************************************)
(* The vocabulary of the event log (schema/events.py): the closed set of   *)
(* steps, the coordinates an event's identity is derived from, and what    *)
(* store.create() does when an identity is already taken.                  *)
(*                                                                         *)
(* An event is a record with fields step, unit, key and body.  `unit` is   *)
(* the student (or the run), `key` the rest of the coordinates (criterion  *)
(* and attempt), `body` whatever the payload says.                         *)
(***************************************************************************)
EXTENDS Naturals, Sequences

\* Steps a worker puts in its batch (analysis/worker.py).
WorkerStep ==
  { "SubmissionIngested", "RenditionFrozen", "TriageDecided", "ArmorScanned",
    "InjectionDetected", "ObservationDrafted", "ObservationRejected",
    "ObservationAccepted", "NoEvidenceRecorded", "NeedsHumanReview",
    "TaskFailed" }

\* Steps the dispatcher writes on its own account.
DispatcherStep ==
  { "RunStarted", "TaskFailed", "TaskAbandoned", "RunAborted",
    "RenderCompleted" }

\* The events that decide a criterion (or a unit that never got that far).
CriterionOutcome ==
  { "ObservationAccepted", "NoEvidenceRecorded", "NeedsHumanReview" }

\* make_event_id: identity is what the event is about, never its content.
EventId(e) == <<e.step, e.unit, e.key>>

\* create(): the identity is free, ...
Fresh(log, e) == \A f \in log : EventId(f) # EventId(e)

\* ... already holds this very content (create() returns False), ...
Recorded(log, e) == e \in log

\* ... or holds another content (create() raises EventIdCollision).
Collides(log, e) == ~Fresh(log, e) /\ ~Recorded(log, e)

(***************************************************************************)
(* What a worker hands to the dispatcher: one batch, about one submission.  *)
(***************************************************************************)
Batch(b) ==
  /\ b # <<>>
  /\ b[1].step = "SubmissionIngested"
  /\ \A i \in DOMAIN b : b[i].step \in WorkerStep
  /\ \A i, j \in DOMAIN b : EventId(b[i]) = EventId(b[j]) => i = j

(***************************************************************************)
(* The invariant the whole log rests on: one identity, one fact.           *)
(***************************************************************************)
OneFact(log) == \A e, f \in log : EventId(e) = EventId(f) => e = f
=============================================================================
