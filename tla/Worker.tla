------------------------------- MODULE Worker -------------------------------
(***************************************************************************)
(* One analyst worker and its validation gate (analysis/worker.py): a      *)
(* submission goes through triage and the injection scan, the model is     *)
(* asked about the pending criteria, every observation it drafts takes one *)
(* of the three exits of the gate, and only what was rejected is asked for *)
(* again, at most MaxAttempts times.                                       *)
(*                                                                         *)
(* Nothing the worker calls can be relied on: the model may answer with    *)
(* anything, and any call may raise, which loses the whole batch.          *)
(***************************************************************************)
EXTENDS Events

CONSTANTS
  Unit,         \* the student this worker was given
  Criterion,    \* the rubric
  Stray,        \* criterion ids the model may name outside the rubric
  NoCriterion,  \* the criterion of an event about the whole submission
  MaxAttempts,  \* MAX_ATTEMPTS
  Reply,        \* what the model can answer: sequences of entries
  SecondReader, \* TRUE: KARANI_SECOND_READER is set
  Obedient      \* TRUE: a reply answers each criterion asked exactly once

Named == Criterion \union Stray
Entry == [crit : Named, kind : {"evidence", "no_evidence"}]

ASSUME CriterionAssumption == NoCriterion \notin Named
ASSUME MaxAttemptsAssumption == MaxAttempts \in Nat \ {0}
ASSUME ReplyAssumption == Reply \subseteq Seq(Entry)
ASSUME SwitchAssumption == SecondReader \in BOOLEAN /\ Obedient \in BOOLEAN

VARIABLES
  pc,        \* where in analyze_submission the worker is
  attempt,   \* attempts_used: the attempt it is at, 0 before the first
  pending,   \* the criteria to ask for, set by the last complete attempt
  drafted,   \* the observations of this reply still to go through the gate
  rejected,  \* the criteria rejected in this attempt
  events     \* outcome.events

vars == <<pc, attempt, pending, drafted, rejected, events>>

Running == {"ingest", "triage", "scan", "ask", "gate", "citation",
            "entailment", "second_reader", "escalate"}
Final == {"done", "unparseable", "crashed", "cache_missing"}
-----------------------------------------------------------------------------
(* The batch.                                                              *)

\* `about` is what the payload names: an observation by criterion and attempt.
Body == [why : {"", "triage", "analysis", "citation", "entailment_disagreement",
                "second_reader_disagreement", "attempt_cap_reached"},
         about : (Named \union {NoCriterion}) \X Nat]

Observed(s, c, n, w) ==
  [step |-> s, unit |-> Unit, key |-> <<c, n>>,
   body |-> [why |-> w, about |-> <<c, n>>]]

OnUnit(s) == Observed(s, NoCriterion, 0, "")

Logged == {events[i] : i \in DOMAIN events}

Has(s, c, n) == \E e \in Logged : e.step = s /\ e.key = <<c, n>>

Current == Head(drafted).crit

Note(s, w) == events' = Append(events, Observed(s, Current, attempt, w))

\* `continue`: the next observation of the reply.
NextDraft == drafted' = Tail(drafted) /\ pc' = "gate"
-----------------------------------------------------------------------------
Init ==
  /\ pc = "ingest"
  /\ attempt = 0
  /\ pending = Criterion
  /\ drafted = <<>>
  /\ rejected = {}
  /\ events = <<>>

\* freeze() raises UnparseableSource: _run_one reports it, nothing is analysed.
Unparseable ==
  /\ pc = "ingest"
  /\ pc' = "unparseable"
  /\ UNCHANGED <<attempt, pending, drafted, rejected, events>>

Ingest ==
  /\ pc = "ingest"
  /\ events' = <<OnUnit("SubmissionIngested"), OnUnit("RenditionFrozen")>>
  /\ pc' = "triage"
  /\ UNCHANGED <<attempt, pending, drafted, rejected>>

Triage(analyze) ==
  /\ pc = "triage"
  /\ IF analyze
       THEN /\ events' = Append(events, OnUnit("TriageDecided"))
            /\ pc' = "scan"
       ELSE /\ events' = events \o <<OnUnit("TriageDecided"),
                    Observed("TaskFailed", NoCriterion, 0, "triage")>>
            /\ pc' = "done"
  /\ UNCHANGED <<attempt, pending, drafted, rejected>>

\* A detection is recorded and the analysis goes on all the same.
Scan(detected) ==
  /\ pc = "scan"
  /\ events' = Append(events, OnUnit("ArmorScanned"))
                 \o (IF detected THEN <<OnUnit("InjectionDetected")>> ELSE <<>>)
  /\ pc' = "ask"
  /\ UNCHANGED <<attempt, pending, drafted, rejected>>

Answers(r, S) ==
  /\ {r[i].crit : i \in DOMAIN r} = S
  /\ \A i, j \in DOMAIN r : r[i].crit = r[j].crit => i = j

\* MUTANT of MayAsk: one attempt too many.
MayAskOnceMore == pending # {} /\ attempt < MaxAttempts + 1

\* MUTANT of MayAsk: the cap is reached one attempt early.
MayAskOnceLess == pending # {} /\ attempt + 1 < MaxAttempts

\* `for attempt in range(1, MAX_ATTEMPTS + 1)`, `if not pending: break`.
MayAsk == pending # {} /\ attempt < MaxAttempts

\* The model is asked for the pending criteria; what it answers is not held
\* against what it was asked.
AskModel(r) ==
  /\ pc = "ask"
  /\ MayAsk
  /\ Obedient => Answers(r, pending)
  /\ attempt' = attempt + 1
  /\ drafted' = r
  /\ rejected' = {}
  /\ pc' = "gate"
  /\ UNCHANGED <<pending, events>>

\* MalformedModelOutput: this attempt is the last, `pending` stays what it was.
AskMalformed ==
  /\ pc = "ask"
  /\ MayAsk
  /\ attempt' = attempt + 1
  /\ events' = Append(events,
       Observed("TaskFailed", NoCriterion, attempt + 1, "analysis"))
  /\ pc' = "escalate"
  /\ UNCHANGED <<pending, drafted, rejected>>

LoopEnds ==
  /\ pc = "ask"
  /\ ~MayAsk
  /\ pc' = "escalate"
  /\ UNCHANGED <<attempt, pending, drafted, rejected, events>>
-----------------------------------------------------------------------------
(* The gate: one observation.                                              *)

\* Absence is recorded and never retried.
Absence ==
  /\ pc = "gate"
  /\ drafted # <<>> /\ Head(drafted).kind = "no_evidence"
  /\ Note("NoEvidenceRecorded", "")
  /\ NextDraft
  /\ UNCHANGED <<attempt, pending, rejected>>

Draft ==
  /\ pc = "gate"
  /\ drafted # <<>> /\ Head(drafted).kind = "evidence"
  /\ Note("ObservationDrafted", "")
  /\ pc' = "citation"
  /\ UNCHANGED <<attempt, pending, drafted, rejected>>

\* Layers 1-3, deterministic (validate_citation).
CitationFails ==
  /\ pc = "citation"
  /\ rejected' = rejected \union {Current}
  /\ Note("ObservationRejected", "citation")
  /\ NextDraft
  /\ UNCHANGED <<attempt, pending>>

CitationHolds ==
  /\ pc = "citation"
  /\ pc' = "entailment"
  /\ UNCHANGED <<attempt, pending, drafted, rejected, events>>

\* MUTANT of Escalated: a disagreement is sent round again like a rejection.
EscalatedAndRetried(why) ==
  /\ Note("NeedsHumanReview", why)
  /\ rejected' = rejected \union {Current}

\* Straight to review, never retried.
Escalated(why) ==
  /\ Note("NeedsHumanReview", why)
  /\ UNCHANGED rejected

\* Layer 4; a verdict that does not parse counts as a disagreement.
EntailmentDisagrees ==
  /\ pc = "entailment"
  /\ Escalated("entailment_disagreement")
  /\ NextDraft
  /\ UNCHANGED <<attempt, pending>>

EntailmentSupports ==
  /\ pc = "entailment"
  /\ IF SecondReader
       THEN pc' = "second_reader" /\ UNCHANGED <<drafted, events>>
       ELSE Note("ObservationAccepted", "") /\ NextDraft
  /\ UNCHANGED <<attempt, pending, rejected>>

\* Layer 5: it denies the claim, ...
SecondReaderDenies ==
  /\ pc = "second_reader"
  /\ Escalated("second_reader_disagreement")
  /\ NextDraft
  /\ UNCHANGED <<attempt, pending>>

\* ... or confirms it, or is unavailable, or cannot be understood.
SecondReaderPasses ==
  /\ pc = "second_reader"
  /\ Note("ObservationAccepted", "")
  /\ NextDraft
  /\ UNCHANGED <<attempt, pending, rejected>>

\* MUTANT of Retried: every criterion goes round again.
RetriedAll == Criterion

\* MUTANT of Retried: what has been rejected is dropped.
RetriedNone == {}

\* Only the criteria that failed go around again.
Retried == {c \in Criterion : c \in rejected}

EndAttempt ==
  /\ pc = "gate"
  /\ drafted = <<>>
  /\ pending' = Retried
  /\ pc' = "ask"
  /\ UNCHANGED <<attempt, drafted, rejected, events>>
-----------------------------------------------------------------------------
\* The attempt cap: the observation the escalation names is the last attempt's.
CapEvent(c) ==
  Observed("NeedsHumanReview", c, MaxAttempts, "attempt_cap_reached")

\* The loop over `pending`, one criterion at a time (in any order).
Escalate(c) ==
  /\ pc = "escalate"
  /\ c \in pending
  /\ events' = Append(events, CapEvent(c))
  /\ pending' = pending \ {c}
  /\ UNCHANGED <<pc, attempt, drafted, rejected>>

Finish ==
  /\ pc = "escalate"
  /\ pending = {}
  /\ pc' = "done"
  /\ UNCHANGED <<attempt, pending, drafted, rejected, events>>

\* A call raises: reading the file, the API, a validator of the schema, the
\* cache; offline, an answer that was never recorded raises MissingCacheEntry.
\* The batch is a local variable and is lost with it.
Raise(how) ==
  /\ \/ pc \in {"ingest", "triage", "second_reader"} /\ how = "crashed"
     \/ pc = "ask" /\ MayAsk /\ how \in {"crashed", "cache_missing"}
     \/ pc = "entailment" /\ how \in {"crashed", "cache_missing"}
  /\ pc' = how
  /\ events' = <<>>
  /\ UNCHANGED <<attempt, pending, drafted, rejected>>

Gate ==
  \/ Absence \/ Draft \/ CitationFails \/ CitationHolds
  \/ EntailmentDisagrees \/ EntailmentSupports
  \/ SecondReaderDenies \/ SecondReaderPasses

Next ==
  \/ Unparseable \/ Ingest
  \/ \E b \in BOOLEAN : Triage(b) \/ Scan(b)
  \/ \E r \in Reply : AskModel(r)
  \/ AskMalformed \/ LoopEnds
  \/ Gate \/ EndAttempt
  \/ \E c \in Criterion : Escalate(c)
  \/ Finish
  \/ \E how \in {"crashed", "cache_missing"} : Raise(how)

Spec == Init /\ [][Next]_vars
-----------------------------------------------------------------------------
TypeOK ==
  /\ pc \in Running \union Final
  /\ attempt \in 0 .. MaxAttempts
  /\ pending \subseteq Criterion
  /\ drafted \in Seq(Entry)
  /\ rejected \subseteq Named
  /\ events \in Seq([step : WorkerStep, unit : {Unit},
                     key : (Named \union {NoCriterion}) \X Nat, body : Body])

\* The positions in the batch that decide a criterion.
OutcomesOf(c) ==
  {i \in DOMAIN events : events[i].step \in CriterionOutcome /\ events[i].key[1] = c}

ExcludedByTriage ==
  \E e \in Logged : e.step = "TaskFailed" /\ e.body.why = "triage"

\* A batch is handed over whole: each criterion of the rubric has exactly one
\* terminal outcome, or the submission was routed away and none has any
\* (render/__init__.py: "Every unit of work ends in exactly one").
OneOutcomeEach ==
  pc = "done" =>
    \A c \in Criterion :
      IF ExcludedByTriage THEN OutcomesOf(c) = {}
      ELSE \E i \in OutcomesOf(c) : OutcomesOf(c) = {i}

\* What the dispatcher relies on when it writes the batch (run_pipeline): no
\* two of its events share an identity, so the batch cannot collide with
\* itself, and the first says the submission exists.
HandsOverABatch == pc = "done" => Batch(events)

\* Retry granularity is the observation: whatever the second attempt says of a
\* criterion follows a rejection of that same criterion in the first, so what
\* was accepted, absent or escalated is never asked about again.
OnlyRejectedGoesRound ==
  \A e \in Logged :
    e.step \in CriterionOutcome \union {"ObservationDrafted"} /\ e.key[2] > 1
      => \/ Has("ObservationRejected", e.key[1], e.key[2] - 1)
         \/ e.body.why = "attempt_cap_reached"

MalformedAt(n) == Has("TaskFailed", NoCriterion, n)

\* "citation validation failed on MAX_ATTEMPTS attempts": the cap escalates what
\* was rejected at every attempt, or what an unusable answer left undecided.
CapIsEarned ==
  \A e \in Logged :
    e.body.why = "attempt_cap_reached" =>
      \A n \in 1 .. MaxAttempts :
        \/ Has("ObservationRejected", e.key[1], n)
        \/ \E m \in 1 .. n : MalformedAt(m)
=============================================================================
