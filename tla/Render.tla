------------------------------- MODULE Render -------------------------------
(***************************************************************************)
(* The fold from the event log to what the docket shows                    *)
(* (render/__init__.py): the live version of every observation, the chain  *)
(* of versions it supersedes, one terminal outcome per unit of work, the   *)
(* outcome tiles and the table by criterion.                               *)
(*                                                                         *)
(* A Python dict is a set of records with distinct `id`s.  The id of an    *)
(* observation is <<student, criterion, attempt, edits>>: "obs-S-C-aN"     *)
(* followed by one "+editG" for each edit.                                 *)
(***************************************************************************)
EXTENDS Events, SequencesExt

Without(D, i) == {d \in D : d.id # i}
Put(D, d) == Without(D, d.id) \union {d}
At(D, i) == {d \in D : d.id = i}
-----------------------------------------------------------------------------
(* The order of the fold.                                                  *)

Rank ==
  [ RunStarted |-> 0, SubmissionIngested |-> 10, RenditionFrozen |-> 20,
    TriageDecided |-> 30, ArmorScanned |-> 40, InjectionDetected |-> 50,
    ObservationDrafted |-> 60, ObservationRejected |-> 70,
    ObservationAccepted |-> 80, NoEvidenceRecorded |-> 90,
    NeedsHumanReview |-> 100, TaskFailed |-> 110, TaskAbandoned |-> 120,
    ObservationEditedByHuman |-> 130, RenderCompleted |-> 140,
    ArtifactDelivered |-> 150, RunAborted |-> 160 ]

\* MUTANT of Before: a log is taken to be in order, but for its attempts.
BeforeByAttempt(e, f) == e.key[2] < f.key[2]

\* sort_key: rank, item, attempt.  The item only separates events of different
\* units, which touch different entries of the fold.
Before(e, f) ==
  \/ Rank[e.step] < Rank[f.step]
  \/ Rank[e.step] = Rank[f.step] /\ e.key[2] < f.key[2]
-----------------------------------------------------------------------------
(* What the payload of a worker's event says.                              *)

ObservationId(e) == <<e.unit, e.body.about[1], e.body.about[2], <<>>>>

\* checked: its citation went through layers 1-3; text: who worded it.
Observation(e) ==
  [ id |-> ObservationId(e), student |-> e.unit, crit |-> e.body.about[1],
    attempts |-> e.body.about[2],
    kind |-> IF e.step = "NoEvidenceRecorded" THEN "no_evidence" ELSE "evidence",
    checked |-> e.step \in {"ObservationAccepted", "NeedsHumanReview"},
    needs_human |-> e.step = "NeedsHumanReview",
    text |-> "model" ]

\* The observation an escalation carries, if any: that of the cap has none.
Carried(e) ==
  IF e.body.why = "attempt_cap_reached" THEN {} ELSE {Observation(e)}
-----------------------------------------------------------------------------
(* The accumulator and the effect of one event on it.                      *)

Nothing ==
  [ current |-> {},    \* the live observations
    history |-> {},    \* [id, chain]: the versions it supersedes, oldest first
    outcome |-> {},    \* [id, what]
    drafted |-> {},    \* drafts awaiting a verdict, never shown from here
    rejected |-> {},   \* rejected_criteria
    students |-> {},
    flagged |-> {},    \* injection_flagged
    excluded |-> {},
    anomalies |-> {} ] \* [kind, event]

Anomaly(k, e) == {[kind |-> k, event |-> EventId(e)]}

Chain(f, i) == {h.chain : h \in At(f.history, i)}
ChainOf(f, i) == IF Chain(f, i) = {} THEN <<>> ELSE CHOOSE c \in Chain(f, i) : TRUE

InjectionDetected(f, e) ==
  [f EXCEPT !.flagged = @ \union {e.unit},
            !.anomalies = @ \union Anomaly("injection_detected", e)]

\* MUTANT of Drafted: a draft goes straight to the sheet.
DraftedShown(f, e) == [f EXCEPT !.current = Put(@, Observation(e))]

Drafted(f, e) == [f EXCEPT !.drafted = Put(@, Observation(e))]

Accepted(f, e) ==
  LET o == Observation(e) IN
  [f EXCEPT !.current = Put(@, o),
            !.drafted = Without(@, o.id),
            !.students = @ \union {o.student},
            !.outcome = Put(@, [id |-> o.id,
               what |-> IF o.attempts <= 1 THEN "accepted_first_attempt"
                                           ELSE "accepted_after_retry"])]

Rejected(f, e) == [f EXCEPT !.rejected = @ \union {<<e.unit, e.body.about[1]>>}]

NoEvidence(f, e) ==
  LET o == Observation(e) IN
  [f EXCEPT !.current = Put(@, o),
            !.outcome = Put(@, [id |-> o.id, what |-> "no_evidence"]),
            !.students = @ \union {o.student},
            !.anomalies = @ \union Anomaly("no_evidence", e)]

\* MUTANT of Presentable: what the cap escalates is shown as it was drafted.
PresentableAsDrafted(f, e, o) == o

\* A draft the validator rejected is shown as an absence, without its citation.
Presentable(f, e, o) ==
  IF <<e.unit, o.crit>> \in f.rejected THEN [o EXCEPT !.kind = "no_evidence"] ELSE o

\* MUTANT of Source: whatever was drafted for that criterion will do.
SourceByCriterion(f, e) ==
  Carried(e) \union {Presentable(f, e, o) : o \in
    {d \in f.drafted : d.student = e.unit /\ d.crit = e.body.about[1] /\ Carried(e) = {}}}

\* What an escalation shows: the observation it carries, or else the one known
\* under its id, or nothing.
Source(f, e) ==
  LET i == ObservationId(e)
      known == IF At(f.current, i) # {} THEN At(f.current, i) ELSE At(f.drafted, i)
  IN IF Carried(e) # {} THEN Carried(e) ELSE {Presentable(f, e, o) : o \in known}

NeedsHuman(f, e) ==
  LET i == ObservationId(e)
      source == Source(f, e)
      shown == {[o EXCEPT !.needs_human = TRUE] : o \in source}
  IN [f EXCEPT !.outcome = Put(@, [id |-> i, what |-> "needs_human"]),
               !.current = IF source = {} THEN @ ELSE Without(@, i) \union shown,
               !.drafted = IF source = {} THEN @ ELSE Without(@, i),
               !.students = @ \union {o.student : o \in source},
               !.anomalies = @ \union Anomaly(e.body.why, e)]

\* MUTANT of Superseded: only one step back is remembered.
SupersededOnce(f, old, new, before) == <<before>>

\* The chain of the new version: the old one's, then the old one itself.
Superseded(f, old, new, before) ==
  ChainOf(f, old) \o ChainOf(f, new) \o <<before>>

\* MUTANT of OutcomesLeft: the superseded version keeps its outcome.
OutcomesKept(f, old) == f.outcome

OutcomesLeft(f, old) == Without(f.outcome, old)

\* An edited observation counts as accepted, whatever the old version was.
Edited(f, e) ==
  LET before == e.body.before
      after == e.body.after
      left == OutcomesLeft(f, before.id)
  IN [f EXCEPT !.history = Put(@, [id |-> after.id,
                 chain |-> Superseded(f, before.id, after.id, before)]),
               !.current = Put(Without(@, before.id), after),
               !.outcome = IF At(left, after.id) # {} THEN left
                 ELSE Put(left, [id |-> after.id, what |-> "accepted_first_attempt"])]

Abandoned(f, e) ==
  [f EXCEPT !.excluded = @ \union {e.unit},
            !.outcome = Put(@, [id |-> <<e.unit, "abandoned">>, what |-> "abandoned"]),
            !.anomalies = @ \union Anomaly("abandoned", e)]

Failed(f, e) ==
  [f EXCEPT !.anomalies = @ \union
     Anomaly(IF e.body.why = "ingest" THEN "parse_failure" ELSE "task_failed", e)]

Apply(f, e) ==
  CASE e.step = "SubmissionIngested" -> [f EXCEPT !.students = @ \union {e.unit}]
    [] e.step = "InjectionDetected" -> InjectionDetected(f, e)
    [] e.step = "ObservationDrafted" -> Drafted(f, e)
    [] e.step = "ObservationAccepted" -> Accepted(f, e)
    [] e.step = "ObservationRejected" -> Rejected(f, e)
    [] e.step = "NoEvidenceRecorded" -> NoEvidence(f, e)
    [] e.step = "NeedsHumanReview" -> NeedsHuman(f, e)
    [] e.step = "ObservationEditedByHuman" -> Edited(f, e)
    [] e.step = "TaskAbandoned" -> Abandoned(f, e)
    [] e.step = "TaskFailed" -> Failed(f, e)
    [] OTHER -> f

\* Where sorted(), which is stable, puts the k-th event among those before it.
Slot(events, order, k) ==
  CHOOSE p \in 1 .. k :
    /\ \A m \in p .. k - 1 : Before(events[k], events[order[m]])
    /\ \A m \in 1 .. p - 1 : ~Before(events[k], events[order[m]])

\* The first k positions of the log in the order of the fold, for every k.
Sorting(events) ==
  LET order[k \in 0 .. Len(events)] ==
        IF k = 0 THEN <<>>
        ELSE LET sorted == order[k - 1] IN InsertAt(sorted, Slot(events, sorted, k), k)
  IN order

Ordered(events) == Sorting(events)[Len(events)]

\* The fold of the first k events in that order, for every k.
Folding(events) ==
  LET order == Ordered(events)
      fold[k \in 0 .. Len(events)] ==
        IF k = 0 THEN Nothing ELSE Apply(fold[k - 1], events[order[k]])
  IN fold

Fold(events) == Folding(events)[Len(events)]
-----------------------------------------------------------------------------
(* The projection.                                                         *)

Tile == {"accepted_first_attempt", "accepted_after_retry", "needs_human",
         "no_evidence", "injection_detected", "abandoned"}
Column == {"evidence", "no_evidence", "needs_human"}

\* _outcome_column: an abandoned unit has none.
Columns(what) ==
  IF what \in {"accepted_first_attempt", "accepted_after_retry"} THEN {"evidence"}
  ELSE {what} \intersect Column

ColumnsOf(f, o) == UNION {Columns(x.what) : x \in At(f.outcome, o.id)}

ByCriterion(f) ==
  [c \in {o.crit : o \in f.current} |->
     [col \in Column |->
        Cardinality({o \in f.current : o.crit = c /\ col \in ColumnsOf(f, o)})]]

\* An injection is counted per submission, everything else per outcome.
TerminalOutcomes(f) ==
  [t \in Tile |->
     IF t = "injection_detected" THEN Cardinality(f.flagged)
     ELSE Cardinality({x \in f.outcome : x.what = t})]

\* More than half of the observations unresolved (INSUFFICIENT_THRESHOLD).
Insufficient(obs) ==
  2 * Cardinality({o \in obs : o.needs_human}) > Cardinality(obs)

Sheet(f, s) ==
  LET obs == {o \in f.current : o.student = s} IN
  [ observations |-> obs,
    superseded |-> UNION {ToSet(ChainOf(f, o.id)) : o \in obs},
    status |-> IF Insufficient(obs) THEN "INSUFFICIENT" ELSE "complete",
    injection_flagged |-> s \in f.flagged ]

\* `range` is what range_hash is the hash of.
Render(events) ==
  LET f == Fold(events) IN
  [ sheets |-> [s \in f.students |-> Sheet(f, s)],
    claims |-> f.current,
    by_criterion |-> ByCriterion(f),
    terminal_outcomes |-> TerminalOutcomes(f),
    excluded |-> f.excluded,
    anomalies |-> f.anomalies,
    range |-> ToSet(events) ]

-----------------------------------------------------------------------------
(* What a rendered run must satisfy, whatever log it is the fold of.       *)

\* The sum of a column of the table: it has one <<criterion, k>> for each count.
InColumn(r, col) ==
  Cardinality(UNION {{c} \X (1 .. r.by_criterion[c][col]) : c \in DOMAIN r.by_criterion})

\* "a column here sums to its tile there": the two tables of the overview agree.
AddsUp(r) ==
  LET tiles == r.terminal_outcomes IN
  /\ InColumn(r, "no_evidence") = tiles["no_evidence"]
  /\ InColumn(r, "needs_human") = tiles["needs_human"]
  /\ InColumn(r, "evidence") =
       tiles["accepted_first_attempt"] + tiles["accepted_after_retry"]
=============================================================================
