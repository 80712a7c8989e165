--------------------------- MODULE Review_proofs ----------------------------
(***************************************************************************)
(* What the instructor sees of a batch, for any rubric, any number of      *)
(* attempts and any answers of a model that answers what it was asked.     *)
(* The argument: as the batch gives each criterion one outcome, no event   *)
(* of the fold overwrites what another put there, so the fold is the sum   *)
(* of what each event contributes, whatever the order; what an event       *)
(* contributes does not shrink as the batch grows; and what it shows as    *)
(* evidence the gate has not rejected.                                     *)
(***************************************************************************)
EXTENDS Review, Worker_proofs, Render_proofs
-----------------------------------------------------------------------------
(* What each event contributes.                                            *)

Capped(e) == e.body.why = "attempt_cap_reached"

Marked(o) == [o EXCEPT !.needs_human = TRUE]
Emptied(o) == [o EXCEPT !.kind = "no_evidence"]

Drafts(L, e) == {d \in L : d.step = "ObservationDrafted" /\ d.key = e.key}

\* The observations it shows: the cap shows the draft it names as an absence.
Shown(L, e) ==
  CASE e.step \in {"ObservationAccepted", "NoEvidenceRecorded"} -> {Observation(e)}
    [] e.step = "NeedsHumanReview" ->
         IF Capped(e) THEN {Marked(Emptied(Observation(d))) : d \in Drafts(L, e)}
         ELSE {Marked(Observation(e))}
    [] OTHER -> {}

What(e) ==
  CASE e.step = "ObservationAccepted" ->
         IF Observation(e).attempts <= 1 THEN "accepted_first_attempt"
                                         ELSE "accepted_after_retry"
    [] e.step = "NoEvidenceRecorded" -> "no_evidence"
    [] OTHER -> "needs_human"

Told(e) == IF Decides(e) THEN {[id |-> ObservationId(e), what |-> What(e)]} ELSE {}

Brought(L, e) == IF e.step = "SubmissionIngested" \/ Shown(L, e) # {} THEN {e.unit} ELSE {}

Flagged(e) == IF e.step = "InjectionDetected" THEN {e.unit} ELSE {}

Reported(e) ==
  CASE e.step = "InjectionDetected" -> Anomaly("injection_detected", e)
    [] e.step = "NoEvidenceRecorded" -> Anomaly("no_evidence", e)
    [] e.step = "NeedsHumanReview" -> Anomaly(e.body.why, e)
    [] e.step = "TaskFailed" ->
         Anomaly(IF e.body.why = "ingest" THEN "parse_failure" ELSE "task_failed", e)
    [] OTHER -> {}

Clears(e) == e.step \in {"ObservationAccepted", "NeedsHumanReview"}

\* The events P of the batch L are folded into f.
Sums(L, P, f) ==
  /\ f.current = UNION {Shown(L, e) : e \in P}
  /\ f.outcome = UNION {Told(e) : e \in P}
  /\ f.students = UNION {Brought(L, e) : e \in P}
  /\ f.flagged = UNION {Flagged(e) : e \in P}
  /\ f.anomalies = UNION {Reported(e) : e \in P}
  /\ f.rejected = {<<e.unit, e.body.about[1]>> : e \in {r \in P : r.step = "ObservationRejected"}}
  /\ f.drafted = {Observation(d) : d \in {x \in P : /\ x.step = "ObservationDrafted"
                                                    /\ \A e \in P : Clears(e) => e.key # x.key}}
  /\ f.history = {} /\ f.excluded = {}

\* What a batch must be for that: one outcome for a criterion, and a cap only on
\* a draft that was rejected.
IsBatch(L) ==
  /\ \A e \in L : /\ e.step \in WorkerStep /\ e.unit = Unit /\ e.body.about = e.key
                  /\ e.key = <<e.key[1], e.key[2]>> /\ e.key[2] \in Nat
                  /\ Capped(e) => e.step = "NeedsHumanReview"
  /\ \A e, f \in L : EventId(e) = EventId(f) => e = f
  /\ \A e, f \in L : Decides(e) /\ Decides(f) /\ e.key[1] = f.key[1] => e = f
  /\ \A e, d \in L : Capped(e) /\ d \in Drafts(L, e) =>
       \E r \in L : r.step = "ObservationRejected" /\ r.key[1] = e.key[1]
-----------------------------------------------------------------------------
(* One event of a batch more.                                              *)

\* Every event of a worker has a place in the order of the fold.
LEMMA WorkerRanks ==
  /\ WorkerStep \subseteq DOMAIN Rank
  /\ "ObservationEditedByHuman" \notin WorkerStep /\ "TaskAbandoned" \notin WorkerStep
  /\ CriterionOutcome = {"ObservationAccepted", "NoEvidenceRecorded", "NeedsHumanReview"}
  BY DEF WorkerStep, Rank, CriterionOutcome

\* What an event does to the rest of the accumulator.
LEMMA ApplySays ==
  ASSUME NEW f, IsFold(f), NEW e, e.step \in WorkerStep
  PROVE  LET g == Apply(f, e) IN
         /\ g.outcome = IF Decides(e) THEN Without(f.outcome, ObservationId(e)) \union Told(e)
                        ELSE f.outcome
         /\ g.flagged = f.flagged \union Flagged(e)
         /\ g.excluded = f.excluded
         /\ g.anomalies = f.anomalies \union Reported(e)
<1>0. /\ CriterionOutcome = {"ObservationAccepted", "NoEvidenceRecorded", "NeedsHumanReview"}
      /\ Observation(e).id = ObservationId(e)
  BY WorkerRanks, ObservationIs
<1>1. CASE e.step = "SubmissionIngested"
  <2>1. Apply(f, e) = [f EXCEPT !.students = @ \union {e.unit}]
    BY <1>1 DEF Apply
  <2>. QED BY <1>0, <1>1, <2>1 DEF IsFold, Decides, Flagged, Reported
<1>2. CASE e.step = "InjectionDetected"
  <2>1. Apply(f, e) = InjectionDetected(f, e)
    BY <1>2 DEF Apply
  <2>. QED BY <1>0, <1>2, <2>1 DEF IsFold, Decides, Flagged, Reported, InjectionDetected
<1>3. CASE e.step = "ObservationDrafted"
  <2>1. Apply(f, e) = Drafted(f, e)
    BY <1>3 DEF Apply
  <2>. QED BY <1>0, <1>3, <2>1 DEF IsFold, Decides, Flagged, Reported, Drafted
<1>4. CASE e.step = "ObservationRejected"
  <2>1. Apply(f, e) = Rejected(f, e)
    BY <1>4 DEF Apply
  <2>. QED BY <1>0, <1>4, <2>1 DEF IsFold, Decides, Flagged, Reported, Rejected
<1>5. CASE e.step = "ObservationAccepted"
  <2>1. Apply(f, e) = Accepted(f, e) /\ Decides(e)
    BY <1>0, <1>5 DEF Apply, Decides
  <2>2. Told(e) = {[id |-> ObservationId(e),
                    what |-> IF Observation(e).attempts <= 1 THEN "accepted_first_attempt"
                                                            ELSE "accepted_after_retry"]}
    BY <1>5, <2>1 DEF Told, What
  <2>3. Flagged(e) = {} /\ Reported(e) = {}
    BY <1>5 DEF Flagged, Reported
  <2>. QED BY <1>0, <2>1, <2>2, <2>3 DEF IsFold, Accepted, Put
<1>6. CASE e.step = "NoEvidenceRecorded"
  <2>1. Apply(f, e) = NoEvidence(f, e) /\ Decides(e)
    BY <1>0, <1>6 DEF Apply, Decides
  <2>2. Told(e) = {[id |-> ObservationId(e), what |-> "no_evidence"]}
    BY <1>6, <2>1 DEF Told, What
  <2>3. Flagged(e) = {} /\ Reported(e) = Anomaly("no_evidence", e)
    BY <1>6 DEF Flagged, Reported
  <2>. QED BY <1>0, <2>1, <2>2, <2>3 DEF IsFold, NoEvidence, Put
<1>7. CASE e.step = "NeedsHumanReview"
  <2>1. Apply(f, e) = NeedsHuman(f, e) /\ Decides(e)
    BY <1>0, <1>7 DEF Apply, Decides
  <2>2. Told(e) = {[id |-> ObservationId(e), what |-> "needs_human"]}
    BY <1>7, <2>1 DEF Told, What
  <2>3. Flagged(e) = {} /\ Reported(e) = Anomaly(e.body.why, e)
    BY <1>7 DEF Flagged, Reported
  <2>. QED BY <1>0, <2>1, <2>2, <2>3 DEF IsFold, NeedsHuman, Put
<1>8. CASE e.step = "TaskFailed"
  <2>1. Apply(f, e) = Failed(f, e)
    BY <1>8 DEF Apply
  <2>. QED BY <1>0, <1>8, <2>1 DEF IsFold, Decides, Flagged, Reported, Failed
<1>9. CASE e.step \in {"RenditionFrozen", "TriageDecided", "ArmorScanned"}
  <2>1. Apply(f, e) = f
    BY <1>9 DEF Apply
  <2>. QED BY <1>0, <1>9, <2>1 DEF Decides, Flagged, Reported
<1>. QED BY <1>1, <1>2, <1>3, <1>4, <1>5, <1>6, <1>7, <1>8, <1>9 DEF WorkerStep

\* What the cap makes of a draft keeps its id.
LEMMA EmptiedIs ==
  ASSUME NEW o, Original(o)
  PROVE  Original(Emptied(o)) /\ Emptied(o).id = o.id /\ Original(Marked(o)) /\ Marked(o).id = o.id
<1>. DEFINE e == [unit |-> o.student]
            f == [rejected |-> {<<e.unit, o.crit>>}]
<1>1. Presentable(f, e, o) = Emptied(o)
  BY DEF Presentable, Emptied
<1>. HIDE DEF e, f
<1>. QED BY <1>1, Escalates DEF Marked

\* Everything an event shows or tells of goes under the id of its observation.
LEMMA Ids ==
  ASSUME NEW L, IsBatch(L), NEW e \in L
  PROVE  /\ ObservationId(e) = <<Unit, e.key[1], e.key[2], <<>>>>
         /\ \A o \in Shown(L, e) : /\ Decides(e) /\ Original(o) /\ o.id = ObservationId(e)
                                   /\ o.crit = e.key[1] /\ o.attempts = e.key[2]
         /\ \A x \in Told(e) : Decides(e) /\ x.id = ObservationId(e)
<1>1. ObservationId(e) = <<Unit, e.key[1], e.key[2], <<>>>>
  BY DEF IsBatch, ObservationId
<1>2. \A d \in Drafts(L, e) : ObservationId(d) = ObservationId(e)
  BY DEF Drafts, IsBatch, ObservationId
<1>3. ASSUME NEW o \in Shown(L, e)
      PROVE  /\ Decides(e) /\ Original(o) /\ o.id = ObservationId(e)
  <2>1. CASE e.step \in {"ObservationAccepted", "NoEvidenceRecorded"}
    BY <1>3, <2>1, ObservationIs, WorkerRanks DEF Shown, Decides
  <2>2. CASE e.step = "NeedsHumanReview" /\ Capped(e)
    <3>1. PICK d \in Drafts(L, e) : o = Marked(Emptied(Observation(d)))
      BY <1>3, <2>2 DEF Shown
    <3>2. Original(Observation(d)) /\ Observation(d).id = ObservationId(e)
      BY <1>2, ObservationIs
    <3>. DEFINE p == Observation(d)
    <3>. HIDE DEF p
    <3>3. Original(Emptied(p)) /\ Emptied(p).id = p.id
      BY <3>2, EmptiedIs DEF p
    <3>4. Original(o) /\ o.id = p.id
      BY <3>1, <3>3, Escalates DEF Marked, p
    <3>. QED BY <2>2, <3>2, <3>4, WorkerRanks DEF Decides, p
  <2>3. CASE e.step = "NeedsHumanReview" /\ ~Capped(e)
    <3>1. o = Marked(Observation(e))
      BY <1>3, <2>3 DEF Shown
    <3>. QED BY <2>3, <3>1, ObservationIs, Escalates, WorkerRanks DEF Decides, Marked
  <2>. QED BY <1>3, <2>1, <2>2, <2>3 DEF Shown
<1>4. \A o \in Shown(L, e) : o.crit = e.key[1] /\ o.attempts = e.key[2]
  BY <1>3, ObservationIdIs DEF IsBatch
<1>5. \A x \in Told(e) : Decides(e) /\ x.id = ObservationId(e)
  BY DEF Told
<1>. QED BY <1>1, <1>3, <1>4, <1>5

\* Where an event comes in the order of the fold.
LEMMA Places ==
  ASSUME NEW e, NEW d, e.step \in CriterionOutcome,
         d.step \in {"ObservationDrafted", "ObservationRejected"}
  PROVE  Before(d, e)
<1>1. /\ Rank["ObservationDrafted"] = 60 /\ Rank["ObservationRejected"] = 70
      /\ Rank["ObservationAccepted"] = 80 /\ Rank["NoEvidenceRecorded"] = 90
      /\ Rank["NeedsHumanReview"] = 100
  BY DEF Rank
<1>2. Rank[d.step] < Rank[e.step]
  BY <1>1, WorkerRanks
<1>. QED BY <1>2 DEF Before

\* What an escalation presents of a batch.
LEMMA SourceOf ==
  ASSUME NEW L, IsBatch(L), NEW P, P \subseteq L, NEW e \in L, e \notin P,
         NEW f, Sums(L, P, f), e.step = "NeedsHumanReview",
         At(f.current, ObservationId(e)) = {},
         \A d \in L : d.step \in {"ObservationDrafted", "ObservationRejected"} => d \in P
  PROVE  /\ Shown(L, e) = {Marked(o) : o \in Source(f, e)}
         /\ \A o \in Source(f, e) : o.student = e.unit
         /\ Source(f, e) = {} => \A d \in L : d.step = "ObservationDrafted" => d.key # e.key
<1>1. CASE ~Capped(e)
  <2>1. Source(f, e) = {Observation(e)}
    BY <1>1 DEF Source, Carried, Capped
  <2>2. Shown(L, e) = {Marked(Observation(e))}
    BY <1>1 DEF Shown
  <2>. QED BY <2>1, <2>2, ObservationIs
<1>2. CASE Capped(e)
  <2>. DEFINE found == At(f.drafted, ObservationId(e))
  <2>1. Source(f, e) = {Presentable(f, e, o) : o \in found}
    BY <1>2 DEF Source, Carried, Capped
  <2>2. Shown(L, e) = {Marked(Emptied(Observation(d))) : d \in Drafts(L, e)}
    BY <1>2 DEF Shown
  <2>3. ASSUME NEW d \in Drafts(L, e) PROVE Observation(d) \in found
    <3>1. d \in P /\ d.step = "ObservationDrafted" /\ d.key = e.key
      BY DEF Drafts
    <3>2. ASSUME NEW j \in P, Clears(j), j.key = d.key PROVE FALSE
      <4>1. Decides(j) /\ Decides(e) /\ j.key[1] = e.key[1]
        BY <3>1, <3>2, WorkerRanks DEF Clears, Decides
      <4>. QED BY <4>1, <3>2 DEF IsBatch
    <3>3. Observation(d) \in f.drafted
      BY <3>1, <3>2 DEF Sums
    <3>4. Observation(d).id = ObservationId(e)
      BY <3>1, Ids, ObservationIs
    <3>. QED BY <3>3, <3>4 DEF At
  <2>4. ASSUME NEW o \in found PROVE \E d \in Drafts(L, e) : o = Observation(d)
    <3>1. PICK d \in P : d.step = "ObservationDrafted" /\ o = Observation(d)
      BY DEF At, Sums
    <3>2. ObservationId(d) = ObservationId(e)
      BY <3>1, ObservationIs DEF At
    <3>3. d.key[1] = e.key[1] /\ d.key[2] = e.key[2]
      BY <3>2, Ids
    <3>4. d.key = e.key
      BY <3>3 DEF IsBatch
    <3>. QED BY <3>1, <3>4 DEF Drafts
  <2>5. ASSUME NEW d \in Drafts(L, e)
        PROVE  Presentable(f, e, Observation(d)) = Emptied(Observation(d))
    <3>0. d \in L
      BY DEF Drafts
    <3>1. PICK r \in L : r.step = "ObservationRejected" /\ r.key[1] = e.key[1]
      BY <1>2, <3>0 DEF IsBatch
    <3>2. <<r.unit, r.body.about[1]>> \in f.rejected
      BY <3>1 DEF Sums
    <3>3. Observation(d).crit = e.key[1] /\ r.body.about[1] = e.key[1] /\ r.unit = e.unit
      BY <3>1, ObservationIs DEF IsBatch, Drafts
    <3>. QED BY <3>2, <3>3 DEF Presentable, Emptied
  <2>. HIDE DEF found
  <2>6. Source(f, e) = {Emptied(Observation(d)) : d \in Drafts(L, e)}
    BY <2>1, <2>3, <2>4, <2>5
  <2>7. \A d \in Drafts(L, e) : Emptied(Observation(d)).student = e.unit
    <3>. SUFFICES ASSUME NEW d \in Drafts(L, e) PROVE Emptied(Observation(d)).student = e.unit
      OBVIOUS
    <3>1. Original(Emptied(Observation(d))) /\ Emptied(Observation(d)).id = ObservationId(d)
      BY EmptiedIs, ObservationIs
    <3>2. Emptied(Observation(d)).student = d.unit
      BY <3>1, ObservationIdIs
    <3>. QED BY <3>2 DEF Drafts, IsBatch
  <2>. QED BY <2>2, <2>6, <2>7 DEF Drafts
<1>. QED BY <1>1, <1>2

\* One event of a batch more, in the order of the fold.
LEMMA SumStep ==
  ASSUME NEW L, IsBatch(L), NEW P, P \subseteq L, NEW e \in L, e \notin P,
         NEW f, IsFold(f), Sums(L, P, f),
         \A j \in L : Before(j, e) => j \in P,
         \A j \in P : ~Before(e, j)
  PROVE  IsFold(Apply(f, e)) /\ Sums(L, P \union {e}, Apply(f, e))
<1>. DEFINE g == Apply(f, e)
            i == ObservationId(e)
            Q == P \union {e}
<1>0. /\ e.step \in WorkerStep /\ e.step \in DOMAIN Rank /\ e.step # "ObservationEditedByHuman"
      /\ e.unit = Unit /\ e.body.about = e.key /\ e.key = <<e.key[1], e.key[2]>>
      /\ IsFold(g)
  BY WorkerRanks, ApplyIs DEF IsBatch
<1>1. Decides(e) => \A d \in L : d.step \in {"ObservationDrafted", "ObservationRejected"} => d \in P
  BY Places DEF Decides
<1>2. e.step \in {"ObservationDrafted", "ObservationRejected"} => \A j \in P : ~Decides(j)
  BY Places DEF Decides
<1>3. ASSUME Decides(e) PROVE \A j \in P : Decides(j) => j.key[1] # e.key[1]
  BY <1>3 DEF IsBatch
<1>4. ASSUME Decides(e)
      PROVE  /\ Without(f.current, i) = f.current /\ At(f.current, i) = {}
             /\ Without(f.outcome, i) = f.outcome
  <2>1. ASSUME NEW o \in f.current \union f.outcome PROVE o.id # i
    <3>1. PICK j \in P : o \in Shown(L, j) \union Told(j)
      BY DEF Sums
    <3>2. /\ Decides(j) /\ o.id = <<Unit, j.key[1], j.key[2], <<>>>>
          /\ i = <<Unit, e.key[1], e.key[2], <<>>>>
      BY <3>1, Ids
    <3>. QED BY <1>3, <1>4, <3>2
  <2>. QED BY <2>1 DEF Without, At
<1>5. ASSUME e.step = "NeedsHumanReview"
      PROVE  /\ Decides(e)
             /\ Shown(L, e) = {Marked(o) : o \in Source(f, e)}
             /\ \A o \in Source(f, e) : o.student = e.unit
             /\ Source(f, e) = {} => \A d \in L : d.step = "ObservationDrafted" => d.key # e.key
  <2>1. Decides(e)
    BY <1>5, WorkerRanks DEF Decides
  <2>. QED BY <1>1, <1>4, <1>5, <2>1, SourceOf
<1>6. g.current = f.current \union Shown(L, e)
  <2>1. CASE e.step \in {"ObservationAccepted", "NoEvidenceRecorded"}
    <3>1. Decides(e)
      BY <2>1, WorkerRanks DEF Decides
    <3>2. g.current = Put(f.current, Observation(e))
      BY <2>1, ApplyDecides
    <3>3. Shown(L, e) = {Observation(e)}
      BY <2>1 DEF Shown
    <3>. QED BY <1>4, <3>1, <3>2, <3>3, ObservationIs DEF Put
  <2>2. CASE e.step = "NeedsHumanReview"
    <3>1. g.current = IF Source(f, e) = {} THEN f.current
                      ELSE Without(f.current, i) \union {Marked(o) : o \in Source(f, e)}
      BY <1>0, <2>2, ApplyIs DEF Marked
    <3>. HIDE DEF g, i
    <3>. QED BY <1>4, <1>5, <2>2, <3>1
  <2>3. CASE e.step \notin CriterionOutcome
    <3>1. g.current = f.current
      BY <1>0, <2>3, ApplyIs DEF Inert
    <3>2. Shown(L, e) = {}
      BY <2>3, WorkerRanks DEF Shown
    <3>. QED BY <3>1, <3>2
  <2>. QED BY <2>1, <2>2, <2>3, WorkerRanks
<1>7. g.students = f.students \union Brought(L, e)
  <2>1. CASE e.step \in {"ObservationAccepted", "NoEvidenceRecorded"}
    <3>1. g.students = f.students \union {Observation(e).student}
      BY <2>1, ApplyDecides
    <3>2. Shown(L, e) = {Observation(e)}
      BY <2>1 DEF Shown
    <3>. QED BY <3>1, <3>2, ObservationIs DEF Brought
  <2>2. CASE e.step = "NeedsHumanReview"
    <3>1. g.students = f.students \union {o.student : o \in Source(f, e)}
      BY <1>0, <2>2, ApplyIs
    <3>. HIDE DEF g
    <3>2. Shown(L, e) = {} <=> Source(f, e) = {}
      BY <1>5, <2>2
    <3>3. {o.student : o \in Source(f, e)} = IF Source(f, e) = {} THEN {} ELSE {e.unit}
      BY <1>5, <2>2
    <3>. QED BY <2>2, <3>1, <3>2, <3>3 DEF Brought
  <2>3. CASE e.step = "SubmissionIngested"
    <3>1. g.students = f.students \union {e.unit}
      BY <1>0, <2>3, ApplyIs
    <3>. QED BY <2>3, <3>1 DEF Brought
  <2>4. CASE e.step \notin CriterionOutcome \union {"SubmissionIngested"}
    <3>1. g.students = f.students
      BY <1>0, <2>4, ApplyIs DEF Inert
    <3>2. Shown(L, e) = {}
      BY <2>4, WorkerRanks DEF Shown
    <3>. QED BY <2>4, <3>1, <3>2 DEF Brought
  <2>. QED BY <2>1, <2>2, <2>3, <2>4, WorkerRanks
<1>8. /\ g.outcome = f.outcome \union Told(e)
      /\ g.flagged = f.flagged \union Flagged(e) /\ g.excluded = f.excluded
      /\ g.anomalies = f.anomalies \union Reported(e)
  <2>1. ~Decides(e) => Told(e) = {}
    BY DEF Told
  <2>2. /\ g.outcome = IF Decides(e) THEN Without(f.outcome, i) \union Told(e) ELSE f.outcome
        /\ g.flagged = f.flagged \union Flagged(e) /\ g.excluded = f.excluded
        /\ g.anomalies = f.anomalies \union Reported(e)
    BY <1>0, ApplySays
  <2>. HIDE DEF g, i
  <2>. QED BY <1>4, <2>1, <2>2
<1>9. g.history = f.history
  BY <1>0, ApplyIs DEF Inert
<1>10. g.rejected = f.rejected \union (IF e.step = "ObservationRejected"
                                        THEN {<<e.unit, e.body.about[1]>>} ELSE {})
  <2>1. CASE e.step = "ObservationRejected"
    BY <1>0, <2>1, ApplyIs
  <2>2. CASE e.step # "ObservationRejected"
    <3>1. \/ e.step \in Inert
          \/ e.step \in CriterionOutcome
          \/ e.step \in {"SubmissionIngested", "ObservationDrafted"}
      BY <1>0, <2>2 DEF Inert
    <3>2. g.rejected = f.rejected
      BY <1>0, <3>1, ApplyIs
    <3>. QED BY <2>2, <3>2
  <2>. QED BY <2>1, <2>2
<1>. DEFINE Left(S) == {x \in S : /\ x.step = "ObservationDrafted"
                                  /\ \A j \in S : Clears(j) => j.key # x.key}
<1>11. g.drafted = {Observation(d) : d \in Left(Q)}
  <2>0. f.drafted = {Observation(d) : d \in Left(P)}
    BY DEF Sums
  <2>a. \A d \in P : d.step = "ObservationDrafted" => (Observation(d).id = i <=> d.key = e.key)
    <3>. SUFFICES ASSUME NEW d \in P, d.step = "ObservationDrafted"
                  PROVE  Observation(d).id = i <=> d.key = e.key
      OBVIOUS
    <3>1. /\ Observation(d).id = <<Unit, d.key[1], d.key[2], <<>>>>
          /\ i = <<Unit, e.key[1], e.key[2], <<>>>>
          /\ d.key = <<d.key[1], d.key[2]>> /\ e.key = <<e.key[1], e.key[2]>>
      BY Ids, ObservationIs DEF IsBatch
    <3>. QED BY <3>1
  <2>1. CASE e.step = "ObservationDrafted"
    <3>1. g.drafted = Put(f.drafted, Observation(e))
      BY <1>0, <2>1, ApplyIs
    <3>2. \A d \in P : d.step = "ObservationDrafted" => d.key # e.key
      BY <2>1 DEF IsBatch, EventId
    <3>3. Without(f.drafted, i) = f.drafted
      BY <2>0, <2>a, <3>2 DEF Without
    <3>4. \A j \in Q : ~Clears(j)
      BY <1>2, <2>1, WorkerRanks DEF Clears, Decides
    <3>5. Left(Q) = Left(P) \union {e}
      BY <2>1, <3>4
    <3>. QED BY <2>0, <3>1, <3>3, <3>5, ObservationIs DEF Put
  <2>2. CASE Clears(e)
    <3>1. Decides(e) /\ e.step # "ObservationDrafted"
      BY <2>2, WorkerRanks DEF Clears, Decides
    <3>2. Left(Q) = {d \in Left(P) : d.key # e.key}
      BY <2>2, <3>1
    <3>3. \/ g.drafted = Without(f.drafted, i)
          \/ g.drafted = f.drafted /\ \A d \in P : d.step = "ObservationDrafted" => d.key # e.key
      <4>1. CASE e.step = "ObservationAccepted"
        <5>1. g.drafted = Without(f.drafted, Observation(e).id)
          BY <1>0, <4>1, ApplyIs
        <5>2. Observation(e).id = i
          BY ObservationIs
        <5>. HIDE DEF g, i
        <5>. QED BY <5>1, <5>2
      <4>2. CASE e.step = "NeedsHumanReview"
        <5>1. g.drafted = IF Source(f, e) = {} THEN f.drafted ELSE Without(f.drafted, i)
          BY <1>0, <4>2, ApplyIs
        <5>. HIDE DEF g, i
        <5>. QED BY <1>5, <4>2, <5>1
      <4>. QED BY <2>2, <4>1, <4>2 DEF Clears
    <3>4. Without(f.drafted, i) = {Observation(d) : d \in {x \in Left(P) : x.key # e.key}}
      BY <2>0, <2>a DEF Without
    <3>5. (\A d \in P : d.step = "ObservationDrafted" => d.key # e.key) =>
            {x \in Left(P) : x.key # e.key} = Left(P)
      OBVIOUS
    <3>. HIDE DEF g, i, Left
    <3>. QED BY <2>0, <3>2, <3>3, <3>4, <3>5
  <2>3. CASE ~Clears(e) /\ e.step # "ObservationDrafted"
    <3>1. g.drafted = f.drafted
      <4>1. CASE e.step = "NoEvidenceRecorded"
        BY <1>0, <4>1, ApplyIs
      <4>2. CASE e.step # "NoEvidenceRecorded"
        BY <1>0, <2>3, <4>2, ApplyIs, WorkerRanks DEF Clears, Inert
      <4>. QED BY <4>1, <4>2
    <3>2. Left(Q) = Left(P)
      BY <2>3
    <3>. QED BY <2>0, <3>1, <3>2
  <2>. QED BY <2>1, <2>2, <2>3
<1>12. Sums(L, Q, g)
  <2>. HIDE DEF g, i
  <2>1. /\ f.current \union Shown(L, e) = UNION {Shown(L, x) : x \in Q}
        /\ f.students \union Brought(L, e) = UNION {Brought(L, x) : x \in Q}
    BY DEF Sums
  <2>2. f.outcome \union Told(e) = UNION {Told(x) : x \in Q}
    BY DEF Sums
  <2>3. /\ f.flagged \union Flagged(e) = UNION {Flagged(x) : x \in Q}
        /\ f.anomalies \union Reported(e) = UNION {Reported(x) : x \in Q}
    BY DEF Sums
  <2>4. g.rejected = {<<r.unit, r.body.about[1]>> : r \in {x \in Q : x.step = "ObservationRejected"}}
    BY <1>10 DEF Sums
  <2>5. g.history = {} /\ g.excluded = {}
    BY <1>8, <1>9 DEF Sums
  <2>. QED BY <1>6, <1>7, <1>8, <1>11, <2>1, <2>2, <2>3, <2>4, <2>5 DEF Sums
<1>. QED BY <1>0, <1>12

\* The log q holds the events of the batch, each once, in whatever order.
IsLogOf(q, L) ==
  /\ Sortable(q) /\ In(q) = L
  /\ \A i, j \in DOMAIN q : EventId(q[i]) = EventId(q[j]) => i = j

\* The fold of a batch is the sum of what its events contribute, in whatever
\* order the log has them.
LEMMA FoldSums ==
  ASSUME NEW L, IsBatch(L), NEW q, IsLogOf(q, L)
  PROVE  IsFold(Fold(q)) /\ Sums(L, L, Fold(q))
<1>. DEFINE N == Len(q)
            Taken(k) == {q[j] : j \in Past(q, k)}
            Good == {k \in 0 .. N : IsFold(Folding(q)[k]) /\ Sums(L, Taken(k), Folding(q)[k])}
<1>0. /\ Sortable(q) /\ N \in Nat /\ L = {q[j] : j \in DOMAIN q}
      /\ Past(q, 0) = {} /\ Folding(q)[0] = Nothing
      /\ Past(q, N) = DOMAIN q /\ Fold(q) = Folding(q)[N]
  BY FoldEnds DEF IsLogOf, In
<1>1. 0 \in Good
  <2>1. IsFold(Nothing)
    BY NothingIs
  <2>2. Sums(L, {}, Nothing)
    BY DEF Sums, Nothing
  <2>3. Taken(0) = {}
    BY <1>0
  <2>4. IsFold(Folding(q)[0]) /\ Sums(L, Taken(0), Folding(q)[0])
    <3>. HIDE DEF Taken
    <3>. QED BY <1>0, <2>1, <2>2, <2>3, Zenon
  <2>5. 0 \in 0 .. N
    BY <1>0
  <2>. QED BY <2>4, <2>5
<1>2. ASSUME NEW k \in 1 .. N, k - 1 \in Good PROVE k \in Good
  <2>. DEFINE i == Ordered(q)[k]
              P == Taken(k - 1)
              f == Folding(q)[k - 1]
  <2>1. /\ i \in DOMAIN q /\ i \notin Past(q, k - 1)
        /\ Past(q, k) = Past(q, k - 1) \union {i}
        /\ Past(q, k - 1) \subseteq DOMAIN q
        /\ Folding(q)[k] = Apply(Folding(q)[k - 1], q[i])
        /\ \A j \in Past(q, k - 1) : ~Before(q[i], q[j])
        /\ \A j \in DOMAIN q : Before(q[j], q[i]) => j \in Past(q, k - 1)
    BY <1>0, FoldStep
  <2>2. IsFold(f) /\ Sums(L, P, f)
    BY <1>2
  <2>3. /\ q[i] \in L /\ P \subseteq L /\ q[i] \notin P
        /\ \A j \in L : Before(j, q[i]) => j \in P
        /\ \A j \in P : ~Before(q[i], j)
    <3>. HIDE DEF i
    <3>1. q[i] \in L /\ P \subseteq L
      BY <1>0, <2>1
    <3>2. q[i] \notin P
      BY <2>1 DEF IsLogOf
    <3>. QED BY <1>0, <2>1, <3>1, <3>2
  <2>4. Taken(k) = P \union {q[i]}
    BY <2>1
  <2>5. IsFold(Apply(f, q[i])) /\ Sums(L, P \union {q[i]}, Apply(f, q[i]))
    <3>. HIDE DEF f, P, i
    <3>. QED BY <2>2, <2>3, SumStep
  <2>6. k \in 0 .. N
    BY <1>0
  <2>. QED BY <2>1, <2>4, <2>5, <2>6
<1>3. \A k \in 0 .. N : k \in Good
  <2>. HIDE DEF Good
  <2>. QED BY <1>0, <1>1, <1>2, CountUp
<1>4. N \in 0 .. N
  BY <1>0
<1>5. IsFold(Folding(q)[N]) /\ Sums(L, Taken(N), Folding(q)[N])
  BY <1>3, <1>4
<1>6. Taken(N) = L
  BY <1>0
<1>. QED BY <1>0, <1>5, <1>6

\* Two logs of one batch fold to the same.
LEMMA OrderFree ==
  ASSUME NEW L, IsBatch(L), NEW p, IsLogOf(p, L), NEW q, IsLogOf(q, L)
  PROVE  Fold(p) = Fold(q) /\ Render(p) = Render(q)
<1>. DEFINE f == Fold(p)
            g == Fold(q)
<1>1. IsFold(f) /\ Sums(L, L, f) /\ IsFold(g) /\ Sums(L, L, g)
  BY FoldSums
<1>. HIDE DEF f, g
<1>2. /\ f.current = g.current /\ f.history = g.history /\ f.outcome = g.outcome
      /\ f.drafted = g.drafted /\ f.rejected = g.rejected /\ f.students = g.students
      /\ f.flagged = g.flagged /\ f.excluded = g.excluded /\ f.anomalies = g.anomalies
  BY <1>1 DEF Sums
<1>3. f = g
  BY <1>1, <1>2 DEF IsFold
<1>4. ToSet(p) = ToSet(q)
  BY DEF IsLogOf, In, ToSet
<1>. QED BY <1>3, <1>4 DEF Render, f, g
-----------------------------------------------------------------------------
(* What the worker puts in a batch.                                        *)

\* What is rejected was drafted and is decided by nobody but the cap; nothing is
\* drafted once an answer could not be used.
Verdicts ==
  \A e \in Logged :
    /\ e.body.about = e.key
    /\ Capped(e) => e.step = "NeedsHumanReview" /\ e.key[2] = MaxAttempts
    /\ e.step = "ObservationRejected" =>
         /\ Has("ObservationDrafted", e.key[1], e.key[2])
         /\ \A f \in Logged : Decides(f) /\ f.key = e.key => Capped(f)
    /\ e.step = "TaskFailed" /\ e.key[2] > 0 =>
         \A d \in Logged : d.step = "ObservationDrafted" => d.key[2] < e.key[2]

\* What is judged was drafted.
InHandDrafted ==
  pc \in AtGate \ {"gate"} => Has("ObservationDrafted", Current, attempt)

RInv == IInv /\ Verdicts /\ InHandDrafted

\* What a worker notes is in the log with all that was before.
LEMMA LoggedAppend ==
  ASSUME TypeOK, NEW e, events' = Append(events, e)
  PROVE  Logged' = Logged \union {e}
<1>1. events \in Seq(Event)
  BY EventsTyped
<1>2. /\ Len(events) \in Nat /\ DOMAIN events = 1 .. Len(events)
      /\ DOMAIN events' = 1 .. Len(events) + 1
      /\ \A i \in 1 .. Len(events) : events'[i] = events[i]
      /\ events'[Len(events) + 1] = e
  BY <1>1
<1>. QED BY <1>2 DEF Logged

\* One event more, with what it must be for the verdicts to stand.
LEMMA OneMore ==
  ASSUME Verdicts, NEW e, Logged' = Logged \union {e}, e.body.about = e.key,
         Capped(e) => e.step = "NeedsHumanReview" /\ e.key[2] = MaxAttempts,
         e.step = "ObservationRejected" =>
           /\ Has("ObservationDrafted", e.key[1], e.key[2])
           /\ \A f \in Logged : Decides(f) => f.key # e.key,
         Decides(e) /\ ~Capped(e) =>
           \A f \in Logged : f.step = "ObservationRejected" => f.key # e.key,
         e.step = "TaskFailed" =>
           \A d \in Logged : d.step = "ObservationDrafted" => d.key[2] < e.key[2],
         e.step = "ObservationDrafted" => \A f \in Logged : f.step # "TaskFailed"
  PROVE  Verdicts'
<1>1. "ObservationRejected" \notin CriterionOutcome
  BY WorkerRanks
<1>2. \A t, c, n : Has(t, c, n) => Has(t, c, n)'
  BY HasGrows
<1>3. ASSUME NEW x \in Logged'
      PROVE  /\ x.body.about = x.key
             /\ Capped(x) => x.step = "NeedsHumanReview" /\ x.key[2] = MaxAttempts
  BY <1>3 DEF Verdicts
<1>4. ASSUME NEW x \in Logged', x.step = "ObservationRejected"
      PROVE  Has("ObservationDrafted", x.key[1], x.key[2])'
  BY <1>2, <1>4 DEF Verdicts
<1>5. ASSUME NEW x \in Logged', x.step = "ObservationRejected",
             NEW f \in Logged', Decides(f), f.key = x.key
      PROVE  Capped(f)
  <2>1. CASE x = e /\ f \in Logged
    BY <1>5, <2>1
  <2>2. CASE x \in Logged /\ f = e
    BY <1>5, <2>2
  <2>3. CASE x \in Logged /\ f \in Logged
    BY <1>5, <2>3 DEF Verdicts
  <2>4. CASE x = e /\ f = e
    BY <1>1, <1>5, <2>4 DEF Decides
  <2>. QED BY <2>1, <2>2, <2>3, <2>4
<1>6. ASSUME NEW x \in Logged', x.step = "TaskFailed", x.key[2] > 0,
             NEW d \in Logged', d.step = "ObservationDrafted"
      PROVE  d.key[2] < x.key[2]
  <2>1. CASE x \in Logged /\ d \in Logged
    BY <1>6, <2>1 DEF Verdicts
  <2>2. CASE x = e \/ d = e
    BY <1>6, <2>2
  <2>. QED BY <2>1, <2>2
<1>. QED BY <1>3, <1>4, <1>5, <1>6 DEF Verdicts, Capped, Decides

\* The beginning of a batch has no verdicts yet.
LEMMA EarlyVerdicts ==
  ASSUME \A e \in Logged' : /\ e.body.about = e.key /\ ~Capped(e)
                            /\ e.step \notin {"ObservationRejected", "ObservationDrafted"}
  PROVE  Verdicts'
  BY DEF Verdicts, Capped, Decides

\* The steps before the first attempt.
LEMMA OpeningSteps ==
  ASSUME IInv, Verdicts, Ingest \/ \E b \in BOOLEAN : Triage(b) \/ Scan(b)
  PROVE  Verdicts' /\ InHandDrafted'
<1>. DEFINE New == {OnUnit("SubmissionIngested"), OnUnit("RenditionFrozen"), OnUnit("TriageDecided"),
                    OnUnit("ArmorScanned"), OnUnit("InjectionDetected"),
                    Observed("TaskFailed", NoCriterion, 0, "triage")}
<1>1. /\ "" # "attempt_cap_reached" /\ "triage" # "attempt_cap_reached"
  BY Zenon
<1>2. \A s, c, n, w : /\ Observed(s, c, n, w).body.about = Observed(s, c, n, w).key
                      /\ Observed(s, c, n, w).body.why = w /\ Observed(s, c, n, w).step = s
  BY DEF Observed
<1>3. \A e \in New : /\ e.body.about = e.key /\ ~Capped(e)
                     /\ e.step \notin {"ObservationRejected", "ObservationDrafted"}
  <2>1. \A s : OnUnit(s).body.about = OnUnit(s).key /\ ~Capped(OnUnit(s)) /\ OnUnit(s).step = s
    <3>. TAKE s
    <3>1. OnUnit(s).body.about = OnUnit(s).key /\ OnUnit(s).step = s
      BY DEF OnUnit, Observed
    <3>2. OnUnit(s).body.why = ""
      BY DEF OnUnit, Observed
    <3>3. ~Capped(OnUnit(s))
      BY <1>1, <3>2, Zenon DEF Capped
    <3>. QED BY <3>1, <3>3
  <2>2. /\ Observed("TaskFailed", NoCriterion, 0, "triage").body.about =
             Observed("TaskFailed", NoCriterion, 0, "triage").key
        /\ ~Capped(Observed("TaskFailed", NoCriterion, 0, "triage"))
        /\ Observed("TaskFailed", NoCriterion, 0, "triage").step = "TaskFailed"
    BY DEF Observed, Capped
  <2>. HIDE DEF New
  <2>3. ASSUME NEW s \in {"SubmissionIngested", "RenditionFrozen", "TriageDecided",
                          "ArmorScanned", "InjectionDetected"}
        PROVE  OnUnit(s).step \notin {"ObservationRejected", "ObservationDrafted"}
    BY <2>1
  <2>. QED BY <2>1, <2>2, <2>3 DEF New
<1>4. \A e \in Logged' : e \in Logged \/ e \in New
  <2>. DEFINE x == OnUnit("TriageDecided")
              y == Observed("TaskFailed", NoCriterion, 0, "triage")
              u == OnUnit("ArmorScanned")
              v == OnUnit("InjectionDetected")
              a == OnUnit("SubmissionIngested")
              b == OnUnit("RenditionFrozen")
  <2>0. events \in Seq(Event)
    BY EventsTyped DEF IInv
  <2>1. \/ events' = <<a, b>>
        \/ events' = Append(events, x) \/ events' = events \o <<x, y>>
        \/ events' = Append(events, u) \o <<v>> \/ events' = Append(events, u) \o <<>>
    BY DEF Ingest, Triage, Scan
  <2>. HIDE DEF x, y, u, v, a, b
  <2>2. \A e \in Logged' : e \in Logged \/ e \in {a, b, x, y, u, v}
    <3>1. CASE events' = <<a, b>>
      BY <3>1 DEF Logged
    <3>2. CASE events' = Append(events, x)
      BY <2>0, <3>2, LoggedAppend DEF IInv
    <3>3. CASE events' = events \o <<x, y>>
      <4>1. /\ Len(events) \in Nat /\ DOMAIN events = 1 .. Len(events)
            /\ DOMAIN events' = 1 .. Len(events) + 2
            /\ \A i \in 1 .. Len(events) : events'[i] = events[i]
            /\ events'[Len(events) + 1] = x /\ events'[Len(events) + 2] = y
        BY <2>0, <3>3
      <4>. QED BY <4>1 DEF Logged
    <3>4. CASE events' = Append(events, u) \o <<v>>
      <4>1. /\ Len(events) \in Nat /\ DOMAIN events = 1 .. Len(events)
            /\ DOMAIN events' = 1 .. Len(events) + 2
            /\ \A i \in 1 .. Len(events) : events'[i] = events[i]
            /\ events'[Len(events) + 1] = u /\ events'[Len(events) + 2] = v
        BY <2>0, <3>4
      <4>. QED BY <4>1 DEF Logged
    <3>5. CASE events' = Append(events, u) \o <<>>
      <4>1. events' = Append(events, u)
        BY <2>0, <3>5
      <4>. QED BY <4>1, LoggedAppend DEF IInv
    <3>. QED BY <2>1, <3>1, <3>2, <3>3, <3>4, <3>5
  <2>. QED BY <2>2 DEF x, y, u, v, a, b
<1>5. \A e \in Logged : /\ e.body.about = e.key /\ ~Capped(e)
                        /\ e.step \notin {"ObservationRejected", "ObservationDrafted"}
  <2>1. CASE pc = "ingest"
    BY <2>1 DEF IInv, Opened, Logged
  <2>2. CASE pc \in {"triage", "scan"}
    <3>1. \A e \in Logged : /\ e.step \in {"SubmissionIngested", "RenditionFrozen", "TriageDecided"}
                            /\ e.body.why = ""
      BY <2>2 DEF IInv, Opened
    <3>2. \A e \in Logged : ~Capped(e)
      BY <1>1, <3>1, Zenon DEF Capped
    <3>3. \A e \in Logged : e.step \notin {"ObservationRejected", "ObservationDrafted"}
      BY <2>2 DEF IInv, Opened
    <3>. QED BY <3>2, <3>3 DEF Verdicts
  <2>. QED BY <2>1, <2>2 DEF Ingest, Triage, Scan
<1>. HIDE DEF New
<1>6. Verdicts'
  BY <1>3, <1>4, <1>5, EarlyVerdicts
<1>7. InHandDrafted'
  BY DEF InHandDrafted, AtGate, Ingest, Triage, Scan
<1>. QED BY <1>6, <1>7

\* An event about the observation in hand.
LEMMA NotedVerdicts ==
  ASSUME IInv, Verdicts, pc \in AtGate, drafted # <<>>,
         NEW s \in CriterionOutcome \union {"ObservationDrafted", "ObservationRejected"},
         NEW w \in GateReason,
         s = "ObservationDrafted" => pc = "gate",
         s = "ObservationRejected" => Has("ObservationDrafted", Current, attempt),
         Note(s, w)
  PROVE  /\ Verdicts'
         /\ \A t, c, n : Has(t, c, n) => Has(t, c, n)'
         /\ \E e \in Logged' : e.step = s /\ e.key = <<Current, attempt>>
<1> DEFINE e == Observed(s, Current, attempt, w)
<1>1. /\ e.step = s /\ e.key = <<Current, attempt>> /\ e.key[1] = Current /\ e.key[2] = attempt
      /\ Logged' = Logged \union {e} /\ \A t, c, n : Has(t, c, n) => Has(t, c, n)'
  BY NoteStep
<1>2. e.body.about = e.key /\ e.body.why = w
  BY DEF Observed
<1>. HIDE DEF e
<1>3. ~Capped(e)
  BY <1>2, GateReasons DEF Capped
<1>4. s = "ObservationRejected" => \A f \in Logged : Decides(f) => f.key # e.key
  BY <1>1, InHand, WorkerRanks DEF Decides
<1>5. Decides(e) => \A f \in Logged : f.step = "ObservationRejected" => f.key # e.key
  BY <1>1, InHand
<1>6. s # "TaskFailed"
  BY WorkerRanks
<1>7. s = "ObservationDrafted" => \A f \in Logged : f.step # "TaskFailed"
  BY DEF IInv, Unsaid
<1>8. Verdicts'
  BY <1>1, <1>2, <1>3, <1>4, <1>5, <1>6, <1>7, OneMore
<1>. QED BY <1>1, <1>8

\* The steps of the gate.
LEMMA GateVerdicts ==
  ASSUME IInv, Verdicts, InHandDrafted, Gate
  PROVE  Verdicts' /\ InHandDrafted'
<1>1. pc \in AtGate /\ drafted # <<>>
  BY DEF IInv, Unsaid, Gate, Absence, Draft, CitationFails, CitationHolds, EntailmentDisagrees,
         EntailmentSupports, SecondReaderDenies, SecondReaderPasses, AtGate
<1>2. CASE Draft
  <2>1. /\ Note("ObservationDrafted", "") /\ pc = "gate" /\ UNCHANGED <<attempt, drafted>>
    BY <1>2 DEF Draft
  <2>2. \A w : w = "" => w \in GateReason
    BY GateReasons
  <2>3. Verdicts' /\ \E e \in Logged' : e.step = "ObservationDrafted" /\ e.key = <<Current, attempt>>
    BY <1>1, <2>1, GateReasons, NotedVerdicts
  <2>4. InHandDrafted'
    BY <2>1, <2>3 DEF InHandDrafted, Has, Current
  <2>. QED BY <2>3, <2>4
<1>3. CASE CitationFails
  <2>1. /\ Note("ObservationRejected", "citation") /\ pc = "citation" /\ pc' = "gate"
    BY <1>3 DEF CitationFails, NextDraft
  <2>2. Has("ObservationDrafted", Current, attempt)
    BY <2>1 DEF InHandDrafted, AtGate
  <2>3. Verdicts'
    BY <1>1, <2>1, <2>2, GateReasons, NotedVerdicts
  <2>. QED BY <2>1, <2>3 DEF InHandDrafted
<1>4. CASE \E s \in CriterionOutcome, w \in GateReason : Note(s, w) /\ NextDraft
  <2>. PICK s \in CriterionOutcome, w \in GateReason : Note(s, w) /\ NextDraft
    BY <1>4
  <2>1. s \notin {"ObservationDrafted", "ObservationRejected"}
    BY WorkerRanks
  <2>2. Verdicts'
    BY <1>1, <2>1, NotedVerdicts
  <2>. QED BY <2>2 DEF InHandDrafted, NextDraft
<1>5. CASE UNCHANGED <<events, drafted, attempt>> /\ pc \in AtGate \ {"gate"}
  <2>1. Logged' = Logged
    BY <1>5 DEF Logged
  <2>. QED BY <1>5, <2>1 DEF Verdicts, InHandDrafted, Has, Current, Capped, Decides
<1>6. /\ "" \in GateReason /\ "entailment_disagreement" \in GateReason
      /\ "second_reader_disagreement" \in GateReason
  BY GateReasons
<1>7. \/ Draft \/ CitationFails
      \/ \E s \in CriterionOutcome, w \in GateReason : Note(s, w) /\ NextDraft
      \/ UNCHANGED <<events, drafted, attempt>> /\ pc \in AtGate \ {"gate"}
  BY <1>6, WorkerRanks DEF Gate, Absence, CitationHolds, EntailmentDisagrees, Escalated,
         EntailmentSupports, SecondReaderDenies, SecondReaderPasses, AtGate
<1>. QED BY <1>2, <1>3, <1>4, <1>5, <1>7

\* Every step keeps the verdicts.
LEMMA VerdictsStep ==
  ASSUME IInv, Verdicts, InHandDrafted, [Next]_vars
  PROVE  Verdicts' /\ InHandDrafted'
<1>1. CASE Ingest \/ \E b \in BOOLEAN : Triage(b) \/ Scan(b)
  BY <1>1, OpeningSteps
<1>2. CASE Gate
  BY <1>2, GateVerdicts
<1>3. CASE AskMalformed
  <2>. DEFINE e == Observed("TaskFailed", NoCriterion, attempt + 1, "analysis")
  <2>1. /\ e.step = "TaskFailed" /\ e.body.about = e.key /\ e.key[2] = attempt + 1
        /\ e.body.why = "analysis"
    BY DEF Observed
  <2>2. events' = Append(events, e) /\ pc = "ask" /\ pc' = "escalate"
    BY <1>3 DEF AskMalformed
  <2>. HIDE DEF e
  <2>3. Logged' = Logged \union {e}
    BY <2>2, LoggedAppend DEF IInv
  <2>4. ~Capped(e) /\ ~Decides(e)
    BY <2>1, WorkerRanks DEF Capped, Decides
  <2>5. \A d \in Logged : d.key[2] < e.key[2]
    <3>1. attempt \in Nat /\ \A d \in Logged : d.key[2] \in Nat /\ d.key[2] <= attempt
      BY <2>2, EventsTyped, MaxAttemptsAssumption DEF IInv, TypeOK, Unsaid
    <3>. QED BY <2>1, <3>1
  <2>6. Verdicts'
    BY <2>1, <2>3, <2>4, <2>5, OneMore
  <2>. QED BY <2>2, <2>6 DEF InHandDrafted, AtGate
<1>4. ASSUME NEW c \in Criterion, Escalate(c) PROVE Verdicts' /\ InHandDrafted'
  <2>1. /\ CapEvent(c).step = "NeedsHumanReview" /\ CapEvent(c).body.about = CapEvent(c).key
        /\ CapEvent(c).key[2] = MaxAttempts /\ Capped(CapEvent(c))
    BY DEF CapEvent, Observed, Capped
  <2>2. events' = Append(events, CapEvent(c)) /\ pc = "escalate" /\ pc' = "escalate"
    BY <1>4 DEF Escalate
  <2>3. Logged' = Logged \union {CapEvent(c)}
    BY <2>2, LoggedAppend DEF IInv
  <2>4. Verdicts'
    BY <2>1, <2>3, OneMore
  <2>. QED BY <2>2, <2>4 DEF InHandDrafted, AtGate
<1>5. CASE \E how \in {"crashed", "cache_missing"} : Raise(how)
  <2>1. Logged' = {} /\ pc' \notin AtGate
    BY <1>5 DEF Raise, Logged, AtGate
  <2>. QED BY <2>1 DEF Verdicts, InHandDrafted
<1>6. CASE UNCHANGED events /\ (pc' \notin AtGate \ {"gate"} \/ UNCHANGED <<pc, drafted, attempt>>)
  <2>1. Logged' = Logged
    BY <1>6 DEF Logged
  <2>. QED BY <1>6, <2>1 DEF Verdicts, InHandDrafted, Has, Current, Capped, Decides
<1>. QED
  BY <1>1, <1>2, <1>3, <1>4, <1>5, <1>6
  DEF Next, vars, Unparseable, AskModel, LoopEnds, EndAttempt, Finish, AtGate

\* Strengthened by them, the worker's invariant holds throughout.
LEMMA VerdictsInvariance ==
  ASSUME Obedient
  PROVE  Spec => []RInv
<1>1. Init => Verdicts /\ InHandDrafted
  BY DEF Init, Verdicts, InHandDrafted, Logged, AtGate
<1>2. IInv /\ Verdicts /\ InHandDrafted /\ [Next]_vars => (Verdicts /\ InHandDrafted)'
  BY VerdictsStep
<1>. QED BY <1>1, <1>2, Invariance, PTL DEF Spec, RInv

\* So it can be folded event by event, in whatever order.
LEMMA IsABatch ==
  ASSUME RInv
  PROVE  IsBatch(Logged) /\ IsLogOf(events, Logged)
<1>0. TypeOK /\ OneEach /\ CapIsEarned /\ Verdicts /\ MaxAttempts \in Nat \ {0}
      /\ \A i, j \in DOMAIN events : EventId(events[i]) = EventId(events[j]) => i = j
  BY MaxAttemptsAssumption DEF RInv, IInv, OneIdentityEach, DistinctIn
<1>1. /\ events \in Seq(Event) /\ Logged = In(events)
      /\ \A e \in Logged : /\ e.step \in WorkerStep /\ e.key[2] \in Nat /\ e.unit = Unit
                            /\ e.key = <<e.key[1], e.key[2]>>
  BY <1>0, EventsTyped DEF Event
<1>2. \A e \in Logged : e.body.about = e.key /\ (Capped(e) => e.step = "NeedsHumanReview")
  BY <1>0 DEF Verdicts
<1>3. \A e, f \in Logged : EventId(e) = EventId(f) => e = f
  BY <1>0 DEF Logged
<1>4. \A e, f \in Logged : Decides(e) /\ Decides(f) /\ e.key[1] = f.key[1] => e = f
  BY <1>0 DEF OneEach, Decides
<1>5. ASSUME NEW e \in Logged, NEW d \in Logged, Capped(e), d \in Drafts(Logged, e)
      PROVE  \E r \in Logged : r.step = "ObservationRejected" /\ r.key[1] = e.key[1]
  <2>1. d.step = "ObservationDrafted" /\ d.key[2] = MaxAttempts
    BY <1>0, <1>5 DEF Verdicts, Drafts
  <2>2. MaxAttempts \in 1 .. MaxAttempts
    BY <1>0
  <2>3. \/ Has("ObservationRejected", e.key[1], MaxAttempts)
        \/ \E m \in 1 .. MaxAttempts : MalformedAt(m)
    BY <1>0, <1>5, <2>2 DEF CapIsEarned, Capped
  <2>4. ASSUME NEW m \in 1 .. MaxAttempts, MalformedAt(m) PROVE FALSE
    <3>1. PICK t \in Logged : t.step = "TaskFailed" /\ t.key = <<NoCriterion, m>>
      BY <2>4 DEF MalformedAt, Has
    <3>2. t.key[2] = m
      BY <3>1
    <3>3. d.key[2] < m
      BY <1>0, <2>1, <3>1, <3>2 DEF Verdicts
    <3>. QED BY <1>0, <2>1, <3>3
  <2>5. Has("ObservationRejected", e.key[1], MaxAttempts)
    BY <2>3, <2>4
  <2>. QED BY <2>5 DEF Has
<1>6. IsBatch(Logged)
  BY <1>1, <1>2, <1>3, <1>4, <1>5 DEF IsBatch
<1>7. Sortable(events)
  <2>1. Len(events) \in Nat /\ DOMAIN events = 1 .. Len(events)
    BY <1>1
  <2>2. \A i \in DOMAIN events : events[i] \in Logged
    BY DEF Logged
  <2>. QED BY <1>1, <2>1, <2>2, WorkerRanks DEF Sortable
<1>. QED BY <1>0, <1>1, <1>6, <1>7 DEF IsLogOf
-----------------------------------------------------------------------------
(* What is shown.                                                          *)

\* The page shows what the events of the log contribute.
ShowsTheLog == Page.claims = UNION {Shown(Logged, e) : e \in Logged}

\* What the fold of a worker's log shows is the sum of what its events show.
LEMMA PageIs ==
  ASSUME RInv
  PROVE  ShowsTheLog /\ IsBatch(Logged)
<1>1. Sums(Logged, Logged, Fold(events)) /\ IsBatch(Logged)
  BY IsABatch, FoldSums
<1>2. Page.claims = Fold(events).current
  BY DEF Page, Render
<1>. QED BY <1>1, <1>2 DEF Sums, ShowsTheLog

\* What the cap shows is an absence for a reader to look at.
LEMMA EmptiedKind ==
  ASSUME NEW o, Original(o)
  PROVE  /\ Marked(Emptied(o)).kind = "no_evidence"
         /\ Marked(o).kind = o.kind /\ Marked(o).checked = o.checked
<1>1. o = [ id |-> <<o.student, o.crit, o.attempts, o.id[4]>>, student |-> o.student,
           crit |-> o.crit, attempts |-> o.attempts, kind |-> o.kind, checked |-> o.checked,
           needs_human |-> o.needs_human, text |-> o.text ]
  BY Zenon DEF Original, IsObs
<1>2. DOMAIN o = {"id", "student", "crit", "attempts", "kind", "checked", "needs_human", "text"}
  BY <1>1
<1>. QED BY <1>2 DEF Marked, Emptied

\* A claim of the page comes from an event about its criterion and attempt.
LEMMA ClaimIs ==
  ASSUME RInv, NEW o \in Page.claims
  PROVE  \E e \in Logged : /\ o \in Shown(Logged, e) /\ Decides(e)
                           /\ o.crit = e.key[1] /\ o.attempts = e.key[2]
<1>1. PICK e \in Logged : o \in Shown(Logged, e)
  BY PageIs DEF ShowsTheLog
<1>. QED BY <1>1, PageIs, Ids

\* Nothing is shown as evidence that the validators did not pass, or that the
\* gate has rejected.
THEOREM EvidenceIsValidated ==
  ASSUME Obedient
  PROVE  Spec => []ShownIsValidated
<1>1. ASSUME RInv PROVE ShownIsValidated
  <2>. SUFFICES ASSUME NEW o \in Page.claims, o.kind = "evidence"
                PROVE  o.checked /\ ~Has("ObservationRejected", o.crit, o.attempts)
    BY DEF ShownIsValidated
  <2>1. PICK e \in Logged : /\ o \in Shown(Logged, e) /\ Decides(e)
                           /\ o.crit = e.key[1] /\ o.attempts = e.key[2]
    BY <1>1, ClaimIs
  <2>2. ~Capped(e) /\ e.step \in {"ObservationAccepted", "NeedsHumanReview"} /\ o.checked
    <3>1. CASE e.step = "ObservationAccepted" 
      <4>1. o = Observation(e)
        BY <2>1, <3>1 DEF Shown
      <4>2. ~Capped(e)
        BY <1>1, <3>1 DEF RInv, Verdicts
      <4>. QED BY <3>1, <4>1, <4>2 DEF Observation
    <3>2. CASE e.step = "NoEvidenceRecorded"
      <4>1. o = Observation(e)
        BY <2>1, <3>2 DEF Shown
      <4>2. Observation(e).kind = "no_evidence"
        BY <3>2 DEF Observation
      <4>. QED BY <4>1, <4>2
    <3>3. CASE e.step = "NeedsHumanReview" /\ Capped(e)
      <4>1. PICK d \in Drafts(Logged, e) : o = Marked(Emptied(Observation(d)))
        BY <2>1, <3>3 DEF Shown
      <4>2. o.kind = "no_evidence"
        BY <4>1, EmptiedKind, ObservationIs
      <4>. QED BY <4>2
    <3>4. CASE e.step = "NeedsHumanReview" /\ ~Capped(e)
      <4>1. o = Marked(Observation(e))
        BY <2>1, <3>4 DEF Shown
      <4>2. o.checked = Observation(e).checked
        BY <4>1, EmptiedKind, ObservationIs
      <4>3. Observation(e).checked = (e.step \in {"ObservationAccepted", "NeedsHumanReview"})
        BY DEF Observation
      <4>. QED BY <3>4, <4>2, <4>3
    <3>. QED BY <2>1, <3>1, <3>2, <3>3, <3>4, WorkerRanks DEF Decides
  <2>3. ASSUME NEW r \in Logged, r.step = "ObservationRejected", r.key = <<o.crit, o.attempts>>
        PROVE  FALSE
    <3>1. e.key = r.key
      BY <1>1, <2>1, <2>3, PageIs DEF IsBatch
    <3>. QED BY <1>1, <2>1, <2>2, <2>3, <3>1 DEF RInv, Verdicts
  <2>. QED BY <2>2, <2>3 DEF Has
<1>. QED BY <1>1, VerdictsInvariance, PTL

\* The sheet of a finished unit has one claim for each criterion; one can only
\* be missing where an answer could not be used.
THEOREM SheetIsWhole ==
  ASSUME Obedient
  PROVE  Spec => []OneClaimEach
<1>1. ASSUME RInv PROVE OneClaimEach
  <2>. SUFFICES ASSUME Analysed, NEW c \in Criterion
                PROVE  \/ \E o \in ClaimsOn(c) : ClaimsOn(c) = {o}
                       \/ ClaimsOn(c) = {} /\ Malformed
    BY DEF OneClaimEach
  <2>1. c \in Settled
    BY <1>1 DEF Analysed, RInv, IInv, Accounted
  <2>2. PICK e \in Logged : Decides(e) /\ e.key[1] = c
    BY <2>1 DEF Settled, Decides
  <2>3. IsBatch(Logged) /\ ShowsTheLog
    BY <1>1, PageIs
  <2>4. ClaimsOn(c) = Shown(Logged, e)
    <3>1. ASSUME NEW o \in ClaimsOn(c) PROVE o \in Shown(Logged, e)
      <4>1. PICK x \in Logged : o \in Shown(Logged, x) /\ Decides(x) /\ o.crit = x.key[1]
        BY <1>1, <3>1, ClaimIs DEF ClaimsOn
      <4>2. x = e
        BY <2>2, <2>3, <4>1 DEF IsBatch, ClaimsOn
      <4>. QED BY <4>1, <4>2
    <3>2. ASSUME NEW o \in Shown(Logged, e) PROVE o \in ClaimsOn(c)
      <4>1. o.crit = c
        BY <2>2, <2>3, Ids
      <4>. QED BY <2>3, <4>1 DEF ClaimsOn, ShowsTheLog
    <3>. QED BY <3>1, <3>2
  <2>5. CASE ~Capped(e)
    <3>1. Shown(Logged, e) \in {{Observation(e)}, {Marked(Observation(e))}}
      BY <2>2, <2>5, WorkerRanks DEF Shown, Decides
    <3>. QED BY <2>4, <3>1
  <2>6. CASE Capped(e)
    <3>1. e.step = "NeedsHumanReview" /\ e.key[2] = MaxAttempts
      BY <1>1, <2>6 DEF RInv, Verdicts
    <3>2. Shown(Logged, e) = {Marked(Emptied(Observation(d))) : d \in Drafts(Logged, e)}
      BY <2>6, <3>1 DEF Shown
    <3>3. \A d, x \in Drafts(Logged, e) : d = x
      BY <2>3 DEF Drafts, IsBatch, EventId
    <3>4. CASE Drafts(Logged, e) # {}
      BY <2>4, <3>2, <3>3, <3>4
    <3>5. CASE Drafts(Logged, e) = {}
      <4>1. MaxAttempts \in 1 .. MaxAttempts
        BY MaxAttemptsAssumption
      <4>2. \/ Has("ObservationRejected", e.key[1], MaxAttempts)
            \/ \E m \in 1 .. MaxAttempts : MalformedAt(m)
        BY <1>1, <2>6, <4>1 DEF RInv, IInv, CapIsEarned, Capped
      <4>3. ASSUME Has("ObservationRejected", e.key[1], MaxAttempts) PROVE FALSE
        <5>1. PICK r \in Logged : r.step = "ObservationRejected" /\ r.key = <<e.key[1], MaxAttempts>>
          BY <4>3 DEF Has
        <5>2. r.key = e.key /\ e.key = <<e.key[1], e.key[2]>>
          BY <2>3, <3>1, <5>1 DEF IsBatch
        <5>3. Has("ObservationDrafted", r.key[1], r.key[2])
          BY <1>1, <5>1 DEF RInv, Verdicts
        <5>. QED BY <3>5, <5>2, <5>3 DEF Has, Drafts
      <4>4. Malformed
        BY <4>2, <4>3 DEF Malformed
      <4>. QED BY <2>4, <3>2, <3>5, <4>4
    <3>. QED BY <3>4, <3>5
  <2>. QED BY <2>5, <2>6
<1>. QED BY <1>1, VerdictsInvariance, PTL

\* Whatever the order in which a store returns the events of the batch, the page
\* is the same (render(): "order-independent"); reversed is one such order.
THEOREM AnyOrderWillDo ==
  ASSUME Obedient
  PROVE  Spec => [](\A p : IsLogOf(p, Logged) => Render(p) = Page)
<1>1. ASSUME RInv, NEW p, IsLogOf(p, Logged) PROVE Render(p) = Page
  BY <1>1, IsABatch, OrderFree DEF Page
<1>2. RInv => \A p : IsLogOf(p, Logged) => Render(p) = Page
  BY <1>1
<1>. QED BY <1>2, VerdictsInvariance, PTL

\* A store that returns the events the other way round shows the same page.
THEOREM PageIsOrderFree ==
  ASSUME Obedient
  PROVE  Spec => []OrderDoesNotMatter
<1>1. ASSUME RInv PROVE OrderDoesNotMatter
  <2>. DEFINE q == Reverse(events)
              N == Len(events)
  <2>1. /\ N \in Nat /\ DOMAIN events = 1 .. N /\ Sortable(events) /\ Logged = In(events)
        /\ \A i, j \in DOMAIN events : EventId(events[i]) = EventId(events[j]) => i = j
    BY <1>1, IsABatch DEF IsLogOf, Sortable
  <2>2. Len(q) = N /\ DOMAIN q = 1 .. N /\ \A i \in 1 .. N : q[i] = events[N - i + 1]
    BY <2>1 DEF Reverse
  <2>. HIDE DEF q
  <2>3. \A i \in 1 .. N : N - i + 1 \in 1 .. N /\ N - (N - i + 1) + 1 = i
    BY <2>1
  <2>4. In(q) = Logged
    BY <2>1, <2>2, <2>3 DEF In
  <2>5. ASSUME NEW i \in DOMAIN q, NEW j \in DOMAIN q, EventId(q[i]) = EventId(q[j])
        PROVE  i = j
    <3>1. N - i + 1 = N - j + 1
      BY <2>1, <2>2, <2>3, <2>5
    <3>. QED BY <2>1, <2>2, <3>1
  <2>6. Sortable(q)
    BY <2>1, <2>2, <2>3 DEF Sortable
  <2>7. IsLogOf(q, Logged)
    BY <2>4, <2>5, <2>6 DEF IsLogOf
  <2>8. Render(q) = Render(events)
    BY <1>1, <2>7, IsABatch, OrderFree
  <2>. QED BY <2>8 DEF OrderDoesNotMatter, Page, q
<1>. QED BY <1>1, VerdictsInvariance, PTL

\* What a reader has seen of a run stays as it was while the log grows.
THEOREM SeenIsKept ==
  ASSUME Obedient
  PROVE  Spec => ShownStaysShown
<1>1. RInv => ShowsTheLog
  BY PageIs
<1>2. ASSUME RInv, [Next]_vars, events' # <<>> PROVE Logged \subseteq Logged'
  <2>1. CASE UNCHANGED events
    BY <2>1 DEF Logged
  <2>2. CASE \E e : events' = Append(events, e)
    BY <1>2, <2>2, LoggedAppend DEF RInv, IInv
  <2>3. CASE pc = "ingest"
    BY <1>2, <2>3 DEF RInv, IInv, Opened, Logged
  <2>4. CASE \E t \in Seq(Event) : events' = events \o t
    <3>1. PICK t \in Seq(Event) : events' = events \o t
      BY <2>4
    <3>2. events \in Seq(Event)
      BY <1>2, EventsTyped DEF RInv, IInv
    <3>3. \A i \in DOMAIN events : i \in DOMAIN events' /\ events'[i] = events[i]
      BY <3>1, <3>2
    <3>. QED BY <3>3 DEF Logged
  <2>5. \/ UNCHANGED events \/ pc = "ingest"
        \/ \E e : events' = Append(events, e)
        \/ \E t \in Seq(Event) : events' = events \o t
    <3>1. ASSUME NEW b \in BOOLEAN, Triage(b) \/ Scan(b)
          PROVE  \/ \E e : events' = Append(events, e)
                 \/ \E t \in Seq(Event) : events' = events \o t
      <4>. DEFINE x == OnUnit("TriageDecided")
                  y == Observed("TaskFailed", NoCriterion, 0, "triage")
                  u == OnUnit("ArmorScanned")
                  v == OnUnit("InjectionDetected")
      <4>1. x \in Event /\ y \in Event /\ u \in Event /\ v \in Event
        BY OnUnitIsEvent, ObservedIsEvent, Reasons DEF WorkerStep
      <4>2. \/ events' = Append(events, x) \/ events' = events \o <<x, y>>
            \/ events' = Append(events, u) \o <<v>> \/ events' = Append(events, u) \o <<>>
        BY <3>1 DEF Triage, Scan
      <4>. HIDE DEF x, y, u, v
      <4>3. events \in Seq(Event)
        BY <1>2, EventsTyped DEF RInv, IInv
      <4>4. <<x, y>> \in Seq(Event) /\ <<u, v>> \in Seq(Event)
        BY <4>1
      <4>5. /\ Append(events, u) \o <<v>> = events \o <<u, v>>
            /\ Append(events, u) \o <<>> = Append(events, u)
        BY <4>1, <4>3
      <4>. QED BY <4>2, <4>4, <4>5
    <3>2. ASSUME Gate \/ \E c \in Criterion : Escalate(c)
          PROVE  UNCHANGED events \/ \E e : events' = Append(events, e)
      BY <3>2 DEF Gate, Absence, Draft, CitationFails, CitationHolds, EntailmentDisagrees, Escalated,
         EntailmentSupports, SecondReaderDenies, SecondReaderPasses, Escalate, Note
    <3>. QED BY <1>2, <3>1, <3>2
         DEF Next, vars, Unparseable, Ingest, AskModel, AskMalformed, LoopEnds, EndAttempt, Finish, Raise
  <2>. QED BY <2>1, <2>2, <2>3, <2>4, <2>5
<1>3. ASSUME ShowsTheLog, ShowsTheLog', Logged \subseteq Logged'
      PROVE  Page.claims \subseteq Render(events').claims
  <2>1. Render(events').claims = UNION {Shown(Logged', e) : e \in Logged'}
    BY <1>3 DEF ShowsTheLog, Page
  <2>2. \A e \in Logged : Shown(Logged, e) \subseteq Shown(Logged', e)
    BY <1>3 DEF Shown, Drafts
  <2>. QED BY <1>3, <2>1, <2>2 DEF ShowsTheLog
<1>4. RInv /\ ShowsTheLog /\ ShowsTheLog' /\ [Next]_vars =>
        (events' # <<>> => Page.claims \subseteq Render(events').claims)
  BY <1>2, <1>3
<1>. QED BY <1>1, <1>4, VerdictsInvariance, PTL DEF Spec, ShownStaysShown

\* As long as every answer could be used, whatever the cap escalates had been
\* drafted: it was rejected, and only a draft is.
LEMMA EscalatedAreDrafted ==
  ASSUME RInv, ~Malformed, NEW e \in Logged, Capped(e)
  PROVE  e.key[2] = MaxAttempts /\ Has("ObservationDrafted", e.key[1], MaxAttempts)
<1>1. CapIsEarned /\ Verdicts /\ MaxAttempts \in 1 .. MaxAttempts
  BY MaxAttemptsAssumption DEF RInv, IInv
<1>2. \A m \in 1 .. MaxAttempts : ~MalformedAt(m)
  BY DEF Malformed
<1>3. Has("ObservationRejected", e.key[1], MaxAttempts)
  BY <1>1, <1>2 DEF CapIsEarned, Capped
<1>4. PICK r \in Logged : r.step = "ObservationRejected" /\ r.key = <<e.key[1], MaxAttempts>>
  BY <1>3 DEF Has
<1>5. Has("ObservationDrafted", r.key[1], r.key[2])
  BY <1>1, <1>4 DEF Verdicts
<1>. QED BY <1>1, <1>4, <1>5 DEF Verdicts

\* Seen from the positions of the log, as the fold takes them.
LEMMA CapsAreDrafted ==
  ASSUME RInv, ~Malformed
  PROVE  CapsHaveDrafts(events)
<1>1. Verdicts /\ \A e \in Logged : e.unit = Unit
  BY IsABatch DEF RInv, IsBatch
<1>. SUFFICES ASSUME NEW i \in DOMAIN events, events[i].step = "NeedsHumanReview",
                     events[i].body.why = "attempt_cap_reached"
              PROVE  \E j \in DOMAIN events :
                       /\ events[j].step = "ObservationDrafted"
                       /\ ObservationId(events[j]) = ObservationId(events[i])
  BY DEF CapsHaveDrafts
<1>. DEFINE e == events[i]
<1>2. e \in Logged /\ Capped(e)
  BY DEF Logged, Capped
<1>. HIDE DEF e
<1>3. e.key[2] = MaxAttempts /\ e.body.about = e.key
  BY <1>1, <1>2 DEF Verdicts
<1>7. PICK d \in Logged : d.step = "ObservationDrafted" /\ d.key = <<e.key[1], MaxAttempts>>
  BY <1>2, EscalatedAreDrafted DEF Has
<1>8. d.body.about = d.key /\ d.unit = Unit /\ e.unit = Unit
  BY <1>1, <1>2, <1>7 DEF Verdicts
<1>9. ObservationId(d) = ObservationId(e)
  BY <1>3, <1>7, <1>8 DEF ObservationId
<1>10. PICK j \in DOMAIN events : d = events[j]
  BY <1>7 DEF Logged
<1>. QED BY <1>7, <1>9, <1>10 DEF e

\* Then the tiles and the table agree at every moment, as long as every answer could
\* be used: nothing is escalated without a draft.
THEOREM TilesAndTableAgree ==
  ASSUME Obedient
  PROVE  Spec => [](~Malformed => TilesExceedByUndrafted)
<1>1. ASSUME RInv, ~Malformed PROVE TilesExceedByUndrafted
  <2>1. Sortable(events)
    BY <1>1, IsABatch DEF IsLogOf
  <2>2. AddsUp(Page) /\ Page.terminal_outcomes["needs_human"] \in Nat
    BY <1>1, <2>1, CapsAreDrafted, TablesAgree DEF Page
  <2>3. Undrafted = {}
    <3>1. \A e \in Logged : e.body.about[1] = e.key[1]
      BY <1>1 DEF RInv, Verdicts
    <3>. QED BY <1>1, <3>1, EscalatedAreDrafted DEF Undrafted, Capped
  <2>4. Cardinality(Undrafted) = 0
    BY <2>3, FS_EmptySet
  <2>. HIDE DEF Page
  <2>. QED BY <2>2, <2>3, <2>4 DEF TilesExceedByUndrafted, AddsUp
<1>2. RInv => (~Malformed => TilesExceedByUndrafted)
  BY <1>1
<1>. QED BY <1>2, VerdictsInvariance, PTL
=============================================================================
