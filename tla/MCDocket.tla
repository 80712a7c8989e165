------------------------------ MODULE MCDocket ------------------------------
(* One run of one student of two: a draft the cap escalated after its      *)
(* rejection, and an absence.                                              *)
EXTENDS Docket

CONSTANTS s1, s2, c1, c2

AnyRequest == Permutations(Request)

TwoStudents == {s1, s2}

Ev(step, s, c, why) ==
  [step |-> step, unit |-> s, key |-> <<c, 1>>, body |-> [why |-> why, about |-> <<c, 1>>]]

OneLog ==
  { << Ev("SubmissionIngested", s1, "", ""),
       Ev("ObservationDrafted", s1, c1, ""), Ev("ObservationRejected", s1, c1, ""),
       Ev("NeedsHumanReview", s1, c1, "attempt_cap_reached"),
       Ev("NoEvidenceRecorded", s1, c2, "") >> }
=============================================================================
