------------------------------ MODULE MCWorker ------------------------------
(* Two criteria and one id outside the rubric.                             *)
EXTENDS Worker, SequencesExt

CONSTANTS c1, c2, s1

MCCriterion == {c1, c2}
OneStray == {s1}

\* The answers with at most two entries.
MCReply == BoundedSeq(Entry, 2)
=============================================================================
