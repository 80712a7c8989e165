------------------------------ MODULE MCReview ------------------------------
(* Three criteria, usable answers that give each criterion asked one entry.  *)
EXTENDS Review

CONSTANTS c1, c2, c3

MCCriterion == {c1, c2, c3}
NoStray == {}
MCReply == BoundedSeq(Entry, 3)
=============================================================================
