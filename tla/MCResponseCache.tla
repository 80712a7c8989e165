-------------------------- MODULE MCResponseCache ---------------------------
(* Three callers and one answer of each sort.                              *)
EXTENDS ResponseCache, TLC

AnyCaller == Permutations(Caller)
=============================================================================
