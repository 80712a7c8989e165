---------------------------- MODULE MCLocalStore ----------------------------
(* Two processes; the first has two threads, of which some runs use one.   *)
EXTENDS LocalStore

CONSTANTS p1, p2, t1, t2, t3

AllThreads == {t1, t2, t3}
OneThreadEach == {t1, t3}
MCProcess == {p1, p2}
MCOwner == [t \in Thread |-> IF t = t3 THEN p2 ELSE p1]
=============================================================================
