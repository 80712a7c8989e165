------------------------------ MODULE MCStores ------------------------------
(* Two processes; the first has two threads.  The deployed store is written *)
(* to by all three threads at once.                                         *)
EXTENDS Stores

CONSTANTS p1, p2, t1, t2, t3

MCProcess == {p1, p2}
MCThread == {t1, t2, t3}
MCOwner == [t \in Thread |-> IF t = t3 THEN p2 ELSE p1]
=============================================================================
