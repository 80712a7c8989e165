---------------------------- MODULE RunContract -----------------------------
(***************************************************************************)
(* What a run promises (the docstring of analysis/dispatcher.py): every    *)
(* dispatched unit is accounted for exactly once, nobody's fate is taken   *)
(* back, and a run that reports completion leaves no one out.  A run may   *)
(* also stop without completing; the same run id can then be run again.    *)
(***************************************************************************)
CONSTANT Student

VARIABLES
  fate,    \* [Student -> what the run has to say of the unit]
  status   \* "open", "completed" or "stopped"

Decided == {"analysed", "failed", "abandoned"}

Init ==
  /\ fate = [s \in Student |-> "undecided"]
  /\ status = "open"

Decide(s, f) ==
  /\ status = "open"
  /\ fate[s] = "undecided"
  /\ fate' = [fate EXCEPT ![s] = f]
  /\ UNCHANGED status

Complete ==
  /\ status = "open"
  /\ \A s \in Student : fate[s] \in Decided
  /\ status' = "completed"
  /\ UNCHANGED fate

Stop ==
  /\ status = "open"
  /\ status' = "stopped"
  /\ UNCHANGED fate

Again ==
  /\ status # "open"
  /\ fate' = [s \in Student |-> "undecided"]
  /\ status' = "open"

Next ==
  \/ \E s \in Student, f \in Decided : Decide(s, f)
  \/ Complete \/ Stop \/ Again

Spec == Init /\ [][Next]_<<fate, status>>
=============================================================================
