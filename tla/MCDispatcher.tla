---------------------------- MODULE MCDispatcher ----------------------------
(* Two students; a unit that took two attempts alone exceeds the budget of *)
(* one, so that the breaker trips while the other is outstanding.          *)
EXTENDS Dispatcher

CONSTANTS s1, s2

TwoStudents == {s1, s2}

MCKey == {"unit", "c1.2"}
MCPayload == {"", "claim"}

Ev(step, key, what, stamped) ==
  [step |-> step, key |-> key, what |-> what, stamped |-> stamped]

\* What the model said is the same whenever it runs; created_at is not.
Retried ==
  [kind |-> "outcome", attempts |-> 2,
   batch |-> <<Ev("SubmissionIngested", "unit", "", FALSE),
               Ev("ObservationAccepted", "c1.2", "claim", TRUE)>>]

OneOutcome == {Retried}
=============================================================================
