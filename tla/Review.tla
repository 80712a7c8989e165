------------------------------- MODULE Review -------------------------------
(***************************************************************************)
(* What the instructor sees of what the worker did: the log a worker's     *)
(* batch leaves, folded by render().  The batch is written one event at a  *)
(* time and the docket may be opened over a run that is under way or was   *)
(* killed, so the fold is looked at after every event, not only at the end. *)
(***************************************************************************)
EXTENDS Worker, Render

Page == Render(events)

ClaimsOn(c) == {o \in Page.claims : o.crit = c}

Malformed == \E n \in 1 .. MaxAttempts : MalformedAt(n)

Analysed == pc = "done" /\ ~ExcludedByTriage

\* Whatever is shown as evidence has a citation that was validated and that the
\* gate has not rejected, at any moment of the run (the comments in render() on
\* drafts: "an observation that the validator went on to REJECT still rendered
\* on the sheet").
ShownIsValidated ==
  \A o \in Page.claims :
    o.kind = "evidence" => o.checked /\ ~Has("ObservationRejected", o.crit, o.attempts)

\* A finished unit shows each criterion of the rubric once; a criterion can only
\* be missing where an answer could not be used (the sheet the escalation and
\* the fold build together).
OneClaimEach ==
  Analysed =>
    \A c \in Criterion :
      \/ \E o \in ClaimsOn(c) : ClaimsOn(c) = {o}
      \/ ClaimsOn(c) = {} /\ Malformed

\* What the cap escalates under the id of a draft nobody made.
Undrafted ==
  {c \in Criterion :
     /\ \E e \in Logged : e.body.why = "attempt_cap_reached" /\ e.body.about[1] = c
     /\ ~Has("ObservationDrafted", c, MaxAttempts)}

\* Whatever the model answers and at every moment, tiles and table agree (render():
\* "so a column here sums to its tile there") but for what the cap escalates of an
\* attempt that drafted nothing: it counts as in need of a human, in no column and on
\* no sheet, and takes an unusable answer (worker: the id "Must match the ID minted in
\* _parse_observations").
TilesExceedByUndrafted ==
  LET tiles == Page.terminal_outcomes IN
  /\ InColumn(Page, "no_evidence") = tiles["no_evidence"]
  /\ InColumn(Page, "evidence") =
       tiles["accepted_first_attempt"] + tiles["accepted_after_retry"]
  /\ InColumn(Page, "needs_human") + Cardinality(Undrafted) = tiles["needs_human"]
  /\ \A c \in Undrafted : ClaimsOn(c) = {} /\ Malformed

\* The page is a function of the set of events: a store that returns them the
\* other way round shows the same (render(): "order-independent").
OrderDoesNotMatter == Render(Reverse(events)) = Page

\* What a reader has seen of a run does not change or vanish as the rest of the
\* log arrives.
ShownStaysShown ==
  [][events' # <<>> => Page.claims \subseteq Render(events').claims]_vars
=============================================================================
