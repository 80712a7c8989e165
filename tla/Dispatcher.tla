----------------------------- MODULE Dispatcher -----------------------------
(***************************************************************************)
(* The dispatcher (analysis/dispatcher.py, run_pipeline): it fans the      *)
(* submissions out over a thread pool, takes what the workers return from  *)
(* as_completed under a deadline, and alone writes the event log.          *)
(*                                                                         *)
(* Workers take any time, for ever included; the clock moves between any   *)
(* two steps; the process may be killed anywhere and the run id run again  *)
(* over the log that is there.                                             *)
(***************************************************************************)
EXTENDS Events, FiniteSets

CONSTANTS
  Student,
  RunId,
  Key,              \* criterion and attempt, the rest of an event's identity
  UnitKey,          \* the key of an event about a whole unit
  Payload,          \* what the payload of a worker's event says
  MaxWorkers,       \* size of the pool
  Outcome,          \* the WorkerOutcomes analyze_submission can return
  MaxTotalAttempts, \* MAX_TOTAL_ATTEMPTS
  MaxEpoch          \* bound: how often the run id is run

\* `stamped` tells the payloads that carry the time at which the worker ran
\* (created_at and provenance.ts of an observation).
WorkerEvent == [step : WorkerStep, key : Key, what : Payload, stamped : BOOLEAN]

Failed(k) == [kind |-> k, batch |-> <<>>, attempts |-> 0]
Result == Outcome \union {Failed(k) : k \in {"unparseable", "crashed", "cache_missing"}}
NotYet == Failed("not yet")

ASSUME StudentAssumption == IsFiniteSet(Student) /\ RunId \notin Student
ASSUME BoundAssumption ==
  /\ MaxWorkers \in Nat \ {0}
  /\ MaxTotalAttempts \in Nat
  /\ MaxEpoch \in Nat \ {0}

ASSUME KeyAssumption == UnitKey \in Key

\* What a worker returns; that no two events of a batch share an identity is
\* what module Worker checks of it (HandsOverABatch).
ASSUME OutcomeAssumption ==
  \A o \in Outcome :
    /\ o.kind = "outcome"
    /\ o.attempts \in Nat
    /\ o.batch \in Seq(WorkerEvent)
    /\ \A i, j \in DOMAIN o.batch :
         o.batch[i].step = o.batch[j].step /\ o.batch[i].key = o.batch[j].key => i = j

VARIABLES
  pc,        \* where in run_pipeline the dispatcher is
  clock,     \* 0; 1: t_max has passed; 2: MAX_WALL_CLOCK_SECONDS as well
  fut,       \* [Student -> state of the future]
  result,    \* [Student -> what the future holds]
  waiting,   \* the futures as_completed has not collected
  fetched,   \* those it has collected and not yielded
  cur,       \* the unit of the iteration
  late,      \* `elapsed`, read when the iteration begins
  queue,     \* the events of its batch still to write
  todo,      \* the units the abandoning loop has still to visit
  terminal, completed, failed, abandoned,
  attempts,  \* total_attempts
  epoch,     \* which execution of the run id this is
  log        \* the event store

loop == <<waiting, fetched, cur, late>>
ledger == <<terminal, completed, failed, abandoned, attempts>>
pool == <<fut, result>>
vars == <<pc, clock, pool, loop, queue, todo, ledger, epoch, log>>

Ended == {"done", "collided", "cache_missing", "killed"}
Active == {"begin", "wait", "body", "abort", "result", "write",
           "deadline", "breaker", "join", "render"}
-----------------------------------------------------------------------------
(* Events.                                                                 *)

Fact(s, u, k, w, n) ==
  [step |-> s, unit |-> u, key |-> k, body |-> [what |-> w, n |-> n]]

RunStarted == Fact("RunStarted", RunId, UnitKey, "", <<>>)

TaskFailed(s) ==
  Fact("TaskFailed", s, UnitKey,
       IF result[s].kind = "unparseable" THEN "ingest" ELSE "worker", <<>>)

\* The reason of a wall-clock abort quotes the seconds.
RunAborted ==
  Fact("RunAborted", RunId, UnitKey,
       IF late = 2 THEN "wall clock" ELSE "total attempts",
       IF late = 2 THEN <<epoch>> ELSE <<attempts>>)

Abandonment(s) ==
  Fact("TaskAbandoned", s, UnitKey,
       IF pc = "breaker" THEN "run_aborted" ELSE "join_timeout", <<>>)

\* MUTANT of RenderCompleted: a step the closed vocabulary does not have.
RenderCompletedInvented ==
  Fact("RunCompleted", RunId, UnitKey, "",
       <<Cardinality(completed), Cardinality(abandoned), Cardinality(failed)>>)

RenderCompleted ==
  Fact("RenderCompleted", RunId, UnitKey, "",
       <<Cardinality(completed), Cardinality(abandoned), Cardinality(failed)>>)

\* An event of s's batch: the one a worker of this execution made.
Stamped(s, e) ==
  Fact(e.step, s, e.key, e.what, IF e.stamped THEN <<epoch>> ELSE <<>>)

\* store.create() as module LocalStore promises it: written, or known already.
Write(e) ==
  /\ ~Collides(log, e)
  /\ log' = log \union {e}

Finished == {s \in Student : fut[s] = "finished"}

\* MUTANT of Unsettled: units in the ledger are visited all the same.
EveryUnit == Student

\* `if ref.student_id not in terminal`
Unsettled == Student \ terminal

\* pool.shutdown(wait=False, cancel_futures=True)
Cancelled == [s \in Student |-> IF fut[s] = "queued" THEN "cancelled" ELSE fut[s]]
-----------------------------------------------------------------------------
Init ==
  /\ pc = "start"
  /\ clock = 0
  /\ fut = [s \in Student |-> "none"]
  /\ result = [s \in Student |-> NotYet]
  /\ waiting = {} /\ fetched = {} /\ cur = RunId /\ late = 0
  /\ queue = <<>> /\ todo = {}
  /\ terminal = {} /\ completed = {} /\ failed = {} /\ abandoned = {}
  /\ attempts = 0
  /\ epoch = 1
  /\ log = {}

\* list_submissions(), RunStarted, and everything is submitted to the pool.
Start ==
  /\ pc = "start"
  /\ Write(RunStarted)
  /\ fut' = [s \in Student |-> "queued"]
  /\ waiting' = Student
  /\ pc' = "begin"
  /\ UNCHANGED <<clock, result, fetched, cur, late, queue, todo, ledger, epoch>>

\* A thread of the pool picks a submission up (_run_one) ...
WorkerTakes(s) ==
  /\ fut[s] = "queued"
  /\ Cardinality({u \in Student : fut[u] = "running"}) < MaxWorkers
  /\ fut' = [fut EXCEPT ![s] = "running"]
  /\ UNCHANGED <<pc, clock, result, loop, queue, todo, ledger, epoch, log>>

\* ... and some day returns, or raises.
WorkerReturns(s, r) ==
  /\ fut[s] = "running"
  /\ fut' = [fut EXCEPT ![s] = "finished"]
  /\ result' = [result EXCEPT ![s] = r]
  /\ UNCHANGED <<pc, clock, loop, queue, todo, ledger, epoch, log>>

Tick ==
  /\ pc \in Active
  /\ clock < 2
  /\ clock' = clock + 1
  /\ UNCHANGED <<pc, pool, loop, queue, todo, ledger, epoch, log>>
-----------------------------------------------------------------------------
(* as_completed.                                                           *)

\* What has finished already is yielded before any deadline is looked at.
Begin ==
  /\ pc = "begin"
  /\ fetched' = Finished
  /\ waiting' = waiting \ Finished
  /\ pc' = "body"
  /\ UNCHANGED <<clock, pool, cur, late, queue, todo, ledger, epoch, log>>

\* Nothing left to yield: wait for more, if there is any and there is time ...
Await ==
  /\ pc = "body" /\ fetched = {} /\ waiting # {}
  /\ clock = 0
  /\ pc' = "wait"
  /\ UNCHANGED <<clock, pool, loop, queue, todo, ledger, epoch, log>>

Fetch ==
  /\ pc = "wait"
  /\ waiting \intersect Finished # {}
  /\ fetched' = waiting \intersect Finished
  /\ waiting' = waiting \ Finished
  /\ pc' = "body"
  /\ UNCHANGED <<clock, pool, cur, late, queue, todo, ledger, epoch, log>>

\* MUTANT of WaitTimesOut: as_completed(futures, timeout=None).
WaitForEver == FALSE

WaitTimesOut ==
  /\ pc = "wait"
  /\ clock > 0
  /\ waiting \intersect Finished = {}
  /\ pc' = "body"
  /\ UNCHANGED <<clock, pool, loop, queue, todo, ledger, epoch, log>>

\* MUTANT of Timeout: the remaining time is counted from zero.
TimeoutAtOnce ==
  /\ pc = "body" /\ fetched = {} /\ waiting # {}
  /\ pc' = "deadline"
  /\ todo' = Unsettled
  /\ UNCHANGED <<clock, pool, loop, queue, ledger, epoch, log>>

\* ... TimeoutError when the deadline has passed, whatever has finished since, ...
Timeout ==
  /\ pc = "body" /\ fetched = {} /\ waiting # {}
  /\ clock > 0
  /\ pc' = "deadline"
  /\ todo' = Unsettled
  /\ UNCHANGED <<clock, pool, loop, queue, ledger, epoch, log>>

\* ... or the loop is over.
Exhausted ==
  /\ pc = "body" /\ fetched = {} /\ waiting = {}
  /\ pc' = "join"
  /\ todo' = Unsettled
  /\ UNCHANGED <<clock, pool, loop, queue, ledger, epoch, log>>
-----------------------------------------------------------------------------
(* One iteration.                                                          *)

\* MUTANT of Tripped: only the clock is looked at.
TrippedByClock == clock = 2

\* The circuit breaker.
Tripped == clock = 2 \/ attempts > MaxTotalAttempts

Yield(s) ==
  /\ pc = "body"
  /\ s \in fetched
  /\ fetched' = fetched \ {s}
  /\ cur' = s
  /\ late' = clock
  /\ pc' = IF Tripped THEN "abort" ELSE "result"
  /\ UNCHANGED <<clock, pool, waiting, queue, todo, ledger, epoch, log>>

\* MUTANT of Abort: the breaker is recorded and the iteration goes on.
AbortAndGoOn ==
  /\ pc = "abort"
  /\ Write(RunAborted)
  /\ pc' = "result"
  /\ UNCHANGED <<clock, pool, loop, queue, todo, ledger, epoch>>

Abort ==
  /\ pc = "abort"
  /\ Write(RunAborted)
  /\ pc' = "breaker"
  /\ todo' = Unsettled
  /\ UNCHANGED <<clock, pool, loop, queue, ledger, epoch>>

\* An answer the offline cache does not hold: re-raised, the run stops.
CacheMissing ==
  /\ pc = "result"
  /\ result[cur].kind = "cache_missing"
  /\ pc' = "cache_missing"
  /\ fut' = Cancelled
  /\ UNCHANGED <<clock, result, loop, queue, todo, ledger, epoch, log>>

\* MUTANT of Blamed: whatever the worker raised is the submission's failure.
BlamedForAnything == {"crashed", "unparseable", "cache_missing"}

\* The worker raised, or the submission would not parse.
Blamed == {"crashed", "unparseable"}

Fail ==
  /\ pc = "result"
  /\ result[cur].kind \in Blamed
  /\ Write(TaskFailed(cur))
  /\ failed' = failed \union {cur}
  /\ terminal' = terminal \union {cur}
  /\ pc' = "body"
  /\ UNCHANGED <<clock, pool, loop, queue, todo, completed, abandoned, attempts, epoch>>

TakeBatch ==
  /\ pc = "result"
  /\ result[cur].kind = "outcome"
  /\ queue' = result[cur].batch
  /\ pc' = "write"
  /\ UNCHANGED <<clock, pool, loop, todo, ledger, epoch, log>>

WriteNext ==
  /\ pc = "write"
  /\ queue # <<>>
  /\ Write(Stamped(cur, Head(queue)))
  /\ queue' = Tail(queue)
  /\ UNCHANGED <<pc, clock, pool, loop, todo, ledger, epoch>>

\* The unit is complete; past t_max everything outstanding is abandoned.
UnitDone ==
  /\ pc = "write"
  /\ queue = <<>>
  /\ attempts' = attempts + result[cur].attempts
  /\ completed' = completed \union {cur}
  /\ terminal' = terminal \union {cur}
  /\ IF late > 0
       THEN pc' = "deadline" /\ todo' = Unsettled \ {cur}
       ELSE pc' = "body" /\ UNCHANGED todo
  /\ UNCHANGED <<clock, pool, loop, queue, failed, abandoned, epoch, log>>
-----------------------------------------------------------------------------
(* The loops that abandon, and the end.                                    *)

\* MUTANT of AlreadyAbandoned: _abandon without its guard.
NeverAbandoned(s) == s \notin Student

\* MUTANT of AlreadyAbandoned: _abandon takes everybody for abandoned.
EverAbandoned(s) == s \in Student

AlreadyAbandoned(s) == s \in abandoned

\* Of the three loops only the deadline's marks the unit terminal.
MarkedTerminal(s) == IF pc = "deadline" THEN terminal \union {s} ELSE terminal

Abandon(s) ==
  /\ pc \in {"deadline", "breaker", "join"}
  /\ s \in todo
  /\ IF AlreadyAbandoned(s)
       THEN UNCHANGED <<abandoned, log>>
       ELSE Write(Abandonment(s)) /\ abandoned' = abandoned \union {s}
  /\ terminal' = MarkedTerminal(s)
  /\ todo' = todo \ {s}
  /\ UNCHANGED <<pc, clock, pool, loop, queue, completed, failed, attempts, epoch>>

Join ==
  /\ pc \in {"deadline", "breaker"}
  /\ todo = {}
  /\ pc' = "join"
  /\ todo' = Unsettled
  /\ UNCHANGED <<clock, pool, loop, queue, ledger, epoch, log>>

Shutdown ==
  /\ pc = "join"
  /\ todo = {}
  /\ fut' = Cancelled
  /\ pc' = "render"
  /\ UNCHANGED <<clock, result, loop, queue, todo, ledger, epoch, log>>

Render ==
  /\ pc = "render"
  /\ Write(RenderCompleted)
  /\ pc' = "done"
  /\ UNCHANGED <<clock, pool, loop, queue, todo, ledger, epoch>>

\* The event the dispatcher is about to write.
Upcoming ==
  CASE pc = "start" -> {RunStarted}
    [] pc = "abort" -> {RunAborted}
    [] pc = "result" /\ result[cur].kind \in Blamed -> {TaskFailed(cur)}
    [] pc = "write" /\ queue # <<>> -> {Stamped(cur, Head(queue))}
    [] pc \in {"deadline", "breaker", "join"} ->
         {Abandonment(s) : s \in {u \in todo : ~AlreadyAbandoned(u)}}
    [] pc = "render" -> {RenderCompleted}
    [] OTHER -> {}

\* EventIdCollision is caught nowhere: the pool is shut down and the run ends.
Collide ==
  /\ \E e \in Upcoming : Collides(log, e)
  /\ pc' = "collided"
  /\ fut' = Cancelled
  /\ UNCHANGED <<clock, result, loop, queue, todo, ledger, epoch, log>>

\* The process is killed, or a write fails otherwise: only the log remains.  (A
\* TimeoutError of the store, which the loop would take for its deadline, is left out.)
Kill ==
  /\ pc \in Active
  /\ pc' = "killed"
  /\ fut' = [s \in Student |-> "none"]
  /\ UNCHANGED <<clock, result, loop, queue, todo, ledger, epoch, log>>

\* `karani run --run-id` with the id of a run that ended.
Rerun ==
  /\ pc \in Ended
  /\ epoch < MaxEpoch
  /\ epoch' = epoch + 1
  /\ pc' = "start"
  /\ clock' = 0
  /\ fut' = [s \in Student |-> "none"]
  /\ result' = [s \in Student |-> NotYet]
  /\ waiting' = {} /\ fetched' = {} /\ cur' = RunId /\ late' = 0
  /\ queue' = <<>> /\ todo' = {}
  /\ terminal' = {} /\ completed' = {} /\ failed' = {} /\ abandoned' = {}
  /\ attempts' = 0
  /\ UNCHANGED log

Dispatch ==
  \/ Start \/ Begin \/ Await \/ Fetch \/ WaitTimesOut \/ Timeout \/ Exhausted
  \/ \E s \in Student : Yield(s) \/ Abandon(s)
  \/ Abort \/ CacheMissing \/ Fail \/ TakeBatch \/ WriteNext \/ UnitDone
  \/ Join \/ Shutdown \/ Render \/ Collide

Next ==
  \/ Dispatch \/ Tick \/ Kill \/ Rerun
  \/ \E s \in Student : WorkerTakes(s) \/ \E r \in Result : WorkerReturns(s, r)

\* The dispatcher's thread runs and time passes; the workers owe nothing.
Spec == Init /\ [][Next]_vars /\ WF_vars(Dispatch) /\ WF_vars(Tick)
-----------------------------------------------------------------------------
Reason == {"", "ingest", "worker", "wall clock", "total attempts",
           "join_timeout", "run_aborted"}

Event == [step : WorkerStep \union DispatcherStep,
          unit : Student \union {RunId},
          key : Key,
          body : [what : Payload \union Reason, n : Seq(Nat)]]

TypeOK ==
  /\ pc \in {"start"} \union Active \union Ended
  /\ clock \in 0 .. 2 /\ late \in 0 .. 2
  /\ fut \in [Student -> {"none", "queued", "running", "finished", "cancelled"}]
  /\ result \in [Student -> Result \union {NotYet}]
  /\ waiting \subseteq Student /\ fetched \subseteq Student /\ todo \subseteq Student
  /\ cur \in Student \union {RunId}
  /\ terminal \subseteq Student /\ completed \subseteq Student
  /\ failed \subseteq Student /\ abandoned \subseteq Student
  /\ attempts \in Nat /\ epoch \in 1 .. MaxEpoch
  /\ queue \in Seq(WorkerEvent)
  /\ \A e \in log : e \in Event

About(steps, s) == {e \in log : e.step \in steps /\ e.unit = s}

BatchOf(s) == {Stamped(s, result[s].batch[i]) : i \in DOMAIN result[s].batch}

\* A run that reports completion has accounted for every unit exactly once, and
\* the log says of each what the summary says (the docstring: "Every dispatched
\* unit ends in exactly one"; test_join_liveness).
EveryUnitAccounted ==
  pc = "done" =>
    /\ completed \union failed \union abandoned = Student
    /\ completed \intersect failed = {}
    /\ abandoned \intersect (completed \union failed) = {}
    /\ \A s \in completed : BatchOf(s) \subseteq log
    /\ \A s \in failed : About({"TaskFailed"}, s) # {}
    /\ \A s \in abandoned : About({"TaskAbandoned"}, s) # {}

\* A unit the join gave up on has nothing else in the log, however late its
\* worker answers: no student is both excluded and analysed.
AbandonedSaysNothingElse ==
  epoch = 1 =>
    \A s \in Student :
      About({"TaskAbandoned"}, s) # {} => About(WorkerStep, s) = {}

\* Whatever the workers do and whenever the deadline and the breaker strike,
\* one execution never asks the store for two facts under one identity
\* (_abandon: "That crashed the run-level circuit breaker").
NeverCollidesWithItself == epoch = 1 => pc # "collided"

\* A cache miss of the operator's is never held against a student.
CacheMissIsNobodysFault ==
  epoch = 1 =>
    \A s \in Student :
      result[s].kind = "cache_missing" => About({"TaskFailed"}, s) = {}

\* Nobody is given up on without cause: a join timeout past the deadline only, an
\* abort only with its RunAborted in the log.
AbandonedForCause ==
  epoch = 1 =>
    \A e \in log :
      e.step = "TaskAbandoned" =>
        \/ e.body.what = "join_timeout" /\ clock > 0
        \/ e.body.what = "run_aborted" /\ About({"RunAborted"}, RunId) # {}

\* Once the breaker is in the log the run writes who is left out and that it is
\* over, and not one finding more.
BreakerHolds ==
  [][epoch' = 1 /\ About({"RunAborted"}, RunId) # {} =>
       \A e \in log' \ log : e.step \in {"TaskAbandoned", "RenderCompleted"}]_vars

\* No unit is taken in after the attempts spent exceed the run's budget.
BudgetStopsTheRun ==
  [][attempts > MaxTotalAttempts => completed' \subseteq completed]_vars

\* "No run hangs": it ends although every worker may hang.
RunEnds == (pc \notin Ended) ~> (pc \in Ended)

\* Running an id again over what a killed run left: an event that says the same
\* of the same thing is the same fact (Event.content_hash: "A worker retried at
\* the same attempt number is the same logical event even though the clock
\* moved between the two writes").
OnlyRealCollisions ==
  \A e \in Upcoming, f \in log :
    /\ EventId(e) = EventId(f)
    /\ e.step \in WorkerStep
    /\ e.body.what = f.body.what
    => e = f

Fate(s) == IF s \in completed THEN "analysed"
           ELSE IF s \in failed THEN "failed"
           ELSE IF s \in abandoned THEN "abandoned" ELSE "undecided"

Fates == [s \in Student |-> Fate(s)]

Status == IF pc = "done" THEN "completed"
          ELSE IF pc \in Ended THEN "stopped" ELSE "open"

Contract == INSTANCE RunContract WITH fate <- Fates, status <- Status

\* The dispatcher keeps the run's contract, over every execution of the id.
KeepsContract == Contract!Spec
=============================================================================
