-------------------------- MODULE Dispatcher_proofs --------------------------
(***************************************************************************)
(* The dispatcher accounts for every unit exactly once, and keeps the      *)
(* run's contract, for any number of students, any pool, any outcomes of   *)
(* the workers, and however often the run id is run again.  The argument:  *)
(* while it iterates, the units still waiting, those collected, the one in *)
(* hand and those in the ledger partition the class; once it gives up, who *)
(* is not in the ledger is still to be visited.                            *)
(***************************************************************************)
EXTENDS Dispatcher, TLAPS, FiniteSetTheorems

Iterating == {"begin", "wait", "body", "abort", "result", "write"}
GivingUp == {"deadline", "breaker", "join"}

InHand == IF pc \in {"abort", "result", "write"} THEN {cur} ELSE {}

Ledger == completed \union failed

Disjoint(S, T) == S \intersect T = {}

\* Where every unit is.
Partition ==
  /\ Disjoint(completed, failed)
  /\ Disjoint(abandoned, Ledger)
  /\ Ledger \subseteq terminal /\ terminal \subseteq Ledger \union abandoned
  /\ pc = "start" =>
       Ledger = {} /\ abandoned = {} /\ waiting = {} /\ fetched = {} /\ cur = RunId
  /\ pc \in {"begin", "wait"} => fetched = {}
  /\ pc = "begin" => waiting = Student
  /\ pc \in Iterating =>
       /\ abandoned = {}
       /\ waiting \union fetched \union InHand \union Ledger = Student
       /\ Disjoint(waiting, fetched)
       /\ Disjoint(InHand, waiting \union fetched)
       /\ Disjoint(Ledger, waiting \union fetched \union InHand)
  /\ pc \in GivingUp =>
       /\ todo \union Ledger \union abandoned = Student
       /\ Disjoint(todo, Ledger)
  /\ pc \in {"render", "done"} => Ledger \union abandoned = Student

\* What as_completed has collected will not change any more.
Settled ==
  /\ pc = "start" => \A s \in Student : fut[s] = "none"
  /\ \A s \in fetched \union InHand \union Ledger : fut[s] \in {"finished", "none"}
  /\ (\E s \in Student : fut[s] = "none") => pc \in {"start"} \union Ended

\* How much of the batch in hand is written.
Done == Len(result[cur].batch) - Len(queue)

Writing ==
  pc = "write" =>
    /\ result[cur].kind = "outcome"
    /\ Done \in Nat
    /\ \A j \in 1 .. Len(queue) : queue[j] = result[cur].batch[Done + j]
    /\ \A i \in 1 .. Done : Stamped(cur, result[cur].batch[i]) \in log

\* The log and the ledger agree.
Agrees ==
  /\ \A s \in completed : BatchOf(s) \subseteq log
  /\ \A s \in failed : About({"TaskFailed"}, s) # {}
  /\ \A s \in abandoned : About({"TaskAbandoned"}, s) # {}

IInv == TypeOK /\ Partition /\ Settled /\ Writing /\ Agrees
-----------------------------------------------------------------------------
(* Types.                                                                  *)

\* A number of students is a number.
LEMMA Counts ==
  ASSUME NEW S \in SUBSET Student
  PROVE  Cardinality(S) \in Nat
  BY StudentAssumption, FS_Subset, FS_CardinalityType

\* The first event of a queue and the others.
LEMMA HeadAndTail ==
  ASSUME NEW q \in Seq(WorkerEvent), q # <<>>
  PROVE  /\ Head(q) = q[1] /\ Head(q) \in WorkerEvent
         /\ Tail(q) \in Seq(WorkerEvent)
         /\ Len(Tail(q)) = Len(q) - 1 /\ Len(q) \in Nat \ {0}
         /\ \A j \in 1 .. Len(Tail(q)) : Tail(q)[j] = q[j + 1]
  OBVIOUS

\* What a worker can return.
LEMMA Results ==
  ASSUME NEW r \in Result \union {NotYet}
  PROVE  /\ r.kind = "outcome" => r \in Outcome
         /\ r \in Outcome => r.kind = "outcome" /\ r.attempts \in Nat
                            /\ r.batch \in Seq(WorkerEvent)
<1>1. r \in Outcome \/ \E k \in {"unparseable", "crashed", "cache_missing", "not yet"} :
                        r = Failed(k)
  BY DEF Result, NotYet
<1>2. \A k : Failed(k).kind = k
  BY DEF Failed
<1>3. r.kind = "outcome" => r \in Outcome
  BY <1>1, <1>2
<1>. QED BY <1>3, OutcomeAssumption

\* What is written about a unit or the run is an event of its step, unit and key.
LEMMA FactIsEvent ==
  ASSUME NEW st \in WorkerStep \union DispatcherStep, NEW u \in Student \union {RunId},
         NEW k \in Key, NEW w \in Payload \union Reason, NEW n \in Seq(Nat)
  PROVE  Fact(st, u, k, w, n) \in Event
  BY DEF Fact, Event

\* Every event the dispatcher makes is well formed.
LEMMA EventsMade ==
  ASSUME TypeOK
  PROVE  /\ RunStarted \in Event /\ RunAborted \in Event /\ RenderCompleted \in Event
         /\ \A s \in Student : TaskFailed(s) \in Event /\ Abandonment(s) \in Event
         /\ \A s \in Student, e \in WorkerEvent : Stamped(s, e) \in Event
<1>1. /\ {"RunStarted", "RunAborted", "RenderCompleted", "TaskFailed", "TaskAbandoned"}
           \subseteq WorkerStep \union DispatcherStep
      /\ {"", "ingest", "worker", "wall clock", "total attempts", "join_timeout", "run_aborted"}
           \subseteq Payload \union Reason
      /\ UnitKey \in Key
  BY KeyAssumption DEF DispatcherStep, Reason
<1>2. <<>> \in Seq(Nat) /\ <<epoch>> \in Seq(Nat) /\ <<attempts>> \in Seq(Nat)
  BY BoundAssumption DEF TypeOK
<1>3. <<Cardinality(completed), Cardinality(abandoned), Cardinality(failed)>> \in Seq(Nat)
  <2>1. Cardinality(completed) \in Nat /\ Cardinality(abandoned) \in Nat
        /\ Cardinality(failed) \in Nat
    BY Counts DEF TypeOK
  <2>. QED BY <2>1
<1>4. RunStarted \in Event
  BY <1>1, <1>2, FactIsEvent DEF RunStarted
<1>5. RunAborted \in Event
  BY <1>1, <1>2, FactIsEvent DEF RunAborted
<1>6. RenderCompleted \in Event
  BY <1>1, <1>3, FactIsEvent DEF RenderCompleted
<1>7. ASSUME NEW s \in Student PROVE TaskFailed(s) \in Event /\ Abandonment(s) \in Event
  BY <1>1, <1>2, FactIsEvent DEF TaskFailed, Abandonment
<1>8. ASSUME NEW s \in Student, NEW e \in WorkerEvent PROVE Stamped(s, e) \in Event
  BY <1>2, FactIsEvent DEF Stamped, WorkerEvent
<1>. QED BY <1>4, <1>5, <1>6, <1>7, <1>8

\* The unit in hand is a student.
LEMMA HandIsStudent ==
  ASSUME TypeOK, Partition, pc \in {"abort", "result", "write"}
  PROVE  cur \in Student
  BY DEF Partition, InHand, Iterating

LEMMA InitIInv == Init => IInv
<1>. SUFFICES ASSUME Init PROVE IInv
  OBVIOUS
<1>1. TypeOK
  BY BoundAssumption DEF Init, TypeOK, Ended, Active
<1>2. Partition
  BY DEF Init, Partition, Ledger, Disjoint, Iterating, GivingUp
<1>3. Settled
  BY DEF Init, Settled, InHand, Ledger, Ended
<1>4. Writing /\ Agrees
  BY DEF Init, Writing, Agrees
<1>. QED BY <1>1, <1>2, <1>3, <1>4 DEF IInv

\* Each step keeps the types.
LEMMA TypeStep ==
  ASSUME IInv, Next
  PROVE  TypeOK'
<1>. USE DEF Active, Ended, pool, loop, ledger
<1>0. TypeOK /\ (pc \in {"abort", "result", "write"} => cur \in Student)
  BY HandIsStudent DEF IInv
<1>1. CASE Start
  BY <1>0, <1>1, EventsMade DEF TypeOK, Start, Write
<1>2. CASE Begin \/ Await \/ Fetch \/ WaitTimesOut
  BY <1>0, <1>2 DEF TypeOK, Begin, Await, Fetch, WaitTimesOut, Finished
<1>3. CASE Timeout \/ Exhausted \/ Join
  BY <1>0, <1>3 DEF TypeOK, Timeout, Exhausted, Join, Unsettled
<1>4. CASE \E s \in Student : Yield(s)
  BY <1>0, <1>4 DEF TypeOK, Yield
<1>5. CASE \E s \in Student : Abandon(s)
  BY <1>0, <1>5, EventsMade DEF TypeOK, Abandon, Write, MarkedTerminal
<1>6. CASE Abort
  BY <1>0, <1>6, EventsMade DEF TypeOK, Abort, Write, Unsettled
<1>7. CASE CacheMissing \/ Shutdown \/ Collide
  BY <1>0, <1>7 DEF TypeOK, CacheMissing, Shutdown, Collide, Cancelled
<1>8. CASE Fail
  BY <1>0, <1>8, EventsMade DEF TypeOK, Fail, Write
<1>9. CASE TakeBatch
  BY <1>0, <1>9, Results DEF TypeOK, TakeBatch
<1>10. CASE WriteNext
  BY <1>0, <1>10, EventsMade, HeadAndTail DEF TypeOK, WriteNext, Write
<1>11. CASE UnitDone
  <2>1. result[cur].attempts \in Nat
    BY <1>0, <1>11, Results DEF UnitDone, IInv, Writing, TypeOK
  <2>. QED BY <1>0, <1>11, <2>1 DEF TypeOK, UnitDone, Unsettled
<1>12. CASE Render
  BY <1>0, <1>12, EventsMade DEF TypeOK, Render, Write
<1>13. CASE Tick \/ Kill
  BY <1>0, <1>13 DEF TypeOK, Tick, Kill
<1>14. CASE Rerun
  BY <1>0, <1>14, BoundAssumption DEF TypeOK, Rerun
<1>15. CASE \E s \in Student : WorkerTakes(s)
  BY <1>0, <1>15 DEF TypeOK, WorkerTakes
<1>16. CASE \E s \in Student, r \in Result : WorkerReturns(s, r)
  BY <1>0, <1>16 DEF TypeOK, WorkerReturns
<1>. QED
  BY <1>1, <1>2, <1>3, <1>4, <1>5, <1>6, <1>7, <1>8, <1>9, <1>10, <1>11, <1>12, <1>13,
     <1>14, <1>15, <1>16 DEF Next, Dispatch
-----------------------------------------------------------------------------
(* Where every unit is.                                                    *)

LEMMA PartitionStep ==
  ASSUME IInv, Next
  PROVE  Partition'
<1>. USE DEF Active, Ended, pool, loop, ledger, Iterating, GivingUp, InHand, Ledger, Disjoint
<1>0. TypeOK /\ Partition
  BY DEF IInv
<1>1. CASE Start
  BY <1>0, <1>1 DEF TypeOK, Partition, Start
<1>2. CASE Begin \/ Fetch
  BY <1>0, <1>2 DEF TypeOK, Partition, Begin, Fetch, Finished
<1>3. CASE Await \/ WaitTimesOut
  BY <1>0, <1>3 DEF TypeOK, Partition, Await, WaitTimesOut
<1>4. CASE Timeout \/ Exhausted
  BY <1>0, <1>4 DEF TypeOK, Partition, Timeout, Exhausted, Unsettled
<1>5. CASE Join
  BY <1>0, <1>5 DEF TypeOK, Partition, Join, Unsettled
<1>6. CASE \E s \in Student : Yield(s)
  BY <1>0, <1>6 DEF TypeOK, Partition, Yield
<1>7. CASE \E s \in Student : Abandon(s)
  <2>. PICK s \in Student : Abandon(s)
    BY <1>7
  <2>1. /\ pc \in GivingUp /\ s \in todo /\ todo' = todo \ {s}
        /\ abandoned' = abandoned \union {s}
        /\ terminal' \in {terminal, terminal \union {s}}
        /\ UNCHANGED <<pc, completed, failed>>
    BY DEF Abandon, AlreadyAbandoned, MarkedTerminal
  <2>. QED BY <1>0, <2>1 DEF TypeOK, Partition
<1>8. CASE Abort
  BY <1>0, <1>8 DEF TypeOK, Partition, Abort, Unsettled
<1>9. CASE CacheMissing \/ Collide \/ Kill
  BY <1>0, <1>9 DEF TypeOK, Partition, CacheMissing, Collide, Kill
<1>10. CASE Fail \/ TakeBatch \/ WriteNext
  BY <1>0, <1>10 DEF TypeOK, Partition, Fail, TakeBatch, WriteNext
<1>11. CASE UnitDone
  BY <1>0, <1>11 DEF TypeOK, Partition, UnitDone, Unsettled
<1>12. CASE Shutdown \/ Render
  BY <1>0, <1>12 DEF TypeOK, Partition, Shutdown, Render
<1>13. CASE Rerun
  BY <1>0, <1>13 DEF TypeOK, Partition, Rerun
<1>14. CASE Tick \/ \E s \in Student : WorkerTakes(s) \/ \E r \in Result : WorkerReturns(s, r)
  BY <1>0, <1>14 DEF TypeOK, Partition, Tick, WorkerTakes, WorkerReturns
<1>. QED
  BY <1>1, <1>2, <1>3, <1>4, <1>5, <1>6, <1>7, <1>8, <1>9, <1>10, <1>11, <1>12, <1>13,
     <1>14 DEF Next, Dispatch

\* What as_completed yielded stays as it was yielded.
LEMMA SettledStep ==
  ASSUME IInv, Next
  PROVE  Settled'
<1>. USE DEF Active, Ended, pool, loop, ledger, InHand, Ledger
<1>0. TypeOK /\ Partition /\ Settled
  BY DEF IInv
<1>1. CASE Start
  BY <1>0, <1>1 DEF TypeOK, Partition, Settled, Start
<1>2. CASE Begin \/ Fetch
  BY <1>0, <1>2 DEF TypeOK, Partition, Settled, Begin, Fetch, Finished
<1>3. CASE Await \/ WaitTimesOut \/ Timeout \/ Exhausted \/ Join
  BY <1>0, <1>3 DEF TypeOK, Settled, Await, WaitTimesOut, Timeout, Exhausted, Join
<1>4. CASE \E s \in Student : Yield(s)
  BY <1>0, <1>4 DEF TypeOK, Settled, Yield
<1>5. CASE Abort \/ \E s \in Student : Abandon(s)
  BY <1>0, <1>5 DEF TypeOK, Settled, Abandon, Abort
<1>6. CASE CacheMissing \/ Shutdown \/ Collide
  BY <1>0, <1>6 DEF TypeOK, Settled, CacheMissing, Shutdown, Collide, Cancelled
<1>7. CASE Fail \/ TakeBatch \/ WriteNext \/ UnitDone
  BY <1>0, <1>7 DEF TypeOK, Settled, Fail, TakeBatch, WriteNext, UnitDone
<1>8. CASE Render \/ Tick
  BY <1>0, <1>8 DEF TypeOK, Settled, Render, Tick
<1>9. CASE Kill \/ Rerun
  BY <1>0, <1>9 DEF TypeOK, Settled, Kill, Rerun
<1>10. CASE \E s \in Student : WorkerTakes(s) \/ \E r \in Result : WorkerReturns(s, r)
  <2>. PICK s \in Student : WorkerTakes(s) \/ \E r \in Result : WorkerReturns(s, r)
    BY <1>10
  <2>1. /\ fut[s] \in {"queued", "running"}
        /\ \A u \in Student : u # s => fut'[u] = fut[u]
        /\ fut'[s] \in {"running", "finished"}
        /\ UNCHANGED <<pc, cur, fetched, completed, failed>>
    BY <1>0 DEF TypeOK, WorkerTakes, WorkerReturns
  <2>2. s \notin fetched \union InHand \union Ledger
    BY <1>0, <2>1 DEF Settled
  <2>3. fetched \union InHand \union Ledger \subseteq Student
    BY <1>0, HandIsStudent DEF TypeOK
  <2>. QED BY <1>0, <2>1, <2>2, <2>3 DEF Settled
<1>. QED
  BY <1>1, <1>2, <1>3, <1>4, <1>5, <1>6, <1>7, <1>8, <1>9, <1>10 DEF Next, Dispatch
-----------------------------------------------------------------------------
(* The log and the ledger.                                                 *)

\* An event once written stays written.
LEMMA LogGrows ==
  ASSUME Next
  PROVE  log \subseteq log'
  BY DEF Next, Dispatch, Start, Begin, Await, Fetch, WaitTimesOut, Timeout, Exhausted, Yield,
         Abandon, Abort, CacheMissing, Fail, TakeBatch, WriteNext, UnitDone, Join, Shutdown,
         Render, Collide, Tick, Kill, Rerun, WorkerTakes, WorkerReturns, Write

\* The result of a unit that was yielded does not change, nor does its batch.
LEMMA ResultStays ==
  ASSUME IInv, Next, ~Rerun, NEW s \in fetched \union InHand \union Ledger
  PROVE  result'[s] = result[s] /\ epoch' = epoch /\ BatchOf(s)' = BatchOf(s)
<1>1. epoch' = epoch
  BY DEF Next, Dispatch, Start, Begin, Await, Fetch, WaitTimesOut, Timeout, Exhausted, Yield,
         Abandon, Abort, CacheMissing, Fail, TakeBatch, WriteNext, UnitDone, Join, Shutdown,
         Render, Collide, Tick, Kill, WorkerTakes, WorkerReturns
<1>2. CASE UNCHANGED result
  BY <1>1, <1>2 DEF BatchOf, Stamped, Fact
<1>3. CASE \E u \in Student, r \in Result : WorkerReturns(u, r)
  <2>. PICK u \in Student, r \in Result : WorkerReturns(u, r)
    BY <1>3
  <2>1. u # s /\ result' = [result EXCEPT ![u] = r]
    BY DEF WorkerReturns, IInv, Settled
  <2>2. result'[s] = result[s]
    BY <2>1 DEF IInv, TypeOK
  <2>. QED BY <1>1, <2>2 DEF BatchOf, Stamped, Fact
<1>4. CASE ~ \E u \in Student, r \in Result : WorkerReturns(u, r)
  <2>1. UNCHANGED result
    BY <1>4 DEF Next, Dispatch, Start, Begin, Await, Fetch, WaitTimesOut, Timeout, Exhausted,
         Yield, Abandon, Abort, CacheMissing, Fail, TakeBatch, WriteNext, UnitDone, Join,
         Shutdown, Render, Collide, Tick, Kill, WorkerTakes, pool
  <2>. QED BY <2>1, <1>2
<1>. QED BY <1>3, <1>4

LEMMA WritingStep ==
  ASSUME IInv, Next
  PROVE  Writing'
<1>. SUFFICES ASSUME pc' = "write" PROVE Writing'
  BY DEF Writing
<1>0. TypeOK /\ Partition /\ Settled /\ Writing
  BY DEF IInv
<1>1. CASE TakeBatch
  <2>1. /\ cur' = cur /\ result' = result /\ result[cur].kind = "outcome"
        /\ queue' = result[cur].batch
    BY <1>1 DEF TakeBatch, loop, pool
  <2>2. cur \in Student
    BY <1>0, <1>1, HandIsStudent DEF TakeBatch
  <2>3. result[cur].batch \in Seq(WorkerEvent)
    BY <1>0, <2>1, <2>2, Results DEF TypeOK
  <2>4. Len(result[cur].batch) \in Nat
    BY <2>3
  <2>5. Done' = 0
    BY <2>1, <2>4 DEF Done
  <2>. QED BY <2>1, <2>4, <2>5 DEF Writing
<1>2. CASE WriteNext
  <2>1. /\ pc = "write" /\ queue # <<>> /\ queue' = Tail(queue)
        /\ cur' = cur /\ result' = result /\ epoch' = epoch
        /\ Stamped(cur, Head(queue)) \in log'
    BY <1>2 DEF WriteNext, Write, loop, pool
  <2>2. /\ Head(queue) = queue[1] /\ Len(queue') = Len(queue) - 1
        /\ Len(queue) \in Nat \ {0}
        /\ \A j \in 1 .. Len(queue') : queue'[j] = queue[j + 1]
    BY <1>0, <2>1, HeadAndTail DEF TypeOK
  <2>3. Len(result[cur].batch) \in Nat
    BY <1>0, <2>1, HandIsStudent, Results DEF TypeOK, Writing
  <2>4. Done' = Done + 1 /\ Done \in Nat
    BY <1>0, <2>1, <2>2, <2>3 DEF Done, Writing
  <2>5. queue[1] = result[cur].batch[Done + 1]
    BY <1>0, <2>1, <2>2 DEF Writing
  <2>6. \A j \in 1 .. Len(queue') : queue'[j] = result[cur].batch[Done' + j]
    BY <1>0, <2>1, <2>2, <2>4 DEF Writing
  <2>7. \A i \in 1 .. Done' : Stamped(cur, result[cur].batch[i]) \in log'
    BY <1>0, <2>1, <2>2, <2>4, <2>5, LogGrows DEF Writing
  <2>8. \A e : Stamped(cur, e)' = Stamped(cur, e)
    BY <2>1 DEF Stamped, Fact
  <2>. QED BY <1>0, <2>1, <2>4, <2>6, <2>7, <2>8 DEF Writing
<1>3. CASE ~TakeBatch /\ ~WriteNext
  <2>1. pc = "write" /\ ~Rerun /\ UNCHANGED <<queue, cur>>
    BY <1>3 DEF Next, Dispatch, Start, Begin, Await, Fetch, WaitTimesOut, Timeout, Exhausted,
         Yield, Abandon, Abort, CacheMissing, Fail, UnitDone, Join, Shutdown, Render, Collide,
         Tick, Kill, Rerun, WorkerTakes, WorkerReturns, loop
  <2>2. result'[cur] = result[cur] /\ epoch' = epoch
    BY <2>1, ResultStays DEF InHand
  <2>3. \A e : Stamped(cur, e)' = Stamped(cur, e)
    BY <2>1, <2>2 DEF Stamped, Fact
  <2>. QED BY <1>0, <2>1, <2>2, <2>3, LogGrows DEF Writing, Done
<1>. QED BY <1>1, <1>2, <1>3

\* Whatever is in the log about a unit is still there after the next step.
LEMMA AboutGrows ==
  ASSUME Next, NEW steps, NEW s, About(steps, s) # {}
  PROVE  About(steps, s)' # {}
  BY LogGrows DEF About

LEMMA AgreesStep ==
  ASSUME IInv, Next
  PROVE  Agrees'
<1>. USE DEF pool, loop, ledger
<1>0. TypeOK /\ Partition /\ Settled /\ Writing /\ Agrees
  BY DEF IInv
<1>1. CASE Rerun
  BY <1>1 DEF Agrees, Rerun
<1>2. CASE ~Rerun /\ UNCHANGED <<completed, failed, abandoned>>
  <2>1. \A s \in completed : BatchOf(s)' = BatchOf(s)
    BY <1>2, ResultStays DEF Ledger
  <2>. QED BY <1>0, <1>2, <2>1, LogGrows, AboutGrows DEF Agrees
<1>3. CASE Fail
  <2>1. /\ failed' = failed \union {cur} /\ UNCHANGED <<completed, abandoned>>
        /\ TaskFailed(cur) \in log' /\ ~Rerun /\ cur' = cur
    BY <1>3 DEF Fail, Write, Rerun, Ended
  <2>2. About({"TaskFailed"}, cur)' # {}
    BY <2>1 DEF About, TaskFailed, Fact
  <2>3. \A s \in completed : BatchOf(s)' = BatchOf(s)
    BY <2>1, ResultStays DEF Ledger
  <2>. QED BY <1>0, <2>1, <2>2, <2>3, LogGrows, AboutGrows DEF Agrees
<1>4. CASE UnitDone
  <2>1. /\ pc = "write" /\ queue = <<>> /\ ~Rerun
        /\ completed' = completed \union {cur} /\ UNCHANGED <<failed, abandoned>>
    BY <1>4 DEF UnitDone, Rerun, Ended
  <2>2. /\ result[cur].batch \in Seq(WorkerEvent)
        /\ Done = Len(result[cur].batch)
    <3>1. result[cur].batch \in Seq(WorkerEvent)
      BY <1>0, <2>1, HandIsStudent, Results DEF TypeOK, Writing
    <3>. QED BY <2>1, <3>1 DEF Done
  <2>3. BatchOf(cur) \subseteq log
    BY <1>0, <2>1, <2>2 DEF Writing, BatchOf
  <2>4. \A s \in completed \union {cur} : BatchOf(s)' = BatchOf(s)
    BY <2>1, ResultStays DEF Ledger, InHand
  <2>. QED BY <1>0, <2>1, <2>3, <2>4, LogGrows, AboutGrows DEF Agrees
<1>5. CASE \E s \in Student : Abandon(s)
  <2>. PICK s \in Student : Abandon(s)
    BY <1>5
  <2>1. /\ UNCHANGED <<completed, failed>> /\ ~Rerun
        /\ \/ abandoned' = abandoned
           \/ abandoned' = abandoned \union {s} /\ Abandonment(s) \in log'
    BY DEF Abandon, Write, Rerun, Ended
  <2>2. Abandonment(s) \in log' => About({"TaskAbandoned"}, s)' # {}
    BY DEF About, Abandonment, Fact
  <2>3. \A u \in completed : BatchOf(u)' = BatchOf(u)
    BY <2>1, ResultStays DEF Ledger
  <2>. QED BY <1>0, <2>1, <2>2, <2>3, LogGrows, AboutGrows DEF Agrees
<1>6. Fail \/ UnitDone \/ Rerun \/ (\E s \in Student : Abandon(s))
        \/ (~Rerun /\ UNCHANGED <<completed, failed, abandoned>>)
  BY DEF Next, Dispatch, Start, Begin, Await, Fetch, WaitTimesOut, Timeout, Exhausted, Yield,
         Abort, CacheMissing, TakeBatch, WriteNext, Join, Shutdown, Render, Collide, Tick, Kill,
         WorkerTakes, WorkerReturns
<1>. QED BY <1>1, <1>2, <1>3, <1>4, <1>5, <1>6

LEMMA Invariance == Spec => []IInv
<1>1. Init => IInv
  BY InitIInv
<1>2. IInv /\ [Next]_vars => IInv'
  <2>1. IInv /\ Next => IInv'
    BY TypeStep, PartitionStep, SettledStep, WritingStep, AgreesStep DEF IInv
  <2>2. IInv /\ UNCHANGED vars => IInv'
    BY DEF vars, pool, loop, ledger, IInv, TypeOK, Partition, Settled, Writing, Agrees, InHand,
           Ledger, Done, Stamped, BatchOf, About, Fact
  <2>. QED BY <2>1, <2>2
<1>. QED BY <1>1, <1>2, PTL DEF Spec
-----------------------------------------------------------------------------
(* What the invariant gives.                                               *)

\* Every variable of run_pipeline keeps its type.
THEOREM TypeCorrect == Spec => []TypeOK
<1>1. IInv => TypeOK
  BY DEF IInv
<1>. QED BY <1>1, Invariance, PTL

\* "Every dispatched unit ends in exactly one": whatever the workers do and
\* whenever the deadline, the breaker or a kill strikes, a run that completes
\* has every unit in the ledger once and the log agrees with it.
THEOREM Accounting == Spec => []EveryUnitAccounted
<1>1. IInv => EveryUnitAccounted
  BY DEF IInv, Partition, Agrees, Ledger, Disjoint, EveryUnitAccounted
<1>. QED BY <1>1, Invariance, PTL
-----------------------------------------------------------------------------
(* The run's contract.                                                     *)

LEMMA StepKeepsContract ==
  ASSUME IInv, [Next]_vars
  PROVE  [Contract!Next]_<<Fates, Status>>
<1>0. TypeOK /\ Partition
  BY DEF IInv
<1>1. CASE UNCHANGED vars
  BY <1>1 DEF vars, ledger, Fates, Fate, Status
<1>2. CASE Rerun
  <2>1. Status # "open" /\ Status' = "open"
    BY <1>2 DEF Rerun, Status, Ended
  <2>2. Fates' = [s \in Student |-> "undecided"]
    BY <1>2 DEF Rerun, Fates, Fate
  <2>. QED BY <2>1, <2>2 DEF Contract!Next, Contract!Again
<1>3. CASE Fail \/ UnitDone
  <2>1. /\ pc \in {"result", "write"} /\ pc' \in {"body", "deadline"}
        /\ \/ completed' = completed \union {cur} /\ failed' = failed
           \/ failed' = failed \union {cur} /\ completed' = completed
        /\ abandoned' = abandoned
    BY <1>3 DEF Fail, UnitDone, ledger
  <2>2. cur \in Student /\ cur \notin Ledger /\ abandoned = {}
    BY <1>0, <2>1, HandIsStudent DEF Partition, Iterating, InHand, Disjoint
  <2>3. Status = "open" /\ Status' = "open"
    BY <2>1 DEF Status, Ended
  <2>4. PICK f \in {"analysed", "failed"} :
          /\ f = "analysed" => completed' = completed \union {cur} /\ failed' = failed
          /\ f = "failed" => failed' = failed \union {cur} /\ completed' = completed
    BY <2>1
  <2>5. Fates[cur] = "undecided" /\ Fates' = [Fates EXCEPT ![cur] = f]
    BY <2>1, <2>2, <2>4 DEF Fates, Fate, Ledger
  <2>6. Contract!Decide(cur, f)
    BY <2>3, <2>5 DEF Contract!Decide
  <2>. QED BY <2>2, <2>6 DEF Contract!Next, Contract!Decided
<1>4. CASE \E s \in Student : Abandon(s)
  <2>. PICK s \in Student : Abandon(s)
    BY <1>4
  <2>1. /\ pc \in GivingUp /\ s \in todo /\ UNCHANGED <<pc, completed, failed>>
        /\ s \in abandoned => abandoned' = abandoned
        /\ s \notin abandoned => abandoned' = abandoned \union {s}
    BY DEF Abandon, AlreadyAbandoned, GivingUp
  <2>2. s \notin Ledger
    BY <1>0, <2>1 DEF Partition, Disjoint
  <2>3. Status = "open" /\ Status' = "open"
    BY <2>1 DEF Status, Ended, GivingUp
  <2>4. CASE s \in abandoned
    BY <2>1, <2>3, <2>4 DEF Fates, Fate
  <2>5. CASE s \notin abandoned
    <3>1. Fates[s] = "undecided" /\ Fates' = [Fates EXCEPT ![s] = "abandoned"]
      BY <2>1, <2>2, <2>5 DEF Fates, Fate, Ledger
    <3>2. Contract!Decide(s, "abandoned")
      BY <2>3, <3>1 DEF Contract!Decide
    <3>. QED BY <3>2 DEF Contract!Next, Contract!Decided
  <2>. QED BY <2>4, <2>5
<1>5. CASE Render
  <2>1. /\ pc = "render" /\ pc' = "done" /\ UNCHANGED <<completed, failed, abandoned>>
    BY <1>5 DEF Render, ledger
  <2>2. \A s \in Student : Fates[s] \in Contract!Decided
    BY <1>0, <2>1 DEF Partition, Ledger, Fates, Fate, Contract!Decided
  <2>3. Status = "open" /\ Status' = "completed" /\ Fates' = Fates
    BY <2>1 DEF Status, Ended, Fates, Fate
  <2>4. Contract!Complete
    BY <2>2, <2>3 DEF Contract!Complete
  <2>. QED BY <2>4 DEF Contract!Next
<1>6. CASE UNCHANGED <<completed, failed, abandoned>> /\ ~Rerun /\ ~Render /\ Next
  <2>1. Fates' = Fates
    BY <1>6 DEF Fates, Fate
  <2>2. \/ Status' = Status
        \/ Status = "open" /\ Status' = "stopped"
    BY <1>6 DEF Status, Ended, Active, Next, Dispatch, Start, Begin, Await, Fetch, WaitTimesOut,
         Timeout, Exhausted, Yield, Abandon, Abort, CacheMissing, Fail, TakeBatch, WriteNext,
         UnitDone, Join, Shutdown, Collide, Upcoming, Tick, Kill, WorkerTakes, WorkerReturns
  <2>. QED BY <2>1, <2>2 DEF Contract!Next, Contract!Stop
<1>7. \/ UNCHANGED vars \/ Rerun \/ Fail \/ UnitDone \/ Render
      \/ \E s \in Student : Abandon(s)
      \/ UNCHANGED <<completed, failed, abandoned>> /\ ~Rerun /\ ~Render /\ Next
  BY DEF ledger, Next, Dispatch, Start, Begin, Await, Fetch, WaitTimesOut, Timeout, Exhausted,
         Yield, Abort, CacheMissing, TakeBatch, WriteNext, Join, Shutdown, Collide, Tick, Kill,
         WorkerTakes, WorkerReturns
<1>. QED BY <1>1, <1>2, <1>3, <1>4, <1>5, <1>6, <1>7

\* The dispatcher keeps the run's contract: fates are decided once, while the
\* run is open, and completion is reported only with everybody's decided.
THEOREM ContractKept == Spec => KeepsContract
<1>1. Init => Fates = [s \in Student |-> "undecided"] /\ Status = "open"
  BY DEF Init, Fates, Fate, Status, Ended
<1>2. Init => Contract!Init
  BY <1>1 DEF Contract!Init
<1>3. IInv /\ [Next]_vars => [Contract!Next]_<<Fates, Status>>
  BY StepKeepsContract
<1>. QED BY <1>2, <1>3, Invariance, PTL DEF Spec, KeepsContract, Contract!Spec
-----------------------------------------------------------------------------
(* One execution over an empty log.                                        *)

\* Where an event of the first execution comes from.
ByTheRun(e) ==
  /\ e.unit = RunId
  /\ \/ e.step = "RunStarted" /\ pc # "start"
     \/ e.step = "RunAborted" /\ pc \notin {"start"} \union Iterating
     \/ e.step = "RenderCompleted" /\ pc \in Ended

OfAbandoned(e) == e.step = "TaskAbandoned" /\ e.unit \in abandoned

OfLedger(e) == e.step \in WorkerStep /\ e.unit \in Ledger

OfHand(e) ==
  /\ e.step \in WorkerStep /\ e.unit = cur
  /\ cur \in Student \ (Ledger \union abandoned)
  /\ pc \in {"write"} \union Ended
  /\ pc = "write" => \E i \in 1 .. Done : e = Stamped(cur, result[cur].batch[i])

Explained(e) == ByTheRun(e) \/ OfAbandoned(e) \/ OfLedger(e) \/ OfHand(e)

FirstRun == epoch = 1 => pc # "collided" /\ \A e \in log : Explained(e)

\* What the dispatcher may be about to write.
LEMMA UpcomingIs ==
  ASSUME NEW e \in Upcoming
  PROVE  \/ pc = "start" /\ e = RunStarted
         \/ pc = "abort" /\ e = RunAborted
         \/ pc = "result" /\ e = TaskFailed(cur)
         \/ pc = "write" /\ queue # <<>> /\ e = Stamped(cur, Head(queue))
         \/ pc \in GivingUp /\ \E s \in todo : s \notin abandoned /\ e = Abandonment(s)
         \/ pc = "render" /\ e = RenderCompleted
<1>1. CASE pc \in {"start", "abort", "render"}
  BY <1>1 DEF Upcoming
<1>2. CASE pc = "result"
  BY <1>2 DEF Upcoming
<1>3. CASE pc = "write"
  BY <1>3 DEF Upcoming
<1>4. CASE pc \in GivingUp
  <2>1. Upcoming = {Abandonment(s) : s \in {u \in todo : ~AlreadyAbandoned(u)}}
    BY <1>4 DEF Upcoming, GivingUp
  <2>. QED BY <1>4, <2>1 DEF AlreadyAbandoned
<1>5. CASE pc \notin {"start", "abort", "render", "result", "write"} \union GivingUp
  <2>1. Upcoming = {}
    BY <1>5 DEF Upcoming, GivingUp
  <2>. QED BY <2>1
<1>. QED BY <1>1, <1>2, <1>3, <1>4, <1>5

\* What the first execution is about to write, the store does not hold.
LEMMA UpcomingIsFresh ==
  ASSUME IInv, FirstRun, epoch = 1, NEW e \in Upcoming
  PROVE  Fresh(log, e)
<1>. SUFFICES ASSUME NEW f \in log, EventId(e) = EventId(f) PROVE FALSE
  BY DEF Fresh
<1>0. /\ TypeOK /\ Partition /\ Explained(f)
      /\ e.step = f.step /\ e.unit = f.unit /\ e.key = f.key
  BY DEF IInv, FirstRun, EventId
<1>1. "TaskAbandoned" \notin WorkerStep /\ "RunStarted" \notin WorkerStep
      /\ "RunAborted" \notin WorkerStep /\ "RenderCompleted" \notin WorkerStep
      /\ "TaskFailed" \in WorkerStep
  BY DEF WorkerStep
<1>2. CASE e.unit = RunId
  <2>1. RunId \notin abandoned \union Ledger /\ RunId \notin Student
    BY <1>0, StudentAssumption DEF TypeOK, Ledger
  <2>2. ByTheRun(f)
    BY <1>0, <1>2, <2>1 DEF Explained, OfAbandoned, OfLedger, OfHand
  <2>3. /\ e.step = "RunStarted" => pc = "start"
        /\ e.step = "RunAborted" => pc = "abort"
        /\ e.step = "RenderCompleted" => pc = "render"
    <3>1. pc \in {"result", "write"} => cur \in Student
      BY <1>0, HandIsStudent
    <3>2. /\ TaskFailed(cur).unit = cur /\ Stamped(cur, Head(queue)).unit = cur
          /\ \A s : Abandonment(s).unit = s
      BY DEF TaskFailed, Stamped, Abandonment, Fact
    <3>3. /\ RunStarted.step = "RunStarted" /\ RunAborted.step = "RunAborted"
          /\ RenderCompleted.step = "RenderCompleted"
      BY DEF RunStarted, RunAborted, RenderCompleted, Fact
    <3>4. todo \subseteq Student
      BY <1>0 DEF TypeOK
    <3>. QED BY <1>2, <2>1, <3>1, <3>2, <3>3, <3>4, UpcomingIs
  <2>. QED BY <1>0, <2>2, <2>3 DEF ByTheRun, Iterating, Ended
<1>3. CASE e.unit # RunId
  <2>0. pc \in {"result", "write"} \union GivingUp
    <3>1. RunStarted.unit = RunId /\ RunAborted.unit = RunId /\ RenderCompleted.unit = RunId
      BY DEF RunStarted, RunAborted, RenderCompleted, Fact
    <3>. QED BY <1>3, <3>1, UpcomingIs
  <2>1. CASE pc = "result"
    <3>1. e.step = "TaskFailed" /\ e.unit = cur
      BY <2>1, UpcomingIs DEF TaskFailed, Fact, GivingUp
    <3>2. cur \notin Ledger \union abandoned
      BY <1>0, <2>1 DEF Partition, Iterating, InHand, Disjoint
    <3>. QED BY <1>0, <1>1, <1>3, <2>1, <3>1, <3>2
             DEF Explained, ByTheRun, OfAbandoned, OfLedger, OfHand, Ended
  <2>2. CASE pc = "write"
    <3>1. queue # <<>> /\ e = Stamped(cur, Head(queue))
      BY <2>2, UpcomingIs DEF GivingUp
    <3>2. cur \in Student /\ cur \notin Ledger \union abandoned
      BY <1>0, <2>2, HandIsStudent DEF Partition, Iterating, InHand, Disjoint
    <3>3. /\ Head(queue) = queue[1] /\ Head(queue) \in WorkerEvent
          /\ Len(queue) \in Nat \ {0}
      BY <1>0, <3>1, HeadAndTail DEF TypeOK
    <3>4. e.step = Head(queue).step /\ e.unit = cur /\ e.key = Head(queue).key
          /\ e.step \in WorkerStep
      BY <3>1, <3>3 DEF Stamped, Fact, WorkerEvent
    <3>5. PICK i \in 1 .. Done : f = Stamped(cur, result[cur].batch[i])
      BY <1>0, <1>1, <1>3, <2>2, <3>2, <3>4
         DEF Explained, ByTheRun, OfAbandoned, OfLedger, OfHand, Ended
    <3>6. /\ Done \in Nat /\ Head(queue) = result[cur].batch[Done + 1]
          /\ result[cur].kind = "outcome"
      BY <2>2, <3>3 DEF IInv, Writing
    <3>7. result[cur] \in Outcome /\ result[cur].batch \in Seq(WorkerEvent)
      BY <1>0, <3>2, <3>6, Results DEF TypeOK
    <3>8. Done + 1 \in DOMAIN result[cur].batch /\ i \in DOMAIN result[cur].batch
      BY <3>3, <3>6, <3>7 DEF Done
    <3>9. /\ result[cur].batch[i].step = result[cur].batch[Done + 1].step
          /\ result[cur].batch[i].key = result[cur].batch[Done + 1].key
      BY <1>0, <3>4, <3>5, <3>6 DEF Stamped, Fact
    <3>10. i = Done + 1
      BY <3>7, <3>8, <3>9, OutcomeAssumption
    <3>. QED BY <3>6, <3>10
  <2>3. CASE pc \in GivingUp
    <3>1. e.step = "TaskAbandoned" /\ e.unit \notin abandoned
      BY <2>3, UpcomingIs DEF Abandonment, Fact, GivingUp
    <3>. QED BY <1>0, <1>1, <1>3, <3>1
             DEF Explained, ByTheRun, OfAbandoned, OfLedger, OfHand
  <2>. QED BY <2>0, <2>1, <2>2, <2>3
<1>. QED BY <1>2, <1>3

LEMMA FirstRunStep ==
  ASSUME IInv, FirstRun, Next
  PROVE  FirstRun'
<1>. USE DEF pool, loop, ledger
<1>. SUFFICES ASSUME epoch' = 1
     PROVE  pc' # "collided" /\ \A e \in log' : Explained(e)'
  BY DEF FirstRun
<1>0. TypeOK /\ Partition /\ epoch = 1 /\ ~Rerun
  <2>1. TypeOK /\ Partition /\ epoch \in Nat \ {0}
    BY BoundAssumption DEF IInv, TypeOK
  <2>2. ~Rerun
    BY <2>1 DEF Rerun
  <2>3. epoch' = epoch
    BY <2>2 DEF Next, Dispatch, Start, Begin, Await, Fetch, WaitTimesOut, Timeout, Exhausted,
         Yield, Abandon, Abort, CacheMissing, Fail, TakeBatch, WriteNext, UnitDone, Join,
         Shutdown, Render, Collide, Tick, Kill, WorkerTakes, WorkerReturns
  <2>. QED BY <2>1, <2>2, <2>3
<1>1. ~Collide
  BY <1>0, UpcomingIsFresh DEF Collide, Collides
<1>2. pc' # "collided"
  BY <1>0, <1>1 DEF FirstRun, Next, Dispatch, Start, Begin, Await, Fetch, WaitTimesOut,
         Timeout, Exhausted, Yield, Abandon, Abort, CacheMissing, Fail, TakeBatch, WriteNext,
         UnitDone, Join, Shutdown, Render, Tick, Kill, WorkerTakes, WorkerReturns
<1>. SUFFICES ASSUME NEW e \in log' PROVE Explained(e)'
  BY <1>2
<1>3. CASE e \in log
  <2>0. Explained(e)
    BY <1>0, <1>3 DEF FirstRun
  <2>1. CASE ByTheRun(e)
    <3>1. pc # "start" => pc' # "start"
      BY <1>0 DEF Next, Dispatch, Start, Begin, Await, Fetch, WaitTimesOut,
         Timeout, Exhausted, Yield, Abandon, Abort, CacheMissing, Fail, TakeBatch, WriteNext,
         UnitDone, Join, Shutdown, Render, Collide, Tick, Kill, WorkerTakes, WorkerReturns
    <3>2. pc \notin {"start"} \union Iterating => pc' \notin {"start"} \union Iterating
      BY <1>0 DEF Iterating, Ended, Next, Dispatch, Start, Begin, Await, Fetch, WaitTimesOut,
         Timeout, Exhausted, Yield, Abandon, Abort, CacheMissing, Fail, TakeBatch, WriteNext,
         UnitDone, Join, Shutdown, Render, Collide, Tick, Kill, WorkerTakes, WorkerReturns
    <3>3. pc \in Ended => pc' \in Ended
      BY <1>0, <1>1 DEF Ended, Active, Next, Dispatch, Start, Begin, Await, Fetch, WaitTimesOut,
         Timeout, Exhausted, Yield, Abandon, Abort, CacheMissing, Fail, TakeBatch, WriteNext,
         UnitDone, Join, Shutdown, Render, Tick, Kill, WorkerTakes, WorkerReturns
    <3>. QED BY <2>1, <3>1, <3>2, <3>3 DEF Explained, ByTheRun
  <2>2. CASE OfAbandoned(e) \/ OfLedger(e)
    <3>1. abandoned \subseteq abandoned' /\ Ledger \subseteq Ledger'
      BY <1>0 DEF Ledger, Next, Dispatch, Start, Begin, Await, Fetch, WaitTimesOut,
         Timeout, Exhausted, Yield, Abandon, Abort, CacheMissing, Fail, TakeBatch, WriteNext,
         UnitDone, Join, Shutdown, Render, Collide, Tick, Kill, WorkerTakes, WorkerReturns
    <3>. QED BY <2>2, <3>1 DEF Explained, OfAbandoned, OfLedger
  <2>3. CASE OfHand(e)
    <3>1. CASE UnitDone
      BY <2>3, <3>1 DEF OfHand, UnitDone, OfLedger, Ledger, Explained
    <3>2. CASE WriteNext
      <4>1. /\ Done \in Nat /\ Done' = Done + 1 /\ UNCHANGED <<pc, cur, result, epoch>>
            /\ UNCHANGED <<completed, failed, abandoned>>
        <5>1. /\ queue # <<>> /\ queue' = Tail(queue) /\ pc = "write"
              /\ UNCHANGED <<pc, cur, result, epoch, completed, failed, abandoned>>
          BY <3>2 DEF WriteNext
        <5>2. Len(queue') = Len(queue) - 1 /\ Len(queue) \in Nat
          BY <1>0, <5>1, HeadAndTail DEF TypeOK
        <5>3. Len(result[cur].batch) \in Nat
          BY <1>0, <5>1, HandIsStudent, Results DEF TypeOK, IInv, Writing
        <5>. QED BY <5>1, <5>2, <5>3 DEF Done, IInv, Writing
      <4>2. \A b : Stamped(cur, b)' = Stamped(cur, b)
        BY <4>1 DEF Stamped, Fact
      <4>3. OfHand(e)'
        BY <2>3, <4>1, <4>2 DEF OfHand, Ledger
      <4>. QED BY <4>3 DEF Explained
    <3>3. CASE ~UnitDone /\ ~WriteNext
      <4>1. /\ pc \in {"write"} \union Ended
            /\ UNCHANGED <<cur, queue, completed, failed, abandoned, epoch>>
            /\ pc' \in {pc} \union Ended
        BY <1>0, <2>3, <3>3 DEF OfHand, Ended, Active, Next, Dispatch, Start, Begin, Await,
         Fetch, WaitTimesOut, Timeout, Exhausted, Yield, Abandon, Abort, CacheMissing, Fail,
         TakeBatch, Join, Shutdown, Render, Collide, Tick, Kill, WorkerTakes, WorkerReturns
      <4>2. pc' = "write" => pc = "write" /\ result'[cur] = result[cur]
        BY <1>0, <4>1, ResultStays DEF InHand, Ended
      <4>3. \A b : Stamped(cur, b)' = Stamped(cur, b)
        BY <4>1 DEF Stamped, Fact
      <4>4. OfHand(e)'
        BY <2>3, <4>1, <4>2, <4>3 DEF OfHand, Ledger, Done, Ended
      <4>. QED BY <4>4 DEF Explained
    <3>. QED BY <3>1, <3>2, <3>3
  <2>. QED BY <2>0, <2>1, <2>2, <2>3 DEF Explained
<1>4. CASE e \notin log
  <2>1. CASE Start
    <3>1. e = RunStarted /\ pc' = "begin"
      BY <1>4, <2>1 DEF Start, Write
    <3>. QED BY <3>1 DEF RunStarted, Fact, Explained, ByTheRun
  <2>2. CASE Abort
    <3>1. e = RunAborted /\ pc' = "breaker"
      BY <1>4, <2>2 DEF Abort, Write
    <3>. QED BY <3>1 DEF RunAborted, Fact, Explained, ByTheRun, Iterating
  <2>3. CASE Render
    <3>1. e = RenderCompleted /\ pc' = "done"
      BY <1>4, <2>3 DEF Render, Write
    <3>. QED BY <3>1 DEF RenderCompleted, Fact, Explained, ByTheRun, Ended
  <2>4. CASE Fail
    <3>1. e = TaskFailed(cur) /\ cur \in failed'
      BY <1>4, <2>4 DEF Fail, Write
    <3>. QED BY <3>1 DEF TaskFailed, Fact, Explained, OfLedger, Ledger, WorkerStep
  <2>5. CASE \E s \in Student : Abandon(s)
    <3>. PICK s \in Student : Abandon(s)
      BY <2>5
    <3>1. e = Abandonment(s) /\ s \in abandoned'
      BY <1>4 DEF Abandon, Write
    <3>. QED BY <3>1 DEF Abandonment, Fact, Explained, OfAbandoned
  <2>6. CASE WriteNext
    <3>1. /\ pc = "write" /\ queue # <<>> /\ queue' = Tail(queue)
          /\ e = Stamped(cur, Head(queue))
          /\ UNCHANGED <<pc, cur, result, epoch, completed, failed, abandoned>>
      BY <1>4, <2>6 DEF WriteNext, Write
    <3>2. /\ Head(queue) = queue[1] /\ Head(queue) \in WorkerEvent
          /\ Len(queue) \in Nat \ {0} /\ Len(queue') = Len(queue) - 1
      BY <1>0, <3>1, HeadAndTail DEF TypeOK
    <3>3. cur \in Student /\ cur \notin Ledger \union abandoned
      BY <1>0, <3>1, HandIsStudent DEF Partition, Iterating, InHand, Disjoint
    <3>4. /\ Done \in Nat /\ Head(queue) = result[cur].batch[Done + 1]
          /\ result[cur].kind = "outcome"
      BY <3>1, <3>2 DEF IInv, Writing
    <3>5. Len(result[cur].batch) \in Nat
      BY <1>0, <3>3, <3>4, Results DEF TypeOK
    <3>6. Done' = Done + 1
      BY <3>1, <3>2, <3>4, <3>5 DEF Done
    <3>7. e.step \in WorkerStep /\ e.unit = cur
      BY <3>1, <3>2 DEF Stamped, Fact, WorkerEvent
    <3>8. \A b : Stamped(cur, b)' = Stamped(cur, b)
      BY <3>1 DEF Stamped, Fact
    <3>9. Done + 1 \in 1 .. Done'
      BY <3>4, <3>6
    <3>10. OfHand(e)'
      BY <3>1, <3>3, <3>4, <3>7, <3>8, <3>9 DEF OfHand, Ledger
    <3>. QED BY <3>10 DEF Explained
  <2>7. Start \/ Abort \/ Render \/ Fail \/ WriteNext \/ \E s \in Student : Abandon(s)
    BY <1>0, <1>4 DEF Next, Dispatch, Begin, Await, Fetch, WaitTimesOut, Timeout, Exhausted,
         Yield, CacheMissing, TakeBatch, UnitDone, Join, Shutdown, Collide, Tick, Kill,
         WorkerTakes, WorkerReturns
  <2>. QED BY <2>1, <2>2, <2>3, <2>4, <2>5, <2>6, <2>7
<1>. QED BY <1>3, <1>4

LEMMA FirstRunInvariance == Spec => []FirstRun
<1>1. Init => FirstRun
  BY DEF Init, FirstRun
<1>2. IInv /\ FirstRun /\ [Next]_vars => FirstRun'
  <2>1. IInv /\ FirstRun /\ Next => FirstRun'
    BY FirstRunStep
  <2>2. FirstRun /\ UNCHANGED vars => FirstRun'
    BY DEF vars, pool, loop, ledger, FirstRun, Explained, ByTheRun, OfAbandoned, OfLedger,
           OfHand, Ledger, Done, Stamped, Fact
  <2>. QED BY <2>1, <2>2
<1>. QED BY <1>1, <1>2, Invariance, PTL DEF Spec

\* One execution never asks the store for two facts under one identity,
\* whenever the deadline and the breaker strike (_abandon's docstring).
THEOREM NoSelfCollision == Spec => []NeverCollidesWithItself
<1>1. FirstRun => NeverCollidesWithItself
  BY DEF FirstRun, NeverCollidesWithItself
<1>. QED BY <1>1, FirstRunInvariance, PTL

\* A student the join gave up on has nothing else in the log, however late the
\* worker answers.
THEOREM AbandonmentIsAll == Spec => []AbandonedSaysNothingElse
<1>1. ASSUME IInv, FirstRun PROVE AbandonedSaysNothingElse
  <2>. SUFFICES ASSUME epoch = 1, NEW s \in Student, NEW a \in log, NEW e \in log,
                       a.step = "TaskAbandoned", a.unit = s, e.step \in WorkerStep, e.unit = s
                PROVE  FALSE
    BY DEF AbandonedSaysNothingElse, About
  <2>1. "TaskAbandoned" \notin WorkerStep /\ s # RunId /\ Explained(a) /\ Explained(e)
    BY <1>1, StudentAssumption DEF WorkerStep, FirstRun
  <2>2. s \in abandoned
    BY <2>1 DEF Explained, ByTheRun, OfAbandoned, OfLedger, OfHand
  <2>3. s \in Ledger
    BY <2>1, <2>2 DEF Explained, ByTheRun, OfAbandoned, OfLedger, OfHand
  <2>. QED BY <1>1, <2>2, <2>3 DEF IInv, Partition, Disjoint
<1>. QED BY <1>1, Invariance, FirstRunInvariance, PTL
-----------------------------------------------------------------------------
(* Causes: what the log says of a unit was the unit's own doing.           *)

\* Whoever the log holds findings or a failure of was yielded with a result
\* that can be told of a student, and it stays.
Reported ==
  epoch = 1 =>
    \A s \in Student :
      About(WorkerStep, s) # {} =>
        fut[s] \in {"finished", "none"} /\ result[s].kind \in Blamed \union {"outcome"}

\* The dispatcher gives up past the deadline, with the breaker in the log, or
\* has nobody left to give up on.
Caused ==
  /\ late <= clock
  /\ pc = "deadline" => clock > 0
  /\ pc = "join" => todo \subseteq abandoned
  /\ pc = "breaker" => About({"RunAborted"}, RunId) # {}
  /\ AbandonedForCause

\* The breaker was looked at before a result is.
WithinBudget == pc \in {"result", "write"} => attempts <= MaxTotalAttempts

Causes == Reported /\ Caused /\ WithinBudget

\* The first execution stays the first.
LEMMA FirstStays ==
  ASSUME TypeOK, Next, epoch' = 1
  PROVE  epoch = 1 /\ ~Rerun
<1>1. epoch \in Nat \ {0}
  BY BoundAssumption DEF TypeOK
<1>2. ~Rerun
  BY <1>1 DEF Rerun
<1>. QED
  BY <1>2 DEF Next, Dispatch, Start, Begin, Await, Fetch, WaitTimesOut, Timeout, Exhausted,
     Yield, Abandon, Abort, CacheMissing, Fail, TakeBatch, WriteNext, UnitDone, Join, Shutdown,
     Render, Collide, Tick, Kill, WorkerTakes, WorkerReturns, ledger

\* What each step writes.
LEMMA Written ==
  ASSUME Next, NEW e \in log' \ log
  PROVE  \/ Start /\ e = RunStarted
         \/ Abort /\ e = RunAborted
         \/ Fail /\ e = TaskFailed(cur)
         \/ WriteNext /\ e = Stamped(cur, Head(queue))
         \/ \E s \in Student : Abandon(s) /\ e = Abandonment(s)
         \/ Render /\ e = RenderCompleted
<1>1. Start \/ Abort \/ Render \/ Fail \/ WriteNext \/ \E s \in Student : Abandon(s)
  BY DEF Next, Dispatch, Begin, Await, Fetch, WaitTimesOut, Timeout, Exhausted,
         Yield, CacheMissing, TakeBatch, UnitDone, Join, Shutdown, Collide, Tick, Kill, Rerun,
         WorkerTakes, WorkerReturns
<1>2. CASE \E s \in Student : Abandon(s)
  BY <1>2 DEF Abandon, Write
<1>. QED BY <1>1, <1>2 DEF Start, Abort, Render, Fail, WriteNext, Write

\* What an event of each kind is about.
LEMMA Kinds ==
  /\ RunStarted.step = "RunStarted"
  /\ RunAborted.step = "RunAborted" /\ RunAborted.unit = RunId
  /\ RenderCompleted.step = "RenderCompleted"
  /\ \A u : /\ TaskFailed(u).step = "TaskFailed" /\ TaskFailed(u).unit = u
           /\ Abandonment(u).step = "TaskAbandoned"
  /\ \A u, b : Stamped(u, b).step = b.step /\ Stamped(u, b).unit = u
<1>a. \A s, w, n : Fact(s, RunId, UnitKey, w, n).step = s
  BY DEF Fact
<1>b. RunStarted.step = "RunStarted"
  BY <1>a, Zenon DEF RunStarted
<1>c. RenderCompleted.step = "RenderCompleted"
  <2>1. \A w, n : Fact("RenderCompleted", RunId, UnitKey, w, n).step = "RenderCompleted"
    BY <1>a, Zenon
  <2>. QED BY <2>1, ZenonT(60) DEF RenderCompleted
<1>2. RunAborted.step = "RunAborted" /\ RunAborted.unit = RunId
  BY DEF RunAborted, Fact
<1>3. \A u : /\ TaskFailed(u).step = "TaskFailed" /\ TaskFailed(u).unit = u
            /\ Abandonment(u).step = "TaskAbandoned"
  BY DEF TaskFailed, Abandonment, Fact
<1>4. \A u, b : Stamped(u, b).step = b.step /\ Stamped(u, b).unit = u
  BY DEF Stamped, Fact
<1>. QED BY <1>b, <1>c, <1>2, <1>3, <1>4

LEMMA ReportedStep ==
  ASSUME IInv, FirstRun, Causes, Next
  PROVE  Reported'
<1>. SUFFICES ASSUME epoch' = 1, NEW s \in Student, NEW e \in log',
                     e.step \in WorkerStep, e.unit = s
     PROVE  /\ fut'[s] \in {"finished", "none"}
            /\ result'[s].kind \in Blamed \union {"outcome"}
  BY DEF Reported, About, Blamed
<1>0. TypeOK /\ Partition /\ Settled /\ Reported /\ epoch = 1 /\ ~Rerun
  BY FirstStays DEF IInv, Causes
<1>1. /\ fut[s] \in {"finished", "none"}
      /\ result[s].kind \in Blamed \union {"outcome"}
      /\ pc # "start"
  <2>1. CASE e \in log
    <3>1. Explained(e) /\ s # RunId /\ "TaskAbandoned" \notin WorkerStep
      BY <1>0, <2>1, StudentAssumption DEF FirstRun, WorkerStep
    <3>2. pc # "start"
      BY <1>0, <3>1 DEF Explained, ByTheRun, OfAbandoned, OfLedger, OfHand, Partition, Ended
    <3>. QED BY <1>0, <2>1, <3>2 DEF Reported, About
  <2>2. CASE e \notin log
    <3>1. (Fail \/ WriteNext) /\ e.unit = cur
      <4>1. {"RunStarted", "RunAborted", "TaskAbandoned", "RenderCompleted"}
              \intersect WorkerStep = {}
        BY DEF WorkerStep
      <4>2. e \in log' \ log
        BY <2>2
      <4>3. \/ Start /\ e = RunStarted
            \/ Abort /\ e = RunAborted
            \/ Fail /\ e = TaskFailed(cur)
            \/ WriteNext /\ e = Stamped(cur, Head(queue))
            \/ \E u \in Student : Abandon(u) /\ e = Abandonment(u)
            \/ Render /\ e = RenderCompleted
        BY <4>2, Written
      <4>. QED BY <4>1, <4>3, Kinds
    <3>2. fut[cur] \in {"finished", "none"} /\ pc \in {"result", "write"}
      BY <1>0, <3>1 DEF Settled, InHand, Fail, WriteNext
    <3>3. result[cur].kind \in Blamed \union {"outcome"}
      BY <3>1 DEF Fail, WriteNext, IInv, Writing
    <3>. QED BY <3>1, <3>2, <3>3
  <2>. QED BY <2>1, <2>2
<1>2. CASE \E u \in Student : WorkerTakes(u) \/ \E r \in Result : WorkerReturns(u, r)
  <2>. PICK u \in Student : WorkerTakes(u) \/ \E r \in Result : WorkerReturns(u, r)
    BY <1>2
  <2>1. fut[u] \in {"queued", "running"} /\ u # s
    BY <1>1 DEF WorkerTakes, WorkerReturns
  <2>2. fut'[s] = fut[s] /\ result'[s] = result[s]
    BY <1>0, <2>1 DEF WorkerTakes, WorkerReturns, TypeOK
  <2>. QED BY <1>1, <2>2
<1>3. CASE CacheMissing \/ Shutdown \/ Collide
  BY <1>0, <1>1, <1>3 DEF CacheMissing, Shutdown, Collide, Cancelled, TypeOK
<1>4. CASE Kill
  BY <1>0, <1>1, <1>4 DEF Kill, TypeOK
<1>5. CASE UNCHANGED <<fut, result>>
  BY <1>1, <1>5
<1>6. \/ \E u \in Student : WorkerTakes(u) \/ \E r \in Result : WorkerReturns(u, r)
      \/ CacheMissing \/ Shutdown \/ Collide \/ Kill
      \/ UNCHANGED <<fut, result>>
  BY <1>0, <1>1 DEF pool, Next, Dispatch, Start, Begin, Await, Fetch, WaitTimesOut, Timeout,
     Exhausted, Yield, Abandon, Abort, Fail, TakeBatch, WriteNext, UnitDone, Join, Render, Tick
<1>. QED BY <1>2, <1>3, <1>4, <1>5, <1>6

LEMMA CausedStep ==
  ASSUME IInv, FirstRun, Causes, Next
  PROVE  Caused'
<1>. USE DEF pool, loop, ledger
<1>0. TypeOK /\ Partition /\ Caused /\ log \subseteq log'
  BY LogGrows DEF IInv, Causes
<1>a. clock \in 0 .. 2 /\ late \in 0 .. 2 /\ late <= clock
  BY <1>0 DEF TypeOK, Caused
<1>b. \/ UNCHANGED clock
      \/ clock' = clock + 1 /\ UNCHANGED <<pc, late>>
      \/ Rerun
  BY DEF Next, Dispatch, Start, Begin, Await, Fetch, WaitTimesOut,
     Timeout, Exhausted, Yield, Abandon, Abort, CacheMissing, Fail, TakeBatch, WriteNext,
     UnitDone, Join, Shutdown, Render, Collide, Tick, Kill, WorkerTakes, WorkerReturns
<1>c. \/ UNCHANGED late
      \/ late' = clock /\ UNCHANGED clock
      \/ Rerun
  BY DEF Next, Dispatch, Start, Begin, Await, Fetch, WaitTimesOut,
     Timeout, Exhausted, Yield, Abandon, Abort, CacheMissing, Fail, TakeBatch, WriteNext,
     UnitDone, Join, Shutdown, Render, Collide, Tick, Kill, WorkerTakes, WorkerReturns
<1>1. late' <= clock'
  BY <1>a, <1>b, <1>c DEF Rerun
<1>2. pc' = "deadline" => clock' > 0
  <2>. SUFFICES ASSUME pc' = "deadline" PROVE clock' > 0
    OBVIOUS
  <2>1. CASE Timeout
    BY <2>1 DEF Timeout
  <2>2. CASE UnitDone
    BY <1>a, <2>2 DEF UnitDone
  <2>3. CASE pc = "deadline"
    BY <1>0, <1>a, <1>b, <2>3 DEF Caused, Rerun, Ended
  <2>4. Timeout \/ UnitDone \/ pc = "deadline"
    BY DEF Next, Dispatch, Start, Begin, Await, Fetch, WaitTimesOut,
     Exhausted, Yield, Abandon, Abort, CacheMissing, Fail, TakeBatch, WriteNext,
     Join, Shutdown, Render, Collide, Tick, Kill, Rerun, WorkerTakes, WorkerReturns
  <2>. QED BY <2>1, <2>2, <2>3, <2>4
<1>3. pc' = "join" => todo' \subseteq abandoned'
  <2>. SUFFICES ASSUME pc' = "join" PROVE todo' \subseteq abandoned'
    OBVIOUS
  <2>1. CASE Exhausted
    BY <1>0, <2>1 DEF Exhausted, Partition, Iterating, InHand, Ledger, Disjoint, Unsettled,
       TypeOK
  <2>2. CASE Join
    BY <1>0, <2>2 DEF Join, Partition, GivingUp, Ledger, Disjoint, Unsettled, TypeOK
  <2>3. CASE \E s \in Student : Abandon(s)
    BY <1>0, <2>3 DEF Abandon, AlreadyAbandoned, Caused
  <2>4. CASE pc = "join" /\ UNCHANGED <<todo, abandoned>>
    BY <1>0, <2>4 DEF Caused
  <2>5. \/ Exhausted \/ Join \/ \E s \in Student : Abandon(s)
        \/ pc = "join" /\ UNCHANGED <<todo, abandoned>>
    BY DEF Next, Dispatch, Start, Begin, Await, Fetch, WaitTimesOut, Timeout, Yield, Abort,
     CacheMissing, Fail, TakeBatch, WriteNext, UnitDone, Shutdown, Render, Collide, Tick,
     Kill, Rerun, WorkerTakes, WorkerReturns
  <2>. QED BY <2>1, <2>2, <2>3, <2>4, <2>5
<1>4. pc' = "breaker" => About({"RunAborted"}, RunId)' # {}
  <2>. SUFFICES ASSUME pc' = "breaker" PROVE About({"RunAborted"}, RunId)' # {}
    OBVIOUS
  <2>1. CASE Abort
    <3>1. RunAborted \in log'
      BY <2>1 DEF Abort, Write
    <3>2. RunAborted.step = "RunAborted" /\ RunAborted.unit = RunId
      BY DEF RunAborted, Fact
    <3>. QED BY <3>1, <3>2 DEF About
  <2>2. CASE pc = "breaker"
    BY <1>0, <2>2 DEF Caused, About
  <2>3. Abort \/ pc = "breaker"
    BY DEF Next, Dispatch, Start, Begin, Await, Fetch, WaitTimesOut, Timeout, Exhausted,
     Yield, Abandon, CacheMissing, Fail, TakeBatch, WriteNext, UnitDone, Join, Shutdown,
     Render, Collide, Tick, Kill, Rerun, WorkerTakes, WorkerReturns
  <2>. QED BY <2>1, <2>2, <2>3
<1>5. AbandonedForCause'
  <2>. SUFFICES ASSUME epoch' = 1, NEW e \in log', e.step = "TaskAbandoned"
       PROVE  \/ e.body.what = "join_timeout" /\ clock' > 0
              \/ e.body.what = "run_aborted" /\ About({"RunAborted"}, RunId)' # {}
    BY DEF AbandonedForCause
  <2>0. epoch = 1 /\ ~Rerun
    BY <1>0, FirstStays
  <2>1. CASE e \in log
    <3>1. \/ e.body.what = "join_timeout" /\ clock > 0
          \/ e.body.what = "run_aborted" /\ About({"RunAborted"}, RunId) # {}
      BY <1>0, <2>0, <2>1 DEF Caused, AbandonedForCause
    <3>2. clock > 0 => clock' > 0
      BY <1>a, <1>b, <2>0
    <3>. QED BY <1>0, <3>1, <3>2 DEF About
  <2>2. CASE e \notin log
    <3>1. PICK s \in Student : Abandon(s) /\ e = Abandonment(s)
      <4>1. "TaskAbandoned" \notin WorkerStep
        BY DEF WorkerStep
      <4>2. WriteNext => Stamped(cur, Head(queue)).step \in WorkerStep
        BY <1>0, HeadAndTail DEF WriteNext, TypeOK, Stamped, Fact, WorkerEvent
      <4>3. e \in log' \ log
        BY <2>2
      <4>4. \/ Start /\ e = RunStarted
            \/ Abort /\ e = RunAborted
            \/ Fail /\ e = TaskFailed(cur)
            \/ WriteNext /\ e = Stamped(cur, Head(queue))
            \/ \E u \in Student : Abandon(u) /\ e = Abandonment(u)
            \/ Render /\ e = RenderCompleted
        BY <4>3, Written
      <4>. QED BY <4>1, <4>2, <4>4, Kinds
    <3>2. s \in todo /\ s \notin abandoned /\ pc \in {"deadline", "breaker", "join"}
          /\ UNCHANGED <<pc, clock>>
      BY <2>2, <3>1 DEF Abandon, AlreadyAbandoned
    <3>3. pc # "join"
      BY <1>0, <3>2 DEF Caused
    <3>4. e.body.what = IF pc = "breaker" THEN "run_aborted" ELSE "join_timeout"
      BY <3>1 DEF Abandonment, Fact
    <3>. QED BY <1>0, <1>2, <1>4, <3>2, <3>3, <3>4
  <2>. QED BY <2>1, <2>2
<1>. QED BY <1>1, <1>2, <1>3, <1>4, <1>5 DEF Caused

LEMMA WithinBudgetStep ==
  ASSUME IInv, Causes, Next
  PROVE  WithinBudget'
<1>. SUFFICES ASSUME pc' \in {"result", "write"} PROVE attempts' <= MaxTotalAttempts
  BY DEF WithinBudget
<1>. USE DEF pool, loop, ledger
<1>0. TypeOK /\ WithinBudget
  BY DEF IInv, Causes
<1>1. CASE \E s \in Student : Yield(s)
  BY <1>0, <1>1, BoundAssumption DEF Yield, Tripped, TypeOK
<1>2. CASE pc \in {"result", "write"} /\ UNCHANGED attempts
  BY <1>0, <1>2 DEF WithinBudget
<1>3. (\E s \in Student : Yield(s)) \/ (pc \in {"result", "write"} /\ UNCHANGED attempts)
  BY DEF Ended, Next, Dispatch, Start, Begin, Await, Fetch, WaitTimesOut, Timeout, Exhausted,
     Abandon, Abort, CacheMissing, Fail, TakeBatch, WriteNext, UnitDone, Join, Shutdown,
     Render, Collide, Tick, Kill, Rerun, WorkerTakes, WorkerReturns
<1>. QED BY <1>1, <1>2, <1>3

LEMMA CausesInvariance == Spec => []Causes
<1>1. Init => Causes
  BY DEF Init, Causes, Reported, Caused, AbandonedForCause, About, WithinBudget
<1>2. IInv /\ FirstRun /\ Causes /\ [Next]_vars => Causes'
  <2>1. IInv /\ FirstRun /\ Causes /\ Next => Causes'
    BY ReportedStep, CausedStep, WithinBudgetStep DEF Causes
  <2>2. Causes /\ UNCHANGED vars => Causes'
    BY DEF vars, pool, loop, ledger, Causes, Reported, Caused, AbandonedForCause, About,
           WithinBudget
  <2>. QED BY <2>1, <2>2
<1>. QED BY <1>1, <1>2, Invariance, FirstRunInvariance, PTL DEF Spec

\* A cache miss of the operator's is never held against a student: whoever the
\* log holds a failure of was yielded with a failure, or an outcome, of theirs.
THEOREM CacheMissBlamesNobody == Spec => []CacheMissIsNobodysFault
<1>1. Causes => CacheMissIsNobodysFault
  <2>. SUFFICES ASSUME Causes, epoch = 1, NEW s \in Student, result[s].kind = "cache_missing",
                       About({"TaskFailed"}, s) # {}
                PROVE  FALSE
    BY DEF CacheMissIsNobodysFault
  <2>1. About(WorkerStep, s) # {}
    BY DEF About, WorkerStep
  <2>. QED BY <2>1 DEF Causes, Reported, Blamed
<1>. QED BY <1>1, CausesInvariance, PTL

\* Nobody is given up on without cause, whenever the clock strikes.
THEOREM CauseGiven == Spec => []AbandonedForCause
<1>1. Causes => AbandonedForCause
  BY DEF Causes, Caused
<1>. QED BY <1>1, CausesInvariance, PTL

\* Once the breaker is in the log, not one finding more is written.
THEOREM BreakerStops == Spec => BreakerHolds
<1>1. IInv /\ FirstRun /\ [Next]_vars =>
        (epoch' = 1 /\ About({"RunAborted"}, RunId) # {} =>
           \A e \in log' \ log : e.step \in {"TaskAbandoned", "RenderCompleted"})
  <2>. SUFFICES ASSUME IInv, FirstRun, [Next]_vars, epoch' = 1,
                       NEW a \in log, a.step = "RunAborted", a.unit = RunId,
                       NEW e \in log' \ log
                PROVE  e.step \in {"TaskAbandoned", "RenderCompleted"}
    BY DEF About
  <2>1. Next /\ TypeOK
    BY DEF vars, IInv
  <2>2. Explained(a)
    BY <2>1, FirstStays DEF FirstRun
  <2>3. pc \notin {"start"} \union Iterating
    BY <2>1, <2>2, StudentAssumption
       DEF Explained, ByTheRun, OfAbandoned, OfLedger, OfHand, TypeOK, Ledger, Ended, Iterating
  <2>4. \/ Start /\ e = RunStarted
        \/ Abort /\ e = RunAborted
        \/ Fail /\ e = TaskFailed(cur)
        \/ WriteNext /\ e = Stamped(cur, Head(queue))
        \/ \E u \in Student : Abandon(u) /\ e = Abandonment(u)
        \/ Render /\ e = RenderCompleted
    BY <2>1, Written
  <2>5. ~Start /\ ~Abort /\ ~Fail /\ ~WriteNext
    BY <2>3 DEF Start, Abort, Fail, WriteNext, Iterating
  <2>. QED BY <2>4, <2>5, Kinds
<1>. QED BY <1>1, Invariance, FirstRunInvariance, PTL DEF Spec, BreakerHolds

\* No unit is taken in after the attempts spent exceed the run's budget, over
\* every execution of the id.
THEOREM BudgetKept == Spec => BudgetStopsTheRun
<1>1. IInv /\ Causes /\ [Next]_vars =>
        (attempts > MaxTotalAttempts => completed' \subseteq completed)
  <2>. SUFFICES ASSUME IInv, Causes, [Next]_vars, attempts > MaxTotalAttempts
                PROVE  completed' \subseteq completed
    OBVIOUS
  <2>1. ~UnitDone
    BY BoundAssumption DEF UnitDone, Causes, WithinBudget, IInv, TypeOK
  <2>. QED
    BY <2>1 DEF vars, ledger, Next, Dispatch, Start, Begin, Await, Fetch, WaitTimesOut, Timeout,
       Exhausted, Yield, Abandon, Abort, CacheMissing, Fail, TakeBatch, WriteNext, Join,
       Shutdown, Render, Collide, Tick, Kill, Rerun, WorkerTakes, WorkerReturns
<1>. QED BY <1>1, Invariance, CausesInvariance, PTL DEF Spec, BudgetStopsTheRun
=============================================================================
