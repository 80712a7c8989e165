---------------------------- MODULE Worker_proofs ---------------------------
(***************************************************************************)
(* A worker whose model answers what it was asked hands over a batch that  *)
(* gives each criterion one outcome and cannot collide with itself, for    *)
(* any rubric, any number of attempts and any answers.  The argument: at   *)
(* any time a criterion is settled, or rejected in this attempt, or still  *)
(* waits at the gate, and only one of the three; what waits has nothing in *)
(* the batch from this attempt but the draft in hand.                      *)
(***************************************************************************)
EXTENDS Worker, TLAPS

Event ==
  [step : WorkerStep, unit : {Unit}, key : (Named \union {NoCriterion}) \X Nat, body : Body]

AtGate == {"gate", "citation", "entailment", "second_reader"}

\* The criteria of the observations that wait at the gate.
Waiting == {drafted[k].crit : k \in DOMAIN drafted}

Settled == {c \in Criterion : \E e \in Logged : e.step \in CriterionOutcome /\ e.key[1] = c}

\* The events of a batch, and that no two have one identity.
In(q) == {q[i] : i \in DOMAIN q}

DistinctIn(q) == \A i, j \in DOMAIN q : EventId(q[i]) = EventId(q[j]) => i = j

OneIdentityEach == DistinctIn(events)

\* How the batch begins.
Opened ==
  /\ pc = "ingest" => events = <<>>
  /\ pc \in {"triage", "scan", "ask", "escalate", "done"} \union AtGate =>
       events # <<>> /\ events[1].step = "SubmissionIngested"
  /\ pc \in {"triage", "scan"} =>
       \A e \in Logged : e.step \in {"SubmissionIngested", "RenditionFrozen", "TriageDecided"}
  /\ pc = "triage" => \A e \in Logged : e.step # "TriageDecided"
  /\ pc \in {"ingest", "triage", "scan"} => attempt = 0 /\ pending = Criterion
  /\ pc \in {"triage", "scan"} => \A e \in Logged : e.key[2] = 0 /\ e.body.why = ""

OneEach ==
  \A e, f \in Logged :
    e.step \in CriterionOutcome /\ f.step \in CriterionOutcome /\ e.key[1] = f.key[1] => e = f

\* Where every criterion is.
Accounted ==
  /\ pc \in {"ask", "escalate"} => pending = Criterion \ Settled
  /\ pc \in AtGate =>
       /\ Waiting \union rejected \union Settled = Criterion
       /\ Waiting \intersect rejected = {}
       /\ Settled \intersect (Waiting \union rejected) = {}
       /\ Waiting \union rejected \subseteq pending
  /\ pc = "done" => IF ExcludedByTriage THEN Settled = {} ELSE Settled = Criterion

\* What is new about what waits.
Unsaid ==
  /\ pc \in AtGate =>
       /\ attempt > 0
       /\ \A i, j \in DOMAIN drafted : drafted[i].crit = drafted[j].crit => i = j
       /\ pc # "gate" => drafted # <<>>
       /\ \A e \in Logged :
            /\ e.key[2] <= attempt
            /\ e.key[1] \in Waiting =>
                 \/ e.key[2] < attempt
                 \/ pc # "gate" /\ e.step = "ObservationDrafted" /\ e.key[1] = Current
  /\ pc = "ask" => \A e \in Logged : e.key[2] <= attempt
  /\ pc \in {"ask"} \union AtGate => \A e \in Logged : e.step # "TaskFailed"
  /\ pc = "escalate" => ~ExcludedByTriage

\* What was rejected so far.
Earned ==
  /\ pc = "ask" =>
       \A c \in pending, n \in 1 .. attempt : Has("ObservationRejected", c, n)
  /\ pc \in AtGate =>
       /\ \A c \in pending, n \in 1 .. attempt - 1 : Has("ObservationRejected", c, n)
       /\ \A c \in rejected : Has("ObservationRejected", c, attempt)
  /\ pc = "escalate" =>
       \A c \in pending, n \in 1 .. MaxAttempts :
         Has("ObservationRejected", c, n) \/ \E m \in 1 .. n : MalformedAt(m)

IInv ==
  /\ TypeOK /\ OneIdentityEach /\ Opened /\ OneEach /\ Accounted /\ Unsaid
  /\ OnlyRejectedGoesRound /\ CapIsEarned /\ Earned
-----------------------------------------------------------------------------
(* What one more event changes.                                            *)

\* A batch and one event with an identity of its own more.
LEMMA Adding ==
  ASSUME NEW q \in Seq(Event), DistinctIn(q), NEW e \in Event,
         \A f \in In(q) : EventId(f) # EventId(e)
  PROVE  /\ Append(q, e) \in Seq(Event) /\ Append(q, e) # <<>>
         /\ In(Append(q, e)) = In(q) \union {e}
         /\ DistinctIn(Append(q, e))
         /\ q # <<>> => Append(q, e)[1] = q[1]
         /\ q = <<>> => Append(q, e)[1] = e
<1> DEFINE p == Append(q, e)
<1>1. /\ p \in Seq(Event) /\ Len(p) = Len(q) + 1 /\ Len(q) \in Nat
      /\ \A i \in 1 .. Len(q) : p[i] = q[i]
      /\ p[Len(q) + 1] = e
  OBVIOUS
<1>2. DOMAIN q = 1 .. Len(q) /\ DOMAIN p = 1 .. Len(q) + 1
  BY <1>1
<1>. HIDE DEF p
<1>3. In(p) = In(q) \union {e}
  BY <1>1, <1>2 DEF In
<1>4. ASSUME NEW i \in DOMAIN p, NEW j \in DOMAIN p, EventId(p[i]) = EventId(p[j])
      PROVE  i = j
  <2>1. \A k \in 1 .. Len(q) : EventId(q[k]) # EventId(e)
    BY <1>2 DEF In
  <2>2. CASE i = Len(q) + 1 \/ j = Len(q) + 1
    BY <1>1, <1>2, <1>4, <2>1, <2>2
  <2>3. CASE i \in 1 .. Len(q) /\ j \in 1 .. Len(q)
    BY <1>1, <1>2, <1>4, <2>3 DEF DistinctIn
  <2>. QED BY <1>1, <1>2, <2>2, <2>3
<1>5. DistinctIn(p)
  BY <1>4 DEF DistinctIn
<1>6. p # <<>> /\ (q # <<>> => p[1] = q[1]) /\ (q = <<>> => p[1] = e)
  BY <1>1, <1>2
<1>. QED BY <1>1, <1>3, <1>5, <1>6 DEF p

\* The reasons an event may give, the empty one for none.
Why == {"", "triage", "analysis", "citation", "entailment_disagreement",
        "second_reader_disagreement", "attempt_cap_reached"}

\* An event about a criterion is one of the worker.
LEMMA ObservedIsEvent ==
  ASSUME NEW s \in WorkerStep, NEW c \in Named \union {NoCriterion}, NEW n \in Nat, NEW w \in Why
  PROVE  /\ Observed(s, c, n, w) \in Event
         /\ Observed(s, c, n, w).step = s /\ Observed(s, c, n, w).body.why = w
         /\ Observed(s, c, n, w).key[1] = c /\ Observed(s, c, n, w).key[2] = n
         /\ Observed(s, c, n, w).key = <<c, n>>
  BY DEF Observed, Event, Body, Why

\* So is one about the unit.
LEMMA OnUnitIsEvent ==
  ASSUME NEW s \in WorkerStep
  PROVE  /\ OnUnit(s) \in Event /\ OnUnit(s).step = s
         /\ OnUnit(s).key[2] = 0 /\ OnUnit(s).body.why = ""
  BY DEF OnUnit, Observed, Event, Body

\* Two events of the worker differ in their identity when they differ in step,
\* criterion or attempt.
LEMMA SameIdentity ==
  ASSUME NEW e \in Event, NEW f \in Event, EventId(e) = EventId(f)
  PROVE  e.step = f.step /\ e.key[1] = f.key[1] /\ e.key[2] = f.key[2]
  BY DEF EventId, Event

\* The batch consists of events of the worker.
LEMMA EventsTyped ==
  ASSUME TypeOK
  PROVE  /\ events \in Seq(Event) /\ Logged = In(events) /\ Logged \subseteq Event
         /\ \A e \in Logged :
              /\ e.step \in WorkerStep /\ e.key[1] \in Named \union {NoCriterion} /\ e.key[2] \in Nat
              /\ e.key = <<e.key[1], e.key[2]>>
<1>1. events \in Seq(Event) /\ Logged = In(events)
  BY DEF TypeOK, Event, Logged, In
<1>2. \A i \in DOMAIN events : events[i] \in Event
  BY <1>1
<1>3. Logged \subseteq Event
  BY <1>2 DEF Logged
<1>4. \A e \in Event : e.step \in WorkerStep /\ e.key[1] \in Named \union {NoCriterion}
                       /\ e.key[2] \in Nat /\ e.key = <<e.key[1], e.key[2]>>
  BY DEF Event
<1>. QED BY <1>1, <1>3, <1>4

\* What the batch has it keeps.
LEMMA HasGrows ==
  ASSUME Logged \subseteq Logged'
  PROVE  /\ \A s, c, n : Has(s, c, n) => Has(s, c, n)'
         /\ \A n : MalformedAt(n) => MalformedAt(n)'
  BY DEF Has, MalformedAt

\* One event more, with what it must be to leave the log as it should be.
LEMMA LogStep ==
  ASSUME TypeOK, OneIdentityEach, OneEach, OnlyRejectedGoesRound, CapIsEarned,
         NEW e \in Event, events' = Append(events, e),
         \A f \in Logged : EventId(f) # EventId(e),
         e.step \in CriterionOutcome =>
           \A f \in Logged : f.step \in CriterionOutcome => f.key[1] # e.key[1],
         e.step \in CriterionOutcome \union {"ObservationDrafted"} /\ e.key[2] > 1 =>
           Has("ObservationRejected", e.key[1], e.key[2] - 1) \/ e.body.why = "attempt_cap_reached",
         e.body.why = "attempt_cap_reached" =>
           \A n \in 1 .. MaxAttempts :
             Has("ObservationRejected", e.key[1], n) \/ \E m \in 1 .. n : MalformedAt(m)
  PROVE  /\ events' \in Seq(Event) /\ events' # <<>> /\ (events # <<>> => events'[1] = events[1])
         /\ Logged' = Logged \union {e}
         /\ OneIdentityEach' /\ OneEach' /\ OnlyRejectedGoesRound' /\ CapIsEarned'
         /\ \A s, c, n : Has(s, c, n) => Has(s, c, n)'
         /\ \A n : MalformedAt(n) => MalformedAt(n)'
<1>1. events \in Seq(Event) /\ Logged = In(events)
  BY EventsTyped
<1>2. /\ events' \in Seq(Event) /\ events' # <<>> /\ (events # <<>> => events'[1] = events[1])
      /\ In(events') = Logged \union {e} /\ DistinctIn(events')
  BY <1>1, Adding DEF OneIdentityEach
<1>3. Logged' = Logged \union {e} /\ OneIdentityEach'
  BY <1>2 DEF Logged, In, OneIdentityEach
<1>4. /\ \A s, c, n : Has(s, c, n) => Has(s, c, n)'
      /\ \A n : MalformedAt(n) => MalformedAt(n)'
  BY <1>3, HasGrows
<1>5. OneEach'
  BY <1>3 DEF OneEach
<1>6. OnlyRejectedGoesRound'
  BY <1>3, <1>4 DEF OnlyRejectedGoesRound
<1>7. CapIsEarned'
  BY <1>3, <1>4 DEF CapIsEarned
<1>. QED BY <1>2, <1>3, <1>4, <1>5, <1>6, <1>7

\* A batch without outcomes, drafts and caps cannot break what they must satisfy.
LEMMA EarlyLog ==
  ASSUME \A e \in Logged' : /\ e.step \notin CriterionOutcome \union {"ObservationDrafted"}
                            /\ e.body.why # "attempt_cap_reached"
  PROVE  OneEach' /\ OnlyRejectedGoesRound' /\ CapIsEarned' /\ Settled' = {}
  BY DEF OneEach, OnlyRejectedGoesRound, CapIsEarned, Settled

\* The observation in hand leaves the gate.
LEMMA OneLess ==
  ASSUME drafted \in Seq(Entry), drafted # <<>>,
         \A i, j \in DOMAIN drafted : drafted[i].crit = drafted[j].crit => i = j
  PROVE  /\ Current \in Waiting /\ Current \in Named
         /\ drafted' = Tail(drafted) =>
              /\ drafted' \in Seq(Entry)
              /\ Waiting' = Waiting \ {Current}
              /\ \A i, j \in DOMAIN drafted' : drafted'[i].crit = drafted'[j].crit => i = j
<1>1. /\ Len(drafted) \in Nat /\ Len(drafted) > 0 /\ DOMAIN drafted = 1 .. Len(drafted)
      /\ Current = drafted[1].crit /\ drafted[1] \in Entry
  BY DEF Current
<1>2. Current \in Waiting /\ Current \in Named
  BY <1>1 DEF Waiting, Entry
<1>3. ASSUME drafted' = Tail(drafted)
      PROVE  /\ drafted' \in Seq(Entry)
             /\ Waiting' = Waiting \ {Current}
             /\ \A i, j \in DOMAIN drafted' : drafted'[i].crit = drafted'[j].crit => i = j
  <2>1. /\ drafted' \in Seq(Entry) /\ DOMAIN drafted' = 1 .. Len(drafted) - 1
        /\ \A k \in 1 .. Len(drafted) - 1 : drafted'[k] = drafted[k + 1]
    BY <1>1, <1>3
  <2>2. \A i, j \in DOMAIN drafted' : drafted'[i].crit = drafted'[j].crit => i = j
    BY <1>1, <2>1
  <2>3. Waiting' \subseteq Waiting \ {Current}
    BY <1>1, <2>1 DEF Waiting
  <2>4. ASSUME NEW c \in Waiting, c # Current
        PROVE  c \in Waiting'
    <3>1. PICK k \in DOMAIN drafted : c = drafted[k].crit
      BY DEF Waiting
    <3>2. k - 1 \in DOMAIN drafted' /\ drafted'[k - 1] = drafted[k]
      BY <1>1, <2>1, <2>4, <3>1
    <3>. QED BY <3>1, <3>2 DEF Waiting
  <2>5. Waiting' = Waiting \ {Current}
    BY <2>3, <2>4
  <2>. QED BY <2>1, <2>2, <2>5
<1>. QED BY <1>2, <1>3
-----------------------------------------------------------------------------
(* The steps.                                                              *)

\* The worker begins with an empty batch, and all is to be done.
LEMMA InitIInv == Init => IInv
<1>. SUFFICES ASSUME Init PROVE IInv
  OBVIOUS
<1>1. events = <<>> /\ Logged = {} /\ pc = "ingest" /\ attempt = 0 /\ pending = Criterion
      /\ drafted = <<>> /\ rejected = {}
  BY DEF Init, Logged
<1>2. TypeOK
  BY <1>1, MaxAttemptsAssumption DEF TypeOK, Running
<1>3. OneIdentityEach /\ Opened /\ OneEach /\ Accounted /\ Unsaid
  BY <1>1 DEF OneIdentityEach, DistinctIn, Opened, OneEach, Accounted, Unsaid, AtGate
<1>4. OnlyRejectedGoesRound /\ CapIsEarned /\ Earned
  BY <1>1 DEF OnlyRejectedGoesRound, CapIsEarned, Earned, AtGate
<1>. QED BY <1>2, <1>3, <1>4 DEF IInv

\* The batch up to the first question.
LEMMA IngestStep ==
  ASSUME IInv, Ingest
  PROVE  IInv'
<1> DEFINE a == OnUnit("SubmissionIngested")
           b == OnUnit("RenditionFrozen")
<1>1. /\ a \in Event /\ a.step = "SubmissionIngested" /\ a.key[2] = 0 /\ a.body.why = ""
      /\ b \in Event /\ b.step = "RenditionFrozen" /\ b.key[2] = 0 /\ b.body.why = ""
  BY OnUnitIsEvent DEF WorkerStep
<1>2. events' = Append(Append(<<>>, a), b)
  BY DEF Ingest
<1>. HIDE DEF a, b
<1>3. EventId(a) # EventId(b)
  BY <1>1, SameIdentity
<1> DEFINE p == Append(<<>>, a)
<1>4. p \in Seq(Event) /\ In(p) = {a} /\ DistinctIn(p) /\ p[1] = a /\ p # <<>>
  <2>1. <<>> \in Seq(Event) /\ DistinctIn(<<>>) /\ In(<<>>) = {}
    BY DEF DistinctIn, In
  <2>. QED BY <1>1, <2>1, Adding
<1>5. /\ events' \in Seq(Event) /\ In(events') = {a, b} /\ DistinctIn(events')
      /\ events' # <<>> /\ events'[1] = a
  <2>1. events' = Append(p, b)
    BY <1>2
  <2>. HIDE DEF p
  <2>2. \A f \in In(p) : EventId(f) # EventId(b)
    BY <1>3, <1>4
  <2>3. /\ Append(p, b) \in Seq(Event) /\ In(Append(p, b)) = In(p) \union {b}
        /\ DistinctIn(Append(p, b)) /\ Append(p, b) # <<>> /\ Append(p, b)[1] = p[1]
    BY <1>1, <1>4, <2>2, Adding
  <2>. QED BY <1>4, <2>1, <2>3
<1>6. Logged' = {a, b} /\ OneIdentityEach'
  BY <1>5 DEF Logged, In, OneIdentityEach
<1>7. pc' = "triage" /\ attempt' = 0 /\ pending' = Criterion /\ UNCHANGED <<drafted, rejected>>
  BY DEF Ingest, IInv, Opened
<1>8. TypeOK'
  BY <1>5, <1>7, MaxAttemptsAssumption DEF IInv, TypeOK, Event, Running
<1>9. OneEach' /\ OnlyRejectedGoesRound' /\ CapIsEarned'
  BY <1>1, <1>6, EarlyLog DEF CriterionOutcome
<1>10. Opened' /\ Accounted' /\ Unsaid' /\ Earned'
  BY <1>1, <1>5, <1>6, <1>7 DEF Opened, Accounted, Unsaid, Earned, AtGate
<1>. QED BY <1>6, <1>8, <1>9, <1>10 DEF IInv

\* A unit that is not analyzed ends with the one event that says so.
LEMMA TriageStep ==
  ASSUME IInv, NEW analyze \in BOOLEAN, Triage(analyze)
  PROVE  IInv'
<1> DEFINE a == OnUnit("TriageDecided")
           b == Observed("TaskFailed", NoCriterion, 0, "triage")
<1>1. /\ a \in Event /\ a.step = "TriageDecided" /\ a.key[2] = 0 /\ a.body.why = ""
      /\ b \in Event /\ b.step = "TaskFailed" /\ b.body.why = "triage"
  BY OnUnitIsEvent DEF Observed, Event, Body, WorkerStep
<1>2. /\ events' = IF analyze THEN Append(events, a) ELSE Append(Append(events, a), b)
      /\ pc = "triage" /\ pc' = IF analyze THEN "scan" ELSE "done"
      /\ UNCHANGED <<attempt, pending, drafted, rejected>>
  <2>1. events \in Seq(Event)
    BY EventsTyped DEF IInv
  <2>2. events \o <<a, b>> = Append(Append(events, a), b)
    BY <2>1
  <2>. QED BY <2>2 DEF Triage
<1>. HIDE DEF a, b
<1>3. /\ events \in Seq(Event) /\ Logged = In(events) /\ DistinctIn(events) /\ Logged \subseteq Event
      /\ events # <<>> /\ events[1].step = "SubmissionIngested"
      /\ \A e \in Logged : /\ e.step \in {"SubmissionIngested", "RenditionFrozen"}
                           /\ e.key[2] = 0 /\ e.body.why = ""
  BY <1>2, EventsTyped DEF IInv, OneIdentityEach, Opened
<1>4. \A f \in Logged : EventId(f) # EventId(a) /\ EventId(f) # EventId(b)
  BY <1>1, <1>3, SameIdentity
<1>5. EventId(a) # EventId(b)
  BY <1>1, SameIdentity
<1> DEFINE p == Append(events, a)
           q == Append(p, b)
<1>6. p \in Seq(Event) /\ In(p) = Logged \union {a} /\ DistinctIn(p) /\ p # <<>> /\ p[1] = events[1]
  BY <1>1, <1>3, <1>4, Adding
<1>7. q \in Seq(Event) /\ In(q) = Logged \union {a, b} /\ DistinctIn(q) /\ q # <<>> /\ q[1] = events[1]
  <2>. HIDE DEF p
  <2>1. \A f \in In(p) : EventId(f) # EventId(b)
    BY <1>4, <1>5, <1>6
  <2>2. In(q) = In(p) \union {b} /\ q \in Seq(Event) /\ DistinctIn(q) /\ q # <<>> /\ q[1] = p[1]
    BY <1>1, <1>6, <2>1, Adding
  <2>. QED BY <1>6, <2>2
<1>8. /\ events' \in Seq(Event) /\ OneIdentityEach' /\ events' # <<>> /\ events'[1] = events[1]
      /\ Logged' = IF analyze THEN Logged \union {a} ELSE Logged \union {a, b}
  BY <1>2, <1>6, <1>7 DEF Logged, In, OneIdentityEach
<1>9. TypeOK'
  BY <1>2, <1>8 DEF IInv, TypeOK, Event, Running, Final
<1>10. OneEach' /\ OnlyRejectedGoesRound' /\ CapIsEarned' /\ Settled' = {}
  BY <1>1, <1>3, <1>8, EarlyLog DEF CriterionOutcome
<1>11. Opened' /\ Unsaid' /\ Earned'
  BY <1>1, <1>2, <1>3, <1>8 DEF IInv, Opened, Unsaid, Earned, AtGate
<1>12. Accounted'
  <2>1. ~analyze => ExcludedByTriage'
    BY <1>1, <1>8 DEF ExcludedByTriage
  <2>. QED BY <1>2, <1>10, <2>1 DEF Accounted, AtGate
<1>. QED BY <1>8, <1>9, <1>10, <1>11, <1>12 DEF IInv

\* The scan adds one event or two, none about a criterion.
LEMMA ScanStep ==
  ASSUME IInv, NEW detected \in BOOLEAN, Scan(detected)
  PROVE  IInv'
<1> DEFINE a == OnUnit("ArmorScanned")
           b == OnUnit("InjectionDetected")
<1>1. /\ a \in Event /\ a.step = "ArmorScanned" /\ a.key[2] = 0 /\ a.body.why = ""
      /\ b \in Event /\ b.step = "InjectionDetected" /\ b.key[2] = 0 /\ b.body.why = ""
  BY OnUnitIsEvent DEF WorkerStep
<1>2. /\ events' = IF detected THEN Append(Append(events, a), b) ELSE Append(events, a)
      /\ pc = "scan" /\ pc' = "ask"
      /\ UNCHANGED <<attempt, pending, drafted, rejected>>
  <2>1. events \in Seq(Event)
    BY EventsTyped DEF IInv
  <2>2. Append(events, a) \o <<b>> = Append(Append(events, a), b)
        /\ Append(events, a) \o <<>> = Append(events, a)
    BY <2>1
  <2>. QED BY <2>2 DEF Scan
<1>. HIDE DEF a, b
<1>3. /\ events \in Seq(Event) /\ Logged = In(events) /\ DistinctIn(events) /\ Logged \subseteq Event
      /\ events # <<>> /\ events[1].step = "SubmissionIngested"
      /\ \A e \in Logged : /\ e.step \in {"SubmissionIngested", "RenditionFrozen", "TriageDecided"}
                           /\ e.key[2] = 0 /\ e.body.why = ""
      /\ attempt = 0 /\ pending = Criterion
  BY <1>2, EventsTyped DEF IInv, OneIdentityEach, Opened
<1>4. \A f \in Logged : EventId(f) # EventId(a) /\ EventId(f) # EventId(b)
  BY <1>1, <1>3, SameIdentity
<1>5. EventId(a) # EventId(b)
  BY <1>1, SameIdentity
<1> DEFINE p == Append(events, a)
           q == Append(p, b)
<1>6. p \in Seq(Event) /\ In(p) = Logged \union {a} /\ DistinctIn(p) /\ p # <<>> /\ p[1] = events[1]
  BY <1>1, <1>3, <1>4, Adding
<1>7. q \in Seq(Event) /\ In(q) = Logged \union {a, b} /\ DistinctIn(q) /\ q # <<>> /\ q[1] = events[1]
  <2>. HIDE DEF p
  <2>1. \A f \in In(p) : EventId(f) # EventId(b)
    BY <1>4, <1>5, <1>6
  <2>2. In(q) = In(p) \union {b} /\ q \in Seq(Event) /\ DistinctIn(q) /\ q # <<>> /\ q[1] = p[1]
    BY <1>1, <1>6, <2>1, Adding
  <2>. QED BY <1>6, <2>2
<1>8. /\ events' \in Seq(Event) /\ OneIdentityEach' /\ events' # <<>> /\ events'[1] = events[1]
      /\ Logged' = IF detected THEN Logged \union {a, b} ELSE Logged \union {a}
  BY <1>2, <1>6, <1>7 DEF Logged, In, OneIdentityEach
<1>9. TypeOK'
  BY <1>2, <1>8 DEF IInv, TypeOK, Event, Running, Final
<1>10. OneEach' /\ OnlyRejectedGoesRound' /\ CapIsEarned' /\ Settled' = {}
  BY <1>1, <1>3, <1>8, EarlyLog DEF CriterionOutcome
<1>11. Opened' /\ Unsaid' /\ Earned' /\ Accounted'
  <2>1. Opened'
    BY <1>2, <1>3, <1>8 DEF Opened, AtGate
  <2>2. \A e \in Logged' : e.key[2] = 0 /\ e.step # "TaskFailed"
    BY <1>1, <1>3, <1>8
  <2>0. pc' = "ask" /\ attempt' = 0 /\ pending' = Criterion
    BY <1>2, <1>3
  <2>3. Unsaid'
    BY <2>0, <2>2 DEF Unsaid, AtGate
  <2>4. Earned' /\ Accounted'
    BY <2>0, <1>10 DEF Earned, Accounted, AtGate
  <2>. QED BY <2>1, <2>3, <2>4
<1>. QED BY <1>8, <1>9, <1>10, <1>11 DEF IInv

\* A call that raises, or a file that does not parse, leaves nothing to be right
\* or wrong about.
LEMMA LostStep ==
  ASSUME IInv, Unparseable \/ \E how \in {"crashed", "cache_missing"} : Raise(how)
  PROVE  IInv'
<1>1. /\ events' = <<>> /\ pc' \in {"unparseable", "crashed", "cache_missing"}
      /\ UNCHANGED <<attempt, pending, drafted, rejected>>
  BY DEF IInv, Opened, Unparseable, Raise
<1>2. Logged' = {}
  BY <1>1 DEF Logged
<1>3. TypeOK' /\ OneIdentityEach'
  BY <1>1 DEF IInv, TypeOK, OneIdentityEach, DistinctIn, Final
<1>4. OneEach' /\ OnlyRejectedGoesRound' /\ CapIsEarned'
  BY <1>2, EarlyLog
<1>5. Opened' /\ Accounted' /\ Unsaid' /\ Earned'
  BY <1>1 DEF Opened, Accounted, Unsaid, Earned, AtGate
<1>. QED BY <1>3, <1>4, <1>5 DEF IInv
-----------------------------------------------------------------------------
(* Asking.                                                                 *)

\* A new attempt: what waits at the gate is what was pending.
LEMMA AskModelStep ==
  ASSUME Obedient, IInv, NEW r \in Reply, AskModel(r)
  PROVE  IInv'
<1>1. /\ pc = "ask" /\ pending # {} /\ attempt < MaxAttempts /\ Answers(r, pending)
      /\ attempt' = attempt + 1 /\ drafted' = r /\ rejected' = {} /\ pc' = "gate"
      /\ UNCHANGED <<pending, events>>
  BY DEF AskModel, MayAsk
<1>2. attempt \in Nat /\ r \in Seq(Entry) /\ MaxAttempts \in Nat
  BY ReplyAssumption, MaxAttemptsAssumption DEF IInv, TypeOK
<1>3. TypeOK'
  BY <1>1, <1>2 DEF IInv, TypeOK, Running
<1>4. Logged' = Logged /\ Settled' = Settled
  BY <1>1 DEF Logged, Settled
<1>5. OneIdentityEach' /\ OneEach' /\ OnlyRejectedGoesRound' /\ CapIsEarned'
  BY <1>1, <1>4 DEF IInv, OneIdentityEach, OneEach, OnlyRejectedGoesRound, CapIsEarned, Has, MalformedAt
<1>6. Opened'
  BY <1>1, <1>4 DEF IInv, Opened, AtGate
<1>7. Waiting' = pending
  BY <1>1 DEF Waiting, Answers
<1>8. Accounted'
  BY <1>1, <1>4, <1>7 DEF IInv, Accounted, AtGate, Settled
<1>9. Unsaid'
  <2>1. \A i, j \in DOMAIN drafted' : drafted'[i].crit = drafted'[j].crit => i = j
    BY <1>1 DEF Answers
  <2>2. \A e \in Logged : e.key[2] \in Nat /\ e.key[2] <= attempt
    BY <1>1, EventsTyped DEF IInv, Unsaid
  <2>3. \A e \in Logged' : e.key[2] <= attempt' /\ e.key[2] < attempt'
    BY <1>1, <1>2, <1>4, <2>2
  <2>. QED BY <1>1, <1>2, <1>4, <2>1, <2>3 DEF IInv, Unsaid, AtGate
<1>10. Earned'
  <2>1. \A c \in pending, n \in 1 .. attempt : Has("ObservationRejected", c, n)'
    BY <1>1, <1>4 DEF IInv, Earned, Has
  <2>. QED BY <1>1, <1>2, <2>1 DEF Earned, AtGate
<1>. QED BY <1>3, <1>5, <1>6, <1>8, <1>9, <1>10 DEF IInv

\* An answer that cannot be parsed decides nothing and uses up an attempt.
LEMMA AskMalformedStep ==
  ASSUME IInv, AskMalformed
  PROVE  IInv'
<1> DEFINE e == Observed("TaskFailed", NoCriterion, attempt + 1, "analysis")
<1>1. /\ pc = "ask" /\ attempt < MaxAttempts /\ attempt' = attempt + 1 /\ pc' = "escalate"
      /\ events' = Append(events, e) /\ UNCHANGED <<pending, drafted, rejected>>
  BY DEF AskMalformed, MayAsk
<1>2. attempt \in Nat /\ MaxAttempts \in Nat
  BY MaxAttemptsAssumption DEF IInv, TypeOK
<1>3. /\ e \in Event /\ e.step = "TaskFailed" /\ e.body.why = "analysis"
      /\ e.key = <<NoCriterion, attempt + 1>> /\ e.key[2] = attempt + 1
  BY <1>2 DEF Observed, Event, Body, WorkerStep
<1>. HIDE DEF e
<1>4. \A f \in Logged : EventId(f) # EventId(e)
  <2>1. \A f \in Logged : f \in Event /\ f.key[2] \in Nat /\ f.key[2] <= attempt
    BY <1>1, EventsTyped DEF IInv, Unsaid
  <2>. QED BY <1>2, <1>3, <2>1, SameIdentity
<1>5. /\ events' \in Seq(Event) /\ events' # <<>> /\ (events # <<>> => events'[1] = events[1])
      /\ Logged' = Logged \union {e}
      /\ OneIdentityEach' /\ OneEach' /\ OnlyRejectedGoesRound' /\ CapIsEarned'
      /\ \A s, c, n : Has(s, c, n) => Has(s, c, n)'
  BY <1>1, <1>3, <1>4, LogStep DEF IInv, CriterionOutcome
<1>6. TypeOK'
  BY <1>1, <1>2, <1>5 DEF IInv, TypeOK, Event, Running
<1>7. Settled' = Settled
  BY <1>3, <1>5 DEF Settled, CriterionOutcome
<1>8. Opened' /\ Accounted'
  BY <1>1, <1>5, <1>7 DEF IInv, Opened, Accounted, AtGate
<1>9. Unsaid'
  BY <1>1, <1>3, <1>5 DEF IInv, Unsaid, AtGate, ExcludedByTriage
<1>10. Earned'
  <2>1. \A c \in pending, n \in 1 .. attempt : Has("ObservationRejected", c, n)'
    BY <1>1, <1>5 DEF IInv, Earned
  <2>2. ASSUME NEW k, k = attempt + 1 PROVE MalformedAt(k)'
    BY <1>3, <1>5, <2>2 DEF MalformedAt, Has
  <2>3. PICK k \in 1 .. MaxAttempts : k = attempt + 1 /\ MalformedAt(k)'
    BY <1>1, <1>2, <2>2
  <2>4. ASSUME NEW c \in pending, NEW n \in 1 .. MaxAttempts
        PROVE  Has("ObservationRejected", c, n)' \/ \E m \in 1 .. n : MalformedAt(m)'
    <3>1. CASE n <= attempt
      BY <1>2, <2>1, <3>1
    <3>2. CASE n > attempt
      BY <1>2, <2>3, <3>2
    <3>. QED BY <1>2, <3>1, <3>2
  <2>. QED BY <1>1, <2>4 DEF Earned, AtGate
<1>. QED BY <1>5, <1>6, <1>8, <1>9, <1>10 DEF IInv

\* Steps that only move on.
LEMMA SilentStep ==
  ASSUME IInv, UNCHANGED <<attempt, pending, drafted, rejected, events>>,
         \/ LoopEnds
         \/ Finish
         \/ pc \in {"citation", "entailment"} /\ pc' \in {"entailment", "second_reader"}
         \/ UNCHANGED pc
  PROVE  IInv'
<1>1. Logged' = Logged /\ Settled' = Settled /\ Waiting' = Waiting /\ Current' = Current
  BY DEF Logged, Settled, Waiting, Current
<1>2. /\ \A s, c, n : Has(s, c, n) <=> Has(s, c, n)'
      /\ \A n : MalformedAt(n) <=> MalformedAt(n)'
      /\ ExcludedByTriage' <=> ExcludedByTriage
  BY <1>1 DEF Has, MalformedAt, ExcludedByTriage
<1>3. TypeOK'
  BY DEF IInv, TypeOK, LoopEnds, Finish, Running, Final
<1>4. OneIdentityEach' /\ OneEach' /\ OnlyRejectedGoesRound' /\ CapIsEarned'
  BY <1>1, <1>2 DEF IInv, OneIdentityEach, OneEach, OnlyRejectedGoesRound, CapIsEarned
<1>5. Opened' /\ Accounted'
  <2>1. Opened'
    BY <1>1 DEF IInv, Opened, LoopEnds, Finish, AtGate
  <2>2. CASE Finish
    <3>1. ~ExcludedByTriage' /\ Settled' = Criterion
      BY <1>1, <1>2, <2>2 DEF IInv, Accounted, Unsaid, Finish, Settled
    <3>. QED BY <2>1, <2>2, <3>1 DEF Accounted, Finish, AtGate
  <2>3. CASE ~Finish
    BY <1>1, <1>2, <2>1, <2>3 DEF IInv, Accounted, LoopEnds, AtGate
  <2>. QED BY <2>2, <2>3
<1>6. Unsaid'
  BY <1>1, <1>2 DEF IInv, Unsaid, LoopEnds, Finish, AtGate, ExcludedByTriage
<1>7. Earned'
  <2>1. CASE LoopEnds
    <3>1. pending = {} \/ attempt = MaxAttempts
      BY <2>1, MaxAttemptsAssumption DEF LoopEnds, MayAsk, IInv, TypeOK
    <3>. QED BY <1>2, <2>1, <3>1 DEF IInv, Earned, LoopEnds, AtGate
  <2>2. CASE ~LoopEnds
    BY <1>2, <2>2 DEF IInv, Earned, Finish, AtGate
  <2>. QED BY <2>1, <2>2
<1>. QED BY <1>3, <1>4, <1>5, <1>6, <1>7 DEF IInv
-----------------------------------------------------------------------------
(* The gate.                                                               *)

\* Those the gate gives.
GateReason == {"", "citation", "entailment_disagreement", "second_reader_disagreement"}

\* The reasons the gate has.
LEMMA GateReasons ==
  /\ "" \in GateReason /\ "citation" \in GateReason
  /\ "entailment_disagreement" \in GateReason /\ "second_reader_disagreement" \in GateReason
  /\ "attempt_cap_reached" \notin GateReason
  /\ GateReason \subseteq Why
  BY DEF GateReason, Why

\* What holds of the observation in hand.
LEMMA InHand ==
  ASSUME IInv, pc \in AtGate, drafted # <<>>
  PROVE  /\ Current \in Waiting /\ Current \in Criterion /\ Current \in Named /\ Current \in pending
         /\ Current \notin Settled /\ Current \notin rejected
         /\ attempt \in Nat /\ attempt > 0
         /\ \A f \in Logged : f.step # "ObservationDrafted" \/ pc = "gate" =>
              f.key # <<Current, attempt>>
         /\ attempt > 1 => Has("ObservationRejected", Current, attempt - 1)
         /\ drafted' = Tail(drafted) =>
              /\ drafted' \in Seq(Entry)
              /\ Waiting' = Waiting \ {Current}
              /\ \A i, j \in DOMAIN drafted' : drafted'[i].crit = drafted'[j].crit => i = j
<1>1. /\ attempt \in Nat /\ attempt > 0 /\ drafted \in Seq(Entry)
      /\ \A i, j \in DOMAIN drafted : drafted[i].crit = drafted[j].crit => i = j
  BY DEF IInv, TypeOK, Unsaid
<1>2. /\ Current \in Waiting /\ Current \in Named
      /\ drafted' = Tail(drafted) =>
              /\ drafted' \in Seq(Entry)
              /\ Waiting' = Waiting \ {Current}
              /\ \A i, j \in DOMAIN drafted' : drafted'[i].crit = drafted'[j].crit => i = j
  BY <1>1, OneLess
<1>3. Current \in Criterion /\ Current \in pending /\ Current \notin Settled /\ Current \notin rejected
  BY <1>2 DEF IInv, Accounted
<1>4. ASSUME NEW f \in Logged, f.step # "ObservationDrafted" \/ pc = "gate"
      PROVE  f.key # <<Current, attempt>>
  <2>1. f.key[1] \in Waiting => f.key[2] < attempt
    BY <1>4 DEF IInv, Unsaid
  <2>. QED BY <1>1, <1>2, <2>1
<1>5. attempt > 1 => Has("ObservationRejected", Current, attempt - 1)
  BY <1>1, <1>3 DEF IInv, Earned
<1>. QED BY <1>1, <1>2, <1>3, <1>4, <1>5

\* An event about the observation in hand leaves the log as it should be.
LEMMA NoteStep ==
  ASSUME IInv, pc \in AtGate, drafted # <<>>,
         NEW s \in CriterionOutcome \union {"ObservationDrafted", "ObservationRejected"},
         NEW w \in GateReason,
         s = "ObservationDrafted" => pc = "gate",
         Note(s, w)
  PROVE  LET e == Observed(s, Current, attempt, w) IN
         /\ e \in Event /\ e.step = s /\ e.key = <<Current, attempt>>
         /\ e.key[1] = Current /\ e.key[2] = attempt
         /\ events' \in Seq(Event) /\ events' # <<>> /\ (events # <<>> => events'[1] = events[1])
         /\ Logged' = Logged \union {e}
         /\ OneIdentityEach' /\ OneEach' /\ OnlyRejectedGoesRound' /\ CapIsEarned'
         /\ \A t, c, n : Has(t, c, n) => Has(t, c, n)'
         /\ Settled' = IF s \in CriterionOutcome THEN Settled \union {Current} ELSE Settled
<1> DEFINE e == Observed(s, Current, attempt, w)
<1>1. /\ e \in Event /\ e.step = s /\ e.key = <<Current, attempt>> /\ e.body.why = w
      /\ e.key[1] = Current /\ e.key[2] = attempt
  <2>1. /\ s \in WorkerStep /\ Current \in Named \union {NoCriterion} /\ attempt \in Nat
    BY InHand DEF WorkerStep, CriterionOutcome
  <2>2. w \in Why
    BY GateReasons
  <2>. QED BY <2>1, <2>2, ObservedIsEvent
<1>2. events' = Append(events, e)
  BY DEF Note
<1>. HIDE DEF e
<1>3. Current \in Criterion /\ Current \notin Settled
  BY InHand
<1>4. \A f \in Logged : EventId(f) # EventId(e)
  <2>. SUFFICES ASSUME NEW f \in Logged, EventId(f) = EventId(e) PROVE FALSE
    OBVIOUS
  <2>1. f.step = s /\ f.key = <<Current, attempt>>
    BY <1>1 DEF EventId
  <2>2. s # "ObservationDrafted" \/ pc = "gate"
    OBVIOUS
  <2>. QED BY <2>1, <2>2, InHand
<1>5. e.step \in CriterionOutcome => \A f \in Logged : f.step \in CriterionOutcome => f.key[1] # e.key[1]
  BY <1>1, <1>3 DEF Settled
<1>6. e.key[2] > 1 => Has("ObservationRejected", e.key[1], e.key[2] - 1)
  BY <1>1, InHand
<1>7. e.body.why # "attempt_cap_reached"
  BY <1>1, GateReasons
<1>8. /\ events' \in Seq(Event) /\ events' # <<>> /\ (events # <<>> => events'[1] = events[1])
      /\ Logged' = Logged \union {e}
      /\ OneIdentityEach' /\ OneEach' /\ OnlyRejectedGoesRound' /\ CapIsEarned'
      /\ \A t, c, n : Has(t, c, n) => Has(t, c, n)'
  BY <1>1, <1>2, <1>4, <1>5, <1>6, <1>7, LogStep DEF IInv
<1>9. Settled' = IF s \in CriterionOutcome THEN Settled \union {Current} ELSE Settled
  BY <1>1, <1>3, <1>8 DEF Settled
<1>. QED BY <1>1, <1>8, <1>9 DEF e

\* The observation is decided.
LEMMA OutcomeStep ==
  ASSUME IInv, pc \in AtGate, drafted # <<>>, NEW s \in CriterionOutcome,
         NEW w \in GateReason,
         Note(s, w), NextDraft, UNCHANGED <<attempt, pending, rejected>>
  PROVE  IInv'
<1> DEFINE e == Observed(s, Current, attempt, w)
<1>1. /\ e \in Event /\ e.step = s /\ e.key = <<Current, attempt>>
      /\ e.key[1] = Current /\ e.key[2] = attempt
      /\ events' \in Seq(Event) /\ events' # <<>> /\ (events # <<>> => events'[1] = events[1])
      /\ Logged' = Logged \union {e}
      /\ OneIdentityEach' /\ OneEach' /\ OnlyRejectedGoesRound' /\ CapIsEarned'
      /\ \A t, c, n : Has(t, c, n) => Has(t, c, n)'
      /\ Settled' = Settled \union {Current}
  <2>1. s \in CriterionOutcome \union {"ObservationDrafted", "ObservationRejected"}
    OBVIOUS
  <2>2. s # "ObservationDrafted"
    BY DEF CriterionOutcome
  <2>. QED BY <2>1, <2>2, NoteStep, GateReasons
<1>. HIDE DEF e
<1>2. /\ Current \in Waiting /\ Current \in Criterion /\ Current \in pending
      /\ Current \notin Settled /\ Current \notin rejected /\ attempt \in Nat /\ attempt > 0
      /\ drafted' \in Seq(Entry) /\ Waiting' = Waiting \ {Current}
      /\ \A i, j \in DOMAIN drafted' : drafted'[i].crit = drafted'[j].crit => i = j
  BY InHand DEF NextDraft
<1>3. pc' = "gate"
  BY DEF NextDraft
<1>4. TypeOK'
  BY <1>1, <1>2, <1>3 DEF IInv, TypeOK, Event, Running
<1>5. Opened'
  BY <1>1, <1>3 DEF IInv, Opened, AtGate
<1>6. Accounted'
  <2>1. /\ Waiting \union rejected \union Settled = Criterion
        /\ Waiting \intersect rejected = {}
        /\ Settled \intersect (Waiting \union rejected) = {}
        /\ Waiting \union rejected \subseteq pending
    BY DEF IInv, Accounted
  <2>2. Settled' = Settled \union {Current} /\ Waiting' = Waiting \ {Current}
        /\ rejected' = rejected /\ pending' = pending
    BY <1>1, <1>2
  <2>3. /\ Waiting' \union rejected' \union Settled' = Criterion
        /\ Waiting' \intersect rejected' = {}
        /\ Settled' \intersect (Waiting' \union rejected') = {}
        /\ Waiting' \union rejected' \subseteq pending'
    BY <1>2, <2>1, <2>2
  <2>. QED BY <1>3, <2>3 DEF Accounted, AtGate
<1>7. Unsaid'
  <2>1. ASSUME NEW f \in Logged'
        PROVE  f.key[2] <= attempt /\ f.step # "TaskFailed" /\ (f.key[1] \in Waiting' => f.key[2] < attempt)
    <3>1. CASE f = e
      <4>1. f.step \in CriterionOutcome /\ f.key[1] = Current /\ f.key[2] = attempt
        BY <1>1, <3>1
      <4>2. f.step # "TaskFailed"
        BY <4>1 DEF CriterionOutcome
      <4>3. attempt <= attempt
        BY <1>2
      <4>4. Current \notin Waiting'
        BY <1>2, Zenon
      <4>. QED BY <4>1, <4>2, <4>3, <4>4
    <3>2. CASE f \in Logged
      BY <1>2, <3>2 DEF IInv, Unsaid
    <3>. QED BY <1>1, <2>1, <3>1, <3>2
  <2>. QED BY <1>2, <1>3, <2>1 DEF Unsaid, AtGate
<1>8. Earned'
  <2>1. \A c \in pending, n \in 1 .. attempt - 1 : Has("ObservationRejected", c, n)'
    BY <1>1 DEF IInv, Earned
  <2>2. ASSUME NEW c \in rejected, NEW k, k = attempt PROVE Has("ObservationRejected", c, k)'
    BY <1>1, <2>2 DEF IInv, Earned
  <2>. QED BY <1>3, <2>1, <2>2 DEF Earned, AtGate
<1>. QED BY <1>1, <1>4, <1>5, <1>6, <1>7, <1>8 DEF IInv

\* The observation goes round again.
LEMMA RejectStep ==
  ASSUME IInv, CitationFails
  PROVE  IInv'
<1> DEFINE e == Observed("ObservationRejected", Current, attempt, "citation")
<1>1. pc \in AtGate /\ drafted # <<>>
  BY DEF CitationFails, AtGate, IInv, Unsaid
<1>2. /\ e \in Event /\ e.step = "ObservationRejected" /\ e.key = <<Current, attempt>>
      /\ e.key[1] = Current /\ e.key[2] = attempt
      /\ events' \in Seq(Event) /\ events' # <<>> /\ (events # <<>> => events'[1] = events[1])
      /\ Logged' = Logged \union {e}
      /\ OneIdentityEach' /\ OneEach' /\ OnlyRejectedGoesRound' /\ CapIsEarned'
      /\ \A t, c, n : Has(t, c, n) => Has(t, c, n)'
      /\ Settled' = Settled
  <2>1. "ObservationRejected" \in CriterionOutcome \union {"ObservationDrafted", "ObservationRejected"}
        /\ "ObservationRejected" \notin CriterionOutcome
    BY DEF CriterionOutcome
  <2>2. Note("ObservationRejected", "citation")
    BY DEF CitationFails
  <2>. QED BY <1>1, <2>1, <2>2, NoteStep, GateReasons
<1>. HIDE DEF e
<1>3. /\ Current \in Waiting /\ Current \in Criterion /\ Current \in pending /\ Current \in Named
      /\ Current \notin Settled /\ Current \notin rejected /\ attempt \in Nat /\ attempt > 0
      /\ drafted' \in Seq(Entry) /\ Waiting' = Waiting \ {Current}
      /\ \A i, j \in DOMAIN drafted' : drafted'[i].crit = drafted'[j].crit => i = j
  BY <1>1, InHand DEF CitationFails, NextDraft
<1>4. pc' = "gate" /\ rejected' = rejected \union {Current} /\ UNCHANGED <<attempt, pending>>
  BY DEF CitationFails, NextDraft
<1>5. TypeOK'
  BY <1>2, <1>3, <1>4 DEF IInv, TypeOK, Event, Running
<1>6. Opened'
  BY <1>1, <1>2, <1>4 DEF IInv, Opened, AtGate
<1>7. Accounted'
  BY <1>1, <1>2, <1>3, <1>4 DEF IInv, Accounted, AtGate
<1>8. Unsaid'
  <2>1. ASSUME NEW f \in Logged'
        PROVE  f.key[2] <= attempt /\ f.step # "TaskFailed" /\ (f.key[1] \in Waiting' => f.key[2] < attempt)
    <3>1. CASE f = e
      BY <1>2, <1>3, <3>1
    <3>2. CASE f \in Logged
      BY <1>1, <1>3, <3>2 DEF IInv, Unsaid
    <3>. QED BY <1>2, <2>1, <3>1, <3>2
  <2>. QED BY <1>3, <1>4, <2>1 DEF Unsaid, AtGate
<1>9. Earned'
  <2>1. \A c \in pending, n \in 1 .. attempt - 1 : Has("ObservationRejected", c, n)'
    BY <1>1, <1>2 DEF IInv, Earned
  <2>2. ASSUME NEW c \in rejected', NEW k, k = attempt PROVE Has("ObservationRejected", c, k)'
    <3>1. CASE c = Current
      BY <1>2, <2>2, <3>1 DEF Has
    <3>2. CASE c \in rejected
      BY <1>1, <1>2, <2>2, <3>2 DEF IInv, Earned
    <3>. QED BY <1>4, <2>2, <3>1, <3>2
  <2>. QED BY <1>4, <2>1, <2>2 DEF Earned, AtGate
<1>. QED BY <1>2, <1>5, <1>6, <1>7, <1>8, <1>9 DEF IInv

\* The observation in hand is drafted.
LEMMA DraftStep ==
  ASSUME IInv, Draft
  PROVE  IInv'
<1> DEFINE e == Observed("ObservationDrafted", Current, attempt, "")
<1>1. /\ pc = "gate" /\ pc \in AtGate /\ drafted # <<>> /\ pc' = "citation"
      /\ UNCHANGED <<attempt, pending, drafted, rejected>>
  BY DEF Draft, AtGate
<1>2. /\ e \in Event /\ e.step = "ObservationDrafted" /\ e.key = <<Current, attempt>>
      /\ e.key[1] = Current /\ e.key[2] = attempt
      /\ events' \in Seq(Event) /\ events' # <<>> /\ (events # <<>> => events'[1] = events[1])
      /\ Logged' = Logged \union {e}
      /\ OneIdentityEach' /\ OneEach' /\ OnlyRejectedGoesRound' /\ CapIsEarned'
      /\ \A t, c, n : Has(t, c, n) => Has(t, c, n)'
      /\ Settled' = Settled
  <2>1. "ObservationDrafted" \in CriterionOutcome \union {"ObservationDrafted", "ObservationRejected"}
        /\ "ObservationDrafted" \notin CriterionOutcome
    BY DEF CriterionOutcome
  <2>2. Note("ObservationDrafted", "")
    BY DEF Draft
  <2>. QED BY <1>1, <2>1, <2>2, NoteStep, GateReasons
<1>. HIDE DEF e
<1>3. attempt \in Nat /\ attempt > 0
  BY <1>1, InHand
<1>4. TypeOK'
  BY <1>1, <1>2 DEF IInv, TypeOK, Event, Running
<1>5. Opened'
  BY <1>1, <1>2 DEF IInv, Opened, AtGate
<1>6. Waiting' = Waiting /\ Current' = Current
  BY <1>1 DEF Waiting, Current
<1>7. Accounted'
  BY <1>1, <1>2, <1>6 DEF IInv, Accounted, AtGate
<1>8. Unsaid'
  <2>1. ASSUME NEW f \in Logged'
        PROVE  /\ f.key[2] <= attempt /\ f.step # "TaskFailed"
               /\ f.key[1] \in Waiting =>
                    \/ f.key[2] < attempt
                    \/ f.step = "ObservationDrafted" /\ f.key[1] = Current
    <3>1. CASE f = e
      BY <1>2, <1>3, <3>1
    <3>2. CASE f \in Logged
      <4>1. f.key[2] <= attempt /\ (f.key[1] \in Waiting => f.key[2] < attempt)
        BY <1>1, <3>2 DEF IInv, Unsaid
      <4>2. f.step # "TaskFailed"
        BY <1>1, <3>2 DEF IInv, Unsaid
      <4>. QED BY <4>1, <4>2
    <3>. QED BY <1>2, <2>1, <3>1, <3>2
  <2>2. \A i, j \in DOMAIN drafted' : drafted'[i].crit = drafted'[j].crit => i = j
    BY <1>1 DEF IInv, Unsaid
  <2>. QED BY <1>1, <1>3, <1>6, <2>1, <2>2 DEF Unsaid, AtGate
<1>9. Earned'
  <2>1. \A c \in pending, n \in 1 .. attempt - 1 : Has("ObservationRejected", c, n)'
    BY <1>1, <1>2 DEF IInv, Earned
  <2>2. ASSUME NEW c \in rejected, NEW k, k = attempt PROVE Has("ObservationRejected", c, k)'
    BY <1>1, <1>2, <2>2 DEF IInv, Earned
  <2>. QED BY <1>1, <2>1, <2>2 DEF Earned, AtGate
<1>. QED BY <1>2, <1>4, <1>5, <1>7, <1>8, <1>9 DEF IInv

\* Each step of the gate.
LEMMA GateStep ==
  ASSUME IInv, Gate
  PROVE  IInv'
<1>1. pc \in AtGate /\ drafted # <<>>
  BY DEF IInv, Unsaid, AtGate, Gate, Absence, Draft, CitationFails, CitationHolds, EntailmentDisagrees,
         EntailmentSupports, SecondReaderDenies, SecondReaderPasses
<1>2. CASE Absence
  BY <1>1, <1>2, OutcomeStep, GateReasons DEF Absence, CriterionOutcome
<1>3. CASE CitationHolds
  BY <1>3, SilentStep DEF CitationHolds
<1>4. CASE EntailmentDisagrees
  BY <1>1, <1>4, OutcomeStep, GateReasons DEF EntailmentDisagrees, Escalated, CriterionOutcome
<1>5. CASE EntailmentSupports
  <2>1. CASE SecondReader
    BY <1>5, <2>1, SilentStep DEF EntailmentSupports
  <2>2. CASE ~SecondReader
    BY <1>1, <1>5, <2>2, OutcomeStep, GateReasons DEF EntailmentSupports, CriterionOutcome
  <2>. QED BY <2>1, <2>2
<1>6. CASE SecondReaderDenies
  BY <1>1, <1>6, OutcomeStep, GateReasons DEF SecondReaderDenies, Escalated, CriterionOutcome
<1>7. CASE SecondReaderPasses
  BY <1>1, <1>7, OutcomeStep, GateReasons DEF SecondReaderPasses, CriterionOutcome
<1>. QED BY <1>2, <1>3, <1>4, <1>5, <1>6, <1>7, RejectStep, DraftStep DEF Gate

\* What was not settled, which is what was rejected, is pending again.
LEMMA EndAttemptStep ==
  ASSUME IInv, EndAttempt
  PROVE  IInv'
<1>1. /\ pc = "gate" /\ drafted = <<>> /\ pending' = Retried /\ pc' = "ask"
      /\ UNCHANGED <<attempt, drafted, rejected, events>>
  BY DEF EndAttempt
<1>2. Logged' = Logged /\ Settled' = Settled /\ Waiting = {}
  BY <1>1 DEF Logged, Settled, Waiting
<1>3. /\ \A s, c, n : Has(s, c, n) <=> Has(s, c, n)'
      /\ \A n : MalformedAt(n) <=> MalformedAt(n)'
  BY <1>2 DEF Has, MalformedAt
<1>4. rejected \union Settled = Criterion /\ rejected \intersect Settled = {} /\ rejected \subseteq pending
  BY <1>1, <1>2 DEF IInv, Accounted, AtGate
<1>5. pending' = rejected
  BY <1>1, <1>4 DEF Retried
<1>6. TypeOK'
  BY <1>1, <1>4, <1>5 DEF IInv, TypeOK, Running
<1>7. OneIdentityEach' /\ OneEach' /\ OnlyRejectedGoesRound' /\ CapIsEarned'
  BY <1>1, <1>2, <1>3 DEF IInv, OneIdentityEach, OneEach, OnlyRejectedGoesRound, CapIsEarned
<1>8. Opened' /\ Accounted'
  BY <1>1, <1>2, <1>4, <1>5 DEF IInv, Opened, Accounted, AtGate
<1>9. Unsaid'
  BY <1>1, <1>2 DEF IInv, Unsaid, AtGate
<1>10. Earned'
  <2>1. ASSUME NEW c \in rejected, NEW n \in 1 .. attempt
        PROVE  Has("ObservationRejected", c, n)'
    <3>1. attempt \in Nat
      BY DEF IInv, TypeOK
    <3>2. n = attempt \/ n \in 1 .. attempt - 1
      BY <3>1
    <3>3. Has("ObservationRejected", c, n)
      BY <1>1, <1>4, <3>2 DEF IInv, Earned, AtGate
    <3>. QED BY <1>3, <3>3
  <2>. QED BY <1>1, <1>5, <2>1 DEF Earned, AtGate
<1>. QED BY <1>6, <1>7, <1>8, <1>9, <1>10 DEF IInv

\* What the attempts left is escalated.
LEMMA EscalateStep ==
  ASSUME IInv, NEW c \in Criterion, Escalate(c)
  PROVE  IInv'
<1> DEFINE e == CapEvent(c)
<1>1. /\ pc = "escalate" /\ c \in pending /\ events' = Append(events, e)
      /\ pending' = pending \ {c} /\ UNCHANGED <<pc, attempt, drafted, rejected>>
  BY DEF Escalate
<1>2. /\ e \in Event /\ e.step = "NeedsHumanReview" /\ e.body.why = "attempt_cap_reached"
      /\ e.key = <<c, MaxAttempts>> /\ e.key[1] = c
  BY MaxAttemptsAssumption DEF CapEvent, Observed, Event, Body, WorkerStep, Named
<1>. HIDE DEF e
<1>3. c \notin Settled /\ pending = Criterion \ Settled
  BY <1>1 DEF IInv, Accounted
<1>4. \A f \in Logged : f.step \in CriterionOutcome => f.key[1] # c
  BY <1>3 DEF Settled
<1>5. \A f \in Logged : EventId(f) # EventId(e)
  BY <1>2, <1>4, EventsTyped, SameIdentity DEF IInv, CriterionOutcome
<1>6. \A n \in 1 .. MaxAttempts : Has("ObservationRejected", c, n) \/ \E m \in 1 .. n : MalformedAt(m)
  BY <1>1 DEF IInv, Earned
<1>7. /\ events' \in Seq(Event) /\ events' # <<>> /\ (events # <<>> => events'[1] = events[1])
      /\ Logged' = Logged \union {e}
      /\ OneIdentityEach' /\ OneEach' /\ OnlyRejectedGoesRound' /\ CapIsEarned'
      /\ \A s, d, n : Has(s, d, n) => Has(s, d, n)'
      /\ \A n : MalformedAt(n) => MalformedAt(n)'
  BY <1>1, <1>2, <1>4, <1>5, <1>6, LogStep DEF IInv
<1>8. Settled' = Settled \union {c}
  BY <1>2, <1>3, <1>7 DEF Settled, CriterionOutcome
<1>9. TypeOK'
  BY <1>1, <1>7 DEF IInv, TypeOK, Event
<1>10. Opened' /\ Accounted'
  BY <1>1, <1>3, <1>7, <1>8 DEF IInv, Opened, Accounted, AtGate
<1>11. Unsaid'
  BY <1>1, <1>2, <1>7 DEF IInv, Unsaid, AtGate, ExcludedByTriage
<1>12. Earned'
  <2>1. \A d \in pending', n \in 1 .. MaxAttempts :
          Has("ObservationRejected", d, n) \/ \E m \in 1 .. n : MalformedAt(m)
    BY <1>1 DEF IInv, Earned
  <2>. QED BY <1>1, <1>7, <2>1 DEF Earned, AtGate
<1>. QED BY <1>7, <1>9, <1>10, <1>11, <1>12 DEF IInv
-----------------------------------------------------------------------------
(* The theorems.                                                           *)

\* Each step of a worker.
LEMMA Step ==
  ASSUME Obedient, IInv, [Next]_vars
  PROVE  IInv'
<1>1. CASE Ingest
  BY <1>1, IngestStep
<1>2. ASSUME NEW b \in BOOLEAN, Triage(b) PROVE IInv'
  BY <1>2, TriageStep
<1>3. ASSUME NEW b \in BOOLEAN, Scan(b) PROVE IInv'
  BY <1>3, ScanStep
<1>4. CASE Unparseable \/ \E how \in {"crashed", "cache_missing"} : Raise(how)
  BY <1>4, LostStep
<1>5. ASSUME NEW r \in Reply, AskModel(r) PROVE IInv'
  BY <1>5, AskModelStep
<1>6. CASE AskMalformed
  BY <1>6, AskMalformedStep
<1>7. CASE LoopEnds
  BY <1>7, SilentStep DEF LoopEnds
<1>8. CASE Gate
  BY <1>8, GateStep
<1>9. CASE EndAttempt
  BY <1>9, EndAttemptStep
<1>10. ASSUME NEW c \in Criterion, Escalate(c) PROVE IInv'
  BY <1>10, EscalateStep
<1>11. CASE Finish
  BY <1>11, SilentStep DEF Finish
<1>12. CASE UNCHANGED vars
  BY <1>12, SilentStep DEF vars
<1>. QED BY <1>1, <1>2, <1>3, <1>4, <1>5, <1>6, <1>7, <1>8, <1>9, <1>10, <1>11, <1>12 DEF Next

\* The inductive invariant holds of every reachable state.
LEMMA Invariance ==
  ASSUME Obedient
  PROVE  Spec => []IInv
<1>1. Init => IInv
  BY InitIInv
<1>2. IInv /\ [Next]_vars => IInv'
  BY Step
<1>. QED BY <1>1, <1>2, PTL DEF Spec

\* One event more in a batch.
LEMMA MoreEvents ==
  ASSUME TypeOK, NEW s \in WorkerStep, NEW c \in Named \union {NoCriterion}, NEW n \in Nat, NEW w \in Why
  PROVE  Append(events, Observed(s, c, n, w)) \in Seq(Event)
<1>1. events \in Seq(Event) /\ Observed(s, c, n, w) \in Event
  BY EventsTyped, ObservedIsEvent
<1>. QED BY <1>1

\* The observation in hand, when there is one.
LEMMA NotedIsTyped ==
  ASSUME TypeOK, drafted # <<>>, NEW s \in WorkerStep, NEW w \in Why, Note(s, w)
  PROVE  events' \in Seq(Event)
<1>1. Head(drafted) \in Entry
  BY DEF TypeOK
<1>2. Current \in Named
  BY <1>1 DEF Current, Entry
<1>3. attempt \in Nat
  BY MaxAttemptsAssumption DEF TypeOK
<1>. QED BY <1>2, <1>3, MoreEvents DEF Note

\* With that, the type invariant is inductive whatever the model answers.
HeldAtGate == pc \in {"citation", "entailment", "second_reader"} => drafted # <<>>

\* The reasons an event may give.
LEMMA Reasons ==
  /\ "" \in Why /\ "triage" \in Why /\ "analysis" \in Why /\ "citation" \in Why
  /\ "entailment_disagreement" \in Why /\ "second_reader_disagreement" \in Why
  /\ "attempt_cap_reached" \in Why
  BY DEF Why

\* Each step keeps the types, whatever the model answers.
LEMMA TypeStep ==
  ASSUME TypeOK, HeldAtGate, [Next]_vars
  PROVE  TypeOK' /\ HeldAtGate'
<1>0. attempt \in Nat /\ MaxAttempts \in Nat /\ NoCriterion \in Named \union {NoCriterion}
  BY MaxAttemptsAssumption DEF TypeOK
<1>1. SUFFICES ASSUME events' \in Seq(Event), [Next]_vars
               PROVE  TypeOK' /\ HeldAtGate'
  <2>1. events \in Seq(Event) /\ <<>> \in Seq(Event)
    BY EventsTyped
  <2>2. CASE Ingest
    <3>1. /\ OnUnit("SubmissionIngested") \in Event /\ OnUnit("RenditionFrozen") \in Event
      BY OnUnitIsEvent DEF WorkerStep
    <3>. QED BY <2>2, <3>1 DEF Ingest
  <2>3. ASSUME NEW b \in BOOLEAN, Triage(b) PROVE events' \in Seq(Event)
    <3>1. /\ OnUnit("TriageDecided") \in Event
          /\ Observed("TaskFailed", NoCriterion, 0, "triage") \in Event
      BY OnUnitIsEvent, ObservedIsEvent, Reasons DEF WorkerStep
    <3> DEFINE x == OnUnit("TriageDecided")
               y == Observed("TaskFailed", NoCriterion, 0, "triage")
    <3>2. events' = Append(events, x) \/ events' = events \o <<x, y>>
      BY <2>3 DEF Triage
    <3>. HIDE DEF x, y
    <3>3. x \in Event /\ y \in Event
      BY <3>1 DEF x, y
    <3>4. Append(events, x) \in Seq(Event)
      BY <2>1, <3>3
    <3>5. <<x, y>> \in Seq(Event)
      BY <3>3
    <3>6. events \o <<x, y>> \in Seq(Event)
      BY <2>1, <3>5
    <3>. QED BY <3>2, <3>4, <3>6
  <2>4. ASSUME NEW b \in BOOLEAN, Scan(b) PROVE events' \in Seq(Event)
    <3> DEFINE x == OnUnit("ArmorScanned")
               y == OnUnit("InjectionDetected")
    <3>1. x \in Event /\ y \in Event
      BY OnUnitIsEvent DEF WorkerStep
    <3>2. events' = Append(events, x) \o <<y>> \/ events' = Append(events, x) \o <<>>
      BY <2>4 DEF Scan
    <3>. HIDE DEF x, y
    <3>. QED BY <2>1, <3>1, <3>2
  <2>5. CASE AskMalformed
    <3>1. attempt + 1 \in Nat /\ "TaskFailed" \in WorkerStep
      BY <1>0 DEF WorkerStep
    <3>. QED BY <1>0, <2>5, <3>1, MoreEvents, Reasons DEF AskMalformed
  <2>6. CASE Gate
    <3>1. drafted # <<>>
      BY <2>6 DEF HeldAtGate, Gate, Absence, Draft, CitationFails, CitationHolds, EntailmentDisagrees,
                  EntailmentSupports, SecondReaderDenies, SecondReaderPasses
    <3>2. \/ events' = events
          \/ \E s \in WorkerStep, w \in Why : Note(s, w)
      BY <2>6, Reasons
         DEF Gate, Absence, Draft, CitationFails, CitationHolds, EntailmentDisagrees, Escalated,
             EntailmentSupports, SecondReaderDenies, SecondReaderPasses, WorkerStep
    <3>. QED BY <2>1, <3>1, <3>2, NotedIsTyped
  <2>7. ASSUME NEW c \in Criterion, Escalate(c) PROVE events' \in Seq(Event)
    <3>1. c \in Named \union {NoCriterion} /\ "NeedsHumanReview" \in WorkerStep
      BY DEF Named, WorkerStep
    <3>. QED BY <1>0, <2>7, <3>1, MoreEvents, Reasons DEF Escalate, CapEvent
  <2>8. CASE events' = <<>> \/ events' = events
    BY <2>1, <2>8
  <2>. QED BY <2>2, <2>3, <2>4, <2>5, <2>6, <2>7, <2>8
       DEF Next, vars, Unparseable, AskModel, LoopEnds, EndAttempt, Finish, Raise
<1>2. pc' \in Running \union Final
  BY DEF TypeOK, Next, vars, Unparseable, Ingest, Triage, Scan, AskModel, AskMalformed, LoopEnds,
     Gate, Absence, Draft, CitationFails, CitationHolds, EntailmentDisagrees, EntailmentSupports,
     SecondReaderDenies, SecondReaderPasses, NextDraft, EndAttempt, Escalate, Finish, Raise, Running, Final
<1>4. attempt' \in 0 .. MaxAttempts /\ pending' \subseteq Criterion
  <2>1. \/ attempt' = attempt
        \/ attempt' = attempt + 1 /\ attempt < MaxAttempts
    BY DEF Next, vars, Unparseable, Ingest, Triage, Scan, AskModel, MayAsk, AskMalformed, LoopEnds,
     Gate, Absence, Draft, CitationFails, CitationHolds, EntailmentDisagrees, EntailmentSupports,
     SecondReaderDenies, SecondReaderPasses, EndAttempt, Escalate, Finish, Raise
  <2>2. pending' = pending \/ pending' = Retried \/ \E c \in Criterion : pending' = pending \ {c}
    BY DEF Next, vars, Unparseable, Ingest, Triage, Scan, AskModel, AskMalformed, LoopEnds,
     Gate, Absence, Draft, CitationFails, CitationHolds, EntailmentDisagrees, EntailmentSupports,
     SecondReaderDenies, SecondReaderPasses, EndAttempt, Escalate, Finish, Raise
  <2>. QED BY <1>0, <2>1, <2>2 DEF TypeOK, Retried
<1>3. drafted' \in Seq(Entry) /\ HeldAtGate' /\ rejected' \subseteq Named
  <2>1. ASSUME drafted # <<>> PROVE Tail(drafted) \in Seq(Entry) /\ Current \in Named
    <3>1. Head(drafted) \in Entry /\ Tail(drafted) \in Seq(Entry)
      BY <2>1 DEF TypeOK
    <3>. QED BY <3>1 DEF Current, Entry
  <2>. HIDE DEF Current
  <2>. QED BY <2>1, ReplyAssumption
     DEF TypeOK, HeldAtGate, Next, vars, Unparseable, Ingest, Triage, Scan, AskModel, AskMalformed, LoopEnds,
     Gate, Absence, Draft, CitationFails, CitationHolds, EntailmentDisagrees, EntailmentSupports, Escalated,
     SecondReaderDenies, SecondReaderPasses, NextDraft, EndAttempt, Escalate, Finish, Raise
<1>. QED BY <1>1, <1>2, <1>3, <1>4 DEF TypeOK, Event

\* Whatever the model answers, obedient or not, the worker's state is well formed.
THEOREM TypeCorrect == Spec => []TypeOK
<1>1. Init => TypeOK /\ HeldAtGate
  BY InitIInv DEF IInv, Init, HeldAtGate
<1>2. TypeOK /\ HeldAtGate /\ [Next]_vars => (TypeOK /\ HeldAtGate)'
  BY TypeStep
<1>. QED BY <1>1, <1>2, PTL DEF Spec

\* Each criterion of a batch that is handed over has exactly one terminal
\* outcome, or the submission was routed away and none has any.
THEOREM EachDecidedOnce ==
  ASSUME Obedient
  PROVE  Spec => []OneOutcomeEach
<1>1. ASSUME IInv PROVE OneOutcomeEach
  <2>. SUFFICES ASSUME pc = "done", NEW c \in Criterion
                PROVE  IF ExcludedByTriage THEN OutcomesOf(c) = {}
                       ELSE \E i \in OutcomesOf(c) : OutcomesOf(c) = {i}
    BY DEF OneOutcomeEach
  <2>1. c \in Settled <=> OutcomesOf(c) # {}
    BY DEF Settled, OutcomesOf, Logged
  <2>2. ASSUME NEW i \in OutcomesOf(c), NEW j \in OutcomesOf(c) PROVE i = j
    <3>1. events[i] = events[j] /\ i \in DOMAIN events /\ j \in DOMAIN events
      BY <1>1 DEF IInv, OneEach, OutcomesOf, Logged
    <3>. QED BY <1>1, <3>1 DEF IInv, OneIdentityEach, DistinctIn
  <2>3. IF ExcludedByTriage THEN c \notin Settled ELSE c \in Settled
    BY <1>1 DEF IInv, Accounted
  <2>. QED BY <2>1, <2>2, <2>3
<1>. QED BY <1>1, Invariance, PTL

\* The batch begins with the submission and no two of its events share an
\* identity: what the dispatcher assumes of an outcome (OutcomeAssumption).
THEOREM BatchIsWhole ==
  ASSUME Obedient
  PROVE  Spec => []HandsOverABatch
<1>1. ASSUME IInv PROVE HandsOverABatch
  <2>1. \A i \in DOMAIN events : events[i].step \in WorkerStep
    BY <1>1, EventsTyped DEF IInv, Logged
  <2>. QED BY <1>1, <2>1 DEF IInv, HandsOverABatch, Batch, Opened, OneIdentityEach, DistinctIn
<1>. QED BY <1>1, Invariance, PTL

\* What was accepted, absent or escalated is never asked about again.
THEOREM RetriesAreRejections ==
  ASSUME Obedient
  PROVE  Spec => []OnlyRejectedGoesRound
<1>1. IInv => OnlyRejectedGoesRound
  BY DEF IInv
<1>. QED BY <1>1, Invariance, PTL

\* The cap escalates what was rejected at every attempt, or what an unusable
\* answer left undecided.
THEOREM CapIsForTheRejected ==
  ASSUME Obedient
  PROVE  Spec => []CapIsEarned
<1>1. IInv => CapIsEarned
  BY DEF IInv
<1>. QED BY <1>1, Invariance, PTL
=============================================================================
