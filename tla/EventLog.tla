------------------------------ MODULE EventLog ------------------------------
(***************************************************************************)
(* What an event store promises (store/__init__.py, EventStore): the log   *)
(* is a set of facts that only grows, and an identity, once taken, keeps   *)
(* the content it was taken with.  An identity is in doubt once create()   *)
(* has raised for it although the fact was recorded: its caller may come   *)
(* again, with the same fact or another.                                   *)
(***************************************************************************)
CONSTANTS
  EventId,   \* the deterministic event identities
  Content    \* the payloads, as content_hash tells them apart

VARIABLES
  log,     \* the facts recorded so far
  doubtful \* identities recorded by a create() that raised

Fact == [id : EventId, content : Content]

Init == log = {} /\ doubtful = {}

\* A new fact under a free identity, or under one in doubt.
Record(e) ==
  /\ \A f \in log : f.id = e.id => e.id \in doubtful
  /\ log' = log \union {e}

Next ==
  \E e \in Fact :
    Record(e) /\ (doubtful' = doubtful \/ doubtful' = doubtful \union {e.id})

Spec == Init /\ [][Next]_<<log, doubtful>>
=============================================================================
