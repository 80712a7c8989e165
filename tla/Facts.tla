------------------------------- MODULE Facts --------------------------------
(***************************************************************************)
(* What the two stores write: one run's events, as create() tells them     *)
(* apart (schema/events.py): a deterministic identity and a content_hash.  *)
(***************************************************************************)
CONSTANTS
  EventId,    \* deterministic event identities of the run
  Content,    \* payloads, as content_hash tells them apart
  NoContent,  \* nothing is stored under the identity
  NoFact      \* no create() in progress

Fact == [id : EventId, content : Content]

ASSUME ContentAssumption == NoContent \notin Content
ASSUME FactAssumption == NoFact \notin Fact
=============================================================================
