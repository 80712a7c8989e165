------------------------------- MODULE Stores -------------------------------
(***************************************************************************)
(* The store a process opens (open_store() in store/__init__.py): the      *)
(* file-backed one or the deployed one, as the settings say.  They promise *)
(* the same and differ in what they need for it: the file store a sole     *)
(* writer, the deployed one nothing.                                       *)
(***************************************************************************)
EXTENDS LocalStore

VARIABLES
  backend,                        \* settings.store_backend
  docs, sending, at, answered     \* FirestoreStore

Cloud == INSTANCE FirestoreStore WITH Writer <- Thread

OpenStore == backend \in {"local", "firestore"} /\ Init /\ Cloud!Init

StoresNext ==
  \/ backend = "local" /\ Next /\ UNCHANGED <<backend, docs, sending, at, answered>>
  \/ backend = "firestore" /\ Cloud!Next /\ UNCHANGED <<vars, backend>>

StoresSpec == OpenStore /\ [][StoresNext]_<<vars, backend, docs, sending, at, answered>>

AnsweredIsStored == Cloud!AnsweredIsStored
CloudImplementsEventLog == Cloud!CloudImplementsEventLog
=============================================================================
