------------------------- MODULE AsyncSessionStore -------------------------
(* CouchbaseSessionStateProviderAsync keeps the contract of SessionStore as *)
(* long as the client does not overlap the requests that may write.         *)
EXTENDS AsyncSessionProperties

\* A request works on the session from the Get that found it unlocked, or
\* absent, until it stores its change, gives the lock back or removes it.
Phase(r) ==
  CASE pc[r] \in {"Idle", "Create", "Get", "Poll"} -> "waiting"
    [] pc[r] \in {"Handler", "Set", "Remove"} -> "working"
    [] pc[r] = "Lock" -> IF after[r] = "Handler" THEN "working" ELSE "waiting"
    [] pc[r] \in {"ReleaseGet", "ReleasePut"} ->
         IF after[r] = "Get" THEN "waiting" ELSE "finished"
    [] OTHER -> "finished"

Session == IF doc = NoDoc THEN NoDoc ELSE Deserialize(doc.items)

Contract == INSTANCE SessionStore WITH
  NoSession <- NoDoc,
  session <- Session,
  phase <- [r \in Requests |-> Phase(r)],
  seen <- [r \in Requests |-> view[r]]

\* Every step of the provider is a step of the contract, or changes nothing
\* the contract speaks of: GetItem gives the data last stored, one writer
\* works at a time, and its change replaces exactly what it read.
KeepsContract == Contract!Spec
=============================================================================
