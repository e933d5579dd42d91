---------------------------- MODULE SessionStore ----------------------------
(***************************************************************************)
(* What a session-state store promises to the requests of one session: a   *)
(* request takes the session as it is stored, keeps it to itself if it may *)
(* change it, and stores its change over exactly what it took.  This is    *)
(* the contract the comments of CouchbaseSessionStateProvider give for     *)
(* GetItem, GetItemExclusive, SetAndReleaseItemExclusive and RemoveItem.   *)
(***************************************************************************)
CONSTANTS Requests, Readers, NoSession

VARIABLES
  session,  \* the stored session data: a set of requests, or NoSession
  phase,    \* "waiting", "working" or "finished"
  seen      \* the data a working request took

vars == <<session, phase, seen>>

Init ==
  /\ session = NoSession
  /\ phase = [r \in Requests |-> "waiting"]
  /\ seen = [r \in Requests |-> {}]

Uninitialized ==
  /\ session = NoSession
  /\ session' = {}
  /\ UNCHANGED <<phase, seen>>

Acquire(r) ==
  /\ phase[r] = "waiting"
  /\ r \notin Readers => \A q \in Requests \ Readers : phase[q] # "working"
  /\ phase' = [phase EXCEPT ![r] = "working"]
  /\ seen' = [seen EXCEPT ![r] = IF session = NoSession THEN {} ELSE session]
  /\ UNCHANGED session

Commit(r) ==
  /\ phase[r] = "working" /\ r \notin Readers
  /\ session' = seen[r] \cup {r}
  /\ phase' = [phase EXCEPT ![r] = "finished"]
  /\ UNCHANGED seen

Abandon(r) ==
  /\ phase[r] = "working" /\ r \notin Readers
  /\ session' = NoSession
  /\ phase' = [phase EXCEPT ![r] = "finished"]
  /\ UNCHANGED seen

Leave(r) ==
  /\ phase[r] # "finished"
  /\ phase' = [phase EXCEPT ![r] = "finished"]
  /\ UNCHANGED <<session, seen>>

Expire == session' = NoSession /\ UNCHANGED <<phase, seen>>

Next ==
  \/ Uninitialized \/ Expire
  \/ \E r \in Requests : Acquire(r) \/ Commit(r) \/ Abandon(r) \/ Leave(r)

Spec == Init /\ [][Next]_vars

-----------------------------------------------------------------------------
\* No stored change is lost but with the whole session.
NoChangeIsLost ==
  [][session # NoSession /\ session' # NoSession => session \subseteq session']_vars

\* While a writer works, nobody changes the session under it, except that it
\* may expire or be made anew: what it took is still what is stored.
WriterSeesTheSession ==
  \A r \in Requests \ Readers :
    phase[r] = "working" =>
      session = NoSession \/ session = {} \/ session = seen[r]
=============================================================================
