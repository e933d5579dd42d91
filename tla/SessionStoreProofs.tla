------------------------- MODULE SessionStoreProofs -------------------------
(* What the contract of a session store gives to any set of requests.       *)
EXTENDS SessionStore, TLAPS

Working(r) == r \in Requests \ Readers /\ phase[r] = "working"

Typed ==
  /\ session \in {NoSession} \cup SUBSET Requests
  /\ phase \in [Requests -> {"waiting", "working", "finished"}]
  /\ seen \in [Requests -> SUBSET Requests]

OneWriter == \A r, q \in Requests : Working(r) /\ Working(q) => r = q

\* WriterSeesTheSession is not inductive without OneWriter: a second writer
\* could commit under the first.
IInv == Typed /\ OneWriter /\ WriterSeesTheSession

\* The invariant holds before any request.
LEMMA Initially == Init => IInv
BY DEF Init, IInv, Typed, OneWriter, Working, WriterSeesTheSession

\* Every step of the contract keeps it.
LEMMA Preserved == IInv /\ [Next]_vars => IInv'
<1> SUFFICES ASSUME IInv, [Next]_vars PROVE IInv'
  OBVIOUS
<1> USE DEF IInv, Typed, OneWriter, Working, WriterSeesTheSession
<1>1. CASE UNCHANGED vars \/ Uninitialized \/ Expire
  BY <1>1 DEF vars, Uninitialized, Expire
<1>2. ASSUME NEW r \in Requests, Acquire(r) PROVE IInv'
  <2>1. Typed'
    BY <1>2 DEF Acquire
  <2>2. OneWriter'
    BY <1>2 DEF Acquire
  <2>3. WriterSeesTheSession'
    BY <1>2 DEF Acquire
  <2>. QED
    BY <2>1, <2>2, <2>3
<1>3. ASSUME NEW r \in Requests, Commit(r) PROVE IInv'
  BY <1>3 DEF Commit
<1>4. ASSUME NEW r \in Requests, Abandon(r) \/ Leave(r) PROVE IInv'
  BY <1>4 DEF Abandon, Leave
<1>. QED
  BY <1>1, <1>2, <1>3, <1>4 DEF Next

\* One writer works at a time, on the session as it is stored.
THEOREM InvariantHolds == Spec => []IInv
BY Initially, Preserved, PTL DEF Spec

\* While a writer works, the session is the one it took, unless it expired.
THEOREM WritersSeeTheSession == Spec => []WriterSeesTheSession
<1>1. IInv => WriterSeesTheSession
  BY DEF IInv
<1>. QED
  BY <1>1, InvariantHolds, PTL

\* A stored change stays in the session for as long as the session lives.
THEOREM NoStoredChangeIsLost == Spec => NoChangeIsLost
<1> DEFINE Keeps ==
      session # NoSession /\ session' # NoSession => session \subseteq session'
<1>1. IInv /\ [Next]_vars => [Keeps]_vars
  <2> SUFFICES ASSUME IInv, [Next]_vars, session # NoSession, session' # NoSession
               PROVE  session \subseteq session'
    OBVIOUS
  <2>1. CASE session' = session
    BY <2>1
  <2>2. ASSUME NEW r \in Requests, Commit(r) PROVE session \subseteq session'
    BY <2>2 DEF Commit, IInv, Typed, WriterSeesTheSession
  <2>. QED
    BY <2>1, <2>2 DEF Next, vars, Uninitialized, Expire, Acquire, Abandon, Leave
<1>. QED
  BY <1>1, InvariantHolds, PTL DEF Spec, NoChangeIsLost
=============================================================================
