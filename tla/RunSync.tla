------------------------------ MODULE RunSync ------------------------------
(***************************************************************************)
(* AsyncHelper.RunSync: a request blocks its thread until a task that      *)
(* needs another thread of the same pool has completed.  Some requests     *)
(* block inside the lock of MultiCluster, others wait for that lock, each  *)
(* on a thread of its own.                                                 *)
(***************************************************************************)
EXTENDS Naturals, FiniteSets

CONSTANTS
  Requests,    \* the ASP.NET requests
  Locking,     \* those that take the lock of MultiCluster
  MaxRuns,     \* how often a request calls RunSync, at most
  MaxAwaits,   \* how often the function it runs awaits the bucket, at most
  MaxThreads,  \* the size the thread pool may grow to
  Nobody

ASSUME Constants ==
  /\ IsFiniteSet(Requests) /\ Locking \subseteq Requests
  /\ MaxRuns \in Nat \ {0} /\ MaxAwaits \in Nat \ {0} /\ MaxThreads \in Nat
  /\ Nobody \notin Requests

VARIABLES
  pc,       \* where the request is
  task,     \* where the function it runs is
  context,  \* the function runs in the request's synchronization context
  left,     \* how often the request still calls RunSync
  awaits,   \* how often the function still awaits the bucket
  holder    \* who holds the lock

vars == <<pc, task, context, left, awaits, holder>>

Init ==
  /\ pc = [r \in Requests |-> "arrived"]
  /\ task = [r \in Requests |-> "none"]
  /\ context = [r \in Requests |-> FALSE]
  /\ left \in [Requests -> 1 .. MaxRuns]
  /\ awaits = [r \in Requests |-> 0]
  /\ holder = Nobody

-----------------------------------------------------------------------------
\* A request keeps its thread while it waits; a function does so only between
\* its awaits.
OnThread == {r \in Requests : pc[r] \in {"entered", "inside", "blocked"}}
TaskOnThread == {r \in Requests : task[r] = "running"}

ThreadFree == Cardinality(OnThread) + Cardinality(TaskOnThread) < MaxThreads

\* ASP.NET gives the request a thread.
Begin(r) ==
  /\ pc[r] = "arrived" /\ ThreadFree
  /\ pc' = [pc EXCEPT ![r] = "entered"]
  /\ UNCHANGED <<task, context, left, awaits, holder>>

\* lock (LockObj), in the requests that do.
Enter(r) ==
  /\ pc[r] = "entered"
  /\ pc' = [pc EXCEPT ![r] = "inside"]
  /\ IF r \in Locking THEN holder = Nobody /\ holder' = r ELSE UNCHANGED holder
  /\ UNCHANGED <<task, context, left, awaits>>

\* Mutant: the request does not wait for the task.
StartAndForget(r) ==
  /\ pc[r] = "inside"
  /\ pc' = [pc EXCEPT ![r] = "returned"]
  /\ task' = [task EXCEPT ![r] = "queued"]
  /\ UNCHANGED <<context, left, awaits, holder>>

\* Mutant: func() is called on the request's own thread, up to its first await.
CallDirectly(r) ==
  /\ pc[r] = "inside"
  /\ pc' = [pc EXCEPT ![r] = "blocked"]
  /\ task' = [task EXCEPT ![r] = "awaiting"]
  /\ context' = [context EXCEPT ![r] = TRUE]
  /\ left' = [left EXCEPT ![r] = @ - 1]
  /\ \E n \in 1 .. MaxAwaits : awaits' = [awaits EXCEPT ![r] = n]
  /\ UNCHANGED holder

\* The function is queued to the pool, where it has no context to come back
\* to, and the request blocks.
StartNew(r) ==
  /\ pc[r] = "inside"
  /\ pc' = [pc EXCEPT ![r] = "blocked"]
  /\ task' = [task EXCEPT ![r] = "queued"]
  /\ context' = [context EXCEPT ![r] = FALSE]
  /\ left' = [left EXCEPT ![r] = @ - 1]
  /\ \E n \in 1 .. MaxAwaits : awaits' = [awaits EXCEPT ![r] = n]
  /\ UNCHANGED holder

Goes(r, from, to) == task[r] = from /\ task' = [task EXCEPT ![r] = to]

Run(r) ==
  /\ ThreadFree /\ Goes(r, "queued", "running")
  /\ UNCHANGED <<pc, context, left, awaits, holder>>

\* The function awaits the bucket, for the first time or again, and leaves its
\* thread.
Await(r) ==
  /\ awaits[r] > 0
  /\ Goes(r, "running", "awaiting")
  /\ awaits' = [awaits EXCEPT ![r] = @ - 1]
  /\ UNCHANGED <<pc, context, left, holder>>

\* The bucket answers, or its call times out.
Answer(r) ==
  /\ Goes(r, "awaiting", "answered")
  /\ UNCHANGED <<pc, context, left, awaits, holder>>

\* What follows an await needs a thread, and the context it was in, which a
\* blocked request does not let go of.
Resume(r) ==
  /\ ThreadFree /\ ~(context[r] /\ pc[r] = "blocked")
  /\ Goes(r, "answered", "running")
  /\ UNCHANGED <<pc, context, left, awaits, holder>>

\* The function ends, and leaves its thread.
Complete(r) ==
  /\ awaits[r] = 0
  /\ Goes(r, "running", "completed")
  /\ UNCHANGED <<pc, context, left, awaits, holder>>

\* GetResult returns; the request calls RunSync again, or leaves the lock and ends.
GetResult(r) ==
  /\ pc[r] = "blocked" /\ Goes(r, "completed", "none")
  /\ pc' = [pc EXCEPT ![r] = IF left[r] = 0 THEN "returned" ELSE "inside"]
  /\ holder' = IF left[r] = 0 /\ holder = r THEN Nobody ELSE holder
  /\ UNCHANGED <<context, left, awaits>>

Step(r) ==
  \/ Begin(r) \/ Enter(r) \/ StartNew(r) \/ Run(r) \/ Await(r) \/ Answer(r)
  \/ Resume(r) \/ Complete(r) \/ GetResult(r)

Next == \E r \in Requests : Step(r)

Spec == Init /\ [][Next]_vars
FairSpec == Spec /\ WF_vars(Next)

-----------------------------------------------------------------------------
\* Every variable has its type, the pool's threads suffice for those who are on
\* one, and a request is blocked exactly while a task of its own is under way.
TypeOK ==
  /\ pc \in [Requests -> {"arrived", "entered", "inside", "blocked", "returned"}]
  /\ task \in [Requests -> {"none", "queued", "running", "awaiting", "answered", "completed"}]
  /\ context \in [Requests -> BOOLEAN]
  /\ left \in [Requests -> 0 .. MaxRuns] /\ awaits \in [Requests -> 0 .. MaxAwaits]
  /\ holder \in Locking \cup {Nobody}
  /\ Cardinality(OnThread) + Cardinality(TaskOnThread) <= MaxThreads
  /\ \A r \in Requests : pc[r] = "blocked" <=> task[r] # "none"

\* What lets request r, or the function it runs, go on.
CanGo(r) ==
  \/ pc[r] = "arrived" /\ ThreadFree
  \/ pc[r] = "entered" /\ (r \notin Locking \/ holder = Nobody)
  \/ pc[r] = "inside"
  \/ task[r] = "queued" /\ ThreadFree
  \/ task[r] \in {"running", "awaiting", "completed"}
  \/ task[r] = "answered" /\ ThreadFree /\ ~(context[r] /\ pc[r] = "blocked")

\* As long as the pool may grow beyond the number of requests, blocked requests
\* and requests that wait for the lock never take the last thread that the task
\* they wait for needs: somebody can always go on.
NeverStarved ==
  /\ MaxThreads > Cardinality(Requests)
  /\ \E r \in Requests : pc[r] # "returned"
  => \E r \in Requests : CanGo(r)

\* Every call of RunSync comes back, and every request ends.
RequestsReturn ==
  \A r \in Requests : <>(pc[r] = "returned")
=============================================================================
