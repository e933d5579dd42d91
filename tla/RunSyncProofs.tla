--------------------------- MODULE RunSyncProofs ---------------------------
(* What RunSync keeps for any requests and any size of the pool.            *)
EXTENDS RunSync, FiniteSetTheorems, TLAPS

\* TypeOK without the bound on the threads in use.
Typing ==
  /\ pc \in [Requests -> {"arrived", "entered", "inside", "blocked", "returned"}]
  /\ task \in [Requests -> {"none", "queued", "running", "awaiting", "answered", "completed"}]
  /\ context \in [Requests -> BOOLEAN]
  /\ left \in [Requests -> 0 .. MaxRuns] /\ awaits \in [Requests -> 0 .. MaxAwaits]
  /\ holder \in Locking \cup {Nobody}
  /\ \A r \in Requests : pc[r] = "blocked" <=> task[r] # "none"

\* No function runs in the context of its request, a request calls RunSync only
\* as long as it has calls left, and the lock is held by a request that is past
\* it and has not ended.
Unhindered ==
  /\ \A r \in Requests : ~context[r]
  /\ \A r \in Requests : pc[r] \in {"arrived", "entered", "inside"} => left[r] > 0
  /\ holder # Nobody => pc[holder] \in {"inside", "blocked"}

IInv == Typing /\ Unhindered

\* Every step keeps the types, and puts nothing in the way of a task or of the lock.
THEOREM Inductive == Spec => []IInv
<1>1. Init => IInv
  BY Constants DEF Init, IInv, Typing, Unhindered
<1>2. IInv /\ [Next]_vars => IInv'
  <2> SUFFICES ASSUME IInv, [Next]_vars PROVE IInv'
    OBVIOUS
  <2> USE Constants DEF IInv, Typing, Unhindered
  <2>1. CASE UNCHANGED vars
    BY <2>1 DEF vars
  <2>2. ASSUME NEW r \in Requests, Begin(r) \/ Enter(r) PROVE IInv'
    BY <2>2 DEF Begin, Enter
  <2>3. ASSUME NEW r \in Requests, StartNew(r) PROVE IInv'
    BY <2>3 DEF StartNew
  <2>4. ASSUME NEW r \in Requests,
               Run(r) \/ Await(r) \/ Answer(r) \/ Resume(r) \/ Complete(r)
        PROVE  IInv'
    BY <2>4 DEF Run, Await, Answer, Resume, Complete, Goes
  <2>5. ASSUME NEW r \in Requests, GetResult(r) PROVE IInv'
    BY <2>5 DEF GetResult, Goes
  <2>. QED
    BY <2>1, <2>2, <2>3, <2>4, <2>5 DEF Next, Step
<1>. QED
  BY <1>1, <1>2, PTL DEF Spec

\* Those on a thread are finitely many, at most one for each request.
LEMMA ThreadsAreFinite ==
  /\ IsFiniteSet(OnThread) /\ Cardinality(OnThread) \in Nat
  /\ IsFiniteSet(TaskOnThread) /\ Cardinality(TaskOnThread) \in Nat
  /\ Cardinality(Requests) \in Nat /\ Cardinality(OnThread) <= Cardinality(Requests)
<1>1. OnThread \subseteq Requests /\ TaskOnThread \subseteq Requests
  BY DEF OnThread, TaskOnThread
<1>. QED
  BY <1>1, Constants, FS_Subset, FS_CardinalityType

\* One more element makes a finite set larger by one at most.
LEMMA OneMore ==
  ASSUME NEW S, IsFiniteSet(S), NEW e, NEW T \in SUBSET (S \cup {e})
  PROVE  Cardinality(T) <= Cardinality(S) + 1 /\ Cardinality(T) \in Nat
<1>1. /\ IsFiniteSet(S \cup {e})
      /\ Cardinality(S \cup {e}) = IF e \in S THEN Cardinality(S) ELSE Cardinality(S) + 1
  BY FS_AddElement
<1>2. Cardinality(S) \in Nat /\ Cardinality(T) \in Nat
      /\ Cardinality(T) <= Cardinality(S \cup {e})
  BY <1>1, FS_Subset, FS_CardinalityType
<1>. QED
  BY <1>1, <1>2

\* The pool never needs more threads than it may have.
LEMMA ThreadsSuffice ==
  Spec => [](Cardinality(OnThread) + Cardinality(TaskOnThread) <= MaxThreads)
<1> DEFINE Suffice == Cardinality(OnThread) + Cardinality(TaskOnThread) <= MaxThreads
<1>1. Init => Suffice
  <2> SUFFICES ASSUME Init PROVE Suffice
    OBVIOUS
  <2>1. OnThread = {} /\ TaskOnThread = {}
    BY DEF Init, OnThread, TaskOnThread
  <2>. QED
    BY <2>1, FS_EmptySet, Constants
<1>2. IInv /\ Suffice /\ [Next]_vars => Suffice'
  <2> SUFFICES ASSUME IInv, Suffice, [Next]_vars PROVE Suffice'
    OBVIOUS
  <2> USE DEF IInv, Typing, OnThread, TaskOnThread
  <2>0. /\ IsFiniteSet(OnThread) /\ IsFiniteSet(TaskOnThread)
        /\ Cardinality(OnThread) \in Nat /\ Cardinality(TaskOnThread) \in Nat
        /\ MaxThreads \in Nat
    BY ThreadsAreFinite, Constants
  <2>1. ASSUME OnThread' \subseteq OnThread, TaskOnThread' \subseteq TaskOnThread
        PROVE  Suffice'
    BY <2>0, <2>1, FS_Subset, FS_CardinalityType
  <2>2. ASSUME NEW r \in Requests, ThreadFree,
               OnThread' \subseteq OnThread \cup {r}, TaskOnThread' \subseteq TaskOnThread
        PROVE  Suffice'
    <3>1. Cardinality(OnThread') <= Cardinality(OnThread) + 1 /\ Cardinality(OnThread') \in Nat
      BY <2>0, <2>2, OneMore
    <3>2. Cardinality(TaskOnThread') <= Cardinality(TaskOnThread)
          /\ Cardinality(TaskOnThread') \in Nat
      BY <2>0, <2>2, FS_Subset, FS_CardinalityType
    <3>. QED
      BY <2>0, <2>2, <3>1, <3>2 DEF ThreadFree
  <2>3. ASSUME NEW r \in Requests, ThreadFree,
               OnThread' \subseteq OnThread, TaskOnThread' \subseteq TaskOnThread \cup {r}
        PROVE  Suffice'
    <3>1. Cardinality(OnThread') <= Cardinality(OnThread) /\ Cardinality(OnThread') \in Nat
      BY <2>0, <2>3, FS_Subset, FS_CardinalityType
    <3>2. Cardinality(TaskOnThread') <= Cardinality(TaskOnThread) + 1
          /\ Cardinality(TaskOnThread') \in Nat
      BY <2>0, <2>3, OneMore
    <3>. QED
      BY <2>0, <2>3, <3>1, <3>2 DEF ThreadFree
  <2>4. CASE UNCHANGED vars
    BY <2>1, <2>4 DEF vars
  <2>5. ASSUME NEW r \in Requests, Begin(r) PROVE Suffice'
    BY <2>2, <2>5 DEF Begin
  <2>6. ASSUME NEW r \in Requests, Run(r) \/ Resume(r) PROVE Suffice'
    BY <2>3, <2>6 DEF Run, Resume, Goes
  <2>7. ASSUME NEW r \in Requests, Enter(r) \/ StartNew(r) PROVE Suffice'
    BY <2>1, <2>7 DEF Enter, StartNew
  <2>8. ASSUME NEW r \in Requests, Await(r) \/ Answer(r) \/ Complete(r) \/ GetResult(r)
        PROVE  Suffice'
    BY <2>1, <2>8 DEF Await, Answer, Complete, GetResult, Goes
  <2>. QED
    BY <2>4, <2>5, <2>6, <2>7, <2>8 DEF Next, Step
<1>. QED
  BY <1>1, <1>2, Inductive, PTL DEF Spec

\* Every variable has its type, threads suffice, and a request is blocked
\* exactly while its task is under way.
THEOREM TypeCorrect == Spec => []TypeOK
<1>1. IInv /\ Cardinality(OnThread) + Cardinality(TaskOnThread) <= MaxThreads => TypeOK
  BY DEF IInv, Typing, TypeOK
<1>. QED
  BY <1>1, Inductive, ThreadsSuffice, PTL

\* If the pool may grow beyond the number of requests, somebody can always go on:
\* blocked callers never wait for one another in a circle, with or without the lock.
THEOREM NobodyStarves == Spec => []NeverStarved
<1>1. IInv => NeverStarved
  <2> SUFFICES ASSUME IInv, MaxThreads > Cardinality(Requests),
                      NEW r \in Requests, pc[r] # "returned",
                      \A q \in Requests : ~CanGo(q)
               PROVE  FALSE
    BY DEF NeverStarved
  <2> USE DEF IInv, Typing, Unhindered
  <2>1. \A q \in Requests : task[q] \notin {"running", "awaiting", "completed"}
    BY DEF CanGo
  <2>2. ThreadFree
    <3>1. TaskOnThread = {}
      BY <2>1 DEF TaskOnThread
    <3>. QED
      BY <3>1, ThreadsAreFinite, FS_EmptySet, Constants DEF ThreadFree
  <2>3. \A q \in Requests : task[q] = "none" /\ pc[q] \in {"entered", "returned"}
    BY <2>1, <2>2 DEF CanGo
  <2>4. pc[r] = "entered" /\ holder # Nobody
    BY <2>3 DEF CanGo
  <2>5. holder \in Requests /\ pc[holder] \in {"inside", "blocked"}
    BY <2>4, Constants
  <2>. QED
    BY <2>3, <2>5
<1>. QED
  BY <1>1, Inductive, PTL

-----------------------------------------------------------------------------
(* With NobodyStarves, this is why RequestsReturn holds for all constants.   *)

\* How many steps of the current call of RunSync are left, at most.
TaskRank(r) ==
  CASE task[r] = "none" -> 0
    [] task[r] = "completed" -> 2
    [] task[r] = "running" -> 3 * awaits[r] + 3
    [] task[r] \in {"queued", "answered"} -> 3 * awaits[r] + 4
    [] task[r] = "awaiting" -> 3 * awaits[r] + 5

PlaceRank(r) ==
  CASE pc[r] = "arrived" -> 3 [] pc[r] = "entered" -> 2
    [] pc[r] \in {"inside", "blocked"} -> 1 [] pc[r] = "returned" -> 0

\* A call of RunSync takes fewer steps than this.
CallSteps == 3 * MaxAwaits + 5

\* How many steps request r and the functions it runs still take, at most.
Rank(r) == left[r] * CallSteps + TaskRank(r) + PlaceRank(r)

\* A request never does anything twice: each step is a step towards its end.
Progress ==
  [][\E r \in Requests : /\ Rank(r)' < Rank(r)
                        /\ \A q \in Requests \ {r} : Rank(q)' = Rank(q)]_vars

\* The rank is a number of steps.
LEMMA RankIsNatural ==
  ASSUME IInv, NEW r \in Requests
  PROVE  Rank(r) \in Nat
<1>1. left[r] \in Nat /\ CallSteps \in Nat /\ awaits[r] \in Nat
  BY Constants DEF IInv, Typing, CallSteps
<1>2. left[r] * CallSteps \in Nat
  BY <1>1
<1>3. TaskRank(r) \in Nat
  BY <1>1 DEF IInv, Typing, TaskRank
<1>4. PlaceRank(r) \in Nat
  BY DEF IInv, Typing, PlaceRank
<1>. HIDE DEF TaskRank, PlaceRank, CallSteps
<1>. QED
  BY <1>2, <1>3, <1>4 DEF Rank

\* Each step of a request lowers its rank, and changes that of no other: what all
\* requests do together is at most the sum of their first ranks.
THEOREM StepsAreBounded == Spec => [](\A r \in Requests : Rank(r) \in Nat) /\ Progress
<1>1. IInv /\ IInv' /\ [Next]_vars =>
        [\E r \in Requests : /\ Rank(r)' < Rank(r)
                            /\ \A q \in Requests \ {r} : Rank(q)' = Rank(q)]_vars
  <2> SUFFICES ASSUME IInv, IInv', NEW r \in Requests, Step(r)
               PROVE  /\ Rank(r)' < Rank(r)
                      /\ \A q \in Requests \ {r} : Rank(q)' = Rank(q)
    BY DEF Next
  <2> USE DEF Goes
  <2>0. /\ pc \in [Requests -> {"arrived", "entered", "inside", "blocked", "returned"}]
        /\ task \in [Requests -> {"none", "queued", "running", "awaiting", "answered", "completed"}]
        /\ left \in [Requests -> Nat] /\ awaits \in [Requests -> Nat]
    BY DEF IInv, Typing
  <2>1. \A q \in Requests \ {r} :
          pc'[q] = pc[q] /\ task'[q] = task[q] /\ left'[q] = left[q] /\ awaits'[q] = awaits[q]
    BY <2>0 DEF Step, Begin, Enter, StartNew, Run, Await, Answer, Resume, Complete, GetResult
  <2>2. \A q \in Requests \ {r} : Rank(q)' = Rank(q)
    BY <2>1 DEF Rank, TaskRank, PlaceRank, CallSteps
  <2>3. CallSteps \in Nat /\ CallSteps = 3 * MaxAwaits + 5 /\ MaxAwaits \in Nat
    BY Constants DEF CallSteps
  <2>4. CASE StartNew(r)
    <3>1. /\ pc[r] = "inside" /\ pc'[r] = "blocked" /\ task[r] = "none" /\ task'[r] = "queued"
          /\ left'[r] = left[r] - 1 /\ awaits'[r] \in 1 .. MaxAwaits /\ left[r] > 0
      BY <2>0, <2>4 DEF StartNew, IInv, Typing, Unhindered
    <3>2. TaskRank(r)' = 3 * awaits'[r] + 4 /\ TaskRank(r) = 0
      BY <3>1 DEF TaskRank
    <3>3. PlaceRank(r)' = 1 /\ PlaceRank(r) = 1
      BY <3>1 DEF PlaceRank
    <3>4. left'[r] * CallSteps = left[r] * CallSteps - CallSteps /\ left[r] * CallSteps \in Nat
      BY <2>0, <2>3, <3>1
    <3>5. Rank(r)' = left[r] * CallSteps - CallSteps + 3 * awaits'[r] + 5
      BY <2>3, <3>1, <3>2, <3>3, <3>4 DEF Rank, CallSteps
    <3>6. Rank(r) = left[r] * CallSteps + 1
      BY <3>2, <3>3, <3>4 DEF Rank
    <3>. HIDE DEF Rank
    <3>. QED
      BY <2>2, <2>3, <3>1, <3>4, <3>5, <3>6
  <2>5. ASSUME left'[r] = left[r], TaskRank(r)' + PlaceRank(r)' < TaskRank(r) + PlaceRank(r),
               TaskRank(r) \in Nat, PlaceRank(r) \in Nat,
               TaskRank(r)' \in Nat, PlaceRank(r)' \in Nat
        PROVE  Rank(r)' < Rank(r)
    <3>1. left[r] * CallSteps \in Nat /\ CallSteps' = CallSteps
      BY <2>0, <2>3 DEF CallSteps
    <3>. HIDE DEF TaskRank, PlaceRank, CallSteps
    <3>. QED
      BY <2>5, <3>1 DEF Rank
  <2>6. CASE Begin(r) \/ Enter(r)
    <3>1. UNCHANGED <<task, left, awaits>> /\ PlaceRank(r)' < PlaceRank(r)
      BY <2>0, <2>6 DEF Begin, Enter, PlaceRank
    <3>2. TaskRank(r)' = TaskRank(r) /\ TaskRank(r) \in Nat
      BY <2>0, <3>1 DEF TaskRank
    <3>3. PlaceRank(r) \in Nat /\ PlaceRank(r)' \in Nat
      BY <2>0, <2>6 DEF Begin, Enter, PlaceRank
    <3>. QED
      BY <2>2, <2>5, <3>1, <3>2, <3>3
  <2>7. CASE Run(r) \/ Await(r) \/ Answer(r) \/ Resume(r) \/ Complete(r)
    <3>1. UNCHANGED <<pc, left>>
      BY <2>7 DEF Run, Await, Answer, Resume, Complete
    <3>2. PlaceRank(r)' = PlaceRank(r) /\ PlaceRank(r) \in Nat
      BY <2>0, <3>1 DEF PlaceRank
    <3>3. TaskRank(r)' < TaskRank(r) /\ TaskRank(r) \in Nat /\ TaskRank(r)' \in Nat
      <4>1. CASE Run(r) \/ Resume(r)
        BY <2>0, <4>1 DEF Run, Resume, TaskRank
      <4>2. CASE Await(r)
        <5>1. awaits'[r] = awaits[r] - 1 /\ awaits[r] \in Nat \ {0}
          BY <2>0, <4>2 DEF Await
        <5>2. TaskRank(r) = 3 * awaits[r] + 3 /\ TaskRank(r)' = 3 * awaits'[r] + 5
          BY <2>0, <4>2 DEF Await, TaskRank
        <5>. QED
          BY <5>1, <5>2
      <4>3. CASE Answer(r) \/ Complete(r)
        BY <2>0, <4>3 DEF Answer, Complete, TaskRank
      <4>. QED
        BY <2>7, <4>1, <4>2, <4>3
    <3>. QED
      BY <2>2, <2>5, <3>1, <3>2, <3>3
  <2>8. CASE GetResult(r)
    <3>1. TaskRank(r) = 2 /\ TaskRank(r)' = 0
      BY <2>0, <2>8 DEF GetResult, TaskRank
    <3>2. PlaceRank(r) = 1 /\ PlaceRank(r)' \in {0, 1} /\ left'[r] = left[r]
      BY <2>0, <2>8 DEF GetResult, PlaceRank
    <3>. QED
      BY <2>2, <2>5, <3>1, <3>2
  <2>. QED
    BY <2>4, <2>6, <2>7, <2>8 DEF Step
<1>2. IInv => \A r \in Requests : Rank(r) \in Nat
  BY RankIsNatural
<1>. QED
  BY <1>1, <1>2, Inductive, PTL DEF Spec, Progress
=============================================================================
