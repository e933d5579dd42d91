------------------------- MODULE MultiClusterProofs -------------------------
(* What MultiCluster keeps for any threads, names, calls and failures.      *)
EXTENDS MultiCluster, SequenceTheorems, TLAPS

USE Constants, NoBucketIsNoBucket

\* The steps of the registry, one per operation of a thread.
LEMMA Steps ==
  ASSUME [Next]_vars
  PROVE  UNCHANGED vars \/ \E t \in Threads : Step(t)
BY DEF Next

\* The key of a call is a key of the dictionary.
LEMMA AliasOfIsAlias ==
  ASSUME NEW t \in Threads, call \in [Threads -> Requests]
  PROVE  /\ call[t].name \in Names /\ call[t].bucket \in BucketNames
         /\ AliasOf(t) \in Aliases
<1>1. call[t] \in [op : Calls \cup Strategies, name : Names, bucket : BucketNames]
  OBVIOUS
<1>. QED
  BY <1>1 DEF AliasOf, Aliases

\* Every variable keeps its type, and the lock excludes: at most one thread
\* is at a place inside it.
THEOREM TypeCorrect == Spec => []TypeOK
<1>1. Init => TypeOK
  BY DEF Init, TypeOK, Places, Locked, Holds
<1>2. TypeOK /\ [Next]_vars => TypeOK'
  <2> SUFFICES ASSUME TypeOK, [Next]_vars PROVE TypeOK'
    OBVIOUS
  <2> USE DEF TypeOK, Places, Locked, Ended, Holds, Goto, Release, Acquire,
              dictionaries, history
  <2>1. CASE UNCHANGED vars
    BY <2>1 DEF vars
  <2>2. ASSUME NEW t \in Threads, AddCluster(t) \/ Register(t) PROVE TypeOK'
    <3>1. clusters' \in [Names -> Threads \cup {NoThread}] /\ refused' \subseteq Threads
      BY <2>2, AliasOfIsAlias DEF AddCluster, Register, TryAdd
    <3>. QED
      BY <2>2, <3>1 DEF AddCluster, Register
  <2>3. ASSUME NEW t \in Threads, Begin(t) \/ HasClusters(t) PROVE TypeOK'
    <3>1. /\ pc' \in [Threads -> Places]
          /\ \A u \in Threads : u # t => pc'[u] = pc[u]
          /\ pc[t] \notin Locked /\ pc'[t] \notin Locked
      BY <2>3 DEF Begin, HasClusters
    <3>. QED
      BY <2>3, <3>1 DEF Begin, HasClusters
  <2>4. ASSUME NEW t \in Threads, Enter(t) PROVE TypeOK'
    BY <2>4 DEF Enter, Inside
  <2>5. ASSUME NEW t \in Threads, Connect(t) \/ WaitUntilReady(t) PROVE TypeOK'
    BY <2>5 DEF Connect, WaitUntilReady
  <2>6. ASSUME NEW t \in Threads, Lookup(t) PROVE TypeOK'
    BY <2>6, AliasOfIsAlias DEF Lookup
  <2>7. ASSUME NEW t \in Threads, Fetch(t) PROVE TypeOK'
    <3>1. BucketAsync(t) \in Bucket
      BY <2>7, AliasOfIsAlias DEF Fetch, BucketAsync, Bucket
    <3>2. /\ buckets' \in [Aliases -> Bucket \cup {NoBucket}]
          /\ given' \in [Threads -> Bucket \cup {NoBucket}]
      BY <2>7, <3>1 DEF Fetch
    <3>. QED
      BY <2>7, <3>2 DEF Fetch
  <2>8. ASSUME NEW t \in Threads, CloseOne(t) PROVE TypeOK'
    BY <2>8, AliasOfIsAlias DEF CloseOne, Dispose
  <2>9. ASSUME NEW t \in Threads, DisposeAll(t) \/ ClearAll(t) PROVE TypeOK'
    BY <2>9 DEF DisposeAll, ClearAll, Dispose, Registered
  <2>. QED
    BY <2>1, <2>2, <2>3, <2>4, <2>5, <2>6, <2>7, <2>8, <2>9, Steps DEF Step
<1>. QED
  BY <1>1, <1>2, PTL DEF Spec

-----------------------------------------------------------------------------
(* The registry.                                                            *)

\* The places of a thread that has registered its cluster, if it brought one.
Past == {"getBucket", "lookup", "fetch"} \cup Ended

\* A registered cluster belongs to its name, its thread is past Register, and
\* only CloseAll leaves it registered when it is disposed of; what AddCluster
\* puts in behind its back is not.
Belongs(n) ==
  /\ call[clusters[n]].name = n
  /\ pc[clusters[n]] \in Past
  /\ clusters[n] \in open \/ Clearing
  /\ clusters[n] \in open /\ Clearing => call[clusters[n]].op = "AddCluster"

\* What a thread on its way relies on.
OnItsWay(t) ==
  /\ pc[t] \notin Past => t \notin disposed
  /\ pc[t] \in {"ready", "register"} => t \in open
  /\ pc[t] = "fetch" => found[t] = clusters[call[t].name]
  /\ pc[t] = "hasClusters" => call[t].op = "Manual"
  /\ pc[t] = "close" => call[t].op \in {"CloseOne", "CloseAll"}
  /\ pc[t] = "closeOne" => call[t].op = "CloseOne"
  /\ pc[t] \in {"disposeAll", "clearAll"} => call[t].op = "CloseAll"

Registry ==
  /\ \A n \in Names : clusters[n] # NoThread => Belongs(n)
  /\ \A t \in Threads : OnItsWay(t)
  /\ open \cap disposed = {}

\* While a thread is inside the lock, no CloseAll is between its halves, and
\* no other thread is inside.
LEMMA Excludes ==
  ASSUME TypeOK, NEW t \in Threads, pc[t] \in Locked
  PROVE  /\ \A u \in Threads : u # t => pc[u] \notin Locked
         /\ pc[t] # "clearAll" => ~Clearing
BY DEF TypeOK, Holds, Clearing, Locked

\* The strengthened invariant of the registry holds when nothing is registered.
LEMMA RegistryStarts == Init => Registry
BY DEF Init, Registry, OnItsWay, Past, Ended

\* The steps that leave the clusters alone: the thread that takes one moves
\* on, and stays past Register if it was.
LEMMA RegistryOfMoves ==
  ASSUME TypeOK, Registry, NEW t \in Threads,
         Begin(t) \/ Enter(t) \/ HasClusters(t) \/ WaitUntilReady(t) \/ Lookup(t) \/ Fetch(t)
  PROVE  Registry'
<1> USE DEF Goto, dictionaries, history, Places, Locked, Past, Ended
<1>1. UNCHANGED <<clusters, open, disposed, call>>
  BY DEF Begin, Enter, HasClusters, WaitUntilReady, Lookup, Fetch
<1>2. /\ \A u \in Threads : u # t => pc'[u] = pc[u] /\ found'[u] = found[u]
      /\ pc[t] \in Past => pc'[t] \in Past
      /\ pc[t] # "clearAll" /\ pc'[t] # "clearAll"
      /\ pc'[t] \in {"ready", "register"} => pc[t] = "ready"
      /\ pc'[t] = "fetch" => found'[t] = clusters[call[t].name]
      /\ pc'[t] = "hasClusters" => call[t].op = "Manual"
      /\ pc'[t] = "close" => call[t].op \in {"CloseOne", "CloseAll"}
      /\ pc'[t] = "closeOne" => call[t].op = "CloseOne"
      /\ pc'[t] = "disposeAll" => call[t].op = "CloseAll"
      /\ pc[t] = "idle" \/ pc[t] \in Past \/ pc[t] \in {"configure", "close", "ready", "hasClusters"}
  BY DEF Begin, Enter, HasClusters, WaitUntilReady, Lookup, Fetch, Inside, TypeOK,
     Registry, OnItsWay
<1>3. Clearing' <=> Clearing
  BY <1>2 DEF Clearing
<1>4. ASSUME NEW n \in Names, clusters'[n] # NoThread PROVE Belongs(n)'
  <2>1. clusters[n] \in Threads /\ Belongs(n)
    BY <1>1, <1>4 DEF Registry, TypeOK
  <2>. QED
    BY <2>1, <1>1, <1>2, <1>3 DEF Belongs
<1>5. ASSUME NEW u \in Threads PROVE OnItsWay(u)'
  BY <1>1, <1>2 DEF Registry, OnItsWay
<1>. QED
  BY <1>1, <1>4, <1>5 DEF Registry

\* A cluster is registered, directly or by Configure, if its name is free.
LEMMA RegistryOfAdding ==
  ASSUME TypeOK, Registry, NEW t \in Threads, AddCluster(t) \/ Register(t) \/ Connect(t)
  PROVE  Registry'
<1> USE DEF Goto, dictionaries, history, Places, Locked, Past, Ended
<1>1. /\ UNCHANGED <<disposed, call, found>>
      /\ \A n \in Names : clusters'[n] = clusters[n]
                         \/ (n = call[t].name /\ clusters[n] = NoThread /\ clusters'[n] = t)
  <2>1. UNCHANGED <<disposed, call, found>> /\ (TryAdd(t) \/ UNCHANGED clusters)
    BY DEF AddCluster, Register, Connect
  <2>2. ASSUME TryAdd(t), NEW n \in Names
        PROVE  \/ clusters'[n] = clusters[n]
               \/ (n = call[t].name /\ clusters[n] = NoThread /\ clusters'[n] = t)
    <3>1. CASE clusters[call[t].name] = NoThread
      <4>1. clusters' = [clusters EXCEPT ![call[t].name] = t]
        BY <2>2, <3>1 DEF TryAdd
      <4>. QED
        BY <4>1, <3>1 DEF TypeOK
    <3>2. CASE clusters[call[t].name] # NoThread
      BY <2>2, <3>2 DEF TryAdd
    <3>. QED
      BY <3>1, <3>2
  <2>3. \A n \in Names : \/ clusters'[n] = clusters[n]
                          \/ (n = call[t].name /\ clusters[n] = NoThread /\ clusters'[n] = t)
    <3>1. CASE TryAdd(t)
      BY <3>1, <2>2
    <3>2. CASE UNCHANGED clusters
      BY <3>2
    <3>. QED
      BY <3>1, <3>2, <2>1
  <2>. QED
    BY <2>1, <2>3
<1>2. /\ \A u \in Threads : u # t => pc'[u] = pc[u]
      /\ pc[t] \notin Past
      /\ pc[t] # "clearAll" /\ pc'[t] # "clearAll"
      /\ pc'[t] \notin {"register", "fetch", "hasClusters", "close", "closeOne", "disposeAll"}
      /\ pc'[t] = "ready" => t \in open'
      /\ open' = open \/ open' = open \cup {t}
      /\ pc'[t] \in Past \/ UNCHANGED clusters
  BY DEF AddCluster, Register, Connect, TypeOK
<1>3. Clearing' <=> Clearing
  BY <1>2 DEF Clearing
<1>4. t \notin disposed
  BY <1>2 DEF Registry, OnItsWay
<1>5. ASSUME NEW n \in Names, clusters'[n] # NoThread PROVE Belongs(n)'
  <2>1. CASE clusters'[n] = clusters[n]
    <3>1. clusters[n] \in Threads /\ Belongs(n) /\ clusters[n] # t
      BY <1>5, <1>2, <2>1 DEF Registry, TypeOK, Belongs
    <3>. QED
      BY <3>1, <2>1, <1>1, <1>2, <1>3 DEF Belongs
  <2>2. CASE n = call[t].name /\ clusters[n] = NoThread /\ clusters'[n] = t
    <3>1. pc'[t] \in Past
      BY <1>2, <2>2
    <3>2. t \in open' /\ (Clearing => call[t].op = "AddCluster")
      BY <2>2, Excludes DEF AddCluster, Register, Connect, Registry, OnItsWay
    <3>. QED
      BY <3>1, <3>2, <2>2, <1>1, <1>3 DEF Belongs
  <2>. QED
    BY <2>1, <2>2, <1>1
<1>6. ASSUME NEW u \in Threads PROVE OnItsWay(u)'
  <2>1. pc[u] = "fetch" => clusters'[call[u].name] = clusters[call[u].name]
    BY <1>1, AliasOfIsAlias DEF Registry, OnItsWay, TypeOK
  <2>. QED
    BY <2>1, <1>1, <1>2, <1>4 DEF Registry, OnItsWay
<1>. QED
  BY <1>1, <1>2, <1>4, <1>5, <1>6 DEF Registry

\* Close takes clusters out of the registry, and disposes of them.
LEMMA RegistryOfClosing ==
  ASSUME TypeOK, Registry, NEW t \in Threads, CloseOne(t) \/ DisposeAll(t) \/ ClearAll(t)
  PROVE  Registry'
<1> USE DEF Goto, dictionaries, history, Places, Locked, Past, Ended, Dispose
<1>1. UNCHANGED <<call, found>> /\ \A u \in Threads : u # t => pc'[u] = pc[u] /\ pc[u] \notin Locked
  BY Excludes DEF CloseOne, DisposeAll, ClearAll, TypeOK
<1>2. \A n \in Names : clusters[n] # NoThread => clusters[n] \in Threads /\ Belongs(n)
  BY DEF Registry, TypeOK
<1>3. pc[t] \notin Past /\ pc[t] \in Locked
  BY DEF CloseOne, DisposeAll, ClearAll
<1>4. CASE CloseOne(t)
  <2>1. ~Clearing /\ ~Clearing'
    BY <1>4, <1>1, Excludes DEF CloseOne, Clearing, TypeOK
  <2> DEFINE c == clusters[call[t].name]
  <2>2. /\ clusters' = [clusters EXCEPT ![call[t].name] = NoThread]
        /\ open' = open \ ({c} \ {NoThread}) /\ disposed' = disposed \cup ({c} \ {NoThread})
        /\ pc'[t] = "returned"
    BY <1>4 DEF CloseOne, TypeOK
  <2>3. call[t].name \in Names
    BY AliasOfIsAlias DEF TypeOK
  <2>4. ASSUME NEW n \in Names, clusters'[n] # NoThread PROVE Belongs(n)'
    <3>1. n # call[t].name /\ clusters'[n] = clusters[n]
      BY <2>2, <2>3, <2>4 DEF TypeOK
    <3>2. clusters[n] # c
      BY <3>1, <2>3, <2>4, <1>2 DEF Belongs
    <3>. QED
      BY <3>1, <3>2, <2>1, <2>2, <2>4, <1>1, <1>2, <1>3 DEF Belongs
  <2>5. ASSUME NEW u \in Threads PROVE OnItsWay(u)'
    <3>1. u \in {c} \ {NoThread} => pc[u] \in Past
      BY <1>2, <2>3 DEF Belongs
    <3>. QED
      BY <3>1, <2>2, <1>1, <1>3 DEF Registry, OnItsWay
  <2>. QED
    BY <2>2, <2>4, <2>5 DEF Registry
<1>5. CASE DisposeAll(t)
  <2>1. /\ UNCHANGED clusters /\ pc'[t] = "clearAll"
        /\ open' = open \ Registered /\ disposed' = disposed \cup Registered
    BY <1>5 DEF DisposeAll, TypeOK
  <2>2. Clearing'
    BY <2>1 DEF Clearing
  <2>3. ASSUME NEW n \in Names, clusters'[n] # NoThread PROVE Belongs(n)'
    BY <2>1, <2>2, <2>3, <1>1, <1>2, <1>3 DEF Belongs, Registered
  <2>4. ASSUME NEW u \in Threads PROVE OnItsWay(u)'
    <3>1. u \in Registered => pc[u] \in Past
      BY <1>2 DEF Belongs, Registered
    <3>2. call[t].op = "CloseAll"
      BY <1>5 DEF DisposeAll, Registry, OnItsWay
    <3>. QED
      BY <3>1, <3>2, <2>1, <1>1, <1>3 DEF Registry, OnItsWay
  <2>. QED
    BY <2>1, <2>3, <2>4 DEF Registry
<1>6. CASE ClearAll(t)
  <2>1. /\ \A n \in Names : clusters'[n] = NoThread
        /\ UNCHANGED <<open, disposed>> /\ pc'[t] = "returned"
    BY <1>6 DEF ClearAll, TypeOK
  <2>. QED
    BY <2>1, <1>1 DEF Registry, OnItsWay
<1>. QED
  BY <1>4, <1>5, <1>6

\* The strengthened invariant of the registry holds always.
LEMMA RegistryHolds == Spec => [](TypeOK /\ Registry)
<1>1. TypeOK /\ Registry /\ [Next]_vars => Registry'
  <2> SUFFICES ASSUME TypeOK, Registry, [Next]_vars PROVE Registry'
    OBVIOUS
  <2>1. CASE UNCHANGED vars
    BY <2>1 DEF vars, dictionaries, Registry, Belongs, OnItsWay, Clearing
  <2>2. CASE \E t \in Threads : Step(t)
    BY <2>2, RegistryOfMoves, RegistryOfAdding, RegistryOfClosing DEF Step
  <2>. QED
    BY <2>1, <2>2, Steps
<1>. QED
  BY <1>1, RegistryStarts, TypeCorrect, PTL DEF Spec

\* GetBucket never asks a disposed cluster for a bucket.
THEOREM RegisteredClustersLive == Spec => []RegistryLive
<1>1. TypeOK /\ Registry => RegistryLive
  BY DEF Registry, Belongs, RegistryLive
<1>. QED
  BY <1>1, RegistryHolds, PTL

-----------------------------------------------------------------------------
(* The cached buckets.                                                      *)

\* A cached bucket, and one that was handed out, fits the key that was asked
\* for: Lookup finds it under that key, and Fetch makes it from the cluster
\* that is registered under the name asked for.
THEOREM BucketsFitTheirKeys == Spec => []FitsTheKey
<1>1. Init => FitsTheKey
  BY DEF Init, FitsTheKey
<1>2. TypeOK /\ Registry /\ FitsTheKey /\ [Next]_vars => FitsTheKey'
  <2> SUFFICES ASSUME TypeOK, Registry, FitsTheKey, [Next]_vars PROVE FitsTheKey'
    OBVIOUS
  <2> USE DEF FitsTheKey, AliasOf, dictionaries, history
  <2>1. CASE UNCHANGED vars
    BY <2>1 DEF vars
  <2>2. ASSUME NEW t \in Threads,
               \/ AddCluster(t) \/ Begin(t) \/ Enter(t) \/ HasClusters(t) \/ Connect(t)
               \/ WaitUntilReady(t) \/ Register(t) \/ DisposeAll(t)
        PROVE  FitsTheKey'
    <3>1. UNCHANGED <<buckets, given, call>>
      BY <2>2 DEF AddCluster, Begin, Enter, HasClusters, Connect, WaitUntilReady, Register, DisposeAll
    <3>. QED
      BY <3>1
  <2>3. ASSUME NEW t \in Threads, Lookup(t) PROVE FitsTheKey'
    BY <2>3, AliasOfIsAlias DEF Lookup, TypeOK
  <2>4. ASSUME NEW t \in Threads, Fetch(t) PROVE FitsTheKey'
    <3>1. AliasOf(t) \in Aliases /\ call[t].name \in Names
      BY AliasOfIsAlias DEF TypeOK
    <3>2. call[found[t]].name = call[t].name
      BY <2>4, <3>1 DEF Fetch, Registry, OnItsWay, Belongs, TypeOK
    <3>3. /\ BucketAsync(t).cluster = found[t] /\ BucketAsync(t).name = call[t].bucket
      BY DEF BucketAsync
    <3>4. /\ UNCHANGED call
          /\ \A a \in Aliases : buckets'[a] = buckets[a]
                             \/ (a = AliasOf(t) /\ buckets'[a] = BucketAsync(t))
          /\ \A u \in Threads : given'[u] = given[u] \/ (u = t /\ given'[u] = BucketAsync(t))
      <4>1. CASE UNCHANGED <<buckets, given>>
        BY <4>1, <2>4 DEF Fetch
      <4>2. CASE /\ buckets' = [buckets EXCEPT ![AliasOf(t)] =
                                  IF @ = NoBucket THEN BucketAsync(t) ELSE @]
                 /\ given' = [given EXCEPT ![t] = BucketAsync(t)]
        <5>1. ASSUME NEW a \in Aliases
              PROVE  \/ buckets'[a] = buckets[a]
                     \/ (a = AliasOf(t) /\ buckets'[a] = BucketAsync(t))
          BY <4>2 DEF TypeOK
        <5>2. ASSUME NEW u \in Threads
              PROVE  given'[u] = given[u] \/ (u = t /\ given'[u] = BucketAsync(t))
          BY <4>2 DEF TypeOK
        <5>. QED
          BY <5>1, <5>2, <2>4 DEF Fetch
      <4>. QED
        BY <4>1, <4>2, <2>4 DEF Fetch
    <3>. QED
      BY <3>2, <3>3, <3>4
  <2>5. ASSUME NEW t \in Threads, CloseOne(t) \/ ClearAll(t) PROVE FitsTheKey'
    <3>1. /\ UNCHANGED <<given, call>>
          /\ \A a \in Aliases : buckets'[a] = buckets[a] \/ buckets'[a] = NoBucket
      BY <2>5 DEF CloseOne, ClearAll, TypeOK
    <3>. QED
      BY <3>1
  <2>. QED
    BY <2>1, <2>2, <2>3, <2>4, <2>5, Steps DEF Step
<1>. QED
  BY <1>1, <1>2, RegistryHolds, PTL DEF Spec

\* Two names of one length do not make the same key with any bucket names.
LEMMA AliasOfEqualLengths ==
  ASSUME NEW E, NEW n \in Seq(E), NEW m \in Seq(E), NEW b \in Seq(E), NEW c \in Seq(E),
         Len(n) = Len(m), Alias(n, b) = Alias(m, c)
  PROVE  n = m /\ b = c
<1>1. n \o b = m \o c
  BY DEF Alias
<1>2. ASSUME NEW i \in 1 .. Len(n) PROVE n[i] = m[i]
  <2>1. (n \o b)[i] = n[i]
    BY ConcatProperties
  <2>2. (m \o c)[i] = m[i]
    BY ConcatProperties
  <2>. QED
    BY <1>1, <2>1, <2>2
<1>3. n = m
  BY <1>2, SeqEqual
<1>. QED
  BY <1>1, <1>3, ConcatSimplifications

\* A call is given the bucket it asks for, from a cluster of the name it asks for.
AsAsked ==
  \A t \in Threads : given[t] # NoBucket =>
    call[given[t].cluster].name = call[t].name /\ given[t].name = call[t].bucket

\* Where the cluster names have one length, GetBucket confuses no two pairs of
\* names, though their concatenation is the key.
THEOREM NamesOfOneLengthAreNotConfused ==
  ASSUME NEW E, Names \subseteq Seq(E), BucketNames \subseteq Seq(E),
         \A n \in Names, m \in Names : Len(n) = Len(m)
  PROVE  Spec => []AsAsked
<1>1. TypeOK /\ FitsTheKey => AsAsked
  <2> SUFFICES ASSUME TypeOK, FitsTheKey, NEW t \in Threads, given[t] # NoBucket
               PROVE  /\ call[given[t].cluster].name = call[t].name
                      /\ given[t].name = call[t].bucket
    BY DEF AsAsked
  <2>1. given[t] \in Bucket
    BY DEF TypeOK
  <2>2. /\ given[t].cluster \in Threads /\ given[t].name \in BucketNames
        /\ call[given[t].cluster].name \in Names
        /\ call[t].name \in Names /\ call[t].bucket \in BucketNames
    BY <2>1, AliasOfIsAlias DEF Bucket, TypeOK
  <2>3. Alias(call[given[t].cluster].name, given[t].name) = Alias(call[t].name, call[t].bucket)
    BY DEF FitsTheKey, AliasOf
  <2>. QED
    BY <2>2, <2>3, AliasOfEqualLengths
<1>. QED
  BY <1>1, TypeCorrect, BucketsFitTheirKeys, PTL

\* A CloseOne that leaves bucket b under key a, having closed its cluster.
LeftBehind(a) ==
  \E u \in Threads :
    /\ call[u].op = "CloseOne" /\ pc[u] = "returned"
    /\ call[u].name = call[buckets[a].cluster].name
    /\ AliasOf(u) # a

\* No bucket of a disposed cluster is cached, but for those CloseOne leaves.
THEOREM StaleBucketsAreLeftByCloseOne == Spec => []StaleOnlyAfterCloseOne
<1>1. Init => StaleOnlyAfterCloseOne
  BY DEF Init, StaleOnlyAfterCloseOne
<1>2. TypeOK /\ Registry /\ StaleOnlyAfterCloseOne /\ [Next]_vars => StaleOnlyAfterCloseOne'
  <2> SUFFICES ASSUME TypeOK, Registry, StaleOnlyAfterCloseOne, [Next]_vars,
                      NEW a \in Aliases, buckets'[a] # NoBucket,
                      buckets'[a].cluster \in disposed'
               PROVE  Clearing' \/ LeftBehind(a)'
    BY DEF StaleOnlyAfterCloseOne, LeftBehind
  <2> USE DEF dictionaries, history, Goto
  <2>1. CASE UNCHANGED vars
    BY <2>1 DEF vars, StaleOnlyAfterCloseOne, LeftBehind, AliasOf, Clearing
  <2>2. ASSUME NEW t \in Threads, Step(t), UNCHANGED disposed, buckets'[a] = buckets[a]
        PROVE  Clearing' \/ LeftBehind(a)'
    <3>1. ~ClearAll(t)
      BY <2>2 DEF ClearAll
    <3>2. pc[t] # "returned" /\ pc[t] # "clearAll"
      BY <2>2, <3>1 DEF Step, AddCluster, Begin, Enter, HasClusters, Connect,
         WaitUntilReady, Register, Lookup, Fetch, CloseOne, DisposeAll
    <3>3. UNCHANGED call /\ \A u \in Threads : u # t => pc'[u] = pc[u]
      BY <2>2, <3>1 DEF Step, AddCluster, Begin, Enter, HasClusters, Connect,
         WaitUntilReady, Register, Lookup, Fetch, CloseOne, DisposeAll, TypeOK
    <3>4. Clearing \/ LeftBehind(a)
      BY <2>2 DEF StaleOnlyAfterCloseOne, LeftBehind
    <3>. QED
      BY <3>2, <3>3, <3>4, <2>2 DEF Clearing, LeftBehind, AliasOf
  <2>3. ASSUME NEW t \in Threads, Fetch(t), buckets'[a] # buckets[a] PROVE FALSE
    <3>1. buckets'[a].cluster = found[t] /\ UNCHANGED disposed
      BY <2>3 DEF Fetch, BucketAsync, TypeOK
    <3>2. found[t] \in open
      <4>1. ~Clearing /\ call[t].name \in Names
        BY <2>3, Excludes, AliasOfIsAlias DEF Fetch, Locked, TypeOK
      <4>. QED
        BY <4>1, <2>3 DEF Fetch, Registry, OnItsWay, Belongs, TypeOK
    <3>. QED
      BY <3>1, <3>2 DEF Registry
  <2>4. ASSUME NEW t \in Threads, CloseOne(t) PROVE Clearing' \/ LeftBehind(a)'
    <3> DEFINE c == clusters[call[t].name]
    <3>1. buckets'[a] = buckets[a] /\ (c # NoThread => AliasOf(t) # a)
      BY <2>4, AliasOfIsAlias DEF CloseOne, TypeOK
    <3>2. CASE buckets[a].cluster \in disposed
      <4>1. ~Clearing
        BY <2>4, Excludes DEF CloseOne, Locked
      <4>2. LeftBehind(a)
        BY <4>1, <3>1, <3>2 DEF StaleOnlyAfterCloseOne, LeftBehind
      <4>. QED
        BY <4>2, <3>1, <2>4 DEF CloseOne, LeftBehind, AliasOf, TypeOK
    <3>3. CASE buckets[a].cluster \notin disposed
      <4>1. buckets[a].cluster = c /\ c # NoThread
        BY <3>1, <3>3, <2>4 DEF CloseOne, Dispose
      <4>2. call[c].name = call[t].name
        BY <4>1, AliasOfIsAlias DEF Registry, Belongs, TypeOK
      <4>3. call[t].op = "CloseOne"
        BY <2>4 DEF CloseOne, Registry, OnItsWay
      <4>. QED
        BY <4>1, <4>2, <4>3, <3>1, <2>4 DEF CloseOne, LeftBehind, AliasOf, TypeOK
    <3>. QED
      BY <3>2, <3>3
  <2>5. ASSUME NEW t \in Threads, DisposeAll(t) PROVE Clearing'
    BY <2>5 DEF DisposeAll, Clearing, TypeOK
  <2>6. ASSUME NEW t \in Threads, ClearAll(t) PROVE FALSE
    BY <2>6 DEF ClearAll
  <2>7. ASSUME NEW t \in Threads,
               \/ AddCluster(t) \/ Begin(t) \/ Enter(t) \/ HasClusters(t) \/ Connect(t)
               \/ WaitUntilReady(t) \/ Register(t) \/ Lookup(t) \/ Fetch(t)
        PROVE  UNCHANGED disposed /\ (Fetch(t) \/ UNCHANGED buckets)
    BY <2>7 DEF AddCluster, Begin, Enter, HasClusters, Connect, WaitUntilReady,
       Register, Lookup, Fetch
  <2>. QED
    BY <2>1, <2>2, <2>3, <2>4, <2>5, <2>6, <2>7, Steps DEF Step
<1>. QED
  BY <1>1, <1>2, RegistryHolds, PTL DEF Spec

-----------------------------------------------------------------------------
(* Clusters that cannot be closed any more, and providers without a bucket. *)

\* The steps that change neither the clusters nor the histories, and what
\* they do to the thread that takes them.
LEMMA Quiet ==
  ASSUME TypeOK, Registry, NEW t \in Threads,
         Begin(t) \/ Enter(t) \/ HasClusters(t) \/ WaitUntilReady(t) \/ Lookup(t) \/ Fetch(t)
  PROVE  /\ UNCHANGED <<clusters, open, call, history>>
         /\ \A u \in Threads : u # t => pc'[u] = pc[u] /\ given'[u] = given[u]
         /\ pc[t] = "ready" => pc'[t] \in {"register", "unready"}
         /\ pc[t] \notin {"register", "unready"}
         /\ pc'[t] = "getBucket" => call[t].op \notin {"Inline", "Section"}
         /\ pc'[t] = "lookup" => pc[t] = "getBucket"
<1> USE DEF Goto, dictionaries, history, Ended
<1>1. UNCHANGED <<clusters, open, call, history>>
  BY DEF Begin, Enter, HasClusters, WaitUntilReady, Lookup, Fetch
<1>2. \A u \in Threads : u # t => pc'[u] = pc[u] /\ given'[u] = given[u]
  BY DEF Begin, Enter, HasClusters, WaitUntilReady, Lookup, Fetch, TypeOK
<1>3. /\ pc[t] = "ready" => pc'[t] \in {"register", "unready"}
      /\ pc[t] \notin {"register", "unready"}
      /\ pc'[t] = "lookup" => pc[t] = "getBucket"
  BY DEF Begin, Enter, HasClusters, WaitUntilReady, Lookup, Fetch, Inside, TypeOK
<1>4. pc'[t] = "getBucket" => call[t].op \notin {"Inline", "Section"}
  BY DEF Begin, Enter, HasClusters, WaitUntilReady, Lookup, Fetch, Inside, TypeOK,
     Registry, OnItsWay
<1>. QED
  BY <1>1, <1>2, <1>3, <1>4

\* A connected cluster is registered or on its way, but for those TryAdd
\* refused, those that did not get ready, and those AddCluster registered
\* during a CloseAll.
THEOREM NoOtherClusterIsLost == Spec => []NoClusterIsLost
<1>1. Init => NoClusterIsLost
  BY DEF Init, NoClusterIsLost
<1>2. TypeOK /\ Registry /\ NoClusterIsLost /\ [Next]_vars => NoClusterIsLost'
  <2> SUFFICES ASSUME TypeOK, Registry, NoClusterIsLost, [Next]_vars PROVE NoClusterIsLost'
    OBVIOUS
  <2> USE DEF dictionaries, history, Goto
  <2>1. CASE UNCHANGED vars
    BY <2>1 DEF vars, NoClusterIsLost
  <2>2. ASSUME NEW t \in Threads,
               Begin(t) \/ Enter(t) \/ HasClusters(t) \/ WaitUntilReady(t) \/ Lookup(t) \/ Fetch(t)
        PROVE  NoClusterIsLost'
    BY <2>2, Quiet DEF NoClusterIsLost, TypeOK
  <2>3. ASSUME NEW t \in Threads, AddCluster(t) \/ Register(t) PROVE NoClusterIsLost'
    <3>1. /\ UNCHANGED <<call, removed>> /\ open' \in {open, open \cup {t}}
          /\ \A u \in Threads : u # t => pc'[u] = pc[u]
      BY <2>3 DEF AddCluster, Register, TypeOK
    <3>2. CASE clusters[call[t].name] = NoThread
      <4>1. clusters' = [clusters EXCEPT ![call[t].name] = t] /\ refused' = refused
        BY <2>3, <3>2 DEF AddCluster, Register, TryAdd
      <4>2. \A n \in Names : clusters'[n] = IF n = call[t].name THEN t ELSE clusters[n]
        BY <4>1 DEF TypeOK
      <4>. QED
        BY <3>1, <3>2, <4>1, <4>2, AliasOfIsAlias DEF NoClusterIsLost, TypeOK
    <3>3. CASE clusters[call[t].name] # NoThread
      <4>1. clusters' = clusters /\ refused' = refused \cup {t}
        BY <2>3, <3>3 DEF AddCluster, Register, TryAdd
      <4>. QED
        BY <3>1, <4>1 DEF NoClusterIsLost, TypeOK
    <3>. QED
      BY <3>2, <3>3
  <2>4. ASSUME NEW t \in Threads, Connect(t) PROVE NoClusterIsLost'
    BY <2>4 DEF Connect, NoClusterIsLost, TypeOK
  <2>5. ASSUME NEW t \in Threads, CloseOne(t) PROVE NoClusterIsLost'
    <3> DEFINE c == clusters[call[t].name]
    <3>1. /\ clusters' = [clusters EXCEPT ![call[t].name] = NoThread]
          /\ open' = open \ ({c} \ {NoThread}) /\ removed \subseteq removed'
          /\ UNCHANGED <<call, refused>>
          /\ \A u \in Threads : pc[u] \in {"ready", "register", "unready"} => pc'[u] = pc[u]
      BY <2>5 DEF CloseOne, Dispose, TypeOK
    <3>2. ASSUME NEW u \in open', clusters[call[u].name] = u
          PROVE  clusters'[call[u].name] = u
      <4>1. u \in Threads /\ u # c
        BY <3>1 DEF TypeOK
      <4>2. call[u].name # call[t].name
        BY <4>1, <3>2
      <4>. QED
        BY <4>1, <4>2, <3>1, <3>2, AliasOfIsAlias DEF TypeOK
    <3>. QED
      BY <3>1, <3>2 DEF NoClusterIsLost, TypeOK
  <2>6. ASSUME NEW t \in Threads, DisposeAll(t) PROVE NoClusterIsLost'
    BY <2>6 DEF DisposeAll, Dispose, NoClusterIsLost, TypeOK
  <2>7. ASSUME NEW t \in Threads, ClearAll(t) PROVE NoClusterIsLost'
    <3>1. /\ UNCHANGED <<open, call, refused>> /\ removed' = removed \cup Registered
          /\ \A u \in Threads : pc[u] \in {"ready", "register", "unready"} => pc'[u] = pc[u]
      BY <2>7 DEF ClearAll, TypeOK
    <3>2. Clearing
      BY <2>7 DEF ClearAll, Clearing
    <3>3. ASSUME NEW u \in open, clusters[call[u].name] = u
          PROVE  call[u].op = "AddCluster" /\ u \in removed'
      <4>1. call[u].name \in Names /\ u # NoThread
        BY AliasOfIsAlias DEF TypeOK
      <4>2. u \in Registered
        BY <4>1, <3>3 DEF Registered
      <4>. QED
        BY <4>1, <4>2, <3>1, <3>2, <3>3 DEF Registry, Belongs
    <3>. QED
      BY <3>1, <3>3 DEF NoClusterIsLost, TypeOK
  <2>. QED
    BY <2>1, <2>2, <2>3, <2>4, <2>5, <2>6, <2>7, Steps DEF Step
<1>. QED
  BY <1>1, <1>2, RegistryHolds, PTL DEF Spec

\* What a bootstrap that has configured its cluster relies on.
WasClosed(t) == \E u \in removed : call[u].name = call[t].name
Configured(t) ==
  call[t].op \in {"Inline", "Section"} =>
    /\ pc[t] \in {"getBucket", "lookup"} =>
         clusters[call[t].name] # NoThread \/ WasClosed(t)
    /\ pc[t] = "returned" => given[t] # NoBucket \/ WasClosed(t)

\* A bootstrap that ends without an exception has a bucket, or a cluster of
\* its name was closed.
THEOREM BootstrapGivesABucket == Spec => []BootstrapGivesBucket
<1> DEFINE AllConfigured == \A t \in Threads : Configured(t)
<1>1. Init => AllConfigured
  BY DEF Init, Configured
<1>2. TypeOK /\ Registry /\ AllConfigured /\ [Next]_vars => AllConfigured'
  <2> SUFFICES ASSUME TypeOK, Registry, AllConfigured, [Next]_vars,
                      NEW u \in Threads
               PROVE  Configured(u)'
    OBVIOUS
  <2> USE DEF dictionaries, history, Goto
  <2>1. CASE UNCHANGED vars
    BY <2>1 DEF vars, Configured, WasClosed
  <2>2. ASSUME NEW t \in Threads,
               Begin(t) \/ Enter(t) \/ HasClusters(t) \/ WaitUntilReady(t) \/ Lookup(t) \/ Fetch(t)
        PROVE  Configured(u)'
    <3>1. CASE u # t
      BY <2>2, <3>1, Quiet DEF Configured, WasClosed
    <3>2. ASSUME u = t, call[t].op \in {"Inline", "Section"}, pc'[t] = "returned"
          PROVE  given'[t] # NoBucket \/ WasClosed(t)
      <4>1. Lookup(t) \/ Fetch(t)
        BY <2>2, <3>2 DEF Begin, Enter, HasClusters, WaitUntilReady, Inside, TypeOK
      <4>2. CASE Lookup(t)
        BY <4>2, <3>2 DEF Lookup, Configured, TypeOK
      <4>3. CASE Fetch(t)
        <5>1. BucketAsync(t) \in Bucket
          BY <4>3, AliasOfIsAlias DEF Fetch, BucketAsync, Bucket, TypeOK
        <5>. QED
          BY <5>1, <4>3, <3>2 DEF Fetch, TypeOK
      <4>. QED
        BY <4>1, <4>2, <4>3
    <3>3. CASE u = t
      BY <3>2, <3>3, <2>2, Quiet DEF Configured, WasClosed
    <3>. QED
      BY <3>1, <3>3
  <2>3. ASSUME NEW t \in Threads, AddCluster(t) \/ Register(t) \/ Connect(t)
        PROVE  Configured(u)'
    <3>1. /\ UNCHANGED <<call, removed, given>>
          /\ \A v \in Threads : v # t => pc'[v] = pc[v]
          /\ pc'[t] = "returned" => call[t].op \notin {"Inline", "Section"}
          /\ pc'[t] # "lookup"
      BY <2>3 DEF AddCluster, Register, Connect, TypeOK
    <3>2. ASSUME NEW n \in Names, clusters[n] # NoThread PROVE clusters'[n] # NoThread
      BY <2>3, <3>2, AliasOfIsAlias DEF AddCluster, Register, Connect, TryAdd, TypeOK
    <3>3. pc'[t] = "getBucket" => clusters'[call[t].name] # NoThread
      BY <2>3, AliasOfIsAlias DEF AddCluster, Register, Connect, TryAdd, TypeOK
    <3>4. call[u].name \in Names
      BY AliasOfIsAlias DEF TypeOK
    <3>. QED
      BY <3>1, <3>2, <3>3, <3>4 DEF Configured, WasClosed
  <2>4. ASSUME NEW t \in Threads, CloseOne(t) \/ DisposeAll(t) \/ ClearAll(t)
        PROVE  Configured(u)'
    <3>1. /\ UNCHANGED <<call, given>> /\ removed \subseteq removed'
          /\ \A v \in Threads : v # t => pc'[v] = pc[v]
          /\ pc'[t] \notin {"getBucket", "lookup"}
      BY <2>4 DEF CloseOne, DisposeAll, ClearAll, TypeOK
    <3>2. ASSUME NEW n \in Names, clusters[n] # NoThread, clusters'[n] = NoThread
          PROVE  clusters[n] \in removed' /\ call[clusters[n]].name = n
      <4>1. clusters[n] \in removed'
        BY <2>4, <3>2, AliasOfIsAlias DEF CloseOne, DisposeAll, ClearAll, Registered, TypeOK
      <4>. QED
        BY <4>1, <3>2 DEF Registry, Belongs
    <3>3. call[t].op \notin {"Inline", "Section"}
      BY <2>4 DEF CloseOne, DisposeAll, ClearAll, Registry, OnItsWay
    <3>4. call[u].name \in Names
      BY AliasOfIsAlias DEF TypeOK
    <3>. QED
      BY <3>1, <3>2, <3>3, <3>4 DEF Configured, WasClosed
  <2>. QED
    BY <2>1, <2>2, <2>3, <2>4, Steps DEF Step
<1>3. AllConfigured => BootstrapGivesBucket
  BY DEF Configured, BootstrapGivesBucket, WasClosed
<1>. QED
  BY <1>1, <1>2, <1>3, RegistryHolds, PTL DEF Spec

-----------------------------------------------------------------------------
(* That every call ends.                                                    *)

\* How many steps a thread at this place still takes, at most.
Remaining(place) ==
  CASE place = "idle" -> 9
    [] place = "configure" -> 8
    [] place = "connect" -> 7
    [] place = "ready" -> 6
    [] place \in {"register", "hasClusters"} -> 5
    [] place \in {"getBucket", "close"} -> 4
    [] place \in {"lookup", "closeOne", "disposeAll"} -> 3
    [] place \in {"fetch", "clearAll"} -> 2
    [] place \in Ended -> 0

Rank(t) == Remaining(pc[t])

\* A thread never comes back to where it was: each step brings its call nearer
\* to its end, and no other call further from it.
Progress ==
  [][\E t \in Threads : /\ Rank(t)' < Rank(t)
                       /\ \A u \in Threads \ {t} : Rank(u)' = Rank(u)]_vars

\* The places in the order a call comes to them.
LEMMA RemainingOfPlaces ==
  /\ Remaining("idle") = 9 /\ Remaining("configure") = 8
  /\ Remaining("connect") = 7 /\ Remaining("ready") = 6
  /\ Remaining("register") = 5 /\ Remaining("hasClusters") = 5
  /\ Remaining("getBucket") = 4 /\ Remaining("close") = 4
  /\ Remaining("lookup") = 3 /\ Remaining("closeOne") = 3 /\ Remaining("disposeAll") = 3
  /\ Remaining("fetch") = 2 /\ Remaining("clearAll") = 2
  /\ \A place \in Ended : Remaining(place) = 0
<1>1. /\ Remaining("idle") = 9 /\ Remaining("configure") = 8
      /\ Remaining("connect") = 7 /\ Remaining("ready") = 6
      /\ Remaining("register") = 5 /\ Remaining("hasClusters") = 5
  BY DEF Remaining, Ended
<1>2. /\ Remaining("getBucket") = 4 /\ Remaining("close") = 4
      /\ Remaining("lookup") = 3 /\ Remaining("closeOne") = 3 /\ Remaining("disposeAll") = 3
  BY DEF Remaining, Ended
<1>3. Remaining("fetch") = 2 /\ Remaining("clearAll") = 2
  BY DEF Remaining, Ended
<1>4. \A place \in Ended : Remaining(place) = 0
  BY DEF Remaining, Ended
<1>. QED
  BY <1>1, <1>2, <1>3, <1>4

\* Each call of the registry takes at most nine steps, whatever the others do.
THEOREM CallsAreBounded == Spec => [](\A t \in Threads : Rank(t) \in 0 .. 9) /\ Progress
<1>1. TypeOK /\ [Next]_vars =>
        [\E t \in Threads : /\ Rank(t)' < Rank(t)
                           /\ \A u \in Threads \ {t} : Rank(u)' = Rank(u)]_vars
  <2> SUFFICES ASSUME TypeOK, NEW t \in Threads, Step(t)
               PROVE  /\ Rank(t)' < Rank(t)
                      /\ \A u \in Threads \ {t} : Rank(u)' = Rank(u)
    BY DEF Next
  <2> USE DEF Goto
  <2>1. pc \in [Threads -> Places]
    BY DEF TypeOK
  <2>2. \A u \in Threads \ {t} : pc'[u] = pc[u]
    BY <2>1 DEF Step, AddCluster, Begin, Enter, HasClusters, Connect, WaitUntilReady,
       Register, Lookup, Fetch, CloseOne, DisposeAll, ClearAll
  <2>3. CASE AddCluster(t) \/ Begin(t) \/ Enter(t) \/ HasClusters(t)
    BY <2>1, <2>3, RemainingOfPlaces DEF AddCluster, Begin, Enter, HasClusters, Inside, Rank, Ended
  <2>4. CASE Connect(t) \/ WaitUntilReady(t) \/ Register(t) \/ Lookup(t) \/ Fetch(t)
    BY <2>1, <2>4, RemainingOfPlaces DEF Connect, WaitUntilReady, Register, Lookup, Fetch, Rank, Ended
  <2>5. CASE CloseOne(t) \/ DisposeAll(t) \/ ClearAll(t)
    BY <2>1, <2>5, RemainingOfPlaces DEF CloseOne, DisposeAll, ClearAll, Rank, Ended
  <2>6. Rank(t)' < Rank(t)
    BY <2>3, <2>4, <2>5 DEF Step
  <2>. QED
    BY <2>2, <2>6 DEF Rank
<1>2. TypeOK => \A t \in Threads : Rank(t) \in 0 .. 9
  <2>1. \A place \in Places : Remaining(place) \in 0 .. 9
    BY RemainingOfPlaces DEF Places, Locked
  <2>. QED
    BY <2>1 DEF TypeOK, Rank
<1>. QED
  BY <1>1, <1>2, TypeCorrect, PTL DEF Spec, Progress

\* What a thread needs to go on with a call it has begun: the lock, if its next
\* step is to take it, and nothing else.
CanGoOn(t) ==
  \/ pc[t] \in Locked \cup {"hasClusters"}
  \/ pc[t] \in {"configure", "getBucket", "close"} /\ lock = NoThread

\* While a call that was begun has not ended, somebody can go on.
NobodyIsStuck ==
  (\E t \in Threads : pc[t] \notin Ended \cup {"idle"}) => \E t \in Threads : CanGoOn(t)

\* The threads never wait on each other in a circle: if no other thread can go
\* on, the one that holds the lock can.
THEOREM SomebodyGoesOn == Spec => []NobodyIsStuck
<1>1. ASSUME TypeOK, NEW t \in Threads, pc[t] \notin Ended \cup {"idle"}
      PROVE  \E u \in Threads : CanGoOn(u)
  <2>1. pc[t] \in {"hasClusters", "configure", "getBucket", "close"} \cup Locked
    BY <1>1 DEF TypeOK, Places
  <2>2. CASE lock = NoThread \/ pc[t] \in Locked \cup {"hasClusters"}
    BY <2>1, <2>2 DEF CanGoOn
  <2>3. CASE lock # NoThread
    BY <1>1, <2>3 DEF TypeOK, Holds, CanGoOn
  <2>. QED
    BY <2>1, <2>2, <2>3
<1>2. TypeOK => NobodyIsStuck
  BY <1>1 DEF NobodyIsStuck
<1>. QED
  BY <1>2, TypeCorrect, PTL
=============================================================================
