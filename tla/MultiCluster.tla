---------------------------- MODULE MultiCluster ----------------------------
(***************************************************************************)
(* MultiCluster, the two static dictionaries of clusters and buckets, and  *)
(* BootStrapper, which fills them when a provider starts.  Each thread      *)
(* makes one call.  Most calls hold a lock; AddCluster and HasClusters do  *)
(* not.  A thread brings at most one cluster, which is named by it.        *)
(***************************************************************************)
EXTENDS Sequences

CONSTANTS
  Threads,
  Names, BucketNames,  \* cluster and bucket names: sequences of characters
  Requests,            \* the calls the threads may make, with the names they pass
  Faults,              \* what may fail: "config", "connect", "ready", "bucket"
  NoThread, NoBucket

Strategies == {"Inline", "Section", "Manual", "Unknown"}
Calls == {"AddCluster", "Configure", "GetBucket", "CloseOne", "CloseAll"}

\* The key of a cached bucket: clusterName + bucketName.
Alias(n, b) == n \o b
Aliases == {Alias(n, b) : n \in Names, b \in BucketNames}

Bucket == [cluster : Threads, name : BucketNames]

ASSUME Constants ==
  /\ Requests \subseteq [op : Calls \cup Strategies, name : Names, bucket : BucketNames]
  /\ Faults \subseteq {"config", "connect", "ready", "bucket"}
  /\ NoThread \notin Threads
ASSUME NoBucketIsNoBucket == NoBucket \notin Bucket

VARIABLES
  lock,      \* the thread that holds LockObj
  clusters,  \* the dictionary Clusters
  buckets,   \* the dictionary Buckets
  open,      \* the clusters that are connected, and not disposed of
  disposed,  \* the clusters that were disposed of
  pc,        \* where a thread is in its call
  call,      \* the call it makes
  found,     \* the cluster GetBucket found
  given,     \* the bucket it was given, or NoBucket for null
  removed,   \* history: the clusters that were taken out of Clusters
  refused    \* history: the clusters that TryAdd refused

dictionaries == <<clusters, buckets>>
history == <<removed, refused>>
vars == <<lock, dictionaries, open, disposed, pc, call, found, given, history>>

Ended == {"returned", "thrown", "unready"}
Locked == {"connect", "ready", "register", "lookup", "fetch",
           "closeOne", "disposeAll", "clearAll"}
Places == {"idle", "configure", "hasClusters", "getBucket", "close"} \cup Locked \cup Ended

Init ==
  /\ lock = NoThread
  /\ clusters = [n \in Names |-> NoThread]
  /\ buckets = [a \in Aliases |-> NoBucket]
  /\ open = {} /\ disposed = {} /\ removed = {} /\ refused = {}
  /\ pc = [t \in Threads |-> "idle"]
  /\ call \in [Threads -> Requests]
  /\ found = [t \in Threads |-> NoThread]
  /\ given = [t \in Threads |-> NoBucket]

-----------------------------------------------------------------------------
AliasOf(t) == Alias(call[t].name, call[t].bucket)
Registered == {clusters[n] : n \in Names} \ {NoThread}

Goto(t, place) == pc' = [pc EXCEPT ![t] = place]
Acquire(t) == lock = NoThread /\ lock' = t
Holds(t) == lock = t
Release == lock' = NoThread

\* ConcurrentDictionary.TryAdd: a name that is taken keeps its cluster.
TryAdd(t) ==
  IF clusters[call[t].name] = NoThread
  THEN /\ clusters' = [clusters EXCEPT ![call[t].name] = t]
       /\ UNCHANGED refused
  ELSE /\ refused' = refused \cup {t}
       /\ UNCHANGED clusters

\* The application hands over a cluster it connected: the lock is not taken.
AddCluster(t) ==
  /\ pc[t] = "idle" /\ call[t].op = "AddCluster"
  /\ open' = open \cup {t}
  /\ TryAdd(t)
  /\ Goto(t, "returned")
  /\ UNCHANGED <<lock, buckets, disposed, call, found, given, removed>>

\* The other calls, and the strategies of BootStrapper.  A strategy that
\* cannot be parsed leaves the provider without a bucket; an attribute that is
\* missing or not supported throws.
Begin(t) ==
  /\ pc[t] = "idle"
  /\ \/ call[t].op \in {"Configure", "Inline", "Section"} /\ Goto(t, "configure")
     \/ call[t].op = "Manual" /\ Goto(t, "hasClusters")
     \/ call[t].op = "GetBucket" /\ Goto(t, "getBucket")
     \/ call[t].op \in {"CloseOne", "CloseAll"} /\ Goto(t, "close")
     \/ call[t].op = "Unknown" /\ Goto(t, "returned")
     \/ call[t].op \in Strategies /\ "config" \in Faults /\ Goto(t, "thrown")
  /\ UNCHANGED <<lock, dictionaries, open, disposed, call, found, given, history>>

\* The place inside the lock that each place outside leads to.
Inside(t) ==
  CASE pc[t] = "configure" -> "connect"
    [] pc[t] = "getBucket" -> "lookup"
    [] pc[t] = "close" -> IF call[t].op = "CloseOne" THEN "closeOne" ELSE "disposeAll"

\* Mutant: no lock statement.
EnterUnlocked(t) ==
  /\ pc[t] \in {"configure", "getBucket", "close"}
  /\ lock' = t
  /\ Goto(t, Inside(t))
  /\ UNCHANGED <<dictionaries, open, disposed, call, found, given, history>>

Enter(t) ==
  /\ pc[t] \in {"configure", "getBucket", "close"}
  /\ Acquire(t)
  /\ Goto(t, Inside(t))
  /\ UNCHANGED <<dictionaries, open, disposed, call, found, given, history>>

\* Manual: any cluster will do, and the lock is not taken.
HasClusters(t) ==
  /\ pc[t] = "hasClusters"
  /\ Goto(t, IF Registered = {} THEN "thrown" ELSE "getBucket")
  /\ UNCHANGED <<lock, dictionaries, open, disposed, call, found, given, history>>

\* Mutant: Monitor.Enter without a finally.
ConnectKeepsLock(t) ==
  /\ pc[t] = "connect"
  /\ \/ open' = open \cup {t} /\ Goto(t, "ready")
     \/ "connect" \in Faults /\ Goto(t, "thrown") /\ UNCHANGED open
  /\ UNCHANGED <<lock, dictionaries, disposed, call, found, given, history>>

\* Configure awaits ConnectAsync and WaitUntilReadyAsync inside the lock; an
\* exception leaves the lock, and a cluster that is not ready stays connected.
Connect(t) ==
  /\ pc[t] = "connect"
  /\ \/ open' = open \cup {t} /\ Goto(t, "ready") /\ UNCHANGED lock
     \/ "connect" \in Faults /\ Release /\ Goto(t, "thrown") /\ UNCHANGED open
  /\ UNCHANGED <<dictionaries, disposed, call, found, given, history>>

\* Mutant: a failure to get ready is caught and logged.
WaitSwallows(t) ==
  /\ pc[t] = "ready"
  /\ \/ Goto(t, "register") /\ UNCHANGED lock
     \/ "ready" \in Faults /\ Release /\ Goto(t, "getBucket")
  /\ UNCHANGED <<dictionaries, open, disposed, call, found, given, history>>

WaitUntilReady(t) ==
  /\ pc[t] = "ready"
  /\ \/ Goto(t, "register") /\ UNCHANGED lock
     \/ "ready" \in Faults /\ Release /\ Goto(t, "unready")
  /\ UNCHANGED <<dictionaries, open, disposed, call, found, given, history>>

\* BootStrapper goes on to GetBucket, which takes the lock anew.
Register(t) ==
  /\ pc[t] = "register"
  /\ TryAdd(t)
  /\ Release
  /\ Goto(t, IF call[t].op = "Configure" THEN "returned" ELSE "getBucket")
  /\ UNCHANGED <<buckets, open, disposed, call, found, given, removed>>

\* GetBucket: the cached bucket, else the cluster's, else null.  Only those who
\* hold the lock touch Buckets, so both reads are one step.
Lookup(t) ==
  /\ pc[t] = "lookup"
  /\ \/ /\ buckets[AliasOf(t)] # NoBucket
        /\ given' = [given EXCEPT ![t] = buckets[AliasOf(t)]]
        /\ Release /\ Goto(t, "returned") /\ UNCHANGED found
     \/ /\ buckets[AliasOf(t)] = NoBucket
        /\ clusters[call[t].name] = NoThread
        /\ Release /\ Goto(t, "returned") /\ UNCHANGED <<found, given>>
     \/ /\ buckets[AliasOf(t)] = NoBucket
        /\ clusters[call[t].name] # NoThread
        /\ found' = [found EXCEPT ![t] = clusters[call[t].name]]
        /\ Goto(t, "fetch") /\ UNCHANGED <<lock, given>>
  /\ UNCHANGED <<dictionaries, open, disposed, call, history>>

BucketAsync(t) == [cluster |-> found[t], name |-> call[t].bucket]

\* Mutant: the bucket is cached under its own name.
FetchByBucketName(t) ==
  /\ pc[t] = "fetch"
  /\ \E a \in Aliases :
       /\ \E n \in Names : a = Alias(n, call[t].bucket)
       /\ buckets' = [buckets EXCEPT ![a] = BucketAsync(t)]
  /\ given' = [given EXCEPT ![t] = BucketAsync(t)]
  /\ Goto(t, "returned") /\ Release
  /\ UNCHANGED <<clusters, open, disposed, call, found, history>>

Fetch(t) ==
  /\ pc[t] = "fetch"
  /\ \/ /\ buckets' = [buckets EXCEPT ![AliasOf(t)] =
                         IF @ = NoBucket THEN BucketAsync(t) ELSE @]
        /\ given' = [given EXCEPT ![t] = BucketAsync(t)]
        /\ Goto(t, "returned")
     \/ /\ "bucket" \in Faults
        /\ Goto(t, "thrown") /\ UNCHANGED <<buckets, given>>
  /\ Release
  /\ UNCHANGED <<clusters, open, disposed, call, found, history>>

-----------------------------------------------------------------------------
Dispose(S) == open' = open \ S /\ disposed' = disposed \cup S

\* Mutant: the cluster is disposed of and not taken out.
CloseOneKeeps(t) ==
  /\ pc[t] = "closeOne"
  /\ buckets' = [buckets EXCEPT ![AliasOf(t)] = NoBucket]
  /\ Dispose({clusters[call[t].name]} \ {NoThread})
  /\ Release /\ Goto(t, "returned")
  /\ UNCHANGED <<clusters, call, found, given, history>>

\* CloseOne takes the cluster out, and one bucket by its alias.  AddCluster and
\* HasClusters may run between its calls, but touch Clusters only: the removal
\* from Buckets and Dispose commute with them, and stand with the removal from
\* Clusters as one step.
CloseOne(t) ==
  /\ pc[t] = "closeOne"
  /\ LET closing == {clusters[call[t].name]} \ {NoThread} IN
       /\ clusters' = [clusters EXCEPT ![call[t].name] = NoThread]
       /\ buckets' = [buckets EXCEPT ![AliasOf(t)] = IF closing = {} THEN @ ELSE NoBucket]
       /\ removed' = removed \cup closing
       /\ Dispose(closing)
  /\ Release /\ Goto(t, "returned")
  /\ UNCHANGED <<call, found, given, refused>>

\* Mutant: the two halves of CloseAll lock separately.
DisposeAllUnlocks(t) ==
  /\ pc[t] = "disposeAll"
  /\ Dispose(Registered)
  /\ Release /\ Goto(t, "clearAll")
  /\ UNCHANGED <<dictionaries, call, found, given, history>>

\* CloseAll disposes of every cluster, then clears both dictionaries;
\* AddCluster may come in between.  A cluster that is added during the foreach
\* is met by it, as one added before, or is not, as one added after.
DisposeAll(t) ==
  /\ pc[t] = "disposeAll"
  /\ Dispose(Registered)
  /\ Goto(t, "clearAll")
  /\ UNCHANGED <<lock, dictionaries, call, found, given, history>>

\* Mutant: Buckets.Clear is missing.
ClearAllClusters(t) ==
  /\ pc[t] = "clearAll"
  /\ clusters' = [n \in Names |-> NoThread]
  /\ removed' = removed \cup Registered
  /\ Release /\ Goto(t, "returned")
  /\ UNCHANGED <<buckets, open, disposed, call, found, given, refused>>

ClearAll(t) ==
  /\ pc[t] = "clearAll"
  /\ clusters' = [n \in Names |-> NoThread]
  /\ buckets' = [a \in Aliases |-> NoBucket]
  /\ removed' = removed \cup Registered
  /\ Release /\ Goto(t, "returned")
  /\ UNCHANGED <<open, disposed, call, found, given, refused>>

Step(t) ==
  \/ AddCluster(t) \/ Begin(t) \/ Enter(t) \/ HasClusters(t)
  \/ Connect(t) \/ WaitUntilReady(t) \/ Register(t)
  \/ Lookup(t) \/ Fetch(t)
  \/ CloseOne(t) \/ DisposeAll(t) \/ ClearAll(t)

Next == \E t \in Threads : Step(t)

Spec == Init /\ [][Next]_vars
\* A thread that was started runs on; connecting has a timeout.
FairSpec == Spec /\ \A t \in Threads : WF_vars(pc[t] # "idle" /\ Step(t))

-----------------------------------------------------------------------------
\* Every variable has its type, and the thread at a place inside the lock,
\* and no other, holds it.
TypeOK ==
  /\ lock \in Threads \cup {NoThread}
  /\ clusters \in [Names -> Threads \cup {NoThread}]
  /\ buckets \in [Aliases -> Bucket \cup {NoBucket}]
  /\ open \subseteq Threads /\ disposed \subseteq Threads
  /\ removed \subseteq Threads /\ refused \subseteq Threads
  /\ pc \in [Threads -> Places]
  /\ call \in [Threads -> Requests]
  /\ found \in [Threads -> Threads \cup {NoThread}]
  /\ given \in [Threads -> Bucket \cup {NoBucket}]
  /\ \A t \in Threads :
       /\ pc[t] \in Locked <=> Holds(t)
       /\ pc[t] = "fetch" => found[t] # NoThread

Clearing == \E t \in Threads : pc[t] = "clearAll"

\* A registered cluster is connected, under the name it was registered with:
\* outside CloseAll, GetBucket never asks a disposed cluster for a bucket.
RegistryLive ==
  /\ \A n \in Names : clusters[n] # NoThread =>
       call[clusters[n]].name = n /\ (clusters[n] \in open \/ Clearing)
  /\ open \cap disposed = {}

\* A bucket that is cached or was handed out comes from a cluster that was
\* registered under a name which makes, with the bucket's own, the key asked
\* for.  (Only two pairs with the same concatenation can be confused.)
FitsTheKey ==
  /\ \A a \in Aliases : buckets[a] # NoBucket =>
       Alias(call[buckets[a].cluster].name, buckets[a].name) = a
  /\ \A t \in Threads : given[t] # NoBucket =>
       Alias(call[given[t].cluster].name, given[t].name) = AliasOf(t)

\* The cache holds a bucket of a disposed cluster only after a CloseOne that
\* named the cluster and another bucket.
StaleOnlyAfterCloseOne ==
  \A a \in Aliases :
    buckets[a] # NoBucket /\ buckets[a].cluster \in disposed =>
      \/ Clearing
      \/ \E u \in Threads :
           /\ call[u].op = "CloseOne" /\ pc[u] = "returned"
           /\ call[u].name = call[buckets[a].cluster].name
           /\ AliasOf(u) # a

\* A connected cluster can be reached, so that Close can dispose of it, but
\* in three cases: its name was taken, it was not ready in time, or AddCluster
\* registered it while CloseAll was between its two halves.
NoClusterIsLost ==
  \A t \in open :
    \/ clusters[call[t].name] = t
    \/ pc[t] \in {"ready", "register", "unready"}
    \/ t \in refused
    \/ call[t].op = "AddCluster" /\ t \in removed

\* A provider that starts Inline or from a Section gets a bucket or an
\* exception, unless a cluster of its name was closed; Configure and GetBucket take
\* the lock separately, and TryAdd may have refused its own cluster.
BootstrapGivesBucket ==
  \A t \in Threads :
    call[t].op \in {"Inline", "Section"} /\ pc[t] = "returned" /\ given[t] = NoBucket =>
      \E u \in removed : call[u].name = call[t].name

\* Every call ends: the lock is left on every way out, exceptions included.
CallsEnd == \A t \in Threads : pc[t] # "idle" ~> pc[t] \in Ended
=============================================================================
