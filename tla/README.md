# A verification project for Couchbase.AspNet

Couchbase.AspNet keeps ASP.NET session state and the ASP.NET output cache in a
Couchbase bucket. Several web servers share that bucket, so the hard part of the
library is what happens between two bucket calls of one operation. Below the
providers, static dictionaries of clusters and buckets are shared by the
threads of one server, and asynchronous calls are made to block. The modules
here model all of these step by step, TLC checks them on small instances, and
TLAPS proves the safety properties for all values of the constants.

Paths in this file are relative to `src/src/Couchbase.AspNet/` unless they start
with `src/`.

## Inventory

| Component | State | Operations | Talks to |
|---|---|---|---|
| Asynchronous session provider, `Session/CouchbaseSessionStateProviderAsync.cs` | none of its own; the `SessionStateItem` under the session's key | CreateUninitializedItem, GetItem, GetItemExclusive, SetAndReleaseItemExclusive, ReleaseItemExclusive, RemoveItem, ResetItemTimeout | called by the SessionStateModule, calls the bucket |
| Synchronous session provider, `Session/CouchbaseSessionStateProvider.cs` | the same document | the same | the same |
| Output-cache providers, `Caching/*.cs` | entries of the bucket | Get, Add, Set, Remove | called by ASP.NET, call the bucket |
| Bucket operations, `Utils/BucketExtensions.cs`, `OperationResult.cs` | none | Get, Insert, Upsert, Remove, Touch; exceptions become failed results | Couchbase SDK |
| `MultiCluster.cs`, `BootStrapper.cs` | two static dictionaries: clusters, buckets; a lock | AddCluster, Configure, GetBucket, CloseOne, CloseAll, HasClusters; Bootstrap | providers' Initialize, the application, the Couchbase SDK |
| `Utils/AsyncHelper.cs` | none; occupies threads of the pool | RunSync | everything synchronous |
| `CouchbaseWebProviderExtensions.cs` and the CheckKey methods | none | identifier to key | all providers |
| `IO/BufferAllocator.cs`, `IO/IOBuffer.cs` | one block, stack of free offsets, next offset | GetBuffer, SetBuffer, ReleaseBuffer | any thread |
| Client configuration, `Configuration/Client/` | property bags | constructors, ApplyConnectionString, ToClusterOptions | BootStrapper, MultiCluster |
| `Utils/*.cs` otherwise, `ProviderHelper.cs` | none | array, string and URI helpers; reading attributes | everyone |
| Authentication, examples, section elements | immutable data, sample sites | none | none |

### What is hard

*Two calls that should be one.* GetItemExclusive reads the document and then
upserts the copy it read with `Locked` set. ReleaseItemExclusive reads, checks
the lock identifier and upserts. Add gets and then inserts. No call uses the CAS
value the bucket returns, so anything may happen in between.

*Failures.* Every bucket call may fail, and one that timed out may have been
applied. LogAndOrThrow throws or goes on, depending on `throwOnError`, and a failed
Get reads as a missing session.

*Crashes.* A worker process may be recycled while it holds a session's lock. The
SessionStateModule clears locks that are older than the ExecutionTimeout.

*Time.* Documents expire; the age of a lock decides whether it is cleared; the
expiration of a cache entry is computed before the call that stores it.

*Threads.* MultiCluster's lock is held while a cluster is connected or a bucket
opened, by a thread that blocks for a task which needs another thread. AddCluster
and HasClusters do not take that lock.

*Numbers and names.* The allocator computes with int; the key of a cached bucket
is the concatenation of two names, and the key of a document depends on whether its
identifier starts with the prefix.

PROJECT.json lists each hazard at its line with the properties that address it.

### What makes each component correct

- Session providers: nobody sees data that no request stored; a stored change is
  not lost; a request that ends without an error has stored its change; a lock is
  cleared in the end; a session that holds data is never announced as new;
  documents that must expire do.
- Output cache: Add never replaces an entry; callers of Add agree on the entry;
  nobody is given the entry of another identifier; no entry outlives its expiry.
- MultiCluster: a registered cluster is live; a bucket that is handed out belongs
  to the pair of names that was asked for; no connection is lost, no bucket of
  a disposed cluster stays, but in the cases that can be named.
- RunSync: no request waits for ever for a context or the lock, nor, on a pool with
  a thread to spare, for a thread.
- Keys: two identifiers do not share a key.
- BufferAllocator: held buffers are disjoint and inside the block, and no buffer
  gets lost; after a double release they are still whole buffers of the block.

## Modules

| Module | Contents |
|---|---|
| `AsyncSessionState` | the asynchronous session provider, its requests, crashes, expiry and the clock |
| `AsyncSessionProperties` | what that provider keeps, and two statements of the repository it does not keep |
| `SessionStore` | the contract of a session store |
| `SessionStoreProofs` | proofs of what the contract gives |
| `AsyncSessionStore` | the refinement mapping from the provider to the contract |
| `MCAsyncSession` | an initial age for its serial run |
| `AsyncSessionProofs` | proofs of the provider's invariants, of its serial properties and of the refinement |
| `SyncSessionState` | the synchronous session provider and its properties |
| `SyncSessionProofs` | proofs of them |
| `Keys`, `KeysProofs` | identifiers and keys, and proofs about them |
| `OutputCache`, `MCOutputCache` | the output-cache providers, their properties, and the mapping to `AtomicCache`; identifiers for TLC |
| `AtomicCache` | a cache whose calls take effect at one instant |
| `OutputCacheProofs` | proofs of the properties and of the refinement |
| `MultiCluster`, `MCMultiCluster` | the dictionaries, their lock and BootStrapper; names and calls for TLC |
| `MultiClusterProofs` | proofs of its safety properties, and that its calls are bounded |
| `RunSync`, `RunSyncProofs` | RunSync on a thread pool, and proofs |
| `BufferAllocator`, `MCBufferAllocator` | the allocator; sizes for TLC |
| `BufferAllocatorProofs` | proofs of its properties |

### AsyncSessionState

One session, hence one document `doc` (or `NoDoc`) and the expiration `expiry` it
was last written with. A document is a record of the fields the code branches on
or restores: `items`, `actions`, `locked`, `lockId`, `timeout`, and `age`, which is
`UtcNow - LockDate`. The data `items` of a session is abstracted to the set of the
requests whose changes it holds: a handler that was given `view` stores
`view \cup {r}`. That is what lost updates, resurrected data and phantom data are
told apart by.

Each request `r` has a place `pc[r]`: the bucket call it awaits, or where it is
otherwise. One awaited bucket call is one step, together with the code up to the
next await. What a method carries over an await is state: `buf[r]` (the copy of
the document), `lockId[r]`, `view[r]`, `newItem[r]` and `lockAge[r]` (what the
module was told), `after[r]` (where the request goes when the call returns, for
methods that are called from two places).

| Code | Actions |
|---|---|
| CreateUninitializedItemAsync | `Create` |
| GetItemAsync, GetItemExclusiveAsync, GetItemFromStoreAsync | `Get` (`GetNull`, `GetFound`), then `Lock` if exclusive |
| SetAndReleaseItemExclusiveAsync | `Set`, then `ReleaseGet` and `ReleasePut` |
| ReleaseItemExclusiveAsync | `ReleaseGet`, `ReleasePut` |
| ResetItemTimeoutAsync | `Touch` |
| RemoveItemAsync | `Remove` |
| SessionStateModule (external) | `Begin`, `Poll`, `ReaderEnds`, `SessionChanged`, `SessionUnchanged`, `SessionAbandoned` |
| bucket, clock, host (external) | `Expire`, `TimePasses`, `Crash` |

The SessionStateModule is not part of the repository. It is modelled from the
comments the providers carry (`Session/CouchbaseSessionStateProvider.cs:69-96`,
`197-203`, `229-240`, `362-384`): it polls while it is told that the item is
locked, first clearing a lock older than the ExecutionTimeout; a null item makes
a new session (`newItem`); a changed session is set and released and its timeout
reset, an unchanged one is released, an abandoned one removed. A read-only page
uses GetItem and ends without a call.

A bucket call answers `ok`, or fails in one of the ways in `Faults`: `lost` (not
applied) or `late` (applied, reported as failed). A failed Get is a result without a
value. A write that is applied still later, after the request has made further
calls, is not modelled.

### SessionStore and AsyncSessionStore

`SessionStore` says in one step each what the comments promise: a request acquires the
session with the data stored at that moment, a writer only when no other writer works on
it; it commits its change over exactly that data, abandons the session, or leaves.
`AsyncSessionStore` maps a request to `waiting` until the Get that found the session
unlocked or absent, to `working` until the Set or the Remove is applied, and to
`finished` from then on. `KeepsContract` says that each step of the provider is a step
of the contract or none.

### SyncSessionState

The synchronous provider holds the request's thread during a bucket call but not
the other requests, so the steps are the same size. Its methods differ:
GetItemExclusive writes back the value it read *unchanged* (`Lock` in the module
is that write), Set, Release and Remove first Get the document and compare lock
identifiers, and a null lock identifier or a null value is used unguarded
(`NullReference`). The fields Timeout, Expires and LockDate are left out: no branch
reads them. As `TypeOK` shows, no item is ever locked, so the module's clearing of
old locks never happens and is left out too. `changed` is a history variable: the
requests for which the module called SetAndReleaseItemExclusive.

### Keys

`PrefixIdentifier` and `CheckKey` differ in the separator only. Strings are
sequences of characters that are compared one by one. (`StartsWith` of .NET
compares by culture, where characters that are ignorable or equivalent may make
a difference; that is left out.) A null prefix behaves as the empty one does.
Identifiers that `PrefixIdentifier` refuses with an exception, because they are null
or blank, are left out.

### OutputCache

Calls that each perform one operation on one identifier; `Key` is its document.
The synchronous provider and the asynchronous one make the same bucket calls in
the same order, with the same answers, so one module stands for both; the map takes
some definitions from one file and some from the other. They differ in one point: the
asynchronous one replaces `DateTime.MaxValue` by an hour from now, and
`ReplacesMaxValue` says which of the two is meant. Null identifiers are left out.

| Code | Actions |
|---|---|
| CheckKey, the replacement of MaxValue, the expiration of Set | `Begin` |
| Get | `Get` |
| Add | `AddGet`, which computes the expiration after its Get failed, then `AddInsert` |
| Set, Remove | `Set`, `Remove` |
| bucket, clock (external) | `Evict`, `TimePasses` |

An entry is named by the call that brought it. `dies` is when the bucket drops it:
an expiration of zero or less makes the bucket keep it for ever, which is how
the SDK's TimeSpan is taken and an assumption of this model. `gone` and `delay` are
history variables: the entries that were overwritten, removed or dropped, and the
time that passed between the computation of an expiration and the write.

`AtomicCache` is what callers hope for: each call takes effect at one instant, and is
answered by what the cache held at that instant; a call that fails takes effect then or
never, and its caller is not told which; entries may vanish. `CallsAreAtomic` says that
each step of `OutputCache` is a step of it or none. For Add that is not obvious: it
makes two bucket calls, and the Get of an Add that goes on to Insert maps to no step
at all, so that the Insert alone must be worth the whole Add.

### MultiCluster

Each thread makes one call (`call`), and the cluster it brings is named by the
thread, so a cluster is added once. `lock` is `LockObj`; the places in `Locked` are
those inside it. A place stands for one awaited call, or for accesses to the
dictionaries that may be taken as one: `Buckets` is only touched by the holder of the
lock, and AddCluster and HasClusters, which do not take it, touch only `Clusters`.
So what Lookup, CloseOne and ClearAll do to `Buckets`, and the Dispose of CloseOne,
commutes with anything that may run in between, and the step stands at its access
to `Clusters`. A cluster that is added while the foreach of CloseAll runs is met by
it, as one added before `DisposeAll`, or not, as one added after.

| Code | Actions |
|---|---|
| AddCluster by the application | `AddCluster`, at any time |
| Bootstrap, ConfigureInline, ConfigureFromSection, ConfigureManually | `Begin`, `HasClusters`, then as below |
| lock statements | `Enter`; the last step of each call leaves the lock |
| Configure | `Connect`, `WaitUntilReady`, `Register` |
| GetBucket | `Lookup`, `Fetch` |
| CloseOne | `CloseOne` |
| CloseAll | `DisposeAll`, `ClearAll` |

`open` and `disposed` say what happened to a cluster; `removed` and `refused` are
history. Disposing of the bucket object itself is left out: its cluster is disposed of
in the same step. A bucket that was handed out before its cluster was closed stays with
its user, and nothing is claimed of it.

### RunSync

A request has a thread from `Begin` to its return, and its task has one while it
is `running`. `StartNew` queues the function to the pool, where it has no
synchronization context; `Await`, `Answer`, `Resume` and `Complete` take it through its
awaits; `GetResult` lets the request go on. `Locking` requests do this inside
MultiCluster's lock, which others wait for on threads of their own. ASP.NET's pool
grows slowly: it is modelled at its final size `MaxThreads`, which is assumed to be
more than the requests. That a pool of a size the requests use up starves is therefore
not shown, and nothing is said of how long a pool takes to grow: what is checked is
that, given threads, no circle of lock, context and blocked requests stops the rest.
The two sections in
which BootStrapper takes the lock are modelled as one, which holds it longer.

### BufferAllocator

One step per method, since each holds the lock throughout, except that
`ReleaseBuffer(SocketAsyncEventArgs)` clears its argument after it left the lock
(`ClearEventArgs`). Users in `EventArgs` use SetBuffer, the others GetBuffer. Every
sum and product wraps at the width of int (`Wrap`); `Accepts` is what
SocketAsyncEventArgs and IOBuffer check before they take a part of the block.
`MayMisuse` lets users release what they do not hold, and `misused` remembers
it. Nothing in the repository calls the allocator: it is a public class, checked for
any users.

## Runs

| Run | Instance | Shows |
|---|---|---|
| `AsyncInterleaved` | 2 writers, 1 reader, all interleaved; one redirected after CreateUninitializedItem; one may die; expiry at any time | `TypeOK`, `LockIdNeverDistinguishes`, `NewOnlyWithoutData`, `UninitializedExpires`, `OnlyCommittedData`, `LocksAccountedFor` |
| `AsyncFaults` | 3 requests one after another and a reader that overlaps them, every call may be lost or late, one may die, expiry at any time, no ThrowOnError | `NoLostUpdate`, `DoneMeansSaved` |
| `AsyncSerial` | 4 requests one after another, three may die, the server's clock one unit ahead of UTC | `KeepsContract`, `RequestsEnd` |
| `OutputCache` | 3 calls of any kind on 3 identifiers, two of which share a key, and one of which is blank; failures, eviction, a clock, no ThrowOnError | `TypeOK`, `AddersAgree`, `NoCrossTalk`, `EntriesExpire`, `AddNeverReplaces`, `CallsAreAtomic` |
| `SyncInterleaved` | 3 writers, 1 reader, interleaved, failures, expiry | `TypeOK`, `OnlyCommittedData` |
| `SyncSerial` | 3 requests one after another and a reader that overlaps them | `NoNullReference`, `GrowsOnceInitialized` |
| `Clusters` | 3 threads, 2 cluster names and 2 bucket names with a common concatenation, 9 kinds of call, failures at each step | `TypeOK`, `RegistryLive`, `FitsTheKey`, `StaleOnlyAfterCloseOne`, `NoClusterIsLost`, `BootstrapGivesBucket`, `CallsEnd` |
| `Buffers` | 4 users, ints of 5 bits, 9 pools: regular, of size 0, negative, and of products that overflow; double releases | `TypeOK`, `InsideTheBlock`, `NeverPartlyShared`, `Disjoint`, `NoneIsLost`, `NullOnlyIfExhausted` |
| `RunSync` | 4 requests, 2 of which take the lock, up to 2 calls of RunSync with up to 2 awaits each, 5 threads | `TypeOK`, `NeverStarved`, `RequestsReturn` |

Three runs end in a counterexample. Each checks one sentence of the repository
(PROJECT.json, `findings`, quotes it) that the code does not keep:

| Run | The code |
|---|---|
| `AsyncMutualExclusion` | two requests read the document unlocked before either locks it |
| `AsyncExpiry` | a request that leaves the session unchanged rewrites it without expiration |
| `SyncFirstWrite` | what the first request stores is not given to the second |

Other disagreements need no run, because the code alone shows them:

- The synchronous GetItemExclusive does not lock at all: `TypeOK` of `SyncSessionState`
  says so for every reachable state.
- GetItemExclusive should clear the stored flag once it has handed out InitializeItem
  (`Session/CouchbaseSessionStateProvider.cs:93-96`). Neither provider does: the
  asynchronous one upserts the copy with its flag
  (`Session/CouchbaseSessionStateProviderAsync.cs:126-135`; `Lock` changes `locked`
  only), so an entry that a request releases unchanged is announced as new again.
  `NewOnlyWithoutData` claims only the other half: what holds data is not announced as
  new.
- The age of a lock counts from the construction of the item, where the comment at
  `Session/CouchbaseSessionStateProvider.cs:80` counts it from the locking, because no
  method sets `LockDate`; accordingly, only `SessionStateItem` and `TimePasses` set
  `age`. So a lock may be old from the moment it is taken. With an ExecutionTimeout of
  0 and a reader that overlaps a writer, the reader clears the lock the writer holds,
  writes back the copy it read before the writer stored its change, and the change is
  lost: `NoLostUpdate` fails then, and the theorems about it exclude this
  (`LocksStayYoung`).
- With throwOnError, the release that ends the first request of a session has a null
  lock identifier and throws `InvalidOperationException("Success")`
  (`Session/CouchbaseSessionStateProviderAsync.cs:171`; `SameLockId` and `ReleaseGet`
  model it). The test `ReleaseItemExclusiveAsync_When_LockId_Is_Null_Do_Not_Throw_Exception`
  (`src/test/Couchbase.AspNet.UnitTests/CouchbaseSessionStateProviderAsyncTests.cs:34`)
  says by its name that it does not; it never awaits the call, and so cannot tell.
- An Add that loses a race returns null though the key is cached
  (`Caching/CouchbaseOutputCacheProvider.cs:118`, against its comment at 92-95;
  `AddInsert`).
- Two overlapping first requests of the synchronous provider end in a
  NullReferenceException even with throwOnError false
  (`Session/CouchbaseSessionStateProvider.cs:248`, against `src/README.md:109`; the
  place `NullReference`).
- A Get that fails in the synchronous ReleaseItemExclusive leaves a null value, which
  is used after the check of the lock identifier
  (`Session/CouchbaseSessionStateProvider.cs:211`, also against `src/README.md:109`; the
  same place). `NoNullReference` is checked where no call fails.
- `EntriesExpire` has a case for entries kept for ever: one whose utcExpiry has passed
  when it is stored never expires.

### Bounds

- `Requests`: two writers suffice for any race between two read-then-write
  sequences, the third request observes the result (a reader while writers race,
  more of them in turn when they are serial). Each request runs once; a request that
  polls calls GetItem any number of times.
- `MaxAge` caps `age`: above it, ages are not told apart. With `ExecutionTimeout`
  0 the ages 0 and 1 are a lock too young to clear and one old enough.
  In `AsyncFaults` it is 1, the cap, so that no lock gets old enough to be cleared
  by the reader that overlaps the writers; `AsyncInterleaved` and `AsyncSerial` clear
  old locks.
  `AgeCap` stands for the 31536000 seconds of the code; a lock older than that is
  not reached in the runs. `InitialAge` is the skew between local time and UTC:
  -1 in `AsyncSerial`, where it delays the clearing of a lock, 0 in the other
  runs, any integer in the proofs.
- `Timeout` is 1: only zero (no expiration) and non-zero are told apart.
- `Serial` is the set of requests the client sends one after another. `NoLostUpdate`,
  `DoneMeansSaved`, `KeepsContract`, `NoNullReference` and `GrowsOnceInitialized` need
  it to have every request that writes: since the lock excludes nobody
  (`AsyncMutualExclusion`), overlapping writers do lose updates. Readers may overlap
  them, and one does in `AsyncFaults` and `SyncSerial`. In `AsyncSerial` all requests are
  serial, which `RequestsEnd` needs.
- `ExpiryRaces = FALSE` in `AsyncSerial` means that a document does not expire between
  the two halves of one provider call, when the upsert would recreate it and the
  contract would not hold. The other passing runs let it happen.
- `MayExpire = "idle"` in `SyncSerial` means that the document expires only
  between requests.
- `OutputCache`: two calls make every race, the third observes it. The clock runs to
  `MaxTime = 2`: the lifetimes are 1 unit, so that an entry is stored, expires, and
  is seen to have expired; `MaxValue = 9` is a time beyond the clock. `ThrowOnError` is
  FALSE, because only then does a blank identifier reach the bucket and does a failed
  call return to its caller; the proofs take both values.
- `Clusters`: three threads are one that uses a cluster, one that closes it and one
  that opens it again; that is also the least number for which a stale bucket is handed
  out. A thread makes one call: a
  sequence of calls by one thread is a run in which several threads call in turn, and
  the proofs take any number of them.
- `LocksAccountedFor` is checked where no bucket call fails: a Set or a release that
  fails leaves the lock to the requests to come, like a crash, and with failures every
  lock could be put down to one.
- `Buffers`: `Half = 16`, so that products of small sizes overflow; `MaxFree = 4` bounds
  the stack only when buffers are released twice.
- `RunSync`: `MaxThreads` is one more than the requests. This is what `NeverStarved`
  needs: with as many threads as requests, requests that block take them all. So
  neither it nor `RequestsReturn` says anything of a pool that is exhausted.
- Deadlock is not checked: every run ends when its requests, calls or users have
  ended. That nobody waits for ever is `RequestsEnd`, `CallsEnd`, `NeverStarved` and
  `RequestsReturn`.

### Fairness

`FairSpec` is weakly fair to every started request's next step and to the clock. A
request's continuation runs on the thread pool, and every bucket call ends by its own
timeout, so a step that stays enabled is taken; time passes. No fairness is
assumed for `Begin`, `Expire` or `Crash`: clients, the bucket's expiry and recycling
owe nothing. `RequestsEnd` is stated for serial requests: two overlapping pollers
can write the lock back after each other's release, and the code has nothing
that prevents them from doing so for ever.

`MultiCluster` is weakly fair to each thread that has begun a call: the connection
attempt, WaitUntilReadyAsync and BucketAsync end by their timeouts. The lock needs no
strong fairness here, as each thread takes it at most twice. `RunSync` is weakly fair to
`Next` only: some thread of the pool goes on as long as one can.

## Proofs

The theorems hold for every value of the constants that the named assumptions allow: any
set of requests, any subsets of readers, creators and crashing requests, any failures,
both values of ThrowOnError, any integer ages; any calls, identifiers, prefixes and
expiries; any threads and names; any width of int and any sizes; any number of requests
and threads. The assumptions (`Constants`, `NoDocIsNoItem`, `NoItemsIsNoData`,
`NoIdIsNoId`, `NoBucketIsNoBucket`) say that the parameters have the right kind and that
the marker values are not documents, data, identifiers or buckets; TLC evaluates them in
every run. A theorem about requests that take turns has that as a hypothesis of its own.

`AsyncSessionProofs`:

- `TypeCorrect`: typing, with one lemma for the module's steps, one for the
  provider's and one for the clock. That only writers await the locking upsert
  is part of it, for later proofs need it.
- A step is then described once by what it does to the document and to the
  copies (`HowTheStoreMoves`): the document stays, goes, is created, is written
  from `Written` or from a copy, and copies are taken from the document. The
  invariants about the document's contents follow from this description:
  `LockIdsAreZero` and `NewIsWithoutData` (inductive as they stand), and
  `OnlyCommittedIsSeen`.
- `PhasesHold` relates a request's place to what it was told. It is the
  strengthening the next proof needs: `LocksAccountedFor` alone is not inductive,
  because a releasing request could have a null lock identifier and skip the upsert.
- `LocksAreAccountedFor`, if no call fails: a locked document is locked by a writer (`WhoLocks`),
  and a request that answers for the lock goes on answering until it unlocks
  (`UnlockerGoesOn`); that its release finds its own lock identifier is
  `LockIdsAreZero`.
- `UninitializedDocumentsExpire`: strengthened with the fact that every
  uninitialized document, and every such copy that may be written back, carries a
  non-zero Timeout, which is what the rewrite restores the expiration from.

- `NoUpdateIsLost` and `DoneIsSaved`, for any failures, crashes and expiry, if the
  client sends the requests that write one after another (`OneWriterAtATime`). Any
  number of readers may overlap them, if the session exists when they come and no lock
  gets older than the ExecutionTimeout (`LocksStayYoung`; without overlap it may). The
  invariant `Turns` says that at most one serial request is active and that the others
  are only `Looking`; `LookingOn` shows that those leave the document alone. `InTurn`
  says that what the active request holds fits the document: a copy that is about to be
  written back holds all the data of the document, as does the view of a handler, and
  after a Set that succeeded the document holds the request's change.
- `ContractIsKept`, if moreover no call fails and no document expires between the two
  halves of a call (`FaultFree`), with crashes and overlapping readers: `RolesHold` says
  which requests the contract takes to be at work, and `ContractMove` is one step of the
  contract written out. `ModuleMove` and `ProviderMove` map each action to such a step
  or to a stutter, and `MovesAreSteps` leads back to the contract's own `Next`.
- `WritersAreIsolated` then applies the contract's theorem `WritersSeeTheSession` to the
  provider, through the mapping: while the application works on a session it took to
  change it, the bucket holds what it was given, unless the document expired.

`OutputCacheProofs`: `TypeCorrect`, `AddNeverReplacesAnEntry` (from the typing alone:
the only step that replaces an entry is `Set`), `AddersAgreeAlways`, which needs that a
cached entry is cached under its own key and the history `gone`; `NoCrossTalkAlways`,
from that and from `OnlyAPrefixedIdentifierCollides` of `KeysProofs`; and
`EntriesExpireInTime`, from `Timely`: while a write is under way, `expiration + now =
utcExpiry + delay`, and an entry in the cache is dropped at most `delay` after its
`utcExpiry`. `CallsAreAtomicAlways` is the refinement of `AtomicCache`: `CallMoves` maps
each action of a call to `AtomicMove`, one step of the abstract cache written out, or to
a stutter. What it needs from `TypeOK` is that a call is where its operation leads.

`KeysProofs`: `KeysStartWithThePrefix`, `PrefixingIsIdempotent` and
`OnlyAPrefixedIdentifierCollides`, for any prefix and identifiers, from the library's
facts about concatenation.

`MultiClusterProofs`: `TypeCorrect` includes mutual exclusion in the lock. The other
invariants rest on `Registry`: a registered cluster `Belongs` to its name, is open, and
is that of a thread past its registration; a thread `OnItsWay` has a cluster that is not
disposed of. `RegistryLive` alone is not inductive, because a thread could register a
cluster that was closed already. `BucketsFitTheirKeys` follows a name from the
dictionary through `found` to the cached bucket; `NamesOfOneLengthAreNotConfused` draws
from it, and from cancellation in sequences, when the shared cache is harmless.
Of `CallsEnd`, two halves are proved. `CallsAreBounded`: `Rank` falls with every step of a
thread and is changed by no other's, so a call has at most nine steps. `SomebodyGoesOn`:
while a call is under way, some thread has what its next step needs (`CanGoOn`), because
the holder of the lock never waits. What remains is that fair threads do take these
steps, and that a thread is not overtaken at the lock for ever; since the others'
calls are bounded too, TLC finds that it is not.

`BufferAllocatorProofs`: `TypeCorrect`, whose second half is `Places`: every offset
on the stack or at a user, stale ones included, is 0 or that of a buffer below
`currentIndex`, and `currentIndex` is inside the block, so that neither the sum which
advances it nor the one IOBuffer checks wraps. `BuffersAreInside` follows.
`BuffersAreWhole`, from `Whole`: every offset is a multiple of the buffer size, and two
multiples are equal or a buffer apart; a released offset is one of those, however often
it comes back. `BuffersAreDisjoint`, from `Separated`: as long as nobody released
twice, the buffers that are held or free are pairwise apart and below `currentIndex`;
`NoBufferIsLost` and `RefusedOnlyIfExhausted`, from these and from counting the holders.

`RunSyncProofs`: `NobodyStarves`, from an inductive invariant that adds to the typing
that no task runs in its request's context, that a request which has yet to call RunSync
has calls left, and that the holder of the lock is inside it. If nobody could go on,
every request on a thread would be blocked or wait for the lock, no task would be on a
thread, and with more threads than requests one would be free. `StepsAreBounded`: `Rank`
counts the calls of RunSync that are left, the awaits of the one under way and the place
in it, and each step lowers that of its request and no other's. With `NobodyStarves` it
is what `RequestsReturn` rests on.

`SessionStoreProofs`: `WritersSeeTheSession` and `NoStoredChangeIsLost`, from the
invariant that one writer works at a time; without it a second writer could commit
under the first. These say that the contract is worth keeping; that the provider
keeps it is what `AsyncSerial` checks and `ContractIsKept` proves.

`SyncSessionProofs`: `TypeCorrect`, which includes that no item is ever locked. It is
not inductive: a request about to write without a copy would store a malformed
item, one whose lock identifier is null would store that, and an initialized item
without data would give a request no data. `IInv` adds that every item stored or
copied is `Sound` (not locked, identifier 0, with data once initialized), that a
request about to write back has a copy, and that one about to set or release was
given identifier 0. One lemma per kind of step (a bucket write, the module, Get,
SetAndRelease's Get, the rest) shows that it stays. `OnlyCommittedIsSeen` rests on
`IInv` and on `Changing`: a request stores its change only after the module
reported it. `HowDataMoves` describes each step by the data it stores.

`InitializedSessionsGrow` holds for writers that take turns, whatever calls fail, whenever
the document expires, and with any readers, those that create it included
(`WritersTakeTurns`): `Trusts` says that while the session is initialized, the copy and
the view of a writer are those of the document, and `ReadersInitializeNothing` that a
reader can only put an uninitialized document in place of none. `NothingNullIsUsed` needs
that nothing disturbs a request (`Undisturbed`): no failing call, no expiry during
a request, no overlap but of readers that find the session there. `SerialInv` says that at
most one serial request is active, and what that one knows of the document (`Knows`);
`ProviderTells` and `ModuleTells` follow it through the steps.

Only model-checked: the liveness properties `RequestsEnd`, `CallsEnd` and
`RequestsReturn`, since the prover cannot reason about fairness and ENABLED (what is
proved towards the last two is said above), and the three violations.

## Not modelled

- Client configuration: property bags, of which only the servers and the
  authenticator reach the cluster. The pool configuration that its constructors
  share between buckets, and its change flags, are read by nothing.
- Configuration section elements and authentication classes: property bags.
- Serialization beyond its failing, which is a failed Get.
- Utilities on arrays, strings and URIs: pure, and no state depends on them.
  `ProviderHelper` appears as a strategy that may throw; its CreateCluster and
  GetBucket are called by nothing.
- `BucketExtensions.ShouldRetry` is called by nothing, and which exception becomes
  which status matters only for KeyNotFound.
- The examples.

## Plan

The modules above are done. What could be added:

1. Locks older than `AgeCap`, for which `RequestsEnd` fails.
2. Writes that the bucket applies after a later call of the same request.
3. Several calls per thread in `MultiCluster`, and clusters that the application
   hands over twice.
4. An abstract pool of buffers that `BufferAllocator` implements.
