------------------------- MODULE AsyncSessionState -------------------------
(***************************************************************************)
(* CouchbaseSessionStateProviderAsync: one session document in the bucket  *)
(* and the web requests that read and write it.  Every awaited bucket call *)
(* is one atomic step, so a provider method that awaits twice is two steps *)
(* with a copy of the document (buf) carried from the first to the second. *)
(* The SessionStateModule that drives the provider is external: it is      *)
(* modelled as the comments of the session providers describe it.          *)
(*                                                                         *)
(* Session data is the set of the requests whose changes it holds.         *)
(***************************************************************************)
EXTENDS Integers

CONSTANTS
  Requests,          \* web requests of one session
  Readers,           \* those of read-only pages: GetItemAsync, never a lock
  Creators,          \* those redirected after CreateUninitializedItemAsync
  Serial,            \* those the client never sends at the same time
  MayCrash,          \* those whose worker process may be recycled
  Faults,            \* how a bucket call may fail: "lost", "late" (applied)
  ExpiryRaces,       \* the document may expire between a Get and its Upsert
  ThrowOnError,      \* the provider setting
  InitialAge,        \* UtcNow - LockDate of an item constructed just now
  ExecutionTimeout,  \* of the SessionStateModule, in the unit of the ages
  AgeCap,            \* the 31536000 seconds of GetItemFromStoreAsync
  MaxAge,            \* bound: ages above it are not told apart
  NoDoc, NoItems, NoId

VARIABLES
  doc,      \* the SessionStateItem under the session's key, or NoDoc
  expiry,   \* expiry the document was last written with (0: none)
  pc,       \* the bucket call a request awaits, or where the request is
  buf,      \* the copy of the document its provider call works on
  view,     \* the session data the request was given
  lockId,   \* the lock identifier it was given, NoId for null
  newItem,  \* the module's newItem argument: no item was found
  lockAge,  \* the lock age it was last told
  after,    \* where the request goes when the provider call returns
  logged    \* LogAndOrThrow has logged an error for the request

store == <<doc, expiry>>
given == <<view, lockId, newItem>>
vars == <<doc, expiry, pc, buf, view, lockId, newItem, lockAge, after, logged>>

-----------------------------------------------------------------------------
Writers == Requests \ Readers
Timeout == 1                           \* any non-zero expiry
Ages == InitialAge..MaxAge
Data == SUBSET Requests

Item == [items : {NoItems} \cup Data, actions : {"InitializeItem", "None"},
         locked : BOOLEAN, lockId : Nat, timeout : {0, Timeout}, age : Ages]

\* What the constructor sets; every other property has its CLR default.
SessionStateItem ==
  [items |-> NoItems, actions |-> "InitializeItem", locked |-> FALSE,
   lockId |-> 0, timeout |-> 0, age |-> InitialAge]

ASSUME Constants ==
  /\ Readers \subseteq Requests
  /\ Creators \subseteq Requests
  /\ Serial \subseteq Requests
  /\ MayCrash \subseteq Requests
  /\ Faults \subseteq {"lost", "late"}
  /\ ExpiryRaces \in BOOLEAN /\ ThrowOnError \in BOOLEAN
  /\ InitialAge \in Int /\ MaxAge \in Int /\ InitialAge <= MaxAge
  /\ ExecutionTimeout \in Int /\ AgeCap \in Int

ASSUME NoDocIsNoItem == NoDoc \notin Item
ASSUME NoItemsIsNoData == \A data \in Data : data # NoItems
ASSUME NoIdIsNoId == NoId \notin Nat

Resting == {"Idle", "Done", "Failed", "Crashed"}
Places == Resting \cup {"Create", "Get", "Lock", "Poll", "Handler", "Set",
                        "ReleaseGet", "ReleasePut", "Touch", "Remove"}

Active(r) == pc[r] \notin Resting

\* Between its Get and its Upsert a provider call works on its own copy.
HasCopy(r) == pc[r] \in {"Lock", "ReleasePut"}
Forget(r) == buf' = [buf EXCEPT ![r] = SessionStateItem]

Init ==
  /\ doc = NoDoc
  /\ expiry = 0
  /\ pc = [r \in Requests |-> "Idle"]
  /\ buf = [r \in Requests |-> SessionStateItem]
  /\ view = [r \in Requests |-> {}]
  /\ lockId = [r \in Requests |-> NoId]
  /\ newItem = [r \in Requests |-> FALSE]
  /\ lockAge = [r \in Requests |-> 0]
  /\ after = [r \in Requests |-> "Done"]
  /\ logged = [r \in Requests |-> FALSE]

-----------------------------------------------------------------------------
(* Answers of the bucket, and what the provider does with a failed one.    *)

Outcomes == {"ok"} \cup Faults

Write(outcome, item, ttl) ==
  IF outcome = "lost" THEN UNCHANGED store ELSE doc' = item /\ expiry' = ttl

Goto(r, place) == pc' = [pc EXCEPT ![r] = place] /\ UNCHANGED logged

LogAndOrThrow(r, place) ==
  /\ logged' = [logged EXCEPT ![r] = TRUE]
  /\ pc' = [pc EXCEPT ![r] = IF ThrowOnError THEN "Failed" ELSE place]

Answer(r, success, place) ==
  IF success THEN Goto(r, place) ELSE LogAndOrThrow(r, place)

-----------------------------------------------------------------------------
(* The SessionStateModule and the application (external).                  *)

Begin(r) ==
  /\ pc[r] = "Idle"
  /\ r \in Serial => \A q \in Serial : ~Active(q)
  /\ Goto(r, IF r \in Creators THEN "Create" ELSE "Get")
  /\ UNCHANGED <<store, buf, given, lockAge, after>>

\* Told that the item is locked: ask again, or first clear an old lock.
Poll(r) ==
  /\ pc[r] = "Poll"
  /\ IF lockAge[r] > ExecutionTimeout
       THEN Goto(r, "ReleaseGet") /\ after' = [after EXCEPT ![r] = "Get"]
       ELSE Goto(r, "Get") /\ UNCHANGED after
  /\ lockAge' = [lockAge EXCEPT ![r] = 0]
  /\ UNCHANGED <<store, buf, given>>

ReaderEnds(r) ==
  /\ pc[r] = "Handler" /\ r \in Readers
  /\ Goto(r, "Done")
  /\ UNCHANGED <<store, buf, given, lockAge, after>>

SessionChanged(r) ==
  /\ pc[r] = "Handler" /\ r \in Writers
  /\ Goto(r, "Set")
  /\ after' = [after EXCEPT ![r] = "Touch"]
  /\ UNCHANGED <<store, buf, given, lockAge>>

SessionUnchanged(r) ==
  /\ pc[r] = "Handler" /\ r \in Writers /\ ~newItem[r]
  /\ Goto(r, "ReleaseGet")
  /\ after' = [after EXCEPT ![r] = "Done"]
  /\ UNCHANGED <<store, buf, given, lockAge>>

SessionAbandoned(r) ==
  /\ pc[r] = "Handler" /\ r \in Writers
  /\ Goto(r, "Remove")
  /\ UNCHANGED <<store, buf, given, lockAge, after>>

-----------------------------------------------------------------------------
(* CreateUninitializedItemAsync                                            *)

\* Mutant: the Timeout of the uninitialized item, and the expiry, are not set.
CreatedNoTimeout == SessionStateItem

Created == [SessionStateItem EXCEPT !.timeout = Timeout]

Create(r) ==
  /\ pc[r] = "Create"
  /\ \E outcome \in Outcomes :
       IF doc = NoDoc
         THEN Write(outcome, Created, Created.timeout)
              /\ Answer(r, outcome = "ok", "Get")
         ELSE UNCHANGED store /\ LogAndOrThrow(r, "Get")
  /\ UNCHANGED <<buf, given, lockAge, after>>

(* GetItemFromStoreAsync, up to its first await and from its second.       *)

\* KeyNotFound, and any failed Get, give the module a null result.
GetNull(r) ==
  /\ doc = NoDoc \/ Faults # {}
  /\ Goto(r, "Handler")
  /\ view' = [view EXCEPT ![r] = {}]
  /\ lockId' = [lockId EXCEPT ![r] = NoId]
  /\ newItem' = [newItem EXCEPT ![r] = TRUE]
  /\ UNCHANGED <<store, buf, lockAge, after>>

Deserialize(items) == IF items = NoItems THEN {} ELSE items

\* Mutant: the cap on the lock age is tested the wrong way round.
ReportedAgeReversed(item) == IF item.age > AgeCap THEN item.age ELSE 0

ReportedAge(item) == IF item.age > AgeCap THEN 0 ELSE item.age

\* Mutant: GetItemAsync locks the item too.
ExclusiveAlways(r) == TRUE

Exclusive(r) == r \notin Readers

GetFound(r) ==
  /\ doc # NoDoc
  /\ LET place == IF doc.locked THEN "Poll" ELSE "Handler"
     IN  /\ Goto(r, IF Exclusive(r) THEN "Lock" ELSE place)
         /\ after' = [after EXCEPT ![r] = place]
  /\ lockAge' = [lockAge EXCEPT ![r] = IF doc.locked THEN ReportedAge(doc) ELSE 0]
  /\ view' = [view EXCEPT ![r] = IF doc.locked THEN {} ELSE Deserialize(doc.items)]
  /\ lockId' = [lockId EXCEPT ![r] = doc.lockId]
  /\ newItem' = [newItem EXCEPT ![r] = FALSE]
  /\ IF Exclusive(r) THEN buf' = [buf EXCEPT ![r] = doc] ELSE UNCHANGED buf
  /\ UNCHANGED store

Get(r) == pc[r] = "Get" /\ (GetNull(r) \/ GetFound(r))

\* The second half of a provider call: write the copy back and return.
Rewrite(r, item) ==
  /\ \E outcome \in Outcomes :
       /\ Write(outcome, item, item.timeout)
       /\ Answer(r, outcome = "ok", after[r])
  /\ Forget(r)
  /\ UNCHANGED <<given, lockAge, after>>

\* Mutant: each lock gets a new identifier.
LockNumbered(r) ==
  pc[r] = "Lock" /\ Rewrite(r, [buf[r] EXCEPT !.locked = TRUE, !.lockId = @ + 1])

\* Mutant: the locking upsert writes a fresh item, as SetAndRelease does.
LockFresh(r) ==
  pc[r] = "Lock" /\ Rewrite(r, [SessionStateItem EXCEPT !.locked = TRUE])

Lock(r) == pc[r] = "Lock" /\ Rewrite(r, [buf[r] EXCEPT !.locked = TRUE])

-----------------------------------------------------------------------------
(* SetAndReleaseItemExclusiveAsync, then ReleaseItemExclusiveAsync          *)

\* Mutant: Actions keeps the value the constructor sets.
WrittenUninitialized(r) ==
  [SessionStateItem EXCEPT
     !.lockId = IF lockId[r] = NoId THEN 0 ELSE lockId[r],
     !.items = view[r] \cup {r}]

Written(r) ==
  [SessionStateItem EXCEPT
     !.actions = "None",
     !.lockId = IF lockId[r] = NoId THEN 0 ELSE lockId[r],
     !.items = view[r] \cup {r}]

\* Mutant: the success of the insert or upsert is not tested.
SetUnchecked(r) ==
  /\ pc[r] = "Set"
  /\ \E outcome \in Outcomes :
       IF newItem[r] /\ doc # NoDoc THEN UNCHANGED store
                                    ELSE Write(outcome, Written(r), Timeout)
  /\ Goto(r, "ReleaseGet")
  /\ UNCHANGED <<buf, given, lockAge, after>>

Set(r) ==
  /\ pc[r] = "Set"
  /\ \E outcome \in Outcomes :
       IF newItem[r] /\ doc # NoDoc
         THEN UNCHANGED store /\ LogAndOrThrow(r, "ReleaseGet")
         ELSE /\ Write(outcome, Written(r), Timeout)
              /\ Answer(r, outcome = "ok", "ReleaseGet")
  /\ UNCHANGED <<buf, given, lockAge, after>>

SameLockId(r) == doc # NoDoc /\ lockId[r] # NoId /\ lockId[r] = doc.lockId

ReleaseGet(r) ==
  /\ pc[r] = "ReleaseGet"
  /\ \/ /\ SameLockId(r)
        /\ buf' = [buf EXCEPT ![r] = doc]
        /\ Goto(r, "ReleasePut")
     \/ /\ ~SameLockId(r) \/ Faults # {}
        /\ LogAndOrThrow(r, after[r])
        /\ UNCHANGED buf
  /\ UNCHANGED <<store, given, lockAge, after>>

\* Mutant: the release does not clear Locked.
ReleasePutLocked(r) == pc[r] = "ReleasePut" /\ Rewrite(r, buf[r])

\* Mutant: the release also stores what the request did to the session.
ReleasePutSaves(r) ==
  /\ pc[r] = "ReleasePut"
  /\ Rewrite(r, [buf[r] EXCEPT !.locked = FALSE, !.items = view[r] \cup {r}])

ReleasePut(r) ==
  /\ pc[r] = "ReleasePut"
  /\ Rewrite(r, [buf[r] EXCEPT !.locked = FALSE, !.lockId = 0])

(* ResetItemTimeoutAsync and RemoveItemAsync                                *)

Touch(r) ==
  /\ pc[r] = "Touch"
  /\ \E outcome \in Outcomes :
       IF doc = NoDoc
         THEN UNCHANGED store /\ LogAndOrThrow(r, "Done")
         ELSE Write(outcome, doc, Timeout) /\ Answer(r, outcome = "ok", "Done")
  /\ UNCHANGED <<buf, given, lockAge, after>>

Remove(r) ==
  /\ pc[r] = "Remove"
  /\ \E outcome \in Outcomes :
       IF doc = NoDoc
         THEN UNCHANGED store /\ LogAndOrThrow(r, "Done")
         ELSE Write(outcome, NoDoc, 0) /\ Answer(r, outcome = "ok", "Done")
  /\ UNCHANGED <<buf, given, lockAge, after>>

-----------------------------------------------------------------------------
(* The bucket expires a document, time passes, a worker process dies.      *)

Expire ==
  /\ doc # NoDoc /\ expiry # 0
  /\ ExpiryRaces \/ \A r \in Requests : ~HasCopy(r)
  /\ doc' = NoDoc /\ expiry' = 0
  /\ UNCHANGED <<pc, buf, given, lockAge, after, logged>>

Younger(item) == item.age < MaxAge
Older(item) == IF Younger(item) THEN [item EXCEPT !.age = @ + 1] ELSE item

TimePasses ==
  /\ (doc # NoDoc /\ Younger(doc))
     \/ \E r \in Requests : HasCopy(r) /\ Younger(buf[r])
  /\ doc' = IF doc = NoDoc THEN NoDoc ELSE Older(doc)
  /\ buf' = [r \in Requests |-> IF HasCopy(r) THEN Older(buf[r]) ELSE buf[r]]
  /\ UNCHANGED <<expiry, pc, given, lockAge, after, logged>>

Crash(r) ==
  /\ r \in MayCrash /\ Active(r)
  /\ Goto(r, "Crashed")
  /\ Forget(r)
  /\ UNCHANGED <<store, given, lockAge, after>>

-----------------------------------------------------------------------------
Module(r) ==
  \/ Poll(r) \/ ReaderEnds(r)
  \/ SessionChanged(r) \/ SessionUnchanged(r) \/ SessionAbandoned(r)

Provider(r) ==
  \/ Create(r) \/ Get(r) \/ Lock(r) \/ Set(r)
  \/ ReleaseGet(r) \/ ReleasePut(r) \/ Touch(r) \/ Remove(r)

Step(r) == Module(r) \/ Provider(r)

Next ==
  \/ \E r \in Requests : Begin(r) \/ Step(r) \/ Crash(r)
  \/ Expire \/ TimePasses

Spec == Init /\ [][Next]_vars

\* A started request is never suspended for ever and the clock runs.
Fairness == WF_vars(TimePasses) /\ \A r \in Requests : WF_vars(Step(r))

FairSpec == Spec /\ Fairness
=============================================================================
