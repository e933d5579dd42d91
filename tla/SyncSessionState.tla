-------------------------- MODULE SyncSessionState --------------------------
(***************************************************************************)
(* CouchbaseSessionStateProvider, the synchronous session-state provider:  *)
(* one session document and the web requests that use it.  A bucket call   *)
(* blocks its request but not the others, so each call is one step.  As in *)
(* AsyncSessionState the module that drives the provider is external and   *)
(* session data is the set of the requests whose changes it holds.         *)
(***************************************************************************)
EXTENDS Naturals

CONSTANTS
  Requests, Readers, Creators, Serial,  \* as in AsyncSessionState
  Faults,        \* how a bucket call may fail: "lost", "late" (applied)
  MayExpire,     \* the document may expire: "never", "idle" or "always"
  ThrowOnError,  \* the provider setting
  NoDoc, NoItems, NoId

VARIABLES
  doc,      \* the SessionStateItem under the session's key, or NoDoc
  pc,       \* the bucket call a request is about to make, or where it is
  buf,      \* the copy a provider call works on, NoDoc for null
  view,     \* the session data the request was given
  lockId,   \* the lock identifier it was given, NoId for null
  newItem,  \* the module's newItem argument: no item was found
  changed   \* history: the requests that called SetAndReleaseItemExclusive

given == <<view, lockId, newItem, changed>>
vars == <<doc, pc, buf, view, lockId, newItem, changed>>

Data == SUBSET Requests
Item == [items : {NoItems} \cup Data, actions : {"InitializeItem", "None"},
         locked : BOOLEAN, lockId : Nat]

\* What the constructor sets; every other property has its CLR default.
SessionStateItem ==
  [items |-> NoItems, actions |-> "InitializeItem", locked |-> FALSE, lockId |-> 0]

ASSUME Constants ==
  /\ Readers \subseteq Requests /\ Creators \subseteq Requests
  /\ Serial \subseteq Requests /\ Faults \subseteq {"lost", "late"}
  /\ MayExpire \in {"never", "idle", "always"} /\ ThrowOnError \in BOOLEAN
  /\ NoId \notin Nat /\ \A data \in Data : data # NoItems

Resting == {"Idle", "Done", "Failed", "NullReference"}
Places == Resting \cup {"Create", "Get", "Lock", "Handler", "SetGet", "SetInsert",
  "SetPut", "ReleaseGet", "ReleasePut", "RemoveGet", "Remove", "TouchGet", "TouchPut"}
Active(r) == pc[r] \notin Resting

Init ==
  /\ doc = NoDoc
  /\ pc = [r \in Requests |-> "Idle"]
  /\ buf = [r \in Requests |-> NoDoc]
  /\ view = [r \in Requests |-> {}]
  /\ lockId = [r \in Requests |-> NoId]
  /\ newItem = [r \in Requests |-> FALSE]
  /\ changed = {}

-----------------------------------------------------------------------------
Goto(r, place) == pc' = [pc EXCEPT ![r] = place]

LogAndOrThrow(r, place) == Goto(r, IF ThrowOnError THEN "Failed" ELSE place)

\* A write answers "ok", or fails with or without having been applied.
Write(r, item, place) ==
  /\ \E outcome \in {"ok"} \cup Faults :
       /\ doc' = IF outcome = "lost" THEN doc ELSE item
       /\ IF outcome = "ok" THEN Goto(r, place) ELSE LogAndOrThrow(r, place)
  /\ buf' = [buf EXCEPT ![r] = NoDoc]
  /\ UNCHANGED given

\* The first half of most methods: get the document, work on the copy.
Read(r, place) ==
  /\ doc # NoDoc
  /\ buf' = [buf EXCEPT ![r] = doc]
  /\ Goto(r, place)
  /\ UNCHANGED <<doc, given>>

Stay(r, place) == Goto(r, place) /\ UNCHANGED <<doc, buf, given>>

\* A Get that is not a success leaves a null value.
Missing == doc = NoDoc \/ Faults # {}

-----------------------------------------------------------------------------
(* The SessionStateModule and the application (external).                  *)

Begin(r) ==
  /\ pc[r] = "Idle"
  /\ r \in Serial => \A q \in Serial : ~Active(q)
  /\ Stay(r, IF r \in Creators THEN "Create" ELSE "Get")

ReaderEnds(r) == pc[r] = "Handler" /\ r \in Readers /\ Stay(r, "Done")

SessionChanged(r) ==
  /\ pc[r] = "Handler" /\ r \notin Readers
  /\ Goto(r, "SetGet")
  /\ changed' = changed \cup {r}
  /\ UNCHANGED <<doc, buf, view, lockId, newItem>>

SessionUnchanged(r) ==
  pc[r] = "Handler" /\ r \notin Readers /\ ~newItem[r] /\ Stay(r, "ReleaseGet")

SessionAbandoned(r) ==
  pc[r] = "Handler" /\ r \notin Readers /\ Stay(r, "RemoveGet")

-----------------------------------------------------------------------------
(* CreateUninitializedItem and GetSessionStoreItem                         *)

Create(r) ==
  /\ pc[r] = "Create"
  /\ \/ doc = NoDoc /\ Write(r, SessionStateItem, "Get")
     \/ doc # NoDoc /\ LogAndOrThrow(r, "Get") /\ UNCHANGED <<doc, buf, given>>

\* Mutant: a missing session is answered with an empty item instead of null.
GetNullAsEmpty(r) ==
  /\ pc[r] = "Get" /\ Missing
  /\ Goto(r, "Handler")
  /\ view' = [view EXCEPT ![r] = {}]
  /\ lockId' = [lockId EXCEPT ![r] = 0]
  /\ newItem' = [newItem EXCEPT ![r] = FALSE]
  /\ UNCHANGED <<doc, buf, changed>>

GetNull(r) ==
  /\ pc[r] = "Get" /\ Missing
  /\ Goto(r, "Handler")
  /\ view' = [view EXCEPT ![r] = {}]
  /\ lockId' = [lockId EXCEPT ![r] = NoId]
  /\ newItem' = [newItem EXCEPT ![r] = TRUE]
  /\ UNCHANGED <<doc, buf, changed>>

\* Mutant: the test of Actions is dropped, every item is taken for a new one.
SessionDataNew(item) == {}

\* An item marked InitializeItem is answered with a new, empty store.
SessionData(item) ==
  IF item.actions = "InitializeItem" THEN {} ELSE item.items

\* The module asks again if it is told that the item is locked.
Given(item) == IF item.locked THEN "Get" ELSE "Handler"

GetFound(r) ==
  /\ pc[r] = "Get" /\ doc # NoDoc
  /\ view' = [view EXCEPT ![r] = IF doc.locked THEN {} ELSE SessionData(doc)]
  /\ lockId' = [lockId EXCEPT ![r] = doc.lockId]
  /\ newItem' = [newItem EXCEPT ![r] = FALSE]
  /\ IF r \in Readers
       THEN Goto(r, Given(doc)) /\ UNCHANGED buf
       ELSE Goto(r, "Lock") /\ buf' = [buf EXCEPT ![r] = doc]
  /\ UNCHANGED <<doc, changed>>

\* Mutant: the item is marked as locked before it is written back.
LockLocks(r) ==
  pc[r] = "Lock" /\ Write(r, [buf[r] EXCEPT !.locked = TRUE], Given(buf[r]))

\* GetItemExclusive writes back the very value it read.
Lock(r) == pc[r] = "Lock" /\ Write(r, buf[r], Given(buf[r]))

-----------------------------------------------------------------------------
(* SetAndReleaseItemExclusive.  Casting a null lockId to uint, or using the *)
(* null value of a Get that failed, throws whatever ThrowOnError says.      *)

SetGet(r) ==
  /\ pc[r] = "SetGet"
  /\ \/ doc # NoDoc /\ lockId[r] = NoId /\ Stay(r, "NullReference")
     \/ /\ doc # NoDoc /\ lockId[r] # NoId /\ ~newItem[r]
        /\ IF lockId[r] = doc.lockId THEN Read(r, "SetPut") ELSE Stay(r, "TouchGet")
     \/ Missing /\ Stay(r, IF newItem[r] THEN "SetInsert" ELSE "NullReference")

SetInsert(r) ==
  /\ pc[r] = "SetInsert"
  /\ \/ /\ doc = NoDoc
        /\ Write(r, [SessionStateItem EXCEPT !.items = view[r] \cup {r}], "TouchGet")
     \/ /\ doc # NoDoc
        /\ LogAndOrThrow(r, "TouchGet") /\ UNCHANGED <<doc, buf, given>>

Updated(r) ==
  [buf[r] EXCEPT !.items = view[r] \cup {r}, !.actions = "None",
                 !.locked = FALSE, !.lockId = lockId[r]]

SetPut(r) == pc[r] = "SetPut" /\ Write(r, Updated(r), "TouchGet")

(* ReleaseItemExclusive, RemoveItem and ResetItemTimeout                    *)

ReleaseGet(r) ==
  /\ pc[r] = "ReleaseGet"
  /\ \/ Missing /\ Stay(r, "NullReference")
     \/ /\ doc # NoDoc
        /\ IF lockId[r] = doc.lockId
             THEN Read(r, "ReleasePut")
             ELSE Stay(r, IF lockId[r] = NoId THEN "NullReference" ELSE "Done")

\* Mutant: the release also stores what the request did to the session.
ReleasedWithData(r) ==
  [buf[r] EXCEPT !.items = view[r] \cup {r}, !.locked = FALSE, !.lockId = lockId[r]]

Released(r) == [buf[r] EXCEPT !.locked = FALSE, !.lockId = lockId[r]]

ReleasePut(r) == pc[r] = "ReleasePut" /\ Write(r, Released(r), "Done")

RemoveGet(r) ==
  /\ pc[r] = "RemoveGet"
  /\ \/ doc # NoDoc /\ lockId[r] = NoId /\ Stay(r, "NullReference")
     \/ /\ doc # NoDoc /\ lockId[r] # NoId
        /\ Stay(r, IF lockId[r] = doc.lockId THEN "Remove" ELSE "Done")
     \/ Missing /\ LogAndOrThrow(r, "Done") /\ UNCHANGED <<doc, buf, given>>

Remove(r) ==
  /\ pc[r] = "Remove"
  /\ \/ doc # NoDoc /\ Write(r, NoDoc, "Done")
     \/ doc = NoDoc /\ LogAndOrThrow(r, "Done") /\ UNCHANGED <<doc, buf, given>>

TouchGet(r) ==
  /\ pc[r] = "TouchGet"
  /\ \/ Read(r, "TouchPut")
     \/ Missing /\ LogAndOrThrow(r, "Done") /\ UNCHANGED <<doc, buf, given>>

TouchPut(r) == pc[r] = "TouchPut" /\ Write(r, buf[r], "Done")

-----------------------------------------------------------------------------
Expire ==
  /\ doc # NoDoc /\ MayExpire # "never"
  /\ MayExpire = "idle" => \A r \in Requests : ~Active(r)
  /\ doc' = NoDoc
  /\ UNCHANGED <<pc, buf, given>>

Module(r) ==
  \/ Begin(r) \/ ReaderEnds(r)
  \/ SessionChanged(r) \/ SessionUnchanged(r) \/ SessionAbandoned(r)

Provider(r) ==
  \/ Create(r) \/ GetNull(r) \/ GetFound(r) \/ Lock(r)
  \/ SetGet(r) \/ SetInsert(r) \/ SetPut(r) \/ ReleaseGet(r) \/ ReleasePut(r)
  \/ RemoveGet(r) \/ Remove(r) \/ TouchGet(r) \/ TouchPut(r)

Next == Expire \/ \E r \in Requests : Module(r) \/ Provider(r)

Spec == Init /\ [][Next]_vars

-----------------------------------------------------------------------------
(* What the provider keeps.                                                *)

\* Every variable has its type, and no locked document or copy of one, and no
\* lock identifier but 0, ever arises: GetItemExclusive never locks, so no
\* request is ever told to wait and no lock identifier ever turns one away.
TypeOK ==
  /\ doc \in {NoDoc} \cup Item
  /\ pc \in [Requests -> Places]
  /\ buf \in [Requests -> {NoDoc} \cup Item]
  /\ view \in [Requests -> Data]
  /\ lockId \in [Requests -> {NoId, 0}]
  /\ newItem \in [Requests -> BOOLEAN]
  /\ changed \subseteq Requests
  /\ \A item \in {doc} \cup {buf[r] : r \in Requests} :
       item # NoDoc => ~item.locked /\ item.lockId = 0

\* The session holds, and the handlers see, only changes of requests that
\* called SetAndReleaseItemExclusive.
OnlyCommittedData ==
  /\ \A r \in Requests : view[r] \subseteq changed
  /\ \A item \in {doc} \cup {buf[r] : r \in Requests} :
       item # NoDoc /\ item.items # NoItems => item.items \subseteq changed

\* If the client does not overlap those that write: once a request has updated
\* the session, its data only grows until the document goes.
GrowsOnceInitialized ==
  [][doc # NoDoc /\ doc' # NoDoc /\ doc.actions = "None" =>
       doc'.actions = "None" /\ doc.items \subseteq doc'.items]_vars

\* With no failed bucket call, no expiry during a request, and no overlap but of
\* readers, no null lock identifier is cast and no null value is used.
NoNullReference == \A r \in Requests : pc[r] # "NullReference"

-----------------------------------------------------------------------------
(* What the repository says and the provider does not keep.                *)

\* GetItemExclusive "retrieves session values ... from the session data
\* store": a request is given the data that is stored.
StoredDataIsGiven ==
  [][\A r \in Requests :
       pc[r] = "Get" /\ pc'[r] # "Get" /\ doc # NoDoc /\ doc.items # NoItems
       /\ ~newItem'[r] => view'[r] = doc.items]_vars
=============================================================================
