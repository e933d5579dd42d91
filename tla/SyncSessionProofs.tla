-------------------------- MODULE SyncSessionProofs --------------------------
(* What the synchronous provider keeps, for any requests and any failures,   *)
(* and what it keeps besides when the requests that write take turns.       *)
EXTENDS SyncSessionState, TLAPS

USE Constants

\* What is stored or copied: never locked, and with data once initialized.
Sound(item) ==
  /\ item \in Item /\ ~item.locked /\ item.lockId = 0
  /\ item.actions = "None" => item.items \in Data

\* TypeOK is not inductive: an initialized item without data would give a
\* request no data of the right type, and a request about to write without a
\* copy, or without a lock identifier, would store a malformed item.
IInv ==
  /\ TypeOK
  /\ doc # NoDoc => Sound(doc)
  /\ \A r \in Requests : buf[r] # NoDoc => Sound(buf[r])
  /\ \A r \in Requests :
       pc[r] \in {"Lock", "SetPut", "ReleasePut", "TouchPut"} => buf[r] # NoDoc
  /\ \A r \in Requests : pc[r] \in {"SetPut", "ReleasePut"} => lockId[r] = 0

-----------------------------------------------------------------------------
\* The constructor, and every update of a sound copy, make sound items.
LEMMA SoundItems ==
  /\ Sound(SessionStateItem)
  /\ \A data \in Data : Sound([SessionStateItem EXCEPT !.items = data])
  /\ \A item : Sound(item) =>
       /\ Sound([item EXCEPT !.locked = FALSE, !.lockId = 0])
       /\ \A data \in Data :
            Sound([item EXCEPT !.items = data, !.actions = "None",
                               !.locked = FALSE, !.lockId = 0])
BY DEF Sound, Item, SessionStateItem, Data

\* What a request about to store its data stores is sound.
LEMMA SoundData ==
  ASSUME IInv, NEW r \in Requests
  PROVE  /\ view[r] \cup {r} \in Data
         /\ Sound([SessionStateItem EXCEPT !.items = view[r] \cup {r}])
         /\ pc[r] = "SetPut" => Sound(Updated(r))
         /\ pc[r] = "ReleasePut" => Sound(Released(r))
<1>1. view[r] \cup {r} \in Data
  BY DEF IInv, TypeOK, Data
<1>2. pc[r] \in {"SetPut", "ReleasePut"} => Sound(buf[r]) /\ lockId[r] = 0
  BY DEF IInv
<1>. QED
  BY <1>1, <1>2, SoundItems DEF Updated, Released

\* A bucket write of a sound item keeps the invariant.
LEMMA WriteKeeps ==
  ASSUME IInv, NEW r \in Requests, NEW item, item = NoDoc \/ Sound(item),
         NEW place \in Places \ {"Lock", "SetPut", "ReleasePut", "TouchPut"},
         Write(r, item, place)
  PROVE  IInv'
<1> USE DEF IInv, TypeOK
<1>1. doc' = doc \/ doc' = item
  BY DEF Write
<1>2. /\ pc' \in [Requests -> Places]
      /\ pc'[r] \notin {"Lock", "SetPut", "ReleasePut", "TouchPut"}
      /\ \A q \in Requests \ {r} : pc'[q] = pc[q]
  BY DEF Write, LogAndOrThrow, Goto, Places, Resting
<1>3. buf' = [buf EXCEPT ![r] = NoDoc] /\ UNCHANGED given
  BY DEF Write
<1>4. doc' # NoDoc => Sound(doc')
  BY <1>1
<1>5. /\ buf' \in [Requests -> {NoDoc} \cup Item]
      /\ \A q \in Requests : buf'[q] # NoDoc => Sound(buf'[q])
  BY <1>3
<1>6. TypeOK'
  BY <1>2, <1>3, <1>4, <1>5 DEF given, Sound
<1>. QED
  BY <1>2, <1>3, <1>4, <1>5, <1>6 DEF given

\* So does a step that moves the request and copies nothing.
LEMMA MoveKeeps ==
  ASSUME IInv, NEW r \in Requests,
         NEW place \in Places \ {"Lock", "SetPut", "ReleasePut", "TouchPut"},
         Goto(r, place), UNCHANGED <<doc, buf, view, lockId, newItem>>,
         changed' \in {changed, changed \cup {r}}
  PROVE  IInv'
BY DEF IInv, TypeOK, Goto

\* And a Get whose answer the request goes on to write back.
LEMMA ReadKeeps ==
  ASSUME IInv, NEW r \in Requests,
         NEW place \in {"Lock", "SetPut", "ReleasePut", "TouchPut"},
         Read(r, place), place \in {"SetPut", "ReleasePut"} => lockId[r] = 0
  PROVE  IInv'
BY DEF IInv, TypeOK, Read, Goto, Places, given

-----------------------------------------------------------------------------
\* The module's steps move the request and copy nothing.
LEMMA ModuleKeeps ==
  ASSUME IInv, NEW r \in Requests, Module(r)
  PROVE  IInv'
<1> USE DEF Stay, given, Places, Resting
<1>1. CASE SessionChanged(r)
  BY <1>1, MoveKeeps DEF SessionChanged
<1>2. CASE Begin(r) \/ ReaderEnds(r) \/ SessionUnchanged(r) \/ SessionAbandoned(r)
  BY <1>2, MoveKeeps DEF Begin, ReaderEnds, SessionUnchanged, SessionAbandoned
<1>. QED
  BY <1>1, <1>2 DEF Module

\* CreateUninitializedItem and GetSessionStoreItem.
LEMMA GetKeeps ==
  ASSUME IInv, NEW r \in Requests,
         Create(r) \/ GetNull(r) \/ GetFound(r) \/ Lock(r)
  PROVE  IInv'
<1> USE DEF Places, Resting
<1>1. CASE Create(r)
  BY <1>1, SoundItems, WriteKeeps, MoveKeeps DEF Create, LogAndOrThrow, given
<1>2. CASE GetNull(r)
  BY <1>2 DEF GetNull, IInv, TypeOK, Goto, Data
<1>3. CASE GetFound(r)
  <2>1. Sound(doc) /\ doc.lockId = 0 /\ Given(doc) = "Handler" /\ SessionData(doc) \in Data
    BY <1>3 DEF GetFound, IInv, Sound, Given, SessionData, Item, Data
  <2>2. /\ pc' = [pc EXCEPT ![r] = IF r \in Readers THEN "Handler" ELSE "Lock"]
        /\ buf' = IF r \in Readers THEN buf ELSE [buf EXCEPT ![r] = doc]
        /\ view' = [view EXCEPT ![r] = SessionData(doc)]
        /\ lockId' = [lockId EXCEPT ![r] = 0]
        /\ newItem' = [newItem EXCEPT ![r] = FALSE]
        /\ UNCHANGED <<doc, changed>> /\ doc # NoDoc
    BY <1>3, <2>1 DEF GetFound, Goto, Sound
  <2>3. TypeOK'
    BY <2>1, <2>2 DEF IInv, TypeOK, Sound
  <2>. QED
    BY <2>1, <2>2, <2>3 DEF IInv, TypeOK
<1>4. CASE Lock(r)
  <2>1. Sound(buf[r]) /\ Given(buf[r]) = "Handler"
    BY <1>4 DEF Lock, IInv, Sound, Given
  <2>. QED
    BY <1>4, <2>1, WriteKeeps DEF Lock
<1>. QED
  BY <1>1, <1>2, <1>3, <1>4

\* SetAndReleaseItemExclusive.
LEMMA SetKeeps ==
  ASSUME IInv, NEW r \in Requests, SetGet(r) \/ SetInsert(r) \/ SetPut(r)
  PROVE  IInv'
<1> USE DEF Places, Resting, Stay, given
<1>1. CASE SetGet(r)
  <2>1. lockId[r] # NoId => lockId[r] = 0
    BY DEF IInv, TypeOK
  <2>. QED
    BY <1>1, <2>1, MoveKeeps, ReadKeeps DEF SetGet
<1>2. CASE SetInsert(r)
  BY <1>2, SoundData, WriteKeeps, MoveKeeps DEF SetInsert, LogAndOrThrow
<1>3. CASE SetPut(r)
  BY <1>3, SoundData, WriteKeeps DEF SetPut
<1>. QED
  BY <1>1, <1>2, <1>3

\* ReleaseItemExclusive, RemoveItem and ResetItemTimeout.
LEMMA RestKeeps ==
  ASSUME IInv, NEW r \in Requests,
         \/ ReleaseGet(r) \/ ReleasePut(r) \/ RemoveGet(r) \/ Remove(r)
         \/ TouchGet(r) \/ TouchPut(r)
  PROVE  IInv'
<1> USE DEF Places, Resting, Stay, given, LogAndOrThrow
<1>1. CASE ReleaseGet(r)
  <2>1. doc # NoDoc => doc.lockId = 0
    BY DEF IInv, Sound
  <2>. QED
    BY <1>1, <2>1, MoveKeeps, ReadKeeps DEF ReleaseGet
<1>2. CASE ReleasePut(r)
  BY <1>2, SoundData, WriteKeeps DEF ReleasePut
<1>3. CASE RemoveGet(r) \/ Remove(r)
  BY <1>3, MoveKeeps, WriteKeeps DEF RemoveGet, Remove
<1>4. CASE TouchGet(r)
  BY <1>4, MoveKeeps, ReadKeeps DEF TouchGet
<1>5. CASE TouchPut(r)
  <2>1. Sound(buf[r])
    BY <1>5 DEF TouchPut, IInv
  <2>. QED
    BY <1>5, <2>1, WriteKeeps DEF TouchPut
<1>. QED
  BY <1>1, <1>2, <1>3, <1>4, <1>5

\* The inductive invariant of the synchronous provider.
THEOREM InvariantHolds == Spec => []IInv
<1>1. Init => IInv
  BY DEF Init, IInv, TypeOK, Places, Resting, Data
<1>2. IInv /\ [Next]_vars => IInv'
  <2> SUFFICES ASSUME IInv, [Next]_vars PROVE IInv'
    OBVIOUS
  <2>1. CASE UNCHANGED vars
    BY <2>1 DEF vars, IInv, TypeOK
  <2>2. CASE Expire
    BY <2>2 DEF Expire, given, IInv, TypeOK
  <2>3. ASSUME NEW r \in Requests, Module(r) \/ Provider(r) PROVE IInv'
    BY <2>3, ModuleKeeps, GetKeeps, SetKeeps, RestKeeps DEF Provider
  <2>. QED
    BY <2>1, <2>2, <2>3 DEF Next
<1>. QED
  BY <1>1, <1>2, PTL DEF Spec

\* Every variable keeps its type, and no item is ever locked.
THEOREM TypeCorrect == Spec => []TypeOK
<1>1. IInv => TypeOK
  BY DEF IInv
<1>. QED
  BY <1>1, InvariantHolds, PTL

-----------------------------------------------------------------------------
\* OnlyCommittedData needs that a request stores its change only after the
\* module reported it.
Changing ==
  \A r \in Requests : pc[r] \in {"SetGet", "SetInsert", "SetPut"} => r \in changed

\* An item, the document or a copy, that holds reported changes only.
Committed(item) == item # NoDoc /\ item.items # NoItems => item.items \subseteq changed

\* What a bucket write of request r may store.
Storable(r, item) ==
  \/ item = NoDoc
  \/ item.items = NoItems
  \/ buf[r] # NoDoc /\ item.items = buf[r].items
  \/ r \in changed /\ item.items = view[r] \cup {r}

\* A request that may change the session is known to have.
LEMMA ChangingStays ==
  ASSUME IInv, Changing, [Next]_vars
  PROVE  Changing' /\ changed \subseteq changed'
<1> USE DEF Changing, IInv, TypeOK
<1>1. CASE UNCHANGED vars \/ Expire
  BY <1>1 DEF vars, Expire, given
<1>2. ASSUME NEW r \in Requests, SessionChanged(r)
      PROVE  Changing' /\ changed \subseteq changed'
  BY <1>2 DEF SessionChanged, Goto
<1>3. ASSUME NEW r \in Requests, SetGet(r)
      PROVE  Changing' /\ changed \subseteq changed'
  BY <1>3 DEF SetGet, Stay, Read, Goto, given
<1>4. ASSUME NEW r \in Requests,
             \/ Begin(r) \/ ReaderEnds(r) \/ SessionUnchanged(r) \/ SessionAbandoned(r)
             \/ GetNull(r) \/ GetFound(r)
             \/ ReleaseGet(r) \/ RemoveGet(r) \/ TouchGet(r)
      PROVE  Changing' /\ changed \subseteq changed'
  BY <1>4 DEF Begin, ReaderEnds, SessionUnchanged, SessionAbandoned, GetNull, GetFound,
     Given, ReleaseGet, RemoveGet, TouchGet, Stay, Read, Goto, LogAndOrThrow, given
<1>5. ASSUME NEW r \in Requests,
             \/ Create(r) \/ Lock(r) \/ SetInsert(r) \/ SetPut(r)
             \/ ReleasePut(r) \/ Remove(r) \/ TouchPut(r)
      PROVE  Changing' /\ changed \subseteq changed'
  BY <1>5 DEF Create, Lock, Given, SetInsert, SetPut, ReleasePut, Remove, TouchPut,
     Write, Goto, LogAndOrThrow, given
<1>. QED
  BY <1>1, <1>2, <1>3, <1>4, <1>5 DEF Next, Module, Provider

\* Each step stores a storable item, or copies or shows the document, or
\* leaves both alone.
LEMMA HowDataMoves ==
  ASSUME IInv, Changing, NEW r \in Requests, Module(r) \/ Provider(r)
  PROVE  /\ doc' = doc \/ Storable(r, doc')
         /\ \/ buf' = buf
            \/ buf' = [buf EXCEPT ![r] = NoDoc]
            \/ buf' = [buf EXCEPT ![r] = doc]
         /\ \/ view' = view
            \/ view' = [view EXCEPT ![r] = {}]
            \/ doc # NoDoc /\ view' = [view EXCEPT ![r] = SessionData(doc)]
<1> USE DEF given, Stay, Read, Write
<1>1. CASE Module(r)
  BY <1>1 DEF Module, Begin, ReaderEnds, SessionChanged, SessionUnchanged,
     SessionAbandoned
<1>2. CASE Create(r)
  BY <1>2 DEF Create, Storable, SessionStateItem
<1>3. CASE GetNull(r)
  BY <1>3 DEF GetNull
<1>4. CASE GetFound(r)
  BY <1>4 DEF GetFound
<1>5. CASE Lock(r) \/ TouchPut(r)
  BY <1>5 DEF Lock, TouchPut, Storable, IInv
<1>6. CASE SetGet(r) \/ ReleaseGet(r) \/ RemoveGet(r) \/ TouchGet(r)
  BY <1>6 DEF SetGet, ReleaseGet, RemoveGet, TouchGet
<1>7. CASE SetInsert(r)
  BY <1>7 DEF SetInsert, Storable, SessionStateItem, Changing
<1>8. CASE SetPut(r)
  <2>1. Updated(r).items = view[r] \cup {r} /\ r \in changed
    BY <1>8 DEF SetPut, Updated, IInv, Sound, Item, Changing
  <2>. QED
    BY <1>8, <2>1 DEF SetPut, Storable
<1>9. CASE ReleasePut(r)
  <2>1. buf[r] # NoDoc /\ Released(r).items = buf[r].items
    BY <1>9 DEF ReleasePut, Released, IInv, Sound, Item
  <2>. QED
    BY <1>9, <2>1 DEF ReleasePut, Storable
<1>10. CASE Remove(r)
  BY <1>10 DEF Remove, Storable
<1>. QED
  BY <1>1, <1>2, <1>3, <1>4, <1>5, <1>6, <1>7, <1>8, <1>9, <1>10 DEF Provider

\* Handlers see, and the bucket holds, only changes the module reported.
THEOREM OnlyCommittedIsSeen == Spec => []OnlyCommittedData
<1> DEFINE CInv == Changing /\ OnlyCommittedData
<1>1. Init => CInv
  BY DEF Init, Changing, OnlyCommittedData
<1>2. IInv /\ CInv /\ [Next]_vars => CInv'
  <2> SUFFICES ASSUME IInv, CInv, [Next]_vars PROVE CInv'
    OBVIOUS
  <2>1. Changing' /\ changed \subseteq changed'
    BY ChangingStays
  <2>2. CASE UNCHANGED vars \/ Expire
    BY <2>1, <2>2 DEF vars, Expire, given, OnlyCommittedData
  <2>3. ASSUME NEW r \in Requests, Module(r) \/ Provider(r) PROVE OnlyCommittedData'
    <3>1. /\ Committed(doc) /\ Committed(buf[r])
          /\ \A q \in Requests : Committed(buf[q]) /\ view[q] \subseteq changed
      BY DEF OnlyCommittedData, Committed
    <3>2. Storable(r, doc') =>
            (doc' # NoDoc /\ doc'.items # NoItems => doc'.items \subseteq changed')
      BY <2>1, <3>1 DEF Committed, Storable
    <3>3. doc # NoDoc => SessionData(doc) \subseteq changed
      <4>1. doc # NoDoc /\ doc.actions # "InitializeItem" => doc.items # NoItems
        BY DEF IInv, Sound, Item, Constants
      <4>. QED
        BY <3>1, <4>1 DEF SessionData, Committed
    <3>4. /\ buf \in [Requests -> {NoDoc} \cup Item]
          /\ view \in [Requests -> Data]
      BY DEF IInv, TypeOK
    <3>5. doc' # NoDoc /\ doc'.items # NoItems => doc'.items \subseteq changed'
      BY <2>1, <2>3, <3>1, <3>2, HowDataMoves DEF Committed
    <3>6. \A q \in Requests :
            buf'[q] # NoDoc /\ buf'[q].items # NoItems => buf'[q].items \subseteq changed'
      BY <2>1, <2>3, <3>1, <3>4, HowDataMoves DEF Committed
    <3>7. \A q \in Requests : view'[q] \subseteq changed'
      BY <2>1, <2>3, <3>1, <3>3, <3>4, HowDataMoves
    <3>. QED
      BY <3>5, <3>6, <3>7 DEF OnlyCommittedData
  <2>. QED
    BY <2>1, <2>2, <2>3 DEF Next
<1>. QED
  BY <1>1, <1>2, InvariantHolds, PTL DEF Spec
-----------------------------------------------------------------------------
(* Writers that take turns.                                                 *)

\* The requests that may overlap read only.
WritersTakeTurns == Requests \ Serial \subseteq Readers

\* Besides, they find the session there, no bucket call fails, and the
\* document does not expire while a request is under way.
Undisturbed ==
  Requests \ Serial \subseteq Readers \ Creators /\ Faults = {} /\ MayExpire # "always"

\* Where a request relies on what it was told about the session, and where it
\* is about to write back its copy.
Told == {"Lock", "Handler", "SetGet", "SetInsert", "SetPut", "ReleaseGet",
         "ReleasePut", "RemoveGet", "Remove"}
Writing == {"Lock", "SetPut", "ReleasePut", "TouchPut"}

\* A request moves no other.
LEMMA OthersStay ==
  ASSUME IInv, NEW r \in Requests, Module(r) \/ Provider(r)
  PROVE  \A q \in Requests \ {r} :
           /\ pc'[q] = pc[q] /\ buf'[q] = buf[q] /\ view'[q] = view[q]
           /\ lockId'[q] = lockId[q] /\ newItem'[q] = newItem[q]
<1> USE DEF Goto, LogAndOrThrow, Stay, Read, Write, given
<1>1. /\ pc \in [Requests -> Places] /\ buf \in [Requests -> {NoDoc} \cup Item]
      /\ view \in [Requests -> Data] /\ lockId \in [Requests -> {NoId, 0}]
      /\ newItem \in [Requests -> BOOLEAN]
  BY DEF IInv, TypeOK
<1>2. CASE Module(r)
  BY <1>1, <1>2 DEF Module, Begin, ReaderEnds, SessionChanged, SessionUnchanged,
     SessionAbandoned
<1>3. CASE Create(r) \/ GetNull(r) \/ GetFound(r) \/ Lock(r)
  BY <1>1, <1>3 DEF Create, GetNull, GetFound, Lock
<1>4. CASE SetGet(r) \/ SetInsert(r) \/ SetPut(r) \/ ReleaseGet(r) \/ ReleasePut(r)
  BY <1>1, <1>4 DEF SetGet, SetInsert, SetPut, ReleaseGet, ReleasePut
<1>5. CASE RemoveGet(r) \/ Remove(r) \/ TouchGet(r) \/ TouchPut(r)
  BY <1>1, <1>5 DEF RemoveGet, Remove, TouchGet, TouchPut
<1>. QED
  BY <1>2, <1>3, <1>4, <1>5 DEF Provider

\* A step leaves at most one serial request under way: its own, or the only
\* one that was.
OneSerial == \A r, q \in Serial : Active(r) /\ Active(q) => r = q
LEMMA SerialTurns ==
  ASSUME IInv, OneSerial, NEW r \in Requests, Module(r) \/ Provider(r)
  PROVE  OneSerial' /\ \A q \in Serial \ {r} : r \in Serial => ~Active(q)
<1>1. \A q \in Requests \ {r} : pc'[q] = pc[q]
  BY OthersStay
<1>2. r \in Serial => Active(r) \/ \A q \in Serial : ~Active(q)
  <2>1. CASE Begin(r)
    BY <2>1 DEF Begin
  <2>2. CASE Module(r) /\ ~Begin(r)
    BY <2>2 DEF Module, ReaderEnds, SessionChanged, SessionUnchanged, SessionAbandoned,
       Active, Resting
  <2>3. CASE Provider(r)
    BY <2>3 DEF Provider, Create, GetNull, GetFound, Lock, SetGet, SetInsert, SetPut,
       ReleaseGet, ReleasePut, RemoveGet, Remove, TouchGet, TouchPut, Active, Resting
  <2>. QED
    BY <2>1, <2>2, <2>3
<1>3. CASE r \in Serial
  <2>1. \A q \in Serial \ {r} : ~Active(q)
    BY <1>2, <1>3 DEF OneSerial
  <2>2. \A q \in Serial \ {r} : ~Active(q)'
    BY <1>1, <2>1 DEF Active, Resting, Constants
  <2>. QED
    BY <2>1, <2>2 DEF OneSerial
<1>4. CASE r \notin Serial
  BY <1>1, <1>4, Constants DEF OneSerial, Active, Resting
<1>. QED
  BY <1>3, <1>4

-----------------------------------------------------------------------------
(* The data of an initialized session.                                      *)

Initialized(item) == item # NoDoc /\ item.actions = "None"

\* What is known of a writer while the session is initialized: its copy is the
\* document, and it was given the data that it goes on to add to.  The document
\* may have gone, and a reader may have created it anew, but not initialized.
Trusts(r) ==
  /\ pc[r] \in {"Lock", "SetPut"} /\ Initialized(buf[r]) => view[r] = buf[r].items
  /\ pc[r] \in Writing /\ Initialized(doc) => buf[r] = doc
  /\ pc[r] \in {"Lock", "Handler", "SetGet"} /\ ~newItem[r] /\ Initialized(doc) =>
       view[r] = doc.items

TurnsInv ==
  /\ OneSerial
  /\ \A r \in Requests :
       IF r \in Readers THEN pc[r] \in Resting \cup {"Create", "Get", "Handler"}
                        ELSE Trusts(r)

\* A reader that creates the document does so when there is none.
LEMMA ReadersInitializeNothing ==
  ASSUME IInv, TurnsInv, NEW r \in Readers, Module(r) \/ Provider(r)
  PROVE  /\ doc' = doc \/ ~Initialized(doc')
         /\ pc'[r] \in Resting \cup {"Create", "Get", "Handler"}
<1>1. r \in Requests /\ pc[r] \in Resting \cup {"Create", "Get", "Handler"}
  BY Constants DEF TurnsInv
<1> USE DEF Resting, Goto, LogAndOrThrow, Stay, Write, given
<1>2. pc \in [Requests -> Places]
  BY DEF IInv, TypeOK
<1>3. CASE Module(r)
  BY <1>1, <1>2, <1>3 DEF Module, Begin, ReaderEnds, SessionChanged, SessionUnchanged,
     SessionAbandoned
<1>4. CASE Create(r)
  BY <1>1, <1>2, <1>4 DEF Create, Initialized, SessionStateItem
<1>5. CASE GetNull(r) \/ GetFound(r)
  BY <1>1, <1>2, <1>5 DEF GetNull, GetFound, Given
<1>. QED
  BY <1>1, <1>3, <1>4, <1>5 DEF Provider, Lock, SetGet, SetInsert, SetPut, ReleaseGet,
     ReleasePut, RemoveGet, Remove, TouchGet, TouchPut

\* A writer's own step keeps what it trusts.
LEMMA WritersTrust ==
  ASSUME IInv, NEW r \in Requests, Trusts(r), Module(r) \/ Provider(r)
  PROVE  Trusts(r)'
<1> USE DEF Trusts, Initialized, Writing, Goto, LogAndOrThrow, Stay, Read, Write, given
<1>1. /\ pc \in [Requests -> Places] /\ buf \in [Requests -> {NoDoc} \cup Item]
      /\ view \in [Requests -> Data] /\ newItem \in [Requests -> BOOLEAN]
      /\ doc # NoDoc => ~doc.locked
      /\ pc[r] \in Writing => buf[r] # NoDoc /\ ~buf[r].locked
  BY DEF IInv, TypeOK
<1>2. CASE Module(r)
  BY <1>1, <1>2 DEF Module, Begin, ReaderEnds, SessionChanged, SessionUnchanged,
     SessionAbandoned
<1>3. CASE Create(r)
  BY <1>1, <1>3 DEF Create
<1>4. CASE GetNull(r)
  BY <1>1, <1>4 DEF GetNull
<1>5. CASE GetFound(r)
  BY <1>1, <1>5 DEF GetFound, Given, SessionData
<1>6. CASE Lock(r)
  BY <1>1, <1>6 DEF Lock, Given
<1>7. CASE SetGet(r)
  BY <1>1, <1>7 DEF SetGet
<1>8. CASE SetInsert(r) \/ SetPut(r)
  BY <1>1, <1>8 DEF SetInsert, SetPut
<1>9. CASE ReleaseGet(r) \/ RemoveGet(r) \/ TouchGet(r)
  BY <1>1, <1>9 DEF ReleaseGet, RemoveGet, TouchGet
<1>10. CASE ReleasePut(r) \/ Remove(r) \/ TouchPut(r)
  BY <1>1, <1>10 DEF ReleasePut, Remove, TouchPut
<1>. QED
  BY <1>2, <1>3, <1>4, <1>5, <1>6, <1>7, <1>8, <1>9, <1>10 DEF Provider

\* Writers that take turns trust what they were given, whatever fails and
\* whenever the document expires.
LEMMA TurnsHold ==
  ASSUME WritersTakeTurns
  PROVE  Spec => []TurnsInv
<1>1. Init => TurnsInv
  BY DEF Init, TurnsInv, OneSerial, Active, Resting, Trusts, Writing
<1>2. IInv /\ TurnsInv /\ [Next]_vars => TurnsInv'
  <2> SUFFICES ASSUME IInv, TurnsInv, [Next]_vars PROVE TurnsInv'
    OBVIOUS
  <2>1. CASE UNCHANGED vars
    BY <2>1 DEF vars, TurnsInv, OneSerial, Active, Trusts, Initialized
  <2>2. CASE Expire
    BY <2>2 DEF Expire, given, TurnsInv, OneSerial, Active, Trusts, Initialized
  <2>3. ASSUME NEW r \in Requests, Module(r) \/ Provider(r) PROVE TurnsInv'
    <3>1. OneSerial' /\ \A q \in Serial \ {r} : r \in Serial => ~Active(q)
      BY <2>3, SerialTurns DEF TurnsInv
    <3>2. IF r \in Readers THEN pc'[r] \in Resting \cup {"Create", "Get", "Handler"}
                           ELSE Trusts(r)'
      BY <2>3, ReadersInitializeNothing, WritersTrust DEF TurnsInv
    <3>3. ASSUME NEW q \in Requests \ {r}, q \notin Readers PROVE Trusts(q)'
      <4>1. /\ Trusts(q) /\ UNCHANGED <<pc[q], buf[q], view[q], newItem[q]>>
        BY <2>3, <3>3, OthersStay DEF TurnsInv
      <4>2. CASE r \in Readers
        BY <2>3, <4>1, <4>2, ReadersInitializeNothing DEF Trusts
      <4>3. CASE r \notin Readers
        BY <3>1, <3>3, <4>1, <4>3 DEF WritersTakeTurns, Active, Resting, Trusts, Writing
      <4>. QED
        BY <4>2, <4>3
    <3>4. \A q \in Requests \ {r} : q \in Readers =>
            pc'[q] \in Resting \cup {"Create", "Get", "Handler"}
      BY <2>3, OthersStay DEF TurnsInv
    <3>. QED
      BY <3>1, <3>2, <3>3, <3>4 DEF TurnsInv
  <2>. QED
    BY <2>1, <2>2, <2>3 DEF Next
<1>. QED
  BY <1>1, <1>2, InvariantHolds, PTL DEF Spec

\* Writers that take turns only add to the data of an initialized session,
\* whatever fails, whenever it expires, and however many readers overlap them.
THEOREM InitializedSessionsGrow ==
  ASSUME WritersTakeTurns
  PROVE  Spec => GrowsOnceInitialized
<1>1. IInv /\ TurnsInv /\ [Next]_vars =>
        [doc # NoDoc /\ doc' # NoDoc /\ doc.actions = "None" =>
           doc'.actions = "None" /\ doc.items \subseteq doc'.items]_vars
  <2> SUFFICES ASSUME IInv, TurnsInv, [Next]_vars, doc # NoDoc, doc' # NoDoc,
                      doc.actions = "None", doc' # doc
               PROVE  doc'.actions = "None" /\ doc.items \subseteq doc'.items
    BY DEF vars
  <2>1. PICK r \in Requests : Provider(r)
    BY DEF Next, vars, Expire, Module, Begin, ReaderEnds, SessionChanged,
       SessionUnchanged, SessionAbandoned, Stay
  <2> USE DEF Stay, Read, given
  <2>2. CASE Create(r) \/ SetInsert(r) \/ Remove(r)
    BY <2>2 DEF Create, SetInsert, Remove, Write
  <2>3. CASE \/ GetNull(r) \/ GetFound(r) \/ SetGet(r) \/ ReleaseGet(r)
             \/ RemoveGet(r) \/ TouchGet(r)
    BY <2>3 DEF GetNull, GetFound, SetGet, ReleaseGet, RemoveGet, TouchGet
  <2>4. CASE Lock(r) \/ SetPut(r) \/ ReleasePut(r) \/ TouchPut(r)
    <3>1. pc[r] \in Writing
      BY <2>4 DEF Lock, SetPut, ReleasePut, TouchPut, Writing
    <3>2. Trusts(r)
      BY <3>1 DEF TurnsInv, Writing, Resting
    <3>3. buf[r] = doc
      BY <3>1, <3>2 DEF Trusts, Initialized
    <3>4. CASE SetPut(r)
      <4>1. view[r] = doc.items /\ doc' = Updated(r)
        BY <3>2, <3>3, <3>4 DEF SetPut, Write, Trusts, Initialized
      <4>2. Updated(r).actions = "None" /\ Updated(r).items = view[r] \cup {r}
        BY <3>3, <3>4 DEF SetPut, Updated, IInv, Sound, Item
      <4>. QED
        BY <4>1, <4>2
    <3>5. CASE ReleasePut(r)
      <4>1. doc' = Released(r)
        BY <3>5 DEF ReleasePut, Write
      <4>2. Released(r).actions = doc.actions /\ Released(r).items = doc.items
        BY <3>3, <3>5 DEF ReleasePut, Released, IInv, Sound, Item
      <4>. QED
        BY <4>1, <4>2
    <3>6. CASE Lock(r) \/ TouchPut(r)
      BY <3>3, <3>6 DEF Lock, TouchPut, Write
    <3>. QED
      BY <2>4, <3>4, <3>5, <3>6
  <2>. QED
    BY <2>1, <2>2, <2>3, <2>4 DEF Provider
<1>. QED
  BY <1>1, TurnsHold, InvariantHolds, PTL DEF Spec, GrowsOnceInitialized

-----------------------------------------------------------------------------
(* Null lock identifiers and null values.                                   *)

\* A serial request finds the document as it was told: absent, if it was given
\* a new item, and otherwise with the data it was given.
Knows(r) ==
  /\ pc[r] # "NullReference"
  /\ pc[r] \in Told /\ newItem[r] =>
       /\ doc = NoDoc /\ lockId[r] = NoId
       /\ pc[r] \in {"Handler", "SetGet", "SetInsert", "RemoveGet"}
  /\ pc[r] \in Told /\ ~newItem[r] =>
       /\ doc # NoDoc /\ lockId[r] = 0 /\ view[r] = SessionData(doc)
       /\ pc[r] # "SetInsert"
  /\ pc[r] \in Writing => buf[r] = doc

SerialInv ==
  /\ OneSerial
  /\ \A r \in Serial : Knows(r)
  /\ \A r \in Requests \ Serial : pc[r] \in {"Idle", "Get", "Handler", "Done"}

\* A request that may overlap finds the session or not, and is done.
LEMMA OnlyReads ==
  ASSUME Undisturbed, IInv, NEW r \in Requests \ Serial,
         pc[r] \in {"Idle", "Get", "Handler", "Done"}, Module(r) \/ Provider(r)
  PROVE  doc' = doc /\ pc'[r] \in {"Idle", "Get", "Handler", "Done"}
<1> USE DEF Undisturbed, Goto, Stay, given
<1>1. pc \in [Requests -> Places] /\ r \in Readers /\ r \notin Creators
  BY DEF IInv, TypeOK
<1>2. CASE Module(r)
  BY <1>1, <1>2 DEF Module, Begin, ReaderEnds, SessionChanged, SessionUnchanged,
     SessionAbandoned
<1>3. CASE GetNull(r) \/ GetFound(r)
  BY <1>1, <1>3 DEF GetNull, GetFound, Given
<1>. QED
  BY <1>2, <1>3 DEF Provider, Create, Lock, SetGet, SetInsert, SetPut, ReleaseGet,
     ReleasePut, RemoveGet, Remove, TouchGet, TouchPut

\* A step of the provider leaves its request knowing what it needs.
LEMMA ProviderTells ==
  ASSUME Undisturbed, IInv, NEW r \in Requests, Knows(r), Provider(r)
  PROVE  Knows(r)'
<1> USE DEF Undisturbed, Knows, Told, Writing, Goto, LogAndOrThrow, Stay, Read, Write, given
<1>1. /\ pc \in [Requests -> Places] /\ buf \in [Requests -> {NoDoc} \cup Item]
      /\ view \in [Requests -> Data] /\ lockId \in [Requests -> {NoId, 0}]
      /\ newItem \in [Requests -> BOOLEAN]
      /\ doc # NoDoc => ~doc.locked /\ doc.lockId = 0
      /\ pc[r] \in Writing => buf[r] # NoDoc /\ ~buf[r].locked
  BY DEF IInv, TypeOK
<1>2. CASE Create(r)
  BY <1>1, <1>2 DEF Create
<1>3. CASE GetNull(r)
  BY <1>1, <1>3 DEF GetNull, Missing
<1>4. CASE GetFound(r)
  BY <1>1, <1>4 DEF GetFound, Given, SessionData
<1>5. CASE Lock(r)
  BY <1>1, <1>5 DEF Lock, Given, SessionData
<1>6. CASE SetGet(r)
  BY <1>1, <1>6 DEF SetGet, Missing, SessionData
<1>7. CASE SetInsert(r) \/ SetPut(r)
  BY <1>1, <1>7 DEF SetInsert, SetPut
<1>8. CASE ReleaseGet(r)
  BY <1>1, <1>8 DEF ReleaseGet, Missing, SessionData
<1>9. CASE RemoveGet(r)
  BY <1>1, <1>9 DEF RemoveGet, Missing, SessionData
<1>10. CASE ReleasePut(r) \/ Remove(r) \/ TouchGet(r) \/ TouchPut(r)
  BY <1>1, <1>10 DEF ReleasePut, Remove, TouchGet, TouchPut
<1>. QED
  BY <1>2, <1>3, <1>4, <1>5, <1>6, <1>7, <1>8, <1>9, <1>10 DEF Provider

\* So does a step of the module.
LEMMA ModuleTells ==
  ASSUME IInv, NEW r \in Requests, Knows(r), Module(r)
  PROVE  Knows(r)'
<1> USE DEF Knows, Told, Writing, Goto, Stay, given, SessionData
<1>1. pc \in [Requests -> Places]
  BY DEF IInv, TypeOK
<1>. QED
  BY <1>1 DEF Module, Begin, ReaderEnds, SessionChanged, SessionUnchanged, SessionAbandoned

\* One serial request at a time is under way, it knows the session, and the
\* others only read.
LEMMA SerialHolds ==
  ASSUME Undisturbed
  PROVE  Spec => []SerialInv
<1>1. Init => SerialInv
  BY DEF Init, SerialInv, OneSerial, Active, Resting, Knows, Told, Writing
<1>2. IInv /\ SerialInv /\ [Next]_vars => SerialInv'
  <2> SUFFICES ASSUME IInv, SerialInv, [Next]_vars PROVE SerialInv'
    OBVIOUS
  <2>1. CASE UNCHANGED vars
    BY <2>1 DEF vars, SerialInv, OneSerial, Active, Knows, SessionData
  <2>2. CASE Expire
    <3>1. \A q \in Requests : pc[q] \notin Told \cup Writing
      BY <2>2 DEF Expire, Undisturbed, Constants, Active, Resting, Told, Writing
    <3>. QED
      BY <2>2, <3>1, Constants DEF Expire, given, SerialInv, OneSerial, Active, Knows
  <2>3. ASSUME NEW r \in Requests, Module(r) \/ Provider(r) PROVE SerialInv'
    <3>1. OneSerial' /\ \A q \in Serial \ {r} : r \in Serial => ~Active(q)
      BY <2>3, SerialTurns DEF SerialInv
    <3>2. \A q \in Requests \ {r} :
            /\ pc'[q] = pc[q] /\ buf'[q] = buf[q] /\ view'[q] = view[q]
            /\ lockId'[q] = lockId[q] /\ newItem'[q] = newItem[q]
      BY <2>3, OthersStay
    <3>3. CASE r \in Serial
      <4>1. Knows(r)'
        BY <2>3, <3>3, ProviderTells, ModuleTells DEF SerialInv
      <4>2. ASSUME NEW q \in Serial \ {r} PROVE Knows(q)'
        <5>1. ~Active(q) /\ Knows(q) /\ pc'[q] = pc[q]
          BY <3>1, <3>2, <3>3, Constants DEF SerialInv
        <5>. QED
          BY <5>1 DEF Active, Resting, Knows, Told, Writing
      <4>. QED
        BY <3>1, <3>2, <3>3, <4>1, <4>2 DEF SerialInv
    <3>4. CASE r \notin Serial
      <4>1. doc' = doc /\ pc'[r] \in {"Idle", "Get", "Handler", "Done"}
        BY <2>3, <3>4, OnlyReads DEF SerialInv
      <4>2. ASSUME NEW q \in Serial PROVE Knows(q)'
        BY <3>2, <3>4, <4>1, Constants DEF SerialInv, Knows, SessionData
      <4>. QED
        BY <3>1, <3>2, <3>4, <4>1, <4>2 DEF SerialInv
    <3>. QED
      BY <3>3, <3>4
  <2>. QED
    BY <2>1, <2>2, <2>3 DEF Next
<1>. QED
  BY <1>1, <1>2, InvariantHolds, PTL DEF Spec

\* Requests that are not disturbed never cast a null lock identifier nor use a
\* null value.
THEOREM NothingNullIsUsed ==
  ASSUME Undisturbed
  PROVE  Spec => []NoNullReference
<1>1. SerialInv => NoNullReference
  BY DEF SerialInv, Knows, NoNullReference
<1>. QED
  BY <1>1, SerialHolds, PTL
=============================================================================
