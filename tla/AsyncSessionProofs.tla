------------------------- MODULE AsyncSessionProofs -------------------------
(* The invariants of AsyncSessionProperties, proved for any set of requests, *)
(* any ages and time-outs, with or without crashes, failures and throwing.   *)
(* At the end: what it keeps if the client sends one after another those     *)
(* that write, and that it then implements the contract of SessionStore.     *)
EXTENDS AsyncSessionStore, TLAPS

USE Constants

\* What the constructor makes is a document, and stays one as it ages.
LEMMA ConstructorTyped == SessionStateItem \in Item
BY DEF SessionStateItem, Item, Ages, Data

LEMMA OlderTyped ==
  ASSUME NEW item \in Item
  PROVE  /\ Older(item) \in Item
         /\ Older(item).items = item.items
         /\ Older(item).actions = item.actions
         /\ Older(item).locked = item.locked
         /\ Older(item).lockId = item.lockId
         /\ Older(item).timeout = item.timeout
BY DEF Older, Younger, Item, Ages

\* The two updates a provider call makes to its copy of the document.
Locking(item) == [item EXCEPT !.locked = TRUE]
Releasing(item) == [item EXCEPT !.locked = FALSE, !.lockId = 0]

LEMMA UpdatesTyped ==
  ASSUME NEW item \in Item, NEW new \in {Locking(item), Releasing(item)}
  PROVE  /\ new \in Item
         /\ new.items = item.items /\ new.actions = item.actions
         /\ new.timeout = item.timeout
         /\ new.lockId \in {0, item.lockId}
         /\ new = Releasing(item) => ~new.locked
<1>1. CASE new = Locking(item)
  BY <1>1 DEF Locking, Releasing, Item
<1>2. CASE new = Releasing(item)
  BY <1>2 DEF Releasing, Item
<1>. QED
  BY <1>1, <1>2

\* Where a failed or an answered call takes a request, and what it logs.
LEMMA AnswerTyped ==
  ASSUME TypeOK, NEW r \in Requests, NEW success \in BOOLEAN, NEW place \in Places,
         place # "Lock", Answer(r, success, place) \/ LogAndOrThrow(r, place)
  PROVE  /\ pc' \in [Requests -> Places]
         /\ logged' \in [Requests -> BOOLEAN]
         /\ \A q \in Requests : pc'[q] = "Lock" => q \in Writers
<1>1. "Failed" \in Places
  BY DEF Places, Resting
<1>2. CASE Goto(r, place)
  BY <1>2 DEF TypeOK, Goto
<1>3. CASE LogAndOrThrow(r, place)
  BY <1>1, <1>3 DEF TypeOK, LogAndOrThrow
<1>. QED
  BY <1>2, <1>3 DEF Answer

LEMMA WriteTyped ==
  ASSUME TypeOK, NEW outcome, NEW item \in {NoDoc} \cup Item,
         NEW ttl \in {0, Timeout}, Write(outcome, item, ttl)
  PROVE  doc' \in {NoDoc} \cup Item /\ expiry' \in {0, Timeout}
BY DEF TypeOK, Write, store

LEMMA RewriteTyped ==
  ASSUME TypeOK, NEW r \in Requests, NEW item \in Item, Rewrite(r, item)
  PROVE  TypeOK'
<1>1. item.timeout \in {0, Timeout}
  BY DEF Item
<1>2. after[r] \in Places /\ after[r] # "Lock"
  BY DEF TypeOK, Places, Resting
<1>3. PICK outcome \in Outcomes :
        Write(outcome, item, item.timeout) /\ Answer(r, outcome = "ok", after[r])
  BY DEF Rewrite
<1>4. doc' \in {NoDoc} \cup Item /\ expiry' \in {0, Timeout}
  BY <1>1, <1>3, WriteTyped
<1>5. /\ pc' \in [Requests -> Places] /\ logged' \in [Requests -> BOOLEAN]
      /\ \A q \in Requests : pc'[q] = "Lock" => q \in Writers
  BY <1>2, <1>3, AnswerTyped
<1>6. buf' \in [Requests -> Item]
  BY ConstructorTyped DEF TypeOK, Rewrite, Forget
<1>. QED
  BY <1>4, <1>5, <1>6 DEF TypeOK, Rewrite, given

-----------------------------------------------------------------------------
\* One step of a request keeps the types: the module's steps move pc only,
\* the provider's call their helpers.
LEMMA ModuleTyped ==
  ASSUME TypeOK, NEW r \in Requests, Begin(r) \/ Module(r) \/ Crash(r)
  PROVE  TypeOK'
<1>1. CASE Begin(r)
  BY <1>1 DEF TypeOK, Begin, Goto, Places, Resting, store, given
<1>2. CASE Poll(r)
  BY <1>2 DEF TypeOK, Poll, Goto, Places, Resting, store, given
<1>3. CASE ReaderEnds(r)
  BY <1>3 DEF TypeOK, ReaderEnds, Goto, Places, Resting, store, given
<1>4. CASE SessionChanged(r)
  BY <1>4 DEF TypeOK, SessionChanged, Goto, Places, Resting, store, given
<1>5. CASE SessionUnchanged(r)
  BY <1>5 DEF TypeOK, SessionUnchanged, Goto, Places, Resting, store, given
<1>6. CASE SessionAbandoned(r)
  BY <1>6 DEF TypeOK, SessionAbandoned, Goto, Places, Resting, store, given
<1>7. CASE Crash(r)
  BY <1>7, ConstructorTyped
     DEF TypeOK, Crash, Goto, Forget, Places, Resting, store, given
<1>. QED
  BY <1>1, <1>2, <1>3, <1>4, <1>5, <1>6, <1>7 DEF Module

LEMMA WrittenTyped ==
  ASSUME TypeOK, NEW r \in Requests
  PROVE  /\ Written(r) \in Item
         /\ Written(r).items = view[r] \cup {r}
         /\ Written(r).actions = "None" /\ ~Written(r).locked
         /\ Written(r).lockId = IF lockId[r] = NoId THEN 0 ELSE lockId[r]
<1>1. view[r] \cup {r} \in Data
  BY DEF TypeOK, Data
<1>2. (IF lockId[r] = NoId THEN 0 ELSE lockId[r]) \in Nat
  BY DEF TypeOK
<1>. QED
  BY <1>1, <1>2, ConstructorTyped DEF Written, SessionStateItem, Item

LEMMA ProviderTyped ==
  ASSUME TypeOK, NEW r \in Requests, Provider(r)
  PROVE  TypeOK'
<1>1. CASE Create(r)
  <2>1. Created \in Item /\ Created.timeout = Timeout
    BY ConstructorTyped DEF Created, Item, SessionStateItem
  <2>2. PICK outcome \in Outcomes :
          \/ /\ Write(outcome, Created, Created.timeout)
             /\ Answer(r, outcome = "ok", "Get")
          \/ UNCHANGED store /\ LogAndOrThrow(r, "Get")
    BY <1>1 DEF Create
  <2>3. doc' \in {NoDoc} \cup Item /\ expiry' \in {0, Timeout}
    BY <2>1, <2>2, WriteTyped DEF TypeOK, store
  <2>4. /\ pc' \in [Requests -> Places] /\ logged' \in [Requests -> BOOLEAN]
        /\ \A q \in Requests : pc'[q] = "Lock" => q \in Writers
    BY <2>2, AnswerTyped DEF Places
  <2>. QED
    BY <1>1, <2>3, <2>4 DEF TypeOK, Create, given
<1>2. CASE pc[r] = "Get" /\ GetNull(r)
  BY <1>2 DEF TypeOK, GetNull, Goto, Places, Resting, store, Data
<1>3. CASE pc[r] = "Get" /\ GetFound(r)
  <2>1. /\ doc \in Item /\ ReportedAge(doc) \in Ages \cup {0}
        /\ Deserialize(doc.items) \in Data
    BY <1>3 DEF TypeOK, GetFound, ReportedAge, Deserialize, Item, Data
  <2>2. doc.lockId \in Nat /\ {} \in Data
    BY <2>1 DEF Item, Data
  <2>3. /\ view' \in [Requests -> Data]
        /\ lockAge' \in [Requests -> Ages \cup {0}]
    BY <1>3, <2>1, <2>2 DEF TypeOK, GetFound
  <2>. QED
    BY <1>3, <2>1, <2>2, <2>3
       DEF TypeOK, GetFound, Goto, Exclusive, Places, Resting, Writers, store
<1>4. CASE Lock(r)
  <2>1. Locking(buf[r]) \in Item
    BY UpdatesTyped DEF TypeOK
  <2>. QED
    BY <1>4, <2>1, RewriteTyped DEF Lock, Locking
<1>5. CASE Set(r)
  <2>1. PICK outcome \in Outcomes :
          \/ /\ Write(outcome, Written(r), Timeout)
             /\ Answer(r, outcome = "ok", "ReleaseGet")
          \/ UNCHANGED store /\ LogAndOrThrow(r, "ReleaseGet")
    BY <1>5 DEF Set
  <2>2. doc' \in {NoDoc} \cup Item /\ expiry' \in {0, Timeout}
    BY <2>1, WrittenTyped, WriteTyped DEF TypeOK, store
  <2>3. /\ pc' \in [Requests -> Places] /\ logged' \in [Requests -> BOOLEAN]
        /\ \A q \in Requests : pc'[q] = "Lock" => q \in Writers
    BY <2>1, AnswerTyped DEF Places
  <2>. QED
    BY <1>5, <2>2, <2>3 DEF TypeOK, Set, given
<1>6. CASE ReleaseGet(r)
  <2>1. after[r] \in Places /\ after[r] # "Lock"
    BY DEF TypeOK, Places, Resting
  <2>2. /\ pc' \in [Requests -> Places] /\ logged' \in [Requests -> BOOLEAN]
        /\ \A q \in Requests : pc'[q] = "Lock" => q \in Writers
    <3>1. CASE Goto(r, "ReleasePut")
      BY <3>1 DEF TypeOK, Goto, Places
    <3>2. CASE LogAndOrThrow(r, after[r])
      BY <2>1, <3>2, AnswerTyped
    <3>. QED
      BY <1>6, <3>1, <3>2 DEF ReleaseGet
  <2>3. buf' \in [Requests -> Item]
    BY <1>6 DEF TypeOK, ReleaseGet, SameLockId
  <2>. QED
    BY <1>6, <2>2, <2>3 DEF TypeOK, ReleaseGet, store, given
<1>7. CASE ReleasePut(r)
  <2>1. Releasing(buf[r]) \in Item
    BY UpdatesTyped DEF TypeOK
  <2>. QED
    BY <1>7, <2>1, RewriteTyped DEF ReleasePut, Releasing
<1>8. CASE Touch(r) \/ Remove(r)
  <2>1. PICK outcome \in Outcomes, item \in {doc, NoDoc}, ttl \in {0, Timeout} :
          \/ Write(outcome, item, ttl) /\ Answer(r, outcome = "ok", "Done")
          \/ UNCHANGED store /\ LogAndOrThrow(r, "Done")
    BY <1>8 DEF Touch, Remove
  <2>2. doc' \in {NoDoc} \cup Item /\ expiry' \in {0, Timeout}
    BY <2>1, WriteTyped DEF TypeOK, store
  <2>3. /\ pc' \in [Requests -> Places] /\ logged' \in [Requests -> BOOLEAN]
        /\ \A q \in Requests : pc'[q] = "Lock" => q \in Writers
    BY <2>1, AnswerTyped DEF Places, Resting
  <2>. QED
    BY <1>8, <2>2, <2>3 DEF TypeOK, Touch, Remove, given
<1>. QED
  BY <1>1, <1>2, <1>3, <1>4, <1>5, <1>6, <1>7, <1>8 DEF Provider, Get

LEMMA ClockTyped ==
  ASSUME TypeOK, Expire \/ TimePasses
  PROVE  TypeOK'
<1>1. CASE Expire
  BY <1>1 DEF TypeOK, Expire, given
<1>2. CASE TimePasses
  <2>1. doc' \in {NoDoc} \cup Item /\ buf' \in [Requests -> Item]
    BY <1>2, OlderTyped DEF TypeOK, TimePasses
  <2>. QED
    BY <1>2, <2>1 DEF TypeOK, TimePasses, given
<1>. QED
  BY <1>1, <1>2

\* Every variable of the provider keeps its type.
THEOREM TypeCorrect == Spec => []TypeOK
<1>1. Init => TypeOK
  BY ConstructorTyped DEF Init, TypeOK, Places, Resting, Data
<1>2. TypeOK /\ [Next]_vars => TypeOK'
  <2>1. TypeOK /\ UNCHANGED vars => TypeOK'
    BY DEF TypeOK, vars
  <2>. QED
    BY <2>1, ModuleTyped, ProviderTyped, ClockTyped DEF Next, Step
<1>. QED
  BY <1>1, <1>2, PTL DEF Spec

-----------------------------------------------------------------------------
\* How one step may change the document, the copies and the identifiers.
SetsNow(r) ==
  pc[r] = "Set" /\ pc'[r] \in {"ReleaseGet", "Failed"} /\ UNCHANGED after

DocumentMoves ==
  \/ doc' \in {doc, NoDoc, Created}
  \/ doc # NoDoc /\ doc' = Older(doc)
  \/ \E r \in Requests :
       \/ pc[r] = "Lock" /\ doc' = Locking(buf[r])
       \/ doc' = Releasing(buf[r])
       \/ SetsNow(r) /\ doc' = Written(r)
CopiesMove ==
  \A q \in Requests :
    \/ buf'[q] \in {buf[q], Older(buf[q]), SessionStateItem}
    \/ doc # NoDoc /\ buf'[q] = doc
LockIdsMove ==
  \A q \in Requests :
    \/ lockId'[q] \in {lockId[q], NoId}
    \/ doc # NoDoc /\ lockId'[q] = doc.lockId

ViewsMove ==
  \A q \in Requests :
    \/ view'[q] \in {view[q], {}}
    \/ doc # NoDoc /\ view'[q] = Deserialize(doc.items)

LEMMA HowTheStoreMoves ==
  ASSUME TypeOK, [Next]_vars
  PROVE  DocumentMoves /\ CopiesMove /\ LockIdsMove /\ ViewsMove
<1>1. CASE UNCHANGED vars
  BY <1>1 DEF vars, DocumentMoves, CopiesMove, LockIdsMove, ViewsMove
<1>2. ASSUME NEW r \in Requests, Begin(r) \/ Module(r)
      PROVE  DocumentMoves /\ CopiesMove /\ LockIdsMove /\ ViewsMove
  BY <1>2 DEF DocumentMoves, CopiesMove, LockIdsMove, ViewsMove, Begin, Module, Poll,
     ReaderEnds, SessionChanged, SessionUnchanged, SessionAbandoned, store, given
<1>3. ASSUME NEW r \in Requests, Crash(r) \/ Create(r) \/ Set(r) \/ Touch(r) \/ Remove(r)
      PROVE  DocumentMoves /\ CopiesMove /\ LockIdsMove /\ ViewsMove
  BY <1>3 DEF TypeOK, DocumentMoves, CopiesMove, LockIdsMove, ViewsMove,
     Crash, Create, Set, Touch, Remove, Write, Forget, SetsNow, Answer, Goto,
     LogAndOrThrow, store, given
<1>4. ASSUME NEW r \in Requests, Get(r) \/ ReleaseGet(r)
      PROVE  DocumentMoves /\ CopiesMove /\ LockIdsMove /\ ViewsMove
  BY <1>4 DEF TypeOK, DocumentMoves, CopiesMove, LockIdsMove, ViewsMove,
     Get, GetNull, GetFound, ReleaseGet, SameLockId, store, given
<1>5. ASSUME NEW r \in Requests, Lock(r) \/ ReleasePut(r)
      PROVE  DocumentMoves /\ CopiesMove /\ LockIdsMove /\ ViewsMove
  BY <1>5 DEF TypeOK, DocumentMoves, CopiesMove, LockIdsMove, ViewsMove,
     Lock, ReleasePut, Rewrite, Write, Forget, Locking, Releasing, store, given
<1>6. CASE Expire \/ TimePasses
  BY <1>6 DEF TypeOK, DocumentMoves, CopiesMove, LockIdsMove, ViewsMove,
     Expire, TimePasses, given
<1>. QED
  BY <1>1, <1>2, <1>3, <1>4, <1>5, <1>6 DEF Next, Step, Provider

\* Only the lock identifier 0 is ever stored, copied or handed out.
THEOREM LockIdsAreZero == Spec => []LockIdNeverDistinguishes
<1>1. Init => LockIdNeverDistinguishes
  BY DEF Init, LockIdNeverDistinguishes, SessionStateItem
<1>2. TypeOK /\ LockIdNeverDistinguishes /\ [Next]_vars => LockIdNeverDistinguishes'
  <2> SUFFICES ASSUME TypeOK, LockIdNeverDistinguishes, [Next]_vars
               PROVE  LockIdNeverDistinguishes'
    OBVIOUS
  <2>1. DocumentMoves /\ CopiesMove /\ LockIdsMove
    BY HowTheStoreMoves
  <2>2. /\ Created.lockId = 0 /\ SessionStateItem.lockId = 0
        /\ doc # NoDoc => doc \in Item /\ Older(doc).lockId = 0
        /\ \A r \in Requests :
             /\ Older(buf[r]).lockId = 0
             /\ Locking(buf[r]).lockId = 0
             /\ Releasing(buf[r]).lockId = 0
             /\ Written(r).lockId = 0
    BY OlderTyped, UpdatesTyped, WrittenTyped
       DEF TypeOK, LockIdNeverDistinguishes, Created, SessionStateItem
  <2>3. doc' # NoDoc => doc'.lockId = 0
    BY <2>1, <2>2 DEF DocumentMoves, LockIdNeverDistinguishes
  <2>4. \A q \in Requests : buf'[q].lockId = 0 /\ lockId'[q] \in {0, NoId}
    BY <2>1, <2>2 DEF CopiesMove, LockIdsMove, LockIdNeverDistinguishes
  <2>. QED
    BY <2>3, <2>4 DEF LockIdNeverDistinguishes
<1>. QED
  BY <1>1, <1>2, TypeCorrect, PTL DEF Spec

\* InitializeItem marks no document, and no copy of one, that holds data.
THEOREM NewIsWithoutData == Spec => []NewOnlyWithoutData
<1>1. Init => NewOnlyWithoutData
  BY DEF Init, NewOnlyWithoutData, SessionStateItem
<1>2. TypeOK /\ NewOnlyWithoutData /\ [Next]_vars => NewOnlyWithoutData'
  <2> SUFFICES ASSUME TypeOK, NewOnlyWithoutData, [Next]_vars
               PROVE  NewOnlyWithoutData'
    OBVIOUS
  <2> DEFINE Fits(item) == item.actions = "InitializeItem" => item.items = NoItems
  <2>1. DocumentMoves /\ CopiesMove
    BY HowTheStoreMoves
  <2>2. /\ Fits(Created) /\ Fits(SessionStateItem)
        /\ doc # NoDoc => Fits(doc) /\ Fits(Older(doc))
    BY OlderTyped DEF TypeOK, NewOnlyWithoutData, Created, SessionStateItem
  <2>3. ASSUME NEW r \in Requests
        PROVE  /\ Fits(buf[r]) /\ Fits(Older(buf[r]))
               /\ Fits(Locking(buf[r])) /\ Fits(Releasing(buf[r]))
    BY OlderTyped, UpdatesTyped DEF TypeOK, NewOnlyWithoutData
  <2>4. ASSUME NEW r \in Requests
        PROVE  Fits(Written(r))
    <3>1. view[r] \cup {r} \in Data
      BY DEF TypeOK, Data
    <3>. QED
      BY <3>1, WrittenTyped, NoItemsIsNoData
  <2> HIDE DEF Fits
  <2>5. doc' # NoDoc => Fits(doc')
    BY <2>1, <2>2, <2>3, <2>4 DEF DocumentMoves
  <2>6. \A q \in Requests : Fits(buf'[q])
    BY <2>1, <2>2, <2>3 DEF CopiesMove
  <2>. QED
    BY <2>5, <2>6 DEF NewOnlyWithoutData, Fits
<1>. QED
  BY <1>1, <1>2, TypeCorrect, PTL DEF Spec

-----------------------------------------------------------------------------
\* What a request's place says of what it was told and where it goes next.
Phases ==
  \A r \in Requests :
    /\ pc[r] = "Lock" => after[r] \in {"Handler", "Poll"}
    /\ pc[r] = "Set" => after[r] = "Touch"
    /\ newItem[r] => pc[r] \notin {"Idle", "Create", "Get", "Lock", "Poll"}
    /\ lockId[r] = NoId /\ ~newItem[r] =>
         pc[r] \notin {"Lock", "Poll", "Handler", "Set",
                      "ReleaseGet", "ReleasePut", "Remove"}
    /\ pc[r] \in {"ReleaseGet", "ReleasePut"} =>
         /\ after[r] \in {"Get", "Touch", "Done"}
         /\ after[r] = "Get" => ~newItem[r]

\* Where a request is determines what it will do next, and what it was told.
THEOREM PhasesHold == Spec => []Phases
<1>1. Init => Phases
  BY DEF Init, Phases
<1>2. TypeOK /\ Phases /\ [Next]_vars => Phases'
  <2> SUFFICES ASSUME TypeOK, Phases, [Next]_vars PROVE Phases'
    OBVIOUS
  <2> USE DEF TypeOK, Phases, Goto, Answer, LogAndOrThrow, store, given
  <2>1. CASE UNCHANGED vars
    BY <2>1 DEF vars
  <2>2. ASSUME NEW r \in Requests, Begin(r) \/ Crash(r) PROVE Phases'
    BY <2>2 DEF Begin, Crash
  <2>3. ASSUME NEW r \in Requests, Poll(r) PROVE Phases'
    BY <2>3 DEF Poll
  <2>4. ASSUME NEW r \in Requests, ReaderEnds(r) \/ SessionAbandoned(r) PROVE Phases'
    BY <2>4 DEF ReaderEnds, SessionAbandoned
  <2>5. ASSUME NEW r \in Requests, SessionChanged(r) \/ SessionUnchanged(r) PROVE Phases'
    BY <2>5 DEF SessionChanged, SessionUnchanged
  <2>6. ASSUME NEW r \in Requests, Create(r) PROVE Phases'
    BY <2>6 DEF Create
  <2>7. ASSUME NEW r \in Requests, Get(r) PROVE Phases'
    <3>1. CASE GetNull(r)
      BY <2>7, <3>1 DEF Get, GetNull
    <3>2. CASE GetFound(r)
      <4>1. doc.lockId # NoId
        BY <3>2, NoIdIsNoId DEF GetFound, Item
      <4>. QED
        BY <2>7, <3>2, <4>1 DEF Get, GetFound
    <3>. QED
      BY <2>7, <3>1, <3>2 DEF Get
  <2>8. ASSUME NEW r \in Requests, Lock(r) \/ ReleasePut(r) PROVE Phases'
    BY <2>8 DEF Lock, ReleasePut, Rewrite
  <2>9. ASSUME NEW r \in Requests, Set(r) PROVE Phases'
    BY <2>9 DEF Set
  <2>10. ASSUME NEW r \in Requests, ReleaseGet(r) PROVE Phases'
    BY <2>10 DEF ReleaseGet
  <2>11. ASSUME NEW r \in Requests, Touch(r) \/ Remove(r) PROVE Phases'
    BY <2>11 DEF Touch, Remove
  <2>12. CASE Expire \/ TimePasses
    BY <2>12 DEF Expire, TimePasses
  <2>. QED
    BY <2>1, <2>2, <2>3, <2>4, <2>5, <2>6, <2>7, <2>8, <2>9, <2>10, <2>11, <2>12
       DEF Next, Step, Module, Provider
<1>. QED
  BY <1>1, <1>2, TypeCorrect, PTL DEF Spec

\* A step moves no request but its own.
LEMMA OthersStay ==
  ASSUME TypeOK, NEW r \in Requests, Begin(r) \/ Step(r) \/ Crash(r),
         NEW q \in Requests, q # r
  PROVE  /\ pc'[q] = pc[q] /\ newItem'[q] = newItem[q] /\ logged'[q] = logged[q]
         /\ after'[q] = after[q] /\ view'[q] = view[q]
<1> USE DEF TypeOK, Goto, Answer, LogAndOrThrow, given
<1>1. CASE Begin(r) \/ Crash(r) \/ Module(r)
  BY <1>1 DEF Begin, Crash, Module, Poll, ReaderEnds, SessionChanged, SessionUnchanged,
     SessionAbandoned
<1>2. CASE Create(r) \/ Set(r) \/ Touch(r) \/ Remove(r)
  BY <1>2 DEF Create, Set, Touch, Remove
<1>3. CASE Get(r) \/ ReleaseGet(r)
  BY <1>3 DEF Get, GetNull, GetFound, ReleaseGet
<1>4. CASE Lock(r) \/ ReleasePut(r)
  BY <1>4 DEF Lock, ReleasePut, Rewrite
<1>. QED
  BY <1>1, <1>2, <1>3, <1>4 DEF Step, Provider

Locked == doc # NoDoc /\ doc.locked

\* Only the second half of an exclusive get locks the document.
LEMMA WhoLocks ==
  ASSUME TypeOK, [Next]_vars, Locked'
  PROVE  \/ Locked /\ doc'.locked
         \/ \E r \in Requests : pc[r] = "Lock"
<1>1. DocumentMoves
  BY HowTheStoreMoves
<1>2. /\ ~Created.locked
      /\ doc # NoDoc => Older(doc).locked = doc.locked
      /\ \A r \in Requests : ~Releasing(buf[r]).locked /\ ~Written(r).locked
  BY OlderTyped, UpdatesTyped, WrittenTyped DEF TypeOK, Created, SessionStateItem
<1>. QED
  BY <1>1, <1>2 DEF DocumentMoves, Locked

\* As long as no call fails, a writer on its way to unlock the document goes
\* on, unless it dies, until the document is unlocked.
LEMMA UnlockerGoesOn ==
  ASSUME Faults = {}, TypeOK, Phases, LockIdNeverDistinguishes, Locked',
         NEW r \in Requests, Step(r), WillUnlock(r)
  PROVE  WillUnlock(r)'
<1>1. /\ pc \in [Requests -> Places] /\ newItem \in [Requests -> BOOLEAN]
      /\ r \in Writers /\ r \notin Readers
  BY DEF TypeOK, WillUnlock, Writers
<1>2. SUFFICES \/ /\ pc'[r] \in {"Get", "Lock", "Poll"}
               \/ /\ pc'[r] \in {"Handler", "Set", "ReleaseGet", "ReleasePut", "Remove"}
                  /\ ~newItem'[r]
  BY <1>1, <1>2 DEF WillUnlock, Writers
<1>3. CASE Poll(r)
  BY <1>1, <1>3 DEF Poll, Goto, Phases, given
<1>4. CASE SessionChanged(r) \/ SessionUnchanged(r) \/ SessionAbandoned(r) \/ ReaderEnds(r)
  BY <1>1, <1>4 DEF SessionChanged, SessionUnchanged, SessionAbandoned, ReaderEnds, Goto,
     given, WillUnlock
<1>5. CASE pc[r] = "Get" /\ GetNull(r)
  BY <1>1, <1>5 DEF GetNull, Goto, Locked, store
<1>6. CASE pc[r] = "Get" /\ GetFound(r)
  BY <1>1, <1>6 DEF GetFound, Exclusive, Goto
<1>7. CASE Lock(r)
  <2>1. after[r] \in {"Handler", "Poll"} /\ ~newItem[r]
    BY <1>7 DEF Lock, Phases
  <2>2. newItem' = newItem /\ Answer(r, TRUE, after[r])
    BY <1>7 DEF Lock, Rewrite, Outcomes, given
  <2>. QED
    BY <1>1, <2>1, <2>2 DEF Answer, Goto
<1>8. CASE Set(r)
  <2>1. ~newItem[r]
    BY <1>8 DEF Set, WillUnlock
  <2>2. Write("ok", Written(r), Timeout)
    BY <1>8, <2>1 DEF Set, Outcomes
  <2>. QED
    BY <2>2, WrittenTyped DEF Write, Locked
<1>9. CASE ReleaseGet(r)
  <2>1. SameLockId(r) /\ ~newItem[r] /\ newItem' = newItem
    BY <1>9 DEF ReleaseGet, WillUnlock, SameLockId, LockIdNeverDistinguishes, Phases,
       Locked, store, given
  <2>2. Goto(r, "ReleasePut")
    BY <1>9, <2>1 DEF ReleaseGet
  <2>. QED
    BY <1>1, <2>1, <2>2 DEF Goto
<1>10. CASE ReleasePut(r)
  <2>1. Write("ok", Releasing(buf[r]), Releasing(buf[r]).timeout)
    BY <1>10 DEF ReleasePut, Rewrite, Releasing, Outcomes
  <2>2. ~Releasing(buf[r]).locked
    BY UpdatesTyped DEF TypeOK
  <2>. QED
    BY <2>1, <2>2 DEF Write, Locked
<1>11. CASE Remove(r)
  BY <1>11 DEF Remove, Write, Outcomes, Locked, store
<1>12. CASE Create(r) \/ Touch(r)
  BY <1>12 DEF Create, Touch, WillUnlock
<1>. QED
  BY <1>3, <1>4, <1>5, <1>6, <1>7, <1>8, <1>9, <1>10, <1>11, <1>12
     DEF Step, Module, Provider, Get

LEMMA AnswersOn ==
  ASSUME Faults = {}, TypeOK, Phases, LockIdNeverDistinguishes, Locked',
         NEW r \in Requests, Begin(r) \/ Step(r) \/ Crash(r), AnswersForLock(r)
  PROVE  AnswersForLock(r)'
<1>1. CASE WillUnlock(r) /\ Crash(r)
  BY <1>1 DEF TypeOK, Crash, Goto, AnswersForLock, WillUnlock, Writers
<1>2. CASE WillUnlock(r) /\ Step(r)
  BY <1>2, UnlockerGoesOn DEF AnswersForLock
<1>3. CASE WillUnlock(r) /\ Begin(r)
  BY <1>3 DEF WillUnlock, Begin
<1>4. CASE pc[r] = "Crashed"
  BY <1>4 DEF Begin, Step, Crash, Active, Resting, Module, Provider, Poll, ReaderEnds,
     SessionChanged, SessionUnchanged, SessionAbandoned, Create, Get, Lock, Set, ReleaseGet,
     ReleasePut, Touch, Remove
<1>. QED
  BY <1>1, <1>2, <1>3, <1>4 DEF AnswersForLock

\* As long as no call fails, every lock has a writer that answers for it.
THEOREM LocksAreAccountedFor ==
  ASSUME Faults = {}
  PROVE  Spec => []LocksAccountedFor
<1>1. Init => LocksAccountedFor
  BY DEF Init, LocksAccountedFor
<1>2. TypeOK /\ Phases /\ LockIdNeverDistinguishes /\ LocksAccountedFor /\ [Next]_vars
        => LocksAccountedFor'
  <2> SUFFICES ASSUME TypeOK, Phases, LockIdNeverDistinguishes, LocksAccountedFor,
                      [Next]_vars, Locked'
               PROVE  \E r \in Requests : AnswersForLock(r)'
    BY DEF LocksAccountedFor, Locked
  <2>1. PICK w \in Requests : AnswersForLock(w)
    <3>1. CASE Locked
      BY <3>1 DEF LocksAccountedFor, Locked
    <3>2. ASSUME NEW r \in Requests, pc[r] = "Lock" PROVE AnswersForLock(r)
      BY <3>2 DEF TypeOK, AnswersForLock, WillUnlock
    <3>. QED
      BY <3>1, <3>2, WhoLocks
  <2>2. CASE UNCHANGED vars \/ Expire \/ TimePasses
    BY <2>1, <2>2 DEF vars, Expire, TimePasses, AnswersForLock, WillUnlock, Writers, given
  <2>3. ASSUME NEW r \in Requests, Begin(r) \/ Step(r) \/ Crash(r)
        PROVE  AnswersForLock(w)'
    <3>1. CASE w = r
      BY <2>1, <2>3, <3>1, AnswersOn
    <3>2. CASE w # r
      BY <2>1, <2>3, <3>2, OthersStay DEF AnswersForLock, WillUnlock, Writers
    <3>. QED
      BY <3>1, <3>2
  <2>. QED
    BY <2>1, <2>2, <2>3 DEF Next
<1>. QED
  BY <1>1, <1>2, TypeCorrect, PhasesHold, LockIdsAreZero, PTL DEF Spec

-----------------------------------------------------------------------------
\* Uninitialized documents, and copies of them in use, have a Timeout.
UninitializedTimeout ==
  /\ doc # NoDoc /\ doc.actions = "InitializeItem" => doc.timeout # 0
  /\ \A r \in Requests :
       HasCopy(r) /\ buf[r].actions = "InitializeItem" => buf[r].timeout # 0

\* An uninitialized document always has an expiration.
THEOREM UninitializedDocumentsExpire == Spec => []UninitializedExpires
<1> DEFINE Inv == UninitializedTimeout /\ UninitializedExpires
<1>1. Init => Inv
  BY DEF Init, UninitializedTimeout, UninitializedExpires, HasCopy
<1>2. TypeOK /\ Inv /\ [Next]_vars => Inv'
  <2> SUFFICES ASSUME TypeOK, Inv, [Next]_vars PROVE Inv'
    OBVIOUS
  <2> USE DEF UninitializedTimeout, UninitializedExpires
  <2>0. pc \in [Requests -> Places] /\ buf \in [Requests -> Item]
    BY DEF TypeOK
  <2>1. CASE UNCHANGED vars \/ Expire
    BY <2>1 DEF vars, Expire, HasCopy
  <2>2. CASE TimePasses
    BY <2>0, <2>2, OlderTyped DEF TimePasses, HasCopy, TypeOK
  <2>3. ASSUME NEW r \in Requests, Begin(r) \/ Crash(r) \/ Module(r) PROVE Inv'
    BY <2>0, <2>3 DEF Begin, Crash, Module, Poll, ReaderEnds, SessionChanged,
       SessionUnchanged, SessionAbandoned, HasCopy, Goto, Forget, store
  <2>4. ASSUME NEW r \in Requests, Create(r) PROVE Inv'
    <3>1. Created.timeout # 0
      BY DEF Created, SessionStateItem, Timeout
    <3>2. \A q \in Requests : HasCopy(q)' => HasCopy(q)
      BY <2>0, <2>4 DEF Create, HasCopy, Answer, Goto, LogAndOrThrow
    <3>. QED
      BY <2>4, <3>1, <3>2 DEF Create, Write, store
  <2>5. ASSUME NEW r \in Requests, Get(r) \/ ReleaseGet(r) PROVE Inv'
    <3>1. \A q \in Requests :
            HasCopy(q)' => \/ HasCopy(q) /\ buf'[q] = buf[q]
                           \/ doc # NoDoc /\ buf'[q] = doc
      <4>1. CASE Get(r)
        BY <2>0, <4>1 DEF Get, GetNull, GetFound, HasCopy, Goto
      <4>2. CASE doc # NoDoc /\ buf' = [buf EXCEPT ![r] = doc] /\ Goto(r, "ReleasePut")
        BY <2>0, <4>2 DEF HasCopy, Goto
      <4>3. CASE ReleaseGet(r) /\ LogAndOrThrow(r, after[r]) /\ UNCHANGED buf
        BY <2>0, <4>3 DEF ReleaseGet, HasCopy, LogAndOrThrow, TypeOK
      <4>. QED
        BY <2>5, <4>1, <4>2, <4>3 DEF ReleaseGet, SameLockId
    <3>2. UNCHANGED store
      BY <2>5 DEF Get, GetNull, GetFound, ReleaseGet
    <3>. QED
      BY <3>1, <3>2 DEF store
  <2>6. ASSUME NEW r \in Requests, Lock(r) \/ ReleasePut(r) PROVE Inv'
    <3>1. HasCopy(r)
      BY <2>6 DEF Lock, ReleasePut, HasCopy
    <3>2. PICK outcome \in Outcomes, item \in {Locking(buf[r]), Releasing(buf[r])} :
            Write(outcome, item, item.timeout) /\ Answer(r, outcome = "ok", after[r])
      BY <2>6 DEF Lock, ReleasePut, Rewrite, Locking, Releasing
    <3>3. item.timeout = buf[r].timeout /\ item.actions = buf[r].actions
      BY <2>0, UpdatesTyped
    <3>4. \A q \in Requests : HasCopy(q)' => HasCopy(q) /\ buf'[q] = buf[q]
      BY <2>0, <2>6, <3>2 DEF Lock, ReleasePut, Rewrite, Forget, HasCopy, Answer, Goto,
         LogAndOrThrow, TypeOK
    <3>. QED
      BY <3>1, <3>2, <3>3, <3>4 DEF Write, store
  <2>7. ASSUME NEW r \in Requests, Set(r) PROVE Inv'
    <3>1. \A q \in Requests : HasCopy(q)' => HasCopy(q)
      BY <2>0, <2>7 DEF Set, HasCopy, Answer, Goto, LogAndOrThrow
    <3>. QED
      BY <2>7, <3>1, WrittenTyped DEF Set, Write, store
  <2>8. ASSUME NEW r \in Requests, Touch(r) \/ Remove(r) PROVE Inv'
    <3>1. \A q \in Requests : HasCopy(q)' => HasCopy(q)
      BY <2>0, <2>8 DEF Touch, Remove, HasCopy, Answer, Goto, LogAndOrThrow
    <3>. QED
      BY <2>8, <3>1 DEF Touch, Remove, Write, store, Timeout
  <2>. QED
    BY <2>1, <2>2, <2>3, <2>4, <2>5, <2>6, <2>7, <2>8 DEF Next, Step, Provider
<1>. QED
  BY <1>1, <1>2, TypeCorrect, PTL DEF Spec

\* A request that has set the session has done so for good.
LEMMA SetForGood ==
  ASSUME TypeOK, Phases, [Next]_vars, NEW q \in Requests, HasSet(q)
  PROVE  HasSet(q)'
<1>1. pc \in [Requests -> Places] /\ pc[q] \notin {"Idle", "Create", "Get", "Lock", "Poll",
        "Handler", "Set", "Remove"} /\ after[q] = "Touch"
  BY DEF TypeOK, HasSet
<1> USE DEF HasSet, Goto, Answer, LogAndOrThrow, given
<1>2. CASE UNCHANGED vars \/ Expire \/ TimePasses
  BY <1>1, <1>2 DEF vars, Expire, TimePasses
<1>3. ASSUME NEW r \in Requests, Begin(r) \/ Crash(r) PROVE HasSet(q)'
  BY <1>1, <1>3 DEF Begin, Crash
<1>4. ASSUME NEW r \in Requests, Module(r) PROVE HasSet(q)'
  BY <1>1, <1>4 DEF Module, Poll, ReaderEnds, SessionChanged, SessionUnchanged,
     SessionAbandoned, TypeOK
<1>5. ASSUME NEW r \in Requests, Create(r) \/ Set(r) \/ Touch(r) \/ Remove(r)
      PROVE  HasSet(q)'
  BY <1>1, <1>5 DEF Create, Set, Touch, Remove
<1>6. ASSUME NEW r \in Requests, Get(r) PROVE HasSet(q)'
  BY <1>1, <1>6 DEF Get, GetNull, GetFound, TypeOK
<1>7. ASSUME NEW r \in Requests, Lock(r) \/ ReleaseGet(r) \/ ReleasePut(r) PROVE HasSet(q)'
  BY <1>1, <1>7 DEF Lock, ReleaseGet, ReleasePut, Rewrite
<1>. QED
  BY <1>2, <1>3, <1>4, <1>5, <1>6, <1>7 DEF Next, Step, Provider

\* Handlers see, and the bucket holds, committed changes only.
THEOREM OnlyCommittedIsSeen == Spec => []OnlyCommittedData
<1>1. Init => OnlyCommittedData
  BY DEF Init, OnlyCommittedData, SessionStateItem, Deserialize
<1>2. TypeOK /\ Phases /\ OnlyCommittedData /\ [Next]_vars => OnlyCommittedData'
  <2> SUFFICES ASSUME TypeOK, Phases, OnlyCommittedData, [Next]_vars
               PROVE  OnlyCommittedData'
    OBVIOUS
  <2> DEFINE Committed == {r \in Requests : HasSet(r)}
             Fine(items) == Deserialize(items) \subseteq Committed
  <2>1. Committed \subseteq Committed'
    BY SetForGood
  <2>2. DocumentMoves /\ CopiesMove /\ ViewsMove
    BY HowTheStoreMoves
  <2>3. /\ Fine(NoItems) /\ Created.items = NoItems /\ SessionStateItem.items = NoItems
        /\ doc # NoDoc => Fine(doc.items) /\ Older(doc).items = doc.items
        /\ \A r \in Requests :
             /\ Fine(buf[r].items) /\ view[r] \subseteq Committed
             /\ Older(buf[r]).items = buf[r].items
             /\ Locking(buf[r]).items = buf[r].items
             /\ Releasing(buf[r]).items = buf[r].items
    BY OlderTyped, UpdatesTyped
       DEF TypeOK, OnlyCommittedData, Created, SessionStateItem, Deserialize
  <2>4. ASSUME NEW r \in Requests, SetsNow(r)
        PROVE  Deserialize(Written(r).items) \subseteq Committed'
    <3>1. HasSet(r)'
      BY <2>4 DEF SetsNow, HasSet, Phases
    <3>2. view[r] \cup {r} \in Data /\ Written(r).items = view[r] \cup {r}
      BY WrittenTyped DEF TypeOK, Data
    <3>. QED
      BY <2>1, <2>3, <3>1, <3>2, NoItemsIsNoData DEF Deserialize
  <2> HIDE DEF Committed
  <2>5. doc' # NoDoc => Deserialize(doc'.items) \subseteq Committed'
    BY <2>1, <2>2, <2>3, <2>4 DEF DocumentMoves
  <2>6. \A q \in Requests : /\ view'[q] \subseteq Committed'
                            /\ Deserialize(buf'[q].items) \subseteq Committed'
    BY <2>1, <2>2, <2>3 DEF CopiesMove, ViewsMove
  <2>. QED
    BY <2>5, <2>6 DEF OnlyCommittedData, Committed, Deserialize
<1>. QED
  BY <1>1, <1>2, TypeCorrect, PhasesHold, PTL DEF Spec
-----------------------------------------------------------------------------
(* Requests of which the client sends one after another those that write.    *)
(* Others may overlap them if they only read; but a reader that clears an    *)
(* old lock rewrites the document, so then no lock may grow that old.        *)

LocksStayYoung == MaxAge <= ExecutionTimeout /\ 0 <= ExecutionTimeout

OneWriterAtATime ==
  /\ Requests \ Serial \subseteq Readers \ Creators
  /\ Serial = Requests \/ LocksStayYoung

\* Where a request that overlaps others may be: it neither creates nor locks,
\* writes nor releases.
Looking(r) == pc[r] \in Resting \cup {"Get", "Poll", "Handler"}

\* What a request in its turn knows: its copy has the data of the document,
\* which it was given unless it was told that there is none, and its change is
\* stored from the Set on, unless something failed.
Working(r) == pc[r] \in {"Handler", "Set"} \/ (pc[r] = "Lock" /\ after[r] = "Handler")
Setting(r) ==
  pc[r] = "Touch" \/ (pc[r] \in {"ReleaseGet", "ReleasePut"} /\ after[r] = "Touch")

InTurn(r) ==
  /\ HasCopy(r) /\ doc # NoDoc => doc.items = buf[r].items
  /\ HasCopy(r) /\ doc = NoDoc => ExpiryRaces
  /\ Working(r) /\ ~newItem[r] =>
       /\ doc # NoDoc => Deserialize(doc.items) \subseteq view[r]
       /\ pc[r] = "Lock" => Deserialize(buf[r].items) \subseteq view[r]
  /\ Setting(r) /\ ~logged[r] =>
       /\ doc # NoDoc => r \in Deserialize(doc.items)
       /\ pc[r] = "ReleasePut" => r \in Deserialize(buf[r].items)

Turns ==
  /\ \A r, q \in Serial : Active(r) /\ Active(q) => r = q
  /\ \A r \in Serial : InTurn(r)
  /\ \A r \in Requests \ Serial : Looking(r)

\* What a request's own step leaves it knowing.
LEMMA StepInTurn ==
  ASSUME TypeOK, Phases, NEW r \in Requests, InTurn(r), Begin(r) \/ Step(r) \/ Crash(r)
  PROVE  InTurn(r)'
<1>0. /\ pc \in [Requests -> Places] /\ buf \in [Requests -> Item]
      /\ view \in [Requests -> Data] /\ newItem \in [Requests -> BOOLEAN]
      /\ after \in [Requests -> {"Handler", "Poll", "Get", "Touch", "Done"}]
      /\ logged \in [Requests -> BOOLEAN]
  BY DEF TypeOK
<1> USE <1>0 DEF InTurn, Working, Setting, HasCopy, Goto, Answer, LogAndOrThrow, store, given
<1>1. CASE Begin(r) \/ Crash(r)
  BY <1>1 DEF Begin, Crash
<1>2. CASE Module(r)
  BY <1>2 DEF Module, Poll, ReaderEnds, SessionChanged, SessionUnchanged, SessionAbandoned
<1>3. CASE Create(r)
  BY <1>3 DEF Create
<1>4. CASE Get(r)
  BY <1>4 DEF Get, GetNull, GetFound
<1>5. CASE Lock(r)
  <2>1. doc' = doc \/ doc'.items = buf[r].items
    BY <1>5, UpdatesTyped DEF Lock, Rewrite, Write, Locking
  <2>. QED
    BY <1>5, <2>1 DEF Lock, Rewrite, Phases
<1>6. CASE Set(r)
  <2>1. /\ after[r] = "Touch"
        /\ Written(r).items = view[r] \cup {r} /\ view[r] \cup {r} \in Data
    BY <1>6, WrittenTyped DEF Set, Phases, Data
  <2>2. ~logged'[r] => doc' = Written(r)
    BY <1>6 DEF Set, Write
  <2>3. r \in Deserialize(Written(r).items)
    BY <2>1, NoItemsIsNoData DEF Deserialize
  <2>. QED
    BY <1>6, <2>1, <2>2, <2>3 DEF Set
<1>7. CASE ReleaseGet(r)
  BY <1>7 DEF ReleaseGet, SameLockId, Phases
<1>8. CASE ReleasePut(r)
  <2>1. doc' = doc \/ doc'.items = buf[r].items
    BY <1>8, UpdatesTyped DEF ReleasePut, Rewrite, Write, Releasing
  <2>. QED
    BY <1>8, <2>1 DEF ReleasePut, Rewrite, Phases
<1>9. CASE Touch(r) \/ Remove(r)
  BY <1>9 DEF Touch, Remove
<1>. QED
  BY <1>1, <1>2, <1>3, <1>4, <1>5, <1>6, <1>7, <1>8, <1>9 DEF Step, Provider

\* The clock and the expiry of the document take nothing from what it knows.
LEMMA ClockInTurn ==
  ASSUME TypeOK, NEW r \in Requests, InTurn(r), Expire \/ TimePasses
  PROVE  InTurn(r)'
<1> USE DEF InTurn, Working, Setting
<1>1. CASE Expire
  BY <1>1 DEF Expire, HasCopy, given
<1>2. CASE TimePasses
  <2>1. doc = NoDoc <=> doc' = NoDoc
    BY <1>2, OlderTyped, NoDocIsNoItem DEF TimePasses, TypeOK
  <2>2. /\ doc # NoDoc => doc'.items = doc.items
        /\ buf'[r].items = buf[r].items
    BY <1>2, OlderTyped DEF TimePasses, TypeOK
  <2>. QED
    BY <1>2, <2>1, <2>2 DEF TimePasses, HasCopy, given
<1>. QED
  BY <1>1, <1>2

\* A serial request takes a step only when it is under way, or begins when no
\* other one is.
LEMMA StepIsActive ==
  ASSUME NEW r \in Serial, Begin(r) \/ Step(r) \/ Crash(r)
  PROVE  Active(r) \/ \A q \in Serial : ~Active(q)
BY DEF Begin, Crash, Step, Module, Provider, Poll, ReaderEnds, SessionChanged,
   SessionUnchanged, SessionAbandoned, Create, Get, Lock, Set, ReleaseGet, ReleasePut,
   Touch, Remove, Active, Resting

\* A request that overlaps others goes on looking and leaves the document alone.
LEMMA LookingOn ==
  ASSUME OneWriterAtATime, TypeOK, NEW r \in Requests \ Serial, Looking(r),
         Begin(r) \/ Step(r) \/ Crash(r)
  PROVE  Looking(r)' /\ doc' = doc
<1>1. r \in Readers /\ r \notin Creators /\ r \notin Writers /\ ~Exclusive(r)
  BY DEF OneWriterAtATime, Writers, Exclusive
<1>2. lockAge[r] <= ExecutionTimeout
  BY DEF TypeOK, Ages, OneWriterAtATime, LocksStayYoung
<1> USE DEF TypeOK, Looking, Resting, Goto, store
<1>3. CASE Begin(r) \/ Crash(r)
  BY <1>1, <1>3 DEF Begin, Crash
<1>4. CASE Module(r)
  <2>1. lockAge[r] \in Int
    BY DEF Ages
  <2>2. ~(lockAge[r] > ExecutionTimeout)
    BY <1>2, <2>1
  <2>. QED
    BY <1>1, <1>4, <2>2 DEF Module, Poll, ReaderEnds, SessionChanged, SessionUnchanged,
       SessionAbandoned
<1>5. CASE Get(r)
  BY <1>1, <1>5 DEF Get, GetNull, GetFound
<1>6. CASE Create(r) \/ Lock(r) \/ Set(r) \/ ReleaseGet(r) \/ ReleasePut(r) \/ Touch(r)
           \/ Remove(r)
  BY <1>6 DEF Create, Lock, Set, ReleaseGet, ReleasePut, Touch, Remove
<1>. QED
  BY <1>3, <1>4, <1>5, <1>6 DEF Step, Provider

\* A step of another request that leaves the document alone, or that finds
\* this one at rest, takes nothing from what it knows.
LEMMA OthersInTurn ==
  ASSUME TypeOK, NEW r \in Requests, Begin(r) \/ Step(r) \/ Crash(r),
         NEW q \in Requests, q # r, InTurn(q), doc' = doc \/ ~Active(q)
  PROVE  InTurn(q)'
<1>1. /\ pc'[q] = pc[q] /\ newItem'[q] = newItem[q] /\ logged'[q] = logged[q]
      /\ after'[q] = after[q] /\ view'[q] = view[q]
  BY OthersStay
<1>2. HasCopy(q) => buf'[q] = buf[q]
  <2> USE DEF TypeOK, Forget
  <2>1. CASE Begin(r) \/ Crash(r) \/ Module(r)
    BY <2>1 DEF Begin, Crash, Module, Poll, ReaderEnds, SessionChanged, SessionUnchanged,
       SessionAbandoned
  <2>2. CASE Create(r) \/ Set(r) \/ Touch(r) \/ Remove(r)
    BY <2>2 DEF Create, Set, Touch, Remove
  <2>3. CASE Get(r) \/ ReleaseGet(r)
    BY <2>3 DEF Get, GetNull, GetFound, ReleaseGet
  <2>4. CASE Lock(r) \/ ReleasePut(r)
    BY <2>4 DEF Lock, ReleasePut, Rewrite
  <2>. QED
    BY <2>1, <2>2, <2>3, <2>4 DEF Step, Provider
<1>3. CASE ~Active(q)
  BY <1>1, <1>3 DEF Active, Resting, InTurn, Working, Setting, HasCopy
<1>4. CASE doc' = doc
  BY <1>1, <1>2, <1>4 DEF InTurn, Working, Setting, HasCopy, Deserialize
<1>. QED
  BY <1>3, <1>4

\* One request that may write is under way at a time, and it knows the session.
LEMMA TurnsHold ==
  ASSUME OneWriterAtATime
  PROVE  Spec => []Turns
<1>1. Init => Turns
  BY DEF Init, Turns, Active, Resting, Looking, InTurn, Working, Setting, HasCopy
<1>2. TypeOK /\ Phases /\ Turns /\ [Next]_vars => Turns'
  <2> SUFFICES ASSUME TypeOK, Phases, Turns, [Next]_vars PROVE Turns'
    OBVIOUS
  <2>1. CASE UNCHANGED vars
    BY <2>1 DEF vars, Turns, Active, Looking, InTurn, Working, Setting, HasCopy, Deserialize
  <2>2. CASE Expire \/ TimePasses
    <3>1. \A q \in Serial : InTurn(q)'
      BY <2>2, ClockInTurn DEF Turns
    <3>. QED
      BY <2>2, <3>1 DEF Turns, Active, Looking, Expire, TimePasses
  <2>3. ASSUME NEW r \in Serial, Begin(r) \/ Step(r) \/ Crash(r) PROVE Turns'
    <3>1. InTurn(r)'
      BY <2>3, StepInTurn DEF Turns
    <3>2. \A q \in Requests \ {r} : pc'[q] = pc[q]
      BY <2>3, OthersStay
    <3>3. \A q \in Serial \ {r} : ~Active(q)
      BY <2>3, StepIsActive DEF Turns
    <3>4. \A q \in Serial \ {r} : ~Active(q)' /\ InTurn(q)'
      BY <2>3, <3>2, <3>3, OthersInTurn DEF Active, Turns
    <3>. QED
      BY <3>1, <3>2, <3>4 DEF Turns, Looking
  <2>4. ASSUME NEW r \in Requests \ Serial, Begin(r) \/ Step(r) \/ Crash(r) PROVE Turns'
    <3>1. Looking(r)' /\ doc' = doc
      BY <2>4, LookingOn DEF Turns
    <3>2. \A q \in Requests \ {r} : pc'[q] = pc[q]
      BY <2>4, OthersStay
    <3>3. \A q \in Serial : InTurn(q)'
      BY <2>4, <3>1, OthersInTurn DEF Turns
    <3>. QED
      BY <3>1, <3>2, <3>3 DEF Turns, Active, Looking
  <2>. QED
    BY <2>1, <2>2, <2>3, <2>4 DEF Next
<1>. QED
  BY <1>1, <1>2, TypeCorrect, PhasesHold, PTL DEF Spec

\* The data of a session, written to serially, only grows until its document goes.
THEOREM NoUpdateIsLost ==
  ASSUME OneWriterAtATime
  PROVE  Spec => NoLostUpdate
<1>1. TypeOK /\ Phases /\ Turns /\ [Next]_vars =>
        [doc # NoDoc /\ doc' # NoDoc =>
           Deserialize(doc.items) \subseteq Deserialize(doc'.items)]_vars
  <2> SUFFICES ASSUME TypeOK, Phases, Turns, [Next]_vars, doc # NoDoc, doc' # NoDoc
               PROVE  Deserialize(doc.items) \subseteq Deserialize(doc'.items)
    OBVIOUS
  <2>1. CASE doc' = doc
    BY <2>1
  <2>2. CASE TimePasses
    BY <2>2, OlderTyped DEF TimePasses, TypeOK
  <2>3. ASSUME NEW r \in Requests, Lock(r) \/ ReleasePut(r)
        PROVE  Deserialize(doc.items) \subseteq Deserialize(doc'.items)
    <3>1. doc.items = buf[r].items
      BY <2>3 DEF Lock, ReleasePut, Turns, Looking, Resting, InTurn, HasCopy
    <3>2. doc' \in {doc, Locking(buf[r]), Releasing(buf[r])}
      BY <2>3 DEF Lock, ReleasePut, Rewrite, Write, Locking, Releasing, store
    <3>. QED
      BY <3>1, <3>2, UpdatesTyped DEF TypeOK
  <2>4. ASSUME NEW r \in Requests, Set(r), doc' # doc
        PROVE  Deserialize(doc.items) \subseteq Deserialize(doc'.items)
    <3>1. ~newItem[r] /\ doc' = Written(r)
      BY <2>4 DEF Set, Write, store
    <3>2. Deserialize(doc.items) \subseteq view[r]
      BY <2>4, <3>1 DEF Set, Turns, Looking, Resting, InTurn, Working
    <3>3. view[r] \cup {r} \in Data /\ Written(r).items = view[r] \cup {r}
      BY WrittenTyped DEF TypeOK, Data
    <3>. QED
      BY <3>1, <3>2, <3>3, NoItemsIsNoData DEF Deserialize
  <2>5. ASSUME NEW r \in Requests,
               \/ Begin(r) \/ Crash(r) \/ Module(r) \/ Create(r) \/ Get(r)
               \/ ReleaseGet(r) \/ Touch(r) \/ Remove(r)
        PROVE  doc' = doc
    BY <2>5 DEF Begin, Crash, Module, Poll, ReaderEnds, SessionChanged, SessionUnchanged,
       SessionAbandoned, Create, Get, GetNull, GetFound, ReleaseGet, Touch, Remove, Write, store
  <2>. QED
    BY <2>1, <2>2, <2>3, <2>4, <2>5 DEF Next, Step, Provider, Expire, vars
<1>. QED
  BY <1>1, TypeCorrect, PhasesHold, TurnsHold, PTL DEF Spec, NoLostUpdate

\* A request that ends with no error logged has stored its change, if those that
\* write are serial.
THEOREM DoneIsSaved ==
  ASSUME OneWriterAtATime
  PROVE  Spec => DoneMeansSaved
<1>1. TypeOK /\ Phases /\ Turns /\ [Next]_vars =>
        [\A r \in Requests :
           pc[r] = "Touch" /\ pc'[r] = "Done" /\ ~logged'[r] =>
             doc' # NoDoc /\ r \in Deserialize(doc'.items)]_vars
  <2> SUFFICES ASSUME TypeOK, Phases, Turns, [Next]_vars, NEW r \in Requests,
                      pc[r] = "Touch", pc'[r] = "Done", ~logged'[r]
               PROVE  doc' # NoDoc /\ r \in Deserialize(doc'.items)
    OBVIOUS
  <2>1. PICK q \in Requests : Begin(q) \/ Step(q) \/ Crash(q)
    BY DEF Next, vars, Expire, TimePasses
  <2>2. q = r
    BY <2>1, OthersStay
  <2>3. Touch(r)
    BY <2>1, <2>2 DEF Begin, Crash, Step, Module, Provider, Poll, ReaderEnds,
       SessionChanged, SessionUnchanged, SessionAbandoned, Create, Get, Lock, Set,
       ReleaseGet, ReleasePut, Remove, Goto, TypeOK
  <2>4. doc' = doc /\ doc # NoDoc /\ ~logged[r]
    BY <2>3 DEF Touch, Write, Answer, Goto, LogAndOrThrow, store, TypeOK
  <2>. QED
    BY <2>4 DEF Turns, Looking, Resting, InTurn, Setting
<1>. QED
  BY <1>1, TypeCorrect, PhasesHold, TurnsHold, PTL DEF Spec, DoneMeansSaved
-----------------------------------------------------------------------------
(* The provider implements the contract of SessionStore, if the client sends *)
(* the requests that write one after another, no bucket call fails, and the  *)
(* document does not expire between the two halves of a provider call.       *)

FaultFree == OneWriterAtATime /\ Faults = {} /\ ~ExpiryRaces

\* A request that waits for the session was given none of its data, and only
\* a writer changes the session.
Roles ==
  \A r \in Requests :
    /\ Phase(r) = "waiting" => view[r] = {}
    /\ pc[r] \in {"Set", "Remove"} => r \in Writers

\* The two hold always, however requests interleave.
LEMMA RolesHold == Spec => []Roles
<1>1. Init => Roles
  BY DEF Init, Roles
<1>2. TypeOK /\ Phases /\ Roles /\ [Next]_vars => Roles'
  <2> SUFFICES ASSUME TypeOK, Phases, Roles, [Next]_vars PROVE Roles'
    OBVIOUS
  <2>0. /\ pc \in [Requests -> Places] /\ view \in [Requests -> Data]
        /\ after \in [Requests -> {"Handler", "Poll", "Get", "Touch", "Done"}]
    BY DEF TypeOK
  <2> USE <2>0 DEF Roles, Phase, Goto, Answer, LogAndOrThrow, given
  <2>1. CASE UNCHANGED vars \/ Expire \/ TimePasses
    BY <2>1 DEF vars, Expire, TimePasses
  <2>2. ASSUME NEW r \in Requests, Begin(r) \/ Crash(r) PROVE Roles'
    BY <2>2 DEF Begin, Crash
  <2>3. ASSUME NEW r \in Requests, Module(r) PROVE Roles'
    BY <2>3 DEF Module, Poll, ReaderEnds, SessionChanged, SessionUnchanged, SessionAbandoned
  <2>4. ASSUME NEW r \in Requests, Create(r) PROVE Roles'
    BY <2>4 DEF Create
  <2>5. ASSUME NEW r \in Requests, Get(r) PROVE Roles'
    BY <2>5 DEF Get, GetNull, GetFound
  <2>6. ASSUME NEW r \in Requests, Lock(r) PROVE Roles'
    BY <2>6 DEF Lock, Rewrite, Phases
  <2>7. ASSUME NEW r \in Requests, ReleaseGet(r) PROVE Roles'
    BY <2>7 DEF ReleaseGet, Phases
  <2>8. ASSUME NEW r \in Requests, ReleasePut(r) PROVE Roles'
    BY <2>8 DEF ReleasePut, Rewrite, Phases
  <2>9. ASSUME NEW r \in Requests, Set(r) PROVE Roles'
    BY <2>9 DEF Set, Phases
  <2>10. ASSUME NEW r \in Requests, Touch(r) \/ Remove(r) PROVE Roles'
    BY <2>10 DEF Touch, Remove
  <2>. QED
    BY <2>1, <2>2, <2>3, <2>4, <2>5, <2>6, <2>7, <2>8, <2>9, <2>10 DEF Next, Step, Provider
<1>. QED
  BY <1>1, <1>2, TypeCorrect, PhasesHold, PTL DEF Spec

\* What a step of a request is in the contract: nothing, Leave, Acquire,
\* Commit or Abandon, or Uninitialized.
Unseen(r) == view'[r] = view[r]
ContractMove(r) ==
  \/ Session' = Session /\ Unseen(r) /\ Phase(r)' = Phase(r)
  \/ /\ Session' = Session /\ Unseen(r)
     /\ Phase(r) # "finished" /\ Phase(r)' = "finished"
  \/ /\ Session' = Session
     /\ view'[r] = IF Session = NoDoc THEN {} ELSE Session
     /\ Phase(r) = "waiting" /\ Phase(r)' = "working"
  \/ /\ Session' \in {view[r] \cup {r}, NoDoc} /\ Unseen(r) /\ r \notin Readers
     /\ Phase(r) = "working" /\ Phase(r)' = "finished"
  \/ Session = NoDoc /\ Session' = {} /\ Unseen(r) /\ Phase(r)' = Phase(r)

\* A step of the module changes at most where the request is in the contract.
LEMMA ModuleMove ==
  ASSUME TypeOK, Phases, NEW r \in Requests, Begin(r) \/ Module(r) \/ Crash(r)
  PROVE  ContractMove(r)
<1>0. /\ pc \in [Requests -> Places] /\ view \in [Requests -> Data]
      /\ after \in [Requests -> {"Handler", "Poll", "Get", "Touch", "Done"}]
  BY DEF TypeOK
<1> USE <1>0 DEF ContractMove, Unseen, Session, Phase, Goto, store, given
<1>1. CASE Begin(r)
  BY <1>1 DEF Begin
<1>2. CASE Crash(r)
  BY <1>2 DEF Crash
<1>3. CASE Poll(r)
  BY <1>3 DEF Poll
<1>4. CASE ReaderEnds(r) \/ SessionChanged(r) \/ SessionUnchanged(r) \/ SessionAbandoned(r)
  BY <1>4 DEF ReaderEnds, SessionChanged, SessionUnchanged, SessionAbandoned
<1>. QED
  BY <1>1, <1>2, <1>3, <1>4 DEF Module

\* A step of the provider is one of the contract.
LEMMA ProviderMove ==
  ASSUME FaultFree, NoDoc \notin Data, TypeOK, Phases, Roles, NEW r \in Requests,
         InTurn(r) \/ Looking(r), Provider(r)
  PROVE  ContractMove(r)
<1>0. /\ pc \in [Requests -> Places] /\ view \in [Requests -> Data]
      /\ after \in [Requests -> {"Handler", "Poll", "Get", "Touch", "Done"}]
      /\ doc # NoDoc => doc \in Item /\ Deserialize(doc.items) \in Data
      /\ Outcomes = {"ok"}
  BY DEF TypeOK, FaultFree, Outcomes, Item, Deserialize, Data
<1> USE <1>0 DEF ContractMove, Unseen, Phase, Goto, Answer, LogAndOrThrow, store, given
<1>1. CASE Create(r)
  <2>1. CASE doc = NoDoc
    <3>1. doc' = Created /\ Created # NoDoc /\ Created.items = NoItems
      BY <1>1, <2>1, ConstructorTyped, NoDocIsNoItem
         DEF Create, Write, Created, SessionStateItem, Item, Timeout
    <3>. QED
      BY <1>1, <2>1, <3>1 DEF Create, Session, Deserialize
  <2>2. CASE doc # NoDoc
    BY <1>1, <2>2 DEF Create, Session
  <2>. QED
    BY <2>1, <2>2
<1>2. CASE Get(r)
  <2>1. CASE GetNull(r)
    BY <1>2, <2>1 DEF Get, GetNull, FaultFree, Session
  <2>2. CASE GetFound(r)
    <3>1. Session = Deserialize(doc.items) /\ Session' = Session /\ Session # NoDoc
      BY <2>2 DEF GetFound, Session, Data
    <3>2. view[r] = {}
      BY <1>2 DEF Get, Roles
    <3>. QED
      BY <1>2, <2>2, <3>1, <3>2 DEF Get, GetFound
  <2>. QED
    BY <1>2, <2>1, <2>2 DEF Get
<1>3. CASE Lock(r) \/ ReleasePut(r)
  <2>1. doc # NoDoc /\ doc.items = buf[r].items
    BY <1>3 DEF Lock, ReleasePut, Looking, Resting, InTurn, HasCopy, FaultFree
  <2>2. doc' \in {Locking(buf[r]), Releasing(buf[r])}
    BY <1>3 DEF Lock, ReleasePut, Rewrite, Write, Locking, Releasing
  <2>3. doc' # NoDoc /\ doc'.items = doc.items
    BY <2>1, <2>2, UpdatesTyped, NoDocIsNoItem DEF TypeOK
  <2>4. Session' = Session
    BY <2>1, <2>3 DEF Session, Deserialize
  <2>. QED
    BY <1>3, <2>4 DEF Lock, ReleasePut, Rewrite, Phases
<1>4. CASE Set(r)
  <2>1. CASE newItem[r] /\ doc # NoDoc
    BY <1>4, <2>1 DEF Set, Session, Phases
  <2>2. CASE ~(newItem[r] /\ doc # NoDoc)
    <3>1. doc' = Written(r) /\ Written(r) # NoDoc
      BY <1>4, <2>2, WrittenTyped, NoDocIsNoItem DEF Set, Write
    <3>2. Written(r).items = view[r] \cup {r} /\ view[r] \cup {r} \in Data
      BY WrittenTyped DEF Data
    <3>3. Session' = view[r] \cup {r}
      BY <3>1, <3>2, NoItemsIsNoData DEF Session, Deserialize
    <3>. QED
      BY <1>4, <2>2, <3>3 DEF Set, Phases, Roles, Writers
  <2>. QED
    BY <2>1, <2>2
<1>5. CASE ReleaseGet(r)
  BY <1>5 DEF ReleaseGet, Phases, Session
<1>6. CASE Touch(r)
  BY <1>6 DEF Touch, Write, Session
<1>7. CASE Remove(r)
  BY <1>7 DEF Remove, Write, Session, Roles, Writers
<1>. QED
  BY <1>1, <1>2, <1>3, <1>4, <1>5, <1>6, <1>7 DEF Provider

\* A step of one request moves none of the others in the contract.
LEMMA OthersUnmoved ==
  ASSUME TypeOK, NEW r \in Requests, Begin(r) \/ Step(r) \/ Crash(r),
         NEW q \in Requests, q # r
  PROVE  Phase(q)' = Phase(q) /\ Unseen(q)
BY OthersStay DEF Phase, Unseen

\* A move of one request, no other writer being at work, is a step of the contract.
LEMMA MovesAreSteps ==
  ASSUME TypeOK, NEW r \in Requests, ContractMove(r),
         \A q \in Requests \ {r} : Phase(q)' = Phase(q) /\ Unseen(q),
         r \in Readers \/ \A q \in Writers \ {r} : ~Active(q),
         view' \in [Requests -> Data]
  PROVE  [Contract!Next]_(Contract!vars)
<1> DEFINE phase == [q \in Requests |-> Phase(q)]
           seen == [q \in Requests |-> view[q]]
<1>0. seen = view /\ seen' = view'
  BY DEF TypeOK
<1>1. CASE Session' = Session /\ Unseen(r) /\ Phase(r)' = Phase(r)
  <2>1. phase' = phase /\ seen' = seen
    BY <1>1 DEF Unseen
  <2>. QED
    BY <1>1, <2>1 DEF Contract!vars
<1>2. CASE /\ Session' = Session /\ Unseen(r)
           /\ Phase(r) # "finished" /\ Phase(r)' = "finished"
  <2>1. phase' = [phase EXCEPT ![r] = "finished"] /\ seen' = seen
    BY <1>2 DEF Unseen
  <2>. QED
    BY <1>2, <2>1 DEF Contract!Next, Contract!Leave
<1>3. CASE /\ Session' = Session
           /\ view'[r] = IF Session = NoDoc THEN {} ELSE Session
           /\ Phase(r) = "waiting" /\ Phase(r)' = "working"
  <2>1. /\ phase' = [phase EXCEPT ![r] = "working"]
        /\ seen' = [seen EXCEPT ![r] = IF Session = NoDoc THEN {} ELSE Session]
    BY <1>3 DEF Unseen
  <2>2. r \notin Readers => \A q \in Requests \ Readers : phase[q] # "working"
    BY <1>3 DEF Phase, Active, Resting, Writers
  <2>. QED
    BY <1>3, <2>1, <2>2 DEF Contract!Next, Contract!Acquire
<1>4. CASE /\ Session' \in {view[r] \cup {r}, NoDoc} /\ Unseen(r) /\ r \notin Readers
           /\ Phase(r) = "working" /\ Phase(r)' = "finished"
  <2>1. phase' = [phase EXCEPT ![r] = "finished"] /\ seen' = seen
    BY <1>4 DEF Unseen
  <2>. QED
    BY <1>4, <2>1 DEF Contract!Next, Contract!Commit, Contract!Abandon
<1>5. CASE Session = NoDoc /\ Session' = {} /\ Unseen(r) /\ Phase(r)' = Phase(r)
  <2>1. phase' = phase /\ seen' = seen
    BY <1>5 DEF Unseen
  <2>. QED
    BY <1>5, <2>1 DEF Contract!Next, Contract!Uninitialized
<1>. QED
  BY <1>1, <1>2, <1>3, <1>4, <1>5 DEF ContractMove

\* The provider implements the contract.
THEOREM ContractIsKept ==
  ASSUME FaultFree, NoDoc \notin Data
  PROVE  Spec => KeepsContract
<1>1. Init => Contract!Init
  BY DEF Init, Contract!Init, Session, Phase
<1>2. TypeOK /\ Phases /\ Turns /\ Roles /\ TypeOK' /\ [Next]_vars
        => [Contract!Next]_(Contract!vars)
  <2> SUFFICES ASSUME TypeOK, Phases, Turns, Roles, TypeOK', [Next]_vars
               PROVE  [Contract!Next]_(Contract!vars)
    OBVIOUS
  <2>1. CASE UNCHANGED vars
    BY <2>1 DEF vars, Contract!vars, Session, Deserialize, Phase
  <2>2. CASE Expire
    BY <2>2 DEF Expire, Contract!Next, Contract!Expire, Session, Phase, given
  <2>3. CASE TimePasses
    <3>1. Session' = Session
      BY <2>3, OlderTyped, NoDocIsNoItem DEF TimePasses, TypeOK, Session, Deserialize
    <3>. QED
      BY <2>3, <3>1 DEF TimePasses, Contract!vars, Phase, given
  <2>4. ASSUME NEW r \in Requests, Begin(r) \/ Step(r) \/ Crash(r)
        PROVE  [Contract!Next]_(Contract!vars)
    <3>1. ContractMove(r)
      BY <2>4, ModuleMove, ProviderMove DEF Turns, Step
    <3>2. r \in Readers \/ \A q \in Writers \ {r} : ~Active(q)
      BY <2>4, StepIsActive DEF Turns, FaultFree, OneWriterAtATime, Writers
    <3>3. \A q \in Requests \ {r} : Phase(q)' = Phase(q) /\ Unseen(q)
      BY <2>4, OthersUnmoved
    <3>. QED
      BY <3>1, <3>2, <3>3, MovesAreSteps DEF TypeOK
  <2>. QED
    BY <2>1, <2>2, <2>3, <2>4 DEF Next
<1>3. Spec => []Turns
  BY TurnsHold DEF FaultFree
<1>. QED
  BY <1>1, <1>2, <1>3, TypeCorrect, PhasesHold, RolesHold, PTL
     DEF Spec, KeepsContract, Contract!Spec

\* What the contract gives, of the session and the requests of the provider.
Promise == INSTANCE SessionStoreProofs WITH
  NoSession <- NoDoc,
  session <- Session,
  phase <- [r \in Requests |-> Phase(r)],
  seen <- [r \in Requests |-> view[r]]

\* While the application works on what GetItemExclusiveAsync gave it, that is
\* what the bucket holds, unless the document expired or was made anew.
THEOREM WritersAreIsolated ==
  ASSUME FaultFree, NoDoc \notin Data
  PROVE  Spec => []Contract!WriterSeesTheSession
<1>1. Contract!Init => Promise!Init
  BY DEF Contract!Init, Promise!Init
<1>2. [Contract!Next]_(Contract!vars) => [Promise!Next]_(Promise!vars)
  BY DEF Contract!Next, Contract!vars, Contract!Uninitialized, Contract!Acquire,
     Contract!Commit, Contract!Abandon, Contract!Leave, Contract!Expire,
     Promise!Next, Promise!vars, Promise!Uninitialized, Promise!Acquire,
     Promise!Commit, Promise!Abandon, Promise!Leave, Promise!Expire
<1>3. Promise!WriterSeesTheSession => Contract!WriterSeesTheSession
  BY DEF Contract!WriterSeesTheSession, Promise!WriterSeesTheSession
<1>4. Promise!Spec => []Promise!WriterSeesTheSession
  BY Promise!WritersSeeTheSession
<1>5. Spec => KeepsContract
  BY ContractIsKept
<1>. QED
  BY <1>1, <1>2, <1>3, <1>4, <1>5, PTL DEF KeepsContract, Contract!Spec, Promise!Spec
=============================================================================
