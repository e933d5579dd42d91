------------------------- MODULE OutputCacheProofs -------------------------
(* What OutputCache keeps for any calls, identifiers, times and failures.   *)
EXTENDS OutputCache, KeysProofs

\* A step of call c, of any kind.
Step(c) ==
  \/ \E o \in Operations, i \in Ids, u \in Expiries : Begin(c, o, i, u)
  \/ Get(c) \/ AddGet(c) \/ AddInsert(c) \/ Set(c) \/ Remove(c)

\* The part of Constants that typing rests on.
LEMMA ConstantTypes ==
  /\ Operations \subseteq {"Get", "Add", "Set", "Remove"} /\ <<>> \in Ids
  /\ Expiries \subseteq Int /\ DefaultLifetime \in Int /\ MaxTime \in Nat
<1>1. /\ Operations \subseteq {"Get", "Add", "Set", "Remove"} /\ <<>> \in Ids
      /\ Expiries \subseteq Int /\ DefaultLifetime \in Nat \ {0} /\ MaxTime \in Nat
  BY Constants, Zenon
<1>. QED
  BY <1>1

\* A step is one of the calls', of the bucket's or of the clock's.
LEMMA Steps ==
  ASSUME [Next]_vars
  PROVE  \/ UNCHANGED vars \/ TimePasses \/ \E k \in DocumentKeys : Evict(k)
         \/ \E c \in Calls : Step(c)
BY DEF Next, Step

\* The key a call works on is one of the documents'.
LEMMA KeyOfCall ==
  ASSUME TypeOK, NEW c \in Calls
  PROVE  Key(c) \in DocumentKeys
BY DEF TypeOK, Key, DocumentKeys

\* What the cache held is in it still, or has gone, when it becomes f.
LEMMA BecomesAccounts ==
  ASSUME TypeOK, NEW f \in [DocumentKeys -> Calls \cup {NoEntry}], Becomes(f)
  PROVE  /\ cached' = f /\ gone \subseteq gone' /\ gone' \subseteq Calls
         /\ \A k \in DocumentKeys : cached[k] \in {NoEntry, cached'[k]} \cup gone'
<1>1. cached' = f /\ gone \subseteq gone' /\ gone' \subseteq Calls
  BY DEF TypeOK, Becomes
<1>2. ASSUME NEW k \in DocumentKeys PROVE cached[k] \in {NoEntry, cached'[k]} \cup gone'
  <2>1. cached[k] \in Calls \cup {NoEntry}
    BY DEF TypeOK
  <2>. QED
    BY <2>1 DEF Becomes
<1>. QED
  BY <1>1, <1>2

\* Storing an entry puts it under its key, and leaves the other keys alone.
LEMMA StoreAccounts ==
  ASSUME TypeOK, NEW c \in Calls, Store(c)
  PROVE  /\ cached' = [cached EXCEPT ![Key(c)] = c]
         /\ gone \subseteq gone' /\ gone' \subseteq Calls
         /\ \A k \in DocumentKeys : cached[k] \in {NoEntry, cached'[k]} \cup gone'
         /\ dies' \in [Calls -> Int \cup {Never}]
<1>1. [cached EXCEPT ![Key(c)] = c] \in [DocumentKeys -> Calls \cup {NoEntry}]
  BY KeyOfCall DEF TypeOK
<1>2. Becomes([cached EXCEPT ![Key(c)] = c])
  BY DEF Store
<1>3. dies' \in [Calls -> Int \cup {Never}]
  BY DEF Store, TypeOK
<1>. HIDE DEF Becomes
<1>. QED
  BY <1>1, <1>2, <1>3, BecomesAccounts

\* Every step: the cache keeps its type, and what it held is kept or gone.
LEMMA CacheAccounts ==
  ASSUME TypeOK, [Next]_vars
  PROVE  /\ cached' \in [DocumentKeys -> Calls \cup {NoEntry}]
         /\ dies' \in [Calls -> Int \cup {Never}]
         /\ gone \subseteq gone' /\ gone' \subseteq Calls
         /\ \A k \in DocumentKeys : cached[k] \in {NoEntry, cached'[k]} \cup gone'
<1> DEFINE Accounts ==
      /\ cached' \in [DocumentKeys -> Calls \cup {NoEntry}]
      /\ dies' \in [Calls -> Int \cup {Never}]
      /\ gone \subseteq gone' /\ gone' \subseteq Calls
      /\ \A k \in DocumentKeys : cached[k] \in {NoEntry, cached'[k]} \cup gone'
<1>1. ASSUME UNCHANGED entries PROVE Accounts
  BY <1>1 DEF entries, TypeOK
<1>2. ASSUME TimePasses PROVE Accounts
  <2>1. [k \in DocumentKeys |-> IF Expired(cached[k], now + 1) THEN NoEntry ELSE cached[k]]
          \in [DocumentKeys -> Calls \cup {NoEntry}]
    BY DEF TypeOK
  <2>. QED
    BY <1>2, <2>1, BecomesAccounts DEF TimePasses, TypeOK
<1>3. ASSUME NEW k \in DocumentKeys,
             Becomes([cached EXCEPT ![k] = NoEntry]), UNCHANGED dies
      PROVE  Accounts
  <2>1. [cached EXCEPT ![k] = NoEntry] \in [DocumentKeys -> Calls \cup {NoEntry}]
    BY DEF TypeOK
  <2>. QED
    BY <1>3, <2>1, BecomesAccounts DEF TypeOK
<1>4. ASSUME NEW c \in Calls, Store(c) PROVE Accounts
  BY <1>4, StoreAccounts, KeyOfCall DEF TypeOK
<1>5. ASSUME NEW c \in Calls, Step(c) PROVE Accounts
  <2>1. CASE UNCHANGED entries
    BY <2>1, <1>1
  <2>2. CASE AddInsert(c) \/ Set(c)
    BY <2>2, <1>1, <1>4 DEF AddInsert, Set
  <2>3. CASE Remove(c)
    BY <2>3, <1>1, <1>3, KeyOfCall DEF Remove
  <2>. QED
    BY <1>5, <2>1, <2>2, <2>3 DEF Step, Begin, Get, AddGet
<1>6. ASSUME NEW k \in DocumentKeys, Evict(k) PROVE Accounts
  BY <1>6, <1>3 DEF Evict
<1>. QED
  BY <1>1, <1>2, <1>5, <1>6, Steps DEF vars

\* Every variable of the cache keeps its type.
THEOREM TypeCorrect == Spec => []TypeOK
<1>1. Init => TypeOK
  BY ConstantTypes DEF Init, TypeOK, Places, Ended, Writes
<1>2. TypeOK /\ [Next]_vars => TypeOK'
  <2> SUFFICES ASSUME TypeOK, [Next]_vars PROVE TypeOK'
    OBVIOUS
  <2>0. /\ cached' \in [DocumentKeys -> Calls \cup {NoEntry}]
        /\ dies' \in [Calls -> Int \cup {Never}] /\ gone' \subseteq Calls
    BY CacheAccounts
  <2> USE DEF TypeOK, Places, Ended, Writes, Return, LogAndOrThrow, inputs
  <2>1. CASE UNCHANGED vars
    BY <2>0, <2>1 DEF vars
  <2>2. CASE TimePasses
    BY <2>0, <2>2, ConstantTypes DEF TimePasses
  <2>3. ASSUME NEW k \in DocumentKeys, Evict(k) PROVE TypeOK'
    BY <2>0, <2>3 DEF Evict
  <2>4. ASSUME NEW c \in Calls, NEW o \in Operations, NEW i \in Ids, NEW u \in Expiries,
               Begin(c, o, i, u)
        PROVE  TypeOK'
    <3>1. Lifetime(u) \in Int /\ ExpirationOf(Lifetime(u)) \in Int
      BY ConstantTypes DEF Lifetime, ExpirationOf
    <3>. QED
      BY <2>0, <2>4, <3>1, ConstantTypes DEF Begin, FirstCall
  <2>5. ASSUME NEW c \in Calls, Get(c) \/ Set(c) \/ Remove(c) PROVE TypeOK'
    <3>1. cached[Key(c)] \in Calls \cup {NoEntry}
      BY KeyOfCall
    <3>. QED
      BY <2>0, <2>5, <3>1 DEF Get, Set, Remove
  <2>6. ASSUME NEW c \in Calls, AddGet(c) PROVE TypeOK'
    <3>1. cached[Key(c)] \in Calls \cup {NoEntry} /\ ExpirationOf(utcExpiry[c]) \in Int
      BY KeyOfCall DEF ExpirationOf
    <3>. QED
      BY <2>0, <2>6, <3>1 DEF AddGet
  <2>7. ASSUME NEW c \in Calls, AddInsert(c) PROVE TypeOK'
    BY <2>0, <2>7 DEF AddInsert
  <2>. QED
    BY <2>1, <2>2, <2>3, <2>4, <2>5, <2>6, <2>7, Steps DEF Step
<1>. QED
  BY <1>1, <1>2, PTL DEF Spec

\* Only a Set replaces an entry: an Add never does, though it makes two calls.
THEOREM AddNeverReplacesAnEntry == Spec => AddNeverReplaces
<1> DEFINE Replacing(k) ==
      cached[k] # NoEntry /\ cached'[k] \notin {NoEntry, cached[k]}
        => op[cached'[k]] = "Set"
<1>1. TypeOK /\ [Next]_vars => [\A k \in DocumentKeys : Replacing(k)]_vars
  <2> SUFFICES ASSUME TypeOK, [Next]_vars, NEW k \in DocumentKeys,
                      cached[k] # NoEntry, cached'[k] \notin {NoEntry, cached[k]}
               PROVE  op[cached'[k]] = "Set"
    OBVIOUS
  <2>1. ~UNCHANGED vars /\ ~TimePasses /\ ~\E j \in DocumentKeys : Evict(j)
    BY DEF vars, entries, TimePasses, Evict, Becomes, TypeOK
  <2>2. PICK c \in Calls : Step(c)
    BY <2>1, Steps
  <2>3. ~Remove(c)
    BY DEF Remove, Becomes, TypeOK, entries
  <2>4. ~AddInsert(c)
    <3>1. CASE cached[Key(c)] = NoEntry
      BY <3>1 DEF AddInsert, Store, Becomes, TypeOK, entries
    <3>2. CASE cached[Key(c)] # NoEntry
      BY <3>2 DEF AddInsert, entries
    <3>. QED
      BY <3>1, <3>2
  <2>5. Set(c)
    BY <2>2, <2>3, <2>4 DEF Step, Begin, Get, AddGet, entries
  <2>6. cached'[k] = c
    BY <2>5 DEF Set, Store, Becomes, TypeOK, entries
  <2>. QED
    BY <2>5, <2>6 DEF Set, TypeOK
<1>. QED
  BY <1>1, TypeCorrect, PTL DEF Spec, AddNeverReplaces

\* What a call knows of the cache: an entry it holds or a call returned was
\* stored by a call that has ended, under the key of the call that returned it.
UnderItsKey ==
  /\ \A k \in DocumentKeys : cached[k] # NoEntry =>
       pc[cached[k]] \in Ended /\ Key(cached[k]) = k
  /\ \A c \in Calls : returned[c] # NoEntry =>
       pc[c] \in Ended /\ pc[returned[c]] \in Ended /\ Key(returned[c]) = Key(c)

\* A call that has ended does not go on, and a call's identifier stays.
LEMMA EndedStays ==
  ASSUME TypeOK, [Next]_vars, NEW c \in Calls, pc[c] \in Ended
  PROVE  pc'[c] = pc[c] /\ Key(c)' = Key(c) /\ returned'[c] = returned[c]
BY Steps
DEF vars, inputs, TimePasses, Evict, Step, Begin, Get, AddGet, AddInsert, Set, Remove,
    Return, LogAndOrThrow, Ended, TypeOK, Key

\* A step that stores an entry is the last of its call.
LEMMA WhatIsNew ==
  ASSUME TypeOK, [Next]_vars, NEW k \in DocumentKeys,
         cached'[k] \notin {NoEntry, cached[k]}
  PROVE  \E c \in Calls :
           /\ pc[c] \in Writes /\ pc'[c] \in Ended
           /\ Key(c) = k /\ cached'[k] = c /\ Store(c)
           /\ UNCHANGED <<now, inputs, expiration, delay>>
<1>1. ~UNCHANGED vars /\ ~TimePasses /\ ~\E j \in DocumentKeys : Evict(j)
  BY DEF vars, entries, TimePasses, Evict, Becomes, TypeOK
<1>2. PICK c \in Calls : Step(c)
  BY <1>1, Steps
<1>3. ~Remove(c)
  BY DEF Remove, Becomes, TypeOK, entries
<1>4. AddInsert(c) \/ Set(c)
  BY <1>2, <1>3 DEF Step, Begin, Get, AddGet, entries
<1>5. Store(c) /\ pc[c] \in Writes /\ UNCHANGED <<now, inputs, expiration, delay>>
  BY <1>4 DEF AddInsert, Set, entries, Writes
<1>6. pc'[c] \in Ended
  BY <1>4 DEF AddInsert, Set, Return, LogAndOrThrow, Ended, TypeOK
<1>7. Key(c) = k /\ cached'[k] = c
  BY <1>5 DEF Store, Becomes, TypeOK
<1>. QED
  BY <1>5, <1>6, <1>7

\* What a call newly returns is what the cache held, or its own entry.
LEMMA WhatIsReturned ==
  ASSUME TypeOK, [Next]_vars, NEW c \in Calls,
         returned'[c] \notin {NoEntry, returned[c]}
  PROVE  /\ pc'[c] \in Ended /\ Key(c)' = Key(c)
         /\ returned'[c] \in {c, cached[Key(c)]}
<1>1. ~UNCHANGED vars /\ ~TimePasses /\ ~\E k \in DocumentKeys : Evict(k)
  BY DEF vars, TimePasses, Evict
<1>2. PICK d \in Calls : Step(d)
  BY <1>1, Steps
<1>3. returned \in [Calls -> Calls \cup {NoEntry}] /\ pc \in [Calls -> Places]
  BY DEF TypeOK
<1>4. Get(d) \/ AddGet(d) \/ AddInsert(d) \/ Set(d) \/ Remove(d)
  BY <1>2 DEF Step, Begin
<1>5. UNCHANGED id
  BY <1>4 DEF Get, AddGet, AddInsert, Set, Remove, inputs
<1>6. PICK value \in {NoEntry, d, cached[Key(d)]} : Return(d, value)
  BY <1>4 DEF Get, AddGet, AddInsert, Set, Remove, LogAndOrThrow
<1>7. d = c /\ returned'[c] = value /\ pc'[c] = "returned"
  BY <1>3, <1>6 DEF Return
<1>. QED
  BY <1>5, <1>6, <1>7 DEF Key, Ended

\* Entries are under the keys of the calls that stored them, at every time.
LEMMA UnderItsKeyHolds == Spec => []UnderItsKey
<1>1. Init => UnderItsKey
  BY DEF Init, UnderItsKey
<1>2. TypeOK /\ TypeOK' /\ UnderItsKey /\ [Next]_vars => UnderItsKey'
  <2> SUFFICES ASSUME TypeOK, TypeOK', UnderItsKey, [Next]_vars PROVE UnderItsKey'
    OBVIOUS
  <2>1. ASSUME NEW k \in DocumentKeys, cached'[k] # NoEntry
        PROVE  pc'[cached'[k]] \in Ended /\ Key(cached[k])' = k
    <3>1. CASE cached'[k] = cached[k]
      <4>1. cached[k] \in Calls /\ pc[cached[k]] \in Ended /\ Key(cached[k]) = k
        BY <2>1, <3>1 DEF TypeOK, UnderItsKey
      <4>. QED
        BY <3>1, <4>1, EndedStays DEF Key
    <3>2. CASE cached'[k] # cached[k]
      BY <2>1, <3>2, WhatIsNew DEF Key, inputs
    <3>. QED
      BY <3>1, <3>2
  <2>2. ASSUME NEW c \in Calls, returned'[c] # NoEntry
        PROVE  /\ pc'[c] \in Ended /\ pc'[returned'[c]] \in Ended
               /\ Key(returned[c])' = Key(c)'
    <3>1. CASE returned'[c] = returned[c]
      <4>1. /\ pc[c] \in Ended
            /\ returned[c] \in Calls /\ pc[returned[c]] \in Ended
            /\ Key(returned[c]) = Key(c)
        BY <2>2, <3>1 DEF TypeOK, UnderItsKey
      <4>. QED
        BY <3>1, <4>1, EndedStays DEF Key
    <3>2. CASE returned'[c] # returned[c]
      <4>1. /\ pc'[c] \in Ended /\ Key(c)' = Key(c)
            /\ returned'[c] \in {c, cached[Key(c)]}
        BY <2>2, <3>2, WhatIsReturned
      <4>2. CASE returned'[c] = c
        BY <4>1, <4>2
      <4>3. CASE returned'[c] = cached[Key(c)]
        <5>1. /\ Key(c) \in DocumentKeys /\ returned'[c] \in Calls
              /\ pc[returned'[c]] \in Ended /\ Key(returned'[c]) = Key(c)
          BY <2>2, <4>3, KeyOfCall DEF TypeOK, UnderItsKey
        <5>. QED
          BY <4>1, <5>1, EndedStays DEF Key
      <4>. QED
        BY <4>1, <4>2, <4>3
    <3>. QED
      BY <3>1, <3>2
  <2>. QED
    BY <2>1, <2>2 DEF UnderItsKey
<1>. QED
  BY <1>1, <1>2, TypeCorrect, PTL DEF Spec

\* One element makes a sequence.
LEMMA SingletonSequence ==
  ASSUME NEW E, NEW e \in E
  PROVE  <<e>> \in Seq(E)
OBVIOUS

\* No call is answered with what was stored for another identifier, unless
\* exactly one of the two starts with the prefix.
THEOREM NoCrossTalkAlways == Spec => []NoCrossTalk
<1>1. TypeOK /\ UnderItsKey => NoCrossTalk
  <2> SUFFICES ASSUME TypeOK, UnderItsKey, NEW c \in Calls, returned[c] # NoEntry,
                      StartsWithPrefix(id[returned[c]]) <=> StartsWithPrefix(id[c])
               PROVE  id[returned[c]] = id[c]
    BY DEF NoCrossTalk
  <2>1. /\ Prefix \in Seq(Characters) /\ <<"_">> \in Seq(Characters)
        /\ Ids \subseteq Seq(Characters)
    <3>1. "_" \in Characters /\ Prefix \in Seq(Characters) /\ Ids \subseteq Seq(Characters)
      BY Constants, Zenon
    <3>2. <<"_">> \in Seq(Characters)
      BY <3>1, SingletonSequence
    <3>. QED
      BY <3>1, <3>2, Zenon
  <2>2. id[returned[c]] \in Ids /\ id[c] \in Ids
    BY DEF TypeOK
  <2>3. Prefixed(<<"_">>, id[returned[c]]) = Prefixed(<<"_">>, id[c])
    BY DEF UnderItsKey, Key, CheckKey
  <2>. QED
    BY <2>1, <2>2, <2>3, OnlyAPrefixedIdentifierCollides
<1>. QED
  BY <1>1, TypeCorrect, UnderItsKeyHolds, PTL

\* What a call returned is cached, or has been taken out of the cache since.
THEOREM AddersAgreeAlways == Spec => []AddersAgree
<1>1. Init => AddersAgree
  BY DEF Init, AddersAgree
<1>2. TypeOK /\ TypeOK' /\ UnderItsKey /\ AddersAgree /\ [Next]_vars => AddersAgree'
  <2> SUFFICES ASSUME TypeOK, TypeOK', UnderItsKey, AddersAgree, [Next]_vars, NEW c \in Calls,
                      returned'[c] # NoEntry
               PROVE  returned'[c] \in {cached'[Key(c)']} \cup gone'
    BY DEF AddersAgree, Key
  <2>0. Key(c) \in DocumentKeys
    BY KeyOfCall
  <2>1. /\ gone \subseteq gone'
        /\ cached[Key(c)] \in {NoEntry, cached'[Key(c)]} \cup gone'
    BY <2>0, CacheAccounts
  <2>2. CASE returned'[c] = returned[c]
    <3>1. Key(c)' = Key(c)
      BY <2>2, EndedStays DEF UnderItsKey
    <3>. QED
      BY <2>1, <2>2, <3>1 DEF AddersAgree
  <2>3. CASE returned'[c] # returned[c]
    <3>1. Key(c)' = Key(c) /\ returned'[c] \in {c, cached[Key(c)]}
      BY <2>3, WhatIsReturned
    <3>2. ASSUME returned'[c] = c, c # cached[Key(c)] PROVE cached'[Key(c)] = c
      <4>1. ~UNCHANGED vars /\ ~TimePasses /\ ~\E k \in DocumentKeys : Evict(k)
        BY <2>3 DEF vars, TimePasses, Evict
      <4>2. PICK d \in Calls : Step(d)
        BY <4>1, Steps
      <4>3. d = c
        BY <2>3, <4>2
        DEF Step, Begin, Get, AddGet, AddInsert, Set, Remove, Return, LogAndOrThrow, TypeOK
      <4>4. AddInsert(c)
        BY <2>3, <3>2, <4>2, <4>3
        DEF Step, Begin, Get, AddGet, Set, Remove, Return, LogAndOrThrow, TypeOK
      <4>5. Store(c)
        BY <2>3, <4>4 DEF AddInsert, LogAndOrThrow
      <4>. QED
        BY <2>0, <4>5 DEF Store, Becomes, TypeOK
    <3>. QED
      BY <2>1, <3>1, <3>2
  <2>. QED
    BY <2>2, <2>3
<1>. QED
  BY <1>1, <1>2, TypeCorrect, UnderItsKeyHolds, PTL DEF Spec

\* How long an entry lives follows from when its lifetime was computed.
Timely ==
  /\ \A c \in Calls :
       /\ pc[c] \in Writes => expiration[c] + now = utcExpiry[c] + delay[c]
       /\ pc[c] \in {"idle", "AddGet"} => delay[c] = 0
  /\ \A k \in DocumentKeys : LET entry == cached[k] IN entry # NoEntry =>
       /\ pc[entry] \in Ended
       /\ dies[entry] = Never => utcExpiry[entry] <= now
       /\ dies[entry] # Never =>
            now < dies[entry] /\ dies[entry] <= utcExpiry[entry] + delay[entry]

\* The times of a call that has ended stay, and only the clock moves now.
LEMMA EndedKeepTheirTimes ==
  ASSUME TypeOK, [Next]_vars, NEW c \in Calls, pc[c] \in Ended
  PROVE  /\ utcExpiry'[c] = utcExpiry[c] /\ delay'[c] = delay[c] /\ dies'[c] = dies[c]
         /\ TimePasses \/ UNCHANGED now
<1> USE DEF Ended, Writes, TypeOK, inputs, entries
<1>1. CASE UNCHANGED vars \/ \E k \in DocumentKeys : Evict(k)
  BY <1>1 DEF vars, Evict
<1>2. CASE TimePasses
  BY <1>2 DEF TimePasses
<1>3. ASSUME NEW d \in Calls, Step(d)
      PROVE  /\ utcExpiry'[c] = utcExpiry[c] /\ delay'[c] = delay[c] /\ dies'[c] = dies[c]
             /\ UNCHANGED now
  <2>1. d # c
    BY <1>3 DEF Step, Begin, Get, AddGet, AddInsert, Set, Remove
  <2>2. utcExpiry'[c] = utcExpiry[c] /\ delay'[c] = delay[c] /\ UNCHANGED now
    BY <1>3, <2>1 DEF Step, Begin, Get, AddGet, AddInsert, Set, Remove
  <2>3. UNCHANGED dies \/ Store(d)
    BY <1>3 DEF Step, Begin, Get, AddGet, AddInsert, Set, Remove
  <2>. QED
    BY <2>1, <2>2, <2>3 DEF Store
<1>. QED
  BY <1>1, <1>2, <1>3, Steps

\* Lifetimes are computed from the clock at the time the entry is sent.
LEMMA TimelyHolds == Spec => []Timely
<1>1. Init => Timely
  BY DEF Init, Timely, Writes
<1>2. TypeOK /\ TypeOK' /\ Timely /\ [Next]_vars => Timely'
  <2> SUFFICES ASSUME TypeOK, TypeOK', Timely, [Next]_vars PROVE Timely'
    OBVIOUS
  <2>1. ASSUME NEW c \in Calls
        PROVE  /\ pc'[c] \in Writes => expiration'[c] + now' = utcExpiry'[c] + delay'[c]
               /\ pc'[c] \in {"idle", "AddGet"} => delay'[c] = 0
    <3> USE DEF TypeOK, Timely, Writes
    <3>1. CASE UNCHANGED vars \/ \E k \in DocumentKeys : Evict(k)
      BY <3>1 DEF vars, Evict, inputs
    <3>2. CASE TimePasses
      BY <3>2 DEF TimePasses, inputs
    <3>3. ASSUME NEW d \in Calls, NEW o \in Operations, NEW i \in Ids, NEW u \in Expiries,
                 Begin(d, o, i, u)
          PROVE  /\ pc'[c] \in Writes => expiration'[c] + now' = utcExpiry'[c] + delay'[c]
                 /\ pc'[c] \in {"idle", "AddGet"} => delay'[c] = 0
      <4>1. Lifetime(u) \in Int
        BY ConstantTypes DEF Lifetime
      <4>. QED
        BY <3>3, <4>1 DEF Begin, FirstCall, ExpirationOf
    <3>4. ASSUME NEW d \in Calls, AddGet(d)
          PROVE  /\ pc'[c] \in Writes => expiration'[c] + now' = utcExpiry'[c] + delay'[c]
                 /\ pc'[c] \in {"idle", "AddGet"} => delay'[c] = 0
      BY <3>4 DEF AddGet, Return, ExpirationOf, inputs
    <3>5. ASSUME NEW d \in Calls, Get(d) \/ AddInsert(d) \/ Set(d) \/ Remove(d)
          PROVE  /\ pc'[c] \in Writes => expiration'[c] + now' = utcExpiry'[c] + delay'[c]
                 /\ pc'[c] \in {"idle", "AddGet"} => delay'[c] = 0
      BY <3>5 DEF Get, AddInsert, Set, Remove, Return, LogAndOrThrow, inputs
    <3>. QED
      BY <3>1, <3>2, <3>3, <3>4, <3>5, Steps DEF Step
  <2>2. ASSUME NEW k \in DocumentKeys, NEW entry \in Calls, cached'[k] = entry
        PROVE  /\ pc'[entry] \in Ended
               /\ dies'[entry] = Never => utcExpiry'[entry] <= now'
               /\ dies'[entry] # Never =>
                    now' < dies'[entry] /\ dies'[entry] <= utcExpiry'[entry] + delay'[entry]
    <3>0. entry # NoEntry
      BY Constants, Zenon
    <3>1. CASE cached[k] = entry
      <4>1. /\ pc[entry] \in Ended
            /\ dies[entry] = Never => utcExpiry[entry] <= now
            /\ dies[entry] # Never =>
                 now < dies[entry] /\ dies[entry] <= utcExpiry[entry] + delay[entry]
        BY <3>0, <3>1 DEF Timely
      <4>2. /\ pc'[entry] \in Ended /\ utcExpiry'[entry] = utcExpiry[entry]
            /\ delay'[entry] = delay[entry] /\ dies'[entry] = dies[entry]
            /\ TimePasses \/ UNCHANGED now
        BY <4>1, EndedStays, EndedKeepTheirTimes
      <4>3. /\ now \in Int /\ utcExpiry[entry] \in Int
            /\ dies[entry] \in Int \cup {Never}
        BY DEF TypeOK
      <4>4. CASE UNCHANGED now
        BY <4>1, <4>2, <4>4
      <4>5. CASE TimePasses
        <5>1. now' = now + 1 /\ ~Expired(entry, now + 1)
          BY <2>2, <3>0, <3>1, <4>5 DEF TimePasses, Becomes
        <5>. QED
          BY <3>0, <4>1, <4>2, <4>3, <5>1 DEF Expired
      <4>. QED
        BY <4>2, <4>4, <4>5
    <3>2. CASE cached[k] # entry
      <4>1. /\ pc[entry] \in Writes /\ pc'[entry] \in Ended /\ Store(entry)
            /\ UNCHANGED <<now, inputs, expiration, delay>>
        BY <2>2, <3>2, WhatIsNew, Constants
      <4>2. /\ now \in Int /\ expiration[entry] \in Int
            /\ utcExpiry[entry] \in Int /\ delay[entry] \in Nat
            /\ dies \in [Calls -> Int \cup {Never}]
        BY DEF TypeOK
      <4>3. expiration[entry] + now = utcExpiry[entry] + delay[entry]
        BY <4>1 DEF Timely
      <4>4. dies'[entry] = IF expiration[entry] > 0 THEN now + expiration[entry] ELSE Never
        BY <4>1, <4>2 DEF Store
      <4>5. \A n \in Int : n # Never
        BY Constants, Zenon
      <4>. QED
        BY <4>1, <4>2, <4>3, <4>4, <4>5 DEF inputs
    <3>. QED
      BY <3>1, <3>2
  <2>. QED
    BY <2>1, <2>2 DEF Timely, TypeOK
<1>. QED
  BY <1>1, <1>2, TypeCorrect, PTL DEF Spec

\* No entry is served longer after its utcExpiry than its write took.
THEOREM EntriesExpireInTime == Spec => []EntriesExpire
<1>1. TypeOK /\ Timely => EntriesExpire
  BY DEF TypeOK, Timely, EntriesExpire
<1>. QED
  BY <1>1, TypeCorrect, TimelyHolds, PTL

-----------------------------------------------------------------------------
(* The calls are atomic: each step is one of AtomicCache, or changes nothing *)
(* that AtomicCache speaks of.                                               *)

State(c) == IF pc[c] \in Ended \cup {"idle"} THEN pc[c] ELSE "called"

\* How call c, and nothing but call c, moves in AtomicCache.
AtomicMove(c) ==
  \/ UNCHANGED <<cached, returned>> /\ State(c)' = State(c)
  \/ /\ State(c) = "called" /\ State(c)' = "returned"
     /\ cached' = Atomic!Effect(c)
     /\ returned' = [returned EXCEPT ![c] = Atomic!Answer(c)]
  \/ /\ State(c) = "called" /\ State(c)' \in {"returned", "thrown"}
     /\ cached' \in {cached, Atomic!Effect(c)}
     /\ UNCHANGED returned

\* The abstract key of a call is the one it works on.
LEMMA AtomicKeys ==
  ASSUME NEW c \in Calls
  PROVE  /\ Atomic!Effect(c) =
              CASE op[c] = "Add" /\ cached[Key(c)] = NoEntry -> [cached EXCEPT ![Key(c)] = c]
                [] op[c] = "Set" -> [cached EXCEPT ![Key(c)] = c]
                [] op[c] = "Remove" -> [cached EXCEPT ![Key(c)] = NoEntry]
                [] OTHER -> cached
         /\ Atomic!Answer(c) =
              CASE op[c] = "Get" -> cached[Key(c)]
                [] op[c] = "Add" -> IF cached[Key(c)] = NoEntry THEN c ELSE cached[Key(c)]
                [] OTHER -> NoEntry
BY DEF Atomic!Effect, Atomic!Answer

\* The steps of a call that has begun.
LEMMA CallMoves ==
  ASSUME TypeOK, NEW c \in Calls, returned[c] = NoEntry,
         Get(c) \/ AddGet(c) \/ AddInsert(c) \/ Set(c) \/ Remove(c)
  PROVE  AtomicMove(c)
<1>0. pc \in [Calls -> Places] /\ returned \in [Calls -> Calls \cup {NoEntry}]
  BY DEF TypeOK
<1> USE <1>0, AtomicKeys DEF AtomicMove, State, Ended, Return, LogAndOrThrow, entries
<1>1. CASE Get(c)
  <2>1. op[c] = "Get"
    BY <1>1 DEF Get, TypeOK
  <2>. QED
    BY <1>1, <2>1 DEF Get
<1>2. CASE AddGet(c)
  <2>1. op[c] = "Add"
    BY <1>2 DEF AddGet, TypeOK
  <2>. QED
    BY <1>2, <2>1 DEF AddGet
<1>3. CASE AddInsert(c)
  <2>1. op[c] = "Add"
    BY <1>3 DEF AddInsert, TypeOK
  <2>2. CASE cached[Key(c)] = NoEntry
    <3>1. cached' \in {cached, Atomic!Effect(c)}
      BY <1>3, <2>1, <2>2 DEF AddInsert, Store, Becomes
    <3>2. CASE Return(c, c) /\ Store(c)
      <4>1. cached' = Atomic!Effect(c)
        BY <2>1, <2>2, <3>2 DEF Store, Becomes
      <4>2. Atomic!Answer(c) = c
        BY <2>1, <2>2
      <4>. QED
        BY <1>3, <3>2, <4>1, <4>2 DEF AddInsert
    <3>3. CASE LogAndOrThrow(c)
      BY <1>3, <3>1, <3>3 DEF AddInsert
    <3>. QED
      BY <1>3, <2>2, <3>2, <3>3 DEF AddInsert
  <2>3. CASE cached[Key(c)] # NoEntry
    BY <1>3, <2>3 DEF AddInsert
  <2>. QED
    BY <2>2, <2>3
<1>4. CASE Set(c)
  <2>1. op[c] = "Set"
    BY <1>4 DEF Set, TypeOK
  <2>2. cached' \in {cached, Atomic!Effect(c)}
    BY <1>4, <2>1 DEF Set, Store, Becomes
  <2>3. CASE Return(c, NoEntry) /\ Store(c)
    <3>1. returned' = [returned EXCEPT ![c] = Atomic!Answer(c)]
      BY <2>1, <2>3
    <3>. QED
      BY <1>4, <2>1, <2>3, <3>1 DEF Set, Store, Becomes
  <2>4. CASE LogAndOrThrow(c)
    BY <1>4, <2>2, <2>4 DEF Set
  <2>. QED
    BY <1>4, <2>3, <2>4 DEF Set
<1>5. CASE Remove(c)
  <2>1. op[c] = "Remove"
    BY <1>5 DEF Remove, TypeOK
  <2>2. cached' \in {cached, Atomic!Effect(c)}
    BY <1>5, <2>1 DEF Remove, Becomes
  <2>3. CASE Return(c, NoEntry) /\ cached' = Atomic!Effect(c)
    <3>1. returned' = [returned EXCEPT ![c] = Atomic!Answer(c)]
      BY <2>1, <2>3
    <3>. QED
      BY <1>5, <2>3, <3>1 DEF Remove
  <2>4. CASE LogAndOrThrow(c)
    BY <1>5, <2>2, <2>4 DEF Remove
  <2>. QED
    BY <1>5, <2>1, <2>3, <2>4 DEF Remove, Becomes
<1>. QED
  BY <1>1, <1>2, <1>3, <1>4, <1>5

\* Every call takes effect once, at one instant, or fails: overlapping calls
\* cannot be told from calls made one after another.
THEOREM CallsAreAtomicAlways == Spec => CallsAreAtomic
<1> DEFINE state == [c \in Calls |-> State(c)]
           key == [c \in Calls |-> Key(c)]
<1>1. Init => Atomic!Init
  <2> SUFFICES ASSUME Init PROVE Atomic!Init
    OBVIOUS
  <2>1. \A c \in Calls : Key(c) \in DocumentKeys
    BY ConstantTypes DEF Init, Key, DocumentKeys
  <2>. QED
    BY <2>1 DEF Init, Atomic!Init
<1>2. TypeOK /\ TypeOK' /\ UnderItsKey /\ [Next]_vars => [Atomic!Next]_(Atomic!vars)
  <2> SUFFICES ASSUME TypeOK, TypeOK', UnderItsKey, [Next]_vars
               PROVE  [Atomic!Next]_(Atomic!vars)
    OBVIOUS
  <2>1. CASE UNCHANGED vars
    BY <2>1 DEF vars, entries, inputs, Atomic!vars, Key
  <2>2. CASE TimePasses \/ \E k \in DocumentKeys : Evict(k)
    <3>1. \A k \in DocumentKeys : cached'[k] \in {cached[k], NoEntry}
      BY <2>2 DEF TimePasses, Evict, Becomes, TypeOK
    <3>2. UNCHANGED <<pc, op, id, returned>>
      BY <2>2 DEF TimePasses, Evict, inputs
    <3>3. Atomic!Vanish
      BY <3>1, <3>2 DEF Atomic!Vanish, TypeOK, Key
    <3>. QED
      BY <3>3 DEF Atomic!Next
  <2>3. ASSUME NEW c \in Calls, NEW o \in Operations, NEW i \in Ids, NEW u \in Expiries,
               Begin(c, o, i, u)
        PROVE  [Atomic!Next]_(Atomic!vars)
    <3>1. o \in {"Get", "Add", "Set", "Remove"} /\ CheckKey(i) \in DocumentKeys
      BY ConstantTypes DEF DocumentKeys
    <3>2. op' = [op EXCEPT ![c] = o] /\ UNCHANGED <<cached, returned>>
      BY <2>3 DEF Begin, entries
    <3>3. key' = [key EXCEPT ![c] = CheckKey(i)]
      BY <2>3 DEF Begin, Key, TypeOK
    <3>4. \E s \in {"called", "thrown"} : state' = [state EXCEPT ![c] = s]
      BY <2>3, <3>1 DEF Begin, FirstCall, State, Ended, TypeOK
    <3>5. state[c] = "idle"
      BY <2>3 DEF Begin, State
    <3>6. Atomic!Begin(c)
      BY <3>1, <3>2, <3>3, <3>4, <3>5 DEF Atomic!Begin, State
    <3>. QED
      BY <3>6 DEF Atomic!Next
  <2>4. ASSUME NEW c \in Calls, Get(c) \/ AddGet(c) \/ AddInsert(c) \/ Set(c) \/ Remove(c)
        PROVE  [Atomic!Next]_(Atomic!vars)
    <3>1. pc[c] \notin Ended /\ returned[c] = NoEntry
      BY <2>4 DEF Get, AddGet, AddInsert, Set, Remove, Ended, UnderItsKey
    <3>2. AtomicMove(c)
      BY <2>4, <3>1, CallMoves
    <3>3. UNCHANGED <<op, id>>
      BY <2>4 DEF Get, AddGet, AddInsert, Set, Remove, inputs
    <3>4. key' = key
      BY <3>3 DEF Key
    <3>5. \A q \in Calls \ {c} : State(q)' = State(q)
      BY <2>4 DEF Get, AddGet, AddInsert, Set, Remove, Return, LogAndOrThrow, State, TypeOK
    <3>6. state' = [state EXCEPT ![c] = State(c)']
      BY <3>5
    <3>7. CASE UNCHANGED <<cached, returned>> /\ State(c)' = State(c)
      BY <3>3, <3>4, <3>6, <3>7 DEF Atomic!vars, State
    <3>8. CASE /\ State(c) = "called" /\ State(c)' = "returned"
               /\ cached' = Atomic!Effect(c)
               /\ returned' = [returned EXCEPT ![c] = Atomic!Answer(c)]
      BY <3>3, <3>4, <3>6, <3>8 DEF Atomic!Next, Atomic!Succeed, State
    <3>9. CASE /\ State(c) = "called" /\ State(c)' \in {"returned", "thrown"}
               /\ cached' \in {cached, Atomic!Effect(c)}
               /\ UNCHANGED returned
      BY <3>3, <3>4, <3>6, <3>9 DEF Atomic!Next, Atomic!Fail, State
    <3>. QED
      BY <3>2, <3>7, <3>8, <3>9 DEF AtomicMove
  <2>. QED
    BY <2>1, <2>2, <2>3, <2>4, Steps DEF Step
<1>. QED
  BY <1>1, <1>2, TypeCorrect, UnderItsKeyHolds, PTL DEF Spec, CallsAreAtomic, Atomic!Spec
=============================================================================
