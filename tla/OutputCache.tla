---------------------------- MODULE OutputCache ----------------------------
(***************************************************************************)
(* CouchbaseOutputCacheProvider and CouchbaseOutputCacheProviderAsync: the *)
(* entries of the output cache and the calls made on it, possibly by       *)
(* several web servers that share the bucket.  Both providers make the     *)
(* same bucket calls in the same order; each is one atomic step, so Add is *)
(* two.  The entry a call brings is named by the call.  Times are whole    *)
(* seconds of UTC.                                                         *)
(***************************************************************************)
EXTENDS Integers, Keys

CONSTANTS
  Calls,            \* the calls made on the cache
  Operations,       \* what they may be: "Get", "Add", "Set", "Remove"
  Characters, Ids,  \* the identifiers they are given
  Expiries,         \* and the values of utcExpiry
  MaxValue,         \* DateTime.MaxValue
  ReplacesMaxValue, \* the asynchronous provider, not the synchronous one
  DefaultLifetime,  \* which makes it 60 minutes from now
  MaxTime,          \* bound: where the clock stops
  Faults,           \* how a bucket call may fail: "lost", "late" (applied)
  MayEvict,         \* the bucket may drop an entry at any time
  ThrowOnError,     \* the provider setting
  NoEntry,
  Never             \* no expiration

ASSUME Constants ==
  /\ Operations \subseteq {"Get", "Add", "Set", "Remove"}
  /\ Prefix \in Seq(Characters) /\ "_" \in Characters
  /\ Ids \subseteq Seq(Characters) /\ <<>> \in Ids
  /\ Expiries \subseteq Int /\ MaxValue \in Int
  /\ ReplacesMaxValue \in BOOLEAN
  /\ DefaultLifetime \in Nat \ {0} /\ MaxTime \in Nat
  /\ Faults \subseteq {"lost", "late"}
  /\ MayEvict \in BOOLEAN /\ ThrowOnError \in BOOLEAN
  /\ NoEntry \notin Calls /\ Never \notin Int

VARIABLES
  now,         \* the clock
  cached,      \* the entry under each key, or NoEntry
  dies,        \* when the entry a call stored expires
  pc,          \* the bucket call a call is about to make, or how it ended
  op,          \* the operation it performs
  id,          \* the identifier it was given
  utcExpiry,   \* when its entry should expire
  expiration,  \* the lifetime it computed for the bucket
  delay,       \* history: the time its Insert or Upsert has taken
  returned,    \* what it returned: an entry, or NoEntry for null
  gone         \* history: the entries overwritten, removed, expired, dropped

\* What a call was given.
inputs == <<op, id, utcExpiry>>
entries == <<cached, dies, gone>>
vars == <<now, entries, pc, inputs, expiration, delay, returned>>

DocumentKeys == {CheckKey(i) : i \in Ids}
Ended == {"returned", "thrown"}
Writes == {"AddInsert", "Set"}
Places == {"idle", "Get", "AddGet", "Remove"} \cup Writes \cup Ended

Init ==
  /\ now = 0
  /\ cached = [k \in DocumentKeys |-> NoEntry]
  /\ dies = [c \in Calls |-> Never]
  /\ pc = [c \in Calls |-> "idle"]
  /\ op = [c \in Calls |-> "Get"]
  /\ id = [c \in Calls |-> <<>>]
  /\ utcExpiry = [c \in Calls |-> 0]
  /\ expiration = [c \in Calls |-> 0]
  /\ delay = [c \in Calls |-> 0]
  /\ returned = [c \in Calls |-> NoEntry]
  /\ gone = {}

Key(c) == CheckKey(id[c])

\* What leaves the cache when it comes to hold other entries.
Becomes(entriesByKey) ==
  /\ cached' = entriesByKey
  /\ gone' = gone \cup {c \in Calls : \E k \in DocumentKeys :
                            cached[k] = c /\ entriesByKey[k] # c}

\* The bucket keeps an entry with no expiration, or one that has passed, for ever.
Store(c) ==
  /\ Becomes([cached EXCEPT ![Key(c)] = c])
  /\ dies' = [dies EXCEPT ![c] = IF expiration[c] > 0 THEN now + expiration[c]
                                                      ELSE Never]

Outcomes == {"ok"} \cup Faults

Return(c, value) ==
  /\ pc' = [pc EXCEPT ![c] = "returned"]
  /\ returned' = [returned EXCEPT ![c] = value]

\* A failed bucket call is logged; then the call throws, or returns null.
LogAndOrThrow(c) ==
  /\ pc' = [pc EXCEPT ![c] = IF ThrowOnError THEN "thrown" ELSE "returned"]
  /\ UNCHANGED returned

-----------------------------------------------------------------------------
Blank(i) == i = <<>>

Lifetime(u) ==
  IF ReplacesMaxValue /\ u = MaxValue THEN now + DefaultLifetime ELSE u

\* Mutant: DateTime.Now is not made universal, on a server one hour east.
LocalExpiration(u) == u - now + 1

ExpirationOf(u) == u - now

\* Mutant: Add goes the way of Set.
FirstCallIsSet(o) == IF o = "Add" THEN "Set" ELSE o

FirstCall(o) == IF o = "Add" THEN "AddGet" ELSE o

\* The identifier is checked; then Set computes the expiration at once.
Begin(c, o, i, u) ==
  /\ pc[c] = "idle"
  /\ pc' = [pc EXCEPT ![c] = IF Blank(i) /\ ThrowOnError THEN "thrown" ELSE FirstCall(o)]
  /\ op' = [op EXCEPT ![c] = o] /\ id' = [id EXCEPT ![c] = i]
  /\ utcExpiry' = [utcExpiry EXCEPT ![c] = IF o \in {"Add", "Set"} THEN Lifetime(u) ELSE 0]
  /\ expiration' = [expiration EXCEPT ![c] = IF o = "Set" THEN ExpirationOf(Lifetime(u)) ELSE 0]
  /\ UNCHANGED <<now, entries, delay, returned>>

Get(c) ==
  /\ pc[c] = "Get"
  /\ \/ Return(c, cached[Key(c)])
     \/ Faults # {} /\ LogAndOrThrow(c)
  /\ UNCHANGED <<now, entries, inputs, expiration, delay>>

\* Any failure of the first Get, not only KeyNotFound, leads to the Insert.
AddGet(c) ==
  /\ pc[c] = "AddGet"
  /\ \/ /\ cached[Key(c)] # NoEntry
        /\ Return(c, cached[Key(c)]) /\ UNCHANGED expiration
     \/ /\ cached[Key(c)] = NoEntry \/ Faults # {}
        /\ pc' = [pc EXCEPT ![c] = "AddInsert"]
        /\ expiration' = [expiration EXCEPT ![c] = ExpirationOf(utcExpiry[c])]
        /\ UNCHANGED returned
  /\ UNCHANGED <<now, entries, inputs, delay>>

\* Mutant: Upsert in place of Insert.
AddUpsert(c) ==
  /\ pc[c] = "AddInsert"
  /\ Store(c) /\ Return(c, c)
  /\ UNCHANGED <<now, inputs, expiration, delay>>

\* Mutant: the result of Insert is not tested.
AddUnchecked(c) ==
  /\ pc[c] = "AddInsert"
  /\ IF cached[Key(c)] = NoEntry THEN Store(c) ELSE UNCHANGED entries
  /\ Return(c, c)
  /\ UNCHANGED <<now, inputs, expiration, delay>>

AddInsert(c) ==
  /\ pc[c] = "AddInsert"
  /\ \E outcome \in Outcomes :
       /\ IF cached[Key(c)] = NoEntry /\ outcome # "lost"
            THEN Store(c) ELSE UNCHANGED entries
       /\ IF cached[Key(c)] = NoEntry /\ outcome = "ok"
            THEN Return(c, c) ELSE LogAndOrThrow(c)
  /\ UNCHANGED <<now, inputs, expiration, delay>>

Set(c) ==
  /\ pc[c] = "Set"
  /\ \E outcome \in Outcomes :
       /\ IF outcome = "lost" THEN UNCHANGED entries ELSE Store(c)
       /\ IF outcome = "ok" THEN Return(c, NoEntry) ELSE LogAndOrThrow(c)
  /\ UNCHANGED <<now, inputs, expiration, delay>>

Remove(c) ==
  /\ pc[c] = "Remove"
  /\ \E outcome \in Outcomes :
       /\ IF outcome = "lost" THEN UNCHANGED entries
            ELSE Becomes([cached EXCEPT ![Key(c)] = NoEntry]) /\ UNCHANGED dies
       /\ IF cached[Key(c)] # NoEntry /\ outcome = "ok"
            THEN Return(c, NoEntry) ELSE LogAndOrThrow(c)
  /\ UNCHANGED <<now, inputs, expiration, delay>>

-----------------------------------------------------------------------------
\* A bucket without persistence makes room.
Evict(k) ==
  /\ MayEvict /\ cached[k] # NoEntry
  /\ Becomes([cached EXCEPT ![k] = NoEntry])
  /\ UNCHANGED <<now, dies, pc, inputs, expiration, delay, returned>>

Expired(entry, time) == entry # NoEntry /\ dies[entry] # Never /\ dies[entry] <= time

\* The bucket drops the entries whose time has come.
TimePasses ==
  /\ now < MaxTime
  /\ now' = now + 1
  /\ Becomes([k \in DocumentKeys |->
                IF Expired(cached[k], now + 1) THEN NoEntry ELSE cached[k]])
  /\ delay' = [c \in Calls |-> IF pc[c] \in Writes THEN delay[c] + 1 ELSE delay[c]]
  /\ UNCHANGED <<dies, pc, inputs, expiration, returned>>

Next ==
  \/ TimePasses
  \/ \E k \in DocumentKeys : Evict(k)
  \/ \E c \in Calls :
       \/ \E o \in Operations, i \in Ids, u \in Expiries : Begin(c, o, i, u)
       \/ Get(c) \/ AddGet(c) \/ AddInsert(c) \/ Set(c) \/ Remove(c)

Spec == Init /\ [][Next]_vars

-----------------------------------------------------------------------------
\* Every variable has its type, and a call makes the bucket calls of its
\* operation.
TypeOK ==
  /\ now \in 0 .. MaxTime
  /\ cached \in [DocumentKeys -> Calls \cup {NoEntry}]
  /\ dies \in [Calls -> Int \cup {Never}]
  /\ pc \in [Calls -> Places]
  /\ op \in [Calls -> {"Get", "Add", "Set", "Remove"}]
  /\ id \in [Calls -> Ids]
  /\ utcExpiry \in [Calls -> Int] /\ expiration \in [Calls -> Int]
  /\ delay \in [Calls -> Nat]
  /\ returned \in [Calls -> Calls \cup {NoEntry}]
  /\ gone \subseteq Calls
  /\ \A c \in Calls :
       /\ pc[c] \in {"AddGet", "AddInsert"} => op[c] = "Add"
       /\ pc[c] \in {"Get", "Set", "Remove"} => op[c] = pc[c]

\* "The provider must not store the data ... if it is already in the cache":
\* an entry is only ever replaced by a Set, whatever other calls did between
\* the Get and the Insert of an Add.
AddNeverReplaces ==
  [][\A k \in DocumentKeys :
       cached[k] # NoEntry /\ cached'[k] \notin {NoEntry, cached[k]}
         => op[cached'[k]] = "Set"]_vars

\* What a call returned is the cached entry, unless a Set, a Remove or the
\* expiration took it out since: callers of Add that race agree on the entry.
AddersAgree ==
  \A c \in Calls : returned[c] \in {NoEntry, cached[Key(c)]} \cup gone

\* A call returns an entry that was stored for the same identifier, unless one
\* of the two identifiers starts with the prefix and the other does not.
NoCrossTalk ==
  \A c \in Calls : returned[c] # NoEntry =>
    \/ id[returned[c]] = id[c]
    \/ ~(StartsWithPrefix(id[returned[c]]) <=> StartsWithPrefix(id[c]))

\* An entry is not served after its utcExpiry by more than the time its Insert
\* or Upsert took, however long the Get before it did, and one that is kept
\* for ever was stored when its utcExpiry had passed.
EntriesExpire ==
  \A k \in DocumentKeys : LET entry == cached[k] IN entry # NoEntry =>
    IF dies[entry] = Never THEN utcExpiry[entry] <= now
                           ELSE now < utcExpiry[entry] + delay[entry]

-----------------------------------------------------------------------------
Atomic == INSTANCE AtomicCache WITH
  state <- [c \in Calls |-> IF pc[c] \in Ended \cup {"idle"} THEN pc[c] ELSE "called"],
  key <- [c \in Calls |-> Key(c)]

\* Though Add makes two bucket calls, every call takes effect once, at one
\* instant, as if it were alone: it returns what the cache held then, and an
\* entry is added only where there was none.
CallsAreAtomic == Atomic!Spec
=============================================================================
