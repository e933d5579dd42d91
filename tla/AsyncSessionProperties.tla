----------------------- MODULE AsyncSessionProperties -----------------------
(* What CouchbaseSessionStateProviderAsync keeps, and what it does not.     *)
EXTENDS AsyncSessionState

-----------------------------------------------------------------------------
(* What the provider keeps, however the requests interleave.               *)

\* Every variable has its type; only a writer ever awaits the locking upsert.
TypeOK ==
  /\ doc \in {NoDoc} \cup Item
  /\ expiry \in {0, Timeout}
  /\ pc \in [Requests -> Places]
  /\ \A r \in Requests : pc[r] = "Lock" => r \in Writers
  /\ buf \in [Requests -> Item]
  /\ view \in [Requests -> Data]
  /\ lockId \in [Requests -> {NoId} \cup Nat]
  /\ newItem \in [Requests -> BOOLEAN]
  /\ lockAge \in [Requests -> Ages \cup {0}]
  /\ after \in [Requests -> {"Handler", "Poll", "Get", "Touch", "Done"}]
  /\ logged \in [Requests -> BOOLEAN]

\* No lock identifier but 0 is ever stored, copied or handed out, so the
\* comparison of lockId in ReleaseItemExclusiveAsync never turns away a
\* request that does not hold the lock.
LockIdNeverDistinguishes ==
  /\ doc # NoDoc => doc.lockId = 0
  /\ \A r \in Requests : buf[r].lockId = 0 /\ lockId[r] \in {0, NoId}

\* InitializeItem never marks a document, or a copy of one that may still be
\* written back, that holds data: a session whose data was stored is never
\* announced as new.  Nothing is claimed of an entry without data: one that is
\* released unchanged is announced as new again, although the contract has
\* GetItemExclusive clear the flag once it was handed out.
NewOnlyWithoutData ==
  LET Fits(item) == item.actions = "InitializeItem" => item.items = NoItems
  IN  (doc # NoDoc => Fits(doc)) /\ \A r \in Requests : Fits(buf[r])

\* An entry made by CreateUninitializedItemAsync keeps its expiration until
\* data is stored over it, though GetItemExclusiveAsync and the release
\* rewrite the whole document with whatever Timeout their copy holds.
UninitializedExpires ==
  doc # NoDoc /\ doc.actions = "InitializeItem" => expiry # 0

HasSet(r) ==
  /\ after[r] = "Touch"
  /\ pc[r] \in {"ReleaseGet", "ReleasePut", "Touch", "Done", "Failed", "Crashed"}

\* The handlers see, and the bucket holds, only changes of requests that
\* got as far as SetAndReleaseItemExclusiveAsync.
OnlyCommittedData ==
  LET Committed == {r \in Requests : HasSet(r)}
  IN  /\ doc # NoDoc => Deserialize(doc.items) \subseteq Committed
      /\ \A r \in Requests :
           view[r] \subseteq Committed /\ Deserialize(buf[r].items) \subseteq Committed

WillUnlock(r) ==
  /\ r \in Writers
  /\ \/ pc[r] \in {"Get", "Lock", "Poll"}
     \/ /\ pc[r] \in {"Handler", "Set", "ReleaseGet", "ReleasePut", "Remove"}
        /\ ~newItem[r]
AnswersForLock(r) == WillUnlock(r) \/ (r \in Writers /\ pc[r] = "Crashed")

\* As long as no bucket call fails, a locked document has a writer on its way
\* to unlock it, or one that crashed: no other step leaves a lock behind,
\* though every copy that is written back brings its own Locked flag.
LocksAccountedFor ==
  doc # NoDoc /\ doc.locked => \E r \in Requests : AnswersForLock(r)

-----------------------------------------------------------------------------
(* What it keeps if the client sends one after another those that write.  *)

\* The stored data only ever grows, until the document is removed or expires:
\* no rewrite of the document brings back an older version of it.
NoLostUpdate ==
  [][doc # NoDoc /\ doc' # NoDoc =>
       Deserialize(doc.items) \subseteq Deserialize(doc'.items)]_vars

\* A request that changed the session and ends with no error logged has left
\* its change in the bucket, whichever bucket calls failed on the way.
DoneMeansSaved ==
  [][\A r \in Requests :
       pc[r] = "Touch" /\ pc'[r] = "Done" /\ ~logged'[r] =>
         doc' # NoDoc /\ r \in Deserialize(doc'.items)]_vars

\* Every request that starts comes to an end, even when an earlier one died
\* holding the lock: its lock ages and is released by the next request.
RequestsEnd == \A r \in Requests : Active(r) ~> ~Active(r)

-----------------------------------------------------------------------------
(* What the repository says and the provider does not keep.                *)

\* GetItemExclusive "locks the session-item data at the data store for the
\* duration of the request": no two requests work on the session at once.
Holds(r) == r \in Writers /\ pc[r] \in {"Handler", "Set"} /\ ~newItem[r]
MutualExclusion ==
  \A r, q \in Requests : Holds(r) /\ Holds(q) => r = q

\* ResetItemTimeout serves "to update the expiration date and time of the
\* session-item data": a session that nobody uses is going to expire.
SessionsExpire ==
  doc # NoDoc /\ (\A r \in Requests : ~Active(r)) => expiry # 0
=============================================================================
