--------------------------- MODULE BufferAllocator ---------------------------
(***************************************************************************)
(* BufferAllocator: one block of bytes, divided into buffers of one size.  *)
(* A user asks for a buffer with SetBuffer, if it is a SocketAsyncEventArgs, *)
(* or with GetBuffer.  Both hold the lock throughout, and are one step;    *)
(* ReleaseBuffer(SocketAsyncEventArgs) clears its argument outside the lock. *)
(***************************************************************************)
EXTENDS Integers, Sequences, FiniteSets

CONSTANTS
  Users, EventArgs,  \* those that ask for buffers; those that do with SetBuffer
  Pools,             \* the MaxSize and BufferSize of a PoolConfiguration
  Half,              \* an int is in -Half .. Half - 1
  MayReleaseTwice,   \* users may release what they do not hold
  MaxFree            \* bound: the free buffers when one is released twice

Int32 == -Half .. Half - 1

ASSUME Constants ==
  /\ IsFiniteSet(Users) /\ EventArgs \subseteq Users
  /\ Half \in Nat \ {0}
  /\ Pools \subseteq [maxSize : Int32, bufferSize : Int32]
  /\ MayReleaseTwice \in BOOLEAN
  /\ MaxFree \in Nat

VARIABLES
  pool,           \* the PoolConfiguration the allocator was made for
  freeIndexPool,  \* the stack of released offsets
  currentIndex,   \* where the part of the block begins that was never used
  status,         \* what a user was answered, and whether it released it
  offset,         \* the Offset of its SocketAsyncEventArgs or IOBuffer
  misused         \* history: a user released what it did not hold

vars == <<pool, freeIndexPool, currentIndex, status, offset, misused>>

\* Arithmetic on int does not trap.
Wrap(x) == ((x + Half) % (2 * Half)) - Half

BufferSize == pool.bufferSize
NumberOfBytes == Wrap(pool.maxSize * pool.bufferSize)

Init ==
  /\ pool \in Pools
  /\ freeIndexPool = <<>>
  /\ currentIndex = 0
  /\ status = [u \in Users |-> "none"]
  /\ offset = [u \in Users |-> 0]
  /\ misused = FALSE

-----------------------------------------------------------------------------
Holders == {u \in Users : status[u] = "holds"}

\* Mutant: IOBuffer does not check the length.
AcceptsAnyLength(u, o) ==
  IF u \in EventArgs
  THEN o >= 0 /\ o <= NumberOfBytes /\ BufferSize >= 0 /\ BufferSize <= NumberOfBytes - o
  ELSE o >= 0 /\ o < NumberOfBytes

\* SocketAsyncEventArgs.SetBuffer and the constructor of IOBuffer throw when
\* the buffer is not inside the block.
Accepts(u, o) ==
  IF u \in EventArgs
  THEN o >= 0 /\ o <= NumberOfBytes /\ BufferSize >= 0 /\ BufferSize <= NumberOfBytes - o
  ELSE o >= 0 /\ o < NumberOfBytes /\ Wrap(o + BufferSize) <= NumberOfBytes

Answer(u, s) == status' = [status EXCEPT ![u] = s]

Hold(u, o) ==
  /\ Accepts(u, o)
  /\ Answer(u, "holds")
  /\ offset' = [offset EXCEPT ![u] = o]

\* A block of a negative size cannot be allocated.
NoBlock(u) ==
  /\ NumberOfBytes < 0
  /\ Answer(u, "thrown")
  /\ UNCHANGED <<freeIndexPool, currentIndex, offset>>

Top == freeIndexPool[Len(freeIndexPool)]

\* Mutant: Peek in place of Pop.
PeekFree(u) ==
  /\ NumberOfBytes >= 0 /\ freeIndexPool # <<>>
  /\ \/ Hold(u, Top)
     \/ ~Accepts(u, Top) /\ Answer(u, "thrown") /\ UNCHANGED offset
  /\ UNCHANGED <<freeIndexPool, currentIndex>>

TakeFree(u) ==
  /\ NumberOfBytes >= 0 /\ freeIndexPool # <<>>
  /\ freeIndexPool' = SubSeq(freeIndexPool, 1, Len(freeIndexPool) - 1)
  /\ \/ Hold(u, Top)
     \/ ~Accepts(u, Top) /\ Answer(u, "thrown") /\ UNCHANGED offset
  /\ UNCHANGED currentIndex

\* Mutant: the last buffer of the block is not given.
RoomButOne == Wrap(NumberOfBytes - BufferSize) > currentIndex

Room == Wrap(NumberOfBytes - BufferSize) >= currentIndex

\* Mutant: the index is advanced before the buffer is cut there.
TakeNewAdvancedFirst(u) ==
  /\ NumberOfBytes >= 0 /\ freeIndexPool = <<>>
  /\ LET next == Wrap(currentIndex + BufferSize) IN
       \/ /\ ~Room /\ Answer(u, "null")
          /\ UNCHANGED <<currentIndex, offset>>
       \/ /\ Room /\ currentIndex' = next
          /\ Hold(u, next) \/ (~Accepts(u, next) /\ Answer(u, "thrown") /\ UNCHANGED offset)
  /\ UNCHANGED freeIndexPool

\* Mutant: the index is advanced to the last byte of the buffer, not behind it.
TakeNewShort(u) ==
  /\ NumberOfBytes >= 0 /\ freeIndexPool = <<>>
  /\ \/ /\ ~Room /\ Answer(u, "null")
        /\ UNCHANGED <<currentIndex, offset>>
     \/ /\ Room /\ Hold(u, currentIndex)
        /\ currentIndex' = Wrap(currentIndex + BufferSize - 1)
     \/ /\ Room /\ ~Accepts(u, currentIndex) /\ Answer(u, "thrown")
        /\ UNCHANGED <<currentIndex, offset>>
  /\ UNCHANGED freeIndexPool

TakeNew(u) ==
  /\ NumberOfBytes >= 0 /\ freeIndexPool = <<>>
  /\ \/ /\ ~Room /\ Answer(u, "null")
        /\ UNCHANGED <<currentIndex, offset>>
     \/ /\ Room /\ Hold(u, currentIndex)
        /\ currentIndex' = Wrap(currentIndex + BufferSize)
     \/ /\ Room /\ ~Accepts(u, currentIndex) /\ Answer(u, "thrown")
        /\ UNCHANGED <<currentIndex, offset>>
  /\ UNCHANGED freeIndexPool

Obtain(u) ==
  /\ status[u] \notin {"holds", "releasing"}
  /\ NoBlock(u) \/ TakeFree(u) \/ TakeNew(u)
  /\ UNCHANGED <<pool, misused>>

SetBuffer(u) == u \in EventArgs /\ Obtain(u)
GetBuffer(u) == u \notin EventArgs /\ Obtain(u)

\* Users that hold no buffer but may call ReleaseBuffer all the same: after
\* the first time, or with a SocketAsyncEventArgs that never had one.
MayMisuse(u) ==
  /\ MayReleaseTwice /\ Len(freeIndexPool) < MaxFree
  /\ \/ u \in EventArgs /\ status[u] # "holds"
     \/ status[u] = "released"

\* Mutant: offset 0 is taken for "no buffer".
ReleaseUnlessZero(u) ==
  /\ status[u] = "holds" \/ MayMisuse(u)
  /\ freeIndexPool' = IF offset[u] = 0 THEN freeIndexPool ELSE Append(freeIndexPool, offset[u])
  /\ Answer(u, IF u \in EventArgs THEN "releasing" ELSE "released")
  /\ misused' = (misused \/ status[u] # "holds")
  /\ UNCHANGED <<pool, currentIndex, offset>>

ReleaseBuffer(u) ==
  /\ status[u] = "holds" \/ MayMisuse(u)
  /\ freeIndexPool' = Append(freeIndexPool, offset[u])
  /\ Answer(u, IF u \in EventArgs THEN "releasing" ELSE "released")
  /\ misused' = (misused \/ status[u] # "holds")
  /\ UNCHANGED <<pool, currentIndex, offset>>

\* eventArgs.SetBuffer(null, 0, 0), after the lock was left.
ClearEventArgs(u) ==
  /\ status[u] = "releasing"
  /\ Answer(u, "released")
  /\ offset' = [offset EXCEPT ![u] = 0]
  /\ UNCHANGED <<pool, freeIndexPool, currentIndex, misused>>

Next == \E u \in Users : SetBuffer(u) \/ GetBuffer(u) \/ ReleaseBuffer(u) \/ ClearEventArgs(u)

Spec == Init /\ [][Next]_vars

-----------------------------------------------------------------------------
Typed ==
  /\ pool \in Pools
  /\ freeIndexPool \in Seq(Int32)
  /\ currentIndex \in Int32
  /\ status \in [Users -> {"none", "holds", "releasing", "released", "null", "thrown"}]
  /\ offset \in [Users -> Int32]
  /\ misused \in BOOLEAN

\* Offset 0, or that of a buffer in the part of the block that was cut up.
Placed(o) == o >= 0 /\ (o = 0 \/ o + BufferSize <= currentIndex)

Places ==
  BufferSize > 0 =>
    /\ currentIndex >= 0 /\ (currentIndex = 0 \/ currentIndex <= NumberOfBytes)
    /\ \A u \in Users : Placed(offset[u])
    /\ \A i \in 1 .. Len(freeIndexPool) : Placed(freeIndexPool[i])

\* The stack, and every user's copy of an offset, stale ones and those on
\* their way back included, point at buffers that SetBuffer or GetBuffer cut
\* from the block; currentIndex never wraps around nor passes the block's end.
TypeOK == Typed /\ Places

\* A buffer that is held lies inside the block, whatever the sizes and
\* whatever was released: no write through it reaches other memory.
InsideTheBlock ==
  \A u \in Holders : 0 <= offset[u] /\ offset[u] + BufferSize <= NumberOfBytes

Separate(x, y) == x + BufferSize <= y \/ y + BufferSize <= x

\* Whatever is released, and however often, buffers are handed out whole: two
\* users may come to share a buffer, but never hold two that partly overlap.
NeverPartlyShared ==
  \A u, v \in Holders : offset[u] = offset[v] \/ Separate(offset[u], offset[v])

\* Two users never hold overlapping buffers, unless one was released twice.
Disjoint ==
  ~misused => \A u, v \in Holders : u # v => Separate(offset[u], offset[v])

\* "null if no buffer is available": a pool whose size is not beyond an int
\* refuses a buffer only when MaxSize of them are held.
Available == BufferSize > 0 /\ NumberOfBytes = pool.maxSize * BufferSize
NullOnlyIfExhausted ==
  [][~misused /\ Available /\ (\E u \in Users : status[u] # "null" /\ status'[u] = "null")
     => Cardinality(Holders) >= pool.maxSize]_vars

\* Nothing is lost either: the buffers that were ever cut from the block are
\* held or free, so a release makes room for a later request.
NoneIsLost ==
  ~misused /\ Available =>
    BufferSize * (Cardinality(Holders) + Len(freeIndexPool)) = currentIndex
=============================================================================
