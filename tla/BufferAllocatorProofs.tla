------------------------ MODULE BufferAllocatorProofs ------------------------
(* What BufferAllocator keeps for any sizes, users and width of int.         *)
EXTENDS BufferAllocator, SequenceTheorems, FiniteSetTheorems, TLAPS

USE Constants

-----------------------------------------------------------------------------
(* Arithmetic.                                                              *)

\* The result of an int operation is an int, and the right one if that is.
LEMMA WrapIsInt ==
  ASSUME NEW x \in Int
  PROVE  Wrap(x) \in Int32 /\ (x \in Int32 => Wrap(x) = x)
<1> DEFINE w == 2 * Half
<1>1. w \in Nat \ {0} /\ Half \in Nat
  OBVIOUS
<1> HIDE DEF w
<1>2. ASSUME NEW y \in Int
      PROVE  y % w \in 0 .. w - 1 /\ (y \in 0 .. w - 1 => y % w = y)
  BY <1>1
<1>3. (x + Half) % w \in 0 .. w - 1
  BY <1>1, <1>2
<1>4. x \in Int32 => (x + Half) % w = x + Half
  <2>1. x \in Int32 => x + Half \in 0 .. w - 1
    BY <1>1 DEF Int32, w
  <2>2. x + Half \in Int
    BY <1>1
  <2>. QED
    BY <2>1, <2>2, <1>2
<1>. QED
  BY <1>1, <1>3, <1>4 DEF Wrap, Int32, w

\* The size of a buffer and of the block are ints, whatever their product.
LEMMA SizesAreInts ==
  ASSUME pool \in Pools
  PROVE  BufferSize \in Int32 /\ NumberOfBytes \in Int32
<1>1. pool \in [maxSize : Int32, bufferSize : Int32]
  OBVIOUS
<1>2. pool.maxSize \in Int /\ pool.bufferSize \in Int /\ pool.bufferSize \in Int32
  BY <1>1 DEF Int32
<1>3. pool.maxSize * pool.bufferSize \in Int
  BY <1>2
<1>. QED
  BY <1>2, <1>3, WrapIsInt DEF BufferSize, NumberOfBytes

\* No step changes the pool, so the sizes are those the allocator was made with.
LEMMA SizesStay ==
  ASSUME [Next]_vars
  PROVE  UNCHANGED pool /\ BufferSize' = BufferSize /\ NumberOfBytes' = NumberOfBytes
BY DEF Next, vars, SetBuffer, GetBuffer, Obtain, ReleaseBuffer, ClearEventArgs,
   BufferSize, NumberOfBytes

\* The steps of the allocator.
LEMMA Steps ==
  ASSUME [Next]_vars
  PROVE  UNCHANGED vars \/ \E u \in Users : Obtain(u) \/ ReleaseBuffer(u) \/ ClearEventArgs(u)
BY DEF Next, SetBuffer, GetBuffer

\* The stack: Pop takes the last offset off, and leaves the others.
LEMMA Popped ==
  ASSUME NEW u, freeIndexPool \in Seq(Int32), TakeFree(u)
  PROVE  /\ Len(freeIndexPool) \in Nat \ {0}
         /\ Top \in Int32
         /\ freeIndexPool' \in Seq(Int32)
         /\ Len(freeIndexPool') = Len(freeIndexPool) - 1
         /\ \A i \in 1 .. Len(freeIndexPool') : freeIndexPool'[i] = freeIndexPool[i]
<1>1. freeIndexPool # <<>> /\ freeIndexPool' = SubSeq(freeIndexPool, 1, Len(freeIndexPool) - 1)
  BY DEF TakeFree
<1>2. Len(freeIndexPool) \in Nat \ {0}
  BY <1>1
<1>3. Top \in Int32
  BY <1>2 DEF Top
<1> DEFINE n == Len(freeIndexPool) - 1
<1>4. \A i \in 1 .. n : freeIndexPool[i] \in Int32
  BY <1>2
<1>5. /\ SubSeq(freeIndexPool, 1, n) \in Seq(Int32)
      /\ Len(SubSeq(freeIndexPool, 1, n)) = IF 1 <= n THEN n - 1 + 1 ELSE 0
      /\ \A i \in 1 .. n - 1 + 1 : SubSeq(freeIndexPool, 1, n)[i] = freeIndexPool[1 + i - 1]
  BY <1>2, <1>4, SubSeqProperties
<1>6. n \in Nat /\ n - 1 + 1 = n /\ (~(1 <= n) => n = 0)
  <2>1. \A k \in Nat \ {0} : k - 1 \in Nat /\ k - 1 - 1 + 1 = k - 1 /\ (~(1 <= k - 1) => k - 1 = 0)
    OBVIOUS
  <2>. QED
    BY <1>2, <2>1
<1>7. Len(freeIndexPool') = n
  BY <1>1, <1>5, <1>6
<1>8. ASSUME NEW i \in 1 .. n PROVE freeIndexPool'[i] = freeIndexPool[i]
  <2>1. i \in 1 .. n - 1 + 1 /\ 1 + i - 1 = i
    BY <1>6
  <2>. QED
    BY <2>1, <1>1, <1>5
<1>. QED
  BY <1>1, <1>2, <1>3, <1>5, <1>7, <1>8

-----------------------------------------------------------------------------
\* Every variable keeps its type, since the result of an int operation is one.
LEMMA Typing == Spec => []Typed
<1>1. Init => Typed
  <2>1. 0 \in Int32
    BY DEF Int32
  <2>2. <<>> \in Seq(Int32)
    OBVIOUS
  <2>. QED
    BY <2>1, <2>2 DEF Init, Typed
<1>2. Typed /\ [Next]_vars => Typed'
  <2> SUFFICES ASSUME Typed, [Next]_vars PROVE Typed'
    OBVIOUS
  <2> USE DEF Typed, Answer, Hold
  <2>1. CASE UNCHANGED vars
    BY <2>1 DEF vars
  <2>2. ASSUME NEW u \in Users, Obtain(u) PROVE Typed'
    <3>1. CASE NoBlock(u)
      BY <2>2, <3>1 DEF Obtain, NoBlock
    <3>2. CASE TakeFree(u)
      BY <2>2, <3>2, Popped DEF Obtain, TakeFree
    <3>3. CASE TakeNew(u)
      <4>1. Wrap(currentIndex + BufferSize) \in Int32
        <5>1. currentIndex + BufferSize \in Int
          BY SizesAreInts DEF Int32
        <5>. QED
          BY <5>1, WrapIsInt
      <4>. QED
        BY <2>2, <3>3, <4>1 DEF Obtain, TakeNew
    <3>. QED
      BY <2>2, <3>1, <3>2, <3>3 DEF Obtain
  <2>3. ASSUME NEW u \in Users, ReleaseBuffer(u) PROVE Typed'
    BY <2>3 DEF ReleaseBuffer
  <2>4. ASSUME NEW u \in Users, ClearEventArgs(u) PROVE Typed'
    BY <2>4 DEF ClearEventArgs, Int32
  <2>. QED
    BY <2>1, <2>2, <2>3, <2>4, Steps
<1>. QED
  BY <1>1, <1>2, PTL DEF Spec

-----------------------------------------------------------------------------
(* Where buffers are.                                                       *)

\* A buffer is only cut from the block where it fits.
LEMMA Cut ==
  ASSUME Typed, Places, BufferSize > 0, NumberOfBytes >= 0, Room
  PROVE  /\ currentIndex + BufferSize <= NumberOfBytes
         /\ Wrap(currentIndex + BufferSize) = currentIndex + BufferSize
<1>1. NumberOfBytes - BufferSize \in Int32 /\ NumberOfBytes \in Int32 /\ BufferSize \in Int32
  BY SizesAreInts DEF Typed, Int32
<1>2. currentIndex + BufferSize <= NumberOfBytes
  BY <1>1, WrapIsInt DEF Room, Typed, Int32
<1>3. currentIndex + BufferSize \in Int32
  BY <1>1, <1>2 DEF Places, Typed, Int32
<1>. QED
  BY <1>2, <1>3, WrapIsInt DEF Int32

\* A buffer that the two constructors accept lies inside the block.
LEMMA AcceptedIsInside ==
  ASSUME Typed, NEW u \in Users, NEW o \in Int32, Accepts(u, o),
         BufferSize > 0 => o = 0 \/ o + BufferSize <= NumberOfBytes
  PROVE  0 <= o /\ o + BufferSize <= NumberOfBytes
<1>1. BufferSize \in Int32 /\ NumberOfBytes \in Int32
  BY SizesAreInts DEF Typed
<1>2. CASE u \in EventArgs
  BY <1>1, <1>2 DEF Accepts, Int32
<1>3. CASE u \notin EventArgs /\ BufferSize > 0 /\ o = 0
  BY <1>1, <1>3, WrapIsInt DEF Accepts, Int32
<1>4. CASE u \notin EventArgs /\ ~(BufferSize > 0 /\ o = 0)
  BY <1>1, <1>4 DEF Accepts, Int32
<1>. QED
  BY <1>2, <1>3, <1>4

\* The numbers keep their types, and offsets, free or held, lie inside the block.
LEMMA PlacesHold == Spec => [](Typed /\ Places /\ InsideTheBlock)
<1>1. Init => Places /\ InsideTheBlock
  BY DEF Init, Places, Placed, InsideTheBlock, Holders
<1>2. Typed /\ Places /\ InsideTheBlock /\ [Next]_vars => Places' /\ InsideTheBlock'
  <2> SUFFICES ASSUME Typed, Places, InsideTheBlock, [Next]_vars
               PROVE  Places' /\ InsideTheBlock'
    OBVIOUS
  <2>0. /\ BufferSize' = BufferSize /\ NumberOfBytes' = NumberOfBytes
        /\ BufferSize \in Int /\ NumberOfBytes \in Int /\ currentIndex \in Int
        /\ \A u \in Users : offset[u] \in Int
        /\ \A i \in 1 .. Len(freeIndexPool) : freeIndexPool[i] \in Int
        /\ Len(freeIndexPool) \in Nat
    BY SizesStay, SizesAreInts DEF Typed, Int32
  <2>1. CASE UNCHANGED vars
    BY <2>0, <2>1 DEF vars, Places, Placed, InsideTheBlock, Holders
  <2>2. ASSUME NEW u \in Users, Obtain(u) PROVE Places' /\ InsideTheBlock'
    <3>1. CASE NoBlock(u)
      BY <2>0, <2>2, <3>1 DEF Obtain, NoBlock, Answer, Places, Placed, InsideTheBlock, Holders, Typed
    <3>2. CASE TakeFree(u)
      <4>1. BufferSize > 0 => Placed(Top)
        BY <3>2, Popped DEF Places, Top, Typed
      <4>2. /\ UNCHANGED currentIndex
            /\ \A i \in 1 .. Len(freeIndexPool') :
                 i \in 1 .. Len(freeIndexPool) /\ freeIndexPool'[i] = freeIndexPool[i]
        BY <3>2, <2>0, Popped DEF TakeFree, Typed
      <4>3. Hold(u, Top) => 0 <= Top /\ Top + BufferSize <= NumberOfBytes
        BY <4>1, <3>2, <2>0, Popped, AcceptedIsInside DEF Hold, Places, Placed, Typed, Int32
      <4>4. \/ Hold(u, Top)
            \/ Answer(u, "thrown") /\ UNCHANGED offset
        BY <3>2 DEF TakeFree
      <4>5. \A v \in Users : offset'[v] = offset[v] \/ (Hold(u, Top) /\ v = u /\ offset'[v] = Top)
        BY <4>4 DEF Hold, Typed
      <4>6. \A v \in Users : v # u => status'[v] = status[v]
        BY <4>4 DEF Hold, Answer, Typed
      <4>7. status'[u] = "holds" => Hold(u, Top) /\ offset'[u] = Top
        BY <4>4 DEF Hold, Answer, Typed
      <4>8. Places'
        BY <2>0, <4>1, <4>2, <4>5 DEF Places, Placed
      <4>9. InsideTheBlock'
        BY <2>0, <4>3, <4>5, <4>6, <4>7 DEF InsideTheBlock, Holders
      <4>. QED
        BY <4>8, <4>9
    <3>3. CASE TakeNew(u)
      <4>1. UNCHANGED freeIndexPool /\ NumberOfBytes >= 0
        BY <3>3 DEF TakeNew
      <4>2. CASE UNCHANGED <<currentIndex, offset>> /\ Answer(u, "null")
        BY <2>0, <4>1, <4>2 DEF Answer, Places, Placed, InsideTheBlock, Holders, Typed
      <4>3. CASE UNCHANGED <<currentIndex, offset>> /\ Answer(u, "thrown")
        BY <2>0, <4>1, <4>3 DEF Answer, Places, Placed, InsideTheBlock, Holders, Typed
      <4>4. CASE Room /\ Hold(u, currentIndex) /\ currentIndex' = Wrap(currentIndex + BufferSize)
        <5>1. BufferSize > 0 => /\ currentIndex + BufferSize <= NumberOfBytes
                                /\ currentIndex' = currentIndex + BufferSize
          BY <4>1, <4>4, Cut
        <5>2. 0 <= currentIndex /\ currentIndex + BufferSize <= NumberOfBytes
          BY <5>1, <4>4, AcceptedIsInside DEF Hold, Typed
        <5>3. /\ offset'[u] = currentIndex
              /\ \A v \in Users : v # u => offset'[v] = offset[v] /\ status'[v] = status[v]
          BY <4>4 DEF Hold, Answer, Typed
        <5>4. ASSUME BufferSize > 0, NEW o \in Int, Placed(o) PROVE Placed(o)'
          BY <2>0, <5>1, <5>4 DEF Placed
        <5>6. BufferSize > 0 => currentIndex + BufferSize <= currentIndex'
          BY <2>0, <5>1
        <5>7. ASSUME BufferSize > 0
              PROVE  currentIndex' >= 0 /\ currentIndex' <= NumberOfBytes
          BY <2>0, <5>1, <5>2, <5>7
        <5>8. ASSUME BufferSize > 0, NEW v \in Users PROVE Placed(offset[v])'
          <6>1. CASE v = u
            BY <2>0, <5>2, <5>6, <5>3, <5>8, <6>1 DEF Placed
          <6>2. CASE v # u
            BY <5>4, <5>3, <5>8, <6>2, <2>0 DEF Places, Placed
          <6>. QED
            BY <6>1, <6>2
        <5>9. ASSUME BufferSize > 0, NEW i \in 1 .. Len(freeIndexPool)
              PROVE  Placed(freeIndexPool[i])'
          BY <5>4, <5>9, <4>1, <2>0 DEF Places, Placed
        <5>10. Places'
          BY <2>0, <4>1, <5>7, <5>8, <5>9 DEF Places
        <5>5. InsideTheBlock'
          BY <2>0, <5>2, <5>3 DEF InsideTheBlock, Holders
        <5>. QED
          BY <5>5, <5>10
      <4>. QED
        BY <3>3, <4>2, <4>3, <4>4 DEF TakeNew
    <3>. QED
      BY <2>2, <3>1, <3>2, <3>3 DEF Obtain
  <2>3. ASSUME NEW u \in Users, ReleaseBuffer(u) PROVE Places' /\ InsideTheBlock'
    <3>1. /\ UNCHANGED <<currentIndex, offset>>
          /\ freeIndexPool' = Append(freeIndexPool, offset[u])
          /\ \A v \in Users : status'[v] = "holds" => status[v] = "holds"
      BY <2>3 DEF ReleaseBuffer, Answer, Typed
    <3>2. ASSUME BufferSize > 0, NEW i \in 1 .. Len(freeIndexPool') PROVE Placed(freeIndexPool'[i])
      BY <3>1, <3>2, <2>0 DEF Places, Typed
    <3>3. Places'
      BY <2>0, <3>1, <3>2 DEF Places, Placed
    <3>. QED
      BY <2>0, <3>1, <3>3 DEF InsideTheBlock, Holders
  <2>4. ASSUME NEW u \in Users, ClearEventArgs(u) PROVE Places' /\ InsideTheBlock'
    BY <2>0, <2>4 DEF ClearEventArgs, Answer, Places, Placed, InsideTheBlock, Holders, Typed
  <2>. QED
    BY <2>1, <2>2, <2>3, <2>4, Steps
<1>. QED
  BY <1>1, <1>2, Typing, PTL DEF Spec

\* Every offset, free, held or left over, is that of a buffer cut from the block,
\* for all sizes and however often buffers are released.
THEOREM TypeCorrect == Spec => []TypeOK
<1>1. Typed /\ Places => TypeOK
  BY DEF TypeOK
<1>. QED
  BY <1>1, PlacesHold, PTL

\* A held buffer lies inside the block, for all sizes and however often
\* buffers are released.
THEOREM BuffersAreInside == Spec => []InsideTheBlock
BY PlacesHold, PTL

-----------------------------------------------------------------------------
(* Buffers are whole, even if they are released twice.                      *)

\* Where buffers may begin.
Multiples == {k * BufferSize : k \in 0 .. Half}

\* NeverPartlyShared is not inductive: offsets that are free or left over are
\* handed out later.
Whole ==
  BufferSize > 0 =>
    /\ currentIndex \in Multiples
    /\ \A u \in Users : offset[u] \in Multiples
    /\ \A i \in 1 .. Len(freeIndexPool) : freeIndexPool[i] \in Multiples

\* Behind a buffer that fits the block another one may begin.
LEMMA NextMultiple ==
  ASSUME Typed, BufferSize > 0, NEW o \in Multiples, o + BufferSize <= NumberOfBytes
  PROVE  o + BufferSize \in Multiples
<1>1. BufferSize \in Int /\ NumberOfBytes \in Int /\ NumberOfBytes < Half /\ Half \in Int
  BY SizesAreInts DEF Typed, Int32
<1>2. PICK k \in 0 .. Half : o = k * BufferSize
  BY DEF Multiples
<1>3. \A b, n \in Int : (n + 1) * b = n * b + b
  OBVIOUS
<1>4. \A b, n \in Int : b > 0 /\ n >= 0 => n <= n * b
  OBVIOUS
<1>5. k \in Int /\ k >= 0 /\ (k + 1) * BufferSize = o + BufferSize
  BY <1>1, <1>2, <1>3
<1>6. k + 1 <= o + BufferSize
  BY <1>1, <1>4, <1>5
<1>7. k + 1 \in 0 .. Half
  BY <1>1, <1>2, <1>5, <1>6
<1>. QED
  BY <1>5, <1>7 DEF Multiples

\* Two buffers that begin at multiples of their size are the same or apart.
LEMMA MultiplesAreApart ==
  ASSUME BufferSize \in Int, BufferSize > 0, NEW x \in Multiples, NEW y \in Multiples
  PROVE  x = y \/ Separate(x, y)
<1>1. PICK j \in 0 .. Half : x = j * BufferSize
  BY DEF Multiples
<1>2. PICK k \in 0 .. Half : y = k * BufferSize
  BY DEF Multiples
<1>3. \A b, m, n \in Int : b > 0 /\ m < n => m * b + b <= n * b
  OBVIOUS
<1>4. j \in Int /\ k \in Int
  OBVIOUS
<1>5. j = k \/ j < k \/ k < j
  BY <1>4
<1>. QED
  BY <1>1, <1>2, <1>3, <1>4, <1>5 DEF Separate

\* Every offset stays a multiple of the size: only cutting a buffer makes a new
\* one, and everything else moves offsets about.
LEMMA WholeHolds == Spec => []Whole
<1>1. Init => Whole
  <2> SUFFICES ASSUME Init, BufferSize > 0 PROVE Whole
    BY DEF Whole
  <2>1. 0 \in 0 .. Half /\ 0 * BufferSize = 0
    BY SizesAreInts DEF Init, Int32
  <2>2. 0 \in Multiples
    BY <2>1 DEF Multiples
  <2>. QED
    BY <2>2 DEF Init, Whole
<1>2. Typed /\ Places /\ Whole /\ [Next]_vars => Whole'
  <2> SUFFICES ASSUME Typed, Places, Whole, [Next]_vars, BufferSize' > 0 PROVE Whole'
    BY DEF Whole
  <2>1. BufferSize' = BufferSize /\ BufferSize > 0 /\ BufferSize \in Int /\ Multiples' = Multiples
    BY SizesStay, SizesAreInts DEF Typed, Int32, Multiples
  <2>2. /\ currentIndex \in Multiples
        /\ \A u \in Users : offset[u] \in Multiples
        /\ \A i \in 1 .. Len(freeIndexPool) : freeIndexPool[i] \in Multiples
        /\ Len(freeIndexPool) \in Nat
    BY <2>1 DEF Whole, Typed
  <2>3. 0 \in Multiples
    <3>1. 0 \in 0 .. Half /\ 0 * BufferSize = 0
      BY <2>1
    <3>. QED
      BY <3>1 DEF Multiples
  <2> HIDE DEF Multiples
  <2>4. CASE UNCHANGED vars
    BY <2>1, <2>2, <2>4 DEF vars, Whole
  <2>5. ASSUME NEW u \in Users, Obtain(u) PROVE Whole'
    <3>1. CASE NoBlock(u)
      BY <2>1, <2>2, <3>1 DEF NoBlock, Whole
    <3>2. CASE TakeFree(u)
      <4>1. /\ Len(freeIndexPool) \in 1 .. Len(freeIndexPool)
            /\ Len(freeIndexPool') = Len(freeIndexPool) - 1
            /\ \A i \in 1 .. Len(freeIndexPool') :
                 i \in 1 .. Len(freeIndexPool) /\ freeIndexPool'[i] = freeIndexPool[i]
        BY <3>2, Popped DEF Typed
      <4>2. Top \in Multiples
        BY <2>2, <4>1 DEF Top
      <4>3. UNCHANGED currentIndex /\ \A v \in Users : offset'[v] \in {offset[v], Top}
        BY <3>2 DEF TakeFree, Hold, Typed
      <4>. QED
        BY <2>1, <2>2, <4>1, <4>2, <4>3 DEF Whole
    <3>3. CASE TakeNew(u)
      <4>1. UNCHANGED freeIndexPool /\ NumberOfBytes >= 0
        BY <3>3 DEF TakeNew
      <4>2. CASE UNCHANGED <<currentIndex, offset>>
        BY <2>1, <2>2, <4>1, <4>2 DEF Whole
      <4>3. CASE Room /\ Hold(u, currentIndex) /\ currentIndex' = Wrap(currentIndex + BufferSize)
        <5>1. currentIndex' = currentIndex + BufferSize /\ currentIndex' \in Multiples
          BY <2>1, <2>2, <4>1, <4>3, Cut, NextMultiple
        <5>2. \A v \in Users : offset'[v] \in {offset[v], currentIndex}
          BY <4>3 DEF Hold, Typed
        <5>. QED
          BY <2>1, <2>2, <4>1, <5>1, <5>2 DEF Whole
      <4>. QED
        BY <3>3, <4>2, <4>3 DEF TakeNew
    <3>. QED
      BY <2>5, <3>1, <3>2, <3>3 DEF Obtain
  <2>6. ASSUME NEW u \in Users, ReleaseBuffer(u) PROVE Whole'
    <3>1. /\ UNCHANGED <<currentIndex, offset>>
          /\ freeIndexPool' = Append(freeIndexPool, offset[u])
      BY <2>6 DEF ReleaseBuffer
    <3>2. ASSUME NEW i \in 1 .. Len(freeIndexPool')
          PROVE  freeIndexPool'[i] = offset[u]
                 \/ (i \in 1 .. Len(freeIndexPool) /\ freeIndexPool'[i] = freeIndexPool[i])
      BY <3>1, <3>2 DEF Typed
    <3>. QED
      BY <2>1, <2>2, <3>1, <3>2 DEF Whole
  <2>7. ASSUME NEW u \in Users, ClearEventArgs(u) PROVE Whole'
    <3>1. /\ UNCHANGED <<currentIndex, freeIndexPool>>
          /\ \A v \in Users : offset'[v] \in {offset[v], 0}
      BY <2>7 DEF ClearEventArgs, Typed
    <3>. QED
      BY <2>1, <2>2, <2>3, <3>1 DEF Whole
  <2>. QED
    BY <2>4, <2>5, <2>6, <2>7, Steps
<1>. QED
  BY <1>1, <1>2, PlacesHold, PTL DEF Spec

\* Held buffers are the same or apart, for all sizes and however often buffers
\* are released.
THEOREM BuffersAreWhole == Spec => []NeverPartlyShared
<1>1. Typed /\ Whole => NeverPartlyShared
  <2> SUFFICES ASSUME Typed, Whole, NEW u \in Holders, NEW v \in Holders
               PROVE  offset[u] = offset[v] \/ Separate(offset[u], offset[v])
    BY DEF NeverPartlyShared
  <2>1. /\ BufferSize \in Int /\ offset[u] \in Int /\ offset[v] \in Int
        /\ u \in Users /\ v \in Users
    BY SizesAreInts DEF Typed, Int32, Holders
  <2>2. CASE BufferSize > 0
    BY <2>1, <2>2, MultiplesAreApart DEF Whole
  <2>3. CASE ~(BufferSize > 0)
    BY <2>1, <2>3 DEF Separate
  <2>. QED
    BY <2>2, <2>3
<1>. QED
  BY <1>1, PlacesHold, WholeHolds, PTL

-----------------------------------------------------------------------------
(* Buffers that are released at most once.                                  *)

CutUp(o) == o >= 0 /\ o + BufferSize <= currentIndex

\* Disjoint is not inductive: the buffers on the stack, which are handed out
\* again, must be separate from each other and from those that are held, and
\* all of them from the part of the block that was never used.
Separated ==
  /\ \A u \in Holders : CutUp(offset[u])
  /\ \A i \in 1 .. Len(freeIndexPool) : CutUp(freeIndexPool[i])
  /\ \A u, v \in Holders : u # v => Separate(offset[u], offset[v])
  /\ \A i, j \in 1 .. Len(freeIndexPool) :
       i # j => Separate(freeIndexPool[i], freeIndexPool[j])
  /\ \A u \in Holders : \A i \in 1 .. Len(freeIndexPool) :
       Separate(offset[u], freeIndexPool[i])

IInv == ~misused /\ BufferSize > 0 => Separated

\* Taking a free buffer keeps held and free buffers apart: it moves one.
LEMMA SeparatedWhenTakingFree ==
  ASSUME Typed, Separated, BufferSize' = BufferSize, BufferSize \in Int, BufferSize > 0,
         NEW u \in Users, status[u] # "holds", TakeFree(u)
  PROVE  Separated'
<1> DEFINE n == Len(freeIndexPool)
<1>1. /\ n \in Nat \ {0} /\ Len(freeIndexPool') = n - 1 /\ UNCHANGED currentIndex
      /\ Top = freeIndexPool[n] /\ n \in 1 .. n
      /\ \A i \in 1 .. n - 1 :
           freeIndexPool'[i] = freeIndexPool[i] /\ i \in 1 .. n /\ i # n
  BY Popped DEF Typed, Top, TakeFree
<1>2. \A v \in Users : v # u => status'[v] = status[v] /\ offset'[v] = offset[v]
  BY DEF TakeFree, Hold, Answer, Typed
<1>3. status'[u] = "holds" => offset'[u] = freeIndexPool[n]
  BY <1>1 DEF TakeFree, Hold, Answer, Typed
<1>4. \A v \in Holders' :
        \/ v \in Holders /\ v # u /\ offset'[v] = offset[v]
        \/ v = u /\ offset'[v] = freeIndexPool[n]
  BY <1>2, <1>3 DEF Holders
<1> HIDE DEF n
<1>5. \A i \in 1 .. n - 1 :
        /\ CutUp(freeIndexPool[i])
        /\ Separate(freeIndexPool[i], freeIndexPool[n])
        /\ Separate(freeIndexPool[n], freeIndexPool[i])
  BY <1>1 DEF Separated, n
<1>6. /\ CutUp(freeIndexPool[n])
      /\ \A v \in Holders :
           /\ CutUp(offset[v])
           /\ Separate(offset[v], freeIndexPool[n])
           /\ Separate(freeIndexPool[n], offset[v])
  BY <1>1 DEF Separated, Separate, n
<1>7. \A v \in Holders' : CutUp(offset'[v])
  BY <1>4, <1>6
<1>8. \A v, w \in Holders' : v # w => Separate(offset'[v], offset'[w])
  BY <1>4, <1>6 DEF Separated
<1>9. \A i, j \in 1 .. n - 1 : i # j => Separate(freeIndexPool'[i], freeIndexPool'[j])
  BY <1>1 DEF Separated, n
<1>10. \A v \in Holders' : \A i \in 1 .. n - 1 : Separate(offset'[v], freeIndexPool'[i])
  BY <1>1, <1>4, <1>5 DEF Separated, n
<1>. QED
  BY <1>1, <1>5, <1>7, <1>8, <1>9, <1>10 DEF Separated, CutUp, Separate

\* Cutting a new buffer keeps them apart: it begins where all others end.
LEMMA SeparatedWhenTakingNew ==
  ASSUME Typed, Places, Separated, BufferSize' = BufferSize, BufferSize \in Int, BufferSize > 0,
         NEW u \in Users, status[u] # "holds", TakeNew(u)
  PROVE  Separated'
<1>1. /\ freeIndexPool' = freeIndexPool /\ freeIndexPool = <<>> /\ NumberOfBytes >= 0
      /\ Len(freeIndexPool) = 0
  BY DEF TakeNew
<1>2. CASE UNCHANGED <<currentIndex, offset>> /\ (Answer(u, "null") \/ Answer(u, "thrown"))
  <2>1. Holders' \subseteq Holders
    BY <1>2 DEF Answer, Holders, Typed
  <2>. QED
    BY <1>1, <1>2, <2>1 DEF Separated, CutUp, Separate
<1>3. CASE Room /\ Hold(u, currentIndex) /\ currentIndex' = Wrap(currentIndex + BufferSize)
  <2>1. currentIndex' = currentIndex + BufferSize
    BY <1>1, <1>3, Cut
  <2>2. currentIndex \in Int /\ currentIndex >= 0 /\ \A v \in Users : offset[v] \in Int
    BY DEF Places, Typed, Int32
  <2>3. \A v \in Holders' :
          \/ v \in Holders /\ v # u /\ offset'[v] = offset[v]
          \/ v = u /\ offset'[v] = currentIndex
    BY <1>3 DEF Hold, Answer, Holders, Typed
  <2>4. \A v \in Holders : v \in Users /\ offset[v] >= 0 /\ offset[v] + BufferSize <= currentIndex
    BY DEF Separated, CutUp, Holders
  <2>5. \A v \in Holders' : offset'[v] >= 0 /\ offset'[v] + BufferSize <= currentIndex'
    BY <2>1, <2>2, <2>3, <2>4
  <2>6. \A v \in Holders : Separate(offset[v], currentIndex) /\ Separate(currentIndex, offset[v])
    BY <2>4 DEF Separate
  <2>7. \A v, w \in Holders' : v # w => Separate(offset'[v], offset'[w])
    BY <2>3, <2>6 DEF Separated
  <2>. QED
    BY <1>1, <2>5, <2>7 DEF Separated, CutUp, Separate
<1>. QED
  BY <1>2, <1>3 DEF TakeNew

\* Releasing a held buffer keeps them apart: it moves one to the stack.
LEMMA SeparatedWhenReleasing ==
  ASSUME Typed, Separated, BufferSize' = BufferSize, BufferSize \in Int,
         NEW u \in Users, status[u] = "holds", ReleaseBuffer(u)
  PROVE  Separated'
<1> DEFINE n == Len(freeIndexPool)
<1>1. /\ UNCHANGED <<currentIndex, offset>> /\ n \in Nat /\ Len(freeIndexPool') = n + 1
      /\ freeIndexPool'[n + 1] = offset[u]
      /\ \A i \in 1 .. n : freeIndexPool'[i] = freeIndexPool[i]
  BY DEF ReleaseBuffer, Typed
<1>2. u \in Holders /\ \A v \in Holders' : v \in Holders /\ v # u
  BY DEF ReleaseBuffer, Answer, Holders, Typed
<1> HIDE DEF n
<1>3. \A i \in 1 .. n + 1 : i \in 1 .. n \/ i = n + 1
  BY <1>1
<1>4. \A i \in 1 .. n :
        /\ CutUp(freeIndexPool[i])
        /\ Separate(offset[u], freeIndexPool[i])
        /\ Separate(freeIndexPool[i], offset[u])
  BY <1>2 DEF Separated, Separate, n
<1>5. \A i \in 1 .. n + 1 : CutUp(freeIndexPool'[i])
  BY <1>1, <1>2, <1>3, <1>4 DEF Separated
<1>6. \A i, j \in 1 .. n + 1 : i # j => Separate(freeIndexPool'[i], freeIndexPool'[j])
  <2>1. \A i, j \in 1 .. n : i # j => Separate(freeIndexPool[i], freeIndexPool[j])
    BY DEF Separated, n
  <2>. QED
    BY <1>1, <1>3, <1>4, <2>1
<1>7. \A v \in Holders' : \A i \in 1 .. n + 1 : Separate(offset[v], freeIndexPool'[i])
  <2>1. \A v \in Holders : \A i \in 1 .. n : Separate(offset[v], freeIndexPool[i])
    BY DEF Separated, n
  <2>2. \A v \in Holders : v # u => Separate(offset[v], offset[u])
    BY <1>2 DEF Separated
  <2>. QED
    BY <1>1, <1>2, <1>3, <2>1, <2>2
<1>8. \A v, w \in Holders' : v # w => Separate(offset[v], offset[w])
  BY <1>2 DEF Separated
<1>9. \A v \in Holders' : CutUp(offset[v])
  BY <1>2 DEF Separated
<1>. QED
  BY <1>1, <1>5, <1>6, <1>7, <1>8, <1>9 DEF Separated, CutUp, Separate

\* The buffers on the stack and those that are held stay separate.
LEMMA IInvHolds == Spec => []IInv
<1>1. Init => IInv
  <2>1. Init => Len(freeIndexPool) = 0 /\ Holders = {}
    BY DEF Init, Holders
  <2>. QED
    BY <2>1 DEF IInv, Separated
<1>2. Typed /\ Places /\ IInv /\ [Next]_vars => IInv'
  <2> SUFFICES ASSUME Typed, Places, IInv, [Next]_vars, ~misused', BufferSize' > 0
               PROVE  Separated'
    BY DEF IInv
  <2>1. BufferSize' = BufferSize /\ BufferSize > 0 /\ BufferSize \in Int
    BY SizesStay, SizesAreInts DEF Typed, Int32
  <2>2. ~misused
    BY Steps DEF vars, Obtain, ReleaseBuffer, ClearEventArgs, Typed
  <2>3. Separated
    BY <2>1, <2>2 DEF IInv
  <2>4. CASE UNCHANGED vars
    BY <2>1, <2>3, <2>4 DEF vars, Separated, CutUp, Separate, Holders
  <2>5. ASSUME NEW u \in Users, Obtain(u) PROVE Separated'
    <3>1. CASE NoBlock(u)
      <4>1. UNCHANGED <<freeIndexPool, currentIndex, offset>> /\ Holders' \subseteq Holders
        BY <3>1 DEF NoBlock, Answer, Holders, Typed
      <4>. QED
        BY <4>1, <2>1, <2>3 DEF Separated, CutUp, Separate
    <3>. QED
      BY <2>1, <2>3, <2>5, <3>1, SeparatedWhenTakingFree, SeparatedWhenTakingNew DEF Obtain
  <2>6. ASSUME NEW u \in Users, ReleaseBuffer(u) PROVE Separated'
    <3>1. status[u] = "holds"
      BY <2>6 DEF ReleaseBuffer
    <3>. QED
      BY <3>1, <2>1, <2>3, <2>6, SeparatedWhenReleasing
  <2>7. ASSUME NEW u \in Users, ClearEventArgs(u) PROVE Separated'
    <3>1. /\ UNCHANGED <<freeIndexPool, currentIndex>>
          /\ \A v \in Holders' : v \in Holders /\ offset'[v] = offset[v]
      BY <2>7 DEF ClearEventArgs, Answer, Holders, Typed
    <3>. QED
      BY <3>1, <2>1, <2>3 DEF Separated, CutUp, Separate
  <2>. QED
    BY <2>4, <2>5, <2>6, <2>7, Steps
<1>. QED
  BY <1>1, <1>2, PlacesHold, PTL DEF Spec

\* No two users hold overlapping buffers while none is released twice, for any
\* sizes and any number of users.
THEOREM BuffersAreDisjoint == Spec => []Disjoint
<1>1. Typed /\ Places /\ IInv => Disjoint
  <2> SUFFICES ASSUME Typed, IInv, ~misused, NEW u \in Holders, NEW v \in Holders, u # v
               PROVE  Separate(offset[u], offset[v])
    BY DEF Disjoint
  <2>1. BufferSize \in Int /\ offset[u] \in Int /\ offset[v] \in Int
    BY SizesAreInts DEF Typed, Int32, Holders
  <2>2. CASE BufferSize > 0
    BY <2>2 DEF IInv, Separated
  <2>3. CASE ~(BufferSize > 0)
    BY <2>1, <2>3 DEF Separate
  <2>. QED
    BY <2>2, <2>3
<1>. QED
  BY <1>1, IInvHolds, PlacesHold, PTL

-----------------------------------------------------------------------------
(* How many buffers there are.                                              *)

\* Those who hold buffers are finitely many; one more or one less is counted.
LEMMA HoldersAreFinite == IsFiniteSet(Holders) /\ Cardinality(Holders) \in Nat
<1>1. Holders \subseteq Users
  BY DEF Holders
<1>. QED
  BY <1>1, FS_Subset, FS_CardinalityType

\* With sizes that do not overflow, a buffer that lies in the block is accepted.
LEMMA InsideIsAccepted ==
  ASSUME Typed, BufferSize > 0, NEW u \in Users, NEW o \in Int32,
         0 <= o, o + BufferSize <= NumberOfBytes
  PROVE  Accepts(u, o)
<1>1. BufferSize \in Int32 /\ NumberOfBytes \in Int32 /\ o + BufferSize \in Int32
  BY SizesAreInts DEF Typed, Int32
<1>2. Wrap(o + BufferSize) = o + BufferSize
  BY <1>1, WrapIsInt DEF Int32
<1>. QED
  BY <1>1, <1>2 DEF Accepts, Int32

\* A buffer taken off the stack is held by one more.
LEMMA CountWhenTakingFree ==
  ASSUME Typed, Places, Separated, BufferSize > 0,
         NEW u \in Users, status[u] # "holds", TakeFree(u)
  PROVE  /\ Cardinality(Holders') = Cardinality(Holders) + 1
         /\ Len(freeIndexPool') = Len(freeIndexPool) - 1
         /\ UNCHANGED currentIndex
<1>1. /\ Len(freeIndexPool) \in Nat \ {0} /\ Top \in Int32
      /\ Len(freeIndexPool') = Len(freeIndexPool) - 1
  BY Popped DEF Typed
<1>2. CutUp(Top)
  BY <1>1 DEF Separated, Top
<1>3. /\ BufferSize \in Int /\ NumberOfBytes \in Int /\ currentIndex \in Int /\ Top \in Int
      /\ 0 <= Top /\ Top + BufferSize <= currentIndex
  BY <1>1, <1>2, SizesAreInts DEF CutUp, Typed, Int32
<1>4. currentIndex <= NumberOfBytes
  BY <1>3 DEF Places
<1>5. Accepts(u, Top)
  BY <1>1, <1>3, <1>4, InsideIsAccepted
<1>6. Hold(u, Top) /\ UNCHANGED currentIndex
  BY <1>5 DEF TakeFree
<1>7. Holders' = Holders \cup {u} /\ u \notin Holders
  BY <1>6 DEF Hold, Answer, Holders, Typed
<1>. QED
  BY <1>1, <1>6, <1>7, HoldersAreFinite, FS_AddElement

\* A buffer cut from the block is held by one more; a request that gets none
\* changes no number.
LEMMA CountWhenTakingNew ==
  ASSUME Typed, Places, BufferSize > 0,
         NEW u \in Users, status[u] # "holds", TakeNew(u)
  PROVE  /\ UNCHANGED freeIndexPool
         /\ \/ /\ Cardinality(Holders') = Cardinality(Holders) + 1
               /\ currentIndex' = currentIndex + BufferSize
            \/ Holders' = Holders /\ UNCHANGED currentIndex
<1>1. UNCHANGED freeIndexPool /\ NumberOfBytes >= 0
  BY DEF TakeNew
<1>2. CASE UNCHANGED <<currentIndex, offset>> /\ (Answer(u, "null") \/ Answer(u, "thrown"))
  <2>1. Holders' = Holders
    BY <1>2 DEF Answer, Holders, Typed
  <2>. QED
    BY <1>1, <1>2, <2>1
<1>3. CASE Room /\ Hold(u, currentIndex) /\ currentIndex' = Wrap(currentIndex + BufferSize)
  <2>1. currentIndex' = currentIndex + BufferSize
    BY <1>1, <1>3, Cut
  <2>2. Holders' = Holders \cup {u} /\ u \notin Holders
    BY <1>3 DEF Hold, Answer, Holders, Typed
  <2>. QED
    BY <1>1, <2>1, <2>2, HoldersAreFinite, FS_AddElement
<1>. QED
  BY <1>2, <1>3 DEF TakeNew

\* A released buffer is held by one less and lies on the stack.
LEMMA CountWhenReleasing ==
  ASSUME Typed, NEW u \in Users, status[u] = "holds", ReleaseBuffer(u)
  PROVE  /\ Cardinality(Holders') = Cardinality(Holders) - 1
         /\ Len(freeIndexPool') = Len(freeIndexPool) + 1
         /\ UNCHANGED currentIndex
<1>1. Holders' = Holders \ {u} /\ u \in Holders
  BY DEF ReleaseBuffer, Answer, Holders, Typed
<1>2. Len(freeIndexPool') = Len(freeIndexPool) + 1 /\ UNCHANGED currentIndex
  BY DEF ReleaseBuffer, Typed
<1>. QED
  BY <1>1, <1>2, HoldersAreFinite, FS_RemoveElement

\* No buffer is lost: what was cut from the block is held or free.
THEOREM NoBufferIsLost == Spec => []NoneIsLost
<1>1. Init => NoneIsLost
  <2> SUFFICES ASSUME Init, Available PROVE NoneIsLost
    BY DEF NoneIsLost
  <2>1. Holders = {} /\ Len(freeIndexPool) = 0 /\ currentIndex = 0 /\ BufferSize \in Int
    BY SizesAreInts DEF Init, Holders, Int32
  <2>. QED
    BY <2>1, FS_EmptySet DEF NoneIsLost
<1>2. Typed /\ Places /\ IInv /\ NoneIsLost /\ [Next]_vars => NoneIsLost'
  <2> SUFFICES ASSUME Typed, Places, IInv, NoneIsLost, [Next]_vars, ~misused', Available'
               PROVE  BufferSize' * (Cardinality(Holders') + Len(freeIndexPool')) = currentIndex'
    BY DEF NoneIsLost
  <2>1. /\ BufferSize' = BufferSize /\ BufferSize > 0 /\ BufferSize \in Int /\ Available
        /\ currentIndex \in Int /\ Len(freeIndexPool) \in Nat /\ Cardinality(Holders) \in Nat
    BY SizesStay, SizesAreInts, HoldersAreFinite DEF Typed, Int32, Available
  <2>2. ~misused
    BY Steps DEF vars, Obtain, ReleaseBuffer, ClearEventArgs, Typed
  <2>3. Separated /\ BufferSize * (Cardinality(Holders) + Len(freeIndexPool)) = currentIndex
    BY <2>1, <2>2 DEF IInv, NoneIsLost
  <2>4. ASSUME UNCHANGED <<freeIndexPool, currentIndex>>, Holders' = Holders
        PROVE  BufferSize' * (Cardinality(Holders') + Len(freeIndexPool')) = currentIndex'
    BY <2>1, <2>3, <2>4
  <2>5. CASE UNCHANGED vars
    BY <2>4, <2>5 DEF vars, Holders
  <2>6. ASSUME NEW u \in Users, Obtain(u)
        PROVE  BufferSize' * (Cardinality(Holders') + Len(freeIndexPool')) = currentIndex'
    <3>1. CASE NoBlock(u)
      BY <2>4, <2>6, <3>1 DEF Obtain, NoBlock, Answer, Holders, Typed
    <3>2. CASE TakeFree(u)
      <4>1. /\ Cardinality(Holders') = Cardinality(Holders) + 1
            /\ Len(freeIndexPool') = Len(freeIndexPool) - 1
            /\ UNCHANGED currentIndex
        BY <2>1, <2>3, <2>6, <3>2, CountWhenTakingFree DEF Obtain
      <4>2. Cardinality(Holders') + Len(freeIndexPool') = Cardinality(Holders) + Len(freeIndexPool)
        BY <2>1, <4>1
      <4>. QED
        BY <2>1, <2>3, <4>1, <4>2
    <3>3. CASE TakeNew(u)
      <4>1. /\ UNCHANGED freeIndexPool
            /\ \/ /\ Cardinality(Holders') = Cardinality(Holders) + 1
                  /\ currentIndex' = currentIndex + BufferSize
               \/ Holders' = Holders /\ UNCHANGED currentIndex
        BY <2>1, <2>6, <3>3, CountWhenTakingNew DEF Obtain
      <4>2. \A b, n, k \in Int : b * ((n + 1) + k) = b * (n + k) + b
        OBVIOUS
      <4>3. CASE Holders' = Holders /\ UNCHANGED currentIndex
        BY <2>4, <4>1, <4>3
      <4>4. CASE /\ Cardinality(Holders') = Cardinality(Holders) + 1
                 /\ currentIndex' = currentIndex + BufferSize
        <5>1. BufferSize * ((Cardinality(Holders) + 1) + Len(freeIndexPool))
                = BufferSize * (Cardinality(Holders) + Len(freeIndexPool)) + BufferSize
          BY <2>1, <4>2
        <5>2. Len(freeIndexPool') = Len(freeIndexPool)
          BY <4>1
        <5>. QED
          BY <2>1, <2>3, <4>4, <5>1, <5>2
      <4>. QED
        BY <4>1, <4>3, <4>4
    <3>. QED
      BY <2>6, <3>1, <3>2, <3>3 DEF Obtain
  <2>7. ASSUME NEW u \in Users, ReleaseBuffer(u)
        PROVE  BufferSize' * (Cardinality(Holders') + Len(freeIndexPool')) = currentIndex'
    <3>1. status[u] = "holds"
      BY <2>7 DEF ReleaseBuffer
    <3>2. /\ Cardinality(Holders') = Cardinality(Holders) - 1
          /\ Len(freeIndexPool') = Len(freeIndexPool) + 1
          /\ UNCHANGED currentIndex
      BY <2>7, <3>1, CountWhenReleasing
    <3>3. Cardinality(Holders') + Len(freeIndexPool') = Cardinality(Holders) + Len(freeIndexPool)
      BY <2>1, <3>2
    <3>. QED
      BY <2>1, <2>3, <3>2, <3>3
  <2>8. ASSUME NEW u \in Users, ClearEventArgs(u)
        PROVE  BufferSize' * (Cardinality(Holders') + Len(freeIndexPool')) = currentIndex'
    BY <2>4, <2>8 DEF ClearEventArgs, Answer, Holders, Typed
  <2>. QED
    BY <2>5, <2>6, <2>7, <2>8, Steps
<1>. QED
  BY <1>1, <1>2, IInvHolds, PlacesHold, PTL DEF Spec

\* A buffer is refused only when as many as the pool allows are held.
THEOREM RefusedOnlyIfExhausted == Spec => NullOnlyIfExhausted
<1>1. Typed /\ Places /\ NoneIsLost /\ [Next]_vars =>
        [~misused /\ Available /\ (\E u \in Users : status[u] # "null" /\ status'[u] = "null")
           => Cardinality(Holders) >= pool.maxSize]_vars
  <2> SUFFICES ASSUME Typed, Places, NoneIsLost, [Next]_vars, ~misused, Available,
                      NEW u \in Users, status[u] # "null", status'[u] = "null"
               PROVE  Cardinality(Holders) >= pool.maxSize
    OBVIOUS
  <2>1. PICK v \in Users : Obtain(v)
    BY Steps DEF vars, ReleaseBuffer, ClearEventArgs, Answer, Typed
  <2>2. ~Room /\ freeIndexPool = <<>> /\ NumberOfBytes >= 0
    BY <2>1 DEF Obtain, NoBlock, TakeFree, TakeNew, Hold, Answer, Typed
  <2>3. /\ BufferSize \in Int /\ BufferSize > 0 /\ NumberOfBytes \in Int32
        /\ pool.maxSize \in Int /\ NumberOfBytes = pool.maxSize * BufferSize
        /\ currentIndex \in Int /\ Cardinality(Holders) \in Nat
    <3>1. pool \in [maxSize : Int32, bufferSize : Int32]
      BY DEF Typed
    <3>. QED
      BY <3>1, SizesAreInts, HoldersAreFinite DEF Available, Typed, Int32
  <2>4. NumberOfBytes - BufferSize < currentIndex
    <3>1. NumberOfBytes - BufferSize \in Int32
      BY <2>2, <2>3, SizesAreInts DEF Typed, Int32
    <3>2. Wrap(NumberOfBytes - BufferSize) = NumberOfBytes - BufferSize
      BY <3>1, WrapIsInt DEF Int32
    <3>. QED
      BY <2>2, <2>3, <3>1, <3>2 DEF Room, Int32
  <2>5. BufferSize * Cardinality(Holders) = currentIndex
    BY <2>2, <2>3 DEF NoneIsLost
  <2>6. \A b, m, n \in Int : b > 0 /\ m * b - b < b * n => n >= m
    OBVIOUS
  <2>. QED
    BY <2>3, <2>4, <2>5, <2>6
<1>. QED
  BY <1>1, PlacesHold, NoBufferIsLost, PTL DEF Spec, NullOnlyIfExhausted
=============================================================================
