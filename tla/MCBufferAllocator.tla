-------------------------- MODULE MCBufferAllocator --------------------------
(* Pools for BufferAllocator: regular ones, a size of zero, a negative one,  *)
(* and products beyond an int, which come out negative or too small.        *)
EXTENDS BufferAllocator

MCPools ==
  {[maxSize |-> 1, bufferSize |-> 5], [maxSize |-> 2, bufferSize |-> 3],
   [maxSize |-> 3, bufferSize |-> 2], [maxSize |-> 2, bufferSize |-> 0],
   [maxSize |-> 2, bufferSize |-> -3],   \* -6
   [maxSize |-> 6, bufferSize |-> 3],    \* 18 - 32 = -14
   [maxSize |-> 8, bufferSize |-> 5],    \* 40 - 32 = 8
   [maxSize |-> 3, bufferSize |-> 13],   \* 39 - 32 = 7, less than one buffer
   [maxSize |-> 3, bufferSize |-> -9]}   \* -27 + 32 = 5
=============================================================================
