----------------------------- MODULE HeapBlocks -----------------------------
(***************************************************************************)
(* The heap of the best-fit allocator (assignment 4, p1/malloc.c) seen as  *)
(* a set of blocks: what every call of my_malloc and my_free does to the   *)
(* blocks, without the linked list that finds them.  Addresses are offsets *)
(* from _heapStart.  Calls are atomic, as in the sequential program, save  *)
(* that an extension of the heap and the retry that follows it are two     *)
(* steps.  ConcurrentMalloc, the threaded allocator with its linked list   *)
(* and its mutex, is shown to implement this specification.                *)
(***************************************************************************)
EXTENDS BlockArithmetic

CONSTANTS HEAP_SIZE,   \* size of the initial heap and of each extension
          Requests,    \* the sizes the application asks for
          MaxHeap      \* bound: the heap is not extended beyond this size

ASSUME HeapAssumption == /\ HEAP_SIZE \in Nat \ {0}
                         /\ Aligned(HEAP_SIZE)
                         /\ HEAP_SIZE + 2 * HEADER_SIZE <= WORD
                         /\ MaxHeap \in Nat

(* Requests near 2^64 are left out: roundUp wraps for them.  This is the   *)
(* weakest bound under which neither sum of my_malloc overflows.           *)
ASSUME RequestAssumption == Requests \subseteq 0 .. (WORD - 2 * HEADER_SIZE)

VARIABLES
    size,      \* header field: the size of every block, by address
    free,      \* the blocks of the free list
    live,      \* allocated blocks, with the request each one answers
    heapSize,  \* _heapSize
    seams,     \* where an extension of the heap begins
    pending    \* request being retried after an extension, or NoRequest

vars == <<size, free, live, heapSize, seams, pending>>

NoRequest == -1
Blocks    == DOMAIN size
End(b)    == b + size[b]

-----------------------------------------------------------------------------
(* initAllocator.                                                          *)
Init == /\ size = [b \in {0} |-> HEAP_SIZE]
        /\ free = {0}
        /\ live = [b \in {} |-> NoRequest]
        /\ heapSize = HEAP_SIZE
        /\ seams = {}
        /\ pending = NoRequest

(* The block the search loop settles on: the smallest one that is large    *)
(* enough, and the first of those.                                         *)
Fitting(n)    == {b \in free : size[b] >= n}
BestFit(b, n) == /\ b \in Fitting(n)
                 /\ \A c \in Fitting(n) : \/ size[b] < size[c]
                                          \/ size[b] = size[c] /\ b <= c

(* allocate_block for a request r: an exact fit leaves the free list, a    *)
(* larger block is split and its upper part stays free.                    *)
AllocateBlock(b, n, r) ==
    /\ IF size[b] = n
         THEN /\ free' = free \ {b}
              /\ size' = size
         ELSE /\ free' = (free \ {b}) \cup {b + n}
              /\ size' = [c \in Blocks \cup {b + n} |->
                             CASE c = b     -> n
                               [] c = b + n -> size[b] - n
                               [] OTHER     -> size[c]]
    /\ live' = [c \in DOMAIN live \cup {b} |-> IF c = b THEN r ELSE live[c]]

(* my_malloc when a free block is large enough.                            *)
Malloc(r) == /\ pending = NoRequest
             /\ BlockSize(r) <= HEAP_SIZE
             /\ \E b \in free : /\ BestFit(b, BlockSize(r))
                                /\ AllocateBlock(b, BlockSize(r), r)
             /\ UNCHANGED <<heapSize, seams, pending>>

(* my_malloc when none is: the heap grows by a block of HEAP_SIZE that is  *)
(* put on the free list without being merged with a free block before it.  *)
(* Here sbrk gives what is needed, any number of times.  That the program  *)
(* takes a failure for success, and asks for too little from the second    *)
(* extension on (heapSize += size), is in ConcurrentMalloc, whose          *)
(* allocHeap is the same: beyond one extension this is a superset of the   *)
(* heaps that the program survives.                                        *)
Extend(r) == /\ pending = NoRequest
             /\ BlockSize(r) <= HEAP_SIZE
             /\ Fitting(BlockSize(r)) = {}
             /\ heapSize + HEAP_SIZE <= MaxHeap
             /\ size' = [c \in Blocks \cup {heapSize} |->
                            IF c = heapSize THEN HEAP_SIZE ELSE size[c]]
             /\ free' = free \cup {heapSize}
             /\ seams' = seams \cup {heapSize}
             /\ heapSize' = heapSize + HEAP_SIZE
             /\ pending' = r
             /\ UNCHANGED live

(* The recursive call.  It is given the block size, not the request, and   *)
(* so adds a second header; the larger size may fail the size check.       *)
RetrySize == BlockSize(BlockSize(pending))

Retry == /\ pending # NoRequest
         /\ pending' = NoRequest
         /\ IF RetrySize > HEAP_SIZE
              THEN UNCHANGED <<size, free, live>>
              ELSE \E b \in free : /\ BestFit(b, RetrySize)
                                   /\ AllocateBlock(b, RetrySize, pending)
         /\ UNCHANGED <<heapSize, seams>>

(* Mutated: no merging with the block before.                              *)
BaseUnmerged(a)  == a

(* my_free: the block is merged with a free block that ends where it       *)
(* begins and with a free block that begins where it ends.                 *)
Base(a)     == IF \E p \in free : End(p) = a
                 THEN CHOOSE p \in free : End(p) = a
                 ELSE a
Limit(a)    == IF End(a) \in free THEN End(End(a)) ELSE End(a)
Absorbed(a) == ({a} \cup (free \cap {End(a)})) \ {Base(a)}

Free(a) == /\ pending = NoRequest
           /\ a \in DOMAIN live
           /\ size' = [c \in Blocks \ Absorbed(a) |->
                          IF c = Base(a) THEN Limit(a) - Base(a) ELSE size[c]]
           /\ free' = (free \cup {Base(a)}) \ Absorbed(a)
           /\ live' = [c \in DOMAIN live \ {a} |-> live[c]]
           /\ UNCHANGED <<heapSize, seams, pending>>

Next == \/ \E r \in Requests : Malloc(r) \/ Extend(r)
        \/ Retry
        \/ \E a \in DOMAIN live : Free(a)

Spec == Init /\ [][Next]_vars

-----------------------------------------------------------------------------
(* Types.  Only blocks are on the free list.                               *)
TypeOK == /\ size \in [Blocks -> Nat]
          /\ Blocks \subseteq Nat
          /\ free \subseteq Blocks
          /\ live \in [DOMAIN live -> Requests]
          /\ heapSize \in Nat
          /\ seams \subseteq Nat
          /\ pending \in Requests \cup {NoRequest}

(* No two blocks overlap: memory handed out by my_malloc is never handed   *)
(* out again, nor used for a header, before my_free.                       *)
NoOverlap == \A b, c \in Blocks : b < c => End(b) <= c

(* Walking the heap by the sizes of the blocks meets every byte of it and  *)
(* stops at its end (_getNextBlockBySize asserts the second part).         *)
Tiling == /\ \A b \in Blocks : End(b) <= heapSize
          /\ \A x \in 0 .. heapSize - 1 :
                \E b \in Blocks : b <= x /\ x < End(b)

(* No block is lost or handed out while free: each is either on the free   *)
(* list or held by the application.                                        *)
Partition == /\ free \cap DOMAIN live = {}
             /\ free \cup DOMAIN live = Blocks

(* Blocks start and end at multiples of the header size and have room for  *)
(* a header.                                                               *)
Alignment == \A b \in Blocks : /\ Aligned(b)
                               /\ Aligned(size[b])
                               /\ size[b] >= HEADER_SIZE

(* A block is large enough for its header and what was asked for.          *)
BigEnough == \A b \in DOMAIN live : size[b] >= HEADER_SIZE + live[b]

(* my_free leaves no two free neighbours: they meet only where the heap    *)
(* was extended.                                                           *)
Coalesced == \A b \in free : End(b) \in free => End(b) \in seams

(* When everything was freed and the heap never grew, it is one block      *)
(* again: no sequence of calls fragments it for good.                      *)
Whole == (DOMAIN live = {} /\ seams = {}) => size = [b \in {0} |-> HEAP_SIZE]

(* A retry is under way only for a request that the empty heap can hold.   *)
PendingFits == pending # NoRequest => /\ BlockSize(pending) <= HEAP_SIZE
                                      /\ \E b \in free : size[b] = HEAP_SIZE

(* The conjunction is inductive: no part of it is preserved on its own.    *)
HeapInv == /\ TypeOK
           /\ NoOverlap
           /\ Tiling
           /\ Partition
           /\ Alignment
           /\ BigEnough
           /\ Coalesced
           /\ PendingFits

(* Whatever is called, the blocks are a gapless partition of the heap into *)
(* free blocks and blocks in use, aligned and large enough, with no two    *)
(* free neighbours; once all is freed, the heap is one block again.        *)
HeapSafe == /\ HeapInv
            /\ Whole

(* What the application sees of the blocks is what every allocator         *)
(* promises: memory in use is handed out once, is large enough, lies in    *)
(* the heap and stays where it is until my_free.                           *)
Held    == [b \in DOMAIN live |-> [size |-> size[b], ask |-> live[b]]]
Service == INSTANCE MemoryService WITH live <- Held, limit <- heapSize
ImplementsMemoryService == Service!Spec
=============================================================================
