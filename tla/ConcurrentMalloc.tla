-------------------------- MODULE ConcurrentMalloc --------------------------
(***************************************************************************)
(* The thread-safe best-fit allocator (assignment 9, p1/malloc.c): block   *)
(* headers in memory, the free list threaded through them, and the         *)
(* recursive mutex.  Threads call my_malloc, my_free, dumpAllocator and    *)
(* enable_debug at any time.  A step is one iteration of a loop or the     *)
(* straight-line code between two loops or mutex operations, so that an    *)
(* access made without the mutex would be seen by another thread.          *)
(*                                                                         *)
(* Addresses are offsets from _heapStart; a pointer to a block stands for  *)
(* the pointer to its data that the application is given.                  *)
(***************************************************************************)
EXTENDS BlockArithmetic

CONSTANTS Threads,
          HEAP_SIZE,
          Requests,      \* the sizes the application asks for
          DebugValues    \* the arguments of enable_debug

ASSUME HeapAssumption == /\ HEAP_SIZE \in Nat \ {0}
                         /\ Aligned(HEAP_SIZE)
                         /\ HEAP_SIZE + 2 * HEADER_SIZE <= WORD
ASSUME RequestAssumption == Requests \subseteq 0 .. (WORD - 2 * HEADER_SIZE)
ASSUME DebugAssumption == DebugValues \subseteq BOOLEAN

VARIABLES
    heap,      \* memory: header fields size and next, and _firstFreeBlock
    heapSize,  \* _heapSize
    reserved,  \* the static heapSize of allocHeap
    brk,       \* end of the memory that sbrk has given the program
    mutex,     \* alloc_mutex: the thread that holds it and how often
    debug,
    pc, loc,   \* where each thread is, and its local variables
    held,      \* blocks the application may use and free
    live,      \* allocated blocks, with the request each one answers
    crashed    \* the program was killed for touching unmapped memory

memVars == <<heap, heapSize, reserved, brk, crashed>>
appVars == <<held, live, debug>>
vars    == <<memVars, mutex, appVars, pc, loc>>

NULL   == -1
Nobody == "nobody"

ASSUME ThreadAssumption == Nobody \notin Threads

(* Addresses at which a header may be written: the heap is never used      *)
(* beyond its first extension (see allocHeap below).                       *)
Address == 0 .. 2 * HEAP_SIZE - 1

(* Locals of the call in progress.  after is where a nested dumpAllocator  *)
(* returns to; retry counts the activations of my_malloc that wait for a   *)
(* recursive one.                                                          *)
NoLocals == [ask |-> NULL, size |-> 0, best |-> NULL, bestPrev |-> NULL,
             prev |-> NULL, cur |-> NULL, block |-> NULL, pos |-> NULL,
             after |-> "return", retry |-> 0]

-----------------------------------------------------------------------------
(* initAllocator: one free block; the mutex is recursive.                  *)
Init == /\ heap = [size  |-> [a \in Address |-> IF a = 0 THEN HEAP_SIZE ELSE 0],
                   next  |-> [a \in Address |-> NULL],
                   first |-> 0]
        /\ heapSize = HEAP_SIZE
        /\ reserved = HEAP_SIZE
        /\ brk = HEAP_SIZE
        /\ mutex = [owner |-> Nobody, depth |-> 0]
        /\ debug = FALSE
        /\ pc = [t \in Threads |-> "idle"]
        /\ loc = [t \in Threads |-> NoLocals]
        /\ held = {}
        /\ live = [a \in {} |-> NULL]
        /\ crashed = FALSE

Goto(t, label) == pc' = [pc EXCEPT ![t] = label]
At(t, label)   == pc[t] = label /\ ~crashed

(* Mutated: no mutual exclusion; a mutex that is not recursive; an unlock  *)
(* that releases all locks of the thread.                                  *)
MayLockAlways(t)  == TRUE
MayLockOnce(t)    == mutex.owner = Nobody
UnlockEntirely(t) == mutex' = [owner |-> Nobody, depth |-> 0]

(* pthread_mutex_lock and pthread_mutex_unlock on a recursive mutex.       *)
MayLock(t) == mutex.owner \in {Nobody, t}
Lock(t)    == /\ MayLock(t)
              /\ mutex' = [owner |-> t, depth |-> mutex.depth + 1]
Unlock(t)  == mutex' = IF mutex.depth = 1
                         THEN [owner |-> Nobody, depth |-> 0]
                         ELSE [mutex EXCEPT !.depth = @ - 1]

(* if (debug) dumpAllocator(), on the way to label.                        *)
GotoVia(t, label, locals) ==
    IF debug
      THEN /\ Goto(t, "d_lock")
           /\ loc' = [loc EXCEPT ![t] = [locals EXCEPT !.after = label]]
      ELSE /\ Goto(t, label)
           /\ loc' = [loc EXCEPT ![t] = locals]

(* *update_next = b, where update_next is &prev->next or &_firstFreeBlock. *)
SetNext(h, prev, b) == IF prev = NULL THEN [h EXCEPT !.first = b]
                                      ELSE [h EXCEPT !.next[prev] = b]

(* merge_blocks: neighbours become one block, others are left alone.  The  *)
(* header of the second is unused memory from then on; what is left in it  *)
(* is not kept (the fields get their initial values).                      *)
Neighbours(h, b, c) == b # NULL /\ c # NULL /\ b + h.size[b] = c
Merge(h, b, c) == IF Neighbours(h, b, c)
                    THEN [h EXCEPT !.size[b] = @ + h.size[c],
                                   !.next[b] = h.next[c],
                                   !.size[c] = 0,
                                   !.next[c] = NULL]
                    ELSE h

-----------------------------------------------------------------------------
(* my_malloc up to the mutex: the size check is made without it.           *)
MallocCall(t, r) ==
    /\ At(t, "idle")
    /\ IF BlockSize(r) > HEAP_SIZE
         THEN Goto(t, "return") /\ UNCHANGED loc
         ELSE /\ Goto(t, "m_lock")
              /\ loc' = [loc EXCEPT ![t].ask = r, ![t].size = BlockSize(r)]
    /\ UNCHANGED <<memVars, mutex, appVars>>

MallocLock(t) ==
    /\ At(t, "m_lock")
    /\ Lock(t)
    /\ GotoVia(t, "m_search",
               [loc[t] EXCEPT !.best = NULL, !.bestPrev = NULL,
                              !.prev = NULL, !.cur = heap.first])
    /\ UNCHANGED <<memVars, appVars>>

(* Mutated: the last of the smallest blocks instead of the first.          *)
BetterOrEqual(l) == /\ heap.size[l.cur] >= l.size
                    /\ l.best = NULL \/ heap.size[l.cur] <= heap.size[l.best]

(* One iteration of the search for the smallest block that fits.           *)
Better(l) == /\ heap.size[l.cur] >= l.size
             /\ l.best = NULL \/ heap.size[l.cur] < heap.size[l.best]

MallocSearch(t) ==
    LET l == loc[t] IN
    /\ At(t, "m_search")
    /\ l.cur # NULL
    /\ loc' = [loc EXCEPT ![t] =
                 [l EXCEPT !.best     = IF Better(l) THEN l.cur ELSE @,
                           !.bestPrev = IF Better(l) THEN l.prev ELSE @,
                           !.prev     = l.cur,
                           !.cur      = heap.next[l.cur]]]
    /\ UNCHANGED <<memVars, mutex, appVars, pc>>

(* Mutated: an exact fit stays on the list.                                *)
CarveListed(h, prev, b, n) ==
    IF h.size[b] = n
      THEN h
      ELSE SetNext([h EXCEPT !.size[b + n] = h.size[b] - n,
                             !.next[b + n] = h.next[b],
                             !.size[b]     = n], prev, b + n)

(* allocate_block: take an exact fit off the list, or put the upper part   *)
(* of a larger block in its place.  An allocated block's next is NULL.     *)
Carve(h, prev, b, n) ==
    IF h.size[b] = n
      THEN SetNext(h, prev, h.next[b])
      ELSE SetNext([h EXCEPT !.size[b + n] = h.size[b] - n,
                             !.next[b + n] = h.next[b],
                             !.size[b]     = n], prev, b + n)

AllocateBlock(h, prev, b, n) == [Carve(h, prev, b, n) EXCEPT !.next[b] = NULL]

MallocAllocate(t) ==
    LET l == loc[t] IN
    /\ At(t, "m_search")
    /\ l.cur = NULL
    /\ l.best # NULL
    /\ heap' = AllocateBlock(heap, l.bestPrev, l.best, l.size)
    /\ live' = [b \in DOMAIN live \cup {l.best} |->
                   IF b = l.best THEN l.ask ELSE live[b]]
    /\ GotoVia(t, "m_unlock", [l EXCEPT !.block = l.best])
    /\ UNCHANGED <<heapSize, reserved, brk, crashed, mutex, held, debug>>

(* allocHeap(_heapStart, newSize): sbrk(newSize - heapSize), then          *)
(* heapSize += newSize.  A failing sbrk returns -1, which the test for     *)
(* NULL misses, so that allocHeap reports success either way.              *)
AllocHeap(newSize) ==
    /\ \/ brk' = brk + (newSize - reserved)
       \/ brk' = brk
    /\ reserved' = reserved + newSize

(* my_malloc finds no block: it extends the heap and writes the header of  *)
(* the new block, which kills the program when sbrk gave no memory.        *)
MallocExtend(t) ==
    /\ At(t, "m_search")
    /\ loc[t].cur = NULL
    /\ loc[t].best = NULL
    /\ AllocHeap(heapSize + HEAP_SIZE)
    /\ heapSize' = heapSize + HEAP_SIZE
    /\ IF heapSize >= brk'
         THEN /\ crashed' = TRUE
              /\ UNCHANGED <<heap, pc, loc>>
         ELSE /\ heap' = [heap EXCEPT !.size[heapSize] = HEAP_SIZE,
                                      !.next[heapSize] = NULL]
              /\ Goto(t, "m_insert")
              /\ loc' = [loc EXCEPT ![t].block = heapSize,
                                    ![t].prev = NULL,
                                    ![t].cur = heap.first]
              /\ UNCHANGED crashed
    /\ UNCHANGED <<mutex, appVars>>

(* The loops of my_malloc and my_free that look for the place of a block   *)
(* in the free list, by address.                                           *)
Before(l) == l.cur # NULL /\ l.cur < l.block

Walk(t) ==
    /\ \E label \in {"m_insert", "f_walk"} : At(t, label)
    /\ Before(loc[t])
    /\ loc' = [loc EXCEPT ![t].prev = loc[t].cur,
                          ![t].cur = heap.next[loc[t].cur]]
    /\ UNCHANGED <<memVars, mutex, appVars, pc>>

Insert(h, l) == SetNext([h EXCEPT !.next[l.block] = l.cur], l.prev, l.block)

MallocInsert(t) ==
    /\ At(t, "m_insert")
    /\ ~Before(loc[t])
    /\ heap' = Insert(heap, loc[t])
    /\ Goto(t, "m_retry")
    /\ loc' = [loc EXCEPT ![t].retry = @ + 1, ![t].block = NULL]
    /\ UNCHANGED <<heapSize, reserved, brk, crashed, mutex, appVars>>

(* The recursive call my_malloc(size), made with the mutex held and with   *)
(* the size of the block in place of the size of the request.              *)
MallocRetry(t) ==
    LET n == BlockSize(loc[t].size) IN
    /\ At(t, "m_retry")
    /\ IF n > HEAP_SIZE
         THEN Goto(t, "m_unlock") /\ loc' = [loc EXCEPT ![t].retry = @ - 1]
         ELSE Goto(t, "m_lock")   /\ loc' = [loc EXCEPT ![t].size = n]
    /\ UNCHANGED <<memVars, mutex, appVars>>

(* The unlock of an activation of my_malloc, and that of my_free.          *)
UnlockAll(t) ==
    /\ \E label \in {"m_unlock", "f_unlock"} : At(t, label)
    /\ Unlock(t)
    /\ IF loc[t].retry = 0
         THEN Goto(t, "return") /\ UNCHANGED loc
         ELSE loc' = [loc EXCEPT ![t].retry = @ - 1] /\ UNCHANGED pc
    /\ UNCHANGED <<memVars, appVars>>

Return(t) ==
    /\ At(t, "return")
    /\ Goto(t, "idle")
    /\ held' = held \cup ({loc[t].block} \ {NULL})
    /\ loc' = [loc EXCEPT ![t] = NoLocals]
    /\ UNCHANGED <<memVars, mutex, live, debug>>

-----------------------------------------------------------------------------
(* my_free of a block that some thread allocated, or of NULL.              *)
FreeCall(t, b) ==
    /\ At(t, "idle")
    /\ IF b = NULL
         THEN Goto(t, "return") /\ UNCHANGED loc
         ELSE Goto(t, "f_lock") /\ loc' = [loc EXCEPT ![t].block = b]
    /\ held' = held \ {b}
    /\ UNCHANGED <<memVars, mutex, live, debug>>

FreeLock(t) ==
    /\ At(t, "f_lock")
    /\ Lock(t)
    /\ Goto(t, "f_walk")
    /\ loc' = [loc EXCEPT ![t].prev = NULL, ![t].cur = heap.first]
    /\ UNCHANGED <<memVars, appVars>>

(* Mutated: the block is not merged with the one before it.                *)
FreeInsertForward(h, l) == Merge(Insert(h, l), l.block, l.cur)

(* Insert the block, merge it with the one before it, then the result with *)
(* the one after it.                                                       *)
FreeInsert(h, l) ==
    LET inserted == Insert(h, l)
        start    == IF Neighbours(inserted, l.prev, l.block) THEN l.prev
                                                             ELSE l.block
    IN  Merge(Merge(inserted, l.prev, l.block), start, l.cur)

FreeBlock(t) ==
    /\ At(t, "f_walk")
    /\ ~Before(loc[t])
    /\ heap' = FreeInsert(heap, loc[t])
    /\ live' = [b \in DOMAIN live \ {loc[t].block} |-> live[b]]
    /\ Goto(t, "f_unlock")
    /\ loc' = [loc EXCEPT ![t].block = NULL]
    /\ UNCHANGED <<heapSize, reserved, brk, crashed, mutex, held, debug>>

-----------------------------------------------------------------------------
(* dumpAllocator: a walk over all blocks by their sizes, whose helper      *)
(* _getNextBlockBySize asserts that it stays in the heap, then one over    *)
(* the free list.  It takes the mutex, again if my_malloc already holds it.*)
DumpCall(t) ==
    /\ At(t, "idle")
    /\ Goto(t, "d_lock")
    /\ UNCHANGED <<memVars, mutex, appVars, loc>>

DumpLock(t) ==
    /\ At(t, "d_lock")
    /\ Lock(t)
    /\ Goto(t, "d_walk")
    /\ loc' = [loc EXCEPT ![t].pos = 0]
    /\ UNCHANGED <<memVars, appVars>>

NextBySize(b) == b + heap.size[b]

DumpWalk(t) ==
    /\ At(t, "d_walk")
    /\ IF NextBySize(loc[t].pos) = heapSize
         THEN Goto(t, "d_list") /\ loc' = [loc EXCEPT ![t].pos = heap.first]
         ELSE /\ loc' = [loc EXCEPT ![t].pos = NextBySize(@)]
              /\ UNCHANGED pc
    /\ UNCHANGED <<memVars, mutex, appVars>>

DumpList(t) ==
    /\ At(t, "d_list")
    /\ loc[t].pos # NULL
    /\ loc' = [loc EXCEPT ![t].pos = heap.next[@]]
    /\ UNCHANGED <<memVars, mutex, appVars, pc>>

DumpUnlock(t) ==
    /\ At(t, "d_list")
    /\ loc[t].pos = NULL
    /\ Unlock(t)
    /\ Goto(t, loc[t].after)
    /\ loc' = [loc EXCEPT ![t].after = "return"]
    /\ UNCHANGED <<memVars, appVars>>

(* enable_debug writes its flag without the mutex.                         *)
EnableDebug(t, enable) ==
    /\ At(t, "idle")
    /\ debug' = enable
    /\ UNCHANGED <<memVars, mutex, held, live, pc, loc>>

-----------------------------------------------------------------------------
(* The code of a call, and the calls an application may make.              *)
Step(t) == \/ MallocLock(t) \/ MallocSearch(t) \/ MallocAllocate(t)
           \/ MallocExtend(t) \/ MallocInsert(t) \/ MallocRetry(t)
           \/ FreeLock(t) \/ FreeBlock(t)
           \/ Walk(t) \/ UnlockAll(t) \/ Return(t)
           \/ DumpLock(t) \/ DumpWalk(t) \/ DumpList(t) \/ DumpUnlock(t)

Call(t) == \/ \E r \in Requests : MallocCall(t, r)
           \/ \E b \in held \cup {NULL} : FreeCall(t, b)
           \/ DumpCall(t)
           \/ \E enable \in DebugValues : EnableDebug(t, enable)

(* A killed program does nothing more.                                     *)
Killed == crashed /\ UNCHANGED vars

Next == (\E t \in Threads : Step(t) \/ Call(t)) \/ Killed

Spec == Init /\ [][Next]_vars

-----------------------------------------------------------------------------
(* The free list as a set: the blocks met from _firstFreeBlock, up to a    *)
(* link that does not lead to a higher address.                            *)
ListOf(h) ==
    LET chain[b \in Address] ==
          {b} \cup IF h.next[b] > b THEN chain[h.next[b]] ELSE {}
    IN  IF h.first = NULL THEN {} ELSE chain[h.first]
FreeSet == ListOf(heap)

(* A new block is part of the heap once it is on the free list; one whose  *)
(* header could not be written never is.                                   *)
Inserting == crashed \/ \E t \in Threads : pc[t] = "m_insert"
HeapEnd   == IF Inserting THEN heapSize - HEAP_SIZE ELSE heapSize

(* The blocks met when the heap is walked by the sizes of blocks.          *)
BlocksOf(h, end) ==
    LET walk[b \in Address] ==
          {b} \cup IF h.size[b] > 0 /\ b + h.size[b] < end
                     THEN walk[b + h.size[b]] ELSE {}
    IN  walk[0]
BlockSet == BlocksOf(heap, HeapEnd)

-----------------------------------------------------------------------------
Labels == {"idle", "m_lock", "m_search", "m_insert", "m_retry", "m_unlock",
           "return", "f_lock", "f_walk", "f_unlock",
           "d_lock", "d_walk", "d_list"}

Pointer == Nat \cup {NULL}

LocalsType ==
    [ask : Pointer, size : Nat, best : Pointer, bestPrev : Pointer,
     prev : Pointer, cur : Pointer, block : Pointer, pos : Pointer,
     after : {"return", "m_search", "m_unlock"}, retry : Nat]

TypeOK == /\ heap \in [size : [Address -> Nat], next : [Address -> Pointer],
                       first : Pointer]
          /\ heapSize \in Nat /\ reserved \in Nat /\ brk \in Int
          /\ mutex \in [owner : Threads \cup {Nobody}, depth : Nat]
          /\ debug \in BOOLEAN /\ crashed \in BOOLEAN
          /\ pc \in [Threads -> Labels]
          /\ loc \in [Threads -> LocalsType]
          /\ held \subseteq Nat
          /\ live \in [DOMAIN live -> Requests]

(* How often a thread holds the mutex, by what it has still to unlock: the *)
(* activations that wait, the one that runs, and a dump.                   *)
Dumping(t) == pc[t] \in {"d_walk", "d_list"}
Resume(t)  == IF Dumping(t) \/ pc[t] = "d_lock" THEN loc[t].after ELSE pc[t]
Inside(t)  == Resume(t) \in {"m_search", "m_insert", "m_unlock",
                             "f_walk", "f_unlock"}

Holds(t) == loc[t].retry + (IF Inside(t) THEN 1 ELSE 0)
                         + (IF Dumping(t) THEN 1 ELSE 0)

(* Mutual exclusion, and no lock without its unlock: a thread holds the    *)
(* recursive mutex exactly as often as its pending calls locked it, so no  *)
(* two threads are in a critical section and the mutex is free at the end. *)
MutexBalanced ==
    \A t \in Threads :
        Holds(t) = IF mutex.owner = t THEN mutex.depth ELSE 0

(* The free list is in address order, which merging relies on; it cannot   *)
(* have a cycle then.                                                      *)
ListSorted == \A b \in FreeSet : heap.next[b] # NULL => b < heap.next[b]

(* The pointers a thread walks the list with stay on it: what it has read  *)
(* is not taken off the list or merged away before it uses it.             *)
WalkersOnList ==
    \A t \in Threads :
        pc[t] \in {"m_search", "m_insert", "f_walk"} =>
            /\ loc[t].cur \in FreeSet \cup {NULL}
            /\ loc[t].prev \in FreeSet \cup {NULL}
            /\ pc[t] = "m_search" => loc[t].best \in FreeSet \cup {NULL}

(* The assertion of _getNextBlockBySize: a walk by sizes does not leave    *)
(* the heap.                                                               *)
WalkInHeap ==
    \A t \in Threads : pc[t] = "d_walk" => NextBySize(loc[t].pos) <= heapSize

(* What a thread found on the list or by a size is still so when it uses   *)
(* it, whatever the other threads call in between.                         *)
ListIntact == /\ TypeOK
              /\ ListSorted
              /\ WalkersOnList
              /\ WalkInHeap

(* Memory in use is the application's: no step of the allocator writes a   *)
(* header field inside a block that the application goes on holding.       *)
HeldUntouched ==
    [][\A b \in held \cap held' :
          \A a \in b .. NextBySize(b) - 1 :
             /\ heap'.size[a] = heap.size[a]
             /\ heap'.next[a] = heap.next[a]]_vars

(* The threaded allocator implements the heap of blocks: every call takes  *)
(* effect at one instant, my_malloc when it carves its block and my_free   *)
(* when it links and merges.                                               *)
PendingAsk == LET waiting == {t \in Threads : loc[t].retry > 0 /\ loc[t].block = NULL}
              IN  IF waiting = {} THEN NULL
                  ELSE loc[CHOOSE t \in waiting : TRUE].ask

Blocks == INSTANCE HeapBlocks WITH
            MaxHeap  <- 2 * HEAP_SIZE,
            size     <- [b \in BlockSet |-> heap.size[b]],
            free     <- FreeSet,
            live     <- live,
            heapSize <- HeapEnd,
            seams    <- IF HeapEnd > HEAP_SIZE THEN {HEAP_SIZE} ELSE {},
            pending  <- PendingAsk

ImplementsHeapBlocks == Blocks!Spec

(* The comment of allocHeap: it returns NULL when there is no more memory, *)
(* or the address of a heap of the new size; using it never kills.         *)
NeverKilled == ~crashed
=============================================================================
