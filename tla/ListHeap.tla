------------------------------ MODULE ListHeap ------------------------------
(***************************************************************************)
(* Two more allocators over a list of free blocks: assignment 5            *)
(* (P5/malloc.c), where the application chooses the strategy of the search *)
(* while the heap is in use, and the second solution of assignment 9       *)
(* (p1/savesolmalloc.c), which allocates at once in the memory it extends  *)
(* the heap by.  A call is one step: the first program has one thread, and *)
(* the second does all of a call in its mutex (ConcurrentMalloc models the *)
(* mutex).  A call that extends the heap of the first is two steps, since  *)
(* it calls itself.  Addresses are offsets from _heapStart.                *)
(***************************************************************************)
EXTENDS BlockArithmetic, Sequences, SequencesExt, FiniteSetsExt

CONSTANTS HEAP_SIZE,
          Requests,     \* the sizes the application asks for
          Strategies,   \* the arguments of setAllocationStrategy
          Editions,     \* the programs: "strategies" and "solution"
          MaxHeap       \* bound: the heap is not extended beyond this size

ASSUME HeapAssumption == /\ HEAP_SIZE \in Nat \ {0}
                         /\ Aligned(HEAP_SIZE)
                         /\ HEAP_SIZE + 2 * HEADER_SIZE <= WORD
                         /\ MaxHeap \in Nat /\ MaxHeap >= 2 * HEAP_SIZE
ASSUME RequestAssumption == Requests \subseteq 0 .. (WORD - 2 * HEADER_SIZE)
ASSUME StrategyAssumption ==
          Strategies \subseteq {"bestfit", "firstfit", "nextfit", "worstfit"}

VARIABLES
    edition,   \* the program
    heap,      \* header fields size and next, and _firstFreeBlock
    strategy,  \* allocationStrategy
    cursor,    \* _next_fit_cursor
    heapSize,  \* _heapSize
    reserved,  \* the static heapSize of allocHeap
    brk,       \* end of the memory that sbrk has given the program
    pending,   \* the call of my_malloc that is about to call itself
    live,      \* allocated blocks, with the request each one answers
    status     \* "running", "killed" by the system, or "astray": see Malloc

vars == <<edition, heap, strategy, cursor, heapSize, reserved, brk, pending,
          live, status>>

NULL   == -1
MAGIC  == -2
NoCall == [ask |-> NULL, size |-> 0]
Address == 0 .. MaxHeap - 1

-----------------------------------------------------------------------------
(* initAllocator, and the initial values of the static variables.          *)
Init == /\ edition \in Editions
        /\ heap = [size  |-> [a \in Address |-> IF a = 0 THEN HEAP_SIZE ELSE 0],
                   next  |-> [a \in Address |-> NULL],
                   first |-> 0]
        /\ strategy = "bestfit"
        /\ cursor = NULL
        /\ heapSize = HEAP_SIZE
        /\ reserved = HEAP_SIZE
        /\ brk = HEAP_SIZE
        /\ pending = NoCall
        /\ live = [b \in {} |-> NULL]
        /\ status = "running"

Running(e) == edition = e /\ status = "running"

(* The blocks that the links lead to from block b on, up to a link that    *)
(* does not lead to a higher address.                                      *)
From(h, b) ==
    LET chain[c \in Address] ==
          <<c>> \o IF h.next[c] > c THEN chain[h.next[c]] ELSE <<>>
    IN  IF b = NULL THEN <<>> ELSE chain[b]
FreeList(h) == From(h, h.first)

(* The block at a place of the list; NULL before and after it.             *)
At(list, i) == IF i \in DOMAIN list THEN list[i] ELSE NULL

(* Write a pointer to a free block: the next field of prev or              *)
(* _firstFreeBlock.                                                        *)
SetNext(h, prev, b) == IF prev = NULL THEN [h EXCEPT !.first = b]
                                      ELSE [h EXCEPT !.next[prev] = b]

(* merge_blocks, of neighbours only.  The header of a block that was       *)
(* merged into another is dead memory and reset, so that states are not    *)
(* told apart by it.                                                       *)
Touches(h, b, c) == b # NULL /\ c # NULL /\ b + h.size[b] = c
Merge(h, b, c) == IF Touches(h, b, c)
                    THEN [h EXCEPT !.size[b] = @ + h.size[c], !.next[b] = h.next[c],
                                   !.size[c] = 0,             !.next[c] = NULL]
                    ELSE h

(* allocHeap(_heapStart, newSize).  A failing sbrk returns -1, which the   *)
(* test for NULL misses.                                                   *)
AllocHeap(newSize) ==
    /\ \/ brk' = brk + (newSize - reserved)
       \/ brk' = brk
    /\ reserved' = reserved + newSize

(* The same in the second solution, which assigns the new size.            *)
SolutionAllocHeap(newSize) ==
    /\ \/ brk' = brk + (newSize - reserved)
       \/ brk' = brk
    /\ reserved' = newSize

-----------------------------------------------------------------------------
(* The search of my_malloc goes through a sequence of blocks and settles   *)
(* on an index in it, or on 0.  A block replaces one found before if the   *)
(* strategy finds its size better: none does under first and next fit,     *)
(* which stop there.                                                       *)

(* Mutated: the last of the smallest blocks.                               *)
BetterOrEqual(s, x, y) == CASE s = "bestfit"  -> x <= y
                            [] s = "worstfit" -> x > y
                            [] OTHER          -> FALSE

Better(s, x, y) == CASE s = "bestfit"  -> x < y
                     [] s = "worstfit" -> x > y
                     [] OTHER          -> FALSE

Search(s, h, list, n) ==
    LET best[i \in 0 .. Len(list)] ==
          IF i = 0 THEN 0
          ELSE LET b == best[i - 1] IN
               IF /\ h.size[list[i]] >= n
                  /\ b = 0 \/ Better(s, h.size[list[i]], h.size[list[b]])
                 THEN i ELSE b
    IN  best[Len(list)]

(* The place in the list at which the loops that look for a block's place  *)
(* by its address stop.                                                    *)
Place(list, a) == Min({i \in DOMAIN list : list[i] >= a} \cup {Len(list) + 1})

(* Next fit begins at the cursor, without the block before it, and goes on *)
(* from the end of the list to its beginning until it is back.             *)
NextFitRound ==
    LET from == IF cursor = NULL THEN heap.first ELSE cursor
        list == FreeList(heap)
    IN  From(heap, from) \o SubSeq(list, 1, Place(list, from) - 1)

(* What the search of the strategy looks at, and what it settles on.       *)
Visited == IF strategy = "nextfit" THEN NextFitRound ELSE FreeList(heap)
Pick(n) == Search(strategy, heap, Visited, n)

-----------------------------------------------------------------------------
(* allocate_block: the pointer to the block is made to point to what is    *)
(* left of it, or to the next block if nothing is.  An allocated block is  *)
(* marked with NULL by the first program and with MAGIC by the solution.   *)
Carve(h, prev, b, n) ==
    IF h.size[b] = n
      THEN SetNext(h, prev, h.next[b])
      ELSE SetNext([h EXCEPT !.size[b + n] = h.size[b] - n,
                             !.next[b + n] = h.next[b],
                             !.size[b]     = n], prev, b + n)

AllocateBlock(prev, b, q) ==
    /\ heap' = [Carve(heap, prev, b, q.size) EXCEPT !.next[b] = NULL]
    /\ live' = [c \in DOMAIN live \cup {b} |-> IF c = b THEN q.ask ELSE live[c]]

(* The next-fit cursor after an allocation: what the pointer that led to   *)
(* the block points to now, or the first free block.                       *)
CursorAfter(prev) ==
    IF strategy # "nextfit" THEN cursor
    ELSE LET left == IF prev = NULL THEN heap'.first ELSE heap'.next[prev]
         IN  IF left # NULL THEN left ELSE heap'.first

(* The calls of my_malloc that may begin now: any request, or the one that *)
(* extended the heap, whose size gets a second header.                     *)
Calls == IF pending = NoCall
           THEN {[ask |-> r, size |-> BlockSize(r)] : r \in Requests}
           ELSE {[ask |-> pending.ask, size |-> BlockSize(pending.size)]}

(* When the pointer that next fit found does not lead to its block, the    *)
(* list is broken.  The model ends there.                                  *)
Malloc(q) ==
    LET i    == Pick(q.size)
        prev == At(Visited, i - 1)
        link == IF prev = NULL THEN heap.first ELSE heap.next[prev]
    IN
    /\ Running("strategies")
    /\ q.size <= HEAP_SIZE
    /\ i # 0
    /\ AllocateBlock(prev, Visited[i], q)
    /\ cursor' = CursorAfter(prev)
    /\ status' = IF link = Visited[i] THEN status ELSE "astray"
    /\ pending' = NoCall
    /\ UNCHANGED <<edition, strategy, heapSize, reserved, brk>>

(* A request too large for the heap, as the one of the second call may be. *)
Refuse(q) == /\ Running("strategies")
             /\ pending # NoCall
             /\ q.size > HEAP_SIZE
             /\ pending' = NoCall
             /\ UNCHANGED <<edition, heap, strategy, cursor, heapSize, reserved,
                            brk, live, status>>

(* Link a block in at its place.                                           *)
Insert(h, a, list) ==
    LET i == Place(list, a)
    IN  SetNext([h EXCEPT !.next[a] = At(list, i)], At(list, i - 1), a)

Extend(q) ==
    /\ Running("strategies")
    /\ q.size <= HEAP_SIZE
    /\ Visited # <<>> \/ strategy # "nextfit"
    /\ Pick(q.size) = 0
    /\ AllocHeap(heapSize + HEAP_SIZE)
    /\ heapSize' = heapSize + HEAP_SIZE
    /\ IF heapSize >= brk'
         THEN /\ status' = "killed"
              /\ UNCHANGED <<heap, cursor, pending>>
         ELSE /\ heap' = Insert([heap EXCEPT !.size[heapSize] = HEAP_SIZE],
                                heapSize, FreeList(heap))
              /\ cursor' = IF strategy = "nextfit" THEN heap'.first ELSE cursor
              /\ pending' = q
              /\ UNCHANGED status
    /\ UNCHANGED <<edition, strategy, live>>

(* With no free block next fit does not get as far as extending the heap:  *)
(* its loop reads through the NULL cursor.                                 *)
NextFitFault(q) ==
    /\ Running("strategies")
    /\ q.size <= HEAP_SIZE
    /\ strategy = "nextfit"
    /\ Visited = <<>>
    /\ status' = "killed"
    /\ UNCHANGED <<edition, heap, strategy, cursor, heapSize, reserved, brk,
                   pending, live>>

(* my_free inserts the block, merges it with the one before it and the     *)
(* result with the one after it.                                           *)
FreedBase(h, a, list) ==
    LET prev == At(list, Place(list, a) - 1)
    IN  IF Touches(h, prev, a) THEN prev ELSE a
Freed(h, a, list) ==
    LET i == Place(list, a)
    IN  Merge(Merge(Insert(h, a, list), At(list, i - 1), a),
              FreedBase(h, a, list), At(list, i))

Free(a) ==
    /\ Running("strategies")
    /\ pending = NoCall
    /\ heap' = Freed(heap, a, FreeList(heap))
    /\ live' = [b \in DOMAIN live \ {a} |-> live[b]]
    /\ cursor' = IF strategy = "nextfit" THEN FreedBase(heap, a, FreeList(heap))
                                         ELSE cursor
    /\ UNCHANGED <<edition, strategy, heapSize, reserved, brk, pending, status>>

(* Mutated: the cursor stays where it was.                                 *)
SetStrategyOnly(s) ==
    /\ Running("strategies")
    /\ pending = NoCall
    /\ strategy' = s
    /\ UNCHANGED <<edition, heap, cursor, heapSize, reserved, brk, pending, live,
                   status>>

SetAllocationStrategy(s) ==
    /\ Running("strategies")
    /\ pending = NoCall
    /\ strategy' = s
    /\ cursor' = IF s = "nextfit" THEN heap.first ELSE cursor
    /\ UNCHANGED <<edition, heap, heapSize, reserved, brk, pending, live, status>>

-----------------------------------------------------------------------------
(* Mutated: the block is not marked.                                       *)
SolutionAllocateUnmarked(h, prev, b, q) ==
    /\ heap' = Carve(h, prev, b, q.size)
    /\ live' = [c \in DOMAIN live \cup {b} |-> IF c = b THEN q.ask ELSE live[c]]

(* The second solution.  Its my_malloc searches with best fit and, when it *)
(* finds nothing, appends the new memory to the list and allocates in it.  *)
SolutionAllocate(h, prev, b, q) ==
    /\ heap' = [Carve(h, prev, b, q.size) EXCEPT !.next[b] = MAGIC]
    /\ live' = [c \in DOMAIN live \cup {b} |-> IF c = b THEN q.ask ELSE live[c]]

SolutionMalloc(q) ==
    LET list == FreeList(heap)
        i    == Search("bestfit", heap, list, q.size)
    IN
    /\ Running("solution")
    /\ i # 0
    /\ SolutionAllocate(heap, At(list, i - 1), list[i], q)
    /\ UNCHANGED <<edition, strategy, cursor, heapSize, reserved, brk, pending,
                   status>>

SolutionExtend(q) ==
    LET list == FreeList(heap)
        last == At(list, Len(list))
        new  == [heap EXCEPT !.size[heapSize] = HEAP_SIZE,
                             !.next[heapSize] = NULL]
    IN
    /\ Running("solution")
    /\ Search("bestfit", heap, list, q.size) = 0
    /\ q.size <= HEAP_SIZE - HEADER_SIZE
    /\ heapSize + HEAP_SIZE <= MaxHeap
    /\ SolutionAllocHeap(heapSize + HEAP_SIZE)
    /\ IF heapSize >= brk'
         THEN /\ status' = "killed"
              /\ UNCHANGED <<heap, heapSize, live>>
         ELSE /\ SolutionAllocate(SetNext(new, last, heapSize), last, heapSize, q)
              /\ heapSize' = heapSize + HEAP_SIZE
              /\ UNCHANGED status
    /\ UNCHANGED <<edition, strategy, cursor, pending>>

(* Its my_free merges with the block after it, then with the one before.   *)
SolutionFreed(h, a, list) ==
    LET i == Place(list, a)
    IN  Merge(Merge(Insert(h, a, list), a, At(list, i)), At(list, i - 1), a)

(* Without a free block the first comparison with _firstFreeBlock is false *)
(* and the code reads through it.                                          *)
SolutionFree(a) ==
    /\ Running("solution")
    /\ IF heap.first = NULL
         THEN status' = "killed" /\ UNCHANGED <<heap, live>>
         ELSE /\ heap' = SolutionFreed(heap, a, FreeList(heap))
              /\ live' = [b \in DOMAIN live \ {a} |-> live[b]]
              /\ UNCHANGED status
    /\ UNCHANGED <<edition, strategy, cursor, heapSize, reserved, brk, pending>>

-----------------------------------------------------------------------------
(* A program that was killed does nothing more.                            *)
Stopped == status # "running" /\ UNCHANGED vars

Next == \/ \E q \in Calls : \/ Malloc(q) \/ Refuse(q) \/ Extend(q)
                            \/ NextFitFault(q)
                            \/ SolutionMalloc(q) \/ SolutionExtend(q)
        \/ \E a \in DOMAIN live : Free(a) \/ SolutionFree(a)
        \/ \E s \in Strategies : SetAllocationStrategy(s)
        \/ Stopped

Spec == Init /\ [][Next]_vars

-----------------------------------------------------------------------------
(* The blocks met when the heap is walked by sizes (_getNextBlockBySize,   *)
(* dumpAllocator), up to a size that leads nowhere or out of the heap.     *)
BlocksOf(h, end) ==
    LET walk[b \in Address] ==
          {b} \cup IF h.size[b] > 0 /\ b + h.size[b] < end
                     THEN walk[b + h.size[b]] ELSE {}
    IN  walk[0]
Blocks == BlocksOf(heap, heapSize)

(* dumpAllocator of the solution: of the blocks it meets those it prints   *)
(* as in use, and those of the free list.                                  *)
SolutionDump == [inUse  |-> {b \in Blocks : heap.next[b] = MAGIC},
                 listed |-> ToSet(FreeList(heap))]

(* getAllocStatistics: one loop over the list.                             *)
Totals(h, list) ==
    LET stat[i \in 0 .. Len(list)] ==
          IF i = 0 THEN [nFree |-> 0, totalFree |-> 0, largestFree |-> 0]
          ELSE LET s == stat[i - 1]
                   n == h.size[list[i]]
               IN  [nFree       |-> s.nFree + 1,
                    totalFree   |-> s.totalFree + n,
                    largestFree |-> IF n > s.largestFree THEN n ELSE s.largestFree]
    IN  stat[Len(list)]
Statistics ==
    LET all == Totals(heap, FreeList(heap))
    IN  [nFree       |-> all.nFree,
         avgFree     |-> IF all.nFree > 0 THEN all.totalFree \div all.nFree ELSE 0,
         largestFree |-> all.largestFree]

(* Types.                                                                  *)
TypeOK == /\ heap \in [size  : [Address -> Nat],
                       next  : [Address -> Address \cup {NULL, MAGIC}],
                       first : Address \cup {NULL}]
          /\ cursor \in Address \cup {NULL}
          /\ strategy \in {"bestfit", "firstfit", "nextfit", "worstfit"}
          /\ edition \in Editions
          /\ heapSize \in Nat /\ reserved \in Nat /\ brk \in Nat
          /\ pending \in [ask : Requests \cup {NULL}, size : Nat]
          /\ live \in [DOMAIN live -> Requests]
          /\ status \in {"running", "killed", "astray"}

(* malloc.h: the next field of a free block points to the next free block, *)
(* or is NULL for the last block.  From _firstFreeBlock the links lead to  *)
(* every block of the heap that is not in use, and to no other, in the     *)
(* order of addresses that merging relies on; so the list ends.            *)
ListsTheFree ==
    /\ ToSet(FreeList(heap)) = Blocks \ DOMAIN live
    /\ \A b \in ToSet(FreeList(heap)) : heap.next[b] # NULL => b < heap.next[b]
FreeListExact == status = "running" => ListsTheFree

(* After any sequence of calls two free blocks meet only where the heap    *)
(* was extended: my_free merges both ways in either program.               *)
NoFreeNeighbours ==
    LET unused == IF status = "running" THEN Blocks \ DOMAIN live ELSE {}
    IN  \A b \in unused : b + heap.size[b] \in unused
                             => (b + heap.size[b]) % HEAP_SIZE = 0

(* Blocks begin and end at multiples of the header size and have room for  *)
(* a header, whatever was cut off and merged: the header that              *)
(* allocate_block writes behind a block overlaps nothing.                  *)
HeadersFit == status = "running" => \A b \in Blocks : /\ Aligned(b)
                                                      /\ Aligned(heap.size[b])
                                                      /\ heap.size[b] >= HEADER_SIZE

(* The dump of the solution tells a block in use by its magic number: the  *)
(* mark is on every block in use and on no other, and what it says to be   *)
(* free in its first part is what its second part lists.                   *)
DumpTellsTruth ==
    Running("solution") =>
        /\ SolutionDump.inUse = DOMAIN live
        /\ SolutionDump.listed = Blocks \ SolutionDump.inUse

(* The statistics describe the memory that the application does not hold:  *)
(* its pieces, their average size, and the largest of them.                *)
StatisticsRight ==
    LET unused == IF status = "running" THEN Blocks \ DOMAIN live ELSE {}
        bytes  == {x \in 0 .. heapSize - 1 :
                      \A b \in DOMAIN live : x < b \/ b + heap.size[b] <= x}
    IN  status = "running" =>
          /\ Statistics.nFree = Cardinality(unused)
          /\ IF unused = {}
               THEN bytes = {} /\ Statistics.largestFree = 0
               ELSE /\ Statistics.avgFree = Cardinality(bytes) \div Cardinality(unused)
                    /\ \E b \in unused : heap.size[b] = Statistics.largestFree
          /\ \A b \in unused : heap.size[b] <= Statistics.largestFree

(* What stops the programs: memory that sbrk refused or was not asked for, *)
(* which allocHeap does not notice; a call when all memory is in use, of   *)
(* my_malloc under next fit or of the solution's my_free; and only next    *)
(* fit breaks the list.                                                    *)
StopsOnlyIf ==
    /\ status = "astray" => strategy = "nextfit"
    /\ status = "killed" => \/ brk < reserved
                            \/ heap.first = NULL /\ strategy = "nextfit"
                            \/ heap.first = NULL /\ edition = "solution"

(* The cursor of next fit is not left on a block that was allocated or     *)
(* merged away, whatever the strategy was in the meantime.                 *)
CursorOnList == strategy = "nextfit" /\ status = "running" =>
                   cursor \in ToSet(FreeList(heap)) \cup {NULL}

(* malloc.h says the same of the list without conditions, so next fit      *)
(* should leave it whole, too.                                             *)
NextFitKeepsList == status # "killed" => ListsTheFree

(* Each strategy takes what its name says, the first of equals; next fit   *)
(* takes the first from its cursor on, around the end of the heap.         *)
Precedes(b, c) ==
    CASE strategy = "bestfit"  -> \/ heap.size[b] < heap.size[c]
                                  \/ heap.size[b] = heap.size[c] /\ b <= c
      [] strategy = "worstfit" -> \/ heap.size[b] > heap.size[c]
                                  \/ heap.size[b] = heap.size[c] /\ b <= c
      [] strategy = "firstfit" -> b <= c
      [] OTHER -> LET from == IF cursor = NULL THEN heap.first ELSE cursor
                  IN  (b - from) % heapSize <= (c - from) % heapSize
TakesItsBlock ==
    \A b \in DOMAIN live' \ DOMAIN live :
       LET fits == {c \in Blocks \ DOMAIN live : heap.size[c] >= heap'.size[b]}
       IN  b < heapSize => b \in fits /\ \A c \in fits : Precedes(b, c)
StrategyHolds == [][TakesItsBlock]_vars

(* Under every strategy, and across extensions of the heap, the allocators *)
(* keep what MemoryService promises: memory in use is handed out once, is  *)
(* large enough, lies in memory the program has and stays where it is.     *)
Held == [b \in DOMAIN live |-> [size |-> heap.size[b], ask |-> live[b]]]
Service == INSTANCE MemoryService WITH live <- Held, limit <- brk
ImplementsMemoryService == Service!Spec

(* The list, under any sequence of calls and changes of strategy: it holds *)
(* the memory that is not in use, sorted and merged, with room for the     *)
(* headers; the cursor is on it; and the program stops for the known       *)
(* reasons only.                                                           *)
ListInv == /\ TypeOK
           /\ FreeListExact
           /\ NoFreeNeighbours
           /\ HeadersFit
           /\ CursorOnList
           /\ StopsOnlyIf

(* What the programs report of the heap, by its marks and by the           *)
(* statistics, is what it holds.                                           *)
ReportsRight == /\ DumpTellsTruth
                /\ StatisticsRight
=============================================================================
