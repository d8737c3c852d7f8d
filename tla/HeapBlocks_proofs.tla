-------------------------- MODULE HeapBlocks_proofs --------------------------
(***************************************************************************)
(* First the arithmetic of my_malloc, which all allocators share, for      *)
(* every header size and every word size.  Then the safety of the best-fit *)
(* heap, for every heap size and set of requests: blocks tile the heap,    *)
(* none is lost or handed out twice, and my_free merges neighbours.        *)
(***************************************************************************)
EXTENDS HeapBlocks, TLAPS

USE HeaderAssumption, WordAssumption

(* The remainder of a division by the header size.                         *)
LEMMA Remainder ==
  ASSUME NEW x \in Nat
  PROVE  /\ x % HEADER_SIZE \in 0 .. HEADER_SIZE - 1
         /\ x - (x % HEADER_SIZE) = HEADER_SIZE * (x \div HEADER_SIZE)
         /\ x \div HEADER_SIZE \in Nat
  OBVIOUS

(* Multiples may be written with any natural factor.                       *)
LEMMA AlignedIntro ==
  ASSUME NEW k \in Nat
  PROVE  Aligned(k * HEADER_SIZE)
<1>1. k * HEADER_SIZE \in Nat /\ k <= k * HEADER_SIZE
  OBVIOUS
<1> QED BY <1>1 DEF Aligned

(* roundUp returns the next multiple of the header size: it never shrinks  *)
(* the request and adds less than one header.                              *)
THEOREM RoundUpCorrect ==
  ASSUME NEW n \in 0 .. (WORD - HEADER_SIZE)
  PROVE  /\ RoundUp(n) \in n .. n + HEADER_SIZE - 1
         /\ Aligned(RoundUp(n))
<1> DEFINE sum == n + HEADER_SIZE - 1
<1>1. sum \in Nat /\ Wrap(sum) = sum
  BY DEF Wrap
<1>2. RoundUp(n) = sum - (sum % HEADER_SIZE)
  BY <1>1 DEF RoundUp
<1> HIDE DEF sum
<1>3. sum % HEADER_SIZE \in 0 .. HEADER_SIZE - 1
  BY <1>1, Remainder
<1>4. RoundUp(n) = (sum \div HEADER_SIZE) * HEADER_SIZE /\ sum \div HEADER_SIZE \in Nat
  BY <1>1, <1>2, Remainder
<1>5. RoundUp(n) \in n .. n + HEADER_SIZE - 1
  BY <1>2, <1>3 DEF sum
<1> QED BY <1>4, <1>5, AlignedIntro

(* Sums and differences of multiples are multiples, and a positive         *)
(* multiple has room for a header.                                         *)
LEMMA AlignedSum ==
  ASSUME NEW x \in Nat, NEW y \in Nat, Aligned(x), Aligned(y)
  PROVE  Aligned(x + y)
<1>1. PICK j \in 0 .. x : x = j * HEADER_SIZE
  BY DEF Aligned
<1>2. PICK k \in 0 .. y : y = k * HEADER_SIZE
  BY DEF Aligned
<1>3. x + y = (j + k) * HEADER_SIZE /\ j + k \in Nat
  BY <1>1, <1>2
<1> QED BY <1>3, AlignedIntro

LEMMA AlignedDifference ==
  ASSUME NEW x \in Nat, NEW y \in Nat, Aligned(x), Aligned(y), y <= x
  PROVE  Aligned(x - y)
<1>1. PICK j \in 0 .. x : x = j * HEADER_SIZE
  BY DEF Aligned
<1>2. PICK k \in 0 .. y : y = k * HEADER_SIZE
  BY DEF Aligned
<1>3. x - y = (j - k) * HEADER_SIZE
  BY <1>1, <1>2
<1>4. j - k \in Nat
  <2>1. SUFFICES ASSUME j < k PROVE FALSE
    BY <1>1, <1>2
  <2>2. (k - j) * HEADER_SIZE \in Nat \ {0}
    BY <2>1, <1>1, <1>2
  <2> QED BY <2>2, <1>1, <1>2
<1> QED BY <1>3, <1>4, AlignedIntro

LEMMA AlignedPositive ==
  ASSUME NEW x \in Nat \ {0}, Aligned(x)
  PROVE  x >= HEADER_SIZE
<1>1. PICK j \in 0 .. x : x = j * HEADER_SIZE
  BY DEF Aligned
<1>2. j >= 1
  BY <1>1
<1> QED BY <1>1, <1>2

(* The size of a block: room for the header and the request, a multiple    *)
(* of the header size, for every request below 2^64 by two headers.        *)
THEOREM BlockSizeCorrect ==
  ASSUME NEW n \in 0 .. (WORD - 2 * HEADER_SIZE)
  PROVE  /\ BlockSize(n) \in Nat
         /\ BlockSize(n) >= HEADER_SIZE + n
         /\ Aligned(BlockSize(n))
<1>1. /\ RoundUp(n) \in n .. n + HEADER_SIZE - 1
      /\ Aligned(RoundUp(n))
  BY RoundUpCorrect
<1>2. BlockSize(n) = HEADER_SIZE + RoundUp(n)
  BY <1>1 DEF BlockSize, Wrap
<1>3. Aligned(HEADER_SIZE)
  <2>1. HEADER_SIZE = 1 * HEADER_SIZE
    OBVIOUS
  <2> QED BY <2>1, AlignedIntro
<1> QED BY <1>1, <1>2, <1>3, AlignedSum

-----------------------------------------------------------------------------

(* A request is a natural number that BlockSizeCorrect covers.             *)
LEMMA RequestSize ==
  ASSUME NEW r \in Requests
  PROVE  /\ r \in Nat
         /\ BlockSize(r) \in Nat \ {0}
         /\ BlockSize(r) >= HEADER_SIZE + r
         /\ Aligned(BlockSize(r))
<1>1. r \in 0 .. (WORD - 2 * HEADER_SIZE)
  BY RequestAssumption
<1> QED BY <1>1, BlockSizeCorrect, HeaderAssumption, WordAssumption


(* The parts of HeapInv that speak of blocks alone.                        *)
BlocksInv == /\ size \in [Blocks -> Nat]
             /\ Blocks \subseteq Nat
             /\ free \subseteq Blocks
             /\ live \in [DOMAIN live -> Requests]
             /\ heapSize \in Nat
             /\ NoOverlap
             /\ Tiling
             /\ Partition
             /\ Alignment
             /\ BigEnough
             /\ Coalesced

LEMMA HeapSizeFacts == /\ HEAP_SIZE \in Nat \ {0}
                       /\ Aligned(HEAP_SIZE)
                       /\ HEAP_SIZE >= HEADER_SIZE
                       /\ HEADER_SIZE \in Nat \ {0}
BY HeapAssumption, HeaderAssumption, AlignedPositive

(* initAllocator establishes the invariant: one free block is the heap.    *)
LEMMA InitBlocks == Init => BlocksInv
<1> SUFFICES ASSUME Init PROVE BlocksInv
  OBVIOUS
<1>1. /\ Blocks = {0}
      /\ size = [b \in {0} |-> HEAP_SIZE]
      /\ size[0] = HEAP_SIZE
      /\ End(0) = HEAP_SIZE
      /\ heapSize = HEAP_SIZE /\ free = {0} /\ DOMAIN live = {} /\ seams = {}
      /\ live = [b \in {} |-> NoRequest]
  BY HeapSizeFacts DEF Init, Blocks, End
<1>2. Aligned(0)
  <2>1. 0 = 0 * HEADER_SIZE
    BY HeapSizeFacts
  <2> QED BY <2>1, AlignedIntro
<1>3. size \in [Blocks -> Nat] /\ live \in [DOMAIN live -> Requests]
  BY <1>1, HeapSizeFacts
<1>4. NoOverlap
  BY <1>1 DEF NoOverlap
<1>5. Tiling
  <2>1. ASSUME NEW x \in 0 .. heapSize - 1
        PROVE  \E b \in Blocks : b <= x /\ x < End(b)
    BY <1>1, HeapSizeFacts
  <2>2. \A b \in Blocks : End(b) <= heapSize
    BY <1>1, HeapSizeFacts
  <2> QED BY <2>1, <2>2 DEF Tiling
<1>6. Partition
  BY <1>1 DEF Partition
<1>7. Alignment
  BY <1>1, <1>2, HeapSizeFacts DEF Alignment
<1>8. BigEnough
  BY <1>1 DEF BigEnough
<1>9. Coalesced
  BY <1>1, HeapSizeFacts DEF Coalesced
<1> QED BY <1>1, <1>3, <1>4, <1>5, <1>6, <1>7, <1>8, <1>9, HeapSizeFacts DEF BlocksInv

(* allocate_block preserves it, whichever fitting block the search chose.  *)
LEMMA AllocatePreserves ==
  ASSUME BlocksInv,
         NEW b \in free, NEW r \in Requests, NEW n \in Nat \ {0},
         Aligned(n), n >= HEADER_SIZE + r, n <= size[b],
         AllocateBlock(b, n, r),
         UNCHANGED <<heapSize, seams>>
  PROVE  BlocksInv'
<1> USE DEF BlocksInv
<1>r. r \in Nat
  BY RequestSize
<1>1. /\ live' \in [DOMAIN live' -> Requests]
      /\ DOMAIN live' = DOMAIN live \cup {b}
      /\ live'[b] = r
      /\ \A c \in DOMAIN live : c # b => live'[c] = live[c]
  BY DEF AllocateBlock
<1>2. b \notin DOMAIN live
  BY DEF Partition
<1>3. CASE size[b] = n
  <2>1. size' = size /\ Blocks' = Blocks /\ free' = free \ {b}
    BY <1>3 DEF AllocateBlock, Blocks
  <2>2. \A c \in Blocks : End(c)' = End(c)
    BY <2>1 DEF End
  <2>3. NoOverlap' /\ Alignment'
    BY <2>1, <2>2 DEF NoOverlap, Alignment
  <2>4. Tiling'
    BY <2>1, <2>2 DEF Tiling
  <2>5. Partition'
    BY <2>1, <1>1, <1>2 DEF Partition
  <2>6. BigEnough'
    BY <2>1, <1>1, <1>3 DEF BigEnough
  <2>7. Coalesced'
    BY <2>1, <2>2 DEF Coalesced
  <2> QED BY <1>1, <2>1, <2>3, <2>4, <2>5, <2>6, <2>7
<1>4. CASE size[b] # n
  <2>1. /\ free' = (free \ {b}) \cup {b + n}
        /\ Blocks' = Blocks \cup {b + n}
        /\ size' = [c \in Blocks \cup {b + n} |->
                       CASE c = b     -> n
                         [] c = b + n -> size[b] - n
                         [] OTHER     -> size[c]]
    BY <1>4 DEF AllocateBlock, Blocks
  <2>2. b \in Nat /\ size[b] \in Nat /\ n < size[b] /\ b < b + n /\ b + n < End(b)
    BY <1>4 DEF End
  <2>3. b + n \notin Blocks
    BY <2>2 DEF NoOverlap, End
  <2>4. /\ size'[b] = n
        /\ size'[b + n] = size[b] - n
        /\ \A c \in Blocks : c # b => size'[c] = size[c]
    BY <2>1, <2>2, <2>3
  <2>5. /\ End(b)' = b + n
        /\ End(b + n)' = End(b)
        /\ \A c \in Blocks : c # b => End(c)' = End(c)
    BY <2>4, <2>2 DEF End
  <2>6. size' \in [Blocks' -> Nat] /\ Blocks' \subseteq Nat /\ free' \subseteq Blocks'
    BY <2>1, <2>2, <2>3, <2>4
  <2>7. NoOverlap'
    <3> SUFFICES ASSUME NEW c \in Blocks', NEW d \in Blocks', c < d
                 PROVE  End(c)' <= d
      BY DEF NoOverlap
    <3>0. \A x \in Blocks : x \in Nat /\ End(x) \in Nat
      BY DEF End
    <3>1. CASE c = b /\ d \in Blocks
      BY <3>1, <2>2, <2>5, <3>0 DEF NoOverlap
    <3>2. CASE c = b + n /\ d \in Blocks
      BY <3>2, <2>2, <2>5, <3>0 DEF NoOverlap
    <3>3. CASE c \in Blocks \ {b} /\ d = b + n
      <4>1. c < b
        BY <3>3, <2>2, <3>0, <2>3 DEF NoOverlap
      <4> QED BY <4>1, <3>3, <2>2, <2>5, <3>0 DEF NoOverlap
    <3>4. CASE c \in Blocks \ {b} /\ d \in Blocks
      BY <3>4, <2>5 DEF NoOverlap
    <3> QED BY <3>1, <3>2, <3>3, <3>4, <2>1, <2>5, <2>2
  <2>8. Tiling'
    <3>1. \A c \in Blocks' : End(c)' <= heapSize'
      BY <2>1, <2>2, <2>5 DEF Tiling, End
    <3>2. ASSUME NEW x \in 0 .. heapSize - 1
          PROVE  \E c \in Blocks' : c <= x /\ x < End(c)'
      <4>1. PICK c \in Blocks : c <= x /\ x < End(c)
        BY DEF Tiling
      <4>2. CASE c # b
        BY <4>1, <4>2, <2>1, <2>5
      <4>3. CASE c = b /\ x < b + n
        BY <4>1, <4>3, <2>1, <2>5
      <4>4. CASE c = b /\ ~(x < b + n)
        BY <4>1, <4>4, <2>1, <2>2, <2>5
      <4> QED BY <4>2, <4>3, <4>4
    <3> QED BY <3>1, <3>2 DEF Tiling
  <2>9. Partition'
    BY <2>1, <2>3, <1>1, <1>2 DEF Partition
  <2>10. Alignment'
    <3>1. Aligned(b) /\ Aligned(size[b])
      BY DEF Alignment
    <3>2. Aligned(b + n) /\ Aligned(size[b] - n)
      BY <3>1, <2>2, AlignedSum, AlignedDifference
    <3>3. size[b] - n >= HEADER_SIZE
      BY <3>2, <2>2, AlignedPositive
    <3> QED BY <3>1, <3>2, <3>3, <2>1, <2>4, <1>r, HeapSizeFacts DEF Alignment
  <2>11. BigEnough'
    BY <2>1, <2>3, <2>4, <1>1, <1>2 DEF BigEnough, Partition
  <2>12. Coalesced'
    <3> SUFFICES ASSUME NEW c \in free', End(c)' \in free'
                 PROVE  End(c)' \in seams'
      BY DEF Coalesced
    <3>0. \A x \in Blocks : x \in Nat /\ End(x) \in Nat /\ size[x] > 0
      BY HeapSizeFacts DEF End, Alignment
    <3>1. CASE c = b + n
      <4>1. End(c)' = End(b) /\ End(b) # b + n
        BY <3>1, <2>5, <2>2, <3>0
      <4> QED BY <4>1, <2>1 DEF Coalesced
    <3>2. CASE c # b + n
      <4>1. c \in free \ {b} /\ End(c)' = End(c)
        BY <3>2, <2>1, <2>5
      <4>2. End(c) # b + n
        <5>1. CASE c < b
          BY <5>1, <4>1, <2>2, <3>0 DEF NoOverlap
        <5>2. CASE c > b
          BY <5>2, <4>1, <2>2, <3>0 DEF NoOverlap, End
        <5> QED BY <5>1, <5>2, <4>1, <3>0, <2>2
      <4> QED BY <4>1, <4>2, <2>1 DEF Coalesced
    <3> QED BY <3>1, <3>2
  <2> QED BY <1>1, <2>6, <2>7, <2>8, <2>9, <2>10, <2>11, <2>12
<1> QED BY <1>3, <1>4

(* An extension of the heap preserves it: the new block begins where the   *)
(* heap ended, and the only free neighbours it makes meet at that seam.    *)
LEMMA ExtendPreserves ==
  ASSUME BlocksInv, NEW r \in Requests, Extend(r)
  PROVE  BlocksInv'
<1> USE DEF BlocksInv
<1> USE HeapSizeFacts
<1>0. \A c \in Blocks : /\ c \in Nat /\ End(c) \in Nat /\ size[c] > 0
                        /\ c < End(c) /\ End(c) <= heapSize
  BY DEF End, Alignment, Tiling
<1> PICK top \in Nat : top = heapSize
  OBVIOUS
<1>1. top \notin Blocks /\ top \notin free
  BY <1>0
<1>2. /\ Blocks' = Blocks \cup {top}
      /\ free' = free \cup {top}
      /\ size' = [c \in Blocks \cup {top} |->
                     IF c = top THEN HEAP_SIZE ELSE size[c]]
      /\ heapSize' = top + HEAP_SIZE
      /\ seams' = seams \cup {top}
      /\ live' = live
  BY DEF Extend, Blocks
<1>3. /\ size'[top] = HEAP_SIZE
      /\ \A c \in Blocks : size'[c] = size[c]
  BY <1>1, <1>2
<1>4. /\ End(top)' = heapSize'
      /\ \A c \in Blocks : End(c)' = End(c)
  BY <1>2, <1>3 DEF End
<1>5. size' \in [Blocks' -> Nat] /\ Blocks' \subseteq Nat /\ free' \subseteq Blocks'
  BY <1>2, <1>3
<1>6. NoOverlap'
  BY <1>0, <1>2, <1>4 DEF NoOverlap
<1>7. Tiling'
  <2>1. \A c \in Blocks' : End(c)' <= heapSize'
    BY <1>0, <1>2, <1>4
  <2>2. ASSUME NEW x \in 0 .. heapSize' - 1
        PROVE  \E c \in Blocks' : c <= x /\ x < End(c)'
    <3>1. CASE x < top
      BY <3>1, <1>2, <1>4 DEF Tiling
    <3>2. CASE x >= top
      BY <3>2, <1>2, <1>4
    <3> QED BY <3>1, <3>2
  <2> QED BY <2>1, <2>2 DEF Tiling
<1>8. Partition'
  BY <1>1, <1>2 DEF Partition
<1>9. Alignment'
  <2>1. Aligned(top)
    <3>1. top > 0 => \E b \in Blocks : End(b) = top
      <4>1. SUFFICES ASSUME top > 0
                     PROVE  \E b \in Blocks : End(b) = top
        OBVIOUS
      <4>2. PICK b \in Blocks : b <= top - 1 /\ top - 1 < End(b)
        BY <4>1 DEF Tiling
      <4> QED BY <4>2, <1>0
    <3>2. CASE top = 0
      <4>1. 0 = 0 * HEADER_SIZE
        OBVIOUS
      <4> QED BY <3>2, <4>1, AlignedIntro
    <3>3. CASE top > 0
      <4>1. PICK b \in Blocks : End(b) = top
        BY <3>1, <3>3
      <4> QED BY <4>1, AlignedSum DEF End, Alignment
    <3> QED BY <3>2, <3>3
  <2> QED BY <2>1, <1>2, <1>3 DEF Alignment
<1>10. BigEnough'
  BY <1>2, <1>3 DEF BigEnough, Partition
<1>11. Coalesced'
  <2> SUFFICES ASSUME NEW c \in free', End(c)' \in free'
               PROVE  End(c)' \in seams'
    BY DEF Coalesced
  <2>1. c # top
    BY <1>0, <1>2, <1>4
  <2> QED BY <2>1, <1>2, <1>4 DEF Coalesced
<1> QED BY <1>2, <1>5, <1>6, <1>7, <1>8, <1>9, <1>10, <1>11

(* What merging does to the neighbourhood of a freed block a: the new free *)
(* block spans Base(a) up to Limit(a), the blocks it absorbs lie in that   *)
(* span and no other block touches it.                                     *)
LEMMA MergedSpan ==
  ASSUME BlocksInv, NEW a \in DOMAIN live
  PROVE  /\ Base(a) \in free \cup {a} /\ Base(a) \in Blocks
         /\ Base(a) = a \/ End(Base(a)) = a
         /\ Base(a) = a => \A p \in free : End(p) # a
         /\ Base(a) <= a
         /\ Limit(a) \in Nat /\ End(a) <= Limit(a) /\ Limit(a) <= heapSize
         /\ \/ End(a) \notin free /\ Limit(a) = End(a)
            \/ End(a) \in free /\ Limit(a) = End(End(a)) /\ End(a) < Limit(a)
         /\ Base(a) \notin Absorbed(a)
         /\ a \in Absorbed(a) \cup {Base(a)}
         /\ End(a) \in free => End(a) \in Absorbed(a)
         /\ Absorbed(a) \subseteq ({a} \cup free) \cap Blocks
         /\ \A c \in Absorbed(a) : Base(a) < c /\ End(c) <= Limit(a)
         /\ \A c \in Blocks \ (Absorbed(a) \cup {Base(a)}) :
               End(c) <= Base(a) \/ Limit(a) <= c
<1> USE DEF BlocksInv
<1>0. \A c \in Blocks : /\ c \in Nat /\ End(c) \in Nat
                        /\ c < End(c) /\ End(c) <= heapSize
  BY HeapSizeFacts DEF End, Alignment, Tiling
<1>1. a \in Blocks /\ a \notin free
  BY DEF Partition
<1>2. /\ Base(a) \in free \cup {a} /\ Base(a) \in Blocks
      /\ \/ Base(a) = a /\ \A p \in free : End(p) # a
         \/ Base(a) # a /\ End(Base(a)) = a
  <2>1. CASE \E p \in free : End(p) = a
    <3>1. Base(a) \in free /\ End(Base(a)) = a
      BY <2>1 DEF Base
    <3> QED BY <3>1, <1>1
  <2>2. CASE ~ \E p \in free : End(p) = a
    BY <2>2, <1>1 DEF Base
  <2> QED BY <2>1, <2>2
<1>3. Base(a) <= a
  BY <1>0, <1>1, <1>2
<1>4. /\ Limit(a) \in Nat /\ End(a) <= Limit(a) /\ Limit(a) <= heapSize
      /\ \/ End(a) \notin free /\ Limit(a) = End(a)
         \/ End(a) \in free /\ Limit(a) = End(End(a)) /\ End(a) < Limit(a)
  BY <1>0, <1>1 DEF Limit
<1>5. /\ Base(a) \notin Absorbed(a)
      /\ a \in Absorbed(a) \cup {Base(a)}
      /\ End(a) \in free => End(a) \in Absorbed(a)
      /\ Absorbed(a) \subseteq ({a} \cup free) \cap Blocks
  BY <1>0, <1>1, <1>3 DEF Absorbed
<1>6. \A c \in Absorbed(a) : Base(a) < c /\ End(c) <= Limit(a)
  <2> TAKE c \in Absorbed(a)
  <2>1. c = a \/ (c = End(a) /\ c \in free)
    BY DEF Absorbed
  <2>2. c # Base(a)
    BY <1>5
  <2> QED BY <2>1, <2>2, <1>0, <1>1, <1>2, <1>3, <1>4
<1>7. \A c \in Blocks \ (Absorbed(a) \cup {Base(a)}) :
         End(c) <= Base(a) \/ Limit(a) <= c
  <2> TAKE c \in Blocks \ (Absorbed(a) \cup {Base(a)})
  <2>1. c # a /\ c # Base(a)
    BY <1>5
  <2>2. CASE c < Base(a)
    BY <2>2, <1>2 DEF NoOverlap
  <2>3. CASE c > Base(a) /\ c < a
    <3>1. Base(a) # a /\ End(Base(a)) = a
      BY <2>3, <1>2, <1>0, <1>1
    <3> QED BY <3>1, <2>3, <1>0, <1>1, <1>2 DEF NoOverlap
  <2>4. CASE c > a
    <3>1. End(a) <= c
      BY <2>4, <1>1 DEF NoOverlap
    <3>2. CASE End(a) \notin free
      BY <3>1, <3>2, <1>4
    <3>3. CASE End(a) \in free
      <4>1. c # End(a)
        BY <3>3, <1>5
      <4>2. End(a) < c
        BY <4>1, <3>1, <1>0, <1>1
      <4>3. End(End(a)) <= c
        BY <4>2, <3>3 DEF NoOverlap
      <4> QED BY <4>3, <3>3, <1>4
    <3> QED BY <3>2, <3>3
  <2> QED BY <2>1, <2>2, <2>3, <2>4, <1>0, <1>1, <1>2
<1> QED BY <1>2, <1>3, <1>4, <1>5, <1>6, <1>7

(* my_free preserves it.                                                   *)
LEMMA FreePreserves ==
  ASSUME BlocksInv, NEW a \in DOMAIN live, Free(a)
  PROVE  BlocksInv'
<1> PICK base, lim, abs : base = Base(a) /\ lim = Limit(a) /\ abs = Absorbed(a)
  OBVIOUS
<1> USE DEF BlocksInv
<1>0. \A c \in Blocks : /\ c \in Nat /\ End(c) \in Nat /\ size[c] \in Nat
                        /\ c < End(c) /\ End(c) <= heapSize
  BY HeapSizeFacts DEF End, Alignment, Tiling
<1>1. a \in Blocks /\ a \notin free
  BY DEF Partition
<1>2. /\ base \in free \cup {a} /\ base \in Blocks
      /\ base = a \/ End(base) = a
      /\ base = a => \A p \in free : End(p) # a
      /\ base <= a
      /\ lim \in Nat /\ End(a) <= lim /\ lim <= heapSize
      /\ \/ End(a) \notin free /\ lim = End(a)
         \/ End(a) \in free /\ lim = End(End(a)) /\ End(a) < lim
      /\ base \notin abs
      /\ a \in abs \cup {base}
      /\ End(a) \in free => End(a) \in abs
      /\ abs \subseteq ({a} \cup free) \cap Blocks
      /\ \A c \in abs : base < c /\ End(c) <= lim
      /\ \A c \in Blocks \ (abs \cup {base}) : End(c) <= base \/ lim <= c
  BY MergedSpan
<1>3. /\ Blocks' = Blocks \ abs
      /\ free' = (free \cup {base}) \ abs
      /\ size' = [c \in Blocks \ abs |-> IF c = base THEN lim - base ELSE size[c]]
      /\ live' = [c \in DOMAIN live \ {a} |-> live[c]]
      /\ heapSize' = heapSize /\ seams' = seams
  BY DEF Free, Blocks
<1>4. base \in Nat /\ lim - base \in Nat /\ base < lim
  BY <1>0, <1>1, <1>2
<1>5. /\ base \in Blocks'
      /\ size'[base] = lim - base
      /\ \A c \in Blocks' : c # base => size'[c] = size[c]
  BY <1>2, <1>3
<1>6. /\ End(base)' = lim
      /\ \A c \in Blocks' : c # base => End(c)' = End(c)
  <2>1. base + (lim - base) = lim
    BY <1>2, <1>4
  <2> QED BY <2>1, <1>5 DEF End
<1>7. /\ size' \in [Blocks' -> Nat] /\ Blocks' \subseteq Nat /\ free' \subseteq Blocks'
      /\ live' \in [DOMAIN live' -> Requests]
      /\ DOMAIN live' = DOMAIN live \ {a}
      /\ \A c \in DOMAIN live' : live'[c] = live[c]
  BY <1>2, <1>3, <1>4
<1>8. NoOverlap'
  <2> SUFFICES ASSUME NEW c \in Blocks', NEW d \in Blocks', c < d
               PROVE  End(c)' <= d
    BY DEF NoOverlap
  <2>1. CASE c = base
    BY <2>1, <1>0, <1>2, <1>3, <1>6
  <2>2. CASE c # base
    BY <2>2, <1>3, <1>6 DEF NoOverlap
  <2> QED BY <2>1, <2>2
<1>9. Tiling'
  <2>1. \A c \in Blocks' : End(c)' <= heapSize'
    BY <1>0, <1>2, <1>3, <1>6
  <2>2. ASSUME NEW x \in 0 .. heapSize' - 1
        PROVE  \E c \in Blocks' : c <= x /\ x < End(c)'
    <3>1. PICK b \in Blocks : b <= x /\ x < End(b)
      BY <1>3 DEF Tiling
    <3>2. CASE b \in abs
      <4>1. base <= x /\ x < lim
        BY <3>1, <3>2, <1>0, <1>2, <1>4
      <4> QED BY <4>1, <1>5, <1>6
    <3>3. CASE b = base
      <4>1. End(base) <= lim
        BY <1>0, <1>1, <1>2
      <4>2. base <= x /\ x < lim
        BY <4>1, <3>1, <3>3, <1>0, <1>2, <1>4
      <4> QED BY <4>2, <1>5, <1>6
    <3>4. CASE b \notin abs /\ b # base
      BY <3>1, <3>4, <1>3, <1>6
    <3> QED BY <3>2, <3>3, <3>4
  <2> QED BY <2>1, <2>2 DEF Tiling
<1>10. Partition'
  <2>1. free' \cap DOMAIN live' = {}
    BY <1>2, <1>3, <1>7 DEF Partition
  <2>2. free' \cup DOMAIN live' = Blocks'
    BY <1>1, <1>2, <1>3, <1>7 DEF Partition
  <2> QED BY <2>1, <2>2 DEF Partition
<1>11. Alignment'
  <2>1. Aligned(base) /\ Aligned(a) /\ Aligned(size[a])
    BY <1>1, <1>2 DEF Alignment
  <2>2. Aligned(End(a))
    BY <2>1, <1>0, <1>1, AlignedSum DEF End
  <2>3. Aligned(lim)
    <3>1. CASE End(a) \in free
      <4>1. End(a) \in Blocks /\ Aligned(size[End(a)])
        BY <3>1 DEF Alignment
      <4>2. lim = End(a) + size[End(a)]
        <5>1. lim = End(End(a))
          BY <3>1, <1>2
        <5> QED BY <5>1 DEF End
      <4> QED BY <4>1, <4>2, <2>2, <1>0, AlignedSum
    <3> QED BY <3>1, <2>2, <1>2
  <2>4. Aligned(lim - base)
    BY <2>1, <2>3, <1>2, <1>4, AlignedDifference
  <2>5. lim - base >= HEADER_SIZE
    BY <2>4, <1>2, <1>4, AlignedPositive
  <2> QED BY <2>1, <2>4, <2>5, <1>3, <1>5 DEF Alignment
<1>12. BigEnough'
  <2> SUFFICES ASSUME NEW c \in DOMAIN live'
               PROVE  size'[c] >= HEADER_SIZE + live'[c]
    BY DEF BigEnough
  <2>1. c \in DOMAIN live /\ c # a /\ c \in Blocks /\ c \notin free
    BY <1>7 DEF Partition
  <2>2. c # base /\ c \in Blocks'
    BY <2>1, <1>2, <1>3
  <2> QED BY <2>1, <2>2, <1>5, <1>7 DEF BigEnough
<1>13. Coalesced'
  <2> SUFFICES ASSUME NEW c \in free', End(c)' \in free'
               PROVE  End(c)' \in seams'
    BY DEF Coalesced
  <2>1. CASE c = base
    <3>1. lim \in free /\ lim \notin abs
      BY <2>1, <1>3, <1>4, <1>6
    <3>2. End(a) \in free /\ lim = End(End(a))
      BY <3>1, <1>2
    <3> QED BY <2>1, <3>1, <3>2, <1>3, <1>6 DEF Coalesced
  <2>2. CASE c # base
    <3>1. c \in free /\ End(c)' = End(c) /\ End(c) \in free \cup {base}
      BY <2>2, <1>3, <1>6, <1>7
    <3>2. CASE End(c) \in free
      BY <3>1, <3>2, <1>3 DEF Coalesced
    <3>3. CASE End(c) = base /\ base \notin free
      BY <3>1, <3>3, <1>2
    <3> QED BY <3>1, <3>2, <3>3
  <2> QED BY <2>1, <2>2
<1> QED BY <1>3, <1>7, <1>8, <1>9, <1>10, <1>11, <1>12, <1>13

(* Every step preserves the invariant: one case per operation.             *)
LEMMA NextBlocks ==
  ASSUME HeapInv, Next
  PROVE  BlocksInv'
<1>1. BlocksInv
  BY DEF HeapInv, TypeOK, BlocksInv
<1>2. ASSUME NEW r \in Requests, Malloc(r)
      PROVE  BlocksInv'
  <2>1. PICK b \in free : /\ BestFit(b, BlockSize(r))
                          /\ AllocateBlock(b, BlockSize(r), r)
    BY <1>2 DEF Malloc
  <2>2. BlockSize(r) <= size[b]
    BY <2>1, <1>1, RequestSize DEF BestFit, Fitting, BlocksInv
  <2>3. UNCHANGED <<heapSize, seams>>
    BY <1>2 DEF Malloc
  <2> QED BY <1>1, <2>1, <2>2, <2>3, RequestSize, AllocatePreserves
<1>3. ASSUME NEW r \in Requests, Extend(r)
      PROVE  BlocksInv'
  BY <1>1, <1>3, ExtendPreserves
<1>4. CASE Retry
  <2>1. /\ pending \in Requests
        /\ BlockSize(pending) <= HEAP_SIZE
    BY <1>4 DEF Retry, HeapInv, TypeOK, PendingFits
  <2>2. UNCHANGED <<heapSize, seams>>
    BY <1>4 DEF Retry
  <2>3. CASE RetrySize > HEAP_SIZE
    <3>1. UNCHANGED <<size, free, live>>
      BY <1>4, <2>3 DEF Retry
    <3> QED BY <1>1, <2>2, <3>1
            DEF BlocksInv, Blocks, End, NoOverlap, Tiling, Partition,
                Alignment, BigEnough, Coalesced
  <2>4. CASE ~(RetrySize > HEAP_SIZE)
    <3>1. PICK b \in free : /\ BestFit(b, RetrySize)
                            /\ AllocateBlock(b, RetrySize, pending)
      BY <1>4, <2>4 DEF Retry
    <3>2. BlockSize(pending) \in 0 .. (WORD - 2 * HEADER_SIZE)
      BY <2>1, RequestSize, HeapAssumption, HeaderAssumption, WordAssumption
    <3>3. /\ RetrySize \in Nat \ {0}
          /\ RetrySize >= HEADER_SIZE + pending
          /\ Aligned(RetrySize)
      BY <2>1, <3>2, RequestSize, BlockSizeCorrect, HeaderAssumption DEF RetrySize
    <3>4. RetrySize <= size[b]
      BY <3>1, <3>3, <1>1 DEF BestFit, Fitting, BlocksInv
    <3> QED BY <1>1, <2>1, <2>2, <3>1, <3>3, <3>4, AllocatePreserves
  <2> QED BY <2>3, <2>4
<1>5. ASSUME NEW a \in DOMAIN live, Free(a)
      PROVE  BlocksInv'
  BY <1>1, <1>5, FreePreserves
<1> QED BY <1>2, <1>3, <1>4, <1>5 DEF Next

(* A retry begins with a whole new block on the free list.                 *)
LEMMA NextPending ==
  ASSUME HeapInv, Next
  PROVE  /\ seams' \subseteq Nat
         /\ pending' \in Requests \cup {NoRequest}
         /\ PendingFits'
<1> USE DEF HeapInv, TypeOK
<1>1. NoRequest \notin Requests
  BY RequestSize DEF NoRequest
<1>2. ASSUME NEW r \in Requests, Malloc(r) \/ Extend(r)
      PROVE  /\ seams' \subseteq Nat
             /\ pending' \in Requests \cup {NoRequest}
             /\ PendingFits'
  <2>1. CASE Malloc(r)
    BY <2>1 DEF Malloc, PendingFits
  <2>2. CASE Extend(r)
    <3>1. /\ pending' = r /\ BlockSize(r) <= HEAP_SIZE
          /\ seams' = seams \cup {heapSize}
          /\ heapSize \in free' /\ size'[heapSize] = HEAP_SIZE
      BY <2>2 DEF Extend
    <3> QED BY <3>1, <1>1 DEF PendingFits
  <2> QED BY <1>2, <2>1, <2>2
<1>3. CASE Retry
  BY <1>3 DEF Retry, PendingFits
<1>4. ASSUME NEW a \in DOMAIN live, Free(a)
      PROVE  /\ seams' \subseteq Nat
             /\ pending' \in Requests \cup {NoRequest}
             /\ PendingFits'
  BY <1>4 DEF Free, PendingFits
<1> QED BY <1>2, <1>3, <1>4 DEF Next

(* Safety of the best-fit heap: in every reachable state the blocks tile   *)
(* the heap without overlap, each is either free or held by one request    *)
(* it is large enough for, and free neighbours are merged except at seams. *)
THEOREM HeapSafety == Spec => []HeapInv
<1>1. Init => HeapInv
  BY InitBlocks DEF Init, BlocksInv, HeapInv, TypeOK, PendingFits
<1>2. HeapInv /\ [Next]_vars => HeapInv'
  <2> SUFFICES ASSUME HeapInv, [Next]_vars
               PROVE  HeapInv'
    OBVIOUS
  <2>1. CASE Next
    BY <2>1, NextBlocks, NextPending DEF BlocksInv, HeapInv, TypeOK
  <2>2. CASE UNCHANGED vars
    BY <2>2 DEF vars, HeapInv, TypeOK, Blocks, End, NoOverlap, Tiling,
                Partition, Alignment, BigEnough, Coalesced, PendingFits
  <2> QED BY <2>1, <2>2
<1> QED BY <1>1, <1>2, PTL DEF Spec

(* No sequence of calls fragments the heap for good: once everything is    *)
(* freed, a heap that never grew is one block again.                       *)
THEOREM HeapWhole == Spec => []Whole
<1>1. HeapInv /\ (seams = {} => heapSize = HEAP_SIZE) => Whole
  <2> SUFFICES ASSUME HeapInv, seams = {}, heapSize = HEAP_SIZE, DOMAIN live = {}
               PROVE  size = [b \in {0} |-> HEAP_SIZE]
    BY DEF Whole
  <2> USE HeapSizeFacts DEF HeapInv, TypeOK
  <2>1. Blocks = free
    BY DEF Partition
  <2>2. \A c \in Blocks : c \in Nat /\ End(c) \in Nat /\ c < End(c) /\ End(c) <= heapSize
    BY DEF End, Alignment, Tiling
  <2>9. 0 \in 0 .. heapSize - 1
    OBVIOUS
  <2>3. PICK b \in Blocks : b <= 0 /\ 0 < End(b)
    BY <2>9 DEF Tiling
  <2>4. b = 0
    BY <2>2, <2>3
  <2>5. End(0) = heapSize
    <3> SUFFICES ASSUME End(0) # heapSize PROVE FALSE
      OBVIOUS
    <3>1. End(0) \in 0 .. heapSize - 1
      BY <2>2, <2>3, <2>4
    <3>2. PICK c \in Blocks : c <= End(0) /\ End(0) < End(c)
      BY <3>1 DEF Tiling
    <3>3. c = End(0)
      BY <3>2, <2>2, <2>3, <2>4 DEF NoOverlap
    <3> QED BY <3>3, <2>1, <2>3, <2>4 DEF Coalesced
  <2>6. Blocks = {0}
    BY <2>2, <2>3, <2>4, <2>5 DEF NoOverlap
  <2>7. size[0] = HEAP_SIZE
    BY <2>5, <2>6 DEF End
  <2> QED BY <2>6, <2>7 DEF Blocks
<1>2. Init => (seams = {} => heapSize = HEAP_SIZE)
  BY DEF Init
<1>3. /\ seams = {} => heapSize = HEAP_SIZE
      /\ [Next]_vars
      => (seams = {} => heapSize = HEAP_SIZE)'
  BY DEF Next, vars, Malloc, Extend, Retry, Free
<1> QED BY <1>1, <1>2, <1>3, HeapSafety, PTL DEF Spec

(* All of it: the blocks partition the heap, fit their requests and are    *)
(* merged, for every size of heap and header and every set of requests.    *)
THEOREM HeapAlwaysSafe == Spec => []HeapSafe
<1>1. HeapInv /\ Whole => HeapSafe
  BY DEF HeapSafe
<1> QED BY <1>1, HeapSafety, HeapWhole, PTL

(* An allocation step of the blocks is one of the abstract service.        *)
LEMMA AllocateServes ==
  ASSUME HeapInv, HeapInv', NEW b \in free, NEW r \in Requests,
         NEW n \in Nat \ {0}, n <= size[b],
         AllocateBlock(b, n, r), UNCHANGED heapSize
  PROVE  Service!Allocate
<1> USE DEF HeapInv, TypeOK, Blocks
<1>1. /\ b \in Nat /\ b \notin DOMAIN live /\ b \in DOMAIN size
      /\ DOMAIN live \subseteq DOMAIN size
  BY DEF Partition
<1>2. DOMAIN live' = DOMAIN live \cup {b} /\ live'[b] = r
  BY DEF AllocateBlock
<1>3. \A c \in DOMAIN live : live'[c] = live[c] /\ size'[c] = size[c]
  <2> SUFFICES ASSUME NEW c \in DOMAIN live
               PROVE  live'[c] = live[c] /\ size'[c] = size[c]
    OBVIOUS
  <2>1. c # b /\ c \in DOMAIN size /\ c \in Nat
    BY <1>1
  <2>2. CASE size[b] = n
    BY <2>1, <2>2 DEF AllocateBlock
  <2>3. CASE size[b] # n
    <3>1. c # b + n
      BY <1>1, <2>1, <2>3 DEF NoOverlap, End
    <3> QED BY <2>1, <2>3, <3>1 DEF AllocateBlock
  <2> QED BY <2>2, <2>3
<1>4. /\ DOMAIN Held' = DOMAIN live \cup {b}
      /\ DOMAIN Held = DOMAIN live
      /\ \A c \in DOMAIN Held' : /\ Held'[c].size = size'[c]
                                 /\ Held'[c].ask = live'[c]
      /\ \A c \in DOMAIN live : Held'[c] = Held[c]
  BY <1>2, <1>3 DEF Held
<1>5. ASSUME NEW c \in DOMAIN live
      PROVE  \/ b + Held'[b].size <= c
             \/ c + Held'[c].size <= b
  <2>1. b \in DOMAIN size' /\ c \in DOMAIN size' /\ c # b
    BY <1>1, <1>2, <1>5 DEF Partition
  <2>2. b \in Nat /\ c \in Nat
    BY <2>1
  <2>3. NoOverlap'
    OBVIOUS
  <2>4. CASE b < c
    <3>1. End(b)' <= c
      BY <2>1, <2>3, <2>4 DEF NoOverlap
    <3>2. Held'[b].size = size'[b]
      BY <1>4
    <3> QED BY <3>1, <3>2 DEF End
  <2>5. CASE c < b
    <3>1. End(c)' <= b
      BY <2>1, <2>3, <2>5 DEF NoOverlap
    <3>2. Held'[c].size = size'[c]
      BY <1>4, <1>5
    <3> QED BY <3>1, <3>2 DEF End
  <2> QED BY <2>1, <2>2, <2>4, <2>5
<1>6. /\ Held'[b].size >= HEADER_SIZE + Held'[b].ask
      /\ b + Held'[b].size <= heapSize'
  <2>1. b \in DOMAIN live' /\ b \in DOMAIN size'
    BY <1>2 DEF Partition
  <2> QED BY <1>4, <2>1 DEF BigEnough, Tiling, End
<1>7. heapSize' >= heapSize
  OBVIOUS
<1>8. 0 <= b /\ b \in DOMAIN Held' \ DOMAIN Held
  BY <1>1, <1>4
<1> QED BY <1>4, <1>5, <1>6, <1>7, <1>8 DEF Service!Allocate, Service!Apart

(* A step of my_free is a release.                                         *)
LEMMA FreeReleases ==
  ASSUME HeapInv, NEW a \in DOMAIN live, Free(a)
  PROVE  Service!Release
<1> USE DEF HeapInv, TypeOK, Blocks
<1>1. DOMAIN live' = DOMAIN live \ {a} /\ UNCHANGED heapSize
  BY DEF Free
<1>2. ASSUME NEW c \in DOMAIN live \ {a}
      PROVE  live'[c] = live[c] /\ size'[c] = size[c]
  <2>1. c \in DOMAIN size /\ c \notin free
    BY <1>2 DEF Partition
  <2>2. Base(a) = a \/ Base(a) \in free
    BY DEF Base
  <2>3. c # Base(a) /\ c \notin Absorbed(a)
    BY <1>2, <2>1, <2>2 DEF Absorbed
  <2> QED BY <1>2, <2>1, <2>3 DEF Free
<1>3. /\ Held' = [c \in DOMAIN Held \ {a} |-> Held[c]]
      /\ a \in DOMAIN Held
  BY <1>1, <1>2 DEF Held
<1> QED BY <1>1, <1>3 DEF Service!Release

(* The heap of blocks keeps the promise of MemoryService, for every size   *)
(* of heap and header and every set of requests.                           *)
THEOREM ServesMemory == Spec => ImplementsMemoryService
<1>1. Init => Service!Init
  BY DEF Init, Service!Init, Held
<1>2. HeapInv /\ HeapInv' /\ [Next]_vars => [Service!Next]_(Service!vars)
  <2> SUFFICES ASSUME HeapInv, HeapInv', [Next]_vars
               PROVE  [Service!Next]_(Service!vars)
    OBVIOUS
  <2> USE DEF Service!Next, Service!vars
  <2>1. ASSUME NEW r \in Requests, Malloc(r)
        PROVE  Service!Allocate
    <3>1. PICK b \in free : /\ BestFit(b, BlockSize(r))
                            /\ AllocateBlock(b, BlockSize(r), r)
      BY <2>1 DEF Malloc
    <3>2. BlockSize(r) \in Nat \ {0} /\ BlockSize(r) <= size[b]
      BY <3>1, RequestSize DEF BestFit, Fitting, HeapInv, TypeOK
    <3>3. UNCHANGED heapSize
      BY <2>1 DEF Malloc
    <3> QED BY <3>1, <3>2, <3>3, AllocateServes
  <2>2. ASSUME NEW r \in Requests, Extend(r)
        PROVE  Service!Grow
    <3>1. /\ heapSize' = heapSize + HEAP_SIZE
          /\ UNCHANGED live
          /\ size' = [c \in Blocks \cup {heapSize} |->
                        IF c = heapSize THEN HEAP_SIZE ELSE size[c]]
      BY <2>2 DEF Extend
    <3>2. heapSize' > heapSize
      BY <3>1, HeapSizeFacts DEF HeapInv, TypeOK
    <3>3. \A c \in DOMAIN live : size'[c] = size[c]
      <4> TAKE c \in DOMAIN live
      <4>1. c \in Blocks /\ c \in Nat /\ size[c] \in Nat /\ heapSize \in Nat
        BY DEF HeapInv, TypeOK, Partition
      <4>2. size[c] >= HEADER_SIZE /\ End(c) <= heapSize
        BY <4>1 DEF HeapInv, Alignment, Tiling
      <4>3. c # heapSize
        BY <4>1, <4>2, HeapSizeFacts DEF End
      <4> QED BY <3>1, <4>1, <4>3
    <3>4. UNCHANGED Held
      BY <3>1, <3>3 DEF Held
    <3> QED BY <3>2, <3>4 DEF Service!Grow
  <2>3. CASE Retry
    <3>1. pending \in Requests /\ UNCHANGED heapSize
      BY <2>3 DEF Retry, HeapInv, TypeOK
    <3>2. CASE RetrySize > HEAP_SIZE
      BY <2>3, <3>1, <3>2 DEF Retry, Held
    <3>3. CASE ~(RetrySize > HEAP_SIZE)
      <4>1. PICK b \in free : /\ BestFit(b, RetrySize)
                              /\ AllocateBlock(b, RetrySize, pending)
        BY <2>3, <3>3 DEF Retry
      <4>2. RetrySize \in Nat \ {0} /\ RetrySize <= size[b]
        <5>1. BlockSize(pending) \in Nat /\ BlockSize(pending) <= HEAP_SIZE
          BY <3>1, <2>3, RequestSize DEF HeapInv, PendingFits, Retry
        <5>2. BlockSize(pending) \in 0 .. (WORD - 2 * HEADER_SIZE)
          BY <5>1, HeapAssumption, HeaderAssumption, WordAssumption
        <5>3. RetrySize \in Nat \ {0}
          BY <5>2, BlockSizeCorrect, HeaderAssumption, WordAssumption DEF RetrySize
        <5>4. RetrySize <= size[b]
          BY <4>1, <5>3 DEF BestFit, Fitting, HeapInv, TypeOK
        <5> QED BY <5>3, <5>4
      <4> QED BY <3>1, <4>1, <4>2, AllocateServes
    <3> QED BY <3>2, <3>3
  <2>4. ASSUME NEW a \in DOMAIN live, Free(a)
        PROVE  Service!Release
    BY <2>4, FreeReleases
  <2>5. CASE UNCHANGED vars
    BY <2>5 DEF vars, Held
  <2> QED BY <2>1, <2>2, <2>3, <2>4, <2>5 DEF Next
<1> QED BY <1>1, <1>2, HeapSafety, PTL DEF Spec, ImplementsMemoryService, Service!Spec
=============================================================================
