--------------------------- MODULE BlockArithmetic ---------------------------
(***************************************************************************)
(* The unsigned 64-bit arithmetic of the allocators' my_malloc: how a      *)
(* request of the application becomes the size of a block.  All versions   *)
(* of malloc.c share it.                                                   *)
(***************************************************************************)
EXTENDS Integers

CONSTANTS HEADER_SIZE,  \* sizeof(Block); 16 in the code, also the alignment
          WORD          \* 2^64 in the code: uint64_t arithmetic is modulo WORD

ASSUME HeaderAssumption == HEADER_SIZE \in Nat \ {0}
ASSUME WordAssumption   == WORD \in Nat /\ WORD >= 2 * HEADER_SIZE

(* A sum of two machine words, each below WORD.                            *)
Wrap(x) == IF x < WORD THEN x ELSE x - WORD

(* Mutated: the size is rounded down.                                      *)
RoundDown(n) == n - (n % HEADER_SIZE)

(* roundUp: (n + 15) & ~15.                                                *)
RoundUp(n) == LET sum == Wrap(n + HEADER_SIZE - 1)
              IN  sum - (sum % HEADER_SIZE)

(* The first line of my_malloc: size = HEADER_SIZE + roundUp(size).        *)
BlockSize(n) == Wrap(HEADER_SIZE + RoundUp(n))

(* Multiples of the header size: every address and size of a block.        *)
Aligned(x) == \E k \in 0 .. x : x = k * HEADER_SIZE

=============================================================================
