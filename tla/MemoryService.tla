---------------------------- MODULE MemoryService ----------------------------
(***************************************************************************)
(* What every allocator of the repository promises the application,        *)
(* whatever strategy and data structure it uses: my_malloc hands out       *)
(* memory that the program has and that nobody holds, enough of it for a   *)
(* header and the request, and neither moves nor resizes it until my_free. *)
(***************************************************************************)
EXTENDS Integers

CONSTANT HEADER_SIZE

VARIABLES
    live,   \* the blocks in use, by address: their size and their request
    limit   \* the end of the memory that the program has

vars == <<live, limit>>

Init == live = [b \in {} |-> 0]

Apart(b, c, blocks) == \/ b + blocks[b].size <= c
                       \/ c + blocks[c].size <= b

(* my_malloc; the heap may grow on the way.                                *)
Allocate == \E b \in DOMAIN live' \ DOMAIN live :
               /\ DOMAIN live' = DOMAIN live \cup {b}
               /\ \A c \in DOMAIN live : /\ live'[c] = live[c]
                                         /\ Apart(b, c, live')
               /\ 0 <= b
               /\ live'[b].size >= HEADER_SIZE + live'[b].ask
               /\ b + live'[b].size <= limit'
               /\ limit' >= limit

(* my_free.                                                                *)
Release == \E b \in DOMAIN live : /\ live' = [c \in DOMAIN live \ {b} |-> live[c]]
                                  /\ UNCHANGED limit

(* A call that extends the heap and does not answer yet, or not at all.    *)
Grow == limit' > limit /\ UNCHANGED live

Next == Allocate \/ Release \/ Grow

Spec == Init /\ [][Next]_vars
=============================================================================
