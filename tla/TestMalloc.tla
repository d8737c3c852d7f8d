----------------------------- MODULE TestMalloc -----------------------------
(***************************************************************************)
(* allocator_test (assignment 9, p1/test-malloc.c) run on the threaded     *)
(* allocator: two parallel loops, the first calling my_malloc for every    *)
(* element of my_block, the second my_free.  OpenMP hands the iterations   *)
(* to the threads in any order and joins them after each loop.             *)
(***************************************************************************)
EXTENDS ConcurrentMalloc

CONSTANTS Iterations,  \* 0 .. 99 in the code
          Size         \* what iteration i asks for; 22 + (100 - i) * 3

ASSUME SizeAssumption == Iterations \subseteq Nat /\ Size \in [Iterations -> Requests]

VARIABLES
    loop,      \* the parallel loop in progress: "malloc", "free" or "none"
    todo,      \* its iterations that no thread has started
    iter,      \* the iteration each thread runs, or NoIteration
    my_block   \* the array of the test

testVars == <<loop, todo, iter, my_block>>
allVars  == <<vars, testVars>>

NoIteration == -1

TestInit == /\ Init
            /\ loop = "malloc"
            /\ todo = Iterations
            /\ iter = [t \in Threads |-> NoIteration]
            /\ my_block = [i \in Iterations |-> NULL]

Start(t, i) == /\ iter[t] = NoIteration
               /\ i \in todo
               /\ iter' = [iter EXCEPT ![t] = i]
               /\ todo' = todo \ {i}
               /\ UNCHANGED <<loop, my_block>>

MallocIteration(t, i) == loop = "malloc" /\ Start(t, i) /\ MallocCall(t, Size[i])
FreeIteration(t, i)   == loop = "free" /\ Start(t, i) /\ FreeCall(t, my_block[i])

EndIteration(t) ==
    /\ Return(t)
    /\ my_block' = IF loop = "malloc"
                     THEN [my_block EXCEPT ![iter[t]] = loc[t].block]
                     ELSE my_block
    /\ iter' = [iter EXCEPT ![t] = NoIteration]
    /\ UNCHANGED <<loop, todo>>

(* The barrier at the end of a parallel loop.                              *)
EndLoop == /\ loop # "none"
           /\ todo = {}
           /\ \A t \in Threads : iter[t] = NoIteration
           /\ loop' = IF loop = "malloc" THEN "free" ELSE "none"
           /\ todo' = IF loop = "malloc" THEN Iterations ELSE {}
           /\ UNCHANGED <<vars, iter, my_block>>

TestStep(t) == \/ \E i \in todo : MallocIteration(t, i) \/ FreeIteration(t, i)
               \/ pc[t] # "return" /\ Step(t) /\ UNCHANGED testVars
               \/ EndIteration(t)

TestNext == (\E t \in Threads : TestStep(t)) \/ EndLoop

(* Every thread that can run runs: the mutex need not be fair, since a     *)
(* thread makes finitely many calls and then leaves it to the others.      *)
TestSpec == /\ TestInit
            /\ [][TestNext]_allVars
            /\ \A t \in Threads : WF_allVars(TestStep(t))
            /\ WF_allVars(EndLoop)

-----------------------------------------------------------------------------
(* The test ends: no call waits forever for the mutex, not even one that   *)
(* calls itself or dumpAllocator with the mutex held, and none walks a     *)
(* list without end.  Only a failing sbrk may keep it from ending.         *)
TestEnds == <>(loop = "none" \/ crashed)

(* Between the loops every element of my_block that is not NULL is a block *)
(* of its own, large enough for the iteration that asked for it.           *)
BlocksDistinct ==
    loop = "free" =>
        \A i \in {k \in todo : my_block[k] # NULL} :
            /\ my_block[i] \in held
            /\ heap.size[my_block[i]] >= HEADER_SIZE + Size[i]
            /\ \A j \in todo \ {i} : my_block[i] # my_block[j]

(* After the test all memory is free again, in one block or, if the heap   *)
(* was extended, at most two, whatever the order of the threads' calls.    *)
HeapRestored == loop = "none" => /\ FreeSet = BlockSet
                                 /\ FreeSet \subseteq {0, HEAP_SIZE}

(* What allocator_test checks and prints: distinct blocks, and at the end  *)
(* the heap as it was, whatever the schedule.                              *)
TestPasses == /\ BlocksDistinct
              /\ HeapRestored
=============================================================================
