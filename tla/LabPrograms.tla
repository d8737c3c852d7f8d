----------------------------- MODULE LabPrograms -----------------------------
(***************************************************************************)
(* The programs that work on memory only, side by side: the bounded        *)
(* buffer, the round-robin scheduler, the paging experiment and parseInt.  *)
(* A behaviour starts one of them and follows it, while the others have    *)
(* not been started.                                                       *)
(***************************************************************************)
EXTENDS BoundedBuffer, RoundRobin, PagingPolicy, ParseInt

labVars == <<bufferVars, rrVars, pagingVars, parse>>

LabInit == BufferInit /\ RRInit /\ PagingInit /\ ParseInit

LabNext ==
    \/ /\ RRInit /\ PagingInit /\ ParseInit
       /\ BufferNext /\ UNCHANGED <<rrVars, pagingVars, parse>>
    \/ /\ BufferInit /\ PagingInit /\ ParseInit
       /\ RRNext /\ UNCHANGED <<bufferVars, pagingVars, parse>>
    \/ /\ BufferInit /\ RRInit /\ ParseInit
       /\ PagingNext /\ UNCHANGED <<bufferVars, rrVars, parse>>
    \/ /\ BufferInit /\ RRInit /\ PagingInit
       /\ ParseNext /\ UNCHANGED <<bufferVars, rrVars, pagingVars>>

LabFairness == BufferFairness /\ RRFairness /\ PagingFairness

-----------------------------------------------------------------------------
(* Nobody waits for ever: not an item for a consumer, not a task on the    *)
(* list for the processor, and not a simulation for a page to evict.       *)
LabProgramsEnd == /\ []<>(ItemsArrived /\ SimulationsEnded)
                  /\ RRServed
=============================================================================
