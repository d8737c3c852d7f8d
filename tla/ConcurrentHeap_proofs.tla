------------------------ MODULE ConcurrentHeap_proofs ------------------------
(***************************************************************************)
(* The threaded allocator, for every number of threads, every heap and     *)
(* every request.  First the locking discipline, which does not depend on  *)
(* what the heap holds.  Then the heap: the free list is intact under the  *)
(* feet of all walkers, memory in use is not written, and the program      *)
(* implements the heap of blocks.  Then allocator_test, which passes under *)
(* every schedule.                                                         *)
(***************************************************************************)
EXTENDS TestMalloc, WellFoundedInduction, TLAPS

Fields  == DOMAIN NoLocals
Waiting == {"d_lock", "d_walk", "d_list"}

(* Where recursion and dumps may be under way, for a thread at a label     *)
(* with locals l, and how often it then holds the mutex.                   *)
Resuming(label, l) == IF label \in Waiting THEN l.after ELSE label

Shape(label, l) ==
    /\ l = [f \in Fields |-> l[f]]
    /\ l.retry \in Nat
    /\ l.after \in {"return", "m_search", "m_unlock"}
    /\ label \notin Waiting => l.after = "return"
    /\ Resuming(label, l) \in {"idle", "return", "f_lock", "f_walk", "f_unlock"}
          => l.retry = 0
    /\ Resuming(label, l) = "m_retry" => l.retry > 0

Locks(label, l) ==
    l.retry + (IF Resuming(label, l) \in {"m_search", "m_insert", "m_unlock",
                                          "f_walk", "f_unlock"} THEN 1 ELSE 0)
            + (IF label \in {"d_walk", "d_list"} THEN 1 ELSE 0)

ThreadShape(t) == Shape(pc[t], loc[t])

MutexShape == /\ mutex \in [owner : Threads \cup {Nobody}, depth : Nat]
              /\ mutex.owner = Nobody <=> mutex.depth = 0

LockInv == /\ pc \in [Threads -> Labels]
           /\ loc = [t \in Threads |-> loc[t]]
           /\ MutexShape
           /\ \A t \in Threads : ThreadShape(t)
           /\ MutexBalanced

-----------------------------------------------------------------------------
(* A step of one thread keeps the invariant when it keeps the shape of     *)
(* that thread and moves the mutex as it moves what the thread holds.      *)
LEMMA StepOfOne ==
  ASSUME LockInv, NEW t \in Threads,
         pc' \in [Threads -> Labels],
         loc' = [u \in Threads |-> loc'[u]],
         \A u \in Threads \ {t} : pc'[u] = pc[u] /\ loc'[u] = loc[u],
         ThreadShape(t)',
         \/ mutex' = mutex /\ Holds(t)' = Holds(t)
         \/ Lock(t) /\ Holds(t)' = Holds(t) + 1
         \/ Unlock(t) /\ Holds(t)' = Holds(t) - 1 /\ Holds(t) > 0
  PROVE  LockInv'
<1>1. \A u \in Threads \ {t} : ThreadShape(u)' /\ Holds(u)' = Holds(u)
  BY DEF LockInv, ThreadShape, Holds, Inside, Resume, Dumping
<1>2. \A u \in Threads : ThreadShape(u)'
  BY <1>1
<1>3. \A u \in Threads : Holds(u) \in Nat
  BY DEF LockInv, ThreadShape, Shape, Holds
<1>4. Holds(t) = IF mutex.owner = t THEN mutex.depth ELSE 0
  BY DEF LockInv, MutexBalanced
<1>5. /\ mutex.owner \in Threads \cup {Nobody}
      /\ mutex.depth \in Nat
      /\ mutex.owner = Nobody <=> mutex.depth = 0
      /\ Nobody \notin Threads
  BY ThreadAssumption DEF LockInv, MutexShape
<1>6. \A u \in Threads :
         Holds(u) = IF mutex.owner = u THEN mutex.depth ELSE 0
  BY DEF LockInv, MutexBalanced
<1>7. MutexShape' /\ MutexBalanced'
  <2>1. CASE mutex' = mutex /\ Holds(t)' = Holds(t)
    BY <1>1, <2>1 DEF LockInv, MutexShape, MutexBalanced
  <2>2. CASE Lock(t) /\ Holds(t)' = Holds(t) + 1
    <3>1. mutex' = [owner |-> t, depth |-> mutex.depth + 1]
      BY <2>2 DEF Lock
    <3>2. mutex'.owner = t /\ mutex'.depth = mutex.depth + 1
      BY <3>1
    <3>3. mutex.owner = t \/ mutex.owner = Nobody
      BY <2>2 DEF Lock, MayLock
    <3>4. MutexShape'
      BY <1>5, <3>1, <3>2 DEF MutexShape
    <3>5. Holds(t)' = mutex'.depth
      BY <1>4, <1>5, <2>2, <3>2, <3>3
    <3>6. \A u \in Threads \ {t} : Holds(u)' = 0
      BY <1>1, <1>5, <1>6, <3>3
    <3> QED BY <3>2, <3>4, <3>5, <3>6 DEF MutexBalanced
  <2>3. CASE Unlock(t) /\ Holds(t)' = Holds(t) - 1 /\ Holds(t) > 0
    <3>1. mutex.owner = t /\ Holds(t) = mutex.depth
      BY <1>4, <2>3
    <3>2. \A u \in Threads \ {t} : Holds(u)' = 0
      BY <1>1, <1>6, <3>1
    <3>3. CASE mutex.depth = 1
      <4>1. mutex' = [owner |-> Nobody, depth |-> 0]
        BY <2>3, <3>3 DEF Unlock
      <4>2. mutex'.owner = Nobody /\ mutex'.depth = 0
        BY <4>1
      <4>3. Holds(t)' = 0
        BY <2>3, <3>1, <3>3
      <4> QED BY <1>5, <3>2, <4>1, <4>2, <4>3 DEF MutexShape, MutexBalanced
    <3>4. CASE mutex.depth # 1
      <4>1. mutex' = [mutex EXCEPT !.depth = @ - 1]
        BY <2>3, <3>4 DEF Unlock
      <4>2. /\ mutex' \in [owner : Threads \cup {Nobody}, depth : Int]
            /\ mutex'.owner = t /\ mutex'.depth = mutex.depth - 1
        BY <3>1, <4>1 DEF LockInv, MutexShape
      <4>3. mutex.depth > 1
        BY <1>5, <2>3, <3>1, <3>4
      <4>4. MutexShape'
        BY <1>5, <4>2, <4>3 DEF MutexShape
      <4>5. Holds(t)' = mutex'.depth
        BY <2>3, <3>1, <4>2
      <4> QED BY <3>2, <4>2, <4>4, <4>5 DEF MutexBalanced
    <3> QED BY <3>3, <3>4
  <2> QED BY <2>1, <2>2, <2>3
<1> QED BY <1>2, <1>7 DEF LockInv

LEMMA HoldsLocks == \A t : Holds(t) = Locks(pc[t], loc[t])
BY DEF Holds, Locks, Inside, Resume, Dumping, Resuming, Waiting

(* A step that takes a thread to a label with new locals.                  *)
LEMMA Moved ==
  ASSUME LockInv, NEW t \in Threads, NEW r, NEW label \in Labels,
         loc' = [loc EXCEPT ![t] = r],
         Goto(t, label),
         Shape(label, r),
         \/ mutex' = mutex /\ Locks(label, r) = Holds(t)
         \/ Lock(t) /\ Locks(label, r) = Holds(t) + 1
         \/ Unlock(t) /\ Locks(label, r) = Holds(t) - 1 /\ Holds(t) > 0
  PROVE  LockInv'
<1>1. /\ pc' \in [Threads -> Labels]
      /\ loc' = [u \in Threads |-> loc'[u]]
      /\ \A u \in Threads \ {t} : pc'[u] = pc[u] /\ loc'[u] = loc[u]
      /\ loc'[t] = r
      /\ pc'[t] = label
  BY DEF LockInv, Goto
<1>2. ThreadShape(t)'
  BY <1>1 DEF ThreadShape
<1>3. Holds(t)' = Locks(label, r)
  BY <1>1 DEF Holds, Locks, Inside, Resume, Dumping, Resuming, Waiting
<1> QED BY <1>1, <1>2, <1>3, StepOfOne

(* One that changes nothing but locals the invariant does not mention.     *)
LEMMA Stays ==
  ASSUME LockInv, NEW t \in Threads, NEW r,
         loc' = [loc EXCEPT ![t] = r],
         pc' = pc, mutex' = mutex,
         r = [f \in Fields |-> r[f]],
         r.retry = loc[t].retry, r.after = loc[t].after
  PROVE  LockInv'
<1>1. /\ pc[t] \in Labels
      /\ Goto(t, pc[t])
      /\ ThreadShape(t)
  BY DEF LockInv, Goto
<1>2. Shape(pc[t], r) /\ Locks(pc[t], r) = Locks(pc[t], loc[t])
  BY <1>1 DEF ThreadShape, Shape, Locks, Resuming
<1> QED BY <1>1, <1>2, HoldsLocks, Moved

LEMMA InitLocks == Init => LockInv
<1> SUFFICES ASSUME Init PROVE LockInv
  OBVIOUS
<1>1. pc \in [Threads -> Labels] /\ loc = [t \in Threads |-> loc[t]]
  BY DEF Init, Labels
<1>2. MutexShape
  BY ThreadAssumption DEF Init, MutexShape
<1>3. ASSUME NEW t \in Threads
      PROVE  ThreadShape(t) /\ Holds(t) = 0
  <2>1. pc[t] = "idle" /\ loc[t] = NoLocals
    BY DEF Init
  <2>2. NoLocals = [f \in Fields |-> NoLocals[f]]
    BY DEF Fields, NoLocals
  <2>3. NoLocals.retry = 0 /\ NoLocals.after = "return"
    BY DEF NoLocals
  <2> QED BY <2>1, <2>2, <2>3, HoldsLocks
          DEF ThreadShape, Shape, Waiting, Resuming, Locks
<1>4. MutexBalanced
  BY <1>3, ThreadAssumption DEF MutexBalanced, Init
<1> QED BY <1>1, <1>2, <1>3, <1>4 DEF LockInv

LEMMA StepKeepsLocks ==
  ASSUME LockInv, NEW t \in Threads, Step(t)
  PROVE  LockInv'
<1> USE DEF Waiting, Resuming, Locks, Shape, Labels
<1>0. /\ ThreadShape(t)
      /\ Shape(pc[t], loc[t])
      /\ loc[t] = [f \in Fields |-> loc[t][f]]
      /\ loc = [u \in Threads |-> loc[u]]
      /\ Holds(t) = Locks(pc[t], loc[t])
  BY HoldsLocks DEF LockInv, ThreadShape
<1>1. CASE MallocLock(t)
  <2> DEFINE l == [loc[t] EXCEPT !.best = NULL, !.bestPrev = NULL,
                                 !.prev = NULL, !.cur = heap.first]
             r == IF debug THEN [l EXCEPT !.after = "m_search"] ELSE l
             label == IF debug THEN "d_lock" ELSE "m_search"
  <2>1. l = [f \in Fields |-> l[f]] /\ l.retry = loc[t].retry /\ l.after = loc[t].after
    BY <1>0 DEF Fields, NoLocals
  <2>2. /\ r = [f \in Fields |-> r[f]]
        /\ r.retry = loc[t].retry
        /\ r.after = IF debug THEN "m_search" ELSE loc[t].after
    <3> HIDE DEF l
    <3> QED BY <2>1 DEF Fields, NoLocals
  <2>3. loc' = [loc EXCEPT ![t] = r] /\ Goto(t, label)
    BY <1>1 DEF MallocLock, GotoVia
  <2>4. label \in Labels /\ Shape(label, r) /\ Locks(label, r) = Holds(t) + 1
    <3> HIDE DEF r
    <3> QED BY <1>0, <1>1, <2>2 DEF MallocLock, At
  <2> HIDE DEF r, label
  <2> QED BY <1>1, <2>3, <2>4, Moved DEF MallocLock
<1>2. CASE MallocSearch(t)
  <2> DEFINE l == loc[t]
             r == [l EXCEPT !.best     = IF Better(l) THEN l.cur ELSE @,
                            !.bestPrev = IF Better(l) THEN l.prev ELSE @,
                            !.prev     = l.cur,
                            !.cur      = heap.next[l.cur]]
  <2>1. /\ r = [f \in Fields |-> r[f]]
        /\ r.retry = loc[t].retry /\ r.after = loc[t].after
    BY <1>0 DEF Fields, NoLocals
  <2>2. loc' = [loc EXCEPT ![t] = r] /\ pc' = pc /\ mutex' = mutex
    BY <1>2 DEF MallocSearch
  <2> HIDE DEF r
  <2> QED BY <2>1, <2>2, Stays
<1>3. CASE MallocAllocate(t)
  <2> DEFINE l == [loc[t] EXCEPT !.block = loc[t].best]
             r == IF debug THEN [l EXCEPT !.after = "m_unlock"] ELSE l
             label == IF debug THEN "d_lock" ELSE "m_unlock"
  <2>1. l = [f \in Fields |-> l[f]] /\ l.retry = loc[t].retry /\ l.after = loc[t].after
    BY <1>0 DEF Fields, NoLocals
  <2>2. /\ r = [f \in Fields |-> r[f]]
        /\ r.retry = loc[t].retry
        /\ r.after = IF debug THEN "m_unlock" ELSE loc[t].after
    <3> HIDE DEF l
    <3> QED BY <2>1 DEF Fields, NoLocals
  <2>3. loc' = [loc EXCEPT ![t] = r] /\ Goto(t, label) /\ mutex' = mutex
    BY <1>3 DEF MallocAllocate, GotoVia
  <2>4. label \in Labels /\ Shape(label, r) /\ Locks(label, r) = Holds(t)
    <3> HIDE DEF r
    <3> QED BY <1>0, <1>3, <2>2 DEF MallocAllocate, At
  <2> HIDE DEF r, label
  <2> QED BY <2>3, <2>4, Moved
<1>4. CASE MallocExtend(t)
  <2>1. CASE UNCHANGED <<pc, loc>>
    <3>1. loc' = [loc EXCEPT ![t] = loc[t]] /\ pc' = pc /\ mutex' = mutex
      BY <1>0, <1>4, <2>1 DEF MallocExtend
    <3> QED BY <1>0, <3>1, Stays
  <2>2. CASE ~UNCHANGED <<pc, loc>>
    <3> DEFINE r == [loc[t] EXCEPT !.block = heapSize, !.prev = NULL,
                                 !.cur = heap.first]
    <3>1. /\ r = [f \in Fields |-> r[f]]
          /\ r.retry = loc[t].retry /\ r.after = loc[t].after
      BY <1>0 DEF Fields, NoLocals
    <3>2. loc' = [loc EXCEPT ![t] = r] /\ Goto(t, "m_insert") /\ mutex' = mutex
      BY <1>0, <1>4, <2>2 DEF MallocExtend
    <3> HIDE DEF r
    <3>3. Shape("m_insert", r) /\ Locks("m_insert", r) = Holds(t)
      BY <1>0, <1>4, <2>2, <3>1 DEF MallocExtend, At
    <3> QED BY <3>1, <3>2, <3>3, Moved
  <2> QED BY <2>1, <2>2
<1>5. CASE Walk(t)
  <2> DEFINE r == [loc[t] EXCEPT !.prev = loc[t].cur, !.cur = heap.next[loc[t].cur]]
  <2>1. /\ r = [f \in Fields |-> r[f]]
        /\ r.retry = loc[t].retry /\ r.after = loc[t].after
    BY <1>0 DEF Fields, NoLocals
  <2>2. loc' = [loc EXCEPT ![t] = r] /\ pc' = pc /\ mutex' = mutex
    BY <1>0, <1>5 DEF Walk
  <2> HIDE DEF r
  <2> QED BY <2>1, <2>2, Stays
<1>6. CASE MallocInsert(t)
  <2> DEFINE r == [loc[t] EXCEPT !.retry = @ + 1, !.block = NULL]
  <2>1. /\ r = [f \in Fields |-> r[f]]
        /\ r.retry = loc[t].retry + 1 /\ r.after = loc[t].after
    BY <1>0 DEF Fields, NoLocals
  <2>2. loc' = [loc EXCEPT ![t] = r] /\ Goto(t, "m_retry") /\ mutex' = mutex
    BY <1>0, <1>6 DEF MallocInsert
  <2> HIDE DEF r
  <2>3. Shape("m_retry", r) /\ Locks("m_retry", r) = Holds(t)
    <3>1. pc[t] = "m_insert" /\ loc[t].retry \in Nat /\ loc[t].after = "return"
      BY <1>0, <1>6 DEF MallocInsert, At
    <3>2. Holds(t) = loc[t].retry + 1
      BY <1>0, <3>1
    <3> QED BY <2>1, <3>1, <3>2
  <2> QED BY <2>1, <2>2, <2>3, Moved
<1>7. CASE MallocRetry(t)
  <2> DEFINE n == BlockSize(loc[t].size)
  <2> HIDE DEF n
  <2>1. CASE n > HEAP_SIZE
    <3> DEFINE r == [loc[t] EXCEPT !.retry = @ - 1]
    <3>1. /\ r = [f \in Fields |-> r[f]]
          /\ r.retry = loc[t].retry - 1 /\ r.after = loc[t].after
      BY <1>0 DEF Fields, NoLocals
    <3>2. loc' = [loc EXCEPT ![t] = r] /\ Goto(t, "m_unlock") /\ mutex' = mutex
      BY <1>0, <1>7, <2>1 DEF MallocRetry, n
    <3> HIDE DEF r
    <3>3. Shape("m_unlock", r) /\ Locks("m_unlock", r) = Holds(t)
      BY <1>0, <1>7, <2>1, <3>1 DEF MallocRetry, At
    <3> QED BY <3>1, <3>2, <3>3, Moved
  <2>2. CASE ~(n > HEAP_SIZE)
    <3> DEFINE r == [loc[t] EXCEPT !.size = n]
    <3>1. /\ r = [f \in Fields |-> r[f]]
          /\ r.retry = loc[t].retry /\ r.after = loc[t].after
      BY <1>0 DEF Fields, NoLocals
    <3>2. loc' = [loc EXCEPT ![t] = r] /\ Goto(t, "m_lock") /\ mutex' = mutex
      BY <1>0, <1>7, <2>2 DEF MallocRetry, n
    <3> HIDE DEF r
    <3>3. Shape("m_lock", r) /\ Locks("m_lock", r) = Holds(t)
      BY <1>0, <1>7, <2>2, <3>1 DEF MallocRetry, At
    <3> QED BY <3>1, <3>2, <3>3, Moved
  <2> QED BY <2>1, <2>2
<1>8. CASE UnlockAll(t)
  <2>1. CASE loc[t].retry = 0
    <3> DEFINE r == loc[t]
    <3>1. /\ r = [f \in Fields |-> r[f]]
          /\ r.retry = loc[t].retry /\ r.after = loc[t].after
      BY <1>0 DEF Fields, NoLocals
    <3>2. loc' = [loc EXCEPT ![t] = r] /\ Goto(t, "return") /\ Unlock(t)
      BY <1>0, <1>8, <2>1 DEF UnlockAll
    <3> HIDE DEF r
    <3>3. Shape("return", r) /\ Locks("return", r) = Holds(t) - 1 /\ Holds(t) > 0
      <4>1. /\ pc[t] \in {"m_unlock", "f_unlock"}
            /\ loc[t].retry = 0 /\ loc[t].after = "return"
        BY <1>0, <1>8, <2>1 DEF UnlockAll, At
      <4>2. Holds(t) = 1
        BY <1>0, <4>1
      <4> QED BY <3>1, <4>1, <4>2
    <3> QED BY <3>1, <3>2, <3>3, Moved
  <2>2. CASE loc[t].retry # 0
    <3> DEFINE r == [loc[t] EXCEPT !.retry = @ - 1]
    <3>1. /\ r = [f \in Fields |-> r[f]]
          /\ r.retry = loc[t].retry - 1 /\ r.after = loc[t].after
      BY <1>0 DEF Fields, NoLocals
    <3>2. /\ loc' = [loc EXCEPT ![t] = r]
          /\ Goto(t, pc[t]) /\ pc[t] \in Labels
          /\ Unlock(t)
      BY <1>0, <1>8, <2>2 DEF UnlockAll, LockInv, Goto
    <3> HIDE DEF r
    <3>3. Shape(pc[t], r) /\ Locks(pc[t], r) = Holds(t) - 1 /\ Holds(t) > 0
      BY <1>0, <1>8, <2>2, <3>1 DEF UnlockAll, At
    <3> QED BY <3>1, <3>2, <3>3, Moved
  <2> QED BY <2>1, <2>2
<1>9. CASE Return(t)
  <2> DEFINE r == NoLocals
  <2>1. /\ r = [f \in Fields |-> r[f]]
        /\ r.retry = 0 /\ r.after = "return"
    BY <1>0 DEF Fields, NoLocals
  <2>2. loc' = [loc EXCEPT ![t] = r] /\ Goto(t, "idle") /\ mutex' = mutex
    BY <1>0, <1>9 DEF Return
  <2> HIDE DEF r
  <2>3. Shape("idle", r) /\ Locks("idle", r) = Holds(t)
    BY <1>0, <1>9, <2>1 DEF Return, At
  <2> QED BY <2>1, <2>2, <2>3, Moved
<1>10. CASE FreeLock(t)
  <2> DEFINE r == [loc[t] EXCEPT !.prev = NULL, !.cur = heap.first]
  <2>1. /\ r = [f \in Fields |-> r[f]]
        /\ r.retry = loc[t].retry /\ r.after = loc[t].after
    BY <1>0 DEF Fields, NoLocals
  <2>2. loc' = [loc EXCEPT ![t] = r] /\ Goto(t, "f_walk") /\ Lock(t)
    BY <1>0, <1>10 DEF FreeLock
  <2> HIDE DEF r
  <2>3. Shape("f_walk", r) /\ Locks("f_walk", r) = Holds(t) + 1
    <3>1. pc[t] = "f_lock" /\ loc[t].retry = 0 /\ loc[t].after = "return"
      BY <1>0, <1>10 DEF FreeLock, At
    <3>2. Holds(t) = 0
      BY <1>0, <3>1
    <3> QED BY <2>1, <3>1, <3>2
  <2> QED BY <2>1, <2>2, <2>3, Moved
<1>11. CASE FreeBlock(t)
  <2> DEFINE r == [loc[t] EXCEPT !.block = NULL]
  <2>1. /\ r = [f \in Fields |-> r[f]]
        /\ r.retry = loc[t].retry /\ r.after = loc[t].after
    BY <1>0 DEF Fields, NoLocals
  <2>2. loc' = [loc EXCEPT ![t] = r] /\ Goto(t, "f_unlock") /\ mutex' = mutex
    BY <1>0, <1>11 DEF FreeBlock
  <2> HIDE DEF r
  <2>3. Shape("f_unlock", r) /\ Locks("f_unlock", r) = Holds(t)
    BY <1>0, <1>11, <2>1 DEF FreeBlock, At
  <2> QED BY <2>1, <2>2, <2>3, Moved
<1>12. CASE DumpLock(t)
  <2> DEFINE r == [loc[t] EXCEPT !.pos = 0]
  <2>1. /\ r = [f \in Fields |-> r[f]]
        /\ r.retry = loc[t].retry /\ r.after = loc[t].after
    BY <1>0 DEF Fields, NoLocals
  <2>2. loc' = [loc EXCEPT ![t] = r] /\ Goto(t, "d_walk") /\ Lock(t)
    BY <1>0, <1>12 DEF DumpLock
  <2> HIDE DEF r
  <2>3. Shape("d_walk", r) /\ Locks("d_walk", r) = Holds(t) + 1
    BY <1>0, <1>12, <2>1 DEF DumpLock, At
  <2> QED BY <2>1, <2>2, <2>3, Moved
<1>13. CASE DumpWalk(t)
  <2> DEFINE last == NextBySize(loc[t].pos) = heapSize
  <2> HIDE DEF last
  <2>1. CASE last
    <3> DEFINE r == [loc[t] EXCEPT !.pos = heap.first]
    <3>1. /\ r = [f \in Fields |-> r[f]]
          /\ r.retry = loc[t].retry /\ r.after = loc[t].after
      BY <1>0 DEF Fields, NoLocals
    <3>2. loc' = [loc EXCEPT ![t] = r] /\ Goto(t, "d_list") /\ mutex' = mutex
      BY <1>0, <1>13, <2>1 DEF DumpWalk, last
    <3> HIDE DEF r
    <3>3. Shape("d_list", r) /\ Locks("d_list", r) = Holds(t)
      BY <1>0, <1>13, <2>1, <3>1 DEF DumpWalk, At
    <3> QED BY <3>1, <3>2, <3>3, Moved
  <2>2. CASE ~last
    <3> DEFINE r == [loc[t] EXCEPT !.pos = NextBySize(@)]
    <3>1. /\ r = [f \in Fields |-> r[f]]
          /\ r.retry = loc[t].retry /\ r.after = loc[t].after
      BY <1>0 DEF Fields, NoLocals
    <3>2. loc' = [loc EXCEPT ![t] = r] /\ pc' = pc /\ mutex' = mutex
      BY <1>0, <1>13, <2>2 DEF DumpWalk, last
    <3> HIDE DEF r
    <3> QED BY <3>1, <3>2, Stays
  <2> QED BY <2>1, <2>2
<1>14. CASE DumpList(t)
  <2> DEFINE r == [loc[t] EXCEPT !.pos = heap.next[@]]
  <2>1. /\ r = [f \in Fields |-> r[f]]
        /\ r.retry = loc[t].retry /\ r.after = loc[t].after
    BY <1>0 DEF Fields, NoLocals
  <2>2. loc' = [loc EXCEPT ![t] = r] /\ pc' = pc /\ mutex' = mutex
    BY <1>0, <1>14 DEF DumpList
  <2> HIDE DEF r
  <2> QED BY <2>1, <2>2, Stays
<1>15. CASE DumpUnlock(t)
  <2> DEFINE r == [loc[t] EXCEPT !.after = "return"]
  <2>1. /\ r = [f \in Fields |-> r[f]]
        /\ r.retry = loc[t].retry /\ r.after = "return"
    BY <1>0 DEF Fields, NoLocals
  <2>2. /\ loc' = [loc EXCEPT ![t] = r]
        /\ Goto(t, loc[t].after) /\ loc[t].after \in Labels
        /\ Unlock(t)
    BY <1>0, <1>15 DEF DumpUnlock
  <2> HIDE DEF r
  <2>3. /\ Shape(loc[t].after, r)
        /\ Locks(loc[t].after, r) = Holds(t) - 1
        /\ Holds(t) > 0
    BY <1>0, <1>15, <2>1 DEF DumpUnlock, At
  <2> QED BY <2>1, <2>2, <2>3, Moved
<1> QED BY <1>1, <1>2, <1>3, <1>4, <1>5, <1>6, <1>7, <1>8, <1>9, <1>10,
           <1>11, <1>12, <1>13, <1>14, <1>15 DEF Step

(* The beginning of a call takes no lock.                                  *)
LEMMA CallKeepsLocks ==
  ASSUME LockInv, NEW t \in Threads, Call(t)
  PROVE  LockInv'
<1> USE DEF Waiting, Resuming, Locks, Shape, Labels
<1>0. /\ ThreadShape(t)
      /\ Shape(pc[t], loc[t])
      /\ loc[t] = [f \in Fields |-> loc[t][f]]
      /\ loc = [u \in Threads |-> loc[u]]
      /\ Holds(t) = Locks(pc[t], loc[t])
  BY HoldsLocks DEF LockInv, ThreadShape
<1>1. ASSUME NEW q \in Requests, MallocCall(t, q)
      PROVE  LockInv'
  <2> DEFINE large == BlockSize(q) > HEAP_SIZE
             size  == BlockSize(q)
  <2> HIDE DEF large, size
  <2>1. CASE large
    <3> DEFINE r == loc[t]
    <3>1. /\ r = [f \in Fields |-> r[f]]
          /\ r.retry = loc[t].retry /\ r.after = loc[t].after
      BY <1>0 DEF Fields, NoLocals
    <3>2. loc' = [loc EXCEPT ![t] = r] /\ Goto(t, "return") /\ mutex' = mutex
      BY <1>0, <1>1, <2>1 DEF MallocCall, large, size
    <3> HIDE DEF r
    <3>3. Shape("return", r) /\ Locks("return", r) = Holds(t)
      BY <1>0, <1>1, <2>1, <3>1 DEF MallocCall, At
    <3> QED BY <3>1, <3>2, <3>3, Moved
  <2>2. CASE ~large
    <3> DEFINE r == [loc[t] EXCEPT !.ask = q, !.size = size]
    <3>1. /\ r = [f \in Fields |-> r[f]]
          /\ r.retry = loc[t].retry /\ r.after = loc[t].after
      BY <1>0 DEF Fields, NoLocals
    <3>2. loc' = [loc EXCEPT ![t] = r] /\ Goto(t, "m_lock") /\ mutex' = mutex
      BY <1>0, <1>1, <2>2 DEF MallocCall, large, size
    <3> HIDE DEF r
    <3>3. Shape("m_lock", r) /\ Locks("m_lock", r) = Holds(t)
      BY <1>0, <1>1, <2>2, <3>1 DEF MallocCall, At
    <3> QED BY <3>1, <3>2, <3>3, Moved
  <2> QED BY <2>1, <2>2
<1>2. ASSUME NEW b, FreeCall(t, b)
      PROVE  LockInv'
  <2>1. CASE b = NULL
    <3> DEFINE r == loc[t]
    <3>1. /\ r = [f \in Fields |-> r[f]]
          /\ r.retry = loc[t].retry /\ r.after = loc[t].after
      BY <1>0 DEF Fields, NoLocals
    <3>2. loc' = [loc EXCEPT ![t] = r] /\ Goto(t, "return") /\ mutex' = mutex
      BY <1>0, <1>2, <2>1 DEF FreeCall
    <3> HIDE DEF r
    <3>3. Shape("return", r) /\ Locks("return", r) = Holds(t)
      BY <1>0, <1>2, <2>1, <3>1 DEF FreeCall, At
    <3> QED BY <3>1, <3>2, <3>3, Moved
  <2>2. CASE b # NULL
    <3> DEFINE r == [loc[t] EXCEPT !.block = b]
    <3>1. /\ r = [f \in Fields |-> r[f]]
          /\ r.retry = loc[t].retry /\ r.after = loc[t].after
      BY <1>0 DEF Fields, NoLocals
    <3>2. loc' = [loc EXCEPT ![t] = r] /\ Goto(t, "f_lock") /\ mutex' = mutex
      BY <1>0, <1>2, <2>2 DEF FreeCall
    <3> HIDE DEF r
    <3>3. Shape("f_lock", r) /\ Locks("f_lock", r) = Holds(t)
      BY <1>0, <1>2, <2>2, <3>1 DEF FreeCall, At
    <3> QED BY <3>1, <3>2, <3>3, Moved
  <2> QED BY <2>1, <2>2
<1>3. CASE DumpCall(t)
  <2> DEFINE r == loc[t]
  <2>1. /\ r = [f \in Fields |-> r[f]]
        /\ r.retry = loc[t].retry /\ r.after = loc[t].after
    BY <1>0 DEF Fields, NoLocals
  <2>2. loc' = [loc EXCEPT ![t] = r] /\ Goto(t, "d_lock") /\ mutex' = mutex
    BY <1>0, <1>3 DEF DumpCall
  <2> HIDE DEF r
  <2>3. Shape("d_lock", r) /\ Locks("d_lock", r) = Holds(t)
    BY <1>0, <1>3, <2>1 DEF DumpCall, At
  <2> QED BY <2>1, <2>2, <2>3, Moved
<1>4. ASSUME NEW enable, EnableDebug(t, enable)
      PROVE  LockInv'
  <2>1. loc' = [loc EXCEPT ![t] = loc[t]] /\ pc' = pc /\ mutex' = mutex
    BY <1>0, <1>4 DEF EnableDebug
  <2> QED BY <1>0, <2>1, Stays
<1> QED BY <1>1, <1>2, <1>3, <1>4 DEF Call

-----------------------------------------------------------------------------
(* Where a thread is determines how often it holds the mutex: the          *)
(* inductive form of MutexBalanced.                                        *)
THEOREM LocksInvariant == Spec => []LockInv
<1>1. LockInv /\ [Next]_vars => LockInv'
  <2> SUFFICES ASSUME LockInv, [Next]_vars PROVE LockInv'
    OBVIOUS
  <2>1. CASE \E t \in Threads : Step(t) \/ Call(t)
    BY <2>1, StepKeepsLocks, CallKeepsLocks
  <2>2. CASE UNCHANGED vars
    BY <2>2 DEF vars, LockInv, MutexShape, ThreadShape, Shape, Resuming,
                MutexBalanced, Holds, Inside, Resume, Dumping
  <2> QED BY <2>1, <2>2 DEF Next, Killed
<1> QED BY <1>1, InitLocks, PTL DEF Spec

(* Every thread holds the recursive mutex exactly as often as its pending  *)
(* calls of my_malloc, my_free and dumpAllocator locked it: no early       *)
(* return, retry or nested dump leaves it locked or unlocks it too often.  *)
THEOREM LocksBalanced == Spec => []MutexBalanced
<1>1. LockInv => MutexBalanced
  BY DEF LockInv
<1> QED BY <1>1, LocksInvariant, PTL

(* The thread is between lock and unlock.                                  *)
InCriticalSection(t) == Inside(t) \/ Dumping(t)

(* The code between lock and unlock is a critical section: the search, the *)
(* split, the insertion, the merges and the walks of a dump are never      *)
(* under way in two threads.                                               *)
THEOREM MutualExclusion ==
  Spec => [](\A t, u \in Threads :
                InCriticalSection(t) /\ InCriticalSection(u) => t = u)
<1>1. LockInv => \A t, u \in Threads :
                    InCriticalSection(t) /\ InCriticalSection(u) => t = u
  <2>1. ASSUME LockInv, NEW t \in Threads, InCriticalSection(t)
        PROVE  mutex.owner = t
    <3>1. Holds(t) > 0
      BY <2>1 DEF LockInv, ThreadShape, Shape, Holds, InCriticalSection
    <3> QED BY <2>1, <3>1 DEF LockInv, MutexBalanced
  <2> QED BY <2>1
<1> QED BY <1>1, LocksInvariant, PTL

-----------------------------------------------------------------------------
(* Induction over addresses: every set of naturals has a least element,    *)
(* and what a step from below preserves holds of all addresses.            *)
Below == {ss \in Nat \X Nat : ss[1] < ss[2]}

LEMMA Least ==
  ASSUME NEW S \in SUBSET Nat, S # {}
  PROVE  \E m \in S : \A k \in S : m <= k
<1>1. IsWellFoundedOn(Below, Nat)
  BY NatLessThanWellFounded DEF OpToRel, Below
<1>2. PICK x \in S : \A y \in S : ~ (<<y, x>> \in Below)
  BY <1>1, WFMin
<1>3. \A k \in S : k < x => <<k, x>> \in Below
  BY DEF Below
<1>4. \A k \in S : k \in Nat /\ x \in Nat /\ ~(k < x)
  BY <1>2, <1>3
<1>5. \A k \in S : x <= k
  BY <1>4
<1> QED BY <1>5

(* A walk that only goes up is determined by its steps.                    *)
LEMMA WalkUnique ==
  ASSUME NEW step \in [Address -> Int],
         \A b \in Address : step[b] > b => step[b] \in Address,
         NEW f, f = [b \in Address |-> {b} \cup IF step[b] > b THEN f[step[b]] ELSE {}],
         NEW g, g = [b \in Address |-> {b} \cup IF step[b] > b THEN g[step[b]] ELSE {}]
  PROVE  f = g
<1> DEFINE D == {b \in Address : f[b] # g[b]}
           T == {n \in Nat : 2 * HEAP_SIZE - n \in D}
<1>0. HEAP_SIZE \in Nat \ {0}
  BY HeapAssumption
<1>1. SUFFICES ASSUME D # {} PROVE FALSE
  <2>1. \A b \in Address : f[b] = g[b]
    BY <1>1
  <2>2. f = [b \in Address |-> f[b]] /\ g = [b \in Address |-> g[b]]
    OBVIOUS
  <2> QED BY <2>1, <2>2, Zenon
<1>2. T # {}
  <2>1. PICK d : d \in D
    BY <1>1
  <2>2. d \in Nat /\ d < 2 * HEAP_SIZE
    BY <1>0, <2>1 DEF Address
  <2>3. 2 * HEAP_SIZE - d \in Nat /\ 2 * HEAP_SIZE - (2 * HEAP_SIZE - d) = d
    BY <1>0, <2>2
  <2> QED BY <2>1, <2>3
<1>3. PICK m \in T : \A k \in T : m <= k
  BY <1>2, Least
<1> DEFINE top == 2 * HEAP_SIZE - m
<1>4. top \in D /\ top \in Address /\ top \in Nat
  BY <1>0, <1>3 DEF Address
<1>5. \A b \in Address : b > top => f[b] = g[b]
  <2> SUFFICES ASSUME NEW b \in Address, b > top, f[b] # g[b] PROVE FALSE
    OBVIOUS
  <2>1. /\ b \in Nat /\ b < 2 * HEAP_SIZE /\ 2 * HEAP_SIZE - b \in Nat
        /\ 2 * HEAP_SIZE - (2 * HEAP_SIZE - b) = b
    BY <1>0 DEF Address
  <2>2. 2 * HEAP_SIZE - b \in T
    BY <2>1
  <2>3. m \in Nat /\ m <= 2 * HEAP_SIZE - b
    BY <2>2, <1>3
  <2> HIDE DEF T
  <2> QED BY <2>1, <2>3, <1>0
<1>6. f[top] = g[top]
  <2> HIDE DEF top
  <2>1. f[top] = {top} \cup IF step[top] > top THEN f[step[top]] ELSE {}
    BY <1>4
  <2>2. g[top] = {top} \cup IF step[top] > top THEN g[step[top]] ELSE {}
    BY <1>4
  <2>3. step[top] > top => f[step[top]] = g[step[top]]
    BY <1>4, <1>5
  <2> QED BY <2>1, <2>2, <2>3
<1> QED BY <1>4, <1>6

-----------------------------------------------------------------------------
(* What the memory is, given the set F of the free blocks, the set B of    *)
(* all blocks and the end of the heap.  The link at a place p of the list  *)
(* (a block, or NULL for _firstFreeBlock) leads to the free block after p. *)
HeapRecords == [size  : [Address -> Nat],
                next  : [Address -> Address \cup {NULL}],
                first : Address \cup {NULL}]

Follows(F, p, n) == IF n = NULL THEN \A c \in F : c <= p
                                ELSE /\ n \in F /\ p < n
                                     /\ \A c \in F : c <= p \/ n <= c

LinkAt(h, p) == IF p = NULL THEN h.first ELSE h.next[p]

Listed(h, F) == /\ F \subseteq Address
                /\ \A p \in F \cup {NULL} : Follows(F, p, LinkAt(h, p))
                /\ \A a \in Address \ F : h.next[a] = NULL

Tiled(h, B, end) == /\ end \in 0 .. 2 * HEAP_SIZE
                    /\ 0 \in B /\ B \subseteq 0 .. end - 1
                    /\ \A b \in B : /\ h.size[b] > 0
                                    /\ b + h.size[b] \in B \cup {end}
                    /\ \A b, c \in B : b < c => b + h.size[b] <= c
                    /\ \A a \in Address \ B : a = end \/ h.size[a] = 0

(* The chain that ListOf speaks of is the one function that there is.      *)
LEMMA ChosenChain ==
  ASSUME NEW h, NEW f,
         f = [b \in Address |->
                {b} \cup IF h.next[b] > b THEN f[h.next[b]] ELSE {}],
         \A g : g = [b \in Address |->
                       {b} \cup IF h.next[b] > b THEN g[h.next[b]] ELSE {}] => g = f
  PROVE  ListOf(h) = IF h.first = NULL THEN {} ELSE f[h.first]
BY ZenonT(60) DEF ListOf

LEMMA Addresses == /\ HEAP_SIZE \in Nat \ {0}
                   /\ NULL = -1 /\ NULL \notin Address
                   /\ Address \subseteq Nat /\ 0 \in Address
                   /\ \A a \in Nat : a < 2 * HEAP_SIZE => a \in Address
BY HeapAssumption DEF NULL, Address

(* The list and the walk are then F and B.                                 *)
LEMMA ListIs ==
  ASSUME NEW h \in HeapRecords, NEW F, Listed(h, F)
  PROVE  ListOf(h) = F
<1> DEFINE f == [b \in Address |-> IF b \in F THEN {c \in F : b <= c} ELSE {b}]
           Chain(g) == [b \in Address |->
                          {b} \cup IF h.next[b] > b THEN g[h.next[b]] ELSE {}]
<1>0. HEAP_SIZE \in Nat \ {0} /\ NULL = -1 /\ NULL \notin Address
      /\ F \subseteq Address /\ Address \subseteq Nat
      /\ h.next \in [Address -> Int]
      /\ \A b \in Address : h.next[b] > b => h.next[b] \in Address
  BY HeapAssumption DEF NULL, Address, Listed, HeapRecords
<1>1. ASSUME NEW b \in Address
      PROVE  f[b] = {b} \cup IF h.next[b] > b THEN f[h.next[b]] ELSE {}
  <2>1. CASE b \notin F
    <3>1. h.next[b] = NULL
      BY <2>1 DEF Listed
    <3> QED BY <3>1, <2>1, <1>0
  <2>2. CASE b \in F /\ h.next[b] = NULL
    <3>1. \A c \in F : c <= b
      BY <2>2, <1>0 DEF Listed, Follows, LinkAt
    <3>2. {c \in F : b <= c} = {b}
      BY <3>1, <2>2, <1>0
    <3> QED BY <3>2, <2>2, <1>0
  <2>3. CASE b \in F /\ h.next[b] # NULL
    <3>1. /\ h.next[b] \in F /\ b < h.next[b]
          /\ \A c \in F : c <= b \/ h.next[b] <= c
      BY <2>3, <1>0 DEF Listed, Follows, LinkAt
    <3>2. {c \in F : b <= c} = {b} \cup {c \in F : h.next[b] <= c}
      <4>1. ASSUME NEW c \in F
            PROVE  b <= c <=> c = b \/ h.next[b] <= c
        <5>1. c \in Nat /\ b \in Nat /\ h.next[b] \in Nat
          BY <3>1, <1>0, <4>1
        <5> QED BY <5>1, <3>1
      <4> QED BY <4>1, <2>3
    <3>3. f[h.next[b]] = {c \in F : h.next[b] <= c}
      BY <3>1, <1>0
    <3> QED BY <3>1, <3>2, <3>3, <2>3
  <2> QED BY <2>1, <2>2, <2>3
<1>2. f = Chain(f)
  <2> HIDE DEF f
  <2>1. f = [b \in Address |-> f[b]]
    BY DEF f
  <2>2. \A b \in Address : f[b] = Chain(f)[b]
    BY <1>1
  <2> QED BY <2>1, <2>2, Zenon
<1>3. \A g : g = Chain(g) => g = f
  <2> HIDE DEF f
  <2> QED BY <1>0, <1>2, WalkUnique
<1>4. ListOf(h) = IF h.first = NULL THEN {} ELSE f[h.first]
  <2> HIDE DEF f
  <2> QED BY <1>2, <1>3, ChosenChain
<1>5. Follows(F, NULL, h.first)
  BY DEF Listed, LinkAt
<1>6. CASE h.first = NULL
  <2>1. F = {}
    <3>1. \A c \in F : c <= NULL /\ c \in Nat
      BY <1>0, <1>5, <1>6 DEF Follows
    <3> QED BY <3>1, <1>0
  <2> QED BY <1>4, <1>6, <2>1
<1>7. CASE h.first # NULL
  <2>1. h.first \in F /\ h.first \in Address /\ \A c \in F : c \in Nat /\ h.first <= c
    <3>1. /\ h.first \in F /\ h.first \in Nat
          /\ \A c \in F : c \in Nat /\ (c <= NULL \/ h.first <= c)
      BY <1>0, <1>5, <1>7 DEF Follows
    <3> QED BY <3>1, <1>0
  <2>2. f[h.first] = {c \in F : h.first <= c}
    BY <2>1
  <2> QED BY <1>4, <1>7, <2>1, <2>2
<1> QED BY <1>6, <1>7

LEMMA BlocksAre ==
  ASSUME NEW h \in HeapRecords, NEW B, NEW end, Tiled(h, B, end)
  PROVE  BlocksOf(h, end) = B
<1> DEFINE f == [b \in Address |-> IF b \in B THEN {c \in B : b <= c} ELSE {b}]
           onward(b) == h.size[b] > 0 /\ b + h.size[b] < end
           Chain(g) == [b \in Address |->
                          {b} \cup IF onward(b) THEN g[b + h.size[b]] ELSE {}]
           step == [b \in Address |-> IF onward(b) THEN b + h.size[b] ELSE NULL]
<1>0. /\ HEAP_SIZE \in Nat \ {0} /\ NULL = -1 /\ Address \subseteq Nat
      /\ h.size \in [Address -> Nat]
      /\ end \in Nat /\ end <= 2 * HEAP_SIZE /\ 0 \in B /\ B \subseteq Address
      /\ \A b \in B : b \in Nat /\ b < end
      /\ 0 .. end - 1 \subseteq Address
      /\ 0 \in Address
  BY HeapAssumption DEF NULL, Address, Tiled, HeapRecords
<1>1. ASSUME NEW b \in Address
      PROVE  f[b] = {b} \cup IF onward(b) THEN f[b + h.size[b]] ELSE {}
  <2>0. b \in Nat /\ h.size[b] \in Nat
    BY <1>0
  <2>1. CASE b \notin B
    <3>1. ~onward(b)
      BY <2>1, <2>0, <1>0 DEF Tiled
    <3> QED BY <3>1, <2>1
  <2>2. CASE b \in B
    <3> DEFINE n == b + h.size[b]
    <3>1. h.size[b] > 0 /\ n \in B \cup {end} /\ n \in Nat /\ b < n
      BY <2>0, <2>2 DEF Tiled
    <3>2. ASSUME NEW c \in B PROVE b <= c <=> c = b \/ n <= c
      <4>1. c \in Nat /\ (b < c => n <= c)
        BY <2>2, <1>0 DEF Tiled
      <4> HIDE DEF n
      <4> QED BY <4>1, <3>1, <2>0
    <3>3. CASE n = end
      <4>1. {c \in B : b <= c} = {b}
        <5>1. \A c \in B : ~(end <= c)
          BY <1>0
        <5> QED BY <5>1, <3>2, <3>3, <2>2
      <4>2. ~onward(b)
        BY <3>3, <1>0
      <4> QED BY <4>1, <4>2, <2>2
    <3>4. CASE n # end
      <4>1. n \in B /\ n < end /\ n \in Address
        BY <3>1, <3>4, <1>0
      <4>2. onward(b)
        BY <3>1, <4>1
      <4>3. f[n] = {c \in B : n <= c}
        BY <4>1
      <4>4. {c \in B : b <= c} = {b} \cup {c \in B : n <= c}
        BY <3>2, <2>2
      <4>5. f[b] = {c \in B : b <= c}
        BY <2>2
      <4> HIDE DEF f
      <4> QED BY <4>2, <4>3, <4>4, <4>5
    <3> QED BY <3>3, <3>4
  <2> QED BY <2>1, <2>2
<1>2. f = Chain(f)
  <2> HIDE DEF f
  <2>1. f = [b \in Address |-> f[b]]
    BY DEF f
  <2>2. \A b \in Address : f[b] = Chain(f)[b]
    BY <1>1
  <2> QED BY <2>1, <2>2, Zenon
<1>3. ASSUME NEW g, g = Chain(g)
      PROVE  g = f
  <2>1. /\ step \in [Address -> Int]
        /\ \A b \in Address : /\ step[b] > b => step[b] \in Address
                              /\ step[b] > b <=> onward(b)
                              /\ onward(b) => step[b] = b + h.size[b]
    BY <1>0
  <2> HIDE DEF f
  <2> DEFINE Up(k) == [b \in Address |->
                         {b} \cup IF step[b] > b THEN k[step[b]] ELSE {}]
  <2>2. \A k : Chain(k) = Up(k)
    <3> SUFFICES ASSUME NEW k, NEW b \in Address
                 PROVE  (IF onward(b) THEN k[b + h.size[b]] ELSE {})
                          = (IF step[b] > b THEN k[step[b]] ELSE {})
      OBVIOUS
    <3> HIDE DEF step, onward
    <3> QED BY <2>1
  <2>3. f = Up(f) /\ g = Up(g)
    <3> HIDE DEF Up, Chain
    <3> QED BY <2>2, <1>2, <1>3
  <2> HIDE DEF step
  <2> QED BY <2>1, <2>3, WalkUnique
<1>4. BlocksOf(h, end) = f[0]
  <2> HIDE DEF f
  <2>1. \A g : g = Chain(g) => g = f
    BY <1>3
  <2>2. f = [b \in Address |->
               {b} \cup IF h.size[b] > 0 /\ b + h.size[b] < end
                          THEN f[b + h.size[b]] ELSE {}]
    BY <1>2, Zenon
  <2>3. \A g : g = [b \in Address |->
                      {b} \cup IF h.size[b] > 0 /\ b + h.size[b] < end
                                 THEN g[b + h.size[b]] ELSE {}] => g = f
    BY <2>1, Zenon
  <2> HIDE DEF Chain, onward, step
  <2> QED BY <2>2, <2>3, Zenon DEF BlocksOf
<1>5. f[0] = {c \in B : 0 <= c}
  BY <1>0
<1>6. {c \in B : 0 <= c} = B
  <2>1. \A c \in B : 0 <= c
    BY <1>0
  <2> QED BY <2>1
<1> QED BY <1>4, <1>5, <1>6

-----------------------------------------------------------------------------
(* What the operations of the allocator make of the list and the blocks.   *)
Described(h, F, B, end) == /\ h \in HeapRecords
                           /\ Listed(h, F)
                           /\ Tiled(h, B, end)
                           /\ F \subseteq B

(* A block is linked in after the place p, before the block that follows.  *)
LEMMA InsertKeeps ==
  ASSUME NEW h \in HeapRecords, NEW F, Listed(h, F),
         NEW b \in Address \ F, NEW p \in F \cup {NULL}, p < b,
         NEW n, n = LinkAt(h, p), n = NULL \/ b < n,
         NEW i, i = SetNext([h EXCEPT !.next[b] = n], p, b)
  PROVE  /\ i \in HeapRecords
         /\ i.size = h.size
         /\ Listed(i, F \cup {b})
         /\ LinkAt(i, p) = b /\ LinkAt(i, b) = n
<1>0. /\ NULL = -1 /\ NULL \notin Address /\ F \subseteq Address
      /\ Address \subseteq Nat /\ b \in Address /\ b \in Nat
      /\ p \in F => p \in Address /\ p \in Nat
      /\ \A c \in F : c \in Nat
  BY Addresses DEF Listed
<1>1. /\ h.size \in [Address -> Nat]
      /\ h.next \in [Address -> Address \cup {NULL}]
      /\ h.first \in Address \cup {NULL}
      /\ h = [size |-> h.size, next |-> h.next, first |-> h.first]
  BY DEF HeapRecords
<1>2. n \in F \cup {NULL} /\ Follows(F, p, n)
  BY DEF Listed, Follows
<1>3. CASE p = NULL
  <2>1. i = [size |-> h.size, next |-> [h.next EXCEPT ![b] = n], first |-> b]
    BY <1>1, <1>3 DEF SetNext
  <2>2. /\ i.size = h.size /\ i.first = b
        /\ i.next \in [Address -> Address \cup {NULL}]
        /\ i.next[b] = n /\ \A a \in Address \ {b} : i.next[a] = h.next[a]
    BY <2>1, <1>0, <1>1, <1>2
  <2>3. /\ LinkAt(i, b) = n /\ LinkAt(i, NULL) = b
        /\ \A q \in F : LinkAt(i, q) = LinkAt(h, q)
    BY <2>2, <1>0 DEF LinkAt
  <2> QED
    <3>1. \A a \in Address \ (F \cup {b}) : i.next[a] = NULL
      BY <2>2 DEF Listed
    <3>2. Follows(F \cup {b}, NULL, b)
      BY <1>0, <1>2, <1>3 DEF Follows
    <3>3. Follows(F \cup {b}, b, n)
      BY <1>0, <1>2, <1>3 DEF Follows
    <3>4. ASSUME NEW q \in F PROVE Follows(F \cup {b}, q, LinkAt(h, q))
      <4>1. Follows(F, q, LinkAt(h, q))
        BY DEF Listed
      <4>2. q \in Nat /\ b < q
        BY <1>0, <1>2, <1>3 DEF Follows
      <4> QED BY <4>1, <4>2, <1>0 DEF Follows
    <3> QED BY <3>1, <3>2, <3>3, <3>4, <2>1, <2>2, <2>3, <1>0, <1>1, <1>3
            DEF Listed, HeapRecords
<1>4. CASE p # NULL
  <2>1. i = [size |-> h.size, next |-> [[h.next EXCEPT ![b] = n] EXCEPT ![p] = b],
             first |-> h.first]
    BY <1>1, <1>4 DEF SetNext
  <2>2. /\ i.size = h.size /\ i.first = h.first
        /\ i.next \in [Address -> Address \cup {NULL}]
        /\ i.next[b] = n /\ i.next[p] = b
        /\ \A a \in Address \ {b, p} : i.next[a] = h.next[a]
    BY <2>1, <1>0, <1>1, <1>2, <1>4
  <2>3. /\ LinkAt(i, b) = n /\ LinkAt(i, p) = b
        /\ \A q \in (F \cup {NULL}) \ {p} : LinkAt(i, q) = LinkAt(h, q)
    BY <2>2, <1>0, <1>4 DEF LinkAt
  <2> QED
    <3>1. \A a \in Address \ (F \cup {b}) : i.next[a] = NULL
      BY <2>2, <1>0, <1>4 DEF Listed
    <3>2. Follows(F \cup {b}, p, b)
      BY <1>0, <1>2, <1>4 DEF Follows
    <3>3. Follows(F \cup {b}, b, n)
      BY <1>0, <1>2, <1>4 DEF Follows
    <3>4. ASSUME NEW q \in (F \cup {NULL}) \ {p}
          PROVE  Follows(F \cup {b}, q, LinkAt(h, q))
      <4>1. Follows(F, q, LinkAt(h, q))
        BY DEF Listed
      <4>2. q \in Int /\ (q < p \/ b < q)
        BY <1>0, <1>2, <1>4 DEF Follows
      <4>3. CASE q < p
        BY <4>1, <4>2, <4>3, <1>0, <1>4 DEF Follows
      <4>4. CASE b < q
        BY <4>1, <4>2, <4>4, <1>0 DEF Follows
      <4> QED BY <4>2, <4>3, <4>4
    <3> QED BY <3>1, <3>2, <3>3, <3>4, <2>1, <2>2, <2>3, <1>0, <1>1, <1>4
            DEF Listed, HeapRecords
<1> QED BY <1>3, <1>4

(* Two neighbours on the list become one block.                            *)
Merged(h, m, F, B, end, b, c) ==
    /\ c \in F /\ b < c
    /\ Described(m, F \ {c}, B \ {c}, end)
    /\ m.size[b] = h.size[b] + h.size[c]
    /\ \A d \in B \ {b, c} : m.size[d] = h.size[d]
    /\ m.next[b] = h.next[c] /\ LinkAt(m, NULL) = LinkAt(h, NULL)

LEMMA MergeKeeps ==
  ASSUME NEW h, NEW F, NEW B, NEW end, Described(h, F, B, end),
         NEW b \in F, NEW c, c = h.next[b], Neighbours(h, b, c),
         NEW m, m = Merge(h, b, c)
  PROVE  Merged(h, m, F, B, end, b, c)
<1>0. /\ F \subseteq B /\ B \subseteq Address /\ B \subseteq Nat
      /\ F \subseteq Address /\ F \subseteq Nat
      /\ b \in B /\ b \in Nat /\ b \in Address
  BY Addresses DEF Described, Tiled
<1>1. /\ h.size \in [Address -> Nat]
      /\ h.next \in [Address -> Address \cup {NULL}]
      /\ h.first \in Address \cup {NULL}
      /\ h = [size |-> h.size, next |-> h.next, first |-> h.first]
  BY DEF HeapRecords, Described
<1>2. /\ c # NULL /\ b + h.size[b] = c
      /\ c \in F /\ b < c /\ \A d \in F : d <= b \/ c <= d
      /\ c \in Nat /\ c \in Address /\ c \in B
  <2>1. c # NULL /\ b + h.size[b] = c /\ b # NULL
    BY DEF Neighbours
  <2>2. Follows(F, b, c)
    BY <2>1 DEF Described, Listed, LinkAt
  <2> QED BY <2>1, <2>2, <1>0 DEF Follows
<1>3. m = [size  |-> [[h.size EXCEPT ![b] = @ + h.size[c]] EXCEPT ![c] = 0],
           next  |-> [[h.next EXCEPT ![b] = h.next[c]] EXCEPT ![c] = NULL],
           first |-> h.first]
  BY <1>1 DEF Merge
<1>4. /\ m.first = h.first
      /\ m.size \in [Address -> Nat]
      /\ m.size[b] = h.size[b] + h.size[c] /\ m.size[c] = 0
      /\ \A a \in Address \ {b, c} : m.size[a] = h.size[a]
      /\ m.next \in [Address -> Address \cup {NULL}]
      /\ m.next[b] = h.next[c] /\ m.next[c] = NULL
      /\ \A a \in Address \ {b, c} : m.next[a] = h.next[a]
  BY <1>0, <1>1, <1>2, <1>3
<1>5. m \in HeapRecords
  BY <1>1, <1>3, <1>4 DEF HeapRecords
<1>6. Listed(m, F \ {c})
  <2>1. ASSUME NEW q \in (F \ {c}) \cup {NULL}
        PROVE  Follows(F \ {c}, q, LinkAt(m, q))
    <3>1. CASE q = b
      <4>1. Follows(F, c, h.next[c]) /\ LinkAt(m, b) = h.next[c]
        BY <1>2, <1>4, <1>0, Addresses DEF Described, Listed, LinkAt
      <4>2. ASSUME NEW d \in F \ {c}
            PROVE  d \in Nat /\ (d <= b \/ c < d)
        <5>1. d \in Nat /\ c \in Nat /\ b \in Nat /\ d # c
          BY <1>0, <1>2
        <5>2. d <= b \/ c <= d
          BY <1>2
        <5> QED BY <5>1, <5>2
      <4>3. CASE h.next[c] = NULL
        BY <3>1, <4>1, <4>2, <4>3, <1>0, <1>2 DEF Follows
      <4>4. CASE h.next[c] # NULL
        <5>1. /\ h.next[c] \in F /\ c < h.next[c] /\ h.next[c] \in Nat
              /\ \A d \in F : d <= c \/ h.next[c] <= d
          BY <4>1, <4>4, <1>0 DEF Follows
        <5>2. \A d \in F \ {c} : d <= b \/ h.next[c] <= d
          BY <4>2, <5>1, <1>2
        <5> QED BY <3>1, <4>1, <4>4, <5>1, <5>2, <1>0, <1>2 DEF Follows
      <4> QED BY <4>3, <4>4
    <3>2. CASE q # b
      <4>1. LinkAt(m, q) = LinkAt(h, q)
        BY <3>2, <1>0, <1>4 DEF LinkAt
      <4>2. Follows(F, q, LinkAt(h, q))
        BY DEF Described, Listed
      <4>3. LinkAt(h, q) # c
        <5>1. q \in Int /\ (q < b \/ c < q)
          BY <3>2, <1>0, <1>2, Addresses
        <5> QED BY <4>2, <5>1, <1>0, <1>2, Addresses DEF Follows
      <4> QED BY <4>1, <4>2, <4>3 DEF Follows
    <3> QED BY <3>1, <3>2
  <2>2. \A a \in Address \ (F \ {c}) : m.next[a] = NULL
    BY <1>0, <1>4 DEF Described, Listed
  <2> QED BY <2>1, <2>2, <1>0 DEF Listed
<1>7. Tiled(m, B \ {c}, end)
  <2>0. Tiled(h, B, end) /\ end \in Nat
    BY Addresses DEF Described, Tiled
  <2>1. 0 \in B \ {c} /\ B \ {c} \subseteq 0 .. end - 1
    <3>1. c # 0 /\ 0 \in B /\ B \subseteq 0 .. end - 1
      BY <1>0, <1>2, <2>0 DEF Tiled
    <3> QED BY <3>1
  <2>2. ASSUME NEW d \in B \ {c}
        PROVE  m.size[d] > 0 /\ d + m.size[d] \in (B \ {c}) \cup {end}
    <3>1. CASE d = b
      <4>1. c + h.size[c] \in B \cup {end} /\ h.size[c] > 0 /\ h.size[b] > 0
        BY <1>0, <1>2, <2>0 DEF Tiled
      <4>2. h.size[b] \in Nat /\ h.size[c] \in Nat
        BY <1>0, <1>1, <1>2
      <4>3. b + m.size[b] = c + h.size[c] /\ c + h.size[c] # c /\ m.size[b] > 0
        BY <1>2, <1>0, <1>4, <4>1, <4>2
      <4> QED BY <3>1, <4>1, <4>3
    <3>2. CASE d # b
      <4>1. /\ m.size[d] = h.size[d] /\ h.size[d] \in Nat /\ d \in Nat
            /\ h.size[d] > 0 /\ d + h.size[d] \in B \cup {end}
        BY <3>2, <1>0, <1>1, <1>4, <2>0 DEF Tiled
      <4>2. d < b => d + h.size[d] <= b
        BY <1>0, <2>0 DEF Tiled
      <4>3. b < d => c <= d
        BY <1>0, <1>2, <2>0 DEF Tiled
      <4>4. d + h.size[d] # c
        BY <4>1, <4>2, <4>3, <3>2, <1>0, <1>2
      <4> QED BY <4>1, <4>4
    <3> QED BY <3>1, <3>2
  <2>3. ASSUME NEW d \in B \ {c}, NEW e \in B \ {c}, d < e
        PROVE  d + m.size[d] <= e
    <3>0. d + h.size[d] <= e /\ d \in Nat /\ e \in Nat
      BY <2>3, <2>0, <1>0 DEF Tiled
    <3>1. CASE d = b
      <4>1. c < e
        BY <3>0, <3>1, <2>3, <1>2
      <4>2. c + h.size[c] <= e
        BY <4>1, <2>0, <1>2 DEF Tiled
      <4>3. h.size[b] \in Nat /\ h.size[c] \in Nat
        BY <1>0, <1>1, <1>2
      <4> QED BY <3>1, <4>2, <4>3, <1>0, <1>2, <1>4
    <3>2. CASE d # b
      BY <3>0, <3>2, <1>0, <1>4
    <3> QED BY <3>1, <3>2
  <2>4. \A a \in Address \ (B \ {c}) : a = end \/ m.size[a] = 0
    BY <2>0, <1>0, <1>4 DEF Tiled
  <2> QED BY <2>0, <2>1, <2>2, <2>3, <2>4 DEF Tiled
<1>8. F \ {c} \subseteq B \ {c}
  BY <1>0
<1>9. \A d \in B \ {b, c} : m.size[d] = h.size[d]
  BY <1>0, <1>4
<1> QED BY <1>2, <1>4, <1>5, <1>6, <1>7, <1>8, <1>9 DEF Merged, Described, LinkAt

(* A block that fits exactly leaves the list.                              *)
LEMMA TakeKeeps ==
  ASSUME NEW h, NEW F, NEW B, NEW end, Described(h, F, B, end),
         NEW b \in F, NEW p \in F \cup {NULL}, LinkAt(h, p) = b,
         NEW r, r = AllocateBlock(h, p, b, h.size[b])
  PROVE  /\ Described(r, F \ {b}, B, end)
         /\ r.size = h.size
<1>0. /\ F \subseteq Address /\ F \subseteq Nat /\ b \in Nat /\ b \in Address
      /\ NULL = -1 /\ NULL \notin Address
  BY Addresses DEF Described, Listed
<1>1. /\ h.next \in [Address -> Address \cup {NULL}]
      /\ h.first \in Address \cup {NULL}
      /\ h.size \in [Address -> Nat]
      /\ h = [size |-> h.size, next |-> h.next, first |-> h.first]
  BY DEF HeapRecords, Described
<1>2. /\ p < b /\ \A c \in F : c <= p \/ b <= c
      /\ Follows(F, b, h.next[b])
      /\ p \in Int
  BY <1>0 DEF Described, Listed, Follows, LinkAt
<1>3. /\ r.size = h.size
      /\ r \in HeapRecords
      /\ r.next[b] = NULL
      /\ LinkAt(r, p) = h.next[b]
      /\ \A q \in (Address \cup {NULL}) \ {p, b} : LinkAt(r, q) = LinkAt(h, q)
  <2>1. CASE p = NULL
    <3>1. r = [size |-> h.size, next |-> [h.next EXCEPT ![b] = NULL],
               first |-> h.next[b]]
      BY <1>0, <1>1, <2>1 DEF AllocateBlock, Carve, SetNext
    <3>2. /\ r.size = h.size /\ r.first = h.next[b] /\ r.next[b] = NULL
          /\ r.next \in [Address -> Address \cup {NULL}]
          /\ \A a \in Address \ {b} : r.next[a] = h.next[a]
      BY <3>1, <1>0, <1>1
    <3> QED BY <2>1, <3>1, <3>2, <1>0, <1>1 DEF LinkAt, HeapRecords
  <2>2. CASE p # NULL
    <3>1. r = [size |-> h.size,
               next |-> [[h.next EXCEPT ![p] = h.next[b]] EXCEPT ![b] = NULL],
               first |-> h.first]
      BY <1>0, <1>1, <2>2 DEF AllocateBlock, Carve, SetNext
    <3>2. /\ r.size = h.size /\ r.first = h.first /\ r.next[b] = NULL
          /\ r.next[p] = h.next[b]
          /\ r.next \in [Address -> Address \cup {NULL}]
          /\ \A a \in Address \ {b, p} : r.next[a] = h.next[a]
      BY <3>1, <1>0, <1>1, <1>2, <2>2
    <3> QED BY <2>2, <3>1, <3>2, <1>0, <1>1 DEF LinkAt, HeapRecords
  <2> QED BY <2>1, <2>2
<1>4. Listed(r, F \ {b})
  <2>1. ASSUME NEW q \in (F \ {b}) \cup {NULL}
        PROVE  Follows(F \ {b}, q, LinkAt(r, q))
    <3>1. CASE q = p
      <4>1. LinkAt(r, q) = h.next[b]
        BY <3>1, <1>3
      <4>2. \A c \in F \ {b} : c \in Nat /\ (c <= p \/ b < c)
        BY <1>0, <1>2
      <4>3. CASE h.next[b] = NULL
        BY <4>1, <4>2, <4>3, <3>1, <1>0, <1>2 DEF Follows
      <4>4. CASE h.next[b] # NULL
        <5>1. /\ h.next[b] \in F /\ b < h.next[b] /\ h.next[b] \in Nat
              /\ \A c \in F : c <= b \/ h.next[b] <= c
          BY <1>2, <4>4, <1>0 DEF Follows
        <5>2. ASSUME NEW c \in F \ {b} PROVE c <= p \/ h.next[b] <= c
          <6>1. c <= p \/ (b < c /\ (c <= b \/ h.next[b] <= c))
            BY <4>2, <5>1
          <6>2. c \in Nat
            BY <1>0
          <6> QED BY <6>1, <6>2, <1>0
        <5> QED BY <3>1, <4>1, <4>4, <5>1, <5>2, <1>0, <1>2 DEF Follows
      <4> QED BY <4>3, <4>4
    <3>2. CASE q # p
      <4>1. LinkAt(r, q) = LinkAt(h, q)
        BY <3>2, <1>0, <1>3
      <4>2. Follows(F, q, LinkAt(h, q))
        BY DEF Described, Listed
      <4>3. LinkAt(h, q) # b
        <5>1. q \in Int /\ (q < p \/ b < q)
          <6>1. CASE q = NULL
            BY <3>2, <6>1, <1>0
          <6>2. CASE q # NULL
            <7>1. q \in Nat /\ q # b /\ (q <= p \/ b <= q)
              BY <6>2, <1>0, <1>2
            <7> QED BY <7>1, <3>2, <1>0, <1>2
          <6> QED BY <6>1, <6>2
        <5> QED BY <4>2, <5>1, <1>0, <1>2 DEF Follows
      <4> QED BY <4>1, <4>2, <4>3 DEF Follows
    <3> QED BY <3>1, <3>2
  <2>2. \A a \in Address \ (F \ {b}) : r.next[a] = NULL
    <3>1. \A a \in Address \ F : a # p /\ r.next[a] = h.next[a]
      BY <1>0, <1>3 DEF LinkAt
    <3> QED BY <3>1, <1>3 DEF Described, Listed
  <2> QED BY <2>1, <2>2, <1>0 DEF Listed
<1>5. Tiled(r, B, end)
  BY <1>3 DEF Described, Tiled
<1> QED BY <1>3, <1>4, <1>5 DEF Described

(* A larger block is split, and its upper part takes its place.            *)
LEMMA SplitKeeps ==
  ASSUME NEW h, NEW F, NEW B, NEW end, Described(h, F, B, end),
         NEW b \in F, NEW p \in F \cup {NULL}, LinkAt(h, p) = b,
         NEW n \in Nat \ {0}, n < h.size[b],
         NEW r, r = AllocateBlock(h, p, b, n)
  PROVE  /\ b + n \notin B
         /\ Described(r, (F \ {b}) \cup {b + n}, B \cup {b + n}, end)
         /\ r.size[b] = n /\ r.size[b + n] = h.size[b] - n
         /\ \A c \in B \ {b} : r.size[c] = h.size[c]
<1> DEFINE u == b + n
<1>0. /\ F \subseteq B /\ B \subseteq Address /\ B \subseteq Nat
      /\ F \subseteq Address /\ F \subseteq Nat
      /\ b \in B /\ b \in Nat /\ b \in Address
      /\ NULL = -1 /\ NULL \notin Address
      /\ Tiled(h, B, end) /\ end \in Nat
  BY Addresses DEF Described, Tiled
<1>1. /\ h.next \in [Address -> Address \cup {NULL}]
      /\ h.first \in Address \cup {NULL}
      /\ h.size \in [Address -> Nat]
      /\ h = [size |-> h.size, next |-> h.next, first |-> h.first]
      /\ h.size[b] \in Nat
  BY <1>0 DEF HeapRecords, Described
<1>2. /\ p < b /\ \A c \in F : c <= p \/ b <= c
      /\ Follows(F, b, h.next[b])
      /\ p \in Int
  BY <1>0 DEF Described, Listed, Follows, LinkAt
<1>3. /\ u \in Nat /\ b < u /\ u < end /\ u \in Address /\ u \notin B
      /\ u < b + h.size[b]
      /\ \A c \in B : c <= b \/ u < c
  <2>1. u \in Nat /\ b < u /\ u < b + h.size[b]
    BY <1>0, <1>1
  <2>2. b + h.size[b] <= end /\ end <= 2 * HEAP_SIZE
    <3>1. b + h.size[b] \in B \cup {end} /\ B \subseteq 0 .. end - 1 /\ end <= 2 * HEAP_SIZE
      BY <1>0, Addresses DEF Tiled
    <3>2. \A c \in B \cup {end} : c <= end
      BY <3>1, <1>0
    <3> QED BY <3>1, <3>2
  <2>3. \A c \in B : c <= b \/ u < c
    <3> SUFFICES ASSUME NEW c \in B, b < c PROVE u < c
      BY <1>0
    <3>1. b + h.size[b] <= c /\ c \in Nat
      BY <1>0 DEF Tiled
    <3> QED BY <3>1, <2>1, <1>0, <1>1
  <2>4. u < end /\ u < 2 * HEAP_SIZE
    BY <2>1, <2>2, <1>0, <1>1, Addresses
  <2>5. u \in Address /\ u \notin B
    <3> HIDE DEF u
    <3> QED BY <2>1, <2>3, <2>4, <1>0, Addresses
  <2> QED BY <2>1, <2>3, <2>4, <2>5
<1>4. u # b /\ u # p /\ p # b
  BY <1>0, <1>2, <1>3
<1>5. /\ r.size[b] = n /\ r.size[u] = h.size[b] - n
      /\ \A a \in Address \ {b, u} : r.size[a] = h.size[a]
      /\ r \in HeapRecords
      /\ r.next[b] = NULL
      /\ LinkAt(r, p) = u
      /\ LinkAt(r, u) = h.next[b]
      /\ \A q \in (Address \cup {NULL}) \ {p, b, u} : LinkAt(r, q) = LinkAt(h, q)
  <2>0. h.size[b] # n
    BY <1>1
  <2> HIDE DEF u
  <2> DEFINE sizes == [[h.size EXCEPT ![u] = h.size[b] - n] EXCEPT ![b] = n]
  <2>1. /\ sizes \in [Address -> Nat]
        /\ sizes[b] = n /\ sizes[u] = h.size[b] - n
        /\ \A a \in Address \ {b, u} : sizes[a] = h.size[a]
    <3>1. h.size[b] - n \in Nat
      BY <1>1
    <3> QED BY <3>1, <1>0, <1>1, <1>3, <1>4
  <2>2. CASE p = NULL
    <3>1. r = [size |-> sizes,
               next |-> [[h.next EXCEPT ![u] = h.next[b]] EXCEPT ![b] = NULL],
               first |-> u]
      BY <1>0, <1>1, <1>4, <2>0, <2>2 DEF AllocateBlock, Carve, SetNext, u
    <3> HIDE DEF sizes
    <3>2. /\ r.size = sizes /\ r.first = u /\ r.next[b] = NULL
          /\ r.next \in [Address -> Address \cup {NULL}]
          /\ r.next[u] = h.next[b]
          /\ \A a \in Address \ {b, u} : r.next[a] = h.next[a]
      BY <3>1, <1>0, <1>1, <1>3, <1>4
    <3> QED BY <2>1, <2>2, <3>1, <3>2, <1>0, <1>1, <1>3 DEF LinkAt, HeapRecords
  <2>3. CASE p # NULL
    <3>1. r = [size |-> sizes,
               next |-> [[[h.next EXCEPT ![u] = h.next[b]] EXCEPT ![p] = u]
                           EXCEPT ![b] = NULL],
               first |-> h.first]
      BY <1>0, <1>1, <1>4, <2>0, <2>3 DEF AllocateBlock, Carve, SetNext, u
    <3> HIDE DEF sizes
    <3>2. /\ r.size = sizes /\ r.first = h.first /\ r.next[b] = NULL
          /\ r.next \in [Address -> Address \cup {NULL}]
          /\ r.next[u] = h.next[b] /\ r.next[p] = u
          /\ \A a \in Address \ {b, u, p} : r.next[a] = h.next[a]
      BY <3>1, <1>0, <1>1, <1>3, <1>4, <2>3
    <3> QED BY <2>1, <2>3, <3>1, <3>2, <1>0, <1>1, <1>3 DEF LinkAt, HeapRecords
  <2> QED BY <2>2, <2>3
<1>6. Listed(r, (F \ {b}) \cup {u})
  <2> HIDE DEF u
  <2>0. \A c \in F \ {b} : c \in Nat /\ (c <= p \/ u < c) /\ c # u
    BY <1>0, <1>2, <1>3
  <2>1. ASSUME NEW q \in (F \ {b}) \cup {u, NULL}
        PROVE  Follows((F \ {b}) \cup {u}, q, LinkAt(r, q))
    <3>1. CASE q = p
      BY <3>1, <2>0, <1>0, <1>2, <1>3, <1>5 DEF Follows
    <3>2. CASE q = u
      <4>1. LinkAt(r, q) = h.next[b]
        BY <3>2, <1>5
      <4>2. CASE h.next[b] = NULL
        <5>1. \A c \in (F \ {b}) \cup {u} : c <= u
          BY <4>2, <1>0, <1>2, <1>3 DEF Follows
        <5> QED BY <3>2, <4>1, <4>2, <5>1 DEF Follows
      <4>3. CASE h.next[b] # NULL
        <5>1. /\ h.next[b] \in F /\ b < h.next[b] /\ h.next[b] \in Nat
              /\ \A c \in F : c <= b \/ h.next[b] <= c
          BY <1>2, <4>3, <1>0 DEF Follows
        <5>2. u < h.next[b] /\ h.next[b] # b
          BY <5>1, <1>0, <1>3
        <5>3. \A c \in (F \ {b}) \cup {u} : c <= u \/ h.next[b] <= c
          BY <5>1, <1>0, <1>3
        <5> QED BY <3>2, <4>1, <4>3, <5>1, <5>2, <5>3 DEF Follows
      <4> QED BY <4>2, <4>3
    <3>3. CASE q # p /\ q # u
      <4>1. LinkAt(r, q) = LinkAt(h, q) /\ q \in (F \ {b}) \cup {NULL}
        BY <3>3, <1>0, <1>5
      <4>2. Follows(F, q, LinkAt(h, q))
        BY <4>1 DEF Described, Listed
      <4>3. q \in Int /\ (q < p \/ u < q)
        BY <3>3, <4>1, <2>0, <1>0, <1>2
      <4>4. LinkAt(h, q) # b
        BY <4>2, <4>3, <1>0, <1>2, <1>3 DEF Follows
      <4>5. CASE u < q
        BY <4>1, <4>2, <4>4, <4>5, <4>3, <1>3 DEF Follows
      <4>6. CASE q < p
        <5>0. p \in F
          BY <4>1, <4>6, <1>0
        <5>1. /\ LinkAt(h, q) \in F /\ LinkAt(h, q) <= p /\ q < LinkAt(h, q)
              /\ LinkAt(h, q) # NULL
          <6>1. LinkAt(h, q) # NULL
            BY <5>0, <4>2, <4>3, <4>6, <1>0 DEF Follows
          <6>2. /\ LinkAt(h, q) \in F /\ q < LinkAt(h, q)
                /\ p <= q \/ LinkAt(h, q) <= p
            BY <5>0, <6>1, <4>2 DEF Follows
          <6> QED BY <6>1, <6>2, <4>3, <4>6, <5>0, <1>0
        <5>2. LinkAt(h, q) <= u /\ LinkAt(h, q) # NULL
          <6>1. LinkAt(h, q) \in Nat /\ p \in Nat
            BY <5>0, <5>1, <1>0
          <6> QED BY <6>1, <5>1, <1>0, <1>2, <1>3
        <5> QED BY <4>1, <4>2, <4>4, <5>1, <5>2 DEF Follows
      <4> QED BY <4>3, <4>5, <4>6
    <3> QED BY <3>1, <3>2, <3>3
  <2>2. \A a \in Address \ ((F \ {b}) \cup {u}) : r.next[a] = NULL
    <3>1. \A a \in Address \ (F \cup {u}) : a # p /\ r.next[a] = h.next[a]
      BY <1>0, <1>5 DEF LinkAt
    <3> QED BY <3>1, <1>5 DEF Described, Listed
  <2> QED BY <2>1, <2>2, <1>0, <1>3 DEF Listed
<1>7. Tiled(r, B \cup {u}, end)
  <2> HIDE DEF u
  <2>1. 0 \in B \cup {u} /\ B \cup {u} \subseteq 0 .. end - 1
        /\ end \in 0 .. 2 * HEAP_SIZE
    BY <1>0, <1>3 DEF Tiled
  <2>2. ASSUME NEW d \in B \cup {u}
        PROVE  r.size[d] > 0 /\ d + r.size[d] \in B \cup {u} \cup {end}
    <3>1. CASE d = b
      BY <3>1, <1>5 DEF u
    <3>2. CASE d = u
      <4>1. u + r.size[u] = b + h.size[b] /\ r.size[u] > 0
        BY <1>0, <1>1, <1>5 DEF u
      <4>2. b + h.size[b] \in B \cup {end}
        BY <1>0 DEF Tiled
      <4> QED BY <3>2, <4>1, <4>2
    <3>3. CASE d # b /\ d # u
      <4>1. r.size[d] = h.size[d] /\ d \in B
        BY <3>3, <1>0, <1>5
      <4> QED BY <4>1, <1>0 DEF Tiled
    <3> QED BY <3>1, <3>2, <3>3
  <2>3. ASSUME NEW d \in B \cup {u}, NEW e \in B \cup {u}, d < e
        PROVE  d + r.size[d] <= e
    <3>1. CASE d = b
      <4>1. b + n = u /\ (e = u \/ u < e) /\ e \in Nat
        <5>1. e # u => e \in Nat /\ (e <= b \/ u < e)
          BY <1>0, <1>3
        <5>2. b + n = u
          BY DEF u
        <5> QED BY <5>1, <5>2, <2>3, <3>1, <1>0, <1>3
      <4> QED BY <3>1, <4>1, <1>3, <1>5
    <3>2. CASE d = u
      <4>1. e \in B /\ b < e
        BY <2>3, <3>2, <1>0, <1>3
      <4>2. b + h.size[b] <= e
        BY <4>1, <1>0 DEF Tiled
      <4> QED BY <3>2, <4>2, <1>0, <1>1, <1>5 DEF u
    <3>3. CASE d # b /\ d # u
      <4>1. r.size[d] = h.size[d] /\ d \in B /\ d \in Nat /\ h.size[d] \in Nat
        BY <3>3, <1>0, <1>1, <1>5
      <4>2. CASE e = u
        <5>1. d < b
          BY <2>3, <3>3, <4>1, <4>2, <1>0, <1>3
        <5>2. d + h.size[d] <= b
          BY <4>1, <5>1, <1>0 DEF Tiled
        <5> QED BY <4>1, <4>2, <5>2, <1>0, <1>3
      <4>3. CASE e # u
        BY <2>3, <4>1, <4>3, <1>0 DEF Tiled
      <4> QED BY <4>2, <4>3
    <3> QED BY <3>1, <3>2, <3>3
  <2>4. \A a \in Address \ (B \cup {u}) : a = end \/ r.size[a] = 0
    BY <1>0, <1>5 DEF Tiled
  <2> QED BY <2>1, <2>2, <2>3, <2>4 DEF Tiled
<1>8. \A c \in B \ {b} : r.size[c] = h.size[c]
  BY <1>0, <1>3, <1>5
<1>9. (F \ {b}) \cup {u} \subseteq B \cup {u}
  BY <1>0
<1> QED BY <1>3, <1>5, <1>6, <1>7, <1>8, <1>9 DEF Described

-----------------------------------------------------------------------------
(* What a thread knows, at a label with locals l.  The place that it has   *)
(* reached in the list h, whose blocks are F:                              *)
Place(l, h, F) == /\ l.prev \in F \cup {NULL}
                  /\ l.cur = LinkAt(h, l.prev)

(* the first of the smallest blocks that fit, among those up to the place; *)
Searched(l, h, F) ==
    IF l.best = NULL
      THEN \A c \in F : c <= l.prev => h.size[c] < l.size
      ELSE /\ l.best \in F /\ l.best <= l.prev /\ h.size[l.best] >= l.size
           /\ l.bestPrev \in F \cup {NULL} /\ LinkAt(h, l.bestPrev) = l.best
           /\ \A c \in F : c <= l.prev /\ h.size[c] >= l.size =>
                 \/ h.size[l.best] < h.size[c]
                 \/ h.size[l.best] = h.size[c] /\ l.best <= c

(* the block that an extension added, and where a dump is.                 *)
Knows(label, l, h, F, B) ==
    /\ Resuming(label, l) = "m_search" => Place(l, h, F) /\ Searched(l, h, F)
    /\ label = "m_insert" => /\ Place(l, h, F) /\ l.prev < l.block
                             /\ l.block = HEAP_SIZE
                             /\ h.size[HEAP_SIZE] = HEAP_SIZE
                             /\ \A c \in F : h.size[c] < l.size
    /\ label = "f_walk" => Place(l, h, F) /\ l.prev < l.block
    /\ label = "d_walk" => l.pos \in B
    /\ label = "d_list" => l.pos \in F \cup {NULL}
    /\ l.retry > 0 /\ l.block = NULL => /\ HEAP_SIZE \in F
                                        /\ h.size[HEAP_SIZE] = HEAP_SIZE

(* The request it works on, which needs no look at the heap: a retry asks  *)
(* for a block for a block, and there is one retry at most.                *)
MallocLabels == {"m_lock", "m_search", "m_insert", "m_retry"}

Asks(at, l) == /\ l.ask \in Requests /\ BlockSize(l.ask) <= HEAP_SIZE
               /\ l.size = IF l.retry = 0 \/ at = "m_retry"
                             THEN BlockSize(l.ask)
                             ELSE BlockSize(BlockSize(l.ask))
               /\ l.size <= HEAP_SIZE
               /\ at # "m_insert" => l.block = NULL

Works(label, l) ==
    /\ l \in LocalsType
    /\ label = "idle" => l.block = NULL
    /\ label \in {"f_lock", "f_walk"} => l.block # NULL
    /\ Resuming(label, l) \in MallocLabels => Asks(Resuming(label, l), l)
    /\ label = "m_insert" => l.retry = 0
    /\ l.retry \in {0, 1}
    /\ l.retry = 1 => \/ Resuming(label, l) \in {"m_lock", "m_search", "m_retry"}
                      \/ Resuming(label, l) = "m_unlock" /\ l.block # NULL

(* The allocated block that it is about to return, or to free.             *)
Claim(label, l) == IF label = "m_insert" THEN {} ELSE {l.block} \ {NULL}

(* Each allocated block is the application's or one thread's.              *)
Owned == /\ live \in [DOMAIN live -> Requests]
         /\ held \subseteq DOMAIN live
         /\ \A t \in Threads : Claim(pc[t], loc[t]) \subseteq DOMAIN live \ held
         /\ \A t, u \in Threads :
               t # u => Claim(pc[t], loc[t]) \cap Claim(pc[u], loc[u]) = {}

(* The heap is extended once; a second extension kills the program.        *)
Extent ==
    /\ reserved \in Nat /\ crashed \in BOOLEAN /\ debug \in BOOLEAN
    /\ IF crashed
         THEN \/ heapSize = 2 * HEAP_SIZE /\ brk = HEAP_SIZE
              \/ heapSize = 3 * HEAP_SIZE /\ brk = 2 * HEAP_SIZE
         ELSE \/ heapSize = HEAP_SIZE /\ brk = HEAP_SIZE /\ reserved = HEAP_SIZE
              \/ /\ heapSize = 2 * HEAP_SIZE /\ brk = 2 * HEAP_SIZE
                 /\ reserved = 3 * HEAP_SIZE
    /\ \A t \in Threads : pc[t] = "m_insert" => heapSize = 2 * HEAP_SIZE

(* The inductive invariant of the heap.                                    *)
MemoryInv ==
    /\ LockInv
    /\ Described(heap, FreeSet, BlockSet, HeapEnd)
    /\ DOMAIN live = BlockSet \ FreeSet
    /\ Extent
    /\ Owned
    /\ \A t \in Threads : /\ Works(pc[t], loc[t])
                           /\ Knows(pc[t], loc[t], heap, FreeSet, BlockSet)

-----------------------------------------------------------------------------
(* The heap of blocks that the threads share, with what is proved of it    *)
(* and of the arithmetic of my_malloc.                                     *)
Proved == INSTANCE HeapBlocks_proofs WITH
            MaxHeap  <- 2 * HEAP_SIZE,
            size     <- [b \in BlockSet |-> heap.size[b]],
            free     <- FreeSet,
            live     <- live,
            heapSize <- HeapEnd,
            seams    <- IF HeapEnd > HEAP_SIZE THEN {HEAP_SIZE} ELSE {},
            pending  <- PendingAsk

LEMMA BlockSizeIs ==
  ASSUME NEW n \in 0 .. (WORD - 2 * HEADER_SIZE)
  PROVE  /\ BlockSize(n) \in Nat
         /\ BlockSize(n) >= HEADER_SIZE + n
<1>1. Proved!BlockSize(n) = BlockSize(n)
  BY DEF Proved!BlockSize, BlockSize, Proved!RoundUp, RoundUp, Proved!Wrap, Wrap
<1>2. Proved!Aligned(HEAP_SIZE) /\ 2 * HEAP_SIZE \in Nat
  BY HeapAssumption DEF Aligned, Proved!Aligned
<1>3. /\ Proved!BlockSize(n) \in Nat
      /\ Proved!BlockSize(n) >= HEADER_SIZE + n
  BY <1>2, Proved!BlockSizeCorrect, HeapAssumption, RequestAssumption,
     HeaderAssumption, WordAssumption
<1> QED BY <1>1, <1>3

LEMMA RequestSize ==
  ASSUME NEW r \in Requests
  PROVE  /\ BlockSize(r) \in Nat \ {0}
         /\ BlockSize(r) <= HEAP_SIZE => BlockSize(BlockSize(r)) \in Nat \ {0}
<1>1. r \in 0 .. (WORD - 2 * HEADER_SIZE)
  BY RequestAssumption
<1>2. BlockSize(r) \in Nat /\ BlockSize(r) >= HEADER_SIZE + r
  BY <1>1, BlockSizeIs
<1>3. ASSUME BlockSize(r) <= HEAP_SIZE
      PROVE  BlockSize(BlockSize(r)) \in Nat \ {0}
  <2>1. BlockSize(r) \in 0 .. (WORD - 2 * HEADER_SIZE)
    BY <1>2, <1>3, HeapAssumption, HeaderAssumption, WordAssumption
  <2>2. /\ BlockSize(BlockSize(r)) \in Nat
        /\ BlockSize(BlockSize(r)) >= HEADER_SIZE + BlockSize(r)
    BY <2>1, BlockSizeIs
  <2> QED BY <1>1, <1>2, <2>2, HeaderAssumption, WordAssumption
<1> QED BY <1>1, <1>2, <1>3, HeaderAssumption, WordAssumption

(* While one thread holds the mutex, the others know nothing of the heap   *)
(* and so rely on nothing.                                                 *)
LEMMA Sole ==
  ASSUME LockInv, NEW t \in Threads, Holds(t) > 0,
         NEW u \in Threads, u # t
  PROVE  /\ loc[u].retry = 0
         /\ pc[u] # "m_insert"
         /\ \A h, F, B : Knows(pc[u], loc[u], h, F, B)
<1>1. mutex.owner = t
  BY DEF LockInv, MutexBalanced
<1>2. Holds(u) = 0
  BY <1>1 DEF LockInv, MutexBalanced
<1>3. Locks(pc[u], loc[u]) = 0 /\ Shape(pc[u], loc[u])
  BY <1>2, HoldsLocks DEF LockInv, ThreadShape
<1>4. /\ loc[u].retry = 0
      /\ Resuming(pc[u], loc[u]) \notin {"m_search", "m_insert", "f_walk"}
      /\ pc[u] \notin {"d_walk", "d_list"}
  BY <1>3 DEF Locks, Shape
<1>5. pc[u] \notin {"m_insert", "f_walk"}
  BY <1>4 DEF Resuming, Waiting
<1> QED BY <1>4, <1>5 DEF Knows

(* The effect of a step of one thread: what it has to establish.           *)
LEMMA Kept ==
  ASSUME MemoryInv, LockInv',
         NEW t \in Threads, NEW r, NEW label \in Labels,
         loc' = [loc EXCEPT ![t] = r], Goto(t, label),
         NEW F, NEW B, Described(heap', F, B, HeapEnd'),
         DOMAIN live' = B \ F,
         Extent', Owned',
         Works(label, r), Knows(label, r, heap', F, B),
         \/ Holds(t) > 0
         \/ heap' = heap /\ F = FreeSet /\ B = BlockSet
  PROVE  MemoryInv' /\ FreeSet' = F /\ BlockSet' = B
<1>1. /\ \A u \in Threads : u # t => pc'[u] = pc[u] /\ loc'[u] = loc[u]
      /\ pc'[t] = label /\ loc'[t] = r
  BY DEF MemoryInv, LockInv, Goto
<1>2. FreeSet' = F
  <2>1. ListOf(heap') = F
    BY ListIs DEF Described
  <2> QED BY <2>1 DEF FreeSet
<1>3. BlockSet' = B
  <2>1. BlocksOf(heap', HeapEnd') = B
    BY BlocksAre DEF Described
  <2> QED BY <2>1 DEF BlockSet
<1>4. ASSUME NEW u \in Threads
      PROVE  Works(pc'[u], loc'[u]) /\ Knows(pc'[u], loc'[u], heap', F, B)
  <2>1. CASE u = t
    BY <2>1, <1>1
  <2>2. CASE u # t
    <3>1. Works(pc[u], loc[u]) /\ Knows(pc[u], loc[u], heap, FreeSet, BlockSet)
      BY DEF MemoryInv
    <3>2. Holds(t) > 0 => Knows(pc[u], loc[u], heap', F, B)
      BY <2>2, Sole DEF MemoryInv
    <3> QED BY <3>1, <3>2, <2>2, <1>1
  <2> QED BY <2>1, <2>2
<1> QED BY <1>2, <1>3, <1>4 DEF MemoryInv

(* The claims of the other threads stand when the thread only moves.       *)
LEMMA ClaimsKept ==
  ASSUME MemoryInv, NEW t \in Threads, NEW r, NEW label \in Labels,
         loc' = [loc EXCEPT ![t] = r], Goto(t, label),
         live' = live, held' = held,
         Claim(label, r) = Claim(pc[t], loc[t])
  PROVE  Owned'
<1>1. \A u \in Threads : Claim(pc'[u], loc'[u]) = Claim(pc[u], loc[u])
  BY DEF MemoryInv, LockInv, Goto
<1> QED BY <1>1 DEF MemoryInv, Owned

(* Steps that leave the memory alone: nothing changes for the blocks.      *)
Still == /\ FreeSet' = FreeSet /\ BlockSet' = BlockSet /\ HeapEnd' = HeapEnd
         /\ heap' = heap /\ live' = live

LEMMA Quiet ==
  ASSUME MemoryInv, LockInv',
         NEW t \in Threads, NEW r, NEW label \in Labels,
         loc' = [loc EXCEPT ![t] = r], Goto(t, label),
         UNCHANGED memVars, live' = live, debug' \in BOOLEAN,
         label = "m_insert" <=> pc[t] = "m_insert",
         Owned', Works(label, r),
         Knows(label, r, heap, FreeSet, BlockSet)
  PROVE  MemoryInv' /\ Still
<1>1. /\ \A u \in Threads : u # t => pc'[u] = pc[u] /\ loc'[u] = loc[u]
      /\ pc'[t] = label /\ loc'[t] = r
  BY DEF MemoryInv, LockInv, Goto
<1>2. \A u \in Threads : pc'[u] = "m_insert" <=> pc[u] = "m_insert"
  BY <1>1
<1>3. HeapEnd' = HeapEnd
  BY <1>2 DEF HeapEnd, Inserting, memVars
<1>4. Extent'
  BY <1>2 DEF MemoryInv, Extent, memVars
<1>5. Described(heap', FreeSet, BlockSet, HeapEnd') /\ DOMAIN live' = BlockSet \ FreeSet
  BY <1>3 DEF MemoryInv, memVars
<1>6. MemoryInv' /\ FreeSet' = FreeSet /\ BlockSet' = BlockSet
  BY <1>4, <1>5, Kept DEF memVars
<1> QED BY <1>3, <1>6 DEF Still, memVars

(* The request that waits for its retry, if there is one.                  *)
Asking(l) == l.retry > 0 /\ l.block = NULL

LEMMA PendingKept ==
  ASSUME loc = [u \in Threads |-> loc[u]], NEW t \in Threads, NEW r,
         loc' = [loc EXCEPT ![t] = r],
         Asking(r) <=> Asking(loc[t]),
         Asking(r) => r.ask = loc[t].ask
  PROVE  PendingAsk' = PendingAsk
<1>1. \A u \in Threads : loc'[u] = IF u = t THEN r ELSE loc[u]
  OBVIOUS
<1> DEFINE W == {u \in Threads : loc[u].retry > 0 /\ loc[u].block = NULL}
           V == {u \in Threads : loc'[u].retry > 0 /\ loc'[u].block = NULL}
<1>2. V = W /\ \A u \in W : loc'[u].ask = loc[u].ask
  BY <1>1 DEF Asking
<1>3. PendingAsk' = IF V = {} THEN NULL ELSE loc'[CHOOSE u \in V : TRUE].ask
  BY DEF PendingAsk
<1>4. PendingAsk = IF W = {} THEN NULL ELSE loc[CHOOSE u \in W : TRUE].ask
  BY DEF PendingAsk
<1>5. W # {} => (CHOOSE u \in W : TRUE) \in W
  OBVIOUS
<1> HIDE DEF V, W
<1> QED BY <1>2, <1>3, <1>4, <1>5

LEMMA PendingIs ==
  ASSUME LockInv, NEW t \in Threads, Holds(t) > 0
  PROVE  PendingAsk = IF Asking(loc[t]) THEN loc[t].ask ELSE NULL
<1> DEFINE W == {u \in Threads : loc[u].retry > 0 /\ loc[u].block = NULL}
<1>1. PendingAsk = IF W = {} THEN NULL ELSE loc[CHOOSE u \in W : TRUE].ask
  BY DEF PendingAsk
<1>2. W = IF Asking(loc[t]) THEN {t} ELSE {}
  BY Sole DEF Asking
<1>3. (CHOOSE u \in {t} : TRUE) = t
  OBVIOUS
<1> HIDE DEF W
<1> QED BY <1>1, <1>2, <1>3

(* What is known of a thread before its step.                              *)
LEMMA Known ==
  ASSUME MemoryInv, NEW t \in Threads
  PROVE  /\ loc[t] \in LocalsType /\ pc[t] \in Labels
         /\ loc = [u \in Threads |-> loc[u]]
         /\ Works(pc[t], loc[t])
         /\ Knows(pc[t], loc[t], heap, FreeSet, BlockSet)
         /\ Shape(pc[t], loc[t]) /\ Holds(t) = Locks(pc[t], loc[t])
         /\ heap \in HeapRecords /\ Listed(heap, FreeSet)
         /\ Tiled(heap, BlockSet, HeapEnd)
         /\ FreeSet \subseteq BlockSet
         /\ FreeSet \subseteq Address /\ BlockSet \subseteq Address
         /\ Address \subseteq Nat /\ NULL = -1 /\ NULL \notin Address
         /\ LockInv
<1>1. LockInv
  BY DEF MemoryInv
<1>2. /\ pc[t] \in Labels /\ loc = [u \in Threads |-> loc[u]]
      /\ Shape(pc[t], loc[t]) /\ Holds(t) = Locks(pc[t], loc[t])
  BY <1>1, HoldsLocks DEF LockInv, ThreadShape
<1>3. /\ Works(pc[t], loc[t])
      /\ Knows(pc[t], loc[t], heap, FreeSet, BlockSet)
      /\ Described(heap, FreeSet, BlockSet, HeapEnd)
  BY DEF MemoryInv
<1>4. loc[t] \in LocalsType
  BY <1>3 DEF Works
<1>5. /\ heap \in HeapRecords /\ Listed(heap, FreeSet)
      /\ Tiled(heap, BlockSet, HeapEnd)
      /\ FreeSet \subseteq BlockSet /\ FreeSet \subseteq Address
  BY <1>3 DEF Described, Listed
<1>6. BlockSet \subseteq Address
  BY <1>5, Addresses DEF Tiled, Address
<1> QED BY <1>1, <1>2, <1>3, <1>4, <1>5, <1>6, Addresses

(* One more block of the list is looked at.                                *)
LEMMA SearchStep ==
  ASSUME NEW h \in HeapRecords, NEW F, Listed(h, F),
         NEW l \in LocalsType, Place(l, h, F), Searched(l, h, F), l.cur # NULL,
         NEW better, better = (/\ h.size[l.cur] >= l.size
                               /\ l.best = NULL \/ h.size[l.cur] < h.size[l.best]),
         NEW r, r = [l EXCEPT !.best     = IF better THEN l.cur ELSE @,
                              !.bestPrev = IF better THEN l.prev ELSE @,
                              !.prev     = l.cur,
                              !.cur      = h.next[l.cur]]
  PROVE  r \in LocalsType /\ Place(r, h, F) /\ Searched(r, h, F)
<1>0. /\ F \subseteq Address /\ Address \subseteq Nat /\ NULL = -1
      /\ \A c \in F : c \in Nat /\ c # NULL /\ h.size[c] \in Nat
      /\ l.size \in Nat
  BY Addresses DEF Listed, HeapRecords, LocalsType
<1>1. /\ l.cur \in F /\ l.prev < l.cur /\ l.prev \in Int
      /\ \A c \in F : c <= l.prev \/ l.cur <= c
  BY <1>0 DEF Place, Listed, Follows
<1>2. /\ r.prev = l.cur /\ r.cur = h.next[l.cur] /\ r.size = l.size
      /\ r.best = (IF better THEN l.cur ELSE l.best)
      /\ r.bestPrev = (IF better THEN l.prev ELSE l.bestPrev)
      /\ r = [l EXCEPT !.best = r.best, !.bestPrev = r.bestPrev,
                       !.prev = r.prev, !.cur = r.cur]
  BY DEF LocalsType
<1>3. r \in LocalsType
  <2>1. h.next[l.cur] \in Pointer /\ l.cur \in Pointer /\ l.prev \in Pointer
    BY <1>0, <1>1 DEF HeapRecords, Pointer, Place
  <2>2. r.best \in Pointer /\ r.bestPrev \in Pointer
    BY <1>2, <2>1 DEF LocalsType
  <2> QED BY <1>2, <2>1, <2>2 DEF LocalsType
<1>4. Place(r, h, F)
  BY <1>0, <1>1, <1>2 DEF Place, LinkAt
<1>5. Searched(r, h, F)
  <2>1. \A c \in F : c <= l.cur => c <= l.prev \/ c = l.cur
    BY <1>0, <1>1
  <2>2. CASE better
    <3>1. ASSUME NEW c \in F, c <= l.cur, h.size[c] >= l.size
          PROVE  \/ h.size[l.cur] < h.size[c]
                 \/ h.size[l.cur] = h.size[c] /\ l.cur <= c
      <4>1. CASE c = l.cur
        BY <4>1, <1>0
      <4>2. CASE c <= l.prev
        <5>1. l.best # NULL
          BY <3>1, <4>2, <1>0 DEF Searched
        <5>2. /\ l.best \in F
              /\ \/ h.size[l.best] < h.size[c]
                 \/ h.size[l.best] = h.size[c] /\ l.best <= c
          BY <3>1, <4>2, <5>1 DEF Searched
        <5>3. h.size[l.cur] < h.size[l.best]
          BY <5>1, <2>2
        <5> QED BY <5>2, <5>3, <1>0, <1>1
      <4> QED BY <4>1, <4>2, <2>1, <3>1
    <3>2. r.best = l.cur /\ r.bestPrev = l.prev /\ r.prev = l.cur /\ r.size = l.size
      BY <1>2, <2>2
    <3>3. LinkAt(h, l.prev) = l.cur /\ l.prev \in F \cup {NULL}
      BY DEF Place
    <3> QED BY <3>1, <3>2, <3>3, <1>0, <1>1, <2>2 DEF Searched
  <2>3. CASE ~better
    <3>1. /\ r.best = l.best /\ r.bestPrev = l.bestPrev
          /\ r.prev = l.cur /\ r.size = l.size
      BY <1>2, <2>3
    <3>2. CASE l.best = NULL
      <4>1. h.size[l.cur] < l.size
        BY <2>3, <3>2, <1>0, <1>1
      <4>2. \A c \in F : c <= l.cur => h.size[c] < l.size
        BY <2>1, <3>2, <4>1 DEF Searched
      <4> QED BY <3>1, <3>2, <4>2 DEF Searched
    <3>3. CASE l.best # NULL
      <4>1. /\ l.best \in F /\ l.best <= l.prev /\ h.size[l.best] >= l.size
            /\ l.bestPrev \in F \cup {NULL} /\ LinkAt(h, l.bestPrev) = l.best
            /\ \A c \in F : c <= l.prev /\ h.size[c] >= l.size =>
                  \/ h.size[l.best] < h.size[c]
                  \/ h.size[l.best] = h.size[c] /\ l.best <= c
        BY <3>3 DEF Searched
      <4>2. l.best <= l.cur
        BY <4>1, <1>0, <1>1
      <4>3. h.size[l.cur] >= l.size => h.size[l.best] <= h.size[l.cur]
        BY <2>3, <3>3, <4>1, <1>0, <1>1
      <4>4. ASSUME NEW c \in F, c <= l.cur, h.size[c] >= l.size
            PROVE  \/ h.size[l.best] < h.size[c]
                   \/ h.size[l.best] = h.size[c] /\ l.best <= c
        BY <2>1, <4>1, <4>2, <4>3, <4>4, <1>0, <1>1
      <4> QED BY <3>1, <3>3, <4>1, <4>2, <4>4 DEF Searched
    <3> QED BY <3>2, <3>3
  <2> QED BY <2>2, <2>3
<1> QED BY <1>3, <1>4, <1>5

-----------------------------------------------------------------------------
(* A step in which only one thread moves, and claims no other block.       *)
LEMMA OnlyMoves ==
  ASSUME MemoryInv, LockInv',
         NEW t \in Threads, NEW r, NEW label \in Labels,
         loc' = [loc EXCEPT ![t] = r], Goto(t, label),
         UNCHANGED memVars, live' = live, held' = held, debug' \in BOOLEAN,
         label = "m_insert" <=> pc[t] = "m_insert",
         r.block = loc[t].block,
         Asking(r) <=> Asking(loc[t]),
         Asking(r) => r.ask = loc[t].ask,
         Works(label, r),
         Knows(label, r, heap, FreeSet, BlockSet)
  PROVE  MemoryInv' /\ Still /\ PendingAsk' = PendingAsk
<1>1. Claim(label, r) = Claim(pc[t], loc[t])
  BY DEF Claim
<1>2. Owned'
  BY <1>1, ClaimsKept
<1>3. MemoryInv' /\ Still
  BY <1>2, Quiet
<1>4. PendingAsk' = PendingAsk
  BY Known, PendingKept
<1> QED BY <1>3, <1>4

(* The steps under the mutex that only look, and those that take or leave  *)
(* the mutex.                                                              *)
LEMMA LookingKeeps ==
  ASSUME MemoryInv, LockInv', NEW t \in Threads,
         \/ MallocLock(t) \/ MallocSearch(t) \/ Walk(t) \/ FreeLock(t)
         \/ DumpLock(t) \/ DumpWalk(t) \/ DumpList(t) \/ DumpUnlock(t)
         \/ UnlockAll(t)
  PROVE  MemoryInv' /\ Still /\ PendingAsk' = PendingAsk
<1> DEFINE l == loc[t]
<1>0. /\ l \in LocalsType /\ pc[t] \in Labels
      /\ Works(pc[t], l) /\ Knows(pc[t], l, heap, FreeSet, BlockSet)
      /\ Shape(pc[t], l)
      /\ heap \in HeapRecords /\ Listed(heap, FreeSet)
      /\ Tiled(heap, BlockSet, HeapEnd)
      /\ FreeSet \subseteq BlockSet
      /\ FreeSet \subseteq Address /\ BlockSet \subseteq Address
      /\ Address \subseteq Nat /\ NULL = -1 /\ NULL \notin Address
      /\ debug \in BOOLEAN
  BY Known DEF MemoryInv, Extent
<1>00. /\ \A p \in FreeSet \cup {NULL} :
             LinkAt(heap, p) \in FreeSet \cup {NULL} /\ LinkAt(heap, p) \in Pointer
       /\ heap.first = LinkAt(heap, NULL)
       /\ \A p \in FreeSet : heap.next[p] = LinkAt(heap, p)
       /\ heap.first \in Pointer /\ NULL \in Pointer /\ 0 \in Pointer
       /\ \A c \in FreeSet : ~(c <= NULL)
  <2>1. \A p \in FreeSet \cup {NULL} : LinkAt(heap, p) \in FreeSet \cup {NULL}
    BY <1>0 DEF Listed, Follows
  <2>2. FreeSet \cup {NULL} \subseteq Pointer /\ 0 \in Pointer
    BY <1>0 DEF Pointer
  <2>3. /\ heap.first = LinkAt(heap, NULL)
        /\ \A p \in FreeSet : heap.next[p] = LinkAt(heap, p)
    BY <1>0 DEF LinkAt
  <2>4. \A c \in FreeSet : ~(c <= NULL)
    BY <1>0
  <2> QED BY <2>1, <2>2, <2>3, <2>4
<1>1. CASE MallocLock(t)
  <2> DEFINE s == [l EXCEPT !.best = NULL, !.bestPrev = NULL,
                            !.prev = NULL, !.cur = heap.first]
             r == IF debug THEN [s EXCEPT !.after = "m_search"] ELSE s
             label == IF debug THEN "d_lock" ELSE "m_search"
  <2>1. /\ s \in LocalsType
        /\ s.best = NULL /\ s.prev = NULL /\ s.cur = heap.first
        /\ s.ask = l.ask /\ s.size = l.size /\ s.block = l.block
        /\ s.retry = l.retry
    BY <1>0, <1>00 DEF LocalsType
  <2> HIDE DEF s
  <2>2. /\ r \in LocalsType
        /\ r.best = NULL /\ r.prev = NULL /\ r.cur = heap.first
        /\ r.ask = l.ask /\ r.size = l.size /\ r.block = l.block
        /\ r.retry = l.retry
        /\ debug => r.after = "m_search"
    BY <2>1 DEF LocalsType
  <2>3. loc' = [loc EXCEPT ![t] = r] /\ Goto(t, label) /\ pc[t] = "m_lock"
    BY <1>1 DEF MallocLock, GotoVia, At, s
  <2>4. label \in Labels /\ Resuming(label, r) = "m_search" /\ label \in {"m_search", "d_lock"}
    <3> HIDE DEF r
    <3> QED BY <2>2, <1>0 DEF Labels, Resuming, Waiting
  <2> HIDE DEF r, label
  <2>5. Works(label, r)
    BY <1>0, <2>2, <2>3, <2>4 DEF Works, Asks, Resuming, Waiting, MallocLabels
  <2>6. Knows(label, r, heap, FreeSet, BlockSet)
    <3>1. Place(r, heap, FreeSet) /\ Searched(r, heap, FreeSet)
      BY <1>0, <1>00, <2>2 DEF Place, Searched
    <3> QED BY <1>0, <2>2, <2>3, <2>4, <3>1 DEF Knows
  <2> QED BY <1>0, <1>1, <2>2, <2>3, <2>4, <2>5, <2>6, OnlyMoves
          DEF MallocLock, appVars, Asking
<1>2. CASE MallocSearch(t)
  <2> DEFINE r == [l EXCEPT !.best     = IF Better(l) THEN l.cur ELSE @,
                            !.bestPrev = IF Better(l) THEN l.prev ELSE @,
                            !.prev     = l.cur,
                            !.cur      = heap.next[l.cur]]
  <2>1. /\ loc' = [loc EXCEPT ![t] = r] /\ Goto(t, pc[t])
        /\ pc[t] = "m_search" /\ l.cur # NULL
    BY <1>0, <1>2, Known DEF MallocSearch, At, Goto, LockInv
  <2>2. Place(l, heap, FreeSet) /\ Searched(l, heap, FreeSet)
    BY <1>0, <2>1 DEF Knows, Resuming, Waiting
  <2>3. r \in LocalsType /\ Place(r, heap, FreeSet) /\ Searched(r, heap, FreeSet)
    BY <1>0, <2>1, <2>2, SearchStep DEF Better
  <2>4. /\ r.ask = l.ask /\ r.size = l.size /\ r.block = l.block
        /\ r.retry = l.retry /\ r.after = l.after
    BY <1>0 DEF LocalsType
  <2> HIDE DEF r
  <2>5. Works(pc[t], r)
    BY <1>0, <2>1, <2>3, <2>4 DEF Works, Asks, Resuming, Waiting, MallocLabels
  <2>6. Knows(pc[t], r, heap, FreeSet, BlockSet)
    BY <1>0, <2>1, <2>3, <2>4 DEF Knows, Resuming, Waiting
  <2> QED BY <1>0, <1>2, <2>1, <2>4, <2>5, <2>6, OnlyMoves
          DEF MallocSearch, appVars, Asking
<1>3. CASE Walk(t)
  <2> DEFINE r == [l EXCEPT !.prev = l.cur, !.cur = heap.next[l.cur]]
  <2>1. /\ loc' = [loc EXCEPT ![t] = r] /\ Goto(t, pc[t])
        /\ pc[t] \in {"m_insert", "f_walk"} /\ l.cur # NULL /\ l.cur < l.block
    BY <1>0, <1>3, Known DEF Walk, Before, At, Goto, LockInv
  <2>2. Place(l, heap, FreeSet) /\ l.prev < l.block
    BY <1>0, <2>1 DEF Knows, Resuming, Waiting
  <2>3. l.cur \in FreeSet
    BY <1>00, <2>1, <2>2 DEF Place
  <2>4. /\ r \in LocalsType
        /\ r.prev = l.cur /\ r.cur = heap.next[l.cur]
        /\ r.ask = l.ask /\ r.size = l.size /\ r.block = l.block
        /\ r.retry = l.retry /\ r.after = l.after
    <3>1. heap.next[l.cur] \in Pointer
      BY <1>00, <2>3
    <3> QED BY <1>0, <3>1 DEF LocalsType
  <2> HIDE DEF r
  <2>5. Place(r, heap, FreeSet)
    BY <1>00, <2>3, <2>4 DEF Place
  <2>6. Works(pc[t], r)
    BY <1>0, <2>1, <2>4 DEF Works, Asks, Resuming, Waiting, MallocLabels
  <2>7. Knows(pc[t], r, heap, FreeSet, BlockSet)
    BY <1>0, <2>1, <2>4, <2>5 DEF Knows, Resuming, Waiting
  <2> QED BY <1>0, <1>3, <2>1, <2>4, <2>6, <2>7, OnlyMoves DEF Walk, appVars, Asking
<1>4. CASE FreeLock(t)
  <2> DEFINE r == [l EXCEPT !.prev = NULL, !.cur = heap.first]
  <2>1. loc' = [loc EXCEPT ![t] = r] /\ Goto(t, "f_walk") /\ pc[t] = "f_lock"
    BY <1>0, <1>4, Known DEF FreeLock, At
  <2>2. /\ r \in LocalsType /\ r.prev = NULL /\ r.cur = heap.first
        /\ r.block = l.block /\ r.retry = l.retry /\ r.after = l.after
        /\ r.ask = l.ask
    BY <1>0, <1>00 DEF LocalsType
  <2> HIDE DEF r
  <2>3. l.retry = 0 /\ l.block \in Nat
    BY <1>0, <2>1 DEF Shape, Resuming, Waiting, Works, LocalsType, Pointer
  <2>4. Works("f_walk", r)
    BY <1>0, <2>1, <2>2, <2>3 DEF Works, Resuming, Waiting, MallocLabels
  <2>5. Knows("f_walk", r, heap, FreeSet, BlockSet)
    BY <1>0, <1>00, <2>2, <2>3 DEF Knows, Resuming, Waiting, Place
  <2> QED BY <1>0, <1>4, <2>1, <2>2, <2>4, <2>5, OnlyMoves
          DEF FreeLock, appVars, Asking, Labels
<1>5. CASE DumpLock(t)
  <2> DEFINE r == [l EXCEPT !.pos = 0]
  <2>1. loc' = [loc EXCEPT ![t] = r] /\ Goto(t, "d_walk") /\ pc[t] = "d_lock"
    BY <1>0, <1>5, Known DEF DumpLock, At
  <2>2. r \in LocalsType /\ r.pos = 0 /\ \A f \in Fields \ {"pos"} : r[f] = l[f]
    BY <1>0 DEF LocalsType, Pointer, Fields, NoLocals
  <2> HIDE DEF r
  <2>3. /\ r.block = l.block /\ r.retry = l.retry /\ r.after = l.after
        /\ r.ask = l.ask /\ r.size = l.size /\ r.prev = l.prev /\ r.cur = l.cur
        /\ r.best = l.best /\ r.bestPrev = l.bestPrev
    BY <2>2 DEF Fields, NoLocals
  <2>4. Works("d_walk", r)
    BY <1>0, <2>1, <2>2, <2>3 DEF Works, Asks, Resuming, Waiting, MallocLabels
  <2>5. Knows("d_walk", r, heap, FreeSet, BlockSet)
    <3>1. r.pos \in BlockSet
      BY <1>0, <2>2 DEF Tiled
    <3> QED BY <1>0, <2>1, <2>3, <3>1
            DEF Knows, Resuming, Waiting, Place, Searched
  <2> QED BY <1>0, <1>5, <2>1, <2>2, <2>3, <2>4, <2>5, OnlyMoves
          DEF DumpLock, appVars, Asking, Labels
<1>6. CASE DumpWalk(t) \/ DumpList(t)
  <2>1. PICK pos \in BlockSet \cup {NULL}, label \in {"d_walk", "d_list"} :
          /\ loc' = [loc EXCEPT ![t] = [l EXCEPT !.pos = pos]]
          /\ Goto(t, label)
          /\ label = "d_walk" => pos \in BlockSet
          /\ label = "d_list" => pos \in FreeSet \cup {NULL}
    <3>1. CASE DumpList(t)
      <4>1. /\ l.pos \in FreeSet \cup {NULL} /\ l.pos # NULL
            /\ loc' = [loc EXCEPT ![t] = [l EXCEPT !.pos = heap.next[l.pos]]]
            /\ pc' = pc /\ pc[t] = "d_list"
        BY <1>0, <3>1 DEF DumpList, At, Knows
      <4>2. heap.next[l.pos] \in FreeSet \cup {NULL}
        BY <1>00, <4>1
      <4> QED BY <1>0, <4>1, <4>2, Known DEF Goto, LockInv
    <3>2. CASE DumpWalk(t)
      <4>1. l.pos \in BlockSet /\ pc[t] = "d_walk"
        BY <1>0, <3>2 DEF DumpWalk, At, Knows
      <4>2. CASE NextBySize(l.pos) = heapSize
        <5>1. /\ loc' = [loc EXCEPT ![t] = [l EXCEPT !.pos = heap.first]]
              /\ Goto(t, "d_list")
          BY <3>2, <4>2 DEF DumpWalk
        <5> QED BY <1>0, <1>00, <5>1
      <4>3. CASE NextBySize(l.pos) # heapSize
        <5>1. /\ loc' = [loc EXCEPT ![t] = [l EXCEPT !.pos = NextBySize(l.pos)]]
              /\ pc' = pc
          BY <3>2, <4>3 DEF DumpWalk
        <5>2. HeapEnd = heapSize
          <6>1. Holds(t) > 0
            BY <1>0, <4>1, Known DEF Locks, LocalsType
          <6>2. pc[t] # "m_insert" /\ \A u \in Threads : pc[u] # "m_insert"
            BY <4>1, <6>1, Known, Sole
          <6> QED BY <3>2, <6>2 DEF HeapEnd, Inserting, DumpWalk, At
        <5>3. NextBySize(l.pos) \in BlockSet
          BY <1>0, <4>1, <4>3, <5>2 DEF Tiled, NextBySize
        <5> QED BY <1>0, <4>1, <5>1, <5>3, Known DEF Goto, LockInv
      <4> QED BY <4>2, <4>3
    <3> QED BY <1>6, <3>1, <3>2
  <2> DEFINE r == [l EXCEPT !.pos = pos]
  <2>2. pc[t] \in {"d_walk", "d_list"}
    BY <1>6 DEF DumpWalk, DumpList, At
  <2>3. r \in LocalsType /\ r.pos = pos /\ \A f \in Fields \ {"pos"} : r[f] = l[f]
    BY <1>0, <2>1 DEF LocalsType, Pointer, Fields, NoLocals
  <2>4. loc' = [loc EXCEPT ![t] = r]
    BY <2>1
  <2> HIDE DEF r
  <2>5. /\ r.block = l.block /\ r.retry = l.retry /\ r.after = l.after
        /\ r.ask = l.ask /\ r.size = l.size /\ r.prev = l.prev /\ r.cur = l.cur
        /\ r.best = l.best /\ r.bestPrev = l.bestPrev
    BY <2>3 DEF Fields, NoLocals
  <2>6. Works(label, r)
    BY <1>0, <2>1, <2>2, <2>3, <2>5 DEF Works, Asks, Resuming, Waiting, MallocLabels
  <2>7. Knows(label, r, heap, FreeSet, BlockSet)
    BY <1>0, <2>1, <2>2, <2>3, <2>5 DEF Knows, Resuming, Waiting, Place, Searched
  <2>8. UNCHANGED <<memVars, appVars>>
    BY <1>6 DEF DumpWalk, DumpList
  <2>9. label \in Labels /\ (label = "m_insert" <=> pc[t] = "m_insert")
    BY <2>1, <2>2 DEF Labels
  <2>10. /\ UNCHANGED memVars /\ live' = live /\ held' = held
         /\ debug' \in BOOLEAN
         /\ Asking(r) <=> Asking(l)
    BY <1>0, <2>5, <2>8 DEF appVars, Asking
  <2> HIDE DEF l
  <2> QED BY <2>1, <2>4, <2>5, <2>6, <2>7, <2>9, <2>10, OnlyMoves DEF l
<1>7. CASE DumpUnlock(t)
  <2> DEFINE r == [l EXCEPT !.after = "return"]
  <2>1. loc' = [loc EXCEPT ![t] = r] /\ Goto(t, l.after) /\ pc[t] = "d_list"
    BY <1>0, <1>7, Known DEF DumpUnlock, At
  <2>2. /\ r \in LocalsType /\ r.after = "return"
        /\ \A f \in Fields \ {"after"} : r[f] = l[f]
    BY <1>0 DEF LocalsType, Pointer, Fields, NoLocals
  <2> HIDE DEF r
  <2>3. /\ r.block = l.block /\ r.retry = l.retry
        /\ r.ask = l.ask /\ r.size = l.size /\ r.prev = l.prev /\ r.cur = l.cur
        /\ r.best = l.best /\ r.bestPrev = l.bestPrev
    BY <2>2 DEF Fields, NoLocals
  <2>4. l.after \in {"return", "m_search", "m_unlock"} /\ l.after \in Labels
    BY <1>0 DEF LocalsType, Labels
  <2>5. Works(l.after, r)
    BY <1>0, <2>1, <2>2, <2>3, <2>4 DEF Works, Asks, Resuming, Waiting, MallocLabels
  <2>6. Knows(l.after, r, heap, FreeSet, BlockSet)
    BY <1>0, <2>1, <2>3, <2>4 DEF Knows, Resuming, Waiting, Place, Searched
  <2> QED BY <1>0, <1>7, <2>1, <2>2, <2>3, <2>4, <2>5, <2>6, OnlyMoves
          DEF DumpUnlock, appVars, Asking
<1>8. CASE UnlockAll(t)
  <2>1. pc[t] \in {"m_unlock", "f_unlock"} /\ l.after = "return"
    BY <1>0, <1>8 DEF UnlockAll, At, Shape, Waiting
  <2>2. CASE l.retry = 0
    <3>1. loc' = [loc EXCEPT ![t] = l] /\ Goto(t, "return")
      BY <1>8, <2>2, Known DEF UnlockAll
    <3>2. Works("return", l)
      BY <1>0, <2>1, <2>2 DEF Works, Resuming, Waiting, MallocLabels
    <3>3. Knows("return", l, heap, FreeSet, BlockSet)
      BY <2>2 DEF Knows, Resuming, Waiting
    <3> HIDE DEF l
    <3> QED BY <1>0, <1>8, <2>1, <3>1, <3>2, <3>3, OnlyMoves
            DEF UnlockAll, appVars, Labels, l
  <2>3. CASE l.retry # 0
    <3> DEFINE r == [l EXCEPT !.retry = @ - 1]
    <3>0. l.retry = 1 /\ pc[t] = "m_unlock" /\ l.block # NULL
      BY <1>0, <2>1, <2>3 DEF Works, Resuming, Waiting
    <3>1. loc' = [loc EXCEPT ![t] = r] /\ Goto(t, pc[t])
      BY <1>0, <1>8, <2>3, Known DEF UnlockAll, Goto, LockInv
    <3>2. /\ r \in LocalsType /\ r.retry = 0 /\ r.after = l.after
          /\ r.block = l.block /\ r.ask = l.ask
      BY <1>0, <3>0 DEF LocalsType
    <3> HIDE DEF r
    <3>3. Works(pc[t], r)
      BY <1>0, <2>1, <3>0, <3>2 DEF Works, Resuming, Waiting, MallocLabels
    <3>4. Knows(pc[t], r, heap, FreeSet, BlockSet)
      BY <3>0, <3>2 DEF Knows, Resuming, Waiting
    <3> QED BY <1>0, <1>8, <3>0, <3>1, <3>2, <3>3, <3>4, OnlyMoves
            DEF UnlockAll, appVars, Asking
  <2> QED BY <2>2, <2>3
<1> QED BY <1>1, <1>2, <1>3, <1>4, <1>5, <1>6, <1>7, <1>8

(* The calls of the application, and the return from one.                  *)
LEMMA CallKeeps ==
  ASSUME MemoryInv, LockInv', NEW t \in Threads, Call(t) \/ Return(t)
  PROVE  MemoryInv' /\ Still /\ PendingAsk' = PendingAsk
<1> DEFINE l == loc[t]
<1>0. /\ l \in LocalsType /\ pc[t] \in Labels
      /\ Works(pc[t], l) /\ Shape(pc[t], l)
      /\ loc = [u \in Threads |-> loc[u]]
      /\ NULL = -1 /\ debug \in BOOLEAN
  BY Known DEF MemoryInv, Extent
<1>00. pc[t] = "idle" => l.block = NULL /\ l.retry = 0 /\ l.after = "return"
  BY <1>0 DEF Works, Shape, Resuming, Waiting
<1>1. ASSUME NEW q \in Requests, MallocCall(t, q)
      PROVE  MemoryInv' /\ Still /\ PendingAsk' = PendingAsk
  <2>0. pc[t] = "idle"
    BY <1>1 DEF MallocCall, At
  <2>1. CASE BlockSize(q) > HEAP_SIZE
    <3>1. loc' = [loc EXCEPT ![t] = l] /\ Goto(t, "return")
      BY <1>0, <1>1, <2>1 DEF MallocCall
    <3>2. Works("return", l) /\ Knows("return", l, heap, FreeSet, BlockSet)
      BY <1>0, <1>00, <2>0
         DEF Works, Knows, Resuming, Waiting, MallocLabels
    <3> HIDE DEF l
    <3> QED BY <1>0, <1>1, <2>0, <3>1, <3>2, OnlyMoves
            DEF MallocCall, appVars, Labels, l
  <2>2. CASE ~(BlockSize(q) > HEAP_SIZE)
    <3> DEFINE r == [l EXCEPT !.ask = q, !.size = BlockSize(q)]
    <3>1. loc' = [loc EXCEPT ![t] = r] /\ Goto(t, "m_lock")
      BY <1>0, <1>1, <2>2 DEF MallocCall
    <3>2. BlockSize(q) \in Nat /\ BlockSize(q) <= HEAP_SIZE /\ q \in Pointer
      BY <1>1, <2>2, RequestSize, RequestAssumption, HeapAssumption DEF Pointer
    <3>3. /\ r \in LocalsType /\ r.ask = q /\ r.size = BlockSize(q)
          /\ r.block = NULL /\ r.retry = 0 /\ r.after = "return"
      BY <1>0, <1>00, <2>0, <3>2 DEF LocalsType
    <3> HIDE DEF r
    <3>4. Works("m_lock", r) /\ Knows("m_lock", r, heap, FreeSet, BlockSet)
      BY <1>1, <3>2, <3>3
         DEF Works, Asks, Knows, Resuming, Waiting, MallocLabels
    <3>5. ~Asking(r) /\ ~Asking(l)
      BY <1>00, <2>0, <3>3 DEF Asking
    <3> QED BY <1>0, <1>00, <1>1, <2>0, <3>1, <3>3, <3>4, <3>5, OnlyMoves
            DEF MallocCall, appVars, Labels
  <2> QED BY <2>1, <2>2
<1>2. ASSUME NEW b \in held \cup {NULL}, FreeCall(t, b)
      PROVE  MemoryInv' /\ Still /\ PendingAsk' = PendingAsk
  <2>0. pc[t] = "idle"
    BY <1>2 DEF FreeCall, At
  <2>1. CASE b = NULL
    <3>1. loc' = [loc EXCEPT ![t] = l] /\ Goto(t, "return")
      BY <1>0, <1>2, <2>1 DEF FreeCall
    <3>2. Works("return", l) /\ Knows("return", l, heap, FreeSet, BlockSet)
      BY <1>0, <1>00, <2>0
         DEF Works, Knows, Resuming, Waiting, MallocLabels
    <3>3. held' = held
      <4>1. held \subseteq BlockSet /\ NULL \notin BlockSet
        BY Known DEF MemoryInv, Owned
      <4> QED BY <1>2, <2>1, <4>1 DEF FreeCall
    <3> HIDE DEF l
    <3> QED BY <1>0, <1>2, <2>0, <3>1, <3>2, <3>3, OnlyMoves
            DEF FreeCall, Labels, l
  <2>2. CASE b # NULL
    <3> DEFINE r == [l EXCEPT !.block = b]
    <3>1. loc' = [loc EXCEPT ![t] = r] /\ Goto(t, "f_lock")
      BY <1>0, <1>2, <2>2 DEF FreeCall
    <3>2. b \in held /\ b \in DOMAIN live /\ b \in Pointer
      BY <2>2, Known DEF MemoryInv, Owned, Pointer
    <3>3. /\ r \in LocalsType /\ r.block = b
          /\ r.retry = 0 /\ r.after = "return"
      BY <1>0, <1>00, <2>0, <3>2 DEF LocalsType
    <3> HIDE DEF r
    <3>4. Works("f_lock", r) /\ Knows("f_lock", r, heap, FreeSet, BlockSet)
      BY <2>2, <3>3 DEF Works, Knows, Resuming, Waiting, MallocLabels
    <3>5. Owned'
      <4>1. /\ pc'[t] = "f_lock" /\ loc'[t] = r
            /\ \A u \in Threads : u # t => pc'[u] = pc[u] /\ loc'[u] = loc[u]
        BY <1>0, <3>1, Known DEF Goto, LockInv
      <4>2. Claim(pc'[t], loc'[t]) = {b}
        BY <2>2, <3>3, <4>1 DEF Claim
      <4>3. \A u \in Threads : u # t => Claim(pc'[u], loc'[u]) = Claim(pc[u], loc[u])
        BY <4>1
      <4>4. held' = held \ {b} /\ live' = live
        BY <1>2 DEF FreeCall
      <4>5. \A u \in Threads : Claim(pc[u], loc[u]) \subseteq DOMAIN live \ held
        BY DEF MemoryInv, Owned
      <4>6. ASSUME NEW u \in Threads, NEW v \in Threads, u # v
            PROVE  Claim(pc'[u], loc'[u]) \cap Claim(pc'[v], loc'[v]) = {}
        <5>1. Claim(pc[u], loc[u]) \cap Claim(pc[v], loc[v]) = {}
          BY <4>6 DEF MemoryInv, Owned
        <5> QED BY <5>1, <4>2, <4>3, <4>5, <4>6, <3>2
      <4>7. \A u \in Threads : Claim(pc'[u], loc'[u]) \subseteq DOMAIN live' \ held'
        BY <4>2, <4>3, <4>4, <4>5, <3>2
      <4>8. live' \in [DOMAIN live' -> Requests] /\ held' \subseteq DOMAIN live'
        BY <4>4 DEF MemoryInv, Owned
      <4> QED BY <4>6, <4>7, <4>8 DEF Owned
    <3>6. MemoryInv' /\ Still
      BY <1>0, <1>2, <2>0, <3>1, <3>4, <3>5, Quiet DEF FreeCall, Labels
    <3>7. ~Asking(r) /\ ~Asking(l)
      BY <1>00, <2>0, <3>3 DEF Asking
    <3>8. PendingAsk' = PendingAsk
      BY <1>0, <3>1, <3>7, PendingKept
    <3> QED BY <3>6, <3>8
  <2> QED BY <2>1, <2>2
<1>3. CASE DumpCall(t)
  <2>0. pc[t] = "idle"
    BY <1>3 DEF DumpCall, At
  <2>1. loc' = [loc EXCEPT ![t] = l] /\ Goto(t, "d_lock")
    BY <1>0, <1>3 DEF DumpCall
  <2>2. Works("d_lock", l) /\ Knows("d_lock", l, heap, FreeSet, BlockSet)
    BY <1>0, <1>00, <2>0 DEF Works, Knows, Resuming, Waiting, MallocLabels
  <2> HIDE DEF l
  <2> QED BY <1>0, <1>3, <2>0, <2>1, <2>2, OnlyMoves
          DEF DumpCall, appVars, Labels, l
<1>4. ASSUME NEW enable \in DebugValues, EnableDebug(t, enable)
      PROVE  MemoryInv' /\ Still /\ PendingAsk' = PendingAsk
  <2>1. loc' = [loc EXCEPT ![t] = l] /\ Goto(t, pc[t])
    BY <1>0, <1>4, Known DEF EnableDebug, Goto, LockInv
  <2>2. Works(pc[t], l) /\ Knows(pc[t], l, heap, FreeSet, BlockSet)
    BY Known
  <2>3. debug' \in BOOLEAN
    BY <1>4, DebugAssumption DEF EnableDebug
  <2> HIDE DEF l
  <2> QED BY <1>0, <1>4, <2>1, <2>2, <2>3, OnlyMoves DEF EnableDebug, l
<1>5. CASE Return(t)
  <2>0. pc[t] = "return" /\ l.retry = 0
    BY <1>0, <1>5 DEF Return, At, Shape, Resuming, Waiting
  <2> DEFINE r == NoLocals
  <2>1. loc' = [loc EXCEPT ![t] = r] /\ Goto(t, "idle")
    BY <1>0, <1>5 DEF Return
  <2>2. /\ r \in LocalsType /\ r.block = NULL
        /\ r.retry = 0 /\ r.after = "return"
    BY DEF LocalsType, NoLocals, Pointer
  <2> HIDE DEF r
  <2>3. Works("idle", r) /\ Knows("idle", r, heap, FreeSet, BlockSet)
    BY <2>2 DEF Works, Knows, Resuming, Waiting, MallocLabels
  <2>4. Owned'
    <3>1. /\ pc'[t] = "idle" /\ loc'[t] = r
          /\ \A u \in Threads : u # t => pc'[u] = pc[u] /\ loc'[u] = loc[u]
      BY <1>0, <2>1, Known DEF Goto, LockInv
    <3>2. Claim(pc'[t], loc'[t]) = {} /\ Claim(pc[t], loc[t]) = {l.block} \ {NULL}
      BY <2>0, <2>2, <3>1 DEF Claim
    <3>3. \A u \in Threads : u # t => Claim(pc'[u], loc'[u]) = Claim(pc[u], loc[u])
      BY <3>1
    <3>4. held' = held \cup Claim(pc[t], loc[t]) /\ live' = live
      BY <1>5, <3>2 DEF Return
    <3>5. \A u \in Threads : Claim(pc[u], loc[u]) \subseteq DOMAIN live \ held
      BY DEF MemoryInv, Owned
    <3>6. \A u, v \in Threads :
             u # v => Claim(pc[u], loc[u]) \cap Claim(pc[v], loc[v]) = {}
      BY DEF MemoryInv, Owned
    <3>7. ASSUME NEW u \in Threads, NEW v \in Threads, u # v
          PROVE  Claim(pc'[u], loc'[u]) \cap Claim(pc'[v], loc'[v]) = {}
      <4>1. Claim(pc[u], loc[u]) \cap Claim(pc[v], loc[v]) = {}
        BY <3>6, <3>7
      <4> QED BY <4>1, <3>2, <3>3, <3>7
    <3>8. ASSUME NEW u \in Threads
          PROVE  Claim(pc'[u], loc'[u]) \subseteq DOMAIN live' \ held'
      <4>1. u # t => Claim(pc[u], loc[u]) \cap Claim(pc[t], loc[t]) = {}
        BY <3>6
      <4> QED BY <4>1, <3>2, <3>3, <3>4, <3>5
    <3>9. live' \in [DOMAIN live' -> Requests] /\ held' \subseteq DOMAIN live'
      BY <3>4, <3>5 DEF MemoryInv, Owned
    <3> QED BY <3>7, <3>8, <3>9 DEF Owned
  <2>5. MemoryInv' /\ Still
    BY <1>0, <1>5, <2>0, <2>1, <2>3, <2>4, Quiet DEF Return, Labels
  <2>6. ~Asking(r) /\ ~Asking(l)
    BY <2>0, <2>2 DEF Asking
  <2>7. PendingAsk' = PendingAsk
    BY <1>0, <2>1, <2>6, PendingKept
  <2> QED BY <2>5, <2>7
<1> QED BY <1>1, <1>2, <1>3, <1>4, <1>5 DEF Call

(* The recursive call, refused when the block for the block is larger than *)
(* the heap: then no request waits any more.                               *)
LEMMA RetryKeeps ==
  ASSUME MemoryInv, LockInv', NEW t \in Threads, MallocRetry(t)
  PROVE  /\ MemoryInv' /\ Still
         /\ loc[t].ask \in Requests /\ PendingAsk = loc[t].ask
         /\ PendingAsk' = IF BlockSize(BlockSize(loc[t].ask)) > HEAP_SIZE
                            THEN NULL ELSE loc[t].ask
<1> DEFINE l == loc[t]
           n == BlockSize(BlockSize(l.ask))
<1>0. /\ l \in LocalsType /\ pc[t] = "m_retry"
      /\ Works(pc[t], l) /\ Shape(pc[t], l)
      /\ Knows(pc[t], l, heap, FreeSet, BlockSet)
      /\ loc = [u \in Threads |-> loc[u]]
      /\ debug \in BOOLEAN
      /\ Holds(t) = Locks(pc[t], l)
  BY Known DEF MemoryInv, Extent, MallocRetry, At
<1>1. /\ l.retry = 1 /\ l.after = "return" /\ l.block = NULL
      /\ l.ask \in Requests /\ l.size = BlockSize(l.ask)
      /\ BlockSize(l.ask) <= HEAP_SIZE
  BY <1>0 DEF Works, Asks, Shape, Resuming, Waiting, MallocLabels
<1>2. n \in Nat
  BY <1>1, RequestSize
<1>3. Holds(t) > 0 /\ Asking(l)
  BY <1>0, <1>1 DEF Locks, Resuming, Waiting, Asking
<1>4. PendingAsk = l.ask
  BY <1>3, PendingIs DEF MemoryInv
<1>5. UNCHANGED <<memVars, mutex, appVars>>
  BY DEF MallocRetry
<1>6. CASE n > HEAP_SIZE
  <2> DEFINE r == [l EXCEPT !.retry = @ - 1]
  <2>1. loc' = [loc EXCEPT ![t] = r] /\ Goto(t, "m_unlock")
    BY <1>1, <1>6 DEF MallocRetry
  <2>2. /\ r \in LocalsType /\ r.retry = 0
        /\ r.block = NULL /\ r.after = "return"
    BY <1>0, <1>1 DEF LocalsType
  <2> HIDE DEF r, n
  <2>3. Works("m_unlock", r) /\ Knows("m_unlock", r, heap, FreeSet, BlockSet)
    BY <2>2 DEF Works, Knows, Resuming, Waiting, MallocLabels
  <2>4. Claim("m_unlock", r) = Claim(pc[t], loc[t])
    BY <1>0, <1>1, <2>2 DEF Claim
  <2>5. Owned'
    BY <1>5, <2>1, <2>4, ClaimsKept DEF appVars, Labels
  <2>6. MemoryInv' /\ Still
    BY <1>0, <1>5, <2>1, <2>3, <2>5, Quiet DEF appVars, Labels
  <2>7. \A u \in Threads : ~(loc'[u].retry > 0)
    <3>1. \A u \in Threads : u # t => loc[u].retry = 0
      BY <1>3, Sole DEF MemoryInv
    <3> QED BY <1>0, <2>1, <2>2, <3>1
  <2>8. PendingAsk' = NULL
    BY <2>7 DEF PendingAsk
  <2> QED BY <1>1, <1>4, <1>6, <2>6, <2>8 DEF n
<1>7. CASE ~(n > HEAP_SIZE)
  <2> DEFINE r == [l EXCEPT !.size = n]
  <2>1. loc' = [loc EXCEPT ![t] = r] /\ Goto(t, "m_lock")
    BY <1>1, <1>7 DEF MallocRetry
  <2>2. /\ r \in LocalsType /\ r.retry = 1 /\ r.size = n
        /\ r.block = NULL /\ r.after = "return" /\ r.ask = l.ask
    BY <1>0, <1>1, <1>2 DEF LocalsType
  <2>3. n <= HEAP_SIZE
    BY <1>2, <1>7, HeapAssumption
  <2> HIDE DEF r
  <2>4. Works("m_lock", r)
    BY <1>1, <2>2, <2>3 DEF Works, Asks, Resuming, Waiting, MallocLabels
  <2>5. Knows("m_lock", r, heap, FreeSet, BlockSet)
    BY <1>0, <1>1, <2>2 DEF Knows, Resuming, Waiting
  <2>6. /\ "m_lock" \in Labels /\ pc[t] # "m_insert" /\ r.block = l.block
        /\ Asking(r) <=> Asking(l)
        /\ live' = live /\ held' = held /\ debug' \in BOOLEAN
        /\ UNCHANGED memVars
    BY <1>0, <1>1, <1>5, <2>2 DEF Labels, Asking, appVars
  <2> HIDE DEF l, n
  <2>7. MemoryInv' /\ Still /\ PendingAsk' = PendingAsk
    BY <2>1, <2>2, <2>4, <2>5, <2>6, OnlyMoves DEF l
  <2> QED BY <1>1, <1>4, <1>7, <2>7 DEF l, n
<1> QED BY <1>6, <1>7

-----------------------------------------------------------------------------
(* The four steps that write to the memory, and what becomes of the        *)
(* blocks.  allocate_block: b is the best fit for n bytes.                 *)
Carved(b, n) ==
    /\ b \in FreeSet /\ n \in Nat \ {0} /\ n <= heap.size[b]
    /\ \A c \in FreeSet : heap.size[c] >= n =>
          \/ heap.size[b] < heap.size[c]
          \/ heap.size[b] = heap.size[c] /\ b <= c
    /\ HeapEnd' = HeapEnd
    /\ IF heap.size[b] = n
         THEN FreeSet' = FreeSet \ {b} /\ BlockSet' = BlockSet
         ELSE /\ b + n \notin BlockSet
              /\ FreeSet' = (FreeSet \ {b}) \cup {b + n}
              /\ BlockSet' = BlockSet \cup {b + n}
              /\ heap'.size[b + n] = heap.size[b] - n
    /\ heap'.size[b] = n
    /\ \A c \in BlockSet \ {b} : heap'.size[c] = heap.size[c]

LEMMA AllocateKeeps ==
  ASSUME MemoryInv, LockInv', NEW t \in Threads, MallocAllocate(t)
  PROVE  /\ MemoryInv'
         /\ Carved(loc[t].best, loc[t].size)
         /\ loc[t].ask \in Requests /\ BlockSize(loc[t].ask) <= HEAP_SIZE
         /\ PendingAsk' = NULL
         /\ \/ PendingAsk = NULL /\ loc[t].size = BlockSize(loc[t].ask)
            \/ /\ PendingAsk = loc[t].ask
               /\ loc[t].size = BlockSize(BlockSize(loc[t].ask))
               /\ loc[t].size <= HEAP_SIZE
<1> DEFINE l == loc[t]
           b == l.best
           n == l.size
           r == IF debug THEN [[l EXCEPT !.block = b] EXCEPT !.after = "m_unlock"]
                         ELSE [l EXCEPT !.block = b]
           label == IF debug THEN "d_lock" ELSE "m_unlock"
<1>0. /\ l \in LocalsType /\ pc[t] = "m_search"
      /\ l.cur = NULL /\ b # NULL
      /\ Works(pc[t], l) /\ Shape(pc[t], l)
      /\ Knows(pc[t], l, heap, FreeSet, BlockSet)
      /\ loc = [u \in Threads |-> loc[u]]
      /\ debug \in BOOLEAN
      /\ Holds(t) = Locks(pc[t], l)
      /\ LockInv
  BY Known DEF MemoryInv, Extent, MallocAllocate, At
<1>1. /\ Asks("m_search", l) /\ l.after = "return" /\ l.retry \in {0, 1}
      /\ Place(l, heap, FreeSet) /\ Searched(l, heap, FreeSet)
  BY <1>0 DEF Works, Knows, Shape, Resuming, Waiting, MallocLabels
<1>2. n \in Nat \ {0}
  BY <1>1, RequestSize DEF Asks
<1>3. /\ heap \in HeapRecords /\ Described(heap, FreeSet, BlockSet, HeapEnd)
      /\ FreeSet \subseteq BlockSet /\ FreeSet \subseteq Address
      /\ Address \subseteq Nat
      /\ DOMAIN live = BlockSet \ FreeSet
      /\ heap.size \in [Address -> Nat]
  BY Known DEF MemoryInv, HeapRecords
<1>4. /\ b \in FreeSet /\ n <= heap.size[b]
      /\ l.bestPrev \in FreeSet \cup {NULL} /\ LinkAt(heap, l.bestPrev) = b
      /\ \A c \in FreeSet : heap.size[c] >= n =>
            \/ heap.size[b] < heap.size[c]
            \/ heap.size[b] = heap.size[c] /\ b <= c
  <2>1. \A c \in FreeSet : c <= l.prev
    BY <1>0, <1>1, <1>3 DEF Place, Described, Listed, Follows
  <2>2. b \in FreeSet /\ heap.size[b] >= n
    BY <1>0, <1>1 DEF Searched
  <2>3. n <= heap.size[b]
    BY <2>2, <1>2, <1>3
  <2> QED BY <2>1, <2>2, <2>3, <1>0, <1>1 DEF Searched
<1>5. /\ loc' = [loc EXCEPT ![t] = r] /\ Goto(t, label)
      /\ heap' = AllocateBlock(heap, l.bestPrev, b, n)
      /\ live' = [c \in DOMAIN live \cup {b} |-> IF c = b THEN l.ask ELSE live[c]]
      /\ UNCHANGED <<heapSize, reserved, brk, crashed, held, debug>>
      /\ ~crashed
  BY DEF MallocAllocate, GotoVia, At
<1>6. /\ r \in LocalsType /\ r.block = b /\ r.retry = l.retry
      /\ debug => r.after = "m_unlock"
      /\ label \in {"m_unlock", "d_lock"} /\ Resuming(label, r) = "m_unlock"
  <2>1. [l EXCEPT !.block = b] \in LocalsType
    BY <1>0, <1>3, <1>4 DEF LocalsType, Pointer
  <2>2. r \in LocalsType /\ r.block = b /\ r.retry = l.retry
        /\ (debug => r.after = "m_unlock")
    BY <2>1, <1>0 DEF LocalsType
  <2> HIDE DEF r
  <2> QED BY <2>2 DEF Resuming, Waiting
<1> HIDE DEF r, label
<1>7. Works(label, r) /\ \A F, B : Knows(label, r, heap', F, B)
  BY <1>0, <1>1, <1>6 DEF Works, Knows, MallocLabels, Resuming, Waiting
<1>8. Holds(t) > 0
  BY <1>0, <1>1 DEF Locks, Resuming, Waiting
<1>9. /\ \A u \in Threads : u # t => pc'[u] = pc[u] /\ loc'[u] = loc[u]
      /\ pc'[t] = label /\ loc'[t] = r
  BY <1>0, <1>5 DEF Goto, LockInv
<1>10. \A u \in Threads : pc[u] # "m_insert" /\ pc'[u] # "m_insert"
  BY <1>0, <1>6, <1>8, <1>9, Sole
<1>11. HeapEnd' = HeapEnd /\ Extent'
  BY <1>5, <1>10 DEF HeapEnd, Inserting, Extent, MemoryInv
<1>12. Owned'
  <2>1. b \notin DOMAIN live /\ DOMAIN live' = DOMAIN live \cup {b}
    BY <1>3, <1>4, <1>5
  <2>2. Claim(pc'[t], loc'[t]) = {b} /\ \A u \in Threads : u # t =>
           Claim(pc'[u], loc'[u]) = Claim(pc[u], loc[u])
    BY <1>0, <1>6, <1>9, <1>10 DEF Claim
  <2>3. ASSUME NEW u \in Threads
        PROVE  Claim(pc'[u], loc'[u]) \subseteq DOMAIN live' \ held'
    <3>1. Claim(pc[u], loc[u]) \subseteq DOMAIN live \ held /\ held \subseteq DOMAIN live
      BY DEF MemoryInv, Owned
    <3> QED BY <3>1, <2>1, <2>2, <1>5
  <2>4. ASSUME NEW u \in Threads, NEW v \in Threads, u # v
        PROVE  Claim(pc'[u], loc'[u]) \cap Claim(pc'[v], loc'[v]) = {}
    <3>1. /\ Claim(pc[u], loc[u]) \cap Claim(pc[v], loc[v]) = {}
          /\ b \notin Claim(pc[u], loc[u]) /\ b \notin Claim(pc[v], loc[v])
      BY <2>1, <2>4 DEF MemoryInv, Owned
    <3> QED BY <3>1, <2>2, <2>4
  <2>5. held' \subseteq DOMAIN live' /\ live' \in [DOMAIN live' -> Requests]
    <3>1. l.ask \in Requests /\ held \subseteq DOMAIN live
          /\ live \in [DOMAIN live -> Requests]
      BY <1>1 DEF Asks, MemoryInv, Owned
    <3> QED BY <3>1, <2>1, <1>5
  <2> QED BY <2>3, <2>4, <2>5 DEF Owned
<1>13. MemoryInv' /\ Carved(b, n)
  <2>0. ASSUME NEW F, NEW B, Described(heap', F, B, HeapEnd),
               DOMAIN live' = B \ F
        PROVE  MemoryInv' /\ FreeSet' = F /\ BlockSet' = B
    <3>1. label \in Labels /\ Described(heap', F, B, HeapEnd')
      BY <2>0, <1>6, <1>11 DEF Labels
    <3>2. Works(label, r) /\ Knows(label, r, heap', F, B)
      BY <1>7
    <3>3. loc' = [loc EXCEPT ![t] = r] /\ Goto(t, label)
      BY <1>5
    <3> HIDE DEF l, b, n
    <3> QED BY <3>1, <3>2, <3>3, <2>0, <1>8, <1>11, <1>12, Kept
  <2>00. heap.size[b] \in Nat
    BY <1>3, <1>4
  <2> HIDE DEF l
  <2>1. CASE heap.size[b] = n
    <3>1. /\ Described(heap', FreeSet \ {b}, BlockSet, HeapEnd)
          /\ heap'.size = heap.size
      BY <1>3, <1>4, <1>5, <2>1, TakeKeeps
    <3>2. DOMAIN live' = BlockSet \ (FreeSet \ {b})
      BY <1>3, <1>4, <1>5
    <3>3. MemoryInv' /\ FreeSet' = FreeSet \ {b} /\ BlockSet' = BlockSet
      BY <2>0, <3>1, <3>2
    <3> QED BY <1>2, <1>3, <1>4, <1>11, <2>1, <3>1, <3>3 DEF Carved
  <2>2. CASE heap.size[b] # n
    <3>1. n < heap.size[b]
      BY <1>2, <1>4, <2>00, <2>2
    <3>2. /\ b + n \notin BlockSet
          /\ Described(heap', (FreeSet \ {b}) \cup {b + n},
                       BlockSet \cup {b + n}, HeapEnd)
          /\ heap'.size[b] = n /\ heap'.size[b + n] = heap.size[b] - n
          /\ \A c \in BlockSet \ {b} : heap'.size[c] = heap.size[c]
      <4>1. /\ Described(heap, FreeSet, BlockSet, HeapEnd)
            /\ b \in FreeSet /\ l.bestPrev \in FreeSet \cup {NULL}
            /\ LinkAt(heap, l.bestPrev) = b /\ n \in Nat \ {0}
            /\ heap' = AllocateBlock(heap, l.bestPrev, b, n)
        BY <1>2, <1>3, <1>4, <1>5
      <4> HIDE DEF b, n
      <4> QED BY <4>1, <3>1, SplitKeeps
    <3>3. DOMAIN live' = (BlockSet \cup {b + n}) \ ((FreeSet \ {b}) \cup {b + n})
      BY <1>3, <1>4, <1>5, <3>2
    <3>4. /\ MemoryInv' /\ FreeSet' = (FreeSet \ {b}) \cup {b + n}
          /\ BlockSet' = BlockSet \cup {b + n}
      BY <2>0, <3>2, <3>3
    <3> QED BY <1>2, <1>3, <1>4, <1>11, <2>2, <3>2, <3>4 DEF Carved
  <2> QED BY <2>1, <2>2
<1>14. PendingAsk' = NULL
  <2>1. \A u \in Threads : u # t => ~(loc'[u].retry > 0)
    BY <1>0, <1>8, <1>9, Sole
  <2>2. loc'[t].block # NULL
    BY <1>0, <1>6, <1>9
  <2> QED BY <2>1, <2>2 DEF PendingAsk
<1>15. PendingAsk = IF l.retry = 0 THEN NULL ELSE l.ask
  BY <1>0, <1>1, <1>8, PendingIs DEF Asking, Asks
<1> QED BY <1>1, <1>13, <1>14, <1>15 DEF Asks

(* The extension of the heap: its memory is not part of the heap before    *)
(* the new block is on the list, nor is it when the program is killed.     *)
LEMMA ExtendKeeps ==
  ASSUME MemoryInv, LockInv', NEW t \in Threads, MallocExtend(t)
  PROVE  /\ MemoryInv'
         /\ FreeSet' = FreeSet /\ BlockSet' = BlockSet /\ HeapEnd' = HeapEnd
         /\ live' = live /\ PendingAsk' = PendingAsk
         /\ \A a \in Address : a < HeapEnd => /\ heap'.size[a] = heap.size[a]
                                             /\ heap'.next[a] = heap.next[a]
<1> DEFINE l == loc[t]
<1>0. /\ l \in LocalsType /\ pc[t] = "m_search" /\ ~crashed
      /\ l.cur = NULL /\ l.best = NULL
      /\ Works(pc[t], l) /\ Shape(pc[t], l)
      /\ Knows(pc[t], l, heap, FreeSet, BlockSet)
      /\ loc = [u \in Threads |-> loc[u]]
      /\ debug \in BOOLEAN
      /\ Holds(t) = Locks(pc[t], l)
      /\ LockInv
  BY Known DEF MemoryInv, Extent, MallocExtend, At
<1>1. /\ Asks("m_search", l) /\ l.after = "return" /\ l.retry \in {0, 1}
      /\ Place(l, heap, FreeSet) /\ Searched(l, heap, FreeSet)
  BY <1>0 DEF Works, Knows, Shape, Resuming, Waiting, MallocLabels
<1>2. /\ heap \in HeapRecords /\ Described(heap, FreeSet, BlockSet, HeapEnd)
      /\ Listed(heap, FreeSet) /\ Tiled(heap, BlockSet, HeapEnd)
      /\ FreeSet \subseteq BlockSet /\ FreeSet \subseteq Address
      /\ BlockSet \subseteq Address
      /\ Address \subseteq Nat
      /\ DOMAIN live = BlockSet \ FreeSet
      /\ HEAP_SIZE \in Nat \ {0} /\ NULL = -1
  BY Known, Addresses DEF MemoryInv
<1>3. \A c \in FreeSet : heap.size[c] < l.size
  <2>1. \A c \in FreeSet : c <= l.prev
    BY <1>0, <1>1, <1>2 DEF Place, Listed, Follows
  <2> QED BY <2>1, <1>0, <1>1 DEF Searched
<1>4. l.retry = 0 /\ l.block = NULL
  <2>1. l.size <= HEAP_SIZE /\ l.size \in Nat /\ l.block = NULL
    BY <1>0, <1>1 DEF Asks, LocalsType
  <2>2. l.retry = 1 => HEAP_SIZE \in FreeSet /\ heap.size[HEAP_SIZE] = HEAP_SIZE
    BY <1>0, <2>1 DEF Knows
  <2> QED BY <2>1, <2>2, <1>1, <1>2, <1>3
<1>5. Holds(t) > 0
  BY <1>0, <1>1 DEF Locks, Resuming, Waiting, LocalsType
<1>6. \A u \in Threads : pc[u] # "m_insert"
  BY <1>0, <1>5, Sole
<1>7. HeapEnd = heapSize
  BY <1>0, <1>6 DEF HeapEnd, Inserting
<1>8. /\ heapSize' = heapSize + HEAP_SIZE
      /\ reserved' = reserved + (heapSize + HEAP_SIZE)
      /\ brk' = brk + ((heapSize + HEAP_SIZE) - reserved) \/ brk' = brk
      /\ UNCHANGED <<mutex, held, live, debug>>
  BY DEF MallocExtend, AllocHeap, appVars
<1>9. /\ reserved \in Nat
      /\ \/ heapSize = HEAP_SIZE /\ brk = HEAP_SIZE /\ reserved = HEAP_SIZE
         \/ /\ heapSize = 2 * HEAP_SIZE /\ brk = 2 * HEAP_SIZE
            /\ reserved = 3 * HEAP_SIZE
  BY <1>0 DEF MemoryInv, Extent
<1>10. ~Asking(l)
  BY <1>4 DEF Asking
<1>11. CASE heapSize >= brk'
  <2>1. crashed' = TRUE /\ UNCHANGED <<heap, pc, loc>>
    BY <1>11 DEF MallocExtend
  <2>2. Extent'
    <3>1. reserved' \in Nat
      BY <1>2, <1>8, <1>9
    <3>2. \/ heapSize' = 2 * HEAP_SIZE /\ brk' = HEAP_SIZE
          \/ heapSize' = 3 * HEAP_SIZE /\ brk' = 2 * HEAP_SIZE
      BY <1>2, <1>8, <1>9, <1>11
    <3> QED BY <3>1, <3>2, <2>1, <1>0, <1>6, <1>8 DEF Extent
  <2>3. HeapEnd' = HeapEnd
    <3>1. HeapEnd' = heapSize' - HEAP_SIZE
      BY <2>1 DEF HeapEnd, Inserting
    <3> QED BY <3>1, <1>2, <1>7, <1>8, <1>9
  <2>4. loc' = [loc EXCEPT ![t] = l] /\ Goto(t, pc[t]) /\ pc[t] \in Labels
    BY <1>0, <2>1 DEF Goto, LockInv
  <2>5. Owned'
    <3> HIDE DEF l
    <3> QED BY <1>8, <2>4, ClaimsKept DEF l
  <2>6. Described(heap', FreeSet, BlockSet, HeapEnd') /\ DOMAIN live' = BlockSet \ FreeSet
    BY <1>2, <1>8, <2>1, <2>3
  <2>7. Works(pc[t], l) /\ Knows(pc[t], l, heap', FreeSet, BlockSet)
    BY <1>0, <2>1
  <2>8. MemoryInv' /\ FreeSet' = FreeSet /\ BlockSet' = BlockSet
    <3> HIDE DEF l
    <3> QED BY <1>5, <2>2, <2>4, <2>5, <2>6, <2>7, Kept
  <2>9. PendingAsk' = PendingAsk
    BY <1>0, <2>4, PendingKept
  <2> QED BY <1>8, <2>1, <2>3, <2>8, <2>9
<1>12. CASE ~(heapSize >= brk')
  <2> DEFINE r == [l EXCEPT !.block = heapSize, !.prev = NULL, !.cur = heap.first]
  <2>1. /\ heap' = [heap EXCEPT !.size[heapSize] = HEAP_SIZE,
                                !.next[heapSize] = NULL]
        /\ Goto(t, "m_insert")
        /\ loc' = [loc EXCEPT ![t] = r]
        /\ crashed' = crashed
    BY <1>0, <1>12 DEF MallocExtend
  <2>2. /\ heapSize = HEAP_SIZE /\ heapSize' = 2 * HEAP_SIZE
        /\ brk' = 2 * HEAP_SIZE /\ reserved' = 3 * HEAP_SIZE
    BY <1>2, <1>8, <1>9, <1>12
  <2>3. /\ r \in LocalsType /\ r.block = HEAP_SIZE /\ r.prev = NULL
        /\ r.cur = heap.first /\ r.retry = 0 /\ r.after = "return"
        /\ r.ask = l.ask /\ r.size = l.size
    <3>1. heap.first \in Pointer /\ NULL \in Pointer /\ heapSize \in Pointer
      BY <1>2, <2>2 DEF HeapRecords, Pointer
    <3> QED BY <3>1, <1>0, <1>1, <1>4, <2>2 DEF LocalsType
  <2> HIDE DEF r
  <2>4. HEAP_SIZE \in Address /\ HEAP_SIZE \notin BlockSet /\ HEAP_SIZE \notin FreeSet
    BY <1>2, <1>7, <2>2, Addresses DEF Tiled
  <2>5. /\ heap' \in HeapRecords /\ heap'.first = heap.first
        /\ heap'.size[HEAP_SIZE] = HEAP_SIZE /\ heap'.next[HEAP_SIZE] = NULL
        /\ \A a \in Address \ {HEAP_SIZE} : /\ heap'.size[a] = heap.size[a]
                                            /\ heap'.next[a] = heap.next[a]
    <3>1. /\ heap.size \in [Address -> Nat]
          /\ heap.next \in [Address -> Address \cup {NULL}]
          /\ heap.first \in Address \cup {NULL}
      BY <1>2 DEF HeapRecords
    <3>2. heap' = [size  |-> [heap.size EXCEPT ![HEAP_SIZE] = HEAP_SIZE],
                   next  |-> [heap.next EXCEPT ![HEAP_SIZE] = NULL],
                   first |-> heap.first]
      BY <1>2, <2>1, <2>2 DEF HeapRecords
    <3> QED BY <3>1, <3>2, <1>2, <2>4 DEF HeapRecords
  <2>6. Described(heap', FreeSet, BlockSet, HEAP_SIZE)
    <3>1. \A p \in FreeSet \cup {NULL} : LinkAt(heap', p) = LinkAt(heap, p)
      BY <1>2, <2>4, <2>5 DEF LinkAt
    <3>2. Listed(heap', FreeSet)
      BY <3>1, <1>2, <2>5 DEF Listed
    <3>3. \A c \in BlockSet : heap'.size[c] = heap.size[c]
      BY <1>2, <2>4, <2>5
    <3>4. Tiled(heap, BlockSet, HEAP_SIZE)
      BY <1>2, <1>7, <2>2
    <3>5. \A a \in Address \ BlockSet : a = HEAP_SIZE \/ heap'.size[a] = 0
      BY <3>4, <2>5 DEF Tiled
    <3>6. Tiled(heap', BlockSet, HEAP_SIZE)
      BY <3>3, <3>4, <3>5 DEF Tiled
    <3> QED BY <3>2, <3>6, <1>2, <2>5 DEF Described
  <2>7. HeapEnd' = HEAP_SIZE /\ HeapEnd = HEAP_SIZE
    <3>1. pc'[t] = "m_insert"
      BY <1>0, <2>1 DEF Goto, LockInv
    <3> QED BY <3>1, <1>2, <1>7, <2>2 DEF HeapEnd, Inserting
  <2>8. Extent'
    <3>1. crashed \in BOOLEAN /\ crashed' = crashed /\ debug' = debug
      BY <1>8, <2>1 DEF MemoryInv, Extent
    <3>2. reserved' \in Nat
      BY <1>2, <2>2
    <3> QED BY <3>1, <3>2, <1>0, <2>2 DEF Extent
  <2>9. Owned'
    <3>1. Claim("m_insert", r) = Claim(pc[t], loc[t])
      BY <1>0, <1>4 DEF Claim
    <3> QED BY <3>1, <1>8, <2>1, ClaimsKept DEF Labels
  <2>10. Works("m_insert", r)
    BY <1>1, <1>4, <2>3 DEF Works, Asks, Resuming, Waiting, MallocLabels
  <2>11. Knows("m_insert", r, heap', FreeSet, BlockSet)
    <3>1. Place(r, heap', FreeSet) /\ r.prev < r.block
      BY <1>2, <2>3, <2>5 DEF Place, LinkAt
    <3>2. \A c \in FreeSet : heap'.size[c] < r.size
      BY <1>2, <1>3, <2>3, <2>4, <2>5
    <3> QED BY <3>1, <3>2, <2>3, <2>5 DEF Knows, Resuming, Waiting
  <2>12. MemoryInv' /\ FreeSet' = FreeSet /\ BlockSet' = BlockSet
    <3>1. Described(heap', FreeSet, BlockSet, HeapEnd') /\ DOMAIN live' = BlockSet \ FreeSet
      BY <1>2, <1>8, <2>6, <2>7
    <3>2. "m_insert" \in Labels
      BY DEF Labels
    <3> QED BY <3>1, <3>2, <1>5, <2>1, <2>8, <2>9, <2>10, <2>11, Kept
  <2>13. PendingAsk' = PendingAsk
    <3>1. ~Asking(r)
      BY <2>3 DEF Asking
    <3> QED BY <3>1, <1>0, <1>10, <2>1, PendingKept
  <2> QED BY <1>2, <1>8, <2>5, <2>7, <2>12, <2>13
<1> QED BY <1>11, <1>12

(* The new block goes on the list, at its end.                             *)
LEMMA NewBlockKeeps ==
  ASSUME MemoryInv, LockInv', NEW t \in Threads, MallocInsert(t)
  PROVE  /\ MemoryInv'
         /\ HeapEnd = HEAP_SIZE /\ HeapEnd' = 2 * HEAP_SIZE
         /\ HEAP_SIZE \notin BlockSet
         /\ FreeSet' = FreeSet \cup {HEAP_SIZE}
         /\ BlockSet' = BlockSet \cup {HEAP_SIZE}
         /\ heap'.size = heap.size /\ heap.size[HEAP_SIZE] = HEAP_SIZE
         /\ live' = live
         /\ loc[t].ask \in Requests /\ BlockSize(loc[t].ask) <= HEAP_SIZE
         /\ \A c \in FreeSet : heap.size[c] < BlockSize(loc[t].ask)
         /\ PendingAsk = NULL /\ PendingAsk' = loc[t].ask
<1> DEFINE l == loc[t]
           r == [l EXCEPT !.retry = @ + 1, !.block = NULL]
<1>0. /\ l \in LocalsType /\ pc[t] = "m_insert" /\ ~crashed /\ ~Before(l)
      /\ Works(pc[t], l) /\ Shape(pc[t], l)
      /\ Knows(pc[t], l, heap, FreeSet, BlockSet)
      /\ loc = [u \in Threads |-> loc[u]]
      /\ debug \in BOOLEAN
      /\ Holds(t) = Locks(pc[t], l)
      /\ LockInv
  BY Known DEF MemoryInv, Extent, MallocInsert, At
<1>1. /\ Asks("m_insert", l) /\ l.after = "return" /\ l.retry = 0
      /\ Place(l, heap, FreeSet) /\ l.prev < HEAP_SIZE /\ l.block = HEAP_SIZE
      /\ heap.size[HEAP_SIZE] = HEAP_SIZE
      /\ \A c \in FreeSet : heap.size[c] < l.size
  BY <1>0 DEF Works, Knows, Shape, Resuming, Waiting, MallocLabels
<1>2. /\ heap \in HeapRecords /\ Described(heap, FreeSet, BlockSet, HeapEnd)
      /\ Listed(heap, FreeSet) /\ Tiled(heap, BlockSet, HeapEnd)
      /\ FreeSet \subseteq BlockSet /\ FreeSet \subseteq Address
      /\ BlockSet \subseteq Address
      /\ Address \subseteq Nat
      /\ DOMAIN live = BlockSet \ FreeSet
      /\ HEAP_SIZE \in Nat \ {0} /\ NULL = -1
      /\ heap.size \in [Address -> Nat]
  BY Known, Addresses DEF MemoryInv, HeapRecords
<1>3. /\ heap' = Insert(heap, l) /\ Goto(t, "m_retry")
      /\ loc' = [loc EXCEPT ![t] = r]
      /\ UNCHANGED <<heapSize, reserved, brk, crashed, mutex, held, live, debug>>
  BY DEF MallocInsert, appVars
<1>4. /\ r \in LocalsType /\ r.retry = 1 /\ r.block = NULL /\ r.ask = l.ask
      /\ r.size = l.size /\ r.after = "return"
  <2>1. 0 + 1 = 1 /\ 1 \in Nat /\ NULL \in Pointer
    BY DEF Pointer
  <2>2. r = [l EXCEPT !.retry = 1, !.block = NULL]
    BY <1>1, <2>1
  <2> HIDE DEF r
  <2> QED BY <2>1, <2>2, <1>0, <1>1 DEF LocalsType
<1> HIDE DEF r
<1>5. Holds(t) > 0
  BY <1>0, <1>1 DEF Locks, Resuming, Waiting
<1>6. /\ \A u \in Threads : u # t => pc'[u] = pc[u] /\ loc'[u] = loc[u]
      /\ pc'[t] = "m_retry" /\ loc'[t] = r
  BY <1>0, <1>3 DEF Goto, LockInv
<1>7. heapSize = 2 * HEAP_SIZE
  BY <1>0 DEF MemoryInv, Extent
<1>8. HeapEnd = HEAP_SIZE /\ HeapEnd' = 2 * HEAP_SIZE
  <2>1. HeapEnd = heapSize - HEAP_SIZE
    BY <1>0 DEF HeapEnd, Inserting
  <2>2. \A u \in Threads : pc'[u] # "m_insert"
    BY <1>0, <1>5, <1>6, Sole
  <2>3. HeapEnd' = heapSize
    BY <1>0, <1>3, <2>2 DEF HeapEnd, Inserting
  <2> QED BY <2>1, <2>3, <1>2, <1>7
<1>9. HEAP_SIZE \in Address /\ HEAP_SIZE \notin BlockSet /\ HEAP_SIZE \notin FreeSet
  BY <1>2, <1>8, Addresses DEF Tiled
<1>10. /\ heap' \in HeapRecords /\ heap'.size = heap.size
       /\ Listed(heap', FreeSet \cup {HEAP_SIZE})
  <2>1. l.cur = NULL \/ HEAP_SIZE < l.cur
    <3>1. l.cur = NULL \/ l.cur \in FreeSet
      BY <1>1, <1>2 DEF Place, Listed, Follows
    <3> QED BY <3>1, <1>0, <1>1, <1>2, <1>9 DEF Before
  <2>2. /\ l.prev \in FreeSet \cup {NULL} /\ l.cur = LinkAt(heap, l.prev)
        /\ heap' = SetNext([heap EXCEPT !.next[HEAP_SIZE] = l.cur], l.prev, HEAP_SIZE)
    BY <1>1, <1>3 DEF Place, Insert
  <2>3. /\ heap \in HeapRecords /\ Listed(heap, FreeSet)
        /\ HEAP_SIZE \in Address \ FreeSet /\ l.prev < HEAP_SIZE
    BY <1>1, <1>2, <1>9
  <2> HIDE DEF l
  <2> QED BY <2>1, <2>2, <2>3, InsertKeeps
<1>11. Described(heap', FreeSet \cup {HEAP_SIZE}, BlockSet \cup {HEAP_SIZE}, 2 * HEAP_SIZE)
  <2> DEFINE B == BlockSet \cup {HEAP_SIZE}
  <2>1. Tiled(heap, BlockSet, HEAP_SIZE)
    BY <1>2, <1>8
  <2>2. /\ 2 * HEAP_SIZE \in 0 .. 2 * HEAP_SIZE
        /\ 0 \in B /\ B \subseteq 0 .. 2 * HEAP_SIZE - 1
    <3>1. 0 \in BlockSet /\ \A d \in BlockSet : d \in Nat /\ d < HEAP_SIZE
      BY <2>1, <1>2 DEF Tiled
    <3>2. \A d \in B : d \in 0 .. 2 * HEAP_SIZE - 1
      BY <3>1, <1>2
    <3> QED BY <3>1, <3>2, <1>2
  <2>3. ASSUME NEW b \in B
        PROVE  /\ heap.size[b] > 0
               /\ b + heap.size[b] \in B \cup {2 * HEAP_SIZE}
    <3>1. CASE b \in BlockSet
      BY <2>1, <3>1 DEF Tiled
    <3>2. CASE b = HEAP_SIZE
      BY <3>2, <1>1, <1>2
    <3> QED BY <3>1, <3>2
  <2>4. ASSUME NEW b \in B, NEW c \in B, b < c
        PROVE  b + heap.size[b] <= c
    <3>1. \A d \in BlockSet : d \in Nat /\ d < HEAP_SIZE
      BY <2>1, <1>2 DEF Tiled
    <3>2. b \in BlockSet /\ heap.size[b] \in Nat
      <4>1. c \in Nat /\ c <= HEAP_SIZE
        BY <3>1, <1>2
      <4>2. b # HEAP_SIZE
        BY <2>4, <4>1, <1>2
      <4> QED BY <4>2, <1>2
    <3>3. CASE c \in BlockSet
      BY <2>1, <2>4, <3>2, <3>3 DEF Tiled
    <3>4. CASE c = HEAP_SIZE
      <4>1. b + heap.size[b] \in BlockSet \cup {HEAP_SIZE}
        BY <2>1, <3>2 DEF Tiled
      <4>2. \A e \in BlockSet \cup {HEAP_SIZE} : e <= HEAP_SIZE
        BY <3>1, <1>2
      <4> QED BY <4>1, <4>2, <3>4
    <3> QED BY <3>3, <3>4
  <2>5. \A a \in Address \ B : heap.size[a] = 0
    BY <2>1 DEF Tiled
  <2>6. Tiled(heap', B, 2 * HEAP_SIZE)
    <3> HIDE DEF B
    <3> QED BY <2>2, <2>3, <2>4, <2>5, <1>10 DEF Tiled
  <2> QED BY <2>6, <1>2, <1>10 DEF Described
<1>12. MemoryInv' /\ FreeSet' = FreeSet \cup {HEAP_SIZE}
       /\ BlockSet' = BlockSet \cup {HEAP_SIZE}
  <2>1. "m_retry" \in Labels
    BY DEF Labels
  <2>2. Owned'
    <3>1. Claim("m_retry", r) = Claim(pc[t], loc[t])
      BY <1>0, <1>4 DEF Claim
    <3> QED BY <3>1, <1>3, <2>1, ClaimsKept
  <2>3. Extent'
    BY <1>0, <1>3, <1>6 DEF MemoryInv, Extent
  <2>4. Works("m_retry", r)
    BY <1>1, <1>4 DEF Works, Asks, Resuming, Waiting, MallocLabels
  <2>5. Knows("m_retry", r, heap', FreeSet \cup {HEAP_SIZE}, BlockSet \cup {HEAP_SIZE})
    BY <1>1, <1>10, <1>4 DEF Knows, Resuming, Waiting
  <2>6. DOMAIN live' = (BlockSet \cup {HEAP_SIZE}) \ (FreeSet \cup {HEAP_SIZE})
    BY <1>2, <1>3, <1>9
  <2>7. Described(heap', FreeSet \cup {HEAP_SIZE}, BlockSet \cup {HEAP_SIZE}, HeapEnd')
    BY <1>8, <1>11
  <2> QED BY <2>1, <2>2, <2>3, <2>4, <2>5, <2>6, <2>7, <1>3, <1>5, Kept
<1>13. PendingAsk = NULL
  BY <1>0, <1>1, <1>5, PendingIs DEF Asking
<1>14. PendingAsk' = l.ask
  <2> DEFINE V == {u \in Threads : loc'[u].retry > 0 /\ loc'[u].block = NULL}
  <2>1. V = {t}
    BY <1>0, <1>4, <1>5, <1>6, Sole
  <2>2. PendingAsk' = IF V = {} THEN NULL ELSE loc'[CHOOSE u \in V : TRUE].ask
    BY DEF PendingAsk
  <2>3. (CHOOSE u \in {t} : TRUE) = t
    OBVIOUS
  <2> HIDE DEF V
  <2> QED BY <2>1, <2>2, <2>3, <1>4, <1>6
<1>15. l.size = BlockSize(l.ask) /\ l.ask \in Requests /\ BlockSize(l.ask) <= HEAP_SIZE
  BY <1>1 DEF Asks
<1> QED BY <1>1, <1>3, <1>8, <1>9, <1>10, <1>12, <1>13, <1>14, <1>15

(* my_free of the block a, which becomes part of the free block at s: the  *)
(* one that ends where a begins, if there is one, or a itself.             *)
Ends(h, b) == b + h.size[b]
Starts(h, F, a, s) == \/ s = a /\ \A q \in F : Ends(h, q) # a
                      \/ /\ s \in F /\ Ends(h, s) = a
                         /\ \A q \in F : Ends(h, q) = a => q = s
Gone(h, F, a, s) == ({a} \cup (F \cap {Ends(h, a)})) \ {s}
Reach(h, F, a)   == IF Ends(h, a) \in F THEN Ends(h, Ends(h, a)) ELSE Ends(h, a)

(* From h to m: the blocks that it swallows leave the heap and the list.   *)
Freed(h, m, F, B, end, a) ==
    \E s \in F \cup {a} :
        /\ Starts(h, F, a, s)
        /\ Described(m, (F \cup {s}) \ Gone(h, F, a, s), B \ Gone(h, F, a, s), end)
        /\ m.size[s] = Reach(h, F, a) - s
        /\ \A c \in (B \ Gone(h, F, a, s)) \ {s} : m.size[c] = h.size[c]

LEMMA FreeInsertKeeps ==
  ASSUME NEW h, NEW F, NEW B, NEW end, Described(h, F, B, end),
         NEW a \in B \ F, NEW l, l.block = a,
         l.prev \in F \cup {NULL}, l.prev < a, l.cur = LinkAt(h, l.prev),
         l.cur = NULL \/ a < l.cur,
         NEW m, m = FreeInsert(h, l)
  PROVE  Freed(h, m, F, B, end, a)
<1> DEFINE p == l.prev
           n == l.cur
           e == Ends(h, a)
           i == Insert(h, l)
<1>0. /\ h \in HeapRecords /\ Listed(h, F) /\ Tiled(h, B, end)
      /\ F \subseteq B /\ B \subseteq Address /\ B \subseteq Nat /\ F \subseteq Nat
      /\ h.size \in [Address -> Nat]
      /\ a \in Address /\ a \in Nat /\ NULL = -1
      /\ \A c \in B : h.size[c] \in Nat /\ h.size[c] > 0
      /\ h.size[a] \in Nat /\ h.size[a] > 0
  BY Addresses DEF Described, Tiled, HeapRecords
<1>1. /\ n = NULL => \A c \in F : c <= p
      /\ n # NULL => n \in F /\ p < n /\ n \in Nat /\ a < n /\ \A c \in F : c <= p \/ n <= c
      /\ p \in Int /\ p < a /\ (p # NULL => p \in F /\ p \in Nat)
  <2>1. p \in F \cup {NULL} /\ p < a /\ (n = NULL \/ a < n) /\ n = LinkAt(h, p)
    OBVIOUS
  <2>2. Follows(F, p, n)
    BY <1>0, <2>1 DEF Listed
  <2> HIDE DEF p, n
  <2>3. n = NULL => \A c \in F : c <= p
    BY <2>2 DEF Follows
  <2>4. n # NULL => n \in F /\ p < n /\ n \in Nat /\ a < n /\ \A c \in F : c <= p \/ n <= c
    BY <1>0, <2>1, <2>2 DEF Follows
  <2>5. p \in Int /\ p < a /\ (p # NULL => p \in F /\ p \in Nat)
    BY <1>0, <2>1
  <2> QED BY <2>3, <2>4, <2>5
<1>2. /\ i \in HeapRecords /\ i.size = h.size
      /\ Listed(i, F \cup {a})
      /\ LinkAt(i, p) = a /\ LinkAt(i, a) = n
  <2>1. i = SetNext([h EXCEPT !.next[a] = n], p, a)
    BY DEF Insert
  <2> HIDE DEF i
  <2> QED BY <2>1, <1>0, InsertKeeps
<1>3. Described(i, F \cup {a}, B, end)
  <2>1. Tiled(i, B, end)
    BY <1>0, <1>2 DEF Tiled
  <2> QED BY <2>1, <1>0, <1>2 DEF Described
<1>4. e \in Nat /\ a < e
  BY <1>0 DEF Ends
<1>5. e \in F <=> n # NULL /\ n = e
  <2>1. ASSUME e \in F PROVE n # NULL /\ n = e
    <3>1. ~(e <= p)
      BY <1>1, <1>4, <1>0
    <3>2. n # NULL /\ n <= e
      BY <2>1, <3>1, <1>1
    <3>3. e <= n
      BY <3>2, <1>0, <1>1 DEF Tiled, Ends
    <3> QED BY <3>2, <3>3, <1>1, <1>4
  <2> QED BY <2>1, <1>1
<1>6. ASSUME NEW q \in F, Ends(h, q) = a PROVE p # NULL /\ q = p
  <2>1. q < a /\ q \in Nat /\ q \in B
    BY <1>0, <1>6 DEF Ends
  <2>2. q <= p
    BY <2>1, <1>0, <1>1
  <2>3. p # NULL /\ p \in F
    BY <2>1, <2>2, <1>0, <1>1
  <2>4. q < p => a <= p
    BY <2>3, <1>0, <1>6 DEF Tiled, Ends
  <2> QED BY <2>1, <2>2, <2>3, <2>4, <1>0, <1>1
<1> HIDE DEF i
<1> DEFINE s == IF Neighbours(i, p, a) THEN p ELSE a
           k == Merge(i, p, a)
<1>7. m = Merge(k, s, n)
  BY DEF FreeInsert, i
<1>8. /\ s \in F \cup {a} /\ Starts(h, F, a, s) /\ s \in Nat /\ s <= a
      /\ Described(k, (F \cup {s}) \ ({a} \ {s}), B \ ({a} \ {s}), end)
      /\ k.size[s] = e - s /\ k.next[s] = n
      /\ \A c \in (B \ ({a} \ {s})) \ {s} : k.size[c] = h.size[c]
  <2>1. CASE Neighbours(i, p, a)
    <3>1. p # NULL /\ p \in F /\ p \in Nat /\ Ends(h, p) = a /\ a # NULL
      BY <2>1, <1>1, <1>2 DEF Neighbours, Ends
    <3>2. a = i.next[p] /\ i.next[a] = n
      BY <3>1, <1>2 DEF LinkAt
    <3>3. /\ Described(k, (F \cup {a}) \ {a}, B \ {a}, end)
          /\ k.size[p] = i.size[p] + i.size[a]
          /\ \A d \in B \ {p, a} : k.size[d] = i.size[d]
          /\ k.next[p] = i.next[a]
      <4> DEFINE G == F \cup {a}
      <4>1. p \in G /\ k = Merge(i, p, a) /\ Described(i, G, B, end)
        BY <3>1, <1>3
      <4> HIDE DEF p, k, G
      <4>2. /\ Described(k, G \ {a}, B \ {a}, end)
            /\ k.size[p] = i.size[p] + i.size[a]
            /\ \A d \in B \ {p, a} : k.size[d] = i.size[d]
            /\ k.next[p] = i.next[a]
        <5>1. Neighbours(i, p, a) /\ i.next[p] = a
          BY <2>1, <3>2
        <5> HIDE DEF s, n, e
        <5>2. Merged(i, k, G, B, end, p, a)
          BY <4>1, <5>1, MergeKeeps
        <5> QED BY <5>2 DEF Merged
      <4> QED BY <4>2 DEF G
    <3>4. s = p /\ (F \cup {a}) \ {a} = (F \cup {s}) \ ({a} \ {s})
          /\ B \ {a} = B \ ({a} \ {s})
          /\ (B \ ({a} \ {s})) \ {s} = B \ {p, a}
      BY <2>1, <3>1, <1>0, <1>1
    <3>5. Starts(h, F, a, s)
      BY <3>1, <3>4, <1>6 DEF Starts
    <3>6. k.size[p] = e - p
      BY <3>1, <3>3, <1>0, <1>2 DEF Ends
    <3>7. k.size[s] = e - s /\ k.next[s] = n /\ s \in F \cup {a} /\ s \in Nat /\ s <= a
      <4>1. p <= a
        BY <3>1, <1>0, <1>1
      <4> HIDE DEF s, k, p, n, e
      <4> QED BY <4>1, <3>1, <3>2, <3>3, <3>4, <3>6
    <3>8. \A c \in (B \ ({a} \ {s})) \ {s} : k.size[c] = h.size[c]
      <4> HIDE DEF s, k, p
      <4> QED BY <3>3, <3>4, <1>2
    <3>9. Described(k, (F \cup {s}) \ ({a} \ {s}), B \ ({a} \ {s}), end)
      <4> HIDE DEF s, k, p
      <4> QED BY <3>3, <3>4
    <3> HIDE DEF s, k, p, n, e
    <3> QED BY <3>5, <3>7, <3>8, <3>9
  <2>2. CASE ~Neighbours(i, p, a)
    <3>1. k = i /\ s = a
      BY <2>2 DEF Merge
    <3>2. \A q \in F : Ends(h, q) # a
      <4> SUFFICES ASSUME NEW q \in F, Ends(h, q) = a PROVE FALSE
        OBVIOUS
      <4>1. p # NULL /\ q = p
        BY <1>6
      <4> QED BY <4>1, <2>2, <1>0, <1>2 DEF Neighbours, Ends
    <3>3. (F \cup {s}) \ ({a} \ {s}) = F \cup {a} /\ B \ ({a} \ {s}) = B
      BY <3>1, <1>0
    <3>4. k.size[s] = e - s /\ k.next[s] = n
      <4>1. a # NULL
        BY <1>0
      <4>2. i.next[a] = n /\ i.size[a] = h.size[a]
        BY <4>1, <1>2 DEF LinkAt
      <4> QED BY <3>1, <4>2, <1>0 DEF Ends
    <3>5. \A c \in (B \ ({a} \ {s})) \ {s} : k.size[c] = h.size[c]
      BY <3>1, <1>2
    <3>6. Starts(h, F, a, s) /\ s \in F \cup {a} /\ s \in Nat /\ s <= a
      BY <3>1, <3>2, <1>0 DEF Starts
    <3>7. Described(k, (F \cup {s}) \ ({a} \ {s}), B \ ({a} \ {s}), end)
      BY <3>1, <3>3, <1>3
    <3> QED BY <3>4, <3>5, <3>6, <3>7
  <2> QED BY <2>1, <2>2
<1> DEFINE F1 == (F \cup {s}) \ ({a} \ {s})
           B1 == B \ ({a} \ {s})
<1> HIDE DEF s, k, p, n, e
<1>9. CASE e \in F
  <2>1. n = e /\ n # NULL /\ Neighbours(k, s, n)
    BY <1>0, <1>4, <1>5, <1>8, <1>9 DEF Neighbours
  <2>2. s \in F1
    BY <1>8
  <2>3. /\ Described(m, F1 \ {n}, B1 \ {n}, end)
        /\ m.size[s] = k.size[s] + k.size[n]
        /\ \A d \in B1 \ {s, n} : m.size[d] = k.size[d]
    <3>1. Described(k, F1, B1, end) /\ k.next[s] = n
      BY <1>8
    <3> HIDE DEF F1, B1
    <3>2. Merged(k, m, F1, B1, end, s, n)
      BY <1>7, <2>1, <2>2, <3>1, MergeKeeps
    <3> QED BY <3>2 DEF Merged
  <2>4. e # s /\ e # a /\ e \in B
    BY <1>0, <1>4, <1>8, <1>9
  <2>5. Gone(h, F, a, s) = ({a} \ {s}) \cup {e}
    BY <1>9, <2>4 DEF Gone, e
  <2>6. F1 \ {n} = (F \cup {s}) \ Gone(h, F, a, s) /\ B1 \ {n} = B \ Gone(h, F, a, s)
    BY <2>1, <2>5
  <2>7. k.size[n] = h.size[e]
    BY <1>8, <2>1, <2>4
  <2>8. m.size[s] = Reach(h, F, a) - s
    <3>1. Reach(h, F, a) = e + h.size[e]
      BY <1>9 DEF Reach, Ends, e
    <3>2. h.size[e] \in Nat
      BY <1>0, <2>4
    <3> QED BY <3>1, <3>2, <2>3, <2>7, <1>4, <1>8
  <2>9. \A c \in (B \ Gone(h, F, a, s)) \ {s} : m.size[c] = h.size[c]
    BY <1>8, <2>1, <2>3, <2>5
  <2> QED BY <2>3, <2>6, <2>8, <2>9, <1>8 DEF Freed
<1>10. CASE e \notin F
  <2>1. ~Neighbours(k, s, n)
    BY <1>0, <1>4, <1>5, <1>8, <1>10 DEF Neighbours
  <2>2. m = k
    BY <1>7, <2>1 DEF Merge
  <2>3. Gone(h, F, a, s) = {a} \ {s}
    BY <1>10 DEF Gone, e
  <2>4. Reach(h, F, a) = e
    BY <1>10 DEF Reach, e
  <2>5. /\ Described(m, (F \cup {s}) \ Gone(h, F, a, s), B \ Gone(h, F, a, s), end)
        /\ m.size[s] = Reach(h, F, a) - s
        /\ \A c \in (B \ Gone(h, F, a, s)) \ {s} : m.size[c] = h.size[c]
    BY <1>8, <2>2, <2>3, <2>4
  <2> QED BY <1>8, <2>5 DEF Freed
<1> QED BY <1>9, <1>10

Joined(a, s) ==
    /\ a \in DOMAIN live /\ s \in FreeSet \cup {a}
    /\ Starts(heap, FreeSet, a, s)
    /\ HeapEnd' = HeapEnd
    /\ FreeSet' = (FreeSet \cup {s}) \ Gone(heap, FreeSet, a, s)
    /\ BlockSet' = BlockSet \ Gone(heap, FreeSet, a, s)
    /\ heap'.size[s] = Reach(heap, FreeSet, a) - s
    /\ \A c \in BlockSet' \ {s} : heap'.size[c] = heap.size[c]

LEMMA FreeKeeps ==
  ASSUME MemoryInv, LockInv', NEW t \in Threads, FreeBlock(t)
  PROVE  /\ MemoryInv'
         /\ \E s : Joined(loc[t].block, s)
         /\ PendingAsk = NULL /\ PendingAsk' = NULL
<1> DEFINE l == loc[t]
           a == l.block
           r == [l EXCEPT !.block = NULL]
<1>0. /\ l \in LocalsType /\ pc[t] = "f_walk" /\ ~crashed /\ ~Before(l)
      /\ Works(pc[t], l) /\ Shape(pc[t], l)
      /\ Knows(pc[t], l, heap, FreeSet, BlockSet)
      /\ loc = [u \in Threads |-> loc[u]]
      /\ Holds(t) = Locks(pc[t], l)
      /\ LockInv
  BY Known DEF MemoryInv, FreeBlock, At
<1>1. /\ l.after = "return" /\ l.retry = 0 /\ a # NULL
      /\ Place(l, heap, FreeSet) /\ l.prev < a
  BY <1>0 DEF Works, Knows, Shape, Resuming, Waiting
<1>2. /\ heap \in HeapRecords /\ Described(heap, FreeSet, BlockSet, HeapEnd)
      /\ Listed(heap, FreeSet)
      /\ FreeSet \subseteq BlockSet /\ FreeSet \subseteq Nat
      /\ BlockSet \subseteq Nat
      /\ DOMAIN live = BlockSet \ FreeSet
  BY Known DEF MemoryInv
<1>3. /\ heap' = FreeInsert(heap, l) /\ Goto(t, "f_unlock")
      /\ loc' = [loc EXCEPT ![t] = r]
      /\ live' = [b \in DOMAIN live \ {a} |-> live[b]]
      /\ UNCHANGED <<heapSize, reserved, brk, crashed, mutex, held, debug>>
  BY DEF FreeBlock
<1>4. /\ r \in LocalsType /\ r.retry = 0 /\ r.block = NULL /\ r.after = "return"
  <2>1. NULL \in Pointer
    BY DEF Pointer
  <2> QED BY <2>1, <1>0, <1>1 DEF LocalsType
<1> HIDE DEF r
<1>5. Holds(t) > 0
  BY <1>0, <1>1 DEF Locks, Resuming, Waiting
<1>6. /\ \A u \in Threads : u # t => pc'[u] = pc[u] /\ loc'[u] = loc[u]
      /\ pc'[t] = "f_unlock" /\ loc'[t] = r
  BY <1>0, <1>3 DEF Goto, LockInv
<1>7. \A u \in Threads : pc[u] # "m_insert" /\ pc'[u] # "m_insert"
  BY <1>0, <1>5, <1>6, Sole
<1>8. HeapEnd' = HeapEnd /\ Extent'
  BY <1>3, <1>7 DEF HeapEnd, Inserting, Extent, MemoryInv
<1>9. Claim(pc[t], l) = {a} /\ a \in DOMAIN live /\ a \notin held
  <2>1. Claim(pc[t], l) = {a}
    BY <1>0, <1>1 DEF Claim
  <2>2. Claim(pc[t], l) \subseteq DOMAIN live \ held
    BY DEF MemoryInv, Owned
  <2> QED BY <2>1, <2>2
<1>10. a \in BlockSet \ FreeSet /\ a \in Nat
  BY <1>2, <1>9
<1>11. l.cur = NULL \/ a < l.cur
  <2>1. l.cur = NULL \/ l.cur \in FreeSet
    BY <1>1, <1>2 DEF Place, Listed, Follows
  <2> QED BY <2>1, <1>0, <1>2, <1>10 DEF Before
<1>12. Owned'
  <2>1. DOMAIN live' = DOMAIN live \ {a}
    BY <1>3
  <2>2. /\ Claim(pc'[t], loc'[t]) = {}
        /\ \A u \in Threads : u # t =>
              Claim(pc'[u], loc'[u]) = Claim(pc[u], loc[u])
    BY <1>4, <1>6 DEF Claim
  <2>3. ASSUME NEW u \in Threads, u # t PROVE a \notin Claim(pc[u], loc[u])
    <3>1. Claim(pc[u], loc[u]) \cap Claim(pc[t], loc[t]) = {}
      BY <2>3 DEF MemoryInv, Owned
    <3> QED BY <3>1, <1>9
  <2>4. ASSUME NEW u \in Threads
        PROVE  Claim(pc'[u], loc'[u]) \subseteq DOMAIN live' \ held'
    <3>1. Claim(pc[u], loc[u]) \subseteq DOMAIN live \ held
      BY DEF MemoryInv, Owned
    <3> QED BY <3>1, <2>1, <2>2, <2>3, <1>3
  <2>5. ASSUME NEW u \in Threads, NEW v \in Threads, u # v
        PROVE  Claim(pc'[u], loc'[u]) \cap Claim(pc'[v], loc'[v]) = {}
    <3>1. Claim(pc[u], loc[u]) \cap Claim(pc[v], loc[v]) = {}
      BY <2>5 DEF MemoryInv, Owned
    <3> QED BY <3>1, <2>2, <2>5
  <2>6. held' \subseteq DOMAIN live' /\ live' \in [DOMAIN live' -> Requests]
    <3>1. held \subseteq DOMAIN live /\ live \in [DOMAIN live -> Requests]
      BY DEF MemoryInv, Owned
    <3> QED BY <3>1, <2>1, <1>3, <1>9
  <2> QED BY <2>4, <2>5, <2>6 DEF Owned
<1>13. PICK s \in FreeSet \cup {a} :
         /\ Starts(heap, FreeSet, a, s)
         /\ Described(heap', (FreeSet \cup {s}) \ Gone(heap, FreeSet, a, s),
                      BlockSet \ Gone(heap, FreeSet, a, s), HeapEnd)
         /\ heap'.size[s] = Reach(heap, FreeSet, a) - s
         /\ \A c \in (BlockSet \ Gone(heap, FreeSet, a, s)) \ {s} :
               heap'.size[c] = heap.size[c]
  <2>1. l.prev \in FreeSet \cup {NULL} /\ l.cur = LinkAt(heap, l.prev)
    BY <1>1 DEF Place
  <2>2. l.block = a
    OBVIOUS
  <2>3. l.prev < a /\ heap' = FreeInsert(heap, l)
    BY <1>1, <1>3
  <2>4. Described(heap, FreeSet, BlockSet, HeapEnd)
    BY <1>2
  <2> HIDE DEF l, a
  <2>5. Freed(heap, heap', FreeSet, BlockSet, HeapEnd, a)
    BY <2>1, <2>2, <2>3, <2>4, <1>10, <1>11, FreeInsertKeeps
  <2> QED BY <2>5 DEF Freed
<1> DEFINE F == (FreeSet \cup {s}) \ Gone(heap, FreeSet, a, s)
           B == BlockSet \ Gone(heap, FreeSet, a, s)
<1>14. DOMAIN live' = B \ F
  <2>1. DOMAIN live' = (BlockSet \ FreeSet) \ {a}
    BY <1>2, <1>3
  <2>2. Gone(heap, FreeSet, a, s) = ({a} \cup (FreeSet \cap {Ends(heap, a)})) \ {s}
    BY DEF Gone
  <2> HIDE DEF a
  <2>3. B \ F = (BlockSet \ FreeSet) \ {a}
    BY <2>2, <1>13
  <2> QED BY <2>1, <2>3
<1>15. MemoryInv' /\ FreeSet' = F /\ BlockSet' = B
  <2>1. Works("f_unlock", r) /\ Knows("f_unlock", r, heap', F, B) /\ "f_unlock" \in Labels
    BY <1>4 DEF Works, Knows, Resuming, Waiting, MallocLabels, Labels
  <2>2. Described(heap', F, B, HeapEnd')
    BY <1>8, <1>13
  <2>3. Goto(t, "f_unlock") /\ loc' = [loc EXCEPT ![t] = r]
    BY <1>3
  <2> HIDE DEF F, B, a, l
  <2> QED BY <2>1, <2>2, <2>3, <1>5, <1>8, <1>12, <1>14, Kept
<1>16. Joined(a, s)
  BY <1>8, <1>9, <1>13, <1>15 DEF Joined
<1>17. PendingAsk = NULL
  BY <1>1, <1>5, PendingIs DEF MemoryInv, Asking
<1>18. PendingAsk' = NULL
  <2>1. \A u \in Threads : ~(loc'[u].retry > 0)
    BY <1>0, <1>4, <1>5, <1>6, Sole
  <2> QED BY <2>1 DEF PendingAsk
<1> QED BY <1>15, <1>16, <1>17, <1>18

-----------------------------------------------------------------------------
LEMMA InitMemory ==
  ASSUME Init
  PROVE  /\ MemoryInv
         /\ FreeSet = {0} /\ BlockSet = {0} /\ HeapEnd = HEAP_SIZE
         /\ PendingAsk = NULL
<1>0. HEAP_SIZE \in Nat \ {0} /\ NULL = -1 /\ 0 \in Address /\ Address \subseteq Nat
      /\ NULL \notin Address
  BY Addresses
<1>1. LockInv
  BY InitLocks
<1>2. \A t \in Threads : pc[t] = "idle" /\ loc[t] = NoLocals
  BY DEF Init
<1>3. HeapEnd = HEAP_SIZE
  BY <1>2 DEF Init, HeapEnd, Inserting
<1>4. Described(heap, {0}, {0}, HEAP_SIZE)
  <2>1. /\ heap.first = 0
        /\ \A a \in Address : /\ heap.next[a] = NULL
                              /\ heap.size[a] = IF a = 0 THEN HEAP_SIZE ELSE 0
        /\ heap \in HeapRecords
    <3>1. heap = [size  |-> [a \in Address |-> IF a = 0 THEN HEAP_SIZE ELSE 0],
                  next  |-> [a \in Address |-> NULL],
                  first |-> 0]
      BY DEF Init
    <3>2. /\ heap.size = [a \in Address |-> IF a = 0 THEN HEAP_SIZE ELSE 0]
          /\ heap.next = [a \in Address |-> NULL]
          /\ heap.first = 0
      BY <3>1
    <3>3. heap.size \in [Address -> Nat] /\ heap.next \in [Address -> Address \cup {NULL}]
      BY <1>0, <3>2
    <3>4. heap \in HeapRecords
      BY <1>0, <3>1, <3>2, <3>3 DEF HeapRecords
    <3> QED BY <3>2, <3>4
  <2>2. Listed(heap, {0})
    <3>1. LinkAt(heap, NULL) = 0 /\ LinkAt(heap, 0) = NULL
      BY <2>1, <1>0 DEF LinkAt
    <3>2. Follows({0}, NULL, 0) /\ Follows({0}, 0, NULL)
      BY <1>0 DEF Follows
    <3>3. \A p \in {0} \cup {NULL} : Follows({0}, p, LinkAt(heap, p))
      BY <3>1, <3>2
    <3>4. {0} \subseteq Address /\ \A a \in Address \ {0} : heap.next[a] = NULL
      BY <2>1, <1>0
    <3> QED BY <3>3, <3>4 DEF Listed
  <2>3. Tiled(heap, {0}, HEAP_SIZE)
    BY <2>1, <1>0 DEF Tiled
  <2> QED BY <2>1, <2>2, <2>3 DEF Described
<1>5. FreeSet = {0}
  BY <1>4, ListIs DEF Described, FreeSet
<1>6. BlockSet = {0}
  BY <1>3, <1>4, BlocksAre DEF Described, BlockSet
<1>7. /\ NoLocals \in LocalsType /\ NoLocals.block = NULL
      /\ NoLocals.retry = 0 /\ NoLocals.after = "return"
  BY DEF LocalsType, NoLocals, Pointer
<1>8. \A t \in Threads : /\ Works(pc[t], loc[t])
                         /\ Knows(pc[t], loc[t], heap, FreeSet, BlockSet)
                         /\ Claim(pc[t], loc[t]) = {}
  <2> HIDE DEF NoLocals
  <2> QED BY <1>2, <1>7 DEF Works, Knows, Claim, Resuming, Waiting, MallocLabels
<1>9. live = [a \in {} |-> NULL] /\ held = {} /\ DOMAIN live = {}
  BY DEF Init
<1>10. Owned
  BY <1>8, <1>9 DEF Owned
<1>11. Extent
  BY <1>0, <1>2 DEF Init, Extent
<1>12. PendingAsk = NULL
  BY <1>2, <1>7 DEF PendingAsk
<1> QED BY <1>1, <1>3, <1>4, <1>5, <1>6, <1>8, <1>9, <1>10, <1>11, <1>12
        DEF MemoryInv

(* Every step of a call keeps the invariant.                               *)
LEMMA StepKeepsMemory ==
  ASSUME MemoryInv, NEW t \in Threads, Step(t) \/ Call(t)
  PROVE  MemoryInv'
<1>1. LockInv'
  BY StepKeepsLocks, CallKeepsLocks DEF MemoryInv
<1>2. CASE \/ MallocLock(t) \/ MallocSearch(t) \/ Walk(t) \/ FreeLock(t)
           \/ DumpLock(t) \/ DumpWalk(t) \/ DumpList(t) \/ DumpUnlock(t)
           \/ UnlockAll(t)
  BY <1>1, <1>2, LookingKeeps
<1>3. CASE MallocAllocate(t)
  BY <1>1, <1>3, AllocateKeeps
<1>4. CASE MallocExtend(t)
  BY <1>1, <1>4, ExtendKeeps
<1>5. CASE MallocInsert(t)
  BY <1>1, <1>5, NewBlockKeeps
<1>6. CASE MallocRetry(t)
  BY <1>1, <1>6, RetryKeeps
<1>7. CASE FreeBlock(t)
  BY <1>1, <1>7, FreeKeeps
<1>8. CASE Call(t) \/ Return(t)
  BY <1>1, <1>8, CallKeeps
<1> QED BY <1>2, <1>3, <1>4, <1>5, <1>6, <1>7, <1>8 DEF Step

LEMMA Stuttering ==
  ASSUME UNCHANGED vars
  PROVE  /\ MemoryInv => MemoryInv'
         /\ FreeSet' = FreeSet /\ BlockSet' = BlockSet /\ HeapEnd' = HeapEnd
         /\ PendingAsk' = PendingAsk
         /\ heap' = heap /\ live' = live
<1> USE DEF vars, memVars, appVars
<1>1. FreeSet' = FreeSet /\ HeapEnd' = HeapEnd /\ heap' = heap /\ live' = live
  BY DEF FreeSet, HeapEnd, Inserting
<1>2. BlockSet' = BlockSet
  BY <1>1 DEF BlockSet
<1>3. PendingAsk' = PendingAsk
  BY DEF PendingAsk
<1>4. LockInv => LockInv'
  BY DEF LockInv, MutexShape, ThreadShape, MutexBalanced, Holds, Inside, Resume,
         Dumping
<1>5. MemoryInv => MemoryInv'
  BY <1>1, <1>2, <1>4 DEF MemoryInv, Extent, Owned
<1> QED BY <1>1, <1>2, <1>3, <1>5

(* The memory always is a list of free blocks, in the order of addresses,  *)
(* within blocks that tile the heap; each allocated block is the           *)
(* application's or one thread's; and what a thread in the critical        *)
(* section has read of the memory is still so.                             *)
THEOREM MemoryInvariant == Spec => []MemoryInv
<1>1. Init => MemoryInv
  BY InitMemory
<1>2. MemoryInv /\ [Next]_vars => MemoryInv'
  BY StepKeepsMemory, Stuttering DEF Next, Killed
<1> QED BY <1>1, <1>2, PTL DEF Spec

(* The free list is in address order, every pointer that a search, an      *)
(* insertion or a merge walks with stays on it, and the walk by sizes of   *)
(* _getNextBlockBySize never leaves the heap, whatever the other threads   *)
(* call in between.                                                        *)
THEOREM ListAlwaysIntact == Spec => []ListIntact
<1>1. MemoryInv => ListIntact
  <2> SUFFICES ASSUME MemoryInv PROVE ListIntact
    OBVIOUS
  <2>1. /\ LockInv /\ Extent /\ Owned
        /\ heap \in HeapRecords /\ Listed(heap, FreeSet)
        /\ Tiled(heap, BlockSet, HeapEnd)
        /\ DOMAIN live \subseteq BlockSet
        /\ HEAP_SIZE \in Nat \ {0} /\ NULL = -1 /\ Address \subseteq Nat
    BY Addresses DEF MemoryInv, Described
  <2>2. \A t \in Threads : /\ loc[t] \in LocalsType /\ Works(pc[t], loc[t])
                           /\ Knows(pc[t], loc[t], heap, FreeSet, BlockSet)
    BY DEF MemoryInv, Works
  <2>3. heapSize \in Nat /\ HeapEnd <= heapSize /\ reserved \in Nat /\ brk \in Int
        /\ debug \in BOOLEAN /\ crashed \in BOOLEAN
    BY <2>1 DEF Extent, HeapEnd
  <2>4. /\ BlockSet \subseteq Nat
        /\ \A b \in BlockSet : b + heap.size[b] <= HeapEnd
    <3>1. \A b \in BlockSet \cup {HeapEnd} : b \in Nat /\ b <= HeapEnd
      BY <2>1 DEF Tiled
    <3> QED BY <2>1, <3>1 DEF Tiled
  <2>5. TypeOK
    <3>1. heap \in [size : [Address -> Nat], next : [Address -> Pointer], first : Pointer]
      BY <2>1 DEF HeapRecords, Pointer
    <3>2. loc \in [Threads -> LocalsType]
      BY <2>1, <2>2 DEF LockInv
    <3>3. pc \in [Threads -> Labels]
          /\ mutex \in [owner : Threads \cup {Nobody}, depth : Nat]
      BY <2>1 DEF LockInv, MutexShape
    <3>4. held \subseteq Nat /\ live \in [DOMAIN live -> Requests]
      BY <2>1, <2>4 DEF Owned
    <3> QED BY <2>3, <3>1, <3>2, <3>3, <3>4 DEF TypeOK
  <2>6. ListSorted
    <3> SUFFICES ASSUME NEW b \in FreeSet, heap.next[b] # NULL
                 PROVE  b < heap.next[b]
      BY DEF ListSorted
    <3>1. b # NULL /\ Follows(FreeSet, b, LinkAt(heap, b))
      BY <2>1 DEF Listed
    <3> QED BY <3>1 DEF Follows, LinkAt
  <2>7. WalkersOnList
    <3> SUFFICES ASSUME NEW t \in Threads,
                        pc[t] \in {"m_search", "m_insert", "f_walk"}
                 PROVE  /\ loc[t].cur \in FreeSet \cup {NULL}
                        /\ loc[t].prev \in FreeSet \cup {NULL}
                        /\ pc[t] = "m_search" => loc[t].best \in FreeSet \cup {NULL}
      BY DEF WalkersOnList
    <3>1. /\ Place(loc[t], heap, FreeSet)
          /\ pc[t] = "m_search" => Searched(loc[t], heap, FreeSet)
      BY <2>2 DEF Knows, Resuming, Waiting
    <3>2. LinkAt(heap, loc[t].prev) \in FreeSet \cup {NULL}
      BY <2>1, <3>1 DEF Place, Listed, Follows
    <3> QED BY <3>1, <3>2 DEF Place, Searched
  <2>8. WalkInHeap
    <3> SUFFICES ASSUME NEW t \in Threads, pc[t] = "d_walk"
                 PROVE  NextBySize(loc[t].pos) <= heapSize
      BY DEF WalkInHeap
    <3>1. loc[t].pos \in BlockSet
      BY <2>2 DEF Knows
    <3> DEFINE past == loc[t].pos + heap.size[loc[t].pos]
    <3>2. past <= HeapEnd /\ past \in BlockSet \cup {HeapEnd}
      BY <2>1, <2>4, <3>1 DEF Tiled
    <3>3. HeapEnd \in Nat
      BY <2>1 DEF Tiled
    <3>4. NextBySize(loc[t].pos) = past
      BY DEF NextBySize
    <3> HIDE DEF past
    <3>5. past \in Nat
      BY <2>4, <3>2, <3>3
    <3> QED BY <2>3, <3>2, <3>3, <3>4, <3>5
  <2> QED BY <2>5, <2>6, <2>7, <2>8 DEF ListIntact
<1> QED BY <1>1, MemoryInvariant, PTL

-----------------------------------------------------------------------------
(* Where the operations on the list write: at an address a that is none of *)
(* those named, both header fields are as before.                          *)
Shaped(h) == /\ h = [size |-> h.size, next |-> h.next, first |-> h.first]
             /\ h.size = [x \in Address |-> h.size[x]]
             /\ h.next = [x \in Address |-> h.next[x]]

Same(h, m, a) == /\ Shaped(m)
                 /\ m.size[a] = h.size[a]
                 /\ m.next[a] = h.next[a]

LEMMA SetNextWrites ==
  ASSUME NEW h, Shaped(h), NEW p, NEW b, NEW a \in Address, a # p
  PROVE  Same(h, SetNext(h, p, b), a)
<1>1. CASE p = NULL
  <2> DEFINE m == [h EXCEPT !.first = b]
  <2>1. m.size = h.size /\ m.next = h.next /\ m.first = b
        /\ m = [size |-> m.size, next |-> m.next, first |-> m.first]
    BY DEF Shaped
  <2>2. SetNext(h, p, b) = m
    BY <1>1 DEF SetNext
  <2> HIDE DEF m
  <2> QED BY <2>1, <2>2 DEF Shaped, Same
<1>2. CASE p # NULL
  <2> DEFINE m == [h EXCEPT !.next[p] = b]
  <2>1. m.size = h.size /\ m.next = [h.next EXCEPT ![p] = b]
        /\ m = [size |-> m.size, next |-> m.next, first |-> m.first]
    BY DEF Shaped
  <2>2. SetNext(h, p, b) = m
    BY <1>2 DEF SetNext
  <2> HIDE DEF m
  <2> QED BY <2>1, <2>2 DEF Shaped, Same
<1> QED BY <1>1, <1>2

LEMMA LinkWrites ==
  ASSUME NEW h, Shaped(h), NEW p, NEW b, NEW n, NEW a \in Address, a # p, a # b
  PROVE  Same(h, SetNext([h EXCEPT !.next[b] = n], p, b), a)
<1> DEFINE m == [h EXCEPT !.next[b] = n]
<1>1. m.size = h.size /\ m.next = [h.next EXCEPT ![b] = n]
      /\ m = [size |-> m.size, next |-> m.next, first |-> m.first]
  BY DEF Shaped
<1> HIDE DEF m
<1>2. Same(h, m, a)
  BY <1>1 DEF Shaped, Same
<1>3. Same(m, SetNext(m, p, b), a)
  BY <1>2, SetNextWrites DEF Same
<1>4. Same(h, SetNext(m, p, b), a)
  BY <1>2, <1>3 DEF Same
<1> QED BY <1>4 DEF m

LEMMA MergeWrites ==
  ASSUME NEW h, Shaped(h), NEW b, NEW c, NEW a \in Address, a # b, a # c
  PROVE  Same(h, Merge(h, b, c), a)
<1> DEFINE m == [h EXCEPT !.size[b] = @ + h.size[c], !.next[b] = h.next[c],
                          !.size[c] = 0, !.next[c] = NULL]
<1>1. m = [size  |-> [[h.size EXCEPT ![b] = @ + h.size[c]] EXCEPT ![c] = 0],
           next  |-> [[h.next EXCEPT ![b] = h.next[c]] EXCEPT ![c] = NULL],
           first |-> h.first]
  <2> DEFINE v == h.size[b] + h.size[c]
             w == h.next[c]
             x == [h EXCEPT !.size[b] = v]
             y == [x EXCEPT !.next[b] = w]
             z == [y EXCEPT !.size[c] = 0]
  <2>1. m = [z EXCEPT !.next[c] = NULL]
    OBVIOUS
  <2> HIDE DEF v, w
  <2>2. x = [size |-> [h.size EXCEPT ![b] = v], next |-> h.next, first |-> h.first]
    BY DEF Shaped
  <2> HIDE DEF x
  <2>3. y = [size |-> [h.size EXCEPT ![b] = v], next |-> [h.next EXCEPT ![b] = w],
             first |-> h.first]
    BY <2>2
  <2> HIDE DEF y
  <2>4. z = [size |-> [[h.size EXCEPT ![b] = v] EXCEPT ![c] = 0],
             next |-> [h.next EXCEPT ![b] = w], first |-> h.first]
    BY <2>3
  <2> HIDE DEF z, m
  <2>5. m = [size |-> [[h.size EXCEPT ![b] = v] EXCEPT ![c] = 0],
             next |-> [[h.next EXCEPT ![b] = w] EXCEPT ![c] = NULL],
             first |-> h.first]
    BY <2>1, <2>4
  <2> QED BY <2>5 DEF v, w
<1>2. Merge(h, b, c) = m \/ Merge(h, b, c) = h
  BY DEF Merge
<1> HIDE DEF m
<1>3. Same(h, m, a) /\ Same(h, h, a)
  BY <1>1 DEF Shaped, Same
<1> QED BY <1>2, <1>3

LEMMA CarveWrites ==
  ASSUME NEW h, Shaped(h), NEW p, NEW b, NEW n,
         NEW a \in Address, a # p, a # b, h.size[b] # n => a # b + n
  PROVE  Same(h, AllocateBlock(h, p, b, n), a)
<1> DEFINE m == [h EXCEPT !.size[b + n] = h.size[b] - n,
                          !.next[b + n] = h.next[b],
                          !.size[b]     = n]
           k == Carve(h, p, b, n)
           r == [k EXCEPT !.next[b] = NULL]
<1>1. Same(h, k, a)
  <2>1. CASE h.size[b] = n
    BY <2>1, SetNextWrites DEF Carve
  <2>2. CASE h.size[b] # n
    <3>1. m = [size  |-> [[h.size EXCEPT ![b + n] = h.size[b] - n] EXCEPT ![b] = n],
               next  |-> [h.next EXCEPT ![b + n] = h.next[b]],
               first |-> h.first]
      <4> DEFINE u == b + n
                 v == h.size[b] - n
                 w == h.next[b]
                 x == [h EXCEPT !.size[u] = v]
                 y == [x EXCEPT !.next[u] = w]
      <4>1. m = [y EXCEPT !.size[b] = n]
        OBVIOUS
      <4> HIDE DEF u, v, w
      <4>2. x = [size |-> [h.size EXCEPT ![u] = v], next |-> h.next, first |-> h.first]
        BY DEF Shaped
      <4> HIDE DEF x
      <4>3. y = [size |-> [h.size EXCEPT ![u] = v], next |-> [h.next EXCEPT ![u] = w],
                 first |-> h.first]
        BY <4>2
      <4> HIDE DEF y, m
      <4>4. m = [size |-> [[h.size EXCEPT ![u] = v] EXCEPT ![b] = n],
                 next |-> [h.next EXCEPT ![u] = w],
                 first |-> h.first]
        BY <4>1, <4>3
      <4> QED BY <4>4 DEF u, v, w
    <3>2. k = SetNext(m, p, b + n)
      BY <2>2 DEF Carve
    <3> HIDE DEF m, k
    <3>3. Same(h, m, a)
      BY <2>2, <3>1 DEF Shaped, Same
    <3>4. Same(m, SetNext(m, p, b + n), a)
      BY <3>3, SetNextWrites DEF Same
    <3> QED BY <3>2, <3>3, <3>4 DEF Same
  <2> QED BY <2>1, <2>2
<1> HIDE DEF k
<1>2. r.size = k.size /\ r.next = [k.next EXCEPT ![b] = NULL]
      /\ r = [size |-> r.size, next |-> r.next, first |-> r.first]
  BY <1>1 DEF Shaped, Same
<1>3. AllocateBlock(h, p, b, n) = r
  BY DEF AllocateBlock, k
<1> HIDE DEF r
<1> QED BY <1>1, <1>2, <1>3 DEF Shaped, Same

(* Memory inside one block is not in another.                              *)
LEMMA Inner ==
  ASSUME NEW h \in HeapRecords, NEW B, NEW end, Tiled(h, B, end),
         NEW b \in B, NEW a \in b .. b + h.size[b] - 1
  PROVE  /\ a \in Address /\ a \in Nat /\ a < end
         /\ \A c \in B \ {b} : ~(c <= a /\ a < c + h.size[c])
         /\ \A c \in B \ {b} : a # c
<1>1. /\ B \subseteq Address /\ \A c \in B : c \in Nat /\ c < end
      /\ end \in Nat /\ end <= 2 * HEAP_SIZE
      /\ \A c \in B : h.size[c] \in Nat /\ h.size[c] > 0
  <2>1. \A c \in B : c \in Nat /\ c < end
    BY Addresses DEF Tiled
  <2>2. end \in Nat /\ end <= 2 * HEAP_SIZE
    BY Addresses DEF Tiled
  <2>3. \A c \in B : c \in Address
    BY <2>1, <2>2, Addresses
  <2> QED BY <2>1, <2>2, <2>3 DEF Tiled, HeapRecords
<1>2. b \in Nat /\ h.size[b] \in Nat /\ a \in Nat /\ b <= a /\ a < b + h.size[b]
  BY <1>1
<1>3. b + h.size[b] <= end
  BY <1>1 DEF Tiled
<1>4. a \in Address /\ a < end
  BY <1>1, <1>2, <1>3, Addresses
<1>5. ASSUME NEW c \in B \ {b}
      PROVE  ~(c <= a /\ a < c + h.size[c]) /\ a # c
  <2>1. c < b \/ b < c
    BY <1>1
  <2>2. c < b => c + h.size[c] <= b
    BY DEF Tiled
  <2>3. b < c => b + h.size[b] <= c
    BY DEF Tiled
  <2> QED BY <2>1, <2>2, <2>3, <1>1, <1>2
<1> QED BY <1>2, <1>4, <1>5

(* An address inside a block b that the application holds.                 *)
LEMMA HeldInner ==
  ASSUME MemoryInv, NEW b \in held, NEW a \in b .. NextBySize(b) - 1
  PROVE  /\ a \in Address /\ a \in Nat /\ a < HeapEnd
         /\ b \in BlockSet \ FreeSet
         /\ \A c \in BlockSet \ {b} : a # c /\ ~(c <= a /\ a < c + heap.size[c])
         /\ \A p \in FreeSet \cup {NULL} : a # p
         /\ Shaped(heap)
<1>1. b \in BlockSet \ FreeSet /\ FreeSet \subseteq BlockSet
  BY DEF MemoryInv, Owned, Described
<1>2. a \in b .. b + heap.size[b] - 1
  <2>1. NextBySize(b) = b + heap.size[b]
    BY DEF NextBySize
  <2>2. b \in Nat /\ heap.size[b] \in Nat
    BY <1>1, Addresses DEF MemoryInv, Described, Tiled, HeapRecords
  <2> QED BY <2>1, <2>2
<1>3. /\ a \in Address /\ a \in Nat /\ a < HeapEnd
      /\ \A c \in BlockSet \ {b} : ~(c <= a /\ a < c + heap.size[c])
      /\ \A c \in BlockSet \ {b} : a # c
  BY <1>1, <1>2, Inner DEF MemoryInv, Described
<1>4. \A p \in FreeSet \cup {NULL} : a # p
  BY <1>1, <1>3, Addresses
<1>5. Shaped(heap)
  BY DEF MemoryInv, Described, HeapRecords, Shaped
<1> QED BY <1>1, <1>3, <1>4, <1>5

LEMMA StepSpares ==
  ASSUME MemoryInv, NEW t \in Threads, Step(t) \/ Call(t),
         NEW b \in held, NEW a \in b .. NextBySize(b) - 1
  PROVE  heap'.size[a] = heap.size[a] /\ heap'.next[a] = heap.next[a]
<1> DEFINE l == loc[t]
<1>0. LockInv'
  BY StepKeepsLocks, CallKeepsLocks DEF MemoryInv
<1>1. /\ a \in Address /\ a \in Nat /\ a < HeapEnd
      /\ b \in BlockSet \ FreeSet
      /\ \A c \in BlockSet \ {b} : a # c /\ ~(c <= a /\ a < c + heap.size[c])
      /\ \A p \in FreeSet \cup {NULL} : a # p
      /\ Shaped(heap)
  BY HeldInner
<1>2. /\ Knows(pc[t], l, heap, FreeSet, BlockSet) /\ Works(pc[t], l)
      /\ Listed(heap, FreeSet) /\ FreeSet \subseteq BlockSet
  BY DEF MemoryInv, Described
<1>3. CASE \/ MallocLock(t) \/ MallocSearch(t) \/ Walk(t) \/ FreeLock(t)
           \/ DumpLock(t) \/ DumpWalk(t) \/ DumpList(t) \/ DumpUnlock(t)
           \/ UnlockAll(t)
  BY <1>0, <1>3, LookingKeeps DEF Still
<1>4. CASE MallocAllocate(t)
  <2>1. /\ heap' = AllocateBlock(heap, l.bestPrev, l.best, l.size)
        /\ pc[t] = "m_search" /\ l.best # NULL
    BY <1>4 DEF MallocAllocate, At
  <2>2. l.bestPrev \in FreeSet \cup {NULL} /\ l.best \in FreeSet
    BY <1>2, <2>1 DEF Knows, Searched, Resuming, Waiting
  <2>3. Carved(l.best, l.size)
    BY <1>0, <1>4, AllocateKeeps
  <2>4. l.best \in BlockSet \ {b} /\ l.best \in Nat
    BY <1>1, <1>2, <2>2, Addresses DEF Listed
  <2>5. heap.size[l.best] # l.size => a # l.best + l.size
    <3>1. l.size \in Nat /\ l.size <= heap.size[l.best]
      BY <2>3 DEF Carved
    <3>2. heap.size[l.best] \in Nat
      BY <1>2, <2>2 DEF MemoryInv, Described, HeapRecords, Listed
    <3>3. ~(l.best <= a /\ a < l.best + heap.size[l.best])
      BY <1>1, <2>4
    <3> QED BY <3>1, <3>2, <3>3, <2>4
  <2>6. a # l.bestPrev /\ a # l.best
    BY <1>1, <2>2
  <2>7. Same(heap, heap', a)
    <3> HIDE DEF l
    <3> QED BY <1>1, <2>1, <2>5, <2>6, CarveWrites
  <2> QED BY <2>7 DEF Same
<1>5. CASE MallocExtend(t)
  BY <1>0, <1>1, <1>5, ExtendKeeps
<1>6. CASE MallocInsert(t)
  <2>1. heap' = Insert(heap, l) /\ pc[t] = "m_insert"
    BY <1>6 DEF MallocInsert, At
  <2>2. l.prev \in FreeSet \cup {NULL} /\ l.block = HEAP_SIZE
    BY <1>2, <2>1 DEF Knows, Place
  <2>3. a # l.prev /\ a # l.block
    <3>1. HeapEnd = HEAP_SIZE
      BY <1>0, <1>6, NewBlockKeeps
    <3> QED BY <3>1, <1>1, <2>2
  <2>4. Same(heap, heap', a)
    <3> HIDE DEF l
    <3> QED BY <1>1, <2>1, <2>3, LinkWrites DEF Insert
  <2> QED BY <2>4 DEF Same
<1>7. CASE MallocRetry(t)
  BY <1>0, <1>7, RetryKeeps DEF Still
<1>8. CASE FreeBlock(t)
  <2>1. heap' = FreeInsert(heap, l) /\ pc[t] = "f_walk"
    BY <1>8 DEF FreeBlock, At
  <2>2. l.block # NULL /\ Place(l, heap, FreeSet)
    BY <1>2, <2>1 DEF Works, Knows
  <2>3. l.prev \in FreeSet \cup {NULL} /\ l.cur \in FreeSet \cup {NULL}
    BY <1>2, <2>2 DEF Place, Listed, Follows
  <2>4. l.block \in BlockSet /\ l.block \notin held
    <3>1. Claim(pc[t], l) = {l.block}
      BY <2>1, <2>2 DEF Claim
    <3> QED BY <3>1 DEF MemoryInv, Owned
  <2>5. a # l.prev /\ a # l.block /\ a # l.cur
    BY <1>1, <2>3, <2>4
  <2> DEFINE i == Insert(heap, l)
             k == Merge(i, l.prev, l.block)
             s == IF Neighbours(i, l.prev, l.block) THEN l.prev ELSE l.block
  <2>6. heap' = Merge(k, s, l.cur)
    BY <2>1 DEF FreeInsert
  <2>7. a # s
    BY <2>5
  <2> HIDE DEF s
  <2>8. Same(heap, i, a)
    <3> HIDE DEF l
    <3> QED BY <1>1, <2>5, LinkWrites DEF Insert
  <2> HIDE DEF i
  <2>9. Same(i, k, a)
    <3> HIDE DEF l
    <3> QED BY <1>1, <2>5, <2>8, MergeWrites DEF Same
  <2> HIDE DEF k
  <2>10. Same(k, heap', a)
    <3> HIDE DEF l
    <3> QED BY <1>1, <2>5, <2>6, <2>7, <2>9, MergeWrites DEF Same
  <2> QED BY <2>8, <2>9, <2>10 DEF Same
<1>9. CASE Call(t) \/ Return(t)
  BY <1>0, <1>9, CallKeeps DEF Still
<1> QED BY <1>3, <1>4, <1>5, <1>6, <1>7, <1>8, <1>9 DEF Step

(* Memory in use is the application's: whatever all threads do at once, no *)
(* step of the allocator writes a header field anywhere inside a block     *)
(* that my_malloc returned and my_free was not yet given.                  *)
THEOREM HeldIsUntouched == Spec => HeldUntouched
<1>1. MemoryInv /\ [Next]_vars =>
        [\A b \in held \cap held' :
            \A a \in b .. NextBySize(b) - 1 :
               /\ heap'.size[a] = heap.size[a]
               /\ heap'.next[a] = heap.next[a]]_vars
  <2> SUFFICES ASSUME MemoryInv, [Next]_vars,
                      ~UNCHANGED vars,
                      NEW b \in held, NEW a \in b .. NextBySize(b) - 1
               PROVE  heap'.size[a] = heap.size[a] /\ heap'.next[a] = heap.next[a]
    OBVIOUS
  <2>1. PICK t \in Threads : Step(t) \/ Call(t)
    BY DEF Next, Killed
  <2> QED BY <2>1, StepSpares
<1> QED BY <1>1, MemoryInvariant, PTL DEF Spec, HeldUntouched

-----------------------------------------------------------------------------
(* The heap of blocks is what the list and the sizes say that it is.       *)
LEMMA SameBlockSize == \A n : Blocks!BlockSize(n) = BlockSize(n)
BY DEF Blocks!BlockSize, BlockSize, Blocks!RoundUp, RoundUp, Blocks!Wrap, Wrap

LEMMA BlocksStutter ==
  ASSUME FreeSet' = FreeSet, BlockSet' = BlockSet, HeapEnd' = HeapEnd,
         \A c \in BlockSet : heap'.size[c] = heap.size[c],
         live' = live, PendingAsk' = PendingAsk
  PROVE  UNCHANGED Blocks!vars
<1>1. [c \in BlockSet' |-> heap'.size[c]] = [c \in BlockSet |-> heap.size[c]]
  OBVIOUS
<1> QED BY <1>1 DEF Blocks!vars

(* allocate_block on the list carves the best fit of the blocks.           *)
LEMMA CarvedIsAllocated ==
  ASSUME NEW b, NEW n, Carved(b, n), NEW r,
         FreeSet \subseteq BlockSet,
         live' = [c \in DOMAIN live \cup {b} |-> IF c = b THEN r ELSE live[c]]
  PROVE  /\ b \in FreeSet
         /\ Blocks!BestFit(b, n)
         /\ Blocks!AllocateBlock(b, n, r)
<1> DEFINE S == [c \in BlockSet |-> heap.size[c]]
<1>1. b \in FreeSet /\ b \in BlockSet /\ n <= heap.size[b] /\ n \in Nat \ {0}
  BY DEF Carved
<1>2. Blocks!BestFit(b, n)
  <2>1. \A c \in FreeSet : heap.size[c] >= n =>
          \/ heap.size[b] < heap.size[c]
          \/ heap.size[b] = heap.size[c] /\ b <= c
    BY Zenon DEF Carved
  <2>2. heap.size[b] >= n
    BY <1>1
  <2>3. \A c \in FreeSet : S[c] = heap.size[c]
    OBVIOUS
  <2> HIDE DEF S
  <2>4. b \in {c \in FreeSet : S[c] >= n}
    BY <1>1, <2>2, <2>3
  <2> DEFINE fit == {d \in FreeSet : S[d] >= n}
  <2>5. ASSUME NEW c \in fit
        PROVE  \/ S[b] < S[c]
               \/ S[b] = S[c] /\ b <= c
    <3>0. c \in FreeSet /\ S[c] >= n
      OBVIOUS
    <3>1. S[c] = heap.size[c] /\ S[b] = heap.size[b]
      BY <1>1, <2>3, <3>0
    <3>2. heap.size[c] >= n
      BY <3>0, <3>1
    <3>3. \/ heap.size[b] < heap.size[c]
          \/ heap.size[b] = heap.size[c] /\ b <= c
      BY <2>1, <3>0, <3>2
    <3> QED BY <3>1, <3>3
  <2> QED BY <2>4, <2>5 DEF Blocks!BestFit, Blocks!Fitting, S
<1>3. CASE heap.size[b] = n
  <2>1. FreeSet' = FreeSet \ {b} /\ BlockSet' = BlockSet
        /\ \A c \in BlockSet : heap'.size[c] = heap.size[c]
    BY <1>3 DEF Carved
  <2>2. [c \in BlockSet' |-> heap'.size[c]] = [c \in BlockSet |-> heap.size[c]]
    BY <2>1
  <2> QED BY <1>1, <1>2, <1>3, <2>1, <2>2 DEF Blocks!AllocateBlock
<1>4. CASE heap.size[b] # n
  <2>1. /\ b + n \notin BlockSet
        /\ FreeSet' = (FreeSet \ {b}) \cup {b + n}
        /\ BlockSet' = BlockSet \cup {b + n}
        /\ heap'.size[b + n] = heap.size[b] - n
        /\ heap'.size[b] = n
        /\ \A c \in BlockSet \ {b} : heap'.size[c] = heap.size[c]
    BY <1>4 DEF Carved
  <2>2. [c \in BlockSet' |-> heap'.size[c]] =
          [c \in BlockSet \cup {b + n} |->
              CASE c = b     -> n
                [] c = b + n -> S[b] - n
                [] OTHER     -> S[c]]
    BY <2>1, <1>1
  <2>3. DOMAIN S = BlockSet /\ S[b] = heap.size[b]
    BY <1>1
  <2> QED BY <1>1, <1>2, <1>4, <2>1, <2>2, <2>3
          DEF Blocks!AllocateBlock, Blocks!Blocks
<1> QED BY <1>3, <1>4

(* my_malloc is my_malloc of the blocks, or its retry.                     *)
LEMMA AllocateImplements ==
  ASSUME MemoryInv, LockInv', NEW t \in Threads, MallocAllocate(t)
  PROVE  Blocks!Next
<1> PICK b, n, r : b = loc[t].best /\ n = loc[t].size /\ r = loc[t].ask
  OBVIOUS
<1>1. /\ Carved(b, n)
      /\ r \in Requests /\ BlockSize(r) <= HEAP_SIZE
      /\ PendingAsk' = NULL
      /\ \/ PendingAsk = NULL /\ n = BlockSize(r)
         \/ /\ PendingAsk = r
            /\ n = BlockSize(BlockSize(r))
            /\ n <= HEAP_SIZE
  <2>1. /\ Carved(loc[t].best, loc[t].size)
        /\ loc[t].ask \in Requests /\ BlockSize(loc[t].ask) <= HEAP_SIZE
        /\ PendingAsk' = NULL
        /\ \/ PendingAsk = NULL /\ loc[t].size = BlockSize(loc[t].ask)
           \/ /\ PendingAsk = loc[t].ask
              /\ loc[t].size = BlockSize(BlockSize(loc[t].ask))
              /\ loc[t].size <= HEAP_SIZE
    BY AllocateKeeps
  <2>2. Carved(b, n)
    BY <2>1 DEF Carved
  <2> QED BY <2>1, <2>2
<1>2. live' = [c \in DOMAIN live \cup {b} |-> IF c = b THEN r ELSE live[c]]
  BY DEF MallocAllocate
<1>3. FreeSet \subseteq BlockSet
  BY DEF MemoryInv, Described
<1>4. /\ b \in FreeSet
      /\ Blocks!BestFit(b, n)
      /\ Blocks!AllocateBlock(b, n, r)
  BY <1>1, <1>2, <1>3, CarvedIsAllocated
<1>5. HeapEnd' = HeapEnd /\ n \in Nat
  BY <1>1 DEF Carved
<1>6. r # NULL /\ NULL = -1 /\ HEAP_SIZE \in Nat
  BY <1>1, RequestAssumption, HeaderAssumption, WordAssumption, Addresses
<1>7. CASE PendingAsk = NULL /\ n = BlockSize(r)
  <2>1. Blocks!Malloc(r)
    BY <1>1, <1>4, <1>5, <1>6, <1>7, SameBlockSize DEF Blocks!Malloc, Blocks!NoRequest
  <2> QED BY <1>1, <2>1 DEF Blocks!Next
<1>8. CASE PendingAsk = r /\ n = BlockSize(BlockSize(r)) /\ n <= HEAP_SIZE
  <2>1. Blocks!RetrySize = n
    BY <1>8, SameBlockSize DEF Blocks!RetrySize
  <2>2. ~(Blocks!RetrySize > HEAP_SIZE)
    BY <1>5, <1>6, <1>8, <2>1
  <2>3. Blocks!BestFit(b, Blocks!RetrySize)
        /\ Blocks!AllocateBlock(b, Blocks!RetrySize, PendingAsk)
    BY <1>4, <1>8, <2>1 DEF Blocks!BestFit, Blocks!Fitting, Blocks!AllocateBlock
  <2>4. Blocks!Retry
    BY <1>1, <1>4, <1>5, <1>6, <1>8, <2>2, <2>3 DEF Blocks!Retry, Blocks!NoRequest
  <2> QED BY <2>4 DEF Blocks!Next
<1> QED BY <1>1, <1>7, <1>8

(* The new block takes effect when it is linked in.                        *)
LEMMA InsertImplements ==
  ASSUME MemoryInv, LockInv', NEW t \in Threads, MallocInsert(t)
  PROVE  Blocks!Next
<1> PICK r : r = loc[t].ask
  OBVIOUS
<1>1. /\ HeapEnd = HEAP_SIZE /\ HeapEnd' = 2 * HEAP_SIZE
      /\ HEAP_SIZE \notin BlockSet
      /\ FreeSet' = FreeSet \cup {HEAP_SIZE}
      /\ BlockSet' = BlockSet \cup {HEAP_SIZE}
      /\ heap'.size = heap.size /\ heap.size[HEAP_SIZE] = HEAP_SIZE
      /\ live' = live
      /\ r \in Requests /\ BlockSize(r) <= HEAP_SIZE
      /\ \A c \in FreeSet : heap.size[c] < BlockSize(r)
      /\ PendingAsk = NULL /\ PendingAsk' = r
  BY NewBlockKeeps
<1>2. HEAP_SIZE \in Nat \ {0} /\ NULL = -1
  BY Addresses
<1>3. Blocks!Fitting(Blocks!BlockSize(r)) = {}
  <2>1. \A c \in FreeSet : c \in BlockSet /\ heap.size[c] \in Nat
    BY DEF MemoryInv, Described, Listed, HeapRecords
  <2>2. BlockSize(r) \in Nat
    BY <1>1, RequestSize
  <2>3. \A c \in FreeSet : ~([d \in BlockSet |-> heap.size[d]][c] >= BlockSize(r))
    BY <1>1, <2>1, <2>2
  <2> QED BY <2>3, SameBlockSize DEF Blocks!Fitting
<1>4. [c \in BlockSet' |-> heap'.size[c]] =
        [c \in BlockSet \cup {HEAP_SIZE} |->
            IF c = HEAP_SIZE THEN HEAP_SIZE
                             ELSE [d \in BlockSet |-> heap.size[d]][c]]
  BY <1>1
<1>5. (IF HeapEnd > HEAP_SIZE THEN {HEAP_SIZE} ELSE {}) = {}
      /\ (IF HeapEnd' > HEAP_SIZE THEN {HEAP_SIZE} ELSE {}) = {HEAP_SIZE}
  BY <1>1, <1>2
<1>6. Blocks!Extend(r)
  <2>1. DOMAIN [d \in BlockSet |-> heap.size[d]] = BlockSet
    OBVIOUS
  <2>2. HeapEnd + HEAP_SIZE = 2 * HEAP_SIZE /\ 2 * HEAP_SIZE <= 2 * HEAP_SIZE
    BY <1>1, <1>2
  <2> QED BY <1>1, <1>2, <1>3, <1>4, <1>5, <2>1, <2>2, SameBlockSize
          DEF Blocks!Extend, Blocks!NoRequest, Blocks!Blocks
<1> QED BY <1>1, <1>6 DEF Blocks!Next

(* my_free takes effect when it links and merges.                          *)
LEMMA FreeImplements ==
  ASSUME MemoryInv, LockInv', NEW t \in Threads, FreeBlock(t)
  PROVE  Blocks!Next
<1> PICK a : a = loc[t].block
  OBVIOUS
<1> DEFINE S == [c \in BlockSet |-> heap.size[c]]
<1>1. PICK s : Joined(a, s)
  <2>1. \E s : Joined(loc[t].block, s)
    BY FreeKeeps
  <2> QED BY <2>1 DEF Joined
<1>2. PendingAsk = NULL /\ PendingAsk' = NULL
  BY FreeKeeps
<1>3. live' = [c \in DOMAIN live \ {a} |-> live[c]]
  BY DEF FreeBlock
<1>4. FreeSet \subseteq BlockSet /\ DOMAIN live = BlockSet \ FreeSet
  BY DEF MemoryInv, Described
<1>5. /\ a \in DOMAIN live /\ s \in FreeSet \cup {a}
      /\ Starts(heap, FreeSet, a, s)
      /\ HeapEnd' = HeapEnd
      /\ FreeSet' = (FreeSet \cup {s}) \ Gone(heap, FreeSet, a, s)
      /\ BlockSet' = BlockSet \ Gone(heap, FreeSet, a, s)
      /\ heap'.size[s] = Reach(heap, FreeSet, a) - s
      /\ \A c \in BlockSet' \ {s} : heap'.size[c] = heap.size[c]
  BY <1>1 DEF Joined
<1>6. \A c \in BlockSet : Blocks!End(c) = Ends(heap, c)
  BY DEF Blocks!End, Ends
<1>7. a \in BlockSet
  BY <1>4, <1>5
<1>8. Blocks!Base(a) = s
  <2>1. CASE s = a /\ \A q \in FreeSet : Ends(heap, q) # a
    BY <1>4, <1>6, <2>1 DEF Blocks!Base
  <2>2. CASE /\ s \in FreeSet /\ Ends(heap, s) = a
             /\ \A q \in FreeSet : Ends(heap, q) = a => q = s
    <3>1. \E p \in FreeSet : Blocks!End(p) = a
      BY <1>4, <1>6, <2>2
    <3>2. (CHOOSE p \in FreeSet : Blocks!End(p) = a) \in FreeSet
          /\ Blocks!End(CHOOSE p \in FreeSet : Blocks!End(p) = a) = a
      BY <3>1
    <3>3. (CHOOSE p \in FreeSet : Blocks!End(p) = a) = s
      BY <1>4, <1>6, <2>2, <3>2
    <3> QED BY <3>1, <3>3 DEF Blocks!Base
  <2> QED BY <1>5, <2>1, <2>2 DEF Starts
<1>9. Blocks!Limit(a) = Reach(heap, FreeSet, a)
  <2>1. Blocks!End(a) = Ends(heap, a)
    BY <1>6, <1>7
  <2>2. Ends(heap, a) \in FreeSet =>
          Blocks!End(Ends(heap, a)) = Ends(heap, Ends(heap, a))
    BY <1>4, <1>6
  <2> QED BY <2>1, <2>2 DEF Blocks!Limit, Reach
<1>10. Blocks!Absorbed(a) = Gone(heap, FreeSet, a, s)
  BY <1>6, <1>7, <1>8 DEF Blocks!Absorbed, Gone
<1> DEFINE G == Gone(heap, FreeSet, a, s)
           R == Reach(heap, FreeSet, a)
<1> HIDE DEF G, R
<1>11. [c \in BlockSet' |-> heap'.size[c]] =
         [c \in BlockSet \ G |-> IF c = s THEN R - s ELSE S[c]]
  <2>1. BlockSet' = BlockSet \ G /\ heap'.size[s] = R - s
        /\ \A c \in BlockSet' \ {s} : heap'.size[c] = heap.size[c]
    BY <1>5 DEF G, R
  <2> QED BY <2>1
<1>12. Blocks!Free(a)
  <2>1. Blocks!Blocks = BlockSet
    BY DEF Blocks!Blocks
  <2>2. FreeSet' = (FreeSet \cup {s}) \ G
    BY <1>5 DEF G
  <2>3. Blocks!Absorbed(a) = G /\ Blocks!Limit(a) = R
    BY <1>9, <1>10 DEF G, R
  <2> QED BY <1>2, <1>3, <1>5, <1>8, <1>11, <2>1, <2>2, <2>3
          DEF Blocks!Free, Blocks!NoRequest, NULL
<1> QED BY <1>5, <1>12 DEF Blocks!Next

(* A retry that is refused gives the request up; one that is not goes on.  *)
LEMMA RetryImplements ==
  ASSUME MemoryInv, LockInv', NEW t \in Threads, MallocRetry(t)
  PROVE  Blocks!Next \/ UNCHANGED Blocks!vars
<1> DEFINE r == loc[t].ask
           n == BlockSize(BlockSize(r))
<1>1. /\ Still /\ r \in Requests /\ PendingAsk = r
      /\ PendingAsk' = IF n > HEAP_SIZE THEN NULL ELSE r
  BY RetryKeeps
<1>2. r # NULL /\ NULL = -1
  BY <1>1, RequestAssumption, HeaderAssumption, WordAssumption, Addresses
<1>3. Blocks!RetrySize = n
  BY <1>1, SameBlockSize DEF Blocks!RetrySize
<1> HIDE DEF r, n
<1>4. UNCHANGED <<FreeSet, BlockSet, HeapEnd, heap, live>>
  BY <1>1 DEF Still
<1>5. [c \in BlockSet' |-> heap'.size[c]] = [c \in BlockSet |-> heap.size[c]]
  BY <1>4
<1>6. CASE n > HEAP_SIZE
  <2>1. Blocks!Retry
    BY <1>1, <1>2, <1>3, <1>4, <1>5, <1>6 DEF Blocks!Retry, Blocks!NoRequest
  <2> QED BY <2>1 DEF Blocks!Next
<1>7. CASE ~(n > HEAP_SIZE)
  BY <1>1, <1>4, <1>7, BlocksStutter
<1> QED BY <1>6, <1>7

LEMMA StepImplements ==
  ASSUME MemoryInv, NEW t \in Threads, Step(t) \/ Call(t)
  PROVE  Blocks!Next \/ UNCHANGED Blocks!vars
<1>0. LockInv'
  BY StepKeepsLocks, CallKeepsLocks DEF MemoryInv
<1>1. CASE \/ MallocLock(t) \/ MallocSearch(t) \/ Walk(t) \/ FreeLock(t)
           \/ DumpLock(t) \/ DumpWalk(t) \/ DumpList(t) \/ DumpUnlock(t)
           \/ UnlockAll(t) \/ Return(t) \/ Call(t)
  <2>1. Still /\ PendingAsk' = PendingAsk
    BY <1>0, <1>1, LookingKeeps, CallKeeps
  <2> QED BY <2>1, BlocksStutter DEF Still
<1>2. CASE MallocExtend(t)
  <2>1. /\ FreeSet' = FreeSet /\ BlockSet' = BlockSet /\ HeapEnd' = HeapEnd
        /\ live' = live /\ PendingAsk' = PendingAsk
        /\ \A a \in Address : a < HeapEnd => heap'.size[a] = heap.size[a]
    BY <1>0, <1>2, ExtendKeeps
  <2>2. \A c \in BlockSet : c \in Address /\ c < HeapEnd
    BY Addresses DEF MemoryInv, Described, Tiled
  <2> QED BY <2>1, <2>2, BlocksStutter
<1>3. CASE MallocAllocate(t)
  BY <1>0, <1>3, AllocateImplements
<1>4. CASE MallocInsert(t)
  BY <1>0, <1>4, InsertImplements
<1>5. CASE MallocRetry(t)
  BY <1>0, <1>5, RetryImplements
<1>6. CASE FreeBlock(t)
  BY <1>0, <1>6, FreeImplements
<1> QED BY <1>1, <1>2, <1>3, <1>4, <1>5, <1>6 DEF Step

(* The threaded allocator, with its list, its mutex, its recursive retry   *)
(* and its dumps, implements the heap of blocks: each call of my_malloc    *)
(* and of my_free takes effect at one instant, whatever else is under way, *)
(* so that what holds of the heap of blocks holds of it.                   *)
THEOREM ThreadsImplementBlocks == Spec => ImplementsHeapBlocks
<1>1. Init => Blocks!Init
  <2> SUFFICES ASSUME Init PROVE Blocks!Init
    OBVIOUS
  <2>1. FreeSet = {0} /\ BlockSet = {0} /\ HeapEnd = HEAP_SIZE /\ PendingAsk = NULL
    BY InitMemory
  <2>2. heap.size[0] = HEAP_SIZE /\ live = [a \in {} |-> NULL]
    BY Addresses DEF Init
  <2>3. [b \in BlockSet |-> heap.size[b]] = [b \in {0} |-> HEAP_SIZE]
    BY <2>1, <2>2
  <2>4. (IF HeapEnd > HEAP_SIZE THEN {HEAP_SIZE} ELSE {}) = {}
    BY <2>1, Addresses
  <2> QED BY <2>1, <2>2, <2>3, <2>4 DEF Blocks!Init, Blocks!NoRequest, NULL
<1>2. MemoryInv /\ [Next]_vars => [Blocks!Next]_(Blocks!vars)
  <2> SUFFICES ASSUME MemoryInv, [Next]_vars
               PROVE  Blocks!Next \/ UNCHANGED Blocks!vars
    OBVIOUS
  <2>1. CASE UNCHANGED vars
    BY <2>1, Stuttering, BlocksStutter
  <2>2. CASE \E t \in Threads : Step(t) \/ Call(t)
    BY <2>2, StepImplements
  <2> QED BY <2>1, <2>2 DEF Next, Killed
<1> QED BY <1>1, <1>2, MemoryInvariant, PTL
        DEF Spec, ImplementsHeapBlocks, Blocks!Spec

-----------------------------------------------------------------------------
(* The two instances say the same.                                        *)
LEMMA SameBlocks == Blocks!Spec => Proved!Spec
<1>1. Blocks!Init => Proved!Init
  BY Zenon DEF Blocks!Init, Proved!Init, Blocks!NoRequest, Proved!NoRequest
<1>2. [Blocks!Next]_(Blocks!vars) => [Proved!Next]_(Proved!vars)
  BY Zenon
  DEF Blocks!Next, Proved!Next, Blocks!vars, Proved!vars, Blocks!Malloc,
      Proved!Malloc, Blocks!Extend, Proved!Extend, Blocks!Retry,
      Proved!Retry, Blocks!Free, Proved!Free, Blocks!RetrySize,
      Proved!RetrySize, Blocks!BestFit, Proved!BestFit, Blocks!Fitting,
      Proved!Fitting, Blocks!AllocateBlock, Proved!AllocateBlock,
      Blocks!BlockSize, Proved!BlockSize, Blocks!RoundUp, Proved!RoundUp,
      Blocks!Wrap, Proved!Wrap, Blocks!Blocks, Proved!Blocks,
      Blocks!NoRequest, Proved!NoRequest, Blocks!Base, Proved!Base,
      Blocks!Limit, Proved!Limit, Blocks!Absorbed, Proved!Absorbed,
      Blocks!End, Proved!End
<1> QED BY <1>1, <1>2, PTL DEF Blocks!Spec, Proved!Spec

(* So what is proved of the blocks holds of the threads: whatever they all *)
(* do at once, the blocks that the headers describe partition the heap,    *)
(* fit their requests, and have no free neighbours but at an extension.    *)
THEOREM ThreadsHeapSafe == Spec => []Proved!HeapSafe
<1>1. Proved!Aligned(HEAP_SIZE) /\ 2 * HEAP_SIZE \in Nat
  BY HeapAssumption DEF Aligned, Proved!Aligned
<1>2. Proved!Spec => []Proved!HeapSafe
  BY <1>1, Proved!HeapAlwaysSafe, HeapAssumption, RequestAssumption,
     HeaderAssumption, WordAssumption, PTL
<1> QED BY <1>2, SameBlocks, ThreadsImplementBlocks, PTL DEF ImplementsHeapBlocks

(* And to the application the threads' my_malloc and my_free are those of  *)
(* MemoryService: a block in use is its holder's alone, and stays.         *)
THEOREM ThreadsServeMemory == Spec => Proved!ImplementsMemoryService
<1>1. Proved!Aligned(HEAP_SIZE) /\ 2 * HEAP_SIZE \in Nat
  BY HeapAssumption DEF Aligned, Proved!Aligned
<1>2. Proved!Spec => Proved!ImplementsMemoryService
  BY <1>1, Proved!ServesMemory, HeapAssumption, RequestAssumption,
     HeaderAssumption, WordAssumption, PTL
<1> QED BY <1>2, SameBlocks, ThreadsImplementBlocks, PTL DEF ImplementsHeapBlocks

-----------------------------------------------------------------------------
(* allocator_test.  A thread with iteration i, at a label with locals l,   *)
(* while the blocks are the answers to requests:                           *)
MallocWork == MallocLabels \cup {"m_unlock"}
FreeWork   == {"f_lock", "f_walk", "f_unlock"}

AtWork(phase, answers, label, l, i) ==
    /\ label \notin Waiting
    /\ label = "idle" <=> i = NoIteration
    /\ phase = "malloc" => /\ label \in MallocWork \cup {"idle", "return"}
                           /\ label \in MallocLabels => l.ask = Size[i]
                           /\ \A b \in Claim(label, l) : answers[b] = Size[i]
    /\ phase = "free" => /\ label \in FreeWork \cup {"idle", "return"}
                         /\ label \in {"f_unlock", "return"} => l.block = NULL
    /\ phase = "none" => label = "idle"

(* Each iteration is run by one thread.                                    *)
Iterating ==
    /\ loop \in {"malloc", "free", "none"} /\ debug = FALSE
    /\ todo \subseteq Iterations
    /\ loop = "none" => todo = {}
    /\ iter \in [Threads -> (Iterations \ todo) \cup {NoIteration}]
    /\ \A t, u \in Threads : iter[t] = iter[u] /\ iter[t] # NoIteration => t = u
    /\ \A t \in Threads : AtWork(loop, live, pc[t], loc[t], iter[t])

(* The elements of my_block that no iteration of the second loop took are  *)
(* the application's blocks, each the answer to its iteration.             *)
StillUsed == IF loop = "malloc" THEN Iterations ELSE todo

Stored ==
    /\ my_block = [i \in Iterations |-> my_block[i]]
    /\ held = {my_block[i] : i \in StillUsed} \ {NULL}
    /\ \A i \in StillUsed : my_block[i] # NULL =>
          /\ live[my_block[i]] = Size[i]
          /\ \A j \in StillUsed : my_block[i] = my_block[j] => i = j
    /\ loop = "malloc" => /\ \A i \in todo : my_block[i] = NULL
                          /\ \A t \in Threads : iter[t] # NoIteration =>
                                my_block[iter[t]] = NULL

(* No block that was allocated is lost.                                    *)
NoneLost == \A b \in DOMAIN live :
               b \in held \/ \E t \in Threads : b \in Claim(pc[t], loc[t])

TestInv == MemoryInv /\ Iterating /\ Stored /\ NoneLost

(* What a step of a call does besides its work on the list: it moves on,   *)
(* allocates a block that was free, or frees the block it was given.       *)
Moves(t, to, r) == /\ Goto(t, to) /\ loc' = [loc EXCEPT ![t] = r]
                   /\ held' = held /\ debug' = debug

OnlyMoving(at, l, to, r) ==
    /\ live' = live /\ Claim(to, r) = Claim(at, l) /\ r.ask = l.ask
    /\ \/ /\ at \in MallocWork /\ to \in MallocWork \cup {"return"}
          /\ to \in MallocLabels => at \in MallocLabels
       \/ at \in {"f_lock", "f_walk"} /\ to \in {"f_lock", "f_walk"}
       \/ at = "f_unlock" /\ to \in {"f_unlock", "return"}

Allocating(at, l, to, r) ==
    /\ at = "m_search" /\ to = "m_unlock" /\ l.block = NULL /\ r.block \in FreeSet
    /\ live' = [b \in DOMAIN live \cup {r.block} |->
                   IF b = r.block THEN l.ask ELSE live[b]]

Freeing(at, l, to, r) ==
    /\ at = "f_walk" /\ to = "f_unlock" /\ l.block # NULL /\ r.block = NULL
    /\ live' = [b \in DOMAIN live \ {l.block} |-> live[b]]

LEMMA StepEffects ==
  ASSUME MemoryInv, debug = FALSE, NEW t \in Threads,
         pc[t] \notin Waiting \cup {"return"}, Step(t)
  PROVE  \E to, r :
            /\ to \in Labels \ (Waiting \cup {"idle"}) /\ Moves(t, to, r)
            /\ \/ OnlyMoving(pc[t], loc[t], to, r)
               \/ Allocating(pc[t], loc[t], to, r)
               \/ Freeing(pc[t], loc[t], to, r)
<1> DEFINE Effect(to, r) == /\ to \in Labels \ (Waiting \cup {"idle"}) /\ Moves(t, to, r)
                            /\ \/ OnlyMoving(pc[t], loc[t], to, r)
                               \/ Allocating(pc[t], loc[t], to, r)
                               \/ Freeing(pc[t], loc[t], to, r)
           Some == \E to, r : Effect(to, r)
<1>0. PICK l : l = loc[t] /\ l \in LocalsType
  BY Known
<1>1. /\ pc[t] \in Labels /\ loc = [u \in Threads |-> loc[u]]
      /\ Works(pc[t], l) /\ Knows(pc[t], l, heap, FreeSet, BlockSet)
      /\ pc \in [Threads -> Labels]
  BY <1>0, Known DEF LockInv
<1> USE DEF Labels, Waiting, MallocWork, MallocLabels, memVars, appVars
<1>2. CASE MallocLock(t)
  <2>1. PICK r : r = [l EXCEPT !.best = NULL, !.bestPrev = NULL,
                               !.prev = NULL, !.cur = heap.first]
    OBVIOUS
  <2>2. r.ask = l.ask /\ r.block = l.block
    BY <1>0, <2>1 DEF LocalsType
  <2>3. Moves(t, "m_search", r) /\ live' = live
    BY <1>0, <1>2, <2>1 DEF MallocLock, GotoVia, Moves
  <2>4. OnlyMoving(pc[t], l, "m_search", r)
    BY <1>2, <2>2, <2>3 DEF MallocLock, At, OnlyMoving, Claim
  <2> QED BY <1>0, <2>3, <2>4
<1>3. CASE MallocSearch(t)
  <2>1. PICK r : r = [l EXCEPT !.best     = IF Better(l) THEN l.cur ELSE @,
                               !.bestPrev = IF Better(l) THEN l.prev ELSE @,
                               !.prev     = l.cur,
                               !.cur      = heap.next[l.cur]]
    OBVIOUS
  <2>2. r.ask = l.ask /\ r.block = l.block
    BY <1>0, <2>1 DEF LocalsType
  <2>3. Moves(t, "m_search", r) /\ live' = live
    BY <1>0, <1>1, <1>3, <2>1 DEF MallocSearch, Moves, At, Goto
  <2>4. OnlyMoving(pc[t], l, "m_search", r)
    BY <1>3, <2>2, <2>3 DEF MallocSearch, At, OnlyMoving, Claim
  <2> QED BY <1>0, <2>3, <2>4
<1>4. CASE MallocAllocate(t)
  <2>1. PICK r : r = [l EXCEPT !.block = l.best]
    OBVIOUS
  <2>2. r.block = l.best
    BY <1>0, <2>1 DEF LocalsType
  <2>3. Moves(t, "m_unlock", r)
    BY <1>0, <1>4, <2>1 DEF MallocAllocate, GotoVia, Moves
  <2>4. pc[t] = "m_search" /\ l.best # NULL
    BY <1>0, <1>4 DEF MallocAllocate, At
  <2>5. l.best \in FreeSet /\ l.block = NULL
    BY <1>1, <2>4 DEF Knows, Searched, Works, Asks, Resuming
  <2>6. live' = [b \in DOMAIN live \cup {r.block} |-> IF b = r.block THEN l.ask ELSE live[b]]
    BY <1>0, <1>4, <2>2 DEF MallocAllocate
  <2>7. Allocating(pc[t], l, "m_unlock", r)
    BY <2>2, <2>4, <2>5, <2>6 DEF Allocating
  <2> QED BY <1>0, <2>3, <2>7
<1>5. CASE MallocExtend(t)
  <2>1. pc[t] = "m_search" /\ l.block = NULL /\ live' = live /\ held' = held /\ debug' = debug
    BY <1>1, <1>5 DEF MallocExtend, At, Works, Asks, Resuming
  <2>2. CASE heapSize >= brk'
    <3>1. Moves(t, "m_search", l)
      BY <1>0, <1>1, <1>5, <2>1, <2>2 DEF MallocExtend, Moves, Goto
    <3>2. OnlyMoving(pc[t], l, "m_search", l)
      BY <2>1 DEF OnlyMoving
    <3> QED BY <1>0, <3>1, <3>2
  <2>3. CASE ~(heapSize >= brk')
    <3>1. PICK r : r = [l EXCEPT !.block = heapSize, !.prev = NULL, !.cur = heap.first]
      OBVIOUS
    <3>2. r.ask = l.ask
      BY <1>0, <3>1 DEF LocalsType
    <3>3. Moves(t, "m_insert", r)
      BY <1>0, <1>1, <1>5, <2>1, <2>3, <3>1 DEF MallocExtend, Moves, LocalsType
    <3>4. OnlyMoving(pc[t], l, "m_insert", r)
      BY <2>1, <3>2 DEF OnlyMoving, Claim
    <3> QED BY <1>0, <3>3, <3>4
  <2> QED BY <2>2, <2>3
<1>6. CASE MallocInsert(t)
  <2>1. PICK r : r = [l EXCEPT !.retry = @ + 1, !.block = NULL]
    OBVIOUS
  <2>2. r.ask = l.ask /\ r.block = NULL
    BY <1>0, <2>1 DEF LocalsType
  <2>3. Moves(t, "m_retry", r) /\ live' = live
    BY <1>0, <1>1, <1>6, <2>1 DEF MallocInsert, Moves, LocalsType
  <2>4. OnlyMoving(pc[t], l, "m_retry", r)
    BY <1>6, <2>2, <2>3 DEF MallocInsert, At, OnlyMoving, Claim
  <2> QED BY <1>0, <2>3, <2>4
<1>7. CASE MallocRetry(t)
  <2>1. pc[t] = "m_retry" /\ live' = live /\ held' = held /\ debug' = debug
    BY <1>7 DEF MallocRetry, At
  <2>2. CASE BlockSize(l.size) > HEAP_SIZE
    <3>1. PICK r : r = [l EXCEPT !.retry = @ - 1]
      OBVIOUS
    <3>2. r.ask = l.ask /\ r.block = l.block
      BY <1>0, <3>1 DEF LocalsType
    <3>3. Moves(t, "m_unlock", r)
      BY <1>0, <1>1, <1>7, <2>1, <2>2, <3>1 DEF MallocRetry, Moves, LocalsType
    <3>4. OnlyMoving(pc[t], l, "m_unlock", r)
      BY <2>1, <3>2 DEF OnlyMoving, Claim
    <3> QED BY <1>0, <3>3, <3>4
  <2>3. CASE ~(BlockSize(l.size) > HEAP_SIZE)
    <3>1. PICK r : r = [l EXCEPT !.size = BlockSize(l.size)]
      OBVIOUS
    <3>2. r.ask = l.ask /\ r.block = l.block
      BY <1>0, <3>1 DEF LocalsType
    <3>3. Moves(t, "m_lock", r)
      BY <1>0, <1>1, <1>7, <2>1, <2>3, <3>1 DEF MallocRetry, Moves, LocalsType
    <3>4. OnlyMoving(pc[t], l, "m_lock", r)
      BY <2>1, <3>2 DEF OnlyMoving, Claim
    <3> QED BY <1>0, <3>3, <3>4
  <2> QED BY <2>2, <2>3
<1>8. CASE FreeLock(t)
  <2>1. PICK r : r = [l EXCEPT !.prev = NULL, !.cur = heap.first]
    OBVIOUS
  <2>2. r.ask = l.ask /\ r.block = l.block
    BY <1>0, <2>1 DEF LocalsType
  <2>3. Moves(t, "f_walk", r) /\ live' = live
    BY <1>0, <1>1, <1>8, <2>1 DEF FreeLock, Moves, LocalsType
  <2>4. OnlyMoving(pc[t], l, "f_walk", r)
    BY <1>8, <2>2, <2>3 DEF FreeLock, At, OnlyMoving, Claim
  <2> QED BY <1>0, <2>3, <2>4
<1>9. CASE FreeBlock(t)
  <2>1. PICK r : r = [l EXCEPT !.block = NULL]
    OBVIOUS
  <2>2. r.block = NULL
    BY <1>0, <2>1 DEF LocalsType
  <2>3. Moves(t, "f_unlock", r)
    BY <1>0, <1>1, <1>9, <2>1 DEF FreeBlock, Moves, LocalsType
  <2>4. pc[t] = "f_walk" /\ live' = [b \in DOMAIN live \ {l.block} |-> live[b]]
    BY <1>0, <1>9 DEF FreeBlock, At
  <2>5. Freeing(pc[t], l, "f_unlock", r)
    BY <1>1, <2>2, <2>4 DEF Freeing, Works
  <2> QED BY <1>0, <2>3, <2>5
<1>10. CASE Walk(t)
  <2>1. pc[t] \in {"m_insert", "f_walk"} /\ live' = live
    BY <1>10 DEF Walk, At
  <2>2. PICK r : r = [l EXCEPT !.prev = l.cur, !.cur = heap.next[l.cur]]
    OBVIOUS
  <2>3. r.ask = l.ask /\ r.block = l.block
    BY <1>0, <2>2 DEF LocalsType
  <2>4. Moves(t, pc[t], r)
    BY <1>0, <1>1, <1>10, <2>2 DEF Walk, Moves, LocalsType, Goto
  <2>5. OnlyMoving(pc[t], l, pc[t], r)
    BY <2>1, <2>3 DEF OnlyMoving, Claim
  <2> QED BY <1>0, <2>1, <2>4, <2>5
<1>11. CASE UnlockAll(t)
  <2>1. pc[t] \in {"m_unlock", "f_unlock"} /\ live' = live
    BY <1>11 DEF UnlockAll, At
  <2>2. CASE l.retry = 0
    <3>1. Moves(t, "return", l)
      BY <1>0, <1>1, <1>11, <2>2 DEF UnlockAll, Moves
    <3>2. OnlyMoving(pc[t], l, "return", l)
      BY <2>1 DEF OnlyMoving, Claim
    <3> QED BY <1>0, <3>1, <3>2
  <2>3. CASE l.retry # 0
    <3>1. PICK r : r = [l EXCEPT !.retry = @ - 1]
      OBVIOUS
    <3>2. r.ask = l.ask /\ r.block = l.block
      BY <1>0, <3>1 DEF LocalsType
    <3>3. Moves(t, pc[t], r)
      BY <1>0, <1>1, <1>11, <2>3, <3>1 DEF UnlockAll, Moves, LocalsType, Goto
    <3>4. OnlyMoving(pc[t], l, pc[t], r)
      BY <2>1, <3>2 DEF OnlyMoving, Claim
    <3> QED BY <1>0, <2>1, <3>3, <3>4
  <2> QED BY <2>2, <2>3
<1>12. ~(Return(t) \/ DumpLock(t) \/ DumpWalk(t) \/ DumpList(t) \/ DumpUnlock(t))
  BY DEF Return, DumpLock, DumpWalk, DumpList, DumpUnlock, At
<1> QED
  BY <1>2, <1>3, <1>4, <1>5, <1>6, <1>7, <1>8, <1>9, <1>10, <1>11, <1>12 DEF Step

(* Frames: what the invariant asks after a step of thread t alone, which   *)
(* leaves the application's blocks as they are.                            *)
LEMMA TestStepKeeps ==
  ASSUME TestInv, NEW t \in Threads, pc[t] # "return", Step(t),
         UNCHANGED testVars
  PROVE  Iterating' /\ Stored' /\ NoneLost'
<1>1. PICK l : l = loc[t]
  OBVIOUS
<1>2. AtWork(loop, live, pc[t], l, iter[t]) /\ debug = FALSE /\ Owned
  BY <1>1 DEF TestInv, Iterating, MemoryInv
<1>3. PICK to, r :
         /\ to \in Labels \ (Waiting \cup {"idle"}) /\ Moves(t, to, r)
         /\ \/ OnlyMoving(pc[t], l, to, r)
            \/ Allocating(pc[t], l, to, r)
            \/ Freeing(pc[t], l, to, r)
  BY <1>1, <1>2, StepEffects DEF TestInv, AtWork
<1>4. /\ pc \in [Threads -> Labels] /\ loc = [u \in Threads |-> loc[u]]
  BY DEF TestInv, MemoryInv, LockInv
<1>5. /\ pc'[t] = to /\ loc'[t] = r
      /\ \A u \in Threads \ {t} : pc'[u] = pc[u] /\ loc'[u] = loc[u]
      /\ held' = held /\ debug' = FALSE
  BY <1>2, <1>3, <1>4 DEF Moves, Goto
<1>6. /\ FreeSet \cap DOMAIN live = {} /\ NULL \notin FreeSet
      /\ FreeSet \subseteq DOMAIN heap.size
  BY Known DEF TestInv, MemoryInv, HeapRecords
<1>7. /\ \A b \in DOMAIN live :
            b \notin Claim(pc[t], l) => b \in DOMAIN live' /\ live'[b] = live[b]
      /\ \A b \in DOMAIN live' : b \notin DOMAIN live => b \in Claim(to, r)
      /\ \A b \in Claim(pc[t], l) : b \in DOMAIN live' => b \in Claim(to, r)
  <2>1. CASE OnlyMoving(pc[t], l, to, r)
    BY <1>2, <2>1 DEF OnlyMoving, Owned
  <2>2. CASE Allocating(pc[t], l, to, r)
    BY <1>2, <1>6, <2>2 DEF Allocating, Claim
  <2>3. CASE Freeing(pc[t], l, to, r)
    BY <1>2, <2>3 DEF Freeing, Claim
  <2> QED BY <1>3, <2>1, <2>2, <2>3
<1>8. AtWork(loop, live', to, r, iter[t])
  <2>1. iter[t] # NoIteration
    <3>1. pc[t] # "idle"
      BY <1>3 DEF OnlyMoving, Allocating, Freeing, MallocWork, MallocLabels
    <3> QED BY <1>2, <3>1 DEF AtWork
  <2>2. CASE OnlyMoving(pc[t], l, to, r)
    <3>1. Claim(to, r) = Claim(pc[t], l) /\ live' = live /\ r.ask = l.ask
      BY <2>2 DEF OnlyMoving
    <3>2. pc[t] = "f_unlock" => (l.block = NULL => r.block = NULL)
      BY <2>2, <3>1 DEF OnlyMoving, Claim, MallocWork, MallocLabels
    <3> QED BY <1>2, <1>3, <2>1, <2>2, <3>1, <3>2
            DEF AtWork, OnlyMoving, MallocWork, MallocLabels, FreeWork
  <2>3. CASE Allocating(pc[t], l, to, r)
    <3>1. live'[r.block] = l.ask /\ Claim(to, r) \subseteq {r.block}
      BY <2>3 DEF Allocating, Claim
    <3> QED BY <1>2, <1>3, <2>1, <2>3, <3>1
            DEF AtWork, Allocating, MallocWork, MallocLabels, FreeWork
  <2>4. CASE Freeing(pc[t], l, to, r)
    BY <1>2, <1>3, <2>1, <2>4 DEF AtWork, Freeing, MallocWork, MallocLabels, FreeWork
  <2> QED BY <1>3, <2>2, <2>3, <2>4
<1>9. \A u \in Threads : AtWork(loop, live', pc'[u], loc'[u], iter[u])
  <2> SUFFICES ASSUME NEW u \in Threads \ {t}
               PROVE  AtWork(loop, live', pc[u], loc[u], iter[u])
    BY <1>5, <1>8
  <2>1. AtWork(loop, live, pc[u], loc[u], iter[u])
    BY DEF TestInv, Iterating
  <2>2. \A b \in Claim(pc[u], loc[u]) : live'[b] = live[b]
    BY <1>1, <1>2, <1>7 DEF Owned
  <2> QED BY <2>1, <2>2 DEF AtWork
<1>10. Iterating'
  BY <1>5, <1>9 DEF TestInv, Iterating, testVars
<1>11. Stored'
  <2>1. \A b \in held : live'[b] = live[b]
    BY <1>1, <1>2, <1>7 DEF Owned
  <2>2. \A i \in StillUsed : my_block[i] # NULL => my_block[i] \in held
    BY DEF TestInv, Stored
  <2>3. StillUsed' = StillUsed
    BY DEF StillUsed, testVars
  <2> QED BY <1>5, <2>1, <2>2, <2>3 DEF TestInv, Stored, testVars
<1>12. NoneLost'
  <2> SUFFICES ASSUME NEW b \in DOMAIN live', b \notin held
               PROVE  \E u \in Threads : b \in Claim(pc'[u], loc'[u])
    BY <1>5 DEF NoneLost, Claim
  <2>1. CASE b \in Claim(to, r)
    BY <1>5, <2>1
  <2>2. CASE b \notin Claim(to, r)
    <3>1. b \in DOMAIN live /\ b \notin Claim(pc[t], l)
      BY <1>7, <2>2
    <3>2. PICK u \in Threads : b \in Claim(pc[u], loc[u])
      BY <3>1 DEF TestInv, NoneLost
    <3> QED BY <1>1, <1>5, <3>1, <3>2
  <2> QED BY <2>1, <2>2
<1> QED BY <1>10, <1>11, <1>12

(* An iteration starts with the thread's call.                             *)
LEMMA StartKeeps ==
  ASSUME TestInv, NEW t \in Threads, NEW i \in todo,
         MallocIteration(t, i) \/ FreeIteration(t, i)
  PROVE  /\ Call(t)
         /\ Iterating' /\ Stored' /\ NoneLost'
<1>1. PICK l : l = loc[t]
  OBVIOUS
<1>2. /\ AtWork(loop, live, pc[t], l, iter[t]) /\ debug = FALSE /\ Owned
      /\ Works(pc[t], l)
      /\ pc \in [Threads -> Labels] /\ loc = [u \in Threads |-> loc[u]]
  BY <1>1 DEF TestInv, Iterating, MemoryInv, LockInv
<1>3. /\ iter[t] = NoIteration /\ pc[t] = "idle" /\ l.block = NULL /\ l \in LocalsType
      /\ i \in Iterations /\ i # NoIteration /\ loop \in {"malloc", "free"}
  BY <1>2, SizeAssumption
  DEF MallocIteration, FreeIteration, Start, AtWork, Works, TestInv, Iterating, NoIteration
<1>4. /\ iter' = [iter EXCEPT ![t] = i] /\ todo' = todo \ {i}
      /\ loop' = loop /\ my_block' = my_block /\ live' = live /\ debug' = FALSE
  BY <1>2 DEF MallocIteration, FreeIteration, Start, MallocCall, FreeCall, appVars
<1>5. \A u \in Threads : u # t => iter[u] # i
  BY <1>3 DEF TestInv, Iterating
<1>6. ASSUME NEW to \in Labels, NEW r,
             pc' = [pc EXCEPT ![t] = to], loc' = [loc EXCEPT ![t] = r],
             AtWork(loop, live, to, r, i)
      PROVE  /\ Iterating'
             /\ \A u \in Threads \ {t} : pc'[u] = pc[u] /\ loc'[u] = loc[u]
             /\ pc'[t] = to /\ loc'[t] = r
  <2>1. \A u \in Threads : /\ pc'[u] = IF u = t THEN to ELSE pc[u]
                           /\ loc'[u] = IF u = t THEN r ELSE loc[u]
                           /\ iter'[u] = IF u = t THEN i ELSE iter[u]
    BY <1>2, <1>4, <1>6 DEF TestInv, Iterating
  <2>2. \A u \in Threads : AtWork(loop, live, pc'[u], loc'[u], iter'[u])
    BY <1>6, <2>1 DEF TestInv, Iterating
  <2>3. iter' \in [Threads -> (Iterations \ todo') \cup {NoIteration}]
    BY <1>3, <1>4 DEF TestInv, Iterating
  <2>4. \A u, v \in Threads : iter'[u] = iter'[v] /\ iter'[u] # NoIteration => u = v
    BY <1>5, <2>1 DEF TestInv, Iterating
  <2> QED BY <1>3, <1>4, <2>1, <2>2, <2>3, <2>4 DEF TestInv, Iterating
<1>7. CASE MallocIteration(t, i)
  <2>1. loop = "malloc" /\ MallocCall(t, Size[i]) /\ Size[i] \in Requests
    BY <1>3, <1>7, SizeAssumption DEF MallocIteration
  <2>2. held' = held /\ Claim(pc[t], l) = {}
    BY <1>3, <2>1 DEF MallocCall, appVars, Claim
  <2>3. PICK to, r :
           /\ to \in Labels /\ pc' = [pc EXCEPT ![t] = to] /\ loc' = [loc EXCEPT ![t] = r]
           /\ \/ to = "return" /\ r = l
              \/ to = "m_lock" /\ r.ask = Size[i] /\ r.block = l.block
    <3>1. CASE BlockSize(Size[i]) > HEAP_SIZE
      BY <1>1, <1>2, <2>1, <3>1 DEF MallocCall, Goto, Labels
    <3>2. CASE ~(BlockSize(Size[i]) > HEAP_SIZE)
      <4>1. PICK r : r = [l EXCEPT !.ask = Size[i], !.size = BlockSize(Size[i])]
        OBVIOUS
      <4>2. r.ask = Size[i] /\ r.block = l.block
        BY <1>3, <4>1 DEF LocalsType
      <4>3. loc' = [loc EXCEPT ![t] = r] /\ pc' = [pc EXCEPT ![t] = "m_lock"]
        BY <1>1, <1>2, <1>3, <2>1, <3>2, <4>1 DEF MallocCall, Goto, LocalsType
      <4> QED BY <4>2, <4>3 DEF Labels
    <3> QED BY <3>1, <3>2
  <2>4. Claim(to, r) = {}
    BY <1>3, <2>3 DEF Claim
  <2>5. AtWork(loop, live, to, r, i)
    BY <1>3, <2>1, <2>3, <2>4 DEF AtWork, MallocWork, MallocLabels, Waiting
  <2>6. Iterating' /\ \A u \in Threads \ {t} : pc'[u] = pc[u] /\ loc'[u] = loc[u]
    BY <1>6, <2>3, <2>5
  <2>7. Stored'
    <3>1. StillUsed' = StillUsed
      BY <1>4, <2>1 DEF StillUsed
    <3>2. my_block[i] = NULL
      BY <2>1 DEF TestInv, Stored
    <3>3. \A u \in Threads : iter'[u] # NoIteration =>
             iter'[u] = i \/ iter'[u] = iter[u]
      BY <1>4 DEF TestInv, Iterating
    <3>4. \A u \in Threads : iter'[u] # NoIteration => my_block[iter'[u]] = NULL
      <4> SUFFICES ASSUME NEW u \in Threads, iter'[u] # NoIteration
                   PROVE  my_block[iter'[u]] = NULL
        OBVIOUS
      <4>1. CASE iter'[u] = i
        BY <3>2, <4>1
      <4>2. CASE iter'[u] = iter[u]
        BY <2>1, <4>2 DEF TestInv, Stored
      <4> QED BY <3>3, <4>1, <4>2
    <3>5. \A j \in StillUsed : my_block[j] # NULL =>
             /\ live[my_block[j]] = Size[j]
             /\ \A k \in StillUsed : my_block[j] = my_block[k] => j = k
      BY DEF TestInv, Stored
    <3>6. my_block = [j \in Iterations |-> my_block[j]]
          /\ held = {my_block[j] : j \in StillUsed} \ {NULL}
          /\ \A j \in todo \ {i} : my_block[j] = NULL
      BY <2>1 DEF TestInv, Stored
    <3>7. /\ my_block' = [j \in Iterations |-> my_block'[j]]
          /\ held' = {my_block'[j] : j \in StillUsed'} \ {NULL}
      BY <1>4, <2>2, <3>1, <3>6
    <3>8. \A j \in StillUsed' : my_block'[j] # NULL =>
             /\ live'[my_block'[j]] = Size[j]
             /\ \A k \in StillUsed' : my_block'[j] = my_block'[k] => j = k
      BY <1>4, <3>1, <3>5
    <3>9. /\ \A j \in todo' : my_block'[j] = NULL
          /\ \A u \in Threads : iter'[u] # NoIteration => my_block'[iter'[u]] = NULL
      BY <1>4, <3>4, <3>6
    <3> QED BY <3>7, <3>8, <3>9 DEF Stored, NULL, NoIteration
  <2>8. NoneLost'
    <3> SUFFICES ASSUME NEW b \in DOMAIN live, b \notin held
                 PROVE  \E u \in Threads : b \in Claim(pc'[u], loc'[u])
      BY <1>4, <2>2 DEF NoneLost, Claim
    <3>1. PICK u \in Threads : b \in Claim(pc[u], loc[u])
      BY DEF TestInv, NoneLost
    <3> QED BY <1>1, <2>2, <2>6, <3>1
  <2>9. Call(t)
    BY <2>1 DEF Call
  <2> QED BY <2>6, <2>7, <2>8, <2>9
<1>8. CASE FreeIteration(t, i)
  <2>1. PICK a : a = my_block[i]
    OBVIOUS
  <2>2. loop = "free" /\ FreeCall(t, a) /\ StillUsed = todo /\ StillUsed' = todo \ {i}
    BY <1>4, <1>8, <2>1 DEF FreeIteration, StillUsed
  <2>3. held' = held \ {a} /\ a \in held \cup {NULL} /\ Claim(pc[t], l) = {}
    BY <1>3, <2>1, <2>2 DEF FreeCall, Claim, TestInv, Stored
  <2>4. PICK to, r :
           /\ to \in Labels /\ pc' = [pc EXCEPT ![t] = to] /\ loc' = [loc EXCEPT ![t] = r]
           /\ \/ to = "return" /\ r = l /\ a = NULL
              \/ to = "f_lock" /\ r.block = a
    <3>1. CASE a = NULL
      BY <1>1, <1>2, <2>2, <3>1 DEF FreeCall, Goto, Labels
    <3>2. CASE a # NULL
      <4>1. PICK r : r = [l EXCEPT !.block = a]
        OBVIOUS
      <4>2. r.block = a
        BY <1>3, <4>1 DEF LocalsType
      <4>3. loc' = [loc EXCEPT ![t] = r] /\ pc' = [pc EXCEPT ![t] = "f_lock"]
        BY <1>1, <1>2, <1>3, <2>2, <3>2, <4>1 DEF FreeCall, Goto, LocalsType
      <4> QED BY <4>2, <4>3 DEF Labels
    <3> QED BY <3>1, <3>2
  <2>5. AtWork(loop, live, to, r, i)
    BY <1>3, <2>2, <2>4 DEF AtWork, FreeWork, Waiting
  <2>6. /\ Iterating' /\ pc'[t] = to /\ loc'[t] = r
        /\ \A u \in Threads \ {t} : pc'[u] = pc[u] /\ loc'[u] = loc[u]
    BY <1>6, <2>4, <2>5
  <2>7. Stored'
    <3>1. held = {my_block[j] : j \in todo} \ {NULL}
      BY <2>2 DEF TestInv, Stored
    <3>2. \A j \in todo \ {i} : my_block[j] = a => a = NULL
      BY <2>1, <2>2 DEF TestInv, Stored
    <3>3. held' = {my_block[j] : j \in todo \ {i}} \ {NULL}
      BY <2>1, <2>3, <3>1, <3>2
    <3>4. \A j \in todo : my_block[j] # NULL =>
             /\ live[my_block[j]] = Size[j]
             /\ \A k \in todo : my_block[j] = my_block[k] => j = k
      BY <2>2 DEF TestInv, Stored
    <3>5. my_block = [j \in Iterations |-> my_block[j]]
      BY DEF TestInv, Stored
    <3>6. /\ my_block' = [j \in Iterations |-> my_block'[j]]
          /\ held' = {my_block'[j] : j \in StillUsed'} \ {NULL}
      BY <1>4, <2>2, <3>3, <3>5
    <3>7. \A j \in StillUsed' : my_block'[j] # NULL =>
             /\ live'[my_block'[j]] = Size[j]
             /\ \A k \in StillUsed' : my_block'[j] = my_block'[k] => j = k
      BY <1>4, <2>2, <3>4
    <3>8. loop' # "malloc"
      BY <1>4, <2>2
    <3> QED BY <3>6, <3>7, <3>8 DEF Stored, NULL, NoIteration
  <2>8. NoneLost'
    <3> SUFFICES ASSUME NEW b \in DOMAIN live, b \notin held \ {a}
                 PROVE  \E u \in Threads : b \in Claim(pc'[u], loc'[u])
      BY <1>4, <2>3 DEF NoneLost, Claim
    <3>1. CASE b \in held
      <4>1. b = a /\ b # NULL
        BY <3>1 DEF TestInv, Stored
      <4>2. b \in Claim(to, r)
        BY <2>4, <4>1 DEF Claim
      <4> QED BY <2>6, <4>2
    <3>2. CASE b \notin held
      <4>1. PICK u \in Threads : b \in Claim(pc[u], loc[u])
        BY <3>2 DEF TestInv, NoneLost
      <4> QED BY <1>1, <2>3, <2>6, <4>1
    <3> QED BY <3>1, <3>2
  <2>9. Call(t)
    BY <2>2, <2>3 DEF Call
  <2> QED BY <2>6, <2>7, <2>8, <2>9
<1> QED BY <1>7, <1>8

(* It ends with the thread's return; the first loop stores the result.     *)
LEMMA EndKeeps ==
  ASSUME TestInv, NEW t \in Threads, EndIteration(t)
  PROVE  Iterating' /\ Stored' /\ NoneLost'
<1>1. PICK l, i, b : l = loc[t] /\ i = iter[t] /\ b = l.block
  OBVIOUS
<1>2. /\ AtWork(loop, live, pc[t], l, i) /\ debug = FALSE /\ Owned
      /\ pc \in [Threads -> Labels] /\ loc = [u \in Threads |-> loc[u]]
      /\ iter \in [Threads -> (Iterations \ todo) \cup {NoIteration}]
  BY <1>1 DEF TestInv, Iterating, MemoryInv, LockInv
<1>3. /\ pc[t] = "return" /\ held' = held \cup ({b} \ {NULL})
      /\ pc' = [pc EXCEPT ![t] = "idle"] /\ loc' = [loc EXCEPT ![t] = NoLocals]
      /\ iter' = [iter EXCEPT ![t] = NoIteration]
      /\ live' = live /\ debug' = FALSE /\ loop' = loop /\ todo' = todo
      /\ my_block' = IF loop = "malloc" THEN [my_block EXCEPT ![i] = b] ELSE my_block
  BY <1>1, <1>2 DEF EndIteration, Return, At, Goto
<1>4. i # NoIteration /\ i \in Iterations \ todo /\ Claim(pc[t], l) = {b} \ {NULL}
  BY <1>1, <1>2, <1>3 DEF AtWork, Claim
<1>5. \A u \in Threads : /\ pc'[u] = IF u = t THEN "idle" ELSE pc[u]
                         /\ loc'[u] = IF u = t THEN NoLocals ELSE loc[u]
                         /\ iter'[u] = IF u = t THEN NoIteration ELSE iter[u]
  BY <1>2, <1>3
<1>6. loop \in {"malloc", "free"}
  BY <1>2, <1>3 DEF AtWork, TestInv, Iterating
<1>7. Iterating'
  <2>1. \A u \in Threads : AtWork(loop, live, pc'[u], loc'[u], iter'[u])
    <3>1. Claim("idle", NoLocals) = {}
      BY DEF Claim, NoLocals
    <3>2. AtWork(loop, live, "idle", NoLocals, NoIteration)
      BY <1>6, <3>1 DEF AtWork, Waiting, MallocLabels
    <3> QED BY <1>5, <3>2 DEF TestInv, Iterating
  <2>2. iter' \in [Threads -> (Iterations \ todo) \cup {NoIteration}]
    BY <1>2, <1>3
  <2>3. \A u, v \in Threads : iter'[u] = iter'[v] /\ iter'[u] # NoIteration => u = v
    BY <1>5 DEF TestInv, Iterating
  <2> QED BY <1>3, <2>1, <2>2, <2>3 DEF TestInv, Iterating
<1>8. NoneLost'
  <2> SUFFICES ASSUME NEW c \in DOMAIN live, c \notin held \cup ({b} \ {NULL})
               PROVE  \E u \in Threads : c \in Claim(pc'[u], loc'[u])
    BY <1>3 DEF NoneLost, Claim
  <2>1. PICK u \in Threads : c \in Claim(pc[u], loc[u])
    BY DEF TestInv, NoneLost
  <2> QED BY <1>1, <1>4, <1>5, <2>1
<1>9. Stored'
  <2>1. /\ my_block = [j \in Iterations |-> my_block[j]]
        /\ held = {my_block[j] : j \in StillUsed} \ {NULL}
        /\ \A j \in StillUsed : my_block[j] # NULL =>
              /\ live[my_block[j]] = Size[j]
              /\ \A k \in StillUsed : my_block[j] = my_block[k] => j = k
    BY DEF TestInv, Stored
  <2>2. StillUsed' = StillUsed
    BY <1>3 DEF StillUsed
  <2>3. CASE loop = "malloc"
    <3>1. StillUsed = Iterations /\ my_block[i] = NULL
      BY <1>1, <1>4, <2>3 DEF StillUsed, TestInv, Stored
    <3>2. \A j \in Iterations : my_block'[j] = IF j = i THEN b ELSE my_block[j]
      BY <1>3, <2>1, <2>3
    <3>3. b # NULL => b \notin held /\ live[b] = Size[i]
      BY <1>1, <1>2, <1>4, <2>3 DEF Owned, AtWork
    <3>4. my_block' = [j \in Iterations |-> my_block'[j]]
      BY <1>3, <2>1, <2>3
    <3>5. held' = {my_block'[j] : j \in Iterations} \ {NULL}
      BY <1>3, <1>4, <2>1, <3>1, <3>2
    <3>6. \A j \in Iterations : my_block'[j] # NULL =>
             /\ live'[my_block'[j]] = Size[j]
             /\ \A k \in Iterations : my_block'[j] = my_block'[k] => j = k
      <4>1. \A j \in Iterations : my_block[j] # NULL => my_block[j] \in held
        BY <2>1, <3>1
      <4> QED BY <1>3, <2>1, <3>1, <3>2, <3>3, <4>1
    <3>7. /\ \A j \in todo' : my_block'[j] = NULL
          /\ \A u \in Threads : iter'[u] # NoIteration => my_block'[iter'[u]] = NULL
      <4>1. \A j \in todo : my_block[j] = NULL /\ j \in Iterations
        BY <2>3 DEF TestInv, Stored, Iterating
      <4>2. \A u \in Threads : iter[u] # NoIteration =>
               my_block[iter[u]] = NULL /\ iter[u] \in Iterations /\ (u # t => iter[u] # i)
        <5>1. \A u \in Threads : iter[u] # NoIteration => my_block[iter[u]] = NULL
          BY <2>3 DEF TestInv, Stored
        <5>2. \A u \in Threads : iter[u] # NoIteration => iter[u] \in Iterations
          BY <1>2
        <5>3. \A u \in Threads : u # t => iter[u] # i
          BY <1>1, <1>4 DEF TestInv, Iterating
        <5> QED BY <5>1, <5>2, <5>3
      <4> QED BY <1>3, <1>4, <1>5, <3>2, <4>1, <4>2
    <3> QED BY <2>2, <3>1, <3>4, <3>5, <3>6, <3>7 DEF Stored, NULL, NoIteration
  <2>4. CASE loop = "free"
    <3>1. b = NULL
      BY <1>1, <1>2, <1>3, <2>4 DEF AtWork
    <3>2. held' = held /\ my_block' = my_block
      BY <1>3, <2>4, <3>1
    <3>3. /\ my_block' = [j \in Iterations |-> my_block'[j]]
          /\ held' = {my_block'[j] : j \in StillUsed'} \ {NULL}
          /\ \A j \in StillUsed' : my_block'[j] # NULL =>
                /\ live'[my_block'[j]] = Size[j]
                /\ \A k \in StillUsed' : my_block'[j] = my_block'[k] => j = k
      <4>1. /\ my_block' = my_block /\ held' = held /\ live' = live
            /\ StillUsed' = StillUsed
        BY <1>3, <2>2, <3>2
      <4> QED BY <2>1, <4>1
    <3> QED BY <1>3, <2>4, <3>3 DEF Stored, NULL
  <2> QED BY <1>6, <2>3, <2>4
<1> QED BY <1>7, <1>8, <1>9

LEMMA EndLoopKeeps ==
  ASSUME TestInv, EndLoop
  PROVE  Iterating' /\ Stored' /\ NoneLost'
<1>1. /\ UNCHANGED vars /\ iter' = iter /\ my_block' = my_block /\ todo = {}
      /\ loop' = IF loop = "malloc" THEN "free" ELSE "none"
      /\ todo' = IF loop = "malloc" THEN Iterations ELSE {}
      /\ loop \in {"malloc", "free"}
      /\ \A t \in Threads : iter[t] = NoIteration
  BY DEF EndLoop, TestInv, Iterating
<1>2. \A t \in Threads : pc[t] = "idle"
  BY <1>1 DEF TestInv, Iterating, AtWork
<1>3. \A t \in Threads : AtWork(loop', live, pc[t], loc[t], iter[t])
  BY <1>1, <1>2 DEF AtWork, Waiting
<1>4. Iterating'
  BY <1>1, <1>3 DEF TestInv, Iterating, vars, appVars
<1>5. Stored'
  <2>1. StillUsed' = StillUsed
    BY <1>1 DEF StillUsed
  <2> QED BY <1>1, <2>1 DEF TestInv, Stored, vars, appVars, NULL, NoIteration
<1>6. NoneLost'
  BY <1>1 DEF TestInv, NoneLost, vars, appVars, Claim
<1> QED BY <1>4, <1>5, <1>6

LEMMA NextTest ==
  TestInv /\ [TestNext]_allVars => TestInv' /\ [Next]_vars
<1> SUFFICES ASSUME TestInv, [TestNext]_allVars PROVE TestInv' /\ [Next]_vars
  OBVIOUS
<1>1. ASSUME NEW t \in Threads, TestStep(t) PROVE TestInv' /\ [Next]_vars
  <2>1. ASSUME NEW i \in todo, MallocIteration(t, i) \/ FreeIteration(t, i)
        PROVE  TestInv' /\ [Next]_vars
    BY <2>1, StartKeeps, StepKeepsMemory DEF TestInv, Next
  <2>2. CASE pc[t] # "return" /\ Step(t) /\ UNCHANGED testVars
    BY <2>2, TestStepKeeps, StepKeepsMemory DEF TestInv, Next
  <2>3. CASE EndIteration(t)
    <3>1. Step(t)
      BY <2>3 DEF EndIteration, Step
    <3> QED BY <2>3, <3>1, EndKeeps, StepKeepsMemory DEF TestInv, Next
  <2> QED BY <1>1, <2>1, <2>2, <2>3 DEF TestStep
<1>2. CASE EndLoop
  <2>1. UNCHANGED vars
    BY <1>2 DEF EndLoop
  <2> QED BY <1>2, <2>1, EndLoopKeeps, Stuttering DEF TestInv
<1>3. CASE UNCHANGED allVars
  <2>1. UNCHANGED vars /\ UNCHANGED testVars
    BY <1>3 DEF allVars
  <2>2. Iterating' /\ Stored' /\ NoneLost'
    <3>1. /\ pc' = pc /\ loc' = loc /\ live' = live /\ held' = held /\ debug' = debug
          /\ loop' = loop /\ todo' = todo /\ iter' = iter /\ my_block' = my_block
      BY <2>1 DEF vars, appVars, testVars
    <3>2. Iterating'
      BY <3>1 DEF TestInv, Iterating
    <3>3. StillUsed' = StillUsed
      BY <3>1 DEF StillUsed
    <3>4. Stored'
      BY <3>1, <3>3 DEF TestInv, Stored, NoIteration
    <3>5. NoneLost'
      BY <3>1 DEF TestInv, NoneLost, Claim
    <3> QED BY <3>2, <3>4, <3>5
  <2> QED BY <2>1, <2>2, Stuttering DEF TestInv
<1> QED BY <1>1, <1>2, <1>3 DEF TestNext

(* In every state of the test, each block of the heap that is in use is    *)
(* in one element of my_block, or with the thread that allocates or frees  *)
(* it for its iteration.                                                   *)
THEOREM TestInvariant == TestSpec => []TestInv
<1>1. TestInit => TestInv
  <2> SUFFICES ASSUME TestInit PROVE TestInv
    OBVIOUS
  <2>1. Init /\ MemoryInv
    BY InitMemory DEF TestInit
  <2>2. /\ \A t \in Threads : pc[t] = "idle" /\ loc[t] = NoLocals /\ iter[t] = NoIteration
        /\ held = {} /\ DOMAIN live = {} /\ debug = FALSE
    BY <2>1 DEF Init, TestInit
  <2>3. Iterating
    <3>1. Claim("idle", NoLocals) = {}
      BY DEF Claim, NoLocals
    <3>2. AtWork("malloc", live, "idle", NoLocals, NoIteration)
      BY <3>1 DEF AtWork, Waiting, MallocLabels
    <3> QED BY <2>2, <3>2 DEF Iterating, TestInit
  <2>4. Stored
    BY <2>2 DEF Stored, TestInit, StillUsed
  <2>5. NoneLost
    BY <2>2 DEF NoneLost
  <2> QED BY <2>1, <2>3, <2>4, <2>5 DEF TestInv
<1> QED BY <1>1, NextTest, PTL DEF TestSpec

(* The loops make no call that an application may not make: an iteration   *)
(* of the second one frees a block that is the application's.              *)
THEOREM TestRunsThreads == TestSpec => Spec
<1>1. TestInit => Init
  BY DEF TestInit
<1> QED BY <1>1, NextTest, TestInvariant, PTL DEF TestSpec, Spec

(* allocator_test passes whatever the schedule, for any number of threads  *)
(* and iterations and any sizes: the first loop gets distinct blocks, each *)
(* large enough, and after the second one all memory is free, in one block *)
(* or, if the heap was extended, at most two.                              *)
THEOREM TestAlwaysPasses == TestSpec => []TestPasses
<1>1. TestInv /\ Proved!HeapSafe => TestPasses
  <2> SUFFICES ASSUME TestInv, Proved!HeapSafe PROVE TestPasses
    OBVIOUS
  <2>1. /\ FreeSet \subseteq BlockSet /\ DOMAIN live = BlockSet \ FreeSet
        /\ held \subseteq DOMAIN live /\ BlockSet \subseteq Nat
        /\ HEADER_SIZE \in Nat \ {0}
    BY Addresses, HeaderAssumption DEF TestInv, MemoryInv, Owned, Described, Listed, Tiled
  <2>2. \A b \in BlockSet : /\ Proved!End(b) = b + heap.size[b]
                            /\ heap.size[b] \in Nat
                            /\ heap.size[b] >= HEADER_SIZE
                            /\ Proved!End(b) <= HeapEnd
    BY DEF Proved!HeapSafe, Proved!HeapInv, Proved!TypeOK, Proved!Blocks, Proved!End,
           Proved!Alignment, Proved!Tiling
  <2>3. \A b \in DOMAIN live : heap.size[b] >= HEADER_SIZE + live[b]
    BY <2>1 DEF Proved!HeapSafe, Proved!HeapInv, Proved!BigEnough
  <2>4. BlocksDistinct
    <3> SUFFICES ASSUME loop = "free", NEW i \in todo, my_block[i] # NULL
                 PROVE  /\ my_block[i] \in held
                        /\ heap.size[my_block[i]] >= HEADER_SIZE + Size[i]
                        /\ \A j \in todo \ {i} : my_block[i] # my_block[j]
      BY DEF BlocksDistinct
    <3>1. /\ my_block[i] \in held /\ live[my_block[i]] = Size[i]
          /\ \A j \in todo : my_block[i] = my_block[j] => i = j
      BY DEF TestInv, Stored, StillUsed
    <3> QED BY <2>1, <2>3, <3>1
  <2>5. HeapRestored
    <3> SUFFICES ASSUME loop = "none"
                 PROVE  FreeSet = BlockSet /\ FreeSet \subseteq {0, HEAP_SIZE}
      BY DEF HeapRestored
    <3>1. held = {}
      BY DEF TestInv, Iterating, Stored, StillUsed
    <3>2. \A t \in Threads : Claim(pc[t], loc[t]) = {}
      BY DEF TestInv, Iterating, AtWork, MemoryInv, Works, Claim
    <3>3. FreeSet = BlockSet
      BY <2>1, <3>1, <3>2 DEF TestInv, NoneLost
    <3>4. ASSUME NEW b \in BlockSet, b # 0 PROVE b = HEAP_SIZE
      <4>1. HeapEnd \in Nat /\ b \in Nat /\ b - 1 \in 0 .. HeapEnd - 1
        <5>1. HeapEnd \in Int
          BY HeapAssumption DEF TestInv, MemoryInv, Extent, HeapEnd
        <5> QED BY <2>1, <2>2, <3>4, <5>1
      <4>2. PICK c \in BlockSet : c <= b - 1 /\ b - 1 < Proved!End(c)
        BY <4>1 DEF Proved!HeapSafe, Proved!HeapInv, Proved!Tiling, Proved!Blocks
      <4>3. c < b => Proved!End(c) <= b
        BY <3>4 DEF Proved!HeapSafe, Proved!HeapInv, Proved!NoOverlap, Proved!Blocks
      <4>4. Proved!End(c) = b
        BY <2>1, <2>2, <4>1, <4>2, <4>3
      <4>5. b \in IF HeapEnd > HEAP_SIZE THEN {HEAP_SIZE} ELSE {}
        BY <3>3, <4>4 DEF Proved!HeapSafe, Proved!HeapInv, Proved!Coalesced
      <4> QED BY <4>5
    <3> QED BY <3>3, <3>4
  <2> QED BY <2>4, <2>5 DEF TestPasses
<1> QED BY <1>1, TestInvariant, TestRunsThreads, ThreadsHeapSafe, PTL
=============================================================================
