-------------------------- MODULE LabPrograms_proofs --------------------------
(***************************************************************************)
(* Safety of the programs that work on memory only, each on its own: the   *)
(* round-robin scheduler for any set of tasks; the bounded buffer, its     *)
(* semaphores, mutex, index and items, for any finite number of producers  *)
(* and consumers, any items and any size of the buffer; parseInt for any   *)
(* string; and the paging experiment for any traces, sizes and policies.   *)
(***************************************************************************)
EXTENDS SmallPrograms, FiniteSetTheorems, WellFoundedInduction, TLAPS

USE RRTaskAssumption

RRTypes == /\ listHead \in Seq(RRTasks)
           /\ rrState \in [RRTasks -> {"NEW", "READY"}]
           /\ onCPU \in RRTasks \cup {NoRRTask}
           /\ passed \in [RRTasks -> SUBSET RRTasks]

(* No task on the list has run since one behind it was put there.          *)
NoneAheadPassed ==
    \A i, j \in DOMAIN listHead : i < j => listHead[i] \notin passed[listHead[j]]

RRInv == RRTypes /\ OnListOnce /\ NoneAheadPassed

(* onTaskReady for any task, whatever becomes of the processor.            *)
LEMMA ReadyPreserves ==
  ASSUME RRInv, NEW t \in RRTasks, onTaskReady(t)
  PROVE  /\ listHead' \in Seq(RRTasks)
         /\ rrState' \in [RRTasks -> {"NEW", "READY"}]
         /\ passed' \in [RRTasks -> SUBSET RRTasks]
         /\ OnListOnce'
         /\ NoneAheadPassed'
<1> USE DEF RRInv, RRTypes, OnListOnce, NoneAheadPassed, IsInjective
<1>1. /\ rrState' \in [RRTasks -> {"NEW", "READY"}] /\ rrState'[t] = "READY"
      /\ \A u \in RRTasks : rrState[u] = "READY" => rrState'[u] = "READY"
  BY DEF onTaskReady
<1>2. \A i \in DOMAIN listHead : listHead[i] \in RRTasks
  OBVIOUS
<1>3. CASE UNCHANGED <<listHead, passed>>
  BY <1>1, <1>2, <1>3
<1>4. CASE /\ ~containsItem(t)
           /\ appendItem(t)
           /\ passed' = [passed EXCEPT ![t] = {}]
  <2>1. /\ listHead' \in Seq(RRTasks)
        /\ DOMAIN listHead' = 1 .. Len(listHead) + 1
        /\ DOMAIN listHead = 1 .. Len(listHead)
        /\ Len(listHead) \in Nat
        /\ \A i \in DOMAIN listHead : listHead'[i] = listHead[i]
        /\ listHead'[Len(listHead) + 1] = t
    BY <1>4 DEF appendItem
  <2>2. \A i \in DOMAIN listHead : listHead[i] # t
    BY <1>4 DEF containsItem
  <2>3. \A i \in DOMAIN listHead' : \/ i \in DOMAIN listHead
                                   \/ i = Len(listHead) + 1
    BY <2>1
  <2>4. OnListOnce'
    BY <1>1, <1>2, <2>1, <2>2, <2>3
  <2>5. /\ passed'[t] = {}
        /\ \A u \in RRTasks : u # t => passed'[u] = passed[u]
    BY <1>4
  <2>6. NoneAheadPassed'
    <3> SUFFICES ASSUME NEW i \in DOMAIN listHead', NEW j \in DOMAIN listHead', i < j
                 PROVE  listHead'[i] \notin passed'[listHead'[j]]
      OBVIOUS
    <3>1. CASE j = Len(listHead) + 1
      BY <3>1, <2>1, <2>5
    <3>2. CASE j \in DOMAIN listHead
      <4>1. i \in DOMAIN listHead
        BY <3>2, <2>1
      <4> QED BY <3>2, <4>1, <1>2, <2>1, <2>2, <2>5
    <3> QED BY <3>1, <3>2, <2>3
  <2> QED BY <1>1, <1>4, <2>1, <2>4, <2>6
<1> QED BY <1>3, <1>4 DEF onTaskReady

(* scheduleNextTask takes the first task.                                  *)
LEMMA SchedulePreserves ==
  ASSUME RRInv, RRSchedule
  PROVE  /\ RRInv'
         /\ \A t \in RRTasks : onCPU' # NoRRTask /\ t \in Range(listHead')
                                  => onCPU' \notin passed[t]
<1> USE DEF RRInv, RRTypes, OnListOnce, NoneAheadPassed, IsInjective
<1>1. CASE isEmpty
  <2>1. onCPU' = NoRRTask /\ UNCHANGED <<listHead, passed, rrState>>
    BY <1>1 DEF RRSchedule, scheduleNextTask
  <2> QED BY <2>1
<1>2. CASE ~isEmpty
  <2> DEFINE h == Head(listHead)
  <2>1. /\ listHead # << >>
        /\ onCPU' = h /\ rrState' = rrState /\ listHead' = Tail(listHead)
        /\ passed' = [u \in RRTasks |-> IF u \in Range(Tail(listHead))
                                          THEN passed[u] \cup {h} ELSE {}]
    BY <1>2 DEF isEmpty, RRSchedule, scheduleNextTask, removeFirstItem
  <2>2. /\ h = listHead[1] /\ h \in RRTasks /\ 1 \in DOMAIN listHead
        /\ listHead' \in Seq(RRTasks)
        /\ \A i \in DOMAIN listHead' : /\ i \in Nat /\ i >= 1
                                      /\ i + 1 \in DOMAIN listHead
                                      /\ listHead'[i] = listHead[i + 1]
    BY <2>1
  <2>3. \A i \in DOMAIN listHead' : listHead'[i] # h
    BY <2>2
  <2>4. OnListOnce'
    BY <2>1, <2>2
  <2>5. \A i \in DOMAIN listHead' : /\ listHead'[i] \in RRTasks
                                   /\ listHead'[i] \in Range(Tail(listHead))
    BY <2>1, <2>2 DEF Range
  <2>6. \A i \in DOMAIN listHead' :
           passed'[listHead'[i]] = passed[listHead'[i]] \cup {h}
    BY <2>1, <2>5
  <2>7. NoneAheadPassed'
    BY <2>2, <2>3, <2>6
  <2>8. passed' \in [RRTasks -> SUBSET RRTasks]
    BY <2>1, <2>2
  <2>9. \A t \in RRTasks : t \in Range(listHead') => h \notin passed[t]
    BY <2>2 DEF Range
  <2> QED BY <2>1, <2>2, <2>4, <2>7, <2>8, <2>9
<1> QED BY <1>1, <1>2

LEMMA NextRoundRobin == RRInv /\ [RRNext]_rrVars => RRInv'
<1> SUFFICES ASSUME RRInv, [RRNext]_rrVars PROVE RRInv'
  OBVIOUS
<1>1. ASSUME NEW t \in RRTasks, RRWakeUp(t) PROVE RRInv'
  BY <1>1, ReadyPreserves DEF RRWakeUp, RRInv, RRTypes
<1>2. CASE RRSchedule
  BY <1>2, SchedulePreserves
<1>3. CASE RRPreempt
  <2>1. onCPU \in RRTasks /\ onTaskReady(onCPU) /\ onCPU' = NoRRTask
    BY <1>3 DEF RRPreempt, RRInv, RRTypes
  <2> QED BY <2>1, ReadyPreserves DEF RRInv, RRTypes
<1>4. CASE RRBlock
  BY <1>4 DEF RRBlock, RRInv, RRTypes, OnListOnce, NoneAheadPassed
<1>5. CASE UNCHANGED rrVars
  BY <1>5 DEF rrVars, RRInv, RRTypes, OnListOnce, NoneAheadPassed
<1> QED BY <1>1, <1>2, <1>3, <1>4, <1>5 DEF RRNext

LEMMA RoundRobinSafety == RRSpec => []RRInv
<1>1. RRInit => RRInv
  BY DEF RRInit, RRInv, RRTypes, OnListOnce, NoneAheadPassed, IsInjective
<1> QED BY <1>1, NextRoundRobin, PTL DEF RRSpec

(* A task has one place on the list at most, and is ready there.           *)
THEOREM ListedOnlyOnce == RRSpec => []OnListOnce
<1>1. RRInv => OnListOnce
  BY DEF RRInv
<1> QED BY <1>1, RoundRobinSafety, PTL

(* Nobody gets a second turn before a task that waits on the list.         *)
THEOREM ServedInTurn == RRSpec => InTurn
<1> DEFINE Turn == \A t \in RRTasks :
                      onCPU' \notin {onCPU, NoRRTask} /\ t \in Range(listHead')
                         => onCPU' \notin passed[t]
<1>1. RRInv /\ [RRNext]_rrVars => [Turn]_rrVars
  <2> SUFFICES ASSUME RRInv, RRNext, onCPU' \notin {onCPU, NoRRTask} PROVE Turn
    OBVIOUS
  <2>1. RRSchedule
    BY DEF RRNext, RRWakeUp, RRPreempt, RRBlock
  <2> QED BY <2>1, SchedulePreserves
<1> QED BY <1>1, RoundRobinSafety, PTL DEF RRSpec, InTurn
-----------------------------------------------------------------------------

USE BufferAssumption

(* The types, where each kind of thread can be, and what holds before init *)
(* is called.                                                              *)
BufferTypes ==
    /\ started \in BOOLEAN /\ mutexed \in BOOLEAN
    /\ empty \in Nat /\ full \in Nat
    /\ mutex \in Threads \cup {Unowned}
    /\ buffer \in [0 .. BUFFER_SIZE - 1 -> Items \cup {NoItem}]
    /\ buffer_index \in Int
    /\ thread \in [Threads -> [pc : BufferLabels, item : Items \cup {NoItem},
                               index : Int]]
    /\ \A p \in Producers : thread[p].pc # "take"
    /\ \A c \in Consumers : thread[c].pc # "load"
    /\ ~started => /\ empty = 0 /\ full = 0 /\ buffer_index = 0
                   /\ mutex = Unowned /\ ~mutexed
                   /\ \A t \in Threads : thread[t].pc = "idle"

(* The labels of the critical section, which only the owner of the mutex   *)
(* reaches.                                                                *)
Section == {"enter", "load", "store", "take", "unlock"}

MutexHeld ==
    \A t \in Threads :
        /\ mutexed => (thread[t].pc \in Section <=> mutex = t)
        /\ ~mutexed => thread[t].pc \notin {"lock", "unlock"}

(* The copy of the index that a thread is about to store back is right.    *)
Exclusive  == mutexed \/ BUFFER_SIZE = 1
IndexFresh == Exclusive =>
                \A t \in Threads : thread[t].pc = "store" =>
                                      thread[t].index = buffer_index

BufferInv == /\ BufferTypes
             /\ MutexHeld
             /\ SlotsAccounted
             /\ IndexFresh
             /\ IndexCounts

-----------------------------------------------------------------------------
MutexUse   == Cardinality(AtOneOf(Threads, Holding))
Put    == Cardinality(AtOneOf(Producers, {"unlock", "post"}))
Taking == Cardinality(AtOneOf(Consumers, {"lock", "enter", "store"}))
One(P) == IF P THEN 1 ELSE 0

(* The number of the threads of a set that are at some of the labels, when *)
(* a single thread moves.                                                  *)
LEMMA CountMoves ==
  ASSUME NEW S \in SUBSET Threads, NEW L, NEW t \in Threads,
         \A u \in Threads \ {t} : thread'[u].pc = thread[u].pc
  PROVE  /\ Cardinality(AtOneOf(S, L)) \in Nat
         /\ Cardinality(AtOneOf(S, L)') =
               Cardinality(AtOneOf(S, L)) + One(t \in S /\ thread'[t].pc \in L)
                                          - One(t \in S /\ thread[t].pc \in L)
<1> DEFINE A == AtOneOf(S, L)
           B == AtOneOf(S, L)'
<1>1. IsFiniteSet(Threads)
  BY FS_Union DEF Threads
<1>2. A \in SUBSET Threads /\ B \in SUBSET Threads
  BY DEF AtOneOf
<1>3. IsFiniteSet(A) /\ Cardinality(A) \in Nat /\ IsFiniteSet(B)
  BY <1>1, <1>2, FS_Subset, FS_CardinalityType
<1>4. /\ t \in A <=> t \in S /\ thread[t].pc \in L
      /\ t \in B <=> t \in S /\ thread'[t].pc \in L
  BY DEF AtOneOf
<1>5. A \ {t} = B \ {t}
  BY DEF AtOneOf
<1>6. CASE t \in A /\ t \notin B
  <2>1. B = A \ {t}
    BY <1>5, <1>6
  <2> QED BY <2>1, <1>3, <1>4, <1>6, FS_RemoveElement DEF One
<1>7. CASE t \notin A /\ t \in B
  <2>1. B = A \cup {t}
    BY <1>5, <1>7
  <2> QED BY <2>1, <1>3, <1>4, <1>7, FS_AddElement DEF One
<1>8. CASE t \in A <=> t \in B
  <2> HIDE DEF A, B
  <2>1. \A u : u \in A <=> u \in B
    <3> SUFFICES ASSUME NEW u PROVE u \in A <=> u \in B
      OBVIOUS
    <3>1. u # t => (u \in A <=> u \in A \ {t}) /\ (u \in B <=> u \in B \ {t})
      OBVIOUS
    <3> QED BY <3>1, <1>5, <1>8
  <2>2. A = B
    BY <2>1
  <2> USE DEF A, B
  <2> QED BY <2>2, <1>3, <1>4, <1>8 DEF One
<1> QED BY <1>6, <1>7, <1>8

(* The three counts of the invariants.                                     *)
LEMMA Counts ==
  ASSUME NEW t \in Threads,
         \A u \in Threads \ {t} : thread'[u].pc = thread[u].pc
  PROVE  /\ MutexUse \in Nat /\ Put \in Nat /\ Taking \in Nat
         /\ MutexUse' = MutexUse + One(thread'[t].pc \in Holding)
                         - One(thread[t].pc \in Holding)
         /\ Put' = Put + One(t \in Producers /\ thread'[t].pc \in {"unlock", "post"})
                       - One(t \in Producers /\ thread[t].pc \in {"unlock", "post"})
         /\ Taking' = Taking
               + One(t \in Consumers /\ thread'[t].pc \in {"lock", "enter", "store"})
               - One(t \in Consumers /\ thread[t].pc \in {"lock", "enter", "store"})
<1>1. Threads \in SUBSET Threads /\ Producers \in SUBSET Threads
      /\ Consumers \in SUBSET Threads
  BY DEF Threads
<1>2. MutexUse \in Nat /\ MutexUse' = MutexUse + One(t \in Threads /\ thread'[t].pc \in Holding)
                                   - One(t \in Threads /\ thread[t].pc \in Holding)
  BY <1>1, CountMoves DEF MutexUse
<1>3. (t \in Threads /\ thread'[t].pc \in Holding) <=> thread'[t].pc \in Holding
  OBVIOUS
<1>4. (t \in Threads /\ thread[t].pc \in Holding) <=> thread[t].pc \in Holding
  OBVIOUS
<1>5. Put \in Nat
      /\ Put' = Put + One(t \in Producers /\ thread'[t].pc \in {"unlock", "post"})
                    - One(t \in Producers /\ thread[t].pc \in {"unlock", "post"})
  BY <1>1, CountMoves DEF Put
<1>6. Taking \in Nat
      /\ Taking' = Taking
            + One(t \in Consumers /\ thread'[t].pc \in {"lock", "enter", "store"})
            - One(t \in Consumers /\ thread[t].pc \in {"lock", "enter", "store"})
  BY <1>1, CountMoves DEF Taking
<1> QED BY <1>2, <1>3, <1>4, <1>5, <1>6 DEF One

-----------------------------------------------------------------------------
LEMMA InitBuffer == BufferInit => BufferInv
<1> SUFFICES ASSUME BufferInit PROVE BufferInv
  OBVIOUS
<1> USE DEF BufferInit
<1>1. BufferTypes
  <2>1. thread \in [Threads -> [pc : BufferLabels, item : Items \cup {NoItem},
                               index : Int]]
    BY DEF BufferLabels
  <2>2. buffer \in [0 .. BUFFER_SIZE - 1 -> Items \cup {NoItem}]
    OBVIOUS
  <2>3. \A t \in Threads : thread[t].pc = "idle"
    OBVIOUS
  <2>4. empty \in Nat /\ full \in Nat /\ buffer_index \in Int
    OBVIOUS
  <2>5. \A p \in Producers : thread[p].pc # "take"
    BY <2>3 DEF Threads
  <2>6. \A c \in Consumers : thread[c].pc # "load"
    BY <2>3 DEF Threads
  <2> QED BY <2>1, <2>2, <2>3, <2>4, <2>5, <2>6, Zenon DEF BufferTypes
<1>2. MutexHeld
  BY DEF MutexHeld
<1>3. SlotsAccounted
  BY DEF SlotsAccounted
<1>4. IndexFresh
  BY DEF IndexFresh
<1>5. IndexCounts
  <2>1. /\ AtOneOf(Producers, {"unlock", "post"}) = {}
        /\ AtOneOf(Consumers, {"lock", "enter", "store"}) = {}
    BY DEF AtOneOf, Threads
  <2>2. Cardinality({}) = 0
    BY FS_EmptySet
  <2>3. /\ Cardinality(AtOneOf(Producers, {"unlock", "post"})) = 0
        /\ Cardinality(AtOneOf(Consumers, {"lock", "enter", "store"})) = 0
    BY <2>1, <2>2
  <2>4. buffer_index = 0 /\ full = 0
    OBVIOUS
  <2> QED BY <2>3, <2>4, SMT DEF IndexCounts
<1> QED BY <1>1, <1>2, <1>3, <1>4, <1>5 DEF BufferInv

(* Two threads that hold a slot are one, if there is one slot.             *)
LEMMA OneHolder ==
  ASSUME BufferTypes, SlotsAccounted, BUFFER_SIZE = 1, started,
         NEW t \in Threads, NEW u \in Threads,
         thread[t].pc \in Holding, thread[u].pc \in Holding
  PROVE  t = u
<1> DEFINE A == AtOneOf(Threads, Holding)
<1>1. IsFiniteSet(Threads)
  BY FS_Union DEF Threads
<1>2. IsFiniteSet(A) /\ Cardinality(A) \in Nat
  BY <1>1, FS_Subset, FS_CardinalityType DEF AtOneOf
<1>3. Cardinality(A) <= 1
  BY <1>2 DEF SlotsAccounted, BufferTypes
<1>4. t \in A /\ u \in A
  BY DEF AtOneOf
<1>5. Cardinality(A) # 0
  BY <1>2, <1>4, FS_EmptySet
<1>6. PICK x : A = {x}
  <2>1. Cardinality(A) = 1
    BY <1>2, <1>3, <1>5
  <2> QED BY <2>1, <1>2, FS_Singleton
<1> QED BY <1>4, <1>6

(* No two threads are in the section where they exclude each other.        *)
LEMMA OneInside ==
  ASSUME BufferInv, Exclusive, NEW t \in Threads, NEW u \in Threads,
         thread[t].pc \in Section, thread[u].pc \in Section
  PROVE  t = u
<1>1. CASE mutexed
  BY <1>1 DEF BufferInv, MutexHeld
<1>2. CASE BUFFER_SIZE = 1
  <2>1. started
    BY DEF BufferInv, BufferTypes, Section
  <2>2. thread[t].pc \in Holding /\ thread[u].pc \in Holding
    BY DEF Section, Holding
  <2> QED BY <2>1, <2>2, <1>2, OneHolder DEF BufferInv
<1> QED BY <1>1, <1>2 DEF Exclusive

-----------------------------------------------------------------------------
(* A thread moves and gets an item, or is left without one.                *)
LEMMA SetItem ==
  ASSUME NEW l \in BufferLabels, NEW i \in Items \cup {NoItem}, NEW t \in Threads,
         NEW f \in [Threads -> [pc : BufferLabels, item : Items \cup {NoItem},
                                index : Int]]
  PROVE  [f EXCEPT ![t].pc = l, ![t].item = i]
            \in [Threads -> [pc : BufferLabels, item : Items \cup {NoItem},
                             index : Int]]
OBVIOUS

(* The types are kept.                                                     *)
LEMMA NextTypes ==
  ASSUME BufferTypes, BufferNext
  PROVE  BufferTypes'
<1> USE DEF BufferTypes, BufferLabels, Threads, AtLabel, GoTo,
            program, semaphores, contents, history
<1>1. CASE StartBuffer
  BY <1>1 DEF StartBuffer
<1>2. ASSUME NEW p \in Producers, CallProduce(p) PROVE BufferTypes'
  <2>1. PICK i \in Items :
          thread' = [thread EXCEPT ![p].pc = "wait", ![p].item = i]
    BY <1>2 DEF CallProduce
  <2>2. thread' \in [Threads -> [pc : BufferLabels, item : Items \cup {NoItem},
                                 index : Int]]
    <3>1. "wait" \in BufferLabels /\ p \in Threads
      OBVIOUS
    <3> HIDE DEF BufferLabels, Threads
    <3> QED BY <2>1, <3>1, SetItem
  <2>3. \A u \in Threads : thread'[u].pc = IF u = p THEN "wait" ELSE thread[u].pc
    BY <2>1
  <2>4. started /\ UNCHANGED <<program, semaphores, mutex, contents>>
    BY <1>2 DEF CallProduce
  <2> QED BY <2>2, <2>3, <2>4
<1>3. ASSUME NEW p \in Producers, WaitEmpty(p) PROVE BufferTypes'
  BY <1>3 DEF WaitEmpty, AfterWait, AfterSection
<1>4. ASSUME NEW t \in Threads, Lock(t) PROVE BufferTypes'
  BY <1>4 DEF Lock, AfterWait, AfterSection
<1>5. ASSUME NEW p \in Producers, PutItem(p) PROVE BufferTypes'
  BY <1>5 DEF PutItem, AfterWait, AfterSection
<1>6. ASSUME NEW t \in Threads, LoadIndex(t) PROVE BufferTypes'
  BY <1>6 DEF LoadIndex, AfterWait, AfterSection
<1>7. ASSUME NEW p \in Producers, StoreProduced(p) PROVE BufferTypes'
  <2>1. /\ thread' = [thread EXCEPT ![p].pc = AfterSection] /\ buffer_index' \in Int
        /\ UNCHANGED <<program, semaphores, mutex, buffer>> /\ thread[p].pc = "store"
    BY <1>7 DEF StoreProduced
  <2>2. AfterSection \in {"unlock", "post"}
    BY DEF AfterSection
  <2>3. thread' \in [Threads -> [pc : BufferLabels, item : Items \cup {NoItem},
                                 index : Int]]
    BY <2>1, <2>2
  <2>4. \A u \in Threads : thread'[u].pc = IF u = p THEN AfterSection ELSE thread[u].pc
    BY <2>1
  <2> QED BY <2>1, <2>2, <2>3, <2>4
<1>8. ASSUME NEW t \in Threads, Unlock(t) PROVE BufferTypes'
  BY <1>8 DEF Unlock, AfterWait, AfterSection
<1>9. ASSUME NEW p \in Producers, PostFull(p) PROVE BufferTypes'
  BY <1>9 DEF PostFull, AfterWait, AfterSection
<1>10. ASSUME NEW c \in Consumers, CallConsume(c) PROVE BufferTypes'
  BY <1>10 DEF CallConsume, AfterWait, AfterSection
<1>11. ASSUME NEW c \in Consumers, WaitFull(c) PROVE BufferTypes'
  BY <1>11 DEF WaitFull, AfterWait, AfterSection
<1>12. ASSUME NEW c \in Consumers, StoreConsumed(c) PROVE BufferTypes'
  <2>1. /\ thread' = [thread EXCEPT ![c].pc = "take"] /\ buffer_index' \in Int
        /\ UNCHANGED <<program, semaphores, mutex, buffer>> /\ thread[c].pc = "store"
    BY <1>12 DEF StoreConsumed
  <2>2. "take" \in {"take"}
    BY DEF AfterSection
  <2>3. thread' \in [Threads -> [pc : BufferLabels, item : Items \cup {NoItem},
                                 index : Int]]
    BY <2>1, <2>2
  <2>4. \A u \in Threads : thread'[u].pc = IF u = c THEN "take" ELSE thread[u].pc
    BY <2>1
  <2> QED BY <2>1, <2>2, <2>3, <2>4
<1>13. ASSUME NEW c \in Consumers, TakeItem(c) PROVE BufferTypes'
  <2>1. buffer[buffer_index] \in Items \cup {NoItem}
    BY <1>13 DEF TakeItem
  <2>2. thread' = [thread EXCEPT ![c].pc = AfterSection,
                                 ![c].item = buffer[buffer_index]]
    BY <1>13 DEF TakeItem
  <2>3. AfterSection \in {"unlock", "post"}
    BY DEF AfterSection
  <2>4. thread' \in [Threads -> [pc : BufferLabels, item : Items \cup {NoItem},
                                 index : Int]]
    <3>1. PICK l \in BufferLabels, i \in Items \cup {NoItem} :
             thread' = [thread EXCEPT ![c].pc = l, ![c].item = i]
      BY <2>1, <2>2, <2>3
    <3>2. [thread EXCEPT ![c].pc = l, ![c].item = i]
             \in [Threads -> [pc : BufferLabels, item : Items \cup {NoItem},
                              index : Int]]
      <4>1. c \in Threads
        OBVIOUS
      <4> HIDE DEF BufferLabels, Threads
      <4> QED BY <4>1, SetItem
    <3> QED BY <3>1, <3>2
  <2>5. \A u \in Threads : thread'[u].pc = IF u = c THEN AfterSection ELSE thread[u].pc
    BY <2>2
  <2>6. UNCHANGED <<program, semaphores, mutex, contents>> /\ thread[c].pc = "take"
    BY <1>13 DEF TakeItem
  <2> QED BY <2>3, <2>4, <2>5, <2>6
<1>14. ASSUME NEW c \in Consumers, ReturnItem(c) PROVE BufferTypes'
  <2>1. thread' = [thread EXCEPT ![c].pc = "idle", ![c].item = NoItem]
    BY <1>14 DEF ReturnItem
  <2>2. thread' \in [Threads -> [pc : BufferLabels, item : Items \cup {NoItem},
                                 index : Int]]
    <3>1. "idle" \in BufferLabels /\ c \in Threads
      OBVIOUS
    <3> HIDE DEF BufferLabels, Threads
    <3> QED BY <2>1, <3>1, SetItem
  <2>3. \A u \in Threads : thread'[u].pc = IF u = c THEN "idle" ELSE thread[u].pc
    BY <2>1
  <2>4. /\ UNCHANGED <<program, full, mutex, contents>> /\ thread[c].pc = "post"
        /\ empty' = empty + 1
    BY <1>14 DEF ReturnItem
  <2>5. started /\ started'
    BY <2>4
  <2>6. /\ \A q \in Producers : thread'[q].pc # "take"
        /\ \A q \in Consumers : thread'[q].pc # "load"
    BY <2>3
  <2>7. empty' \in Nat /\ UNCHANGED <<program, full, mutex, contents>>
    BY <2>4
  <2> QED BY <2>2, <2>5, <2>6, <2>7
<1> QED
  BY <1>1, <1>2, <1>3, <1>4, <1>5, <1>6, <1>7, <1>8, <1>9, <1>10, <1>11, <1>12, <1>13, <1>14
  DEF BufferNext, ProducerStep, ConsumerStep, Threads

(* Which thread owns the mutex.                                            *)
LEMMA NextMutex ==
  ASSUME BufferInv, BufferNext
  PROVE  MutexHeld'
<1> USE DEF BufferInv, BufferTypes, MutexHeld, Section, Threads, AtLabel, GoTo,
            program, semaphores, contents, history
<1>1. CASE StartBuffer
  BY <1>1 DEF StartBuffer
<1>2. ASSUME NEW p \in Producers, CallProduce(p) PROVE MutexHeld'
  BY <1>2 DEF CallProduce, AfterWait, AfterSection
<1>3. ASSUME NEW p \in Producers, WaitEmpty(p) PROVE MutexHeld'
  BY <1>3 DEF WaitEmpty, AfterWait, AfterSection
<1>4. ASSUME NEW t \in Threads, Lock(t) PROVE MutexHeld'
  BY <1>4 DEF Lock, AfterWait, AfterSection
<1>5. ASSUME NEW p \in Producers, PutItem(p) PROVE MutexHeld'
  BY <1>5 DEF PutItem, AfterWait, AfterSection
<1>6. ASSUME NEW t \in Threads, LoadIndex(t) PROVE MutexHeld'
  BY <1>6 DEF LoadIndex, AfterWait, AfterSection
<1>7. ASSUME NEW p \in Producers, StoreProduced(p) PROVE MutexHeld'
  BY <1>7 DEF StoreProduced, AfterWait, AfterSection
<1>8. ASSUME NEW t \in Threads, Unlock(t) PROVE MutexHeld'
  BY <1>8 DEF Unlock, AfterWait, AfterSection
<1>9. ASSUME NEW p \in Producers, PostFull(p) PROVE MutexHeld'
  BY <1>9 DEF PostFull, AfterWait, AfterSection
<1>10. ASSUME NEW c \in Consumers, CallConsume(c) PROVE MutexHeld'
  BY <1>10 DEF CallConsume, AfterWait, AfterSection
<1>11. ASSUME NEW c \in Consumers, WaitFull(c) PROVE MutexHeld'
  BY <1>11 DEF WaitFull, AfterWait, AfterSection
<1>12. ASSUME NEW c \in Consumers, StoreConsumed(c) PROVE MutexHeld'
  BY <1>12 DEF StoreConsumed, AfterWait, AfterSection
<1>13. ASSUME NEW c \in Consumers, TakeItem(c) PROVE MutexHeld'
  BY <1>13 DEF TakeItem, AfterWait, AfterSection
<1>14. ASSUME NEW c \in Consumers, ReturnItem(c) PROVE MutexHeld'
  BY <1>14 DEF ReturnItem, AfterWait, AfterSection
<1> QED
  BY <1>1, <1>2, <1>3, <1>4, <1>5, <1>6, <1>7, <1>8, <1>9, <1>10, <1>11, <1>12, <1>13, <1>14
  DEF BufferNext, ProducerStep, ConsumerStep, Threads

(* Every slot stays accounted for.                                         *)
LEMMA NextSlots ==
  ASSUME BufferInv, BufferNext
  PROVE  SlotsAccounted'
<1> USE DEF BufferInv, BufferTypes, SlotsAccounted, MutexUse, Holding, One, Threads, AtLabel, GoTo,
            program, semaphores, contents, history
<1>1. CASE StartBuffer
  <2>1. AtOneOf(Threads, Holding)' = {}
    BY <1>1 DEF StartBuffer, AtOneOf
  <2>2. Cardinality({}) = 0
    BY FS_EmptySet
  <2>3. Cardinality(AtOneOf(Threads, Holding)') = 0
    BY <2>1, <2>2
  <2> QED BY <2>3, <1>1 DEF StartBuffer
<1>2. ASSUME NEW p \in Producers, CallProduce(p) PROVE SlotsAccounted'
  <2>1. MutexUse' = MutexUse + One(thread'[p].pc \in Holding) - One(thread[p].pc \in Holding)
        /\ MutexUse \in Nat
    <3>1. \A u \in Threads \ {p} : thread'[u].pc = thread[u].pc
      BY <1>2 DEF CallProduce
    <3> QED BY <3>1, Counts
  <2> QED BY <1>2, <2>1 DEF CallProduce, AfterWait, AfterSection
<1>3. ASSUME NEW p \in Producers, WaitEmpty(p) PROVE SlotsAccounted'
  <2>1. MutexUse' = MutexUse + One(thread'[p].pc \in Holding) - One(thread[p].pc \in Holding)
        /\ MutexUse \in Nat
    BY <1>3, Counts DEF WaitEmpty
  <2> QED BY <1>3, <2>1 DEF WaitEmpty, AfterWait, AfterSection
<1>4. ASSUME NEW t \in Threads, Lock(t) PROVE SlotsAccounted'
  <2>1. MutexUse' = MutexUse + One(thread'[t].pc \in Holding) - One(thread[t].pc \in Holding)
        /\ MutexUse \in Nat
    BY <1>4, Counts DEF Lock
  <2> QED BY <1>4, <2>1 DEF Lock, AfterWait, AfterSection
<1>5. ASSUME NEW p \in Producers, PutItem(p) PROVE SlotsAccounted'
  <2>1. MutexUse' = MutexUse + One(thread'[p].pc \in Holding) - One(thread[p].pc \in Holding)
        /\ MutexUse \in Nat
    BY <1>5, Counts DEF PutItem
  <2> QED BY <1>5, <2>1 DEF PutItem, AfterWait, AfterSection
<1>6. ASSUME NEW t \in Threads, LoadIndex(t) PROVE SlotsAccounted'
  <2>1. MutexUse' = MutexUse + One(thread'[t].pc \in Holding) - One(thread[t].pc \in Holding)
        /\ MutexUse \in Nat
    BY <1>6, Counts DEF LoadIndex
  <2> QED BY <1>6, <2>1 DEF LoadIndex, AfterWait, AfterSection
<1>7. ASSUME NEW p \in Producers, StoreProduced(p) PROVE SlotsAccounted'
  <2>1. MutexUse' = MutexUse + One(thread'[p].pc \in Holding) - One(thread[p].pc \in Holding)
        /\ MutexUse \in Nat
    BY <1>7, Counts DEF StoreProduced
  <2> QED BY <1>7, <2>1 DEF StoreProduced, AfterWait, AfterSection
<1>8. ASSUME NEW t \in Threads, Unlock(t) PROVE SlotsAccounted'
  <2>1. MutexUse' = MutexUse + One(thread'[t].pc \in Holding) - One(thread[t].pc \in Holding)
        /\ MutexUse \in Nat
    BY <1>8, Counts DEF Unlock
  <2> QED BY <1>8, <2>1 DEF Unlock, AfterWait, AfterSection
<1>9. ASSUME NEW p \in Producers, PostFull(p) PROVE SlotsAccounted'
  <2>1. MutexUse' = MutexUse + One(thread'[p].pc \in Holding) - One(thread[p].pc \in Holding)
        /\ MutexUse \in Nat
    BY <1>9, Counts DEF PostFull
  <2> QED BY <1>9, <2>1 DEF PostFull, AfterWait, AfterSection
<1>10. ASSUME NEW c \in Consumers, CallConsume(c) PROVE SlotsAccounted'
  <2>1. MutexUse' = MutexUse + One(thread'[c].pc \in Holding) - One(thread[c].pc \in Holding)
        /\ MutexUse \in Nat
    BY <1>10, Counts DEF CallConsume
  <2> QED BY <1>10, <2>1 DEF CallConsume, AfterWait, AfterSection
<1>11. ASSUME NEW c \in Consumers, WaitFull(c) PROVE SlotsAccounted'
  <2>1. MutexUse' = MutexUse + One(thread'[c].pc \in Holding) - One(thread[c].pc \in Holding)
        /\ MutexUse \in Nat
    BY <1>11, Counts DEF WaitFull
  <2> QED BY <1>11, <2>1 DEF WaitFull, AfterWait, AfterSection
<1>12. ASSUME NEW c \in Consumers, StoreConsumed(c) PROVE SlotsAccounted'
  <2>1. MutexUse' = MutexUse + One(thread'[c].pc \in Holding) - One(thread[c].pc \in Holding)
        /\ MutexUse \in Nat
    BY <1>12, Counts DEF StoreConsumed
  <2> QED BY <1>12, <2>1 DEF StoreConsumed, AfterWait, AfterSection
<1>13. ASSUME NEW c \in Consumers, TakeItem(c) PROVE SlotsAccounted'
  <2>1. MutexUse' = MutexUse + One(thread'[c].pc \in Holding) - One(thread[c].pc \in Holding)
        /\ MutexUse \in Nat
    BY <1>13, Counts DEF TakeItem
  <2> QED BY <1>13, <2>1 DEF TakeItem, AfterWait, AfterSection
<1>14. ASSUME NEW c \in Consumers, ReturnItem(c) PROVE SlotsAccounted'
  <2>1. MutexUse' = MutexUse + One(thread'[c].pc \in Holding) - One(thread[c].pc \in Holding)
        /\ MutexUse \in Nat
    BY <1>14, Counts DEF ReturnItem
  <2> QED BY <1>14, <2>1 DEF ReturnItem, AfterWait, AfterSection
<1> QED
  BY <1>1, <1>2, <1>3, <1>4, <1>5, <1>6, <1>7, <1>8, <1>9, <1>10, <1>11, <1>12, <1>13, <1>14
  DEF BufferNext, ProducerStep, ConsumerStep, Threads

(* A thread about to store the index has read it since the last store.     *)
LEMMA NextFresh ==
  ASSUME BufferInv, BufferNext
  PROVE  IndexFresh'
<1>a. \A t, u \in Threads : Exclusive /\ thread[t].pc = "store" /\ thread[u].pc = "store"
                              => t = u
  BY OneInside DEF Section
<1> USE DEF BufferInv, BufferTypes, IndexFresh, Exclusive, Threads, AtLabel, GoTo,
            program, semaphores, contents, history
<1>1. CASE StartBuffer
  BY <1>1 DEF StartBuffer
<1>2. ASSUME NEW p \in Producers, CallProduce(p) PROVE IndexFresh'
  BY <1>2 DEF CallProduce, AfterWait, AfterSection
<1>3. ASSUME NEW p \in Producers, WaitEmpty(p) PROVE IndexFresh'
  BY <1>3 DEF WaitEmpty, AfterWait, AfterSection
<1>4. ASSUME NEW t \in Threads, Lock(t) PROVE IndexFresh'
  BY <1>4 DEF Lock, AfterWait, AfterSection
<1>5. ASSUME NEW p \in Producers, PutItem(p) PROVE IndexFresh'
  BY <1>5 DEF PutItem, AfterWait, AfterSection
<1>6. ASSUME NEW t \in Threads, LoadIndex(t) PROVE IndexFresh'
  BY <1>6 DEF LoadIndex, AfterWait, AfterSection
<1>7. ASSUME NEW p \in Producers, StoreProduced(p) PROVE IndexFresh'
  BY <1>a, <1>7 DEF StoreProduced, AfterWait, AfterSection
<1>8. ASSUME NEW t \in Threads, Unlock(t) PROVE IndexFresh'
  BY <1>8 DEF Unlock, AfterWait, AfterSection
<1>9. ASSUME NEW p \in Producers, PostFull(p) PROVE IndexFresh'
  BY <1>9 DEF PostFull, AfterWait, AfterSection
<1>10. ASSUME NEW c \in Consumers, CallConsume(c) PROVE IndexFresh'
  BY <1>10 DEF CallConsume, AfterWait, AfterSection
<1>11. ASSUME NEW c \in Consumers, WaitFull(c) PROVE IndexFresh'
  BY <1>11 DEF WaitFull, AfterWait, AfterSection
<1>12. ASSUME NEW c \in Consumers, StoreConsumed(c) PROVE IndexFresh'
  BY <1>a, <1>12 DEF StoreConsumed, AfterWait, AfterSection
<1>13. ASSUME NEW c \in Consumers, TakeItem(c) PROVE IndexFresh'
  BY <1>13 DEF TakeItem, AfterWait, AfterSection
<1>14. ASSUME NEW c \in Consumers, ReturnItem(c) PROVE IndexFresh'
  BY <1>14 DEF ReturnItem, AfterWait, AfterSection
<1> QED
  BY <1>1, <1>2, <1>3, <1>4, <1>5, <1>6, <1>7, <1>8, <1>9, <1>10, <1>11, <1>12, <1>13, <1>14
  DEF BufferNext, ProducerStep, ConsumerStep, Threads

(* The index goes on counting the items.                                   *)
LEMMA NextIndex ==
  ASSUME BufferInv, BufferNext
  PROVE  IndexCounts'
<1> USE DEF BufferInv, BufferTypes, IndexFresh, IndexCounts, Exclusive, Put, Taking, One,
            Threads, AtLabel, GoTo, program, semaphores, contents, history
<1>1. CASE StartBuffer
  <2>1. /\ AtOneOf(Producers, {"unlock", "post"})' = {}
        /\ AtOneOf(Consumers, {"lock", "enter", "store"})' = {}
    BY <1>1 DEF StartBuffer, AtOneOf
  <2>2. Cardinality({}) = 0
    BY FS_EmptySet
  <2>3. /\ Cardinality(AtOneOf(Producers, {"unlock", "post"})') = 0
        /\ Cardinality(AtOneOf(Consumers, {"lock", "enter", "store"})') = 0
    BY <2>1, <2>2
  <2> QED BY <2>3, <1>1 DEF StartBuffer
<1>2. ASSUME NEW p \in Producers, CallProduce(p) PROVE IndexCounts'
  <2>1. /\ Put \in Nat /\ Taking \in Nat
        /\ Put' = Put + One(p \in Producers /\ thread'[p].pc \in {"unlock", "post"})
                      - One(p \in Producers /\ thread[p].pc \in {"unlock", "post"})
        /\ Taking' = Taking
              + One(p \in Consumers /\ thread'[p].pc \in {"lock", "enter", "store"})
              - One(p \in Consumers /\ thread[p].pc \in {"lock", "enter", "store"})
    BY <1>2, Counts DEF CallProduce
  <2> QED BY <1>2, <2>1 DEF CallProduce, AfterWait, AfterSection
<1>3. ASSUME NEW p \in Producers, WaitEmpty(p) PROVE IndexCounts'
  <2>1. /\ Put \in Nat /\ Taking \in Nat
        /\ Put' = Put + One(p \in Producers /\ thread'[p].pc \in {"unlock", "post"})
                      - One(p \in Producers /\ thread[p].pc \in {"unlock", "post"})
        /\ Taking' = Taking
              + One(p \in Consumers /\ thread'[p].pc \in {"lock", "enter", "store"})
              - One(p \in Consumers /\ thread[p].pc \in {"lock", "enter", "store"})
    BY <1>3, Counts DEF WaitEmpty
  <2> QED BY <1>3, <2>1 DEF WaitEmpty, AfterWait, AfterSection
<1>4. ASSUME NEW t \in Threads, Lock(t) PROVE IndexCounts'
  <2>1. /\ Put \in Nat /\ Taking \in Nat
        /\ Put' = Put + One(t \in Producers /\ thread'[t].pc \in {"unlock", "post"})
                      - One(t \in Producers /\ thread[t].pc \in {"unlock", "post"})
        /\ Taking' = Taking
              + One(t \in Consumers /\ thread'[t].pc \in {"lock", "enter", "store"})
              - One(t \in Consumers /\ thread[t].pc \in {"lock", "enter", "store"})
    BY <1>4, Counts DEF Lock
  <2> QED BY <1>4, <2>1 DEF Lock, AfterWait, AfterSection
<1>5. ASSUME NEW p \in Producers, PutItem(p) PROVE IndexCounts'
  <2>1. /\ Put \in Nat /\ Taking \in Nat
        /\ Put' = Put + One(p \in Producers /\ thread'[p].pc \in {"unlock", "post"})
                      - One(p \in Producers /\ thread[p].pc \in {"unlock", "post"})
        /\ Taking' = Taking
              + One(p \in Consumers /\ thread'[p].pc \in {"lock", "enter", "store"})
              - One(p \in Consumers /\ thread[p].pc \in {"lock", "enter", "store"})
    BY <1>5, Counts DEF PutItem
  <2> QED BY <1>5, <2>1 DEF PutItem, AfterWait, AfterSection
<1>6. ASSUME NEW t \in Threads, LoadIndex(t) PROVE IndexCounts'
  <2>1. /\ Put \in Nat /\ Taking \in Nat
        /\ Put' = Put + One(t \in Producers /\ thread'[t].pc \in {"unlock", "post"})
                      - One(t \in Producers /\ thread[t].pc \in {"unlock", "post"})
        /\ Taking' = Taking
              + One(t \in Consumers /\ thread'[t].pc \in {"lock", "enter", "store"})
              - One(t \in Consumers /\ thread[t].pc \in {"lock", "enter", "store"})
    BY <1>6, Counts DEF LoadIndex
  <2> QED BY <1>6, <2>1 DEF LoadIndex, AfterWait, AfterSection
<1>7. ASSUME NEW p \in Producers, StoreProduced(p) PROVE IndexCounts'
  <2>1. /\ Put \in Nat /\ Taking \in Nat
        /\ Put' = Put + One(p \in Producers /\ thread'[p].pc \in {"unlock", "post"})
                      - One(p \in Producers /\ thread[p].pc \in {"unlock", "post"})
        /\ Taking' = Taking
              + One(p \in Consumers /\ thread'[p].pc \in {"lock", "enter", "store"})
              - One(p \in Consumers /\ thread[p].pc \in {"lock", "enter", "store"})
    BY <1>7, Counts DEF StoreProduced
  <2> QED BY <1>7, <2>1 DEF StoreProduced, AfterWait, AfterSection
<1>8. ASSUME NEW t \in Threads, Unlock(t) PROVE IndexCounts'
  <2>1. /\ Put \in Nat /\ Taking \in Nat
        /\ Put' = Put + One(t \in Producers /\ thread'[t].pc \in {"unlock", "post"})
                      - One(t \in Producers /\ thread[t].pc \in {"unlock", "post"})
        /\ Taking' = Taking
              + One(t \in Consumers /\ thread'[t].pc \in {"lock", "enter", "store"})
              - One(t \in Consumers /\ thread[t].pc \in {"lock", "enter", "store"})
    BY <1>8, Counts DEF Unlock
  <2> QED BY <1>8, <2>1 DEF Unlock, AfterWait, AfterSection
<1>9. ASSUME NEW p \in Producers, PostFull(p) PROVE IndexCounts'
  <2>1. /\ Put \in Nat /\ Taking \in Nat
        /\ Put' = Put + One(p \in Producers /\ thread'[p].pc \in {"unlock", "post"})
                      - One(p \in Producers /\ thread[p].pc \in {"unlock", "post"})
        /\ Taking' = Taking
              + One(p \in Consumers /\ thread'[p].pc \in {"lock", "enter", "store"})
              - One(p \in Consumers /\ thread[p].pc \in {"lock", "enter", "store"})
    BY <1>9, Counts DEF PostFull
  <2> QED BY <1>9, <2>1 DEF PostFull, AfterWait, AfterSection
<1>10. ASSUME NEW c \in Consumers, CallConsume(c) PROVE IndexCounts'
  <2>1. /\ Put \in Nat /\ Taking \in Nat
        /\ Put' = Put + One(c \in Producers /\ thread'[c].pc \in {"unlock", "post"})
                      - One(c \in Producers /\ thread[c].pc \in {"unlock", "post"})
        /\ Taking' = Taking
              + One(c \in Consumers /\ thread'[c].pc \in {"lock", "enter", "store"})
              - One(c \in Consumers /\ thread[c].pc \in {"lock", "enter", "store"})
    BY <1>10, Counts DEF CallConsume
  <2> QED BY <1>10, <2>1 DEF CallConsume, AfterWait, AfterSection
<1>11. ASSUME NEW c \in Consumers, WaitFull(c) PROVE IndexCounts'
  <2>1. /\ Put \in Nat /\ Taking \in Nat
        /\ Put' = Put + One(c \in Producers /\ thread'[c].pc \in {"unlock", "post"})
                      - One(c \in Producers /\ thread[c].pc \in {"unlock", "post"})
        /\ Taking' = Taking
              + One(c \in Consumers /\ thread'[c].pc \in {"lock", "enter", "store"})
              - One(c \in Consumers /\ thread[c].pc \in {"lock", "enter", "store"})
    BY <1>11, Counts DEF WaitFull
  <2> QED BY <1>11, <2>1 DEF WaitFull, AfterWait, AfterSection
<1>12. ASSUME NEW c \in Consumers, StoreConsumed(c) PROVE IndexCounts'
  <2>1. /\ Put \in Nat /\ Taking \in Nat
        /\ Put' = Put + One(c \in Producers /\ thread'[c].pc \in {"unlock", "post"})
                      - One(c \in Producers /\ thread[c].pc \in {"unlock", "post"})
        /\ Taking' = Taking
              + One(c \in Consumers /\ thread'[c].pc \in {"lock", "enter", "store"})
              - One(c \in Consumers /\ thread[c].pc \in {"lock", "enter", "store"})
    BY <1>12, Counts DEF StoreConsumed
  <2> QED BY <1>12, <2>1 DEF StoreConsumed, AfterWait, AfterSection
<1>13. ASSUME NEW c \in Consumers, TakeItem(c) PROVE IndexCounts'
  <2>1. /\ Put \in Nat /\ Taking \in Nat
        /\ Put' = Put + One(c \in Producers /\ thread'[c].pc \in {"unlock", "post"})
                      - One(c \in Producers /\ thread[c].pc \in {"unlock", "post"})
        /\ Taking' = Taking
              + One(c \in Consumers /\ thread'[c].pc \in {"lock", "enter", "store"})
              - One(c \in Consumers /\ thread[c].pc \in {"lock", "enter", "store"})
    BY <1>13, Counts DEF TakeItem
  <2> QED BY <1>13, <2>1 DEF TakeItem, AfterWait, AfterSection
<1>14. ASSUME NEW c \in Consumers, ReturnItem(c) PROVE IndexCounts'
  <2>1. /\ Put \in Nat /\ Taking \in Nat
        /\ Put' = Put + One(c \in Producers /\ thread'[c].pc \in {"unlock", "post"})
                      - One(c \in Producers /\ thread[c].pc \in {"unlock", "post"})
        /\ Taking' = Taking
              + One(c \in Consumers /\ thread'[c].pc \in {"lock", "enter", "store"})
              - One(c \in Consumers /\ thread[c].pc \in {"lock", "enter", "store"})
    BY <1>14, Counts DEF ReturnItem
  <2> QED BY <1>14, <2>1 DEF ReturnItem, AfterWait, AfterSection
<1> QED
  BY <1>1, <1>2, <1>3, <1>4, <1>5, <1>6, <1>7, <1>8, <1>9, <1>10, <1>11, <1>12, <1>13, <1>14
  DEF BufferNext, ProducerStep, ConsumerStep, Threads

-----------------------------------------------------------------------------
LEMMA NextBuffer == BufferInv /\ [BufferNext]_bufferVars => BufferInv'
<1> SUFFICES ASSUME BufferInv, [BufferNext]_bufferVars PROVE BufferInv'
  OBVIOUS
<1>1. CASE BufferNext
  <2>1. BufferTypes'
    BY <1>1, NextTypes DEF BufferInv
  <2> QED BY <1>1, <2>1, NextMutex, NextSlots, NextFresh, NextIndex DEF BufferInv
<1>2. CASE UNCHANGED bufferVars
  <2> USE <1>2 DEF BufferInv, bufferVars
  <2>1. BufferTypes'
    BY DEF BufferTypes
  <2>2. MutexHeld'
    BY DEF MutexHeld
  <2>3. SlotsAccounted'
    BY DEF SlotsAccounted, AtOneOf
  <2>4. IndexFresh'
    BY DEF IndexFresh, Exclusive
  <2>5. IndexCounts'
    BY DEF IndexCounts, AtOneOf
  <2> QED BY <2>1, <2>2, <2>3, <2>4, <2>5
<1> QED BY <1>1, <1>2

(* The types, the mutex and the counts of the bounded buffer are right in  *)
(* every state of both programs.                                           *)
THEOREM BufferSafety == BufferSpec => []BufferInv
<1>1. BufferInit => BufferInv
  BY InitBuffer
<1>2. BufferInv /\ [BufferNext]_bufferVars => BufferInv'
  BY NextBuffer
<1> QED BY <1>1, <1>2, PTL DEF BufferSpec

(* The semaphores stay within the size of the buffer, as the types say.    *)
THEOREM SemaphoresBounded == BufferSpec => []BufferTypeOK
<1>1. BufferInv => BufferTypeOK
  <2> SUFFICES ASSUME BufferInv PROVE BufferTypeOK
    OBVIOUS
  <2>1. IsFiniteSet(Threads)
    BY FS_Union DEF Threads
  <2>2. Cardinality(AtOneOf(Threads, Holding)) \in Nat
    BY <2>1, FS_Subset, FS_CardinalityType DEF AtOneOf
  <2>3. empty \in 0 .. BUFFER_SIZE /\ full \in 0 .. BUFFER_SIZE
    <3>1. CASE started
      BY <3>1, <2>2 DEF BufferInv, BufferTypes, SlotsAccounted
    <3>2. CASE ~started
      BY <3>2 DEF BufferInv, BufferTypes
    <3> QED BY <3>1, <3>2
  <2> QED BY <2>3 DEF BufferInv, BufferTypes, BufferTypeOK
<1> QED BY <1>1, BufferSafety, PTL

(* The index is inside of the buffer where a slot is written or read.      *)
IndexInside ==
    Exclusive =>
      /\ \A p \in Producers : thread[p].pc = "enter" => buffer_index \in DOMAIN buffer
      /\ \A c \in Consumers : thread[c].pc = "take" => buffer_index \in DOMAIN buffer

(* Semaphores and index count the items right in every state: no slot is   *)
(* lost or counted twice, and the index is stale only without the mutex.   *)
THEOREM CountsAlwaysRight == BufferSpec => []BufferCounts
<1>1. BufferInv => SlotsAccounted /\ IndexCounts
  BY DEF BufferInv
<1>2. BufferTypeOK /\ SlotsAccounted /\ IndexCounts => BufferCounts
  BY DEF BufferCounts
<1> QED BY <1>1, <1>2, BufferSafety, SemaphoresBounded, PTL

(* With the mutex or a single slot, produce and consume never leave the    *)
(* array.                                                                  *)
THEOREM IndexInRange == BufferSpec => []IndexInside
<1>1. BufferInv => IndexInside
  <2> SUFFICES ASSUME BufferInv, Exclusive, NEW t \in Threads, started,
                      \/ t \in Producers /\ thread[t].pc = "enter"
                      \/ t \in Consumers /\ thread[t].pc = "take"
               PROVE  buffer_index \in DOMAIN buffer
    BY DEF BufferInv, BufferTypes, Threads, IndexInside
  <2> DEFINE P == AtOneOf(Producers, {"unlock", "post"})
             C == AtOneOf(Consumers, {"lock", "enter", "store"})
             H == AtOneOf(Threads, Holding)
  <2>1. IsFiniteSet(Threads) /\ IsFiniteSet(H) /\ IsFiniteSet(P) /\ IsFiniteSet(C)
    <3>1. IsFiniteSet(Threads)
      BY FS_Union DEF Threads
    <3>2. H \in SUBSET Threads /\ P \in SUBSET Threads /\ C \in SUBSET Threads
      BY DEF AtOneOf, Threads
    <3> QED BY <3>1, <3>2, FS_Subset
  <2>2. P \cap C = {}
    BY DEF AtOneOf
  <2>3. Cardinality(P \cup C) = Cardinality(P) + Cardinality(C)
    <3>1. Cardinality(P \cap C) = 0
      BY <2>2, FS_EmptySet
    <3>2. Cardinality(P \cup C) = Cardinality(P) + Cardinality(C) - Cardinality(P \cap C)
      BY <2>1, FS_Union
    <3> QED BY <3>1, <3>2, <2>1, FS_CardinalityType
  <2>4. t \notin P \cup C
    BY DEF AtOneOf, Threads
  <2>5. P \cup C \cup {t} \in SUBSET H
    BY DEF AtOneOf, Holding, Threads
  <2>6. IsFiniteSet(P \cup C)
    BY <2>1, FS_Union
  <2>7. Cardinality((P \cup C) \cup {t}) = Cardinality(P \cup C) + 1
    BY <2>4, <2>6, FS_AddElement
  <2>8. Cardinality((P \cup C) \cup {t}) <= Cardinality(H)
    BY <2>5, <2>1, FS_Subset
  <2>9. Cardinality(P) \in Nat /\ Cardinality(C) \in Nat /\ Cardinality(H) \in Nat
    BY <2>1, FS_CardinalityType
  <2>10. Cardinality(P) + Cardinality(C) + 1 <= Cardinality(H)
    BY <2>3, <2>7, <2>8, <2>9
  <2>11. /\ empty + full + Cardinality(H) = BUFFER_SIZE
         /\ buffer_index = full + Cardinality(P) + Cardinality(C)
         /\ empty \in Nat /\ full \in Nat
         /\ DOMAIN buffer = 0 .. BUFFER_SIZE - 1
    BY DEF BufferInv, BufferTypes, SlotsAccounted, IndexCounts, Exclusive
  <2> HIDE DEF P, C, H
  <2> QED BY <2>9, <2>10, <2>11
<1> QED BY <1>1, BufferSafety, PTL

-----------------------------------------------------------------------------
(* Where the items are.  A thread has one in hand only on its way to the   *)
(* buffer or from it.                                                      *)
HandsRight ==
    /\ \A p \in Producers : thread[p].pc \notin {"wait", "lock", "enter"}
                               => thread[p].item = NoItem
    /\ \A c \in Consumers : thread[c].pc \notin {"unlock", "post"}
                               => thread[c].item = NoItem

HistoryTypes == /\ produced \subseteq Items
                /\ consumed \in [Items -> 0 .. 2]

(* The items are right from the moment that init is called, whatever       *)
(* program it belongs to; without a mutex and with several slots they are  *)
(* not.                                                                    *)
ItemsInv == /\ BufferInv
            /\ HistoryTypes
            /\ HandsRight
            /\ ~started \/ Exclusive => NothingLostOrTwice

(* The four sets that Copies counts.                                       *)
InHand(i)   == {t \in Threads : thread[t].item = i}
InBuffer(i) == {k \in 0 .. buffer_index - 1 : buffer[k] = i}
GoingIn(i)  == {t \in AtOneOf(Producers, {"load", "store"}) : buffer[buffer_index] = i}
GoingOut(i) == {t \in AtOneOf(Consumers, {"take"}) : buffer[buffer_index] = i}

(* Two finite sets that differ in one element at most.                     *)
LEMMA Differ ==
  ASSUME NEW A, NEW B, NEW t, IsFiniteSet(A), A \ {t} = B \ {t}
  PROVE  /\ Cardinality(A) \in Nat
         /\ Cardinality(B) \in Nat
         /\ Cardinality(B) = Cardinality(A) + One(t \in B) - One(t \in A)
<1>1. Cardinality(A) \in Nat
  BY FS_CardinalityType
<1>2. CASE t \in A /\ t \notin B
  <2>1. B = A \ {t}
    BY <1>2
  <2>2. Cardinality(B) = Cardinality(A) - 1 /\ IsFiniteSet(B)
    BY <2>1, <1>2, FS_RemoveElement
  <2> QED BY <2>2, <1>1, <1>2, FS_CardinalityType DEF One
<1>3. CASE t \notin A /\ t \in B
  <2>1. B = A \cup {t}
    BY <1>3
  <2>2. Cardinality(B) = Cardinality(A) + 1
    BY <2>1, <1>3, FS_AddElement
  <2> QED BY <2>2, <1>1, <1>3 DEF One
<1>4. CASE t \in A <=> t \in B
  <2>1. A = B
    <3> SUFFICES ASSUME NEW x PROVE x \in A <=> x \in B
      OBVIOUS
    <3>1. x # t => (x \in A <=> x \in A \ {t}) /\ (x \in B <=> x \in B \ {t})
      OBVIOUS
    <3> QED BY <3>1, <1>4
  <2> QED BY <2>1, <1>1, <1>4 DEF One
<1> QED BY <1>2, <1>3, <1>4

(* A thread carries an item into the buffer, or out of it.                 *)
Inward(t, i)  == /\ t \in Producers /\ thread[t].pc \in {"load", "store"}
                 /\ buffer[buffer_index] = i
Outward(t, i) == /\ t \in Consumers /\ thread[t].pc = "take"
                 /\ buffer[buffer_index] = i

(* The items in the hands of threads when one thread moves, which writes   *)
(* to the buffer or its index only inside of the section.                  *)
LEMMA HandsMove ==
  ASSUME BufferInv, BufferTypes', Exclusive, NEW t \in Threads,
         \A u \in Threads \ {t} : thread'[u] = thread[u],
         UNCHANGED contents \/ thread[t].pc \in Section,
         NEW i \in Items
  PROVE  /\ Cardinality(InHand(i)) \in Nat
         /\ Cardinality(GoingIn(i)) \in Nat
         /\ Cardinality(GoingOut(i)) \in Nat
         /\ Cardinality(InHand(i)') = Cardinality(InHand(i))
               + One(thread'[t].item = i) - One(thread[t].item = i)
         /\ Cardinality(GoingIn(i)') = Cardinality(GoingIn(i))
               + One(Inward(t, i)') - One(Inward(t, i))
         /\ Cardinality(GoingOut(i)') = Cardinality(GoingOut(i))
               + One(Outward(t, i)') - One(Outward(t, i))
<1>1. IsFiniteSet(Threads)
  BY FS_Union DEF Threads
<1>2. IsFiniteSet(InHand(i)) /\ IsFiniteSet(GoingIn(i)) /\ IsFiniteSet(GoingOut(i))
  <2>1. /\ InHand(i) \in SUBSET Threads /\ GoingIn(i) \in SUBSET Threads
        /\ GoingOut(i) \in SUBSET Threads
    BY DEF InHand, GoingIn, GoingOut, AtOneOf, Threads
  <2> QED BY <1>1, <2>1, FS_Subset
<1>3. InHand(i) \ {t} = InHand(i)' \ {t}
  BY DEF InHand
<1>4. /\ GoingIn(i) \ {t} = GoingIn(i)' \ {t}
      /\ GoingOut(i) \ {t} = GoingOut(i)' \ {t}
  <2>1. CASE UNCHANGED contents
    BY <2>1 DEF contents, GoingIn, GoingOut, AtOneOf, Threads
  <2>2. CASE thread[t].pc \in Section
    <3>1. \A u \in Threads \ {t} : thread[u].pc \notin Section
      BY <2>2, OneInside
    <3> QED BY <3>1 DEF GoingIn, GoingOut, AtOneOf, Threads, Section
  <2> QED BY <2>1, <2>2
<1>5. /\ t \in InHand(i) <=> thread[t].item = i
      /\ t \in InHand(i)' <=> thread'[t].item = i
  BY DEF InHand
<1>6. (t \in GoingIn(i) <=> Inward(t, i)) /\ (t \in GoingIn(i)' <=> Inward(t, i)')
  BY DEF GoingIn, AtOneOf, Inward
<1>7. (t \in GoingOut(i) <=> Outward(t, i)) /\ (t \in GoingOut(i)' <=> Outward(t, i)')
  BY DEF GoingOut, AtOneOf, Outward
<1>8. /\ Cardinality(InHand(i)) \in Nat
      /\ Cardinality(InHand(i)') = Cardinality(InHand(i))
            + One(t \in InHand(i)') - One(t \in InHand(i))
  BY <1>2, <1>3, Differ
<1>9. /\ Cardinality(GoingIn(i)) \in Nat
      /\ Cardinality(GoingIn(i)') = Cardinality(GoingIn(i))
            + One(t \in GoingIn(i)') - One(t \in GoingIn(i))
  BY <1>2, <1>4, Differ
<1>10. /\ Cardinality(GoingOut(i)) \in Nat
       /\ Cardinality(GoingOut(i)') = Cardinality(GoingOut(i))
            + One(t \in GoingOut(i)') - One(t \in GoingOut(i))
  BY <1>2, <1>4, Differ
<1> QED BY <1>5, <1>6, <1>7, <1>8, <1>9, <1>10 DEF One

(* Those in the buffer, when the index or the slot above them changes.     *)
LEMMA BufferMoves ==
  ASSUME buffer_index \in Nat, NEW i \in Items
  PROVE  /\ Cardinality(InBuffer(i)) \in Nat
         /\ /\ buffer_index' = buffer_index
            /\ \A k \in 0 .. buffer_index - 1 : buffer'[k] = buffer[k]
            => Cardinality(InBuffer(i)') = Cardinality(InBuffer(i))
         /\ buffer_index' = buffer_index + 1 /\ buffer' = buffer
            => Cardinality(InBuffer(i)') = Cardinality(InBuffer(i))
                                             + One(buffer[buffer_index] = i)
         /\ /\ buffer_index' = buffer_index - 1 /\ buffer_index > 0
            /\ buffer' = buffer
            => Cardinality(InBuffer(i)') = Cardinality(InBuffer(i))
                                             - One(buffer[buffer_index - 1] = i)
<1>1. IsFiniteSet(InBuffer(i))
  <2>1. IsFiniteSet(0 .. buffer_index - 1)
    BY FS_Interval
  <2>2. InBuffer(i) \in SUBSET (0 .. buffer_index - 1)
    BY DEF InBuffer
  <2> QED BY <2>1, <2>2, FS_Subset
<1>2. Cardinality(InBuffer(i)) \in Nat
  BY <1>1, FS_CardinalityType
<1>3. ASSUME buffer_index' = buffer_index,
             \A k \in 0 .. buffer_index - 1 : buffer'[k] = buffer[k]
      PROVE  Cardinality(InBuffer(i)') = Cardinality(InBuffer(i))
  <2>1. InBuffer(i)' = InBuffer(i)
    BY <1>3 DEF InBuffer
  <2> QED BY <2>1
<1>4. ASSUME buffer_index' = buffer_index + 1, buffer' = buffer
      PROVE  Cardinality(InBuffer(i)') = Cardinality(InBuffer(i))
                                           + One(buffer[buffer_index] = i)
  <2>1. \A k : k \in 0 .. buffer_index' - 1 <=>
                  k \in 0 .. buffer_index - 1 \/ k = buffer_index
    BY <1>4
  <2>2. InBuffer(i) \ {buffer_index} = InBuffer(i)' \ {buffer_index}
    BY <1>4, <2>1 DEF InBuffer
  <2>3. buffer_index \notin InBuffer(i)
    BY DEF InBuffer
  <2>4. buffer_index \in InBuffer(i)' <=> buffer[buffer_index] = i
    BY <1>4, <2>1 DEF InBuffer
  <2>5. Cardinality(InBuffer(i)') = Cardinality(InBuffer(i))
          + One(buffer_index \in InBuffer(i)') - One(buffer_index \in InBuffer(i))
    BY <1>1, <2>2, Differ
  <2> QED BY <2>3, <2>4, <2>5, <1>2 DEF One
<1>5. ASSUME buffer_index' = buffer_index - 1, buffer_index > 0, buffer' = buffer
      PROVE  Cardinality(InBuffer(i)') = Cardinality(InBuffer(i))
                                           - One(buffer[buffer_index - 1] = i)
  <2> DEFINE topSlot == buffer_index - 1
  <2>1. \A k : k \in 0 .. buffer_index - 1 <=>
                  k \in 0 .. buffer_index' - 1 \/ k = topSlot
    BY <1>5
  <2>2. InBuffer(i) \ {topSlot} = InBuffer(i)' \ {topSlot}
    BY <1>5, <2>1 DEF InBuffer
  <2>3. topSlot \notin InBuffer(i)'
    BY <1>5 DEF InBuffer
  <2>4. topSlot \in InBuffer(i) <=> buffer[topSlot] = i
    BY <1>5, <2>1 DEF InBuffer
  <2>5. Cardinality(InBuffer(i)') = Cardinality(InBuffer(i))
          + One(topSlot \in InBuffer(i)') - One(topSlot \in InBuffer(i))
    BY <1>1, <2>2, Differ
  <2> QED BY <2>3, <2>4, <2>5, <1>2 DEF One
<1> QED BY <1>2, <1>3, <1>4, <1>5

(* The hands of the threads and the history keep their types.              *)
LEMMA NextHands ==
  ASSUME BufferInv, HandsRight, HistoryTypes, BufferNext
  PROVE  HandsRight' /\ HistoryTypes'
<1> USE DEF BufferInv, BufferTypes, HandsRight, HistoryTypes, Threads, AtLabel, GoTo,
            AfterWait, AfterSection, program, semaphores, contents, history
<1>1. CASE StartBuffer
  BY <1>1 DEF StartBuffer
<1>2. ASSUME NEW p \in Producers, CallProduce(p) PROVE HandsRight' /\ HistoryTypes'
  BY <1>2 DEF CallProduce
<1>3. ASSUME NEW p \in Producers, WaitEmpty(p) PROVE HandsRight' /\ HistoryTypes'
  BY <1>3 DEF WaitEmpty
<1>4. ASSUME NEW t \in Threads, Lock(t) PROVE HandsRight' /\ HistoryTypes'
  BY <1>4 DEF Lock
<1>5. ASSUME NEW p \in Producers, PutItem(p) PROVE HandsRight' /\ HistoryTypes'
  BY <1>5 DEF PutItem
<1>6. ASSUME NEW t \in Threads, LoadIndex(t) PROVE HandsRight' /\ HistoryTypes'
  BY <1>6 DEF LoadIndex
<1>7. ASSUME NEW p \in Producers, StoreProduced(p) PROVE HandsRight' /\ HistoryTypes'
  BY <1>7 DEF StoreProduced
<1>8. ASSUME NEW t \in Threads, Unlock(t) PROVE HandsRight' /\ HistoryTypes'
  BY <1>8 DEF Unlock
<1>9. ASSUME NEW p \in Producers, PostFull(p) PROVE HandsRight' /\ HistoryTypes'
  BY <1>9 DEF PostFull
<1>10. ASSUME NEW c \in Consumers, CallConsume(c) PROVE HandsRight' /\ HistoryTypes'
  BY <1>10 DEF CallConsume
<1>11. ASSUME NEW c \in Consumers, WaitFull(c) PROVE HandsRight' /\ HistoryTypes'
  BY <1>11 DEF WaitFull
<1>12. ASSUME NEW c \in Consumers, StoreConsumed(c) PROVE HandsRight' /\ HistoryTypes'
  BY <1>12 DEF StoreConsumed
<1>13. ASSUME NEW c \in Consumers, TakeItem(c) PROVE HandsRight' /\ HistoryTypes'
  BY <1>13 DEF TakeItem
<1>14. ASSUME NEW c \in Consumers, ReturnItem(c) PROVE HandsRight' /\ HistoryTypes'
  BY <1>14 DEF ReturnItem
<1> QED
  BY <1>1, <1>2, <1>3, <1>4, <1>5, <1>6, <1>7, <1>8, <1>9, <1>10, <1>11, <1>12, <1>13, <1>14
  DEF BufferNext, ProducerStep, ConsumerStep

(* How the copies of an item change when one thread moves.                 *)
Change(t, i) == One(thread'[t].item = i) - One(thread[t].item = i)
                + One(Inward(t, i)') - One(Inward(t, i))
                + One(Outward(t, i)') - One(Outward(t, i))
                + Cardinality(InBuffer(i)') - Cardinality(InBuffer(i))
                + consumed'[i] - consumed[i]

LEMMA CopiesMove ==
  ASSUME BufferInv, BufferTypes', Exclusive, HistoryTypes, HistoryTypes',
         NEW t \in Threads,
         \A u \in Threads \ {t} : thread'[u] = thread[u],
         UNCHANGED contents \/ thread[t].pc \in Section,
         NEW i \in Items, Cardinality(InBuffer(i)) \in Nat, Cardinality(InBuffer(i)') \in Nat
  PROVE  Copies(i) \in Nat /\ Copies(i)' = Copies(i) + Change(t, i)
<1>1. Copies(i) = Cardinality(InHand(i)) + Cardinality(InBuffer(i))
                   + Cardinality(GoingIn(i)) + Cardinality(GoingOut(i)) + consumed[i]
  BY DEF Copies, InHand, InBuffer, GoingIn, GoingOut
<1>2. Copies(i)' = Cardinality(InHand(i)') + Cardinality(InBuffer(i)')
                   + Cardinality(GoingIn(i)') + Cardinality(GoingOut(i)') + consumed'[i]
  BY DEF Copies, InHand, InBuffer, GoingIn, GoingOut
<1>3. /\ Cardinality(InHand(i)) \in Nat
      /\ Cardinality(GoingIn(i)) \in Nat
      /\ Cardinality(GoingOut(i)) \in Nat
      /\ Cardinality(InHand(i)') = Cardinality(InHand(i))
            + One(thread'[t].item = i) - One(thread[t].item = i)
      /\ Cardinality(GoingIn(i)') = Cardinality(GoingIn(i))
            + One(Inward(t, i)') - One(Inward(t, i))
      /\ Cardinality(GoingOut(i)') = Cardinality(GoingOut(i))
            + One(Outward(t, i)') - One(Outward(t, i))
  BY HandsMove
<1>4. consumed[i] \in Nat /\ consumed'[i] \in Nat
  BY DEF HistoryTypes
<1> QED BY <1>1, <1>2, <1>3, <1>4 DEF Change, One

(* A thread that moves without touching an item, the buffer or its index   *)
(* takes nothing along.                                                    *)
LEMMA NothingMoves ==
  ASSUME BufferInv, BufferTypes', Exclusive, HistoryTypes, HistoryTypes', started,
         NEW t \in Threads,
         \A u \in Threads \ {t} : thread'[u] = thread[u],
         UNCHANGED contents, UNCHANGED consumed,
         thread'[t].item = thread[t].item,
         thread[t].pc = "take" <=> thread'[t].pc = "take",
         t \in Producers => (thread[t].pc \in {"load", "store"}
                               <=> thread'[t].pc \in {"load", "store"}),
         NEW i \in Items
  PROVE  Copies(i)' = Copies(i)
<1>1. InBuffer(i)' = InBuffer(i)
  BY DEF InBuffer, contents
<1>2. Cardinality(InBuffer(i)) \in Nat
  <2>1. IsFiniteSet(0 .. buffer_index - 1)
    BY FS_Interval DEF BufferInv, BufferTypes
  <2>2. InBuffer(i) \in SUBSET (0 .. buffer_index - 1)
    BY DEF InBuffer
  <2> QED BY <2>1, <2>2, FS_Subset, FS_CardinalityType
<1>3. Copies(i) \in Nat /\ Copies(i)' = Copies(i) + Change(t, i)
  BY <1>1, <1>2, CopiesMove
<1>4. /\ Inward(t, i)' <=> Inward(t, i)
      /\ Outward(t, i)' <=> Outward(t, i)
  BY DEF Inward, Outward, contents
<1>5. Change(t, i) = 0
  BY <1>1, <1>2, <1>4 DEF Change, One, HistoryTypes
<1> QED BY <1>3, <1>5

-----------------------------------------------------------------------------
(* One lemma for each step that passes an item on.  Before the step the    *)
(* item is at one place, or at none if it was not produced.                *)
Tracked(i) == Copies(i) = One(i \in produced)

LEMMA TrackPut ==
  ASSUME ItemsInv, BufferTypes', HistoryTypes', Exclusive, started,
         NEW p \in Producers, PutItem(p), NEW i \in Items, Tracked(i)
  PROVE  Tracked(i)'
<1> USE DEF ItemsInv, BufferInv, BufferTypes, Threads
<1>1. /\ buffer_index \in 0 .. BUFFER_SIZE - 1 /\ UNCHANGED <<buffer_index, history>>
      /\ buffer' = [buffer EXCEPT ![buffer_index] = thread[p].item]
      /\ thread[p].pc = "enter" /\ thread'[p].pc = "load" /\ thread'[p].item = NoItem
      /\ \A u \in Threads \ {p} : thread'[u] = thread[u]
  BY DEF PutItem, AtLabel
<1>2. buffer_index \in Nat /\ \A k \in 0 .. buffer_index - 1 : buffer'[k] = buffer[k]
  BY <1>1
<1>3. Cardinality(InBuffer(i)') = Cardinality(InBuffer(i)) /\ Cardinality(InBuffer(i)) \in Nat
  BY <1>1, <1>2, BufferMoves
<1>4. Copies(i) \in Nat /\ Copies(i)' = Copies(i) + Change(p, i)
  BY <1>1, <1>3, CopiesMove DEF Section
<1>5. /\ ~Inward(p, i) /\ ~Outward(p, i) /\ ~Outward(p, i)'
      /\ Inward(p, i)' <=> thread[p].item = i
      /\ thread'[p].item # i
  BY <1>1 DEF Inward, Outward
<1>6. consumed'[i] = consumed[i] /\ consumed[i] \in Nat /\ produced' = produced
  <2>1. produced' = produced /\ consumed' = consumed
    BY <1>1 DEF history
  <2>2. consumed[i] \in Nat
    BY DEF HistoryTypes
  <2> QED BY <2>1, <2>2
<1>7. Change(p, i) = 0
  BY <1>3, <1>5, <1>6 DEF Change, One
<1> QED BY <1>4, <1>6, <1>7 DEF Tracked

LEMMA TrackStored ==
  ASSUME ItemsInv, BufferTypes', HistoryTypes', Exclusive, started,
         NEW p \in Producers, StoreProduced(p), NEW i \in Items, Tracked(i)
  PROVE  Tracked(i)'
<1> USE DEF ItemsInv, BufferInv, BufferTypes, Threads
<1>1. /\ UNCHANGED <<buffer, history>>
      /\ buffer_index' = buffer_index + 1
      /\ thread[p].pc = "store" /\ thread'[p].pc \in {"unlock", "post"}
      /\ thread'[p].item = thread[p].item
      /\ \A u \in Threads \ {p} : thread'[u] = thread[u]
  BY DEF StoreProduced, AtLabel, GoTo, AfterSection, IndexFresh
<1>2. buffer_index \in Nat
  <2>1. Put \in Nat /\ Taking \in Nat
    BY <1>1, Counts
  <2> QED BY <2>1 DEF IndexCounts, Exclusive, Put, Taking
<1>3. /\ Cardinality(InBuffer(i)') = Cardinality(InBuffer(i)) + One(buffer[buffer_index] = i)
      /\ Cardinality(InBuffer(i)) \in Nat
  BY <1>1, <1>2, BufferMoves
<1>4. Copies(i) \in Nat /\ Copies(i)' = Copies(i) + Change(p, i)
  <2>1. Cardinality(InBuffer(i)') \in Nat
    BY <1>3 DEF One
  <2> QED BY <1>1, <1>3, <2>1, CopiesMove DEF Section
<1>5. /\ ~Inward(p, i)' /\ ~Outward(p, i) /\ ~Outward(p, i)'
      /\ Inward(p, i) <=> buffer[buffer_index] = i
  BY <1>1 DEF Inward, Outward
<1>6. consumed'[i] = consumed[i] /\ consumed[i] \in Nat /\ produced' = produced
  BY <1>1 DEF history, HistoryTypes
<1>7. Change(p, i) = 0
  BY <1>1, <1>3, <1>5, <1>6 DEF Change, One
<1> QED BY <1>4, <1>6, <1>7 DEF Tracked

LEMMA TrackUncounted ==
  ASSUME ItemsInv, BufferTypes', HistoryTypes', Exclusive, started,
         NEW c \in Consumers, StoreConsumed(c), NEW i \in Items, Tracked(i)
  PROVE  Tracked(i)'
<1> USE DEF ItemsInv, BufferInv, BufferTypes, Threads
<1>1. /\ UNCHANGED <<buffer, history>>
      /\ buffer_index' = buffer_index - 1
      /\ thread[c].pc = "store" /\ thread'[c].pc = "take"
      /\ thread'[c].item = thread[c].item
      /\ \A u \in Threads \ {c} : thread'[u] = thread[u]
      /\ c \notin Producers
  BY DEF StoreConsumed, AtLabel, GoTo, IndexFresh
<1>2. buffer_index \in Nat /\ buffer_index > 0
  <2>1. /\ Put \in Nat /\ Taking \in Nat
        /\ Taking' = Taking
              + One(c \in Consumers /\ thread'[c].pc \in {"lock", "enter", "store"})
              - One(c \in Consumers /\ thread[c].pc \in {"lock", "enter", "store"})
    BY <1>1, Counts
  <2>2. Taking' \in Nat
    <3>1. IsFiniteSet(Consumers) /\ AtOneOf(Consumers, {"lock", "enter", "store"})' \in SUBSET Consumers
      BY DEF AtOneOf
    <3> QED BY <3>1, FS_Subset, FS_CardinalityType DEF Taking
  <2>3. Taking >= 1
    BY <1>1, <2>1, <2>2 DEF One
  <2> QED BY <2>1, <2>3 DEF IndexCounts, Exclusive, Put, Taking
<1>3. /\ Cardinality(InBuffer(i)') = Cardinality(InBuffer(i)) - One(buffer[buffer_index - 1] = i)
      /\ Cardinality(InBuffer(i)) \in Nat
  BY <1>1, <1>2, BufferMoves
<1>4. Cardinality(InBuffer(i)') \in Nat
  <2>1. IsFiniteSet(0 .. buffer_index' - 1)
    BY <1>1, FS_Interval
  <2>2. InBuffer(i)' \in SUBSET (0 .. buffer_index' - 1)
    BY DEF InBuffer
  <2> QED BY <2>1, <2>2, FS_Subset, FS_CardinalityType
<1>5. Copies(i) \in Nat /\ Copies(i)' = Copies(i) + Change(c, i)
  BY <1>1, <1>3, <1>4, CopiesMove DEF Section
<1>6. /\ ~Inward(c, i)' /\ ~Inward(c, i) /\ ~Outward(c, i)
      /\ Outward(c, i)' <=> buffer[buffer_index - 1] = i
  BY <1>1 DEF Inward, Outward
<1>7. consumed'[i] = consumed[i] /\ consumed[i] \in Nat /\ produced' = produced
  BY <1>1 DEF history, HistoryTypes
<1>8. Change(c, i) = 0
  <2>1. One(Inward(c, i)') = 0 /\ One(Inward(c, i)) = 0 /\ One(Outward(c, i)) = 0
    BY <1>6 DEF One
  <2>2. /\ One(Outward(c, i)') = One(buffer[buffer_index - 1] = i)
        /\ One(buffer[buffer_index - 1] = i) \in Nat
    BY <1>6 DEF One
  <2>3. /\ One((thread')[c].item = i) = One(thread[c].item = i)
        /\ One(thread[c].item = i) \in Nat
    BY <1>1 DEF One
  <2> QED BY <1>3, <1>7, <2>1, <2>2, <2>3 DEF Change
<1> QED BY <1>5, <1>7, <1>8 DEF Tracked

LEMMA TrackTaken ==
  ASSUME ItemsInv, BufferTypes', HistoryTypes', Exclusive, started,
         NEW c \in Consumers, TakeItem(c), NEW i \in Items, Tracked(i)
  PROVE  Tracked(i)'
<1> USE DEF ItemsInv, BufferInv, BufferTypes, Threads
<1>1. /\ UNCHANGED <<buffer, buffer_index, history>> /\ buffer_index \in Nat
      /\ thread[c].pc = "take" /\ thread'[c].pc \in {"unlock", "post"}
      /\ thread'[c].item = buffer[buffer_index]
      /\ \A u \in Threads \ {c} : thread'[u] = thread[u]
      /\ c \notin Producers
  BY DEF TakeItem, AtLabel, AfterSection, contents
<1>2. thread[c].item = NoItem
  BY <1>1 DEF HandsRight
<1>3. Cardinality(InBuffer(i)') = Cardinality(InBuffer(i)) /\ Cardinality(InBuffer(i)) \in Nat
  BY <1>1, BufferMoves
<1>4. Copies(i) \in Nat /\ Copies(i)' = Copies(i) + Change(c, i)
  BY <1>1, <1>3, CopiesMove DEF Section
<1>5. /\ ~Inward(c, i)' /\ ~Inward(c, i) /\ ~Outward(c, i)'
      /\ Outward(c, i) <=> buffer[buffer_index] = i
      /\ thread[c].item # i
  BY <1>1, <1>2 DEF Inward, Outward
<1>6. consumed'[i] = consumed[i] /\ consumed[i] \in Nat /\ produced' = produced
  BY <1>1 DEF history, HistoryTypes
<1>7. Change(c, i) = 0
  BY <1>1, <1>3, <1>5, <1>6 DEF Change, One
<1> QED BY <1>4, <1>6, <1>7 DEF Tracked

LEMMA TrackReturned ==
  ASSUME ItemsInv, BufferTypes', HistoryTypes', Exclusive, started,
         NEW c \in Consumers, ReturnItem(c), NEW i \in Items, Tracked(i)
  PROVE  Tracked(i)'
<1> USE DEF ItemsInv, BufferInv, BufferTypes, Threads
<1>1. /\ UNCHANGED <<buffer, buffer_index, produced>>
      /\ thread[c].pc = "post" /\ thread'[c].pc = "idle" /\ thread'[c].item = NoItem
      /\ \A u \in Threads \ {c} : thread'[u] = thread[u]
      /\ c \notin Producers
      /\ consumed'[i] = IF i = thread[c].item /\ consumed[i] < 2
                          THEN consumed[i] + 1 ELSE consumed[i]
  BY DEF ReturnItem, AtLabel, contents
<1>2. buffer_index \in Nat
  <2>1. Put \in Nat /\ Taking \in Nat
    BY <1>1, Counts
  <2> QED BY <2>1 DEF IndexCounts, Exclusive, Put, Taking
<1>3. Cardinality(InBuffer(i)') = Cardinality(InBuffer(i)) /\ Cardinality(InBuffer(i)) \in Nat
  BY <1>1, <1>2, BufferMoves
<1>4. Copies(i) \in Nat /\ Copies(i)' = Copies(i) + Change(c, i)
  BY <1>1, <1>3, CopiesMove DEF contents
<1>5. ~Inward(c, i)' /\ ~Inward(c, i) /\ ~Outward(c, i)' /\ ~Outward(c, i)
  BY <1>1 DEF Inward, Outward
<1>6. consumed[i] \in 0 .. 2 /\ thread'[c].item # i
  BY <1>1 DEF HistoryTypes
<1>7. thread[c].item = i => consumed[i] = 0
  <2> SUFFICES ASSUME thread[c].item = i PROVE consumed[i] = 0
    OBVIOUS
  <2>1. Change(c, i) = 0 - 1 + consumed'[i] - consumed[i]
    BY <1>3, <1>5, <1>6 DEF Change, One
  <2>2. Copies(i) = Cardinality(InHand(i)) + Cardinality(InBuffer(i))
                     + Cardinality(GoingIn(i)) + Cardinality(GoingOut(i)) + consumed[i]
    BY DEF Copies, InHand, InBuffer, GoingIn, GoingOut
  <2>3. /\ Cardinality(InHand(i)) \in Nat /\ Cardinality(GoingIn(i)) \in Nat
        /\ Cardinality(GoingOut(i)) \in Nat
    BY <1>1, HandsMove DEF contents
  <2>4. Cardinality(InHand(i)) # 0
    <3>1. IsFiniteSet(Threads)
      BY FS_Union
    <3>2. InHand(i) \in SUBSET Threads /\ c \in InHand(i)
      BY DEF InHand
    <3> QED BY <3>1, <3>2, FS_Subset, FS_EmptySet
  <2>5. Copies(i) <= 1
    BY DEF Tracked, One
  <2> HIDE DEF ItemsInv, BufferInv, BufferTypes, Threads
  <2> QED BY <1>3, <1>6, <2>2, <2>3, <2>4, <2>5
<1>8. Change(c, i) = 0
  BY <1>1, <1>3, <1>5, <1>6, <1>7 DEF Change, One
<1> QED BY <1>1, <1>4, <1>8 DEF Tracked

LEMMA TrackCalled ==
  ASSUME ItemsInv, BufferTypes', HistoryTypes', Exclusive, started,
         NEW p \in Producers, CallProduce(p), NEW i \in Items, Tracked(i)
  PROVE  Tracked(i)'
<1> USE DEF ItemsInv, BufferInv, BufferTypes, Threads
<1>1. PICK new \in Items \ produced :
         /\ produced' = produced \cup {new}
         /\ thread' = [thread EXCEPT ![p].pc = "wait", ![p].item = new]
  BY DEF CallProduce
<1>2. /\ UNCHANGED <<buffer, buffer_index, consumed>>
      /\ thread[p].pc = "idle" /\ thread'[p].pc = "wait" /\ thread'[p].item = new
      /\ \A u \in Threads \ {p} : thread'[u] = thread[u]
  BY <1>1 DEF CallProduce, AtLabel, contents
<1>3. buffer_index \in Nat
  <2>1. \A u \in Threads \ {p} : thread'[u].pc = thread[u].pc
    BY <1>2
  <2>2. Put \in Nat /\ Taking \in Nat
    BY <2>1, Counts
  <2> QED BY <2>2 DEF IndexCounts, Exclusive, Put, Taking
<1>4. Cardinality(InBuffer(i)') = Cardinality(InBuffer(i)) /\ Cardinality(InBuffer(i)) \in Nat
  BY <1>2, <1>3, BufferMoves
<1>5. Copies(i) \in Nat /\ Copies(i)' = Copies(i) + Change(p, i)
  BY <1>2, <1>4, CopiesMove DEF contents
<1>6. ~Inward(p, i)' /\ ~Inward(p, i) /\ ~Outward(p, i)' /\ ~Outward(p, i)
  BY <1>2 DEF Inward, Outward
<1>7. consumed'[i] = consumed[i] /\ consumed[i] \in Nat /\ thread[p].item # i
  <2>1. thread[p].item = NoItem
    BY <1>2 DEF HandsRight
  <2>2. consumed[i] \in Nat
    <3>1. consumed[i] \in 0 .. 2
      BY DEF HistoryTypes
    <3> QED BY <3>1
  <2> QED BY <2>1, <2>2, <1>2
<1>8. Change(p, i) = One(i = new)
  BY <1>2, <1>4, <1>6, <1>7 DEF Change, One
<1> QED BY <1>1, <1>5, <1>8 DEF Tracked, One

(* Any other step leaves each item where it is.                            *)
LEMMA TrackOthers ==
  ASSUME ItemsInv, BufferTypes', HistoryTypes', Exclusive, started,
         NEW t \in Threads,
         \/ t \in Producers /\ (WaitEmpty(t) \/ PostFull(t))
         \/ t \in Consumers /\ (CallConsume(t) \/ WaitFull(t))
         \/ Lock(t) \/ LoadIndex(t) \/ Unlock(t),
         NEW i \in Items, Tracked(i)
  PROVE  Tracked(i)'
<1> USE DEF BufferTypes, Threads
<1>0. BufferInv /\ BufferTypes /\ HistoryTypes
  BY DEF ItemsInv, BufferInv
<1>1. /\ UNCHANGED contents /\ UNCHANGED consumed /\ produced' = produced
      /\ thread'[t].item = thread[t].item
      /\ \A u \in Threads \ {t} : thread'[u] = thread[u]
  BY <1>0 DEF WaitEmpty, PostFull, CallConsume, WaitFull, Lock, LoadIndex, Unlock,
              GoTo, history
<1>2. /\ thread[t].pc # "take" /\ thread'[t].pc # "take"
      /\ t \in Producers => (thread[t].pc \in {"load", "store"}
                               <=> thread'[t].pc \in {"load", "store"})
  BY <1>0 DEF WaitEmpty, PostFull, CallConsume, WaitFull, Lock, LoadIndex, Unlock,
              AtLabel, GoTo, AfterWait
<1> HIDE DEF BufferTypes, Threads
<1>3. Copies(i)' = Copies(i)
  BY <1>0, <1>1, <1>2, NothingMoves
<1> QED BY <1>1, <1>3 DEF Tracked

LEMMA NextItems == ItemsInv /\ [BufferNext]_bufferVars => ItemsInv'
<1> SUFFICES ASSUME ItemsInv, [BufferNext]_bufferVars PROVE ItemsInv'
  OBVIOUS
<1>1. BufferInv' /\ BufferTypes'
  BY NextBuffer DEF ItemsInv, BufferInv
<1>2. CASE BufferNext
  <2>1. HandsRight' /\ HistoryTypes'
    BY <1>2, NextHands DEF ItemsInv
  <2>2. ASSUME ~started' \/ Exclusive', NEW i \in Items PROVE Tracked(i)'
    <3>1. CASE StartBuffer
      <4>1. Tracked(i)
        BY <3>1 DEF StartBuffer, ItemsInv, NothingLostOrTwice, Tracked, One
      <4>2. Copies(i)' = Copies(i) /\ produced' = produced
        BY <3>1 DEF StartBuffer, Copies, AtOneOf, contents, history
      <4> QED BY <4>1, <4>2 DEF Tracked
    <3>2. CASE ~StartBuffer
      <4>1. started /\ UNCHANGED program
        BY <1>2, <3>2
        DEF BufferNext, ProducerStep, ConsumerStep, CallProduce, WaitEmpty, Lock, PutItem,
            LoadIndex, StoreProduced, Unlock, PostFull, CallConsume, WaitFull,
            StoreConsumed, TakeItem, ReturnItem, AtLabel, ItemsInv, BufferInv, BufferTypes,
            Threads
      <4>2. Exclusive /\ Tracked(i)
        <5>1. Exclusive
          BY <2>2, <4>1 DEF program, Exclusive
        <5> QED BY <5>1 DEF ItemsInv, NothingLostOrTwice, Tracked, One
      <4>3. ASSUME NEW t \in Threads,
                   \/ t \in Producers /\ (WaitEmpty(t) \/ PostFull(t))
                   \/ t \in Consumers /\ (CallConsume(t) \/ WaitFull(t))
                   \/ Lock(t) \/ LoadIndex(t) \/ Unlock(t)
            PROVE  Tracked(i)'
        BY <1>1, <2>1, <4>1, <4>2, <4>3, TrackOthers
      <4>4. ASSUME NEW p \in Producers,
                   CallProduce(p) \/ PutItem(p) \/ StoreProduced(p)
            PROVE  Tracked(i)'
        BY <1>1, <2>1, <4>1, <4>2, <4>4, TrackCalled, TrackPut, TrackStored
      <4>5. ASSUME NEW c \in Consumers,
                   StoreConsumed(c) \/ TakeItem(c) \/ ReturnItem(c)
            PROVE  Tracked(i)'
        BY <1>1, <2>1, <4>1, <4>2, <4>5, TrackUncounted, TrackTaken, TrackReturned
      <4> QED BY <1>2, <3>2, <4>3, <4>4, <4>5
              DEF BufferNext, ProducerStep, ConsumerStep, Threads
    <3> QED BY <3>1, <3>2
  <2>3. (~started \/ Exclusive => NothingLostOrTwice)'
    BY <2>2 DEF Tracked, One, NothingLostOrTwice
  <2> QED BY <1>1, <2>1, <2>3 DEF ItemsInv
<1>3. CASE UNCHANGED bufferVars
  <2> USE <1>3 DEF bufferVars, ItemsInv
  <2>1. HandsRight'
    BY DEF HandsRight
  <2>2. HistoryTypes'
    BY DEF HistoryTypes
  <2>3. (~started \/ Exclusive => NothingLostOrTwice)'
    BY DEF Exclusive, NothingLostOrTwice, Copies, AtOneOf
  <2> QED BY <1>1, <2>1, <2>2, <2>3
<1> QED BY <1>2, <1>3

LEMMA InitItems == BufferInit => ItemsInv
<1> SUFFICES ASSUME BufferInit PROVE ItemsInv
  OBVIOUS
<1>1. HandsRight
  BY DEF BufferInit, HandsRight, Threads
<1>2. HistoryTypes
  BY DEF BufferInit, HistoryTypes
<1>3. ASSUME NEW i \in Items PROVE Copies(i) = 0 /\ i \notin produced
  <2> USE DEF BufferInit
  <2>1. InHand(i) = {} /\ GoingIn(i) = {} /\ GoingOut(i) = {}
    BY DEF InHand, GoingIn, GoingOut, AtOneOf, Threads
  <2>2. InBuffer(i) = {}
    BY DEF InBuffer
  <2>3. Cardinality({}) = 0
    BY FS_EmptySet
  <2>4. Copies(i) = Cardinality(InHand(i)) + Cardinality(InBuffer(i))
                     + Cardinality(GoingIn(i)) + Cardinality(GoingOut(i)) + consumed[i]
    BY DEF Copies, InHand, InBuffer, GoingIn, GoingOut
  <2>5. consumed[i] = 0 /\ produced = {}
    OBVIOUS
  <2> HIDE DEF BufferInit
  <2> QED BY <2>1, <2>2, <2>3, <2>4, <2>5
<1> QED BY <1>1, <1>2, <1>3, InitBuffer DEF ItemsInv, NothingLostOrTwice

(* With the mutex, or with a single slot, an item that produce was given   *)
(* is in exactly one place in every state: with its producer, in the       *)
(* buffer, with a consumer, or returned once.  Of the simplified program   *)
(* with more slots, which does lose items, nothing is claimed.             *)
THEOREM ItemsAlwaysSafe == BufferSpec => []ItemsSafe
<1>1. BufferInit => ItemsInv
  BY InitItems
<1>2. ItemsInv /\ [BufferNext]_bufferVars => ItemsInv'
  BY NextItems
<1>3. ItemsInv => ItemsSafe
  BY DEF ItemsInv, ItemsSafe, Exclusive
<1> QED BY <1>1, <1>2, <1>3, PTL DEF BufferSpec

(* Both at once, for any number of threads and any size of the buffer: the *)
(* semaphores account for every slot, and with the mutex, or with a single *)
(* slot, the index and the items agree with them.                          *)
THEOREM BufferAlwaysRight == BufferSpec => []BufferRight
<1>1. BufferCounts /\ ItemsSafe => BufferRight
  BY DEF BufferRight
<1> QED BY <1>1, CountsAlwaysRight, ItemsAlwaysSafe, PTL

-----------------------------------------------------------------------------
(* parseInt.  Induction over 0 .. n, as sets, and loops as functions.      *)
LEMMA LeastNat ==
  ASSUME NEW S \in SUBSET Nat, S # {}
  PROVE  \E m \in S : \A k \in S : m <= k
<1> DEFINE Below == {ss \in Nat \X Nat : ss[1] < ss[2]}
<1>1. IsWellFoundedOn(Below, Nat)
  BY NatLessThanWellFounded DEF OpToRel
<1> HIDE DEF Below
<1>2. PICK x \in S : \A y \in S : ~ (<<y, x>> \in Below)
  BY <1>1, WFMin
<1>3. \A k \in S : k \in Nat /\ x \in Nat /\ ~(k < x)
  BY <1>2 DEF Below
<1> QED BY <1>3

LEMMA UpTo ==
  ASSUME NEW n \in Nat, NEW S, 0 \in S,
         \A i \in 1 .. n : i - 1 \in S => i \in S
  PROVE  0 .. n \subseteq S
<1> DEFINE D == (0 .. n) \ S
<1> SUFFICES ASSUME D # {} PROVE FALSE
  OBVIOUS
<1>1. PICK m \in D : \A k \in D : m <= k
  <2>1. D \in SUBSET Nat
    OBVIOUS
  <2> HIDE DEF D
  <2> QED BY <2>1, LeastNat
<1>2. m \in 1 .. n /\ m - 1 \in 0 .. n
  BY <1>1
<1>3. m - 1 \in S
  BY <1>1, <1>2
<1> QED BY <1>1, <1>2, <1>3

(* A sequence of values, each computed from its index and the one before.  *)
Computed(f, n, T, z, step) == /\ f \in [0 .. n -> T] /\ f[0] = z
                              /\ \A i \in 1 .. n : f[i] = step[<<i, f[i - 1]>>]

LEMMA CanBeComputed ==
  ASSUME NEW n \in Nat, NEW T, NEW z \in T, NEW step \in [(1 .. n) \X T -> T]
  PROVE  \E f : Computed(f, n, T, z, step)
<1> DEFINE Upto(f, k) == /\ f \in [0 .. n -> T] /\ f[0] = z
                         /\ \A i \in 1 .. k : f[i] = step[<<i, f[i - 1]>>]
           K == {k \in 0 .. n : \E f : Upto(f, k)}
<1>1. 0 \in K
  <2>1. Upto([i \in 0 .. n |-> z], 0)
    OBVIOUS
  <2> HIDE DEF Upto
  <2> QED BY <2>1
<1>2. ASSUME NEW k \in 1 .. n, k - 1 \in K
      PROVE  k \in K
  <2>1. PICK f : Upto(f, k - 1)
    BY <1>2
  <2> DEFINE g == [f EXCEPT ![k] = step[<<k, f[k - 1]>>]]
  <2>2. step[<<k, f[k - 1]>>] \in T
    BY <2>1
  <2>3. g \in [0 .. n -> T]
    BY <2>1, <2>2
  <2>4. /\ g[k] = step[<<k, f[k - 1]>>]
        /\ \A i \in 0 .. n : i # k => g[i] = f[i]
    BY <2>1
  <2> HIDE DEF g
  <2>5. ASSUME NEW i \in 1 .. k
        PROVE  g[i] = step[<<i, g[i - 1]>>]
    <3>1. CASE i = k
      BY <3>1, <2>4
    <3>2. CASE i # k
      <4>1. i \in 1 .. k - 1 /\ i \in 0 .. n /\ i - 1 \in 0 .. n /\ i - 1 # k
        BY <3>2
      <4>2. f[i] = step[<<i, f[i - 1]>>]
        BY <4>1, <2>1
      <4> QED BY <4>1, <4>2, <2>4, <3>2
    <3> QED BY <3>1, <3>2
  <2>6. g[0] = z
    BY <2>1, <2>4
  <2>7. Upto(g, k)
    BY <2>3, <2>5, <2>6
  <2> HIDE DEF Upto
  <2> QED BY <2>7
<1>3. n \in K
  <2> HIDE DEF K
  <2>1. 0 .. n \subseteq K
    BY <1>1, <1>2, UpTo
  <2> QED BY <2>1
<1> QED BY <1>3 DEF Computed

(* The weights of the digits and the sums over them.                       *)
WeightsLoop(base, n, f) == f = [k \in 0 .. n |-> IF k = 0 THEN 1 ELSE base * f[k - 1]]
SumsLoop(s, base, f) ==
    f = [k \in 0 .. Len(s) |->
            IF k = 0 THEN 0
            ELSE f[k - 1] + s[Len(s) + 1 - k] * Weights(base, Len(s))[k - 1]]

LEMMA ChosenWeights ==
  ASSUME NEW base, NEW n, \E f : WeightsLoop(base, n, f)
  PROVE  WeightsLoop(base, n, Weights(base, n))
BY ZenonT(60) DEF Weights, WeightsLoop

LEMMA ChosenSums ==
  ASSUME NEW s, NEW base, \E f : SumsLoop(s, base, f)
  PROVE  \E f : SumsLoop(s, base, f) /\ NumeralValue(s, base) = f[Len(s)]
BY ZenonT(60) DEF NumeralValue, SumsLoop

Weighted(base, n, w) == /\ w \in [0 .. n -> Int] /\ w[0] = 1
                        /\ \A k \in 1 .. n : w[k] = base * w[k - 1]
                        /\ \A k \in 0 .. n : w[k] \in Nat \ {0}

LEMMA WeightsAre ==
  ASSUME NEW base \in Nat \ {0}, NEW n \in Nat
  PROVE  Weighted(base, n, Weights(base, n))
<1> DEFINE step == [x \in (1 .. n) \X Int |-> base * x[2]]
<1>1. step \in [(1 .. n) \X Int -> Int]
  <2>1. \A x \in (1 .. n) \X Int : base * x[2] \in Int
    OBVIOUS
  <2> QED BY <2>1
<1>2. PICK f : Computed(f, n, Int, 1, step)
  <2>1. n \in Nat /\ 1 \in Int
    OBVIOUS
  <2> HIDE DEF step
  <2> QED BY ONLY <2>1, <1>1, CanBeComputed
<1>3. /\ f \in [0 .. n -> Int] /\ f[0] = 1
      /\ \A k \in 1 .. n : f[k] = step[<<k, f[k - 1]>>]
  <2> HIDE DEF step
  <2> QED BY <1>2 DEF Computed
<1>4. \A k \in 1 .. n : f[k] = base * f[k - 1]
  <2> SUFFICES ASSUME NEW k \in 1 .. n PROVE f[k] = base * f[k - 1]
    OBVIOUS
  <2>1. k - 1 \in 0 .. n
    OBVIOUS
  <2>2. step[<<k, f[k - 1]>>] = base * f[k - 1]
    BY <2>1, <1>3
  <2> HIDE DEF step
  <2> QED BY <2>2, <1>3
<1> DEFINE Value(k) == IF k = 0 THEN 1 ELSE base * f[k - 1]
<1>5. f = [k \in 0 .. n |-> Value(k)]
  <2>1. \A k \in 0 .. n : f[k] = Value(k)
    BY <1>3, <1>4
  <2>2. f = [k \in 0 .. n |-> f[k]]
    BY <1>3
  <2> HIDE DEF Value
  <2> QED BY <2>1, <2>2, Zenon
<1>6. WeightsLoop(base, n, Weights(base, n))
  <2>1. WeightsLoop(base, n, f)
    BY <1>5, Zenon DEF WeightsLoop
  <2> QED BY <2>1, ChosenWeights
<1> DEFINE w == Weights(base, n)
<1> HIDE DEF w
<1>7. w = [k \in 0 .. n |-> IF k = 0 THEN 1 ELSE base * w[k - 1]]
  BY <1>6 DEF WeightsLoop, w
<1>8. w[0] = 1 /\ \A k \in 1 .. n : w[k] = base * w[k - 1]
  <2> DEFINE V(k) == IF k = 0 THEN 1 ELSE base * w[k - 1]
  <2>1. w = [k \in 0 .. n |-> V(k)]
    BY <1>7, Zenon
  <2>2. \A k \in 0 .. n : w[k] = V(k)
    <3> HIDE DEF V
    <3> QED BY <2>1
  <2>3. 0 \in 0 .. n /\ \A k \in 1 .. n : k \in 0 .. n /\ k # 0
    OBVIOUS
  <2> QED BY <2>2, <2>3
<1> DEFINE S == {k \in 0 .. n : w[k] \in Nat \ {0}}
<1>9. 0 .. n \subseteq S
  <2>1. 0 \in S
    BY <1>8
  <2>2. ASSUME NEW k \in 1 .. n, k - 1 \in S PROVE k \in S
    <3>1. w[k] = base * w[k - 1] /\ w[k - 1] \in Nat /\ w[k - 1] > 0
      BY <1>8, <2>2
    <3>2. base * w[k - 1] \in Nat /\ base * w[k - 1] > 0
      BY <3>1
    <3> QED BY <3>1, <3>2
  <2> HIDE DEF S
  <2> QED BY <2>1, <2>2, UpTo
<1>10. w \in [0 .. n -> Int]
  <2>1. \A k \in 0 .. n : w[k] \in Int
    BY <1>9
  <2>2. w = [k \in 0 .. n |-> w[k]]
    <3>1. DOMAIN w = 0 .. n
      BY <1>7
    <3> QED BY <3>1, <1>7
  <2> QED BY <2>1, <2>2
<1>11. \A k \in 0 .. n : w[k] \in Nat \ {0}
  BY <1>9
<1> QED BY <1>8, <1>10, <1>11 DEF Weighted, w

Summed(s, base, v) ==
    /\ v \in [0 .. Len(s) -> Int] /\ v[0] = 0
    /\ \A k \in 1 .. Len(s) :
          v[k] = v[k - 1] + s[Len(s) + 1 - k] * Weights(base, Len(s))[k - 1]
    /\ \A k \in 0 .. Len(s) : v[k] \in Nat

LEMMA SumsAre ==
  ASSUME NEW s \in Seq(0 .. 10), NEW base \in Nat \ {0}
  PROVE  \E v : Summed(s, base, v) /\ NumeralValue(s, base) = v[Len(s)]
<1> DEFINE n == Len(s)
           w == Weights(base, n)
           digit(k) == s[n + 1 - k] * w[k - 1]
           step == [x \in (1 .. n) \X Int |-> x[2] + digit(x[1])]
<1>0. n \in Nat /\ \A k \in 1 .. n : n + 1 - k \in 1 .. n /\ s[n + 1 - k] \in 0 .. 10
  OBVIOUS
<1>1. \A k \in 0 .. n : w[k] \in Nat
  <2>1. Weighted(base, n, w)
    BY <1>0, WeightsAre
  <2> HIDE DEF w, n
  <2> QED BY <2>1 DEF Weighted
<1>2. \A k \in 1 .. n : digit(k) \in Nat
  <2> SUFFICES ASSUME NEW k \in 1 .. n PROVE digit(k) \in Nat
    OBVIOUS
  <2> HIDE DEF w
  <2>1. s[n + 1 - k] \in Nat
    <3>1. s[n + 1 - k] \in 0 .. 10
      BY <1>0
    <3> HIDE DEF n
    <3> QED BY <3>1
  <2>2. w[k - 1] \in Nat
    <3>1. k - 1 \in 0 .. n
      BY <1>0
    <3> QED BY <3>1, <1>1
  <2> QED BY <2>1, <2>2
<1> HIDE DEF n, w, digit
<1>3. step \in [(1 .. n) \X Int -> Int]
  <2>1. \A x \in (1 .. n) \X Int : x[2] + digit(x[1]) \in Int
    BY <1>2
  <2> QED BY <2>1
<1>4. PICK f : Computed(f, n, Int, 0, step)
  <2>1. n \in Nat /\ 0 \in Int
    BY <1>0
  <2> HIDE DEF step
  <2> QED BY ONLY <2>1, <1>3, CanBeComputed
<1>5. /\ f \in [0 .. n -> Int] /\ f[0] = 0
      /\ \A k \in 1 .. n : f[k] = step[<<k, f[k - 1]>>]
  <2> HIDE DEF step
  <2> QED BY <1>4 DEF Computed
<1>6. \A k \in 1 .. n : f[k] = f[k - 1] + digit(k)
  <2> SUFFICES ASSUME NEW k \in 1 .. n PROVE f[k] = f[k - 1] + digit(k)
    OBVIOUS
  <2>1. k - 1 \in 0 .. n
    BY <1>0
  <2>2. step[<<k, f[k - 1]>>] = f[k - 1] + digit(k)
    BY <2>1, <1>5
  <2> HIDE DEF step
  <2> QED BY <2>2, <1>5
<1> DEFINE Value(k) == IF k = 0 THEN 0 ELSE f[k - 1] + digit(k)
<1>7. f = [k \in 0 .. n |-> Value(k)]
  <2>1. \A k \in 0 .. n : f[k] = Value(k)
    BY <1>0, <1>5, <1>6
  <2>2. f = [k \in 0 .. n |-> f[k]]
    BY <1>5
  <2> HIDE DEF Value
  <2> QED BY <2>1, <2>2, Zenon
<1>8. PICK v : SumsLoop(s, base, v) /\ NumeralValue(s, base) = v[Len(s)]
  <2>1. SumsLoop(s, base, f)
    BY <1>7, Zenon DEF SumsLoop, digit, w, n
  <2> QED BY <2>1, ChosenSums
<1>9. v = [k \in 0 .. n |-> IF k = 0 THEN 0 ELSE v[k - 1] + digit(k)]
  BY <1>8, Zenon DEF SumsLoop, digit, w, n
<1>10. v[0] = 0 /\ \A k \in 1 .. n : v[k] = v[k - 1] + digit(k)
  <2> DEFINE V(k) == IF k = 0 THEN 0 ELSE v[k - 1] + digit(k)
  <2>1. v = [k \in 0 .. n |-> V(k)]
    BY <1>9, Zenon
  <2>2. \A k \in 0 .. n : v[k] = V(k)
    <3> HIDE DEF V
    <3> QED BY <2>1
  <2>3. 0 \in 0 .. n /\ \A k \in 1 .. n : k \in 0 .. n /\ k # 0
    BY <1>0
  <2> QED BY <2>2, <2>3
<1> DEFINE S == {k \in 0 .. n : v[k] \in Nat}
<1>11. 0 .. n \subseteq S
  <2>1. 0 \in S
    BY <1>0, <1>10
  <2>2. ASSUME NEW k \in 1 .. n, k - 1 \in S PROVE k \in S
    BY <1>0, <1>2, <1>10, <2>2
  <2> HIDE DEF S
  <2> QED BY <2>1, <2>2, <1>0, UpTo
<1>12. v \in [0 .. n -> Int]
  <2>1. \A k \in 0 .. n : v[k] \in Int
    BY <1>11
  <2>2. v = [k \in 0 .. n |-> v[k]]
    <3>1. DOMAIN v = 0 .. n
      BY <1>9
    <3> QED BY <3>1, <1>9
  <2> QED BY <2>1, <2>2
<1>13. \A k \in 0 .. n : v[k] \in Nat
  BY <1>11
<1>14. Summed(s, base, v)
  BY <1>10, <1>12, <1>13 DEF Summed, digit, w, n
<1> QED BY <1>8, <1>14

(* What has been read of a numeral whose value is an int, and what is left *)
(* of it, add up to the value.                                             *)
Partly(s, base, i, r) ==
    \A v : Summed(s, base, v) /\ v[Len(s)] <= INT_MAX =>
        /\ r \in Nat
        /\ r * Weights(base, Len(s))[Len(s) - i] + v[Len(s) - i] = v[Len(s)]

LEMMA ReadOn ==
  ASSUME NEW s \in Seq(0 .. 10), NEW base \in Nat \ {0},
         NEW i \in 0 .. Len(s) - 1, NEW r \in Int, Partly(s, base, i, r)
  PROVE  Partly(s, base, i + 1, wrap((r * base) + s[i + 1]))
<1> DEFINE n == Len(s)
           w == Weights(base, n)
           k == n - i
           c == s[i + 1]
           t == (r * base) + c
<1> SUFFICES ASSUME NEW v, Summed(s, base, v), v[n] <= INT_MAX
             PROVE  /\ wrap(t) \in Nat
                    /\ wrap(t) * w[n - (i + 1)] + v[n - (i + 1)] = v[n]
  BY DEF Partly
<1>0. /\ n \in Nat /\ i + 1 \in 1 .. n /\ k \in 1 .. n
      /\ n + 1 - k = i + 1 /\ k - 1 = n - (i + 1) /\ k - 1 \in 0 .. n
      /\ k \in 0 .. n /\ n \in 0 .. n
      /\ INT_MAX \in Nat
  BY ParseAssumption
<1>1. Weighted(base, n, w)
  BY <1>0, WeightsAre
<1>c. c \in Nat
  <2>1. c \in 0 .. 10
    BY <1>0
  <2> HIDE DEF c
  <2> QED BY ONLY <2>1
<1> HIDE DEF n, w, c
<1>2. w[k] = base * w[k - 1] /\ w[k - 1] \in Nat /\ w[k - 1] # 0
  BY <1>0, <1>1 DEF Weighted
<1>3. v[k] = v[k - 1] + c * w[k - 1] /\ v[k - 1] \in Nat /\ v[n] \in Nat
  <2>1. \A j \in 1 .. n : v[j] = v[j - 1] + s[n + 1 - j] * w[j - 1]
    BY DEF Summed, n, w
  <2>2. \A j \in 0 .. n : v[j] \in Nat
    BY DEF Summed, n
  <2>3. v[k] = v[k - 1] + s[n + 1 - k] * w[k - 1]
    BY <2>1, <1>0
  <2> QED BY <2>2, <2>3, <1>0 DEF c
<1>4. r * w[k] + v[k] = v[n] /\ r \in Nat
  BY DEF Partly, n, w
<1>t. t \in Nat
  BY <1>c, <1>4
<1> DEFINE x == w[k - 1]
           y == v[k - 1]
<1> HIDE DEF t
<1>5. t * x + y = v[n]
  <2>1. r * (base * x) + (y + c * x) = v[n]
    BY <1>2, <1>3, <1>4
  <2>2. x \in Nat /\ y \in Nat /\ c \in Nat
    BY <1>c, <1>2, <1>3
  <2> HIDE DEF x, y, k
  <2>3. r * (base * x) = (r * base) * x
    BY <2>2
  <2>4. ((r * base) + c) * x = (r * base) * x + c * x
    BY <2>2
  <2>5. (r * base) * x \in Int /\ c * x \in Int
    BY <2>2
  <2> QED BY <2>1, <2>2, <2>3, <2>4, <2>5 DEF t
<1>6. t <= INT_MAX
  <2>1. x \in Nat /\ x # 0 /\ y \in Nat /\ v[n] \in Nat /\ v[n] <= INT_MAX
    BY <1>2, <1>3
  <2> HIDE DEF x, y, k
  <2>2. t * x >= t /\ t * x \in Nat
    BY ONLY <2>1, <1>t
  <2> DEFINE z == t * x
  <2>3. z >= t /\ z \in Nat /\ z + y = v[n]
    BY <2>2, <1>5
  <2> HIDE DEF z
  <2> QED BY ONLY <2>1, <2>3, <1>t, <1>0
<1>7. wrap(t) = t
  <2> DEFINE m == INT_MAX
             d == 2 * (m + 1)
             e == t + m + 1
  <2>1. m \in Nat /\ t <= m
    BY <1>0, <1>6
  <2>2. e \in 0 .. d - 1 /\ d \in Nat \ {0}
    BY ONLY <2>1, <1>t
  <2>3. e % d = e
    <3> HIDE DEF e, d
    <3> QED BY ONLY <2>2
  <2>4. wrap(t) = (e % d) - m - 1
    BY DEF wrap
  <2>5. e - m - 1 = t
    BY ONLY <2>1, <1>t
  <2> HIDE DEF e, d
  <2> QED BY <2>3, <2>4, <2>5
<1> QED BY <1>0, <1>t, <1>5, <1>7

(* The inductive invariant: the characters read are digits, and what they  *)
(* amount to is what the numeral's value leaves for the others.            *)
Reading ==
    /\ parse.string \in Strings \ {<< >>} /\ parse.base \in {8, 10}
    /\ parse.i \in 0 .. Len(parse.string)
    /\ \A k \in 1 .. parse.i : parse.string[k] < parse.base
    /\ Partly(parse.string, parse.base, parse.i, parse.result)

ParseInv ==
    /\ parse \in [string : Strings \cup {<< >>}, base : {0, 8, 10}, i : Nat,
                  result : Int, pc : {"idle", "digits", "done"}]
    /\ parse.pc = "digits" => Reading
    /\ ParsedRight

LEMMA InitParse ==
  ASSUME ParseInit
  PROVE  ParseInv
BY DEF ParseInit, NotParsing, ParseInv, ParsedRight

LEMMA StartParse ==
  ASSUME ParseInv, NEW s \in Strings, parseInt(s)
  PROVE  ParseInv'
<1>0. s \in Seq(0 .. 10)
  BY ParseAssumption
<1>1. CASE s = << >>
  <2>1. parse' = [string |-> << >>, base |-> 0, i |-> 0, result |-> -1, pc |-> "done"]
    BY <1>1 DEF parseInt, NotParsing
  <2> QED BY <2>1 DEF ParseInv, ParsedRight
<1>2. CASE s # << >>
  <2> DEFINE b == IF s[1] = 0 THEN 8 ELSE 10
  <2>1. parse' = [string |-> s, base |-> b, i |-> 0, result |-> 0, pc |-> "digits"]
    BY <1>2 DEF parseInt, NotParsing
  <2>2. Partly(s, b, 0, 0)
    <3> SUFFICES ASSUME NEW v, Summed(s, b, v), v[Len(s)] <= INT_MAX
                 PROVE  /\ 0 \in Nat
                        /\ 0 * Weights(b, Len(s))[Len(s) - 0] + v[Len(s) - 0] = v[Len(s)]
      BY DEF Partly
    <3>1. b \in Nat \ {0} /\ Len(s) \in Nat /\ Len(s) - 0 = Len(s)
      BY <1>0
    <3> HIDE DEF b
    <3>2. Weights(b, Len(s))[Len(s)] \in Nat
      <4>1. Weighted(b, Len(s), Weights(b, Len(s)))
        BY <3>1, WeightsAre
      <4> QED BY <4>1, <3>1 DEF Weighted
    <3>3. v[Len(s)] \in Nat
      BY <3>1 DEF Summed
    <3> QED BY <3>1, <3>2, <3>3
  <2>3. b \in {8, 10} /\ 0 \in 0 .. Len(s)
    BY <1>0
  <2> HIDE DEF b
  <2>4. Reading'
    BY <1>2, <2>1, <2>2, <2>3 DEF Reading
  <2>5. ParsedRight'
    BY <2>1 DEF ParsedRight
  <2> QED BY <2>1, <2>3, <2>4, <2>5 DEF ParseInv
<1> QED BY <1>1, <1>2

LEMMA NextKeepsParse ==
  ASSUME ParseInv, NEW d \in {8, 10}, NextCharacter(d, d)
  PROVE  ParseInv'
<1> DEFINE s == parse.string
           i == parse.i
           r == parse.result
           n == Len(s)
           c == s[i + 1]
<1>0. /\ s \in Strings /\ s # << >> /\ s \in Seq(0 .. 10) /\ n \in Nat /\ i \in 0 .. n
      /\ \A k \in 1 .. i : s[k] < d
      /\ Partly(s, d, i, r) /\ r \in Int
      /\ parse.pc = "digits" /\ parse.base = d
      /\ parse = [string |-> s, base |-> d, i |-> i, result |-> r, pc |-> "digits"]
  <2>1. parse.pc = "digits" /\ parse.base = d
    BY DEF NextCharacter
  <2>2. Reading /\ r \in Int
        /\ parse = [string |-> s, base |-> parse.base, i |-> i, result |-> r,
                    pc |-> parse.pc]
    BY <2>1 DEF ParseInv
  <2> QED BY <2>1, <2>2, ParseAssumption DEF Reading
<1>1. parse' = IF i = n THEN [parse EXCEPT !.pc = "done"]
               ELSE IF c >= d THEN [parse EXCEPT !.result = -1, !.pc = "done"]
               ELSE [parse EXCEPT !.result = wrap((r * d) + c), !.i = i + 1]
  BY <1>0 DEF NextCharacter
<1> HIDE DEF n, s, i, r, c
<1>2. CASE i = n
  <2>1. parse' = [string |-> s, base |-> d, i |-> i, result |-> r, pc |-> "done"]
    BY <1>0, <1>1, <1>2
  <2>2. ASSUME s # << >>, NumeralValue(s, d) <= INT_MAX
        PROVE  r = NumeralValue(s, d)
    <3>1. PICK v : Summed(s, d, v) /\ NumeralValue(s, d) = v[n]
      BY <1>0, SumsAre DEF n
    <3>2. r \in Nat /\ r * Weights(d, n)[n - i] + v[n - i] = v[n]
      BY <2>2, <3>1, <1>0 DEF Partly, n
    <3>3. n - i = 0 /\ Weights(d, n)[0] = 1 /\ v[0] = 0
      <4>1. Weighted(d, n, Weights(d, n))
        <5>1. d \in Nat \ {0}
          OBVIOUS
        <5> QED BY <5>1, <1>0, WeightsAre
      <4> QED BY <4>1, <1>0, <1>2, <3>1 DEF Weighted, Summed
    <3> QED BY <3>1, <3>2, <3>3
  <2>3. ~(\E k \in DOMAIN s : s[k] >= d)
    <3>1. DOMAIN s = 1 .. n /\ \A k \in 1 .. n : s[k] \in Nat /\ s[k] < d
      <4>1. \A k \in 1 .. n : s[k] \in 0 .. 10
        BY <1>0 DEF n
      <4> QED BY <4>1, <1>0, <1>2 DEF n
    <3> QED BY <3>1
  <2>4. s # << >>
    BY <1>0
  <2>5. ParsedRight'
    BY <2>1, <2>2, <2>3, <2>4 DEF ParsedRight
  <2> QED BY <2>1, <2>5, <1>0 DEF ParseInv
<1>3. CASE i # n /\ c >= d
  <2>1. parse' = [string |-> s, base |-> d, i |-> i, result |-> -1, pc |-> "done"]
    <3>1. parse' = [parse EXCEPT !.result = -1, !.pc = "done"]
      BY <1>1, <1>3, Zenon
    <3>2. parse = [string |-> s, base |-> d, i |-> i, result |-> r, pc |-> "digits"]
      BY <1>0
    <3> QED BY ONLY <3>1, <3>2
  <2>2. ~(\A k \in DOMAIN s : s[k] < d)
    <3>1. i + 1 \in DOMAIN s /\ s[i + 1] \in 0 .. 10
      BY <1>0, <1>3 DEF n
    <3> QED BY <3>1, <1>3 DEF c
  <2>3. ParsedRight'
    BY <2>1, <2>2 DEF ParsedRight
  <2> QED BY <2>1, <2>3, <1>0 DEF ParseInv
<1>4. CASE i # n /\ ~(c >= d)
  <2> DEFINE t == wrap((r * d) + c)
  <2>1. parse' = [string |-> s, base |-> d, i |-> i + 1, result |-> t, pc |-> "digits"]
    <3>1. parse' = [parse EXCEPT !.result = t, !.i = i + 1]
      BY <1>1, <1>4, Zenon
    <3>2. parse = [string |-> s, base |-> d, i |-> i, result |-> r, pc |-> "digits"]
      BY <1>0
    <3> HIDE DEF t
    <3> QED BY ONLY <3>1, <3>2
  <2>2. c \in 0 .. 10 /\ i \in 0 .. n - 1 /\ i + 1 \in 0 .. n
    BY <1>0, <1>4 DEF n, c
  <2>3. Partly(s, d, i + 1, t)
    <3>1. d \in Nat \ {0}
      OBVIOUS
    <3> QED BY <3>1, <2>2, <1>0, ReadOn DEF n, c
  <2>4. \A k \in 1 .. i + 1 : s[k] < d
    <3>1. \A k \in 1 .. i + 1 : k = i + 1 \/ k \in 1 .. i
      BY <1>0
    <3>2. s[i + 1] < d
      BY <2>2, <1>4 DEF c
    <3> QED BY <3>1, <3>2, <1>0
  <2>5. t \in Int
    <3>1. (r * d) + c \in Int /\ 2 * (INT_MAX + 1) \in Nat \ {0} /\ INT_MAX \in Nat
      BY <1>0, <2>2, ParseAssumption
    <3> QED BY <3>1 DEF wrap
  <2> HIDE DEF t
  <2>6. Reading'
    BY <2>1, <2>2, <2>3, <2>4, <1>0 DEF Reading, n
  <2>7. ParsedRight'
    BY <2>1 DEF ParsedRight
  <2> QED BY <2>1, <2>2, <2>5, <2>6, <2>7, <1>0 DEF ParseInv
<1> QED BY <1>2, <1>3, <1>4

(* parseInt gives every numeral its value, for any strings and any largest *)
(* int: what it adds up from the left is the sum by the weights from the   *)
(* right, and it never wraps around on the way to a value that is an int.  *)
THEOREM ParsesRight == ParseSpec => []ParsedRight
<1>1. ParseInit => ParseInv
  BY InitParse
<1>2. ParseInv /\ [ParseNext]_parse => ParseInv'
  <2> SUFFICES ASSUME ParseInv, [ParseNext]_parse PROVE ParseInv'
    OBVIOUS
  <2>1. ASSUME NEW s \in Strings, parseInt(s) PROVE ParseInv'
    BY <2>1, StartParse
  <2>2. CASE calculateOctal
    BY <2>2, NextKeepsParse DEF calculateOctal
  <2>3. CASE calculateDecimal
    BY <2>3, NextKeepsParse DEF calculateDecimal
  <2>4. CASE UNCHANGED parse
    BY <2>4 DEF ParseInv, Reading, ParsedRight
  <2> QED BY <2>1, <2>2, <2>3, <2>4 DEF ParseNext
<1>3. ParseInv => ParsedRight
  BY DEF ParseInv
<1> QED BY <1>1, <1>2, <1>3, PTL DEF ParseSpec
-----------------------------------------------------------------------------
(* The paging experiment.  The memory is a sequence, in which pages are    *)
(* appended and from which they are taken.                                 *)
(* w is m without its page at i, and with p at the end.                    *)
Moved(w, m, i, p) == /\ w \in Seq(Int) /\ Len(w) = Len(m) /\ w[Len(m)] = p
                     /\ \A j \in 1 .. i - 1 : w[j] = m[j]
                     /\ \A j \in i .. Len(m) - 1 : w[j] = m[j + 1]

LEMMA Joined ==
  ASSUME NEW a \in Seq(Int), NEW b \in Seq(Int)
  PROVE  /\ a \o b \in Seq(Int) /\ Len(a \o b) = Len(a) + Len(b)
         /\ \A j \in 1 .. Len(a) : (a \o b)[j] = a[j]
         /\ \A j \in Len(a) + 1 .. Len(a) + Len(b) : (a \o b)[j] = b[j - Len(a)]
<1>1. a \o b \in Seq(Int)
  BY ONLY a \in Seq(Int), b \in Seq(Int)
<1>2. Len(a \o b) = Len(a) + Len(b)
  BY ONLY a \in Seq(Int), b \in Seq(Int)
<1>3. \A j \in 1 .. Len(a) : (a \o b)[j] = a[j]
  BY ONLY a \in Seq(Int), b \in Seq(Int)
<1>4. \A j \in Len(a) + 1 .. Len(a) + Len(b) : (a \o b)[j] = b[j - Len(a)]
  BY ONLY a \in Seq(Int), b \in Seq(Int)
<1> QED BY <1>1, <1>2, <1>3, <1>4

LEMMA MovedIs ==
  ASSUME NEW m \in Seq(Int), NEW i \in 1 .. Len(m), NEW p \in Int
  PROVE  Moved(Append(RemoveAt(m, i), p), m, i, p)
<1> DEFINE a == SubSeq(m, 1, i - 1)
           b == SubSeq(m, i + 1, Len(m))
           c == a \o b
           w == Append(c, p)
<1>1. Len(m) \in Nat /\ i \in Nat
  OBVIOUS
<1>2. /\ a \in Seq(Int) /\ Len(a) = i - 1
      /\ \A j \in 1 .. i - 1 : a[j] = m[j]
  OBVIOUS
<1>3. /\ b \in Seq(Int) /\ Len(b) = Len(m) - i
      /\ \A j \in 1 .. Len(m) - i : b[j] = m[i + j]
  OBVIOUS
<1> HIDE DEF a, b
<1>4. /\ c \in Seq(Int) /\ Len(c) = Len(m) - 1
      /\ \A j \in 1 .. i - 1 : c[j] = a[j]
      /\ \A j \in i .. Len(m) - 1 : c[j] = b[j - (i - 1)]
  <2>0. /\ c \in Seq(Int) /\ Len(c) = Len(a) + Len(b)
        /\ \A j \in 1 .. Len(a) : c[j] = a[j]
        /\ \A j \in Len(a) + 1 .. Len(a) + Len(b) : c[j] = b[j - Len(a)]
    BY <1>2, <1>3, Joined
  <2> HIDE DEF c
  <2>1. c \in Seq(Int) /\ Len(c) = Len(a) + Len(b)
    BY <2>0
  <2>2. Len(c) = Len(m) - 1
    BY <2>1, <1>1, <1>2, <1>3
  <2>3. \A j \in 1 .. i - 1 : c[j] = a[j]
    BY <2>0, <1>2
  <2>4. \A j \in i .. Len(m) - 1 : c[j] = b[j - (i - 1)]
    <3>1. Len(a) + 1 = i /\ Len(a) + Len(b) = Len(m) - 1 /\ Len(a) = i - 1
      BY <1>1, <1>2, <1>3
    <3> QED BY <2>0, <3>1
  <2> QED BY <2>1, <2>2, <2>3, <2>4
<1>5. \A j \in i .. Len(m) - 1 : c[j] = m[j + 1]
  <2> SUFFICES ASSUME NEW j \in i .. Len(m) - 1 PROVE c[j] = m[j + 1]
    OBVIOUS
  <2>1. j - (i - 1) \in 1 .. Len(m) - i /\ i + (j - (i - 1)) = j + 1
    BY <1>1
  <2>2. b[j - (i - 1)] = m[i + (j - (i - 1))]
    BY <2>1, <1>3
  <2> QED BY <2>1, <2>2, <1>4
<1>6. \A j \in 1 .. i - 1 : c[j] = m[j]
  BY <1>2, <1>4
<1> HIDE DEF c
<1>7. /\ w \in Seq(Int) /\ Len(w) = Len(m) /\ w[Len(m)] = p
      /\ \A j \in 1 .. Len(m) - 1 : w[j] = c[j]
  BY <1>1, <1>4
<1>8. w = Append(RemoveAt(m, i), p)
  BY DEF w, c, a, b, RemoveAt
<1> HIDE DEF w
<1>9. \A j \in 1 .. i - 1 : w[j] = m[j]
  <2> SUFFICES ASSUME NEW j \in 1 .. i - 1 PROVE w[j] = m[j]
    OBVIOUS
  <2>1. j \in 1 .. Len(m) - 1
    BY <1>1
  <2> QED BY <2>1, <1>6, <1>7
<1>10. \A j \in i .. Len(m) - 1 : w[j] = m[j + 1]
  <2> SUFFICES ASSUME NEW j \in i .. Len(m) - 1 PROVE w[j] = m[j + 1]
    OBVIOUS
  <2>1. j \in 1 .. Len(m) - 1
    BY <1>1
  <2> QED BY <2>1, <1>5, <1>7
<1>11. Moved(w, m, i, p)
  BY <1>7, <1>9, <1>10 DEF Moved
<1> QED BY <1>8, <1>11

(* The first place of a page that is in memory once is its only one.       *)
LEMMA FirstIsOnly ==
  ASSUME NEW m \in Seq(Int), IsInjective(m), NEW i \in 1 .. Len(m)
  PROVE  RemoveFirst(m, m[i]) = RemoveAt(m, i)
<1> DEFINE I == {k \in 1 .. Len(m) : m[k] = m[i]}
<1>1. I = {i}
  <2>1. \A k \in 1 .. Len(m) : m[k] = m[i] => k = i
    BY DEF IsInjective
  <2> QED BY <2>1
<1>2. Min({i}) = i
  BY DEF Min
<1>3. SelectInSeq(m, LAMBDA v : v = m[i]) = IF I # {} THEN Min(I) ELSE 0
  BY DEF SelectInSeq
<1>4. SelectInSeq(m, LAMBDA v : v = m[i]) = i
  BY <1>1, <1>2, <1>3
<1> QED BY <1>4 DEF RemoveFirst

(* Where the page at a of the new memory was before.                       *)
Before(i, a) == IF a < i THEN a ELSE a + 1

Brought(w, m, i) ==
    /\ \A a \in 1 .. Len(m) - 1 : /\ Before(i, a) \in (1 .. Len(m)) \ {i}
                                  /\ w[a] = m[Before(i, a)]
    /\ \A a, b \in 1 .. Len(m) - 1 : a < b => Before(i, a) < Before(i, b)
    /\ \A k \in (1 .. Len(m)) \ {i} : \E a \in 1 .. Len(m) - 1 : Before(i, a) = k

LEMMA MovedFrom ==
  ASSUME NEW m \in Seq(Int), NEW i \in 1 .. Len(m), NEW p \in Int, NEW w,
         Moved(w, m, i, p)
  PROVE  Brought(w, m, i)
<1>0. Len(m) \in Nat /\ i \in 1 .. Len(m)
  OBVIOUS
<1>1. ASSUME NEW a \in 1 .. Len(m) - 1
      PROVE  Before(i, a) \in (1 .. Len(m)) \ {i} /\ w[a] = m[Before(i, a)]
  <2>1. CASE a < i
    <3>1. Before(i, a) = a /\ a \in 1 .. i - 1
      BY <2>1, <1>0 DEF Before
    <3> QED BY <3>1, <1>0 DEF Moved
  <2>2. CASE ~(a < i)
    <3>1. Before(i, a) = a + 1 /\ a \in i .. Len(m) - 1
      BY <2>2, <1>0 DEF Before
    <3>2. a + 1 \in (1 .. Len(m)) \ {i}
      BY <3>1, <1>0
    <3> QED BY <3>1, <3>2 DEF Moved
  <2> QED BY <2>1, <2>2
<1>2. \A a, b \in 1 .. Len(m) - 1 : a < b => Before(i, a) < Before(i, b)
  BY ONLY <1>0 DEF Before
<1>3. ASSUME NEW k \in (1 .. Len(m)) \ {i}
      PROVE  \E a \in 1 .. Len(m) - 1 : Before(i, a) = k
  <2>1. CASE k < i
    <3>1. k \in 1 .. Len(m) - 1 /\ Before(i, k) = k
      BY <2>1, <1>0 DEF Before
    <3> QED BY <3>1
  <2>2. CASE ~(k < i)
    <3>1. k - 1 \in 1 .. Len(m) - 1 /\ Before(i, k - 1) = k
      BY <2>2, <1>0 DEF Before
    <3> QED BY <3>1
  <2> QED BY <2>1, <2>2
<1> QED BY <1>1, <1>2, <1>3 DEF Brought

(* The pages that are then in memory, and that they are different.         *)
LEMMA MovedRange ==
  ASSUME NEW m \in Seq(Int), IsInjective(m), NEW i \in 1 .. Len(m), NEW p \in Int,
         NEW w, Moved(w, m, i, p), p \notin Range(m) \ {m[i]}
  PROVE  /\ IsInjective(w)
         /\ Range(w) = (Range(m) \ {m[i]}) \cup {p}
<1> DEFINE o(a) == Before(i, a)
<1>0. /\ Len(m) \in Nat /\ Len(m) \in 1 .. Len(m)
      /\ DOMAIN w = 1 .. Len(m) /\ DOMAIN m = 1 .. Len(m)
      /\ w[Len(m)] = p /\ i \in 1 .. Len(m)
  BY DEF Moved
<1>1. \A a \in 1 .. Len(m) - 1 : o(a) \in (1 .. Len(m)) \ {i} /\ w[a] = m[o(a)]
  BY MovedFrom DEF Brought
<1>2. \A a, b \in 1 .. Len(m) - 1 : a < b => o(a) < o(b)
  BY MovedFrom DEF Brought
<1>3. \A k \in (1 .. Len(m)) \ {i} : \E a \in 1 .. Len(m) - 1 : o(a) = k
  BY MovedFrom DEF Brought
<1>4. ASSUME NEW k \in (1 .. Len(m)) \ {i}
      PROVE  m[k] \in Range(m) \ {m[i]} /\ m[k] # p
  <2>1. m[k] \in Range(m) /\ m[k] # m[i]
    BY <1>0 DEF Range, IsInjective
  <2> QED BY <2>1
<1>5. \A a \in 1 .. Len(m) - 1 : w[a] \in Range(m) \ {m[i]} /\ w[a] # p
  BY <1>1, <1>4
<1>6. ASSUME NEW a \in DOMAIN w, NEW b \in DOMAIN w, w[a] = w[b], a < b
      PROVE  FALSE
  <2>1. a \in 1 .. Len(m) - 1 /\ b \in 1 .. Len(m)
    BY <1>0, <1>6
  <2>2. CASE b = Len(m)
    BY <2>1, <2>2, <1>0, <1>5, <1>6
  <2>3. CASE b # Len(m)
    <3>1. b \in 1 .. Len(m) - 1
      BY <2>1, <2>3, <1>0
    <3>2. m[o(a)] = m[o(b)] /\ o(a) \in DOMAIN m /\ o(b) \in DOMAIN m
      BY <3>1, <2>1, <1>0, <1>1, <1>6
    <3>3. o(a) = o(b)
      BY <3>2 DEF IsInjective
    <3>4. o(a) < o(b)
      BY <3>1, <2>1, <1>2, <1>6
    <3>5. o(a) \in Nat
      BY <3>2, <1>0
    <3> HIDE DEF o
    <3> QED BY <3>3, <3>4, <3>5
  <2> QED BY <2>2, <2>3
<1>7. IsInjective(w)
  <2>1. \A a, b \in DOMAIN w : w[a] = w[b] => ~(a < b) /\ ~(b < a)
    BY <1>6
  <2>2. \A a, b \in DOMAIN w : ~(a < b) /\ ~(b < a) => a = b
    BY <1>0
  <2> QED BY <2>1, <2>2 DEF IsInjective
<1>8. Range(w) \subseteq (Range(m) \ {m[i]}) \cup {p}
  <2> SUFFICES ASSUME NEW a \in DOMAIN w
               PROVE  w[a] \in (Range(m) \ {m[i]}) \cup {p}
    BY DEF Range
  <2>1. a = Len(m) \/ a \in 1 .. Len(m) - 1
    BY <1>0
  <2> QED BY <2>1, <1>0, <1>5
<1>9. (Range(m) \ {m[i]}) \cup {p} \subseteq Range(w)
  <2>1. p \in Range(w)
    BY <1>0 DEF Range
  <2>2. ASSUME NEW x \in Range(m) \ {m[i]} PROVE x \in Range(w)
    <3>1. PICK k \in 1 .. Len(m) : m[k] = x
      BY <1>0 DEF Range
    <3>2. k # i
      BY <3>1
    <3>3. PICK a \in 1 .. Len(m) - 1 : o(a) = k
      BY <3>2, <1>3
    <3>4. w[a] = x
      BY <3>1, <3>3, <1>1
    <3>5. a \in DOMAIN w
      BY <1>0
    <3> QED BY <3>4, <3>5 DEF Range
  <2> QED BY <2>1, <2>2
<1> QED BY <1>7, <1>8, <1>9

(* A memory of a size after the pages of a set have been used: they are    *)
(* different, no more than have room, and all of them while there is room. *)
Cached(m, size, used) == /\ m \in Seq(Int) /\ IsInjective(m)
                         /\ Range(m) \subseteq used
                         /\ Len(m) <= size
                         /\ Len(m) < size => used \subseteq Range(m)

LEMMA MovedCached ==
  ASSUME NEW m, NEW size \in Nat, NEW used, Cached(m, size, used),
         NEW i \in 1 .. Len(m), NEW p \in Int, NEW w, Moved(w, m, i, p),
         p \notin Range(m) \ {m[i]}, Len(m) = size \/ p = m[i]
  PROVE  /\ Cached(w, size, used \cup {p})
         /\ Range(w) = (Range(m) \ {m[i]}) \cup {p}
<1>1. m \in Seq(Int) /\ IsInjective(m) /\ Range(m) \subseteq used /\ Len(m) <= size
  BY DEF Cached
<1>2. IsInjective(w) /\ Range(w) = (Range(m) \ {m[i]}) \cup {p}
  BY <1>1, MovedRange
<1>3. w \in Seq(Int) /\ Len(w) = Len(m)
  BY DEF Moved
<1>4. m[i] \in Range(m)
  BY <1>1 DEF Range
<1>5. ASSUME Len(w) < size PROVE used \cup {p} \subseteq Range(w)
  <2>1. Len(m) < size /\ Len(m) # size
    BY <1>1, <1>3, <1>5
  <2>2. used \subseteq Range(m) /\ p = m[i]
    BY <2>1 DEF Cached
  <2> QED BY <2>2, <1>2, <1>4
<1>6. Cached(w, size, used \cup {p})
  <2>1. Range(w) \subseteq used \cup {p}
    BY <1>1, <1>2
  <2> QED BY <2>1, <1>1, <1>2, <1>3, <1>5 DEF Cached
<1> QED BY <1>2, <1>6

LEMMA AppendedCached ==
  ASSUME NEW m, NEW size \in Nat, NEW used, Cached(m, size, used),
         NEW p \in Int, p \notin Range(m), Len(m) # size
  PROVE  /\ Cached(Append(m, p), size, used \cup {p})
         /\ Range(Append(m, p)) = Range(m) \cup {p}
<1> DEFINE w == Append(m, p)
<1>1. /\ m \in Seq(Int) /\ IsInjective(m) /\ Range(m) \subseteq used
      /\ Len(m) <= size /\ Len(m) \in Nat
  BY DEF Cached
<1>2. /\ w \in Seq(Int) /\ Len(w) = Len(m) + 1 /\ w[Len(m) + 1] = p
      /\ \A j \in 1 .. Len(m) : w[j] = m[j]
  BY <1>1
<1> HIDE DEF w
<1>3. DOMAIN w = 1 .. Len(m) + 1 /\ DOMAIN m = 1 .. Len(m)
  BY <1>1, <1>2
<1>a. \A n \in Nat : /\ \A j \in 1 .. n + 1 : j = n + 1 \/ j \in 1 .. n
                     /\ \A j \in 1 .. n : j \in 1 .. n + 1
                     /\ n + 1 \in 1 .. n + 1
  BY ONLY TRUE
<1>4. \A j \in DOMAIN w : j = Len(m) + 1 \/ j \in DOMAIN m
  <2>1. \A j \in 1 .. Len(m) + 1 : j = Len(m) + 1 \/ j \in 1 .. Len(m)
    BY <1>1, <1>a
  <2> QED BY ONLY <2>1, <1>3
<1>5. \A j \in DOMAIN m : j \in DOMAIN w /\ w[j] = m[j] /\ m[j] \in Range(m)
  <2>1. \A j \in 1 .. Len(m) : j \in 1 .. Len(m) + 1
    BY <1>1, <1>a
  <2>2. \A j \in DOMAIN m : j \in DOMAIN w
    BY ONLY <2>1, <1>3
  <2>3. \A j \in DOMAIN m : w[j] = m[j]
    BY <1>2, <1>3
  <2>4. \A j \in DOMAIN m : m[j] \in Range(m)
    BY DEF Range
  <2> QED BY <2>2, <2>3, <2>4
<1>6. Len(m) + 1 \in DOMAIN w
  <2>1. Len(m) + 1 \in 1 .. Len(m) + 1
    BY <1>1, <1>a
  <2> QED BY ONLY <2>1, <1>3
<1>7. Range(w) = Range(m) \cup {p}
  <2>1. Range(w) \subseteq Range(m) \cup {p}
    BY <1>2, <1>4, <1>5 DEF Range
  <2>2. Range(m) \cup {p} \subseteq Range(w)
    BY <1>2, <1>5, <1>6 DEF Range
  <2> QED BY <2>1, <2>2
<1>8. IsInjective(w)
  <2> SUFFICES ASSUME NEW a \in DOMAIN w, NEW b \in DOMAIN w, w[a] = w[b]
               PROVE  a = b
    BY DEF IsInjective
  <2>1. CASE a \in DOMAIN m /\ b \in DOMAIN m
    BY <2>1, <1>1, <1>5 DEF IsInjective
  <2>2. CASE a \in DOMAIN m /\ b = Len(m) + 1
    BY <2>2, <1>2, <1>5
  <2>3. CASE b \in DOMAIN m /\ a = Len(m) + 1
    BY <2>3, <1>2, <1>5
  <2> QED BY <2>1, <2>2, <2>3, <1>4
<1>9. Len(w) <= size
  BY <1>1, <1>2
<1>10. used \cup {p} \subseteq Range(w)
  <2>1. Len(m) < size
    BY <1>1
  <2>2. used \subseteq Range(m)
    BY <2>1 DEF Cached
  <2> QED BY <2>2, <1>7
<1>11. Cached(w, size, used \cup {p})
  <2>1. Range(w) \subseteq used \cup {p}
    BY <1>1, <1>7
  <2> QED BY <2>1, <1>2, <1>8, <1>9, <1>10 DEF Cached
<1> QED BY <1>7, <1>11 DEF w

LEMMA UsedAgain ==
  ASSUME NEW m, NEW size \in Nat, NEW used, Cached(m, size, used), NEW p \in Range(m)
  PROVE  Cached(m, size, used \cup {p})
<1>1. used \cup {p} = used
  BY DEF Cached
<1> QED BY <1>1

LEMMA MinIs ==
  ASSUME NEW S \in SUBSET Nat, S # {}
  PROVE  Min(S) \in S /\ \A x \in S : Min(S) <= x
<1>1. \E x \in S : \A y \in S : x =< y
  BY LeastNat
<1> QED BY <1>1 DEF Min

LEMMA MaxIs ==
  ASSUME NEW k \in Nat, NEW S \in SUBSET (0 .. k), S # {}
  PROVE  Max(S) \in S /\ \A x \in S : x <= Max(S)
<1> DEFINE T == {j \in 0 .. k : k - j \in S}
<1>1. T \in SUBSET Nat /\ T # {}
  <2>1. PICK x \in S : TRUE
    OBVIOUS
  <2>2. x \in 0 .. k /\ k - x \in 0 .. k /\ k - (k - x) = x
    OBVIOUS
  <2>3. k - x \in T
    BY <2>2
  <2>4. T \in SUBSET Nat
    OBVIOUS
  <2> HIDE DEF T
  <2> QED BY <2>3, <2>4
<1>2. PICK j \in T : \A i \in T : j <= i
  <2> HIDE DEF T
  <2> QED BY <1>1, LeastNat
<1>3. k - j \in S /\ j \in 0 .. k
  OBVIOUS
<1>4. \A y \in S : k - j >= y
  <2> SUFFICES ASSUME NEW y \in S PROVE k - j >= y
    OBVIOUS
  <2>1. y \in 0 .. k /\ k - y \in 0 .. k /\ k - (k - y) = y
    OBVIOUS
  <2>2. k - y \in T
    BY <2>1
  <2> QED BY <2>1, <2>2, <1>2, <1>3
<1>5. \E x \in S : \A y \in S : x >= y
  BY <1>3, <1>4
<1>6. Max(S) \in S /\ \A y \in S : Max(S) >= y
  BY <1>5 DEF Max
<1>7. \A y \in S : y \in Int
  OBVIOUS
<1> QED BY <1>6, <1>7

(* The pages of the first k accesses of a list, and the last use of one.   *)
SeenBy(list, k)     == {list[i] : i \in 1 .. k}
LastUse(list, k, p) == Max({i \in 1 .. k : list[i] = p})

LEMMA LastUseIs ==
  ASSUME NEW list, NEW k \in Nat, NEW p \in SeenBy(list, k)
  PROVE  LastUse(list, k, p) \in 1 .. k
<1> DEFINE S == {i \in 1 .. k : list[i] = p}
<1>1. S \in SUBSET (0 .. k) /\ S # {}
  BY DEF SeenBy
<1>2. S \subseteq 1 .. k
  OBVIOUS
<1> HIDE DEF S
<1>3. Max(S) \in S
  BY <1>1, MaxIs
<1>4. LastUse(list, k, p) = Max(S)
  BY DEF LastUse, S
<1> QED BY <1>2, <1>3, <1>4

LEMMA UseMoves ==
  ASSUME NEW list, NEW k \in Nat
  PROVE  /\ SeenBy(list, k + 1) = SeenBy(list, k) \cup {list[k + 1]}
         /\ LastUse(list, k + 1, list[k + 1]) = k + 1
         /\ \A q \in SeenBy(list, k) :
               q # list[k + 1] => LastUse(list, k + 1, q) = LastUse(list, k, q)
<1>1. 1 .. k + 1 = (1 .. k) \cup {k + 1}
  OBVIOUS
<1>2. SeenBy(list, k + 1) = SeenBy(list, k) \cup {list[k + 1]}
  BY <1>1 DEF SeenBy
<1>3. LastUse(list, k + 1, list[k + 1]) = k + 1
  <2> DEFINE S == {i \in 1 .. k + 1 : list[i] = list[k + 1]}
  <2>1. S \in SUBSET (0 .. k + 1) /\ k + 1 \in S /\ S \subseteq 1 .. k + 1
    OBVIOUS
  <2> HIDE DEF S
  <2>2. Max(S) \in S /\ k + 1 <= Max(S)
    <3>1. k + 1 \in Nat /\ S # {}
      BY <2>1
    <3> QED BY <2>1, <3>1, MaxIs
  <2>3. Max(S) \in 1 .. k + 1
    BY <2>1, <2>2
  <2>4. Max(S) = k + 1
    BY <2>2, <2>3
  <2> QED BY <2>4 DEF LastUse, S
<1>4. ASSUME NEW q, q # list[k + 1]
      PROVE  LastUse(list, k + 1, q) = LastUse(list, k, q)
  <2>1. {i \in 1 .. k + 1 : list[i] = q} = {i \in 1 .. k : list[i] = q}
    BY <1>1, <1>4
  <2> QED BY <2>1 DEF LastUse
<1> QED BY <1>2, <1>3, <1>4

(* The pages of a memory are in the order of their last use, and those     *)
(* that are no longer in it were used before.                              *)
InOrder(m, list, k) ==
    \A a, b \in DOMAIN m :
       a < b => LastUse(list, k, m[a]) < LastUse(list, k, m[b])
GoneBefore(m, list, k) ==
    \A p \in SeenBy(list, k) \ Range(m), q \in Range(m) :
       LastUse(list, k, p) < LastUse(list, k, q)

(* The pages of w are n of those of m, from the places o, and then p.      *)
Followed(w, m, p, n, o) == /\ n \in Nat /\ DOMAIN w = 1 .. n + 1 /\ w[n + 1] = p
                           /\ o \in [1 .. n -> DOMAIN m]
                           /\ \A a \in 1 .. n : w[a] = m[o[a]] /\ w[a] # p
                           /\ \A a, b \in 1 .. n : a < b => o[a] < o[b]

(* The next page is used: it comes last, and the others stay in order.     *)
LEMMA NextInOrder ==
  ASSUME NEW list, NEW k \in Nat, NEW m, Range(m) \subseteq SeenBy(list, k),
         InOrder(m, list, k), NEW w, NEW n, NEW o,
         Followed(w, m, list[k + 1], n, o)
  PROVE  InOrder(w, list, k + 1)
<1> DEFINE p == list[k + 1]
<1>0. /\ n \in Nat /\ DOMAIN w = 1 .. n + 1 /\ w[n + 1] = p
      /\ o \in [1 .. n -> DOMAIN m]
      /\ \A a \in 1 .. n : w[a] = m[o[a]] /\ w[a] # p
      /\ \A a, b \in 1 .. n : a < b => o[a] < o[b]
  BY DEF Followed
<1>1. ASSUME NEW a \in 1 .. n
      PROVE  /\ w[a] \in SeenBy(list, k)
             /\ LastUse(list, k + 1, w[a]) = LastUse(list, k, w[a])
             /\ LastUse(list, k, w[a]) \in 1 .. k
  <2>1. m[o[a]] \in Range(m)
    BY <1>0 DEF Range
  <2>2. w[a] \in SeenBy(list, k) /\ w[a] # p
    BY <2>1, <1>0
  <2> QED BY <2>2, UseMoves, LastUseIs
<1>2. LastUse(list, k + 1, p) = k + 1
  BY UseMoves
<1> SUFFICES ASSUME NEW a \in DOMAIN w, NEW b \in DOMAIN w, a < b
             PROVE  LastUse(list, k + 1, w[a]) < LastUse(list, k + 1, w[b])
  BY DEF InOrder
<1>3. a \in 1 .. n /\ (b \in 1 .. n \/ b = n + 1)
  BY <1>0
<1>4. CASE b = n + 1
  <2>1. LastUse(list, k + 1, w[b]) = k + 1
    BY <1>4, <1>2, <1>0
  <2>2. LastUse(list, k + 1, w[a]) \in 1 .. k
    BY <1>1, <1>3
  <2> QED BY <2>1, <2>2, <1>0
<1>5. CASE b \in 1 .. n
  <2>1. o[a] \in DOMAIN m /\ o[b] \in DOMAIN m /\ o[a] < o[b]
    BY <1>3, <1>5, <1>0
  <2>2. LastUse(list, k, m[o[a]]) < LastUse(list, k, m[o[b]])
    BY <2>1 DEF InOrder
  <2>3. w[a] = m[o[a]] /\ w[b] = m[o[b]]
    BY <1>3, <1>5, <1>0
  <2> QED BY <2>2, <2>3, <1>1, <1>3, <1>5
<1> QED BY <1>3, <1>4, <1>5

(* Who was gone stays gone, and those evicted were the first.              *)
LEMMA NextGone ==
  ASSUME NEW list, NEW k \in Nat, NEW m, Range(m) \subseteq SeenBy(list, k),
         GoneBefore(m, list, k), NEW w, NEW out,
         Range(w) = (Range(m) \ out) \cup {list[k + 1]},
         \A x \in Range(m) \cap out, q \in Range(m) \ out :
             LastUse(list, k, x) < LastUse(list, k, q)
  PROVE  GoneBefore(w, list, k + 1)
<1> DEFINE p == list[k + 1]
<1> SUFFICES ASSUME NEW x \in SeenBy(list, k + 1) \ Range(w), NEW q \in Range(w)
             PROVE  LastUse(list, k + 1, x) < LastUse(list, k + 1, q)
  BY DEF GoneBefore
<1>1. x # p /\ x \in SeenBy(list, k)
  BY UseMoves
<1>2. LastUse(list, k + 1, x) = LastUse(list, k, x) /\ LastUse(list, k, x) \in 1 .. k
  BY <1>1, UseMoves, LastUseIs
<1>3. CASE q = p
  <2>1. LastUse(list, k + 1, q) = k + 1
    BY <1>3, UseMoves
  <2> QED BY <2>1, <1>2
<1>4. CASE q # p
  <2>1. q \in Range(m) /\ q \notin out /\ q \in SeenBy(list, k)
    BY <1>4
  <2>2. LastUse(list, k + 1, q) = LastUse(list, k, q)
    BY <2>1, <1>4, UseMoves
  <2>3. CASE x \in Range(m)
    <3>1. x \in out
      BY <2>3, <1>1
    <3> QED BY <3>1, <2>1, <2>2, <2>3, <1>2
  <2>4. CASE x \notin Range(m)
    <3>1. LastUse(list, k, x) < LastUse(list, k, q)
      BY <2>1, <2>4, <1>1 DEF GoneBefore
    <3> QED BY <3>1, <2>2, <1>2
  <2> QED BY <2>3, <2>4
<1> QED BY <1>3, <1>4

LEMMA MovedRecent ==
  ASSUME NEW list, NEW k \in Nat, list[k + 1] \in Int, NEW size, NEW m,
         Cached(m, size, SeenBy(list, k)), InOrder(m, list, k), GoneBefore(m, list, k),
         NEW i \in 1 .. Len(m), NEW w, Moved(w, m, i, list[k + 1]),
         list[k + 1] \notin Range(m) \ {m[i]}, list[k + 1] = m[i] \/ i = 1
  PROVE  InOrder(w, list, k + 1) /\ GoneBefore(w, list, k + 1)
<1> DEFINE p == list[k + 1]
           n == Len(m) - 1
           o == [a \in 1 .. n |-> Before(i, a)]
<1>1. /\ m \in Seq(Int) /\ IsInjective(m) /\ Range(m) \subseteq SeenBy(list, k)
      /\ Len(m) \in Nat /\ DOMAIN m = 1 .. Len(m) /\ Len(m) >= 1
  BY DEF Cached
<1>2. /\ \A a \in 1 .. n : /\ Before(i, a) \in (1 .. Len(m)) \ {i}
                           /\ w[a] = m[Before(i, a)]
      /\ \A a, b \in 1 .. n : a < b => Before(i, a) < Before(i, b)
  <2>1. Brought(w, m, i)
    BY <1>1, MovedFrom
  <2> QED BY <2>1 DEF Brought
<1>3. Range(w) = (Range(m) \ {m[i]}) \cup {p}
  BY <1>1, MovedRange
<1>4. DOMAIN w = 1 .. n + 1 /\ w[n + 1] = p /\ n \in Nat
  <2>1. n + 1 = Len(m) /\ n \in Nat
    BY <1>1
  <2>2. w \in Seq(Int) /\ Len(w) = Len(m) /\ w[Len(m)] = p
    BY DEF Moved
  <2> HIDE DEF n, p
  <2> QED BY <2>1, <2>2
<1>5. ASSUME NEW a \in 1 .. n PROVE w[a] # p
  <2>1. Before(i, a) \in DOMAIN m /\ Before(i, a) # i /\ w[a] = m[Before(i, a)]
    BY <1>1, <1>2
  <2>2. m[Before(i, a)] \in Range(m)
    BY <2>1 DEF Range
  <2>3. m[Before(i, a)] # m[i]
    BY <1>1, <2>1 DEF IsInjective
  <2> QED BY <2>1, <2>2, <2>3
<1>6. InOrder(w, list, k + 1)
  <2>1. o \in [1 .. n -> DOMAIN m]
    BY <1>1, <1>2
  <2>2. \A a \in 1 .. n : w[a] = m[o[a]] /\ w[a] # p
    BY <1>2, <1>5
  <2>3. \A a, b \in 1 .. n : a < b => o[a] < o[b]
    BY <1>2
  <2>4. Range(m) \subseteq SeenBy(list, k)
    BY <1>1
  <2>5. n \in Nat /\ DOMAIN w = 1 .. n + 1 /\ w[n + 1] = p
    BY <1>4
  <2> HIDE DEF o, n
  <2>6. Followed(w, m, list[k + 1], n, o)
    BY <2>1, <2>2, <2>3, <2>5 DEF Followed
  <2> QED BY <2>4, <2>6, NextInOrder
<1>7. GoneBefore(w, list, k + 1)
  <2>1. CASE p = m[i]
    <3>1. Range(w) = (Range(m) \ {}) \cup {p}
      BY <2>1, <1>3
    <3> QED BY <3>1, <1>1, NextGone
  <2>2. CASE i = 1
    <3>1. ASSUME NEW q \in Range(m) \ {m[1]}
          PROVE  LastUse(list, k, m[1]) < LastUse(list, k, q)
      <4>1. PICK j \in DOMAIN m : m[j] = q
        BY DEF Range
      <4>2. 1 < j /\ 1 \in DOMAIN m
        BY <4>1, <1>1
      <4> QED BY <4>1, <4>2 DEF InOrder
    <3>2. \A x \in Range(m) \cap {m[1]}, q \in Range(m) \ {m[1]} :
             LastUse(list, k, x) < LastUse(list, k, q)
      BY <3>1
    <3> QED BY <3>2, <2>2, <1>1, <1>3, NextGone
  <2> QED BY <2>1, <2>2
<1> QED BY <1>6, <1>7

LEMMA AppendedRecent ==
  ASSUME NEW list, NEW k \in Nat, list[k + 1] \in Int, NEW m \in Seq(Int),
         Range(m) \subseteq SeenBy(list, k), InOrder(m, list, k), GoneBefore(m, list, k),
         list[k + 1] \notin Range(m),
         Range(Append(m, list[k + 1])) = Range(m) \cup {list[k + 1]}
  PROVE  /\ InOrder(Append(m, list[k + 1]), list, k + 1)
         /\ GoneBefore(Append(m, list[k + 1]), list, k + 1)
<1> DEFINE p == list[k + 1]
           n == Len(m)
           w == Append(m, p)
           o == [a \in 1 .. n |-> a]
<1>1. n \in Nat /\ DOMAIN m = 1 .. n
  OBVIOUS
<1>2. /\ DOMAIN w = 1 .. n + 1 /\ w[n + 1] = p
      /\ \A a \in 1 .. n : w[a] = m[a] /\ m[a] \in Range(m)
  BY DEF Range
<1>3. o \in [1 .. n -> DOMAIN m]
  BY <1>1
<1>4. \A a \in 1 .. n : w[a] = m[o[a]] /\ w[a] # p
  BY <1>2
<1>5. \A a, b \in 1 .. n : a < b => o[a] < o[b]
  OBVIOUS
<1>6. Range(w) = (Range(m) \ {}) \cup {p}
  OBVIOUS
<1>7. GoneBefore(w, list, k + 1)
  <2> HIDE DEF w
  <2> QED BY <1>6, NextGone
<1>8. InOrder(w, list, k + 1)
  <2> HIDE DEF w, o, n
  <2>1. Followed(w, m, list[k + 1], n, o)
    BY <1>1, <1>2, <1>3, <1>4, <1>5 DEF Followed
  <2> QED BY <2>1, NextInOrder
<1> QED BY <1>7, <1>8

(* The lists that sim-paging.py makes are lists of numbers.                *)
PagesLoop(lines, f) ==
    f = [i \in 0 .. Len(lines) |->
            IF i = 0 THEN << >>
            ELSE IF IsAccess(lines[i])
              THEN Append(f[i - 1], lines[i].address \div PageSize)
              ELSE f[i - 1]]
DedupLoop(list, f) ==
    f = [i \in 0 .. Len(list) |->
            IF i = 0 THEN << >>
            ELSE IF i > 1 /\ list[i] = list[i - 1] THEN f[i - 1]
                                                  ELSE Append(f[i - 1], list[i])]

LEMMA ChosenPages ==
  ASSUME NEW lines, \E f : PagesLoop(lines, f)
  PROVE  \E f : PagesLoop(lines, f) /\ get_page_list(lines) = f[Len(lines)]
BY ZenonT(60) DEF get_page_list, PagesLoop

LEMMA ChosenDedup ==
  ASSUME NEW list, \E f : DedupLoop(list, f)
  PROVE  \E f : DedupLoop(list, f) /\ Dedup(list) = f[Len(list)]
BY ZenonT(60) DEF Dedup, DedupLoop

(* What a loop that starts with a list and makes lists of lists ends with. *)
LEMMA LoopEnds ==
  ASSUME NEW n \in Nat, NEW T, NEW f, f[0] \in T,
         \A i \in 1 .. n : f[i - 1] \in T => f[i] \in T
  PROVE  f[n] \in T
<1> DEFINE S == {i \in 0 .. n : f[i] \in T}
<1>1. 0 \in S
  OBVIOUS
<1>2. \A i \in 1 .. n : i - 1 \in S => i \in S
  OBVIOUS
<1> HIDE DEF S
<1>3. 0 .. n \subseteq S
  BY <1>1, <1>2, UpTo
<1>4. n \in S
  BY <1>3
<1> QED BY <1>4 DEF S

LEMMA PagesAre ==
  ASSUME NEW lines \in Traces
  PROVE  get_page_list(lines) \in Seq(Int)
<1> DEFINE Line == [parts : Nat, kind : STRING, address : Nat]
           n == Len(lines)
           at(i) == lines[i].address \div PageSize
           step == [x \in (1 .. n) \X Seq(Int) |->
                      IF IsAccess(lines[x[1]]) THEN Append(x[2], at(x[1])) ELSE x[2]]
<1>1. n \in Nat /\ \A i \in 1 .. n : at(i) \in Int
  <2>1. lines \in Seq(Line) /\ PageSize \in Nat \ {0}
    BY PagingAssumption
  <2>2. \A i \in 1 .. n : lines[i].address \in Nat
    <3>1. \A i \in 1 .. n : lines[i] \in Line
      <4> HIDE DEF Line
      <4> QED BY <2>1
    <3>2. \A l \in Line : l.address \in Nat
      OBVIOUS
    <3> HIDE DEF Line
    <3> QED BY <3>1, <3>2
  <2>3. \A a \in Nat : a \div PageSize \in Int
    BY ONLY <2>1
  <2> QED BY <2>1, <2>2, <2>3
<1> HIDE DEF n, at
<1>2. \A q \in Seq(Int), i \in 1 .. n : Append(q, at(i)) \in Seq(Int)
  BY <1>1
<1>3. step \in [(1 .. n) \X Seq(Int) -> Seq(Int)]
  <2>1. \A x \in (1 .. n) \X Seq(Int) :
           (IF IsAccess(lines[x[1]]) THEN Append(x[2], at(x[1])) ELSE x[2]) \in Seq(Int)
    BY <1>2
  <2> QED BY <2>1
<1>4. << >> \in Seq(Int)
  OBVIOUS
<1>5. PICK g : Computed(g, n, Seq(Int), << >>, step)
  <2> HIDE DEF step
  <2> QED BY ONLY <1>1, <1>3, <1>4, CanBeComputed
<1>6. /\ g \in [0 .. n -> Seq(Int)] /\ g[0] = << >>
      /\ \A i \in 1 .. n : g[i] = step[<<i, g[i - 1]>>]
  BY <1>5 DEF Computed
<1>7. ASSUME NEW i \in 1 .. n
      PROVE  g[i] = IF IsAccess(lines[i]) THEN Append(g[i - 1], at(i)) ELSE g[i - 1]
  <2>1. i - 1 \in 0 .. n
    BY <1>1
  <2>2. g[i - 1] \in Seq(Int)
    BY <2>1, <1>6
  <2>3. step[<<i, g[i - 1]>>]
           = IF IsAccess(lines[i]) THEN Append(g[i - 1], at(i)) ELSE g[i - 1]
    BY <2>2
  <2> QED BY <2>3, <1>6
<1>8. PagesLoop(lines, g)
  <2>1. ASSUME NEW i \in 0 .. n
        PROVE  g[i] = IF i = 0 THEN << >>
                      ELSE IF IsAccess(lines[i]) THEN Append(g[i - 1], at(i))
                                                 ELSE g[i - 1]
    <3>1. i = 0 \/ (i \in 1 .. n /\ i # 0)
      BY <1>1
    <3> QED BY <3>1, <1>6, <1>7
  <2>2. g = [i \in 0 .. n |->
               IF i = 0 THEN << >>
               ELSE IF IsAccess(lines[i]) THEN Append(g[i - 1], at(i)) ELSE g[i - 1]]
    BY <2>1, <1>6
  <2> QED BY <2>2 DEF PagesLoop, n, at
<1>9. PICK f : PagesLoop(lines, f) /\ get_page_list(lines) = f[Len(lines)]
  BY <1>8, ChosenPages
<1>10. f = [i \in 0 .. n |->
               IF i = 0 THEN << >>
               ELSE IF IsAccess(lines[i]) THEN Append(f[i - 1], at(i)) ELSE f[i - 1]]
  BY <1>9 DEF PagesLoop, n, at
<1>11. f[0] \in Seq(Int)
  BY <1>1, <1>10, <1>4
<1>12. ASSUME NEW i \in 1 .. n, f[i - 1] \in Seq(Int) PROVE f[i] \in Seq(Int)
  <2>1. i \in 0 .. n /\ i # 0
    BY <1>1
  <2>2. f[i] = IF IsAccess(lines[i]) THEN Append(f[i - 1], at(i)) ELSE f[i - 1]
    BY <2>1, <1>10
  <2> QED BY <2>2, <1>2, <1>12
<1>13. f[n] \in Seq(Int)
  BY ONLY <1>1, <1>11, <1>12, LoopEnds
<1> QED BY <1>9, <1>13 DEF n

LEMMA DedupComputed ==
  ASSUME NEW list \in Seq(Int)
  PROVE  \E f : DedupLoop(list, f)
<1> DEFINE n == Len(list)
           again(i) == i > 1 /\ list[i] = list[i - 1]
           step == [x \in (1 .. n) \X Seq(Int) |->
                      IF again(x[1]) THEN x[2] ELSE Append(x[2], list[x[1]])]
<1>1. n \in Nat /\ \A i \in 1 .. n : list[i] \in Int
  OBVIOUS
<1> HIDE DEF n, again
<1>2. \A q \in Seq(Int), i \in 1 .. n : Append(q, list[i]) \in Seq(Int)
  BY <1>1
<1>3. step \in [(1 .. n) \X Seq(Int) -> Seq(Int)]
  <2>1. \A x \in (1 .. n) \X Seq(Int) :
           (IF again(x[1]) THEN x[2] ELSE Append(x[2], list[x[1]])) \in Seq(Int)
    BY <1>2
  <2> QED BY <2>1
<1>4. << >> \in Seq(Int)
  OBVIOUS
<1>5. PICK g : Computed(g, n, Seq(Int), << >>, step)
  <2> HIDE DEF step
  <2> QED BY ONLY <1>1, <1>3, <1>4, CanBeComputed
<1>6. /\ g \in [0 .. n -> Seq(Int)] /\ g[0] = << >>
      /\ \A i \in 1 .. n : g[i] = step[<<i, g[i - 1]>>]
  BY <1>5 DEF Computed
<1>7. ASSUME NEW i \in 1 .. n
      PROVE  g[i] = IF again(i) THEN g[i - 1] ELSE Append(g[i - 1], list[i])
  <2>1. i - 1 \in 0 .. n
    BY <1>1
  <2>2. g[i - 1] \in Seq(Int)
    BY <2>1, <1>6
  <2>3. step[<<i, g[i - 1]>>]
           = IF again(i) THEN g[i - 1] ELSE Append(g[i - 1], list[i])
    BY <2>2
  <2> QED BY <2>3, <1>6
<1>8. DedupLoop(list, g)
  <2>1. ASSUME NEW i \in 0 .. n
        PROVE  g[i] = IF i = 0 THEN << >>
                      ELSE IF again(i) THEN g[i - 1] ELSE Append(g[i - 1], list[i])
    <3>1. i = 0 \/ (i \in 1 .. n /\ i # 0)
      BY <1>1
    <3> QED BY <3>1, <1>6, <1>7
  <2>2. g = [i \in 0 .. n |->
               IF i = 0 THEN << >>
               ELSE IF again(i) THEN g[i - 1] ELSE Append(g[i - 1], list[i])]
    BY <2>1, <1>6
  <2> QED BY <2>2 DEF DedupLoop, n, again
<1> QED BY <1>8

LEMMA DedupIs ==
  ASSUME NEW list \in Seq(Int)
  PROVE  Dedup(list) \in Seq(Int)
<1> DEFINE n == Len(list)
           again(i) == i > 1 /\ list[i] = list[i - 1]
<1>1. n \in Nat /\ \A i \in 1 .. n : list[i] \in Int
  OBVIOUS
<1>2. \A q \in Seq(Int), i \in 1 .. n : Append(q, list[i]) \in Seq(Int)
  BY <1>1
<1>4. << >> \in Seq(Int)
  OBVIOUS
<1>9. PICK f : DedupLoop(list, f) /\ Dedup(list) = f[Len(list)]
  BY DedupComputed, ChosenDedup
<1> HIDE DEF n, again
<1>10. f = [i \in 0 .. n |->
               IF i = 0 THEN << >>
               ELSE IF again(i) THEN f[i - 1] ELSE Append(f[i - 1], list[i])]
  BY <1>9 DEF DedupLoop, n, again
<1>11. f[0] \in Seq(Int)
  BY <1>1, <1>10, <1>4
<1>12. ASSUME NEW i \in 1 .. n, f[i - 1] \in Seq(Int) PROVE f[i] \in Seq(Int)
  <2>1. i \in 0 .. n /\ i # 0
    BY <1>1
  <2>2. f[i] = IF again(i) THEN f[i - 1] ELSE Append(f[i - 1], list[i])
    BY <2>1, <1>10
  <2> QED BY <2>2, <1>2, <1>12
<1>13. f[n] \in Seq(Int)
  BY ONLY <1>1, <1>11, <1>12, LoopEnds
<1> QED BY <1>9, <1>13 DEF n

(* What the driver keeps, and what is true of the simulation that runs.    *)
DriverRight == /\ pages \in Seq(Int) /\ output \in Seq(Int)
               /\ queue \in Seq((Nat \ {0}) \X PolicyNames)

Shaped(s) == s = [policy |-> s.policy, asStrings |-> s.asStrings,
                  addrList |-> s.addrList, size |-> s.size, memory |-> s.memory,
                  ref |-> s.ref, addrIndex |-> s.addrIndex, miss |-> s.miss]

SimTypes(s) == /\ s.policy \in PolicyNames /\ s.addrList \in Seq(Int)
               /\ s.size \in Nat \ {0} /\ s.addrIndex \in 0 .. Len(s.addrList)

Counted(s) == IF s.policy = "CLOCK" THEN Range(s.memory)
                                    ELSE SeenBy(s.addrList, s.addrIndex)

SimKeeps(s) ==
    /\ Cached(s.memory, s.size, SeenBy(s.addrList, s.addrIndex))
    /\ s.ref \in [Counted(s) -> 0 .. ClockBits]
    /\ s.policy = "LRU" => /\ InOrder(s.memory, s.addrList, s.addrIndex)
                           /\ GoneBefore(s.memory, s.addrList, s.addrIndex)

SimRight(s) == Shaped(s) /\ SimTypes(s) /\ SimKeeps(s)

(* One that runs was started by hand, or is at the head of the queue.      *)
Waited == sim # NoSim => stage = "by hand" \/ (stage = "run" /\ queue # << >>)

PagingInv == DriverRight /\ Waited /\ (sim # NoSim => SimRight(sim))

(* A simulation starts with an empty memory.                               *)
LEMMA Started ==
  ASSUME NEW policy \in PolicyNames, NEW list \in Seq(Int), NEW asStrings,
         NEW size \in Nat \ {0}, StartSimulation(policy, list, asStrings, size)
  PROVE  SimRight(sim')
<1>1. sim' = [policy |-> policy, asStrings |-> asStrings, addrList |-> list,
              size |-> size, memory |-> << >>, ref |-> << >>, addrIndex |-> 0,
              miss |-> 0]
  BY DEF StartSimulation, NoSim
<1>2. /\ sim'.policy = policy /\ sim'.addrList = list /\ sim'.size = size
      /\ sim'.memory = << >> /\ sim'.ref = << >> /\ sim'.addrIndex = 0
  BY <1>1
<1>3. Shaped(sim')
  BY <1>1 DEF Shaped
<1>4. SimTypes(sim')
  BY <1>2 DEF SimTypes
<1>5. SeenBy(list, 0) = {} /\ Range(<< >>) = {}
  BY DEF SeenBy, Range
<1>6. Cached(<< >>, size, {})
  <2>1. << >> \in Seq(Int) /\ Len(<< >>) = 0 /\ IsInjective(<< >>)
    BY DEF IsInjective
  <2> QED BY <2>1, <1>5 DEF Cached
<1>7. Counted(sim') = {}
  BY <1>2, <1>5 DEF Counted
<1>8. << >> \in [{} -> 0 .. ClockBits]
  OBVIOUS
<1>9. InOrder(<< >>, list, 0) /\ GoneBefore(<< >>, list, 0)
  BY <1>5 DEF InOrder, GoneBefore
<1>10. SimKeeps(sim')
  BY <1>2, <1>5, <1>6, <1>7, <1>8, <1>9 DEF SimKeeps
<1> QED BY <1>3, <1>4, <1>10 DEF SimRight

(* The counts after an access.                                             *)
LEMMA ReferencedIs ==
  ASSUME NEW D, NEW r \in [D -> 0 .. ClockBits]
  PROVE  Referenced(r) \in [D \cup {page} -> 0 .. ClockBits]
<1>1. ClockBits \in Nat \ {0}
  BY PagingAssumption
<1>2. ASSUME NEW x \in 0 .. ClockBits PROVE Min({x + 1, ClockBits}) \in 0 .. ClockBits
  <2>1. {x + 1, ClockBits} \in SUBSET Nat /\ {x + 1, ClockBits} # {}
    BY <1>1
  <2>2. /\ Min({x + 1, ClockBits}) \in {x + 1, ClockBits}
        /\ \A y \in {x + 1, ClockBits} : Min({x + 1, ClockBits}) <= y
    BY <2>1, MinIs
  <2>3. /\ Min({x + 1, ClockBits}) \in {x + 1, ClockBits}
        /\ Min({x + 1, ClockBits}) <= ClockBits
    BY <2>2
  <2> QED BY <2>3, <1>1
<1>3. 1 \in 0 .. ClockBits
  BY <1>1
<1>4. DOMAIN r = D
  OBVIOUS
<1>5. ASSUME NEW p \in D \cup {page}
      PROVE  (IF p = page THEN IF p \in DOMAIN r THEN Min({r[p] + 1, ClockBits}) ELSE 1
                          ELSE r[p]) \in 0 .. ClockBits
  BY <1>2, <1>3, <1>4
<1> QED BY <1>4, <1>5 DEF Referenced

(* An access that leaves in memory what it should.                         *)
LEMMA Accessed ==
  ASSUME SimRight(sim), SimStep, NEW m, NEW D, NEW r \in [D -> 0 .. ClockBits], NEW x,
         Advance(m, r, x), Cached(m, sim.size, Seen \cup {page}),
         D \cup {page} = IF sim.policy = "CLOCK" THEN Range(m) ELSE Seen \cup {page},
         sim.policy = "LRU" => /\ InOrder(m, sim.addrList, sim.addrIndex + 1)
                               /\ GoneBefore(m, sim.addrList, sim.addrIndex + 1)
  PROVE  SimRight(sim')
<1> DEFINE R == Referenced(r)
           k == sim.addrIndex
<1>1. R \in [D \cup {page} -> 0 .. ClockBits]
  BY ReferencedIs
<1>2. Shaped(sim) /\ SimTypes(sim)
  BY DEF SimRight
<1>3. sim' = [sim EXCEPT !.memory = m, !.ref = R, !.addrIndex = k + 1, !.miss = x]
  BY DEF Advance
<1> HIDE DEF R
<1>4. sim' = [policy |-> sim.policy, asStrings |-> sim.asStrings,
              addrList |-> sim.addrList, size |-> sim.size, memory |-> m,
              ref |-> R, addrIndex |-> k + 1, miss |-> x]
  BY ONLY <1>2, <1>3 DEF Shaped
<1>5. /\ sim'.policy = sim.policy /\ sim'.addrList = sim.addrList
      /\ sim'.size = sim.size /\ sim'.memory = m /\ sim'.ref = R
      /\ sim'.addrIndex = k + 1
  BY ONLY <1>4
<1>6. Shaped(sim')
  BY ONLY <1>4 DEF Shaped
<1>7. SimTypes(sim')
  <2>1. k \in 0 .. Len(sim.addrList) /\ k # Len(sim.addrList)
    BY <1>2 DEF SimTypes, SimStep, Finished
  <2>2. Len(sim.addrList) \in Nat
    BY <1>2 DEF SimTypes
  <2>3. k + 1 \in 0 .. Len(sim.addrList)
    BY <2>1, <2>2
  <2> QED BY <2>3, <1>2, <1>5 DEF SimTypes
<1>8. SeenBy(sim'.addrList, sim'.addrIndex) = Seen \cup {page}
  <2>1. k \in Nat
    BY <1>2 DEF SimTypes
  <2>2. SeenBy(sim.addrList, k + 1) = SeenBy(sim.addrList, k) \cup {sim.addrList[k + 1]}
    BY <2>1, UseMoves
  <2>3. SeenBy(sim.addrList, k) = Seen
    BY DEF SeenBy, Seen
  <2> QED BY <2>2, <2>3, <1>5 DEF page
<1>9. Counted(sim') = D \cup {page}
  BY <1>5, <1>8 DEF Counted
<1>10. SimKeeps(sim')
  BY <1>1, <1>5, <1>8, <1>9 DEF SimKeeps
<1> QED BY <1>6, <1>7, <1>10 DEF SimRight

LEMMA AtAccess ==
  ASSUME SimRight(sim), SimStep
  PROVE  /\ sim.addrIndex \in Nat /\ sim.size \in Nat \ {0} /\ sim.policy \in PolicyNames
         /\ page = sim.addrList[sim.addrIndex + 1] /\ page \in Int
         /\ Seen = SeenBy(sim.addrList, sim.addrIndex)
         /\ Cached(sim.memory, sim.size, Seen) /\ sim.memory \in Seq(Int)
         /\ sim.ref \in [Counted(sim) -> 0 .. ClockBits]
         /\ Counted(sim) = IF sim.policy = "CLOCK" THEN Range(sim.memory) ELSE Seen
         /\ sim.policy = "LRU" =>
               /\ InOrder(sim.memory, sim.addrList, sim.addrIndex)
               /\ GoneBefore(sim.memory, sim.addrList, sim.addrIndex)
<1>1. SimTypes(sim) /\ SimKeeps(sim)
  BY DEF SimRight
<1>2. /\ sim.addrIndex \in 0 .. Len(sim.addrList)
      /\ sim.addrList \in Seq(Int) /\ sim.addrIndex # Len(sim.addrList)
  BY <1>1 DEF SimTypes, SimStep, Finished
<1>3. sim.addrIndex + 1 \in 1 .. Len(sim.addrList)
  <2>1. Len(sim.addrList) \in Nat
    BY <1>2
  <2> QED BY <2>1, <1>2
<1>4. page = sim.addrList[sim.addrIndex + 1] /\ page \in Int
  BY <1>2, <1>3 DEF page
<1>5. Seen = SeenBy(sim.addrList, sim.addrIndex)
  BY DEF Seen, SeenBy
<1>6. /\ Cached(sim.memory, sim.size, Seen)
      /\ sim.ref \in [Counted(sim) -> 0 .. ClockBits]
      /\ sim.policy = "LRU" =>
               /\ InOrder(sim.memory, sim.addrList, sim.addrIndex)
               /\ GoneBefore(sim.memory, sim.addrList, sim.addrIndex)
  BY <1>1, <1>5 DEF SimKeeps
<1>7. sim.memory \in Seq(Int)
  BY <1>6 DEF Cached
<1>8. Counted(sim) = IF sim.policy = "CLOCK" THEN Range(sim.memory) ELSE Seen
  BY <1>5 DEF Counted
<1>9. sim.addrIndex \in Nat
  BY <1>2
<1>10. sim.size \in Nat \ {0} /\ sim.policy \in PolicyNames
  BY <1>1 DEF SimTypes
<1> QED BY <1>4, <1>5, <1>6, <1>7, <1>8, <1>9, <1>10

LEMMA HitKeeps ==
  ASSUME SimRight(sim), AccessHit
  PROVE  SimRight(sim')
<1> DEFINE m == sim.memory
           k == sim.addrIndex
           w == IF sim.policy \in {"LRU", "MRU"}
                  THEN Append(RemoveFirst(m, page), page) ELSE m
<1>1. SimStep /\ page \in Range(m) /\ Advance(w, sim.ref, sim.miss)
  BY DEF AccessHit, Hit
<1>2. /\ k \in Nat /\ sim.size \in Nat /\ page = sim.addrList[k + 1] /\ page \in Int
      /\ Seen = SeenBy(sim.addrList, k) /\ Cached(m, sim.size, Seen) /\ m \in Seq(Int)
      /\ sim.ref \in [Counted(sim) -> 0 .. ClockBits]
      /\ Counted(sim) = IF sim.policy = "CLOCK" THEN Range(m) ELSE Seen
      /\ sim.policy = "LRU" => InOrder(m, sim.addrList, k) /\ GoneBefore(m, sim.addrList, k)
  BY <1>1, AtAccess
<1>3. PICK i \in 1 .. Len(m) : m[i] = page
  <2>1. DOMAIN m = 1 .. Len(m)
    BY <1>2
  <2> HIDE DEF m
  <2> QED BY <2>1, <1>1 DEF Range
<1>4. IsInjective(m)
  BY <1>2 DEF Cached
<1>5. Moved(Append(RemoveFirst(m, page), page), m, i, page)
  <2>1. RemoveFirst(m, m[i]) = RemoveAt(m, i)
    BY <1>2, <1>4, FirstIsOnly
  <2>2. Moved(Append(RemoveAt(m, i), page), m, i, page)
    BY <1>2, MovedIs
  <2> QED BY <2>1, <2>2, <1>3
<1>6. page \notin Range(m) \ {m[i]}
  BY <1>3
<1>7. Cached(w, sim.size, Seen \cup {page})
  <2>1. CASE sim.policy \in {"LRU", "MRU"}
    <3>1. w = Append(RemoveFirst(m, page), page)
      BY <2>1
    <3> HIDE DEF w
    <3>2. Moved(w, m, i, page)
      BY <3>1, <1>5
    <3> QED BY <3>2, <1>2, <1>3, <1>6, MovedCached
  <2>2. CASE sim.policy \notin {"LRU", "MRU"}
    <3>1. w = m
      BY <2>2
    <3>2. Cached(m, sim.size, Seen \cup {page})
      BY <1>1, <1>2, UsedAgain
    <3> QED BY <3>1, <3>2
  <2> QED BY <2>1, <2>2
<1>8. ASSUME sim.policy = "LRU"
      PROVE  InOrder(w, sim.addrList, k + 1) /\ GoneBefore(w, sim.addrList, k + 1)
  <2>1. w = Append(RemoveFirst(m, page), page)
    BY <1>8
  <2> HIDE DEF w
  <2>2. Moved(w, m, i, sim.addrList[k + 1])
    BY <2>1, <1>2, <1>5
  <2>3. /\ sim.addrList[k + 1] = m[i] /\ sim.addrList[k + 1] \in Int
        /\ sim.addrList[k + 1] \notin Range(m) \ {m[i]}
    BY <1>2, <1>3, <1>6
  <2>4. Cached(m, sim.size, SeenBy(sim.addrList, k)) /\ k \in Nat
    BY <1>2
  <2>5. InOrder(m, sim.addrList, k) /\ GoneBefore(m, sim.addrList, k)
    BY <1>2, <1>8
  <2> HIDE DEF k, m
  <2> QED BY <2>2, <2>3, <2>4, <2>5, MovedRecent
<1>9. Counted(sim) \cup {page}
        = IF sim.policy = "CLOCK" THEN Range(w) ELSE Seen \cup {page}
  <2>1. CASE sim.policy = "CLOCK"
    <3>1. w = m
      BY <2>1
    <3> QED BY <2>1, <3>1, <1>1, <1>2
  <2>2. CASE sim.policy # "CLOCK"
    BY <2>2, <1>2
  <2> QED BY <2>1, <2>2
<1> HIDE DEF w
<1> QED BY <1>1, <1>2, <1>7, <1>8, <1>9, Accessed

LEMMA MissKeeps ==
  ASSUME SimRight(sim), AccessMiss
  PROVE  SimRight(sim')
<1> DEFINE m == sim.memory
           k == sim.addrIndex
           w == Append(m, page)
<1>1. /\ SimStep /\ page \notin Range(m) /\ Len(m) # sim.size
      /\ Advance(w, sim.ref, sim.miss + 1)
  BY DEF AccessMiss, Hit, Full
<1>2. /\ k \in Nat /\ sim.size \in Nat /\ page = sim.addrList[k + 1] /\ page \in Int
      /\ Seen = SeenBy(sim.addrList, k) /\ Cached(m, sim.size, Seen) /\ m \in Seq(Int)
      /\ sim.ref \in [Counted(sim) -> 0 .. ClockBits]
      /\ Counted(sim) = IF sim.policy = "CLOCK" THEN Range(m) ELSE Seen
      /\ sim.policy = "LRU" => InOrder(m, sim.addrList, k) /\ GoneBefore(m, sim.addrList, k)
  BY <1>1, AtAccess
<1>3. /\ Cached(w, sim.size, Seen \cup {page})
      /\ Range(w) = Range(m) \cup {page}
  <2> HIDE DEF m
  <2> QED BY <1>1, <1>2, AppendedCached
<1>4. ASSUME sim.policy = "LRU"
      PROVE  InOrder(w, sim.addrList, k + 1) /\ GoneBefore(w, sim.addrList, k + 1)
  <2>1. Range(m) \subseteq SeenBy(sim.addrList, k)
    BY <1>2 DEF Cached
  <2>2. InOrder(m, sim.addrList, k) /\ GoneBefore(m, sim.addrList, k)
    BY <1>2, <1>4
  <2>3. /\ sim.addrList[k + 1] \notin Range(m) /\ sim.addrList[k + 1] \in Int
        /\ Range(Append(m, sim.addrList[k + 1])) = Range(m) \cup {sim.addrList[k + 1]}
    BY <1>1, <1>2, <1>3
  <2>4. w = Append(m, sim.addrList[k + 1])
    BY <1>2
  <2>5. k \in Nat /\ m \in Seq(Int)
    BY <1>2
  <2> HIDE DEF w, k, m
  <2>6. /\ InOrder(Append(m, sim.addrList[k + 1]), sim.addrList, k + 1)
        /\ GoneBefore(Append(m, sim.addrList[k + 1]), sim.addrList, k + 1)
    BY <2>1, <2>2, <2>3, <2>5, AppendedRecent
  <2> QED BY <2>4, <2>6
<1>5. Counted(sim) \cup {page}
        = IF sim.policy = "CLOCK" THEN Range(w) ELSE Seen \cup {page}
  BY <1>2, <1>3
<1> HIDE DEF w
<1> QED BY <1>1, <1>2, <1>3, <1>4, <1>5, Accessed

(* A scan takes a count down that is not yet 0.                            *)
LEMMA ScanKeeps ==
  ASSUME SimRight(sim), ClockScan
  PROVE  SimRight(sim')
<1> DEFINE m == sim.memory
<1>1. SimStep /\ sim.policy = "CLOCK"
  BY DEF ClockScan
<1>2. /\ m \in Seq(Int) /\ sim.ref \in [Counted(sim) -> 0 .. ClockBits]
      /\ Counted(sim) = Range(m)
  BY <1>1, AtAccess
<1>3. PICK i \in DOMAIN m : /\ sim.ref[m[i]] >= 1
                            /\ sim' = [sim EXCEPT !.ref[m[i]] = @ - 1]
  BY DEF ClockScan
<1> DEFINE p == m[i]
           R == [sim.ref EXCEPT ![p] = @ - 1]
<1>4. p \in Counted(sim)
  BY <1>2 DEF Range
<1>5. ClockBits \in Nat
  BY PagingAssumption
<1>6. R \in [Counted(sim) -> 0 .. ClockBits]
  <2>1. sim.ref[p] \in 0 .. ClockBits /\ sim.ref[p] >= 1
    BY <1>2, <1>3, <1>4
  <2>2. sim.ref[p] - 1 \in 0 .. ClockBits
    BY <2>1, <1>5
  <2> HIDE DEF p
  <2> QED BY <2>2, <1>2
<1>7. sim' = [sim EXCEPT !.ref = R]
  BY <1>3
<1> HIDE DEF R, p, m
<1>8. Shaped(sim) /\ SimTypes(sim) /\ SimKeeps(sim)
  BY DEF SimRight
<1>9. sim' = [policy |-> sim.policy, asStrings |-> sim.asStrings,
              addrList |-> sim.addrList, size |-> sim.size, memory |-> sim.memory,
              ref |-> R, addrIndex |-> sim.addrIndex, miss |-> sim.miss]
  BY ONLY <1>7, <1>8 DEF Shaped
<1>10. /\ sim'.policy = sim.policy /\ sim'.addrList = sim.addrList
       /\ sim'.size = sim.size /\ sim'.memory = sim.memory /\ sim'.ref = R
       /\ sim'.addrIndex = sim.addrIndex
  BY ONLY <1>9
<1>11. Shaped(sim')
  BY ONLY <1>9 DEF Shaped
<1>12. SimTypes(sim')
  BY <1>8, <1>10 DEF SimTypes
<1>13. Counted(sim') = Counted(sim)
  BY <1>10 DEF Counted
<1>14. SimKeeps(sim')
  BY <1>6, <1>8, <1>10, <1>13 DEF SimKeeps
<1> QED BY <1>11, <1>12, <1>14 DEF SimRight

(* The places in memory that a policy may evict are places in memory.      *)
LEMMA Extremes ==
  ASSUME NEW n \in Nat \ {0}, NEW b \in Nat, NEW f \in [1 .. n -> 0 .. b]
  PROVE  /\ \E i \in 1 .. n : \A j \in 1 .. n : f[j] <= f[i]
         /\ \E i \in 1 .. n : \A j \in 1 .. n : f[i] <= f[j]
<1> DEFINE T == {f[j] : j \in 1 .. n}
<1>1. T \in SUBSET (0 .. b) /\ T # {} /\ \A j \in 1 .. n : f[j] \in T
  <2>1. 1 \in 1 .. n
    OBVIOUS
  <2>2. T \in SUBSET (0 .. b) /\ \A j \in 1 .. n : f[j] \in T
    OBVIOUS
  <2> QED BY <2>1, <2>2
<1>2. \A x \in T : \E i \in 1 .. n : f[i] = x
  OBVIOUS
<1> HIDE DEF T
<1>3. Max(T) \in T /\ \A x \in T : x <= Max(T)
  BY <1>1, MaxIs
<1>4. Min(T) \in T /\ \A x \in T : Min(T) <= x
  <2>1. T \in SUBSET Nat
    BY <1>1
  <2> QED BY <2>1, <1>1, MinIs
<1>5. PICK i \in 1 .. n : f[i] = Max(T)
  BY <1>2, <1>3
<1>6. PICK l \in 1 .. n : f[l] = Min(T)
  BY <1>2, <1>4
<1>7. \A j \in 1 .. n : f[j] <= f[i] /\ f[l] <= f[j]
  BY <1>1, <1>3, <1>4, <1>5, <1>6
<1> QED BY <1>7

LEMMA UsesAre ==
  ASSUME SimTypes(sim), NEW p
  PROVE  NextUse(p) \in 0 .. Len(sim.addrList)
         /\ NextUseByIndex(p) \in 0 .. Len(sim.addrList)
<1> DEFINE L == Len(sim.addrList)
           k == sim.addrIndex
<1>1. L \in Nat /\ k \in Nat
  BY DEF SimTypes
<1> HIDE DEF L, k
<1>2. ASSUME NEW S, S \subseteq k + 1 .. L - 1
      PROVE  (IF S = {} THEN L ELSE Min(S)) \in 0 .. L
  <2>1. CASE S = {}
    BY <2>1, <1>1
  <2>2. CASE S # {}
    <3>1. S \in SUBSET Nat
      BY <1>1, <1>2
    <3>2. Min(S) \in S
      BY <2>2, <3>1, MinIs
    <3>3. Min(S) \in k + 1 .. L - 1
      BY <3>2, <1>2
    <3>4. Min(S) \in 0 .. L
      BY <3>3, <1>1
    <3> QED BY <2>2, <3>4
  <2> QED BY <2>1, <2>2
<1>3. NextUse(p) \in 0 .. L
  <2> DEFINE S == {i \in k + 1 .. L - 1 : sim.addrList[i + 1] = p}
  <2>1. S \subseteq k + 1 .. L - 1
    OBVIOUS
  <2>2. NextUse(p) = IF S = {} THEN L ELSE Min(S)
    BY DEF NextUse, L, k
  <2> HIDE DEF S
  <2> QED BY <2>1, <2>2, <1>2
<1>4. NextUseByIndex(p) \in 0 .. L
  <2> DEFINE S == {i \in k + 1 .. L - 1 : ~sim.asStrings /\ sim.addrList[i + 1] = p}
  <2>1. S \subseteq k + 1 .. L - 1
    OBVIOUS
  <2>2. NextUseByIndex(p) = IF S = {} THEN L ELSE Min(S)
    BY DEF NextUseByIndex, L, k
  <2> HIDE DEF S
  <2> QED BY <2>1, <2>2, <1>2
<1> QED BY <1>3, <1>4 DEF L

LEMMA OptVictims ==
  ASSUME SimTypes(sim), sim.memory \in Seq(Int), Full, sim.policy = "OPT"
  PROVE  \A i \in Victims :
            /\ i \in 1 .. Len(sim.memory)
            /\ \A j \in 1 .. Len(sim.memory) :
                  NextUseByIndex(sim.memory[j]) <= NextUseByIndex(sim.memory[i])
<1> DEFINE m == sim.memory
           n == Len(m)
           L == Len(sim.addrList)
<1>1. n \in Nat \ {0} /\ DOMAIN m = 1 .. n /\ L \in Nat
  BY DEF SimTypes, Full
<1> HIDE DEF n, L, m
<1> DEFINE f == [i \in 1 .. n |-> NextUseByIndex(m[i])]
           S == {i \in DOMAIN m : \A j \in DOMAIN m :
                    NextUseByIndex(m[j]) <= NextUseByIndex(m[i])}
<1>2. f \in [1 .. n -> 0 .. L]
  BY UsesAre DEF L
<1>3. PICK i \in 1 .. n : \A j \in 1 .. n : f[j] <= f[i]
  <2> HIDE DEF f
  <2> QED BY <1>2, <1>1, Extremes
<1>4. i \in S /\ S \subseteq 1 .. n
  BY <1>3, <1>1
<1>5. Victims = {Max(S)}
  BY DEF Victims, m
<1>6. \A x \in S : x \in 1 .. n /\ \A j \in 1 .. n :
                      NextUseByIndex(m[j]) <= NextUseByIndex(m[x])
  BY <1>1
<1> HIDE DEF S
<1>7. S \in SUBSET (0 .. n) /\ S # {} /\ n \in Nat
  BY <1>4, <1>1
<1>8. Max(S) \in S
  BY <1>7, MaxIs
<1> QED BY <1>5, <1>6, <1>8 DEF n, m

LEMMA VictimsAre ==
  ASSUME SimTypes(sim), sim.memory \in Seq(Int), Full
  PROVE  /\ Victims \subseteq 1 .. Len(sim.memory)
         /\ sim.policy = "LRU" => Victims = {1}
<1> DEFINE m == sim.memory
           n == Len(m)
           L == Len(sim.addrList)
<1>1. n \in Nat \ {0} /\ DOMAIN m = 1 .. n /\ L \in Nat
  BY DEF SimTypes, Full
<1> HIDE DEF n, L, m
<1>2. CASE sim.policy \in {"FIFO", "LRU"}
  <2>1. Victims = {1}
    BY <1>2 DEF Victims
  <2>2. 1 \in 1 .. n
    BY <1>1
  <2> QED BY <2>1, <2>2 DEF n, m
<1>3. CASE sim.policy = "MRU"
  <2>1. Victims = {n}
    BY <1>3 DEF Victims, n, m
  <2>2. n \in 1 .. n
    BY <1>1
  <2> QED BY <2>1, <2>2, <1>3 DEF n, m
<1>4. CASE sim.policy = "RAND"
  <2>1. Victims = DOMAIN m
    BY <1>4 DEF Victims, m
  <2> QED BY <2>1, <1>1, <1>4 DEF n, m
<1>5. CASE sim.policy = "CLOCK"
  <2>1. Victims = {i \in DOMAIN m : sim.ref[m[i]] = 0}
    BY <1>5 DEF Victims, m
  <2>2. Victims \subseteq 1 .. n
    BY <2>1, <1>1
  <2> QED BY <2>2, <1>5 DEF n, m
<1>6. CASE sim.policy = "OPT"
  <2>1. Victims \subseteq 1 .. n
    BY <1>6, OptVictims DEF n, m
  <2> QED BY <2>1, <1>6 DEF n, m
<1>7. CASE sim.policy = "UNOPT"
  <2> DEFINE f == [i \in 1 .. n |-> NextUse(m[i])]
             S == {i \in DOMAIN m : \A j \in DOMAIN m :
                      NextUse(m[i]) <= NextUse(m[j])}
  <2>1. f \in [1 .. n -> 0 .. L]
    BY UsesAre DEF L
  <2>2. PICK i \in 1 .. n : \A j \in 1 .. n : f[i] <= f[j]
    <3> HIDE DEF f
    <3> QED BY <2>1, <1>1, Extremes
  <2>3. i \in S /\ S \subseteq 1 .. n
    BY <2>2, <1>1
  <2>4. Victims = {Min(S)}
    BY <1>7 DEF Victims, m
  <2> HIDE DEF S
  <2>5. S \in SUBSET Nat /\ S # {}
    BY <2>3, <1>1
  <2>6. Min(S) \in S
    BY <2>5, MinIs
  <2>7. Victims \subseteq 1 .. n
    BY <2>3, <2>4, <2>6
  <2> QED BY <2>7, <1>7 DEF n, m
<1>8. sim.policy \in PolicyNames
  BY DEF SimTypes
<1> QED BY <1>2, <1>3, <1>4, <1>5, <1>6, <1>7, <1>8 DEF PolicyNames

LEMMA ReplaceKeeps ==
  ASSUME SimRight(sim), Replace
  PROVE  SimRight(sim')
<1> DEFINE m == sim.memory
           k == sim.addrIndex
<1>1. SimStep /\ page \notin Range(m) /\ Len(m) = sim.size /\ Full
  BY DEF Replace, Hit, Full
<1>2. /\ k \in Nat /\ sim.size \in Nat /\ page = sim.addrList[k + 1] /\ page \in Int
      /\ Seen = SeenBy(sim.addrList, k) /\ Cached(m, sim.size, Seen) /\ m \in Seq(Int)
      /\ sim.ref \in [Counted(sim) -> 0 .. ClockBits]
      /\ Counted(sim) = IF sim.policy = "CLOCK" THEN Range(m) ELSE Seen
      /\ sim.policy = "LRU" => InOrder(m, sim.addrList, k) /\ GoneBefore(m, sim.addrList, k)
  BY <1>1, AtAccess
<1>3. Victims \subseteq 1 .. Len(m) /\ (sim.policy = "LRU" => Victims = {1})
  BY <1>1, <1>2, VictimsAre DEF SimRight
<1>4. PICK i \in Victims :
         Advance(Append(RemoveAt(m, i), page),
                 [p \in DOMAIN sim.ref
                        \ (IF sim.policy = "CLOCK" THEN {m[i]} ELSE {}) |-> sim.ref[p]],
                 sim.miss + 1)
  BY DEF Replace
<1> DEFINE w == Append(RemoveAt(m, i), page)
           D == Counted(sim) \ (IF sim.policy = "CLOCK" THEN {m[i]} ELSE {})
           r == [p \in D |-> sim.ref[p]]
<1>5. i \in 1 .. Len(m) /\ (sim.policy = "LRU" => i = 1)
  BY <1>3, <1>4
<1>6. Advance(w, r, sim.miss + 1)
  <2>1. DOMAIN sim.ref = Counted(sim)
    BY <1>2
  <2> QED BY <2>1, <1>4
<1>7. r \in [D -> 0 .. ClockBits]
  BY <1>2
<1>8. Moved(w, m, i, page)
  BY <1>2, <1>5, MovedIs
<1>9. page \notin Range(m) \ {m[i]}
  BY <1>1
<1> HIDE DEF w, r
<1>10. /\ Cached(w, sim.size, Seen \cup {page})
       /\ Range(w) = (Range(m) \ {m[i]}) \cup {page}
  <2>1. Len(m) = sim.size \/ page = m[i]
    BY <1>1
  <2>2. sim.size \in Nat /\ Cached(m, sim.size, Seen) /\ page \in Int
    BY <1>2
  <2>3. i \in 1 .. Len(m)
    BY <1>5
  <2>4. Cached(w, sim.size, Seen \cup {page})
    BY ONLY <2>1, <2>2, <2>3, <1>8, <1>9, MovedCached
  <2>5. Range(w) = (Range(m) \ {m[i]}) \cup {page}
    <3>1. m \in Seq(Int) /\ IsInjective(m) /\ page \in Int
      BY <1>2 DEF Cached
    <3> QED BY ONLY <3>1, <2>3, <1>8, <1>9, MovedRange
  <2> QED BY <2>4, <2>5
<1>11. D \cup {page} = IF sim.policy = "CLOCK" THEN Range(w) ELSE Seen \cup {page}
  BY <1>2, <1>10
<1>12. ASSUME sim.policy = "LRU"
       PROVE  InOrder(w, sim.addrList, k + 1) /\ GoneBefore(w, sim.addrList, k + 1)
  <2>1. /\ i = 1 /\ i \in 1 .. Len(m) /\ sim.addrList[k + 1] \in Int
        /\ sim.addrList[k + 1] \notin Range(m) \ {m[i]}
        /\ Moved(w, m, i, sim.addrList[k + 1])
    BY <1>2, <1>5, <1>8, <1>9, <1>12
  <2>2. Cached(m, sim.size, SeenBy(sim.addrList, k)) /\ k \in Nat
    BY <1>2
  <2>3. InOrder(m, sim.addrList, k) /\ GoneBefore(m, sim.addrList, k)
    BY <1>2, <1>12
  <2> HIDE DEF k, m
  <2> QED BY <2>1, <2>2, <2>3, MovedRecent
<1> HIDE DEF D
<1> QED BY <1>1, <1>6, <1>7, <1>10, <1>11, <1>12, Accessed

(* The driver starts the simulations of the queue, and only those.         *)
LEMMA SizesAre ==
  ASSUME NEW list \in Seq(Int)
  PROVE  /\ Cardinality(Range(list)) \in Nat
         /\ Sizes(list) \subseteq Nat \ {0} /\ Cardinality(Sizes(list)) \in Nat
<1> DEFINE f == [i \in 1 .. Len(list) |-> list[i]]
<1>1. Len(list) \in Nat /\ DOMAIN list = 1 .. Len(list)
  OBVIOUS
<1>2. IsFiniteSet(1 .. Len(list))
  BY <1>1, FS_Interval
<1>3. f \in Surjection(1 .. Len(list), Range(list))
  <2>1. f \in [1 .. Len(list) -> Range(list)]
    BY <1>1 DEF Range
  <2>2. \A y \in Range(list) : \E i \in 1 .. Len(list) : f[i] = y
    BY <1>1 DEF Range
  <2> QED BY <2>1, <2>2 DEF Surjection
<1> HIDE DEF f
<1>4. IsFiniteSet(Range(list))
  BY <1>2, <1>3, FS_Surjection
<1>5. Cardinality(Range(list)) \in Nat
  BY <1>4, FS_CardinalityType
<1>6. IsFiniteSet(1 .. Cardinality(Range(list)))
  BY <1>5, FS_Interval
<1>7. Cardinality(Sizes(list)) \in Nat
  BY <1>6, FS_CardinalityType DEF Sizes
<1>8. Sizes(list) \subseteq Nat \ {0}
  BY <1>5 DEF Sizes
<1> QED BY <1>5, <1>7, <1>8

LEMMA DriverKeeps ==
  ASSUME DriverRight, Waited, (\E lines \in Traces : Load(lines)) \/ DriverStep
  PROVE  DriverRight'
<1>0. pages \in Seq(Int) /\ output \in Seq(Int) /\ queue \in Seq((Nat \ {0}) \X PolicyNames)
  BY DEF DriverRight
<1>1. ASSUME NEW lines \in Traces, Load(lines) PROVE DriverRight'
  <2>1. pages' \in Seq(Int) /\ output' = output /\ queue' = queue
    BY <1>1, PagesAre DEF Load
  <2> QED BY <2>1, <1>0 DEF DriverRight
<1>2. CASE export_page_trace
  <2>1. Dedup(pages) \in Seq(Int)
    BY <1>0, DedupIs
  <2>2. output' \in Seq(Int) /\ pages' = pages /\ queue' = queue
    BY <2>1, <1>0, <1>2 DEF export_page_trace
  <2> QED BY <2>2, <1>0 DEF DriverRight
<1>3. CASE run_simulations
  <2>1. pages' = pages /\ output' = output
    BY <1>3 DEF run_simulations
  <2>2. CASE output = NoOutput
    <3>1. queue' = queue
      BY <2>2, <1>3 DEF run_simulations
    <3> QED BY <3>1, <2>1, <1>0 DEF DriverRight
  <2>3. CASE output # NoOutput
    <3> DEFINE c == Cardinality(Sizes(output))
               l == Len(Policies)
               q == [i \in 1 .. c * l |-> <<1 + ((i - 1) \div l),
                                            Policies[1 + ((i - 1) % l)]>>]
    <3>1. queue' = q
      BY <2>3, <1>3 DEF run_simulations
    <3>2. c \in Nat /\ l \in Nat /\ Policies \in Seq(PolicyNames)
      BY <1>0, SizesAre, PagingAssumption
    <3>3. \A j \in 1 .. l : Policies[j] \in PolicyNames
      BY <3>2
    <3> HIDE DEF c, l
    <3>4. c * l \in Nat /\ (l = 0 => c * l = 0)
      BY <3>2
    <3>5. ASSUME NEW i \in 1 .. c * l
          PROVE  <<1 + ((i - 1) \div l), Policies[1 + ((i - 1) % l)]>>
                    \in (Nat \ {0}) \X PolicyNames
      <4>1. i - 1 \in Nat /\ l \in Nat \ {0}
        BY <3>2, <3>4
      <4>2. (i - 1) \div l \in Nat /\ (i - 1) % l \in 0 .. l - 1
        BY <4>1
      <4>3. 1 + ((i - 1) \div l) \in Nat \ {0} /\ 1 + ((i - 1) % l) \in 1 .. l
        BY <4>1, <4>2
      <4> QED BY <4>3, <3>3
    <3>6. q \in Seq((Nat \ {0}) \X PolicyNames)
      <4> DEFINE E == (Nat \ {0}) \X PolicyNames
      <4>1. q \in [1 .. c * l -> E]
        BY <3>5
      <4> HIDE DEF q, E
      <4>2. \A n \in Nat : [1 .. n -> E] \subseteq Seq(E)
        OBVIOUS
      <4>3. q \in Seq(E)
        BY <4>1, <4>2, <3>4
      <4> QED BY <4>3 DEF E
    <3> QED BY <3>1, <3>6, <2>1, <1>0 DEF DriverRight
  <2> QED BY <2>2, <2>3
<1>4. CASE StartNext
  BY <1>4 DEF StartNext, DriverRight
<1>5. CASE Collect
  <2>1. queue # << >>
    BY <1>5 DEF Collect, Finished, Waited
  <2>2. Tail(queue) \in Seq((Nat \ {0}) \X PolicyNames)
    BY <2>1, <1>0
  <2> QED BY <2>2, <1>0, <1>5 DEF Collect, DriverRight
<1>6. CASE AllRun
  BY <1>6 DEF AllRun, DriverRight
<1> QED BY <1>1, <1>2, <1>3, <1>4, <1>5, <1>6 DEF DriverStep

LEMMA NextKeepsPaging == PagingInv /\ [PagingNext]_pagingVars => PagingInv'
<1> SUFFICES ASSUME PagingInv, [PagingNext]_pagingVars PROVE PagingInv'
  OBVIOUS
<1>0. DriverRight /\ Waited /\ (sim # NoSim => SimRight(sim))
  BY DEF PagingInv
<1>1. ASSUME NEW lines \in Traces, Load(lines) PROVE PagingInv'
  <2>1. DriverRight'
    BY <1>0, <1>1, DriverKeeps
  <2>2. sim' = NoSim
    BY <1>1 DEF Load
  <2> QED BY <2>1, <2>2 DEF PagingInv, Waited
<1>2. ASSUME NEW policy \in ByHand, NEW lines \in Traces,
             NEW size \in Sizes(get_page_list(lines)),
             StartByHand(policy, get_page_list(lines), size)
      PROVE  PagingInv'
  <2>1. get_page_list(lines) \in Seq(Int) /\ policy \in PolicyNames
    BY PagesAre, PagingAssumption
  <2>2. size \in Nat \ {0}
    BY <2>1, SizesAre
  <2>3. StartSimulation(policy, get_page_list(lines), TRUE, size)
    BY <1>2 DEF StartByHand
  <2>4. SimRight(sim')
    BY <2>1, <2>2, <2>3, Started
  <2>5. DriverRight' /\ Waited'
    BY <1>0, <1>2 DEF StartByHand, DriverRight, Waited
  <2> QED BY <2>4, <2>5 DEF PagingInv
<1>3. CASE DriverStep
  <2>1. DriverRight'
    BY <1>0, <1>3, DriverKeeps
  <2>2. CASE export_page_trace \/ run_simulations \/ Collect \/ AllRun
    <3>1. sim' = NoSim
      BY <1>0, <2>2 DEF export_page_trace, run_simulations, Collect, AllRun, Waited
    <3> QED BY <2>1, <3>1 DEF PagingInv, Waited
  <2>3. CASE StartNext
    <3> DEFINE h == Head(queue)
    <3>1. /\ stage = "run" /\ queue # << >> /\ UNCHANGED <<stage, queue>>
          /\ StartSimulation(h[2], output, FALSE, h[1])
      BY <2>3 DEF StartNext
    <3>2. h \in (Nat \ {0}) \X PolicyNames /\ output \in Seq(Int)
      BY <1>0, <3>1 DEF DriverRight
    <3>3. h[1] \in Nat \ {0} /\ h[2] \in PolicyNames
      BY <3>2
    <3> HIDE DEF h
    <3>4. SimRight(sim')
      BY <3>1, <3>2, <3>3, Started
    <3>5. Waited'
      BY <3>1 DEF Waited
    <3> QED BY <2>1, <3>4, <3>5 DEF PagingInv
  <2> QED BY <1>3, <2>2, <2>3 DEF DriverStep
<1>4. CASE AccessStep
  <2>1. sim # NoSim /\ UNCHANGED driver
    BY <1>4 DEF AccessStep, AccessHit, AccessMiss, ClockScan, Replace, SimStep
  <2>2. SimRight(sim')
    BY <1>0, <1>4, <2>1, HitKeeps, MissKeeps, ScanKeeps, ReplaceKeeps DEF AccessStep
  <2>3. DriverRight' /\ Waited'
    BY <1>0, <2>1 DEF DriverRight, Waited, driver
  <2> QED BY <2>2, <2>3 DEF PagingInv
<1>5. CASE UNCHANGED pagingVars
  BY <1>0, <1>5 DEF PagingInv, DriverRight, Waited, pagingVars
<1> QED BY <1>1, <1>2, <1>3, <1>4, <1>5 DEF PagingNext

LEMMA InitPaging == PagingInit => PagingInv
<1> SUFFICES ASSUME PagingInit PROVE PagingInv
  OBVIOUS
<1>1. pages = << >> /\ output = <<-1>> /\ queue = << >> /\ sim = NoSim
  BY DEF PagingInit, NoOutput
<1>2. pages \in Seq(Int) /\ output \in Seq(Int)
  BY <1>1
<1>3. queue \in Seq((Nat \ {0}) \X PolicyNames)
  BY <1>1
<1> QED BY <1>1, <1>2, <1>3 DEF PagingInv, DriverRight, Waited

-----------------------------------------------------------------------------
(* The faults of LRU.  Since(list, i, j) are the pages used between two    *)
(* places, and an access is kept when its page is in memory by definition. *)
Since(list, i, j) == {list[x] : x \in j + 1 .. i - 1}
KeptFrom(list, size, i, j) == /\ list[j] = list[i] /\ list[i] \notin Since(list, i, j)
                              /\ Cardinality(Since(list, i, j)) < size
Kept(list, size, i) == \E j \in 1 .. i - 1 : KeptFrom(list, size, i, j)
Misses(list, size, k) == {i \in 1 .. k : ~Kept(list, size, i)}

LEMMA FaultsAre ==
  ASSUME NEW list \in Seq(Int), NEW size
  PROVE  LruFaults(list, size) = Cardinality(Misses(list, size, Len(list)))
<1>1. DOMAIN list = 1 .. Len(list)
  OBVIOUS
<1> QED BY <1>1 DEF LruFaults, Misses, Kept, KeptFrom, Since

(* The set of values of a list over an interval has no more members.       *)
LEMMA ImageBound ==
  ASSUME NEW f, NEW a \in Int, NEW b \in Int
  PROVE  /\ IsFiniteSet({f[x] : x \in a .. b})
         /\ Cardinality({f[x] : x \in a .. b}) \in Nat
         /\ a <= b + 1 => Cardinality({f[x] : x \in a .. b}) <= b - a + 1
<1> DEFINE T == {f[x] : x \in a .. b}
           g == [x \in a .. b |-> f[x]]
<1>1. /\ IsFiniteSet(a .. b)
      /\ Cardinality(a .. b) = IF a > b THEN 0 ELSE b - a + 1
  BY FS_Interval
<1>2. g \in Surjection(a .. b, T)
  <2>1. g \in [a .. b -> T]
    OBVIOUS
  <2>2. \A y \in T : \E x \in a .. b : g[x] = y
    OBVIOUS
  <2> HIDE DEF g, T
  <2> QED BY <2>1, <2>2 DEF Surjection
<1> HIDE DEF g, T
<1>3. IsFiniteSet(T) /\ Cardinality(T) <= Cardinality(a .. b)
  BY <1>1, <1>2, FS_Surjection
<1>4. Cardinality(T) \in Nat
  BY <1>3, FS_CardinalityType
<1>5. a <= b + 1 => Cardinality(T) <= b - a + 1
  BY <1>1, <1>3, <1>4
<1> QED BY <1>3, <1>4, <1>5 DEF T

LEMMA LastUseIsLast ==
  ASSUME NEW list, NEW k \in Nat, NEW p \in SeenBy(list, k)
  PROVE  /\ LastUse(list, k, p) \in 1 .. k /\ list[LastUse(list, k, p)] = p
         /\ \A x \in 1 .. k : list[x] = p => x <= LastUse(list, k, p)
<1> DEFINE S == {i \in 1 .. k : list[i] = p}
<1>1. S \in SUBSET (0 .. k) /\ S # {}
  BY DEF SeenBy
<1>2. \A x : x \in S <=> x \in 1 .. k /\ list[x] = p
  OBVIOUS
<1>3. LastUse(list, k, p) = Max(S)
  BY DEF LastUse
<1> HIDE DEF S
<1>4. Max(S) \in S /\ \A x \in S : x <= Max(S)
  BY <1>1, MaxIs
<1> QED BY <1>2, <1>3, <1>4

(* A page in memory is one since whose last use there was room for all     *)
(* others.                                                                 *)
LEMMA InMemoryIsKept ==
  ASSUME NEW list, NEW k \in Nat, NEW size \in Nat, NEW m,
         Cached(m, size, SeenBy(list, k)), InOrder(m, list, k), GoneBefore(m, list, k),
         list[k + 1] \in Range(m)
  PROVE  Kept(list, size, k + 1)
<1> DEFINE p == list[k + 1]
           j == LastUse(list, k, p)
           n == Len(m)
<1>1. /\ m \in Seq(Int) /\ Range(m) \subseteq SeenBy(list, k) /\ n <= size
      /\ n \in Nat /\ DOMAIN m = 1 .. n
  BY DEF Cached
<1>2. PICK i \in 1 .. n : m[i] = p
  BY <1>1 DEF Range
<1>3. p \in SeenBy(list, k)
  BY <1>1
<1>4. j \in 1 .. k /\ list[j] = p /\ \A x \in 1 .. k : list[x] = p => x <= j
  BY <1>3, LastUseIsLast
<1> HIDE DEF j, n
<1>5. ASSUME NEW x \in j + 1 .. k
      PROVE  list[x] # p /\ \E a \in i + 1 .. n : list[x] = m[a]
  <2> DEFINE q == list[x]
  <2>1. x \in 1 .. k /\ x > j
    BY <1>4
  <2>2. q # p /\ q \in SeenBy(list, k)
    BY <2>1, <1>4 DEF SeenBy
  <2>3. LastUse(list, k, q) \in 1 .. k /\ x <= LastUse(list, k, q)
    BY <2>1, <2>2, LastUseIsLast
  <2>4. ~(LastUse(list, k, q) < LastUse(list, k, p))
    BY <2>1, <2>3, <1>4 DEF j
  <2> HIDE DEF q
  <2>5. q \in Range(m)
    BY <2>2, <2>4 DEF GoneBefore
  <2>6. PICK a \in 1 .. n : m[a] = q
    BY <2>5, <1>1 DEF Range
  <2>7. ~(a < i)
    BY <2>4, <2>6, <1>1, <1>2 DEF InOrder
  <2>8. a # i
    BY <2>2, <2>6, <1>2
  <2>9. a \in i + 1 .. n
    BY <2>7, <2>8, <1>1
  <2> QED BY <2>2, <2>6, <2>9 DEF q
<1>6. p \notin Since(list, k + 1, j)
  <2>1. (k + 1) - 1 = k
    OBVIOUS
  <2> QED BY <2>1, <1>5 DEF Since
<1>7. Cardinality(Since(list, k + 1, j)) < size
  <2> DEFINE T == {m[a] : a \in i + 1 .. n}
  <2>1. i + 1 \in Int /\ n \in Int /\ i + 1 <= n + 1
    BY <1>1
  <2>2. IsFiniteSet(T) /\ Cardinality(T) \in Nat /\ Cardinality(T) <= n - (i + 1) + 1
    BY <2>1, ImageBound
  <2>3. Since(list, k + 1, j) \subseteq T
    <3>1. (k + 1) - 1 = k
      OBVIOUS
    <3> QED BY <3>1, <1>5 DEF Since
  <2> HIDE DEF T
  <2>4. Cardinality(Since(list, k + 1, j)) <= Cardinality(T)
    BY <2>2, <2>3, FS_Subset
  <2>5. Cardinality(Since(list, k + 1, j)) \in Nat
    <3>1. j + 1 \in Int /\ (k + 1) - 1 \in Int
      BY <1>4
    <3> QED BY <3>1, ImageBound DEF Since
  <2> QED BY <2>2, <2>4, <2>5, <1>1
<1>8. KeptFrom(list, size, k + 1, j)
  BY <1>4, <1>6, <1>7 DEF KeptFrom
<1>9. j \in 1 .. (k + 1) - 1
  BY <1>4
<1> QED BY <1>8, <1>9 DEF Kept

LEMMA RangeCounts ==
  ASSUME NEW m \in Seq(Int), IsInjective(m)
  PROVE  IsFiniteSet(Range(m)) /\ Cardinality(Range(m)) = Len(m)
<1>1. Len(m) \in Nat /\ DOMAIN m = 1 .. Len(m)
  OBVIOUS
<1>2. IsFiniteSet(1 .. Len(m)) /\ Cardinality(1 .. Len(m)) = Len(m)
  <2>1. \A n \in Nat : 1 \in Int /\ n \in Int /\ (IF 1 > n THEN 0 ELSE n - 1 + 1) = n
    OBVIOUS
  <2>2. \A n \in Nat : IsFiniteSet(1 .. n) /\ Cardinality(1 .. n) = n
    BY <2>1, FS_Interval
  <2> QED BY <2>2, <1>1
<1>3. m \in [1 .. Len(m) -> Range(m)]
  BY <1>1 DEF Range
<1>4. m \in Surjection(1 .. Len(m), Range(m))
  <2>1. \A y \in Range(m) : \E i \in 1 .. Len(m) : m[i] = y
    BY <1>1 DEF Range
  <2> QED BY <1>3, <2>1 DEF Surjection
<1>5. m \in Injection(1 .. Len(m), Range(m))
  BY <1>3 DEF Injection
<1> QED BY <1>2, <1>4, <1>5, FS_Surjection

LEMMA KeptIsInMemory ==
  ASSUME NEW list, NEW k \in Nat, NEW size \in Nat, NEW m,
         Cached(m, size, SeenBy(list, k)), GoneBefore(m, list, k),
         Kept(list, size, k + 1)
  PROVE  list[k + 1] \in Range(m)
<1> DEFINE p == list[k + 1]
<1>1. /\ m \in Seq(Int) /\ IsInjective(m) /\ Range(m) \subseteq SeenBy(list, k)
      /\ Len(m) <= size /\ Len(m) \in Nat
      /\ Len(m) < size => SeenBy(list, k) \subseteq Range(m)
  BY DEF Cached
<1> SUFFICES ASSUME p \notin Range(m) PROVE FALSE
  OBVIOUS
<1>2. PICK j \in 1 .. (k + 1) - 1 : KeptFrom(list, size, k + 1, j)
  BY DEF Kept
<1>3. /\ j \in 1 .. k /\ list[j] = p
      /\ \A x \in j + 1 .. k : list[x] # p
  <2>1. (k + 1) - 1 = k
    OBVIOUS
  <2> QED BY <2>1, <1>2 DEF KeptFrom, Since
<1>4. p \in SeenBy(list, k)
  BY <1>3 DEF SeenBy
<1>5. Len(m) = size
  BY <1>1, <1>4
<1>6. LastUse(list, k, p) >= j
  <2>1. LastUse(list, k, p) \in 1 .. k /\ j <= LastUse(list, k, p)
    BY <1>3, <1>4, LastUseIsLast
  <2> QED BY <2>1, <1>3
<1>7. Range(m) \subseteq Since(list, k + 1, j)
  <2> SUFFICES ASSUME NEW q \in Range(m) PROVE q \in Since(list, k + 1, j)
    OBVIOUS
  <2>1. q \in SeenBy(list, k)
    BY <1>1
  <2>2. LastUse(list, k, q) \in 1 .. k /\ list[LastUse(list, k, q)] = q
    BY <2>1, LastUseIsLast
  <2>3. LastUse(list, k, p) < LastUse(list, k, q)
    BY <1>4 DEF GoneBefore
  <2>4. LastUse(list, k, p) \in 1 .. k
    BY <1>4, LastUseIsLast
  <2>5. LastUse(list, k, q) \in j + 1 .. (k + 1) - 1
    BY <2>2, <2>3, <2>4, <1>3, <1>6
  <2> QED BY <2>2, <2>5 DEF Since
<1>8. IsFiniteSet(Since(list, k + 1, j)) /\ Cardinality(Since(list, k + 1, j)) \in Nat
  <2>1. j + 1 \in Int /\ (k + 1) - 1 \in Int
    BY <1>3
  <2> QED BY <2>1, ImageBound DEF Since
<1>9. Cardinality(Range(m)) = Len(m)
  BY <1>1, RangeCounts
<1>10. Cardinality(Range(m)) <= Cardinality(Since(list, k + 1, j))
  BY <1>7, <1>8, FS_Subset
<1>11. Cardinality(Since(list, k + 1, j)) < size
  BY <1>2 DEF KeptFrom
<1> QED BY <1>5, <1>8, <1>9, <1>10, <1>11

LEMMA MissesMove ==
  ASSUME NEW list, NEW size, NEW k \in Nat
  PROVE  /\ Cardinality(Misses(list, size, k)) \in Nat
         /\ Cardinality(Misses(list, size, k + 1))
              = Cardinality(Misses(list, size, k))
                  + (IF Kept(list, size, k + 1) THEN 0 ELSE 1)
<1> DEFINE M == Misses(list, size, k)
<1>1. IsFiniteSet(M)
  <2>1. IsFiniteSet(1 .. k)
    <3>1. 1 \in Int /\ k \in Int
      OBVIOUS
    <3> QED BY <3>1, FS_Interval
  <2>2. M \subseteq 1 .. k
    BY DEF Misses
  <2> QED BY <2>1, <2>2, FS_Subset
<1>2. Cardinality(M) \in Nat
  BY <1>1, FS_CardinalityType
<1>3. 1 .. k + 1 = (1 .. k) \cup {k + 1} /\ k + 1 \notin 1 .. k
  OBVIOUS
<1>4. CASE Kept(list, size, k + 1)
  <2>1. Misses(list, size, k + 1) = M
    BY <1>3, <1>4 DEF Misses
  <2> QED BY <2>1, <1>2, <1>4
<1>5. CASE ~Kept(list, size, k + 1)
  <2>1. Misses(list, size, k + 1) = M \cup {k + 1} /\ k + 1 \notin M
    BY <1>3, <1>5 DEF Misses
  <2>2. Cardinality(M \cup {k + 1}) = Cardinality(M) + 1
    BY <2>1, <1>1, FS_AddElement
  <2> QED BY <2>1, <2>2, <1>2, <1>5
<1> QED BY <1>4, <1>5

(* Leaving out repetitions changes no fault of LRU.  g says where a page   *)
(* of the list went.                                                       *)
Again(list, i) == i > 1 /\ list[i] = list[i - 1]
Folded(list, d, g, n) ==
    /\ n \in Nat /\ g \in [0 .. n -> Nat] /\ g[0] = 0
    /\ \A i \in 1 .. n : /\ Again(list, i) => g[i] = g[i - 1]
                         /\ ~Again(list, i) => g[i] = g[i - 1] + 1
                         /\ d[g[i]] = list[i]

LEMMA FoldedUp ==
  ASSUME NEW list, NEW d, NEW g, NEW n, Folded(list, d, g, n)
  PROVE  /\ \A j \in 0 .. n : \A i \in 0 .. j : g[i] <= g[j]
         /\ \A i \in 1 .. n : g[i] >= 1
         /\ \A i \in 0 .. n : \A y \in 1 .. g[i] : \E x \in 1 .. i : g[x] = y
<1>1. n \in Nat /\ g \in [0 .. n -> Nat] /\ g[0] = 0
  BY DEF Folded
<1>2. \A i \in 1 .. n : g[i] = g[i - 1] \/ g[i] = g[i - 1] + 1
  BY DEF Folded
<1> DEFINE Up(j) == \A i \in 0 .. j : g[i] <= g[j]
           On(j) == \A y \in 1 .. g[j] : \E x \in 1 .. j : g[x] = y
           S == {j \in 0 .. n : Up(j) /\ On(j)}
<1>3. 0 \in S
  <2>1. Up(0) /\ On(0)
    BY <1>1
  <2> HIDE DEF Up, On
  <2> QED BY <2>1, <1>1
<1>4. ASSUME NEW j \in 1 .. n, j - 1 \in S PROVE j \in S
  <2>1. /\ j - 1 \in 0 .. n /\ j \in 0 .. n /\ Up(j - 1) /\ On(j - 1)
        /\ g[j] \in Nat /\ g[j - 1] \in Nat
        /\ g[j] = g[j - 1] \/ g[j] = g[j - 1] + 1
    BY <1>1, <1>2, <1>4
  <2>2. Up(j)
    <3> SUFFICES ASSUME NEW i \in 0 .. j PROVE g[i] <= g[j]
      OBVIOUS
    <3>1. CASE i = j
      BY <3>1, <2>1
    <3>2. CASE i # j
      <4>1. i \in 0 .. j - 1 /\ i \in 0 .. n
        BY <3>2, <1>1
      <4>2. g[i] <= g[j - 1] /\ g[i] \in Nat
        BY <4>1, <2>1, <1>1
      <4> QED BY <4>2, <2>1
    <3> QED BY <3>1, <3>2
  <2>3. On(j)
    <3> SUFFICES ASSUME NEW y \in 1 .. g[j] PROVE \E x \in 1 .. j : g[x] = y
      OBVIOUS
    <3>1. CASE y = g[j]
      BY <3>1
    <3>2. CASE y # g[j]
      <4>1. y \in 1 .. g[j - 1]
        BY <3>2, <2>1
      <4>2. PICK x \in 1 .. j - 1 : g[x] = y
        BY <4>1, <2>1
      <4>3. x \in 1 .. j
        OBVIOUS
      <4> QED BY <4>2, <4>3
    <3> QED BY <3>1, <3>2
  <2> HIDE DEF Up, On
  <2> QED BY <2>1, <2>2, <2>3
<1> HIDE DEF S
<1>5. 0 .. n \subseteq S
  BY <1>1, <1>3, <1>4, UpTo
<1>6. \A j \in 0 .. n : Up(j) /\ On(j)
  BY <1>5 DEF S
<1>7. ASSUME NEW i \in 1 .. n PROVE g[i] >= 1
  <2>1. 1 \in 1 .. n /\ 1 \in 0 .. i /\ i \in 0 .. n
    BY <1>1
  <2>2. ~Again(list, 1)
    BY DEF Again
  <2>3. g[1] = g[1 - 1] + 1
    BY <2>1, <2>2 DEF Folded
  <2>4. g[1] = 1
    BY <2>3, <1>1
  <2>5. g[1] <= g[i]
    BY <2>1, <1>6
  <2>6. g[i] \in Nat
    BY <2>1, <1>1
  <2> QED BY <2>4, <2>5, <2>6
<1> QED BY <1>6, <1>7

LEMMA SinceIs ==
  ASSUME NEW list, NEW i \in Nat, NEW j \in Nat
  PROVE  IsFiniteSet(Since(list, i, j)) /\ Cardinality(Since(list, i, j)) \in Nat
<1>1. j + 1 \in Int /\ i - 1 \in Int
  OBVIOUS
<1> QED BY <1>1, ImageBound DEF Since

LEMMA FewerSince ==
  ASSUME NEW list, NEW d, NEW i \in Nat, NEW j \in Nat, NEW u \in Nat, NEW v \in Nat,
         NEW size \in Nat, KeptFrom(list, size, i, j),
         Since(d, u, v) \subseteq Since(list, i, j), d[u] = list[i], d[v] = list[j]
  PROVE  KeptFrom(d, size, u, v)
<1>1. /\ IsFiniteSet(Since(list, i, j)) /\ Cardinality(Since(list, i, j)) \in Nat
      /\ Cardinality(Since(d, u, v)) \in Nat
  BY SinceIs
<1>2. Cardinality(Since(d, u, v)) <= Cardinality(Since(list, i, j))
  BY <1>1, FS_Subset
<1> QED BY <1>1, <1>2 DEF KeptFrom

LEMMA KeptSame ==
  ASSUME NEW list, NEW d, NEW g, NEW n, Folded(list, d, g, n), NEW size \in Nat,
         NEW i \in 1 .. n, ~Again(list, i)
  PROVE  Kept(list, size, i) <=> Kept(d, size, g[i])
<1>1. n \in Nat /\ g \in [0 .. n -> Nat] /\ i \in 0 .. n /\ i - 1 \in 0 .. n
  BY DEF Folded
<1>2. g[i] = g[i - 1] + 1 /\ g[i] \in Nat /\ g[i - 1] \in Nat
  BY <1>1 DEF Folded
<1>3. \A x \in 1 .. n : d[g[x]] = list[x]
  BY DEF Folded
<1>4. /\ \A b \in 0 .. n : \A a \in 0 .. b : g[a] <= g[b]
      /\ \A x \in 1 .. n : g[x] >= 1
      /\ \A b \in 0 .. n : \A y \in 1 .. g[b] : \E x \in 1 .. b : g[x] = y
  BY FoldedUp
<1>5. ASSUME Kept(list, size, i) PROVE Kept(d, size, g[i])
  <2>1. PICK j \in 1 .. i - 1 : KeptFrom(list, size, i, j)
    BY <1>5 DEF Kept
  <2>2. j \in 1 .. n /\ j \in 0 .. i - 1 /\ j \in 0 .. n
    BY <1>1
  <2>3. g[j] \in Nat /\ g[j] >= 1 /\ g[j] <= g[i - 1]
    BY <2>2, <1>1, <1>4
  <2>4. g[j] \in 1 .. g[i] - 1
    BY <2>3, <1>2
  <2>5. Since(d, g[i], g[j]) \subseteq Since(list, i, j)
    <3> SUFFICES ASSUME NEW y \in g[j] + 1 .. g[i] - 1 PROVE d[y] \in Since(list, i, j)
      BY DEF Since
    <3>1. y \in 1 .. g[i - 1] /\ y > g[j]
      BY <1>2, <2>3
    <3>2. PICK x \in 1 .. i - 1 : g[x] = y
      BY <3>1, <1>1, <1>4
    <3>3. x > j
      <4>1. SUFFICES ASSUME x <= j PROVE FALSE
        BY <2>2
      <4>2. x \in 0 .. j
        BY <4>1, <2>2
      <4>3. g[x] <= g[j]
        BY <4>2, <2>2, <1>4
      <4> QED BY <4>3, <3>1, <3>2, <2>3
    <3>4. x \in j + 1 .. i - 1 /\ x \in 1 .. n
      BY <3>3, <2>2, <1>1
    <3>5. d[y] = list[x]
      BY <3>2, <3>4, <1>3
    <3> QED BY <3>4, <3>5 DEF Since
  <2>6. d[g[i]] = list[i] /\ d[g[j]] = list[j]
    BY <2>2, <1>3
  <2>7. i \in Nat /\ j \in Nat
    BY <1>1, <2>2
  <2>8. KeptFrom(d, size, g[i], g[j])
    BY <2>1, <2>3, <2>5, <2>6, <2>7, <1>2, FewerSince
  <2> QED BY <2>4, <2>8 DEF Kept
<1>6. ASSUME Kept(d, size, g[i]) PROVE Kept(list, size, i)
  <2>1. PICK v \in 1 .. g[i] - 1 : KeptFrom(d, size, g[i], v)
    BY <1>6 DEF Kept
  <2>2. v \in 1 .. g[i - 1] /\ v \in Nat
    BY <1>2
  <2> DEFINE S == {x \in 1 .. i - 1 : g[x] = v}
  <2>3. S \in SUBSET (0 .. i - 1) /\ S # {} /\ i - 1 \in Nat
    <3>1. \E x \in 1 .. i - 1 : g[x] = v
      BY <2>2, <1>1, <1>4
    <3>2. S \in SUBSET (0 .. i - 1) /\ i - 1 \in Nat
      OBVIOUS
    <3> QED BY <3>1, <3>2
  <2>4. \A x : x \in S <=> x \in 1 .. i - 1 /\ g[x] = v
    OBVIOUS
  <2> HIDE DEF S
  <2>5. PICK j \in S : \A x \in S : x <= j
    BY <2>3, MaxIs
  <2>6. j \in 1 .. i - 1 /\ g[j] = v /\ j \in 1 .. n /\ j \in Nat /\ i \in Nat
    BY <2>4, <1>1
  <2>7. Since(list, i, j) \subseteq Since(d, g[i], v)
    <3> SUFFICES ASSUME NEW x \in j + 1 .. i - 1 PROVE list[x] \in Since(d, g[i], v)
      BY DEF Since
    <3>1. x \in 1 .. i - 1 /\ x \in 1 .. n /\ x \in 0 .. i - 1 /\ j \in 0 .. x
          /\ x \in 0 .. n /\ ~(x <= j)
      BY <2>6, <1>1
    <3>2. g[j] <= g[x] /\ g[x] <= g[i - 1] /\ g[x] \in Nat
      BY <3>1, <1>1, <1>4
    <3>3. g[x] # v
      BY <3>1, <2>4, <2>5
    <3>4. g[x] \in v + 1 .. g[i] - 1
      BY <3>2, <3>3, <2>2, <2>6, <1>2
    <3>5. list[x] = d[g[x]]
      BY <3>1, <1>3
    <3> QED BY <3>4, <3>5 DEF Since
  <2>8. d[g[i]] = list[i] /\ d[v] = list[j]
    BY <2>6, <1>3
  <2>9. KeptFrom(list, size, i, j)
    BY <2>1, <2>2, <2>6, <2>7, <2>8, <1>2, FewerSince
  <2> QED BY <2>6, <2>9 DEF Kept
<1> QED BY <1>5, <1>6

LEMMA AgainIsKept ==
  ASSUME NEW list, NEW size \in Nat \ {0}, NEW i \in Nat, Again(list, i)
  PROVE  Kept(list, size, i)
<1>1. i - 1 \in 1 .. i - 1 /\ list[i - 1] = list[i] /\ (i - 1) + 1 .. i - 1 = {}
  BY DEF Again
<1>2. Since(list, i, i - 1) = {}
  BY <1>1 DEF Since
<1>3. KeptFrom(list, size, i, i - 1)
  BY <1>1, <1>2, FS_EmptySet DEF KeptFrom
<1> QED BY <1>1, <1>3 DEF Kept

LEMMA SameMisses ==
  ASSUME NEW list, NEW d, NEW g, NEW n, Folded(list, d, g, n), NEW size \in Nat \ {0}
  PROVE  Cardinality(Misses(list, size, n)) = Cardinality(Misses(d, size, g[n]))
<1> DEFINE C(l, k) == Cardinality(Misses(l, size, k))
           S == {i \in 0 .. n : C(list, i) = C(d, g[i])}
<1>1. n \in Nat /\ g \in [0 .. n -> Nat] /\ g[0] = 0
  BY DEF Folded
<1>2. 0 \in S
  <2>1. Misses(list, size, 0) = {} /\ Misses(d, size, 0) = {}
    BY DEF Misses
  <2>2. 0 \in 0 .. n
    BY <1>1
  <2>3. C(list, 0) = C(d, g[0])
    BY <2>1, <1>1
  <2> HIDE DEF C
  <2> QED BY <2>2, <2>3
<1>3. ASSUME NEW i \in 1 .. n, i - 1 \in S PROVE i \in S
  <2>1. /\ i - 1 \in Nat /\ (i - 1) + 1 = i /\ i \in 0 .. n /\ i - 1 \in 0 .. n
        /\ C(list, i - 1) = C(d, g[i - 1]) /\ g[i - 1] \in Nat
    BY <1>1, <1>3
  <2>2. C(list, (i - 1) + 1) = C(list, i - 1) + (IF Kept(list, size, (i - 1) + 1) THEN 0 ELSE 1)
    BY <2>1, MissesMove
  <2>3. C(list, i) = C(list, i - 1) + (IF Kept(list, size, i) THEN 0 ELSE 1)
    BY <2>1, <2>2
  <2>4. C(list, i - 1) \in Nat
    BY <2>1, MissesMove
  <2>5. CASE Again(list, i)
    <3>1. Kept(list, size, i)
      BY <2>5, <2>1, AgainIsKept
    <3>2. g[i] = g[i - 1]
      BY <2>5 DEF Folded
    <3> HIDE DEF C
    <3>3. C(list, i) = C(d, g[i])
      BY <3>1, <3>2, <2>1, <2>3, <2>4
    <3> QED BY <3>3, <2>1
  <2>6. CASE ~Again(list, i)
    <3>1. g[i] = g[i - 1] + 1
      BY <2>6 DEF Folded
    <3>2. Kept(list, size, i) <=> Kept(d, size, g[i])
      BY <2>6, KeptSame
    <3>3. C(d, g[i]) = C(d, g[i - 1]) + (IF Kept(d, size, g[i]) THEN 0 ELSE 1)
      BY <2>1, <3>1, MissesMove
    <3> HIDE DEF C
    <3>4. C(list, i) = C(d, g[i])
      BY <3>2, <3>3, <2>1, <2>3, <2>4
    <3> QED BY <3>4, <2>1
  <2> QED BY <2>5, <2>6
<1> HIDE DEF S
<1>4. 0 .. n \subseteq S
  BY <1>1, <1>2, <1>3, UpTo
<1>5. n \in S
  BY <1>1, <1>4
<1> QED BY <1>5 DEF S

(* Dedup folds a list.                                                     *)
LEMMA DedupFolds ==
  ASSUME NEW list \in Seq(Int)
  PROVE  \E g : /\ Folded(list, Dedup(list), g, Len(list))
                /\ g[Len(list)] = Len(Dedup(list))
<1> DEFINE n == Len(list)
<1>1. n \in Nat /\ \A i \in 1 .. n : list[i] \in Int
  OBVIOUS
<1>2. PICK f : DedupLoop(list, f) /\ Dedup(list) = f[n]
  BY DedupComputed, ChosenDedup
<1> HIDE DEF n
<1>3. f = [i \in 0 .. n |-> IF i = 0 THEN << >>
                            ELSE IF Again(list, i) THEN f[i - 1]
                                                   ELSE Append(f[i - 1], list[i])]
  BY <1>2 DEF DedupLoop, Again, n
<1>4. f[0] = << >>
  BY <1>1, <1>3
<1>5. ASSUME NEW i \in 1 .. n
      PROVE  f[i] = IF Again(list, i) THEN f[i - 1] ELSE Append(f[i - 1], list[i])
  <2>1. i \in 0 .. n /\ i # 0
    BY <1>1
  <2> QED BY <2>1, <1>3
<1> DEFINE Found(k, i) == Len(f[i]) \in 1 .. Len(f[k]) /\ f[k][Len(f[i])] = list[i]
           S == {k \in 0 .. n : f[k] \in Seq(Int) /\ \A i \in 1 .. k : Found(k, i)}
<1>6. 0 \in S
  <2>1. f[0] \in Seq(Int) /\ 1 .. 0 = {}
    BY <1>4
  <2> QED BY <2>1, <1>1
<1>7. ASSUME NEW k \in 1 .. n, k - 1 \in S PROVE k \in S
  <2>1. /\ k \in 0 .. n /\ f[k - 1] \in Seq(Int) /\ \A i \in 1 .. k - 1 : Found(k - 1, i)
        /\ list[k] \in Int /\ k \in Nat
    <3>1. k \in 0 .. n /\ list[k] \in Int /\ k \in Nat
      BY <1>1
    <3> HIDE DEF Found
    <3> QED BY <3>1, <1>7
  <2>2. CASE Again(list, k)
    <3>1. f[k] = f[k - 1] /\ k - 1 \in 1 .. k - 1 /\ list[k] = list[k - 1]
      BY <2>2, <2>1, <1>5 DEF Again
    <3>2. Found(k - 1, k - 1)
      BY <2>1, <3>1
    <3>3. Found(k, k)
      BY <3>1, <3>2
    <3>4. ASSUME NEW i \in 1 .. k - 1 PROVE Found(k, i)
      BY <2>1, <3>1
    <3>5. \A i \in 1 .. k : i = k \/ i \in 1 .. k - 1
      BY <2>1
    <3> HIDE DEF Found
    <3>6. \A i \in 1 .. k : Found(k, i)
      BY <3>3, <3>4, <3>5
    <3> QED BY <2>1, <3>1, <3>6
  <2>3. CASE ~Again(list, k)
    <3>1. f[k] = Append(f[k - 1], list[k])
      BY <2>3, <1>5
    <3>2. /\ f[k] \in Seq(Int) /\ Len(f[k]) = Len(f[k - 1]) + 1
          /\ f[k][Len(f[k - 1]) + 1] = list[k] /\ Len(f[k - 1]) \in Nat
          /\ \A x \in 1 .. Len(f[k - 1]) : f[k][x] = f[k - 1][x]
      BY <3>1, <2>1
    <3>3. Found(k, k)
      BY <3>2
    <3>4. ASSUME NEW i \in 1 .. k - 1 PROVE Found(k, i)
      <4>1. Len(f[i]) \in 1 .. Len(f[k - 1]) /\ f[k - 1][Len(f[i])] = list[i]
        BY <2>1
      <4>2. Len(f[i]) \in 1 .. Len(f[k])
        <5>1. Len(f[k]) = Len(f[k - 1]) + 1 /\ Len(f[k - 1]) \in Nat
          BY <3>2
        <5> QED BY ONLY <4>1, <5>1
      <4> QED BY <4>1, <4>2, <3>2
    <3>5. \A i \in 1 .. k : i = k \/ i \in 1 .. k - 1
      BY <2>1
    <3> HIDE DEF Found
    <3>6. \A i \in 1 .. k : Found(k, i)
      BY <3>3, <3>4, <3>5
    <3> QED BY <2>1, <3>2, <3>6
  <2> QED BY <2>2, <2>3
<1>8. 0 .. n \subseteq S
  <2> HIDE DEF S
  <2> QED BY <1>1, <1>6, <1>7, UpTo
<1>9. \A k \in 0 .. n : f[k] \in Seq(Int)
  BY <1>8
<1>10. \A i \in 1 .. n : Found(n, i)
  BY <1>1, <1>8
<1> DEFINE g == [i \in 0 .. n |-> Len(f[i])]
<1>11. g \in [0 .. n -> Nat] /\ g[0] = 0 /\ g[n] = Len(f[n])
  <2>1. \A i \in 0 .. n : Len(f[i]) \in Nat
    BY <1>9
  <2>2. Len(f[0]) = 0
    BY <1>4
  <2> QED BY <2>1, <2>2, <1>1
<1>12. ASSUME NEW i \in 1 .. n
       PROVE  /\ Again(list, i) => g[i] = g[i - 1]
              /\ ~Again(list, i) => g[i] = g[i - 1] + 1
              /\ f[n][g[i]] = list[i]
  <2>1. i \in 0 .. n /\ i - 1 \in 0 .. n /\ g[i] = Len(f[i]) /\ g[i - 1] = Len(f[i - 1])
    BY <1>1
  <2>2. f[i - 1] \in Seq(Int) /\ list[i] \in Int
    BY <2>1, <1>1, <1>9
  <2>3. Len(Append(f[i - 1], list[i])) = Len(f[i - 1]) + 1
    BY <2>2
  <2>4. f[n][Len(f[i])] = list[i]
    BY <1>10
  <2> HIDE DEF g
  <2> QED BY <2>1, <2>3, <2>4, <1>5
<1> HIDE DEF g, Found, S
<1>13. Folded(list, f[n], g, n)
  BY <1>1, <1>11, <1>12 DEF Folded
<1> QED BY <1>2, <1>11, <1>13 DEF n

LEMMA DedupKeepsFaults ==
  ASSUME NEW list \in Seq(Int), NEW size \in Nat \ {0}
  PROVE  LruFaults(Dedup(list), size) = LruFaults(list, size)
<1>1. Dedup(list) \in Seq(Int)
  BY DedupIs
<1>2. PICK g : Folded(list, Dedup(list), g, Len(list)) /\ g[Len(list)] = Len(Dedup(list))
  BY DedupFolds
<1>3. Cardinality(Misses(list, size, Len(list)))
        = Cardinality(Misses(Dedup(list), size, Len(Dedup(list))))
  BY <1>2, SameMisses
<1> QED BY <1>1, <1>3, FaultsAre

(* The simulation of LRU counts the misses, in a list that was made of the *)
(* trace by leaving out repetitions.                                       *)
MissesCounted(s) == s.policy = "LRU" =>
                s.miss = Cardinality(Misses(s.addrList, s.size, s.addrIndex))

FileOfTrace == /\ stage \in {"sizes", "run"} /\ pages # << >> => output = Dedup(pages)
               /\ stage = "run" /\ sim # NoSim => sim.addrList = output

LruInv == PagingInv /\ (sim # NoSim => MissesCounted(sim)) /\ FileOfTrace

LEMMA AccessCounts ==
  ASSUME SimRight(sim), MissesCounted(sim), SimStep, NEW m, NEW r, NEW x, Advance(m, r, x),
         x = IF Hit THEN sim.miss ELSE sim.miss + 1
  PROVE  MissesCounted(sim') /\ sim'.addrList = sim.addrList
<1>1. Shaped(sim) /\ SimTypes(sim) /\ SimKeeps(sim)
  BY DEF SimRight
<1> DEFINE R == Referenced(r)
           k == sim.addrIndex
<1>2. sim' = [sim EXCEPT !.memory = m, !.ref = R, !.addrIndex = k + 1, !.miss = x]
  BY DEF Advance
<1> HIDE DEF R
<1>3. sim' = [policy |-> sim.policy, asStrings |-> sim.asStrings,
              addrList |-> sim.addrList, size |-> sim.size, memory |-> m,
              ref |-> R, addrIndex |-> k + 1, miss |-> x]
  BY ONLY <1>1, <1>2 DEF Shaped
<1>4. /\ sim'.policy = sim.policy /\ sim'.addrList = sim.addrList
      /\ sim'.size = sim.size /\ sim'.addrIndex = k + 1 /\ sim'.miss = x
  BY ONLY <1>3
<1>5. ASSUME sim.policy = "LRU"
      PROVE  x = Cardinality(Misses(sim.addrList, sim.size, k + 1))
  <2>1. /\ k \in Nat /\ sim.size \in Nat /\ page = sim.addrList[k + 1]
        /\ Seen = SeenBy(sim.addrList, k) /\ Cached(sim.memory, sim.size, Seen)
        /\ InOrder(sim.memory, sim.addrList, k) /\ GoneBefore(sim.memory, sim.addrList, k)
    BY <1>5, AtAccess
  <2>2. Hit => Kept(sim.addrList, sim.size, k + 1)
    BY <2>1, InMemoryIsKept DEF Hit
  <2>3. Kept(sim.addrList, sim.size, k + 1) => Hit
    BY <2>1, KeptIsInMemory DEF Hit
  <2>4. /\ Cardinality(Misses(sim.addrList, sim.size, k)) \in Nat
        /\ Cardinality(Misses(sim.addrList, sim.size, k + 1))
             = Cardinality(Misses(sim.addrList, sim.size, k))
                 + (IF Kept(sim.addrList, sim.size, k + 1) THEN 0 ELSE 1)
    BY <2>1, MissesMove
  <2>5. sim.miss = Cardinality(Misses(sim.addrList, sim.size, k))
    BY <1>5 DEF MissesCounted
  <2> HIDE DEF k
  <2>6. CASE Hit
    BY <2>2, <2>4, <2>5, <2>6
  <2>7. CASE ~Hit
    BY <2>3, <2>4, <2>5, <2>7
  <2> QED BY <2>6, <2>7
<1> QED BY <1>4, <1>5 DEF MissesCounted

LEMMA StartCounts ==
  ASSUME NEW policy, NEW list, NEW asStrings, NEW size,
         StartSimulation(policy, list, asStrings, size)
  PROVE  MissesCounted(sim') /\ sim'.addrList = list
<1>1. sim' = [policy |-> policy, asStrings |-> asStrings, addrList |-> list,
              size |-> size, memory |-> << >>, ref |-> << >>, addrIndex |-> 0,
              miss |-> 0]
  BY DEF StartSimulation, NoSim
<1>2. sim'.addrList = list /\ sim'.addrIndex = 0 /\ sim'.miss = 0
  BY <1>1
<1>3. Misses(sim'.addrList, sim'.size, 0) = {}
  BY DEF Misses
<1> QED BY <1>2, <1>3, FS_EmptySet DEF MissesCounted

LEMMA NextKeepsLru == LruInv /\ [PagingNext]_pagingVars => LruInv'
<1> SUFFICES ASSUME LruInv, [PagingNext]_pagingVars PROVE LruInv'
  OBVIOUS
<1>0. /\ PagingInv' /\ PagingInv /\ FileOfTrace /\ Waited
      /\ sim # NoSim => SimRight(sim) /\ MissesCounted(sim)
  BY NextKeepsPaging DEF LruInv, PagingInv
<1>1. ASSUME NEW lines \in Traces, Load(lines) PROVE LruInv'
  <2>1. sim' = NoSim /\ stage' = "export"
    BY <1>1 DEF Load
  <2> QED BY <2>1, <1>0 DEF LruInv, FileOfTrace
<1>2. ASSUME NEW policy \in ByHand, NEW lines \in Traces,
             NEW size \in Sizes(get_page_list(lines)),
             StartByHand(policy, get_page_list(lines), size)
      PROVE  LruInv'
  <2>1. stage' = "by hand" /\ StartSimulation(policy, get_page_list(lines), TRUE, size)
    BY <1>2 DEF StartByHand
  <2>2. MissesCounted(sim')
    BY <2>1, StartCounts
  <2> QED BY <2>1, <2>2, <1>0 DEF LruInv, FileOfTrace
<1>3. CASE export_page_trace
  <2>1. /\ sim' = NoSim /\ stage' = "sizes" /\ pages' = pages
        /\ pages # << >> => output' = Dedup(pages)
    BY <1>0, <1>3 DEF export_page_trace, Waited
  <2> QED BY <2>1, <1>0 DEF LruInv, FileOfTrace
<1>4. CASE run_simulations
  <2>1. /\ sim' = NoSim /\ stage = "sizes" /\ pages' = pages /\ output' = output
    BY <1>0, <1>4 DEF run_simulations, Waited
  <2> QED BY <2>1, <1>0 DEF LruInv, FileOfTrace
<1>5. CASE StartNext
  <2>1. /\ stage = "run" /\ UNCHANGED <<stage, pages, output>>
        /\ StartSimulation(Head(queue)[2], output, FALSE, Head(queue)[1])
    BY <1>5 DEF StartNext
  <2>2. MissesCounted(sim') /\ sim'.addrList = output
    BY <2>1, StartCounts
  <2> QED BY <2>1, <2>2, <1>0 DEF LruInv, FileOfTrace
<1>6. CASE Collect
  <2>1. sim' = NoSim /\ stage = "run" /\ UNCHANGED <<stage, pages, output>>
    BY <1>6 DEF Collect
  <2> QED BY <2>1, <1>0 DEF LruInv, FileOfTrace
<1>7. CASE AllRun
  <2>1. sim' = NoSim /\ stage' = "done"
    BY <1>7 DEF AllRun
  <2> QED BY <2>1, <1>0 DEF LruInv, FileOfTrace
<1>8. CASE AccessStep
  <2>1. sim # NoSim /\ SimStep /\ UNCHANGED driver
    BY <1>8 DEF AccessStep, AccessHit, AccessMiss, ClockScan, Replace, SimStep
  <2>2. SimRight(sim) /\ MissesCounted(sim)
    BY <1>0, <2>1
  <2>3. MissesCounted(sim') /\ sim'.addrList = sim.addrList
    <3>1. CASE AccessHit
      <4>1. PICK m : Hit /\ Advance(m, sim.ref, sim.miss)
        BY <3>1 DEF AccessHit
      <4> QED BY <4>1, <2>1, <2>2, AccessCounts
    <3>2. CASE AccessMiss
      <4>1. ~Hit /\ Advance(Append(sim.memory, page), sim.ref, sim.miss + 1)
        BY <3>2 DEF AccessMiss
      <4> QED BY <4>1, <2>1, <2>2, AccessCounts
    <3>3. CASE Replace
      <4>1. \E m, r : ~Hit /\ Advance(m, r, sim.miss + 1)
        BY <3>3 DEF Replace
      <4> QED BY <4>1, <2>1, <2>2, AccessCounts
    <3>4. CASE ClockScan
      <4>1. Shaped(sim) /\ sim.policy = "CLOCK"
        BY <3>4, <2>2 DEF ClockScan, SimRight
      <4>2. \E R : sim' = [sim EXCEPT !.ref = R]
        BY <3>4 DEF ClockScan
      <4>3. sim'.policy = sim.policy /\ sim'.addrList = sim.addrList
        BY ONLY <4>1, <4>2 DEF Shaped
      <4> QED BY <4>1, <4>3 DEF MissesCounted
    <3> QED BY <1>8, <3>1, <3>2, <3>3, <3>4 DEF AccessStep
  <2> QED BY <2>1, <2>3, <1>0 DEF LruInv, FileOfTrace, driver
<1>9. CASE UNCHANGED pagingVars
  BY <1>0, <1>9 DEF LruInv, FileOfTrace, pagingVars
<1>10. DriverStep => export_page_trace \/ run_simulations \/ StartNext \/ Collect \/ AllRun
  BY DEF DriverStep
<1> QED BY <1>1, <1>2, <1>3, <1>4, <1>5, <1>6, <1>7, <1>8, <1>9, <1>10 DEF PagingNext

LEMMA KeepsFaults == LruInv => LruFaultsOfTrace
<1> SUFFICES ASSUME LruInv, OfTrace, sim.policy = "LRU"
             PROVE  sim.miss = LruFaults(pages, sim.size)
  BY DEF LruFaultsOfTrace
<1>1. /\ sim # NoSim /\ sim.addrIndex = Len(sim.addrList) /\ stage = "run"
      /\ pages # << >>
  BY DEF OfTrace, Finished
<1>2. SimTypes(sim) /\ MissesCounted(sim) /\ DriverRight /\ FileOfTrace
  BY <1>1 DEF LruInv, PagingInv, SimRight
<1>3. sim.addrList = Dedup(pages) /\ pages \in Seq(Int) /\ sim.size \in Nat \ {0}
  BY <1>1, <1>2 DEF FileOfTrace, DriverRight, SimTypes
<1>4. Dedup(pages) \in Seq(Int)
  BY <1>3, DedupIs
<1>5. sim.miss = LruFaults(Dedup(pages), sim.size)
  <2>1. sim.miss = Cardinality(Misses(Dedup(pages), sim.size, Len(Dedup(pages))))
    BY <1>1, <1>2, <1>3 DEF MissesCounted
  <2> QED BY <2>1, <1>4, FaultsAre
<1> QED BY <1>3, <1>5, DedupKeepsFaults

(* What a simulation keeps is what the definitions ask of its memory.      *)
LEMMA KeepsMemory ==
  ASSUME SimRight(sim)
  PROVE  MemorySound /\ LruKeepsRecent
<1> DEFINE m == sim.memory
           k == sim.addrIndex
<1>1. /\ k \in Nat /\ sim.size \in Nat /\ sim.policy \in PolicyNames
  BY DEF SimRight, SimTypes
<1>2. Seen = SeenBy(sim.addrList, k)
  BY DEF Seen, SeenBy
<1>3. /\ Cached(m, sim.size, Seen) /\ sim.ref \in [Counted(sim) -> 0 .. ClockBits]
      /\ sim.policy = "LRU" => InOrder(m, sim.addrList, k) /\ GoneBefore(m, sim.addrList, k)
  BY <1>2 DEF SimRight, SimKeeps
<1>4. /\ m \in Seq(Int) /\ IsInjective(m) /\ Range(m) \subseteq Seen
      /\ Len(m) <= sim.size /\ (Len(m) < sim.size => Seen \subseteq Range(m))
  BY <1>3 DEF Cached
<1>5. Len(m) \in Nat /\ DOMAIN m = 1 .. Len(m)
  BY <1>4
<1>6. IsFiniteSet(Seen) /\ Cardinality(Seen) \in Nat
  <2> DEFINE f == [i \in 1 .. k |-> sim.addrList[i]]
  <2>1. IsFiniteSet(1 .. k)
    <3>1. 1 \in Int /\ k \in Int
      BY <1>1
    <3> HIDE DEF k
    <3> QED BY ONLY <3>1, FS_Interval
  <2>2. f \in Surjection(1 .. k, Seen)
    <3>1. f \in [1 .. k -> Seen]
      BY DEF Seen
    <3>2. \A y \in Seen : \E i \in 1 .. k : f[i] = y
      BY DEF Seen
    <3> HIDE DEF f
    <3> QED BY <3>1, <3>2 DEF Surjection
  <2> HIDE DEF f
  <2>3. IsFiniteSet(Seen)
    BY <2>1, <2>2, FS_Surjection
  <2> QED BY <2>3, FS_CardinalityType
<1>7. IsFiniteSet(Range(m)) /\ Cardinality(Range(m)) = Len(m)
  BY <1>4, RangeCounts
<1>8. Len(m) <= Cardinality(Seen)
  BY <1>4, <1>6, <1>7, FS_Subset
<1>9. Len(m) = Min({sim.size, Cardinality(Seen)})
  <2> DEFINE S == {sim.size, Cardinality(Seen)}
  <2>1. S \in SUBSET Nat /\ S # {}
    BY <1>1, <1>6
  <2>2. \A x \in S : Len(m) <= x
    BY <1>4, <1>8
  <2>3. Len(m) \in S
    <3>1. CASE Len(m) < sim.size
      <4>1. Range(m) = Seen
        BY <3>1, <1>4
      <4> QED BY <4>1, <1>7
    <3>2. CASE ~(Len(m) < sim.size)
      BY <3>2, <1>1, <1>4, <1>5
    <3> QED BY <3>1, <3>2
  <2> HIDE DEF S
  <2>4. Min(S) \in S /\ \A x \in S : Min(S) <= x
    BY <2>1, MinIs
  <2>5. Len(m) <= Min(S) /\ Min(S) <= Len(m) /\ Min(S) \in Nat
    BY <2>1, <2>2, <2>3, <2>4
  <2>6. Len(m) = Min(S)
    BY <2>5, <1>5
  <2> QED BY <2>6 DEF S
<1>10. /\ DOMAIN sim.ref = IF sim.policy = "CLOCK" THEN Range(m) ELSE Seen
       /\ \A p \in DOMAIN sim.ref : sim.ref[p] \in 0 .. ClockBits
  <2>1. Counted(sim) = IF sim.policy = "CLOCK" THEN Range(m) ELSE Seen
    BY <1>2 DEF Counted
  <2> QED BY <2>1, <1>3
<1>11. MemorySound
  BY <1>4, <1>9, <1>10 DEF MemorySound
<1>12. LruKeepsRecent
  <2>1. \A p : Used(p) = LastUse(sim.addrList, k, p)
    BY DEF Used, LastUse
  <2> QED BY <2>1, <1>2, <1>3 DEF LruKeepsRecent, InOrder, GoneBefore
<1> QED BY <1>11, <1>12

(* The memory of every simulation, whatever its policy, trace and size:    *)
(* the pages in it are different, as many as have room and have been used, *)
(* those of LRU are the ones used last, in that order, and CLOCK counts    *)
(* the pages in memory and no others.  LRU then misses on the file what    *)
(* its definition says of the whole trace.                                 *)
THEOREM MemoryAlwaysRight == PagingSpec => []MemoryRight
<1>1. PagingInit => LruInv
  <2> SUFFICES ASSUME PagingInit PROVE LruInv
    OBVIOUS
  <2>1. stage = "idle" /\ sim = NoSim
    BY DEF PagingInit
  <2> QED BY <2>1, InitPaging DEF LruInv, FileOfTrace
<1>2. LruInv /\ [PagingNext]_pagingVars => LruInv'
  BY NextKeepsLru
<1>3. LruInv => MemoryRight
  <2>1. NoSim.policy # "LRU"
    BY DEF NoSim
  <2>2. sim = NoSim => MemorySound /\ LruKeepsRecent
    BY <2>1 DEF MemorySound, LruKeepsRecent
  <2> QED BY <2>2, KeepsMemory, KeepsFaults DEF LruInv, PagingInv, MemoryRight
<1> QED BY <1>1, <1>2, <1>3, PTL DEF PagingSpec

-----------------------------------------------------------------------------
(* The fewest faults.  Of two memories that differ in one page, the one    *)
(* whose page is used sooner costs no more, so that no victim is better    *)
(* than the page used last; and a memory of more pages, with room for one  *)
(* more, costs no more.                                                    *)

(* x takes the place of v.                                                 *)
After(m, v, x) == (m \ {v}) \cup {x}

(* The faults of a memory m when its next page is x and g says what is to  *)
(* come after it.                                                          *)
FaultsFrom(x, size, g, m) ==
    IF x \in m THEN g[m]
    ELSE IF Cardinality(m) < size THEN 1 + g[m \cup {x}]
    ELSE 1 + Min({g[After(m, v, x)] : v \in m})

(* h[i][m] are the fewest faults from place i on with memory m.            *)
Fewest(list, size, h) ==
    /\ h \in [1 .. Len(list) + 1 -> [SUBSET Range(list) -> Nat]]
    /\ \A m \in SUBSET Range(list) : h[Len(list) + 1][m] = 0
    /\ \A i \in 1 .. Len(list), m \in SUBSET Range(list) :
          h[i][m] = FaultsFrom(list[i], size, h[i + 1], m)

(* It is that of the best choice.                                          *)
Chosen(c, x, size, g, m) ==
    /\ c \in Nat
    /\ x \in m => c = g[m]
    /\ x \notin m /\ Cardinality(m) < size => c = 1 + g[m \cup {x}]
    /\ x \notin m /\ ~(Cardinality(m) < size) =>
         /\ \A v \in m : c <= 1 + g[After(m, v, x)]
         /\ \E v \in m : c = 1 + g[After(m, v, x)]

LEMMA FaultsFromIs ==
  ASSUME NEW R, IsFiniteSet(R), NEW m \in SUBSET R, NEW x \in R, NEW size \in Nat \ {0},
         NEW g \in [SUBSET R -> Nat]
  PROVE  Chosen(FaultsFrom(x, size, g, m), x, size, g, m)
<1> DEFINE c == FaultsFrom(x, size, g, m)
<1> SUFFICES Chosen(c, x, size, g, m)
  OBVIOUS
<1>1. CASE x \in m
  <2>1. c = g[m]
    BY <1>1 DEF FaultsFrom
  <2>2. c \in Nat
    BY <2>1, <1>1
  <2> HIDE DEF c
  <2> QED BY <2>1, <2>2, <1>1 DEF Chosen
<1>2. CASE x \notin m /\ Cardinality(m) < size
  <2>1. c = 1 + g[m \cup {x}] /\ m \cup {x} \in SUBSET R
    BY <1>2 DEF FaultsFrom
  <2>2. c \in Nat
    BY <2>1
  <2> HIDE DEF c
  <2> QED BY <2>1, <2>2, <1>2 DEF Chosen
<1>3. CASE x \notin m /\ ~(Cardinality(m) < size)
  <2> DEFINE S == {g[After(m, v, x)] : v \in m}
  <2>1. c = 1 + Min(S)
    BY <1>3 DEF FaultsFrom
  <2>2. m # {}
    <3>1. SUFFICES m # {}
      OBVIOUS
    <3>2. Cardinality({}) = 0 /\ 0 < size
      BY FS_EmptySet
    <3>3. Cardinality(m) # Cardinality({})
      BY <3>2, <1>3
    <3> QED BY <3>3
  <2>3. \A v \in m : After(m, v, x) \in SUBSET R
    BY DEF After
  <2>4. S \in SUBSET Nat /\ S # {} /\ \A v \in m : g[After(m, v, x)] \in S
    BY <2>2, <2>3
  <2>5. \A y \in S : \E v \in m : y = g[After(m, v, x)]
    OBVIOUS
  <2> HIDE DEF S, c
  <2>6. Min(S) \in S /\ \A y \in S : Min(S) <= y
    BY <2>4, MinIs
  <2>7. PICK v \in m : Min(S) = g[After(m, v, x)]
    BY <2>5, <2>6
  <2>8. Min(S) \in Nat
    BY <2>4, <2>6
  <2>9. \A u \in m : g[After(m, u, x)] \in Nat
    BY <2>3
  <2>10. \A u \in m : c <= 1 + g[After(m, u, x)]
    BY <2>1, <2>4, <2>6, <2>8, <2>9
  <2> QED BY <2>1, <2>7, <2>8, <2>10, <1>3 DEF Chosen
<1> HIDE DEF c
<1> QED BY <1>1, <1>2, <1>3

(* There is such a table, filled from the end of the list.                 *)
LEMMA FewestExists ==
  ASSUME NEW list \in Seq(Int), NEW size \in Nat \ {0}
  PROVE  \E h : Fewest(list, size, h)
<1> DEFINE n == Len(list)
           R == Range(list)
           T == [SUBSET R -> Nat]
           z == [m \in SUBSET R |-> 0]
           step == [y \in (1 .. n) \X T |->
                       [m \in SUBSET R |-> FaultsFrom(list[n + 1 - y[1]], size, y[2], m)]]
<1>1. n \in Nat /\ \A i \in 1 .. n : list[i] \in R
  BY DEF Range
<1>2. IsFiniteSet(R)
  <2>1. R = {list[i] : i \in 1 .. n}
    BY DEF Range
  <2>2. 1 \in Int /\ n \in Int
    BY <1>1
  <2> HIDE DEF n, R
  <2> QED BY <2>1, <2>2, ImageBound
<1> HIDE DEF n, R
<1>3. z \in T
  OBVIOUS
<1>4. step \in [(1 .. n) \X T -> T]
  <2>1. ASSUME NEW k \in 1 .. n, NEW g \in T
        PROVE  [m \in SUBSET R |-> FaultsFrom(list[n + 1 - k], size, g, m)] \in T
    <3>1. list[n + 1 - k] \in R
      BY <1>1
    <3>2. ASSUME NEW m \in SUBSET R PROVE FaultsFrom(list[n + 1 - k], size, g, m) \in Nat
      BY <3>1, <1>2, FaultsFromIs DEF Chosen
    <3> QED BY <3>2
  <2> HIDE DEF T
  <2> QED BY <2>1
<1>5. PICK f : Computed(f, n, T, z, step)
  <2> HIDE DEF T, z, step
  <2> QED BY <1>1, <1>3, <1>4, CanBeComputed
<1>6. f \in [0 .. n -> T] /\ f[0] = z /\ \A k \in 1 .. n : f[k] = step[<<k, f[k - 1]>>]
  BY <1>5 DEF Computed
<1> DEFINE h == [i \in 1 .. n + 1 |-> f[n + 1 - i]]
<1>7. h \in [1 .. n + 1 -> T]
  <2> HIDE DEF T
  <2>1. ASSUME NEW i \in 1 .. n + 1 PROVE f[n + 1 - i] \in T
    <3>1. n + 1 - i \in 0 .. n
      BY <1>1
    <3> QED BY <1>6, <3>1
  <2> QED BY <2>1
<1>8. h[n + 1] = z
  <2>1. n + 1 \in 1 .. n + 1 /\ n + 1 - (n + 1) = 0
    BY <1>1
  <2> QED BY <2>1, <1>6
<1>9. ASSUME NEW i \in 1 .. n, NEW m \in SUBSET R
      PROVE  h[i][m] = FaultsFrom(list[i], size, h[i + 1], m)
  <2> DEFINE k == n + 1 - i
  <2>1. k \in 1 .. n /\ k - 1 \in 0 .. n /\ n + 1 - k = i /\ n + 1 - (i + 1) = k - 1
    BY <1>1
  <2>2. h[i] = f[k] /\ h[i + 1] = f[k - 1]
    BY <1>1, <2>1
  <2> HIDE DEF k, h
  <2>3. f[k - 1] \in T /\ f[k] = step[<<k, f[k - 1]>>]
    BY <1>6, <2>1
  <2>4. <<k, f[k - 1]>> \in (1 .. n) \X T
    BY <2>1, <2>3
  <2>5. f[k] = [q \in SUBSET R |-> FaultsFrom(list[n + 1 - k], size, f[k - 1], q)]
    BY <2>3, <2>4
  <2> QED BY <2>1, <2>2, <2>5
<1>10. \A m \in SUBSET R : h[n + 1][m] = 0
  BY <1>8
<1> HIDE DEF h
<1> QED BY <1>7, <1>9, <1>10 DEF Fewest, n, R

(* It is the table of which MinFaults takes the first entry.               *)
FewestLoop(list, size, f) ==
    f = [at \in (1 .. Len(list) + 1) \X SUBSET Range(list) |->
            IF at[1] > Len(list) THEN 0
            ELSE IF list[at[1]] \in at[2] THEN f[<<at[1] + 1, at[2]>>]
            ELSE IF Cardinality(at[2]) < size
              THEN 1 + f[<<at[1] + 1, at[2] \cup {list[at[1]]}>>]
              ELSE 1 + Min({f[<<at[1] + 1, (at[2] \ {v}) \cup {list[at[1]]}>>] :
                               v \in at[2]})]

LEMMA ChosenFewest ==
  ASSUME NEW list, NEW size, \E f : FewestLoop(list, size, f)
  PROVE  \E f : FewestLoop(list, size, f) /\ MinFaults(list, size) = f[<<1, {}>>]
BY ZenonT(60) DEF MinFaults, FewestLoop

LEMMA MinFaultsIs ==
  ASSUME NEW list \in Seq(Int), NEW size \in Nat \ {0}
  PROVE  \E h : Fewest(list, size, h) /\ MinFaults(list, size) = h[1][{}]
<1> DEFINE n == Len(list)
           R == Range(list)
           D == (1 .. n + 1) \X SUBSET R
           Val(f, i, m) == IF i > n THEN 0
                           ELSE IF list[i] \in m THEN f[<<i + 1, m>>]
                           ELSE IF Cardinality(m) < size
                             THEN 1 + f[<<i + 1, m \cup {list[i]}>>]
                             ELSE 1 + Min({f[<<i + 1, (m \ {v}) \cup {list[i]}>>] : v \in m})
           Same(f, g, i) == \A q \in SUBSET R : g[q] = f[<<i, q>>]
<1>1. n \in Nat /\ \A i \in 1 .. n : list[i] \in R
  BY DEF Range
<1>2. \A f : FewestLoop(list, size, f) <=> f = [at \in D |-> Val(f, at[1], at[2])]
  BY DEF FewestLoop
<1> HIDE DEF n, R
<1>3. ASSUME NEW f, NEW g, NEW i \in 1 .. n, NEW m \in SUBSET R, Same(f, g, i + 1)
      PROVE  Val(f, i, m) = FaultsFrom(list[i], size, g, m)
  <2>1. ~(i > n)
    BY <1>1
  <2>2. m \cup {list[i]} \in SUBSET R
    BY <1>1
  <2>3. \A v \in m : g[After(m, v, list[i])] = f[<<i + 1, (m \ {v}) \cup {list[i]}>>]
    BY <1>1, <1>3 DEF After
  <2>4. {g[After(m, v, list[i])] : v \in m}
          = {f[<<i + 1, (m \ {v}) \cup {list[i]}>>] : v \in m}
    BY <2>3
  <2> QED BY <1>3, <2>1, <2>2, <2>4 DEF FaultsFrom
<1>4. \E f : FewestLoop(list, size, f)
  <2>1. PICK h : Fewest(list, size, h)
    BY FewestExists
  <2> DEFINE f == [at \in D |-> h[at[1]][at[2]]]
  <2>2. \A i \in 1 .. n + 1, m \in SUBSET R : f[<<i, m>>] = h[i][m]
    OBVIOUS
  <2>3. ASSUME NEW i \in 1 .. n + 1, NEW m \in SUBSET R
        PROVE  h[i][m] = Val(f, i, m)
    <3>1. CASE i = n + 1
      <4>1. i > n
        BY <1>1, <3>1
      <4>2. h[n + 1][m] = 0
        BY <2>1 DEF Fewest, n, R
      <4> QED BY <3>1, <4>1, <4>2
    <3>2. CASE i # n + 1
      <4>1. i \in 1 .. n /\ i + 1 \in 1 .. n + 1
        BY <1>1, <3>2
      <4>2. h[i][m] = FaultsFrom(list[i], size, h[i + 1], m)
        BY <2>1, <4>1 DEF Fewest, n, R
      <4>3. Same(f, h[i + 1], i + 1)
        BY <2>2, <4>1
      <4> HIDE DEF f, Val, Same
      <4> QED BY <4>1, <4>2, <4>3, <1>3
    <3> QED BY <3>1, <3>2
  <2>4. \A at \in D : h[at[1]][at[2]] = Val(f, at[1], at[2])
    <3>1. \A at \in D : at[1] \in 1 .. n + 1 /\ at[2] \in SUBSET R
      OBVIOUS
    <3> HIDE DEF f, Val, D
    <3> QED BY <2>3, <3>1
  <2>5. f = [at \in D |-> Val(f, at[1], at[2])]
    <3> HIDE DEF Val, D
    <3>1. \A g : (\A at \in D : h[at[1]][at[2]] = Val(g, at[1], at[2]))
                 => [at \in D |-> h[at[1]][at[2]]] = [at \in D |-> Val(g, at[1], at[2])]
      OBVIOUS
    <3> QED BY <2>4, <3>1
  <2> HIDE DEF f, Val, D
  <2> QED BY <2>5, <1>2
<1>5. PICK f : FewestLoop(list, size, f) /\ MinFaults(list, size) = f[<<1, {}>>]
  BY <1>4, ChosenFewest
<1> DEFINE h == [i \in 1 .. n + 1 |-> [m \in SUBSET R |-> f[<<i, m>>]]]
<1>6. \A i \in 1 .. n + 1, m \in SUBSET R : f[<<i, m>>] = Val(f, i, m)
  <2>2. \A i \in 1 .. n + 1, m \in SUBSET R :
           <<i, m>> \in D /\ <<i, m>>[1] = i /\ <<i, m>>[2] = m
    OBVIOUS
  <2> HIDE DEF Val, D
  <2>1. f = [at \in D |-> Val(f, at[1], at[2])]
    BY <1>2, <1>5
  <2>3. \A at \in D : f[at] = Val(f, at[1], at[2])
    BY <2>1
  <2> SUFFICES ASSUME NEW i \in 1 .. n + 1, NEW m \in SUBSET R
               PROVE  f[<<i, m>>] = Val(f, i, m)
    OBVIOUS
  <2> DEFINE at == <<i, m>>
  <2>4. at \in D /\ at[1] = i /\ at[2] = m
    BY <2>2
  <2> HIDE DEF at
  <2>5. f[at] = Val(f, i, m)
    BY <2>3, <2>4
  <2> QED BY <2>5 DEF at
<1> HIDE DEF Val
<1>7. \A i \in 1 .. n + 1, m \in SUBSET R : h[i][m] = f[<<i, m>>]
  OBVIOUS
<1>8. \A i \in 1 .. n + 1 : h[i] = [m \in SUBSET R |-> f[<<i, m>>]]
  OBVIOUS
<1>9. \A m \in SUBSET R : f[<<n + 1, m>>] = 0
  <2>1. n + 1 > n /\ n + 1 \in 1 .. n + 1
    BY <1>1
  <2> QED BY <2>1, <1>6 DEF Val
<1>10. DOMAIN h = 1 .. n + 1
  OBVIOUS
<1>11. h = [i \in 1 .. n + 1 |-> h[i]]
  OBVIOUS
<1> HIDE DEF h
<1>12. ASSUME NEW i \in 1 .. n, NEW m \in SUBSET R
       PROVE  h[i][m] = FaultsFrom(list[i], size, h[i + 1], m)
  <2>1. i \in 1 .. n + 1 /\ i + 1 \in 1 .. n + 1
    BY <1>1
  <2>2. Same(f, h[i + 1], i + 1)
    BY <2>1, <1>7
  <2>3. h[i][m] = Val(f, i, m)
    BY <2>1, <1>6, <1>7
  <2> HIDE DEF Same
  <2> QED BY <2>2, <2>3, <1>3
<1>13. IsFiniteSet(R)
  <2>1. R = {list[i] : i \in 1 .. n}
    BY DEF Range, R, n
  <2>2. 1 \in Int /\ n \in Int
    BY <1>1
  <2> QED BY <2>1, <2>2, ImageBound
<1>14. \A i \in 1 .. n + 1 : h[i] \in [SUBSET R -> Nat]
  <2> DEFINE S == {k \in 0 .. n : h[n + 1 - k] \in [SUBSET R -> Nat]}
  <2>1. 0 \in S
    <3>1. n + 1 - 0 = n + 1 /\ n + 1 \in 1 .. n + 1 /\ 0 \in 0 .. n
      BY <1>1
    <3>2. h[n + 1] = [m \in SUBSET R |-> f[<<n + 1, m>>]]
      BY <3>1, <1>8
    <3>3. h[n + 1] \in [SUBSET R -> Nat]
      BY <3>2, <1>9
    <3> QED BY <3>1, <3>3
  <2>2. ASSUME NEW k \in 1 .. n, k - 1 \in S PROVE k \in S
    <3> DEFINE i == n + 1 - k
    <3>1. i \in 1 .. n /\ i + 1 = n + 1 - (k - 1) /\ i \in 1 .. n + 1 /\ k \in 0 .. n
      BY <1>1
    <3>2. h[i + 1] \in [SUBSET R -> Nat]
      BY <2>2, <3>1
    <3> HIDE DEF i
    <3>3. \A m \in SUBSET R : FaultsFrom(list[i], size, h[i + 1], m) \in Nat
      BY <1>1, <1>13, <3>1, <3>2, FaultsFromIs DEF Chosen
    <3>6. \A m \in SUBSET R : h[i][m] = f[<<i, m>>]
      BY <3>1, <1>7
    <3>7. \A m \in SUBSET R : h[i][m] = FaultsFrom(list[i], size, h[i + 1], m)
      BY <3>1, <1>12
    <3>4. \A m \in SUBSET R : f[<<i, m>>] \in Nat
      BY ONLY <3>3, <3>6, <3>7
    <3>5. h[i] \in [SUBSET R -> Nat]
      <4>1. h[i] = [m \in SUBSET R |-> f[<<i, m>>]]
        BY <3>1, <1>8
      <4> QED BY <4>1, <3>4
    <3> QED BY <3>1, <3>5 DEF i
  <2> HIDE DEF S
  <2>3. 0 .. n \subseteq S
    BY <1>1, <2>1, <2>2, UpTo
  <2>4. \A i \in 1 .. n + 1 : n + 1 - i \in 0 .. n /\ n + 1 - (n + 1 - i) = i
    BY <1>1
  <2>5. \A k \in 0 .. n : h[n + 1 - k] \in [SUBSET R -> Nat]
    BY <2>3 DEF S
  <2> QED BY <2>4, <2>5
<1>15. h \in [1 .. n + 1 -> [SUBSET R -> Nat]]
  BY <1>11, <1>14
<1>16. \A m \in SUBSET R : h[n + 1][m] = 0
  <2>1. n + 1 \in 1 .. n + 1
    BY <1>1
  <2> QED BY <2>1, <1>7, <1>9
<1>17. MinFaults(list, size) = h[1][{}]
  <2>1. 1 \in 1 .. n + 1 /\ {} \in SUBSET R
    BY <1>1
  <2> QED BY <2>1, <1>5, <1>7
<1> QED BY <1>12, <1>15, <1>16, <1>17 DEF Fewest, n, R
LEMMA FiniteRange ==
  ASSUME NEW list \in Seq(Int)
  PROVE  /\ IsFiniteSet(Range(list)) /\ Cardinality(Range(list)) \in Nat
         /\ \A i \in 1 .. Len(list) : list[i] \in Range(list)
         /\ \A m \in SUBSET Range(list) : IsFiniteSet(m) /\ Cardinality(m) \in Nat
<1> DEFINE n == Len(list)
           R == Range(list)
<1>1. R = {list[i] : i \in 1 .. n}
  BY DEF Range
<1>2. 1 \in Int /\ n \in Int
  OBVIOUS
<1>5. \A i \in 1 .. n : list[i] \in R
  BY <1>1
<1> HIDE DEF n, R
<1>3. IsFiniteSet(R) /\ Cardinality(R) \in Nat
  BY <1>1, <1>2, ImageBound
<1> USE DEF n, R
<1>4. \A m \in SUBSET Range(list) : IsFiniteSet(m) /\ Cardinality(m) \in Nat
  BY <1>3, FS_Subset, FS_CardinalityType
<1> QED BY <1>5, <1>3, <1>4

(* What the table says of one access.                                      *)
LEMMA FewestMoves ==
  ASSUME NEW list \in Seq(Int), NEW size \in Nat \ {0}, NEW h, Fewest(list, size, h),
         NEW i \in 1 .. Len(list), NEW m \in SUBSET Range(list)
  PROVE  /\ Chosen(h[i][m], list[i], size, h[i + 1], m)
         /\ h[i][m] \in Nat
         /\ \A q \in SUBSET Range(list) : h[i + 1][q] \in Nat
<1>1. i + 1 \in 1 .. Len(list) + 1 /\ i \in 1 .. Len(list) + 1
  OBVIOUS
<1>2. h[i + 1] \in [SUBSET Range(list) -> Nat] /\ h[i] \in [SUBSET Range(list) -> Nat]
  BY <1>1 DEF Fewest
<1>3. h[i][m] = FaultsFrom(list[i], size, h[i + 1], m)
  BY DEF Fewest
<1>4. list[i] \in Range(list) /\ IsFiniteSet(Range(list))
  BY FiniteRange
<1>5. Chosen(FaultsFrom(list[i], size, h[i + 1], m), list[i], size, h[i + 1], m)
  BY <1>2, <1>4, FaultsFromIs
<1> QED BY <1>2, <1>3, <1>5

(* From i on, no use of v comes before the next use of w.                  *)
Sooner(list, i, w, v) ==
    \A j \in i .. Len(list) : list[j] = v => \E k \in i .. j : list[k] = w

(* Memories that differ in one page: to hold the other one costs one fault *)
(* at most, and none if it is used sooner.                                 *)
HoldsBetter(list, size, h, i) ==
    \A C \in SUBSET Range(list) : \A w, v \in Range(list) \ C :
        w # v /\ Cardinality(C) + 1 = size =>
            /\ h[i][C \cup {w}] <= 1 + h[i][C \cup {v}]
            /\ Sooner(list, i, w, v) => h[i][C \cup {w}] <= h[i][C \cup {v}]

LEMMA SoonerStays ==
  ASSUME NEW list \in Seq(Int), NEW i \in 1 .. Len(list), NEW w, NEW v, Sooner(list, i, w, v)
  PROVE  /\ list[i] # w => Sooner(list, i + 1, w, v)
         /\ list[i] = v => w = v
<1>1. ASSUME list[i] # w, NEW j \in i + 1 .. Len(list), list[j] = v
      PROVE  \E k \in i + 1 .. j : list[k] = w
  <2>1. PICK k \in i .. j : list[k] = w
    BY <1>1 DEF Sooner
  <2>2. k \in i + 1 .. j
    BY <2>1, <1>1
  <2> QED BY <2>1, <2>2
<1>2. ASSUME list[i] = v PROVE w = v
  <2>1. i \in i .. Len(list)
    OBVIOUS
  <2>2. PICK k \in i .. i : list[k] = w
    BY <2>1, <1>2 DEF Sooner
  <2> QED BY <2>2, <1>2
<1> QED BY <1>1, <1>2 DEF Sooner

(* A page in the place of another leaves as many.                          *)
LEMMA AsMany ==
  ASSUME NEW C, IsFiniteSet(C), NEW u \in C, NEW x, x \notin C
  PROVE  /\ IsFiniteSet(After(C, u, x)) /\ Cardinality(After(C, u, x)) = Cardinality(C)
         /\ Cardinality(C \cup {x}) = Cardinality(C) + 1 /\ Cardinality(C) \in Nat
<1>1. /\ IsFiniteSet(C \ {u}) /\ Cardinality(C) \in Nat
      /\ Cardinality(C \ {u}) = Cardinality(C) - 1
  BY FS_RemoveElement, FS_CardinalityType
<1>2. x \notin C \ {u}
  OBVIOUS
<1>3. IsFiniteSet(After(C, u, x)) /\ Cardinality(After(C, u, x)) = Cardinality(C \ {u}) + 1
  BY <1>1, <1>2, FS_AddElement DEF After
<1>4. Cardinality(C \cup {x}) = Cardinality(C) + 1
  BY FS_AddElement
<1> QED BY <1>1, <1>3, <1>4

LEMMA HoldsBetterStep ==
  ASSUME NEW list \in Seq(Int), NEW size \in Nat \ {0}, NEW h, Fewest(list, size, h),
         NEW i \in 1 .. Len(list), HoldsBetter(list, size, h, i + 1)
  PROVE  HoldsBetter(list, size, h, i)
<1> DEFINE R == Range(list)
           x == list[i]
           Now(m)  == h[i][m]
           Then(m) == h[i + 1][m]
<1> SUFFICES ASSUME NEW C \in SUBSET R, NEW w \in R \ C, NEW v \in R \ C, w # v,
                    Cardinality(C) + 1 = size
             PROVE  /\ Now(C \cup {w}) <= 1 + Now(C \cup {v})
                    /\ Sooner(list, i, w, v) => Now(C \cup {w}) <= Now(C \cup {v})
  BY DEF HoldsBetter
<1>1. /\ IsFiniteSet(R) /\ x \in R /\ \A m \in SUBSET R : IsFiniteSet(m)
      /\ \A m \in SUBSET R : Cardinality(m) \in Nat
  BY FiniteRange
<1>2. ASSUME NEW m \in SUBSET R
      PROVE  /\ Now(m) \in Nat /\ Then(m) \in Nat
             /\ x \in m => Now(m) = Then(m)
             /\ x \notin m /\ Cardinality(m) = size =>
                   /\ \A u \in m : Now(m) <= 1 + Then(After(m, u, x))
                   /\ \E u \in m : Now(m) = 1 + Then(After(m, u, x))
  <2>1. Cardinality(m) = size => ~(Cardinality(m) < size)
    OBVIOUS
  <2>2. /\ Chosen(h[i][m], x, size, h[i + 1], m) /\ h[i][m] \in Nat
        /\ h[i + 1][m] \in Nat
    BY FewestMoves
  <2> QED BY <2>1, <2>2 DEF Chosen
<1>3. ASSUME NEW D \in SUBSET R, NEW a \in R \ D, NEW b \in R \ D, a # b,
             Cardinality(D) = Cardinality(C)
      PROVE  /\ Then(D \cup {a}) <= 1 + Then(D \cup {b})
             /\ Sooner(list, i + 1, a, b) => Then(D \cup {a}) <= Then(D \cup {b})
  BY <1>3 DEF HoldsBetter
<1> DEFINE A == C \cup {w}
           B == C \cup {v}
<1>4. A \in SUBSET R /\ B \in SUBSET R /\ Cardinality(A) = size /\ Cardinality(B) = size
  <2>1. Cardinality(A) = Cardinality(C) + 1 /\ Cardinality(B) = Cardinality(C) + 1
    BY <1>1, FS_AddElement
  <2> QED BY <2>1
<1>5. /\ Now(A) \in Nat /\ Then(A) \in Nat /\ Now(B) \in Nat /\ Then(B) \in Nat
  BY <1>2, <1>4
<1>6. CASE x \in C
  <2>1. Now(A) = Then(A) /\ Now(B) = Then(B)
    BY <1>2, <1>4, <1>6
  <2>2. Sooner(list, i, w, v) => Sooner(list, i + 1, w, v)
    BY <1>6, SoonerStays
  <2>3. /\ Then(A) <= 1 + Then(B)
        /\ Sooner(list, i + 1, w, v) => Then(A) <= Then(B)
    BY <1>3
  <2> HIDE DEF Now, Then
  <2> QED BY <2>1, <2>2, <2>3
<1>7. CASE x = w
  <2>1. Now(A) = Then(A) /\ x \notin B
    BY <1>2, <1>4, <1>7
  <2>2. PICK u \in B : Now(B) = 1 + Then(After(B, u, x))
    BY <1>2, <1>4, <2>1
  <2>3. CASE u = v
    <3>1. After(B, u, x) = A
      BY <2>3, <1>7 DEF After
    <3>2. Now(B) = 1 + Then(A)
      BY <2>2, <3>1
    <3> HIDE DEF Now, Then, A, B
    <3>3. Now(A) <= Now(B) /\ Now(A) <= 1 + Now(B)
      BY <2>1, <3>2, <1>5
    <3> QED BY <3>3 DEF A, B
  <2>4. CASE u # v
    <3>1. u \in C
      BY <2>4
    <3> DEFINE D == After(C, u, x)
    <3>2. Cardinality(D) = Cardinality(C)
      BY <3>1, <1>1, <1>7, AsMany
    <3>3. D \in SUBSET R /\ u \in R \ D /\ v \in R \ D
      BY <3>1, <1>1, <1>7 DEF After
    <3>4. D \cup {u} = A /\ D \cup {v} = After(B, u, x)
      BY <3>1, <2>4, <1>7 DEF After
    <3> HIDE DEF Now, Then, A, B, D
    <3>5. Then(D \cup {u}) <= 1 + Then(D \cup {v})
      BY <3>2, <3>3, <2>4, <1>3
    <3>7. Then(A) <= 1 + Then(After(B, u, x))
      BY <3>4, <3>5
    <3>6. Now(A) <= Now(B) /\ Now(A) <= 1 + Now(B)
      BY <3>7, <2>1, <2>2, <1>5
    <3> QED BY <3>6 DEF A, B
  <2> QED BY <2>3, <2>4
<1>8. CASE x = v
  <2>1. Now(B) = Then(B) /\ x \notin A
    BY <1>2, <1>4, <1>8
  <2>2. ~Sooner(list, i, w, v)
    BY <1>8, SoonerStays
  <2>3. After(A, w, x) = B
    BY <1>8 DEF After
  <2>4. Now(A) <= 1 + Then(After(A, w, x))
    BY <1>2, <1>4, <2>1
  <2> HIDE DEF Now, Then
  <2> QED BY <2>1, <2>2, <2>3, <2>4
<1>9. CASE x \notin C /\ x # w /\ x # v
  <2>1. x \notin A /\ x \notin B
    BY <1>9
  <2>2. PICK u \in B : Now(B) = 1 + Then(After(B, u, x))
    BY <1>2, <1>4, <2>1
  <2>3. CASE u = v
    <3>1. After(B, u, x) = After(A, w, x)
      BY <2>3 DEF After
    <3>2. Now(A) <= 1 + Then(After(A, w, x))
      BY <1>2, <1>4, <2>1
    <3> HIDE DEF Now, Then, A, B
    <3>3. Now(A) <= Now(B) /\ Now(A) <= 1 + Now(B)
      BY <2>2, <3>1, <3>2, <1>5
    <3> QED BY <3>3 DEF A, B
  <2>4. CASE u # v
    <3>1. u \in C
      BY <2>4
    <3> DEFINE D == After(C, u, x)
    <3>2. Cardinality(D) = Cardinality(C)
      BY <3>1, <1>1, <1>9, AsMany
    <3>3. D \in SUBSET R /\ w \in R \ D /\ v \in R \ D
      BY <3>1, <1>1, <1>9 DEF After
    <3>4. D \cup {w} = After(A, u, x) /\ D \cup {v} = After(B, u, x)
      BY <3>1, <2>4 DEF After
    <3>5. u \in A /\ Now(A) <= 1 + Then(After(A, u, x))
      BY <3>1, <1>2, <1>4, <2>1
    <3>6. Sooner(list, i, w, v) => Sooner(list, i + 1, w, v)
      BY <1>9, SoonerStays
    <3>7. Then(D \cup {w}) \in Nat /\ Then(D \cup {v}) \in Nat
      <4>1. D \cup {w} \in SUBSET R /\ D \cup {v} \in SUBSET R
        BY <3>3
      <4> HIDE DEF D
      <4> QED BY <4>1, <1>2
    <3> HIDE DEF Now, Then, A, B, D
    <3>8. /\ Then(D \cup {w}) <= 1 + Then(D \cup {v})
          /\ Sooner(list, i + 1, w, v) => Then(D \cup {w}) <= Then(D \cup {v})
      BY <3>2, <3>3, <1>3
    <3>9. /\ Then(After(A, u, x)) \in Nat /\ Then(After(B, u, x)) \in Nat
          /\ Then(After(A, u, x)) <= 1 + Then(After(B, u, x))
          /\ Sooner(list, i, w, v) => Then(After(A, u, x)) <= Then(After(B, u, x))
      BY <3>4, <3>6, <3>7, <3>8
    <3>12. \A a, b, p, q \in Nat : a <= 1 + p /\ p <= 1 + q /\ b = 1 + q => a <= 1 + b
      OBVIOUS
    <3>10. Now(A) <= 1 + Now(B)
      <4> DEFINE p == Then(After(A, u, x))
                 q == Then(After(B, u, x))
      <4>1. p \in Nat /\ q \in Nat /\ p <= 1 + q /\ Now(A) <= 1 + p /\ Now(B) = 1 + q
        BY <3>5, <3>9, <2>2
      <4>2. Now(A) \in Nat /\ Now(B) \in Nat
        BY <1>5
      <4> HIDE DEF p, q
      <4> QED BY <4>1, <4>2, <3>12
    <3>11. Sooner(list, i, w, v) => Now(A) <= Now(B)
      BY <3>5, <3>9, <2>2, <1>5
    <3> QED BY <3>10, <3>11 DEF A, B
  <2> QED BY <2>3, <2>4
<1> QED BY <1>6, <1>7, <1>8, <1>9

LEMMA AlwaysHoldsBetter ==
  ASSUME NEW list \in Seq(Int), NEW size \in Nat \ {0}, NEW h, Fewest(list, size, h)
  PROVE  \A i \in 1 .. Len(list) + 1 : HoldsBetter(list, size, h, i)
<1> DEFINE n == Len(list)
           S == {k \in 0 .. n : HoldsBetter(list, size, h, n + 1 - k)}
<1>1. n \in Nat
  OBVIOUS
<1>2. 0 \in S
  <2>1. HoldsBetter(list, size, h, n + 1)
    <3>1. ASSUME NEW C \in SUBSET Range(list), NEW w \in Range(list) \ C
          PROVE  h[n + 1][C \cup {w}] = 0
      <4>1. C \cup {w} \in SUBSET Range(list)
        OBVIOUS
      <4> QED BY <4>1 DEF Fewest
    <3>2. 0 <= 1 + 0 /\ 0 <= 0
      OBVIOUS
    <3> HIDE DEF n
    <3> QED BY <3>1, <3>2 DEF HoldsBetter
  <2>2. n + 1 - 0 = n + 1 /\ 0 \in 0 .. n
    BY <1>1
  <2> QED BY <2>1, <2>2
<1>3. ASSUME NEW k \in 1 .. n, k - 1 \in S PROVE k \in S
  <2>1. n + 1 - k \in 1 .. n /\ (n + 1 - k) + 1 = n + 1 - (k - 1) /\ k \in 0 .. n
    BY <1>1
  <2>2. HoldsBetter(list, size, h, (n + 1 - k) + 1)
    BY <2>1, <1>3
  <2>3. HoldsBetter(list, size, h, n + 1 - k)
    BY <2>1, <2>2, HoldsBetterStep
  <2> QED BY <2>1, <2>3
<1> HIDE DEF S
<1>4. 0 .. n \subseteq S
  BY <1>1, <1>2, <1>3, UpTo
<1> SUFFICES ASSUME NEW i \in 1 .. n + 1 PROVE HoldsBetter(list, size, h, i)
  OBVIOUS
<1>5. n + 1 - i \in 0 .. n /\ n + 1 - (n + 1 - i) = i
  BY <1>1
<1>6. n + 1 - i \in S
  BY <1>4, <1>5
<1> QED BY <1>5, <1>6 DEF S

(* To evict a page that no other is used after costs the fewest faults.    *)
Latest(list, i, m, v) == \A u \in m : Sooner(list, i, u, v)

LEMMA LatestIsBest ==
  ASSUME NEW list \in Seq(Int), NEW size \in Nat \ {0}, NEW h, Fewest(list, size, h),
         NEW i \in 1 .. Len(list), NEW m \in SUBSET Range(list), Cardinality(m) = size,
         list[i] \notin m, NEW v \in m, Latest(list, i + 1, m, v)
  PROVE  h[i][m] = 1 + h[i + 1][After(m, v, list[i])]
<1> DEFINE R == Range(list)
           x == list[i]
<1>1. /\ IsFiniteSet(R) /\ x \in R /\ \A q \in SUBSET R : IsFiniteSet(q)
      /\ \A q \in SUBSET R : Cardinality(q) \in Nat
  BY FiniteRange
<1>6. ~(Cardinality(m) < size)
  OBVIOUS
<1>2. /\ h[i][m] \in Nat /\ \A q \in SUBSET R : h[i + 1][q] \in Nat
      /\ \A u \in m : h[i][m] <= 1 + h[i + 1][After(m, u, x)]
      /\ \E u \in m : h[i][m] = 1 + h[i + 1][After(m, u, x)]
  <2>1. /\ Chosen(h[i][m], x, size, h[i + 1], m) /\ h[i][m] \in Nat
        /\ \A q \in SUBSET R : h[i + 1][q] \in Nat
    BY FewestMoves
  <2> QED BY <2>1, <1>6 DEF Chosen
<1>3. PICK u \in m : h[i][m] = 1 + h[i + 1][After(m, u, x)]
  BY <1>2
<1>4. CASE u = v
  BY <1>3, <1>4
<1>5. CASE u # v
  <2> DEFINE M == m \ {v}
             C == After(M, u, x)
  <2>1. u \in M /\ x \notin M
    BY <1>5
  <2>2. Cardinality(M) = size - 1 /\ IsFiniteSet(M)
    BY <1>1, FS_RemoveElement
  <2>3. Cardinality(C) + 1 = size
    <3> HIDE DEF M
    <3>1. Cardinality(C) = Cardinality(M)
      BY <2>1, <2>2, AsMany
    <3> HIDE DEF C
    <3> QED BY <3>1, <2>2
  <2>4. C \in SUBSET R /\ u \in R \ C /\ v \in R \ C
    BY <2>1, <1>1 DEF After
  <2>5. C \cup {u} = After(m, v, x) /\ C \cup {v} = After(m, u, x)
    BY <2>1 DEF After
  <2>6. i + 1 \in 1 .. Len(list) + 1
    OBVIOUS
  <2> HIDE DEF C
  <2>7. h[i + 1][C \cup {u}] <= h[i + 1][C \cup {v}]
    <3>1. Sooner(list, i + 1, u, v)
      BY DEF Latest
    <3> QED BY <3>1, <2>3, <2>4, <2>6, <1>5, AlwaysHoldsBetter DEF HoldsBetter
  <2>8. After(m, v, x) \in SUBSET R /\ After(m, u, x) \in SUBSET R
    BY <2>4, <2>5
  <2>9. h[i + 1][After(m, v, x)] \in Nat /\ h[i + 1][After(m, u, x)] \in Nat
    BY <2>8, <1>2
  <2>10. h[i][m] <= 1 + h[i + 1][After(m, v, x)]
    BY <1>2
  <2>11. h[i + 1][After(m, v, x)] <= h[i + 1][After(m, u, x)]
    BY <2>5, <2>7
  <2>12. \A a, p, q \in Nat : a <= 1 + p /\ p <= q /\ a = 1 + q => a = 1 + p
    OBVIOUS
  <2>13. h[i][m] \in Nat
    BY <1>2
  <2> QED BY <2>9, <2>10, <2>11, <2>12, <2>13, <1>3
<1> QED BY <1>4, <1>5

(* With room for one more page, and more pages in memory, there are no     *)
(* more faults.                                                            *)
NoMoreFaults(list, size, f, g, i) ==
    \A A, B \in SUBSET Range(list) :
        A \subseteq B /\ Cardinality(A) <= size /\ Cardinality(B) <= size + 1 =>
            g[i][B] <= f[i][A]

LEMMA NoMoreFaultsStep ==
  ASSUME NEW list \in Seq(Int), NEW size \in Nat \ {0}, NEW f, Fewest(list, size, f),
         NEW g, Fewest(list, size + 1, g), NEW i \in 1 .. Len(list),
         NoMoreFaults(list, size, f, g, i + 1)
  PROVE  NoMoreFaults(list, size, f, g, i)
<1> DEFINE R == Range(list)
           x == list[i]
<1> SUFFICES ASSUME NEW A \in SUBSET R, NEW B \in SUBSET R, A \subseteq B,
                    Cardinality(A) <= size, Cardinality(B) <= size + 1
             PROVE  g[i][B] <= f[i][A]
  BY DEF NoMoreFaults
<1>1. /\ IsFiniteSet(R) /\ x \in R /\ \A m \in SUBSET R : IsFiniteSet(m)
      /\ \A m \in SUBSET R : Cardinality(m) \in Nat
  BY FiniteRange
<1>2. /\ Chosen(f[i][A], x, size, f[i + 1], A) /\ f[i][A] \in Nat
      /\ \A q \in SUBSET R : f[i + 1][q] \in Nat
  BY FewestMoves
<1>3. /\ Chosen(g[i][B], x, size + 1, g[i + 1], B) /\ g[i][B] \in Nat
      /\ \A q \in SUBSET R : g[i + 1][q] \in Nat
  <2>1. size + 1 \in Nat \ {0}
    OBVIOUS
  <2> QED BY <2>1, FewestMoves
<1>4. ASSUME NEW C \in SUBSET R, NEW D \in SUBSET R, C \subseteq D,
             Cardinality(C) <= size, Cardinality(D) <= size + 1
      PROVE  g[i + 1][D] <= f[i + 1][C]
  BY <1>4 DEF NoMoreFaults
<1>5. CASE x \in A
  <2>1. g[i][B] = g[i + 1][B] /\ f[i][A] = f[i + 1][A]
    BY <1>2, <1>3, <1>5 DEF Chosen
  <2> QED BY <2>1, <1>4
<1>6. ASSUME x \notin A
      PROVE  \E C \in SUBSET R : /\ f[i][A] = 1 + f[i + 1][C]
                                 /\ Cardinality(C) <= size
                                 /\ \/ C = A \cup {x} /\ Cardinality(A) < size
                                    \/ \E v \in A : C = After(A, v, x)
  <2>1. CASE Cardinality(A) < size
    <3>1. f[i][A] = 1 + f[i + 1][A \cup {x}]
      BY <2>1, <1>2, <1>6 DEF Chosen
    <3>2. Cardinality(A \cup {x}) = Cardinality(A) + 1
      BY <1>1, <1>6, FS_AddElement
    <3>3. Cardinality(A \cup {x}) <= size /\ A \cup {x} \in SUBSET R
      BY <3>2, <2>1, <1>1
    <3> QED BY <3>1, <3>3, <2>1
  <2>2. CASE ~(Cardinality(A) < size)
    <3>1. PICK v \in A : f[i][A] = 1 + f[i + 1][After(A, v, x)]
      BY <2>2, <1>2, <1>6 DEF Chosen
    <3>2. Cardinality(After(A, v, x)) = Cardinality(A)
      BY <1>1, <1>6, AsMany
    <3>3. After(A, v, x) \in SUBSET R
      BY <1>1 DEF After
    <3> QED BY <3>1, <3>2, <3>3
  <2> QED BY <2>1, <2>2
<1>7. CASE x \notin A /\ x \in B
  <2>1. PICK C \in SUBSET R : /\ f[i][A] = 1 + f[i + 1][C]
                              /\ Cardinality(C) <= size
                              /\ C = A \cup {x} \/ \E v \in A : C = After(A, v, x)
    BY <1>6, <1>7
  <2>2. C \subseteq B
    BY <2>1, <1>7 DEF After
  <2>3. g[i + 1][B] <= f[i + 1][C]
    BY <2>1, <2>2, <1>4
  <2>4. g[i][B] = g[i + 1][B]
    BY <1>3, <1>7 DEF Chosen
  <2>5. f[i + 1][C] \in Nat /\ g[i + 1][B] \in Nat
    BY <1>2, <1>3
  <2>6. \A p, q \in Nat : p <= q => p <= 1 + q
    OBVIOUS
  <2>7. g[i + 1][B] <= 1 + f[i + 1][C]
    BY ONLY <2>3, <2>5, <2>6
  <2> QED BY ONLY <2>1, <2>4, <2>7
<1>8. CASE x \notin B
  <2>0. x \notin A
    BY <1>8
  <2>1. PICK C \in SUBSET R : /\ f[i][A] = 1 + f[i + 1][C]
                              /\ Cardinality(C) <= size
                              /\ \/ C = A \cup {x} /\ Cardinality(A) < size
                                 \/ \E v \in A : C = After(A, v, x)
    BY <1>6, <2>0
  <2>2. \E D \in SUBSET R : /\ C \subseteq D /\ Cardinality(D) <= size + 1
                            /\ g[i][B] <= 1 + g[i + 1][D]
    <3>1. CASE Cardinality(B) < size + 1
      <4>1. g[i][B] = 1 + g[i + 1][B \cup {x}]
        BY <3>1, <1>3, <1>8 DEF Chosen
      <4>2. Cardinality(B \cup {x}) = Cardinality(B) + 1
        BY <1>1, <1>8, FS_AddElement
      <4>6. B \cup {x} \in SUBSET R
        BY <1>1
      <4>7. \A p, q \in Nat : q < size + 1 /\ p = q + 1 => p <= size + 1
        OBVIOUS
      <4>8. Cardinality(B \cup {x}) \in Nat /\ Cardinality(B) \in Nat
        BY <4>6, <1>1
      <4>3. Cardinality(B \cup {x}) <= size + 1 /\ B \cup {x} \in SUBSET R
        BY <4>2, <4>6, <4>7, <4>8, <3>1, Zenon
      <4>4. C \subseteq B \cup {x}
        BY <2>1 DEF After
      <4>5. g[i + 1][B \cup {x}] \in Nat
        BY <4>3, <1>3
      <4> QED BY <4>1, <4>3, <4>4, <4>5
    <3>2. CASE ~(Cardinality(B) < size + 1)
      <4>1. \A u \in B : g[i][B] <= 1 + g[i + 1][After(B, u, x)]
        BY <3>2, <1>3, <1>8 DEF Chosen
      <4>2. ASSUME NEW u \in B
            PROVE  After(B, u, x) \in SUBSET R /\ Cardinality(After(B, u, x)) <= size + 1
        <5>1. Cardinality(After(B, u, x)) = Cardinality(B)
          BY <1>1, <1>8, AsMany
        <5> QED BY <5>1, <1>1 DEF After
      <4>3. CASE C = A \cup {x} /\ Cardinality(A) < size
        <5>1. A # B
          BY <4>3, <3>2, <1>1
        <5>2. PICK u \in B : u \notin A
          BY <5>1
        <5>3. C \subseteq After(B, u, x)
          BY <4>3, <5>2 DEF After
        <5> QED BY <4>1, <4>2, <5>3
      <4>4. CASE \E v \in A : C = After(A, v, x)
        <5>1. PICK v \in A : C = After(A, v, x)
          BY <4>4
        <5>2. v \in B /\ C \subseteq After(B, v, x)
          BY <5>1 DEF After
        <5> QED BY <4>1, <4>2, <5>2
      <4> QED BY <2>1, <4>3, <4>4
    <3> QED BY <3>1, <3>2
  <2>3. PICK D \in SUBSET R : /\ C \subseteq D /\ Cardinality(D) <= size + 1
                              /\ g[i][B] <= 1 + g[i + 1][D]
    BY <2>2
  <2>4. g[i + 1][D] <= f[i + 1][C]
    BY <2>1, <2>3, <1>4
  <2>5. g[i + 1][D] \in Nat /\ f[i + 1][C] \in Nat
    BY <1>2, <1>3
  <2>6. \A a, b, p, q \in Nat : a <= 1 + p /\ p <= q /\ b = 1 + q => a <= b
    OBVIOUS
  <2> DEFINE p == g[i + 1][D]
             q == f[i + 1][C]
             a == g[i][B]
             b == f[i][A]
  <2>7. /\ p \in Nat /\ q \in Nat /\ a \in Nat /\ b \in Nat
        /\ a <= 1 + p /\ p <= q /\ b = 1 + q
    BY <2>1, <2>3, <2>4, <2>5, <1>2, <1>3
  <2> HIDE DEF p, q, a, b
  <2>8. a <= b
    BY <2>6, <2>7
  <2> QED BY <2>8 DEF a, b
<1> QED BY <1>5, <1>7, <1>8

LEMMA MinFaultsFall ==
  ASSUME NEW list \in Seq(Int), NEW size \in Nat \ {0}
  PROVE  MinFaults(list, size + 1) <= MinFaults(list, size)
<1> DEFINE n == Len(list)
<1>0. n \in Nat /\ size + 1 \in Nat \ {0}
  OBVIOUS
<1>1. PICK f : Fewest(list, size, f) /\ MinFaults(list, size) = f[1][{}]
  BY MinFaultsIs
<1>2. PICK g : Fewest(list, size + 1, g) /\ MinFaults(list, size + 1) = g[1][{}]
  BY <1>0, MinFaultsIs
<1> DEFINE S == {k \in 0 .. n : NoMoreFaults(list, size, f, g, n + 1 - k)}
<1>3. 0 \in S
  <2>1. \A m \in SUBSET Range(list) : f[n + 1][m] = 0 /\ g[n + 1][m] = 0
    BY <1>1, <1>2 DEF Fewest
  <2>2. 0 <= 0
    OBVIOUS
  <2>3. n + 1 - 0 = n + 1 /\ 0 \in 0 .. n
    BY <1>0
  <2> HIDE DEF n
  <2>4. NoMoreFaults(list, size, f, g, n + 1)
    BY <2>1, <2>2 DEF NoMoreFaults
  <2> QED BY <2>3, <2>4
<1>4. ASSUME NEW k \in 1 .. n, k - 1 \in S PROVE k \in S
  <2>1. n + 1 - k \in 1 .. n /\ (n + 1 - k) + 1 = n + 1 - (k - 1) /\ k \in 0 .. n
    BY <1>0
  <2>2. NoMoreFaults(list, size, f, g, (n + 1 - k) + 1)
    BY <2>1, <1>4
  <2>3. NoMoreFaults(list, size, f, g, n + 1 - k)
    BY <2>1, <2>2, <1>1, <1>2, NoMoreFaultsStep
  <2> QED BY <2>1, <2>3
<1> HIDE DEF S
<1>5. n \in S
  <2>1. 0 .. n \subseteq S
    BY <1>0, <1>3, <1>4, UpTo
  <2> QED BY <2>1, <1>0
<1>6. NoMoreFaults(list, size, f, g, 1)
  <2>1. n + 1 - n = 1
    BY <1>0
  <2> QED BY <2>1, <1>5 DEF S
<1>7. Cardinality({}) = 0 /\ 0 <= size /\ 0 <= size + 1 /\ {} \in SUBSET Range(list)
  BY FS_EmptySet
<1> QED BY <1>1, <1>2, <1>6, <1>7 DEF NoMoreFaults

(* Nor does leaving out repetitions change the fewest faults.              *)
SameAfter(f, g, x, R) == \A q \in SUBSET R : x \in q => f[q] = g[q] /\ f[q] \in Nat

LEMMA ChosenSame ==
  ASSUME NEW c, NEW d, NEW x, NEW size, NEW f, NEW g, NEW m, NEW R, m \in SUBSET R, x \in R,
         Chosen(c, x, size, f, m), Chosen(d, x, size, g, m),
         SameAfter(f, g, x, R)
  PROVE  c = d
<1>1. CASE x \in m
  BY <1>1 DEF Chosen, SameAfter
<1>2. CASE x \notin m /\ Cardinality(m) < size
  <2>1. m \cup {x} \in SUBSET R /\ x \in m \cup {x}
    OBVIOUS
  <2> QED BY <2>1, <1>2 DEF Chosen, SameAfter
<1>3. CASE x \notin m /\ ~(Cardinality(m) < size)
  <2>1. ASSUME NEW v \in m
        PROVE  f[After(m, v, x)] = g[After(m, v, x)] /\ f[After(m, v, x)] \in Nat
    <3>1. After(m, v, x) \in SUBSET R /\ x \in After(m, v, x)
      BY DEF After
    <3> QED BY <3>1 DEF SameAfter
  <2>2. PICK u \in m : c = 1 + f[After(m, u, x)]
    BY <1>3 DEF Chosen
  <2>3. PICK w \in m : d = 1 + g[After(m, w, x)]
    BY <1>3 DEF Chosen
  <2>4. c <= 1 + f[After(m, w, x)] /\ d <= 1 + g[After(m, u, x)] /\ c \in Nat /\ d \in Nat
    BY <1>3 DEF Chosen
  <2>5. c <= d /\ d <= c
    BY <2>1, <2>2, <2>3, <2>4
  <2> QED BY <2>4, <2>5
<1> QED BY <1>1, <1>2, <1>3

LEMMA FewestSame ==
  ASSUME NEW list \in Seq(Int), NEW d \in Seq(Int), NEW g, Folded(list, d, g, Len(list)),
         g[Len(list)] = Len(d), NEW size \in Nat \ {0},
         NEW f, Fewest(list, size, f), NEW e, Fewest(d, size, e)
  PROVE  f[1][{}] = e[1][{}]
<1> DEFINE n == Len(list)
           R == Range(list)
           InIt(i, m) == i > 1 => list[i - 1] \in m
           Equal(i) == \A m \in SUBSET R : InIt(i, m) => f[i][m] = e[g[i - 1] + 1][m]
           S == {k \in 0 .. n : Equal(n + 1 - k)}
<1>1. n \in Nat /\ g \in [0 .. n -> Nat] /\ g[0] = 0 /\ g[n] = Len(d)
  BY DEF Folded
<1>2. \A i \in 1 .. n : g[i] \in 1 .. Len(d) /\ d[g[i]] = list[i]
  <2>1. ASSUME NEW i \in 1 .. n PROVE g[i] \in 1 .. Len(d)
    <3>1. i \in 0 .. n /\ n \in 0 .. n
      BY <1>1
    <3>2. g[i] >= 1 /\ g[i] <= g[n] /\ g[i] \in Nat
      BY <3>1, <1>1, FoldedUp
    <3> QED BY <3>2, <1>1
  <2> QED BY <2>1 DEF Folded
<1>3. Range(d) = R
  <2>0. Folded(list, d, g, n)
    OBVIOUS
  <2>1. \A y \in 1 .. Len(d) : \E x \in 1 .. n : g[x] = y
    <3>1. n \in 0 .. n
      BY <1>1
    <3> HIDE DEF n
    <3>2. \A i \in 0 .. n : \A y \in 1 .. g[i] : \E x \in 1 .. i : g[x] = y
      BY <2>0, FoldedUp
    <3> QED BY <3>1, <3>2, <1>1
  <2>2. \A y \in 1 .. Len(d) : d[y] \in R
    <3>1. ASSUME NEW y \in 1 .. Len(d) PROVE d[y] \in R
      <4>1. PICK x \in 1 .. n : g[x] = y
        BY <2>1
      <4>2. d[y] = list[x]
        BY <4>1, <1>2
      <4> QED BY <4>2 DEF Range
    <3> QED BY <3>1
  <2>3. \A x \in 1 .. n : list[x] \in Range(d)
    <3>1. ASSUME NEW x \in 1 .. n PROVE list[x] \in Range(d)
      <4>1. g[x] \in DOMAIN d
        BY <1>2
      <4> QED BY <4>1, <1>2 DEF Range
    <3> QED BY <3>1
  <2>6. DOMAIN d = 1 .. Len(d) /\ DOMAIN list = 1 .. n
    OBVIOUS
  <2> HIDE DEF n
  <2>4. Range(d) \subseteq R
    <3> HIDE DEF R
    <3> QED BY <2>2, <2>6 DEF Range
  <2>5. R \subseteq Range(d)
    <3> DEFINE Q == Range(d)
    <3> HIDE DEF Q
    <3>1. \A x \in 1 .. n : list[x] \in Q
      BY <2>3 DEF Q
    <3>2. R \subseteq Q
      BY <3>1, <2>6 DEF Range
    <3> QED BY <3>2 DEF Q
  <2> QED BY <2>4, <2>5
<1>4. 0 \in S
  <2>1. \A m \in SUBSET R : f[n + 1][m] = 0 /\ e[Len(d) + 1][m] = 0
    BY <1>3 DEF Fewest
  <2>2. n + 1 - 0 = n + 1 /\ (n + 1) - 1 = n /\ 0 \in 0 .. n
    BY <1>1
  <2>3. Equal(n + 1)
    BY <2>1, <2>2, <1>1
  <2> QED BY <2>2, <2>3
<1>5. ASSUME NEW k \in 1 .. n, k - 1 \in S PROVE k \in S
  <2> DEFINE i == n + 1 - k
  <2>1. i \in 1 .. n /\ i + 1 = n + 1 - (k - 1) /\ k \in 0 .. n /\ (i + 1) - 1 = i /\ i + 1 > 1
    BY <1>1
  <2>2. Equal(i + 1)
    BY <2>1, <1>5
  <2> SUFFICES Equal(i)
    BY <2>1
  <2> HIDE DEF i
  <2> SUFFICES ASSUME NEW m \in SUBSET R, InIt(i, m) PROVE f[i][m] = e[g[i - 1] + 1][m]
    OBVIOUS
  <2> DEFINE x == list[i]
             j == g[i]
  <2>3. /\ Chosen(f[i][m], x, size, f[i + 1], m)
        /\ \A q \in SUBSET R : f[i + 1][q] \in Nat
    BY <2>1, FewestMoves
  <2>4. \A q \in SUBSET R : x \in q => f[i + 1][q] = e[j + 1][q]
    BY <2>1, <2>2
  <2>5. j \in 1 .. Len(d) /\ d[j] = x /\ x \in R
    BY <2>1, <1>2, FiniteRange
  <2>6. CASE Again(list, i)
    <3>1. x \in m /\ g[i - 1] = j
      BY <2>1, <2>6 DEF Again, Folded
    <3>2. f[i][m] = f[i + 1][m]
      BY <2>3, <3>1 DEF Chosen
    <3> QED BY <2>4, <3>1, <3>2
  <2>7. CASE ~Again(list, i)
    <3>1. g[i - 1] + 1 = j
      BY <2>1, <2>7 DEF Folded
    <3>2. Chosen(e[j][m], d[j], size, e[j + 1], m)
      BY <2>5, <1>3, FewestMoves
    <3>3. Chosen(e[j][m], x, size, e[j + 1], m)
      BY <3>2, <2>5
    <3>4. SameAfter(f[i + 1], e[j + 1], x, R)
      BY <2>3, <2>4 DEF SameAfter
    <3> HIDE DEF x, j, R
    <3>5. f[i][m] = e[j][m]
      BY <2>3, <2>5, <3>3, <3>4, ChosenSame
    <3> QED BY <3>1, <3>5
  <2> QED BY <2>6, <2>7
<1> HIDE DEF S
<1>6. n \in S
  <2>1. 0 .. n \subseteq S
    BY <1>1, <1>4, <1>5, UpTo
  <2> QED BY <2>1, <1>1
<1>7. Equal(1)
  <2>1. n + 1 - n = 1
    BY <1>1
  <2> QED BY <2>1, <1>6 DEF S
<1>8. 1 - 1 = 0 /\ g[0] + 1 = 1 /\ {} \in SUBSET R /\ ~(1 > 1)
  BY <1>1
<1> QED BY <1>7, <1>8

LEMMA DedupKeepsFewest ==
  ASSUME NEW list \in Seq(Int), NEW size \in Nat \ {0}
  PROVE  MinFaults(Dedup(list), size) = MinFaults(list, size)
<1>1. Dedup(list) \in Seq(Int)
  BY DedupIs
<1>2. PICK g : Folded(list, Dedup(list), g, Len(list)) /\ g[Len(list)] = Len(Dedup(list))
  BY DedupFolds
<1>3. PICK f : Fewest(list, size, f) /\ MinFaults(list, size) = f[1][{}]
  BY MinFaultsIs
<1>4. PICK e : Fewest(Dedup(list), size, e) /\ MinFaults(Dedup(list), size) = e[1][{}]
  BY <1>1, MinFaultsIs
<1> QED BY <1>1, <1>2, <1>3, <1>4, FewestSame

(* With room for one more, LRU keeps what it kept.                         *)
LEMMA LruFaultsFall ==
  ASSUME NEW list \in Seq(Int), NEW size \in Nat \ {0}
  PROVE  LruFaults(list, size + 1) <= LruFaults(list, size)
<1> DEFINE n == Len(list)
<1>1. n \in Nat
  OBVIOUS
<1>2. ASSUME NEW i \in 1 .. n, Kept(list, size, i) PROVE Kept(list, size + 1, i)
  <2>1. PICK j \in 1 .. i - 1 : KeptFrom(list, size, i, j)
    BY <1>2 DEF Kept
  <2>2. j + 1 \in Int /\ i - 1 \in Int
    BY <2>1, <1>1
  <2>3. Cardinality(Since(list, i, j)) \in Nat
    BY <2>2, ImageBound DEF Since
  <2>4. Cardinality(Since(list, i, j)) < size
    BY <2>1 DEF KeptFrom
  <2>5. Cardinality(Since(list, i, j)) < size + 1
    BY <2>3, <2>4
  <2>6. KeptFrom(list, size + 1, i, j)
    BY <2>1, <2>5 DEF KeptFrom
  <2> QED BY <2>6 DEF Kept
<1>3. Misses(list, size + 1, n) \subseteq Misses(list, size, n)
  BY <1>2 DEF Misses
<1>4. IsFiniteSet(Misses(list, size, n))
  <2>1. IsFiniteSet(1 .. n) /\ Misses(list, size, n) \subseteq 1 .. n
    <3>1. 1 \in Int /\ n \in Int
      BY <1>1
    <3> HIDE DEF n
    <3> QED BY <3>1, FS_Interval DEF Misses
  <2> QED BY <2>1, FS_Subset
<1>5. Cardinality(Misses(list, size + 1, n)) <= Cardinality(Misses(list, size, n))
  BY <1>3, <1>4, FS_Subset
<1> QED BY <1>5, FaultsAre

(* No use of a victim of OPT comes before the next use of another page.    *)
LEMMA LaterIsSooner ==
  ASSUME SimTypes(sim), ~sim.asStrings, NEW u, NEW v,
         NextUseByIndex(u) <= NextUseByIndex(v)
  PROVE  Sooner(sim.addrList, sim.addrIndex + 2, u, v)
<1> DEFINE L == Len(sim.addrList)
           k == sim.addrIndex
           S(p) == {i \in k + 1 .. L - 1 : sim.addrList[i + 1] = p}
<1>1. L \in Nat /\ k \in Nat
  BY DEF SimTypes
<1>2. ASSUME NEW p PROVE NextUseByIndex(p) = IF S(p) = {} THEN L ELSE Min(S(p))
  <2>1. S(p) = {i \in k + 1 .. L - 1 : ~sim.asStrings /\ sim.addrList[i + 1] = p}
    OBVIOUS
  <2> QED BY <2>1 DEF NextUseByIndex
<1>3. ASSUME NEW p, S(p) # {}
      PROVE  Min(S(p)) \in S(p) /\ \A y \in S(p) : Min(S(p)) <= y
  <2>1. S(p) \in SUBSET Nat
    BY <1>1
  <2> QED BY <2>1, <1>3, MinIs
<1> SUFFICES ASSUME NEW j \in k + 2 .. L, sim.addrList[j] = v
             PROVE  \E q \in k + 2 .. j : sim.addrList[q] = u
  BY DEF Sooner
<1>4. j - 1 \in S(v)
  <2>1. j - 1 \in k + 1 .. L - 1 /\ (j - 1) + 1 = j
    BY <1>1
  <2> QED BY <2>1
<1>5. NextUseByIndex(v) <= j - 1 /\ NextUseByIndex(v) \in Nat
  <2>1. S(v) # {}
    BY <1>4
  <2>2. NextUseByIndex(v) = Min(S(v))
    BY <2>1, <1>2
  <2>3. Min(S(v)) \in S(v) /\ Min(S(v)) <= j - 1
    BY <2>1, <1>3, <1>4
  <2>4. S(v) \subseteq Nat
    BY <1>1
  <2> HIDE DEF S
  <2> QED BY <2>2, <2>3, <2>4
<1>6. NextUseByIndex(u) \in Nat
  BY UsesAre
<1>7. NextUseByIndex(u) <= j - 1 /\ NextUseByIndex(u) # L
  BY <1>1, <1>5, <1>6
<1>8. S(u) # {} /\ NextUseByIndex(u) = Min(S(u))
  <2>1. NextUseByIndex(u) = IF S(u) = {} THEN L ELSE Min(S(u))
    BY <1>2
  <2> HIDE DEF S, L
  <2> QED BY <2>1, <1>7
<1>9. NextUseByIndex(u) \in S(u)
  <2>1. Min(S(u)) \in S(u)
    BY <1>3, <1>8
  <2> HIDE DEF S
  <2> QED BY <2>1, <1>8
<1> DEFINE q == NextUseByIndex(u)
<1>10. q \in k + 1 .. L - 1 /\ sim.addrList[q + 1] = u
  BY <1>9
<1> HIDE DEF q
<1>11. q + 1 \in k + 2 .. j
  BY <1>10, <1>7, <1>1 DEF q
<1> QED BY <1>10, <1>11

(* What an access does to the set of pages in memory.                      *)
HitsIn(m, w, x)    == x \in m /\ w = m
RoomIn(m, w, x, n) == x \notin m /\ Cardinality(m) < n /\ w = m \cup {x}
PutIn(m, w, x, n, v) == x \notin m /\ Cardinality(m) = n /\ v \in m /\ w = After(m, v, x)

LEMMA MemoryIs ==
  ASSUME SimRight(sim), SimStep
  PROVE  /\ sim.memory \in Seq(Int) /\ IsInjective(sim.memory)
         /\ Range(sim.memory) \in SUBSET SeenBy(sim.addrList, sim.addrIndex)
         /\ Range(sim.memory) \in SUBSET Range(sim.addrList)
         /\ Cardinality(Range(sim.memory)) = Len(sim.memory) /\ Len(sim.memory) \in Nat
         /\ Len(sim.memory) <= sim.size
         /\ Len(sim.memory) < sim.size =>
               SeenBy(sim.addrList, sim.addrIndex) \subseteq Range(sim.memory)
         /\ sim.addrIndex + 1 \in 1 .. Len(sim.addrList)
<1>1. /\ Cached(sim.memory, sim.size, SeenBy(sim.addrList, sim.addrIndex))
      /\ sim.addrIndex \in 0 .. Len(sim.addrList) /\ sim.addrList \in Seq(Int)
      /\ sim.addrIndex # Len(sim.addrList)
  BY DEF SimRight, SimKeeps, SimTypes, SimStep, Finished
<1>2. sim.addrIndex \in Nat /\ sim.addrIndex + 1 \in 1 .. Len(sim.addrList)
  BY <1>1
<1>3. SeenBy(sim.addrList, sim.addrIndex) \subseteq Range(sim.addrList)
  <2>1. \A i \in 1 .. sim.addrIndex : i \in DOMAIN sim.addrList
    BY <1>1
  <2> QED BY <2>1 DEF SeenBy, Range
<1>4. /\ sim.memory \in Seq(Int) /\ IsInjective(sim.memory) /\ Len(sim.memory) <= sim.size
      /\ Range(sim.memory) \subseteq SeenBy(sim.addrList, sim.addrIndex)
      /\ Len(sim.memory) < sim.size =>
               SeenBy(sim.addrList, sim.addrIndex) \subseteq Range(sim.memory)
  BY <1>1 DEF Cached
<1>5. Cardinality(Range(sim.memory)) = Len(sim.memory) /\ Len(sim.memory) \in Nat
  BY <1>4, RangeCounts
<1> QED BY <1>2, <1>3, <1>4, <1>5

LEMMA HitMemory ==
  ASSUME SimRight(sim), AccessHit
  PROVE  \E w, r : /\ Advance(w, r, sim.miss)
                   /\ HitsIn(Range(sim.memory), Range(w), page)
<1> DEFINE m == sim.memory
           w == IF sim.policy \in {"LRU", "MRU"}
                  THEN Append(RemoveFirst(m, page), page) ELSE m
<1>1. SimStep /\ page \in Range(m) /\ Advance(w, sim.ref, sim.miss)
  BY DEF AccessHit, Hit
<1>2. m \in Seq(Int) /\ IsInjective(m) /\ page \in Int
  BY <1>1, MemoryIs, AtAccess
<1>3. PICK i \in 1 .. Len(m) : m[i] = page
  <2>1. DOMAIN m = 1 .. Len(m)
    BY <1>2
  <2> HIDE DEF m
  <2> QED BY <2>1, <1>1 DEF Range
<1>4. Moved(Append(RemoveFirst(m, page), page), m, i, page)
  <2>1. RemoveFirst(m, m[i]) = RemoveAt(m, i)
    BY <1>2, <1>3, FirstIsOnly
  <2>2. Moved(Append(RemoveAt(m, i), page), m, i, page)
    BY <1>2, MovedIs
  <2> QED BY <2>1, <2>2, <1>3
<1>5. Range(w) = Range(m)
  <2>1. CASE sim.policy \in {"LRU", "MRU"}
    <3>1. w = Append(RemoveFirst(m, page), page)
      BY <2>1
    <3> HIDE DEF w
    <3>2. Moved(w, m, i, page) /\ page \notin Range(m) \ {m[i]}
      BY <3>1, <1>3, <1>4
    <3>3. Range(w) = (Range(m) \ {m[i]}) \cup {page}
      BY ONLY <3>2, <1>2, <1>3, MovedRange
    <3> QED BY <3>3, <1>1, <1>3
  <2>2. CASE sim.policy \notin {"LRU", "MRU"}
    BY <2>2
  <2> QED BY <2>1, <2>2
<1> HIDE DEF w
<1> QED BY <1>1, <1>5 DEF HitsIn

LEMMA MissMemory ==
  ASSUME SimRight(sim), AccessMiss
  PROVE  \E w, r : /\ Advance(w, r, sim.miss + 1)
                   /\ RoomIn(Range(sim.memory), Range(w), page, sim.size)
<1> DEFINE m == sim.memory
           w == Append(m, page)
<1>1. /\ SimStep /\ page \notin Range(m) /\ Len(m) # sim.size
      /\ Advance(w, sim.ref, sim.miss + 1)
  BY DEF AccessMiss, Hit, Full
<1>2. /\ Cardinality(Range(m)) = Len(m) /\ Len(m) <= sim.size /\ Len(m) \in Nat
      /\ sim.size \in Nat
  BY <1>1, MemoryIs, AtAccess
<1>3. Range(w) = Range(m) \cup {page}
  <2>1. Cached(m, sim.size, Seen) /\ page \in Int
    BY <1>1, AtAccess
  <2> HIDE DEF m
  <2> QED BY <1>1, <1>2, <2>1, AppendedCached
<1>4. Cardinality(Range(m)) < sim.size
  BY <1>1, <1>2
<1> HIDE DEF w
<1> QED BY <1>1, <1>3, <1>4 DEF RoomIn

LEMMA ReplaceMemory ==
  ASSUME SimRight(sim), Replace
  PROVE  \E w, r, i : /\ Advance(w, r, sim.miss + 1) /\ i \in Victims
                      /\ i \in 1 .. Len(sim.memory)
                      /\ PutIn(Range(sim.memory), Range(w), page, sim.size, sim.memory[i])
<1> DEFINE m == sim.memory
<1>1. SimStep /\ page \notin Range(m) /\ Len(m) = sim.size /\ Full
  BY DEF Replace, Hit, Full
<1>2. /\ m \in Seq(Int) /\ IsInjective(m) /\ page \in Int
      /\ Cardinality(Range(m)) = Len(m)
  BY <1>1, MemoryIs, AtAccess
<1>3. PICK i \in Victims : \E r : Advance(Append(RemoveAt(m, i), page), r, sim.miss + 1)
  BY DEF Replace
<1>4. PICK r : Advance(Append(RemoveAt(m, i), page), r, sim.miss + 1)
  BY <1>3
<1>5. i \in 1 .. Len(m)
  BY <1>1, <1>2, <1>3, VictimsAre DEF SimRight
<1> DEFINE w == Append(RemoveAt(m, i), page)
<1>6. Moved(w, m, i, page)
  BY <1>2, <1>5, MovedIs
<1>7. page \notin Range(m) \ {m[i]}
  BY <1>1
<1>8. Advance(w, r, sim.miss + 1)
  BY <1>4
<1> HIDE DEF w
<1>9. Range(w) = (Range(m) \ {m[i]}) \cup {page}
  BY ONLY <1>2, <1>5, <1>6, <1>7, MovedRange
<1>10. m[i] \in Range(m)
  <2>1. i \in DOMAIN m
    BY <1>2, <1>5
  <2> QED BY <2>1 DEF Range
<1>11. PutIn(Range(m), Range(w), page, sim.size, m[i])
  BY <1>1, <1>2, <1>9, <1>10 DEF PutIn, After
<1> QED BY <1>3, <1>5, <1>8, <1>11

(* The fewest faults that can follow, and those made so far, are never     *)
(* fewer together than the fewest of the whole list; those of OPT are      *)
(* just as many.                                                           *)
NoFewer(s, h) ==
    /\ h[1][{}] <= s.miss + h[s.addrIndex + 1][Range(s.memory)]
    /\ s.policy = "OPT" => h[1][{}] = s.miss + h[s.addrIndex + 1][Range(s.memory)]

Counting(s) ==
    /\ s.miss \in Nat /\ ~s.asStrings
    /\ \A h : Fewest(s.addrList, s.size, h) => NoFewer(s, h)
    /\ Cardinality(Range(s.addrList)) <= s.size =>
          s.miss = Cardinality(SeenBy(s.addrList, s.addrIndex))

SameRun(s, t) == /\ t.policy = s.policy /\ t.asStrings = s.asStrings
                 /\ t.addrList = s.addrList /\ t.size = s.size

LEMMA AdvanceIs ==
  ASSUME SimRight(sim), NEW m, NEW r, NEW x, Advance(m, r, x)
  PROVE  /\ SameRun(sim, sim') /\ sim'.memory = m /\ sim'.miss = x
         /\ sim'.addrIndex = sim.addrIndex + 1
<1>1. Shaped(sim)
  BY DEF SimRight
<1> DEFINE R == Referenced(r)
           k == sim.addrIndex
<1>2. sim' = [sim EXCEPT !.memory = m, !.ref = R, !.addrIndex = k + 1, !.miss = x]
  BY DEF Advance
<1> HIDE DEF R
<1>3. sim' = [policy |-> sim.policy, asStrings |-> sim.asStrings,
              addrList |-> sim.addrList, size |-> sim.size, memory |-> m,
              ref |-> R, addrIndex |-> k + 1, miss |-> x]
  BY ONLY <1>1, <1>2 DEF Shaped
<1> QED BY ONLY <1>3 DEF SameRun

(* One access with c faults.                                               *)
LEMMA CountingMoves ==
  ASSUME SimRight(sim), SimStep, Counting(sim), NEW w, NEW r, NEW c \in {0, 1},
         Advance(w, r, sim.miss + c), Range(w) \in SUBSET Range(sim.addrList),
         \A h : Fewest(sim.addrList, sim.size, h) =>
            LET now  == h[sim.addrIndex + 1][Range(sim.memory)]
                then == h[sim.addrIndex + 2][Range(w)]
            IN  now <= c + then /\ (sim.policy = "OPT" => now = c + then),
         Cardinality(Range(sim.addrList)) <= sim.size =>
            Cardinality(SeenBy(sim.addrList, sim.addrIndex + 1))
              = Cardinality(SeenBy(sim.addrList, sim.addrIndex)) + c
  PROVE  Counting(sim') /\ SameRun(sim, sim')
<1> DEFINE list == sim.addrList
           size == sim.size
           k == sim.addrIndex
           m == Range(sim.memory)
<1>1. /\ SameRun(sim, sim') /\ sim'.memory = w /\ sim'.miss = sim.miss + c
      /\ sim'.addrIndex = k + 1
  BY AdvanceIs
<1>2. list \in Seq(Int) /\ size \in Nat \ {0} /\ k \in Nat /\ k + 1 \in 1 .. Len(list)
  BY AtAccess, MemoryIs DEF SimRight, SimTypes
<1>3. m \in SUBSET Range(list)
  BY MemoryIs
<1>4. sim.miss \in Nat /\ ~sim.asStrings
  BY DEF Counting
<1>5. ASSUME NEW h, Fewest(list, size, h)
      PROVE  NoFewer(sim', h)
  <2> DEFINE now  == h[k + 1][m]
             then == h[k + 2][Range(w)]
             all  == h[1][{}]
  <2>1. now \in Nat /\ then \in Nat
    <3>1. (k + 1) + 1 = k + 2
      BY <1>2
    <3>2. h[k + 1][m] \in Nat /\ \A q \in SUBSET Range(list) : h[(k + 1) + 1][q] \in Nat
      BY <1>2, <1>3, <1>5, FewestMoves
    <3> QED BY <3>1, <3>2
  <2>2. all \in Nat
    <3>1. 1 \in 1 .. Len(list) /\ {} \in SUBSET Range(list)
      BY <1>2
    <3> QED BY <3>1, <1>2, <1>5, FewestMoves
  <2>3. now <= c + then /\ (sim.policy = "OPT" => now = c + then)
    BY <1>5
  <2>4. all <= sim.miss + now /\ (sim.policy = "OPT" => all = sim.miss + now)
    BY <1>5 DEF Counting, NoFewer
  <2> HIDE DEF now, then, all
  <2>5. \A p \in Nat : /\ all <= p + now => all <= (p + c) + then
                       /\ sim.policy = "OPT" /\ all = p + now => all = (p + c) + then
    BY <2>1, <2>2, <2>3
  <2>6. /\ all <= (sim.miss + c) + then
        /\ sim.policy = "OPT" => all = (sim.miss + c) + then
    BY <2>4, <2>5, <1>4
  <2>7. (k + 1) + 1 = k + 2
    BY <1>2
  <2>8. then = h[sim'.addrIndex + 1][Range(sim'.memory)]
    BY <2>7, <1>1 DEF then
  <2> QED BY <2>6, <2>8, <1>1 DEF NoFewer, SameRun, all
<1>6. Cardinality(Range(list)) <= size =>
         sim'.miss = Cardinality(SeenBy(list, sim'.addrIndex))
  BY <1>1 DEF Counting
<1>7. sim'.miss \in Nat /\ ~sim'.asStrings
  BY <1>1, <1>4 DEF SameRun
<1>8. sim'.addrList = list /\ sim'.size = size
  BY <1>1 DEF SameRun
<1>9. Counting(sim')
  BY <1>5, <1>6, <1>7, <1>8 DEF Counting
<1> QED BY <1>1, <1>9

(* What the table says of it, with the three kinds of access.              *)
Costs(h, i, m, c, w) == h[i][m] = c + h[i + 1][w]

LEMMA TableHits ==
  ASSUME NEW list \in Seq(Int), NEW size \in Nat \ {0}, NEW i \in 1 .. Len(list),
         NEW m \in SUBSET Range(list), NEW h, Fewest(list, size, h), NEW w,
         HitsIn(m, w, list[i])
  PROVE  Costs(h, i, m, 0, w)
<1>1. /\ Chosen(h[i][m], list[i], size, h[i + 1], m) /\ h[i][m] \in Nat
      /\ \A q \in SUBSET Range(list) : h[i + 1][q] \in Nat
  BY FewestMoves
<1>2. h[i][m] = h[i + 1][w] /\ h[i + 1][w] \in Nat
  BY <1>1 DEF HitsIn, Chosen
<1> QED BY <1>2 DEF Costs

LEMMA TableFills ==
  ASSUME NEW list \in Seq(Int), NEW size \in Nat \ {0}, NEW i \in 1 .. Len(list),
         NEW m \in SUBSET Range(list), NEW h, Fewest(list, size, h), NEW w,
         RoomIn(m, w, list[i], size)
  PROVE  Costs(h, i, m, 1, w)
<1>1. Chosen(h[i][m], list[i], size, h[i + 1], m)
  BY FewestMoves
<1> QED BY <1>1 DEF Costs, RoomIn, Chosen

LEMMA TablePuts ==
  ASSUME NEW list \in Seq(Int), NEW size \in Nat \ {0}, NEW i \in 1 .. Len(list),
         NEW m \in SUBSET Range(list), NEW h, Fewest(list, size, h), NEW w, NEW v,
         PutIn(m, w, list[i], size, v)
  PROVE  h[i][m] <= 1 + h[i + 1][w]
<1>1. Chosen(h[i][m], list[i], size, h[i + 1], m)
  BY FewestMoves
<1>2. ~(Cardinality(m) < size)
  BY DEF PutIn
<1> QED BY <1>1, <1>2 DEF PutIn, Chosen

LEMMA HitCounts ==
  ASSUME SimRight(sim), AccessHit, Counting(sim)
  PROVE  Counting(sim') /\ SameRun(sim, sim')
<1> DEFINE list == sim.addrList
           k == sim.addrIndex
           m == Range(sim.memory)
<1>1. SimStep
  BY DEF AccessHit
<1>2. PICK w, r : Advance(w, r, sim.miss) /\ HitsIn(m, Range(w), page)
  BY HitMemory
<1>3. /\ list \in Seq(Int) /\ sim.size \in Nat \ {0} /\ k \in Nat
      /\ k + 1 \in 1 .. Len(list) /\ page = list[k + 1] /\ m \in SUBSET Range(list)
      /\ m \subseteq SeenBy(list, k)
  BY <1>1, AtAccess, MemoryIs DEF SimRight, SimTypes
<1>4. Advance(w, r, sim.miss + 0)
  <2>1. sim.miss + 0 = sim.miss
    BY DEF Counting
  <2> QED BY <2>1, <1>2
<1>5. ASSUME NEW h, Fewest(list, sim.size, h)
      PROVE  LET now  == h[k + 1][m]
                 then == h[k + 2][Range(w)]
             IN  now <= 0 + then /\ (sim.policy = "OPT" => now = 0 + then)
  <2> DEFINE i == k + 1
             W == Range(w)
             size == sim.size
  <2>1. /\ i + 1 = k + 2 /\ i \in 1 .. Len(list) /\ HitsIn(m, W, list[i])
        /\ list \in Seq(Int) /\ size \in Nat \ {0} /\ m \in SUBSET Range(list)
        /\ Fewest(list, size, h)
    BY <1>2, <1>3, <1>5
  <2> HIDE DEF i, W, m, list, size
  <2>4. h[i][m] \in Nat
    BY ONLY <2>1, FewestMoves
  <2>5. Costs(h, i, m, 0, W)
    BY ONLY <2>1, TableHits
  <2>2. h[i][m] = 0 + h[i + 1][W] /\ h[i][m] \in Nat
    BY <2>4, <2>5 DEF Costs
  <2>3. h[k + 1][m] = 0 + h[k + 2][W] /\ h[k + 1][m] \in Nat
    BY <2>1, <2>2 DEF i
  <2> QED BY <2>3 DEF W
<1>6. SeenBy(list, k + 1) = SeenBy(list, k)
  <2>1. SeenBy(list, k + 1) = SeenBy(list, k) \cup {list[k + 1]}
    BY <1>3, UseMoves
  <2> QED BY <2>1, <1>2, <1>3 DEF HitsIn
<1>7. Cardinality(SeenBy(list, k + 1)) = Cardinality(SeenBy(list, k)) + 0
  <2>1. Cardinality(SeenBy(list, k)) \in Nat
    <3>1. SeenBy(list, k) \in SUBSET Range(list)
      <4>1. \A i \in 1 .. k : i \in DOMAIN list
        BY <1>3
      <4> QED BY <4>1 DEF SeenBy, Range
    <3> QED BY <3>1, <1>3, FiniteRange
  <2> QED BY <2>1, <1>6
<1>8. Range(w) \in SUBSET Range(list) /\ 0 \in {0, 1}
  BY <1>2, <1>3 DEF HitsIn
<1> QED BY <1>1, <1>4, <1>5, <1>7, <1>8, CountingMoves

LEMMA SeenIsFinite ==
  ASSUME SimRight(sim), SimStep
  PROVE  /\ SeenBy(sim.addrList, sim.addrIndex) \in SUBSET Range(sim.addrList)
         /\ IsFiniteSet(SeenBy(sim.addrList, sim.addrIndex))
         /\ Cardinality(SeenBy(sim.addrList, sim.addrIndex)) \in Nat
<1>1. /\ sim.addrList \in Seq(Int) /\ sim.addrIndex \in Nat
      /\ sim.addrIndex + 1 \in 1 .. Len(sim.addrList)
  BY AtAccess, MemoryIs DEF SimRight, SimTypes
<1>2. \A i \in 1 .. sim.addrIndex : i \in DOMAIN sim.addrList
  BY <1>1
<1>3. SeenBy(sim.addrList, sim.addrIndex) \in SUBSET Range(sim.addrList)
  BY <1>2 DEF SeenBy, Range
<1> QED BY <1>1, <1>3, FiniteRange

LEMMA MissCounts ==
  ASSUME SimRight(sim), AccessMiss, Counting(sim)
  PROVE  Counting(sim') /\ SameRun(sim, sim')
<1> DEFINE list == sim.addrList
           k == sim.addrIndex
           m == Range(sim.memory)
<1>1. SimStep
  BY DEF AccessMiss
<1>2. PICK w, r : Advance(w, r, sim.miss + 1) /\ RoomIn(m, Range(w), page, sim.size)
  BY MissMemory
<1>3. /\ list \in Seq(Int) /\ sim.size \in Nat \ {0} /\ k \in Nat
      /\ k + 1 \in 1 .. Len(list) /\ page = list[k + 1] /\ m \in SUBSET Range(list)
      /\ m \subseteq SeenBy(list, k) /\ Cardinality(m) = Len(sim.memory)
      /\ Len(sim.memory) < sim.size => SeenBy(list, k) \subseteq m
  BY <1>1, AtAccess, MemoryIs DEF SimRight, SimTypes
<1>4. ASSUME NEW h, Fewest(list, sim.size, h)
      PROVE  LET now  == h[k + 1][m]
                 then == h[k + 2][Range(w)]
             IN  now <= 1 + then /\ (sim.policy = "OPT" => now = 1 + then)
  <2> DEFINE i == k + 1
             W == Range(w)
             size == sim.size
  <2>1. /\ i + 1 = k + 2 /\ i \in 1 .. Len(list) /\ RoomIn(m, W, list[i], size)
        /\ list \in Seq(Int) /\ size \in Nat \ {0} /\ m \in SUBSET Range(list)
        /\ Fewest(list, size, h)
    BY <1>2, <1>3, <1>4
  <2> HIDE DEF i, W, m, list, size
  <2>4. h[i][m] \in Nat
    BY ONLY <2>1, FewestMoves
  <2>5. Costs(h, i, m, 1, W)
    BY ONLY <2>1, TableFills
  <2>2. h[i][m] = 1 + h[i + 1][W] /\ h[i][m] \in Nat
    BY <2>4, <2>5 DEF Costs
  <2>3. h[k + 1][m] = 1 + h[k + 2][W] /\ h[k + 1][m] \in Nat
    BY <2>1, <2>2 DEF i
  <2> QED BY <2>3 DEF W
<1>5. Cardinality(SeenBy(list, k + 1)) = Cardinality(SeenBy(list, k)) + 1
  <2>1. SeenBy(list, k + 1) = SeenBy(list, k) \cup {list[k + 1]}
    BY <1>3, UseMoves
  <2>2. list[k + 1] \notin SeenBy(list, k)
    BY <1>2, <1>3 DEF RoomIn
  <2> QED BY <2>1, <2>2, <1>1, SeenIsFinite, FS_AddElement
<1>6. Range(w) \in SUBSET Range(list) /\ 1 \in {0, 1}
  <2>1. list[k + 1] \in Range(list)
    BY <1>3, FiniteRange
  <2> QED BY <2>1, <1>2, <1>3 DEF RoomIn
<1> QED BY <1>1, <1>2, <1>4, <1>5, <1>6, CountingMoves

LEMMA ReplaceCounts ==
  ASSUME SimRight(sim), Replace, Counting(sim)
  PROVE  Counting(sim') /\ SameRun(sim, sim')
<1> DEFINE list == sim.addrList
           k == sim.addrIndex
           m == Range(sim.memory)
<1>1. SimStep /\ Full
  BY DEF Replace
<1>2. PICK w, r, i : /\ Advance(w, r, sim.miss + 1) /\ i \in Victims
                     /\ i \in 1 .. Len(sim.memory)
                     /\ PutIn(m, Range(w), page, sim.size, sim.memory[i])
  BY ReplaceMemory
<1> DEFINE v == sim.memory[i]
<1>3. /\ list \in Seq(Int) /\ sim.size \in Nat \ {0} /\ k \in Nat
      /\ k + 1 \in 1 .. Len(list) /\ page = list[k + 1] /\ m \in SUBSET Range(list)
      /\ sim.memory \in Seq(Int) /\ SimTypes(sim)
  BY <1>1, AtAccess, MemoryIs DEF SimRight, SimTypes
<1>4. ASSUME sim.policy = "OPT" PROVE Latest(list, k + 2, m, v)
  <2> SUFFICES ASSUME NEW u \in m PROVE Sooner(list, k + 2, u, v)
    BY DEF Latest
  <2>4. DOMAIN sim.memory = 1 .. Len(sim.memory)
    BY <1>3
  <2>5. \E j \in DOMAIN sim.memory : u = sim.memory[j]
    BY DEF Range
  <2>1. PICK j \in 1 .. Len(sim.memory) : u = sim.memory[j]
    BY <2>4, <2>5
  <2>2. NextUseByIndex(sim.memory[j]) <= NextUseByIndex(sim.memory[i])
    BY <1>1, <1>2, <1>3, <1>4, OptVictims
  <2>3. NextUseByIndex(u) <= NextUseByIndex(v)
    BY <2>1, <2>2
  <2>6. ~sim.asStrings
    BY DEF Counting
  <2> HIDE DEF v
  <2> QED BY <2>3, <2>6, <1>3, LaterIsSooner
<1> HIDE DEF v
<1>5. PutIn(m, Range(w), list[k + 1], sim.size, v)
  BY <1>2, <1>3 DEF v
<1>6. ASSUME NEW h, Fewest(list, sim.size, h)
      PROVE  LET now  == h[k + 1][m]
                 then == h[k + 2][Range(w)]
             IN  now <= 1 + then /\ (sim.policy = "OPT" => now = 1 + then)
  <2> DEFINE i1 == k + 1
             W == Range(w)
             size == sim.size
  <2>1. i1 + 1 = k + 2 /\ i1 \in 1 .. Len(list) /\ PutIn(m, W, list[i1], size, v)
    BY <1>3, <1>5
  <2>0. size \in Nat \ {0} /\ Fewest(list, size, h) /\ m \in SUBSET Range(list)
    BY <1>3, <1>6
  <2> HIDE DEF i1, W, m, list, size
  <2>2. h[i1][m] <= 1 + h[i1 + 1][W]
    BY <2>0, <2>1, <1>3, TablePuts
  <2>3. ASSUME sim.policy = "OPT" PROVE h[i1][m] = 1 + h[i1 + 1][W]
    <3>1. Latest(list, i1 + 1, m, v)
      BY <2>1, <2>3, <1>4
    <3>2. Cardinality(m) = size /\ list[i1] \notin m /\ v \in m
      BY <2>1 DEF PutIn
    <3>4. list \in Seq(Int) /\ i1 \in 1 .. Len(list)
      BY <2>1, <1>3
    <3>3. h[i1][m] = 1 + h[i1 + 1][After(m, v, list[i1])]
      BY ONLY <3>1, <3>2, <3>4, <2>0, LatestIsBest
    <3> QED BY <3>3, <2>1 DEF PutIn
  <2>4. /\ h[k + 1][m] <= 1 + h[k + 2][W]
        /\ sim.policy = "OPT" => h[k + 1][m] = 1 + h[k + 2][W]
    BY <2>1, <2>2, <2>3 DEF i1
  <2> QED BY <2>4 DEF W
<1>7. ~(Cardinality(Range(list)) <= sim.size)
  <2>1. list[k + 1] \in Range(list) /\ IsFiniteSet(Range(list))
    BY <1>3, FiniteRange
  <2>2. m \cup {list[k + 1]} \in SUBSET Range(list) /\ list[k + 1] \notin m /\ IsFiniteSet(m)
    BY <2>1, <1>3, <1>5, FS_Subset DEF PutIn
  <2>3. Cardinality(m \cup {list[k + 1]}) = Cardinality(m) + 1
    BY <2>2, FS_AddElement
  <2>4. Cardinality(m \cup {list[k + 1]}) <= Cardinality(Range(list))
    BY <2>1, <2>2, FS_Subset
  <2>5. Cardinality(m) = sim.size /\ Cardinality(Range(list)) \in Nat
    BY <2>1, <1>5, FS_CardinalityType DEF PutIn
  <2> QED BY <2>3, <2>4, <2>5, <1>3
<1>8. Range(w) \in SUBSET Range(list) /\ 1 \in {0, 1}
  <2>1. list[k + 1] \in Range(list)
    BY <1>3, FiniteRange
  <2> QED BY <2>1, <1>3, <1>5 DEF PutIn, After
<1> QED BY <1>1, <1>2, <1>6, <1>7, <1>8, CountingMoves

LEMMA ScanCounts ==
  ASSUME SimRight(sim), ClockScan, Counting(sim)
  PROVE  Counting(sim') /\ SameRun(sim, sim')
<1>1. Shaped(sim)
  BY DEF SimRight
<1>2. PICK R : sim' = [sim EXCEPT !.ref = R]
  BY DEF ClockScan
<1>3. sim' = [policy |-> sim.policy, asStrings |-> sim.asStrings,
              addrList |-> sim.addrList, size |-> sim.size, memory |-> sim.memory,
              ref |-> R, addrIndex |-> sim.addrIndex, miss |-> sim.miss]
  BY ONLY <1>1, <1>2 DEF Shaped
<1>4. /\ SameRun(sim, sim') /\ sim'.memory = sim.memory
      /\ sim'.addrIndex = sim.addrIndex /\ sim'.miss = sim.miss
  BY ONLY <1>3 DEF SameRun
<1> QED BY <1>4 DEF Counting, NoFewer, SameRun

LEMMA StartsCounting ==
  ASSUME NEW policy, NEW list \in Seq(Int), NEW size \in Nat \ {0},
         StartSimulation(policy, list, FALSE, size)
  PROVE  /\ Counting(sim') /\ sim'.policy = policy /\ sim'.addrList = list
         /\ sim'.size = size
<1>1. sim' = [policy |-> policy, asStrings |-> FALSE, addrList |-> list,
              size |-> size, memory |-> << >>, ref |-> << >>, addrIndex |-> 0,
              miss |-> 0]
  BY DEF StartSimulation, NoSim
<1>2. /\ sim'.policy = policy /\ sim'.addrList = list /\ sim'.size = size
      /\ sim'.asStrings = FALSE /\ sim'.memory = << >> /\ sim'.addrIndex = 0
      /\ sim'.miss = 0
  BY ONLY <1>1
<1>3. Range(sim'.memory) = {}
  BY <1>2 DEF Range
<1>4. ASSUME NEW h, Fewest(list, size, h) PROVE NoFewer(sim', h)
  <2>1. h[1][{}] \in Nat
    <3>1. 1 \in 1 .. Len(list) + 1 /\ {} \in SUBSET Range(list)
      OBVIOUS
    <3>2. h[1] \in [SUBSET Range(list) -> Nat]
      BY <3>1, <1>4 DEF Fewest
    <3> QED BY <3>1, <3>2
  <2>2. \A c \in Nat : c <= 0 + c /\ c = 0 + c
    OBVIOUS
  <2>3. /\ h[1][{}] <= 0 + h[1][{}] /\ h[1][{}] = 0 + h[1][{}]
    BY <2>1, <2>2
  <2>4. sim'.addrIndex + 1 = 1
    BY <1>2
  <2> QED BY <2>3, <2>4, <1>2, <1>3 DEF NoFewer
<1>5. SeenBy(list, 0) = {} /\ Cardinality({}) = 0
  BY FS_EmptySet DEF SeenBy
<1>6. sim'.miss \in Nat /\ ~sim'.asStrings
  BY <1>2
<1>7. \A h : Fewest(sim'.addrList, sim'.size, h) => NoFewer(sim', h)
  BY <1>2, <1>4, Zenon
<1>8. sim'.miss = Cardinality(SeenBy(sim'.addrList, sim'.addrIndex))
  BY <1>2, <1>5
<1>9. Counting(sim')
  BY <1>6, <1>7, <1>8 DEF Counting
<1> QED BY <1>2, <1>9

(* At the end the count is that of the whole list.                         *)
CountsAll(policy, list, size, faults) ==
    /\ faults \in Nat
    /\ MinFaults(list, size) <= faults
    /\ policy = "OPT" => faults = MinFaults(list, size)
    /\ policy = "LRU" => faults = LruFaults(list, size)
    /\ Cardinality(Range(list)) <= size => faults = Cardinality(Range(list))

LEMMA FinishedCounts ==
  ASSUME SimRight(sim), Counting(sim), MissesCounted(sim), Finished
  PROVE  CountsAll(sim.policy, sim.addrList, sim.size, sim.miss)
<1> DEFINE list == sim.addrList
           n == Len(list)
<1>1. /\ list \in Seq(Int) /\ sim.size \in Nat \ {0} /\ sim.addrIndex = n /\ n \in Nat
      /\ Cached(sim.memory, sim.size, SeenBy(list, n))
  BY DEF SimRight, SimKeeps, SimTypes, Finished
<1>2. SeenBy(list, n) = Range(list)
  <2>1. DOMAIN list = 1 .. n
    BY <1>1
  <2> QED BY <2>1 DEF SeenBy, Range
<1>3. Range(sim.memory) \in SUBSET Range(list)
  BY <1>1, <1>2 DEF Cached
<1>4. PICK h : Fewest(list, sim.size, h) /\ MinFaults(list, sim.size) = h[1][{}]
  BY <1>1, MinFaultsIs
<1>5. h[n + 1][Range(sim.memory)] = 0
  BY <1>3, <1>4 DEF Fewest
<1>6. /\ MinFaults(list, sim.size) <= sim.miss + 0
      /\ sim.policy = "OPT" => MinFaults(list, sim.size) = sim.miss + 0
  BY <1>1, <1>4, <1>5 DEF Counting, NoFewer
<1>7. sim.miss \in Nat /\ sim.miss + 0 = sim.miss
  BY DEF Counting
<1>8. sim.policy = "LRU" => sim.miss = LruFaults(list, sim.size)
  BY <1>1, FaultsAre DEF MissesCounted
<1>9. Cardinality(Range(list)) <= sim.size => sim.miss = Cardinality(Range(list))
  BY <1>1, <1>2 DEF Counting
<1> QED BY <1>6, <1>7, <1>8, <1>9 DEF CountsAll

(* The simulations of a run are all pairs of a size and a policy.          *)
Job(k)     == <<1 + ((k - 1) \div Len(Policies)), Policies[1 + ((k - 1) % Len(Policies))]>>
Jobs(list) == Cardinality(Sizes(list)) * Len(Policies)

LEMMA Divided ==
  ASSUME NEW p \in Nat \ {0}, NEW a \in Nat, NEW b \in 0 .. p - 1
  PROVE  (a * p + b) \div p = a /\ (a * p + b) % p = b
OBVIOUS

LEMMA Recombined ==
  ASSUME NEW p \in Nat \ {0}, NEW x \in Nat
  PROVE  x \div p \in Nat /\ x % p \in 0 .. p - 1 /\ x = (x \div p) * p + (x % p)
OBVIOUS

LEMMA Bounded ==
  ASSUME NEW p \in Nat \ {0}, NEW a \in Nat, NEW b \in 0 .. p - 1, NEW c \in Nat, a < c
  PROVE  a * p + b \in Nat /\ a * p + b < c * p
<1>1. c - a \in Nat \ {0} /\ c = a + (c - a)
  OBVIOUS
<1>2. PICK d \in Nat : c = a + 1 + d
  <2>1. c - a - 1 \in Nat /\ c = a + 1 + (c - a - 1)
    OBVIOUS
  <2> QED BY <2>1
<1>3. c * p = a * p + p + d * p /\ d * p \in Nat /\ a * p \in Nat
  BY <1>2
<1> QED BY <1>3

(* The results so far are those of the first of them, the rest wait.       *)
Result == [size : Nat, policy : PolicyNames, faults : Nat]

ResultIs(r, k, list) == /\ r.size = Job(k)[1] /\ r.policy = Job(k)[2]
                        /\ CountsAll(r.policy, list, r.size, r.faults)

Waiting(n) == /\ n + Len(queue) = Jobs(output)
              /\ \A j \in 1 .. Len(queue) : queue[j] = Job(n + j)

Running == /\ Counting(sim)
           /\ sim.size = Head(queue)[1] /\ sim.policy = Head(queue)[2]

ResultsRight ==
    /\ results \in Seq(Result)
    /\ \A k \in 1 .. Len(results) : ResultIs(results[k], k, output)
    /\ stage \notin {"run", "done"} => results = << >>
    /\ stage = "run" => Waiting(Len(results))
    /\ stage = "done" /\ results # << >> => Len(results) = Jobs(output)
    /\ stage = "run" /\ sim # NoSim => Running

LEMMA JobsWait ==
  ASSUME DriverRight, run_simulations, output # NoOutput
  PROVE  Waiting(0)'
<1> DEFINE n == Jobs(output)
           q == [i \in 1 .. n |-> Job(i)]
<1>1. queue' = q /\ output' = output
  BY DEF run_simulations, Jobs, Job
<1>2. n \in Nat
  <2>1. Cardinality(Sizes(output)) \in Nat /\ Len(Policies) \in Nat
    BY SizesAre, PagingAssumption DEF DriverRight
  <2> DEFINE c == Cardinality(Sizes(output))
             l == Len(Policies)
  <2> HIDE DEF c, l
  <2>2. c \in Nat /\ l \in Nat
    BY <2>1 DEF c, l
  <2>3. c * l \in Nat
    BY <2>2
  <2> QED BY <2>3 DEF Jobs, c, l
<1>3. Jobs(output)' = n
  BY <1>1 DEF Jobs
<1> HIDE DEF n
<1>4. Len(q) = n /\ \A j \in 1 .. n : q[j] = Job(j)
  BY <1>2
<1>5. \A j \in 1 .. n : 0 + j = j
  BY <1>2
<1>6. Len(queue') = n /\ \A j \in 1 .. n : queue'[j] = Job(0 + j)
  BY <1>1, <1>4, <1>5
<1> QED BY <1>2, <1>3, <1>6 DEF Waiting, Job

LEMMA StartRuns ==
  ASSUME LruInv, ResultsRight, StartNext
  PROVE  ResultsRight'
<1>1. /\ stage = "run" /\ queue # << >>
      /\ UNCHANGED <<stage, pages, output, queue, results>>
      /\ StartSimulation(Head(queue)[2], output, FALSE, Head(queue)[1])
  BY DEF StartNext
<1>2. output \in Seq(Int) /\ Head(queue)[1] \in Nat \ {0}
  <2>1. output \in Seq(Int) /\ queue \in Seq((Nat \ {0}) \X PolicyNames)
    BY DEF LruInv, PagingInv, DriverRight
  <2>2. Head(queue) \in (Nat \ {0}) \X PolicyNames
    BY <2>1, <1>1
  <2> QED BY <2>1, <2>2
<1>3. /\ Counting(sim') /\ sim'.policy = Head(queue)[2] /\ sim'.size = Head(queue)[1]
  BY <1>1, <1>2, StartsCounting
<1>4. Running'
  BY <1>1, <1>3 DEF Running, Counting
<1> QED BY <1>1, <1>4 DEF ResultsRight, Waiting, Jobs

LEMMA CollectKeeps ==
  ASSUME LruInv, ResultsRight, Collect
  PROVE  ResultsRight'
<1> DEFINE r == [size |-> sim.size, policy |-> sim.policy, faults |-> sim.miss]
           n == Len(results)
<1>1. /\ stage = "run" /\ Finished /\ sim # NoSim
      /\ results' = Append(results, r) /\ queue' = Tail(queue) /\ sim' = NoSim
      /\ UNCHANGED <<stage, pages, output>>
  BY DEF Collect, Finished
<1>2. /\ SimRight(sim) /\ MissesCounted(sim) /\ sim.addrList = output /\ queue # << >>
      /\ queue \in Seq((Nat \ {0}) \X PolicyNames)
  BY <1>1 DEF LruInv, PagingInv, FileOfTrace, Waited, DriverRight
<1>3. Running /\ Waiting(n) /\ results \in Seq(Result)
  BY <1>1 DEF ResultsRight
<1>4. CountsAll(sim.policy, output, sim.size, sim.miss)
  BY <1>1, <1>2, <1>3, FinishedCounts DEF Running
<1>5. n \in Nat /\ Len(queue) \in Nat \ {0} /\ Len(Tail(queue)) = Len(queue) - 1
  BY <1>2, <1>3
<1>6. Head(queue) = Job(n + 1)
  <2>1. Head(queue) = queue[1] /\ 1 \in 1 .. Len(queue)
    BY <1>2, <1>5
  <2> QED BY <2>1, <1>3 DEF Waiting
<1>7. ResultIs(r, n + 1, output)
  BY <1>3, <1>4, <1>6 DEF ResultIs, Running
<1>8. r \in Result
  <2>1. sim.size \in Nat /\ sim.policy \in PolicyNames
    BY <1>2 DEF SimRight, SimTypes
  <2>2. sim.miss \in Nat
    BY <1>4 DEF CountsAll
  <2> QED BY <2>1, <2>2 DEF Result
<1> HIDE DEF r
<1>9. /\ results' \in Seq(Result) /\ Len(results') = n + 1
      /\ results'[n + 1] = r /\ \A k \in 1 .. n : results'[k] = results[k]
  BY <1>1, <1>3, <1>8
<1>10. ASSUME NEW k \in 1 .. n + 1 PROVE ResultIs(results'[k], k, output)
  <2>1. CASE k = n + 1
    BY <2>1, <1>7, <1>9
  <2>2. CASE k # n + 1
    <3>1. k \in 1 .. n
      BY <2>2, <1>5
    <3> QED BY <3>1, <1>9 DEF ResultsRight
  <2> QED BY <2>1, <2>2
<1>11. Waiting(Len(results))'
  <2>1. (n + 1) + Len(Tail(queue)) = Jobs(output)
    BY <1>3, <1>5 DEF Waiting
  <2>2. ASSUME NEW j \in 1 .. Len(Tail(queue))
        PROVE  Tail(queue)[j] = Job((n + 1) + j)
    <3>1. j + 1 \in 1 .. Len(queue) /\ n + (j + 1) = (n + 1) + j
      BY <1>5
    <3>2. Tail(queue)[j] = queue[j + 1]
      BY <1>2
    <3> QED BY <3>1, <3>2, <1>3 DEF Waiting
  <2>3. Len(results') = n + 1 /\ queue' = Tail(queue) /\ output' = output
    BY <1>1, <1>9
  <2> HIDE DEF n
  <2> QED BY <2>1, <2>2, <2>3 DEF Waiting, Jobs, Job
<1>12. stage' = "run" /\ sim' = NoSim /\ output' = output
  BY <1>1
<1>13. \A k \in 1 .. Len(results') : ResultIs(results'[k], k, output')
  BY <1>9, <1>10, <1>12
<1> HIDE DEF n
<1> QED BY <1>9, <1>11, <1>12, <1>13 DEF ResultsRight

LEMMA NoResultsYet ==
  ASSUME results' = << >>, stage' \notin {"run", "done"}
  PROVE  ResultsRight'
<1>1. results' \in Seq(Result) /\ 1 .. Len(results') = {}
  OBVIOUS
<1>2. stage' # "run" /\ stage' # "done"
  OBVIOUS
<1> QED BY <1>1, <1>2 DEF ResultsRight

LEMMA NextKeepsResults ==
  ASSUME LruInv, ResultsRight, [PagingNext]_pagingVars
  PROVE  ResultsRight'
<1>0. DriverRight /\ Waited /\ (sim # NoSim => SimRight(sim))
  BY DEF LruInv, PagingInv
<1>1. ASSUME NEW lines \in Traces, Load(lines) PROVE ResultsRight'
  <2>1. results' = << >> /\ stage' = "export"
    BY <1>1 DEF Load
  <2> QED BY <2>1, NoResultsYet
<1>2. ASSUME NEW policy \in ByHand, NEW lines \in Traces,
             NEW size \in Sizes(get_page_list(lines)),
             StartByHand(policy, get_page_list(lines), size)
      PROVE  ResultsRight'
  <2>1. stage = "idle" /\ stage' = "by hand" /\ results' = results
    BY <1>2 DEF StartByHand
  <2>2. results' = << >>
    BY <2>1 DEF ResultsRight
  <2> QED BY <2>1, <2>2, NoResultsYet
<1>3. CASE export_page_trace
  <2>1. stage = "export" /\ stage' = "sizes" /\ results' = results
    BY <1>3 DEF export_page_trace
  <2>2. results' = << >>
    BY <2>1 DEF ResultsRight
  <2> QED BY <2>1, <2>2, NoResultsYet
<1>4. CASE run_simulations
  <2>1. /\ stage = "sizes" /\ results' = results /\ sim' = NoSim
    BY <1>0, <1>4 DEF run_simulations, Waited
  <2>2. results' = << >> /\ results' \in Seq(Result) /\ Len(results') = 0
    BY <2>1 DEF ResultsRight
  <2>3. CASE output = NoOutput
    <3>1. stage' = "done"
      BY <2>3, <1>4 DEF run_simulations
    <3> QED BY <2>2, <3>1 DEF ResultsRight
  <2>4. CASE output # NoOutput
    <3>1. stage' = "run"
      BY <2>4, <1>4 DEF run_simulations
    <3>2. Waiting(0)'
      BY <2>4, <1>0, <1>4, JobsWait
    <3>3. Waiting(Len(results))'
      BY <2>2, <3>2 DEF Waiting
    <3> QED BY <2>1, <2>2, <3>1, <3>3 DEF ResultsRight
  <2> QED BY <2>3, <2>4
<1>5. CASE StartNext
  BY <1>5, StartRuns
<1>6. CASE Collect
  BY <1>6, CollectKeeps
<1>7. CASE AllRun
  <2>1. /\ stage = "run" /\ sim = NoSim /\ queue = << >> /\ stage' = "done"
        /\ UNCHANGED <<output, results>>
    BY <1>7 DEF AllRun
  <2>2. Len(results) = Jobs(output)
    <3>1. Len(results) + 0 = Jobs(output) /\ Len(results) \in Nat
      BY <2>1 DEF ResultsRight, Waiting
    <3> QED BY <3>1
  <2>3. Jobs(output)' = Jobs(output)
    BY <2>1 DEF Jobs
  <2> QED BY <2>1, <2>2, <2>3 DEF ResultsRight
<1>8. CASE AccessStep
  <2>1. sim # NoSim /\ SimStep /\ UNCHANGED driver
    BY <1>8 DEF AccessStep, AccessHit, AccessMiss, ClockScan, Replace, SimStep
  <2>2. SimRight(sim)
    BY <1>0, <2>1
  <2>3. UNCHANGED <<stage, output, queue, results>>
    BY <2>1 DEF driver
  <2>4. ASSUME stage = "run" PROVE Running'
    <3>1. Running
      BY <2>1, <2>4 DEF ResultsRight
    <3>2. Counting(sim') /\ SameRun(sim, sim')
      BY <1>8, <2>2, <3>1, HitCounts, MissCounts, ReplaceCounts, ScanCounts
         DEF AccessStep, Running
    <3>3. sim'.size = sim.size /\ sim'.policy = sim.policy /\ queue' = queue
      BY <2>3, <3>2 DEF SameRun
    <3> QED BY <3>1, <3>2, <3>3 DEF Running, Counting
  <2>5. stage = "run" => Waiting(Len(results))'
    BY <2>3 DEF ResultsRight, Waiting, Jobs
  <2> QED BY <2>3, <2>4, <2>5 DEF ResultsRight, Jobs
<1>9. CASE UNCHANGED pagingVars
  <2>1. UNCHANGED <<stage, output, queue, results, sim>>
    BY <1>9 DEF pagingVars
  <2>2. stage = "run" => Waiting(Len(results))'
    BY <2>1 DEF ResultsRight, Waiting, Jobs
  <2>3. stage = "run" /\ sim # NoSim => Running'
    BY <2>1 DEF ResultsRight, Running, Counting
  <2> QED BY <2>1, <2>2, <2>3 DEF ResultsRight, Jobs
<1>10. DriverStep => export_page_trace \/ run_simulations \/ StartNext \/ Collect \/ AllRun
  BY DEF DriverStep
<1> QED BY <1>1, <1>2, <1>3, <1>4, <1>5, <1>6, <1>7, <1>8, <1>9, <1>10 DEF PagingNext

(* Each pair of a size and a policy is one of them, and only one.          *)
LEMMA SizesCount ==
  ASSUME NEW list \in Seq(Int)
  PROVE  /\ Cardinality(Range(list)) \in Nat
         /\ Jobs(list) = Cardinality(Range(list)) * Len(Policies)
<1> DEFINE all == Cardinality(Range(list))
<1>1. all \in Nat
  BY SizesAre
<1>2. Cardinality(1 .. all) = all
  <2> HIDE DEF all
  <2>1. Cardinality(1 .. all) = IF 1 > all THEN 0 ELSE all - 1 + 1
    BY <1>1, FS_Interval
  <2> QED BY <2>1, <1>1
<1> QED BY <1>1, <1>2 DEF Jobs, Sizes

LEMMA JobIs ==
  ASSUME NEW all \in Nat, NEW n \in 1 .. all, NEW i \in 1 .. Len(Policies)
  PROVE  \E k \in 1 .. all * Len(Policies) :
            /\ Job(k)[1] = n /\ Job(k)[2] = Policies[i]
            /\ \A j \in 1 .. all * Len(Policies) :
                  Job(j)[1] = n /\ Job(j)[2] = Policies[i] => j = k
<1> DEFINE p == Len(Policies)
           a == n - 1
           b == i - 1
           k == a * p + b + 1
<1>1. Policies \in Seq(PolicyNames) /\ IsInjective(Policies)
  BY PagingAssumption
<1>2. p \in Nat \ {0} /\ a \in Nat /\ b \in 0 .. p - 1 /\ a < all /\ DOMAIN Policies = 1 .. p
  BY <1>1
<1>3. a + 1 = n /\ b + 1 = i
  OBVIOUS
<1>4. \A x, y \in 1 .. p : Policies[x] = Policies[y] => x = y
  BY <1>1, <1>2 DEF IsInjective
<1> HIDE DEF p, a, b
<1>5. (a * p + b) \div p = a /\ (a * p + b) % p = b
  BY <1>2, Divided
<1>6. a * p + b \in Nat /\ a * p + b < all * p
  BY <1>2, Bounded
<1>7. all * p \in Nat
  BY <1>2
<1>8. k \in 1 .. all * p /\ k - 1 = a * p + b
  <2> DEFINE x == a * p + b
             y == all * p
  <2>1. x \in Nat /\ x < y /\ y \in Nat
    BY <1>6, <1>7
  <2> HIDE DEF x, y
  <2>2. x + 1 \in 1 .. y /\ (x + 1) - 1 = x
    BY <2>1
  <2> QED BY <2>2 DEF x, y
<1>9. \A j : Job(j)[1] = 1 + ((j - 1) \div p) /\ Job(j)[2] = Policies[1 + ((j - 1) % p)]
  BY DEF Job, p
<1> HIDE DEF k
<1>10. Job(k)[1] = n /\ Job(k)[2] = Policies[i]
  <2>1. 1 + a = n /\ 1 + b = i
    BY <1>2, <1>3
  <2> QED BY <2>1, <1>5, <1>8, <1>9
<1>11. ASSUME NEW j \in 1 .. all * p, Job(j)[1] = n, Job(j)[2] = Policies[i]
       PROVE  j = k
  <2> DEFINE x == j - 1
  <2>1. x \in Nat /\ x + 1 = j
    BY <1>7
  <2>2. 1 + (x \div p) = n /\ Policies[1 + (x % p)] = Policies[i]
    BY <1>9, <1>11
  <2> HIDE DEF x
  <2> DEFINE d == x \div p
             r == x % p
  <2>3. d \in Nat /\ r \in 0 .. p - 1 /\ x = d * p + r
    BY <2>1, <1>2, Recombined
  <2>4. 1 + d = n /\ Policies[1 + r] = Policies[i]
    BY <2>2
  <2> HIDE DEF d, r
  <2>5. d = a
    BY <2>3, <2>4, <1>2, <1>3
  <2>6. 1 + r \in 1 .. p /\ i \in 1 .. p
    BY <2>3, <1>2, <1>3
  <2>7. 1 + r = i
    BY <2>4, <2>6, <1>4
  <2>8. r = b
    BY <2>3, <2>7, <1>2, <1>3
  <2>9. x = a * p + b
    BY <2>3, <2>5, <2>8
  <2> QED BY <2>1, <2>9, <1>6 DEF k
<1> QED BY <1>8, <1>10, <1>11 DEF p

LEMMA FaultsCount ==
  ASSUME ResultsRight, NEW policy, NEW n, NEW f \in Faults(policy, n)
  PROVE  CountsAll(policy, output, n, f)
<1>1. DOMAIN results = 1 .. Len(results)
  BY DEF ResultsRight
<1>2. PICK k \in 1 .. Len(results) : /\ results[k].policy = policy /\ results[k].size = n
                                     /\ results[k].faults = f
  BY <1>1 DEF Faults
<1>3. ResultIs(results[k], k, output)
  BY DEF ResultsRight
<1> QED BY <1>2, <1>3 DEF ResultIs

LEMMA FaultsAreOne ==
  ASSUME ResultsRight, output \in Seq(Int), Len(results) = Jobs(output),
         NEW n \in 1 .. Cardinality(Range(output)), NEW i \in 1 .. Len(Policies)
  PROVE  \E f : Faults(Policies[i], n) = {f}
<1> DEFINE all == Cardinality(Range(output))
           J == 1 .. all * Len(Policies)
<1>1. all \in Nat /\ DOMAIN results = J
  <2>1. all \in Nat /\ Jobs(output) = all * Len(Policies)
    BY SizesCount
  <2>2. DOMAIN results = 1 .. Len(results)
    BY DEF ResultsRight
  <2> QED BY <2>1, <2>2
<1>2. PICK k \in J : /\ Job(k)[1] = n /\ Job(k)[2] = Policies[i]
                     /\ \A j \in J : Job(j)[1] = n /\ Job(j)[2] = Policies[i] => j = k
  BY <1>1, JobIs
<1>3. \A j \in J : results[j].size = Job(j)[1] /\ results[j].policy = Job(j)[2]
  <2>1. DOMAIN results = 1 .. Len(results)
    BY DEF ResultsRight
  <2> QED BY <2>1, <1>1 DEF ResultsRight, ResultIs
<1> HIDE DEF J
<1>4. {j \in DOMAIN results : /\ results[j].policy = Policies[i]
                              /\ results[j].size = n} = {k}
  BY <1>1, <1>2, <1>3
<1>5. Faults(Policies[i], n) = {results[k].faults}
  BY <1>4 DEF Faults
<1> QED BY <1>5

LEMMA KeepsCurves == LruInv /\ ResultsRight => CurvesRight
<1> SUFFICES ASSUME LruInv, ResultsRight, stage = "done", results # << >>,
                    NEW n \in 1 .. Cardinality(Range(output)), NEW i \in DOMAIN Policies
             PROVE  LET all == Cardinality(Range(output))
                        policy == Policies[i]
                    IN  /\ Cardinality(Faults(policy, n)) = 1
                        /\ \A f \in Faults(policy, n), o \in Faults("OPT", n) : o <= f
                        /\ policy \in {"LRU", "OPT"} =>
                              \A f \in Faults(policy, n), g \in Faults(policy, n + 1) : g <= f
                        /\ n = all => Faults(policy, n) = {all}
  BY DEF CurvesRight
<1> DEFINE policy == Policies[i]
           all == Cardinality(Range(output))
<1>1. output \in Seq(Int) /\ Len(results) = Jobs(output)
  BY DEF LruInv, PagingInv, DriverRight, ResultsRight
<1>2. i \in 1 .. Len(Policies)
  BY PagingAssumption
<1>3. all \in Nat /\ n \in Nat \ {0}
  BY <1>1, SizesAre
<1>4. PICK e : Faults(policy, n) = {e}
  BY <1>1, <1>2, FaultsAreOne
<1> HIDE DEF policy, all
<1>5. Cardinality(Faults(policy, n)) = 1
  <2>1. Cardinality({e}) = 1
    BY FS_Singleton
  <2> QED BY <2>1, <1>4
<1>6. ASSUME NEW f \in Faults(policy, n), NEW o \in Faults("OPT", n) PROVE o <= f
  <2>1. MinFaults(output, n) <= f
    BY FaultsCount DEF CountsAll
  <2>2. o = MinFaults(output, n)
    BY FaultsCount DEF CountsAll
  <2> QED BY <2>1, <2>2
<1>7. ASSUME policy \in {"LRU", "OPT"}, NEW f \in Faults(policy, n),
             NEW g \in Faults(policy, n + 1)
      PROVE  g <= f
  <2>1. CountsAll(policy, output, n, f) /\ CountsAll(policy, output, n + 1, g)
    BY FaultsCount
  <2>2. CASE policy = "LRU"
    <3>1. f = LruFaults(output, n) /\ g = LruFaults(output, n + 1)
      BY <2>1, <2>2 DEF CountsAll
    <3> QED BY <3>1, <1>1, <1>3, LruFaultsFall
  <2>3. CASE policy = "OPT"
    <3>1. f = MinFaults(output, n) /\ g = MinFaults(output, n + 1)
      BY <2>1, <2>3 DEF CountsAll
    <3> QED BY <3>1, <1>1, <1>3, MinFaultsFall
  <2> QED BY <1>7, <2>2, <2>3
<1>8. ASSUME n = all PROVE Faults(policy, n) = {all}
  <2>1. e \in Faults(policy, n)
    BY <1>4
  <2>2. Cardinality(Range(output)) <= n
    BY <1>3, <1>8 DEF all
  <2>3. e = Cardinality(Range(output))
    BY <2>1, <2>2, FaultsCount DEF CountsAll
  <2> QED BY <2>3, <1>4 DEF all
<1> QED BY <1>5, <1>6, <1>7, <1>8 DEF policy, all

LEMMA KeepsFewest == LruInv /\ ResultsRight => OptFaultsOfTrace
<1> SUFFICES ASSUME LruInv, ResultsRight, OfTrace, sim.policy = "OPT"
             PROVE  sim.miss = MinFaults(pages, sim.size)
  BY DEF OptFaultsOfTrace
<1>1. sim # NoSim /\ stage = "run" /\ pages # << >> /\ Finished
  BY DEF OfTrace, Finished
<1>2. /\ SimRight(sim) /\ MissesCounted(sim) /\ Counting(sim)
      /\ DriverRight /\ FileOfTrace
  BY <1>1 DEF LruInv, PagingInv, ResultsRight, Running
<1>3. sim.addrList = Dedup(pages) /\ pages \in Seq(Int) /\ sim.size \in Nat \ {0}
  BY <1>1, <1>2 DEF FileOfTrace, DriverRight, SimRight, SimTypes
<1>4. sim.miss = MinFaults(Dedup(pages), sim.size)
  BY <1>1, <1>2, <1>3, FinishedCounts DEF CountsAll
<1> QED BY <1>3, <1>4, DedupKeepsFewest

(* OPT, which finds in the list when each page is used next, makes the     *)
(* fewest faults that any choice of victims can, for every trace and every *)
(* size, although it sees the file without the repetitions of the trace.   *)
(* The curves of the plot are then as they should be: one value for each   *)
(* policy and size, none below that of OPT, those of LRU and OPT not       *)
(* rising, and all meeting where every page has room.                      *)
THEOREM FaultsAlwaysRight == PagingSpec => []FaultsRight
<1>1. PagingInit => LruInv /\ ResultsRight
  <2> SUFFICES ASSUME PagingInit PROVE LruInv /\ ResultsRight
    OBVIOUS
  <2>1. stage = "idle" /\ sim = NoSim /\ results = << >>
    BY DEF PagingInit
  <2>2. LruInv
    BY <2>1, InitPaging DEF LruInv, FileOfTrace
  <2>3. results \in Seq(Result) /\ 1 .. Len(results) = {}
    BY <2>1
  <2>4. stage # "run" /\ stage # "done"
    BY <2>1
  <2> QED BY <2>1, <2>2, <2>3, <2>4 DEF ResultsRight
<1>2. LruInv /\ ResultsRight /\ [PagingNext]_pagingVars => LruInv' /\ ResultsRight'
  BY NextKeepsLru, NextKeepsResults
<1>3. LruInv /\ ResultsRight => FaultsRight
  BY KeepsCurves, KeepsFewest DEF FaultsRight
<1> QED BY <1>1, <1>2, <1>3, PTL DEF PagingSpec

-----------------------------------------------------------------------------
(* A behaviour in which one of the programs runs is one of each of these   *)
(* four, fairness included: it may be that they do nothing.                *)
THEOREM EachProgramRuns == ProgramsSpec => BufferSpec /\ RRSpec /\ PagingSpec /\ ParseSpec
<1>1. ProgramsInit => BufferInit /\ RRInit /\ PagingInit /\ ParseInit
  BY DEF ProgramsInit, LabInit
<1>2. [ProgramsNext]_programsVars => [LabNext]_labVars
  BY DEF ProgramsNext, programsVars
<1>3. [LabNext]_labVars => /\ [BufferNext]_bufferVars /\ [RRNext]_rrVars
                           /\ [PagingNext]_pagingVars /\ [ParseNext]_parse
  BY DEF LabNext, labVars
<1> QED BY <1>1, <1>2, <1>3, PTL
        DEF ProgramsSpec, LabFairness, BufferSpec, RRSpec, PagingSpec, ParseSpec

(* So what is proved of each of them holds in every behaviour of the whole:*)
(* the counts of the buffer and, with the mutex or a single slot, its      *)
(* items, the list of the round-robin scheduler and its turns, the memory  *)
(* and the faults of the simulations, and the values of parseInt.          *)
THEOREM LabAlwaysRight ==
    ProgramsSpec => /\ [](/\ BufferRight /\ OnListOnce /\ MemoryRight
                          /\ FaultsRight /\ ParsedRight)
                    /\ InTurn
BY EachProgramRuns, BufferAlwaysRight, ListedOnlyOnce, MemoryAlwaysRight,
   FaultsAlwaysRight, ParsesRight, ServedInTurn, PTL
=============================================================================
