---------------------------- MODULE BoundedBuffer ----------------------------
(***************************************************************************)
(* The bounded buffer of lab 9.3: Producer-ConsumerProblem3.c guards the   *)
(* buffer with two semaphores and a mutex, and ...Problem3simplified.c     *)
(* leaves the mutex out.  Each producer thread calls produce and each      *)
(* consumer thread calls consume, again and again.  The buffer is used as  *)
(* a stack: buffer_index is the number of items in it.                     *)
(***************************************************************************)
EXTENDS Integers, FiniteSets

CONSTANTS Producers, Consumers, \* the threads
          Items,                \* each is produced at most once
          BUFFER_SIZE,
          Unowned, NoItem

ASSUME BufferAssumption == /\ Producers \cap Consumers = {}
                           /\ IsFiniteSet(Producers) /\ IsFiniteSet(Consumers)
                           /\ BUFFER_SIZE \in Nat \ {0}
                           /\ Unowned \notin Producers \cup Consumers
                           /\ NoItem \notin Items

VARIABLES
    started,      \* init has been called
    mutexed,      \* the program is the one with the mutex
    empty, full,  \* the semaphores
    mutex,        \* its owner, or Unowned
    buffer, buffer_index,
    thread,       \* where a thread is, its item, and its copy of the index
    produced,     \* history: the items given to produce
    consumed      \* history: how often an item was taken out

bufferVars == <<started, mutexed, empty, full, mutex, buffer, buffer_index,
                thread, produced, consumed>>
program    == <<started, mutexed>>
semaphores == <<empty, full>>
contents   == <<buffer, buffer_index>>
history    == <<produced, consumed>>

Threads == Producers \cup Consumers

BufferInit == /\ started = FALSE /\ mutexed = FALSE
              /\ empty = 0 /\ full = 0
              /\ mutex = Unowned
              /\ buffer = [k \in 0 .. BUFFER_SIZE - 1 |-> NoItem]
              /\ buffer_index = 0
              /\ thread = [t \in Threads |-> [pc |-> "idle", item |-> NoItem,
                                              index |-> 0]]
              /\ produced = {}
              /\ consumed = [i \in Items |-> 0]

(* init of either program: all slots are free.                             *)
StartBuffer == /\ ~started
               /\ started' = TRUE /\ mutexed' \in BOOLEAN
               /\ empty' = BUFFER_SIZE
               /\ UNCHANGED <<full, mutex, contents, thread, history>>

AtLabel(t, label) == thread[t].pc = label
GoTo(t, label)    == thread' = [thread EXCEPT ![t].pc = label]

(* A thread calls produce with a new item, or consume.                     *)
CallProduce(p) ==
    /\ started /\ AtLabel(p, "idle")
    /\ \E i \in Items \ produced :
          /\ produced' = produced \cup {i}
          /\ thread' = [thread EXCEPT ![p].pc = "wait", ![p].item = i]
    /\ UNCHANGED <<program, semaphores, mutex, contents, consumed>>

CallConsume(c) ==
    /\ started /\ AtLabel(c, "idle")
    /\ GoTo(c, "wait")
    /\ UNCHANGED <<program, semaphores, mutex, contents, history>>

(* sem_wait of the two functions.                                          *)
AfterWait == IF mutexed THEN "lock" ELSE "enter"

WaitEmpty(p) ==
    /\ AtLabel(p, "wait") /\ empty > 0
    /\ empty' = empty - 1
    /\ GoTo(p, AfterWait)
    /\ UNCHANGED <<program, full, mutex, contents, history>>

WaitFull(c) ==
    /\ AtLabel(c, "wait") /\ full > 0
    /\ full' = full - 1
    /\ GoTo(c, AfterWait)
    /\ UNCHANGED <<program, empty, mutex, contents, history>>

(* Mutated: the mutex is not waited for.                                   *)
LockAnyway(t) ==
    /\ AtLabel(t, "lock")
    /\ mutex' = t
    /\ GoTo(t, "enter")
    /\ UNCHANGED <<program, semaphores, contents, history>>

Lock(t) ==
    /\ AtLabel(t, "lock") /\ mutex = Unowned
    /\ mutex' = t
    /\ GoTo(t, "enter")
    /\ UNCHANGED <<program, semaphores, contents, history>>

(* buffer[buffer_index] = item.  An index outside of the buffer is         *)
(* undefined behaviour, where the model stops.                             *)
PutItem(p) ==
    /\ AtLabel(p, "enter") /\ buffer_index \in DOMAIN buffer
    /\ buffer' = [buffer EXCEPT ![buffer_index] = thread[p].item]
    /\ thread' = [thread EXCEPT ![p].pc = "load", ![p].item = NoItem]
    /\ UNCHANGED <<program, semaphores, mutex, buffer_index, history>>

(* buffer_index++ and buffer_index-- load the index and then store it.     *)
LoadIndex(t) ==
    /\ AtLabel(t, IF t \in Producers THEN "load" ELSE "enter")
    /\ thread' = [thread EXCEPT ![t].pc = "store", ![t].index = buffer_index]
    /\ UNCHANGED <<program, semaphores, mutex, contents, history>>

AfterSection == IF mutexed THEN "unlock" ELSE "post"

StoreProduced(p) ==
    /\ AtLabel(p, "store")
    /\ buffer_index' = thread[p].index + 1
    /\ GoTo(p, AfterSection)
    /\ UNCHANGED <<program, semaphores, mutex, buffer, history>>

StoreConsumed(c) ==
    /\ AtLabel(c, "store")
    /\ buffer_index' = thread[c].index - 1
    /\ GoTo(c, "take")
    /\ UNCHANGED <<program, semaphores, mutex, buffer, history>>

(* item = buffer[buffer_index].                                            *)
TakeItem(c) ==
    /\ AtLabel(c, "take") /\ buffer_index \in DOMAIN buffer
    /\ thread' = [thread EXCEPT ![c].pc = AfterSection,
                                ![c].item = buffer[buffer_index]]
    /\ UNCHANGED <<program, semaphores, mutex, contents, history>>

(* Mutated: the mutex stays locked.                                        *)
KeepLocked(t) ==
    /\ AtLabel(t, "unlock")
    /\ GoTo(t, "post")
    /\ UNCHANGED <<program, semaphores, mutex, contents, history>>

Unlock(t) ==
    /\ AtLabel(t, "unlock")
    /\ mutex' = Unowned
    /\ GoTo(t, "post")
    /\ UNCHANGED <<program, semaphores, contents, history>>

(* sem_post: an item is available, and a slot is.                          *)
PostFull(p) ==
    /\ AtLabel(p, "post")
    /\ full' = full + 1
    /\ GoTo(p, "idle")
    /\ UNCHANGED <<program, empty, mutex, contents, history>>

(* A race may hand out an item twice, which is counted as two.             *)
ReturnItem(c) ==
    /\ AtLabel(c, "post")
    /\ empty' = empty + 1
    /\ thread' = [thread EXCEPT ![c].pc = "idle", ![c].item = NoItem]
    /\ consumed' = [i \in Items |-> IF i = thread[c].item /\ consumed[i] < 2
                                      THEN consumed[i] + 1 ELSE consumed[i]]
    /\ UNCHANGED <<program, full, mutex, contents, produced>>

ProducerStep(p) == \/ WaitEmpty(p) \/ Lock(p) \/ PutItem(p) \/ LoadIndex(p)
                   \/ StoreProduced(p) \/ Unlock(p) \/ PostFull(p)
ConsumerStep(c) == \/ CallConsume(c) \/ WaitFull(c) \/ Lock(c) \/ LoadIndex(c)
                   \/ StoreConsumed(c) \/ TakeItem(c) \/ Unlock(c)
                   \/ ReturnItem(c)

BufferNext == \/ StartBuffer
              \/ \E p \in Producers : CallProduce(p) \/ ProducerStep(p)
              \/ \E c \in Consumers : ConsumerStep(c)

(* Threads are scheduled fairly, and so are those that wait for a          *)
(* semaphore or the mutex, as long as only finitely many others overtake.  *)
BufferFairness == /\ \A p \in Producers : WF_bufferVars(ProducerStep(p))
                  /\ \A c \in Consumers : WF_bufferVars(ConsumerStep(c))

BufferSpec == BufferInit /\ [][BufferNext]_bufferVars /\ BufferFairness

-----------------------------------------------------------------------------
BufferLabels == {"idle", "wait", "lock", "enter", "load", "store", "take",
                 "unlock", "post"}

(* The types of the semaphores, the mutex and the threads.                 *)
BufferTypeOK ==
    /\ started \in BOOLEAN /\ mutexed \in BOOLEAN
    /\ empty \in 0 .. BUFFER_SIZE /\ full \in 0 .. BUFFER_SIZE
    /\ mutex \in Threads \cup {Unowned}
    /\ thread \in [Threads -> [pc : BufferLabels, item : Items \cup {NoItem},
                               index : Int]]

Holding == {"lock", "enter", "load", "store", "take", "unlock", "post"}
AtOneOf(S, labels) == {t \in S : thread[t].pc \in labels}

(* Every slot is free, filled, or in the hands of one thread that passed   *)
(* its sem_wait and not yet its sem_post, with or without the mutex.       *)
SlotsAccounted ==
    started => empty + full + Cardinality(AtOneOf(Threads, Holding))
                 = BUFFER_SIZE

(* With the mutex, or with a single slot, the index is the number of items *)
(* the semaphores know of and the threads have in hand: it never leaves    *)
(* the buffer.                                                             *)
IndexCounts ==
    mutexed \/ BUFFER_SIZE = 1 =>
        buffer_index = full
            + Cardinality(AtOneOf(Producers, {"unlock", "post"}))
            + Cardinality(AtOneOf(Consumers, {"lock", "enter", "store"}))

(* The semaphores and the index count the same items, wherever the threads *)
(* are between their steps.                                                *)
BufferCounts == /\ BufferTypeOK
                /\ SlotsAccounted
                /\ IndexCounts

(* Where an item is: in the hands of its producer, in the buffer, in the   *)
(* hands of a consumer (who may not have counted it off), or returned.     *)
Copies(i) == Cardinality({t \in Threads : thread[t].item = i})
             + Cardinality({k \in 0 .. buffer_index - 1 : buffer[k] = i})
             + Cardinality({t \in AtOneOf(Producers, {"load", "store"}) :
                               buffer[buffer_index] = i})
             + Cardinality({t \in AtOneOf(Consumers, {"take"}) :
                               buffer[buffer_index] = i})
             + consumed[i]

NothingLostOrTwice == \A i \in Items : Copies(i) = IF i \in produced THEN 1 ELSE 0

(* With the mutex, or with a single slot, the items that go in come out,   *)
(* each once.  Of the simplified program with more slots it is false, and  *)
(* nothing is said of its items.                                           *)
ItemsSafe == mutexed \/ BUFFER_SIZE = 1 => NothingLostOrTwice

(* Both: the semaphores account for every slot in either program, and with *)
(* the mutex, or with a single slot, the index and the items agree too.    *)
BufferRight == BufferCounts /\ ItemsSafe

(* With the mutex, no thread waits for ever for a semaphore or the mutex:  *)
(* every item that was given to produce has been returned by consume.      *)
ItemsArrived == mutexed => \A i \in produced : consumed[i] = 1
=============================================================================
