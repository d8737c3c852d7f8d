--------------------------- MODULE Scheduler_proofs ---------------------------
(***************************************************************************)
(* Safety of the priority scheduler for every set of tasks, number of      *)
(* priorities and length of a streak.                                      *)
(***************************************************************************)
EXTENDS Scheduler, SequenceTheorems, TLAPS

USE PriorityAssumption, AllocationAssumption, TaskAssumption

QueueInv == TypeOK /\ QueuesSound /\ RunningIsCurrent /\ PriorityClamped

LEMMA QueueElements ==
  ASSUME TypeOK, NEW p \in Priorities
  PROVE  /\ priorityQueues[p] \in Seq(Tasks)
         /\ Len(priorityQueues[p]) \in Nat
         /\ \A i \in Positions(p) : i \in Nat /\ priorityQueues[p][i] \in Tasks
<1>1. priorityQueues[p] \in Seq(Tasks)
  BY DEF TypeOK
<1> QED BY <1>1 DEF Positions

(* A task that is not ready is on no queue.                                *)
LEMMA NotQueued ==
  ASSUME QueueInv, NEW t \in Tasks, state[t] # "READY",
         NEW p \in Priorities, NEW i \in Positions(p)
  PROVE  priorityQueues[p][i] # t
BY DEF QueueInv, QueuesSound

(* Making a task ready that was not, with or without its item appended.    *)
LEMMA MakeReady ==
  ASSUME QueueInv, NEW t \in Tasks, state[t] # "READY", NEW p \in Priorities,
         appendItem(p, t),
         state' = [state EXCEPT ![t] = "READY"],
         priority' = [priority EXCEPT ![t] = p]
  PROVE  /\ priorityQueues' \in [Priorities -> Seq(Tasks)]
         /\ QueuesSound'
         /\ PriorityClamped'
<1> USE DEF QueueInv, TypeOK
<1>1. PriorityClamped'
  BY DEF PriorityClamped
<1>2. CASE UNCHANGED priorityQueues
  <2> SUFFICES ASSUME NEW q \in Priorities, NEW i \in Positions(q)
               PROVE  LET u == priorityQueues[q][i] IN
                      /\ state'[u] = "READY"
                      /\ priority'[u] = q
                      /\ \A j \in Positions(q) : priorityQueues[q][j] = u => i = j
    <3>1. \A q \in Priorities : Positions(q)' = Positions(q)
      BY <1>2 DEF Positions
    <3>2. priorityQueues' \in [Priorities -> Seq(Tasks)]
      BY <1>2
    <3> QED BY <1>1, <1>2, <3>1, <3>2 DEF QueuesSound
  <2>1. priorityQueues[q][i] \in Tasks /\ priorityQueues[q][i] # t
    BY QueueElements, NotQueued
  <2> QED BY <2>1 DEF QueuesSound
<1>3. CASE priorityQueues' = [priorityQueues EXCEPT ![p] = Append(@, t)]
  <2>1. /\ priorityQueues' \in [Priorities -> Seq(Tasks)]
        /\ priorityQueues'[p] = Append(priorityQueues[p], t)
        /\ \A q \in Priorities : q # p => priorityQueues'[q] = priorityQueues[q]
    BY <1>3
  <2>2. /\ Positions(p)' = 1 .. Len(priorityQueues[p]) + 1
        /\ \A q \in Priorities : q # p => Positions(q)' = Positions(q)
    BY <2>1 DEF Positions
  <2>3. /\ priorityQueues'[p][Len(priorityQueues[p]) + 1] = t
        /\ \A i \in Positions(p) : priorityQueues'[p][i] = priorityQueues[p][i]
    BY <2>1 DEF Positions
  <2>4. ASSUME NEW q \in Priorities, NEW i \in Positions(q)'
        PROVE  LET u == priorityQueues'[q][i] IN
               /\ state'[u] = "READY"
               /\ priority'[u] = q
               /\ \A j \in Positions(q)' : priorityQueues'[q][j] = u => i = j
    <3>1. CASE q = p /\ i = Len(priorityQueues[p]) + 1
      <4>1. ASSUME NEW j \in Positions(p)', j # i
            PROVE  priorityQueues'[p][j] # t
        <5>1. j \in Positions(p)
          BY <3>1, <4>1, <2>2 DEF Positions
        <5> QED BY <5>1, <2>3, NotQueued
      <4> QED BY <3>1, <4>1, <2>3
    <3>2. CASE ~(q = p /\ i = Len(priorityQueues[p]) + 1)
      <4>1. i \in Positions(q) /\ priorityQueues'[q][i] = priorityQueues[q][i]
        <5>1. Len(priorityQueues[p]) \in Nat
          BY QueueElements
        <5>2. CASE q = p
          <6>1. i \in 1 .. Len(priorityQueues[p]) + 1 /\ i # Len(priorityQueues[p]) + 1
            BY <3>2, <5>2, <2>2
          <6>2. i \in Positions(p)
            BY <5>1, <6>1 DEF Positions
          <6> QED BY <5>2, <6>2, <2>3
        <5>3. CASE q # p
          BY <5>3, <2>1, <2>2
        <5> QED BY <5>2, <5>3
      <4>2. priorityQueues[q][i] \in Tasks /\ priorityQueues[q][i] # t
        BY <4>1, QueueElements, NotQueued
      <4>3. ASSUME NEW j \in Positions(q)', priorityQueues'[q][j] = priorityQueues[q][i]
            PROVE  i = j
        <5>1. j \in Positions(q) /\ priorityQueues'[q][j] = priorityQueues[q][j]
          <6>1. Len(priorityQueues[p]) \in Nat
            BY QueueElements
          <6>2. CASE q = p
            <7>1. j # Len(priorityQueues[p]) + 1
              BY <4>2, <4>3, <6>2, <2>3
            <7>2. j \in Positions(p)
              BY <6>1, <6>2, <7>1, <2>2 DEF Positions
            <7> QED BY <6>2, <7>2, <2>3
          <6>3. CASE q # p
            BY <6>3, <2>1, <2>2
          <6> QED BY <6>2, <6>3
        <5> QED BY <4>1, <4>3, <5>1 DEF QueuesSound
      <4> QED BY <4>1, <4>2, <4>3 DEF QueuesSound
    <3> QED BY <3>1, <3>2
  <2> QED BY <1>1, <2>1, <2>4 DEF QueuesSound
<1> QED BY <1>2, <1>3 DEF appendItem, QueueInv, TypeOK

(* Taking the first task of a queue leaves the queues sound.               *)
LEMMA RunSound ==
  ASSUME QueueInv, running = NoTask, NEW p \in NonEmpty, Run(p), UNCHANGED priority
  PROVE  /\ priorityQueues' \in [Priorities -> Seq(Tasks)]
         /\ state' \in [Tasks -> States]
         /\ running' \in Tasks
         /\ QueuesSound' /\ RunningIsCurrent' /\ PriorityClamped'
<1> USE DEF QueueInv, TypeOK
<1> DEFINE t == Head(priorityQueues[p])
<1>1. /\ p \in Priorities /\ priorityQueues[p] \in Seq(Tasks)
      /\ priorityQueues[p] # << >>
  BY DEF NonEmpty
<1>2. 1 \in Positions(p) /\ t = priorityQueues[p][1] /\ t \in Tasks
  BY <1>1 DEF Positions
<1>3. /\ priorityQueues' = [priorityQueues EXCEPT ![p] = Tail(@)]
      /\ state' = [state EXCEPT ![t] = "RUNNING"]
      /\ running' = t
  BY DEF Run
<1>4. state[t] = "READY" /\ priority[t] = p
  BY <1>1, <1>2 DEF QueuesSound
<1> HIDE DEF t
<1>5. /\ priorityQueues' \in [Priorities -> Seq(Tasks)]
      /\ priorityQueues'[p] = Tail(priorityQueues[p])
      /\ \A q \in Priorities : q # p => priorityQueues'[q] = priorityQueues[q]
  BY <1>1, <1>3
<1>6. /\ Positions(p)' = 1 .. Len(priorityQueues[p]) - 1
      /\ \A q \in Priorities : q # p => Positions(q)' = Positions(q)
  BY <1>1, <1>5 DEF Positions
<1>7. \A i \in Positions(p)' : /\ i + 1 \in Positions(p)
                               /\ priorityQueues'[p][i] = priorityQueues[p][i + 1]
  BY <1>1, <1>5, <1>6 DEF Positions
<1>20. Len(priorityQueues[p]) \in Nat /\ \A i \in Positions(p)' : i \in Nat \ {0}
  <2>1. Len(priorityQueues[p]) \in Nat
    BY <1>1, LenProperties
  <2> QED BY <2>1, <1>6
<1>8. ASSUME NEW q \in Priorities, NEW i \in Positions(q)'
      PROVE  LET u == priorityQueues'[q][i] IN
             /\ state'[u] = "READY"
             /\ priority'[u] = q
             /\ \A j \in Positions(q)' : priorityQueues'[q][j] = u => i = j
  <2>1. CASE q = p
    <3>1. i + 1 \in Positions(p) /\ i \in Nat \ {0}
      <4>1. i \in Positions(p)' /\ i + 1 \in Positions(p)
        BY <1>7, <2>1
      <4> QED BY <4>1, <1>6, <1>20
    <3>2. priorityQueues[p][i + 1] # t /\ priorityQueues[p][i + 1] \in Tasks
      BY <3>1, <1>1, <1>2 DEF QueuesSound, Positions
    <3>3. ASSUME NEW j \in Positions(p)', priorityQueues'[p][j] = priorityQueues'[p][i]
          PROVE  i = j
      <4>1. i + 1 = j + 1
        BY <1>7, <2>1, <3>3, <1>1 DEF QueuesSound
      <4>2. i \in Nat /\ j \in Nat
        <5>1. i \in Positions(p)' /\ j \in Positions(p)'
          BY <2>1
        <5> QED BY <5>1, <1>6, <1>20
      <4> QED BY <4>1, <4>2
    <3>4. state[priorityQueues[p][i + 1]] = "READY" /\ priority[priorityQueues[p][i + 1]] = p
      BY <3>1, <1>1 DEF QueuesSound
    <3> QED BY <2>1, <3>1, <3>2, <3>3, <3>4, <1>3, <1>7
  <2>2. CASE q # p
    <3>1. i \in Positions(q) /\ priorityQueues'[q][i] = priorityQueues[q][i]
      BY <2>2, <1>5, <1>6
    <3>2. priorityQueues[q][i] # t /\ priorityQueues[q][i] \in Tasks
      BY <2>2, <3>1, <1>4 DEF QueuesSound, Positions
    <3> QED BY <2>2, <3>1, <3>2, <1>3, <1>5, <1>6 DEF QueuesSound
  <2> QED BY <2>1, <2>2
<1>9. QueuesSound'
  BY <1>8 DEF QueuesSound
<1>10. RunningIsCurrent' /\ PriorityClamped'
  BY <1>1, <1>2, <1>3, <1>4 DEF RunningIsCurrent, PriorityClamped
<1> QED BY <1>2, <1>3, <1>5, <1>9, <1>10 DEF States

(* Every operation keeps the queues sound: no task is on two of them, or   *)
(* on one while it runs or waits.                                          *)
LEMMA NextQueues ==
  ASSUME QueueInv, Next
  PROVE  /\ priorityQueues' \in [Priorities -> Seq(Tasks)]
         /\ state' \in [Tasks -> States]
         /\ priority' \in [Tasks -> Int]
         /\ running' \in Tasks \cup {NoTask}
         /\ QueuesSound' /\ RunningIsCurrent' /\ PriorityClamped'
<1> USE DEF QueueInv, TypeOK
<1> DEFINE Goal == /\ priorityQueues' \in [Priorities -> Seq(Tasks)]
                   /\ state' \in [Tasks -> States]
                   /\ priority' \in [Tasks -> Int]
                   /\ running' \in Tasks \cup {NoTask}
                   /\ QueuesSound' /\ RunningIsCurrent' /\ PriorityClamped'
<1>1. ASSUME UNCHANGED priorityQueues, UNCHANGED priority,
             NEW u \in Tasks, state[u] # "READY",
             state' \in [Tasks -> States],
             \A v \in Tasks : v # u => state'[v] = state[v],
             state'[u] \in {"WAITING", state[u]},
             running' \in Tasks \cup {NoTask}, RunningIsCurrent'
      PROVE  Goal
  <2>1. \A q \in Priorities : Positions(q)' = Positions(q)
    BY <1>1 DEF Positions
  <2>2. \A q \in Priorities : \A i \in Positions(q) :
           /\ priorityQueues[q][i] # u
           /\ priorityQueues[q][i] \in Tasks
    BY <1>1, NotQueued, QueueElements
  <2>3. QueuesSound'
    BY <1>1, <2>1, <2>2 DEF QueuesSound
  <2>4. PriorityClamped'
    BY <1>1 DEF PriorityClamped
  <2> QED BY <1>1, <2>3, <2>4
<1>2. ASSUME NEW t \in Tasks, onTaskReady(t)
      PROVE  Goal
  <2>1. running' = running
    BY <1>2 DEF onTaskReady
  <2>2. CASE state[t] = "READY"
    <3>1. UNCHANGED <<priorityQueues, priority, state, running>>
      BY <1>2, <2>2 DEF onTaskReady
    <3> QED BY <3>1 DEF QueuesSound, Positions, RunningIsCurrent, PriorityClamped
  <2>3. CASE state[t] # "READY"
    <3>1. Clamp(priority[t]) \in Priorities
      BY DEF Clamp, Priorities
    <3>2. /\ appendItem(Clamp(priority[t]), t)
          /\ state' = [state EXCEPT ![t] = "READY"]
          /\ priority' = [priority EXCEPT ![t] = Clamp(priority[t])]
      BY <1>2, <2>3 DEF onTaskReady
    <3>3. /\ priorityQueues' \in [Priorities -> Seq(Tasks)]
          /\ QueuesSound'
          /\ PriorityClamped'
      BY <2>3, <3>1, <3>2, MakeReady
    <3>4. RunningIsCurrent'
      BY <2>1, <3>2 DEF RunningIsCurrent
    <3>5. priority' \in [Tasks -> Int] /\ state' \in [Tasks -> States]
      BY <3>1, <3>2 DEF Priorities, States
    <3> QED BY <2>1, <3>3, <3>4, <3>5
  <2> QED BY <2>2, <2>3
<1>3. ASSUME NEW t \in Tasks, onTaskPreempted(t)
      PROVE  Goal
  <2>1. t = running /\ running' = NoTask /\ UNCHANGED priority
    BY <1>3 DEF onTaskPreempted
  <2>2. CASE state[t] = "RUNNING"
    <3>1. /\ appendItem(priority[t], t)
          /\ state' = [state EXCEPT ![t] = "READY"]
          /\ priority' = [priority EXCEPT ![t] = priority[t]]
      BY <1>3, <2>2 DEF onTaskPreempted
    <3>2. priority[t] \in Priorities
      BY <2>2 DEF PriorityClamped
    <3>3. /\ priorityQueues' \in [Priorities -> Seq(Tasks)]
          /\ QueuesSound'
          /\ PriorityClamped'
      BY <2>2, <3>1, <3>2, MakeReady
    <3>4. RunningIsCurrent' /\ state' \in [Tasks -> States]
      BY <2>1, <3>1 DEF RunningIsCurrent, States
    <3> QED BY <2>1, <3>3, <3>4
  <2>3. CASE state[t] # "RUNNING"
    <3>1. UNCHANGED <<priorityQueues, priority, state>>
      BY <1>3, <2>3 DEF onTaskPreempted
    <3>2. RunningIsCurrent'
      BY <2>1, <2>3, <3>1 DEF RunningIsCurrent
    <3> QED BY <2>1, <3>1, <3>2 DEF QueuesSound, Positions, PriorityClamped
  <2> QED BY <2>2, <2>3
<1>4. ASSUME NEW t \in Tasks, onTaskWaiting(t)
      PROVE  Goal
  <2>1. /\ t = running /\ running' = NoTask
        /\ UNCHANGED <<priorityQueues, priority>>
        /\ state' = IF state[t] = "RUNNING"
                      THEN [state EXCEPT ![t] = "WAITING"] ELSE state
    BY <1>4 DEF onTaskWaiting, schedulerVars
  <2>2. RunningIsCurrent'
    BY <2>1 DEF RunningIsCurrent
  <2>3. CASE state[t] = "RUNNING"
    <3>1. /\ state' \in [Tasks -> States]
          /\ \A v \in Tasks : v # t => state'[v] = state[v]
          /\ state'[t] = "WAITING"
      BY <2>1, <2>3 DEF States
    <3> QED BY <2>1, <2>2, <2>3, <3>1, <1>1
  <2>4. CASE state[t] # "RUNNING"
    <3>1. UNCHANGED <<priorityQueues, priority, state>>
      BY <2>1, <2>4
    <3>2. QueuesSound' /\ PriorityClamped'
      BY <3>1 DEF QueuesSound, Positions, PriorityClamped
    <3>3. priorityQueues' \in [Priorities -> Seq(Tasks)] /\ state' \in [Tasks -> States]
      BY <3>1
    <3> QED BY <2>1, <2>2, <3>2, <3>3
  <2> QED BY <2>3, <2>4
<1>5. CASE scheduleNextTask
  <2>1. running = NoTask /\ UNCHANGED priority
    BY <1>5 DEF scheduleNextTask
  <2>2. CASE ScheduleLower \/ ScheduleHighest
    <3>1. PICK p \in NonEmpty : Run(p)
      BY <2>2 DEF ScheduleLower, ScheduleHighest, Lower
    <3> QED BY <2>1, <3>1, RunSound
  <2>3. CASE ScheduleNone
    <3>1. UNCHANGED <<priorityQueues, state, running>>
      BY <2>3 DEF ScheduleNone
    <3> QED BY <2>1, <3>1 DEF QueuesSound, Positions, RunningIsCurrent, PriorityClamped
  <2> QED BY <1>5, <2>2, <2>3 DEF scheduleNextTask
<1> QED BY <1>2, <1>3, <1>4, <1>5 DEF Next, Leave

CounterInv == /\ OneCounter
              /\ StreakCounted
              /\ NoLongStreak

LEMMA AppendNotEmpty ==
  ASSUME NEW seq \in Seq(Tasks), NEW t \in Tasks
  PROVE  Append(seq, t) # << >>
BY AppendProperties

(* Queues only grow outside scheduleNextTask, so a lower priority that has *)
(* a task keeps it.                                                        *)
LEMMA LowerGrows ==
  ASSUME QueueInv, Next, ~scheduleNextTask
  PROVE  /\ UNCHANGED <<currentPriority, samePrioCounter, overtaken, turns>>
         /\ Lower # {} => Lower' # {}
<1> USE DEF QueueInv, TypeOK
<1>1. UNCHANGED <<currentPriority, samePrioCounter, overtaken, turns>>
  BY DEF Next, Leave, onTaskReady, onTaskPreempted, onTaskWaiting, schedulerVars, history
<1>2. \/ UNCHANGED priorityQueues
      \/ \E p \in Priorities, t \in Tasks :
            priorityQueues' = [priorityQueues EXCEPT ![p] = Append(@, t)]
  <2>1. ASSUME NEW t \in Tasks, onTaskReady(t)
        PROVE  \/ UNCHANGED priorityQueues
               \/ \E p \in Priorities, u \in Tasks :
                     priorityQueues' = [priorityQueues EXCEPT ![p] = Append(@, u)]
    <3>1. Clamp(priority[t]) \in Priorities
      BY DEF Clamp, Priorities
    <3> QED BY <2>1, <3>1 DEF onTaskReady, appendItem
  <2>2. ASSUME NEW t \in Tasks, onTaskPreempted(t)
        PROVE  \/ UNCHANGED priorityQueues
               \/ \E p \in Priorities, u \in Tasks :
                     priorityQueues' = [priorityQueues EXCEPT ![p] = Append(@, u)]
    <3>1. state[t] = "RUNNING" => priority[t] \in Priorities
      BY DEF PriorityClamped
    <3> QED BY <2>2, <3>1 DEF onTaskPreempted, appendItem
  <2>3. ASSUME NEW t \in Tasks, onTaskWaiting(t)
        PROVE  UNCHANGED priorityQueues
    BY <2>3 DEF onTaskWaiting, schedulerVars
  <2> QED BY <2>1, <2>2, <2>3 DEF Next, Leave
<1>3. ASSUME NEW q \in Lower PROVE q \in Lower'
  <2>1. q \in Priorities /\ priorityQueues[q] # << >> /\ q > currentPriority
        /\ priorityQueues[q] \in Seq(Tasks)
    BY <1>3 DEF Lower, NonEmpty
  <2>2. priorityQueues'[q] # << >>
    <3>1. CASE UNCHANGED priorityQueues
      BY <3>1, <2>1
    <3>2. ASSUME NEW p \in Priorities, NEW t \in Tasks,
                 priorityQueues' = [priorityQueues EXCEPT ![p] = Append(@, t)]
          PROVE  priorityQueues'[q] # << >>
      <4>1. CASE q = p
        <5>1. priorityQueues'[q] = Append(priorityQueues[q], t)
          BY <3>2, <4>1
        <5>2. Append(priorityQueues[q], t) # << >>
          BY <2>1, <3>2, AppendNotEmpty
        <5> QED BY <5>1, <5>2
      <4>2. CASE q # p
        BY <3>2, <4>2, <2>1
      <4> QED BY <4>1, <4>2
    <3> QED BY <3>1, <3>2, <1>2
  <2> QED BY <2>1, <2>2, <1>1 DEF Lower, NonEmpty
<1> QED BY <1>1, <1>3

(* StartCounter leaves one counter that is not 0.                          *)
LEMMA CounterStarts ==
  ASSUME TypeOK, OneCounter, NEW p \in Priorities, p # currentPriority,
         StartCounter(p)
  PROVE  /\ samePrioCounter' \in [Priorities -> 0 .. MAX_SAMEPRIO_LENGTH]
         /\ samePrioCounter'[p] = 1
         /\ \A q \in Priorities \ {p} : samePrioCounter'[q] = 0
<1>1. /\ samePrioCounter' = [samePrioCounter EXCEPT
                               ![currentPriority] = 0, ![p] = 1]
      /\ samePrioCounter \in [Priorities -> 0 .. MAX_SAMEPRIO_LENGTH]
      /\ currentPriority \in Priorities
      /\ 0 \in 0 .. MAX_SAMEPRIO_LENGTH /\ 1 \in 0 .. MAX_SAMEPRIO_LENGTH
  BY DEF StartCounter, TypeOK
<1>2. samePrioCounter' \in [Priorities -> 0 .. MAX_SAMEPRIO_LENGTH]
  BY <1>1
<1>3. samePrioCounter'[p] = 1
  BY <1>1
<1>4. ASSUME NEW q \in Priorities \ {p} PROVE samePrioCounter'[q] = 0
  <2>1. CASE q = currentPriority
    BY <1>1, <2>1
  <2>2. CASE q # currentPriority
    BY <1>1, <2>2 DEF OneCounter
  <2> QED BY <2>1, <2>2
<1> QED BY <1>2, <1>3, <1>4

(* The counter never exceeds its bound, and never falls behind the number  *)
(* of times the current priority ran over a waiting lower one.             *)
LEMMA NextCounters ==
  ASSUME QueueInv, CounterInv, Next
  PROVE  /\ currentPriority' \in Priorities
         /\ samePrioCounter' \in [Priorities -> 0 .. MAX_SAMEPRIO_LENGTH]
         /\ overtaken' \in 0 .. MAX_SAMEPRIO_LENGTH + 1
         /\ turns' \in 0 .. MAX_SAMEPRIO_LENGTH
         /\ CounterInv'
<1> USE DEF QueueInv, TypeOK, CounterInv, OneCounter, StreakCounted, NoLongStreak
<1> DEFINE Goal == /\ currentPriority' \in Priorities
                   /\ samePrioCounter' \in [Priorities -> 0 .. MAX_SAMEPRIO_LENGTH]
                   /\ overtaken' \in 0 .. MAX_SAMEPRIO_LENGTH + 1
                   /\ turns' \in 0 .. MAX_SAMEPRIO_LENGTH
                   /\ CounterInv'
<1>0. \A p \in Priorities : p \in Nat
  BY DEF Priorities
<1>1. CASE ~scheduleNextTask
  BY <1>1, LowerGrows
<1>6. ASSUME NEW p \in NonEmpty, Run(p)
      PROVE  /\ turns' \in 1 .. MAX_SAMEPRIO_LENGTH
             /\ p = currentPriority => \/ turns' = turns + 1
                                       \/ turns' = MAX_SAMEPRIO_LENGTH
  BY <1>6 DEF Run
(* After Run(p), the queue that overtaken counts over is still there.      *)
<1>2. ASSUME NEW p \in NonEmpty, Run(p), overtaken' > 0
      PROVE  Lower' # {}
  <2>1. PICK q \in NonEmpty : q > p
    BY <1>2 DEF Run
  <2>2. p \in Priorities /\ q \in Priorities /\ q # p /\ priorityQueues[q] # << >>
    BY <2>1, <1>0 DEF NonEmpty
  <2>3. priorityQueues'[q] = priorityQueues[q] /\ currentPriority' = p
    BY <1>2, <2>2 DEF Run
  <2> QED BY <2>1, <2>2, <2>3 DEF Lower, NonEmpty
<1>3. CASE ScheduleLower
  <2>1. PICK p \in Lower : IsFirst(p, Lower) /\ Run(p) /\ StartCounter(p)
    BY <1>3 DEF ScheduleLower
  <2>2. p \in NonEmpty /\ p \in Priorities /\ p # currentPriority
    BY <2>1, <1>0 DEF Lower, NonEmpty
  <2>3. overtaken' \in 0 .. 1 /\ currentPriority' = p
    BY <2>1, <2>2 DEF Run
  <2>4. /\ samePrioCounter' \in [Priorities -> 0 .. MAX_SAMEPRIO_LENGTH]
        /\ samePrioCounter'[p] = 1
        /\ \A q \in Priorities \ {p} : samePrioCounter'[q] = 0
    BY <2>1, <2>2, CounterStarts
  <2> QED BY <2>1, <2>2, <2>3, <2>4, <1>2, <1>6
<1>4. CASE ScheduleHighest
  <2>1. PICK p \in NonEmpty :
          /\ IsFirst(p, NonEmpty)
          /\ Run(p)
          /\ IF p = currentPriority
               THEN samePrioCounter' = [samePrioCounter EXCEPT ![p] = Counted + 1]
               ELSE StartCounter(p)
    BY <1>4 DEF ScheduleHighest
  <2>2. p \in Priorities /\ currentPriority' = p /\ overtaken' \in 0 .. MAX_SAMEPRIO_LENGTH + 1
    BY <2>1 DEF NonEmpty, Run
  <2>3. CASE p # currentPriority
    <3>1. overtaken' \in 0 .. 1
      BY <2>1, <2>3 DEF Run
    <3>2. /\ samePrioCounter' \in [Priorities -> 0 .. MAX_SAMEPRIO_LENGTH]
          /\ samePrioCounter'[p] = 1
          /\ \A q \in Priorities \ {p} : samePrioCounter'[q] = 0
      BY <2>1, <2>2, <2>3, CounterStarts
    <3> QED BY <2>1, <2>2, <3>1, <3>2, <1>2, <1>6
  <2>4. CASE p = currentPriority
    <3>1. /\ samePrioCounter' = [samePrioCounter EXCEPT ![p] = Counted + 1]
          /\ Counted + 1 \in 1 .. MAX_SAMEPRIO_LENGTH
      <4>1. CASE Exhausted
        BY <4>1, <2>1, <2>4 DEF Counted
      <4>2. CASE ~Exhausted
        BY <4>2, <2>1, <2>2, <2>4 DEF Counted, Exhausted
      <4> QED BY <4>1, <4>2
    <3>2. overtaken' <= Counted + 1
      <4>1. CASE ~Exhausted
        <5>1. Counted = samePrioCounter[p] /\ Counted \in Nat
          BY <4>1, <2>2, <2>4 DEF Counted
        <5>2. overtaken' <= overtaken + 1
          BY <2>1, <2>4 DEF Run
        <5> QED BY <5>1, <5>2, <2>2, <2>4
      <4>2. CASE Exhausted
        <5>1. ~ \E q \in NonEmpty : q > p
          BY <4>2, <1>4, <2>4 DEF ScheduleHighest, Lower
        <5>2. overtaken' = 0
          BY <5>1, <2>1 DEF Run
        <5> QED BY <5>2, <3>1
      <4> QED BY <4>1, <4>2
    <3>3. /\ samePrioCounter' \in [Priorities -> 0 .. MAX_SAMEPRIO_LENGTH]
          /\ samePrioCounter'[p] = Counted + 1
          /\ \A q \in Priorities \ {p} : samePrioCounter'[q] = 0
      BY <3>1, <2>2, <2>4
    <3>4. Counted + 1 <= turns'
      <4>1. Counted <= turns
        BY DEF Counted
      <4>2. turns' = turns + 1 \/ turns' = MAX_SAMEPRIO_LENGTH
        BY <2>1, <2>4, <1>6
      <4>3. Counted \in Nat
        BY <3>1 DEF Counted
      <4> QED BY <4>1, <4>2, <4>3, <3>1
    <3> QED BY <2>1, <2>2, <3>1, <3>2, <3>3, <3>4, <1>2, <1>6
  <2> QED BY <2>3, <2>4
<1>5. CASE ScheduleNone
  <2>1. Lower = {} /\ overtaken = 0
    BY <1>5 DEF ScheduleNone, Lower
  <2>2. /\ samePrioCounter' = [samePrioCounter EXCEPT ![currentPriority] = Counted]
        /\ UNCHANGED <<currentPriority, overtaken, turns>>
        /\ Counted \in 0 .. MAX_SAMEPRIO_LENGTH
        /\ Counted <= samePrioCounter[currentPriority]
    BY <1>5 DEF ScheduleNone, Counted, history
  <2>3. samePrioCounter'[currentPriority'] = Counted
    BY <2>2
  <2> QED BY <2>1, <2>2, <2>3
<1> QED BY <1>1, <1>3, <1>4, <1>5 DEF scheduleNextTask

LEMMA InitSound == Init => QueueInv /\ CounterInv
<1> SUFFICES ASSUME Init PROVE QueueInv /\ CounterInv
  OBVIOUS
<1>1. \A p \in Priorities : priorityQueues[p] = << >> /\ Positions(p) = {}
  BY DEF Init, Positions
<1>2. TypeOK
  BY DEF Init, TypeOK, Priorities, States
<1>3. QueuesSound /\ RunningIsCurrent /\ PriorityClamped
  BY <1>1 DEF Init, QueuesSound, RunningIsCurrent, PriorityClamped
<1>4. CounterInv
  BY DEF Init, CounterInv, OneCounter, StreakCounted, NoLongStreak, Priorities
<1> QED BY <1>2, <1>3, <1>4 DEF QueueInv

(* Queues and counters together are inductive.                             *)
THEOREM SchedulerSafety == Spec => [](QueueInv /\ CounterInv)
<1>1. Init => QueueInv /\ CounterInv
  BY InitSound
<1>2. QueueInv /\ CounterInv /\ [Next]_vars => (QueueInv /\ CounterInv)'
  <2> SUFFICES ASSUME QueueInv, CounterInv, [Next]_vars
               PROVE  (QueueInv /\ CounterInv)'
    OBVIOUS
  <2>1. CASE Next
    BY <2>1, NextQueues, NextCounters DEF QueueInv, TypeOK
  <2>2. CASE UNCHANGED vars
    <3>1. UNCHANGED <<priorityQueues, currentPriority, samePrioCounter, state,
                      priority, running, overtaken, turns>>
      BY <2>2 DEF vars, schedulerVars, history
    <3>2. CounterInv'
      BY <3>1 DEF CounterInv, OneCounter, StreakCounted, NoLongStreak, Lower, NonEmpty
    <3>3. TypeOK' /\ QueuesSound'
      BY <3>1 DEF QueueInv, TypeOK, QueuesSound, Positions
    <3>4. RunningIsCurrent' /\ PriorityClamped'
      BY <3>1 DEF QueueInv, RunningIsCurrent, PriorityClamped
    <3> QED BY <3>2, <3>3, <3>4 DEF QueueInv
  <2> QED BY <2>1, <2>2
<1> QED BY <1>1, <1>2, PTL DEF Spec

(* No task is handed out twice: what is queued is ready, in the queue of   *)
(* its priority and there once, a running task is on no queue, and only    *)
(* the current priority is counted.                                        *)
THEOREM SchedulerAlwaysSound == Spec => []SchedulerInv
<1>1. QueueInv /\ CounterInv => SchedulerInv
  BY DEF QueueInv, CounterInv, SchedulerInv
<1> QED BY <1>1, SchedulerSafety, PTL

(* The starvation counter does what its comment says of one priority: it   *)
(* runs at most MAX_SAMEPRIO_LENGTH times in a row over a lower one.       *)
THEOREM StreakBounded == Spec => []NoLongStreak
<1>1. QueueInv /\ CounterInv => NoLongStreak
  BY DEF CounterInv
<1> QED BY <1>1, SchedulerSafety, PTL

(* Appending a task queues it and leaves the others queued.                *)
LEMMA AppendQueues ==
  ASSUME TypeOK, ReadyQueued, AllocationFails = FALSE,
         NEW p \in Priorities, NEW t \in Tasks, appendItem(p, t),
         state' = [state EXCEPT ![t] = "READY"]
  PROVE  ReadyQueued'
<1>1. /\ priorityQueues \in [Priorities -> Seq(Tasks)]
      /\ priorityQueues' = [priorityQueues EXCEPT ![p] = Append(@, t)]
      /\ priorityQueues'[p] = Append(priorityQueues[p], t)
      /\ \A q \in Priorities \ {p} : priorityQueues'[q] = priorityQueues[q]
  BY DEF TypeOK, appendItem
<1>2. /\ Len(priorityQueues[p]) \in Nat
      /\ Len(priorityQueues'[p]) = Len(priorityQueues[p]) + 1
      /\ priorityQueues'[p][Len(priorityQueues[p]) + 1] = t
      /\ \A i \in Positions(p) : priorityQueues'[p][i] = priorityQueues[p][i]
  BY <1>1, AppendProperties DEF Positions
<1>3. \A q \in Priorities : \A i \in Positions(q) :
         i \in Positions(q)' /\ priorityQueues'[q][i] = priorityQueues[q][i]
  BY <1>1, <1>2 DEF Positions
<1>4. Len(priorityQueues[p]) + 1 \in Positions(p)'
  BY <1>2 DEF Positions
<1> SUFFICES ASSUME NEW u \in Tasks, state'[u] = "READY"
             PROVE  \E q \in Priorities : \E i \in Positions(q)' :
                       priorityQueues'[q][i] = u
  BY DEF ReadyQueued
<1>5. CASE u = t
  BY <1>2, <1>4, <1>5
<1>6. CASE u # t
  <2>1. state[u] = "READY"
    BY <1>6 DEF TypeOK
  <2>2. PICK q \in Priorities : \E i \in Positions(q) : priorityQueues[q][i] = u
    BY <2>1 DEF ReadyQueued
  <2>3. PICK i \in Positions(q) : priorityQueues[q][i] = u
    BY <2>2
  <2> QED BY <2>3, <1>3
<1> QED BY <1>5, <1>6

(* Only the task that gets the processor leaves its queue.                 *)
LEMMA RunQueues ==
  ASSUME TypeOK, ReadyQueued, NEW p \in NonEmpty, Run(p)
  PROVE  ReadyQueued'
<1> DEFINE t == Head(priorityQueues[p])
<1>1. /\ p \in Priorities /\ priorityQueues[p] \in Seq(Tasks)
      /\ priorityQueues[p] # << >>
      /\ priorityQueues \in [Priorities -> Seq(Tasks)]
  BY DEF NonEmpty, TypeOK
<1>2. t = priorityQueues[p][1] /\ t \in Tasks
  BY <1>1
<1>3. /\ priorityQueues' = [priorityQueues EXCEPT ![p] = Tail(@)]
      /\ state' = [state EXCEPT ![t] = "RUNNING"]
  BY DEF Run
<1> HIDE DEF t
<1>4. /\ priorityQueues'[p] = Tail(priorityQueues[p])
      /\ \A q \in Priorities \ {p} : priorityQueues'[q] = priorityQueues[q]
  BY <1>1, <1>3
<1>5. /\ Len(priorityQueues[p]) \in Nat
      /\ Len(priorityQueues'[p]) = Len(priorityQueues[p]) - 1
      /\ \A i \in 1 .. Len(priorityQueues[p]) - 1 :
            priorityQueues'[p][i] = priorityQueues[p][i + 1]
  BY <1>1, <1>4
<1> SUFFICES ASSUME NEW u \in Tasks, state'[u] = "READY"
             PROVE  \E q \in Priorities : \E i \in Positions(q)' :
                       priorityQueues'[q][i] = u
  BY DEF ReadyQueued
<1>6. u # t /\ state[u] = "READY"
  BY <1>2, <1>3 DEF TypeOK
<1>7. PICK q \in Priorities : \E i \in Positions(q) : priorityQueues[q][i] = u
  BY <1>6 DEF ReadyQueued
<1>i. PICK i \in Positions(q) : priorityQueues[q][i] = u
  BY <1>7
<1>8. CASE q # p
  BY <1>4, <1>i, <1>8 DEF Positions
<1>9. CASE q = p
  <2>1. i \in 1 .. Len(priorityQueues[p]) /\ i # 1
    BY <1>2, <1>6, <1>i, <1>9 DEF Positions
  <2>2. i - 1 \in 1 .. Len(priorityQueues[p]) - 1
    BY <2>1, <1>5
  <2>3. priorityQueues'[p][i - 1] = u /\ i - 1 \in Positions(p)'
    BY <2>2, <1>5, <1>i, <1>9, <2>1 DEF Positions
  <2> QED BY <2>3, <1>1
<1> QED BY <1>8, <1>9

(* As long as appendItem gets its memory no ready task is forgotten: it is *)
(* on a queue until the processor is given to it.                          *)
THEOREM ReadyAlwaysQueued ==
  ASSUME AllocationFails = FALSE
  PROVE  Spec => []ReadyQueued
<1>1. Init => ReadyQueued
  BY DEF Init, ReadyQueued
<1>2. QueueInv /\ CounterInv /\ ReadyQueued /\ [Next]_vars => ReadyQueued'
  <2> SUFFICES ASSUME QueueInv, ReadyQueued, [Next]_vars
               PROVE  ReadyQueued'
    OBVIOUS
  <2>0. TypeOK /\ PriorityClamped
    BY DEF QueueInv
  <2>1. ASSUME UNCHANGED priorityQueues,
               \A u \in Tasks : state'[u] = "READY" => state[u] = "READY"
        PROVE  ReadyQueued'
    BY <2>1 DEF ReadyQueued, Positions
  <2>2. ASSUME NEW t \in Tasks, onTaskReady(t)
        PROVE  ReadyQueued'
    <3>1. CASE state[t] = "READY"
      BY <2>1, <2>2, <3>1 DEF onTaskReady
    <3>2. CASE state[t] # "READY"
      <4>1. Clamp(priority[t]) \in Priorities
        BY <2>0 DEF Clamp, Priorities, TypeOK
      <4> QED BY <2>0, <2>2, <3>2, <4>1, AppendQueues DEF onTaskReady
    <3> QED BY <3>1, <3>2
  <2>3. ASSUME NEW t \in Tasks, onTaskPreempted(t)
        PROVE  ReadyQueued'
    <3>1. CASE state[t] = "RUNNING"
      <4>1. priority[t] \in Priorities
        BY <2>0, <3>1 DEF PriorityClamped
      <4> QED BY <2>0, <2>3, <3>1, <4>1, AppendQueues DEF onTaskPreempted
    <3>2. CASE state[t] # "RUNNING"
      BY <2>1, <2>3, <3>2 DEF onTaskPreempted
    <3> QED BY <3>1, <3>2
  <2>4. ASSUME NEW t \in Tasks, onTaskWaiting(t)
        PROVE  ReadyQueued'
    <3>1. /\ UNCHANGED priorityQueues
          /\ state' = IF state[t] = "RUNNING"
                        THEN [state EXCEPT ![t] = "WAITING"] ELSE state
      BY <2>4 DEF onTaskWaiting, schedulerVars
    <3>2. \A u \in Tasks : state'[u] = "READY" => state[u] = "READY"
      BY <3>1, <2>0 DEF TypeOK
    <3> QED BY <2>1, <3>1, <3>2
  <2>5. CASE scheduleNextTask
    <3>1. CASE ScheduleLower \/ ScheduleHighest
      <4>1. PICK p \in NonEmpty : Run(p)
        BY <3>1 DEF ScheduleLower, ScheduleHighest, Lower
      <4> QED BY <2>0, <4>1, RunQueues
    <3>2. CASE ScheduleNone
      BY <2>1, <3>2 DEF ScheduleNone
    <3> QED BY <2>5, <3>1, <3>2 DEF scheduleNextTask
  <2>6. CASE UNCHANGED vars
    BY <2>1, <2>6 DEF vars, schedulerVars
  <2> QED BY <2>2, <2>3, <2>4, <2>5, <2>6 DEF Next, Leave
<1> QED BY <1>1, <1>2, SchedulerSafety, PTL DEF Spec

(* A lower priority gets its turn only after MAX_SAMEPRIO_LENGTH turns of  *)
(* the current one, when a task of that one still waits.  The turns count  *)
(* from the one that made it current, also across an idle processor.       *)
THEOREM TurnsAlwaysComplete == Spec => TurnsComplete
<1>1. ASSUME QueueInv, CounterInv, [Next]_vars,
             running' # running, currentPriority' > currentPriority,
             priorityQueues[currentPriority] # << >>
      PROVE  turns >= MAX_SAMEPRIO_LENGTH
  <2>0. /\ currentPriority \in Priorities
        /\ samePrioCounter[currentPriority] \in Nat
        /\ turns \in Nat
        /\ samePrioCounter[currentPriority] <= turns
        /\ currentPriority \in NonEmpty
    BY <1>1 DEF QueueInv, CounterInv, StreakCounted, TypeOK, NonEmpty
  <2>1. \A p \in Priorities : p \in Nat
    BY DEF Priorities
  <2>2. scheduleNextTask
    <3>1. ASSUME UNCHANGED currentPriority PROVE FALSE
      BY <1>1, <3>1, <2>0, <2>1
    <3> QED BY <1>1, <3>1 DEF Next, Leave, onTaskReady, onTaskPreempted,
                              onTaskWaiting, vars, schedulerVars
  <2>3. CASE ScheduleLower
    BY <2>0, <2>3 DEF ScheduleLower, Exhausted, Lower, IsFirst
  <2>4. CASE ScheduleHighest
    <3>1. PICK p \in NonEmpty : IsFirst(p, NonEmpty) /\ Run(p)
      BY <2>4 DEF ScheduleHighest
    <3>2. p <= currentPriority /\ currentPriority' = p
      BY <3>1, <2>0 DEF IsFirst, Run
    <3> QED BY <3>1, <3>2, <1>1, <2>0, <2>1 DEF NonEmpty
  <2>5. CASE ScheduleNone
    BY <2>0, <2>5 DEF ScheduleNone
  <2> QED BY <2>2, <2>3, <2>4, <2>5 DEF scheduleNextTask
<1>2. QueueInv /\ CounterInv /\ [Next]_vars =>
        [/\ running' # running /\ currentPriority' > currentPriority
         /\ priorityQueues[currentPriority] # << >>
         => turns >= MAX_SAMEPRIO_LENGTH]_vars
  BY <1>1
<1> QED BY <1>2, SchedulerSafety, PTL DEF Spec, TurnsComplete

(* The processor is left idle only when no task is ready, as long as       *)
(* appendItem gets its memory.                                             *)
THEOREM NeverIdleInVain ==
  ASSUME AllocationFails = FALSE
  PROVE  Spec => WorkConserving
<1>1. ASSUME ReadyQueued, scheduleNextTask, running' = NoTask,
             QueueInv, NEW t \in Tasks, state[t] = "READY"
      PROVE  FALSE
  <2>1. PICK p \in Priorities : \E i \in Positions(p) : priorityQueues[p][i] = t
    BY <1>1 DEF ReadyQueued
  <2>2. p \in NonEmpty
    BY <2>1 DEF NonEmpty, Positions
  <2>3. \E q \in NonEmpty : Run(q)
    BY <1>1, <2>2 DEF scheduleNextTask, ScheduleNone, ScheduleLower,
                      ScheduleHighest, Lower
  <2>4. PICK q \in NonEmpty : Run(q)
    BY <2>3
  <2>5. running' = Head(priorityQueues[q])
    BY <2>4 DEF Run
  <2>6. Head(priorityQueues[q]) \in Tasks
    BY <1>1 DEF QueueInv, TypeOK, NonEmpty
  <2> QED BY <1>1, <2>5, <2>6, TaskAssumption
<1>2. ReadyQueued /\ QueueInv /\ [Next]_vars =>
        [scheduleNextTask /\ running' = NoTask =>
           \A t \in Tasks : state[t] # "READY"]_vars
  BY <1>1
<1> QED BY <1>2, SchedulerSafety, ReadyAlwaysQueued, PTL DEF Spec, WorkConserving
=============================================================================
