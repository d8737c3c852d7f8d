------------------------------ MODULE Scheduler ------------------------------
(***************************************************************************)
(* The priority scheduler (assignment 3, p1/scheduler.c): a ready queue    *)
(* per priority, 0 being the highest, and a counter that is to keep tasks  *)
(* of a high priority from starving the others.                            *)
(*                                                                         *)
(* The kernel around it, as the test drives it, has one processor.  It     *)
(* reports tasks that become ready at any time and asks for a task when    *)
(* the one that was running has been preempted or has blocked.             *)
(***************************************************************************)
EXTENDS Integers, Sequences

CONSTANTS Tasks,
          MAX_PRIORITY,         \* 10 in the code
          MAX_SAMEPRIO_LENGTH,  \* 4 in the code
          GivenPriority,        \* the priority each task is created with
          AllocationFails       \* may malloc fail in appendItem?

ASSUME PriorityAssumption == /\ MAX_PRIORITY \in Nat
                             /\ MAX_SAMEPRIO_LENGTH \in Nat \ {0}
                             /\ GivenPriority \in [Tasks -> Int]
ASSUME AllocationAssumption == AllocationFails \in BOOLEAN

VARIABLES
    priorityQueues,   \* sequence of tasks, by priority
    currentPriority,  \* priority of the task scheduled last
    samePrioCounter,  \* times in a row that its priority was scheduled
    state, priority,  \* fields of the tasks
    running,          \* the kernel: the task on the processor, or NoTask
    overtaken,        \* history: see NoLongStreak
    turns             \* history: see TurnsComplete

history == <<overtaken, turns>>
schedulerVars == <<priorityQueues, currentPriority, samePrioCounter>>
vars == <<schedulerVars, state, priority, running, history>>

Priorities == 0 .. MAX_PRIORITY
NoTask == "none"
States == {"UNUSED", "READY", "RUNNING", "WAITING"}

ASSUME TaskAssumption == NoTask \notin Tasks

-----------------------------------------------------------------------------
(* initScheduler.  The tasks are new or blocked.                           *)
Init == /\ priorityQueues = [p \in Priorities |-> << >>]
        /\ currentPriority = 0
        /\ samePrioCounter = [p \in Priorities |-> 0]
        /\ state \in [Tasks -> {"UNUSED", "WAITING"}]
        /\ priority = GivenPriority
        /\ running = NoTask
        /\ overtaken = 0
        /\ turns = 0

(* Mutated: a new item goes to the front.                                  *)
prependItem(p, t) == priorityQueues' = [priorityQueues EXCEPT ![p] = <<t>> \o @]

(* appendItem gives up without a word when it gets no memory for the item. *)
appendItem(p, t) ==
    \/ priorityQueues' = [priorityQueues EXCEPT ![p] = Append(@, t)]
    \/ AllocationFails /\ UNCHANGED priorityQueues

Clamp(p) == IF p < 0 THEN 0 ELSE IF p > MAX_PRIORITY THEN MAX_PRIORITY ELSE p

(* Mutated: a ready task is appended again.                                *)
onTaskReadyAlways(t) ==
    /\ priority' = [priority EXCEPT ![t] = Clamp(@)]
    /\ state' = [state EXCEPT ![t] = "READY"]
    /\ appendItem(Clamp(priority[t]), t)
    /\ UNCHANGED <<currentPriority, samePrioCounter, running, history>>

(* onTaskReady, also of a task that runs: its wake-up comes before it has  *)
(* blocked.  A task that is ready already is left alone.                   *)
onTaskReady(t) ==
    /\ IF state[t] = "READY"
         THEN UNCHANGED <<priorityQueues, priority, state>>
         ELSE /\ priority' = [priority EXCEPT ![t] = Clamp(@)]
              /\ state' = [state EXCEPT ![t] = "READY"]
              /\ appendItem(Clamp(priority[t]), t)
    /\ UNCHANGED <<currentPriority, samePrioCounter, running, history>>

(* Mutated: a preempted task is marked ready but not queued.               *)
onTaskPreemptedUnqueued(t) ==
    /\ t = running
    /\ state' = IF state[t] = "RUNNING"
                  THEN [state EXCEPT ![t] = "READY"] ELSE state
    /\ running' = NoTask
    /\ UNCHANGED <<schedulerVars, priority, history>>

onTaskPreempted(t) ==
    /\ t = running
    /\ IF state[t] = "RUNNING"
         THEN /\ state' = [state EXCEPT ![t] = "READY"]
              /\ appendItem(priority[t], t)
         ELSE UNCHANGED <<state, priorityQueues>>
    /\ running' = NoTask
    /\ UNCHANGED <<currentPriority, samePrioCounter, priority, history>>

onTaskWaiting(t) ==
    /\ t = running
    /\ state' = IF state[t] = "RUNNING"
                  THEN [state EXCEPT ![t] = "WAITING"] ELSE state
    /\ running' = NoTask
    /\ UNCHANGED <<schedulerVars, priority, history>>

-----------------------------------------------------------------------------
(* Mutated: the loop leaves out the last priority; the counter may go one  *)
(* further.                                                                *)
NonEmptyButLast == {p \in 0 .. MAX_PRIORITY - 1 : priorityQueues[p] # << >>}
ExhaustedLate   == samePrioCounter[currentPriority] > MAX_SAMEPRIO_LENGTH

NonEmpty       == {p \in Priorities : priorityQueues[p] # << >>}
Lower          == {p \in NonEmpty : p > currentPriority}
IsFirst(p, ps) == p \in ps /\ \A q \in ps : p <= q

Exhausted == samePrioCounter[currentPriority] >= MAX_SAMEPRIO_LENGTH

(* removeFirstItem of queue p, whose task gets the processor.              *)
Run(p) ==
    LET t == Head(priorityQueues[p]) IN
    /\ priorityQueues' = [priorityQueues EXCEPT ![p] = Tail(@)]
    /\ state' = [state EXCEPT ![t] = "RUNNING"]
    /\ running' = t
    /\ currentPriority' = p
    /\ overtaken' = IF \E q \in NonEmpty : q > p
                      THEN IF p # currentPriority THEN 1
                           ELSE IF overtaken <= MAX_SAMEPRIO_LENGTH
                             THEN overtaken + 1 ELSE overtaken
                      ELSE 0
    /\ turns' = IF p # currentPriority THEN 1
                ELSE IF turns < MAX_SAMEPRIO_LENGTH THEN turns + 1 ELSE turns

(* Mutated: no reset, a priority goes on from the count of its last turns. *)
StartCounterOn(p) == samePrioCounter' = [samePrioCounter EXCEPT ![p] = @ + 1]

(* The counter of another priority starts anew at 1.                       *)
StartCounter(p) == samePrioCounter' = [samePrioCounter EXCEPT
                                         ![currentPriority] = 0, ![p] = 1]

(* scheduleNextTask when the counter has run out: the first lower priority *)
(* that has a task.                                                        *)
ScheduleLower ==
    /\ Exhausted
    /\ \E p \in Lower : /\ IsFirst(p, Lower)
                        /\ Run(p)
                        /\ StartCounter(p)

(* Otherwise the highest priority that has a task.  A counter that has run *)
(* out with no lower priority waiting is reset first.                      *)
Counted == IF Exhausted THEN 0 ELSE samePrioCounter[currentPriority]

ScheduleHighest ==
    /\ ~(Exhausted /\ Lower # {})
    /\ \E p \in NonEmpty :
          /\ IsFirst(p, NonEmpty)
          /\ Run(p)
          /\ IF p = currentPriority
               THEN samePrioCounter' = [samePrioCounter EXCEPT ![p] = Counted + 1]
               ELSE StartCounter(p)

(* scheduleNextTask returns NULL.  The priority stays current, and what    *)
(* was counted of it stays.                                                *)
ScheduleNone ==
    /\ NonEmpty = {}
    /\ samePrioCounter' = [samePrioCounter EXCEPT ![currentPriority] = Counted]
    /\ UNCHANGED <<priorityQueues, currentPriority, state, running, history>>

scheduleNextTask ==
    /\ running = NoTask
    /\ ScheduleLower \/ ScheduleHighest \/ ScheduleNone
    /\ UNCHANGED priority

Leave == \E t \in Tasks : onTaskPreempted(t) \/ onTaskWaiting(t)

Next == \/ \E t \in Tasks : onTaskReady(t)
        \/ Leave
        \/ scheduleNextTask

Spec == Init /\ [][Next]_vars

(* The timer ends the turn of every running task, and the kernel then asks *)
(* for the next one.                                                       *)
FairSpec == Spec /\ WF_vars(Leave) /\ WF_vars(scheduleNextTask)

-----------------------------------------------------------------------------
TypeOK == /\ priorityQueues \in [Priorities -> Seq(Tasks)]
          /\ currentPriority \in Priorities
          /\ samePrioCounter \in [Priorities -> 0 .. MAX_SAMEPRIO_LENGTH]
          /\ state \in [Tasks -> States]
          /\ priority \in [Tasks -> Int]
          /\ running \in Tasks \cup {NoTask}
          /\ overtaken \in 0 .. MAX_SAMEPRIO_LENGTH + 1
          /\ turns \in 0 .. MAX_SAMEPRIO_LENGTH

Positions(p) == 1 .. Len(priorityQueues[p])

(* What is queued is ready, waits in the queue of its own priority, and    *)
(* waits there once: no task is handed to the kernel twice.                *)
QueuesSound ==
    \A p \in Priorities : \A i \in Positions(p) :
        LET t == priorityQueues[p][i] IN
        /\ state[t] = "READY"
        /\ priority[t] = p
        /\ \A j \in Positions(p) : priorityQueues[p][j] = t => i = j

(* The comment of STATE_READY: the task should be on a ready queue.        *)
ReadyQueued ==
    \A t \in Tasks :
        state[t] = "READY" =>
            \E p \in Priorities : \E i \in Positions(p) :
                priorityQueues[p][i] = t

(* A running task is the kernel's, so it is not also on a queue.           *)
RunningIsCurrent == \A t \in Tasks : state[t] = "RUNNING" => t = running

(* Only the priority scheduled last is being counted.                      *)
OneCounter == \A p \in Priorities \ {currentPriority} : samePrioCounter[p] = 0

(* Whatever the order of wake-ups, preemptions and schedules: each queue   *)
(* holds ready tasks of its priority, once; no task that runs is queued;   *)
(* and only the current priority has a count.                              *)
SchedulerInv == /\ TypeOK
                /\ QueuesSound
                /\ RunningIsCurrent
                /\ OneCounter

(* The comment of MAX_SAMEPRIO_LENGTH: tasks of one priority run at most   *)
(* so many times in a row while a task of a lower priority is ready.       *)
NoLongStreak == overtaken <= MAX_SAMEPRIO_LENGTH

(* What NoLongStreak and TurnsComplete rest on: the streak never runs      *)
(* ahead of the counter, while it counts a lower priority has a task, and  *)
(* the counter never runs ahead of the turns.                              *)
StreakCounted == /\ overtaken <= samePrioCounter[currentPriority]
                 /\ overtaken > 0 => Lower # {}
                 /\ samePrioCounter[currentPriority] <= turns

(* A task that the scheduler knows has a priority with a queue.            *)
PriorityClamped == \A t \in Tasks : state[t] \in {"READY", "RUNNING"} =>
                                       priority[t] \in Priorities

(* The processor is left idle only if no task is ready.                    *)
WorkConserving ==
    [][scheduleNextTask /\ running' = NoTask =>
          \A t \in Tasks : state[t] # "READY"]_vars

(* The comment of MAX_SAMEPRIO_LENGTH, starvation prevention: every ready  *)
(* task gets the processor in the end.                                     *)
NoStarvation == \A t \in Tasks : state[t] = "READY" ~> running = t

(* The two highest priorities do not starve each other, nor is either      *)
(* starved by lower ones.                                                  *)
HighestTwoRun ==
    \A t \in Tasks : state[t] = "READY" /\ priority[t] <= 1 ~> running = t

(* A task of a lower priority is preferred to a waiting one of the current *)
(* priority only after that priority had its MAX_SAMEPRIO_LENGTH turns     *)
(* since it became current.  An idle processor in between does not start   *)
(* them anew: scheduleNextTask keeps samePrioCounter when it answers NULL, *)
(* as turns does, although the test says that decisions after that will    *)
(* not consider any execution before it (main.c, lines 49 to 50).  After   *)
(* an idle spell the turns in a row may thus be fewer.                     *)
TurnsComplete ==
    [][/\ running' # running /\ currentPriority' > currentPriority
       /\ priorityQueues[currentPriority] # << >>
       => turns >= MAX_SAMEPRIO_LENGTH]_vars
=============================================================================
