----------------------------- MODULE RoundRobin -----------------------------
(***************************************************************************)
(* The round-robin scheduler of lab 3 (roundrobin.c) with its list of      *)
(* ready tasks (the one of list.c).  The processor is driven as main does, *)
(* which schedules a task, lets it run and reports it as ready again; a    *)
(* task may also block, and any task may be reported as ready at any time. *)
(***************************************************************************)
EXTENDS Naturals, Sequences, SequencesExt

CONSTANTS RRTasks, NoRRTask

ASSUME RRTaskAssumption == NoRRTask \notin RRTasks

VARIABLES
    listHead,  \* the tasks on the list
    rrState,   \* the state field of the tasks
    onCPU,     \* the task that main runs, or NoRRTask
    passed     \* history: the tasks that ran since a task was put on the list

rrVars == <<listHead, rrState, onCPU, passed>>

RRInit == /\ listHead = << >>
          /\ rrState = [t \in RRTasks |-> "NEW"]
          /\ onCPU = NoRRTask
          /\ passed = [t \in RRTasks |-> {}]

(* Mutated: the new item becomes the first one.                            *)
appendFirst(t) == listHead' = <<t>> \o listHead

appendItem(t) == listHead' = Append(listHead, t)

removeFirstItem == listHead' = Tail(listHead)

isEmpty == listHead = << >>

containsItem(t) == \E i \in DOMAIN listHead : listHead[i] = t

(* Mutated: a task on the list is put there again.                         *)
onTaskReadyAgain(t) ==
    /\ rrState' = [rrState EXCEPT ![t] = "READY"]
    /\ appendItem(t) /\ passed' = [passed EXCEPT ![t] = {}]

(* A task already on the list keeps its place.  When appendItem gets no    *)
(* memory the task is not on the list, though its state says ready.        *)
onTaskReady(t) ==
    /\ rrState' = [rrState EXCEPT ![t] = "READY"]
    /\ \/ /\ ~containsItem(t)
          /\ appendItem(t) /\ passed' = [passed EXCEPT ![t] = {}]
       \/ UNCHANGED <<listHead, passed>>

(* The first task, or NULL.                                                *)
scheduleNextTask ==
    IF isEmpty
      THEN onCPU' = NoRRTask /\ UNCHANGED <<listHead, passed>>
      ELSE LET t == Head(listHead) IN
           /\ onCPU' = t
           /\ removeFirstItem
           /\ passed' = [u \in RRTasks |-> IF u \in Range(Tail(listHead))
                                             THEN passed[u] \cup {t} ELSE {}]

(* A task is new, or has waited for something that now happens.            *)
RRWakeUp(t) == onTaskReady(t) /\ UNCHANGED onCPU

RRSchedule == onCPU = NoRRTask /\ scheduleNextTask /\ UNCHANGED rrState

(* The slice of the running task is over.  main also reports NULL when the *)
(* list was empty, and would crash; its four tasks never wait, so that it  *)
(* never is.                                                               *)
RRPreempt == /\ onCPU # NoRRTask
             /\ onTaskReady(onCPU)
             /\ onCPU' = NoRRTask

(* The running task waits or ends; the scheduler has no entry for that.    *)
RRBlock == /\ onCPU # NoRRTask
           /\ onCPU' = NoRRTask
           /\ UNCHANGED <<listHead, rrState, passed>>

RRNext == \/ \E t \in RRTasks : RRWakeUp(t)
          \/ RRSchedule \/ RRPreempt \/ RRBlock

(* The processor never stops, and slices end.                              *)
RRFairness == WF_rrVars(RRSchedule) /\ WF_rrVars(RRPreempt)

RRSpec == RRInit /\ [][RRNext]_rrVars /\ RRFairness

-----------------------------------------------------------------------------
(* A task is on the list at most once and is ready then: if it is reported *)
(* ready twice, or while it runs, it gets one turn and not two.            *)
OnListOnce == /\ IsInjective(listHead)
              /\ \A i \in DOMAIN listHead : rrState[listHead[i]] = "READY"

(* While a task is on the list, every other one runs at most once before   *)
(* it.                                                                     *)
InTurn ==
    [][\A t \in RRTasks : onCPU' \notin {onCPU, NoRRTask} /\ t \in Range(listHead') =>
                             onCPU' \notin passed[t]]_rrVars

(* A task that is on the list gets the processor.                          *)
RRServed == \A t \in RRTasks : t \in Range(listHead) ~> onCPU = t
=============================================================================
