---------------------------- MODULE TaskScheduler ----------------------------
(***************************************************************************)
(* TaskScheduler of orchestrator/scheduler.py: a heap from which entries   *)
(* are removed late.  Whoever leaves the queue, or moves in it, leaves a   *)
(* marked entry behind in the heap, to be dropped when it comes to the top.*)
(*                                                                         *)
(* heapq is external: a heap is the set of its entries, and its top is the *)
(* smallest.  No method awaits, so each is one step.  Bound: MaxCounter.   *)
(***************************************************************************)
EXTENDS Integers

CONSTANTS
    Tasks,
    Priorities,
    MaxCounter      \* how many entries are made between two clears

ASSUME SchedulerAssumption ==
    /\ Priorities \subseteq Int
    /\ MaxCounter \in Nat
    /\ "NO_TASK" \notin Tasks

NoTask == "NO_TASK"

VARIABLES
    heap,           \* _heap
    removed,        \* the entries of the heap whose removed flag is set
    entries,        \* _entries: the entry of a queued task
    counter,        \* _counter
    dequeued        \* what next or peek returned last

schedulerVars == <<heap, removed, entries, counter, dequeued>>

\* _PriorityEntry, without the flag
PriorityEntry == [neg_priority : Int, insertion_order : Nat, task_id : Tasks]

NoEntry == [neg_priority |-> 0, insertion_order |-> 0, task_id |-> NoTask]

\* The order the dataclass generates from its two compared fields.
Below(e, f) ==
    \/ e.neg_priority < f.neg_priority
    \/ e.neg_priority = f.neg_priority /\ e.insertion_order < f.insertion_order

\* contains
Contains(t) == entries[t] # NoEntry

SchedulerInit ==
    /\ heap = {} /\ removed = {} /\ counter = 0
    /\ entries = [t \in Tasks |-> NoEntry]
    /\ dequeued = NoTask

\* schedule that forgets to mark the entry it replaces.
ScheduleUnmarked(t, p) ==
    LET entry == [neg_priority |-> -p, insertion_order |-> counter, task_id |-> t]
    IN  /\ counter < MaxCounter
        /\ counter' = counter + 1
        /\ entries' = [entries EXCEPT ![t] = entry]
        /\ heap' = heap \cup {entry}
        /\ UNCHANGED <<removed, dequeued>>

\* schedule
Schedule(t, p) ==
    LET entry == [neg_priority |-> -p, insertion_order |-> counter, task_id |-> t]
    IN  /\ counter < MaxCounter
        /\ counter' = counter + 1
        /\ removed' = IF Contains(t) THEN removed \cup {entries[t]} ELSE removed
        /\ entries' = [entries EXCEPT ![t] = entry]
        /\ heap' = heap \cup {entry}
        /\ UNCHANGED dequeued

Live == heap \ removed

IsTop(e) == e \in Live /\ \A f \in Live : f = e \/ Below(e, f)

\* What the loops of next and peek leave when they drop the marked entries
\* above e.
From(e) == {f \in heap : f = e \/ Below(e, f)}

\* next
Dequeue ==
    \/ /\ Live = {}
       /\ heap' = {} /\ removed' = {}
       /\ dequeued' = NoTask
       /\ UNCHANGED <<entries, counter>>
    \/ \E e \in Live :
          /\ IsTop(e)
          /\ heap' = From(e) \ {e}
          /\ removed' = removed \cap From(e)
          /\ entries' = [entries EXCEPT ![e.task_id] = NoEntry]
          /\ dequeued' = e.task_id
          /\ UNCHANGED counter

\* peek
Peek ==
    /\ \/ Live = {} /\ heap' = {} /\ dequeued' = NoTask
       \/ \E e \in Live :
             IsTop(e) /\ heap' = From(e) /\ dequeued' = e.task_id
    /\ removed' = removed \cap heap'
    /\ UNCHANGED <<entries, counter>>

\* remove
RemoveTask(t) ==
    /\ Contains(t)
    /\ removed' = removed \cup {entries[t]}
    /\ entries' = [entries EXCEPT ![t] = NoEntry]
    /\ UNCHANGED <<heap, counter, dequeued>>

\* clear
Clear ==
    /\ heap' = {} /\ removed' = {} /\ counter' = 0
    /\ entries' = [t \in Tasks |-> NoEntry]
    /\ UNCHANGED dequeued

SchedulerNext ==
    \/ \E t \in Tasks : RemoveTask(t) \/ \E p \in Priorities : Schedule(t, p)
    \/ Dequeue \/ Peek \/ Clear

SchedulerSpec == SchedulerInit /\ [][SchedulerNext]_schedulerVars

-----------------------------------------------------------------------------

\* Every queued task has exactly one unmarked entry in the heap, the one
\* _entries leads to, so next never finds an entry whose task it cannot delete,
\* and entries are told apart by their number.
SchedulerTypeOK ==
    /\ heap \subseteq PriorityEntry
    /\ removed \subseteq heap
    /\ \A e, f \in heap : e.insertion_order = f.insertion_order => e = f
    /\ counter \in 0 .. MaxCounter
    /\ \A e \in heap : e.insertion_order < counter
    /\ entries \in [Tasks -> PriorityEntry \cup {NoEntry}]
    /\ \A t \in Tasks : Contains(t) => entries[t].task_id = t /\ entries[t] \in Live
    /\ \A e \in Live : entries[e.task_id] = e

\* A live entry, as somebody who waits.
Waiting(e) ==
    [task |-> e.task_id, priority |-> - e.neg_priority,
     since |-> e.insertion_order]

Queue == INSTANCE TaskQueue
    WITH waiting <- {Waiting(e) : e \in Live}, next <- dequeued

\* The late removal is invisible: the scheduler is a stable priority queue.
ImplementsQueue == Queue!Spec
=============================================================================
