------------------------------ MODULE TaskQueue ------------------------------
(***************************************************************************)
(* What a task scheduler promises: a queue in which every task waits at    *)
(* most once, and from which the most urgent task is taken, of equally     *)
(* urgent ones the one that was scheduled first.  Rescheduling a task      *)
(* sends it to the end of its new priority.                                *)
(***************************************************************************)
EXTENDS Integers

CONSTANTS Tasks, Priorities

NoTask == "NO_TASK"

VARIABLES
    waiting,        \* the tasks in the queue: [task, priority, since]
    next            \* the answer to the last question

TypeOK ==
    /\ waiting \subseteq [task : Tasks, priority : Priorities, since : Nat]
    /\ \A v, w \in waiting : v.task = w.task => v = w

\* v is to be taken before w.
Precedes(v, w) ==
    \/ v.priority > w.priority
    \/ v.priority = w.priority /\ v.since < w.since

Init == waiting = {} /\ next = NoTask

Schedule(t, p) ==
    /\ \E w \in waiting' :
          /\ w.task = t /\ w.priority = p
          /\ \A v \in waiting : v.since < w.since
          /\ waiting' = {v \in waiting : v.task # t} \cup {w}
    /\ UNCHANGED next

\* The first task, NoTask when nobody waits.
IsFirst(t) ==
    \/ waiting = {} /\ t = NoTask
    \/ \E w \in waiting :
          w.task = t /\ \A v \in waiting : v = w \/ Precedes(w, v)

Peek == IsFirst(next') /\ UNCHANGED waiting

Take == IsFirst(next') /\ waiting' = {v \in waiting : v.task # next'}

Remove(t) == waiting' = {v \in waiting : v.task # t} /\ UNCHANGED next

Clear == waiting' = {} /\ UNCHANGED next

Next ==
    \/ \E t \in Tasks : Remove(t) \/ \E p \in Priorities : Schedule(t, p)
    \/ Peek \/ Take \/ Clear

Spec == Init /\ [][Next]_<<waiting, next>>
=============================================================================
