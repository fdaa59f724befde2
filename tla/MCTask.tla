------------------------------- MODULE MCTask -------------------------------
(***************************************************************************)
(* The states of a task: the abstract lifecycle, the event store with one  *)
(* caller at a time, and the runs of the task graph.  They share no        *)
(* variable, so a behaviour exercises one of them.                         *)
(*                                                                         *)
(* The lifecycle has the code's own MAX_STATE_ENTRIES, which alone bounds  *)
(* it; the event store, whose steps are smaller, a lower one.              *)
(***************************************************************************)
EXTENDS TaskLifecycle, TaskGraph

CONSTANTS
    Clients,
    SerialStateEntries,
    MaxHistory

VARIABLES
    subject,            \* the component that is exercised
    task,               \* the variables of the event store, its current_state
    transitions, audit, pc, from, target, seen, seq     \* being task

serialVars == <<task, transitions, audit, pc, from, target, seen, seq>>

Serial ==
    INSTANCE EventStore WITH
        current_state <- task,
        MaxStateEntries <- SerialStateEntries,
        SpelledOut <- {}

MCInit ==
    /\ Init /\ RunInit /\ Serial!Init
    /\ subject \in {"lifecycle", "serial", "graph"}

LifecycleStep ==
    /\ subject = "lifecycle" /\ Next
    /\ UNCHANGED <<subject, runVars, serialVars>>

SerialStep ==
    /\ subject = "serial" /\ Serial!Next
    /\ UNCHANGED <<subject, vars, runVars>>

RunStep(A) ==
    /\ subject = "graph" /\ A
    /\ UNCHANGED <<subject, vars, serialVars>>

MCNext == LifecycleStep \/ SerialStep \/ RunStep(RunNext)

allVars == <<subject, vars, runVars, serialVars>>

\* The fairness of FairSpec and of FairRunSpec.
MCSpec ==
    /\ MCInit /\ [][MCNext]_allVars
    /\ WF_allVars(LifecycleStep)
    /\ WF_allVars(RunStep(Advance))

-----------------------------------------------------------------------------
\* The history of the event store is a path while calls do not overlap.
Chained == Serial!Chained

\* It then implements the atomic state machine with its loop guard.
ImplementsLifecycle == Serial!ImplementsLifecycle

\* A task that is driven ends: only the loop guard breaks the cycles of the map.
DrivenTaskEnds == subject = "lifecycle" => EventuallyFinished
=============================================================================
