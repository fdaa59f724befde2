--------------------------- MODULE TaskLifecycle ----------------------------
(***************************************************************************)
(* What the orchestrator promises of one task: the state machine of        *)
(* orchestrator/state_machine.py under the loop guard of                   *)
(* orchestrator/guards.py, a transition being one atomic step.  EventStore *)
(* is the detailed design, and implements this when calls do not overlap.  *)
(*                                                                         *)
(* entries[s] is how many recorded transitions entered s.  The initial     *)
(* SUBMITTED is not recorded, so it does not count as an entry.            *)
(***************************************************************************)
EXTENDS TaskStates, Naturals

CONSTANT MaxStateEntries    \* MAX_STATE_ENTRIES of guards.py, 3 in the code

ASSUME MaxStateEntriesAssumption == MaxStateEntries \in Nat \ {0}

VARIABLES
    state,      \* the current state of the task
    entries     \* how often each state was entered

vars == <<state, entries>>

Init ==
    /\ state = "SUBMITTED"
    /\ entries = [s \in TaskState |-> 0]

\* A guard set without check_loop: the loops are unbounded.
AllowedWithoutLoopGuard(target) == <<state, target>> \in VALID_TRANSITIONS

\* Guards.check_transition_valid and Guards.check_loop.
Allowed(target) ==
    /\ <<state, target>> \in VALID_TRANSITIONS
    /\ entries[target] < MaxStateEntries

\* A loop guard that counts first attempts only: parsing may be retried for ever.
TransitionNotCountingRetries(target) ==
    /\ Allowed(target)
    /\ state' = target
    /\ entries' = IF target \in {"PARSING", "PARSE_FAILED"}
                     THEN entries ELSE [entries EXCEPT ![target] = @ + 1]

Transition(target) ==
    /\ Allowed(target)
    /\ state' = target
    /\ entries' = [entries EXCEPT ![target] = @ + 1]

Next == \E target \in TaskState : Transition(target)

Spec == Init /\ [][Next]_vars

(***************************************************************************)
(* The caller keeps driving a task that may still move.                    *)
(***************************************************************************)
FairSpec == Spec /\ WF_vars(Next)

-----------------------------------------------------------------------------
TypeOK ==
    /\ state \in TaskState
    /\ entries \in [TaskState -> 0 .. MaxStateEntries]

\* The loop guard counts entries per state, yet a failed attempt may end in
\* three different states, and DEV_FAILED is reached from two.  Still all
\* failed attempts together are at most MaxStateEntries (INV-03: bounded
\* self-correction), because each one used up an entry of IN_DEVELOPMENT.
FailedAttemptsBounded ==
    entries["DEV_FAILED"] + entries["VALIDATION_FAILED"] + entries["REJECTED"]
        <= MaxStateEntries

\* INV-01 at the level of the state machine: however a task loops through
\* rework, it is never deployed more often than it was approved, nor decided
\* more often than it was put under review, nor put under review more often
\* than it passed validation.
DeploymentsAreReviewed ==
    /\ entries["DEPLOYING"] <= entries["APPROVED"]
    /\ entries["APPROVED"] + entries["REJECTED"] <= entries["IN_REVIEW"]
    /\ entries["IN_REVIEW"] <= entries["VALIDATION_PASSED"]
    /\ entries["VALIDATION_PASSED"] <= entries["IN_DEVELOPMENT"]

\* The loop guard and the whitelist together never trap a task: whatever
\* loops it went through, a task that is not finished has a transition left
\* that both guards let through, though eight states cannot be cancelled.
NeverWedged ==
    state \notin TERMINAL_STATES => \E target \in TaskState : Allowed(target)

\* A task that is driven ends: the map has cycles (PARSE_FAILED, DEV_FAILED,
\* VALIDATION_FAILED, REJECTED), and only the loop guard breaks them.
EventuallyFinished == <>(state \in TERMINAL_STATES)
=============================================================================
