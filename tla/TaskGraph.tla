----------------------------- MODULE TaskGraph ------------------------------
(***************************************************************************)
(* run_task_graph of orchestrator/graph.py, which POST /tasks/{id}/execute *)
(* calls: one LangGraph node per task state, entered at SUBMITTED, each    *)
(* doing the work of its state and then recording a transition.            *)
(*                                                                         *)
(* Two details decide how far a run comes.                                 *)
(*  - The router knows no outcome but failures and approvals; otherwise it *)
(*    takes the first target of a frozenset of strings, whose order is     *)
(*    drawn anew by every process: order[s], Undrawn until it matters.     *)
(*  - A node records its transition from the previous_state of the state   *)
(*    it was given, which is the one before the state it comes from.       *)
(*                                                                         *)
(* Not modelled: the routing by errors and approvals, and the work of the  *)
(* nodes, which is GraphExecutor's; no run comes to either.  The loop      *)
(* guard of transitions by hand is left out, which allows more of them.    *)
(***************************************************************************)
EXTENDS TaskStates, Naturals, Sequences

CONSTANTS
    MayFail,        \* the database may fail while a transition is recorded
    MayMove         \* users may move the task by hand

ASSUME TaskGraphAssumption == {MayFail, MayMove} \subseteq BOOLEAN

Nothing == "NONE"
Undrawn == "UNDRAWN"

VARIABLES
    current_state,  \* the task's state in the event store, what replay gives
    order,          \* order[s]: the first target of s in this process
    run,            \* idle, running, ended, or raised
    node,           \* the node the run is in, START before the first
    current,        \* GraphState current_state
    previous,       \* GraphState previous_state
    began,          \* history: what the run replayed when it began
    entered,        \* history: the nodes whose work the run has begun
    recorded        \* history: the transitions the run recorded

graphState == <<node, current, previous>>
runVars == <<current_state, order, run, graphState, began, entered, recorded>>

Targets(s) == {t \in TaskState : <<s, t>> \in VALID_TRANSITIONS}

RunInit ==
    /\ current_state = "SUBMITTED"
    /\ order = [s \in TaskState |-> Undrawn]
    /\ run = "idle"
    /\ node = "START" /\ current = "SUBMITTED" /\ previous = Nothing
    /\ began = "SUBMITTED"
    /\ entered = {}
    /\ recorded = <<>>

\* run_task_graph: the initial state has the replayed state in current_state
\* and nothing in previous_state; the memory of earlier runs is overwritten.
Start ==
    /\ run # "running"
    /\ run' = "running"
    /\ node' = "START" /\ current' = current_state /\ previous' = Nothing
    /\ began' = current_state
    /\ entered' = {}
    /\ recorded' = <<>>
    /\ UNCHANGED <<current_state, order>>

\* The edge out of the node: START leads to SUBMITTED whatever the task's
\* state is, and a router to the first of its targets.
Leads(s) ==
    IF node = "START"
      THEN s = "SUBMITTED" /\ UNCHANGED order
      ELSE /\ s \in Targets(node)
           /\ order[node] \in {Undrawn, s}
           /\ order' = [order EXCEPT ![node] = s]

\* What would be meant: the state the run comes from.
FromCurrentState == IF node = "START" THEN Nothing ELSE current

\* graph_state.get("previous_state") of the state the node was given.
FromState == previous

\* A store that takes what the caller says for a transition.
Unvalidated(s) == FromState # Nothing

\* validate_transition, in record_transition.
Validated(s) == <<FromState, s>> \in VALID_TRANSITIONS

\* A refused transition is logged like a failed one, and the graph goes on.
EnterSwallowing(s) ==
    /\ run = "running"
    /\ Leads(s)
    /\ entered' = entered \cup {s}
    /\ node' = s /\ current' = s /\ previous' = current
    /\ UNCHANGED <<run, current_state, began, recorded>>

\* A node whose transition is refused by the whitelist does not go on, but
\* InvalidTransitionError is no AADAPError: it passes through
\* _persist_transition and run_task_graph up to the route.
Enter(s) ==
    /\ run = "running"
    /\ Leads(s)
    /\ entered' = entered \cup {s}
    /\ IF FromState = Nothing \/ Validated(s)
         THEN /\ node' = s /\ current' = s /\ previous' = current
              /\ UNCHANGED run
         ELSE /\ run' = "raised"
              /\ UNCHANGED graphState
    /\ IF FromState # Nothing /\ Validated(s)
         THEN /\ current_state' = s
              /\ recorded' = Append(recorded, <<FromState, s>>)
         ELSE UNCHANGED <<current_state, recorded>>
    /\ UNCHANGED began

\* The write fails; a database error is no AADAPError either.
EnterFails(s) ==
    /\ MayFail
    /\ run = "running"
    /\ Leads(s)
    /\ FromState # Nothing
    /\ entered' = entered \cup {s}
    /\ run' = "raised"
    /\ UNCHANGED <<current_state, graphState, began, recorded>>

\* A terminal node leads to END.
End ==
    /\ run = "running"
    /\ node \in TERMINAL_STATES
    /\ run' = "ended"
    /\ UNCHANGED <<current_state, order, graphState, began, entered, recorded>>

\* The process is restarted, and hashes strings differently.
Restart ==
    /\ order' = [s \in TaskState |-> Undrawn]
    /\ run' = IF run = "running" THEN "raised" ELSE run
    /\ UNCHANGED <<current_state, graphState, began, entered, recorded>>

\* POST /tasks/{id}/transition, or another worker.
MoveByHand(t) ==
    /\ MayMove
    /\ <<current_state, t>> \in VALID_TRANSITIONS
    /\ current_state' = t
    /\ UNCHANGED <<order, run, graphState, began, entered, recorded>>

Advance == (\E s \in TaskState : Enter(s)) \/ End

RunNext ==
    \/ Start
    \/ Advance
    \/ \E s \in TaskState : EnterFails(s)
    \/ MayFail /\ Restart
    \/ \E t \in TaskState : MoveByHand(t)

RunSpec == RunInit /\ [][RunNext]_runVars

\* The event loop runs what is ready to run.
FairRunSpec == RunSpec /\ WF_runVars(Advance)

-----------------------------------------------------------------------------
RunTypeOK ==
    /\ current_state \in TaskState
    /\ order \in [TaskState -> TaskState \cup {Undrawn}]
    /\ run \in {"idle", "running", "ended", "raised"}
    /\ node \in TaskState \cup {"START"}
    /\ current \in TaskState
    /\ previous \in TaskState \cup {Nothing}
    /\ began \in TaskState
    /\ entered \subseteq TaskState
    /\ recorded \in Seq(VALID_TRANSITIONS)

\* The nodes that ask an agent, the safety analysis, the approval engine or
\* the platform to do something.
EffectfulNodes ==
    {"AGENT_ASSIGNMENT", "IN_DEVELOPMENT", "IN_VALIDATION", "IN_OPTIMIZATION",
     "APPROVAL_PENDING", "DEPLOYING"}

\* What POST /tasks/{id}/execute documents: the full pipeline, from routing to
\* the execution on the platform.  So a run that is over, of a task that was new
\* and that nobody else has touched, has begun some of its work.
RunsThePipeline ==
    run \in {"ended", "raised"} /\ began = "SUBMITTED" =>
        entered \cap EffectfulNodes # {}

\* What a run records is a path: it starts where the run replayed the task to
\* be, and each transition continues the one before it.  INV-02 holds of the
\* run in this sense even though it records the wrong from_state.
RecordsAPath ==
    \A i \in DOMAIN recorded :
        recorded[i][1] = IF i = 1 THEN began ELSE recorded[i - 1][2]

\* A run stops by itself, at an end of the graph or by raising, although the
\* edges it follows have the cycles of rework and the order of the targets may
\* send it round one of them for ever: it does not hang in the request.
RunStops == (run = "running") ~> (run # "running")
=============================================================================
