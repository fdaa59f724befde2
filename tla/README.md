# AADAP orchestration: TLA+ models, checks and proofs

This directory holds TLA+ specifications of the orchestration core of AADAP (the Python package
`aadap`), the TLC configurations that check them on small instances and TLAPS proofs of their main
theorems. Paths below are relative to the repository (`src/` here). `PROJECT.json` maps every
definition to the lines it models, lists the runs, the mutants that show that each property can
fail, the hazards and the findings.

How to run, from this directory:

    tlc -workers 2 -config ExecutionService.cfg MCExecutionService.tla
    tlapm ApprovalEngineProofs.tla

## 1. Inventory

AADAP takes data engineering tasks, has agents generate code for them, validates and optimizes the
code, asks for approval where policy demands it, and deploys the code on Databricks or Fabric.
Everything about a task is in PostgreSQL; requests, background calls and other processes meet there
and in a few in-process caches.

| Component | Source | State | Operations | What is hard | Correct when | Module |
|---|---|---|---|---|---|---|
| State machine, guards | `orchestrator/state_machine.py`, `guards.py` | none (25 states, whitelist, limits) | validate, check_loop | cycles of rework under a limit per state | rework bounded, no trap, deployments reviewed | TaskLifecycle |
| Event store | `orchestrator/events.py`, `db/models.py`, `db/session.py` | `state_transitions`, `tasks.current_state`, `audit_events` | record_transition, replay, get_history | number read before insert, stale from_state, crashes | log, state and audit agree, rows justified | EventStore |
| Transition API | `orchestrator/graph.py: transition`, `api/routes/tasks.py` | none | replay, guard, record: three transactions | overlapping calls | bounded overshoot | EventStore |
| Approval engine, routes | `safety/approval_engine.py`, `api/routes/approvals.py` | `approval_requests`, a memory cache per process | request, approve, reject, check_expired, get_record | cache against row, cold lookups, several transactions per decision | a human decides, once; task follows record | ApprovalEngine |
| Execution service | `services/execution.py` | locals of each call; artifacts, executions, `task.metadata` | execute_task, resume, deploy, direct operation | overlaps, crashes, edits, failures of every step, decisions half way | nothing deployed that was never approved; undisturbed: as approved, once | ExecutionService |
| Task graph | `orchestrator/graph.py: run_task_graph`, `api/routes/execution.py` | GraphState of a run | nodes, router, persist | order of a frozenset, wrong from_state, exceptions that pass | a run does the work of its states, records a path and stops | TaskGraph |
| Graph executor, agent routing | `orchestrator/graph_executor.py`, `routing.py` | results a task carries from stage to stage | route, develop, validate, optimize, request, execute | verdicts nobody reads, code that changes after its validation | what is submitted is what approval was requested for | GraphExecutor |
| Platform clients | `integrations/*_client.py` | a cache of jobs; jobs and notebooks on the platform | submit, status, output, poll | lost answers, cold caches, a shared notebook, definitions applied late | what is reported of a job is true and final, and a job runs its own code | PlatformJobs |
| Safety analysis, approval routing | `safety/static_analysis.py`, `pattern_matcher.py`, `semantic_analysis.py`, `routing.py` | none | evaluate, route | three gates and two policies that must agree | no finding is outvoted | SafetyPipeline |
| Dispatcher, pool, agent base | `orchestrator/dispatcher.py`, `agents/pool_manager.py`, `base.py`, `factory.py` | agents with a state each | acquire, accept, execute, cancel, release, unregister | acquire without reservation, release of a busy agent | one call per agent, agents come back unless left before they execute | AgentRuntime |
| Agents, token tracker | `agents/*_agent.py`, `token_tracker.py` | tokens used, attempts, actions on the platform | generate with correction, execute on the platform, poll | budget passed in the middle of an attempt, operations that half succeed | INV-03, INV-04, created resources are named, calls end | AgentPrograms |
| Scheduler | `orchestrator/scheduler.py` | heap, entries, counter | schedule, next, peek, remove, clear | lazy deletion | a stable priority queue | TaskScheduler |
| Checkpoints, memory store | `orchestrator/checkpoints.py`, `core/memory_store.py`, `memory/working_memory.py` | namespaces with expiry | save, load, delete, list | expiry, re-warming from the history, prefixes of keys | checkpoints are current, an agent's memory is its own | MemoryStore |
| Long-term memory | `memory/vector_store.py`, `archival.py`, `retrieval_validator.py`, `knowledge_graph.py` | a collection, a cache of objects, nodes and edges | store, search, promote, deprecate, archive, validate | objects shared with callers, failures between cache and collection | what was withdrawn is in no answer, unless it could not be read then | LongTermMemory, KnowledgeGraph |
| Chat service | `services/chat_service.py`, `models/chat.py`, `api/routes/chat.py` | sessions | stream, edit, create task | requests that wait on the model while others edit | one task per conversation, of complete requirements unless an edit failed half way | ChatService |
| Artifact versions | `api/routes/artifacts.py` | `artifacts` with parent and version | create version, list, get by number | maximum plus one without a lock | versions of a lineage can be told apart | ArtifactVersions |
| Adapters, LLM client, prompts | `agents/adapters`, `integrations/llm_client.py`, `agents/prompts` | none that matters | operations, completion, schema validation | failures after an effect | as above | AgentPrograms (outcomes) |
| Everything else | see section 6 | | | | | none |

How they interact. `POST /tasks` with `auto_execute` starts `ExecutionService.execute_task` as a
background call of the event loop; it is the only caller. The call records its transitions through
the event store, asks the approval engine for a record and ends while that is pending. The approval
routes decide the record and then move the task through `transition()`, in two more steps. Nothing
resumes the task then: another `execute_task` must be called. `POST /tasks/{id}/execute` takes the
other way, the task graph, over the same event store. `POST /tasks/{id}/transition` moves a task by
hand. Editing an artifact changes which code is the newest. All of these may overlap for one task;
the database's transactions and one unique index are the only synchronisation.

The platform clients are used by the execution service, by the graph executor and by the adapters of
the agents, through client objects that each have a cache of their own. The dispatcher and the
execution service create and drive agents; both take them from the same kinds of pool. The stores of
the last rows are used by whoever wants them and call nothing of each other.

## 2. Modules

    TaskStates            states and whitelist
     |- TaskLifecycle     the abstract machine: one task, atomic transitions
     |- EventStore        the concurrent store; implements TaskLifecycle when calls
     |                    do not overlap
     |- TaskGraph         runs of the LangGraph path
     |- ExecutionService  pipeline, approvals, artifacts and deployments of a task;
     |                    implements DeploymentGate
    DeploymentGate        the abstract gate: requests, decisions, jobs
    ApprovalEngine        one approval request, its caches, row and task
    AgentRuntime          pool, agents, trackers and calls
     |- AgentPrograms     what each kind of agent does within a call
    PlatformJobs          the platform clients, jobs and notebooks
    SafetyPipeline        the gates and who has to approve
     |- GraphExecutor     the work of the graph's nodes, over the clients (EXTENDS both)
    TaskQueue             the abstract stable priority queue
     |- TaskScheduler     the heap with lazy deletion; implements TaskQueue
    MemoryStore, LongTermMemory, KnowledgeGraph, ChatService, ArtifactVersions

`MC*.tla` instantiate them (MCTask composes TaskLifecycle, TaskGraph and a serial EventStore,
MCStores the scheduler and the stores; each behaviour exercises one of them). `*Proofs.tla` hold the
theorems (StoresProofs those about the scheduler and the stores, GraphExecutorProofs also those
about the clients and the gates). In modules and configurations, history variables (which the code
does not have) are marked as such.

**TaskStates** is `VALID_TRANSITIONS` as a relation, split into the moves forward and the 15 states
with CANCELLED among their targets.

**TaskLifecycle** is what the orchestrator promises of one task: `state`, and how often each state
was entered. `Allowed` is `Guards.check_transition_valid` and `check_loop`.

**EventStore**. A call of `transition()` is `Replay`, `Guard` or `Refuse`, `Number`, and `Commit` or
`Conflict`: the code reads the history twice in transactions of their own, and `record_transition`
reads the largest number before it inserts. `CallDirectly` is `ExecutionService._transition`, which
has its from_state spelled out and no loop guard. `Fail` drops a call anywhere. `seen` in a row
remembers how much history its caller had read; it is there for `RowsAreJustified` only.

**ApprovalEngine**. A decision is `Call`, the lookup (`CacheHit`, or `Select`, `Fill`, `Loaded`,
with an await between them), the check and write to the cache in one step (no await separates them
in the code), `UpdateRow`, and then, in the route, `Sync` (a second UPDATE, whose transaction stays
open), `Review` and `Conclude` (two transitions, each committed by itself) and `CommitSync`.
`UpdateFails`, `FollowUpFails` and `Restart` are the failures. `ServiceAdvances` is what
`execute_task` records around the request (`ServiceEdges`): the call that asked for it, and a call
that resumes, once it has read how the row was decided (`Resume`). The latter spells out states that
the task may have left, so it can put a task back. `POST /tasks/{id}/transition` by hand is outside
this module (it is in ExecutionService), as are resumed calls that fail. A call of `check_expired`
on a young record is the same step as a refused one.

**ExecutionService**. Worker `w` is in the state `at[w]`, which it believes the task to be in, and
does `next[w]`: a transition, or the work of that state. All `_transition` calls of the source are
`Record` and `RecordRefused`; each piece of work is an action (`Develop`, `Store`, `Validate`,
`Optimize`, `RequestApproval`, `LinkApproval`, `Gate`, `GateResumed`, `LoadLatest`, `Submit`,
`Await`). `Handle` and `HandleDirect` are the except clauses. `Edit` and `TransitionByHand` are
users. A user's decision is several steps: `Decide` updates the row by its id, whatever its status
is by then (the check before it looks at a cached record, which may be as old as the request);
`RouteReviews` and `RouteConcludes` read the task's state for the two transitions of the route,
`RouteRecordsReview` and `RouteRecordsVerdict` record them from the state that was read, and
`RouteCommits` ends the request, which has had the row locked since its second update (`Locked`).
`RouteFails` is an exception in any of it. Calls go on between these steps. `overturned` counts
decisions of what was decided already, `lost` the states that a route's transition wrote over, and
`granted` remembers what was ever approved. (An expiry needs `check_expired`, which nothing in the
product calls.) A code is known by the call and the stage that made it; whether it needs a human
(`sensitive`) is chosen when it is generated.

**DeploymentGate** is what the execution service promises of deployments, whoever calls it and
whatever fails: requests for some code (`wanted`), some granted by policy and the others put to a
human (`asked`), whose decision (`standing`) may be changed, unlike that of the policy; and `jobs`,
each under a request that was granted at some time (`granted`). Until something interferes (`calm`),
a job runs the code of its request, and nothing runs under that request again. The mapping:
`standing` is `approval`, `asked` are the sensitive requests that were made, `granted` is itself,
`jobs` is `deployments`, `calm` is `Quiet` (no overlap, edit, move by hand, or state written over by
a route), and `wanted[r]` is `Wanted(r)`, the last artifact that call `r` stored. What ends `Quiet`
is `Disturb`.

**TaskGraph**. `Enter(s)` is a whole node: the edge the router takes, the node's state update and
the transition it persists. `order[s]` is the first target of `s`, drawn when it first matters and
kept until the process restarts, which is what the iteration order of a frozenset of strings is
under hash randomisation. `FromState` is the `previous_state` of the state the node was given. Its
specification is `RunSpec`, with fairness `FairRunSpec`.

**AgentRuntime, AgentPrograms**. The program is one event loop, so a step is what happens between
two suspensions: `Dispatch` finds or creates, accepts and begins to execute in one step, a user *by
hand* (`ByHand`) in three, who may be cancelled before the last (`CancelByHand`) and then leaves the
agent as it is (`left`). What `dispatch_and_execute` catches, a full pool and an agent that refuses
among it, ends the call as failed. A call keeps its attempt and its total; state and tracker are the
agent's, so `ReleaseAgent` and `Unregister` take them from the call that runs on it (the call is then
*disturbed*, a history variable). A response of the model has a number of tokens and is valid or
not; `HearsResponse` accounts for it, corrects, escalates or goes on to the plan of operations that the
agent's type makes of it. An operation on the platform takes effect or not and returns or raises, in
any combination that is possible. `spent` and `created` are what really happened.

**SafetyPipeline** has no state: a piece of code is the number of findings of each severity that the
two searching gates make in it, and the gates are functions of that.

**PlatformJobs**. A call `c` submits one job and may ask for it as often as it likes. Every HTTP
request is a step; `SubmissionFails` is a request that failed before or after it took effect.
`job[c]` is the platform's truth, `known` what the client has in its cache, and a question may also
be put to a client without that entry (another process, or the same after a restart). `AskForOutput`
and `ReadResults` are the two reads of one `get_job_output`, with anything in between
(`ReadCommand`, `ReadStatement`: whatever results there are become the output, whatever the status).
`Settled` is a mock client's `default_status`, any status. Platform steps (`JobProceeds`,
`DefinitionApplied`) are external.

**GraphExecutor** is the work of a task in the nodes of `graph.py` and the methods they call, over
the clients. A run is a walk from node to node by the graph's routers (`NextNodes`, `Leaves`), which
heed an error and nothing else: the verdict of the validation has no effect, and a walk goes from
APPROVAL_PENDING to DEPLOYING without waiting for anybody. `NodeRaises` is the exception a node does
not catch, `SkipDeployment` a DEPLOYING node without code. Agents and the approval engine are
outcomes here. `ClassifyOperationType` is the code's, which has no class for changes of schemas or
permissions. The language of the metadata matters only as SQL or not; without one it is Python.
`TaskGraph` shows that today's graph raises before it gets to these nodes; GraphExecutor is about
what they would do.

**TaskQueue, TaskScheduler**. The first is a set of waiting tasks and a line of tickets; the second
the heap of marked and unmarked entries. No method awaits, so each is one step.

**MemoryStore**. Keys are sequences of segments, because the prefixes that list and delete match
segments. A checkpoint is the number of the transition it shows. `LoadCheckpoint` is split at its only wait,
the look at the history.

**LongTermMemory, KnowledgeGraph**. Callers hold the objects the store caches; `Deprecate` and
`Promote` change the object, then store it, and the collection may fail. A `get` that fails returns
None, which is what it returns for an id it does not have (`Unknown`): `deprecate` then raises a
KeyError, and archival takes that for an entity that is gone and counts it as archived
(`ArchivesUnknown`; `missed` remembers these). A search and the validation of what it found are two
calls, which days may separate.

**ChatService** has requests that wait (streams, creations) and edits between them. An edit stores
its values as they come; one whose confidence is not a number makes the comparison that follows
raise, with the fields changed and `is_complete` as it was (`UpdateRequirements`; `broken` remembers
it).

**ArtifactVersions** has editors whose walk of a lineage is one query per step.

## 3. Runs

| Run | Checks | Bounds |
|---|---|---|
| `task` | the lifecycle: `FailedAttemptsBounded`, `DeploymentsAreReviewed`, `NeverWedged`, liveness `DrivenTaskEnds`; the event store when calls do not overlap: `Chained`, refinement `ImplementsLifecycle`; the task graph: `RecordsAPath`, liveness `RunStops` | the code's own `MAX_STATE_ENTRIES` = 3 for the lifecycle, nothing else; 1 caller, 2 entries per state, 16 rows for the store; none for the graph |
| `event_store` | `LogConsistent`, `RowsAreJustified`, `OvershootBounded` | 2 callers, 1 entry per state, 4 rows, one spelled-out transition |
| `terminal` | `TerminalIsFinal` is violated | 2 callers, 4 rows |
| `approval` | `HumanDecides`, `DecidedOnceByOneProcess`, `TaskFollowsRecord` | 1 process, 3 calls, 1 restart, 4 kinds of operation |
| `approval_cold_cache` | `DecidedOnce` is violated | 2 calls, 1 restart |
| `execution` | `GatedDeployment`, `DeploysWhatWasApproved`, `DeployedOncePerApproval`, `OnlyOptimizedIsUnanalysed`, `SettledWhenIdle`, refinement `ImplementsGate` | 2 workers, 1 decider, 3 calls, 1 mishap, tasks of capability agents and direct ones, `FreshOverlapsLate`, `ThirdResumes` |
| `execution_before_approval` | `NoExecutionBeforeApproval` is violated | 1 call, no mishap |
| `execution_unvalidated` | `ValidatedBeforeDeployment` is violated | 1 call, no mishap |
| `endpoint` | `RunsThePipeline` is violated | one run, no failure, nobody else |
| `agents` | `OneCallPerAgent`, `NeverStranded`, `WithinBudget`, `Accounted`, `NamesWhatItCreated`, termination measure `CallsProgress` | 2 calls, a pool of 1, budget 2, 2 attempts, 1 poll, 1 statement |
| `jobs` | `AnswersAreTrue`, `NeverTakenBack`, `RunsItsOwnCode`, `SubmitsWhatWasRequested` | 1 run, 1 other caller, 1 notebook, 2 polls, 3 kinds of code |
| `stores` | refinement `ImplementsQueue`; `CheckpointsAreCurrent`, `WorkingMemoryIsOwn`, `WithdrawnStaysOut`, `TasksAreEarned`, `VersionsTellApart` | 3 tasks, 2 priorities, 4 schedulings; 2 ticks, 2 transitions; 2 entities, 2 objects, 1 day (and staleness after 0); 2 nodes; 1 session, 2 requests; 4 artifacts, 2 editors |

Why the bounds are enough. In `event_store` four rows are what it takes to enter a state once more
than two callers can (cancel, be taken out of CANCELLED by a caller that spells out its from_state,
and be cancelled twice again); gaps and repetitions of numbers show with two. The limit of one entry
makes the loop guard matter within these rows. In `approval` a third call is what sees the result of
two that overlapped, and a restart makes the cache cold. In `execution` three calls are the one that
asks for approval, the one that deploys, and one more; a *mishap* (a failed step, a crash, an edit,
a move by hand, an overlap, a decision overturned, or a state written over by a decision's route)
may come at any point, and one at a time suffices because the hazards listed each need one. The states would be mostly what two calls
that both start afresh do to each other, so two action constraints bound that. `FreshOverlapsLate`:
a fresh call that begins while a fresh one is under way does so when that one has come to its
approval, as the second call, and is then the last. `ThirdResumes`: once something has interfered, a
third call is one that resumes the task. (The theorems of section 5 have no such bound.) A first
decision on an approval is no mishap: its steps come at any time. A developer's task differs from
that of a capability agent in what happens before validation only, so the run has the latter and the
direct operations. Clients, workers and engines are interchangeable, and symmetry is used where only
invariants (or action properties over symmetric state) are checked.

In `agents` a pool of one makes both calls want the same agent and makes the pool full; a budget of
two tokens lets one response fit, exhaust or exceed it; two attempts are one correction. A plan has
up to five operations, so failures come at the first, between, and at the last. In `jobs` one
notebook is what two submissions need to get into each other's way, two polls are one that goes on
and one that is the last, and three kinds of code are what tells the classes of operations and the
languages apart. In `stores` three tasks with two priorities are what ties and rescheduling within
and across priorities need; one loader besides the one that saves makes a stale re-warming; two
entities and objects make an object known under another id; two requests are two creations that
overlap, or one and a stream; four artifacts are a lineage with two editors of one row and a branch.

The properties that name an exception (*unless calls overlap*, *unless somebody resets the agent*,
*unless a definition was applied late*, *unless an edit failed half way*) state the exception as a
history variable that the actions set, so each run also shows that nothing else breaks them.

Where a run does not check deadlock, the system may stop: a finished task has no transition left,
and calls are bounded.

Fairness. `MCSpec` of `task` has the fairness of two specifications. `TaskLifecycle!FairSpec` has
weak fairness of the next step: somebody keeps driving a task that may still move. It is an
assumption on callers, and the property it serves says that the loop guard breaks every cycle; it
promises nothing about when anyone calls. `TaskGraph!FairRunSpec` has weak fairness of `Advance`:
the event loop runs a coroutine that is ready; under it every run stops (`RunStops`), in an end of
the graph, a failure, or an exception that nothing catches. An agent's call needs no fairness:
`CallsProgress` is a measure that each of its steps makes smaller, whatever others do to its agent,
so a call that is not stuck waiting for the model or the platform ends. No other liveness is
claimed. In particular nothing in the process calls `execute_task` after an approval, so "an
approved task is deployed" has no fairness in the code to rest on.

## 4. What the checks show

Properties that hold:

- However a task loops, its failed attempts together are at most 3 (`FailedAttemptsBounded`), it is
  not deployed more often than approved, and no combination of loops traps it, although eight states
  cannot be cancelled.
- The unique index is enough for a log without gaps or repetitions that agrees with `current_state`
  and the audit trail under any interleaving and failure. The mutant without it breaks
  `LogConsistent`.
- The loop guard is not atomic with the write, but overshoots by no more than one per further
  caller, in states no caller enters unguarded.
- Nothing that the autonomy matrix or the safety pipeline wants approved is approved without a
  human, whatever fails or overlaps, with any number of processes.
- Deployment is gated by the approval record and not by the task's state: a task moved into APPROVED
  by hand is not deployed.
- As long as calls do not overlap, nobody edits the code or moves the task by hand, and no
  decision's route writes over a state (*undisturbed*), what the execution service deploys under an
  approval is what it was asked for, and is deployed under it once; what it deploys without an
  analysis is the optimization of code that passed one, and nothing else. Calls and decisions may
  fail and die anywhere meanwhile. Whatever interferes, no later call and no edit changes what an
  approval was asked for, and a job stands under an approval that had been granted
  (`ImplementsGate`), though what is deployed then need not be that, and the approval may have been
  rejected since.
- Every run of the task graph stops, and records a path: see below.
- Through whatever rounds a walk through the graph's nodes goes, it submits what it last requested
  an approval for (`SubmitsWhatWasRequested`). It does not wait for the answer.
- Agents acquired by the dispatcher are never shared, although `acquire_agent` reserves nothing: it
  relies on not being suspended before `accept_task`. An agent taken by hand can be lost only to
  somebody who releases it while it works, and even then it comes back to the pool as IDLE. Only an
  agent whose caller is cancelled between `accept_task` and `execute` stays in ACCEPTING until
  somebody releases it; the dispatcher does not suspend there.
- The budget bounds what a successful call cost, and the response that exceeds it is the last; what
  is reported is what was spent, on every path; failures on a platform name everything they created
  but at most the operation that failed.
- What the platform clients report of a job is the truth about it, with one exception that they make
  themselves: a failed request for a *command* is reported as FAILED, and may be followed by the
  real end.
- The scheduler is a stable priority queue. What was withdrawn from the long-term memory or the
  knowledge graph stays out of every answer, through failures and restarts, with one exception: an
  entity that could not be read when it was archived.

Findings, each with a run whose counterexample shows it:

- `terminal`: of two overlapping `transition()` calls the later one writes from the state it read
  first, so a cancelled task moves again, though `state_machine.py:53` calls terminal states those
  with "no outgoing transitions".
- `approval_cold_cache`: after a restart, two overlapping decisions both load a pending record and
  the second overturns the first (`approval_engine.py:365` promises a ValueError).
- `execution_before_approval`: capability agents execute on the platform while the task is
  IN_DEVELOPMENT, before validation and approval.
- `execution_unvalidated`: the execution service optimizes after it validates and deploys the
  optimized code, which nobody has analysed, though `services/execution.py:21` names "INV-07:
  Validation before deployment".
- `endpoint`: an undisturbed run of the task graph raises at its second or third node, because nodes
  record transitions from a state one too early (`graph.py:235`) and `InvalidTransitionError` is not
  caught; `api/routes/execution.py:71` says the endpoint "triggers the full execution pipeline".

What a reader of the models will notice, and what has no run of its own:

- A decision can be overturned (by another process, or after a restart), and by then a job may run
  under the approval that is now rejected: `GatedDeployment` says *had been granted*.
- A resumed run may go on as soon as the row says APPROVED, before the route has moved the task.
  When it has deployed by the time the route records IN_REVIEW -> APPROVED, the task is APPROVED
  again, and the next call deploys once more under the same approval, the newest code there is then
  (`lost`; `api/routes/approvals.py:282`). The properties about what is deployed exclude this.
- The slip that ends runs of the task graph (finding `endpoint`) is also what keeps the graph from
  walking through IN_REVIEW and APPROVED without a human, to DEPLOYING: its routers heed neither the
  verdict of the validation nor the status of the approval (`graph.py:270`). No run enters a node
  with effects (theorem `RunsDoNothing`); with the plausible correction (the mutant
  `FromCurrentState`) runs would. The graph executor, too, has optimized code deployed that was not
  analysed again.
- Neither the graph executor nor the execution service ever classifies an operation as a change of a
  schema or of permissions, so what `SYSTEM_CONSTITUTION.md:42` and the policy matrix
  (`approval_engine.py:144`) ask for those is never asked for generated code.
- A chat edit with a confidence that is not a number raises after it has changed the fields
  (`chat_service.py:386`) and leaves `is_complete` as it was, so a task can be made of requirements
  with one missing, though `chat_service.py:415` says the creation "validates that requirements are
  complete".
- An exception in `get` of the vector store is None to its callers (`vector_store.py:262`). Archival
  takes that for an entity that is gone and records it as archived, "no longer searchable"
  (`archival.py:56`), while search still finds it.
- `execute_on_platform` of the graph executor always raises in the end: it asks a `JobStatus` for
  its `status`. Its validation is Gate 1 alone, and its approval requests carry no pipeline result.
- The Fabric agent reports success for a job that was cancelled or is still running; the Fabric
  client gives such a job the words of success as its output.
- Overlapping creations make two tasks of one conversation, and a stream that ends late overwrites
  what a user edited meanwhile.
- Two artifacts with the same number make `get_artifact_version` raise for that number.
- Two overlapping resumes of an approved task deploy it twice.
- A resumed call deploys the newest code, whichever it is (`services/execution.py:760`). When a
  later call dies before its analysis, and a user then walks the task by hand from there to
  APPROVAL_PENDING, the next call deploys that unanalysed code under the approval of the earlier
  one. (It takes half a dozen steps by hand: the run with one mishap does not get there, and the
  properties about what is deployed are stated for tasks without steps by hand.)

## 5. Proofs

Unless said otherwise the theorems are of the form `Spec => []P` (or `Spec => [][A]_vars`), from the
named assumptions of the modules on their constants, and follow one argument: an inductive
invariant, proved of the initial states and preserved by each action.

- **TaskLifecycleProofs** (any `MaxStateEntries` > 0). The properties compare counts of different
  states and are not inductive. `Conservation` adds what ties the counts together: the task is one
  token in the network of the whitelist, so what left a part of the network, plus one if the task is
  inside, is at most what entered it. From it follow `TypeOK` (no run repeats it),
  `FailedAttemptsBounded`, `DeploymentsAreReviewed` and `NeverWedged` (each state has an exit whose
  count is below its own, or CANCELLED).
- **EventStoreProofs** (any callers, limits, lengths and spelled-out transitions). The number a call
  has read is at most the length of the history plus one; if it is not taken at the commit, it is
  exactly that. With `MaxIsLength` and `ReplayIsLast` (what the largest number and replay are in a
  consistent log) this gives `TypeOK`, `LogConsistent` and `RowsAreJustified`. `TypeOK` needs the
  others: that replay returns a state at all depends on the log being consistent.
  `BoundedOvershoot`, for a finite set of callers: the entries of a state and the callers that have
  passed its loop guard are together at most the limit minus one plus the callers (`RoomLeft`).
  `SerialHistoryIsChained` and `SerialIsAtomic`, for one caller and no spelled-out `from_state`:
  what the call read is still the whole history when it commits (`ReadAll`), so the rows form a path
  and the store implements `TaskLifecycle` for every limit and length of history.
- **ApprovalEngineProofs** (any processes, calls and restarts). APPROVED enters row or task by
  policy or with a call that has passed the PENDING check and kept its verdict; hence `TypeOK` and
  `HumanDecides`, INV-01. A resumed run only repeats what it read in the row. `OneDecision` and
  `TaskAgrees` need `OnceInv`: in one process a cache that says PENDING is right, since whoever
  decides says so in the cache first; and after a restart no call writes while another still reads.
  So one writer at a time finds the row PENDING, and the task gets the verdict of the call that
  wrote it.
- **ExecutionServiceProofs** (any overlapping calls and decisions, failures, edits, moves by hand).
  `GatedDeployment` alone says nothing about a call on its way. `Fits` says, for each place in its
  course, what a call relies on there: a fresh call that has not asked yet has no approval, one that
  has asked holds its own request, and one past the gate holds an approval that was granted.
  `Numbered` keeps calls from sharing a request, and `Routed` says what a decision on its way relies
  on: a request that a human was asked, and that it has decided as it will say when it commits,
  unless another decision has overturned it. Other calls and the users only add to what was granted
  (`OtherFits`), and as long as nothing is overturned what was granted stays so.
  `UnanalysedIsOptimized`, `WhatWasApproved` and `OncePerApproval`, for calls that nobody disturbs
  (`Quiet`), need what a call finds when it resumes: while the task is under review, its newest code
  has passed the analysis, or is the optimization of code that has (`Analysed`), and nothing has
  been submitted under its approval (`Orderly`). That survives calls and routes that die anywhere,
  because a call leaves the states under review with its last transition before the submission, and
  nobody gets back there without an analysis and a new approval: a route could, with a transition
  that it decided on earlier, and that is what `Quiet` excludes as a state written over. `OnPath`
  says what each call has to show at each place on its way: from the last `Store` on, that the
  newest artifact is its own (`Holds`), and for a resumed call, which only looks for the newest,
  that it is that of the call whose approval it resumes. When it has been submitted, later calls
  append artifacts of their own numbers only (`StaysNewest`). `SettledAfterCalls` needs where the
  calls and the routes are (`SInv`): as long as nothing fails, the next transition of a call that is
  alone is on the whitelist, unless it is a rejection that a route has recorded already (`Tidy`),
  and where it may be refused the handler finds a way out (`Escapable`). `ImplementsTheGate` is
  proved without `Quiet`: a step of a call or of a decision is a step of the gate or a stutter, and
  an interference is `Disturb`. It needs that what a request is for never changes, in any
  interleaving: a call that has not resumed the task holds no code but its own (`OInv`), stores
  nothing after it has asked (`FreshWork`), and an edit belongs to no call (`WantedStays`); and that
  only sensitive requests are decided, as often as anybody likes.
- **TaskGraphProofs** (any hash order, failures and moves). A run is in one of four stages, and the
  third node cannot record (`ComesNotFar`); hence `RunsDoNothing` and `RunsRecordPaths`.
- **AgentProgramsProofs** (any calls, pools, budgets and limits on attempts). `acquire_agent`
  reserves nothing, so that nobody else works with an agent cannot be read off the agent. `IInv`
  says it of both sides: a call that has begun and was not disturbed has an agent in the state that
  fits its place, with the tracker that has counted its responses and no others (`Own`), and an
  agent that is not idle is in the hands of a call that is as far, or was left by its caller before
  it executed (`Manned`). `Fits` is what the locals of a coroutine are at each place in its program,
  `Honest` what it owes in its result. From it `AgentTypes`, `AgentsAreNotShared`, `AgentsComeBack`,
  `BudgetIsKept` (INV-04), `TokensAreAccounted` and `CreationsAreNamed`. A new agent needs a name
  that no other has, which there is because the pool is bounded: the only argument that counts.
  `CallsComeToAnEnd` is the action property, that every step takes a call forward; with fairness it
  is what termination rests on.
- **GraphExecutorProofs** (any number of runs, callers and notebooks, any code). First, about the
  functions of the safety pipeline, for every number of findings: `LastGateDecides`,
  `NoFindingIsOutvoted`, `FindingsNeverHelp` (the last gate divides by the number of lines, so this
  is not obvious) and `RouterAgreesWithEngine`. Then `SubmittedAsRequested` from `Sound`: at
  DEPLOYING a run that has code has requested an approval for that code and for its class, because
  every way there leads through APPROVAL_PENDING and nothing after it changes the code, in any round
  and after any error. `AnswersStayTrue`, `NothingIsTakenBack` and `JobsRunTheirCode` rest on the
  clients. A job that is over stays as it ended (`Goes`), so what was told of it, or was read of it
  by a call that is still reading, stays true (`JInv`). And a notebook belongs to the submission
  whose definition it holds, while no other is on it and nothing waits to be applied (`OwnCode`);
  `Effect` is what each step does to that. What the composition adds is that a run has no job before
  it executes (`RunsAreIdle`).
- **StoresProofs** (any values of the constants). The stores share no variable, and `EachByItself`
  says that in a behaviour of `MCStores` each behaves by its own specification; so each is proved by
  itself.
  - *Scheduler*: every queued task has exactly one unmarked entry in the heap, the one `_entries`
    leads to, and no two entries have the same place (`SchedulerTypeCorrect`). So the heap without
    its marked entries is the line of the abstract queue, and each operation is the one of
    that name (`next` drops the marked entries above the top, a stutter): `ScheduleIsAQueue`.
  - *Checkpoints and working memory*: `LoadsAreCurrent` from `Current`: what is cached for
    a task is a checkpoint of its past, as new as the last save unless a load has written over
    it, and a load that has read the history holds one no older than what was saved when it
    began. `AgentsKeepTheirOwn` from `OwnEntries`; it needs that a key can be taken apart
    (`KeysAreTold`, `PrefixFindsOwn`), which is so because a name is one segment, whatever the
    keys begin with.
  - *Long-term memory and knowledge graph*: `WithdrawnIsNotAnswered` from `Marked`: what
    is withdrawn, but for what was archived while it could not be read (`missed`), is marked in the
    collection and in every object that a later write could copy into it, even when a write has
    failed half way.
  - *Conversations*: `TasksComeFromConversations` from `Single`: while creations have not
    overlapped, one request at most is making the session's task, and the session is found only
    until it has; and is_complete is that of the fields, but for a session whose last edit failed half
    way (`broken`).
  - *Versions*: `VersionsAreTold` from `Walks`: of the rows that there were when a walk began, it
    has every child of a row it has, but for the children of rows that are still on its stack; so
    when the stack is empty it has the whole lineage (`WalkIsComplete`), and only a row inserted
    meanwhile can share the new version. This needs that the walk up a lineage ends and finds
    one root, for a lineage of any length. The equation of `Ancestors` has a solution, and
    what holds of every row, by induction over the rows, stated of a set of numbers
    that has 0, and n + 1 with n (`SetInduction`, from the least number of its complement).

Only model-checked: liveness (`DrivenTaskEnds`, `RunStops`). The prover handles neither fairness nor
ENABLED. Every other property that a passing run checks is stated by a theorem.

## 6. Not modelled

- Text: prompts, generated code, the patterns of the safety analysis and of the intent parser,
  keyword tables, embeddings. Where a decision depends on text, its outcome is chosen freely.
- Explorers, marketplace, logs, notifications and the frontend: queries, formatting and outgoing
  messages, without state that other parts depend on. (`export_logs` asks for 10000 rows where the
  query model allows 1000, and so always fails.)
- `orchestrator/executor.py` is exported but has no caller, its first node raises on every input,
  and it iterates an async generator with a plain `for`.
- The agent tools and their registry wrap the clients; nothing in the product passes them to an
  agent's model.
- Agent health checks read only. Escalation records are written once and read by id.
- The approval engine's mode without a database, moves by hand beside it (ExecutionService has them,
  with the caches as old as can be), the jobs-API methods of the Databricks client that nothing
  calls, the Fabric client's token, the adapters' payloads and resource cache.
- Configuration, migrations, application start.

## 7. Plan

What is left, in the order of its worth:

1. A composition of ExecutionService with PlatformJobs, in place of the one-step outcome of `Await`,
   and with the caches of ApprovalEngine, in place of the arbitrarily old record of `Decide`.
2. The adapters' resource caches, and escalations once something makes them.
