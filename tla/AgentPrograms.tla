---------------------------- MODULE AgentPrograms ---------------------------
(***************************************************************************)
(* What each agent of agents/ does with a response of the model, and what  *)
(* the four capability agents and the Fabric agent then do on a platform.  *)
(*                                                                         *)
(* Every agent has a copy of the same loop, in _do_execute or in           *)
(* _generate_code.  The copies differ when the tracker is gone: the        *)
(* developer goes on without counting, all others raise.                   *)
(*                                                                         *)
(* The platform is outside the process: an operation of the adapter takes  *)
(* effect or not, and returns or raises, also after it took effect.        *)
(***************************************************************************)
EXTENDS AgentRuntime

\* The loop of an agent that raises without a tracker.
Strictly(c, r, Goes(_, _)) ==
    \/ ConsumeRaises(c, r)
    \/ Exhausts(c, r)
    \/ Consumed(c, r) /\ (GivesUp(c, r) \/ AsksAgain(c, r) \/ Goes(c, r))

Hears(c, t) == call[c].pc = "asking" /\ call[c].type = t

-----------------------------------------------------------------------------
(******************* Agents that only produce something ********************)

\* DeveloperAgent: "if self._token_tracker", so that a response counts for
\* nothing when the tracker is gone.
DeveloperHears(c, r) ==
    /\ Hears(c, "developer")
    /\ \/ /\ Tracked(c)
          /\ Strictly(c, r, Delivers)
       \/ /\ ~Tracked(c)
          /\ GivesUp(c, r) \/ AsksAgain(c, r) \/ Delivers(c, r)

\* ValidationAgent: a risk score or a recommendation out of range is a
\* violation too; a score that is no number passes those tests and makes
\* _merge_results raise.  OptimizationAgent raises when it counts changes that
\* are no list.
Merges(c, r) ==
    \/ r.content = "valid" /\ Delivers(c, r)
    \/ r.content = "malformed" /\ Raises(c, UsedAfter(c, r), Counted(c, r))

ValidationHears(c, r) == Hears(c, "validation") /\ Strictly(c, r, Merges)

OptimizationHears(c, r) == Hears(c, "optimization") /\ Strictly(c, r, Merges)

OrchestratorHears(c, r) == Hears(c, "orchestrator") /\ Strictly(c, r, Delivers)

-----------------------------------------------------------------------------
(************** Agents that act on a platform with an adapter **************)

Times(n, op) == [i \in 1..n |-> op]

\* What an answer makes _execute_on_platform ask of the adapter.
IngestionPlans ==
    {Times(n, "create_table") \o <<"create_pipeline", "execute_pipeline">>
        : n \in 0..1}

ETLPlans ==
    {<<"create_pipeline">> \o Times(n, "create_table") \o <<"execute_pipeline">>
        : n \in 0..MaxStatements}

JobSchedulerPlans == {<<"create_job">>, <<"create_job", "execute_job">>}

\* create_shortcut stands beside create_table for lakehouses and volumes; a
\* resource type of neither kind makes no call at all.
CatalogPlan(n, m, op) == Times(n, "execute_sql") \o Times(m, op)

CatalogPlans ==
    {CatalogPlan(n, m, op)
        : n \in 0..MaxStatements, m \in 0..MaxStatements,
          op \in {"create_table", "create_shortcut"}}

\* A response that has what the agent asked for: without an adapter it is the
\* result, with one the plan is carried out.
Goes(c, r, plans) ==
    /\ r.content # "violation"
    /\ \/ ~agent[call[c].agent].adapter /\ Delivers(c, r)
       \/ /\ agent[call[c].agent].adapter
          /\ \E p \in plans :
               IF p = <<>>
                 THEN Delivers(c, r)
                 ELSE /\ call' = [call EXCEPT ![c] =
                             [Counted(c, r) EXCEPT !.pc = "executing",
                                                   !.attempt = 1, !.plan = p]]
                      /\ agent' = [agent EXCEPT ![call[c].agent].used =
                                                    UsedAfter(c, r)]
                      /\ returned' = Nothing
                      /\ UNCHANGED <<pool, disturbed>>

IngestionGoes(c, r) == Goes(c, r, IngestionPlans)
ETLGoes(c, r) == Goes(c, r, ETLPlans)
JobSchedulerGoes(c, r) == Goes(c, r, JobSchedulerPlans)

\* A grant or a drop without approval_granted in the task is refused before
\* the platform is asked anything.
CatalogGoes(c, r) ==
    \/ Goes(c, r, CatalogPlans)
    \/ /\ agent[call[c].agent].adapter
       /\ r.content # "violation"
       /\ Ends(c, "failed", Counted(c, r).total, Counted(c, r))

FabricGoes(c, r) == Goes(c, r, {<<"submit_job">>})

\* The loops of _generate_code.
IngestionHears(c, r) == Hears(c, "ingestion") /\ Strictly(c, r, IngestionGoes)
ETLHears(c, r) == Hears(c, "etl_pipeline") /\ Strictly(c, r, ETLGoes)
JobSchedulerHears(c, r) ==
    Hears(c, "job_scheduler") /\ Strictly(c, r, JobSchedulerGoes)
CatalogHears(c, r) == Hears(c, "catalog") /\ Strictly(c, r, CatalogGoes)
FabricHears(c, r) == Hears(c, "fabric") /\ Strictly(c, r, FabricGoes)

\* The operation took effect and returned: it is among the actions of the
\* result, and after the last one the call succeeds.  A call that submitted a
\* Fabric job goes on to poll it.
Operated(c) ==
    [call[c] EXCEPT !.actions = Append(@, Head(call[c].plan)),
                    !.created = Append(@, Head(call[c].plan)),
                    !.plan = Tail(@)]

Operates(c) ==
    /\ call[c].pc = "executing"
    /\ \/ /\ Head(call[c].plan) = "submit_job"
          /\ call' = [call EXCEPT ![c] =
                         [Operated(c) EXCEPT !.pc = "polling",
                                             !.job = "RUNNING"]]
          /\ returned' = Nothing
          /\ UNCHANGED <<pool, agent, disturbed>>
       \/ /\ Head(call[c].plan) # "submit_job"
          /\ Len(call[c].plan) > 1
          /\ call' = [call EXCEPT ![c] = Operated(c)]
          /\ returned' = Nothing
          /\ UNCHANGED <<pool, agent, disturbed>>
       \/ /\ Head(call[c].plan) # "submit_job"
          /\ Len(call[c].plan) = 1
          /\ Ends(c, "success", call[c].total, Operated(c))

\* A failure that forgets what was done before it.
OperationFailsForgetting(c) ==
    /\ call[c].pc = "executing"
    /\ Ends(c, "failed", call[c].total, [call[c] EXCEPT !.actions = <<>>])

\* It raised, before or after it took effect; nothing is undone.
OperationFails(c) ==
    /\ call[c].pc = "executing"
    /\ \E happened \in BOOLEAN :
         Ends(c, "failed", call[c].total,
              [call[c] EXCEPT !.created =
                  IF happened THEN Append(@, Head(call[c].plan)) ELSE @])

-----------------------------------------------------------------------------
(*************************** The Fabric job ********************************)

Terminal == {"SUCCESS", "FAILED", "CANCELLED"}

\* The platform, and whoever may cancel the job there.
JobEnds(c) ==
    /\ call[c].job = "RUNNING"
    /\ ~Ended(c)
    /\ \E s \in Terminal : call' = [call EXCEPT ![c].job = s]
    /\ returned' = Nothing
    /\ UNCHANGED <<pool, agent, disturbed>>

\* _submit_and_poll: at most MAX_POLL_ATTEMPTS looks, whatever they show.
Polls(c) ==
    /\ call[c].pc = "polling"
    /\ call[c].polls < MaxPolls
    /\ call' = [call EXCEPT ![c].polls =
                   IF call[c].job \in Terminal THEN MaxPolls ELSE @ + 1]
    /\ returned' = Nothing
    /\ UNCHANGED <<pool, agent, disturbed>>

\* get_job_output, which itself looks again: only FAILED is a failure.  A job
\* that was cancelled, or still runs, succeeded.
Collects(c) ==
    /\ call[c].pc = "polling"
    /\ call[c].polls = MaxPolls
    /\ Ends(c, IF call[c].job = "FAILED" THEN "failed" ELSE "success",
            call[c].total, call[c])

\* The client raises: a status that cannot be read, a job it does not know.
\* The result then names no job.
PollFails(c) ==
    /\ call[c].pc = "polling"
    /\ Ends(c, "failed", call[c].total, [call[c] EXCEPT !.actions = <<>>])

-----------------------------------------------------------------------------
(****************************** The system *********************************)

HearsResponse(c) ==
    \E r \in Responses :
        \/ DeveloperHears(c, r) \/ ValidationHears(c, r)
        \/ OptimizationHears(c, r) \/ OrchestratorHears(c, r)
        \/ IngestionHears(c, r) \/ ETLHears(c, r) \/ JobSchedulerHears(c, r)
        \/ CatalogHears(c, r) \/ FabricHears(c, r)

\* What the event loop does for a call that is under way.
Proceeds(c) ==
    \/ Accept(c) \/ Execute(c)
    \/ HearsResponse(c) \/ LlmFails(c)
    \/ Operates(c) \/ OperationFails(c)
    \/ Polls(c) \/ Collects(c) \/ PollFails(c)

Starts(c) ==
    \E t \in Wants[c] :
        \/ Dispatch(c, t)
        \/ \E generate_only \in BOOLEAN : ExecuteCapability(c, t, generate_only)
        \/ c \in ByHand /\ Acquire(c, t)

Next ==
    \/ \E c \in Calls : Starts(c) \/ Proceeds(c) \/ JobEnds(c)
    \/ \E c \in Calls : Cancel(c) \/ CancelByHand(c)
    \/ \E t \in WiredTypes : Register(t)
    \/ \E a \in AgentIds : Unregister(a) \/ ReleaseAgent(a)

Spec == Init /\ [][Next]_vars

-----------------------------------------------------------------------------
Operations ==
    {"create_table", "create_pipeline", "execute_pipeline", "create_job",
     "execute_job", "execute_sql", "create_shortcut", "submit_job"}

Results ==
    {"success", "failed", "escalated", "cancelled", "unknown_type", "refused",
     "lifecycle_error"}

\* The pool never outgrows max_pool_size and holds no agent twice; no call
\* asks the model more often than INV-03 allows.
TypeOK ==
    /\ pool \in Seq(AgentIds) /\ Len(pool) <= MaxPoolSize
    /\ Cardinality(Members) = Len(pool)
    /\ agent \in [AgentIds ->
          [type : Types \cup {None}, state : {"IDLE", "ACCEPTING", "EXECUTING"},
           tracker : BOOLEAN, used : 0..Budget, adapter : BOOLEAN,
           left : BOOLEAN]]
    /\ call \in [Calls ->
          [pc : {"idle", "acquired", "accepted", "asking", "executing", "polling"},
           type : Types \cup {None}, agent : AgentIds \cup {NoOne},
           attempt : 1..MAX_SELF_CORRECTIONS, total : Nat,
           plan : Seq(Operations), actions : Seq(Operations),
           polls : 0..MaxPolls, job : Terminal \cup {"RUNNING", None},
           spent : Nat, created : Seq(Operations)]]
    /\ disturbed \subseteq Calls
    /\ returned \in
          [result : Results \cup {None}, reported : Nat,
           actions : Seq(Operations), spent : Nat, created : Seq(Operations),
           job : Terminal \cup {"RUNNING", None}, disturbed : BOOLEAN]

\* acquire_agent reserves nothing and the dispatcher relies on its not being
\* suspended between acquire and accept.  As long as nobody releases a busy
\* agent, a call that executes has its agent for itself, of the type it asked
\* for, with a tracker that counts its own responses and no others.
OneCallPerAgent ==
    \A c \in Calls \ disturbed : Executing(c) =>
        /\ agent[call[c].agent].state = "EXECUTING"
        /\ agent[call[c].agent].type = call[c].type
        /\ agent[call[c].agent].tracker
        /\ agent[call[c].agent].used = call[c].total
        /\ \A d \in Calls \ {c} : d \notin Hurt(call[c].agent)

\* However an execution ends, by an answer, an exception or a cancellation, its
\* agent comes back: an agent that is not IDLE is in the hands of a call, also
\* when agents are released and unregistered under their calls.  The exception
\* is an agent that accepted a task which its caller then never executed.
NeverStranded ==
    \A a \in AgentIds :
        \/ agent[a].state = "IDLE" \/ Hurt(a) # {}
        \/ agent[a].state = "ACCEPTING" /\ agent[a].left

\* INV-04 for one run of an agent: a result that succeeds was paid within the
\* budget, and the response that exceeds it is the last one.
WithinBudget ==
    /\ \A c \in Calls \ disturbed : call[c].spent <= Budget
    /\ returned.spent > Budget /\ ~returned.disturbed =>
           returned.result = "escalated"

\* What a result reports is what the model was paid for this call, on every
\* path: success, escalation, and exceptions that only know the tracker.
Accounted ==
    returned.result \in {"success", "escalated", "failed"}
        /\ ~returned.disturbed => returned.reported = returned.spent

\* Nothing is rolled back when an operation fails, so the result has to name
\* what was created: everything if it succeeded, and otherwise everything but
\* at most the operation that failed.
NamesWhatItCreated ==
    /\ returned.result = "success" => returned.actions = returned.created
    /\ returned.result = "failed" =>
          \E n \in {Len(returned.created), Len(returned.created) - 1} :
              returned.actions = SubSeq(returned.created, 1, n)

\* What a call has still to do at most: requests, then operations, then looks
\* at its job.
MostOperations == 2 * MaxStatements + 3
Left(k) ==
    CASE k.pc = "idle" -> 0
      [] k.pc = "polling" -> MaxPolls - k.polls + 1
      [] k.pc = "executing" -> Len(k.plan) + MaxPolls + 1
      [] k.pc = "asking" ->
            MAX_SELF_CORRECTIONS - k.attempt + MostOperations + MaxPolls + 2
      [] k.pc = "accepted" -> MAX_SELF_CORRECTIONS + MostOperations + MaxPolls + 2
      [] k.pc = "acquired" -> MAX_SELF_CORRECTIONS + MostOperations + MaxPolls + 3

\* Every step of a call leaves less to do, on every path and whatever others do
\* to its agent: no schema violation, no budget and no job that never ends can
\* keep a call, and the agent with it, for ever (INV-03, MAX_POLL_ATTEMPTS).
CallsProgress ==
    [][\A c \in Calls :
          ~Ended(c) /\ call'[c] # call[c] =>
              \/ Left(call'[c]) < Left(call[c])
              \/ call'[c] = [call[c] EXCEPT !.job = call'[c].job]]_vars
=============================================================================
