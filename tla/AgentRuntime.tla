---------------------------- MODULE AgentRuntime ----------------------------
(***************************************************************************)
(* The agents of agents/, the pool they live in and the callers that make  *)
(* them work: dispatch_and_execute of the dispatcher, _execute_capability_ *)
(* agent of the execution service, and users who take an agent from the    *)
(* pool by hand, as the docstring of AgentPoolManager shows.               *)
(*                                                                         *)
(* Everything runs on one event loop: a step is what happens between two   *)
(* suspensions.  A dispatch finds or creates its agent, accepts and begins *)
(* to execute in one step, because none of it suspends before the agent    *)
(* asks the language model; a user by hand may suspend between the calls.  *)
(*                                                                         *)
(* The coroutine of a call keeps its own attempt and its own total, but    *)
(* the state and the token tracker are the agent's: whoever resets an      *)
(* agent takes them from the call that runs on it.                         *)
(*                                                                         *)
(* Bounds: MaxTokens for a response, MaxPolls for MAX_POLL_ATTEMPTS,       *)
(* MaxStatements for what one answer asks of the platform.                 *)
(***************************************************************************)
EXTENDS Naturals, Sequences, FiniteSets, SequencesExt

CONSTANTS
    Calls,          \* the coroutines that want an agent's work
    AgentIds,       \* agent objects; enough for the pool and for every call
    MaxPoolSize,    \* max_pool_size
    Budget,         \* token_budget of every context
    MAX_SELF_CORRECTIONS,   \* INV-03; 3 in every agent
    MaxTokens,      \* the largest number of tokens a response reports
    MaxPolls,       \* MAX_POLL_ATTEMPTS of the Fabric agent
    MaxStatements,  \* statements, payloads and tables in one answer
    Wants,          \* Wants[c]: the agent types call c may ask for
    ByHand          \* the calls whose user may take an agent from the pool

None == "NONE"

\* _register_default_factories.  There is no factory for the orchestrator
\* agent: it is in the pool only when somebody registers one.
FactoryTypes ==
    {"developer", "validation", "optimization", "ingestion", "etl_pipeline",
     "job_scheduler", "catalog", "fabric"}

CapabilityTypes == {"ingestion", "etl_pipeline", "job_scheduler", "catalog"}

PlatformTypes == CapabilityTypes \cup {"fabric"}

\* What a call may ask for.
Types == FactoryTypes \cup {"orchestrator"}

ASSUME AgentRuntimeAssumption ==
    /\ MaxPoolSize \in Nat \ {0}
    /\ Budget \in Nat /\ MaxTokens \in Nat
    /\ MAX_SELF_CORRECTIONS \in Nat \ {0}
    /\ ByHand \subseteq Calls
    /\ MaxPolls \in Nat /\ MaxStatements \in Nat
    /\ AgentIds \subseteq Nat \ {0} /\ IsFiniteSet(AgentIds) /\ IsFiniteSet(Calls)
    /\ Cardinality(AgentIds) >= MaxPoolSize + Cardinality(Calls)
    /\ \A c \in Calls : Wants[c] \subseteq Types

VARIABLES
    pool,           \* the agents of AgentPoolManager, in order of insertion
    agent,          \* the agent objects
    call,           \* the coroutines, with their local variables
    disturbed,      \* history: calls whose agent was reset or taken by others
    returned        \* what the last step returned to a caller, if it did

vars == <<pool, agent, call, disturbed, returned>>

\* BaseAgent: _state, whether there is a _token_tracker, and its _used.  left is
\* history: a caller went away between accept_task and execute.
NoAgent ==
    [type |-> None, state |-> "IDLE", tracker |-> FALSE, used |-> 0,
     adapter |-> FALSE, left |-> FALSE]

NoOne == 0

\* The locals of a call: its agent, attempt and total_tokens, the platform
\* operations to come (plan), those it will report (actions) and, with its
\* polls, the Fabric job.  spent and created are history: the tokens of all its
\* responses, and what the platform really did.
NewCall(t, a) ==
    [pc |-> "asking", type |-> t, agent |-> a, attempt |-> 1, total |-> 0,
     plan |-> <<>>, actions |-> <<>>, polls |-> 0, job |-> None, spent |-> 0,
     created |-> <<>>]

Idle == [NewCall(None, NoOne) EXCEPT !.pc = "idle"]

Ended(c) == call[c].pc = "idle"

\* AgentResult: success or not, tokens_used, and the actions in its artifacts;
\* with it the history of the call that made it.
Result(result, reported, new, hurt) ==
    [result |-> result, reported |-> reported, actions |-> new.actions,
     spent |-> new.spent, created |-> new.created, job |-> new.job,
     disturbed |-> hurt]

Nothing == Result(None, 0, Idle, FALSE)

\* A call that is inside BaseAgent.execute.
Executing(c) == call[c].pc \in {"asking", "executing", "polling"}

\* A call that has an agent in its hands.
Holds(c, a) == call[c].agent = a /\ ~Ended(c)

Members == {pool[i] : i \in DOMAIN pool}

Init ==
    /\ pool = <<>>
    /\ agent = [a \in AgentIds |-> NoAgent]
    /\ call = [c \in Calls |-> Idle]
    /\ disturbed = {}
    /\ returned = Nothing

-----------------------------------------------------------------------------
(***************************** The pool ************************************)

\* get_available_agents: where in the pool the idle agents of the type are.
Available(t) ==
    {i \in DOMAIN pool : agent[pool[i]].state = "IDLE" /\ agent[pool[i]].type = t}

\* available[0]: the one that has been in the pool for longest.
Oldest(t) ==
    pool[CHOOSE i \in Available(t) : \A j \in Available(t) : i <= j]

\* A fresh object: nobody has it, in the pool or in hand.
Fresh ==
    CHOOSE a \in AgentIds : a \notin Members /\ \A c \in Calls : ~Holds(c, a)

\* A pool that refuses one agent too late.
FullOneLate == Len(pool) > MaxPoolSize

Full == Len(pool) >= MaxPoolSize

\* register_agent: wire_pool registers developer and Fabric agents, the latter
\* with a client; an orchestrator agent comes into a pool in no other way.  A
\* full pool refuses.
WiredTypes == {"developer", "fabric", "orchestrator"}

Register(t) ==
    /\ ~Full
    /\ pool' = Append(pool, Fresh)
    /\ agent' = [agent EXCEPT ![Fresh] =
                    [NoAgent EXCEPT !.type = t, !.adapter = t = "fabric"]]
    /\ returned' = Nothing
    /\ UNCHANGED <<call, disturbed>>

\* unregister_agent: also a busy agent, whose call goes on with it.
Unregister(a) ==
    /\ \E i \in DOMAIN pool : pool[i] = a /\ pool' = RemoveAt(pool, i)
    /\ agent' = IF \E c \in Calls : Holds(c, a)
                  THEN agent ELSE [agent EXCEPT ![a] = NoAgent]
    /\ returned' = Nothing
    /\ UNCHANGED <<call, disturbed>>

\* The calls that lose their agent's state when the agent is reset.
Hurt(a) == {c \in Calls : Holds(c, a) /\ call[c].pc # "acquired"}

\* The object of an agent lives in the pool and in the hands of other calls.
KeptWithout(c, a) ==
    a \in Members \/ \E d \in Calls \ {c} : Holds(d, a)

\* _reset: IDLE, no context, no tracker.  The object of an agent that nobody
\* keeps is gone.
Reset(a, kept) ==
    agent' = [agent EXCEPT ![a] =
                 IF kept THEN [@ EXCEPT !.state = "IDLE", !.tracker = FALSE,
                                        !.used = 0, !.left = FALSE]
                         ELSE NoAgent]

\* release_agent resets the agent whatever it is doing.
ReleaseAgent(a) ==
    /\ a \in Members
    /\ Reset(a, TRUE)
    /\ disturbed' = disturbed \cup Hurt(a)
    /\ returned' = Nothing
    /\ UNCHANGED <<pool, call>>

-----------------------------------------------------------------------------
(************************* Lifecycle of an agent ***************************)

\* accept_task and execute up to the first request: a new tracker with the
\* whole budget.
Begin(c, t, a, new) ==
    /\ agent' = [agent EXCEPT ![a] =
                    [new EXCEPT !.state = "EXECUTING",
                                !.tracker = TRUE, !.used = 0]]
    /\ call' = [call EXCEPT ![c] = NewCall(t, a)]
    /\ disturbed' = IF \E d \in Calls \ {c} : d \in Hurt(a)
                      THEN disturbed \cup {c} ELSE disturbed \ {c}
    /\ returned' = Nothing

\* A call that ends before it has an agent.
EndsWithout(c, result) ==
    /\ call' = [call EXCEPT ![c] = Idle]
    /\ disturbed' = disturbed \ {c}
    /\ returned' = Result(result, 0, Idle, FALSE)
    /\ UNCHANGED <<pool, agent>>

\* acquire_or_create_agent, accept_task and execute, in dispatch_and_execute.
\* NoAvailableAgentError is caught and an agent created; a type without a
\* factory is a ValueError, a full pool a PoolCapacityError.
Dispatch(c, t) ==
    /\ Ended(c)
    /\ \/ /\ Available(t) # {}
          /\ Begin(c, t, Oldest(t), agent[Oldest(t)])
          /\ UNCHANGED pool
       \/ /\ Available(t) = {} /\ t \notin FactoryTypes
          /\ EndsWithout(c, "unknown_type")
       \/ /\ Available(t) = {} /\ t \in FactoryTypes /\ Full
          /\ EndsWithout(c, "refused")
       \/ /\ Available(t) = {} /\ t \in FactoryTypes /\ ~Full
          /\ pool' = Append(pool, Fresh)
          /\ Begin(c, t, Fresh, [NoAgent EXCEPT !.type = t])

\* _execute_capability_agent: a new agent that no pool knows, with a platform
\* adapter unless the task is to be generated only.
ExecuteCapability(c, t, generate_only) ==
    /\ Ended(c)
    /\ t \in CapabilityTypes
    /\ Begin(c, t, Fresh,
             [NoAgent EXCEPT !.type = t, !.adapter = ~generate_only])
    /\ UNCHANGED pool

\* acquire_agent by hand: an idle agent, but nothing reserves it.
Acquire(c, t) ==
    /\ Ended(c)
    /\ Available(t) # {}
    /\ call' = [call EXCEPT ![c] =
                   [Idle EXCEPT !.pc = "acquired", !.type = t,
                                !.agent = Oldest(t)]]
    /\ returned' = Nothing
    /\ UNCHANGED <<pool, agent, disturbed>>

\* accept_task that does not look at the state of the agent.
AcceptUnchecked(c) ==
    /\ call[c].pc = "acquired"
    /\ agent' = [agent EXCEPT ![call[c].agent].state = "ACCEPTING",
                              ![call[c].agent].tracker = TRUE,
                              ![call[c].agent].used = 0]
    /\ call' = [call EXCEPT ![c].pc = "accepted"]
    /\ returned' = Nothing
    /\ UNCHANGED <<pool, disturbed>>

\* accept_task by hand, after other coroutines had their turn.
Accept(c) ==
    /\ call[c].pc = "acquired"
    /\ LET a == call[c].agent IN
         \/ /\ agent[a].state # "IDLE"       \* AgentLifecycleError
            /\ EndsWithout(c, "lifecycle_error")
         \/ /\ agent[a].state = "IDLE"
            /\ agent' = [agent EXCEPT ![a].state = "ACCEPTING",
                                      ![a].tracker = TRUE, ![a].used = 0]
            /\ call' = [call EXCEPT ![c].pc = "accepted"]
            /\ disturbed' = IF \E d \in Calls \ {c} : d \in Hurt(a)
                              THEN disturbed \cup {c} ELSE disturbed
            /\ returned' = Nothing
            /\ UNCHANGED pool

\* execute by hand: refused unless the agent still is where accept_task left
\* it.
Execute(c) ==
    /\ call[c].pc = "accepted"
    /\ LET a == call[c].agent IN
         \/ /\ agent[a].state # "ACCEPTING"  \* AgentLifecycleError
            /\ EndsWithout(c, "lifecycle_error")
         \/ /\ agent[a].state = "ACCEPTING"
            /\ agent' = [agent EXCEPT ![a].state = "EXECUTING"]
            /\ call' = [call EXCEPT ![c] = NewCall(call[c].type, a)]
            /\ returned' = Nothing
            /\ UNCHANGED <<pool, disturbed>>

\* The end of execute: the result is made, and the finally clause resets the
\* agent, also when the coroutine is cancelled or an exception is on its way.
\* The locals are gone with the coroutine.
Ends(c, result, reported, new) ==
    /\ call' = [call EXCEPT ![c] = Idle]
    /\ Reset(call[c].agent, KeptWithout(c, call[c].agent))
    /\ disturbed' = (disturbed \cup Hurt(call[c].agent)) \ {c}
    /\ returned' = Result(result, reported, new, c \in disturbed)
    /\ UNCHANGED pool

\* except Exception in execute: what the agent's tracker counted is reported,
\* and 0 if it has none.
Raises(c, used, new) == Ends(c, "failed", used, new)

\* A reset for exceptions only, which a cancellation is not one of.
CancelWithoutReset(c) ==
    /\ Executing(c)
    /\ call' = [call EXCEPT ![c] = Idle]
    /\ disturbed' = disturbed \ {c}
    /\ returned' = Result("cancelled", 0, call[c], FALSE)
    /\ UNCHANGED <<pool, agent>>

\* The task of the event loop is cancelled while it waits.
Cancel(c) ==
    /\ Executing(c)
    /\ Ends(c, "cancelled", 0, call[c])

\* A user by hand is cancelled before execute, whose finally clause alone would
\* reset the agent: one that has accepted stays ACCEPTING, and in the pool.
CancelByHand(c) ==
    /\ call[c].pc \in {"acquired", "accepted"}
    /\ call' = [call EXCEPT ![c] = Idle]
    /\ LET a == call[c].agent
           accepted == call[c].pc = "accepted" /\ agent[a].state = "ACCEPTING"
       IN  \/ /\ ~KeptWithout(c, a)
              /\ agent' = [agent EXCEPT ![a] = NoAgent]
           \/ /\ KeptWithout(c, a) /\ accepted
              /\ agent' = [agent EXCEPT ![a].left = TRUE]
           \/ /\ KeptWithout(c, a) /\ ~accepted
              /\ UNCHANGED agent
    /\ disturbed' = disturbed \ {c}
    /\ returned' = Result("cancelled", 0, Idle, FALSE)
    /\ UNCHANGED pool

-----------------------------------------------------------------------------
(*********************** One request to the model **************************)

\* A response has a number of tokens, 0 when the service reports no usage,
\* and a content that satisfies the agent's schema, violates it, or satisfies
\* it with values the agent cannot work with.
Responses ==
    [tokens : 0..MaxTokens, content : {"valid", "violation", "malformed"}]

Used(c) == agent[call[c].agent].used
Tracked(c) == agent[call[c].agent].tracker

\* The call when it has the response, and when it has counted it.
Heard(c, r) == [call[c] EXCEPT !.spent = @ + r.tokens]
Counted(c, r) == [Heard(c, r) EXCEPT !.total = @ + r.tokens]

\* The tracker when the response is counted; a call whose agent was taken from
\* it may have none.
UsedAfter(c, r) == IF Tracked(c) THEN Used(c) + r.tokens ELSE 0

\* consume raises: there is no tracker any more (AttributeError, or an
\* AssertionError before it), or the count is not positive (ValueError).
ConsumeRaises(c, r) ==
    /\ ~Tracked(c) \/ r.tokens = 0
    /\ Raises(c, Used(c), Heard(c, r))

\* A total that leaves out the response that was refused.
ExhaustsUncounted(c, r) ==
    /\ Tracked(c) /\ r.tokens > 0
    /\ Used(c) + r.tokens > Budget
    /\ Ends(c, "escalated", call[c].total, Heard(c, r))

\* TokenBudgetExhaustedError: the tracker counts all of a response or nothing,
\* and the agent reports also the response that was refused.
Exhausts(c, r) ==
    /\ Tracked(c) /\ r.tokens > 0
    /\ Used(c) + r.tokens > Budget
    /\ Ends(c, "escalated", call[c].total + r.tokens, Heard(c, r))

\* A budget that is compared before the tokens are counted.
ConsumedLate(c, r) ==
    /\ Tracked(c) /\ r.tokens > 0
    /\ Used(c) < Budget

Consumed(c, r) ==
    /\ Tracked(c) /\ r.tokens > 0
    /\ Used(c) + r.tokens <= Budget

\* OutputSchemaViolation, on the last attempt and before it.
GivesUp(c, r) ==
    /\ r.content = "violation"
    /\ call[c].attempt = MAX_SELF_CORRECTIONS
    /\ Ends(c, "escalated", Counted(c, r).total, Counted(c, r))

\* An attempt that does not count.
AsksForEver(c, r) ==
    /\ r.content = "violation"
    /\ call[c].attempt < MAX_SELF_CORRECTIONS
    /\ call' = [call EXCEPT ![c] = Counted(c, r)]
    /\ agent' = [agent EXCEPT ![call[c].agent].used = UsedAfter(c, r)]
    /\ returned' = Nothing
    /\ UNCHANGED <<pool, disturbed>>

AsksAgain(c, r) ==
    /\ r.content = "violation"
    /\ call[c].attempt < MAX_SELF_CORRECTIONS
    /\ call' = [call EXCEPT ![c] =
                   [Counted(c, r) EXCEPT !.attempt = @ + 1]]
    /\ agent' = [agent EXCEPT ![call[c].agent].used = UsedAfter(c, r)]
    /\ returned' = Nothing
    /\ UNCHANGED <<pool, disturbed>>

\* The agent has what it asked for and is done.
Delivers(c, r) ==
    /\ r.content # "violation"
    /\ Ends(c, "success", Counted(c, r).total, Counted(c, r))

\* complete() raises: no attempt is repeated for it.
LlmFails(c) ==
    /\ call[c].pc = "asking"
    /\ Ends(c, "escalated", call[c].total, call[c])
=============================================================================
