---------------------------- MODULE GraphExecutor ----------------------------
(***************************************************************************)
(* The work of a task, from its routing to its job: the nodes of           *)
(* orchestrator/graph.py, TaskRouter.route, the methods of                 *)
(* orchestrator/graph_executor.py that the nodes call, and the platform    *)
(* clients they end in, which other callers use at the same time.          *)
(*                                                                         *)
(* A run is a walk through the nodes by the rules of the graph's routers,  *)
(* which heed an error and nothing else: neither the verdict of the        *)
(* validation nor the status of the approval.  The transitions a walk has  *)
(* to record are not modelled: a recording that is refused ends the run    *)
(* like any other exception.  (TaskGraph shows that run_task_graph meets   *)
(* such a refusal before it comes to the first of these nodes.)            *)
(*                                                                         *)
(* Where a router takes the first target of a set, it may be any: the      *)
(* order depends on the hash seed.  A run that is cancelled, or over, just *)
(* does not go on.  Bound: a run submits once; one whose submission fails  *)
(* goes back to development, and is not followed there.  The agents are    *)
(* outcomes here, see AgentPrograms, and so is the approval engine, see    *)
(* ApprovalEngine.                                                         *)
(***************************************************************************)
EXTENDS PlatformJobs, SafetyPipeline

CONSTANTS
    Runs,           \* the calls that are runs; the others use the clients only
    Codes           \* what an agent may write

ASSUME GraphExecutorAssumption == Runs \subseteq Calls /\ Codes \subseteq Code

VARIABLE
    work            \* work[r]: the graph state of run r

allVars == <<vars, work>>

\* KNOWN_AGENT_TYPES
KNOWN_AGENT_TYPES ==
    {"developer", "validation", "optimization", "ingestion", "etl_pipeline",
     "job_scheduler", "catalog"}

CAPABILITY_TASK_TYPES ==
    {"ingestion", "etl_pipeline", "job_scheduler", "catalog"}

HIGH_CONFIDENCE_THRESHOLD == 2

NoCode ==
    [language |-> "python", blank |-> TRUE, lines |-> 1,
     static |-> NoFindings, patterns |-> NoFindings, destructive |-> FALSE]

\* The record of an approval request, without its owner.
NoRequest == [code |-> NoCode, status |-> "none"]

\* GraphState; error says whether it holds one, and a message that is empty
\* counts as none.
NewWork ==
    [pc |-> "AGENT_ASSIGNMENT", agent_type |-> "none",
     environment |-> "SANDBOX", code |-> NoCode, error |-> FALSE,
     request |-> NoRequest]

StartWork == Init /\ work = [r \in Runs |-> NewWork]

\* The nodes where something is done, and which of them can come next.  Of the
\* others between them only those that stop a run matter.
Nodes ==
    {"AGENT_ASSIGNMENT", "IN_DEVELOPMENT", "IN_VALIDATION", "IN_OPTIMIZATION",
     "APPROVAL_PENDING", "DEPLOYING"}

\* A whitelist with optimization after the approval.
NextNodesOptimizingLate(node, error) ==
    CASE node = "AGENT_ASSIGNMENT" -> {"IN_DEVELOPMENT"}
      [] node = "IN_DEVELOPMENT" ->
             {"IN_DEVELOPMENT"} \cup IF error THEN {} ELSE {"IN_VALIDATION"}
      [] node = "IN_VALIDATION" ->
             {"IN_DEVELOPMENT"} \cup IF error THEN {} ELSE {"APPROVAL_PENDING"}
      [] node = "APPROVAL_PENDING" -> {"IN_OPTIMIZATION", "DEPLOYING"}
      [] node = "IN_OPTIMIZATION" -> {"DEPLOYING"}
      [] node = "DEPLOYING" -> {"IN_DEVELOPMENT", "over"}

NextNodes(node, error) ==
    CASE node = "AGENT_ASSIGNMENT" -> {"IN_DEVELOPMENT"}
      [] node = "IN_DEVELOPMENT" ->
             {"IN_DEVELOPMENT"} \cup IF error THEN {} ELSE {"IN_VALIDATION"}
      [] node = "IN_VALIDATION" ->
             {"IN_DEVELOPMENT"} \cup
                 IF error THEN {} ELSE {"IN_OPTIMIZATION", "APPROVAL_PENDING"}
      [] node = "IN_OPTIMIZATION" -> {"APPROVAL_PENDING"}
      [] node = "APPROVAL_PENDING" -> {"DEPLOYING"}
      [] node = "DEPLOYING" -> {"IN_DEVELOPMENT", "over"}

\* A node is done and leaves this state to the router.
Leaves(r, w) ==
    \E node \in NextNodes(w.pc, w.error) :
        work' = [work EXCEPT ![r] = [w EXCEPT !.pc = node]]

Works(r, from, to) == work[r].pc = from /\ work' = [work EXCEPT ![r].pc = to]

Offline ==
    /\ reply' = Nothing
    /\ UNCHANGED <<endpoints, job, known, contexts, notebook, call, told>>

-----------------------------------------------------------------------------
(***************************** Routing *************************************)

\* _llm_routing: what the orchestrator agent says, when it can be asked, names
\* a known type and nothing raises; else the router goes on without it.
LlmRouting(available, says) ==
    IF available /\ says \in KNOWN_AGENT_TYPES THEN {says} ELSE {}

\* route: a known explicit capability, then a keyword that scores high enough,
\* then the language model with the weak keyword as a hint, then the weak
\* keyword itself, then the developer.  keyword is "none" without a match.
Routed(explicit, keyword, score, available, says) ==
    IF explicit \in KNOWN_AGENT_TYPES THEN explicit
    ELSE IF keyword # "none" /\ score >= HIGH_CONFIDENCE_THRESHOLD THEN keyword
    ELSE CASE LlmRouting(available, says) # {} -> says
           [] keyword # "none" -> keyword
           [] OTHER -> "developer"

\* execute_routing.  What the metadata and the model say may be anything; the
\* keyword tables name capabilities only.  A router that raises an
\* OrchestratorError leaves the task to the developer.
ExecuteRouting(r) ==
    /\ work[r].pc = "AGENT_ASSIGNMENT"
    /\ \E explicit \in KNOWN_AGENT_TYPES \cup {"none", "fabric"},
          keyword \in CAPABILITY_TASK_TYPES \cup {"none"},
          score \in {HIGH_CONFIDENCE_THRESHOLD - 1, HIGH_CONFIDENCE_THRESHOLD},
          available \in BOOLEAN, says \in KNOWN_AGENT_TYPES \cup {"fabric"},
          fails \in BOOLEAN, environment \in Environments :
             Leaves(r, [work[r] EXCEPT
                 !.environment = environment,
                 !.agent_type = IF fails THEN "developer"
                                ELSE Routed(explicit, keyword, score, available,
                                            says)])
    /\ Offline

-----------------------------------------------------------------------------
(***************************** Reviews *************************************)

\* Whatever a node calls may raise what the node does not catch, and so may
\* the recording of its transition: the run is over.
NodeRaises(r) ==
    /\ work[r].pc \in Nodes
    /\ Works(r, work[r].pc, "over")
    /\ Offline

\* execute_direct_operation: it lists or previews; the run never has code.
ExecuteDirect(r) ==
    /\ work[r].pc = "IN_DEVELOPMENT" /\ work[r].code = NoCode
    /\ \E fails \in BOOLEAN :
          Leaves(r, [work[r] EXCEPT !.error = @ \/ fails])
    /\ Offline

\* execute_development, by the agent the routing chose: code, success without
\* code, which leaves that of an earlier round, or a failure, whose message
\* takes the place of an earlier one and may be empty.  Who wrote the code is
\* not followed further.
ExecuteDevelopment(r) ==
    /\ work[r].pc = "IN_DEVELOPMENT"
    /\ LET w == [work[r] EXCEPT !.agent_type = "none"]
       IN  \/ \E code \in Codes \cup {w.code} : Leaves(r, [w EXCEPT !.code = code])
          \/ \E error \in BOOLEAN : Leaves(r, [w EXCEPT !.error = error])
    /\ Offline

\* execute_validation: code that the analyzer refuses makes a result without
\* success and without an error, so the verdict changes nothing.  Only an
\* ExecutionError is one.  The opinion of the agent goes into the report.
ExecuteValidation(r) ==
    /\ work[r].pc = "IN_VALIDATION"
    /\ \E error \in BOOLEAN : Leaves(r, [work[r] EXCEPT !.error = error])
    /\ Offline

\* execute_optimization: a failure or an empty answer leaves the code as it is.
ExecuteOptimization(r) ==
    /\ work[r].pc = "IN_OPTIMIZATION"
    /\ \E code \in Codes \cup {work[r].code} :
          Leaves(r, [work[r] EXCEPT !.code = code])
    /\ Offline

\* _classify_operation_type.  It knows no change of a schema or of permissions:
\* what the policy asks for those is never asked for generated code.
ClassifyOperationType(w) ==
    IF w.code.destructive THEN "destructive"
    ELSE IF w.environment = "PRODUCTION" THEN "write" ELSE "read_only"

\* request_approval: without a pipeline result, so its risk counts as NONE.
\* The node skips a task without code.
RequestApproval(r) ==
    /\ work[r].pc = "APPROVAL_PENDING"
    /\ Leaves(r,
          IF work[r].code.blank THEN work[r]
          ELSE [work[r] EXCEPT !.request =
                   [code |-> work[r].code,
                    status |-> StatusOfRequest(ClassifyOperationType(work[r]),
                                               work[r].environment, NONE)]])
    /\ Offline

\* The DEPLOYING node without code.
SkipDeployment(r) ==
    /\ work[r].pc = "DEPLOYING" /\ work[r].code.blank
    /\ Leaves(r, work[r])
    /\ Offline

-----------------------------------------------------------------------------
(*************************** Execution *************************************)

Language(code) == IF code.language = "sql" THEN "sql" ELSE "python"

\* execute_on_platform: submit, ask for the status once, for the output once.
\* The task has no further use for its code.  The language is the one the
\* task's metadata names, python unless it does.
ExecuteOnPlatform(r) ==
    /\ work[r].pc = "DEPLOYING" /\ ~ work[r].code.blank
    /\ work' = [work EXCEPT ![r] = [NewWork EXCEPT !.pc = "submitting"]]
    /\ \E p \in {"databricks", "fabric"} :
          IF p = "fabric"
          THEN \E n \in Names : Submit(r, p, Language(work[r].code), n, TRUE)
          ELSE Submit(r, p, Language(work[r].code), Nobody, TRUE)

\* A reading that raises is a failed deployment.
AskStatus(r) ==
    /\ Asks(r) /\ work[r].pc = "submitting"
    /\ GetJobStatus(r)
    /\ work' = [work EXCEPT ![r].pc =
                  IF reply'.status = "raised" THEN "over" ELSE "asked"]

\* The output is read, and then the status is asked for its status, which a
\* JobStatus does not have: the method raises, whatever became of the job.
AskOutput(r) ==
    /\ work[r].pc = "asked"
    /\ \/ AskForOutput(r) \/ PollForOutput(r) \/ ReadResults(r)
    /\ work' = [work EXCEPT ![r].pc = IF reply' = Nothing THEN "asked" ELSE "over"]

\* So is a submission that raises.
GiveUp(r) ==
    /\ call[r].pc = "ended" /\ Works(r, "submitting", "over")
    /\ Offline

RunStep(r) ==
    \/ ExecuteRouting(r) \/ NodeRaises(r) \/ ExecuteDirect(r)
    \/ ExecuteDevelopment(r) \/ ExecuteValidation(r) \/ ExecuteOptimization(r)
    \/ RequestApproval(r) \/ SkipDeployment(r) \/ ExecuteOnPlatform(r)
    \/ AskStatus(r) \/ AskOutput(r) \/ GiveUp(r)

\* What becomes of a submission, whoever made it.
Submits(c) ==
    \/ StatementReturns(c) \/ CreateContext(c) \/ ExecuteCommand(c)
    \/ CreateNotebook(c) \/ FindNotebook(c) \/ UpdateNotebook(c)
    \/ RunNotebook(c) \/ SubmissionFails(c)

\* Adapters, tools and services ask in any order and as often as they like.
OthersAsk(c) ==
    \/ Begin(c) \/ GetJobStatus(c) \/ GetMockStatus(c) \/ AskForOutput(c)
    \/ ReadResults(c) \/ PollForOutput(c)

Next ==
    \/ \E r \in Runs : RunStep(r)
    \/ /\ \/ \E c \in Calls : Submits(c) \/ JobProceeds(c)
          \/ \E c \in Calls \ Runs : OthersAsk(c)
          \/ \E n \in Names : DefinitionApplied(n)
       /\ UNCHANGED work

Spec == StartWork /\ [][Next]_allVars

-----------------------------------------------------------------------------
(*************************** Properties ************************************)

\* A final status that a client reports is the one the job has on its platform,
\* and an output comes from a statement that ran to its end, or a command that
\* is over.  A FAILED that is an exception is told apart; a SUCCESS never is
\* one.  Fabric's words of success are not taken for an output, nor is the text
\* of a mock client.
AnswersAreTrue ==
    LET c == reply.to
    IN  reply # Nothing =>
            /\ reply.status = "SUCCESS" => job[c].state \in Succeeded
            /\ reply.status = "CANCELLED" => job[c].state = "CANCELLED"
            /\ reply.status = "FAILED" => job[c].state = "FAILED" \/ reply.swallowed
            /\ reply.output /\ call[c].platform = "databricks" =>
                   job[c].state \in IF job[c].api = "command" THEN Over ELSE Succeeded
            /\ reply.error /\ reply.status = "SUCCESS" => job[c].state = "RAISED"

\* No caller is told two different ends of one job, except that a command's
\* status may have been FAILED because a request failed.
NeverTakenBack ==
    \A c \in Calls :
        Cardinality(told[c]) > 1 =>
            /\ job[c].api = "command"
            /\ told[c] \in {{"FAILED", "SUCCESS"}, {"FAILED", "CANCELLED"}}

\* A Fabric job runs the code it was submitted with, unless another submission
\* for the same notebook overlapped this one, or a definition the platform had
\* only accepted was applied late.
RunsItsOwnCode ==
    [][\A c \in Calls :
          job'[c].code \notin {c, Nobody} /\ job[c] = NoJob =>
              /\ call[c].platform = "fabric"
              /\ call[c].shared \/ call[c].unsettled]_allVars

\* Whatever rounds of development, validation and optimization a run goes
\* through, and whatever fails on the way: what it submits is the code that its
\* latest approval request was made for, and if that carries a destructive
\* token or goes to production, the request waits for a human.  (The run does
\* not wait: the graph goes on from APPROVAL_PENDING to DEPLOYING whatever the
\* request says.)
SubmitsWhatWasRequested ==
    [][\A r \in Runs :
          work[r].pc = "DEPLOYING" /\ work'[r].pc = "submitting" =>
              /\ work[r].request.code = work[r].code
              /\ work[r].code.destructive \/ work[r].environment = "PRODUCTION" =>
                     work[r].request.status = "PENDING"]_allVars
=============================================================================
