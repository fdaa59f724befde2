---------------------------- MODULE PlatformJobs ----------------------------
(***************************************************************************)
(* The clients of integrations/databricks_client.py and fabric_client.py:  *)
(* submission of code, status and output of the job that comes of it.      *)
(*                                                                         *)
(* A job is known by the call that submitted it, and so is its code.  What *)
(* a client keeps of a job is in its own memory: who asks another client   *)
(* object (another process, or the same after a restart) asks one that has *)
(* never heard of the job.                                                 *)
(*                                                                         *)
(* Every HTTP request is a suspension.  A request that fails may have      *)
(* reached the platform, and its answer may be lost.                       *)
(*                                                                         *)
(* External: how a job proceeds on its platform.  Bound: MaxPolls for the  *)
(* 120 polls of the Fabric client.  The token of the Fabric client is not  *)
(* modelled: a request with an expired one is a request that fails.        *)
(***************************************************************************)
EXTENDS Naturals, FiniteSets

CONSTANTS
    Calls,          \* submissions, each with what it later asks
    Names,          \* display names of Fabric notebooks
    Settings,       \* which of warehouse and cluster may be configured
    MaxPolls        \* max_polls

ASSUME PlatformJobsAssumption ==
    /\ MaxPolls \in Nat \ {0}
    /\ Settings \subseteq SUBSET {"warehouse", "cluster"}

Platforms == {"databricks", "fabric", "mock"}
Languages == {"python", "sql"}
Nobody == "NOBODY"

\* JobStatus, and what a call gets when a request raises.
JobStatus == {"PENDING", "RUNNING", "SUCCESS", "FAILED", "CANCELLED"}
Final == {"SUCCESS", "FAILED", "CANCELLED"}

\* The states of a job on its platform; RAISED is a command that ended with an
\* error among its results.
Succeeded == {"DONE", "CLOSED", "RAISED", "DEDUPED"}
Over == Succeeded \cup {"FAILED", "CANCELLED"}
JobStates == Over \cup {"NONE", "QUEUED", "RUNNING"}

VARIABLES
    endpoints,      \* warehouse and cluster ids of the settings
    job,            \* job[c]: the job that call c started on a platform
    known,          \* _execution_cache: the calls whose job the client knows
    contexts,       \* the execution contexts created on the cluster
    notebook,       \* Fabric items: what runs, and what waits to be applied
    call,           \* the coroutines
    told,           \* history: the final statuses reported of c's job
    reply           \* what the last step returned, if it did

vars == <<endpoints, job, known, contexts, notebook, call, told, reply>>

NoJob == [api |-> "none", state |-> "NONE", code |-> Nobody]

\* The locals of a call.  seen, swallowed and way are those of an output that
\* has been read half.  shared and unsettled are history: another submission
\* used the notebook meanwhile; a definition was waiting to be applied.
Idle ==
    [pc |-> "idle", platform |-> "none", name |-> Nobody, shared |-> FALSE,
     unsettled |-> FALSE, way |-> "none", seen |-> "none",
     swallowed |-> FALSE, polls |-> 0]

\* JobResult and the bare status; swallowed says that an exception was turned
\* into a status.
Answer(c, status, output, error, swallowed) ==
    [to |-> c, status |-> status, output |-> output, error |-> error,
     swallowed |-> swallowed]

Nothing == Answer(Nobody, "none", FALSE, FALSE, FALSE)

Init ==
    /\ endpoints \in Settings
    /\ job = [c \in Calls |-> NoJob]
    /\ known = {}
    /\ contexts = {}
    /\ notebook = [n \in Names |->
                      [exists |-> FALSE, code |-> Nobody, pending |-> {}]]
    /\ call = [c \in Calls |-> Idle]
    /\ told = [c \in Calls |-> {}]
    /\ reply = Nothing

Moves(c, pc) == call' = [call EXCEPT ![c].pc = pc]

Silently == reply' = Nothing /\ UNCHANGED <<told, endpoints>>

Replies(c, answer) ==
    /\ reply' = answer
    /\ told' = [told EXCEPT ![c] = @ \cup ({answer.status} \cap Final)]
    /\ UNCHANGED endpoints

Starts(c, api, code) ==
    job' = [job EXCEPT ![c] = [api |-> api, state |-> "QUEUED", code |-> code]]

Submitting == {"statement", "context", "create", "find", "update", "run"}

\* The submissions that have to do with this notebook at the moment.
Rivals(c, name) ==
    {d \in Calls \ {c} : call[d].pc \in Submitting /\ call[d].name = name}

-----------------------------------------------------------------------------
(************************** Submission *************************************)

\* submit_job of the three clients, to the first request: _submit_sql wants a
\* warehouse, _submit_python prefers it to the cluster, and without either
\* both raise, as _validate_environment does for an unknown environment.
Route(platform, language, env) ==
    CASE ~ env -> "ended"
      [] platform = "fabric" -> "create"
      [] platform = "mock" -> "holding"
      [] "warehouse" \in endpoints -> "statement"
      [] language = "python" /\ "cluster" \in endpoints -> "context"
      [] OTHER -> "ended"

Submit(c, platform, language, name, env) ==
    LET pc == Route(platform, language, env)
        rivals == IF pc = "create" THEN Rivals(c, name) ELSE {}
        mine == [Idle EXCEPT !.pc = pc, !.platform = platform,
                             !.name = IF pc = "create" THEN name ELSE Nobody]
    IN  /\ call' = [d \in Calls |->
               IF d = c THEN [mine EXCEPT !.shared = rivals # {}]
               ELSE IF d \in rivals THEN [call[d] EXCEPT !.shared = TRUE]
               ELSE call[d]]
        /\ CASE pc = "statement" -> Starts(c, "statement", c)
             [] pc = "holding" -> Starts(c, "mock", c)
             [] OTHER -> UNCHANGED job
        /\ known' = IF pc = "holding" THEN known \cup {c} ELSE known
        /\ Silently /\ UNCHANGED <<contexts, notebook>>

Begin(c) ==
    /\ call[c].pc = "idle"
    /\ \E p \in Platforms, l \in Languages, env \in BOOLEAN :
          IF p = "fabric"
          THEN \E n \in Names : Submit(c, p, l, n, env)
          ELSE Submit(c, p, l, Nobody, env)

\* execute_statement comes back within wait_timeout: the statement is over, or
\* the platform cancels it.
StatementReturns(c) ==
    /\ call[c].pc = "statement"
    /\ job' = IF job[c].state \in Over THEN job
              ELSE [job EXCEPT ![c].state = "CANCELLED"]
    /\ known' = known \cup {c}
    /\ Moves(c, "holding")
    /\ Silently /\ UNCHANGED <<contexts, notebook>>

\* _submit_python_via_cluster: a context, then a command in it.
CreateContext(c) ==
    /\ call[c].pc = "context" /\ c \notin contexts
    /\ contexts' = contexts \cup {c}
    /\ Silently /\ UNCHANGED <<job, known, notebook, call>>

ExecuteCommand(c) ==
    /\ call[c].pc = "context" /\ c \in contexts
    /\ Starts(c, "command", c)
    /\ known' = known \cup {c}
    /\ Moves(c, "holding")
    /\ Silently /\ UNCHANGED <<contexts, notebook>>

\* _create_notebook_item: created; accepted, with no id in the body; or a name
\* that is taken (409).
CreateNotebook(c) ==
    /\ call[c].pc = "create"
    /\ LET n == call[c].name
       IN  \/ /\ notebook[n].exists
              /\ Moves(c, "find") /\ UNCHANGED notebook
           \/ /\ ~ notebook[n].exists
              /\ notebook' = [notebook EXCEPT ![n].exists = TRUE]
              /\ \E id \in BOOLEAN : Moves(c, IF id THEN "update" ELSE "no id")
    /\ Silently /\ UNCHANGED <<job, known, contexts>>

\* A search that is content with the notebook as it is.
FindNotebookToRun(c) ==
    /\ call[c].pc = "find"
    /\ Moves(c, "run")
    /\ Silently /\ UNCHANGED <<job, known, contexts, notebook>>

\* _find_item_by_name
FindNotebook(c) ==
    /\ call[c].pc = "find"
    /\ Moves(c, "update")
    /\ Silently /\ UNCHANGED <<job, known, contexts, notebook>>

\* _update_notebook_content: done (200) or only accepted (202).
UpdateNotebook(c) ==
    /\ call[c].pc = "update"
    /\ \E accepted \in BOOLEAN :
          /\ notebook' =
                IF accepted
                THEN [notebook EXCEPT ![call[c].name].pending = @ \cup {c}]
                ELSE [notebook EXCEPT ![call[c].name].code = c]
          /\ call' = [call EXCEPT ![c].pc = "run",
                 ![c].unsettled = accepted \/ notebook[call[c].name].pending # {}]
    /\ Silently /\ UNCHANGED <<job, known, contexts>>

\* _run_on_demand: the job runs what is in the notebook.  Without an id in
\* header and body the client makes one up that the platform has never heard.
RunNotebook(c) ==
    /\ call[c].pc = "run"
    /\ Starts(c, "notebook", notebook[call[c].name].code)
    /\ known' = known \cup {c}
    /\ \E id \in BOOLEAN :
          call' = [call EXCEPT ![c] = [Idle EXCEPT
                      !.pc = IF id THEN "holding" ELSE "stray",
                      !.platform = "fabric"]]
    /\ Silently /\ UNCHANGED <<contexts, notebook>>

\* Any request of a submission may fail, before or after it took effect; one
\* that goes to an item without an id always does.
SubmissionFails(c) ==
    /\ call[c].pc \in Submitting \cup {"no id"}
    /\ \/ UNCHANGED <<job, contexts, notebook>>
       \/ /\ call[c].pc = "statement" /\ job[c].state = "QUEUED"
          /\ job' = [job EXCEPT ![c] = NoJob]
          /\ UNCHANGED <<contexts, notebook>>
       \/ /\ call[c].pc = "context"
          /\ IF c \in contexts
             THEN Starts(c, "command", c) /\ UNCHANGED contexts
             ELSE contexts' = contexts \cup {c} /\ UNCHANGED job
          /\ UNCHANGED notebook
       \/ /\ call[c].pc = "create"
          /\ notebook' = [notebook EXCEPT ![call[c].name].exists = TRUE]
          /\ UNCHANGED <<job, contexts>>
       \/ /\ call[c].pc = "update"
          /\ \/ notebook' = [notebook EXCEPT ![call[c].name].code = c]
             \/ notebook' = [notebook EXCEPT ![call[c].name].pending = @ \cup {c}]
          /\ UNCHANGED <<job, contexts>>
       \/ /\ call[c].pc = "run"
          /\ Starts(c, "notebook", notebook[call[c].name].code)
          /\ UNCHANGED <<contexts, notebook>>
    /\ call' = [call EXCEPT ![c] = [Idle EXCEPT !.pc = "ended"]]
    /\ Silently /\ UNCHANGED known

-----------------------------------------------------------------------------
(*************************** The platforms *********************************)

\* How a job may go on: commands can be cancelled or raise, a statement's
\* result can be closed, a notebook's run can be deduplicated.
Follows(c) ==
    CASE job[c].state = "QUEUED" ->
             {"RUNNING", "CANCELLED"} \cup
             (IF job[c].api = "notebook" THEN {"DEDUPED"} ELSE {})
      [] job[c].state = "RUNNING" ->
             {"DONE", "FAILED", "CANCELLED"} \cup
             (IF job[c].api = "command" THEN {"RAISED"} ELSE {})
      [] job[c].state = "DONE" /\ job[c].api = "statement" -> {"CLOSED"}
      [] OTHER -> {}

JobProceeds(c) ==
    /\ job[c].api # "mock"
    /\ \E s \in Follows(c) : job' = [job EXCEPT ![c].state = s]
    /\ Silently /\ UNCHANGED <<known, contexts, notebook, call>>

\* A definition that was only accepted takes effect, in no order.
DefinitionApplied(n) ==
    /\ \E c \in notebook[n].pending :
          notebook' = [notebook EXCEPT ![n].code = c, ![n].pending = @ \ {c}]
    /\ Silently /\ UNCHANGED <<job, known, contexts, call>>

-----------------------------------------------------------------------------
(************************* Status and output *******************************)

\* Maps that take a state they do not know for the end.
StatusOfUnknown(state) ==
    CASE state = "FAILED" -> "FAILED"
      [] state = "CANCELLED" -> "CANCELLED"
      [] state = "RUNNING" -> "RUNNING"
      [] OTHER -> "SUCCESS"

\* The maps of statement, command and run states; all three take a state they
\* do not know for PENDING.
StatusOf(state) ==
    CASE state \in Succeeded -> "SUCCESS"
      [] state = "FAILED" -> "FAILED"
      [] state = "CANCELLED" -> "CANCELLED"
      [] state = "RUNNING" -> "RUNNING"
      [] OTHER -> "PENDING"

\* get_job_status and get_job_output dispatch by the cached language and
\* cluster; a job that is not cached counts as a SQL statement.
Way(c, entry) ==
    CASE call[c].platform = "fabric" /\ ~ entry -> "raises"
      [] call[c].platform = "fabric" -> "notebook"
      [] call[c].platform = "mock" -> IF entry THEN "mock" ELSE "raises"
      [] OTHER -> IF entry /\ job[c].api = "command" THEN "command"
                  ELSE "statement"

\* Whether the platform has such a job under the id the call holds.
Found(c, way) == job[c].api = way /\ call[c].pc # "stray"

Asks(c) == call[c].pc \in {"holding", "stray"}

\* Statuses that turn every exception into FAILED.
ReadingsSwallowing(c, entry) ==
    {Answer(c, "FAILED", FALSE, FALSE, TRUE)} \cup
    (IF Found(c, Way(c, entry))
     THEN {Answer(c, StatusOf(job[c].state), FALSE, FALSE, FALSE)} ELSE {})

\* What a call that asks through a client with or without the entry may read.
\* Only the commands' status turns an exception into FAILED.
Readings(c, entry) ==
    LET way == Way(c, entry)
        fails == CASE way = "command" -> {Answer(c, "FAILED", FALSE, FALSE, TRUE)}
                   [] way = "mock" -> {}
                   [] OTHER -> {Answer(c, "raised", FALSE, FALSE, FALSE)}
    IN  fails \cup
        (IF Found(c, way)
         THEN {Answer(c, StatusOf(job[c].state), FALSE, FALSE, FALSE)} ELSE {})

GetJobStatus(c) ==
    /\ Asks(c) /\ call[c].platform # "mock"
    /\ \E entry \in BOOLEAN :
          /\ entry => c \in known
          /\ \E answer \in Readings(c, entry) : Replies(c, answer)
    /\ UNCHANGED <<job, known, contexts, notebook, call>>

\* What default_status makes of a mock job.
Settled(status) ==
    CASE status = "SUCCESS" -> "DONE"
      [] status = "PENDING" -> "QUEUED"
      [] OTHER -> status

\* The mock clients: a question makes a pending job what the client was told to
\* make of it, which may be anything.  get_job_output asks for the status
\* first, and has an output for every one but FAILED.
GetMockStatus(c) ==
    /\ Asks(c) /\ call[c].platform = "mock"
    /\ \E default \in JobStatus, output \in BOOLEAN :
          LET s == Settled(default)
          IN  /\ job[c].state = "QUEUED" \/ s = job[c].state
              /\ job' = [job EXCEPT ![c].state = s]
              /\ Replies(c, Answer(c, StatusOf(s), output /\ s # "FAILED",
                                   output /\ s = "FAILED", FALSE))
    /\ UNCHANGED <<known, contexts, notebook, call>>

\* get_job_output of the Databricks client reads the job twice: its status ...
AskForOutput(c) ==
    /\ Asks(c) /\ call[c].platform = "databricks"
    /\ \E entry \in BOOLEAN :
          /\ entry => c \in known
          /\ \E first \in Readings(c, entry) :
             IF first.status = "raised"
             THEN Replies(c, first) /\ UNCHANGED call
             ELSE /\ call' = [call EXCEPT
                        ![c].pc = "reading", ![c].seen = first.status,
                        ![c].way = Way(c, entry), ![c].swallowed = first.swallowed]
                  /\ Silently
    /\ UNCHANGED <<job, known, contexts, notebook>>

\* ... and its results, with whatever has changed in between.  The output of a
\* command is what its results hold, whatever its status.  External: a command
\* that is over may have results, and one that raised does.  A failure to get
\* the results of a successful command is an output, too.
ReadCommand(c) ==
    LET seen == call[c].seen
        raised == job[c].state = "RAISED"
    IN  \/ \E results \in BOOLEAN, output \in BOOLEAN :
              /\ raised => results
              /\ results \/ output => job[c].state \in Over
              /\ Replies(c, Answer(c, seen, output,
                                   raised \/ (seen = "FAILED" /\ ~ results),
                                   call[c].swallowed))
        \/ Replies(c, Answer(c, seen, seen = "SUCCESS", seen # "SUCCESS", TRUE))

\* The error of a statement depends on the status read first, and so does
\* whether it has an output.
ReadStatement(c) ==
    LET failed == call[c].seen = "FAILED"
    IN  \/ Replies(c, Answer(c, call[c].seen, ~ failed /\ job[c].state = "DONE",
                             failed, FALSE))
        \/ Replies(c, Answer(c, "raised", FALSE, FALSE, FALSE))

ReadResults(c) ==
    /\ call[c].pc = "reading"
    /\ IF call[c].way = "command" THEN ReadCommand(c) ELSE ReadStatement(c)
    /\ call' = [call EXCEPT ![c].pc = "holding", ![c].seen = "none",
                            ![c].way = "none", ![c].swallowed = FALSE]
    /\ UNCHANGED <<job, known, contexts, notebook>>

\* get_job_output of the Fabric client polls until the run is over or it has
\* polled often enough.  Every status but FAILED comes with the words "executed
\* successfully".
PollForOutput(c) ==
    /\ Asks(c) \/ call[c].pc = "polling"
    /\ call[c].platform = "fabric" /\ c \in known
    /\ LET status == StatusOf(job[c].state)
           stray == call[c].pc = "stray" \/ job[c].api # "notebook"
           over == status \in Final \/ call[c].polls + 1 = MaxPolls
           back == [call EXCEPT ![c].pc = IF stray THEN "stray" ELSE "holding",
                                ![c].polls = 0]
       IN  \/ /\ Replies(c, Answer(c, "raised", FALSE, FALSE, FALSE))
              /\ call' = back
           \/ /\ ~ stray /\ over
              /\ Replies(c, Answer(c, status, status # "FAILED",
                                   status = "FAILED", FALSE))
              /\ call' = back
           \/ /\ ~ stray /\ ~ over
              /\ call' = [call EXCEPT ![c].pc = "polling", ![c].polls = @ + 1]
              /\ Silently
    /\ UNCHANGED <<job, known, contexts, notebook>>
=============================================================================
