--------------------------- MODULE ApprovalEngine ---------------------------
(***************************************************************************)
(* One approval request: the engine of safety/approval_engine.py and the   *)
(* routes of api/routes/approvals.py that decide it.                       *)
(*                                                                         *)
(* Every process keeps the records it has seen in a memory cache, and a    *)
(* decision is checked against the cached record, not against the row.     *)
(* The check and the write to the cache are one step, since no await       *)
(* separates them; loading an uncached record is three, with awaits        *)
(* between the SELECT, the write to the cache and the use of the record.   *)
(*                                                                         *)
(* A route that has decided writes the row once more in the transaction of *)
(* its own request and, before that one commits, moves the task.           *)
(*                                                                         *)
(* The task is followed up to the decision.  Who moves it besides the      *)
(* routes is the execution service: the run that asked, and one that       *)
(* resumes once it has read a decision in the row.                         *)
(*                                                                         *)
(* Not modelled: the engine without a database (it then lives from its     *)
(* cache alone), the event store below transition(), see EventStore, what  *)
(* a run does after the decision or when it fails, see ExecutionService,   *)
(* and a user who moves the task by hand, POST /tasks/{id}/transition.     *)
(***************************************************************************)
EXTENDS FiniteSets, Naturals

CONSTANTS
    Engines,        \* processes, each with an ApprovalEngine
    Clients,        \* calls that will be made
    Operations,     \* the operations an approval may be asked for
    MaxRestarts     \* bound on the restarts of processes

Decisions == {"APPROVED", "REJECTED", "EXPIRED"}
Status == Decisions \cup {"PENDING"}
Absent == "ABSENT"
Verdicts == Decisions \cup {"READ"}

OperationTypes ==
    {"read_only", "write", "destructive", "schema_change", "permission_change"}

OperationRequest ==
    [operation_type : OperationTypes, environment : {"SANDBOX", "PRODUCTION"},
     flagged : BOOLEAN]

NoOperation ==
    [operation_type |-> "none", environment |-> "none", flagged |-> FALSE]

ASSUME ApprovalEngineAssumption ==
    /\ Operations \subseteq OperationRequest
    /\ MaxRestarts \in Nat

VARIABLES
    operation,      \* what approval was asked for
    home,           \* the engine that was asked
    resumed,        \* the decision a resumed run has read, if one did
    row,            \* approval_requests.status, Absent before the request
    cache,          \* cache[e]: status of the record in e's memory cache
    task,           \* where the task is, from OPTIMIZED on
    pc,             \* pc[c]: how far call c has come
    engine,         \* engine[c]: the process that serves it
    verdict,        \* verdict[c]: what it is to do
    local,          \* local[c]: status of the record it loaded
    answer,         \* answer[c]: what the caller got
    decided,        \* history: the calls that passed the PENDING check
    overlapped,     \* history: two calls were under way at one time
    restarts        \* history: how many processes were restarted

request == <<operation, home, resumed>>
history == <<overlapped, restarts>>
vars == <<request, row, cache, task, pc, engine, verdict, local, answer,
          decided, history>>

InFlight(c) == pc[c] \notin {"idle", "done"}

\* A policy that takes a schema change for an ordinary write.
RequiresApprovalSaveSchema(op) ==
    \/ op.operation_type \in {"permission_change", "destructive"}
    \/ op.environment = "PRODUCTION" /\ op.operation_type = "write"
    \/ op.flagged

\* _requires_approval, or the safety pipeline asked for a human.
RequiresApproval(op) ==
    \/ op.operation_type \in {"schema_change", "permission_change",
                              "destructive"}
    \/ op.environment = "PRODUCTION" /\ op.operation_type = "write"
    \/ op.flagged

-----------------------------------------------------------------------------
Init ==
    /\ operation = NoOperation
    /\ home \in Engines
    /\ resumed = Absent
    /\ row = Absent
    /\ cache = [e \in Engines |-> Absent]
    /\ task = "OPTIMIZED"
    /\ pc = [c \in Clients |-> "idle"]
    /\ engine = [c \in Clients |-> home]
    /\ verdict = [c \in Clients |-> "READ"]
    /\ local = [c \in Clients |-> "PENDING"]
    /\ answer = [c \in Clients |-> "none"]
    /\ decided = {}
    /\ overlapped = FALSE
    /\ restarts = 0

\* request_approval_async: the record goes into the cache, then into the
\* table.  When the insert fails the id was never made known to anyone.
Request(op) ==
    /\ row = Absent
    /\ LET status == IF RequiresApproval(op) THEN "PENDING" ELSE "APPROVED"
       IN  /\ row' = status
           /\ cache' = [cache EXCEPT ![home] = status]
    /\ operation' = op
    /\ UNCHANGED <<home, resumed, task, pc, engine, verdict, local, answer,
                   decided, history>>

\* _resume_after_approval loads the row; a decision that is neither of the two
\* moves the task nowhere here.
Resume ==
    /\ task \in {"APPROVAL_PENDING", "IN_REVIEW"}
    /\ row \in {"APPROVED", "REJECTED"}
    /\ resumed' = row
    /\ UNCHANGED <<operation, home, row, cache, task, pc, engine, verdict, local,
                   answer, decided, history>>

\* What ExecutionService records: APPROVAL_PENDING once the request is made, and
\* the rest of the way when policy approved it or a resumed run read that it
\* was approved.  The state machine lets a rejection only end a review.
ServiceEdges ==
    {<<"OPTIMIZED", "APPROVAL_PENDING">>}
        \cup (IF RequiresApproval(operation) /\ resumed # "APPROVED" THEN {}
              ELSE {<<"APPROVAL_PENDING", "IN_REVIEW">>,
                    <<"IN_REVIEW", "APPROVED">>})
        \cup (IF resumed = "REJECTED" THEN {<<"IN_REVIEW", "REJECTED">>} ELSE {})

\* A run spells out the state it leaves.  With two runs under way, the one that
\* asked and the resumed one, the task may have left it already.
ServiceAdvances ==
    /\ row # Absent
    /\ \E edge \in ServiceEdges :
          /\ task = edge[1] \/ (resumed # Absent /\ edge[1] # "OPTIMIZED")
          /\ task' = edge[2]
    /\ UNCHANGED <<request, row, cache, pc, engine, verdict, local, answer,
                   decided, history>>

-----------------------------------------------------------------------------
(***************************************************************************)
(* The calls: approve, reject, check_expired, and get_record, which is     *)
(* also what GET /approvals/{id} and enforce_approval do to the state.     *)
(***************************************************************************)
Call(c, e, v) ==
    /\ pc[c] = "idle"
    /\ row # Absent
    /\ pc' = [pc EXCEPT ![c] = "lookup"]
    /\ engine' = [engine EXCEPT ![c] = e]
    /\ verdict' = [verdict EXCEPT ![c] = v]
    /\ overlapped' = (overlapped \/ \E d \in Clients : InFlight(d))
    /\ UNCHANGED <<request, row, cache, task, local, answer, decided, restarts>>

Answer(c, a) ==
    /\ pc' = [pc EXCEPT ![c] = "done"]
    /\ answer' = [answer EXCEPT ![c] = a]

\* A check under which a rejection may still overrule an approval.
CheckLettingRejectOverrule(c, status) ==
    /\ verdict[c] # "READ"
    /\ status = "PENDING" \/ (status = "APPROVED" /\ verdict[c] = "REJECTED")
    /\ cache' = [cache EXCEPT ![engine[c]] = verdict[c]]
    /\ decided' = decided \cup {c}
    /\ pc' = [pc EXCEPT ![c] = "update"]
    /\ UNCHANGED answer

\* if record.status != PENDING: raise ValueError; else the cache is updated.
\* check_expired returns None when the record is not pending, or too young.
Check(c, status) ==
    \/ /\ verdict[c] = "READ"
       /\ Answer(c, "ok")
       /\ UNCHANGED <<cache, decided>>
    \/ /\ verdict[c] # "READ"
       /\ status # "PENDING" \/ verdict[c] = "EXPIRED"
       /\ Answer(c, "refused")
       /\ UNCHANGED <<cache, decided>>
    \/ /\ verdict[c] # "READ" /\ status = "PENDING"
       /\ cache' = [cache EXCEPT ![engine[c]] = verdict[c]]
       /\ decided' = decided \cup {c}
       /\ pc' = [pc EXCEPT ![c] = "update"]
       /\ UNCHANGED answer

\* _get_record finds the record in the cache.
CacheHit(c) ==
    /\ pc[c] = "lookup"
    /\ cache[engine[c]] # Absent
    /\ Check(c, cache[engine[c]])
    /\ UNCHANGED <<request, row, task, engine, verdict, local, history>>

\* _get_record does not, and selects the row ...
Select(c) ==
    /\ pc[c] = "lookup"
    /\ cache[engine[c]] = Absent
    /\ local' = [local EXCEPT ![c] = row]
    /\ pc' = [pc EXCEPT ![c] = "selected"]
    /\ UNCHANGED <<request, row, cache, task, engine, verdict, answer, decided,
                   history>>

\* ... caches what it read, whatever has happened since ...
Fill(c) ==
    /\ pc[c] = "selected"
    /\ cache' = [cache EXCEPT ![engine[c]] = local[c]]
    /\ pc' = [pc EXCEPT ![c] = "loaded"]
    /\ UNCHANGED <<request, row, task, engine, verdict, local, answer, decided,
                   history>>

\* ... and the session is closed before the caller looks at the record.
Loaded(c) ==
    /\ pc[c] = "loaded"
    /\ Check(c, local[c])
    /\ UNCHANGED <<request, row, task, engine, verdict, local, history>>

-----------------------------------------------------------------------------
(***************************************************************************)
(* Writing the decision down.                                              *)
(***************************************************************************)

\* The row is locked by a request that has updated it and not yet committed.
Locked == \E c \in Clients : pc[c] \in {"review", "conclude", "commit"}

\* An expiry that is followed up like a decision of the routes.
UpdateRowAdvancingExpired(c) ==
    /\ pc[c] = "update" /\ ~ Locked
    /\ row' = verdict[c]
    /\ pc' = [pc EXCEPT ![c] = "sync"]
    /\ UNCHANGED <<request, cache, task, engine, verdict, local, answer,
                   decided, history>>

\* The engine's UPDATE, by id and whatever the row says, commits.
UpdateRow(c) ==
    /\ pc[c] = "update" /\ ~ Locked
    /\ row' = verdict[c]
    /\ IF verdict[c] = "EXPIRED"
         THEN Answer(c, "ok")
         ELSE pc' = [pc EXCEPT ![c] = "sync"] /\ UNCHANGED answer
    /\ UNCHANGED <<request, cache, task, engine, verdict, local, decided,
                   history>>

\* It fails and is rolled back.  The cache keeps the decision.
UpdateFails(c) ==
    /\ pc[c] = "update"
    /\ Answer(c, "failed")
    /\ UNCHANGED <<request, row, cache, task, engine, verdict, local, decided,
                   history>>

\* _sync_approval_row: the same UPDATE again, in the transaction of the
\* request, which stays open until the task has been moved.
Sync(c) ==
    /\ pc[c] = "sync" /\ ~ Locked
    /\ pc' = [pc EXCEPT ![c] = "review"]
    /\ UNCHANGED <<request, row, cache, task, engine, verdict, local, answer,
                   decided, history>>

\* _advance_task_for_decision, first half: an InvalidTransitionError passes.
Review(c) ==
    /\ pc[c] = "review"
    /\ task' = IF task = "APPROVAL_PENDING" THEN "IN_REVIEW" ELSE task
    /\ pc' = [pc EXCEPT ![c] = "conclude"]
    /\ UNCHANGED <<request, row, cache, engine, verdict, local, answer, decided,
                   history>>

\* Follow-up that approves whatever the engine's verdict was.
ConcludeApproved(c) ==
    /\ pc[c] = "conclude"
    /\ task' = IF task = "IN_REVIEW" THEN "APPROVED" ELSE task
    /\ pc' = [pc EXCEPT ![c] = "commit"]
    /\ UNCHANGED <<request, row, cache, engine, verdict, local, answer, decided,
                   history>>

\* Second half: the task follows the decision if it is under review.
Conclude(c) ==
    /\ pc[c] = "conclude"
    /\ task' = IF task = "IN_REVIEW" THEN verdict[c] ELSE task
    /\ pc' = [pc EXCEPT ![c] = "commit"]
    /\ UNCHANGED <<request, row, cache, engine, verdict, local, answer, decided,
                   history>>

\* The request is over, and get_session commits.
CommitSync(c) ==
    /\ pc[c] = "commit"
    /\ row' = verdict[c]
    /\ Answer(c, "ok")
    /\ UNCHANGED <<request, cache, task, engine, verdict, local, decided,
                   history>>

\* A database error or LoopDetectedError on the way rolls the sync back; what
\* the engine and transition() committed by themselves stays.
FollowUpFails(c) ==
    /\ pc[c] \in {"sync", "review", "conclude", "commit"}
    /\ Answer(c, "failed")
    /\ UNCHANGED <<request, row, cache, task, engine, verdict, local, decided,
                   history>>

\* A process dies with its cache and its calls, and is started again.
Restart(e) ==
    /\ restarts < MaxRestarts
    /\ row # Absent
    /\ restarts' = restarts + 1
    /\ cache' = [cache EXCEPT ![e] = Absent]
    /\ LET lost == {c \in Clients : InFlight(c) /\ engine[c] = e}
       IN  /\ pc' = [c \in Clients |-> IF c \in lost THEN "done" ELSE pc[c]]
           /\ answer' =
                 [c \in Clients |-> IF c \in lost THEN "failed" ELSE answer[c]]
    /\ UNCHANGED <<request, row, task, engine, verdict, local, decided,
                   overlapped>>

Step(c) ==
    \/ CacheHit(c)
    \/ Select(c)
    \/ Fill(c)
    \/ Loaded(c)
    \/ UpdateRow(c)
    \/ UpdateFails(c)
    \/ Sync(c)
    \/ Review(c)
    \/ Conclude(c)
    \/ CommitSync(c)
    \/ FollowUpFails(c)

Next ==
    \/ \E op \in Operations : Request(op)
    \/ Resume
    \/ ServiceAdvances
    \/ \E c \in Clients, e \in Engines, v \in Verdicts : Call(c, e, v)
    \/ \E c \in Clients : Step(c)
    \/ \E e \in Engines : Restart(e)

Spec == Init /\ [][Next]_vars

-----------------------------------------------------------------------------
(***************************************************************************)
(* Properties.                                                             *)
(***************************************************************************)
TypeOK ==
    /\ operation \in Operations \cup {NoOperation}
    /\ home \in Engines
    /\ resumed \in {"APPROVED", "REJECTED", Absent}
    /\ row \in Status \cup {Absent}
    /\ cache \in [Engines -> Status \cup {Absent}]
    /\ task \in {"OPTIMIZED", "APPROVAL_PENDING", "IN_REVIEW", "APPROVED",
                 "REJECTED"}
    /\ pc \in [Clients -> {"idle", "lookup", "selected", "loaded", "update",
                           "sync", "review", "conclude", "commit", "done"}]
    /\ engine \in [Clients -> Engines]
    /\ verdict \in [Clients -> Verdicts]
    /\ local \in [Clients -> Status]
    /\ answer \in [Clients -> {"none", "ok", "refused", "failed"}]
    /\ decided \subseteq Clients
    /\ overlapped \in BOOLEAN
    /\ restarts \in 0 .. MaxRestarts

\* The rows of the Autonomy Policy Matrix of SYSTEM_CONSTITUTION.md that say
\* YES; a schema or a permission change needs approval in ANY environment.
MatrixDemandsApproval ==
    {<<"SANDBOX", "destructive">>, <<"PRODUCTION", "write">>,
     <<"PRODUCTION", "destructive">>}
        \cup ({"SANDBOX", "PRODUCTION"}
                \X {"schema_change", "permission_change"})

\* INV-01: whatever fails, restarts or overlaps, neither the record nor the
\* task of an operation for which the matrix demands approval, or which the
\* safety pipeline flagged, is approved unless someone's approve call found
\* the record pending.
HumanDecides ==
    (/\ \/ <<operation.environment, operation.operation_type>>
                \in MatrixDemandsApproval
        \/ operation.flagged
     /\ "APPROVED" \in {row, task})
    => \E c \in decided : verdict[c] = "APPROVED"

\* The decisions are made in the process that asked for approval, and either
\* it still runs, or calls never overlap.
OneProcess ==
    /\ \A c \in Clients : engine[c] = home
    /\ restarts = 0 \/ ~ overlapped

\* Then an approval is decided once: one caller at most hears that its
\* decision was taken, and that decision is the one in the table.
DecidedOnceByOneProcess ==
    OneProcess =>
        \A c, d \in decided :
            answer[c] = "ok" =>
                /\ row = verdict[c]
                /\ answer[d] = "ok" => c = d

\* And the task follows the record: it never goes on as approved under a
\* record that says something else, though the two are written in different
\* transactions, any of which may fail.
TaskFollowsRecord ==
    OneProcess /\ task \in {"APPROVED", "REJECTED"} => row = task

\* approve and reject promise a ValueError when the approval is not PENDING:
\* a record that was decided keeps its decision.
DecidedOnce ==
    [][(row \in Decisions) => UNCHANGED row]_vars
=============================================================================
