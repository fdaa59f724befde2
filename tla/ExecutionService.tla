-------------------------- MODULE ExecutionService --------------------------
(***************************************************************************)
(* services/execution.py, for one task: any number of execute_task calls,  *)
(* each driving the task from SUBMITTED to its approval request, or        *)
(* resuming it after the approval was decided; with the users who decide   *)
(* approvals, edit artifacts and move the task by hand meanwhile, and with *)
(* failures of any step.                                                   *)
(*                                                                         *)
(* A call believes to know the task's state: every transition it records   *)
(* spells out its from_state, and record_transition checks that pair alone *)
(* and never the state the task is really in.  at[w] is the state worker w *)
(* believes in, and next[w] is the state it records next, or the work it   *)
(* does first.                                                             *)
(*                                                                         *)
(* A user's decision is several steps too: the row of the approval, then   *)
(* two transitions of the task, each recorded after the state was read.    *)
(* Nothing keeps a call from going on under a decision half way.           *)
(*                                                                         *)
(* Not modelled: the text of code and reports (a code is known by the run  *)
(* and the stage that made it), the caches of the approval engine          *)
(* (ApprovalEngine; here a cached record is as old as can be) and the      *)
(* inside of record_transition (EventStore).                               *)
(***************************************************************************)
EXTENDS TaskStates, Naturals, Sequences, SequencesExt

CONSTANTS
    Workers,        \* concurrent calls of execute_task
    Deciders,       \* concurrent requests that decide approvals
    Kinds,          \* which kinds of task there are, a subset of TaskKind
    MaxCalls,       \* bound on the calls
    MaxMishaps      \* bound on failed steps, crashes, edited artifacts,
                    \* transitions by hand, overlaps, decisions overturned
                    \* and states written over, all together

TaskKind == {"developer", "capability", "direct"}

ASSUME ExecutionServiceAssumption ==
    /\ Kinds \subseteq TaskKind
    /\ {MaxCalls, MaxMishaps} \subseteq Nat

Calls == 1 .. MaxCalls
NoCall == 0

\* A code, named by the call that made it and the stage it left.
Code == [run : Calls, stage : {"generated", "optimized"}] \cup
        [run : {NoCall}, stage : {"none", "edited"}]

NoCode == [run |-> NoCall, stage |-> "none"]
EditedCode == [run |-> NoCall, stage |-> "edited"]

VARIABLES
    kind,           \* what the task's text and metadata make of it
    current_state,  \* tasks.current_state, and what replay() gives
    artifacts,      \* the generated_code and optimized_code rows, by age
    approval,       \* approval[r]: status of the request that call r made
    sensitive,      \* the calls whose code needs a human's approval
    granted,        \* history: the requests that were ever APPROVED
    approval_id,    \* task.metadata["approval_id"], as the call that made it
    deployments,    \* the jobs submitted, each with code and approval
    touched,        \* the calls whose agent executed on the platform
    step,           \* step[d]: how far the route of a decision is
    request,        \* request[d]: the approval that it decides
    verdict,        \* verdict[d]: how
    validated,      \* the codes that passed the safety analysis
    mode,           \* mode[w]: fresh run, direct, resumed or cleaning up
    run,            \* run[w]: which call it is
    at,             \* at[w]: the state it believes the task is in
    next,           \* next[w]: what it does next
    link,           \* link[w]: the approval it loaded or requested
    code,           \* code[w]: the code in its hands
    calls,          \* history: calls so far
    faults,         \* history: failed steps and crashes so far
    edits,          \* history: artifacts edited so far
    manual,         \* history: transitions by hand so far
    overlaps,       \* history: calls that began while another was under way
    overturned,     \* history: decisions of what was decided already
    lost            \* history: states that a decision's route wrote over

database == <<current_state, artifacts, approval, granted, approval_id>>
routes == <<step, request, verdict>>
outside == <<deployments, touched, step, request, verdict>>
local == <<mode, run, at, next, link, code>>
history == <<calls, faults, edits, manual, overlaps, overturned, lost>>
world == <<kind, sensitive, validated, database, outside, history>>
vars == <<world, local>>

Absent == "ABSENT"
Reviewing == {"APPROVAL_PENDING", "IN_REVIEW", "APPROVED"}
Busy(w) == at[w] # "idle"
MoreMishaps ==
    faults + edits + manual + overlaps + overturned + lost < MaxMishaps

Init ==
    /\ kind \in Kinds
    /\ current_state = "SUBMITTED"
    /\ artifacts = <<>>
    /\ approval = [r \in Calls |-> Absent]
    /\ sensitive = {}
    /\ granted = {}
    /\ approval_id = NoCall
    /\ deployments = <<>>
    /\ touched = {}
    /\ step = [d \in Deciders |-> "idle"]
    /\ request = [d \in Deciders |-> NoCall]
    /\ verdict = [d \in Deciders |-> "NONE"]
    /\ validated = {}
    /\ mode = [w \in Workers |-> "fresh"]
    /\ run = [w \in Workers |-> NoCall]
    /\ at = [w \in Workers |-> "idle"]
    /\ next = [w \in Workers |-> "return"]
    /\ link = [w \in Workers |-> NoCall]
    /\ code = [w \in Workers |-> NoCode]
    /\ calls = 0
    /\ faults = 0 /\ edits = 0 /\ manual = 0
    /\ overlaps = 0 /\ overturned = 0 /\ lost = 0

-----------------------------------------------------------------------------
(***************************************************************************)
(* The course of a call.                                                   *)
(***************************************************************************)
Pipeline ==
    <<"SUBMITTED", "PARSING", "PARSED", "PLANNING", "PLANNED",
      "AGENT_ASSIGNMENT", "AGENT_ASSIGNED", "IN_DEVELOPMENT",
      "CODE_GENERATED", "IN_VALIDATION", "VALIDATION_PASSED",
      "OPTIMIZATION_PENDING", "IN_OPTIMIZATION", "OPTIMIZED",
      "APPROVAL_PENDING", "IN_REVIEW", "APPROVED", "DEPLOYING", "DEPLOYED",
      "COMPLETED">>

\* The state that follows s when all goes well.
Successor(s) ==
    Pipeline[1 + CHOOSE i \in DOMAIN Pipeline : Pipeline[i] = s]

\* The states in which a call does something before it moves on.
WorkStates(m) ==
    CASE m = "fresh"   -> {"IN_DEVELOPMENT", "IN_VALIDATION",
                           "IN_OPTIMIZATION", "OPTIMIZED",
                           "APPROVAL_PENDING", "DEPLOYING"}
      [] m = "resumed" -> {"APPROVED", "DEPLOYING"}
      [] OTHER         -> {}

\* What a call does once it has recorded s.
After(m, s) ==
    IF \/ m \in {"cleanup", "direct_cleanup"}
       \/ s \notin ToSet(Front(Pipeline))
      THEN "return"
      ELSE IF s \in WorkStates(m) THEN "work" ELSE Successor(s)

Does(w, state, work) == at[w] = state /\ next[w] = work

Go(w, n) == next' = [next EXCEPT ![w] = n]

\* A step that does nothing but decide what comes next.
Turn(w, n) == Go(w, n) /\ UNCHANGED <<world, mode, run, at, link, code>>

\* execute_task: load the task, resume it if it is past its approval request,
\* start from SUBMITTED otherwise, whatever its state is.
Begin(w) ==
    /\ ~ Busy(w)
    /\ calls < MaxCalls
    /\ calls' = calls + 1
    /\ IF \E v \in Workers : Busy(v)
         THEN MoreMishaps /\ overlaps' = overlaps + 1
         ELSE UNCHANGED overlaps
    /\ run' = [run EXCEPT ![w] = calls + 1]
    /\ IF current_state \in Reviewing
         THEN /\ mode' = [mode EXCEPT ![w] = "resumed"]
              /\ at' = [at EXCEPT ![w] = current_state]
              /\ link' = [link EXCEPT ![w] = approval_id]
              /\ Go(w, "gate")
         ELSE /\ mode' = [mode EXCEPT ![w] = "fresh"]
              /\ at' = [at EXCEPT ![w] = "SUBMITTED"]
              /\ Go(w, "PARSING")
              /\ UNCHANGED link
    /\ UNCHANGED <<kind, sensitive, validated, database, outside, code,
                   faults, edits, manual, overturned, lost>>

\* The call is over, and its local variables are gone.
Vanish(w) ==
    /\ mode' = [mode EXCEPT ![w] = "fresh"]
    /\ run' = [run EXCEPT ![w] = NoCall]
    /\ at' = [at EXCEPT ![w] = "idle"]
    /\ next' = [next EXCEPT ![w] = "return"]
    /\ link' = [link EXCEPT ![w] = NoCall]
    /\ code' = [code EXCEPT ![w] = NoCode]

Return(w) ==
    /\ Busy(w) /\ next[w] = "return"
    /\ Vanish(w)
    /\ UNCHANGED world

\* _transition: the pair is on the whitelist, and it is recorded.
Record(w) ==
    /\ <<at[w], next[w]>> \in VALID_TRANSITIONS
    /\ current_state' = next[w]
    /\ at' = [at EXCEPT ![w] = next[w]]
    /\ Go(w, After(mode[w], next[w]))
    /\ UNCHANGED <<kind, sensitive, validated, artifacts, approval, granted,
                   approval_id, outside, mode, run, link, code, history>>

\* It is not, and record_transition raises InvalidTransitionError.
RecordRefused(w) ==
    /\ next[w] \in TaskState
    /\ <<at[w], next[w]>> \notin VALID_TRANSITIONS
    /\ Turn(w, "handler")

-----------------------------------------------------------------------------
(***************************************************************************)
(* The work of a call in the states where it has some.                     *)
(***************************************************************************)

\* A read or listing is executed at once; the rest of the way is formal.
ExecuteDirect(w) ==
    /\ Does(w, "IN_DEVELOPMENT", "work") /\ kind = "direct"
    /\ mode' = [mode EXCEPT ![w] = "direct"]
    /\ Go(w, "CODE_GENERATED")
    /\ UNCHANGED <<world, run, at, link, code>>

\* Code is generated, with or without what a human has to approve in it.  A
\* capability agent has a platform adapter, and executes what it generated
\* before it returns.  (One without, of a generate_only task, is a developer.)
Develop(w) ==
    /\ Does(w, "IN_DEVELOPMENT", "work") /\ kind # "direct"
    /\ code' = [code EXCEPT ![w] = [run |-> run[w], stage |-> "generated"]]
    /\ sensitive' \in {sensitive, sensitive \cup {run[w]}}
    /\ touched' = IF kind = "capability" THEN touched \cup {run[w]} ELSE touched
    /\ Go(w, "store")
    /\ UNCHANGED <<kind, validated, database, deployments, routes, mode, run, at,
                   link, history>>

\* The agent reports failure, maybe after it has executed something.
AgentFails(w) ==
    /\ Does(w, "IN_DEVELOPMENT", "work") /\ kind = "capability"
    /\ touched' \in {touched, touched \cup {run[w]}}
    /\ Go(w, "handler")
    /\ UNCHANGED <<kind, sensitive, validated, database, deployments, routes, mode,
                   run, at, link, code, history>>

\* _store_artifact of generated_code or optimized_code.
Store(w) ==
    /\ next[w] = "store"
    /\ artifacts' = Append(artifacts, code[w])
    /\ Go(w, Successor(at[w]))
    /\ UNCHANGED <<kind, sensitive, validated, current_state, approval, granted,
                   approval_id, outside, mode, run, at, link, code, history>>

\* The verdict of the safety analysis is stored and not looked at.
ValidateIgnoringVerdict(w) ==
    /\ Does(w, "IN_VALIDATION", "work")
    /\ Go(w, "VALIDATION_PASSED")
    /\ validated' \in {validated, validated \cup {code[w]}}
    /\ UNCHANGED <<kind, sensitive, database, outside, mode, run, at, link, code,
                   history>>

\* The safety analysis of the generated code.
Validate(w) ==
    /\ Does(w, "IN_VALIDATION", "work")
    /\ \/ Go(w, "VALIDATION_PASSED") /\ validated' = validated \cup {code[w]}
       \/ Go(w, "VALIDATION_FAILED") /\ UNCHANGED validated
    /\ UNCHANGED <<kind, sensitive, database, outside, mode, run, at, link, code,
                   history>>

\* The optimization agent returns other code, or fails and changes nothing.
Optimize(w) ==
    /\ Does(w, "IN_OPTIMIZATION", "work")
    /\ \E c \in {code[w], [run |-> run[w], stage |-> "optimized"]} :
          code' = [code EXCEPT ![w] = c]
    /\ Go(w, "store")
    /\ UNCHANGED <<world, mode, run, at, link>>

\* request_approval_async: the request is visible from here on.
RequestApproval(w) ==
    /\ Does(w, "OPTIMIZED", "work")
    /\ approval' = [approval EXCEPT ![run[w]] =
                      IF run[w] \in sensitive THEN "PENDING" ELSE "APPROVED"]
    /\ granted' = IF run[w] \in sensitive THEN granted ELSE granted \cup {run[w]}
    /\ link' = [link EXCEPT ![w] = run[w]]
    /\ Go(w, "link")
    /\ UNCHANGED <<kind, sensitive, validated, current_state, artifacts,
                   approval_id, outside, mode, run, at, code, history>>

\* The explanation is stored, and task and approval refer to it.
LinkApproval(w) ==
    /\ next[w] = "link"
    /\ approval_id' = link[w]
    /\ Go(w, "APPROVAL_PENDING")
    /\ UNCHANGED <<kind, sensitive, validated, current_state, artifacts, approval,
                   granted, outside, mode, run, at, link, code, history>>

\* The record that request_approval_async returned was PENDING, or approved
\* by policy: the call looks at its own copy, not at the row.
Gate(w) ==
    /\ Does(w, "APPROVAL_PENDING", "work")
    /\ Turn(w, IF run[w] \in sensitive THEN "return" ELSE "IN_REVIEW")

\* A resumed call for which anything decided is good enough.
GateLettingExpiredPass(w) ==
    /\ next[w] = "gate"
    /\ Turn(w, IF link[w] = NoCall THEN "handler"
             ELSE IF approval[link[w]] = "PENDING" THEN "return"
             ELSE IF approval[link[w]] = "REJECTED" THEN "REJECTED"
             ELSE IF at[w] = "APPROVED" THEN "work" ELSE Successor(at[w]))

\* _resume_after_approval: no approval_id in the metadata, or an expired
\* approval, raises; a pending one returns; a rejected one is recorded, which
\* the whitelist only allows from IN_REVIEW.
GateResumed(w) ==
    /\ next[w] = "gate"
    /\ Turn(w, IF link[w] = NoCall THEN "handler"
             ELSE IF approval[link[w]] = "PENDING" THEN "return"
             ELSE IF approval[link[w]] = "REJECTED" THEN "REJECTED"
             ELSE IF approval[link[w]] = "EXPIRED" THEN "handler"
             ELSE IF at[w] = "APPROVED" THEN "work" ELSE Successor(at[w]))

\* The query ordered the other way round.
LoadOldest(w) ==
    /\ mode[w] = "resumed" /\ Does(w, "APPROVED", "work")
    /\ IF artifacts = <<>>
         THEN Go(w, "handler") /\ UNCHANGED code
         ELSE Go(w, "DEPLOYING") /\ code' = [code EXCEPT ![w] = Head(artifacts)]
    /\ UNCHANGED <<world, mode, run, at, link>>

\* _load_latest_code_artifact: whatever was stored last, by whomever.
LoadLatest(w) ==
    /\ mode[w] = "resumed" /\ Does(w, "APPROVED", "work")
    /\ IF artifacts = <<>>
         THEN Go(w, "handler") /\ UNCHANGED code
         ELSE Go(w, "DEPLOYING") /\ code' = [code EXCEPT ![w] = Last(artifacts)]
    /\ UNCHANGED <<world, mode, run, at, link>>

\* submit_job is accepted ...
Submit(w) ==
    /\ Does(w, "DEPLOYING", "work")
    /\ deployments' = Append(deployments,
                             [code |-> code[w], approval |-> link[w]])
    /\ Go(w, "await")
    /\ UNCHANGED <<kind, sensitive, validated, database, touched, routes, mode, run,
                   at, link, code, history>>

\* ... or raises, which counts as a failed job.
SubmitFails(w) ==
    /\ Does(w, "DEPLOYING", "work")
    /\ Turn(w, "DEV_FAILED")

\* A wait that submits the job again when it seems to have failed.
AwaitRetrying(w) ==
    /\ next[w] = "await"
    /\ \E n \in {"DEPLOYED", "DEV_FAILED", "work"} : Turn(w, n)

\* Status and output of the job are read once.  Everything but SUCCESS, a job
\* that is still running included, is taken for a failure.
Await(w) ==
    /\ next[w] = "await"
    /\ \E n \in {"DEPLOYED", "DEV_FAILED"} : Turn(w, n)

-----------------------------------------------------------------------------
(***************************************************************************)
(* Failures.                                                               *)
(***************************************************************************)

\* A handler that only knows how to cancel.
HandleByCancelling(w) ==
    /\ next[w] = "handler" /\ mode[w] # "direct"
    /\ at' = [at EXCEPT ![w] = current_state]
    /\ mode' = [mode EXCEPT ![w] = "cleanup"]
    /\ Go(w, IF <<current_state, "CANCELLED">> \in VALID_TRANSITIONS
               THEN "CANCELLED" ELSE "return")
    /\ UNCHANGED <<world, run, link, code>>

\* The except clauses of execute_task: replay, then CANCELLED if the state
\* allows it, else DEV_FAILED if it allows that, else nothing.
Handle(w) ==
    /\ next[w] = "handler" /\ mode[w] # "direct"
    /\ at' = [at EXCEPT ![w] = current_state]
    /\ mode' = [mode EXCEPT ![w] = "cleanup"]
    /\ Go(w, IF <<current_state, "CANCELLED">> \in VALID_TRANSITIONS
               THEN "CANCELLED"
             ELSE IF <<current_state, "DEV_FAILED">> \in VALID_TRANSITIONS
               THEN "DEV_FAILED" ELSE "return")
    /\ UNCHANGED <<world, run, link, code>>

\* Those of _execute_direct_operation only try DEV_FAILED.
HandleDirect(w) ==
    /\ next[w] = "handler" /\ mode[w] = "direct"
    /\ at' = [at EXCEPT ![w] = current_state]
    /\ mode' = [mode EXCEPT ![w] = "direct_cleanup"]
    /\ Go(w, IF <<current_state, "DEV_FAILED">> \in VALID_TRANSITIONS
               THEN "DEV_FAILED" ELSE "return")
    /\ UNCHANGED <<world, run, link, code>>

Fault ==
    /\ MoreMishaps
    /\ faults' = faults + 1
    /\ UNCHANGED <<kind, sensitive, validated, database, outside, calls, edits,
                   manual, overlaps, overturned, lost>>

\* The step fails: a database or network error is raised.  The handlers of
\* execute_task swallow what goes wrong in them, those of a direct operation
\* do not.
Fail(w) ==
    /\ Busy(w) /\ next[w] # "return"
    /\ Fault
    /\ LET inHandler == mode[w] \in {"cleanup", "direct_cleanup"}
                           \/ next[w] = "handler"
           direct    == mode[w] \in {"direct", "direct_cleanup"}
       IN  /\ Go(w, IF inHandler /\ ~ direct THEN "return" ELSE "handler")
           /\ mode' = [mode EXCEPT ![w] =
                         IF inHandler /\ direct THEN "fresh" ELSE @]
    /\ UNCHANGED <<run, at, link, code>>

\* The process dies, and nothing but the database remains.
Crash(w) ==
    /\ Busy(w)
    /\ Fault
    /\ Vanish(w)

-----------------------------------------------------------------------------
(***************************************************************************)
(* The users.                                                              *)
(***************************************************************************)

\* A request that has updated the row and not yet committed has it locked.
Locked(r) == \E d \in Deciders : request[d] = r /\ step[d] \notin {"idle", "sync"}

\* The row is decided as v.  An approval or rejection goes on in its route.
Decision(d, r, v) ==
    /\ step[d] = "idle" /\ ~ Locked(r)
    /\ IF approval[r] = "PENDING" THEN UNCHANGED overturned
       ELSE MoreMishaps /\ overturned' = overturned + 1
    /\ approval' = [approval EXCEPT ![r] = v]
    /\ granted' = IF v = "APPROVED" THEN granted \cup {r} ELSE granted
    /\ IF v = "EXPIRED" THEN UNCHANGED routes
       ELSE /\ step' = [step EXCEPT ![d] = "sync"]
            /\ request' = [request EXCEPT ![d] = r]
            /\ verdict' = [verdict EXCEPT ![d] = v]
    /\ UNCHANGED <<kind, sensitive, validated, current_state, artifacts,
                   approval_id, deployments, touched, local, calls, faults, edits,
                   manual, overlaps, lost>>

\* One that does not look at the record's status at all.
DecideUnchecked(d, r, v) == approval[r] # Absent /\ Decision(d, r, v)

\* approve, reject and check_expired of the approval engine.  What they find to be
\* PENDING is the copy of the record that their process has, which may be from any
\* time since the request was made; then they update the row by its id, whatever its
\* status is by now.
Decide(d, r, v) ==
    /\ r \in sensitive /\ approval[r] # Absent
    /\ Decision(d, r, v)

RouteGoesTo(d, n) ==
    /\ step' = [step EXCEPT ![d] = n]
    /\ UNCHANGED <<request, verdict>>

RouteReads(d, n) ==
    /\ RouteGoesTo(d, n)
    /\ UNCHANGED <<kind, sensitive, validated, database, deployments, touched, local,
                   history>>

\* The route updates the row again, in a transaction that it commits last, and reads
\* the task's state for the transition to IN_REVIEW.  One that is not allowed is
\* passed over.
RouteReviews(d) ==
    /\ step[d] = "sync" /\ ~ Locked(request[d])
    /\ RouteReads(d, IF <<current_state, "IN_REVIEW">> \in VALID_TRANSITIONS
                       THEN "reviewing" ELSE "conclude")

\* The same for the transition to APPROVED or REJECTED.
RouteConcludes(d) ==
    /\ step[d] = "conclude"
    /\ RouteReads(d, IF <<current_state, verdict[d]>> \in VALID_TRANSITIONS
                       THEN "concluding" ELSE "commit")

\* The transition is recorded, from the state that was read.  The whitelist has one
\* state that leads to each of its targets: from is that one, and the task may have
\* left it.
RouteRecords(d, from, to, n) ==
    /\ IF current_state = from THEN UNCHANGED lost
       ELSE MoreMishaps /\ lost' = lost + 1
    /\ current_state' = to
    /\ RouteGoesTo(d, n)
    /\ UNCHANGED <<kind, sensitive, validated, artifacts, approval, granted,
                   approval_id, deployments, touched, local, calls, faults, edits,
                   manual, overlaps, overturned>>

RouteRecordsReview(d) ==
    /\ step[d] = "reviewing"
    /\ RouteRecords(d, "APPROVAL_PENDING", "IN_REVIEW", "conclude")

RouteRecordsVerdict(d) ==
    /\ step[d] = "concluding"
    /\ RouteRecords(d, "IN_REVIEW", verdict[d], "commit")

RouteEnds(d) ==
    /\ step' = [step EXCEPT ![d] = "idle"]
    /\ request' = [request EXCEPT ![d] = NoCall]
    /\ verdict' = [verdict EXCEPT ![d] = "NONE"]

\* The request is over, and its own update of the row is seen.
RouteCommits(d) ==
    /\ step[d] = "commit"
    /\ approval' = [approval EXCEPT ![request[d]] = verdict[d]]
    /\ RouteEnds(d)
    /\ UNCHANGED <<kind, sensitive, validated, current_state, artifacts, granted,
                   approval_id, deployments, touched, local, history>>

\* Or any of it raises, and what is not committed is rolled back.
RouteFails(d) ==
    /\ step[d] # "idle"
    /\ MoreMishaps
    /\ faults' = faults + 1
    /\ RouteEnds(d)
    /\ UNCHANGED <<kind, sensitive, validated, database, deployments, touched, local,
                   calls, edits, manual, overlaps, overturned, lost>>

\* create_artifact_version: the edited code becomes the task's newest row of
\* the type that its parent has.
Edit ==
    /\ MoreMishaps /\ artifacts # <<>>
    /\ artifacts' = Append(artifacts, EditedCode)
    /\ edits' = edits + 1
    /\ UNCHANGED <<kind, sensitive, validated, current_state, approval, granted,
                   approval_id, outside, local, calls, faults, manual, overlaps,
                   overturned, lost>>

\* POST /tasks/{id}/transition: any transition the whitelist has, approvals or
\* not.  (MaxMishaps is small enough for the loop guard not to interfere.)
TransitionByHand(t) ==
    /\ MoreMishaps
    /\ <<current_state, t>> \in VALID_TRANSITIONS
    /\ current_state' = t
    /\ manual' = manual + 1
    /\ UNCHANGED <<kind, sensitive, validated, artifacts, approval, granted,
                   approval_id, outside, local, calls, faults, edits, overlaps,
                   overturned, lost>>

Step(w) ==
    \/ Begin(w)
    \/ Return(w)
    \/ Record(w)
    \/ RecordRefused(w)
    \/ ExecuteDirect(w)
    \/ Develop(w)
    \/ AgentFails(w)
    \/ Store(w)
    \/ Validate(w)
    \/ Optimize(w)
    \/ RequestApproval(w)
    \/ LinkApproval(w)
    \/ Gate(w)
    \/ GateResumed(w)
    \/ LoadLatest(w)
    \/ Submit(w)
    \/ SubmitFails(w)
    \/ Await(w)
    \/ Handle(w)
    \/ HandleDirect(w)
    \/ Fail(w)
    \/ Crash(w)

Route(d) ==
    \/ RouteReviews(d)
    \/ RouteRecordsReview(d)
    \/ RouteConcludes(d)
    \/ RouteRecordsVerdict(d)
    \/ RouteCommits(d)
    \/ RouteFails(d)

Verdicts == {"APPROVED", "REJECTED", "EXPIRED"}

Next ==
    \/ \E w \in Workers : Step(w)
    \/ \E d \in Deciders, r \in Calls, v \in Verdicts : Decide(d, r, v)
    \/ \E d \in Deciders : Route(d)
    \/ Edit
    \/ \E t \in TaskState : TransitionByHand(t)

Spec == Init /\ [][Next]_vars

-----------------------------------------------------------------------------
(***************************************************************************)
(* Properties.                                                             *)
(***************************************************************************)
TypeOK ==
    /\ kind \in Kinds
    /\ current_state \in TaskState
    /\ artifacts \in Seq(Code)
    /\ approval \in [Calls -> {Absent, "PENDING", "APPROVED", "REJECTED",
                                "EXPIRED"}]
    /\ sensitive \subseteq Calls
    /\ granted \subseteq Calls
    /\ approval_id \in Calls \cup {NoCall}
    /\ deployments \in Seq([code : Code, approval : Calls \cup {NoCall}])
    /\ touched \subseteq Calls
    /\ step \in [Deciders -> {"idle", "sync", "reviewing", "conclude", "concluding",
                                "commit"}]
    /\ request \in [Deciders -> Calls \cup {NoCall}]
    /\ verdict \in [Deciders -> {"APPROVED", "REJECTED", "NONE"}]
    /\ validated \subseteq Code
    /\ mode \in [Workers -> {"fresh", "resumed", "direct", "cleanup",
                              "direct_cleanup"}]
    /\ run \in [Workers -> Calls \cup {NoCall}]
    /\ at \in [Workers -> TaskState \cup {"idle"}]
    /\ next \in [Workers -> TaskState \cup {"work", "store", "link", "gate",
                                            "await", "handler", "return"}]
    /\ link \in [Workers -> Calls \cup {NoCall}]
    /\ code \in [Workers -> Code]
    /\ calls \in 0 .. MaxCalls
    /\ {faults, edits, manual, overlaps, overturned, lost} \subseteq 0 .. MaxMishaps

\* INV-01: every job that was ever submitted stands under an approval that had been
\* granted, by the policy or by a human, whichever calls and decisions overlap or die,
\* and even when a user walks the task into APPROVED by hand: the gate reads the
\* record, not the state.  And unless a decision overturns another, it still is.
Granted(r) == r \in granted /\ (overturned = 0 => approval[r] = "APPROVED")

GatedDeployment == \A d \in ToSet(deployments) : Granted(d.approval)

\* One call at a time, nobody edits the code or moves the task by hand, and no
\* decision records a transition from a state that a call has meanwhile left.
\* (Approvals are decided at any moment, also while a call is under way.)
Quiet == overlaps = 0 /\ edits = 0 /\ manual = 0 /\ lost = 0

\* The artifact at i is the last of call r, ...
LastOf(i, r) ==
    /\ artifacts[i].run = r
    /\ \A j \in i + 1 .. Len(artifacts) : artifacts[j].run # r

\* ... and c is what it holds.
Newest(c, r) == \E i \in DOMAIN artifacts : artifacts[i] = c /\ LastOf(i, r)

\* Then what runs under an approval is what the approval was requested for:
\* the newest code of the call that requested it.  The code is looked up by
\* age when a later call resumes the task, not by the approval.
DeploysWhatWasApproved ==
    Quiet => \A d \in ToSet(deployments) : Newest(d.code, d.approval)

\* And it runs once per approval, though calls may die anywhere between the
\* submission of a job and the transition that records its outcome.
DeployedOncePerApproval ==
    Quiet =>
        \A i, j \in DOMAIN deployments :
            deployments[i].approval = deployments[j].approval => i = j

\* All in all: the requests, decisions and jobs of the service are those of a
\* DeploymentGate.  What a request is for is the newest code of the call that
\* made it, and no later call or edit changes what that is.
Wanted(r) ==
    LET newest == {i \in DOMAIN artifacts : LastOf(i, r)}
    IN  IF approval[r] = Absent \/ newest = {} THEN NoCode
        ELSE artifacts[CHOOSE i \in newest : TRUE]

Contract ==
    INSTANCE DeploymentGate WITH
        Requests <- Calls, Codes <- Code, standing <- approval,
        asked <- {r \in sensitive : approval[r] # Absent}, granted <- granted,
        wanted <- [r \in Calls |-> Wanted(r)], jobs <- deployments, calm <- Quiet

ImplementsGate == Contract!Spec

\* And as long as no step fails and no process dies, a call that is over has
\* left the task finished, failed, or waiting for a human.
SettledStates ==
    {"SUBMITTED", "VALIDATION_FAILED", "DEV_FAILED", "APPROVAL_PENDING",
     "APPROVED", "REJECTED", "COMPLETED", "CANCELLED"}

Undisturbed == Quiet /\ faults = 0

Resting ==
    /\ \A w \in Workers : ~ Busy(w)
    /\ \A d \in Deciders : step[d] = "idle"

SettledWhenIdle == Undisturbed /\ Resting => current_state \in SettledStates

\* What is deployed without an analysis is what the optimization made of a code that
\* passed one, wherever a call dies or resumes; nothing else is.  (A user who walks the
\* task back to its approval by hand has the newest code deployed, which may be what a
\* later call left before its analysis.)
OnlyOptimizedIsUnanalysed ==
    Quiet =>
        \A d \in ToSet(deployments) :
            \/ d.code \in validated
            \/ /\ d.code.stage = "optimized"
               /\ [d.code EXCEPT !.stage = "generated"] \in validated

\* INV-07 of the constitution, which the module's header claims to enforce: all
\* generated code passes validation before it is deployed.  The code that the
\* optimization agent generates is deployed and never validated.
ValidatedBeforeDeployment == \A d \in ToSet(deployments) : d.code \in validated

\* The module says INV-01 of itself, approval gates for destructive and
\* production operations: the platform does not execute what a human has to
\* approve before one has.
NoExecutionBeforeApproval ==
    \A r \in touched \cap sensitive : approval[r] = "APPROVED"
=============================================================================
