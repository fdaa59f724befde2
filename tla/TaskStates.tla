----------------------------- MODULE TaskStates -----------------------------
(***************************************************************************)
(* The 25 authoritative task states and the transition whitelist of        *)
(* orchestrator/state_machine.py.  The state names are the values of the   *)
(* TaskState enumeration, which are also the strings the database holds.   *)
(***************************************************************************)

TaskState ==
    {"SUBMITTED", "PARSING", "PARSED", "PARSE_FAILED", "PLANNING", "PLANNED",
     "AGENT_ASSIGNMENT", "AGENT_ASSIGNED", "IN_DEVELOPMENT",
     "CODE_GENERATED", "DEV_FAILED", "IN_VALIDATION", "VALIDATION_PASSED",
     "VALIDATION_FAILED", "OPTIMIZATION_PENDING", "IN_OPTIMIZATION",
     "OPTIMIZED", "APPROVAL_PENDING", "IN_REVIEW", "APPROVED", "REJECTED",
     "DEPLOYING", "DEPLOYED", "COMPLETED", "CANCELLED"}

TERMINAL_STATES == {"COMPLETED", "CANCELLED"}

(***************************************************************************)
(* The states whose whitelist contains CANCELLED.  The eight other live    *)
(* states cannot be abandoned: the task has to get through them.           *)
(***************************************************************************)
Cancellable ==
    {"SUBMITTED", "PARSED", "PARSE_FAILED", "PLANNING", "PLANNED",
     "AGENT_ASSIGNMENT", "AGENT_ASSIGNED", "CODE_GENERATED", "DEV_FAILED",
     "VALIDATION_FAILED", "OPTIMIZATION_PENDING", "IN_OPTIMIZATION",
     "OPTIMIZED", "APPROVED", "REJECTED"}

\* The transitions that do not abandon the task.
ForwardTransitions ==
    {<<"SUBMITTED", "PARSING">>,
     <<"PARSING", "PARSED">>,
     <<"PARSING", "PARSE_FAILED">>,
     <<"PARSE_FAILED", "PARSING">>,
     <<"PARSED", "PLANNING">>,
     <<"PLANNING", "PLANNED">>,
     <<"PLANNED", "AGENT_ASSIGNMENT">>,
     <<"AGENT_ASSIGNMENT", "AGENT_ASSIGNED">>,
     <<"AGENT_ASSIGNED", "IN_DEVELOPMENT">>,
     <<"IN_DEVELOPMENT", "CODE_GENERATED">>,
     <<"IN_DEVELOPMENT", "DEV_FAILED">>,
     <<"DEV_FAILED", "IN_DEVELOPMENT">>,
     <<"CODE_GENERATED", "IN_VALIDATION">>,
     <<"IN_VALIDATION", "VALIDATION_PASSED">>,
     <<"IN_VALIDATION", "VALIDATION_FAILED">>,
     <<"VALIDATION_FAILED", "IN_DEVELOPMENT">>,
     <<"VALIDATION_PASSED", "OPTIMIZATION_PENDING">>,
     <<"VALIDATION_PASSED", "APPROVAL_PENDING">>,
     <<"OPTIMIZATION_PENDING", "IN_OPTIMIZATION">>,
     <<"IN_OPTIMIZATION", "OPTIMIZED">>,
     <<"OPTIMIZED", "APPROVAL_PENDING">>,
     <<"APPROVAL_PENDING", "IN_REVIEW">>,
     <<"IN_REVIEW", "APPROVED">>,
     <<"IN_REVIEW", "REJECTED">>,
     <<"REJECTED", "IN_DEVELOPMENT">>,
     <<"APPROVED", "DEPLOYING">>,
     <<"DEPLOYING", "DEPLOYED">>,
     <<"DEPLOYING", "DEV_FAILED">>,
     <<"DEPLOYED", "COMPLETED">>}

\* Two whitelists with a plausible slip, to see that the properties notice:
\* an approval recorded straight from validation ...
WhitelistSkippingReview ==
    (Cancellable \X {"CANCELLED"}) \cup ForwardTransitions
        \cup {<<"VALIDATION_PASSED", "APPROVED">>}

\* ... and a failed development that cannot be abandoned.
WhitelistKeepingFailed ==
    ((Cancellable \ {"DEV_FAILED"}) \X {"CANCELLED"}) \cup ForwardTransitions

(***************************************************************************)
(* VALID_TRANSITIONS as a relation: <<from_state, to_state>> is a member   *)
(* exactly when the code's map lists to_state under from_state.            *)
(***************************************************************************)
VALID_TRANSITIONS ==
    (Cancellable \X {"CANCELLED"}) \cup ForwardTransitions
=============================================================================
