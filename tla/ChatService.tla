----------------------------- MODULE ChatService -----------------------------
(***************************************************************************)
(* The conversations of services/chat_service.py, over the models of       *)
(* models/chat.py and the routes of api/routes/chat.py: a session that     *)
(* lives in the memory of the process, requirements that the language      *)
(* model extracts and the user edits, and the task made of them.           *)
(*                                                                         *)
(* A request that streams or that creates a task waits, for the model or   *)
(* for the database; in between others see the same session object, and    *)
(* may take it out of the sessions.  What is said is not modelled: a       *)
(* requirement is whether it has a value and whether its confidence is     *)
(* enough (0.7), too little or, for the panel sends what it likes, no      *)
(* number.  The messages are not kept: nothing reads them back but the     *)
(* model.                                                                  *)
(***************************************************************************)
EXTENDS Naturals, Sequences

CONSTANTS
    Sessions,
    Requests,
    RequiredFields  \* task_name, description, target_table, objective

VARIABLES
    sessions,       \* _sessions: the ids that get_session finds
    requirements,   \* current_requirements of every session object
    request,        \* the coroutines of the two routes that wait
    broken,         \* history variable: the sessions of which an update has
                    \* failed half way since is_complete was last computed
    made,           \* history variable: the tasks of a session, as they were
                    \* when they were begun
    overlapped      \* history variable: the sessions of which two requests have
                    \* been making a task at the same time

chatVars == <<sessions, requirements, request, broken, made, overlapped>>

\* FieldWithConfidence; one that is not there has no value.
Field == [value : BOOLEAN, confidence : {"sure", "unsure", "no number"}]

Fields == [RequiredFields -> Field]

\* What the model may be parsed to: FieldWithConfidence checks what it is made of.
ParsedFields ==
    {fields \in Fields : \A f \in RequiredFields : fields[f].confidence # "no number"}

\* calculate_completeness: a field counts when it has a value that is sure.
Filled(fields) ==
    {f \in RequiredFields : fields[f].value /\ fields[f].confidence = "sure"}

\* update_is_complete, which every way to change a field ends with.
WithCompleteness(fields) ==
    [fields |-> fields, complete |-> Filled(fields) = RequiredFields]

\* It compares the confidence of whatever has a value, and raises TypeError.
Incomparable(fields) ==
    \E f \in RequiredFields : fields[f].value /\ fields[f].confidence = "no number"

\* ExtractedRequirements of a session of which nothing was extracted.
NoRequirements ==
    [fields |-> [f \in RequiredFields |->
                    [value |-> FALSE, confidence |-> "unsure"]],
     complete |-> FALSE]

\* What a request is about to make a task of: the fields that are not filled,
\* and whether is_complete was older than the fields.
Nothing == [lacks |-> {}, stale |-> FALSE]

NoRequest == [pc |-> "idle", session |-> "none", task |-> Nothing]

Making(s) ==
    {r \in Requests : request[r].pc \in {"creating", "made"} /\ request[r].session = s}

ChatInit ==
    /\ sessions = {}
    /\ requirements = [s \in Sessions |-> NoRequirements]
    /\ request = [r \in Requests |-> NoRequest]
    /\ broken = {}
    /\ made = [s \in Sessions |-> <<>>]
    /\ overlapped = {}

(***************************************************************************)
(* Sessions.                                                               *)
(***************************************************************************)

\* An id is given out once: a session of which anything is left is not made again.
Given(s) ==
    \/ s \in sessions
    \/ requirements[s] # NoRequirements \/ made[s] # <<>>
    \/ \E r \in Requests : request[r].session = s

CreateSession(s) ==
    /\ ~Given(s)
    /\ sessions' = sessions \cup {s}
    /\ UNCHANGED <<requirements, request, broken, made, overlapped>>

DeleteSession(s) ==
    /\ s \in sessions
    /\ sessions' = sessions \ {s}
    /\ UNCHANGED <<requirements, request, broken, made, overlapped>>

\* close: the sessions go, and so do the coroutines of the process.  A task that
\* is in the database by then stays there.
Close ==
    /\ sessions' = {}
    /\ request' = [r \in Requests |-> NoRequest]
    /\ UNCHANGED <<requirements, broken, made, overlapped>>

(***************************************************************************)
(* stream_response: the session object is looked up once, and written to   *)
(* when the answer is there, whoever else has had it meanwhile.            *)
(***************************************************************************)

StreamResponse(r, s) ==
    /\ request[r].pc = "idle"
    /\ s \in sessions
    /\ request' = [request EXCEPT ![r] = [NoRequest EXCEPT !.pc = "streaming", !.session = s]]
    /\ UNCHANGED <<sessions, requirements, broken, made, overlapped>>

\* What the model says of the requirements replaces them, the user's edits
\* included, and is_complete is never the model's own.
Extract(r, fields) ==
    /\ request[r].pc = "streaming"
    /\ requirements' =
           [requirements EXCEPT ![request[r].session] = WithCompleteness(fields)]
    /\ request' = [request EXCEPT ![r] = NoRequest]
    /\ broken' = broken \ {request[r].session}
    /\ UNCHANGED <<sessions, made, overlapped>>

\* An answer without requirements, one that is no JSON, an error of the model,
\* a client that has hung up.
ExtractNothing(r) ==
    /\ request[r].pc = "streaming"
    /\ request' = [request EXCEPT ![r] = NoRequest]
    /\ UNCHANGED <<sessions, requirements, broken, made, overlapped>>

(***************************************************************************)
(* update_requirements: the panel sends a value, a confidence or both, of  *)
(* any of the fields, and what it sends is put into the fields unchecked   *)
(* before is_complete is computed: when that raises, the fields stay       *)
(* changed and is_complete what it was.                                    *)
(***************************************************************************)

UpdateRequirements(s, fields) ==
    /\ s \in sessions
    /\ requirements' = [requirements EXCEPT ![s] =
           IF Incomparable(fields) THEN [@ EXCEPT !.fields = fields]
           ELSE WithCompleteness(fields)]
    /\ broken' = IF Incomparable(fields) THEN broken \cup {s} ELSE broken \ {s}
    /\ UNCHANGED <<sessions, request, made, overlapped>>

(***************************************************************************)
(* create_task_from_requirements: the requirements are read before the     *)
(* database is waited for, and the session is deleted after it.            *)
(***************************************************************************)

TaskOf(s) ==
    [lacks |-> RequiredFields \ Filled(requirements[s].fields), stale |-> s \in broken]

BeginCreate(r, s) ==
    /\ request[r].pc = "idle"
    /\ s \in sessions
    /\ requirements[s].complete
    /\ request' = [request EXCEPT ![r] =
                       [pc |-> "creating", session |-> s,
                        task |-> TaskOf(s)]]
    /\ overlapped' = IF Making(s) = {} THEN overlapped ELSE overlapped \cup {s}
    /\ UNCHANGED <<sessions, requirements, broken, made>>

TaskCommitted(r) ==
    /\ request[r].pc = "creating"
    /\ LET s == request[r].session IN
       made' = [made EXCEPT ![s] = Append(@, request[r].task)]
    /\ request' = [request EXCEPT ![r].pc = "made"]
    /\ UNCHANGED <<sessions, requirements, broken, overlapped>>

\* The insert fails, and the session can still be made a task of.
CreateFails(r) ==
    /\ request[r].pc = "creating"
    /\ request' = [request EXCEPT ![r] = NoRequest]
    /\ UNCHANGED <<sessions, requirements, broken, made, overlapped>>

CleanUpKept(r) ==
    /\ request[r].pc = "made"
    /\ request' = [request EXCEPT ![r] = NoRequest]
    /\ UNCHANGED <<sessions, requirements, broken, made, overlapped>>

CleanUp(r) ==
    /\ request[r].pc = "made"
    /\ sessions' = sessions \ {request[r].session}
    /\ request' = [request EXCEPT ![r] = NoRequest]
    /\ UNCHANGED <<requirements, broken, made, overlapped>>

ChatNext ==
    \/ Close
    \/ \E s \in Sessions :
          \/ CreateSession(s)
          \/ DeleteSession(s)
          \/ \E fields \in Fields : UpdateRequirements(s, fields)
          \/ \E r \in Requests : StreamResponse(r, s) \/ BeginCreate(r, s)
    \/ \E r \in Requests :
          \/ \E fields \in ParsedFields : Extract(r, fields)
          \/ ExtractNothing(r)
          \/ TaskCommitted(r)
          \/ CreateFails(r)
          \/ CleanUp(r)

ChatSpec == ChatInit /\ [][ChatNext]_chatVars

(***************************************************************************)
(* Properties.                                                             *)
(***************************************************************************)

\* A conversation becomes one task, made of requirements that were all filled
\* when it was begun: something was missing only where an update had failed half
\* way and nothing was updated since.  It becomes several tasks only when their
\* creations overlapped, for the session is found until the first has been made.
TasksAreEarned ==
    \A s \in Sessions :
        /\ \A i \in DOMAIN made[s] : made[s][i].lacks # {} => made[s][i].stale
        /\ Len(made[s]) > 1 => s \in overlapped
=============================================================================
