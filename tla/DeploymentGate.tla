--------------------------- MODULE DeploymentGate ---------------------------
(***************************************************************************)
(* What the execution service promises of deployments: a job runs under a  *)
(* request that has been granted.  A human may change what a human was     *)
(* asked, and nobody what the policy granted.  While nothing interferes,   *)
(* it is the code that was requested that runs, and it runs once.          *)
(***************************************************************************)
EXTENDS Naturals, Sequences

CONSTANTS Requests, Codes

Absent == "ABSENT"
Decisions == {"APPROVED", "REJECTED", "EXPIRED"}

VARIABLES
    standing,       \* standing[r]: absent, pending, or how r was last decided
    asked,          \* the requests that were put to a human
    granted,        \* the requests that were ever granted
    wanted,         \* wanted[r]: the code that request r is for
    jobs,           \* the jobs submitted, each with its code and request
    calm            \* nothing has interfered yet

vars == <<standing, asked, granted, wanted, jobs, calm>>

Init ==
    /\ standing = [r \in Requests |-> Absent]
    /\ asked = {}
    /\ granted = {}
    /\ wanted \in [Requests -> Codes]
    /\ jobs = <<>>
    /\ calm = TRUE

\* Code is to be run.  Some requests are granted by policy, others wait for a human.
Request(r) ==
    /\ standing[r] = Absent
    /\ \/ /\ standing' = [standing EXCEPT ![r] = "PENDING"]
          /\ asked' = asked \cup {r}
          /\ UNCHANGED granted
       \/ /\ standing' = [standing EXCEPT ![r] = "APPROVED"]
          /\ granted' = granted \cup {r}
          /\ UNCHANGED asked
    /\ \E c \in Codes : wanted' = [wanted EXCEPT ![r] = c]
    /\ UNCHANGED <<jobs, calm>>

Decide(r, d) ==
    /\ r \in asked
    /\ standing' = [standing EXCEPT ![r] = d]
    /\ granted' = IF d = "APPROVED" THEN granted \cup {r} ELSE granted
    /\ UNCHANGED <<asked, wanted, jobs, calm>>

\* The code that was requested, and nothing a second time, until something interferes.
Submit(r) ==
    /\ r \in granted
    /\ calm => \A i \in DOMAIN jobs : jobs[i].approval # r
    /\ \E c \in IF calm THEN {wanted[r]} ELSE Codes :
          jobs' = Append(jobs, [code |-> c, approval |-> r])
    /\ UNCHANGED <<standing, asked, granted, wanted, calm>>

Disturb == calm' = FALSE /\ UNCHANGED <<standing, asked, granted, wanted, jobs>>

Next ==
    \/ Disturb
    \/ \E r \in Requests :
          Request(r) \/ Submit(r) \/ \E d \in Decisions : Decide(r, d)

Spec == Init /\ [][Next]_vars
=============================================================================
