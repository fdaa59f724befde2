----------------------- MODULE ExecutionServiceProofs -----------------------
(***************************************************************************)
(* INV-01 for the execution service, proved for any number of concurrent   *)
(* calls and decisions, failures, edits and transitions by hand (IInv); as *)
(* long as calls do not overlap, users do not interfere and no route       *)
(* writes over a state, that what is deployed is what was approved, was    *)
(* analysed or optimized from what was, and is deployed once per approval  *)
(* (QInv), and that calls settle the task (SInv); and, interference        *)
(* included, that the service is a DeploymentGate (OInv).                  *)
(***************************************************************************)
EXTENDS ExecutionService, TLAPS

\* Where a call is before it asks for approval.
BeforeRequest ==
    {"SUBMITTED", "PARSING", "PARSED", "PLANNING", "PLANNED",
     "AGENT_ASSIGNMENT", "AGENT_ASSIGNED", "IN_DEVELOPMENT", "CODE_GENERATED",
     "IN_VALIDATION", "VALIDATION_PASSED", "OPTIMIZATION_PENDING",
     "IN_OPTIMIZATION"}

FromRequest ==
    {"OPTIMIZED", "APPROVAL_PENDING", "IN_REVIEW", "APPROVED", "DEPLOYING",
     "DEPLOYED"}

Requesting ==
    {<<"OPTIMIZED", "link">>, <<"OPTIMIZED", "APPROVAL_PENDING">>,
     <<"APPROVAL_PENDING", "work">>}

Deploying ==
    {<<"APPROVAL_PENDING", "IN_REVIEW">>, <<"IN_REVIEW", "APPROVED">>,
     <<"APPROVED", "work">>, <<"APPROVED", "DEPLOYING">>, <<"DEPLOYING", "work">>,
     <<"DEPLOYING", "await">>}

Concluding ==
    {<<"DEPLOYING", "DEPLOYED">>, <<"DEPLOYING", "DEV_FAILED">>,
     <<"DEPLOYED", "COMPLETED">>}

Ending == {"handler", "return"}

\* A call has not asked for approval yet.
Unrequested(a, n) ==
    \/ a \in BeforeRequest /\ n \notin Ending
    \/ <<a, n>> = <<"OPTIMIZED", "work">>

\* What a call in mode m may do next where it is.
Course(m, a, n) ==
    n \in Ending \/
    CASE m = "fresh" ->
             \/ /\ a \in BeforeRequest
                /\ n \in BeforeRequest \cup {"OPTIMIZED", "VALIDATION_FAILED", "work",
                                             "store"}
             \/ <<a, n>> = <<"OPTIMIZED", "work">>
             \/ <<a, n>> \in Requesting \cup Deploying \cup Concluding
      [] m = "resumed" ->
             \/ a \in Reviewing /\ n \in {"gate", "REJECTED"}
             \/ <<a, n>> \in Deploying \cup Concluding
      [] OTHER -> n \in TaskState

\* What call r, with approval l in its hands, relies on there.
Relies(m, a, n, r, l) ==
    /\ m = "fresh" /\ Unrequested(a, n) => approval[r] = Absent
    /\ m = "fresh" /\ <<a, n>> \in Requesting =>
           /\ l = r /\ approval[r] # Absent
           /\ r \notin sensitive => Granted(r)
    /\ m = "resumed" /\ n = "gate" => l = NoCall \/ approval[l] # Absent
    /\ m \in {"fresh", "resumed"} /\ <<a, n>> \in Deploying => l # NoCall /\ Granted(l)

Fits(m, a, n, r, l) ==
    /\ Course(m, a, n)
    /\ a # "idle" => r \in 1 .. calls /\ Relies(m, a, n, r, l)
    /\ a = "idle" => n = "return"

\* Calls are numbered one by one, and approvals are known by them.
Numbered ==
    /\ \A w, v \in Workers : Busy(w) /\ Busy(v) /\ run[w] = run[v] => w = v
    /\ \A r \in Calls : r > calls => approval[r] = Absent
    /\ approval_id # NoCall => approval[approval_id] # Absent
    /\ \A r \in granted : approval[r] # Absent
    /\ \A r \in Calls : approval[r] = "APPROVED" => r \in granted

\* The route of a decision stands behind what a human was asked and has decided, and
\* unless a decision overturned another, the row says so.
Behind(r, v) ==
    /\ r \in Calls /\ r \in sensitive /\ approval[r] # Absent
    /\ v \in {"APPROVED", "REJECTED"}
    /\ v = "APPROVED" => r \in granted
    /\ overturned = 0 => approval[r] = v

Routed == \A d \in Deciders : step[d] # "idle" => Behind(request[d], verdict[d])

IInv ==
    /\ TypeOK
    /\ Numbered
    /\ Routed
    /\ \A w \in Workers : Fits(mode[w], at[w], next[w], run[w], link[w])
    /\ GatedDeployment

-----------------------------------------------------------------------------
LEMMA PipelineStates ==
    /\ Len(Pipeline) = 20 /\ DOMAIN Pipeline = 1 .. 20
    /\ ToSet(Front(Pipeline)) = BeforeRequest \cup FromRequest
<1>1. Len(Pipeline) = 20 /\ DOMAIN Pipeline = 1 .. 20
  BY DEF Pipeline
<1>2. Front(Pipeline) = [i \in 1 .. 19 |-> Pipeline[i]]
  BY <1>1 DEF Front, Pipeline
<1>3. ToSet(Front(Pipeline)) = {Pipeline[i] : i \in 1 .. 19}
  BY <1>2 DEF ToSet
<1>4. {Pipeline[i] : i \in 1 .. 19} = BeforeRequest \cup FromRequest
  BY DEF Pipeline, BeforeRequest, FromRequest
<1> QED BY <1>1, <1>3, <1>4

LEMMA SuccessorIs ==
    ASSUME NEW i \in 1 .. 19 PROVE Successor(Pipeline[i]) = Pipeline[i + 1]
<1>1. \A j \in DOMAIN Pipeline : Pipeline[j] = Pipeline[i] => j = i
  BY DEF Pipeline
<1>2. i \in DOMAIN Pipeline
  BY PipelineStates
<1> HIDE DEF Pipeline
<1>3. (CHOOSE j \in DOMAIN Pipeline : Pipeline[j] = Pipeline[i]) = i
  BY <1>1, <1>2
<1>4. Successor(Pipeline[i]) =
          Pipeline[1 + CHOOSE j \in DOMAIN Pipeline : Pipeline[j] = Pipeline[i]]
  BY DEF Successor
<1>5. 1 + i = i + 1
  OBVIOUS
<1> QED BY <1>3, <1>4, <1>5

LEMMA Successors ==
    /\ \A s \in BeforeRequest : Successor(s) \in BeforeRequest \cup {"OPTIMIZED"}
    /\ Successor("OPTIMIZED") = "APPROVAL_PENDING"
    /\ Successor("APPROVAL_PENDING") = "IN_REVIEW"
    /\ Successor("IN_REVIEW") = "APPROVED"
    /\ Successor("APPROVED") = "DEPLOYING"
    /\ Successor("DEPLOYING") = "DEPLOYED"
    /\ Successor("DEPLOYED") = "COMPLETED"
<1>1. \A i \in 1 .. 19 : Successor(Pipeline[i]) = Pipeline[i + 1]
  BY SuccessorIs
<1>2. /\ Pipeline[14] = "OPTIMIZED" /\ Pipeline[15] = "APPROVAL_PENDING"
      /\ Pipeline[16] = "IN_REVIEW" /\ Pipeline[17] = "APPROVED"
      /\ Pipeline[18] = "DEPLOYING" /\ Pipeline[19] = "DEPLOYED"
      /\ Pipeline[20] = "COMPLETED"
      /\ BeforeRequest = {Pipeline[i] : i \in 1 .. 13}
      /\ \A i \in 1 .. 13 : Pipeline[i + 1] \in BeforeRequest \cup {"OPTIMIZED"}
  BY DEF Pipeline, BeforeRequest
<1> QED BY <1>1, <1>2
-----------------------------------------------------------------------------
Modes == {"fresh", "resumed", "direct", "cleanup", "direct_cleanup"}
Nexts == TaskState \cup {"work", "store", "link", "gate", "await", "handler", "return"}

\* A call that is only to end relies on nothing.
LEMMA Counts ==
    ASSUME IInv
    PROVE  /\ MaxMishaps \in Nat /\ MaxCalls \in Nat /\ calls \in 0 .. MaxCalls
           /\ faults \in 0 .. MaxMishaps /\ edits \in 0 .. MaxMishaps
           /\ manual \in 0 .. MaxMishaps /\ overlaps \in 0 .. MaxMishaps
           /\ overturned \in 0 .. MaxMishaps /\ lost \in 0 .. MaxMishaps
BY ExecutionServiceAssumption DEF IInv, TypeOK

LEMMA RunsAreCalls ==
    ASSUME IInv, NEW w \in Workers, Busy(w)
    PROVE  run[w] \in Calls
<1>1. run[w] \in 1 .. calls
  BY DEF IInv, Fits, Busy
<1> QED BY <1>1, Counts DEF Calls

LEMMA EndingFits ==
    ASSUME NEW m, NEW a, NEW n \in Ending, NEW r \in 1 .. calls, NEW l, a # "idle"
    PROVE  Fits(m, a, n, r, l)
BY DEF Fits, Course, Relies, Unrequested, Requesting, Deploying, Ending

\* A call that has ended.
LEMMA IdleFits == \A m, r, l : Fits(m, "idle", "return", r, l)
BY DEF Fits, Course, Ending

\* A step of one call in which the world it relies on stays.
LEMMA LocalStep ==
    ASSUME IInv, TypeOK', NEW w \in Workers, NEW m, NEW a, NEW n, NEW r, NEW l,
           mode' = [mode EXCEPT ![w] = m], at' = [at EXCEPT ![w] = a],
           next' = [next EXCEPT ![w] = n], link' = [link EXCEPT ![w] = l],
           run' = [run EXCEPT ![w] = r],
           UNCHANGED <<calls, approval, sensitive, granted, overturned, approval_id,
                       deployments, step, request, verdict>>,
           Fits(m, a, n, r, l), a # "idle" => Busy(w) /\ r = run[w]
    PROVE  IInv'
<1>1. /\ mode'[w] = m /\ at'[w] = a /\ next'[w] = n /\ link'[w] = l /\ run'[w] = r
      /\ \A v \in Workers \ {w} :
            /\ mode'[v] = mode[v] /\ at'[v] = at[v] /\ next'[v] = next[v]
            /\ link'[v] = link[v] /\ run'[v] = run[v]
  BY DEF IInv, TypeOK
<1>2. Numbered'
  BY <1>1 DEF IInv, Numbered, Busy
<1>3. ASSUME NEW v \in Workers
      PROVE  Fits(mode[v], at[v], next[v], run[v], link[v])'
  <2>1. CASE v = w
    BY <1>1, <2>1 DEF Fits, Relies, Granted
  <2>2. CASE v # w
    BY <1>1, <2>2 DEF IInv, Fits, Relies, Granted
  <2> QED BY <2>1, <2>2
<1>4. GatedDeployment' /\ Routed'
  BY DEF IInv, GatedDeployment, Granted, Routed, Behind
<1> QED BY <1>2, <1>3, <1>4 DEF IInv

LEMMA TurnStep ==
    ASSUME IInv, NEW w \in Workers, NEW n \in Nexts, Turn(w, n), Busy(w),
           Fits(mode[w], at[w], n, run[w], link[w])
    PROVE  IInv'
<1>1. /\ next' = [next EXCEPT ![w] = n]
      /\ UNCHANGED <<world, mode, run, at, link, code>>
  BY DEF Turn, Go
<1>2. /\ mode' = [mode EXCEPT ![w] = mode[w]] /\ at' = [at EXCEPT ![w] = at[w]]
      /\ link' = [link EXCEPT ![w] = link[w]] /\ run' = [run EXCEPT ![w] = run[w]]
  BY <1>1 DEF IInv, TypeOK
<1>3. TypeOK'
  BY <1>1 DEF IInv, TypeOK, Nexts, world, database, outside, history
<1>4. UNCHANGED <<calls, approval, sensitive, granted, overturned, approval_id,
                       deployments, step, request, verdict>>
  BY <1>1 DEF world, database, outside, history
<1> DEFINE m == mode[w]
           a == at[w]
           r == run[w]
           l == link[w]
<1>5. /\ mode' = [mode EXCEPT ![w] = m] /\ at' = [at EXCEPT ![w] = a]
      /\ link' = [link EXCEPT ![w] = l] /\ run' = [run EXCEPT ![w] = r]
      /\ Fits(m, a, n, r, l)
      /\ a # "idle" => Busy(w) /\ r = run[w]
  BY <1>2
<1> HIDE DEF m, a, r, l
<1> QED BY <1>1, <1>3, <1>4, <1>5, LocalStep

\* The step of a call that fails or is refused.
LEMMA TurnToEnd ==
    ASSUME IInv, NEW w \in Workers, NEW n \in Ending, Turn(w, n), Busy(w)
    PROVE  IInv'
<1>1. run[w] \in 1 .. calls
  BY DEF IInv, Fits, Busy
<1>2. Fits(mode[w], at[w], n, run[w], link[w])
  BY <1>1, EndingFits DEF Busy
<1>3. n \in Nexts
  BY DEF Nexts, Ending
<1> QED BY <1>2, <1>3, TurnStep

LEMMA WorkingIsBusy ==
    ASSUME IInv, NEW w \in Workers, next[w] # "return"
    PROVE  Busy(w) /\ run[w] \in 1 .. calls
BY DEF IInv, Fits, Busy

LEMMA GateKeeps ==
    ASSUME IInv, NEW w \in Workers, Gate(w)
    PROVE  IInv'
<1>1. /\ at[w] = "APPROVAL_PENDING" /\ next[w] = "work"
      /\ Fits(mode[w], at[w], next[w], run[w], link[w])
      /\ Turn(w, IF run[w] \in sensitive THEN "return" ELSE "IN_REVIEW")
  BY DEF Gate, Does, IInv
<1>2. Busy(w)
  BY <1>1 DEF Busy
<1>3. CASE run[w] \in sensitive
  BY <1>1, <1>2, <1>3, TurnToEnd DEF Ending
<1>4. CASE run[w] \notin sensitive
  <2>1. mode[w] = "fresh"
    BY <1>1 DEF Fits, Course, Ending, Deploying, Concluding, TaskState
  <2>2. <<at[w], next[w]>> \in Requesting
    BY <1>1 DEF Requesting
  <2>3. link[w] = run[w] /\ Granted(run[w]) /\ run[w] \in 1 .. calls
    BY <1>1, <1>4, <2>1, <2>2 DEF Fits, Relies
  <2>4. link[w] # NoCall
    BY <2>3 DEF NoCall, IInv, TypeOK
  <2>5. Fits(mode[w], at[w], "IN_REVIEW", run[w], link[w])
    BY <1>1, <2>1, <2>3, <2>4
       DEF Fits, Course, Relies, Unrequested, Requesting, Deploying, Ending,
           BeforeRequest
  <2>6. "IN_REVIEW" \in Nexts
    BY DEF Nexts, TaskState
  <2> QED BY <1>1, <1>2, <1>4, <2>5, <2>6, TurnStep
<1> QED BY <1>3, <1>4

\* A resumed call goes on only if the approval in the row is granted.
LEMMA GateResumedKeeps ==
    ASSUME IInv, NEW w \in Workers, GateResumed(w)
    PROVE  IInv'
<1>1. next[w] = "gate" /\ Fits(mode[w], at[w], next[w], run[w], link[w])
  BY DEF GateResumed, IInv
<1>2. Busy(w) /\ run[w] \in 1 .. calls
  BY <1>1, WorkingIsBusy
<1>3. mode[w] = "resumed" /\ at[w] \in Reviewing
  BY <1>1 DEF Fits, Course, Ending, Requesting, Deploying, Concluding, TaskState,
              BeforeRequest
<1>4. link[w] = NoCall \/ approval[link[w]] # Absent
  BY <1>1, <1>2, <1>3 DEF Fits, Relies, Busy
<1>5. \/ \E n \in Ending : Turn(w, n)
      \/ Turn(w, "REJECTED")
      \/ /\ link[w] # NoCall
         /\ approval[link[w]] \notin {"PENDING", "REJECTED", "EXPIRED"}
         /\ Turn(w, IF at[w] = "APPROVED" THEN "work" ELSE Successor(at[w]))
  BY DEF GateResumed, Ending
<1>6. CASE \E n \in Ending : Turn(w, n)
  BY <1>2, <1>6, TurnToEnd
<1>7. CASE Turn(w, "REJECTED")
  <2>1. Fits(mode[w], at[w], "REJECTED", run[w], link[w])
    BY <1>2, <1>3
       DEF Fits, Course, Relies, Deploying, Ending, Reviewing, Busy
  <2>2. "REJECTED" \in Nexts
    BY DEF Nexts, TaskState
  <2> QED BY <1>2, <1>7, <2>1, <2>2, TurnStep
<1>8. CASE /\ link[w] # NoCall
           /\ approval[link[w]] \notin {"PENDING", "REJECTED", "EXPIRED"}
           /\ Turn(w, IF at[w] = "APPROVED" THEN "work" ELSE Successor(at[w]))
  <2> DEFINE n == IF at[w] = "APPROVED" THEN "work" ELSE Successor(at[w])
  <2>1. Granted(link[w])
    <3>1. link[w] \in Calls /\ approval[link[w]] = "APPROVED"
      BY <1>4, <1>8 DEF IInv, TypeOK
    <3> QED BY <3>1 DEF Granted, IInv, Numbered
  <2>2. <<at[w], n>> \in Deploying /\ n \in Nexts /\ n \notin {"gate"}
    BY <1>3, Successors DEF Deploying, Reviewing, Nexts, TaskState
  <2> HIDE DEF n
  <2>3. Fits(mode[w], at[w], n, run[w], link[w])
    BY <1>2, <1>3, <1>8, <2>1, <2>2 DEF Fits, Course, Relies, Busy
  <2> QED BY <1>2, <1>8, <2>2, <2>3, TurnStep DEF n
<1> QED BY <1>5, <1>6, <1>7, <1>8

\* A job that has been submitted is waited for, and the call concludes.
LEMMA ConcludingKeeps ==
    ASSUME IInv, NEW w \in Workers, SubmitFails(w) \/ Await(w)
    PROVE  IInv'
<1>1. /\ at[w] = "DEPLOYING" \/ next[w] = "await"
      /\ next[w] \in {"work", "await"}
      /\ Fits(mode[w], at[w], next[w], run[w], link[w])
  BY DEF SubmitFails, Await, Does, IInv
<1>2. Busy(w) /\ run[w] \in 1 .. calls
  BY <1>1, WorkingIsBusy
<1>3. at[w] = "DEPLOYING" /\ mode[w] \in {"fresh", "resumed"}
  BY <1>1 DEF Fits, Course, Ending, Requesting, Deploying, Concluding, TaskState,
              BeforeRequest
<1>4. PICK n \in {"DEPLOYED", "DEV_FAILED"} : Turn(w, n)
  BY DEF SubmitFails, Await
<1>5. <<at[w], n>> \in Concluding /\ n \in Nexts
  BY <1>3 DEF Concluding, Nexts, TaskState
<1>6. Fits(mode[w], at[w], n, run[w], link[w])
  BY <1>2, <1>3, <1>5
     DEF Fits, Course, Relies, Unrequested, Requesting, Deploying, BeforeRequest, Busy
<1> QED BY <1>2, <1>4, <1>5, <1>6, TurnStep

\* What is recorded leads on along the same course.
LEMMA AfterFits ==
    ASSUME IInv, NEW w \in Workers, next[w] \in TaskState
    PROVE  /\ Fits(mode[w], next[w], After(mode[w], next[w]), run[w], link[w])
           /\ After(mode[w], next[w]) \in Nexts
<1> DEFINE m == mode[w]
           a == at[w]
           s == next[w]
           n == After(m, s)
<1>1. /\ Fits(m, a, s, run[w], link[w]) /\ s # "return" /\ a # "idle" /\ m \in Modes
      /\ run[w] \in 1 .. calls
  <2>1. s # "return"
    BY DEF TaskState
  <2> QED BY <2>1, WorkingIsBusy DEF IInv, TypeOK, Busy, Modes
<1>2. s # "idle" /\ s \notin Ending
  BY DEF TaskState, Ending
<1>3. n = IF m \in {"cleanup", "direct_cleanup"} \/ s \notin BeforeRequest \cup FromRequest
            THEN "return" ELSE IF s \in WorkStates(m) THEN "work" ELSE Successor(s)
  BY PipelineStates DEF After
<1> SUFFICES Fits(m, s, n, run[w], link[w]) /\ n \in Nexts
  OBVIOUS
<1> HIDE DEF n
<1>4. CASE n = "return"
  BY <1>1, <1>2, <1>4, EndingFits DEF Ending, Nexts
<1>5. CASE n # "return" /\ m = "fresh"
  <2>1. \/ s \in BeforeRequest /\ a \in BeforeRequest
        \/ s = "OPTIMIZED" /\ a \in BeforeRequest
        \/ s = "APPROVAL_PENDING" /\ <<a, s>> \in Requesting
        \/ s \in {"IN_REVIEW", "APPROVED", "DEPLOYING"} /\ <<a, s>> \in Deploying
        \/ s = "DEPLOYED"
    BY <1>1, <1>2, <1>3, <1>5
       DEF Fits, Course, Requesting, Deploying, Concluding, BeforeRequest, FromRequest
  <2>2. CASE s \in BeforeRequest /\ a \in BeforeRequest
    <3>1. n \in BeforeRequest \cup {"OPTIMIZED", "work"}
      BY <1>3, <1>5, <2>2, Successors
    <3>2. approval[run[w]] = Absent
      BY <1>1, <1>2, <1>5, <2>2 DEF Fits, Relies, Unrequested
    <3>3. <<s, n>> \notin Requesting /\ <<s, n>> \notin Deploying /\ n # "gate"
      BY <2>2, <3>1 DEF Requesting, Deploying, BeforeRequest
    <3>4. Fits(m, s, n, run[w], link[w])
      BY <1>1, <1>2, <1>5, <2>2, <3>1, <3>2, <3>3 DEF Fits, Course, Relies
    <3> QED BY <3>1, <3>4 DEF Nexts, BeforeRequest, TaskState
  <2>3. CASE s = "OPTIMIZED" /\ a \in BeforeRequest
    <3>1. n = "work"
      BY <1>3, <1>5, <2>3 DEF WorkStates, FromRequest
    <3>2. approval[run[w]] = Absent
      BY <1>1, <1>2, <1>5, <2>3 DEF Fits, Relies, Unrequested
    <3> QED BY <1>1, <1>5, <2>3, <3>1, <3>2
            DEF Fits, Course, Relies, Requesting, Deploying, Nexts
  <2>4. CASE s = "APPROVAL_PENDING" /\ <<a, s>> \in Requesting
    <3>1. n = "work"
      BY <1>3, <1>5, <2>4 DEF WorkStates, FromRequest
    <3>2. /\ link[w] = run[w] /\ approval[run[w]] # Absent
          /\ run[w] \notin sensitive => Granted(run[w])
      BY <1>1, <1>5, <2>4 DEF Fits, Relies
    <3> QED BY <1>1, <1>5, <2>4, <3>1, <3>2
            DEF Fits, Course, Relies, Requesting, Deploying, Unrequested,
                BeforeRequest, Nexts
  <2>5. CASE s \in {"IN_REVIEW", "APPROVED", "DEPLOYING"} /\ <<a, s>> \in Deploying
    <3>1. <<s, n>> \in Deploying /\ n \in Nexts /\ n # "gate"
      BY <1>3, <1>5, <2>5, Successors
         DEF WorkStates, FromRequest, Deploying, Nexts, TaskState
    <3>2. link[w] # NoCall /\ Granted(link[w])
      BY <1>1, <1>5, <2>5 DEF Fits, Relies
    <3>3. ~ Unrequested(s, n) /\ <<s, n>> \notin Requesting
      BY <2>5 DEF Unrequested, Requesting, BeforeRequest
    <3> QED BY <1>1, <1>2, <1>5, <3>1, <3>2, <3>3 DEF Fits, Course, Relies
  <2>6. CASE s = "DEPLOYED"
    <3>1. n = "COMPLETED"
      BY <1>3, <1>5, <2>6, Successors DEF WorkStates, FromRequest
    <3> QED BY <1>1, <1>5, <2>6, <3>1
            DEF Fits, Course, Relies, Requesting, Deploying, Concluding, Unrequested,
                BeforeRequest, Nexts, TaskState
  <2> QED BY <2>1, <2>2, <2>3, <2>4, <2>5, <2>6
<1>6. CASE n # "return" /\ m = "resumed"
  <2>1. \/ s \in {"IN_REVIEW", "APPROVED", "DEPLOYING"} /\ <<a, s>> \in Deploying
        \/ s = "DEPLOYED"
    BY <1>1, <1>2, <1>3, <1>6
       DEF Fits, Course, Deploying, Concluding, BeforeRequest, FromRequest
  <2>2. CASE s \in {"IN_REVIEW", "APPROVED", "DEPLOYING"} /\ <<a, s>> \in Deploying
    <3>1. <<s, n>> \in Deploying /\ n \in Nexts /\ n # "gate"
      BY <1>3, <1>6, <2>2, Successors
         DEF WorkStates, FromRequest, Deploying, Nexts, TaskState
    <3>2. link[w] # NoCall /\ Granted(link[w])
      BY <1>1, <1>6, <2>2 DEF Fits, Relies
    <3> QED BY <1>1, <1>2, <1>6, <3>1, <3>2 DEF Fits, Course, Relies
  <2>3. CASE s = "DEPLOYED"
    <3>1. n = "COMPLETED"
      BY <1>3, <1>6, <2>3, Successors DEF WorkStates, FromRequest
    <3> QED BY <1>1, <1>6, <2>3, <3>1
            DEF Fits, Course, Relies, Deploying, Concluding, Nexts, TaskState
  <2> QED BY <2>1, <2>2, <2>3
<1>7. CASE n # "return" /\ m \notin {"fresh", "resumed"}
  <2>1. m = "direct" /\ s \in BeforeRequest \cup FromRequest /\ n = Successor(s)
    BY <1>1, <1>3, <1>7 DEF WorkStates, Modes
  <2>2. n \in TaskState
    BY <2>1, Successors DEF BeforeRequest, FromRequest, TaskState
  <2> QED BY <1>1, <1>2, <2>1, <2>2 DEF Fits, Course, Relies, Nexts
<1> QED BY <1>4, <1>5, <1>6, <1>7

LEMMA RecordKeeps ==
    ASSUME IInv, NEW w \in Workers, Record(w)
    PROVE  IInv'
<1> DEFINE n == After(mode[w], next[w])
<1>1. next[w] \in TaskState /\ next[w] # "idle"
  BY DEF Record, VALID_TRANSITIONS, Cancellable, ForwardTransitions, TaskState
<1>2. Fits(mode[w], next[w], n, run[w], link[w]) /\ n \in Nexts
  BY <1>1, AfterFits
<1>3. Busy(w)
  BY <1>1, WorkingIsBusy DEF TaskState
<1> HIDE DEF n
<1>4. /\ current_state' = next[w] /\ at' = [at EXCEPT ![w] = next[w]]
      /\ next' = [next EXCEPT ![w] = n]
      /\ UNCHANGED <<kind, sensitive, validated, artifacts, approval, granted, approval_id,
                     outside, mode, run, link, code, history>>
  BY DEF Record, Go, n
<1>5. TypeOK'
  BY <1>1, <1>2, <1>4 DEF IInv, TypeOK, Nexts, outside, history
<1>6. /\ mode' = [mode EXCEPT ![w] = mode[w]] /\ run' = [run EXCEPT ![w] = run[w]]
      /\ link' = [link EXCEPT ![w] = link[w]]
      /\ UNCHANGED <<calls, approval, sensitive, granted, overturned, approval_id,
                       deployments, step, request, verdict>>
  BY <1>4 DEF IInv, TypeOK, outside, history
<1> DEFINE m == mode[w]
           a == next[w]
           r == run[w]
           l == link[w]
<1>7. /\ mode' = [mode EXCEPT ![w] = m] /\ at' = [at EXCEPT ![w] = a]
      /\ link' = [link EXCEPT ![w] = l] /\ run' = [run EXCEPT ![w] = r]
      /\ Fits(m, a, n, r, l)
      /\ a # "idle" => Busy(w) /\ r = run[w]
  BY <1>2, <1>3, <1>4, <1>6
<1> HIDE DEF m, a, r, l
<1> QED BY <1>4, <1>5, <1>6, <1>7, LocalStep

-----------------------------------------------------------------------------
\* A call that does not step, in a world that only moves forwards.
LEMMA OtherFits ==
    ASSUME IInv, NEW v \in Workers, calls' \in Nat, calls <= calls',
           mode'[v] = mode[v], at'[v] = at[v], next'[v] = next[v],
           run'[v] = run[v], link'[v] = link[v],
           sensitive \subseteq sensitive',
           \A r \in Calls : approval[r] # Absent => approval'[r] # Absent,
           \A r \in Calls : Granted(r) => Granted(r)',
           Busy(v) /\ approval[run[v]] = Absent => approval'[run[v]] = Absent
    PROVE  Fits(mode[v], at[v], next[v], run[v], link[v])'
<1> DEFINE m == mode[v]
           a == at[v]
           n == next[v]
           r == run[v]
           l == link[v]
<1>1. Fits(m, a, n, r, l)
  BY DEF IInv
<1>2. calls \in Nat /\ calls <= MaxCalls /\ l \in Calls \cup {NoCall} /\ MaxCalls \in Nat
  BY ExecutionServiceAssumption DEF IInv, TypeOK
<1>3. a # "idle" => r \in Calls
  BY <1>1, <1>2 DEF Fits, Calls
<1>4. a # "idle" /\ approval[r] = Absent => approval'[r] = Absent
  BY DEF Busy
<1>9. m' = m /\ a' = a /\ n' = n /\ r' = r /\ l' = l
  OBVIOUS
<1> HIDE DEF m, a, n, r, l
<1>5. a # "idle" => Relies(m, a, n, r, l)'
  <2> SUFFICES ASSUME a # "idle" PROVE Relies(m, a, n, r, l)'
    OBVIOUS
  <2>1. Relies(m, a, n, r, l) /\ r \in Calls
    BY <1>1, <1>3 DEF Fits
  <2> QED BY <1>2, <1>3, <1>4, <1>9, <2>1 DEF Relies, Granted, Calls
<1>6. Course(m, a, n)'
  BY <1>1, <1>9 DEF Fits, Course
<1>7. a # "idle" => r \in 1 .. calls'
  BY <1>1, <1>2, <1>9 DEF Fits
<1>8. Fits(m, a, n, r, l)'
  BY <1>1, <1>5, <1>6, <1>7, <1>9 DEF Fits
<1> QED BY <1>8 DEF m, a, n, r, l

\* The other calls keep what is theirs when call w steps.
LEMMA OthersStay ==
    ASSUME IInv, NEW w \in Workers, NEW v \in Workers \ {w},
           NEW m, NEW a, NEW n, NEW r, NEW l,
           mode' = [mode EXCEPT ![w] = m], at' = [at EXCEPT ![w] = a],
           next' = [next EXCEPT ![w] = n], run' = [run EXCEPT ![w] = r],
           link' = [link EXCEPT ![w] = l]
    PROVE  /\ mode'[v] = mode[v] /\ at'[v] = at[v] /\ next'[v] = next[v]
           /\ run'[v] = run[v] /\ link'[v] = link[v]
           /\ mode'[w] = m /\ at'[w] = a /\ next'[w] = n
           /\ run'[w] = r /\ link'[w] = l
BY DEF IInv, TypeOK

\* A call that has work to do before it has asked for approval runs afresh.
LEMMA FreshWork ==
    ASSUME IInv, NEW w \in Workers,
           \/ next[w] = "work" /\ at[w] \in BeforeRequest \cup {"OPTIMIZED"}
           \/ next[w] = "store"
    PROVE  /\ mode[w] = "fresh" /\ at[w] \in BeforeRequest \cup {"OPTIMIZED"}
           /\ next[w] = "store" => at[w] \in BeforeRequest
           /\ Busy(w) /\ run[w] \in 1 .. calls /\ run[w] \in Calls
           /\ approval[run[w]] = Absent
<1>1. Busy(w) /\ run[w] \in 1 .. calls
  BY WorkingIsBusy
<1>2. Fits(mode[w], at[w], next[w], run[w], link[w])
  BY DEF IInv
<1>3. next[w] \notin Ending /\ next[w] \notin TaskState
  BY DEF Ending, TaskState
<1>4. /\ mode[w] = "fresh" /\ at[w] \in BeforeRequest \cup {"OPTIMIZED"}
      /\ next[w] = "store" => at[w] \in BeforeRequest
  BY <1>2, <1>3
     DEF Fits, Course, Reviewing, Requesting, Deploying, Concluding, BeforeRequest
<1>5. Unrequested(at[w], next[w])
  BY <1>3, <1>4 DEF Unrequested
<1>6. run[w] \in Calls
  BY <1>1, ExecutionServiceAssumption DEF IInv, TypeOK, Calls
<1> QED BY <1>1, <1>2, <1>4, <1>5, <1>6 DEF Fits, Relies, Busy

\* It goes on before it asks for approval.
LEMMA FreshGoesOn ==
    ASSUME NEW a \in BeforeRequest, NEW r \in 1 .. calls, NEW l,
           NEW n \in BeforeRequest \cup {"OPTIMIZED", "VALIDATION_FAILED", "store"},
           approval[r] = Absent
    PROVE  Fits("fresh", a, n, r, l) /\ n \in Nexts
<1>1. <<a, n>> \notin Requesting /\ <<a, n>> \notin Deploying
  BY DEF Requesting, Deploying, BeforeRequest
<1>2. n \in Nexts /\ a # "idle"
  BY DEF BeforeRequest, Nexts, TaskState
<1> QED BY <1>1, <1>2 DEF Fits, Course, Relies

LEMMA BeginKeeps ==
    ASSUME IInv, NEW w \in Workers, Begin(w)
    PROVE  IInv'
<1>1. /\ at[w] = "idle" /\ calls < MaxCalls /\ calls' = calls + 1
      /\ calls + 1 \in Calls /\ calls \in Nat
      /\ UNCHANGED <<kind, sensitive, validated, database, outside, code, faults,
                     edits, manual, overturned, lost>>
      /\ overlaps' = overlaps \/ (overlaps' = overlaps + 1 /\ MoreMishaps)
  BY Counts DEF Begin, Busy, Calls
<1>15. overlaps' \in 0 .. MaxMishaps
  BY <1>1, Counts DEF MoreMishaps
<1> DEFINE resumes == current_state \in Reviewing
           m == IF resumes THEN "resumed" ELSE "fresh"
           a == IF resumes THEN current_state ELSE "SUBMITTED"
           n == IF resumes THEN "gate" ELSE "PARSING"
           l == IF resumes THEN approval_id ELSE link[w]
           r == calls + 1
<1>2. /\ mode' = [mode EXCEPT ![w] = m] /\ at' = [at EXCEPT ![w] = a]
      /\ next' = [next EXCEPT ![w] = n] /\ link' = [link EXCEPT ![w] = l]
      /\ run' = [run EXCEPT ![w] = r]
  BY DEF Begin, Go, IInv, TypeOK
<1>3. UNCHANGED <<current_state, artifacts, approval, granted, approval_id, deployments,
                  touched, step, request, verdict>>
  BY <1>1 DEF database, outside
<1>4. /\ m \in {"fresh", "resumed"} /\ a \in TaskState /\ n \in Nexts
      /\ l \in Calls \cup {NoCall} /\ r \in Calls /\ a # "idle"
  BY <1>1 DEF IInv, TypeOK, Nexts, TaskState
<1>5. l = NoCall \/ approval[l] # Absent \/ ~ resumes
  BY DEF IInv, Numbered
<1>6. approval'[r] = Absent /\ r \in 1 .. calls'
  BY <1>1, <1>3, <1>4 DEF IInv, Numbered
<1>7. /\ resumes => m = "resumed" /\ a \in Reviewing /\ n = "gate"
      /\ ~ resumes => m = "fresh" /\ a = "SUBMITTED" /\ n = "PARSING"
  OBVIOUS
<1>8. r = calls + 1
  OBVIOUS
<1> HIDE DEF m, a, n, l, r, resumes
<1>9. TypeOK'
  BY <1>1, <1>2, <1>3, <1>4, <1>15, SMTT(60) DEF IInv, TypeOK, Nexts, Calls
<1>11. /\ mode'[w] = m /\ at'[w] = a /\ next'[w] = n /\ link'[w] = l /\ run'[w] = r
       /\ \A v \in Workers \ {w} :
            /\ mode'[v] = mode[v] /\ at'[v] = at[v] /\ next'[v] = next[v]
            /\ link'[v] = link[v] /\ run'[v] = run[v]
  BY <1>2 DEF IInv, TypeOK
<1>12. Numbered'
  <2>1. \A v \in Workers : Busy(v) => run[v] \in 1 .. calls
    BY DEF IInv, Fits, Busy
  <2>2. \A v \in Workers \ {w} : Busy(v)' => run'[v] \in 1 .. calls /\ run'[v] # r
    BY <1>1, <1>8, <1>11, <2>1 DEF Busy
  <2>3. ASSUME NEW u \in Workers, NEW v \in Workers,
               Busy(u)', Busy(v)', run'[u] = run'[v]
        PROVE  u = v
    BY <1>11, <2>2, <2>3 DEF IInv, Numbered, Busy
  <2>4. \A c \in Calls : c > calls' => approval'[c] = Absent
    BY <1>1, <1>3 DEF IInv, Numbered, Calls
  <2>5. approval_id' # NoCall => approval'[approval_id'] # Absent
    BY <1>3 DEF IInv, Numbered
  <2>6. /\ \A c \in granted' : approval'[c] # Absent
        /\ \A c \in Calls : approval'[c] = "APPROVED" => c \in granted'
    BY <1>3 DEF IInv, Numbered
  <2> QED BY <2>3, <2>4, <2>5, <2>6 DEF Numbered
<1>13. Fits(mode[w], at[w], next[w], run[w], link[w])'
  <2>1. CASE resumes
    <3>1. /\ mode'[w] = "resumed" /\ at'[w] \in Reviewing /\ next'[w] = "gate"
          /\ <<at'[w], next'[w]>> \notin Deploying
          /\ link'[w] = NoCall \/ approval'[link'[w]] # Absent
          /\ run'[w] \in 1 .. calls' /\ at'[w] # "idle"
      BY <1>3, <1>4, <1>5, <1>6, <1>7, <1>11, <2>1 DEF Deploying
    <3> QED BY <3>1 DEF Fits, Course, Relies
  <2>2. CASE ~ resumes
    <3>1. /\ mode'[w] = "fresh" /\ at'[w] = "SUBMITTED" /\ next'[w] = "PARSING"
          /\ run'[w] \in 1 .. calls' /\ approval'[run'[w]] = Absent
      BY <1>6, <1>7, <1>11, <2>2
    <3>2. /\ "SUBMITTED" \in BeforeRequest /\ "PARSING" \in BeforeRequest
          /\ <<"SUBMITTED", "PARSING">> \notin Requesting
          /\ <<"SUBMITTED", "PARSING">> \notin Deploying
      BY DEF BeforeRequest, Requesting, Deploying
    <3> QED BY <3>1, <3>2 DEF Fits, Course, Relies
  <2> QED BY <2>1, <2>2
<1>14. ASSUME NEW v \in Workers \ {w}
      PROVE  Fits(mode[v], at[v], next[v], run[v], link[v])'
  <2>1. \A c \in Calls : Granted(c) => Granted(c)'
    BY <1>1, <1>3 DEF Granted
  <2> QED BY <1>1, <1>3, <1>11, <2>1, OtherFits
<1>10. GatedDeployment' /\ Routed'
  BY <1>1, <1>3 DEF IInv, GatedDeployment, Granted, Routed, Behind
<1> QED BY <1>9, <1>10, <1>12, <1>13, <1>14 DEF IInv

LEMMA VanishKeeps ==
    ASSUME IInv, NEW w \in Workers, Vanish(w),
           UNCHANGED <<kind, sensitive, validated, database, outside, calls, overturned>>,
           {faults', edits', manual', overlaps', lost'} \subseteq 0 .. MaxMishaps
    PROVE  IInv'
<1>1. UNCHANGED <<current_state, artifacts, approval, granted, approval_id, deployments,
                  touched, step, request, verdict>>
  BY DEF database, outside
<1>2. /\ mode' = [mode EXCEPT ![w] = "fresh"] /\ at' = [at EXCEPT ![w] = "idle"]
      /\ next' = [next EXCEPT ![w] = "return"] /\ link' = [link EXCEPT ![w] = NoCall]
      /\ run' = [run EXCEPT ![w] = NoCall] /\ code' = [code EXCEPT ![w] = NoCode]
  BY DEF Vanish
<1>3. TypeOK'
  BY <1>1, <1>2 DEF IInv, TypeOK, NoCode, Code
<1> QED BY <1>1, <1>2, <1>3, IdleFits, LocalStep

\* A call does its work and turns to n, and more code may need an approval.
LEMMA WorkStep ==
    ASSUME IInv, TypeOK', NEW w \in Workers, NEW n, Busy(w), Go(w, n),
           UNCHANGED <<mode, run, at, link, calls, approval, granted, overturned, step,
                       request, verdict>>,
           approval_id' # NoCall => approval[approval_id'] # Absent,
           sensitive \subseteq sensitive', GatedDeployment',
           Fits(mode[w], at[w], n, run[w], link[w])
    PROVE  IInv'
<1>1. next'[w] = n /\ \A v \in Workers \ {w} : next'[v] = next[v]
  BY DEF Go, IInv, TypeOK
<1>2. Numbered' /\ Routed'
  BY DEF IInv, Numbered, Busy, Routed, Behind
<1>3. calls' \in Nat /\ calls <= calls' /\ \A r \in Calls : Granted(r) => Granted(r)'
  BY ExecutionServiceAssumption DEF IInv, TypeOK, Granted
<1>4. \A v \in Workers \ {w} : Fits(mode[v], at[v], next[v], run[v], link[v])'
  BY <1>1, <1>3, OtherFits
<1>5. Fits(mode[w], at[w], next[w], run[w], link[w])'
  BY <1>1 DEF Fits, Course, Relies, Granted
<1> QED BY <1>2, <1>4, <1>5 DEF IInv

LEMMA FreshStep ==
    ASSUME IInv, TypeOK', NEW w \in Workers,
           \/ next[w] = "work" /\ at[w] \in BeforeRequest
           \/ next[w] = "store",
           NEW n \in BeforeRequest \cup {"OPTIMIZED", "VALIDATION_FAILED", "store"},
           Go(w, n),
           UNCHANGED <<mode, run, at, link, calls, approval, granted, overturned,
                       approval_id, step, request, verdict>>,
           sensitive \subseteq sensitive', deployments' = deployments
    PROVE  IInv'
<1>1. /\ mode[w] = "fresh" /\ at[w] \in BeforeRequest /\ Busy(w)
      /\ run[w] \in 1 .. calls /\ approval[run[w]] = Absent
  BY FreshWork
<1>2. Fits(mode[w], at[w], n, run[w], link[w])
  BY <1>1, FreshGoesOn
<1>3. GatedDeployment' /\ (approval_id' # NoCall => approval[approval_id'] # Absent)
  BY DEF IInv, GatedDeployment, Granted, Numbered
<1> QED BY <1>1, <1>2, <1>3, WorkStep

LEMMA DevelopKeeps ==
    ASSUME IInv, NEW w \in Workers, Develop(w)
    PROVE  IInv'
<1>1. /\ next[w] = "work" /\ at[w] \in BeforeRequest /\ Go(w, "store")
      /\ UNCHANGED <<kind, validated, database, deployments, step, request, verdict,
                     mode, run, at, link, history>>
      /\ sensitive' \in {sensitive, sensitive \cup {run[w]}}
      /\ touched' \in {touched, touched \cup {run[w]}}
      /\ code' = [code EXCEPT ![w] = [run |-> run[w], stage |-> "generated"]]
  BY DEF Develop, Does, BeforeRequest, routes
<1>2. run[w] \in Calls
  BY <1>1, FreshWork
<1>3. UNCHANGED <<current_state, artifacts, approval, granted, approval_id, calls, faults,
                  edits, manual, overlaps, overturned, lost>>
  BY <1>1 DEF database, history
<1>4. TypeOK'
  BY <1>1, <1>2, <1>3 DEF IInv, TypeOK, Code, Go
<1> QED BY <1>1, <1>3, <1>4, FreshStep

LEMMA StoreKeeps ==
    ASSUME IInv, NEW w \in Workers, Store(w)
    PROVE  IInv'
<1> DEFINE n == Successor(at[w])
<1>1. /\ next[w] = "store" /\ Go(w, n) /\ artifacts' = Append(artifacts, code[w])
      /\ UNCHANGED <<kind, sensitive, validated, current_state, approval, granted,
                     approval_id, outside, mode, run, at, link, code, history>>
  BY DEF Store
<1>2. at[w] \in BeforeRequest
  BY <1>1, FreshWork
<1>3. n \in BeforeRequest \cup {"OPTIMIZED"} /\ n \in Nexts
  BY <1>2, Successors DEF Nexts, BeforeRequest, TaskState
<1> HIDE DEF n
<1>4. TypeOK'
  BY <1>1, <1>3 DEF IInv, TypeOK, Nexts, Go, outside, history
<1>5. UNCHANGED <<deployments, calls, overturned, step, request, verdict>>
  BY <1>1 DEF outside, history
<1> QED BY <1>1, <1>3, <1>4, <1>5, FreshStep

LEMMA ValidateKeeps ==
    ASSUME IInv, NEW w \in Workers, Validate(w)
    PROVE  IInv'
<1>1. PICK n \in {"VALIDATION_PASSED", "VALIDATION_FAILED"} :
         /\ next[w] = "work" /\ at[w] \in BeforeRequest /\ Go(w, n)
         /\ validated' \in {validated, validated \cup {code[w]}}
         /\ UNCHANGED <<kind, sensitive, database, outside, mode, run, at, link,
                        code, history>>
  BY DEF Validate, Does, BeforeRequest
<1>2. /\ n \in BeforeRequest \cup {"VALIDATION_FAILED"} /\ n \in Nexts
      /\ UNCHANGED <<current_state, artifacts, approval, granted, approval_id, deployments,
                     touched, step, request, verdict, calls, faults, edits, manual,
                     overlaps, overturned, lost>>
  BY <1>1 DEF BeforeRequest, Nexts, TaskState, database, outside, history
<1>3. TypeOK'
  BY <1>1, <1>2 DEF IInv, TypeOK, Nexts, Go
<1> QED BY <1>1, <1>2, <1>3, FreshStep

LEMMA OptimizeKeeps ==
    ASSUME IInv, NEW w \in Workers, Optimize(w)
    PROVE  IInv'
<1>1. PICK c \in {code[w], [run |-> run[w], stage |-> "optimized"]} :
         /\ next[w] = "work" /\ at[w] \in BeforeRequest /\ Go(w, "store")
         /\ code' = [code EXCEPT ![w] = c]
         /\ UNCHANGED <<world, mode, run, at, link>>
  BY DEF Optimize, Does, BeforeRequest
<1>2. run[w] \in Calls
  BY <1>1, FreshWork
<1>3. UNCHANGED <<kind, sensitive, validated, current_state, artifacts, approval, granted,
                  approval_id, deployments, touched, step, request, verdict, calls, faults,
                  edits, manual, overlaps, overturned, lost>>
  BY <1>1 DEF world, database, outside, history
<1>4. c \in Code
  BY <1>2 DEF IInv, TypeOK, Code
<1>5. TypeOK'
  BY <1>1, <1>3, <1>4 DEF IInv, TypeOK, Go
<1> QED BY <1>1, <1>3, <1>5, FreshStep

LEMMA ItemsOf == ASSUME NEW S, NEW s \in Seq(S) PROVE ToSet(s) \subseteq S
<1>1. DOMAIN s = 1 .. Len(s) /\ \A i \in 1 .. Len(s) : s[i] \in S
  OBVIOUS
<1> QED BY <1>1 DEF ToSet

LEMMA DeploymentsAreTyped ==
    ASSUME IInv
    PROVE  \A d \in ToSet(deployments) : d.approval \in Calls \cup {NoCall}
<1>1. deployments \in Seq([code : Code, approval : Calls \cup {NoCall}])
  BY DEF IInv, TypeOK
<1>2. ToSet(deployments) \subseteq [code : Code, approval : Calls \cup {NoCall}]
  BY <1>1, ItemsOf
<1> QED BY <1>2

\* From here on the call is known by the approval it has requested.
LEMMA RequestApprovalKeeps ==
    ASSUME IInv, NEW w \in Workers, RequestApproval(w)
    PROVE  IInv'
<1> DEFINE s == IF run[w] \in sensitive THEN "PENDING" ELSE "APPROVED"
<1>1. /\ next[w] = "work" /\ at[w] = "OPTIMIZED"
      /\ approval' = [approval EXCEPT ![run[w]] = s]
      /\ link' = [link EXCEPT ![w] = run[w]]
      /\ granted' = IF run[w] \in sensitive THEN granted ELSE granted \cup {run[w]}
      /\ next' = [next EXCEPT ![w] = "link"]
      /\ UNCHANGED <<kind, sensitive, validated, current_state, artifacts,
                     approval_id, outside, mode, run, at, code, history>>
  BY DEF RequestApproval, Does, Go
<1>2. /\ mode[w] = "fresh" /\ Busy(w) /\ run[w] \in 1 .. calls /\ run[w] \in Calls
      /\ approval[run[w]] = Absent
  BY <1>1, FreshWork
<1>3. UNCHANGED <<deployments, touched, step, request, verdict, calls, faults, edits,
                  manual, overlaps, overturned, lost>>
  BY <1>1 DEF outside, history
<1>4. /\ s \in {"PENDING", "APPROVED"} /\ s # Absent
      /\ run[w] \notin sensitive => s = "APPROVED"
      /\ s = "APPROVED" => run[w] \notin sensitive
  BY DEF Absent
<1> HIDE DEF s
<1>5. TypeOK'
  BY <1>1, <1>2, <1>3, <1>4 DEF IInv, TypeOK
<1>6. /\ \A r \in Calls \ {run[w]} : approval'[r] = approval[r]
      /\ approval'[run[w]] = s
      /\ approval' \in [Calls -> {Absent, "PENDING", "APPROVED", "REJECTED", "EXPIRED"}]
  BY <1>1, <1>2, <1>5 DEF IInv, TypeOK
<1>7. /\ \A r \in Calls : approval[r] # Absent => approval'[r] # Absent
      /\ \A r \in Calls : Granted(r) => Granted(r)'
  <2>1. \A r \in Calls : r \in granted => r # run[w] /\ r \in granted'
    BY <1>1, <1>2 DEF IInv, Numbered
  <2> QED BY <1>2, <1>3, <1>4, <1>6, <2>1 DEF Absent, Granted
<1>8. calls' \in Nat /\ calls <= calls'
  BY <1>3, ExecutionServiceAssumption DEF IInv, TypeOK
<1>9. ASSUME NEW v \in Workers \ {w}
      PROVE  Fits(mode[v], at[v], next[v], run[v], link[v])'
  <2>1. Busy(v) => run[v] # run[w]
    BY <1>2 DEF IInv, Numbered
  <2>2. Busy(v) => run[v] \in Calls
    BY ExecutionServiceAssumption DEF IInv, TypeOK, Fits, Busy, Calls
  <2>3. Busy(v) /\ approval[run[v]] = Absent => approval'[run[v]] = Absent
    BY <1>6, <2>1, <2>2
  <2>4. /\ mode'[v] = mode[v] /\ at'[v] = at[v] /\ next'[v] = next[v]
        /\ run'[v] = run[v] /\ link'[v] = link[v]
    BY <1>1 DEF IInv, TypeOK
  <2> QED BY <1>1, <1>7, <1>8, <2>3, <2>4, OtherFits
<1>10. Fits(mode[w], at[w], next[w], run[w], link[w])'
  <2>1. /\ mode'[w] = "fresh" /\ at'[w] = "OPTIMIZED" /\ next'[w] = "link"
        /\ link'[w] = run'[w] /\ run'[w] \in 1 .. calls'
        /\ approval'[run'[w]] # Absent
        /\ run'[w] \notin sensitive' =>
               run'[w] \in granted' /\ approval'[run'[w]] = "APPROVED"
    BY <1>1, <1>2, <1>3, <1>4, <1>6 DEF IInv, TypeOK
  <2>2. /\ <<"OPTIMIZED", "link">> \in Requesting
        /\ <<"OPTIMIZED", "link">> \notin Deploying
        /\ ~ Unrequested("OPTIMIZED", "link")
    BY DEF Requesting, Deploying, Unrequested, BeforeRequest
  <2> QED BY <2>1, <2>2 DEF Fits, Course, Relies, Granted
<1>11. Numbered'
  <2>1. \A r \in Calls : r > calls' => approval'[r] = Absent
    BY <1>2, <1>3, <1>6, ExecutionServiceAssumption DEF IInv, Numbered, TypeOK
  <2>2. approval_id' # NoCall => approval'[approval_id'] # Absent
    BY <1>1, <1>7 DEF IInv, Numbered, TypeOK
  <2>3. /\ \A r \in granted' : approval'[r] # Absent
        /\ \A r \in Calls : approval'[r] = "APPROVED" => r \in granted'
    <3>1. /\ \A r \in granted : approval[r] # Absent /\ r \in Calls
          /\ \A r \in Calls : approval[r] = "APPROVED" => r \in granted
          /\ run[w] \notin granted
      BY <1>2 DEF IInv, Numbered, TypeOK
    <3>2. \A r \in Calls \ {run[w]} : r \in granted' <=> r \in granted
      BY <1>1
    <3>4. granted' \subseteq Calls
      BY <1>1, <1>2, <3>1
    <3>5. s = "APPROVED" => run[w] \in granted'
      BY <1>1, <1>4
    <3> QED BY <1>4, <1>6, <3>1, <3>2, <3>4, <3>5
  <2> QED BY <1>1, <2>1, <2>2, <2>3 DEF IInv, Numbered, Busy
<1>13. Routed'
  <2> SUFFICES ASSUME NEW d \in Deciders, step'[d] # "idle"
               PROVE  Behind(request[d], verdict[d])'
    BY DEF Routed
  <2>1. Behind(request[d], verdict[d]) /\ request[d] # run[w]
    BY <1>2, <1>3 DEF IInv, Routed, Behind
  <2> QED BY <1>1, <1>2, <1>3, <1>6, <2>1 DEF Behind
<1>12. GatedDeployment'
  <2>1. \A d \in ToSet(deployments) : d.approval \in Calls \cup {NoCall}
    BY DeploymentsAreTyped
  <2> QED BY <1>3, <1>7, <2>1 DEF IInv, GatedDeployment, Granted, NoCall, TypeOK
<1> QED BY <1>5, <1>9, <1>10, <1>11, <1>12, <1>13 DEF IInv

LEMMA LinkApprovalKeeps ==
    ASSUME IInv, NEW w \in Workers, LinkApproval(w)
    PROVE  IInv'
<1>1. /\ next[w] = "link" /\ Go(w, "APPROVAL_PENDING") /\ approval_id' = link[w]
      /\ UNCHANGED <<kind, sensitive, validated, current_state, artifacts, approval,
                     granted, outside, mode, run, at, link, code, history>>
  BY DEF LinkApproval
<1>2. Busy(w) /\ run[w] \in 1 .. calls /\ Fits(mode[w], at[w], next[w], run[w], link[w])
  BY <1>1, WorkingIsBusy DEF IInv
<1>3. mode[w] = "fresh" /\ at[w] = "OPTIMIZED"
  BY <1>1, <1>2
     DEF Fits, Course, Ending, Requesting, Deploying, Concluding, TaskState,
         BeforeRequest
<1>4. /\ <<at[w], next[w]>> \in Requesting
      /\ <<at[w], "APPROVAL_PENDING">> \in Requesting
      /\ <<at[w], "APPROVAL_PENDING">> \notin Deploying
      /\ ~ Unrequested(at[w], "APPROVAL_PENDING")
  BY <1>1, <1>3 DEF Requesting, Deploying, Unrequested, BeforeRequest
<1>5. /\ link[w] = run[w] /\ approval[run[w]] # Absent
      /\ run[w] \notin sensitive => Granted(run[w])
  BY <1>2, <1>3, <1>4 DEF Fits, Relies, Busy
<1>6. Fits(mode[w], at[w], "APPROVAL_PENDING", run[w], link[w])
  BY <1>2, <1>3, <1>4, <1>5 DEF Fits, Course, Relies
<1>7. UNCHANGED <<deployments, touched, step, request, verdict, calls, faults, edits,
                  manual, overlaps, overturned, lost>>
  BY <1>1 DEF outside, history
<1>8. TypeOK'
  BY <1>1, <1>7 DEF IInv, TypeOK, Go, TaskState
<1>9. GatedDeployment'
  BY <1>1, <1>7 DEF IInv, GatedDeployment, Granted
<1>10. approval_id' # NoCall => approval[approval_id'] # Absent
  BY <1>1, <1>5
<1> QED BY <1>1, <1>2, <1>6, <1>7, <1>8, <1>9, <1>10, WorkStep

\* A call that deploys has a granted approval in its hands.
LEMMA GrantedWork ==
    ASSUME IInv, NEW w \in Workers, next[w] = "work", at[w] \in {"APPROVED", "DEPLOYING"}
    PROVE  /\ mode[w] \in {"fresh", "resumed"} /\ Busy(w) /\ run[w] \in 1 .. calls
           /\ link[w] # NoCall /\ Granted(link[w])
<1>1. Busy(w) /\ run[w] \in 1 .. calls /\ Fits(mode[w], at[w], next[w], run[w], link[w])
  BY WorkingIsBusy DEF IInv
<1>2. mode[w] \in {"fresh", "resumed"}
  BY <1>1 DEF Fits, Course, Ending, TaskState
<1>3. <<at[w], next[w]>> \in Deploying
  BY DEF Deploying
<1> QED BY <1>1, <1>2, <1>3 DEF Fits, Relies, Busy

LEMMA LoadLatestKeeps ==
    ASSUME IInv, NEW w \in Workers, LoadLatest(w)
    PROVE  IInv'
<1>1. /\ next[w] = "work" /\ at[w] = "APPROVED"
      /\ UNCHANGED <<world, mode, run, at, link>>
  BY DEF LoadLatest, Does
<1>2. PICK n \in {"handler", "DEPLOYING"} : Go(w, n)
  BY DEF LoadLatest
<1>3. /\ mode[w] \in {"fresh", "resumed"} /\ Busy(w) /\ run[w] \in 1 .. calls
      /\ link[w] # NoCall /\ Granted(link[w])
  BY <1>1, GrantedWork
<1>4. Fits(mode[w], at[w], n, run[w], link[w])
  <2>1. CASE n = "handler"
    BY <1>3, <2>1, EndingFits DEF Ending, Busy
  <2>2. CASE n = "DEPLOYING"
    <3>1. /\ <<"APPROVED", "DEPLOYING">> \in Deploying
          /\ <<"APPROVED", "DEPLOYING">> \notin Requesting
          /\ ~ Unrequested("APPROVED", "DEPLOYING")
      BY DEF Deploying, Requesting, Unrequested, BeforeRequest
    <3> QED BY <1>1, <1>3, <2>2, <3>1 DEF Fits, Course, Relies
  <2> QED BY <2>1, <2>2
<1>5. code' \in [Workers -> Code]
  <2>1. CASE artifacts = <<>>
    BY <2>1 DEF LoadLatest, IInv, TypeOK
  <2>2. CASE artifacts # <<>>
    <3>1. artifacts \in Seq(Code)
      BY DEF IInv, TypeOK
    <3>2. Last(artifacts) \in Code
      BY <2>2, <3>1 DEF Last
    <3> QED BY <2>2, <3>2 DEF LoadLatest, IInv, TypeOK
  <2> QED BY <2>1, <2>2
<1>6. UNCHANGED <<kind, sensitive, validated, current_state, artifacts, approval, granted,
                  approval_id, deployments, touched, step, request, verdict, calls, faults,
                  edits, manual, overlaps, overturned, lost>>
  BY <1>1 DEF world, database, outside, history
<1>7. TypeOK'
  BY <1>1, <1>2, <1>5, <1>6 DEF IInv, TypeOK, Go, TaskState
<1>8. GatedDeployment' /\ (approval_id' # NoCall => approval[approval_id'] # Absent)
  BY <1>6 DEF IInv, GatedDeployment, Granted, Numbered
<1> QED BY <1>1, <1>2, <1>3, <1>4, <1>6, <1>7, <1>8, WorkStep

LEMMA ItemsOfAppend ==
    ASSUME NEW S, NEW s \in Seq(S), NEW x \in S
    PROVE  ToSet(Append(s, x)) = ToSet(s) \cup {x}
<1>1. /\ DOMAIN s = 1 .. Len(s) /\ Len(s) \in Nat
      /\ DOMAIN Append(s, x) = 1 .. Len(s) + 1
      /\ \A i \in 1 .. Len(s) : Append(s, x)[i] = s[i]
      /\ Append(s, x)[Len(s) + 1] = x
  OBVIOUS
<1> QED BY <1>1 DEF ToSet

LEMMA SubmitKeeps ==
    ASSUME IInv, NEW w \in Workers, Submit(w)
    PROVE  IInv'
<1> DEFINE d == [code |-> code[w], approval |-> link[w]]
           D == [code : Code, approval : Calls \cup {NoCall}]
<1>1. /\ next[w] = "work" /\ at[w] = "DEPLOYING" /\ Go(w, "await")
      /\ deployments' = Append(deployments, d)
      /\ UNCHANGED <<kind, sensitive, validated, database, touched, step, request,
                     verdict, mode, run, at, link, code, history>>
  BY DEF Submit, Does, routes
<1>2. /\ mode[w] \in {"fresh", "resumed"} /\ Busy(w) /\ run[w] \in 1 .. calls
      /\ link[w] # NoCall /\ Granted(link[w])
  BY <1>1, GrantedWork
<1>3. d \in D /\ deployments \in Seq(D) /\ d.approval = link[w]
  BY DEF IInv, TypeOK
<1>4. UNCHANGED <<current_state, artifacts, approval, granted, approval_id, calls, faults,
                  edits, manual, overlaps, overturned, lost>>
  BY <1>1 DEF database, history
<1> HIDE DEF d, D
<1>5. ToSet(deployments') = ToSet(deployments) \cup {d} /\ deployments' \in Seq(D)
  BY <1>1, <1>3, ItemsOfAppend
<1>6. GatedDeployment'
  BY <1>2, <1>3, <1>4, <1>5 DEF IInv, GatedDeployment, Granted
<1>7. TypeOK'
  BY <1>1, <1>4, <1>5 DEF IInv, TypeOK, Go, D
<1>8. Fits(mode[w], at[w], "await", run[w], link[w])
  <2>1. /\ <<"DEPLOYING", "await">> \in Deploying
        /\ <<"DEPLOYING", "await">> \notin Requesting
        /\ ~ Unrequested("DEPLOYING", "await")
    BY DEF Deploying, Requesting, Unrequested, BeforeRequest
  <2> QED BY <1>1, <1>2, <2>1 DEF Fits, Course, Relies
<1>9. approval_id' # NoCall => approval[approval_id'] # Absent
  BY <1>4 DEF IInv, Numbered
<1> QED BY <1>1, <1>2, <1>4, <1>6, <1>7, <1>8, <1>9, WorkStep

-----------------------------------------------------------------------------
LEMMA ReturnKeeps ==
    ASSUME IInv, NEW w \in Workers, Return(w)
    PROVE  IInv'
<1>1. UNCHANGED <<kind, sensitive, validated, database, outside, calls, faults,
                  edits, manual, overlaps, overturned, lost>>
  BY DEF Return, world, history
<1>2. {faults', edits', manual', overlaps', overturned', lost'} \subseteq 0 .. MaxMishaps
  BY <1>1 DEF IInv, TypeOK
<1> QED BY <1>1, <1>2, VanishKeeps DEF Return

LEMMA RecordRefusedKeeps ==
    ASSUME IInv, NEW w \in Workers, RecordRefused(w)
    PROVE  IInv'
<1>1. Turn(w, "handler") /\ next[w] # "return"
  BY DEF RecordRefused, TaskState
<1> QED BY <1>1, WorkingIsBusy, TurnToEnd DEF Ending

LEMMA AgentFailsKeeps ==
    ASSUME IInv, NEW w \in Workers, AgentFails(w)
    PROVE  IInv'
<1>1. /\ next[w] = "work" /\ Go(w, "handler") /\ at[w] \in BeforeRequest
      /\ touched' \in {touched, touched \cup {run[w]}}
      /\ UNCHANGED <<kind, sensitive, validated, database, deployments, step, request,
                     verdict, mode, run, at, link, code, history>>
  BY DEF AgentFails, Does, BeforeRequest, routes
<1>2. Busy(w) /\ run[w] \in 1 .. calls /\ run[w] \in Calls
  BY <1>1, FreshWork
<1>3. UNCHANGED <<current_state, artifacts, approval, granted, approval_id, calls, faults,
                  edits, manual, overlaps, overturned, lost>>
  BY <1>1 DEF database, history
<1>4. TypeOK'
  BY <1>1, <1>2, <1>3 DEF IInv, TypeOK, Go
<1>5. Fits(mode[w], at[w], "handler", run[w], link[w])
  BY <1>2, EndingFits DEF Ending, Busy
<1>6. GatedDeployment' /\ (approval_id' # NoCall => approval[approval_id'] # Absent)
  BY <1>1, <1>3 DEF IInv, GatedDeployment, Granted, Numbered
<1> QED BY <1>1, <1>2, <1>3, <1>4, <1>5, <1>6, WorkStep

\* A call that goes over to a mode in which it relies on nothing.
LEMMA ModeStep ==
    ASSUME IInv, NEW w \in Workers, Busy(w),
           NEW m \in Modes, NEW a \in TaskState, NEW n \in Nexts,
           n \in Ending \/ (m \notin {"fresh", "resumed"} /\ n \in TaskState),
           mode' = [mode EXCEPT ![w] = m], at' = [at EXCEPT ![w] = a], Go(w, n),
           UNCHANGED <<kind, sensitive, validated, database, outside, calls, overturned,
                       run, link, code>>,
           {faults', edits', manual', overlaps', lost'} \subseteq 0 .. MaxMishaps
    PROVE  IInv'
<1>1. UNCHANGED <<current_state, artifacts, approval, granted, approval_id, deployments,
                  touched, step, request, verdict>>
  BY DEF database, outside
<1>2. TypeOK'
  BY <1>1 DEF IInv, TypeOK, Modes, Nexts, Go
<1>3. a # "idle" /\ run[w] \in 1 .. calls
  BY DEF IInv, Fits, Busy, TaskState
<1>4. Fits(m, a, n, run[w], link[w])
  <2>1. CASE n \in Ending
    BY <1>3, <2>1, EndingFits
  <2>2. CASE m \notin {"fresh", "resumed"} /\ n \in TaskState
    BY <1>3, <2>2 DEF Fits, Course, Relies
  <2> QED BY <2>1, <2>2
<1> DEFINE r == run[w]
           l == link[w]
<1>5. /\ run' = [run EXCEPT ![w] = r] /\ link' = [link EXCEPT ![w] = l]
      /\ next' = [next EXCEPT ![w] = n]
      /\ Fits(m, a, n, r, l) /\ (a # "idle" => Busy(w) /\ r = run[w])
  BY <1>4 DEF IInv, TypeOK, Go
<1> HIDE DEF r, l
<1> QED BY <1>1, <1>2, <1>5, LocalStep

LEMMA ExecuteDirectKeeps ==
    ASSUME IInv, NEW w \in Workers, ExecuteDirect(w)
    PROVE  IInv'
<1>1. /\ at[w] = "IN_DEVELOPMENT" /\ Busy(w) /\ Go(w, "CODE_GENERATED")
      /\ mode' = [mode EXCEPT ![w] = "direct"]
      /\ UNCHANGED <<world, run, at, link, code>>
  BY DEF ExecuteDirect, Does, Busy
<1>2. at' = [at EXCEPT ![w] = "IN_DEVELOPMENT"]
  BY <1>1 DEF IInv, TypeOK
<1>3. /\ "IN_DEVELOPMENT" \in TaskState /\ "CODE_GENERATED" \in TaskState
      /\ "CODE_GENERATED" \in Nexts /\ "direct" \in Modes
  BY DEF TaskState, Nexts, Modes
<1>4. /\ UNCHANGED <<kind, sensitive, validated, database, outside, calls, overturned>>
      /\ {faults', edits', manual', overlaps', lost'} \subseteq 0 .. MaxMishaps
  BY <1>1 DEF world, history, IInv, TypeOK
<1> QED BY <1>1, <1>2, <1>3, <1>4, ModeStep

LEMMA HandleKeeps ==
    ASSUME IInv, NEW w \in Workers, Handle(w) \/ HandleDirect(w)
    PROVE  IInv'
<1>1. PICK m \in {"cleanup", "direct_cleanup"},
           n \in {"CANCELLED", "DEV_FAILED", "return"} :
         /\ next[w] = "handler" /\ Go(w, n)
         /\ at' = [at EXCEPT ![w] = current_state] /\ mode' = [mode EXCEPT ![w] = m]
         /\ UNCHANGED <<world, run, link, code>>
  BY DEF Handle, HandleDirect
<1>2. Busy(w)
  BY <1>1, WorkingIsBusy
<1>3. /\ m \in Modes /\ n \in Nexts /\ current_state \in TaskState
      /\ n \in Ending \/ n \in TaskState
  BY DEF Modes, Nexts, Ending, TaskState, IInv, TypeOK
<1>4. /\ UNCHANGED <<kind, sensitive, validated, database, outside, calls, overturned>>
      /\ {faults', edits', manual', overlaps', lost'} \subseteq 0 .. MaxMishaps
  BY <1>1 DEF world, history, IInv, TypeOK
<1> DEFINE a == current_state
<1>5. a \in TaskState /\ at' = [at EXCEPT ![w] = a]
  BY <1>1, <1>3
<1> HIDE DEF a
<1> QED BY <1>1, <1>2, <1>3, <1>4, <1>5, ModeStep

LEMMA FaultIs ==
    ASSUME IInv, Fault
    PROVE  /\ UNCHANGED <<kind, sensitive, validated, database, outside, calls, overturned>>
           /\ {faults', edits', manual', overlaps', lost'} \subseteq 0 .. MaxMishaps
<1>1. /\ {faults, edits, manual, overlaps, overturned, lost} \subseteq 0 .. MaxMishaps
      /\ MaxMishaps \in Nat
  BY ExecutionServiceAssumption DEF IInv, TypeOK
<1> QED BY <1>1 DEF Fault, MoreMishaps

LEMMA FailKeeps ==
    ASSUME IInv, NEW w \in Workers, Fail(w)
    PROVE  IInv'
<1>1. PICK m \in {"fresh", mode[w]}, n \in Ending :
         /\ Go(w, n) /\ mode' = [mode EXCEPT ![w] = m]
         /\ Busy(w) /\ Fault /\ UNCHANGED <<run, at, link, code>>
  BY DEF Fail, Ending
<1>2. at[w] \in TaskState /\ at' = [at EXCEPT ![w] = at[w]] /\ m \in Modes /\ n \in Nexts
  BY <1>1 DEF IInv, TypeOK, Busy, Modes, Nexts, Ending
<1> DEFINE a == at[w]
<1>3. a \in TaskState /\ at' = [at EXCEPT ![w] = a]
  BY <1>2
<1> HIDE DEF a
<1> QED BY <1>1, <1>2, <1>3, FaultIs, ModeStep

LEMMA CrashKeeps ==
    ASSUME IInv, NEW w \in Workers, Crash(w)
    PROVE  IInv'
BY FaultIs, VanishKeeps DEF Crash

\* A decision changes a row, which had been requested, and what was granted stays so.
LEMMA RowChanges ==
    ASSUME IInv, TypeOK', Routed', NEW r \in Calls, approval[r] # Absent,
           NEW v \in Verdicts, approval' = [approval EXCEPT ![r] = v],
           granted' = IF v = "APPROVED" THEN granted \cup {r} ELSE granted,
           Granted(r) => Granted(r)',
           UNCHANGED <<sensitive, approval_id, deployments, mode, run, at, next, link,
                       calls>>,
           overturned' = 0 => overturned = 0
    PROVE  IInv'
<1>1. /\ \A c \in Calls : c # r => approval'[c] = approval[c]
      /\ approval'[r] = v /\ v # Absent
  BY DEF IInv, TypeOK, Absent, Verdicts
<1>2. /\ \A c \in Calls : approval[c] # Absent => approval'[c] # Absent
      /\ \A c \in Calls : approval[c] = Absent => approval'[c] = Absent
  BY <1>1
<1>3. \A c \in Calls : Granted(c) => Granted(c)'
  BY <1>1 DEF Granted
<1>4. calls \in Nat /\ calls <= calls
  BY ExecutionServiceAssumption DEF IInv, TypeOK
<1>5. ASSUME NEW u \in Workers
      PROVE  Fits(mode[u], at[u], next[u], run[u], link[u])'
  <2>1. Busy(u) => run[u] \in Calls
    BY RunsAreCalls
  <2> QED BY <1>2, <1>3, <1>4, <2>1, OtherFits
<1>6. Numbered'
  <2>1. /\ \A c \in granted' : approval'[c] # Absent
        /\ \A c \in Calls : approval'[c] = "APPROVED" => c \in granted'
    BY <1>1 DEF IInv, Numbered, TypeOK
  <2> QED BY <1>2, <2>1 DEF IInv, TypeOK, Numbered, Busy
<1>7. GatedDeployment'
  <2> SUFFICES ASSUME NEW d \in ToSet(deployments) PROVE Granted(d.approval)'
    BY DEF GatedDeployment
  <2>1. Granted(d.approval) /\ d.approval \in Calls
    BY DEF IInv, GatedDeployment, Granted, TypeOK
  <2> QED BY <1>3, <2>1 DEF Granted
<1> QED BY <1>5, <1>6, <1>7 DEF IInv

\* A decision of what was granted overturns it, and is counted.
LEMMA DecideKeeps ==
    ASSUME IInv, NEW d \in Deciders, NEW r \in Calls, NEW v \in Verdicts, Decide(d, r, v)
    PROVE  IInv'
<1>1. /\ r \in sensitive /\ approval[r] # Absent /\ step[d] = "idle"
      /\ approval' = [approval EXCEPT ![r] = v]
      /\ granted' = IF v = "APPROVED" THEN granted \cup {r} ELSE granted
      /\ \/ approval[r] = "PENDING" /\ overturned' = overturned
         \/ overturned' = overturned + 1 /\ MoreMishaps
      /\ UNCHANGED <<kind, sensitive, validated, current_state, artifacts, approval_id,
                     deployments, touched, local, calls, faults, edits, manual, overlaps,
                     lost>>
  BY DEF Decide, Decision
<1>2. \/ UNCHANGED <<step, request, verdict>>
      \/ /\ v # "EXPIRED" /\ step' = [step EXCEPT ![d] = "sync"]
         /\ request' = [request EXCEPT ![d] = r] /\ verdict' = [verdict EXCEPT ![d] = v]
  BY DEF Decide, Decision, routes
<1>3. UNCHANGED <<mode, run, at, next, link, code>>
  BY <1>1 DEF local
<1>4. overturned' \in 0 .. MaxMishaps /\ (overturned' = 0 => overturned = 0)
      /\ (overturned' = 0 => approval[r] = "PENDING") /\ overturned \in Nat
  BY <1>1, Counts DEF MoreMishaps
<1>5. approval' \in [Calls -> {Absent, "PENDING", "APPROVED", "REJECTED", "EXPIRED"}]
  BY <1>1 DEF IInv, TypeOK, Verdicts
<1>6. /\ step' \in [Deciders -> {"idle", "sync", "reviewing", "conclude", "concluding",
                                  "commit"}]
      /\ request' \in [Deciders -> Calls \cup {NoCall}]
      /\ verdict' \in [Deciders -> {"APPROVED", "REJECTED", "NONE"}]
  <2>1. /\ step \in [Deciders -> {"idle", "sync", "reviewing", "conclude", "concluding",
                                  "commit"}]
        /\ request \in [Deciders -> Calls \cup {NoCall}]
        /\ verdict \in [Deciders -> {"APPROVED", "REJECTED", "NONE"}]
    BY DEF IInv, TypeOK
  <2> QED BY <1>2, <2>1 DEF Verdicts
<1>7. TypeOK'
  BY <1>1, <1>3, <1>4, <1>5, <1>6 DEF IInv, TypeOK
<1>8. /\ \A c \in Calls : c # r => approval'[c] = approval[c]
      /\ approval'[r] = v /\ v # Absent
  BY <1>1 DEF IInv, TypeOK, Absent, Verdicts
<1>9. Routed'
  <2> SUFFICES ASSUME NEW e \in Deciders, step'[e] # "idle"
               PROVE  Behind(request[e], verdict[e])'
    BY DEF Routed
  <2>1. CASE e = d /\ step' # step
    BY <1>1, <1>2, <1>8, <2>1 DEF Behind, IInv, TypeOK, Verdicts
  <2>2. CASE e # d \/ step' = step
    <3>1. step[e] # "idle" /\ request'[e] = request[e] /\ verdict'[e] = verdict[e]
      BY <1>1, <1>2, <2>2 DEF IInv, TypeOK
    <3>2. Behind(request[e], verdict[e])
      BY <3>1 DEF IInv, Routed
    <3>3. overturned' = 0 => request[e] # r
      BY <1>4, <3>2 DEF Behind
    <3> QED BY <1>1, <1>4, <1>8, <3>1, <3>2, <3>3 DEF Behind
  <2> QED BY <2>1, <2>2
<1>10. Granted(r) => Granted(r)'
  BY <1>1, <1>4 DEF Granted
<1> QED BY <1>1, <1>3, <1>4, <1>7, <1>9, <1>10, RowChanges

\* The route's own update of the row repeats what was decided, unless another decision has
\* been made since.
LEMMA RouteCommitsKeeps ==
    ASSUME IInv, NEW d \in Deciders, RouteCommits(d)
    PROVE  IInv'
<1>1. /\ step[d] = "commit" /\ approval' = [approval EXCEPT ![request[d]] = verdict[d]]
      /\ step' = [step EXCEPT ![d] = "idle"] /\ request' = [request EXCEPT ![d] = NoCall]
      /\ verdict' = [verdict EXCEPT ![d] = "NONE"]
      /\ UNCHANGED <<kind, sensitive, validated, current_state, artifacts, granted,
                     approval_id, deployments, touched, mode, run, at, next, link, code,
                     calls, faults, edits, manual, overlaps, overturned, lost>>
  BY DEF RouteCommits, RouteEnds, local, history
<1>2. PICK r \in Calls, v \in {"APPROVED", "REJECTED"} :
         r = request[d] /\ v = verdict[d] /\ Behind(r, v)
  BY <1>1 DEF IInv, Routed, Behind
<1>3. approval' = [approval EXCEPT ![r] = v] /\ v \in Verdicts
  BY <1>1, <1>2 DEF Verdicts
<1>4. TypeOK'
  <2>1. approval' \in [Calls -> {Absent, "PENDING", "APPROVED", "REJECTED", "EXPIRED"}]
    BY <1>3 DEF IInv, TypeOK, Verdicts
  <2>2. /\ step' \in [Deciders -> {"idle", "sync", "reviewing", "conclude", "concluding",
                                    "commit"}]
        /\ request' \in [Deciders -> Calls \cup {NoCall}]
        /\ verdict' \in [Deciders -> {"APPROVED", "REJECTED", "NONE"}]
    BY <1>1 DEF IInv, TypeOK
  <2> QED BY <1>1, <2>1, <2>2 DEF IInv, TypeOK
<1>5. overturned = 0 => approval' = approval
  BY <1>2, <1>3 DEF Behind, IInv, TypeOK
<1>6. /\ \A c \in Calls : c # r => approval'[c] = approval[c]
      /\ approval'[r] = v /\ v # Absent
  BY <1>3 DEF IInv, TypeOK, Absent, Verdicts
<1>7. Routed'
  <2> SUFFICES ASSUME NEW e \in Deciders, step'[e] # "idle"
               PROVE  Behind(request[e], verdict[e])'
    BY DEF Routed
  <2>1. e # d /\ step[e] # "idle" /\ request'[e] = request[e] /\ verdict'[e] = verdict[e]
    BY <1>1 DEF IInv, TypeOK
  <2>2. Behind(request[e], verdict[e])
    BY <2>1 DEF IInv, Routed
  <2> QED BY <1>1, <1>5, <1>6, <2>1, <2>2 DEF Behind
<1>8. /\ granted' = IF v = "APPROVED" THEN granted \cup {r} ELSE granted
      /\ approval[r] # Absent
  BY <1>1, <1>2 DEF Behind
<1>9. Granted(r) => Granted(r)'
  BY <1>1, <1>5 DEF Granted
<1> QED BY <1>1, <1>3, <1>4, <1>7, <1>8, <1>9, RowChanges

\* Up to there a route only moves the task, or only itself.
LEMMA RouteKeeps ==
    ASSUME IInv, NEW d \in Deciders,
           \/ RouteReviews(d) \/ RouteRecordsReview(d) \/ RouteConcludes(d)
           \/ RouteRecordsVerdict(d) \/ RouteFails(d)
    PROVE  IInv'
<1>1. /\ step[d] # "idle"
      /\ UNCHANGED <<kind, sensitive, validated, artifacts, approval, granted, approval_id,
                     deployments, touched, mode, run, at, next, link, code, calls, edits,
                     manual, overlaps, overturned>>
  BY DEF RouteReviews, RouteRecordsReview, RouteConcludes, RouteRecordsVerdict, RouteFails,
         RouteReads, RouteRecords, local, database, history
<1>2. PICK n \in {"idle", "reviewing", "conclude", "concluding", "commit"} :
         /\ step' = [step EXCEPT ![d] = n]
         /\ \/ n # "idle" /\ UNCHANGED <<request, verdict>>
            \/ /\ n = "idle" /\ request' = [request EXCEPT ![d] = NoCall]
               /\ verdict' = [verdict EXCEPT ![d] = "NONE"]
  BY DEF RouteReviews, RouteRecordsReview, RouteConcludes, RouteRecordsVerdict, RouteFails,
         RouteReads, RouteRecords, RouteGoesTo, RouteEnds
<1>3. {faults', lost'} \subseteq 0 .. MaxMishaps
  <2>1. \/ UNCHANGED <<faults, lost>>
        \/ MoreMishaps /\ faults' = faults + 1 /\ lost' = lost
        \/ MoreMishaps /\ lost' = lost + 1 /\ faults' = faults
    BY DEF RouteReviews, RouteRecordsReview, RouteConcludes, RouteRecordsVerdict,
           RouteFails, RouteReads, RouteRecords, history
  <2> QED BY <2>1, Counts DEF MoreMishaps
<1>4. current_state' \in TaskState
  <2>1. verdict[d] \in {"APPROVED", "REJECTED"}
    BY <1>1 DEF IInv, Routed, Behind
  <2>2. current_state' \in {current_state, "IN_REVIEW", verdict[d]}
    BY DEF RouteReviews, RouteRecordsReview, RouteConcludes, RouteRecordsVerdict,
           RouteFails, RouteReads, RouteRecords, database
  <2> QED BY <2>1, <2>2 DEF IInv, TypeOK, TaskState
<1>5. TypeOK'
  <2>1. /\ step \in [Deciders -> {"idle", "sync", "reviewing", "conclude", "concluding",
                                  "commit"}]
        /\ request \in [Deciders -> Calls \cup {NoCall}]
        /\ verdict \in [Deciders -> {"APPROVED", "REJECTED", "NONE"}]
    BY DEF IInv, TypeOK
  <2>2. /\ step' \in [Deciders -> {"idle", "sync", "reviewing", "conclude", "concluding",
                                   "commit"}]
        /\ request' \in [Deciders -> Calls \cup {NoCall}]
        /\ verdict' \in [Deciders -> {"APPROVED", "REJECTED", "NONE"}]
    BY <1>2, <2>1
  <2> QED BY <1>1, <1>3, <1>4, <2>2 DEF IInv, TypeOK
<1>6. Routed'
  <2> SUFFICES ASSUME NEW e \in Deciders, step'[e] # "idle"
               PROVE  Behind(request[e], verdict[e])'
    BY DEF Routed
  <2>1. step[e] # "idle" /\ request'[e] = request[e] /\ verdict'[e] = verdict[e]
    BY <1>1, <1>2 DEF IInv, TypeOK
  <2> QED BY <1>1, <2>1 DEF IInv, Routed, Behind
<1>7. Numbered' /\ GatedDeployment'
  BY <1>1 DEF IInv, Numbered, Busy, GatedDeployment, Granted
<1>8. ASSUME NEW v \in Workers
      PROVE  Fits(mode[v], at[v], next[v], run[v], link[v])'
  BY <1>1 DEF IInv, Fits, Course, Relies, Granted
<1> QED BY <1>5, <1>6, <1>7, <1>8 DEF IInv

\* What the users do otherwise touches nothing that a call relies on.
LEMMA UsersKeep ==
    ASSUME IInv, Edit \/ (\E t \in TaskState : TransitionByHand(t)) \/ UNCHANGED vars
    PROVE  IInv'
<1>1. UNCHANGED <<kind, sensitive, validated, approval, granted, approval_id, deployments,
                  touched, step, request, verdict, mode, run, at, next, link, code, calls,
                overturned, lost>>
  BY DEF Edit, TransitionByHand, vars, world, database, outside, local, history
<1>2. {faults', edits', manual', overlaps'} \subseteq 0 .. MaxMishaps
  <2>1. /\ {faults, edits, manual, overlaps, overturned, lost} \subseteq 0 .. MaxMishaps
        /\ MaxMishaps \in Nat
    BY ExecutionServiceAssumption DEF IInv, TypeOK
  <2>2. CASE Edit
    BY <2>1, <2>2 DEF Edit, MoreMishaps
  <2>3. CASE \E t \in TaskState : TransitionByHand(t)
    BY <2>1, <2>3 DEF TransitionByHand, MoreMishaps
  <2>4. CASE UNCHANGED vars
    BY <2>1, <2>4 DEF vars, world, history
  <2> QED BY <2>2, <2>3, <2>4
<1>3. current_state' \in TaskState
  BY DEF Edit, TransitionByHand, vars, world, database, IInv, TypeOK
<1>4. artifacts' \in Seq(Code)
  <2>1. artifacts \in Seq(Code) /\ EditedCode \in Code
    BY DEF IInv, TypeOK, EditedCode, Code
  <2>2. artifacts' = artifacts \/ artifacts' = Append(artifacts, EditedCode)
    BY DEF Edit, TransitionByHand, vars, world, database
  <2> QED BY <2>1, <2>2
<1>5. TypeOK'
  BY <1>1, <1>2, <1>3, <1>4 DEF IInv, TypeOK
<1>6. Numbered' /\ GatedDeployment' /\ Routed'
  BY <1>1 DEF IInv, Numbered, Busy, GatedDeployment, Granted, Routed, Behind
<1>7. ASSUME NEW v \in Workers
      PROVE  Fits(mode[v], at[v], next[v], run[v], link[v])'
  BY <1>1 DEF IInv, Fits, Course, Relies, Granted
<1> QED BY <1>5, <1>6, <1>7 DEF IInv

-----------------------------------------------------------------------------
LEMMA InitIInv == Init => IInv
<1> SUFFICES ASSUME Init PROVE IInv
  OBVIOUS
<1>1. TypeOK
  BY ExecutionServiceAssumption
     DEF Init, TypeOK, TaskKind, TaskState, NoCode, Code
<1>2. Numbered
  BY DEF Init, Numbered, Busy, Absent
<1>3. \A w \in Workers : Fits(mode[w], at[w], next[w], run[w], link[w])
  BY IdleFits DEF Init
<1>4. GatedDeployment /\ Routed
  BY DEF Init, GatedDeployment, ToSet, Routed
<1> QED BY <1>1, <1>2, <1>3, <1>4 DEF IInv

LEMMA NextIInv == IInv /\ [Next]_vars => IInv'
<1> SUFFICES ASSUME IInv, [Next]_vars PROVE IInv'
  OBVIOUS
<1>1. ASSUME NEW w \in Workers, Step(w) PROVE IInv'
  BY <1>1, BeginKeeps, ReturnKeeps, RecordKeeps, RecordRefusedKeeps,
     ExecuteDirectKeeps, DevelopKeeps, AgentFailsKeeps, StoreKeeps, ValidateKeeps,
     OptimizeKeeps, RequestApprovalKeeps, LinkApprovalKeeps, GateKeeps,
     GateResumedKeeps, LoadLatestKeeps, SubmitKeeps, ConcludingKeeps, HandleKeeps,
     FailKeeps, CrashKeeps
     DEF Step
<1>2. ASSUME NEW d \in Deciders, NEW r \in Calls, NEW v \in Verdicts, Decide(d, r, v)
      PROVE  IInv'
  BY <1>2, DecideKeeps
<1>3. ASSUME NEW d \in Deciders, Route(d) PROVE IInv'
  BY <1>3, RouteCommitsKeeps, RouteKeeps DEF Route
<1> QED BY <1>1, <1>2, <1>3, UsersKeep DEF Next

\* The strengthening is an invariant.
THEOREM Inductive == Spec => []IInv
BY InitIInv, NextIInv, PTL DEF Spec

\* The variables keep their types, however many calls and mishaps there are.
THEOREM TypeCorrect == Spec => []TypeOK
<1>1. IInv => TypeOK
  BY DEF IInv
<1> QED BY <1>1, Inductive, PTL

\* INV-01 of services/execution.py: whatever number of calls overlap, fail, die
\* or are resumed, and whatever the users edit, decide and move by hand, every
\* job that is submitted stands under a granted approval.
THEOREM Gated == Spec => []GatedDeployment
<1>1. IInv => GatedDeployment
  BY DEF IInv
<1> QED BY <1>1, Inductive, PTL

-----------------------------------------------------------------------------
(***************************************************************************)
(* One call at a time, and no hand but theirs on code and task.            *)
(***************************************************************************)

\* Where a call is alone with the task, before it makes code ...
Early ==
    {"SUBMITTED", "PARSING", "PARSED", "PLANNING", "PLANNED", "AGENT_ASSIGNMENT",
     "AGENT_ASSIGNED"}

\* ... while it holds the code that it made and has not analysed, ...
Making ==
    {<<"IN_DEVELOPMENT", "store">>, <<"IN_DEVELOPMENT", "CODE_GENERATED">>,
     <<"CODE_GENERATED", "IN_VALIDATION">>, <<"IN_VALIDATION", "work">>}

\* ... once that has passed, but the newest artifact may be another ...
Passed ==
    {<<"IN_VALIDATION", "VALIDATION_PASSED">>,
     <<"VALIDATION_PASSED", "OPTIMIZATION_PENDING">>,
     <<"OPTIMIZATION_PENDING", "IN_OPTIMIZATION">>,
     <<"IN_OPTIMIZATION", "work">>, <<"IN_OPTIMIZATION", "store">>}

\* ... and once it is the newest, ...
Stored == {<<"IN_OPTIMIZATION", "OPTIMIZED">>, <<"OPTIMIZED", "work">>}

\* ... with an approval under which nothing has been submitted.
Undeployed == Deploying \ {<<"DEPLOYING", "await">>}

Analysed(c) == [c EXCEPT !.stage = "generated"] \in validated

\* c is the newest artifact, made by call l and analysed ...
Holds(l, c) == artifacts # <<>> /\ c = Last(artifacts) /\ c.run = l /\ Analysed(c)

\* ... and so is whatever the newest is.
Ready(l) == Holds(l, Last(artifacts))
Unused(l) == \A d \in ToSet(deployments) : d.approval # l

\* What the task and the call have to show for where the call is: a call that made
\* the code itself ...
FreshPath(a, n, r, l, c) ==
    \/ a \in Early /\ n \in Early \cup {"IN_DEVELOPMENT"}
    \/ <<a, n>> = <<"IN_DEVELOPMENT", "work">>
    \/ /\ kind # "direct"
       /\ \/ <<a, n>> \in Making /\ c = [run |-> r, stage |-> "generated"]
          \/ <<a, n>> = <<"IN_VALIDATION", "VALIDATION_FAILED">>
          \/ <<a, n>> \in Passed /\ c.run = r /\ Analysed(c)
          \/ <<a, n>> \in Stored /\ Holds(r, c)
          \/ <<a, n>> = <<"OPTIMIZED", "link">> /\ Holds(l, c) /\ Unused(l)
          \/ /\ <<a, n>> \in Requesting \cup Undeployed
             /\ Holds(l, c) /\ Unused(l) /\ approval_id = l
          \/ <<a, n>> \in Concluding \cup {<<"DEPLOYING", "await">>}

\* ... and one that found it.
ResumedPath(a, n, l, c) ==
    \/ /\ n = "gate" /\ a \in Reviewing
       /\ approval_id = l /\ (l # NoCall => Ready(l) /\ Unused(l))
    \/ /\ <<a, n>> \in Undeployed
       /\ approval_id = l /\ Ready(l) /\ Unused(l)
       /\ <<a, n>> \in {<<"APPROVED", "DEPLOYING">>, <<"DEPLOYING", "work">>} =>
              Holds(l, c)
    \/ a \in Reviewing /\ n = "REJECTED"
    \/ <<a, n>> \in Concluding \cup {<<"DEPLOYING", "await">>}

\* While a call is not at an approval itself, the task is not under review either.
Path(m, a, n, r, l, c) ==
    /\ m \in {"fresh", "resumed"} /\ n \notin Ending =>
           /\ a \notin Reviewing => current_state \notin Reviewing
           /\ m = "fresh" => FreshPath(a, n, r, l, c)
           /\ m = "resumed" => ResumedPath(a, n, l, c)
    /\ m = "direct" => kind = "direct"
    /\ m \in {"cleanup", "direct_cleanup"} => n \in {"CANCELLED", "DEV_FAILED"} \cup Ending

OnPath(w) == Busy(w) => Path(mode[w], at[w], next[w], run[w], link[w], code[w])

\* What holds of the task itself as long as calls do not overlap.
Orderly ==
    /\ kind = "direct" => approval_id = NoCall
    /\ \A d \in ToSet(deployments) : Analysed(d.code) /\ Newest(d.code, d.approval)
    /\ \A i, j \in DOMAIN deployments :
          deployments[i].approval = deployments[j].approval => i = j
    /\ current_state \in Reviewing /\ approval_id # NoCall =>
           Ready(approval_id) /\ Unused(approval_id)

\* One call at a time.
Alone == \A u, v \in Workers : Busy(u) /\ Busy(v) => u = v

\* The strengthening for undisturbed calls.
QInv == Quiet => Alone /\ Orderly /\ \A w \in Workers : OnPath(w)

\* Where a call goes once it has recorded a state.
LEMMA AfterIs ==
    /\ \A s \in Early : After("fresh", s) \in Early \cup {"IN_DEVELOPMENT"}
    /\ After("fresh", "IN_DEVELOPMENT") = "work"
    /\ After("fresh", "CODE_GENERATED") = "IN_VALIDATION"
    /\ After("fresh", "IN_VALIDATION") = "work"
    /\ After("fresh", "VALIDATION_PASSED") = "OPTIMIZATION_PENDING"
    /\ After("fresh", "OPTIMIZATION_PENDING") = "IN_OPTIMIZATION"
    /\ After("fresh", "IN_OPTIMIZATION") = "work"
    /\ After("fresh", "OPTIMIZED") = "work"
    /\ After("fresh", "APPROVAL_PENDING") = "work"
    /\ After("fresh", "APPROVED") = "DEPLOYING"
    /\ After("resumed", "APPROVED") = "work"
    /\ \A m \in {"fresh", "resumed"} :
          /\ After(m, "IN_REVIEW") = "APPROVED"
          /\ After(m, "DEPLOYING") = "work"
          /\ After(m, "DEPLOYED") = "COMPLETED"
    /\ \A s \in {"VALIDATION_FAILED", "DEV_FAILED", "REJECTED", "CANCELLED", "COMPLETED"} :
          \A m : After(m, s) = "return"
<1>1. \A i \in 1 .. 19 : Successor(Pipeline[i]) = Pipeline[i + 1]
  BY SuccessorIs
<1>2. /\ Pipeline[9] = "CODE_GENERATED" /\ Pipeline[10] = "IN_VALIDATION"
      /\ Pipeline[11] = "VALIDATION_PASSED" /\ Pipeline[12] = "OPTIMIZATION_PENDING"
      /\ Pipeline[13] = "IN_OPTIMIZATION"
      /\ Early = {Pipeline[i] : i \in 1 .. 7}
      /\ \A i \in 1 .. 7 : Pipeline[i + 1] \in Early \cup {"IN_DEVELOPMENT"}
  BY DEF Pipeline, Early
<1>3. /\ \A s \in Early : Successor(s) \in Early \cup {"IN_DEVELOPMENT"}
      /\ Successor("CODE_GENERATED") = "IN_VALIDATION"
      /\ Successor("VALIDATION_PASSED") = "OPTIMIZATION_PENDING"
      /\ Successor("OPTIMIZATION_PENDING") = "IN_OPTIMIZATION"
  BY <1>1, <1>2
<1>4. \A m, s : After(m, s) =
          IF m \in {"cleanup", "direct_cleanup"} \/ s \notin BeforeRequest \cup FromRequest
            THEN "return" ELSE IF s \in WorkStates(m) THEN "work" ELSE Successor(s)
  BY PipelineStates DEF After
<1>5. \A s \in Early : s \in BeforeRequest /\ s \notin WorkStates("fresh")
  BY DEF Early, BeforeRequest, WorkStates
<1> QED
  BY <1>3, <1>4, <1>5, Successors DEF WorkStates, BeforeRequest, FromRequest

\* What does not touch the task keeps it orderly, and the calls on their path.
LEMMA SameTask ==
    ASSUME UNCHANGED <<kind, validated, current_state, artifacts, approval_id,
                       deployments>>
    PROVE  /\ Orderly => Orderly'
           /\ \A m, a, n, r, l, c : Path(m, a, n, r, l, c) => Path(m, a, n, r, l, c)'
BY DEF Orderly, Path, FreshPath, ResumedPath, Ready, Holds, Analysed, Unused, Newest, LastOf

LEMMA PathStep ==
    ASSUME IInv, Orderly, NEW w \in Workers,
           NEW m, NEW a, NEW n, NEW r, NEW l, NEW c,
           mode' = [mode EXCEPT ![w] = m], at' = [at EXCEPT ![w] = a],
           next' = [next EXCEPT ![w] = n], run' = [run EXCEPT ![w] = r],
           link' = [link EXCEPT ![w] = l], code' = [code EXCEPT ![w] = c],
           UNCHANGED <<kind, validated, current_state, artifacts, approval_id,
                       deployments>>,
           a # "idle" => Path(m, a, n, r, l, c)
    PROVE  Orderly' /\ OnPath(w)'
<1>1. /\ mode'[w] = m /\ at'[w] = a /\ next'[w] = n /\ run'[w] = r /\ link'[w] = l
      /\ code'[w] = c
  BY DEF IInv, TypeOK
<1>2. a # "idle" => Path(m, a, n, r, l, c)'
  BY SameTask
<1>3. Orderly'
  BY SameTask
<1> QED BY <1>1, <1>2, <1>3 DEF OnPath, Path, FreshPath, ResumedPath, Busy

\* A call that only turns to something else.
LEMMA TurnOnPath ==
    ASSUME IInv, Orderly, NEW w \in Workers, NEW n, Turn(w, n),
           Path(mode[w], at[w], n, run[w], link[w], code[w])
    PROVE  Orderly' /\ OnPath(w)'
<1> DEFINE m == mode[w]
           a == at[w]
           r == run[w]
           l == link[w]
           c == code[w]
<1>1. UNCHANGED <<kind, validated, current_state, artifacts, approval_id, deployments>>
  BY DEF Turn, world, database, outside
<1>2. /\ mode' = [mode EXCEPT ![w] = m] /\ at' = [at EXCEPT ![w] = a]
      /\ next' = [next EXCEPT ![w] = n] /\ run' = [run EXCEPT ![w] = r]
      /\ link' = [link EXCEPT ![w] = l] /\ code' = [code EXCEPT ![w] = c]
      /\ Path(m, a, n, r, l, c)
  BY DEF Turn, Go, IInv, TypeOK
<1> HIDE DEF m, a, r, l, c
<1> QED BY <1>1, <1>2, PathStep

\* A call that is to end keeps nothing to itself.
LEMMA EndingPath ==
    ASSUME NEW m, NEW a, NEW r, NEW l, NEW c, NEW n \in Ending,
           m = "direct" => kind = "direct"
    PROVE  Path(m, a, n, r, l, c)
BY DEF Path

LEMMA TurnToEndOnPath ==
    ASSUME IInv, Orderly, NEW w \in Workers, OnPath(w), Busy(w), NEW n \in Ending,
           Turn(w, n)
    PROVE  Orderly' /\ OnPath(w)'
<1>1. mode[w] = "direct" => kind = "direct"
  BY DEF OnPath, Path
<1>2. Path(mode[w], at[w], n, run[w], link[w], code[w])
  BY <1>1, EndingPath
<1> QED BY <1>2, TurnOnPath

\* What a call that is not over knows of its path.
LEMMA OnItsPath ==
    ASSUME IInv, NEW w \in Workers, OnPath(w), next[w] \notin Ending
    PROVE  /\ Busy(w) /\ run[w] \in 1 .. calls
           /\ Path(mode[w], at[w], next[w], run[w], link[w], code[w])
           /\ mode[w] \in {"fresh", "resumed"} /\ at[w] \notin Reviewing =>
                  current_state \notin Reviewing
           /\ mode[w] = "fresh" => FreshPath(at[w], next[w], run[w], link[w], code[w])
           /\ mode[w] = "resumed" => ResumedPath(at[w], next[w], link[w], code[w])
<1>1. Busy(w) /\ run[w] \in 1 .. calls
  BY WorkingIsBusy DEF Ending
<1> QED BY <1>1 DEF OnPath, Path

LEMMA BeginOnPath ==
    ASSUME IInv, Orderly, NEW w \in Workers, Begin(w)
    PROVE  Orderly' /\ OnPath(w)'
<1> DEFINE resumes == current_state \in Reviewing
           m == IF resumes THEN "resumed" ELSE "fresh"
           a == IF resumes THEN current_state ELSE "SUBMITTED"
           n == IF resumes THEN "gate" ELSE "PARSING"
           l == IF resumes THEN approval_id ELSE link[w]
           r == calls + 1
           c == code[w]
<1>1. /\ mode' = [mode EXCEPT ![w] = m] /\ at' = [at EXCEPT ![w] = a]
      /\ next' = [next EXCEPT ![w] = n] /\ link' = [link EXCEPT ![w] = l]
      /\ run' = [run EXCEPT ![w] = r] /\ code' = [code EXCEPT ![w] = c]
  BY DEF Begin, Go, IInv, TypeOK
<1>2. UNCHANGED <<kind, validated, current_state, artifacts, approval_id, deployments>>
  BY DEF Begin, database, outside
<1>3. Path(m, a, n, r, l, c)
  <2>1. CASE resumes
    <3>1. ResumedPath(a, n, l, c) /\ m = "resumed" /\ a \in Reviewing
      BY <2>1 DEF ResumedPath, Orderly
    <3> QED BY <3>1 DEF Path
  <2>2. CASE ~ resumes
    <3>1. /\ m = "fresh" /\ n = "PARSING" /\ a = "SUBMITTED"
          /\ a \in Early /\ n \in Early
      BY <2>2 DEF Early
    <3>2. FreshPath(a, n, r, l, c)
      BY <3>1 DEF FreshPath
    <3> QED BY <2>2, <3>1, <3>2 DEF Path
  <2> QED BY <2>1, <2>2
<1> HIDE DEF resumes, m, a, n, r, l, c
<1> QED BY <1>1, <1>2, <1>3, PathStep

LEMMA VanishOnPath ==
    ASSUME IInv, Orderly, NEW w \in Workers, Vanish(w),
           UNCHANGED <<kind, validated, current_state, artifacts, approval_id,
                       deployments>>
    PROVE  Orderly' /\ OnPath(w)'
BY PathStep DEF Vanish

LEMMA ExecuteDirectOnPath ==
    ASSUME IInv, Orderly, NEW w \in Workers, ExecuteDirect(w)
    PROVE  Orderly' /\ OnPath(w)'
<1> DEFINE a == at[w]
           r == run[w]
           l == link[w]
           c == code[w]
<1>1. /\ mode' = [mode EXCEPT ![w] = "direct"] /\ at' = [at EXCEPT ![w] = a]
      /\ next' = [next EXCEPT ![w] = "CODE_GENERATED"] /\ run' = [run EXCEPT ![w] = r]
      /\ link' = [link EXCEPT ![w] = l] /\ code' = [code EXCEPT ![w] = c]
      /\ kind = "direct"
      /\ UNCHANGED <<kind, validated, current_state, artifacts, approval_id,
                     deployments>>
  BY DEF ExecuteDirect, Go, IInv, TypeOK, world, database, outside
<1>2. Path("direct", a, "CODE_GENERATED", r, l, c)
  BY <1>1 DEF Path
<1> HIDE DEF a, r, l, c
<1> QED BY <1>1, <1>2, PathStep

LEMMA DevelopOnPath ==
    ASSUME IInv, Orderly, NEW w \in Workers, OnPath(w), Develop(w)
    PROVE  Orderly' /\ OnPath(w)'
<1> DEFINE r == run[w]
           l == link[w]
           c == [run |-> run[w], stage |-> "generated"]
<1>1. /\ at[w] = "IN_DEVELOPMENT" /\ next[w] = "work" /\ kind # "direct"
      /\ next' = [next EXCEPT ![w] = "store"] /\ code' = [code EXCEPT ![w] = c]
      /\ UNCHANGED <<mode, at, run, link>>
      /\ UNCHANGED <<kind, validated, current_state, artifacts, approval_id,
                     deployments>>
  BY DEF Develop, Does, Go, database
<1>2. mode[w] = "fresh"
  BY <1>1, FreshWork DEF BeforeRequest
<1>3. /\ mode' = [mode EXCEPT ![w] = "fresh"] /\ at' = [at EXCEPT ![w] = "IN_DEVELOPMENT"]
      /\ run' = [run EXCEPT ![w] = r] /\ link' = [link EXCEPT ![w] = l]
  BY <1>1, <1>2 DEF IInv, TypeOK
<1>4. current_state \notin Reviewing
  BY <1>1, <1>2, OnItsPath DEF Ending, Reviewing
<1>5. FreshPath("IN_DEVELOPMENT", "store", r, l, c)
  BY <1>1 DEF FreshPath, Making
<1> HIDE DEF r, l, c
<1>6. Path("fresh", "IN_DEVELOPMENT", "store", r, l, c)
  BY <1>4, <1>5 DEF Path
<1> QED BY <1>1, <1>3, <1>6, PathStep, ZenonT(40)

LEMMA OptimizeOnPath ==
    ASSUME IInv, Orderly, NEW w \in Workers, OnPath(w), Optimize(w)
    PROVE  Orderly' /\ OnPath(w)'
<1> DEFINE r == run[w]
           l == link[w]
<1>1. PICK c \in {code[w], [run |-> run[w], stage |-> "optimized"]} :
         /\ at[w] = "IN_OPTIMIZATION" /\ next[w] = "work"
         /\ next' = [next EXCEPT ![w] = "store"] /\ code' = [code EXCEPT ![w] = c]
         /\ UNCHANGED <<mode, at, run, link>>
         /\ UNCHANGED <<kind, validated, current_state, artifacts, approval_id,
                        deployments>>
  BY DEF Optimize, Does, Go, world, database, outside
<1>2. mode[w] = "fresh"
  BY <1>1, FreshWork DEF BeforeRequest
<1>3. /\ mode' = [mode EXCEPT ![w] = "fresh"] /\ at' = [at EXCEPT ![w] = "IN_OPTIMIZATION"]
      /\ run' = [run EXCEPT ![w] = r] /\ link' = [link EXCEPT ![w] = l]
  BY <1>1, <1>2 DEF IInv, TypeOK
<1>4. /\ current_state \notin Reviewing
      /\ FreshPath("IN_OPTIMIZATION", "work", r, l, code[w])
  BY <1>1, <1>2, OnItsPath DEF Ending, Reviewing
<1>5. kind # "direct" /\ code[w].run = r /\ Analysed(code[w])
  BY <1>4 DEF FreshPath, Early, Making, Stored, Requesting, Undeployed, Deploying,
              Concluding
<1>6. c.run = r /\ Analysed(c)
  <2>1. CASE c = code[w]
    BY <1>5, <2>1
  <2>2. CASE c = [run |-> run[w], stage |-> "optimized"]
    <3>1. code[w] \in Code /\ code[w].run \in Calls
      BY <1>1, <1>2, <1>5, FreshWork DEF IInv, TypeOK, BeforeRequest
    <3>2. code[w] \in [run : Calls, stage : {"generated", "optimized"}]
      BY <3>1 DEF Code, NoCall, Calls
    <3>3. [c EXCEPT !.stage = "generated"] = [code[w] EXCEPT !.stage = "generated"]
      BY <1>5, <2>2, <3>2
    <3> QED BY <1>5, <2>2, <3>3 DEF Analysed
  <2> QED BY <2>1, <2>2
<1>7. FreshPath("IN_OPTIMIZATION", "store", r, l, c)
  BY <1>5, <1>6 DEF FreshPath, Passed
<1> HIDE DEF r, l
<1>8. "IN_OPTIMIZATION" # "idle" => Path("fresh", "IN_OPTIMIZATION", "store", r, l, c)
  BY <1>4, <1>7 DEF Path
<1>9. /\ next' = [next EXCEPT ![w] = "store"] /\ code' = [code EXCEPT ![w] = c]
      /\ UNCHANGED <<kind, validated, current_state, artifacts, approval_id,
                     deployments>>
  BY <1>1
<1> QED BY <1>3, <1>8, <1>9, PathStep

\* No deployment stands under an approval that nobody has requested yet.
LEMMA RequestApprovalOnPath ==
    ASSUME IInv, Orderly, NEW w \in Workers, OnPath(w), RequestApproval(w)
    PROVE  Orderly' /\ OnPath(w)'
<1> DEFINE r == run[w]
           c == code[w]
<1>1. /\ at[w] = "OPTIMIZED" /\ next[w] = "work"
      /\ next' = [next EXCEPT ![w] = "link"] /\ link' = [link EXCEPT ![w] = r]
      /\ UNCHANGED <<mode, at, run, code>>
      /\ UNCHANGED <<kind, validated, current_state, artifacts, approval_id,
                     deployments>>
  BY DEF RequestApproval, Does, Go, outside
<1>2. mode[w] = "fresh" /\ approval[r] = Absent
  BY <1>1, FreshWork
<1>3. /\ mode' = [mode EXCEPT ![w] = "fresh"] /\ at' = [at EXCEPT ![w] = "OPTIMIZED"]
      /\ run' = [run EXCEPT ![w] = r] /\ code' = [code EXCEPT ![w] = c]
  BY <1>1, <1>2 DEF IInv, TypeOK
<1>4. current_state \notin Reviewing /\ FreshPath("OPTIMIZED", "work", r, link[w], c)
  BY <1>1, <1>2, OnItsPath DEF Ending, Reviewing
<1>5. kind # "direct" /\ Holds(r, c)
  BY <1>4 DEF FreshPath, Early, Making, Passed, Requesting, Undeployed, Deploying,
              Concluding
<1>6. Unused(r)
  BY <1>2 DEF IInv, GatedDeployment, Granted, Numbered, Unused, Absent
<1>7. FreshPath("OPTIMIZED", "link", r, r, c)
  BY <1>5, <1>6 DEF FreshPath
<1> HIDE DEF r, c
<1>8. "OPTIMIZED" # "idle" => Path("fresh", "OPTIMIZED", "link", r, r, c)
  BY <1>4, <1>7 DEF Path
<1>9. /\ next' = [next EXCEPT ![w] = "link"] /\ link' = [link EXCEPT ![w] = r]
      /\ UNCHANGED <<kind, validated, current_state, artifacts, approval_id,
                     deployments>>
  BY <1>1
<1> QED BY <1>3, <1>8, <1>9, PathStep

LEMMA GateOnPath ==
    ASSUME IInv, Orderly, NEW w \in Workers, OnPath(w), Gate(w)
    PROVE  Orderly' /\ OnPath(w)'
<1>1. /\ at[w] = "APPROVAL_PENDING" /\ next[w] = "work"
      /\ Turn(w, IF run[w] \in sensitive THEN "return" ELSE "IN_REVIEW")
  BY DEF Gate, Does
<1>2. CASE run[w] \in sensitive
  BY <1>1, <1>2, OnItsPath, TurnToEndOnPath DEF Ending
<1>3. CASE run[w] \notin sensitive
  <2>1. Fits(mode[w], at[w], next[w], run[w], link[w])
    BY DEF IInv
  <2>2. mode[w] = "fresh"
    BY <1>1, <2>1 DEF Fits, Course, Ending, Deploying, Concluding, TaskState
  <2>3. FreshPath(at[w], next[w], run[w], link[w], code[w])
    BY <1>1, <2>2, OnItsPath DEF Ending
  <2>4. /\ kind # "direct" /\ Holds(link[w], code[w]) /\ Unused(link[w])
        /\ approval_id = link[w]
    BY <1>1, <2>3
       DEF FreshPath, Early, Making, Passed, Stored, Deploying, Undeployed, Concluding
  <2>5. <<at[w], "IN_REVIEW">> \in Undeployed
    BY <1>1 DEF Undeployed, Deploying
  <2>6. FreshPath(at[w], "IN_REVIEW", run[w], link[w], code[w])
    BY <2>4, <2>5 DEF FreshPath
  <2>7. Path(mode[w], at[w], "IN_REVIEW", run[w], link[w], code[w])
    BY <1>1, <2>2, <2>6 DEF Path, Reviewing
  <2> QED BY <1>1, <1>3, <2>7, TurnOnPath
<1> QED BY <1>2, <1>3

LEMMA GateResumedOnPath ==
    ASSUME IInv, Orderly, NEW w \in Workers, OnPath(w), GateResumed(w)
    PROVE  Orderly' /\ OnPath(w)'
<1>1. next[w] = "gate" /\ Fits(mode[w], at[w], next[w], run[w], link[w])
  BY DEF GateResumed, IInv
<1>2. mode[w] = "resumed" /\ at[w] \in Reviewing
  BY <1>1 DEF Fits, Course, Ending, Requesting, Deploying, Concluding, TaskState,
              BeforeRequest
<1>3. Busy(w) /\ ResumedPath(at[w], "gate", link[w], code[w])
  BY <1>1, <1>2, OnItsPath DEF Ending
<1>4. approval_id = link[w] /\ (link[w] # NoCall => Ready(link[w]) /\ Unused(link[w]))
  BY <1>3 DEF ResumedPath, Undeployed, Deploying, Concluding
<1>5. \/ \E n \in Ending : Turn(w, n)
      \/ Turn(w, "REJECTED")
      \/ /\ link[w] # NoCall
         /\ Turn(w, IF at[w] = "APPROVED" THEN "work" ELSE Successor(at[w]))
  BY DEF GateResumed, Ending
<1>6. CASE \E n \in Ending : Turn(w, n)
  BY <1>3, <1>6, TurnToEndOnPath
<1>7. CASE Turn(w, "REJECTED")
  <2>1. Path(mode[w], at[w], "REJECTED", run[w], link[w], code[w])
    BY <1>2 DEF Path, ResumedPath
  <2> QED BY <1>7, <2>1, TurnOnPath
<1>8. CASE /\ link[w] # NoCall
           /\ Turn(w, IF at[w] = "APPROVED" THEN "work" ELSE Successor(at[w]))
  <2> DEFINE n == IF at[w] = "APPROVED" THEN "work" ELSE Successor(at[w])
  <2>1. /\ <<at[w], n>> \in Undeployed
        /\ <<at[w], n>> \notin {<<"APPROVED", "DEPLOYING">>, <<"DEPLOYING", "work">>}
    BY <1>2, Successors DEF Undeployed, Deploying, Reviewing
  <2> HIDE DEF n
  <2>2. ResumedPath(at[w], n, link[w], code[w])
    BY <1>4, <1>8, <2>1 DEF ResumedPath
  <2>3. Path(mode[w], at[w], n, run[w], link[w], code[w])
    BY <1>2, <2>2 DEF Path
  <2> QED BY <1>8, <2>3, TurnOnPath DEF n
<1> QED BY <1>5, <1>6, <1>7, <1>8

LEMMA LoadLatestOnPath ==
    ASSUME IInv, Orderly, NEW w \in Workers, OnPath(w), LoadLatest(w)
    PROVE  Orderly' /\ OnPath(w)'
<1> DEFINE r == run[w]
           l == link[w]
<1>1. /\ mode[w] = "resumed" /\ at[w] = "APPROVED" /\ next[w] = "work"
      /\ UNCHANGED <<mode, at, run, link>>
      /\ UNCHANGED <<kind, validated, current_state, artifacts, approval_id,
                     deployments>>
  BY DEF LoadLatest, Does, world, database, outside
<1>2. ResumedPath("APPROVED", "work", l, code[w])
  BY <1>1, OnItsPath DEF Ending
<1>3. approval_id = l /\ Ready(l) /\ Unused(l)
  BY <1>2 DEF ResumedPath, Concluding
<1>4. /\ next' = [next EXCEPT ![w] = "DEPLOYING"]
      /\ code' = [code EXCEPT ![w] = Last(artifacts)]
  BY <1>3 DEF Ready, Holds, LoadLatest, Go
<1>5. /\ mode' = [mode EXCEPT ![w] = "resumed"] /\ at' = [at EXCEPT ![w] = "APPROVED"]
      /\ run' = [run EXCEPT ![w] = r] /\ link' = [link EXCEPT ![w] = l]
  BY <1>1 DEF IInv, TypeOK
<1>6. <<"APPROVED", "DEPLOYING">> \in Undeployed
  BY DEF Undeployed, Deploying
<1>7. ResumedPath("APPROVED", "DEPLOYING", l, Last(artifacts))
  BY <1>3, <1>6 DEF ResumedPath, Ready
<1> DEFINE c == Last(artifacts)
<1> HIDE DEF r, l
<1>8. "APPROVED" # "idle" => Path("resumed", "APPROVED", "DEPLOYING", r, l, c)
  BY <1>7 DEF Path, Reviewing
<1>9. /\ next' = [next EXCEPT ![w] = "DEPLOYING"] /\ code' = [code EXCEPT ![w] = c]
      /\ UNCHANGED <<kind, validated, current_state, artifacts, approval_id,
                     deployments>>
  BY <1>1, <1>4
<1> HIDE DEF c
<1> QED BY <1>5, <1>8, <1>9, PathStep

LEMMA ConcludingOnPath ==
    ASSUME IInv, Orderly, NEW w \in Workers, OnPath(w), SubmitFails(w) \/ Await(w)
    PROVE  Orderly' /\ OnPath(w)'
<1>1. /\ at[w] = "DEPLOYING" \/ next[w] = "await"
      /\ next[w] \in {"work", "await"}
      /\ Fits(mode[w], at[w], next[w], run[w], link[w])
  BY DEF SubmitFails, Await, Does, IInv
<1>2. at[w] = "DEPLOYING" /\ mode[w] \in {"fresh", "resumed"}
  BY <1>1 DEF Fits, Course, Ending, Requesting, Deploying, Concluding, TaskState,
              BeforeRequest
<1>3. PICK n \in {"DEPLOYED", "DEV_FAILED"} : Turn(w, n)
  BY DEF SubmitFails, Await
<1>4. current_state \notin Reviewing
  BY <1>1, <1>2, OnItsPath DEF Ending, Reviewing
<1>5. <<at[w], n>> \in Concluding
  BY <1>2 DEF Concluding
<1>6. mode[w] = "fresh" => kind # "direct"
  <2> SUFFICES ASSUME mode[w] = "fresh" PROVE kind # "direct"
    OBVIOUS
  <2>1. FreshPath(at[w], next[w], run[w], link[w], code[w])
    BY <1>1, OnItsPath DEF Ending
  <2> QED BY <1>2, <2>1 DEF FreshPath, Early
<1>7. Path(mode[w], at[w], n, run[w], link[w], code[w])
  BY <1>2, <1>4, <1>5, <1>6 DEF Path, FreshPath, ResumedPath
<1> QED BY <1>3, <1>7, TurnOnPath

LEMMA HandleOnPath ==
    ASSUME IInv, Orderly, NEW w \in Workers, OnPath(w), Handle(w) \/ HandleDirect(w)
    PROVE  Orderly' /\ OnPath(w)'
<1>1. PICK m \in {"cleanup", "direct_cleanup"},
           n \in {"CANCELLED", "DEV_FAILED", "return"} :
         /\ Go(w, n)
         /\ at' = [at EXCEPT ![w] = current_state] /\ mode' = [mode EXCEPT ![w] = m]
         /\ UNCHANGED <<world, run, link, code>>
  BY DEF Handle, HandleDirect
<1> DEFINE a == current_state
           r == run[w]
           l == link[w]
           c == code[w]
<1>2. /\ mode' = [mode EXCEPT ![w] = m] /\ at' = [at EXCEPT ![w] = a]
      /\ next' = [next EXCEPT ![w] = n] /\ run' = [run EXCEPT ![w] = r]
      /\ link' = [link EXCEPT ![w] = l] /\ code' = [code EXCEPT ![w] = c]
      /\ UNCHANGED <<kind, validated, current_state, artifacts, approval_id,
                     deployments>>
  BY <1>1 DEF Go, IInv, TypeOK, world, database, outside
<1>3. Path(m, a, n, r, l, c)
  BY DEF Path, Ending
<1> HIDE DEF a, r, l, c
<1> QED BY <1>2, <1>3, PathStep

LEMMA FailOnPath ==
    ASSUME IInv, Orderly, NEW w \in Workers, OnPath(w), Fail(w) \/ AgentFails(w)
    PROVE  Orderly' /\ OnPath(w)'
<1>1. PICK m \in {"fresh", mode[w]}, n \in Ending :
         /\ Go(w, n) /\ mode' = [mode EXCEPT ![w] = m]
         /\ Busy(w) /\ UNCHANGED <<run, at, link, code>>
         /\ UNCHANGED <<kind, validated, current_state, artifacts, approval_id,
                        deployments>>
  <2>1. CASE Fail(w)
    BY <2>1 DEF Fail, Fault, Ending, database, outside
  <2>2. CASE AgentFails(w)
    <3>1. mode' = [mode EXCEPT ![w] = mode[w]]
      BY <2>2 DEF AgentFails, IInv, TypeOK
    <3> QED BY <2>2, <3>1 DEF AgentFails, Does, Busy, Ending, database
  <2> QED BY <2>1, <2>2
<1> DEFINE a == at[w]
           r == run[w]
           l == link[w]
           c == code[w]
<1>2. /\ at' = [at EXCEPT ![w] = a]
      /\ next' = [next EXCEPT ![w] = n] /\ run' = [run EXCEPT ![w] = r]
      /\ link' = [link EXCEPT ![w] = l] /\ code' = [code EXCEPT ![w] = c]
  BY <1>1 DEF Go, IInv, TypeOK
<1>3. Path(m, a, n, r, l, c)
  BY <1>1, EndingPath DEF OnPath, Path
<1> HIDE DEF a, r, l, c
<1> QED BY <1>1, <1>2, <1>3, PathStep, ZenonT(40)

LEMMA EndsOnPath ==
    ASSUME IInv, Orderly, NEW w \in Workers, OnPath(w),
           Return(w) \/ Crash(w) \/ RecordRefused(w)
    PROVE  Orderly' /\ OnPath(w)'
<1>1. CASE Return(w)
  BY <1>1, VanishOnPath DEF Return, world, database, outside
<1>2. CASE Crash(w)
  BY <1>2, VanishOnPath DEF Crash, Fault, database, outside
<1>3. CASE RecordRefused(w)
  <2>1. Turn(w, "handler") /\ next[w] # "return"
    BY <1>3 DEF RecordRefused, TaskState
  <2> QED BY <2>1, WorkingIsBusy, TurnToEndOnPath DEF Ending
<1> QED BY <1>1, <1>2, <1>3

\* What is the last artifact of one call, and its newest code, stays so when another
\* stores code.
LEMMA StaysLast ==
    ASSUME artifacts \in Seq(Code), NEW c \in Code, artifacts' = Append(artifacts, c),
           NEW q, q # c.run
    PROVE  /\ \A i \in DOMAIN artifacts : LastOf(i, q)' <=> LastOf(i, q)
           /\ \A i \in DOMAIN artifacts' : LastOf(i, q)' => i \in DOMAIN artifacts
<1>1. /\ DOMAIN artifacts = 1 .. Len(artifacts) /\ Len(artifacts) \in Nat
      /\ DOMAIN artifacts' = 1 .. Len(artifacts) + 1 /\ Len(artifacts') = Len(artifacts) + 1
      /\ \A i \in 1 .. Len(artifacts) : artifacts'[i] = artifacts[i]
      /\ artifacts'[Len(artifacts) + 1] = c
  OBVIOUS
<1>2. ASSUME NEW i \in DOMAIN artifacts PROVE LastOf(i, q)' <=> LastOf(i, q)
  <2>1. i \in 1 .. Len(artifacts) /\ artifacts'[i] = artifacts[i]
    BY <1>1
  <2>2. ASSUME \A j \in i + 1 .. Len(artifacts) + 1 : artifacts'[j].run # q
        PROVE  \A j \in i + 1 .. Len(artifacts) : artifacts[j].run # q
    <3> TAKE j \in i + 1 .. Len(artifacts)
    <3>1. j \in 1 .. Len(artifacts) /\ j \in i + 1 .. Len(artifacts) + 1
      BY <1>1, <2>1
    <3> QED BY <1>1, <2>2, <3>1
  <2>3. ASSUME \A j \in i + 1 .. Len(artifacts) : artifacts[j].run # q
        PROVE  \A j \in i + 1 .. Len(artifacts) + 1 : artifacts'[j].run # q
    <3> TAKE j \in i + 1 .. Len(artifacts) + 1
    <3>1. \/ j = Len(artifacts) + 1
          \/ j \in i + 1 .. Len(artifacts) /\ j \in 1 .. Len(artifacts)
      BY <1>1, <2>1
    <3> QED BY <1>1, <2>3, <3>1
  <2>4. LastOf(i, q)' <=> /\ artifacts[i].run = q
                          /\ \A j \in i + 1 .. Len(artifacts) + 1 : artifacts'[j].run # q
    BY <1>1, <2>1 DEF LastOf
  <2>5. LastOf(i, q) <=> /\ artifacts[i].run = q
                         /\ \A j \in i + 1 .. Len(artifacts) : artifacts[j].run # q
    BY DEF LastOf
  <2> QED BY <2>2, <2>3, <2>4, <2>5
<1>3. ASSUME NEW i \in DOMAIN artifacts', LastOf(i, q)' PROVE i \in DOMAIN artifacts
  <2>1. artifacts'[i].run = q
    BY <1>3 DEF LastOf
  <2> QED BY <1>1, <2>1
<1> QED BY <1>1, <1>2, <1>3

LEMMA StaysNewest ==
    ASSUME artifacts \in Seq(Code), NEW c \in Code, artifacts' = Append(artifacts, c),
           NEW b, NEW q, q # c.run, Newest(b, q)
    PROVE  Newest(b, q)'
<1>1. PICK i \in DOMAIN artifacts : artifacts[i] = b /\ LastOf(i, q)
  BY DEF Newest
<1>2. LastOf(i, q)'
  BY <1>1, StaysLast
<1>3. i \in DOMAIN artifacts' /\ artifacts'[i] = artifacts[i]
  OBVIOUS
<1> QED BY <1>1, <1>2, <1>3 DEF Newest

\* The newest artifact is the newest of its call.
LEMMA LastIsNewest ==
    ASSUME artifacts \in Seq(Code), NEW l, NEW c, Holds(l, c)
    PROVE  Newest(c, l)
<1>1. DOMAIN artifacts = 1 .. Len(artifacts) /\ Len(artifacts) \in Nat
  OBVIOUS
<1>2. artifacts # <<>> /\ artifacts[Len(artifacts)] = c /\ c.run = l
  BY DEF Holds, Last
<1>3. Len(artifacts) \in DOMAIN artifacts
  BY <1>1, <1>2
<1>4. LastOf(Len(artifacts), l)
  BY <1>1, <1>2 DEF LastOf
<1> QED BY <1>2, <1>3, <1>4 DEF Newest

\* What is stored becomes the newest code.
LEMMA StoreOnPath ==
    ASSUME IInv, Orderly, NEW w \in Workers, OnPath(w), Store(w)
    PROVE  Orderly' /\ OnPath(w)'
<1>1. /\ next[w] = "store" /\ Go(w, Successor(at[w]))
      /\ artifacts' = Append(artifacts, code[w])
      /\ UNCHANGED <<kind, validated, current_state, approval_id, mode, run, at, link,
                     code>>
      /\ deployments' = deployments
  BY DEF Store, outside
<1>2. mode[w] = "fresh" /\ at[w] \in BeforeRequest
  BY <1>1, FreshWork
<1>3. /\ FreshPath(at[w], "store", run[w], link[w], code[w])
      /\ current_state \notin Reviewing
  BY <1>1, <1>2, OnItsPath DEF Ending, Reviewing, BeforeRequest
<1>4. /\ kind # "direct" /\ code[w].run = run[w]
      /\ \/ at[w] = "IN_DEVELOPMENT" /\ code[w] = [run |-> run[w], stage |-> "generated"]
         \/ at[w] = "IN_OPTIMIZATION" /\ Analysed(code[w])
  BY <1>3 DEF FreshPath, Early, Making, Passed, Stored, Requesting, Undeployed,
              Deploying, Concluding
<1>5. artifacts' # <<>> /\ Last(artifacts') = code[w]
  <2>1. artifacts \in Seq(Code) /\ code[w] \in Code
    BY DEF IInv, TypeOK
  <2> DEFINE s == artifacts
             c == code[w]
  <2>2. s \in Seq(Code) /\ c \in Code /\ artifacts' = Append(s, c)
    BY <1>1, <2>1
  <2> HIDE DEF s, c
  <2>3. /\ Len(Append(s, c)) = Len(s) + 1 /\ Append(s, c)[Len(s) + 1] = c
        /\ Append(s, c) # <<>>
    BY <2>2
  <2> QED BY <2>2, <2>3 DEF Last, c
<1>6. /\ mode'[w] = "fresh" /\ at'[w] = at[w] /\ run'[w] = run[w] /\ link'[w] = link[w]
      /\ code'[w] = code[w] /\ next'[w] = Successor(at[w])
  BY <1>1, <1>2 DEF Go, IInv, TypeOK
<1>7. /\ Successor("IN_DEVELOPMENT") = "CODE_GENERATED"
      /\ Successor("IN_OPTIMIZATION") = "OPTIMIZED"
  <2>1. Pipeline[8] = "IN_DEVELOPMENT" /\ Pipeline[9] = "CODE_GENERATED"
        /\ Pipeline[13] = "IN_OPTIMIZATION" /\ Pipeline[14] = "OPTIMIZED"
    BY DEF Pipeline
  <2>2. /\ Successor(Pipeline[8]) = Pipeline[8 + 1]
        /\ Successor(Pipeline[13]) = Pipeline[13 + 1]
    BY SuccessorIs
  <2> QED BY <2>1, <2>2
<1>8. FreshPath(at[w], next[w], run[w], link[w], code[w])'
  <2>1. CASE at[w] = "IN_DEVELOPMENT" /\ code[w] = [run |-> run[w], stage |-> "generated"]
    BY <1>1, <1>4, <1>6, <1>7, <2>1 DEF FreshPath, Making
  <2>2. CASE at[w] = "IN_OPTIMIZATION" /\ Analysed(code[w])
    BY <1>1, <1>4, <1>5, <1>6, <1>7, <2>2
       DEF FreshPath, Stored, Holds, Analysed
  <2> QED BY <1>4, <2>1, <2>2
<1>9. OnPath(w)'
  BY <1>1, <1>3, <1>6, <1>8 DEF OnPath, Path
<1>10. \A d \in ToSet(deployments) : Newest(d.code, d.approval)'
  <2> SUFFICES ASSUME NEW d \in ToSet(deployments) PROVE Newest(d.code, d.approval)'
    OBVIOUS
  <2>1. Newest(d.code, d.approval) /\ approval[d.approval] # Absent
    BY DEF Orderly, IInv, GatedDeployment, Granted, Numbered
  <2>2. approval[run[w]] = Absent
    BY <1>1, FreshWork
  <2>3. d.approval # code[w].run
    BY <1>4, <2>1, <2>2 DEF Absent
  <2>4. artifacts \in Seq(Code) /\ code[w] \in Code
    BY DEF IInv, TypeOK
  <2> QED BY <1>1, <2>1, <2>3, <2>4, StaysNewest
<1>11. Orderly'
  BY <1>1, <1>3, <1>10 DEF Orderly, Analysed, Reviewing
<1> QED BY <1>9, <1>11

\* What has been analysed stays analysed.
LEMMA ValidateOnPath ==
    ASSUME IInv, Orderly, NEW w \in Workers, OnPath(w), Validate(w)
    PROVE  Orderly' /\ OnPath(w)'
<1>1. /\ at[w] = "IN_VALIDATION" /\ next[w] = "work"
      /\ UNCHANGED <<kind, current_state, artifacts, approval_id, deployments, mode,
                     run, at, link, code>>
      /\ \/ Go(w, "VALIDATION_PASSED") /\ validated' = validated \cup {code[w]}
         \/ Go(w, "VALIDATION_FAILED") /\ validated' = validated
  BY DEF Validate, Does, database, outside
<1>2. mode[w] = "fresh"
  BY <1>1, FreshWork DEF BeforeRequest
<1>3. /\ FreshPath("IN_VALIDATION", "work", run[w], link[w], code[w])
      /\ current_state \notin Reviewing
  BY <1>1, <1>2, OnItsPath DEF Ending, Reviewing
<1>4. kind # "direct" /\ code[w] = [run |-> run[w], stage |-> "generated"]
  BY <1>3 DEF FreshPath, Early, Passed, Stored, Requesting, Undeployed,
              Deploying, Concluding
<1>5. /\ mode'[w] = "fresh" /\ at'[w] = "IN_VALIDATION" /\ run'[w] = run[w]
      /\ code'[w] = code[w]
      /\ \/ next'[w] = "VALIDATION_PASSED" /\ code[w] \in validated'
         \/ next'[w] = "VALIDATION_FAILED"
  BY <1>1, <1>2 DEF Go, IInv, TypeOK
<1>6. [code[w] EXCEPT !.stage = "generated"] = code[w] /\ code[w].run = run[w]
  BY <1>4
<1>7. FreshPath(at[w], next[w], run[w], link[w], code[w])'
  BY <1>1, <1>4, <1>5, <1>6 DEF FreshPath, Passed, Analysed
<1>8. OnPath(w)'
  BY <1>1, <1>3, <1>5, <1>7 DEF OnPath, Path
<1>9. Orderly'
  BY <1>1, <1>3 DEF Orderly, Analysed, Reviewing, Newest, LastOf
<1> QED BY <1>8, <1>9

LEMMA LinkApprovalOnPath ==
    ASSUME IInv, Orderly, NEW w \in Workers, OnPath(w), LinkApproval(w)
    PROVE  Orderly' /\ OnPath(w)'
<1>1. /\ next[w] = "link" /\ Go(w, "APPROVAL_PENDING") /\ approval_id' = link[w]
      /\ UNCHANGED <<kind, validated, current_state, artifacts, mode, run, at, link,
                     code>>
      /\ deployments' = deployments
  BY DEF LinkApproval, outside
<1>2. Fits(mode[w], at[w], next[w], run[w], link[w])
  BY DEF IInv
<1>3. mode[w] = "fresh" /\ at[w] = "OPTIMIZED"
  BY <1>1, <1>2
     DEF Fits, Course, Ending, Requesting, Deploying, Concluding, TaskState,
         BeforeRequest
<1>4. /\ FreshPath("OPTIMIZED", "link", run[w], link[w], code[w])
      /\ current_state \notin Reviewing
  BY <1>1, <1>3, OnItsPath DEF Ending, Reviewing
<1>5. kind # "direct" /\ Holds(link[w], code[w]) /\ Unused(link[w])
  BY <1>4 DEF FreshPath, Early, Making, Passed, Stored, Requesting, Undeployed,
              Deploying, Concluding
<1>6. /\ mode'[w] = "fresh" /\ at'[w] = "OPTIMIZED" /\ run'[w] = run[w]
      /\ code'[w] = code[w] /\ link'[w] = link[w] /\ next'[w] = "APPROVAL_PENDING"
  BY <1>1, <1>3 DEF Go, IInv, TypeOK
<1>7. FreshPath(at[w], next[w], run[w], link[w], code[w])'
  <2>1. <<"OPTIMIZED", "APPROVAL_PENDING">> \in Requesting
    BY DEF Requesting
  <2> QED BY <1>1, <1>5, <1>6, <2>1 DEF FreshPath, Holds, Analysed, Unused
<1>8. OnPath(w)'
  BY <1>1, <1>4, <1>6, <1>7 DEF OnPath, Path
<1>9. Orderly'
  BY <1>1, <1>4, <1>5 DEF Orderly, Analysed, Reviewing, Newest, LastOf
<1> QED BY <1>8, <1>9

\* A call that is alone with the task submits the newest code, its own or what it
\* found, and under an approval that nothing has been submitted under.
LEMMA SubmitsWhatItHolds ==
    ASSUME IInv, NEW w \in Workers, OnPath(w), Submit(w)
    PROVE  /\ mode[w] \in {"fresh", "resumed"} /\ current_state \notin Reviewing
           /\ Holds(link[w], code[w]) /\ Unused(link[w])
           /\ mode[w] = "fresh" => kind # "direct"
<1>1. at[w] = "DEPLOYING" /\ next[w] = "work"
  BY DEF Submit, Does
<1>2. mode[w] \in {"fresh", "resumed"}
  BY <1>1, GrantedWork
<1>3. /\ current_state \notin Reviewing
      /\ mode[w] = "fresh" => FreshPath("DEPLOYING", "work", run[w], link[w], code[w])
      /\ mode[w] = "resumed" => ResumedPath("DEPLOYING", "work", link[w], code[w])
  BY <1>1, <1>2, OnItsPath DEF Ending, Reviewing
<1> QED
  BY <1>2, <1>3
     DEF FreshPath, ResumedPath, Early, Making, Passed, Stored, Requesting, Concluding

\* The approval that is used up now was unused, and the code had been analysed.
LEMMA SubmitOnPath ==
    ASSUME IInv, Orderly, NEW w \in Workers, OnPath(w), Submit(w)
    PROVE  Orderly' /\ OnPath(w)'
<1> DEFINE d == [code |-> code[w], approval |-> link[w]]
           D == [code : Code, approval : Calls \cup {NoCall}]
           ds == deployments
<1>1. /\ at[w] = "DEPLOYING" /\ next[w] = "work" /\ Go(w, "await")
      /\ deployments' = Append(ds, d)
      /\ UNCHANGED <<kind, validated, current_state, artifacts, approval_id, mode, run,
                     at, link, code>>
  BY DEF Submit, Does, database
<1>2. mode[w] \in {"fresh", "resumed"}
  BY <1>1, GrantedWork
<1>3. current_state \notin Reviewing
  BY SubmitsWhatItHolds
<1>4. /\ Holds(link[w], code[w]) /\ Unused(link[w])
      /\ mode[w] = "fresh" => kind # "direct"
  BY SubmitsWhatItHolds
<1>5. d \in D /\ ds \in Seq(D) /\ d.code = code[w] /\ d.approval = link[w]
  BY DEF IInv, TypeOK
<1>6. /\ mode'[w] = mode[w] /\ at'[w] = "DEPLOYING" /\ next'[w] = "await"
  BY <1>1 DEF Go, IInv, TypeOK
<1>7. OnPath(w)'
  BY <1>1, <1>2, <1>3, <1>4, <1>6
     DEF OnPath, Path, FreshPath, ResumedPath, Reviewing
<1>8. \A i \in DOMAIN ds : ds[i].approval # link[w]
  BY <1>4 DEF Unused, ToSet
<1>9. \A i, j \in DOMAIN ds : ds[i].approval = ds[j].approval => i = j
  BY DEF Orderly
<1> HIDE DEF d, D, ds
<1>10. ToSet(deployments') = ToSet(ds) \cup {d}
  BY <1>1, <1>5, ItemsOfAppend
<1>11. \A i, j \in DOMAIN deployments' :
          deployments'[i].approval = deployments'[j].approval => i = j
  <2>1. /\ DOMAIN ds = 1 .. Len(ds) /\ Len(ds) \in Nat
        /\ DOMAIN deployments' = 1 .. Len(ds) + 1
        /\ \A i \in 1 .. Len(ds) : deployments'[i] = ds[i]
        /\ deployments'[Len(ds) + 1] = d
    BY <1>1, <1>5
  <2> QED BY <1>5, <1>8, <1>9, <2>1
<1>12. \A e \in ToSet(deployments') : (Analysed(e.code) /\ Newest(e.code, e.approval))'
  <2>1. artifacts \in Seq(Code)
    BY DEF IInv, TypeOK
  <2>2. Analysed(d.code) /\ Newest(d.code, d.approval)
    BY <1>4, <1>5, <2>1, LastIsNewest DEF Holds
  <2>3. \A e \in ToSet(deployments') : Analysed(e.code) /\ Newest(e.code, e.approval)
    BY <1>10, <2>2 DEF Orderly, ds
  <2> QED BY <1>1, <2>3 DEF Analysed, Newest, LastOf
<1>13. Orderly'
  BY <1>1, <1>3, <1>11, <1>12 DEF Orderly, Reviewing
<1> QED BY <1>7, <1>13

\* Where recording the next state leads: on, or to the end.
LEMMA FreshRecords ==
    ASSUME NEW a, NEW s \in TaskState, NEW r, NEW l, NEW c, FreshPath(a, s, r, l, c)
    PROVE  /\ After("fresh", s) \notin Ending => FreshPath(s, After("fresh", s), r, l, c)
           /\ s \in Reviewing => Ready(approval_id) /\ Unused(approval_id)
<1> DEFINE n == After("fresh", s)
<1>1. CASE a \in Early /\ s \in Early \cup {"IN_DEVELOPMENT"}
  <2>1. s \notin Reviewing
    BY <1>1 DEF Early, Reviewing
  <2>2. \/ s \in Early /\ n \in Early \cup {"IN_DEVELOPMENT"}
        \/ s = "IN_DEVELOPMENT" /\ n = "work"
    BY <1>1, AfterIs
  <2> HIDE DEF n
  <2>3. FreshPath(s, n, r, l, c)
    BY <2>2 DEF FreshPath
  <2> QED BY <2>1, <2>3 DEF n
<1>2. CASE kind # "direct" /\ <<a, s>> \in Making /\ c = [run |-> r, stage |-> "generated"]
  <2>1. s \in {"CODE_GENERATED", "IN_VALIDATION"}
    BY <1>2 DEF Making, TaskState
  <2>2. <<s, n>> \in Making
    BY <2>1, AfterIs DEF Making
  <2> HIDE DEF n
  <2>3. FreshPath(s, n, r, l, c)
    BY <1>2, <2>2 DEF FreshPath
  <2> QED BY <2>1, <2>3 DEF n, Reviewing
<1>3. CASE <<a, s>> = <<"IN_VALIDATION", "VALIDATION_FAILED">>
  BY <1>3, AfterIs DEF Ending, Reviewing
<1>4. CASE kind # "direct" /\ <<a, s>> \in Passed /\ c.run = r /\ Analysed(c)
  <2>1. s \in {"VALIDATION_PASSED", "OPTIMIZATION_PENDING", "IN_OPTIMIZATION"}
    BY <1>4 DEF Passed, TaskState
  <2>2. <<s, n>> \in Passed
    BY <2>1, AfterIs DEF Passed
  <2> HIDE DEF n
  <2>3. FreshPath(s, n, r, l, c)
    BY <1>4, <2>2 DEF FreshPath
  <2> QED BY <2>1, <2>3 DEF n, Reviewing
<1>5. CASE kind # "direct" /\ <<a, s>> \in Stored /\ Holds(r, c)
  <2>1. s = "OPTIMIZED"
    BY <1>5 DEF Stored, TaskState
  <2>2. <<s, n>> \in Stored
    BY <2>1, AfterIs DEF Stored
  <2> HIDE DEF n
  <2>3. FreshPath(s, n, r, l, c)
    BY <1>5, <2>2 DEF FreshPath
  <2> QED BY <2>1, <2>3 DEF n, Reviewing
<1>6. CASE /\ kind # "direct" /\ <<a, s>> \in Requesting \cup Undeployed
           /\ Holds(l, c) /\ Unused(l) /\ approval_id = l
  <2>1. s \in {"APPROVAL_PENDING", "IN_REVIEW", "APPROVED", "DEPLOYING"}
    BY <1>6 DEF Requesting, Undeployed, Deploying, TaskState
  <2>2. <<s, n>> \in Requesting \cup Undeployed
    BY <2>1, AfterIs DEF Requesting, Undeployed, Deploying
  <2> HIDE DEF n
  <2>3. FreshPath(s, n, r, l, c)
    BY <1>6, <2>2 DEF FreshPath
  <2>4. Ready(approval_id)
    BY <1>6 DEF Ready, Holds
  <2> QED BY <1>6, <2>3, <2>4 DEF n
<1>7. CASE kind # "direct" /\ <<a, s>> \in Concluding \cup {<<"DEPLOYING", "await">>}
  <2>1. s \in {"DEPLOYED", "DEV_FAILED", "COMPLETED"}
    BY <1>7 DEF Concluding, TaskState
  <2>2. n \in Ending \/ <<s, n>> \in Concluding
    BY <2>1, AfterIs DEF Concluding, Ending
  <2> HIDE DEF n
  <2>3. n \in Ending \/ FreshPath(s, n, r, l, c)
    BY <1>7, <2>2 DEF FreshPath
  <2> QED BY <2>1, <2>3 DEF n, Reviewing
<1>8. "work" \notin TaskState /\ "link" \notin TaskState
  BY DEF TaskState
<1> QED BY <1>1, <1>2, <1>3, <1>4, <1>5, <1>6, <1>7, <1>8 DEF FreshPath

LEMMA ResumedRecords ==
    ASSUME NEW a, NEW s \in TaskState, NEW l, NEW c, ResumedPath(a, s, l, c)
    PROVE  /\ After("resumed", s) \notin Ending => ResumedPath(s, After("resumed", s), l, c)
           /\ s \in Reviewing => Ready(approval_id) /\ Unused(approval_id)
<1> DEFINE n == After("resumed", s)
<1>1. CASE /\ <<a, s>> \in Undeployed /\ approval_id = l /\ Ready(l) /\ Unused(l)
           /\ <<a, s>> \in {<<"APPROVED", "DEPLOYING">>, <<"DEPLOYING", "work">>} =>
                  Holds(l, c)
  <2>1. s \in {"IN_REVIEW", "APPROVED", "DEPLOYING"} /\ (s = "DEPLOYING" => Holds(l, c))
    BY <1>1 DEF Undeployed, Deploying, TaskState
  <2>2. /\ <<s, n>> \in Undeployed
        /\ <<s, n>> \in {<<"APPROVED", "DEPLOYING">>, <<"DEPLOYING", "work">>} =>
               Holds(l, c)
    BY <2>1, AfterIs DEF Undeployed, Deploying
  <2> HIDE DEF n
  <2>3. ResumedPath(s, n, l, c)
    BY <1>1, <2>2 DEF ResumedPath
  <2> QED BY <1>1, <2>3 DEF n
<1>2. CASE s = "REJECTED"
  BY <1>2, AfterIs DEF Ending, Reviewing
<1>3. CASE <<a, s>> \in Concluding \cup {<<"DEPLOYING", "await">>}
  <2>1. s \in {"DEPLOYED", "DEV_FAILED", "COMPLETED"}
    BY <1>3 DEF Concluding, TaskState
  <2>2. n \in Ending \/ <<s, n>> \in Concluding
    BY <2>1, AfterIs DEF Concluding, Ending
  <2> HIDE DEF n
  <2>3. n \in Ending \/ ResumedPath(s, n, l, c)
    BY <2>2 DEF ResumedPath
  <2> QED BY <2>1, <2>3 DEF n, Reviewing
<1>4. "gate" \notin TaskState
  BY DEF TaskState
<1> QED BY <1>1, <1>2, <1>3, <1>4 DEF ResumedPath

\* The task's state is what the call has recorded.
LEMMA RecordedPath ==
    ASSUME Orderly, NEW w \in Workers, NEW m \in Modes, NEW a, NEW s \in TaskState,
           NEW n, NEW r, NEW l, NEW c,
           n = After(m, s), Path(m, a, s, r, l, c),
           mode'[w] = m, at'[w] = s, next'[w] = n, run'[w] = r, link'[w] = l,
           code'[w] = c, current_state' = s,
           UNCHANGED <<kind, validated, artifacts, approval_id, deployments>>
    PROVE  Orderly' /\ OnPath(w)'
<1>1. s \notin Ending
  BY DEF Ending, TaskState
<1>2. m = "fresh" => /\ n \notin Ending => FreshPath(s, n, r, l, c)
                     /\ s \in Reviewing => Ready(approval_id) /\ Unused(approval_id)
  BY <1>1, FreshRecords DEF Path
<1>3. m = "resumed" => /\ n \notin Ending => ResumedPath(s, n, l, c)
                       /\ s \in Reviewing => Ready(approval_id) /\ Unused(approval_id)
  BY <1>1, ResumedRecords DEF Path
<1>4. /\ m = "direct" => kind = "direct"
      /\ m \in {"cleanup", "direct_cleanup"} =>
             s \in {"CANCELLED", "DEV_FAILED"} /\ n = "return"
  BY <1>1, AfterIs DEF Path
<1>5. Path(m, s, n, r, l, c)'
  <2>1. /\ n \notin Ending /\ m = "fresh" => FreshPath(s, n, r, l, c)'
        /\ n \notin Ending /\ m = "resumed" => ResumedPath(s, n, l, c)'
    <3>1. /\ Ready(l)' = Ready(l) /\ Holds(l, c)' = Holds(l, c)
          /\ Holds(r, c)' = Holds(r, c)
          /\ Analysed(c)' = Analysed(c) /\ Unused(l)' = Unused(l)
          /\ kind' = kind /\ approval_id' = approval_id
      BY DEF Ready, Holds, Analysed, Unused
    <3>2. FreshPath(s, n, r, l, c) => FreshPath(s, n, r, l, c)'
      BY <3>1 DEF FreshPath
    <3>3. ResumedPath(s, n, l, c) => ResumedPath(s, n, l, c)'
      BY <3>1 DEF ResumedPath
    <3> QED BY <1>2, <1>3, <3>2, <3>3
  <2> QED BY <1>4, <2>1 DEF Path, Ending
<1>6. s \in Reviewing /\ approval_id # NoCall => Ready(approval_id) /\ Unused(approval_id)
  <2>1. CASE m = "direct"
    BY <1>4, <2>1 DEF Orderly
  <2>2. CASE m \in {"cleanup", "direct_cleanup"}
    BY <1>4, <2>2 DEF Reviewing
  <2> QED BY <1>2, <1>3, <2>1, <2>2 DEF Modes
<1>7. Orderly'
  BY <1>6 DEF Orderly, Ready, Holds, Analysed, Unused, Newest, LastOf
<1> QED BY <1>5, <1>7 DEF OnPath

LEMMA RecordOnPath ==
    ASSUME IInv, Orderly, NEW w \in Workers, OnPath(w), Record(w)
    PROVE  Orderly' /\ OnPath(w)'
<1>1. PICK m, a, s, n, r, l, c :
         /\ m = mode[w] /\ a = at[w] /\ s = next[w] /\ n = After(mode[w], next[w])
         /\ r = run[w] /\ l = link[w] /\ c = code[w]
  OBVIOUS
<1>2. s \in TaskState
  BY <1>1 DEF Record, VALID_TRANSITIONS, Cancellable, ForwardTransitions, TaskState
<1>3. Path(m, a, s, r, l, c)
  BY <1>1, <1>2, OnItsPath DEF Ending, TaskState
<1>4. m \in Modes /\ n = After(m, s)
  BY <1>1 DEF IInv, TypeOK, Modes
<1>5. /\ mode'[w] = m /\ at'[w] = s /\ next'[w] = n /\ run'[w] = r /\ link'[w] = l
      /\ code'[w] = c /\ current_state' = s
      /\ UNCHANGED <<kind, validated, artifacts, approval_id, deployments>>
  BY <1>1 DEF Record, Go, outside, IInv, TypeOK
<1> QED BY <1>2, <1>3, <1>4, <1>5, RecordedPath

\* A route that records from the state the task is in leaves it under review, or takes it
\* out of review.
LEMMA RouteMoves ==
    ASSUME IInv, NEW d \in Deciders, Route(d), lost' = lost
    PROVE  \/ current_state' = current_state
           \/ /\ step[d] = "reviewing" /\ step' = [step EXCEPT ![d] = "conclude"]
              /\ current_state = "APPROVAL_PENDING" /\ current_state' = "IN_REVIEW"
           \/ /\ step[d] = "concluding"
              /\ current_state = "IN_REVIEW" /\ current_state' \in {"APPROVED", "REJECTED"}
<1>1. step[d] # "idle" /\ lost \in Nat /\ verdict[d] \in {"APPROVED", "REJECTED"}
  BY ExecutionServiceAssumption
     DEF Route, RouteReviews, RouteRecordsReview, RouteConcludes, RouteRecordsVerdict,
         RouteCommits, RouteFails, IInv, TypeOK, Routed, Behind
<1> QED
  BY <1>1
     DEF Route, RouteReviews, RouteRecordsReview, RouteConcludes, RouteRecordsVerdict,
         RouteCommits, RouteFails, RouteReads, RouteRecords, RouteGoesTo, database

\* What neither a decision nor its route touches.
LEMMA RouteLeaves ==
    ASSUME NEW d \in Deciders,
           Route(d) \/ \E r \in Calls, v \in Verdicts : Decide(d, r, v)
    PROVE  UNCHANGED <<kind, sensitive, validated, artifacts, approval_id, deployments,
                       mode, at, next, run, link, code, calls, edits, manual, overlaps>>
BY DEF Decide, Decision, Route, RouteReviews, RouteRecordsReview, RouteConcludes,
       RouteRecordsVerdict, RouteCommits, RouteFails, RouteReads, RouteRecords, database,
       local, history

LEMMA DecideOnPath ==
    ASSUME IInv, Orderly, NEW d \in Deciders, lost' = lost,
           Route(d) \/ \E r \in Calls, v \in Verdicts : Decide(d, r, v)
    PROVE  /\ Orderly'
           /\ \A w \in Workers : OnPath(w) => OnPath(w)'
           /\ UNCHANGED at
<1>1. current_state' \in Reviewing => current_state \in Reviewing
  BY RouteMoves DEF Decide, Decision, Reviewing
<1>2. UNCHANGED <<kind, validated, artifacts, approval_id, deployments, mode, at, next,
                  run, link, code>>
  BY RouteLeaves
<1> QED
  BY <1>1, <1>2
     DEF Orderly, OnPath, Path, FreshPath, ResumedPath, Ready, Holds, Analysed, Unused,
         Newest, LastOf, Busy

-----------------------------------------------------------------------------
LEMMA StepOnPath ==
    ASSUME IInv, Orderly, NEW w \in Workers, OnPath(w), Step(w)
    PROVE  Orderly' /\ OnPath(w)'
BY BeginOnPath, EndsOnPath, RecordOnPath, ExecuteDirectOnPath, DevelopOnPath, FailOnPath,
   StoreOnPath, ValidateOnPath, OptimizeOnPath, RequestApprovalOnPath, LinkApprovalOnPath,
   GateOnPath, GateResumedOnPath, LoadLatestOnPath, SubmitOnPath, ConcludingOnPath,
   HandleOnPath
   DEF Step

\* A call moves nobody but itself.
LEMMA MovesItself ==
    ASSUME IInv, NEW w \in Workers, Step(w), NEW v \in Workers, v # w
    PROVE  at'[v] = at[v]
<1>1. UNCHANGED at \/ \E a : at' = [at EXCEPT ![w] = a]
  BY DEF Step, Begin, Return, Vanish, Record, RecordRefused, Turn, ExecuteDirect, Develop,
         AgentFails, Store, Validate, Optimize, RequestApproval, LinkApproval, Gate,
         GateResumed, LoadLatest, Submit, SubmitFails, Await, Handle, HandleDirect, Fail,
         Crash
<1> QED BY <1>1 DEF IInv, TypeOK

\* As long as nothing overlaps, a call begins when no other is under way, and a call
\* that is not under way does nothing but begin.
LEMMA OneStepsAlone ==
    ASSUME IInv, Alone, NEW w \in Workers, Step(w), Quiet, Quiet'
    PROVE  \A v \in Workers : Busy(v) => v = w
<1>1. CASE Begin(w)
  <2>1. ~ \E v \in Workers : Busy(v)
    BY <1>1 DEF Begin, Quiet
  <2> QED BY <2>1
<1>2. CASE ~ Begin(w)
  <2>1. Busy(w)
    <3>1. Busy(w) \/ next[w] \notin Ending \/ next[w] = "handler"
      BY <1>2
         DEF Step, Return, Record, RecordRefused, ExecuteDirect, Develop,
             AgentFails, Store, Validate, Optimize, RequestApproval, LinkApproval, Gate,
             GateResumed, LoadLatest, Submit, SubmitFails, Await, Handle, HandleDirect,
             Fail, Crash, Does, Ending, VALID_TRANSITIONS, Cancellable, ForwardTransitions,
             TaskState
    <3> QED BY <3>1, WorkingIsBusy DEF Ending
  <2> QED BY <2>1 DEF Alone
<1> QED BY <1>1, <1>2

LEMMA QuietBefore == ASSUME IInv, [Next]_vars, Quiet' PROVE Quiet
<1>1. {overlaps, edits, manual, lost} \subseteq Nat
  BY ExecutionServiceAssumption DEF IInv, TypeOK
<1>2. ASSUME NEW w \in Workers, Step(w)
      PROVE  /\ UNCHANGED <<edits, manual, lost>>
             /\ overlaps' \in {overlaps, overlaps + 1}
  BY <1>2
     DEF Step, Begin, Return, Vanish, Record, RecordRefused, Turn, ExecuteDirect, Develop,
         AgentFails, Store, Validate, Optimize, RequestApproval, LinkApproval, Gate,
         GateResumed, LoadLatest, Submit, SubmitFails, Await, Handle, HandleDirect, Fail,
         Crash, Fault, world, history
<1>3. ASSUME NEW d \in Deciders,
             Route(d) \/ \E r \in Calls, v \in Verdicts : Decide(d, r, v)
      PROVE  UNCHANGED <<overlaps, edits, manual>> /\ lost' \in {lost, lost + 1}
  <2>1. UNCHANGED <<overlaps, edits, manual>>
    BY <1>3, RouteLeaves
  <2>2. lost' \in {lost, lost + 1}
    BY <1>3
       DEF Decide, Decision, Route, RouteReviews, RouteRecordsReview, RouteConcludes,
           RouteRecordsVerdict, RouteCommits, RouteFails, RouteReads, RouteRecords, history
  <2> QED BY <2>1, <2>2
<1>4. Edit => edits' = edits + 1 /\ UNCHANGED <<overlaps, manual, lost>>
  BY DEF Edit
<1>5. ASSUME NEW t \in TaskState, TransitionByHand(t)
      PROVE  manual' = manual + 1 /\ UNCHANGED <<overlaps, edits, lost>>
  BY <1>5 DEF TransitionByHand
<1>6. UNCHANGED vars => UNCHANGED <<overlaps, edits, manual, lost>>
  BY DEF vars, world, history
<1> QED BY <1>1, <1>2, <1>3, <1>4, <1>5, <1>6 DEF Next, Quiet

LEMMA InitQInv == Init => QInv
<1> SUFFICES ASSUME Init PROVE QInv
  OBVIOUS
<1>1. Alone /\ \A w \in Workers : OnPath(w)
  BY DEF Init, Alone, OnPath, Busy
<1>2. Orderly
  BY DEF Init, Orderly, ToSet, Reviewing
<1> QED BY <1>1, <1>2 DEF QInv

LEMMA NextQInv == IInv /\ QInv /\ [Next]_vars => QInv'
<1> SUFFICES ASSUME IInv, QInv, [Next]_vars, Quiet'
             PROVE  (Alone /\ Orderly /\ \A w \in Workers : OnPath(w))'
  BY DEF QInv
<1>1. Quiet
  BY QuietBefore
<1>2. Alone /\ Orderly /\ \A w \in Workers : OnPath(w)
  BY <1>1 DEF QInv
<1>3. ASSUME NEW w \in Workers, Step(w)
      PROVE  (Alone /\ Orderly /\ \A v \in Workers : OnPath(v))'
  <2>1. Orderly' /\ OnPath(w)'
    BY <1>2, <1>3, StepOnPath
  <2>2. \A v \in Workers : v # w => ~ Busy(v)'
    BY <1>1, <1>2, <1>3, OneStepsAlone, MovesItself DEF Busy
  <2>3. Alone'
    BY <2>2 DEF Alone
  <2>4. \A v \in Workers : v # w => OnPath(v)'
    BY <2>2 DEF OnPath
  <2> QED BY <2>1, <2>3, <2>4
<1>4. ASSUME NEW d \in Deciders,
             Route(d) \/ \E r \in Calls, v \in Verdicts : Decide(d, r, v)
      PROVE  (Alone /\ Orderly /\ \A w \in Workers : OnPath(w))'
  <2>1. lost' = lost
    BY <1>1 DEF Quiet
  <2> QED BY <1>2, <1>4, <2>1, DecideOnPath DEF Alone, Busy
<1>5. ~ Edit /\ ~ \E t \in TaskState : TransitionByHand(t)
  <2>1. edits = 0 /\ manual = 0 /\ edits' = 0 /\ manual' = 0
    BY <1>1 DEF Quiet
  <2> QED BY <2>1 DEF Edit, TransitionByHand
<1>6. CASE UNCHANGED vars
  <2>1. UNCHANGED <<kind, validated, current_state, artifacts, approval_id, deployments,
                    mode, at, next, run, link, code>>
    BY <1>6 DEF vars, world, database, outside, local
  <2> QED
    BY <1>2, <2>1
       DEF Alone, Orderly, OnPath, Path, FreshPath, ResumedPath, Ready, Holds, Analysed,
           Unused, Newest, LastOf, Busy
<1> QED BY <1>3, <1>4, <1>5, <1>6 DEF Next

\* With no overlapping calls, no edited code, no state set by hand and none written over,
\* calls stay on their path and the task stays in order.
THEOREM StaysOnPath == Spec => []QInv
<1> QED BY Inductive, InitQInv, NextQInv, PTL DEF Spec

\* What the code keeps of INV-07: then nothing that the safety analysis has not passed is
\* submitted but what the optimization made of a code that it has, wherever calls fail or
\* die, and whenever approvals are decided and their decisions overturned.
THEOREM UnanalysedIsOptimized == Spec => []OnlyOptimizedIsUnanalysed
<1>1. IInv /\ QInv => OnlyOptimizedIsUnanalysed
  <2> SUFFICES ASSUME IInv, QInv, Quiet, NEW d \in ToSet(deployments)
               PROVE  \/ d.code \in validated
                      \/ /\ d.code.stage = "optimized"
                         /\ [d.code EXCEPT !.stage = "generated"] \in validated
    BY DEF OnlyOptimizedIsUnanalysed
  <2>1. Analysed(d.code) /\ Newest(d.code, d.approval) /\ d.approval \in Calls
    BY DEF QInv, Orderly, IInv, TypeOK, GatedDeployment, Granted
  <2>2. d.code \in Code /\ d.code.run \in Calls
    BY <2>1 DEF Newest, LastOf, IInv, TypeOK
  <2>3. d.code \in [run : Calls, stage : {"generated", "optimized"}]
    BY <2>2 DEF Code, NoCall, Calls
  <2>4. CASE d.code.stage = "generated"
    <3>1. [d.code EXCEPT !.stage = "generated"] = d.code
      BY <2>3, <2>4
    <3> QED BY <2>1, <3>1 DEF Analysed
  <2>5. CASE d.code.stage = "optimized"
    BY <2>1, <2>5 DEF Analysed
  <2> QED BY <2>3, <2>4, <2>5
<1> QED BY <1>1, Inductive, StaysOnPath, PTL

\* And what is submitted under an approval is the newest code of the call that
\* requested it, though a resumed call loads whatever is newest by then, and though it may
\* resume before the route of the decision has moved the task.
THEOREM WhatWasApproved == Spec => []DeploysWhatWasApproved
<1>1. QInv => DeploysWhatWasApproved
  BY DEF QInv, Orderly, DeploysWhatWasApproved
<1> QED BY <1>1, StaysOnPath, PTL

\* And nothing is submitted twice under one approval: it takes an overlap, a transition by
\* hand, or a route that writes over the state that a resumed call has left.
THEOREM OncePerApproval == Spec => []DeployedOncePerApproval
<1>1. QInv => DeployedOncePerApproval
  BY DEF QInv, Orderly, DeployedOncePerApproval
<1> QED BY <1>1, StaysOnPath, PTL
-----------------------------------------------------------------------------
(***************************************************************************)
(* One call at a time, no hand but theirs, no failed step and no death:    *)
(* what the call is about to do will not leave the task stranded.          *)
(***************************************************************************)

\* A state in which a call may leave the task: one where a call may end, or under review
\* while a route is about to record the verdict.
Safe ==
    \/ current_state \in SettledStates
    \/ /\ current_state = "IN_REVIEW"
       /\ \E d \in Deciders : step[d] \in {"conclude", "concluding"}

\* A state that the handler of a call can leave, or need not leave.
Escapable ==
    \/ Safe
    \/ \E t \in {"CANCELLED", "DEV_FAILED"} : <<current_state, t>> \in VALID_TRANSITIONS

\* Where a call may end before it has recorded anything more.
Waiting(m, a, n) ==
    \/ n \in {"return", "gate"}
    \/ <<a, n>> = <<"APPROVAL_PENDING", "work">>
    \/ m = "resumed" /\ <<a, n>> = <<"APPROVED", "work">>

\* What a call is to record is on the whitelist, unless it is a rejection that is
\* recorded already; what it may leave is settled, or its handler gets it out of there.
Tidy(m, a, n) ==
    /\ n # "PARSE_FAILED" /\ m # "direct_cleanup"
    /\ m = "cleanup" => n \in {"CANCELLED", "DEV_FAILED", "return"}
    /\ n \in TaskState =>
           \/ <<a, n>> \in VALID_TRANSITIONS
           \/ m = "resumed" /\ n = "REJECTED" /\ Safe
    /\ n = "handler" => m # "direct" /\ Escapable
    /\ <<a, n>> = <<"IN_DEVELOPMENT", "work">> => current_state = "IN_DEVELOPMENT"
    /\ Waiting(m, a, n) => Safe

\* The call that is alone with the task.
Tidily(w) ==
    IF Busy(w) THEN Tidy(mode[w], at[w], next[w]) ELSE Safe

Settled == (\A w \in Workers : ~ Busy(w)) => Safe

\* The strengthening for undisturbed calls none of whose steps fails.
SInv == Undisturbed => Settled /\ \A w \in Workers : Busy(w) => Tidily(w)

LEMMA SuccessorsAreValid ==
    \A s \in BeforeRequest \cup FromRequest :
        /\ <<s, Successor(s)>> \in VALID_TRANSITIONS
        /\ Successor(s) \in TaskState \ {"PARSE_FAILED", "REJECTED"}
<1>1. \A i \in 1 .. 19 : Successor(Pipeline[i]) = Pipeline[i + 1]
  BY SuccessorIs
<1>2. BeforeRequest \cup FromRequest = {Pipeline[i] : i \in 1 .. 19}
  BY DEF Pipeline, BeforeRequest, FromRequest
<1>3. \A i \in 1 .. 19 : <<Pipeline[i], Pipeline[i + 1]>> \in ForwardTransitions
  BY DEF Pipeline, ForwardTransitions
<1>4. \A i \in 1 .. 19 : Pipeline[i + 1] \in TaskState \ {"PARSE_FAILED", "REJECTED"}
  BY DEF Pipeline, TaskState
<1> HIDE DEF Pipeline
<1>5. \A i \in 1 .. 19 : <<Pipeline[i], Pipeline[i + 1]>> \in VALID_TRANSITIONS
  BY <1>3 DEF VALID_TRANSITIONS
<1> QED BY <1>1, <1>2, <1>4, <1>5

\* A call that is to record a transition of the whitelist ...
LEMMA ValidIsTidy ==
    ASSUME NEW m, NEW a, NEW n \in TaskState \ {"PARSE_FAILED"},
           m # "direct_cleanup", m = "cleanup" => n \in {"CANCELLED", "DEV_FAILED"},
           <<a, n>> \in VALID_TRANSITIONS
    PROVE  Tidy(m, a, n)
<1>1. n \notin {"return", "gate", "work", "handler"}
  BY DEF TaskState
<1> QED BY <1>1 DEF Tidy, Waiting

\* ... or to go on with its work.
LEMMA WorkIsTidy ==
    ASSUME NEW m, NEW a, NEW n \in {"store", "link", "await"},
           m \notin {"cleanup", "direct_cleanup"}
    PROVE  Tidy(m, a, n)
BY DEF Tidy, Waiting, TaskState

\* What is recorded is followed by more, or is the end.
LEMMA AfterIsTidy ==
    ASSUME NEW m, NEW s \in TaskState, s # "PARSE_FAILED", m # "direct_cleanup",
           m = "cleanup" => s \in {"CANCELLED", "DEV_FAILED"}, current_state' = s
    PROVE  Tidy(m, s, After(m, s))'
<1> DEFINE n == After(m, s)
<1>1. n = IF m = "cleanup" \/ s \notin BeforeRequest \cup FromRequest
            THEN "return" ELSE IF s \in WorkStates(m) THEN "work" ELSE Successor(s)
  BY PipelineStates DEF After
<1>2. TaskState = BeforeRequest \cup FromRequest \cup
          {"PARSE_FAILED", "DEV_FAILED", "VALIDATION_FAILED", "REJECTED", "CANCELLED",
           "COMPLETED"}
  BY DEF TaskState, BeforeRequest, FromRequest
<1> HIDE DEF n
<1>3. CASE n = "return" /\ s \in SettledStates
  BY <1>3 DEF n, Tidy, Waiting, Safe, TaskState
<1>4. CASE n = "work" /\ m # "cleanup" /\ s \in WorkStates(m)
  <2>1. s \in {"APPROVAL_PENDING", "APPROVED"} => s \in SettledStates
    BY DEF SettledStates
  <2> QED BY <1>4, <2>1 DEF n, Tidy, Waiting, Safe, TaskState
<1>5. CASE n = Successor(s) /\ m # "cleanup" /\ s \in BeforeRequest \cup FromRequest
  <2>1. n \in TaskState \ {"PARSE_FAILED"} /\ <<s, n>> \in VALID_TRANSITIONS
    BY <1>5, SuccessorsAreValid
  <2>2. n \notin {"return", "gate", "work", "handler"}
    BY <2>1 DEF TaskState
  <2> QED BY <1>5, <2>1, <2>2 DEF n, Tidy, Waiting
<1>6. s \in {"DEV_FAILED", "VALIDATION_FAILED", "REJECTED", "CANCELLED", "COMPLETED"} =>
          s \in SettledStates
  BY DEF SettledStates
<1> QED BY <1>1, <1>2, <1>3, <1>4, <1>5, <1>6

-----------------------------------------------------------------------------
\* A call that only turns to something else.
LEMMA TidyTurn ==
    ASSUME IInv, NEW w \in Workers, NEW n, next' = [next EXCEPT ![w] = n],
           UNCHANGED <<mode, at, current_state, step>>, Busy(w), Tidy(mode[w], at[w], n)
    PROVE  Tidily(w)'
<1>1. mode'[w] = mode[w] /\ at'[w] = at[w] /\ next'[w] = n
  BY DEF IInv, TypeOK
<1>2. Tidy(mode[w], at[w], n)'
  BY DEF Tidy, Escapable, Safe
<1> QED BY <1>1, <1>2 DEF Tidily, Busy, Tidy

\* What a call that is not over is about to do.
LEMMA ItsTidy ==
    ASSUME IInv, NEW w \in Workers, Tidily(w), next[w] # "return"
    PROVE  Busy(w) /\ run[w] \in 1 .. calls /\ Tidy(mode[w], at[w], next[w])
BY WorkingIsBusy DEF Tidily

LEMMA BeginTidily ==
    ASSUME IInv, NEW w \in Workers, Tidily(w), Begin(w)
    PROVE  Tidily(w)'
<1>1. Safe /\ Safe' /\ current_state' = current_state
  BY DEF Begin, Tidily, Safe, database, outside
<1>2. CASE current_state \in Reviewing
  <2>1. mode'[w] = "resumed" /\ at'[w] = current_state /\ next'[w] = "gate"
    BY <1>2 DEF Begin, Go, IInv, TypeOK
  <2>2. Tidy("resumed", current_state, "gate")'
    BY <1>1 DEF Tidy, TaskState
  <2>3. Busy(w)'
    BY <1>2, <2>1 DEF Busy, Reviewing
  <2> QED BY <1>1, <2>1, <2>2, <2>3 DEF Tidily
<1>3. CASE current_state \notin Reviewing
  <2>1. mode'[w] = "fresh" /\ at'[w] = "SUBMITTED" /\ next'[w] = "PARSING"
    BY <1>3 DEF Begin, Go, IInv, TypeOK
  <2>2. <<"SUBMITTED", "PARSING">> \in VALID_TRANSITIONS
    BY DEF VALID_TRANSITIONS, ForwardTransitions
  <2>3. Tidy("fresh", "SUBMITTED", "PARSING")'
    BY <2>2 DEF Tidy, Waiting
  <2>4. Busy(w)'
    BY <2>1 DEF Busy
  <2> QED BY <2>1, <2>3, <2>4 DEF Tidily
<1> QED BY <1>2, <1>3

LEMMA RecordTidily ==
    ASSUME IInv, NEW w \in Workers, Tidily(w), Record(w)
    PROVE  Tidily(w)'
<1>1. PICK m, s : m = mode[w] /\ s = next[w]
  OBVIOUS
<1>2. s \in TaskState
  BY <1>1 DEF Record, VALID_TRANSITIONS, Cancellable, ForwardTransitions, TaskState
<1>3. s \notin {"return", "idle"}
  BY <1>2 DEF TaskState
<1>4. Tidy(m, at[w], s)
  BY <1>1, <1>3, ItsTidy
<1>5. /\ s # "PARSE_FAILED" /\ m # "direct_cleanup"
      /\ m = "cleanup" => s \in {"CANCELLED", "DEV_FAILED"}
  BY <1>3, <1>4 DEF Tidy
<1>6. /\ mode'[w] = m /\ at'[w] = s /\ next'[w] = After(m, s) /\ current_state' = s
  BY <1>1 DEF Record, Go, IInv, TypeOK
<1>7. Tidy(m, s, After(m, s))'
  BY <1>2, <1>5, <1>6, AfterIsTidy
<1>8. Tidy(m, s, After(m, s))' = Tidy(mode[w], at[w], next[w])'
  BY <1>6 DEF Tidy
<1> QED BY <1>3, <1>6, <1>7, <1>8 DEF Tidily, Busy

\* What is refused is a rejection that has been recorded.
LEMMA RecordRefusedTidily ==
    ASSUME IInv, NEW w \in Workers, Tidily(w), RecordRefused(w)
    PROVE  Tidily(w)'
<1>1. /\ next[w] \in TaskState /\ <<at[w], next[w]>> \notin VALID_TRANSITIONS
      /\ Turn(w, "handler") /\ next[w] # "return"
  BY DEF RecordRefused, TaskState
<1>2. Busy(w) /\ mode[w] = "resumed" /\ Safe
  BY <1>1, ItsTidy DEF Tidy
<1>3. Tidy(mode[w], at[w], "handler")
  BY <1>2 DEF Tidy, Escapable, Waiting, TaskState
<1>4. next' = [next EXCEPT ![w] = "handler"] /\ UNCHANGED <<mode, at, current_state, step>>
  BY <1>1 DEF Turn, Go, world, database, outside
<1> QED BY <1>2, <1>3, <1>4, TidyTurn

LEMMA ExecuteDirectTidily ==
    ASSUME IInv, NEW w \in Workers, Tidily(w), ExecuteDirect(w)
    PROVE  Tidily(w)'
<1>1. /\ mode'[w] = "direct" /\ at'[w] = "IN_DEVELOPMENT" /\ next'[w] = "CODE_GENERATED"
  BY DEF ExecuteDirect, Does, Go, IInv, TypeOK
<1>2. <<"IN_DEVELOPMENT", "CODE_GENERATED">> \in VALID_TRANSITIONS
  BY DEF VALID_TRANSITIONS, ForwardTransitions
<1>3. Tidy("direct", "IN_DEVELOPMENT", "CODE_GENERATED")'
  BY <1>2 DEF Tidy, Waiting
<1> QED BY <1>1, <1>3 DEF Tidily, Busy

\* The work that code is made with: what comes next is more work, or on the whitelist.
LEMMA MakingTidily ==
    ASSUME IInv, NEW w \in Workers, Tidily(w),
           Develop(w) \/ Store(w) \/ Validate(w) \/ Optimize(w) \/ RequestApproval(w)
    PROVE  Tidily(w)'
<1>1. \/ next[w] = "work" /\ at[w] \in BeforeRequest \cup {"OPTIMIZED"}
      \/ next[w] = "store"
  BY DEF Develop, Store, Validate, Optimize, RequestApproval, Does, BeforeRequest
<1>2. /\ mode[w] = "fresh" /\ Busy(w) /\ at[w] \in BeforeRequest \cup {"OPTIMIZED"}
      /\ next[w] = "store" => at[w] \in BeforeRequest
  BY <1>1, FreshWork
<1>3. PICK n : /\ next' = [next EXCEPT ![w] = n] /\ UNCHANGED <<mode, at, current_state,
                                                                step>>
               /\ \/ n \in {"store", "link"}
                  \/ next[w] = "store" /\ n = Successor(at[w])
                  \/ /\ at[w] = "IN_VALIDATION"
                     /\ n \in {"VALIDATION_PASSED", "VALIDATION_FAILED"}
  BY DEF Develop, Store, Validate, Optimize, RequestApproval, Does, Go, world, database,
         outside, routes
<1>4. CASE n \in {"store", "link"}
  BY <1>2, <1>3, <1>4, WorkIsTidy, TidyTurn
<1>5. CASE next[w] = "store" /\ n = Successor(at[w])
  <2>1. n \in TaskState \ {"PARSE_FAILED"} /\ <<at[w], n>> \in VALID_TRANSITIONS
    BY <1>2, <1>5, SuccessorsAreValid
  <2>2. Tidy(mode[w], at[w], n)
    BY <1>2, <2>1, ValidIsTidy
  <2> QED BY <1>2, <1>3, <2>2, TidyTurn
<1>6. CASE at[w] = "IN_VALIDATION" /\ n \in {"VALIDATION_PASSED", "VALIDATION_FAILED"}
  <2>1. n \in TaskState \ {"PARSE_FAILED"} /\ <<at[w], n>> \in VALID_TRANSITIONS
    BY <1>6 DEF TaskState, VALID_TRANSITIONS, ForwardTransitions
  <2>2. Tidy(mode[w], at[w], n)
    BY <1>2, <2>1, ValidIsTidy
  <2> QED BY <1>2, <1>3, <2>2, TidyTurn
<1> QED BY <1>3, <1>4, <1>5, <1>6

\* An agent that fails leaves the task in development, which its handler ends.
LEMMA AgentFailsTidily ==
    ASSUME IInv, NEW w \in Workers, Tidily(w), AgentFails(w)
    PROVE  Tidily(w)'
<1>1. /\ at[w] = "IN_DEVELOPMENT" /\ next[w] = "work"
      /\ next' = [next EXCEPT ![w] = "handler"] /\ UNCHANGED <<mode, at, current_state,
                                                               step>>
  BY DEF AgentFails, Does, Go, database, routes
<1>2. mode[w] = "fresh" /\ Busy(w)
  BY <1>1, FreshWork DEF BeforeRequest
<1>3. current_state = "IN_DEVELOPMENT"
  BY <1>1, ItsTidy DEF Tidy
<1>4. Escapable
  BY <1>3 DEF Escapable, VALID_TRANSITIONS, ForwardTransitions
<1>5. Tidy(mode[w], at[w], "handler")
  BY <1>2, <1>4 DEF Tidy, Waiting, TaskState
<1> QED BY <1>1, <1>2, <1>5, TidyTurn

LEMMA LinkApprovalTidily ==
    ASSUME IInv, NEW w \in Workers, Tidily(w), LinkApproval(w)
    PROVE  Tidily(w)'
<1>1. /\ next[w] = "link" /\ Fits(mode[w], at[w], next[w], run[w], link[w])
      /\ next' = [next EXCEPT ![w] = "APPROVAL_PENDING"]
      /\ UNCHANGED <<mode, at, current_state, step>>
  BY DEF LinkApproval, Go, IInv, outside
<1>2. mode[w] = "fresh" /\ at[w] = "OPTIMIZED" /\ Busy(w)
  BY <1>1, ItsTidy
     DEF Fits, Course, Ending, Requesting, Deploying, Concluding, TaskState, BeforeRequest
<1>3. <<at[w], "APPROVAL_PENDING">> \in VALID_TRANSITIONS
  BY <1>2 DEF VALID_TRANSITIONS, ForwardTransitions
<1>4. Tidy(mode[w], at[w], "APPROVAL_PENDING")
  BY <1>2, <1>3, ValidIsTidy DEF TaskState
<1> QED BY <1>1, <1>2, <1>4, TidyTurn

\* A call that ends at the gate leaves the task to a human.
LEMMA GateTidily ==
    ASSUME IInv, NEW w \in Workers, Tidily(w), Gate(w)
    PROVE  Tidily(w)'
<1>1. PICK n \in {"return", "IN_REVIEW"} :
         /\ at[w] = "APPROVAL_PENDING" /\ next[w] = "work" /\ Turn(w, n)
  BY DEF Gate, Does
<1>2. /\ Busy(w) /\ Tidy(mode[w], at[w], "work")
      /\ Safe /\ mode[w] \notin {"cleanup", "direct_cleanup"}
  BY <1>1, ItsTidy DEF Tidy, Waiting
<1>3. Tidy(mode[w], at[w], n)
  <2>1. CASE n = "return"
    BY <1>2, <2>1 DEF Tidy, TaskState
  <2>2. CASE n = "IN_REVIEW"
    <3>1. <<at[w], n>> \in VALID_TRANSITIONS
      BY <1>1, <2>2 DEF VALID_TRANSITIONS, ForwardTransitions
    <3> QED BY <1>2, <2>2, <3>1, ValidIsTidy DEF TaskState
  <2> QED BY <2>1, <2>2
<1>4. next' = [next EXCEPT ![w] = n] /\ UNCHANGED <<mode, at, current_state, step>>
  BY <1>1 DEF Turn, Go, world, database, outside
<1> QED BY <1>2, <1>3, <1>4, TidyTurn

LEMMA GateResumedTidily ==
    ASSUME IInv, NEW w \in Workers, Tidily(w), GateResumed(w)
    PROVE  Tidily(w)'
<1>1. next[w] = "gate" /\ Fits(mode[w], at[w], next[w], run[w], link[w])
  BY DEF GateResumed, IInv
<1>2. mode[w] = "resumed" /\ at[w] \in Reviewing
  BY <1>1 DEF Fits, Course, Ending, Requesting, Deploying, Concluding, TaskState,
              BeforeRequest
<1>3. Busy(w) /\ Safe
  BY <1>1, ItsTidy DEF Tidy, Waiting
<1>4. PICK n : /\ Turn(w, n)
               /\ \/ n \in {"handler", "return", "REJECTED"}
                  \/ at[w] = "APPROVED" /\ n = "work"
                  \/ n = Successor(at[w])
  BY DEF GateResumed
<1>5. Tidy(mode[w], at[w], n)
  <2>1. CASE n \in {"handler", "return", "REJECTED"} \/ (at[w] = "APPROVED" /\ n = "work")
    BY <1>2, <1>3, <2>1 DEF Tidy, Escapable, Waiting, TaskState
  <2>2. CASE n = Successor(at[w])
    <3>1. at[w] \in BeforeRequest \cup FromRequest
      BY <1>2 DEF Reviewing, FromRequest
    <3>2. n \in TaskState \ {"PARSE_FAILED"} /\ <<at[w], n>> \in VALID_TRANSITIONS
      BY <2>2, <3>1, SuccessorsAreValid
    <3> QED BY <1>2, <3>2, ValidIsTidy
  <2> QED BY <1>4, <2>1, <2>2
<1>6. next' = [next EXCEPT ![w] = n] /\ UNCHANGED <<mode, at, current_state, step>>
  BY <1>4 DEF Turn, Go, world, database, outside
<1> QED BY <1>3, <1>5, <1>6, TidyTurn

LEMMA LoadLatestTidily ==
    ASSUME IInv, NEW w \in Workers, Tidily(w), LoadLatest(w)
    PROVE  Tidily(w)'
<1>1. PICK n \in {"handler", "DEPLOYING"} :
         /\ mode[w] = "resumed" /\ at[w] = "APPROVED" /\ next[w] = "work"
         /\ next' = [next EXCEPT ![w] = n] /\ UNCHANGED <<mode, at, current_state, step>>
  BY DEF LoadLatest, Does, Go, world, database, outside
<1>2. Busy(w) /\ Safe
  BY <1>1, ItsTidy DEF Tidy, Waiting
<1>3. Tidy(mode[w], at[w], n)
  <2>1. CASE n = "handler"
    BY <1>1, <1>2, <2>1 DEF Tidy, Escapable, Waiting, TaskState
  <2>2. CASE n = "DEPLOYING"
    <3>1. <<at[w], n>> \in VALID_TRANSITIONS
      BY <1>1, <2>2 DEF VALID_TRANSITIONS, ForwardTransitions
    <3> QED BY <1>1, <2>2, <3>1, ValidIsTidy DEF TaskState
  <2> QED BY <2>1, <2>2
<1> QED BY <1>1, <1>2, <1>3, TidyTurn

LEMMA DeployingTidily ==
    ASSUME IInv, NEW w \in Workers, Tidily(w), Submit(w) \/ SubmitFails(w) \/ Await(w)
    PROVE  Tidily(w)'
<1>1. /\ at[w] = "DEPLOYING" \/ next[w] = "await"
      /\ next[w] \in {"work", "await"}
      /\ Fits(mode[w], at[w], next[w], run[w], link[w])
  BY DEF Submit, SubmitFails, Await, Does, IInv
<1>2. at[w] = "DEPLOYING" /\ mode[w] \in {"fresh", "resumed"} /\ Busy(w)
  BY <1>1, ItsTidy
     DEF Fits, Course, Ending, Requesting, Deploying, Concluding, TaskState, BeforeRequest
<1>3. PICK n \in {"await", "DEPLOYED", "DEV_FAILED"} :
         next' = [next EXCEPT ![w] = n] /\ UNCHANGED <<mode, at, current_state, step>>
  BY DEF Submit, SubmitFails, Await, Turn, Go, world, database, outside, routes
<1>4. Tidy(mode[w], at[w], n)
  <2>1. CASE n = "await"
    BY <1>2, <2>1, WorkIsTidy
  <2>2. CASE n \in {"DEPLOYED", "DEV_FAILED"}
    <3>1. <<at[w], n>> \in VALID_TRANSITIONS /\ n \in TaskState \ {"PARSE_FAILED"}
      BY <1>2, <2>2 DEF VALID_TRANSITIONS, ForwardTransitions, TaskState
    <3> QED BY <1>2, <3>1, ValidIsTidy
  <2> QED BY <2>1, <2>2
<1> QED BY <1>2, <1>3, <1>4, TidyTurn

\* The handler looks at the state that the task is really in.
LEMMA HandleTidily ==
    ASSUME IInv, NEW w \in Workers, Tidily(w), Handle(w)
    PROVE  Tidily(w)'
<1>1. PICK a, n : /\ a = current_state /\ a # "idle"
                  /\ n = IF <<a, "CANCELLED">> \in VALID_TRANSITIONS
                           THEN "CANCELLED"
                         ELSE IF <<a, "DEV_FAILED">> \in VALID_TRANSITIONS
                           THEN "DEV_FAILED" ELSE "return"
                  /\ mode'[w] = "cleanup" /\ at'[w] = a /\ next'[w] = n
                  /\ current_state' = a
  BY DEF Handle, Go, world, database, IInv, TypeOK, TaskState
<1>2. /\ Escapable
      /\ step' = step
  BY <1>1, ItsTidy DEF Handle, Tidy, world, outside
<1>3. Tidy("cleanup", a, n)'
  <2>1. CASE n = "return"
    <3>1. Safe'
      BY <1>1, <1>2, <2>1 DEF Escapable, Safe
    <3> QED BY <2>1, <3>1 DEF Tidy, TaskState
  <2>2. CASE n \in {"CANCELLED", "DEV_FAILED"}
    <3>1. <<a, n>> \in VALID_TRANSITIONS
      BY <1>1, <2>2
    <3> QED BY <2>2, <3>1 DEF Tidy, Waiting
  <2> QED BY <1>1, <2>1, <2>2
<1>4. Tidy("cleanup", a, n)' = Tidy(mode[w], at[w], next[w])'
  BY <1>1 DEF Tidy
<1> QED BY <1>1, <1>3, <1>4 DEF Tidily, Busy

LEMMA StepTidily ==
    ASSUME IInv, NEW w \in Workers, Tidily(w), Undisturbed, Undisturbed', Step(w)
    PROVE  Tidily(w)'
<1>1. CASE Return(w)
  <2>1. Safe /\ at'[w] = "idle" /\ UNCHANGED <<current_state, step>>
    BY <1>1
       DEF Return, Vanish, Tidily, Tidy, Waiting, IInv, TypeOK, world, database, outside
  <2> QED BY <2>1 DEF Tidily, Busy, Safe
<1>2. ~ HandleDirect(w)
  BY ItsTidy DEF HandleDirect, Tidy
<1>3. ~ Fail(w) /\ ~ Crash(w)
  BY DEF Fail, Crash, Fault, Undisturbed
<1> QED
  BY <1>1, <1>2, <1>3, BeginTidily, RecordTidily, RecordRefusedTidily,
     ExecuteDirectTidily, MakingTidily, AgentFailsTidily, LinkApprovalTidily, GateTidily,
     GateResumedTidily, LoadLatestTidily, DeployingTidily, HandleTidily
     DEF Step

\* A decision moves a task from where a call may leave it to where one may.
LEMMA SafeStays ==
    ASSUME IInv, NEW d \in Deciders, lost' = lost, faults' = faults,
           Route(d) \/ \E r \in Calls, v \in Verdicts : Decide(d, r, v)
    PROVE  /\ Safe => Safe'
           /\ \/ current_state' = current_state
              \/ current_state \in Reviewing /\ Safe'
<1>1. CASE \E r \in Calls, v \in Verdicts : Decide(d, r, v)
  <2>1. /\ current_state' = current_state /\ step[d] = "idle"
        /\ UNCHANGED step \/ step' = [step EXCEPT ![d] = "sync"]
    BY <1>1 DEF Decide, Decision, routes
  <2>2. \A e \in Deciders : step[e] \in {"conclude", "concluding"} => step'[e] = step[e]
    BY <2>1 DEF IInv, TypeOK
  <2> QED BY <2>1, <2>2 DEF Safe
<1>2. CASE Route(d) /\ current_state' # current_state
  <2>1. \/ /\ step[d] = "reviewing" /\ step' = [step EXCEPT ![d] = "conclude"]
           /\ current_state = "APPROVAL_PENDING" /\ current_state' = "IN_REVIEW"
        \/ current_state = "IN_REVIEW" /\ current_state' \in {"APPROVED", "REJECTED"}
    BY <1>2, RouteMoves
  <2>2. step' = [step EXCEPT ![d] = "conclude"] => step'[d] = "conclude"
    BY DEF IInv, TypeOK
  <2> QED BY <2>1, <2>2 DEF Safe, SettledStates, Reviewing
<1>3. CASE Route(d) /\ current_state' = current_state
  <2>1. ~ RouteFails(d)
    BY ExecutionServiceAssumption DEF RouteFails, IInv, TypeOK
  <2>2. PICK n : step' = [step EXCEPT ![d] = n]
    BY <1>3, <2>1
       DEF Route, RouteReviews, RouteRecordsReview, RouteConcludes, RouteRecordsVerdict,
           RouteCommits, RouteReads, RouteRecords, RouteGoesTo, RouteEnds
  <2>3. \A e \in Deciders : e # d => step'[e] = step[e]
    BY <2>2 DEF IInv, TypeOK
  <2>4. ASSUME current_state = "IN_REVIEW", step[d] \in {"conclude", "concluding"}
        PROVE  Safe'
    <3>1. verdict[d] \in {"APPROVED", "REJECTED"}
      BY <2>4 DEF IInv, Routed, Behind
    <3>2. CASE RouteConcludes(d)
      <4>1. <<current_state, verdict[d]>> \in VALID_TRANSITIONS
        BY <2>4, <3>1 DEF VALID_TRANSITIONS, ForwardTransitions
      <4>2. step' = [step EXCEPT ![d] = "concluding"]
        BY <3>2, <4>1 DEF RouteConcludes, RouteReads, RouteGoesTo
      <4>3. step'[d] = "concluding"
        BY <4>2 DEF IInv, TypeOK
      <4> QED BY <1>3, <2>4, <4>3 DEF Safe
    <3>3. CASE RouteRecordsVerdict(d)
      <4>1. current_state' = verdict[d]
        BY <3>3 DEF RouteRecordsVerdict, RouteRecords
      <4> QED BY <3>1, <4>1 DEF Safe, SettledStates
    <3> QED
      BY <1>3, <2>1, <2>4, <3>2, <3>3
         DEF Route, RouteReviews, RouteRecordsReview, RouteCommits
  <2> QED BY <1>3, <2>3, <2>4 DEF Safe
<1> QED BY <1>1, <1>2, <1>3

LEMMA DecideTidily ==
    ASSUME IInv, NEW d \in Deciders, lost' = lost, faults' = faults,
           Route(d) \/ \E r \in Calls, v \in Verdicts : Decide(d, r, v)
    PROVE  /\ UNCHANGED at
           /\ Safe => Safe'
           /\ \A w \in Workers : Tidily(w) => Tidily(w)'
<1>1. UNCHANGED <<mode, at, next>>
  BY RouteLeaves
<1>2. /\ Safe => Safe'
      /\ \/ current_state' = current_state
         \/ current_state \in Reviewing /\ Safe'
  BY SafeStays
<1>4. Escapable => Escapable'
  BY <1>2 DEF Escapable
<1>5. current_state = "IN_DEVELOPMENT" => current_state' = "IN_DEVELOPMENT"
  BY <1>2 DEF Reviewing
<1>6. \A m, a, n : Tidy(m, a, n) => Tidy(m, a, n)'
  BY <1>2, <1>4, <1>5 DEF Tidy
<1> QED BY <1>1, <1>2, <1>6 DEF Tidily, Busy, Tidy

LEMMA UndisturbedBefore == ASSUME IInv, [Next]_vars, Undisturbed' PROVE Undisturbed
<1>1. Quiet /\ faults \in Nat
  BY QuietBefore, ExecutionServiceAssumption DEF Undisturbed, IInv, TypeOK
<1>2. ASSUME NEW w \in Workers, Step(w) PROVE faults' \in {faults, faults + 1}
  BY <1>2
     DEF Step, Begin, Return, Vanish, Record, RecordRefused, Turn, ExecuteDirect, Develop,
         AgentFails, Store, Validate, Optimize, RequestApproval, LinkApproval, Gate,
         GateResumed, LoadLatest, Submit, SubmitFails, Await, Handle, HandleDirect, Fail,
         Crash, Fault, world, history
<1>3. ASSUME NEW d \in Deciders,
             Route(d) \/ \E r \in Calls, v \in Verdicts : Decide(d, r, v)
      PROVE  faults' \in {faults, faults + 1}
  BY <1>3
     DEF Decide, Decision, Route, RouteReviews, RouteRecordsReview, RouteConcludes,
         RouteRecordsVerdict, RouteCommits, RouteFails, RouteReads, RouteRecords, history
<1>4. Edit => faults' = faults
  BY DEF Edit
<1>5. ASSUME NEW t \in TaskState, TransitionByHand(t) PROVE faults' = faults
  BY <1>5 DEF TransitionByHand
<1>6. UNCHANGED vars => faults' = faults
  BY DEF vars, world, history
<1> QED BY <1>1, <1>2, <1>3, <1>4, <1>5, <1>6 DEF Next, Undisturbed

LEMMA InitSInv == Init => SInv
<1> SUFFICES ASSUME Init PROVE SInv
  OBVIOUS
<1>1. \A w \in Workers : ~ Busy(w)
  BY DEF Init, Busy
<1>2. current_state \in SettledStates
  BY DEF Init, SettledStates
<1> QED BY <1>1, <1>2 DEF SInv, Settled, Safe

LEMMA NextSInv == IInv /\ QInv /\ SInv /\ [Next]_vars => SInv'
<1> SUFFICES ASSUME IInv, QInv, SInv, [Next]_vars, Undisturbed'
             PROVE  (Settled /\ \A w \in Workers : Busy(w) => Tidily(w))'
  BY DEF SInv
<1>1. Undisturbed /\ Undisturbed' /\ Quiet /\ Quiet' /\ Alone
  BY UndisturbedBefore DEF Undisturbed, QInv
<1>2. Settled /\ \A w \in Workers : Busy(w) => Tidily(w)
  BY <1>1 DEF SInv
<1>3. ASSUME NEW w \in Workers, Step(w)
      PROVE  (Settled /\ \A v \in Workers : Busy(v) => Tidily(v))'
  <2>1. \A v \in Workers : Busy(v) => v = w
    BY <1>1, <1>3, OneStepsAlone
  <2>2. Tidily(w)
    <3>1. CASE Busy(w)
      BY <1>2, <3>1
    <3>2. CASE ~ Busy(w)
      <4>1. \A v \in Workers : ~ Busy(v)
        BY <2>1, <3>2
      <4> QED BY <1>2, <3>2, <4>1 DEF Settled, Tidily
    <3> QED BY <3>1, <3>2
  <2>3. Tidily(w)'
    BY <1>1, <1>3, <2>2, StepTidily
  <2>4. \A v \in Workers : v # w => ~ Busy(v)'
    BY <1>3, <2>1, MovesItself DEF Busy
  <2>5. Settled'
    BY <2>3 DEF Settled, Tidily
  <2> QED BY <2>3, <2>4, <2>5
<1>4. ASSUME NEW d \in Deciders,
             Route(d) \/ \E r \in Calls, v \in Verdicts : Decide(d, r, v)
      PROVE  (Settled /\ \A w \in Workers : Busy(w) => Tidily(w))'
  <2>1. lost' = lost /\ faults' = faults
    BY <1>1 DEF Undisturbed, Quiet
  <2> QED BY <1>2, <1>4, <2>1, DecideTidily DEF Settled, Busy
<1>5. ~ Edit /\ ~ \E t \in TaskState : TransitionByHand(t)
  <2>1. edits = 0 /\ manual = 0 /\ edits' = 0 /\ manual' = 0
    BY <1>1 DEF Quiet
  <2> QED BY <2>1 DEF Edit, TransitionByHand
<1>6. CASE UNCHANGED vars
  <2>1. UNCHANGED <<current_state, step, mode, at, next>>
    BY <1>6 DEF vars, world, database, outside, local
  <2> QED BY <1>2, <2>1 DEF Settled, Tidily, Tidy, Escapable, Safe, Busy
<1> QED BY <1>3, <1>4, <1>5, <1>6 DEF Next

\* With no mishap of any kind, a call never comes to a point from which it could only
\* leave the task stranded.
THEOREM Undisrupted == Spec => []SInv
<1> QED BY Inductive, StaysOnPath, InitSInv, NextSInv, PTL DEF Spec

\* A call of execute_task that is over has left the task finished, failed or waiting for
\* a human: its except clauses find a transition out of wherever it can end, and no route
\* of a decision is left half way.
THEOREM SettledAfterCalls == Spec => []SettledWhenIdle
<1>1. SInv => SettledWhenIdle
  BY DEF SInv, Settled, Safe, SettledWhenIdle, Resting
<1> QED BY <1>1, Undisrupted, PTL

-----------------------------------------------------------------------------
(***************************************************************************)
(* What a request is for.                                                  *)
(***************************************************************************)

\* A call that has not resumed the task holds no code but its own, and a call that is
\* not under way holds none: so nothing but its own call ever adds to what a request is
\* for, whatever else overlaps or interferes.
Own(w) ==
    /\ at[w] = "idle" => code[w].run = NoCall
    /\ mode[w] \in {"fresh", "direct", "direct_cleanup"} => code[w].run \in {NoCall, run[w]}

OInv == \A w \in Workers : Own(w)

LEMMA StepKeepsOwn ==
    ASSUME IInv, NEW w \in Workers, Own(w), Step(w)
    PROVE  Own(w)'
<1>1. mode[w] \in Modes /\ current_state \in TaskState /\ at[w] \in TaskState \cup {"idle"}
  BY DEF IInv, TypeOK, Modes
<1>2. CASE Begin(w)
  <2>1. /\ code'[w] = code[w] /\ at[w] = "idle"
        /\ at'[w] # "idle"
    BY <1>2 DEF Begin, Busy, IInv, TypeOK, Reviewing
  <2> QED BY <2>1 DEF Own
<1>3. CASE Return(w) \/ Crash(w)
  BY <1>3 DEF Return, Crash, Vanish, Own, IInv, TypeOK, NoCode
<1>4. CASE Record(w)
  <2>1. next[w] \in TaskState
    BY <1>4 DEF Record, VALID_TRANSITIONS, Cancellable, ForwardTransitions, TaskState
  <2>2. at'[w] = next[w] /\ UNCHANGED <<mode, run, code>>
    BY <1>4 DEF Record, IInv, TypeOK
  <2> QED BY <2>1, <2>2 DEF Own, TaskState
<1>5. CASE Develop(w) \/ Optimize(w)
  <2>1. /\ UNCHANGED <<at, run>> /\ at[w] # "idle"
        /\ code'[w].run \in {code[w].run, run[w]} /\ mode'[w] = mode[w]
    BY <1>5 DEF Develop, Optimize, Does, IInv, TypeOK
  <2> QED BY <2>1 DEF Own
<1>6. CASE LoadLatest(w)
  BY <1>6 DEF LoadLatest, Does, Own
<1>7. CASE ExecuteDirect(w) \/ Fail(w)
  <2>1. /\ UNCHANGED <<at, run, code>>
        /\ \/ mode'[w] = mode[w]
           \/ mode[w] \in {"direct", "direct_cleanup"}
           \/ mode[w] = "fresh"
    <3>1. CASE ExecuteDirect(w)
      <4>1. mode[w] = "fresh"
        BY <3>1, FreshWork DEF ExecuteDirect, Does, BeforeRequest
      <4> QED BY <3>1, <4>1 DEF ExecuteDirect
    <3>2. CASE Fail(w)
      BY <3>2 DEF Fail, IInv, TypeOK
    <3> QED BY <1>7, <3>1, <3>2
  <2> QED BY <2>1 DEF Own
<1>8. CASE Handle(w) \/ HandleDirect(w)
  <2>1. /\ at'[w] = current_state /\ UNCHANGED <<run, code>>
        /\ mode'[w] = "cleanup" \/ mode[w] = "direct"
    BY <1>8 DEF Handle, HandleDirect, IInv, TypeOK
  <2> QED BY <1>1, <2>1 DEF Own, TaskState
<1>9. CASE \/ RecordRefused(w) \/ AgentFails(w) \/ Store(w) \/ Validate(w)
           \/ RequestApproval(w) \/ LinkApproval(w) \/ Gate(w) \/ GateResumed(w)
           \/ Submit(w) \/ SubmitFails(w) \/ Await(w)
  <2>1. UNCHANGED <<mode, run, at, code>>
    BY <1>9
       DEF RecordRefused, AgentFails, Store, Validate, RequestApproval, LinkApproval, Gate,
           GateResumed, Submit, SubmitFails, Await, Turn
  <2> QED BY <2>1 DEF Own
<1> QED BY <1>2, <1>3, <1>4, <1>5, <1>6, <1>7, <1>8, <1>9 DEF Step

LEMMA OwnStaysWithOthers ==
    ASSUME IInv, NEW w \in Workers, Step(w), NEW v \in Workers, v # w, Own(v)
    PROVE  Own(v)'
<1>1. /\ UNCHANGED mode \/ \E m : mode' = [mode EXCEPT ![w] = m]
      /\ UNCHANGED run \/ \E r : run' = [run EXCEPT ![w] = r]
      /\ UNCHANGED code \/ \E c : code' = [code EXCEPT ![w] = c]
  BY DEF Step, Begin, Return, Vanish, Record, RecordRefused, Turn, ExecuteDirect, Develop,
         AgentFails, Store, Validate, Optimize, RequestApproval, LinkApproval, Gate,
         GateResumed, LoadLatest, Submit, SubmitFails, Await, Handle, HandleDirect, Fail,
         Crash
<1>2. mode'[v] = mode[v] /\ run'[v] = run[v] /\ code'[v] = code[v]
  BY <1>1 DEF IInv, TypeOK
<1> QED BY <1>2, MovesItself DEF Own

LEMMA InitOInv == Init => OInv
BY DEF Init, OInv, Own, NoCode

LEMMA NextOInv == IInv /\ OInv /\ [Next]_vars => OInv'
<1> SUFFICES ASSUME IInv, OInv, [Next]_vars PROVE OInv'
  OBVIOUS
<1>1. ASSUME NEW w \in Workers, Step(w) PROVE OInv'
  BY <1>1, StepKeepsOwn, OwnStaysWithOthers DEF OInv
<1>2. CASE ~ \E w \in Workers : Step(w)
  <2>1. UNCHANGED <<mode, run, at, code>>
    BY <1>2, RouteLeaves DEF Next, Edit, TransitionByHand, local, vars
  <2> QED BY <2>1 DEF OInv, Own
<1> QED BY <1>1, <1>2

\* A call has one last artifact.
LEMMA OneIsLast ==
    ASSUME artifacts \in Seq(Code), NEW r, NEW i \in DOMAIN artifacts,
           NEW k \in DOMAIN artifacts, LastOf(i, r), LastOf(k, r)
    PROVE  i = k
<1>1. DOMAIN artifacts = 1 .. Len(artifacts) /\ Len(artifacts) \in Nat
  OBVIOUS
<1> QED BY <1>1 DEF LastOf

LEMMA WantedIs ==
    ASSUME artifacts \in Seq(Code), NEW r \in Calls, NEW c, Newest(c, r),
           approval[r] # Absent
    PROVE  Wanted(r) = c
<1> DEFINE newest == {i \in DOMAIN artifacts : LastOf(i, r)}
           it == CHOOSE i \in newest : TRUE
<1>1. PICK k \in newest : artifacts[k] = c
  BY DEF Newest
<1>2. it \in newest /\ Wanted(r) = artifacts[it]
  BY <1>1 DEF Wanted
<1> HIDE DEF it
<1>3. it = k
  BY <1>1, <1>2, OneIsLast
<1> QED BY <1>1, <1>2, <1>3

LEMMA WantedIsCode ==
    ASSUME artifacts \in Seq(Code), NEW r \in Calls
    PROVE  Wanted(r) \in Code
<1> DEFINE newest == {i \in DOMAIN artifacts : LastOf(i, r)}
           it == CHOOSE i \in newest : TRUE
<1>1. NoCode \in Code
  BY DEF NoCode, Code
<1>2. newest # {} => it \in DOMAIN artifacts
  OBVIOUS
<1>3. Wanted(r) = IF approval[r] = Absent \/ newest = {} THEN NoCode ELSE artifacts[it]
  BY DEF Wanted
<1> HIDE DEF it, newest
<1> QED BY <1>1, <1>2, <1>3

\* What has been requested stays what it is when another call stores code, or a user does.
LEMMA WantedStays ==
    ASSUME artifacts \in Seq(Code), NEW c \in Code, artifacts' = Append(artifacts, c),
           NEW r \in Calls, r # c.run, UNCHANGED approval
    PROVE  Wanted(r)' = Wanted(r)
<1>1. /\ DOMAIN artifacts \subseteq DOMAIN artifacts'
      /\ \A i \in DOMAIN artifacts : artifacts'[i] = artifacts[i]
  OBVIOUS
<1> DEFINE newest == {i \in DOMAIN artifacts : LastOf(i, r)}
<1>2. /\ \A i \in DOMAIN artifacts : LastOf(i, r)' <=> LastOf(i, r)
      /\ \A i \in DOMAIN artifacts' : LastOf(i, r)' => i \in DOMAIN artifacts
  BY StaysLast
<1>3. newest' = newest
  BY <1>1, <1>2
<1> DEFINE it == CHOOSE i \in newest : TRUE
<1>4. it' = it
  BY <1>3
<1>5. newest # {} => it \in DOMAIN artifacts
  OBVIOUS
<1>6. /\ Wanted(r) = IF approval[r] = Absent \/ newest = {} THEN NoCode ELSE artifacts[it]
      /\ Wanted(r)' = IF approval'[r] = Absent \/ newest' = {} THEN NoCode
                       ELSE artifacts'[it']
  BY DEF Wanted
<1> HIDE DEF it, newest
<1> QED BY <1>1, <1>3, <1>4, <1>5, <1>6

-----------------------------------------------------------------------------
(***************************************************************************)
(* The requests, decisions and jobs are those of a DeploymentGate.         *)
(***************************************************************************)
LEMMA SameGate ==
    ASSUME UNCHANGED <<artifacts, approval, deployments, granted, sensitive, overlaps,
                       edits, manual, lost>>
    PROVE  UNCHANGED Contract!vars
BY DEF Contract!vars, Wanted, Newest, LastOf, Quiet

\* More code needs an approval, that of a call that has not requested one.
LEMMA DevelopIsUnseen ==
    ASSUME IInv, NEW w \in Workers, Develop(w)
    PROVE  UNCHANGED Contract!vars
<1>1. /\ sensitive' \in {sensitive, sensitive \cup {run[w]}}
      /\ UNCHANGED <<artifacts, approval, deployments, granted, overlaps, edits, manual,
                     lost>>
  BY DEF Develop, database, history
<1>2. approval[run[w]] = Absent
  BY FreshWork DEF Develop, Does, BeforeRequest
<1>3. {r \in sensitive : approval[r] # Absent}' = {r \in sensitive : approval[r] # Absent}
  BY <1>1, <1>2
<1> QED BY <1>1, <1>3 DEF Contract!vars, Wanted, Newest, LastOf, Quiet

\* Code is stored before it is requested, and under the number of the call.
LEMMA StoreIsUnseen ==
    ASSUME IInv, OInv, NEW w \in Workers, Store(w)
    PROVE  UNCHANGED Contract!vars
<1>1. /\ next[w] = "store" /\ artifacts' = Append(artifacts, code[w])
      /\ UNCHANGED <<approval, deployments, granted, sensitive, overlaps, edits, manual,
                     lost>>
  BY DEF Store, outside, history
<1>2. mode[w] = "fresh" /\ approval[run[w]] = Absent
  BY <1>1, FreshWork
<1>3. code[w].run \in {NoCall, run[w]} /\ NoCall \notin Calls
  BY <1>2 DEF OInv, Own, NoCall, Calls
<1>4. artifacts \in Seq(Code) /\ code[w] \in Code
  BY DEF IInv, TypeOK
<1>5. ASSUME NEW r \in Calls PROVE Wanted(r)' = Wanted(r)
  <2>1. CASE r = code[w].run
    BY <1>1, <1>2, <1>3, <2>1 DEF Wanted
  <2>2. CASE r # code[w].run
    BY <1>1, <1>4, <2>2, WantedStays
  <2> QED BY <2>1, <2>2
<1> QED BY <1>1, <1>5 DEF Contract!vars, Quiet

LEMMA RequestApprovalRequests ==
    ASSUME IInv, NEW w \in Workers, RequestApproval(w)
    PROVE  \E r \in Calls : Contract!Request(r)
<1>1. PICK q \in Calls : q = run[w] /\ approval[q] = Absent
  BY FreshWork DEF RequestApproval, Does
<1> DEFINE s == IF q \in sensitive THEN "PENDING" ELSE "APPROVED"
           c == Wanted(q)'
           W == [r \in Calls |-> Wanted(r)]
<1>2. /\ approval' = [approval EXCEPT ![q] = s] /\ s \in {"PENDING", "APPROVED"}
      /\ granted' = IF q \in sensitive THEN granted ELSE granted \cup {q}
      /\ UNCHANGED <<artifacts, deployments, sensitive, overlaps, edits, manual, lost>>
  BY <1>1 DEF RequestApproval, outside, history
<1>3. \A r \in Calls \ {q} : approval'[r] = approval[r]
  BY <1>2 DEF IInv, TypeOK
<1>4. \A r \in Calls : Wanted(r)' = IF r = q THEN c ELSE Wanted(r)
  <2>1. \A r \in Calls \ {q} : Wanted(r)' = Wanted(r)
    BY <1>2, <1>3 DEF Wanted, Newest, LastOf
  <2>2. Wanted(q)' = c
    OBVIOUS
  <2> HIDE DEF c
  <2> QED BY <2>1, <2>2
<1>5. c \in Code
  <2> DEFINE newest == {i \in DOMAIN artifacts : LastOf(i, q)}
             it == CHOOSE i \in newest : TRUE
  <2>1. artifacts \in Seq(Code) /\ NoCode \in Code
    BY DEF IInv, TypeOK, NoCode, Code
  <2>2. newest # {} => it \in DOMAIN artifacts
    OBVIOUS
  <2>3. newest' = newest
    BY <1>2 DEF LastOf
  <2>4. it' = it
    BY <2>3
  <2>5. c = IF approval'[q] = Absent \/ newest' = {} THEN NoCode ELSE artifacts'[it']
    BY DEF Wanted
  <2> HIDE DEF newest, it, c
  <2> QED BY <1>2, <2>1, <2>2, <2>3, <2>4, <2>5
<1> HIDE DEF c
<1>6. W' = [W EXCEPT ![q] = c]
  BY <1>1, <1>4
<1>7. Quiet' = Quiet
  BY <1>2 DEF Quiet
<1> DEFINE asks == {r \in sensitive : approval[r] # Absent}
<1>8. asks' = IF q \in sensitive THEN asks \cup {q} ELSE asks
  BY <1>1, <1>2, <1>3 DEF IInv, TypeOK, Absent
<1>9. \/ s = "PENDING" /\ asks' = asks \cup {q} /\ UNCHANGED granted
      \/ s = "APPROVED" /\ granted' = granted \cup {q} /\ UNCHANGED asks
  BY <1>2, <1>8
<1> HIDE DEF s, W, asks
<1>10. Contract!Request(q)
  BY <1>1, <1>2, <1>5, <1>6, <1>7, <1>9
     DEF Contract!Request, Contract!Absent, Absent, W, asks
<1> QED BY <1>10

LEMMA SubmitSubmits ==
    ASSUME IInv, QInv, NEW w \in Workers, Submit(w)
    PROVE  link[w] \in Calls /\ Contract!Submit(link[w])
<1> DEFINE W == [r \in Calls |-> Wanted(r)]
<1>1. /\ at[w] = "DEPLOYING" /\ next[w] = "work"
      /\ deployments' = Append(deployments, [code |-> code[w], approval |-> link[w]])
      /\ UNCHANGED <<artifacts, approval, granted, sensitive, overlaps, edits, manual,
                     lost>>
  BY DEF Submit, Does, database, history
<1>2. link[w] \in Calls /\ link[w] \in granted /\ approval[link[w]] # Absent
  BY <1>1, GrantedWork DEF IInv, TypeOK, Granted, Numbered
<1>3. code[w] \in Code /\ artifacts \in Seq(Code)
  BY DEF IInv, TypeOK
<1>4. ASSUME Quiet
      PROVE  /\ \A i \in DOMAIN deployments : deployments[i].approval # link[w]
             /\ code[w] = W[link[w]]
  <2>1. Holds(link[w], code[w]) /\ Unused(link[w])
    BY <1>4, SubmitsWhatItHolds DEF QInv
  <2>2. Newest(code[w], link[w])
    BY <1>3, <2>1, LastIsNewest
  <2>3. Wanted(link[w]) = code[w]
    BY <1>2, <1>3, <2>2, WantedIs
  <2>4. \A i \in DOMAIN deployments : deployments[i].approval # link[w]
    BY <2>1 DEF Unused, ToSet
  <2>5. W[link[w]] = Wanted(link[w])
    BY <1>2
  <2> QED BY <2>3, <2>4, <2>5
<1>5. UNCHANGED <<W, Quiet>>
  BY <1>1 DEF Wanted, Newest, LastOf, Quiet
<1> HIDE DEF W
<1>6. code[w] \in IF Quiet THEN {W[link[w]]} ELSE Code
  BY <1>3, <1>4
<1> QED BY <1>1, <1>2, <1>4, <1>5, <1>6 DEF Contract!Submit, W

\* A row that is written anew stands for what a human was asked.
LEMMA RowIsDecided ==
    ASSUME NEW r \in Calls, NEW v \in Verdicts, r \in sensitive, approval[r] # Absent,
           approval' = [approval EXCEPT ![r] = v],
           granted' = IF v = "APPROVED" THEN granted \cup {r} ELSE granted,
           UNCHANGED <<artifacts, deployments, sensitive, overlaps, edits, manual, lost>>
    PROVE  Contract!Decide(r, v)
<1> DEFINE W == [q \in Calls |-> Wanted(q)]
           asks == {q \in sensitive : approval[q] # Absent}
<1>1. v # Absent
  BY DEF Verdicts, Absent
<1>2. \A q : approval[q] = Absent <=> approval'[q] = Absent
  BY <1>1
<1>3. UNCHANGED <<W, Quiet>>
  BY <1>2 DEF Wanted, Newest, LastOf, Quiet
<1>4. asks' = asks /\ r \in asks
  BY <1>2
<1> HIDE DEF W, asks
<1> QED BY <1>3, <1>4 DEF Contract!Decide, W, asks

\* A decision is one of the gate's, and so is the route's own update of the row.
LEMMA DecideDecides ==
    ASSUME IInv, NEW d \in Deciders,
           RouteCommits(d) \/ \E r \in Calls, v \in Verdicts : Decide(d, r, v)
    PROVE  \E r \in Calls, v \in Verdicts : Contract!Decide(r, v)
<1>1. CASE \E r \in Calls, v \in Verdicts : Decide(d, r, v)
  <2>1. PICK r \in Calls, v \in Verdicts : Decide(d, r, v)
    BY <1>1
  <2>2. /\ r \in sensitive /\ approval[r] # Absent
        /\ approval' = [approval EXCEPT ![r] = v]
        /\ granted' = IF v = "APPROVED" THEN granted \cup {r} ELSE granted
        /\ UNCHANGED <<artifacts, deployments, sensitive, overlaps, edits, manual, lost>>
    BY <2>1 DEF Decide, Decision
  <2> QED BY <2>2, RowIsDecided
<1>2. CASE RouteCommits(d)
  <2>1. /\ step[d] = "commit"
        /\ approval' = [approval EXCEPT ![request[d]] = verdict[d]]
        /\ UNCHANGED <<artifacts, deployments, sensitive, granted, overlaps, edits, manual,
                       lost>>
    BY <1>2 DEF RouteCommits, history
  <2>2. PICK r \in Calls, v \in {"APPROVED", "REJECTED"} :
           r = request[d] /\ v = verdict[d] /\ Behind(r, v)
    BY <2>1 DEF IInv, Routed, Behind
  <2>3. /\ v \in Verdicts /\ r \in sensitive /\ approval[r] # Absent
        /\ approval' = [approval EXCEPT ![r] = v]
        /\ granted' = IF v = "APPROVED" THEN granted \cup {r} ELSE granted
    BY <2>1, <2>2 DEF Behind, Verdicts
  <2> QED BY <2>1, <2>3, RowIsDecided
<1> QED BY <1>1, <1>2

\* Until then a route changes nothing of the gate, but that it may write over a state.
LEMMA RouteIsUnseen ==
    ASSUME IInv, NEW d \in Deciders, Route(d), ~ RouteCommits(d)
    PROVE  Contract!Disturb \/ UNCHANGED Contract!vars
<1>1. /\ UNCHANGED <<artifacts, approval, granted, sensitive, deployments, overlaps, edits,
                     manual>>
      /\ lost' \in {lost, lost + 1}
  BY DEF Route, RouteReviews, RouteRecordsReview, RouteConcludes, RouteRecordsVerdict,
         RouteFails, RouteReads, RouteRecords, database, history
<1> DEFINE W == [q \in Calls |-> Wanted(q)]
           asks == {q \in sensitive : approval[q] # Absent}
<1>2. UNCHANGED <<W, asks>>
  BY <1>1 DEF Wanted, Newest, LastOf
<1>3. Quiet' = FALSE \/ Quiet' = Quiet
  BY <1>1, ExecutionServiceAssumption DEF Quiet, IInv, TypeOK
<1> HIDE DEF W, asks
<1> QED BY <1>1, <1>2, <1>3 DEF Contract!Disturb, Contract!vars, W, asks

\* An edit changes no code that was requested, and a call that begins changes nothing of
\* the gate but that it may be one too many.
LEMMA DisturbancesDisturb ==
    ASSUME IInv, \/ Edit
                 \/ \E t \in TaskState : TransitionByHand(t)
                 \/ \E w \in Workers : Begin(w)
    PROVE  Contract!Disturb \/ UNCHANGED Contract!vars
<1> DEFINE W == [q \in Calls |-> Wanted(q)]
<1>1. UNCHANGED <<approval, deployments, granted, sensitive>>
  BY DEF Edit, TransitionByHand, Begin, outside, database
<1>2. W' = W
  <2>1. CASE Edit
    <3>1. EditedCode \in Code /\ EditedCode.run = NoCall /\ NoCall \notin Calls
      BY DEF EditedCode, Code, NoCall, Calls
    <3>2. artifacts \in Seq(Code) /\ artifacts' = Append(artifacts, EditedCode)
      BY <2>1 DEF Edit, IInv, TypeOK
    <3> QED BY <1>1, <3>1, <3>2, WantedStays
  <2>2. CASE ~ Edit
    <3>1. UNCHANGED artifacts
      BY <2>2 DEF TransitionByHand, Begin, database
    <3> QED BY <1>1, <3>1 DEF Wanted, Newest, LastOf
  <2> QED BY <2>1, <2>2
<1>3. Quiet' = FALSE \/ Quiet' = Quiet
  <2>1. \/ edits' = edits + 1 \/ manual' = manual + 1
        \/ overlaps' = overlaps + 1 \/ UNCHANGED <<overlaps, edits, manual, lost>>
    BY DEF Edit, TransitionByHand, Begin
  <2>2. {overlaps, edits, manual, lost} \subseteq Nat
    BY ExecutionServiceAssumption DEF IInv, TypeOK
  <2> QED BY <2>1, <2>2 DEF Quiet
<1> HIDE DEF W
<1> QED BY <1>1, <1>2, <1>3 DEF Contract!Disturb, Contract!vars, W

\* The detailed service implements the abstract one: for any number of calls that overlap,
\* fail and die, and of users who decide, overturn each other, edit and move the task by
\* hand, a job runs under a request that had been granted, only what a human was asked is
\* decided, and, until something interferes, it is the requested code that runs, once.
THEOREM ImplementsTheGate == Spec => ImplementsGate
<1>1. Init => Contract!Init
  <2> SUFFICES ASSUME Init PROVE Contract!Init
    OBVIOUS
  <2>1. \A r \in Calls : Wanted(r) \in Code
    <3>1. artifacts \in Seq(Code)
      BY DEF Init
    <3> QED BY <3>1, WantedIsCode
  <2> QED BY <2>1 DEF Init, Contract!Init, Contract!Absent, Absent, Quiet
<1>2. IInv /\ OInv /\ QInv /\ [Next]_vars => [Contract!Next]_(Contract!vars)
  <2> SUFFICES ASSUME IInv, OInv, QInv, [Next]_vars
               PROVE  Contract!Next \/ UNCHANGED Contract!vars
    OBVIOUS
  <2>1. ASSUME NEW w \in Workers, RequestApproval(w) PROVE Contract!Next
    BY <2>1, RequestApprovalRequests DEF Contract!Next
  <2>2. ASSUME NEW w \in Workers, Submit(w) PROVE Contract!Next
    BY <2>2, SubmitSubmits DEF Contract!Next
  <2>3. ASSUME NEW d \in Deciders,
               RouteCommits(d) \/ \E r \in Calls, v \in Verdicts : Decide(d, r, v)
        PROVE  Contract!Next
    <3>1. \E r \in Calls, v \in Contract!Decisions : Contract!Decide(r, v)
      BY <2>3, DecideDecides DEF Contract!Decisions, Verdicts
    <3> QED BY <3>1 DEF Contract!Next
  <2>7. ASSUME NEW d \in Deciders, Route(d), ~ RouteCommits(d)
        PROVE  Contract!Next \/ UNCHANGED Contract!vars
    BY <2>7, RouteIsUnseen DEF Contract!Next
  <2>4. CASE \/ Edit
             \/ \E t \in TaskState : TransitionByHand(t)
             \/ \E w \in Workers : Begin(w)
    BY <2>4, DisturbancesDisturb DEF Contract!Next
  <2>5. ASSUME NEW w \in Workers, Step(w), ~ RequestApproval(w), ~ Submit(w), ~ Begin(w)
        PROVE  UNCHANGED Contract!vars
    <3>1. CASE Store(w)
      BY <3>1, StoreIsUnseen
    <3>3. CASE Develop(w)
      BY <3>3, DevelopIsUnseen
    <3>2. CASE ~ Store(w) /\ ~ Develop(w)
      <4>1. UNCHANGED <<artifacts, approval, deployments, granted, sensitive, overlaps,
                        edits, manual, lost>>
        BY <2>5, <3>2
           DEF Step, Return, Record, RecordRefused, Turn, ExecuteDirect, Develop,
               AgentFails, Validate, Optimize, LinkApproval, Gate, GateResumed, LoadLatest,
               SubmitFails, Await, Handle, HandleDirect, Fail, Crash, Fault, world,
               database, outside, history
      <4> QED BY <4>1, SameGate
    <3> QED BY <3>1, <3>2, <3>3
  <2>6. CASE UNCHANGED vars
    <3>1. UNCHANGED <<artifacts, approval, deployments, granted, sensitive, overlaps, edits,
                      manual, lost>>
      BY <2>6 DEF vars, world, database, outside, history
    <3> QED BY <3>1, SameGate
  <2> QED BY <2>1, <2>2, <2>3, <2>4, <2>5, <2>6, <2>7 DEF Next
<1>3. Spec => []OInv
  BY Inductive, InitOInv, NextOInv, PTL DEF Spec
<1> QED
  BY <1>1, <1>2, <1>3, Inductive, StaysOnPath, PTL DEF Spec, ImplementsGate, Contract!Spec
=============================================================================
