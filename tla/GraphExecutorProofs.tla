------------------------- MODULE GraphExecutorProofs -------------------------
(***************************************************************************)
(* What the safety pipeline and the policy promise for every piece of      *)
(* code: no finding is outvoted, and no further finding makes a code       *)
(* safer.  What a run of the graph executor may execute, for any number of *)
(* runs and of other callers of the clients, and for every code an agent   *)
(* may write; and that what they are all told of their jobs is true, and   *)
(* when a job can run the code of another.                                 *)
(***************************************************************************)
EXTENDS GraphExecutor, FiniteSetTheorems, TLAPS

-----------------------------------------------------------------------------
(***************************************************************************)
(* The platform clients.  What a client has once reported of a job, or is  *)
(* in the middle of reporting, stays true of it, because a job that is     *)
(* over stays as it is.  And whose code a notebook holds, as far as its    *)
(* submissions can know.                                                   *)
(***************************************************************************)

Job ==
    [api : {"none", "statement", "command", "notebook", "mock"},
     state : JobStates, code : Calls \cup {Nobody}]

Local ==
    [pc : Submitting \cup {"idle", "ended", "no id", "holding", "stray",
                           "reading", "polling"},
     platform : Platforms \cup {"none"}, name : Names \cup {Nobody},
     shared : BOOLEAN, unsettled : BOOLEAN,
     way : {"statement", "command", "notebook", "mock", "raises", "none"},
     seen : JobStatus \cup {"none"}, swallowed : BOOLEAN, polls : Nat]

Item == [exists : BOOLEAN, code : Calls \cup {Nobody}, pending : SUBSET Calls]

\* A call in one of these has not asked anything yet, or never will.
Unasked == Submitting \cup {"idle", "ended", "no id"}
OnNotebook == {"create", "find", "update", "run"}

\* A status that is true of job y; lenient when a FAILED may be a failed request.
Shows(status, y, lenient) ==
    /\ status = "SUCCESS" => y.state \in Succeeded
    /\ status = "CANCELLED" => y.state = "CANCELLED"
    /\ status = "FAILED" => y.state = "FAILED" \/ lenient

\* The locals x of a call fit its job y: what it has read of an output is true.
LocalsFit(x, y) ==
    /\ x.pc \in OnNotebook => x.name \in Names
    /\ x.pc = "reading" =>
          /\ x.platform = "databricks"
          /\ x.way \in {"statement", "command"}
          /\ x.way = "command" => y.api = "command"
          /\ Shows(x.seen, y, x.way = "command" /\ x.swallowed)

\* What was told of job y is true of it.
ToldFits(t, x, y) ==
    /\ x.pc \in Unasked => t = {}
    /\ \A s \in t : Shows(s, y, y.api = "command")

JInv ==
    /\ job \in [Calls -> Job]
    /\ call \in [Calls -> Local]
    /\ told \in [Calls -> SUBSET Final]
    /\ notebook \in [Names -> Item]
    /\ \A c \in Calls :
          LocalsFit(call[c], job[c]) /\ ToldFits(told[c], call[c], job[c])

\* What AnswersAreTrue says of one answer.
IsTrue(a, x, y) ==
    /\ Shows(a.status, y, a.swallowed)
    /\ a.output /\ x.platform = "databricks" =>
           y.state \in IF y.api = "command" THEN Over ELSE Succeeded
    /\ a.error /\ a.status = "SUCCESS" => y.state = "RAISED"

ReplyTrue == reply # Nothing => IsTrue(reply, call[reply.to], job[reply.to])

IdleStays == \A d \in Calls : call[d].pc = "idle" => call'[d].pc = "idle"

\* A job goes from y to z: once it is over it stays as it ended.
Goes(y, z) ==
    /\ z.api = y.api
    /\ y.state \in Succeeded => z.state \in Succeeded
    /\ y.state \in {"FAILED", "CANCELLED"} => z.state = y.state
-----------------------------------------------------------------------------
(************************* What steps have in common ***********************)

LEMMA ShowsStays ==
    ASSUME NEW s, NEW y, NEW z, NEW lenient \in BOOLEAN, Goes(y, z),
           Shows(s, y, lenient)
    PROVE  Shows(s, z, lenient)
BY DEF Goes, Shows

\* A step of one call that says nothing.
LEMMA SilentStep ==
    ASSUME JInv, NEW c \in Calls, NEW x \in Local, NEW y \in Job,
           call' = [call EXCEPT ![c] = x], job' = [job EXCEPT ![c] = y],
           notebook' \in [Names -> Item], Silently,
           LocalsFit(x, y), ToldFits(told[c], x, y)
    PROVE  JInv' /\ ReplyTrue'
<1>1. JInv'
  BY DEF JInv, Silently
<1>2. ReplyTrue'
  BY DEF ReplyTrue, Silently
<1> QED BY <1>1, <1>2

\* A step of one call that answers.  A FAILED that is none comes of commands.
LEMMA AnsweringStep ==
    ASSUME JInv, NEW c \in Calls, NEW x \in Local, NEW y \in Job, NEW a,
           call' = [call EXCEPT ![c] = x], job' = [job EXCEPT ![c] = y],
           UNCHANGED notebook, Replies(c, a), a.to = c, Goes(job[c], y),
           LocalsFit(x, y), x.pc \notin Unasked,
           IsTrue(a, x, y), a.swallowed \in BOOLEAN,
           a.swallowed => y.api = "command"
    PROVE  JInv' /\ ReplyTrue'
<1> DEFINE t == told[c] \cup ({a.status} \cap Final)
<1>1. told' = [told EXCEPT ![c] = t]
  BY DEF Replies
<1>2. t \in SUBSET Final
  BY DEF JInv
<1>3. Shows(a.status, y, y.api = "command")
  BY DEF IsTrue, Shows
<1>4. \A s \in told[c] : Shows(s, y, y.api = "command")
  <2> SUFFICES ASSUME NEW s \in told[c] PROVE Shows(s, y, y.api = "command")
    OBVIOUS
  <2>1. Shows(s, job[c], job[c].api = "command") /\ y.api = job[c].api
    BY DEF JInv, ToldFits, Goes
  <2> QED BY <2>1, ShowsStays
<1>5. ToldFits(t, x, y)
  BY <1>3, <1>4 DEF ToldFits
<1>6. JInv'
  <2> HIDE DEF t
  <2> QED BY <1>1, <1>2, <1>5 DEF JInv
<1>7. ReplyTrue'
  <2>1. reply' = a /\ job'[c] = y /\ call'[c] = x
    BY DEF Replies, JInv
  <2> QED BY <2>1 DEF ReplyTrue
<1> QED BY <1>6, <1>7

\* To change nothing of a call or of a job is to change it to what it is.
LEMMA SameCall ==
    ASSUME JInv, NEW c \in Calls
    PROVE  /\ call[c] \in Local /\ job[c] \in Job
           /\ call = [call EXCEPT ![c] = call[c]]
           /\ job = [job EXCEPT ![c] = job[c]]
           /\ Goes(job[c], job[c])
BY DEF JInv, Goes

LEMMA StatusIsTrue ==
    ASSUME NEW y \in Job
    PROVE  StatusOf(y.state) \in JobStatus /\ Shows(StatusOf(y.state), y, FALSE)
BY DEF Job, JobStates, Over, Succeeded, StatusOf, JobStatus, Shows
-----------------------------------------------------------------------------
(***************************** Submissions *********************************)

\* Nothing was told of a job before its submission is over.
LEMMA SubmissionStep ==
    ASSUME JInv, NEW c \in Calls, NEW x \in Local, NEW y \in Job,
           call[c].pc \in Unasked, x.pc # "reading",
           x.pc \in OnNotebook => x.name \in Names,
           call' = [call EXCEPT ![c] = x], job' = [job EXCEPT ![c] = y],
           notebook' \in [Names -> Item], Silently
    PROVE  JInv' /\ ReplyTrue'
<1>1. told[c] = {}
  BY DEF JInv, ToldFits
<1>2. LocalsFit(x, y) /\ ToldFits(told[c], x, y)
  BY <1>1 DEF LocalsFit, ToldFits
<1> QED BY <1>2, SilentStep

\* A submission that goes on from one request to the next.
LEMMA SubmissionMoves ==
    ASSUME JInv, NEW c \in Calls, NEW y \in Job, call[c].pc \in Submitting,
           NEW pc \in Submitting \cup {"no id", "holding"},
           call[c].pc \in OnNotebook \/ pc \notin OnNotebook,
           Moves(c, pc), job' = [job EXCEPT ![c] = y],
           notebook' \in [Names -> Item], Silently
    PROVE  JInv' /\ ReplyTrue' /\ IdleStays
<1> DEFINE x == [call[c] EXCEPT !.pc = pc]
<1>1. call' = [call EXCEPT ![c] = x]
  BY DEF Moves, JInv
<1>2. call[c] \in Local
  BY SameCall
<1>3. x \in Local /\ x.pc = pc /\ x.name = call[c].name
  BY <1>2 DEF Local
<1>4. x.pc \in OnNotebook => x.name \in Names
  BY <1>3 DEF JInv, LocalsFit
<1>5. x.pc # "reading" /\ call[c].pc \in Unasked
  BY <1>3 DEF Submitting, Unasked
<1>6. JInv' /\ ReplyTrue'
  <2> HIDE DEF x
  <2> QED BY <1>1, <1>3, <1>4, <1>5, SubmissionStep
<1>7. IdleStays
  BY <1>1 DEF IdleStays, JInv, Submitting
<1> QED BY <1>6, <1>7

LEMMA RouteCases ==
    ASSUME NEW platform \in Platforms, NEW language, NEW env \in BOOLEAN
    PROVE  /\ Route(platform, language, env) \in
                  {"ended", "create", "holding", "statement", "context"}
           /\ Route(platform, language, env) = "create" => platform = "fabric"
BY DEF Route, Platforms

\* To be found sharing a notebook changes nothing else of a call.
LEMMA SharedStays ==
    ASSUME NEW x \in Local, NEW z, z = [x EXCEPT !.shared = TRUE]
    PROVE  /\ z \in Local
           /\ z.pc = x.pc /\ z.name = x.name /\ z.platform = x.platform
           /\ z.way = x.way /\ z.seen = x.seen /\ z.swallowed = x.swallowed
BY DEF Local

\* Submissions begin only for calls that have done nothing yet.
LEMMA SubmitTrue ==
    ASSUME JInv, NEW c \in Calls, NEW platform \in Platforms, NEW language,
           NEW name \in Names \cup {Nobody}, NEW env \in BOOLEAN,
           platform = "fabric" => name \in Names,
           call[c].pc = "idle", Submit(c, platform, language, name, env)
    PROVE  /\ JInv' /\ ReplyTrue'
           /\ \A d \in Calls \ {c} : call[d].pc = "idle" => call'[d].pc = "idle"
<1> DEFINE pc == Route(platform, language, env)
           rivals == IF pc = "create" THEN Rivals(c, name) ELSE {}
           mine == [Idle EXCEPT !.pc = pc, !.platform = platform,
                                !.name = IF pc = "create" THEN name ELSE Nobody]
<1>1. pc \in {"ended", "create", "holding", "statement", "context"}
      /\ (pc = "create" => name \in Names)
  BY RouteCases
<1>2. call' = [d \in Calls |->
          IF d = c THEN [mine EXCEPT !.shared = rivals # {}]
          ELSE IF d \in rivals THEN [call[d] EXCEPT !.shared = TRUE]
          ELSE call[d]]
  BY DEF Submit
<1>3. job' \in {job, [job EXCEPT ![c] = [api |-> "statement", state |-> "QUEUED", code |-> c]],
                [job EXCEPT ![c] = [api |-> "mock", state |-> "QUEUED", code |-> c]]}
      /\ Silently /\ UNCHANGED notebook
  BY DEF Submit, Starts
<1> HIDE DEF pc, rivals
<1>4. /\ [mine EXCEPT !.shared = rivals # {}] \in Local
      /\ [mine EXCEPT !.shared = rivals # {}].pc = pc
      /\ [mine EXCEPT !.shared = rivals # {}].name =
             IF pc = "create" THEN name ELSE Nobody
  BY <1>1 DEF Local, Idle, Submitting, Platforms
<1>5. \A d \in Calls : [call[d] EXCEPT !.shared = TRUE] \in Local
  BY SharedStays DEF JInv
<1>6. call' \in [Calls -> Local]
  <2> HIDE DEF mine
  <2> QED BY <1>2, <1>4, <1>5 DEF JInv
<1>7. job' \in [Calls -> Job] /\ (\A d \in Calls \ {c} : job'[d] = job[d])
  BY <1>3 DEF JInv, Job, JobStates
<1>8. told[c] = {} /\ told' = told /\ reply' = Nothing /\ notebook' = notebook
  BY <1>3 DEF JInv, ToldFits, Unasked, Silently
<1>9. LocalsFit(call'[c], job'[c]) /\ ToldFits(told'[c], call'[c], job'[c])
  <2> HIDE DEF mine
  <2>1. /\ call'[c].pc = pc
        /\ call'[c].name = IF pc = "create" THEN name ELSE Nobody
    BY <1>2, <1>4
  <2> QED BY <2>1, <1>1, <1>8 DEF LocalsFit, ToldFits, OnNotebook
<1>10. ASSUME NEW d \in Calls \ {c}
       PROVE  /\ LocalsFit(call'[d], job'[d]) /\ ToldFits(told'[d], call'[d], job'[d])
              /\ call[d].pc = "idle" => call'[d].pc = "idle"
  <2>1. /\ call'[d].pc = call[d].pc /\ call'[d].name = call[d].name
        /\ call'[d].platform = call[d].platform /\ call'[d].way = call[d].way
        /\ call'[d].seen = call[d].seen /\ call'[d].swallowed = call[d].swallowed
    <3>1. call[d] \in Local
      BY SameCall
    <3>2. CASE d \in rivals
      <4>1. call'[d] = [call[d] EXCEPT !.shared = TRUE]
        BY <1>2, <3>2
      <4> QED BY <3>1, <4>1, SharedStays
    <3>3. CASE d \notin rivals
      BY <1>2, <3>3
    <3> QED BY <3>2, <3>3
  <2>2. LocalsFit(call[d], job[d]) /\ ToldFits(told[d], call[d], job[d])
    BY DEF JInv
  <2> QED BY <2>1, <2>2, <1>7, <1>8 DEF LocalsFit, ToldFits
<1>11. JInv'
  BY <1>6, <1>7, <1>8, <1>9, <1>10 DEF JInv
<1> QED BY <1>8, <1>10, <1>11 DEF ReplyTrue

LEMMA BeginTrue ==
    ASSUME JInv, NEW c \in Calls, Begin(c)
    PROVE  /\ JInv' /\ ReplyTrue'
           /\ \A d \in Calls \ {c} : call[d].pc = "idle" => call'[d].pc = "idle"
<1>1. PICK p \in Platforms, l \in Languages, env \in BOOLEAN :
          IF p = "fabric"
          THEN \E n \in Names : Submit(c, p, l, n, env)
          ELSE Submit(c, p, l, Nobody, env)
  BY DEF Begin
<1>2. call[c].pc = "idle"
  BY DEF Begin
<1>3. CASE p = "fabric"
  BY <1>1, <1>2, <1>3, SubmitTrue
<1>4. CASE p # "fabric"
  BY <1>1, <1>2, <1>4, SubmitTrue
<1> QED BY <1>3, <1>4

LEMMA StatementReturnsTrue ==
    ASSUME JInv, NEW c \in Calls, StatementReturns(c)
    PROVE  JInv' /\ ReplyTrue' /\ IdleStays
<1>1. PICK y \in Job : job' = [job EXCEPT ![c] = y]
  <2>1. CASE job[c].state \in Over
    BY <2>1, SameCall DEF StatementReturns
  <2>2. CASE job[c].state \notin Over
    <3> DEFINE y == [job[c] EXCEPT !.state = "CANCELLED"]
    <3>1. y \in Job
      BY SameCall DEF Job, JobStates, Over
    <3>2. job' = [job EXCEPT ![c] = y]
      BY <2>2 DEF StatementReturns, JInv
    <3> QED BY <3>1, <3>2
  <2> QED BY <2>1, <2>2
<1>2. /\ call[c].pc \in Submitting /\ Moves(c, "holding") /\ Silently
      /\ "holding" \notin OnNotebook /\ notebook' \in [Names -> Item]
  BY DEF StatementReturns, Submitting, OnNotebook, JInv
<1> QED BY <1>1, <1>2, SubmissionMoves

LEMMA CreateContextTrue ==
    ASSUME JInv, NEW c \in Calls, CreateContext(c)
    PROVE  JInv' /\ ReplyTrue' /\ IdleStays
<1>1. call[c].pc \in Unasked /\ call[c].pc # "reading" /\ Silently
      /\ notebook' \in [Names -> Item]
  BY DEF CreateContext, Unasked, Submitting, JInv
<1>2. /\ call' = [call EXCEPT ![c] = call[c]] /\ job' = [job EXCEPT ![c] = job[c]]
      /\ call[c] \in Local /\ job[c] \in Job
  BY SameCall DEF CreateContext
<1>3. call[c].pc \in OnNotebook => call[c].name \in Names
  BY DEF JInv, LocalsFit
<1>4. IdleStays
  BY DEF CreateContext, IdleStays
<1> QED BY <1>1, <1>2, <1>3, <1>4, SubmissionStep

LEMMA ExecuteCommandTrue ==
    ASSUME JInv, NEW c \in Calls, ExecuteCommand(c)
    PROVE  JInv' /\ ReplyTrue' /\ IdleStays
<1> DEFINE y == [api |-> "command", state |-> "QUEUED", code |-> c]
<1>1. y \in Job
  BY DEF Job, JobStates
<1>2. job' = [job EXCEPT ![c] = y]
  BY DEF ExecuteCommand, Starts
<1>3. /\ call[c].pc \in Submitting /\ Moves(c, "holding") /\ Silently
      /\ "holding" \notin OnNotebook /\ notebook' \in [Names -> Item]
  BY DEF ExecuteCommand, Submitting, OnNotebook, JInv
<1> HIDE DEF y
<1> QED BY <1>1, <1>2, <1>3, SubmissionMoves

LEMMA CreateNotebookTrue ==
    ASSUME JInv, NEW c \in Calls, CreateNotebook(c)
    PROVE  JInv' /\ ReplyTrue' /\ IdleStays
<1>1. call[c].pc \in Submitting /\ call[c].pc \in OnNotebook /\ Silently
      /\ job' = [job EXCEPT ![c] = job[c]] /\ job[c] \in Job
  BY SameCall DEF CreateNotebook, Submitting, OnNotebook
<1>2. PICK pc \in {"find", "update", "no id"} : Moves(c, pc)
  BY DEF CreateNotebook
<1>3. call[c].name \in Names
  BY <1>1 DEF JInv, LocalsFit
<1>4. notebook' \in [Names -> Item]
  <2> DEFINE i == [notebook[call[c].name] EXCEPT !.exists = TRUE]
  <2>1. i \in Item
    BY <1>3 DEF JInv, Item
  <2>2. notebook' = notebook \/ notebook' = [notebook EXCEPT ![call[c].name] = i]
    BY <1>3 DEF CreateNotebook, JInv
  <2> HIDE DEF i
  <2> QED BY <1>3, <2>1, <2>2 DEF JInv
<1>5. pc \in Submitting \cup {"no id", "holding"}
  BY DEF Submitting
<1> QED BY <1>1, <1>2, <1>4, <1>5, SubmissionMoves

LEMMA FindNotebookTrue ==
    ASSUME JInv, NEW c \in Calls, FindNotebook(c)
    PROVE  JInv' /\ ReplyTrue' /\ IdleStays
<1>1. /\ call[c].pc \in Submitting /\ call[c].pc \in OnNotebook /\ Silently
      /\ job' = [job EXCEPT ![c] = job[c]] /\ job[c] \in Job
      /\ notebook' \in [Names -> Item] /\ Moves(c, "update") /\ "update" \in Submitting
  BY SameCall DEF FindNotebook, Submitting, OnNotebook, JInv
<1> QED BY <1>1, SubmissionMoves

\* What an update leaves of the notebook, whether it is applied or accepted.
LEMMA UpdatedNotebooks ==
    ASSUME JInv, NEW c \in Calls, NEW n \in Names, NEW nb,
           \/ nb = [notebook EXCEPT ![n].code = c]
           \/ nb = [notebook EXCEPT ![n].pending = @ \cup {c}]
           \/ nb = [notebook EXCEPT ![n].exists = TRUE]
           \/ nb = notebook
    PROVE  nb \in [Names -> Item]
<1>1. notebook[n] \in Item
  BY DEF JInv
<1>2. /\ [notebook[n] EXCEPT !.code = c] \in Item
      /\ [notebook[n] EXCEPT !.pending = notebook[n].pending \cup {c}] \in Item
  BY <1>1 DEF Item
<1>3. [notebook[n] EXCEPT !.exists = TRUE] \in Item
  BY <1>1 DEF Item
<1>4. \E i \in Item : nb = [notebook EXCEPT ![n] = i]
  <2>1. notebook = [notebook EXCEPT ![n] = notebook[n]]
    BY DEF JInv
  <2> QED BY <1>1, <1>2, <1>3, <2>1
<1> QED BY <1>4 DEF JInv

LEMMA UpdateNotebookTrue ==
    ASSUME JInv, NEW c \in Calls, UpdateNotebook(c)
    PROVE  JInv' /\ ReplyTrue' /\ IdleStays
<1>1. /\ call[c].pc \in Unasked /\ call[c].pc # "idle" /\ call[c].name \in Names
      /\ job' = [job EXCEPT ![c] = job[c]] /\ job[c] \in Job /\ Silently
  BY SameCall DEF UpdateNotebook, Submitting, Unasked, OnNotebook, JInv, LocalsFit
<1>2. PICK accepted \in BOOLEAN :
          /\ notebook' =
                IF accepted
                THEN [notebook EXCEPT ![call[c].name].pending = @ \cup {c}]
                ELSE [notebook EXCEPT ![call[c].name].code = c]
          /\ call' = [call EXCEPT ![c].pc = "run",
                 ![c].unsettled = accepted \/ notebook[call[c].name].pending # {}]
  BY DEF UpdateNotebook
<1> DEFINE u == accepted \/ notebook[call[c].name].pending # {}
           x == [call[c] EXCEPT !.pc = "run", !.unsettled = u]
<1>3. call' = [call EXCEPT ![c] = x]
  BY <1>2 DEF JInv
<1>4. notebook' \in [Names -> Item]
  BY <1>1, <1>2, UpdatedNotebooks
<1>5. u \in BOOLEAN /\ call[c] \in Local
  BY SameCall
<1> HIDE DEF u
<1>6. x \in Local /\ x.pc = "run" /\ x.name = call[c].name
  BY <1>5 DEF Local, Submitting
<1> HIDE DEF x
<1>7. JInv' /\ ReplyTrue'
  BY <1>1, <1>3, <1>4, <1>6, SubmissionStep
<1>8. IdleStays
  BY <1>1, <1>3 DEF IdleStays, JInv
<1> QED BY <1>7, <1>8

LEMMA RunNotebookTrue ==
    ASSUME JInv, NEW c \in Calls, RunNotebook(c)
    PROVE  JInv' /\ ReplyTrue' /\ IdleStays
<1>1. /\ call[c].pc \in Unasked /\ call[c].pc # "idle" /\ call[c].name \in Names
      /\ Silently /\ notebook' \in [Names -> Item]
  BY DEF RunNotebook, Submitting, Unasked, OnNotebook, JInv, LocalsFit
<1> DEFINE y == [api |-> "notebook", state |-> "QUEUED",
                 code |-> notebook[call[c].name].code]
<1>2. y \in Job /\ job' = [job EXCEPT ![c] = y]
  <2>1. notebook[call[c].name].code \in Calls \cup {Nobody}
    BY <1>1 DEF JInv, Item
  <2> QED BY <2>1 DEF Job, JobStates, RunNotebook, Starts
<1>3. PICK pc \in {"holding", "stray"} :
          call' = [call EXCEPT ![c] = [Idle EXCEPT !.pc = pc, !.platform = "fabric"]]
  BY DEF RunNotebook
<1> DEFINE x == [Idle EXCEPT !.pc = pc, !.platform = "fabric"]
<1>4. x \in Local /\ x.pc = pc
  BY DEF Local, Idle, Platforms
<1> HIDE DEF x, y
<1>5. JInv' /\ ReplyTrue'
  BY <1>1, <1>2, <1>3, <1>4, SubmissionStep DEF x, OnNotebook
<1>6. IdleStays
  BY <1>1, <1>3 DEF IdleStays, JInv
<1> QED BY <1>5, <1>6

LEMMA SubmissionFailsTrue ==
    ASSUME JInv, NEW c \in Calls, SubmissionFails(c)
    PROVE  JInv' /\ ReplyTrue' /\ IdleStays
<1>1. /\ call[c].pc \in Unasked /\ call[c].pc # "idle" /\ Silently
      /\ call[c].pc \in OnNotebook => call[c].name \in Names
  BY DEF SubmissionFails, Submitting, Unasked, JInv, LocalsFit
<1>2. notebook' \in [Names -> Item]
  <2>1. CASE UNCHANGED notebook
    BY <2>1 DEF JInv
  <2>2. CASE call[c].pc = "create"
             /\ notebook' = [notebook EXCEPT ![call[c].name].exists = TRUE]
    BY <1>1, <2>2, UpdatedNotebooks DEF OnNotebook
  <2>3. CASE call[c].pc = "update"
             /\ \/ notebook' = [notebook EXCEPT ![call[c].name].code = c]
                \/ notebook' = [notebook EXCEPT ![call[c].name].pending = @ \cup {c}]
    BY <1>1, <2>3, UpdatedNotebooks DEF OnNotebook
  <2> QED BY <2>1, <2>2, <2>3 DEF SubmissionFails
<1>3. PICK y \in Job : job' = [job EXCEPT ![c] = y]
  <2>1. NoJob \in Job /\ [api |-> "command", state |-> "QUEUED", code |-> c] \in Job
    BY DEF NoJob, Job, JobStates
  <2>2. CASE UNCHANGED job
    BY <2>2, SameCall
  <2>3. CASE job' = [job EXCEPT ![c] = NoJob]
    BY <2>1, <2>3
  <2>4. CASE Starts(c, "command", c)
    BY <2>1, <2>4 DEF Starts
  <2>5. CASE call[c].pc = "run"
             /\ Starts(c, "notebook", notebook[call[c].name].code)
    <3>1. notebook[call[c].name].code \in Calls \cup {Nobody}
      BY <1>1, <2>5 DEF JInv, Item, OnNotebook
    <3>2. [api |-> "notebook", state |-> "QUEUED",
           code |-> notebook[call[c].name].code] \in Job
      BY <3>1 DEF Job, JobStates
    <3> QED BY <2>5, <3>2 DEF Starts
  <2> QED BY <2>2, <2>3, <2>4, <2>5 DEF SubmissionFails
<1> DEFINE x == [Idle EXCEPT !.pc = "ended"]
<1>4. x \in Local /\ x.pc = "ended" /\ call' = [call EXCEPT ![c] = x]
  BY DEF Local, Idle, SubmissionFails
<1> HIDE DEF x
<1>5. JInv' /\ ReplyTrue'
  BY <1>1, <1>2, <1>3, <1>4, SubmissionStep DEF OnNotebook
<1>6. IdleStays
  BY <1>1, <1>4 DEF IdleStays, JInv
<1> QED BY <1>5, <1>6
-----------------------------------------------------------------------------
(*************************** The platforms *********************************)

LEMMA JobProceedsTrue ==
    ASSUME JInv, NEW c \in Calls, JobProceeds(c)
    PROVE  JInv' /\ ReplyTrue' /\ IdleStays
<1>1. PICK s \in Follows(c) : job' = [job EXCEPT ![c].state = s]
  BY DEF JobProceeds
<1> DEFINE y == [job[c] EXCEPT !.state = s]
<1>2. job[c] \in Job
  BY SameCall
<1>3. s \in JobStates
  BY DEF Follows, JobStates, Over, Succeeded
<1>4. y \in Job /\ y.api = job[c].api /\ y.state = s
  BY <1>2, <1>3 DEF Job
<1>5. Goes(job[c], y)
  <2>1. job[c].state \in Succeeded => s \in Succeeded
    BY DEF Follows, Succeeded
  <2>2. job[c].state \notin {"FAILED", "CANCELLED"}
    BY DEF Follows
  <2> HIDE DEF y
  <2> QED BY <1>4, <2>1, <2>2 DEF Goes
<1>6. job' = [job EXCEPT ![c] = y]
  BY <1>1 DEF JInv
<1> HIDE DEF y
<1>7. LocalsFit(call[c], y)
  <2>1. LocalsFit(call[c], job[c]) /\ call[c].swallowed \in BOOLEAN
    BY SameCall DEF JInv, Local
  <2>2. y.api = job[c].api
    BY <1>4
  <2> QED BY <1>5, <2>1, <2>2, ShowsStays DEF LocalsFit
<1>8. ToldFits(told[c], call[c], y)
  <2>1. ToldFits(told[c], call[c], job[c]) /\ y.api = job[c].api
    BY <1>4 DEF JInv
  <2> QED BY <1>5, <2>1, ShowsStays DEF ToldFits
<1>9. /\ call[c] \in Local /\ call' = [call EXCEPT ![c] = call[c]]
      /\ notebook' \in [Names -> Item] /\ Silently /\ IdleStays
  BY SameCall DEF JobProceeds, JInv, IdleStays
<1> QED BY <1>4, <1>6, <1>7, <1>8, <1>9, SilentStep

LEMMA DefinitionAppliedTrue ==
    ASSUME JInv, NEW n \in Names, DefinitionApplied(n)
    PROVE  JInv' /\ ReplyTrue' /\ IdleStays
<1>1. PICK c \in notebook[n].pending :
          notebook' = [notebook EXCEPT ![n].code = c, ![n].pending = @ \ {c}]
  BY DEF DefinitionApplied
<1> DEFINE i == [notebook[n] EXCEPT !.code = c, !.pending = @ \ {c}]
<1>2. i \in Item
  BY DEF JInv, Item
<1>3. notebook' = [notebook EXCEPT ![n] = i]
  BY <1>1 DEF JInv
<1> HIDE DEF i
<1>4. notebook' \in [Names -> Item]
  BY <1>2, <1>3 DEF JInv
<1> QED BY <1>4 DEF DefinitionApplied, JInv, Silently, ReplyTrue, IdleStays
-----------------------------------------------------------------------------
(************************* Status and output *******************************)

\* Every reading of a job that a client does not owe to an exception is true,
\* and an exception is taken for a FAILED only of a command.
LEMMA ReadingsAreTrue ==
    ASSUME JInv, NEW c \in Calls, NEW entry \in BOOLEAN, NEW a \in Readings(c, entry)
    PROVE  /\ a.to = c /\ a.status \in JobStatus \cup {"raised"}
           /\ a.output = FALSE /\ a.error = FALSE /\ a.swallowed \in BOOLEAN
           /\ Shows(a.status, job[c], a.swallowed)
           /\ a.swallowed => Way(c, entry) = "command"
           /\ Way(c, entry) = "command" => job[c].api = "command"
<1> DEFINE found == Answer(c, StatusOf(job[c].state), FALSE, FALSE, FALSE)
<1>1. \/ a = Answer(c, "FAILED", FALSE, FALSE, TRUE) /\ Way(c, entry) = "command"
      \/ a = Answer(c, "raised", FALSE, FALSE, FALSE)
      \/ a = found
  BY DEF Readings
<1>2. Way(c, entry) = "command" => job[c].api = "command"
  BY DEF Way
<1>3. StatusOf(job[c].state) \in JobStatus /\ Shows(StatusOf(job[c].state), job[c], FALSE)
  BY SameCall, StatusIsTrue
<1>4. CASE a = Answer(c, "FAILED", FALSE, FALSE, TRUE) /\ Way(c, entry) = "command"
  BY <1>2, <1>4 DEF Answer, JobStatus, Shows
<1>5. CASE a = Answer(c, "raised", FALSE, FALSE, FALSE)
  BY <1>2, <1>5 DEF Answer, Shows
<1>6. CASE a = found
  BY <1>2, <1>3, <1>6 DEF Answer
<1> QED BY <1>1, <1>4, <1>5, <1>6

LEMMA AskerIsNotIdle ==
    ASSUME JInv, NEW c \in Calls, Asks(c)
    PROVE  call[c].pc \notin Unasked /\ call[c].pc \notin OnNotebook
           /\ call[c].pc # "reading" /\ LocalsFit(call[c], job[c])
BY DEF Asks, Unasked, Submitting, OnNotebook, JInv

LEMMA GetJobStatusTrue ==
    ASSUME JInv, NEW c \in Calls, GetJobStatus(c)
    PROVE  JInv' /\ ReplyTrue' /\ IdleStays
<1>1. PICK entry \in BOOLEAN :
          \E a \in Readings(c, entry) : Replies(c, a)
  BY DEF GetJobStatus
<1>2. PICK a \in Readings(c, entry) : Replies(c, a)
  BY <1>1
<1>3. /\ a.to = c /\ a.swallowed \in BOOLEAN /\ IsTrue(a, call[c], job[c])
      /\ a.swallowed => job[c].api = "command"
  <2>1. /\ a.to = c /\ a.status \in JobStatus \cup {"raised"}
        /\ a.output = FALSE /\ a.error = FALSE /\ a.swallowed \in BOOLEAN
        /\ Shows(a.status, job[c], a.swallowed)
        /\ a.swallowed => Way(c, entry) = "command"
        /\ Way(c, entry) = "command" => job[c].api = "command"
    BY ReadingsAreTrue, Zenon
  <2>2. IsTrue(a, call[c], job[c])
    BY <2>1 DEF IsTrue
  <2> QED BY <2>1, <2>2
<1>4. call[c].pc \notin Unasked /\ LocalsFit(call[c], job[c])
  BY AskerIsNotIdle DEF GetJobStatus
<1>5. /\ call[c] \in Local /\ job[c] \in Job /\ Goes(job[c], job[c])
      /\ call' = [call EXCEPT ![c] = call[c]] /\ job' = [job EXCEPT ![c] = job[c]]
      /\ UNCHANGED notebook /\ IdleStays
  BY SameCall DEF GetJobStatus, IdleStays
<1> QED BY <1>2, <1>3, <1>4, <1>5, AnsweringStep

LEMMA GetMockStatusTrue ==
    ASSUME JInv, NEW c \in Calls, GetMockStatus(c)
    PROVE  JInv' /\ ReplyTrue' /\ IdleStays
<1>1. PICK default \in JobStatus, output \in BOOLEAN :
          LET t == Settled(default)
          IN  /\ job[c].state = "QUEUED" \/ t = job[c].state
              /\ job' = [job EXCEPT ![c].state = t]
              /\ Replies(c, Answer(c, StatusOf(t), output /\ t # "FAILED",
                                   output /\ t = "FAILED", FALSE))
  BY DEF GetMockStatus
<1> DEFINE s == Settled(default)
           y == [job[c] EXCEPT !.state = s]
           o == output /\ s # "FAILED"
           e == output /\ s = "FAILED"
           a == Answer(c, StatusOf(s), o, e, FALSE)
<1>0. s \in JobStates
  BY DEF Settled, JobStatus, JobStates, Over, Succeeded
<1> HIDE DEF s
<1>2. job[c] \in Job
  BY SameCall
<1>3. y \in Job /\ y.api = job[c].api /\ y.state = s
  BY <1>0, <1>2 DEF Job
<1>4. job' = [job EXCEPT ![c] = y]
  BY <1>1 DEF JInv, s
<1>5. Goes(job[c], y)
  <2> HIDE DEF y
  <2> QED BY <1>1, <1>3 DEF Goes, Succeeded, s
<1>6. /\ a.to = c /\ a.status = StatusOf(s) /\ a.output = o /\ a.error = e
      /\ a.swallowed = FALSE
  BY DEF Answer
<1>7. Replies(c, a)
  BY <1>1 DEF s
<1>8. IsTrue(a, call[c], y)
  <2>1. Shows(StatusOf(s), y, FALSE)
    <3> HIDE DEF y
    <3> QED BY <1>3, StatusIsTrue
  <2>2. call[c].platform = "mock"
    BY DEF GetMockStatus
  <2>3. e => StatusOf(s) = "FAILED"
    BY DEF StatusOf, Succeeded
  <2> HIDE DEF y, a, o, e
  <2> QED BY <1>3, <1>6, <2>1, <2>2, <2>3 DEF IsTrue
<1>9. call[c].pc \notin Unasked /\ LocalsFit(call[c], y)
  <2> HIDE DEF y
  <2> QED BY AskerIsNotIdle DEF GetMockStatus, LocalsFit
<1>10. /\ call[c] \in Local /\ call' = [call EXCEPT ![c] = call[c]]
       /\ UNCHANGED notebook /\ IdleStays
  BY SameCall DEF GetMockStatus, IdleStays
<1> HIDE DEF y, a
<1> QED BY <1>3, <1>4, <1>5, <1>6, <1>7, <1>8, <1>9, <1>10, AnsweringStep

\* The first half of get_job_output keeps a true status for the second.
LEMMA AskForOutputTrue ==
    ASSUME JInv, NEW c \in Calls, AskForOutput(c)
    PROVE  JInv' /\ ReplyTrue' /\ IdleStays
<1>1. PICK entry \in BOOLEAN : \E first \in Readings(c, entry) :
          IF first.status = "raised"
          THEN Replies(c, first) /\ UNCHANGED call
          ELSE /\ call' = [call EXCEPT
                     ![c].pc = "reading", ![c].seen = first.status,
                     ![c].way = Way(c, entry), ![c].swallowed = first.swallowed]
               /\ Silently
  BY DEF AskForOutput
<1>2. PICK first \in Readings(c, entry) :
          IF first.status = "raised"
          THEN Replies(c, first) /\ UNCHANGED call
          ELSE /\ call' = [call EXCEPT
                     ![c].pc = "reading", ![c].seen = first.status,
                     ![c].way = Way(c, entry), ![c].swallowed = first.swallowed]
               /\ Silently
  BY <1>1
<1>3. /\ first.to = c /\ first.status \in JobStatus \cup {"raised"}
      /\ first.swallowed \in BOOLEAN /\ IsTrue(first, call[c], job[c])
      /\ Shows(first.status, job[c], first.swallowed)
      /\ first.swallowed => Way(c, entry) = "command"
      /\ Way(c, entry) = "command" => job[c].api = "command"
  <2>1. /\ first.to = c /\ first.status \in JobStatus \cup {"raised"}
        /\ first.output = FALSE /\ first.error = FALSE /\ first.swallowed \in BOOLEAN
        /\ Shows(first.status, job[c], first.swallowed)
        /\ first.swallowed => Way(c, entry) = "command"
        /\ Way(c, entry) = "command" => job[c].api = "command"
    BY ReadingsAreTrue, Zenon
  <2>2. IsTrue(first, call[c], job[c])
    BY <2>1 DEF IsTrue
  <2> QED BY <2>1, <2>2
<1>4. /\ call[c].platform = "databricks" /\ call[c].pc \notin Unasked
      /\ LocalsFit(call[c], job[c])
  BY AskerIsNotIdle DEF AskForOutput
<1>5. /\ call[c] \in Local /\ job[c] \in Job /\ Goes(job[c], job[c])
      /\ job' = [job EXCEPT ![c] = job[c]] /\ call = [call EXCEPT ![c] = call[c]]
      /\ UNCHANGED notebook /\ notebook' \in [Names -> Item]
  BY SameCall DEF AskForOutput, JInv
<1>6. CASE first.status = "raised"
  <2>1. JInv' /\ ReplyTrue'
    <3>1. Replies(c, first) /\ call' = [call EXCEPT ![c] = call[c]]
      BY <1>2, <1>5, <1>6
    <3>2. first.swallowed => job[c].api = "command"
      BY <1>3
    <3> QED BY <1>3, <1>4, <1>5, <3>1, <3>2, AnsweringStep
  <2>2. IdleStays
    BY <1>2, <1>6 DEF IdleStays
  <2> QED BY <2>1, <2>2
<1>7. CASE first.status # "raised"
  <2> DEFINE way == Way(c, entry)
             x == [call[c] EXCEPT !.pc = "reading", !.seen = first.status,
                                  !.way = way, !.swallowed = first.swallowed]
  <2>1. way \in {"statement", "command"}
    BY <1>4 DEF Way
  <2>2. way = "command" => job[c].api = "command"
    BY <1>3
  <2>3. first.swallowed => way = "command"
    BY <1>3
  <2> HIDE DEF way
  <2>4. /\ x \in Local /\ x.pc = "reading" /\ x.seen = first.status
        /\ x.way = way /\ x.swallowed = first.swallowed
        /\ x.platform = call[c].platform /\ x.name = call[c].name
    BY <1>3, <1>5, <1>7, <2>1 DEF Local
  <2>5. call' = [call EXCEPT ![c] = x] /\ Silently
    BY <1>2, <1>7 DEF JInv, way
  <2> HIDE DEF x
  <2>6. LocalsFit(x, job[c])
    BY <1>3, <1>4, <2>1, <2>2, <2>3, <2>4 DEF LocalsFit, OnNotebook, Shows
  <2>7. ToldFits(told[c], x, job[c])
    BY <2>4 DEF JInv, ToldFits, Unasked, Submitting
  <2>8. JInv' /\ ReplyTrue'
    BY <1>5, <2>4, <2>5, <2>6, <2>7, SilentStep
  <2>9. IdleStays
    BY <2>4, <2>5 , <1>4 DEF IdleStays, JInv, Unasked
  <2> QED BY <2>8, <2>9
<1> QED BY <1>6, <1>7

\* The second half: what was read first is still true, and an output or the
\* error of a command comes from the job as it is now.
LEMMA ReadResultsTrue ==
    ASSUME JInv, NEW c \in Calls, ReadResults(c)
    PROVE  JInv' /\ ReplyTrue' /\ IdleStays
<1> DEFINE y == job[c]
           z == call[c]
           seen == z.seen
           command == z.way = "command"
           late == seen # "FAILED" /\ y.state = "DONE"
           bad == seen = "FAILED"
           ok == seen = "SUCCESS"
           open == seen # "SUCCESS"
           x == [z EXCEPT !.pc = "holding", !.seen = "none", !.way = "none",
                          !.swallowed = FALSE]
<1>1. \/ command /\ \E out \in BOOLEAN, broke \in BOOLEAN :
             /\ out => y.state \in Over
             /\ broke => y.state = "RAISED" \/ bad
             /\ Replies(c, Answer(c, seen, out, broke, z.swallowed))
      \/ command /\ Replies(c, Answer(c, seen, ok, open, TRUE))
      \/ ~ command /\ Replies(c, Answer(c, seen, late, bad, FALSE))
      \/ Replies(c, Answer(c, "raised", FALSE, FALSE, FALSE))
  <2>1. CASE command
    <3>1. ReadCommand(c)
      BY <2>1 DEF ReadResults
    <3>2. ASSUME NEW results \in BOOLEAN, NEW output \in BOOLEAN,
                 results \/ output => y.state \in Over,
                 Replies(c, Answer(c, seen, output,
                           y.state = "RAISED" \/ (seen = "FAILED" /\ ~ results),
                           z.swallowed))
          PROVE  \E out \in BOOLEAN, broke \in BOOLEAN :
                     /\ out => y.state \in Over
                     /\ broke => y.state = "RAISED" \/ bad
                     /\ Replies(c, Answer(c, seen, out, broke, z.swallowed))
      <4> DEFINE broke == y.state = "RAISED" \/ (seen = "FAILED" /\ ~ results)
      <4>1. broke \in BOOLEAN /\ (broke => y.state = "RAISED" \/ bad)
        OBVIOUS
      <4>2. Replies(c, Answer(c, seen, output, broke, z.swallowed))
        BY <3>2
      <4> HIDE DEF broke, bad, seen, y
      <4> QED BY <3>2, <4>1, <4>2
    <3> QED BY <2>1, <3>1, <3>2, Zenon DEF ReadCommand
  <2>2. CASE ~ command
    BY <2>2 DEF ReadResults, ReadStatement
  <2> QED BY <2>1, <2>2
<1>2. call' = [call EXCEPT ![c] = x]
  BY DEF ReadResults, JInv
<1>3. /\ z \in Local /\ y \in Job /\ Goes(y, y)
      /\ job' = [job EXCEPT ![c] = y] /\ UNCHANGED notebook
  BY SameCall DEF ReadResults
<1>4. z.pc = "reading" /\ LocalsFit(z, y)
  BY DEF ReadResults, JInv
<1>5. /\ x \in Local /\ x.pc = "holding" /\ x.platform = z.platform
  BY <1>3 DEF Local
<1>6. IdleStays
  <2> HIDE DEF x
  <2> QED BY <1>2, <1>4 DEF IdleStays, JInv
<1>7. z.swallowed \in BOOLEAN
  BY <1>3 DEF Local
<1>8. command => y.api = "command"
  BY <1>4 DEF LocalsFit
<1>9. Shows(seen, y, command /\ z.swallowed)
  BY <1>4 DEF LocalsFit
<1> HIDE DEF x, y, z
<1>10. LocalsFit(x, y) /\ x.pc \notin Unasked
  BY <1>5 DEF LocalsFit, Unasked, Submitting, OnNotebook
<1>11. ASSUME NEW s, NEW output \in BOOLEAN, NEW error \in BOOLEAN,
              NEW swallowed \in BOOLEAN,
              Replies(c, Answer(c, s, output, error, swallowed)),
              Shows(s, y, swallowed), swallowed => y.api = "command",
              output => y.state \in IF y.api = "command" THEN Over ELSE Succeeded,
              error /\ s = "SUCCESS" => y.state = "RAISED"
       PROVE  JInv' /\ ReplyTrue'
  <2> DEFINE a == Answer(c, s, output, error, swallowed)
  <2>1. /\ a.to = c /\ a.status = s /\ a.output = output
        /\ a.error = error /\ a.swallowed = swallowed
    BY DEF Answer
  <2> HIDE DEF a
  <2>2. IsTrue(a, x, y)
    BY <1>11, <2>1 DEF IsTrue
  <2> QED BY <1>2, <1>3, <1>5, <1>10, <1>11, <2>1, <2>2, AnsweringStep DEF a, y
<1>12. ASSUME command, NEW out \in BOOLEAN, NEW broke \in BOOLEAN,
              out => y.state \in Over, broke => y.state = "RAISED" \/ bad,
              Replies(c, Answer(c, seen, out, broke, z.swallowed))
       PROVE  JInv' /\ ReplyTrue'
  <2>1. Shows(seen, y, z.swallowed)
    BY <1>9, <1>12 DEF Shows
  <2>2. broke /\ seen = "SUCCESS" => y.state = "RAISED"
    BY <1>12
  <2>3. y.api = "command"
    BY <1>8, <1>12
  <2> HIDE DEF seen
  <2> QED BY <1>7, <1>11, <1>12, <2>1, <2>2, <2>3
<1>13. CASE command /\ Replies(c, Answer(c, seen, ok, open, TRUE))
  <2>1. Shows(seen, y, TRUE)
    BY <1>9 DEF Shows
  <2>2. /\ open \in BOOLEAN /\ ok \in BOOLEAN
        /\ open /\ seen = "SUCCESS" => y.state = "RAISED"
    OBVIOUS
  <2>3. y.api = "command"
    BY <1>8, <1>13
  <2>4. ok => y.state \in Over
    BY <2>1 DEF Shows, Over
  <2> HIDE DEF open, ok, seen
  <2> QED BY <1>6, <1>11, <1>13, <2>1, <2>2, <2>3, <2>4
<1>14. CASE ~ command /\ Replies(c, Answer(c, seen, late, bad, FALSE))
  <2>1. Shows(seen, y, FALSE)
    BY <1>9, <1>14 DEF Shows
  <2>2. /\ late \in BOOLEAN /\ bad \in BOOLEAN
        /\ late => y.state \in Succeeded /\ y.state \in Over
        /\ bad /\ seen = "SUCCESS" => y.state = "RAISED"
    BY DEF Succeeded, Over
  <2> HIDE DEF late, bad, seen
  <2> QED BY <1>6, <1>11, <1>14, <2>1, <2>2
<1>15. CASE Replies(c, Answer(c, "raised", FALSE, FALSE, FALSE))
  <2>1. Shows("raised", y, FALSE)
    BY DEF Shows
  <2> QED BY <1>6, <1>11, <1>15, <2>1
<1>16. CASE command /\ \E out \in BOOLEAN, broke \in BOOLEAN :
               /\ out => y.state \in Over
               /\ broke => y.state = "RAISED" \/ bad
               /\ Replies(c, Answer(c, seen, out, broke, z.swallowed))
  <2>1. PICK out \in BOOLEAN, broke \in BOOLEAN :
               /\ out => y.state \in Over
               /\ broke => y.state = "RAISED" \/ bad
               /\ Replies(c, Answer(c, seen, out, broke, z.swallowed))
    BY <1>16
  <2> HIDE DEF bad, seen
  <2> QED BY <1>6, <1>12, <1>16, <2>1
<1> QED BY <1>1, <1>6, <1>13, <1>14, <1>15, <1>16

LEMMA PollForOutputTrue ==
    ASSUME JInv, NEW c \in Calls, PollForOutput(c)
    PROVE  JInv' /\ ReplyTrue' /\ IdleStays
<1> DEFINE status == StatusOf(job[c].state)
           own == Answer(c, status, status # "FAILED", status = "FAILED", FALSE)
           raised == Answer(c, "raised", FALSE, FALSE, FALSE)
           stray == call[c].pc = "stray" \/ job[c].api # "notebook"
           back == [call[c] EXCEPT !.pc = IF stray THEN "stray" ELSE "holding",
                                   !.polls = 0]
           on == [call[c] EXCEPT !.pc = "polling", !.polls = @ + 1]
<1>1. \/ (Replies(c, raised) \/ Replies(c, own)) /\ call' = [call EXCEPT ![c] = back]
      \/ Silently /\ call' = [call EXCEPT ![c] = on]
  BY DEF PollForOutput, JInv
<1>2. /\ call[c] \in Local /\ job[c] \in Job /\ Goes(job[c], job[c])
      /\ job' = [job EXCEPT ![c] = job[c]] /\ UNCHANGED notebook
      /\ notebook' \in [Names -> Item]
  BY SameCall DEF PollForOutput, JInv
<1>3. /\ call[c].pc \notin Unasked /\ call[c].platform = "fabric"
  BY DEF PollForOutput, Asks, Unasked, Submitting
<1>4. /\ back \in Local /\ back.pc \in {"stray", "holding"}
      /\ back.platform = "fabric"
  BY <1>2, <1>3 DEF Local
<1>5. on \in Local /\ on.pc = "polling"
  <2>1. call[c].polls \in Nat
    BY <1>2 DEF Local
  <2>2. call[c].polls + 1 \in Nat
    BY <2>1
  <2> QED BY <1>2, <2>2 DEF Local
<1>6. status \in JobStatus /\ Shows(status, job[c], FALSE)
  BY <1>2, StatusIsTrue
<1>7. IdleStays
  <2> HIDE DEF on, back
  <2> QED BY <1>1, <1>3, <1>4, <1>5 DEF IdleStays, JInv, Unasked
<1>8. ASSUME NEW a \in {own, raised}, Replies(c, a), call' = [call EXCEPT ![c] = back]
      PROVE  JInv' /\ ReplyTrue'
  <2>1. a.to = c /\ a.swallowed = FALSE
    BY DEF Answer
  <2>2. IsTrue(a, back, job[c])
    <3>1. CASE a = own
      <4> HIDE DEF back, status
      <4> QED BY <1>4, <1>6, <3>1 DEF Answer, IsTrue, JobStatus, Shows
    <3>2. CASE a = raised
      BY <3>2 DEF Answer, IsTrue, Shows
    <3> QED BY <3>1, <3>2
  <2>3. LocalsFit(back, job[c]) /\ back.pc \notin Unasked
    <3> HIDE DEF back
    <3> QED BY <1>4 DEF LocalsFit, Unasked, Submitting, OnNotebook
  <2> HIDE DEF back, own, raised
  <2> QED BY <1>2, <1>4, <1>8, <2>1, <2>2, <2>3, AnsweringStep
<1>9. ASSUME Silently, call' = [call EXCEPT ![c] = on]
      PROVE  JInv' /\ ReplyTrue'
  <2> HIDE DEF on
  <2>1. LocalsFit(on, job[c]) /\ ToldFits(told[c], on, job[c])
    BY <1>5 DEF JInv, LocalsFit, ToldFits, Unasked, Submitting, OnNotebook
  <2> QED BY <1>2, <1>5, <1>9, <2>1, SilentStep
<1> HIDE DEF own, raised, back, on
<1> QED BY <1>1, <1>7, <1>8, <1>9
-----------------------------------------------------------------------------
(***************************************************************************)
(* Whose code runs: a notebook belongs to the submission whose definition  *)
(* it holds, as long as no other submission is on it and no definition     *)
(* waits to be applied.                                                    *)
(***************************************************************************)
Holds(n, c) == notebook[n].code = c /\ notebook[n].pending = {}

OwnCode ==
    \A c \in Calls : call[c].pc \in OnNotebook =>
        /\ call[c].platform = "fabric"
        /\ call[c].pc = "run" =>
               call[c].shared \/ call[c].unsettled \/ Holds(call[c].name, c)
        /\ \A d \in Calls \ {c} :
              call[d].pc \in OnNotebook /\ call[d].name = call[c].name => call[c].shared

\* What a step does with a call that is on a notebook after it: it was there
\* before, and before it runs it has updated.
Advances(d) ==
    call'[d].pc \in OnNotebook =>
        /\ call[d].pc \in OnNotebook /\ call'[d].name = call[d].name
        /\ call'[d].platform = call[d].platform
        /\ call[d].shared => call'[d].shared
        /\ call'[d].pc = "run" =>
              \/ call[d].pc = "run" /\ (call[d].unsettled => call'[d].unsettled)
              \/ call'[d].unsettled \/ Holds(call[d].name, d)'

\* What its job runs from then on.
RunsCode(d) ==
    \/ job'[d].code \in {d, Nobody, job[d].code}
    \/ call[d].pc = "run" /\ job'[d].code = notebook[call[d].name].code

\* A notebook changes only by an update, or when a definition waits.
NotebooksKept ==
    \A n \in Names :
        \/ notebook'[n].code = notebook[n].code /\ notebook'[n].pending = notebook[n].pending
        \/ notebook[n].pending # {}
        \/ \E c \in Calls : call[c].pc = "update" /\ call[c].name = n

Effect == NotebooksKept /\ \A d \in Calls : Advances(d) /\ RunsCode(d)

\* The job of a call is not another's, but for the reasons that it knows.
OwnJob(c) ==
    job'[c].code \notin {c, Nobody} /\ job[c] = NoJob =>
        call[c].platform = "fabric" /\ (call[c].shared \/ call[c].unsettled)

LEMMA EffectOwn ==
    ASSUME JInv, OwnCode, Effect
    PROVE  OwnCode' /\ \A c \in Calls : OwnJob(c)
<1>1. ASSUME NEW c \in Calls PROVE OwnJob(c)
  <2> SUFFICES ASSUME job'[c].code \notin {c, Nobody}, job[c] = NoJob
               PROVE  call[c].platform = "fabric" /\ (call[c].shared \/ call[c].unsettled)
    BY DEF OwnJob
  <2>1. call[c].pc = "run" /\ job'[c].code = notebook[call[c].name].code
    BY DEF Effect, RunsCode, NoJob
  <2>2. "run" \in OnNotebook
    BY DEF OnNotebook
  <2> QED BY <2>1, <2>2 DEF OwnCode, Holds
<1>2. ASSUME NEW c \in Calls, call'[c].pc \in OnNotebook
      PROVE  /\ call'[c].platform = "fabric"
             /\ call'[c].pc = "run" =>
                    call'[c].shared \/ call'[c].unsettled \/ Holds(call[c].name, c)'
             /\ \A d \in Calls \ {c} :
                   call'[d].pc \in OnNotebook /\ call'[d].name = call'[c].name
                       => call'[c].shared
  <2>1. /\ call[c].pc \in OnNotebook /\ call'[c].name = call[c].name
        /\ call'[c].platform = call[c].platform
        /\ call[c].shared => call'[c].shared
    BY <1>2 DEF Effect, Advances
  <2>2. ASSUME NEW d \in Calls \ {c}, call'[d].pc \in OnNotebook,
               call'[d].name = call'[c].name
        PROVE  call'[c].shared
    BY <2>1, <2>2 DEF Effect, Advances, OwnCode
  <2>3. ASSUME call'[c].pc = "run", ~ call'[c].shared, ~ call'[c].unsettled
        PROVE  Holds(call[c].name, c)'
    <3>1. CASE call[c].pc = "run" /\ (call[c].unsettled => call'[c].unsettled)
      <4>1. Holds(call[c].name, c) /\ call[c].name \in Names /\ ~ call[c].shared
        BY <2>1, <2>3, <3>1 DEF OwnCode, JInv, LocalsFit
      <4>2. ~ \E d \in Calls : call[d].pc = "update" /\ call[d].name = call[c].name
        BY <2>1, <3>1, <4>1 DEF OwnCode, OnNotebook
      <4>3. /\ notebook'[call[c].name].code = notebook[call[c].name].code
            /\ notebook'[call[c].name].pending = notebook[call[c].name].pending
        BY <4>1, <4>2 DEF Effect, NotebooksKept, Holds
      <4> QED BY <2>1, <4>1, <4>3 DEF Holds
    <3>2. CASE ~ (call[c].pc = "run" /\ (call[c].unsettled => call'[c].unsettled))
      BY <1>2, <2>3, <3>2 DEF Effect, Advances
    <3> QED BY <3>1, <3>2
  <2>4. call'[c].platform = "fabric"
    BY <2>1 DEF OwnCode
  <2> QED BY <2>1, <2>2, <2>3, <2>4 DEF Holds
<1>3. OwnCode'
  <2> HIDE DEF Holds
  <2> QED BY <1>2 DEF OwnCode
<1> QED BY <1>1, <1>3

\* A step of one call off the notebooks, or one that leaves it where it is.
LEMMA QuietEffect ==
    ASSUME JInv, NEW c \in Calls, NEW x, NEW y,
           call' = [call EXCEPT ![c] = x], job' = [job EXCEPT ![c] = y],
           notebook' = notebook, x = call[c] \/ x.pc \notin OnNotebook,
           \/ y.code \in {c, Nobody, job[c].code}
           \/ call[c].pc = "run" /\ y.code = notebook[call[c].name].code
    PROVE  Effect
<1>1. NotebooksKept
  BY DEF NotebooksKept
<1>2. ASSUME NEW d \in Calls PROVE Advances(d) /\ RunsCode(d)
  BY DEF Advances, RunsCode, JInv
<1> QED BY <1>1, <1>2 DEF Effect

\* A submission that goes on to its next request on the same notebook.
LEMMA MovingEffect ==
    ASSUME JInv, NEW c \in Calls, NEW pc, call[c].pc \in OnNotebook, Moves(c, pc),
           pc # "run", UNCHANGED job, NotebooksKept
    PROVE  Effect
<1> DEFINE x == [call[c] EXCEPT !.pc = pc]
<1>1. call[c] \in Local /\ call' = [call EXCEPT ![c] = x]
  BY SameCall DEF Moves, JInv
<1>2. /\ x.pc = pc /\ x.name = call[c].name /\ x.platform = call[c].platform
      /\ x.shared = call[c].shared
  BY <1>1 DEF Local
<1> HIDE DEF x
<1>3. ASSUME NEW d \in Calls PROVE Advances(d) /\ RunsCode(d)
  BY <1>1, <1>2 DEF Advances, RunsCode, JInv
<1> QED BY <1>3 DEF Effect

LEMMA UpdateEffect ==
    ASSUME JInv, NEW c \in Calls, UpdateNotebook(c)
    PROVE  Effect
<1>1. /\ call[c].pc = "update" /\ call[c].name \in Names /\ UNCHANGED job
      /\ call[c] \in Local /\ notebook[call[c].name] \in Item
  BY DEF UpdateNotebook, OnNotebook, JInv, LocalsFit
<1>2. PICK accepted \in BOOLEAN :
          /\ notebook' =
                IF accepted
                THEN [notebook EXCEPT ![call[c].name].pending = @ \cup {c}]
                ELSE [notebook EXCEPT ![call[c].name].code = c]
          /\ call' = [call EXCEPT ![c].pc = "run",
                 ![c].unsettled = accepted \/ notebook[call[c].name].pending # {}]
  BY DEF UpdateNotebook
<1> DEFINE u == accepted \/ notebook[call[c].name].pending # {}
           x == [call[c] EXCEPT !.pc = "run", !.unsettled = u]
<1>3. call' = [call EXCEPT ![c] = x]
  BY <1>2 DEF JInv
<1>4. /\ x.name = call[c].name /\ x.platform = call[c].platform
      /\ x.shared = call[c].shared /\ x.unsettled = u
  BY <1>1 DEF Local
<1> HIDE DEF x
<1>5. u \/ (/\ notebook'[call[c].name].code = c
            /\ notebook'[call[c].name].pending = {})
  <2>1. CASE accepted
    BY <2>1
  <2>2. CASE ~ accepted
    <3>1. notebook' = [notebook EXCEPT ![call[c].name] =
                          [notebook[call[c].name] EXCEPT !.code = c]]
      BY <1>2, <2>2 DEF JInv
    <3>2. notebook'[call[c].name] = [notebook[call[c].name] EXCEPT !.code = c]
      BY <1>1, <3>1 DEF JInv
    <3> QED BY <1>1, <3>2 DEF Item
  <2> QED BY <2>1, <2>2
<1>6. NotebooksKept
  <2>1. \A n \in Names \ {call[c].name} : notebook'[n] = notebook[n]
    BY <1>2 DEF JInv
  <2> QED BY <1>1, <2>1 DEF NotebooksKept
<1> HIDE DEF u
<1>7. call'[c] = x
  BY <1>3 DEF JInv
<1>8. Advances(c)
  <2>1. call[c].pc \in OnNotebook
    BY <1>1 DEF OnNotebook
  <2>2. call'[c].unsettled \/ Holds(call[c].name, c)'
    BY <1>4, <1>5, <1>7 DEF Holds
  <2> QED BY <1>4, <1>7, <2>1, <2>2 DEF Advances
<1>9. ASSUME NEW d \in Calls \ {c} PROVE Advances(d)
  BY <1>3 DEF Advances, JInv
<1>10. \A d \in Calls : RunsCode(d)
  BY <1>1 DEF RunsCode
<1> QED BY <1>6, <1>8, <1>9, <1>10 DEF Effect

\* To create a notebook leaves the definitions of all as they are.
LEMMA CreatedKept ==
    ASSUME JInv, NEW m \in Names,
           notebook' = notebook \/ notebook' = [notebook EXCEPT ![m].exists = TRUE]
    PROVE  NotebooksKept
<1> SUFFICES ASSUME NEW n \in Names
             PROVE  /\ notebook'[n].code = notebook[n].code
                    /\ notebook'[n].pending = notebook[n].pending
  BY DEF NotebooksKept
<1>1. notebook[n] \in Item
  BY DEF JInv
<1>2. notebook'[n] = notebook[n] \/ notebook'[n] = [notebook[n] EXCEPT !.exists = TRUE]
  BY DEF JInv
<1> QED BY <1>1, <1>2 DEF Item

LEMMA MovedTo ==
    ASSUME JInv, NEW c \in Calls, NEW pc, Moves(c, pc)
    PROVE  \E x : call' = [call EXCEPT ![c] = x] /\ x.pc = pc
<1> DEFINE x == [call[c] EXCEPT !.pc = pc]
<1>1. call' = [call EXCEPT ![c] = x] /\ x.pc = pc
  BY SameCall DEF Moves, JInv, Local
<1> HIDE DEF x
<1> QED BY <1>1

LEMMA StartedAs ==
    ASSUME NEW c \in Calls, NEW api, NEW code, Starts(c, api, code)
    PROVE  \E y : job' = [job EXCEPT ![c] = y] /\ y.code = code
<1> DEFINE y == [api |-> api, state |-> "QUEUED", code |-> code]
<1>1. job' = [job EXCEPT ![c] = y] /\ y.code = code
  BY DEF Starts
<1> HIDE DEF y
<1> QED BY <1>1

LEMMA SubmitsEffect ==
    ASSUME JInv, NEW c \in Calls,
           \/ StatementReturns(c) \/ CreateContext(c) \/ ExecuteCommand(c)
           \/ CreateNotebook(c) \/ FindNotebook(c) \/ UpdateNotebook(c) \/ RunNotebook(c)
    PROVE  Effect
<1>1. CASE StatementReturns(c)
  <2>1. /\ job' = [job EXCEPT ![c] = job'[c]] /\ job'[c].code = job[c].code
    <3>1. job[c] \in Job /\ (job' = job \/ job' = [job EXCEPT ![c] =
                                           [job[c] EXCEPT !.state = "CANCELLED"]])
      BY <1>1 DEF StatementReturns, JInv
    <3> QED BY <3>1 DEF Job, JInv
  <2>2. PICK x : call' = [call EXCEPT ![c] = x] /\ x.pc = "holding"
    BY <1>1, MovedTo DEF StatementReturns
  <2> QED BY <1>1, <2>1, <2>2, QuietEffect DEF StatementReturns, OnNotebook
<1>2. CASE CreateContext(c)
  BY <1>2, SameCall, QuietEffect DEF CreateContext
<1>3. CASE ExecuteCommand(c)
  <2>1. PICK y : job' = [job EXCEPT ![c] = y] /\ y.code = c
    BY <1>3, StartedAs DEF ExecuteCommand
  <2>2. PICK x : call' = [call EXCEPT ![c] = x] /\ x.pc = "holding"
    BY <1>3, MovedTo DEF ExecuteCommand
  <2> QED BY <1>3, <2>1, <2>2, QuietEffect DEF ExecuteCommand, OnNotebook
<1>4. CASE CreateNotebook(c)
  <2>1. call[c].pc \in OnNotebook /\ call[c].name \in Names /\ UNCHANGED job
    BY <1>4 DEF CreateNotebook, OnNotebook, JInv, LocalsFit
  <2>2. PICK pc \in {"find", "update", "no id"} : Moves(c, pc)
    BY <1>4 DEF CreateNotebook
  <2>3. NotebooksKept
    BY <1>4, <2>1, CreatedKept DEF CreateNotebook
  <2> QED BY <2>1, <2>2, <2>3, MovingEffect
<1>5. CASE FindNotebook(c)
  BY <1>5, MovingEffect DEF FindNotebook, OnNotebook, NotebooksKept
<1>6. CASE UpdateNotebook(c)
  BY <1>6, UpdateEffect
<1>7. CASE RunNotebook(c)
  <2>1. PICK y : /\ job' = [job EXCEPT ![c] = y]
                 /\ y.code = notebook[call[c].name].code
    <3>1. Starts(c, "notebook", notebook[call[c].name].code)
      BY <1>7 DEF RunNotebook
    <3> QED BY <3>1, StartedAs
  <2>2. PICK x : call' = [call EXCEPT ![c] = x] /\ x.pc \in {"holding", "stray"}
    <3>1. PICK pc \in {"holding", "stray"} :
              call' = [call EXCEPT ![c] = [Idle EXCEPT !.pc = pc, !.platform = "fabric"]]
      BY <1>7 DEF RunNotebook
    <3> DEFINE x == [Idle EXCEPT !.pc = pc, !.platform = "fabric"]
    <3>2. call' = [call EXCEPT ![c] = x] /\ x.pc = pc
      BY <3>1 DEF Idle
    <3> HIDE DEF x
    <3> QED BY <3>2
  <2> QED BY <1>7, <2>1, <2>2, QuietEffect DEF RunNotebook, OnNotebook
<1> QED BY <1>1, <1>2, <1>3, <1>4, <1>5, <1>6, <1>7

LEMMA SubmissionFailsEffect ==
    ASSUME JInv, NEW c \in Calls, SubmissionFails(c)
    PROVE  Effect
<1>1. PICK x : call' = [call EXCEPT ![c] = x] /\ x.pc = "ended"
  <2> DEFINE x == [Idle EXCEPT !.pc = "ended"]
  <2>1. call' = [call EXCEPT ![c] = x] /\ x.pc = "ended"
    BY DEF SubmissionFails, Idle
  <2> HIDE DEF x
  <2> QED BY <2>1
<1>2. PICK y : /\ job' = [job EXCEPT ![c] = y]
               /\ \/ y.code \in {c, Nobody, job[c].code}
                  \/ call[c].pc = "run" /\ y.code = notebook[call[c].name].code
  <2>1. \/ UNCHANGED job \/ job' = [job EXCEPT ![c] = NoJob]
        \/ Starts(c, "command", c)
        \/ call[c].pc = "run" /\ Starts(c, "notebook", notebook[call[c].name].code)
    BY DEF SubmissionFails
  <2> QED BY <2>1, SameCall DEF Starts, NoJob
<1>3. NotebooksKept
  <2>1. CASE UNCHANGED notebook
    BY <2>1 DEF NotebooksKept
  <2>2. CASE call[c].pc = "create"
             /\ notebook' = [notebook EXCEPT ![call[c].name].exists = TRUE]
    BY <2>2, CreatedKept DEF OnNotebook, JInv, LocalsFit
  <2>3. CASE call[c].pc = "update"
             /\ \/ notebook' = [notebook EXCEPT ![call[c].name].code = c]
                \/ notebook' = [notebook EXCEPT ![call[c].name].pending = @ \cup {c}]
    <3>1. \A n \in Names \ {call[c].name} : notebook'[n] = notebook[n]
      BY <2>3 DEF JInv
    <3> QED BY <2>3, <3>1 DEF NotebooksKept
  <2> QED BY <2>1, <2>2, <2>3 DEF SubmissionFails
<1>4. ASSUME NEW d \in Calls PROVE Advances(d) /\ RunsCode(d)
  BY <1>1, <1>2 DEF Advances, RunsCode, JInv, OnNotebook
<1> QED BY <1>3, <1>4 DEF Effect

\* Jobs and definitions that go on by themselves.
LEMMA PlatformEffect ==
    ASSUME JInv, \/ \E c \in Calls : JobProceeds(c)
                 \/ \E n \in Names : DefinitionApplied(n)
    PROVE  Effect
<1>1. ASSUME NEW c \in Calls, JobProceeds(c) PROVE Effect
  <2>1. PICK s : job' = [job EXCEPT ![c].state = s]
    BY <1>1 DEF JobProceeds
  <2> DEFINE y == [job[c] EXCEPT !.state = s]
  <2>2. job' = [job EXCEPT ![c] = y] /\ y.code = job[c].code
    BY <2>1, SameCall DEF JInv, Job
  <2> HIDE DEF y
  <2> QED BY <1>1, <2>2, SameCall, QuietEffect DEF JobProceeds
<1>2. ASSUME NEW n \in Names, DefinitionApplied(n) PROVE Effect
  <2>1. /\ notebook[n].pending # {}
        /\ \A m \in Names \ {n} : notebook'[m] = notebook[m]
        /\ UNCHANGED <<job, call>>
    BY <1>2 DEF DefinitionApplied, JInv
  <2> QED BY <2>1 DEF Effect, NotebooksKept, Advances, RunsCode
<1> QED BY <1>1, <1>2

\* Questions are asked off the notebooks.
LEMMA AskingEffect ==
    ASSUME JInv, NEW c \in Calls,
           \/ GetJobStatus(c) \/ GetMockStatus(c) \/ AskForOutput(c)
           \/ ReadResults(c) \/ PollForOutput(c)
    PROVE  Effect
<1>1. CASE GetJobStatus(c)
  BY <1>1, SameCall, QuietEffect DEF GetJobStatus
<1>2. CASE GetMockStatus(c)
  <2>1. PICK s : job' = [job EXCEPT ![c].state = s]
    BY <1>2 DEF GetMockStatus
  <2> DEFINE y == [job[c] EXCEPT !.state = s]
  <2>2. job' = [job EXCEPT ![c] = y] /\ y.code = job[c].code
    BY <2>1, SameCall DEF JInv, Job
  <2> HIDE DEF y
  <2> QED BY <1>2, <2>2, SameCall, QuietEffect DEF GetMockStatus
<1>3. CASE AskForOutput(c)
  <2>1. CASE UNCHANGED call
    <3>1. UNCHANGED <<job, notebook>>
      BY <1>3 DEF AskForOutput
    <3> QED BY <2>1, <3>1, SameCall, QuietEffect
  <2>2. ASSUME NEW s, NEW way, NEW b,
               call' = [call EXCEPT ![c].pc = "reading", ![c].seen = s, ![c].way = way,
                                    ![c].swallowed = b]
        PROVE  Effect
    <3> DEFINE x == [call[c] EXCEPT !.pc = "reading", !.seen = s, !.way = way,
                                    !.swallowed = b]
    <3>1. call' = [call EXCEPT ![c] = x] /\ x.pc = "reading"
      BY <2>2, SameCall DEF JInv, Local
    <3> HIDE DEF x
    <3> QED BY <1>3, <3>1, SameCall, QuietEffect DEF AskForOutput, OnNotebook
  <2> QED BY <1>3, <2>1, <2>2 DEF AskForOutput
<1>4. CASE ReadResults(c)
  <2> DEFINE x == [call[c] EXCEPT !.pc = "holding", !.seen = "none", !.way = "none",
                                  !.swallowed = FALSE]
  <2>1. call' = [call EXCEPT ![c] = x] /\ x.pc = "holding"
    BY <1>4, SameCall DEF ReadResults, JInv, Local
  <2>2. UNCHANGED <<job, notebook>>
    BY <1>4 DEF ReadResults
  <2> HIDE DEF x
  <2> QED BY <2>1, <2>2, SameCall, QuietEffect DEF OnNotebook
<1>5. CASE PollForOutput(c)
  <2> DEFINE stray == call[c].pc = "stray" \/ job[c].api # "notebook"
             back == [call[c] EXCEPT !.pc = IF stray THEN "stray" ELSE "holding",
                                     !.polls = 0]
             on == [call[c] EXCEPT !.pc = "polling", !.polls = @ + 1]
  <2>1. call' = [call EXCEPT ![c] = back] \/ call' = [call EXCEPT ![c] = on]
    BY <1>5 DEF PollForOutput, JInv
  <2>2. back.pc \in {"stray", "holding"} /\ on.pc = "polling"
    BY SameCall DEF Local
  <2> HIDE DEF back, on
  <2> QED BY <1>5, <2>1, <2>2, SameCall, QuietEffect DEF PollForOutput, OnNotebook
<1> QED BY <1>1, <1>2, <1>3, <1>4, <1>5

\* A submission that wants a notebook and those that are on it know of each
\* other from then on.
LEMMA SubmitOwn ==
    ASSUME JInv, OwnCode, NEW c \in Calls, NEW platform \in Platforms, NEW language,
           NEW name \in Names \cup {Nobody}, NEW env \in BOOLEAN,
           call[c].pc = "idle", Submit(c, platform, language, name, env)
    PROVE  OwnCode' /\ \A d \in Calls : OwnJob(d)
<1> DEFINE pc == Route(platform, language, env)
           rivals == IF pc = "create" THEN Rivals(c, name) ELSE {}
           mine == [Idle EXCEPT !.pc = pc, !.platform = platform,
                                !.name = IF pc = "create" THEN name ELSE Nobody]
           x == [mine EXCEPT !.shared = rivals # {}]
<1>1. /\ pc \in {"ended", "create", "holding", "statement", "context"}
      /\ pc = "create" => platform = "fabric"
  BY RouteCases
<1>2. call' = [d \in Calls |->
          IF d = c THEN x
          ELSE IF d \in rivals THEN [call[d] EXCEPT !.shared = TRUE]
          ELSE call[d]]
  BY DEF Submit
<1>3. job' \in {job, [job EXCEPT ![c] = [api |-> "statement", state |-> "QUEUED", code |-> c]],
                [job EXCEPT ![c] = [api |-> "mock", state |-> "QUEUED", code |-> c]]}
      /\ UNCHANGED notebook
  BY DEF Submit, Starts
<1>4. rivals = IF pc = "create"
               THEN {d \in Calls \ {c} : call[d].pc \in Submitting /\ call[d].name = name}
               ELSE {}
  BY DEF Rivals
<1>5. /\ x.pc = pc /\ x.platform = platform /\ x.shared = (rivals # {})
      /\ pc = "create" => x.name = name
  BY DEF Idle
<1> HIDE DEF pc, rivals, x
<1>6. ASSUME NEW d \in Calls \ {c}
      PROVE  /\ call'[d].pc = call[d].pc /\ call'[d].name = call[d].name
             /\ call'[d].platform = call[d].platform
             /\ call'[d].unsettled = call[d].unsettled
             /\ call[d].shared \/ d \in rivals => call'[d].shared
  <2>1. call[d] \in Local
    BY SameCall
  <2>2. call'[d] = IF d \in rivals THEN [call[d] EXCEPT !.shared = TRUE] ELSE call[d]
    BY <1>2
  <2> QED BY <2>1, <2>2 DEF Local
<1>7. OnNotebook \subseteq Submitting /\ call'[c] = x
  BY <1>2 DEF OnNotebook, Submitting
<1>8. ASSUME NEW d \in Calls \ {c}, call'[d].pc \in OnNotebook
      PROVE  /\ call'[d].platform = "fabric"
             /\ call'[d].pc = "run" =>
                    call'[d].shared \/ call'[d].unsettled \/ Holds(call[d].name, d)'
             /\ \A e \in Calls \ {d} :
                   call'[e].pc \in OnNotebook /\ call'[e].name = call'[d].name
                       => call'[d].shared
  <2>1. call[d].pc \in OnNotebook
    BY <1>6, <1>8
  <2>2. /\ call'[d].platform = "fabric"
        /\ call'[d].pc = "run" =>
               call'[d].shared \/ call'[d].unsettled \/ Holds(call[d].name, d)'
    BY <1>3, <1>6, <2>1 DEF OwnCode, Holds
  <2>3. ASSUME NEW e \in Calls \ {d}, call'[e].pc \in OnNotebook,
               call'[e].name = call'[d].name
        PROVE  call'[d].shared
    <3>1. CASE e = c
      <4>1. pc = "create" /\ call[d].name = name
        BY <1>1, <1>5, <1>6, <1>7, <2>3, <3>1 DEF OnNotebook
      <4> QED BY <1>4, <1>6, <1>7, <2>1, <4>1
    <3>2. CASE e # c
      BY <1>6, <2>1, <2>3, <3>2 DEF OwnCode
    <3> QED BY <3>1, <3>2
  <2> QED BY <2>2, <2>3
<1>9. ASSUME call'[c].pc \in OnNotebook
      PROVE  /\ call'[c].platform = "fabric" /\ call'[c].pc # "run"
             /\ \A e \in Calls \ {c} :
                   call'[e].pc \in OnNotebook /\ call'[e].name = call'[c].name
                       => call'[c].shared
  <2>1. pc = "create"
    BY <1>1, <1>5, <1>7, <1>9 DEF OnNotebook
  <2>2. ASSUME NEW e \in Calls \ {c}, call'[e].pc \in OnNotebook, call'[e].name = name
        PROVE  e \in rivals
    BY <1>4, <1>6, <1>7, <2>1, <2>2
  <2> QED BY <1>1, <1>5, <1>7, <2>1, <2>2
<1>10. OwnCode'
  <2> HIDE DEF Holds
  <2> QED BY <1>8, <1>9 DEF OwnCode
<1>11. \A d \in Calls : OwnJob(d)
  BY <1>3 DEF OwnJob, JInv, NoJob
<1> QED BY <1>10, <1>11

LEMMA BeginOwn ==
    ASSUME JInv, OwnCode, NEW c \in Calls, Begin(c)
    PROVE  OwnCode' /\ \A d \in Calls : OwnJob(d)
<1>1. PICK p \in Platforms, l \in Languages, env \in BOOLEAN :
          \E n \in Names \cup {Nobody} : Submit(c, p, l, n, env)
  BY DEF Begin
<1>2. call[c].pc = "idle"
  BY DEF Begin
<1> QED BY <1>1, <1>2, SubmitOwn


-----------------------------------------------------------------------------
(***************************************************************************)
(* The safety pipeline.                                                    *)
(***************************************************************************)
Findings == [Severities -> Nat]

\* d was found to be everything that c was, and perhaps more.
AsRisky(c, d) ==
    /\ d.language = c.language /\ d.blank = c.blank /\ d.lines = c.lines
    /\ \A s \in Severities :
          c.static[s] <= d.static[s] /\ c.patterns[s] <= d.patterns[s]

LEMMA SeverityCases ==
    Severities = {LOW, MEDIUM, HIGH, CRITICAL} /\ RiskLevel = {NONE} \cup Severities
BY DEF Severities, RiskLevel, NONE, LOW, MEDIUM, HIGH, CRITICAL

\* What the two searching gates count are findings, also of a blank code.
LEMMA FoundAreFindings ==
    ASSUME NEW c \in Code
    PROVE  StaticFindings(c) \in Findings /\ PatternFindings(c) \in Findings
BY DEF Code, Findings, StaticFindings, PatternFindings, NoFindings

LEMMA HighestIsRisk ==
    ASSUME NEW f \in Findings
    PROVE  /\ Highest(f) \in RiskLevel
           /\ \A s \in Severities : f[s] > 0 => s <= Highest(f)
BY SeverityCases DEF Findings, Highest, NONE, LOW, MEDIUM, HIGH, CRITICAL

\* The highest severity grows with the findings.
LEMMA HighestMonotone ==
    ASSUME NEW f \in Findings, NEW g \in Findings,
           \A s \in Severities : f[s] <= g[s]
    PROVE  Highest(f) <= Highest(g)
BY SeverityCases DEF Findings, Highest, NONE, LOW, MEDIUM, HIGH, CRITICAL

LEMMA TotalMonotone ==
    ASSUME NEW f \in Findings, NEW g \in Findings,
           \A s \in Severities : f[s] <= g[s]
    PROVE  Total(f) \in Nat /\ Total(g) \in Nat /\ Total(f) <= Total(g)
<1>1. /\ f[LOW] \in Nat /\ f[MEDIUM] \in Nat /\ f[HIGH] \in Nat /\ f[CRITICAL] \in Nat
      /\ g[LOW] \in Nat /\ g[MEDIUM] \in Nat /\ g[HIGH] \in Nat /\ g[CRITICAL] \in Nat
  BY SeverityCases DEF Findings
<1>2. /\ f[LOW] <= g[LOW] /\ f[MEDIUM] <= g[MEDIUM]
      /\ f[HIGH] <= g[HIGH] /\ f[CRITICAL] <= g[CRITICAL]
  BY SeverityCases
<1> QED BY <1>1, <1>2 DEF Total

LEMMA GatesAreRisks ==
    ASSUME NEW c \in Code
    PROVE  /\ Gate1(c) \in RiskLevel /\ Gate2(c) \in RiskLevel
           /\ Gate3(c) \in RiskLevel /\ Overall(c) \in RiskLevel
           /\ Gate1(c) <= Gate3(c) /\ Gate2(c) <= Gate3(c)
<1>1. Gate1(c) \in RiskLevel /\ Gate2(c) \in RiskLevel
  BY FoundAreFindings, HighestIsRisk DEF Gate1, Gate2
<1> DEFINE highest == MaxRisk(Gate1(c), Gate2(c))
<1>2. highest \in RiskLevel /\ Gate1(c) <= highest /\ Gate2(c) <= highest
  BY <1>1 DEF MaxRisk, RiskLevel, NONE, CRITICAL
<1>3. Gate3(c) \in {HIGH, highest} /\ (Gate3(c) # highest => highest < HIGH)
  BY DEF Gate3
<1>4. Gate3(c) \in RiskLevel /\ highest <= Gate3(c)
  <2> HIDE DEF highest
  <2> QED BY <1>2, <1>3 DEF RiskLevel, NONE, HIGH, CRITICAL
<1>5. Gate1(c) <= Gate3(c) /\ Gate2(c) <= Gate3(c)
  <2> HIDE DEF highest
  <2> QED BY <1>1, <1>2, <1>4 DEF RiskLevel, NONE, CRITICAL
<1>6. Overall(c) \in RiskLevel
  BY <1>1, <1>4 DEF Overall, MaxRisk
<1> QED BY <1>1, <1>4, <1>5, <1>6

\* The last gate already knows of the first ones: taking the maximum over all
\* three changes nothing, and approval is required when it does not pass.
THEOREM LastGateDecides ==
    ASSUME NEW c \in Code
    PROVE  /\ Overall(c) = Gate3(c)
           /\ RequiresApproval(c) <=> ~ Passes(Gate3(c))
<1>1. Overall(c) = Gate3(c)
  BY GatesAreRisks DEF Overall, MaxRisk, RiskLevel, NONE, CRITICAL
<1> QED
  BY <1>1, GatesAreRisks DEF RequiresApproval, Passes, RiskLevel, NONE, HIGH, CRITICAL

\* SafetyPipeline, "No gate may be bypassed": one HIGH or CRITICAL finding of a
\* gate, in a code it can read, requires an approval whatever the others say.
THEOREM NoFindingIsOutvoted ==
    ASSUME NEW c \in Code, NEW s \in {HIGH, CRITICAL}, ~ c.blank,
           \/ c.static[s] > 0 /\ c.language # "other"
           \/ c.patterns[s] > 0
    PROVE  RequiresApproval(c) /\ Overall(c) >= s
<1>1. s \in Severities
  BY SeverityCases
<1>2. StaticFindings(c)[s] > 0 \/ PatternFindings(c)[s] > 0
  BY DEF StaticFindings, PatternFindings
<1>3. s <= Gate1(c) \/ s <= Gate2(c)
  BY <1>1, <1>2, FoundAreFindings, HighestIsRisk DEF Gate1, Gate2
<1>4. s <= Gate3(c)
  BY <1>1, <1>3, GatesAreRisks DEF RiskLevel, Severities, NONE, LOW, CRITICAL
<1>5. Overall(c) = Gate3(c) /\ s \in Nat /\ Gate3(c) \in Nat
  BY <1>1, LastGateDecides, GatesAreRisks DEF RiskLevel, Severities, NONE, LOW, CRITICAL
<1> QED BY <1>4, <1>5 DEF RequiresApproval, HIGH, CRITICAL

\* A code in which more is found is never judged safer, although the last gate
\* weighs findings against lines.
THEOREM FindingsNeverHelp ==
    ASSUME NEW c \in Code, NEW d \in Code, AsRisky(c, d)
    PROVE  /\ Overall(c) <= Overall(d)
           /\ RequiresApproval(c) => RequiresApproval(d)
<1> DEFINE sc == StaticFindings(c)
           sd == StaticFindings(d)
           pc == PatternFindings(c)
           pd == PatternFindings(d)
<1>1. sc \in Findings /\ sd \in Findings /\ pc \in Findings /\ pd \in Findings
  BY FoundAreFindings
<1>2. \A s \in Severities : sc[s] <= sd[s] /\ pc[s] <= pd[s]
  BY DEF AsRisky, StaticFindings, PatternFindings, NoFindings, Severities, LOW, CRITICAL
<1>3. Gate1(c) <= Gate1(d) /\ Gate2(c) <= Gate2(d)
  BY <1>1, <1>2, HighestMonotone DEF Gate1, Gate2
<1>4. /\ {Total(sc), Total(pc), Total(sd), Total(pd)} \subseteq Nat
      /\ Total(sc) <= Total(sd) /\ Total(pc) <= Total(pd)
  <2> HIDE DEF sc, sd, pc, pd
  <2> QED BY <1>1, <1>2, TotalMonotone
<1>5. c.lines \in Nat /\ d.lines = c.lines
  BY DEF Code, AsRisky
<1>6. 2 * (Total(sc) + Total(pc)) > c.lines => 2 * (Total(sd) + Total(pd)) > d.lines
  <2> HIDE DEF sc, sd, pc, pd
  <2> QED BY <1>4, <1>5
<1>7. MaxRisk(Gate1(c), Gate2(c)) <= MaxRisk(Gate1(d), Gate2(d))
  BY <1>3, GatesAreRisks DEF MaxRisk, RiskLevel, NONE, CRITICAL
<1>8. /\ MaxRisk(Gate1(c), Gate2(c)) \in Nat
      /\ MaxRisk(Gate1(d), Gate2(d)) \in Nat
  BY GatesAreRisks DEF MaxRisk, RiskLevel, NONE, CRITICAL
<1>9. Gate3(c) <= Gate3(d)
  <2> DEFINE hc == MaxRisk(Gate1(c), Gate2(c))
             hd == MaxRisk(Gate1(d), Gate2(d))
             dense == 2 * (Total(sc) + Total(pc)) > c.lines
             denser == 2 * (Total(sd) + Total(pd)) > d.lines
  <2>1. /\ Gate3(c) = IF dense /\ hc < HIGH THEN HIGH ELSE hc
        /\ Gate3(d) = IF denser /\ hd < HIGH THEN HIGH ELSE hd
    BY DEF Gate3
  <2>2. (dense => denser) /\ hc <= hd /\ hc \in Nat /\ hd \in Nat
    BY <1>6, <1>7, <1>8
  <2> HIDE DEF hc, hd, dense, denser
  <2> QED BY <2>1, <2>2 DEF HIGH
<1>10. Overall(c) = Gate3(c) /\ Overall(d) = Gate3(d)
  BY LastGateDecides
<1> QED
  BY <1>9, <1>10, GatesAreRisks DEF RequiresApproval, RiskLevel, NONE, HIGH, CRITICAL

\* The router and the engine are two copies of one policy, and agree: what the
\* one routes to nobody, and only that, the other approves by itself.
THEOREM RouterAgreesWithEngine ==
    ASSUME NEW t \in OperationTypes, NEW e \in Environments, NEW r \in RiskLevel
    PROVE  /\ RouteAction(t, e, r) = "AUTO_APPROVE" <=> StatusOfRequest(t, e, r) = "APPROVED"
           /\ RouteAction(t, e, r) = "ESCALATE" =>
                  Approvers(r) = {"team_lead", "security_admin", "platform_admin"}
BY DEF RouteAction, StatusOfRequest, Approvers, RiskLevel, NONE, HIGH, CRITICAL

-----------------------------------------------------------------------------
(***************************************************************************)
(* The runs of the graph executor.                                         *)
(***************************************************************************)
Started == {"submitting", "asked", "over"}

Request == [code : Code, status : {"none", "PENDING", "APPROVED"}]

Work ==
    [pc : Nodes \cup Started, agent_type : KNOWN_AGENT_TYPES \cup {"none"},
     environment : Environments, code : Code, error : BOOLEAN, request : Request]

\* What the policy says of the code as it is.
Wanted(w) == StatusOfRequest(ClassifyOperationType(w), w.environment, NONE)

\* A run that stands before its deployment has just asked for it.
Asked(w) == w.request.code = w.code /\ w.request.status = Wanted(w)

Sound(w) ==
    /\ w \in Work
    /\ w.pc = "DEPLOYING" /\ ~ w.code.blank => Asked(w)

IInv == work \in [Runs -> Work] /\ \A r \in Runs : Sound(work[r])

LEMMA NoCodeIsCode == NoCode \in Code
BY DEF NoCode, Code, NoFindings

LEMMA NewWorkIsSound == Sound(NewWork)
BY NoCodeIsCode
   DEF NewWork, Sound, Work, Nodes, Environments, NoRequest, Request

\* It is enough to look at the run that moves.
LEMMA OneRunMoves ==
    ASSUME IInv, NEW r \in Runs, NEW w, Sound(w), work' = [work EXCEPT ![r] = w]
    PROVE  IInv'
BY DEF IInv, Sound

\* The routers lead to a deployment from the approval only.
LEMMA OneWayToDeploy ==
    ASSUME NEW w \in Work, w.pc \in Nodes, NEW node \in NextNodes(w.pc, w.error)
    PROVE  /\ node \in Nodes \cup Started
           /\ node = "DEPLOYING" => w.pc = "APPROVAL_PENDING"
BY DEF NextNodes, Nodes, Started

LEMMA LeavingIsSound ==
    ASSUME IInv, NEW r \in Runs, NEW w \in Work, w.pc \in Nodes, Leaves(r, w),
           w.pc = "APPROVAL_PENDING" /\ ~ w.code.blank => Asked(w)
    PROVE  IInv'
<1>1. PICK node \in NextNodes(w.pc, w.error) :
          work' = [work EXCEPT ![r] = [w EXCEPT !.pc = node]]
  BY DEF Leaves
<1>2. node \in Nodes \cup Started
      /\ (node = "DEPLOYING" => w.pc = "APPROVAL_PENDING")
  BY OneWayToDeploy
<1> DEFINE v == [w EXCEPT !.pc = node]
<1>3. /\ v \in Work /\ v.pc = node /\ v.code = w.code /\ v.request = w.request
      /\ v.environment = w.environment
  BY <1>2 DEF Work
<1> HIDE DEF v
<1>4. Asked(w) => Asked(v)
  BY <1>3 DEF Asked, Wanted, ClassifyOperationType
<1>5. Sound(v)
  BY <1>2, <1>3, <1>4 DEF Sound
<1>6. work' = [work EXCEPT ![r] = v]
  BY <1>1 DEF v
<1> QED BY <1>5, <1>6, OneRunMoves

\* A run that only goes on to another stage.
LEMMA StageMoves ==
    ASSUME IInv, NEW r \in Runs, NEW from, NEW to \in Started, Works(r, from, to)
    PROVE  IInv'
<1> DEFINE w == [work[r] EXCEPT !.pc = to]
<1>1. work' = [work EXCEPT ![r] = w]
  BY DEF Works, IInv
<1>2. work[r] \in Work
  BY DEF IInv
<1>3. w \in Work /\ w.pc # "DEPLOYING"
  BY <1>2 DEF Work, Started
<1>4. Sound(w)
  <2> HIDE DEF w
  <2> QED BY <1>3 DEF Sound
<1> QED BY <1>1, <1>4, OneRunMoves
-----------------------------------------------------------------------------
(*************************** The actions ***********************************)

\* What a node that is done comes to.
NodeStep(r) ==
    \E w \in Work :
        /\ w.pc = work[r].pc /\ w.pc \in Nodes
        /\ w.pc = "APPROVAL_PENDING" /\ ~ w.code.blank => Asked(w)
        /\ Leaves(r, w)

\* A node other than the approval only has to leave well-formed work.
LEMMA NodeIsDone ==
    ASSUME NEW r \in Runs, work[r].pc \in Nodes \ {"APPROVAL_PENDING"},
           NEW w \in Work, w.pc = work[r].pc, Leaves(r, w)
    PROVE  NodeStep(r)
BY DEF NodeStep

LEMMA RoutingDone ==
    ASSUME IInv, NEW r \in Runs, ExecuteRouting(r)
    PROVE  NodeStep(r)
<1>1. PICK explicit \in KNOWN_AGENT_TYPES \cup {"none", "fabric"},
           keyword \in CAPABILITY_TASK_TYPES \cup {"none"},
           score \in {HIGH_CONFIDENCE_THRESHOLD - 1, HIGH_CONFIDENCE_THRESHOLD},
           available \in BOOLEAN, says \in KNOWN_AGENT_TYPES \cup {"fabric"},
           fails \in BOOLEAN, environment \in Environments :
          Leaves(r, [work[r] EXCEPT
              !.environment = environment,
              !.agent_type = IF fails THEN "developer"
                             ELSE Routed(explicit, keyword, score, available, says)])
  BY DEF ExecuteRouting
<1> DEFINE routed == Routed(explicit, keyword, score, available, says)
           type == IF fails THEN "developer" ELSE routed
           w == [work[r] EXCEPT !.environment = environment, !.agent_type = type]
<1>2. type \in KNOWN_AGENT_TYPES
  <2>1. "developer" \in KNOWN_AGENT_TYPES
        /\ CAPABILITY_TASK_TYPES \subseteq KNOWN_AGENT_TYPES
    BY DEF KNOWN_AGENT_TYPES, CAPABILITY_TASK_TYPES
  <2>2. LlmRouting(available, says) # {} => says \in KNOWN_AGENT_TYPES
    BY DEF LlmRouting
  <2>3. routed \in KNOWN_AGENT_TYPES
    BY <2>1, <2>2 DEF Routed
  <2> HIDE DEF routed
  <2> QED BY <2>1, <2>3
<1> HIDE DEF type
<1>3. work[r] \in Work /\ work[r].pc = "AGENT_ASSIGNMENT"
  BY DEF IInv, ExecuteRouting
<1>4. w \in Work /\ w.pc = work[r].pc
  BY <1>2, <1>3 DEF Work
<1>5. Leaves(r, w)
  BY <1>1 DEF type
<1> HIDE DEF w
<1> QED BY <1>3, <1>4, <1>5, NodeIsDone DEF Nodes

LEMMA DirectDone ==
    ASSUME IInv, NEW r \in Runs, ExecuteDirect(r)
    PROVE  NodeStep(r)
<1>1. PICK fails \in BOOLEAN :
          Leaves(r, [work[r] EXCEPT !.error = @ \/ fails])
  BY DEF ExecuteDirect
<1> DEFINE error == work[r].error \/ fails
           w == [work[r] EXCEPT !.error = error]
<1>2. work[r] \in Work /\ work[r].pc = "IN_DEVELOPMENT"
  BY DEF IInv, ExecuteDirect
<1>3. error \in BOOLEAN
  OBVIOUS
<1>4. Leaves(r, w)
  BY <1>1, <1>2 DEF Work
<1> HIDE DEF error
<1>5. w \in Work /\ w.pc = work[r].pc
  BY <1>2, <1>3 DEF Work
<1> HIDE DEF w
<1> QED BY <1>2, <1>4, <1>5, NodeIsDone DEF Nodes

LEMMA DevelopmentDone ==
    ASSUME IInv, NEW r \in Runs, ExecuteDevelopment(r)
    PROVE  NodeStep(r)
<1> DEFINE w == [work[r] EXCEPT !.agent_type = "none"]
<1>1. work[r] \in Work /\ work[r].pc = "IN_DEVELOPMENT"
  BY DEF IInv, ExecuteDevelopment
<1>2. w \in Work /\ w.pc = work[r].pc
  BY <1>1 DEF Work
<1>3. \/ \E code \in Codes \cup {w.code} : Leaves(r, [w EXCEPT !.code = code])
      \/ \E error \in BOOLEAN : Leaves(r, [w EXCEPT !.error = error])
  BY DEF ExecuteDevelopment
<1> HIDE DEF w
<1>4. CASE \E code \in Codes \cup {w.code} : Leaves(r, [w EXCEPT !.code = code])
  <2>1. PICK code \in Codes \cup {w.code} : Leaves(r, [w EXCEPT !.code = code])
    BY <1>4
  <2> DEFINE v == [w EXCEPT !.code = code]
  <2>2. code \in Code
    BY <1>2, GraphExecutorAssumption DEF Work
  <2>3. v \in Work /\ v.pc = work[r].pc
    BY <1>2, <2>2 DEF Work
  <2>4. Leaves(r, v)
    BY <2>1
  <2> HIDE DEF v
  <2> QED BY <1>1, <2>3, <2>4, NodeIsDone DEF Nodes
<1>5. CASE \E error \in BOOLEAN : Leaves(r, [w EXCEPT !.error = error])
  <2>1. PICK error \in BOOLEAN : Leaves(r, [w EXCEPT !.error = error])
    BY <1>5
  <2> DEFINE v == [w EXCEPT !.error = error]
  <2>2. v \in Work /\ v.pc = work[r].pc
    BY <1>2 DEF Work
  <2>3. Leaves(r, v)
    BY <2>1
  <2> HIDE DEF v
  <2> QED BY <1>1, <2>2, <2>3, NodeIsDone DEF Nodes
<1> QED BY <1>3, <1>4, <1>5

LEMMA ValidationDone ==
    ASSUME IInv, NEW r \in Runs, ExecuteValidation(r)
    PROVE  NodeStep(r)
<1>1. PICK error \in BOOLEAN : Leaves(r, [work[r] EXCEPT !.error = error])
  BY DEF ExecuteValidation
<1> DEFINE w == [work[r] EXCEPT !.error = error]
<1>2. work[r] \in Work /\ work[r].pc = "IN_VALIDATION"
  BY DEF IInv, ExecuteValidation
<1>3. w \in Work /\ w.pc = work[r].pc
  BY <1>2 DEF Work
<1>4. Leaves(r, w)
  BY <1>1
<1> HIDE DEF w
<1> QED BY <1>2, <1>3, <1>4, NodeIsDone DEF Nodes

LEMMA OptimizationDone ==
    ASSUME IInv, NEW r \in Runs, ExecuteOptimization(r)
    PROVE  NodeStep(r)
<1>1. PICK code \in Codes \cup {work[r].code} :
          Leaves(r, [work[r] EXCEPT !.code = code])
  BY DEF ExecuteOptimization
<1> DEFINE w == [work[r] EXCEPT !.code = code]
<1>2. work[r] \in Work /\ work[r].pc = "IN_OPTIMIZATION"
  BY DEF IInv, ExecuteOptimization
<1>3. code \in Code
  BY <1>2, GraphExecutorAssumption DEF Work
<1>4. w \in Work /\ w.pc = work[r].pc
  BY <1>2, <1>3 DEF Work
<1>5. Leaves(r, w)
  BY <1>1
<1> HIDE DEF w
<1> QED BY <1>2, <1>4, <1>5, NodeIsDone DEF Nodes

\* The request is made for the code as it is, and nothing changes it before
\* the deployment.
LEMMA RequestDone ==
    ASSUME IInv, NEW r \in Runs, RequestApproval(r)
    PROVE  NodeStep(r)
<1>1. work[r] \in Work /\ work[r].pc = "APPROVAL_PENDING"
  BY DEF IInv, RequestApproval
<1>2. CASE work[r].code.blank
  <2>1. Leaves(r, work[r])
    BY <1>2 DEF RequestApproval
  <2> QED BY <1>1, <1>2, <2>1 DEF Nodes, NodeStep
<1>3. CASE ~ work[r].code.blank
  <2> DEFINE request == [code |-> work[r].code, status |-> Wanted(work[r])]
             w == [work[r] EXCEPT !.request = request]
  <2>1. Leaves(r, w)
    BY <1>3 DEF RequestApproval, Wanted
  <2>2. Wanted(work[r]) \in {"PENDING", "APPROVED"}
    BY DEF Wanted, StatusOfRequest
  <2>3. request \in Request
    BY <1>1, <2>2 DEF Work, Request
  <2>4. request.code = work[r].code /\ request.status = Wanted(work[r])
    OBVIOUS
  <2> HIDE DEF request
  <2>5. /\ w \in Work /\ w.pc = "APPROVAL_PENDING" /\ w.code = work[r].code
        /\ w.environment = work[r].environment /\ w.request = request
    BY <1>1, <2>3 DEF Work
  <2> HIDE DEF w
  <2>6. Asked(w)
    BY <2>4, <2>5 DEF Asked, Wanted, ClassifyOperationType
  <2> QED BY <1>1, <2>1, <2>5, <2>6 DEF Nodes, NodeStep
<1> QED BY <1>2, <1>3

LEMMA SkippingDone ==
    ASSUME IInv, NEW r \in Runs, SkipDeployment(r)
    PROVE  NodeStep(r)
<1>1. /\ work[r] \in Work /\ work[r].pc = "DEPLOYING"
      /\ Leaves(r, work[r])
  BY DEF IInv, SkipDeployment
<1> QED BY <1>1, NodeIsDone DEF Nodes

NodeActions(r) ==
    \/ ExecuteRouting(r) \/ ExecuteDirect(r) \/ ExecuteDevelopment(r)
    \/ ExecuteValidation(r) \/ ExecuteOptimization(r) \/ RequestApproval(r)
    \/ SkipDeployment(r)

LEMMA NodesAreDone ==
    ASSUME IInv, NEW r \in Runs, NodeActions(r)
    PROVE  NodeStep(r) /\ Offline
<1>1. Offline
  BY DEF NodeActions, ExecuteRouting, ExecuteDirect, ExecuteDevelopment,
         ExecuteValidation, ExecuteOptimization, RequestApproval, SkipDeployment
<1>2. NodeStep(r)
  BY RoutingDone, DirectDone, DevelopmentDone, ValidationDone, OptimizationDone,
     RequestDone, SkippingDone DEF NodeActions
<1> QED BY <1>1, <1>2

LEMMA NodeStepSound ==
    ASSUME IInv, NEW r \in Runs, NodeStep(r)
    PROVE  IInv'
BY LeavingIsSound DEF NodeStep

\* No router leads to the inside of execute_on_platform.
LEMMA NodeStepSubmitsNothing ==
    ASSUME IInv, NEW r \in Runs, NodeStep(r)
    PROVE  /\ work[r].pc \notin Started
           /\ \E w : work' = [work EXCEPT ![r] = w] /\ w.pc # "submitting"
<1>1. PICK w \in Work : w.pc = work[r].pc /\ w.pc \in Nodes /\ Leaves(r, w)
  BY DEF NodeStep
<1>2. PICK node \in NextNodes(w.pc, w.error) :
          work' = [work EXCEPT ![r] = [w EXCEPT !.pc = node]]
  BY <1>1 DEF Leaves
<1>3. node # "submitting"
  BY <1>1, <1>2 DEF NextNodes, Nodes
<1>4. [w EXCEPT !.pc = node].pc = node
  BY <1>1 DEF Work
<1>5. work[r].pc \notin Started
  BY <1>1 DEF Nodes, Started
<1> QED BY <1>2, <1>3, <1>4, <1>5

LEMMA ExecutionSound ==
    ASSUME IInv, NEW r \in Runs, ExecuteOnPlatform(r)
    PROVE  IInv'
<1> DEFINE w == [NewWork EXCEPT !.pc = "submitting"]
<1>1. work' = [work EXCEPT ![r] = w]
  BY DEF ExecuteOnPlatform
<1>2. NewWork \in Work
  BY NewWorkIsSound DEF Sound
<1>3. w \in Work /\ w.pc = "submitting"
  BY <1>2 DEF Work, Started
<1>4. Sound(w)
  <2> HIDE DEF w
  <2> QED BY <1>3 DEF Sound
<1> QED BY <1>1, <1>4, OneRunMoves

LEMMA StatusSound ==
    ASSUME IInv, NEW r \in Runs, AskStatus(r)
    PROVE  IInv'
<1>1. PICK to \in {"over", "asked"} : Works(r, "submitting", to)
  <2>1. CASE reply'.status = "raised"
    BY <2>1 DEF AskStatus, Works
  <2>2. CASE reply'.status # "raised"
    BY <2>2 DEF AskStatus, Works
  <2> QED BY <2>1, <2>2
<1> QED BY <1>1, StageMoves DEF Started

LEMMA OutputSound ==
    ASSUME IInv, NEW r \in Runs, AskOutput(r)
    PROVE  IInv'
<1>1. PICK to \in {"asked", "over"} : Works(r, "asked", to)
  <2>1. CASE reply' = Nothing
    BY <2>1 DEF AskOutput, Works
  <2>2. CASE reply' # Nothing
    BY <2>2 DEF AskOutput, Works
  <2> QED BY <2>1, <2>2
<1> QED BY <1>1, StageMoves DEF Started
-----------------------------------------------------------------------------
(*************************** The theorem ***********************************)

LEMMA InitSound == StartWork => IInv
BY NewWorkIsSound DEF StartWork, IInv, Sound

LEMMA RunStepSound ==
    ASSUME IInv, NEW r \in Runs, RunStep(r)
    PROVE  IInv'
<1>1. CASE NodeActions(r)
  BY <1>1, NodesAreDone, NodeStepSound
<1>2. CASE NodeRaises(r)
  BY <1>2, StageMoves DEF NodeRaises, Started
<1>3. CASE ExecuteOnPlatform(r)
  BY <1>3, ExecutionSound
<1>4. CASE AskStatus(r)
  BY <1>4, StatusSound
<1>5. CASE AskOutput(r)
  BY <1>5, OutputSound
<1>6. CASE GiveUp(r)
  BY <1>6, StageMoves DEF GiveUp, Started
<1> QED BY <1>1, <1>2, <1>3, <1>4, <1>5, <1>6 DEF RunStep, NodeActions

\* Only execute_on_platform submits, and only code.
LEMMA SubmissionsHaveCode ==
    ASSUME IInv, NEW r \in Runs, work[r].pc = "DEPLOYING",
           work'[r].pc = "submitting", NEW q \in Runs, RunStep(q)
    PROVE  ~ work[r].code.blank
<1>1. ASSUME NEW w, work' = [work EXCEPT ![q] = w], w.pc # "submitting"
      PROVE  FALSE
  BY <1>1 DEF IInv
<1>2. CASE NodeActions(q)
  BY <1>1, <1>2, NodesAreDone, NodeStepSubmitsNothing
<1>3. CASE ExecuteOnPlatform(q)
  <2>1. q = r
    BY <1>3 DEF ExecuteOnPlatform, IInv
  <2> QED BY <1>3, <2>1 DEF ExecuteOnPlatform
<1>4. ASSUME NEW to \in {"over", "asked"}, work' = [work EXCEPT ![q].pc = to]
      PROVE  FALSE
  <2>1. work[q] \in Work
    BY DEF IInv
  <2> DEFINE w == [work[q] EXCEPT !.pc = to]
  <2>2. w.pc = to /\ work' = [work EXCEPT ![q] = w]
    BY <1>4, <2>1 DEF Work, IInv
  <2> HIDE DEF w
  <2> QED BY <1>1, <2>2
<1>5. CASE NodeRaises(q) \/ GiveUp(q)
  BY <1>4, <1>5 DEF NodeRaises, GiveUp, Works
<1>6. CASE AskStatus(q)
  <2>1. \E to \in {"over", "asked"} : work' = [work EXCEPT ![q].pc = to]
    BY <1>6 DEF AskStatus
  <2> QED BY <1>4, <2>1
<1>7. CASE AskOutput(q)
  <2>1. \E to \in {"over", "asked"} : work' = [work EXCEPT ![q].pc = to]
    BY <1>7 DEF AskOutput
  <2> QED BY <1>4, <2>1
<1> QED BY <1>2, <1>3, <1>5, <1>6, <1>7 DEF RunStep, NodeActions

LEMMA NextSound == IInv /\ [Next]_allVars => IInv'
<1> SUFFICES ASSUME IInv, [Next]_allVars PROVE IInv'
  OBVIOUS
<1>1. CASE \E r \in Runs : RunStep(r)
  BY <1>1, RunStepSound
<1>2. CASE UNCHANGED work
  BY <1>2 DEF IInv
<1> QED BY <1>1, <1>2 DEF Next, allVars

\* A destructive token makes the operation destructive, and production makes
\* it at least a write: both have to wait for a human.
LEMMA PolicyWantsAHuman ==
    ASSUME NEW w \in Work, w.code.destructive \/ w.environment = "PRODUCTION"
    PROVE  Wanted(w) = "PENDING"
BY DEF Wanted, StatusOfRequest, PolicyWantsApproval, ClassifyOperationType

\* Whoever else uses the clients, whatever the agents and the platforms do, and
\* whatever rounds of rework there are: what a run submits is the code its
\* latest request was made for, and a request for destructive code or for
\* production waits for a human.
THEOREM SubmittedAsRequested == Spec => SubmitsWhatWasRequested
<1>1. ASSUME IInv, [Next]_allVars
      PROVE  [\A r \in Runs :
                work[r].pc = "DEPLOYING" /\ work'[r].pc = "submitting" =>
                    /\ work[r].request.code = work[r].code
                    /\ work[r].code.destructive \/ work[r].environment = "PRODUCTION"
                           => work[r].request.status = "PENDING"]_allVars
  <2> SUFFICES ASSUME NEW r \in Runs, work[r].pc = "DEPLOYING",
                      work'[r].pc = "submitting", Next
               PROVE  /\ work[r].request.code = work[r].code
                      /\ work[r].code.destructive \/ work[r].environment = "PRODUCTION"
                             => work[r].request.status = "PENDING"
    BY <1>1
  <2>1. ~ work[r].code.blank
    BY <1>1, SubmissionsHaveCode DEF Next
  <2>2. Asked(work[r]) /\ work[r] \in Work
    BY <1>1, <2>1 DEF IInv, Sound
  <2> QED BY <2>2, PolicyWantsAHuman DEF Asked
<1>2. Spec => []IInv
  BY InitSound, NextSound, PTL DEF Spec
<1> QED BY <1>1, <1>2, PTL DEF Spec, SubmitsWhatWasRequested
-----------------------------------------------------------------------------
(************************ What the callers are told ************************)

\* A run has nothing to do with a platform before it executes.
RunsAreIdle ==
    \A r \in Runs : work[r].pc \notin Started => call[r].pc = "idle"

GInv == JInv /\ ReplyTrue /\ RunsAreIdle

LEMMA RunsAreCalls == ASSUME NEW r \in Runs PROVE r \in Calls
BY GraphExecutorAssumption

LEMMA InitTold == StartWork => GInv
<1> SUFFICES ASSUME StartWork PROVE GInv
  OBVIOUS
<1>1. NoJob \in Job /\ Idle \in Local /\ Idle.pc = "idle"
  BY DEF NoJob, Job, JobStates, Idle, Local
<1>2. [exists |-> FALSE, code |-> Nobody, pending |-> {}] \in Item
  BY DEF Item
<1>3. /\ job \in [Calls -> Job] /\ call \in [Calls -> Local]
      /\ told \in [Calls -> SUBSET Final] /\ notebook \in [Names -> Item]
  BY <1>1, <1>2 DEF StartWork, Init
<1>4. ASSUME NEW c \in Calls
      PROVE  LocalsFit(call[c], job[c]) /\ ToldFits(told[c], call[c], job[c])
  <2>1. call[c].pc = "idle" /\ told[c] = {}
    BY <1>1 DEF StartWork, Init
  <2> QED BY <2>1 DEF LocalsFit, ToldFits, OnNotebook
<1>5. RunsAreIdle
  BY <1>1, RunsAreCalls DEF StartWork, Init, RunsAreIdle
<1> QED BY <1>3, <1>4, <1>5 DEF GInv, JInv, ReplyTrue, StartWork, Init

\* A step of the clients that leaves the runs alone.
LEMMA ClientStep ==
    ASSUME GInv, UNCHANGED work, JInv' /\ ReplyTrue' /\ IdleStays
    PROVE  GInv'
BY RunsAreCalls DEF GInv, RunsAreIdle, IdleStays

\* Another call begins: a run's own call is none of those.
LEMMA OtherBegins ==
    ASSUME GInv, NEW c \in Calls \ Runs, Begin(c), UNCHANGED work
    PROVE  GInv'
<1>1. /\ JInv' /\ ReplyTrue'
      /\ \A d \in Calls \ {c} : call[d].pc = "idle" => call'[d].pc = "idle"
  BY BeginTrue DEF GInv
<1>2. \A r \in Runs : r \in Calls \ {c}
  BY RunsAreCalls
<1> QED BY <1>1, <1>2 DEF GInv, RunsAreIdle

\* Routing, reviews and decisions touch no platform.
LEMMA OfflineStep ==
    ASSUME GInv, IInv, NEW r \in Runs, Offline, NEW w,
           work' = [work EXCEPT ![r] = w],
           work[r].pc \notin Started \/ w.pc \in Started
    PROVE  GInv'
<1>1. JInv' /\ ReplyTrue'
  BY DEF GInv, JInv, ReplyTrue, Offline
<1>2. RunsAreIdle'
  BY DEF GInv, IInv, RunsAreIdle, Offline
<1> QED BY <1>1, <1>2 DEF GInv

\* A run that asks has begun and stays so.
LEMMA AskingStep ==
    ASSUME GInv, IInv, NEW r \in Runs, JInv' /\ ReplyTrue' /\ IdleStays,
           NEW to \in Started, work' = [work EXCEPT ![r].pc = to]
    PROVE  GInv'
<1>1. work[r] \in Work
  BY DEF IInv
<1>2. work'[r].pc = to
  BY <1>1 DEF IInv, Work
<1>3. \A q \in Runs \ {r} : work'[q] = work[q]
  BY DEF IInv
<1> QED BY <1>2, <1>3, RunsAreCalls DEF GInv, RunsAreIdle, IdleStays

LEMMA ExecutionTold ==
    ASSUME GInv, IInv, NEW r \in Runs, ExecuteOnPlatform(r)
    PROVE  GInv'
<1>1. r \in Calls /\ call[r].pc = "idle" /\ JInv
  BY RunsAreCalls DEF ExecuteOnPlatform, GInv, RunsAreIdle, Started
<1>2. PICK p \in {"databricks", "fabric"} :
          IF p = "fabric"
          THEN \E n \in Names : Submit(r, p, Language(work[r].code), n, TRUE)
          ELSE Submit(r, p, Language(work[r].code), Nobody, TRUE)
  BY DEF ExecuteOnPlatform
<1>3. PICK n \in Names \cup {Nobody} :
          /\ p = "fabric" => n \in Names
          /\ Submit(r, p, Language(work[r].code), n, TRUE)
  BY <1>2
<1>4. p \in Platforms
  BY DEF Platforms
<1>5. /\ JInv' /\ ReplyTrue'
      /\ \A d \in Calls \ {r} : call[d].pc = "idle" => call'[d].pc = "idle"
  BY <1>1, <1>3, <1>4, SubmitTrue
<1>6. work'[r].pc \in Started /\ \A q \in Runs \ {r} : work'[q] = work[q]
  BY DEF ExecuteOnPlatform, IInv, NewWork, Started
<1>7. RunsAreIdle'
  BY <1>5, <1>6, RunsAreCalls DEF GInv, RunsAreIdle
<1> QED BY <1>5, <1>7 DEF GInv

LEMMA RunStepTold ==
    ASSUME GInv, IInv, NEW r \in Runs, RunStep(r)
    PROVE  GInv'
<1>1. CASE NodeActions(r)
  <2>1. /\ work[r].pc \notin Started /\ Offline
        /\ \E w : work' = [work EXCEPT ![r] = w]
    BY <1>1, NodesAreDone, NodeStepSubmitsNothing
  <2> QED BY <2>1, OfflineStep
<1>2. CASE NodeRaises(r) \/ GiveUp(r)
  <2> DEFINE w == [work[r] EXCEPT !.pc = "over"]
  <2>1. work[r] \in Work
    BY DEF IInv
  <2>2. work' = [work EXCEPT ![r] = w] /\ w.pc \in Started /\ Offline
    BY <1>2, <2>1 DEF NodeRaises, GiveUp, Works, IInv, Work, Started
  <2> HIDE DEF w
  <2> QED BY <2>2, OfflineStep
<1>3. CASE ExecuteOnPlatform(r)
  BY <1>3, ExecutionTold
<1>4. CASE AskStatus(r)
  <2>1. JInv' /\ ReplyTrue' /\ IdleStays
    BY <1>4, GetJobStatusTrue, RunsAreCalls DEF AskStatus, GInv
  <2>2. PICK to \in Started : work' = [work EXCEPT ![r].pc = to]
    BY <1>4 DEF AskStatus, Started
  <2>3. work[r].pc \in Started
    BY <1>4 DEF AskStatus, Started
  <2> QED BY <2>1, <2>2, <2>3, AskingStep
<1>5. CASE AskOutput(r)
  <2>1. JInv' /\ ReplyTrue' /\ IdleStays
    BY <1>5, AskForOutputTrue, PollForOutputTrue, ReadResultsTrue, RunsAreCalls
       DEF AskOutput, GInv
  <2>2. PICK to \in Started : work' = [work EXCEPT ![r].pc = to]
    BY <1>5 DEF AskOutput, Started
  <2> QED BY <2>1, <2>2, AskingStep
<1> QED BY <1>1, <1>2, <1>3, <1>4, <1>5 DEF RunStep, NodeActions

LEMMA SubmitsTold ==
    ASSUME GInv, NEW c \in Calls, Submits(c) \/ JobProceeds(c), UNCHANGED work
    PROVE  GInv'
<1>1. JInv
  BY DEF GInv
<1>2. JInv' /\ ReplyTrue' /\ IdleStays
  <2>1. CASE JobProceeds(c)
    BY <1>1, <2>1, JobProceedsTrue
  <2>2. CASE StatementReturns(c)
    BY <1>1, <2>2, StatementReturnsTrue
  <2>3. CASE CreateContext(c)
    BY <1>1, <2>3, CreateContextTrue
  <2>4. CASE ExecuteCommand(c)
    BY <1>1, <2>4, ExecuteCommandTrue
  <2>5. CASE CreateNotebook(c)
    BY <1>1, <2>5, CreateNotebookTrue
  <2>6. CASE FindNotebook(c)
    BY <1>1, <2>6, FindNotebookTrue
  <2>7. CASE UpdateNotebook(c)
    BY <1>1, <2>7, UpdateNotebookTrue
  <2>8. CASE RunNotebook(c)
    BY <1>1, <2>8, RunNotebookTrue
  <2>9. CASE SubmissionFails(c)
    BY <1>1, <2>9, SubmissionFailsTrue
  <2> QED BY <2>1, <2>2, <2>3, <2>4, <2>5, <2>6, <2>7, <2>8, <2>9 DEF Submits
<1> QED BY <1>2, ClientStep

LEMMA OthersTold ==
    ASSUME GInv, NEW c \in Calls \ Runs, OthersAsk(c), UNCHANGED work
    PROVE  GInv'
<1>1. CASE Begin(c)
  BY <1>1, OtherBegins
<1>2. CASE ~ Begin(c)
  <2>1. JInv /\ c \in Calls
    BY DEF GInv
  <2>2. JInv' /\ ReplyTrue' /\ IdleStays
    BY <1>2, <2>1, GetJobStatusTrue, GetMockStatusTrue, AskForOutputTrue,
       ReadResultsTrue, PollForOutputTrue DEF OthersAsk
  <2> QED BY <2>2, ClientStep
<1> QED BY <1>1, <1>2

LEMMA NextTold == GInv /\ IInv /\ [Next]_allVars => GInv'
<1> SUFFICES ASSUME GInv, IInv, [Next]_allVars PROVE GInv'
  OBVIOUS
<1>1. CASE \E r \in Runs : RunStep(r)
  BY <1>1, RunStepTold
<1>2. CASE (\E c \in Calls : Submits(c) \/ JobProceeds(c)) /\ UNCHANGED work
  BY <1>2, SubmitsTold
<1>3. CASE (\E c \in Calls \ Runs : OthersAsk(c)) /\ UNCHANGED work
  BY <1>3, OthersTold
<1>4. CASE (\E n \in Names : DefinitionApplied(n)) /\ UNCHANGED work
  <2>1. JInv' /\ ReplyTrue' /\ IdleStays
    BY <1>4, DefinitionAppliedTrue DEF GInv
  <2> QED BY <1>4, <2>1, ClientStep
<1>5. CASE UNCHANGED allVars
  BY <1>5 DEF allVars, vars, GInv, JInv, ReplyTrue, RunsAreIdle
<1> QED BY <1>1, <1>2, <1>3, <1>4, <1>5 DEF Next

LEMMA ToldInvariant == Spec => []GInv
<1>1. Spec => []IInv
  BY InitSound, NextSound, PTL DEF Spec
<1> QED BY <1>1, InitTold, NextTold, PTL DEF Spec

\* Whatever fails and whoever asks whom: a final status that a client reports
\* is the one the job has on its platform, but for a command's FAILED that is a
\* failed request, and the output comes from code that ran to its end.
THEOREM AnswersStayTrue == Spec => []AnswersAreTrue
<1>1. GInv => AnswersAreTrue
  BY DEF GInv, ReplyTrue, IsTrue, Shows, AnswersAreTrue
<1> QED BY <1>1, ToldInvariant, PTL

\* Nobody is told two ends of one job, but for that FAILED.
THEOREM NothingIsTakenBack == Spec => []NeverTakenBack
<1>1. GInv => NeverTakenBack
  <2> SUFFICES ASSUME GInv, NEW c \in Calls, Cardinality(told[c]) > 1
               PROVE  /\ job[c].api = "command"
                      /\ told[c] \in {{"FAILED", "SUCCESS"}, {"FAILED", "CANCELLED"}}
    BY DEF NeverTakenBack
  <2>1. told[c] \subseteq Final
    BY DEF GInv, JInv
  <2>2. \A s \in told[c] : Shows(s, job[c], job[c].api = "command")
    BY DEF GInv, JInv, ToldFits
  <2>3. ~ ("SUCCESS" \in told[c] /\ "CANCELLED" \in told[c])
    BY <2>2 DEF Shows, Succeeded
  <2>4. ASSUME NEW s \in Final, told[c] = {} \/ told[c] = {s} PROVE FALSE
    <3>1. Cardinality({}) = 0 /\ Cardinality({s}) = 1
      BY FS_EmptySet, FS_Singleton
    <3>2. Cardinality(told[c]) \in {0, 1}
      BY <2>4, <3>1
    <3> QED BY <3>2
  <2>5. told[c] \in {{"FAILED", "SUCCESS"}, {"FAILED", "CANCELLED"}}
    <3>1. "FAILED" \in told[c] /\ ("SUCCESS" \in told[c] \/ "CANCELLED" \in told[c])
      BY <2>1, <2>3, <2>4 DEF Final
    <3>2. CASE "SUCCESS" \in told[c]
      <4>1. told[c] = {"FAILED", "SUCCESS"}
        BY <2>1, <2>3, <3>1, <3>2 DEF Final
      <4> QED BY <4>1
    <3>3. CASE "CANCELLED" \in told[c]
      <4>1. told[c] = {"FAILED", "CANCELLED"}
        BY <2>1, <2>3, <3>1, <3>3 DEF Final
      <4> QED BY <4>1
    <3> QED BY <3>1, <3>2, <3>3
  <2>6. job[c].api = "command"
    BY <2>2, <2>5 DEF Shows, Succeeded
  <2> QED BY <2>5, <2>6
<1> QED BY <1>1, ToldInvariant, PTL
-----------------------------------------------------------------------------
(************************ Whose code the jobs run **************************)

LEMMA InitOwn == StartWork => OwnCode
<1>1. Idle.pc \notin OnNotebook
  BY DEF Idle, OnNotebook
<1> QED BY <1>1 DEF StartWork, Init, OwnCode

LEMMA NextOwn ==
    ASSUME GInv, OwnCode, [Next]_allVars
    PROVE  OwnCode' /\ \A c \in Calls : OwnJob(c)
<1> USE DEF GInv
<1>1. CASE Effect
  BY <1>1, EffectOwn
<1>2. ASSUME UNCHANGED <<job, notebook, call>> PROVE Effect
  BY <1>2 DEF Effect, NotebooksKept, Advances, RunsCode
<1>3. ASSUME NEW r \in Runs, RunStep(r) PROVE OwnCode' /\ \A c \in Calls : OwnJob(c)
  <2>1. r \in Calls
    BY RunsAreCalls
  <2>2. CASE Offline
    BY <1>1, <1>2, <2>2 DEF Offline
  <2>3. CASE ExecuteOnPlatform(r)
    <3>1. call[r].pc = "idle"
      BY <2>3 DEF ExecuteOnPlatform, RunsAreIdle, Started
    <3>2. PICK p \in {"databricks", "fabric"} : \E n \in Names \cup {Nobody} :
              Submit(r, p, Language(work[r].code), n, TRUE)
      BY <2>3 DEF ExecuteOnPlatform
    <3>3. p \in Platforms
      BY DEF Platforms
    <3> QED BY <2>1, <3>1, <3>2, <3>3, SubmitOwn
  <2>4. CASE AskStatus(r) \/ AskOutput(r)
    BY <1>1, <2>1, <2>4, AskingEffect DEF AskStatus, AskOutput
  <2> QED
    BY <1>3, <2>2, <2>3, <2>4
       DEF RunStep, ExecuteRouting, ExecuteDirect, ExecuteDevelopment,
           ExecuteValidation, ExecuteOptimization, RequestApproval, SkipDeployment,
           NodeRaises, GiveUp
<1>4. ASSUME NEW c \in Calls, Submits(c) \/ JobProceeds(c)
      PROVE  Effect
  BY <1>4, SubmitsEffect, SubmissionFailsEffect, PlatformEffect DEF Submits
<1>5. ASSUME NEW c \in Calls, OthersAsk(c)
      PROVE  OwnCode' /\ \A d \in Calls : OwnJob(d)
  BY <1>1, <1>5, BeginOwn, AskingEffect DEF OthersAsk
<1>6. ASSUME NEW n \in Names, DefinitionApplied(n) PROVE Effect
  BY <1>6, PlatformEffect
<1>7. CASE UNCHANGED allVars
  BY <1>1, <1>2, <1>7 DEF allVars, vars
<1> QED BY <1>1, <1>3, <1>4, <1>5, <1>6, <1>7 DEF Next

\* A Fabric job runs the code it was submitted with, however many submissions
\* there are and whatever fails, unless another submission for the notebook
\* overlapped this one or a definition that was only accepted came late.
THEOREM JobsRunTheirCode == Spec => RunsItsOwnCode
<1>1. ASSUME GInv, OwnCode, [Next]_allVars
      PROVE  [\A c \in Calls :
                job'[c].code \notin {c, Nobody} /\ job[c] = NoJob =>
                    /\ call[c].platform = "fabric"
                    /\ call[c].shared \/ call[c].unsettled]_allVars
  BY <1>1, NextOwn DEF OwnJob
<1>2. GInv /\ OwnCode /\ [Next]_allVars => OwnCode'
  BY NextOwn
<1>3. Spec => []OwnCode
  BY <1>2, InitOwn, ToldInvariant, PTL DEF Spec
<1> QED BY <1>1, <1>3, ToldInvariant, PTL DEF Spec, RunsItsOwnCode
=============================================================================
