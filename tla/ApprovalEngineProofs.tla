------------------------ MODULE ApprovalEngineProofs ------------------------
(***************************************************************************)
(* INV-01 for one approval request, proved for any number of processes,    *)
(* calls and restarts.                                                     *)
(*                                                                         *)
(* INV-01 holds whatever the caches say: APPROVED enters the row or the    *)
(* task only by policy, or with a call that is writing its verdict down,   *)
(* and such a call has passed the PENDING check.  What needs care is that  *)
(* a call, once made, keeps its verdict.                                   *)
(*                                                                         *)
(* That an approval is decided once, and that the task follows it, rests   *)
(* on the caches, and holds while one process decides.                     *)
(***************************************************************************)
EXTENDS ApprovalEngine, TLAPS

FollowingUp == {"sync", "review", "conclude", "commit"}
Writing == FollowingUp \cup {"update"}

\* Whoever writes has decided, and whoever has decided has called.  Only the
\* routes follow up, and they do not let approvals expire.
Bookkeeping ==
    \A c \in Clients :
        /\ pc[c] \in Writing => c \in decided
        /\ c \in decided => pc[c] # "idle" /\ verdict[c] \in Decisions
        /\ pc[c] \in FollowingUp => verdict[c] # "EXPIRED"

Granted == \E c \in decided : verdict[c] = "APPROVED"

\* Until the request there is nothing to approve.
NothingYet ==
    row = Absent =>
        /\ operation = NoOperation /\ task = "OPTIMIZED" /\ resumed = Absent
        /\ \A c \in Clients : pc[c] = "idle"

\* After it, approval is by policy or by a call.
ApprovedByRight ==
    "APPROVED" \in {row, task, resumed} => Granted \/ ~ RequiresApproval(operation)

IInv == TypeOK /\ Bookkeeping /\ NothingYet /\ ApprovedByRight

-----------------------------------------------------------------------------
\* The policy demands approval wherever the matrix does.
LEMMA PolicyCoversMatrix ==
    ASSUME NEW op,
           \/ <<op.environment, op.operation_type>> \in MatrixDemandsApproval
           \/ op.flagged
    PROVE  RequiresApproval(op)
BY DEF MatrixDemandsApproval, RequiresApproval

\* A status is not the mark for no record.
LEMMA NoStatus == Absent \notin Status
BY DEF Absent, Status, Decisions

\* Before anything is requested.
LEMMA InitIInv == Init => IInv
<1> SUFFICES ASSUME Init PROVE IInv
  OBVIOUS
<1>1. TypeOK
  <2>1. restarts \in 0 .. MaxRestarts
    BY ApprovalEngineAssumption DEF Init
  <2>2. operation \in Operations \cup {NoOperation}
    BY DEF Init
  <2>3. /\ row \in Status \cup {Absent}
        /\ cache \in [Engines -> Status \cup {Absent}]
        /\ local \in [Clients -> Status]
        /\ verdict \in [Clients -> Verdicts]
    BY DEF Init, Status, Verdicts
  <2> QED BY <2>1, <2>2, <2>3 DEF Init, TypeOK
<1>2. Bookkeeping /\ NothingYet /\ ApprovedByRight
  BY DEF Init, Bookkeeping, NothingYet, ApprovedByRight, Writing, FollowingUp,
         Absent
<1> QED BY <1>1, <1>2 DEF IInv

\* A request is approved at once only if policy lets it.
LEMMA RequestKeeps ==
    ASSUME IInv, NEW op \in Operations, Request(op)
    PROVE  IInv'
<1>1. /\ row = Absent /\ operation' = op
      /\ row' = IF RequiresApproval(op) THEN "PENDING" ELSE "APPROVED"
      /\ cache' = [cache EXCEPT ![home] =
                      IF RequiresApproval(op) THEN "PENDING" ELSE "APPROVED"]
      /\ UNCHANGED <<home, resumed, task, pc, engine, verdict, local, answer, decided,
                     history>>
  BY DEF Request
<1>2. TypeOK'
  BY <1>1 DEF IInv, TypeOK, Status, Decisions, history
<1>3. Bookkeeping'
  BY <1>1 DEF IInv, Bookkeeping
<1>4. task = "OPTIMIZED" /\ resumed = Absent
  BY <1>1 DEF IInv, NothingYet
<1>5. NothingYet' /\ ApprovedByRight'
  BY <1>1, <1>4 DEF NothingYet, ApprovedByRight, RequiresApproval, Absent
<1> QED BY <1>2, <1>3, <1>5 DEF IInv

\* A resumed run reads what the row says.
LEMMA ResumeKeeps == IInv /\ Resume => IInv'
<1> SUFFICES ASSUME IInv, Resume PROVE IInv'
  OBVIOUS
<1>1. /\ row \in {"APPROVED", "REJECTED"} /\ resumed' = row
      /\ UNCHANGED <<operation, home, row, cache, task, pc, engine, verdict,
                     local, answer, decided, overlapped, restarts>>
  BY DEF Resume, history
<1>2. TypeOK'
  BY <1>1 DEF IInv, TypeOK
<1>3. Bookkeeping' /\ NothingYet'
  BY <1>1 DEF IInv, Bookkeeping, NothingYet, Absent
<1>4. ApprovedByRight'
  BY <1>1 DEF IInv, ApprovedByRight, Granted, RequiresApproval
<1> QED BY <1>2, <1>3, <1>4 DEF IInv

\* The service walks the task into APPROVED only when policy approved it, or a
\* resumed run has read so in the row.
LEMMA ServiceKeeps == IInv /\ ServiceAdvances => IInv'
<1> SUFFICES ASSUME IInv, ServiceAdvances PROVE IInv'
  OBVIOUS
<1>1. /\ row # Absent
      /\ UNCHANGED <<operation, home, resumed, row, cache, pc, engine, verdict, local,
                     answer, decided, overlapped, restarts>>
  BY DEF ServiceAdvances, request, history
<1>2. /\ task' \in {"APPROVAL_PENDING", "IN_REVIEW", "APPROVED", "REJECTED"}
      /\ task' = "APPROVED" => ~ RequiresApproval(operation) \/ resumed = "APPROVED"
  BY DEF ServiceAdvances, ServiceEdges
<1>3. TypeOK'
  BY <1>1, <1>2 DEF IInv, TypeOK
<1>4. Bookkeeping' /\ NothingYet'
  BY <1>1 DEF IInv, Bookkeeping, NothingYet
<1>5. ApprovedByRight'
  BY <1>1, <1>2 DEF IInv, ApprovedByRight, Granted, RequiresApproval
<1> QED BY <1>3, <1>4, <1>5 DEF IInv

\* A call that has not been made has decided nothing yet.
LEMMA CallKeeps ==
    ASSUME IInv, NEW c \in Clients, NEW e \in Engines, NEW v \in Verdicts,
           Call(c, e, v)
    PROVE  IInv'
<1>1. /\ pc[c] = "idle" /\ row # Absent
      /\ pc' = [pc EXCEPT ![c] = "lookup"]
      /\ engine' = [engine EXCEPT ![c] = e]
      /\ verdict' = [verdict EXCEPT ![c] = v]
      /\ overlapped' \in BOOLEAN
      /\ UNCHANGED <<operation, home, resumed, row, cache, task, local, answer, decided,
                     restarts>>
  BY DEF Call, request
<1>2. TypeOK'
  BY <1>1 DEF IInv, TypeOK
<1>3. Bookkeeping' /\ NothingYet'
  BY <1>1 DEF IInv, TypeOK, Bookkeeping, NothingYet, Writing, FollowingUp
<1>4. c \notin decided
  BY <1>1 DEF IInv, Bookkeeping
<1>5. ApprovedByRight'
  BY <1>1, <1>4 DEF IInv, TypeOK, ApprovedByRight, Granted, RequiresApproval
<1> QED BY <1>2, <1>3, <1>5 DEF IInv

\* Looking the record up changes neither row nor task.
LEMMA LookupKeeps ==
    ASSUME IInv, NEW c \in Clients, Select(c) \/ Fill(c)
    PROVE  IInv'
<1>1. /\ UNCHANGED <<operation, home, resumed, row, task, engine, verdict, answer,
                     decided, overlapped, restarts>>
      /\ pc[c] \in {"lookup", "selected"}
      /\ \/ pc' = [pc EXCEPT ![c] = "selected"]
         \/ pc' = [pc EXCEPT ![c] = "loaded"]
  BY DEF Select, Fill, request, history
<1>2. row # Absent
  BY <1>1 DEF IInv, NothingYet
<1>3. cache' \in [Engines -> Status \cup {Absent}] /\ local' \in [Clients -> Status]
  BY <1>2 DEF IInv, TypeOK, Select, Fill
<1>4. TypeOK'
  BY <1>1, <1>3 DEF IInv, TypeOK
<1>5. Bookkeeping' /\ NothingYet'
  BY <1>1, <1>2 DEF IInv, TypeOK, Bookkeeping, NothingYet, Writing, FollowingUp
<1>6. ApprovedByRight'
  BY <1>1 DEF IInv, ApprovedByRight, Granted, RequiresApproval
<1> QED BY <1>4, <1>5, <1>6 DEF IInv

\* A call that passes the check joins those that have decided.
LEMMA CheckKeeps ==
    ASSUME IInv, NEW c \in Clients, CacheHit(c) \/ Loaded(c)
    PROVE  IInv'
<1>1. /\ UNCHANGED <<operation, home, resumed, row, task, engine, verdict, local,
                     overlapped, restarts>>
      /\ pc[c] \in {"lookup", "loaded"}
      /\ \E status : Check(c, status)
  BY DEF CacheHit, Loaded, request, history
<1>2. \/ /\ pc' = [pc EXCEPT ![c] = "done"]
         /\ answer' \in [Clients -> {"none", "ok", "refused", "failed"}]
         /\ UNCHANGED <<cache, decided>>
      \/ /\ pc' = [pc EXCEPT ![c] = "update"]
         /\ verdict[c] # "READ"
         /\ cache' = [cache EXCEPT ![engine[c]] = verdict[c]]
         /\ decided' = decided \cup {c}
         /\ UNCHANGED answer
  BY <1>1 DEF IInv, TypeOK, Check, Answer
<1>3. row # Absent
  BY <1>1 DEF IInv, NothingYet
<1>4. cache' \in [Engines -> Status \cup {Absent}]
  BY <1>2 DEF IInv, TypeOK, Status, Verdicts
<1>5. TypeOK'
  BY <1>1, <1>2, <1>4 DEF IInv, TypeOK
<1>6. Bookkeeping' /\ NothingYet'
  BY <1>1, <1>2, <1>3
     DEF IInv, TypeOK, Bookkeeping, NothingYet, Writing, FollowingUp, Verdicts
<1>7. ApprovedByRight'
  BY <1>1, <1>2 DEF IInv, ApprovedByRight, Granted, RequiresApproval
<1> QED BY <1>5, <1>6, <1>7 DEF IInv

\* What a writing call puts into row or task is its own verdict, which a call
\* has that decided.
LEMMA WriteKeeps ==
    ASSUME IInv, NEW c \in Clients,
           \/ UpdateRow(c) \/ UpdateFails(c) \/ Sync(c) \/ Review(c)
           \/ Conclude(c) \/ CommitSync(c) \/ FollowUpFails(c)
    PROVE  IInv'
<1>1. /\ UNCHANGED <<operation, home, resumed, cache, engine, verdict, local, decided,
                     overlapped, restarts>>
      /\ pc[c] \in Writing
  BY DEF UpdateRow, UpdateFails, Sync, Review, Conclude, CommitSync,
         FollowUpFails, request, history, Writing, FollowingUp
<1>2. c \in decided /\ verdict[c] \in Decisions /\ row # Absent
  BY <1>1 DEF IInv, Bookkeeping, NothingYet, Writing, FollowingUp
<1>3. row' \in {row, verdict[c]} /\ row' # Absent
  BY <1>2, NoStatus
     DEF UpdateRow, UpdateFails, Sync, Review, Conclude, CommitSync,
         FollowUpFails, Status
<1>4. \/ task' \in {task, "IN_REVIEW"}
      \/ task' = verdict[c] /\ verdict[c] \in {"APPROVED", "REJECTED"}
  BY <1>2
     DEF IInv, Bookkeeping, FollowingUp, Decisions, UpdateRow, UpdateFails,
         Sync, Review, Conclude, CommitSync, FollowUpFails
<1>5. /\ \/ pc' = [pc EXCEPT ![c] = "done"]
         \/ \E n \in FollowingUp : pc' = [pc EXCEPT ![c] = n]
      /\ (\E n \in FollowingUp : pc' = [pc EXCEPT ![c] = n])
            => verdict[c] # "EXPIRED"
      /\ answer' \in [Clients -> {"none", "ok", "refused", "failed"}]
  BY DEF IInv, TypeOK, Bookkeeping, UpdateRow, UpdateFails, Sync, Review, Conclude,
         CommitSync, FollowUpFails, Answer, FollowingUp
<1>6. TypeOK'
  BY <1>1, <1>2, <1>3, <1>4, <1>5 DEF IInv, TypeOK, Status, FollowingUp
<1>7. Bookkeeping' /\ NothingYet'
  BY <1>1, <1>2, <1>3, <1>5
     DEF IInv, TypeOK, Bookkeeping, NothingYet, Writing, FollowingUp
<1>8. ApprovedByRight'
  BY <1>1, <1>2, <1>3, <1>4 DEF IInv, ApprovedByRight, Granted, RequiresApproval
<1> QED BY <1>6, <1>7, <1>8 DEF IInv

\* A restart ends calls and empties a cache, and decides nothing.
LEMMA RestartKeeps ==
    ASSUME IInv, NEW e \in Engines, Restart(e)
    PROVE  IInv'
<1>1. /\ restarts < MaxRestarts /\ row # Absent /\ restarts' = restarts + 1
      /\ cache' = [cache EXCEPT ![e] = Absent]
      /\ \A c \in Clients : pc'[c] \in {pc[c], "done"}
      /\ pc' \in [Clients -> {"idle", "lookup", "selected", "loaded", "update",
                              "sync", "review", "conclude", "commit", "done"}]
      /\ answer' \in [Clients -> {"none", "ok", "refused", "failed"}]
      /\ UNCHANGED <<operation, home, resumed, row, task, engine, verdict, local, decided,
                     overlapped>>
  BY DEF IInv, TypeOK, Restart, request
<1>2. restarts' \in 0 .. MaxRestarts
  BY <1>1, ApprovalEngineAssumption DEF IInv, TypeOK
<1>3. TypeOK'
  BY <1>1, <1>2 DEF IInv, TypeOK
<1>4. Bookkeeping' /\ NothingYet'
  BY <1>1 DEF IInv, Bookkeeping, NothingYet, Writing, FollowingUp
<1>5. ApprovedByRight'
  BY <1>1 DEF IInv, ApprovedByRight, Granted, RequiresApproval
<1> QED BY <1>3, <1>4, <1>5 DEF IInv

\* Every step of the specification keeps the invariant.
LEMMA NextIInv == IInv /\ [Next]_vars => IInv'
<1> SUFFICES ASSUME IInv, [Next]_vars PROVE IInv'
  OBVIOUS
<1>1. ASSUME NEW op \in Operations, Request(op) PROVE IInv'
  BY <1>1, RequestKeeps
<1>2. CASE ServiceAdvances
  BY <1>2, ServiceKeeps
<1>7. CASE Resume
  BY <1>7, ResumeKeeps
<1>3. ASSUME NEW c \in Clients, NEW e \in Engines, NEW v \in Verdicts, Call(c, e, v)
      PROVE  IInv'
  BY <1>3, CallKeeps
<1>4. ASSUME NEW c \in Clients, Step(c) PROVE IInv'
  BY <1>4, LookupKeeps, CheckKeeps, WriteKeeps DEF Step
<1>5. ASSUME NEW e \in Engines, Restart(e) PROVE IInv'
  BY <1>5, RestartKeeps
<1>6. CASE UNCHANGED vars
  BY <1>6
     DEF IInv, TypeOK, Bookkeeping, NothingYet, ApprovedByRight, Granted,
         RequiresApproval, vars, request, history
<1> QED BY <1>1, <1>2, <1>3, <1>4, <1>5, <1>6, <1>7 DEF Next

\* The inductive invariant, for any processes, calls and restarts.
THEOREM Inductive == Spec => []IInv
BY InitIInv, NextIInv, PTL DEF Spec

-----------------------------------------------------------------------------
\* Record, caches and calls hold what they may; above all the task is never
\* moved by an expiry.
THEOREM TypeCorrect == Spec => []TypeOK
<1>1. IInv => TypeOK
  BY DEF IInv
<1> QED BY <1>1, Inductive, PTL

\* INV-01: what the autonomy matrix or the safety pipeline wants a human to
\* approve is approved by an approve call or not at all.
THEOREM HumanApproves == Spec => []HumanDecides
<1>1. IInv => HumanDecides
  BY PolicyCoversMatrix DEF IInv, ApprovedByRight, Granted, HumanDecides
<1> QED BY <1>1, Inductive, PTL

-----------------------------------------------------------------------------
(***************************************************************************)
(* One process: here the caches matter.  A cache that says PENDING is      *)
(* right, because whoever decides says so in the cache first; and after a  *)
(* restart, when it says nothing, no call is on its way to the row while   *)
(* another one reads it.                                                   *)
(***************************************************************************)
Reading == {"selected", "loaded"}

Calls ==
    /\ ~ overlapped => \A c, d \in Clients : InFlight(c) /\ InFlight(d) => c = d
    /\ \A c \in Clients : answer[c] # "none" => pc[c] = "done"
    /\ \A c \in Clients : pc[c] = "idle" => engine[c] = home

\* The cache is only empty after a restart, and what it says of a pending
\* record, or what was read of the row to fill it, is so.
TrueCache ==
    /\ restarts = 0 /\ row # Absent =>
           cache[home] # Absent /\ \A c \in Clients : pc[c] \notin Reading
    /\ \A c \in Clients : pc[c] \in Reading => local[c] = row
    /\ cache[home] = "PENDING" =>
           row = "PENDING" /\ \A c \in Clients : pc[c] \notin Writing

\* One call at a time writes: it finds the row pending, and leaves its verdict.
OneWriter ==
    /\ \A c, d \in Clients : pc[c] \in Writing /\ pc[d] \in Writing => c = d
    /\ \A c \in Clients :
          /\ pc[c] = "update" => row = "PENDING"
          /\ pc[c] \in FollowingUp => row = verdict[c]

\* Of those that decided one at most was told so, after all the others.
OneAnswer ==
    \A c, d \in decided :
        answer[c] = "ok" =>
            /\ row = verdict[c]
            /\ pc[d] \notin FollowingUp
            /\ answer[d] = "ok" => c = d

\* Task and policy agree with the row.
RowRules ==
    /\ row # Absent /\ ~ RequiresApproval(operation) => row = "APPROVED"
    /\ task \in {"APPROVED", "REJECTED"} => row = task
    /\ resumed # Absent => row = resumed

Once == TrueCache /\ OneWriter /\ OneAnswer /\ RowRules

OnceInv == IInv /\ Calls /\ (OneProcess => Once)

\* A process that is one was one before.
LEMMA StaysOneProcess ==
    ASSUME OnceInv, OneProcess',
           restarts = 0 \/ restarts' # 0, overlapped => overlapped',
           \A c \in Clients : pc[c] # "idle" => engine'[c] = engine[c],
           home' = home
    PROVE  OneProcess /\ Once /\ \A c \in Clients : engine[c] = home /\ engine'[c] = home
BY DEF OnceInv, Calls, OneProcess

LEMMA InitOnce == Init => OnceInv
<1> SUFFICES ASSUME Init PROVE OnceInv
  OBVIOUS
<1>1. Calls
  BY DEF Init, Calls, InFlight
<1>2. Once
  BY DEF Init, Once, TrueCache, OneWriter, OneAnswer, RowRules, Reading, Writing,
         FollowingUp, Absent
<1> QED BY <1>1, <1>2, InitIInv DEF OnceInv

\* The request fills the cache with what it writes into the row.
LEMMA RequestOnce ==
    ASSUME OnceInv, NEW op \in Operations, Request(op)
    PROVE  OnceInv'
<1>1. /\ row = Absent /\ operation' = op
      /\ row' = IF RequiresApproval(op) THEN "PENDING" ELSE "APPROVED"
      /\ cache' = [cache EXCEPT ![home] = row']
      /\ UNCHANGED <<home, resumed, task, pc, engine, verdict, local, answer, decided,
                     overlapped, restarts>>
  BY DEF Request, history
<1>2. /\ task = "OPTIMIZED" /\ resumed = Absent /\ \A c \in Clients : pc[c] = "idle"
      /\ decided = {}
  BY <1>1 DEF OnceInv, IInv, NothingYet, Bookkeeping, TypeOK
<1>3. Calls'
  BY <1>1 DEF OnceInv, Calls, InFlight
<1>4. cache'[home] = row'
  BY <1>1 DEF OnceInv, IInv, TypeOK
<1>5. TrueCache' /\ OneWriter' /\ OneAnswer'
  BY <1>1, <1>2, <1>4
     DEF TrueCache, OneWriter, OneAnswer, Reading, Writing, FollowingUp, Absent
<1>6. RowRules'
  BY <1>1, <1>2 DEF RowRules, RequiresApproval
<1> QED BY <1>3, <1>5, <1>6, RequestKeeps DEF OnceInv, Once

\* The service approves the task of a row that policy has approved.
LEMMA ServiceOnce == OnceInv /\ ServiceAdvances => OnceInv'
<1> SUFFICES ASSUME OnceInv, ServiceAdvances PROVE OnceInv'
  OBVIOUS
<1>1. /\ row # Absent
      /\ UNCHANGED <<operation, home, resumed, row, cache, pc, engine, verdict, local,
                     answer, decided, overlapped, restarts>>
      /\ task' \in {"APPROVAL_PENDING", "IN_REVIEW", "APPROVED", "REJECTED"}
      /\ task' = "APPROVED" => ~ RequiresApproval(operation) \/ resumed = "APPROVED"
      /\ task' = "REJECTED" => resumed = "REJECTED"
  BY DEF ServiceAdvances, ServiceEdges, request, history
<1>2. Calls'
  BY <1>1 DEF OnceInv, Calls, InFlight
<1>3. ASSUME OneProcess' PROVE Once'
  <2>1. Once
    BY <1>1, <1>3 DEF OnceInv, OneProcess
  <2>2. TrueCache' /\ OneWriter' /\ OneAnswer'
    BY <1>1, <2>1 DEF Once, TrueCache, OneWriter, OneAnswer
  <2>3. RowRules'
    BY <1>1, <2>1 DEF Once, RowRules, RequiresApproval, Absent
  <2> QED BY <2>2, <2>3 DEF Once
<1> QED BY <1>2, <1>3, ServiceKeeps DEF OnceInv

\* What a resumed run has read stays in the row of the one process.
LEMMA ResumeOnce == OnceInv /\ Resume => OnceInv'
<1> SUFFICES ASSUME OnceInv, Resume PROVE OnceInv'
  OBVIOUS
<1>1. /\ row \in {"APPROVED", "REJECTED"} /\ resumed' = row
      /\ UNCHANGED <<operation, home, row, cache, task, pc, engine, verdict,
                     local, answer, decided, overlapped, restarts>>
  BY DEF Resume, history
<1>2. Calls'
  BY <1>1 DEF OnceInv, Calls, InFlight
<1>3. ASSUME OneProcess' PROVE Once'
  <2>1. Once
    BY <1>1, <1>3 DEF OnceInv, OneProcess
  <2>2. TrueCache' /\ OneWriter' /\ OneAnswer'
    BY <1>1, <2>1 DEF Once, TrueCache, OneWriter, OneAnswer
  <2>3. RowRules'
    BY <1>1, <2>1 DEF Once, RowRules, RequiresApproval
  <2> QED BY <2>2, <2>3 DEF Once
<1> QED BY <1>2, <1>3, ResumeKeeps DEF OnceInv

\* A new call has neither read nor written; if none has overlapped, it is the
\* only one.
LEMMA CallOnce ==
    ASSUME OnceInv, NEW c \in Clients, NEW e \in Engines, NEW v \in Verdicts,
           Call(c, e, v)
    PROVE  OnceInv'
<1>1. /\ pc[c] = "idle" /\ row # Absent
      /\ pc' = [pc EXCEPT ![c] = "lookup"]
      /\ engine' = [engine EXCEPT ![c] = e]
      /\ verdict' = [verdict EXCEPT ![c] = v]
      /\ overlapped' = (overlapped \/ \E d \in Clients : InFlight(d))
      /\ UNCHANGED <<operation, home, resumed, row, cache, task, local, answer, decided,
                     restarts>>
  BY DEF Call, request
<1> USE DEF TypeOK
<1>2. /\ pc'[c] = "lookup" /\ verdict'[c] = v
      /\ \A d \in Clients \ {c} :
            pc'[d] = pc[d] /\ verdict'[d] = verdict[d] /\ engine'[d] = engine[d]
  BY <1>1 DEF OnceInv, IInv
<1>3. Calls'
  BY <1>1, <1>2, ZenonT(40) DEF OnceInv, Calls, InFlight
<1>4. c \notin decided /\ decided \subseteq Clients
  BY <1>1 DEF OnceInv, IInv, Bookkeeping
<1>5. ASSUME OneProcess' PROVE Once'
  <2>1. Once
    BY <1>1, <1>2, <1>5, StaysOneProcess
  <2>2. TrueCache'
    BY <1>1, <1>2, <2>1 DEF Once, TrueCache, Reading, Writing, FollowingUp
  <2>3. OneWriter' /\ OneAnswer'
    BY <1>1, <1>2, <1>4, <2>1
       DEF Once, OneWriter, OneAnswer, Writing, FollowingUp
  <2>4. RowRules'
    BY <1>1, <2>1 DEF Once, RowRules, RequiresApproval
  <2> QED BY <2>2, <2>3, <2>4 DEF Once
<1> QED BY <1>3, <1>5, CallKeeps DEF OnceInv

\* Looking up: the cache is empty only when the call is alone, so what it
\* reads of the row stays true of it.
LEMMA LookupOnce ==
    ASSUME OnceInv, NEW c \in Clients, Select(c) \/ Fill(c)
    PROVE  OnceInv'
<1>1. /\ UNCHANGED <<operation, home, resumed, row, task, engine, verdict, answer,
                     decided, overlapped, restarts>>
      /\ \/ /\ pc[c] = "lookup" /\ pc' = [pc EXCEPT ![c] = "selected"]
            /\ cache[engine[c]] = Absent /\ cache' = cache
            /\ local' = [local EXCEPT ![c] = row]
         \/ /\ pc[c] = "selected" /\ pc' = [pc EXCEPT ![c] = "loaded"]
            /\ cache' = [cache EXCEPT ![engine[c]] = local[c]]
            /\ local' = local
  BY DEF Select, Fill, request, history
<1> USE DEF TypeOK
<1>2. /\ pc[c] \in {"lookup", "selected"} /\ pc'[c] \in Reading
      /\ \A d \in Clients \ {c} : pc'[d] = pc[d] /\ local'[d] = local[d]
      /\ row # Absent
  BY <1>1 DEF OnceInv, IInv, NothingYet, Reading
<1>3. Calls'
  BY <1>1, <1>2 DEF OnceInv, Calls, InFlight, Reading
<1>4. ASSUME OneProcess' PROVE Once'
  <2>1. Once /\ engine[c] = home /\ OneProcess
    BY <1>1, <1>4, StaysOneProcess
  <2>2. restarts # 0
    BY <1>1, <1>2, <2>1 DEF Once, TrueCache, Reading
  <2>3. \A d \in Clients \ {c} : ~ InFlight(d)
    BY <1>2, <2>1, <2>2 DEF OneProcess, OnceInv, Calls, InFlight
  <2>4. \A d \in Clients : pc'[d] \notin Writing
    BY <1>2, <2>3 DEF InFlight, Reading, Writing, FollowingUp
  <2>5. /\ local'[c] = row
        /\ cache'[home] \in {cache[home], row}
    BY <1>1, <2>1 DEF OnceInv, IInv, Once, TrueCache, Reading
  <2>6. TrueCache'
    BY <1>1, <1>2, <2>1, <2>2, <2>4, <2>5 DEF Once, TrueCache
  <2>7. OneWriter'
    BY <2>4 DEF OneWriter, Writing
  <2>8. OneAnswer'
    BY <1>1, <2>1, <2>4 DEF OnceInv, IInv, Once, OneAnswer, Writing
  <2>9. RowRules'
    BY <1>1, <2>1 DEF Once, RowRules, RequiresApproval
  <2> QED BY <2>6, <2>7, <2>8, <2>9 DEF Once
<1> QED BY <1>3, <1>4, LookupKeeps DEF OnceInv

\* The check: a call that passes it finds the record pending indeed, and no
\* other on its way to the row.
LEMMA CheckOnce ==
    ASSUME OnceInv, NEW c \in Clients, CacheHit(c) \/ Loaded(c)
    PROVE  OnceInv'
<1>1. /\ UNCHANGED <<operation, home, resumed, row, task, engine, verdict, local,
                     overlapped, restarts>>
      /\ pc[c] \in {"lookup", "loaded"}
      /\ \/ /\ pc' = [pc EXCEPT ![c] = "done"]
            /\ \E a : answer' = [answer EXCEPT ![c] = a]
            /\ answer'[c] = "ok" => verdict[c] = "READ"
            /\ UNCHANGED <<cache, decided>>
         \/ /\ pc' = [pc EXCEPT ![c] = "update"]
            /\ \/ pc[c] = "lookup" /\ cache[engine[c]] = "PENDING"
               \/ pc[c] = "loaded" /\ local[c] = "PENDING"
            /\ cache' = [cache EXCEPT ![engine[c]] = verdict[c]]
            /\ decided' = decided \cup {c}
            /\ UNCHANGED answer
  BY DEF CacheHit, Loaded, Check, Answer, request, history, OnceInv, IInv, TypeOK
<1> USE DEF TypeOK
<1>2. /\ pc'[c] \in {"done", "update"}
      /\ \A d \in Clients \ {c} : pc'[d] = pc[d] /\ answer'[d] = answer[d]
      /\ row # Absent /\ decided \subseteq Clients
  BY <1>1 DEF OnceInv, IInv, NothingYet
<1>3. Calls'
  <2>1. answer'[c] # "none" => pc'[c] = "done"
    BY <1>1 DEF OnceInv, IInv, Calls
  <2>2. \A d \in Clients : InFlight(d)' => InFlight(d)
    BY <1>1, <1>2 DEF InFlight
  <2> QED BY <1>1, <1>2, <2>1, <2>2 DEF OnceInv, Calls
<1>4. ASSUME OneProcess' PROVE Once'
  <2>1. Once /\ engine[c] = home /\ OneProcess
    BY <1>1, <1>4, StaysOneProcess
  <2>2. RowRules'
    BY <1>1, <2>1 DEF Once, RowRules, RequiresApproval
  <2>3. c \notin decided \/ (verdict[c] # "READ" /\ verdict[c] # "PENDING")
    BY DEF OnceInv, IInv, Bookkeeping, Decisions
  <2>4. CASE pc'[c] = "done"
    <3>1. /\ UNCHANGED <<cache, decided>>
          /\ answer'[c] = "ok" => c \notin decided
      BY <1>1, <2>3, <2>4 DEF OnceInv, IInv
    <3>2. TrueCache' /\ OneWriter'
      BY <1>1, <1>2, <2>1, <2>4, <3>1
         DEF Once, TrueCache, OneWriter, Reading, Writing, FollowingUp
    <3>3. OneAnswer'
      BY <1>1, <1>2, <2>1, <2>4, <3>1 DEF Once, OneAnswer, FollowingUp
    <3> QED BY <2>2, <3>2, <3>3 DEF Once
  <2>5. CASE pc'[c] = "update"
    <3>1. /\ \/ pc[c] = "lookup" /\ cache[home] = "PENDING"
             \/ pc[c] = "loaded" /\ local[c] = "PENDING"
          /\ cache' = [cache EXCEPT ![home] = verdict[c]]
          /\ decided' = decided \cup {c} /\ answer' = answer
      BY <1>1, <2>1, <2>5 DEF OnceInv, IInv
    <3>2. row = "PENDING" /\ \A d \in Clients : pc[d] \notin Writing
      <4>1. CASE cache[home] = "PENDING"
        BY <4>1, <2>1 DEF Once, TrueCache
      <4>2. CASE pc[c] = "loaded" /\ local[c] = "PENDING"
        <5>1. row = "PENDING" /\ restarts # 0
          BY <4>2, <1>2, <2>1 DEF Once, TrueCache, Reading
        <5>2. \A d \in Clients \ {c} : ~ InFlight(d)
          BY <4>2, <2>1, <5>1 DEF OneProcess, OnceInv, Calls, InFlight
        <5> QED BY <4>2, <5>1, <5>2 DEF InFlight, Writing, FollowingUp
      <4> QED BY <3>1, <4>1, <4>2
    <3>3. c \in decided' /\ verdict'[c] \in Decisions
      BY <1>2, <2>5, <3>1, CheckKeeps DEF OnceInv, IInv, Bookkeeping
    <3>4. cache'[home] = verdict[c] /\ verdict[c] # "PENDING" /\ verdict[c] # Absent
      BY <1>1, <3>1, <3>3 DEF OnceInv, IInv, Decisions, Absent
    <3>5. TrueCache'
      BY <1>1, <1>2, <2>1, <2>5, <3>2, <3>4 DEF Once, TrueCache, Reading
    <3>6. OneWriter'
      BY <1>1, <1>2, <2>1, <2>5, <3>2 DEF Once, OneWriter, Writing, FollowingUp
    <3>7. \A d \in decided' : answer'[d] # "ok"
      <4>1. answer[c] # "ok"
        BY <1>1 DEF OnceInv, Calls
      <4>2. \A d \in decided : answer[d] = "ok" => verdict[d] = "PENDING"
        BY <2>1, <3>2 DEF Once, OneAnswer
      <4> QED BY <3>1, <4>1, <4>2 DEF OnceInv, IInv, Bookkeeping, Decisions
    <3>8. OneAnswer'
      BY <3>7 DEF OneAnswer
    <3> QED BY <2>2, <3>5, <3>6, <3>8 DEF Once
  <2> QED BY <1>2, <2>4, <2>5
<1> QED BY <1>3, <1>4, CheckKeeps DEF OnceInv

\* Writing: the row goes from PENDING to the verdict of the one writer.
LEMMA WriteOnce ==
    ASSUME OnceInv, NEW c \in Clients,
           \/ UpdateRow(c) \/ UpdateFails(c) \/ Sync(c) \/ Review(c)
           \/ Conclude(c) \/ CommitSync(c) \/ FollowUpFails(c)
    PROVE  OnceInv'
<1>1. /\ UNCHANGED <<operation, home, resumed, cache, engine, verdict, local, decided,
                     overlapped, restarts>>
      /\ pc[c] \in Writing
      /\ \E n \in FollowingUp \cup {"done"} : pc' = [pc EXCEPT ![c] = n]
      /\ \E a : answer' = [answer EXCEPT ![c] = a]
      /\ answer'[c] # "none" => pc'[c] = "done"
  BY DEF UpdateRow, UpdateFails, Sync, Review, Conclude, CommitSync, Answer,
         FollowUpFails, request, history, Writing, FollowingUp, OnceInv, IInv,
         TypeOK, Calls
<1> USE DEF TypeOK
<1>2. /\ pc'[c] \in FollowingUp \cup {"done"}
      /\ \A d \in Clients \ {c} : pc'[d] = pc[d] /\ answer'[d] = answer[d]
      /\ c \in decided /\ decided \subseteq Clients /\ verdict[c] \in Decisions
  BY <1>1 DEF OnceInv, IInv, Bookkeeping
<1>3. Calls'
  <2>1. \A d \in Clients : InFlight(d)' => InFlight(d)
    BY <1>1, <1>2 DEF InFlight, Writing, FollowingUp
  <2> QED BY <1>1, <1>2, <2>1 DEF OnceInv, Calls, FollowingUp
<1>4. ASSUME OneProcess' PROVE Once'
  <2>1. Once /\ OneProcess
    BY <1>1, <1>4, StaysOneProcess
  <2>2. /\ \A d \in Clients \ {c} : pc[d] \notin Writing
        /\ cache[home] # "PENDING"
    BY <1>1, <2>1 DEF Once, OneWriter, TrueCache
  <2>3. restarts = 0 \/ \A d \in Clients \ {c} : ~ InFlight(d)
    BY <1>1, <2>1 DEF OneProcess, OnceInv, Calls, InFlight, Writing, FollowingUp
  <2>4. \A d \in Clients : pc'[d] \notin Reading
    <3>1. row # Absent
      BY <1>1 DEF OnceInv, IInv, NothingYet, Writing, FollowingUp
    <3> QED BY <1>2, <2>1, <2>3, <3>1
            DEF Once, TrueCache, InFlight, Reading, FollowingUp
  <2>5. row' = row \/ (pc[c] = "update" /\ row = "PENDING" /\ row' = verdict[c])
    BY <2>1 DEF UpdateRow, UpdateFails, Sync, Review, Conclude, CommitSync,
                FollowUpFails, Once, OneWriter, FollowingUp
  <2>6. /\ pc'[c] \in FollowingUp => row' = verdict[c]
        /\ answer'[c] = "ok" => row' = verdict[c]
    BY <1>1, <2>1
       DEF UpdateRow, UpdateFails, Sync, Review, Conclude, CommitSync, Answer,
           FollowUpFails, OnceInv, IInv, Once, OneWriter, FollowingUp
  <2>7. TrueCache'
    <3>1. row # Absent
      BY <1>1 DEF OnceInv, IInv, NothingYet, Writing, FollowingUp
    <3> QED BY <1>1, <2>1, <2>2, <2>4, <3>1 DEF Once, TrueCache
  <2>8. OneWriter'
    BY <1>1, <1>2, <2>2, <2>6 DEF OneWriter, Writing, FollowingUp
  <2>9. OneAnswer'
    <3>1. \A d \in decided : answer[d] # "ok"
      <4>1. CASE pc[c] = "update"
        BY <4>1, <2>1 DEF Once, OneAnswer, OneWriter, OnceInv, IInv, Bookkeeping,
                          Decisions
      <4>2. CASE pc[c] # "update"
        BY <1>1, <1>2, <2>1, <4>2 DEF Once, OneAnswer, Writing
      <4> QED BY <4>1, <4>2
    <3>2. \A d \in decided : answer'[d] = "ok" => d = c
      BY <1>2, <3>1
    <3>3. answer'[c] = "ok" => \A d \in decided : pc'[d] \notin FollowingUp
      BY <1>1, <1>2, <2>2 DEF Writing, FollowingUp
    <3> QED BY <1>1, <2>6, <3>2, <3>3 DEF OneAnswer
  <2>10. RowRules'
    <3>1. task' \in {"APPROVED", "REJECTED"} => task' = task \/ task' = row'
      BY <2>1 DEF UpdateRow, UpdateFails, Sync, Review, Conclude, CommitSync,
                  FollowUpFails, Once, OneWriter, FollowingUp
    <3>2. row # Absent
      BY <1>1 DEF OnceInv, IInv, NothingYet, Writing, FollowingUp
    <3>3. resumed # "PENDING" /\ resumed' = resumed
      BY <1>1 DEF OnceInv, IInv, Absent
    <3> QED BY <1>1, <2>1, <2>5, <3>1, <3>2, <3>3
            DEF Once, RowRules, RequiresApproval
  <2> QED BY <2>7, <2>8, <2>9, <2>10 DEF Once
<1> QED BY <1>3, <1>4, WriteKeeps DEF OnceInv

\* After a restart the cache says nothing, and calls have gone that cannot have
\* been told that they decided.
LEMMA RestartOnce ==
    ASSUME OnceInv, NEW e \in Engines, Restart(e)
    PROVE  OnceInv'
<1> USE DEF TypeOK
<1>1. /\ restarts' = restarts + 1 /\ restarts' # 0
      /\ cache' = [cache EXCEPT ![e] = Absent]
      /\ \A c \in Clients :
            \/ pc'[c] = pc[c] /\ answer'[c] = answer[c]
            \/ InFlight(c) /\ pc'[c] = "done" /\ answer'[c] = "failed"
      /\ UNCHANGED <<operation, home, resumed, row, task, engine, verdict, local, decided,
                     overlapped>>
      /\ decided \subseteq Clients
  BY ApprovalEngineAssumption DEF OnceInv, IInv, Restart, request
<1>2. Calls'
  <2>1. \A d \in Clients : InFlight(d)' => InFlight(d)
    BY <1>1 DEF InFlight
  <2> QED BY <1>1, <2>1 DEF OnceInv, Calls, InFlight
<1>3. ASSUME OneProcess' PROVE Once'
  <2>1. OneProcess /\ Once
    BY <1>1, <1>3 DEF OnceInv, OneProcess
  <2>2. cache'[home] \in {cache[home], Absent}
    BY <1>1 DEF OnceInv, IInv
  <2>3. TrueCache'
    BY <1>1, <2>1, <2>2
       DEF Once, TrueCache, Reading, Writing, FollowingUp, Absent
  <2>4. OneWriter' /\ OneAnswer'
    BY <1>1, <2>1 DEF Once, OneWriter, OneAnswer, Writing, FollowingUp
  <2>5. RowRules'
    BY <1>1, <2>1 DEF Once, RowRules, RequiresApproval
  <2> QED BY <2>3, <2>4, <2>5 DEF Once
<1> QED BY <1>2, <1>3, RestartKeeps DEF OnceInv

LEMMA NextOnce == OnceInv /\ [Next]_vars => OnceInv'
<1> SUFFICES ASSUME OnceInv, [Next]_vars PROVE OnceInv'
  OBVIOUS
<1>1. ASSUME NEW op \in Operations, Request(op) PROVE OnceInv'
  BY <1>1, RequestOnce
<1>2. CASE ServiceAdvances
  BY <1>2, ServiceOnce
<1>7. CASE Resume
  BY <1>7, ResumeOnce
<1>3. ASSUME NEW c \in Clients, NEW e \in Engines, NEW v \in Verdicts, Call(c, e, v)
      PROVE  OnceInv'
  BY <1>3, CallOnce
<1>4. ASSUME NEW c \in Clients, Step(c) PROVE OnceInv'
  BY <1>4, LookupOnce, CheckOnce, WriteOnce DEF Step
<1>5. ASSUME NEW e \in Engines, Restart(e) PROVE OnceInv'
  BY <1>5, RestartOnce
<1>6. CASE UNCHANGED vars
  <2>1. Calls'
    BY <1>6 DEF OnceInv, Calls, InFlight, vars, request, history
  <2>2. OneProcess' => Once'
    BY <1>6 DEF OnceInv, OneProcess, Once, TrueCache, OneWriter, OneAnswer, RowRules,
                RequiresApproval, vars, request, history
  <2> QED BY <1>6, <2>1, <2>2, NextIInv DEF OnceInv
<1> QED BY <1>1, <1>2, <1>3, <1>4, <1>5, <1>6, <1>7 DEF Next

\* The bookkeeping of decisions on which DecidedOnce rests is inductive.
THEOREM OnceInductive == Spec => []OnceInv
BY InitOnce, NextOnce, PTL DEF Spec

\* In one process, restarted or not, an approval is decided once: one caller at
\* most hears that its decision was taken, and it stands in the table.
THEOREM OneDecision == Spec => []DecidedOnceByOneProcess
<1>1. OnceInv => DecidedOnceByOneProcess
  BY DEF OnceInv, Once, OneAnswer, DecidedOnceByOneProcess
<1> QED BY <1>1, OnceInductive, PTL

\* And the task goes on as the record says, though row and task are written in
\* transactions of their own, any of which may fail.
THEOREM TaskAgrees == Spec => []TaskFollowsRecord
<1>1. OnceInv => TaskFollowsRecord
  BY DEF OnceInv, Once, RowRules, TaskFollowsRecord
<1> QED BY <1>1, OnceInductive, PTL

=============================================================================
