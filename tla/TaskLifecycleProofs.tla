------------------------ MODULE TaskLifecycleProofs -------------------------
(***************************************************************************)
(* Proofs about TaskLifecycle, for every value of MaxStateEntries.         *)
(*                                                                         *)
(* The counts in entries look independent of one another.  They are not:   *)
(* the whitelist is a network of pipes with the task as the one token in   *)
(* it, so whatever left a part of the network has entered it, and entered  *)
(* it once more if the task is still inside.  Conservation states this for *)
(* the parts the properties need, and is inductive together with TypeOK.   *)
(***************************************************************************)
EXTENDS TaskLifecycle, TLAPS

\* 1 while the task is in one of the states S, else 0.
Here(S) == IF state \in S THEN 1 ELSE 0

\* An attempt begins with IN_DEVELOPMENT and is over when it has failed.
Attempt ==
    {"IN_DEVELOPMENT", "CODE_GENERATED", "IN_VALIDATION", "VALIDATION_PASSED",
     "OPTIMIZATION_PENDING", "IN_OPTIMIZATION", "OPTIMIZED",
     "APPROVAL_PENDING", "IN_REVIEW", "APPROVED", "DEPLOYING"}

Optimization ==
    {"VALIDATION_PASSED", "OPTIMIZATION_PENDING", "IN_OPTIMIZATION",
     "OPTIMIZED"}

AttemptConserved ==
    entries["DEV_FAILED"] + entries["VALIDATION_FAILED"] + entries["REJECTED"]
        + Here(Attempt) <= entries["IN_DEVELOPMENT"]

ParsingConserved ==
    entries["PARSED"] + Here({"PARSING"}) <= entries["PARSING"]

DevelopmentConserved ==
    entries["CODE_GENERATED"] + Here({"IN_DEVELOPMENT"})
        <= entries["IN_DEVELOPMENT"]

HandoverConserved ==
    entries["IN_VALIDATION"] + Here({"CODE_GENERATED"})
        <= entries["CODE_GENERATED"]

ValidationConserved ==
    entries["VALIDATION_PASSED"] + Here({"IN_VALIDATION"})
        <= entries["IN_VALIDATION"]

OptimizationConserved ==
    entries["APPROVAL_PENDING"] + Here(Optimization)
        <= entries["VALIDATION_PASSED"]

RequestConserved ==
    entries["IN_REVIEW"] + Here({"APPROVAL_PENDING"})
        <= entries["APPROVAL_PENDING"]

ReviewConserved ==
    entries["APPROVED"] + entries["REJECTED"] + Here({"IN_REVIEW"})
        <= entries["IN_REVIEW"]

ApprovalConserved ==
    entries["DEPLOYING"] + Here({"APPROVED"}) <= entries["APPROVED"]

DeploymentConserved ==
    /\ entries["DEPLOYED"] + Here({"DEPLOYING"}) <= entries["DEPLOYING"]
    /\ entries["COMPLETED"] + Here({"DEPLOYED"}) <= entries["DEPLOYED"]

CancelledOnce == entries["CANCELLED"] <= Here({"CANCELLED"})

Conservation ==
    /\ AttemptConserved
    /\ ParsingConserved
    /\ DevelopmentConserved
    /\ HandoverConserved
    /\ ValidationConserved
    /\ OptimizationConserved
    /\ RequestConserved
    /\ ReviewConserved
    /\ ApprovalConserved
    /\ DeploymentConserved
    /\ CancelledOnce

IInv == TypeOK /\ Conservation

-----------------------------------------------------------------------------
\* Every transition of the whitelist stays within the 25 states.
LEMMA WhitelistTyped == VALID_TRANSITIONS \subseteq TaskState \X TaskState
BY DEF VALID_TRANSITIONS, ForwardTransitions, Cancellable, TaskState

\* The task starts in SUBMITTED with no transition recorded.
LEMMA InitIInv == Init => IInv
<1> SUFFICES ASSUME Init PROVE IInv
  OBVIOUS
<1>1. TypeOK
  BY MaxStateEntriesAssumption DEF Init, TypeOK, TaskState
<1>2. Conservation
  BY DEF Init, Conservation, AttemptConserved, ParsingConserved,
     DevelopmentConserved, HandoverConserved, ValidationConserved,
     OptimizationConserved, RequestConserved, ReviewConserved,
     ApprovalConserved, DeploymentConserved, CancelledOnce, Here, Attempt,
     Optimization, TaskState
<1> QED BY <1>1, <1>2 DEF IInv

\* A transition adds one entry of its target and no other.
LEMMA StepTyped ==
    ASSUME TypeOK, NEW target \in TaskState, Transition(target)
    PROVE  /\ TypeOK'
           /\ state' = target
           /\ <<state, target>> \in VALID_TRANSITIONS
           /\ \A s \in TaskState :
                 entries'[s] = IF s = target THEN entries[s] + 1 ELSE entries[s]
BY MaxStateEntriesAssumption DEF TypeOK, Transition, Allowed

\* A transition that enters a part of the network, or adds to what left it,
\* is matched by what entered it.
LEMMA StepConserves ==
    ASSUME IInv, NEW target \in TaskState, Transition(target)
    PROVE  Conservation'
<1> DEFINE After(s) == IF s = target THEN entries[s] + 1 ELSE entries[s]
<1>1. /\ state' = target
      /\ <<state, target>> \in VALID_TRANSITIONS
      /\ \A s \in TaskState : entries'[s] = After(s) /\ entries[s] \in Nat
  BY StepTyped, MaxStateEntriesAssumption DEF IInv, TypeOK
<1> USE <1>1 DEF VALID_TRANSITIONS, ForwardTransitions, Cancellable, TaskState,
                Here, IInv, Conservation
<1>2. AttemptConserved'
  BY DEF AttemptConserved, Attempt
<1>3. ParsingConserved'
  BY DEF ParsingConserved
<1>4. DevelopmentConserved'
  BY DEF DevelopmentConserved
<1>5. HandoverConserved'
  BY DEF HandoverConserved
<1>6. ValidationConserved'
  BY DEF ValidationConserved
<1>7. OptimizationConserved'
  BY DEF OptimizationConserved, Optimization
<1>8. RequestConserved'
  BY DEF RequestConserved
<1>9. ReviewConserved'
  BY DEF ReviewConserved
<1>10. ApprovalConserved'
  BY DEF ApprovalConserved
<1>11. DeploymentConserved'
  BY DEF DeploymentConserved
<1>12. CancelledOnce'
  BY DEF CancelledOnce
<1> QED
  BY <1>2, <1>3, <1>4, <1>5, <1>6, <1>7, <1>8, <1>9, <1>10, <1>11, <1>12
     DEF Conservation

\* A step that changes nothing keeps everything.
LEMMA StutterIInv == IInv /\ UNCHANGED vars => IInv'
BY DEF IInv, TypeOK, Conservation, AttemptConserved, ParsingConserved,
   DevelopmentConserved, HandoverConserved, ValidationConserved,
   OptimizationConserved, RequestConserved, ReviewConserved,
   ApprovalConserved, DeploymentConserved, CancelledOnce, Here, vars

\* The invariant survives every step of the specification.
LEMMA NextIInv == IInv /\ [Next]_vars => IInv'
<1> SUFFICES ASSUME IInv, [Next]_vars PROVE IInv'
  OBVIOUS
<1>1. CASE Next
  <2>1. PICK target \in TaskState : Transition(target)
    BY <1>1 DEF Next
  <2>2. TypeOK'
    BY <2>1, StepTyped DEF IInv
  <2>3. Conservation'
    BY <2>1, StepConserves
  <2> QED BY <2>2, <2>3 DEF IInv
<1>2. CASE UNCHANGED vars
  BY <1>2, StutterIInv
<1> QED BY <1>1, <1>2

\* The inductive invariant holds of every history of a task.
THEOREM Inductive == Spec => []IInv
BY InitIInv, NextIInv, PTL DEF Spec

-----------------------------------------------------------------------------
\* A task is always in one of the 25 states, and enters none of them more
\* often than MAX_STATE_ENTRIES (INV-03).
THEOREM TypeCorrect == Spec => []TypeOK
<1>1. IInv => TypeOK
  BY DEF IInv
<1> QED BY <1>1, Inductive, PTL

\* All failed attempts together are at most MAX_STATE_ENTRIES, because each
\* used up an entry of IN_DEVELOPMENT.
THEOREM AttemptsBounded == Spec => []FailedAttemptsBounded
<1>1. IInv => FailedAttemptsBounded
  <2> SUFFICES ASSUME IInv PROVE FailedAttemptsBounded
    OBVIOUS
  <2>1. \A s \in TaskState : entries[s] \in 0 .. MaxStateEntries
    BY DEF IInv, TypeOK
  <2>2. AttemptConserved /\ Here(Attempt) \in {0, 1}
    BY DEF IInv, Conservation, Here
  <2> QED
    BY <2>1, <2>2, MaxStateEntriesAssumption
       DEF FailedAttemptsBounded, AttemptConserved, TaskState
<1> QED BY <1>1, Inductive, PTL

\* A task is not deployed more often than approved, nor decided more often
\* than reviewed, nor reviewed more often than validated (INV-01, INV-07).
THEOREM ReviewBeforeDeployment == Spec => []DeploymentsAreReviewed
<1>1. IInv => DeploymentsAreReviewed
  <2> SUFFICES ASSUME IInv PROVE DeploymentsAreReviewed
    OBVIOUS
  <2>1. \A s \in TaskState : entries[s] \in Nat
    BY MaxStateEntriesAssumption DEF IInv, TypeOK
  <2>2. \A S : Here(S) \in {0, 1}
    BY DEF Here
  <2> QED
    BY <2>1, <2>2
       DEF DeploymentsAreReviewed, IInv, Conservation, DevelopmentConserved,
           HandoverConserved, ValidationConserved, OptimizationConserved,
           RequestConserved, ReviewConserved, ApprovalConserved, TaskState
<1> QED BY <1>1, Inductive, PTL

\* A state that cannot be cancelled has a way out whose entries are fewer than
\* its own; the others have CANCELLED, which was not entered yet.
LEMMA WayOut == IInv => NeverWedged
<1> SUFFICES ASSUME IInv, state \notin TERMINAL_STATES
             PROVE  \E target \in TaskState : Allowed(target)
  BY DEF NeverWedged
<1> DEFINE Exit == CASE state = "PARSING"           -> "PARSED"
                     [] state = "IN_DEVELOPMENT"    -> "CODE_GENERATED"
                     [] state = "IN_VALIDATION"     -> "VALIDATION_PASSED"
                     [] state = "VALIDATION_PASSED" -> "APPROVAL_PENDING"
                     [] state = "APPROVAL_PENDING"  -> "IN_REVIEW"
                     [] state = "IN_REVIEW"         -> "APPROVED"
                     [] state = "DEPLOYING"         -> "DEPLOYED"
                     [] state = "DEPLOYED"          -> "COMPLETED"
                     [] OTHER                       -> "CANCELLED"
<1>1. state \in TaskState /\ \A s \in TaskState : entries[s] \in 0 .. MaxStateEntries
  BY DEF IInv, TypeOK
<1>2. Exit \in TaskState /\ <<state, Exit>> \in VALID_TRANSITIONS
  BY <1>1 DEF VALID_TRANSITIONS, ForwardTransitions, Cancellable, TaskState,
              TERMINAL_STATES
<1>3. entries[Exit] < MaxStateEntries
  BY <1>1, MaxStateEntriesAssumption
     DEF TaskState, TERMINAL_STATES, Here, IInv, Conservation, ParsingConserved,
         DevelopmentConserved, ValidationConserved, OptimizationConserved,
         RequestConserved, ReviewConserved, DeploymentConserved, CancelledOnce,
         Optimization
<1> QED BY <1>2, <1>3 DEF Allowed

\* Whitelist and loop guard together never trap a task.
THEOREM NotWedged == Spec => []NeverWedged
BY WayOut, Inductive, PTL
=============================================================================
