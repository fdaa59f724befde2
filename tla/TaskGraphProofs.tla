-------------------------- MODULE TaskGraphProofs ---------------------------
(***************************************************************************)
(* Proofs about TaskGraph, whatever the hash order, the failures and the   *)
(* moves by hand.                                                          *)
(*                                                                         *)
(* Why a run does not come far: the transition of its third node would     *)
(* leave the state before SUBMITTED's successor, that is SUBMITTED, for a  *)
(* state that is two steps away; the whitelist has no such pair.  So a     *)
(* run records one transition at most, and that one leaves the state the   *)
(* run replayed at its beginning.                                          *)
(***************************************************************************)
EXTENDS TaskGraph, TLAPS

\* The only nodes whose work is ever begun.
Reached == {"SUBMITTED", "PARSING", "CANCELLED", "PARSED", "PARSE_FAILED"}

\* The stages of a run that is under way.
AtStart ==
    /\ node = "START" /\ current = began
    /\ previous = Nothing
    /\ recorded = <<>>

AtSubmitted ==
    /\ node = "SUBMITTED" /\ current = "SUBMITTED"
    /\ previous = began
    /\ recorded = <<>>

AtParsing == node = "PARSING" /\ previous = "SUBMITTED"

AtCancelled == node = "CANCELLED"

ComesNotFar ==
    /\ entered \subseteq Reached
    /\ run = "running" => AtStart \/ AtSubmitted \/ AtParsing \/ AtCancelled

RecordsOnce ==
    \/ recorded = <<>>
    \/ \E s \in TaskState : recorded = <<<<began, s>>>>

IInv == RunTypeOK /\ ComesNotFar /\ RecordsOnce

-----------------------------------------------------------------------------
\* Every transition of the whitelist is one of two states.
LEMMA WhitelistTyped == VALID_TRANSITIONS \subseteq TaskState \X TaskState
BY DEF VALID_TRANSITIONS, ForwardTransitions, Cancellable, TaskState

\* Neither the start node nor the mark for no state is a state.
LEMMA NoState == Nothing \notin TaskState /\ "START" \notin TaskState
BY DEF Nothing, TaskState

\* Nothing has run yet.
LEMMA InitIInv == RunInit => IInv
<1> SUFFICES ASSUME RunInit PROVE IInv
  OBVIOUS
<1>1. RunTypeOK
  BY DEF RunInit, RunTypeOK, TaskState
<1>2. ComesNotFar /\ RecordsOnce
  BY DEF RunInit, ComesNotFar, RecordsOnce
<1> QED BY <1>1, <1>2 DEF IInv

\* A new run begins at START with nothing recorded.
LEMMA StartKeeps == IInv /\ Start => IInv'
<1> SUFFICES ASSUME IInv, Start PROVE IInv'
  OBVIOUS
<1>1. RunTypeOK'
  BY DEF IInv, RunTypeOK, Start
<1>2. ComesNotFar' /\ RecordsOnce'
  BY DEF ComesNotFar, RecordsOnce, AtStart, Start
<1> QED BY <1>1, <1>2 DEF IInv

\* The edges a run can take, stage by stage.
LEMMA Edges ==
    ASSUME IInv, run = "running", NEW s \in TaskState, Leads(s)
    PROVE  \/ AtStart /\ s = "SUBMITTED"
           \/ AtSubmitted /\ s \in {"PARSING", "CANCELLED"}
           \/ AtParsing /\ s \in {"PARSED", "PARSE_FAILED"}
<1>1. AtStart \/ AtSubmitted \/ AtParsing \/ AtCancelled
  BY DEF IInv, ComesNotFar
<1>2. node # "START" => <<node, s>> \in VALID_TRANSITIONS
  BY DEF Leads, Targets
<1>3. CASE AtStart
  BY <1>3 DEF AtStart, Leads
<1>4. CASE AtSubmitted
  BY <1>2, <1>4
     DEF AtSubmitted, VALID_TRANSITIONS, ForwardTransitions, Cancellable
<1>5. CASE AtParsing
  BY <1>2, <1>5
     DEF AtParsing, VALID_TRANSITIONS, ForwardTransitions, Cancellable
<1>6. CASE AtCancelled
  BY <1>2, <1>6
     DEF AtCancelled, VALID_TRANSITIONS, ForwardTransitions, Cancellable
<1> QED BY <1>1, <1>3, <1>4, <1>5, <1>6

\* The order of the targets, drawn or not, stays an order of states.
LEMMA LeadsTyped ==
    ASSUME RunTypeOK, NEW s \in TaskState, Leads(s)
    PROVE  order' \in [TaskState -> TaskState \cup {Undrawn}]
<1>1. CASE node = "START"
  BY <1>1 DEF Leads, RunTypeOK
<1>2. CASE node # "START"
  BY <1>2 DEF Leads, RunTypeOK
<1> QED BY <1>1, <1>2

\* A node is entered: the first always, the second if its transition leaves
\* the replayed state, the third never gets to record.
LEMMA EnterKeeps ==
    ASSUME IInv, NEW s \in TaskState, Enter(s)
    PROVE  IInv'
<1>1. run = "running" /\ Leads(s) /\ entered' = entered \cup {s} /\ UNCHANGED began
  BY DEF Enter
<1>2. order' \in [TaskState -> TaskState \cup {Undrawn}]
  BY <1>1, LeadsTyped DEF IInv
<1>3. CASE AtStart /\ s = "SUBMITTED"
  <2>1. /\ node' = s /\ current' = s /\ previous' = current /\ run' = run
        /\ UNCHANGED <<current_state, recorded>>
    BY <1>3 DEF Enter, FromState, AtStart
  <2>2. RunTypeOK'
    BY <1>1, <1>2, <2>1 DEF IInv, RunTypeOK
  <2>3. AtSubmitted'
    BY <1>1, <1>3, <2>1 DEF AtStart, AtSubmitted
  <2> QED
    BY <1>1, <1>3, <2>1, <2>2, <2>3
       DEF IInv, ComesNotFar, RecordsOnce, Reached
<1>4. CASE AtSubmitted /\ s \in {"PARSING", "CANCELLED"} /\ Validated(s)
  <2>1. FromState = began /\ began # Nothing
    BY <1>4, NoState DEF IInv, RunTypeOK, FromState, AtSubmitted
  <2>2. /\ node' = s /\ current' = s /\ previous' = "SUBMITTED" /\ run' = run
        /\ current_state' = s
        /\ recorded' = Append(<<>>, <<began, s>>)
    BY <1>4, <2>1 DEF Enter, Validated, AtSubmitted
  <2>3. recorded' = <<<<began, s>>>>
    BY <2>2
  <2>4. <<began, s>> \in VALID_TRANSITIONS
    BY <1>4, <2>1 DEF Validated
  <2>5. recorded' \in Seq(VALID_TRANSITIONS)
    BY <2>3, <2>4
  <2>6. RunTypeOK'
    BY <1>1, <1>2, <2>2, <2>5 DEF IInv, RunTypeOK, TaskState
  <2>7. AtParsing' \/ AtCancelled'
    BY <1>4, <2>2 DEF AtParsing, AtCancelled
  <2>8. RecordsOnce'
    BY <1>1, <2>3 DEF RecordsOnce
  <2> QED
    BY <1>1, <1>4, <2>6, <2>7, <2>8 DEF IInv, ComesNotFar, Reached
<1>5. CASE /\ AtSubmitted \/ AtParsing
           /\ s \in Reached
           /\ FromState # Nothing /\ ~ Validated(s)
  <2>1. run' = "raised" /\ UNCHANGED <<graphState, current_state, recorded>>
    BY <1>5 DEF Enter
  <2>2. RunTypeOK'
    BY <1>1, <1>2, <2>1 DEF IInv, RunTypeOK, graphState
  <2> QED
    BY <1>1, <1>5, <2>1, <2>2 DEF IInv, ComesNotFar, RecordsOnce
<1>6. CASE AtSubmitted /\ s \in {"PARSING", "CANCELLED"} /\ ~ Validated(s)
  BY <1>5, <1>6, NoState
     DEF IInv, RunTypeOK, AtSubmitted, FromState, Reached
<1>7. CASE AtParsing /\ s \in {"PARSED", "PARSE_FAILED"}
  <2>1. FromState = "SUBMITTED"
    BY <1>7 DEF AtParsing, FromState
  <2>2. <<"SUBMITTED", s>> \notin VALID_TRANSITIONS
    BY <1>7 DEF VALID_TRANSITIONS, ForwardTransitions, Cancellable
  <2> QED
    BY <1>5, <1>7, <2>1, <2>2 DEF Validated, Reached, Nothing
<1> QED BY <1>1, <1>3, <1>4, <1>6, <1>7, Edges

\* A write that fails ends the run and records nothing.
LEMMA EnterFailsKeeps ==
    ASSUME IInv, NEW s \in TaskState, EnterFails(s)
    PROVE  IInv'
<1>1. /\ run = "running" /\ Leads(s) /\ run' = "raised"
      /\ entered' = entered \cup {s}
      /\ UNCHANGED <<current_state, graphState, began, recorded>>
  BY DEF EnterFails
<1>2. order' \in [TaskState -> TaskState \cup {Undrawn}]
  BY <1>1, LeadsTyped DEF IInv
<1>3. s \in Reached
  BY <1>1, Edges DEF Reached
<1>4. RunTypeOK'
  BY <1>1, <1>2 DEF IInv, RunTypeOK, graphState
<1> QED
  BY <1>1, <1>3, <1>4 DEF IInv, ComesNotFar, RecordsOnce

\* Whatever happens beside a run leaves its stage alone or ends it.
LEMMA OthersKeep ==
    ASSUME IInv, End \/ Restart \/ (\E t \in TaskState : MoveByHand(t))
    PROVE  IInv'
<1>1. CASE End
  BY <1>1 DEF IInv, RunTypeOK, ComesNotFar, RecordsOnce, End, graphState
<1>2. CASE Restart
  <2>1. run' \in {"idle", "ended", "raised"}
    BY <1>2 DEF IInv, RunTypeOK, Restart
  <2>2. RunTypeOK'
    BY <1>2, <2>1 DEF IInv, RunTypeOK, Restart, graphState
  <2> QED
    BY <1>2, <2>1, <2>2 DEF IInv, ComesNotFar, RecordsOnce, Restart
<1>3. ASSUME NEW t \in TaskState, MoveByHand(t) PROVE IInv'
  BY <1>3
     DEF IInv, RunTypeOK, ComesNotFar, RecordsOnce, AtStart, AtSubmitted, AtParsing,
         AtCancelled, MoveByHand, graphState
<1> QED BY <1>1, <1>2, <1>3

\* Every step of the specification keeps the invariant.
LEMMA NextIInv == IInv /\ [RunNext]_runVars => IInv'
<1> SUFFICES ASSUME IInv, [RunNext]_runVars PROVE IInv'
  OBVIOUS
<1>1. CASE Start
  BY <1>1, StartKeeps
<1>2. ASSUME NEW s \in TaskState, Enter(s) PROVE IInv'
  BY <1>2, EnterKeeps
<1>3. ASSUME NEW s \in TaskState, EnterFails(s) PROVE IInv'
  BY <1>3, EnterFailsKeeps
<1>4. CASE End \/ Restart \/ (\E t \in TaskState : MoveByHand(t))
  BY <1>4, OthersKeep
<1>5. CASE UNCHANGED runVars
  BY <1>5
     DEF IInv, RunTypeOK, ComesNotFar, RecordsOnce, AtStart, AtSubmitted, AtParsing,
         AtCancelled, runVars, graphState
<1> QED BY <1>1, <1>2, <1>3, <1>4, <1>5 DEF RunNext, Advance

\* The inductive invariant of all runs.
THEOREM Inductive == RunSpec => []IInv
BY InitIInv, NextIInv, PTL DEF RunSpec

-----------------------------------------------------------------------------
\* No run of the graph enters a node that asks an agent, the analysis, the
\* approval engine or the platform for anything: why the endpoint does not do what
\* it documents, and why no run deploys without a human either.
THEOREM RunsDoNothing == RunSpec => [](entered \cap EffectfulNodes = {})
<1>1. IInv => entered \cap EffectfulNodes = {}
  BY DEF IInv, ComesNotFar, Reached, EffectfulNodes
<1> QED BY <1>1, Inductive, PTL

\* What a run records continues the history it replayed.
THEOREM RunsRecordPaths == RunSpec => []RecordsAPath
<1>1. IInv => RecordsAPath
  BY DEF IInv, RecordsOnce, RecordsAPath
<1> QED BY <1>1, Inductive, PTL
=============================================================================
