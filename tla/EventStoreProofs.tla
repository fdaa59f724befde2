-------------------------- MODULE EventStoreProofs --------------------------
(***************************************************************************)
(* Proofs about EventStore, for any number of callers, any length of       *)
(* history and any transitions that are recorded unguarded.                *)
(*                                                                         *)
(* Why the log stays consistent: the number a call has read is at most one *)
(* more than the length of the history, for ever, because the history only *)
(* grows; so a number that is not taken when the call commits is exactly   *)
(* the next one.  Why its rows are justified: what a call once read of the *)
(* history stays true of that part of it.                                  *)
(*                                                                         *)
(* How far the limit on entries is missed: a caller passes the loop guard  *)
(* below the limit, and only the others who have passed it are still to    *)
(* write.  And with one caller none of this happens: the store implements  *)
(* TaskLifecycle.                                                          *)
(***************************************************************************)
EXTENDS EventStore, SequenceTheorems, FiniteSetTheorems, TLAPS

\* Once it has one, a call's number is the next or was so before.
NumberedInTime ==
    \A c \in Clients : pc[c] = "numbered" => seq[c] \in 1 .. Len(transitions) + 1

\* A call that read its from_state read it of a part of the history.
ReadInHistory ==
    \A c \in Clients :
        seen[c] # NotRead =>
            /\ pc[c] # "idle"
            /\ seen[c] <= Len(transitions)
            /\ from[c] = StateAfter(seen[c])

\* A call that has its number has passed the whitelist.
NumberedIsValid ==
    \A c \in Clients :
        pc[c] = "numbered" => <<from[c], target[c]>> \in VALID_TRANSITIONS

IInv ==
    /\ TypeOK
    /\ LogConsistent
    /\ RowsAreJustified
    /\ NumberedInTime
    /\ ReadInHistory
    /\ NumberedIsValid

-----------------------------------------------------------------------------
\* Every transition of the whitelist is one of two states.
LEMMA WhitelistTyped == VALID_TRANSITIONS \subseteq TaskState \X TaskState
BY DEF VALID_TRANSITIONS, ForwardTransitions, Cancellable, TaskState

\* In a consistent log the largest number is the length.
LEMMA MaxIsLength ==
    ASSUME TypeOK, LogConsistent
    PROVE  MaxSequenceNum = Len(transitions)
<1> DEFINE nums == {transitions[i].sequence_num : i \in DOMAIN transitions}
<1>1. Len(transitions) \in Nat /\ DOMAIN transitions = 1 .. Len(transitions)
  BY DEF TypeOK
<1>2. nums = 1 .. Len(transitions)
  BY <1>1 DEF LogConsistent
<1>3. MaxSequenceNum =
        IF nums = {} THEN 0 ELSE CHOOSE n \in nums : \A m \in nums : m <= n
  BY DEF MaxSequenceNum
<1> HIDE DEF nums
<1>4. CASE Len(transitions) = 0
  BY <1>1, <1>2, <1>3, <1>4
<1>5. CASE Len(transitions) # 0
  <2>1. nums # {}
    BY <1>1, <1>2, <1>5
  <2>2. Len(transitions) \in nums
    BY <1>1, <1>2, <1>5
  <2>3. \A n \in nums : n \in Nat /\ n <= Len(transitions)
    BY <1>1, <1>2
  <2>4. ASSUME NEW n \in nums, \A m \in nums : m <= n
        PROVE  n = Len(transitions)
    BY <1>1, <2>2, <2>3, <2>4
  <2>5. (CHOOSE n \in nums : \A m \in nums : m <= n) = Len(transitions)
    BY <2>2, <2>3, <2>4
  <2> QED BY <1>3, <2>1, <2>5
<1> QED BY <1>4, <1>5

\* So replay gives the state after the last row.
LEMMA ReplayIsLast ==
    ASSUME TypeOK, LogConsistent
    PROVE  /\ Replayed = StateAfter(Len(transitions))
           /\ Replayed \in TaskState
<1>1. Len(transitions) \in Nat /\ DOMAIN transitions = 1 .. Len(transitions)
  BY DEF TypeOK
<1>2. MaxSequenceNum = Len(transitions)
  BY MaxIsLength
<1>3. CASE Len(transitions) = 0
  <2>1. transitions = <<>>
    BY <1>3, EmptySeq DEF TypeOK
  <2> QED BY <1>3, <2>1 DEF Replayed, StateAfter, TaskState
<1>4. CASE Len(transitions) # 0
  <2>1. transitions # <<>>
    BY <1>4
  <2>2. \A i \in DOMAIN transitions :
           transitions[i].sequence_num = MaxSequenceNum <=> i = Len(transitions)
    BY <1>1, <1>2 DEF LogConsistent
  <2> DEFINE last == CHOOSE i \in DOMAIN transitions :
                        transitions[i].sequence_num = MaxSequenceNum
  <2>3. last = Len(transitions)
    BY <1>1, <1>4, <2>2
  <2>4. transitions[Len(transitions)] \in Row
    BY <1>1, <1>4 DEF TypeOK
  <2>5. Replayed = transitions[last].to_state
    BY <2>1 DEF Replayed
  <2> HIDE DEF last
  <2> QED BY <1>4, <2>3, <2>4, <2>5 DEF StateAfter, Row
<1> QED BY <1>3, <1>4

-----------------------------------------------------------------------------
\* The log is empty and nobody has called.
LEMMA InitIInv == Init => IInv
<1> SUFFICES ASSUME Init PROVE IInv
  OBVIOUS
<1>1. TypeOK
  BY DEF Init, TypeOK, TaskState, NotRead
<1>2. LogConsistent
  BY DEF Init, LogConsistent, StateAfter
<1>3. RowsAreJustified
  BY DEF Init, RowsAreJustified
<1>4. NumberedInTime /\ ReadInHistory /\ NumberedIsValid
  BY DEF Init, NumberedInTime, ReadInHistory, NumberedIsValid
<1> QED BY <1>1, <1>2, <1>3, <1>4 DEF IInv

\* As long as the rows stay, only the callers' locals matter.
LEMMA RowsUnchanged ==
    ASSUME IInv, UNCHANGED rows
    PROVE  LogConsistent' /\ RowsAreJustified'
BY DEF IInv, LogConsistent, RowsAreJustified, StateAfter, rows

\* A call that is over promises nothing any more.
LEMMA ReturnForgets ==
    ASSUME IInv, NEW c \in Clients, Return(c), UNCHANGED rows
    PROVE  IInv'
<1>1. TypeOK'
  BY DEF IInv, TypeOK, Return, rows, TaskState, NotRead
<1>2. NumberedInTime'
  BY DEF IInv, TypeOK, NumberedInTime, Return, rows
<1>3. ReadInHistory'
  BY DEF IInv, TypeOK, ReadInHistory, StateAfter, Return, rows
<1>4. NumberedIsValid'
  BY DEF IInv, TypeOK, NumberedIsValid, Return
<1> QED BY <1>1, <1>2, <1>3, <1>4, RowsUnchanged DEF IInv

\* transition() begins with a state it read from the whole history.
LEMMA ReplayKeeps ==
    ASSUME IInv, NEW c \in Clients, NEW t \in TaskState, Replay(c, t)
    PROVE  IInv'
<1>1. UNCHANGED rows
  BY DEF Replay
<1>2. Replayed = StateAfter(Len(transitions)) /\ Replayed \in TaskState
  BY ReplayIsLast DEF IInv
<1>3. Len(transitions) \in Nat
  BY DEF IInv, TypeOK
<1>4. TypeOK'
  BY <1>1, <1>2, <1>3 DEF IInv, TypeOK, Replay, rows
<1>5. NumberedInTime'
  BY <1>1 DEF IInv, TypeOK, NumberedInTime, Replay, rows
<1>6. ReadInHistory'
  BY <1>1, <1>2, <1>3 DEF IInv, TypeOK, ReadInHistory, StateAfter, Replay, rows
<1>7. NumberedIsValid'
  BY <1>1 DEF IInv, TypeOK, NumberedIsValid, Replay
<1> QED BY <1>1, <1>4, <1>5, <1>6, <1>7, RowsUnchanged DEF IInv

\* Passing the guards changes nothing but how far the call has come.
LEMMA GuardKeeps ==
    ASSUME IInv, NEW c \in Clients, Guard(c)
    PROVE  IInv'
<1>1. UNCHANGED rows
  BY DEF Guard
<1>2. TypeOK'
  BY DEF IInv, TypeOK, Guard, rows
<1>3. NumberedInTime'
  BY <1>1 DEF IInv, TypeOK, NumberedInTime, Guard, rows
<1>4. ReadInHistory'
  BY <1>1 DEF IInv, TypeOK, ReadInHistory, StateAfter, Guard, rows
<1>5. NumberedIsValid'
  BY DEF IInv, TypeOK, NumberedIsValid, Guard
<1> QED BY <1>1, <1>2, <1>3, <1>4, <1>5, RowsUnchanged DEF IInv

\* A caller that spells out its from_state has read nothing.
LEMMA CallDirectlyKeeps ==
    ASSUME IInv, NEW c \in Clients, NEW e \in SpelledOut,
           CallDirectly(c, e[1], e[2])
    PROVE  IInv'
<1>1. UNCHANGED rows
  BY DEF CallDirectly
<1>2. e \in TaskState \X TaskState
  BY EventStoreAssumption, WhitelistTyped
<1>3. TypeOK'
  BY <1>2 DEF IInv, TypeOK, CallDirectly, rows
<1>4. NumberedInTime'
  BY <1>1 DEF IInv, TypeOK, NumberedInTime, CallDirectly, rows
<1>5. ReadInHistory'
  BY <1>1 DEF IInv, TypeOK, ReadInHistory, StateAfter, CallDirectly, rows
<1>6. NumberedIsValid'
  BY <1>2 DEF IInv, TypeOK, NumberedIsValid, CallDirectly
<1> QED BY <1>1, <1>3, <1>4, <1>5, <1>6, RowsUnchanged DEF IInv

\* The number a call reads is the length of the history plus one.
LEMMA NumberKeeps ==
    ASSUME IInv, NEW c \in Clients, Number(c)
    PROVE  IInv'
<1>1. UNCHANGED rows
  BY DEF Number
<1>2. MaxSequenceNum = Len(transitions) /\ Len(transitions) \in Nat
  BY MaxIsLength DEF IInv, TypeOK
<1>3. TypeOK'
  BY <1>2 DEF IInv, TypeOK, Number, rows
<1>4. NumberedInTime'
  BY <1>1, <1>2 DEF IInv, TypeOK, NumberedInTime, Number, rows
<1>5. ReadInHistory'
  BY <1>1 DEF IInv, TypeOK, ReadInHistory, StateAfter, Number, rows
<1>6. NumberedIsValid'
  BY DEF IInv, TypeOK, NumberedIsValid, Number
<1> QED BY <1>1, <1>3, <1>4, <1>5, <1>6, RowsUnchanged DEF IInv

\* A number that is not taken at the commit is the next one, so the row that
\* is appended continues the log.
LEMMA CommitKeeps ==
    ASSUME IInv, NEW c \in Clients, Commit(c)
    PROVE  IInv'
<1> DEFINE n == Len(transitions)
           new == [sequence_num |-> seq[c], from_state |-> from[c],
                   to_state |-> target[c], seen |-> seen[c]]
           entry == [sequence_num |-> seq[c], from_state |-> from[c],
                     to_state |-> target[c]]
           StateAfterwards(k) ==
              IF k = 0 THEN "SUBMITTED" ELSE transitions'[k].to_state
<1>1. /\ transitions' = Append(transitions, new)
      /\ audit' = Append(audit, entry)
      /\ current_state' = target[c]
  BY DEF Commit, InsertRows
<1>2. /\ transitions \in Seq(Row) /\ audit \in Seq(AuditRow)
      /\ n \in Nat /\ Len(audit) = n
      /\ DOMAIN transitions = 1 .. n /\ DOMAIN audit = 1 .. n
      /\ new \in Row /\ entry \in AuditRow
  BY DEF IInv, TypeOK, LogConsistent, Row, AuditRow
<1>3. seq[c] = n + 1
  <2>1. seq[c] \in 1 .. n + 1
    BY DEF IInv, NumberedInTime, Commit
  <2>2. \A i \in 1 .. n : transitions[i].sequence_num = i
    BY <1>2 DEF IInv, LogConsistent
  <2>3. seq[c] \notin 1 .. n
    BY <1>2, <2>2 DEF Commit, Taken
  <2> QED BY <1>2, <2>1, <2>3
<1> HIDE DEF n, new, entry
<1>4. /\ transitions' \in Seq(Row) /\ audit' \in Seq(AuditRow)
      /\ Len(transitions') = n + 1 /\ Len(audit') = n + 1
      /\ DOMAIN transitions' = 1 .. n + 1
      /\ \A i \in 1 .. n : transitions'[i] = transitions[i] /\ audit'[i] = audit[i]
      /\ transitions'[n + 1] = new /\ audit'[n + 1] = entry
  BY <1>1, <1>2 DEF n
<1>5. \A k \in 0 .. n : StateAfterwards(k) = StateAfter(k)
  BY <1>2, <1>4 DEF StateAfter
<1>6. TypeOK'
  BY <1>1, <1>4 DEF IInv, TypeOK, Commit, Return, TaskState, NotRead
<1>7. LogConsistent'
  <2>1. \A i \in DOMAIN transitions' : transitions'[i].sequence_num = i
    BY <1>2, <1>3, <1>4 DEF IInv, LogConsistent, new
  <2>2. current_state' = StateAfter(Len(transitions))'
    BY <1>1, <1>2, <1>4 DEF StateAfter, new
  <2>3. \A i \in DOMAIN transitions' :
           audit'[i] = [sequence_num |-> transitions'[i].sequence_num,
                        from_state |-> transitions'[i].from_state,
                        to_state |-> transitions'[i].to_state]
    BY <1>2, <1>4 DEF IInv, LogConsistent, new, entry
  <2> QED BY <1>4, <2>1, <2>2, <2>3 DEF LogConsistent
<1>8. RowsAreJustified'
  <2> SUFFICES ASSUME NEW i \in 1 .. n + 1
               PROVE  LET row == transitions'[i]
                      IN  /\ <<row.from_state, row.to_state>> \in VALID_TRANSITIONS
                          /\ row.seen # NotRead =>
                                /\ row.seen < i
                                /\ row.from_state = StateAfterwards(row.seen)
    BY <1>4 DEF RowsAreJustified, StateAfter
  <2> HIDE DEF StateAfterwards
  <2>1. CASE i \in 1 .. n
    <3>1. transitions[i] \in Row /\ transitions'[i] = transitions[i]
      BY <1>2, <1>4, <2>1
    <3>2. transitions[i].seen # NotRead =>
            /\ transitions[i].seen < i /\ transitions[i].seen \in 0 .. n
            /\ transitions[i].from_state = StateAfter(transitions[i].seen)
      <4>1. transitions[i].seen \in Nat \cup {NotRead}
        BY <3>1 DEF Row
      <4>2. transitions[i].seen # NotRead =>
              /\ transitions[i].seen < i
              /\ transitions[i].from_state = StateAfter(transitions[i].seen)
        BY <1>2, <2>1 DEF IInv, RowsAreJustified
      <4> QED BY <1>2, <2>1, <4>1, <4>2
    <3> QED
      BY <1>2, <1>5, <2>1, <3>1, <3>2 DEF IInv, RowsAreJustified
  <2>2. CASE i = n + 1
    <3>1. seen[c] # NotRead =>
            seen[c] \in 0 .. n /\ from[c] = StateAfter(seen[c])
      BY <1>2 DEF IInv, TypeOK, ReadInHistory, n
    <3>2. <<from[c], target[c]>> \in VALID_TRANSITIONS
      BY DEF IInv, NumberedIsValid, Commit
    <3>3. /\ transitions'[i].from_state = from[c]
          /\ transitions'[i].to_state = target[c]
          /\ transitions'[i].seen = seen[c]
      BY <1>4, <2>2 DEF new
    <3>4. seen[c] # NotRead => seen[c] < i /\ from[c] = StateAfterwards(seen[c])
      BY <1>2, <1>5, <2>2, <3>1
    <3> QED BY <3>2, <3>3, <3>4
  <2> QED BY <1>2, <2>1, <2>2
<1>9. NumberedInTime'
  BY <1>2, <1>4 DEF IInv, TypeOK, NumberedInTime, Commit, Return, n
<1>10. ReadInHistory'
  <2> SUFFICES ASSUME NEW d \in Clients, seen'[d] # NotRead
               PROVE  /\ pc'[d] # "idle"
                      /\ seen'[d] <= Len(transitions')
                      /\ from'[d] = StateAfterwards(seen'[d])
    BY DEF ReadInHistory, StateAfter
  <2>1. d # c /\ seen'[d] = seen[d] /\ from'[d] = from[d] /\ pc'[d] = pc[d]
    BY DEF IInv, TypeOK, Commit, Return
  <2>2. seen[d] \in 0 .. n /\ pc[d] # "idle" /\ from[d] = StateAfter(seen[d])
    BY <1>2, <2>1 DEF IInv, TypeOK, ReadInHistory, n
  <2>3. StateAfterwards(seen'[d]) = StateAfter(seen[d])
    BY <1>5, <2>1, <2>2
  <2> QED BY <1>2, <1>4, <2>1, <2>2, <2>3
<1>11. NumberedIsValid'
  BY DEF IInv, TypeOK, NumberedIsValid, Commit, Return
<1> QED BY <1>6, <1>7, <1>8, <1>9, <1>10, <1>11 DEF IInv

\* Every step of the specification keeps the invariant.
LEMMA NextIInv == IInv /\ [Next]_vars => IInv'
<1> SUFFICES ASSUME IInv, [Next]_vars PROVE IInv'
  OBVIOUS
<1>1. ASSUME NEW c \in Clients, NEW t \in TaskState, Replay(c, t) PROVE IInv'
  BY <1>1, ReplayKeeps
<1>2. ASSUME NEW c \in Clients, NEW e \in SpelledOut, CallDirectly(c, e[1], e[2])
      PROVE  IInv'
  BY <1>2, CallDirectlyKeeps
<1>3. ASSUME NEW c \in Clients, Guard(c) PROVE IInv'
  BY <1>3, GuardKeeps
<1>4. ASSUME NEW c \in Clients, Refuse(c) \/ Conflict(c) \/ Fail(c) PROVE IInv'
  BY <1>4, ReturnForgets DEF Refuse, Conflict, Fail
<1>5. ASSUME NEW c \in Clients, Number(c) PROVE IInv'
  BY <1>5, NumberKeeps
<1>6. ASSUME NEW c \in Clients, Commit(c) PROVE IInv'
  BY <1>6, CommitKeeps
<1>7. CASE UNCHANGED vars
  BY <1>7, RowsUnchanged
     DEF IInv, TypeOK, NumberedInTime, ReadInHistory, NumberedIsValid, StateAfter,
         vars, rows, locals
<1> QED BY <1>1, <1>2, <1>3, <1>4, <1>5, <1>6, <1>7 DEF Next

\* The inductive invariant, for any callers and any failures.
THEOREM Inductive == Spec => []IInv
BY InitIInv, NextIInv, PTL DEF Spec

-----------------------------------------------------------------------------
\* Rows, audit trail and locals are well formed; in particular a replay always
\* has a state to give.
THEOREM TypeCorrect == Spec => []TypeOK
<1>1. IInv => TypeOK
  BY DEF IInv
<1> QED BY <1>1, Inductive, PTL

\* INV-02 and INV-06: the history is numbered without gap or repetition, the
\* task's state is what replaying it gives, and the audit trail matches it.
THEOREM ConsistentLog == Spec => []LogConsistent
<1>1. IInv => LogConsistent
  BY DEF IInv
<1> QED BY <1>1, Inductive, PTL

\* Every row is a transition of the whitelist, and one written by transition()
\* leaves the state that its caller really read.
THEOREM JustifiedRows == Spec => []RowsAreJustified
<1>1. IInv => RowsAreJustified
  BY DEF IInv
<1> QED BY <1>1, Inductive, PTL
-----------------------------------------------------------------------------
(***************************************************************************)
(* How often a state is entered: the loop guard with callers between its   *)
(* reading and its writing.                                                *)
(***************************************************************************)

EntriesOf(s) == {i \in DOMAIN transitions : transitions[i].to_state = s}

LEMMA EntriesFinite ==
    ASSUME TypeOK, NEW s
    PROVE  /\ IsFiniteSet(EntriesOf(s)) /\ EntryCount(s) = Cardinality(EntriesOf(s))
           /\ EntryCount(s) \in Nat
<1>1. DOMAIN transitions = 1 .. Len(transitions) /\ Len(transitions) \in Nat
  BY DEF TypeOK
<1>2. IsFiniteSet(1 .. Len(transitions))
  BY <1>1, FS_Interval
<1>3. EntriesOf(s) \in SUBSET (1 .. Len(transitions))
  BY <1>1 DEF EntriesOf
<1>4. IsFiniteSet(EntriesOf(s))
  BY <1>2, <1>3, FS_Subset
<1>5. EntryCount(s) = Cardinality(EntriesOf(s))
  BY DEF EntryCount, EntriesOf
<1> QED BY <1>4, <1>5, FS_CardinalityType

\* A commit enters its target once more and no other state.
LEMMA CommitEnters ==
    ASSUME IInv, NEW c \in Clients, Commit(c), NEW s
    PROVE  EntryCount(s)' = IF s = target[c] THEN EntryCount(s) + 1 ELSE EntryCount(s)
<1> DEFINE n == Len(transitions)
           new == [sequence_num |-> seq[c], from_state |-> from[c],
                   to_state |-> target[c], seen |-> seen[c]]
<1>1. /\ transitions \in Seq(Row) /\ n \in Nat /\ DOMAIN transitions = 1 .. n
      /\ transitions' = Append(transitions, new) /\ new.to_state = target[c]
  BY DEF Commit, InsertRows, IInv, TypeOK
<1> HIDE DEF new
<1>2. /\ DOMAIN transitions' = 1 .. n + 1 /\ transitions'[n + 1] = new
      /\ \A i \in 1 .. n : transitions'[i] = transitions[i]
  BY <1>1
<1>3. IsFiniteSet(EntriesOf(s)) /\ EntryCount(s) = Cardinality(EntriesOf(s))
  BY EntriesFinite DEF IInv
<1>4. EntryCount(s)' = Cardinality(EntriesOf(s)')
  BY DEF EntryCount, EntriesOf
<1> HIDE DEF n
<1>5. CASE s = target[c]
  <2>1. EntriesOf(s)' = EntriesOf(s) \cup {n + 1}
    BY <1>1, <1>2, <1>5 DEF EntriesOf
  <2>2. n + 1 \notin EntriesOf(s)
    BY <1>1 DEF EntriesOf
  <2> QED BY <1>3, <1>4, <1>5, <2>1, <2>2, FS_AddElement
<1>6. CASE s # target[c]
  <2>1. EntriesOf(s)' = EntriesOf(s)
    BY <1>1, <1>2, <1>6 DEF EntriesOf
  <2> QED BY <1>3, <1>4, <1>6, <2>1
<1> QED BY <1>5, <1>6

\* The callers that are past their guard and will enter s.
Entering(s) == {c \in Clients : pc[c] \in {"recording", "numbered"} /\ target[c] = s}

Guarded == TaskState \ {e[2] : e \in SpelledOut}

\* Each of them was let pass when there was room, so together with the entries
\* they are at most one fewer than the limit and the callers.
RoomLeft ==
    /\ IsFiniteSet(Clients)
    /\ \A s \in Guarded :
          EntryCount(s) + Cardinality(Entering(s))
              <= MaxStateEntries - 1 + Cardinality(Clients)

LEMMA EnteringFinite ==
    ASSUME IsFiniteSet(Clients), NEW s
    PROVE  /\ IsFiniteSet(Entering(s)) /\ Cardinality(Entering(s)) \in Nat
           /\ Cardinality(Entering(s)) <= Cardinality(Clients)
           /\ Cardinality(Clients) \in Nat
<1>1. Entering(s) \in SUBSET Clients
  BY DEF Entering
<1> QED BY <1>1, FS_Subset, FS_CardinalityType

\* As long as no row is added and no caller more is on its way, there is room.
LEMMA RoomStays ==
    ASSUME IInv, RoomLeft, UNCHANGED transitions,
           \A s \in Guarded : Entering(s)' \subseteq Entering(s)
    PROVE  RoomLeft'
<1> SUFFICES ASSUME NEW s \in Guarded
             PROVE  EntryCount(s)' + Cardinality(Entering(s)')
                        <= MaxStateEntries - 1 + Cardinality(Clients)
  BY DEF RoomLeft, Guarded
<1>1. EntryCount(s)' = EntryCount(s) /\ EntryCount(s) \in Nat
  BY EntriesFinite DEF EntryCount, IInv
<1>2. /\ IsFiniteSet(Entering(s)) /\ Cardinality(Entering(s)) \in Nat
      /\ Cardinality(Clients) \in Nat
  BY EnteringFinite DEF RoomLeft
<1>3. Entering(s)' \in SUBSET Entering(s)
  OBVIOUS
<1>4. /\ IsFiniteSet(Entering(s)')
      /\ Cardinality(Entering(s)') <= Cardinality(Entering(s))
  BY <1>2, <1>3, FS_Subset
<1>5. Cardinality(Entering(s)') \in Nat
  BY <1>4, FS_CardinalityType
<1>6. EntryCount(s) + Cardinality(Entering(s)) <= MaxStateEntries - 1 + Cardinality(Clients)
  BY DEF RoomLeft
<1> QED BY <1>1, <1>2, <1>4, <1>5, <1>6, EventStoreAssumption

LEMMA ReturnLeavesRoom ==
    ASSUME IInv, RoomLeft, NEW c \in Clients, Return(c), UNCHANGED transitions
    PROVE  RoomLeft'
<1>1. \A s \in Guarded : Entering(s)' \subseteq Entering(s)
  BY DEF Return, Entering, IInv, TypeOK
<1> QED BY <1>1, RoomStays

LEMMA GuardLeavesRoom ==
    ASSUME IInv, RoomLeft, NEW c \in Clients, Guard(c)
    PROVE  RoomLeft'
<1> SUFFICES ASSUME NEW s \in Guarded
             PROVE  EntryCount(s)' + Cardinality(Entering(s)')
                        <= MaxStateEntries - 1 + Cardinality(Clients)
  BY DEF RoomLeft, Guarded
<1>1. EntryCount(s)' = EntryCount(s) /\ EntryCount(s) \in Nat
  BY EntriesFinite DEF EntryCount, IInv, Guard, rows
<1>2. /\ Cardinality(Entering(s)) \in Nat /\ Cardinality(Clients) \in Nat
  BY EnteringFinite DEF RoomLeft
<1>3. CASE s = target[c]
  <2>1. EntryCount(s) < MaxStateEntries
    BY <1>3 DEF Guard, GuardsPass
  <2>2. Entering(s)' \in SUBSET Clients
    BY DEF Entering
  <2>3. IsFiniteSet(Entering(s)') /\ Cardinality(Entering(s)') <= Cardinality(Clients)
    BY <2>2, FS_Subset DEF RoomLeft
  <2>4. Cardinality(Entering(s)') \in Nat
    BY <2>3, FS_CardinalityType
  <2> QED BY <1>1, <1>2, <2>1, <2>3, <2>4, EventStoreAssumption
<1>4. CASE s # target[c]
  <2>1. Entering(s)' = Entering(s)
    BY <1>4 DEF Guard, Entering, IInv, TypeOK
  <2>2. EntryCount(s) + Cardinality(Entering(s))
            <= MaxStateEntries - 1 + Cardinality(Clients)
    BY DEF RoomLeft
  <2> QED BY <1>1, <2>1, <2>2
<1> QED BY <1>3, <1>4

\* A commit turns a caller that was on its way into an entry.
LEMMA CommitLeavesRoom ==
    ASSUME IInv, RoomLeft, NEW c \in Clients, Commit(c)
    PROVE  RoomLeft'
<1> SUFFICES ASSUME NEW s \in Guarded
             PROVE  EntryCount(s)' + Cardinality(Entering(s)')
                        <= MaxStateEntries - 1 + Cardinality(Clients)
  BY DEF RoomLeft, Guarded
<1>1. EntryCount(s)' = IF s = target[c] THEN EntryCount(s) + 1 ELSE EntryCount(s)
  BY CommitEnters
<1>2. EntryCount(s) \in Nat
  BY EntriesFinite DEF IInv
<1>3. /\ IsFiniteSet(Entering(s)) /\ Cardinality(Entering(s)) \in Nat
      /\ Cardinality(Clients) \in Nat
  BY EnteringFinite DEF RoomLeft
<1>4. EntryCount(s) + Cardinality(Entering(s)) <= MaxStateEntries - 1 + Cardinality(Clients)
  BY DEF RoomLeft
<1>5. Entering(s)' = Entering(s) \ {c}
  BY DEF Commit, Return, Entering, IInv, TypeOK
<1>6. CASE s = target[c]
  <2>1. c \in Entering(s)
    BY <1>6 DEF Commit, Entering
  <2>2. Cardinality(Entering(s)') = Cardinality(Entering(s)) - 1
    BY <1>3, <1>5, <2>1, FS_RemoveElement
  <2> QED BY <1>1, <1>2, <1>3, <1>4, <1>6, <2>2, EventStoreAssumption
<1>7. CASE s # target[c]
  <2>1. Entering(s)' = Entering(s)
    BY <1>5, <1>7 DEF Entering
  <2> QED BY <1>1, <1>4, <1>7, <2>1
<1> QED BY <1>6, <1>7

LEMMA NextLeavesRoom == IInv /\ RoomLeft /\ [Next]_vars => RoomLeft'
<1> SUFFICES ASSUME IInv, RoomLeft, [Next]_vars PROVE RoomLeft'
  OBVIOUS
<1>1. ASSUME NEW c \in Clients, NEW t \in TaskState, Replay(c, t) PROVE RoomLeft'
  <2>1. \A s \in Guarded : Entering(s)' \subseteq Entering(s)
    BY <1>1 DEF Replay, Entering, IInv, TypeOK
  <2> QED BY <1>1, <2>1, RoomStays DEF Replay, rows
<1>2. ASSUME NEW c \in Clients, NEW e \in SpelledOut, CallDirectly(c, e[1], e[2])
      PROVE  RoomLeft'
  <2>1. \A s \in Guarded : s # e[2]
    BY DEF Guarded
  <2>2. \A s \in Guarded : Entering(s)' \subseteq Entering(s)
    BY <1>2, <2>1 DEF CallDirectly, Entering, IInv, TypeOK
  <2> QED BY <1>2, <2>2, RoomStays DEF CallDirectly, rows
<1>3. ASSUME NEW c \in Clients, Guard(c) PROVE RoomLeft'
  BY <1>3, GuardLeavesRoom
<1>4. ASSUME NEW c \in Clients, Refuse(c) \/ Conflict(c) \/ Fail(c) PROVE RoomLeft'
  BY <1>4, ReturnLeavesRoom DEF Refuse, Conflict, Fail, rows
<1>5. ASSUME NEW c \in Clients, Number(c) PROVE RoomLeft'
  <2>1. \A s \in Guarded : Entering(s)' \subseteq Entering(s)
    BY <1>5 DEF Number, Entering, IInv, TypeOK
  <2> QED BY <1>5, <2>1, RoomStays DEF Number, rows
<1>6. ASSUME NEW c \in Clients, Commit(c) PROVE RoomLeft'
  BY <1>6, CommitLeavesRoom
<1>7. CASE UNCHANGED vars
  <2>1. \A s \in Guarded : Entering(s)' \subseteq Entering(s)
    BY <1>7 DEF Entering, vars, locals
  <2> QED BY <1>7, <2>1, RoomStays DEF vars, rows
<1> QED BY <1>1, <1>2, <1>3, <1>4, <1>5, <1>6, <1>7 DEF Next

LEMMA InitLeavesRoom == Init /\ IsFiniteSet(Clients) => RoomLeft
<1> SUFFICES ASSUME Init, IsFiniteSet(Clients), NEW s \in Guarded
             PROVE  EntryCount(s) + Cardinality(Entering(s))
                        <= MaxStateEntries - 1 + Cardinality(Clients)
  BY DEF RoomLeft
<1>1. EntriesOf(s) = {} /\ Entering(s) = {}
  BY DEF Init, EntriesOf, Entering
<1>2. EntryCount(s) = 0 /\ Cardinality(Entering(s)) = 0
  BY <1>1, FS_EmptySet DEF EntryCount, EntriesOf
<1>3. Cardinality(Clients) \in Nat
  BY FS_CardinalityType
<1> QED BY <1>2, <1>3, EventStoreAssumption

\* With any finite number of callers that interleave and fail as they like, a
\* state that only transition() enters is entered at most once per further
\* caller too often.
THEOREM BoundedOvershoot == Spec /\ IsFiniteSet(Clients) => []OvershootBounded
<1>1. IInv /\ RoomLeft => OvershootBounded
  <2> SUFFICES ASSUME IInv, RoomLeft, NEW s \in Guarded
               PROVE  EntryCount(s) <= MaxStateEntries + Cardinality(Clients) - 1
    BY DEF OvershootBounded, Guarded
  <2>1. EntryCount(s) \in Nat
    BY EntriesFinite DEF IInv
  <2>2. Cardinality(Entering(s)) \in Nat /\ Cardinality(Clients) \in Nat
    BY EnteringFinite DEF RoomLeft
  <2>3. EntryCount(s) + Cardinality(Entering(s))
            <= MaxStateEntries - 1 + Cardinality(Clients)
    BY DEF RoomLeft
  <2> QED BY <2>1, <2>2, <2>3, EventStoreAssumption
<1> QED BY <1>1, InitLeavesRoom, NextLeavesRoom, Inductive, PTL DEF Spec
-----------------------------------------------------------------------------
(***************************************************************************)
(* One caller at a time that lets the history say where the task is: what  *)
(* it read is still the whole history when it writes.                      *)
(***************************************************************************)

OneCaller == SpelledOut = {} /\ \A c, d \in Clients : c = d

ReadAll ==
    \A c \in Clients :
        /\ pc[c] # "idle" => seen[c] = Len(transitions)
        /\ pc[c] \in {"recording", "numbered"} => EntryCount(target[c]) < MaxStateEntries

SerialInv == OneCaller /\ Chained /\ ReadAll

LEMMA InitSerial == Init /\ OneCaller => SerialInv
BY DEF Init, SerialInv, Chained, ReadAll

\* What is left of a call when the rows stay.
LEMMA SerialStays ==
    ASSUME IInv, SerialInv, UNCHANGED transitions,
           \A c \in Clients :
              \/ pc'[c] = "idle"
              \/ pc'[c] = "replayed" /\ seen'[c] = Len(transitions)
              \/ /\ pc[c] # "idle" /\ seen'[c] = seen[c] /\ target'[c] = target[c]
                 /\ \/ pc[c] \in {"recording", "numbered"}
                    \/ EntryCount(target[c]) < MaxStateEntries
    PROVE  SerialInv'
<1>1. \A s : EntryCount(s)' = EntryCount(s)
  BY DEF EntryCount
<1>2. Chained'
  BY DEF SerialInv, Chained, StateAfter
<1>3. ReadAll'
  <2> SUFFICES ASSUME NEW c \in Clients, pc'[c] # "idle"
               PROVE  /\ seen'[c] = Len(transitions)
                      /\ pc'[c] \in {"recording", "numbered"} =>
                             EntryCount(target'[c]) < MaxStateEntries
    <3>1. Len(transitions)' = Len(transitions)
      OBVIOUS
    <3>2. \A c \in Clients : EntryCount(target[c])' = EntryCount(target'[c])
      BY DEF EntryCount
    <3> QED BY <3>1, <3>2 DEF ReadAll
  <2> QED BY DEF SerialInv, ReadAll
<1> QED BY <1>2, <1>3 DEF SerialInv, OneCaller

\* The row that is committed leaves the state the task is in, and enters one
\* that has room.
LEMMA CommitIsAllowed ==
    ASSUME IInv, SerialInv, NEW c \in Clients, Commit(c)
    PROVE  /\ from[c] = current_state
           /\ <<current_state, target[c]>> \in VALID_TRANSITIONS
           /\ EntryCount(target[c]) < MaxStateEntries
           /\ current_state = StateAfter(Len(transitions))
<1>1. seen[c] = Len(transitions) /\ EntryCount(target[c]) < MaxStateEntries
  BY DEF SerialInv, ReadAll, Commit
<1>2. current_state = StateAfter(Len(transitions)) /\ Len(transitions) \in Nat
  BY DEF IInv, LogConsistent, TypeOK
<1>3. seen[c] # NotRead
  BY <1>1, <1>2 DEF NotRead
<1>4. from[c] = StateAfter(seen[c])
  BY <1>3 DEF IInv, ReadInHistory
<1>5. <<from[c], target[c]>> \in VALID_TRANSITIONS
  BY DEF IInv, NumberedIsValid, Commit
<1> QED BY <1>1, <1>2, <1>4, <1>5

LEMMA CommitSerial ==
    ASSUME IInv, SerialInv, NEW c \in Clients, Commit(c)
    PROVE  SerialInv'
<1> DEFINE n == Len(transitions)
           new == [sequence_num |-> seq[c], from_state |-> from[c],
                   to_state |-> target[c], seen |-> seen[c]]
<1>1. /\ transitions \in Seq(Row) /\ n \in Nat /\ DOMAIN transitions = 1 .. n
      /\ transitions' = Append(transitions, new) /\ new.from_state = from[c]
  BY DEF Commit, InsertRows, IInv, TypeOK
<1> HIDE DEF new
<1>2. /\ DOMAIN transitions' = 1 .. n + 1 /\ transitions'[n + 1] = new
      /\ \A i \in 1 .. n : transitions'[i] = transitions[i]
  BY <1>1
<1>3. from[c] = StateAfter(n)
  BY CommitIsAllowed
<1> HIDE DEF n
<1>4. \A k \in 0 .. n : StateAfter(k)' = StateAfter(k)
  BY <1>1, <1>2 DEF StateAfter
<1>5. Chained'
  <2> SUFFICES ASSUME NEW i \in 1 .. n + 1
               PROVE  transitions'[i].from_state = StateAfter(i - 1)'
    BY <1>2 DEF Chained
  <2>1. CASE i = n + 1
    <3>1. StateAfter(i - 1)' = StateAfter(n)
      BY <1>1, <1>2, <2>1 DEF StateAfter
    <3> QED BY <1>1, <1>2, <1>3, <2>1, <3>1
  <2>2. CASE i \in 1 .. n
    <3>1. StateAfter(i - 1)' = StateAfter(i - 1)
      BY <1>1, <1>2, <2>2 DEF StateAfter
    <3>2. transitions[i].from_state = StateAfter(i - 1)
      BY <1>1, <2>2 DEF SerialInv, Chained
    <3> QED BY <1>2, <2>2, <3>1, <3>2
  <2> QED BY <1>1, <2>1, <2>2
<1>6. ReadAll'
  <2>1. \A d \in Clients : pc'[d] = "idle"
    BY DEF Commit, Return, SerialInv, OneCaller, IInv, TypeOK
  <2> QED BY <2>1 DEF ReadAll
<1> QED BY <1>5, <1>6 DEF SerialInv, OneCaller

LEMMA NextSerial == IInv /\ SerialInv /\ [Next]_vars => SerialInv'
<1> SUFFICES ASSUME IInv, SerialInv, [Next]_vars PROVE SerialInv'
  OBVIOUS
<1> DEFINE Kept(c) ==
              \/ pc'[c] = "idle"
              \/ pc'[c] = "replayed" /\ seen'[c] = Len(transitions)
              \/ /\ pc[c] # "idle" /\ seen'[c] = seen[c] /\ target'[c] = target[c]
                 /\ \/ pc[c] \in {"recording", "numbered"}
                    \/ EntryCount(target[c]) < MaxStateEntries
<1>1. ASSUME NEW c \in Clients, UNCHANGED transitions, Kept(c) PROVE SerialInv'
  <2>1. \A d \in Clients : Kept(d)
    BY <1>1 DEF SerialInv, OneCaller
  <2> QED BY <1>1, <2>1, SerialStays
<1>2. ASSUME NEW c \in Clients, NEW t \in TaskState, Replay(c, t) PROVE SerialInv'
  BY <1>1, <1>2 DEF Replay, rows, IInv, TypeOK
<1>3. ASSUME NEW c \in Clients, NEW e \in SpelledOut, CallDirectly(c, e[1], e[2])
      PROVE  SerialInv'
  BY DEF SerialInv, OneCaller
<1>4. ASSUME NEW c \in Clients, Guard(c) PROVE SerialInv'
  BY <1>1, <1>4 DEF Guard, GuardsPass, rows
<1>5. ASSUME NEW c \in Clients, Refuse(c) \/ Conflict(c) \/ Fail(c) PROVE SerialInv'
  BY <1>1, <1>5 DEF Refuse, Conflict, Fail, Return, rows, IInv, TypeOK
<1>6. ASSUME NEW c \in Clients, Number(c) PROVE SerialInv'
  BY <1>1, <1>6 DEF Number, rows
<1>7. ASSUME NEW c \in Clients, Commit(c) PROVE SerialInv'
  BY <1>7, CommitSerial
<1>8. CASE UNCHANGED vars
  <2>1. \A d \in Clients : pc[d] # "replayed" => Kept(d)
    BY <1>8 DEF vars, locals, IInv, TypeOK
  <2>2. \A d \in Clients : pc[d] = "replayed" => Kept(d)
    BY <1>8 DEF vars, locals, SerialInv, ReadAll
  <2> HIDE DEF Kept
  <2> QED BY <1>8, <2>1, <2>2, SerialStays DEF Kept, vars, rows
<1> QED BY <1>2, <1>3, <1>4, <1>5, <1>6, <1>7, <1>8 DEF Next

\* While calls do not overlap, and where from_state comes from the history, the
\* history is a path of the state machine.
THEOREM SerialHistoryIsChained == Spec /\ OneCaller => []Chained
<1>1. SerialInv => Chained
  BY DEF SerialInv
<1> QED BY <1>1, InitSerial, NextSerial, Inductive, PTL DEF Spec

\* And the store implements the atomic state machine with its loop guard: a
\* commit is a transition, everything else a stutter.
THEOREM SerialIsAtomic == Spec /\ OneCaller => ImplementsLifecycle
<1> DEFINE counts == [s \in TaskState |-> EntryCount(s)]
<1>1. Init => Lifecycle!Init
  <2> SUFFICES ASSUME Init PROVE Lifecycle!Init
    OBVIOUS
  <2>1. \A s \in TaskState : EntryCount(s) = 0
    <3> TAKE s \in TaskState
    <3>1. {i \in DOMAIN transitions : transitions[i].to_state = s} = {}
      BY DEF Init
    <3> QED BY <3>1, FS_EmptySet DEF EntryCount
  <2> QED BY <2>1 DEF Init, Lifecycle!Init, Lifecycle!TaskState, TaskState
<1>2. IInv /\ SerialInv /\ [Next]_vars => [Lifecycle!Next]_(Lifecycle!vars)
  <2> SUFFICES ASSUME IInv, SerialInv, [Next]_vars
               PROVE  [Lifecycle!Next]_(Lifecycle!vars)
    OBVIOUS
  <2>1. CASE UNCHANGED <<current_state, transitions>>
    <3>1. counts' = counts
      BY <2>1 DEF EntryCount
    <3> QED BY <2>1, <3>1 DEF Lifecycle!vars, Lifecycle!TaskState, TaskState
  <2>2. ASSUME NEW c \in Clients, Commit(c) PROVE Lifecycle!Next
    <3>1. /\ <<current_state, target[c]>> \in VALID_TRANSITIONS
          /\ EntryCount(target[c]) < MaxStateEntries
      BY <2>2, CommitIsAllowed
    <3>2. target[c] \in TaskState /\ current_state' = target[c]
      BY <2>2 DEF Commit, InsertRows, IInv, TypeOK
    <3>3. \A s \in TaskState : EntryCount(s)' =
                IF s = target[c] THEN EntryCount(s) + 1 ELSE EntryCount(s)
      BY <2>2, CommitEnters
    <3>4. counts' = [counts EXCEPT ![target[c]] = @ + 1]
      BY <3>2, <3>3
    <3>5. Lifecycle!Allowed(target[c])
      BY <3>1, <3>2 DEF Lifecycle!Allowed, Lifecycle!VALID_TRANSITIONS,
         VALID_TRANSITIONS, Lifecycle!Cancellable, Cancellable,
         Lifecycle!ForwardTransitions, ForwardTransitions,
         Lifecycle!TaskState, TaskState
    <3>6. Lifecycle!Transition(target[c])
      BY <3>2, <3>4, <3>5 DEF Lifecycle!Transition, Lifecycle!TaskState, TaskState
    <3> QED BY <3>2, <3>6 DEF Lifecycle!Next, Lifecycle!TaskState, TaskState
  <2>3. ASSUME NEW c \in Clients, Next, ~ Commit(c), \A d \in Clients : c = d
        PROVE  UNCHANGED <<current_state, transitions>>
    BY <2>3 DEF Next, Replay, CallDirectly, Guard, Refuse, Number, Conflict, Fail, rows
  <2>4. CASE UNCHANGED vars
    BY <2>1, <2>4 DEF vars, rows
  <2>5. CASE Next
    <3>1. PICK c \in Clients : TRUE
      BY <2>5 DEF Next
    <3> QED BY <2>1, <2>2, <2>3, <2>5 DEF SerialInv, OneCaller
  <2> QED BY <2>4, <2>5
<1> QED
  BY <1>1, <1>2, InitSerial, NextSerial, Inductive, PTL
     DEF Spec, ImplementsLifecycle, Lifecycle!Spec
=============================================================================
