----------------------------- MODULE EventStore -----------------------------
(***************************************************************************)
(* The event store of orchestrator/events.py and its two kinds of caller,  *)
(* for one task.                                                           *)
(*                                                                         *)
(* transition() of orchestrator/graph.py reads the history to find the     *)
(* current state, reads it again for the loop guard, and then has          *)
(* record_transition() write: three database transactions, and between     *)
(* them any other request, worker or process may commit its own.           *)
(* ExecutionService calls record_transition() itself, with a from_state    *)
(* its code spells out and without the loop guard.                         *)
(*                                                                         *)
(* record_transition() is one transaction, but the number it gives its row *)
(* is read before the row is inserted: the unique index on                 *)
(* (task_id, sequence_num) of db/models.py is what refuses the second of   *)
(* two writers that read the same maximum.                                 *)
(*                                                                         *)
(* The row's seen field is not a column: it remembers how long the history *)
(* was when the caller derived from_state from it, for the properties.     *)
(***************************************************************************)
EXTENDS TaskStates, Integers, Sequences, FiniteSets

CONSTANTS
    Clients,            \* concurrent callers: requests, workers, processes
    MaxStateEntries,    \* MAX_STATE_ENTRIES of guards.py
    SpelledOut,         \* the transitions ExecutionService records unguarded
    MaxHistory          \* bound: no call starts to write past this length

ASSUME EventStoreAssumption ==
    /\ MaxStateEntries \in Nat \ {0}
    /\ SpelledOut \subseteq VALID_TRANSITIONS
    /\ MaxHistory \in Nat

VARIABLES
    current_state,      \* tasks.current_state
    transitions,        \* the state_transitions rows, in commit order
    audit,              \* the audit_events rows of type state.transition
    pc,                 \* pc[c]: how far the call of client c has come
    from,               \* from[c]: its local from_state
    target,             \* target[c]: its local to_state
    seen,               \* seen[c]: the length of history behind from[c]
    seq                 \* seq[c]: the sequence number it will insert

rows == <<current_state, transitions, audit>>
locals == <<pc, from, target, seen, seq>>
vars == <<rows, locals>>

NotRead == -1

Row == [sequence_num : Nat, from_state : TaskState, to_state : TaskState,
        seen : Nat \cup {NotRead}]

AuditRow == [sequence_num : Nat, from_state : TaskState, to_state : TaskState]

-----------------------------------------------------------------------------
(***************************************************************************)
(* Reading the store.                                                      *)
(***************************************************************************)

\* coalesce(max(sequence_num), 0) over the committed rows.
MaxSequenceNum ==
    LET nums == {transitions[i].sequence_num : i \in DOMAIN transitions}
    IN  IF nums = {} THEN 0 ELSE CHOOSE n \in nums : \A m \in nums : m <= n

\* A replay that forgets the order_by and takes a first row for the last.
ReplayUnordered ==
    IF transitions = <<>> THEN "SUBMITTED" ELSE transitions[1].to_state

\* A replay that has no state to give while there is no row.
ReplayOfNothing ==
    IF transitions = <<>> THEN "NONE" ELSE transitions[Len(transitions)].to_state

\* EventStore.replay: the to_state of the row with the largest number.
Replayed ==
    IF transitions = <<>>
      THEN "SUBMITTED"
      ELSE LET last == CHOOSE i \in DOMAIN transitions :
                          transitions[i].sequence_num = MaxSequenceNum
           IN  transitions[last].to_state

\* LoopDetector.check: the rows of the history that entered s.
EntryCount(s) ==
    Cardinality({i \in DOMAIN transitions : transitions[i].to_state = s})

-----------------------------------------------------------------------------
Init ==
    /\ current_state = "SUBMITTED"
    /\ transitions = <<>>
    /\ audit = <<>>
    /\ pc = [c \in Clients |-> "idle"]
    /\ from = [c \in Clients |-> "SUBMITTED"]
    /\ target = [c \in Clients |-> "SUBMITTED"]
    /\ seen = [c \in Clients |-> NotRead]
    /\ seq = [c \in Clients |-> 0]

\* The call is over: its local variables are gone.
Return(c) ==
    /\ pc' = [pc EXCEPT ![c] = "idle"]
    /\ from' = [from EXCEPT ![c] = "SUBMITTED"]
    /\ target' = [target EXCEPT ![c] = "SUBMITTED"]
    /\ seen' = [seen EXCEPT ![c] = NotRead]
    /\ seq' = [seq EXCEPT ![c] = 0]

\* transition(task_id, t): current_state = await event_store.replay(task_id).
\* (A string that is no TaskState raises here, and the call is over.)
Replay(c, t) ==
    /\ pc[c] = "idle"
    /\ pc' = [pc EXCEPT ![c] = "replayed"]
    /\ from' = [from EXCEPT ![c] = Replayed]
    /\ target' = [target EXCEPT ![c] = t]
    /\ seen' = [seen EXCEPT ![c] = Len(transitions)]
    /\ UNCHANGED <<rows, seq>>

\* An off-by-one loop guard.
GuardsPassOnceMore(c) ==
    /\ <<from[c], target[c]>> \in VALID_TRANSITIONS
    /\ EntryCount(target[c]) <= MaxStateEntries

\* history = await event_store.get_history(task_id), and both guards pass.
GuardsPass(c) ==
    /\ <<from[c], target[c]>> \in VALID_TRANSITIONS
    /\ EntryCount(target[c]) < MaxStateEntries

Guard(c) ==
    /\ pc[c] = "replayed"
    /\ GuardsPass(c)
    /\ pc' = [pc EXCEPT ![c] = "recording"]
    /\ UNCHANGED <<rows, from, target, seen, seq>>

\* InvalidTransitionError or LoopDetectedError.
Refuse(c) ==
    /\ pc[c] = "replayed"
    /\ ~ GuardsPass(c)
    /\ Return(c)
    /\ UNCHANGED rows

\* ExecutionService._transition(task_id, f, t), f spelled out by its caller.
CallDirectly(c, f, t) ==
    /\ pc[c] = "idle"
    /\ pc' = [pc EXCEPT ![c] = "recording"]
    /\ from' = [from EXCEPT ![c] = f]
    /\ target' = [target EXCEPT ![c] = t]
    /\ UNCHANGED <<rows, seen, seq>>

\* record_transition: validated against the whitelist, then the transaction
\* begins and reads the largest sequence number committed so far.
Number(c) ==
    /\ pc[c] = "recording"
    /\ <<from[c], target[c]>> \in VALID_TRANSITIONS
    /\ Len(transitions) < MaxHistory
    /\ seq' = [seq EXCEPT ![c] = MaxSequenceNum + 1]
    /\ pc' = [pc EXCEPT ![c] = "numbered"]
    /\ UNCHANGED <<rows, from, target, seen>>

\* The unique index ix_st_task_id_seq has a committed row for it.
Taken(n) == \E i \in DOMAIN transitions : transitions[i].sequence_num = n

\* The effect of the transaction's commit on the three tables.
InsertRows(c) ==
    /\ transitions' = Append(transitions,
            [sequence_num |-> seq[c], from_state |-> from[c],
             to_state |-> target[c], seen |-> seen[c]])
    /\ current_state' = target[c]
    /\ audit' = Append(audit,
            [sequence_num |-> seq[c], from_state |-> from[c],
             to_state |-> target[c]])

\* The same store without the unique index.
CommitUnindexed(c) ==
    /\ pc[c] = "numbered"
    /\ InsertRows(c)
    /\ Return(c)

Commit(c) ==
    /\ pc[c] = "numbered"
    /\ ~ Taken(seq[c])
    /\ InsertRows(c)
    /\ Return(c)

\* The insert meets the unique index: IntegrityError, rollback, raised.
Conflict(c) ==
    /\ pc[c] = "numbered"
    /\ Taken(seq[c])
    /\ Return(c)
    /\ UNCHANGED rows

\* The process dies or its database connection fails: an open transaction
\* is rolled back, and the call leaves nothing behind.
Fail(c) ==
    /\ pc[c] # "idle"
    /\ Return(c)
    /\ UNCHANGED rows

Next ==
    \E c \in Clients :
        \/ \E t \in TaskState : Replay(c, t)
        \/ \E e \in SpelledOut : CallDirectly(c, e[1], e[2])
        \/ Guard(c)
        \/ Refuse(c)
        \/ Number(c)
        \/ Commit(c)
        \/ Conflict(c)
        \/ Fail(c)

Spec == Init /\ [][Next]_vars

-----------------------------------------------------------------------------
(***************************************************************************)
(* Properties.                                                             *)
(***************************************************************************)

\* The state of the task after the first n rows of its history.
StateAfter(n) == IF n = 0 THEN "SUBMITTED" ELSE transitions[n].to_state

TypeOK ==
    /\ current_state \in TaskState
    /\ transitions \in Seq(Row)
    /\ audit \in Seq(AuditRow)
    /\ pc \in [Clients -> {"idle", "replayed", "recording", "numbered"}]
    /\ from \in [Clients -> TaskState]
    /\ target \in [Clients -> TaskState]
    /\ seen \in [Clients -> Nat \cup {NotRead}]
    /\ seq \in [Clients -> Nat]

\* INV-02 and INV-06 for any interleaving of callers and failures: the rows
\* are numbered 1, 2, 3, ... without gap or repetition, tasks.current_state is
\* what replaying them gives, and audit_events has exactly one matching row
\* for each.
LogConsistent ==
    /\ \A i \in DOMAIN transitions : transitions[i].sequence_num = i
    /\ current_state = StateAfter(Len(transitions))
    /\ Len(audit) = Len(transitions)
    /\ \A i \in DOMAIN transitions :
          audit[i] = [sequence_num |-> transitions[i].sequence_num,
                      from_state |-> transitions[i].from_state,
                      to_state |-> transitions[i].to_state]

\* Every recorded transition is one of the whitelist, and a row written by
\* transition() leaves the state the task really had when the call read it,
\* which may be stale when it is written: another row may have come between.
RowsAreJustified ==
    \A i \in DOMAIN transitions :
        LET row == transitions[i]
        IN  /\ <<row.from_state, row.to_state>> \in VALID_TRANSITIONS
            /\ row.seen # NotRead =>
                  row.seen < i /\ row.from_state = StateAfter(row.seen)

\* The loop guard reads the history before the row is written, so concurrent
\* calls may all pass it: a state can be entered more than MaxStateEntries
\* times, but by no more than one further entry per further caller.
OvershootBounded ==
    \A s \in TaskState \ {e[2] : e \in SpelledOut} :
        EntryCount(s) <= MaxStateEntries + Cardinality(Clients) - 1

\* The history is a path of the state machine: each row starts where the row
\* before it ended.  It holds while calls do not overlap and from_state comes
\* from the history, and it is what makes replay meaningful.
Chained ==
    \A i \in DOMAIN transitions :
        transitions[i].from_state = StateAfter(i - 1)

\* Without overlapping calls the store implements the atomic state machine
\* with its loop guard.
Lifecycle ==
    INSTANCE TaskLifecycle WITH
        state <- current_state,
        entries <- [s \in TaskState |-> EntryCount(s)]

ImplementsLifecycle == Lifecycle!Spec

\* state_machine.py says of COMPLETED and CANCELLED that they have no outgoing
\* transitions: a task that has reached one stays there.
TerminalIsFinal ==
    [][(current_state \in TERMINAL_STATES) => UNCHANGED current_state]_vars
=============================================================================
