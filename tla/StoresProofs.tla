---------------------------- MODULE StoresProofs ----------------------------
(***************************************************************************)
(* Theorems about what is kept: the schedule, checkpoints and working      *)
(* memory, the long-term memory, the knowledge graph, conversations and    *)
(* the versions of artifacts.  Each is first proved about the component,   *)
(* and at the end about the composition, in which every component behaves  *)
(* as by itself.                                                           *)
(***************************************************************************)
EXTENDS MCStores, SequenceTheorems, FiniteSetTheorems, WellFoundedInduction, TLAPS

-----------------------------------------------------------------------------
(***************************************************************************)
(* The schedule.  The late removal of TaskScheduler is invisible: for any  *)
(* tasks, priorities and bound it implements the stable priority queue of  *)
(* TaskQueue.  SchedulerTypeOK is inductive as it stands; with it the live *)
(* entries are exactly those that _entries leads to, and each method does  *)
(* to them what the queue's operation does to those who wait.              *)
(***************************************************************************)
LEMMA NoEntryIsNoEntry ==
    ASSUME SchedulerAssumption PROVE NoEntry \notin PriorityEntry
  BY DEF SchedulerAssumption, NoEntry, NoTask, PriorityEntry

\* schedule keeps the invariant: the new entry is the task's only live one.
LEMMA ScheduleKeepsType ==
    ASSUME SchedulerTypeOK, NEW t \in Tasks, NEW p \in Priorities, Schedule(t, p)
    PROVE  SchedulerTypeOK'
<1> DEFINE entry == [neg_priority |-> -p, insertion_order |-> counter, task_id |-> t]
<1>1. /\ counter < MaxCounter /\ counter' = counter + 1
      /\ removed' = IF Contains(t) THEN removed \cup {entries[t]} ELSE removed
      /\ entries' = [entries EXCEPT ![t] = entry]
      /\ heap' = heap \cup {entry}
  BY DEF Schedule
<1>2. /\ entry \in PriorityEntry /\ entry # NoEntry /\ entry \notin heap
      /\ entry.insertion_order = counter /\ entry.task_id = t
  BY SchedulerAssumption, NoEntryIsNoEntry DEF SchedulerTypeOK, PriorityEntry, SchedulerAssumption
<1> HIDE DEF entry
<1>3. /\ counter' \in 0 .. MaxCounter
      /\ heap' \subseteq PriorityEntry
      /\ \A e \in heap' : e.insertion_order < counter'
  BY <1>1, <1>2, SchedulerAssumption DEF SchedulerTypeOK, PriorityEntry, SchedulerAssumption
<1>4. \A e, f \in heap' : e.insertion_order = f.insertion_order => e = f
  BY <1>1, <1>2 DEF SchedulerTypeOK, PriorityEntry
<1>5. /\ removed' \subseteq heap'
      /\ entries' \in [Tasks -> PriorityEntry \cup {NoEntry}]
      /\ entry \notin removed'
  BY <1>1, <1>2 DEF SchedulerTypeOK, Live
<1>6. ASSUME NEW s \in Tasks, entries'[s] # NoEntry
      PROVE  entries'[s].task_id = s /\ entries'[s] \in heap' \ removed'
  <2>1. CASE s = t BY <2>1, <1>1, <1>2, <1>5 DEF SchedulerTypeOK
  <2>2. CASE s # t
    <3>1. entries'[s] = entries[s] BY <2>2, <1>1 DEF SchedulerTypeOK
    <3>2. entries[s].task_id = s /\ entries[s] \in Live
      BY <3>1, <1>6 DEF SchedulerTypeOK, Contains
    <3>3. Contains(t) => entries[s] # entries[t]
      BY <3>2, <2>2 DEF SchedulerTypeOK
    <3> QED BY <3>1, <3>2, <3>3, <1>1 DEF Live
  <2> QED BY <2>1, <2>2
<1>7. ASSUME NEW e \in heap' \ removed' PROVE entries'[e.task_id] = e
  <2>1. CASE e = entry BY <2>1, <1>1, <1>2 DEF SchedulerTypeOK
  <2>2. CASE e # entry
    <3>1. e \in Live /\ entries[e.task_id] = e /\ e \in PriorityEntry
      BY <2>2, <1>1, <1>7 DEF SchedulerTypeOK, Live
    <3>2. e.task_id \in Tasks BY <3>1 DEF PriorityEntry
    <3>3. e.task_id # t
      BY <3>1, <1>1, <1>7, NoEntryIsNoEntry, SchedulerAssumption DEF Contains
    <3> QED BY <3>1, <3>2, <3>3, <1>1 DEF SchedulerTypeOK
  <2> QED BY <2>1, <2>2
<1> QED BY <1>3, <1>4, <1>5, <1>6, <1>7 DEF SchedulerTypeOK, Contains, Live

\* What next and peek drop is marked: the live entries keep their place.
LEMMA TopSurvives ==
    ASSUME SchedulerTypeOK, NEW e, IsTop(e)
    PROVE  /\ Live \subseteq From(e) /\ From(e) \subseteq heap
           /\ From(e) \ (removed \cap From(e)) = Live
           /\ e \in PriorityEntry /\ e.task_id \in Tasks /\ entries[e.task_id] = e
  BY DEF IsTop, From, Live, SchedulerTypeOK, PriorityEntry

\* Taking entries out of the heap keeps the invariant as long as the live ones
\* that go are those whose tasks leave _entries.
LEMMA ShrinkKeepsType ==
    ASSUME SchedulerTypeOK, UNCHANGED counter, heap' \subseteq heap,
           removed' \subseteq heap',
           entries' \in [Tasks -> PriorityEntry \cup {NoEntry}],
           \A t \in Tasks : entries'[t] \in {entries[t], NoEntry},
           \A t \in Tasks : entries'[t] # NoEntry => entries[t] \in heap' \ removed',
           \A e \in heap' \ removed' : e \in Live /\ entries'[e.task_id] # NoEntry
    PROVE  SchedulerTypeOK'
<1>1. \A e \in heap' \ removed' : e.task_id \in Tasks /\ entries[e.task_id] = e
  BY DEF SchedulerTypeOK, PriorityEntry, Live
<1>2. \A e \in heap' \ removed' : entries'[e.task_id] = e
  BY <1>1
<1>3. \A t \in Tasks : entries'[t] # NoEntry =>
          entries'[t].task_id = t /\ entries'[t] \in heap' \ removed'
  BY DEF SchedulerTypeOK, Contains
<1> QED BY <1>2, <1>3 DEF SchedulerTypeOK, Contains, Live

LEMMA StepKeepsType ==
    ASSUME SchedulerTypeOK, [SchedulerNext]_schedulerVars
    PROVE  SchedulerTypeOK'
<1>1. CASE \E t \in Tasks, p \in Priorities : Schedule(t, p)
  BY <1>1, ScheduleKeepsType
<1>2. ASSUME NEW t \in Tasks, RemoveTask(t) PROVE SchedulerTypeOK'
  <2>1. /\ UNCHANGED counter /\ heap' = heap
        /\ removed' = removed \cup {entries[t]}
        /\ entries' = [entries EXCEPT ![t] = NoEntry]
        /\ entries[t] \in Live /\ entries[t].task_id = t
    BY <1>2 DEF RemoveTask, SchedulerTypeOK
  <2>2. \A s \in Tasks : entries'[s] # NoEntry =>
            s # t /\ entries[s] = entries'[s] /\ entries[s] \in heap' \ removed'
    <3> SUFFICES ASSUME NEW s \in Tasks, entries'[s] # NoEntry
                 PROVE  s # t /\ entries[s] = entries'[s] /\ entries[s] \in heap' \ removed'
      OBVIOUS
    <3>1. s # t /\ entries[s] = entries'[s] BY <2>1 DEF SchedulerTypeOK
    <3>2. entries[s].task_id = s /\ entries[s] \in Live
      BY <3>1 DEF SchedulerTypeOK, Contains
    <3> QED BY <3>1, <3>2, <2>1 DEF Live
  <2>3. \A e \in heap' \ removed' : e \in Live /\ entries'[e.task_id] # NoEntry
    <3> SUFFICES ASSUME NEW e \in heap' \ removed'
                 PROVE  e \in Live /\ entries'[e.task_id] # NoEntry
      OBVIOUS
    <3>1. e \in Live /\ e \in PriorityEntry /\ entries[e.task_id] = e /\ e # entries[t]
      BY <2>1 DEF SchedulerTypeOK, Live
    <3>2. e.task_id \in Tasks /\ e.task_id # t BY <3>1 DEF PriorityEntry
    <3> QED BY <3>1, <3>2, <2>1, NoEntryIsNoEntry, SchedulerAssumption DEF SchedulerTypeOK
  <2>4. entries' \in [Tasks -> PriorityEntry \cup {NoEntry}]
        /\ \A s \in Tasks : entries'[s] \in {entries[s], NoEntry}
    BY <2>1 DEF SchedulerTypeOK
  <2>5. removed' \subseteq heap' BY <2>1 DEF SchedulerTypeOK, Live
  <2> QED BY <2>1, <2>2, <2>3, <2>4, <2>5, ShrinkKeepsType
<1>3. CASE Dequeue
  <2>1. CASE Live = {} /\ heap' = {} /\ removed' = {} /\ UNCHANGED <<entries, counter>>
    <3>1. \A t \in Tasks : entries[t] = NoEntry
      BY <2>1 DEF SchedulerTypeOK, Contains
    <3> QED BY <2>1, <3>1 DEF SchedulerTypeOK, Contains, Live
  <2>2. ASSUME NEW e \in Live, IsTop(e), heap' = From(e) \ {e},
               removed' = removed \cap From(e),
               entries' = [entries EXCEPT ![e.task_id] = NoEntry], UNCHANGED counter
        PROVE  SchedulerTypeOK'
    <3>1. /\ Live \subseteq From(e) /\ From(e) \subseteq heap
          /\ e \in PriorityEntry /\ e.task_id \in Tasks /\ entries[e.task_id] = e
          /\ e \notin removed
      BY <2>2, TopSurvives DEF Live
    <3>2. \A s \in Tasks : entries'[s] # NoEntry => entries[s] \in heap' \ removed'
      <4> SUFFICES ASSUME NEW s \in Tasks, entries'[s] # NoEntry
                   PROVE  entries[s] \in heap' \ removed'
        OBVIOUS
      <4>1. s # e.task_id /\ entries[s] # NoEntry BY <2>2, <3>1 DEF SchedulerTypeOK
      <4>2. entries[s].task_id = s /\ entries[s] \in Live
        BY <4>1 DEF SchedulerTypeOK, Contains
      <4> QED BY <4>1, <4>2, <3>1, <2>2 DEF Live
    <3>3. \A f \in heap' \ removed' : f \in Live /\ entries'[f.task_id] # NoEntry
      <4> SUFFICES ASSUME NEW f \in heap' \ removed'
                   PROVE  f \in Live /\ entries'[f.task_id] # NoEntry
        OBVIOUS
      <4>1. f \in Live /\ f # e BY <2>2, <3>1 DEF Live
      <4>2. f \in PriorityEntry /\ entries[f.task_id] = f
        BY <4>1 DEF SchedulerTypeOK, Live
      <4>3. f.task_id \in Tasks /\ f.task_id # e.task_id
        BY <4>1, <4>2, <3>1 DEF PriorityEntry
      <4> QED BY <4>1, <4>2, <4>3, <2>2, NoEntryIsNoEntry, SchedulerAssumption
              DEF SchedulerTypeOK
    <3>4. /\ entries' \in [Tasks -> PriorityEntry \cup {NoEntry}]
          /\ \A s \in Tasks : entries'[s] \in {entries[s], NoEntry}
      BY <2>2 DEF SchedulerTypeOK
    <3>5. heap' \subseteq heap /\ removed' \subseteq heap'
      BY <2>2, <3>1
    <3> QED BY <2>2, <3>2, <3>3, <3>4, <3>5, ShrinkKeepsType
  <2> QED BY <1>3, <2>1, <2>2 DEF Dequeue
<1>4. CASE Peek
  <2>1. CASE Live = {} /\ heap' = {}
    <3>1. \A t \in Tasks : entries[t] = NoEntry
      BY <2>1 DEF SchedulerTypeOK, Contains
    <3> QED BY <1>4, <2>1, <3>1 DEF Peek, SchedulerTypeOK, Contains, Live
  <2>2. ASSUME NEW e \in Live, IsTop(e), heap' = From(e) PROVE SchedulerTypeOK'
    <3>1. Live \subseteq From(e) /\ From(e) \subseteq heap
          /\ From(e) \ (removed \cap From(e)) = Live
      BY <2>2, TopSurvives
    <3>2. heap' \subseteq heap /\ removed' \subseteq heap' /\ heap' \ removed' = Live
          /\ UNCHANGED <<entries, counter>>
      BY <1>4, <2>2, <3>1 DEF Peek
    <3>3. \A f \in Live : entries[f.task_id] = f /\ f \in PriorityEntry
      BY DEF SchedulerTypeOK, Live
    <3> QED BY <3>2, <3>3 DEF SchedulerTypeOK, Contains, Live
  <2> QED BY <1>4, <2>1, <2>2 DEF Peek
<1>5. CASE Clear
  BY <1>5, SchedulerAssumption DEF Clear, SchedulerTypeOK, Contains, Live, SchedulerAssumption
<1>6. CASE UNCHANGED schedulerVars
  BY <1>6 DEF schedulerVars, SchedulerTypeOK, Contains, Live
<1> QED BY <1>1, <1>2, <1>3, <1>4, <1>5, <1>6 DEF SchedulerNext

\* Every queued task has exactly one unmarked entry in the heap, the one
\* _entries leads to.
THEOREM SchedulerTypeCorrect == SchedulerSpec => []SchedulerTypeOK
<1>1. SchedulerInit => SchedulerTypeOK
  BY SchedulerAssumption
     DEF SchedulerInit, SchedulerTypeOK, Contains, Live, SchedulerAssumption
<1> QED BY <1>1, StepKeepsType, PTL DEF SchedulerSpec

-----------------------------------------------------------------------------

Line == {Waiting(e) : e \in Live}

\* The fields of somebody who waits.
LEMMA WaitingFields ==
    ASSUME SchedulerTypeOK, NEW e \in Live
    PROVE  /\ Waiting(e).task = e.task_id /\ Waiting(e).since = e.insertion_order
           /\ Waiting(e).priority = - e.neg_priority
           /\ e.task_id \in Tasks /\ e.neg_priority \in Int /\ e.insertion_order \in Nat
           /\ e.insertion_order < counter
  BY DEF Waiting, SchedulerTypeOK, Live, PriorityEntry

\* The top of the heap is the one who is first in the queue.
LEMMA TopIsFirst ==
    ASSUME SchedulerTypeOK, NEW e, IsTop(e)
    PROVE  Waiting(e) \in Line /\ Queue!IsFirst(e.task_id)!2
<1>1. e \in Live /\ \A f \in Live : f = e \/ Below(e, f)
  BY DEF IsTop
<1>2. \A f \in Live : Waiting(f) = Waiting(e) \/ Queue!Precedes(Waiting(e), Waiting(f))
  <2> SUFFICES ASSUME NEW f \in Live, f # e
               PROVE  Queue!Precedes(Waiting(e), Waiting(f))
    OBVIOUS
  <2>1. Below(e, f) BY <1>1
  <2> QED BY <1>1, <2>1, WaitingFields DEF Below, Queue!Precedes
<1>3. Waiting(e).task = e.task_id BY <1>1, WaitingFields
<1> QED BY <1>1, <1>2, <1>3 DEF Line, Queue!IsFirst

\* Who is left when the entries of one task are gone.
LEMMA LineWithout ==
    ASSUME SchedulerTypeOK, NEW t,
           Live' = {e \in Live : e.task_id # t}
    PROVE  Line' = {v \in Line : v.task # t}
<1>1. \A e \in Live : Waiting(e).task = e.task_id BY WaitingFields
<1> QED BY <1>1 DEF Line, Waiting

LEMMA ScheduleImplements ==
    ASSUME SchedulerTypeOK, SchedulerTypeOK', NEW t \in Tasks, NEW p \in Priorities,
           Schedule(t, p)
    PROVE  Queue!Schedule(t, p)
<1> DEFINE entry == [neg_priority |-> -p, insertion_order |-> counter, task_id |-> t]
           new == Waiting(entry)
<1>1. /\ removed' = IF Contains(t) THEN removed \cup {entries[t]} ELSE removed
      /\ entries' = [entries EXCEPT ![t] = entry]
      /\ heap' = heap \cup {entry} /\ UNCHANGED dequeued
  BY DEF Schedule
<1>2. /\ new.task = t /\ new.priority = p /\ new.since = counter
      /\ entry # NoEntry /\ entry \in PriorityEntry /\ entry.task_id = t
      /\ entry \notin heap
  BY SchedulerAssumption, NoEntryIsNoEntry
     DEF Waiting, SchedulerTypeOK, PriorityEntry, SchedulerAssumption
<1> HIDE DEF entry
<1>3. Live' = {e \in Live : e.task_id # t} \cup {entry}
  <2>1. ASSUME NEW e \in Live PROVE e \in Live' <=> e.task_id # t
    <3>1. e \in PriorityEntry /\ e.task_id \in Tasks /\ entries[e.task_id] = e
          /\ e # NoEntry /\ e # entry
      BY <1>2, NoEntryIsNoEntry, SchedulerAssumption DEF SchedulerTypeOK, PriorityEntry, Live
    <3>2. CASE e.task_id = t
      <4>1. e \in removed' BY <3>1, <3>2, <1>1 DEF Contains
      <4> QED BY <3>2, <4>1 DEF Live
    <3>3. CASE e.task_id # t
      <4>1. Contains(t) => entries[t] # e BY <3>3 DEF SchedulerTypeOK
      <4> QED BY <3>3, <4>1, <1>1 DEF Live
    <3> QED BY <3>2, <3>3
  <2>2. entry \in Live'
    BY <1>1, <1>2 DEF Live, SchedulerTypeOK
  <2>3. Live' \subseteq Live \cup {entry}
    BY <1>1 DEF Live
  <2> QED BY <2>1, <2>2, <2>3, <1>2
<1>4. Line' = {v \in Line : v.task # t} \cup {new}
  <2>1. \A e \in Live : Waiting(e).task = e.task_id BY WaitingFields
  <2>2. Line' = {Waiting(e) : e \in Live'} BY DEF Line, Waiting
  <2> HIDE DEF new
  <2>3. new = Waiting(entry) BY DEF new
  <2> QED BY <2>1, <2>2, <2>3, <1>3 DEF Line
<1>5. \A v \in Line : v.since < new.since
  BY <1>2, WaitingFields DEF Line
<1> HIDE DEF new
<1> QED BY <1>1, <1>2, <1>4, <1>5 DEF Queue!Schedule, Line

LEMMA RemoveImplements ==
    ASSUME SchedulerTypeOK, NEW t \in Tasks, RemoveTask(t)
    PROVE  Queue!Remove(t)
<1>1. Live' = {e \in Live : e.task_id # t}
  <2>1. /\ heap' = heap /\ removed' = removed \cup {entries[t]}
        /\ entries[t].task_id = t
    BY DEF RemoveTask, SchedulerTypeOK
  <2>2. \A e \in Live : e.task_id = t => e = entries[t]
    BY DEF SchedulerTypeOK
  <2> QED BY <2>1, <2>2 DEF Live
<1>2. Line' = {v \in Line : v.task # t} BY <1>1, LineWithout
<1>3. UNCHANGED dequeued BY DEF RemoveTask
<1> QED BY <1>2, <1>3 DEF Queue!Remove, Line

LEMMA DequeueImplements ==
    ASSUME SchedulerTypeOK, Dequeue PROVE Queue!Take
<1>1. CASE Live = {} /\ heap' = {} /\ removed' = {} /\ dequeued' = NoTask
  <2>1. Line = {} /\ Line' = {} BY <1>1 DEF Line, Live
  <2> QED BY <1>1, <2>1 DEF Queue!Take, Queue!IsFirst, Line, NoTask, Queue!NoTask
<1>2. ASSUME NEW e \in Live, IsTop(e), heap' = From(e) \ {e},
             removed' = removed \cap From(e), dequeued' = e.task_id
      PROVE  Queue!Take
  <2>1. /\ From(e) \ (removed \cap From(e)) = Live /\ e \notin removed
        /\ entries[e.task_id] = e
    BY <1>2, TopSurvives DEF Live
  <2>2. \A f \in Live : f.task_id = e.task_id => f = e
    BY <2>1 DEF SchedulerTypeOK
  <2>3. Live' = {f \in Live : f.task_id # e.task_id}
    BY <1>2, <2>1, <2>2 DEF Live
  <2>4. Line' = {v \in Line : v.task # e.task_id} BY <2>3, LineWithout
  <2>5. Queue!IsFirst(e.task_id) BY <1>2, TopIsFirst DEF Queue!IsFirst, Line
  <2> QED BY <1>2, <2>4, <2>5 DEF Queue!Take, Line
<1> QED BY <1>1, <1>2 DEF Dequeue

LEMMA PeekImplements ==
    ASSUME SchedulerTypeOK, Peek PROVE Queue!Peek
<1>1. CASE Live = {} /\ heap' = {} /\ dequeued' = NoTask
  <2>1. Line = {} /\ Line' = {} BY <1>1 DEF Line, Live
  <2> QED BY <1>1, <2>1 DEF Queue!Peek, Queue!IsFirst, Line, NoTask, Queue!NoTask
<1>2. ASSUME NEW e \in Live, IsTop(e), heap' = From(e), dequeued' = e.task_id
      PROVE  Queue!Peek
  <2>1. From(e) \ (removed \cap From(e)) = Live
    BY <1>2, TopSurvives
  <2>2. Live' = Live BY <1>2, <2>1 DEF Peek, Live
  <2>3. Line' = Line BY <2>2 DEF Line, Waiting
  <2>4. Queue!IsFirst(e.task_id) BY <1>2, TopIsFirst DEF Queue!IsFirst, Line
  <2> QED BY <1>2, <2>3, <2>4 DEF Queue!Peek, Line
<1> QED BY <1>1, <1>2 DEF Peek

\* The scheduler is a stable priority queue, for any tasks and priorities.
THEOREM SchedulerImplementsQueue == SchedulerSpec => ImplementsQueue
<1>1. SchedulerInit => Queue!Init
  BY DEF SchedulerInit, Queue!Init, Live, NoTask, Queue!NoTask
<1>2. ASSUME SchedulerTypeOK, SchedulerTypeOK', [SchedulerNext]_schedulerVars
      PROVE  [Queue!Next]_<<Line, dequeued>>
  <2>1. ASSUME NEW t \in Tasks, NEW p \in Priorities, Schedule(t, p)
        PROVE  Queue!Next
    BY <1>2, <2>1, ScheduleImplements DEF Queue!Next
  <2>2. ASSUME NEW t \in Tasks, RemoveTask(t) PROVE Queue!Next
    BY <1>2, <2>2, RemoveImplements DEF Queue!Next
  <2>3. CASE Dequeue BY <1>2, <2>3, DequeueImplements DEF Queue!Next
  <2>4. CASE Peek BY <1>2, <2>4, PeekImplements DEF Queue!Next
  <2>5. CASE Clear
    <3>1. Line' = {} /\ UNCHANGED dequeued BY <2>5 DEF Clear, Live, Line
    <3> QED BY <3>1 DEF Queue!Next, Queue!Clear, Line
  <2>6. CASE UNCHANGED schedulerVars
    BY <2>6 DEF schedulerVars, Line, Live, Waiting
  <2> QED BY <1>2, <2>1, <2>2, <2>3, <2>4, <2>5, <2>6 DEF SchedulerNext
<1> QED
  BY <1>1, <1>2, SchedulerTypeCorrect, PTL
     DEF SchedulerSpec, ImplementsQueue, Queue!Spec, Line

-----------------------------------------------------------------------------
(***************************************************************************)
(* The knowledge graph.                                                    *)
(***************************************************************************)

\* What was retired and not replaced is still marked, and an answer has only
\* nodes that are live.
GraphInv ==
    /\ node \in [Nodes -> {"absent", "live", "deprecated"}]
    /\ \A n \in retired : n \in Nodes /\ node[n] = "deprecated"
    /\ \A n \in answered : n \in Nodes /\ node[n] = "live"

\* Every operation of the knowledge graph keeps its invariant.
LEMMA GraphStep ==
    ASSUME GraphInv, [GraphNext]_graphVars PROVE GraphInv'
<1>1. ASSUME NEW n \in Nodes, AddNode(n) PROVE GraphInv'
  BY <1>1 DEF AddNode, GraphInv
<1>2. ASSUME NEW n \in Nodes, DeprecateNode(n) PROVE GraphInv'
  BY <1>2 DEF DeprecateNode, GraphInv
<1>3. ASSUME NEW n \in Nodes, GetNeighbors(n) PROVE GraphInv'
  BY <1>3 DEF GetNeighbors, Neighbors, GraphInv
<1>4. ASSUME NEW m \in Nodes, NEW n \in Nodes, AddEdge(m, n) PROVE GraphInv'
  BY <1>4 DEF AddEdge, GraphInv
<1>5. CASE SearchNodes BY <1>5 DEF SearchNodes, GraphInv
<1>6. CASE UNCHANGED graphVars BY <1>6 DEF graphVars, GraphInv
<1> QED BY <1>1, <1>2, <1>3, <1>4, <1>5, <1>6 DEF GraphNext

\* A deprecated node is in no answer, whatever edges still lead to it.
THEOREM NodesStayDeprecated == GraphSpec => []NodesStayOut
<1>1. GraphInit => GraphInv BY DEF GraphInit, GraphInv
<1>2. GraphInv => NodesStayOut BY DEF GraphInv, NodesStayOut
<1> QED BY <1>1, <1>2, GraphStep, PTL DEF GraphSpec

-----------------------------------------------------------------------------
(***************************************************************************)
(* The long-term memory.                                                   *)
(***************************************************************************)

Object ==
    [id : Entities \cup {None}, created : Int, deprecated : BOOLEAN, usable : BOOLEAN]

\* Objects and rows are well formed, and a cached object is one that was stored
\* or read under the id that leads to it.
MemoryTyped ==
    /\ day \in Int
    /\ row \in [Entities -> [created : Int, deprecated : BOOLEAN, stored : BOOLEAN]]
    /\ object \in [Objects -> Object]
    /\ \A o \in Objects : object[o] # NoObject => object[o].id \in Entities
    /\ cache \in [Entities -> Objects \cup {None}]
    /\ \A e \in Entities : cache[e] # None =>
          cache[e] \in Objects /\ object[cache[e]].id = e /\ object[cache[e]].usable

\* What was withdrawn and not missed is marked wherever it is kept: in the row,
\* and in the object that a promotion would store again.
Marked ==
    /\ withdrawn \subseteq Entities
    /\ \A e \in withdrawn \ missed :
          /\ row[e].stored => row[e].deprecated
          /\ cache[e] # None => object[cache[e]].deprecated

\* What a search has found was good on the day of the search.
FoundGood ==
    \A r \in retrieved :
        /\ {r.similarity, r.created, r.on} \subseteq Int
        /\ r.on <= day
        /\ r.similarity >= MIN_SIMILARITY
        /\ ~ r.deprecated
        /\ r.created >= r.on - MAX_STALENESS_DAYS

LongTermInv == MemoryTyped /\ Marked /\ FoundGood

\* Changing nothing but what a step of the store may change keeps the results.
LEMMA FoundStaysGood ==
    ASSUME FoundGood, MemoryTyped, LongTermAssumption, retrieved' \subseteq retrieved,
           day' \in Int, day' >= day
    PROVE  FoundGood'
  BY DEF FoundGood, MemoryTyped

\* A cached object is no free one.
LEMMA CachedIsMade ==
    ASSUME MemoryTyped, NEW e \in Entities, cache[e] # None
    PROVE  /\ cache[e] \in Objects /\ object[cache[e]] \in Object
           /\ object[cache[e]].id = e /\ object[cache[e]] # NoObject
  BY DEF MemoryTyped, NoObject

\* An upsert writes the object's own row and cache entry, after the caller may
\* have changed what else it says.
LEMMA UpsertKeepsTypes ==
    ASSUME MemoryTyped, NEW o \in Objects, NEW obj \in Object,
           object[o] # NoObject, obj.id = object[o].id, Upserts(o, obj),
           object' = [object EXCEPT ![o] = obj], UNCHANGED day
    PROVE  MemoryTyped'
<1>1. obj.id \in Entities /\ obj.usable
  BY DEF Upserts, MemoryTyped
<1>2. /\ row' = [row EXCEPT ![obj.id] = RowOf(obj)]
      /\ cache' = [cache EXCEPT ![obj.id] = o]
  BY DEF Upserts
<1>3. row' \in [Entities -> [created : Int, deprecated : BOOLEAN, stored : BOOLEAN]]
  <2>1. RowOf(obj) \in [created : Int, deprecated : BOOLEAN, stored : BOOLEAN]
    BY Zenon DEF RowOf, Object
  <2> QED BY <1>1, <1>2, <2>1 DEF MemoryTyped
<1>4. object' \in [Objects -> Object] BY DEF MemoryTyped
<1>5. ASSUME NEW q \in Objects, object'[q] # NoObject PROVE object'[q].id \in Entities
  BY <1>1, <1>5 DEF MemoryTyped
<1>6. cache' \in [Entities -> Objects \cup {None}] BY <1>1, <1>2 DEF MemoryTyped
<1>7. ASSUME NEW e \in Entities, cache'[e] # None
      PROVE  cache'[e] \in Objects /\ object'[cache'[e]].id = e /\ object'[cache'[e]].usable
  <2>1. CASE e = obj.id BY <1>1, <1>2, <2>1 DEF MemoryTyped
  <2>2. CASE e # obj.id
    <3>1. cache'[e] = cache[e] BY <1>2, <2>2 DEF MemoryTyped
    <3>2. /\ cache[e] \in Objects /\ object[cache[e]].id = e /\ object[cache[e]].usable
      BY <1>7, <3>1 DEF MemoryTyped
    <3>3. cache[e] # o BY <2>2, <3>2
    <3> QED BY <3>1, <3>2, <3>3 DEF MemoryTyped
  <2> QED BY <2>1, <2>2
<1> QED BY <1>3, <1>4, <1>5, <1>6, <1>7 DEF MemoryTyped

\* Storing an object, promoting one among them, keeps the marks: an object that
\* is not marked brings back only what nobody has withdrawn since.
LEMMA UpsertKeepsMarks ==
    ASSUME MemoryTyped, Marked, NEW o \in Objects, NEW obj \in Object,
           object[o] # NoObject, obj.id = object[o].id, Upserts(o, obj),
           object' = [object EXCEPT ![o] = obj],
           withdrawn' \subseteq withdrawn \cup {obj.id}, missed \ {obj.id} \subseteq missed',
           object[o].deprecated => obj.deprecated,
           obj.id \in withdrawn' \ missed' => obj.deprecated
    PROVE  Marked'
<1>1. obj.id \in Entities BY DEF MemoryTyped
<1>2. /\ row' = [row EXCEPT ![obj.id] = RowOf(obj)]
      /\ cache' = [cache EXCEPT ![obj.id] = o]
  BY DEF Upserts
<1>3. withdrawn' \subseteq Entities BY <1>1 DEF Marked
<1>4. ASSUME NEW e \in withdrawn' \ missed'
      PROVE  /\ row'[e].stored => row'[e].deprecated
             /\ cache'[e] # None => object'[cache'[e]].deprecated
  <2>1. CASE e = obj.id
    <3>1. row'[e].deprecated = obj.deprecated /\ cache'[e] = o /\ object'[o] = obj
      BY <1>1, <1>2, <2>1 DEF MemoryTyped, RowOf
    <3> QED BY <3>1, <2>1, <1>4
  <2>2. CASE e # obj.id
    <3>1. e \in withdrawn \ missed /\ e \in Entities BY <1>4, <2>2 DEF Marked
    <3>2. row'[e] = row[e] /\ cache'[e] = cache[e]
      BY <1>2, <2>2, <3>1 DEF MemoryTyped
    <3>3. cache[e] # None => cache[e] \in Objects /\ cache[e] # o
      BY <2>2, <3>1, CachedIsMade
    <3>4. cache[e] # None => object'[cache[e]] = object[cache[e]]
      BY <3>3 DEF MemoryTyped
    <3> QED BY <3>1, <3>2, <3>4 DEF Marked
  <2> QED BY <2>1, <2>2
<1> QED BY <1>3, <1>4 DEF Marked

\* deprecate and archive mark the cached object, whether the upsert succeeds or
\* not; and what they withdraw is then marked.
LEMMA DeprecationKeeps ==
    ASSUME MemoryTyped, Marked, NEW e \in Entities, NEW succeeds \in BOOLEAN,
           MarksDeprecated(e, succeeds), UNCHANGED day,
           withdrawn' = IF succeeds THEN withdrawn \cup {e} ELSE withdrawn,
           missed' = IF succeeds THEN missed \ {e} ELSE missed
    PROVE  MemoryTyped' /\ Marked'
<1> DEFINE o == cache[e]
           obj == [object[o] EXCEPT !.deprecated = TRUE]
<1>1. /\ cache[e] # None
      /\ object' = [object EXCEPT ![o] = obj]
      /\ succeeds => Upserts(o, obj)
      /\ ~ succeeds => UpsertFails
  BY DEF MarksDeprecated
<1>2. o \in Objects /\ object[o] \in Object /\ object[o].id = e /\ object[o] # NoObject
  BY <1>1, CachedIsMade
<1>3. obj \in Object /\ obj.id = e /\ obj.usable = object[o].usable
  BY <1>2 DEF Object
<1>4. obj.deprecated BY <1>2 DEF Object
<1> HIDE DEF obj
<1>5. CASE succeeds
  <2>1. MemoryTyped' BY <1>1, <1>2, <1>3, <1>5, UpsertKeepsTypes
  <2>2. Marked' BY <1>1, <1>2, <1>3, <1>4, <1>5, UpsertKeepsMarks
  <2> QED BY <2>1, <2>2
<1>6. CASE ~ succeeds
  <2>1. UNCHANGED <<row, cache, withdrawn, missed>> BY <1>1, <1>6 DEF UpsertFails
  <2>2. object' \in [Objects -> Object] BY <1>1, <1>3 DEF MemoryTyped
  <2>3. \A q \in Objects : object'[q] # NoObject => object'[q].id \in Entities
    BY <1>1, <1>2, <1>3 DEF MemoryTyped
  <2>4. \A f \in Entities : cache[f] # None =>
            cache[f] \in Objects /\ object'[cache[f]].id = f /\ object'[cache[f]].usable
    BY <1>1, <1>2, <1>3 DEF MemoryTyped
  <2>5. MemoryTyped' BY <2>1, <2>2, <2>3, <2>4 DEF MemoryTyped
  <2>6. ASSUME NEW f \in withdrawn \ missed, cache[f] # None
        PROVE  object'[cache[f]].deprecated
    <3>1. cache[f] \in Objects /\ object[cache[f]].deprecated
      BY <2>6, CachedIsMade DEF Marked
    <3>2. CASE cache[f] = o BY <1>1, <1>2, <1>4, <3>2 DEF MemoryTyped
    <3>3. CASE cache[f] # o BY <1>1, <3>1, <3>3 DEF MemoryTyped
    <3> QED BY <3>2, <3>3
  <2>7. Marked' BY <2>1, <2>6 DEF Marked
  <2> QED BY <2>5, <2>7
<1> QED BY <1>5, <1>6

\* An archive of an entity that get does not find withdraws it all the same; if
\* there is a row of it, it was missed.
LEMMA UnknownStaysOut ==
    ASSUME MemoryTyped, Marked, NEW e \in Entities, ArchivesUnknown(e),
           UNCHANGED day, withdrawn' = withdrawn \cup {e}
    PROVE  MemoryTyped' /\ Marked'
<1>1. UNCHANGED <<row, object, cache>> BY DEF ArchivesUnknown
<1>2. MemoryTyped' BY <1>1 DEF MemoryTyped
<1>3. /\ cache[e] = None
      /\ missed' = IF row[e].stored THEN missed \cup {e} ELSE missed
  BY DEF ArchivesUnknown, Unknown
<1>4. withdrawn' \subseteq Entities BY DEF Marked
<1>5. ASSUME NEW f \in withdrawn' \ missed'
      PROVE  /\ row[f].stored => row[f].deprecated
             /\ cache[f] # None => object[cache[f]].deprecated
  <2>1. CASE f = e BY <1>3, <1>5, <2>1
  <2>2. CASE f # e
    <3>1. f \in withdrawn \ missed BY <1>3, <1>5, <2>2
    <3> QED BY <3>1 DEF Marked
  <2> QED BY <2>1, <2>2
<1> QED BY <1>1, <1>2, <1>4, <1>5 DEF Marked

\* What a search finds.
LEMMA SearchFinds ==
    ASSUME LongTermInv, LongTermAssumption, Search
    PROVE  FoundGood' /\ \A r \in retrieved' : r.id \in withdrawn => r.id \in missed
<1>1. PICK similarity \in [Entities -> Similarities], min \in {0, 2}, limit \in 1 .. 2 :
        \E T \in Nearest({e \in Entities : row[e].stored}, similarity,
                         Larger(limit * FETCH_FACTOR, FETCH_MIN)) :
        \E found \in Nearest(Kept(T, similarity, min), similarity, limit) :
           retrieved' = {Result(e, similarity) : e \in found}
  BY DEF Search
<1>2. PICK T, found :
        /\ T \subseteq {e \in Entities : row[e].stored}
        /\ found \subseteq Kept(T, similarity, min)
        /\ retrieved' = {Result(e, similarity) : e \in found}
  BY <1>1 DEF Nearest
<1>3. ASSUME NEW e \in found
      PROVE  /\ e \in Entities /\ e \notin withdrawn \ missed
             /\ similarity[e] \in Int /\ similarity[e] >= MIN_SIMILARITY
             /\ ~ row[e].deprecated
             /\ row[e].created \in Int /\ row[e].created >= day - MAX_STALENESS_DAYS
  <2>1. e \in Entities /\ row[e].stored /\ e \in Kept(T, similarity, min)
    BY <1>2 DEF Kept
  <2>2. /\ ~ row[e].deprecated /\ ~ Stale(row[e].created)
        /\ similarity[e] >= Larger(min, MIN_SIMILARITY)
    BY <2>1 DEF Kept
  <2>3. e \notin withdrawn \ missed BY <2>1, <2>2 DEF LongTermInv, Marked
  <2>4. similarity[e] \in {0, 1, 2} /\ min \in {0, 2} BY <2>1 DEF Similarities
  <2>5. similarity[e] >= MIN_SIMILARITY BY <2>2, <2>4 DEF Larger, MIN_SIMILARITY
  <2>6. row[e].created \in Int /\ day \in Int BY <2>1 DEF LongTermInv, MemoryTyped
  <2>7. row[e].created >= day - MAX_STALENESS_DAYS
    BY <2>2, <2>6 DEF Stale, LongTermAssumption
  <2> QED BY <2>1, <2>2, <2>3, <2>4, <2>5, <2>6, <2>7
<1>4. UNCHANGED day /\ day \in Int BY DEF Search, LongTermInv, MemoryTyped
<1>5. ASSUME NEW r \in retrieved'
      PROVE  /\ {r.similarity, r.created, r.on} \subseteq Int
             /\ r.on <= day'
             /\ r.similarity >= MIN_SIMILARITY
             /\ ~ r.deprecated
             /\ r.created >= r.on - MAX_STALENESS_DAYS
             /\ r.id \notin withdrawn \ missed
  <2>1. PICK e \in found : r = Result(e, similarity) BY <1>2
  <2>2. /\ r.id = e /\ r.similarity = similarity[e] /\ r.created = row[e].created
        /\ r.on = day
    BY <2>1 DEF Result
  <2>3. ~ r.deprecated BY <2>1, <1>3 DEF Result
  <2>4. r.on <= day' BY <2>2, <1>4
  <2> QED BY <2>2, <2>3, <2>4, <1>3, <1>4
<1> QED BY <1>5 DEF FoundGood

\* Every operation of the long-term memory keeps its invariant.
LEMMA LongTermStep ==
    ASSUME LongTermInv, [LongTermNext]_longTermVars PROVE LongTermInv'
<1> USE LongTermAssumption DEF LongTermInv
<1>1. CASE NextDay
  <2>1. MemoryTyped' BY <1>1 DEF NextDay, MemoryTyped
  <2>2. day' >= day /\ retrieved' = retrieved BY <1>1 DEF NextDay, MemoryTyped
  <2>3. FoundGood' BY <2>1, <2>2, FoundStaysGood DEF MemoryTyped
  <2> QED BY <1>1, <2>1, <2>3 DEF NextDay, Marked
<1>2. CASE RestartStore
  <2>1. /\ object' = [o \in Objects |-> NoObject] /\ cache' = [e \in Entities |-> None]
        /\ retrieved' = {} /\ UNCHANGED <<day, withdrawn>>
        /\ \/ row' = row /\ missed' = missed
           \/ row' = [e \in Entities |-> NoRow]
    BY <1>2 DEF RestartStore
  <2>2. NoObject \in Object BY DEF NoObject, Object
  <2>3. NoRow \in [created : Int, deprecated : BOOLEAN, stored : BOOLEAN] /\ ~ NoRow.stored
    BY DEF NoRow
  <2>4. MemoryTyped' BY <2>1, <2>2, <2>3 DEF MemoryTyped
  <2>5. Marked' BY <2>1, <2>3 DEF Marked
  <2>6. FoundGood' BY <2>1 DEF FoundGood
  <2> QED BY <2>4, <2>5, <2>6
<1>3. CASE ClearStore
  <2>1. /\ row' = [e \in Entities |-> NoRow] /\ cache' = [e \in Entities |-> None]
        /\ UNCHANGED <<day, object, retrieved, withdrawn>>
    BY <1>3 DEF ClearStore
  <2>2. NoRow \in [created : Int, deprecated : BOOLEAN, stored : BOOLEAN] /\ ~ NoRow.stored
    BY DEF NoRow
  <2>3. MemoryTyped' BY <2>1, <2>2 DEF MemoryTyped
  <2>4. Marked' BY <2>1, <2>2 DEF Marked
  <2>5. FoundGood' BY <2>1 DEF FoundGood
  <2> QED BY <2>3, <2>4, <2>5
<1>4. CASE Search
  <2>1. MemoryTyped' BY <1>4 DEF Search, MemoryTyped
  <2>2. Marked' BY <1>4 DEF Search, Marked
  <2> QED BY <1>4, <2>1, <2>2, SearchFinds
<1>5. CASE Validate
  <2>1. MemoryTyped' BY <1>5 DEF Validate, MemoryTyped
  <2>2. Marked' BY <1>5 DEF Validate, Marked
  <2> QED BY <1>5, <2>1, <2>2 DEF Validate, FoundGood
<1>6. ASSUME NEW o \in Objects, MakeEntity(o) PROVE LongTermInv'
  <2>1. PICK e \in Entities, usable \in BOOLEAN :
          object' = [object EXCEPT ![o] =
              [id |-> e, created |-> day, deprecated |-> FALSE, usable |-> usable]]
    BY <1>6 DEF MakeEntity
  <2>2. object[o] = NoObject /\ UNCHANGED <<day, row, cache, retrieved, withdrawn, missed>>
    BY <1>6 DEF MakeEntity
  <2> DEFINE new == [id |-> e, created |-> day, deprecated |-> FALSE, usable |-> usable]
  <2>3. new \in Object /\ new.id = e BY DEF Object, MemoryTyped
  <2> HIDE DEF new
  <2>4. object' = [object EXCEPT ![o] = new] BY <2>1 DEF new
  <2>5. \A f \in Entities : cache[f] # None => cache[f] \in Objects /\ cache[f] # o
    BY <2>2, CachedIsMade
  <2>6. \A f \in Entities : cache[f] # None => object'[cache[f]] = object[cache[f]]
    BY <2>4, <2>5 DEF MemoryTyped
  <2>7. MemoryTyped' BY <2>2, <2>3, <2>4, <2>6 DEF MemoryTyped
  <2>8. Marked' BY <2>2, <2>6 DEF Marked
  <2>9. FoundGood' BY <2>2 DEF FoundGood
  <2> QED BY <2>7, <2>8, <2>9
<1>7. ASSUME NEW o \in Objects, Store(o) PROVE LongTermInv'
  <2>1. object[o] # NoObject /\ UNCHANGED <<day, object, retrieved>>
    BY <1>7 DEF Store
  <2>2. FoundGood' BY <2>1 DEF FoundGood
  <2>3. object[o] \in Object /\ object[o].id \in Entities
        /\ object' = [object EXCEPT ![o] = object[o]]
    BY <2>1 DEF MemoryTyped
  <2>4. CASE /\ Upserts(o, object[o])
             /\ withdrawn' = IF object[o].deprecated THEN withdrawn
                             ELSE withdrawn \ {object[o].id}
             /\ missed' = missed \ {object[o].id}
    <3>1. MemoryTyped' BY <2>1, <2>3, <2>4, UpsertKeepsTypes
    <3>2. /\ withdrawn' \subseteq withdrawn \cup {object[o].id}
          /\ missed \ {object[o].id} \subseteq missed'
          /\ object[o].id \in withdrawn' => object[o].deprecated
      BY <2>4
    <3>3. Marked' BY <2>1, <2>3, <2>4, <3>2, UpsertKeepsMarks
    <3> QED BY <2>2, <3>1, <3>3
  <2>5. CASE UpsertFails /\ UNCHANGED <<withdrawn, missed>>
    <3>1. MemoryTyped' BY <2>1, <2>5 DEF UpsertFails, MemoryTyped
    <3>2. Marked' BY <2>1, <2>5 DEF UpsertFails, Marked
    <3> QED BY <2>2, <3>1, <3>2
  <2> QED BY <1>7, <2>4, <2>5 DEF Store
<1>8. ASSUME NEW o \in Objects, Archive(o) PROVE LongTermInv'
  <2> DEFINE e == object[o].id
  <2>1. e \in Entities /\ UNCHANGED <<day, retrieved>>
    BY <1>8 DEF Archive, MemoryTyped
  <2>2. FoundGood' BY <2>1 DEF FoundGood
  <2>3. \/ /\ MarksDeprecated(e, TRUE) /\ missed' = missed \ {e}
           /\ withdrawn' = withdrawn \cup {e}
        \/ ArchivesUnknown(e) /\ withdrawn' = withdrawn \cup {e}
        \/ MarksDeprecated(e, FALSE) /\ UNCHANGED <<withdrawn, missed>>
    BY <1>8 DEF Archive
  <2> HIDE DEF e
  <2>4. CASE /\ MarksDeprecated(e, TRUE) /\ missed' = missed \ {e}
             /\ withdrawn' = withdrawn \cup {e}
    BY <2>1, <2>2, <2>4, DeprecationKeeps
  <2>5. CASE ArchivesUnknown(e) /\ withdrawn' = withdrawn \cup {e}
    BY <2>1, <2>2, <2>5, UnknownStaysOut
  <2>6. CASE MarksDeprecated(e, FALSE) /\ UNCHANGED <<withdrawn, missed>>
    BY <2>1, <2>2, <2>6, DeprecationKeeps
  <2> QED BY <2>3, <2>4, <2>5, <2>6
<1>9. ASSUME NEW e \in Entities, Get(e) PROVE LongTermInv'
  <2>1. PICK o \in Objects :
          /\ cache[e] = None /\ row[e].stored /\ object[o] = NoObject
          /\ object' = [object EXCEPT ![o] =
                 [id |-> e, created |-> row[e].created,
                  deprecated |-> row[e].deprecated, usable |-> TRUE]]
          /\ cache' = [cache EXCEPT ![e] = o]
    BY <1>9 DEF Get
  <2>2. UNCHANGED <<day, row, retrieved, withdrawn, missed>> BY <1>9 DEF Get
  <2> DEFINE new == [id |-> e, created |-> row[e].created,
                     deprecated |-> row[e].deprecated, usable |-> TRUE]
  <2>3. new \in Object /\ new.id = e /\ new.usable = TRUE
    BY DEF Object, MemoryTyped
  <2>4. new.deprecated = row[e].deprecated OBVIOUS
  <2>5. object' = [object EXCEPT ![o] = new] BY <2>1
  <2> HIDE DEF new
  <2>6. \A f \in Entities : f # e /\ cache[f] # None =>
            cache'[f] = cache[f] /\ object'[cache[f]] = object[cache[f]]
    BY <2>1, <2>5, CachedIsMade DEF MemoryTyped
  <2>7. cache'[e] = o /\ object'[o] = new BY <2>1, <2>5 DEF MemoryTyped
  <2>8. MemoryTyped'
    <3>1. object' \in [Objects -> Object] BY <2>3, <2>5 DEF MemoryTyped
    <3>2. cache' \in [Entities -> Objects \cup {None}] BY <2>1 DEF MemoryTyped
    <3>3. \A q \in Objects : object'[q] # NoObject => object'[q].id \in Entities
      BY <2>3, <2>5 DEF MemoryTyped
    <3>4. \A f \in Entities : cache'[f] # None =>
            cache'[f] \in Objects /\ object'[cache'[f]].id = f /\ object'[cache'[f]].usable
      <4> SUFFICES ASSUME NEW f \in Entities, cache'[f] # None
                   PROVE  cache'[f] \in Objects /\ object'[cache'[f]].id = f
                          /\ object'[cache'[f]].usable
        OBVIOUS
      <4>1. CASE f = e BY <4>1, <2>3, <2>7
      <4>2. CASE f # e
        <5>1. cache'[f] = cache[f] BY <4>2, <2>1 DEF MemoryTyped
        <5> QED BY <4>2, <5>1, <2>6 DEF MemoryTyped
      <4> QED BY <4>1, <4>2
    <3> QED BY <2>2, <3>1, <3>2, <3>3, <3>4 DEF MemoryTyped
  <2>9. ASSUME NEW f \in withdrawn \ missed, cache'[f] # None
        PROVE  object'[cache'[f]].deprecated
    <3>1. CASE f = e BY <3>1, <2>1, <2>4, <2>7, <2>9 DEF Marked
    <3>2. CASE f # e
      <4>1. f \in Entities /\ cache'[f] = cache[f] BY <3>2, <2>1 DEF MemoryTyped, Marked
      <4> QED BY <3>2, <4>1, <2>6, <2>9 DEF Marked
    <3> QED BY <3>1, <3>2
  <2>10. Marked' BY <2>2, <2>9 DEF Marked
  <2>11. FoundGood' BY <2>2 DEF FoundGood
  <2> QED BY <2>8, <2>10, <2>11
<1>10. ASSUME NEW e \in Entities, Promote(e) PROVE LongTermInv'
  <2> DEFINE o == cache[e]
  <2>1. cache[e] # None /\ UNCHANGED <<day, object, retrieved, withdrawn, missed>>
    BY <1>10 DEF Promote
  <2>2. FoundGood' BY <2>1 DEF FoundGood
  <2>3. o \in Objects /\ object[o] \in Object /\ object[o].id = e /\ object[o] # NoObject
    BY <2>1, CachedIsMade
  <2>4. object' = [object EXCEPT ![o] = object[o]] BY <2>1 DEF MemoryTyped
  <2>5. e \in withdrawn \ missed => object[o].deprecated BY <2>1 DEF Marked
  <2>6. CASE Upserts(o, object[o])
    <3>1. MemoryTyped' BY <2>1, <2>3, <2>4, <2>6, UpsertKeepsTypes
    <3>2. Marked' BY <2>1, <2>3, <2>4, <2>5, <2>6, UpsertKeepsMarks
    <3> QED BY <2>2, <3>1, <3>2
  <2>7. CASE UpsertFails
    <3>1. MemoryTyped' BY <2>1, <2>7 DEF UpsertFails, MemoryTyped
    <3>2. Marked' BY <2>1, <2>7 DEF UpsertFails, Marked
    <3> QED BY <2>2, <3>1, <3>2
  <2> QED BY <1>10, <2>6, <2>7 DEF Promote
<1>11. ASSUME NEW e \in Entities, Deprecate(e) PROVE LongTermInv'
  <2>1. UNCHANGED <<day, retrieved>> BY <1>11 DEF Deprecate
  <2>2. FoundGood' BY <2>1 DEF FoundGood
  <2>3. PICK succeeds \in BOOLEAN :
          /\ MarksDeprecated(e, succeeds)
          /\ withdrawn' = IF succeeds THEN withdrawn \cup {e} ELSE withdrawn
          /\ missed' = IF succeeds THEN missed \ {e} ELSE missed
    BY <1>11 DEF Deprecate
  <2> QED BY <2>1, <2>2, <2>3, DeprecationKeeps
<1>12. ASSUME NEW e \in Entities, Delete(e) PROVE LongTermInv'
  <2>1. /\ row' = [row EXCEPT ![e] = NoRow] /\ cache' = [cache EXCEPT ![e] = None]
        /\ missed' = missed \ {e}
        /\ UNCHANGED <<day, object, retrieved, withdrawn>>
    BY <1>12 DEF Delete
  <2>2. NoRow \in [created : Int, deprecated : BOOLEAN, stored : BOOLEAN] /\ ~ NoRow.stored
    BY DEF NoRow
  <2>3. \A f \in Entities : cache'[f] # None => f # e /\ cache'[f] = cache[f]
    BY <2>1 DEF MemoryTyped
  <2>4. MemoryTyped' BY <2>1, <2>2, <2>3 DEF MemoryTyped
  <2>5. \A f \in Entities : row'[f].stored => f # e /\ row'[f] = row[f]
    BY <2>1, <2>2 DEF MemoryTyped
  <2>6. ASSUME NEW f \in withdrawn' \ missed'
        PROVE  /\ row'[f].stored => row'[f].deprecated
               /\ cache'[f] # None => object'[cache'[f]].deprecated
    <3>1. f \in Entities /\ f \in withdrawn BY <2>1, <2>6 DEF Marked
    <3>2. f # e => f \in withdrawn \ missed BY <2>1, <2>6, <3>1
    <3>3. CASE f = e
      <4>1. ~ row'[f].stored /\ cache'[f] = None BY <2>3, <2>5, <3>1, <3>3
      <4> QED BY <4>1
    <3>4. CASE f # e
      <4>1. /\ row[f].stored => row[f].deprecated
            /\ cache[f] # None => object[cache[f]].deprecated
        BY <3>2, <3>4 DEF Marked
      <4>2. row'[f] = row[f] /\ cache'[f] = cache[f] /\ object' = object
        BY <2>1, <3>1, <3>4 DEF MemoryTyped
      <4> QED BY <4>1, <4>2
    <3> QED BY <3>3, <3>4
  <2>8. Marked' BY <2>1, <2>6 DEF Marked
  <2>7. FoundGood' BY <2>1 DEF FoundGood
  <2> QED BY <2>4, <2>7, <2>8
<1>13. CASE UNCHANGED longTermVars
  BY <1>13 DEF longTermVars, MemoryTyped, Marked, FoundGood
<1> QED
  BY <1>1, <1>2, <1>3, <1>4, <1>5, <1>6, <1>7, <1>8, <1>9, <1>10, <1>11, <1>12, <1>13
     DEF LongTermNext

\* The bookkeeping of the long-term memory: every id that is withdrawn is marked
\* wherever a search could find it, and an answer was made of what was fit that day.
THEOREM LongTermMarked == LongTermSpec => []LongTermInv
<1>1. LongTermInit => LongTermInv
  <2> SUFFICES ASSUME LongTermInit PROVE LongTermInv OBVIOUS
  <2>1. NoObject \in Object BY DEF NoObject, Object
  <2>2. NoRow \in [created : Int, deprecated : BOOLEAN, stored : BOOLEAN]
    BY DEF NoRow
  <2>3. MemoryTyped BY <2>1, <2>2 DEF LongTermInit, MemoryTyped
  <2> QED BY <2>3 DEF LongTermInit, LongTermInv, Marked, FoundGood
<1> QED BY <1>1, LongTermStep, PTL DEF LongTermSpec

\* What was deprecated or archived is never found again, until a caller stores
\* something else under its id, but for what an archive did not find.
THEOREM WithdrawnEntitiesStayOut == LongTermSpec => EntitiesStayOut
<1>1. ASSUME LongTermInv, [LongTermNext]_longTermVars
      PROVE  [retrieved = {} =>
                 \A r \in retrieved' : r.id \in withdrawn => r.id \in missed]_longTermVars
  <2>1. CASE Search BY <1>1, <2>1, LongTermAssumption, SearchFinds
  <2>2. CASE ~ Search /\ ~ UNCHANGED longTermVars
    <3>1. retrieved' \subseteq retrieved
      BY <1>1, <2>2 DEF LongTermNext, NextDay, RestartStore, ClearStore, Validate,
         MakeEntity, Store, Archive, Get, Promote, Deprecate, Delete
    <3> QED BY <3>1
  <2> QED BY <2>1, <2>2
<1> QED BY <1>1, LongTermMarked, PTL DEF LongTermSpec, EntitiesStayOut

\* The search and the validator behind it judge alike.
THEOREM SearchAndValidatorAgree == LongTermSpec => []ValidatorAgrees
<1>1. LongTermInv => ValidatorAgrees
  <2> SUFFICES ASSUME LongTermInv, NEW r \in retrieved, ~ IsValid(r)
               PROVE  r.on < day /\ Stale(r.created) /\ ~ r.deprecated
    BY DEF ValidatorAgrees
  <2>1. /\ {r.similarity, r.created, r.on} \subseteq Int /\ r.on <= day
        /\ r.similarity >= MIN_SIMILARITY /\ ~ r.deprecated
        /\ r.created >= r.on - MAX_STALENESS_DAYS
        /\ day \in Int
    BY DEF LongTermInv, FoundGood, MemoryTyped
  <2>2. Stale(r.created) BY <2>1 DEF IsValid
  <2>3. r.on < day BY <2>1, <2>2, LongTermAssumption DEF Stale, LongTermAssumption
  <2> QED BY <2>1, <2>2, <2>3
<1> QED BY <1>1, LongTermMarked, PTL

-----------------------------------------------------------------------------
(***************************************************************************)
(* Conversations.                                                          *)
(***************************************************************************)

Requirements == [fields : Fields, complete : BOOLEAN]

TaskMade == [lacks : SUBSET RequiredFields, stale : BOOLEAN]

RequestType ==
    [pc : {"idle", "streaming", "creating", "made"}, session : Sessions \cup {"none"},
     task : TaskMade]

\* Requests and sessions are well formed, and is_complete is what the fields
\* make of it, whoever changed them last, unless an update has broken off.
ChatTyped ==
    /\ sessions \subseteq Sessions
    /\ requirements \in [Sessions -> Requirements]
    /\ \A s \in Sessions :
          requirements[s].complete /\ s \notin broken =>
              Filled(requirements[s].fields) = RequiredFields
    /\ request \in [Requests -> RequestType]
    /\ \A r \in Requests : request[r].pc # "idle" => request[r].session \in Sessions
    /\ made \in [Sessions -> Seq(TaskMade)]

\* A task lacks nothing, or it was made of what a broken update had left.
Excused(task) == task.lacks # {} => task.stale

\* So it is with a task that is being made, and with one that is made.
Earned ==
    /\ \A r \in Requests : request[r].pc = "creating" => Excused(request[r].task)
    /\ \A s \in Sessions : \A i \in 1 .. Len(made[s]) : Excused(made[s][i])

\* While no two requests make a task of the session at the same time: one at
\* most is at it, it makes the only task, and the session of a task that is made
\* is found only as long as the one who made it has not cleaned up.
Single(s) ==
    /\ \A q, r \in Making(s) : q = r
    /\ \A r \in Making(s) : Len(made[s]) = IF request[r].pc = "made" THEN 1 ELSE 0
    /\ Len(made[s]) <= 1
    /\ s \in sessions /\ Making(s) = {} => Len(made[s]) = 0

ChatInv ==
    /\ ChatTyped /\ Earned
    /\ \A s \in Sessions : s \in overlapped \/ Single(s)

LEMMA NoRequestTyped == NoRequest \in RequestType /\ NoRequest.pc = "idle"
  BY DEF NoRequest, RequestType, Nothing, TaskMade

LEMMA MakingMembers ==
    ASSUME NEW s, NEW r
    PROVE  r \in Making(s) <=>
              /\ r \in Requests /\ request[r].pc \in {"creating", "made"}
              /\ request[r].session = s
  BY DEF Making

\* What is kept when one request changes and nothing is committed.
LEMMA RequestChanges ==
    ASSUME ChatTyped, NEW r \in Requests, NEW new \in RequestType,
           new.pc # "idle" => new.session \in Sessions,
           request' = [request EXCEPT ![r] = new],
           UNCHANGED <<requirements, broken, made>>, sessions' \subseteq sessions
    PROVE  ChatTyped'
  BY DEF ChatTyped

\* A request that makes no task becomes one that makes none.
LEMMA BystanderStays ==
    ASSUME ChatTyped, \A s \in Sessions : s \in overlapped \/ Single(s),
           NEW r \in Requests, NEW new \in RequestType,
           request[r].pc \in {"idle", "streaming"}, new.pc \in {"idle", "streaming"},
           request' = [request EXCEPT ![r] = new],
           UNCHANGED <<made, overlapped>>, sessions' \subseteq sessions
    PROVE  \A s \in Sessions : s \in overlapped' \/ Single(s)'
<1>1. \A s : Making(s)' = Making(s)
  BY DEF Making, ChatTyped
<1>2. ASSUME NEW s \in Sessions, NEW q \in Making(s) PROVE request'[q] = request[q]
  BY <1>2 DEF Making, ChatTyped
<1> QED BY <1>1, <1>2 DEF Single

\* What is said of the requirements: is_complete is computed with every change.
LEMMA CompletenessIsComputed ==
    ASSUME NEW fields \in Fields
    PROVE  /\ WithCompleteness(fields) \in Requirements
           /\ WithCompleteness(fields).complete =>
                 Filled(WithCompleteness(fields).fields) = RequiredFields
<1>1. WithCompleteness(fields) \in Requirements
  BY Zenon DEF WithCompleteness, Requirements
<1>2. WithCompleteness(fields).fields = fields
  BY DEF WithCompleteness
<1>3. WithCompleteness(fields).complete = (Filled(fields) = RequiredFields)
  BY Zenon DEF WithCompleteness
<1> QED BY <1>1, <1>2, <1>3

\* The requirements of a session change: is_complete is computed, or the session
\* is one of those of which an update has broken off.
LEMMA RequirementsChange ==
    ASSUME ChatInv, NEW s \in Sessions, NEW new \in Requirements,
           requirements' = [requirements EXCEPT ![s] = new],
           \/ /\ new.complete => Filled(new.fields) = RequiredFields
              /\ broken' = broken \ {s}
           \/ broken' = broken \cup {s},
           UNCHANGED <<sessions, made>>, request' \in [Requests -> RequestType],
           \A r \in Requests : request'[r].pc # "idle" => request'[r].session \in Sessions
    PROVE  ChatTyped'
<1>1. requirements' \in [Sessions -> Requirements] BY DEF ChatInv, ChatTyped
<1>2. ASSUME NEW t \in Sessions, requirements'[t].complete, t \notin broken'
      PROVE  Filled(requirements'[t].fields) = RequiredFields
  <2>1. CASE t = s BY <1>2, <2>1 DEF ChatInv, ChatTyped
  <2>2. CASE t # s
    <3>1. requirements'[t] = requirements[t] /\ t \notin broken
      BY <1>2, <2>2 DEF ChatInv, ChatTyped
    <3> QED BY <1>2, <3>1 DEF ChatInv, ChatTyped
  <2> QED BY <2>1, <2>2
<1> QED BY <1>1, <1>2 DEF ChatInv, ChatTyped

LEMMA SingleFrom ==
    ASSUME \A s \in Sessions : s \in overlapped \/ Single(s),
           UNCHANGED <<request, made, overlapped>>,
           \A s \in Sessions : s \in sessions' => s \in sessions \/ Len(made[s]) = 0
    PROVE  \A s \in Sessions : s \in overlapped' \/ Single(s)'
<1>1. \A s : Making(s)' = Making(s) BY DEF Making
<1> QED BY <1>1 DEF Single

LEMMA SessionsChange ==
    ASSUME ChatInv, UNCHANGED <<requirements, request, broken, made, overlapped>>,
           sessions' \subseteq Sessions,
           \A s \in sessions' \ sessions : made[s] = <<>>
    PROVE  ChatInv'
<1>1. ChatTyped' BY DEF ChatInv, ChatTyped
<1>2. Earned' BY DEF ChatInv, Earned
<1>3. \A s \in Sessions : s \in sessions' => s \in sessions \/ Len(made[s]) = 0
  OBVIOUS
<1>4. \A s \in Sessions : s \in overlapped' \/ Single(s)'
  BY <1>3, SingleFrom DEF ChatInv
<1> QED BY <1>1, <1>2, <1>4 DEF ChatInv

\* A task is begun only from requirements that lack nothing, or were left broken.
LEMMA BeginCreateKeeps ==
    ASSUME ChatInv, NEW r \in Requests, NEW s \in Sessions, BeginCreate(r, s)
    PROVE  ChatInv'
<1> DEFINE new == [pc |-> "creating", session |-> s,
                   task |-> TaskOf(s)]
<1>1. /\ request[r].pc = "idle" /\ s \in sessions /\ requirements[s].complete
      /\ request' = [request EXCEPT ![r] = new]
      /\ overlapped' = IF Making(s) = {} THEN overlapped ELSE overlapped \cup {s}
      /\ UNCHANGED <<sessions, requirements, broken, made>>
  BY DEF BeginCreate
<1>2. TaskOf(s) \in TaskMade /\ Excused(TaskOf(s))
  <2>1. s \notin broken => RequiredFields \ Filled(requirements[s].fields) = {}
    BY <1>1 DEF ChatInv, ChatTyped
  <2>2. /\ TaskOf(s).lacks = RequiredFields \ Filled(requirements[s].fields)
        /\ TaskOf(s).stale = (s \in broken)
    BY Zenon DEF TaskOf
  <2>3. TaskOf(s) \in TaskMade
    <3>1. RequiredFields \ Filled(requirements[s].fields) \in SUBSET RequiredFields
      OBVIOUS
    <3>2. (s \in broken) \in BOOLEAN OBVIOUS
    <3> QED BY <3>1, <3>2, Zenon DEF TaskOf, TaskMade
  <2>4. Excused(TaskOf(s)) BY <2>1, <2>2 DEF Excused
  <2> QED BY <2>3, <2>4
<1>3. /\ new \in RequestType /\ new.pc = "creating" /\ new.session = s
      /\ new.task = TaskOf(s)
  BY <1>2 DEF RequestType
<1> HIDE DEF new
<1>4. ChatTyped' BY <1>1, <1>3, RequestChanges DEF ChatInv
<1>5. Earned' BY <1>1, <1>2, <1>3 DEF ChatInv, ChatTyped, Earned
<1>6. ASSUME NEW t \in Sessions PROVE t \in overlapped' \/ Single(t)'
  <2>1. CASE t = s
    <3>1. CASE Making(s) # {} BY <3>1, <1>1, <2>1
    <3>2. CASE Making(s) = {} /\ s \notin overlapped
      <4>1. Single(s) BY <3>2 DEF ChatInv
      <4>2. Making(s)' = {r}
        BY <1>1, <1>3, <3>2 DEF Making, ChatInv, ChatTyped
      <4>3. Len(made[s]) = 0 BY <4>1, <3>2, <1>1 DEF Single
      <4>4. request'[r] = new BY <1>1 DEF ChatInv, ChatTyped
      <4> QED BY <1>1, <1>3, <2>1, <4>2, <4>3, <4>4 DEF Single
    <3> QED BY <3>1, <3>2, <2>1, <1>1
  <2>2. CASE t # s
    <3>1. Making(t)' = Making(t)
      BY <1>1, <1>3, <2>2 DEF Making, ChatInv, ChatTyped
    <3>2. \A q \in Making(t) : request'[q] = request[q]
      BY <1>1 DEF Making, ChatInv, ChatTyped
    <3>3. t \in overlapped \/ Single(t) BY DEF ChatInv
    <3> QED BY <1>1, <3>1, <3>2, <3>3 DEF Single
  <2> QED BY <2>1, <2>2
<1> QED BY <1>4, <1>5, <1>6 DEF ChatInv

\* The task is committed: the only one of its session, if nobody overlapped.
LEMMA TaskCommittedKeeps ==
    ASSUME ChatInv, NEW r \in Requests, TaskCommitted(r) PROVE ChatInv'
<1> DEFINE s == request[r].session
           new == [request[r] EXCEPT !.pc = "made"]
<1>1. /\ request[r].pc = "creating"
      /\ made' = [made EXCEPT ![s] = Append(made[s], request[r].task)]
      /\ request' = [request EXCEPT ![r] = new]
      /\ UNCHANGED <<sessions, requirements, broken, overlapped>>
  BY DEF TaskCommitted
<1>2. /\ request[r] \in RequestType /\ s \in Sessions /\ Excused(request[r].task)
      /\ made[s] \in Seq(TaskMade)
  BY <1>1 DEF ChatInv, ChatTyped, Earned
<1>3. new \in RequestType /\ new.pc = "made" /\ new.session = s
  BY <1>2 DEF RequestType
<1>4. PICK z : z = s OBVIOUS
<1>0. PICK task \in TaskMade : task = request[r].task /\ Excused(task)
  BY <1>2 DEF RequestType
<1>5. /\ request[r].session = z /\ new.session = z
      /\ made' = [made EXCEPT ![z] = Append(made[z], task)]
  BY <1>0, <1>1, <1>2, <1>3, <1>4
<1>6. PICK old \in Seq(TaskMade) : old = made[z] BY <1>2, <1>4
<1>7. /\ Append(old, task) \in Seq(TaskMade)
      /\ Len(Append(old, task)) = Len(old) + 1
      /\ \A i \in 1 .. Len(old) : Append(old, task)[i] = old[i]
      /\ Append(old, task)[Len(old) + 1] = task
      /\ Len(old) \in Nat
  OBVIOUS
<1>8. z \in Sessions BY <1>2, <1>4
<1> HIDE DEF new, s
<1>9. ChatTyped'
  BY <1>1, <1>3, <1>5, <1>6, <1>7, <1>8 DEF ChatInv, ChatTyped
<1>10. Earned'
  <2>1. \A q \in Requests : request'[q].pc = "creating" => Excused(request'[q].task)
    BY <1>1, <1>3 DEF ChatInv, ChatTyped, Earned
  <2>2. ASSUME NEW t \in Sessions, NEW i \in 1 .. Len(made'[t])
        PROVE  Excused(made'[t][i])
    <3>1. CASE t = z
      <4>1. made'[t] = Append(old, task) BY <1>5, <1>6, <1>8, <3>1 DEF ChatInv, ChatTyped
      <4>2. i \in 1 .. Len(old) \/ i = Len(old) + 1 BY <4>1, <1>7
      <4>3. \A j \in 1 .. Len(old) : Excused(old[j]) BY <1>6, <1>8 DEF ChatInv, Earned
      <4> QED BY <4>1, <4>2, <4>3, <1>0, <1>7
    <3>2. CASE t # z
      <4>1. made'[t] = made[t] BY <1>5, <3>2 DEF ChatInv, ChatTyped
      <4> QED BY <4>1 DEF ChatInv, Earned
    <3> QED BY <3>1, <3>2
  <2> QED BY <2>1, <2>2 DEF Earned
<1>11. ASSUME NEW t \in Sessions PROVE t \in overlapped' \/ Single(t)'
  <2>1. t \in overlapped \/ Single(t) BY DEF ChatInv
  <2>2. Making(t)' = Making(t)
    BY <1>1, <1>3, <1>5 DEF Making, ChatInv, ChatTyped
  <2>3. CASE t = z /\ Single(t)
    <3>1. r \in Making(t) BY <1>1, <1>5, <2>3 DEF Making
    <3>2. Len(old) = 0 BY <1>1, <1>6, <2>3, <3>1 DEF Single
    <3>3. made'[t] = Append(old, task) BY <1>5, <1>6, <1>8, <2>3 DEF ChatInv, ChatTyped
    <3>4. Len(made'[t]) = 1 BY <1>7, <3>2, <3>3
    <3>5. \A q \in Making(t) : q = r BY <2>3, <3>1 DEF Single
    <3>6. request'[r].pc = "made" BY <1>1, <1>3 DEF ChatInv, ChatTyped
    <3> QED BY <2>2, <3>1, <3>4, <3>5, <3>6 DEF Single
  <2>4. CASE t # z /\ Single(t)
    <3>1. made'[t] = made[t] BY <1>5, <2>4 DEF ChatInv, ChatTyped
    <3>2. r \notin Making(t) BY <1>5, <2>4 DEF Making
    <3>3. \A q \in Making(t) : request'[q] = request[q]
      BY <1>1, <3>2 DEF ChatInv, ChatTyped, Making
    <3> QED BY <1>1, <2>2, <2>4, <3>1, <3>3 DEF Single
  <2> QED BY <1>1, <2>1, <2>3, <2>4
<1> QED BY <1>9, <1>10, <1>11 DEF ChatInv

\* A creation that fails or has cleaned up leaves no more than it found.
LEMMA CreationEnds ==
    ASSUME ChatInv, NEW r \in Requests, CreateFails(r) \/ CleanUp(r) PROVE ChatInv'
<1>1. /\ request[r].pc \in {"creating", "made"}
      /\ request' = [request EXCEPT ![r] = NoRequest]
      /\ UNCHANGED <<requirements, broken, made, overlapped>>
      /\ sessions' \subseteq sessions
      /\ request[r].pc = "made" => sessions' = sessions \ {request[r].session}
  BY DEF CreateFails, CleanUp
<1>2. ChatTyped' BY <1>1, NoRequestTyped, RequestChanges DEF ChatInv
<1>3. Earned' BY <1>1, NoRequestTyped DEF ChatInv, ChatTyped, Earned
<1>4. ASSUME NEW t \in Sessions PROVE t \in overlapped' \/ Single(t)'
  <2>1. t \in overlapped \/ Single(t) BY DEF ChatInv
  <2>2. Making(t)' = Making(t) \ {r}
    BY <1>1, NoRequestTyped DEF Making, ChatInv, ChatTyped
  <2>3. \A q \in Making(t)' : request'[q] = request[q]
    BY <1>1, <2>2 DEF Making, ChatInv, ChatTyped
  <2>4. ASSUME Single(t), t \in sessions', Making(t)' = {} PROVE Len(made[t]) = 0
    <3>1. CASE r \in Making(t)
      <4>1. request[r].pc = "creating" BY <1>1, <2>4, <3>1 DEF Making
      <4> QED BY <2>4, <3>1, <4>1 DEF Single
    <3>2. CASE r \notin Making(t)
      BY <1>1, <2>2, <2>4, <3>2 DEF Single
    <3> QED BY <3>1, <3>2
  <2> QED BY <1>1, <2>1, <2>2, <2>3, <2>4 DEF Single
<1> QED BY <1>2, <1>3, <1>4 DEF ChatInv

\* Every step of a conversation keeps the invariant.
LEMMA ChatStep ==
    ASSUME ChatInv, [ChatNext]_chatVars PROVE ChatInv'
<1>1. CASE Close
  <2>1. /\ sessions' = {} /\ request' = [r \in Requests |-> NoRequest]
        /\ UNCHANGED <<requirements, broken, made, overlapped>>
    BY <1>1 DEF Close
  <2>2. ChatTyped' BY <2>1, NoRequestTyped DEF ChatInv, ChatTyped
  <2>3. Earned' BY <2>1, NoRequestTyped DEF ChatInv, Earned
  <2>4. \A s : Making(s)' = {} BY <2>1, NoRequestTyped DEF Making
  <2>5. \A s \in Sessions : s \in overlapped' \/ Single(s)'
    BY <2>1, <2>4 DEF ChatInv, Single
  <2> QED BY <2>2, <2>3, <2>5 DEF ChatInv
<1>2. ASSUME NEW s \in Sessions, CreateSession(s) PROVE ChatInv'
  BY <1>2, SessionsChange DEF CreateSession, Given, ChatInv, ChatTyped
<1>3. ASSUME NEW s \in Sessions, DeleteSession(s) PROVE ChatInv'
  BY <1>3, SessionsChange DEF DeleteSession, ChatInv, ChatTyped
<1>4. ASSUME NEW s \in Sessions, NEW fields \in Fields, UpdateRequirements(s, fields)
      PROVE  ChatInv'
  <2> DEFINE new == IF Incomparable(fields)
                    THEN [requirements[s] EXCEPT !.fields = fields]
                    ELSE WithCompleteness(fields)
  <2>1. /\ UNCHANGED <<sessions, request, made, overlapped>>
        /\ requirements' = [requirements EXCEPT ![s] = new]
        /\ broken' = IF Incomparable(fields) THEN broken \cup {s} ELSE broken \ {s}
    BY <1>4 DEF UpdateRequirements
  <2>2. requirements[s] \in Requirements BY DEF ChatInv, ChatTyped
  <2>3. /\ new \in Requirements
        /\ ~ Incomparable(fields) => (new.complete => Filled(new.fields) = RequiredFields)
    <3>1. CASE Incomparable(fields) BY <2>2, <3>1 DEF Requirements
    <3>2. CASE ~ Incomparable(fields) BY <3>2, CompletenessIsComputed
    <3> QED BY <3>1, <3>2
  <2> HIDE DEF new
  <2>4. /\ request' \in [Requests -> RequestType]
        /\ \A r \in Requests : request'[r].pc # "idle" => request'[r].session \in Sessions
    BY <2>1 DEF ChatInv, ChatTyped
  <2>6. ChatTyped' BY <2>1, <2>3, <2>4, RequirementsChange
  <2>7. Earned' BY <2>1 DEF ChatInv, Earned
  <2>8. \A t \in Sessions : t \in overlapped' \/ Single(t)'
    BY <2>1, SingleFrom DEF ChatInv
  <2> QED BY <2>6, <2>7, <2>8 DEF ChatInv
<1>5. ASSUME NEW r \in Requests, NEW s \in Sessions, StreamResponse(r, s) PROVE ChatInv'
  <2> DEFINE new == [NoRequest EXCEPT !.pc = "streaming", !.session = s]
  <2>1. new \in RequestType /\ new.pc = "streaming" /\ new.session = s
    BY DEF NoRequest, RequestType, Nothing, TaskMade
  <2>2. /\ request[r].pc = "idle" /\ request' = [request EXCEPT ![r] = new]
        /\ UNCHANGED <<sessions, requirements, broken, made, overlapped>>
    BY <1>5 DEF StreamResponse
  <2> HIDE DEF new
  <2>3. ChatTyped' BY <2>1, <2>2, RequestChanges DEF ChatInv
  <2>4. Earned' BY <2>1, <2>2 DEF ChatInv, ChatTyped, Earned
  <2>5. \A t \in Sessions : t \in overlapped' \/ Single(t)'
    BY <2>1, <2>2, BystanderStays DEF ChatInv
  <2> QED BY <2>3, <2>4, <2>5 DEF ChatInv
<1>6. ASSUME NEW r \in Requests,
             ExtractNothing(r) \/ \E fields \in ParsedFields : Extract(r, fields)
      PROVE  ChatInv'
  <2>1. /\ request[r].pc = "streaming" /\ request' = [request EXCEPT ![r] = NoRequest]
        /\ UNCHANGED <<sessions, made, overlapped>>
        /\ \/ UNCHANGED <<requirements, broken>>
           \/ /\ \E fields \in Fields : requirements' =
                    [requirements EXCEPT ![request[r].session] = WithCompleteness(fields)]
              /\ broken' = broken \ {request[r].session}
    BY <1>6 DEF ExtractNothing, Extract, ParsedFields
  <2>2. request[r].session \in Sessions BY <2>1 DEF ChatInv, ChatTyped
  <2>3. /\ request' \in [Requests -> RequestType]
        /\ \A q \in Requests : request'[q].pc # "idle" => request'[q].session \in Sessions
    BY <2>1, NoRequestTyped DEF ChatInv, ChatTyped
  <2>4. ChatTyped'
    <3>1. CASE UNCHANGED <<requirements, broken>>
      BY <2>1, <2>3, <3>1 DEF ChatInv, ChatTyped
    <3>2. ASSUME NEW fields \in Fields,
                 requirements' =
                     [requirements EXCEPT ![request[r].session] = WithCompleteness(fields)],
                 broken' = broken \ {request[r].session}
          PROVE  ChatTyped'
      <4> DEFINE s == request[r].session
                 new == WithCompleteness(fields)
      <4>1. new \in Requirements /\ (new.complete => Filled(new.fields) = RequiredFields)
        BY CompletenessIsComputed
      <4>2. s \in Sessions /\ requirements' = [requirements EXCEPT ![s] = new]
        BY <2>2, <3>2
      <4>3. broken' = broken \ {s} BY <3>2
      <4> HIDE DEF new, s
      <4> QED BY <2>1, <2>3, <4>1, <4>2, <4>3, RequirementsChange
    <3> QED BY <2>1, <3>1, <3>2
  <2>5. Earned' BY <2>1, NoRequestTyped DEF ChatInv, ChatTyped, Earned
  <2>6. \A t \in Sessions : t \in overlapped' \/ Single(t)'
    BY <2>1, NoRequestTyped, BystanderStays DEF ChatInv
  <2> QED BY <2>4, <2>5, <2>6 DEF ChatInv
<1>7. CASE UNCHANGED chatVars
  <2>1. UNCHANGED <<sessions, requirements, request, broken, made, overlapped>>
    BY <1>7 DEF chatVars
  <2> QED BY <2>1, SessionsChange DEF ChatInv, ChatTyped
<1> QED
  BY <1>1, <1>2, <1>3, <1>4, <1>5, <1>6, <1>7, BeginCreateKeeps, TaskCommittedKeeps,
     CreationEnds
     DEF ChatNext

\* A conversation becomes one task, or several whose creations overlapped; and
\* a task lacks a requirement only when a broken update hid that it was missing.
THEOREM ConversationsEarnTheirTasks == ChatSpec => []TasksAreEarned
<1>1. ChatInit => ChatInv
  <2> SUFFICES ASSUME ChatInit PROVE ChatInv OBVIOUS
  <2>1. NoRequirements \in Requirements /\ ~ NoRequirements.complete
    BY DEF NoRequirements, Requirements, Fields, Field
  <2>2. ChatTyped BY <2>1, NoRequestTyped DEF ChatInit, ChatTyped
  <2>3. Earned BY NoRequestTyped DEF ChatInit, Earned
  <2>4. \A s : Making(s) = {} BY NoRequestTyped DEF ChatInit, Making
  <2>5. \A s \in Sessions : Len(made[s]) = 0 BY DEF ChatInit
  <2>6. ASSUME NEW s \in Sessions PROVE Single(s)
    <3>1. Making(s) = {} /\ Len(made[s]) = 0 BY <2>4, <2>5
    <3> QED BY <3>1 DEF Single
  <2> QED BY <2>2, <2>3, <2>6 DEF ChatInv
<1>2. ChatInv => TasksAreEarned
  <2> SUFFICES ASSUME ChatInv, NEW s \in Sessions
               PROVE  /\ \A i \in DOMAIN made[s] :
                             made[s][i].lacks # {} => made[s][i].stale
                      /\ Len(made[s]) > 1 => s \in overlapped
    BY DEF TasksAreEarned
  <2>1. made[s] \in Seq(TaskMade) BY DEF ChatInv, ChatTyped
  <2>2. DOMAIN made[s] = 1 .. Len(made[s]) /\ Len(made[s]) \in Nat BY <2>1
  <2> QED BY <2>2 DEF ChatInv, Earned, Excused, Single
<1> QED BY <1>1, <1>2, ChatStep, PTL DEF ChatSpec

-----------------------------------------------------------------------------
(***************************************************************************)
(* The key-value store.                                                    *)
(***************************************************************************)

Segment == STRING \cup {"wm"}

\* Names of agents and keys of memories are sequences of segments.
LEMMA NamesAreSegments ==
    /\ \A a \in AgentIds : a \in Seq(Segment) /\ Len(a) = 1
    /\ \A k \in MemoryKeys : k \in Seq(Segment)
<1>1. \A s \in Seq(STRING) : s \in Seq(Segment) BY SeqMonotonic DEF Segment
<1> QED BY <1>1, MemoryAssumption DEF MemoryAssumption

\* An agent's prefix, and an agent's key, spelled out.
LEMMA PrefixShape ==
    ASSUME NEW a \in AgentIds
    PROVE  /\ a \in Seq(Segment) /\ Len(a) = 1
           /\ <<"wm">> \o a \in Seq(Segment) /\ Len(<<"wm">> \o a) = 2
           /\ (<<"wm">> \o a)[1] = "wm" /\ (<<"wm">> \o a)[2] = a[1]
<1>1. a \in Seq(Segment) /\ Len(a) = 1 BY NamesAreSegments
<1>2. <<"wm">> \in Seq(Segment) /\ Len(<<"wm">>) = 1 BY DEF Segment
<1>3. /\ <<"wm">> \o a \in Seq(Segment) /\ Len(<<"wm">> \o a) = 1 + 1
      /\ \A i \in 1 .. 1 + 1 : (<<"wm">> \o a)[i] = IF i <= 1 THEN <<"wm">>[i] ELSE a[i - 1]
  BY <1>1, <1>2, ConcatProperties, SMTT(30)
<1> QED BY <1>1, <1>3

\* What a key of working memory is made of.
LEMMA MemoryKeyShape ==
    ASSUME NEW a \in AgentIds, NEW k \in MemoryKeys
    PROVE  /\ a \in Seq(Segment) /\ k \in Seq(Segment) /\ Len(a) = 1 /\ Len(k) \in Nat
           /\ MemoryKey(a, k) \in Seq(Segment)
           /\ Len(MemoryKey(a, k)) = Len(k) + 2
           /\ MemoryKey(a, k)[1] = "wm" /\ MemoryKey(a, k)[2] = a[1]
           /\ \A i \in 1 .. Len(k) : MemoryKey(a, k)[i + 2] = k[i]
<1>1. a \in Seq(Segment) /\ k \in Seq(Segment) /\ Len(a) = 1
  BY NamesAreSegments
<1> DEFINE p == <<"wm">> \o a
<1>2. p \in Seq(Segment) /\ Len(p) = 2 /\ p[1] = "wm" /\ p[2] = a[1]
  BY PrefixShape
<1> HIDE DEF p
<1>3. /\ p \o k \in Seq(Segment) /\ Len(p \o k) = Len(p) + Len(k)
      /\ \A i \in 1 .. Len(p) + Len(k) :
            (p \o k)[i] = IF i <= Len(p) THEN p[i] ELSE k[i - Len(p)]
  BY <1>1, <1>2, ConcatProperties
<1>4. /\ Len(p \o k) = Len(k) + 2 /\ (p \o k)[1] = "wm" /\ (p \o k)[2] = a[1]
      /\ Len(k) \in Nat /\ \A i \in 1 .. Len(k) : (p \o k)[i + 2] = k[i]
  BY <1>1, <1>2, <1>3
<1> QED BY <1>1, <1>3, <1>4 DEF MemoryKey, p

LEMMA SameSequence ==
    ASSUME NEW s \in Seq(Segment), NEW t \in Seq(Segment), Len(s) = Len(t),
           \A i \in 1 .. Len(s) : s[i] = t[i]
    PROVE  s = t
  OBVIOUS

\* No two keys of agents, and no key of an agent and of a checkpoint, are one.
LEMMA KeysAreTold ==
    ASSUME NEW a \in AgentIds, NEW k \in MemoryKeys
    PROVE  /\ MemoryKey(a, k) \in AllKeys
           /\ \A t : MemoryKey(a, k) # CheckpointKey(t)
           /\ \A b \in AgentIds, m \in MemoryKeys :
                 MemoryKey(a, k) = MemoryKey(b, m) => a = b /\ k = m
<1>1. MemoryKey(a, k) \in AllKeys BY DEF AllKeys
<1>2. \A t : CheckpointKey(t)[1] = "cp" BY DEF CheckpointKey
<1>3. ASSUME NEW b \in AgentIds, NEW m \in MemoryKeys, MemoryKey(a, k) = MemoryKey(b, m)
      PROVE  a = b /\ k = m
  <2>1. Len(k) = Len(m) /\ a[1] = b[1] BY <1>3, MemoryKeyShape
  <2>2. \A i \in 1 .. Len(k) : k[i] = m[i] BY <1>3, <2>1, MemoryKeyShape
  <2>3. a = b BY <2>1, MemoryKeyShape, SameSequence
  <2>4. k = m BY <2>1, <2>2, MemoryKeyShape, SameSequence
  <2> QED BY <2>3, <2>4
<1> QED BY <1>1, <1>2, <1>3, MemoryKeyShape

LEMMA CheckpointKeysAreTold ==
    ASSUME NEW s, NEW t, CheckpointKey(s) = CheckpointKey(t) PROVE s = t
<1>1. CheckpointKey(s)[3] = s /\ CheckpointKey(t)[3] = t BY DEF CheckpointKey
<1> QED BY <1>1

\* The scan for an agent's prefix finds the agent's keys, whatever they begin
\* with, and leaves of each what the agent calls it.
LEMMA PrefixFindsOwn ==
    ASSUME NEW a \in AgentIds, NEW b \in AgentIds, NEW k \in MemoryKeys
    PROVE  /\ SubSeq(MemoryKey(b, k), 1, Len(a) + 1) = <<"wm">> \o a <=> a = b
           /\ SubSeq(MemoryKey(a, k), Len(a) + 2, Len(MemoryKey(a, k))) = k
<1>1. /\ a \in Seq(Segment) /\ b \in Seq(Segment) /\ Len(a) = 1 /\ Len(b) = 1
      /\ k \in Seq(Segment) /\ Len(k) \in Nat
  BY MemoryKeyShape
<1>2. PICK s \in Seq(Segment) : s = MemoryKey(b, k) BY MemoryKeyShape
<1>3. PICK t \in Seq(Segment) : t = MemoryKey(a, k) BY MemoryKeyShape
<1>4. /\ Len(s) = Len(k) + 2 /\ s[1] = "wm" /\ s[2] = b[1]
      /\ Len(t) = Len(k) + 2 /\ \A i \in 1 .. Len(k) : t[i + 2] = k[i]
  BY <1>2, <1>3, MemoryKeyShape
<1>5. PICK p \in Seq(Segment) : p = <<"wm">> \o a /\ Len(p) = 2 /\ p[1] = "wm" /\ p[2] = a[1]
  BY PrefixShape
<1>6. /\ SubSeq(s, 1, 2) \in Seq(Segment) /\ Len(SubSeq(s, 1, 2)) = 2
      /\ SubSeq(s, 1, 2)[1] = "wm" /\ SubSeq(s, 1, 2)[2] = b[1]
  BY <1>1, <1>4
<1>7. SubSeq(s, 1, 2) = p <=> a = b
  <2>1. ASSUME SubSeq(s, 1, 2) = p PROVE a = b
    <3>1. a[1] = b[1] BY <2>1, <1>5, <1>6
    <3> QED BY <3>1, <1>1, SameSequence
  <2>2. ASSUME a = b PROVE SubSeq(s, 1, 2) = p
    <3> DEFINE u == SubSeq(s, 1, 2)
    <3>1. u \in Seq(Segment) /\ Len(u) = 2 /\ u[1] = "wm" /\ u[2] = a[1] BY <1>6, <2>2
    <3> HIDE DEF u
    <3>2. \A i \in 1 .. Len(u) : u[i] = p[i] BY <3>1, <1>5
    <3> QED BY <3>1, <3>2, <1>5, SameSequence DEF u
  <2> QED BY <2>1, <2>2
<1>8. SubSeq(t, 3, Len(t)) = k
  <2> DEFINE u == SubSeq(t, 3, Len(t))
  <2>1. u \in Seq(Segment) /\ Len(u) = Len(k) /\ \A i \in 1 .. Len(k) : u[i] = t[i + 2]
    BY <1>1, <1>4
  <2> HIDE DEF u
  <2>2. \A i \in 1 .. Len(u) : u[i] = k[i] BY <2>1, <1>4
  <2> QED BY <2>1, <2>2, <1>1, SameSequence DEF u
<1> QED BY <1>1, <1>2, <1>3, <1>5, <1>7, <1>8

LEMMA PrefixFindsNoCheckpoint ==
    ASSUME NEW a \in AgentIds, NEW t
    PROVE  SubSeq(CheckpointKey(t), 1, Len(a) + 1) # <<"wm">> \o a
<1>1. a \in Seq(Segment) /\ Len(a) = 1 BY PrefixShape
<1>2. (<<"wm">> \o a)[1] = "wm" BY PrefixShape
<1>3. <<"cp", "task", t>> \in Seq({"cp", "task", t}) OBVIOUS
<1>4. SubSeq(CheckpointKey(t), 1, 2)[1] = "cp" BY <1>3 DEF CheckpointKey
<1> QED BY <1>1, <1>2, <1>4

Entry == [value : Nat, expiry : Int]

LoadType ==
    [pc : {"idle", "missed", "replayed"}, task : Checkpointed \cup {"none"},
     read : Nat, base : Nat, overlapped : BOOLEAN]

StoreTyped ==
    /\ clock \in Nat
    /\ data \in [AllKeys -> Entry]
    /\ history \in [Checkpointed -> Nat]
    /\ saver \in [Checkpointed -> {"idle", "recorded"}]
    /\ loader \in [Loaders -> LoadType]
    /\ \A l \in Loaders : loader[l].pc # "idle" => loader[l].task \in Checkpointed
    /\ saved \in [Checkpointed -> Nat]
    /\ overtaken \in [Checkpointed -> BOOLEAN]
    /\ own \in [AgentIds -> [MemoryKeys -> Entry]]

\* A cached checkpoint is one the task has made, and none older than the last
\* save unless a load has written over that.  A load under way has read one no
\* older than what was saved when it began, and, as long as nobody saves, none
\* older than what is saved now.
Cached(t) ==
    Lives(data[CheckpointKey(t)]) =>
        /\ data[CheckpointKey(t)].value <= history[t]
        /\ data[CheckpointKey(t)].value < saved[t] => overtaken[t]

UnderWay(l) ==
    /\ loader[l].pc # "idle" => loader[l].base <= history[loader[l].task]
    /\ loader[l].pc = "replayed" =>
          /\ loader[l].base <= loader[l].read
          /\ loader[l].read <= history[loader[l].task]
          /\ ~ loader[l].overlapped => saved[loader[l].task] <= loader[l].read

Loaded ==
    loaded.value > 0 =>
        /\ loaded.task \in Checkpointed
        /\ {loaded.value, loaded.base} \subseteq Nat
        /\ loaded.value <= history[loaded.task]
        /\ loaded.value < loaded.base => loaded.late

Current ==
    /\ \A t \in Checkpointed : saved[t] <= history[t] /\ Cached(t)
    /\ \A l \in Loaders : UnderWay(l)
    /\ Loaded

\* Every agent's entry is in the store under the agent's key as long as it lives.
OwnEntries ==
    \A a \in AgentIds, k \in MemoryKeys :
        own[a][k] = IF Lives(data[MemoryKey(a, k)]) THEN data[MemoryKey(a, k)] ELSE Absent

StoreInv == StoreTyped /\ Current /\ OwnEntries

LEMMA ConstantsOfStore ==
    /\ Absent \in Entry /\ (clock \in Nat => ~ Lives(Absent))
    /\ NoLoad \in LoadType /\ NoLoad.pc = "idle"
    /\ \A value \in Nat, ttl \in Nat : clock \in Nat => Fresh(value, ttl) \in Entry
    /\ \A value, ttl : Fresh(value, ttl).value = value
    /\ \A t \in Checkpointed : CheckpointKey(t) \in AllKeys
  BY DEF Absent, Entry, Lives, NoLoad, LoadType, Fresh, AllKeys

\* A step that only drops entries, expired ones of agents and any of tasks.
LEMMA DroppingKeeps ==
    ASSUME StoreInv, data' \in [AllKeys -> Entry],
           \A key \in AllKeys : data'[key] \in {data[key], Absent},
           \A a \in AgentIds, k \in MemoryKeys :
              Lives(data[MemoryKey(a, k)]) => data'[MemoryKey(a, k)] = data[MemoryKey(a, k)],
           UNCHANGED clock
    PROVE  /\ UNCHANGED own => OwnEntries'
           /\ UNCHANGED <<history, saved, overtaken>> =>
                 \A t \in Checkpointed : Cached(t)'
<1>1. ~ Lives(Absent) BY ConstantsOfStore DEF StoreInv, StoreTyped
<1>2. ASSUME UNCHANGED own PROVE OwnEntries'
  <2> SUFFICES ASSUME NEW a \in AgentIds, NEW k \in MemoryKeys
               PROVE own[a][k] = IF Lives(data[MemoryKey(a, k)])' THEN data'[MemoryKey(a, k)]
                                 ELSE Absent
    BY <1>2 DEF OwnEntries, Lives
  <2>1. MemoryKey(a, k) \in AllKeys BY KeysAreTold
  <2>2. own[a][k] = IF Lives(data[MemoryKey(a, k)]) THEN data[MemoryKey(a, k)] ELSE Absent
    BY DEF StoreInv, OwnEntries
  <2> QED BY <1>1, <2>1, <2>2 DEF Lives
<1>3. ASSUME UNCHANGED <<history, saved, overtaken>>, NEW t \in Checkpointed
      PROVE  Cached(t)'
  <2>1. CheckpointKey(t) \in AllKeys BY DEF AllKeys
  <2>2. Cached(t) BY DEF StoreInv, Current
  <2> QED BY <1>1, <1>3, <2>1, <2>2 DEF Cached, Lives
<1> QED BY <1>2, <1>3

\* A step that writes the entry of one task concerns no agent, and the others'
\* entries stay.
LEMMA WritingKeeps ==
    ASSUME StoreInv, NEW t \in Checkpointed, NEW entry \in Entry,
           data' = [data EXCEPT ![CheckpointKey(t)] = entry], UNCHANGED <<clock, own>>
    PROVE  /\ data' \in [AllKeys -> Entry] /\ OwnEntries'
           /\ data'[CheckpointKey(t)] = entry
           /\ \A s \in Checkpointed : s # t => data'[CheckpointKey(s)] = data[CheckpointKey(s)]
<1>1. data \in [AllKeys -> Entry] /\ CheckpointKey(t) \in AllKeys
  BY DEF StoreInv, StoreTyped, AllKeys
<1>2. \A a \in AgentIds, k \in MemoryKeys : data'[MemoryKey(a, k)] = data[MemoryKey(a, k)]
  BY <1>1, KeysAreTold
<1>3. OwnEntries' BY <1>2 DEF StoreInv, OwnEntries, Lives
<1>4. \A s \in Checkpointed : s # t => CheckpointKey(s) # CheckpointKey(t)
                                       /\ CheckpointKey(s) \in AllKeys
  BY CheckpointKeysAreTold DEF AllKeys
<1> QED BY <1>1, <1>3, <1>4

LEMMA TickKeeps == ASSUME StoreInv, Tick PROVE StoreInv'
<1>1. /\ clock' = clock + 1 /\ clock \in Nat
      /\ own' = [a \in AgentIds |-> [k \in MemoryKeys |->
                    IF own[a][k].expiry < clock' THEN Absent ELSE own[a][k]]]
      /\ UNCHANGED <<data, history, saver, loader, loaded, saved, overtaken>>
  BY DEF Tick, StoreInv, StoreTyped
<1>2. StoreTyped'
  <2>1. \A a \in AgentIds, k \in MemoryKeys : own[a][k] \in Entry
    BY DEF StoreInv, StoreTyped
  <2>2. own' \in [AgentIds -> [MemoryKeys -> Entry]] BY <1>1, <2>1, ConstantsOfStore
  <2> QED BY <1>1, <2>2 DEF StoreInv, StoreTyped
<1>3. ASSUME NEW a \in AgentIds, NEW k \in MemoryKeys
      PROVE  own'[a][k] = IF Lives(data[MemoryKey(a, k)])' THEN data[MemoryKey(a, k)]
                          ELSE Absent
  <2> DEFINE old == data[MemoryKey(a, k)]
  <2>1. old \in Entry BY KeysAreTold DEF StoreInv, StoreTyped
  <2>2. own[a][k] = IF Lives(old) THEN old ELSE Absent BY DEF StoreInv, OwnEntries
  <2>3. own'[a][k] = IF own[a][k].expiry < clock' THEN Absent ELSE own[a][k] BY <1>1
  <2>4. old' = old BY <1>1
  <2>5. Lives(old)' <=> clock + 1 <= old.expiry BY <1>1 DEF Lives
  <2>6. Lives(old) <=> clock <= old.expiry BY DEF Lives
  <2>7. Absent.expiry < clock + 1 BY <1>1 DEF Absent
  <2>8. old.expiry \in Int BY <2>1 DEF Entry
  <2> HIDE DEF old
  <2>9. own'[a][k] = IF clock + 1 <= old.expiry THEN old ELSE Absent
    BY <1>1, <2>2, <2>3, <2>6, <2>7, <2>8
  <2> QED BY <2>5, <2>9 DEF old
<1>4. OwnEntries' BY <1>1, <1>3 DEF OwnEntries
<1>5. ASSUME NEW t \in Checkpointed PROVE saved'[t] <= history'[t] /\ Cached(t)'
  <2>1. data[CheckpointKey(t)] \in Entry BY ConstantsOfStore DEF StoreInv, StoreTyped
  <2>2. Lives(data[CheckpointKey(t)])' => Lives(data[CheckpointKey(t)])
    BY <1>1, <2>1 DEF Lives, Entry
  <2>3. saved[t] <= history[t] /\ Cached(t) BY DEF StoreInv, Current
  <2> QED BY <1>1, <2>2, <2>3 DEF Cached
<1>6. Current' BY <1>1, <1>5 DEF StoreInv, Current, UnderWay, Loaded
<1> QED BY <1>2, <1>4, <1>6 DEF StoreInv

LEMMA RestartKeeps == ASSUME StoreInv, Restart PROVE StoreInv'
<1>1. /\ data' = [k \in AllKeys |-> Absent]
      /\ saver' = [t \in Checkpointed |-> "idle"]
      /\ loader' = [l \in Loaders |-> NoLoad]
      /\ overtaken' = [t \in Checkpointed |-> FALSE]
      /\ own' = [a \in AgentIds |-> [k \in MemoryKeys |-> Absent]]
      /\ UNCHANGED <<clock, history, loaded, saved>>
  BY DEF Restart
<1>2. StoreTyped' BY <1>1, ConstantsOfStore DEF StoreInv, StoreTyped
<1>3. \A key \in AllKeys : ~ Lives(data[key])'
  BY <1>1, ConstantsOfStore DEF StoreInv, StoreTyped, Lives
<1>4. OwnEntries' BY <1>1, <1>3, KeysAreTold DEF OwnEntries
<1>5. \A t \in Checkpointed : saved'[t] <= history'[t] /\ Cached(t)'
  BY <1>1, <1>3, ConstantsOfStore DEF StoreInv, Current, Cached
<1>6. \A l \in Loaders : UnderWay(l)' BY <1>1, ConstantsOfStore DEF UnderWay
<1>7. Loaded' BY <1>1 DEF StoreInv, Current, Loaded
<1> QED BY <1>2, <1>4, <1>5, <1>6, <1>7 DEF StoreInv, Current

\* A recorded transition makes nothing that was read of the history false.
LEMMA RecordKeeps ==
    ASSUME StoreInv, NEW t \in Checkpointed, Record(t) PROVE StoreInv'
<1>1. /\ history' = [history EXCEPT ![t] = history[t] + 1]
      /\ saver' = [saver EXCEPT ![t] = "recorded"]
      /\ UNCHANGED <<clock, data, loader, loaded, saved, overtaken, own>>
  BY DEF Record
<1>2. StoreTyped' BY <1>1 DEF StoreInv, StoreTyped
<1>3. \A s \in Checkpointed : {history[s], history'[s], saved[s]} \subseteq Nat
                              /\ history[s] <= history'[s]
  BY <1>1 DEF StoreInv, StoreTyped
<1>4. ASSUME NEW s \in Checkpointed PROVE saved'[s] <= history'[s] /\ Cached(s)'
  <2>1. saved[s] <= history[s] /\ Cached(s) BY DEF StoreInv, Current
  <2>2. data[CheckpointKey(s)].value \in Nat
    BY ConstantsOfStore DEF StoreInv, StoreTyped, Entry
  <2>3. Lives(data[CheckpointKey(s)])' <=> Lives(data[CheckpointKey(s)])
    BY <1>1 DEF Lives
  <2> QED BY <1>1, <1>3, <2>1, <2>2, <2>3 DEF Cached
<1>5. ASSUME NEW l \in Loaders PROVE UnderWay(l)'
  <2>1. loader[l].base \in Nat /\ loader[l].read \in Nat
        /\ (loader[l].pc # "idle" => loader[l].task \in Checkpointed)
    BY DEF StoreInv, StoreTyped, LoadType
  <2>2. UnderWay(l) BY DEF StoreInv, Current
  <2>3. loader[l].pc = "replayed" => loader[l].pc # "idle" OBVIOUS
  <2> QED BY <1>1, <1>3, <2>1, <2>2, <2>3 DEF UnderWay
<1>6. Loaded' BY <1>1, <1>3 DEF StoreInv, Current, Loaded
<1>7. OwnEntries' BY <1>1 DEF StoreInv, OwnEntries, Lives
<1> QED BY <1>2, <1>4, <1>5, <1>6, <1>7 DEF StoreInv, Current

LEMMA SaveKeeps ==
    ASSUME StoreInv, NEW t \in Checkpointed, SaveCheckpoint(t) PROVE StoreInv'
<1> DEFINE entry == Fresh(history[t], CheckpointTtl)
<1>1. /\ data' = [data EXCEPT ![CheckpointKey(t)] = entry]
      /\ saver' = [saver EXCEPT ![t] = "idle"]
      /\ saved' = [saved EXCEPT ![t] = history[t]]
      /\ overtaken' = [overtaken EXCEPT ![t] = FALSE]
      /\ loader' = [l \in Loaders |->
            IF loader[l].task = t THEN [loader[l] EXCEPT !.overlapped = TRUE]
            ELSE loader[l]]
      /\ UNCHANGED <<clock, history, loaded, own>>
  BY DEF SaveCheckpoint
<1>2. entry \in Entry /\ entry.value = history[t]
  BY ConstantsOfStore, MemoryAssumption DEF StoreInv, StoreTyped, MemoryAssumption
<1> HIDE DEF entry
<1>3. /\ data' \in [AllKeys -> Entry] /\ OwnEntries'
      /\ data'[CheckpointKey(t)] = entry
      /\ \A s \in Checkpointed : s # t => data'[CheckpointKey(s)] = data[CheckpointKey(s)]
  BY <1>1, <1>2, WritingKeeps
<1>4. ASSUME NEW l \in Loaders
      PROVE  /\ loader'[l] \in LoadType
             /\ loader'[l].pc = loader[l].pc /\ loader'[l].task = loader[l].task
             /\ loader'[l].base = loader[l].base /\ loader'[l].read = loader[l].read
             /\ loader[l].task = t => loader'[l].overlapped
             /\ loader[l].task # t => loader'[l] = loader[l]
  <2>1. loader[l] \in LoadType BY DEF StoreInv, StoreTyped
  <2>2. CASE loader[l].task = t
    <3>1. loader'[l] = [loader[l] EXCEPT !.overlapped = TRUE] BY <1>1, <2>2
    <3>2. loader'[l] \in LoadType BY <2>1, <3>1 DEF LoadType
    <3>3. loader'[l].overlapped BY <2>1, <3>1 DEF LoadType
    <3> QED BY <2>1, <2>2, <3>1, <3>2, <3>3 DEF LoadType
  <2>3. CASE loader[l].task # t
    <3>1. loader'[l] = loader[l] BY <1>1, <2>3
    <3> QED BY <2>1, <2>3, <3>1
  <2> QED BY <2>2, <2>3
<1>5. StoreTyped'
  <2>1. loader' \in [Loaders -> LoadType] BY <1>1, <1>4
  <2>2. \A l \in Loaders : loader'[l].pc # "idle" => loader'[l].task \in Checkpointed
    BY <1>4 DEF StoreInv, StoreTyped
  <2> QED BY <1>1, <1>3, <2>1, <2>2 DEF StoreInv, StoreTyped
<1>6. ASSUME NEW s \in Checkpointed PROVE saved'[s] <= history'[s] /\ Cached(s)'
  <2>1. history[s] \in Nat BY DEF StoreInv, StoreTyped
  <2>2. CASE s = t
    <3>1. saved'[s] = history[s] /\ data'[CheckpointKey(s)].value = history[s]
      BY <1>1, <1>2, <1>3, <2>2 DEF StoreInv, StoreTyped
    <3> QED BY <1>1, <2>1, <3>1 DEF Cached
  <2>3. CASE s # t
    <3>1. saved'[s] = saved[s] /\ overtaken'[s] = overtaken[s]
          /\ data'[CheckpointKey(s)] = data[CheckpointKey(s)]
      BY <1>1, <1>3, <2>3 DEF StoreInv, StoreTyped
    <3>2. saved[s] <= history[s] /\ Cached(s) BY DEF StoreInv, Current
    <3> QED BY <1>1, <3>1, <3>2 DEF Cached, Lives
  <2> QED BY <2>2, <2>3
<1>7. ASSUME NEW l \in Loaders PROVE UnderWay(l)'
  <2>1. UnderWay(l) BY DEF StoreInv, Current
  <2>2. CASE loader[l].task = t BY <1>1, <1>4, <2>1, <2>2 DEF UnderWay
  <2>3. CASE loader[l].task # t
    <3>1. loader[l].pc = "replayed" => saved'[loader[l].task] = saved[loader[l].task]
      BY <1>1, <2>3 DEF StoreInv, StoreTyped
    <3>2. loader'[l] = loader[l] BY <1>4, <2>3
    <3> QED BY <1>1, <2>1, <3>1, <3>2 DEF UnderWay
  <2> QED BY <2>2, <2>3
<1>8. Loaded' BY <1>1 DEF StoreInv, Current, Loaded
<1> QED BY <1>3, <1>5, <1>6, <1>7, <1>8 DEF StoreInv, Current

\* Steps that leave the checkpoints' variables alone but for the entries.
LEMMA OnlyEntriesChange ==
    ASSUME StoreInv, data' \in [AllKeys -> Entry],
           UNCHANGED <<clock, history, saver, loader, loaded, saved, overtaken>>,
           own' \in [AgentIds -> [MemoryKeys -> Entry]], OwnEntries',
           \A t \in Checkpointed : Cached(t)'
    PROVE  StoreInv'
<1>1. StoreTyped' BY DEF StoreInv, StoreTyped
<1>2. Current' BY DEF StoreInv, Current, UnderWay, Loaded
<1> QED BY <1>1, <1>2 DEF StoreInv

LEMMA DeleteKeeps ==
    ASSUME StoreInv, NEW t \in Checkpointed, DeleteCheckpoint(t) PROVE StoreInv'
<1>1. /\ data' = [data EXCEPT ![CheckpointKey(t)] = Absent]
      /\ UNCHANGED <<clock, history, saver, loader, loaded, saved, overtaken, own>>
  BY DEF DeleteCheckpoint
<1>2. /\ data' \in [AllKeys -> Entry] /\ OwnEntries'
      /\ data'[CheckpointKey(t)] = Absent
      /\ \A s \in Checkpointed : s # t => data'[CheckpointKey(s)] = data[CheckpointKey(s)]
  BY <1>1, ConstantsOfStore, WritingKeeps
<1>3. ASSUME NEW s \in Checkpointed PROVE Cached(s)'
  <2>1. Cached(s) BY DEF StoreInv, Current
  <2>2. CASE s = t
    <3>1. ~ Lives(data[CheckpointKey(s)])'
      BY <1>1, <1>2, <2>2, ConstantsOfStore DEF StoreInv, StoreTyped, Lives
    <3> QED BY <3>1 DEF Cached
  <2>3. CASE s # t BY <1>1, <1>2, <2>1, <2>3 DEF Cached, Lives
  <2> QED BY <2>2, <2>3
<1> QED BY <1>1, <1>2, <1>3, OnlyEntriesChange DEF StoreInv, StoreTyped

\* What get drops has expired.
LEMMA TouchedDrops ==
    ASSUME StoreInv, NEW key \in AllKeys, data' = Touched(key), UNCHANGED clock
    PROVE  /\ data' \in [AllKeys -> Entry]
           /\ \A other \in AllKeys : data'[other] \in {data[other], Absent}
           /\ \A other \in AllKeys : Lives(data[other]) => data'[other] = data[other]
  BY ConstantsOfStore DEF StoreInv, StoreTyped, Touched

LEMMA LoadKeeps ==
    ASSUME StoreInv, NEW l \in Loaders, NEW t \in Checkpointed, LoadCheckpoint(l, t)
    PROVE  StoreInv'
<1> DEFINE key == CheckpointKey(t)
           new == [NoLoad EXCEPT !.pc = "missed", !.task = t, !.base = saved[t]]
<1>1. /\ loader[l].pc = "idle" /\ data' = Touched(key)
      /\ UNCHANGED <<clock, history, saver, saved, overtaken, own>>
      /\ \/ /\ Lives(data[key]) /\ UNCHANGED loader
            /\ loaded' = [task |-> t, value |-> data[key].value,
                          base |-> saved[t], late |-> overtaken[t]]
         \/ loader' = [loader EXCEPT ![l] = new] /\ UNCHANGED loaded
  BY DEF LoadCheckpoint
<1>2. key \in AllKeys /\ saved[t] \in Nat /\ saved[t] <= history[t] /\ history[t] \in Nat
  BY DEF StoreInv, StoreTyped, Current, AllKeys
<1>3. /\ data' \in [AllKeys -> Entry]
      /\ \A other \in AllKeys : data'[other] \in {data[other], Absent}
      /\ \A other \in AllKeys : Lives(data[other]) => data'[other] = data[other]
  BY <1>1, <1>2, TouchedDrops
<1>4. OwnEntries' /\ \A s \in Checkpointed : Cached(s)'
  BY <1>1, <1>3, KeysAreTold, DroppingKeeps
<1>5. new \in LoadType /\ new.pc = "missed" /\ new.task = t /\ new.base = saved[t]
  BY <1>2 DEF NoLoad, LoadType
<1> HIDE DEF new
<1>6. CASE Lives(data[key]) /\ UNCHANGED loader
           /\ loaded' = [task |-> t, value |-> data[key].value,
                         base |-> saved[t], late |-> overtaken[t]]
  <2>1. StoreTyped' BY <1>1, <1>3, <1>6 DEF StoreInv, StoreTyped
  <2>2. data[key].value \in Nat BY <1>2 DEF StoreInv, StoreTyped, Entry
  <2>3. data[key].value <= history[t] /\ (data[key].value < saved[t] => overtaken[t])
    BY <1>6 DEF StoreInv, Current, Cached
  <2>4. /\ loaded'.task = t /\ loaded'.value = data[key].value
        /\ loaded'.base = saved[t] /\ loaded'.late = overtaken[t]
    BY <1>6
  <2>5. Loaded' BY <1>1, <1>2, <2>2, <2>3, <2>4 DEF Loaded
  <2>6. Current' BY <1>1, <1>4, <1>6, <2>5 DEF StoreInv, Current, UnderWay
  <2> QED BY <1>4, <2>1, <2>6 DEF StoreInv
<1>7. CASE loader' = [loader EXCEPT ![l] = new] /\ UNCHANGED loaded
  <2>1. StoreTyped' BY <1>1, <1>3, <1>5, <1>7 DEF StoreInv, StoreTyped
  <2>2. ASSUME NEW m \in Loaders PROVE UnderWay(m)'
    <3>1. CASE m = l
      <4>1. loader'[m] = new BY <1>7, <3>1 DEF StoreInv, StoreTyped
      <4> QED BY <1>1, <1>2, <1>5, <4>1 DEF UnderWay
    <3>2. CASE m # l
      <4>1. loader'[m] = loader[m] BY <1>7, <3>2 DEF StoreInv, StoreTyped
      <4> QED BY <1>1, <4>1 DEF StoreInv, Current, UnderWay
    <3> QED BY <3>1, <3>2
  <2>3. Loaded' BY <1>1, <1>7 DEF StoreInv, Current, Loaded
  <2>4. Current' BY <1>1, <1>4, <2>2, <2>3 DEF StoreInv, Current
  <2> QED BY <1>4, <2>1, <2>4 DEF StoreInv
<1> QED BY <1>1, <1>6, <1>7

\* Any other change of one load.
LEMMA OneLoadChanges ==
    ASSUME StoreInv, NEW l \in Loaders, NEW new \in LoadType,
           loader' = [loader EXCEPT ![l] = new],
           new.pc # "idle" => new.task \in Checkpointed,
           UNCHANGED <<history, saved>>
    PROVE  /\ loader' \in [Loaders -> LoadType] /\ loader'[l] = new
           /\ \A m \in Loaders : loader'[m].pc # "idle" => loader'[m].task \in Checkpointed
           /\ \A m \in Loaders : m # l => UnderWay(m)'
<1>1. loader \in [Loaders -> LoadType] BY DEF StoreInv, StoreTyped
<1>2. \A m \in Loaders : m # l => loader'[m] = loader[m] BY <1>1
<1>3. loader'[l] = new BY <1>1
<1>4. \A m \in Loaders : m # l => UnderWay(m)'
  BY <1>2 DEF StoreInv, Current, UnderWay
<1>5. \A m \in Loaders : loader'[m].pc # "idle" => loader'[m].task \in Checkpointed
  BY <1>2, <1>3 DEF StoreInv, StoreTyped
<1> QED BY <1>1, <1>3, <1>4, <1>5

LEMMA ReadKeeps ==
    ASSUME StoreInv, NEW l \in Loaders, ReadHistory(l) PROVE StoreInv'
<1> DEFINE t == loader[l].task
           new == [loader[l] EXCEPT !.pc = "replayed", !.read = history[t],
                                    !.overlapped = FALSE]
<1>1. /\ loader[l].pc = "missed" /\ loader[l] \in LoadType
      /\ t \in Checkpointed /\ history[t] \in Nat
      /\ loader[l].base <= history[t] /\ saved[t] <= history[t]
  BY DEF ReadHistory, StoreInv, StoreTyped, Current, UnderWay
<1>2. /\ loader' = [loader EXCEPT ![l] = new]
      /\ UNCHANGED <<clock, data, history, saver, loaded, saved, overtaken, own>>
  BY DEF ReadHistory, LastEvent, StoreInv, StoreTyped
<1>3. /\ new \in LoadType /\ new.pc = "replayed" /\ new.task = t
      /\ new.read = history[t] /\ new.base = loader[l].base
  BY <1>1 DEF LoadType
<1> HIDE DEF new
<1>4. /\ loader' \in [Loaders -> LoadType] /\ loader'[l] = new
      /\ \A m \in Loaders : loader'[m].pc # "idle" => loader'[m].task \in Checkpointed
      /\ \A m \in Loaders : m # l => UnderWay(m)'
  BY <1>1, <1>2, <1>3, OneLoadChanges
<1>5. UnderWay(l)'
  <2>1. /\ loader'[l].pc = "replayed" /\ loader'[l].read = history[t]
        /\ loader'[l].base = loader[l].base /\ loader'[l].task = t
    BY <1>3, <1>4
  <2> QED BY <1>1, <1>2, <2>1 DEF UnderWay
<1>6. StoreTyped' BY <1>2, <1>4 DEF StoreInv, StoreTyped
<1>7. Current' BY <1>2, <1>4, <1>5 DEF StoreInv, Current, Cached, Lives, Loaded
<1>8. OwnEntries' BY <1>2 DEF StoreInv, OwnEntries, Lives
<1> QED BY <1>6, <1>7, <1>8 DEF StoreInv

LEMMA ReadFailsKeeps ==
    ASSUME StoreInv, NEW l \in Loaders, ReadFails(l) PROVE StoreInv'
<1>1. /\ loader' = [loader EXCEPT ![l] = NoLoad]
      /\ UNCHANGED <<clock, data, history, saver, loaded, saved, overtaken, own>>
  BY DEF ReadFails
<1>2. /\ loader' \in [Loaders -> LoadType] /\ loader'[l] = NoLoad
      /\ \A m \in Loaders : loader'[m].pc # "idle" => loader'[m].task \in Checkpointed
      /\ \A m \in Loaders : m # l => UnderWay(m)'
  BY <1>1, ConstantsOfStore, OneLoadChanges
<1>3. UnderWay(l)' BY <1>2, ConstantsOfStore DEF UnderWay
<1>4. StoreTyped' BY <1>1, <1>2 DEF StoreInv, StoreTyped
<1>5. Current' BY <1>1, <1>2, <1>3 DEF StoreInv, Current, Cached, Lives, Loaded
<1>6. OwnEntries' BY <1>1 DEF StoreInv, OwnEntries, Lives
<1> QED BY <1>4, <1>5, <1>6 DEF StoreInv

\* A load that comes back writes over whatever is cached: older than the last
\* save only if that came after its look at the history.
LEMMA RewarmKeeps ==
    ASSUME StoreInv, NEW l \in Loaders, Rewarm(l) PROVE StoreInv'
<1> DEFINE t == loader[l].task
           found == loader[l].read
           entry == Fresh(found, CheckpointTtl)
<1>1. /\ loader[l].pc = "replayed" /\ loader' = [loader EXCEPT ![l] = NoLoad]
      /\ UNCHANGED <<clock, history, saver, saved, own>>
      /\ \/ UNCHANGED <<data, loaded, overtaken>>
         \/ /\ data' = [data EXCEPT ![CheckpointKey(t)] = entry]
            /\ loaded' = [task |-> t, value |-> found, base |-> loader[l].base,
                          late |-> FALSE]
            /\ overtaken' = [overtaken EXCEPT ![t] = loader[l].overlapped]
  BY DEF Rewarm
<1>2. /\ loader' \in [Loaders -> LoadType] /\ loader'[l] = NoLoad
      /\ \A m \in Loaders : loader'[m].pc # "idle" => loader'[m].task \in Checkpointed
      /\ \A m \in Loaders : m # l => UnderWay(m)'
  BY <1>1, ConstantsOfStore, OneLoadChanges
<1>3. UnderWay(l)' BY <1>2, ConstantsOfStore DEF UnderWay
<1>4. CASE UNCHANGED <<data, loaded, overtaken>>
  <2>1. StoreTyped' BY <1>1, <1>2, <1>4 DEF StoreInv, StoreTyped
  <2>2. Current' BY <1>1, <1>2, <1>3, <1>4 DEF StoreInv, Current, Cached, Lives, Loaded
  <2>3. OwnEntries' BY <1>1, <1>4 DEF StoreInv, OwnEntries, Lives
  <2> QED BY <2>1, <2>2, <2>3 DEF StoreInv
<1>5. CASE /\ data' = [data EXCEPT ![CheckpointKey(t)] = entry]
           /\ loaded' = [task |-> t, value |-> found, base |-> loader[l].base,
                         late |-> FALSE]
           /\ overtaken' = [overtaken EXCEPT ![t] = loader[l].overlapped]
  <2>1. /\ t \in Checkpointed /\ {found, loader[l].base, history[t], saved[t]} \subseteq Nat
        /\ loader[l].base <= found /\ found <= history[t]
        /\ ~ loader[l].overlapped => saved[t] <= found
    BY <1>1 DEF StoreInv, StoreTyped, Current, UnderWay, LoadType
  <2>2. entry \in Entry /\ entry.value = found
    BY <2>1, ConstantsOfStore, MemoryAssumption DEF StoreInv, StoreTyped, MemoryAssumption
  <2> HIDE DEF entry
  <2>3. /\ data' \in [AllKeys -> Entry] /\ OwnEntries'
        /\ data'[CheckpointKey(t)] = entry
        /\ \A s \in Checkpointed : s # t => data'[CheckpointKey(s)] = data[CheckpointKey(s)]
    BY <1>1, <1>5, <2>1, <2>2, WritingKeeps
  <2>4. overtaken' \in [Checkpointed -> BOOLEAN]
    <3>1. loader[l].overlapped \in BOOLEAN BY DEF StoreInv, StoreTyped, LoadType
    <3> QED BY <1>5, <2>1, <3>1 DEF StoreInv, StoreTyped
  <2>5. StoreTyped' BY <1>1, <1>2, <2>3, <2>4 DEF StoreInv, StoreTyped
  <2>6. ASSUME NEW s \in Checkpointed PROVE Cached(s)'
    <3>1. CASE s = t
      <4>1. overtaken'[s] = loader[l].overlapped
        BY <1>5, <2>1, <3>1 DEF StoreInv, StoreTyped
      <4>2. data'[CheckpointKey(s)].value = found BY <2>2, <2>3, <3>1
      <4>3. found < saved[s] => overtaken'[s] BY <2>1, <3>1, <4>1
      <4> QED BY <1>1, <2>1, <3>1, <4>2, <4>3 DEF Cached
    <3>2. CASE s # t
      <4>1. overtaken'[s] = overtaken[s] BY <1>5, <3>2 DEF StoreInv, StoreTyped
      <4>2. Cached(s) BY DEF StoreInv, Current
      <4> QED BY <1>1, <2>3, <3>2, <4>1, <4>2 DEF Cached, Lives
    <3> QED BY <3>1, <3>2
  <2>7. Loaded'
    <3>1. loaded'.task = t /\ loaded'.value = found /\ loaded'.base = loader[l].base
      BY <1>5
    <3> QED BY <1>1, <2>1, <3>1 DEF Loaded
  <2>8. Current' BY <1>1, <1>2, <1>3, <2>6, <2>7 DEF StoreInv, Current
  <2> QED BY <2>3, <2>5, <2>8 DEF StoreInv
<1> QED BY <1>1, <1>4, <1>5

\* What an agent writes under its key concerns no other key.
LEMMA AgentWrites ==
    ASSUME StoreInv, NEW a \in AgentIds, NEW k \in MemoryKeys, NEW entry \in Entry,
           data' = [data EXCEPT ![MemoryKey(a, k)] = entry],
           own' = [own EXCEPT ![a][k] = entry],
           Lives(entry) \/ entry = Absent,
           UNCHANGED <<clock, history, saver, loader, loaded, saved, overtaken>>
    PROVE  StoreInv'
<1>1. /\ MemoryKey(a, k) \in AllKeys /\ data \in [AllKeys -> Entry]
      /\ own \in [AgentIds -> [MemoryKeys -> Entry]]
  BY KeysAreTold DEF StoreInv, StoreTyped
<1>2. data' \in [AllKeys -> Entry] BY <1>1
<1>3. own' \in [AgentIds -> [MemoryKeys -> Entry]] BY <1>1
<1>4. \A t \in Checkpointed : data'[CheckpointKey(t)] = data[CheckpointKey(t)]
  BY <1>1, KeysAreTold DEF AllKeys
<1>5. \A t \in Checkpointed : Cached(t)'
  BY <1>4 DEF StoreInv, Current, Cached, Lives
<1>6. ASSUME NEW b \in AgentIds, NEW m \in MemoryKeys
      PROVE  own'[b][m] = IF Lives(data[MemoryKey(b, m)])' THEN data'[MemoryKey(b, m)]
                          ELSE Absent
  <2>1. CASE b = a /\ m = k
    <3>1. own'[b][m] = entry BY <1>1, <2>1
    <3>2. data'[MemoryKey(b, m)] = entry BY <1>1, <2>1
    <3>3. Lives(entry)' <=> Lives(entry) BY DEF Lives
    <3>4. Lives(data[MemoryKey(b, m)])' <=> Lives(entry)
      BY <3>2 DEF Lives
    <3> QED BY <3>1, <3>2, <3>4
  <2>2. CASE ~ (b = a /\ m = k)
    <3>1. MemoryKey(b, m) # MemoryKey(a, k) /\ MemoryKey(b, m) \in AllKeys
      BY <2>2, KeysAreTold
    <3>2. data'[MemoryKey(b, m)] = data[MemoryKey(b, m)] BY <1>1, <3>1
    <3>3. own'[b][m] = own[b][m] BY <1>1, <2>2
    <3> QED BY <3>2, <3>3 DEF StoreInv, OwnEntries, Lives
  <2> QED BY <2>1, <2>2
<1>7. OwnEntries' BY <1>6 DEF OwnEntries
<1> QED BY <1>2, <1>3, <1>5, <1>7, OnlyEntriesChange

\* Every operation of the store keeps its invariant.
LEMMA StoreStep == ASSUME StoreInv, [MemoryNext]_memoryVars PROVE StoreInv'
<1>1. ASSUME NEW a \in AgentIds, NEW k \in MemoryKeys, Remember(a, k) PROVE StoreInv'
  <2>1. PICK value \in Values, ttl \in Ttls \cup {DefaultTtl} :
          /\ data' = [data EXCEPT ![MemoryKey(a, k)] = Fresh(value, ttl)]
          /\ own' = [own EXCEPT ![a][k] = Fresh(value, ttl)]
          /\ UNCHANGED <<clock, history, saver, loader, loaded, saved, overtaken>>
    BY <1>1 DEF Remember
  <2>2. value \in Nat /\ ttl \in Nat /\ clock \in Nat
    BY MemoryAssumption DEF MemoryAssumption, StoreInv, StoreTyped
  <2>3. Fresh(value, ttl) \in Entry /\ Lives(Fresh(value, ttl))
    BY <2>2 DEF Fresh, Entry, Lives
  <2> QED BY <2>1, <2>3, AgentWrites
<1>2. ASSUME NEW a \in AgentIds, NEW k \in MemoryKeys, Forget(a, k) PROVE StoreInv'
  BY <1>2, ConstantsOfStore, AgentWrites DEF Forget
<1>3. ASSUME NEW a \in AgentIds, NEW k \in MemoryKeys, Recall(a, k) PROVE StoreInv'
  <2>1. /\ data' = Touched(MemoryKey(a, k))
        /\ UNCHANGED <<clock, history, saver, loader, loaded, saved, overtaken, own>>
        /\ MemoryKey(a, k) \in AllKeys
    BY <1>3, KeysAreTold DEF Recall
  <2>2. /\ data' \in [AllKeys -> Entry]
        /\ \A other \in AllKeys : data'[other] \in {data[other], Absent}
        /\ \A other \in AllKeys : Lives(data[other]) => data'[other] = data[other]
    BY <2>1, TouchedDrops
  <2>3. OwnEntries' /\ \A t \in Checkpointed : Cached(t)'
    BY <2>1, <2>2, KeysAreTold, DroppingKeeps
  <2> QED BY <2>1, <2>2, <2>3, OnlyEntriesChange DEF StoreInv, StoreTyped
<1>4. CASE ScanKeys
  <2>1. /\ data' = [k \in AllKeys |-> IF Lives(data[k]) THEN data[k] ELSE Absent]
        /\ UNCHANGED <<clock, history, saver, loader, loaded, saved, overtaken, own>>
    BY <1>4 DEF ScanKeys, Evicted
  <2>2. /\ data' \in [AllKeys -> Entry]
        /\ \A other \in AllKeys : data'[other] \in {data[other], Absent}
        /\ \A other \in AllKeys : Lives(data[other]) => data'[other] = data[other]
    BY <2>1, ConstantsOfStore DEF StoreInv, StoreTyped
  <2>3. OwnEntries' /\ \A t \in Checkpointed : Cached(t)'
    BY <2>1, <2>2, KeysAreTold, DroppingKeeps
  <2> QED BY <2>1, <2>2, <2>3, OnlyEntriesChange DEF StoreInv, StoreTyped
<1>5. CASE UNCHANGED memoryVars
  BY <1>5 DEF memoryVars, StoreInv, StoreTyped, Current, Cached, UnderWay, Loaded,
     OwnEntries, Lives
<1> QED
  BY <1>1, <1>2, <1>3, <1>4, <1>5, TickKeeps, RestartKeeps, RecordKeeps, SaveKeeps,
     DeleteKeeps, LoadKeeps, ReadKeeps, ReadFailsKeeps, RewarmKeeps
     DEF MemoryNext

\* The store, the history and the loads under way agree: what is cached for a task,
\* or about to be, is a checkpoint of its past; and an agent's entries are its own.
THEOREM StoreIsKept == MemorySpec => []StoreInv
<1>1. MemoryInit => StoreInv
  <2> SUFFICES ASSUME MemoryInit PROVE StoreInv OBVIOUS
  <2>1. clock \in Nat BY DEF MemoryInit
  <2>2. StoreTyped BY <2>1, ConstantsOfStore DEF MemoryInit, StoreTyped
  <2>3. \A key \in AllKeys : ~ Lives(data[key])
    BY <2>1, ConstantsOfStore DEF MemoryInit
  <2>4. OwnEntries BY <2>3, KeysAreTold DEF MemoryInit, OwnEntries
  <2>5. \A t \in Checkpointed : saved[t] <= history[t] /\ Cached(t)
    BY <2>3, ConstantsOfStore DEF MemoryInit, Cached
  <2>6. \A l \in Loaders : UnderWay(l) BY ConstantsOfStore DEF MemoryInit, UnderWay
  <2>7. Loaded BY DEF MemoryInit, Loaded, NotLoaded
  <2> QED BY <2>2, <2>4, <2>5, <2>6, <2>7 DEF StoreInv, Current
<1> QED BY <1>1, StoreStep, PTL DEF MemorySpec

\* A loaded checkpoint is one the task has made, and none older than the last
\* one saved when the load began, unless another load wrote over that.
THEOREM CheckpointsStayCurrent == MemorySpec => []CheckpointsAreCurrent
<1>1. StoreInv => CheckpointsAreCurrent
  BY DEF StoreInv, Current, Loaded, CheckpointsAreCurrent
<1> QED BY <1>1, StoreIsKept, PTL

\* Each agent recalls and lists exactly what it has stored itself.
THEOREM WorkingMemoryStaysOwn == MemorySpec => []WorkingMemoryIsOwn
<1>1. ASSUME StoreInv, NEW a \in AgentIds, NEW k \in MemoryKeys
      PROVE  /\ Lives(data[MemoryKey(a, k)]) <=> own[a][k] # Absent
             /\ Recalled(a, k) = IF own[a][k] # Absent THEN {own[a][k].value} ELSE {}
  <2>1. own[a][k] = IF Lives(data[MemoryKey(a, k)]) THEN data[MemoryKey(a, k)] ELSE Absent
    BY <1>1 DEF StoreInv, OwnEntries
  <2>2. ~ Lives(Absent) BY <1>1, ConstantsOfStore DEF StoreInv, StoreTyped
  <2>3. Lives(data[MemoryKey(a, k)]) <=> own[a][k] # Absent BY <2>1, <2>2
  <2> QED BY <2>1, <2>3 DEF Recalled
<1>2. ASSUME StoreInv, NEW a \in AgentIds
      PROVE  Listed(a) = {k \in MemoryKeys : own[a][k] # Absent}
  <2> DEFINE found == {key \in AllKeys :
                 Lives(data[key]) /\ SubSeq(key, 1, Len(a) + 1) = <<"wm">> \o a}
  <2>1. ASSUME NEW key
        PROVE  key \in found <=>
                  \E k \in MemoryKeys : key = MemoryKey(a, k) /\ own[a][k] # Absent
    <3>1. ASSUME key \in found
          PROVE  \E k \in MemoryKeys : key = MemoryKey(a, k) /\ own[a][k] # Absent
      <4>1. \A t : key # CheckpointKey(t) BY <3>1, PrefixFindsNoCheckpoint
      <4>2. PICK b \in AgentIds, k \in MemoryKeys : key = MemoryKey(b, k)
        BY <3>1, <4>1 DEF AllKeys
      <4>3. a = b BY <3>1, <4>2, PrefixFindsOwn
      <4>4. own[a][k] # Absent BY <1>1, <1>2, <3>1, <4>2, <4>3
      <4> QED BY <4>2, <4>3, <4>4
    <3>2. ASSUME NEW k \in MemoryKeys, key = MemoryKey(a, k), own[a][k] # Absent
          PROVE  key \in found
      BY <1>1, <1>2, <3>2, KeysAreTold, PrefixFindsOwn
    <3> QED BY <3>1, <3>2
  <2>2. Listed(a) = {SubSeq(key, Len(a) + 2, Len(key)) : key \in found} BY DEF Listed
  <2> HIDE DEF found
  <2>3. ASSUME NEW k \in Listed(a) PROVE k \in MemoryKeys /\ own[a][k] # Absent
    <3>1. PICK key \in found : k = SubSeq(key, Len(a) + 2, Len(key)) BY <2>2, <2>3
    <3>2. PICK m \in MemoryKeys : key = MemoryKey(a, m) /\ own[a][m] # Absent
      BY <2>1, <3>1
    <3>3. k = m BY <3>1, <3>2, PrefixFindsOwn
    <3> QED BY <3>2, <3>3
  <2>4. ASSUME NEW k \in MemoryKeys, own[a][k] # Absent PROVE k \in Listed(a)
    <3>1. MemoryKey(a, k) \in found BY <2>1, <2>4
    <3>2. k = SubSeq(MemoryKey(a, k), Len(a) + 2, Len(MemoryKey(a, k)))
      BY PrefixFindsOwn
    <3> QED BY <2>2, <3>1, <3>2
  <2> QED BY <2>3, <2>4
<1>3. StoreInv => WorkingMemoryIsOwn
  BY <1>1, <1>2 DEF WorkingMemoryIsOwn
<1> QED BY <1>3, StoreIsKept, PTL

-----------------------------------------------------------------------------
(***************************************************************************)
(* The versions of an artifact.  That Ancestors is what its equation says, *)
(* and what it says of every row, is induction over the rows: a set of     *)
(* numbers that has 0, and n + 1 with n, has them all.                     *)
(***************************************************************************)

\* A set of numbers that is not empty has a least.
LEMMA LeastOf ==
    ASSUME NEW T, T \subseteq Nat, T # {}
    PROVE  \E x \in T : \A y \in T : x <= y
<1> DEFINE R == {ss \in Nat \X Nat : ss[1] < ss[2]}
<1>1. IsWellFoundedOn(R, Nat)
  BY NatLessThanWellFounded, Zenon DEF OpToRel
<1>2. \A x, y \in Nat : <<y, x>> \in R <=> y < x
  OBVIOUS
<1> HIDE DEF R
<1>3. PICK x \in T : \A y \in T : ~ (<<y, x>> \in R)
  BY <1>1, WFMin
<1>4. \A y \in T : ~ (y < x)
  BY <1>2, <1>3
<1> QED BY <1>4

\* Induction over the numbers, as a statement about a set.
LEMMA SetInduction ==
    ASSUME NEW T, 0 \in T, \A n \in Nat : n \in T => n + 1 \in T
    PROVE  Nat \subseteq T
<1> SUFFICES ASSUME Nat \ T # {} PROVE FALSE
  OBVIOUS
<1>1. PICK x \in Nat \ T : \A y \in Nat \ T : x <= y
  BY LeastOf
<1>2. x # 0 /\ x - 1 \in Nat /\ x - 1 \in T
  BY <1>1
<1> QED BY <1>1, <1>2

\* Max is what its name says of numbers that have a bound.
LEMMA MaxOfBounded ==
    ASSUME NEW S, S \subseteq Nat, S # {}, NEW n \in Nat, \A x \in S : x <= n
    PROVE  Max(S) \in S /\ \A x \in S : x <= Max(S)
<1> DEFINE gaps == {n - x : x \in S}
<1>1. gaps \subseteq Nat /\ gaps # {} OBVIOUS
<1>2. PICK g \in gaps : \A h \in gaps : g <= h BY <1>1, LeastOf
<1>3. PICK m \in S : g = n - m BY <1>2
<1>4. \A x \in S : m >= x BY <1>2, <1>3
<1>5. \E y \in S : \A x \in S : y >= x BY <1>4
<1> QED BY <1>5 DEF Max

-----------------------------------------------------------------------------

\* Any rows in which parents come first, and what Ancestors makes of them.
Grown(A, n) ==
    /\ n \in Nat /\ DOMAIN A = 1 .. n
    /\ \A a \in 1 .. n : A[a].parent \in 0 .. a - 1

UpTo(A, m, up) ==
    up = [a \in 1 .. m |->
             IF A[a].parent = 0 THEN {a} ELSE {a} \cup up[A[a].parent]]

AncestorsIn(A) ==
    CHOOSE up : up = [a \in DOMAIN A |->
                         IF A[a].parent = 0 THEN {a} ELSE {a} \cup up[A[a].parent]]

RootIn(A, a) == CHOOSE b \in AncestorsIn(A)[a] : A[b].parent = 0

\* The equation has a solution.
LEMMA AncestorsExist ==
    ASSUME NEW A, NEW n, Grown(A, n)
    PROVE  UpTo(A, n, AncestorsIn(A))
<1> DEFINE T == {m \in Nat : m <= n => \E up : UpTo(A, m, up)}
<1>1. 0 \in T
  <2>1. UpTo(A, 0, [a \in 1 .. 0 |-> {}]) BY DEF UpTo
  <2> QED BY <2>1
<1>2. ASSUME NEW m \in Nat, m \in T PROVE m + 1 \in T
  <2> SUFFICES ASSUME m + 1 <= n PROVE \E up : UpTo(A, m + 1, up)
    OBVIOUS
  <2>1. n \in Nat /\ \A a \in 1 .. n : A[a].parent \in 0 .. a - 1 BY DEF Grown
  <2>2. PICK up : UpTo(A, m, up) BY <1>2, <2>1
  <2> DEFINE p == A[m + 1].parent
             more == [a \in 1 .. m + 1 |->
                         IF a <= m THEN up[a]
                         ELSE IF p = 0 THEN {m + 1} ELSE {m + 1} \cup up[p]]
  <2>3. \A a \in 1 .. m : up[a] = IF A[a].parent = 0 THEN {a} ELSE {a} \cup up[A[a].parent]
    BY <2>2 DEF UpTo
  <2>4. \A a \in 1 .. m + 1 : A[a].parent = 0 \/ A[a].parent \in 1 .. m
    BY <2>1
  <2>5. \A a \in 1 .. m : more[a] = up[a] OBVIOUS
  <2>6. ASSUME NEW a \in 1 .. m + 1
        PROVE  more[a] = IF A[a].parent = 0 THEN {a} ELSE {a} \cup more[A[a].parent]
    <3>1. CASE a \in 1 .. m BY <3>1, <2>3, <2>4, <2>5
    <3>2. CASE a = m + 1
      <4>1. more[a] = IF p = 0 THEN {a} ELSE {a} \cup up[p] BY <3>2
      <4>2. p = 0 \/ more[p] = up[p] BY <2>4, <2>5
      <4> QED BY <3>2, <4>1, <4>2
    <3> QED BY <3>1, <3>2
  <2>7. more = [a \in 1 .. m + 1 |-> more[a]] OBVIOUS
  <2> HIDE DEF more
  <2>8. UpTo(A, m + 1, more) BY <2>6, <2>7 DEF UpTo
  <2> QED BY <2>8
<1> HIDE DEF T
<1>3. n \in T BY <1>1, <1>2, SetInduction DEF Grown
<1>4. PICK up : UpTo(A, n, up) BY <1>3 DEF T, Grown
<1>5. DOMAIN A = 1 .. n BY DEF Grown
<1>6. up = [a \in DOMAIN A |->
                IF A[a].parent = 0 THEN {a} ELSE {a} \cup up[A[a].parent]]
  BY <1>4, <1>5 DEF UpTo
<1>7. AncestorsIn(A) = [a \in DOMAIN A |->
          IF A[a].parent = 0 THEN {a} ELSE {a} \cup AncestorsIn(A)[A[a].parent]]
  BY <1>6, Zenon DEF AncestorsIn
<1> QED BY <1>5, <1>7 DEF UpTo

\* The equation, row by row.
LEMMA AncestorsOf ==
    ASSUME NEW A, NEW n, Grown(A, n), NEW a \in 1 .. n
    PROVE  AncestorsIn(A)[a] =
              IF A[a].parent = 0 THEN {a} ELSE {a} \cup AncestorsIn(A)[A[a].parent]
<1> DEFINE up == AncestorsIn(A)
<1>1. up = [b \in 1 .. n |-> IF A[b].parent = 0 THEN {b} ELSE {b} \cup up[A[b].parent]]
  BY AncestorsExist DEF UpTo
<1> HIDE DEF up
<1>2. up[a] = IF A[a].parent = 0 THEN {a} ELSE {a} \cup up[A[a].parent]
  BY <1>1
<1> QED BY <1>2 DEF up

\* What a row's ancestors are: itself, earlier rows, and one of them a root.
LEMMA AncestorsOfRow ==
    ASSUME NEW A, NEW n, Grown(A, n), NEW a \in 1 .. n
    PROVE  /\ a \in AncestorsIn(A)[a] /\ AncestorsIn(A)[a] \subseteq 1 .. a
           /\ \E r \in AncestorsIn(A)[a] :
                 /\ A[r].parent = 0
                 /\ \A q \in AncestorsIn(A)[a] : A[q].parent = 0 => q = r
<1> DEFINE up == AncestorsIn(A)
           Fine(b) == /\ b \in up[b] /\ up[b] \subseteq 1 .. b
                      /\ \E r \in up[b] :
                            /\ A[r].parent = 0
                            /\ \A q \in up[b] : A[q].parent = 0 => q = r
           T == {m \in Nat : \A b \in 1 .. n : b <= m => Fine(b)}
<1>1. /\ n \in Nat /\ \A b \in 1 .. n : A[b].parent \in 0 .. b - 1
      /\ \A b \in 1 .. n : up[b] = IF A[b].parent = 0 THEN {b} ELSE {b} \cup up[A[b].parent]
  BY AncestorsOf DEF Grown
<1> HIDE DEF up
<1>2. 0 \in T BY <1>1
<1>3. ASSUME NEW m \in Nat, m \in T PROVE m + 1 \in T
  <2> SUFFICES ASSUME NEW b \in 1 .. n, b = m + 1 PROVE Fine(b)
    BY <1>1, <1>3
  <2>1. CASE A[b].parent = 0
    <3>1. up[b] = {b} BY <1>1, <2>1
    <3> QED BY <2>1, <3>1
  <2>2. CASE A[b].parent # 0
    <3> DEFINE p == A[b].parent
    <3>1. p \in 0 .. b - 1 /\ up[b] = {b} \cup up[p] BY <1>1, <2>2
    <3>2. p \in 1 .. n /\ p <= m /\ p < b BY <1>1, <2>2, <3>1
    <3>3. Fine(p) BY <1>3, <3>2
    <3> QED BY <2>2, <3>1, <3>2, <3>3
  <2> QED BY <2>1, <2>2
<1>4. n \in T
  <2> HIDE DEF T
  <2> QED BY <1>1, <1>2, <1>3, SetInduction
<1>5. Fine(a) BY <1>1, <1>4
<1> QED BY <1>5 DEF up

\* The root of a row: itself, or the root of its parent.
LEMMA RootOfRow ==
    ASSUME NEW A, NEW n, Grown(A, n), NEW a \in 1 .. n
    PROVE  /\ RootIn(A, a) \in AncestorsIn(A)[a] /\ RootIn(A, a) \in 1 .. a
           /\ A[RootIn(A, a)].parent = 0
           /\ \A q \in AncestorsIn(A)[a] : A[q].parent = 0 => q = RootIn(A, a)
           /\ A[a].parent = 0 => RootIn(A, a) = a
           /\ A[a].parent # 0 =>
                 A[a].parent \in 1 .. a - 1 /\ RootIn(A, a) = RootIn(A, A[a].parent)
<1> DEFINE up == AncestorsIn(A)
           p == A[a].parent
<1>1. ASSUME NEW b \in 1 .. n
      PROVE  /\ RootIn(A, b) \in up[b] /\ A[RootIn(A, b)].parent = 0
             /\ \A q \in up[b] : A[q].parent = 0 => q = RootIn(A, b)
             /\ b \in up[b] /\ up[b] \subseteq 1 .. b
  BY AncestorsOfRow DEF RootIn
<1>2. /\ n \in Nat /\ p \in 0 .. a - 1
      /\ up[a] = IF p = 0 THEN {a} ELSE {a} \cup up[p]
  <2>1. n \in Nat /\ p \in 0 .. a - 1 BY DEF Grown
  <2>2. up[a] = IF p = 0 THEN {a} ELSE {a} \cup up[p] BY AncestorsOf
  <2> QED BY <2>1, <2>2
<1> HIDE DEF up
<1>3. p # 0 => p \in 1 .. n /\ p \in 1 .. a - 1 BY <1>2
<1>4. p = 0 => RootIn(A, a) = a BY <1>1, <1>2
<1>5. ASSUME p # 0 PROVE RootIn(A, a) = RootIn(A, p)
  <2>1. RootIn(A, a) # a BY <1>1, <1>5
  <2>2. RootIn(A, a) \in up[p] BY <1>1, <1>2, <1>5, <2>1
  <2> QED BY <1>1, <1>3, <1>5, <2>2
<1>6. RootIn(A, a) \in 1 .. a BY <1>1
<1> QED BY <1>1, <1>3, <1>4, <1>5, <1>6 DEF up

\* A row that is added is nobody's ancestor yet.
LEMMA RootsStay ==
    ASSUME NEW A, NEW B, NEW n, Grown(A, n), Grown(B, n + 1),
           \A a \in 1 .. n : B[a].parent = A[a].parent
    PROVE  \A a \in 1 .. n : RootIn(B, a) = RootIn(A, a)
<1> DEFINE T == {m \in Nat : \A a \in 1 .. n : a <= m => RootIn(B, a) = RootIn(A, a)}
<1>1. n \in Nat BY DEF Grown
<1>2. 0 \in T BY <1>1
<1>3. ASSUME NEW m \in Nat, m \in T PROVE m + 1 \in T
  <2> SUFFICES ASSUME NEW a \in 1 .. n, a = m + 1 PROVE RootIn(B, a) = RootIn(A, a)
    BY <1>1, <1>3
  <2>1. a \in 1 .. n + 1 BY <1>1
  <2>2. CASE A[a].parent = 0
    <3>1. RootIn(A, a) = a BY <2>2, RootOfRow
    <3>2. RootIn(B, a) = a BY <2>1, <2>2, RootOfRow
    <3> QED BY <3>1, <3>2
  <2>3. CASE A[a].parent # 0
    <3>1. A[a].parent \in 1 .. a - 1 /\ RootIn(A, a) = RootIn(A, A[a].parent)
      BY <2>3, RootOfRow
    <3>2. RootIn(B, a) = RootIn(B, A[a].parent)
      BY <2>1, <2>3, RootOfRow
    <3>3. RootIn(B, A[a].parent) = RootIn(A, A[a].parent) BY <1>1, <1>3, <3>1
    <3> QED BY <3>1, <3>2, <3>3
  <2> QED BY <2>2, <2>3
<1>4. n \in T
  <2> HIDE DEF T
  <2> QED BY <1>1, <1>2, <1>3, SetInduction
<1> QED BY <1>1, <1>4

-----------------------------------------------------------------------------

ArtifactRow == [parent : Nat, version : Nat, unseen : SUBSET Nat]

EditType ==
    [pc : {"idle", "walking"}, parent : Nat, lineage : SUBSET Nat, todo : Seq(SUBSET Nat),
     max : Nat, since : Nat]

\* The rows that a stack of levels holds.
Pushed(todo) == UNION {todo[i] : i \in 1 .. Len(todo)}

\* Two stacks on one another.
LEMMA PushedTogether ==
    ASSUME NEW s \in Seq(SUBSET Nat), NEW t \in Seq(SUBSET Nat)
    PROVE  s \o t \in Seq(SUBSET Nat) /\ Pushed(s \o t) = Pushed(s) \cup Pushed(t)
<1>1. /\ s \o t \in Seq(SUBSET Nat) /\ Len(s \o t) = Len(s) + Len(t)
      /\ \A i \in 1 .. Len(s) + Len(t) :
            (s \o t)[i] = IF i <= Len(s) THEN s[i] ELSE t[i - Len(s)]
      /\ Len(s) \in Nat /\ Len(t) \in Nat
  BY ConcatProperties, LenProperties
<1>2. ASSUME NEW x \in Pushed(s \o t) PROVE x \in Pushed(s) \cup Pushed(t)
  <2>1. PICK i \in 1 .. Len(s) + Len(t) : x \in (s \o t)[i] BY <1>1, <1>2 DEF Pushed
  <2>2. CASE i <= Len(s) BY <1>1, <2>1, <2>2 DEF Pushed
  <2>3. CASE i > Len(s)
    <3>1. i - Len(s) \in 1 .. Len(t) /\ x \in t[i - Len(s)] BY <1>1, <2>1, <2>3
    <3> QED BY <3>1 DEF Pushed
  <2> QED BY <1>1, <2>1, <2>2, <2>3
<1>3. ASSUME NEW x \in Pushed(s) PROVE x \in Pushed(s \o t)
  <2>1. PICK i \in 1 .. Len(s) : x \in s[i] BY <1>3 DEF Pushed
  <2>2. i \in 1 .. Len(s) + Len(t) /\ (s \o t)[i] = s[i] BY <1>1, <2>1
  <2> QED BY <1>1, <2>1, <2>2 DEF Pushed
<1>4. ASSUME NEW x \in Pushed(t) PROVE x \in Pushed(s \o t)
  <2>1. PICK i \in 1 .. Len(t) : x \in t[i] BY <1>4 DEF Pushed
  <2>2. /\ i + Len(s) \in 1 .. Len(s) + Len(t)
        /\ (s \o t)[i + Len(s)] = t[i]
    BY <1>1, <2>1
  <2> QED BY <1>1, <2>1, <2>2 DEF Pushed
<1> QED BY <1>1, <1>2, <1>3, <1>4

\* A level holds the rows it was made of.
LEMMA LevelPushes ==
    ASSUME NEW rows, rows \subseteq Nat
    PROVE  Level(rows) \in Seq(SUBSET Nat) /\ Pushed(Level(rows)) = rows
<1>1. CASE rows = {}
  <2>1. Level(rows) = <<>> /\ <<>> \in Seq(SUBSET Nat) /\ Len(<<>>) = 0
    BY <1>1 DEF Level
  <2>2. Pushed(<<>>) = {} BY DEF Pushed
  <2> QED BY <1>1, <2>1, <2>2
<1>2. CASE rows # {}
  <2>1. Level(rows) = <<rows>> BY <1>2 DEF Level
  <2>2. <<rows>> \in Seq(SUBSET Nat) /\ Len(<<rows>>) = 1 /\ <<rows>>[1] = rows
    OBVIOUS
  <2>3. Pushed(<<rows>>) = rows BY <2>2 DEF Pushed
  <2> QED BY <2>1, <2>2, <2>3
<1> QED BY <1>1, <1>2

\* Popping one row off the top level and pushing others.
After(todo, a, new) ==
    SubSeq(todo, 1, Len(todo) - 1) \o Level(todo[Len(todo)] \ {a}) \o Level(new)

TopLevel(todo) == todo[Len(todo)]

LEMMA PopAndPush ==
    ASSUME NEW todo, todo \in Seq(SUBSET Nat), todo # <<>>, NEW a, a \in TopLevel(todo),
           NEW new, new \subseteq Nat, NEW after, after = After(todo, a, new)
    PROVE  /\ after \in Seq(SUBSET Nat) /\ a \in Pushed(todo)
           /\ Pushed(after) \subseteq Pushed(todo) \cup new
           /\ (Pushed(todo) \ {a}) \cup new \subseteq Pushed(after)
<1> DEFINE d == Len(todo)
           top == todo[d]
           below == SubSeq(todo, 1, d - 1)
<1>1. d \in Nat \ {0} /\ \A i \in 1 .. d : todo[i] \subseteq Nat
  BY EmptySeq, LenProperties, ElementOfSeq
<1>2. /\ below \in Seq(SUBSET Nat) /\ Len(below) = d - 1
      /\ \A i \in 1 .. d - 1 : below[i] = todo[i]
  <2>1. d - 1 \in Int /\ 1 \in Int /\ \A i \in 1 .. d - 1 : todo[i] \in SUBSET Nat
    BY <1>1
  <2>2. /\ below \in Seq(SUBSET Nat)
        /\ Len(below) = IF 1 <= d - 1 THEN d - 1 - 1 + 1 ELSE 0
        /\ \A i \in 1 .. d - 1 - 1 + 1 : below[i] = todo[1 + i - 1]
    BY <2>1, SubSeqProperties
  <2> HIDE DEF below, d
  <2> QED BY <1>1, <2>2
<1>3. Pushed(todo) = Pushed(below) \cup top
  <2> HIDE DEF below
  <2>1. Pushed(todo) = UNION {todo[i] : i \in 1 .. d} BY DEF Pushed
  <2>2. Pushed(below) = UNION {todo[i] : i \in 1 .. d - 1} BY <1>1, <1>2 DEF Pushed
  <2>3. d \in 1 .. d /\ \A i \in 1 .. d : i = d \/ i \in 1 .. d - 1 BY <1>1
  <2>4. \A i \in 1 .. d - 1 : i \in 1 .. d BY <1>1
  <2> QED BY <2>1, <2>2, <2>3, <2>4
<1>4. top \subseteq Nat BY <1>1
<1> HIDE DEF d, top, below
<1>5. /\ Level(top \ {a}) \in Seq(SUBSET Nat) /\ Pushed(Level(top \ {a})) = top \ {a}
      /\ Level(new) \in Seq(SUBSET Nat) /\ Pushed(Level(new)) = new
  BY <1>4, LevelPushes
<1>6. /\ below \o Level(top \ {a}) \in Seq(SUBSET Nat)
      /\ Pushed(below \o Level(top \ {a})) = Pushed(below) \cup (top \ {a})
  BY <1>2, <1>5, PushedTogether, ZenonT(60)
<1>7. /\ (below \o Level(top \ {a})) \o Level(new) \in Seq(SUBSET Nat)
      /\ Pushed((below \o Level(top \ {a})) \o Level(new)) =
            (Pushed(below) \cup (top \ {a})) \cup new
  BY <1>5, <1>6, PushedTogether
<1>8. after = (below \o Level(top \ {a})) \o Level(new) BY DEF below, top, d, After
<1>9. a \in top BY DEF top, d, TopLevel
<1> QED BY <1>3, <1>7, <1>8, <1>9

-----------------------------------------------------------------------------

\* Rows grow from their parents, with larger versions; and of two rows of one
\* lineage the later has the larger version, unless it did not see the earlier.
Versioned ==
    /\ artifacts \in Seq(ArtifactRow)
    /\ \A a \in Rows : artifacts[a].parent < a /\ artifacts[a].version \in 1 .. a
    /\ \A a \in Rows : artifacts[a].parent # 0 =>
          artifacts[artifacts[a].parent].version < artifacts[a].version
    /\ \A b, c \in Rows : b < c /\ Root(b) = Root(c) =>
          b \in artifacts[c].unseen \/ artifacts[b].version < artifacts[c].version

\* A walk stays in its lineage and knows its largest version so far.  Of the
\* rows there were when it began, it has those whose parent it has, but for the
\* children of rows it has yet to visit.
Walks(e) ==
    LET edit == editor[e] IN
    /\ edit.since <= Len(artifacts) /\ edit.parent \in 1 .. edit.since
    /\ edit.lineage \subseteq Rows
    /\ \A b \in edit.lineage :
          Root(b) = Root(edit.parent) /\ artifacts[b].version <= edit.max
    /\ Root(edit.parent) \in edit.lineage
    /\ edit.max <= Len(artifacts)
    /\ Pushed(edit.todo) \subseteq edit.lineage
    /\ \A b \in 1 .. edit.since : artifacts[b].parent \in edit.lineage =>
          b \in edit.lineage \/ artifacts[b].parent \in Pushed(edit.todo)

VersionsInv ==
    /\ Versioned
    /\ editor \in [Editors -> EditType]
    /\ \A e \in Editors : editor[e].pc = "walking" => Walks(e)

\* The rows of a state are rows that grow, and Root is their root.
LEMMA RowsGrow ==
    ASSUME Versioned
    PROVE  /\ Grown(artifacts, Len(artifacts)) /\ Rows = 1 .. Len(artifacts)
           /\ Len(artifacts) \in Nat
           /\ \A a \in Rows : artifacts[a] \in ArtifactRow
<1>1. /\ Len(artifacts) \in Nat /\ Rows = 1 .. Len(artifacts)
      /\ \A a \in Rows : artifacts[a] \in ArtifactRow
  BY LenProperties, ElementOfSeq DEF Versioned, Rows
<1>2. \A a \in Rows : artifacts[a].parent \in 0 .. a - 1
  BY <1>1 DEF Versioned, ArtifactRow
<1> QED BY <1>1, <1>2 DEF Grown, Rows

\* The module's own Ancestors and Root are these.
LEMMA RootsOfRows ==
    ASSUME Versioned
    PROVE  /\ \A a : Root(a) = RootIn(artifacts, a)
           /\ Ancestors = AncestorsIn(artifacts)
<1>1. Ancestors = AncestorsIn(artifacts) BY Zenon DEF Ancestors, AncestorsIn, Rows
<1> QED BY <1>1 DEF Root, RootIn

\* When the walk is done, it has every row of the lineage that there was when
\* it began.
LEMMA WalkIsComplete ==
    ASSUME VersionsInv, NEW e \in Editors, Walks(e), editor[e].todo = <<>>
    PROVE  \A b \in 1 .. editor[e].since :
               Root(b) = Root(editor[e].parent) => b \in editor[e].lineage
<1> DEFINE edit == editor[e]
           A == artifacts
           n == Len(artifacts)
           r == Root(edit.parent)
           T == {m \in Nat : \A b \in 1 .. edit.since :
                    b <= m /\ Root(b) = r => b \in edit.lineage}
<1>1. Grown(A, n) /\ n \in Nat /\ edit.since \in Nat /\ edit.since <= n
  BY RowsGrow DEF VersionsInv, Walks, EditType
<1>2. \A a : Root(a) = RootIn(A, a) BY RootsOfRows DEF VersionsInv
<1>3. Pushed(edit.todo) = {} BY DEF Pushed
<1>4. r \in edit.lineage BY DEF Walks
<1>5. \A b \in 1 .. edit.since : A[b].parent \in edit.lineage => b \in edit.lineage
  BY <1>3 DEF Walks
<1> HIDE DEF A, n, r, edit
<1>6. 0 \in T OBVIOUS
<1>7. ASSUME NEW m \in Nat, m \in T PROVE m + 1 \in T
  <2> SUFFICES ASSUME NEW b \in 1 .. edit.since, b = m + 1, Root(b) = r
               PROVE  b \in edit.lineage
    BY <1>1, <1>7
  <2>1. b \in 1 .. n BY <1>1
  <2>2. CASE A[b].parent = 0
    <3>1. Root(b) = b BY <1>1, <1>2, <2>1, <2>2, RootOfRow
    <3> QED BY <1>4, <3>1
  <2>3. CASE A[b].parent # 0
    <3>1. A[b].parent \in 1 .. b - 1 /\ Root(b) = Root(A[b].parent)
      BY <1>1, <1>2, <2>1, <2>3, RootOfRow
    <3>2. A[b].parent \in 1 .. edit.since /\ A[b].parent <= m BY <1>1, <3>1
    <3>3. A[b].parent \in edit.lineage BY <1>7, <3>1, <3>2
    <3> QED BY <1>5, <3>3
  <2> QED BY <2>2, <2>3
<1>8. edit.since \in T
  <2> HIDE DEF T
  <2> QED BY <1>1, <1>6, <1>7, SetInduction
<1>9. \A b \in 1 .. edit.since : b <= edit.since BY <1>1
<1> QED BY <1>8, <1>9 DEF r, edit

\* A row that is added changes nothing of the others.
LEMMA RowIsAdded ==
    ASSUME Versioned, NEW new \in ArtifactRow, artifacts' = Append(artifacts, new),
           new.parent \in 0 .. Len(artifacts), new.version \in 1 .. Len(artifacts) + 1,
           new.parent # 0 => artifacts[new.parent].version < new.version,
           \A b \in Rows : new.parent # 0 /\ Root(b) = Root(new.parent) =>
              b \in new.unseen \/ artifacts[b].version < new.version
    PROVE  /\ Versioned' /\ Rows \subseteq Rows' /\ Len(artifacts') = Len(artifacts) + 1
           /\ \A a \in Rows : artifacts'[a] = artifacts[a] /\ Root(a)' = Root(a)
<1> DEFINE A == artifacts
           B == artifacts'
           n == Len(artifacts)
<1>1. /\ Grown(A, n) /\ Rows = 1 .. n /\ n \in Nat /\ A \in Seq(ArtifactRow)
      /\ \A a \in Rows : A[a] \in ArtifactRow
  BY RowsGrow DEF Versioned
<1>2. /\ B \in Seq(ArtifactRow) /\ Len(B) = n + 1 /\ B[n + 1] = new
      /\ \A a \in 1 .. n : B[a] = A[a]
  BY <1>1, AppendProperties
<1>3. DOMAIN B = 1 .. n + 1 /\ Rows' = 1 .. n + 1
  BY <1>1, <1>2, LenProperties DEF Rows
<1>4. \A a \in 1 .. n + 1 : B[a].parent \in 0 .. a - 1
  BY <1>1, <1>2 DEF Grown
<1>5. Grown(B, n + 1) BY <1>1, <1>3, <1>4 DEF Grown
<1>6. \A a : Root(a) = RootIn(A, a) BY RootsOfRows
<1>7. \A a : Root(a)' = RootIn(B, a)
  <2>1. Ancestors' = AncestorsIn(B) BY Zenon DEF Ancestors, AncestorsIn, Rows
  <2> QED BY <2>1 DEF Root, RootIn
<1>8. \A a \in 1 .. n : RootIn(B, a) = RootIn(A, a) BY <1>1, <1>2, <1>5, RootsStay
<1>9. \A a \in Rows : B[a] = A[a] /\ Root(a)' = Root(a)
  BY <1>1, <1>2, <1>6, <1>7, <1>8
<1>10. ASSUME NEW c, c = n + 1
       PROVE  Root(c)' = IF new.parent = 0 THEN c ELSE Root(new.parent)
  <2>1. c \in 1 .. n + 1 /\ Root(c)' = RootIn(B, c) /\ B[c] = new
    BY <1>1, <1>2, <1>7, <1>10
  <2>2. CASE new.parent = 0 BY <1>5, <2>1, <2>2, RootOfRow
  <2>3. CASE new.parent # 0
    <3>1. RootIn(B, c) = RootIn(B, new.parent)
      <4>1. B[c].parent # 0 /\ B[c].parent = new.parent BY <2>1, <2>3
      <4>2. RootIn(B, c) = RootIn(B, B[c].parent) BY <1>5, <2>1, <4>1, RootOfRow
      <4> QED BY <4>1, <4>2
    <3>2. new.parent \in 1 .. n BY <1>1, <2>3
    <3>3. RootIn(B, new.parent) = RootIn(A, new.parent) BY <1>8, <3>2
    <3>4. Root(new.parent) = RootIn(A, new.parent) BY <1>6
    <3> QED BY <2>1, <2>3, <3>1, <3>3, <3>4
  <2> QED BY <2>2, <2>3
<1>11. \A a \in Rows : Root(a) \in 1 .. a BY <1>1, <1>6, RootOfRow
<1>12. ASSUME NEW a \in Rows' PROVE B[a].parent < a /\ B[a].version \in 1 .. a
  <2>1. CASE a \in 1 .. n BY <1>1, <1>2, <2>1 DEF Versioned
  <2>2. CASE a = n + 1 BY <1>1, <1>2, <2>2
  <2> QED BY <1>1, <1>3, <1>12, <2>1, <2>2
<1>13. ASSUME NEW a \in Rows', B[a].parent # 0 PROVE B[B[a].parent].version < B[a].version
  <2>1. CASE a \in 1 .. n
    <3>1. A[a].parent \in 1 .. n /\ A[A[a].parent].version < A[a].version
      BY <1>1, <1>2, <1>13, <2>1 DEF Versioned, Grown
    <3> QED BY <1>2, <2>1, <3>1
  <2>2. CASE a = n + 1
    <3>1. B[a] = new /\ new.parent \in 1 .. n BY <1>1, <1>2, <1>13, <2>2
    <3>2. B[new.parent] = A[new.parent] BY <1>2, <3>1
    <3> QED BY <3>1, <3>2
  <2>3. a \in 1 .. n \/ a = n + 1 BY <1>1, <1>3
  <2> QED BY <2>1, <2>2, <2>3
<1>14. ASSUME NEW b \in Rows', NEW c \in Rows', b < c, Root(b)' = Root(c)'
       PROVE  b \in B[c].unseen \/ B[b].version < B[c].version
  <2>1. b \in 1 .. n BY <1>1, <1>3, <1>14
  <2>2. CASE c \in 1 .. n
    <3>1. Root(b) = Root(c) BY <1>1, <1>9, <1>14, <2>1, <2>2
    <3> QED BY <1>1, <1>2, <1>14, <2>1, <2>2, <3>1 DEF Versioned
  <2>3. CASE c = n + 1
    <3>1. Root(b) = Root(c)' /\ Root(b) \in 1 .. n BY <1>1, <1>9, <1>11, <1>14, <2>1
    <3>2. Root(c)' # n + 1 BY <1>1, <3>1
    <3>3. new.parent # 0 /\ Root(b) = Root(new.parent) BY <1>10, <2>3, <3>1, <3>2
    <3>4. b \in new.unseen \/ A[b].version < new.version BY <1>1, <2>1, <3>3
    <3> QED BY <1>2, <2>1, <2>3, <3>4
  <2> QED BY <1>1, <1>3, <2>2, <2>3
<1>15. Versioned'
  <2> HIDE DEF B
  <2>1. \A b, c \in Rows' : b < c /\ Root(b)' = Root(c)' =>
            b \in B[c].unseen \/ B[b].version < B[c].version
    BY <1>14
  <2> QED BY <1>2, <1>12, <1>13, <2>1 DEF Versioned, B
<1> QED BY <1>1, <1>2, <1>3, <1>9, <1>15

\* Who is not at work in a step is where he was in his walk.
LEMMA WalkGoesOn ==
    ASSUME VersionsInv, Rows \subseteq Rows', Len(artifacts) <= Len(artifacts'),
           Len(artifacts') \in Nat,
           \A a \in Rows : artifacts'[a] = artifacts[a] /\ Root(a)' = Root(a),
           NEW e \in Editors, Walks(e), editor'[e] = editor[e]
    PROVE  Walks(e)'
<1> DEFINE edit == editor[e]
<1>1. /\ edit \in EditType /\ edit.since <= Len(artifacts) /\ edit.parent \in 1 .. edit.since
      /\ edit.lineage \subseteq Rows
      /\ \A b \in edit.lineage :
            Root(b) = Root(edit.parent) /\ artifacts[b].version <= edit.max
      /\ Root(edit.parent) \in edit.lineage
      /\ edit.max <= Len(artifacts)
      /\ Pushed(edit.todo) \subseteq edit.lineage
      /\ \A b \in 1 .. edit.since : artifacts[b].parent \in edit.lineage =>
            b \in edit.lineage \/ artifacts[b].parent \in Pushed(edit.todo)
  BY DEF Walks, VersionsInv
<1>2. edit' = edit OBVIOUS
<1>3. /\ edit.since \in Nat /\ edit.max \in Nat /\ Len(artifacts) \in Nat
      /\ Rows = 1 .. Len(artifacts)
  BY <1>1, RowsGrow DEF EditType, VersionsInv
<1>4. \A b \in 1 .. edit.since : b \in Rows BY <1>1, <1>3
<1> HIDE DEF edit
<1>5. /\ edit.since <= Len(artifacts') /\ edit.max <= Len(artifacts')
      /\ edit.lineage \subseteq Rows'
  BY <1>1, <1>3
<1>6. PICK p : p = edit.parent OBVIOUS
<1>7. p \in Rows /\ Root(p)' = Root(p) BY <1>1, <1>4, <1>6
<1>8. \A b \in edit.lineage :
          b \in Rows /\ Root(b)' = Root(p)' /\ artifacts'[b].version <= edit.max
  BY <1>1, <1>6, <1>7
<1>9. Root(p)' \in edit.lineage BY <1>1, <1>6, <1>7
<1>10. \A b \in 1 .. edit.since : artifacts'[b].parent \in edit.lineage =>
           b \in edit.lineage \/ artifacts'[b].parent \in Pushed(edit.todo)
  BY <1>1, <1>4
<1>11. edit'.parent = p BY <1>2, <1>6
<1> QED BY <1>1, <1>2, <1>5, <1>6, <1>8, <1>9, <1>10, <1>11 DEF Walks, edit, Pushed

\* As long as no row is added, nothing is different.
LEMMA RowsUnchanged ==
    ASSUME Versioned, UNCHANGED artifacts
    PROVE  /\ Versioned' /\ Rows' = Rows /\ Len(artifacts') \in Nat
           /\ \A a : artifacts'[a] = artifacts[a] /\ Root(a)' = Root(a)
<1>1. Rows' = Rows BY DEF Rows
<1>2. Ancestors' = Ancestors BY Zenon DEF Ancestors, Rows
<1>3. \A a : Root(a)' = Root(a) BY <1>2 DEF Root
<1>4. Len(artifacts') \in Nat BY RowsGrow
<1> QED BY <1>1, <1>3, <1>4 DEF Versioned

\* One editor moves in its walk, and no row is added.
LEMMA OneWalks ==
    ASSUME VersionsInv, UNCHANGED artifacts, NEW e \in Editors, NEW new \in EditType,
           editor' = [editor EXCEPT ![e] = new], Walks(e)'
    PROVE  VersionsInv'
<1>1. /\ Versioned' /\ Rows \subseteq Rows' /\ Len(artifacts') \in Nat
      /\ Len(artifacts) <= Len(artifacts')
      /\ \A a \in Rows : artifacts'[a] = artifacts[a] /\ Root(a)' = Root(a)
  BY RowsUnchanged, RowsGrow DEF VersionsInv
<1>2. editor' \in [Editors -> EditType] BY DEF VersionsInv
<1>3. ASSUME NEW f \in Editors, editor'[f].pc = "walking" PROVE Walks(f)'
  <2>1. CASE f = e BY <2>1
  <2>2. CASE f # e
    <3>1. editor'[f] = editor[f] BY <2>2 DEF VersionsInv
    <3>2. Walks(f) BY <1>3, <3>1 DEF VersionsInv
    <3> QED BY <1>1, <3>1, <3>2, WalkGoesOn
  <2> QED BY <2>1, <2>2
<1> QED BY <1>1, <1>2, <1>3 DEF VersionsInv

\* Walks of the next state, with what the editor has then by name.
LEMMA WalkIsAt ==
    ASSUME NEW e, NEW at, editor'[e] = at, NEW p, p = at.parent,
           at.since <= Len(artifacts'), p \in 1 .. at.since, at.lineage \subseteq Rows',
           \A b \in at.lineage : Root(b)' = Root(p)' /\ artifacts'[b].version <= at.max,
           Root(p)' \in at.lineage, at.max <= Len(artifacts'),
           Pushed(at.todo) \subseteq at.lineage,
           \A b \in 1 .. at.since : artifacts'[b].parent \in at.lineage =>
               b \in at.lineage \/ artifacts'[b].parent \in Pushed(at.todo)
    PROVE  Walks(e)'
BY DEF Walks, Pushed

\* A walk begins at the root of its row, which is all it has and all it has to visit.
LEMMA BeginKeeps ==
    ASSUME VersionsInv, NEW e \in Editors, NEW a \in Rows, BeginEdit(e, a)
    PROVE  VersionsInv'
<1>1. PICK r, n : r = Root(a) /\ n = Len(artifacts) OBVIOUS
<1> DEFINE new == [pc |-> "walking", parent |-> a, lineage |-> {r}, todo |-> <<{r}>>,
                   max |-> artifacts[r].version, since |-> n]
<1>2. UNCHANGED artifacts /\ editor' = [editor EXCEPT ![e] = new]
  BY <1>1 DEF BeginEdit
<1>3. /\ Grown(artifacts, n) /\ Rows = 1 .. n /\ n \in Nat
      /\ \A b \in Rows : artifacts[b].version \in 1 .. b
  BY <1>1, RowsGrow DEF VersionsInv, Versioned
<1>4. /\ r \in 1 .. n /\ artifacts[r].parent = 0 /\ a \in 1 .. n
      /\ r = RootIn(artifacts, a) /\ r = RootIn(artifacts, r)
  BY <1>1, <1>3, RootOfRow, RootsOfRows DEF VersionsInv
<1>5. Root(r) = r BY <1>4, RootsOfRows DEF VersionsInv
<1>6. /\ Versioned' /\ Rows' = Rows
      /\ \A b : artifacts'[b] = artifacts[b] /\ Root(b)' = Root(b)
  BY <1>2, RowsUnchanged DEF VersionsInv
<1>7. <<{r}>> \in Seq(SUBSET Nat) /\ Pushed(<<{r}>>) = {r}
  <2>1. <<{r}>> \in Seq(SUBSET Nat) /\ Len(<<{r}>>) = 1 /\ <<{r}>>[1] = {r}
    BY <1>3, <1>4
  <2> QED BY <2>1 DEF Pushed
<1>8. artifacts[r].version \in 1 .. r /\ artifacts[r].version <= n
  BY <1>3, <1>4
<1>9. new \in EditType BY <1>3, <1>4, <1>7, <1>8 DEF EditType
<1>10. /\ new.parent = a /\ new.lineage = {r} /\ new.todo = <<{r}>>
       /\ new.max = artifacts[r].version /\ new.since = n
  OBVIOUS
<1> HIDE DEF new
<1>11. editor'[e] = new BY <1>2 DEF VersionsInv
<1>12. Len(artifacts') = n BY <1>1, <1>2
<1>13. Root(a)' = r /\ Root(r)' = r BY <1>1, <1>5, <1>6
<1>14. Walks(e)'
  <2>1. /\ n <= n /\ a \in 1 .. n /\ {r} \subseteq Rows' /\ Pushed(<<{r}>>) = {r}
        /\ r \in {r}
    <3>1. n <= n /\ {r} \subseteq Rows BY <1>3, <1>4
    <3>2. Rows' = Rows BY <1>6
    <3> QED BY <1>4, <1>7, <3>1, <3>2
  <2>2. \A b \in {r} : Root(b)' = Root(a)' /\ artifacts'[b].version <= artifacts[r].version
    BY <1>3, <1>4, <1>6, <1>8, <1>13
  <2>3. /\ new.since <= Len(artifacts') /\ a \in 1 .. new.since
        /\ new.lineage \subseteq Rows' /\ Root(a)' \in new.lineage
        /\ new.max <= Len(artifacts') /\ Pushed(new.todo) \subseteq new.lineage
    BY <1>8, <1>10, <1>12, <1>13, <2>1
  <2>4. \A b \in new.lineage : Root(b)' = Root(a)' /\ artifacts'[b].version <= new.max
    BY <1>10, <2>2
  <2>5. \A b \in 1 .. new.since : artifacts'[b].parent \in new.lineage =>
            b \in new.lineage \/ artifacts'[b].parent \in Pushed(new.todo)
    BY <1>7, <1>10
  <2> QED BY <1>10, <1>11, <2>3, <2>4, <2>5, WalkIsAt
<1> QED BY <1>2, <1>9, <1>14, OneWalks

\* A visit to a row keeps the walk in its lineage and complete but for what is
\* pushed, the row's children among it.
LEMMA VisitKeeps ==
    ASSUME VersionsInv, NEW e \in Editors, VisitChildren(e)
    PROVE  VersionsInv'
<1> DEFINE edit == editor[e]
<1>1. PICK a \in edit.todo[Len(edit.todo)] :
        editor' = [editor EXCEPT
            ![e].lineage = @ \cup (Children(a) \ edit.lineage),
            ![e].todo = SubSeq(@, 1, Len(edit.todo) - 1)
                           \o Level(edit.todo[Len(edit.todo)] \ {a})
                           \o Level(Children(a) \ edit.lineage),
            ![e].max = Max({@} \cup
                           {artifacts[b].version : b \in Children(a) \ edit.lineage})]
  BY DEF VisitChildren
<1>2. edit.pc = "walking" /\ edit.todo # <<>> /\ UNCHANGED artifacts
  BY DEF VisitChildren
<1>3. edit \in EditType /\ Walks(e) BY <1>2 DEF VersionsInv
<1>4. PICK n, p : n = Len(artifacts) /\ p = edit.parent OBVIOUS
<1>5. /\ Grown(artifacts, n) /\ Rows = 1 .. n /\ n \in Nat
      /\ \A b \in Rows : artifacts[b].version \in 1 .. b
  BY <1>4, RowsGrow DEF VersionsInv, Versioned
<1>6. PICK fresh : fresh = Children(a) \ edit.lineage OBVIOUS
<1>7. PICK after : after = SubSeq(edit.todo, 1, Len(edit.todo) - 1)
                              \o Level(edit.todo[Len(edit.todo)] \ {a}) \o Level(fresh)
  OBVIOUS
<1>8. PICK versions : versions = {edit.max} \cup {artifacts[b].version : b \in fresh}
  OBVIOUS
<1>9. PICK max : max = Max(versions) OBVIOUS
<1> DEFINE new == [edit EXCEPT !.lineage = edit.lineage \cup fresh, !.todo = after,
                               !.max = max]
<1>10. editor' = [editor EXCEPT ![e] = new]
  BY <1>1, <1>6, <1>7, <1>8, <1>9 DEF VersionsInv
<1>11. /\ fresh \subseteq Rows /\ fresh \subseteq Nat /\ edit.todo \in Seq(SUBSET Nat)
       /\ \A b \in Rows : artifacts[b].parent = a => b \in edit.lineage \/ b \in fresh
       /\ \A b \in fresh : artifacts[b].parent = a
  BY <1>3, <1>5, <1>6 DEF Children, EditType
<1>12. /\ after \in Seq(SUBSET Nat) /\ a \in Pushed(edit.todo)
       /\ Pushed(after) \subseteq Pushed(edit.todo) \cup fresh
       /\ (Pushed(edit.todo) \ {a}) \cup fresh \subseteq Pushed(after)
  <2>1. PICK todo : todo = edit.todo OBVIOUS
  <2>2. todo \in Seq(SUBSET Nat) /\ todo # <<>> /\ a \in TopLevel(todo)
    BY <1>1, <1>2, <1>11, <2>1 DEF TopLevel
  <2>3. after = After(todo, a, fresh)
    BY <1>7, <2>1 DEF After
  <2>4. /\ after \in Seq(SUBSET Nat) /\ a \in Pushed(todo)
        /\ Pushed(after) \subseteq Pushed(todo) \cup fresh
        /\ (Pushed(todo) \ {a}) \cup fresh \subseteq Pushed(after)
    <3>1. fresh \subseteq Nat BY <1>11
    <3>2. todo \in Seq(SUBSET Nat) BY <2>2
    <3>3. todo # <<>> BY <2>2
    <3>4. a \in TopLevel(todo) BY <2>2
    <3> QED BY ONLY <2>3, <3>1, <3>2, <3>3, <3>4, PopAndPush, ZenonT(60)
  <2> QED BY <2>1, <2>4
<1>13. max \in versions /\ max \in Nat /\ max <= n /\ \A v \in versions : v <= max
  <2>1. edit.max \in Nat /\ edit.max <= n BY <1>3, <1>4 DEF EditType, Walks
  <2>2. \A b \in fresh : artifacts[b].version \in Nat /\ artifacts[b].version <= n
    BY <1>5, <1>11
  <2>3. versions \subseteq Nat /\ versions # {} /\ \A v \in versions : v <= n
    BY <1>8, <2>1, <2>2
  <2> QED BY <1>5, <1>9, <2>3, MaxOfBounded
<1>14. /\ new \in EditType /\ new.parent = p /\ new.since = edit.since /\ new.todo = after
       /\ new.lineage = edit.lineage \cup fresh /\ new.max = max
  BY <1>3, <1>4, <1>11, <1>12, <1>13 DEF EditType
<1> HIDE DEF new
<1>15. editor'[e] = new BY <1>10 DEF VersionsInv
<1>16. /\ edit.since <= n /\ p \in 1 .. edit.since /\ edit.lineage \subseteq Rows
       /\ \A b \in edit.lineage : Root(b) = Root(p) /\ artifacts[b].version <= edit.max
       /\ Root(p) \in edit.lineage /\ Pushed(edit.todo) \subseteq edit.lineage
       /\ \A b \in 1 .. edit.since : artifacts[b].parent \in edit.lineage =>
             b \in edit.lineage \/ artifacts[b].parent \in Pushed(edit.todo)
       /\ edit.since \in Nat /\ edit.max \in Nat
  BY <1>3, <1>4 DEF Walks, EditType
<1>17. a \in edit.lineage /\ a \in Rows BY <1>12, <1>16
<1>18. \A b \in fresh : Root(b) = Root(p)
  <2> SUFFICES ASSUME NEW b \in fresh PROVE Root(b) = Root(p)
    OBVIOUS
  <2>1. artifacts[b].parent = a /\ a # 0 /\ b \in 1 .. n BY <1>5, <1>11, <1>17
  <2>2. RootIn(artifacts, b) = RootIn(artifacts, a) BY <1>5, <2>1, RootOfRow
  <2>3. Root(b) = Root(a) BY <2>2, RootsOfRows DEF VersionsInv
  <2> QED BY <1>16, <1>17, <2>3
<1>19. \A b \in new.lineage : Root(b) = Root(p) /\ artifacts[b].version <= max
  <2>1. edit.max <= max /\ \A b \in fresh : artifacts[b].version <= max
    BY <1>8, <1>13
  <2>2. \A b \in edit.lineage : artifacts[b].version \in Nat BY <1>5, <1>16
  <2>3. \A b \in edit.lineage : artifacts[b].version <= max
    BY <1>13, <1>16, <2>1, <2>2
  <2> QED BY <1>14, <1>16, <1>18, <2>1, <2>3
<1>20. Pushed(after) \subseteq new.lineage BY <1>12, <1>14, <1>16
<1>21. ASSUME NEW b \in 1 .. edit.since, artifacts[b].parent \in new.lineage
       PROVE  b \in new.lineage \/ artifacts[b].parent \in Pushed(after)
  <2>1. b \in Rows BY <1>5, <1>16
  <2>2. CASE artifacts[b].parent = a BY <1>11, <1>14, <2>1, <2>2
  <2>3. CASE artifacts[b].parent # a BY <1>12, <1>14, <1>16, <1>21, <2>3
  <2> QED BY <2>2, <2>3
<1>22. /\ Rows' = Rows /\ Len(artifacts') = n
       /\ \A b : artifacts'[b] = artifacts[b] /\ Root(b)' = Root(b)
  BY <1>2, <1>4, RowsUnchanged DEF VersionsInv
<1>23. Walks(e)'
  <2>1. new.lineage \subseteq Rows BY <1>11, <1>14, <1>16
  <2>2. Root(p)' \in new.lineage BY <1>14, <1>16, <1>22
  <2>3. \A b \in new.lineage : Root(b)' = Root(p)' /\ artifacts'[b].version <= new.max
    BY <1>14, <1>19, <1>22
  <2>4. \A b \in 1 .. new.since : artifacts'[b].parent \in new.lineage =>
            b \in new.lineage \/ artifacts'[b].parent \in Pushed(new.todo)
    BY <1>14, <1>21, <1>22
  <2>5. new.since <= n /\ new.max <= n /\ p \in 1 .. new.since BY <1>13, <1>14, <1>16
  <2>6. Pushed(new.todo) \subseteq new.lineage BY <1>14, <1>20
  <2> QED BY <1>14, <1>15, <1>22, <2>1, <2>2, <2>3, <2>4, <2>5, <2>6, SMTT(30) DEF Walks, Pushed
<1> QED BY <1>2, <1>10, <1>14, <1>23, OneWalks

\* A row is added, and one editor at most has come to the end of his edit.
LEMMA RowsGoOn ==
    ASSUME VersionsInv, Versioned', Rows \subseteq Rows',
           Len(artifacts') = Len(artifacts) + 1,
           \A a \in Rows : artifacts'[a] = artifacts[a] /\ Root(a)' = Root(a),
           editor' \in [Editors -> EditType],
           \A e \in Editors : editor'[e] = editor[e] \/ editor'[e] = NoEdit
    PROVE  VersionsInv'
<1>1. Len(artifacts') \in Nat /\ Len(artifacts) <= Len(artifacts')
  BY RowsGrow DEF VersionsInv
<1>2. ASSUME NEW e \in Editors, editor'[e].pc = "walking" PROVE Walks(e)'
  <2>1. editor'[e] = editor[e] BY <1>2 DEF NoEdit
  <2>2. Walks(e) BY <1>2, <2>1 DEF VersionsInv
  <2> QED BY <1>1, <2>1, <2>2, WalkGoesOn
<1> QED BY <1>2 DEF VersionsInv

\* A root begins a lineage of its own.
LEMMA StoreKeeps ==
    ASSUME VersionsInv, StoreArtifact
    PROVE  VersionsInv'
<1> DEFINE new == Row(0, 1, {})
<1>1. new \in ArtifactRow /\ new.parent = 0 /\ new.version = 1
  BY DEF Row, ArtifactRow
<1>2. artifacts' = Append(artifacts, new) /\ editor' = editor
  BY DEF StoreArtifact
<1>3. Len(artifacts) \in Nat /\ Versioned BY RowsGrow DEF VersionsInv
<1> HIDE DEF new
<1>4. new.parent \in 0 .. Len(artifacts) /\ new.version \in 1 .. Len(artifacts) + 1
  BY <1>1, <1>3
<1>5. /\ Versioned' /\ Rows \subseteq Rows' /\ Len(artifacts') = Len(artifacts) + 1
      /\ \A a \in Rows : artifacts'[a] = artifacts[a] /\ Root(a)' = Root(a)
  BY <1>1, <1>2, <1>3, <1>4, RowIsAdded
<1> QED BY <1>2, <1>5, RowsGoOn DEF VersionsInv

\* The row that is inserted has a larger version than every row of its lineage
\* that the walk saw; and the others it has not seen.
LEMMA InsertKeeps ==
    ASSUME VersionsInv, NEW e \in Editors, InsertVersion(e)
    PROVE  VersionsInv'
<1>1. PICK p, m, s, n : /\ p = editor[e].parent /\ m = editor[e].max
                        /\ s = editor[e].since /\ n = Len(artifacts)
  OBVIOUS
<1> DEFINE new == Row(p, m + 1, (s + 1) .. n)
<1>2. /\ editor[e].pc = "walking" /\ editor[e].todo = <<>>
      /\ artifacts' = Append(artifacts, new) /\ editor' = [editor EXCEPT ![e] = NoEdit]
  BY <1>1 DEF InsertVersion, NextVersion
<1>3. /\ Walks(e) /\ editor[e] \in EditType /\ Versioned /\ n \in Nat
      /\ Rows = 1 .. n /\ \A b \in Rows : artifacts[b] \in ArtifactRow
  BY <1>1, <1>2, RowsGrow DEF VersionsInv
<1>4. \A b \in 1 .. s : Root(b) = Root(p) => b \in editor[e].lineage
  BY <1>1, <1>2, <1>3, WalkIsComplete
<1>5. /\ p \in Nat /\ m \in Nat /\ s \in Nat /\ s <= n /\ p \in 1 .. s /\ m <= n
      /\ \A b \in editor[e].lineage : artifacts[b].version <= m
  BY <1>1, <1>3 DEF Walks, EditType
<1>6. \A b \in Rows : artifacts[b].version \in Nat BY <1>3 DEF ArtifactRow
<1>7. /\ new \in ArtifactRow /\ new.parent = p /\ new.version = m + 1
      /\ new.unseen = (s + 1) .. n
  <2>1. p \in Nat /\ m + 1 \in Nat /\ (s + 1) .. n \in SUBSET Nat BY <1>3, <1>5
  <2> QED BY <2>1 DEF Row, ArtifactRow
<1> HIDE DEF new
<1>8. p \in Rows /\ artifacts[p].version < m + 1
  <2>1. p \in editor[e].lineage /\ p \in Rows BY <1>3, <1>4, <1>5
  <2> QED BY <1>5, <1>6, <2>1
<1>9. ASSUME NEW b \in Rows, Root(b) = Root(p)
      PROVE  b \in new.unseen \/ artifacts[b].version < new.version
  <2>1. CASE b <= s
    <3>1. b \in 1 .. s BY <1>3, <1>5, <2>1
    <3>2. artifacts[b].version <= m BY <1>4, <1>5, <1>9, <3>1
    <3> QED BY <1>5, <1>6, <1>7, <3>2
  <2>2. CASE b > s BY <1>3, <1>5, <1>7, <2>2
  <2> QED BY <1>3, <1>5, <2>1, <2>2
<1>10. /\ new.parent \in 0 .. n /\ new.version \in 1 .. n + 1
       /\ artifacts[new.parent].version < new.version
  BY <1>3, <1>5, <1>7, <1>8
<1>11. \A b \in Rows : Root(b) = Root(new.parent) =>
           b \in new.unseen \/ artifacts[b].version < new.version
  BY <1>7, <1>9
<1>12. /\ Versioned' /\ Rows \subseteq Rows' /\ Len(artifacts') = Len(artifacts) + 1
       /\ \A a \in Rows : artifacts'[a] = artifacts[a] /\ Root(a)' = Root(a)
  BY <1>1, <1>2, <1>3, <1>7, <1>10, <1>11, RowIsAdded
<1>13. NoEdit \in EditType BY DEF NoEdit, EditType
<1>14. /\ editor' \in [Editors -> EditType]
       /\ \A f \in Editors : editor'[f] = editor[f] \/ editor'[f] = NoEdit
  BY <1>2, <1>13 DEF VersionsInv
<1> QED BY <1>12, <1>14, RowsGoOn

LEMMA VersionsInvInit == VersionsInit => VersionsInv
<1> SUFFICES ASSUME VersionsInit PROVE VersionsInv
  OBVIOUS
<1>1. Rows = {} /\ artifacts \in Seq(ArtifactRow)
  BY DEF VersionsInit, Rows
<1>2. Versioned BY <1>1 DEF Versioned
<1>3. NoEdit \in EditType /\ NoEdit.pc # "walking" BY DEF NoEdit, EditType
<1> QED BY <1>2, <1>3 DEF VersionsInit, VersionsInv

\* Every step keeps the invariant.
LEMMA VersionsInvStep ==
    ASSUME VersionsInv, [VersionsNext]_versionVars
    PROVE  VersionsInv'
<1>1. CASE StoreArtifact BY <1>1, StoreKeeps
<1>2. CASE \E e \in Editors : \E a \in Rows : BeginEdit(e, a) BY <1>2, BeginKeeps
<1>3. CASE \E e \in Editors : VisitChildren(e) BY <1>3, VisitKeeps
<1>4. CASE \E e \in Editors : InsertVersion(e) BY <1>4, InsertKeeps
<1>5. CASE UNCHANGED versionVars
  <2>1. UNCHANGED <<artifacts, editor>> BY <1>5 DEF versionVars
  <2>2. /\ Versioned' /\ Rows' = Rows /\ Len(artifacts') \in Nat
        /\ \A a : artifacts'[a] = artifacts[a] /\ Root(a)' = Root(a)
    BY <2>1, RowsUnchanged DEF VersionsInv
  <2>3. Len(artifacts) <= Len(artifacts') BY <2>1, <2>2
  <2>4. ASSUME NEW e \in Editors, editor'[e].pc = "walking" PROVE Walks(e)'
    <3>1. editor'[e] = editor[e] /\ Walks(e) BY <2>1, <2>4 DEF VersionsInv
    <3> QED BY <2>2, <2>3, <3>1, WalkGoesOn
  <2> QED BY <2>1, <2>2, <2>4 DEF VersionsInv
<1> QED BY <1>1, <1>2, <1>3, <1>4, <1>5 DEF VersionsNext

\* Two rows of a lineage with one version are the two that the invariant speaks of.
LEMMA VersionedTellsApart ==
    ASSUME Versioned
    PROVE  VersionsTellApart
<1>1. /\ Grown(artifacts, Len(artifacts)) /\ Rows = 1 .. Len(artifacts)
      /\ Len(artifacts) \in Nat /\ \A a \in Rows : artifacts[a] \in ArtifactRow
  BY RowsGrow
<1>2. \A a \in Rows : artifacts[a].version \in Nat /\ artifacts[a].parent \in Nat
  BY <1>1 DEF ArtifactRow
<1>3. ASSUME NEW a \in Rows
      PROVE  /\ Root(a) \in Ancestors[a] /\ artifacts[Root(a)].parent = 0
             /\ \A q \in Ancestors[a] : artifacts[q].parent = 0 => q = Root(a)
  BY <1>1, RootOfRow, RootsOfRows
<1>4. ASSUME NEW a \in Rows, artifacts[a].parent # 0
      PROVE  artifacts[a].version > artifacts[artifacts[a].parent].version
  <2>1. artifacts[a].parent \in Rows
    <3>1. artifacts[a].parent < a BY DEF Versioned
    <3> QED BY <1>1, <1>2, <1>4, <3>1
  <2> QED BY <1>2, <1>4, <2>1 DEF Versioned
<1>5. ASSUME NEW a \in Rows, GetVersion(a, artifacts[a].version) # "found"
      PROVE  \E b, c \in Lineage(a) :
                 /\ artifacts[b].version = artifacts[a].version
                 /\ artifacts[c].version = artifacts[a].version
                 /\ b \in artifacts[c].unseen
  <2> DEFINE found == {b \in Lineage(a) : artifacts[b].version = artifacts[a].version}
  <2>1. a \in Lineage(a) BY <1>3 DEF Lineage
  <2>2. found # {a}
    <3>1. Cardinality({a}) = 1 BY FS_Singleton
    <3> QED BY <1>5, <2>1, <3>1 DEF GetVersion
  <2>3. PICK b \in Lineage(a) : b # a /\ artifacts[b].version = artifacts[a].version
    BY <2>1, <2>2
  <2>4. b \in Rows /\ Root(a) = Root(b)
    <3>1. b \in Rows /\ Root(a) \in Ancestors[b] BY DEF Lineage
    <3> QED BY <1>3, <3>1
  <2>5. CASE a < b
    <3>1. a \in artifacts[b].unseen \/ artifacts[a].version < artifacts[b].version
      BY <2>4, <2>5 DEF Versioned
    <3>2. a \in artifacts[b].unseen BY <1>2, <2>3, <2>4, <3>1
    <3> QED BY <2>1, <2>3, <3>2
  <2>6. CASE b < a
    <3>1. b \in artifacts[a].unseen \/ artifacts[b].version < artifacts[a].version
      BY <2>4, <2>6 DEF Versioned
    <3>2. b \in artifacts[a].unseen BY <1>2, <2>3, <2>4, <3>1
    <3> QED BY <2>1, <2>3, <3>2
  <2>7. a < b \/ b < a BY <1>1, <2>3, <2>4
  <2> QED BY <2>5, <2>6, <2>7
<1> QED BY <1>4, <1>5 DEF VersionsTellApart

\* Whatever the interleaving of the edits, a version grows along the lineage,
\* and two rows of a lineage share one only when the one was inserted during
\* the edit that made the other.
THEOREM VersionsStayApart == VersionsSpec => []VersionsTellApart
<1>1. VersionsInv /\ [VersionsNext]_versionVars => VersionsInv'
  BY VersionsInvStep
<1>2. VersionsInv => VersionsTellApart
  BY VersionedTellsApart DEF VersionsInv
<1> QED BY <1>1, <1>2, VersionsInvInit, PTL DEF VersionsSpec

-----------------------------------------------------------------------------
(***************************************************************************)
(* The composition.                                                        *)
(***************************************************************************)

LEMMA StepOfOne ==
    ASSUME [Next]_allVars
    PROVE  /\ [SchedulerNext]_schedulerVars /\ [MemoryNext]_memoryVars
           /\ [LongTermNext]_longTermVars /\ [GraphNext]_graphVars
           /\ [ChatNext]_chatVars /\ [VersionsNext]_versionVars
<1>1. CASE UNCHANGED allVars BY <1>1 DEF allVars
<1>2. CASE Next
  BY <1>2, Zenon DEF Next, Scheduled, Remembered, Recorded
<1> QED BY <1>1, <1>2

\* Each component behaves as it does by itself.
LEMMA EachByItself ==
    Spec => /\ SchedulerSpec /\ MemorySpec /\ LongTermSpec
            /\ GraphSpec /\ ChatSpec /\ VersionsSpec
<1>1. Init => /\ SchedulerInit /\ MemoryInit /\ LongTermInit
              /\ GraphInit /\ ChatInit /\ VersionsInit
  BY DEF Init
<1> QED
  BY <1>1, StepOfOne, PTL
  DEF Spec, SchedulerSpec, MemorySpec, LongTermSpec, GraphSpec, ChatSpec, VersionsSpec

\* The schedule is a stable priority queue: schedule, remove, next and peek do
\* what they promise, whatever stale entries the heap has.
THEOREM ScheduleIsAQueue == Spec => ImplementsQueue
  BY EachByItself, SchedulerImplementsQueue, PTL

\* What was withdrawn and found, in the long-term memory or in the knowledge graph,
\* is in no answer until its id is stored again; and no answer of search has, on its
\* day, anything that validate would reject.
THEOREM WithdrawnIsNotAnswered == Spec => WithdrawnStaysOut
  BY EachByItself, WithdrawnEntitiesStayOut, NodesStayDeprecated, SearchAndValidatorAgree,
     PTL DEF WithdrawnStaysOut

\* A checkpoint that is loaded shows a transition the task has made, none older
\* than the last one saved when the load began, unless another load wrote an older
\* one over it.
THEOREM LoadsAreCurrent == Spec => []CheckpointsAreCurrent
  BY EachByItself, CheckpointsStayCurrent, PTL

\* Each agent recalls and lists what it has stored itself and not forgotten, though
\* the keys of all agents, and of the checkpoints, share one flat store.
THEOREM AgentsKeepTheirOwn == Spec => []WorkingMemoryIsOwn
  BY EachByItself, WorkingMemoryStaysOwn, PTL

\* A conversation becomes a task with requirements that were all filled, unless an
\* update had failed half way, and several only when their creations overlapped.
THEOREM TasksComeFromConversations == Spec => []TasksAreEarned
  BY EachByItself, ConversationsEarnTheirTasks, PTL

\* Versions grow along a lineage, and two rows share one only if the one was
\* inserted while the other was edited.
THEOREM VersionsAreTold == Spec => []VersionsTellApart
  BY EachByItself, VersionsStayApart, PTL
=============================================================================
