----------------------------- MODULE MemoryStore -----------------------------
(***************************************************************************)
(* The process-local key-value store of core/memory_store.py and the two   *)
(* users of it: the checkpoints of orchestrator/checkpoints.py, which fall *)
(* back on the event history, and the working memory of the agents.        *)
(*                                                                         *)
(* A checkpoint is the number of the recorded transition it shows, so the  *)
(* history of a task is how many there are.  A task is moved by one caller *)
(* that records a transition and then saves it; anybody loads.  Every      *)
(* operation of the store is one locked step; only the look at the history *)
(* waits for the database.                                                 *)
(*                                                                         *)
(* Keys are sequences of the segments between colons, as the prefixes join *)
(* them.  Bounds: MaxTime, MaxHistory.                                     *)
(***************************************************************************)
EXTENDS Integers, Sequences, FiniteSets

CONSTANTS
    Checkpointed,   \* the tasks whose checkpoints are kept
    Loaders,        \* calls of load_checkpoint
    AgentIds,       \* sequences of segments
    MemoryKeys,     \* the same
    Values,
    Ttls,           \* what callers of WorkingMemory.store may ask for
    DefaultTtl,     \* memory_default_ttl_seconds
    CheckpointTtl,
    MaxTime,
    MaxHistory

\* An agent id has no colon; a key may have any number.
ASSUME MemoryAssumption ==
    /\ AgentIds \cup MemoryKeys \subseteq Seq(STRING)
    /\ \A a \in AgentIds : Len(a) = 1
    /\ \A k \in MemoryKeys : Len(k) > 0
    /\ Values \subseteq Nat
    /\ Ttls \subseteq Nat
    /\ {DefaultTtl, CheckpointTtl, MaxTime, MaxHistory} \subseteq Nat

VARIABLES
    clock,
    data,           \* _data: full key -> [value, expiry]
    history,        \* the rows of a task in the event store (external)
    saver,          \* the caller that moves a task: "idle" or "recorded"
    loader,         \* the coroutines of load_checkpoint
    loaded,         \* the last checkpoint that was loaded
    saved,          \* history variable: what the last save_checkpoint wrote
    overtaken,      \* history variable: the cached checkpoint was read from the
                    \* database before the last save and written back after it
    own             \* history variable: what each agent has put where, gone
                    \* the moment it expires

memoryVars == <<clock, data, history, saver, loader, loaded, saved, overtaken, own>>

Absent == [value |-> 0, expiry |-> -1]

\* A loader on its way to the database and back; base is what was saved when it
\* began.
NoLoad ==
    [pc |-> "idle", task |-> "none", read |-> 0, base |-> 0, overlapped |-> FALSE]

NotLoaded == [task |-> "none", value |-> 0, base |-> 0, late |-> FALSE]

\* _prefixed and the key schemes of its users.
CheckpointKey(t) == <<"cp", "task", t>>

\* Keys of all agents in one namespace.
MemoryKeyUnscoped(agent, key) == <<"wm">> \o key

MemoryKey(agent, key) == <<"wm">> \o agent \o key

AllKeys ==
    {CheckpointKey(t) : t \in Checkpointed} \cup
    {MemoryKey(a, k) : a \in AgentIds, k \in MemoryKeys}

MemoryInit ==
    /\ clock = 0
    /\ data = [k \in AllKeys |-> Absent]
    /\ history = [t \in Checkpointed |-> 0]
    /\ saver = [t \in Checkpointed |-> "idle"]
    /\ loader = [l \in Loaders |-> NoLoad]
    /\ loaded = NotLoaded
    /\ saved = [t \in Checkpointed |-> 0]
    /\ overtaken = [t \in Checkpointed |-> FALSE]
    /\ own = [a \in AgentIds |-> [k \in MemoryKeys |-> Absent]]

-----------------------------------------------------------------------------
(***************************** The store ***********************************)

\* _is_alive; an entry is alive in the very instant it expires.
Lives(entry) == clock <= entry.expiry

\* What the scan of all keys evicts.
Evicted == [k \in AllKeys |-> IF Lives(data[k]) THEN data[k] ELSE Absent]

\* get, which evicts what it finds expired.
Touched(key) == [data EXCEPT ![key] = IF Lives(@) THEN @ ELSE Absent]

\* set_with_ttl: an explicit time to live wins, even zero, over the override of
\* the namespace, and that over the configured default.
Fresh(value, ttl) == [value |-> value, expiry |-> clock + ttl]

Tick ==
    /\ clock < MaxTime
    /\ clock' = clock + 1
    /\ own' = [a \in AgentIds |-> [k \in MemoryKeys |->
                  IF own[a][k].expiry < clock' THEN Absent ELSE own[a][k]]]
    /\ UNCHANGED <<data, history, saver, loader, loaded, saved, overtaken>>

\* init_memory_store: the process starts again with an empty store.
Restart ==
    /\ data' = [k \in AllKeys |-> Absent]
    /\ saver' = [t \in Checkpointed |-> "idle"]
    /\ loader' = [l \in Loaders |-> NoLoad]
    /\ overtaken' = [t \in Checkpointed |-> FALSE]
    /\ own' = [a \in AgentIds |-> [k \in MemoryKeys |-> Absent]]
    /\ UNCHANGED <<clock, history, loaded, saved>>

-----------------------------------------------------------------------------
(*************************** Checkpoints ***********************************)

\* The caller records a transition, and saves it when that is done.
Record(t) ==
    /\ saver[t] = "idle" /\ history[t] < MaxHistory
    /\ history' = [history EXCEPT ![t] = @ + 1]
    /\ saver' = [saver EXCEPT ![t] = "recorded"]
    /\ UNCHANGED <<clock, data, loader, loaded, saved, overtaken, own>>

\* save_checkpoint
SaveCheckpoint(t) ==
    /\ saver[t] = "recorded"
    /\ data' = [data EXCEPT ![CheckpointKey(t)] = Fresh(history[t], CheckpointTtl)]
    /\ saver' = [saver EXCEPT ![t] = "idle"]
    /\ saved' = [saved EXCEPT ![t] = history[t]]
    /\ overtaken' = [overtaken EXCEPT ![t] = FALSE]
    /\ loader' = [l \in Loaders |->
          IF loader[l].task = t THEN [loader[l] EXCEPT !.overlapped = TRUE]
          ELSE loader[l]]
    /\ UNCHANGED <<clock, history, loaded, own>>

\* delete_checkpoint
DeleteCheckpoint(t) ==
    /\ saver[t] = "idle"
    /\ data' = [data EXCEPT ![CheckpointKey(t)] = Absent]
    /\ UNCHANGED <<clock, history, saver, loader, loaded, saved, overtaken, own>>

\* load_checkpoint: a hit is returned as it is, a miss asks the database.
LoadCheckpoint(l, t) ==
    LET key == CheckpointKey(t)
    IN  /\ loader[l].pc = "idle"
        /\ data' = Touched(key)
        /\ IF Lives(data[key])
           THEN /\ loaded' = [task |-> t, value |-> data[key].value,
                              base |-> saved[t], late |-> overtaken[t]]
                /\ UNCHANGED loader
           ELSE /\ loader' = [loader EXCEPT ![l] =
                       [NoLoad EXCEPT !.pc = "missed", !.task = t, !.base = saved[t]]]
                /\ UNCHANGED loaded
        /\ UNCHANGED <<clock, history, saver, saved, overtaken, own>>

\* A replay that takes the first row of the history.
LastEventFirst(t) == IF history[t] > 0 THEN 1 ELSE 0

\* The last row of the history, 0 when it is empty.
LastEvent(t) == history[t]

\* _replay_from_db: the database answers.
ReadHistory(l) ==
    /\ loader[l].pc = "missed"
    /\ loader' = [loader EXCEPT ![l].pc = "replayed",
                     ![l].read = LastEvent(loader[l].task), ![l].overlapped = FALSE]
    /\ UNCHANGED <<clock, data, history, saver, loaded, saved, overtaken, own>>

\* The query fails, and with it the load.
ReadFails(l) ==
    /\ loader[l].pc = "missed"
    /\ loader' = [loader EXCEPT ![l] = NoLoad]
    /\ UNCHANGED <<clock, data, history, saver, loaded, saved, overtaken, own>>

\* It re-warms the cache, whatever has been written there meanwhile.
Rewarm(l) ==
    LET t == loader[l].task
        found == loader[l].read
    IN  /\ loader[l].pc = "replayed"
        /\ IF found = 0 THEN UNCHANGED <<data, loaded, overtaken>>
           ELSE /\ data' = [data EXCEPT ![CheckpointKey(t)] = Fresh(found, CheckpointTtl)]
                /\ loaded' = [task |-> t, value |-> found,
                              base |-> loader[l].base, late |-> FALSE]
                /\ overtaken' = [overtaken EXCEPT ![t] = loader[l].overlapped]
        /\ loader' = [loader EXCEPT ![l] = NoLoad]
        /\ UNCHANGED <<clock, history, saver, saved, own>>

-----------------------------------------------------------------------------
(************************** Working memory *********************************)

\* store
Remember(a, k) ==
    \E value \in Values, ttl \in Ttls \cup {DefaultTtl} :
        /\ data' = [data EXCEPT ![MemoryKey(a, k)] = Fresh(value, ttl)]
        /\ own' = [own EXCEPT ![a][k] = Fresh(value, ttl)]
        /\ UNCHANGED <<clock, history, saver, loader, loaded, saved, overtaken>>

\* recall
Recall(a, k) ==
    /\ data' = Touched(MemoryKey(a, k))
    /\ UNCHANGED <<clock, history, saver, loader, loaded, saved, overtaken, own>>

Recalled(a, k) ==
    LET entry == data[MemoryKey(a, k)]
    IN  IF Lives(entry) THEN {entry.value} ELSE {}

\* forget
Forget(a, k) ==
    /\ data' = [data EXCEPT ![MemoryKey(a, k)] = Absent]
    /\ own' = [own EXCEPT ![a][k] = Absent]
    /\ UNCHANGED <<clock, history, saver, loader, loaded, saved, overtaken>>

\* list_keys, and the scan beneath it.
ScanKeys ==
    /\ data' = Evicted
    /\ UNCHANGED <<clock, history, saver, loader, loaded, saved, overtaken, own>>

Listed(a) ==
    {SubSeq(key, Len(a) + 2, Len(key)) :
        key \in {k \in AllKeys :
                    Lives(data[k]) /\ SubSeq(k, 1, Len(a) + 1) = <<"wm">> \o a}}

MemoryNext ==
    \/ Tick \/ Restart \/ ScanKeys
    \/ \E t \in Checkpointed :
          \/ Record(t) \/ SaveCheckpoint(t) \/ DeleteCheckpoint(t)
          \/ \E l \in Loaders : LoadCheckpoint(l, t)
    \/ \E l \in Loaders : ReadHistory(l) \/ ReadFails(l) \/ Rewarm(l)
    \/ \E a \in AgentIds, k \in MemoryKeys : Remember(a, k) \/ Recall(a, k) \/ Forget(a, k)

MemorySpec == MemoryInit /\ [][MemoryNext]_memoryVars

-----------------------------------------------------------------------------

\* A loaded checkpoint shows a transition the task has made, none that is older
\* than the last one saved when the load began -- through expiry, deletion and
\* restart of the store -- unless another load read the database before a save
\* and wrote the older checkpoint over it.
CheckpointsAreCurrent ==
    loaded.value > 0 =>
        /\ loaded.value <= history[loaded.task]
        /\ loaded.value < loaded.base => loaded.late

\* Agents share one flat store, and yet each recalls and lists exactly what it
\* has stored itself and not forgotten, as long as it lives.
WorkingMemoryIsOwn ==
    \A a \in AgentIds :
        /\ Listed(a) = {k \in MemoryKeys : own[a][k] # Absent}
        /\ \A k \in MemoryKeys :
              Recalled(a, k) = IF own[a][k] # Absent THEN {own[a][k].value} ELSE {}
=============================================================================
