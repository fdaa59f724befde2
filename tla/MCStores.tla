------------------------------ MODULE MCStores ------------------------------
(***************************************************************************)
(* What is kept, in the memory of a process or in a table: the schedule,   *)
(* checkpoints and working memory, the long-term memory, the knowledge     *)
(* graph, conversations and the versions of artifacts.  They share no      *)
(* variable and call nothing of each other, so a behaviour exercises one   *)
(* of them, and their steps need not be interleaved.                       *)
(***************************************************************************)
EXTENDS TaskScheduler, MemoryStore, LongTermMemory, KnowledgeGraph,
        ChatService, ArtifactVersions

VARIABLE subject    \* the component that is exercised

Init ==
    /\ SchedulerInit /\ MemoryInit /\ LongTermInit /\ GraphInit
    /\ ChatInit /\ VersionsInit
    /\ subject \in {"scheduler", "store", "long term", "graph", "chat", "versions"}

\* What a step of each leaves alone.
Scheduled == UNCHANGED schedulerVars
Remembered == UNCHANGED <<memoryVars, longTermVars, graphVars>>
Recorded == UNCHANGED <<chatVars, versionVars>>

Next ==
    /\ UNCHANGED subject
    /\ \/ subject = "scheduler" /\ SchedulerNext /\ Remembered /\ Recorded
       \/ /\ subject = "store" /\ MemoryNext
          /\ Scheduled /\ Recorded /\ UNCHANGED <<longTermVars, graphVars>>
       \/ /\ subject = "long term" /\ LongTermNext
          /\ Scheduled /\ Recorded /\ UNCHANGED <<memoryVars, graphVars>>
       \/ /\ subject = "graph" /\ GraphNext
          /\ Scheduled /\ Recorded /\ UNCHANGED <<memoryVars, longTermVars>>
       \/ /\ subject = "chat" /\ ChatNext
          /\ Scheduled /\ Remembered /\ UNCHANGED versionVars
       \/ /\ subject = "versions" /\ VersionsNext
          /\ Scheduled /\ Remembered /\ UNCHANGED chatVars

allVars ==
    <<subject, schedulerVars, memoryVars, longTermVars, graphVars, chatVars, versionVars>>

Spec == Init /\ [][Next]_allVars

\* Two agents, and a key that begins like the other agent's name.
MCAgentIds == {<<"a">>, <<"b">>}
MCMemoryKeys == {<<"k">>, <<"b", "k">>}

\* What was deprecated in the long-term memory or in the knowledge graph is in
\* no answer, until something else is stored under its id: neither a promotion,
\* a restart nor an old edge brings it back.  (An entity that could not be read when
\* it was archived is archived all the same, and still found.)  And the validator would
\* reject none of the answers on the day they were given.
WithdrawnStaysOut == EntitiesStayOut /\ []NodesStayOut /\ []ValidatorAgrees
=============================================================================
