---------------------------- MODULE MCEventStore ----------------------------
(***************************************************************************)
(* EventStore with a few clients.  Only ExecutionService spells out its    *)
(* from_state, at every step.  One such step is enough here: from PLANNING *)
(* a task can be cancelled, so it can be taken out of CANCELLED and put    *)
(* back, which is what the loop guard is overrun with in fewest rows.      *)
(***************************************************************************)
EXTENDS EventStore, TLC

StepOfExecuteTask == {<<"PARSED", "PLANNING">>}

ClientSymmetry == Permutations(Clients)
=============================================================================
