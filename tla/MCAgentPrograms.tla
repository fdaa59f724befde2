-------------------------- MODULE MCAgentPrograms ---------------------------
(* Two calls: one asks for agents of every type, the other for the developer, *)
(* the only one that goes on without a tracker.                              *)
EXTENDS AgentPrograms, TLC

CONSTANTS c1, c2

MCAgentIds == 1..(MaxPoolSize + Cardinality(Calls))
MCWants == (c1 :> Types) @@ (c2 :> {"developer"})
=============================================================================
