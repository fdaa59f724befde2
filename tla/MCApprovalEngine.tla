-------------------------- MODULE MCApprovalEngine --------------------------
(***************************************************************************)
(* ApprovalEngine with one operation of each kind the policy tells apart.  *)
(***************************************************************************)
EXTENDS ApprovalEngine, TLC

AnyOperation ==
    {[operation_type |-> "write", environment |-> "SANDBOX", flagged |-> FALSE],
     [operation_type |-> "write", environment |-> "PRODUCTION",
      flagged |-> FALSE],
     [operation_type |-> "schema_change", environment |-> "SANDBOX",
      flagged |-> FALSE],
     [operation_type |-> "read_only", environment |-> "SANDBOX",
      flagged |-> TRUE]}

ProductionWrite ==
    {[operation_type |-> "write", environment |-> "PRODUCTION",
      flagged |-> FALSE]}

Symmetry == Permutations(Clients) \cup Permutations(Engines)
=============================================================================
