------------------------- MODULE MCExecutionService -------------------------
(***************************************************************************)
(* ExecutionService with interchangeable workers.                          *)
(***************************************************************************)
EXTENDS ExecutionService

WorkerSymmetry == Permutations(Workers)

\* A bound: a call that starts afresh during another fresh one does so when that has come
\* to its approval, only as the second call, and is the last one then.  (A third call
\* overlaps one that has resumed the task or is cleaning up, or has resumed it itself.)
Requesting ==
    {"OPTIMIZED", "APPROVAL_PENDING", "IN_REVIEW", "APPROVED", "DEPLOYING", "DEPLOYED"}

FreshOverlapsLate ==
    /\ overlaps' > overlaps /\ (\A w \in Workers : mode'[w] = "fresh") =>
          calls = 1 /\ \E w \in Workers : at[w] \in Requesting
    /\ overlaps > 0 /\ calls = 2 => calls' = calls

\* Another: when something has interfered, the third call is one that resumes the task.
ThirdResumes ==
    calls = 2 /\ calls' = 3 /\ (~ Quiet' \/ overturned > 0) =>
        \E w \in Workers : mode'[w] = "resumed" /\ run'[w] = 3
=============================================================================
