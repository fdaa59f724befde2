--------------------------- MODULE MCGraphExecutor ---------------------------
(***************************************************************************)
(* One run of the graph executor and one other caller of the clients, with *)
(* one notebook between them, and code that is classified differently.      *)
(***************************************************************************)
EXTENDS GraphExecutor

Finds(severity) == [NoFindings EXCEPT ![severity] = 1]

Kind(static, patterns, lines, destructive) ==
    [language |-> "sql", blank |-> FALSE, lines |-> lines, static |-> static,
     patterns |-> patterns, destructive |-> destructive]

MCSettings == {{"warehouse"}, {"cluster"}}

MCCodes ==
    { Kind(NoFindings, NoFindings, 3, FALSE),
      [Kind(NoFindings, NoFindings, 3, FALSE) EXCEPT !.language = "python"],
      Kind(Finds(HIGH), Finds(CRITICAL), 3, TRUE) }
=============================================================================
