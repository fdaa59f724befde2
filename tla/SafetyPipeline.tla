--------------------------- MODULE SafetyPipeline ---------------------------
(***************************************************************************)
(* The gates of safety/: what each makes of the findings in a piece of     *)
(* code, what they come to together, and who has to approve the operation. *)
(*                                                                         *)
(* Which text yields which finding is a matter of regular expressions and  *)
(* syntax trees; a piece of code is what they found in it: for each of the *)
(* two searching gates the number of findings of every severity.  A risk   *)
(* level is its place in _RISK_ORDER.                                      *)
(***************************************************************************)
EXTENDS Naturals

NONE == 0
LOW == 1
MEDIUM == 2
HIGH == 3
CRITICAL == 4

RiskLevel == NONE .. CRITICAL
Severities == LOW .. CRITICAL

\* max_risk
MaxRisk(a, b) == IF a >= b THEN a ELSE b

\* static and patterns: findings of gates 1 and 2; destructive: whether the
\* text has one of the tokens _classify_operation_type looks for.
Code ==
    [language : {"python", "sql", "other"}, blank : BOOLEAN, lines : Nat \ {0},
     static : [Severities -> Nat], patterns : [Severities -> Nat],
     destructive : BOOLEAN]

NoFindings == [s \in Severities |-> 0]

\* Both _build_results: the highest severity of any finding.
Highest(findings) ==
    IF findings[CRITICAL] > 0 THEN CRITICAL
    ELSE IF findings[HIGH] > 0 THEN HIGH
    ELSE IF findings[MEDIUM] > 0 THEN MEDIUM
    ELSE IF findings[LOW] > 0 THEN LOW
    ELSE NONE

Total(findings) ==
    findings[LOW] + findings[MEDIUM] + findings[HIGH] + findings[CRITICAL]

\* StaticAnalyzer.evaluate knows two languages and lets every other pass.
StaticFindings(code) ==
    IF code.blank \/ code.language = "other" THEN NoFindings ELSE code.static

\* PatternMatcher.evaluate
PatternFindings(code) == IF code.blank THEN NoFindings ELSE code.patterns

Gate1(code) == Highest(StaticFindings(code))

Gate2(code) == Highest(PatternFindings(code))

\* SemanticAnalyzer.evaluate: more than one finding to every two lines makes
\* the code HIGH.
Gate3(code) ==
    LET found == Total(StaticFindings(code)) + Total(PatternFindings(code))
        highest == MaxRisk(Gate1(code), Gate2(code))
    IN  IF 2 * found > code.lines /\ highest < HIGH THEN HIGH ELSE highest

\* A gate passes what is below HIGH.
Passes(risk) == risk < HIGH

\* SafetyPipeline.evaluate: all three gates, whatever the first ones say.
Overall(code) == MaxRisk(MaxRisk(Gate1(code), Gate2(code)), Gate3(code))

RequiresApproval(code) == Overall(code) >= HIGH

-----------------------------------------------------------------------------
(**************************** Who approves *********************************)

OperationTypes ==
    {"read_only", "write", "destructive", "schema_change", "permission_change"}

Environments == {"SANDBOX", "PRODUCTION"}

\* _requires_approval, the policy matrix.
PolicyWantsApproval(type, environment) ==
    \/ type \in {"schema_change", "permission_change", "destructive"}
    \/ environment = "PRODUCTION" /\ type = "write"

\* ApprovalRouter.route.  An operation may come without a pipeline result: then
\* its risk counts as NONE.
RouteAction(type, environment, risk) ==
    IF ~ PolicyWantsApproval(type, environment) /\ Passes(risk)
    THEN "AUTO_APPROVE"
    ELSE IF risk = CRITICAL THEN "ESCALATE" ELSE "REQUIRE_APPROVAL"

\* _DEFAULT_APPROVERS
Approvers(risk) ==
    {"team_lead"}
        \cup (IF risk >= HIGH THEN {"security_admin"} ELSE {})
        \cup (IF risk = CRITICAL THEN {"platform_admin"} ELSE {})

\* ApprovalEngine.request_approval_async: the status of the new record.
StatusOfRequest(type, environment, risk) ==
    IF PolicyWantsApproval(type, environment) \/ ~ Passes(risk)
    THEN "PENDING" ELSE "APPROVED"
=============================================================================
