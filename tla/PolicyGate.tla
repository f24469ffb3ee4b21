----------------------------- MODULE PolicyGate -----------------------------
(***************************************************************************)
(* The deterministic gate between a plan somebody authored and its         *)
(* execution: qa_copilot/policy/engine.py, the parts of the DSL schema it  *)
(* reads, and the unknown-environment check engine.run adds to it.  Pure   *)
(* operators; PlanRuns and SuiteRuns give them state.                      *)
(*                                                                         *)
(* A plan is the content the DSL accepts, with each step reduced to what   *)
(* the gate and the runner tell apart.                                     *)
(***************************************************************************)
EXTENDS Naturals, Sequences

CONSTANTS
    Plans,                  \* the plan contents that may be submitted
    Environments,           \* the names configured in environments.yaml
    BlockedEnvironments,    \* policy.blocked_environments
    AllowedEnvironments,    \* policy.allowed_environments; empty: no restriction
    MaxSteps,               \* policy.max_steps
    ApprovalRequiredRisk,   \* policy.approval_required_risk
    AllowCssSelectors,      \* policy.allow_css_selectors
    Statuses                \* the HTTP statuses an API may answer with

Risks == {"low", "medium", "high"}
RiskOrder == [low |-> 0, medium |-> 1, high |-> 2]

\* Neither can be an HTTP status: no answer yet, and the text switch_window
\* leaves in the slot of the status (see PlanRuns).
NoStatus == 0
TextStatus == 1

Actions == {"authenticate", "navigate", "click", "fill", "fill_secret", "wait_for",
            "switch_window", "pause", "screenshot", "api_request",
            "assert", "assert_status"}

Methods == {"none", "GET", "POST", "PUT", "PATCH", "DELETE"}

\* click also stands for double_click and select, GET for HEAD.
\* destructive: the step's dump contains one of policy.destructive_actions.
\* css: the step's target is a raw CSS selector.
\* expects: expect_status of a request (NoStatus: none), expected of a status assertion.
\* who: the alias or capability it names.  words: the phrase, path, value or text it quotes.
Step == [action : Actions, method : Methods, destructive : BOOLEAN, css : BOOLEAN,
         expects : Statuses \cup {NoStatus}, who : STRING, words : Seq(STRING)]

PlanContent == [name : STRING, environment : STRING, risk : Risks, steps : Seq(Step)]

ASSUME GateAssumption ==
    /\ Plans \subseteq PlanContent
    /\ \A p \in Plans :
           /\ Len(p.steps) >= 1
           /\ \A i \in DOMAIN p.steps :
                  p.steps[i].action = "assert_status" => p.steps[i].expects # NoStatus
    /\ MaxSteps \in Nat
    /\ ApprovalRequiredRisk \in Risks
    /\ AllowCssSelectors \in BOOLEAN
    /\ Statuses \subseteq 100..599

-----------------------------------------------------------------------------

\* assert covers both kinds of assertion here: the runner treats them apart.
InertActions == {"assert", "assert_status", "screenshot", "wait_for", "pause", "authenticate"}

\* The steps that make the runner open a browser (runner._needs_browser).
UiActions == {"authenticate", "navigate", "click", "fill", "fill_secret", "wait_for",
              "switch_window", "screenshot"}

NeedsBrowser(p) ==
    \E i \in DOMAIN p.steps : p.steps[i].action \in UiActions \cup {"assert"}

StepRisk(s) ==
    IF s.action = "api_request" /\ s.method = "DELETE" THEN "high"
    ELSE IF \/ s.action \notin InertActions /\ s.destructive
            \/ s.action = "api_request" /\ s.method \in {"PUT", "PATCH"}
            \/ s.action = "fill_secret"
         THEN "medium"
         ELSE "low"

\* The higher of what the author declares and what the steps imply.
Classify(p) ==
    LET levels == {p.risk} \cup {StepRisk(p.steps[i]) : i \in DOMAIN p.steps}
    IN  CHOOSE level \in levels :
            \A other \in levels : RiskOrder[other] <= RiskOrder[level]

\* Mutant of Fingerprint: the name stands for the plan.
NameFingerprint(p) == p.name

\* A digest of the whole canonical dump: equal only for equal content.
Fingerprint(p) == p

Allowed(p) ==
    /\ p.environment \in Environments
    /\ p.environment \notin BlockedEnvironments
    /\ AllowedEnvironments # {} => p.environment \in AllowedEnvironments
    /\ Len(p.steps) <= MaxSteps
    /\ AllowCssSelectors \/ \A i \in DOMAIN p.steps : ~p.steps[i].css

RequiresApproval(p) == RiskOrder[Classify(p)] >= RiskOrder[ApprovalRequiredRisk]

\* Mutant of CanExecute: the risk the author declares is believed.
CanExecuteDeclared(p, approvals) ==
    /\ Allowed(p)
    /\ Fingerprint(p) \in approvals \/ RiskOrder[p.risk] < RiskOrder[ApprovalRequiredRisk]

\* Decision.can_execute, the approval records read at the moment of the call.
CanExecute(p, approvals) ==
    /\ Allowed(p)
    /\ Fingerprint(p) \in approvals \/ ~RequiresApproval(p)
=============================================================================
