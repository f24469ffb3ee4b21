---------------------------- MODULE MCPlanRuns ------------------------------
(***************************************************************************)
(* Instances of PlanRuns for TLC.  The plans are chosen for what the gate  *)
(* and the runner tell apart: a guarded one in two contents that differ in *)
(* one step, one for a blocked environment, one that declares its risk     *)
(* high, and ones that use the shared status with and without a suspension *)
(* between request and assertion.                                          *)
(***************************************************************************)
EXTENDS PlanRuns, TLC

CONSTANTS r1, r2

Plain(action) == [action |-> action, method |-> "none", destructive |-> FALSE,
                  css |-> FALSE, expects |-> NoStatus, who |-> "", words |-> <<>>]
Request(method, expects) == [Plain("api_request") EXCEPT !.method = method, !.expects = expects]
Expect(status) == [Plain("assert_status") EXCEPT !.expects = status]
Destroy == [Plain("click") EXCEPT !.destructive = TRUE]

PlanOf(name, steps) == [name |-> name, environment |-> "demo", risk |-> "low", steps |-> steps]

Guarded1 == PlanOf("disable", <<Destroy, Plain("switch_window")>>)
Guarded2 == PlanOf("disable", <<Plain("authenticate"), Destroy>>)
Declared == [PlanOf("careful", <<Plain("pause")>>) EXCEPT !.risk = "high"]
Blocked == [PlanOf("prod", <<Plain("navigate")>>) EXCEPT !.environment = "production"]
Adjacent == PlanOf("api", <<Request("GET", NoStatus), Expect(200)>>)
Apart == PlanOf("api", <<Request("GET", 200), Plain("pause"), Expect(200)>>)
NoRequest == PlanOf("api", <<Plain("pause"), Expect(200)>>)
Deletes == PlanOf("api", <<Request("DELETE", NoStatus), Expect(200)>>)

GatePlans == {Guarded1, Guarded2, Declared, Blocked, Deletes}
StatusPlans == {Adjacent, Apart, NoRequest, Guarded1}

MCEnvironments == {"demo", "production"}
MCBlocked == {"production"}
MCAllowed == {}
MCStatuses == {200, 404}
TwoRuns == {r1, r2}
OneOfThem == {r1}
=============================================================================
