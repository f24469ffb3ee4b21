---------------------------- MODULE MCApiTokens -----------------------------
(***************************************************************************)
(* Instances of ApiTokens for TLC.  The administrator may act everywhere,  *)
(* the viewer in demo only and with a configured token, so that "view" is  *)
(* another identity in another environment; demo has a login, staging has  *)
(* none.                                                                   *)
(***************************************************************************)
EXTENDS ApiTokens, TLC

CONSTANTS r1, r2

Plain(action) == [action |-> action, method |-> "none", destructive |-> FALSE,
                  css |-> FALSE, expects |-> NoStatus, who |-> "", words |-> <<>>]
Request(who, expects) ==
    [Plain("api_request") EXCEPT !.method = "GET", !.expects = expects, !.who = who]
Expect(status) == [Plain("assert_status") EXCEPT !.expects = status]

PlanOf(name, environment, steps) ==
    [name |-> name, environment |-> environment, risk |-> "low", steps |-> steps]

Adjacent == PlanOf("api", "demo", <<Request("admin", NoStatus), Expect(200)>>)
Apart == PlanOf("api", "demo", <<Request("view", 200), Plain("pause"), Expect(200)>>)
Twice == PlanOf("twice", "demo", <<Request("manage", NoStatus), Request("admin", 200)>>)
Elsewhere == PlanOf("else", "staging", <<Request("view", NoStatus), Request("", NoStatus)>>)
Guarded == PlanOf("disable", "demo", <<[Plain("click") EXCEPT !.destructive = TRUE], Plain("switch_window")>>)

TokenPlans == {Adjacent, Apart, Twice, Elsewhere, Guarded}
ReviewedPlans == {Guarded}

Admin == [alias |-> "admin", capabilities |-> {"manage", "view"}, environments |-> {}]
Viewer == [alias |-> "viewer", capabilities |-> {"view"}, environments |-> {"demo"}]
MCIdentities == <<Admin, Viewer>>
MCConfigured == {"viewer"}
WithLogin == {"demo"}

MCEnvironments == {"demo", "staging"}
None == {}
MCStatuses == {200, 401}
TwoRuns == {r1, r2}
OneOfThem == {r1}
=============================================================================
