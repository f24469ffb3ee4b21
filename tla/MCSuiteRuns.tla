---------------------------- MODULE MCSuiteRuns -----------------------------
(***************************************************************************)
(* Instances of SuiteRuns for TLC: a guarded plan in two contents of one   *)
(* name, and one anybody may run.                                          *)
(***************************************************************************)
EXTENDS SuiteRuns

CONSTANT s1

StepOf(action, destructive) ==
    [action |-> action, method |-> "none", destructive |-> destructive,
     css |-> FALSE, expects |-> NoStatus, who |-> "", words |-> <<>>]

PlanOf(name, steps) == [name |-> name, environment |-> "demo", risk |-> "low", steps |-> steps]

Disable == PlanOf("disable", <<StepOf("click", TRUE)>>)
DisableMore == PlanOf("disable", <<StepOf("click", TRUE), StepOf("click", TRUE)>>)
Look == PlanOf("look", <<StepOf("navigate", FALSE)>>)

MCPlans == {Disable, DisableMore, Look}
MCSlugs == {"disable", "look"}
MCSlugOf == [n \in MCSlugs |-> n]
MCRequests == {[names |-> <<"disable", "look", "disable">>, defined |-> FALSE, stop |-> FALSE],
               [names |-> <<"look", "disable">>, defined |-> TRUE, stop |-> TRUE]}
MCEnvironments == {"demo"}
None == {}
MCStatuses == {200}
OneSuite == {s1}
=============================================================================
