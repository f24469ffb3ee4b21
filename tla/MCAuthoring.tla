---------------------------- MODULE MCAuthoring -----------------------------
(***************************************************************************)
(* An instance of Authoring for TLC.  The files: two tests, of which the   *)
(* first has headers that are repeated and needs approval, and the second  *)
(* has a blank heading below another, and quotes the username the first    *)
(* signs in with, and what the sanitizer takes for a credential; one test  *)
(* that needs approval and quotes the username it signs in with, below a   *)
(* misplaced header; and one that is half understood, below another.  One  *)
(* of eight drafts may join them.                                          *)
(***************************************************************************)
EXTENDS Authoring

CONSTANTS c1, c2, server

Say(rule, who, words) ==
    [kind |-> "sentence", rule |-> rule, method |-> "none", expects |-> NoStatus,
     who |-> who, words |-> words]
Named(name) == [kind |-> "heading", name |-> name]
Line(key, value) == [kind |-> "header", key |-> key, value |-> value]
Aside == [kind |-> "comment"]
AsAdmin == Say("log in", "an admin", <<>>)

TwoTests ==
    <<Named("disable"), Line("environment", "demo"), Line("risk", "high"), Line("environment", "staging"),
      Line("risk", "medium"), AsAdmin, Aside, Say("click", "", <<"Disable", "Rae">>),
      Named(""), Line("risk", "high"), Named(""), Line("risk", ""),
      Say("note", "", <<>>), Say("navigate", "", <<"/", "admin", "/users">>),
      Say("check", "", <<"Basic subscription">>)>>
Purge ==
    <<Line("environment", "staging"), Named("purge"), Line("risk", "low"), Line("risk", "high"),
      AsAdmin, Say("click", "", <<"Purge", "admin">>)>>
HalfUnderstood ==
    <<Line("environment", "staging"), Named("look"), Say("navigate", "", <<"/users">>),
      Named("fiddle"), Say("unknown", "", <<>>), Say("log in", "a stranger", <<>>)>>

WrittenTexts == {TwoTests, HalfUnderstood}
WrittenAndPurge == {TwoTests, Purge, HalfUnderstood}

Expect(kind, says, status) == [kind |-> kind, says |-> says, status |-> status]
Prose == Expect("prose", "it works", NoStatus)
Shows == Expect("text", "Orders", NoStatus)
Status(code) == Expect("status", "", code)
Doing(kind, words, checks, expected) ==
    [kind |-> kind, words |-> words, checks |-> checks, expected |-> expected,
     method |-> IF kind = "api" THEN "GET" ELSE "none"]
Manual(title, implied, signedIn, steps, expects) ==
    [title |-> title, aside |-> <<>>, steps |-> steps, expects |-> expects, signedIn |-> signedIn,
     implied |-> implied, literal |-> FALSE]

\* Cases: one with a test id that is risky for the drafter and not for policy, says who is
\* signed in in passing, and has a label that is taken for another and its row; one that does
\* not say who, signs in twice and expects the same twice; one of which nothing can be mapped;
\* one with no title; one with a credential in it; and one with a text that looks like the
\* beginning of one.
CancelOrder ==
    Manual("TC-7: cancel", <<"admin", "manage_users">>, TRUE,
           <<Doing("navigate", <<"/orders">>, Nothing, Shows),
             Doing("click", <<"Cancel", "admin">>, Nothing, Prose),
             Doing("click", <<"Save for later">>, Nothing, Nothing),
             Doing("credential", <<"Card">>, Nothing, Shows),
             Doing("api", <<"/api/orders">>, Nothing, Status(200)),
             Doing("verify", <<>>, Status(200), Prose)>>,
           <<Shows, Prose>>)
Anonymous ==
    Manual("look", <<"admin">>, TRUE,
           <<Doing("log in", <<>>, Nothing, Shows), Doing("log in", <<>>, Nothing, Prose),
             Doing("api", <<"/api/users">>, Nothing, Nothing), Doing("verify", <<>>, Shows, Nothing),
             Doing("fill", <<"Basic subscription">>, Nothing, Prose)>>,
           <<Status(200)>>)
Prosaic ==
    Manual("look", <<"manage_users">>, FALSE,
           <<Doing("other", <<>>, Nothing, Shows), Doing("credential", <<>>, Nothing, Prose),
             Doing("verify", <<>>, Prose, Nothing)>>, <<>>)
Untitled == [Anonymous EXCEPT !.title = "", !.implied = <<"manage_users">>]
Literal == [CancelOrder EXCEPT !.literal = TRUE]
Configure ==
    Manual("configure", <<>>, FALSE,
           <<Doing("navigate", <<"/users">>, Nothing, Expect("text", "Token configuration", NoStatus))>>, <<>>)

MCDrafts == {<<CancelOrder, "staging">>, <<Anonymous, "staging">>, <<Prosaic, "demo">>,
             <<Prosaic, "production">>, <<CancelOrder, "production">>, <<Literal, "staging">>,
             <<Untitled, "staging">>, <<Configure, "demo">>}
MCCapabilities == {"manage_users"}
MCAliasFor == [choice \in MCCapabilities \X {"staging"} |-> "ADMIN_USER"]
MCRiskyWords == {"Disable", "Cancel"}
MCNameOf == [title \in {"TC-7: cancel"} |-> "cancel"]
Meaning(rule, words) == [rule |-> rule, words |-> words]
MCMisread ==
    Meaning("click", <<"Save for later">>) :> Meaning("click", <<"Save", "later">>) @@
    Meaning("check", <<"Token configuration">>) :> Meaning("credential", <<>>)

MCActorOf ==
    "an admin" :> "manage_users" @@ "manage_users" :> "manage_users" @@
    "ADMIN_USER" :> "ADMIN_USER" @@ "a stranger" :> Nobody @@ Placeholder :> Nobody
MCCredentialsOf == [who \in {"manage_users", "ADMIN_USER"} |-> {"admin", "winter"}]
MCDestructiveWords == {"Disable", "Purge"}
MCCredentialShaped == {"Basic subscription"}

\* Every plan a file can become.  TLC evaluates a definition of a constant value once, but
\* what a .cfg puts for a constant at each use: MCPlans only names it.
PlansWritten ==
    UNION {{Scrub(PlansOf(text)[i], s) : i \in DOMAIN PlansOf(text), s \in SUBSET Secrets} :
              text \in {t \in Files(Drafts) : Understands(t)}}
MCPlans == PlansWritten

MCEnvironments == {"demo", "staging"}
None == {}
MCStatuses == {200}
TwoCalls == {c1, c2}
Server == {server}
InServer == [c \in TwoCalls |-> server]
=============================================================================
