------------------------------ MODULE MCSetup -------------------------------
(***************************************************************************)
(* Instances of Setup for TLC: forms sent, of four: two applications with  *)
(* an account of the same name, one by the page and one by the launcher, a *)
(* site without sign-in that is called like the first, and an account that *)
(* was configured by hand and has the name that is asked for.              *)
(***************************************************************************)
EXTENDS SetupAssistant

Form(kind, environment, account) ==
    [kind |-> kind, environment |-> environment, account |-> account]

MCForms == {Form("account", "local", "admin"), Form("script", "staging", "admin"),
            Form("public", "local", "none"), Form("fill", "demo", "admin")}
MCGiven == {[name |-> <<"admin">>, environment |-> "demo"]}
\* An allow-list becomes empty, and then allows everything, when a write of it is cut short.
MCWorkspaces == {[allowed |-> {Place("demo")}, rigid |-> {}],
                 [allowed |-> {Place("demo")}, rigid |-> {"identities", "allowed"}]}
MCQuoted == MCGiven
=============================================================================
