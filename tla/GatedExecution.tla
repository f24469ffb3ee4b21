--------------------------- MODULE GatedExecution ---------------------------
(***************************************************************************)
(* What the trusted core promises about running plans, with nothing of how *)
(* it does it: people grant and withdraw permission for exact plan         *)
(* contents, a guarded plan begins only while its own content holds a      *)
(* grant, and every execution ends at most once, with one verdict.         *)
(***************************************************************************)
CONSTANTS
    Runs,       \* invocations
    Plans,      \* plan contents
    NoPlan,     \* no content yet
    Permitted,  \* the contents policy allows at all
    Guarded     \* the contents that need a person's grant

VARIABLES
    granted,    \* the contents that hold a grant
    phase,      \* of each invocation
    subject     \* the content each invocation is about

vars == <<granted, phase, subject>>

Endings == {"passed", "failed", "error", "lost"}

Init ==
    /\ granted = {}
    /\ phase = [r \in Runs |-> "idle"]
    /\ subject = [r \in Runs |-> NoPlan]

MayBegin(p) == p \in Permitted /\ (p \in Guarded => p \in granted)

Grant(p) ==
    /\ granted' = granted \cup {p}
    /\ UNCHANGED <<phase, subject>>

Withdraw(p) ==
    /\ granted' = granted \ {p}
    /\ UNCHANGED <<phase, subject>>

Begin(r, p) ==
    /\ phase[r] = "idle"
    /\ MayBegin(p)
    /\ phase' = [phase EXCEPT ![r] = "running"]
    /\ subject' = [subject EXCEPT ![r] = p]
    /\ UNCHANGED granted

Refuse(r, p) ==
    /\ phase[r] = "idle"
    /\ ~MayBegin(p)
    /\ phase' = [phase EXCEPT ![r] = "refused"]
    /\ subject' = [subject EXCEPT ![r] = p]
    /\ UNCHANGED granted

End(r, how) ==
    /\ phase[r] = "running"
    /\ phase' = [phase EXCEPT ![r] = how]
    /\ UNCHANGED <<granted, subject>>

\* A process dies: of its invocations, those still running are lost with it.
Lose(gone) ==
    /\ phase' = [r \in Runs |-> IF r \in gone /\ phase[r] = "running" THEN "lost" ELSE phase[r]]
    /\ UNCHANGED <<granted, subject>>

Next ==
    \/ \E p \in Plans : Grant(p) \/ Withdraw(p)
    \/ \E r \in Runs, p \in Plans : Begin(r, p) \/ Refuse(r, p)
    \/ \E r \in Runs, how \in Endings : End(r, how)
    \/ \E gone \in SUBSET Runs : Lose(gone)

Spec == Init /\ [][Next]_vars
=============================================================================
