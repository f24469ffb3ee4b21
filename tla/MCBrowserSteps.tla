--------------------------- MODULE MCBrowserSteps ---------------------------
(***************************************************************************)
(* An instance of BrowserSteps for TLC.  The pages are chosen for what the *)
(* resolver tells apart: nothing, one, two, hidden ones before and beyond  *)
(* the cap, a less trusted way that finds more, an iframe.                 *)
(***************************************************************************)
EXTENDS BrowserSteps

Element(fits, visible) == [fits |-> fits, visible |-> visible]
Plain == Element({0, 1, 2}, TRUE)     \* found every way
Worded == Element({2}, TRUE)          \* found by its text alone
Hidden == Element({0, 1, 2}, FALSE)

Pages == {
    <<<<>>>>,
    <<<<Plain>>>>,
    <<<<Worded, Plain>>>>,
    <<<<Plain, Plain>>>>,
    <<<<Hidden, Worded, Worded>>>>,
    <<<<Hidden>>, <<Plain, Plain>>>> }

Phrase(index) == [phrase |-> TRUE, index |-> index]
Precise == [phrase |-> FALSE, index |-> NoIndex]

Say(action, target) == [action |-> action, target |-> target, reaches |-> FALSE, shows |-> FALSE]

\* With a URL to reach, something to see, both, and neither.
Recipes == {[Say("authenticate", Phrase(NoIndex)) EXCEPT !.reaches = url, !.shows = element] :
                url, element \in BOOLEAN}

MCSteps ==
    {Say("click", Phrase(i)) : i \in {NoIndex, 1, 2, LastOne}}
    \cup {Say(a, Phrase(NoIndex)) : a \in {"visible", "not_visible", "wait_for"}}
    \cup {Say("fill", Precise), Say("visible", Precise)}
    \cup {Say(a, Precise) : a \in {"navigate", "new_window", "previous_window"}}
    \cup Recipes

AbsenceSteps == {Say("not_visible", Phrase(NoIndex))}
MCForm == <<Precise, Phrase(NoIndex)>>
=============================================================================
