---------------------------- MODULE BrowserSteps ----------------------------
(***************************************************************************)
(* The steps of one run inside its browser: PlanRunner._run_step           *)
(* (executor/runner.py) over BrowserSession (executor/browser.py), against *)
(* an application that renders its pages anew, opens windows and closes    *)
(* them whenever it likes.                                                 *)
(*                                                                         *)
(* Every await is a place where the application may do so: between finding *)
(* an element and using it, between one look for a window and the next,    *)
(* between the fields of a sign-in form.                                   *)
(***************************************************************************)
EXTENDS Resolver

CONSTANTS
    Contents,    \* what a page may show: sequences of documents
    Steps,       \* the steps that a plan may have: [action, target, reaches, shows].  Signing in
                 \* carries what the recipe of the environment takes for success: a URL that is
                 \* reached, the target being visible, both, or neither
    Form,        \* the targets of the sign-in form, up to the one that submits it
    MaxSteps,    \* bound on the steps of a run
    MaxWindows,  \* bound on the windows there ever are
    Deadline     \* how long one wait lasts

VARIABLES
    windows,   \* the pages of the browser context, in order of opening: is it open?
    page,      \* BrowserSession.page
    content,   \* what that page shows
    stack,     \* BrowserSession._window_stack
    signedIn,  \* BrowserSession.authenticated_as is set
    step,      \* the step under way, or the last one
    part,      \* which of its parts
    pc,        \* what the part is waiting for
    locator,   \* what resolve returned
    other,     \* the window that is being entered or closed
    clock,     \* time spent in the wait
    done,      \* steps that have passed; MaxSteps when the run is over
    report,    \* how the last step ended
    steady,    \* history: the page shows what it showed when it was resolved
    left       \* history: windows gone back from, and closed

vars == <<windows, page, content, stack, signedIn, step, part, pc, locator, other,
          clock, done, report, steady, left>>

stepVars == <<signedIn, step, part, pc, locator, other, clock, done, report>>
windowVars == <<windows, page, content, stack, other, left>>
awaitVars == <<locator, clock, steady>>

ElementActions == {"click", "double_click", "fill", "fill_secret", "select"}
WindowActions == {"new_window", "previous_window"}
Actions == ElementActions \cup WindowActions
           \cup {"visible", "not_visible", "wait_for", "navigate", "authenticate"}

ASSUME BrowserAssumption ==
    /\ MaxSteps \in Nat /\ MaxWindows \in Nat \ {0} /\ Deadline \in Nat
    /\ Contents \subseteq Seq(Seq(Elements)) \ {<<>>}
    /\ Steps # {}
    /\ Steps \subseteq [action : Actions, target : Targets, reaches : BOOLEAN, shows : BOOLEAN]
    /\ Form \in Seq(Targets) \ {<<>>}

\* The parts of a step: act on an element, see whether one is visible, wait for one, load
\* a page, look for a new window, go back, wait for a URL.  Signing in loads the form, acts on
\* every field, and looks for what its recipe names: a sign-in that names nothing is believed
\* when the form has been sent.
Do(verb, what) == [verb |-> verb, target |-> what]
Confirm(s) ==
    (IF s.reaches THEN <<Do("reach", s.target)>> ELSE <<>>)
        \o (IF s.shows THEN <<Do("see", s.target)>> ELSE <<>>)
Parts(s) ==
    CASE s.action = "authenticate" ->
            <<Do("load", s.target)>> \o [i \in 1..Len(Form) |-> Do("act", Form[i])] \o Confirm(s)
      [] s.action \in ElementActions -> <<Do("act", s.target)>>
      [] s.action \in {"visible", "not_visible"} -> <<Do("see", s.target)>>
      [] s.action = "wait_for" -> <<Do("wait", s.target)>>
      [] s.action = "navigate" -> <<Do("load", s.target)>>
      [] s.action = "new_window" -> <<Do("look", s.target)>>
      [] s.action = "previous_window" -> <<Do("back", s.target)>>

Current == Parts(step)[part]

\* What can be found: nothing, in a window that was closed.
Showing == IF windows[page] THEN content ELSE <<<<>>>>

\* What the runner and the coroutine of the step keep.
ControlOK ==
    /\ step \in Steps /\ part \in 1..Len(Parts(step))
    /\ pc \in {"ready", "resolving", "sleeping", "acting", "loading", "looking",
               "entering", "leaving", "closing", "reaching"}
    /\ pc = "acting" => locator.kind # "not_found"
    /\ clock \in 0..Deadline
    /\ done \in 0..MaxSteps
    /\ pc # "ready" => done < MaxSteps
    /\ report \in {"none", "passed", "failed", "error"}
    /\ signedIn \in BOOLEAN /\ steady \in BOOLEAN

TypeOK ==
    /\ ControlOK
    /\ windows \in Seq(BOOLEAN) /\ Len(windows) \in 1..MaxWindows
    /\ page \in 1..Len(windows) /\ other \in 1..Len(windows)
    /\ content \in Contents
    /\ stack \in Seq(1..Len(windows)) /\ left \subseteq 1..Len(windows)

Init ==
    /\ windows = <<TRUE>> /\ page = 1 /\ other = 1 /\ stack = <<>> /\ left = {}
    /\ content \in Contents
    /\ step = (CHOOSE s \in Steps : TRUE) /\ part = 1 /\ pc = "ready"
    /\ locator = NotFound /\ clock = 0
    /\ done = 0 /\ report = "none"
    /\ signedIn = FALSE /\ steady = FALSE

-----------------------------------------------------------------------------
\* The application.

Render(c) ==
    /\ windows[page]
    /\ content' = c /\ steady' = FALSE
    /\ UNCHANGED <<stepVars, windows, page, stack, left>>

OpenWindow ==
    /\ Len(windows) < MaxWindows
    /\ windows' = Append(windows, TRUE)
    /\ UNCHANGED <<stepVars, page, content, stack, steady, left>>

\* A page may close a window that a script opened.
CloseWindow(w) ==
    /\ w # 1 /\ windows[w]
    /\ windows' = [windows EXCEPT ![w] = FALSE]
    /\ UNCHANGED <<stepVars, page, content, stack, steady, left>>

-----------------------------------------------------------------------------
\* How a part begins, and how it ends.

Enters(verb) ==
    CASE verb \in {"act", "see", "wait"} -> "resolving"
      [] verb = "load" -> "loading"
      [] verb = "look" -> "looking"
      [] verb = "back" -> "leaving"
      [] verb = "reach" -> "reaching"

Begin(s) ==
    /\ pc = "ready" /\ done < MaxSteps
    /\ step' = s /\ part' = 1
    /\ pc' = Enters(Parts(s)[1].verb)
    /\ UNCHANGED <<windowVars, awaitVars, signedIn, done, report>>

\* What a part has found out is gone when it is over.
Forget == locator' = NotFound /\ clock' = 0 /\ steady' = FALSE

\* The step ends, and with its first failure the run.
End(status) ==
    /\ pc' = "ready" /\ report' = status
    /\ done' = IF status = "passed" THEN done + 1 ELSE MaxSteps
    /\ Forget
    /\ UNCHANGED <<step, part>>

\* The part is over: the next one, or the step has passed.
Continue ==
    IF part < Len(Parts(step))
      THEN /\ part' = part + 1
           /\ pc' = Enters(Parts(step)[part + 1].verb)
           /\ Forget
           /\ UNCHANGED <<step, done, report>>
      ELSE End("passed")

\* The session is signed in when the last part of signing in is over.
Believe ==
    signedIn' = (signedIn \/ (step.action = "authenticate" /\ part = Len(Parts(step))))

\* What a step makes of an element that is visible, or that is not.
Judge(visible) ==
    IF step.action = "not_visible"
      THEN End(IF visible THEN "failed" ELSE "passed")
      ELSE IF visible THEN Continue ELSE End("failed")

-----------------------------------------------------------------------------
\* Parts that need an element.

Sleep ==
    /\ pc' = "sleeping" /\ locator' = NotFound /\ steady' = FALSE
    /\ UNCHANGED <<step, part, clock, done, report>>

ResolveNow == Resolve(Showing, Current.target)

\* Mutant of Resolved: whatever resolve returned is used.
ResolvedAnyway ==
    /\ pc = "resolving"
    /\ locator' = ResolveNow /\ steady' = TRUE
    /\ pc' = "acting"
    /\ UNCHANGED <<windowVars, signedIn, step, part, clock, done, report>>

Resolved ==
    /\ pc = "resolving" /\ ResolveNow.kind = "locator"
    /\ locator' = ResolveNow /\ steady' = TRUE
    /\ pc' = "acting"
    /\ UNCHANGED <<windowVars, signedIn, step, part, clock, done, report>>

\* The resolver's explanation is the failure of the step; for a visibility assertion it
\* is one of three answers, whether nothing matched or too much.
Unresolved ==
    /\ pc = "resolving" /\ ResolveNow.kind # "locator"
    /\ \/ Current.verb = "act" /\ End("failed")
       \/ Current.verb = "see" /\ Judge(FALSE)
    /\ UNCHANGED <<windowVars, signedIn>>

\* Mutant of KeepWaiting: the page is resolved once, however long the wait.
WaitOnce ==
    /\ pc = "resolving" /\ ResolveNow.kind # "locator" /\ Current.verb = "wait"
    /\ End("failed")
    /\ UNCHANGED <<windowVars, signedIn>>

\* Mutant of KeepWaiting: the deadline is not looked at.
WaitForEver ==
    /\ pc = "resolving" /\ ResolveNow.kind # "locator" /\ Current.verb = "wait"
    /\ Sleep
    /\ UNCHANGED <<windowVars, signedIn>>

\* wait_for tries again until its deadline, and then lets the explanation out.
KeepWaiting ==
    /\ pc = "resolving" /\ ResolveNow.kind # "locator" /\ Current.verb = "wait"
    /\ IF clock >= Deadline THEN End("failed") ELSE Sleep
    /\ UNCHANGED <<windowVars, signedIn>>

\* What the locator finds now, if it can be used.
Usable == Found(Showing, locator) \cap Visible(Showing, 0..Ways)

Act ==
    /\ pc = "acting" /\ Current.verb = "act" /\ Usable # {}
    /\ Continue /\ Believe
    /\ UNCHANGED windowVars

See ==
    /\ pc = "acting" /\ Current.verb = "see" /\ Usable # {}
    /\ Judge(TRUE) /\ Believe
    /\ UNCHANGED windowVars

WaitSatisfied ==
    /\ pc = "acting" /\ Current.verb = "wait" /\ Usable # {}
    /\ End("passed")
    /\ UNCHANGED <<windowVars, signedIn>>

\* Mutant of GiveUp: what was found counts as seen.
GiveUpSeen ==
    /\ pc = "acting" /\ Usable = {} /\ (clock >= Deadline \/ ~windows[page])
    /\ \/ Current.verb = "act" /\ End("error")
       \/ Current.verb = "see" /\ Judge(TRUE)
       \/ Current.verb = "wait" /\ IF clock >= Deadline THEN End("error") ELSE Sleep
    /\ UNCHANGED <<windowVars, signedIn>>

\* The element did not become usable in time, or the window is gone: an error, except for
\* an assertion, to which it is "hidden", and for wait_for, which resolves once more.
GiveUp ==
    /\ pc = "acting" /\ Usable = {} /\ (clock >= Deadline \/ ~windows[page])
    /\ \/ Current.verb = "act" /\ End("error")
       \/ Current.verb = "see" /\ Judge(FALSE)
       \/ Current.verb = "wait" /\ IF clock >= Deadline THEN End("error") ELSE Sleep
    /\ UNCHANGED <<windowVars, signedIn>>

\* Time passes while a part polls.
Tick ==
    /\ pc \in {"acting", "sleeping", "looking", "reaching"} /\ clock < Deadline
    /\ clock' = clock + 1
    /\ pc' = IF pc = "sleeping" THEN "resolving" ELSE pc
    /\ UNCHANGED <<windowVars, signedIn, step, part, locator, steady, done, report>>

-----------------------------------------------------------------------------
\* Parts that change the page.

Loaded(c) ==
    /\ pc = "loading" /\ windows[page]
    /\ content' = c
    /\ Continue
    /\ UNCHANGED <<windows, page, stack, other, left, signedIn>>

LoadFails ==
    /\ pc = "loading"
    /\ End("error")
    /\ UNCHANGED <<windowVars, signedIn>>

\* The application is at the URL that signing in leads to, sooner or later, or not.
Reached ==
    /\ pc = "reaching" /\ windows[page]
    /\ Continue /\ Believe
    /\ UNCHANGED windowVars

NotReached ==
    /\ pc = "reaching" /\ (clock >= Deadline \/ ~windows[page])
    /\ End("failed")
    /\ UNCHANGED <<windowVars, signedIn>>

\* Mutant of Fresh: a window that is waited for behind the present one counts as new.
FreshAgain == {w \in 1..Len(windows) : windows[w] /\ w # page}

\* The open windows that the session is not, and has not been, working in.
Fresh == {w \in 1..Len(windows) : windows[w] /\ w # page /\ w \notin Range(stack)}

\* The latest one; entering it awaits its content.
WindowFound ==
    /\ pc = "looking"
    /\ \E w \in Fresh : other' = w /\ \A v \in Fresh : v <= w
    /\ pc' = "entering"
    /\ UNCHANGED <<windows, page, content, stack, left, awaitVars, signedIn, step, part,
                   done, report>>

\* Nothing opened in time, which is not a failure.
NoWindow ==
    /\ pc = "looking" /\ Fresh = {} /\ clock >= Deadline
    /\ End("passed")
    /\ UNCHANGED <<windowVars, signedIn>>

\* The window may have closed meanwhile; the session is in it all the same.
Enter(c) ==
    /\ pc = "entering"
    /\ stack' = Append(stack, page)
    /\ page' = other /\ content' = c
    /\ Continue
    /\ UNCHANGED <<windows, other, left, signedIn>>

NothingEarlier ==
    /\ pc = "leaving" /\ stack = <<>>
    /\ End("passed")
    /\ UNCHANGED <<windowVars, signedIn>>

\* Back to the page underneath, open or not; closing the other one is awaited.
GoBack(c) ==
    /\ pc = "leaving" /\ stack # <<>>
    /\ other' = page
    /\ page' = Last(stack) /\ stack' = Front(stack)
    /\ content' = c
    /\ pc' = "closing"
    /\ UNCHANGED <<windows, left, awaitVars, signedIn, step, part, done, report>>

\* Mutant of Closed: the window that was left stays open.
ClosedLater ==
    /\ pc = "closing"
    /\ left' = left \cup {other}
    /\ Continue
    /\ UNCHANGED <<windows, page, content, stack, other, signedIn>>

Closed ==
    /\ pc = "closing"
    /\ windows' = [windows EXCEPT ![other] = FALSE]
    /\ left' = left \cup {other}
    /\ Continue
    /\ UNCHANGED <<page, content, stack, other, signedIn>>

\* A close that fails is passed over in silence.
CloseFails ==
    /\ pc = "closing"
    /\ Continue
    /\ UNCHANGED <<windowVars, signedIn>>

-----------------------------------------------------------------------------

Application ==
    \/ OpenWindow
    \/ \E c \in Contents : Render(c)
    \/ \E w \in 1..Len(windows) : CloseWindow(w)

Session ==
    \/ Resolved \/ Unresolved \/ KeepWaiting \/ Act \/ See \/ WaitSatisfied \/ GiveUp \/ Tick
    \/ LoadFails \/ Reached \/ NotReached \/ WindowFound \/ NoWindow \/ NothingEarlier \/ Closed \/ CloseFails
    \/ \E c \in Contents : Loaded(c) \/ Enter(c) \/ GoBack(c)

RunOver == pc = "ready" /\ done = MaxSteps /\ UNCHANGED vars

Next == Application \/ Session \/ (\E s \in Steps : Begin(s)) \/ RunOver

Spec == Init /\ [][Next]_vars

\* Every await of a step has a timeout or is answered by the browser, so the coroutine of
\* the step goes on; what the application does is up to it.
FairSpec == Spec /\ WF_vars(Session)

-----------------------------------------------------------------------------
\* The session works in one window at a time and comes back the way it went: the windows
\* of the stack are distinct, the first one is at the bottom, and the present one is not
\* among them (_follow_popup and back_to_opener).
Path == Append(stack, page)
WindowsNest ==
    /\ Path[1] = 1
    /\ \A i, j \in 1..Len(Path) : Path[i] = Path[j] => i = j

\* A window that was gone back from and closed is never worked in again: the search for a
\* new window does not take it for one.
LeftForGood == left \cap Range(Path) = {}

\* TypeOK, WindowsNest and LeftForGood with what they need to be inductive: a window that
\* is being entered is none of the path and none that was left, one that is being closed is
\* off the path, and the ones that were left are closed.
IndInv ==
    /\ TypeOK /\ WindowsNest /\ LeftForGood
    /\ pc = "entering" => other \notin left \cup Range(Path)
    /\ pc = "closing" => other \notin Range(Path)
    /\ \A w \in left : ~windows[w]

\* Whatever the application renders between resolve and the act, the element acted on is
\* visible and one that the target fits; and if the page still is what resolve saw, it is
\* the very one that the phrase names ("never silently pick"), "last" excepted.
ActsOnTheOneNamed ==
    [][Act => /\ Usable \subseteq Fitting(Showing, Current.target)
              /\ steady /\ Current.target.phrase /\ Current.target.index # LastOne
                    => Usable \subseteq Named(Showing, Current.target)]_vars

Ends == pc # "ready" /\ pc' = "ready"

\* "Visible", "wait for" and, if its recipe names something to be seen, a sign-in are believed
\* only if something that the target fits is visible at that moment: with the browser changing
\* the page between every two looks, and a URL that may have to be reached before.
SeenIsThere ==
    [][\/ Ends /\ report' = "passed" /\ step.action \in {"visible", "wait_for"}
       \/ signedIn' # signedIn /\ step.shows
       => Fitting(Showing, Current.target) # {}]_vars

\* A wait, for an element or for a window, comes to nothing only when its time is up: the
\* element is usually not there yet, "that is the whole reason someone wrote a wait".
WaitsAreSatOut ==
    [][Ends /\ \/ step.action = "wait_for" /\ report' # "passed"
               \/ step.action = "new_window" /\ page' = page
       => clock >= Deadline]_vars

\* Every step ends, whatever the application does in the meantime.
EveryStepEnds == (pc # "ready") ~> (pc = "ready")

\* "Should not be on the page" is believed only if nothing that the target fits is there.
\* Does not hold: a phrase that is ambiguous, because two such things are there, counts as
\* missing.
AbsentIsAbsent ==
    [][Ends /\ report' = "passed" /\ step.action = "not_visible"
       => Fitting(Showing, Current.target) = {}]_vars
=============================================================================
