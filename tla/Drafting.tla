------------------------------ MODULE Drafting ------------------------------
(***************************************************************************)
(* From a manual test case to a draft, and from a draft to sentences:      *)
(* qa_copilot/ingest/drafter.py with what it takes from analyzer.py, and   *)
(* plain/writer.py.  Pure operators; Authoring gives them state.           *)
(*                                                                         *)
(* A case's step is reduced to the pattern of the drafter that matches it, *)
(* the words it quotes and what it expects.  What the analyzer finds in    *)
(* the text that changes no draft (vagueness, data, negations) is left out.*)
(***************************************************************************)
EXTENDS PlainEnglish

CONSTANTS
    Capabilities,   \* what some configured identity can do: broker.list_capabilities
    AliasFor,       \* capability and environment -> the alias broker.select gives, if any
    RiskyWords,     \* analyzer._DESTRUCTIVE
    Misread         \* sentences as they were meant -> what the grammar takes them for

Nothing == [kind |-> "none", says |-> "", status |-> NoStatus]

\* prose: nothing that can be asserted.
Expectation ==
    {Nothing} \cup [kind : {"text", "url", "status", "prose"}, says : STRING,
                    status : Statuses \cup {NoStatus}]

\* credential: a field that holds one is filled.  checks: what a verification verifies.
CaseStep == [kind : {"log in", "navigate", "api", "fill", "credential", "click", "verify", "other"},
             words : Seq(STRING), method : Methods, checks : Expectation, expected : Expectation]

\* aside: the words of its description and preconditions.  implied: the capabilities the wording
\* hints at, those of the actor first.  literal: a credential is written out somewhere in it.
Case == [title : STRING, aside : Seq(STRING), steps : Seq(CaseStep), expects : Seq(Expectation), signedIn : BOOLEAN,
         implied : Seq(STRING), literal : BOOLEAN]

Placeholder == "REPLACE_ME"

\* Whoever a draft may name, besides the placeholder.
Candidates == Capabilities \cup {AliasFor[choice] : choice \in DOMAIN AliasFor}

\* What a sentence says, by the rule it was written for or is read by.
Gist(line) == [rule |-> line.rule, words |-> line.words]

\* The last two: nobody has the placeholder's name, and an alias in capitals or a capability in
\* small letters, its words joined by underscores, is found again under its own name.
ASSUME DraftingAssumption ==
    /\ Capabilities \subseteq STRING
    /\ AliasFor \in [DOMAIN AliasFor -> STRING] /\ DOMAIN AliasFor \subseteq Capabilities \X STRING
    /\ RiskyWords \subseteq STRING
    /\ DOMAIN Misread \subseteq [rule : {"navigate", "click", "type", "check"}, words : Seq(STRING)]
    /\ Misread \in [DOMAIN Misread ->
           [rule : {"navigate", "click", "type", "check", "unknown", "credential"}, words : Seq(STRING)]]
    /\ ActorOf[Placeholder] = Nobody /\ Placeholder \notin CredentialShaped
    /\ \A who \in Candidates : ActorOf[who] = who /\ who \notin CredentialShaped \cup {Nobody}

-----------------------------------------------------------------------------
\* The analysis.

Suggested(case) ==
    LET available == {i \in DOMAIN case.implied : case.implied[i] \in Capabilities}
    IN  IF available = {} THEN "" ELSE case.implied[Min(available)]

SuggestedAlias(case, environment) ==
    LET choice == <<Suggested(case), environment>>
    IN  IF choice \in DOMAIN AliasFor THEN AliasFor[choice] ELSE ""

WordsOf(case) ==
    {case.title} \cup ToSet(case.aside) \cup {case.expects[i].says : i \in DOMAIN case.expects} \cup
    UNION {ToSet(case.steps[i].words) \cup {case.steps[i].checks.says, case.steps[i].expected.says} :
               i \in DOMAIN case.steps}

InferredRisk(case) == IF WordsOf(case) \cap RiskyWords # {} THEN "medium" ELSE "low"

-----------------------------------------------------------------------------
\* The draft.

PlanStep(action, method, who, words, expects) ==
    [action |-> action, method |-> method, destructive |-> Destructive(words), css |-> FALSE,
     expects |-> expects, who |-> who, words |-> words]

Authenticate(case) ==
    PlanStep("authenticate", "none",
             IF Suggested(case) = "" THEN Placeholder ELSE Suggested(case), <<>>, NoStatus)

\* What an expectation becomes: an assertion, or nothing.
AssertionFor(expectation) ==
    IF expectation.kind \in {"none", "prose"} THEN <<>>
    ELSE IF expectation.kind = "status"
         THEN <<PlanStep("assert_status", "none", "", <<>>, expectation.status)>>
         ELSE <<PlanStep("assert", "none", "", <<expectation.says>>, NoStatus)>>

Mapped(case, environment, step) ==
    CASE step.kind = "navigate" -> PlanStep("navigate", "none", "", step.words, NoStatus)
      [] step.kind = "click" -> PlanStep("click", "none", "", step.words, NoStatus)
      [] step.kind = "fill" -> PlanStep("fill", "none", "", step.words, NoStatus)
      [] step.kind = "api" ->
             PlanStep("api_request", step.method, SuggestedAlias(case, environment), step.words, NoStatus)

\* The steps so far, what is left to do by what it is about, the case's steps that gave a
\* step, and whether somebody is signed in.
Untouched == [steps |-> <<>>, todos |-> {}, mapped |-> {}, signedIn |-> FALSE]

SigningIn(case, draft) ==
    [draft EXCEPT !.signedIn = TRUE,
                  !.todos = IF Suggested(case) = "" THEN @ \cup {<<"actor", 0>>} ELSE @]

\* Mutant of WithExpected: an expectation in prose is passed over.
WithExpectedIfAny(draft, i, expected, new) ==
    LET all == new \o AssertionFor(expected)
    IN  [draft EXCEPT !.steps = @ \o all, !.mapped = IF all = <<>> THEN @ ELSE @ \cup {i}]

\* The steps of the i-th step of the case, and its expectation behind them.
WithExpected(draft, i, expected, new) ==
    LET all == new \o AssertionFor(expected)
    IN  [draft EXCEPT !.steps = @ \o all,
                      !.mapped = IF all = <<>> THEN @ ELSE @ \cup {i},
                      !.todos = IF expected.kind = "prose" THEN @ \cup {<<"expectation", i>>} ELSE @]

\* A verification that can be asserted, and a step that is not understood, are taken without
\* their expectation.
MapStep(case, environment, draft, i) ==
    LET step == case.steps[i]
        noted == [draft EXCEPT !.todos = @ \cup {<<"step", i>>}]
    IN  CASE step.kind = "log in" /\ draft.signedIn ->
                 WithExpected([draft EXCEPT !.mapped = @ \cup {i}], i, step.expected, <<>>)
          [] step.kind = "log in" /\ ~draft.signedIn ->
                 WithExpected(SigningIn(case, draft), i, step.expected, <<Authenticate(case)>>)
          [] step.kind \in {"navigate", "api", "fill", "click"} ->
                 WithExpected(noted, i, step.expected, <<Mapped(case, environment, step)>>)
          [] step.kind = "credential" -> WithExpected(noted, i, step.expected, <<>>)
          [] step.kind = "verify" /\ AssertionFor(step.checks) # <<>> ->
                 WithExpected(draft, i, Nothing, AssertionFor(step.checks))
          [] OTHER -> noted

\* A case that speaks of signing in, but not as a step, begins with it.
Started(case) ==
    IF case.signedIn /\ \A i \in DOMAIN case.steps : case.steps[i].kind # "log in"
    THEN [SigningIn(case, Untouched) EXCEPT !.steps = <<Authenticate(case)>>]
    ELSE Untouched

\* What the case expects as a whole.
Concluded(case, draft, i) ==
    [draft EXCEPT !.steps = @ \o AssertionFor(case.expects[i]),
                  !.todos = IF AssertionFor(case.expects[i]) = <<>> THEN @ \cup {<<"result", i>>} ELSE @]

Assertions == {"assert", "assert_status"}

\* dedupe: an assertion that was made is not made again.
Kept(kept, step) ==
    IF step.action \in Assertions /\ step \in ToSet(kept) THEN kept ELSE Append(kept, step)

\* draft_plan: the steps one by one, what is expected of the whole, and dedupe.
MapSteps(case, environment) ==
    FoldLeftDomain(LAMBDA draft, i : MapStep(case, environment, draft, i), Started(case), case.steps)

Conclude(case, draft) ==
    FoldLeftDomain(LAMBDA sofar, i : Concluded(case, sofar, i), draft, case.expects)

Dedupe(steps) == FoldLeft(Kept, <<>>, steps)

Drafted(case, environment) ==
    [Conclude(case, MapSteps(case, environment)) EXCEPT !.steps = Dedupe(@)]

DraftPlan(case, environment) ==
    [name |-> case.title, environment |-> environment, risk |-> InferredRisk(case),
     steps |-> Drafted(case, environment).steps]

-----------------------------------------------------------------------------
\* The writer.

\* step_to_english has no sentence for these.
Unwritable == {"switch_window", "fill_secret"}

SentenceFor(step) ==
    [kind |-> "sentence", rule |-> CHOOSE rule \in DOMAIN ActionOf : ActionOf[rule] = step.action,
     method |-> step.method, expects |-> step.expects, who |-> step.who, words |-> step.words]

SentencesFor(steps) ==
    FlattenSeq([i \in DOMAIN steps |->
                   IF steps[i].action \in Unwritable THEN <<>> ELSE <<SentenceFor(steps[i])>>])

\* A hash sign with nothing behind it is no heading, and no sentence that anybody understands.
HeadingFor(name) ==
    IF name # "" THEN [kind |-> "heading", name |-> name]
    ELSE [kind |-> "sentence", rule |-> "unknown", method |-> "none", expects |-> NoStatus,
          who |-> "", words |-> <<>>]

\* Mutant of Written: the file does not say where it runs.
WrittenBare(p) == <<HeadingFor(p.name)>> \o SentencesFor(p.steps)

\* to_plain_english: a plan's risk has no line.
Written(p) ==
    <<HeadingFor(p.name),
      [kind |-> "header", key |-> "environment", value |-> p.environment]>> \o SentencesFor(p.steps)

\* What is written leaves through the sanitizer.
ScrubLine(line, secrets) ==
    CASE line.kind = "sentence" ->
             [line EXCEPT !.words = ScrubWords(@, secrets), !.who = ScrubText(@, secrets)]
      [] line.kind = "heading" -> [line EXCEPT !.name = ScrubText(@, secrets)]
      [] line.kind = "header" -> [line EXCEPT !.value = ScrubText(@, secrets)]
      [] OTHER -> line

\* How the grammar takes what was written.  A label has no quotes round it ("Click Save for
\* later" is Save in the row of later), a text may look like a credential ("Token
\* configuration"): some sentences are read as others, or not at all.
Taken(line) ==
    IF line.kind = "sentence" /\ Gist(line) \in DOMAIN Misread
    THEN [line EXCEPT !.rule = Misread[Gist(line)].rule, !.words = Misread[Gist(line)].words]
    ELSE line
=============================================================================
