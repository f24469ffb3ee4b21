----------------------------- MODULE PlainEnglish ---------------------------
(***************************************************************************)
(* From a plain-English test file to plans, and what the sanitizer makes   *)
(* of a plan: qa_copilot/plain/compiler.py, the rules of plain/grammar.py  *)
(* by what they build, and sanitize/sanitizer.py.  Pure operators;         *)
(* Authoring gives them state.                                             *)
(*                                                                         *)
(* A file is a sequence of lines.  A sentence is reduced to the rule that  *)
(* matches it and to what the rule takes from it; what it quotes is a      *)
(* sequence of tokens, cut where the sanitizer would cut.                  *)
(***************************************************************************)
EXTENDS PolicyGate, SequencesExt

CONSTANTS
    DefaultEnvironment, \* the one of the call, or the first that policy allows
    NameOf,             \* titles with a test id before them, or hashes behind -> the name that is left
    ActorOf,            \* what may be named as an actor -> the alias or capability meant
    DestructiveWords,   \* policy.destructive_actions
    CredentialShaped    \* tokens that sanitizer._PATTERNS takes for credentials

\* _resolve_actor found nobody.
Nobody == "nobody"

\* The rules, gathered by what they build.  unknown: no rule matches.  credential: the
\* line holds what looks like one, or names a field for one.
ActionOf ==
    [rule \in {"log in", "navigate", "click", "type", "wait for", "wait seconds", "switch window",
               "screenshot", "api call", "check", "check status"} |->
        CASE rule = "log in" -> "authenticate"
          [] rule = "type" -> "fill"
          [] rule = "wait for" -> "wait_for"
          [] rule = "wait seconds" -> "pause"
          [] rule = "switch window" -> "switch_window"
          [] rule = "api call" -> "api_request"
          [] rule = "check" -> "assert"
          [] rule = "check status" -> "assert_status"
          [] OTHER -> rule]

Rules == DOMAIN ActionOf \cup {"note", "log in (no actor)", "unknown", "credential"}

Comment == [kind : {"comment"}]
Heading == [kind : {"heading"}, name : STRING]
Header == [kind : {"header"}, key : {"environment", "risk"}, value : STRING]
Sentence == [kind : {"sentence"}, rule : Rules, method : Methods, expects : Statuses \cup {NoStatus},
             who : DOMAIN ActorOf \cup {""}, words : Seq(STRING)]

Lines == Comment \cup Heading \cup Header \cup Sentence

ASSUME EnglishAssumption ==
    /\ DefaultEnvironment \in STRING
    /\ NameOf \in [DOMAIN NameOf -> STRING \ {""}] /\ DOMAIN NameOf \subseteq STRING \ {""}
    /\ DestructiveWords \subseteq STRING
    /\ CredentialShaped \subseteq STRING /\ "" \notin CredentialShaped

-----------------------------------------------------------------------------
\* Splitting the file into tests.

NoHeaders == [environment |-> "", risk |-> ""]

\* The tests found so far, and the one being read.
NothingRead == [tests |-> <<>>, name |-> "", headers |-> NoHeaders, body |-> <<>>]

\* _TEST_ID: "TC-7: sign in" names a test "sign in".
TestName(title) == IF title \in DOMAIN NameOf THEN NameOf[title] ELSE title

\* flush: what has neither a name nor a sentence is no test.
Flush(read) ==
    IF read.body = <<>> /\ read.name = "" THEN read.tests
    ELSE Append(read.tests, [name |-> read.name, headers |-> read.headers, body |-> read.body])

\* Mutant of Read: a test inherits the headers of the test above it.
ReadOn(read, line) ==
    CASE line.kind = "comment" -> read
      [] line.kind = "heading" ->
             [NothingRead EXCEPT !.tests = Flush(read), !.name = TestName(line.name),
                                 !.headers = read.headers]
      [] line.kind = "header" /\ read.body = <<>> ->
             [read EXCEPT !.headers[line.key] = line.value]
      [] OTHER -> [read EXCEPT !.body = Append(@, line)]

\* A heading begins a test and forgets the headers above it, those of no test too.  Below
\* the first sentence of a test a header is read as a sentence.
Read(read, line) ==
    CASE line.kind = "comment" -> read
      [] line.kind = "heading" -> [NothingRead EXCEPT !.tests = Flush(read), !.name = TestName(line.name)]
      [] line.kind = "header" /\ read.body = <<>> ->
             [read EXCEPT !.headers[line.key] = line.value]
      [] OTHER -> [read EXCEPT !.body = Append(@, line)]

SplitTests(text) == Flush(FoldLeft(Read, NothingRead, text))

-----------------------------------------------------------------------------
\* Compiling one test.

Destructive(words) == \E i \in DOMAIN words : words[i] \in DestructiveWords

NamesNobody(line) == line.who # "" /\ ActorOf[line.who] = Nobody

\* No rule takes a header for a sentence.
Understood(line) ==
    /\ line.kind = "sentence"
    /\ line.rule \notin {"unknown", "credential", "log in (no actor)"}
    /\ ~NamesNobody(line)

\* What an understood sentence adds to the plan: a step, or nothing when it is a note.
StepsOf(line) ==
    IF line.rule = "note" THEN <<>>
    ELSE <<[action |-> ActionOf[line.rule], method |-> line.method,
            destructive |-> Destructive(line.words), css |-> FALSE, expects |-> line.expects,
            who |-> IF line.who = "" THEN "" ELSE ActorOf[line.who], words |-> line.words]>>

StepsOfAll(body) == FlattenSeq([i \in DOMAIN body |-> StepsOf(body[i])])

EnvironmentOf(test) ==
    IF test.headers.environment = "" THEN DefaultEnvironment ELSE test.headers.environment

\* CompiledTest.ok: no line, no header and not the whole is a problem.  The schema's bounds
\* on lengths and numbers are left out.
Compiles(test) ==
    /\ Environments # {} => EnvironmentOf(test) \in Environments
    /\ \A i \in DOMAIN test.body : Understood(test.body[i])
    /\ StepsOfAll(test.body) # <<>>
    /\ test.headers.risk \in Risks \cup {""}

PlanFrom(test) ==
    [name |-> IF test.name = "" THEN "Untitled test" ELSE test.name,
     environment |-> EnvironmentOf(test),
     risk |-> IF test.headers.risk = "" THEN "low" ELSE test.headers.risk,
     steps |-> StepsOfAll(test.body)]

\* Mutant of Understands: a file is understood when some test in it is.
UnderstandsSome(text) == \E i \in DOMAIN SplitTests(text) : Compiles(SplitTests(text)[i])

\* CompileResult.ok; an empty file is one test with a problem.
Understands(text) ==
    /\ SplitTests(text) # <<>>
    /\ \A i \in DOMAIN SplitTests(text) : Compiles(SplitTests(text)[i])

\* The plans of a file that is understood.
PlansOf(text) == [i \in DOMAIN SplitTests(text) |-> PlanFrom(SplitTests(text)[i])]

-----------------------------------------------------------------------------
\* The sanitizer.

Redacted == "[REDACTED]"

ScrubText(token, secrets) ==
    IF token \in secrets \cup CredentialShaped THEN Redacted ELSE token

ScrubWords(words, secrets) == [i \in DOMAIN words |-> ScrubText(words[i], secrets)]

\* The names of actions, methods and risks are taken to be nobody's credential.  Words
\* that say what a step does may be among what is redacted.
ScrubStep(step, secrets) ==
    [step EXCEPT !.words = ScrubWords(@, secrets), !.who = ScrubText(@, secrets),
                 !.destructive = Destructive(ScrubWords(step.words, secrets))]

Scrub(p, secrets) ==
    [p EXCEPT !.name = ScrubText(@, secrets), !.environment = ScrubText(@, secrets),
              !.steps = [i \in DOMAIN p.steps |-> ScrubStep(p.steps[i], secrets)]]

\* Everything a plan says.
TokensOf(p) ==
    {p.name, p.environment} \cup
    UNION {{p.steps[i].who} \cup {p.steps[i].words[j] : j \in DOMAIN p.steps[i].words} :
               i \in DOMAIN p.steps}
=============================================================================
