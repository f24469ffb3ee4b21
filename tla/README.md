# QA Copilot: specifications

QA Copilot executes test plans against web applications. A plan is a list of
declarative steps; a policy gate decides whether it may run, a person approves the
exact content that needs approval, and the engine runs it with a browser and an API
client, reporting what it saw. It is reached by an MCP host over stdio (one server
process, one event loop, tool calls that interleave) and by a command line.

This directory holds TLA+ modules that model the parts of the program where orders,
crashes and shared state matter, configurations that check them with TLC, and proofs
that TLAPS checks. `PROJECT.json` maps each definition to the source lines it stands for.

## Inventory

Paths are relative to `src/`; `qc/` stands for `qa_copilot/`.

| Component | State it keeps | Operations | Talks to |
|---|---|---|---|
| Policy gate (`qc/policy/engine.py`, `qc/dsl/schema.py`) | none of its own; reads approvals and settings | `classify`, `fingerprint`, `evaluate` | approvals, engine |
| Approvals (`ApprovalStore` in `qc/policy/engine.py`) | one file per approval, named after the fingerprint (32 hexadecimal digits of the digest) alone | `approve`, `revoke`, `is_approved` | command line writes, the server reads |
| Engine and runner (`qc/engine.py`, `qc/executor/runner.py`) | one `PlanRunner` for the whole server: `_last_api_status`, `_session` | `run`, `run_suite`, `run_plain` | browser, API client, broker, audit |
| Plan library (`qc/library.py`) | `plans/*.yaml`, `suites.yaml` | `save`, `load`, `list`, `resolve_suite` | engine |
| Browser session (`qc/executor/browser.py`) | the page, the stack of windows behind it, who signed in, fields that hold secrets, the last console messages | one method per kind of step, `login`, `switch_to_new_window`, `back_to_opener`, `screenshot`, `snapshot`, `close` | runner, resolver |
| Element resolution (`qc/executor/resolver.py`) | none | a phrase becomes a locator, or an explanation | browser |
| API executor (`qc/executor/api.py`) | token cache by environment and identity | `request`, `_token` | broker, application |
| Identity broker, secrets, configuration (`qc/identity`, `qc/secrets`, `qc/config.py`) | read-only configuration; process environment | `resolve`, `get` | everyone |
| Audit log (`qc/audit/log.py`) | `audit.jsonl`, appended under a lock of the process | `write`, `tail` | engine, runner |
| Sanitizer (`qc/sanitize`) | the secret values the process has resolved | `register`, `scrub` | secrets, engine, MCP server |
| Ingestion (`qc/ingest`) | none; files of test cases are read | parse, analyze, draft a plan | engine, broker, plain English |
| Plain English (`qc/plain`) | phrase book | compile sentences to a plan, write a plan as sentences | engine |
| Setup page and wizard (`qc/setup`) | `_active` page, one status per page; `environments.yaml`, `identities.yaml`, `.env` | `request_setup`, `setup_status`, submissions, `append_under_key`, `append_secrets` | MCP server, browser of the user |
| MCP server (`qc/mcp_server.py`), command line (`qc/cli.py`) | the engine of the process | tools; `approve`, `revoke`, `run` | host, engine |
| Launchers (`packaging/launcher/*`: sh, cmd, PowerShell; `packaging/mcpb/bootstrap/provision.py`) | `~/.qa-copilot`: lock, virtual environment, stamps, configuration, markers | provision, then exec the server | host, other launches |
| Reports, credential guard, demo application, build scripts | none | text in, text out | |

What is hard in it:

* **Tool calls interleave at every `await`**, and share one `PlanRunner` and the approvals
  on disk, which people change meanwhile. Correct: no plan runs that the gate refused, the
  gate is about the exact content, and a run's verdict is about that run only.
* **Steps fail in many ways**: resolution, timeout, assertion, the screenshot of the
  failure, the close. Correct: every browser is closed, the report says what happened.
* **The host stops the process whenever it likes.** Correct: the audit file stays readable
  as a story, and nothing half done is taken for done.
* **The page moves under the steps.** An element is found and then used, a wait resolves again
  and again, windows open and close. Correct: what is acted on is what the words name, an
  assertion is believed only if it is true, the session finds its way back, every wait ends.
* **A suite decides about each plan long after it began.** Correct: each plan passes the
  gate with the content that runs; missing, blocked and failed plans all spoil the verdict.
* **Launches share a workspace**: a lock of `mkdir`, an age, a patience, kills between any
  two commands, several versions. Correct: one provisions at a time, markers are true, and
  nobody waits for ever.
* **Setup writes three files one after the other** from a threading server, inside the
  process that is to use them and that loaded them once. Correct: no entry is lost, a form is
  refused before anything is written, the page answers for its own submission, and what it says
  is in place can be used.
* **Tokens are shared by all calls** and a login is awaited. Correct: a request carries the
  token of the identity its step means, whatever other calls store meanwhile.

The complete list, each at its line, is in `PROJECT.json` under `hazards`.

## The modules

| Module | Models | Kind |
|---|---|---|
| `PolicyGate` | plans, risk, fingerprint, `evaluate`, `can_execute` | operators |
| `GatedExecution` | what the gate promises: only contents that were executable when they were started are executing | abstract specification |
| `PlanRuns` | concurrent `run_test_plan` calls in one server | state machine, implements `GatedExecution` |
| `PlanRunsProofs` | theorems about `PlanRuns` | proofs |
| `ApiTokens` | the token cache and the logins of requests, inside the runs of `PlanRuns` | state machine, extends and implements `PlanRuns` |
| `ApiTokensProofs` | theorems about `ApiTokens` | proofs |
| `SuiteRuns` | `run_suite` with a library that is written meanwhile | state machine, implements `GatedExecution` |
| `SuiteRunsProofs` | theorems about `SuiteRuns` | proofs |
| `Launcher` | launches of the sh launcher sharing a workspace | state machine |
| `LauncherProofs` | theorems about both launchers | proofs |
| `LauncherCmd` | launches of the batch file on the same state, on a machine that has either | state machine, extends `Launcher` |
| `Resolver` | from a target to a locator, and from a locator to an element | operators |
| `BrowserSteps` | the steps of one run in its browser, against an application that changes | state machine |
| `BrowserStepsProofs` | theorems about `BrowserSteps` | proofs |
| `PlainEnglish` | from a file of sentences to plans; what the sanitizer makes of a plan | operators |
| `Drafting` | from a manual test case to a draft plan, and from a plan to sentences | operators |
| `Authoring` | `run_plain` calls and drafts, their processes and what these must redact | state machine, implements `GatedExecution` |
| `AuthoringLemmas` | what the operators of `PlainEnglish` and `Drafting` return, for files and cases of any length | proofs |
| `AuthoringProofs` | theorems about `Authoring` | proofs |
| `Setup` | submissions of the setup page and of the launcher's script, and what they write | state machine |
| `SetupAssistant` | those, beside the process that serves the page and uses what it writes | state machine, extends `Setup` |
| `SetupProofs` | theorems about both | proofs |
| `MCPlanRuns`, `MCApiTokens`, `MCSuiteRuns`, `MCLauncher`, `MCLauncherCmd`, `MCBrowserSteps`, `MCSetup`, `MCAuthoring` | instances for TLC | |

### PolicyGate and GatedExecution

A plan's content is a record of what the gate tells apart: name, environment, declared
risk, steps. A step has a kind and the few fields the gate or the runner reads. Texts,
selectors and URLs are left out. `classify` is the maximum over steps, `fingerprint` is
the content itself, because the digest covers every field: two contents have one
fingerprint exactly if they are equal (collisions of its 32 hexadecimal digits are not modelled).
The declared risk is no lower bound of trust: the computed one decides.

`GatedExecution` has the approvals and the set of what executes; its one interesting
action starts a content that is `CanExecute` with the approvals of that moment. What it
does not promise is that a withdrawal stops a plan that has begun; neither does the code.
`Lose` is a process that dies with whatever it was running.

### PlanRuns

One call is one `r \in Runs`. An action is what the event loop does between two awaits,
so whole handlers are atomic and interleaving happens where the code awaits: opening the
browser, each step, the screenshot, the close. Per call: `pc`, the plan, the results, the
verdict, the browser. Shared: the approvals, the granted contents, `lastApiStatus` (the one
`PlanRunner`'s) and `audit`, the file every call of every server process appends to. Its lines
name the plan and the process, as `AuditLog.write` does, and not the call: `server` is the
number of the process there is (`ServerDies` begins the next), and `process` remembers at which
one a call arrived.
(`Step` also has who it names and the words it quotes; only `Authoring` gives them values.)
`Approve` and `Revoke` are the command line in another process. `ServerDies` ends
everything that runs. `Record` is the single place where a step's outcome is written, with
the early exit on failure. The mapping to `GatedExecution` takes the calls between
`Start` and `Closed` as those that execute.

### ApiTokens

What `PlanRuns` has as one awaited request is here what `executor/api.py` does in it. A
request as somebody needs the token of a key (environment and alias): the one in the cache,
the configured one, or the one a login fetches. `leg` says what the call waits for, and
the handler is cut where it awaits: `LogIn`, the application's `Issue`, `Store` (the call is
resumed and writes over whatever another call has stored), the answer. `Select` is the
broker's choice of an identity for a capability: the one with the fewest capabilities, the
first among equals. `SessionEnds` is the application's, and nothing tells the cache: from
then on the only answer is `Unauthorized`, for the life of the process. Everything else a
call does is `PlanRuns`', unchanged; `TokensImplementCore` says that `PlanRuns`' theorems
therefore hold here. URL, headers and body are left out.

### SuiteRuns

A suite is a sequence of plan names, each resolved, loaded, gated and run when its turn
comes. The library's files are written in two steps (`write_text` truncates first), so a
reader may see a broken file, or a writer may end in between. An execution is one step
here with any outcome: `PlanRuns` has the detail.

### Launcher

One launch is one `l \in Launches`; an action is one command of the script that reads
or writes shared state. The lock is the launch that made the directory; the age and the
patience count seconds of the waiting loop (`Tick`). `Look` and `Clear` are separate, as
`find` and `rmdir` are. An installation rewrites the package in place, so it passes
through `Torn`. `Die` is every `die` and `set -e`; `Kill` can come anywhere; `Signal`
runs the trap, which releases the lock and lets the script go on, as a POSIX shell does.

### LauncherCmd

The batch file on the variables of `Launcher`, which it extends: what the two do alike
(`SharedStage`) is taken over, the rest is its own. It decides before it touches the lock
whether there is anything to set up (`CmdReady`, `CmdNeedsSetup`), and `installed` is the stamp
it read then: `CmdCompare` decides by it after the wait. There is no age; when its tries are
over it removes the lock and goes on, whether its `md` succeeds or not (`CmdTake`). There are
no traps: a launch is killed or reaches one of its exits, each of which calls `:unlock`. A
failed `xcopy` is not looked at, and the browser's stamp is written when the download starts.
`windows` is chosen once, so one specification (`MachineSpec`) is a machine with either
launcher, and its properties are the same.

### Resolver and BrowserSteps

An element is which ways of looking find it and whether it is visible; a document is a
sequence of elements, a page its documents (the main one, then iframes). `Resolve` follows
the code: the first way that sees anything decides, an ordinal picks among what it sees,
more than one without an ordinal is ambiguous, and iframes are searched only for what was
not found. It returns a locator (document, way, number), which is looked up anew when it is
used, as Playwright does: `Located` and `Found`.

`BrowserSteps` runs one plan's steps over it. A step is a sequence of parts (act, see, wait,
load, look for a window, go back, wait for a URL); signing in is the longest, one part for each field
and then what the recipe of the environment takes for success (`Confirm`): a URL, an element, both, or
neither. Each action is what happens between two awaits, and between any two of them the application may
`Render` the page, `OpenWindow` or `CloseWindow`. Finding (`Resolved`) and using (`Act`, `See`,
`WaitSatisfied`, or `GiveUp` when time is up) are separate. Only the content of the current
page is state: another page may show anything when it is entered or returned to. Resolving
one target is one step, although it awaits once per candidate. Left out: `within`, the
masks of screenshots, snapshots, console messages, URLs but for a sign-in's (which is reached or is not), and the detail that
a `failure_target` adds to a sign-in that has failed.

### Setup

One submission is one thread `s`, numbered in the order of arrival; an action is what a
thread does between two accesses to a file or to the page's status. `Order` is the order of
the writes of each kind of form; `Read`, `Open` and `Fill` are one `append_*` of
`setup/writer.py` each time, `write_text` being two steps because it empties the file
first. A file is a set of entries; that it may be laid out so that an entry appended to it would
not be under its key (`writer.py:63`), or its allow-list not be in brackets (line 134), is
`rigid`, chosen with the workspace: the first refuses the form, the second is passed over in
silence. `torn` is history: who had been sent when a write of a file was cut in two. The wizard's checks (`CheckEnvironment`, `CheckName`) come before `SignIn`, the
writers' own (`Refused`) after. `Raise` is the exception that only `do_POST` catches.
`ServerStops` is the host. `Overlap` lets a second form (the page is opened in a new tab
each time) be sent while one is handled; the passing run does without. `packaging/mcpb/bootstrap/
provision.py` is a form of its own kind (`script`): the wizard's call without a page, from
the launcher, before there is a server; it leaves its marker or an exit code and no status.

`SetupAssistant` puts these beside the process they are for. `known` is the configuration it
loaded at its first tool call, `environ` the secrets in its environment, as they were typed or as
they come back from `.env`, which is written raw and read without the blanks and quotes at either
end (`Quoted` are the accounts for which that makes a difference): `Loads` sets both,
`Render` (the page is shown, which asks what is pending and so reads `.env`) and `Export` (a
filled account) add to the second. `Settle` is the end of a form in the process itself,
`Started` the end of the script and the start of the server behind it, `Restart` the host. So a
form may be finished and its account still be unknown: an account that is new is used from
the next start on, and one that is filled must work at once.

### PlainEnglish, Drafting and Authoring

A file is a sequence of lines: comments, headings, headers and sentences. A sentence is the
rule of `grammar.py` that matches it, whom it names and the words it quotes, cut into tokens
where the sanitizer would cut. `Read` is one turn of the loop of `_split_tests`, `Compiles`
and `PlanFrom` are `compile_text`, `Scrub` is `sanitizer.scrub` over a plan. A word that makes
a step destructive is a word, so redacting it can lower the risk of what is left.

`Drafting` takes a manual test case to a draft. A case's step is the pattern of the drafter that
matches it, what it quotes and what it expects; `MapStep` is one call of `_map_step`, with the
fields of `Draft` (steps, todos, mapped) as its state, and `Dedupe` is `dedupe`, one `Kept` for each step. What is left to
do is kept by what it is about (an actor, a step, an expectation, a result), not by its words.
`Written` is `to_plain_english`, of which comments, tags and the description are left out, as
is how a target is meant (a click on a text reads back as a click on a phrase). A case without a
title gives a hash sign with nothing behind it, which is no heading to the compiler (`HeadingFor`).
What is written is not read as it was meant by itself. `TestName` is what the compiler makes of a
title: a test id before it and hashes behind it go. `Taken` is what the grammar makes of a sentence
that was written from a step: the writer puts no quotes round a label, so one that holds a word
the grammar knows becomes something else, and a text may look like the beginning of a credential.
Which titles and sentences these are is given by two constants, `NameOf` and `Misread`; the
instance has one of each kind.

`Authoring` gives them calls of `run_plain`, each in a process: the server for the calls of a
host, one of its own for a command. A process knows the secrets it has resolved (`SignIn`).
`Begin` compiles and scrubs with what is known at that moment, `RunNext` passes the gate with
the scrubbed plan, `Finish` scrubs the answer again. A test's execution is `RunNext`, any
number of `SignIn` and `Ended`; `PlanRuns` has its detail. The mapping to `GatedExecution`
makes every test of a file an execution of its own. `Draft` is `qa-copilot draft --out`: it
refuses a case with a literal credential, and what it writes may be run like any file. Left out: the bounds of the schema, tags
and descriptions, secrets shorter than four characters (which are never redacted).

## What the runs check

| Run | Bounds | Result |
|---|---|---|
| `plan_runs_gate` | 2 calls, 5 contents (a low one, one that needs approval, its edit under the same name, one in a blocked environment, one with a failing step) | `RecordsMatchGrants`, `ReportIsTrue`, `NoAbandonedBrowser`, `AuditAddsUp`, `GateIsKept` hold |
| `plan_runs_shared` | 2 calls, 5 contents with requests as two identities (one with a configured token) in two environments (one without a login), status assertions, sessions that end, the server may die, one call may be left without an answer, fair | `AdjacentStatusIsOwn`, `TokenIsOwn`, `LoginsAreFew`, the inductive invariant `TokensIndInv`, `AnsweredCallsReport` hold |
| `plan_runs_other_run` | 2 calls with requests and status assertions | **violated**: `StatusNeedsOwnRequest` |
| `suite_runs` | 1 suite, 3 executions, 3 names | `VerdictIsHonest`, `OnlyFailureStops`, `SuiteKeepsTheGate` hold |
| `launcher_pair` | 2 launches, 2 versions, kills, patience 3, stale age 5, hold time 2 | `OneProvisioner`, `InstallIsWhole` hold |
| `launcher_host` | either launcher: 2 launches, 2 versions, kills, signals (sh), slow holders, patience 2, stale age 2, fair | `NoLockLeftBehind`, `EveryLaunchEnds` hold |
| `launcher_exec` | 2 launches, nobody killed | **violated**: `ExecFindsServer` |
| `browser_steps` | 3 steps of 16 kinds, the four recipes of signing in among them, 3 windows, 6 pages, 2 ways of looking, 2 matches examined, deadline 1, fair | `WindowsNest`, `LeftForGood`, `ActsOnTheOneNamed`, `SeenIsThere`, `WaitsAreSatOut`, `EveryStepEnds` hold |
| `browser_absent` | 1 assertion | **violated**: `AbsentIsAbsent` |
| `setup` | 3 forms of the 4 kinds, one after the other, the server stopped anywhere and started again | `RefusedUntouched`, `IdentityIsUsable`, `EntriesSurvive`, `FilledIsUsable`, `EveryFormIsAnswered` hold |
| `authoring` | 2 calls of one server, 2 files of two tests and one of 8 drafts (`MaxDrafts`; one has a test id, one a label and one a text that is misread), 2 secrets | `FileVerdictIsHonest`, `NothingIgnored`, `FileKeepsTheGate`, `SecretsStayInside`, `DraftsReadBack`, `DraftsAreAccountedFor` hold |
| `authoring_shown` | as above, and a file that quotes the username it signs in with | **violated**: `ApprovedAsShownRuns` |

The state spaces are exhausted. Why the bounds are enough: what can go wrong between
calls is a matter of pairs, because they share single cells (the status, one approval,
one lock), so two calls and two launches reach every pattern of overwriting; a third
launch matters to the lock and is discussed below. Plans of two or three steps have a
step before, at and after a failure. Patience and ages matter only by how they compare;
the numbers keep the comparisons of the script in `launcher_pair`, and drop the
assumption about the holder in `launcher_host`. Two identities of one capability are enough for
a choice, a third would be a second loser; a token that two calls fetch, one of them ends and a
later request uses is the longest story of a key. Three forms are a first
one, what it leaves behind when it is stopped, and one that meets both that and another's
result. Two calls in one process are one that learns a secret and one that quotes it; two
tests in a file are the same within a call. Drafts do not touch one another, so one is made; the
cases hold each kind of step with each kind of expectation that it treats apart, and one has no title. Two ways of
looking have a more and a less trusted one; pages of three elements have hidden ones before
and after the cap of two; three steps are a window entered, left, and looked for again.
Deadlock is checked except for `Setup`, which ends when every form has been sent;
elsewhere the environment's actions (approving, saving, time) never end, so a stuck call is
caught by the liveness properties instead.

### Fairness

`PlanRuns`: weak fairness of what the event loop executes (`loop = r`), for every call, and of
being resumed for the calls of `Answered` only. Most awaits of the runner have a timeout of
Playwright's or httpx's, but not all: `page.title`, `page.evaluate` and `browser.close`
(`browser.py:307`, `314`, `350`) have none, and httpx's is for each read. A call outside
`Answered` may wait for ever, and `AnsweredCallsReport` says that the others do not wait with it.
`ApiTokens`: the same, the login and the request being two such awaits. Nothing is assumed of
people, of the server's death, or of when a session ends.
`Launcher`: weak fairness of time and of each launch's commands, which the operating
system gives to a live process; killing is not fair. The commands of `uv` and `cp` are
assumed to end. `LauncherCmd`: the same of whichever script the machine runs. `BrowserSteps`:
weak fairness of the session as a whole: every await of a step has a timeout or is a call
that the browser itself answers, which is an assumption about the browser; the application
owes nothing. `SetupAssistant`: weak fairness of each form's own steps (`Serve`), with the same
assumption about the browser that verifies the account. Neither the page being shown nor a restart is owed by anyone.

### What was found

* **A status assertion can pass on another run's answer** (`runner.py:354`). The status
  belongs to the shared runner. What remains true is `AdjacentStatusIsOwn`: an assertion
  directly behind a request of its own run is never answered by another, because no await
  lies between them. This is proved for any number of calls.
* **What is there twice passes for absent** (`browser.py:212`, `runner.py:327`): an ambiguous
  phrase is reported as "missing", and `not_visible` passes on that.
* **The lock is released before `exec`** (`qa-copilot-launch:226`), so a launch of another
  version may rewrite the console script in between.
* **A test that is approved as shown may still not run** (`engine.py:408`, `430`). The
  fingerprint is of the plan that was compiled; what runs is that plan as the sanitizer
  returned it. They differ once the process has resolved a username the test quotes, or when
  a phrase looks like a credential ("Basic subscription"). The gate holds all the same
  (`FileKeepsTheGate`): the plan that is run is blocked until it is approved itself.

Others were met while modelling and have no run of their own. A launch killed while it
copies the configuration leaves a directory that every later launch takes for finished
(`qa-copilot-launch:155`: the directory is its own marker). An exception while an account is
filled in leaves the status at "running" (`webui.py:515`), although the page is answered.
Headers above the first heading of a file are forgotten without a word (`compiler.py:219`),
which `NothingIgnored` excepts, as it does a `Test:` with nothing behind it and no sentence below it, whose
headers go with it (`compiler.py:204`). It defends the headers below a heading only, and knows one
key for the environment (that `env` gives way to `environment` is left out). A file says nothing of
a key when its last header of that key is blank, whatever the others say. A draft of a case without a title (a Gherkin `Scenario:` with
nothing behind it, `parsers.py:277`) has a file that nobody understands until it gets one, which
`DraftsReadBack` names among what a person has to do first. These four came out of the
proofs, in which a leaf could not be proved until they were said.

"What comes out here must compile back to the same plan" (`writer.py:4-5`), but not all of it does, and
`DraftsReadBack` says what does. A test id goes (`compiler.py:218`), which titles from Jira and csv
keep (`parsers.py:181`, `352`). Labels are written bare (`writer.py:48`) where the grammar
asks for quotes (`grammar.py:697`): a draft's `Save for later` comes back as `Save` in the row of
`later`. A text such as `Token configuration` is refused as a credential (`compiler.py:33-45`). And
the risk of a draft is lost (`writer.py:85`): a case that cancels an order is told that "the policy
engine will require human approval before it runs" (`analyzer.py:224`), but `cancel` is not among
policy's own words and the sentences have no line for the declared risk.

What a verification verifies is asserted or to
do; what is expected of it besides, and of a step that is not understood, is dropped without a TODO
(`drafter.py:345-357`), which `DraftsAreAccountedFor` excepts. A `switch_window` that
finds no window is a passed step without a detail (`runner.py:263`): the message takes the
place of the status in the returned pair, which `NoWindowFound` in `PlanRuns` keeps. And
"the last" of several matches, one before which is hidden, is not found (`resolver.py:447`
compares the number of a match with a count of the visible ones), after which an iframe is
searched instead; `Wanted` keeps that, and `ActsOnTheOneNamed` excepts it.

Limits the runs make explicit without calling them errors: `OneProvisioner` needs a holder
that is faster than the other's patience (the script goes on after five minutes by
design), needs that nobody is signalled (the trap releases the lock but does not exit), and
holds for two launches (a third can lose its new lock to an `rmdir` that was meant for
the stale one). `InstallIsWhole` excepts one case: the last launch that began to
rewrite the package was of another version and ended before its stamp (`CutShort`); the stamp is
not removed before the package is rewritten, so it vouches for what is no longer there. `RefusedUntouched` and
`EntriesSurvive` need forms to be sent one after the other: two that overlap pass the
wizard's checks together, and the second is refused after it has written its secrets, or
writes back a file it read before the first one wrote. `EntriesSurvive` also excepts, in a
file whose write the host cut in two, the entries of the forms sent before: `write_text` has
emptied it, although `append_under_key` promises that "a bad write can never leave the workspace
unusable" (`writer.py:31`).

More of the same kind, in code the later modules read:

* On Windows a waiting launch takes over after some twenty seconds (`qa-copilot-launch.cmd:86`),
  while a first install takes minutes: two then provision at once. `OneProvisioner` is
  therefore checked of the shell script only. The stamp is read before the wait (line 69), so a
  launch that waited installs again, under the server of the one it waited for.
* A server that has gone while its stamp matches makes every shell launch fail until the stamp is
  removed (`CheckServer`); the batch file sets up again, but compares the stamp as well. The
  shell script's background download stamps the version that started it (line 215).
* A page that is half an hour old is not shown again, but keeps listening: `expired()` is asked by
  `open_setup` and `cmd_setup` only (`webui.py:42` speaks of a tab "not left listening all day").
  `cmd_setup` ends as soon as it sees "done", and may cut off the answer that says so.
* A form that was interrupted after its first file stays refused when it is sent again.
* `environments.yaml` or `identities.yaml` indented otherwise, or with another key behind its
  entries, takes no entry: `append_under_key` says "nothing was changed" (`writer.py:69`), but the
  secrets, and before the second file the environment, are written by then. `wizard.py:172` checks
  for clashes "before anything is written" and not for this. `RefusedUntouched` excepts it by name.
* A sign-in is believed as soon as the form has been sent when its recipe names neither a URL nor an
  element (`browser.py:261-277`); the wizard's never names an element, and no URL when the sign-in
  leads to the root (`wizard.py:262-270`). `SeenIsThere` speaks of the recipes that name an element.
* An allow-list of one environment per line is left as it is, and the form ends as done: the new
  environment is not allowed (`writer.py:134`).
* A password with a blank or a quote at its end signs in when the account is filled in, and is
  another one from the next start on (`env.py:32` against `writer.py:104`).
* The page reports the alias of a new account by a rule of its own (`webui.py:293`), not the
  wizard's `_slug`: "my admin" is told "MY ADMIN_USER" and written as `MY_ADMIN_USER`, which
  `free_account_name` does not recognise as the same either.
* A token is never dropped from the cache (`api.py:30`): `LoginsAreFew` is as true after a 401.
* Of the matches of a way only the first twelve are examined (`resolver.py:252`); a thirteenth
  makes nothing ambiguous. `Cap` is that bound.
## What is proved

All for every value of the constants, from the assumptions the modules name
(`...Assumption`), which say no more than what the constants are.

`PlanRunsProofs`: `TypeCorrect`; `IndInvHolds`; `RecordsAreGrants`; `AdjacentStatusIsSafe`;
`ReportsAreTrue`; `BrowsersAreClosed`; `AuditIsComplete`; `EngineKeepsTheGate`. `IndInv` (in
`PlanRuns`) adds to the types which states own what: a call that is about to assert directly
behind its own request holds the event loop, the status in the runner is its own and as long as
it is, no other call moves; the report is no longer than the position; the records are the
fingerprints of the granted contents. `AdjacentStatusIsOwn` alone is not inductive: that the
loop is held has to be known to exclude the other calls. `StoryInv` says of each place in a
call what its report and its browser are by then: all passed until the last entry, open between
`opening` and the end of `closing`. `AuditIsComplete` counts: `JournalInv` says of any line that
the file has it as often as there are calls that have come to it (`Told`), a line appended is
one more on both sides (`WrittenGrows`, `TellersGrow`), and a call that is under way arrived
at the server there is, whose number its next line will have. For
`EngineKeepsTheGate` the only step that maps to an abstract start is `Start`, whose guard is the
abstract one after the records are replaced with the grants; every other step maps to a
stutter, a removal, or the environment's own.

`ApiTokensProofs`: `TokensImplementCore`, so that all of the above holds with tokens;
`TokensIndInvHolds`; `TokensAreOwn`; `FewLogins`. The invariant relates the hand, the cache and
the count: what the cache has for a key is of that key, what is in a call's hand is of the key
its current step means (the step does not change while it is awaited), and whatever a call was
issued is in the cache by the time it can ask again, because nobody empties it.

`SuiteRunsProofs`: `SuiteTypes`; `VerdictsAreHonest`; `NothingElseStops`; `SuitesKeepTheGate`, the
refinement, in which the subject of an execution is the content loaded for that name and its
phase the result it got. `SuiteInv` says that results are those of a prefix of the names, and
that a suite which has stopped early stopped on the last of them.

`LauncherProofs`: `TypeCorrect` (with `Patient`: who waits has patience left, and
`Versioned`: who began knows its version); `LocksAreReleased` for any number of launches
(with `Owned`: who waits has not had the lock, and who owns it knows); `OneAtATime` for
two launches, under `TwoQuickLaunches`. Its invariant `Exclusion` relates a pair: a holder
in its setup has the lock, the lock is no older than `HoldTime`, and the other has not
waited longer than the lock is old; a launch that entered without the lock found the
other done; one that is about to clear the lock waits for a killed one. `StageKinds`
reduces the fourteen stages to what they are to the lock: move on, leave, finish. On top of
it `PackagesAreWhole`, by `StampFits`: an installer's version is not the stamp's, the package is its
own when it stamps, whoever rewrites the package is its `writer`, and a stamp the package does
not fit is of another version than the writer's.
`LocksAreReleasedOnEither` is about any number of launches of either script. Its
`CmdLockInv` is weaker than the shell script's: a launch that took over owns no lock.

`BrowserStepsProofs`: `TypeCorrect`, `WindowsAlwaysNest`, `LeftWindowsStayLeft`, from `IndInv`
of `BrowserSteps`: a window about to be entered is on no path and was never left (it is
open, and those that were left are closed), one about to be closed is off the path. The
path is the stack with the page on top: entering appends to it, going back takes the last
off (`PushShape`, `PopShape`). `PartEnds` says once what all the ways a part can end do to
the control. `WhatIsSeenIsThere`, `EveryWaitIsSatOut` and `ActsOnWhatIsNamed` are about steps,
and need two facts besides: where a part is tells what it does, and a locator looks in a way
its target has (`PlaceInv`); while the page is open and shows what resolve saw, the locator is
what resolve would return again (`SteadyInv`). The last theorem compares two ways of counting,
that of the code, which numbers what a way finds and takes a place among the visible ones, and
that of `Named`, which counts elements of the page: `ResolvePicks` says what a locator stands
for, `NumberTells` that no two elements have the same number, `AtAPlace` that a list has
something in each of its places, and `SeenIsMatched` that both see the same elements.

`SetupProofs`, for forms sent one after the other (`Overlap = FALSE`), in any number, with the
process stopped and started anywhere: `SetupTypes`, `NothingHalfway`, `AccountsAreUsable`,
`EntriesStay` from `OrderInv` (only one form is handled at a time; what a form has written by the
place it is at; an account in the configuration has its secrets and its environment, but in a
torn file), and `FilledAreUsable` from `UseInv`, which adds what the process has: the secrets of every
account that was filled in, as they were typed in the process that has filled it in (`ValuesFit`).

`AuthoringProofs`: `AuthoringTypes`, `FileVerdictsAreHonest`, `SecretsStay`, `FilesKeepTheGate` (the
refinement) from `CallInv`: a file is understood and its plans are scrubbed plans, one for each
test, and the results are those of the tests so far. `SecretsStay` rests on `ScrubHides`, that
nothing a plan is scrubbed of is left in it, and on the answer being scrubbed with what the
process knows at that moment.

Three of its theorems are about what folds over a file or a case of any length compute:
`NothingIsIgnored`, `DraftsAccountForTheCase` and `DraftsCompileBack`. The library's induction
theorems take an operator, which the provers cannot be given; the least-number principle (`WFMin`) takes a set. From
it `AuthoringLemmas` has induction over a set (`UpTo`), from that the function by which the
community modules define a fold exists (`FoldExists`), and so the fold is its steps one after
the other (`FoldRun`, and `FlattenRun` for `FlattenSeq`). On these rest
* `SplitReads` and `AllIsRead`: behind each line of a file, the steps of the tests found and of the one being
  read are those of the sentences so far, and every heading so far has its test, closed or
  being read, with what the headers below it say (`HeadingsKept`);
* `MapStepsRun`, `ConcludeRun` and `DedupeRun`: behind each step of a case, what was noted stays noted
  (`Grows`), and the step is mapped or to do and so is what it verifies or expects (`StepKept`); a step
  that `Dedupe` drops is there already;
* `OneTestRead`, `StepReadsBack` and `TakenReadsBack`: a draft's file is one heading, one header and one
  sentence for each step, which is read as one test; a clear sentence is found by a rule for the step's
  action, and that rule's step is the one it was written from, when it says who; one that is not clear
  is read as one step of another kind or words, or not at all.
They need of the constants that nobody is called `REPLACE_ME`, that an alias or a capability
named in a sentence is found under its own name (`_resolve_actor` looks for it in capitals, then
for a capability in small letters with underscores), that neither looks like a credential, and that a
blank does not; that a title is never shortened to a blank (the code keeps the title then); and that a
sentence of the writer's, when it is taken for another, is taken for one that clicks, types, navigates or
checks, or is refused (`DraftingAssumption`, `EnglishAssumption`).

Only model-checked: liveness under fairness (`AnsweredCallsReport`, `EveryLaunchEnds`, `EveryStepEnds`,
`EveryFormIsAnswered`), which the prover does not reach. Every other property of a passing run is
stated by a theorem.

## Not modelled, and why

* What a page or an application does: in `PlanRuns` a step's outcome is any the code can
  report, in `BrowserSteps` the application is free.
* Cancellation of a call by the host: the MCP library's, not this code's.
* Wording, layout, and the patterns of plain English: stateless text. So are reports and the
  credential guard (one regular expression over one call).
* From files to test cases (`qc/ingest/parsers.py`, `loader.py`): character by character, with the
  loss of anything a format has and a case has not (a Gherkin `Background`, lines without a keyword).
  One thing there is more than text: `loader.py:107` makes ids unique across the scan "or lookup is
  ambiguous", by their exact spelling, while `find_test_case` (`engine.py:250`) compares them in
  lower case, so `TC-1` hides `tc-1`; and a `#2` is given out anew at each scan.
* How words become the name, kind and ordinal of a target, and `within` (`resolver.py`): patterns.
* Two forms handled at once share one redirected stdout (`webui.py:274`): the models' threads do not
  print. `OpenAnew` is the expiry of a page as `open_setup` sees it; the old page is not kept.
* `list`, `get` and `delete` of the library, `tail` of the audit log, the lists the broker gives to
  the model: they read, or have no caller.
* The PowerShell launcher. No manifest starts it. Its first line calls it "the line-by-line counterpart"
  of the shell script, with which it has the lock's age in common, but its early exits
  (`Stop-WithError`, line 26) do not release the lock, and the shell script's traps have no counterpart.
* The hosts' own configuration files (`_install_into`).
* The demo application and the build scripts: not part of the running system.

## Plan

1. `PolicyGate`, `GatedExecution`, `PlanRuns`, its runs and proofs. *Done.*
2. `ApiTokens`, the token cache composed with 1. *Done, with proofs.*
3. `SuiteRuns`, composing the gate with the library. *Done, with proofs.*
4. `Launcher` and `LauncherCmd`. *Done, with proofs.*
5. `Setup` and `SetupAssistant`. *Done, with proofs for forms one after the other.* To be added: `qa-copilot
   init` beside the page, the capture of stdout.
6. `Resolver` and `BrowserSteps`. *Done, with proofs*, but for the counting of matches.
7. `PlainEnglish`, `Drafting` and `Authoring`. *Done, with proofs.*
8. Left: the ids of a scan (`loader.py`) and the lookup that reads them; words to targets.

A violation run is kept for a disagreement with something the repository says.
