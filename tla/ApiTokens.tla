------------------------------ MODULE ApiTokens ------------------------------
(***************************************************************************)
(* executor/api.py inside the runs of PlanRuns: what an awaited            *)
(* api_request step does.  A request as somebody needs a token: the one in *)
(* the executor's cache, the configured one, or the one a login fetches.   *)
(* The login is awaited, and its token is stored when the call is resumed, *)
(* so calls that miss the cache together all log in.                       *)
(*                                                                         *)
(* All calls share ONE ApiExecutor, and with it tokenCache, which lives as *)
(* long as the server does.  The application may end a session whenever it *)
(* likes; nothing tells the cache.                                         *)
(***************************************************************************)
EXTENDS PlanRuns

CONSTANTS
    Identities,         \* identities.yaml, in the order of the aliases
    Configured,         \* aliases with a static token (api_token_ref)
    LoginEnvironments,  \* environments with an api_auth.login_path
    Unauthorized,       \* the answer to a token the application does not honour (any more)
    Reviewed            \* environment: the contents people approve

\* environments: where the identity may be used; empty: everywhere.
Identity == [alias : STRING, capabilities : SUBSET STRING, environments : SUBSET STRING]

Aliases == {Identities[i].alias : i \in DOMAIN Identities}

Keys == Environments \X Aliases

NoToken == [of |-> <<>>, by |-> NoRun]

\* by: the call whose login it was issued to; NoRun: it is configured.
Tokens == [of : Keys, by : Runs \cup {NoRun}]

ASSUME TokenAssumption ==
    /\ Identities \in Seq(Identity)
    /\ "" \notin Aliases
    /\ Configured \subseteq Aliases
    /\ LoginEnvironments \subseteq Environments
    /\ Unauthorized \in Statuses
    /\ Reviewed \subseteq Plans

VARIABLES
    tokenCache,     \* ApiExecutor._token_cache
    leg,            \* what an awaited request waits for
    token,          \* the token in the hands of each call
    logins,         \* how often each call was issued a token for each key
    ended           \* the tokens the applications do not honour any more

tokenVars == <<tokenCache, leg, token, logins, ended>>
allVars == <<vars, tokenVars>>

\* loggingIn: the application has not answered; loggedIn: it has, and the call has not
\* been resumed.
Legs == {"none", "loggingIn", "loggedIn", "requesting"}

TokensTypeOK ==
    /\ tokenCache \in [Keys -> Tokens \cup {NoToken}]
    /\ leg \in [Runs -> Legs]
    /\ token \in [Runs -> Tokens \cup {NoToken}]
    /\ logins \in [Runs -> [Keys -> Nat]]
    /\ ended \subseteq Tokens

TokensInit ==
    /\ Init
    /\ tokenCache = [k \in Keys |-> NoToken]
    /\ leg = [r \in Runs |-> "none"]
    /\ token = [r \in Runs |-> NoToken]
    /\ logins = [r \in Runs |-> [k \in Keys |-> 0]]
    /\ ended = {}

-----------------------------------------------------------------------------
\* Who can act in an environment with a capability; the one with the fewest others is
\* chosen, the first by alias among equals.
Matches(capability, e) ==
    {i \in DOMAIN Identities :
        /\ capability \in Identities[i].capabilities
        /\ Identities[i].environments = {} \/ e \in Identities[i].environments}

Rank(i) == Cardinality(Identities[i].capabilities)

Select(capability, e) ==
    Identities[CHOOSE i \in Matches(capability, e) :
                   \A j \in Matches(capability, e) :
                       Rank(i) < Rank(j) \/ (Rank(i) = Rank(j) /\ i <= j)].alias

\* A step names an alias, which is used as it is, or a capability.
Resolves(who, e) == who \in Aliases \/ Matches(who, e) # {}
AliasOf(who, e) == IF who \in Aliases THEN who ELSE Select(who, e)

\* Mutant of KeyOf: the alias alone is the key.
KeyOfAlias(r) == <<CHOOSE e \in Environments : TRUE, AliasOf(Current(r).who, plan[r].environment)>>

\* Whose token the request needs.
KeyOf(r) == <<plan[r].environment, AliasOf(Current(r).who, plan[r].environment)>>

AsSomebody(r) == Current(r).who # ""
Requesting(r) == pc[r] = "awaiting" /\ Current(r).action = "api_request"

\* The step is a request as somebody; the environment and the identity are looked up in
\* the configuration.  (When they are not there: CannotResolve.)
BeginAsSomebody(r) ==
    /\ Await(r) /\ Current(r).action = "api_request"
    /\ AsSomebody(r) /\ Resolves(Current(r).who, plan[r].environment)
    /\ KeyOf(r) \in Keys

Hold(r, t) == token' = [token EXCEPT ![r] = t]
Proceed(r, where) == leg' = [leg EXCEPT ![r] = where]

\* The request of nobody needs no token.
RequestAsNobody(r) ==
    /\ Await(r) /\ Current(r).action = "api_request"
    /\ ~AsSomebody(r)
    /\ Proceed(r, "requesting") /\ Hold(r, NoToken)
    /\ UNCHANGED <<tokenCache, logins, ended>>

RequestFromCache(r) ==
    /\ BeginAsSomebody(r)
    /\ tokenCache[KeyOf(r)] # NoToken
    /\ Proceed(r, "requesting") /\ Hold(r, tokenCache[KeyOf(r)])
    /\ UNCHANGED <<tokenCache, logins, ended>>

\* A token that is configured is resolved and cached without suspending.
RequestConfigured(r) ==
    /\ BeginAsSomebody(r)
    /\ tokenCache[KeyOf(r)] = NoToken
    /\ KeyOf(r)[2] \in Configured
    /\ LET t == [of |-> KeyOf(r), by |-> NoRun] IN
        /\ tokenCache' = [tokenCache EXCEPT ![KeyOf(r)] = t]
        /\ Hold(r, t)
    /\ Proceed(r, "requesting")
    /\ UNCHANGED <<logins, ended>>

LogIn(r) ==
    /\ BeginAsSomebody(r)
    /\ tokenCache[KeyOf(r)] = NoToken
    /\ KeyOf(r)[2] \notin Configured /\ KeyOf(r)[1] \in LoginEnvironments
    /\ Proceed(r, "loggingIn")
    /\ UNCHANGED <<tokenCache, token, logins, ended>>

\* No configured token and nowhere to log in: the request goes without one, and
\* nothing is cached.
RequestWithout(r) ==
    /\ BeginAsSomebody(r)
    /\ tokenCache[KeyOf(r)] = NoToken
    /\ KeyOf(r)[2] \notin Configured /\ KeyOf(r)[1] \notin LoginEnvironments
    /\ Proceed(r, "requesting") /\ Hold(r, NoToken)
    /\ UNCHANGED <<tokenCache, logins, ended>>

RequestBegins(r) ==
    \/ RequestAsNobody(r) \/ RequestFromCache(r) \/ RequestConfigured(r)
    \/ LogIn(r) \/ RequestWithout(r)

\* The application answers the login with a token.
Issue(r) ==
    /\ leg[r] = "loggingIn"
    /\ logins' = [logins EXCEPT ![r][KeyOf(r)] = @ + 1]
    /\ Hold(r, [of |-> KeyOf(r), by |-> r])
    /\ Proceed(r, "loggedIn")
    /\ UNCHANGED <<vars, tokenCache, ended>>

\* Mutant of Store: the token serves this request only.
StoreNothing(r) ==
    /\ loop = NoRun /\ leg[r] = "loggedIn"
    /\ Proceed(r, "requesting")
    /\ UNCHANGED <<vars, tokenCache, token, logins, ended>>

\* The call is resumed: it stores its token over whatever another call has stored
\* meanwhile, and sends its request.
Store(r) ==
    /\ loop = NoRun /\ leg[r] = "loggedIn"
    /\ tokenCache' = [tokenCache EXCEPT ![KeyOf(r)] = token[r]]
    /\ Proceed(r, "requesting")
    /\ UNCHANGED <<vars, token, logins, ended>>

\* The login is refused, answered without a token or not in time; or the request has
\* no answer: an error of the step.  The cache keeps what it has.
RequestFails(r) ==
    /\ Requesting(r) /\ StepEnded(r)
    /\ Proceed(r, "none") /\ Hold(r, NoToken)
    /\ UNCHANGED <<tokenCache, logins, ended>>

\* The application answers as it likes, but for a token it has ended.
RequestAnswered(r) ==
    /\ leg[r] = "requesting" /\ ApiAnswered(r)
    /\ token[r] \in ended =>
           results'[r][Len(results[r]) + 1].answer = Unauthorized
    /\ Proceed(r, "none") /\ Hold(r, NoToken)
    /\ UNCHANGED <<tokenCache, logins, ended>>

\* A session expires, or a newer login of the account ends it.
SessionEnds ==
    /\ \E t \in {token[r] : r \in Runs} \cup {tokenCache[k] : k \in Keys} :
           /\ t.by # NoRun /\ t \notin ended
           /\ ended' = ended \cup {t}
    /\ UNCHANGED <<vars, tokenCache, leg, token, logins>>

\* The cache is gone with the server, the sessions of the applications are not.
ServerDiesWithTokens ==
    /\ ServerDies
    /\ tokenCache' = [k \in Keys |-> NoToken]
    /\ leg' = [r \in Runs |-> "none"]
    /\ token' = [r \in Runs |-> NoToken]
    /\ UNCHANGED <<logins, ended>>

-----------------------------------------------------------------------------
\* What does not concern the tokens.
AwaitOther(r) == Await(r) /\ Current(r).action # "api_request"
OtherEnded(r) == ~Requesting(r) /\ StepEnded(r)

OtherProgress(r) ==
    /\ \/ Opened(r) \/ OpenFailed(r)
       \/ AssertStatus(r) \/ CannotResolve(r) \/ AwaitOther(r)
       \/ NoWindowFound(r) \/ OtherEnded(r)
       \/ ShotTaken(r) \/ AllStepsPassed(r) \/ Closed(r) \/ Report(r)
    /\ UNCHANGED tokenVars

RequestProgress(r) ==
    RequestBegins(r) \/ Issue(r) \/ Store(r) \/ RequestAnswered(r) \/ RequestFails(r)

TokensNext ==
    \/ (\E p \in Reviewed : Approve(p) \/ Revoke(p)) /\ UNCHANGED tokenVars
    \/ (\E r \in Runs, p \in Plans : Block(r, p) \/ Start(r, p)) /\ UNCHANGED tokenVars
    \/ \E r \in Runs : OtherProgress(r) \/ RequestProgress(r)
    \/ SessionEnds
    \/ ServerDiesWithTokens

TokensSpec == TokensInit /\ [][TokensNext]_allVars

\* As in PlanRuns.  httpx gives up on a read, not on an answer that keeps trickling in, so
\* logins and requests of the other calls may be awaited for ever too.
TokensFairness ==
    /\ \A r \in Runs : WF_allVars(loop = r /\ (OtherProgress(r) \/ RequestProgress(r)))
    /\ \A r \in Answered : WF_allVars(OtherProgress(r) \/ RequestProgress(r))
TokensFairSpec == TokensSpec /\ TokensFairness

-----------------------------------------------------------------------------
(***************************************************************************)
(* Properties.                                                             *)
(***************************************************************************)

\* A request goes out with the token of the identity its step means, issued by the
\* application of its plan's environment, whatever other calls put into the cache between
\* its look and its request; and a request of nobody goes without.
\* (ApiExecutor._token and request under concurrent calls)
TokenIsOwn ==
    \A r \in Runs : leg[r] = "requesting" /\ token[r] # NoToken =>
        /\ AsSomebody(r)
        /\ token[r].of = <<plan[r].environment, AliasOf(Current(r).who, plan[r].environment)>>

\* However many requests a call makes as an identity, and whatever other calls store over
\* its token, it asks the application for a token at most once; later requests use what is
\* in the cache, honoured or not.
\* (the cache is written before the request is sent, and never emptied)
LoginsAreFew == \A r \in Runs : \A k \in Keys : logins[r][k] <= 1

-----------------------------------------------------------------------------
\* The strengthening that makes TokenIsOwn and LoginsAreFew inductive.

\* Whose token is in the hands of a call.
HandFits(r) ==
    /\ leg[r] # "none" => Requesting(r)
    /\ leg[r] \in {"loggingIn", "loggedIn"} => KeyOf(r) \in Keys /\ AsSomebody(r)
    /\ leg[r] = "loggingIn" => logins[r][KeyOf(r)] = 0
    /\ leg[r] = "loggedIn" => token[r].of = KeyOf(r)

TokensFit ==
    /\ \A r \in Runs : HandFits(r)
    /\ \A k \in Keys : tokenCache[k] # NoToken => tokenCache[k].of = k

\* What a call was issued is cached by the time it can ask again; nothing is issued to a
\* call that has not begun.
IssuedIsCached ==
    \A r \in Runs : \A k \in Keys :
        logins[r][k] > 0 /\ pc[r] \in {"idle", "opening", "stepping", "awaiting"} =>
            /\ pc[r] # "idle"
            /\ \/ tokenCache[k] # NoToken
               \/ leg[r] = "loggedIn" /\ KeyOf(r) = k

\* IndInv of the core with what TokenIsOwn and LoginsAreFew need.
TokensIndInv ==
    IndInv /\ TokensTypeOK /\ TokenIsOwn /\ LoginsAreFew /\ TokensFit /\ IssuedIsCached
=============================================================================
