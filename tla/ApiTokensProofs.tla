--------------------------- MODULE ApiTokensProofs ---------------------------
(***************************************************************************)
(* Theorems about ApiTokens, for every set of calls, plans and identities: *)
(* it implements PlanRuns, whose theorems therefore hold of it, and what   *)
(* the cache does for each call.                                           *)
(***************************************************************************)
EXTENDS ApiTokens, PlanRunsProofs

LEMMA KeyIsPair == ASSUME NEW k \in Keys PROVE k # <<>>
BY DEF Keys

LEMMA KeyTypes ==
    ASSUME NEW k \in Keys, NEW by \in Runs \cup {NoRun}
    PROVE  /\ [of |-> k, by |-> by] \in Tokens
           /\ [of |-> k, by |-> by] # NoToken
BY KeyIsPair DEF Tokens, NoToken

\* Before the first request, or between two: a call in these positions may ask again.
Early == {"idle", "opening", "stepping", "awaiting"}

\* What the requests of a call are about stays the same while its plan and results do.
LEMMA SameKey ==
    ASSUME NEW r \in Runs, plan'[r] = plan[r], results'[r] = results[r]
    PROVE  /\ KeyOf(r)' = KeyOf(r)
           /\ AsSomebody(r)' <=> AsSomebody(r)
           /\ pc'[r] = pc[r] => (Requesting(r)' <=> Requesting(r))
BY DEF Current, KeyOf, AsSomebody, Requesting

\* TokenIsOwn in the words of TokensFit.
OwnHand(r) ==
    leg[r] = "requesting" /\ token[r] # NoToken => AsSomebody(r) /\ token[r].of = KeyOf(r)

LEMMA OwnHands ==
    /\ TokenIsOwn <=> \A r \in Runs : OwnHand(r)
    /\ TokenIsOwn' <=> \A r \in Runs : OwnHand(r)'
BY DEF TokenIsOwn, OwnHand, KeyOf

-----------------------------------------------------------------------------
\* Every step of ApiTokens is one of PlanRuns, or none of its business.
LEMMA StepsAreCoreSteps == [TokensNext]_allVars => [Next]_vars
<1> SUFFICES ASSUME [TokensNext]_allVars
             PROVE  [Next]_vars
  OBVIOUS
<1>1. CASE \E p \in Reviewed : Approve(p) \/ Revoke(p)
  BY <1>1, TokenAssumption DEF TokenAssumption, Next
<1>2. CASE \E r \in Runs, p \in Plans : Block(r, p) \/ Start(r, p)
  BY <1>2 DEF Next
<1>3. ASSUME NEW r \in Runs, OtherProgress(r)
      PROVE  Next
  <2>1. Progress(r)
    BY <1>3 DEF OtherProgress, AwaitOther, OtherEnded, Progress
  <2> QED
    BY <2>1 DEF Next
<1>4. ASSUME NEW r \in Runs, RequestBegins(r) \/ RequestAnswered(r) \/ RequestFails(r)
      PROVE  Next
  <2>1. Progress(r)
    BY <1>4 DEF RequestBegins, RequestAsNobody, BeginAsSomebody, RequestFromCache,
       RequestConfigured, LogIn, RequestWithout, RequestAnswered, RequestFails, Progress
  <2> QED
    BY <2>1 DEF Next
<1>5. ASSUME NEW r \in Runs, Issue(r) \/ Store(r)
      PROVE  UNCHANGED vars
  BY <1>5 DEF Issue, Store
<1>6. CASE SessionEnds
  BY <1>6 DEF SessionEnds
<1>7. CASE ServerDiesWithTokens
  BY <1>7 DEF ServerDiesWithTokens, Next
<1>8. CASE UNCHANGED allVars
  BY <1>8 DEF allVars
<1> QED
  BY <1>1, <1>2, <1>3, <1>4, <1>5, <1>6, <1>7, <1>8 DEF TokensNext, RequestProgress

\* The four parts of TokensIndInv that are about each call.
CallFits(r) ==
    /\ HandFits(r) /\ OwnHand(r)
    /\ \A k \in Keys : logins[r][k] <= 1
    /\ \A k \in Keys :
           logins[r][k] > 0 /\ pc[r] \in Early =>
               /\ pc[r] # "idle"
               /\ tokenCache[k] # NoToken \/ (leg[r] = "loggedIn" /\ KeyOf(r) = k)

CacheFits == \A k \in Keys : tokenCache[k] # NoToken => tokenCache[k].of = k

LEMMA IndInvByCall ==
    /\ TokensIndInv <=>
           IndInv /\ TokensTypeOK /\ CacheFits /\ \A r \in Runs : CallFits(r)
    /\ TokensIndInv' <=>
           IndInv' /\ TokensTypeOK' /\ CacheFits' /\ \A r \in Runs : CallFits(r)'
BY OwnHands
   DEF TokensIndInv, CallFits, CacheFits, TokensFit, LoginsAreFew, IssuedIsCached, Early, Keys

\* A call that does not move keeps what fits it, as long as the cache only gains.
LEMMA RestFits ==
    ASSUME NEW r \in Runs, CallFits(r),
           pc'[r] = pc[r], plan'[r] = plan[r], results'[r] = results[r],
           leg'[r] = leg[r], token'[r] = token[r], logins'[r] = logins[r],
           \A k \in Keys : tokenCache[k] # NoToken => tokenCache'[k] # NoToken
    PROVE  CallFits(r)'
<1>1. /\ KeyOf(r)' = KeyOf(r)
      /\ AsSomebody(r)' <=> AsSomebody(r)
      /\ Requesting(r)' <=> Requesting(r)
  BY SameKey
<1>2. HandFits(r)' /\ OwnHand(r)'
  BY <1>1 DEF CallFits, HandFits, OwnHand, Keys
<1>3. \A k \in Keys : logins'[r][k] <= 1
  BY DEF CallFits
<1>4. \A k \in Keys :
          logins'[r][k] > 0 /\ pc'[r] \in Early =>
              /\ pc'[r] # "idle"
              /\ tokenCache'[k] # NoToken \/ (leg'[r] = "loggedIn" /\ KeyOf(r)' = k)
  BY <1>1 DEF CallFits
<1> QED
  BY <1>2, <1>3, <1>4 DEF CallFits, Early

\* A call that has nothing in hand after its step fits unless it came back to where it
\* can ask.
LEMMA FreeFits ==
    ASSUME NEW r \in Runs, leg'[r] = "none",
           \A k \in Keys : logins'[r][k] <= 1,
           \A k \in Keys : logins'[r][k] > 0 /\ pc'[r] \in Early =>
               pc'[r] # "idle" /\ tokenCache'[k] # NoToken
    PROVE  CallFits(r)'
BY DEF CallFits, HandFits, OwnHand, Early

\* A step that has nothing to do with tokens: the calls it moves have none in hand, and
\* none of them comes back to where it can ask.
LEMMA OtherStepsKeepTokens ==
    ASSUME TokensIndInv, IndInv', UNCHANGED tokenVars, NEW moved \in SUBSET Runs,
           \A r \in moved :
               leg[r] = "none" /\ (pc'[r] \in Early => pc[r] \in Early /\ pc'[r] # "idle"),
           \A r \in Runs \ moved :
               pc'[r] = pc[r] /\ plan'[r] = plan[r] /\ results'[r] = results[r]
    PROVE  TokensIndInv'
<1>1. TokensTypeOK' /\ CacheFits'
  BY IndInvByCall DEF TokensTypeOK, CacheFits, tokenVars
<1>2. ASSUME NEW r \in Runs
      PROVE  CallFits(r)'
  <2>1. CallFits(r)
    BY IndInvByCall
  <2>2. CASE r \in moved
    BY <2>1, <2>2, FreeFits DEF CallFits, tokenVars
  <2>3. CASE r \in Runs \ moved
    BY <2>1, <2>3, RestFits DEF tokenVars
  <2> QED
    BY <2>2, <2>3
<1> QED
  BY <1>1, <1>2, IndInvByCall

\* A request begins: the call waits for a login, having been issued nothing yet, or has
\* the token that fits; the cache only gains what fits.
LEMMA BeginKeepsTokens ==
    ASSUME TokensIndInv, IndInv', NEW r \in Runs, RequestBegins(r)
    PROVE  TokensIndInv'
<1>1. /\ leg[r] = "none" /\ pc'[r] = "awaiting" /\ pc[r] = "stepping"
      /\ plan' = plan /\ results' = results
      /\ \A q \in Runs \ {r} : pc'[q] = pc[q]
      /\ Requesting(r)'
  BY ZenonT(60), IndInvByCall DEF RequestBegins, RequestAsNobody, BeginAsSomebody, RequestFromCache,
     RequestConfigured, LogIn, RequestWithout, Await, Goto, IndInv, TypeOK, CallFits,
     HandFits, Requesting, Current
<1>2. /\ KeyOf(r)' = KeyOf(r)
      /\ AsSomebody(r)' <=> AsSomebody(r)
  BY <1>1, SameKey
<1>3. /\ TokensTypeOK /\ CacheFits
      /\ \A q \in Runs : CallFits(q)
  BY IndInvByCall
<1>4. ASSUME NEW where \in {"requesting", "loggingIn"}, NEW t \in Tokens \cup {NoToken},
             leg' = [leg EXCEPT ![r] = where],
             where = "requesting" => token' = [token EXCEPT ![r] = t],
             where = "requesting" /\ t # NoToken => AsSomebody(r) /\ t.of = KeyOf(r),
             where = "loggingIn" =>
                 /\ UNCHANGED <<tokenCache, token>>
                 /\ KeyOf(r) \in Keys /\ AsSomebody(r) /\ tokenCache[KeyOf(r)] = NoToken,
             \/ UNCHANGED tokenCache
             \/ t # NoToken /\ KeyOf(r) \in Keys /\ tokenCache' = [tokenCache EXCEPT ![KeyOf(r)] = t],
             UNCHANGED <<logins, ended>>
      PROVE  TokensIndInv'
  <2>1. TokensTypeOK'
    BY <1>3, <1>4 DEF TokensTypeOK, Legs
  <2>2. /\ CacheFits'
        /\ \A k \in Keys : tokenCache[k] # NoToken => tokenCache'[k] # NoToken
    BY <1>3, <1>4 DEF TokensTypeOK, CacheFits
  <2>3. ASSUME NEW q \in Runs \ {r}
        PROVE  CallFits(q)'
    <3>1. leg'[q] = leg[q] /\ token'[q] = token[q] /\ logins'[q] = logins[q]
      BY <1>3, <1>4 DEF TokensTypeOK
    <3> QED
      BY <1>1, <1>3, <2>2, <3>1, RestFits
  <2>4. CallFits(r)'
    <3>1. leg'[r] = where /\ logins'[r] = logins[r]
      BY <1>3, <1>4 DEF TokensTypeOK
    <3>2. CallFits(r) /\ pc[r] \in Early
      BY <1>1, <1>3 DEF Early
    <3>3. where = "loggingIn" => logins[r][KeyOf(r)] = 0
      BY <1>1, <1>3, <1>4, <3>2 DEF CallFits, TokensTypeOK
    <3>4. HandFits(r)'
      BY <1>1, <1>2, <1>4, <3>1, <3>3 DEF HandFits, Keys
    <3>5. OwnHand(r)'
      BY <1>2, <1>3, <1>4, <3>1 DEF OwnHand, TokensTypeOK
    <3>6. \A k \in Keys : logins'[r][k] <= 1
      BY <3>1, <3>2 DEF CallFits
    <3>7. \A k \in Keys : logins'[r][k] > 0 =>
              pc'[r] # "idle" /\ tokenCache'[k] # NoToken
      BY <1>1, <2>2, <3>1, <3>2 DEF CallFits
    <3> QED
      BY <3>4, <3>5, <3>6, <3>7 DEF CallFits
  <2> QED
    BY <2>1, <2>2, <2>3, <2>4, IndInvByCall
<1>5. CASE RequestAsNobody(r)
  BY <1>4, <1>5 DEF RequestAsNobody, Proceed, Hold
<1>6. CASE LogIn(r)
  BY <1>4, <1>6 DEF LogIn, BeginAsSomebody, Proceed
<1>7. CASE RequestFromCache(r)
  <2>1. /\ AsSomebody(r) /\ tokenCache[KeyOf(r)].of = KeyOf(r)
        /\ tokenCache[KeyOf(r)] \in Tokens \cup {NoToken}
    BY <1>3, <1>7 DEF RequestFromCache, BeginAsSomebody, TokensTypeOK, CacheFits
  <2> QED
    BY <1>4, <1>7, <2>1 DEF RequestFromCache, Proceed, Hold
<1>8. CASE RequestConfigured(r)
  <2>1. KeyOf(r) \in Keys /\ AsSomebody(r)
    BY <1>8 DEF RequestConfigured, BeginAsSomebody
  <2> DEFINE t == [of |-> KeyOf(r), by |-> NoRun]
  <2>2. t \in Tokens /\ t # NoToken /\ t.of = KeyOf(r)
    BY <2>1, KeyTypes
  <2> QED
    BY <1>4, <1>8, <2>1, <2>2 DEF RequestConfigured, Proceed, Hold
<1>9. CASE RequestWithout(r)
  BY <1>4, <1>9 DEF RequestWithout, Proceed, Hold
<1> QED
  BY <1>5, <1>6, <1>7, <1>8, <1>9 DEF RequestBegins

\* The application issues a token for the key the call waits with, for the first time.
LEMMA IssueKeepsTokens ==
    ASSUME TokensIndInv, IndInv', NEW r \in Runs, Issue(r)
    PROVE  TokensIndInv'
<1> DEFINE t == [of |-> KeyOf(r), by |-> r]
<1>1. /\ UNCHANGED <<vars, tokenCache, ended>>
      /\ leg[r] = "loggingIn" /\ leg' = [leg EXCEPT ![r] = "loggedIn"]
      /\ token' = [token EXCEPT ![r] = t]
      /\ logins' = [logins EXCEPT ![r][KeyOf(r)] = @ + 1]
  BY DEF Issue, Proceed, Hold
<1>2. /\ pc' = pc /\ plan' = plan /\ results' = results
      /\ KeyOf(r)' = KeyOf(r)
      /\ AsSomebody(r)' <=> AsSomebody(r)
      /\ Requesting(r)' <=> Requesting(r)
  BY <1>1, SameKey DEF vars
<1>3. /\ TokensTypeOK /\ CacheFits
      /\ \A q \in Runs : CallFits(q)
  BY IndInvByCall
<1>4. KeyOf(r) \in Keys /\ AsSomebody(r) /\ Requesting(r) /\ logins[r][KeyOf(r)] = 0
  BY <1>1, <1>3 DEF CallFits, HandFits
<1>5. t \in Tokens /\ t.of = KeyOf(r)
  BY <1>4, KeyTypes
<1>6. /\ logins' \in [Runs -> [Keys -> Nat]]
      /\ logins'[r] = [logins[r] EXCEPT ![KeyOf(r)] = 1]
      /\ \A q \in Runs \ {r} : logins'[q] = logins[q]
  <2>1. logins'[r] = [logins[r] EXCEPT ![KeyOf(r)] = logins[r][KeyOf(r)] + 1]
    BY <1>1, <1>3 DEF TokensTypeOK
  <2> QED
    BY <1>1, <1>3, <1>4, <2>1 DEF TokensTypeOK
<1>7. TokensTypeOK' /\ CacheFits'
  BY <1>1, <1>3, <1>5, <1>6 DEF TokensTypeOK, CacheFits, Legs
<1>8. ASSUME NEW q \in Runs \ {r}
      PROVE  CallFits(q)'
  <2>1. leg'[q] = leg[q] /\ token'[q] = token[q] /\ logins'[q] = logins[q]
    BY <1>1, <1>3, <1>6 DEF TokensTypeOK
  <2> QED
    BY <1>1, <1>2, <1>3, <2>1, RestFits
<1>9. CallFits(r)'
  <2>1. /\ leg'[r] = "loggedIn" /\ token'[r] = t
        /\ \A k \in Keys : logins'[r][k] = IF k = KeyOf(r) THEN 1 ELSE logins[r][k]
    BY <1>1, <1>3, <1>6 DEF TokensTypeOK
  <2>2. HandFits(r)' /\ OwnHand(r)'
    BY <1>2, <1>4, <1>5, <2>1 DEF HandFits, OwnHand, Keys
  <2>3. \A k \in Keys : logins'[r][k] <= 1
    BY <1>3, <2>1 DEF CallFits
  <2>4. pc[r] # "idle"
    BY <1>4 DEF Requesting
  <2>5. \A k \in Keys : logins'[r][k] > 0 /\ pc'[r] \in Early =>
            pc'[r] # "idle" /\ (tokenCache'[k] # NoToken \/ (leg'[r] = "loggedIn" /\ KeyOf(r)' = k))
    BY <1>1, <1>2, <1>3, <2>1, <2>4 DEF CallFits
  <2> QED
    BY <2>2, <2>3, <2>5 DEF CallFits, Early
<1> QED
  BY <1>7, <1>8, <1>9, IndInvByCall

\* The call stores its token over whatever is there, which fits the key as its own does.
LEMMA StoreKeepsTokens ==
    ASSUME TokensIndInv, IndInv', NEW r \in Runs, Store(r)
    PROVE  TokensIndInv'
<1>1. /\ UNCHANGED <<vars, token, logins, ended>>
      /\ leg[r] = "loggedIn" /\ leg' = [leg EXCEPT ![r] = "requesting"]
      /\ tokenCache' = [tokenCache EXCEPT ![KeyOf(r)] = token[r]]
  BY DEF Store, Proceed
<1>2. /\ pc' = pc /\ plan' = plan /\ results' = results
      /\ KeyOf(r)' = KeyOf(r)
      /\ AsSomebody(r)' <=> AsSomebody(r)
      /\ Requesting(r)' <=> Requesting(r)
  BY <1>1, SameKey DEF vars
<1>3. /\ TokensTypeOK /\ CacheFits
      /\ \A q \in Runs : CallFits(q)
  BY IndInvByCall
<1>4. KeyOf(r) \in Keys /\ AsSomebody(r) /\ Requesting(r) /\ token[r].of = KeyOf(r)
  BY <1>1, <1>3 DEF CallFits, HandFits
<1>5. token[r] \in Tokens \cup {NoToken} /\ token[r] # NoToken
  <2>1. KeyOf(r) # <<>>
    BY <1>4, KeyIsPair
  <2> QED
    BY <1>3, <1>4, <2>1 DEF NoToken, TokensTypeOK
<1>6. /\ TokensTypeOK' /\ CacheFits'
      /\ \A k \in Keys : tokenCache[k] # NoToken => tokenCache'[k] # NoToken
      /\ tokenCache'[KeyOf(r)] # NoToken
  BY <1>1, <1>3, <1>4, <1>5 DEF TokensTypeOK, CacheFits, Legs
<1>7. ASSUME NEW q \in Runs \ {r}
      PROVE  CallFits(q)'
  <2>1. leg'[q] = leg[q] /\ token'[q] = token[q] /\ logins'[q] = logins[q]
    BY <1>1, <1>3 DEF TokensTypeOK
  <2> QED
    BY <1>2, <1>3, <1>6, <2>1, RestFits
<1>8. CallFits(r)'
  <2>1. leg'[r] = "requesting" /\ token'[r] = token[r] /\ logins'[r] = logins[r]
    BY <1>1, <1>3 DEF TokensTypeOK
  <2>2. HandFits(r)' /\ OwnHand(r)'
    BY <1>2, <1>4, <2>1 DEF HandFits, OwnHand
  <2>3. \A k \in Keys : logins'[r][k] <= 1
    BY <1>3, <2>1 DEF CallFits
  <2>4. \A k \in Keys : logins'[r][k] > 0 /\ pc'[r] \in Early =>
            pc'[r] # "idle" /\ tokenCache'[k] # NoToken
    BY <1>2, <1>3, <1>6, <2>1 DEF CallFits
  <2> QED
    BY <2>2, <2>3, <2>4 DEF CallFits, Early
<1> QED
  BY <1>6, <1>7, <1>8, IndInvByCall

\* The request is over, one way or another: the call has nothing in hand, and asks again
\* only after a step that passed.
LEMMA EndKeepsTokens ==
    ASSUME TokensIndInv, IndInv', NEW r \in Runs,
           RequestAnswered(r) \/ RequestFails(r)
    PROVE  TokensIndInv'
<1>1. /\ leg' = [leg EXCEPT ![r] = "none"] /\ token' = [token EXCEPT ![r] = NoToken]
      /\ UNCHANGED <<tokenCache, logins, ended>>
  BY DEF RequestAnswered, RequestFails, Proceed, Hold
<1>2. PICK entry : Record(r, entry)
  BY DEF RequestAnswered, RequestFails, ApiAnswered, StepEnded
<1>3. /\ plan' = plan
      /\ \A q \in Runs \ {r} : pc'[q] = pc[q] /\ results'[q] = results[q]
      /\ pc[r] = "awaiting"
  BY <1>2 DEF Record, Goto, RequestAnswered, RequestFails, ApiAnswered, StepEnded,
     TokensIndInv, IndInv, TypeOK
<1>4. /\ TokensTypeOK /\ CacheFits
      /\ \A q \in Runs : CallFits(q)
  BY IndInvByCall
<1>5. TokensTypeOK' /\ CacheFits'
  BY <1>1, <1>4 DEF TokensTypeOK, CacheFits, Legs
<1>6. ASSUME NEW q \in Runs \ {r}
      PROVE  CallFits(q)'
  <2>1. leg'[q] = leg[q] /\ token'[q] = token[q] /\ logins'[q] = logins[q]
    BY <1>1, <1>4 DEF TokensTypeOK
  <2> QED
    BY <1>1, <1>3, <1>4, <2>1, RestFits
<1>7. CallFits(r)'
  <2>1. leg'[r] = "none" /\ logins'[r] = logins[r] /\ pc'[r] # "idle"
    BY <1>1, <1>2, <1>4 DEF TokensTypeOK, Record, Goto, IndInv, TypeOK, TokensIndInv
  <2>2. CASE RequestAnswered(r)
    <3>1. leg[r] = "requesting"
      BY <2>2 DEF RequestAnswered
    <3> QED
      BY <1>1, <1>3, <1>4, <2>1, <3>1, FreeFits DEF CallFits, Early
  <2>3. CASE RequestFails(r)
    <3>1. pc'[r] \notin Early
      BY <2>3 DEF RequestFails, Requesting, StepEnded, Record, Goto, Early,
         TokensIndInv, IndInv, TypeOK
    <3> QED
      BY <1>4, <2>1, <3>1, FreeFits DEF CallFits
  <2> QED
    BY <2>2, <2>3
<1> QED
  BY <1>5, <1>6, <1>7, IndInvByCall

LEMMA TokensStep == TokensIndInv /\ [TokensNext]_allVars => TokensIndInv'
<1> SUFFICES ASSUME TokensIndInv, [TokensNext]_allVars
             PROVE  TokensIndInv'
  OBVIOUS
<1>1. IndInv'
  BY StepsAreCoreSteps, StepKeepsIndInv DEF TokensIndInv
<1>2. CASE (\E p \in Reviewed : Approve(p) \/ Revoke(p)) /\ UNCHANGED tokenVars
  <2>1. \A r \in Runs : pc'[r] = pc[r] /\ plan'[r] = plan[r] /\ results'[r] = results[r]
    BY <1>2 DEF Approve, Revoke
  <2> QED
    BY <1>1, <1>2, <2>1, OtherStepsKeepTokens, {} \in SUBSET Runs
<1>3. ASSUME NEW r \in Runs, NEW p \in Plans, Block(r, p) \/ Start(r, p), UNCHANGED tokenVars
      PROVE  TokensIndInv'
  <2>1. /\ leg[r] = "none" /\ pc[r] \in Early /\ pc'[r] # "idle"
        /\ \A q \in Runs \ {r} :
               pc'[q] = pc[q] /\ plan'[q] = plan[q] /\ results'[q] = results[q]
    BY <1>3 DEF Block, Start, Arrive, Goto, Early, TokensIndInv, IndInv, TypeOK, TokensTypeOK,
       TokensFit, HandFits, Requesting, Keys
  <2> QED
    BY <1>1, <1>3, <2>1, OtherStepsKeepTokens, {r} \in SUBSET Runs
<1>4. ASSUME NEW r \in Runs, OtherProgress(r)
      PROVE  TokensIndInv'
  <2>1. leg[r] = "none"
    BY <1>4 DEF OtherProgress, Opened, OpenFailed, AssertStatus, CannotResolve, AwaitOther,
       Await, NoWindowFound, OtherEnded, ShotTaken, AllStepsPassed, Closed, Report,
       Requesting, TokensIndInv, TokensFit, HandFits
  <2>2. /\ pc'[r] \in Early => pc[r] \in Early /\ pc'[r] # "idle"
        /\ \A q \in Runs \ {r} :
               pc'[q] = pc[q] /\ plan'[q] = plan[q] /\ results'[q] = results[q]
    BY <1>4 DEF OtherProgress, Opened, OpenFailed, AssertStatus, CannotResolve, AwaitOther,
       Await, NoWindowFound, OtherEnded, StepEnded, ShotTaken, AllStepsPassed, Closed, Report,
       Record, Goto, Early, TokensIndInv, IndInv, TypeOK
  <2>3. UNCHANGED tokenVars
    BY <1>4 DEF OtherProgress
  <2> QED
    BY <1>1, <2>1, <2>2, <2>3, OtherStepsKeepTokens, {r} \in SUBSET Runs
<1>5. ASSUME NEW r \in Runs, RequestProgress(r)
      PROVE  TokensIndInv'
  BY <1>1, <1>5, BeginKeepsTokens, IssueKeepsTokens, StoreKeepsTokens, EndKeepsTokens
     DEF RequestProgress
<1>6. CASE SessionEnds
  <2>1. /\ UNCHANGED <<vars, tokenCache, leg, token, logins>>
        /\ ended' \subseteq Tokens
    BY <1>6 DEF SessionEnds, TokensIndInv, TokensTypeOK, NoToken, Tokens
  <2>2. TokensTypeOK' /\ CacheFits'
    BY <2>1, IndInvByCall DEF TokensTypeOK, CacheFits
  <2>3. \A r \in Runs : CallFits(r)'
    BY <2>1, IndInvByCall, RestFits DEF vars
  <2> QED
    BY <1>1, <2>2, <2>3, IndInvByCall
<1>7. CASE ServerDiesWithTokens
  <2>1. /\ tokenCache' = [k \in Keys |-> NoToken] /\ leg' = [r \in Runs |-> "none"]
        /\ token' = [r \in Runs |-> NoToken] /\ UNCHANGED <<logins, ended>>
        /\ \A r \in Runs : pc'[r] \in Early => pc'[r] = "idle" /\ pc[r] = "idle"
    BY <1>7 DEF ServerDiesWithTokens, ServerDies, Early
  <2>2. TokensTypeOK' /\ CacheFits'
    BY <2>1, IndInvByCall DEF TokensTypeOK, CacheFits, Legs
  <2>3. ASSUME NEW r \in Runs
        PROVE  CallFits(r)'
    <3>1. CallFits(r) /\ leg'[r] = "none" /\ logins'[r] = logins[r]
      BY <2>1, IndInvByCall
    <3> QED
      BY <2>1, <3>1, FreeFits DEF CallFits
  <2> QED
    BY <1>1, <2>2, <2>3, IndInvByCall
<1>8. CASE UNCHANGED allVars
  <2>1. \A r \in Runs : pc'[r] = pc[r] /\ plan'[r] = plan[r] /\ results'[r] = results[r]
    BY <1>8 DEF allVars, vars
  <2> QED
    BY <1>1, <1>8, <2>1, OtherStepsKeepTokens, {} \in SUBSET Runs DEF allVars
<1> QED
  BY <1>2, <1>3, <1>4, <1>5, <1>6, <1>7, <1>8 DEF TokensNext

-----------------------------------------------------------------------------
\* The cache is empty and nothing is under way.
LEMMA TokensInitially == TokensInit => TokensIndInv
<1> SUFFICES ASSUME TokensInit
             PROVE  TokensIndInv
  OBVIOUS
<1>1. IndInv
  BY InitEstablishesIndInv DEF TokensInit
<1>2. TokensTypeOK /\ TokenIsOwn /\ TokensFit
  BY DEF TokensInit, TokensTypeOK, TokenIsOwn, TokensFit, HandFits, Legs
<1>3. LoginsAreFew /\ IssuedIsCached
  BY DEF TokensInit, LoginsAreFew, IssuedIsCached
<1> QED
  BY <1>1, <1>2, <1>3 DEF TokensIndInv

\* Whatever the requests do between the steps of PlanRuns, the calls behave as PlanRuns
\* says: its theorems hold with tokens as they do without.
\* (executor/api.py under engine._execute)
THEOREM TokensImplementCore == TokensSpec => Spec
<1>1. TokensInit => Init
  BY DEF TokensInit
<1> QED
  BY <1>1, StepsAreCoreSteps, PTL DEF TokensSpec, Spec

\* The inductive invariant of the runs and the cache together.
\* (ApiExecutor._token and request)
THEOREM TokensIndInvHolds == TokensSpec => []TokensIndInv
BY TokensInitially, TokensStep, PTL DEF TokensSpec

\* Every request goes out with the token of the identity its step means, whatever other
\* calls do to the cache meanwhile. (ApiExecutor._token)
THEOREM TokensAreOwn == TokensSpec => []TokenIsOwn
<1>1. TokensIndInv => TokenIsOwn
  BY DEF TokensIndInv
<1> QED
  BY <1>1, TokensIndInvHolds, PTL

\* No call asks an application twice for the token of an identity, however many calls
\* race to store theirs. (ApiExecutor._token)
THEOREM FewLogins == TokensSpec => []LoginsAreFew
<1>1. TokensIndInv => LoginsAreFew
  BY DEF TokensIndInv
<1> QED
  BY <1>1, TokensIndInvHolds, PTL
=============================================================================
