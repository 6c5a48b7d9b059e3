------------------------------ MODULE Session ------------------------------
(***************************************************************************)
(* The platform session: J41Client.request() with its retries and its one  *)
(* re-authentication (src/src/client/index.ts), and J41Agent.login(), the  *)
(* mutex behind it (src/src/agent.ts).  The challenge that begins a login  *)
(* is itself fetched through request().                                    *)
(*                                                                         *)
(* Requests in flight interleave freely: the platform judges a request     *)
(* when it processes it, and the client acts on the answer when it         *)
(* arrives.  A session token is the number of the login that got it; 0 is  *)
(* JavaScript's null.                                                      *)
(***************************************************************************)
EXTENDS Integers, FiniteSets

CONSTANTS
    Calls,             \* API calls that can be in flight together
    Logins,            \* runs of _loginImpl that can be in flight together
    Transfers,         \* file transfers that can be in flight together
    None,
    maxRetries,
    Forbids,           \* whether the platform answers 403 to a live session
    GuardsChallenge,   \* whether it answers 401/403 to a challenge request
    MaxTokens          \* bound of the model: sessions the platform issues

ASSUME NameAssumption  == /\ Calls \cap Logins = {} /\ None \notin Logins
                          /\ Transfers \cap (Calls \cup Logins) = {}
                          /\ Forbids \in BOOLEAN /\ GuardsChallenge \in BOOLEAN
ASSUME RetryAssumption == maxRetries \in Nat \ {0} /\ MaxTokens \in Nat

VARIABLES
    sessionToken,      \* the client's token
    loginPromise,      \* the login every caller of login() shares, or None
    stage,             \* each login: "idle", "challenge", "verify"
    pc, attempt,       \* each request(): where it is and its loop counter
    used,              \* the token its last transmission carried
    answer,            \* the platform's answer to it, not yet acted on
    waitsFor,          \* the login whose promise it awaits, or None
    grant,             \* each login: the session the platform granted it
    issued, valid      \* the platform: sessions issued, and those alive

loginVars    == <<loginPromise, stage, grant>>
requestVars  == <<pc, attempt, used, answer, waitsFor>>
platformVars == <<issued, valid>>
vars         == <<sessionToken, loginVars, requestVars, platformVars>>

Managed  == Calls \cup Logins    \* a login's request is its challenge fetch
Requests == Managed \cup Transfers
Tokens   == 0..MaxTokens
Answers  == {"none", "ok", "denied", "transient", "error"}

TypeOK ==
    /\ sessionToken \in Tokens /\ issued \in Tokens /\ valid \in SUBSET Tokens
    /\ loginPromise \in Logins \cup {None}
    /\ stage \in [Logins -> {"idle", "challenge", "verify"}]
    /\ grant \in [Logins -> Tokens]
    /\ pc \in [Requests -> {"idle", "sent", "backoff", "reauth"}]
    /\ attempt \in [Requests -> 0..maxRetries - 1] /\ used \in [Requests -> Tokens]
    /\ answer \in [Requests -> Answers]
    /\ waitsFor \in [Requests -> Logins \cup {None}]

----------------------------------------------------------------------------
\* f with the value v at every member of S.
Over(f, S, v) == [x \in DOMAIN f |-> IF x \in S THEN v ELSE f[x]]

\* _doRequest() of every x in S leaves with the token the client holds.
Transmit(S, token) ==
    /\ pc' = Over(pc, S, "sent")
    /\ used' = Over(used, S, token)
    /\ answer' = Over(answer, S, "none")
    /\ waitsFor' = Over(waitsFor, S, None)

\* request() of every x in S is over.
Return(S) ==
    /\ pc' = Over(pc, S, "idle")
    /\ attempt' = Over(attempt, S, 0)
    /\ used' = Over(used, S, 0)
    /\ answer' = Over(answer, S, "none")
    /\ waitsFor' = Over(waitsFor, S, None)

Waiters(l) == {x \in Requests : pc[x] = "reauth" /\ waitsFor[x] = l}

----------------------------------------------------------------------------
(* login() *)

\* Mutant: no mutex, every caller runs a login of its own.
StartsLogin_NoMutex(l) == stage[l] = "idle"

\* A caller of login() begins login l when there is none to share.
StartsLogin(l) == loginPromise = None /\ stage[l] = "idle"

\* authenticate(), sendCurrency(), registerWithJ41()...: login() from outside
\* a request.  Sharing a login in flight changes nothing.
login(l) ==
    /\ StartsLogin(l)
    /\ loginPromise' = l /\ stage' = [stage EXCEPT ![l] = "challenge"]
    /\ Transmit({l}, sessionToken) /\ attempt' = [attempt EXCEPT ![l] = 0]
    /\ UNCHANGED <<sessionToken, grant, platformVars>>

\* _loginImpl() rejects: the mutex is released, and whoever awaited it
\* throws the error that made it re-authenticate.
LoginRejects(l) ==
    /\ loginPromise' = None /\ stage' = [stage EXCEPT ![l] = "idle"]
    /\ grant' = [grant EXCEPT ![l] = 0]
    /\ Return({l} \cup Waiters(l))

\* The challenge checked and signed, /auth/consent/verify on its way; or the
\* challenge is expired, malformed or a protocol message, or signing fails.
ChallengeArrives(l) ==
    /\ stage[l] = "challenge" /\ pc[l] = "sent" /\ answer[l] = "ok"
    /\ \/ /\ stage' = [stage EXCEPT ![l] = "verify"] /\ Return({l})
          /\ UNCHANGED <<loginPromise, grant>>
       \/ LoginRejects(l)
    /\ UNCHANGED <<sessionToken, platformVars>>

\* Mutant: the granted token is not put in the client.
Verified_TokenLost(l) ==
    /\ stage[l] = "verify" /\ grant[l] > 0
    /\ loginPromise' = None /\ stage' = [stage EXCEPT ![l] = "idle"]
    /\ grant' = [grant EXCEPT ![l] = 0]
    /\ IF maxRetries > 1
         THEN Transmit(Waiters(l), sessionToken) /\ attempt' = Over(attempt, Waiters(l), 1)
         ELSE Return(Waiters(l))
    /\ UNCHANGED <<sessionToken, platformVars>>

\* The session cookie arrives: it replaces the client's token, the mutex is
\* released and the waiting requests are sent again.
Verified(l) ==
    /\ stage[l] = "verify" /\ grant[l] > 0
    /\ sessionToken' = grant[l]
    /\ loginPromise' = None /\ stage' = [stage EXCEPT ![l] = "idle"]
    /\ grant' = [grant EXCEPT ![l] = 0]
    /\ IF maxRetries > 1
         THEN Transmit(Waiters(l), grant[l]) /\ attempt' = Over(attempt, Waiters(l), 1)
         ELSE Return(Waiters(l))
    /\ UNCHANGED platformVars

\* verify is refused, lost, timed out, or answered without a cookie.
VerifyFails(l) ==
    /\ stage[l] = "verify" /\ LoginRejects(l)
    /\ UNCHANGED <<sessionToken, platformVars>>

----------------------------------------------------------------------------
(* request() *)

Call(c) ==
    /\ pc[c] = "idle"
    /\ Transmit({c}, sessionToken) /\ attempt' = [attempt EXCEPT ![c] = 0]
    /\ UNCHANGED <<sessionToken, loginVars, platformVars>>

\* request() of x throws; a challenge request takes its login with it.
Throws(x) ==
    IF x \in Logins THEN LoginRejects(x) ELSE Return({x}) /\ UNCHANGED loginVars

Succeeds(c) ==
    /\ pc[c] = "sent" /\ answer[c] = "ok"
    /\ Return({c})
    /\ UNCHANGED <<sessionToken, loginVars, platformVars>>

\* The 401/403 branch of _doRequest(): the token is dropped, unless the body
\* is not JSON or too long, which throws before that.
DropToken == sessionToken' \in {0, sessionToken}

\* 401 or 403 on the first attempt: login() is awaited.
Reauth(x) ==
    /\ pc[x] = "sent" /\ answer[x] = "denied" /\ attempt[x] = 0
    /\ DropToken
    /\ \/ /\ loginPromise # None
          /\ pc' = [pc EXCEPT ![x] = "reauth"]
          /\ answer' = [answer EXCEPT ![x] = "none"]
          /\ waitsFor' = [waitsFor EXCEPT ![x] = loginPromise]
          /\ UNCHANGED <<attempt, used, loginVars>>
       \/ \E l \in Logins :
            /\ StartsLogin(l)
            /\ loginPromise' = l /\ stage' = [stage EXCEPT ![l] = "challenge"]
            /\ pc' = [pc EXCEPT ![x] = "reauth", ![l] = "sent"]
            /\ answer' = [answer EXCEPT ![x] = "none"]
            /\ waitsFor' = [waitsFor EXCEPT ![x] = l]
            /\ used' = [used EXCEPT ![l] = sessionToken']
            /\ UNCHANGED <<attempt, grant>>
    /\ UNCHANGED platformVars

\* 401 or 403 again: the error is thrown.
Denied(x) ==
    /\ pc[x] = "sent" /\ answer[x] = "denied" /\ attempt[x] > 0
    /\ DropToken /\ Throws(x)
    /\ UNCHANGED platformVars

\* Mutant: retries are not counted.
Retry_Forever(x) ==
    /\ pc[x] = "sent" /\ answer[x] = "transient"
    /\ pc' = [pc EXCEPT ![x] = "backoff"]
    /\ answer' = [answer EXCEPT ![x] = "none"]
    /\ UNCHANGED <<attempt, used, waitsFor, sessionToken, loginVars, platformVars>>

\* 429, 5xx or a network error: back off, unless this was the last attempt.
Retry(x) ==
    /\ pc[x] = "sent" /\ answer[x] = "transient" /\ attempt[x] < maxRetries - 1
    /\ pc' = [pc EXCEPT ![x] = "backoff"]
    /\ attempt' = [attempt EXCEPT ![x] = @ + 1]
    /\ answer' = [answer EXCEPT ![x] = "none"]
    /\ UNCHANGED <<used, waitsFor, sessionToken, loginVars, platformVars>>

BackoffEnds(x) ==
    /\ pc[x] = "backoff"
    /\ Transmit({x}, sessionToken)
    /\ UNCHANGED <<attempt, sessionToken, loginVars, platformVars>>

\* An error that is not retried (the client's own timeout included), or the
\* last transient one.
Fails(x) ==
    /\ pc[x] = "sent"
    /\ \/ answer[x] = "error"
       \/ answer[x] = "transient" /\ attempt[x] >= maxRetries - 1
    /\ Throws(x)
    /\ UNCHANGED <<sessionToken, platformVars>>

----------------------------------------------------------------------------
(* The platform and the network (external) *)

MayDeny(x) == IF x \in Logins THEN GuardsChallenge
                              ELSE used[x] \notin valid \/ Forbids

\* Processed, or lost on the way there or back.
Answered(x) ==
    /\ pc[x] = "sent" /\ answer[x] = "none"
    /\ \E a \in {"ok", "denied", "transient", "error"} :
         /\ a = "denied" => MayDeny(x)
         /\ a = "ok" => x \in Logins \/ used[x] \in valid
         /\ answer' = [answer EXCEPT ![x] = a]
    /\ UNCHANGED <<pc, attempt, used, waitsFor, sessionToken, loginVars, platformVars>>

\* A login is verified and a session issued, the cookie on its way back.
SessionGranted(l) ==
    /\ stage[l] = "verify" /\ grant[l] = 0 /\ issued < MaxTokens
    /\ issued' = issued + 1 /\ valid' = valid \cup {issued + 1}
    /\ grant' = [grant EXCEPT ![l] = issued + 1]
    /\ UNCHANGED <<sessionToken, loginPromise, stage, requestVars>>

SessionExpires(t) ==
    /\ t \in valid /\ valid' = valid \ {t}
    /\ UNCHANGED <<sessionToken, loginVars, requestVars, issued>>

----------------------------------------------------------------------------
(* uploadFile() and downloadFile(), which do not go through request() *)

Transfer(f) == Call(f)

\* One transmission: whatever the answer, it is neither retried nor sent again
\* after a login, and a 401/403 drops the token that the client holds by then.
\* (A session that has expired stays so: verdict and arrival are one step.)
TransferEnds(f) ==
    /\ pc[f] = "sent"
    /\ (MayDeny(f) /\ DropToken) \/ UNCHANGED sessionToken
    /\ Return({f})
    /\ UNCHANGED <<loginVars, platformVars>>

----------------------------------------------------------------------------

Init ==
    /\ sessionToken = 0 /\ issued = 0 /\ valid = {}
    /\ loginPromise = None /\ stage = [l \in Logins |-> "idle"]
    /\ grant = [l \in Logins |-> 0]
    /\ pc = [x \in Requests |-> "idle"] /\ attempt = [x \in Requests |-> 0]
    /\ used = [x \in Requests |-> 0] /\ answer = [x \in Requests |-> "none"]
    /\ waitsFor = [x \in Requests |-> None]

RequestStep(x) == \/ Answered(x) \/ Reauth(x) \/ Denied(x) \/ Retry(x)
                  \/ BackoffEnds(x) \/ Fails(x)
LoginStep(l) == ChallengeArrives(l) \/ Verified(l) \/ VerifyFails(l)

Next ==
    \/ \E c \in Calls : Call(c) \/ Succeeds(c)
    \/ \E x \in Managed : RequestStep(x)
    \/ \E f \in Transfers : Transfer(f) \/ TransferEnds(f)
    \/ \E l \in Logins : login(l) \/ LoginStep(l) \/ SessionGranted(l)
    \/ \E t \in Tokens : SessionExpires(t)

Spec == Init /\ [][Next]_vars

\* Every transmission is answered or times out, timers fire, and answers
\* that have arrived are acted on.
FairSpec ==
    /\ Spec
    /\ \A x \in Managed : WF_vars(RequestStep(x))
    /\ \A c \in Calls : WF_vars(Succeeds(c))
    /\ \A l \in Logins : WF_vars(LoginStep(l))

----------------------------------------------------------------------------
(* Properties *)

(* The login mutex "to prevent session token races": whatever order answers  *)
(* arrive in, a login never replaces the client's token by an older one.     *)
TokenNeverRegresses ==
    [][sessionToken' # 0 => sessionToken' >= sessionToken]_vars

(* Re-authentication is worth its retry: a request sent again after login()  *)
(* carries a session issued after the one it was refused with, also when it  *)
(* joined a login another request had begun.                                 *)
RetryIsFresh ==
    [][\A x \in Requests : pc[x] = "reauth" /\ pc'[x] = "sent" => used'[x] > used[x]]_vars

(* Every call of request() settles - through retries, backoff and the wait   *)
(* for a login that other requests share.                                    *)
EveryCallSettles == \A c \in Calls : pc[c] # "idle" ~> pc[c] = "idle"

(* "Wire auto re-auth: on 401/403, J41Client calls login() to refresh        *)
(* session": a login that has begun is over in the end, so that the next one *)
(* can begin.                                                                *)
LoginSettles == \A l \in Logins : stage[l] # "idle" ~> stage[l] = "idle"

(* The inductive strengthening of the two token properties, by parts. *)

\* A login under way is the one every caller shares.
OneLogin == \A l \in Logins : /\ stage[l] # "idle" => loginPromise = l
                              /\ grant[l] > 0 => stage[l] = "verify"
                              /\ pc[l] # "idle" => stage[l] = "challenge"

\* A session granted is newer than every token in the client's hands.
GrantIsNewest ==
    /\ sessionToken <= issued /\ \A x \in Requests : used[x] <= issued
    /\ \A l \in Logins : grant[l] <= issued
    /\ \A l \in Logins : grant[l] > 0 =>
         sessionToken < grant[l] /\ \A x \in Requests : used[x] < grant[l]

IInv == TypeOK /\ OneLogin /\ GrantIsNewest

(* The safety behind EveryCallSettles: the mutex is not left held by a login *)
(* that is over, whoever awaits a login awaits the one under way, and no     *)
(* login awaits one (itself, then) unless the platform answers 401 or 403 to *)
(* a challenge request.                                                      *)
WaitsForLiveLogin ==
    /\ loginPromise # None => stage[loginPromise] # "idle"
    /\ \A l \in Logins : stage[l] = "challenge" => pc[l] # "idle"
    /\ \A x \in Requests : pc[x] = "reauth" =>
         loginPromise # None /\ waitsFor[x] = loginPromise
    /\ ~ GuardsChallenge => \A l \in Logins : pc[l] # "reauth" /\ answer[l] # "denied"

============================================================================
