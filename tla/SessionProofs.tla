--------------------------- MODULE SessionProofs ---------------------------
(***************************************************************************)
(* The two token properties, and that nobody awaits a login that is over,  *)
(* for any number of requests, logins, sessions and retries.               *)
(***************************************************************************)
EXTENDS Session, TLAPS

(* Null and the first attempt are within bounds.                             *)
LEMMA Zeros == 0 \in Tokens /\ 0 \in 0..maxRetries - 1
BY RetryAssumption DEF Tokens

(* What a transmission does to the requests.                                 *)
LEMMA TransmitType ==
    ASSUME TypeOK, NEW S \in SUBSET Requests, NEW t \in Tokens, Transmit(S, t)
    PROVE  /\ pc' \in [Requests -> {"idle", "sent", "backoff", "reauth"}]
           /\ used' \in [Requests -> Tokens] /\ answer' \in [Requests -> Answers]
           /\ waitsFor' \in [Requests -> Logins \cup {None}]
           /\ \A x \in Requests : used'[x] = IF x \in S THEN t ELSE used[x]
           /\ \A x \in Requests : pc'[x] = IF x \in S THEN "sent" ELSE pc[x]
BY DEF Transmit, Over, TypeOK, Answers

(* What the end of some requests does to them.                               *)
LEMMA ReturnType ==
    ASSUME TypeOK, NEW S \in SUBSET Requests, Return(S)
    PROVE  /\ pc' \in [Requests -> {"idle", "sent", "backoff", "reauth"}]
           /\ attempt' \in [Requests -> 0..maxRetries - 1]
           /\ used' \in [Requests -> Tokens] /\ answer' \in [Requests -> Answers]
           /\ waitsFor' \in [Requests -> Logins \cup {None}]
           /\ \A x \in Requests : used'[x] = IF x \in S THEN 0 ELSE used[x]
           /\ \A x \in Requests : pc'[x] = IF x \in S THEN "idle" ELSE pc[x]
BY RetryAssumption DEF Return, Over, TypeOK, Answers, Tokens

(* The requests a login resumes are requests.                                *)
LEMMA WaitersType ==
    \A l \in Logins : Waiters(l) \in SUBSET Requests /\ {l} \cup Waiters(l) \in SUBSET Requests
BY DEF Waiters, Requests, Managed

(* A login that rejects leaves no grant behind.                              *)
LEMMA RejectsStep ==
    ASSUME IInv, NEW l \in Logins, stage[l] # "idle", LoginRejects(l),
           sessionToken' \in {sessionToken, 0}, UNCHANGED <<issued, valid>>
    PROVE  IInv' /\ \A x \in Requests : pc'[x] = "sent" => pc[x] = "sent"
<1> USE DEF IInv
<1>1. Return({l} \cup Waiters(l)) /\ {l} \cup Waiters(l) \in SUBSET Requests
  BY WaitersType DEF LoginRejects
<1>2. TypeOK'
  BY <1>1, ReturnType, RetryAssumption DEF LoginRejects, TypeOK, Tokens
<1>3. OneLogin'
  <2>1. \A k \in Logins : k \in Requests BY DEF Requests, Managed
  <2>2. \A k \in Logins : k # l => pc[k] = "idle" /\ stage[k] = "idle" BY DEF OneLogin
  <2>3. \A k \in Logins : pc'[k] = "idle" BY <1>1, <2>1, <2>2, ReturnType
  <2> QED BY <2>2, <2>3 DEF LoginRejects, OneLogin, TypeOK
<1>4. \A k \in Logins : grant'[k] = 0
  BY DEF LoginRejects, OneLogin, TypeOK, Tokens
<1>5. \A x \in Requests : used'[x] <= issued
  BY <1>1, ReturnType DEF GrantIsNewest, TypeOK, Tokens
<1>6. GrantIsNewest'
  BY <1>4, <1>5 DEF GrantIsNewest, TypeOK, Tokens
<1> QED BY <1>1, <1>2, <1>3, <1>6, ReturnType

(* A login is started by a caller outside any request.                       *)
LEMMA LoginStarts == ASSUME IInv, NEW l \in Logins, login(l) PROVE IInv'
<1> USE DEF IInv
<1>1. {l} \in SUBSET Requests /\ Transmit({l}, sessionToken) /\ sessionToken \in Tokens
  BY DEF login, Requests, Managed, TypeOK
<1>2. TypeOK'
  <2>1. attempt' \in [Requests -> 0..maxRetries - 1]
    <3>1. attempt' = [attempt EXCEPT ![l] = 0] BY DEF login
    <3> QED BY <3>1, Zeros DEF TypeOK
  <2>2. loginPromise' \in Logins \cup {None}
        /\ stage' \in [Logins -> {"idle", "challenge", "verify"}]
    BY DEF login, TypeOK
  <2>3. UNCHANGED <<sessionToken, grant, issued, valid>> BY DEF login, platformVars
  <2>4. /\ pc' \in [Requests -> {"idle", "sent", "backoff", "reauth"}]
        /\ used' \in [Requests -> Tokens] /\ answer' \in [Requests -> Answers]
        /\ waitsFor' \in [Requests -> Logins \cup {None}]
    BY <1>1, TransmitType
  <2> QED BY <2>1, <2>2, <2>3, <2>4 DEF TypeOK
<1>3. OneLogin'
  <2>1. \A k \in Logins : k \in Requests BY DEF Requests, Managed
  <2>2. \A k \in Logins : pc'[k] = IF k = l THEN "sent" ELSE pc[k]
    BY <1>1, <2>1, TransmitType
  <2>3. \A k \in Logins : stage[k] = "idle"
    BY NameAssumption DEF login, StartsLogin, OneLogin
  <2> QED BY <2>2, <2>3 DEF login, OneLogin, TypeOK
<1>4. \A x \in Requests : used'[x] \in {used[x], sessionToken}
  BY <1>1, TransmitType
<1>5. GrantIsNewest'
  BY <1>4 DEF login, GrantIsNewest, TypeOK, Tokens, platformVars
<1> QED BY <1>2, <1>3, <1>5

(* A challenge is signed, or refused.                                        *)
LEMMA ChallengeStep ==
    ASSUME IInv, NEW l \in Logins, ChallengeArrives(l) PROVE IInv'
<1> USE DEF IInv
<1>1. CASE LoginRejects(l)
  BY <1>1, RejectsStep DEF ChallengeArrives, platformVars
<1>2. CASE /\ stage' = [stage EXCEPT ![l] = "verify"] /\ Return({l})
           /\ UNCHANGED <<loginPromise, grant>>
  <2>1. {l} \in SUBSET Requests BY DEF Requests, Managed
  <2>2. TypeOK'
    BY <1>2, <2>1, ReturnType DEF ChallengeArrives, TypeOK, platformVars
  <2>3. OneLogin'
    <3>1. pc'[l] = "idle" /\ \A k \in Logins : k # l => pc'[k] = pc[k]
      BY <1>2, <2>1, ReturnType DEF Requests, Managed
    <3> QED BY <1>2, <3>1 DEF ChallengeArrives, OneLogin, TypeOK
  <2>4. \A x \in Requests : used'[x] \in {used[x], 0}
    BY <1>2, <2>1, ReturnType
  <2>5. GrantIsNewest'
    BY <1>2, <2>4 DEF ChallengeArrives, GrantIsNewest, TypeOK, Tokens, platformVars
  <2> QED BY <2>2, <2>3, <2>5
<1> QED BY <1>1, <1>2 DEF ChallengeArrives

(* The session cookie arrives.                                               *)
LEMMA VerifiedStep ==
    ASSUME IInv, NEW l \in Logins, Verified(l)
    PROVE  /\ IInv' /\ sessionToken' > sessionToken
           /\ \A x \in Requests : pc[x] = "reauth" /\ pc'[x] = "sent" => used'[x] > used[x]
<1> USE DEF IInv
<1>1. Waiters(l) \in SUBSET Requests /\ grant[l] \in Tokens /\ grant[l] > 0
  BY WaitersType DEF Verified, TypeOK
<1>2. /\ pc' \in [Requests -> {"idle", "sent", "backoff", "reauth"}]
      /\ used' \in [Requests -> Tokens] /\ answer' \in [Requests -> Answers]
      /\ waitsFor' \in [Requests -> Logins \cup {None}]
      /\ attempt' \in [Requests -> 0..maxRetries - 1]
      /\ \A x \in Requests : used'[x] \in {used[x], grant[l], 0}
      /\ \A x \in Requests : pc[x] = "reauth" /\ pc'[x] = "sent" => used'[x] = grant[l]
  <2>1. CASE Transmit(Waiters(l), grant[l]) /\ attempt' = Over(attempt, Waiters(l), 1)
                /\ maxRetries > 1
    <3>1. attempt' \in [Requests -> 0..maxRetries - 1]
      BY <2>1, RetryAssumption DEF Over, TypeOK
    <3>2. /\ pc' \in [Requests -> {"idle", "sent", "backoff", "reauth"}]
          /\ used' \in [Requests -> Tokens] /\ answer' \in [Requests -> Answers]
          /\ waitsFor' \in [Requests -> Logins \cup {None}]
          /\ \A y \in Requests : used'[y] = IF y \in Waiters(l) THEN grant[l] ELSE used[y]
          /\ \A y \in Requests : pc'[y] = IF y \in Waiters(l) THEN "sent" ELSE pc[y]
      BY <1>1, <2>1, TransmitType
    <3> QED BY <3>1, <3>2
  <2>2. CASE Return(Waiters(l))
    <3>1. \A x \in Requests : pc[x] = "reauth" => pc'[x] # "sent" BY <1>1, <2>2, ReturnType
    <3> QED BY <1>1, <2>2, <3>1, ReturnType
  <2> QED
    <3>1. \/ maxRetries > 1 /\ Transmit(Waiters(l), grant[l])
             /\ attempt' = Over(attempt, Waiters(l), 1)
          \/ Return(Waiters(l))
      BY DEF Verified
    <3> QED BY <2>1, <2>2, <3>1
<1>3. /\ sessionToken' = grant[l] /\ stage' = [stage EXCEPT ![l] = "idle"]
      /\ grant' = [grant EXCEPT ![l] = 0] /\ loginPromise' = None /\ UNCHANGED <<issued, valid>>
  BY DEF Verified, platformVars
<1>4. TypeOK' BY <1>1, <1>2, <1>3, RetryAssumption DEF TypeOK, Tokens
<1>5. OneLogin' /\ \A k \in Logins : grant'[k] = 0
  <2>1. \A k \in Logins : k # l => stage[k] = "idle" /\ grant[k] = 0
    BY DEF Verified, OneLogin, TypeOK, Tokens
  <2>2. \A k \in Logins : pc[k] = "idle" BY <2>1 DEF Verified, OneLogin
  <2>3. \A k \in Logins : k \in Requests /\ k \notin Waiters(l)
    BY <2>2 DEF Waiters, Requests, Managed
  <2>4. \A k \in Logins : pc'[k] = "idle"
    <3>1. CASE Transmit(Waiters(l), grant[l]) BY <1>1, <2>2, <2>3, <3>1, TransmitType
    <3>2. CASE Return(Waiters(l)) BY <1>1, <2>2, <2>3, <3>2, ReturnType
    <3> QED BY <3>1, <3>2 DEF Verified
  <2> QED BY <1>3, <2>1, <2>4 DEF OneLogin, TypeOK
<1>6. /\ sessionToken \in Nat /\ \A x \in Requests : used[x] \in Nat
      /\ grant[l] \in Nat /\ issued \in Nat
  BY <1>1 DEF TypeOK, Tokens
<1>7. sessionToken < grant[l] /\ \A x \in Requests : used[x] < grant[l]
  BY <1>1 DEF GrantIsNewest
<1>8. grant[l] <= issued BY DEF GrantIsNewest
<1>9. GrantIsNewest'
  BY <1>2, <1>3, <1>5, <1>6, <1>7, <1>8 DEF GrantIsNewest
<1> QED BY <1>2, <1>3, <1>4, <1>5, <1>6, <1>7, <1>9

(* A request is denied for the first time, and awaits a login.               *)
LEMMA ReauthStep ==
    ASSUME IInv, NEW x \in Requests, Reauth(x)
    PROVE  IInv' /\ \A y \in Requests : pc[y] = "reauth" => pc'[y] # "sent"
<1> USE DEF IInv
<1>1. \A k \in Logins : k \in Requests BY DEF Requests, Managed
<1>2. /\ sessionToken' \in {0, sessionToken} /\ pc[x] = "sent"
      /\ UNCHANGED <<issued, valid, attempt, grant>>
  BY DEF Reauth, DropToken, platformVars, loginVars
<1>3. CASE /\ loginPromise # None /\ pc' = [pc EXCEPT ![x] = "reauth"]
           /\ answer' = [answer EXCEPT ![x] = "none"]
           /\ waitsFor' = [waitsFor EXCEPT ![x] = loginPromise]
           /\ UNCHANGED <<used, loginVars>>
  <2>1. TypeOK'
    <3>1. pc' \in [Requests -> {"idle", "sent", "backoff", "reauth"}] BY <1>3 DEF TypeOK
    <3>2. answer' \in [Requests -> Answers] BY <1>3 DEF TypeOK, Answers
    <3>3. waitsFor' \in [Requests -> Logins \cup {None}] BY <1>3 DEF TypeOK
    <3> QED BY <1>2, <1>3, <3>1, <3>2, <3>3, Zeros DEF TypeOK, loginVars
  <2>2. OneLogin' BY <1>1, <1>2, <1>3 DEF OneLogin, TypeOK, loginVars
  <2>3. GrantIsNewest' BY <1>2, <1>3 DEF GrantIsNewest, TypeOK, Tokens, loginVars
  <2>4. \A y \in Requests : pc[y] = "reauth" => pc'[y] # "sent"
    BY <1>3 DEF TypeOK
  <2> QED BY <2>1, <2>2, <2>3, <2>4
<1>4. ASSUME NEW l \in Logins, StartsLogin(l),
             loginPromise' = l, stage' = [stage EXCEPT ![l] = "challenge"],
             pc' = [pc EXCEPT ![x] = "reauth", ![l] = "sent"],
             answer' = [answer EXCEPT ![x] = "none"],
             waitsFor' = [waitsFor EXCEPT ![x] = l], used' = [used EXCEPT ![l] = sessionToken']
      PROVE  IInv' /\ \A y \in Requests : pc[y] = "reauth" => pc'[y] # "sent"
  <2>1. \A k \in Logins : stage[k] = "idle" /\ pc[k] = "idle"
    BY <1>4, NameAssumption DEF StartsLogin, OneLogin
  <2>2. x \notin Logins BY <1>2, <2>1
  <2>3. pc' \in [Requests -> {"idle", "sent", "backoff", "reauth"}]
        /\ \A k \in Logins : pc'[k] = IF k = l THEN "sent" ELSE pc[k]
    BY <1>1, <1>4, <2>2 DEF TypeOK
  <2>4. used' \in [Requests -> Tokens] BY <1>2, <1>4, Zeros DEF TypeOK
  <2>5. TypeOK'
    <3>1. answer' \in [Requests -> Answers] BY <1>4 DEF TypeOK, Answers
    <3>2. waitsFor' \in [Requests -> Logins \cup {None}] BY <1>4 DEF TypeOK
    <3>3. stage' \in [Logins -> {"idle", "challenge", "verify"}] BY <1>4 DEF TypeOK
    <3> QED BY <1>2, <1>4, <2>3, <2>4, <3>1, <3>2, <3>3, Zeros DEF TypeOK
  <2>6. OneLogin' BY <1>2, <1>4, <2>1, <2>3 DEF OneLogin, TypeOK
  <2>7. \A y \in Requests : used'[y] = used[y] \/ used'[y] = sessionToken' BY <1>4 DEF TypeOK
  <2>8. GrantIsNewest' BY <1>2, <2>7, Zeros DEF GrantIsNewest, TypeOK, Tokens
  <2>9. \A y \in Requests : pc[y] = "reauth" => pc'[y] # "sent"
    BY <1>1, <1>4, <2>1 DEF TypeOK
  <2> QED BY <2>5, <2>6, <2>8, <2>9
<1> QED BY <1>3, <1>4 DEF Reauth

(* A request throws, and the login it belongs to with it.                    *)
LEMMA ThrowsStep ==
    ASSUME IInv, NEW x \in Requests, pc[x] = "sent", Throws(x),
           sessionToken' \in {sessionToken, 0}, UNCHANGED <<issued, valid>>
    PROVE  IInv' /\ \A y \in Requests : pc'[y] = "sent" => pc[y] = "sent"
<1> USE DEF IInv
<1>1. CASE x \in Logins
  BY <1>1, RejectsStep DEF Throws, OneLogin
<1>2. CASE x \notin Logins
  <2>1. Return({x}) /\ UNCHANGED loginVars /\ {x} \in SUBSET Requests
    BY <1>2 DEF Throws
  <2>2. sessionToken' \in Tokens BY RetryAssumption DEF TypeOK, Tokens
  <2>3. TypeOK' BY <2>1, <2>2, ReturnType DEF TypeOK, loginVars
  <2>4. \A k \in Logins : pc'[k] = pc[k] BY <1>2, <2>1, ReturnType DEF Requests, Managed
  <2>5. OneLogin' BY <2>1, <2>4 DEF OneLogin, loginVars
  <2>6. \A y \in Requests : used'[y] \in {used[y], 0} BY <2>1, ReturnType
  <2>7. GrantIsNewest'
    BY <2>1, <2>6 DEF GrantIsNewest, TypeOK, Tokens, loginVars
  <2> QED BY <2>1, <2>3, <2>5, <2>7, ReturnType
<1> QED BY <1>1, <1>2

(* The steps that neither finish a request nor touch a login.                *)
LEMMA PlainStep ==
    ASSUME IInv, NEW x \in Requests,
           (x \in Calls \cup Transfers /\ Call(x)) \/ Retry(x) \/ BackoffEnds(x) \/ Answered(x)
    PROVE  IInv' /\ \A y \in Requests : pc[y] = "reauth" => pc'[y] = "reauth"
<1> USE DEF IInv
<1>1. UNCHANGED <<sessionToken, stage, loginPromise, grant, issued, valid>>
  BY DEF Call, Retry, BackoffEnds, Answered, loginVars, platformVars
<1>2. {x} \in SUBSET Requests /\ sessionToken \in Tokens BY DEF TypeOK
<1>3. /\ pc' \in [Requests -> {"idle", "sent", "backoff", "reauth"}]
      /\ attempt' \in [Requests -> 0..maxRetries - 1]
      /\ used' \in [Requests -> Tokens] /\ answer' \in [Requests -> Answers]
      /\ waitsFor' \in [Requests -> Logins \cup {None}]
      /\ \A y \in Requests : used'[y] \in {used[y], sessionToken}
      /\ \A y \in Requests : pc[y] = "reauth" => pc'[y] = "reauth"
      /\ \A y \in Logins : pc[y] = "idle" => pc'[y] = "idle"
  <2>1. CASE x \in Calls \cup Transfers /\ Call(x)
    <3>1. attempt' \in [Requests -> 0..maxRetries - 1]
      <4>1. attempt' = [attempt EXCEPT ![x] = 0] BY <2>1 DEF Call
      <4> QED BY <4>1, Zeros DEF TypeOK
    <3>2. x \notin Logins /\ Transmit({x}, sessionToken) /\ pc[x] = "idle"
      BY <2>1, NameAssumption DEF Call
    <3>3. /\ pc' \in [Requests -> {"idle", "sent", "backoff", "reauth"}]
          /\ used' \in [Requests -> Tokens] /\ answer' \in [Requests -> Answers]
          /\ waitsFor' \in [Requests -> Logins \cup {None}]
          /\ \A y \in Requests : used'[y] = IF y \in {x} THEN sessionToken ELSE used[y]
          /\ \A y \in Requests : pc'[y] = IF y \in {x} THEN "sent" ELSE pc[y]
      BY <1>2, <3>2, TransmitType
    <3> QED BY <3>1, <3>2, <3>3 DEF Requests, Managed
  <2>2. CASE Retry(x)
    <3>1. pc' = [pc EXCEPT ![x] = "backoff"] /\ UNCHANGED <<used, waitsFor>> /\ pc[x] = "sent"
          /\ answer' = [answer EXCEPT ![x] = "none"]
      BY <2>2 DEF Retry
    <3>2. attempt' \in [Requests -> 0..maxRetries - 1]
      <4>1. attempt[x] \in 0..maxRetries - 1 /\ attempt[x] < maxRetries - 1
            /\ attempt' = [attempt EXCEPT ![x] = attempt[x] + 1]
        BY <2>2 DEF Retry, TypeOK
      <4>2. attempt[x] + 1 \in 0..maxRetries - 1 BY <4>1, RetryAssumption
      <4> QED BY <4>1, <4>2 DEF TypeOK
    <3>3. answer' \in [Requests -> Answers] BY <3>1 DEF TypeOK, Answers
    <3> QED BY <3>1, <3>2, <3>3 DEF TypeOK, Requests, Managed
  <2>3. CASE BackoffEnds(x)
    <3>1. Transmit({x}, sessionToken) /\ pc[x] = "backoff" /\ UNCHANGED attempt
      BY <2>3 DEF BackoffEnds
    <3>2. /\ pc' \in [Requests -> {"idle", "sent", "backoff", "reauth"}]
          /\ used' \in [Requests -> Tokens] /\ answer' \in [Requests -> Answers]
          /\ waitsFor' \in [Requests -> Logins \cup {None}]
          /\ \A y \in Requests : used'[y] = IF y \in {x} THEN sessionToken ELSE used[y]
          /\ \A y \in Requests : pc'[y] = IF y \in {x} THEN "sent" ELSE pc[y]
      BY <1>2, <3>1, TransmitType
    <3> QED BY <3>1, <3>2 DEF Requests, Managed, TypeOK
  <2>4. CASE Answered(x)
    BY <2>4 DEF Answered, TypeOK, Answers
  <2> QED BY <2>1, <2>2, <2>3, <2>4
<1>4. TypeOK' BY <1>1, <1>3 DEF TypeOK
<1>5. OneLogin' BY <1>1, <1>3 DEF OneLogin
<1>6. GrantIsNewest' BY <1>1, <1>3 DEF GrantIsNewest, TypeOK, Tokens
<1> QED BY <1>3, <1>4, <1>5, <1>6

(* The platform grants or ends a session, or a call succeeds.                *)
LEMMA PlatformStep ==
    ASSUME IInv, \/ \E l \in Logins : SessionGranted(l)
                 \/ \E t \in Tokens : SessionExpires(t)
                 \/ \E c \in Calls : Succeeds(c)
    PROVE  IInv' /\ \A y \in Requests : pc'[y] = "sent" => pc[y] = "sent"
<1> USE DEF IInv
<1>1. ASSUME NEW l \in Logins, SessionGranted(l)
      PROVE  IInv' /\ UNCHANGED pc
  <2>1. /\ issued' = issued + 1 /\ grant' = [grant EXCEPT ![l] = issued + 1]
        /\ valid' = valid \cup {issued + 1} /\ stage[l] = "verify" /\ issued < MaxTokens
        /\ UNCHANGED <<sessionToken, loginPromise, stage, pc, attempt, used, answer, waitsFor>>
    BY <1>1 DEF SessionGranted, requestVars
  <2>2. issued + 1 \in Tokens /\ issued \in Nat BY <2>1, RetryAssumption DEF TypeOK, Tokens
  <2>3. TypeOK' BY <2>1, <2>2 DEF TypeOK
  <2>4. OneLogin' BY <2>1 DEF OneLogin, TypeOK
  <2>5. GrantIsNewest' BY <2>1, <2>2 DEF GrantIsNewest, TypeOK, Tokens
  <2> QED BY <2>1, <2>3, <2>4, <2>5
<1>2. ASSUME NEW t \in Tokens, SessionExpires(t)
      PROVE  IInv' /\ UNCHANGED pc
  BY <1>2 DEF SessionExpires, TypeOK, OneLogin, GrantIsNewest, requestVars, loginVars
<1>3. ASSUME NEW c \in Calls, Succeeds(c)
      PROVE  IInv' /\ \A y \in Requests : pc'[y] = "sent" => pc[y] = "sent"
  <2>1. /\ c \in Requests /\ c \notin Logins /\ pc[c] = "sent" /\ Throws(c)
        /\ sessionToken' = sessionToken /\ UNCHANGED <<issued, valid>>
    BY <1>3, NameAssumption DEF Succeeds, Throws, Requests, Managed, platformVars
  <2> QED BY <2>1, ThrowsStep
<1> QED BY <1>1, <1>2, <1>3

----------------------------------------------------------------------------

(* What every step does: it keeps the invariant, and the two properties of   *)
(* a step hold of it.                                                        *)
LEMMA StepFacts ==
    ASSUME IInv, [Next]_vars
    PROVE  /\ IInv'
           /\ sessionToken' # 0 => sessionToken' >= sessionToken
           /\ \A x \in Requests : pc[x] = "reauth" /\ pc'[x] = "sent" => used'[x] > used[x]
<1>1. sessionToken \in Nat BY DEF IInv, TypeOK, Tokens
<1>2. ASSUME NEW l \in Logins, login(l)
      PROVE  IInv' /\ UNCHANGED sessionToken
             /\ \A x \in Requests : pc[x] = "reauth" => pc'[x] # "sent"
  <2>1. Transmit({l}, sessionToken) /\ {l} \in SUBSET Requests /\ pc[l] = "idle"
    BY <1>2, NameAssumption DEF login, StartsLogin, IInv, OneLogin, Requests, Managed
  <2>2. \A x \in Requests : pc'[x] = IF x \in {l} THEN "sent" ELSE pc[x]
    BY <2>1, TransmitType DEF IInv, TypeOK
  <2> QED BY <1>2, <2>1, <2>2, LoginStarts DEF login
<1>3. ASSUME NEW l \in Logins, ChallengeArrives(l) \/ VerifyFails(l)
      PROVE  IInv' /\ UNCHANGED sessionToken
             /\ \A x \in Requests : pc'[x] = "sent" => pc[x] = "sent"
  <2>1. CASE ChallengeArrives(l)
    <3>1. Return({l}) \/ Return({l} \cup Waiters(l))
      BY <2>1 DEF ChallengeArrives, LoginRejects
    <3>2. \A x \in Requests : pc'[x] = "sent" => pc[x] = "sent"
      BY <3>1, ReturnType, WaitersType DEF IInv, Requests, Managed
    <3> QED BY <2>1, <3>2, ChallengeStep DEF ChallengeArrives
  <2>2. CASE VerifyFails(l)
    BY <2>2, RejectsStep DEF VerifyFails, platformVars
  <2> QED BY <1>3, <2>1, <2>2
<1>4. ASSUME NEW x \in Requests, Denied(x) \/ Fails(x) \/ (x \in Transfers /\ TransferEnds(x))
      PROVE  IInv' /\ sessionToken' \in {sessionToken, 0}
             /\ \A y \in Requests : pc'[y] = "sent" => pc[y] = "sent"
  <2>1. CASE Denied(x) \/ Fails(x)
    BY <2>1, ThrowsStep DEF Denied, DropToken, Fails, platformVars
  <2>2. CASE x \in Transfers /\ TransferEnds(x)
    <3>1. Throws(x) /\ pc[x] = "sent"
      BY <2>2, NameAssumption DEF TransferEnds, Throws
    <3>2. sessionToken' \in {sessionToken, 0} /\ UNCHANGED <<issued, valid>>
      BY <2>2 DEF TransferEnds, DropToken, platformVars
    <3> QED BY <3>1, <3>2, ThrowsStep
  <2> QED BY <1>4, <2>1, <2>2
<1>5. ASSUME NEW x \in Requests, Reauth(x)
      PROVE  IInv' /\ sessionToken' \in {sessionToken, 0}
             /\ \A y \in Requests : pc[y] = "reauth" => pc'[y] # "sent"
  BY <1>5, ReauthStep DEF Reauth, DropToken
<1>6. ASSUME NEW x \in Requests,
             (x \in Calls \cup Transfers /\ Call(x)) \/ Retry(x) \/ BackoffEnds(x) \/ Answered(x)
      PROVE  IInv' /\ UNCHANGED sessionToken
             /\ \A y \in Requests : pc[y] = "reauth" => pc'[y] = "reauth"
  BY <1>6, PlainStep DEF Call, Retry, BackoffEnds, Answered
<1>7. ASSUME \/ \E l \in Logins : SessionGranted(l)
             \/ \E t \in Tokens : SessionExpires(t)
             \/ \E c \in Calls : Succeeds(c)
      PROVE  IInv' /\ UNCHANGED sessionToken
             /\ \A y \in Requests : pc'[y] = "sent" => pc[y] = "sent"
  BY <1>7, PlatformStep DEF SessionGranted, SessionExpires, Succeeds
<1>8. CASE UNCHANGED vars
  BY <1>1, <1>8 DEF vars, loginVars, requestVars, platformVars, IInv, TypeOK, OneLogin,
     GrantIsNewest
<1>9. CASE \E l \in Logins : Verified(l)
  <2>1. PICK l \in Logins : Verified(l) BY <1>9
  <2>2. sessionToken' \in Nat BY <2>1, VerifiedStep DEF IInv, TypeOK, Tokens
  <2> QED BY <1>1, <2>1, <2>2, VerifiedStep
<1>10. CASE Next /\ ~ \E l \in Logins : Verified(l)
  <2> DEFINE Goal == /\ IInv' /\ (sessionToken' # 0 => sessionToken' >= sessionToken)
                     /\ \A x \in Requests : pc[x] = "reauth" /\ pc'[x] = "sent" => used'[x] > used[x]
  <2>1. Calls \cup Transfers \cup Managed \subseteq Requests BY DEF Requests, Managed
  <2>2. ASSUME NEW l \in Logins, login(l) PROVE Goal BY <1>1, <1>2, <2>2
  <2>3. ASSUME NEW l \in Logins, ChallengeArrives(l) \/ VerifyFails(l) PROVE Goal
    <3>1. IInv' /\ UNCHANGED sessionToken /\ \A x \in Requests : pc'[x] = "sent" => pc[x] = "sent"
      BY <1>3, <2>3
    <3> QED BY <1>1, <3>1
  <2>4. ASSUME NEW x \in Requests, Denied(x) \/ Fails(x) \/ (x \in Transfers /\ TransferEnds(x))
        PROVE  Goal
    <3>1. IInv' /\ sessionToken' \in {sessionToken, 0}
          /\ \A y \in Requests : pc'[y] = "sent" => pc[y] = "sent"
      BY <1>4, <2>4
    <3> QED BY <1>1, <3>1
  <2>5. ASSUME NEW x \in Requests, Reauth(x) PROVE Goal BY <1>1, <1>5, <2>5
  <2>6. ASSUME NEW x \in Requests,
               (x \in Calls \cup Transfers /\ Call(x)) \/ Retry(x) \/ BackoffEnds(x) \/ Answered(x)
        PROVE  Goal
    <3>1. IInv' /\ UNCHANGED sessionToken
          /\ \A y \in Requests : pc[y] = "reauth" => pc'[y] = "reauth"
      BY <1>6, <2>6
    <3> QED BY <1>1, <3>1
  <2>7. ASSUME \/ \E l \in Logins : SessionGranted(l)
               \/ \E t \in Tokens : SessionExpires(t)
               \/ \E c \in Calls : Succeeds(c)
        PROVE  Goal
    <3>1. IInv' /\ UNCHANGED sessionToken /\ \A y \in Requests : pc'[y] = "sent" => pc[y] = "sent"
      BY <1>7, <2>7
    <3> QED BY <1>1, <3>1
  <2> HIDE DEF Goal
  <2>8. Goal
    BY <1>10, <2>1, <2>2, <2>3, <2>4, <2>5, <2>6, <2>7
       DEF Next, RequestStep, LoginStep, Transfer
  <2> QED BY <2>8 DEF Goal
<1> QED BY <1>8, <1>9, <1>10

(* The invariant: one login at a time, whose grant is the newest token.      *)
THEOREM Invariance == Spec => []IInv
<1>1. Init => IInv
  <2> SUFFICES ASSUME Init PROVE IInv OBVIOUS
  <2>1. TypeOK BY Zeros DEF Init, TypeOK, Answers
  <2>2. OneLogin /\ GrantIsNewest BY DEF Init, OneLogin, GrantIsNewest, Requests, Managed
  <2> QED BY <2>1, <2>2 DEF IInv
<1>2. IInv /\ [Next]_vars => IInv' BY StepFacts
<1> QED BY <1>1, <1>2, PTL DEF Spec

(* The login mutex orders the tokens: none is replaced by an older one.      *)
THEOREM TokensOrdered == Spec => TokenNeverRegresses
<1>1. IInv /\ [Next]_vars => [sessionToken' # 0 => sessionToken' >= sessionToken]_vars
  BY StepFacts
<1> QED BY Invariance, <1>1, PTL DEF Spec, TokenNeverRegresses

(* A request sent again after a login carries a newer session.               *)
THEOREM RetriesFresh == Spec => RetryIsFresh
<1>1. IInv /\ [Next]_vars =>
        [\A x \in Requests : pc[x] = "reauth" /\ pc'[x] = "sent" => used'[x] > used[x]]_vars
  BY StepFacts
<1> QED BY Invariance, <1>1, PTL DEF Spec, RetryIsFresh

(* The session's state keeps its types: no loop counter runs past its limit. *)
THEOREM TypeCorrect == Spec => []TypeOK
<1>1. IInv => TypeOK
    BY DEF IInv
<1>. QED
    BY <1>1, Invariance, PTL

----------------------------------------------------------------------------
(* Who awaits whom.                                                           *)

\* What Transmit and Return do to the promises awaited and the answers.
LEMMA TransmitAfter ==
    ASSUME TypeOK, NEW S \in SUBSET Requests, NEW t, Transmit(S, t)
    PROVE  \A x \in Requests : /\ pc'[x] = IF x \in S THEN "sent" ELSE pc[x]
                               /\ waitsFor'[x] = IF x \in S THEN None ELSE waitsFor[x]
                               /\ answer'[x] = IF x \in S THEN "none" ELSE answer[x]
BY DEF Transmit, Over, TypeOK

\* The same for Return.
LEMMA ReturnAfter ==
    ASSUME TypeOK, NEW S \in SUBSET Requests, Return(S)
    PROVE  \A x \in Requests : /\ pc'[x] = IF x \in S THEN "idle" ELSE pc[x]
                               /\ waitsFor'[x] = IF x \in S THEN None ELSE waitsFor[x]
                               /\ answer'[x] = IF x \in S THEN "none" ELSE answer[x]
BY DEF Return, Over, TypeOK

\* A login that rejects sends every caller away that awaits it, that is, all.
LEMMA RejectsWaits ==
    ASSUME IInv, WaitsForLiveLogin, NEW l \in Logins, stage[l] # "idle", LoginRejects(l)
    PROVE  WaitsForLiveLogin'
<1>1. TypeOK /\ \A k \in Logins : k \in Requests BY DEF IInv, Requests, Managed
<1>2. {l} \cup Waiters(l) \in SUBSET Requests BY WaitersType
<1>3. loginPromise = l /\ l # None BY NameAssumption DEF IInv, OneLogin
<1>4. \A x \in Requests : pc[x] = "reauth" => x \in Waiters(l)
  BY <1>3 DEF WaitsForLiveLogin, Waiters
<1>5. \A x \in Requests :
        /\ pc'[x] = IF x \in {l} \cup Waiters(l) THEN "idle" ELSE pc[x]
        /\ answer'[x] = IF x \in {l} \cup Waiters(l) THEN "none" ELSE answer[x]
  BY <1>1, <1>2, TransmitAfter, ReturnAfter DEF LoginRejects
<1>6. \A x \in Requests : pc'[x] # "reauth" BY <1>4, <1>5
<1>7. \A k \in Logins : stage'[k] = "idle"
  BY <1>1, <1>3 DEF LoginRejects, IInv, OneLogin, TypeOK
<1>8. loginPromise' = None BY DEF LoginRejects
<1>9. \A k \in Logins : answer'[k] \in {"none", answer[k]} BY <1>1, <1>5
<1> QED BY <1>1, <1>6, <1>7, <1>8, <1>9 DEF WaitsForLiveLogin

\* So does one that is verified; until then it stays the one they await.
LEMMA LoginWaits ==
    ASSUME IInv, WaitsForLiveLogin, NEW l \in Logins,
           login(l) \/ ChallengeArrives(l) \/ Verified(l) \/ VerifyFails(l) \/ SessionGranted(l)
    PROVE  WaitsForLiveLogin'
<1>1. TypeOK /\ \A k \in Logins : k \in Requests BY DEF IInv, Requests, Managed
<1>2. {l} \in SUBSET Requests /\ Waiters(l) \in SUBSET Requests /\ l # None
  BY <1>1, WaitersType, NameAssumption
<1>3. stage[l] # "idle" => loginPromise = l BY DEF IInv, OneLogin
<1>4. CASE login(l)
  <2>1. loginPromise = None /\ loginPromise' = l /\ stage' = [stage EXCEPT ![l] = "challenge"]
    BY <1>4 DEF login, StartsLogin
  <2>2. \A x \in Requests :
          /\ pc'[x] = IF x \in {l} THEN "sent" ELSE pc[x]
          /\ answer'[x] = IF x \in {l} THEN "none" ELSE answer[x]
    BY <1>1, <1>2, <1>4, TransmitAfter, ReturnAfter DEF login
  <2>3. \A x \in Requests : pc'[x] # "reauth" BY <2>1, <2>2 DEF WaitsForLiveLogin
  <2>4. \A k \in Logins : stage'[k] = "challenge" => pc'[k] # "idle"
    BY <1>1, <2>1, <2>2 DEF WaitsForLiveLogin, TypeOK
  <2>5. stage'[l] = "challenge" BY <1>1, <2>1 DEF TypeOK
  <2> QED BY <1>1, <2>1, <2>2, <2>3, <2>4, <2>5 DEF WaitsForLiveLogin
<1>5. CASE ChallengeArrives(l)
  <2>1. CASE LoginRejects(l) BY <1>5, <2>1, RejectsWaits DEF ChallengeArrives
  <2>2. CASE /\ stage' = [stage EXCEPT ![l] = "verify"] /\ Return({l})
             /\ UNCHANGED <<loginPromise, grant>>
    <3>1. \A x \in Requests :
            /\ pc'[x] = IF x \in {l} THEN "idle" ELSE pc[x]
            /\ waitsFor'[x] = IF x \in {l} THEN None ELSE waitsFor[x]
            /\ answer'[x] = IF x \in {l} THEN "none" ELSE answer[x]
      BY <1>1, <1>2, <2>2, TransmitAfter, ReturnAfter
    <3>2. loginPromise' = l /\ loginPromise = l /\ stage'[l] = "verify"
      BY <1>1, <1>3, <1>5, <2>2 DEF ChallengeArrives, TypeOK
    <3>3. \A k \in Logins : stage'[k] = "challenge" => pc'[k] # "idle"
      BY <1>1, <2>2, <3>1 DEF WaitsForLiveLogin, TypeOK
    <3>4. \A x \in Requests : pc'[x] = "reauth" => waitsFor'[x] = loginPromise'
      BY <3>1, <3>2 DEF WaitsForLiveLogin
    <3> QED BY <1>1, <1>2, <3>1, <3>2, <3>3, <3>4 DEF WaitsForLiveLogin
  <2> QED BY <1>5, <2>1, <2>2 DEF ChallengeArrives
<1>6. CASE VerifyFails(l) BY <1>6, RejectsWaits DEF VerifyFails
<1>7. CASE Verified(l)
  <2>1. /\ loginPromise' = None /\ stage' = [stage EXCEPT ![l] = "idle"] /\ stage[l] = "verify"
        /\ Transmit(Waiters(l), grant[l]) \/ Return(Waiters(l))
    BY <1>7 DEF Verified
  <2>2. loginPromise = l BY <1>3, <2>1
  <2>3. \A x \in Requests : pc[x] = "reauth" => x \in Waiters(l)
    BY <1>2, <2>2 DEF WaitsForLiveLogin, Waiters
  <2>4. \A x \in Requests :
          /\ pc'[x] = pc[x] \/ (x \in Waiters(l) /\ pc'[x] \in {"sent", "idle"})
          /\ x \in Waiters(l) => pc'[x] \in {"sent", "idle"}
          /\ answer'[x] \in {"none", answer[x]}
    BY <1>1, <1>2, <2>1, TransmitAfter, ReturnAfter
  <2>5. \A x \in Requests : pc'[x] # "reauth" BY <2>3, <2>4
  <2>6. \A k \in Logins : stage'[k] = "idle"
    BY <1>1, <2>1, <2>2 DEF IInv, OneLogin, TypeOK
  <2> QED BY <1>1, <2>1, <2>4, <2>5, <2>6 DEF WaitsForLiveLogin
<1>8. CASE SessionGranted(l)
  BY <1>8 DEF SessionGranted, requestVars, WaitsForLiveLogin
<1> QED BY <1>4, <1>5, <1>6, <1>7, <1>8

\* A request that ends was awaiting nothing, but a challenge ends its login.
LEMMA ThrowsWaits ==
    ASSUME IInv, WaitsForLiveLogin, NEW x \in Requests, pc[x] = "sent", Throws(x)
    PROVE  WaitsForLiveLogin'
<1>1. CASE x \in Logins
  BY <1>1, RejectsWaits DEF Throws, IInv, OneLogin
<1>2. CASE x \notin Logins
  <2>1. TypeOK /\ {x} \in SUBSET Requests /\ \A k \in Logins : k \in Requests
    BY DEF IInv, Requests, Managed
  <2>2. Return({x}) /\ UNCHANGED <<loginPromise, stage>> BY <1>2 DEF Throws, loginVars
  <2>3. \A y \in Requests :
          /\ pc'[y] = IF y \in {x} THEN "idle" ELSE pc[y]
          /\ waitsFor'[y] = IF y \in {x} THEN None ELSE waitsFor[y]
          /\ answer'[y] = IF y \in {x} THEN "none" ELSE answer[y]
    BY <2>1, <2>2, TransmitAfter, ReturnAfter
  <2> QED BY <1>2, <2>1, <2>2, <2>3 DEF WaitsForLiveLogin
<1> QED BY <1>1, <1>2

\* Sending, answering and backing off concern no promise.
LEMMA RequestWaits ==
    ASSUME IInv, WaitsForLiveLogin, NEW x \in Requests,
           (x \in Calls \cup Transfers /\ Call(x)) \/ Answered(x) \/ Retry(x) \/ BackoffEnds(x)
    PROVE  WaitsForLiveLogin'
<1>1. TypeOK /\ {x} \in SUBSET Requests /\ \A k \in Logins : k \in Requests
  BY DEF IInv, Requests, Managed
<1>2. UNCHANGED <<loginPromise, stage>>
  BY DEF Call, Answered, Retry, BackoffEnds, loginVars
<1>3. CASE (x \in Calls \cup Transfers /\ Call(x)) \/ BackoffEnds(x)
  <2>1. Transmit({x}, sessionToken) BY <1>3 DEF Call, BackoffEnds
  <2>2. \A y \in Requests :
          /\ pc'[y] = IF y \in {x} THEN "sent" ELSE pc[y]
          /\ waitsFor'[y] = IF y \in {x} THEN None ELSE waitsFor[y]
          /\ answer'[y] = IF y \in {x} THEN "none" ELSE answer[y]
    BY <1>1, <2>1, TransmitAfter, ReturnAfter
  <2> QED BY <1>1, <1>2, <2>2 DEF WaitsForLiveLogin
<1>4. CASE Retry(x)
  <2>1. /\ pc' = [pc EXCEPT ![x] = "backoff"] /\ answer' = [answer EXCEPT ![x] = "none"]
        /\ UNCHANGED waitsFor
    BY <1>4 DEF Retry
  <2> QED BY <1>1, <1>2, <2>1 DEF WaitsForLiveLogin, TypeOK
<1>5. CASE Answered(x)
  <2>1. PICK a : /\ a = "denied" => MayDeny(x) /\ answer' = [answer EXCEPT ![x] = a]
                 /\ answer' = [answer EXCEPT ![x] = a]
    BY <1>5 DEF Answered
  <2>2. UNCHANGED <<pc, waitsFor>> BY <1>5 DEF Answered
  <2>3. x \in Logins /\ a = "denied" => GuardsChallenge BY <2>1 DEF MayDeny
  <2>4. \A k \in Logins : answer'[k] = "denied" => GuardsChallenge \/ answer[k] = "denied"
    BY <1>1, <2>1, <2>3 DEF TypeOK
  <2> QED BY <1>1, <1>2, <2>2, <2>4 DEF WaitsForLiveLogin
<1> QED BY <1>3, <1>4, <1>5

\* Whoever is denied awaits the login under way, or the one it starts.
LEMMA ReauthWaits ==
    ASSUME IInv, WaitsForLiveLogin, NEW x \in Managed, Reauth(x)
    PROVE  WaitsForLiveLogin'
<1>1. TypeOK /\ x \in Requests /\ \A k \in Logins : k \in Requests
  BY DEF IInv, Requests, Managed
<1>2. pc[x] = "sent" /\ answer[x] = "denied" /\ answer' = [answer EXCEPT ![x] = "none"]
  BY DEF Reauth
<1>3. x \in Logins => GuardsChallenge BY <1>2 DEF WaitsForLiveLogin
<1>4. CASE /\ loginPromise # None /\ pc' = [pc EXCEPT ![x] = "reauth"]
           /\ waitsFor' = [waitsFor EXCEPT ![x] = loginPromise]
           /\ UNCHANGED loginVars
  <2>1. \A y \in Requests :
          /\ pc'[y] = IF y = x THEN "reauth" ELSE pc[y]
          /\ waitsFor'[y] = IF y = x THEN loginPromise ELSE waitsFor[y]
          /\ answer'[y] \in {"none", answer[y]}
    BY <1>1, <1>2, <1>4 DEF TypeOK
  <2> QED BY <1>1, <1>3, <1>4, <2>1 DEF WaitsForLiveLogin, loginVars
<1>5. ASSUME NEW l \in Logins, StartsLogin(l), loginPromise' = l,
             stage' = [stage EXCEPT ![l] = "challenge"],
             pc' = [pc EXCEPT ![x] = "reauth", ![l] = "sent"],
             waitsFor' = [waitsFor EXCEPT ![x] = l]
      PROVE  WaitsForLiveLogin'
  <2>1. loginPromise = None /\ stage[l] = "idle" /\ l # None
    BY <1>5, NameAssumption DEF StartsLogin
  <2>2. \A k \in Logins : pc[k] = "idle"
    BY <2>1, NameAssumption DEF IInv, OneLogin
  <2>3. x \notin Logins BY <1>2, <2>2
  <2>4. \A y \in Requests :
          /\ pc'[y] = IF y = x THEN "reauth" ELSE IF y = l THEN "sent" ELSE pc[y]
          /\ waitsFor'[y] = IF y = x THEN l ELSE waitsFor[y]
          /\ answer'[y] \in {"none", answer[y]}
    BY <1>1, <1>2, <1>5, <2>3 DEF TypeOK
  <2>5. \A k \in Logins : stage'[k] = IF k = l THEN "challenge" ELSE stage[k]
    BY <1>1, <1>5 DEF TypeOK
  <2>6. \A y \in Requests : pc'[y] = "reauth" => y = x
    BY <2>1, <2>4 DEF WaitsForLiveLogin
  <2>7. \A k \in Logins : stage'[k] = "challenge" => pc'[k] # "idle"
    BY <1>1, <2>3, <2>4, <2>5 DEF WaitsForLiveLogin
  <2>8. \A k \in Logins : pc'[k] # "reauth" /\ answer'[k] \in {"none", answer[k]}
    BY <1>1, <2>3, <2>4, <2>6
  <2>9. \A y \in Requests :
          pc'[y] = "reauth" => loginPromise' # None /\ waitsFor'[y] = loginPromise'
    BY <1>5, <2>1, <2>4, <2>6
  <2>10. loginPromise' # None => stage'[loginPromise'] # "idle"
    BY <1>5, <2>5
  <2>11. ~ GuardsChallenge => \A k \in Logins : pc'[k] # "reauth" /\ answer'[k] # "denied"
    BY <2>8 DEF WaitsForLiveLogin
  <2> QED BY <2>7, <2>9, <2>10, <2>11 DEF WaitsForLiveLogin
<1> QED BY <1>4, <1>5 DEF Reauth

(* The login mutex is released however its login ends, and nobody awaits a   *)
(* promise that has settled; only a challenge answered by 401 or 403 makes a *)
(* login await itself (the divergence session_login shows).                  *)
THEOREM NobodyStranded == Spec => []WaitsForLiveLogin
<1>1. Init => WaitsForLiveLogin
  BY DEF Init, WaitsForLiveLogin, Requests, Managed
<1>2. IInv /\ WaitsForLiveLogin /\ [Next]_vars => WaitsForLiveLogin'
  <2> SUFFICES ASSUME IInv, WaitsForLiveLogin, [Next]_vars PROVE WaitsForLiveLogin'
    OBVIOUS
  <2>1. Calls \cup Transfers \cup Managed \cup Logins \subseteq Requests
        /\ Calls \cap Logins = {} /\ Transfers \cap Logins = {}
    BY NameAssumption DEF Requests, Managed
  <2>2. ASSUME NEW c \in Calls, Succeeds(c) PROVE WaitsForLiveLogin'
    <3>1. Throws(c) /\ pc[c] = "sent" BY <2>1, <2>2 DEF Succeeds, Throws
    <3> QED BY <2>1, <3>1, ThrowsWaits
  <2>3. ASSUME NEW f \in Transfers, TransferEnds(f) PROVE WaitsForLiveLogin'
    <3>1. Throws(f) /\ pc[f] = "sent" BY <2>1, <2>3 DEF TransferEnds, Throws
    <3> QED BY <2>1, <3>1, ThrowsWaits
  <2>4. ASSUME NEW x \in Managed, Denied(x) \/ Fails(x) PROVE WaitsForLiveLogin'
    <3>1. Throws(x) /\ pc[x] = "sent" BY <2>4 DEF Denied, Fails
    <3> QED BY <2>1, <3>1, ThrowsWaits
  <2>5. ASSUME NEW x \in Managed, Answered(x) \/ Retry(x) \/ BackoffEnds(x)
        PROVE  WaitsForLiveLogin'
    BY <2>1, <2>5, RequestWaits
  <2>6. ASSUME NEW x \in Calls \cup Transfers, Call(x) PROVE WaitsForLiveLogin'
    BY <2>1, <2>6, RequestWaits
  <2>7. CASE (\E t \in Tokens : SessionExpires(t)) \/ UNCHANGED vars
    <3>1. UNCHANGED <<loginPromise, stage, pc, waitsFor, answer>>
      BY <2>7 DEF SessionExpires, vars, loginVars, requestVars
    <3> QED BY <3>1 DEF WaitsForLiveLogin
  <2> QED BY <2>2, <2>3, <2>4, <2>5, <2>6, <2>7, LoginWaits, ReauthWaits
         DEF Next, RequestStep, LoginStep, Transfer
<1> QED BY Invariance, <1>1, <1>2, PTL DEF Spec

============================================================================
