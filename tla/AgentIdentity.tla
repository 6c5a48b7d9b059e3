---------------------------- MODULE AgentIdentity ----------------------------
(***************************************************************************)
(* An agent's registration and status (src/src/agent.ts): register() with  *)
(* its two polling loops, registerWithJ41(), registerService(),            *)
(* activate() and deactivate(), against the platform and the chain.        *)
(*                                                                         *)
(* One operation runs at a time: op is where it awaits.  A request that    *)
(* fails may have been carried out before its answer was lost.             *)
(***************************************************************************)
EXTENDS Integers, Sequences, FiniteSets

CONSTANTS
    Keys,         \* key pairs
    Networks,     \* "verus", "verustest"
    Services,     \* the service offers of the program, a sequence
    None,
    maxAttempts,  \* polls for the registration, 120 in the code
    maxIAddressAttempts, \* polls for the i-address, 30 in the code
    MaxFaults     \* bound: requests that fail, crashes

ASSUME AgentAssumption ==
    /\ None \notin Keys /\ None \notin Networks
    /\ maxAttempts \in Nat /\ maxIAddressAttempts \in Nat /\ MaxFaults \in Nat
    /\ Len(Services) \in Nat /\ DOMAIN Services = 1 .. Len(Services)

VARIABLES
    key, networkType, identity, \* the J41Agent: its key pair, network, identityName and iAddress
    op,          \* where the running operation awaits, "idle" when none runs
    previousNetwork, attempts,  \* locals of register()
    svc, wanted, \* local: the service being listed; the status asked for
    txid,        \* local and result: _updateOnChainStatus() returned a txid, "sent", or
                 \* not; auxiliary: "lost" once that transaction has expired
    result,      \* how the last operation ended: "none", "ok", "auth" or "thrown"
    onboard,     \* platform: the registration of the identity of each key
    homeOf,      \* platform: the network of that registration
    profiles,    \* platform: keys with an agent profile
    listed,      \* platform: listed[k][i]: listings of the i-th service of key k
    canaries,    \* canary tokens known to the platform, and this agent's
    onChain, inMempool, onPlatform, \* the status of each key's agent on chain, in a
                 \* transaction that is not mined yet ("none" without one), at the platform
    faults       \* bound: faults so far

agentVars == <<key, networkType, identity>>
localVars == <<op, previousNetwork, attempts, svc, wanted, txid, result>>
statusVars == <<onChain, inMempool, onPlatform>>
platformVars == <<onboard, homeOf, profiles, listed, canaries, statusVars>>
agentAll == <<agentVars, localVars, platformVars, faults>>

Indexes == DOMAIN Services
Ops == {"idle", "challenge", "submit", "polling", "locating",
        "login", "profile", "canary", "loginService", "service",
        "loginStatus", "chain", "list", "remove", "status"}

AgentTypeOK ==
    /\ key \in Keys \union {None} /\ networkType \in Networks /\ identity \in BOOLEAN
    /\ op \in Ops /\ previousNetwork \in Networks
    /\ attempts \in 0 .. maxAttempts + maxIAddressAttempts
    /\ svc \in 0 .. Len(Services) /\ wanted \in {"active", "inactive"}
    /\ txid \in {"none", "sent", "lost"} /\ result \in {"none", "ok", "auth", "thrown"}
    /\ onboard \in [Keys -> {"none", "pending", "registered", "located", "failed"}]
    /\ homeOf \in [Keys -> Networks \union {None}]
    /\ profiles \subseteq Keys
    /\ \A k \in Keys, i \in Indexes : listed[k][i] \in Nat
    /\ canaries \in [platform : BOOLEAN, agent : BOOLEAN]
    /\ onChain \in [Keys -> {"active", "inactive"}]
    /\ inMempool \in [Keys -> {"none", "active", "inactive"}]
    /\ onPlatform \in [Keys -> {"active", "inactive"}]
    /\ faults \in 0 .. MaxFaults

AgentInit ==
    /\ key = None /\ networkType \in Networks /\ identity = FALSE
    /\ op = "idle" /\ previousNetwork = networkType /\ attempts = 0
    /\ svc = 0 /\ wanted = "active" /\ txid = "none" /\ result = "none"
    /\ onboard = [k \in Keys |-> "none"]
    /\ homeOf = [k \in Keys |-> None]
    /\ profiles = {}
    /\ listed = [k \in Keys |-> [i \in Indexes |-> 0]]
    /\ canaries = [platform |-> FALSE, agent |-> FALSE]
    /\ onChain = [k \in Keys |-> "active"] /\ inMempool = [k \in Keys |-> "none"]
    /\ onPlatform = [k \in Keys |-> "active"]
    /\ faults = 0

Fault == faults < MaxFaults /\ faults' = faults + 1

\* The operation goes on to await at s; it returns; it throws.
Goto(s) == op' = s /\ UNCHANGED <<result, faults>>
Returns == op' = "idle" /\ result' = "ok" /\ UNCHANGED faults
Throws(how) == op' = "idle" /\ result' = how

-----------------------------------------------------------------------------
(* register() *)

RegisterOps == {"challenge", "submit", "polling", "locating"}

BeginRegister(net) ==
    /\ op = "idle" /\ key # None
    /\ previousNetwork' = networkType /\ networkType' = net /\ attempts' = 0
    /\ txid' = "none" /\ Goto("challenge")
    /\ UNCHANGED <<key, identity, svc, wanted, platformVars>>

Challenged ==
    /\ op = "challenge"
    /\ Goto("submit")
    /\ UNCHANGED <<agentVars, previousNetwork, attempts, svc, wanted, txid, platformVars>>

\* The platform takes one registration for a key.
Submitted ==
    /\ op = "submit" /\ onboard[key] = "none"
    /\ onboard' = [onboard EXCEPT ![key] = "pending"]
    /\ homeOf' = [homeOf EXCEPT ![key] = networkType]
    /\ \/ Goto("polling") /\ UNCHANGED networkType
       \/ Fault /\ Throws("thrown") /\ networkType' = previousNetwork
    /\ UNCHANGED <<key, identity, previousNetwork, attempts, svc, wanted, txid,
                   profiles, listed, canaries, statusVars>>

\* Mutant: the network of the attempt stays when it failed.
RegisterFails_NoRollback ==
    /\ op \in RegisterOps
    /\ \/ Fault
       \/ op = "submit" /\ onboard[key] # "none" /\ UNCHANGED faults
       \/ op = "polling" /\ onboard[key] = "failed" /\ UNCHANGED faults
    /\ Throws("thrown")
    /\ UNCHANGED <<agentVars, previousNetwork, attempts, svc, wanted, txid, platformVars>>

\* A request fails, or the platform refuses the registration: networkType is
\* rolled back, the key pair stays.
RegisterFails ==
    /\ op \in RegisterOps
    /\ \/ Fault
       \/ op = "submit" /\ onboard[key] # "none" /\ UNCHANGED faults
       \/ op = "polling" /\ onboard[key] = "failed" /\ UNCHANGED faults
    /\ Throws("thrown")
    /\ networkType' = previousNetwork
    /\ UNCHANGED <<key, identity, previousNetwork, attempts, svc, wanted, txid, platformVars>>

\* The first loop: until the platform says "registered", maxAttempts more polls.
PollAgain ==
    /\ op = "polling" /\ onboard[key] = "pending" /\ attempts < maxAttempts
    /\ attempts' = attempts + 1
    /\ UNCHANGED <<agentVars, op, previousNetwork, svc, wanted, txid, result, platformVars, faults>>

\* With a real i-address register() returns; with 'pending-lookup' it goes on polling.
PollRegistered ==
    /\ op = "polling" /\ onboard[key] \in {"registered", "located"}
    /\ \/ onboard[key] = "located" /\ identity' = TRUE /\ Returns /\ UNCHANGED attempts
       \/ onboard[key] = "registered" /\ attempts' = 0 /\ Goto("locating") /\ UNCHANGED identity
    /\ UNCHANGED <<key, networkType, previousNetwork, svc, wanted, txid, platformVars>>

LocateAgain ==
    /\ op = "locating" /\ onboard[key] = "registered" /\ attempts < maxIAddressAttempts
    /\ attempts' = attempts + 1
    /\ UNCHANGED <<agentVars, op, previousNetwork, svc, wanted, txid, result, platformVars, faults>>

Located ==
    /\ op = "locating" /\ onboard[key] = "located"
    /\ identity' = TRUE /\ Returns
    /\ UNCHANGED <<key, networkType, previousNetwork, attempts, svc, wanted, txid, platformVars>>

\* Mutant: nothing ends the first loop but the platform's answer.
PollsExhausted_Never ==
    /\ op = "locating" /\ onboard[key] = "registered" /\ attempts = maxIAddressAttempts
    /\ Throws("thrown") /\ networkType' = previousNetwork
    /\ UNCHANGED <<key, identity, previousNetwork, attempts, svc, wanted, txid, platformVars, faults>>

\* RegistrationTimeoutError, or no i-address in time: the registration goes on
\* at the platform without this agent.
PollsExhausted ==
    /\ \/ op = "polling" /\ onboard[key] = "pending" /\ attempts = maxAttempts
       \/ op = "locating" /\ onboard[key] = "registered" /\ attempts = maxIAddressAttempts
    /\ Throws("thrown") /\ networkType' = previousNetwork
    /\ UNCHANGED <<key, identity, previousNetwork, attempts, svc, wanted, txid, platformVars, faults>>

\* The platform mints the identity, or gives up, and later finds its i-address.
Onboarding(k) ==
    /\ \/ onboard[k] = "pending" /\ \E s \in {"registered", "failed"} : onboard' = [onboard EXCEPT ![k] = s]
       \/ onboard[k] = "registered" /\ onboard' = [onboard EXCEPT ![k] = "located"]
    /\ UNCHANGED <<agentVars, localVars, homeOf, profiles, listed, canaries, statusVars, faults>>

-----------------------------------------------------------------------------
(* registerWithJ41() and its canary token *)

BeginProfile ==
    /\ op = "idle"
    /\ \/ identity /\ Goto("login")
       \/ ~identity /\ Throws("thrown") /\ UNCHANGED faults
    /\ txid' = "none"
    /\ UNCHANGED <<agentVars, previousNetwork, attempts, svc, wanted, platformVars>>

LoggedIn ==
    /\ \E to \in {<<"login", "profile">>, <<"loginService", "service">>, <<"loginStatus", "chain">>} :
         op = to[1] /\ Goto(to[2])
    /\ UNCHANGED <<agentVars, previousNetwork, attempts, svc, wanted, txid, platformVars>>

\* A first registration, or a 409 that is taken for one.
ProfileRegistered ==
    /\ op = "profile"
    /\ profiles' = profiles \union {key}
    /\ Goto("canary")
    /\ UNCHANGED <<agentVars, previousNetwork, attempts, svc, wanted, txid,
                   onboard, homeOf, listed, canaries, statusVars>>

\* The token is this agent's only when the platform has taken it; a failure is
\* not the caller's.
CanaryAnswered ==
    /\ op = "canary"
    /\ \/ canaries' = [platform |-> TRUE, agent |-> TRUE] /\ Returns
       \/ Fault /\ op' = "idle" /\ result' = "ok" /\ canaries' = [canaries EXCEPT !.platform = TRUE]
    /\ UNCHANGED <<agentVars, previousNetwork, attempts, svc, wanted, txid,
                   onboard, homeOf, profiles, listed, statusVars>>

\* A login or a registration throws: "auth" is a 401 or an invalid signature.
ProfileFails ==
    /\ op \in {"login", "profile"}
    /\ Fault /\ \E how \in {"auth", "thrown"} : Throws(how)
    /\ \/ UNCHANGED profiles
       \/ op = "profile" /\ profiles' = profiles \union {key}
    /\ UNCHANGED <<agentVars, previousNetwork, attempts, svc, wanted, txid,
                   onboard, homeOf, listed, canaries, statusVars>>

-----------------------------------------------------------------------------
(* registerService() *)

BeginService(i) ==
    /\ op = "idle"
    /\ \/ identity /\ Goto("loginService") /\ svc' = i
       \/ ~identity /\ Throws("thrown") /\ UNCHANGED <<svc, faults>>
    /\ txid' = "none"
    /\ UNCHANGED <<agentVars, previousNetwork, attempts, wanted, platformVars>>

\* Every POST adds a listing: the call is not idempotent.
ServiceListed ==
    /\ op = "service"
    /\ listed' = [listed EXCEPT ![key][svc] = @ + 1]
    /\ Returns \/ (Fault /\ Throws("thrown"))
    /\ UNCHANGED <<agentVars, previousNetwork, attempts, svc, wanted, txid,
                   onboard, homeOf, profiles, canaries, statusVars>>

ServiceFails ==
    /\ op \in {"loginService", "service"}
    /\ Fault /\ Throws("thrown")
    /\ UNCHANGED <<agentVars, previousNetwork, attempts, svc, wanted, txid, platformVars>>

-----------------------------------------------------------------------------
(* activate() and deactivate() *)

BeginStatus(s) ==
    /\ op = "idle" /\ identity
    /\ wanted' = s /\ txid' = "none" /\ Goto("loginStatus")
    /\ UNCHANGED <<agentVars, previousNetwork, attempts, svc, platformVars>>

\* deactivate() removes the services next, activate() has none to remove.
AfterChain == IF wanted = "inactive" THEN "list" ELSE "status"

\* Mutant: a transaction that could not be sent is reported like one that was.
UpdateOnChainStatus_AlwaysTx ==
    /\ op = "chain" /\ op' = AfterChain /\ txid' = "sent"
    /\ \/ inMempool[key] = "none" /\ inMempool' = [inMempool EXCEPT ![key] = wanted] /\ UNCHANGED faults
       \/ UNCHANGED inMempool /\ Fault
    /\ UNCHANGED <<agentVars, previousNetwork, attempts, svc, wanted, result,
                   onboard, homeOf, profiles, listed, canaries, onChain, onPlatform>>

\* _updateOnChainStatus(): the transaction is broadcast and waits for a block; or
\* null is returned: it spends the output that a pending one spends, or some step
\* of it fails, before or after the broadcast took effect.
UpdateOnChainStatus ==
    /\ op = "chain" /\ op' = AfterChain
    /\ \/ /\ inMempool[key] = "none" /\ inMempool' = [inMempool EXCEPT ![key] = wanted]
          /\ txid' = "sent" /\ UNCHANGED faults
       \/ /\ inMempool[key] = "none" /\ inMempool' = [inMempool EXCEPT ![key] = wanted]
          /\ UNCHANGED txid /\ Fault
       \/ inMempool[key] # "none" /\ UNCHANGED <<inMempool, txid, faults>>
       \/ UNCHANGED <<inMempool, txid>> /\ Fault
    /\ UNCHANGED <<agentVars, previousNetwork, attempts, svc, wanted, result,
                   onboard, homeOf, profiles, listed, canaries, onChain, onPlatform>>

\* A pending transaction is mined, or expires at its height.
Settles(k) ==
    /\ inMempool[k] # "none" /\ inMempool' = [inMempool EXCEPT ![k] = "none"]
    /\ \/ onChain' = [onChain EXCEPT ![k] = inMempool[k]] /\ UNCHANGED txid
       \/ txid' = (IF k = key /\ txid = "sent" THEN "lost" ELSE txid) /\ UNCHANGED onChain
    /\ UNCHANGED <<agentVars, op, previousNetwork, attempts, svc, wanted, result,
                   onboard, homeOf, profiles, listed, canaries, onPlatform, faults>>

\* The services are listed; a failure here skips their removal.
ServicesFetched ==
    /\ op = "list"
    /\ Goto("remove") \/ (Fault /\ op' = "status" /\ UNCHANGED result)
    /\ UNCHANGED <<agentVars, previousNetwork, attempts, svc, wanted, txid, platformVars>>

\* Each service is deleted, or its deletion fails and the loop goes on.
ServicesRemoved ==
    /\ op = "remove"
    /\ op' = "status" /\ UNCHANGED result
    /\ \/ UNCHANGED faults /\ listed' = [listed EXCEPT ![key] = [i \in Indexes |-> 0]]
       \/ Fault /\ \E i \in Indexes :
            listed' = [listed EXCEPT ![key] = [j \in Indexes |-> IF i = j THEN @[j] ELSE 0]]
    /\ UNCHANGED <<agentVars, previousNetwork, attempts, svc, wanted, txid,
                   onboard, homeOf, profiles, canaries, statusVars>>

StatusSet ==
    /\ op = "status"
    /\ onPlatform' = [onPlatform EXCEPT ![key] = wanted]
    /\ Returns \/ (Fault /\ Throws("thrown"))
    /\ UNCHANGED <<agentVars, previousNetwork, attempts, svc, wanted, txid,
                   onboard, homeOf, profiles, listed, canaries, onChain, inMempool>>

StatusFails ==
    /\ op \in {"loginStatus", "status"}
    /\ Fault /\ Throws("thrown")
    /\ UNCHANGED <<agentVars, previousNetwork, attempts, svc, wanted, txid, platformVars>>

-----------------------------------------------------------------------------
\* A step of the running operation.
OpStep ==
    \/ Challenged \/ Submitted \/ RegisterFails \/ PollAgain \/ PollRegistered
    \/ LocateAgain \/ Located \/ PollsExhausted
    \/ LoggedIn \/ ProfileRegistered \/ CanaryAnswered \/ ProfileFails
    \/ ServiceListed \/ ServiceFails
    \/ UpdateOnChainStatus \/ ServicesFetched \/ ServicesRemoved \/ StatusSet \/ StatusFails

-----------------------------------------------------------------------------
(***************************************************************************)
(* An agent carries an identity only once the platform has minted it and   *)
(* found its i-address, and when no operation runs the agent is on the     *)
(* network of that identity: not after a timeout, not with                 *)
(* 'pending-lookup', and not after a later register() for the other        *)
(* network failed (agent.ts register: the catch).                          *)
(***************************************************************************)
IdentityIsReal ==
    /\ identity => onboard[key] = "located"
    /\ identity /\ op = "idle" => networkType = homeOf[key]

(***************************************************************************)
(* What the chain will say of the agent of k once its pending transaction  *)
(* is mined.                                                               *)
(***************************************************************************)
Coming(k) == IF inMempool[k] # "none" THEN inMempool[k] ELSE onChain[k]

(***************************************************************************)
(* A split between chain and platform is never silent: when activate() or  *)
(* deactivate() returns with a txid, the chain says, or will say unless    *)
(* that transaction expires, what the platform says - whichever of the two *)
(* writes failed in earlier calls, and whatever those left in the mempool. *)
(* (A call whose first write fails returns no txid, one whose second fails *)
(* throws: agent.ts _updateOnChainStatus, activate, deactivate.)           *)
(***************************************************************************)
StatusAgrees == op = "idle" /\ result = "ok" /\ txid = "sent" => Coming(key) = onPlatform[key]
==============================================================================
