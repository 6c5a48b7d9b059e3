--------------------------- MODULE OnboardingProofs ----------------------------
(***************************************************************************)
(* What Onboarding promises, for any keys, networks, services, polling     *)
(* limits, runs and faults, a crash between any two steps included; and,   *)
(* in its second part, what OnChainProfile promises, for any callers,      *)
(* contents, edits and updates.                                            *)
(***************************************************************************)
EXTENDS Onboarding, OnChainProfile, WellFoundedInduction, TLAPS

Listings == listed \in [Keys -> [Indexes -> Nat]]

ProfileOps == {"login", "profile", "canary"}
ServiceOps == {"loginService", "service"}
StatusOps  == {"loginStatus", "chain", "list", "remove", "status"}

\* Each operation runs at one place of a program, for a key.
Running ==
    /\ program = "down" <=> at = "menu"
    /\ program # "down" \/ result = "ok" => key \in Keys
    /\ program = "agent" <=> at = "free"
    /\ op \in RegisterOps => at \in {"registering", "free"}
    /\ op \in ProfileOps => at = "profiling"
    /\ op \in ServiceOps => at = "serving" /\ svc \in Indexes
    /\ op \in StatusOps => at = "free"

\* The identity of an agent is minted and located; while register() is under way
\* for another network, its network is the one to roll back to.
OnItsNetwork ==
    identity => /\ key \in Keys /\ onboard[key] = "located"
                /\ IF op \in RegisterOps
                   THEN op \in {"challenge", "submit"} /\ previousNetwork = homeOf[key]
                   ELSE networkType = homeOf[key]

\* What register() polls for was submitted on the agent's network.
PollsItsOwn ==
    op \in {"polling", "locating"} => networkType = homeOf[key] /\ onboard[key] # "none"
HomeKnown == \A k \in Keys : onboard[k] # "none" => homeOf[k] \in Networks

\* The key file never claims an identity that is not located, and it holds the
\* key of the running program where that registers.
FileReal == keyFile.identity => keyFile.key \in Keys /\ onboard[keyFile.key] = "located"
FileAtHand == at \in {"registering", "unlinkAgain", "free"} => keyFile.key = key

\* A txid of an operation under way is of the status it was asked to set.
TxOfStatus ==
    op # "idle" /\ txid = "sent" => op \in {"list", "remove", "status"} /\ Coming(key) = wanted

\* finalizeOnboarding() is at the stage its file marks, a stage to be marked has
\* taken effect, and each place belongs to one stage, which was asked for.
InStage ==
    program = "finalize" =>
        /\ at \in {"hook", "mark", "profile", "profiling", "auth", "services", "serving"}
        /\ at \in {"profile", "profiling", "auth"} => stage = 4 /\ stage \in given
        /\ at \in {"services", "serving"} => stage = 5 /\ stage \in given
        /\ at = "mark" => stage \in 1 .. 5 /\ stage \in effects[key]
        /\ stage = (IF file.stage = 0 THEN 1 ELSE file.stage)
FileOwned == (file.stage > 0 => file.writers # {}) /\ FileHolds

\* What a profile registration and the services so far have left at the platform.
ProfileHeld ==
    at = "profiling" /\ (op = "canary" \/ (op = "idle" /\ result = "ok")) => key \in profiles
ServicesHeld ==
    program = "finalize" =>
        /\ at = "services" => \A i \in 1 .. svc : listed[key][i] > 0
        /\ at = "serving" => \A i \in 1 .. svc - 1 : listed[key][i] > 0
        /\ at = "serving" /\ op = "idle" /\ result = "ok" => \A i \in 1 .. svc : listed[key][i] > 0

IInv == /\ TypeOK /\ Listings /\ Running /\ OnItsNetwork /\ PollsItsOwn /\ HomeKnown
        /\ KeyAtHand /\ FileReal /\ FileAtHand /\ TxOfStatus /\ StatusAgrees
        /\ InStage /\ FileOwned /\ ProfileHeld /\ ServicesHeld /\ MarkNeedsEffect

LEMMA InitInv == Init => IInv
<1> SUFFICES ASSUME Init PROVE IInv OBVIOUS
<1> USE AgentAssumption, RunAssumption DEF Init, AgentInit, NoFile, NewFile
<1>1. TypeOK /\ Listings
  <2>1. /\ key \in Keys \union {None} /\ networkType \in Networks /\ identity \in BOOLEAN
        /\ op \in Ops /\ previousNetwork \in Networks /\ wanted \in {"active", "inactive"}
        /\ txid \in {"none", "sent", "lost"} /\ result \in {"none", "ok", "auth", "thrown"}
    BY DEF Ops
  <2>6. attempts \in 0 .. maxAttempts + maxIAddressAttempts /\ svc \in 0 .. Len(Services)
    OBVIOUS
  <2>2. /\ onboard \in [Keys -> {"none", "pending", "registered", "located", "failed"}]
        /\ homeOf \in [Keys -> Networks \union {None}]
        /\ profiles \subseteq Keys /\ Listings
        /\ canaries \in [platform : BOOLEAN, agent : BOOLEAN]
        /\ onChain \in [Keys -> {"active", "inactive"}]
        /\ inMempool \in [Keys -> {"none", "active", "inactive"}]
        /\ onPlatform \in [Keys -> {"active", "inactive"}]
        /\ faults \in 0 .. MaxFaults
    BY DEF Listings, Indexes
  <2>3. AgentTypeOK BY <2>1, <2>2, <2>6 DEF AgentTypeOK, Listings
  <2>4. keyFile \in [key : Keys \union {None}, identity : BOOLEAN]
    OBVIOUS
  <2>5. program \in Programs /\ at \in Places /\ retried \in BOOLEAN BY DEF Programs, Places
  <2>7. /\ stage \in 1 .. 7 /\ given \subseteq 1 .. 5
        /\ file \in [stage : 0 .. 7, skipped : SUBSET (1 .. 5), writers : SUBSET Keys]
        /\ effects \in [Keys -> SUBSET (1 .. 5)]
        /\ savedKeys \subseteq Keys /\ runs \in 0 .. MaxRuns
    OBVIOUS
  <2> QED BY <2>2, <2>3, <2>4, <2>5, <2>7 DEF TypeOK
<1>2. Running /\ OnItsNetwork /\ PollsItsOwn /\ HomeKnown
    BY DEF Running, OnItsNetwork, PollsItsOwn, HomeKnown, RegisterOps, ProfileOps, ServiceOps,
           StatusOps
<1>3. KeyAtHand /\ FileReal /\ FileAtHand /\ TxOfStatus /\ StatusAgrees
    BY DEF KeyAtHand, FileReal, FileAtHand, TxOfStatus, StatusAgrees, Coming
<1>4. InStage /\ FileOwned /\ ProfileHeld /\ ServicesHeld /\ MarkNeedsEffect
    BY DEF InStage, FileOwned, FileHolds, ProfileHeld, ServicesHeld, MarkNeedsEffect, In
<1> QED BY <1>1, <1>2, <1>3, <1>4 DEF IInv

\* The steps of an operation under way.
LEMMA OpInv ==
    ASSUME IInv, OpStep, program # "down", UNCHANGED programVars
    PROVE  IInv'
<1> USE AgentAssumption, RunAssumption
    DEF IInv, TypeOK, AgentTypeOK, Listings, Ops, Running, OnItsNetwork, PollsItsOwn, HomeKnown,
        KeyAtHand, FileReal, FileAtHand, TxOfStatus, StatusAgrees, Coming, InStage, FileOwned, FileHolds,
        ProfileHeld, ServicesHeld, MarkNeedsEffect, In, RegisterOps, ProfileOps, ServiceOps,
        StatusOps, programVars, agentVars, platformVars, statusVars, Fault, Goto, Returns, Throws, Indexes
<1>1. CASE Challenged BY <1>1 DEF Challenged
<1>2. CASE Submitted BY <1>2 DEF Submitted
<1>3. CASE RegisterFails BY <1>3 DEF RegisterFails
<1>4. CASE PollAgain BY <1>4 DEF PollAgain
<1>5. CASE PollRegistered
  <2>1. CASE onboard[key] = "located" /\ identity' = TRUE /\ Returns /\ UNCHANGED attempts
    BY <1>5, <2>1 DEF PollRegistered
  <2>2. CASE onboard[key] = "registered" /\ attempts' = 0 /\ Goto("locating") /\ UNCHANGED identity
    BY <1>5, <2>2 DEF PollRegistered
  <2> QED BY <1>5, <2>1, <2>2 DEF PollRegistered
<1>6. CASE LocateAgain BY <1>6 DEF LocateAgain
<1>7. CASE Located BY <1>7 DEF Located
<1>8. CASE PollsExhausted BY <1>8 DEF PollsExhausted
<1>9. CASE LoggedIn BY <1>9 DEF LoggedIn
<1>10. CASE ProfileRegistered BY <1>10 DEF ProfileRegistered
<1>11. CASE CanaryAnswered
  <2>1. op' = "idle" /\ result' = "ok" /\ faults' \in 0 .. MaxFaults
    BY <1>11 DEF CanaryAnswered
  <2>2. canaries' \in [platform : BOOLEAN, agent : BOOLEAN]
    <3>1. canaries \in [platform : BOOLEAN, agent : BOOLEAN] OBVIOUS
    <3>2. [canaries EXCEPT !.platform = TRUE] \in [platform : BOOLEAN, agent : BOOLEAN] BY <3>1
    <3>3. [platform |-> TRUE, agent |-> TRUE] \in [platform : BOOLEAN, agent : BOOLEAN] OBVIOUS
    <3> QED BY <1>11, <3>2, <3>3 DEF CanaryAnswered
  <2> QED BY <1>11, <2>1, <2>2 DEF CanaryAnswered
<1>12. CASE ProfileFails BY <1>12 DEF ProfileFails
<1>13. CASE ServiceListed BY <1>13 DEF ServiceListed
<1>14. CASE ServiceFails BY <1>14 DEF ServiceFails
<1>15. CASE UpdateOnChainStatus
  <2>1. op' \in {"list", "status"} /\ faults' \in 0 .. MaxFaults
    BY <1>15 DEF UpdateOnChainStatus, AfterChain
  <2>2. key \in Keys /\ wanted \in {"active", "inactive"} /\ txid \in {"none", "sent", "lost"}
    BY <1>15 DEF UpdateOnChainStatus
  <2>3. /\ inMempool' \in [Keys -> {"none", "active", "inactive"}]
        /\ txid' \in {"none", "sent", "lost"} /\ (txid' = "sent" => inMempool'[key] = wanted)
    BY <1>15, <2>2 DEF UpdateOnChainStatus
  <2> QED BY <1>15, <2>1, <2>2, <2>3 DEF UpdateOnChainStatus
<1>16. CASE ServicesFetched BY <1>16 DEF ServicesFetched
<1>17. CASE ServicesRemoved
  <2>3. faults' \in 0 .. MaxFaults BY <1>17 DEF ServicesRemoved
  <2>4. PICK f \in [Indexes -> Nat] : listed' = [listed EXCEPT ![key] = f]
    <3>1. \A i \in Indexes :
            [j \in Indexes |-> IF i = j THEN listed[key][j] ELSE 0] \in [Indexes -> Nat]
      BY <1>17 DEF ServicesRemoved
    <3> QED BY <1>17, <3>1 DEF ServicesRemoved
  <2>1. listed' \in [Keys -> [Indexes -> Nat]] BY <2>4
  <2>2. at = "free" /\ program = "agent" BY <1>17 DEF ServicesRemoved
  <2> QED BY <1>17, <2>1, <2>2, <2>3 DEF ServicesRemoved
<1>18. CASE StatusSet
  <2>1. /\ onPlatform' = [onPlatform EXCEPT ![key] = wanted] /\ key \in Keys
        /\ op = "status" /\ op' = "idle" /\ result' \in {"ok", "thrown"}
        /\ faults' \in 0 .. MaxFaults
    BY <1>18 DEF StatusSet
  <2>2. onPlatform' \in [Keys -> {"active", "inactive"}] /\ onPlatform'[key] = wanted
    BY <2>1
  <2> QED BY <1>18, <2>1, <2>2 DEF StatusSet
<1>19. CASE StatusFails BY <1>19 DEF StatusFails
<1> QED
  BY <1>1, <1>2, <1>3, <1>4, <1>5, <1>6, <1>7, <1>8, <1>9, <1>10, <1>11, <1>12, <1>13, <1>14,
     <1>15, <1>16, <1>17, <1>18, <1>19
     DEF OpStep

\* The types, by the part of the state they are about.
AgentTypes ==
    /\ key \in Keys \union {None} /\ networkType \in Networks /\ previousNetwork \in Networks
    /\ op \in Ops /\ wanted \in {"active", "inactive"}
    /\ result \in {"none", "ok", "auth", "thrown"}
Flags == identity \in BOOLEAN /\ txid \in {"none", "sent", "lost"} /\ retried \in BOOLEAN
Counters ==
    /\ attempts \in 0 .. maxAttempts + maxIAddressAttempts /\ svc \in 0 .. Len(Services)
    /\ faults \in 0 .. MaxFaults /\ runs \in 0 .. MaxRuns /\ stage \in 1 .. 7
PlatformTypes ==
    /\ onboard \in [Keys -> {"none", "pending", "registered", "located", "failed"}]
    /\ homeOf \in [Keys -> Networks \union {None}]
    /\ profiles \subseteq Keys
    /\ listed \in [Keys -> [Indexes -> Nat]]
    /\ canaries \in [platform : BOOLEAN, agent : BOOLEAN]
    /\ onChain \in [Keys -> {"active", "inactive"}]
    /\ inMempool \in [Keys -> {"none", "active", "inactive"}]
    /\ onPlatform \in [Keys -> {"active", "inactive"}]
DiskTypes ==
    /\ program \in Programs /\ at \in Places
    /\ given \subseteq 1 .. 5
    /\ file \in [stage : 0 .. 7, skipped : SUBSET (1 .. 5), writers : SUBSET Keys]
    /\ effects \in [Keys -> SUBSET (1 .. 5)]
    /\ keyFile \in [key : Keys \union {None}, identity : BOOLEAN] /\ savedKeys \subseteq Keys

LEMMA TypeParts ==
    TypeOK /\ Listings <=> AgentTypes /\ Flags /\ Counters /\ PlatformTypes /\ DiskTypes
<1>1. ASSUME TypeOK, Listings
      PROVE  AgentTypes /\ Flags /\ Counters /\ PlatformTypes /\ DiskTypes
    BY <1>1 DEF TypeOK, AgentTypeOK, Listings, AgentTypes, Flags, Counters, PlatformTypes, DiskTypes
<1>2. ASSUME AgentTypes, Flags, Counters, PlatformTypes, DiskTypes
      PROVE  TypeOK /\ Listings
  <2>1. \A k \in Keys, i \in Indexes : listed[k][i] \in Nat BY <1>2 DEF PlatformTypes
  <2>2. AgentTypeOK BY <1>2, <2>1 DEF AgentTypes, Flags, Counters, PlatformTypes, AgentTypeOK
  <2> QED BY <1>2, <2>2 DEF Flags, Counters, PlatformTypes, DiskTypes, TypeOK, Listings
<1> QED BY <1>1, <1>2

LEMMA NextTypeParts ==
    TypeOK' /\ Listings' <=> AgentTypes' /\ Flags' /\ Counters' /\ PlatformTypes' /\ DiskTypes'
BY TypeParts, PTL

LEMMA BootTypes ==
    ASSUME IInv, NEW p \in Programs, NEW a \in Places, NEW k \in Keys, NEW known \in BOOLEAN,
           Boot(p, a, k, known), stage' \in 1 .. 7, given' \subseteq 1 .. 5, known => onboard[k] = "located"
    PROVE  TypeOK' /\ Listings'
<1> USE AgentAssumption, RunAssumption
<1>0. AgentTypes /\ Flags /\ Counters /\ PlatformTypes /\ DiskTypes BY TypeParts DEF IInv
<1>1. AgentTypes'
  <2>1. networkType' \in Networks BY <1>0 DEF IInv, HomeKnown, Boot, AgentTypes
  <2> QED BY <1>0, <2>1 DEF Boot, AgentTypes, Ops
<1>2. Flags'
  <2>1. txid' = "none" /\ retried' = FALSE /\ identity' = known BY DEF Boot
  <2> QED BY <2>1 DEF Flags
<1>3. Counters' BY <1>0 DEF Boot, Counters
<1>4. PlatformTypes' BY <1>0 DEF Boot, PlatformTypes, platformVars, statusVars, Indexes
<1>5. DiskTypes' BY <1>0 DEF Boot, DiskTypes
<1> QED BY <1>1, <1>2, <1>3, <1>4, <1>5, NextTypeParts

LEMMA BootKeeps ==
    ASSUME IInv, NEW p \in Programs, NEW a \in Places, NEW k \in Keys, NEW known \in BOOLEAN,
           Boot(p, a, k, known), known => onboard[k] = "located",
           p # "down", p = "agent" <=> a = "free", a \notin {"menu", "mark", "profiling"},
           a \in {"registering", "unlinkAgain", "free"} => keyFile.key = k,
           p = "finalize" => a = "hook", given' \subseteq 1 .. 5,
           stage' = IF p # "finalize" THEN stage ELSE IF file.stage = 0 THEN 1 ELSE file.stage
    PROVE  IInv'
<1>1. /\ program' = p /\ at' = a /\ key' = k /\ identity' = known /\ op' = "idle"
      /\ result' = "none" /\ txid' = "none" /\ (known => networkType' = homeOf[k])
      /\ UNCHANGED <<onboard, homeOf, profiles, listed, onChain, inMempool, onPlatform,
                     file, effects, keyFile, savedKeys>>
    BY DEF Boot, platformVars, statusVars
<1>2. TypeOK' /\ Listings'
  <2>1. file.stage \in 0 .. 7 /\ stage \in 1 .. 7 BY DEF IInv, TypeOK
  <2>2. stage' \in 1 .. 7 BY <2>1
  <2> QED BY <2>2, BootTypes
<1>3. Running' BY <1>1 DEF IInv, Running, RegisterOps, ProfileOps, ServiceOps, StatusOps
<1>4. OnItsNetwork' /\ PollsItsOwn' /\ HomeKnown'
    BY <1>1 DEF IInv, OnItsNetwork, PollsItsOwn, HomeKnown, RegisterOps
<1>5. KeyAtHand' /\ FileReal' /\ FileAtHand'
    BY <1>1 DEF IInv, KeyAtHand, FileReal, FileAtHand, RegisterOps
<1>6. TxOfStatus' /\ StatusAgrees' BY <1>1 DEF TxOfStatus, StatusAgrees, Coming
<1>7. InStage' /\ FileOwned' BY <1>1 DEF IInv, TypeOK, InStage, FileOwned, FileHolds
<1>8. ProfileHeld' /\ ServicesHeld' /\ MarkNeedsEffect'
    BY <1>1 DEF ProfileHeld, ServicesHeld, MarkNeedsEffect, In
<1> QED BY <1>2, <1>3, <1>4, <1>5, <1>6, <1>7, <1>8 DEF IInv

\* A program starts.
LEMMA BootInv ==
    ASSUME IInv, NEW k \in Keys,
           \/ Resume
           \/ UpdateAgentProfile
           \/ RunAgent
           \/ GenerateKeys(k)
           \/ RegisterAgent(k)
    PROVE  IInv'
<1> USE DEF Programs, Places
<1>0. /\ keyFile.identity => keyFile.key \in Keys /\ onboard[keyFile.key] = "located"
      /\ given \subseteq 1 .. 5
    BY DEF IInv, FileReal, TypeOK
<1>1. CASE Resume
  <2>1. file.stage \in 0 .. 7 /\ given' \subseteq 1 .. 5
    BY <1>1, RunAssumption DEF Resume, IInv, TypeOK
  <2>2. Boot("finalize", "hook", keyFile.key, TRUE) BY <1>1 DEF Resume
  <2>3. stage' = IF file.stage = 0 THEN 1 ELSE file.stage BY <1>1, <2>1 DEF Resume
  <2> QED BY <1>0, <1>1, <2>1, <2>2, <2>3, BootKeeps DEF Resume
<1>2. CASE UpdateAgentProfile BY <1>0, <1>2, BootKeeps DEF UpdateAgentProfile
<1>3. CASE RunAgent BY <1>0, <1>3, BootKeeps DEF RunAgent
<1>4. CASE GenerateKeys(k)
  <2>1. Boot("generate", "unlink", k, FALSE) /\ stage' = stage /\ given' = given
    BY <1>4 DEF GenerateKeys
  <2> QED BY <1>0, <2>1, BootKeeps
<1>5. CASE RegisterAgent(k)
  <2>1. CASE keyFile.key = k /\ Boot("register", "registering", k, FALSE)
    BY <1>0, <1>5, <2>1, BootKeeps DEF RegisterAgent
  <2>2. CASE Boot("register", "unlink", k, FALSE)
    BY <1>0, <1>5, <2>2, BootKeeps DEF RegisterAgent
  <2> QED BY <1>5, <2>1, <2>2 DEF RegisterAgent
<1> QED BY <1>1, <1>2, <1>3, <1>4, <1>5

\* A program that no operation keeps busy ends.
LEMMA EndInv ==
    ASSUME IInv, End, UNCHANGED <<agentVars, localVars, platformVars>>, op = "idle",
           faults' \in 0 .. MaxFaults
    PROVE  IInv'
<1>1. /\ program' = "down" /\ at' = "menu" /\ stage' = 1 /\ given' = {} /\ retried' = FALSE
      /\ UNCHANGED <<file, effects, keyFile, savedKeys, runs>>
      /\ UNCHANGED <<key, networkType, identity, op, previousNetwork, attempts, svc, wanted, txid,
                     result, onboard, homeOf, profiles, listed, canaries, onChain, inMempool, onPlatform>>
    BY DEF End, agentVars, localVars, platformVars, statusVars
<1>2. TypeOK' /\ Listings'
  <2>1. AgentTypes /\ Flags /\ Counters /\ PlatformTypes /\ DiskTypes BY TypeParts DEF IInv
  <2>2. AgentTypes' /\ Flags' BY <1>1, <2>1 DEF AgentTypes, Flags
  <2>3. Counters' BY <1>1, <2>1 DEF Counters
  <2>4. PlatformTypes' BY <1>1, <2>1 DEF PlatformTypes, Indexes
  <2>5. DiskTypes' BY <1>1, <2>1 DEF DiskTypes, Programs, Places
  <2> QED BY <2>2, <2>3, <2>4, <2>5, NextTypeParts
<1>3. Running' BY <1>1 DEF IInv, Running, RegisterOps, ProfileOps, ServiceOps, StatusOps
<1>4. OnItsNetwork' /\ PollsItsOwn' /\ HomeKnown'
    BY <1>1 DEF IInv, OnItsNetwork, PollsItsOwn, HomeKnown, RegisterOps
<1>5. KeyAtHand' /\ FileReal' /\ FileAtHand'
    BY <1>1 DEF IInv, KeyAtHand, FileReal, FileAtHand, RegisterOps
<1>6. TxOfStatus' /\ StatusAgrees' BY <1>1 DEF IInv, TxOfStatus, StatusAgrees, Coming
<1>7. InStage' /\ FileOwned' BY <1>1 DEF IInv, TypeOK, InStage, FileOwned, FileHolds
<1>8. ProfileHeld' /\ ServicesHeld' /\ MarkNeedsEffect'
    BY <1>1 DEF ProfileHeld, ServicesHeld, MarkNeedsEffect, In
<1> QED BY <1>2, <1>3, <1>4, <1>5, <1>6, <1>7, <1>8 DEF IInv

\* A stage of finalizeOnboarding() has taken effect.
LEMMA AchievedInv ==
    ASSUME IInv, Achieved, UNCHANGED agentAll, program = "finalize", op = "idle", stage \in 1 .. 5,
           stage = 4 => key \in profiles,
           stage = 5 => \A i \in Indexes : listed[key][i] > 0
    PROVE  IInv'
<1>1. /\ at' = "mark"
      /\ UNCHANGED <<program, stage, given, file, retried, keyFile, savedKeys, runs>>
      /\ UNCHANGED <<key, networkType, identity, op, previousNetwork, attempts, svc, wanted, txid,
                     result, onboard, homeOf, profiles, listed, canaries, onChain, inMempool, onPlatform, faults>>
    BY DEF Achieved, agentAll, agentVars, localVars, platformVars, statusVars
<1>2. /\ AgentTypes /\ Flags /\ Counters /\ PlatformTypes /\ DiskTypes /\ key \in Keys
      /\ at \notin {"unlink", "write"}
    BY TypeParts DEF IInv, Running, InStage
<1>3. effects' \in [Keys -> SUBSET (1 .. 5)] /\ stage \in effects'[key]
    BY <1>2 DEF Achieved, DiskTypes
<1>4. TypeOK' /\ Listings'
  <2>2. AgentTypes' /\ Flags' BY <1>1, <1>2 DEF AgentTypes, Flags
  <2>3. Counters' BY <1>1, <1>2 DEF Counters
  <2>4. PlatformTypes' BY <1>1, <1>2 DEF PlatformTypes, Indexes
  <2>5. DiskTypes' BY <1>1, <1>2, <1>3 DEF DiskTypes, Programs, Places
  <2> QED BY <2>2, <2>3, <2>4, <2>5, NextTypeParts
<1>5. Running' BY <1>1 DEF IInv, Running, RegisterOps, ProfileOps, ServiceOps, StatusOps
<1>6. OnItsNetwork' /\ PollsItsOwn' /\ HomeKnown'
    BY <1>1 DEF IInv, OnItsNetwork, PollsItsOwn, HomeKnown, RegisterOps
<1>7. KeyAtHand' /\ FileReal' /\ FileAtHand'
    BY <1>1, <1>2 DEF IInv, KeyAtHand, FileReal, FileAtHand, RegisterOps
<1>8. TxOfStatus' /\ StatusAgrees' BY <1>1 DEF IInv, TxOfStatus, StatusAgrees, Coming
<1>9. InStage' /\ FileOwned'
    BY <1>1, <1>2, <1>3 DEF IInv, InStage, FileOwned, FileHolds, DiskTypes, Counters
<1>10. ProfileHeld' /\ ServicesHeld' /\ MarkNeedsEffect'
    BY <1>1 DEF ProfileHeld, ServicesHeld, MarkNeedsEffect, In, Indexes
<1> QED BY <1>4, <1>5, <1>6, <1>7, <1>8, <1>9, <1>10 DEF IInv

\* A program goes on from one place to another where no operation runs.
LEMMA GoInv ==
    ASSUME IInv, NEW a \in Places, Go(a), op = "idle", program # "down",
           UNCHANGED <<agentVars, platformVars, networkType>>,
           UNCHANGED <<op, previousNetwork, attempts, wanted, txid, result>>,
           svc' \in 0 .. Len(Services), faults' \in 0 .. MaxFaults,
           a \notin {"menu", "mark", "free", "unlink", "write", "registering"},
           at \notin {"free", "unlink", "write"}, a = "unlinkAgain" => at = "registering",
           program = "finalize" =>
               \/ a = "profile" /\ stage = 4 /\ stage \in given
               \/ /\ a = "services" /\ stage = 5 /\ stage \in given
                  /\ \A i \in 1 .. svc' : listed[key][i] > 0,
           a # "profiling"
    PROVE  IInv'
<1>1. /\ at' = a
      /\ UNCHANGED <<program, stage, given, file, effects, retried, keyFile, savedKeys, runs>>
      /\ UNCHANGED <<key, networkType, identity, op, previousNetwork, attempts, wanted, txid,
                     result, onboard, homeOf, profiles, listed, canaries, onChain, inMempool, onPlatform>>
    BY DEF Go, agentVars, platformVars, statusVars
<1>2. TypeOK' /\ Listings'
  <2>1. AgentTypes /\ Flags /\ Counters /\ PlatformTypes /\ DiskTypes BY TypeParts DEF IInv
  <2>2. AgentTypes' /\ Flags' BY <1>1, <2>1 DEF AgentTypes, Flags
  <2>3. Counters' BY <1>1, <2>1 DEF Counters
  <2>4. PlatformTypes' BY <1>1, <2>1 DEF PlatformTypes, Indexes
  <2>5. DiskTypes' BY <1>1, <2>1 DEF DiskTypes
  <2> QED BY <2>2, <2>3, <2>4, <2>5, NextTypeParts
<1>3. Running' BY <1>1 DEF IInv, Running, RegisterOps, ProfileOps, ServiceOps, StatusOps
<1>4. OnItsNetwork' /\ PollsItsOwn' /\ HomeKnown'
    BY <1>1 DEF IInv, OnItsNetwork, PollsItsOwn, HomeKnown, RegisterOps
<1>5. KeyAtHand' /\ FileReal' /\ FileAtHand'
    BY <1>1 DEF IInv, KeyAtHand, FileReal, FileAtHand, RegisterOps
<1>6. TxOfStatus' /\ StatusAgrees' BY <1>1 DEF IInv, TxOfStatus, StatusAgrees, Coming
<1>7. InStage' /\ FileOwned' BY <1>1 DEF IInv, TypeOK, InStage, FileOwned, FileHolds
<1>8. ProfileHeld' /\ ServicesHeld' /\ MarkNeedsEffect'
    BY <1>1 DEF ProfileHeld, ServicesHeld, MarkNeedsEffect, In
<1> QED BY <1>2, <1>3, <1>4, <1>5, <1>6, <1>7, <1>8 DEF IInv

\* At these places of a program no operation runs.
LEMMA IdlePlaces ==
    ASSUME IInv, at \notin {"registering", "profiling", "serving", "free"}
    PROVE  op = "idle"
BY DEF IInv, Running, TypeOK, AgentTypeOK, Ops, RegisterOps, ProfileOps, ServiceOps, StatusOps

\* The file moves past a stage that has taken effect, or that was not asked for.
LEMMA MarkInv ==
    ASSUME IInv, NEW skips \in SUBSET (1 .. 5), MarkNext(skips), program = "finalize",
           at \in {"hook", "mark"}, stage \in 1 .. 6,
           stage = 4 => key \in profiles \/ 4 \in skips
    PROVE  IInv'
<1>1. /\ at' = "hook" /\ stage' = stage + 1
      /\ file' = [stage |-> stage + 1, skipped |-> file.skipped \union skips,
                  writers |-> file.writers \union {key}]
      /\ UNCHANGED <<program, given, effects, retried, keyFile, savedKeys, runs>>
      /\ UNCHANGED <<key, networkType, identity, op, previousNetwork, attempts, svc, wanted, txid,
                     result, onboard, homeOf, profiles, listed, canaries, onChain, inMempool,
                     onPlatform, faults>>
    BY DEF MarkNext, agentAll, agentVars, localVars, platformVars, statusVars
<1>2. /\ AgentTypes /\ Flags /\ Counters /\ PlatformTypes /\ DiskTypes
      /\ key \in Keys /\ op = "idle"
    BY TypeParts, IdlePlaces DEF IInv, Running
<1>3. file' \in [stage : 0 .. 7, skipped : SUBSET (1 .. 5), writers : SUBSET Keys]
  <2>1. /\ stage + 1 \in 0 .. 7 /\ file.skipped \union skips \in SUBSET (1 .. 5)
        /\ file.writers \union {key} \in SUBSET Keys
    <3>1. /\ file \in [stage : 0 .. 7, skipped : SUBSET (1 .. 5), writers : SUBSET Keys]
          /\ stage \in 1 .. 6
      BY <1>2 DEF DiskTypes
    <3>2. file.skipped \in SUBSET (1 .. 5) /\ file.writers \in SUBSET Keys BY <3>1
    <3>3. stage + 1 \in 0 .. 7 BY <3>1
    <3>4. file.skipped \union skips \in SUBSET (1 .. 5) BY <3>2
    <3>5. file.writers \union {key} \in SUBSET Keys BY <1>2, <3>2
    <3> QED BY <3>3, <3>4, <3>5
  <2> QED BY <1>1, <2>1
<1>4. TypeOK' /\ Listings'
  <2>2. AgentTypes' /\ Flags' BY <1>1, <1>2 DEF AgentTypes, Flags
  <2>3. Counters' BY <1>1, <1>2 DEF Counters
  <2>4. PlatformTypes' BY <1>1, <1>2 DEF PlatformTypes, Indexes
  <2>5. DiskTypes' BY <1>1, <1>2, <1>3 DEF DiskTypes, Programs, Places
  <2> QED BY <2>2, <2>3, <2>4, <2>5, NextTypeParts
<1>5. Running'
    BY <1>1, <1>2 DEF IInv, Running, RegisterOps, ProfileOps, ServiceOps, StatusOps
<1>6. OnItsNetwork' /\ PollsItsOwn' /\ HomeKnown'
    BY <1>1 DEF IInv, OnItsNetwork, PollsItsOwn, HomeKnown, RegisterOps
<1>7. KeyAtHand' /\ FileReal' /\ FileAtHand'
    BY <1>1, <1>2 DEF IInv, KeyAtHand, FileReal, FileAtHand, RegisterOps
<1>8. TxOfStatus' /\ StatusAgrees' BY <1>1 DEF IInv, TxOfStatus, StatusAgrees, Coming
<1>9. InStage' BY <1>1 DEF InStage
<1>10. FileOwned'
  <2>1. file'.writers # {} BY <1>1
  <2>2. ASSUME NEW k \in Keys, file'.writers = {k}, file'.stage > 4
        PROVE  k \in profiles' \/ 4 \in file'.skipped
    <3>1. /\ k = key /\ file.writers \subseteq {key} /\ file'.skipped = file.skipped \union skips
          /\ stage \in {4, 5, 6} /\ profiles' = profiles
      BY <1>1, <2>2
    <3>2. CASE stage = 4 BY <3>1, <3>2
    <3>3. CASE stage # 4
      <4>1. file.stage = stage /\ file.writers = {key}
        BY <3>1, <3>3 DEF IInv, InStage, FileOwned
      <4> QED BY <3>1, <3>3, <4>1, <1>2 DEF IInv, FileOwned, FileHolds
    <3> QED BY <3>2, <3>3
  <2> QED BY <2>1, <2>2 DEF FileOwned, FileHolds
<1>11. ProfileHeld' /\ ServicesHeld' /\ MarkNeedsEffect'
    BY <1>1 DEF ProfileHeld, ServicesHeld, MarkNeedsEffect, In
<1> QED BY <1>4, <1>5, <1>6, <1>7, <1>8, <1>9, <1>10, <1>11 DEF IInv

LEMMA BeginProfileInv ==
    ASSUME IInv, BeginProfile, Go("profiling"), at = "profile"
    PROVE  IInv'
<1>0. op = "idle" /\ program # "down" /\ key \in Keys
    BY IdlePlaces DEF IInv, Running
<1>1. /\ at' = "profiling" /\ txid' = "none"
      /\ UNCHANGED <<program, stage, given, file, effects, retried, keyFile, savedKeys, runs>>
      /\ UNCHANGED <<key, networkType, identity, previousNetwork, attempts, svc, wanted,
                     onboard, homeOf, profiles, listed, canaries, onChain, inMempool, onPlatform, faults>>
      /\ \/ op' = "login" /\ result' = result
         \/ op' = "idle" /\ result' = "thrown"
    BY DEF BeginProfile, Go, Goto, Throws, agentVars, platformVars, statusVars
<1>2. TypeOK' /\ Listings'
  <2>1. AgentTypes /\ Flags /\ Counters /\ PlatformTypes /\ DiskTypes BY TypeParts DEF IInv
  <2>2. AgentTypes' /\ Flags' BY <1>1, <2>1 DEF AgentTypes, Flags, Ops
  <2>3. Counters' BY <1>1, <2>1 DEF Counters
  <2>4. PlatformTypes' BY <1>1, <2>1 DEF PlatformTypes, Indexes
  <2>5. DiskTypes' BY <1>1, <2>1 DEF DiskTypes, Places
  <2> QED BY <2>2, <2>3, <2>4, <2>5, NextTypeParts
<1>3. Running' BY <1>0, <1>1 DEF IInv, Running, RegisterOps, ProfileOps, ServiceOps, StatusOps
<1>4. OnItsNetwork' /\ PollsItsOwn' /\ HomeKnown'
    BY <1>0, <1>1 DEF IInv, OnItsNetwork, PollsItsOwn, HomeKnown, RegisterOps
<1>5. KeyAtHand' /\ FileReal' /\ FileAtHand'
    BY <1>1 DEF IInv, KeyAtHand, FileReal, FileAtHand, RegisterOps
<1>6. TxOfStatus' /\ StatusAgrees' BY <1>1 DEF IInv, TxOfStatus, StatusAgrees, Coming
<1>7. InStage' /\ FileOwned' BY <1>1 DEF IInv, TypeOK, InStage, FileOwned, FileHolds
<1>8. ProfileHeld' /\ ServicesHeld' /\ MarkNeedsEffect'
    BY <1>1 DEF ProfileHeld, ServicesHeld, MarkNeedsEffect, In
<1> QED BY <1>2, <1>3, <1>4, <1>5, <1>6, <1>7, <1>8 DEF IInv

\* finalizeOnboarding(), from one stage to the next.
LEMMA FinalizeInv ==
    ASSUME IInv,
           \/ HookOk
           \/ HookThrows
           \/ ResolveProfile
           \/ Mark
           \/ Skip
           \/ Profile
           \/ Profiled
           \/ Reauthenticate
           \/ ResolveServices
           \/ Complete
    PROVE  IInv'
<1> USE DEF In
<1>0. /\ svc \in 0 .. Len(Services) /\ faults \in 0 .. MaxFaults
      /\ 0 \in 0 .. Len(Services) /\ (Fault => faults' \in 0 .. MaxFaults)
    BY AgentAssumption DEF IInv, TypeOK, AgentTypeOK, Fault
<1>1. CASE HookOk
  <2>1. op = "idle" BY <1>1, IdlePlaces DEF HookOk
  <2> QED BY <1>1, <2>1, AchievedInv DEF HookOk
<1>2. CASE HookThrows
  <2>1. op = "idle" BY <1>2, IdlePlaces DEF HookThrows
  <2> QED BY <1>0, <1>2, <2>1, EndInv DEF HookThrows
<1>3. CASE ResolveProfile
  <2>1. op = "idle" BY <1>3, IdlePlaces DEF ResolveProfile
  <2>2. UNCHANGED <<agentVars, localVars, platformVars, faults>>
      BY <1>3 DEF ResolveProfile, agentAll
  <2>3. CASE End BY <1>0, <2>1, <2>2, <2>3, EndInv
  <2>4. CASE Go("profile")
    BY <1>0, <1>3, <2>1, <2>2, <2>4, GoInv
       DEF ResolveProfile, Places, agentVars, localVars, platformVars, statusVars
  <2> QED BY <1>3, <2>3, <2>4 DEF ResolveProfile
<1>4. CASE Profile BY <1>4, BeginProfileInv DEF Profile
<1>5. CASE Profiled
  <2>1. /\ op = "idle" /\ program = "finalize" /\ stage = 4 /\ UNCHANGED agentAll
        /\ (result = "ok" => key \in profiles)
    BY <1>5 DEF Profiled, IInv, InStage, ProfileHeld
  <2>2. UNCHANGED <<agentVars, localVars, platformVars, faults>> BY <2>1 DEF agentAll
  <2>3. CASE result = "ok" /\ Achieved BY <2>1, <2>3, AchievedInv
  <2>4. CASE End BY <1>0, <2>1, <2>2, <2>4, EndInv
  <2>5. CASE /\ retried' = TRUE /\ at' = "auth"
             /\ UNCHANGED <<program, stage, given, file, effects, keyFile, savedKeys, runs>>
    <3>1. UNCHANGED <<key, networkType, identity, op, previousNetwork, attempts, svc, wanted, txid,
                      result, onboard, homeOf, profiles, listed, canaries, onChain, inMempool, onPlatform, faults>>
      BY <2>2 DEF agentVars, localVars, platformVars, statusVars
    <3>2. TypeOK' /\ Listings'
      <4>1. AgentTypes /\ Flags /\ Counters /\ PlatformTypes /\ DiskTypes
          BY TypeParts DEF IInv
      <4>2. AgentTypes' /\ Flags' BY <2>5, <3>1, <4>1 DEF AgentTypes, Flags
      <4>3. Counters' BY <2>5, <3>1, <4>1 DEF Counters
      <4>4. PlatformTypes' BY <3>1, <4>1 DEF PlatformTypes, Indexes
      <4>5. DiskTypes' BY <2>5, <3>1, <4>1 DEF DiskTypes, Places
      <4> QED BY <4>2, <4>3, <4>4, <4>5, NextTypeParts
    <3> QED
      BY <1>5, <2>1, <2>5, <3>1, <3>2
         DEF Profiled, IInv, Running, OnItsNetwork, PollsItsOwn, HomeKnown, KeyAtHand,
             FileReal, FileAtHand, TxOfStatus, StatusAgrees, Coming, InStage, FileOwned, FileHolds, ProfileHeld,
             ServicesHeld, MarkNeedsEffect, RegisterOps, ProfileOps, ServiceOps, StatusOps
  <2> QED BY <1>5, <2>3, <2>4, <2>5 DEF Profiled
<1>6. CASE Reauthenticate
  <2>1. op = "idle" /\ program = "finalize" /\ at = "auth" /\ stage = 4 /\ stage \in given
    BY <1>6, IdlePlaces DEF Reauthenticate, IInv, InStage
  <2>2. UNCHANGED <<agentVars, localVars, platformVars>> BY <1>6 DEF Reauthenticate
  <2>3. CASE Fault /\ End BY <1>0, <2>1, <2>2, <2>3, EndInv
  <2>4. CASE Go("profile") /\ UNCHANGED faults
    BY <1>0, <2>1, <2>2, <2>4, GoInv DEF Places, agentVars, localVars, platformVars, statusVars
  <2> QED BY <1>6, <2>3, <2>4 DEF Reauthenticate
<1>7. CASE ResolveServices
  <2>1. op = "idle" BY <1>7, IdlePlaces DEF ResolveServices
  <2>2. svc' = 0 /\ \A i \in 1 .. svc' : listed[key][i] > 0 BY <1>7 DEF ResolveServices
  <2> QED BY <1>0, <1>7, <2>1, <2>2, GoInv DEF ResolveServices, Places, agentVars
<1>8. CASE Complete
  <2>1. op = "idle" BY <1>8, IdlePlaces DEF Complete
  <2>2. CASE stage = 6 /\ MarkNext({}) BY <1>8, <2>2, MarkInv DEF Complete
  <2>3. CASE Ends BY <1>0, <2>1, <2>3, EndInv DEF Ends, agentAll
  <2> QED BY <1>8, <2>2, <2>3 DEF Complete
<1>9. CASE Mark
  <2>1. program = "finalize" /\ at = "mark" /\ stage \in 1 .. 5 /\ (stage = 4 => key \in profiles)
    BY <1>9 DEF Mark, IInv, InStage, MarkNeedsEffect
  <2> QED BY <1>9, <2>1, MarkInv DEF Mark
<1>10. CASE Skip
  <2>1. {stage} \in SUBSET (1 .. 5) /\ stage \in 1 .. 6 BY <1>10 DEF Skip
  <2> QED BY <1>10, <2>1, MarkInv DEF Skip
<1> QED BY <1>1, <1>2, <1>3, <1>4, <1>5, <1>6, <1>7, <1>8, <1>9, <1>10

\* The services, which finalize and the command line share.
LEMMA ServicesInv ==
    ASSUME IInv, NextService \/ Served
    PROVE  IInv'
<1>0. /\ svc \in 0 .. Len(Services) /\ faults \in 0 .. MaxFaults
      /\ Len(Services) \in Nat /\ Indexes = 1 .. Len(Services)
    BY AgentAssumption DEF IInv, TypeOK, AgentTypeOK, Indexes
<1>1. CASE NextService
  <2>0. op = "idle" /\ at = "services" /\ program # "down" BY <1>1 DEF NextService
  <2>1. CASE svc = Len(Services) /\ UNCHANGED agentAll /\ End
    BY <1>0, <2>0, <2>1, EndInv DEF agentAll
  <2>2. CASE svc = Len(Services) /\ UNCHANGED agentAll /\ program = "finalize" /\ Achieved
    <3>1. stage = 5 /\ \A i \in Indexes : listed[key][i] > 0
      BY <1>0, <2>0, <2>2 DEF IInv, InStage, ServicesHeld
    <3> QED BY <2>0, <2>2, <3>1, AchievedInv
  <2>3. CASE svc < Len(Services) /\ BeginService(svc + 1) /\ Go("serving")
    <3>1. /\ at' = "serving" /\ txid' = "none"
          /\ UNCHANGED <<program, stage, given, file, effects, retried, keyFile, savedKeys, runs>>
          /\ UNCHANGED <<key, networkType, identity, previousNetwork, attempts, wanted,
                         onboard, homeOf, profiles, listed, canaries, onChain, inMempool, onPlatform, faults>>
          /\ \/ op' = "loginService" /\ result' = result /\ svc' = svc + 1
             \/ op' = "idle" /\ result' = "thrown" /\ svc' = svc
      BY <2>3 DEF BeginService, Go, Goto, Throws, agentVars, platformVars, statusVars
    <3>2. svc' \in 0 .. Len(Services) /\ svc' - 1 <= svc /\ (op' # "idle" => svc' \in Indexes)
      BY <1>0, <2>3, <3>1
    <3>3. TypeOK' /\ Listings'
      <4>1. AgentTypes /\ Flags /\ Counters /\ PlatformTypes /\ DiskTypes
          BY TypeParts DEF IInv
      <4>2. AgentTypes' /\ Flags' BY <3>1, <4>1 DEF AgentTypes, Flags, Ops
      <4>3. Counters' BY <3>1, <3>2, <4>1 DEF Counters
      <4>4. PlatformTypes' BY <3>1, <4>1 DEF PlatformTypes, Indexes
      <4>5. DiskTypes' BY <3>1, <4>1 DEF DiskTypes, Places
      <4> QED BY <4>2, <4>3, <4>4, <4>5, NextTypeParts
    <3>4. Running'
      BY <2>0, <3>1, <3>2
         DEF IInv, Running, RegisterOps, ProfileOps, ServiceOps, StatusOps, Indexes
    <3>5. OnItsNetwork' /\ PollsItsOwn' /\ HomeKnown'
      BY <2>0, <3>1 DEF IInv, OnItsNetwork, PollsItsOwn, HomeKnown, RegisterOps
    <3>6. KeyAtHand' /\ FileReal' /\ FileAtHand'
      BY <2>0, <3>1 DEF IInv, KeyAtHand, FileReal, FileAtHand, RegisterOps
    <3>7. TxOfStatus' /\ StatusAgrees' BY <3>1 DEF IInv, TxOfStatus, StatusAgrees, Coming
    <3>8. InStage' /\ FileOwned' BY <2>0, <3>1 DEF IInv, TypeOK, InStage, FileOwned, FileHolds
    <3>9. ProfileHeld' /\ MarkNeedsEffect' BY <3>1 DEF ProfileHeld, MarkNeedsEffect, In
    <3>10. ServicesHeld'
      <4>1. program = "finalize" => \A i \in 1 .. svc : listed[key][i] > 0
        BY <2>0 DEF IInv, ServicesHeld
      <4>2. \A i \in 1 .. svc' - 1 : i \in 1 .. svc
        <5>1. svc \in Nat /\ svc' \in {svc, svc + 1} BY <1>0, <3>1
        <5>2. \A n \in Nat : \A i \in 1 .. (n + 1) - 1 : i \in 1 .. n OBVIOUS
        <5>3. \A n \in Nat : \A i \in 1 .. n - 1 : i \in 1 .. n OBVIOUS
        <5> QED BY <5>1, <5>2, <5>3
      <4> QED BY <3>1, <4>1, <4>2 DEF ServicesHeld
    <3> QED BY <3>3, <3>4, <3>5, <3>6, <3>7, <3>8, <3>9, <3>10 DEF IInv
  <2> QED BY <1>1, <2>1, <2>2, <2>3 DEF NextService
<1>2. CASE Served
  <2>1. /\ op = "idle" /\ at = "serving" /\ program # "down" /\ UNCHANGED agentAll
        /\ (program = "finalize" => stage = 5 /\ stage \in given)
        /\ program = "finalize" /\ result = "ok" => \A i \in 1 .. svc : listed[key][i] > 0
    BY <1>2 DEF Served, IInv, Running, InStage, ServicesHeld
  <2>2. UNCHANGED <<agentVars, localVars, platformVars, faults>> BY <2>1 DEF agentAll
  <2>3. CASE End BY <1>0, <2>1, <2>2, <2>3, EndInv
  <2>4. CASE Go("services") /\ ~(program = "finalize" /\ result # "ok")
    BY <1>0, <2>1, <2>2, <2>4, GoInv DEF Places, agentVars, localVars, platformVars, statusVars
  <2> QED BY <1>2, <2>3, <2>4 DEF Served
<1> QED BY <1>1, <1>2

\* What a step of the command line leaves alone.
CommandKeeps ==
    /\ UNCHANGED <<stage, given, file, effects, retried, runs>>
    /\ UNCHANGED <<key, networkType, identity, op, previousNetwork, attempts, svc, wanted, txid,
                   result, onboard, homeOf, profiles, listed, canaries, onChain, inMempool, onPlatform, faults>>

\* The command line writes its key file.
LEMMA KeyFileInv ==
    ASSUME IInv, Unlink \/ WriteKeys
    PROVE  IInv'
<1>0. /\ AgentTypes /\ Flags /\ Counters /\ PlatformTypes /\ DiskTypes
      /\ at \in {"unlink", "unlinkAgain", "write", "writeAgain"} /\ op = "idle"
      /\ program \notin {"down", "agent", "finalize"} /\ key \in Keys
  <2>1. at \in {"unlink", "unlinkAgain", "write", "writeAgain"} BY DEF Unlink, WriteKeys
  <2> QED BY <2>1, TypeParts, IdlePlaces DEF IInv, Running, InStage
<1>1. /\ CommandKeeps /\ program' \in {program, "down"}
      /\ program' = "down" <=> at' = "menu"
      /\ at' \in {"write", "writeAgain", "menu", "registering", "profile"}
      /\ savedKeys' \subseteq savedKeys \union {key}
      /\ keyFile' \in {NoFile, [key |-> key, identity |-> identity]}
      /\ at' = "registering" => keyFile' = [key |-> key, identity |-> identity]
  <2>1. CASE Unlink
    BY <1>0, <2>1
       DEF Unlink, CommandKeeps, agentAll, agentVars, localVars, platformVars, statusVars, IInv, FileAtHand
  <2>2. CASE WriteKeys
    BY <1>0, <2>2
       DEF WriteKeys, CommandKeeps, agentAll, agentVars, localVars, platformVars, statusVars
  <2> QED BY <2>1, <2>2
<1>2. /\ keyFile' \in [key : Keys \union {None}, identity : BOOLEAN]
      /\ keyFile'.identity => keyFile'.key = key /\ identity
      /\ keyFile'.key # None => keyFile'.key = key /\ keyFile' # NoFile
  <2>1. NoFile \in [key : Keys \union {None}, identity : BOOLEAN]
        /\ ~NoFile.identity /\ NoFile.key = None
    BY DEF NoFile
  <2>2. CASE keyFile' = NoFile BY <2>1, <2>2
  <2>3. CASE keyFile' = [key |-> key, identity |-> identity] /\ keyFile' # NoFile
    BY <1>0, <2>3 DEF Flags, AgentTypes
  <2> QED BY <1>1, <2>2, <2>3
<1>3. TypeOK' /\ Listings'
  <2>2. AgentTypes' /\ Flags' BY <1>0, <1>1 DEF CommandKeeps, AgentTypes, Flags
  <2>3. Counters' BY <1>0, <1>1 DEF CommandKeeps, Counters
  <2>4. PlatformTypes' BY <1>0, <1>1 DEF CommandKeeps, PlatformTypes, Indexes
  <2>5. DiskTypes' BY <1>0, <1>1, <1>2 DEF CommandKeeps, DiskTypes, Places, Programs
  <2> QED BY <2>2, <2>3, <2>4, <2>5, NextTypeParts
<1>4. Running'
    BY <1>0, <1>1
       DEF CommandKeeps, IInv, Running, RegisterOps, ProfileOps, ServiceOps, StatusOps
<1>5. OnItsNetwork' /\ PollsItsOwn' /\ HomeKnown'
    BY <1>0, <1>1 DEF CommandKeeps, IInv, OnItsNetwork, PollsItsOwn, HomeKnown, RegisterOps
<1>6. KeyAtHand' /\ FileReal' /\ FileAtHand'
  <2>1. identity => onboard[key] = "located" BY DEF IInv, OnItsNetwork
  <2> QED BY <1>0, <1>1, <1>2, <2>1 DEF CommandKeeps, IInv, KeyAtHand, FileReal, FileAtHand, RegisterOps
<1>7. TxOfStatus' /\ StatusAgrees' BY <1>1 DEF CommandKeeps, IInv, TxOfStatus, StatusAgrees, Coming
<1>8. InStage' /\ FileOwned'
    BY <1>0, <1>1 DEF CommandKeeps, IInv, TypeOK, InStage, FileOwned, FileHolds
<1>9. ProfileHeld' /\ ServicesHeld' /\ MarkNeedsEffect'
    BY <1>0, <1>1 DEF CommandKeeps, ProfileHeld, ServicesHeld, MarkNeedsEffect, In
<1> QED BY <1>3, <1>4, <1>5, <1>6, <1>7, <1>8, <1>9 DEF IInv

\* register() begins.
LEMMA BeginRegisterInv ==
    ASSUME IInv, NEW net \in Networks, op = "idle", op' = "challenge",
           at \in {"registering", "free"},
           previousNetwork' = networkType, networkType' = net, attempts' = 0, txid' = "none",
           UNCHANGED <<key, identity, svc, wanted, result, faults, onboard, homeOf, profiles,
                       listed, canaries, onChain, inMempool, onPlatform>>,
           UNCHANGED <<program, at, stage, given, file, effects, retried, keyFile, savedKeys, runs>>
    PROVE  IInv'
<1>1. TypeOK' /\ Listings'
  <2>1. AgentTypes /\ Flags /\ Counters /\ PlatformTypes /\ DiskTypes BY TypeParts DEF IInv
  <2>2. AgentTypes' /\ Flags' BY <2>1 DEF AgentTypes, Flags, Ops
  <2>3. Counters' BY <2>1, AgentAssumption DEF Counters
  <2>4. PlatformTypes' BY <2>1 DEF PlatformTypes, Indexes
  <2>5. DiskTypes' BY <2>1 DEF DiskTypes
  <2> QED BY <2>2, <2>3, <2>4, <2>5, NextTypeParts
<1>2. Running' BY DEF IInv, Running, RegisterOps, ProfileOps, ServiceOps, StatusOps
<1>3. OnItsNetwork' /\ PollsItsOwn' /\ HomeKnown'
    BY DEF IInv, OnItsNetwork, PollsItsOwn, HomeKnown, RegisterOps
<1>4. KeyAtHand' /\ FileReal' /\ FileAtHand' BY DEF IInv, KeyAtHand, FileReal, FileAtHand, RegisterOps
<1>5. TxOfStatus' /\ StatusAgrees' BY DEF IInv, TxOfStatus, StatusAgrees, Coming
<1>6. InStage' /\ FileOwned' BY DEF IInv, InStage, FileOwned, FileHolds
<1>7. ProfileHeld' /\ ServicesHeld' /\ MarkNeedsEffect'
    BY DEF IInv, ProfileHeld, ServicesHeld, MarkNeedsEffect, In, Indexes
<1> QED BY <1>1, <1>2, <1>3, <1>4, <1>5, <1>6, <1>7 DEF IInv

\* The command line.
LEMMA CommandInv ==
    ASSUME IInv, NEW net \in Networks,
           \/ CollectProfile(net)
           \/ CliRegistered
           \/ CliProfile
           \/ CliProfiled
    PROVE  IInv'
<1> USE DEF In
<1>0. /\ svc \in 0 .. Len(Services) /\ faults \in 0 .. MaxFaults /\ 0 \in 0 .. Len(Services)
    BY AgentAssumption DEF IInv, TypeOK, AgentTypeOK
<1>1. CASE CollectProfile(net)
  <2>1. CASE Ends BY <1>0, <1>1, <2>1, EndInv DEF CollectProfile, Ends, agentAll
  <2>2. CASE BeginRegister(net) /\ UNCHANGED programVars
    <3>1. /\ previousNetwork' = networkType /\ networkType' = net /\ attempts' = 0
          /\ txid' = "none" /\ op = "idle" /\ op' = "challenge" /\ at = "registering"
          /\ UNCHANGED <<key, identity, svc, wanted, result, faults, onboard, homeOf, profiles,
                         listed, canaries, onChain, inMempool, onPlatform>>
          /\ UNCHANGED <<program, at, stage, given, file, effects, retried, keyFile, savedKeys, runs>>
      BY <1>1, <2>2 DEF CollectProfile, BeginRegister, Goto, platformVars, statusVars, programVars
    <3> QED BY <3>1, BeginRegisterInv
  <2> QED BY <1>1, <2>1, <2>2 DEF CollectProfile
<1>2. CASE CliRegistered
  <2>1. /\ op = "idle" /\ at = "registering" /\ program = "register"
        /\ UNCHANGED <<agentVars, localVars, platformVars, faults>>
    BY <1>2 DEF CliRegistered, agentAll
  <2>2. CASE End BY <1>0, <2>1, <2>2, EndInv
  <2>3. CASE Go("unlinkAgain")
    BY <1>0, <2>1, <2>3, GoInv DEF Places, agentVars, localVars, platformVars, statusVars
  <2> QED BY <1>2, <2>2, <2>3 DEF CliRegistered
<1>3. CASE CliProfile BY <1>3, BeginProfileInv DEF CliProfile
<1>4. CASE CliProfiled
  <2>1. /\ op = "idle" /\ at = "profiling" /\ program \in {"register", "update"}
        /\ UNCHANGED <<agentVars, platformVars, faults>>
        /\ UNCHANGED <<op, previousNetwork, attempts, wanted, txid, result>>
    BY <1>4 DEF CliProfiled
  <2>2. CASE End /\ UNCHANGED svc BY <1>0, <2>1, <2>2, EndInv DEF localVars
  <2>3. CASE Go("services") /\ svc' = 0
    BY <1>0, <2>1, <2>3, GoInv DEF Places, agentVars
  <2> QED BY <1>4, <2>2, <2>3 DEF CliProfiled
<1> QED BY <1>1, <1>2, <1>3, <1>4

\* A program that calls the operations, and the end of any program.
LEMMA AgentRunInv ==
    ASSUME IInv,
           \/ AgentCalls
           \/ AgentStops
           \/ Crash
    PROVE  IInv'
<1> USE DEF In
<1>0. faults \in 0 .. MaxFaults /\ (Fault => faults' \in 0 .. MaxFaults)
    BY AgentAssumption DEF IInv, TypeOK, AgentTypeOK, Fault
<1>1. CASE AgentCalls
  <2>1. /\ program = "agent" /\ at = "free"
        /\ UNCHANGED <<program, at, stage, given, file, effects, retried, keyFile, savedKeys, runs>>
    BY <1>1 DEF AgentCalls, programVars
  <2>2. ASSUME NEW net \in Networks, BeginRegister(net) PROVE IInv'
    <3>1. /\ previousNetwork' = networkType /\ networkType' = net /\ attempts' = 0
          /\ txid' = "none" /\ op = "idle" /\ op' = "challenge"
          /\ UNCHANGED <<key, identity, svc, wanted, result, faults, onboard, homeOf, profiles,
                         listed, canaries, onChain, inMempool, onPlatform>>
      BY <2>2 DEF BeginRegister, Goto, platformVars, statusVars
    <3> QED BY <2>1, <3>1, BeginRegisterInv
  <2>3. ASSUME NEW s \in {"active", "inactive"}, BeginStatus(s) PROVE IInv'
    <3>1. /\ wanted' = s /\ txid' = "none" /\ op = "idle" /\ op' = "loginStatus"
          /\ UNCHANGED <<key, networkType, identity, previousNetwork, attempts, svc, result, faults,
                         onboard, homeOf, profiles, listed, canaries, onChain, inMempool, onPlatform>>
      BY <2>3 DEF BeginStatus, Goto, agentVars, platformVars, statusVars
    <3>2. TypeOK' /\ Listings'
      <4>1. AgentTypes /\ Flags /\ Counters /\ PlatformTypes /\ DiskTypes
          BY TypeParts DEF IInv
      <4>2. AgentTypes' /\ Flags' BY <2>1, <3>1, <4>1 DEF AgentTypes, Flags, Ops
      <4>3. Counters' BY <2>1, <3>1, <4>1 DEF Counters
      <4>4. PlatformTypes' BY <3>1, <4>1 DEF PlatformTypes, Indexes
      <4>5. DiskTypes' BY <2>1, <4>1 DEF DiskTypes
      <4> QED BY <4>2, <4>3, <4>4, <4>5, NextTypeParts
    <3> QED
      BY <2>1, <3>1, <3>2
         DEF IInv, Running, OnItsNetwork, PollsItsOwn, HomeKnown, KeyAtHand,
             FileReal, FileAtHand, TxOfStatus, StatusAgrees, Coming, InStage, FileOwned, FileHolds, ProfileHeld,
             ServicesHeld, MarkNeedsEffect, RegisterOps, ProfileOps, ServiceOps, StatusOps
  <2> QED BY <1>1, <2>2, <2>3 DEF AgentCalls
<1>2. CASE AgentStops BY <1>0, <1>2, EndInv DEF AgentStops, Ends, agentAll
<1>3. CASE Crash
  <2>1. /\ program' = "down" /\ at' = "menu" /\ op' = "idle" /\ result' = "none"
        /\ stage' = 1 /\ given' = {} /\ retried' = FALSE
        /\ txid' = "none" /\ identity' = FALSE /\ faults' \in 0 .. MaxFaults
        /\ UNCHANGED <<key, networkType, previousNetwork, attempts, svc, wanted, onboard, homeOf,
                       profiles, listed, canaries, onChain, inMempool, onPlatform>>
        /\ UNCHANGED <<file, effects, keyFile, savedKeys, runs>>
    BY <1>0, <1>3 DEF Crash, End, platformVars, statusVars
  <2>2. TypeOK' /\ Listings'
    <3>1. AgentTypes /\ Flags /\ Counters /\ PlatformTypes /\ DiskTypes
        BY TypeParts DEF IInv
    <3>2. AgentTypes' BY <2>1, <3>1 DEF AgentTypes, Ops
    <3>3. Counters' BY <2>1, <3>1 DEF Counters
    <3>4. PlatformTypes' BY <2>1, <3>1 DEF PlatformTypes, Indexes
    <3>5. DiskTypes' BY <2>1, <3>1 DEF DiskTypes, Places, Programs
    <3>6. Flags' BY <2>1, <3>1 DEF Flags
    <3> QED BY <3>2, <3>3, <3>4, <3>5, <3>6, NextTypeParts
  <2> QED
    BY <2>1, <2>2
       DEF IInv, Running, OnItsNetwork, PollsItsOwn, HomeKnown, KeyAtHand,
           FileReal, FileAtHand, TxOfStatus, StatusAgrees, Coming, InStage, FileOwned, FileHolds, ProfileHeld,
           ServicesHeld, MarkNeedsEffect, In, RegisterOps, ProfileOps, ServiceOps, StatusOps
<1> QED BY <1>1, <1>2, <1>3

\* The platform mints an identity, and later finds its i-address.
LEMMA PlatformInv ==
    ASSUME IInv, NEW k \in Keys, Onboarding(k), UNCHANGED programVars
    PROVE  IInv'
<1>1. /\ UNCHANGED <<key, networkType, identity, op, previousNetwork, attempts, svc, wanted, txid,
                     result, homeOf, profiles, listed, canaries, onChain, inMempool, onPlatform, faults>>
      /\ UNCHANGED <<program, at, stage, given, file, effects, retried, keyFile, savedKeys, runs>>
    BY DEF Onboarding, agentVars, localVars, statusVars, programVars
<1>2. /\ AgentTypes /\ Flags /\ Counters /\ PlatformTypes /\ DiskTypes
    BY TypeParts DEF IInv
<1>3. PICK s \in {"registered", "failed", "located"} :
          onboard[k] \in {"pending", "registered"} /\ onboard' = [onboard EXCEPT ![k] = s]
    BY DEF Onboarding
<1>4. /\ onboard' \in [Keys -> {"none", "pending", "registered", "located", "failed"}]
      /\ \A n \in Keys : onboard'[n] = "none" <=> onboard[n] = "none"
      /\ \A n \in Keys : onboard[n] = "located" => onboard'[n] = "located"
    BY <1>2, <1>3 DEF PlatformTypes
<1>5. TypeOK' /\ Listings'
  <2>1. AgentTypes' /\ Flags' BY <1>1, <1>2 DEF AgentTypes, Flags
  <2>2. Counters' BY <1>1, <1>2 DEF Counters
  <2>3. PlatformTypes' BY <1>1, <1>2, <1>4 DEF PlatformTypes, Indexes
  <2>4. DiskTypes' BY <1>1, <1>2 DEF DiskTypes
  <2> QED BY <2>1, <2>2, <2>3, <2>4, NextTypeParts
<1>6. Running' /\ TxOfStatus' /\ StatusAgrees' /\ InStage' /\ FileOwned'
    BY <1>1 DEF IInv, Running, TxOfStatus, StatusAgrees, Coming, InStage, FileOwned, FileHolds, Indexes
<1>7. OnItsNetwork' /\ PollsItsOwn' /\ HomeKnown'
    BY <1>1, <1>4 DEF IInv, OnItsNetwork, PollsItsOwn, HomeKnown, Running, RegisterOps
<1>8. KeyAtHand' /\ FileReal' /\ FileAtHand'
    BY <1>1, <1>4 DEF IInv, KeyAtHand, FileReal, FileAtHand, RegisterOps
<1>9. ProfileHeld' /\ ServicesHeld' /\ MarkNeedsEffect'
    BY <1>1 DEF IInv, ProfileHeld, ServicesHeld, MarkNeedsEffect, In, Indexes
<1> QED BY <1>5, <1>6, <1>7, <1>8, <1>9 DEF IInv

\* A status transaction is mined, or expires.
LEMMA SettlesInv ==
    ASSUME IInv, NEW k \in Keys, Settles(k), UNCHANGED programVars
    PROVE  IInv'
<1>1. /\ UNCHANGED <<key, networkType, identity, op, previousNetwork, attempts, svc, wanted,
                     result, onboard, homeOf, profiles, listed, canaries, onPlatform, faults>>
      /\ UNCHANGED <<program, at, stage, given, file, effects, retried, keyFile, savedKeys, runs>>
    BY DEF Settles, agentVars, programVars
<1>2. /\ AgentTypes /\ Flags /\ Counters /\ PlatformTypes /\ DiskTypes
    BY TypeParts DEF IInv
<1>3. /\ onChain' \in [Keys -> {"active", "inactive"}]
      /\ inMempool' \in [Keys -> {"none", "active", "inactive"}]
      /\ txid' \in {"none", "sent", "lost"}
      /\ txid' = "sent" => txid = "sent" /\ (key \in Keys => Coming(key)' = Coming(key))
  <2>1. /\ inMempool[k] \in {"active", "inactive"} /\ inMempool' = [inMempool EXCEPT ![k] = "none"]
        /\ inMempool \in [Keys -> {"none", "active", "inactive"}]
        /\ onChain \in [Keys -> {"active", "inactive"}] /\ txid \in {"none", "sent", "lost"}
    BY <1>2 DEF Settles, PlatformTypes, Flags
  <2>2. CASE onChain' = [onChain EXCEPT ![k] = inMempool[k]] /\ UNCHANGED txid
    <3>1. ASSUME key \in Keys PROVE Coming(key)' = Coming(key)
      BY <1>1, <2>1, <2>2, <3>1 DEF Coming
    <3> QED BY <2>1, <2>2, <3>1
  <2>3. CASE UNCHANGED onChain /\ txid' = (IF k = key /\ txid = "sent" THEN "lost" ELSE txid)
    <3>1. ASSUME key \in Keys, txid' = "sent" PROVE Coming(key)' = Coming(key)
      BY <1>1, <2>1, <2>3, <3>1 DEF Coming
    <3> QED BY <2>1, <2>3, <3>1
  <2> QED BY <2>2, <2>3 DEF Settles
<1>4. TypeOK' /\ Listings'
  <2>1. AgentTypes' /\ Flags' BY <1>1, <1>2, <1>3 DEF AgentTypes, Flags
  <2>2. Counters' BY <1>1, <1>2 DEF Counters
  <2>3. PlatformTypes' BY <1>1, <1>2, <1>3 DEF PlatformTypes, Indexes
  <2>4. DiskTypes' BY <1>1, <1>2 DEF DiskTypes
  <2> QED BY <2>1, <2>2, <2>3, <2>4, NextTypeParts
<1>5. Running' /\ InStage' BY <1>1 DEF IInv, Running, InStage, Indexes
<1>6. FileOwned' BY <1>1 DEF IInv, FileOwned, FileHolds
<1>7. TxOfStatus' /\ StatusAgrees'
  <2>1. op # "idle" \/ result = "ok" => key \in Keys
    BY DEF IInv, Running, TypeOK, AgentTypeOK, Ops, RegisterOps, ProfileOps, ServiceOps, StatusOps
  <2>2. CASE key \in Keys BY <1>1, <1>3, <2>2 DEF IInv, TxOfStatus, StatusAgrees
  <2>3. CASE key \notin Keys BY <1>1, <2>1, <2>3 DEF TxOfStatus, StatusAgrees
  <2> QED BY <2>2, <2>3
<1>8. OnItsNetwork' /\ PollsItsOwn' /\ HomeKnown'
    BY <1>1 DEF IInv, OnItsNetwork, PollsItsOwn, HomeKnown, RegisterOps
<1>9. KeyAtHand' /\ FileReal' /\ FileAtHand'
    BY <1>1 DEF IInv, KeyAtHand, FileReal, FileAtHand, RegisterOps
<1>10. ProfileHeld' /\ ServicesHeld' /\ MarkNeedsEffect'
    BY <1>1 DEF IInv, ProfileHeld, ServicesHeld, MarkNeedsEffect, In, Indexes
<1> QED BY <1>4, <1>5, <1>6, <1>7, <1>8, <1>9, <1>10 DEF IInv

LEMMA StepInv == IInv /\ [Next]_allVars => IInv'
<1> SUFFICES ASSUME IInv, [Next]_allVars PROVE IInv' OBVIOUS
<1>1. CASE UNCHANGED allVars
  <2>1. /\ UNCHANGED <<key, networkType, identity, op, previousNetwork, attempts, svc, wanted, txid,
                       result, onboard, homeOf, profiles, listed, canaries, onChain, inMempool, onPlatform, faults>>
        /\ UNCHANGED <<program, at, stage, given, file, effects, retried, keyFile, savedKeys, runs>>
    BY <1>1 DEF allVars, agentAll, agentVars, localVars, platformVars, statusVars, programVars
  <2>2. TypeOK' /\ Listings'
    <3>1. AgentTypes /\ Flags /\ Counters /\ PlatformTypes /\ DiskTypes BY TypeParts DEF IInv
    <3>2. AgentTypes' /\ Flags' BY <2>1, <3>1 DEF AgentTypes, Flags
    <3>3. Counters' BY <2>1, <3>1 DEF Counters
    <3>4. PlatformTypes' BY <2>1, <3>1 DEF PlatformTypes, Indexes
    <3>5. DiskTypes' BY <2>1, <3>1 DEF DiskTypes
    <3> QED BY <3>2, <3>3, <3>4, <3>5, NextTypeParts
  <2>3. /\ Running' /\ OnItsNetwork' /\ PollsItsOwn' /\ HomeKnown'
        /\ KeyAtHand' /\ FileReal' /\ FileAtHand'
    BY <2>1
       DEF IInv, Running, OnItsNetwork, PollsItsOwn, HomeKnown, KeyAtHand, FileReal, FileAtHand,
           Indexes
  <2>4. /\ TxOfStatus' /\ StatusAgrees' /\ InStage' /\ FileOwned'
        /\ ProfileHeld' /\ ServicesHeld' /\ MarkNeedsEffect'
    BY <2>1
       DEF IInv, TxOfStatus, StatusAgrees, Coming, InStage, FileOwned, FileHolds, ProfileHeld, ServicesHeld,
           MarkNeedsEffect, In, Indexes
  <2> QED BY <2>2, <2>3, <2>4 DEF IInv
<1>2. CASE Step
  <2>1. CASE OpStep /\ program # "down" /\ UNCHANGED programVars BY <2>1, OpInv
  <2>2. CASE \E net \in Networks : CollectProfile(net) BY <2>2, CommandInv
  <2>3. \E net \in Networks : TRUE BY DEF IInv, TypeOK, AgentTypeOK
  <2> QED
    BY <1>2, <2>1, <2>2, <2>3, FinalizeInv, ServicesInv, KeyFileInv, CommandInv,
       AgentRunInv
       DEF Step
<1>3. CASE Crash \/ AgentCalls BY <1>3, AgentRunInv
<1>4. CASE Resume \/ UpdateAgentProfile \/ RunAgent
  <2>1. keyFile.identity BY <1>4 DEF Resume, UpdateAgentProfile, RunAgent
  <2>2. keyFile.key \in Keys BY <2>1 DEF IInv, FileReal
  <2> QED BY <1>4, <2>2, BootInv
<1>5. CASE \E k \in Keys : GenerateKeys(k) \/ RegisterAgent(k) BY <1>5, BootInv
<1>6. CASE \E k \in Keys : (Onboarding(k) \/ Settles(k)) /\ UNCHANGED programVars
    BY <1>6, PlatformInv, SettlesInv
<1> QED BY <1>1, <1>2, <1>3, <1>4, <1>5, <1>6 DEF Next

LEMMA Inductive == Spec => []IInv
BY InitInv, StepInv, PTL DEF Spec

(***************************************************************************)
(* Over crashes at any step, timeouts and repeated runs, a registration    *)
(* runs only for the key that the key file holds meanwhile, and the        *)
(* identity an agent carries is minted, located and on its network         *)
(* (agent.ts register, j41.js registerAgent).                              *)
(***************************************************************************)
THEOREM IdentitiesSafe == Spec => []IdentitiesAreSafe
<1>1. IInv => IdentitiesAreSafe
  <2> SUFFICES ASSUME IInv PROVE IdentityIsReal
    BY DEF IdentitiesAreSafe, IInv
  <2> QED BY DEF IInv, OnItsNetwork, IdentityIsReal, RegisterOps
<1> QED BY <1>1, Inductive, PTL

(***************************************************************************)
(* finalizeOnboarding() marks a stage it was asked for only when the       *)
(* platform holds the profile and every service of the list, also when an  *)
(* earlier run died among them; what the file of one agent claims of its   *)
(* profile holds or is noted as skipped; and a status that was set with a  *)
(* txid that did not expire comes to be the same on chain and platform,    *)
(* whatever earlier calls left half done (finalize.ts, agent.ts).          *)
(***************************************************************************)
THEOREM DoneHeld == Spec => []DoneIsHeld
<1>1. IInv => DoneIsHeld BY DEF IInv, FileOwned, DoneIsHeld
<1> QED BY <1>1, Inductive, PTL

\* The kinds of step that touch the state file, bring a stage about or change
\* what is asked for.
LEMMA FileSteps ==
    ASSUME IInv, Next
    PROVE  \/ UNCHANGED <<effects, file>> /\ given' \subseteq 1 .. 5
           \/ Mark
           \/ Skip
           \/ MarkNext({}) /\ program = "finalize" /\ at = "hook" /\ stage = 6
           \/ Achieved /\ program = "finalize" /\ stage \in 1 .. 5 /\ stage \in given
<1>0. given \subseteq 1 .. 5 BY DEF IInv, TypeOK
<1>1. CASE Step
  <2>1. CASE HookOk BY <2>1 DEF HookOk, In
  <2>2. CASE Profiled
    <3>1. program = "finalize" /\ stage = 4 /\ stage \in given
      BY <2>2 DEF Profiled, In, IInv, InStage
    <3> QED BY <1>0, <2>2, <3>1 DEF Profiled, In, End
  <2>3. CASE NextService
    <3>1. program = "finalize" => stage = 5 /\ stage \in given
      BY <2>3 DEF NextService, IInv, InStage
    <3> QED BY <1>0, <2>3, <3>1 DEF NextService, Go, End
  <2>4. CASE Complete BY <1>0, <2>4 DEF Complete, In, Ends, End
  <2>5. CASE \/ HookThrows \/ ResolveProfile \/ Profile \/ Reauthenticate
             \/ ResolveServices \/ Served \/ CliRegistered \/ CliProfile \/ CliProfiled
    BY <1>0, <2>5
       DEF HookThrows, ResolveProfile, Profile, Reauthenticate, ResolveServices, Served,
           CliRegistered, CliProfile, CliProfiled, Go, End
  <2>6. CASE Unlink \/ WriteKeys \/ AgentStops \/ \E net \in Networks : CollectProfile(net)
    BY <1>0, <2>6 DEF Unlink, WriteKeys, AgentStops, CollectProfile, Ends, End, programVars
  <2>7. CASE OpStep /\ program # "down" /\ UNCHANGED programVars BY <1>0, <2>7 DEF programVars
  <2> QED BY <1>1, <2>1, <2>2, <2>3, <2>4, <2>5, <2>6, <2>7 DEF Step
<1>2. CASE Resume BY <1>2, RunAssumption DEF Resume, Boot
<1>3. CASE ~Step /\ ~Resume
    BY <1>0, <1>3
       DEF Next, Crash, End, AgentCalls, programVars, UpdateAgentProfile, RunAgent,
           GenerateKeys, RegisterAgent, Boot
<1> QED BY <1>1, <1>2, <1>3

\* The mark that the refinement mapping reads from a state file.
MarkOf(f) == IF f.stage = 0 THEN 0 ELSE IF f.stage = 7 THEN 5 ELSE f.stage - 1

\* Where finalizeOnboarding() is at one of its five stages, that stage is the one
\* after the mark.
LEMMA StageAfterMark ==
    ASSUME IInv, program = "finalize", stage \in 1 .. 5
    PROVE  MarkOf(file) + 1 = stage /\ MarkOf(file) \in 0 .. 4
<1>1. stage = (IF file.stage = 0 THEN 1 ELSE file.stage) BY DEF IInv, InStage
<1> QED BY <1>1 DEF MarkOf

LEMMA RefineStep ==
    ASSUME IInv, [Next]_allVars, NEW k \in Keys, file'.writers \subseteq {k}
    PROVE  [Finalize(k)!Next]_(Finalize(k)!vars)
<1> USE DEF Finalize!Next, Finalize!vars
<1>0. Finalize(k)!vars = <<given, effects[k], file.skipped, MarkOf(file)>>
    BY DEF MarkOf
<1>1. CASE UNCHANGED <<effects, file>> /\ given' \subseteq 1 .. 5
    BY <1>1 DEF Finalize!Ask
<1>2. CASE MarkNext({}) /\ program = "finalize" /\ stage \in 1 .. 5 /\ stage \in effects[key]
  <2>1. /\ k = key /\ UNCHANGED <<given, effects>> /\ file'.skipped = file.skipped
        /\ file'.stage = stage + 1
    BY <1>2 DEF MarkNext
  <2>2. MarkOf(file)' = MarkOf(file) + 1 BY <1>2, <2>1, StageAfterMark DEF MarkOf
  <2> QED BY <1>2, <2>1, <2>2, StageAfterMark DEF Finalize!Record, MarkOf
<1>3. CASE Skip
  <2>1. /\ UNCHANGED <<given, effects>> /\ file'.skipped = file.skipped \union {stage}
        /\ file'.stage = stage + 1 /\ program = "finalize" /\ stage \in 1 .. 5 \ given
    BY <1>3 DEF Skip, MarkNext, In
  <2>2. MarkOf(file)' = MarkOf(file) + 1 BY <2>1, StageAfterMark DEF MarkOf
  <2> QED BY <2>1, <2>2, StageAfterMark DEF Finalize!Waive, MarkOf
<1>4. CASE MarkNext({}) /\ program = "finalize" /\ at = "hook" /\ stage = 6
  <2>1. UNCHANGED <<given, effects>> /\ file'.skipped = file.skipped /\ file'.stage = 7
    BY <1>4 DEF MarkNext
  <2>2. file.stage = 6 BY <1>4 DEF IInv, InStage
  <2> QED BY <2>1, <2>2
<1>5. CASE Achieved /\ program = "finalize" /\ stage \in 1 .. 5 /\ stage \in given
  <2>1. /\ UNCHANGED <<given, file>> /\ effects' = [effects EXCEPT ![key] = @ \union {stage}]
        /\ effects \in [Keys -> SUBSET (1 .. 5)]
    BY <1>5 DEF Achieved, IInv, TypeOK
  <2>2. CASE k # key BY <2>1, <2>2
  <2>3. CASE k = key
    <3>1. effects'[k] = effects[k] \union {stage} BY <2>1, <2>3
    <3> QED BY <1>5, <2>1, <3>1, StageAfterMark DEF Finalize!TakesEffect, MarkOf
  <2> QED BY <2>2, <2>3
<1>6. CASE Mark
  <2>1. MarkNext({}) /\ program = "finalize" /\ stage \in 1 .. 5 /\ stage \in effects[key]
    BY <1>6 DEF Mark, In, IInv, InStage
  <2> QED BY <1>2, <2>1
<1>7. CASE UNCHANGED allVars BY <1>7 DEF allVars, programVars
<1> QED BY <1>1, <1>3, <1>4, <1>5, <1>6, <1>7, FileSteps

(***************************************************************************)
(* finalizeOnboarding() and its state file, where no other agent's run has *)
(* written it, implement the abstract procedure of Milestones: a mark      *)
(* moves past a stage only when it took effect or was not asked for, which *)
(* is noted, over any crashes, restarts and requests (finalize.ts).        *)
(***************************************************************************)
THEOREM ImplementsMilestones == Spec => FinalizeRefines
<1>1. Init => \A k \in Keys : Finalize(k)!Init BY DEF Init, NewFile, Finalize!Init
<1>2. IInv /\ [Next]_allVars
        => [\A k \in Keys : file'.writers \subseteq {k}
                             => [Finalize(k)!Next]_(Finalize(k)!vars)]_allVars
    BY RefineStep
<1> QED BY <1>1, <1>2, Inductive, PTL DEF Spec, FinalizeRefines

----------------------------------------------------------------------------
\* The second part: reading back what was written on the identity.

\* The last of a set of outputs.
Latest(i, S) == i \in S /\ \A j \in S : j <= i

Setters == {i \in DOMAIN history : history[i].wrote.authority # Kept}

\* The authority is the one the last update that set it wrote.
AuthorityFrom == \E i \in DOMAIN history :
    Latest(i, Setters) /\ Last(history).authority = history[i].wrote.authority

\* A key on the identity holds what its last writer wrote, no writer's key is
\* missing, and no key is ever lost.
FieldsFrom ==
    /\ \A k \in DOMAIN Current : \E i \in DOMAIN history :
          Latest(i, Writers(k)) /\ Current[k] = history[i].wrote.adds[k]
    /\ \A i \in DOMAIN history : /\ DOMAIN history[i].wrote.adds \subseteq DOMAIN Current
                                 /\ DOMAIN history[i].cmm \subseteq DOMAIN Current

\* The node's index has the same keys, and the newest value last.
IndexEndsNewest ==
    /\ DOMAIN aggregated = DOMAIN Current
    /\ \A k \in DOMAIN aggregated : /\ aggregated[k] \in Seq(Range(aggregated[k]))
                                    /\ aggregated[k] # << >>
                                    /\ Last(aggregated[k]) = Last(Current[k])

\* What a call is to write can be read back.
Harmless(w) == Writable(w.adds) /\ w.authority \in Authorities \cup {Kept}
ChangesHarmless == \A c \in Callers : pc[c] # "idle" => Harmless(change[c])

\* The update in the mempool changes the newest output, and only as asked.
UpdateIsOfNewest == tx # NoTx =>
    /\ Harmless(tx.wrote)
    /\ tx.cmm = Override(Current, tx.wrote.adds)
    /\ tx.authority = IF tx.wrote.authority = Kept THEN Last(history).authority
                                                   ELSE tx.wrote.authority

History == history \in Seq(Range(history)) /\ history # << >>

ProfileInv == /\ History
              /\ Writable(Current)
              /\ AuthorityFrom
              /\ FieldsFrom
              /\ IndexEndsNewest
              /\ ChangesHarmless
              /\ UpdateIsOfNewest
              /\ pc \in [Callers -> {"idle", "reading", "sending"}]
              /\ DOMAIN change = Callers /\ DOMAIN base = Callers

----------------------------------------------------------------------------

LEMMA SeqOfItsRange ==
    ASSUME NEW T, NEW s \in Seq(T)
    PROVE  s \in Seq(Range(s))
  BY DEF Range

LEMMA AppendOne ==
    ASSUME NEW s, s \in Seq(Range(s)), NEW e
    PROVE  /\ Append(s, e) \in Seq(Range(Append(s, e))) /\ Append(s, e) # << >>
           /\ Len(Append(s, e)) = Len(s) + 1
           /\ DOMAIN Append(s, e) = DOMAIN s \cup {Len(s) + 1}
           /\ Len(s) \in Nat /\ DOMAIN s = 1 .. Len(s)
           /\ \A i \in DOMAIN s : Append(s, e)[i] = s[i]
           /\ Append(s, e)[Len(s) + 1] = e
           /\ Last(Append(s, e)) = e
  <1>1. s \in Seq(Range(s) \cup {e})
    BY SeqOfItsRange DEF Range
  <1>2. Append(s, e) \in Seq(Range(s) \cup {e})
    BY <1>1
  <1>3. Append(s, e) \in Seq(Range(Append(s, e)))
    BY <1>2, SeqOfItsRange
  <1>4. QED
    BY <1>1, <1>2, <1>3 DEF Last

\* The last entry of a value to which another was added is the other's.
LEMMA LastOfConcat ==
    ASSUME NEW s, s \in Seq(Range(s)), NEW t, t \in Seq(Range(t)), t # << >>
    PROVE  /\ s \o t \in Seq(Range(s \o t)) /\ s \o t # << >>
           /\ Last(s \o t) = Last(t)
  <1>1. s \in Seq(Range(s) \cup Range(t)) /\ t \in Seq(Range(s) \cup Range(t))
    BY DEF Range
  <1>2. s \o t \in Seq(Range(s) \cup Range(t))
    BY <1>1
  <1>3. Len(t) \in Nat \ {0} /\ Len(s) \in Nat /\ Len(s \o t) = Len(s) + Len(t)
    BY <1>1
  <1>4. (s \o t)[Len(s) + Len(t)] = t[Len(t)]
    BY <1>1, <1>3
  <1>5. s \o t \in Seq(Range(s \o t))
    BY <1>2, SeqOfItsRange
  <1>6. QED
    BY <1>3, <1>4, <1>5 DEF Last

LEMMA LatestIsMax ==
    ASSUME NEW S \in SUBSET Nat, NEW i, Latest(i, S)
    PROVE  Max(S) = i
  <1>1. i \in S /\ \A y \in S : i >= y
    BY DEF Latest
  <1>2. \A x \in S : (\A y \in S : x >= y) => x = i
    BY <1>1
  <1>3. QED
    BY <1>1, <1>2 DEF Max

LEMMA WrittenCanBeRead ==
    ASSUME NEW text, text # Unreadable
    PROVE  /\ << makeSubDD(text) >> \in Seq(Range(<< makeSubDD(text) >>))
           /\ << makeSubDD(text) >> # << >>
           /\ \A n \in DOMAIN << makeSubDD(text) >> :
                 parseSubDD(<< makeSubDD(text) >>[n]) # Unreadable
  BY DEF makeSubDD, parseSubDD, Range

\* What is published, and what each call sets out to write, can be read back.
LEMMA PublishedHarmless ==
    ASSUME NEW cmm \in {buildAgentContentMultimap(p) : p \in Profiles} \cup Containers
    PROVE  Writable(cmm)
  <1>1. CASE cmm \in Containers
    BY <1>1, ProfileAssumption
  <1>2. CASE cmm \in {buildAgentContentMultimap(p) : p \in Profiles}
    <2>1. PICK p \in Profiles : cmm = buildAgentContentMultimap(p)
      BY <1>2
    <2> DEFINE active == [k \in {Agent("status")} |-> Text("word", "active")]
               all    == Override(p, active)
    <2>2. \A k \in DOMAIN active : active[k] # Unreadable
      BY DEF Text, Unreadable
    <2>3. \A k \in DOMAIN all : all[k] # Unreadable
      BY <2>2, ProfileAssumption DEF Override
    <2>4. cmm = [k \in {k \in DOMAIN all : Publishes(k, all[k])} |-> << makeSubDD(all[k]) >>]
      BY <2>1 DEF buildAgentContentMultimap
    <2>5. \A k \in DOMAIN cmm : k \in DOMAIN all /\ cmm[k] = << makeSubDD(all[k]) >>
      BY <2>4
    <2> HIDE DEF all
    <2>6. QED
      BY <2>3, <2>5, WrittenCanBeRead DEF Writable
  <1>3. QED
    BY <1>1, <1>2

LEMMA WritesHarmless ==
    ASSUME NEW c \in Callers,
           removeAndRewriteVdxfFields(c) \/ setOnChainStatus(c)
             \/ setRevokeRecoverAuthorities(c) \/ AcceptItem(c)
    PROVE  \E adds, authority : /\ Begin(c, adds, authority)
                                /\ Harmless([adds |-> adds, authority |-> authority])
  <1>1. CASE removeAndRewriteVdxfFields(c)
    <2>1. PICK fields \in Rewrites :
            /\ \A ref \in DOMAIN fields : Resolves(ref)
            /\ Begin(c, [k \in {resolveVdxfFieldRef(ref) : ref \in DOMAIN fields} |->
                           << makeSubDD(fields[CHOOSE ref \in DOMAIN fields :
                                                 resolveVdxfFieldRef(ref) = k]) >>], Kept)
      BY <1>1 DEF removeAndRewriteVdxfFields
    <2> DEFINE from(k) == CHOOSE ref \in DOMAIN fields : resolveVdxfFieldRef(ref) = k
               adds == [k \in {resolveVdxfFieldRef(ref) : ref \in DOMAIN fields} |->
                           << makeSubDD(fields[from(k)]) >>]
    <2>2. \A k \in DOMAIN adds : from(k) \in DOMAIN fields
      OBVIOUS
    <2>3. \A k \in DOMAIN adds : fields[from(k)] # Unreadable
      BY <2>2, ProfileAssumption
    <2>4. \A k \in DOMAIN adds : adds[k] = << makeSubDD(fields[from(k)]) >>
      OBVIOUS
    <2>5. Begin(c, adds, Kept)
      BY <2>1
    <2> HIDE DEF adds, from
    <2>6. Writable(adds)
      BY <2>3, <2>4, WrittenCanBeRead DEF Writable
    <2>7. QED
      BY <2>5, <2>6 DEF Harmless
  <1>2. CASE setOnChainStatus(c)
    <2>1. PICK new \in Statuses :
            Begin(c, [k \in {Agent("status")} |-> << makeSubDD(Text("word", new)) >>], Kept)
      BY <1>2 DEF setOnChainStatus
    <2> DEFINE adds == [k \in {Agent("status")} |-> << makeSubDD(Text("word", new)) >>]
    <2>2. Text("word", new) # Unreadable
      BY DEF Text, Unreadable
    <2>3. \A k \in DOMAIN adds : adds[k] = << makeSubDD(Text("word", new)) >>
      OBVIOUS
    <2>4. Begin(c, adds, Kept)
      BY <2>1
    <2> HIDE DEF adds
    <2>5. Writable(adds)
      BY <2>2, <2>3, WrittenCanBeRead DEF Writable
    <2>6. QED
      BY <2>4, <2>5 DEF Harmless
  <1>3. CASE setRevokeRecoverAuthorities(c)
    <2>1. PICK a \in Authorities : Begin(c, << >>, a)
      BY <1>3 DEF setRevokeRecoverAuthorities
    <2>2. Writable(<< >>)
      BY DEF Writable
    <2>3. QED
      BY <2>1, <2>2 DEF Harmless
  <1>4. CASE AcceptItem(c)
    BY <1>4, ProfileAssumption DEF AcceptItem, Harmless
  <1>5. QED
    BY <1>1, <1>2, <1>3, <1>4

LEMMA ProfileInitInv == ProfileInit => ProfileInv
  <1> SUFFICES ASSUME ProfileInit PROVE ProfileInv
    OBVIOUS
  <1>1. PICK cmm \in {buildAgentContentMultimap(p) : p \in Profiles} \cup Containers :
          history = << Published(cmm) >> /\ aggregated = cmm
    BY DEF ProfileInit
  <1> DEFINE a == CHOOSE a \in Authorities : TRUE
  <1>2. a \in Authorities /\ a # Kept
    BY ProfileAssumption
  <1>3. Writable(cmm)
    BY PublishedHarmless
  <1>4. /\ history[1].cmm = cmm /\ history[1].authority = a
        /\ history[1].wrote.adds = cmm /\ history[1].wrote.authority = a
        /\ Last(history) = history[1] /\ DOMAIN history = {1} /\ Current = cmm
    BY <1>1 DEF Published, Last, Current
  <1> HIDE DEF a
  <1>5. History
    BY <1>1 DEF History, Range
  <1>6. AuthorityFrom
    BY <1>2, <1>4 DEF AuthorityFrom, Latest, Setters
  <1>7. FieldsFrom
    BY <1>4 DEF FieldsFrom, Latest, Writers
  <1>8. IndexEndsNewest
    BY <1>1, <1>3, <1>4 DEF IndexEndsNewest, Writable
  <1>9. QED
    BY <1>3, <1>4, <1>5, <1>6, <1>7, <1>8
       DEF ProfileInit, ProfileInv, ChangesHarmless, UpdateIsOfNewest

\* The outputs and the index as they are, a call's own state may change.
LEMMA CallsOnly ==
    ASSUME ProfileInv, UNCHANGED <<tx, chain>>, ChangesHarmless',
           (pc \in [Callers -> {"idle", "reading", "sending"}])',
           (DOMAIN change = Callers /\ DOMAIN base = Callers)'
    PROVE  ProfileInv'
  BY DEF ProfileInv, chain, History, Writable, AuthorityFrom, FieldsFrom, IndexEndsNewest,
         UpdateIsOfNewest, Current, Writers, Setters, Latest

LEMMA CallEndsInv ==
    ASSUME ProfileInv, NEW c \in Callers, CallEnds(c)
    PROVE  /\ ChangesHarmless'
           /\ (pc \in [Callers -> {"idle", "reading", "sending"}])'
           /\ (DOMAIN change = Callers /\ DOMAIN base = Callers)'
  BY DEF ProfileInv, CallEnds, ChangesHarmless, Harmless, Writable

LEMMA BeginInv ==
    ASSUME ProfileInv, NEW c \in Callers, NEW adds, NEW authority, Begin(c, adds, authority),
           Harmless([adds |-> adds, authority |-> authority])
    PROVE  ProfileInv'
  <1>1. ChangesHarmless'
    BY DEF ProfileInv, Begin, ChangesHarmless, Harmless, Writable
  <1>2. QED
    BY <1>1, CallsOnly DEF ProfileInv, Begin

LEMMA ReadIdentityInv ==
    ASSUME ProfileInv, NEW c \in Callers, ReadIdentity(c)
    PROVE  ProfileInv'
  <1>1. CASE CallEnds(c)
    BY <1>1, CallEndsInv, CallsOnly DEF ReadIdentity
  <1>2. CASE ~ CallEnds(c)
    <2>1. /\ pc[c] = "reading" /\ pc' = [pc EXCEPT ![c] = "sending"] /\ UNCHANGED change
          /\ UNCHANGED <<tx, chain>>
          /\ \E i : base' = [base EXCEPT ![c] = i]
      BY <1>2 DEF ReadIdentity
    <2>2. ChangesHarmless'
      BY <2>1 DEF ProfileInv, ChangesHarmless, Harmless, Writable
    <2>3. QED
      BY <2>1, <2>2, CallsOnly DEF ProfileInv
  <1>3. QED
    BY <1>1, <1>2

\* An update that is sent spends the newest output, whose content it copies.
LEMMA SendInv ==
    ASSUME ProfileInv, NEW c \in Callers, Send(c)
    PROVE  ProfileInv'
  <1>1. /\ ChangesHarmless'
        /\ (pc \in [Callers -> {"idle", "reading", "sending"}])'
        /\ (DOMAIN change = Callers /\ DOMAIN base = Callers)'
    BY CallEndsInv DEF Send
  <1>2. history[base[c]] = Last(history) /\ UNCHANGED chain /\ tx' = BuildUpdate(c)
    BY DEF Send, Spends, Last
  <1>3. Harmless(change[c])
    BY DEF Send, ProfileInv, ChangesHarmless
  <1>4. UpdateIsOfNewest'
    <2>1. Current' = Current /\ Last(history)' = Last(history)
      BY <1>2 DEF chain, Current
    <2>2. /\ tx'.wrote = change[c]
          /\ tx'.cmm = Override(Current, change[c].adds)
          /\ tx'.authority = IF change[c].authority = Kept THEN Last(history).authority
                                                           ELSE change[c].authority
      BY <1>2 DEF BuildUpdate, Current
    <2>3. Harmless(tx'.wrote)
      BY <1>3, <2>2
    <2>4. QED
      BY <2>1, <2>2, <2>3 DEF UpdateIsOfNewest, Harmless, Writable
  <1>5. QED
    BY <1>1, <1>2, <1>4
       DEF ProfileInv, chain, History, Writable, AuthorityFrom, FieldsFrom, IndexEndsNewest,
           Current, Writers, Setters, Latest

\* A mined update becomes the newest output: it is the last writer of its keys,
\* and leaves every other key as its last writer left it.
LEMMA UpdateMinedInv ==
    ASSUME ProfileInv, UpdateMined
    PROVE  ProfileInv'
  <1> DEFINE n == Len(history) + 1
             adds == tx.wrote.adds
  <1>1. /\ tx # NoTx /\ tx' = NoTx /\ UNCHANGED <<pc, change, base>>
        /\ history' = Append(history, tx)
        /\ aggregated' = mergeContentMultimap(aggregated, tx.cmm)
    BY DEF UpdateMined, profileCalls
  <1>2. /\ Harmless(tx.wrote) /\ tx.cmm = Override(Current, adds)
        /\ tx.authority = IF tx.wrote.authority = Kept THEN Last(history).authority
                                                       ELSE tx.wrote.authority
    BY <1>1 DEF ProfileInv, UpdateIsOfNewest
  <1>3. /\ History'
        /\ Len(history) \in Nat /\ DOMAIN history = 1 .. Len(history)
        /\ DOMAIN history' = DOMAIN history \cup {n}
        /\ \A i \in DOMAIN history : history'[i] = history[i] /\ i < n /\ i # n /\ i \in Nat
        /\ history'[n] = tx
        /\ Last(history)' = tx /\ Current' = tx.cmm
        /\ n \in Nat
    BY <1>1, AppendOne DEF ProfileInv, History, Current
  <1>4. /\ DOMAIN tx.cmm = DOMAIN Current \cup DOMAIN adds
        /\ \A k \in DOMAIN tx.cmm : tx.cmm[k] = IF k \in DOMAIN adds THEN adds[k] ELSE Current[k]
    BY <1>2 DEF Override
  <1>5. Writable(Current) /\ Writable(adds)
    BY <1>2 DEF ProfileInv, Harmless
  <1> HIDE DEF n, adds
  <1>6. Writable(tx.cmm)
    BY <1>4, <1>5 DEF Writable
  <1>7. Writable(Current)'
    BY <1>3, <1>6 DEF Writable
  <1>8. AuthorityFrom'
    <2>1. PICK i \in DOMAIN history :
            Latest(i, Setters) /\ Last(history).authority = history[i].wrote.authority
      BY DEF ProfileInv, AuthorityFrom
    <2>2. CASE tx.wrote.authority = Kept
      <3>1. Setters' = Setters
        BY <1>3, <2>2 DEF Setters
      <3>2. QED
        BY <1>2, <1>3, <2>1, <2>2, <3>1 DEF AuthorityFrom, Latest
    <2>3. CASE tx.wrote.authority # Kept
      <3>1. Latest(n, Setters')
        BY <1>3, <2>3 DEF Setters, Latest
      <3>2. QED
        BY <1>2, <1>3, <2>3, <3>1 DEF AuthorityFrom, Latest
    <2>4. QED
      BY <2>2, <2>3
  <1>9. FieldsFrom'
    <2>1. ASSUME NEW k \in DOMAIN Current'
          PROVE  \E i \in DOMAIN history' :
                    Latest(i, Writers(k)') /\ Current'[k] = history'[i].wrote.adds[k]
      <3>1. CASE k \in DOMAIN adds
        <4>1. Latest(n, Writers(k)')
          BY <1>3, <3>1 DEF Writers, Latest, adds
        <4>2. Current'[k] = history'[n].wrote.adds[k]
          BY <1>3, <1>4, <2>1, <3>1 DEF adds
        <4>3. QED
          BY <1>3, <4>1, <4>2
      <3>2. CASE k \notin DOMAIN adds
        <4>1. k \in DOMAIN Current /\ Current'[k] = Current[k]
          BY <1>3, <1>4, <2>1, <3>2
        <4>2. PICK i \in DOMAIN history :
                Latest(i, Writers(k)) /\ Current[k] = history[i].wrote.adds[k]
          BY <4>1 DEF ProfileInv, FieldsFrom
        <4>3. Writers(k)' = Writers(k)
          BY <1>3, <3>2 DEF Writers, adds
        <4>4. QED
          BY <1>3, <4>1, <4>2, <4>3
      <3>3. QED
        BY <3>1, <3>2
    <2>2. \A i \in DOMAIN history' : /\ DOMAIN history'[i].wrote.adds \subseteq DOMAIN Current'
                                     /\ DOMAIN history'[i].cmm \subseteq DOMAIN Current'
      BY <1>3, <1>4 DEF ProfileInv, FieldsFrom, adds
    <2>3. QED
      BY <2>1, <2>2 DEF FieldsFrom, Latest
  <1>10. IndexEndsNewest'
    <2>1. /\ DOMAIN aggregated = DOMAIN Current
          /\ \A k \in DOMAIN aggregated : /\ aggregated[k] \in Seq(Range(aggregated[k]))
                                          /\ aggregated[k] # << >>
      BY DEF ProfileInv, IndexEndsNewest
    <2>2. DOMAIN aggregated' = DOMAIN tx.cmm
      BY <1>1, <1>4, <2>1 DEF mergeContentMultimap
    <2>3. ASSUME NEW k \in DOMAIN aggregated'
          PROVE  /\ aggregated'[k] \in Seq(Range(aggregated'[k]))
                 /\ aggregated'[k] # << >>
                 /\ Last(aggregated'[k]) = Last(tx.cmm[k])
      <3> DEFINE old == IF k \in DOMAIN aggregated THEN aggregated[k] ELSE << >>
      <3>1. aggregated'[k] = old \o tx.cmm[k]
        BY <1>1, <2>2, <2>3 DEF mergeContentMultimap
      <3>2. tx.cmm[k] \in Seq(Range(tx.cmm[k])) /\ tx.cmm[k] # << >>
        BY <1>6, <2>2, <2>3 DEF Writable
      <3>3. << >> \in Seq(Range(<< >>))
        OBVIOUS
      <3>4. old \in Seq(Range(old))
        BY <2>1, <3>3
      <3> HIDE DEF old
      <3>5. QED
        BY <3>1, <3>2, <3>4, LastOfConcat
    <2>4. QED
      BY <1>3, <2>2, <2>3 DEF IndexEndsNewest
  <1>11. ChangesHarmless' /\ UpdateIsOfNewest'
    BY <1>1 DEF ProfileInv, ChangesHarmless, UpdateIsOfNewest, Harmless, Writable
  <1>12. QED
    BY <1>1, <1>3, <1>7, <1>8, <1>9, <1>10, <1>11 DEF ProfileInv

LEMMA ProfileStepInv == ProfileInv /\ [ProfileNext]_profileVars => ProfileInv'
  <1> SUFFICES ASSUME ProfileInv, [ProfileNext]_profileVars PROVE ProfileInv'
    OBVIOUS
  <1>1. ASSUME NEW c \in Callers,
               removeAndRewriteVdxfFields(c) \/ setOnChainStatus(c)
                 \/ setRevokeRecoverAuthorities(c) \/ AcceptItem(c)
        PROVE  ProfileInv'
    BY <1>1, WritesHarmless, BeginInv
  <1>2. ASSUME NEW c \in Callers, ReadIdentity(c) PROVE ProfileInv'
    BY <1>2, ReadIdentityInv
  <1>3. ASSUME NEW c \in Callers, CallFails(c) PROVE ProfileInv'
    BY <1>3, CallEndsInv, CallsOnly DEF CallFails
  <1>4. ASSUME NEW c \in Callers, Send(c) PROVE ProfileInv'
    BY <1>4, SendInv
  <1>5. CASE UpdateMined
    BY <1>5, UpdateMinedInv
  <1>6. CASE UpdateExpires
    BY <1>6
       DEF UpdateExpires, ProfileInv, profileCalls, chain, History, Writable, AuthorityFrom,
           FieldsFrom, IndexEndsNewest, ChangesHarmless, Harmless, UpdateIsOfNewest, Current,
           Writers, Setters, Latest
  <1>7. CASE UNCHANGED profileVars
    BY <1>7
       DEF profileVars, ProfileInv, profileCalls, chain, History, Writable, AuthorityFrom,
           FieldsFrom, IndexEndsNewest, ChangesHarmless, Harmless, UpdateIsOfNewest, Current,
           Writers, Setters, Latest
  <1>8. QED
    BY <1>1, <1>2, <1>3, <1>4, <1>5, <1>6, <1>7 DEF ProfileNext

LEMMA ProfileInductive == ProfileSpec => []ProfileInv
  BY ProfileInitInv, ProfileStepInv, PTL DEF ProfileSpec

\* What the newest output holds under a key is what was last written there, and
\* a key it does not hold was never written.
LEMMA CurrentIsWritten ==
    ASSUME ProfileInv, NEW k
    PROVE  /\ k \in DOMAIN Current => /\ Writers(k) # {}
                                      /\ Current[k] # << >>
                                      /\ Last(Current[k]) = LastWrite(k)
                                      /\ Written(k) = parseSubDD(Last(Current[k]))
                                      /\ Written(k) # Unreadable
           /\ k \notin DOMAIN Current => Writers(k) = {} /\ Written(k) = Absent
  <1>1. CASE k \in DOMAIN Current
    <2>1. PICK i \in DOMAIN history :
            Latest(i, Writers(k)) /\ Current[k] = history[i].wrote.adds[k]
      BY <1>1 DEF ProfileInv, FieldsFrom
    <2>2. Writers(k) \in SUBSET Nat
      BY DEF ProfileInv, History, Writers
    <2>3. Max(Writers(k)) = i /\ Writers(k) # {}
      BY <2>1, <2>2, LatestIsMax DEF Latest
    <2>4. Last(Current[k]) = LastWrite(k) /\ Written(k) = parseSubDD(Last(Current[k]))
      BY <2>1, <2>3 DEF Written, LastWrite
    <2>5. /\ Current[k] \in Seq(Range(Current[k])) /\ Current[k] # << >>
          /\ \A m \in DOMAIN Current[k] : parseSubDD(Current[k][m]) # Unreadable
      BY <1>1 DEF ProfileInv, Writable
    <2>6. Len(Current[k]) \in DOMAIN Current[k]
      BY <2>5
    <2>7. QED
      BY <1>1, <2>3, <2>4, <2>5, <2>6 DEF Last
  <1>2. CASE k \notin DOMAIN Current
    <2>1. Writers(k) = {}
      BY <1>2 DEF ProfileInv, FieldsFrom, Writers
    <2>2. QED
      BY <1>2, <2>1 DEF Written
  <1>3. QED
    BY <1>1, <1>2

LEMMA InvAuthority == ProfileInv => AuthorityKept
  <1> SUFFICES ASSUME ProfileInv PROVE AuthorityKept
    OBVIOUS
  <1>1. PICK i \in DOMAIN history :
          Latest(i, Setters) /\ Last(history).authority = history[i].wrote.authority
    BY DEF ProfileInv, AuthorityFrom
  <1>2. Setters \in SUBSET Nat
    BY DEF ProfileInv, History, Setters
  <1>3. Max(Setters) = i
    BY <1>1, <1>2, LatestIsMax
  <1>4. QED
    BY <1>1, <1>3 DEF AuthorityKept, Setters

LEMMA InvKeys == ProfileInv => KeysKept
  BY DEF ProfileInv, FieldsFrom, Writable, KeysKept, verifyPublishedIdentity

\* Both views give, under every key, what was last written there.
LEMMA ViewsAgree ==
    ASSUME ProfileInv, NEW view \in {Current, aggregated}, NEW k
    PROVE  parseFlatEntry(view, k) = Written(k)
  <1>1. DOMAIN view = DOMAIN Current
    BY DEF ProfileInv, IndexEndsNewest
  <1>2. CASE k \in DOMAIN Current
    <2>1. view[k] # << >> /\ Last(view[k]) = Last(Current[k])
      BY <1>2, CurrentIsWritten DEF ProfileInv, IndexEndsNewest
    <2>2. QED
      BY <1>1, <1>2, <2>1, CurrentIsWritten DEF parseFlatEntry
  <1>3. CASE k \notin DOMAIN Current
    BY <1>1, <1>3, CurrentIsWritten DEF parseFlatEntry
  <1>4. QED
    BY <1>2, <1>3

\* Decoding looks at the last entry of each key only.
LEMMA InvViews == ProfileInv => ViewsKept
  <1> SUFFICES ASSUME ProfileInv, NEW view \in {Current, aggregated}
               PROVE  decodeContentMultimap(view)
                        = decodeContentMultimap([k \in DOMAIN Current |-> <<LastWrite(k)>>])
    BY DEF ViewsKept
  <1> DEFINE newest == [k \in DOMAIN Current |-> <<LastWrite(k)>>]
  <1>1. DOMAIN view = DOMAIN Current /\ DOMAIN newest = DOMAIN Current
    BY DEF ProfileInv, IndexEndsNewest
  <1>2. \A k \in DOMAIN view : /\ view[k] # << >> /\ newest[k] # << >>
                               /\ Last(view[k]) = Last(newest[k])
    <2> SUFFICES ASSUME NEW k \in DOMAIN view
                 PROVE  view[k] # << >> /\ newest[k] # << >> /\ Last(view[k]) = Last(newest[k])
      OBVIOUS
    <2>1. view[k] # << >> /\ Last(view[k]) = LastWrite(k)
      BY <1>1, CurrentIsWritten DEF ProfileInv, IndexEndsNewest
    <2>2. newest[k] = <<LastWrite(k)>>
      BY <1>1
    <2>3. <<LastWrite(k)>> # << >> /\ Last(<<LastWrite(k)>>) = LastWrite(k)
      BY DEF Last
    <2> QED
      BY <2>1, <2>2, <2>3
  <1> HIDE DEF newest
  <1>3. \A k : parseFlatEntry(view, k) = parseFlatEntry(newest, k)
    BY <1>1, <1>2 DEF parseFlatEntry
  <1>4. \A g : Container(view, g) = Container(newest, g)
    BY <1>1, <1>2 DEF Container
  <1>5. \A k : LegacyEntry(view, k) = LegacyEntry(newest, k)
    BY <1>4 DEF LegacyEntry
  <1>6. isLegacyFormat(view) <=> isLegacyFormat(newest)
    BY <1>1 DEF isLegacyFormat
  <1>7. decodeFlatContentMultimap(view) = decodeFlatContentMultimap(newest)
    BY <1>3 DEF decodeFlatContentMultimap
  <1>8. decodeLegacyContentMultimap(view) = decodeLegacyContentMultimap(newest)
    BY <1>5 DEF decodeLegacyContentMultimap
  <1>9. decodeContentMultimap(view) = decodeContentMultimap(newest)
    BY <1>6, <1>7, <1>8 DEF decodeContentMultimap
  <1> QED
    BY <1>9 DEF newest

\* Only the services can make a decoder of flat keys throw.
LEMMA OnlyServicesThrow ==
    ASSUME NEW k, NEW text, text # Unreadable, k # Agent("services")
    PROVE  Reads(k, text) # Unreadable
  BY DEF Reads, Absent, Unreadable

LEMMA InvFields == ProfileInv => FieldsKept
  <1> SUFFICES ASSUME ProfileInv, Migrated, NEW view \in {Current, aggregated}
               PROVE  LET read == decodeContentMultimap(view)
                      IN  IF Reads(Agent("services"), Written(Agent("services"))) = Unreadable
                          THEN read = Unreadable
                          ELSE \A k \in ReadKeys : read[k] = Reads(k, Written(k))
    BY DEF FieldsKept
  <1> DEFINE texts == [k \in ReadKeys |-> Reads(k, Written(k))]
  <1>1. DOMAIN view = DOMAIN Current
    BY DEF ProfileInv, IndexEndsNewest
  <1>2. ~ isLegacyFormat(view)
    <2>1. PICK k \in AgentKeys : Writers(k) # {}
      BY DEF Migrated
    <2>2. k \in DOMAIN view
      BY <1>1, <2>1, CurrentIsWritten
    <2>3. QED
      BY <2>2 DEF isLegacyFormat
  <1>3. decodeContentMultimap(view) = Decoded(texts)
    BY <1>2, ViewsAgree DEF decodeContentMultimap, decodeFlatContentMultimap
  <1>4. \A k : Written(k) # Unreadable
    BY CurrentIsWritten DEF Absent, Unreadable
  <1>5. \A k \in ReadKeys : k # Agent("services") => texts[k] # Unreadable
    BY <1>4, OnlyServicesThrow
  <1>6. Agent("services") \in ReadKeys
    BY DEF ReadKeys, AgentKeys, VDXF_KEYS, Agent
  <1>7. CASE Reads(Agent("services"), Written(Agent("services"))) = Unreadable
    BY <1>3, <1>6, <1>7 DEF Decoded
  <1>8. CASE Reads(Agent("services"), Written(Agent("services"))) # Unreadable
    <2>1. \A k \in DOMAIN texts : texts[k] # Unreadable
      BY <1>5, <1>8
    <2>2. decodeContentMultimap(view) = texts
      BY <1>3, <2>1 DEF Decoded
    <2>3. QED
      BY <1>8, <2>2
  <1>9. QED
    BY <1>7, <1>8

\* However its writers raced, a reader of the identity decodes the entries that
\* were last written, containers included until an agent key is flat and, from
\* then on, each field as it was last written flat; no key is lost, and the
\* authority is the one last set (identity/update.ts, onboarding/vdxf.ts).
THEOREM WritesReadBack == ProfileSpec => []ReadsBack
  <1>1. ProfileInv => ReadsBack
    BY InvAuthority, InvKeys, InvViews, InvFields DEF ReadsBack
  <1>2. QED
    BY <1>1, ProfileInductive, PTL

----------------------------------------------------------------------------
\* What an output wrote it holds, and what it holds an earlier output or itself wrote.
HistoryFrom == \A i \in DOMAIN history :
    /\ Writable(history[i].wrote.adds)
    /\ \A k \in DOMAIN history[i].wrote.adds :
          k \in DOMAIN history[i].cmm /\ history[i].cmm[k] = history[i].wrote.adds[k]
    /\ \A k \in DOMAIN history[i].cmm :
          \E j \in Writers(k) : j <= i /\ history[i].cmm[k] = history[j].wrote.adds[k]

LEMMA HistoryInit == ProfileInit => HistoryFrom
  <1> SUFFICES ASSUME ProfileInit PROVE HistoryFrom
    OBVIOUS
  <1>1. PICK cmm \in {buildAgentContentMultimap(p) : p \in Profiles} \cup Containers :
          history = << Published(cmm) >>
    BY DEF ProfileInit
  <1>2. Writable(cmm)
    BY PublishedHarmless
  <1>3. /\ history[1].cmm = cmm /\ history[1].wrote.adds = cmm /\ DOMAIN history = {1}
    BY <1>1 DEF Published
  <1>4. QED
    BY <1>2, <1>3 DEF HistoryFrom, Writers

LEMMA HistoryStep ==
    ASSUME ProfileInv, HistoryFrom, [ProfileNext]_profileVars
    PROVE  HistoryFrom'
  <1>1. CASE UNCHANGED history
    BY <1>1 DEF HistoryFrom, Writers, Writable
  <1>2. CASE UpdateMined
    <2> DEFINE n == Len(history) + 1
               adds == tx.wrote.adds
    <2>1. history' = Append(history, tx) /\ tx # NoTx
      BY <1>2 DEF UpdateMined
    <2>2. Writable(adds) /\ tx.cmm = Override(Current, adds)
      BY <2>1 DEF ProfileInv, UpdateIsOfNewest, Harmless
    <2>3. /\ DOMAIN tx.cmm = DOMAIN Current \cup DOMAIN adds
          /\ \A k \in DOMAIN tx.cmm : tx.cmm[k] = IF k \in DOMAIN adds THEN adds[k] ELSE Current[k]
      BY <2>2 DEF Override
    <2>4. /\ Len(history) \in DOMAIN history /\ Current = history[Len(history)].cmm
          /\ DOMAIN history' = DOMAIN history \cup {n}
          /\ \A i \in DOMAIN history : history'[i] = history[i] /\ i <= Len(history) /\ i \in Nat
          /\ history'[n] = tx
          /\ n \in Nat /\ Len(history) < n
      BY <2>1, AppendOne DEF ProfileInv, History, Current, Last
    <2> HIDE DEF n
    <2>5. \A k : Writers(k) \subseteq Writers(k)'
      BY <2>4 DEF Writers
    <2>6. ASSUME NEW i \in DOMAIN history
          PROVE  /\ Writable(history'[i].wrote.adds)
                 /\ \A k \in DOMAIN history'[i].wrote.adds :
                      /\ k \in DOMAIN history'[i].cmm
                      /\ history'[i].cmm[k] = history'[i].wrote.adds[k]
                 /\ \A k \in DOMAIN history'[i].cmm : \E j \in Writers(k)' :
                      j <= i /\ history'[i].cmm[k] = history'[j].wrote.adds[k]
      <3>1. history'[i] = history[i]
        BY <2>4
      <3>2. ASSUME NEW k \in DOMAIN history[i].cmm
            PROVE  \E j \in Writers(k)' : j <= i /\ history[i].cmm[k] = history'[j].wrote.adds[k]
        <4>1. PICK j \in Writers(k) : j <= i /\ history[i].cmm[k] = history[j].wrote.adds[k]
          BY DEF HistoryFrom
        <4>2. j \in Writers(k)' /\ history'[j] = history[j]
          BY <2>4, <2>5, <4>1 DEF Writers
        <4>3. QED
          BY <4>1, <4>2
      <3>3. QED
        BY <3>1, <3>2 DEF HistoryFrom
    <2>7. /\ Writable(history'[n].wrote.adds)
          /\ \A k \in DOMAIN history'[n].wrote.adds :
               /\ k \in DOMAIN history'[n].cmm
               /\ history'[n].cmm[k] = history'[n].wrote.adds[k]
      BY <2>2, <2>3, <2>4
    <2>8. ASSUME NEW k \in DOMAIN tx.cmm
          PROVE  \E j \in Writers(k)' : j <= n /\ tx.cmm[k] = history'[j].wrote.adds[k]
      <3>1. CASE k \in DOMAIN adds
        <4>1. n \in Writers(k)' /\ n <= n
          BY <2>4, <3>1 DEF Writers
        <4>2. QED
          BY <2>3, <2>4, <3>1, <4>1
      <3>2. CASE k \notin DOMAIN adds
        <4>1. k \in DOMAIN Current /\ tx.cmm[k] = Current[k]
          BY <2>3, <2>8, <3>2
        <4>2. PICK j \in Writers(k) :
                j <= Len(history) /\ Current[k] = history[j].wrote.adds[k]
          BY <2>4, <4>1 DEF HistoryFrom
        <4>3. j \in Writers(k)' /\ history'[j] = history[j] /\ j <= n
          BY <2>4, <2>5, <4>2 DEF Writers
        <4>4. QED
          BY <4>1, <4>2, <4>3
      <3>3. QED
        BY <3>1, <3>2
    <2>9. \A k \in DOMAIN history'[n].cmm : \E j \in Writers(k)' :
             j <= n /\ history'[n].cmm[k] = history'[j].wrote.adds[k]
      BY <2>4, <2>8
    <2>10. \A i \in DOMAIN history' : i \in DOMAIN history \/ i = n
      BY <2>4
    <2>11. QED
      BY <2>6, <2>7, <2>9, <2>10 DEF HistoryFrom, Writable
  <1>3. QED
    BY <1>1, <1>2
       DEF ProfileNext, profileVars, chain, removeAndRewriteVdxfFields, setOnChainStatus,
           setRevokeRecoverAuthorities, AcceptItem, Begin, ReadIdentity, CallFails, Send,
           UpdateExpires

LEMMA HistoryInductive == ProfileSpec => [](ProfileInv /\ HistoryFrom)
  BY ProfileInitInv, ProfileStepInv, HistoryInit, HistoryStep, PTL DEF ProfileSpec

----------------------------------------------------------------------------
\* Every set of naturals has a least element.
LEMMA LeastExists ==
    ASSUME NEW S \in SUBSET Nat, S # {}
    PROVE  \E n \in S : \A m \in S : n <= m
  <1> DEFINE R == OpToRel(<, Nat)
  <1>1. IsWellFoundedOn(R, Nat)
    BY NatLessThanWellFounded
  <1>2. \A x, y \in Nat : y < x => <<y, x>> \in R
    BY DEF OpToRel
  <1> HIDE DEF R
  <1>3. PICK n \in S : \A m \in S : ~ (<<m, n>> \in R)
    BY <1>1, WFMin
  <1>4. n \in Nat
    BY <1>3
  <1>5. \A m \in S : m \in Nat /\ ~ (m < n)
    BY <1>2, <1>3, <1>4
  <1>6. \A m \in S : n <= m
    BY <1>4, <1>5
  <1>7. QED
    BY <1>3, <1>6

LEMMA LeastIsMin ==
    ASSUME NEW S \in SUBSET Nat, NEW i \in S, \A j \in S : i <= j
    PROVE  Min(S) = i
  <1>1. \A x \in S : (\A y \in S : x <= y) => x = i
    OBVIOUS
  <1>2. QED
    BY <1>1 DEF Min

\* A value that decodes to a review of a job.
Of(e, h) == decodeReviewValue(e) # Absent /\ HashOf(e) = h

\* The identity's outputs as an endpoint may list them.
Listed(order) == [i \in DOMAIN history |-> Snapshots[order[i]]]

LEMMA ListedFacts ==
    ASSUME ProfileInv, NEW order \in Bijection(DOMAIN history, DOMAIN history)
    PROVE  /\ DOMAIN Listed(order) = DOMAIN history
           /\ \A i \in DOMAIN history :
                /\ order[i] \in DOMAIN history
                /\ Listed(order)[i].height = order[i]
                /\ Listed(order)[i].cmm = history[order[i]].cmm
           /\ \A i \in DOMAIN history : i \in Nat /\ i # NoHeight
           /\ \A i, j \in DOMAIN history : order[i] = order[j] => i = j
           /\ \A a \in DOMAIN history : \E i \in DOMAIN history : order[i] = a
           /\ \A i, j \in DOMAIN history : Before(Listed(order), i, j) <=> order[i] < order[j]
  <1>1. order \in [DOMAIN history -> DOMAIN history]
    BY DEF Bijection, Injection
  <1>2. /\ \A i, j \in DOMAIN history : order[i] = order[j] => i = j
        /\ \A a \in DOMAIN history : \E i \in DOMAIN history : order[i] = a
    BY DEF Bijection, Injection, Surjection, IsInjective
  <1>3. \A i \in DOMAIN history : i \in Nat /\ i # NoHeight
    BY DEF ProfileInv, History, NoHeight
  <1>4. /\ DOMAIN Listed(order) = DOMAIN history
        /\ \A i \in DOMAIN history : /\ order[i] \in DOMAIN history
                                     /\ Listed(order)[i].height = order[i]
                                     /\ Listed(order)[i].cmm = history[order[i]].cmm
    BY <1>1 DEF Listed, Snapshots
  <1>5. {k \in DOMAIN Listed(order) : Listed(order)[k].height = NoHeight} = {}
    BY <1>3, <1>4
  <1>6. ASSUME NEW i \in DOMAIN history, NEW j \in DOMAIN history
        PROVE  Before(Listed(order), i, j) <=> order[i] < order[j]
    <2>1. Listed(order)[i].height = order[i] /\ Listed(order)[j].height = order[j]
      BY <1>4
    <2>2. order[i] \in Nat /\ order[j] \in Nat /\ i \in Nat /\ j \in Nat
      BY <1>3, <1>4
    <2>3. order[i] = order[j] => ~ (i < j)
      BY <1>2, <2>2
    <2> HIDE DEF Listed
    <2>4. QED
      BY <1>5, <2>1, <2>2, <2>3 DEF Before
  <1>7. QED
    BY <1>2, <1>3, <1>4, <1>6

LEMMA ReviewedFacts ==
    ASSUME ProfileInv, HistoryFrom, NEW h
    PROVE  /\ Reviewed(h) \subseteq DOMAIN history /\ Reviewed(h) \subseteq Nat
           /\ \A a \in Reviewed(h) : /\ Review \in DOMAIN history[a].cmm
                                     /\ \E n \in DOMAIN history[a].cmm[Review] :
                                           Of(history[a].cmm[Review][n], h)
           /\ \A a \in DOMAIN history : Review \in DOMAIN history[a].cmm =>
                 \A n \in DOMAIN history[a].cmm[Review] :
                    Of(history[a].cmm[Review][n], h) => \E c \in Reviewed(h) : c <= a
           /\ \A a \in DOMAIN history : Review \in DOMAIN history[a].cmm =>
                 DOMAIN history[a].cmm[Review] \subseteq Nat
  <1>1. Reviewed(h) \subseteq DOMAIN history /\ DOMAIN history \subseteq Nat
    BY DEF Reviewed, Writers, ProfileInv, History
  <1>2. ASSUME NEW a \in Reviewed(h)
        PROVE  /\ Review \in DOMAIN history[a].cmm
               /\ \E n \in DOMAIN history[a].cmm[Review] : Of(history[a].cmm[Review][n], h)
    BY DEF Reviewed, Writers, HistoryFrom, Of
  <1>3. ASSUME NEW a \in DOMAIN history, Review \in DOMAIN history[a].cmm
        PROVE  /\ DOMAIN history[a].cmm[Review] \subseteq Nat
               /\ \A n \in DOMAIN history[a].cmm[Review] :
                    Of(history[a].cmm[Review][n], h) => \E c \in Reviewed(h) : c <= a
    <2>1. PICK j \in Writers(Review) :
            j <= a /\ history[a].cmm[Review] = history[j].wrote.adds[Review]
      BY <1>3 DEF HistoryFrom
    <2>2. j \in DOMAIN history /\ Review \in DOMAIN history[j].wrote.adds
      BY DEF Writers
    <2>3. DOMAIN history[j].wrote.adds[Review] \subseteq Nat
      BY <2>2 DEF HistoryFrom, Writable
    <2>4. QED
      BY <2>1, <2>3 DEF Reviewed, Of
  <1>4. QED
    BY <1>1, <1>2, <1>3

\* The reviews a walk over the outputs comes across, each where it does.
ReviewPlaces(answer) == {p \in extractVdxfHistory(answer, Review) :
                            decodeReviewValue(ValueAt(answer, Review, p)) # Absent}

LEMMA PlaceFacts ==
    ASSUME ProfileInv, HistoryFrom,
           NEW order \in Bijection(DOMAIN history, DOMAIN history),
           NEW p \in ReviewPlaces(Listed(order))
    PROVE  /\ p = << p[1], p[2] >> /\ p[1] \in DOMAIN history
           /\ Review \in DOMAIN history[order[p[1]]].cmm
           /\ p[2] \in DOMAIN history[order[p[1]]].cmm[Review] /\ p[2] \in Nat
           /\ ValueAt(Listed(order), Review, p) = history[order[p[1]]].cmm[Review][p[2]]
           /\ Of(ValueAt(Listed(order), Review, p), HashOf(ValueAt(Listed(order), Review, p)))
  <1> DEFINE answer == Listed(order)
  <1>1. PICK i \in DOMAIN answer : /\ Review \in DOMAIN answer[i].cmm
                                   /\ p \in {i} \X DOMAIN answer[i].cmm[Review]
    BY DEF ReviewPlaces, extractVdxfHistory
  <1>2. DOMAIN answer = DOMAIN history /\ answer[i].cmm = history[order[i]].cmm
        /\ order[i] \in DOMAIN history
    BY <1>1, ListedFacts
  <1> HIDE DEF answer
  <1>3. /\ p = << p[1], p[2] >> /\ p[1] = i /\ p[2] \in DOMAIN history[order[i]].cmm[Review]
    BY <1>1, <1>2
  <1>4. p[2] \in Nat
    BY <1>1, <1>2, <1>3, ReviewedFacts
  <1>5. QED
    BY <1>1, <1>2, <1>3, <1>4 DEF answer, ReviewPlaces, ValueAt, Of

\* The output that first wrote a review of a job is new when the walk comes to
\* it: an earlier one with the same values would have had that review.
LEMMA FirstIsNew ==
    ASSUME ProfileInv, HistoryFrom,
           NEW order \in Bijection(DOMAIN history, DOMAIN history),
           NEW h, NEW a \in Reviewed(h), \A c \in Reviewed(h) : a <= c,
           NEW i \in DOMAIN history, order[i] = a,
           NEW n \in DOMAIN history[a].cmm[Review], Of(history[a].cmm[Review][n], h)
    PROVE  /\ << i, n >> \in ReviewPlaces(Listed(order))
           /\ ValueAt(Listed(order), Review, << i, n >>) = history[a].cmm[Review][n]
  <1> DEFINE answer == Listed(order)
             holding == {k \in DOMAIN answer : Review \in DOMAIN answer[k].cmm}
  <1>1. /\ DOMAIN answer = DOMAIN history
        /\ \A k \in DOMAIN history : /\ order[k] \in DOMAIN history /\ order[k] \in Nat
                                     /\ answer[k].cmm = history[order[k]].cmm
        /\ \A j, k \in DOMAIN history : Before(answer, j, k) <=> order[j] < order[k]
    BY ListedFacts
  <1> HIDE DEF answer
  <1>2. /\ Review \in DOMAIN history[a].cmm /\ a \in Nat
        /\ \A c \in Reviewed(h) : c \in Nat
    BY ReviewedFacts
  <1>3. i \in holding
    BY <1>1, <1>2
  <1>4. ASSUME NEW j \in holding, Before(answer, j, i)
        PROVE  answer[i].cmm[Review] # answer[j].cmm[Review]
    <2> SUFFICES ASSUME answer[i].cmm[Review] = answer[j].cmm[Review] PROVE FALSE
      OBVIOUS
    <2>1. /\ j \in DOMAIN history /\ order[j] < a /\ order[j] \in DOMAIN history
          /\ order[j] \in Nat
          /\ Review \in DOMAIN history[order[j]].cmm
          /\ history[order[j]].cmm[Review] = history[a].cmm[Review]
      BY <1>1, <1>4
    <2>2. \E c \in Reviewed(h) : c <= order[j]
      BY <2>1, ReviewedFacts
    <2>3. QED
      BY <1>2, <2>1, <2>2
  <1>5. << i, n >> \in {i} \X DOMAIN answer[i].cmm[Review]
    BY <1>1
  <1>6. << i, n >> \in extractVdxfHistory(answer, Review)
    BY <1>3, <1>4, <1>5 DEF extractVdxfHistory
  <1>7. ValueAt(answer, Review, << i, n >>) = history[a].cmm[Review][n]
    BY <1>1 DEF ValueAt
  <1>8. QED
    BY <1>6, <1>7 DEF ReviewPlaces, Of, answer

LEMMA InvReviews == ProfileInv /\ HistoryFrom => ReviewsRecovered
  <1> SUFFICES ASSUME ProfileInv, HistoryFrom,
                      NEW order \in Bijection(DOMAIN history, DOMAIN history)
      PROVE LET answer == Listed(order)
                JobOf(p) == HashOf(ValueAt(answer, Review, p))
                found  == {p \in decodeReviewHistory(answer) : JobOf(p) # ""}
            IN  /\ \A p \in found : answer[p[1]].height = Min(Reviewed(JobOf(p)))
                /\ \A p, q \in found : p # q =>
                      /\ JobOf(p) # JobOf(q)
                      /\ Earlier(answer, p, q) \/ Earlier(answer, q, p)
                      /\ Earlier(answer, p, q) => answer[p[1]].height <= answer[q[1]].height
                /\ \A h \in Hashes : Reviewed(h) # {} => \E p \in found : JobOf(p) = h
    BY DEF ReviewsRecovered, Listed
  <1> DEFINE answer == Listed(order)
             JobOf(p) == HashOf(ValueAt(answer, Review, p))
             found == {p \in decodeReviewHistory(answer) : JobOf(p) # ""}
  <1>1. /\ \A i \in DOMAIN history : /\ order[i] \in DOMAIN history /\ order[i] \in Nat
                                     /\ answer[i].height = order[i]
        /\ \A i, j \in DOMAIN history : order[i] = order[j] => i = j
        /\ \A a \in DOMAIN history : \E i \in DOMAIN history : order[i] = a
        /\ \A i, j \in DOMAIN history : Before(answer, i, j) <=> order[i] < order[j]
    BY ListedFacts
  <1>2. \A p \in ReviewPlaces(answer) :
           /\ p = << p[1], p[2] >> /\ p[1] \in DOMAIN history /\ p[2] \in Nat
           /\ Review \in DOMAIN history[order[p[1]]].cmm
           /\ p[2] \in DOMAIN history[order[p[1]]].cmm[Review]
           /\ Of(history[order[p[1]]].cmm[Review][p[2]], JobOf(p))
    BY PlaceFacts
  <1>3. \A p : p \in found <=>
           /\ p \in ReviewPlaces(answer) /\ JobOf(p) # ""
           /\ \A q \in ReviewPlaces(answer) : JobOf(q) = JobOf(p) => ~ Earlier(answer, q, p)
    BY DEF decodeReviewHistory, ReviewPlaces
  <1>4. ASSUME NEW h, NEW a \in Reviewed(h), \A c \in Reviewed(h) : a <= c,
               NEW i \in DOMAIN history, order[i] = a,
               NEW n \in DOMAIN history[a].cmm[Review], Of(history[a].cmm[Review][n], h)
        PROVE  << i, n >> \in ReviewPlaces(answer) /\ JobOf(<< i, n >>) = h
    BY <1>4, FirstIsNew DEF Of
  <1> HIDE DEF answer, JobOf, found
  <1>5. ASSUME NEW h, Reviewed(h) # {}
        PROVE  \E a \in Reviewed(h) : /\ \A c \in Reviewed(h) : a <= c /\ c \in Nat
                                      /\ a \in Nat /\ Min(Reviewed(h)) = a
    BY <1>5, LeastExists, LeastIsMin, ReviewedFacts
  <1>6. ASSUME NEW p \in found
        PROVE  answer[p[1]].height = Min(Reviewed(JobOf(p)))
    <2> DEFINE h == JobOf(p)
    <2>1. /\ p \in ReviewPlaces(answer) /\ p[1] \in DOMAIN history
          /\ Review \in DOMAIN history[order[p[1]]].cmm
          /\ p[2] \in DOMAIN history[order[p[1]]].cmm[Review]
          /\ Of(history[order[p[1]]].cmm[Review][p[2]], h)
      BY <1>2, <1>3
    <2>2. order[p[1]] \in DOMAIN history /\ order[p[1]] \in Nat
      BY <1>1, <2>1
    <2> HIDE DEF h
    <2>c. PICK c \in Reviewed(h) : c <= order[p[1]]
      BY <2>1, <2>2, ReviewedFacts
    <2>3. PICK a \in Reviewed(h) : /\ \A d \in Reviewed(h) : a <= d /\ d \in Nat
                                   /\ a \in Nat /\ Min(Reviewed(h)) = a
      BY <1>5, <2>c
    <2>4. a \in DOMAIN history
      BY ReviewedFacts
    <2>5. PICK i \in DOMAIN history : order[i] = a
      BY <1>1, <2>4
    <2>6. PICK n \in DOMAIN history[a].cmm[Review] : Of(history[a].cmm[Review][n], h)
      BY ReviewedFacts
    <2>7. << i, n >> \in ReviewPlaces(answer) /\ JobOf(<< i, n >>) = h
      BY <1>4, <2>3, <2>5, <2>6
    <2>n. << i, n >>[1] = i
      OBVIOUS
    <2>8. ~ Earlier(answer, << i, n >>, p)
      BY <1>3, <2>7 DEF h
    <2>9. ~ (a < order[p[1]])
      BY <1>1, <2>1, <2>5, <2>8, <2>n DEF Earlier
    <2>10. order[p[1]] = a
      <3>1. c \in Nat /\ a <= c
        BY <2>3
      <3>2. QED
        BY <2>2, <2>c, <2>3, <2>9, <3>1
    <2>11. QED
      BY <1>1, <2>1, <2>3, <2>10 DEF h
  <1>7. ASSUME NEW p \in found, NEW q \in found, p # q
        PROVE  /\ Earlier(answer, p, q) \/ Earlier(answer, q, p)
               /\ JobOf(p) # JobOf(q)
               /\ Earlier(answer, p, q) => answer[p[1]].height <= answer[q[1]].height
    <2>1. /\ p \in ReviewPlaces(answer) /\ q \in ReviewPlaces(answer)
          /\ p = << p[1], p[2] >> /\ q = << q[1], q[2] >>
          /\ p[1] \in DOMAIN history /\ q[1] \in DOMAIN history
          /\ p[2] \in Nat /\ q[2] \in Nat
      BY <1>2, <1>3
    <2>2. p[1] # q[1] \/ p[2] # q[2]
      BY <1>7, <2>1
    <2>3. /\ order[p[1]] \in Nat /\ order[q[1]] \in Nat
          /\ order[p[1]] = order[q[1]] => p[1] = q[1]
          /\ Before(answer, p[1], q[1]) <=> order[p[1]] < order[q[1]]
          /\ Before(answer, q[1], p[1]) <=> order[q[1]] < order[p[1]]
          /\ answer[p[1]].height = order[p[1]] /\ answer[q[1]].height = order[q[1]]
      BY <1>1, <2>1
    <2>4. Earlier(answer, p, q) \/ Earlier(answer, q, p)
      BY <2>1, <2>2, <2>3 DEF Earlier
    <2>5. Earlier(answer, p, q) => answer[p[1]].height <= answer[q[1]].height
      BY <2>3 DEF Earlier
    <2>6. JobOf(p) # JobOf(q)
      BY <1>3, <2>1, <2>4
    <2>7. QED
      BY <2>4, <2>5, <2>6
  <1>8. ASSUME NEW h \in Hashes, Reviewed(h) # {}
        PROVE  \E p \in found : JobOf(p) = h
    <2>1. PICK a \in Reviewed(h) : /\ \A d \in Reviewed(h) : a <= d /\ d \in Nat
                                   /\ a \in Nat
      BY <1>5, <1>8
    <2>2. a \in DOMAIN history
      BY ReviewedFacts
    <2>3. PICK i \in DOMAIN history : order[i] = a
      BY <1>1, <2>2
    <2> DEFINE N == {n \in DOMAIN history[a].cmm[Review] : Of(history[a].cmm[Review][n], h)}
    <2>4. N # {} /\ N \subseteq Nat
      BY <2>2, ReviewedFacts
    <2>5. PICK n \in N : \A m \in N : n <= m
      BY <2>4, LeastExists
    <2>6. n \in Nat
      BY <2>4, <2>5
    <2> DEFINE p == << i, n >>
    <2>7. p \in ReviewPlaces(answer) /\ JobOf(p) = h
      BY <1>4, <2>1, <2>3, <2>5
    <2>8. ASSUME NEW q \in ReviewPlaces(answer), JobOf(q) = h
          PROVE  ~ Earlier(answer, q, p)
      <3>1. /\ q[1] \in DOMAIN history /\ q[2] \in Nat
            /\ Review \in DOMAIN history[order[q[1]]].cmm
            /\ q[2] \in DOMAIN history[order[q[1]]].cmm[Review]
            /\ Of(history[order[q[1]]].cmm[Review][q[2]], h)
        BY <1>2, <2>8
      <3>2. order[q[1]] \in DOMAIN history /\ order[q[1]] \in Nat
        BY <1>1, <3>1
      <3>3. PICK c \in Reviewed(h) : c <= order[q[1]]
        BY <3>1, <3>2, ReviewedFacts
      <3>4. a <= order[q[1]]
        BY <2>1, <3>2, <3>3
      <3>5. ~ Before(answer, q[1], i)
        <4>1. Before(answer, q[1], i) <=> order[q[1]] < order[i]
          BY <1>1, <3>1
        <4>2. ~ (order[q[1]] < a)
          BY <2>1, <3>2, <3>4
        <4>3. QED
          BY <2>3, <4>1, <4>2
      <3>6. q[1] = i => q[2] \in N
        BY <2>3, <3>1
      <3>7. ~ (q[1] = i /\ q[2] < n)
        BY <2>5, <2>6, <3>1, <3>6
      <3>8. QED
        BY <3>5, <3>7 DEF Earlier
    <2>9. h # ""
      BY ProfileAssumption
    <2> HIDE DEF p
    <2>10. QED
      BY <1>3, <2>7, <2>8, <2>9
  <1>9. QED
    BY <1>6, <1>7, <1>8 DEF answer, JobOf, found

\* Whatever the order the outputs are listed in, every job ever reviewed comes
\* back once, at the height of its first review (identity/history.ts).
THEOREM ReviewsReadBack == ProfileSpec => []ReviewsRecovered
  BY HistoryInductive, InvReviews, PTL

============================================================================
