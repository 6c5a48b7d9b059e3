------------------------------ MODULE Onboarding ------------------------------
(***************************************************************************)
(* The programs that register an agent: finalizeOnboarding() with its      *)
(* state file (src/src/onboarding/finalize.ts) and the command line with   *)
(* its key file (src/bin/j41.js).  Both drive AgentIdentity, and both may  *)
(* be killed between any two steps and started again.                      *)
(***************************************************************************)
EXTENDS AgentIdentity

CONSTANTS
    Requests, \* what finalizeOnboarding() may be asked for: the stages of 1 .. 5 with a
              \* hook, a profile (given, or prompted for) or services
    MaxRuns   \* bound: program runs

ASSUME RunAssumption == Requests \subseteq SUBSET (1 .. 5) /\ MaxRuns \in Nat

VARIABLES
    program,  \* the running program, "down" when none runs
    at,       \* where the program is
    stage,    \* finalize: state.stage in memory, as an index of Stages
    given,    \* finalize: the stages that the running program was asked for
    file,     \* the state file: its stage, 0 when absent or unreadable; the stages its
              \* notes say were skipped; auxiliary: the keys whose runs wrote it
    effects,  \* auxiliary: effects[k]: the stages that finalize brought about for k
    retried,  \* finalize: the registration was retried after a re-authentication
    keyFile,  \* .j41-keys.json: the key and whether its identity is recorded
    savedKeys,\* keys that were ever on disk: a new one is another
    runs      \* bound: program runs so far

programVars == <<program, at, stage, given, file, effects, retried, keyFile, savedKeys, runs>>
allVars == <<agentAll, programVars>>

Stages == <<"onboarded", "vdxf_published", "vdxf_verified", "indexed",
            "profile_registered", "services_registered", "ready">>
NewFile == [stage |-> 0, skipped |-> {}, writers |-> {}]
NoFile == [key |-> None, identity |-> FALSE]
Programs == {"down", "finalize", "generate", "register", "update", "agent"}
Places == {"menu", "hook", "mark", "profile", "profiling", "auth", "services", "serving",
           "unlink", "write", "registering", "unlinkAgain", "writeAgain", "free"}

TypeOK ==
    /\ AgentTypeOK
    /\ program \in Programs /\ at \in Places
    /\ stage \in 1 .. 7 /\ given \subseteq 1 .. 5
    /\ file \in [stage : 0 .. 7, skipped : SUBSET (1 .. 5), writers : SUBSET Keys]
    /\ effects \in [Keys -> SUBSET (1 .. 5)] /\ retried \in BOOLEAN
    /\ keyFile \in [key : Keys \union {None}, identity : BOOLEAN] /\ savedKeys \subseteq Keys
    /\ runs \in 0 .. MaxRuns

Init ==
    /\ AgentInit
    /\ program = "down" /\ at = "menu" /\ stage = 1 /\ given = {}
    /\ file = NewFile /\ effects = [k \in Keys |-> {}] /\ retried = FALSE
    /\ keyFile = NoFile /\ savedKeys = {} /\ runs = 0

\* The program goes on at a; nothing else of it changes.
Go(a) == at' = a /\ UNCHANGED <<program, stage, given, file, effects, retried, keyFile, savedKeys, runs>>
End == /\ program' = "down" /\ at' = "menu" /\ stage' = 1 /\ given' = {} /\ retried' = FALSE
       /\ UNCHANGED <<file, effects, keyFile, savedKeys, runs>>
Ends == End /\ UNCHANGED agentAll

\* A program starts and constructs its agent from what is on disk.
Boot(p, a, k, known) ==
    /\ program = "down" /\ runs < MaxRuns
    /\ runs' = runs + 1 /\ program' = p /\ at' = a
    /\ key' = k /\ identity' = known
    /\ op' = "idle" /\ result' = "none" /\ txid' = "none" /\ svc' = 0 /\ retried' = FALSE
    /\ networkType' = (IF known THEN homeOf[k] ELSE networkType)
    /\ previousNetwork' = networkType' /\ attempts' = 0 /\ wanted' = "active"
    /\ UNCHANGED <<platformVars, faults, file, effects, keyFile, savedKeys>>

\* The process is killed; a later run starts a new agent.
Crash ==
    /\ program # "down" /\ Fault /\ End
    /\ op' = "idle" /\ result' = "none" /\ txid' = "none" /\ identity' = FALSE
    /\ UNCHANGED <<key, networkType, previousNetwork, attempts, svc, wanted, platformVars>>

-----------------------------------------------------------------------------
(* finalizeOnboarding() *)

\* Mutant: the stage on disk is taken for one that is done.
Resume_Next ==
    /\ keyFile.identity
    /\ Boot("finalize", "hook", keyFile.key, TRUE)
    /\ given' \in Requests
    /\ stage' = IF file.stage \in 1 .. 6 THEN file.stage + 1 ELSE 1

\* readState(): whoever wrote the file, the run goes on from its stage; a stage
\* that is not one of Stages, or no file, starts fresh.
Resume ==
    /\ keyFile.identity
    /\ Boot("finalize", "hook", keyFile.key, TRUE)
    /\ given' \in Requests
    /\ stage' = IF file.stage \in 1 .. 7 THEN file.stage ELSE 1

In(p, a) == program = p /\ at = a

\* The effect of the current stage is there: what is left is to mark it.
Achieved ==
    /\ at' = "mark"
    /\ effects' = [effects EXCEPT ![key] = @ \union {stage}]
    /\ UNCHANGED <<program, stage, given, file, retried, keyFile, savedKeys, runs>>

\* A hook of the first three stages succeeds.
HookOk ==
    /\ In("finalize", "hook") /\ stage \in given \intersect 1 .. 3
    /\ Achieved /\ UNCHANGED agentAll

HookThrows ==
    /\ In("finalize", "hook") /\ stage \in given \intersect 1 .. 3
    /\ Fault /\ End /\ UNCHANGED <<agentVars, localVars, platformVars>>

\* mark(): the new stage in memory and, by an atomic rename, on disk, with a note.
MarkNext(skips) ==
    /\ at' = "hook" /\ stage' = stage + 1
    /\ file' = [stage |-> stage + 1, skipped |-> file.skipped \union skips,
                writers |-> file.writers \union {key}]
    /\ UNCHANGED <<program, given, effects, retried, keyFile, savedKeys, runs, agentAll>>

\* Mutant: the file is written before the effect of its stage.
Mark_Early ==
    /\ \/ In("finalize", "mark")
       \/ In("finalize", "hook") /\ stage \in given
    /\ MarkNext({})

Mark == In("finalize", "mark") /\ MarkNext({})

\* Mutant: no note says that a stage was skipped.
Skip_Silent ==
    /\ In("finalize", "hook") /\ stage \in 1 .. 5 \ given
    /\ MarkNext({})

\* A hook that is not given, no profile without a prompt, no services: the stage
\* is marked all the same, with a note, and not come back to.
Skip ==
    /\ In("finalize", "hook") /\ stage \in 1 .. 5 \ given
    /\ MarkNext({stage})

\* The profile is given, or asked for field by field; the first invalid answer
\* (name, type, description, tags, addresses, protocols, session) ends the run.
ResolveProfile ==
    /\ In("finalize", "hook") /\ stage = 4 /\ stage \in given
    /\ Go("profile") \/ End
    /\ UNCHANGED agentAll

Profile ==
    /\ In("finalize", "profile")
    /\ BeginProfile /\ Go("profiling")

\* Mutant: any failure of the registration counts as "already registered".
Profiled_AnyError ==
    /\ In("finalize", "profiling") /\ op = "idle"
    /\ Achieved /\ UNCHANGED agentAll

\* A 401 or an invalid signature is retried once after authenticate().
Profiled ==
    /\ In("finalize", "profiling") /\ op = "idle"
    /\ \/ result = "ok" /\ Achieved
       \/ /\ result = "auth" /\ ~retried
          /\ retried' = TRUE /\ at' = "auth"
          /\ UNCHANGED <<program, stage, given, file, effects, keyFile, savedKeys, runs>>
       \/ (result = "thrown" \/ (result = "auth" /\ retried)) /\ End
    /\ UNCHANGED agentAll

Reauthenticate ==
    /\ In("finalize", "auth")
    /\ \/ Go("profile") /\ UNCHANGED faults
       \/ Fault /\ End
    /\ UNCHANGED <<agentVars, localVars, platformVars>>

ResolveServices ==
    /\ In("finalize", "hook") /\ stage = 5 /\ stage \in given
    /\ Go("services")
    /\ svc' = 0
    /\ UNCHANGED <<agentVars, op, previousNetwork, attempts, wanted, txid, result, platformVars, faults>>

\* The services in their order; the command line goes on after a failed one.
NextService ==
    /\ program \in {"finalize", "register", "update"} /\ at = "services" /\ op = "idle"
    /\ \/ svc < Len(Services) /\ BeginService(svc + 1) /\ Go("serving")
       \/ svc = Len(Services) /\ (IF program = "finalize" THEN Achieved ELSE End)
                              /\ UNCHANGED agentAll

Served ==
    /\ at = "serving" /\ op = "idle"
    /\ IF program = "finalize" /\ result # "ok" THEN End ELSE Go("services")
    /\ UNCHANGED agentAll

\* The last mark; 'ready' has nothing left to do.
Complete ==
    /\ In("finalize", "hook")
    /\ \/ stage = 6 /\ MarkNext({})
       \/ stage = 7 /\ Ends

-----------------------------------------------------------------------------
(* The command line: 1) generate keys, 2) register, 5) update the profile *)

FreshKey(k) == onboard[k] = "none" /\ k \notin savedKeys

GenerateKeys(k) ==
    /\ FreshKey(k) /\ Boot("generate", "unlink", k, FALSE) /\ UNCHANGED <<stage, given>>

\* Registration takes the saved key or generates one and saves it first.
RegisterAgent(k) ==
    /\ \/ keyFile.key = k /\ Boot("register", "registering", k, FALSE)
       \/ keyFile.key = None /\ FreshKey(k) /\ Boot("register", "unlink", k, FALSE)
    /\ UNCHANGED <<stage, given>>

\* The file is unlinked and written anew; between the two it does not exist.
Unlink ==
    /\ at \in {"unlink", "unlinkAgain"}
    /\ keyFile' = NoFile /\ at' = IF at = "unlink" THEN "write" ELSE "writeAgain"
    /\ UNCHANGED <<program, stage, given, file, effects, retried, savedKeys, runs, agentAll>>

WriteKeys ==
    /\ at \in {"write", "writeAgain"}
    /\ keyFile' = [key |-> key, identity |-> identity]
    /\ savedKeys' = savedKeys \union {key}
    /\ at' = IF program = "generate" THEN "menu" ELSE IF at = "write" THEN "registering" ELSE "profile"
    /\ program' = IF program = "generate" THEN "down" ELSE program
    /\ UNCHANGED <<stage, given, file, effects, retried, runs, agentAll>>

\* The form is filled in, or left at the first invalid field.
CollectProfile(net) ==
    /\ In("register", "registering") /\ op = "idle" /\ result = "none"
    /\ \/ BeginRegister(net) /\ UNCHANGED programVars
       \/ Ends

CliRegistered ==
    /\ In("register", "registering") /\ op = "idle" /\ result # "none"
    /\ IF result = "ok" THEN Go("unlinkAgain") ELSE End
    /\ UNCHANGED agentAll

UpdateAgentProfile ==
    /\ keyFile.identity
    /\ Boot("update", "profile", keyFile.key, TRUE) /\ UNCHANGED <<stage, given>>

CliProfile ==
    /\ program \in {"register", "update"} /\ at = "profile" /\ op = "idle"
    /\ BeginProfile /\ Go("profiling")

\* A failed registration ends an update; registerAgent() goes on to the services.
CliProfiled ==
    /\ program \in {"register", "update"} /\ at = "profiling" /\ op = "idle"
    /\ IF program = "update" /\ result # "ok"
       THEN End /\ UNCHANGED svc
       ELSE Go("services") /\ svc' = 0
    /\ UNCHANGED <<agentVars, op, previousNetwork, attempts, wanted, txid, result, platformVars, faults>>

-----------------------------------------------------------------------------
\* A program with a registered agent calls its operations in any order.
RunAgent ==
    /\ keyFile.identity
    /\ Boot("agent", "free", keyFile.key, TRUE) /\ UNCHANGED <<stage, given>>

AgentCalls ==
    /\ In("agent", "free")
    /\ \/ \E s \in {"active", "inactive"} : BeginStatus(s)
       \/ \E net \in Networks : BeginRegister(net)
    /\ UNCHANGED programVars

AgentStops == In("agent", "free") /\ op = "idle" /\ Ends

Step ==
    \/ HookOk \/ HookThrows \/ Mark \/ Skip \/ ResolveProfile \/ Profile \/ Profiled \/ Reauthenticate
    \/ ResolveServices \/ NextService \/ Served \/ Complete
    \/ Unlink \/ WriteKeys \/ CliRegistered \/ CliProfile \/ CliProfiled \/ AgentStops
    \/ \E net \in Networks : CollectProfile(net)
    \/ OpStep /\ program # "down" /\ UNCHANGED programVars

Next ==
    \/ Step \/ Crash \/ AgentCalls
    \/ Resume \/ UpdateAgentProfile \/ RunAgent
    \/ \E k \in Keys : GenerateKeys(k) \/ RegisterAgent(k)
    \/ \E k \in Keys : (Onboarding(k) \/ Settles(k)) /\ UNCHANGED programVars

Spec == Init /\ [][Next]_allVars

\* Every request has a timeout and every loop a limit, and the user answers: a
\* program that can go on does.
Fairness == WF_allVars(Step)
FairSpec == Spec /\ Fairness

-----------------------------------------------------------------------------
(***************************************************************************)
(* While a registration is under way, until its identity is minted and     *)
(* located or the program gives up, the key that signed it is in the key   *)
(* file (j41.js registerAgent: the write comes first, and the file is not  *)
(* written again before register() has returned).                          *)
(***************************************************************************)
KeyAtHand == op \in RegisterOps => keyFile.key = key

(***************************************************************************)
(* Registration over crashes, timeouts and repeated runs: the agent's      *)
(* identity is minted, located and on its network, and no registration     *)
(* runs for a key that is not in the key file.  What the file holds after  *)
(* the registration is another matter: KeysOnDisk.                         *)
(***************************************************************************)
IdentitiesAreSafe == TypeOK /\ IdentityIsReal /\ KeyAtHand

(***************************************************************************)
(* "It cannot be recovered if lost.  Full key is in .j41-keys.json"        *)
(* (j41.js:324): when no program runs, the file holds the key that a       *)
(* registration was signed with.  Stated for one key: to overwrite it with *)
(* another is the user's choice (menu item 1).                             *)
(***************************************************************************)
KeysOnDisk == program = "down" => \A k \in Keys : onboard[k] # "none" => keyFile.key = k

(***************************************************************************)
(* What the state file says of the only agent that used it: past stage 4   *)
(* its profile is at the platform, unless the file's notes say that it was *)
(* skipped; the platform drops no profile.                                 *)
(***************************************************************************)
FileHolds ==
    \A k \in Keys :
        file.writers = {k} /\ file.stage > 4 => k \in profiles \/ 4 \in file.skipped

(***************************************************************************)
(* Services are marked as registered only when the platform lists each of  *)
(* them, also when the run before died among them (finalize.ts, step 5).   *)
(***************************************************************************)
MarkNeedsEffect ==
    In("finalize", "mark") =>
        /\ stage = 4 => key \in profiles
        /\ stage = 5 => \A i \in Indexes : listed[key][i] > 0

(***************************************************************************)
(* What a program takes for done, the platform holds: the marks of         *)
(* finalize.ts, and the status after activate() and deactivate().  A file  *)
(* that runs for several agents shared claims nothing: readState() does    *)
(* not look whose it is (finalize.ts:216).                                 *)
(***************************************************************************)
DoneIsHeld == FileHolds /\ MarkNeedsEffect /\ StatusAgrees

(***************************************************************************)
(* Over every crash and restart, and whatever each run is asked for, the   *)
(* state file that no other agent has written is a faithful mark of a      *)
(* procedure whose stages take effect, or are waived, in order.            *)
(***************************************************************************)
Finalize(k) == INSTANCE Milestones WITH Last <- 5, asked <- given, done <- effects[k],
    waived <- file.skipped,
    marked <- IF file.stage = 0 THEN 0 ELSE IF file.stage = 7 THEN 5 ELSE file.stage - 1
FinalizeRefines ==
    /\ \A k \in Keys : Finalize(k)!Init
    /\ [][\A k \in Keys : file'.writers \subseteq {k} => [Finalize(k)!Next]_(Finalize(k)!vars)]_allVars

(***************************************************************************)
(* A program that was started ends, whatever the platform answers: the     *)
(* polling loops are bounded and no failure is retried for ever.           *)
(***************************************************************************)
ProgramsEnd == program \in {"finalize", "register", "update"} ~> program = "down"
==============================================================================
