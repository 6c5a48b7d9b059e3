--------------------------- MODULE BuyerWorkspace ----------------------------
(***************************************************************************)
(* The buyer's end of a workspace (src/src/buyer/workspace.ts), which      *)
(* serves tool calls on a directory, and the part of BuyerSession          *)
(* (src/src/buyer/session.ts) that opens and closes it.                    *)
(*                                                                         *)
(* Sizes are counted in files: a read or a write moves one, and the        *)
(* session limit is MaxTransfer of them.                                   *)
(***************************************************************************)
EXTENDS Integers, FiniteSets, ToolCalls

CONSTANTS
    Secret,       \* calls on a file that the pre-scan excludes when it is there
    Gated,        \* autoApproveWrites is off and onWrite is set
    MaxTransfer   \* MAX_SESSION_TRANSFER

ASSUME BuyerAssumption ==
    /\ Secret \subseteq Reqs
    /\ Gated \in BOOLEAN /\ MaxTransfer \in Nat

VARIABLES
    session,     \* the BuyerSession: active or ended
    held,        \* its _workspace is not null
    mayWrite,    \* config.permissions.write of the workspace
    exclusions,  \* calls on paths that the pre-scan excluded
    joining,     \* where connect() of the workspace is
    blink,       \* its socket
    serving,     \* its _connected
    keepalive,   \* the keepalive interval runs
    handling,    \* handling[r]: what became of a tool call
    transferred  \* _sessionTransferBytes

sessionVars == <<session, held>>
grantVars == <<mayWrite, exclusions>>
socketVars == <<joining, blink, serving, keepalive>>
buyerVars == <<sessionVars, grantVars, socketVars, handling, transferred>>

BuyerTypeOK ==
    /\ session \in {"active", "ended"}
    /\ held \in BOOLEAN
    /\ mayWrite \in BOOLEAN
    /\ exclusions \subseteq Reqs
    /\ joining \in {"idle", "uid", "waiting", "ok", "failed"}
    /\ blink \in {"off", "down", "up"}
    /\ serving \in BOOLEAN
    /\ keepalive \in BOOLEAN
    /\ handling \in [Reqs -> {"none", "asking", "done", "refused", "silent"}]
    /\ transferred \in 0 .. Cardinality(Reqs)

BuyerInit ==
    /\ session = "active"
    /\ held = FALSE
    /\ mayWrite = TRUE
    /\ exclusions = {}
    /\ joining = "idle"
    /\ blink = "off"
    /\ serving = FALSE
    /\ keepalive = FALSE
    /\ handling = [r \in Reqs |-> "none"]
    /\ transferred = 0

-----------------------------------------------------------------------------
(* connectWorkspace(): the session holds the workspace before it connects; *)
(* the directory is scanned before the first await.                        *)

\* The walk leaves out what matches the list of secrets and is there.
PreScan == exclusions' \in SUBSET Secret

ConnectWorkspace ==
    /\ session = "active" /\ joining = "idle"
    /\ held' = TRUE
    /\ joining' = "uid"
    /\ mayWrite' \in BOOLEAN
    /\ PreScan
    /\ UNCHANGED <<session, blink, serving, keepalive, handling, transferred>>

UidFails ==
    /\ joining = "uid"
    /\ joining' = "failed"
    /\ UNCHANGED <<sessionVars, grantVars, blink, serving, keepalive, handling, transferred>>

UidArrives ==
    /\ joining = "uid"
    /\ joining' = "waiting"
    /\ blink' = "down"
    /\ UNCHANGED <<sessionVars, grantVars, serving, keepalive, handling, transferred>>

\* 'connect': the pre-scan is sent and keepalive starts.
BuyerConnects ==
    /\ blink = "down"
    /\ blink' = "up"
    /\ serving' = TRUE
    /\ keepalive' = TRUE
    /\ joining' = IF joining = "waiting" THEN "ok" ELSE joining
    /\ UNCHANGED <<sessionVars, grantVars, handling, transferred>>

\* 'connect_error' and 'ws:error' only reject; the relay may refuse the socket.
BuyerRefused ==
    /\ joining = "waiting" /\ blink # "off"
    /\ joining' = "failed"
    /\ blink' \in IF blink = "down" THEN {"down", "off"} ELSE {blink}
    /\ UNCHANGED <<sessionVars, grantVars, serving, keepalive, handling, transferred>>

\* 'disconnect': the session hears 'disconnected' and forgets the workspace,
\* while socket.io reconnects it, unless the relay ended it.
BuyerLinkLost ==
    /\ blink = "up"
    /\ blink' \in {"down", "off"}
    /\ serving' = FALSE
    /\ keepalive' = FALSE
    /\ held' = FALSE
    /\ UNCHANGED <<session, grantVars, joining, handling, transferred>>

\* Status 'aborted' or 'completed'.
WorkspaceOver ==
    /\ blink = "up"
    /\ serving' = FALSE
    /\ held' = FALSE
    /\ UNCHANGED <<session, grantVars, joining, blink, keepalive, handling, transferred>>

\* socket.io gives up a socket that stays down, or the relay refuses it; the
\* handler of 'reconnect', an event of the Manager, never runs.
BuyerAbandons ==
    /\ blink = "down" /\ joining # "waiting"
    /\ blink' = "off"
    /\ UNCHANGED <<sessionVars, grantVars, joining, serving, keepalive, handling, transferred>>

\* Mutant: the keepalive interval is not cleared.
Stop_KeepsAlive ==
    /\ blink' = "off"
    /\ serving' = FALSE
    /\ UNCHANGED keepalive

\* disconnect(); on a connected socket 'disconnect' then fires.
Stop ==
    /\ blink' = "off"
    /\ serving' = FALSE
    /\ keepalive' = FALSE

\* The thirty-second timer.
BuyerTimeout ==
    /\ joining = "waiting"
    /\ joining' = "failed"
    /\ Stop
    /\ UNCHANGED <<sessionVars, grantVars, handling, transferred>>

\* endSession() disconnects the workspace the session holds.
EndSession ==
    /\ session = "active"
    /\ session' = "ended"
    /\ IF held THEN Stop ELSE UNCHANGED <<blink, serving, keepalive>>
    /\ held' = FALSE
    /\ UNCHANGED <<grantVars, joining, handling, transferred>>

-----------------------------------------------------------------------------
(* handleMcpCall() *)

Answer(r, what) == handling' = [handling EXCEPT ![r] = what]

\* Mutant: the limit is not consulted.
Refused_NoLimit(r) ==
    \/ r \in Writes /\ ~mayWrite
    \/ r \in exclusions

\* The checks at the head, in the code's order: any of them refuses.
Refused(r) ==
    \/ r \in Writes /\ ~mayWrite
    \/ r \in exclusions
    \/ transferred > MaxTransfer

MustAsk(r) == r \in Writes /\ Gated

\* The file is read or written and counted, with no await in between.
Execute(r) ==
    /\ Answer(r, "done")
    /\ transferred' = transferred + 1

\* The path, the file or its size is not acceptable, or the system call throws.
CannotExecute(r) == Answer(r, "refused") /\ UNCHANGED transferred

HandleCall(r) ==
    /\ blink = "up" /\ handling[r] = "none"
    /\ \/ Refused(r) /\ Answer(r, "refused") /\ UNCHANGED transferred
       \/ ~Refused(r) /\ MustAsk(r) /\ Answer(r, "asking") /\ UNCHANGED transferred
       \/ ~Refused(r) /\ ~MustAsk(r) /\ (Execute(r) \/ CannotExecute(r))
    /\ UNCHANGED <<sessionVars, grantVars, socketVars>>

\* onWrite answers yes: the write runs at once, with no second look at the
\* checks nor at the socket.
Approve(r) ==
    /\ handling[r] = "asking"
    /\ Execute(r) \/ CannotExecute(r)
    /\ UNCHANGED <<sessionVars, grantVars, socketVars>>

Deny(r) ==
    /\ handling[r] = "asking"
    /\ Answer(r, "refused")
    /\ UNCHANGED <<sessionVars, grantVars, socketVars, transferred>>

\* onWrite throws: logged, and no result is sent.
GateThrows(r) ==
    /\ handling[r] = "asking"
    /\ Answer(r, "silent")
    /\ UNCHANGED <<sessionVars, grantVars, socketVars, transferred>>

\* The socket sendResult() uses exists (socket.io keeps what it sends while down).
CanAnswer == blink # "off"
=============================================================================
