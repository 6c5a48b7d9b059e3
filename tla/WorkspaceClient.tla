--------------------------- MODULE WorkspaceClient ---------------------------
(***************************************************************************)
(* The seller's end of a workspace (src/src/workspace/client.ts): sockets  *)
(* to the platform's relay, and tool calls that wait for their results.    *)
(*                                                                         *)
(* The agent has one instance.  The socket that a connect() call c creates *)
(* is named after it; connect() does not close the one before, and all of  *)
(* them write the same _connected and read the same this.socket.           *)
(***************************************************************************)
EXTENDS Integers, FiniteSets, ToolCalls

CONSTANTS
    Dials,    \* calls of connect(), numbered in the order they are made
    NoSocket  \* null

ASSUME SellerAssumption == Dials \subseteq Nat /\ NoSocket \notin Dials

VARIABLES
    conn,       \* conn[c]: where connect() call c is
    line,       \* line[c]: the socket it created
    socket,     \* this.socket
    connected,  \* this._connected
    toolCall    \* toolCall[r]: the promise of a tool call

dialVars == <<conn, line, socket, connected, toolCall>>

ConnSteps == {"idle", "token", "waiting", "ok", "failed"}
LineStates == {"off", "down", "up"}
Promises == {"idle", "pending", "resolved", "refused", "expired", "closed"}

SellerTypeOK ==
    /\ conn \in [Dials -> ConnSteps]
    /\ line \in [Dials -> LineStates]
    /\ socket \in Dials \cup {NoSocket}
    /\ connected \in BOOLEAN
    /\ toolCall \in [Reqs -> Promises]

SellerInit ==
    /\ conn = [c \in Dials |-> "idle"]
    /\ line = [c \in Dials |-> "off"]
    /\ socket = NoSocket
    /\ connected = FALSE
    /\ toolCall = [r \in Reqs |-> "idle"]

SellerHears == \E c \in Dials : line[c] = "up"

-----------------------------------------------------------------------------
(* connect(), up to the socket *)

Connect(c) ==
    /\ conn[c] = "idle" /\ \A d \in Dials : d < c => conn[d] # "idle"
    /\ conn' = [conn EXCEPT ![c] = "token"]
    /\ UNCHANGED <<line, socket, connected, toolCall>>

\* The request for a token fails, or the relay's address does not match.
SellerTokenFails(c) ==
    /\ conn[c] = "token"
    /\ conn' = [conn EXCEPT ![c] = "failed"]
    /\ UNCHANGED <<line, socket, connected, toolCall>>

SellerTokenArrives(c) ==
    /\ conn[c] = "token"
    /\ conn' = [conn EXCEPT ![c] = "waiting"]
    /\ line' = [line EXCEPT ![c] = "down"]
    /\ socket' = c
    /\ UNCHANGED <<connected, toolCall>>

-----------------------------------------------------------------------------
(* Events of a socket *)

SellerConnects(c) ==
    /\ line[c] = "down"
    /\ line' = [line EXCEPT ![c] = "up"]
    /\ connected' = TRUE
    /\ UNCHANGED <<conn, socket, toolCall>>

\* 'connect_error' and 'ws:error' only reject; socket.io goes on trying, unless
\* it is the relay that refuses the socket.
SellerRefused(c) ==
    /\ conn[c] = "waiting" /\ line[c] # "off"
    /\ conn' = [conn EXCEPT ![c] = "failed"]
    /\ \/ UNCHANGED line
       \/ line[c] = "down" /\ line' = [line EXCEPT ![c] = "off"]
    /\ UNCHANGED <<socket, connected, toolCall>>

\* Status 'active': the buyer is there.
BecomesActive(c) ==
    /\ conn[c] = "waiting" /\ line[c] = "up"
    /\ conn' = [conn EXCEPT ![c] = "ok"]
    /\ UNCHANGED <<line, socket, connected, toolCall>>

\* Status 'aborted' or 'completed'.
SessionOver(c) ==
    /\ line[c] = "up"
    /\ connected' = FALSE
    /\ UNCHANGED <<conn, line, socket, toolCall>>

\* 'disconnect': socket.io reconnects the socket if its transport was lost, not
\* if the relay ended it.
SellerLinkLost(c) ==
    /\ line[c] = "up"
    /\ \E l \in {"down", "off"} : line' = [line EXCEPT ![c] = l]
    /\ connected' = FALSE
    /\ UNCHANGED <<conn, socket, toolCall>>

\* socket.io gives up a socket that stays down, or the relay refuses it.  The
\* handlers of 'reconnect_attempt' (MAX_RECONNECT_CYCLES) and 'reconnect' never
\* run: they are on the Socket, and these are events of its Manager.
SellerGivesUp(c) ==
    /\ line[c] = "down" /\ conn[c] # "waiting"
    /\ line' = [line EXCEPT ![c] = "off"]
    /\ UNCHANGED <<conn, socket, connected, toolCall>>

-----------------------------------------------------------------------------
(* disconnect() and the five-minute timer *)

Close ==
    /\ toolCall' = [r \in Reqs |-> IF toolCall[r] = "pending" THEN "closed" ELSE toolCall[r]]
    /\ line' = [c \in Dials |-> IF c = socket THEN "off" ELSE line[c]]
    /\ socket' = NoSocket
    /\ connected' = FALSE

Disconnect == Close /\ UNCHANGED conn

\* The timer is not cleared by disconnect(): it fires for any unsettled
\* connect() and disconnects whatever the client holds by then.
ActiveTimeout(c) ==
    /\ conn[c] = "waiting"
    /\ conn' = [conn EXCEPT ![c] = "failed"]
    /\ Close

-----------------------------------------------------------------------------
(* Tool calls *)

CanCall == socket # NoSocket /\ connected

SendToolCall(r) ==
    /\ toolCall[r] = "idle" /\ CanCall
    /\ toolCall' = [toolCall EXCEPT ![r] = "pending"]
    /\ UNCHANGED <<conn, line, socket, connected>>

ToolTimeout(r) ==
    /\ toolCall[r] = "pending"
    /\ toolCall' = [toolCall EXCEPT ![r] = "expired"]
    /\ UNCHANGED <<conn, line, socket, connected>>

\* Mutant: the success of the result is not looked at.
ResultArrives_AnyResult(r, success) ==
    /\ SellerHears
    /\ toolCall' = [toolCall EXCEPT ![r] = IF @ = "pending" THEN "resolved" ELSE @]
    /\ UNCHANGED <<conn, line, socket, connected>>

\* 'mcp:result': settles the call of that id if it still waits.
ResultArrives(r, success) ==
    /\ SellerHears
    /\ toolCall' = [toolCall EXCEPT ![r] =
         IF @ # "pending" THEN @ ELSE IF success THEN "resolved" ELSE "refused"]
    /\ UNCHANGED <<conn, line, socket, connected>>
=============================================================================
