------------------------------ MODULE Workspace -------------------------------
(***************************************************************************)
(* Seller and buyer of one workspace over the platform's relay: composes   *)
(* WorkspaceClient and BuyerWorkspace.  The relay (external) passes on     *)
(* tool calls and results in any order, each at most once; one that is lost *)
(* is one that never arrives.                                              *)
(***************************************************************************)
EXTENDS WorkspaceClient, BuyerWorkspace

VARIABLES
    toBuyer,   \* tool calls on their way
    toSeller   \* results on their way: <<call, success>>

wireVars == <<toBuyer, toSeller>>
workspaceVars == <<dialVars, buyerVars, wireVars>>

WorkspaceTypeOK ==
    /\ SellerTypeOK
    /\ BuyerTypeOK
    /\ toBuyer \subseteq Reqs
    /\ toSeller \subseteq Reqs \X BOOLEAN

WorkspaceInit == SellerInit /\ BuyerInit /\ toBuyer = {} /\ toSeller = {}

-----------------------------------------------------------------------------
(* Steps of one side alone *)

SellerStep(c) ==
    /\ \/ Connect(c) \/ SellerTokenFails(c) \/ SellerTokenArrives(c)
       \/ SellerConnects(c) \/ SellerRefused(c) \/ SessionOver(c)
       \/ BecomesActive(c) /\ blink = "up"
       \/ SellerLinkLost(c) \/ SellerGivesUp(c) \/ ActiveTimeout(c)
    /\ UNCHANGED <<buyerVars, wireVars>>

SellerCloses == socket # NoSocket /\ Disconnect /\ UNCHANGED <<buyerVars, wireVars>>

CallExpires(r) == ToolTimeout(r) /\ UNCHANGED <<buyerVars, wireVars>>

BuyerStep ==
    /\ \/ ConnectWorkspace \/ UidFails \/ UidArrives
       \/ BuyerConnects \/ BuyerRefused \/ BuyerLinkLost \/ WorkspaceOver
       \/ BuyerAbandons \/ BuyerTimeout \/ EndSession
    /\ UNCHANGED <<dialVars, wireVars>>

-----------------------------------------------------------------------------
(* Tool calls over the relay *)

\* The call is emitted on the socket the client holds; a dead one loses it.
Call(r) ==
    /\ SendToolCall(r)
    /\ toBuyer' = IF line[socket] = "off" THEN toBuyer ELSE toBuyer \cup {r}
    /\ UNCHANGED <<buyerVars, toSeller>>

\* Every path that settles a call on the buyer's side ends in sendResult().
SendResult(r) ==
    toSeller' = IF handling'[r] \in {"done", "refused"} /\ CanAnswer
                THEN toSeller \cup {<<r, handling'[r] = "done">>}
                ELSE toSeller

CallArrives(r) ==
    /\ r \in toBuyer
    /\ HandleCall(r)
    /\ SendResult(r)
    /\ toBuyer' = toBuyer \ {r}
    /\ UNCHANGED dialVars

GateAnswers(r) ==
    /\ Approve(r) \/ Deny(r) \/ GateThrows(r)
    /\ SendResult(r)
    /\ UNCHANGED <<dialVars, toBuyer>>

Result(r, success) ==
    /\ <<r, success>> \in toSeller
    /\ ResultArrives(r, success)
    /\ toSeller' = toSeller \ {<<r, success>>}
    /\ UNCHANGED <<buyerVars, toBuyer>>

WorkspaceNext ==
    \/ \E c \in Dials : SellerStep(c)
    \/ \E r \in Reqs : Call(r) \/ CallExpires(r) \/ CallArrives(r) \/ GateAnswers(r)
    \/ \E r \in Reqs, success \in BOOLEAN : Result(r, success)
    \/ SellerCloses \/ BuyerStep

WorkspaceSpec == WorkspaceInit /\ [][WorkspaceNext]_workspaceVars

-----------------------------------------------------------------------------
(* Properties *)

Executed == {r \in Reqs : handling[r] = "done"}

\* A tool call that resolves was executed by the buyer: results are matched to
\* calls by id, and a late one cannot settle another call.
ResolvedWasDone ==
    \A r \in Reqs : toolCall[r] = "resolved" => r \in Executed

\* A tool call the seller sees refused was not executed: no path of
\* handleMcpCall() answers with an error after the file was touched.
RefusedWasNotDone ==
    \A r \in Reqs : toolCall[r] = "refused" \/ <<r, FALSE>> \in toSeller => r \notin Executed

\* No file on the exclusion list is moved and no write happens without the
\* permission, whichever calls are waiting for the write gate.
OnlyGranted ==
    Executed \subseteq (Reqs \ exclusions) \ (IF mayWrite THEN {} ELSE Writes)

\* The seller believes of a tool call what happened in the buyer's directory, and
\* only what was granted happened there, over timeouts, reconnections, repeated
\* sessions and the order results arrive in (workspace/client.ts sendToolCall,
\* buyer/workspace.ts handleMcpCall), on well-typed states.
CallsAreTrue == WorkspaceTypeOK /\ ResolvedWasDone /\ RefusedWasNotDone /\ OnlyGranted

\* The transfer limit binds when a call is let in: what moves past it is a write
\* that was already at the gate (buyer/workspace.ts:347, counted after the await).
LimitHolds ==
    [][\A r \in Reqs :
         handling[r] # "done" /\ handling'[r] = "done"
           => transferred <= MaxTransfer \/ handling[r] = "asking"]_workspaceVars

\* isConnected never outlives the last connection, although sockets that earlier
\* connect() calls left behind write the same flag.
ConnectedIsReal == connected => SellerHears

\* isConnected and the keepalive interval of the buyer live only as long as its
\* socket does, whether the relay, a timer, the session or a drop ends it.
ServingIsReal == (serving \/ keepalive) => blink = "up"

\* Both flags, of workspace/client.ts and buyer/workspace.ts: neither side takes a
\* socket for connected that is not.
FlagsAreReal == ConnectedIsReal /\ ServingIsReal

\* "Timeout - if buyer doesn't connect within 5 minutes" (workspace/client.ts:337):
\* the timer of a connect() closes only the socket of that connect().
TimeoutClosesOwn ==
    [][\A c \in Dials :
         conn[c] = "waiting" /\ conn'[c] = "failed"
           => \A d \in Dials \ {c} : line'[d] = line[d]]_workspaceVars

\* "Disconnect workspace first" (buyer/session.ts:233): a session that has ended
\* serves no workspace.
EndClosesWorkspace == session = "ended" => blink # "up"
=============================================================================
