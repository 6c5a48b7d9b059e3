----------------------------- MODULE AgentChat ------------------------------
(***************************************************************************)
(* The agent's side of chat (src/src/agent.ts): connectChat() replaces the *)
(* agent's ChatClient, waits for its connection and joins the rooms of the *)
(* jobs it finds active in two requests; stop() drops the client; the job  *)
(* loop joins the room of a job it accepts.  Each connectChat() call c     *)
(* creates one client, named after it.  Composes ChatClient.               *)
(***************************************************************************)
EXTENDS ChatClient

VARIABLES
    chatClient,  \* the agent's current client
    pc,          \* pc[c]: where the connectChat() call is
    listed,      \* listed[c]: the jobs its requests have returned
    status,      \* status[j]: the platform's view of a job
    activeAt     \* auxiliary: the jobs active when connect() resolved

agentVars == <<chatClient, pc, listed, status, activeAt>>
vars == <<chatVars, agentVars>>

Active == {"accepted", "in_progress"}
Statuses == {"requested", "accepted", "in_progress", "closed"}
Steps == {"idle", "connecting", "first", "second", "done", "failed"}
ActiveJobs == {j \in Jobs : status[j] \in Active}

TypeOK ==
    /\ ChatTypeOK
    /\ chatClient \in Clients \cup {None}
    /\ pc \in [Clients -> Steps]
    /\ listed \in [Clients -> SUBSET Jobs]
    /\ status \in [Jobs -> Statuses]
    /\ activeAt \in [Clients -> SUBSET Jobs]

Init ==
    /\ ChatInit
    /\ chatClient = None
    /\ pc = [c \in Clients |-> "idle"]
    /\ listed = [c \in Clients |-> {}]
    /\ status = [j \in Jobs |-> "requested"]
    /\ activeAt = [c \in Clients |-> {}]

-----------------------------------------------------------------------------
(* The agent *)

\* connectChat() up to the await of connect().
ConnectChat(c) ==
    /\ pc[c] = "idle"
    /\ Open({chatClient} \ {None}, c)
    /\ chatClient' = c
    /\ pc' = [pc EXCEPT ![c] = "connecting"]
    /\ UNCHANGED <<listed, status, activeAt>>

\* connect() has settled: the first request goes out, or connectChat() throws.
ConnectSettles(c) ==
    /\ pc[c] = "connecting"
    /\ \/ /\ phase[c] = "ok"
          /\ pc' = [pc EXCEPT ![c] = "first"]
          /\ activeAt' = [activeAt EXCEPT ![c] = ActiveJobs]
       \/ /\ phase[c] = "failed"
          /\ pc' = [pc EXCEPT ![c] = "failed"]
          /\ UNCHANGED activeAt
    /\ UNCHANGED <<chatVars, chatClient, listed, status>>

\* Mutant: the requests in the other order.
ListOrder_Swapped == <<"in_progress", "accepted">>

\* The statuses asked for by the two requests of getMyJobs().
ListOrder == <<"accepted", "in_progress">>

\* The first request answers, and the next one goes out.
ListAccepted(c) ==
    /\ pc[c] = "first"
    /\ listed' = [listed EXCEPT ![c] = {j \in Jobs : status[j] = ListOrder[1]}]
    /\ pc' = [pc EXCEPT ![c] = "second"]
    /\ UNCHANGED <<chatVars, chatClient, status, activeAt>>

\* The second request answers, and the rooms of both lists are joined on the
\* agent's client of that moment; without one the loop throws into the catch.
ListInProgress(c) ==
    /\ pc[c] = "second"
    /\ LET all == listed[c] \cup {j \in Jobs : status[j] = ListOrder[2]}
       IN  /\ listed' = [listed EXCEPT ![c] = {}]
           /\ IF chatClient # None
              THEN JoinAll(chatClient, all)
              ELSE UNCHANGED chatVars
    /\ pc' = [pc EXCEPT ![c] = "done"]
    /\ UNCHANGED <<chatClient, status, activeAt>>

\* Either request fails: the catch only logs.
ListFails(c) ==
    /\ pc[c] \in {"first", "second"}
    /\ pc' = [pc EXCEPT ![c] = "failed"]
    /\ listed' = [listed EXCEPT ![c] = {}]
    /\ activeAt' = [activeAt EXCEPT ![c] = {}]
    /\ UNCHANGED <<chatVars, chatClient, status>>

\* joinJobChat(), and the job loop after an accept, which asks isConnected.
JoinJobChat(j) ==
    /\ chatClient # None /\ status[j] \in Active
    /\ j \notin joinedRooms[chatClient]
    /\ JoinAll(chatClient, {j})
    /\ UNCHANGED agentVars

AcceptAndJoin(j) ==
    /\ status[j] = "requested"
    /\ status' = [status EXCEPT ![j] = "accepted"]
    /\ IF chatClient # None /\ Connected(chatClient)
       THEN JoinAll(chatClient, {j})
       ELSE UNCHANGED chatVars
    /\ UNCHANGED <<chatClient, pc, listed, activeAt>>

\* leaveJob() of the client, called by the program.
LeaveJobChat(j) ==
    /\ chatClient # None /\ j \in joinedRooms[chatClient]
    /\ status[j] = "closed"
    /\ LeaveJob(chatClient, j)
    /\ UNCHANGED agentVars

\* The chat part of stop().
StopChat ==
    /\ chatClient # None
    /\ CloseAll({chatClient})
    /\ chatClient' = None
    /\ UNCHANGED <<pc, listed, status, activeAt>>

-----------------------------------------------------------------------------
(* The platform and the network *)

JobMoves(j) ==
    /\ status' = [status EXCEPT ![j] =
         CASE @ = "accepted" -> "in_progress" [] @ = "in_progress" -> "closed" [] OTHER -> @]
    /\ status' # status
    /\ UNCHANGED <<chatVars, chatClient, pc, listed, activeAt>>

Drop(c) == LinkLost(c) /\ UNCHANGED agentVars

Runtime(c) == ChatRuntime(c) /\ UNCHANGED agentVars

\* The continuation of a settled await runs before any other event.
Resuming == \E c \in Clients : pc[c] = "connecting" /\ phase[c] \in {"ok", "failed"}

Next ==
    \/ \E c \in Clients : ConnectSettles(c)
    \/ /\ ~Resuming
       /\ \/ \E c \in Clients : \/ ConnectChat(c) \/ ListAccepted(c) \/ ListInProgress(c)
                               \/ ListFails(c) \/ Runtime(c) \/ Drop(c)
          \/ \E j \in Jobs : \/ JoinJobChat(j) \/ AcceptAndJoin(j)
                            \/ LeaveJobChat(j) \/ JobMoves(j)
          \/ StopChat

Spec == Init /\ [][Next]_vars

\* The event loop fires timers and delivers answers; requests have time limits;
\* socket.io reconnects a lost socket or gives it up after reconnectionAttempts.
Fairness ==
    \A c \in Clients : WF_vars(~Resuming /\ Runtime(c)) /\ WF_vars(ConnectSettles(c))

FairSpec == Spec /\ Fairness

-----------------------------------------------------------------------------
(* Properties *)

\* A client the agent has dropped is in no room, though its socket may still come
\* up (connect() was under way); the one it holds is in no room
\* it has not joined or has left.
ZombiesAreDeaf ==
    \A c \in Clients : rooms[c] # {} => c = chatClient /\ rooms[c] \subseteq joinedRooms[c]

\* As long as the connection that resolved connect() lasts, the platform has the
\* client in every room it joined, in whatever order joins, accepts and the
\* connection came.
FirstConnectionComplete ==
    \A c \in Clients : link[c] = "up" => joinedRooms[c] \subseteq rooms[c]

\* The platform's rooms agree with the client's, so a message of a job is handled
\* once: over all the clients the agent ever made, with what a disconnect() during
\* a connect() leaves behind (chat/client.ts disconnect and connect), on well-typed
\* states.
RoomsAgree == TypeOK /\ ZombiesAreDeaf /\ FirstConnectionComplete

\* Asking for accepted jobs before jobs in progress leaves no gap: a job active
\* when connect() resolved and still active when connectChat() has joined rooms
\* is joined, even if it moved between the two requests.
ActiveJoined ==
    \A c \in Clients :
      pc[c] = "done" /\ chatClient = c
        => activeAt[c] \cap ActiveJobs \subseteq joinedRooms[c]

\* The comment "Re-join any rooms we were in" (chat/client.ts:180), read of every
\* connection; socket.io's own reconnection does not pass there.
RoomsRejoined ==
    \A c \in Clients : Connected(c) => joinedRooms[c] \subseteq rooms[c]

\* connectChat() returns or throws, whatever becomes of its socket: the timer
\* rejects a connect() whose socket was disconnected under it.
ConnectChatSettles ==
    \A c \in Clients : pc[c] = "connecting" ~> pc[c] # "connecting"

\* The comments "Callback invoked when auto-reconnect fails permanently"
\* (chat/client.ts:85) and "Surface chat reconnect failures so callers can handle
\* silent death" (agent.ts:1083): a connection that was lost comes back, or the
\* program is told, unless the agent drops the client meanwhile.
LossNotSilent ==
    \A c \in Clients : link[c] = "lost" ~> Connected(c) \/ Reported(c) \/ chatClient # c
=============================================================================
