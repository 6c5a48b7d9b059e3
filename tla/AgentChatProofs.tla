---------------------------- MODULE AgentChatProofs ----------------------------
(***************************************************************************)
(* What the agent's chat promises, for any number of connectChat() calls,  *)
(* jobs, losses and reconnections.                                         *)
(***************************************************************************)
EXTENDS AgentChat, TLAPS

\* Where connect() is says which sockets there can be: none before a token came,
\* an unconnected one until connect() settles.
PhaseOfLink ==
    \A c \in Clients :
        /\ phase[c] \in {"idle", "token"} => link[c] = "off"
        /\ phase[c] = "opening" => link[c] \in {"down", "off"}

\* The platform has only a connected socket in rooms, and only the agent's
\* client remembers rooms to join.
RoomsNeedLink == \A c \in Clients : rooms[c] # {} => Connected(c)
OnlyCurrentJoins == \A c \in Clients : joinedRooms[c] # {} => c = chatClient

\* What was active when connect() resolved never becomes new again; once the
\* accepted jobs were asked for, it is among them or has moved on.
ActiveWasAccepted == \A c \in Clients : \A j \in activeAt[c] : status[j] # "requested"
NoGap ==
    \A c \in Clients :
        pc[c] = "second" => \A j \in activeAt[c] : status[j] = "accepted" => j \in listed[c]

IInv == /\ RoomsAgree /\ ActiveJoined
        /\ PhaseOfLink /\ RoomsNeedLink /\ OnlyCurrentJoins
        /\ ActiveWasAccepted /\ NoGap

LEMMA InitInv == Init => IInv
<1> SUFFICES ASSUME Init PROVE IInv OBVIOUS
<1> USE ChatAssumption DEF Init, ChatInit
<1>1. TypeOK BY DEF TypeOK, ChatTypeOK, Phases, Links, Steps, Statuses
<1>2. ZombiesAreDeaf /\ FirstConnectionComplete /\ ActiveJoined
    BY DEF ZombiesAreDeaf, FirstConnectionComplete, ActiveJoined
<1>3. PhaseOfLink
    BY DEF PhaseOfLink
<1>4. RoomsNeedLink /\ OnlyCurrentJoins /\ ActiveWasAccepted /\ NoGap
    BY DEF RoomsNeedLink, OnlyCurrentJoins, ActiveWasAccepted, NoGap
<1> QED BY <1>1, <1>2, <1>3, <1>4 DEF IInv, RoomsAgree

\* The parts of IInv that speak of the agent's jobs keep when neither the agent
\* nor the joined rooms change.
LEMMA AgentKept ==
    ASSUME IInv, UNCHANGED <<agentVars, joinedRooms>>
    PROVE  ActiveJoined' /\ ActiveWasAccepted' /\ NoGap'
BY DEF IInv, agentVars, ActiveJoined, ActiveWasAccepted, NoGap, ActiveJobs

\* The timers, the platform's answers and socket.io.
LEMMA RuntimeInv ==
    ASSUME IInv, UNCHANGED agentVars, NEW i \in Clients, ChatRuntime(i) \/ LinkLost(i)
    PROVE  IInv'
<1> USE ChatAssumption
<1> DEFINE Sockets == /\ ChatTypeOK' /\ ZombiesAreDeaf' /\ FirstConnectionComplete'
                      /\ PhaseOfLink' /\ RoomsNeedLink'
<1>0. /\ ChatTypeOK /\ ZombiesAreDeaf /\ FirstConnectionComplete /\ OnlyCurrentJoins
      /\ PhaseOfLink /\ RoomsNeedLink
    BY DEF IInv, RoomsAgree, TypeOK
<1>a. chatClient' = chatClient /\ joinedRooms' = joinedRooms
    BY DEF agentVars, ChatRuntime, TokenArrives, TokenFails, SocketConnects,
           SocketRefused, ConnectTimeout, SocketGivesUp, LinkLost
<1> USE <1>0, <1>a
      DEF ChatTypeOK, ZombiesAreDeaf, FirstConnectionComplete, OnlyCurrentJoins,
          PhaseOfLink, RoomsNeedLink, Connected, Phases, Links
<1>2. ASSUME TokenArrives(i) PROVE Sockets BY <1>2 DEF TokenArrives
<1>3. ASSUME TokenFails(i) PROVE Sockets BY <1>3 DEF TokenFails, Settle
<1>4. ASSUME SocketConnects(i) PROVE Sockets BY <1>4 DEF SocketConnects, Settle
<1>5. ASSUME SocketRefused(i) PROVE Sockets BY <1>5 DEF SocketRefused, Settle
<1>6. ASSUME ConnectTimeout(i) PROVE Sockets BY <1>6 DEF ConnectTimeout, Settle
<1>7. ASSUME SocketGivesUp(i) PROVE Sockets BY <1>7 DEF SocketGivesUp
<1>8. ASSUME LinkLost(i) PROVE Sockets BY <1>8 DEF LinkLost
<1>b. Sockets BY <1>2, <1>3, <1>4, <1>5, <1>6, <1>7, <1>8 DEF ChatRuntime
<1> QED BY <1>b, AgentKept DEF IInv, RoomsAgree, TypeOK, agentVars

\* connectChat() replaces the client, stop() drops it.
LEMMA ReplaceInv ==
    ASSUME IInv, (\E c \in Clients : ConnectChat(c)) \/ StopChat
    PROVE  IInv'
<1> USE ChatAssumption DEF Release
<1>0. /\ ChatTypeOK /\ ZombiesAreDeaf /\ FirstConnectionComplete /\ OnlyCurrentJoins
      /\ PhaseOfLink /\ RoomsNeedLink /\ TypeOK
      /\ ActiveJoined /\ ActiveWasAccepted /\ NoGap
    BY DEF IInv, RoomsAgree, TypeOK
<1>1. ASSUME NEW c \in Clients, ConnectChat(c) PROVE IInv'
  <2> USE <1>0, <1>1 DEF ConnectChat, Open
  <2>1. \A k \in Clients : rooms'[k] = {} /\ joinedRooms'[k] = {}
    BY DEF ZombiesAreDeaf, OnlyCurrentJoins, ChatTypeOK
  <2>2. TypeOK' BY DEF TypeOK, ChatTypeOK, Phases, Links, Steps, Statuses
  <2>3. /\ ZombiesAreDeaf' /\ FirstConnectionComplete' /\ RoomsNeedLink' /\ OnlyCurrentJoins'
    BY <2>1 DEF ZombiesAreDeaf, FirstConnectionComplete, RoomsNeedLink, OnlyCurrentJoins
  <2>4. PhaseOfLink'
    BY DEF PhaseOfLink, ChatTypeOK
  <2>5. ActiveJoined' /\ ActiveWasAccepted' /\ NoGap'
    BY DEF ActiveJoined, ActiveWasAccepted, NoGap, TypeOK
  <2> QED BY <2>2, <2>3, <2>4, <2>5 DEF IInv, RoomsAgree
<1>2. ASSUME StopChat PROVE IInv'
  <2> USE <1>0, <1>2 DEF StopChat, CloseAll
  <2>1. \A k \in Clients : rooms'[k] = {} /\ joinedRooms'[k] = {}
    BY DEF ZombiesAreDeaf, OnlyCurrentJoins, ChatTypeOK
  <2>2. TypeOK' BY DEF TypeOK, ChatTypeOK, Phases, Links, Steps, Statuses
  <2>3. /\ ZombiesAreDeaf' /\ FirstConnectionComplete' /\ RoomsNeedLink' /\ OnlyCurrentJoins'
    BY <2>1 DEF ZombiesAreDeaf, FirstConnectionComplete, RoomsNeedLink, OnlyCurrentJoins
  <2>4. PhaseOfLink'
    BY DEF PhaseOfLink, ChatTypeOK
  <2>5. ActiveJoined' /\ ActiveWasAccepted' /\ NoGap'
    BY DEF ActiveJoined, ActiveWasAccepted, NoGap, TypeOK
  <2> QED BY <2>2, <2>3, <2>4, <2>5 DEF IInv, RoomsAgree
<1> QED BY <1>1, <1>2

\* Joining and leaving keep what is known of sockets and rooms.
LEMMA JoinKeeps ==
    ASSUME IInv, chatClient # None, chatClient' = chatClient, NEW js \in SUBSET Jobs,
           JoinAll(chatClient, js)
    PROVE  /\ ChatTypeOK' /\ ZombiesAreDeaf' /\ FirstConnectionComplete' /\ OnlyCurrentJoins'
           /\ PhaseOfLink' /\ RoomsNeedLink'
           /\ \A c \in Clients : joinedRooms[c] \subseteq joinedRooms'[c]
           /\ js \subseteq joinedRooms'[chatClient]
BY DEF IInv, RoomsAgree, TypeOK, ChatTypeOK, JoinAll, ZombiesAreDeaf, FirstConnectionComplete,
       OnlyCurrentJoins, PhaseOfLink, RoomsNeedLink, Connected

\* connectChat() after the connection, and its requests.
LEMMA ConnectInv ==
    ASSUME IInv, NEW c \in Clients, ConnectSettles(c) \/ ListAccepted(c) \/ ListFails(c)
    PROVE  IInv'
<1> USE DEF IInv, RoomsAgree, TypeOK
<1>0. UNCHANGED <<chatVars, chatClient, status>>
    BY DEF ConnectSettles, ListAccepted, ListFails
<1>1. /\ ChatTypeOK' /\ ZombiesAreDeaf' /\ FirstConnectionComplete' /\ OnlyCurrentJoins'
      /\ PhaseOfLink' /\ RoomsNeedLink'
    BY <1>0 DEF chatVars, ChatTypeOK, ZombiesAreDeaf, FirstConnectionComplete, OnlyCurrentJoins,
                PhaseOfLink, RoomsNeedLink, Connected
<1>2. TypeOK'
    BY <1>0, <1>1 DEF ConnectSettles, ListAccepted, ListFails, Steps, ActiveJobs
<1>3. ActiveJoined' /\ ActiveWasAccepted' /\ NoGap'
    BY <1>0 DEF ConnectSettles, ListAccepted, ListFails, chatVars, ActiveJoined, ActiveWasAccepted,
                NoGap, ActiveJobs, Active, Statuses, ListOrder, Steps
<1> QED BY <1>1, <1>2, <1>3

LEMMA ListInv == ASSUME IInv, NEW c \in Clients, ListInProgress(c) PROVE IInv'
<1> DEFINE all == listed[c] \cup {j \in Jobs : status[j] = "in_progress"}
<1>0. /\ IF chatClient # None THEN JoinAll(chatClient, all) ELSE UNCHANGED chatVars
      /\ chatClient' = chatClient /\ status' = status /\ activeAt' = activeAt
      /\ pc[c] = "second" /\ pc' = [pc EXCEPT ![c] = "done"] /\ listed' = [listed EXCEPT ![c] = {}]
      /\ all \subseteq Jobs
    BY DEF ListInProgress, ListOrder, IInv, RoomsAgree, TypeOK
<1>1. /\ ChatTypeOK' /\ ZombiesAreDeaf' /\ FirstConnectionComplete' /\ OnlyCurrentJoins'
      /\ PhaseOfLink' /\ RoomsNeedLink'
      /\ \A k \in Clients : joinedRooms[k] \subseteq joinedRooms'[k]
      /\ chatClient # None => all \subseteq joinedRooms'[chatClient]
  <2>1. CASE chatClient # None BY <2>1, <1>0, JoinKeeps
  <2>2. CASE chatClient = None
    BY <2>2, <1>0
       DEF IInv, RoomsAgree, TypeOK, chatVars, ChatTypeOK, ZombiesAreDeaf, OnlyCurrentJoins,
           FirstConnectionComplete, PhaseOfLink, RoomsNeedLink,
           Connected
  <2> QED BY <2>1, <2>2
<1>2. TypeOK' BY <1>0, <1>1 DEF IInv, RoomsAgree, TypeOK, Steps
<1>3. ActiveWasAccepted' /\ NoGap'
    BY <1>0 DEF IInv, RoomsAgree, TypeOK, ActiveWasAccepted, NoGap
<1>4. ActiveJoined'
  <2> SUFFICES ASSUME NEW k \in Clients, pc'[k] = "done", chatClient' = k,
                      NEW j \in activeAt[k], j \in Jobs, status[j] \in Active
               PROVE  j \in joinedRooms'[k]
    BY <1>0 DEF ActiveJoined, ActiveJobs
  <2>1. CASE k = c
    <3>1. j \in all BY <2>1, <1>0 DEF IInv, NoGap, Active
    <3> QED BY <3>1, <2>1, <1>0, <1>1, ChatAssumption
  <2>2. CASE k # c
    BY <2>2, <1>0, <1>1 DEF IInv, RoomsAgree, TypeOK, ActiveJoined, ActiveJobs
  <2> QED BY <2>1, <2>2
<1> QED BY <1>1, <1>2, <1>3, <1>4 DEF IInv, RoomsAgree

\* The jobs: joined, accepted, left, moved by the platform.
LEMMA JobInv ==
    ASSUME IInv, NEW j \in Jobs,
           \/ JoinJobChat(j)
           \/ AcceptAndJoin(j)
           \/ LeaveJobChat(j)
           \/ JobMoves(j)
    PROVE  IInv'
<1> DEFINE Sockets == /\ ChatTypeOK' /\ ZombiesAreDeaf' /\ FirstConnectionComplete'
                      /\ OnlyCurrentJoins' /\ PhaseOfLink'
                      /\ RoomsNeedLink'
           Grow == \A k \in Clients : joinedRooms[k] \subseteq joinedRooms'[k]
<1>0. /\ chatClient' = chatClient /\ pc' = pc /\ listed' = listed /\ activeAt' = activeAt
      /\ TypeOK /\ ActiveJoined /\ ActiveWasAccepted /\ NoGap
    BY DEF IInv, RoomsAgree, JoinJobChat, AcceptAndJoin, LeaveJobChat, JobMoves, agentVars
<1>1. ASSUME UNCHANGED chatVars PROVE Sockets /\ Grow
    BY <1>0, <1>1
       DEF IInv, RoomsAgree, TypeOK, chatVars, ChatTypeOK, ZombiesAreDeaf, OnlyCurrentJoins,
           FirstConnectionComplete, PhaseOfLink, RoomsNeedLink,
           Connected
<1>2. ASSUME chatClient # None, JoinAll(chatClient, {j}) PROVE Sockets /\ Grow
    BY <1>0, <1>2, JoinKeeps
<1>3. CASE JoinJobChat(j)
  <2>1. Sockets /\ Grow /\ status' = status BY <1>2, <1>3 DEF JoinJobChat, agentVars
  <2>2. ActiveJoined' /\ ActiveWasAccepted' /\ NoGap'
    BY <2>1, <1>0 DEF ActiveJoined, ActiveWasAccepted, NoGap, ActiveJobs
  <2> QED BY <2>1, <2>2, <1>0 DEF IInv, RoomsAgree, TypeOK
<1>4. CASE AcceptAndJoin(j)
  <2>1. Sockets /\ Grow BY <1>1, <1>2, <1>4 DEF AcceptAndJoin
  <2>2. status[j] = "requested" /\ status' = [status EXCEPT ![j] = "accepted"]
    BY <1>4 DEF AcceptAndJoin
  <2>3. \A k \in Clients : j \notin activeAt[k] BY <2>2, <1>0 DEF ActiveWasAccepted
  <2>4. ActiveJoined' /\ ActiveWasAccepted' /\ NoGap'
    BY <2>1, <2>2, <2>3, <1>0
       DEF TypeOK, ActiveJoined, ActiveWasAccepted, NoGap, ActiveJobs
  <2> QED BY <2>1, <2>2, <2>4, <1>0 DEF IInv, RoomsAgree, TypeOK, Statuses
<1>5. CASE LeaveJobChat(j)
  <2>1. /\ chatClient \in Clients /\ status[j] = "closed" /\ status' = status
        /\ LeaveJob(chatClient, j)
    BY <1>5, <1>0 DEF LeaveJobChat, agentVars, TypeOK
  <2>2. Sockets
    BY <2>1, <1>0
       DEF IInv, RoomsAgree, TypeOK, LeaveJob, ChatTypeOK, ZombiesAreDeaf, OnlyCurrentJoins,
           FirstConnectionComplete, PhaseOfLink, RoomsNeedLink,
           Connected
  <2>3. \A k \in Clients : joinedRooms[k] \subseteq joinedRooms'[k] \cup {j}
    BY <2>1, <1>0 DEF LeaveJob, TypeOK, ChatTypeOK
  <2>4. ActiveJoined' /\ ActiveWasAccepted' /\ NoGap'
    BY <2>1, <2>3, <1>0 DEF ActiveJoined, ActiveWasAccepted, NoGap, ActiveJobs, Active
  <2> QED BY <2>1, <2>2, <2>4, <1>0 DEF IInv, RoomsAgree, TypeOK
<1>6. CASE JobMoves(j)
  <2>1. Sockets /\ Grow BY <1>1, <1>6 DEF JobMoves
  <2>2. \/ status[j] = "accepted" /\ status' = [status EXCEPT ![j] = "in_progress"]
        \/ status[j] = "in_progress" /\ status' = [status EXCEPT ![j] = "closed"]
    BY <1>6, <1>0 DEF JobMoves, TypeOK
  <2>3. ActiveJoined' /\ ActiveWasAccepted' /\ NoGap'
    BY <2>1, <2>2, <1>0 DEF TypeOK, ActiveJoined, ActiveWasAccepted, NoGap, ActiveJobs, Active
  <2> QED BY <2>1, <2>2, <2>3, <1>0 DEF IInv, RoomsAgree, TypeOK, Statuses
<1> QED BY <1>3, <1>4, <1>5, <1>6

LEMMA StepInv == IInv /\ [Next]_vars => IInv'
<1> SUFFICES ASSUME IInv, [Next]_vars PROVE IInv' OBVIOUS
<1>1. CASE UNCHANGED vars
    BY <1>1
       DEF vars, chatVars, agentVars, IInv, RoomsAgree, TypeOK, ChatTypeOK, ZombiesAreDeaf,
           OnlyCurrentJoins, FirstConnectionComplete, PhaseOfLink, RoomsNeedLink, Connected,
           ActiveJoined, ActiveWasAccepted, NoGap, ActiveJobs
<1>2. CASE Next
    BY <1>2, RuntimeInv, ReplaceInv, ConnectInv, ListInv, JobInv DEF Next, Runtime, Drop
<1> QED BY <1>1, <1>2

LEMMA Inductive == Spec => []IInv
BY InitInv, StepInv, PTL DEF Spec

(***************************************************************************)
(* A message of a job is handled once: over all the clients the agent ever *)
(* made, whatever timers, tokens and sockets a disconnect() leaves behind, *)
(* only its current client is in a room, and only in rooms it has joined;  *)
(* its first connection has it in all of them (chat/client.ts).            *)
(***************************************************************************)
THEOREM RoomsRight == Spec => []RoomsAgree
<1>1. IInv => RoomsAgree BY DEF IInv
<1> QED BY <1>1, Inductive, PTL

(***************************************************************************)
(* The two requests of connectChat() leave no gap: a job active when       *)
(* connect() resolved and still active at the end is joined, for any jobs  *)
(* and whatever they do between the requests (agent.ts connectChat).       *)
(***************************************************************************)
THEOREM NoJobMissed == Spec => []ActiveJoined
<1>1. IInv => ActiveJoined BY DEF IInv
<1> QED BY <1>1, Inductive, PTL
================================================================================
