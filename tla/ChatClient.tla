----------------------------- MODULE ChatClient -----------------------------
(***************************************************************************)
(* ChatClient (src/src/chat/client.ts): socket.io connections to the       *)
(* platform and their job rooms.                                           *)
(*                                                                         *)
(* The program calls connect() once per instance i.  socket.io-client (4)  *)
(* reconnects a socket whose transport was lost, a bounded number of times; *)
(* it does not when the server disconnected or refused the socket.  When   *)
(* it is done trying, its Manager emits 'reconnect_failed' - the Socket,   *)
(* where client.ts:232 listens, does not: the cycles of fresh tokens that  *)
(* begin in that handler, and onReconnectFailed, never run.  So each       *)
(* instance has one connect() (phase) and one socket (link).               *)
(***************************************************************************)
EXTENDS Integers, FiniteSets

CONSTANTS
    Clients,      \* instances of the class
    Jobs,         \* jobs, each with a chat room
    None          \* null

ASSUME ChatAssumption == None \notin Clients

VARIABLES
    joinedRooms,  \* joinedRooms[i]: this.joinedRooms
    phase,        \* phase[i]: where connect() is
    link,         \* link[i]: the socket it created
    rooms         \* rooms[i]: the rooms the platform has that socket in

chatVars == <<joinedRooms, phase, link, rooms>>

\* "down": never connected yet.  "up": connected, and its first 'connect' has
\* resolved connect() and joined the rooms.  "lost": dropped, socket.io retries.
\* "back": connected by socket.io after a loss or after connect() rejected.
\* "off": nothing will connect it again, or no socket.
Links == {"down", "up", "lost", "back", "off"}
Phases == {"idle", "token", "opening", "ok", "failed"}

Connected(i) == link[i] \in {"up", "back"}

\* onReconnectFailed was called: only the handler of 'reconnect_failed' on the
\* Socket calls it, an event that no Socket emits.
Reported(i) == FALSE

ChatTypeOK ==
    /\ joinedRooms \in [Clients -> SUBSET Jobs]
    /\ phase \in [Clients -> Phases]
    /\ link \in [Clients -> Links]
    /\ rooms \in [Clients -> SUBSET Jobs]

ChatInit ==
    /\ joinedRooms = [i \in Clients |-> {}]
    /\ phase = [i \in Clients |-> "idle"]
    /\ link = [i \in Clients |-> "off"]
    /\ rooms = [i \in Clients |-> {}]

-----------------------------------------------------------------------------
(* disconnect() and connect() *)

\* disconnect() on each client of is, with their rooms; a connect() under way is
\* not cancelled.
Release(is) ==
    /\ link' = [i \in Clients |-> IF i \in is THEN "off" ELSE link[i]]
    /\ rooms' = [i \in Clients |-> IF i \in is THEN {} ELSE rooms[i]]
    /\ joinedRooms' = [i \in Clients |-> IF i \in is THEN {} ELSE joinedRooms[i]]

CloseAll(is) == Release(is) /\ UNCHANGED phase

\* The program disconnects the clients of old, creates client i, sets its
\* handlers and calls its connect(), which asks for a token.
Open(old, i) ==
    /\ phase[i] = "idle"
    /\ Release(old)
    /\ phase' = [phase EXCEPT ![i] = "token"]

\* The promise of connect() settles.
Settle(i, how) == phase' = [phase EXCEPT ![i] = how]

TokenFails(i) ==
    /\ phase[i] = "token"
    /\ Settle(i, "failed")
    /\ UNCHANGED <<joinedRooms, link, rooms>>

TokenArrives(i) ==
    /\ phase[i] = "token"
    /\ phase' = [phase EXCEPT ![i] = "opening"]
    /\ link' = [link EXCEPT ![i] = "down"]
    /\ UNCHANGED <<joinedRooms, rooms>>

\* Mutant: the rooms asked for before 'connect' are not joined there.
SocketConnects_NoJoin(i) ==
    /\ link[i] \in {"down", "lost"}
    /\ IF phase[i] = "opening"
       THEN Settle(i, "ok") /\ link' = [link EXCEPT ![i] = "up"]
       ELSE link' = [link EXCEPT ![i] = "back"] /\ UNCHANGED phase
    /\ UNCHANGED <<joinedRooms, rooms>>

\* 'connect': the rooms are joined only while connect() is unsettled.
SocketConnects(i) ==
    /\ link[i] \in {"down", "lost"}
    /\ \/ /\ phase[i] = "opening"
          /\ Settle(i, "ok")
          /\ link' = [link EXCEPT ![i] = "up"]
          /\ rooms' = [rooms EXCEPT ![i] = joinedRooms[i]]
       \/ /\ phase[i] # "opening"
          /\ link' = [link EXCEPT ![i] = "back"]
          /\ UNCHANGED <<phase, rooms>>
    /\ UNCHANGED joinedRooms

\* 'connect_error': connect() rejects; after a transport error socket.io keeps
\* trying, after a refusal by the server it does not.
SocketRefused(i) ==
    /\ phase[i] = "opening" /\ link[i] = "down"
    /\ Settle(i, "failed")
    /\ link' \in {link, [link EXCEPT ![i] = "off"]}
    /\ UNCHANGED <<joinedRooms, rooms>>

\* Mutant: the timer is cleared by disconnect().
ConnectTimeout_Cleared(i) ==
    /\ phase[i] = "opening" /\ link[i] # "off"
    /\ Settle(i, "failed")
    /\ link' = [link EXCEPT ![i] = "off"]
    /\ UNCHANGED <<joinedRooms, rooms>>

\* The ten-second timer, which also fires after disconnect().
ConnectTimeout(i) ==
    /\ phase[i] = "opening"
    /\ Settle(i, "failed")
    /\ link' = [link EXCEPT ![i] = "off"]
    /\ UNCHANGED <<joinedRooms, rooms>>

\* The transport drops, and socket.io retries; or the server disconnects, and it
\* does not.
LinkLost(i) ==
    /\ Connected(i)
    /\ link' \in {[link EXCEPT ![i] = "lost"], [link EXCEPT ![i] = "off"]}
    /\ rooms' = [rooms EXCEPT ![i] = {}]
    /\ UNCHANGED <<joinedRooms, phase>>

\* socket.io has used up reconnectionAttempts, or the server refused the socket
\* that came back; no handler of the client hears of it.
SocketGivesUp(i) ==
    /\ link[i] \in {"down", "lost"} /\ phase[i] # "opening"
    /\ link' = [link EXCEPT ![i] = "off"]
    /\ UNCHANGED <<joinedRooms, phase, rooms>>

\* What the timers, the platform's answers and socket.io do to a client.
ChatRuntime(i) ==
    \/ TokenArrives(i) \/ TokenFails(i) \/ SocketConnects(i) \/ SocketRefused(i)
    \/ ConnectTimeout(i) \/ SocketGivesUp(i)

-----------------------------------------------------------------------------
(* Rooms *)

\* joinJob() remembers the room and asks for it when connected.
JoinAll(i, js) ==
    /\ joinedRooms' = [joinedRooms EXCEPT ![i] = @ \cup js]
    /\ rooms' = [rooms EXCEPT ![i] = IF Connected(i) THEN @ \cup js ELSE @]
    /\ UNCHANGED <<phase, link>>

LeaveJob(i, j) ==
    /\ joinedRooms' = [joinedRooms EXCEPT ![i] = @ \ {j}]
    /\ rooms' = [rooms EXCEPT ![i] = IF Connected(i) THEN @ \ {j} ELSE @]
    /\ UNCHANGED <<phase, link>>
=============================================================================
