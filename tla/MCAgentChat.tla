---------------------------- MODULE MCAgentChat -----------------------------
(***************************************************************************)
(* Small instances of AgentChat for TLC.                                   *)
(***************************************************************************)
EXTENDS AgentChat

\* Two connectChat() calls: the second replaces the client of the first.
MCClients == {11, 12}
=============================================================================
