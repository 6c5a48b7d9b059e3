------------------------------ MODULE ToolCalls -------------------------------
(***************************************************************************)
(* The tool calls a seller makes on a buyer's workspace.                   *)
(***************************************************************************)
EXTENDS FiniteSets

CONSTANTS
    Reqs,     \* calls of sendToolCall(), each with its own id
    Writes    \* those whose tool is write_file; the others are read_file

ASSUME ToolAssumption == Writes \subseteq Reqs /\ IsFiniteSet(Reqs)
=============================================================================
