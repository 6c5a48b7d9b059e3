------------------------------ MODULE MCBuyer ------------------------------
(***************************************************************************)
(* Small instances, for TLC, of what surrounds a hire on the buyer's side: *)
(* the top-up watcher, a session, the exchange that obtains a seller's API *)
(* key, and the workspace a seller works in.  They share no state, so a    *)
(* behaviour here moves only one of them and the others stay in an initial *)
(* state.  The workspace has two sides: tool calls over one connection,    *)
(* and one call over two connections.                                      *)
(***************************************************************************)
EXTENDS CreditWatcher, BuyerSession, AccessExchange, Workspace, TLC

CONSTANTS a1, a2

VARIABLE side

\* One signature, two by one cosigner, one by each.
MCSignings == {<<a1>>, <<a1, a1>>, <<a1, a2>>}

\* The buyer's clock is right, or ahead.
MCSkews == {0, 1}

\* The watcher's calls, the verifications and the nonces are interchangeable.
Symmetry == Permutations(Calls) \union Permutations(Verifs)

MCDials == {1, 2}
FirstDial == \A d \in Dials : d > 1 => conn'[d] = "idle"
OneCall == exclusions' = {} /\ \A r \in Reqs \ Writes : toolCall'[r] = "idle"

SidesInit == /\ Init /\ BuyInit /\ ExchangeInit /\ WorkspaceInit
             /\ side \in {"watcher", "session", "exchange", "tools", "dials"}
             /\ side # "exchange" => skew = 0
SidesNext == /\ UNCHANGED side
             /\ \/ side = "watcher" /\ Next /\ UNCHANGED <<buyVars, exchangeVars, workspaceVars>>
                \/ side = "session" /\ BuyNext /\ UNCHANGED <<vars, exchangeVars, workspaceVars>>
                \/ side = "exchange" /\ ExchangeNext /\ UNCHANGED <<vars, buyVars, workspaceVars>>
                \/ /\ \/ side = "tools" /\ WorkspaceNext /\ FirstDial
                      \/ side = "dials" /\ WorkspaceNext /\ OneCall
                   /\ UNCHANGED <<vars, buyVars, exchangeVars>>
SidesSpec == SidesInit /\ [][SidesNext]_<<vars, buyVars, exchangeVars, workspaceVars, side>>

============================================================================
