------------------------------ MODULE MCWallet ------------------------------
(***************************************************************************)
(* Small instances of Wallet for TLC.                                      *)
(***************************************************************************)
EXTENDS Wallet

CONSTANTS g1, g2

\* One coin on each of the agent's addresses.
MCGenesis == [c \in Genesis |-> IF c = g1 THEN [value |-> 6, addr |-> "R"]
                                          ELSE [value |-> 3, addr |-> "I"]]

\* A plain send, and one whose change would leave the wallet.
MCOptions == {[src |-> "any", change |-> "auto"], [src |-> "any", change |-> "foreign"]}

============================================================================
