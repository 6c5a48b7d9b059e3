-------------------------- MODULE MCCreditWatcher --------------------------
(***************************************************************************)
(* Small instances of CreditWatcher for TLC.                               *)
(***************************************************************************)
EXTENDS CreditWatcher, TLC

\* The calls are interchangeable.
Symmetry == Permutations(Calls)

============================================================================
