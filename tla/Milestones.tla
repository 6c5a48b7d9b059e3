------------------------------ MODULE Milestones ------------------------------
(***************************************************************************)
(* What a resumable procedure promises, abstractly: its steps 1, 2, ...,   *)
(* Last come in this order, and the mark it keeps on disk moves past a     *)
(* step only when that step has taken effect, or when nobody asked for it  *)
(* - which is then recorded.  Each run may be asked for other steps.       *)
(***************************************************************************)
EXTENDS Naturals

CONSTANT Last

VARIABLES asked,  \* the steps that the current run is asked for
          done,   \* the steps that have taken effect
          waived, \* the steps that are recorded as skipped
          marked  \* the steps 1 .. marked are over

vars == <<asked, done, waived, marked>>

Init == asked = {} /\ done = {} /\ waived = {} /\ marked = 0

Ask == asked' \in SUBSET (1 .. Last) /\ UNCHANGED <<done, waived, marked>>

TakesEffect ==
    /\ marked < Last /\ marked + 1 \in asked
    /\ done' = done \union {marked + 1}
    /\ UNCHANGED <<asked, waived, marked>>

Record ==
    /\ marked + 1 \in done
    /\ marked' = marked + 1
    /\ UNCHANGED <<asked, done, waived>>

Waive ==
    /\ marked < Last /\ marked + 1 \notin asked
    /\ marked' = marked + 1 /\ waived' = waived \union {marked + 1}
    /\ UNCHANGED <<asked, done>>

Next == Ask \/ TakesEffect \/ Record \/ Waive
Spec == Init /\ [][Next]_vars

(***************************************************************************)
(* No step is passed over in silence.                                      *)
(***************************************************************************)
NoneForgotten == 1 .. marked \subseteq done \union waived
===============================================================================
