----------------------------- MODULE JobLedger -----------------------------
(***************************************************************************)
(* What the job loop promises an embedding program, job by job: up to      *)
(* Budget accept attempts, then at most one final decision.  `abandoned`   *)
(* is reached only with the budget spent, `accepted` only by an attempt.   *)
(* Forgetting is the one way back: a job that left the platform's pending  *)
(* list may be attempted afresh, and a decision may be dropped when the    *)
(* bounded memory of decisions evicts it.                                  *)
(***************************************************************************)
EXTENDS Integers

CONSTANTS Jobs, Budget

VARIABLES decision, attempts

ledgerVars == <<decision, attempts>>

Init ==
    /\ decision = [j \in Jobs |-> "none"]
    /\ attempts = [j \in Jobs |-> 0]

\* An attempt begins.
Attempt(j) ==
    /\ decision[j] = "none" /\ attempts[j] < Budget
    /\ attempts' = [attempts EXCEPT ![j] = @ + 1]
    /\ UNCHANGED decision

Decide(j, how) ==
    /\ decision[j] = "none"
    /\ how = "accepted" => attempts[j] > 0
    /\ how = "abandoned" => attempts[j] = Budget
    /\ decision' = [decision EXCEPT ![j] = how]
    /\ UNCHANGED attempts

\* The last attempt fails the moment it begins.
AttemptAndAbandon(j) ==
    /\ decision[j] = "none" /\ attempts[j] + 1 = Budget
    /\ attempts' = [attempts EXCEPT ![j] = @ + 1]
    /\ decision' = [decision EXCEPT ![j] = "abandoned"]

\* At the end of a poll: attempts of jobs that left the pending list (gone)
\* are forgotten, and so are evicted decisions; one attempt may be left on
\* the books of an evicted job.
Forget ==
    \E gone, evicted \in SUBSET Jobs, left \in SUBSET Jobs :
      /\ decision' = [j \in Jobs |-> IF j \in evicted THEN "none" ELSE decision[j]]
      /\ attempts' = [j \in Jobs |->
                        IF j \in gone THEN 0
                        ELSE IF j \in evicted THEN (IF j \in left THEN 1 ELSE 0)
                        ELSE attempts[j]]

Next ==
    \/ \E j \in Jobs : Attempt(j) \/ AttemptAndAbandon(j)
    \/ \E j \in Jobs, how \in {"accepted", "rejected", "abandoned", "noted"} :
         Decide(j, how)
    \/ Forget

Spec == Init /\ [][Next]_ledgerVars

============================================================================
