--------------------------- MODULE CreditWatcher ---------------------------
(***************************************************************************)
(* The buyer's auto-top-up watcher (src/src/buyer/credit-watcher.ts): the  *)
(* two low-credit signals (response header and webhook), the pending       *)
(* guard, the debounce, the rolling daily cap, and the three injected      *)
(* asynchronous effects - send, sign, report - each of which may fail.     *)
(*                                                                         *)
(* Every top-up sends the same topUpAmount, so an amount of VRSC is        *)
(* topUpAmount times a number of top-ups.  Time is the injected clock,     *)
(* assumed not to run backwards.                                           *)
(***************************************************************************)
EXTENDS Integers, FiniteSets

CONSTANTS
    Calls,            \* signal handlers that can be in flight together
    threshold, topUpAmount, dailyCapVrsc, minInterval, DAY,
    Balances, NaN,    \* balances a signal can report, and a non-number
    SendLossy,        \* whether sendVrsc may reject although the funds left
    MaxTime, MaxSends \* bounds of the model

ASSUME PolicyAssumption == /\ topUpAmount \in Nat /\ dailyCapVrsc \in Nat
                           /\ minInterval \in Nat /\ DAY \in Nat \ {0}
ASSUME BoundAssumption  == /\ MaxTime \in Nat /\ MaxSends \in Nat
                           /\ SendLossy \in BOOLEAN

VARIABLES
    clock,        \* deps.now()
    pending, lastTopUpAt,
    spends,       \* the pruned ledger, entries [id, at]
    phase, at,    \* each call: where it awaits, and the `now` it captured
    recorded,     \* auxiliary: every entry ever put on the ledger
    paid,         \* auxiliary: payments that left the wallet, by real time
    sends         \* auxiliary: number of sends begun

watcherVars == <<pending, lastTopUpAt, spends>>
callVars    == <<phase, at>>
auxVars     == <<recorded, paid, sends>>
vars        == <<clock, watcherVars, callVars, auxVars>>

----------------------------------------------------------------------------

Times   == 0..MaxTime
Entries == [id : 1..MaxSends, at : Times]
Phases  == {"idle", "sending", "signing", "reporting"}

TypeOK ==
    /\ clock \in Times /\ clock > 0
    /\ pending \in BOOLEAN /\ lastTopUpAt \in Times
    /\ spends \in SUBSET Entries /\ recorded \in SUBSET Entries
    /\ paid \in SUBSET Entries /\ sends \in 0..MaxSends
    /\ phase \in [Calls -> Phases] /\ at \in [Calls -> Times]

Cost(S) == topUpAmount * Cardinality(S)
After(S, t) == {s \in S : s.at > t}

spentInWindow(now) == Cost(After(spends, now - DAY))

\* The ledger with the new entry, pruned by the entry's own time.
recordSpend(e) == After(spends, e.at - DAY) \cup {e}

----------------------------------------------------------------------------

\* A finite value below the threshold, and (webhook) from the right seller;
\* every other signal returns at once.
IsLow(sig) == sig.seller = "mine" /\ sig.balance # NaN /\ sig.balance < threshold

Signals == [seller : {"mine", "other"}, balance : Balances \cup {NaN}]

\* Mutant: the guard is claimed after the send, not before it.
maybeTopUp_LateGuard(c) ==
    /\ ~pending
    /\ lastTopUpAt = 0 \/ clock - lastTopUpAt >= minInterval
    /\ spentInWindow(clock) + topUpAmount <= dailyCapVrsc
    /\ phase' = [phase EXCEPT ![c] = "sending"]
    /\ at' = [at EXCEPT ![c] = clock]
    /\ UNCHANGED pending

\* Mutant: the cap is compared with the spend before this top-up.
maybeTopUp_CapOffByOne(c) ==
    /\ ~pending
    /\ lastTopUpAt = 0 \/ clock - lastTopUpAt >= minInterval
    /\ spentInWindow(clock) <= dailyCapVrsc
    /\ pending' = TRUE
    /\ phase' = [phase EXCEPT ![c] = "sending"]
    /\ at' = [at EXCEPT ![c] = clock]

\* maybeTopUp() up to sendVrsc; the refusals change nothing.
maybeTopUp(c) ==
    /\ ~pending
    /\ lastTopUpAt = 0 \/ clock - lastTopUpAt >= minInterval
    /\ spentInWindow(clock) + topUpAmount <= dailyCapVrsc
    /\ pending' = TRUE
    /\ phase' = [phase EXCEPT ![c] = "sending"]
    /\ at' = [at EXCEPT ![c] = clock]

\* observeRemaining() or onCreditLow().
Signal(c) ==
    /\ phase[c] = "idle" /\ sends < MaxSends
    /\ \E sig \in Signals : IsLow(sig)
    /\ maybeTopUp(c)
    /\ sends' = sends + 1
    /\ UNCHANGED <<clock, lastTopUpAt, spends, recorded, paid>>

\* finally { pending = false } and return.
Finish(c) == /\ phase' = [phase EXCEPT ![c] = "idle"] /\ pending' = FALSE
             /\ UNCHANGED at

Pay == paid' = paid \cup {[id |-> sends, at |-> clock]}

SendOk(c) ==
    /\ phase[c] = "sending"
    /\ phase' = [phase EXCEPT ![c] = "signing"] /\ Pay
    /\ UNCHANGED <<clock, watcherVars, at, recorded, sends>>

\* sendVrsc rejects: nothing is recorded, whether or not the funds left.
SendFails(c) ==
    /\ phase[c] = "sending" /\ Finish(c)
    /\ UNCHANGED paid \/ (SendLossy /\ Pay)
    /\ UNCHANGED <<clock, lastTopUpAt, spends, recorded, sends>>

SignOk(c) ==
    /\ phase[c] = "signing"
    /\ phase' = [phase EXCEPT ![c] = "reporting"]
    /\ UNCHANGED <<clock, watcherVars, at, auxVars>>

\* signMessage rejects: an alert, and nothing is recorded.
SignFails(c) ==
    /\ phase[c] = "signing" /\ Finish(c)
    /\ UNCHANGED <<clock, lastTopUpAt, spends, auxVars>>

\* reportDeposit settles: resolved or rejected, the spend is recorded and the
\* debounce armed with the time captured before the send.
Reported(c) ==
    LET e == [id |-> sends, at |-> at[c]] IN
    /\ phase[c] = "reporting" /\ Finish(c)
    /\ spends' = recordSpend(e) /\ lastTopUpAt' = at[c]
    /\ recorded' = recorded \cup {e}
    /\ UNCHANGED <<clock, paid, sends>>

TimePasses ==
    /\ clock < MaxTime /\ clock' = clock + 1
    /\ UNCHANGED <<watcherVars, callVars, auxVars>>

Init ==
    /\ clock = 1 /\ 1 \in Times
    /\ pending = FALSE /\ lastTopUpAt = 0 /\ spends = {}
    /\ phase = [c \in Calls |-> "idle"] /\ at = [c \in Calls |-> 0]
    /\ recorded = {} /\ paid = {} /\ sends = 0

Next ==
    \/ TimePasses
    \/ \E c \in Calls : \/ Signal(c) \/ SendOk(c) \/ SendFails(c) \/ SignOk(c)
                        \/ SignFails(c) \/ Reported(c)

Spec == Init /\ [][Next]_vars

----------------------------------------------------------------------------
(* Properties *)

InWindow(S, t) == {s \in S : t - DAY < s.at /\ s.at <= t}

(* The cap on what is recorded: in no 24h window, at any time in the past,   *)
(* do the recorded top-ups cost more than dailyCapVrsc - although the ledger *)
(* consulted is pruned and each entry is added only after three awaits.      *)
RecordedWithinCap == \A t \in Times : Cost(InWindow(recorded, t)) <= dailyCapVrsc

(* A burst of signals is one top-up: two recorded top-ups were decided at    *)
(* least minInterval apart.                                                  *)
TopUpsSpaced ==
    \A s, r \in recorded : s.id < r.id => r.at - s.at >= minInterval

(* The policy's documented ceiling, "The watcher NEVER spends past this in a *)
(* rolling 24h window": no window of payments that left the wallet costs     *)
(* more than dailyCapVrsc.                                                   *)
NeverSpendsPastCap == \A t \in Times : Cost(InWindow(paid, t)) <= dailyCapVrsc

(* The inductive strengthening, by parts. *)

Busy(c) == phase[c] # "idle"

\* pending guards the one top-up in flight.
OneInFlight == \A c \in Calls : Busy(c) =>
                 pending /\ \A d \in Calls : Busy(d) => d = c

\* The ledger is what was recorded, less what is a day older than the last.
LedgerPruned ==
    /\ spends \subseteq recorded
    /\ \A s \in recorded \ spends : s.at <= lastTopUpAt - DAY
    /\ \A s \in recorded : s.at <= lastTopUpAt
    /\ lastTopUpAt <= clock /\ (lastTopUpAt = 0 => recorded = {})

\* What the decision checked still holds when its outcome is recorded.
DecisionHolds ==
    \A c \in Calls : Busy(c) =>
      /\ at[c] > 0 /\ at[c] <= clock /\ lastTopUpAt <= at[c]
      /\ lastTopUpAt > 0 => at[c] - lastTopUpAt >= minInterval
      /\ spentInWindow(at[c]) + topUpAmount <= dailyCapVrsc

IdsGrow == /\ \A s \in recorded : s.id <= sends
           /\ \A c \in Calls : Busy(c) =>
                sends > 0 /\ \A s \in recorded : s.id < sends

IInv == /\ TypeOK /\ OneInFlight /\ LedgerPruned /\ DecisionHolds /\ IdsGrow
        /\ RecordedWithinCap /\ TopUpsSpaced

============================================================================
