---------------------------- MODULE BuyerSession -----------------------------
(***************************************************************************)
(* The buyer's side of a job (src/src/buyer/session.ts): create and pay    *)
(* it, wait until it runs, exchange messages, end it; and the seller's     *)
(* autoDeliver() (src/src/agent.ts), which the end of a session triggers.  *)
(*                                                                         *)
(* Job n is the one that the n-th start() creates; the program calls       *)
(* start() again when it threw or when the session is over.  Names are     *)
(* prefixed where another module of the project has the same idea.         *)
(***************************************************************************)
EXTENDS Integers, FiniteSets

CONSTANTS
    Starts,    \* bound: calls of start()
    Waits,     \* bound: calls of sendAndWait()
    Events,    \* bound: session_ending events that the seller receives
    Amount,    \* config.amount
    Fees       \* fees that the platform may ask for; 0 stands for a malformed one

ASSUME BuyAssumption ==
    /\ Starts \in Nat /\ Waits \in Nat /\ Events \in Nat
    /\ Amount \in Nat \ {0} /\ Fees \subseteq Nat

VARIABLES
    step,      \* where start() is
    job,       \* this.job: the number of the latest start()
    fee,       \* the fee of this.job that the checks let through
    payments,      \* auxiliary: payments[n]: what left the wallet for job n
    platform,  \* platform[n]: the platform's view of job n
    active,    \* this._active
    idleTimer, \* this._idleTimer is running
    ending,    \* ending[n]: calls of endSession() that await the platform
    ended,     \* ended[n]: calls of onSessionEnd for job n
    wait,      \* wait[w]: the promise of the w-th sendAndWait()
    onMessage, \* config.onMessage: 0 the program's handler, w that of wait w
    original,  \* original[w]: the handler that wait w found
    event,     \* event[e]: where the seller's autoDeliver() for event e is
    eventJob,  \* eventJob[e]: the job of event e
    announced  \* announced[n]: job:delivered events emitted for job n

startVars == <<step, job, fee, payments>>
endVars == <<active, idleTimer, ending, ended>>
waitVars == <<wait, onMessage, original>>
sellerVars == <<event, eventJob, announced>>
buyVars == <<startVars, platform, endVars, waitVars, sellerVars>>

JobIds == 1 .. Starts
WaitIds == 1 .. Waits
EventIds == 1 .. Events
Steps == {"idle", "creating", "paying", "recording", "polling", "chat", "returned", "failed"}

BuyTypeOK ==
    /\ step \in Steps /\ job \in 0 .. Starts /\ fee \in 0 .. Amount
    /\ payments \in [JobIds -> 0 .. (2 * Amount)]
    /\ platform \in [JobIds -> {"none", "unpaid", "paid", "in_progress", "delivered", "cancelled"}]
    /\ active \in BOOLEAN /\ idleTimer \in BOOLEAN
    /\ ending \in [JobIds -> 0 .. 1] /\ ended \in [JobIds -> 0 .. 1]
    /\ wait \in [WaitIds -> {"idle", "pending", "answered", "timedout"}]
    /\ onMessage \in 0 .. Waits /\ original \in [WaitIds -> 0 .. Waits]
    /\ event \in [EventIds -> {"none", "reading", "signing", "posting", "over"}]
    /\ eventJob \in [EventIds -> 0 .. Starts]
    /\ announced \in [JobIds -> 0 .. Events]

BuyInit ==
    /\ step = "idle" /\ job = 0 /\ fee = 0
    /\ payments = [n \in JobIds |-> 0]
    /\ platform = [n \in JobIds |-> "none"]
    /\ active = FALSE /\ idleTimer = FALSE
    /\ ending = [n \in JobIds |-> 0] /\ ended = [n \in JobIds |-> 0]
    /\ wait = [w \in WaitIds |-> "idle"]
    /\ onMessage = 0 /\ original = [w \in WaitIds |-> 0]
    /\ event = [e \in EventIds |-> "none"] /\ eventJob = [e \in EventIds |-> 0]
    /\ announced = [n \in JobIds |-> 0]

-----------------------------------------------------------------------------
(* start() *)

\* start() moves on, and only its own program counter changes.
Goto(s) == step' = s /\ UNCHANGED <<job, endVars, waitVars, sellerVars>>

BeginStart ==
    /\ step \in {"idle", "failed", "returned"} /\ ~active /\ job < Starts
    /\ Goto("creating") /\ UNCHANGED <<fee, payments, platform>>

\* Mutant: the fee is only required to be a number.
FeePlausible_Unbounded(f) == f > 0

FeePlausible(f) == f > 0 /\ f <= Amount

\* The platform returns the new job, without a fee or with one, and start()
\* refuses a payment address or a fee that cannot be right.
JobCreated ==
    /\ step = "creating"
    /\ job' = job + 1
    /\ platform' = [platform EXCEPT ![job + 1] = "unpaid"]
    /\ \/ step' = "paying" /\ fee' \in {f \in Fees : FeePlausible(f)} \union {0}
       \/ step' = "failed" /\ UNCHANGED fee
    /\ UNCHANGED <<payments, endVars, waitVars, sellerVars>>

\* createJob() throws: a request fails, or the message that the platform wants
\* signed does not name this seller, amount and time.
CreateFails ==
    /\ step = "creating"
    /\ Goto("failed") /\ UNCHANGED <<fee, payments, platform>>

\* A request throws or the wait of fifteen minutes ends: what was paid stays paid.
StartFails ==
    /\ step \in {"recording", "polling", "chat"}
    /\ Goto("failed") /\ UNCHANGED <<fee, payments, platform>>

Charge == payments' = [payments EXCEPT ![job] = @ + Amount + fee]

PaymentSent ==
    /\ step = "paying"
    /\ Goto("recording") /\ Charge /\ UNCHANGED <<fee, platform>>

\* The transaction fails, or is sent and its answer lost.
PaymentFails ==
    /\ step = "paying"
    /\ Goto("failed") /\ (Charge \/ UNCHANGED payments) /\ UNCHANGED <<fee, platform>>

\* recordPaymentCombined(); its answer may be lost after the platform took it.
Recorded ==
    /\ step = "recording"
    /\ Goto("polling") \/ Goto("failed")
    /\ platform' = [platform EXCEPT ![job] = IF @ = "unpaid" THEN "paid" ELSE @]
    /\ UNCHANGED <<fee, payments>>

\* A poll sees the job in progress (a cancelled one makes start() fail).
JobRuns ==
    /\ step = "polling" /\ platform[job] = "in_progress"
    /\ Goto("chat") /\ UNCHANGED <<fee, payments, platform>>

\* Chat is connected and its room joined: the session is active.
Activate ==
    /\ step = "chat"
    /\ step' = "returned"
    /\ active' = TRUE /\ idleTimer' = TRUE
    /\ UNCHANGED <<job, fee, payments, platform, ending, ended, waitVars, sellerVars>>

\* The platform and the two parties move a job.
Moves == {<<"paid", "in_progress">>, <<"unpaid", "cancelled">>, <<"paid", "cancelled">>,
          <<"in_progress", "cancelled">>}

PlatformMoves(n) ==
    /\ \E move \in Moves : move[1] = platform[n] /\ platform' = [platform EXCEPT ![n] = move[2]]
    /\ UNCHANGED <<startVars, endVars, waitVars, sellerVars>>

-----------------------------------------------------------------------------
(* endSession(), by the program or by a tick of the idle timer *)

\* Mutant: _active is cleared only when the platform has answered.
BeginEnd_StillActive ==
    /\ active
    /\ idleTimer' = FALSE
    /\ ending' = [ending EXCEPT ![job] = @ + 1]
    /\ UNCHANGED <<startVars, platform, active, ended, waitVars, sellerVars>>

BeginEnd ==
    /\ active
    /\ active' = FALSE /\ idleTimer' = FALSE
    /\ ending' = [ending EXCEPT ![job] = @ + 1]
    /\ UNCHANGED <<startVars, platform, ended, waitVars, sellerVars>>

\* requestEndSession() succeeds or fails: the program hears of the end.
EndAnswered(n) ==
    /\ ending[n] > 0
    /\ ending' = [ending EXCEPT ![n] = @ - 1]
    /\ ended' = [ended EXCEPT ![n] = @ + 1]
    /\ UNCHANGED <<startVars, platform, active, idleTimer, waitVars, sellerVars>>

-----------------------------------------------------------------------------
(* sendAndWait() and the chain of handlers it builds on config.onMessage *)

Ask(w) ==
    /\ active /\ wait[w] = "idle" /\ \A v \in 1 .. w - 1 : wait[v] # "idle"
    /\ wait' = [wait EXCEPT ![w] = "pending"]
    /\ original' = [original EXCEPT ![w] = onMessage]
    /\ onMessage' = w
    /\ UNCHANGED <<startVars, platform, endVars, sellerVars>>

\* The handlers that a message runs through when handler h is installed.
Chain(h) ==
    LET chain[v \in 0 .. Waits] == IF v = 0 THEN {} ELSE {v} \union chain[original[v]]
    IN  chain[h]

\* Each handler restores the one it found and then calls it, so that the last
\* handler to run is the program's.
SellerMessage ==
    /\ job > 0
    /\ wait' = [w \in WaitIds |-> IF w \in Chain(onMessage) /\ wait[w] = "pending"
                                  THEN "answered" ELSE wait[w]]
    /\ onMessage' = 0
    /\ UNCHANGED <<startVars, platform, endVars, original, sellerVars>>

WaitTimeout(w) ==
    /\ wait[w] = "pending"
    /\ wait' = [wait EXCEPT ![w] = "timedout"]
    /\ onMessage' = original[w]
    /\ UNCHANGED <<startVars, platform, endVars, original, sellerVars>>

-----------------------------------------------------------------------------
(* The seller: session_ending without a handler of its own, autoDeliver() *)

\* The platform tells the seller that the session of job n ends: at the buyer's
\* request, at the seller's own, or because its time is up.
SessionEnding(e, n) ==
    /\ event[e] = "none" /\ platform[n] \in {"in_progress", "delivered", "cancelled"}
    /\ event' = [event EXCEPT ![e] = "reading"]
    /\ eventJob' = [eventJob EXCEPT ![e] = n]
    /\ UNCHANGED <<startVars, platform, endVars, waitVars, announced>>

At(e, s) == event' = [event EXCEPT ![e] = s]

\* getJob(): only a job that still runs is delivered.
ReadJob(e) ==
    /\ event[e] = "reading"
    /\ At(e, IF platform[eventJob[e]] = "in_progress" THEN "signing" ELSE "over")
    /\ UNCHANGED <<startVars, platform, endVars, waitVars, eventJob, announced>>

SignDelivery(e) ==
    /\ event[e] = "signing"
    /\ At(e, "posting")
    /\ UNCHANGED <<startVars, platform, endVars, waitVars, eventJob, announced>>

DeliveryFails(e) ==
    /\ event[e] \in {"reading", "signing", "posting"}
    /\ At(e, "over")
    /\ UNCHANGED <<startVars, platform, endVars, waitVars, eventJob, announced>>

\* Mutant: a refused deliverJob() is taken for a delivered one.
PostDelivery_Unchecked(e) ==
    LET n == eventJob[e] IN
    /\ event[e] = "posting"
    /\ At(e, "over")
    /\ announced' = [announced EXCEPT ![n] = @ + 1]
    /\ platform' = [platform EXCEPT ![n] = IF @ = "in_progress" THEN "delivered" ELSE @]
    /\ UNCHANGED <<startVars, endVars, waitVars, eventJob>>

\* deliverJob(): the platform takes it while the job runs, and refuses it, by
\* throwing here, once it was delivered or cancelled.
PostDelivery(e) ==
    LET n == eventJob[e] IN
    /\ event[e] = "posting" /\ platform[n] = "in_progress"
    /\ At(e, "over")
    /\ announced' = [announced EXCEPT ![n] = @ + 1]
    /\ platform' = [platform EXCEPT ![n] = "delivered"]
    /\ UNCHANGED <<startVars, endVars, waitVars, eventJob>>

-----------------------------------------------------------------------------
BuyNext ==
    \/ BeginStart \/ JobCreated \/ CreateFails \/ StartFails \/ PaymentSent \/ PaymentFails
    \/ Recorded \/ JobRuns \/ Activate \/ BeginEnd \/ SellerMessage
    \/ \E n \in JobIds : PlatformMoves(n) \/ EndAnswered(n)
    \/ \E w \in WaitIds : Ask(w) \/ WaitTimeout(w)
    \/ \E e \in EventIds : ReadJob(e) \/ SignDelivery(e) \/ DeliveryFails(e) \/ PostDelivery(e)
    \/ \E e \in EventIds, n \in JobIds : SessionEnding(e, n)

BuySpec == BuyInit /\ [][BuyNext]_buyVars

-----------------------------------------------------------------------------
(***************************************************************************)
(* Whatever the platform asks for, a job never costs more than twice its   *)
(* amount, however often requests fail and start() is called again         *)
(* (session.ts, the fee check before sendMultiPayment).                    *)
(***************************************************************************)
SpendBounded == \A n \in JobIds : payments[n] <= 2 * Amount

(***************************************************************************)
(* A session that can send messages is over a job that ran: no error,      *)
(* timeout or late answer of start() leads to an active session on a job   *)
(* nobody works on, and a job that ran was paid for by this wallet.        *)
(***************************************************************************)
ActiveHasRun ==
    /\ active => platform[job] \in {"in_progress", "delivered", "cancelled"}
    /\ \A n \in JobIds : platform[n] \in {"in_progress", "delivered"} => payments[n] >= Amount

(***************************************************************************)
(* Nobody pays too much and nobody works unpaid (session.ts start), on     *)
(* well-typed states.                                                      *)
(***************************************************************************)
PaidIsRight == BuyTypeOK /\ SpendBounded /\ ActiveHasRun

(***************************************************************************)
(* The program hears of the end of a session once, although the idle timer *)
(* and the program may both end it while the platform is being asked       *)
(* (session.ts endSession: _active is cleared before the first await).     *)
(***************************************************************************)
EndedOnce == \A n \in JobIds : ended[n] + ending[n] <= 1

(***************************************************************************)
(* The seller announces job:delivered only for a job that the platform     *)
(* holds as delivered, and once, although two session_ending events may    *)
(* both have found the job running (agent.ts autoDeliver).                 *)
(***************************************************************************)
AnnouncedIsDelivered ==
    \A n \in JobIds : announced[n] > 0 => announced[n] = 1 /\ platform[n] = "delivered"

(***************************************************************************)
(* "Send a message and wait for the seller's response"                     *)
(* (session.ts:153): a message of the seller answers every call that       *)
(* waits.  It does not: the timeout of an earlier sendAndWait() restores   *)
(* the handler that call found and so removes the handler of a later one,  *)
(* which then times out although the seller answered.                      *)
(***************************************************************************)
ResponseAnswers == \A w \in WaitIds : wait[w] = "pending" => w \in Chain(onMessage)
=============================================================================
