------------------------------- MODULE Wallet -------------------------------
(***************************************************************************)
(* Spending from the agent's wallet (src/src/agent.ts): sendCurrency,      *)
(* transferFunds and sendMultiPayment, queued by serializeSend, with the   *)
(* memory that lets several of them follow each other inside one block:    *)
(* _spentUtxos (outpoints already used) and _pendingChange (unconfirmed    *)
(* change to use next), and the coin selection of src/src/tx/payment.ts.   *)
(* Identity updates pay their fee from the same coins, outside the queue.  *)
(*                                                                         *)
(* A coin is a genesis coin or the change output of a transaction, which   *)
(* bears the transaction's name.  The platform API and the chain behind it *)
(* are external: a broadcast may be answered late, never, or with an error *)
(* although the transaction reached the mempool.                           *)
(***************************************************************************)
EXTENDS Integers, Sequences, FiniteSets, FiniteSetsExt

CONSTANTS
    Sends,             \* sendCurrency / sendMultiPayment calls
    Updates,           \* identity updates
    Genesis, genesis,  \* confirmed coins to begin with, [value, addr] of each
    Amounts,           \* amounts a call can ask for
    Options,           \* [src, change] a sendCurrency caller can pass
    HasIAddress,       \* whether the agent has an i-address
    FEE, DUST,
    MAX_SPENT_UTXOS, MAX_PENDING_CHANGE

Txs   == Sends \cup Updates
Coins == Genesis \cup Txs
Addrs == {"R", "I"}              \* the agent's own addresses

ASSUME NameAssumption == /\ Sends \cap Updates = {} /\ Genesis \cap Txs = {}
                         /\ IsFiniteSet(Genesis) /\ IsFiniteSet(Txs)
                         /\ HasIAddress \in BOOLEAN
ASSUME CoinAssumption ==
    /\ genesis \in [Genesis -> [value : Nat \ {0}, addr : Addrs]]
    /\ Amounts \subseteq Nat \ {0} /\ FEE \in Nat /\ DUST \in Nat
    /\ Options \subseteq [src : Addrs \cup {"any"},
                          change : Addrs \cup {"auto", "foreign"}]
ASSUME CapAssumption == /\ MAX_SPENT_UTXOS \in Nat \ {0}
                        /\ MAX_PENDING_CHANGE \in Nat \ {0}

VARIABLES
    queue,          \* _txChain: the calls not settled, in order
    pc,             \* where each call is
    request,        \* what each call was asked
    utxos,          \* the entries a call can choose its inputs from
    inputs,         \* the entries a transaction spends, {} until built
    change,         \* each transaction's change output, value 0 for none
    spentUtxos,     \* insertion-ordered, no duplicates
    pendingChange,  \* pairs <<n, coin>>, in the order of n
    net,            \* the network's view of each transaction
    dropped         \* auxiliary: coins stop() or a cap made the agent forget
                    \* before their spend, or their creation, confirmed

callVars == <<queue, pc, request, utxos>>
txVars   == <<inputs, change>>
memVars  == <<spentUtxos, pendingChange, dropped>>
vars     == <<callVars, txVars, memVars, net>>

----------------------------------------------------------------------------
(* Types *)

\* An entry of the merged coin list: a coin and the list it comes from.
Entries  == {"api", "pending"} \X Coins
CoinsOf(E) == {e[2] : e \in E}
Elems(s)   == {s[i] : i \in 1..Len(s)}
Pending    == CoinsOf(pendingChange)
Outputs  == [value : Nat, addr : Addrs]
Requests == [kind : {"none", "currency", "multi"}, amount : Amounts \cup {0},
             src : Addrs \cup {"any"}, change : Addrs \cup {"auto", "foreign"}]
NoRequest == [kind |-> "none", amount |-> 0, src |-> "any", change |-> "auto"]
PCs      == {"none", "queued", "listing", "building", "sending", "done", "failed"}
Nets     == {"none", "wire", "refused", "mempool", "confirmed", "expired"}

\* The types, without the amounts of money.
Shape ==
    /\ queue \in Seq(Sends) /\ pc \in [Txs -> PCs]
    /\ utxos \in [Txs -> SUBSET Entries] /\ inputs \in [Txs -> SUBSET Entries]
    /\ spentUtxos \in Seq(Coins) /\ Pending \subseteq Coins
    /\ net \in [Txs -> Nets] /\ dropped \in SUBSET Coins

TypeOK == /\ Shape /\ pendingChange \in SUBSET (Nat \X Coins)
          /\ change \in [Txs -> Outputs] /\ request \in [Sends -> Requests]

----------------------------------------------------------------------------
(* Coins *)

Output(c) == IF c \in Genesis THEN genesis[c] ELSE change[c]
Total(E)  == MapThenSumSet(LAMBDA e : Output(e[2]).value, E)

Spends(t, c)  == c \in CoinsOf(inputs[t])
Confirmed(c)  == c \notin Genesis => net[c] = "confirmed"
SettledSpend(c) == \E t \in Txs : Spends(t, c) /\ net[t] = "confirmed"

\* What getUtxos() lists: the confirmed outputs of the wallet that no
\* confirmed transaction spends; it may or may not look at the mempool.
Listings ==
    LET S == {c \in Coins : Confirmed(c) /\ Output(c).value > 0 /\ ~SettledSpend(c)}
    IN  {S, {c \in S : ~ \E t \in Txs : Spends(t, c) /\ net[t] = "mempool"}}

\* Mutant: no pruning of confirmed change and no check for duplicates.
mergeUtxos_NoDedupe(api) ==
    ({"api"} \X (api \ Elems(spentUtxos)))
      \cup ({"pending"} \X (Pending \ Elems(spentUtxos)))

SelfAddrs == IF HasIAddress THEN Addrs ELSE {"R"}

\* Mutant: the outpoints already used are not excluded.
mergeUtxos_Respends(api) ==
    ({"api"} \X api) \cup ({"pending"} \X (Pending \ api))

\* mergeUtxos(): listed coins, then pending change not listed, none spent.
mergeUtxos(api) ==
    ({"api"} \X (api \ Elems(spentUtxos)))
      \cup ({"pending"} \X (Pending \ (Elems(spentUtxos) \cup api)))

prunePending(api) == {p \in pendingChange : p[2] \notin Elems(spentUtxos) \cup api}

\* selectUtxos(): largest first until the target is covered.
selectUtxos(E, target) ==
    {P \in SUBSET E :
       /\ \A e \in P, f \in E \ P : Output(e[2]).value >= Output(f[2]).value
       /\ Total(P) >= target
       /\ \A e \in P : (\A f \in P : Output(e[2]).value <= Output(f[2]).value)
                          => Total(P \ {e}) < target}

\* The change address sendCurrency or sendMultiPayment settles on.
changeAddress(r, E) ==
    IF r.change # "auto" THEN r.change
    ELSE IF r.kind = "currency" /\ HasIAddress
            /\ \A e \in E : Output(e[2]).addr = "I" THEN "I" ELSE "R"

\* The orders, largest first, in which the selected coins are marked spent.
Orders(S) == {q \in [1..Cardinality(S) -> S] :
                /\ Elems(q) = S
                /\ \A i, j \in 1..Len(q) : i < j => Output(q[i]).value >= Output(q[j]).value}
\* The eviction loops of the two memories.
EvictSpent(s) == IF Len(s) > MAX_SPENT_UTXOS
                   THEN SubSeq(s, Len(s) - MAX_SPENT_UTXOS + 1, Len(s)) ELSE s
ShiftPending(P) ==
    {p \in P : Cardinality({q \in P : q[1] > p[1]}) < MAX_PENDING_CHANGE}

----------------------------------------------------------------------------
(* The queue *)

\* serializeSend(): behind every call not yet settled.
serializeSend(s, r) ==
    /\ pc[s] = "none"
    /\ pc' = [pc EXCEPT ![s] = "queued"] /\ queue' = Append(queue, s)
    /\ request' = [request EXCEPT ![s] = r]
    /\ UNCHANGED <<utxos, txVars, memVars, net>>

sendCurrency(s, amount, opts) ==
    serializeSend(s, [kind |-> "currency", amount |-> amount,
                      src |-> opts.src, change |-> opts.change])

sendMultiPayment(s, amount) ==
    serializeSend(s, [kind |-> "multi", amount |-> amount,
                      src |-> "any", change |-> "auto"])

transferFunds(s, from, amount) ==
    HasIAddress /\ sendCurrency(s, amount, [src |-> from, change |-> from])

Running(s, label) == queue # <<>> /\ Head(queue) = s /\ pc[s] = label

\* Mutant: a rejected call leaves the chain rejected (then(fn) alone).
Fail_ChainStuck(s) == pc' = [pc EXCEPT ![s] = "failed"] /\ UNCHANGED queue

\* The call settles and the chain goes on, whichever way it settled.
Settle(s, how) == pc' = [pc EXCEPT ![s] = how] /\ queue' = Tail(queue)
Fail(s) == Settle(s, "failed")

\* login(), and for a VerusID payee the refusal or resolution.
LoggedIn(s) ==
    /\ Running(s, "queued")
    /\ pc' = [pc EXCEPT ![s] = "listing"]
    /\ UNCHANGED <<queue, request, utxos, txVars, memVars, net>>

\* An await before the broadcast rejects: login, getUtxos or getChainInfo.
CallFails(s) ==
    /\ \E label \in {"queued", "listing", "building"} : Running(s, label)
    /\ Fail(s)
    /\ UNCHANGED <<request, utxos, txVars, memVars, net>>

\* getUtxos() answered: merge, filter by source, settle the change address.
Listed(s) ==
    \E api \in Listings :
      LET merged == mergeUtxos(api)
          mine   == {e \in merged : request[s].src \in {"any", Output(e[2]).addr}}
      IN
      /\ Running(s, "listing")
      /\ pendingChange' = prunePending(api)
      /\ IF mine = {} \/ changeAddress(request[s], mine) \notin SelfAddrs
           THEN Fail(s) /\ UNCHANGED utxos
           ELSE /\ pc' = [pc EXCEPT ![s] = "building"]
                /\ utxos' = [utxos EXCEPT ![s] = mine]
                /\ UNCHANGED queue
      /\ UNCHANGED <<request, txVars, spentUtxos, dropped, net>>

\* Spent coins it is too early to forget: no payment spending them confirmed.
Unsettled(S) == {c \in S : \A s \in Sends : Spends(s, c) => net[s] # "confirmed"}

\* buildPayment() / buildMultiPayment(), marking the inputs spent, eviction
\* (sendCurrency only), and the broadcast request leaving.
Build(s) ==
    /\ Running(s, "building")
    /\ LET r == request[s] target == request[s].amount + FEE IN
       \/ /\ Total(utxos[s]) < target /\ Fail(s)
          /\ UNCHANGED <<inputs, change, spentUtxos, dropped, net>>
       \/ \E P \in selectUtxos(utxos[s], target) :
          \E q \in Orders(CoinsOf(P) \ Elems(spentUtxos)) :
            LET rest == Total(P) - target
                all  == spentUtxos \o q
            IN
            /\ pc' = [pc EXCEPT ![s] = "sending"]
            /\ inputs' = [inputs EXCEPT ![s] = P]
            /\ change' = [change EXCEPT ![s] =
                            [value |-> IF rest > DUST THEN rest ELSE 0,
                             addr |-> changeAddress(r, utxos[s])]]
            /\ spentUtxos' = IF r.kind = "currency"
                               THEN EvictSpent(all) ELSE all
            /\ dropped' = dropped \cup Unsettled(Elems(all) \ Elems(spentUtxos'))
            /\ net' = [net EXCEPT ![s] = "wire"]
            /\ UNCHANGED queue
    /\ utxos' = [utxos EXCEPT ![s] = {}]
    /\ UNCHANGED <<request, pendingChange>>

\* Mutant: the change of a sent transaction is not remembered.
Sent_NoChaining(s) ==
    /\ Running(s, "sending") /\ net[s] \notin {"wire", "refused"}
    /\ Settle(s, "done")
    /\ UNCHANGED <<request, utxos, txVars, memVars, net>>

\* broadcast() resolved with the txid: chain the change output.
Sent(s) ==
    LET n   == 1 + Max({p[1] : p \in pendingChange} \cup {0})
        all == pendingChange \cup (IF change[s].value > 0 THEN {<<n, s>>} ELSE {})
    IN
    /\ Running(s, "sending") /\ net[s] \notin {"wire", "refused"}
    /\ Settle(s, "done")
    /\ pendingChange' = IF request[s].kind = "currency"
                          THEN ShiftPending(all) ELSE all
    /\ dropped' = dropped \cup (CoinsOf(all) \ CoinsOf(pendingChange'))
    /\ UNCHANGED <<request, utxos, txVars, spentUtxos, net>>

\* broadcast() rejected, though the transaction may have got through.
BroadcastFails(s) ==
    /\ Running(s, "sending") /\ Fail(s)
    /\ UNCHANGED <<request, utxos, txVars, memVars, net>>

\* stop() empties both memories.
Stop ==
    /\ spentUtxos' = <<>> /\ pendingChange' = {}
    /\ dropped' = dropped \cup Unsettled(Elems(spentUtxos)) \cup Pending
    /\ UNCHANGED <<callVars, txVars, net>>

----------------------------------------------------------------------------
(* Identity updates (setOnChainStatus, acceptReview, acceptInboxBatch, ...):  *)
(* coins straight from getUtxos(), no queue, no memory.                       *)

UpdateReads(u) ==
    \E api \in Listings :
      LET S == {c \in api : Output(c).addr = "R"} IN
      /\ pc[u] = "none" /\ S # {}
      /\ pc' = [pc EXCEPT ![u] = "building"]
      /\ utxos' = [utxos EXCEPT ![u] = {"api"} \X S]
      /\ UNCHANGED <<queue, request, txVars, memVars, net>>

UpdateSends(u) ==
    /\ pc[u] = "building"
    /\ \E P \in selectUtxos(utxos[u], FEE) :
         /\ inputs' = [inputs EXCEPT ![u] = P]
         /\ change' = [change EXCEPT ![u] = [value |-> Total(P) - FEE, addr |-> "R"]]
    /\ pc' = [pc EXCEPT ![u] = "sending"] /\ utxos' = [utxos EXCEPT ![u] = {}]
    /\ net' = [net EXCEPT ![u] = "wire"]
    /\ UNCHANGED <<queue, request, memVars>>

----------------------------------------------------------------------------
(* The network (external) *)

Live(t)   == net[t] \in {"mempool", "confirmed"}
Exists(c) == c \notin Genesis => Live(c)

Valid(t) == /\ \A c \in CoinsOf(inputs[t]) :
                 Exists(c) /\ \A r \in Txs \ {t} : Live(r) => ~Spends(r, c)
            /\ \A e, f \in inputs[t] : e[2] = f[2] => e = f

NodeReceives(t) ==
    /\ net[t] = "wire"
    /\ net' = [net EXCEPT ![t] = IF Valid(t) THEN "mempool" ELSE "refused"]
    /\ UNCHANGED <<callVars, txVars, memVars>>

Mined(t) ==
    /\ net[t] = "mempool" /\ \A c \in CoinsOf(inputs[t]) : Confirmed(c)
    /\ net' = [net EXCEPT ![t] = "confirmed"]
    /\ UNCHANGED <<callVars, txVars, memVars>>

\* Not mined before its expiry height.
Expires(t) ==
    /\ net[t] = "mempool" /\ \A r \in Txs : net[r] = "mempool" => ~Spends(r, t)
    /\ net' = [net EXCEPT ![t] = "expired"]
    /\ UNCHANGED <<callVars, txVars, memVars>>

----------------------------------------------------------------------------

Init ==
    /\ queue = <<>> /\ pc = [t \in Txs |-> "none"]
    /\ request = [s \in Sends |-> NoRequest]
    /\ utxos = [t \in Txs |-> {}] /\ inputs = [t \in Txs |-> {}]
    /\ change = [t \in Txs |-> [value |-> 0, addr |-> "R"]]
    /\ spentUtxos = <<>> /\ pendingChange = {}
    /\ net = [t \in Txs |-> "none"] /\ dropped = {}

SendStep(s) == \/ LoggedIn(s) \/ CallFails(s) \/ Listed(s) \/ Build(s)
               \/ Sent(s) \/ BroadcastFails(s)

Next ==
    \/ \E s \in Sends, a \in Amounts :
         \/ \E o \in Options : sendCurrency(s, a, o)
         \/ sendMultiPayment(s, a)
         \/ \E from \in Addrs : transferFunds(s, from, a)
    \/ \E s \in Sends : SendStep(s)
    \/ \E u \in Updates : UpdateReads(u) \/ UpdateSends(u)
    \/ \E t \in Txs : NodeReceives(t) \/ Mined(t) \/ Expires(t)
    \/ Stop

Spec == Init /\ [][Next]_vars

\* Every await of a call settles: requests carry a client-side timeout.
FairSpec == Spec /\ \A s \in Sends : WF_vars(SendStep(s))

----------------------------------------------------------------------------
(* Properties *)

(* UTXO chaining never spends a coin twice: two payments built by this agent *)
(* share an input only when stop() or the cap on _spentUtxos made it forget  *)
(* that input while the earlier payment was unconfirmed - whatever the       *)
(* answers to getUtxos() lag behind and however broadcasts are answered.     *)
NoDoubleSpend ==
    \A s, t \in Sends : s # t => CoinsOf(inputs[s]) \cap CoinsOf(inputs[t]) \subseteq dropped

(* No transaction lists an input twice, although a change coin that has just *)
(* confirmed is both in _pendingChange and in getUtxos() (mergeUtxos).       *)
NoDuplicateInputs ==
    \A t \in Txs : \A e, f \in inputs[t] : e[2] = f[2] => e = f

(* Change is not lost: the change of a payment reported as sent stays        *)
(* available to the next one - pending, spent already or confirmed - until   *)
(* stop() or the cap on _pendingChange drops it.                             *)
ChangeChained ==
    \A s \in Sends : pc[s] = "done" /\ change[s].value > 0 =>
      \/ s \in Pending \/ net[s] = "confirmed" \/ s \in dropped
      \/ \E t \in Sends : Spends(t, s)

(* Payments cost what was asked: what a transaction spends is the amount of   *)
(* the call, the fee and its change, and at most DUST is left to the miners   *)
(* on top.  An identity update leaves nothing.                                *)
PaysWhatWasAsked ==
    \A t \in Txs : inputs[t] # {} =>
      LET asked == IF t \in Sends THEN request[t].amount ELSE 0
          slack == IF t \in Sends THEN DUST ELSE 0
      IN  Total(inputs[t]) - asked - FEE - change[t].value \in 0..slack

(* One failed payment does not hold up the others: every call of             *)
(* sendCurrency, transferFunds or sendMultiPayment settles.                  *)
EveryCallSettles ==
    \A s \in Sends : pc[s] = "queued" ~> pc[s] \in {"done", "failed"}

(* The comment on serializeSend(), "Serialize fund-moving operations so two  *)
(* concurrent sends can't select the same UTXO": no two transactions the     *)
(* agent builds from its wallet coins, identity updates included, share one. *)
FundMovesDisjoint ==
    \A s, t \in Txs : s # t => CoinsOf(inputs[s]) \cap CoinsOf(inputs[t]) \subseteq dropped

(* The inductive strengthening of NoDoubleSpend, by parts. *)

\* Only the head of the queue is past its start; calls settled are off it.
OneAtATime ==
    /\ \A s \in Sends : pc[s] \in {"listing", "building", "sending"} =>
         queue # <<>> /\ Head(queue) = s
    /\ \A s \in Sends : inputs[s] # {} => pc[s] \in {"sending", "done", "failed"}

\* A coin some payment uses is remembered as spent, confirmed, or dropped.
UsedIsKnown ==
    \A s \in Sends : \A c \in CoinsOf(inputs[s]) :
      c \in Elems(spentUtxos) \/ net[s] = "confirmed" \/ c \in dropped

\* A send's change coin is known to the agent only after that send settled.
MadeFirst ==
    LET Made == {c \in Coins : c \in Sends => pc[c] \in {"done", "failed"}} IN
    /\ Pending \subseteq Made
    /\ \A s \in Sends : CoinsOf(inputs[s]) \subseteq Made
    /\ \A s \in Sends : pc[s] = "building" => CoinsOf(utxos[s]) \subseteq Made
    /\ \A s \in Sends : net[s] # "none" => pc[s] \in {"sending", "done", "failed"}

\* mergeUtxos() ran just before the inputs are chosen.
JustPruned ==
    \A s \in Sends : pc[s] = "building" => Pending \cap Elems(spentUtxos) = {}

\* Pending change that some payment uses is remembered as spent or dropped.
PendingIsFresh ==
    \A s \in Sends : \A c \in CoinsOf(inputs[s]) \cap Pending :
      c \in Elems(spentUtxos) \/ c \in dropped

\* What a call is about to choose from, no other payment uses.
ChoiceIsFresh ==
    \A s, t \in Sends : pc[s] = "building" =>
      CoinsOf(utxos[s]) \cap CoinsOf(inputs[t]) \subseteq dropped

IInv == /\ Shape /\ OneAtATime /\ UsedIsKnown /\ MadeFirst /\ JustPruned
        /\ PendingIsFresh /\ ChoiceIsFresh /\ NoDoubleSpend

(* The inductive strengthening of TypeOK and PaysWhatWasAsked, by parts. *)

\* A transaction has inputs and is on its way from the moment it is built.
BuiltOnce ==
    /\ \A t \in Txs : pc[t] \in {"none", "queued", "listing", "building"} =>
         net[t] = "none" /\ inputs[t] = {}
    /\ \A t \in Txs : inputs[t] # {} \/ pc[t] \in {"sending", "done"} => net[t] # "none"

\* No coin is known before the transaction that makes it is built, so that
\* its value no longer changes.
KnownIsBuilt ==
    \A t \in Txs :
      CoinsOf(utxos[t]) \cup CoinsOf(inputs[t]) \cup Pending
        \subseteq {c \in Coins : c \in Txs => net[c] # "none"}

\* A call about to be built sends its change home.
ChangeComesHome ==
    \A s \in Sends : pc[s] = "building" => request[s].change \in {"auto"} \cup SelfAddrs

MoneyInv == /\ TypeOK /\ IsFiniteSet(pendingChange) /\ BuiltOnce /\ KnownIsBuilt
            /\ ChangeComesHome /\ PaysWhatWasAsked

\* The calls that were made and have not settled.
Open == {"queued", "listing", "building", "sending"}

(* The safety behind EveryCallSettles: _txChain holds exactly the calls not  *)
(* settled, once each, so that none is passed over or runs twice, and the    *)
(* head of a queue that is not empty is a call that has a step to take.      *)
QueueHoldsCalls ==
    /\ \A i, j \in 1..Len(queue) : queue[i] = queue[j] => i = j
    /\ \A s \in Sends : s \in Elems(queue) <=> pc[s] \in Open

============================================================================
