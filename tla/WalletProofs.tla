---------------------------- MODULE WalletProofs ----------------------------
(***************************************************************************)
(* NoDoubleSpend, NoDuplicateInputs and ChangeChained, and that money adds *)
(* up, for every number of sends, updates and coins, every value of the    *)
(* caps, and every behaviour of the platform and the network.              *)
(***************************************************************************)
EXTENDS Wallet, FiniteSetTheorems, WellFoundedInduction, TLAPS

\* The calls past their start, and those that built a transaction.
Active == {"listing", "building", "sending"}

(* The order in which selected coins are marked spent lists exactly them.    *)
LEMMA OrdersList ==
    ASSUME NEW S \in SUBSET Coins, NEW q \in Orders(S)
    PROVE  q \in Seq(Coins) /\ Elems(q) = S
<1>1. IsFiniteSet(Coins)
  BY FS_Union, NameAssumption DEF Coins
<1>2. Cardinality(S) \in Nat
  BY <1>1, FS_Subset, FS_CardinalityType
<1> QED BY <1>2 DEF Orders

(* Eviction only forgets.                                                    *)
LEMMA EvictForgets ==
    ASSUME NEW s \in Seq(Coins)
    PROVE  EvictSpent(s) \in Seq(Coins) /\ Elems(EvictSpent(s)) \subseteq Elems(s)
BY CapAssumption DEF EvictSpent, Elems

(* Marking coins as spent adds them to what is remembered.                   *)
LEMMA ConcatElems ==
    ASSUME NEW s \in Seq(Coins), NEW q \in Seq(Coins)
    PROVE  s \o q \in Seq(Coins) /\ Elems(s \o q) = Elems(s) \cup Elems(q)
<1>1. s \o q \in Seq(Coins) OBVIOUS
<1>2. Elems(s) \subseteq Elems(s \o q)
  BY DEF Elems
<1>3. Elems(q) \subseteq Elems(s \o q)
  <2> SUFFICES ASSUME NEW i \in 1..Len(q) PROVE q[i] \in Elems(s \o q)
    BY DEF Elems
  <2>1. Len(s) + i \in 1..Len(s \o q) /\ (s \o q)[Len(s) + i] = q[i] OBVIOUS
  <2> QED BY <2>1 DEF Elems
<1>4. Elems(s \o q) \subseteq Elems(s) \cup Elems(q)
  <2> SUFFICES ASSUME NEW i \in 1..Len(s \o q)
               PROVE  (s \o q)[i] \in Elems(s) \cup Elems(q)
    BY DEF Elems
  <2>1. CASE i <= Len(s) BY <2>1 DEF Elems
  <2>2. CASE i > Len(s)
    <3>1. i - Len(s) \in 1..Len(q) /\ (s \o q)[i] = q[i - Len(s)] BY <2>2
    <3> QED BY <3>1 DEF Elems
  <2> QED BY <2>1, <2>2
<1> QED BY <1>1, <1>2, <1>3, <1>4

(* The invariant holds initially.                                            *)
LEMMA InitInv == Init => IInv
<1> SUFFICES ASSUME Init PROVE IInv OBVIOUS
<1>1. Pending = {} /\ Elems(spentUtxos) = {}
  BY DEF Init, Pending, CoinsOf, Elems
<1>2. \A t \in Txs : CoinsOf(inputs[t]) = {} /\ CoinsOf(utxos[t]) = {}
  BY DEF Init, CoinsOf
<1>3. Shape BY <1>1 DEF Shape, Init, PCs, Nets, Entries
<1>4. \A s \in Sends : s \in Txs /\ pc[s] = "none" /\ inputs[s] = {} /\ net[s] = "none"
  BY DEF Init, Txs
<1> QED
  BY <1>1, <1>2, <1>3, <1>4 DEF IInv, OneAtATime, UsedIsKnown, MadeFirst,
     JustPruned, PendingIsFresh, ChoiceIsFresh, NoDoubleSpend

----------------------------------------------------------------------------
(* The steps that build no transaction and forget nothing.                   *)

(* A call is queued, goes on past login, or settles without having sent.     *)
LEMMA QueueStep ==
    ASSUME IInv, NEW s \in Sends,
           \/ \E r : serializeSend(s, r)
           \/ LoggedIn(s) \/ CallFails(s) \/ BroadcastFails(s)
    PROVE  IInv'
<1> USE DEF IInv
<1>1. s \in Txs /\ \A t \in Sends : t \in Txs BY DEF Txs
<1>2. /\ UNCHANGED <<utxos, inputs, spentUtxos, pendingChange, dropped, net>>
      /\ \E label \in {"queued", "listing", "failed"} : pc' = [pc EXCEPT ![s] = label]
  BY DEF serializeSend, LoggedIn, CallFails, BroadcastFails, Fail, Settle, txVars, memVars
<1>3. /\ queue' \in Seq(Sends)
      /\ \A t \in Sends : pc'[t] \in Active => queue' # <<>> /\ Head(queue') = t
  <2>1. CASE \E r : serializeSend(s, r)
    <3>1. queue \in Seq(Sends) /\ queue' = Append(queue, s) BY <2>1 DEF serializeSend, Shape
    <3>2. queue # <<>> => Head(queue') = Head(queue) BY <3>1
    <3>3. \A t \in Sends : pc'[t] \in Active => pc[t] \in Active
      BY <2>1, <1>1 DEF serializeSend, Shape, Active
    <3>4. queue' \in Seq(Sends) /\ queue' # <<>> BY <3>1
    <3> QED BY <3>2, <3>3, <3>4 DEF OneAtATime, Active
  <2>2. CASE LoggedIn(s)
    BY <2>2, <1>1 DEF LoggedIn, Running, Shape, OneAtATime, Active
  <2>3. CASE CallFails(s) \/ BroadcastFails(s)
    <3>1. queue \in Seq(Sends) /\ queue # <<>> /\ queue' = Tail(queue) /\ Head(queue) = s
      BY <2>3 DEF CallFails, BroadcastFails, Running, Fail, Settle, Shape
    <3>2. queue' \in Seq(Sends) BY <3>1
    <3>3. \A t \in Sends : pc'[t] \notin Active
      BY <2>3, <1>1, <3>1 DEF CallFails, BroadcastFails, Fail, Settle, Shape, OneAtATime, Active
    <3> QED BY <3>2, <3>3
  <2> QED BY <2>1, <2>2, <2>3
<1>4. \A t \in Sends : pc[t] \in {"done", "failed"} => pc'[t] \in {"done", "failed"}
  BY <1>1 DEF serializeSend, LoggedIn, CallFails, BroadcastFails, Running, Fail, Settle, Shape
<1>5. \A t \in Sends : pc'[t] = "building" => pc[t] = "building"
  BY <1>1, <1>2 DEF Shape
<1>6. \A t \in Sends : pc[t] \in {"sending", "done", "failed"} =>
                       pc'[t] \in {"sending", "done", "failed"}
  BY <1>1 DEF serializeSend, LoggedIn, CallFails, BroadcastFails, Running, Fail, Settle, Shape
<1>7. Shape' BY <1>2, <1>3 DEF Shape, Pending, PCs
<1>8. OneAtATime' BY <1>2, <1>3, <1>6 DEF OneAtATime, Active
<1>9. UsedIsKnown' /\ PendingIsFresh' /\ NoDoubleSpend'
  BY <1>2 DEF UsedIsKnown, PendingIsFresh, NoDoubleSpend, Pending
<1>10. MadeFirst' BY <1>1, <1>2, <1>4, <1>5, <1>6 DEF MadeFirst, Pending
<1>11. JustPruned' /\ ChoiceIsFresh'
  BY <1>2, <1>5 DEF JustPruned, ChoiceIsFresh, Pending
<1> QED BY <1>7, <1>8, <1>9, <1>10, <1>11

(* The platform's list of coins arrives.                                     *)
LEMMA ListedStep ==
    ASSUME IInv, NEW s \in Sends, Listed(s)
    PROVE  IInv'
<1> USE DEF IInv
<1>1. s \in Txs /\ \A t \in Sends : t \in Txs /\ t \in Coins BY DEF Txs, Coins
<1>2. PICK api \in Listings : Listed(s)!(api) BY DEF Listed
<1> DEFINE mine == {e \in mergeUtxos(api) : request[s].src \in {"any", Output(e[2]).addr}}
<1>3. /\ Running(s, "listing") /\ pendingChange' = prunePending(api)
      /\ \/ Fail(s) /\ UNCHANGED utxos
         \/ /\ pc' = [pc EXCEPT ![s] = "building"]
            /\ utxos' = [utxos EXCEPT ![s] = mine] /\ UNCHANGED queue
      /\ UNCHANGED <<inputs, spentUtxos, dropped, net>>
  BY <1>2 DEF txVars
<1> HIDE DEF mine
<1>4. \A c \in api : c \in Coins /\ Confirmed(c) /\ ~SettledSpend(c)
  BY <1>2 DEF Listings
<1>5. mine \in SUBSET Entries /\ CoinsOf(mine) \subseteq
        (api \ Elems(spentUtxos)) \cup (Pending \ Elems(spentUtxos))
  BY <1>4 DEF mine, mergeUtxos, CoinsOf, Entries, Shape
<1>6. Pending' \subseteq Pending /\ Pending' \cap Elems(spentUtxos) = {}
  BY <1>3 DEF Pending, CoinsOf, prunePending
<1>7. \A t \in Sends : t # s => pc[t] \notin Active /\ pc'[t] = pc[t]
  BY <1>1, <1>3 DEF Running, OneAtATime, Active, Fail, Settle, Shape
<1>8. pc[s] = "listing" /\ pc'[s] \in {"building", "failed"}
  BY <1>1, <1>3 DEF Running, Fail, Settle, Shape
<1>9. Shape'
  <2>1. queue' \in Seq(Sends)
    <3>1. queue \in Seq(Sends) /\ queue # <<>> /\ queue' \in {queue, Tail(queue)}
      BY <1>3 DEF Running, Fail, Settle, Shape
    <3> QED BY <3>1
  <2>2. pc' \in [Txs -> PCs] BY <1>3 DEF Fail, Settle, Shape, PCs
  <2>3. utxos' \in [Txs -> SUBSET Entries] BY <1>3, <1>5 DEF Shape
  <2> QED BY <1>3, <1>6, <2>1, <2>2, <2>3 DEF Shape
<1>10. OneAtATime'
  <2>1. \A t \in Sends : pc'[t] \in Active => t = s /\ pc'[s] = "building"
    BY <1>7, <1>8 DEF Active
  <2>2. pc'[s] = "building" => queue' # <<>> /\ Head(queue') = s
    BY <1>1, <1>3, <1>8 DEF Running, Fail, Settle, Shape
  <2>3. inputs[s] = {} BY <1>8 DEF OneAtATime
  <2> QED BY <1>3, <1>7, <2>1, <2>2, <2>3 DEF OneAtATime, Active
<1>11. UsedIsKnown' /\ PendingIsFresh' /\ NoDoubleSpend'
  BY <1>3, <1>6 DEF UsedIsKnown, PendingIsFresh, NoDoubleSpend
<1>12. MadeFirst'
  <2>1. \A c \in Sends : pc[c] \in {"done", "failed"} => pc'[c] \in {"done", "failed"}
    BY <1>7, <1>8
  <2>2. \A c \in api : c \in Sends => pc[c] \in {"done", "failed"}
    <3> SUFFICES ASSUME NEW c \in api, c \in Sends PROVE pc[c] \in {"done", "failed"}
      OBVIOUS
    <3>1. net[c] = "confirmed" BY <1>4, NameAssumption, <1>1 DEF Confirmed
    <3>2. pc[c] \in {"sending", "done", "failed"} BY <3>1 DEF MadeFirst
    <3> QED BY <3>2, <1>7, <1>8 DEF Active
  <2>3. \A t \in Sends : pc'[t] = "building" =>
          t = s /\ CoinsOf(utxos'[t]) \subseteq api \cup Pending
    BY <1>1, <1>3, <1>5, <1>7, <1>8 DEF Active, Fail, Settle, Shape
  <2>4. \A t \in Sends : pc[t] \in {"sending", "done", "failed"} =>
                         pc'[t] \in {"sending", "done", "failed"}
    BY <1>7, <1>8
  <2> QED BY <1>3, <1>4, <1>6, <2>1, <2>2, <2>3, <2>4 DEF MadeFirst
<1>13. JustPruned' BY <1>3, <1>6 DEF JustPruned
<1>14. ChoiceIsFresh'
  <2> SUFFICES ASSUME NEW t \in Sends, pc'[s] = "building",
                      NEW c \in CoinsOf(mine) \cap CoinsOf(inputs[t])
               PROVE  c \in dropped
    BY <1>1, <1>3, <1>7, <1>8 DEF ChoiceIsFresh, Active, Fail, Settle, Shape
  <2>1. c \notin Elems(spentUtxos) BY <1>5
  <2>2. CASE c \in api
    <3>1. net[t] # "confirmed" BY <2>2, <1>1, <1>4 DEF SettledSpend, Spends
    <3> QED BY <2>1, <3>1 DEF UsedIsKnown
  <2>3. CASE c \in Pending BY <2>1, <2>3 DEF PendingIsFresh
  <2> QED BY <1>5, <2>2, <2>3
<1> QED BY <1>9, <1>10, <1>11, <1>12, <1>13, <1>14

----------------------------------------------------------------------------
(* The steps that build a transaction, remember change, or forget.           *)

(* The inputs are chosen, marked spent and sent, or the funds do not do.     *)
LEMMA BuildStep ==
    ASSUME IInv, NEW s \in Sends, Build(s)
    PROVE  IInv'
<1> USE DEF IInv
<1>1. s \in Txs /\ \A t \in Sends : t \in Txs /\ t \in Coins BY DEF Txs, Coins
<1>2. Running(s, "building") /\ UNCHANGED pendingChange
      /\ utxos' = [utxos EXCEPT ![s] = {}]
  BY DEF Build
<1>3. pc[s] = "building" /\ queue # <<>> /\ Head(queue) = s /\ inputs[s] = {}
  BY <1>2 DEF Running, OneAtATime
<1>4. \A t \in Sends : t # s => pc[t] \notin Active
  BY <1>3 DEF OneAtATime, Active
<1>5. Pending' = Pending BY <1>2 DEF Pending
<1>6. utxos' \in [Txs -> SUBSET Entries] BY <1>2 DEF Shape
<1>7. CASE Fail(s) /\ UNCHANGED <<inputs, spentUtxos, dropped, net>>
  <2>1. pc' = [pc EXCEPT ![s] = "failed"] /\ queue' = Tail(queue)
    BY <1>7 DEF Fail, Settle
  <2>2. queue' \in Seq(Sends) BY <1>3, <2>1 DEF Shape
  <2>3. \A t \in Sends : pc'[t] \notin Active BY <1>1, <1>4, <2>1 DEF Active, Shape
  <2>4. \A t \in Sends : pc'[t] = pc[t] \/ pc'[t] = "failed"
    BY <1>1, <2>1 DEF Shape
  <2>5. Shape' BY <1>5, <1>6, <1>7, <2>1, <2>2 DEF Shape, PCs
  <2>6. OneAtATime' BY <1>7, <2>3, <2>4 DEF OneAtATime, Active
  <2>7. UsedIsKnown' /\ PendingIsFresh' /\ NoDoubleSpend'
    BY <1>5, <1>7 DEF UsedIsKnown, PendingIsFresh, NoDoubleSpend
  <2>8. MadeFirst'
    BY <1>1, <1>5, <1>7, <2>3, <2>4 DEF MadeFirst, Active
  <2>9. JustPruned' /\ ChoiceIsFresh' BY <2>3 DEF JustPruned, ChoiceIsFresh, Active
  <2> QED BY <2>5, <2>6, <2>7, <2>8, <2>9
<1>8. ASSUME NEW P \in SUBSET utxos[s], NEW q \in Orders(CoinsOf(P) \ Elems(spentUtxos)),
             pc' = [pc EXCEPT ![s] = "sending"], UNCHANGED queue,
             inputs' = [inputs EXCEPT ![s] = P],
             spentUtxos' \in {EvictSpent(spentUtxos \o q), spentUtxos \o q},
             dropped' = dropped
               \cup Unsettled(Elems(spentUtxos \o q) \ Elems(spentUtxos')),
             net' = [net EXCEPT ![s] = "wire"]
      PROVE  IInv'
  <2> DEFINE Q == CoinsOf(P) all == spentUtxos \o q
  <2>1. P \in SUBSET Entries /\ Q \subseteq Coins /\ Q \subseteq CoinsOf(utxos[s])
    BY <1>1 DEF Shape, CoinsOf, Entries
  <2>2. q \in Seq(Coins) /\ Elems(q) = Q \ Elems(spentUtxos)
    BY <1>8, <2>1, OrdersList
  <2>3. all \in Seq(Coins) /\ Elems(all) = Elems(spentUtxos) \cup Q
    BY <2>2, ConcatElems DEF Shape
  <2>4. spentUtxos' \in Seq(Coins) /\ Elems(spentUtxos') \subseteq Elems(all)
    BY <1>8, <2>3, EvictForgets
  <2>5. Elems(all) \subseteq Coins BY <2>3 DEF Elems
  <2>6. dropped \subseteq dropped' /\ dropped' \subseteq Coins
    BY <1>8, <2>5 DEF Unsettled, Shape
  <2>7. \A t \in Sends : t # s => /\ inputs'[t] = inputs[t] /\ net'[t] = net[t]
                                  /\ pc'[t] = pc[t]
    BY <1>1, <1>8 DEF Shape
  <2>8. inputs'[s] = P /\ net'[s] = "wire" /\ pc'[s] = "sending"
    BY <1>1, <1>8 DEF Shape
  <2>9. \A t \in Sends : CoinsOf(inputs[t]) \cap Q \subseteq dropped
    BY <1>3, <2>1 DEF ChoiceIsFresh
  <2>10. net[s] = "none" BY <1>3 DEF MadeFirst
  \* What is forgotten is dropped unless the payment spending it confirmed.
  <2>11. ASSUME NEW c \in Elems(all), c \notin Elems(spentUtxos'), c \notin dropped'
         PROVE  \E r \in Sends : c \in CoinsOf(inputs[r]) /\ net[r] = "confirmed"
    BY <1>8, <2>11 DEF Unsettled, Spends
  <2> HIDE DEF Q, all
  <2>12. NoDoubleSpend'
    BY <2>6, <2>7, <2>8, <2>9 DEF NoDoubleSpend, Q
  <2>13. UsedIsKnown'
    <3> SUFFICES ASSUME NEW t \in Sends, NEW c \in CoinsOf(inputs'[t]),
                        c \notin Elems(spentUtxos'), c \notin dropped'
                 PROVE  net'[t] = "confirmed"
      BY DEF UsedIsKnown
    <3>1. CASE t = s
      <4>1. c \in Q /\ c \in Elems(all) BY <3>1, <2>3, <2>8 DEF Q
      <4>2. PICK r \in Sends : c \in CoinsOf(inputs[r]) /\ net[r] = "confirmed"
        BY <4>1, <2>11
      <4> QED BY <4>1, <4>2, <2>6, <2>9
    <3>2. CASE t # s
      <4>1. c \in CoinsOf(inputs[t]) /\ net'[t] = net[t] BY <3>2, <2>7
      <4>2. CASE c \in Elems(spentUtxos)
        <5>1. PICK r \in Sends : c \in CoinsOf(inputs[r]) /\ net[r] = "confirmed"
          BY <4>2, <2>3, <2>11
        <5> QED BY <4>1, <5>1, <2>6 DEF NoDoubleSpend
      <4>3. CASE c \notin Elems(spentUtxos)
        BY <4>1, <4>3, <2>6 DEF UsedIsKnown
      <4> QED BY <4>2, <4>3
    <3> QED BY <3>1, <3>2
  <2>14. PendingIsFresh'
    <3> SUFFICES ASSUME NEW t \in Sends, NEW c \in CoinsOf(inputs'[t]), c \in Pending,
                        c \notin Elems(spentUtxos'), c \notin dropped'
                 PROVE  FALSE
      BY <1>5 DEF PendingIsFresh
    <3>1. c \notin Elems(spentUtxos) BY <1>3 DEF JustPruned
    <3>2. CASE t = s
      <4>1. c \in Q /\ c \in Elems(all) BY <3>2, <2>3, <2>8 DEF Q
      <4>2. PICK r \in Sends : c \in CoinsOf(inputs[r]) /\ net[r] = "confirmed"
        BY <4>1, <2>11
      <4> QED BY <4>1, <4>2, <2>6, <2>9
    <3>3. CASE t # s
      <4>1. c \in CoinsOf(inputs[t]) BY <3>3, <2>7
      <4> QED BY <4>1, <3>1, <2>6 DEF PendingIsFresh
    <3> QED BY <3>2, <3>3
  <2>15. Shape'
    <3>1. pc' \in [Txs -> PCs] BY <1>8 DEF Shape, PCs
    <3>2. inputs' \in [Txs -> SUBSET Entries] BY <1>8, <2>1 DEF Shape
    <3>3. net' \in [Txs -> Nets] BY <1>8 DEF Shape, Nets
    <3> QED BY <1>5, <1>6, <1>8, <2>4, <2>6, <3>1, <3>2, <3>3 DEF Shape
  <2>16. OneAtATime'
    BY <1>3, <1>8, <2>7, <2>8 DEF OneAtATime
  <2>17. MadeFirst'
    <3>1. \A c \in Sends : pc[c] \in {"done", "failed"} => pc'[c] \in {"done", "failed"}
      BY <1>3, <2>7
    <3>2. \A c \in Q : c \in Sends => pc[c] \in {"done", "failed"}
      BY <1>3, <2>1 DEF MadeFirst, Q
    <3>3. Q \subseteq Coins BY <2>1 DEF Q
    <3>4. \A t \in Sends : pc'[t] # "building" BY <1>4, <2>7, <2>8 DEF Active
    <3>5. \A t \in Sends : CoinsOf(inputs'[t]) = Q \/ CoinsOf(inputs'[t]) = CoinsOf(inputs[t])
      BY <2>7, <2>8 DEF Q
    <3>6. \A t \in Sends : net'[t] # "none" => pc'[t] \in {"sending", "done", "failed"}
      BY <2>7, <2>8 DEF MadeFirst
    <3> QED BY <1>5, <3>1, <3>2, <3>3, <3>4, <3>5, <3>6 DEF MadeFirst
  <2>18. JustPruned' /\ ChoiceIsFresh'
    BY <1>4, <2>7, <2>8 DEF JustPruned, ChoiceIsFresh, Active
  <2> QED BY <2>12, <2>13, <2>14, <2>15, <2>16, <2>17, <2>18
<1>9. CASE ~(Fail(s) /\ UNCHANGED <<inputs, spentUtxos, dropped, net>>)
  <2>1. PICK P \in SUBSET utxos[s] :
          \E q \in Orders(CoinsOf(P) \ Elems(spentUtxos)) :
            /\ pc' = [pc EXCEPT ![s] = "sending"] /\ UNCHANGED queue
            /\ inputs' = [inputs EXCEPT ![s] = P]
            /\ spentUtxos' \in {EvictSpent(spentUtxos \o q), spentUtxos \o q}
            /\ dropped' = dropped
                 \cup Unsettled(Elems(spentUtxos \o q) \ Elems(spentUtxos'))
            /\ net' = [net EXCEPT ![s] = "wire"]
    BY <1>9 DEF Build, selectUtxos
  <2> QED BY <2>1, <1>8
<1> QED BY <1>7, <1>9

(* A broadcast is answered with the transaction id.                          *)
LEMMA SentStep ==
    ASSUME IInv, NEW s \in Sends, Sent(s)
    PROVE  IInv'
<1> USE DEF IInv
<1>1. s \in Txs /\ \A t \in Sends : t \in Txs /\ t \in Coins BY DEF Txs, Coins
<1>2. /\ pc[s] = "sending" /\ queue # <<>> /\ Head(queue) = s
      /\ pc' = [pc EXCEPT ![s] = "done"] /\ queue' = Tail(queue)
      /\ UNCHANGED <<utxos, inputs, spentUtxos, net>> /\ dropped \subseteq dropped'
  BY DEF Sent, Running, Settle, txVars
<1>3. Pending' \subseteq Pending \cup {s} /\ dropped' \subseteq dropped \cup Pending \cup {s}
  <2>1. PICK n : /\ pendingChange' \subseteq pendingChange \cup {<<n, s>>}
                 /\ dropped' \subseteq dropped \cup CoinsOf(pendingChange \cup {<<n, s>>})
    <3> DEFINE n == 1 + Max({p[1] : p \in pendingChange} \cup {0})
               all == pendingChange \cup (IF change[s].value > 0 THEN {<<n, s>>} ELSE {})
    <3>1. /\ pendingChange' \in {ShiftPending(all), all}
          /\ dropped' = dropped \cup (CoinsOf(all) \ CoinsOf(pendingChange'))
      BY DEF Sent
    <3> HIDE DEF n
    <3>2. all \subseteq pendingChange \cup {<<n, s>>} OBVIOUS
    <3> HIDE DEF all
    <3>3. ShiftPending(all) \subseteq all BY DEF ShiftPending
    <3>4. CoinsOf(all) \subseteq CoinsOf(pendingChange \cup {<<n, s>>}) BY <3>2 DEF CoinsOf
    <3> QED BY <3>1, <3>2, <3>3, <3>4
  <2>2. CoinsOf(pendingChange \cup {<<n, s>>}) \subseteq Pending \cup {s}
    <3>1. <<n, s>>[2] = s OBVIOUS
    <3>2. \A x : CoinsOf(pendingChange \cup {x}) \subseteq Pending \cup {x[2]}
      BY Zenon DEF Pending, CoinsOf
    <3> QED BY <3>1, <3>2
  <2>3. Pending' \subseteq CoinsOf(pendingChange \cup {<<n, s>>}) BY <2>1 DEF Pending, CoinsOf
  <2> QED BY <2>1, <2>2, <2>3
<1>4. \A t \in Sends : t # s => pc[t] \notin Active BY <1>2 DEF OneAtATime, Active
<1>5. \A t \in Sends : t # s => pc'[t] = pc[t] BY <1>2 DEF Shape
<1>6. pc'[s] = "done" BY <1>1, <1>2 DEF Shape
<1>7. \A t \in Sends : s \notin CoinsOf(inputs[t])
  BY <1>2 DEF MadeFirst
<1>8. \A t \in Sends : pc'[t] \notin Active BY <1>4, <1>5, <1>6 DEF Active
<1>9. Shape'
  <2>1. queue' \in Seq(Sends) BY <1>2 DEF Shape
  <2>2. pc' \in [Txs -> PCs] BY <1>2 DEF Shape, PCs
  <2> QED BY <1>1, <1>2, <1>3, <2>1, <2>2 DEF Shape
<1>10. OneAtATime' BY <1>2, <1>5, <1>6, <1>8 DEF OneAtATime, Active
<1>11. UsedIsKnown' /\ NoDoubleSpend' BY <1>2 DEF UsedIsKnown, NoDoubleSpend
<1>12. PendingIsFresh' BY <1>2, <1>3, <1>7 DEF PendingIsFresh
<1>13. MadeFirst' BY <1>1, <1>2, <1>3, <1>5, <1>6, <1>8 DEF MadeFirst, Active
<1>14. JustPruned' /\ ChoiceIsFresh' BY <1>8 DEF JustPruned, ChoiceIsFresh, Active
<1> QED BY <1>9, <1>10, <1>11, <1>12, <1>13, <1>14

(* stop() empties both memories.                                             *)
LEMMA StopStep ==
    ASSUME IInv, Stop
    PROVE  IInv'
<1> USE DEF IInv
<1>1. \A t \in Sends : t \in Txs BY DEF Txs
<1>2. UNCHANGED <<queue, pc, utxos, inputs, net>> BY DEF Stop, callVars, txVars
<1>3. Pending' = {} /\ Elems(spentUtxos') = {} /\ spentUtxos' \in Seq(Coins)
  BY DEF Stop, Pending, CoinsOf, Elems
<1>4. Elems(spentUtxos) \subseteq Coins BY DEF Shape, Elems
<1>5. dropped' = dropped \cup Unsettled(Elems(spentUtxos)) \cup Pending
  BY DEF Stop
<1>6. dropped \subseteq dropped' /\ dropped' \subseteq Coins
  BY <1>4, <1>5 DEF Unsettled, Shape
<1>7. UsedIsKnown'
  <2> SUFFICES ASSUME NEW t \in Sends, NEW c \in CoinsOf(inputs[t]), c \notin dropped'
               PROVE  net[t] = "confirmed"
    BY <1>2 DEF UsedIsKnown
  <2>1. CASE c \in Elems(spentUtxos)
    <3>1. PICK r \in Sends : c \in CoinsOf(inputs[r]) /\ net[r] = "confirmed"
      BY <1>5, <2>1 DEF Unsettled, Spends
    <3> QED BY <3>1, <1>6 DEF NoDoubleSpend
  <2>2. CASE c \notin Elems(spentUtxos) BY <2>2, <1>6 DEF UsedIsKnown
  <2> QED BY <2>1, <2>2
<1>8. Shape' BY <1>2, <1>3, <1>6 DEF Shape
<1>9. OneAtATime' BY <1>2 DEF OneAtATime
<1>10. PendingIsFresh' /\ JustPruned' BY <1>3 DEF PendingIsFresh, JustPruned
<1>11. NoDoubleSpend' /\ ChoiceIsFresh'
  BY <1>2, <1>6 DEF NoDoubleSpend, ChoiceIsFresh
<1>12. MadeFirst' BY <1>2, <1>3 DEF MadeFirst
<1> QED BY <1>7, <1>8, <1>9, <1>10, <1>11, <1>12

(* Identity updates and the network touch no payment's memory.               *)
LEMMA OutsideStep ==
    ASSUME IInv,
           \/ \E u \in Updates : UpdateReads(u) \/ UpdateSends(u)
           \/ \E t \in Txs : NodeReceives(t) \/ Mined(t) \/ Expires(t)
    PROVE  IInv'
<1> USE DEF IInv
<1>1. \A s \in Sends : s \in Txs /\ s \notin Updates BY NameAssumption DEF Txs
<1>2. \A u \in Updates : u \in Txs BY DEF Txs
<1>3. UNCHANGED <<queue, spentUtxos, pendingChange, dropped>>
  BY DEF UpdateReads, UpdateSends, NodeReceives, Mined, Expires, callVars, txVars, memVars
<1>4. /\ pc' \in [Txs -> PCs] /\ net' \in [Txs -> Nets]
      /\ utxos' \in [Txs -> SUBSET Entries] /\ inputs' \in [Txs -> SUBSET Entries]
  <2>1. ASSUME NEW u \in Updates, UpdateReads(u)
        PROVE  /\ pc' \in [Txs -> PCs] /\ UNCHANGED <<net, inputs>>
               /\ utxos' \in [Txs -> SUBSET Entries]
    <3>1. PICK api \in Listings : utxos' = [utxos EXCEPT ![u] =
                                     {"api"} \X {c \in api : Output(c).addr = "R"}]
      BY <2>1 DEF UpdateReads
    <3>2. {"api"} \X {c \in api : Output(c).addr = "R"} \in SUBSET Entries
      BY <3>1 DEF Listings, Entries
    <3>3. utxos' \in [Txs -> SUBSET Entries] BY <3>1, <3>2 DEF Shape
    <3> QED BY <2>1, <3>3 DEF UpdateReads, Shape, PCs, txVars
  <2>2. ASSUME NEW u \in Updates, UpdateSends(u)
        PROVE  /\ pc' \in [Txs -> PCs] /\ net' \in [Txs -> Nets]
               /\ utxos' \in [Txs -> SUBSET Entries] /\ inputs' \in [Txs -> SUBSET Entries]
    <3>1. PICK P \in SUBSET utxos[u] : inputs' = [inputs EXCEPT ![u] = P]
      BY <2>2 DEF UpdateSends, selectUtxos
    <3>2. P \in SUBSET Entries BY <1>2 DEF Shape
    <3>3. inputs' \in [Txs -> SUBSET Entries] BY <3>1, <3>2 DEF Shape
    <3> QED BY <2>2, <3>3 DEF UpdateSends, Shape, PCs, Nets
  <2>3. ASSUME NEW t \in Txs, NodeReceives(t) \/ Mined(t) \/ Expires(t)
        PROVE  net' \in [Txs -> Nets] /\ UNCHANGED <<pc, utxos, inputs>>
    BY <2>3 DEF NodeReceives, Mined, Expires, Shape, Nets, callVars, txVars
  <2> QED BY <2>1, <2>2, <2>3 DEF Shape
<1>5. \A s \in Sends : /\ pc'[s] = pc[s] /\ utxos'[s] = utxos[s] /\ inputs'[s] = inputs[s]
  BY <1>1 DEF UpdateReads, UpdateSends, NodeReceives, Mined, Expires, callVars, txVars, Shape
<1>6. \A s \in Sends : /\ net[s] = "confirmed" => net'[s] = "confirmed"
                       /\ net'[s] # "none" => net[s] # "none"
  BY <1>1 DEF UpdateReads, UpdateSends, NodeReceives, Mined, Expires, Shape
<1>7. Pending' = Pending BY <1>3 DEF Pending
<1>8. Shape' BY <1>3, <1>4, <1>7 DEF Shape
<1>9. OneAtATime' BY <1>3, <1>5 DEF OneAtATime
<1>10. UsedIsKnown' /\ PendingIsFresh' /\ JustPruned'
  BY <1>3, <1>5, <1>6, <1>7 DEF UsedIsKnown, PendingIsFresh, JustPruned
<1>11. ChoiceIsFresh' /\ NoDoubleSpend'
  BY <1>3, <1>5 DEF ChoiceIsFresh, NoDoubleSpend
<1>12. MadeFirst' BY <1>5, <1>6, <1>7 DEF MadeFirst
<1> QED BY <1>8, <1>9, <1>10, <1>11, <1>12

----------------------------------------------------------------------------

(* The inductive invariant: one payment at a time is past its start, what    *)
(* the built ones use is remembered, confirmed or dropped, and what the next *)
(* one may choose from is used by none of them.                              *)
THEOREM Invariance == Spec => []IInv
<1>1. IInv /\ [Next]_vars => IInv'
  <2> SUFFICES ASSUME IInv, [Next]_vars PROVE IInv' OBVIOUS
  <2>1. ASSUME NEW s \in Sends, NEW a \in Amounts,
               \/ \E o \in Options : sendCurrency(s, a, o)
               \/ sendMultiPayment(s, a)
               \/ \E from \in Addrs : transferFunds(s, from, a)
        PROVE  IInv'
    <3>1. \E r : serializeSend(s, r)
      BY <2>1 DEF sendCurrency, sendMultiPayment, transferFunds
    <3> QED BY <3>1, QueueStep
  <2>2. ASSUME NEW s \in Sends, SendStep(s) PROVE IInv'
    BY <2>2, QueueStep, ListedStep, BuildStep, SentStep DEF SendStep
  <2>3. CASE Stop BY <2>3, StopStep
  <2>4. CASE UNCHANGED vars
    <3>1. /\ Pending' = Pending /\ UNCHANGED <<queue, pc, utxos, inputs, spentUtxos, net, dropped>>
      BY <2>4 DEF vars, callVars, txVars, memVars, Pending
    <3> QED BY <3>1 DEF IInv, Shape, OneAtATime, UsedIsKnown, MadeFirst, JustPruned,
                        PendingIsFresh, ChoiceIsFresh, NoDoubleSpend
  <2> QED BY <2>1, <2>2, <2>3, <2>4, OutsideStep DEF Next
<1> QED BY InitInv, <1>1, PTL DEF Spec

(* sendCurrency, transferFunds and sendMultiPayment never spend a coin twice *)
(* unless stop() or the cap made the agent forget it too early.              *)
THEOREM PaymentsDisjoint == Spec => []NoDoubleSpend
<1>1. IInv => NoDoubleSpend BY DEF IInv
<1> QED BY Invariance, <1>1, PTL

----------------------------------------------------------------------------
(* No input twice, and no change lost.                                       *)

\* Entries that agree in the coin are the same.
Unique(E) == \A e, f \in E : e[2] = f[2] => e = f
AllUnique == \A t \in Txs : Unique(utxos[t]) /\ Unique(inputs[t])

\* What is remembered as spent was spent by some payment.
SpentIsUsed == \A c \in Elems(spentUtxos) : \E t \in Sends : c \in CoinsOf(inputs[t])

\* Every transaction has an entry for its change.
EveryChange == change = [t \in Txs |-> change[t]]

ChainInv == AllUnique /\ SpentIsUsed /\ EveryChange /\ ChangeChained

(* The two lists that a payment chooses from share no coin, so that what is  *)
(* merged has one entry for each.                                            *)
LEMMA MergedUnique ==
    ASSUME NEW api
    PROVE  Unique(mergeUtxos(api)) /\ \A S : Unique({"api"} \X S)
<1>1. \A S : Unique({"api"} \X S) BY DEF Unique
<1>2. Unique(mergeUtxos(api))
  <2> SUFFICES ASSUME NEW e \in mergeUtxos(api), NEW f \in mergeUtxos(api), e[2] = f[2]
               PROVE  e = f
    BY DEF Unique
  <2>1. \A g \in mergeUtxos(api) : /\ g = <<g[1], g[2]>> /\ g[1] \in {"api", "pending"}
                                   /\ g[1] = "api" <=> g[2] \in api
    BY DEF mergeUtxos
  <2> QED BY <2>1
<1> QED BY <1>1, <1>2

LEMMA UniqueStep == ASSUME IInv, AllUnique, [Next]_vars PROVE AllUnique'
<1> USE DEF AllUnique
<1>1. utxos \in [Txs -> SUBSET Entries] /\ inputs \in [Txs -> SUBSET Entries]
  BY DEF IInv, Shape
<1>2. \A E : \A P \in SUBSET E : Unique(E) => Unique(P) BY DEF Unique
<1>3. Unique({}) BY DEF Unique
<1>4. ASSUME NEW t \in Txs, NEW E, Unique(E), utxos' = [utxos EXCEPT ![t] = E],
             UNCHANGED inputs
      PROVE  AllUnique'
  BY <1>1, <1>4
<1>5. ASSUME NEW t \in Txs, NEW P \in SUBSET utxos[t], inputs' = [inputs EXCEPT ![t] = P],
             utxos' = [utxos EXCEPT ![t] = {}]
      PROVE  AllUnique'
  BY <1>1, <1>2, <1>3, <1>5
<1>6. CASE UNCHANGED <<utxos, inputs>> BY <1>6
<1>7. ASSUME NEW s \in Sends, Listed(s) PROVE AllUnique'
  <2>1. PICK api \in Listings : Listed(s)!(api) BY <1>7 DEF Listed
  <2> DEFINE mine == {e \in mergeUtxos(api) : request[s].src \in {"any", Output(e[2]).addr}}
  <2>2. UNCHANGED inputs /\ (UNCHANGED utxos \/ utxos' = [utxos EXCEPT ![s] = mine])
    BY <2>1 DEF txVars
  <2>3. Unique(mine) BY <1>2, MergedUnique
  <2> HIDE DEF mine
  <2>4. s \in Txs BY DEF Txs
  <2> QED BY <1>4, <1>6, <2>2, <2>3, <2>4
<1>8. ASSUME NEW s \in Sends, Build(s) PROVE AllUnique'
  <2>1. s \in Txs /\ utxos' = [utxos EXCEPT ![s] = {}] BY <1>8 DEF Build, Txs
  <2>2. UNCHANGED inputs \/ \E P \in SUBSET utxos[s] : inputs' = [inputs EXCEPT ![s] = P]
    BY <1>8 DEF Build, selectUtxos
  <2> QED BY <1>3, <1>4, <1>5, <2>1, <2>2
<1>9. ASSUME NEW u \in Updates, UpdateReads(u) PROVE AllUnique'
  <2>1. u \in Txs BY DEF Txs
  <2>2. UNCHANGED inputs /\ \E S : utxos' = [utxos EXCEPT ![u] = {"api"} \X S]
    BY <1>9 DEF UpdateReads, txVars
  <2> QED BY <1>4, <2>1, <2>2, MergedUnique
<1>10. ASSUME NEW u \in Updates, UpdateSends(u) PROVE AllUnique'
  <2>1. u \in Txs /\ utxos' = [utxos EXCEPT ![u] = {}] BY <1>10 DEF UpdateSends, Txs
  <2>2. \E P \in SUBSET utxos[u] : inputs' = [inputs EXCEPT ![u] = P]
    BY <1>10 DEF UpdateSends, selectUtxos
  <2> QED BY <1>5, <2>1, <2>2
<1>11. CASE \/ \E s \in Sends : \/ LoggedIn(s) \/ CallFails(s) \/ Sent(s) \/ BroadcastFails(s)
                               \/ \E r : serializeSend(s, r)
            \/ \E t \in Txs : NodeReceives(t) \/ Mined(t) \/ Expires(t)
            \/ Stop \/ UNCHANGED vars
  BY <1>6, <1>11 DEF LoggedIn, CallFails, Sent, BroadcastFails, serializeSend, NodeReceives,
     Mined, Expires, Stop, vars, callVars, txVars
<1> QED BY <1>7, <1>8, <1>9, <1>10, <1>11 DEF Next, SendStep, sendCurrency, sendMultiPayment,
       transferFunds

LEMMA EveryChangeStep == ASSUME EveryChange, [Next]_vars PROVE EveryChange'
<1>1. CASE UNCHANGED change BY <1>1 DEF EveryChange
<1>2. CASE \E s \in Sends : Build(s) BY <1>2 DEF EveryChange, Build
<1>3. CASE \E u \in Updates : UpdateSends(u) BY <1>3 DEF EveryChange, UpdateSends
<1> QED BY <1>1, <1>2, <1>3 DEF Next, SendStep, sendCurrency, sendMultiPayment, transferFunds,
       LoggedIn, CallFails, Listed, Sent, BroadcastFails, serializeSend, NodeReceives, Mined,
       Expires, Stop, vars, callVars, txVars, UpdateReads

(* Payments keep their inputs, and what confirmed stays so.                  *)
LEMMA Lasting ==
    ASSUME IInv, EveryChange, [Next]_vars, NEW s \in Sends
    PROVE  /\ inputs[s] \subseteq inputs'[s]
           /\ net[s] = "confirmed" => net'[s] = "confirmed"
           /\ pc[s] = "done" => pc'[s] = "done" /\ change'[s] = change[s]
<1> USE DEF IInv, Shape
<1>1. s \in Txs /\ s \notin Updates BY NameAssumption DEF Txs
<1>2. ASSUME NEW t \in Sends, Build(t) PROVE inputs[s] \subseteq inputs'[s]
  <2>1. pc[t] = "building" BY <1>2 DEF Build, Running
  <2>2. inputs[t] = {} BY <2>1 DEF OneAtATime
  <2>3. t # s => inputs'[s] = inputs[s] BY <1>1, <1>2 DEF Build
  <2> QED BY <2>2, <2>3
<1>3. inputs[s] \subseteq inputs'[s]
  <2>1. CASE UNCHANGED inputs BY <2>1
  <2>2. CASE \E u \in Updates : UpdateSends(u) BY <1>1, <2>2 DEF UpdateSends
  <2> QED BY <1>2, <2>1, <2>2 DEF Next, SendStep, sendCurrency, sendMultiPayment, transferFunds,
         LoggedIn, CallFails, Listed, Sent, BroadcastFails, serializeSend, NodeReceives, Mined,
         Expires, Stop, vars, callVars, txVars, UpdateReads
<1>4. net[s] = "confirmed" => net'[s] = "confirmed"
  <2> SUFFICES ASSUME net[s] = "confirmed" PROVE net'[s] = "confirmed" OBVIOUS
  <2>1. CASE UNCHANGED net BY <2>1
  <2>2. CASE \E u \in Updates : UpdateSends(u) BY <1>1, <2>2 DEF UpdateSends
  <2>3. CASE \E t \in Txs : NodeReceives(t) \/ Mined(t) \/ Expires(t)
    BY <1>1, <2>3 DEF NodeReceives, Mined, Expires
  <2>4. ASSUME NEW t \in Sends, Build(t) PROVE net'[s] = net[s]
    <3>1. pc[s] # "building" BY DEF MadeFirst
    <3>2. t # s BY <2>4, <3>1 DEF Build, Running
    <3> QED BY <1>1, <2>4, <3>2 DEF Build
  <2> QED BY <2>1, <2>2, <2>3, <2>4 DEF Next, SendStep, sendCurrency, sendMultiPayment,
         transferFunds, LoggedIn, CallFails, Listed, Sent, BroadcastFails, serializeSend,
         Stop, vars, callVars, txVars, memVars, UpdateReads
<1>5. pc[s] = "done" => pc'[s] = "done" /\ change'[s] = change[s]
  <2> SUFFICES ASSUME pc[s] = "done" PROVE pc'[s] = "done" /\ change'[s] = change[s] OBVIOUS
  <2>1. CASE UNCHANGED <<pc, change>> BY <2>1
  <2>2. ASSUME NEW u \in Updates, UpdateReads(u) \/ UpdateSends(u)
        PROVE  pc'[s] = "done" /\ change'[s] = change[s]
    <3>1. u # s BY <1>1
    <3>2. pc'[s] = pc[s] BY <1>1, <2>2, <3>1 DEF UpdateReads, UpdateSends
    <3>3. CASE UpdateReads(u) BY <3>2, <3>3 DEF UpdateReads, txVars
    <3>4. CASE UpdateSends(u)
      <4>1. PICK x : change' = [change EXCEPT ![u] = x] BY <3>4 DEF UpdateSends
      <4> QED BY <1>1, <3>1, <3>2, <4>1 DEF EveryChange
    <3> QED BY <2>2, <3>3, <3>4
  <2>3. ASSUME NEW t \in Sends, t # s, UNCHANGED change \/ Build(t),
               \E p : pc' = [pc EXCEPT ![t] = p]
        PROVE  pc'[s] = "done" /\ change'[s] = change[s]
    <3>1. t \in Txs /\ pc'[s] = pc[s] BY <1>1, <2>3 DEF Txs
    <3>2. UNCHANGED change \/ \E x : change' = [change EXCEPT ![t] = x] BY <2>3 DEF Build
    <3>3. change'[s] = change[s] BY <1>1, <2>3, <3>2 DEF EveryChange
    <3> QED BY <3>1, <3>3
  <2>4. ASSUME NEW t \in Sends, SendStep(t)
        PROVE  /\ t # s /\ \E p : pc' = [pc EXCEPT ![t] = p]
               /\ UNCHANGED change \/ Build(t)
    BY <2>4 DEF SendStep, LoggedIn, CallFails, Listed, Build, Sent, BroadcastFails, Running, Fail,
       Settle, txVars
  <2>5. ASSUME NEW t \in Sends, NEW r, serializeSend(t, r)
        PROVE  t # s /\ UNCHANGED change /\ \E p : pc' = [pc EXCEPT ![t] = p]
    BY <2>5 DEF serializeSend, txVars
  <2> QED BY <2>1, <2>2, <2>3, <2>4, <2>5 DEF Next, sendCurrency, sendMultiPayment, transferFunds,
         NodeReceives, Mined, Expires, Stop, vars, callVars, txVars
<1> QED BY <1>3, <1>4, <1>5

LEMMA SpentStep == ASSUME IInv, SpentIsUsed, EveryChange, [Next]_vars PROVE SpentIsUsed'
<1>1. \A t \in Sends : CoinsOf(inputs[t]) \subseteq CoinsOf(inputs'[t])
  BY Lasting DEF CoinsOf
<1>2. CASE Elems(spentUtxos') \subseteq Elems(spentUtxos) BY <1>1, <1>2 DEF SpentIsUsed
<1>3. ASSUME NEW s \in Sends, Build(s) PROVE SpentIsUsed'
  <2>1. CASE UNCHANGED spentUtxos BY <1>2, <2>1 DEF Elems
  <2>2. CASE ~UNCHANGED spentUtxos
    <3>1. PICK P \in SUBSET utxos[s] :
            \E q \in Orders(CoinsOf(P) \ Elems(spentUtxos)) :
              /\ inputs' = [inputs EXCEPT ![s] = P]
              /\ spentUtxos' \in {EvictSpent(spentUtxos \o q), spentUtxos \o q}
      BY <1>3, <2>2 DEF Build, selectUtxos
    <3>2. PICK q \in Orders(CoinsOf(P) \ Elems(spentUtxos)) :
              spentUtxos' \in {EvictSpent(spentUtxos \o q), spentUtxos \o q}
      BY <3>1
    <3>3. s \in Txs /\ P \subseteq Entries /\ spentUtxos \in Seq(Coins) /\ inputs'[s] = P
      BY <3>1 DEF Txs, IInv, Shape
    <3>4. CoinsOf(P) \subseteq Coins BY <3>3 DEF CoinsOf, Entries
    <3>5. q \in Seq(Coins) /\ Elems(q) \subseteq CoinsOf(P) BY <3>2, <3>4, OrdersList
    <3>6. /\ spentUtxos \o q \in Seq(Coins)
          /\ Elems(spentUtxos \o q) = Elems(spentUtxos) \cup Elems(q)
      BY <3>3, <3>5, ConcatElems
    <3>7. Elems(spentUtxos') \subseteq Elems(spentUtxos) \cup CoinsOf(inputs'[s])
      BY <3>2, <3>3, <3>5, <3>6, EvictForgets
    <3> QED BY <1>1, <3>7 DEF SpentIsUsed
  <2> QED BY <2>1, <2>2
<1>4. CASE Stop BY <1>2, <1>4 DEF Stop, Elems
<1>5. CASE UNCHANGED spentUtxos BY <1>2, <1>5 DEF Elems
<1> QED BY <1>3, <1>4, <1>5 DEF Next, SendStep, sendCurrency, sendMultiPayment, transferFunds,
       LoggedIn, CallFails, Listed, Sent, BroadcastFails, serializeSend, NodeReceives, Mined,
       Expires, vars, memVars, UpdateReads, UpdateSends

(* Pending change leaves the list confirmed, spent or dropped; nothing that  *)
(* was dropped comes back.                                                   *)
LEMMA PendingStep ==
    ASSUME IInv, SpentIsUsed, [Next]_vars
    PROVE  /\ dropped \subseteq dropped'
           /\ \A c \in Pending : \/ c \in Pending' \/ c \in dropped'
                                 \/ c \in Sends => net[c] = "confirmed"
                                 \/ \E t \in Sends : c \in CoinsOf(inputs[t])
<1>1. CASE UNCHANGED <<pendingChange, dropped>> BY <1>1 DEF Pending
<1>2. ASSUME NEW s \in Sends, Listed(s)
      PROVE  /\ UNCHANGED dropped
             /\ \A c \in Pending : \/ c \in Pending'
                                   \/ c \in Sends => net[c] = "confirmed"
                                   \/ \E t \in Sends : c \in CoinsOf(inputs[t])
  <2>1. PICK api \in Listings : pendingChange' = prunePending(api) BY <1>2 DEF Listed
  <2>2. \A c \in api : c \in Sends => net[c] = "confirmed"
    BY <2>1, NameAssumption DEF Listings, Confirmed, Txs
  <2>3. \A c \in Pending : c \in Pending' \/ c \in Elems(spentUtxos) \/ c \in api
    BY <2>1 DEF Pending, CoinsOf, prunePending
  <2>4. UNCHANGED dropped BY <1>2 DEF Listed
  <2>5. ASSUME NEW c \in Elems(spentUtxos) PROVE \E t \in Sends : c \in CoinsOf(inputs[t])
    BY DEF SpentIsUsed
  <2>6. ASSUME NEW c \in Pending
        PROVE  \/ c \in Pending' \/ (c \in Sends => net[c] = "confirmed")
               \/ \E t \in Sends : c \in CoinsOf(inputs[t])
    <3>1. CASE c \in Elems(spentUtxos) BY <2>5, <3>1
    <3>2. CASE c \in api BY <2>2, <3>2
    <3> QED BY <2>3, <3>1, <3>2
  <2> QED BY <2>4, <2>6
<1>3. ASSUME NEW s \in Sends, Sent(s)
      PROVE  dropped \subseteq dropped' /\ \A c \in Pending : c \in Pending' \/ c \in dropped'
  <2>1. PICK all : /\ pendingChange \subseteq all
                   /\ dropped' = dropped \cup (CoinsOf(all) \ CoinsOf(pendingChange'))
    BY <1>3 DEF Sent
  <2> QED BY <2>1 DEF Pending, CoinsOf
<1>4. ASSUME NEW s \in Sends, Build(s) PROVE UNCHANGED pendingChange /\ dropped \subseteq dropped'
  BY <1>4 DEF Build
<1>5. CASE Stop BY <1>5 DEF Stop
<1>6. CASE \E s \in Sends : Build(s) BY <1>4, <1>6 DEF Pending
<1> QED BY <1>1, <1>2, <1>3, <1>5, <1>6 DEF Next, SendStep, sendCurrency, sendMultiPayment,
       transferFunds, LoggedIn, CallFails, BroadcastFails, serializeSend, NodeReceives, Mined,
       Expires, vars, memVars, UpdateReads, UpdateSends

(* A payment that is reported as sent leaves its change behind.              *)
LEMMA ChainedStep == ASSUME IInv, ChainInv, [Next]_vars PROVE ChangeChained'
<1> USE DEF ChainInv
<1> SUFFICES ASSUME NEW s \in Sends, pc'[s] = "done", change'[s].value > 0
             PROVE  \/ s \in Pending' \/ net'[s] = "confirmed" \/ s \in dropped'
                    \/ \E t \in Sends : s \in CoinsOf(inputs'[t])
  BY DEF ChangeChained, Spends
<1>1. s \in Txs BY DEF Txs
<1>2. \A t \in Sends : CoinsOf(inputs[t]) \subseteq CoinsOf(inputs'[t])
  BY Lasting DEF CoinsOf
<1>3. CASE pc[s] = "done"
  <2>1. change[s].value > 0 /\ (net[s] = "confirmed" => net'[s] = "confirmed")
    BY <1>3, Lasting
  <2>2. \/ s \in Pending \/ net[s] = "confirmed" \/ s \in dropped
        \/ \E t \in Sends : s \in CoinsOf(inputs[t])
    BY <1>3, <2>1 DEF ChangeChained, Spends
  <2> QED BY <1>2, <2>1, <2>2, PendingStep
<1>4. CASE pc[s] # "done"
  <2>1. Sent(s)
    <3>1. pc \in [Txs -> PCs] BY DEF IInv, Shape
    <3>2. ASSUME NEW t \in Sends, SendStep(t), ~Sent(t)
          PROVE  \E p \in PCs \ {"done"} : pc' = [pc EXCEPT ![t] = p]
      BY <3>2 DEF SendStep, LoggedIn, CallFails, Listed, Build, BroadcastFails, Fail, Settle, PCs
    <3>3. ASSUME NEW t \in Sends, Sent(t), t # s PROVE pc'[s] = pc[s]
      BY <1>1, <3>1, <3>3 DEF Sent, Settle
    <3>4. ASSUME NEW t \in Sends, NEW r, serializeSend(t, r)
          PROVE  pc' = [pc EXCEPT ![t] = "queued"]
      BY <3>4 DEF serializeSend
    <3>5. ASSUME NEW u \in Updates, UpdateReads(u) \/ UpdateSends(u)
          PROVE  \E p \in {"building", "sending"} : pc' = [pc EXCEPT ![u] = p]
      BY <3>5 DEF UpdateReads, UpdateSends
    <3>6. ASSUME NEW t, NEW p, p # "done", pc' = [pc EXCEPT ![t] = p] PROVE FALSE
      BY <1>1, <1>4, <3>1, <3>6
    <3>7. pc' # pc BY <1>4
    <3> QED BY <1>4, <3>2, <3>3, <3>4, <3>5, <3>6, <3>7 DEF Next, SendStep, sendCurrency,
           sendMultiPayment, transferFunds, NodeReceives, Mined, Expires, Stop, vars, callVars
  <2>2. UNCHANGED change BY <2>1 DEF Sent, txVars
  <2>3. PICK n : LET all == pendingChange \cup {<<n, s>>}
                 IN  dropped' = dropped \cup (CoinsOf(all) \ CoinsOf(pendingChange'))
    BY <2>1, <2>2 DEF Sent
  <2>4. s \in CoinsOf(pendingChange \cup {<<n, s>>})
    <3>1. <<n, s>>[2] = s OBVIOUS
    <3> QED BY <3>1 DEF CoinsOf
  <2> QED BY <2>3, <2>4 DEF Pending
<1> QED BY <1>3, <1>4

LEMMA ChainInvariance == Spec => []ChainInv
<1>1. Init => ChainInv
  <2> SUFFICES ASSUME Init PROVE ChainInv OBVIOUS
  <2>1. AllUnique BY DEF Init, AllUnique, Unique
  <2>2. Elems(<<>>) = {} BY DEF Elems
  <2>3. SpentIsUsed BY <2>2 DEF Init, SpentIsUsed
  <2>4. EveryChange BY DEF Init, EveryChange
  <2>5. ChangeChained BY DEF Init, ChangeChained, Txs
  <2> QED BY <2>1, <2>3, <2>4, <2>5 DEF ChainInv
<1>2. IInv /\ ChainInv /\ [Next]_vars => ChainInv'
  BY UniqueStep, SpentStep, EveryChangeStep, ChainedStep DEF ChainInv
<1> QED BY Invariance, <1>1, <1>2, PTL DEF Spec

(* No transaction lists an input twice, although confirmed change is in two  *)
(* lists for a while (mergeUtxos).                                           *)
THEOREM InputsDistinct == Spec => []NoDuplicateInputs
<1>1. ChainInv => NoDuplicateInputs BY DEF ChainInv, AllUnique, Unique, NoDuplicateInputs
<1> QED BY ChainInvariance, <1>1, PTL

(* The change of a payment that was sent stays available to the next one     *)
(* until stop() or the cap on _pendingChange drops it.                       *)
THEOREM ChangeKept == Spec => []ChangeChained
<1>1. ChainInv => ChangeChained BY DEF ChainInv
<1> QED BY ChainInvariance, <1>1, PTL

----------------------------------------------------------------------------
(* What coins are worth.  Total is a fold of the community modules, that is,  *)
(* a recursive function; a smallest counterexample stands in for induction.   *)

\* Every set of naturals has a least element.
LEMMA LeastExists ==
    ASSUME NEW S \in SUBSET Nat, S # {}
    PROVE  \E n \in S : \A m \in S : n <= m
<1> DEFINE R == OpToRel(<, Nat)
<1>1. IsWellFoundedOn(R, Nat) BY NatLessThanWellFounded
<1>2. \A x, y \in Nat : y < x => <<y, x>> \in R BY DEF OpToRel
<1> HIDE DEF R
<1>3. PICK n \in S : \A m \in S : ~ (<<m, n>> \in R) BY <1>1, WFMin
<1>4. n \in Nat BY <1>3
<1>5. \A m \in S : m \in Nat /\ ~ (m < n) BY <1>2, <1>3, <1>4
<1>6. \A m \in S : n <= m BY <1>4, <1>5
<1> QED BY <1>3, <1>6

\* The sum of f over E, element by element, as the fold defines it.
Pick(s) == CHOOSE x \in s : TRUE
Sum(f, s, it) == IF s = {} THEN 0 ELSE f[Pick(s)] + it[s \ {Pick(s)}]
SumOver(f, E) == (CHOOSE it : it = [s \in SUBSET E |-> Sum(f, s, it)])[E]

\* The element the fold takes next is one of the set.
LEMMA PickIn == ASSUME NEW s, s # {} PROVE Pick(s) \in s
BY DEF Pick

\* The recursion has a solution: one for the sets of n elements extends to those
\* of n + 1.
LEMMA SumExists ==
    ASSUME NEW E, IsFiniteSet(E), NEW f \in [E -> Nat]
    PROVE  \E it \in [SUBSET E -> Nat] : it = [s \in SUBSET E |-> Sum(f, s, it)]
<1> DEFINE Small(n) == {s \in SUBSET E : Cardinality(s) <= n}
           Sums(n)  == \E it \in [Small(n) -> Nat] : \A s \in Small(n) : it[s] = Sum(f, s, it)
           Bad      == {n \in Nat : ~ Sums(n)}
<1>1. \A s \in SUBSET E :
        IsFiniteSet(s) /\ Cardinality(s) \in Nat /\ Cardinality(s) <= Cardinality(E)
  BY FS_Subset, FS_CardinalityType
<1>2. \A s \in SUBSET E : s # {} =>
        /\ Pick(s) \in E /\ s \ {Pick(s)} \in SUBSET E
        /\ Cardinality(s \ {Pick(s)}) = Cardinality(s) - 1
  BY <1>1, PickIn, FS_RemoveElement
<1>3. \A s \in SUBSET E : Cardinality(s) = 0 => s = {}
  BY <1>1, FS_EmptySet
<1>4. Sums(0)
  <2> DEFINE it == [s \in Small(0) |-> 0]
  <2>1. \A s \in Small(0) : s = {} BY <1>1, <1>3
  <2>2. \A s \in Small(0) : it[s] = Sum(f, s, it) BY <2>1 DEF Sum
  <2>3. it \in [Small(0) -> Nat] OBVIOUS
  <2> QED BY <2>2, <2>3
<1>5. ASSUME NEW n \in Nat, Sums(n) PROVE Sums(n + 1)
  <2>1. PICK g \in [Small(n) -> Nat] : \A s \in Small(n) : g[s] = Sum(f, s, g) BY <1>5
  <2> DEFINE it == [s \in Small(n + 1) |-> Sum(f, s, g)]
  <2>2. \A s \in Small(n + 1) : s # {} => s \ {Pick(s)} \in Small(n) BY <1>1, <1>2
  <2>3. \A s \in Small(n) : s \in Small(n + 1) BY <1>1
  <2>4. \A s \in Small(n) : it[s] = g[s] BY <2>1, <2>3
  <2>5. \A s \in Small(n + 1) : s \in SUBSET E OBVIOUS
  <2> HIDE DEF Small
  <2>6. \A s \in Small(n + 1) : Sum(f, s, g) \in Nat
    BY <1>2, <2>2, <2>5 DEF Sum
  <2>7. \A s \in Small(n + 1) : Sum(f, s, g) = Sum(f, s, it)
    BY <2>2, <2>4 DEF Sum
  <2>8. it \in [Small(n + 1) -> Nat] BY <2>6
  <2>9. \A s \in Small(n + 1) : it[s] = Sum(f, s, it) BY <2>7
  <2> QED BY <2>8, <2>9
<1>6. Bad = {}
  <2> SUFFICES ASSUME Bad # {} PROVE FALSE OBVIOUS
  <2> HIDE DEF Sums
  <2>1. PICK n \in Bad : \A m \in Bad : n <= m BY LeastExists
  <2>2. n # 0 BY <1>4, <2>1
  <2>3. n - 1 \in Nat /\ n - 1 \notin Bad BY <2>1, <2>2
  <2>4. Sums(n - 1) BY <2>3
  <2>5. Sums((n - 1) + 1) BY <1>5, <2>3, <2>4
  <2> QED BY <2>1, <2>5
<1>7. Cardinality(E) \in Nat BY FS_CardinalityType
<1>8. Small(Cardinality(E)) = SUBSET E BY <1>1
<1>9. Sums(Cardinality(E)) BY <1>6, <1>7
<1>10. PICK it \in [SUBSET E -> Nat] : \A s \in SUBSET E : it[s] = Sum(f, s, it)
  BY <1>8, <1>9
<1>11. it = [s \in SUBSET E |-> Sum(f, s, it)] BY <1>10
<1> QED BY <1>11

\* Whatever satisfies the equation is a natural number everywhere.
LEMMA SumType ==
    ASSUME NEW E, IsFiniteSet(E), NEW f \in [E -> Nat]
    PROVE  SumOver(f, E) \in Nat
<1> DEFINE it == CHOOSE it : it = [s \in SUBSET E |-> Sum(f, s, it)]
<1>1. it = [s \in SUBSET E |-> Sum(f, s, it)] BY SumExists
<1>2. \A s \in SUBSET E : it[s] = Sum(f, s, it)  BY <1>1
<1> HIDE DEF it
<1>a. it[{}] = 0
  <2>1. Sum(f, {}, it) = 0 BY DEF Sum
  <2>2. {} \in SUBSET E OBVIOUS
  <2> QED BY <1>2, <2>1, <2>2
<1>b. \A s \in SUBSET E : s # {} => it[s] = f[Pick(s)] + it[s \ {Pick(s)}]
  <2>1. \A s : s # {} => Sum(f, s, it) = f[Pick(s)] + it[s \ {Pick(s)}] BY DEF Sum
  <2> QED BY <1>2, <2>1
<1> DEFINE Bad == {n \in Nat : \E s \in SUBSET E : it[s] \notin Nat /\ Cardinality(s) = n}
<1>3. \A s \in SUBSET E : IsFiniteSet(s) /\ Cardinality(s) \in Nat
  BY FS_Subset, FS_CardinalityType
<1>4. \A s \in SUBSET E : s # {} =>
        /\ Pick(s) \in E /\ s \ {Pick(s)} \in SUBSET E
        /\ Cardinality(s \ {Pick(s)}) = Cardinality(s) - 1
  BY <1>3, PickIn, FS_RemoveElement
<1>5. Bad = {}
  <2> SUFFICES ASSUME Bad # {} PROVE FALSE OBVIOUS
  <2>1. Bad \subseteq Nat BY <1>3
  <2>2. PICK n \in Bad : \A m \in Bad : n <= m BY <2>1, LeastExists
  <2>3. PICK s \in SUBSET E : it[s] \notin Nat /\ Cardinality(s) = n BY <2>2
  <2>4. s # {} BY <1>a, <2>3
  <2>5. it[s \ {Pick(s)}] \in Nat
    <3> SUFFICES ASSUME it[s \ {Pick(s)}] \notin Nat PROVE FALSE OBVIOUS
    <3>1. Cardinality(s \ {Pick(s)}) \in Bad BY <1>3, <1>4, <2>3, <2>4
    <3>2. n <= n - 1 BY <1>4, <2>2, <2>3, <2>4, <3>1
    <3> QED BY <2>1, <2>2, <3>2
  <2>6. it[s] = f[Pick(s)] + it[s \ {Pick(s)}] BY <1>b, <2>3, <2>4
  <2>7. f[Pick(s)] \in Nat BY <1>4, <2>3, <2>4
  <2> QED BY <2>3, <2>5, <2>6, <2>7
<1>6. it[E] \in Nat
  <2>1. E \in SUBSET E /\ Cardinality(E) \in Nat BY FS_CardinalityType
  <2> QED BY <1>5, <2>1
<1> QED BY <1>6 DEF SumOver, it

Value(E) == [e \in E |-> Output(e[2]).value]

\* Total is that sum, of the values of the coins.
LEMMA TotalIsSum == \A E : Total(E) = SumOver(Value(E), E)
<1> SUFFICES ASSUME NEW E PROVE Total(E) = SumOver(Value(E), E) OBVIOUS
<1> DEFINE Body(it) == [s \in SUBSET E |->
              IF s = {} THEN 0 ELSE Output(Pick(s)[2]).value + it[s \ {Pick(s)}]]
<1>1. Total(E) = (CHOOSE it : it = Body(it))[E]
  BY Zenon DEF Total, MapThenSumSet, MapThenFoldSet, Pick
<1>2. ASSUME NEW it PROVE Body(it) = [s \in SUBSET E |-> Sum(Value(E), s, it)]
  <2>1. \A s \in SUBSET E : (IF s = {} THEN 0 ELSE Output(Pick(s)[2]).value + it[s \ {Pick(s)}])
           = Sum(Value(E), s, it)
    BY PickIn DEF Sum, Value
  <2> QED BY <2>1
<1> HIDE DEF Body
<1>3. (CHOOSE it : it = Body(it)) = (CHOOSE it : it = [s \in SUBSET E |-> Sum(Value(E), s, it)])
  BY <1>2
<1> QED BY <1>1, <1>3 DEF SumOver

\* A finite set of naturals has a greatest element.
LEMMA MaxIsNat ==
    ASSUME NEW S \in SUBSET Nat, IsFiniteSet(S), S # {}
    PROVE  Max(S) \in Nat
<1> DEFINE Top(T) == \E x \in T : \A y \in T : x >= y
           Bad    == {n \in Nat : \E T \in SUBSET Nat : /\ IsFiniteSet(T) /\ T # {}
                                                        /\ Cardinality(T) = n /\ ~ Top(T)}
<1>1. Bad = {}
  <2> SUFFICES ASSUME Bad # {} PROVE FALSE OBVIOUS
  <2>1. PICK n \in Bad : \A m \in Bad : n <= m BY LeastExists
  <2>2. PICK T \in SUBSET Nat : IsFiniteSet(T) /\ T # {} /\ Cardinality(T) = n /\ ~ Top(T)
    BY <2>1
  <2>3. PICK x \in T : TRUE BY <2>2
  <2> DEFINE U == T \ {x}
  <2>4. IsFiniteSet(U) /\ Cardinality(U) = n - 1 /\ n - 1 \in Nat
    <3>1. IsFiniteSet(U) /\ Cardinality(U) = Cardinality(T) - 1
      BY <2>2, <2>3, FS_RemoveElement
    <3>2. Cardinality(U) \in Nat BY <3>1, FS_CardinalityType
    <3> QED BY <2>2, <3>1, <3>2
  <2>5. n - 1 \notin Bad BY <2>1, <2>4
  <2>6. CASE U = {}
    <3>1. \A y \in T : x >= y BY <2>2, <2>3, <2>6
    <3> QED BY <2>2, <2>3, <3>1
  <2>7. CASE U # {}
    <3>1. PICK u \in U : \A y \in U : u >= y BY <2>4, <2>5, <2>7
    <3>2. u \in T /\ u \in Nat /\ x \in Nat BY <2>3
    <3>3. CASE u >= x BY <2>2, <3>1, <3>2, <3>3
    <3>4. CASE x >= u BY <2>2, <2>3, <3>1, <3>2, <3>4
    <3> QED BY <3>2, <3>3, <3>4
  <2> QED BY <2>6, <2>7
<1>2. Cardinality(S) \in Nat BY FS_CardinalityType
<1>3. \E x \in S : \A y \in S : x >= y BY <1>1, <1>2
<1> QED BY <1>3 DEF Max

\* The numbers of a finite set of numbered coins are finitely many.
LEMMA FirstsFinite ==
    ASSUME NEW S, IsFiniteSet(S)
    PROVE  IsFiniteSet({p[1] : p \in S})
<1> DEFINE T == {p[1] : p \in S}  f == [p \in S |-> p[1]]
<1>1. f \in Surjection(S, T) BY DEF Surjection
<1> HIDE DEF f, T
<1>2. IsFiniteSet(T) BY <1>1, FS_Surjection
<1> QED BY <1>2 DEF T

\* There are finitely many entries to choose from.
LEMMA EntriesFinite == \A E \in SUBSET Entries : IsFiniteSet(E)
<1>1. IsFiniteSet(Coins) BY FS_Union, NameAssumption DEF Coins
<1>2. IsFiniteSet({"api"}) /\ IsFiniteSet({"pending"}) BY FS_Singleton
<1>3. IsFiniteSet({"api"} \cup {"pending"}) BY <1>2, FS_Union
<1>4. {"api"} \cup {"pending"} = {"api", "pending"} OBVIOUS
<1>5. IsFiniteSet(Entries) BY <1>1, <1>3, <1>4, FS_Product DEF Entries
<1> QED BY <1>5, FS_Subset

\* Every coin has a value.
LEMMA OutputType ==
    ASSUME change \in [Txs -> Outputs]
    PROVE  \A c \in Coins : Output(c).value \in Nat
BY CoinAssumption DEF Output, Coins, Outputs

\* What a set of coins is worth is a natural number.
LEMMA TotalType ==
    ASSUME change \in [Txs -> Outputs], NEW E \in SUBSET Entries
    PROVE  Total(E) \in Nat
<1>1. \A e \in E : Output(e[2]).value \in Nat BY OutputType DEF Entries
<1>2. Value(E) \in [E -> Nat] BY <1>1 DEF Value
<1>3. IsFiniteSet(E) BY EntriesFinite
<1>4. SumOver(Value(E), E) \in Nat BY <1>2, <1>3, SumType
<1> QED BY <1>4, TotalIsSum

\* The same for what a transaction spends, in this state and in the next.
LEMMA InputsTotal == \A t \in Txs : Total(inputs[t]) = SumOver(Value(inputs[t]), inputs[t])
BY TotalIsSum

LEMMA InputsTotalNext == (\A t \in Txs : Total(inputs[t]) = SumOver(Value(inputs[t]), inputs[t]))'
BY InputsTotal, PTL

\* ... and changes only with the coins.
LEMMA TotalNext ==
    ASSUME NEW t \in Txs, NEW P, inputs'[t] = P,
           \A e \in P : Output(e[2])' = Output(e[2])
    PROVE  Total(inputs[t])' = Total(P)
<1>1. Total(inputs[t])' = SumOver(Value(inputs[t]), inputs[t])' BY InputsTotalNext
<1>2. Value(inputs[t])' = [e \in P |-> Output(e[2])'.value] BY DEF Value
<1>3. Value(inputs[t])' = Value(P) BY <1>2 DEF Value
<1>4. SumOver(Value(inputs[t]), inputs[t])' = SumOver(Value(P), P) BY <1>3
<1> QED BY <1>1, <1>4, TotalIsSum

----------------------------------------------------------------------------
(* Money adds up.                                                             *)

(* Nothing is asked, built or spent initially.                               *)
LEMMA MoneyInit == Init => MoneyInv
<1> SUFFICES ASSUME Init PROVE MoneyInv OBVIOUS
<1>1. IInv BY InitInv
<1>2. TypeOK
  <2>1. [value |-> 0, addr |-> "R"] \in Outputs BY DEF Outputs, Addrs
  <2>2. NoRequest \in Requests BY DEF NoRequest, Requests
  <2>3. change \in [Txs -> Outputs] /\ request \in [Sends -> Requests]
    BY <2>1, <2>2 DEF Init
  <2>4. pendingChange \in SUBSET (Nat \X Coins) BY DEF Init
  <2> QED BY <1>1, <2>3, <2>4 DEF TypeOK, IInv
<1>3. IsFiniteSet(pendingChange) BY FS_EmptySet DEF Init
<1>4. /\ \A t \in Txs : /\ pc[t] = "none" /\ net[t] = "none" /\ inputs[t] = {}
                        /\ CoinsOf(utxos[t]) = {} /\ CoinsOf(inputs[t]) = {}
      /\ Pending = {} /\ \A s \in Sends : s \in Txs
  BY DEF Init, Pending, CoinsOf, Txs
<1>5. BuiltOnce /\ KnownIsBuilt /\ ChangeComesHome /\ PaysWhatWasAsked
  BY <1>4 DEF BuiltOnce, KnownIsBuilt, ChangeComesHome, PaysWhatWasAsked
<1> QED BY <1>2, <1>3, <1>5 DEF MoneyInv

\* Who writes what: one fact for each variable that money depends on.
LEMMA Writes ==
    ASSUME [Next]_vars
    PROVE  /\ \/ UNCHANGED change
              \/ \E s \in Sends : Build(s)
              \/ \E u \in Updates : UpdateSends(u)
           /\ \/ UNCHANGED request
              \/ \E s \in Sends, a \in Amounts :
                   \/ \E o \in Options : sendCurrency(s, a, o)
                   \/ sendMultiPayment(s, a)
                   \/ \E from \in Addrs : transferFunds(s, from, a)
           /\ \/ UNCHANGED pendingChange
              \/ \E s \in Sends : Listed(s) \/ Sent(s)
              \/ Stop
           /\ \/ UNCHANGED inputs
              \/ \E s \in Sends : Build(s)
              \/ \E u \in Updates : UpdateSends(u)
           /\ \/ UNCHANGED utxos
              \/ \E s \in Sends : Listed(s) \/ Build(s)
              \/ \E u \in Updates : UpdateReads(u) \/ UpdateSends(u)
           /\ \/ UNCHANGED net
              \/ \E s \in Sends : Build(s)
              \/ \E u \in Updates : UpdateSends(u)
              \/ \E t \in Txs : NodeReceives(t) \/ Mined(t) \/ Expires(t)
BY DEF Next, SendStep, sendCurrency, sendMultiPayment, transferFunds,
       LoggedIn, CallFails, Listed, Build, Sent, BroadcastFails, serializeSend, NodeReceives,
       Mined, Expires, Stop, vars, callVars, txVars, memVars, UpdateReads, UpdateSends

\* A request is of its type, and fixed once the call is queued.
LEMMA RequestStep ==
    ASSUME MoneyInv, [Next]_vars
    PROVE  /\ request' \in [Sends -> Requests]
           /\ \A s \in Sends : pc[s] # "none" => request'[s] = request[s]
<1> DEFINE Goal == /\ request' \in [Sends -> Requests]
                   /\ \A s \in Sends : pc[s] # "none" => request'[s] = request[s]
<1>1. request \in [Sends -> Requests] BY DEF MoneyInv, TypeOK
<1>2. ASSUME NEW s \in Sends, NEW r \in Requests, serializeSend(s, r) PROVE Goal
  BY <1>1, <1>2 DEF serializeSend
<1>3. ASSUME NEW s \in Sends, NEW a \in Amounts, NEW o \in Options, sendCurrency(s, a, o)
      PROVE  Goal
  <2>1. [kind |-> "currency", amount |-> a, src |-> o.src, change |-> o.change] \in Requests
    BY CoinAssumption DEF Requests
  <2> QED BY <1>2, <1>3, <2>1 DEF sendCurrency
<1>4. ASSUME NEW s \in Sends, NEW a \in Amounts, sendMultiPayment(s, a) PROVE Goal
  <2>1. [kind |-> "multi", amount |-> a, src |-> "any", change |-> "auto"] \in Requests
    BY DEF Requests
  <2> QED BY <1>2, <1>4, <2>1 DEF sendMultiPayment
<1>5. ASSUME NEW s \in Sends, NEW a \in Amounts, NEW from \in Addrs, transferFunds(s, from, a)
      PROVE  Goal
  <2>1. [kind |-> "currency", amount |-> a, src |-> from, change |-> from] \in Requests
    BY DEF Requests
  <2> QED BY <1>2, <1>5, <2>1 DEF transferFunds, sendCurrency
<1>6. CASE UNCHANGED request BY <1>1, <1>6
<1> QED BY <1>3, <1>4, <1>5, <1>6, Writes

\* mergeUtxos() forgets, Sent() adds one, stop() empties.
LEMMA PendingStepType ==
    ASSUME MoneyInv, [Next]_vars
    PROVE  pendingChange' \in SUBSET (Nat \X Coins) /\ IsFiniteSet(pendingChange')
<1>1. pendingChange \in SUBSET (Nat \X Coins) /\ IsFiniteSet(pendingChange)
  BY DEF MoneyInv, TypeOK
<1>2. ASSUME NEW s \in Sends, Listed(s) PROVE pendingChange' \in SUBSET pendingChange
  BY <1>2 DEF Listed, prunePending
<1>3. ASSUME NEW s \in Sends, Sent(s)
      PROVE  \E all : /\ all \in SUBSET (Nat \X Coins) /\ IsFiniteSet(all)
                      /\ pendingChange' \in SUBSET all
  <2> DEFINE firsts == {p[1] : p \in pendingChange}
             n      == 1 + Max(firsts \cup {0})
             new    == IF change[s].value > 0 THEN {<<n, s>>} ELSE {}
             all    == pendingChange \cup new
  <2>1. IsFiniteSet(firsts) /\ firsts \subseteq Nat BY <1>1, FirstsFinite
  <2>2. IsFiniteSet(firsts \cup {0}) BY <2>1, FS_Singleton, FS_Union
  <2>3. Max(firsts \cup {0}) \in Nat BY <2>1, <2>2, MaxIsNat
  <2>4. n \in Nat /\ s \in Coins BY <2>3 DEF Coins, Txs
  <2>5. IsFiniteSet(new) BY FS_EmptySet, FS_Singleton
  <2>c. new \in SUBSET (Nat \X Coins) BY <2>4
  <2>6. all \in SUBSET (Nat \X Coins) /\ IsFiniteSet(all)
    <3> HIDE DEF new
    <3>1. IsFiniteSet(pendingChange \cup new) BY <1>1, <2>5, FS_Union
    <3> QED BY <1>1, <2>c, <3>1
  <2>7. pendingChange' \in SUBSET all BY <1>3 DEF Sent, ShiftPending
  <2> QED BY <2>6, <2>7
<1>4. CASE Stop BY <1>4, FS_EmptySet DEF Stop
<1> QED BY <1>1, <1>2, <1>3, <1>4, Writes, FS_Subset

\* The transactions that are built by a step, and those on their way.
LEMMA BuilderIs ==
    ASSUME NEW t \in Txs, \/ t \in Sends /\ Build(t)
                          \/ t \in Updates /\ UpdateSends(t)
    PROVE  pc[t] = "building"
BY DEF Build, Running, UpdateSends

\* Building a transaction gives it its inputs and sends it off, once.
LEMMA BuiltStep == ASSUME IInv, MoneyInv, [Next]_vars PROVE BuiltOnce'
<1> USE DEF BuiltOnce
<1>1. /\ pc \in [Txs -> PCs] /\ net \in [Txs -> Nets] /\ inputs \in [Txs -> SUBSET Entries]
  BY DEF IInv, Shape
<1>2. BuiltOnce /\ \A s \in Sends : s \in Txs /\ s \notin Updates
  BY NameAssumption DEF MoneyInv, Txs
<1>3. ASSUME NEW s \in Sends, LoggedIn(s) PROVE BuiltOnce'
  BY <1>1, <1>2, <1>3 DEF LoggedIn, Running, txVars
<1>4. ASSUME NEW s \in Sends, CallFails(s) PROVE BuiltOnce'
  BY <1>1, <1>2, <1>4 DEF CallFails, Fail, Settle, Running, txVars
<1>5. ASSUME NEW s \in Sends, Listed(s) PROVE BuiltOnce'
  <2>1. \/ pc' = [pc EXCEPT ![s] = "failed"]
        \/ pc' = [pc EXCEPT ![s] = "building"]
    BY <1>5 DEF Listed, Fail, Settle
  <2>2. pc[s] = "listing" /\ UNCHANGED <<net, inputs>> BY <1>5 DEF Listed, Running, txVars
  <2> QED BY <1>1, <1>2, <2>1, <2>2
<1>6. ASSUME NEW s \in Sends, Build(s) PROVE BuiltOnce'
  <2>1. \/ pc' = [pc EXCEPT ![s] = "failed"] /\ UNCHANGED <<net, inputs>>
        \/ /\ pc' = [pc EXCEPT ![s] = "sending"] /\ net' = [net EXCEPT ![s] = "wire"]
           /\ \E P : inputs' = [inputs EXCEPT ![s] = P]
    BY <1>6 DEF Build, Fail, Settle
  <2>2. pc[s] = "building" BY <1>6 DEF Build, Running
  <2> QED BY <1>1, <1>2, <2>1, <2>2
<1>7. ASSUME NEW s \in Sends, Sent(s) \/ BroadcastFails(s) PROVE BuiltOnce'
  <2>1. /\ pc[s] = "sending" /\ UNCHANGED <<net, inputs>>
        /\ pc' = [pc EXCEPT ![s] = "done"] \/ pc' = [pc EXCEPT ![s] = "failed"]
    BY <1>7 DEF Sent, BroadcastFails, Fail, Settle, Running, txVars
  <2> QED BY <1>1, <1>2, <2>1
<1>8. ASSUME NEW s \in Sends, NEW r, serializeSend(s, r) PROVE BuiltOnce'
  BY <1>1, <1>2, <1>8 DEF serializeSend, txVars
<1>9. ASSUME NEW u \in Updates, UpdateReads(u) PROVE BuiltOnce'
  BY <1>1, <1>2, <1>9 DEF UpdateReads, txVars, Txs
<1>10. ASSUME NEW u \in Updates, UpdateSends(u) PROVE BuiltOnce'
  <2>1. /\ pc' = [pc EXCEPT ![u] = "sending"] /\ net' = [net EXCEPT ![u] = "wire"]
        /\ \E P : inputs' = [inputs EXCEPT ![u] = P]
    BY <1>10 DEF UpdateSends
  <2>2. pc[u] = "building" /\ u \in Txs BY <1>10 DEF UpdateSends, Txs
  <2> QED BY <1>1, <1>2, <2>1, <2>2
<1>11. ASSUME NEW t \in Txs, NodeReceives(t) \/ Mined(t) \/ Expires(t) PROVE BuiltOnce'
  <2>1. /\ UNCHANGED <<pc, inputs>> /\ net[t] # "none"
        /\ \E w \in Nets \ {"none"} : net' = [net EXCEPT ![t] = w]
    BY <1>11 DEF NodeReceives, Mined, Expires, callVars, txVars, Nets
  <2> QED BY <1>1, <1>2, <2>1
<1>12. CASE Stop \/ UNCHANGED vars BY <1>2, <1>12 DEF Stop, vars, callVars, txVars
<1> QED BY <1>3, <1>4, <1>5, <1>6, <1>7, <1>8, <1>9, <1>10, <1>11, <1>12
       DEF Next, SendStep, sendCurrency, sendMultiPayment, transferFunds

\* A transaction once built stays built, and keeps its inputs and its change.
LEMMA BuiltStays ==
    ASSUME IInv, MoneyInv, [Next]_vars, NEW t \in Txs, net[t] # "none"
    PROVE  net'[t] # "none" /\ change'[t] = change[t] /\ inputs'[t] = inputs[t]
<1>1. net \in [Txs -> Nets] /\ inputs \in [Txs -> SUBSET Entries] /\ change \in [Txs -> Outputs]
  BY DEF IInv, Shape, MoneyInv, TypeOK
<1>2. pc[t] # "building" BY DEF MoneyInv, BuiltOnce
<1>3. ASSUME NEW s \in Txs, \/ s \in Sends /\ Build(s)
                            \/ s \in Updates /\ UpdateSends(s)
      PROVE  net'[t] = net[t] /\ change'[t] = change[t] /\ inputs'[t] = inputs[t]
  <2>1. s # t BY <1>2, <1>3, BuilderIs
  <2>2. CASE s \in Sends /\ Build(s) BY <1>1, <2>1, <2>2 DEF Build
  <2>3. CASE s \in Updates /\ UpdateSends(s) BY <1>1, <2>1, <2>3 DEF UpdateSends
  <2> QED BY <1>3, <2>2, <2>3
<1>4. ASSUME NEW s \in Txs, NodeReceives(s) \/ Mined(s) \/ Expires(s)
      PROVE  net'[t] # "none"
  BY <1>1, <1>4 DEF NodeReceives, Mined, Expires
<1>5. Sends \subseteq Txs /\ Updates \subseteq Txs BY DEF Txs
<1>6. change'[t] = change[t] BY <1>3, <1>5, Writes
<1>7. inputs'[t] = inputs[t] BY <1>3, <1>5, Writes
<1>8. net'[t] # "none" BY <1>3, <1>4, <1>5, Writes
<1> QED BY <1>6, <1>7, <1>8

\* The coins made by transactions already built, and the genesis coins.
BuiltCoins == {c \in Coins : c \in Txs => net[c] # "none"}

\* KnownIsBuilt in terms of BuiltCoins.
LEMMA KnownParts ==
    /\ KnownIsBuilt <=> \A t \in Txs : CoinsOf(utxos[t]) \cup CoinsOf(inputs[t]) \cup Pending
                                         \subseteq BuiltCoins
    /\ Txs = {} => Sends = {}
BY DEF KnownIsBuilt, BuiltCoins, Txs

\* Built coins stay built.
LEMMA BuiltCoinsStep ==
    ASSUME IInv, MoneyInv, [Next]_vars PROVE BuiltCoins \subseteq BuiltCoins'
BY BuiltStays DEF BuiltCoins

\* getUtxos() lists confirmed coins only.
LEMMA ListedIsBuilt ==
    ASSUME NEW api \in Listings PROVE api \subseteq BuiltCoins
<1>1. \A c \in api : c \in Coins /\ Confirmed(c) BY DEF Listings
<1>2. \A c \in Txs : c \notin Genesis BY NameAssumption
<1> QED BY <1>1, <1>2 DEF Confirmed, BuiltCoins

\* Whatever a step learns of is built: listed coins are confirmed, pending change
\* is that of a payment that was sent.
LEMMA KnownStep == ASSUME IInv, MoneyInv, [Next]_vars PROVE KnownIsBuilt'
<1>1. utxos \in [Txs -> SUBSET Entries] /\ inputs \in [Txs -> SUBSET Entries]
  BY DEF IInv, Shape
<1>2. BuiltCoins \subseteq BuiltCoins' BY BuiltCoinsStep
<1>3. \A t \in Txs : CoinsOf(utxos[t]) \cup CoinsOf(inputs[t]) \cup Pending \subseteq BuiltCoins
  BY KnownParts DEF MoneyInv
<1>4. Sends \subseteq Txs /\ Updates \subseteq Txs BY DEF Txs
<1>5. ASSUME NEW t \in Txs PROVE CoinsOf(utxos'[t]) \subseteq BuiltCoins'
  <2>1. ASSUME NEW s \in Sends, Listed(s)
        PROVE  \A e \in utxos'[t] : e \in utxos[t] \/ e[2] \in BuiltCoins
    <3>1. PICK api \in Listings :
            \/ UNCHANGED utxos
            \/ \E mine \in SUBSET mergeUtxos(api) : utxos' = [utxos EXCEPT ![s] = mine]
      BY <2>1 DEF Listed
    <3>2. \A e \in mergeUtxos(api) : e[2] \in api \cup Pending BY DEF mergeUtxos
    <3>3. \A e \in mergeUtxos(api) : e[2] \in BuiltCoins BY <1>3, <3>2, ListedIsBuilt
    <3> QED BY <1>1, <3>1, <3>3
  <2>2. ASSUME NEW s \in Txs, \/ s \in Sends /\ Build(s)
                              \/ s \in Updates /\ UpdateSends(s)
        PROVE  \A e \in utxos'[t] : e \in utxos[t]
    BY <1>1, <2>2 DEF Build, UpdateSends
  <2>3. ASSUME NEW u \in Updates, UpdateReads(u)
        PROVE  \A e \in utxos'[t] : e \in utxos[t] \/ e[2] \in BuiltCoins
    <3>1. PICK api \in Listings :
            \E S \in SUBSET api : utxos' = [utxos EXCEPT ![u] = {"api"} \X S]
      BY <2>3 DEF UpdateReads
    <3>2. PICK S \in SUBSET api : utxos' = [utxos EXCEPT ![u] = {"api"} \X S] BY <3>1
    <3>3. \A e \in {"api"} \X S : e[2] \in BuiltCoins BY <3>2, ListedIsBuilt
    <3> QED BY <1>1, <3>2, <3>3
  <2>4. \A e \in utxos'[t] : e \in utxos[t] \/ e[2] \in BuiltCoins
    BY <1>4, <2>1, <2>2, <2>3, Writes
  <2> QED BY <1>2, <1>3, <2>4 DEF CoinsOf
<1>6. ASSUME NEW t \in Txs PROVE CoinsOf(inputs'[t]) \subseteq BuiltCoins'
  <2>1. ASSUME NEW s \in Txs, \/ s \in Sends /\ Build(s)
                              \/ s \in Updates /\ UpdateSends(s)
        PROVE  \A e \in inputs'[t] : e \in inputs[t] \/ e \in utxos[s]
    BY <1>1, <2>1 DEF Build, UpdateSends, selectUtxos
  <2>2. \A e \in inputs'[t] : e \in inputs[t] \/ \E s \in Txs : e \in utxos[s]
    BY <1>4, <2>1, Writes
  <2> QED BY <1>2, <1>3, <2>2 DEF CoinsOf
<1>7. ASSUME NEW t \in Txs PROVE Pending' \subseteq BuiltCoins'
  <2>1. ASSUME NEW s \in Sends, Listed(s) PROVE pendingChange' \subseteq pendingChange
    BY <2>1 DEF Listed, prunePending
  <2>2. ASSUME NEW s \in Sends, Sent(s)
        PROVE  \A p \in pendingChange' : p \in pendingChange \/ (p[2] = s /\ s \in BuiltCoins)
    <3>1. s \in BuiltCoins BY <2>2 DEF Sent, Running, BuiltCoins, Coins, Txs, MoneyInv, BuiltOnce
    <3>2. \E n : pendingChange' \subseteq pendingChange \cup {<<n, s>>}
      BY <2>2 DEF Sent, ShiftPending
    <3> QED BY <3>1, <3>2
  <2>3. \A p \in pendingChange' : p \in pendingChange \/ p[2] \in BuiltCoins
    BY <2>1, <2>2, Writes DEF Stop
  <2>4. \A p \in pendingChange' : p[2] \in BuiltCoins
    BY <1>3, <2>3 DEF Pending, CoinsOf
  <2> QED BY <1>2, <2>4 DEF Pending, CoinsOf
<1>8. \A t \in Txs : CoinsOf(utxos'[t]) \cup CoinsOf(inputs'[t]) \cup Pending' \subseteq BuiltCoins'
  BY <1>5, <1>6, <1>7
<1> QED BY <1>8 DEF KnownIsBuilt, BuiltCoins

\* A call goes on to be built only when its change comes home ("foreign" does not).
LEMMA HomeStep == ASSUME IInv, MoneyInv, [Next]_vars PROVE ChangeComesHome'
<1>1. pc \in [Txs -> PCs] /\ Sends \subseteq Txs BY DEF IInv, Shape, Txs
<1>2. ChangeComesHome BY DEF MoneyInv
<1> SUFFICES ASSUME NEW s \in Sends, pc'[s] = "building"
             PROVE  request'[s].change \in {"auto"} \cup SelfAddrs
  BY DEF ChangeComesHome, SelfAddrs
<1>3. CASE pc[s] = "building"
  <2>1. request'[s] = request[s] BY <1>3, RequestStep
  <2> QED BY <1>2, <1>3, <2>1 DEF ChangeComesHome
<1>4. CASE Listed(s)
  <2>1. PICK E : changeAddress(request[s], E) \in SelfAddrs
    BY <1>1, <1>4 DEF Listed, Fail, Settle
  <2>2. request'[s] = request[s] BY <1>4 DEF Listed
  <2> QED BY <2>1, <2>2 DEF changeAddress
<1>5. CASE pc[s] # "building" /\ ~ Listed(s)
  <2>1. ASSUME NEW t \in Sends, \/ LoggedIn(t) \/ CallFails(t) \/ Build(t) \/ Sent(t)
                                \/ BroadcastFails(t) \/ \E r : serializeSend(t, r)
        PROVE  FALSE
    BY <1>1, <1>5, <2>1 DEF LoggedIn, CallFails, Build, Sent, BroadcastFails, serializeSend,
       Fail, Settle
  <2>2. ASSUME NEW t \in Sends, Listed(t) PROVE FALSE
    BY <1>1, <1>5, <2>2 DEF Listed, Fail, Settle
  <2>3. ASSUME NEW u \in Updates, UpdateReads(u) \/ UpdateSends(u) PROVE FALSE
    BY <1>1, <1>5, <2>3, NameAssumption DEF UpdateReads, UpdateSends
  <2>4. CASE Stop \/ UNCHANGED vars \/ \E t \in Txs : NodeReceives(t) \/ Mined(t) \/ Expires(t)
    BY <1>5, <2>4 DEF Stop, NodeReceives, Mined, Expires, vars, callVars
  <2> QED BY <2>1, <2>2, <2>3, <2>4
         DEF Next, SendStep, sendCurrency, sendMultiPayment, transferFunds
<1> QED BY <1>3, <1>4, <1>5

\* The change goes to an address of the agent.
LEMMA HomeAddress ==
    ASSUME MoneyInv, NEW s \in Sends, pc[s] = "building", NEW E
    PROVE  changeAddress(request[s], E) \in Addrs
<1>1. request[s].change \in {"auto"} \cup SelfAddrs BY DEF MoneyInv, ChangeComesHome
<1>2. SelfAddrs \subseteq Addrs BY DEF SelfAddrs, Addrs
<1> QED BY <1>1, <1>2 DEF changeAddress, Addrs

\* What a payment takes from its coins: the amount, the fee, and its change
\* but for dust.
LEMMA BuildPays ==
    ASSUME IInv, MoneyInv, NEW s \in Sends, Build(s)
    PROVE  \/ UNCHANGED <<change, inputs>>
           \/ \E P \in SUBSET Entries, n \in Nat, a \in Addrs :
                /\ CoinsOf(P) \subseteq CoinsOf(utxos[s])
                /\ inputs' = [inputs EXCEPT ![s] = P]
                /\ change' = [change EXCEPT ![s] = [value |-> n, addr |-> a]]
                /\ Total(P) - request[s].amount - FEE - n \in 0..DUST
<1>1. /\ utxos \in [Txs -> SUBSET Entries] /\ change \in [Txs -> Outputs]
      /\ request \in [Sends -> Requests] /\ s \in Txs
  BY DEF IInv, Shape, MoneyInv, TypeOK, Txs
<1>2. pc[s] = "building" BY DEF Build, Running
<1>3. request[s].amount \in Nat /\ FEE \in Nat /\ DUST \in Nat
  <2>1. request[s] \in Requests BY <1>1
  <2>2. request[s].amount \in Amounts \cup {0} BY <2>1 DEF Requests
  <2>3. Amounts \subseteq Nat /\ FEE \in Nat /\ DUST \in Nat BY CoinAssumption
  <2>4. \A a \in Amounts \cup {0} : a \in Nat BY <2>3
  <2> QED BY <2>2, <2>3, <2>4, Zenon
<1> DEFINE target == request[s].amount + FEE
           a == changeAddress(request[s], utxos[s])
           n(P) == IF Total(P) - target > DUST THEN Total(P) - target ELSE 0
<1>4. a \in Addrs BY <1>2, HomeAddress
<1>5. CASE UNCHANGED <<change, inputs>> BY <1>5
<1>6. CASE ~ UNCHANGED <<change, inputs>>
  <2>1. PICK P \in selectUtxos(utxos[s], target) :
               /\ inputs' = [inputs EXCEPT ![s] = P]
               /\ change' = [change EXCEPT ![s] = [value |-> n(P), addr |-> a]]
    BY <1>6 DEF Build
  <2>2. P \in SUBSET utxos[s] /\ Total(P) >= target BY <2>1 DEF selectUtxos
  <2>3. P \in SUBSET Entries BY <1>1, <2>2
  <2>4. Total(P) \in Nat BY <1>1, <2>3, TotalType
  <2> HIDE DEF a
  <2>5. n(P) \in Nat /\ Total(P) - request[s].amount - FEE - n(P) \in 0..DUST
    BY <1>3, <2>2, <2>4
  <2>6. CoinsOf(P) \subseteq CoinsOf(utxos[s]) BY <2>2 DEF CoinsOf
  <2> HIDE DEF n
  <2> QED BY <1>4, <2>1, <2>3, <2>5, <2>6
<1> QED BY <1>5, <1>6

\* An identity update takes the fee and gives all the rest back.
LEMMA UpdatePays ==
    ASSUME IInv, MoneyInv, NEW u \in Updates, UpdateSends(u)
    PROVE  \E P \in SUBSET Entries, n \in Nat :
             /\ CoinsOf(P) \subseteq CoinsOf(utxos[u])
             /\ inputs' = [inputs EXCEPT ![u] = P]
             /\ change' = [change EXCEPT ![u] = [value |-> n, addr |-> "R"]]
             /\ Total(P) - FEE - n = 0
<1>1. utxos \in [Txs -> SUBSET Entries] /\ change \in [Txs -> Outputs] /\ u \in Txs
  BY DEF IInv, Shape, MoneyInv, TypeOK, Txs
<1>2. PICK P \in selectUtxos(utxos[u], FEE) :
             /\ inputs' = [inputs EXCEPT ![u] = P]
             /\ change' = [change EXCEPT ![u] = [value |-> Total(P) - FEE, addr |-> "R"]]
  BY DEF UpdateSends
<1>3. P \in SUBSET utxos[u] /\ Total(P) >= FEE BY <1>2 DEF selectUtxos
<1>4. P \in SUBSET Entries BY <1>1, <1>3
<1>5. Total(P) \in Nat /\ FEE \in Nat BY <1>1, <1>4, TotalType, CoinAssumption
<1>6. Total(P) - FEE \in Nat /\ Total(P) - FEE - (Total(P) - FEE) = 0 BY <1>3, <1>5
<1>7. CoinsOf(P) \subseteq CoinsOf(utxos[u]) BY <1>3 DEF CoinsOf
<1> QED BY <1>2, <1>4, <1>6, <1>7

\* Change is never negative, and is the agent's own.
LEMMA ChangeStep == ASSUME IInv, MoneyInv, [Next]_vars PROVE change' \in [Txs -> Outputs]
<1>1. change \in [Txs -> Outputs] BY DEF MoneyInv, TypeOK
<1>2. \A n \in Nat, a \in Addrs : [value |-> n, addr |-> a] \in Outputs BY DEF Outputs
<1>3. ASSUME NEW s \in Sends, Build(s) PROVE change' \in [Txs -> Outputs]
  BY <1>1, <1>2, <1>3, BuildPays
<1>4. ASSUME NEW u \in Updates, UpdateSends(u) PROVE change' \in [Txs -> Outputs]
  <2>1. "R" \in Addrs BY DEF Addrs
  <2> QED BY <1>1, <1>2, <1>4, <2>1, UpdatePays
<1> QED BY <1>1, <1>3, <1>4, Writes

\* The coins that are known keep their value.
LEMMA OutputStays ==
    ASSUME IInv, MoneyInv, [Next]_vars, NEW c \in BuiltCoins
    PROVE  Output(c)' = Output(c)
<1>1. c \notin Genesis => c \in Txs /\ net[c] # "none" BY DEF BuiltCoins, Coins
<1>2. c \notin Genesis => change'[c] = change[c] BY <1>1, BuiltStays
<1> QED BY <1>2 DEF Output

Asked(t) == IF t \in Sends THEN request[t].amount ELSE 0
Slack(t) == IF t \in Sends THEN DUST ELSE 0
Exact(t) == inputs[t] # {} => Total(inputs[t]) - Asked(t) - FEE - change[t].value \in 0..Slack(t)

\* PaysWhatWasAsked, transaction by transaction.
LEMMA PaysIsExact == PaysWhatWasAsked <=> \A t \in Txs : Exact(t)
BY DEF PaysWhatWasAsked, Exact, Asked, Slack

LEMMA PaysIsExactNext == (PaysWhatWasAsked <=> \A t \in Txs : Exact(t))'
BY PaysIsExact, PTL

\* What was paid stays as it was, since its coins keep their values; what is
\* paid now is what was asked.
LEMMA PaysStep == ASSUME IInv, MoneyInv, [Next]_vars PROVE PaysWhatWasAsked'
<1>1. /\ utxos \in [Txs -> SUBSET Entries] /\ inputs \in [Txs -> SUBSET Entries]
      /\ change \in [Txs -> Outputs] /\ request \in [Sends -> Requests]
  BY DEF IInv, Shape, MoneyInv, TypeOK
<1>2. Sends \subseteq Txs /\ Updates \subseteq Txs BY DEF Txs
<1>3. \A t \in Txs : Exact(t) BY PaysIsExact DEF MoneyInv
<1>4. \A t \in Txs : CoinsOf(utxos[t]) \cup CoinsOf(inputs[t]) \subseteq BuiltCoins
  BY KnownParts DEF MoneyInv
<1> SUFFICES ASSUME NEW t \in Txs, inputs'[t] # {}
             PROVE  (Total(inputs[t]) - Asked(t) - FEE - change[t].value \in 0..Slack(t))'
  BY PaysIsExactNext DEF Exact
<1> DEFINE P == inputs'[t]
<1>5. ASSUME \A e \in P : e[2] \in BuiltCoins PROVE Total(inputs[t])' = Total(P)
  <2>1. \A e \in P : Output(e[2])' = Output(e[2]) BY <1>5, OutputStays
  <2> QED BY <2>1, TotalNext
<1>6. pc[t] # "none" => Asked(t)' = Asked(t)
  BY RequestStep DEF Asked
<1>7. CASE inputs[t] # {}
  <2>1. net[t] # "none" /\ pc[t] # "none"
    BY <1>7 DEF MoneyInv, BuiltOnce
  <2>2. inputs'[t] = inputs[t] /\ change'[t] = change[t] BY <2>1, BuiltStays
  <2>3. Total(inputs[t])' = Total(inputs[t])
    <3>1. \A e \in P : e[2] \in BuiltCoins BY <1>4, <2>2 DEF CoinsOf
    <3> QED BY <1>5, <2>2, <3>1
  <2>4. Total(inputs[t]) - Asked(t) - FEE - change[t].value \in 0..Slack(t)
    BY <1>3, <1>7 DEF Exact
  <2> QED BY <1>6, <2>1, <2>2, <2>3, <2>4 DEF Slack
<1>8. CASE inputs[t] = {}
  <2>1. \/ t \in Sends /\ Build(t)
        \/ t \in Updates /\ UpdateSends(t)
    <3>1. ASSUME NEW s \in Sends, Build(s), s # t PROVE FALSE
      BY <1>1, <1>2, <1>8, <3>1 DEF Build
    <3>2. ASSUME NEW u \in Updates, UpdateSends(u), u # t PROVE FALSE
      BY <1>1, <1>2, <1>8, <3>2 DEF UpdateSends
    <3>3. ~ UNCHANGED inputs BY <1>8
    <3> QED BY <3>1, <3>2, <3>3, Writes
  <2>2. CASE t \in Sends /\ Build(t)
    <3>1. PICK Q \in SUBSET Entries, n \in Nat, a \in Addrs :
                /\ CoinsOf(Q) \subseteq CoinsOf(utxos[t])
                /\ inputs' = [inputs EXCEPT ![t] = Q]
                /\ change' = [change EXCEPT ![t] = [value |-> n, addr |-> a]]
                /\ Total(Q) - request[t].amount - FEE - n \in 0..DUST
      BY <1>8, <2>2, BuildPays
    <3>2. P = Q /\ change'[t].value = n BY <1>1, <3>1
    <3>3. \A e \in P : e[2] \in BuiltCoins BY <1>4, <3>1, <3>2 DEF CoinsOf
    <3>4. Total(inputs[t])' = Total(Q) BY <1>5, <3>2, <3>3
    <3>5. Asked(t)' = request[t].amount
      BY <2>2 DEF Asked, Build
    <3>6. Slack(t)' = DUST BY <2>2 DEF Slack
    <3> QED BY <3>1, <3>2, <3>4, <3>5, <3>6
  <2>3. CASE t \in Updates /\ UpdateSends(t)
    <3>1. PICK Q \in SUBSET Entries, n \in Nat :
             /\ CoinsOf(Q) \subseteq CoinsOf(utxos[t])
             /\ inputs' = [inputs EXCEPT ![t] = Q]
             /\ change' = [change EXCEPT ![t] = [value |-> n, addr |-> "R"]]
             /\ Total(Q) - FEE - n = 0
      BY <2>3, UpdatePays
    <3>2. P = Q /\ change'[t].value = n BY <1>1, <3>1
    <3>3. \A e \in P : e[2] \in BuiltCoins BY <1>4, <3>1, <3>2 DEF CoinsOf
    <3>4. Total(inputs[t])' = Total(Q) BY <1>5, <3>2, <3>3
    <3>5. t \notin Sends BY <2>3, NameAssumption
    <3>6. Asked(t)' = 0 /\ Slack(t)' = 0 BY <3>5 DEF Asked, Slack
    <3>7. Total(Q) \in Nat /\ FEE \in Nat BY <1>1, TotalType, CoinAssumption
    <3>8. Total(Q) - 0 - FEE - n \in 0..0 BY <3>1, <3>7
    <3> QED BY <3>2, <3>4, <3>6, <3>8
  <2> QED BY <2>1, <2>2, <2>3
<1> QED BY <1>7, <1>8

\* The parts together.
LEMMA MoneyStep == ASSUME IInv, IInv', MoneyInv, [Next]_vars PROVE MoneyInv'
<1>1. TypeOK'
  <2>1. request' \in [Sends -> Requests] BY RequestStep
  <2>2. pendingChange' \in SUBSET (Nat \X Coins) BY PendingStepType
  <2> QED BY <2>1, <2>2, ChangeStep DEF TypeOK, IInv
<1>2. IsFiniteSet(pendingChange)' BY PendingStepType
<1> QED BY <1>1, <1>2, BuiltStep, KnownStep, HomeStep, PaysStep DEF MoneyInv

(* The inductive invariant about amounts: a coin that is known was built, and *)
(* keeps its value from then on.                                             *)
THEOREM MoneyInvariance == Spec => []MoneyInv
<1>1. IInv /\ IInv' /\ MoneyInv /\ [Next]_vars => MoneyInv' BY MoneyStep
<1> QED BY MoneyInit, Invariance, <1>1, PTL DEF Spec

(* Every amount is a natural number and every change output is the agent's    *)
(* own: selectUtxos covers the target, and a call whose change would leave   *)
(* the wallet is refused before it is built.                                 *)
THEOREM AmountsTyped == Spec => []TypeOK
<1>1. MoneyInv => TypeOK BY DEF MoneyInv
<1> QED BY MoneyInvariance, <1>1, PTL

(* No transaction takes more from the wallet than was asked, the fee and at   *)
(* most DUST; the rest comes back as its change (buildPayment,               *)
(* buildMultiPayment, the identity updates).                                 *)
THEOREM PaymentsExact == Spec => []PaysWhatWasAsked
<1>1. MoneyInv => PaysWhatWasAsked BY DEF MoneyInv
<1> QED BY MoneyInvariance, <1>1, PTL

----------------------------------------------------------------------------
(* The queue.                                                                 *)

\* Taking the head off a queue without duplicates leaves the others.
LEMMA TailElems ==
    ASSUME NEW q \in Seq(Sends), q # <<>>,
           \A i, j \in 1..Len(q) : q[i] = q[j] => i = j
    PROVE  /\ Tail(q) \in Seq(Sends)
           /\ \A i, j \in 1..Len(Tail(q)) : Tail(q)[i] = Tail(q)[j] => i = j
           /\ Elems(Tail(q)) = Elems(q) \ {Head(q)}
<1>1. /\ Tail(q) \in Seq(Sends) /\ Len(Tail(q)) = Len(q) - 1 /\ Head(q) = q[1]
      /\ Len(q) \in Nat /\ Len(q) >= 1
  OBVIOUS
<1>2. \A i \in 1..Len(Tail(q)) : Tail(q)[i] = q[i + 1] OBVIOUS
<1>3. \A i, j \in 1..Len(Tail(q)) : Tail(q)[i] = Tail(q)[j] => i = j
  <2> SUFFICES ASSUME NEW i \in 1..Len(Tail(q)), NEW j \in 1..Len(Tail(q)),
                      Tail(q)[i] = Tail(q)[j]
               PROVE  i = j
    OBVIOUS
  <2>1. i + 1 \in 1..Len(q) /\ j + 1 \in 1..Len(q) /\ i \in Int /\ j \in Int BY <1>1
  <2>2. q[i + 1] = q[j + 1] BY <1>2
  <2>3. i + 1 = j + 1 BY <2>1, <2>2
  <2> QED BY <2>1, <2>3
<1>4. Elems(Tail(q)) \subseteq Elems(q) \ {Head(q)}
  <2> SUFFICES ASSUME NEW i \in 1..Len(Tail(q)) PROVE Tail(q)[i] \in Elems(q) \ {Head(q)}
    BY DEF Elems
  <2>1. i + 1 \in 1..Len(q) /\ i + 1 # 1 /\ 1 \in 1..Len(q) BY <1>1
  <2>2. q[i + 1] # q[1] BY <2>1
  <2> QED BY <1>1, <1>2, <2>1, <2>2 DEF Elems
<1>5. Elems(q) \ {Head(q)} \subseteq Elems(Tail(q))
  <2> SUFFICES ASSUME NEW i \in 1..Len(q), q[i] # Head(q) PROVE q[i] \in Elems(Tail(q))
    BY DEF Elems
  <2>1. i # 1 BY <1>1
  <2>2. i - 1 \in 1..Len(Tail(q)) /\ (i - 1) + 1 = i BY <1>1, <2>1
  <2>3. Tail(q)[i - 1] = q[i] BY <1>2, <2>2
  <2> QED BY <2>2, <2>3 DEF Elems
<1> QED BY <1>1, <1>3, <1>4, <1>5

\* A call that is new to the queue is put behind the others.
LEMMA AppendElems ==
    ASSUME NEW q \in Seq(Sends), NEW s \in Sends, s \notin Elems(q),
           \A i, j \in 1..Len(q) : q[i] = q[j] => i = j
    PROVE  /\ \A i, j \in 1..Len(Append(q, s)) : Append(q, s)[i] = Append(q, s)[j] => i = j
           /\ Elems(Append(q, s)) = Elems(q) \cup {s}
<1> DEFINE r == Append(q, s)
<1>1. /\ Len(r) = Len(q) + 1 /\ Len(q) \in Nat /\ r[Len(q) + 1] = s
      /\ \A i \in 1..Len(q) : r[i] = q[i]
  OBVIOUS
<1> HIDE DEF r
<1>2. \A i \in 1..Len(r) : i \in 1..Len(q) \/ i = Len(q) + 1 BY <1>1
<1>3. \A i \in 1..Len(q) : r[i] # s BY <1>1 DEF Elems
<1>4. \A i, j \in 1..Len(r) : r[i] = r[j] => i = j
  <2> SUFFICES ASSUME NEW i \in 1..Len(r), NEW j \in 1..Len(r), r[i] = r[j] PROVE i = j
    OBVIOUS
  <2> QED BY <1>1, <1>2, <1>3
<1>5. Elems(r) = Elems(q) \cup {s} BY <1>1, <1>2 DEF Elems
<1> QED BY <1>4, <1>5 DEF r

\* A call enters the queue as it is made and leaves it, from the head, as it settles.
LEMMA QueueHoldsStep == ASSUME IInv, QueueHoldsCalls, [Next]_vars PROVE QueueHoldsCalls'
<1>1. /\ queue \in Seq(Sends) /\ pc \in [Txs -> PCs] /\ Sends \subseteq Txs
      /\ \A u \in Updates : u \notin Sends
  BY NameAssumption DEF IInv, Shape, Txs
<1>2. /\ \A i, j \in 1..Len(queue) : queue[i] = queue[j] => i = j
      /\ \A s \in Sends : s \in Elems(queue) <=> pc[s] \in Open
  BY DEF QueueHoldsCalls
<1>3. ASSUME NEW s \in Sends, NEW r, serializeSend(s, r) PROVE QueueHoldsCalls'
  <2>1. pc[s] = "none" /\ pc' = [pc EXCEPT ![s] = "queued"] /\ queue' = Append(queue, s)
    BY <1>3 DEF serializeSend
  <2>2. s \notin Elems(queue) BY <1>2, <2>1 DEF Open
  <2>3. /\ \A i, j \in 1..Len(queue') : queue'[i] = queue'[j] => i = j
        /\ Elems(queue') = Elems(queue) \cup {s}
    BY <1>1, <1>2, <2>1, <2>2, AppendElems
  <2>4. Elems(queue)' = Elems(queue') BY DEF Elems
  <2> QED BY <1>1, <1>2, <2>1, <2>3, <2>4 DEF QueueHoldsCalls, Open
<1>4. ASSUME NEW s \in Sends, NEW how \in {"done", "failed"}, queue # <<>>, Head(queue) = s,
             Settle(s, how)
      PROVE  QueueHoldsCalls'
  <2>1. pc' = [pc EXCEPT ![s] = how] /\ queue' = Tail(queue) BY <1>4 DEF Settle
  <2>2. /\ \A i, j \in 1..Len(queue') : queue'[i] = queue'[j] => i = j
        /\ Elems(queue') = Elems(queue) \ {s}
    BY <1>1, <1>2, <1>4, <2>1, TailElems
  <2>3. Elems(queue)' = Elems(queue') BY DEF Elems
  <2> QED BY <1>1, <1>2, <2>1, <2>2, <2>3 DEF QueueHoldsCalls, Open
<1>5. ASSUME NEW s \in Sends, pc[s] \in Open, UNCHANGED queue,
             \E how \in Open : pc' = [pc EXCEPT ![s] = how]
      PROVE  QueueHoldsCalls'
  BY <1>1, <1>2, <1>5 DEF QueueHoldsCalls, Elems
<1>6. ASSUME NEW s \in Sends, SendStep(s) PROVE QueueHoldsCalls'
  <2>1. CASE LoggedIn(s) BY <1>5, <2>1 DEF LoggedIn, Running, Open
  <2>2. CASE CallFails(s) BY <1>4, <2>2 DEF CallFails, Running, Fail
  <2>3. CASE Listed(s)
    <3>1. /\ queue # <<>> /\ Head(queue) = s /\ pc[s] = "listing"
          /\ Settle(s, "failed") \/ (pc' = [pc EXCEPT ![s] = "building"] /\ UNCHANGED queue)
      BY <2>3 DEF Listed, Running, Fail
    <3> QED BY <1>4, <1>5, <3>1 DEF Open
  <2>4. CASE Build(s)
    <3>1. /\ queue # <<>> /\ Head(queue) = s /\ pc[s] = "building"
          /\ Settle(s, "failed") \/ (pc' = [pc EXCEPT ![s] = "sending"] /\ UNCHANGED queue)
      BY <2>4 DEF Build, Running, Fail
    <3> QED BY <1>4, <1>5, <3>1 DEF Open
  <2>5. CASE Sent(s) BY <1>4, <2>5 DEF Sent, Running
  <2>6. CASE BroadcastFails(s) BY <1>4, <2>6 DEF BroadcastFails, Running, Fail
  <2> QED BY <1>6, <2>1, <2>2, <2>3, <2>4, <2>5, <2>6 DEF SendStep
<1>7. ASSUME NEW u \in Updates, UpdateReads(u) \/ UpdateSends(u) PROVE QueueHoldsCalls'
  BY <1>1, <1>2, <1>7 DEF UpdateReads, UpdateSends, QueueHoldsCalls, Elems
<1>8. CASE Stop \/ UNCHANGED vars \/ \E t \in Txs : NodeReceives(t) \/ Mined(t) \/ Expires(t)
  <2>1. UNCHANGED <<queue, pc>>
    BY <1>8 DEF Stop, NodeReceives, Mined, Expires, vars, callVars
  <2> QED BY <1>2, <2>1 DEF QueueHoldsCalls, Elems
<1> QED BY <1>3, <1>6, <1>7, <1>8 DEF Next, sendCurrency, sendMultiPayment, transferFunds

(* serializeSend() forgets no call and runs none twice, whichever way the     *)
(* calls before it settle.                                                    *)
THEOREM QueueKept == Spec => []QueueHoldsCalls
<1>1. Init => QueueHoldsCalls
  BY DEF Init, QueueHoldsCalls, Elems, Open, Txs
<1>2. IInv /\ QueueHoldsCalls /\ [Next]_vars => QueueHoldsCalls' BY QueueHoldsStep
<1> QED BY Invariance, <1>1, <1>2, PTL DEF Spec

============================================================================
