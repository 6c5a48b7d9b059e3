-------------------------- MODULE InboxBatchProofs --------------------------
(***************************************************************************)
(* What accepting inbox items keeps true for any items, any number of      *)
(* concurrent calls, any size budget and any behaviour of the backend and  *)
(* the network.                                                            *)
(***************************************************************************)
EXTENDS InboxBatch, FiniteSetTheorems, SequenceTheorems, TLAPS

Results == [Buckets -> SUBSET Items]

\* What a call's ending assigns.
CallTyped ==
    /\ pc \in [Calls -> {"idle", "fetching", "reading", "building", "sending", "acking"}]
    /\ ended \in [Calls -> {"no", "returned", "threw"}]
    /\ result \in [Calls -> Results] /\ dead \in SUBSET Items

\* There is an item to fetch, or to accept, while one is due.
ItemDue == \A c \in Calls :
    pc[c] = "fetching" \/ (c \in Singles /\ pc[c] # "idle") => todo[c] # <<>>

(* Results are filled with items.                                            *)
LEMMA PutTyped ==
    ASSUME TypeOK, NEW c \in Calls, NEW S \in SUBSET Items, NEW x \in Buckets
    PROVE  Put(c, x, S) \in Results /\ NoResult \in Results
BY DEF TypeOK, Results, Put, NoResult

(* Going on, returning, throwing and acknowledging keep the types.           *)
LEMMA EndTyped ==
    ASSUME TypeOK, NEW c \in Calls, NEW res \in Results
    PROVE  /\ Returns(c, res) => CallTyped'
           /\ Throws(c) => CallTyped'
           /\ Acknowledge(c, res) => CallTyped'
<1> USE DEF TypeOK, CallTyped, Results
<1>1. res["rejected"] \in SUBSET Items BY DEF Buckets
<1>2. Returns(c, res) => CallTyped' BY <1>1 DEF Returns, Goto
<1>3. Throws(c) => CallTyped' BY DEF Throws, Goto, NoResult
<1> QED BY <1>2, <1>3 DEF Acknowledge, Goto

(* An update built from well-typed content is well-typed content.            *)
LEMMA UpdateTyped ==
    ASSUME NEW content \in Contents, NEW S \in SUBSET Items
    PROVE  Update(content, S) \in Contents
BY DEF Update, Contents

(* The types hold initially.                                                 *)
LEMMA InitTyped == Init => TypeOK
BY DEF Init, TypeOK, Calls, Contents, Empty, NoResult

(* An order of items is a sequence of items.                                 *)
LEMMA FunctionIsSeq ==
    ASSUME NEW n \in Nat, NEW q \in [1..n -> Items]
    PROVE  q \in Seq(Items) /\ Len(q) = n
OBVIOUS

(* An item is left to fetch when there was more than one.                    *)
LEMMA TailLeft ==
    ASSUME NEW s \in Seq(Items), Len(s) > 1
    PROVE  Tail(s) # <<>>
<1>1. Len(Tail(s)) = Len(s) - 1 /\ Tail(s) \in Seq(Items) OBVIOUS
<1>2. Len(Tail(s)) # 0 BY <1>1
<1> QED BY <1>1, <1>2, EmptySeq

(* Beginning a call keeps the types.                                         *)
LEMMA BeginTyped ==
    ASSUME TypeOK, NEW c \in Calls, NEW q \in Seq(Items), Begins(c, q)
    PROVE  TypeOK'
BY DEF TypeOK, Begins, Goto, Elems, NoResult, Contents, Empty, backendVars

(* Going on to the next item keeps the types.                                *)
LEMMA NextItemTyped ==
    ASSUME TypeOK, NEW b \in Calls, NEW q \in Seq(Items), NEW res \in Results,
           todo[b] # <<>>, NextItem(b, q, res)
    PROVE  TypeOK'
<1> USE DEF TypeOK
<1>1. todo' \in [Calls -> Seq(Items)] /\ cands' \in [Calls -> Seq(Items)]
  BY DEF NextItem
<1>2. CallTyped'
  <2>1. Returns(b, res) => CallTyped' BY EndTyped
  <2> QED BY <2>1 DEF NextItem, Goto, CallTyped, Results
<1> QED BY <1>1, <1>2 DEF NextItem, networkVars, CallTyped, Results

(* Sending an update keeps the types.                                        *)
LEMMA SendTyped ==
    ASSUME TypeOK, NEW c \in Calls, NEW S \in SUBSET Items, NEW res \in Results,
           Send(c, S, res)
    PROVE  CallTyped' /\ merged' \in [Calls -> SUBSET Items]
           /\ tx' \in [Calls -> Contents]
           /\ net' \in [Calls -> {"none", "wire", "refused", "mempool", "confirmed", "expired"}]
<1>1. Update(snap[c], S) \in Contents BY UpdateTyped DEF TypeOK
<1> QED BY <1>1 DEF TypeOK, Send, Goto, CallTyped, Results

(* Every step keeps the types.                                               *)
LEMMA StepTyped == TypeOK /\ ItemDue /\ [Next]_vars => TypeOK'
<1> SUFFICES ASSUME TypeOK, ItemDue, [Next]_vars PROVE TypeOK' OBVIOUS
<1> USE DEF TypeOK
<1>0. Batches \subseteq Calls /\ Singles \subseteq Calls BY DEF Calls
<1>1. ASSUME NEW b \in Batches, acceptInboxBatch(b) PROVE TypeOK'
  <2>1. Cardinality({i \in Items : status[i] = "pending"} \ dead) \in Nat
    BY ItemAssumption, FS_Subset, FS_CardinalityType
  <2> DEFINE n == Cardinality({i \in Items : status[i] = "pending"} \ dead)
  <2>2. PICK q \in [1..n -> Items] : Begins(b, q) BY <1>1 DEF acceptInboxBatch
  <2>3. q \in Seq(Items) BY <2>1, FunctionIsSeq
  <2> QED BY <1>0, <2>2, <2>3, BeginTyped
<1>2. ASSUME NEW c \in Singles, NEW i \in Items, acceptOne(c, i) PROVE TypeOK'
  <2>1. <<i>> \in Seq(Items) OBVIOUS
  <2> QED BY <1>0, <1>2, <2>1, BeginTyped DEF acceptOne
<1>3. ASSUME NEW b \in Batches, FetchOk(b) \/ FetchFails(b) PROVE TypeOK'
  <2>1. todo[b] # <<>> /\ Head(todo[b]) \in Items
    BY <1>0, <1>3 DEF FetchOk, FetchFails, ItemDue
  <2>2. /\ \A x \in Buckets : Put(b, x, {Head(todo[b])}) \in Results
        /\ result[b] \in Results
    BY <1>0, <2>1, PutTyped DEF Results
  <2>3. cands[b] \in Seq(Items) /\ Append(cands[b], Head(todo[b])) \in Seq(Items)
    BY <1>0, <2>1
  <2>4. PICK q \in Seq(Items), res \in Results : NextItem(b, q, res)
    BY <1>3, <2>2, <2>3 DEF FetchOk, FetchFails, Buckets
  <2> QED BY <1>0, <2>1, <2>4, NextItemTyped
<1>4. ASSUME NEW b \in Batches, ReadOk(b) PROVE TypeOK'
  <2>1. PICK S \in SUBSET Elems(cands[b]), res \in Results :
          /\ snap' = [snap EXCEPT ![b] = chain] /\ fresh' = [fresh EXCEPT ![b] = TRUE]
          /\ merged' = [merged EXCEPT ![b] = S]
          /\ \/ Acknowledge(b, res)
             \/ /\ Goto(b, "building") /\ result' = [result EXCEPT ![b] = res]
                /\ UNCHANGED <<ended, dead>>
          /\ UNCHANGED <<refs, todo, cands, tx, net, chain, sent, status>>
    <3>1. Elems(cands[b]) \subseteq Items BY <1>0 DEF Elems
    <3>2. ASSUME NEW P \in SUBSET Items, NEW D \in SUBSET Items
          PROVE  [result[b] EXCEPT !["written"] = @ \cup P, !["deferred"] = @ \cup D] \in Results
      <4>1. [result[b] EXCEPT !["written"] = @ \cup P] \in Results
        BY <1>0 DEF Results, Buckets
      <4>2. \A r \in Results : [r EXCEPT !["deferred"] = @ \cup D] \in Results
        BY DEF Results, Buckets
      <4> QED BY <4>1, <4>2
    <3> QED BY <1>0, <1>4, <3>1, <3>2 DEF ReadOk
  <2>2. CallTyped'
    <3>1. CASE Acknowledge(b, res) BY <1>0, <3>1, EndTyped
    <3>2. CASE Goto(b, "building") /\ result' = [result EXCEPT ![b] = res]
               /\ UNCHANGED <<ended, dead>>
      BY <1>0, <3>2 DEF Goto, CallTyped, Results
    <3> QED BY <2>1, <3>1, <3>2
  <2>3. merged' \in [Calls -> SUBSET Items]
    <3>1. Elems(cands[b]) \subseteq Items BY <1>0 DEF Elems
    <3> QED BY <1>0, <2>1, <3>1
  <2> QED BY <1>0, <2>1, <2>2, <2>3 DEF CallTyped, Results
<1>5. ASSUME NEW b \in Batches, NEW env \in Environments, Build(b, env) PROVE TypeOK'
  <2>1. result[b] \in Results BY <1>0 DEF Results
  <2>2. ASSUME NEW S \in SUBSET Items, NEW D \in SUBSET Items
        PROVE  Put(b, "rejected", S) \in Results
               /\ [Put(b, "rejected", S) EXCEPT !["deferred"] = @ \cup D] \in Results
    BY <1>0, PutTyped DEF Results, Buckets
  <2>3. \/ Throws(b) /\ UNCHANGED <<merged, tx, net>>
        \/ \E S \in SUBSET Items, res \in Results : Send(b, S, res)
        \/ /\ \E res \in Results : Acknowledge(b, res)
           /\ merged' = [merged EXCEPT ![b] = {}] /\ UNCHANGED <<tx, net>>
    <3>1. CASE BuildThrows(merged[b], env)
      <4> DEFINE blamed == {i \in merged[b] : BuildThrows({i}, env)}
      <4>1. merged[b] \in SUBSET Items /\ blamed \in SUBSET Items BY <1>0
      <4>2. Bisect(b, merged[b], env) BY <1>5, <3>1 DEF Build
      <4> QED BY <2>2, <4>1, <4>2 DEF Bisect
    <3>2. CASE ~BuildThrows(merged[b], env) BY <1>0, <1>5, <2>1, <3>2 DEF Build
    <3> QED BY <3>1, <3>2
  <2>4. /\ CallTyped' /\ merged' \in [Calls -> SUBSET Items] /\ tx' \in [Calls -> Contents]
        /\ net' \in [Calls -> {"none", "wire", "refused", "mempool", "confirmed", "expired"}]
    BY <1>0, <2>1, <2>3, EndTyped, SendTyped
  <2> QED BY <1>5, <2>4 DEF Build, CallTyped, Results
<1>6. ASSUME NEW b \in Batches, NEW i \in Items, AckOk(b, i) \/ AckFails(b, i) PROVE TypeOK'
  <2>1. PICK x \in Buckets : Acked(b, i, x) BY <1>6 DEF AckOk, AckFails, Buckets
  <2>2. Put(b, x, {i}) \in Results BY <1>0, PutTyped
  <2>3. CallTyped' BY <1>0, <2>1, <2>2, EndTyped DEF Acked, CallTyped, Results
  <2>4. status' \in [Items -> {"pending", "accepted"}] BY <1>6 DEF AckOk, AckFails
  <2> QED BY <1>6, <2>3, <2>4 DEF AckOk, AckFails, CallTyped, Results, networkVars
<1>7. ASSUME NEW c \in Singles, OneFetched(c) \/ OneRead(c) \/ OneBuilt(c) \/ OneAcked(c)
      PROVE TypeOK'
  <2>1. todo[c] # <<>> /\ Head(todo[c]) \in Items
    BY <1>0, <1>7 DEF OneFetched, OneRead, OneBuilt, OneAcked, ItemDue
  <2>2. NoResult \in Results /\ Put(c, "acked", {Head(todo[c])}) \in Results
        /\ merged[c] \in SUBSET Items /\ result[c] \in Results
    BY <1>0, <2>1, PutTyped DEF Buckets, Results
  <2>3. CASE OneFetched(c)
    <3>1. CallTyped'
      BY <1>0, <2>2, <2>3, EndTyped DEF OneFetched, Goto, CallTyped, Results
    <3> QED BY <2>3, <3>1 DEF OneFetched, CallTyped, Results, networkVars
  <2>4. CASE OneRead(c) BY <1>0, <2>1, <2>4 DEF OneRead, Goto
  <2>5. CASE OneBuilt(c)
    BY <1>0, <2>2, <2>5, SendTyped DEF OneBuilt, CallTyped, Results
  <2>6. CASE OneAcked(c)
    <3>1. CallTyped' BY <1>0, <2>2, <2>6, EndTyped DEF OneAcked
    <3> QED BY <2>6, <3>1 DEF OneAcked, CallTyped, Results, networkVars
  <2> QED BY <1>7, <2>3, <2>4, <2>5, <2>6
<1>8. ASSUME NEW c \in Calls, SentOk(c) \/ CallThrows(c) PROVE TypeOK'
  <2>1. Put(c, "written", merged[c]) \in Results BY PutTyped DEF Buckets
  <2>2. CallTyped' BY <1>8, <2>1, EndTyped DEF SentOk, CallThrows, Results
  <2>3. status' \in [Items -> {"pending", "accepted"}] BY <1>8 DEF SentOk, CallThrows
  <2> QED BY <1>8, <2>2, <2>3 DEF SentOk, CallThrows, CallTyped, Results, networkVars
<1>9. ASSUME NEW c \in Calls, NodeAccepts(c) \/ NodeRefuses(c) \/ Mined(c) \/ Expires(c)
      PROVE TypeOK'
  <2>1. Carried(tx[c]) \subseteq Items BY DEF Carried, Contents
  <2>2. CASE NodeAccepts(c) BY <2>1, <2>2 DEF NodeAccepts, callVars, backendVars
  <2>3. CASE NodeRefuses(c) BY <2>3 DEF NodeRefuses, callVars, backendVars
  <2>4. CASE Mined(c) BY <2>1, <2>4 DEF Mined, callVars, backendVars
  <2>5. CASE Expires(c) BY <2>5 DEF Expires, callVars, backendVars
  <2> QED BY <1>9, <2>2, <2>3, <2>4, <2>5
<1>10. CASE UNCHANGED vars
  BY <1>10 DEF vars, callVars, networkVars, backendVars
<1> QED BY <1>1, <1>2, <1>3, <1>4, <1>5, <1>6, <1>7, <1>8, <1>9, <1>10 DEF Next

(* Every step of a call under way ends it or takes it one phase on.          *)
LEMMA StepDue == TypeOK /\ ItemDue /\ [Next]_vars => ItemDue'
<1> SUFFICES ASSUME TypeOK, ItemDue, [Next]_vars PROVE ItemDue' OBVIOUS
<1> USE DEF TypeOK, ItemDue
<1>1. CASE /\ todo' = todo
           /\ \A c \in Calls : pc'[c] = pc[c] \/ pc'[c] = "idle"
                               \/ (pc[c] # "idle" /\ pc'[c] # "fetching")
  BY <1>1
<1>2. ASSUME NEW c \in Calls, NEW q, Begins(c, q) PROVE ItemDue'
  BY <1>2 DEF Begins, Goto
<1>3. ASSUME NEW b \in Batches, FetchOk(b) \/ FetchFails(b) PROVE ItemDue'
  <2>1. b \in Calls /\ b \notin Singles BY CallAssumption DEF Calls
  <2>2. PICK q, res : NextItem(b, q, res) BY <1>3 DEF FetchOk, FetchFails
  <2>3. /\ todo[b] # <<>> /\ todo' = [todo EXCEPT ![b] = Tail(@)]
        /\ \/ Len(todo[b]) > 1 /\ pc' = pc
           \/ pc' = [pc EXCEPT ![b] = "idle"] \/ pc' = [pc EXCEPT ![b] = "reading"]
    BY <1>3, <2>1, <2>2 DEF FetchOk, FetchFails, NextItem, Returns, Goto
  <2>4. Len(todo[b]) > 1 => Tail(todo[b]) # <<>> BY <2>1, TailLeft
  <2> QED BY <2>1, <2>3, <2>4
<1>4. ASSUME NEW c \in Calls,
             \/ ReadOk(c) \/ (\E env \in Environments : Build(c, env))
             \/ (\E i \in Items : AckOk(c, i) \/ AckFails(c, i))
             \/ SentOk(c) \/ CallThrows(c)
             \/ OneFetched(c) \/ OneRead(c) \/ OneBuilt(c) \/ OneAcked(c)
      PROVE ItemDue'
  <2>1. todo' = todo /\ pc[c] # "idle"
    BY <1>4 DEF ReadOk, Build, AckOk, AckFails, SentOk, CallThrows, OneFetched, OneRead,
       OneBuilt, OneAcked
  <2>2. \A res, x, i, S, env :
          /\ Returns(c, res) \/ Throws(c) \/ Acknowledge(c, res) \/ Send(c, S, res)
               => \E label \in {"idle", "acking", "sending"} : Goto(c, label)
          /\ Acked(c, i, x) => Goto(c, "idle") \/ pc' = pc
          /\ Bisect(c, S, env) => \E label \in {"idle", "acking", "sending"} : Goto(c, label)
    BY DEF Returns, Throws, Acknowledge, Send, Acked, Bisect
  <2>3. \/ pc' = pc
        \/ \E label \in {"idle", "reading", "building", "sending", "acking"} : Goto(c, label)
    BY <1>4, <2>2 DEF ReadOk, Build, AckOk, AckFails, SentOk, CallThrows, OneFetched,
       OneRead, OneBuilt, OneAcked
  <2> QED BY <1>1, <2>1, <2>3 DEF Goto
<1>5. ASSUME NEW c \in Calls, NodeAccepts(c) \/ NodeRefuses(c) \/ Mined(c) \/ Expires(c)
      PROVE ItemDue'
  BY <1>1, <1>5 DEF NodeAccepts, NodeRefuses, Mined, Expires, callVars
<1>6. CASE UNCHANGED vars BY <1>1, <1>6 DEF vars, callVars
<1> QED
  BY <1>2, <1>3, <1>4, <1>5, <1>6 DEF Next, acceptInboxBatch, acceptOne, Calls

(* The state of the calls, the network and the backend keeps its types.      *)
THEOREM TypeCorrect == Spec => []TypeOK
<1>1. Init => TypeOK /\ ItemDue BY InitTyped DEF Init, ItemDue
<1>2. TypeOK /\ ItemDue /\ [Next]_vars => (TypeOK /\ ItemDue)' BY StepTyped, StepDue
<1> QED BY <1>1, <1>2, PTL DEF Spec

----------------------------------------------------------------------------
(* What the identity holds                                                   *)

(* The gate lets an item write only the key of its type.                     *)
LEMMA GateNarrow ==
    ASSUME NEW i \in Items
    PROVE  buildInboxVdxfAdditions(i) \subseteq Keys \cap {KeyFor(item[i].label)}
<1>1. item[i].label \in {"review", "attestation", "job_record"}
  BY ItemAssumption DEF Attributes, Types
<1>2. inboxAllowlistForType(item[i].label) = {KeyFor(item[i].label)}
  BY <1>1 DEF inboxAllowlistForType, KeyFor
<1>3. KeyFor(item[i].label) \in Keys BY <1>1 DEF KeyFor, Keys
<1>4. CASE Synthesized(i)
  BY <1>3, <1>4 DEF buildInboxVdxfAdditions, Synthesized, KeyFor
<1>5. CASE ~Synthesized(i)
  BY <1>2, <1>3, <1>5 DEF buildInboxVdxfAdditions
<1> QED BY <1>4, <1>5

(* A key of an update is carried forward, or one of the items writes it.     *)
LEMMA UpdateHolds ==
    ASSUME NEW content \in Contents, NEW S \in SUBSET Items, NEW k \in Keys
    PROVE  \/ /\ Update(content, S)[k] = content[k]
              /\ \A i \in S : k \notin buildInboxVdxfAdditions(i)
           \/ /\ Update(content, S)[k] \in S
              /\ k \in buildInboxVdxfAdditions(Update(content, S)[k])
<1> DEFINE I == {i \in S : k \in buildInboxVdxfAdditions(i)}
<1>1. Update(content, S)[k] = IF I = {} THEN content[k] ELSE CHOOSE i \in I : TRUE
  BY DEF Update
<1>2. I # {} => (CHOOSE i \in I : TRUE) \in I OBVIOUS
<1> QED BY <1>1, <1>2

\* Where the content of an identity, a read and an update comes from.
ContentStep ==
    /\ chain' = chain \/ \E c \in Calls : net[c] = "mempool" /\ chain' = tx[c]
    /\ \/ snap' = snap
       \/ \E c \in Calls, content \in {chain, Empty} : snap' = [snap EXCEPT ![c] = content]
    /\ \/ tx' = tx
       \/ \E c \in Calls : tx' = [tx EXCEPT ![c] = Empty]
       \/ \E c \in Calls, S \in SUBSET Items :
            tx' = [tx EXCEPT ![c] = Update(snap[c], S)]

(* Every step gets content from nowhere else.                                *)
LEMMA ContentSteps == TypeOK /\ [Next]_vars => ContentStep
<1> SUFFICES ASSUME TypeOK, [Next]_vars PROVE ContentStep OBVIOUS
<1> USE DEF ContentStep
<1>0. Batches \subseteq Calls /\ Singles \subseteq Calls BY DEF Calls
<1>1. ASSUME NEW c \in Calls, NEW q, Begins(c, q) PROVE ContentStep
  BY <1>1 DEF Begins
<1>2. ASSUME NEW b \in Batches, FetchOk(b) \/ FetchFails(b) PROVE ContentStep
  BY <1>2 DEF FetchOk, FetchFails, NextItem, networkVars
<1>3. ASSUME NEW c \in Calls, ReadOk(c) \/ OneRead(c) PROVE ContentStep
  BY <1>3 DEF ReadOk, OneRead
<1>4. ASSUME NEW c \in Calls, NEW S \in SUBSET Items, NEW res, Send(c, S, res),
             UNCHANGED <<snap, chain>>
      PROVE ContentStep
  BY <1>4 DEF Send
<1>5. ASSUME NEW b \in Batches, NEW env \in Environments, Build(b, env) PROVE ContentStep
  <2>1. merged[b] \in SUBSET Items BY <1>0 DEF TypeOK
  <2>2. \A S \in SUBSET merged[b] : S \in SUBSET Items BY <2>1
  <2>3. tx' = tx \/ \E S \in SUBSET merged[b] : \E res : Send(b, S, res)
    BY <1>5 DEF Build, Bisect
  <2> QED BY <1>0, <1>4, <1>5, <2>2, <2>3 DEF Build
<1>6. ASSUME NEW c \in Singles, OneBuilt(c) PROVE ContentStep
  BY <1>0, <1>4, <1>6 DEF OneBuilt, TypeOK
<1>7. ASSUME NEW c \in Calls,
             \/ (\E i \in Items : AckOk(c, i) \/ AckFails(c, i))
             \/ SentOk(c) \/ CallThrows(c) \/ OneFetched(c) \/ OneAcked(c)
      PROVE ContentStep
  BY <1>7 DEF AckOk, AckFails, SentOk, CallThrows, OneFetched, OneAcked, networkVars
<1>8. ASSUME NEW c \in Calls, NodeAccepts(c) \/ NodeRefuses(c) \/ Mined(c) \/ Expires(c)
      PROVE ContentStep
  BY <1>8 DEF NodeAccepts, NodeRefuses, Mined, Expires, callVars
<1>9. CASE UNCHANGED vars BY <1>9 DEF vars, callVars, networkVars
<1> QED
  BY <1>0, <1>1, <1>2, <1>3, <1>5, <1>6, <1>7, <1>8, <1>9
  DEF Next, acceptInboxBatch, acceptOne

\* Every key of a content holds an item of the type the key is for.
OwnKeys(content) ==
    \A k \in Keys : content[k] # None => k = KeyFor(item[content[k]].label)

KeysInv == OwnKeys(chain) /\ \A c \in Calls : OwnKeys(snap[c]) /\ OwnKeys(tx[c])

(* Every step keeps each key to the items of its type.                       *)
LEMMA StepKeys == TypeOK /\ KeysInv /\ [Next]_vars => KeysInv'
<1> SUFFICES ASSUME TypeOK, KeysInv, [Next]_vars PROVE KeysInv' OBVIOUS
<1>1. ContentStep BY ContentSteps
<1>2. OwnKeys(Empty) BY DEF OwnKeys, Empty
<1>3. ASSUME NEW content \in Contents, OwnKeys(content), NEW S \in SUBSET Items
      PROVE  OwnKeys(Update(content, S))
  <2> SUFFICES ASSUME NEW k \in Keys, Update(content, S)[k] # None
               PROVE  k = KeyFor(item[Update(content, S)[k]].label)
    BY DEF OwnKeys
  <2> QED BY <1>3, UpdateHolds, GateNarrow DEF OwnKeys
<1>4. OwnKeys(chain') BY <1>1 DEF KeysInv, ContentStep
<1>5. \A c \in Calls : OwnKeys(snap'[c])
  <2> SUFFICES ASSUME NEW c \in Calls PROVE OwnKeys(snap'[c]) OBVIOUS
  <2>1. snap'[c] \in {snap[c], chain, Empty} BY <1>1 DEF ContentStep, TypeOK
  <2> QED BY <1>2, <2>1 DEF KeysInv
<1>6. \A c \in Calls : OwnKeys(tx'[c])
  <2> SUFFICES ASSUME NEW c \in Calls PROVE OwnKeys(tx'[c]) OBVIOUS
  <2>1. \/ tx'[c] \in {tx[c], Empty}
        \/ \E S \in SUBSET Items : tx'[c] = Update(snap[c], S)
    BY <1>1 DEF ContentStep, TypeOK
  <2>2. snap[c] \in Contents /\ OwnKeys(snap[c]) /\ OwnKeys(tx[c])
    BY DEF TypeOK, KeysInv
  <2> QED BY <1>2, <1>3, <2>1, <2>2
<1> QED BY <1>4, <1>5, <1>6 DEF KeysInv, OwnKeys

(* What the confirmed identity holds under a key came from an item accepted  *)
(* as the type that key is for.                                              *)
THEOREM GateHolds == Spec => []OnlyOwnKeys
<1>1. Init => KeysInv BY DEF Init, KeysInv, OwnKeys, Empty
<1>2. TypeOK /\ KeysInv /\ [Next]_vars => KeysInv' BY StepKeys
<1>3. KeysInv => OnlyOwnKeys BY DEF KeysInv, OwnKeys, OnlyOwnKeys
<1> QED BY <1>1, <1>2, <1>3, TypeCorrect, PTL DEF Spec

----------------------------------------------------------------------------
(* Updates on the network                                                    *)

\* A step that neither reads nor writes the identity.
QuietStep ==
    /\ UNCHANGED <<merged, snap, networkVars>>
    /\ \A c \in Calls : \/ pc'[c] = pc[c] \/ pc'[c] \in {"idle", "acking"}
                        \/ pc[c] = "fetching" /\ pc'[c] = "reading"

(* Fetching, finishing and acknowledging are quiet.                          *)
LEMMA QuietSteps ==
    ASSUME TypeOK, NEW c \in Calls,
           \/ FetchOk(c) \/ FetchFails(c) \/ SentOk(c) \/ CallThrows(c)
           \/ (\E i \in Items : AckOk(c, i) \/ AckFails(c, i))
           \/ OneFetched(c) \/ OneAcked(c)
    PROVE  QuietStep
<1> USE DEF QuietStep, TypeOK
<1>1. \A res, x, i : /\ Returns(c, res) \/ Throws(c) => Goto(c, "idle")
                     /\ Acknowledge(c, res) => Goto(c, "idle") \/ Goto(c, "acking")
                     /\ Acked(c, i, x) => Goto(c, "idle") \/ pc' = pc
  BY DEF Returns, Throws, Acknowledge, Acked
<1>2. CASE FetchOk(c) \/ FetchFails(c)
  <2>1. pc[c] = "fetching" /\ \E q, res : NextItem(c, q, res)
    BY <1>2 DEF FetchOk, FetchFails
  <2>2. /\ UNCHANGED <<merged, snap, networkVars>>
        /\ pc' = pc \/ Goto(c, "idle") \/ Goto(c, "reading")
    BY <1>1, <2>1 DEF NextItem
  <2> QED BY <2>1, <2>2 DEF Goto
<1>3. CASE SentOk(c) BY <1>1, <1>3 DEF SentOk, Goto
<1>4. CASE CallThrows(c) BY <1>1, <1>4 DEF CallThrows, Goto
<1>5. CASE \E i \in Items : AckOk(c, i) \/ AckFails(c, i)
  BY <1>1, <1>5 DEF AckOk, AckFails, Goto
<1>6. CASE OneFetched(c)
  <2>1. pc[c] = "fetching" /\ (Goto(c, "idle") \/ Goto(c, "reading"))
        /\ UNCHANGED <<merged, snap, networkVars>>
    BY <1>1, <1>6 DEF OneFetched
  <2> QED BY <2>1 DEF Goto
<1>7. CASE OneAcked(c) BY <1>1, <1>7 DEF OneAcked, Goto
<1> QED BY <1>2, <1>3, <1>4, <1>5, <1>6, <1>7

(* A build sends an update of some of the merged items, or ends its call's   *)
(* dealings with the identity.                                               *)
LEMMA BuildSteps ==
    ASSUME TypeOK, NEW c \in Calls,
           OneBuilt(c) \/ \E env \in Environments : Build(c, env)
    PROVE  /\ pc[c] = "building" /\ UNCHANGED <<snap, fresh, chain, sent, status>>
           /\ UNCHANGED <<todo, cands>>
           /\ \/ \E S \in SUBSET merged[c] : \E res : Send(c, S, res)
              \/ /\ UNCHANGED <<tx, net>>
                 /\ Goto(c, "idle") \/ Goto(c, "acking")
                 /\ merged' = merged \/ merged' = [merged EXCEPT ![c] = {}]
<1> QED
  BY DEF OneBuilt, Build, Bisect, Throws, Acknowledge, Returns

NetInv ==
    \A c \in Calls :
      /\ pc[c] \in {"fetching", "reading", "building"} => net[c] = "none"
      /\ pc[c] = "sending" => net[c] # "none"
      /\ (pc[c] = "building" \/ net[c] \in {"wire", "mempool"}) /\ fresh[c]
           => snap[c] = chain
      /\ net[c] \in {"wire", "mempool"} => tx[c] = Update(snap[c], merged[c])
      /\ net[c] = "mempool" =>
           fresh[c] /\ \A d \in Calls : net[d] = "mempool" => d = c

(* An update spends the output it was built from: until it is mined or has   *)
(* become void, what it read is what the identity holds.                     *)
LEMMA StepNet == TypeOK /\ NetInv /\ [Next]_vars => NetInv'
<1> SUFFICES ASSUME TypeOK, NetInv, [Next]_vars PROVE NetInv' OBVIOUS
<1> USE DEF TypeOK, NetInv
<1>0. Batches \subseteq Calls /\ Singles \subseteq Calls BY DEF Calls
<1>1. CASE QuietStep BY <1>1 DEF QuietStep, networkVars
<1>2. ASSUME NEW c \in Calls, NEW q, Begins(c, q) PROVE NetInv'
  BY <1>2 DEF Begins, Goto
<1>3. ASSUME NEW c \in Calls, ReadOk(c) PROVE NetInv'
  <2>1. /\ pc[c] = "reading" /\ UNCHANGED <<tx, net, chain>>
        /\ snap' = [snap EXCEPT ![c] = chain] /\ fresh' = [fresh EXCEPT ![c] = TRUE]
        /\ \E S : merged' = [merged EXCEPT ![c] = S]
        /\ Goto(c, "idle") \/ Goto(c, "acking") \/ Goto(c, "building")
    BY <1>3 DEF ReadOk, Acknowledge, Returns
  <2> QED BY <2>1 DEF Goto
<1>4. ASSUME NEW c \in Calls, OneRead(c) PROVE NetInv'
  BY <1>4 DEF OneRead, Goto
<1>5. ASSUME NEW c \in Calls, OneBuilt(c) \/ \E env \in Environments : Build(c, env)
      PROVE NetInv'
  <2>0. pc[c] = "building" /\ net[c] = "none" /\ UNCHANGED <<snap, fresh, chain>>
    BY <1>5, BuildSteps
  <2>1. CASE \E S \in SUBSET merged[c] : \E res : Send(c, S, res)
    <3>1. PICK S \in SUBSET merged[c] :
            /\ pc' = [pc EXCEPT ![c] = "sending"] /\ net' = [net EXCEPT ![c] = "wire"]
            /\ merged' = [merged EXCEPT ![c] = S]
            /\ tx' = [tx EXCEPT ![c] = Update(snap[c], S)]
      BY <2>1 DEF Send, Goto
    <3>2. S \in SUBSET Items OBVIOUS
    <3>3. tx'[c] = Update(snap[c], S) /\ merged'[c] = S BY <3>1, <3>2
    <3>4. \A d \in Calls : d # c => tx'[d] = tx[d] /\ merged'[d] = merged[d]
      BY <3>1
    <3> QED BY <2>0, <3>1, <3>3, <3>4
  <2>2. CASE ~ \E S \in SUBSET merged[c] : \E res : Send(c, S, res)
    <3>1. /\ UNCHANGED <<tx, net>>
          /\ pc' = [pc EXCEPT ![c] = "idle"] \/ pc' = [pc EXCEPT ![c] = "acking"]
          /\ merged' = merged \/ merged' = [merged EXCEPT ![c] = {}]
      BY <1>5, <2>2, BuildSteps DEF Goto
    <3>2. \A d \in Calls : d # c => merged'[d] = merged[d] BY <3>1
    <3> QED BY <2>0, <3>1, <3>2
  <2> QED BY <2>1, <2>2
<1>6. ASSUME NEW c \in Calls, NodeAccepts(c) PROVE NetInv'
  BY <1>6 DEF NodeAccepts, callVars
<1>7. ASSUME NEW c \in Calls, NodeRefuses(c) PROVE NetInv'
  BY <1>7 DEF NodeRefuses, callVars
<1>8. ASSUME NEW c \in Calls, Mined(c) PROVE NetInv'
  BY <1>8 DEF Mined, callVars
<1>9. ASSUME NEW c \in Calls, Expires(c) PROVE NetInv'
  BY <1>9 DEF Expires, callVars
<1>10. CASE UNCHANGED vars BY <1>1, <1>10 DEF QuietStep, vars, callVars
<1> QED
  BY <1>0, <1>1, <1>2, <1>3, <1>4, <1>5, <1>6, <1>7, <1>8, <1>9, <1>10, QuietSteps
  DEF Next, acceptInboxBatch, acceptOne

(* Only mining changes what is confirmed, and only to what was sent.         *)
LEMMA MinedSteps ==
    ASSUME TypeOK, [Next]_vars, NEW c \in Calls, net[c] = "mempool", net'[c] = "confirmed"
    PROVE  chain' = tx[c]
<1> USE DEF TypeOK
<1>0. Batches \subseteq Calls /\ Singles \subseteq Calls BY DEF Calls
<1>1. ~(QuietStep \/ UNCHANGED vars) BY DEF QuietStep, vars, networkVars
<1>2. ASSUME NEW d \in Calls, NEW q, Begins(d, q) PROVE FALSE
  <2>1. net' = [net EXCEPT ![d] = "none"] BY <1>2 DEF Begins
  <2> QED BY <2>1
<1>3. ASSUME NEW d \in Calls
      PROVE  /\ ~ReadOk(d) /\ ~OneRead(d)
             /\ ~NodeAccepts(d) /\ ~NodeRefuses(d) /\ ~Expires(d)
  BY DEF ReadOk, OneRead, NodeAccepts, NodeRefuses, Expires
<1>4. ASSUME NEW d \in Calls, OneBuilt(d) \/ \E env \in Environments : Build(d, env)
      PROVE  FALSE
  <2>1. net' = net \/ net' = [net EXCEPT ![d] = "wire"]
    BY <1>4, BuildSteps DEF Send
  <2> QED BY <2>1
<1>5. PICK d \in Calls : Mined(d)
  BY <1>0, <1>1, <1>2, <1>3, <1>4, QuietSteps DEF Next, acceptInboxBatch, acceptOne
<1>6. d = c BY <1>5 DEF Mined
<1> QED BY <1>5, <1>6 DEF Mined

(* A mined update changes only the keys of its own items.                    *)
THEOREM NothingUndone == Spec => OthersKept
<1>1. Init => NetInv BY DEF Init, NetInv
<1>2. TypeOK /\ NetInv /\ [Next]_vars => NetInv' BY StepNet
<1>3. TypeOK /\ NetInv /\ [Next]_vars =>
        [\A c \in Calls : net[c] = "mempool" /\ net'[c] = "confirmed" =>
           \A k \in Keys : chain'[k] # chain[k] =>
             \E i \in merged[c] : k \in buildInboxVdxfAdditions(i)]_vars
  <2> SUFFICES ASSUME TypeOK, NetInv, [Next]_vars,
                      NEW c \in Calls, net[c] = "mempool", net'[c] = "confirmed",
                      NEW k \in Keys, chain'[k] # chain[k]
               PROVE  \E i \in merged[c] : k \in buildInboxVdxfAdditions(i)
    OBVIOUS
  <2>1. chain' = Update(chain, merged[c]) BY MinedSteps DEF NetInv
  <2>2. chain \in Contents /\ merged[c] \in SUBSET Items BY DEF TypeOK
  <2> QED BY <2>1, <2>2, UpdateHolds
<1> QED BY <1>1, <1>2, <1>3, TypeCorrect, PTL DEF Spec, OthersKept

----------------------------------------------------------------------------
(* Rejections                                                                *)

RejectInv ==
    /\ \A i \in dead : AtFault(i)
    /\ \A c \in Calls : \A i \in result[c]["rejected"] : AtFault(i)

(* Ending a call with blameless rejections keeps them so.                    *)
LEMMA EndBlames ==
    ASSUME TypeOK, RejectInv, NEW c \in Calls, NEW res \in Results,
           \A i \in res["rejected"] : AtFault(i),
           \/ Returns(c, res) \/ Throws(c) \/ Acknowledge(c, res)
           \/ result' = [result EXCEPT ![c] = res] /\ UNCHANGED dead
    PROVE  RejectInv'
<1> USE DEF TypeOK, RejectInv, Results
<1>1. "rejected" \in Buckets BY DEF Buckets
<1>2. NoResult["rejected"] = {} BY <1>1 DEF NoResult
<1>3. dead' \subseteq dead \cup res["rejected"]
  BY <1>1 DEF Returns, Throws, Acknowledge
<1>4. result' = [result EXCEPT ![c] = res] \/ result' = [result EXCEPT ![c] = NoResult]
  BY DEF Returns, Throws, Acknowledge
<1>5. \A i : AtFault(i)' <=> AtFault(i) BY DEF AtFault
<1> QED BY <1>2, <1>3, <1>4, <1>5

(* A build that throws with one item alone, though not without it, is that   *)
(* item's fault.                                                             *)
LEMMA BlameRight ==
    ASSUME NEW i \in Items, NEW env, ~BuildThrows({}, env), BuildThrows({i}, env)
    PROVE  AtFault(i)
<1>1. Cardinality({i}) = 1 BY FS_Singleton
<1> QED BY <1>1 DEF BuildThrows, AtFault

(* Every step keeps rejections to culprits.                                  *)
LEMMA StepReject == TypeOK /\ ItemDue /\ RejectInv /\ [Next]_vars => RejectInv'
<1> SUFFICES ASSUME TypeOK, ItemDue, RejectInv, [Next]_vars PROVE RejectInv' OBVIOUS
<1>0. Batches \subseteq Calls /\ Singles \subseteq Calls BY DEF Calls
<1>1. ASSUME UNCHANGED <<result, dead>> PROVE RejectInv'
  BY <1>1 DEF RejectInv, AtFault
<1>2. ASSUME NEW c \in Calls, NEW x \in Buckets, NEW S \in SUBSET Items,
             x = "rejected" => \A i \in S : AtFault(i)
      PROVE  /\ Put(c, x, S) \in Results
             /\ \A i \in Put(c, x, S)["rejected"] : AtFault(i)
  <2>1. Put(c, x, S)["rejected"] = IF x = "rejected" THEN result[c]["rejected"] \cup S
                                                     ELSE result[c]["rejected"]
    BY DEF Put, TypeOK, Buckets
  <2> QED BY <1>2, <2>1, PutTyped DEF RejectInv
<1>3. ASSUME NEW c \in Calls
      PROVE  result[c] \in Results /\ \A i \in result[c]["rejected"] : AtFault(i)
  BY DEF TypeOK, Results, RejectInv
<1>4. ASSUME NEW c \in Calls, NEW q, Begins(c, q) PROVE RejectInv'
  <2>1. NoResult \in Results /\ NoResult["rejected"] = {}
    BY DEF NoResult, Results, Buckets
  <2> QED BY <1>4, <2>1, EndBlames DEF Begins, backendVars
<1>5. ASSUME NEW b \in Batches, FetchOk(b) PROVE RejectInv'
  <2> DEFINE i == Head(todo[b])
  <2>1. i \in Items BY <1>0, <1>5 DEF FetchOk, ItemDue, TypeOK
  <2>2. PICK res \in Results : /\ \E q : NextItem(b, q, res)
                               /\ \A j \in res["rejected"] : AtFault(j)
    BY <1>0, <1>2, <1>3, <1>5, <2>1 DEF FetchOk, Buckets, AtFault
  <2> QED BY <1>0, <2>2, EndBlames DEF NextItem
<1>6. ASSUME NEW b \in Batches, FetchFails(b) PROVE RejectInv'
  <2>1. Head(todo[b]) \in Items BY <1>0, <1>6 DEF FetchFails, ItemDue, TypeOK
  <2>2. PICK res \in Results : /\ \E q : NextItem(b, q, res)
                               /\ \A j \in res["rejected"] : AtFault(j)
    BY <1>0, <1>2, <1>6, <2>1 DEF FetchFails, Buckets
  <2> QED BY <1>0, <2>2, EndBlames DEF NextItem
<1>7. ASSUME NEW b \in Batches, ReadOk(b) PROVE RejectInv'
  <2>1. ASSUME NEW P \in SUBSET Items, NEW D \in SUBSET Items
        PROVE  LET res == [result[b] EXCEPT !["written"] = @ \cup P,
                                            !["deferred"] = @ \cup D] IN
               res \in Results /\ \A i \in res["rejected"] : AtFault(i)
    <3> DEFINE r == [result[b] EXCEPT !["written"] = @ \cup P]
    <3>1. r \in Results /\ r["rejected"] = result[b]["rejected"]
      BY <1>0, <1>3 DEF Results, Buckets
    <3>2. [r EXCEPT !["deferred"] = @ \cup D] \in Results
          /\ [r EXCEPT !["deferred"] = @ \cup D]["rejected"] = r["rejected"]
      BY <3>1 DEF Results, Buckets
    <3> QED BY <1>0, <1>3, <3>1, <3>2
  <2>2. Elems(cands[b]) \subseteq Items BY <1>0 DEF Elems, TypeOK
  <2>3. PICK res \in Results : /\ \A i \in res["rejected"] : AtFault(i)
                               /\ \/ Acknowledge(b, res)
                                  \/ result' = [result EXCEPT ![b] = res] /\ UNCHANGED dead
    BY <1>7, <2>1, <2>2 DEF ReadOk
  <2> QED BY <1>0, <2>3, EndBlames
<1>8. ASSUME NEW b \in Batches, NEW env \in Environments, Build(b, env) PROVE RejectInv'
  <2> DEFINE blamed == {i \in merged[b] : BuildThrows({i}, env)}
  <2>1. merged[b] \in SUBSET Items /\ blamed \in SUBSET Items BY <1>0 DEF TypeOK
  <2>2. CASE ~BuildThrows(merged[b], env)
    BY <1>0, <1>3, <1>8, <2>2, EndBlames DEF Build, Send
  <2>3. CASE Throws(b) BY <1>0, <1>3, <2>3, EndBlames
  <2>4. CASE BuildThrows(merged[b], env) /\ ~Throws(b)
    <3>1. Bisect(b, merged[b], env) /\ ~BuildThrows({}, env)
      BY <1>8, <2>4 DEF Build, Bisect
    <3>2. \A i \in blamed : AtFault(i) BY <2>1, <3>1, BlameRight
    <3> DEFINE r == Put(b, "rejected", blamed)
    <3>3. r \in Results /\ \A i \in r["rejected"] : AtFault(i)
      BY <1>0, <1>2, <2>1, <3>2 DEF Buckets
    <3>4. ASSUME NEW D \in SUBSET Items
          PROVE  /\ [r EXCEPT !["deferred"] = @ \cup D] \in Results
                 /\ \A i \in [r EXCEPT !["deferred"] = @ \cup D]["rejected"] : AtFault(i)
      BY <3>3 DEF Results, Buckets
    <3>5. PICK res \in Results : /\ \A i \in res["rejected"] : AtFault(i)
                                 /\ \/ Acknowledge(b, res)
                                    \/ result' = [result EXCEPT ![b] = res] /\ UNCHANGED dead
      BY <2>1, <2>4, <3>1, <3>3, <3>4 DEF Bisect, Send
    <3> QED BY <1>0, <3>5, EndBlames
  <2> QED BY <2>2, <2>3, <2>4
<1>9. ASSUME NEW b \in Batches, NEW i \in Items, AckOk(b, i) \/ AckFails(b, i)
      PROVE RejectInv'
  <2>1. PICK x \in Buckets \ {"rejected"} : Acked(b, i, x)
    BY <1>9 DEF AckOk, AckFails, Buckets
  <2> QED BY <1>0, <1>2, <2>1, EndBlames DEF Acked
<1>10. ASSUME NEW c \in Singles, OneFetched(c) \/ OneRead(c) \/ OneBuilt(c) \/ OneAcked(c)
       PROVE RejectInv'
  <2>1. NoResult \in Results /\ NoResult["rejected"] = {}
    BY DEF NoResult, Results, Buckets
  <2>2. CASE OneFetched(c) BY <1>0, <1>1, <2>1, <2>2, EndBlames DEF OneFetched
  <2>3. CASE OneRead(c) BY <1>1, <2>3 DEF OneRead
  <2>4. CASE OneBuilt(c) BY <1>0, <1>3, <2>4, EndBlames DEF OneBuilt, Send
  <2>5. CASE OneAcked(c)
    <3>1. Head(todo[c]) \in Items BY <1>0, <2>5 DEF OneAcked, ItemDue, TypeOK
    <3> QED BY <1>0, <1>2, <2>5, <3>1, EndBlames DEF OneAcked, Buckets
  <2> QED BY <1>10, <2>2, <2>3, <2>4, <2>5
<1>11. ASSUME NEW c \in Calls, SentOk(c) PROVE RejectInv'
  <2>1. merged[c] \in SUBSET Items BY DEF TypeOK
  <2> QED BY <1>2, <1>11, <2>1, EndBlames DEF SentOk, Buckets
<1>12. ASSUME NEW c \in Calls, CallThrows(c) PROVE RejectInv'
  BY <1>3, <1>12, EndBlames DEF CallThrows
<1>13. ASSUME NEW c \in Calls, NodeAccepts(c) \/ NodeRefuses(c) \/ Mined(c) \/ Expires(c)
       PROVE RejectInv'
  BY <1>1, <1>13 DEF NodeAccepts, NodeRefuses, Mined, Expires, callVars, backendVars
<1>14. CASE UNCHANGED vars BY <1>1, <1>14 DEF vars, callVars, backendVars
<1> QED
  BY <1>0, <1>4, <1>5, <1>6, <1>7, <1>8, <1>9, <1>10, <1>11, <1>12, <1>13, <1>14
  DEF Next, acceptInboxBatch, acceptOne

(* Only culprits are dead-lettered.                                          *)
THEOREM OnlyCulprits == Spec => []RejectedAtFault
<1>1. Init => TypeOK /\ ItemDue /\ RejectInv
  BY InitTyped DEF Init, ItemDue, RejectInv, NoResult, Buckets
<1>2. TypeOK /\ ItemDue /\ RejectInv /\ [Next]_vars => (TypeOK /\ ItemDue /\ RejectInv)'
  BY StepTyped, StepDue, StepReject
<1>3. RejectInv => RejectedAtFault BY DEF RejectInv, RejectedAtFault
<1> QED BY <1>1, <1>2, <1>3, PTL DEF Spec

----------------------------------------------------------------------------
(* No silent data loss                                                       *)

\* Every candidate has something to write.
CandInv ==
    \A c \in Calls : \A n \in 1..Len(cands[c]) : buildInboxVdxfAdditions(cands[c][n]) # {}

(* Every step keeps the candidates to items that have something to write.    *)
LEMMA StepCand == TypeOK /\ ItemDue /\ CandInv /\ [Next]_vars => CandInv'
<1> SUFFICES ASSUME TypeOK, ItemDue, CandInv, [Next]_vars PROVE CandInv' OBVIOUS
<1> USE DEF TypeOK, CandInv
<1>0. Batches \subseteq Calls /\ Singles \subseteq Calls BY DEF Calls
<1>1. CASE UNCHANGED cands BY <1>1
<1>2. ASSUME NEW c \in Calls, NEW q, Begins(c, q) PROVE CandInv'
  <2>1. cands' = [cands EXCEPT ![c] = <<>>] BY <1>2 DEF Begins
  <2>2. 1..Len(<<>>) = {} BY EmptySeq
  <2>3. \A d \in Calls : cands'[d] = IF d = c THEN <<>> ELSE cands[d] BY <2>1
  <2>4. \A d \in Calls : \A n \in 1..Len(cands'[d]) : d # c BY <2>2, <2>3
  <2> QED BY <2>3, <2>4
<1>3. ASSUME NEW b \in Batches, FetchOk(b) \/ FetchFails(b) PROVE CandInv'
  <2>1. Head(todo[b]) \in Items BY <1>0, <1>3 DEF FetchOk, FetchFails, ItemDue
  <2>2. \/ UNCHANGED cands
        \/ /\ buildInboxVdxfAdditions(Head(todo[b])) # {}
           /\ cands' = [cands EXCEPT ![b] = Append(cands[b], Head(todo[b]))]
    <3>1. \A q, res : NextItem(b, q, res) => cands' = [cands EXCEPT ![b] = q]
      BY DEF NextItem
    <3>2. [cands EXCEPT ![b] = cands[b]] = cands BY <1>0
    <3> QED BY <1>3, <3>1, <3>2 DEF FetchOk, FetchFails, Passes
  <2>3. CASE /\ buildInboxVdxfAdditions(Head(todo[b])) # {}
             /\ cands' = [cands EXCEPT ![b] = Append(cands[b], Head(todo[b]))]
    <3>1. cands[b] \in Seq(Items) BY <1>0
    <3>2. \A n \in 1..Len(Append(cands[b], Head(todo[b]))) :
            \/ n \in 1..Len(cands[b]) /\ Append(cands[b], Head(todo[b]))[n] = cands[b][n]
            \/ Append(cands[b], Head(todo[b]))[n] = Head(todo[b])
      BY <2>1, <3>1
    <3>3. \A n \in 1..Len(Append(cands[b], Head(todo[b]))) :
            buildInboxVdxfAdditions(Append(cands[b], Head(todo[b]))[n]) # {}
      BY <1>0, <2>3, <3>2
    <3>4. \A c \in Calls : cands'[c] = IF c = b THEN Append(cands[b], Head(todo[b]))
                                                ELSE cands[c]
      BY <1>0, <2>3
    <3> QED BY <3>3, <3>4
  <2> QED BY <1>1, <2>2, <2>3
<1> QED
  BY <1>0, <1>1, <1>2, <1>3
  DEF Next, acceptInboxBatch, acceptOne, ReadOk, Build, AckOk, AckFails, SentOk, CallThrows,
      OneFetched, OneRead, OneBuilt, OneAcked, NodeAccepts, NodeRefuses, Mined, Expires,
      callVars, vars

\* The items of S write different keys.
Writable(S) ==
    /\ \A i \in S : buildInboxVdxfAdditions(i) # {}
    /\ \A i, j \in S :
         i # j => buildInboxVdxfAdditions(i) \cap buildInboxVdxfAdditions(j) = {}

(* The merge lets no two items have one key.                                 *)
LEMMA MergeWritable ==
    ASSUME NEW q \in Seq(Items), NEW content, NEW S, Merge(q, content, S),
           \A n \in 1..Len(q) : buildInboxVdxfAdditions(q[n]) # {}
    PROVE  Writable(S)
<1>1. \A i \in S : \E n \in 1..Len(q) : q[n] = i BY DEF Merge, Elems
<1>2. ASSUME NEW n \in 1..Len(q), NEW m \in 1..Len(q), m < n, q[n] \in S, q[m] \in S
      PROVE  buildInboxVdxfAdditions(q[m]) \cap buildInboxVdxfAdditions(q[n]) = {}
  <2>1. Joins(q, n, S) BY <1>2 DEF Merge
  <2>2. q[m] \in {q[l] : l \in 1..n - 1} \cap S BY <1>2
  <2> QED BY <2>1, <2>2 DEF Joins
<1>3. ASSUME NEW i \in S, NEW j \in S, i # j
      PROVE  buildInboxVdxfAdditions(i) \cap buildInboxVdxfAdditions(j) = {}
  <2>1. PICK n \in 1..Len(q), m \in 1..Len(q) : q[n] = i /\ q[m] = j BY <1>1
  <2>2. n < m \/ m < n BY <1>3, <2>1
  <2> QED BY <1>2, <2>1, <2>2
<1> QED BY <1>1, <1>3 DEF Writable

(* An update of items that write different keys carries each of them.        *)
LEMMA CarriesAll ==
    ASSUME NEW content \in Contents, NEW S \in SUBSET Items, Writable(S)
    PROVE  S \subseteq Carried(Update(content, S))
<1> SUFFICES ASSUME NEW i \in S PROVE i \in Carried(Update(content, S)) OBVIOUS
<1>1. PICK k \in Keys : k \in buildInboxVdxfAdditions(i) BY GateNarrow DEF Writable
<1>2. Update(content, S)[k] = i
  BY <1>1, UpdateHolds DEF Writable
<1>3. i # None BY ItemAssumption
<1> QED BY <1>1, <1>2, <1>3 DEF Carried

UpdateInv ==
    \A c \in Calls :
      /\ pc[c] = "building" => Writable(merged[c])
      /\ pc[c] = "sending" => merged[c] \subseteq Carried(tx[c])
      /\ net[c] \in {"mempool", "confirmed", "expired"} => Carried(tx[c]) \subseteq sent

(* Every step keeps updates carrying what their calls merged.                *)
LEMMA StepUpdate == TypeOK /\ ItemDue /\ CandInv /\ UpdateInv /\ [Next]_vars => UpdateInv'
<1> SUFFICES ASSUME TypeOK, ItemDue, CandInv, UpdateInv, [Next]_vars PROVE UpdateInv'
  OBVIOUS
<1> USE DEF TypeOK, UpdateInv
<1>0. Batches \subseteq Calls /\ Singles \subseteq Calls BY DEF Calls
<1>1. CASE QuietStep BY <1>1 DEF QuietStep, networkVars
<1>2. ASSUME NEW c \in Calls, NEW q, Begins(c, q) PROVE UpdateInv'
  BY <1>2 DEF Begins, Goto
<1>3. ASSUME NEW c \in Calls, NEW S, Writable(S), merged' = [merged EXCEPT ![c] = S],
             UNCHANGED <<tx, net, sent>>,
             Goto(c, "idle") \/ Goto(c, "acking") \/ Goto(c, "building")
      PROVE UpdateInv'
  BY <1>3 DEF Goto
<1>4. ASSUME NEW b \in Batches, ReadOk(b) PROVE UpdateInv'
  <2>1. PICK S : /\ Merge(cands[b], chain, S) /\ merged' = [merged EXCEPT ![b] = S]
                 /\ UNCHANGED <<tx, net, sent>>
                 /\ Goto(b, "idle") \/ Goto(b, "acking") \/ Goto(b, "building")
    BY <1>4 DEF ReadOk, Acknowledge, Returns
  <2>2. Writable(S) BY <1>0, <2>1, MergeWritable DEF CandInv
  <2> QED BY <1>0, <1>3, <2>1, <2>2
<1>5. ASSUME NEW c \in Singles, OneRead(c) PROVE UpdateInv'
  <2>1. Writable({Head(todo[c])}) BY <1>5 DEF OneRead, Writable
  <2> QED BY <1>0, <1>3, <1>5, <2>1 DEF OneRead
<1>6. ASSUME NEW c \in Calls, OneBuilt(c) \/ \E env \in Environments : Build(c, env)
      PROVE UpdateInv'
  <2>0. pc[c] = "building" /\ UNCHANGED <<snap, sent>> BY <1>6, BuildSteps
  <2>1. CASE \E S \in SUBSET merged[c] : \E res : Send(c, S, res)
    <3>1. PICK S \in SUBSET merged[c] :
            /\ pc' = [pc EXCEPT ![c] = "sending"] /\ net' = [net EXCEPT ![c] = "wire"]
            /\ merged' = [merged EXCEPT ![c] = S]
            /\ tx' = [tx EXCEPT ![c] = Update(snap[c], S)]
      BY <2>1 DEF Send, Goto
    <3>2. S \in SUBSET Items /\ Writable(S) BY <2>0 DEF Writable
    <3>3. S \subseteq Carried(Update(snap[c], S)) BY <3>2, CarriesAll
    <3>4. tx'[c] = Update(snap[c], S) /\ merged'[c] = S BY <3>1, <3>2
    <3>5. \A d \in Calls : d # c => /\ tx'[d] = tx[d] /\ merged'[d] = merged[d]
                                    /\ pc'[d] = pc[d] /\ net'[d] = net[d]
      BY <3>1
    <3> QED BY <2>0, <3>1, <3>3, <3>4, <3>5
  <2>2. CASE ~ \E S \in SUBSET merged[c] : \E res : Send(c, S, res)
    <3>1. /\ UNCHANGED <<tx, net>>
          /\ pc' = [pc EXCEPT ![c] = "idle"] \/ pc' = [pc EXCEPT ![c] = "acking"]
          /\ merged' = merged \/ merged' = [merged EXCEPT ![c] = {}]
      BY <1>6, <2>2, BuildSteps DEF Goto
    <3>2. \A d \in Calls : d # c => merged'[d] = merged[d] BY <3>1
    <3> QED BY <2>0, <3>1, <3>2
  <2> QED BY <2>1, <2>2
<1>7. ASSUME NEW c \in Calls, NodeAccepts(c) PROVE UpdateInv'
  BY <1>7 DEF NodeAccepts, callVars
<1>8. ASSUME NEW c \in Calls, NodeRefuses(c) \/ Expires(c) PROVE UpdateInv'
  BY <1>8 DEF NodeRefuses, Expires, callVars
<1>9. ASSUME NEW c \in Calls, Mined(c) PROVE UpdateInv'
  BY <1>9 DEF Mined, callVars
<1>10. CASE UNCHANGED vars BY <1>1, <1>10 DEF QuietStep, vars, callVars
<1> QED
  BY <1>0, <1>1, <1>2, <1>4, <1>5, <1>6, <1>7, <1>8, <1>9, <1>10, QuietSteps
  DEF Next, acceptInboxBatch, acceptOne

\* A single-item call sends its item, and acknowledges what it has sent.
SingleInv ==
    \A c \in Singles :
      /\ pc[c] \in {"building", "sending", "acking"} => merged[c] = {Head(todo[c])}
      /\ pc[c] = "acking" => merged[c] \subseteq result[c]["written"]

(* Every step keeps single-item calls to their item.                         *)
LEMMA StepSingle == TypeOK /\ SingleInv /\ [Next]_vars => SingleInv'
<1> SUFFICES ASSUME TypeOK, SingleInv, [Next]_vars PROVE SingleInv' OBVIOUS
<1> USE DEF TypeOK, SingleInv
<1>0. Batches \subseteq Calls /\ Singles \subseteq Calls /\ Batches \cap Singles = {}
  BY CallAssumption DEF Calls
<1>1. CASE UNCHANGED <<pc, todo, merged, result>> BY <1>1
<1>2. ASSUME NEW c \in Calls, NEW q, Begins(c, q) PROVE SingleInv'
  BY <1>0, <1>2 DEF Begins, Goto
<1>3. ASSUME NEW b \in Batches,
             \A c \in Singles : /\ pc'[c] = pc[c] /\ todo'[c] = todo[c]
                                /\ merged'[c] = merged[c] /\ result'[c] = result[c]
      PROVE SingleInv'
  BY <1>3
<1>4. ASSUME NEW b \in Batches,
             \/ FetchOk(b) \/ FetchFails(b) \/ ReadOk(b)
             \/ (\E env \in Environments : Build(b, env))
             \/ (\E i \in Items : AckOk(b, i) \/ AckFails(b, i))
      PROVE SingleInv'
  <2>1. \A res, x, i : Returns(b, res) \/ Throws(b) \/ Acknowledge(b, res) \/ Acked(b, i, x) =>
          \A c \in Singles : pc'[c] = pc[c] /\ result'[c] = result[c]
    BY <1>0 DEF Returns, Throws, Acknowledge, Acked, Goto
  <2>2. CASE FetchOk(b) \/ FetchFails(b)
    <3>1. PICK q, res : NextItem(b, q, res) BY <2>2 DEF FetchOk, FetchFails
    <3> QED BY <1>0, <1>3, <2>1, <3>1 DEF NextItem, Goto
  <2>3. CASE ReadOk(b)
    <3>1. /\ UNCHANGED todo /\ \E S : merged' = [merged EXCEPT ![b] = S]
          /\ \E res : \/ Acknowledge(b, res)
                      \/ Goto(b, "building") /\ result' = [result EXCEPT ![b] = res]
      BY <2>3 DEF ReadOk
    <3> QED BY <1>0, <1>3, <2>1, <3>1 DEF Goto
  <2>4. CASE \E env \in Environments : Build(b, env)
    <3>1. /\ UNCHANGED todo
          /\ merged' = merged \/ \E S : merged' = [merged EXCEPT ![b] = S]
          /\ \E res : \/ Throws(b) \/ Acknowledge(b, res)
                      \/ Goto(b, "sending") /\ result' = [result EXCEPT ![b] = res]
      BY <2>4 DEF Build, Bisect, Send
    <3>2. \A c \in Singles : todo'[c] = todo[c] /\ merged'[c] = merged[c]
      BY <1>0, <3>1
    <3>3. \A c \in Singles : pc'[c] = pc[c] /\ result'[c] = result[c]
      <4>1. CASE \E res : Throws(b) \/ Acknowledge(b, res) BY <2>1, <4>1
      <4>2. CASE \E res : Goto(b, "sending") /\ result' = [result EXCEPT ![b] = res]
        BY <1>0, <4>2 DEF Goto
      <4> QED BY <3>1, <4>1, <4>2
    <3> QED BY <1>3, <3>2, <3>3
  <2>5. CASE \E i \in Items : AckOk(b, i) \/ AckFails(b, i)
    BY <1>3, <2>1, <2>5 DEF AckOk, AckFails
  <2> QED BY <1>4, <2>2, <2>3, <2>4, <2>5
<1>5. ASSUME NEW c \in Singles, OneFetched(c) \/ OneAcked(c) PROVE SingleInv'
  BY <1>0, <1>5 DEF OneFetched, OneAcked, Returns, Goto
<1>6. ASSUME NEW c \in Singles, OneRead(c) PROVE SingleInv'
  BY <1>0, <1>6 DEF OneRead, Goto
<1>7. ASSUME NEW c \in Singles, OneBuilt(c) PROVE SingleInv'
  BY <1>0, <1>7 DEF OneBuilt, Send, Goto
<1>8. ASSUME NEW c \in Calls, SentOk(c) PROVE SingleInv'
  <2>1. Put(c, "written", merged[c])["written"] = result[c]["written"] \cup merged[c]
    BY DEF Put, Buckets
  <2> QED BY <1>0, <1>8, <2>1 DEF SentOk, Acknowledge, Returns, Goto
<1>9. ASSUME NEW c \in Calls, CallThrows(c) PROVE SingleInv'
  BY <1>0, <1>9 DEF CallThrows, Throws, Goto
<1>10. ASSUME NEW c \in Calls, NodeAccepts(c) \/ NodeRefuses(c) \/ Mined(c) \/ Expires(c)
       PROVE SingleInv'
  BY <1>1, <1>10 DEF NodeAccepts, NodeRefuses, Mined, Expires, callVars
<1>11. CASE UNCHANGED vars BY <1>1, <1>11 DEF vars, callVars
<1> QED
  BY <1>0, <1>2, <1>4, <1>5, <1>6, <1>7, <1>8, <1>9, <1>10, <1>11
  DEF Next, acceptInboxBatch, acceptOne

WasSent(i) == \E j \in sent : SameRecord(i, j)

SentInv ==
    /\ \A i \in Items : status[i] = "accepted" => WasSent(i)
    /\ Carried(chain) \subseteq sent
    /\ \A c \in Calls : \A i \in result[c]["written"] : WasSent(i)

(* A step that writes, to the results and the backend, only what was sent.   *)
LEMMA KeepsSent ==
    ASSUME TypeOK, SentInv, NEW c \in Calls, NEW res \in Results,
           \A i \in res["written"] : WasSent(i),
           \/ Returns(c, res) \/ Throws(c) \/ Acknowledge(c, res)
           \/ result' = [result EXCEPT ![c] = res],
           UNCHANGED <<chain, sent>>,
           \A i \in Items : status'[i] = "accepted" => status[i] = "accepted" \/ WasSent(i)
    PROVE  SentInv'
<1> USE DEF TypeOK, SentInv, Results
<1>1. NoResult["written"] = {} BY DEF NoResult, Buckets
<1>2. result' = [result EXCEPT ![c] = res] \/ result' = [result EXCEPT ![c] = NoResult]
  BY DEF Returns, Throws, Acknowledge
<1>3. \A i : WasSent(i)' <=> WasSent(i) BY DEF WasSent, SameRecord
<1>4. \A d \in Calls : \A i \in result'[d]["written"] : WasSent(i)
  <2>1. \A d \in Calls : result'[d] \in {result[d], res, NoResult} BY <1>2
  <2> QED BY <1>1, <2>1
<1>5. \A i \in Items : status'[i] = "accepted" => WasSent(i) OBVIOUS
<1>6. Carried(chain)' = Carried(chain) BY DEF Carried
<1> QED BY <1>3, <1>4, <1>5, <1>6

(* Every step keeps what is recorded as written, or accepted, among the sent. *)
LEMMA StepSent ==
    /\ TypeOK /\ ItemDue /\ CandInv /\ UpdateInv /\ NetInv /\ SingleInv /\ SentInv
    /\ [Next]_vars
    => SentInv'
<1> SUFFICES ASSUME TypeOK, ItemDue, CandInv, UpdateInv, NetInv, SingleInv, SentInv,
                    [Next]_vars
             PROVE  SentInv'
  OBVIOUS
<1>0. Batches \subseteq Calls /\ Singles \subseteq Calls /\ Batches \cap Singles = {}
  BY CallAssumption DEF Calls
<1>1. CASE UNCHANGED <<result, chain, sent, status>>
  BY <1>1 DEF SentInv, WasSent, SameRecord, Carried
<1>2. ASSUME NEW c \in Calls, NEW x \in Buckets, NEW S \in SUBSET Items,
             x = "written" => \A i \in S : WasSent(i)
      PROVE  /\ Put(c, x, S) \in Results
             /\ \A i \in Put(c, x, S)["written"] : WasSent(i)
  <2>1. Put(c, x, S)["written"] = IF x = "written" THEN result[c]["written"] \cup S
                                                   ELSE result[c]["written"]
    BY DEF Put, TypeOK, Buckets
  <2> QED BY <1>2, <2>1, PutTyped DEF SentInv
<1>3. ASSUME NEW c \in Calls
      PROVE  result[c] \in Results /\ \A i \in result[c]["written"] : WasSent(i)
  BY DEF TypeOK, Results, SentInv
<1>4. ASSUME NEW c \in Calls, NEW q, Begins(c, q) PROVE SentInv'
  <2>1. NoResult \in Results /\ NoResult["written"] = {}
    BY DEF NoResult, Results, Buckets
  <2> QED BY <1>4, <2>1, KeepsSent DEF Begins, backendVars
<1>5. ASSUME NEW b \in Batches, FetchOk(b) \/ FetchFails(b) PROVE SentInv'
  <2>1. Head(todo[b]) \in Items
    BY <1>0, <1>5 DEF FetchOk, FetchFails, ItemDue, TypeOK
  <2>2. PICK res \in Results : /\ \E q : NextItem(b, q, res)
                               /\ \A j \in res["written"] : WasSent(j)
    BY <1>0, <1>2, <1>3, <1>5, <2>1 DEF FetchOk, FetchFails, Buckets
  <2> QED BY <1>0, <2>2, KeepsSent DEF NextItem, networkVars
<1>6. ASSUME NEW b \in Batches, ReadOk(b) PROVE SentInv'
  <2>1. Elems(cands[b]) \subseteq Items /\ chain \in Contents
    BY <1>0 DEF Elems, TypeOK
  <2> DEFINE present == {i \in Elems(cands[b]) : AlreadyPresent(chain, i)}
  <2>2. \A i \in present : WasSent(i)
    <3> SUFFICES ASSUME NEW i \in present PROVE WasSent(i) OBVIOUS
    <3>1. i \in Items /\ buildInboxVdxfAdditions(i) # {}
      BY <1>0, <2>1 DEF CandInv, Elems
    <3>2. PICK k \in Keys : k \in buildInboxVdxfAdditions(i) BY <3>1, GateNarrow
    <3>3. \/ chain[k] = i
          \/ /\ chain[k] # None
             /\ item[i].hash # None /\ item[chain[k]].hash = item[i].hash
      BY <3>2 DEF AlreadyPresent, valueAlreadyOnChain, jobHashAlreadyOnChain
    <3>4. chain[k] # None BY <3>1, <3>3, ItemAssumption
    <3>5. chain[k] \in sent BY <3>2, <3>4 DEF SentInv, Carried
    <3> QED BY <3>3, <3>5 DEF WasSent, SameRecord
  <2>3. ASSUME NEW D \in SUBSET Items
        PROVE  LET res == [result[b] EXCEPT !["written"] = @ \cup present,
                                            !["deferred"] = @ \cup D] IN
               res \in Results /\ \A i \in res["written"] : WasSent(i)
    <3> DEFINE r == [result[b] EXCEPT !["written"] = @ \cup present]
    <3>1. r \in Results /\ r["written"] = result[b]["written"] \cup present
      BY <1>0, <1>3, <2>1 DEF Results, Buckets
    <3>2. [r EXCEPT !["deferred"] = @ \cup D] \in Results
          /\ [r EXCEPT !["deferred"] = @ \cup D]["written"] = r["written"]
      BY <3>1 DEF Results, Buckets
    <3> QED BY <1>0, <1>3, <2>2, <3>1, <3>2
  <2>4. PICK res \in Results : /\ \A i \in res["written"] : WasSent(i)
                               /\ \/ Acknowledge(b, res)
                                  \/ result' = [result EXCEPT ![b] = res]
    BY <1>6, <2>1, <2>3 DEF ReadOk
  <2>5. UNCHANGED <<chain, sent, status>> BY <1>6 DEF ReadOk
  <2> QED BY <1>0, <2>4, <2>5, KeepsSent
<1>7. ASSUME NEW b \in Batches, NEW env \in Environments, Build(b, env) PROVE SentInv'
  <2> DEFINE blamed == {i \in merged[b] : BuildThrows({i}, env)}
             r == Put(b, "rejected", blamed)
  <2>0. UNCHANGED <<chain, sent, status>> BY <1>7 DEF Build
  <2>1. merged[b] \in SUBSET Items /\ blamed \in SUBSET Items BY <1>0 DEF TypeOK
  <2>2. r \in Results /\ \A i \in r["written"] : WasSent(i)
    BY <1>0, <1>2, <2>1 DEF Buckets
  <2>3. ASSUME NEW D \in SUBSET Items
        PROVE  /\ [r EXCEPT !["deferred"] = @ \cup D] \in Results
               /\ \A i \in [r EXCEPT !["deferred"] = @ \cup D]["written"] : WasSent(i)
    BY <2>2 DEF Results, Buckets
  <2>4. PICK res \in Results : /\ \A i \in res["written"] : WasSent(i)
                               /\ \/ Acknowledge(b, res) \/ Throws(b)
                                  \/ result' = [result EXCEPT ![b] = res]
    <3>1. CASE BuildThrows(merged[b], env)
      <4>1. Bisect(b, merged[b], env) BY <1>7, <3>1 DEF Build
      <4> QED BY <2>1, <2>2, <2>3, <4>1 DEF Bisect, Send
    <3>2. CASE ~BuildThrows(merged[b], env)
      BY <1>0, <1>3, <1>7, <3>2 DEF Build, Send
    <3> QED BY <3>1, <3>2
  <2> QED BY <1>0, <2>0, <2>4, KeepsSent
<1>8. ASSUME NEW b \in Batches, NEW i \in Items, AckOk(b, i) \/ AckFails(b, i)
      PROVE SentInv'
  <2>1. PICK x \in Buckets \ {"written"} : Acked(b, i, x)
    BY <1>8 DEF AckOk, AckFails, Buckets
  <2>2. WasSent(i) BY <1>0, <1>8 DEF AckOk, AckFails, Unacked, SentInv
  <2>3. UNCHANGED <<chain, sent>>
        /\ \A j \in Items : status'[j] = "accepted" => status[j] = "accepted" \/ WasSent(j)
    BY <1>8, <2>2 DEF AckOk, AckFails, networkVars, TypeOK
  <2>4. /\ Put(b, x, {i}) \in Results /\ \A j \in Put(b, x, {i})["written"] : WasSent(j)
    BY <1>0, <1>2
  <2> QED BY <1>0, <2>1, <2>3, <2>4, KeepsSent DEF Acked
<1>9. ASSUME NEW c \in Singles, OneFetched(c) \/ OneRead(c) \/ OneBuilt(c)
      PROVE SentInv'
  <2>1. NoResult \in Results /\ NoResult["written"] = {}
    BY DEF NoResult, Results, Buckets
  <2>2. CASE OneFetched(c)
    BY <1>0, <1>1, <2>1, <2>2, KeepsSent DEF OneFetched, networkVars
  <2>3. CASE OneRead(c) BY <1>1, <2>3 DEF OneRead
  <2>4. CASE OneBuilt(c) BY <1>0, <1>3, <2>4, KeepsSent DEF OneBuilt, Send
  <2> QED BY <1>9, <2>2, <2>3, <2>4
<1>10. ASSUME NEW c \in Singles, OneAcked(c) PROVE SentInv'
  <2> DEFINE i == Head(todo[c])
  <2>1. i \in Items BY <1>0, <1>10 DEF OneAcked, ItemDue, TypeOK
  <2>2. WasSent(i) BY <1>0, <1>10 DEF OneAcked, SingleInv, SentInv
  <2>3. UNCHANGED <<chain, sent>>
        /\ \A j \in Items : status'[j] = "accepted" => status[j] = "accepted" \/ WasSent(j)
    BY <1>10, <2>2 DEF OneAcked, networkVars, TypeOK
  <2>4. /\ Put(c, "acked", {i}) \in Results
        /\ \A j \in Put(c, "acked", {i})["written"] : WasSent(j)
    BY <1>0, <1>2, <2>1 DEF Buckets
  <2> QED BY <1>0, <1>10, <2>3, <2>4, KeepsSent DEF OneAcked
<1>11. ASSUME NEW c \in Calls, SentOk(c) PROVE SentInv'
  <2>1. merged[c] \in SUBSET Items BY DEF TypeOK
  <2>2. net[c] \in {"mempool", "confirmed", "expired"}
    BY <1>11 DEF SentOk, NetInv, TypeOK
  <2>3. merged[c] \subseteq sent BY <1>11, <2>2 DEF SentOk, UpdateInv
  <2>4. \A i \in merged[c] : WasSent(i) BY <2>3 DEF WasSent, SameRecord
  <2>5. /\ Put(c, "written", merged[c]) \in Results
        /\ \A i \in Put(c, "written", merged[c])["written"] : WasSent(i)
    BY <1>2, <2>1, <2>4 DEF Buckets
  <2> QED BY <1>11, <2>5, KeepsSent DEF SentOk, networkVars
<1>12. ASSUME NEW c \in Calls, CallThrows(c) PROVE SentInv'
  <2>1. \A i \in Items : status'[i] = "accepted" => status[i] = "accepted" \/ WasSent(i)
    <3>1. pc[c] = "acking" => c \in Singles BY <1>12 DEF CallThrows
    <3>2. pc[c] = "acking" => \A i \in merged[c] : WasSent(i)
      BY <1>0, <3>1 DEF SingleInv, SentInv
    <3> QED BY <1>12, <3>2 DEF CallThrows
  <2> QED BY <1>3, <1>12, <2>1, KeepsSent DEF CallThrows, networkVars
<1>13. ASSUME NEW c \in Calls, NodeAccepts(c) \/ Mined(c) PROVE SentInv'
  <2>1. sent \subseteq sent' /\ UNCHANGED <<result, status>>
    BY <1>13 DEF NodeAccepts, Mined, callVars, backendVars
  <2>2. \A i : WasSent(i) => WasSent(i)' BY <2>1 DEF WasSent, SameRecord
  <2>3. Carried(chain') \subseteq sent'
    BY <1>13, <2>1 DEF NodeAccepts, Mined, SentInv, UpdateInv
  <2>4. Carried(chain') = Carried(chain)' BY DEF Carried
  <2> QED BY <2>1, <2>2, <2>3, <2>4 DEF SentInv
<1>14. ASSUME NEW c \in Calls, NodeRefuses(c) \/ Expires(c) PROVE SentInv'
  BY <1>1, <1>14 DEF NodeRefuses, Expires, callVars, backendVars
<1>15. CASE UNCHANGED vars
  BY <1>1, <1>15 DEF vars, callVars, networkVars, backendVars
<1> QED
  BY <1>0, <1>4, <1>5, <1>6, <1>7, <1>8, <1>9, <1>10, <1>11, <1>12, <1>13, <1>14, <1>15
  DEF Next, acceptInboxBatch, acceptOne

(* No silent data loss: an item is marked accepted only when a transaction   *)
(* carrying its record reached the network.                                  *)
THEOREM NothingLost == Spec => []AcceptedWasSent
<1> DEFINE I == TypeOK /\ ItemDue /\ CandInv /\ UpdateInv /\ NetInv /\ SingleInv /\ SentInv
<1>1. Init => I
  <2> SUFFICES ASSUME Init PROVE I OBVIOUS
  <2>1. TypeOK BY InitTyped
  <2>2. \A c \in Calls : /\ pc[c] = "idle" /\ net[c] = "none" /\ cands[c] = <<>>
                         /\ result[c]["written"] = {}
    BY DEF Init, NoResult, Buckets
  <2>3. Singles \subseteq Calls BY DEF Calls
  <2>4. 1..Len(<<>>) = {} BY EmptySeq
  <2>5. CandInv BY <2>2, <2>4 DEF CandInv
  <2>6. SentInv BY <2>2 DEF Init, SentInv, Carried, Empty
  <2> QED BY <2>1, <2>2, <2>3, <2>5, <2>6 DEF ItemDue, UpdateInv, NetInv, SingleInv
<1>2. I /\ [Next]_vars => I'
  BY StepTyped, StepDue, StepCand, StepUpdate, StepNet, StepSingle, StepSent
<1>3. I => AcceptedWasSent BY DEF SentInv, WasSent, AcceptedWasSent
<1> QED BY <1>1, <1>2, <1>3, PTL DEF Spec

----------------------------------------------------------------------------
(* Every item in one bucket                                                  *)

Places == {"deferred", "rejected", "alreadyDone", "written"}

\* The items of a call that are in no bucket yet.
Left(b) ==
    CASE pc[b] = "fetching" -> Elems(todo[b]) \cup Elems(cands[b])
      [] pc[b] = "reading" -> Elems(cands[b])
      [] pc[b] \in {"building", "sending"} -> merged[b]
      [] OTHER -> {}

\* Each item of R is in O or in one place, and what was tried to be
\* acknowledged was written.
Sorted(R, O, res) ==
    /\ R = O \cup res["deferred"] \cup res["rejected"] \cup res["alreadyDone"] \cup res["written"]
    /\ \A x \in Places : O \cap res[x] = {}
    /\ \A x, y \in Places : x # y => res[x] \cap res[y] = {}
    /\ res["acked"] \cup res["ackFailed"] \subseteq res["written"]
    /\ res["acked"] \cap res["ackFailed"] = {}

NoAcks(res)   == res["acked"] = {} /\ res["ackFailed"] = {}
AllTried(res) == res["written"] = res["acked"] \cup res["ackFailed"]
Distinct(s)   == \A m, n \in 1..Len(s) : s[m] = s[n] => m = n

SortedAt(b) ==
    /\ pc[b] # "idle" => ended[b] = "no" /\ Sorted(refs[b], Left(b), result[b])
    /\ pc[b] \notin {"idle", "acking"} => NoAcks(result[b])
    /\ pc[b] = "fetching" => /\ Distinct(todo[b]) /\ Elems(todo[b]) \cap Elems(cands[b]) = {}
                             /\ result[b]["written"] = {}
    /\ ended[b] = "returned" => Sorted(refs[b], {}, result[b]) /\ AllTried(result[b])

SortedInv == \A b \in Batches : SortedAt(b)

\* The result with S put into bucket x; Put(c, x, S) for a result at hand.
PutIn(res, x, S) == [res EXCEPT ![x] = @ \cup S]

(* A list of several items is not a list of one.                             *)
LEMMA SeveralNotOne ==
    ASSUME NEW s \in Seq(Items), Len(s) > 1
    PROVE  Len(s) # 1
<1>1. Len(s) \in Nat OBVIOUS
<1>2. \A n \in Nat : n > 1 => n # 1 OBVIOUS
<1> QED BY ONLY <1>1, <1>2, Len(s) > 1

(* Appending adds one item.                                                  *)
LEMMA AppendElems ==
    ASSUME NEW s \in Seq(Items), NEW i \in Items
    PROVE  Elems(Append(s, i)) = Elems(s) \cup {i}
<1> DEFINE q == Append(s, i)
<1>1. /\ Len(s) \in Nat /\ Len(q) = Len(s) + 1 /\ q[Len(s) + 1] = i
      /\ \A n \in 1..Len(s) : q[n] = s[n]
  OBVIOUS
<1> HIDE DEF q
<1>2. 1..Len(q) = 1..Len(s) \cup {Len(s) + 1} BY <1>1
<1>3. \A e : e \in Elems(q) <=> \E n \in 1..Len(q) : e = q[n] BY DEF Elems
<1>4. \A e : e \in Elems(s) <=> \E n \in 1..Len(s) : e = s[n] BY DEF Elems
<1>5. \A e : e \in Elems(q) <=> e \in Elems(s) \/ e = i BY <1>1, <1>2, <1>3, <1>4
<1> QED BY <1>5 DEF q

(* Putting items that were in no bucket into one.                            *)
LEMMA Move ==
    ASSUME NEW R, NEW O, NEW res \in Results, Sorted(R, O, res),
           NEW x \in Places, NEW S \in SUBSET Items, S \subseteq O
    PROVE  /\ PutIn(res, x, S) \in Results /\ Sorted(R, O \ S, PutIn(res, x, S))
           /\ NoAcks(res) => NoAcks(PutIn(res, x, S))
<1> DEFINE new == PutIn(res, x, S)
<1>1. x \in Buckets /\ Places \subseteq Buckets /\ "acked" \in Buckets /\ "ackFailed" \in Buckets
      /\ "acked" \notin Places /\ "ackFailed" \notin Places
  BY DEF Places, Buckets
<1>2. \A y \in Buckets : new[y] = IF y = x THEN res[x] \cup S ELSE res[y]
  BY <1>1 DEF Results, PutIn
<1>3. new \in Results BY <1>1 DEF Results, PutIn
<1> HIDE DEF new
<1>4. R = (O \ S) \cup new["deferred"] \cup new["rejected"] \cup new["alreadyDone"]
          \cup new["written"]
  BY <1>1, <1>2 DEF Sorted, Places
<1>5. \A y \in Places : (O \ S) \cap new[y] = {} BY <1>1, <1>2 DEF Sorted
<1>6. \A y, z \in Places : y # z => new[y] \cap new[z] = {}
  <2> SUFFICES ASSUME NEW y \in Places, NEW z \in Places, y # z PROVE new[y] \cap new[z] = {}
    OBVIOUS
  <2>1. res[y] \cap res[z] = {} /\ S \cap res[y] = {} /\ S \cap res[z] = {} BY DEF Sorted
  <2> QED BY <1>1, <1>2, <2>1
<1>7. new["acked"] = res["acked"] /\ new["ackFailed"] = res["ackFailed"] BY <1>1, <1>2
<1>8. res["written"] \subseteq new["written"] BY <1>1, <1>2 DEF Places
<1> QED BY <1>3, <1>4, <1>5, <1>6, <1>7, <1>8 DEF Sorted, NoAcks, new

(* A call that returned, threw or goes on to acknowledge is sorted.          *)
LEMMA EndSorted ==
    ASSUME TypeOK, NEW b \in Batches, NEW res \in Results, UNCHANGED refs
    PROVE  /\ Returns(b, res) /\ Sorted(refs[b], {}, res) /\ AllTried(res) => SortedAt(b)'
           /\ Acknowledge(b, res) /\ Sorted(refs[b], {}, res) /\ NoAcks(res)
                /\ ended[b] = "no" => SortedAt(b)'
           /\ Throws(b) => SortedAt(b)'
<1>0. b \in Calls BY DEF Calls
<1>1. ASSUME Returns(b, res), Sorted(refs[b], {}, res), AllTried(res) PROVE SortedAt(b)'
  <2>1. pc'[b] = "idle" /\ result'[b] = res BY <1>0, <1>1 DEF TypeOK, Returns, Goto
  <2> QED BY <1>1, <2>1 DEF SortedAt, Sorted, AllTried
<1>2. Throws(b) => SortedAt(b)'
  BY <1>0 DEF TypeOK, Throws, Goto, SortedAt
<1>3. ASSUME Acknowledge(b, res), Sorted(refs[b], {}, res), NoAcks(res), ended[b] = "no"
      PROVE  SortedAt(b)'
  <2>1. CASE res["written"] = {}
    <3>1. Returns(b, res) /\ AllTried(res) BY <1>3, <2>1 DEF Acknowledge, NoAcks, AllTried
    <3> QED BY <1>1, <1>3, <3>1
  <2>2. CASE res["written"] # {}
    <3>1. pc'[b] = "acking" /\ result'[b] = res /\ ended'[b] = "no"
      BY <1>0, <1>3, <2>2 DEF TypeOK, Acknowledge, Goto
    <3>2. Left(b)' = {} BY <3>1 DEF Left
    <3> QED BY <1>3, <3>1, <3>2 DEF SortedAt, Sorted
  <2> QED BY <2>1, <2>2
<1> QED BY <1>1, <1>2, <1>3

(* A batch begins with every item left.                                      *)
LEMMA BatchSorted ==
    ASSUME TypeOK, NEW b \in Batches, acceptInboxBatch(b)
    PROVE  SortedAt(b)'
<1> DEFINE P == {i \in Items : status[i] = "pending"} \ dead
<1>0. b \in Calls BY DEF Calls
<1>1. IsFiniteSet(P) /\ Cardinality(P) \in Nat
  BY ItemAssumption, FS_Subset, FS_CardinalityType
<1>2. PICK q \in [1..Cardinality(P) -> Items] : Elems(q) = P /\ Begins(b, q)
  BY DEF acceptInboxBatch
<1> HIDE DEF P
<1>3. q \in Seq(Items) /\ Len(q) = Cardinality(P) BY <1>1, <1>2, FunctionIsSeq
<1>4. Distinct(q)
  <2>1. q \in [1..Cardinality(P) -> P] BY <1>2, <1>3 DEF Elems
  <2>2. \A i \in P : \E n \in 1..Cardinality(P) : q[n] = i BY <1>2, <1>3 DEF Elems
  <2>3. q \in Surjection(1..Cardinality(P), P) BY <2>1, <2>2 DEF Surjection
  <2>4. IsFiniteSet(1..Cardinality(P)) /\ Cardinality(1..Cardinality(P)) = Cardinality(P)
    BY <1>1, FS_Interval
  <2>5. q \in Injection(1..Cardinality(P), P) BY <2>3, <2>4, FS_SurjSameCardinalityImpliesInj
  <2> QED BY <1>3, <2>5 DEF Injection, IsInjective, Distinct
<1>5. /\ pc'[b] = "fetching" /\ ended'[b] = "no" /\ refs'[b] = Elems(q)
      /\ todo'[b] = q /\ cands'[b] = <<>> /\ result'[b] = NoResult
  BY <1>0, <1>2 DEF TypeOK, Begins, Goto
<1>6. Elems(<<>>) = {} BY DEF Elems
<1>7. Left(b)' = Elems(q) BY <1>5, <1>6 DEF Left, Elems
<1>8. Sorted(Elems(q), Elems(q), NoResult) /\ NoAcks(NoResult)
     /\ NoResult["written"] = {}
  BY DEF Sorted, NoAcks, NoResult, Buckets, Places
<1>9. Elems(todo[b])' \cap Elems(cands[b])' = {} BY <1>5, <1>6 DEF Elems
<1> QED BY <1>4, <1>5, <1>7, <1>8, <1>9 DEF SortedAt, Distinct, Sorted, NoAcks

(* Going on with one item dealt with: put in a place, or a candidate.        *)
LEMMA NextSorted ==
    ASSUME TypeOK, ItemDue, NEW b \in Batches, SortedAt(b), pc[b] = "fetching",
           NEW q \in Seq(Items), NEW res \in Results, NextItem(b, q, res),
           \/ /\ q = cands[b]
              /\ \E x \in Places \ {"written"} : res = Put(b, x, {Head(todo[b])})
           \/ q = Append(cands[b], Head(todo[b])) /\ res = result[b]
    PROVE  SortedAt(b)'
<1> DEFINE i == Head(todo[b])  rest == Tail(todo[b])
<1> DEFINE Dealt == /\ Sorted(refs[b], Elems(rest) \cup Elems(q), res) /\ NoAcks(res)
                    /\ Elems(rest) \cap Elems(q) = {} /\ res["written"] = {}
<1> USE DEF TypeOK
<1>0. b \in Calls BY DEF Calls
<1>1. todo[b] \in Seq(Items) /\ todo[b] # <<>> BY <1>0 DEF ItemDue
<1>2. /\ i \in Items /\ rest \in Seq(Items) /\ Len(rest) = Len(todo[b]) - 1
      /\ i = todo[b][1] /\ \A n \in 1..Len(rest) : rest[n] = todo[b][n + 1]
  BY <1>1, HeadTailProperties
<1>3. Elems(todo[b]) = {i} \cup Elems(rest) /\ i \notin Elems(rest) /\ Distinct(rest)
  <2>1. Len(todo[b]) \in Nat /\ Len(todo[b]) > 0 BY <1>1
  <2>2. Distinct(todo[b]) BY DEF SortedAt
  <2>3. \A n \in 1..Len(todo[b]) : n = 1 \/ n - 1 \in 1..Len(rest) BY <1>2, <2>1
  <2>4. \A n \in 1..Len(rest) : n + 1 \in 1..Len(todo[b]) /\ n + 1 # 1 BY <1>2, <2>1
  <2>5. 1 \in 1..Len(todo[b]) BY <2>1
  <2>6. Elems(todo[b]) \subseteq {i} \cup Elems(rest)
    <3> SUFFICES ASSUME NEW e \in Elems(todo[b]), e # i PROVE e \in Elems(rest) OBVIOUS
    <3>1. PICK n \in 1..Len(todo[b]) : e = todo[b][n] BY DEF Elems
    <3>2. n - 1 \in 1..Len(rest) BY <1>2, <2>3, <3>1
    <3>3. rest[n - 1] = todo[b][n] BY <1>2, <2>1, <3>2
    <3> QED BY <3>1, <3>2, <3>3 DEF Elems
  <2>7. {i} \cup Elems(rest) \subseteq Elems(todo[b]) BY <1>2, <2>4, <2>5 DEF Elems
  <2>8. i \notin Elems(rest)
    <3> SUFFICES ASSUME NEW n \in 1..Len(rest), rest[n] = i PROVE FALSE BY DEF Elems
    <3> QED BY <1>2, <2>2, <2>4, <2>5 DEF Distinct
  <2>9. Distinct(rest)
    <3> SUFFICES ASSUME NEW m \in 1..Len(rest), NEW n \in 1..Len(rest), rest[m] = rest[n]
                 PROVE  m = n
      BY DEF Distinct
    <3>1. m + 1 = n + 1 BY <1>2, <2>2, <2>4 DEF Distinct
    <3> QED BY <3>1
  <2> QED BY <2>6, <2>7, <2>8, <2>9
<1> HIDE DEF i, rest
<1>4. /\ ended[b] = "no" /\ result[b]["written"] = {} /\ NoAcks(result[b])
      /\ Elems(todo[b]) \cap Elems(cands[b]) = {}
      /\ Sorted(refs[b], Elems(todo[b]) \cup Elems(cands[b]), result[b])
  BY DEF SortedAt, Left
<1>5. Dealt
  <2>1. ASSUME q = cands[b], NEW x \in Places \ {"written"}, res = Put(b, x, {i})
        PROVE  Dealt
    <3> DEFINE O == Elems(todo[b]) \cup Elems(cands[b])
    <3>1. {i} \in SUBSET Items /\ {i} \subseteq O BY <1>2, <1>3
    <3>2. O \ {i} = Elems(rest) \cup Elems(q) BY <1>3, <1>4, <2>1
    <3>3. result[b] \in Results BY <1>0 DEF Results
    <3>4. Sorted(refs[b], O, result[b]) BY <1>4
    <3> HIDE DEF O
    <3>5. res = PutIn(result[b], x, {i}) BY <2>1 DEF Put, PutIn
    <3>6. Sorted(refs[b], O \ {i}, res) /\ NoAcks(res)
      <4>1. x \in Places OBVIOUS
      <4> HIDE DEF TypeOK
      <4> QED BY <1>4, <3>1, <3>3, <3>4, <3>5, <4>1, Move
    <3>7. res["written"] = {} BY <1>4, <2>1, <3>3 DEF Put, Results, Buckets
    <3> QED BY <1>3, <1>4, <2>1, <3>2, <3>6, <3>7
  <2>2. ASSUME q = Append(cands[b], i), res = result[b] PROVE Dealt
    <3>1. Elems(q) = Elems(cands[b]) \cup {i} BY <1>0, <1>2, <2>2, AppendElems
    <3>2. Elems(rest) \cup Elems(q) = Elems(todo[b]) \cup Elems(cands[b]) BY <1>3, <3>1
    <3> QED BY <1>3, <1>4, <2>2, <3>1, <3>2
  <2> QED BY <2>1, <2>2 DEF i
<1>6. UNCHANGED refs /\ todo'[b] = rest /\ cands'[b] = q BY <1>0 DEF NextItem, rest
<1>7. CASE Len(todo[b]) > 1
  <2>1. pc'[b] = "fetching" /\ ended'[b] = "no" /\ result'[b] = res
    <3>1. UNCHANGED <<pc, ended>> /\ result' = [result EXCEPT ![b] = res]
      <4> HIDE DEF TypeOK
      <4>1. Len(todo[b]) # 1 BY <1>1, <1>7, SeveralNotOne
      <4> QED BY <4>1 DEF NextItem
    <3> QED BY <1>0, <1>4, <3>1
  <2>2. Left(b)' = Elems(rest) \cup Elems(q) BY <1>6, <2>1 DEF Left, Elems
  <2>3. Elems(todo[b])' = Elems(rest) /\ Elems(cands[b])' = Elems(q) BY <1>6 DEF Elems
  <2> QED BY <1>3, <1>5, <1>6, <2>1, <2>2, <2>3 DEF SortedAt, Distinct, Sorted, NoAcks
<1>8. CASE Len(todo[b]) = 1
  <2>1. Elems(rest) = {} BY <1>2, <1>8 DEF Elems
  <2>2. CASE Returns(b, res) /\ q = <<>>
    <3>1. Elems(q) = {} BY <2>2 DEF Elems
    <3>2. Sorted(refs[b], {}, res) BY <1>5, <2>1, <3>1
    <3>3. AllTried(res) BY <1>5 DEF NoAcks, AllTried
    <3> QED BY <1>6, <2>2, <3>2, <3>3, EndSorted
  <2>3. CASE Goto(b, "reading") /\ result' = [result EXCEPT ![b] = res] /\ UNCHANGED ended
    <3>1. pc'[b] = "reading" /\ ended'[b] = "no" /\ result'[b] = res
      BY <1>0, <1>4, <2>3 DEF Goto
    <3>2. Left(b)' = Elems(q) BY <1>6, <3>1 DEF Left, Elems
    <3>3. Sorted(refs[b], Elems(q), res) BY <1>5, <2>1
    <3> QED BY <1>5, <1>6, <3>1, <3>2, <3>3 DEF SortedAt, Sorted, NoAcks
  <2> QED BY <1>8, <2>2, <2>3 DEF NextItem
<1> QED BY <1>7, <1>8 DEF NextItem

(* What the merge does not take up and is not on the chain yet is deferred;  *)
(* what is there already counts as written.                                  *)
LEMMA ReadSorted ==
    ASSUME TypeOK, NEW b \in Batches, SortedAt(b), ReadOk(b)
    PROVE  SortedAt(b)'
<1>0. b \in Calls BY DEF Calls
<1> DEFINE C == Elems(cands[b])
           present == {i \in C : AlreadyPresent(chain, i)}
<1>1. PICK S \in SUBSET C :
        /\ pc[b] = "reading" /\ Merge(cands[b], chain, S) /\ merged' = [merged EXCEPT ![b] = S]
        /\ LET res == [result[b] EXCEPT !["written"] = @ \cup present,
                                        !["deferred"] = @ \cup (C \ (present \cup S))]
           IN  IF S = {} THEN Acknowledge(b, res)
               ELSE /\ Goto(b, "building") /\ result' = [result EXCEPT ![b] = res]
                    /\ UNCHANGED <<ended, dead>>
        /\ UNCHANGED refs
  BY DEF ReadOk
<1>2. C \subseteq Items BY <1>0 DEF TypeOK, Elems
<1>3. S \cap present = {}
  <2> SUFFICES ASSUME NEW i \in S PROVE ~AlreadyPresent(chain, i) OBVIOUS
  <2>1. PICK n \in 1..Len(cands[b]) : i = cands[b][n] BY <1>1 DEF Elems
  <2> QED BY <1>1, <2>1 DEF Merge
<1> DEFINE late == C \ (present \cup S)
           one  == PutIn(result[b], "written", present)
           res  == PutIn(one, "deferred", late)
<1>4. result[b] \in Results /\ "written" \in Places /\ "deferred" \in Places
  BY <1>0 DEF TypeOK, Results, Places
<1>5. Sorted(refs[b], C, result[b]) /\ NoAcks(result[b]) /\ ended[b] = "no"
  BY <1>1 DEF SortedAt, Left
<1>6. present \subseteq C /\ present \in SUBSET Items BY <1>2
<1> HIDE DEF C
<1>7. one \in Results /\ Sorted(refs[b], C \ present, one) /\ NoAcks(one)
  <2> HIDE DEF present
  <2> QED BY <1>4, <1>5, <1>6, Move
<1>8. late \in SUBSET Items /\ late \subseteq C \ present /\ (C \ present) \ late = S
  BY <1>1, <1>2, <1>3
<1>9. res \in Results /\ Sorted(refs[b], S, res) /\ NoAcks(res)
  <2> HIDE DEF present, one, late
  <2>1. Sorted(refs[b], (C \ present) \ late, res) BY <1>4, <1>7, <1>8, Move
  <2> QED BY <1>4, <1>7, <1>8, <2>1, Move
<1>10. res = [result[b] EXCEPT !["written"] = @ \cup present,
                               !["deferred"] = @ \cup (C \ (present \cup S))]
  BY DEF PutIn
<1> HIDE DEF present, one, late, res
<1>11. CASE S = {}
  <2>1. Acknowledge(b, res) BY <1>1, <1>10, <1>11
  <2> QED BY <1>1, <1>5, <1>9, <1>11, <2>1, EndSorted
<1>12. CASE S # {}
  <2>1. pc'[b] = "building" /\ ended'[b] = "no" /\ merged'[b] = S /\ result'[b] = res
    BY <1>0, <1>1, <1>5, <1>10, <1>12 DEF TypeOK, Goto
  <2>2. Left(b)' = S BY <2>1 DEF Left
  <2> QED BY <1>1, <1>9, <2>1, <2>2 DEF SortedAt, Sorted, NoAcks
<1> QED BY <1>11, <1>12

(* Sending what is left.                                                     *)
LEMMA SendSorted ==
    ASSUME TypeOK, NEW b \in Batches, NEW S \in SUBSET Items, NEW res \in Results,
           Send(b, S, res), UNCHANGED refs, ended[b] = "no",
           Sorted(refs[b], S, res), NoAcks(res)
    PROVE  SortedAt(b)'
<1>0. b \in Calls BY DEF Calls
<1>1. pc'[b] = "sending" /\ ended'[b] = "no" /\ merged'[b] = S /\ result'[b] = res
  BY <1>0 DEF TypeOK, Send, Goto
<1>2. Left(b)' = S BY <1>1 DEF Left
<1> QED BY <1>1, <1>2 DEF SortedAt, Sorted, NoAcks

(* The build sends all, or rejects the culprits and sends or defers the rest.*)
LEMMA BuildSorted ==
    ASSUME TypeOK, NEW b \in Batches, SortedAt(b), NEW env, Build(b, env)
    PROVE  SortedAt(b)'
<1>0. b \in Calls BY DEF Calls
<1> DEFINE M == merged[b]
           blamed == {i \in M : BuildThrows({i}, env)}
           rest   == M \ blamed
           one    == PutIn(result[b], "rejected", blamed)
           res    == PutIn(one, "deferred", rest)
<1>1. pc[b] = "building" /\ UNCHANGED refs BY DEF Build
<1>2. /\ result[b] \in Results /\ M \subseteq Items /\ ended[b] = "no"
      /\ "rejected" \in Places /\ "deferred" \in Places
  BY <1>0, <1>1 DEF TypeOK, Results, Places, SortedAt
<1>3. Sorted(refs[b], M, result[b]) /\ NoAcks(result[b]) BY <1>1 DEF SortedAt, Left
<1>4. CASE Send(b, M, result[b]) BY <1>1, <1>2, <1>3, <1>4, SendSorted
<1>5. /\ blamed \subseteq M /\ blamed \in SUBSET Items /\ rest \in SUBSET Items
      /\ rest \subseteq M \ blamed /\ M \ blamed = rest /\ (M \ blamed) \ rest = {}
  BY <1>2
<1>6. \/ Send(b, M, result[b]) \/ Throws(b) \/ Send(b, rest, Put(b, "rejected", blamed))
      \/ Acknowledge(b, [Put(b, "rejected", blamed) EXCEPT !["deferred"] = @ \cup rest])
  BY DEF Build, Bisect
<1>7. /\ Put(b, "rejected", blamed) = one
      /\ [Put(b, "rejected", blamed) EXCEPT !["deferred"] = @ \cup rest] = res
  BY DEF Put, PutIn
<1> HIDE DEF M, blamed, rest
<1>8. one \in Results /\ Sorted(refs[b], rest, one) /\ NoAcks(one)
  <2>1. Sorted(refs[b], M \ blamed, one) BY <1>2, <1>3, <1>5, Move
  <2> QED BY <1>2, <1>3, <1>5, <2>1, Move
<1> HIDE DEF one
<1>9. res \in Results /\ Sorted(refs[b], {}, res) /\ NoAcks(res)
  <2>1. Sorted(refs[b], rest \ rest, res) BY <1>2, <1>5, <1>8, Move
  <2>2. rest \ rest = {} OBVIOUS
  <2> QED BY <1>2, <1>5, <1>8, <2>1, <2>2, Move
<1> HIDE DEF res
<1>10. CASE Throws(b) BY <1>1, <1>2, <1>10, EndSorted
<1>11. CASE Send(b, rest, one) BY <1>1, <1>2, <1>5, <1>8, <1>11, SendSorted
<1>12. CASE Acknowledge(b, res) BY <1>1, <1>2, <1>9, <1>12, EndSorted
<1> QED BY <1>4, <1>6, <1>7, <1>10, <1>11, <1>12

(* What was sent is written.                                                 *)
LEMMA SentSorted ==
    ASSUME TypeOK, NEW b \in Batches, SortedAt(b), SentOk(b)
    PROVE  SortedAt(b)'
<1>0. b \in Calls BY DEF Calls
<1> DEFINE M == merged[b]  res == PutIn(result[b], "written", M)
<1>1. pc[b] = "sending" /\ UNCHANGED refs /\ Acknowledge(b, Put(b, "written", M))
  BY DEF SentOk
<1>2. /\ result[b] \in Results /\ M \in SUBSET Items /\ M \subseteq M /\ ended[b] = "no"
      /\ "written" \in Places
  BY <1>0, <1>1 DEF TypeOK, Results, Places, SortedAt
<1>3. Sorted(refs[b], M, result[b]) /\ NoAcks(result[b]) BY <1>1 DEF SortedAt, Left
<1>4. Put(b, "written", M) = res BY DEF Put, PutIn
<1> HIDE DEF M
<1>5. res \in Results /\ Sorted(refs[b], {}, res) /\ NoAcks(res)
  <2>1. Sorted(refs[b], M \ M, res) BY <1>2, <1>3, Move
  <2>2. M \ M = {} OBVIOUS
  <2> QED BY <1>2, <1>3, <2>1, <2>2, Move
<1> HIDE DEF res
<1> QED BY <1>1, <1>2, <1>4, <1>5, EndSorted

(* An acknowledgement, or its failure, is of something written and not tried.*)
LEMMA AckSorted ==
    ASSUME TypeOK, NEW b \in Batches, SortedAt(b), NEW i \in Items,
           AckOk(b, i) \/ AckFails(b, i)
    PROVE  SortedAt(b)'
<1>0. b \in Calls BY DEF Calls
<1>1. PICK x \in {"acked", "ackFailed"} : Acked(b, i, x) BY DEF AckOk, AckFails
<1>2. pc[b] = "acking" /\ i \in Unacked(b) /\ UNCHANGED refs BY DEF AckOk, AckFails
<1> DEFINE old == result[b]  res == Put(b, x, {i})
<1>3. old \in Results /\ ended[b] = "no" /\ Sorted(refs[b], {}, old)
  BY <1>0, <1>2 DEF TypeOK, Results, SortedAt, Left
<1>4. x \in Buckets /\ Places \subseteq Buckets /\ x \notin Places /\ "acked" \in Buckets
      /\ "ackFailed" \in Buckets /\ "written" \in Places
  BY DEF Buckets, Places
<1>5. res \in Results /\ \A y \in Buckets : res[y] = IF y = x THEN old[y] \cup {i} ELSE old[y]
  BY <1>3, <1>4 DEF Put, Results
<1>6. Unacked(b) = old["written"] \ (old["acked"] \cup old["ackFailed"]) BY DEF Unacked
<1> HIDE DEF old, res
<1>7. Sorted(refs[b], {}, res)
  <2>1. \A y \in Places : res[y] = old[y] BY <1>4, <1>5
  <2>2. res["acked"] \cup res["ackFailed"] = old["acked"] \cup old["ackFailed"] \cup {i}
    BY <1>4, <1>5
  <2>3. res["acked"] \cap res["ackFailed"] = {}
    <3>1. /\ i \notin old["acked"] /\ i \notin old["ackFailed"]
          /\ old["acked"] \cap old["ackFailed"] = {}
      BY <1>2, <1>3, <1>6 DEF Sorted
    <3>2. CASE x = "acked"
      <4>1. res["acked"] = old["acked"] \cup {i} /\ res["ackFailed"] = old["ackFailed"]
        BY <1>4, <1>5, <3>2
      <4> QED BY <3>1, <4>1
    <3>3. CASE x = "ackFailed"
      <4>1. res["acked"] = old["acked"] /\ res["ackFailed"] = old["ackFailed"] \cup {i}
        BY <1>4, <1>5, <3>3
      <4> QED BY <3>1, <4>1
    <3> QED BY <3>2, <3>3
  <2> QED BY <1>2, <1>3, <1>4, <1>6, <2>1, <2>2, <2>3 DEF Sorted, Places
<1>8. CASE Unacked(b) = {i}
  <2>1. res["written"] = old["written"] BY <1>4, <1>5
  <2>2. res["acked"] \cup res["ackFailed"] = old["acked"] \cup old["ackFailed"] \cup {i}
    BY <1>4, <1>5
  <2>3. AllTried(res) BY <1>3, <1>6, <1>8, <2>1, <2>2 DEF AllTried, Sorted
  <2>4. Returns(b, res) BY <1>1, <1>8 DEF Acked, res
  <2> QED BY <1>2, <1>5, <1>7, <2>3, <2>4, EndSorted
<1>9. CASE Unacked(b) # {i}
  <2>1. pc'[b] = "acking" /\ ended'[b] = "no" /\ result'[b] = res
    BY <1>0, <1>1, <1>2, <1>3, <1>9 DEF TypeOK, Acked, res
  <2>2. Left(b)' = {} BY <2>1 DEF Left
  <2> QED BY <1>2, <1>7, <2>1, <2>2 DEF SortedAt, Sorted
<1> QED BY <1>8, <1>9

\* What sorting looks at, of one call.
Sheet(b) == <<pc[b], ended[b], refs[b], todo[b], cands[b], merged[b], result[b]>>

(* A step of another call, or of the network, leaves a call's items alone.   *)
LEMMA OthersUntouched ==
    ASSUME TypeOK, [Next]_vars, NEW b \in Batches
    PROVE  \/ UNCHANGED Sheet(b)
           \/ acceptInboxBatch(b) \/ FetchOk(b) \/ FetchFails(b) \/ ReadOk(b)
           \/ \E env \in Environments : Build(b, env)
           \/ \E i \in Items : AckOk(b, i) \/ AckFails(b, i)
           \/ SentOk(b) \/ CallThrows(b)
<1> USE DEF TypeOK
<1>0. b \in Calls /\ b \notin Singles BY CallAssumption DEF Calls
<1>1. \A d, res : d # b =>
        /\ Returns(d, res) => UNCHANGED <<pc[b], ended[b], result[b]>>
        /\ Throws(d) => UNCHANGED <<pc[b], ended[b], result[b]>>
        /\ Acknowledge(d, res) => UNCHANGED <<pc[b], ended[b], result[b]>>
  BY <1>0 DEF Returns, Throws, Acknowledge, Goto
<1>2. ASSUME NEW d, d # b, NEW q, Begins(d, q) PROVE UNCHANGED Sheet(b)
  BY <1>0, <1>2 DEF Begins, Goto, Sheet
<1>3. ASSUME NEW d, d # b, FetchOk(d) \/ FetchFails(d) PROVE UNCHANGED Sheet(b)
  <2>1. PICK q, res : NextItem(d, q, res) BY <1>3 DEF FetchOk, FetchFails
  <2>2. UNCHANGED <<refs, merged>> /\ todo'[b] = todo[b] /\ cands'[b] = cands[b]
    BY <1>0, <1>3, <2>1 DEF NextItem
  <2>3. UNCHANGED <<pc[b], ended[b], result[b]>>
    BY <1>0, <1>1, <1>3, <2>1 DEF NextItem, Goto
  <2> QED BY <2>2, <2>3 DEF Sheet
<1>4. ASSUME NEW d, d # b, ReadOk(d) PROVE UNCHANGED Sheet(b)
  <2>1. PICK S, res : /\ merged' = [merged EXCEPT ![d] = S]
                      /\ IF S = {} THEN Acknowledge(d, res)
                         ELSE /\ Goto(d, "building") /\ result' = [result EXCEPT ![d] = res]
                              /\ UNCHANGED <<ended, dead>>
                      /\ UNCHANGED <<refs, todo, cands>>
    BY <1>4 DEF ReadOk
  <2>2. UNCHANGED <<pc[b], ended[b], result[b]>> BY <1>0, <1>1, <1>4, <2>1 DEF Goto
  <2> QED BY <1>0, <1>4, <2>1, <2>2 DEF Sheet
<1>5. ASSUME NEW d, d # b, OneBuilt(d) \/ \E env : Build(d, env) PROVE UNCHANGED Sheet(b)
  <2>1. UNCHANGED <<refs, todo, cands>> BY <1>5 DEF OneBuilt, Build
  <2>2. \/ \E S, res : Send(d, S, res)
        \/ /\ Throws(d) \/ \E res : Acknowledge(d, res)
           /\ merged' = merged \/ merged' = [merged EXCEPT ![d] = {}]
    BY <1>5 DEF OneBuilt, Build, Bisect
  <2>3. CASE \E S, res : Send(d, S, res)
    BY <1>0, <1>5, <2>1, <2>3 DEF Send, Goto, Sheet
  <2>4. CASE \E res : Throws(d) \/ Acknowledge(d, res)
    <3>1. UNCHANGED <<pc[b], ended[b], result[b]>> BY <1>1, <1>5, <2>4
    <3>2. CASE ~\E S, res : Send(d, S, res) BY <1>0, <1>5, <2>1, <2>2, <3>1, <3>2 DEF Sheet
    <3> QED BY <2>3, <3>2
  <2> QED BY <2>2, <2>3, <2>4
<1>6. ASSUME NEW d, d # b, NEW i, AckOk(d, i) \/ AckFails(d, i) PROVE UNCHANGED Sheet(b)
  <2>1. UNCHANGED <<refs, todo, cands, merged>> BY <1>6 DEF AckOk, AckFails
  <2>2. UNCHANGED <<pc[b], ended[b], result[b]>>
    BY <1>0, <1>1, <1>6 DEF AckOk, AckFails, Acked
  <2> QED BY <2>1, <2>2 DEF Sheet
<1>7. ASSUME NEW d, d # b, SentOk(d) \/ CallThrows(d) \/ OneAcked(d) PROVE UNCHANGED Sheet(b)
  <2>1. UNCHANGED <<refs, todo, cands, merged>> BY <1>7 DEF SentOk, CallThrows, OneAcked
  <2>2. UNCHANGED <<pc[b], ended[b], result[b]>>
    BY <1>1, <1>7 DEF SentOk, CallThrows, OneAcked
  <2> QED BY <2>1, <2>2 DEF Sheet
<1>8. ASSUME NEW d, d # b, OneFetched(d) \/ OneRead(d) PROVE UNCHANGED Sheet(b)
  <2>1. UNCHANGED <<refs, todo, cands>> BY <1>8 DEF OneFetched, OneRead
  <2>2. merged'[b] = merged[b] BY <1>0, <1>8 DEF OneFetched, OneRead
  <2>3. UNCHANGED <<pc[b], ended[b], result[b]>>
    BY <1>0, <1>1, <1>8 DEF OneFetched, OneRead, Goto
  <2> QED BY <2>1, <2>2, <2>3 DEF Sheet
<1>9. CASE \/ \E d \in Calls : NodeAccepts(d) \/ NodeRefuses(d) \/ Mined(d) \/ Expires(d)
           \/ UNCHANGED vars
  BY <1>9 DEF NodeAccepts, NodeRefuses, Mined, Expires, vars, callVars, Sheet
<1>10. ASSUME NEW d, d # b, acceptInboxBatch(d) \/ \E i : acceptOne(d, i)
       PROVE  UNCHANGED Sheet(b)
  BY <1>2, <1>10 DEF acceptInboxBatch, acceptOne
<1> HIDE DEF TypeOK
<1> QED BY <1>0, <1>3, <1>4, <1>5, <1>6, <1>7, <1>8, <1>9, <1>10 DEF Next

(* Every step keeps the items sorted.                                        *)
LEMMA StepSorted == TypeOK /\ ItemDue /\ SortedInv /\ [Next]_vars => SortedInv'
<1> SUFFICES ASSUME TypeOK, ItemDue, SortedInv, [Next]_vars, NEW b \in Batches
             PROVE  SortedAt(b)'
  BY DEF SortedInv
<1>0. b \in Calls /\ SortedAt(b) BY DEF Calls, SortedInv
<1>1. CASE UNCHANGED Sheet(b)
  <2>1. Left(b)' = Left(b) BY <1>1 DEF Sheet, Left, Elems
  <2>2. /\ pc'[b] = pc[b] /\ ended'[b] = ended[b] /\ refs'[b] = refs[b]
        /\ todo'[b] = todo[b] /\ cands'[b] = cands[b] /\ result'[b] = result[b]
    BY <1>1 DEF Sheet
  <2>3. /\ pc[b] # "idle" => Sorted(refs[b], Left(b), result[b])'
        /\ ended[b] = "returned" => Sorted(refs[b], {}, result[b])'
    BY <1>0, <2>1, <2>2 DEF SortedAt, Sorted
  <2>4. NoAcks(result[b])' = NoAcks(result[b]) /\ AllTried(result[b])' = AllTried(result[b])
    BY <2>2 DEF NoAcks, AllTried
  <2>5. Distinct(todo[b])' = Distinct(todo[b]) BY <2>2 DEF Distinct
  <2>6. Elems(todo[b])' = Elems(todo[b]) /\ Elems(cands[b])' = Elems(cands[b])
    BY <2>2 DEF Elems
  <2> QED BY <1>0, <2>2, <2>3, <2>4, <2>5, <2>6 DEF SortedAt
<1>2. CASE FetchOk(b) \/ FetchFails(b)
  <2>1. pc[b] = "fetching" /\ todo[b] \in Seq(Items) /\ todo[b] # <<>>
    BY <1>0, <1>2 DEF FetchOk, FetchFails, TypeOK, ItemDue
  <2>2. Head(todo[b]) \in Items /\ cands[b] \in Seq(Items) /\ result[b] \in Results
    BY <1>0, <2>1, HeadTailProperties DEF TypeOK, Results
  <2>3. \A x \in Buckets : Put(b, x, {Head(todo[b])}) \in Results BY <1>0, <2>2, PutTyped
  <2>4. {"alreadyDone", "rejected", "deferred"} \subseteq Buckets \cap (Places \ {"written"})
    BY DEF Buckets, Places
  <2>5. Append(cands[b], Head(todo[b])) \in Seq(Items) BY <2>2
  <2>6. \/ \E x \in {"alreadyDone", "rejected", "deferred"} :
             NextItem(b, cands[b], Put(b, x, {Head(todo[b])}))
        \/ NextItem(b, Append(cands[b], Head(todo[b])), result[b])
    BY <1>2 DEF FetchOk, FetchFails
  <2>7. CASE NextItem(b, Append(cands[b], Head(todo[b])), result[b])
    BY <1>0, <2>1, <2>2, <2>5, <2>7, NextSorted
  <2>8. ASSUME NEW x \in {"alreadyDone", "rejected", "deferred"},
               NextItem(b, cands[b], Put(b, x, {Head(todo[b])}))
        PROVE  SortedAt(b)'
    BY <1>0, <2>1, <2>2, <2>3, <2>4, <2>8, NextSorted
  <2> QED BY <2>6, <2>7, <2>8
<1>3. CASE CallThrows(b)
  <2>1. Throws(b) /\ UNCHANGED refs BY <1>3 DEF CallThrows
  <2>2. result[b] \in Results BY <1>0 DEF TypeOK, Results
  <2> QED BY <2>1, <2>2, EndSorted
<1> QED BY <1>0, <1>1, <1>2, <1>3, OthersUntouched, BatchSorted, ReadSorted, BuildSorted,
       AckSorted, SentSorted

(* "Every item lands in exactly one bucket" when acceptInboxBatch() returns, *)
(* for any items, failures and interleavings with other calls.               *)
THEOREM EachInOneBucket == Spec => []Accounted
<1>1. Init => TypeOK /\ ItemDue /\ SortedInv
  BY InitTyped DEF Init, ItemDue, SortedInv, SortedAt, Calls
<1>2. TypeOK /\ ItemDue /\ SortedInv /\ [Next]_vars => (TypeOK /\ ItemDue /\ SortedInv)'
  BY StepTyped, StepDue, StepSorted
<1>3. SortedInv => Accounted
  <2> SUFFICES ASSUME SortedInv, NEW b \in Batches, ended[b] = "returned"
               PROVE  /\ AllTried(result[b])
                      /\ \A i \in refs[b] : \E x \in Buckets \ {"written"} :
                           /\ i \in result[b][x]
                           /\ \A y \in Buckets \ {x, "written"} : i \notin result[b][y]
    BY DEF Accounted, AllTried
  <2> DEFINE res == result[b]
  <2>1. Sorted(refs[b], {}, res) /\ AllTried(res) BY DEF SortedInv, SortedAt
  <2> SUFFICES ASSUME NEW i \in refs[b]
               PROVE  \E x \in Buckets \ {"written"} :
                        i \in res[x] /\ \A y \in Buckets \ {x, "written"} : i \notin res[y]
    BY <2>1
  <2> HIDE DEF res
  <2>2. i \in res["deferred"] \cup res["rejected"] \cup res["alreadyDone"] \cup res["written"]
    BY <2>1 DEF Sorted
  <2>3. \A x, y \in Places : x # y => res[x] \cap res[y] = {} BY <2>1 DEF Sorted
  <2>4. /\ res["written"] = res["acked"] \cup res["ackFailed"]
        /\ res["acked"] \cap res["ackFailed"] = {}
    BY <2>1 DEF Sorted, AllTried
  <2>5. CASE i \in res["written"]
    <3>1. \A y \in {"deferred", "rejected", "alreadyDone"} : i \notin res[y]
      BY <2>3, <2>5 DEF Places
    <3>2. CASE i \in res["acked"] BY <2>4, <3>1, <3>2 DEF Buckets
    <3>3. CASE i \in res["ackFailed"] BY <2>4, <3>1, <3>3 DEF Buckets
    <3> QED BY <2>4, <2>5, <3>2, <3>3
  <2>6. CASE i \notin res["written"]
    <3>1. PICK x \in {"deferred", "rejected", "alreadyDone"} : i \in res[x] BY <2>2, <2>6
    <3>2. i \notin res["acked"] /\ i \notin res["ackFailed"] BY <2>4, <2>6
    <3>3. \A y \in {"deferred", "rejected", "alreadyDone"} \ {x} : i \notin res[y]
      BY <2>3, <3>1 DEF Places
    <3> QED BY <3>1, <3>2, <3>3 DEF Buckets
  <2> QED BY <2>5, <2>6
<1> QED BY <1>1, <1>2, <1>3, PTL DEF Spec

=============================================================================
