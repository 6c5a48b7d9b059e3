----------------------------- MODULE InboxBatch -----------------------------
(***************************************************************************)
(* Accepting inbox items into the on-chain identity (src/src/agent.ts):    *)
(* acceptInboxBatch with its five phases, and the single-item              *)
(* acceptReview, acceptAttestationTuple and acceptJobRecord, with the gate *)
(* of src/src/inbox/vdxf-gate.ts and the identity update of                *)
(* src/src/identity/update.ts.                                             *)
(*                                                                         *)
(* Calls run concurrently and interleave at every await.  The identity is  *)
(* one output: an update spends the output that held the content it was    *)
(* built from, so of several updates built from one read only one can be   *)
(* mined.  The content of a key is the item whose value it holds.          *)
(***************************************************************************)
EXTENDS Integers, Sequences, FiniteSets, FiniteSetsExt

CONSTANTS
    Items, None,
    item,        \* each item: label, type, keys, hash, size, fate (see Attributes)
    rank,        \* a batch has its items in increasing rank; equals in any order
    Batches,     \* acceptInboxBatch calls that can be in flight together
    Singles,     \* single-item accepts that can be in flight together
    Hashes, maxBytes

Types == {"review", "attestation", "job_record"}
Keys  == {"review.record", "review.attestation", "job.record", "other"}

\* label: the caller's type; type: the backend's; keys: of its vdxfData; fate:
\* whether its value is too long for an output, or breaks the serializer.
Attributes == [label : Types, type : Types \cup {None}, keys : SUBSET Keys,
               hash : Hashes \cup {None}, size : Nat,
               fate : {"fine", "oversized", "broken"}]

ASSUME ItemAssumption ==
    /\ IsFiniteSet(Items) /\ None \notin Items
    /\ item \in [Items -> Attributes] /\ rank \in [Items -> Nat]
ASSUME CallAssumption == Batches \cap Singles = {} /\ maxBytes \in Nat

VARIABLES
    pc,           \* each call: where it is, "idle" when not under way
    ended,        \* how its last call ended: "no", "returned", "threw"
    refs,         \* the items it was called with
    todo,         \* the items it still has to fetch, in order
    cands,        \* the items past the gate, in order
    merged,       \* mergedRefs: the items its update is to carry
    snap,         \* the identity content it read
    fresh,        \* whether it read, or spends, the identity's current output
    result,       \* the InboxBatchResult it is filling
    tx, net,      \* the update it built, and the network's view of it
    chain,        \* the content of the confirmed identity
    status,       \* the backend's status of each item
    dead,         \* items the caller dead-lettered
    sent          \* auxiliary: items some transaction carried to the mempool

callVars    == <<pc, ended, refs, todo, cands, merged, snap, result>>
networkVars == <<tx, net, fresh, chain, sent>>
backendVars == <<status, dead>>
vars        == <<callVars, networkVars, backendVars>>

Calls    == Batches \cup Singles
Contents == [Keys -> Items \cup {None}]
Empty    == [k \in Keys |-> None]
Buckets  == {"deferred", "rejected", "alreadyDone", "written", "acked", "ackFailed"}
NoResult == [x \in Buckets |-> {}]

Elems(s) == {s[n] : n \in 1..Len(s)}

TypeOK ==
    /\ pc \in [Calls -> {"idle", "fetching", "reading", "building", "sending", "acking"}]
    /\ ended \in [Calls -> {"no", "returned", "threw"}]
    /\ refs \in [Calls -> SUBSET Items] /\ merged \in [Calls -> SUBSET Items]
    /\ todo \in [Calls -> Seq(Items)] /\ cands \in [Calls -> Seq(Items)]
    /\ snap \in [Calls -> Contents] /\ tx \in [Calls -> Contents]
    /\ fresh \in [Calls -> BOOLEAN]
    /\ result \in [Calls -> [Buckets -> SUBSET Items]]
    /\ net \in [Calls -> {"none", "wire", "refused", "mempool", "confirmed", "expired"}]
    /\ chain \in Contents /\ status \in [Items -> {"pending", "accepted"}]
    /\ dead \in SUBSET Items /\ sent \in SUBSET Items

----------------------------------------------------------------------------
(* The gate (vdxf-gate.ts) *)

\* Mutant: reviews may bring the attestation key along.
inboxAllowlistForType_Wide(type) ==
    CASE type = "review" -> {"review.record", "review.attestation"}
      [] type = "attestation" -> {"review.attestation"}
      [] type = "job_record" -> {"job.record"}

inboxAllowlistForType(type) ==
    CASE type = "review" -> {"review.record"}
      [] type = "attestation" -> {"review.attestation"}
      [] type = "job_record" -> {"job.record"}

\* A job record without data is synthesized, with the time of day in it.
Synthesized(i) == item[i].label = "job_record" /\ item[i].keys = {}

\* The keys item i writes; {} when the gate throws.
buildInboxVdxfAdditions(i) ==
    IF Synthesized(i) THEN {"job.record"}
    ELSE item[i].keys \cap inboxAllowlistForType(item[i].label)

Passes(i) == buildInboxVdxfAdditions(i) # {} /\ item[i].fate # "oversized"

----------------------------------------------------------------------------
(* Content *)

\* The same bytes are there already; a fresh timestamp never is.
valueAlreadyOnChain(content, k, i) == content[k] = i /\ ~Synthesized(i)

jobHashAlreadyOnChain(content, k, i) ==
    /\ content[k] # None
    /\ item[i].hash # None /\ item[content[k]].hash = item[i].hash

AlreadyPresent(content, i) ==
    \A k \in buildInboxVdxfAdditions(i) :
      \/ valueAlreadyOnChain(content, k, i)
      \/ k = "review.record" /\ jobHashAlreadyOnChain(content, k, i)

SizeOf(S) == MapThenSumSet(LAMBDA i : item[i].size, S)

\* Mutant: two items may have the same key.
Joins_Collides(q, n, S) ==
    SizeOf({q[m] : m \in 1..n - 1} \cap S) + item[q[n]].size <= maxBytes

\* The n-th candidate of q joins those of S before it: a key has one item,
\* because an update replaces the whole value of a key, and the total is
\* bounded.
Joins(q, n, S) ==
    LET before == {q[m] : m \in 1..n - 1} \cap S IN
    /\ \A j \in before :
         buildInboxVdxfAdditions(j) \cap buildInboxVdxfAdditions(q[n]) = {}
    /\ SizeOf(before) + item[q[n]].size <= maxBytes

\* Phase 3: S is what the merge loop over q collects.
Merge(q, content, S) ==
    /\ S \subseteq Elems(q)
    /\ \A n \in 1..Len(q) :
         q[n] \in S <=> ~AlreadyPresent(content, q[n]) /\ Joins(q, n, S)

\* Mutant: the rest of the identity's content is not carried forward.
Update_Clears(content, S) ==
    [k \in Keys |-> LET I == {i \in S : k \in buildInboxVdxfAdditions(i)} IN
                    IF I = {} THEN None ELSE CHOOSE i \in I : TRUE]

\* The content of the update: existing keys carried forward, added ones
\* replaced.
Update(content, S) ==
    [k \in Keys |-> LET I == {i \in S : k \in buildInboxVdxfAdditions(i)} IN
                    IF I = {} THEN content[k] ELSE CHOOSE i \in I : TRUE]

\* How the surroundings of a build are: "poor" for want of spendable coins, a
\* malformed identity and the like; "clash" when items that build alone do not
\* build together.
Environments == {"good", "poor", "clash"}

\* buildIdentityUpdateTx() throws for the items of S.
BuildThrows(S, env) == \/ env = "poor"
                       \/ env = "clash" /\ Cardinality(S) > 1
                       \/ \E i \in S : item[i].fate # "fine"

----------------------------------------------------------------------------
(* Calls *)

Goto(c, label) == pc' = [pc EXCEPT ![c] = label]
Put(c, bucket, S) == [result[c] EXCEPT ![bucket] = @ \cup S]

\* The caller dead-letters what a result rejects.
Returns(c, res) ==
    /\ Goto(c, "idle") /\ ended' = [ended EXCEPT ![c] = "returned"]
    /\ result' = [result EXCEPT ![c] = res]
    /\ dead' = dead \cup res["rejected"]

\* An error loses the result.
Throws(c) ==
    /\ Goto(c, "idle") /\ ended' = [ended EXCEPT ![c] = "threw"]
    /\ result' = [result EXCEPT ![c] = NoResult]
    /\ UNCHANGED dead

\* A call begins with the items of q.  (net[c] only keeps names distinct.)
Begins(c, q) ==
    /\ pc[c] = "idle" /\ net[c] \notin {"wire", "mempool"} /\ q # <<>>
    /\ Goto(c, "fetching") /\ ended' = [ended EXCEPT ![c] = "no"]
    /\ refs' = [refs EXCEPT ![c] = Elems(q)]
    /\ todo' = [todo EXCEPT ![c] = q] /\ cands' = [cands EXCEPT ![c] = <<>>]
    /\ merged' = [merged EXCEPT ![c] = {}]
    /\ result' = [result EXCEPT ![c] = NoResult]
    /\ net' = [net EXCEPT ![c] = "none"]
    /\ snap' = [snap EXCEPT ![c] = Empty] /\ tx' = [tx EXCEPT ![c] = Empty]
    /\ fresh' = [fresh EXCEPT ![c] = FALSE]
    /\ UNCHANGED <<chain, sent, backendVars>>

\* The caller passes every pending item it has not dead-lettered.
acceptInboxBatch(b) ==
    \E q \in [1..Cardinality({i \in Items : status[i] = "pending"} \ dead) -> Items] :
      /\ Elems(q) = {i \in Items : status[i] = "pending"} \ dead
      /\ \A m, n \in DOMAIN q : m < n => rank[q[m]] <= rank[q[n]]
      /\ Begins(b, q)

\* acceptReview, acceptAttestationTuple or acceptJobRecord, by the label.
acceptOne(c, i) == status[i] = "pending" /\ i \notin dead /\ Begins(c, <<i>>)

----------------------------------------------------------------------------
(* acceptInboxBatch() *)

\* Phase 1 is done with one item; after the last one the identity is read.
NextItem(b, q, res) ==
    /\ todo' = [todo EXCEPT ![b] = Tail(@)] /\ cands' = [cands EXCEPT ![b] = q]
    /\ \/ /\ Len(todo[b]) > 1
          /\ result' = [result EXCEPT ![b] = res] /\ UNCHANGED <<pc, ended, dead>>
       \/ Len(todo[b]) = 1 /\ q = <<>> /\ Returns(b, res)
       \/ /\ Len(todo[b]) = 1 /\ q # <<>> /\ Goto(b, "reading")
          /\ result' = [result EXCEPT ![b] = res] /\ UNCHANGED <<ended, dead>>
    /\ UNCHANGED <<refs, merged, snap, networkVars, status>>

FetchOk(b) ==
    LET i == Head(todo[b])
        mislabelled == item[i].type \notin {None, item[i].label}
    IN
    /\ b \in Batches /\ pc[b] = "fetching"
    /\ \/ status[i] # "pending" /\ NextItem(b, cands[b], Put(b, "alreadyDone", {i}))
       \/ /\ status[i] = "pending" /\ (mislabelled \/ ~Passes(i))
          /\ NextItem(b, cands[b], Put(b, "rejected", {i}))
       \/ /\ status[i] = "pending" /\ ~mislabelled /\ Passes(i)
          /\ NextItem(b, Append(cands[b], i), result[b])

\* Mutant: an item that could not be fetched is skipped.
FetchFails_Skips(b) ==
    b \in Batches /\ pc[b] = "fetching" /\ NextItem(b, cands[b], result[b])

FetchFails(b) ==
    /\ b \in Batches /\ pc[b] = "fetching"
    /\ NextItem(b, cands[b], Put(b, "deferred", {Head(todo[b])}))

\* Phase 5 begins, or there is nothing to acknowledge.
Acknowledge(c, res) ==
    IF res["written"] = {} THEN Returns(c, res)
    ELSE /\ Goto(c, "acking") /\ result' = [result EXCEPT ![c] = res]
         /\ UNCHANGED <<ended, dead>>

\* Phases 2 and 3: the last confirmed identity, and the merge.
ReadOk(b) ==
    \E S \in SUBSET Elems(cands[b]) :
      LET present == {i \in Elems(cands[b]) : AlreadyPresent(chain, i)}
          res == [result[b] EXCEPT
                    !["written"] = @ \cup present,
                    !["deferred"] = @ \cup (Elems(cands[b]) \ (present \cup S))]
      IN
      /\ b \in Batches /\ pc[b] = "reading" /\ Merge(cands[b], chain, S)
      /\ snap' = [snap EXCEPT ![b] = chain] /\ fresh' = [fresh EXCEPT ![b] = TRUE]
      /\ merged' = [merged EXCEPT ![b] = S]
      /\ IF S = {} THEN Acknowledge(b, res)
         ELSE /\ Goto(b, "building") /\ result' = [result EXCEPT ![b] = res]
              /\ UNCHANGED <<ended, dead>>
      /\ UNCHANGED <<refs, todo, cands, tx, net, chain, sent, status>>

\* The signed update leaves.
Send(c, S, res) ==
    /\ Goto(c, "sending") /\ merged' = [merged EXCEPT ![c] = S]
    /\ result' = [result EXCEPT ![c] = res]
    /\ tx' = [tx EXCEPT ![c] = Update(snap[c], S)]
    /\ net' = [net EXCEPT ![c] = "wire"]
    /\ UNCHANGED <<ended, dead>>

\* Mutant: no control build, a failing environment is blamed on the items.
Bisect_NoControl(b, S, env) ==
    LET blamed == {i \in S : BuildThrows({i}, env)}
        rest   == S \ blamed
    IN
    \/ blamed = {} /\ Throws(b) /\ UNCHANGED <<merged, tx, net>>
    \/ /\ blamed # {} /\ rest # {} /\ ~BuildThrows(rest, env)
       /\ Send(b, rest, Put(b, "rejected", blamed))
    \/ /\ blamed # {} /\ (rest = {} \/ BuildThrows(rest, env))
       /\ merged' = [merged EXCEPT ![b] = {}]
       /\ Acknowledge(b, [Put(b, "rejected", blamed) EXCEPT !["deferred"] = @ \cup rest])
       /\ UNCHANGED <<tx, net>>

\* Mutant: no bisection, a build that throws fails the call.
Bisect_Throws(b, S, env) == Throws(b) /\ UNCHANGED <<merged, tx, net>>

\* The merged build threw: without additions too, it is the environment's
\* fault; otherwise each item is tried alone, the culprits are rejected and
\* the others sent, or deferred when they do not build together.
Bisect(b, S, env) ==
    LET blamed == {i \in S : BuildThrows({i}, env)}
        rest   == S \ blamed
    IN
    \/ BuildThrows({}, env) /\ Throws(b) /\ UNCHANGED <<merged, tx, net>>
    \/ ~BuildThrows({}, env) /\ blamed = {} /\ Throws(b) /\ UNCHANGED <<merged, tx, net>>
    \/ /\ ~BuildThrows({}, env) /\ blamed # {} /\ rest # {} /\ ~BuildThrows(rest, env)
       /\ Send(b, rest, Put(b, "rejected", blamed))
    \/ /\ ~BuildThrows({}, env) /\ blamed # {} /\ (rest = {} \/ BuildThrows(rest, env))
       /\ merged' = [merged EXCEPT ![b] = {}]
       /\ Acknowledge(b, [Put(b, "rejected", blamed) EXCEPT !["deferred"] = @ \cup rest])
       /\ UNCHANGED <<tx, net>>

\* Phase 4 up to the broadcast.
Build(b, env) ==
    /\ b \in Batches /\ pc[b] = "building"
    /\ IF BuildThrows(merged[b], env) THEN Bisect(b, merged[b], env)
                                        ELSE Send(b, merged[b], result[b])
    /\ UNCHANGED <<refs, todo, cands, snap, fresh, chain, sent, status>>

\* broadcast() resolved.
SentOk(c) ==
    /\ pc[c] = "sending" /\ net[c] \notin {"wire", "refused"}
    /\ Acknowledge(c, Put(c, "written", merged[c]))
    /\ UNCHANGED <<refs, todo, cands, merged, snap, networkVars, status>>

\* broadcast() rejected, though the update may have got through; the identity,
\* the coins or the height could not be read; or the gate or the build of a
\* single item threw.
CallThrows(c) ==
    /\ \/ pc[c] \in {"sending", "reading", "building"}
       \/ c \in Singles /\ pc[c] \in {"fetching", "acking"}
    /\ Throws(c)
    /\ status' \in {status, [i \in Items |->
                       IF pc[c] = "acking" /\ i \in merged[c] THEN "accepted" ELSE status[i]]}
    /\ UNCHANGED <<refs, todo, cands, merged, snap, networkVars>>

Unacked(c) == result[c]["written"] \ (result[c]["acked"] \cup result[c]["ackFailed"])

\* One item acknowledged or not; after the last one the call returns.
Acked(b, i, bucket) ==
    IF Unacked(b) = {i} THEN Returns(b, Put(b, bucket, {i}))
    ELSE /\ result' = [result EXCEPT ![b] = Put(b, bucket, {i})]
         /\ UNCHANGED <<pc, ended, dead>>

\* Accepted now, or earlier: ALREADY_PROCESSED is a success.  (In any order:
\* no acknowledgement depends on another.)
AckOk(b, i) ==
    /\ b \in Batches /\ pc[b] = "acking" /\ i \in Unacked(b)
    /\ status' = [status EXCEPT ![i] = "accepted"]
    /\ Acked(b, i, "acked")
    /\ UNCHANGED <<refs, todo, cands, merged, snap, networkVars>>

\* The request, or the answer, is lost.
AckFails(b, i) ==
    /\ b \in Batches /\ pc[b] = "acking" /\ i \in Unacked(b)
    /\ status' \in {status, [status EXCEPT ![i] = "accepted"]}
    /\ Acked(b, i, "ackFailed")
    /\ UNCHANGED <<refs, todo, cands, merged, snap, networkVars>>

----------------------------------------------------------------------------
(* acceptReview(), acceptAttestationTuple(), acceptJobRecord() *)

OneFetched(c) ==
    /\ c \in Singles /\ pc[c] = "fetching"
    /\ IF status[Head(todo[c])] = "pending"
         THEN Goto(c, "reading") /\ UNCHANGED <<ended, result, dead>>
         ELSE Returns(c, NoResult)
    /\ UNCHANGED <<refs, todo, cands, merged, snap, networkVars, status>>

\* No short-circuit for what is on the chain already.
OneRead(c) ==
    LET i == Head(todo[c]) IN
    /\ c \in Singles /\ pc[c] = "reading"
    /\ snap' = [snap EXCEPT ![c] = chain] /\ fresh' = [fresh EXCEPT ![c] = TRUE]
    /\ buildInboxVdxfAdditions(i) # {} /\ Goto(c, "building")
    /\ merged' = [merged EXCEPT ![c] = {i}]
    /\ UNCHANGED <<ended, refs, todo, cands, result, tx, net, chain, sent,
                   status, dead>>

OneBuilt(c) ==
    /\ c \in Singles /\ pc[c] = "building" /\ ~BuildThrows(merged[c], "good")
    /\ Send(c, merged[c], result[c])
    /\ UNCHANGED <<refs, todo, cands, snap, fresh, chain, sent, status>>

\* The item was still pending; if not, the answer is an error like any other.
OneAcked(c) ==
    LET i == Head(todo[c]) IN
    /\ c \in Singles /\ pc[c] = "acking" /\ status[i] = "pending"
    /\ status' = [status EXCEPT ![i] = "accepted"]
    /\ Returns(c, Put(c, "acked", {i}))
    /\ UNCHANGED <<refs, todo, cands, merged, snap, networkVars>>

----------------------------------------------------------------------------
(* The network (external) *)

Carried(content) == {content[k] : k \in Keys} \ {None}

NodeAccepts(c) ==
    /\ net[c] = "wire" /\ fresh[c] /\ \A d \in Calls : net[d] # "mempool"
    /\ net' = [net EXCEPT ![c] = "mempool"] /\ sent' = sent \cup Carried(tx[c])
    /\ UNCHANGED <<callVars, tx, fresh, chain, backendVars>>

NodeRefuses(c) ==
    /\ net[c] = "wire" /\ net' = [net EXCEPT ![c] = "refused"]
    /\ UNCHANGED <<callVars, tx, fresh, chain, sent, backendVars>>

Mined(c) ==
    /\ net[c] = "mempool" /\ net' = [net EXCEPT ![c] = "confirmed"]
    /\ chain' = tx[c]
    /\ fresh' = [d \in Calls |-> FALSE]
    /\ UNCHANGED <<callVars, tx, sent, backendVars>>

Expires(c) ==
    /\ net[c] = "mempool" /\ net' = [net EXCEPT ![c] = "expired"]
    /\ UNCHANGED <<callVars, tx, fresh, chain, sent, backendVars>>

----------------------------------------------------------------------------

Init ==
    /\ pc = [c \in Calls |-> "idle"] /\ ended = [c \in Calls |-> "no"]
    /\ refs = [c \in Calls |-> {}] /\ merged = [c \in Calls |-> {}]
    /\ todo = [c \in Calls |-> <<>>] /\ cands = [c \in Calls |-> <<>>]
    /\ snap = [c \in Calls |-> Empty] /\ tx = [c \in Calls |-> Empty]
    /\ result = [c \in Calls |-> NoResult]
    /\ fresh = [c \in Calls |-> FALSE] /\ net = [c \in Calls |-> "none"]
    /\ chain = Empty /\ status = [i \in Items |-> "pending"]
    /\ dead = {} /\ sent = {}

Next ==
    \/ \E b \in Batches :
         \/ acceptInboxBatch(b) \/ FetchOk(b) \/ FetchFails(b) \/ ReadOk(b)
         \/ \E env \in Environments : Build(b, env)
         \/ \E i \in Items : AckOk(b, i) \/ AckFails(b, i)
    \/ \E c \in Singles :
         \/ \E i \in Items : acceptOne(c, i)
         \/ OneFetched(c) \/ OneRead(c) \/ OneBuilt(c) \/ OneAcked(c)
    \/ \E c \in Calls : \/ SentOk(c) \/ CallThrows(c) \/ NodeAccepts(c)
                        \/ NodeRefuses(c) \/ Mined(c) \/ Expires(c)

Spec == Init /\ [][Next]_vars

\* A step of call c itself, whatever it awaited having succeeded or not.
CallStep(c) ==
    \/ FetchOk(c) \/ FetchFails(c) \/ ReadOk(c)
    \/ \E env \in Environments : Build(c, env)
    \/ SentOk(c) \/ CallThrows(c) \/ \E i \in Items : AckOk(c, i) \/ AckFails(c, i)
    \/ OneFetched(c) \/ OneRead(c) \/ OneBuilt(c) \/ OneAcked(c)

\* Calls do not stop half-way (every await has a timeout) and the network
\* decides about every transaction; and the caller, the backend and the
\* network do not fail for ever: what is tried again and again succeeds.
FairSpec ==
    /\ Spec
    /\ \A c \in Calls :
         /\ WF_vars(CallStep(c)) /\ WF_vars(NodeAccepts(c) \/ NodeRefuses(c))
         /\ WF_vars(Mined(c) \/ Expires(c))
         /\ SF_vars(pc[c] = "sending" /\ NodeAccepts(c)) /\ SF_vars(SentOk(c))
    /\ \A b \in Batches :
         /\ WF_vars(acceptInboxBatch(b)) /\ SF_vars(ReadOk(b)) /\ SF_vars(Build(b, "good"))
         /\ \A i \in Items : /\ SF_vars(todo[b] # <<>> /\ Head(todo[b]) = i /\ FetchOk(b))
                             /\ SF_vars(AckOk(b, i))

----------------------------------------------------------------------------
(* Properties *)

(* "Every item lands in exactly one bucket": when acceptInboxBatch()         *)
(* returns, each item it was given is deferred, rejected, found done, acked  *)
(* or written without an ack, and in one of these only.                      *)
Accounted ==
    \A b \in Batches : ended[b] = "returned" =>
      /\ result[b]["written"] = result[b]["acked"] \cup result[b]["ackFailed"]
      /\ \A i \in refs[b] : \E x \in Buckets \ {"written"} :
           /\ i \in result[b][x]
           /\ \A y \in Buckets \ {x, "written"} : i \notin result[b][y]

\* i, or another encoding of the same review.
SameRecord(i, j) == i = j \/ (item[i].hash # None /\ item[i].hash = item[j].hash)

(* No silent data loss: an item is marked accepted at the backend only when  *)
(* a transaction carrying its record (or the same jobHash) reached the       *)
(* network - through merging, bisection, short-circuits and races with       *)
(* single accepts of the same item.                                          *)
AcceptedWasSent ==
    \A i \in Items : status[i] = "accepted" => \E j \in sent : SameRecord(i, j)

(* A key never rides into the identity under another type's gate: what the   *)
(* confirmed identity holds under a key came from an item accepted as the    *)
(* type that key is for.                                                     *)
KeyFor(type) == CASE type = "review" -> "review.record"
                  [] type = "attestation" -> "review.attestation"
                  [] type = "job_record" -> "job.record"

OnlyOwnKeys == \A k \in Keys : chain[k] # None => k = KeyFor(item[chain[k]].label)

AtFault(i) == \/ item[i].type \notin {None, item[i].label} \/ ~Passes(i)
              \/ item[i].fate # "fine"

(* Only culprits are dead-lettered: a healthy item is never rejected, also   *)
(* when it is merged with a broken one or the wallet cannot pay the fee.     *)
RejectedAtFault == \A i \in dead : AtFault(i)

(* A mined update changes only the keys of its own items: whatever other     *)
(* calls read and sent meanwhile, nothing they got mined is undone.          *)
OthersKept ==
    [][\A c \in Calls : net[c] = "mempool" /\ net'[c] = "confirmed" =>
         \A k \in Keys : chain'[k] # chain[k] =>
           \E i \in merged[c] : k \in buildInboxVdxfAdditions(i)]_vars

(* A broken item, a collision or the size budget holds a healthy item up     *)
(* for some cycles only: it is accepted in the end.                          *)
HealthyAccepted ==
    \A i \in Items : ~AtFault(i) /\ item[i].size <= maxBytes => <>(status[i] = "accepted")

=============================================================================
