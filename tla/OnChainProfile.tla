--------------------------- MODULE OnChainProfile ---------------------------
(***************************************************************************)
(* An agent's identity over its life: published once, then changed by the  *)
(* profile editor (removeAndRewriteVdxfFields, src/src/onboarding/vdxf.ts),*)
(* by setOnChainStatus and setRevokeRecoverAuthorities (src/src/agent.ts)  *)
(* and by accepted job records and reviews, all through                    *)
(* buildIdentityUpdateTx (src/src/identity/update.ts).  Nothing serializes *)
(* these calls: each reads the identity, waits for coins and the chain's   *)
(* height, and sends an update that spends the output it read.             *)
(*                                                                         *)
(* InboxBatch has the accept calls in detail; here they are one of the     *)
(* writers a reader of the profile has to do with.                         *)
(***************************************************************************)
EXTENDS IdentityHistory

CONSTANTS
    Callers,         \* calls that can be in flight together
    Profiles,        \* what the identity may publish first, [key -> text]
    Containers,      \* or what it held before the flat format, [key -> entries]
    Rewrites,        \* edits asked of the profile editor, [reference -> text]
    Accepted,        \* contents an accepted inbox item may have, [key -> entries]
    Statuses,        \* statuses an agent is set to
    Authorities,     \* revocation and recovery authorities
    Hashes,          \* jobs that may be reviewed
    NoTx,
    MAX_UPDATES      \* bound: updates mined

VARIABLES
    pc,              \* each call: "idle", "reading", "sending"
    change,          \* what it is to write: [adds, authority]
    base,            \* the snapshot it read
    tx,              \* the update in the mempool
    history,         \* the identity's outputs, oldest first: its content, its
                     \* authority, and the change that made it (auxiliary)
    aggregated       \* the node's index (getidentitycontent): under each key every
                     \* value there ever was, one after the other

\* Every key holds a value, and no text is what a decoder throws.
Writable(cmm) == \A k \in DOMAIN cmm :
    /\ cmm[k] \in Seq(Range(cmm[k])) /\ cmm[k] # << >>
    /\ \A n \in DOMAIN cmm[k] : parseSubDD(cmm[k][n]) # Unreadable

\* The change of a call that leaves something alone.
Kept == "kept"

ASSUME ProfileAssumption ==
    /\ Authorities # {} /\ Kept \notin Authorities /\ "" \notin Hashes
    /\ \A cmm \in Containers \cup Accepted : Writable(cmm)
    /\ \A texts \in Profiles \cup Rewrites : \A k \in DOMAIN texts : texts[k] # Unreadable

profileCalls == <<pc, change, base>>
chain        == <<history, aggregated>>
profileVars  == <<profileCalls, tx, chain>>

Published(cmm) == LET a == CHOOSE a \in Authorities : TRUE
                  IN  [cmm |-> cmm, authority |-> a, wrote |-> [adds |-> cmm, authority |-> a]]

ProfileInit ==
    /\ pc = [c \in Callers |-> "idle"]
    /\ change = [c \in Callers |-> NoTx]
    /\ base = [c \in Callers |-> 1]
    /\ tx = NoTx
    /\ \E cmm \in {buildAgentContentMultimap(p) : p \in Profiles} \cup Containers :
          history = <<Published(cmm)>> /\ aggregated = cmm

----------------------------------------------------------------------------
\* The calls.  One that cannot do what it is asked throws before any request.

Begin(c, adds, authority) ==
    /\ pc[c] = "idle" /\ Len(history) <= MAX_UPDATES
    /\ pc' = [pc EXCEPT ![c] = "reading"]
    /\ change' = [change EXCEPT ![c] = [adds |-> adds, authority |-> authority]]
    /\ UNCHANGED <<base, tx, chain>>

removeAndRewriteVdxfFields(c) ==
    \E fields \in Rewrites :
        /\ \A ref \in DOMAIN fields : Resolves(ref)
        /\ Begin(c, [k \in {resolveVdxfFieldRef(ref) : ref \in DOMAIN fields} |->
                       <<makeSubDD(fields[CHOOSE ref \in DOMAIN fields :
                                            resolveVdxfFieldRef(ref) = k])>>], Kept)

setOnChainStatus(c) ==
    \E status \in Statuses :
        Begin(c, [k \in {Agent("status")} |-> <<makeSubDD(Text("word", status))>>], Kept)

setRevokeRecoverAuthorities(c) == \E a \in Authorities : Begin(c, << >>, a)

AcceptItem(c) == \E adds \in Accepted : Begin(c, adds, Kept)

CallEnds(c) == /\ pc' = [pc EXCEPT ![c] = "idle"]
               /\ change' = [change EXCEPT ![c] = NoTx]
               /\ base' = [base EXCEPT ![c] = 1]

\* The platform answers with an output the identity has, or had.
ReadIdentity(c) ==
    /\ pc[c] = "reading"
    /\ \E i \in DOMAIN history :
          IF history[i].authority = change[c].authority THEN CallEnds(c)   \* already set
          ELSE /\ pc' = [pc EXCEPT ![c] = "sending"]
               /\ base' = [base EXCEPT ![c] = i]
               /\ UNCHANGED change
    /\ UNCHANGED <<tx, chain>>

\* Any request of a call may fail, the last one also after it arrived.
CallFails(c) == pc[c] # "idle" /\ CallEnds(c) /\ UNCHANGED <<tx, chain>>

\* The output an update spends: the one whose content it copies.
Spends(c) == base[c]

BuildUpdate(c) ==
    LET read == history[base[c]]
        authority == change[c].authority
    IN  [cmm |-> Override(read.cmm, change[c].adds),
         authority |-> IF authority = Kept THEN read.authority ELSE authority,
         wrote |-> change[c]]

\* The node takes one update of an output that is not spent yet.
Send(c) ==
    /\ pc[c] = "sending"
    /\ assertContentmultimapValueSizes(change[c].adds)
    /\ Spends(c) = Len(history) /\ tx = NoTx
    /\ tx' = BuildUpdate(c)
    /\ CallEnds(c)
    /\ UNCHANGED chain

UpdateMined == /\ tx # NoTx /\ Len(history) <= MAX_UPDATES
               /\ history' = Append(history, tx)
               /\ aggregated' = mergeContentMultimap(aggregated, tx.cmm)
               /\ tx' = NoTx
               /\ UNCHANGED profileCalls

UpdateExpires == tx # NoTx /\ tx' = NoTx /\ UNCHANGED <<profileCalls, chain>>

ProfileNext ==
    \/ \E c \in Callers :
          \/ removeAndRewriteVdxfFields(c) \/ setOnChainStatus(c)
          \/ setRevokeRecoverAuthorities(c) \/ AcceptItem(c)
          \/ ReadIdentity(c) \/ CallFails(c) \/ Send(c)
    \/ UpdateMined \/ UpdateExpires

ProfileSpec == ProfileInit /\ [][ProfileNext]_profileVars

----------------------------------------------------------------------------
\* What a reader is given: the newest output, or the aggregated view.

Current == Last(history).cmm

\* The entry that the last update to write a key gave it, and its text.
Writers(k) == {i \in DOMAIN history : k \in DOMAIN history[i].wrote.adds}
LastWrite(k) == Last(history[Max(Writers(k))].wrote.adds[k])
Written(k) == IF Writers(k) = {} THEN Absent ELSE parseSubDD(LastWrite(k))

Snapshots == [i \in DOMAIN history |-> [height |-> i, cmm |-> history[i].cmm]]

Migrated == \E k \in AgentKeys : Writers(k) # {}

\* An authority is what the last update that set it made it.
AuthorityKept ==
    LET setters == {i \in DOMAIN history : history[i].wrote.authority # Kept}
    IN  Last(history).authority = history[Max(setters)].wrote.authority

\* Readers see nothing of the calls in flight, which may all fail: it is enough
\* to ask them when there is none.
Quiet == tx = NoTx /\ \A c \in Callers : pc[c] = "idle"

----------------------------------------------------------------------------
\* Every key that was ever published is still verified (verifyPublishedIdentity).
KeysKept == \A i \in DOMAIN history : verifyPublishedIdentity(Current, history[i].cmm)

\* Both ways of reading, the newest output and the index where all values
\* accumulate, decode to what the entries last written do, those of containers
\* included (decodeContentMultimap, parseOuterDD).
ViewsKept == \A view \in {Current, aggregated} :
    decodeContentMultimap(view) = decodeContentMultimap([k \in DOMAIN Current |-> <<LastWrite(k)>>])

\* Once a flat agent key was written, both ways of reading give, field by field,
\* what was last written flat, and no field that only a container holds
\* (isLegacyFormat, decodeContentMultimap, parseFlatEntry).
FieldsKept == Migrated => \A view \in {Current, aggregated} :
    LET read == decodeContentMultimap(view)
    IN  IF Reads(Agent("services"), Written(Agent("services"))) = Unreadable
        THEN read = Unreadable
        ELSE \A k \in ReadKeys : read[k] = Reads(k, Written(k))

\* However the writers raced, a reader gets what was last written: the
\* authority; the fields, by both views, those of containers as long as no
\* agent key is flat and the flat ones from then on; and no key is ever lost
\* (buildIdentityUpdateTx, removeAndRewriteVdxfFields).  From then on what only
\* a container holds stays on chain unread: EveryReaderSafe.
ReadsBack == Quiet => AuthorityKept /\ KeysKept /\ ViewsKept /\ FieldsKept

\* The outputs that wrote a review of a job.
Reviewed(h) ==
    {i \in Writers(Review) : \E n \in DOMAIN history[i].wrote.adds[Review] :
        LET e == history[i].wrote.adds[Review][n]
        IN  decodeReviewValue(e) # Absent /\ HashOf(e) = h}

\* From the snapshots in any order, every job ever reviewed on chain comes back
\* once, with the height at which its review was first written, oldest first
\* (extractVdxfHistory, decodeReviewHistory).
ReviewsRecovered == Quiet =>
    \A order \in Bijection(DOMAIN history, DOMAIN history) :
        LET answer == [i \in DOMAIN history |-> Snapshots[order[i]]]
            JobOf(p) == HashOf(ValueAt(answer, Review, p))
            found  == {p \in decodeReviewHistory(answer) : JobOf(p) # ""}
        IN  /\ \A p \in found : answer[p[1]].height = Min(Reviewed(JobOf(p)))
            /\ \A p, q \in found : p # q =>
                  /\ JobOf(p) # JobOf(q)
                  /\ Earlier(answer, p, q) \/ Earlier(answer, q, p)
                  /\ Earlier(answer, p, q) => answer[p[1]].height <= answer[q[1]].height
            /\ \A h \in Hashes : Reviewed(h) # {} => \E p \in found : JobOf(p) = h

\* "Setting a field's new value is sufficient - every other key is preserved
\* untouched", and "every in-repo reader is safe" (vdxf.ts:1027, :1056): after
\* an update a reader decodes the new value of each field the update wrote and
\* of every other field the value it had before.
EveryReaderSafe == Quiet =>
    \A i \in 2 .. Len(history) :
        LET before == decodeContentMultimap(history[i - 1].cmm)
            after  == decodeContentMultimap(history[i].cmm)
            adds   == history[i].wrote.adds
        IN  before # Unreadable /\ after # Unreadable =>
              \A k \in ReadKeys :
                  after[k] = IF k \in DOMAIN adds THEN Reads(k, parseSubDD(Last(adds[k])))
                                                  ELSE before[k]

============================================================================
