-------------------------- MODULE IdentityHistory --------------------------
(***************************************************************************)
(* Rebuilding what was once on an identity from the snapshots of           *)
(* getidentityhistory (src/src/identity/history.ts).  A key holds only its *)
(* newest value, so an agent's earlier reviews are found nowhere else.     *)
(*                                                                         *)
(* A snapshot has a height, NoHeight when the endpoint gave none, and the  *)
(* identity's contentmultimap.                                             *)
(***************************************************************************)
EXTENDS ProfileFormat

NoHeight == 0

\* Mutant: the order of the answer is trusted.
Before_AsReceived(snapshots, i, j) == i < j

\* Ascending by height, those without one last, equals in the order received.
Before(snapshots, i, j) ==
    LET unknown == {k \in DOMAIN snapshots : snapshots[k].height = NoHeight}
    IN  \/ i \notin unknown /\ j \in unknown
        \/ /\ i \in unknown <=> j \in unknown
           /\ \/ snapshots[i].height < snapshots[j].height
              \/ snapshots[i].height = snapshots[j].height /\ i < j

\* The list a walk over the snapshots makes is the set of the places <<i, n>> it
\* takes a value from, the n-th of snapshot i, in this order.
Earlier(snapshots, p, q) ==
    \/ Before(snapshots, p[1], q[1])
    \/ p[1] = q[1] /\ p[2] < q[2]
ValueAt(snapshots, key, p) == snapshots[p[1]].cmm[key][p[2]]

\* Every value seen under a key; a snapshot whose whole array is that of the one
\* before it, of those that have the key, adds nothing.
extractVdxfHistory(snapshots, key) ==
    LET holding == {i \in DOMAIN snapshots : key \in DOMAIN snapshots[i].cmm}
        Precedes(j, i) == /\ Before(snapshots, j, i)
                          /\ ~ \E m \in holding : Before(snapshots, j, m) /\ Before(snapshots, m, i)
        new == {i \in holding : \A j \in holding :
                   Precedes(j, i) => snapshots[i].cmm[key] # snapshots[j].cmm[key]}
    IN  UNION {{i} \X DOMAIN snapshots[i].cmm[key] : i \in new}

\* A review is an object, in a DataDescriptor or bare.
decodeReviewValue(e) == IF e.dd \in {"sub", "bare"} /\ e.text.form = "object"
                        THEN e.text ELSE Absent
HashOf(e) == decodeReviewValue(e).val

\* Undecodable entries are skipped; of a job's reviews the earliest is kept,
\* and a review without a job hash (val "") is not compared.
decodeReviewHistory(snapshots) ==
    LET Entry(p) == ValueAt(snapshots, Review, p)
        reviews  == {p \in extractVdxfHistory(snapshots, Review) :
                        decodeReviewValue(Entry(p)) # Absent}
    IN  {p \in reviews :
            HashOf(Entry(p)) # "" =>
                \A q \in reviews : HashOf(Entry(q)) = HashOf(Entry(p)) => ~Earlier(snapshots, q, p)}

============================================================================
