---------------------------- MODULE MCInboxBatch ----------------------------
(***************************************************************************)
(* Small instances of InboxBatch for TLC.                                  *)
(***************************************************************************)
EXTENDS InboxBatch

CONSTANTS r1, r2, r3, a1, j1

\* Two reviews, the first with a key of another type; a review whose value
\* breaks the serializer; an attestation and a job record.
MCItem == [i \in Items |->
    CASE i = r1 -> [label |-> "review", type |-> "review", hash |-> "h1", size |-> 1,
                    keys |-> {"review.record", "review.attestation"}, fate |-> "fine"]
      [] i = r2 -> [label |-> "review", type |-> None, hash |-> "h2", size |-> 1,
                    keys |-> {"review.record"}, fate |-> "fine"]
      [] i = r3 -> [label |-> "review", type |-> "review", hash |-> None, size |-> 1,
                    keys |-> {"review.record"}, fate |-> "broken"]
      [] i = a1 -> [label |-> "attestation", type |-> "attestation", hash |-> None,
                    size |-> 1, keys |-> {"review.attestation"}, fate |-> "fine"]
      [] i = j1 -> [label |-> "job_record", type |-> "job_record", hash |-> None,
                    size |-> 1, keys |-> {"job.record"}, fate |-> "fine"]]

\* One order only, or any order.
MCRank == [i \in Items |-> CASE i = r1 -> 1 [] i = r2 -> 2 [] OTHER -> 3]
MCAnyRank == [i \in Items |-> 0]

=============================================================================
