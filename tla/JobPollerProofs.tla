-------------------------- MODULE JobPollerProofs --------------------------
(***************************************************************************)
(* Proofs about JobPoller for every set of jobs, every listing order,      *)
(* every number of overlapping start() calls and every value of the caps.  *)
(***************************************************************************)
EXTENDS JobPoller, TLAPS

(* Sequences as insertion-ordered sets *)

\* Add(s, j) is s with j among its elements.
LEMMA AddElems ==
    ASSUME NEW s \in Seq(Jobs), NEW j \in Jobs
    PROVE  Add(s, j) \in Seq(Jobs) /\ Elems(Add(s, j)) = Elems(s) \cup {j}
<1>1. CASE j \in Elems(s)
    BY <1>1 DEF Add
<1>2. CASE j \notin Elems(s)
    <2>1. Add(s, j) = Append(s, j)
        BY <1>2 DEF Add
    <2>2. /\ Append(s, j) \in Seq(Jobs)
          /\ Len(Append(s, j)) = Len(s) + 1
          /\ \A i \in 1..Len(s) : Append(s, j)[i] = s[i]
          /\ Append(s, j)[Len(s) + 1] = j
        OBVIOUS
    <2>3. Elems(Append(s, j)) \subseteq Elems(s) \cup {j}
        BY <2>2 DEF Elems
    <2>4. Elems(s) \cup {j} \subseteq Elems(Append(s, j))
        BY <2>2 DEF Elems
    <2>. QED
        BY <2>1, <2>2, <2>3, <2>4
<1>. QED
    BY <1>1, <1>2

\* Eviction keeps a sub-collection of the seen jobs.
LEMMA EvictElems ==
    ASSUME NEW s \in Seq(Jobs)
    PROVE  Evict(s) \in Seq(Jobs) /\ Elems(Evict(s)) \subseteq Elems(s)
<1>1. CASE ~(Len(s) > MAX_SEEN_JOBS)
    BY <1>1 DEF Evict
<1>2. CASE Len(s) > MAX_SEEN_JOBS
    <2> DEFINE m == Len(s) - MAX_SEEN_JOBS + 1
    <2>1. Len(s) \in Nat /\ m \in 1..Len(s)
        BY <1>2, CapAssumption
    <2>2. Evict(s) = SubSeq(s, m, Len(s))
        BY <1>2 DEF Evict
    <2>3. /\ SubSeq(s, m, Len(s)) \in Seq(Jobs)
          /\ Len(SubSeq(s, m, Len(s))) = Len(s) - m + 1
          /\ \A i \in 1..(Len(s) - m + 1) : SubSeq(s, m, Len(s))[i] = s[m + i - 1]
        BY <2>1
    <2>4. \A i \in 1..(Len(s) - m + 1) : m + i - 1 \in 1..Len(s)
        BY <2>1
    <2>. QED
        BY <2>1, <2>2, <2>3, <2>4 DEF Elems
<1>. QED
    BY <1>1, <1>2

----------------------------------------------------------------------------
(* Type correctness *)

\* The invariant holds of a new agent.
LEMMA InitInv == Init => IInv
<1> SUFFICES ASSUME Init PROVE IInv
    OBVIOUS
<1> USE DEF Init
<1>1. TypeOK
    <2>1. chat \in [up : BOOLEAN, rooms : SUBSET Jobs]
        OBVIOUS
    <2>2. seenJobIds \in Seq(Jobs)
        OBVIOUS
    <2>3. pc \in [Callers -> PCs]
        BY DEF PCs
    <2>4. outcome \in [Jobs -> Outcomes]
        BY DEF Outcomes
    <2>. QED
        BY <2>1, <2>2, <2>3, <2>4 DEF TypeOK
<1>2. Seen = {}
    BY DEF Seen, Elems
<1>3. OnePoll /\ HandIsOpen /\ \A c \in Callers : pc[c] = "idle"
    BY DEF OnePoll, HandIsOpen, InHand, Working
<1>4. SeenIsSettled
    BY <1>2 DEF SeenIsSettled
<1>5. TriesCounted
    BY <1>3, CapAssumption DEF TriesCounted, Attempting
<1>6. OkIsReal /\ RunningHasTimer
    BY DEF OkIsReal, AcceptedIsReal, RunningHasTimer
<1>. QED
    BY <1>1, <1>3, <1>4, <1>5, <1>6 DEF IInv

\* Settle and AcceptFailure keep the types of what they change.
LEMMA SettleType ==
    ASSUME TypeOK, NEW j \in Jobs, NEW how \in Outcomes, Settle(j, how)
    PROVE  /\ seenJobIds' \in Seq(Jobs)
           /\ acceptFailures' \in [Jobs -> Nat]
           /\ outcome' \in [Jobs -> Outcomes]
BY AddElems DEF TypeOK, Settle, clearAcceptFailure

\* A failed attempt keeps the types of the retry memory.
LEMMA AcceptFailureType ==
    ASSUME TypeOK, NEW j \in Jobs, AcceptFailure(j)
    PROVE  /\ seenJobIds' \in Seq(Jobs)
           /\ acceptFailures' \in [Jobs -> Nat]
           /\ outcome' \in [Jobs -> Outcomes]
<1>1. CASE GiveUp(acceptFailures, j)
    BY <1>1, SettleType DEF AcceptFailure, Outcomes
<1>2. CASE ~GiveUp(acceptFailures, j)
    BY <1>2 DEF AcceptFailure, recordAcceptFailure, TypeOK
<1>. QED
    BY <1>1, <1>2

\* Every step keeps the types.
LEMMA TypeStep == ASSUME TypeOK, HandIsOpen, [Next]_vars PROVE TypeOK'
<1> USE DEF agentVars, pollVars, memoryVars, platformVars, auxVars
<1>1. ASSUME NEW s \in Starts, Start(s) PROVE TypeOK'
    BY <1>1 DEF Start, BeginCheck, SkipCheck, Goto, PCs, Callers, TypeOK
<1>2. ASSUME NEW s \in Starts, StartResumes(s) PROVE TypeOK'
    BY <1>2 DEF StartResumes, TypeOK
<1>3. ASSUME Stop PROVE TypeOK'
    BY <1>3 DEF Stop, TypeOK
<1>4. ASSUME LearnIAddress \/ ChatChanges PROVE TypeOK'
    <2>1. CASE LearnIAddress
        BY <2>1 DEF LearnIAddress, TypeOK
    <2>2. CASE ChatChanges
        <3>1. chat' \in [up : BOOLEAN, rooms : SUBSET Jobs]
            BY <2>2 DEF ChatChanges
        <3>. QED
            BY <2>2, <3>1 DEF ChatChanges, TypeOK
    <2>. QED
        BY <1>4, <2>1, <2>2
<1>5. ASSUME Tick PROVE TypeOK'
    BY <1>5 DEF Tick, BeginCheck, Goto, PCs, Callers, TypeOK
<1>6. ASSUME NEW h \in {"bare", "asks"}, setHandler(h) PROVE TypeOK'
    BY <1>6 DEF setHandler, TypeOK
<1>7. ASSUME NEW c \in Callers, PollStep(c) PROVE TypeOK'
    <2>1. CASE Fetched(c)
        BY <2>1 DEF Fetched, Window, Goto, PCs, TypeOK
    <2>2. CASE FetchFails(c)
        BY <2>2 DEF FetchFails, FinishCheck, Goto, PCs, TypeOK
    <2>3. CASE TakeJob(c)
        <3>1. PICK j \in todo[c] :
                /\ todo' = [todo EXCEPT ![c] = @ \ {j}]
                /\ \/ UNCHANGED <<pc, job, seenJobIds, acceptFailures, outcome>>
                   \/ Settle(j, "noted") /\ UNCHANGED <<pc, job>>
                   \/ /\ Goto(c, "deciding") /\ job' = [job EXCEPT ![c] = j]
                      /\ UNCHANGED <<seenJobIds, acceptFailures, outcome>>
            BY <2>3 DEF TakeJob
        <3>2. j \in Jobs
            BY DEF TypeOK
        <3>3. Settle(j, "noted") => /\ seenJobIds' \in Seq(Jobs)
                                    /\ acceptFailures' \in [Jobs -> Nat]
                                    /\ outcome' \in [Jobs -> Outcomes]
            BY <3>2, SettleType DEF Outcomes
        <3>4. /\ seenJobIds' \in Seq(Jobs) /\ acceptFailures' \in [Jobs -> Nat]
              /\ outcome' \in [Jobs -> Outcomes]
            BY <3>1, <3>3 DEF TypeOK
        <3>5. todo' \in [Callers -> SUBSET Jobs]
            BY <3>1 DEF TypeOK
        <3>6. pc' \in [Callers -> PCs] /\ job' \in [Callers -> Jobs \cup {None}]
            <4>1. "deciding" \in PCs
                BY DEF PCs, Working
            <4>2. pc' = pc \/ pc' = [pc EXCEPT ![c] = "deciding"]
                BY <3>1 DEF Goto
            <4>3. job' = job \/ job' = [job EXCEPT ![c] = j]
                BY <3>1
            <4>4. pc' \in [Callers -> PCs]
                BY <4>1, <4>2 DEF TypeOK
            <4>5. job' \in [Callers -> Jobs \cup {None}]
                BY <3>2, <4>3 DEF TypeOK
            <4>. QED
                BY <4>4, <4>5
        <3>. QED
            BY <2>3, <3>4, <3>5, <3>6 DEF TakeJob, TypeOK
    <2>4. CASE LeaveForLater(c)
        BY <2>4 DEF LeaveForLater, NextJob, Goto, PCs, TypeOK
    <2>5. CASE DecideReject(c)
        <3>1. job[c] \in Jobs
            BY <2>5 DEF DecideReject, HandIsOpen, InHand, Working
        <3>. QED
            BY <2>5, <3>1, SettleType
            DEF DecideReject, NextJob, Goto, PCs, Outcomes, TypeOK
    <2>6. CASE DecideAccept(c)
        <3>1. job[c] \in Jobs
            BY <2>6 DEF DecideAccept, HandIsOpen, InHand, Working
        <3>2. /\ seenJobIds' \in Seq(Jobs) /\ acceptFailures' \in [Jobs -> Nat]
              /\ outcome' \in [Jobs -> Outcomes]
            BY <2>6, <3>1, AcceptFailureType DEF DecideAccept, TypeOK
        <3>3. /\ pc' \in [Callers -> PCs] /\ job' \in [Callers -> Jobs \cup {None}]
              /\ reply' \in [Callers -> {"none", "ok", "refused"}]
              /\ UNCHANGED <<todo, fetched>>
            BY <2>6 DEF DecideAccept, NextJob, Goto, PCs, Working, TypeOK
        <3>4. tries' \in [Jobs -> Nat]
            BY <2>6, <3>1 DEF DecideAccept, TypeOK
        <3>. QED
            BY <2>6, <3>2, <3>3, <3>4 DEF DecideAccept, TypeOK
    <2>7. CASE Signed(c)
        <3>1. job[c] \in Jobs
            BY <2>7 DEF Signed, HandIsOpen, InHand, Working
        <3>. QED
            BY <2>7, <3>1 DEF Signed, Goto, PCs, Working, TypeOK
    <2>8. CASE AcceptOk(c)
        <3>1. job[c] \in Jobs
            BY <2>8 DEF AcceptOk, HandIsOpen, InHand, Working
        <3>2. /\ seenJobIds' \in Seq(Jobs)
              /\ acceptFailures' \in [Jobs -> Nat]
              /\ outcome' \in [Jobs -> Outcomes]
            <4>1. CASE Settle(job[c], "accepted")
                BY <3>1, <4>1, SettleType DEF Outcomes
            <4>2. CASE /\ seenJobIds' = Add(seenJobIds, job[c])
                       /\ outcome' = [outcome EXCEPT ![job[c]] = "accepted"]
                       /\ acceptFailures' = recordAcceptFailure(
                            clearAcceptFailure(acceptFailures, job[c]), job[c])
                <5>1. clearAcceptFailure(acceptFailures, job[c]) \in [Jobs -> Nat]
                    BY DEF TypeOK, clearAcceptFailure
                <5>2. acceptFailures' \in [Jobs -> Nat]
                    BY <3>1, <4>2, <5>1 DEF recordAcceptFailure
                <5>. QED
                    BY <3>1, <4>2, <5>2, AddElems DEF Outcomes, TypeOK
            <4>. QED
                BY <2>8, <4>1, <4>2 DEF AcceptOk
        <3>3. chat' \in [up : BOOLEAN, rooms : SUBSET Jobs]
            <4>1. chat.up \in BOOLEAN /\ chat.rooms \cup {job[c]} \in SUBSET Jobs
                BY <3>1 DEF TypeOK
            <4>2. [up |-> TRUE, rooms |-> chat.rooms \cup {job[c]}]
                     \in [up : BOOLEAN, rooms : SUBSET Jobs]
                BY <4>1
            <4>3. chat' = chat \/ chat' = [up |-> TRUE, rooms |-> chat.rooms \cup {job[c]}]
                BY <2>8 DEF AcceptOk
            <4>. QED
                BY <4>2, <4>3 DEF TypeOK
        <3>. QED
            BY <2>8, <3>1, <3>2, <3>3 DEF AcceptOk, NextJob, Goto, PCs, TypeOK
    <2>9. CASE AcceptFails(c)
        <3>1. job[c] \in Jobs
            BY <2>9 DEF AcceptFails, HandIsOpen, InHand, Working
        <3>. QED
            BY <2>9, <3>1, AcceptFailureType
            DEF AcceptFails, NextJob, Goto, PCs, TypeOK
    <2>10. CASE EndPoll(c)
        <3>1. seenJobIds' \in Seq(Jobs) /\ acceptFailures' \in [Jobs -> Nat]
            BY <2>10, EvictElems DEF EndPoll, pruneAcceptFailures, TypeOK
        <3>2. outcome' \in [Jobs -> Outcomes] /\ tries' \in [Jobs -> Nat]
            BY <2>10, <3>1 DEF EndPoll, Outcomes, TypeOK
        <3>. QED
            BY <2>10, <3>1, <3>2 DEF EndPoll, FinishCheck, Goto, PCs, TypeOK
    <2>. QED
        BY <1>7, <2>1, <2>2, <2>3, <2>4, <2>5, <2>6, <2>7, <2>8, <2>9, <2>10
        DEF PollStep
<1>8. ASSUME NEW j \in Jobs, JobPosted(j) \/ JobWithdrawn(j) PROVE TypeOK'
    <2>1. platform' \in [Jobs -> {"absent", "requested", "accepted", "closed"}]
        BY <1>8 DEF JobPosted, JobWithdrawn, TypeOK
    <2>2. UNCHANGED <<agentVars, pollVars, memoryVars, wire, auxVars>>
        BY <1>8 DEF JobPosted, JobWithdrawn
    <2>. QED
        BY <2>1, <2>2 DEF agentVars, pollVars, memoryVars, auxVars, TypeOK
<1>9. ASSUME NEW j \in Jobs, PlatformHandles(j) PROVE TypeOK'
    <2>1. reply' \in [Callers -> {"none", "ok", "refused"}]
        BY <1>9 DEF PlatformHandles, TypeOK
    <2>2. platform' \in [Jobs -> {"absent", "requested", "accepted", "closed"}]
        BY <1>9 DEF PlatformHandles, TypeOK
    <2>. QED
        BY <1>9, <2>1, <2>2 DEF PlatformHandles, TypeOK
<1>10. CASE UNCHANGED vars
    BY <1>10 DEF vars, TypeOK
<1>. QED
    BY <1>1, <1>2, <1>3, <1>4, <1>5, <1>6, <1>7, <1>8, <1>9, <1>10 DEF Next

----------------------------------------------------------------------------
(* The effects of the steps on the parts of the invariant *)

Alone(c) == \A d \in Callers : d # c => pc[d] = "idle"

\* A poll in flight is the only one.
LEMMA InFlightAlone ==
    ASSUME OnePoll, NEW c \in Callers, pc[c] # "idle"
    PROVE  polling /\ Alone(c)
BY DEF OnePoll, Alone

\* After a step of the only poll, it is where it went and still the only one.
LEMMA GotoEffect ==
    ASSUME TypeOK, NEW c \in Callers, Alone(c), NEW label \in PCs, Goto(c, label)
    PROVE  pc'[c] = label /\ \A d \in Callers : d # c => pc'[d] = "idle"
BY DEF TypeOK, Goto, Alone

\* With at most c outside "idle", and polling set if so, OnePoll holds.
LEMMA OnePollFromAlone ==
    ASSUME NEW c \in Callers, \A d \in Callers : d # c => pc'[d] = "idle",
           pc'[c] = "idle" \/ polling'
    PROVE  OnePoll'
BY DEF OnePoll

\* Settling an open job keeps the seen set equal to the settled jobs and
\* leaves the other jobs' decisions and counters alone.
LEMMA SettleEffect ==
    ASSUME TypeOK, SeenIsSettled, NEW j \in Jobs,
           NEW how \in Outcomes \ {"none"}, Settle(j, how)
    PROVE  /\ SeenIsSettled'
           /\ outcome'[j] = how /\ acceptFailures'[j] = 0
           /\ \A k \in Jobs \ {j} : /\ outcome'[k] = outcome[k]
                                    /\ acceptFailures'[k] = acceptFailures[k]
<1>1. Seen' = Seen \cup {j}
    BY AddElems DEF TypeOK, Settle, Seen
<1>2. /\ outcome'[j] = how
      /\ \A k \in Jobs \ {j} : outcome'[k] = outcome[k]
    BY DEF TypeOK, Settle
<1>3. /\ acceptFailures'[j] = 0
      /\ \A k \in Jobs \ {j} : acceptFailures'[k] = acceptFailures[k]
    BY DEF TypeOK, Settle, clearAcceptFailure
<1>4. SeenIsSettled'
    BY <1>1, <1>2 DEF SeenIsSettled
<1>. QED
    BY <1>2, <1>3, <1>4

\* A failed attempt either counts one more failure, still below the cap,
\* or settles the job as abandoned.
LEMMA AcceptFailureEffect ==
    ASSUME TypeOK, SeenIsSettled, TriesCounted, NEW j \in Jobs,
           outcome[j] = "none", AcceptFailure(j)
    PROVE  /\ SeenIsSettled'
           /\ \/ /\ outcome'[j] = "abandoned" /\ acceptFailures'[j] = 0
                 /\ acceptFailures[j] + 1 = MAX_ACCEPT_ATTEMPTS
              \/ /\ outcome'[j] = "none"
                 /\ acceptFailures'[j] = acceptFailures[j] + 1
                 /\ acceptFailures'[j] < MAX_ACCEPT_ATTEMPTS
           /\ \A k \in Jobs \ {j} : /\ outcome'[k] = outcome[k]
                                    /\ acceptFailures'[k] = acceptFailures[k]
<1>1. acceptFailures[j] \in Nat /\ acceptFailures[j] < MAX_ACCEPT_ATTEMPTS
    BY DEF TypeOK, TriesCounted
<1>2. CASE GiveUp(acceptFailures, j)
    <2>1. acceptFailures[j] + 1 = MAX_ACCEPT_ATTEMPTS
        BY <1>1, <1>2, CapAssumption DEF GiveUp
    <2>2. Settle(j, "abandoned") /\ "abandoned" \in Outcomes \ {"none"}
        BY <1>2 DEF AcceptFailure, Outcomes
    <2>. QED
        BY <2>1, <2>2, SettleEffect
<1>3. CASE ~GiveUp(acceptFailures, j)
    <2>1. /\ acceptFailures' = [acceptFailures EXCEPT ![j] = @ + 1]
          /\ UNCHANGED <<seenJobIds, outcome>>
        BY <1>3 DEF AcceptFailure, recordAcceptFailure
    <2>2. acceptFailures[j] + 1 < MAX_ACCEPT_ATTEMPTS
        BY <1>1, <1>3, CapAssumption DEF GiveUp
    <2>3. SeenIsSettled'
        BY <2>1 DEF SeenIsSettled, Seen, Elems
    <2>. QED
        BY <2>1, <2>2, <2>3 DEF TypeOK
<1>. QED
    BY <1>2, <1>3

\* The parts of the invariant that the poll loop and the platform share.
LoopInv == OnePoll /\ SeenIsSettled /\ HandIsOpen /\ TriesCounted /\ OkIsReal

\* When the only poll stands outside its working states nothing is in hand.
LEMMA NothingInHand ==
    ASSUME NEW c \in Callers, pc'[c] \in {"idle", "fetching", "loop"},
           \A d \in Callers : d # c => pc'[d] = "idle"
    PROVE  /\ HandIsOpen'
           /\ \A d \in Callers : ~InHand(d)'
           /\ \A j \in Jobs : ~\E d \in Callers : Attempting(d, j)'
BY DEF HandIsOpen, InHand, Working, Attempting

\* Every step of a poll in flight keeps the parts of the invariant about
\* the loop.
LEMMA LoopInvPollStep ==
    ASSUME TypeOK, LoopInv, NEW c \in Callers, PollStep(c)
    PROVE  LoopInv'
<1> USE DEF agentVars, pollVars, memoryVars, platformVars, auxVars
<1>1. pc[c] # "idle"
    BY DEF PollStep, Fetched, FetchFails, TakeJob, LeaveForLater, DecideReject,
           DecideAccept, Signed, AcceptOk, AcceptFails, EndPoll
<1>2. polling /\ Alone(c)
    BY <1>1, InFlightAlone DEF LoopInv
<1>3. pc[c] \in Working => job[c] \in Jobs /\ outcome[job[c]] = "none"
    BY DEF LoopInv, HandIsOpen, InHand
\* The job in hand is attempted exactly when the poll signs or accepts.
<1>4. \A j \in Jobs : (\E d \in Callers : Attempting(d, j)) <=> Attempting(c, j)
    BY <1>2 DEF Attempting, Alone
<1>5. CASE Fetched(c)
    <2>1. pc'[c] = "loop" /\ \A d \in Callers : d # c => pc'[d] = "idle"
        BY <1>2, <1>5, GotoEffect DEF Fetched, PCs
    <2>2. \A j \in Jobs : ~Attempting(c, j)
        BY <1>5 DEF Fetched, Attempting
    <2>3. OnePoll'
        BY <1>2, <1>5, <2>1, OnePollFromAlone DEF Fetched
    <2>4. SeenIsSettled' /\ OkIsReal'
        <3>1. \A d \in Callers : reply'[d] # "ok"
            BY <1>2, <1>5 DEF Fetched, LoopInv, OkIsReal, Alone
        <3>. QED
            BY <1>5, <3>1 DEF Fetched, LoopInv, SeenIsSettled, Seen, Elems, OkIsReal,
                              AcceptedIsReal
    <2>5. TriesCounted'
        BY <1>4, <1>5, <2>1, <2>2, NothingInHand DEF Fetched, LoopInv, TriesCounted
    <2>. QED
        BY <2>1, <2>3, <2>4, <2>5, NothingInHand DEF LoopInv
<1>6. CASE FetchFails(c)
    <2>1. pc'[c] = "idle" /\ \A d \in Callers : d # c => pc'[d] = "idle"
        BY <1>2, <1>6, GotoEffect DEF FetchFails, FinishCheck, PCs
    <2>2. \A j \in Jobs : ~Attempting(c, j)
        BY <1>6 DEF FetchFails, Attempting
    <2>3. OnePoll'
        BY <2>1, OnePollFromAlone
    <2>4. SeenIsSettled' /\ OkIsReal'
        <3>1. \A d \in Callers : reply'[d] # "ok"
            BY <1>2, <1>6 DEF FetchFails, FinishCheck, LoopInv, OkIsReal, Alone
        <3>. QED
            BY <1>6, <3>1 DEF FetchFails, LoopInv, SeenIsSettled, Seen, Elems,
                              OkIsReal, AcceptedIsReal
    <2>5. TriesCounted'
        BY <1>4, <1>6, <2>1, <2>2, NothingInHand
        DEF FetchFails, LoopInv, TriesCounted
    <2>. QED
        BY <2>1, <2>3, <2>4, <2>5, NothingInHand DEF LoopInv
<1>7. CASE TakeJob(c)
    <2>1. PICK j \in todo[c] :
            \/ UNCHANGED <<pc, job, seenJobIds, acceptFailures, outcome>>
            \/ Settle(j, "noted") /\ j \notin Seen /\ UNCHANGED <<pc, job>>
            \/ /\ j \notin Seen /\ Goto(c, "deciding")
               /\ job' = [job EXCEPT ![c] = j]
               /\ UNCHANGED <<seenJobIds, acceptFailures, outcome>>
        BY <1>7 DEF TakeJob
    <2>2. j \in Jobs
        BY DEF TypeOK
    <2>3. /\ pc[c] = "loop"
          /\ UNCHANGED <<polling, platform, reply, tries>>
        BY <1>7 DEF TakeJob
    <2>4. \A k \in Jobs : ~Attempting(c, k)
        BY <2>3 DEF Attempting
    <2>5. CASE UNCHANGED <<pc, job, seenJobIds, acceptFailures, outcome>>
        BY <2>3, <2>5 DEF LoopInv, OnePoll, SeenIsSettled, Seen, Elems, HandIsOpen,
            InHand, TriesCounted, Attempting, OkIsReal, AcceptedIsReal
    <2>6. CASE Settle(j, "noted") /\ j \notin Seen /\ UNCHANGED <<pc, job>>
        <3>1. "noted" \in Outcomes \ {"none"} /\ outcome[j] = "none"
            BY <2>2, <2>6 DEF Outcomes, LoopInv, SeenIsSettled
        <3>2. /\ SeenIsSettled'
              /\ outcome'[j] = "noted" /\ acceptFailures'[j] = 0
              /\ \A k \in Jobs \ {j} : /\ outcome'[k] = outcome[k]
                                       /\ acceptFailures'[k] = acceptFailures[k]
            BY <2>2, <2>6, <3>1, SettleEffect DEF LoopInv
        <3>3. pc'[c] = "loop" /\ \A d \in Callers : d # c => pc'[d] = "idle"
            BY <1>2, <2>3, <2>6 DEF Alone
        <3>4. OnePoll'
            BY <1>2, <2>3, <3>3, OnePollFromAlone
        <3>5. TriesCounted'
            BY <1>4, <2>3, <2>4, <3>2, <3>3, NothingInHand, CapAssumption
            DEF LoopInv, TriesCounted
        <3>6. OkIsReal'
            BY <2>3, <2>6, <3>2 DEF LoopInv, OkIsReal, AcceptedIsReal
        <3>. QED
            BY <3>2, <3>3, <3>4, <3>5, <3>6, NothingInHand DEF LoopInv
    <2>7. CASE /\ j \notin Seen /\ Goto(c, "deciding")
               /\ job' = [job EXCEPT ![c] = j]
               /\ UNCHANGED <<seenJobIds, acceptFailures, outcome>>
        <3>1. /\ pc'[c] = "deciding" /\ \A d \in Callers : d # c => pc'[d] = "idle"
              /\ job'[c] = j /\ outcome'[j] = "none"
            BY <1>2, <2>2, <2>7, GotoEffect
            DEF PCs, Working, TypeOK, LoopInv, SeenIsSettled
        <3>2. OnePoll' /\ SeenIsSettled' /\ OkIsReal'
            BY <1>2, <2>3, <2>7, <3>1, OnePollFromAlone
            DEF LoopInv, SeenIsSettled, Seen, Elems, OkIsReal, AcceptedIsReal, Goto,
                TypeOK, Alone
        <3>3. HandIsOpen'
            BY <2>2, <3>1 DEF HandIsOpen, InHand, Working
        <3>4. \A k \in Jobs : ~\E d \in Callers : Attempting(d, k)'
            BY <3>1 DEF Attempting
        <3>5. TriesCounted'
            BY <1>4, <2>3, <2>4, <2>7, <3>4 DEF LoopInv, TriesCounted
        <3>. QED
            BY <3>2, <3>3, <3>5 DEF LoopInv
    <2>. QED
        BY <2>1, <2>5, <2>6, <2>7
\* The steps that are done with the job in hand and return to the loop.
<1>8. ASSUME NextJob(c), UNCHANGED <<polling, platform>>
      PROVE  /\ pc'[c] = "loop" /\ \A d \in Callers : d # c => pc'[d] = "idle"
             /\ OnePoll'
             /\ \A d \in Callers : reply'[d] = "ok" =>
                  pc'[d] = "accepting" /\ platform'[job'[d]] = "accepted"
    <2>1. pc'[c] = "loop" /\ \A d \in Callers : d # c => pc'[d] = "idle"
        BY <1>2, <1>8, GotoEffect DEF NextJob, PCs
    <2>2. \A d \in Callers : reply'[d] # "ok"
        BY <1>2, <1>8 DEF NextJob, TypeOK, LoopInv, OkIsReal, Alone
    <2>. QED
        BY <1>2, <1>8, <2>1, <2>2, OnePollFromAlone
<1>9. CASE LeaveForLater(c)
    <2>1. NextJob(c) /\ UNCHANGED <<polling, platform, seenJobIds, acceptFailures,
                                    outcome, tries>>
        BY <1>9 DEF LeaveForLater
    <2>2. \A k \in Jobs : ~Attempting(c, k)
        BY <1>9 DEF LeaveForLater, Attempting
    <2>3. TriesCounted'
        BY <1>4, <1>8, <2>1, <2>2, NothingInHand DEF LoopInv, TriesCounted
    <2>4. SeenIsSettled' /\ AcceptedIsReal'
        BY <2>1 DEF LoopInv, SeenIsSettled, Seen, Elems, OkIsReal, AcceptedIsReal
    <2>. QED
        BY <1>8, <2>1, <2>3, <2>4, NothingInHand DEF LoopInv, OkIsReal
<1>10. CASE DecideReject(c)
    <2>1. NextJob(c) /\ UNCHANGED <<polling, platform, tries>>
        BY <1>10 DEF DecideReject
    <2>2. \A k \in Jobs : ~Attempting(c, k)
        BY <1>10 DEF DecideReject, Attempting
    <2>3. job[c] \in Jobs /\ "rejected" \in Outcomes \ {"none"}
        BY <1>3, <1>10 DEF DecideReject, Working, Outcomes
    <2>4. /\ SeenIsSettled'
          /\ outcome'[job[c]] = "rejected" /\ acceptFailures'[job[c]] = 0
          /\ \A k \in Jobs \ {job[c]} : /\ outcome'[k] = outcome[k]
                                        /\ acceptFailures'[k] = acceptFailures[k]
        BY <1>10, <2>3, SettleEffect DEF DecideReject, LoopInv
    <2>5. TriesCounted'
        BY <1>4, <1>8, <2>1, <2>2, <2>3, <2>4, NothingInHand, CapAssumption
        DEF LoopInv, TriesCounted
    <2>6. AcceptedIsReal'
        BY <2>1, <2>3, <2>4 DEF LoopInv, OkIsReal, AcceptedIsReal
    <2>. QED
        BY <1>8, <2>1, <2>4, <2>5, <2>6, NothingInHand DEF LoopInv, OkIsReal
<1>11. CASE DecideAccept(c)
    <2> DEFINE j == job[c]
    <2>1. /\ pc[c] = "deciding" /\ j \in Jobs /\ outcome[j] = "none"
          /\ UNCHANGED <<polling, platform>>
        BY <1>3, <1>11 DEF DecideAccept, Working
    <2>2. \A k \in Jobs : ~Attempting(c, k)
        BY <2>1 DEF Attempting
    <2>3. /\ tries[j] = acceptFailures[j] /\ tries'[j] = acceptFailures[j] + 1
          /\ \A k \in Jobs \ {j} : tries'[k] = tries[k]
        BY <1>4, <1>11, <2>1, <2>2 DEF DecideAccept, LoopInv, TriesCounted, TypeOK
    <2>4. acceptFailures \in [Jobs -> Nat] /\ acceptFailures[j] < MAX_ACCEPT_ATTEMPTS
        BY <2>1 DEF LoopInv, TriesCounted, TypeOK
    <2>5. CASE NextJob(c) /\ AcceptFailure(j)
        <3>1. /\ SeenIsSettled'
              /\ \/ /\ outcome'[j] = "abandoned" /\ acceptFailures'[j] = 0
                    /\ acceptFailures[j] + 1 = MAX_ACCEPT_ATTEMPTS
                 \/ /\ outcome'[j] = "none"
                    /\ acceptFailures'[j] = acceptFailures[j] + 1
                    /\ acceptFailures'[j] < MAX_ACCEPT_ATTEMPTS
              /\ \A k \in Jobs \ {j} : /\ outcome'[k] = outcome[k]
                                       /\ acceptFailures'[k] = acceptFailures[k]
            BY <2>1, <2>5, AcceptFailureEffect DEF LoopInv
        <3>2. \A k \in Jobs : ~\E d \in Callers : Attempting(d, k)'
            BY <1>8, <2>1, <2>5, NothingInHand
        <3>3. TriesCounted'
            BY <1>4, <2>2, <2>3, <2>4, <3>1, <3>2, CapAssumption
            DEF LoopInv, TriesCounted
        <3>4. AcceptedIsReal'
            BY <2>1, <3>1 DEF LoopInv, OkIsReal, AcceptedIsReal
        <3>. QED
            BY <1>8, <2>1, <2>5, <3>1, <3>3, <3>4, NothingInHand DEF LoopInv, OkIsReal
    <2>6. CASE /\ Goto(c, "signing")
               /\ UNCHANGED <<job, reply, seenJobIds, acceptFailures, outcome>>
        <3>1. pc'[c] = "signing" /\ \A d \in Callers : d # c => pc'[d] = "idle"
            BY <1>2, <2>6, GotoEffect DEF PCs, Working
        <3>2. OnePoll' /\ SeenIsSettled' /\ HandIsOpen'
            BY <1>2, <2>1, <2>6, <3>1, OnePollFromAlone
            DEF LoopInv, SeenIsSettled, Seen, Elems, HandIsOpen, InHand, Working
        <3>3. \A k \in Jobs : (\E d \in Callers : Attempting(d, k)') <=> k = j
            BY <2>1, <2>6, <3>1 DEF Attempting
        <3>4. TriesCounted'
            BY <1>4, <2>2, <2>3, <2>4, <2>6, <3>3, CapAssumption
            DEF LoopInv, TriesCounted
        <3>5. \A d \in Callers : reply'[d] # "ok"
            BY <1>2, <2>1, <2>6 DEF LoopInv, OkIsReal, Alone
        <3>6. OkIsReal'
            BY <2>1, <2>6, <3>5 DEF LoopInv, OkIsReal, AcceptedIsReal
        <3>. QED
            BY <3>2, <3>4, <3>6 DEF LoopInv
    <2>. QED
        BY <1>11, <2>5, <2>6 DEF DecideAccept
<1>12. CASE Signed(c)
    <2>1. /\ pc[c] = "signing" /\ job[c] \in Jobs /\ outcome[job[c]] = "none"
          /\ UNCHANGED <<polling, platform, job, reply, seenJobIds, acceptFailures,
                         outcome, tries>>
        BY <1>3, <1>12 DEF Signed, Working
    <2>2. pc'[c] = "accepting" /\ \A d \in Callers : d # c => pc'[d] = "idle"
        BY <1>2, <1>12, GotoEffect DEF Signed, PCs, Working
    <2>3. OnePoll' /\ SeenIsSettled' /\ HandIsOpen'
        BY <1>2, <2>1, <2>2, OnePollFromAlone
        DEF LoopInv, SeenIsSettled, Seen, Elems, HandIsOpen, InHand, Working
    <2>4. \A k \in Jobs : (\E d \in Callers : Attempting(d, k)') <=> Attempting(c, k)
        BY <2>1, <2>2 DEF Attempting
    <2>5. TriesCounted'
        BY <1>4, <2>1, <2>4 DEF LoopInv, TriesCounted
    <2>6. OkIsReal'
        BY <1>2, <2>1, <2>2 DEF LoopInv, OkIsReal, AcceptedIsReal, Alone
    <2>. QED
        BY <2>3, <2>5, <2>6 DEF LoopInv
<1>13. CASE AcceptOk(c)
    <2> DEFINE j == job[c]
    <2>1. /\ pc[c] = "accepting" /\ reply[c] = "ok" /\ j \in Jobs
          /\ outcome[j] = "none" /\ NextJob(c)
          /\ UNCHANGED <<polling, platform, tries>>
        BY <1>3, <1>13 DEF AcceptOk, Working
    <2>2. platform[j] = "accepted"
        BY <2>1 DEF LoopInv, OkIsReal
    <2>3. /\ SeenIsSettled'
          /\ outcome'[j] = "accepted" /\ acceptFailures'[j] \in {0, 1}
          /\ \A k \in Jobs \ {j} : /\ outcome'[k] = outcome[k]
                                   /\ acceptFailures'[k] = acceptFailures[k]
        <3>1. CASE Settle(j, "accepted")
            BY <2>1, <3>1, SettleEffect DEF LoopInv, Outcomes
        <3>2. CASE /\ seenJobIds' = Add(seenJobIds, j)
                   /\ outcome' = [outcome EXCEPT ![j] = "accepted"]
                   /\ acceptFailures' = recordAcceptFailure(
                        clearAcceptFailure(acceptFailures, j), j)
            <4>1. Seen' = Seen \cup {j}
                BY <2>1, <3>2, AddElems DEF TypeOK, Seen
            <4>2. /\ outcome'[j] = "accepted"
                  /\ \A k \in Jobs \ {j} : outcome'[k] = outcome[k]
                BY <2>1, <3>2 DEF TypeOK
            <4> DEFINE f == clearAcceptFailure(acceptFailures, j)
            <4>3. /\ f \in [Jobs -> Nat] /\ f[j] = 0
                  /\ \A k \in Jobs \ {j} : f[k] = acceptFailures[k]
                BY <2>1 DEF TypeOK, clearAcceptFailure
            <4>4. /\ acceptFailures'[j] = 1
                  /\ \A k \in Jobs \ {j} : acceptFailures'[k] = acceptFailures[k]
                <5> HIDE DEF f
                <5>1. acceptFailures' = [f EXCEPT ![j] = @ + 1]
                    BY <3>2 DEF f, recordAcceptFailure
                <5>. QED
                    BY <2>1, <4>3, <5>1
            <4>5. SeenIsSettled'
                BY <2>1, <4>1, <4>2 DEF LoopInv, SeenIsSettled
            <4>. QED
                BY <4>2, <4>4, <4>5
        <3>. QED
            BY <1>13, <3>1, <3>2 DEF AcceptOk
    <2>4. \A k \in Jobs : ~\E d \in Callers : Attempting(d, k)'
        BY <1>8, <2>1, NothingInHand
    <2>5. \A k \in Jobs \ {j} : ~Attempting(c, k)
        BY DEF Attempting
    <2>6. TriesCounted'
        BY <1>4, <2>1, <2>3, <2>4, <2>5, CapAssumption DEF LoopInv, TriesCounted
    <2>7. AcceptedIsReal'
        BY <2>1, <2>2, <2>3 DEF LoopInv, OkIsReal, AcceptedIsReal
    <2>. QED
        BY <1>8, <2>1, <2>3, <2>6, <2>7, NothingInHand DEF LoopInv, OkIsReal
<1>14. CASE AcceptFails(c)
    <2> DEFINE j == job[c]
    <2>1. /\ pc[c] \in {"signing", "accepting"} /\ j \in Jobs
          /\ outcome[j] = "none" /\ NextJob(c) /\ AcceptFailure(j)
          /\ UNCHANGED <<polling, platform, tries>>
        BY <1>3, <1>14 DEF AcceptFails, Working
    <2>2. /\ SeenIsSettled'
          /\ \/ /\ outcome'[j] = "abandoned" /\ acceptFailures'[j] = 0
                /\ acceptFailures[j] + 1 = MAX_ACCEPT_ATTEMPTS
             \/ /\ outcome'[j] = "none"
                /\ acceptFailures'[j] = acceptFailures[j] + 1
                /\ acceptFailures'[j] < MAX_ACCEPT_ATTEMPTS
          /\ \A k \in Jobs \ {j} : /\ outcome'[k] = outcome[k]
                                   /\ acceptFailures'[k] = acceptFailures[k]
        BY <2>1, AcceptFailureEffect DEF LoopInv
    <2>3. \A k \in Jobs : ~\E d \in Callers : Attempting(d, k)'
        BY <1>8, <2>1, NothingInHand
    <2>4. Attempting(c, j) /\ \A k \in Jobs \ {j} : ~Attempting(c, k)
        BY <2>1 DEF Attempting
    <2>5. tries[j] = acceptFailures[j] + 1
        BY <1>4, <2>1, <2>4 DEF LoopInv, TriesCounted
    <2>6. TriesCounted'
        BY <1>4, <2>1, <2>2, <2>3, <2>4, <2>5, CapAssumption DEF LoopInv, TriesCounted
    <2>7. AcceptedIsReal'
        BY <2>1, <2>2 DEF LoopInv, OkIsReal, AcceptedIsReal
    <2>. QED
        BY <1>8, <2>1, <2>2, <2>6, <2>7, NothingInHand DEF LoopInv, OkIsReal
<1>15. CASE EndPoll(c)
    <2> DEFINE gone == Seen \ Elems(seenJobIds')
    <2>1. /\ pc[c] = "loop" /\ FinishCheck(c) /\ UNCHANGED platform
          /\ seenJobIds' = Evict(seenJobIds)
          /\ \A k \in Jobs :
               /\ acceptFailures'[k] = IF k \in fetched[c] THEN acceptFailures[k] ELSE 0
               /\ outcome'[k] = IF k \in gone THEN "none" ELSE outcome[k]
               /\ tries'[k] = IF k \in fetched[c] /\ k \notin gone
                                THEN tries[k] ELSE acceptFailures'[k]
        BY <1>15 DEF EndPoll, pruneAcceptFailures
    <2>2. pc'[c] = "idle" /\ \A d \in Callers : d # c => pc'[d] = "idle"
        BY <1>2, <2>1, GotoEffect DEF FinishCheck, PCs
    <2>3. OnePoll'
        BY <2>2, OnePollFromAlone
    <2>4. SeenIsSettled'
        <3>1. Seen' \subseteq Seen /\ Seen' = Elems(seenJobIds')
            BY <2>1, EvictElems DEF Seen, TypeOK
        <3>. QED
            BY <2>1, <3>1 DEF LoopInv, SeenIsSettled
    <2>5. \A k \in Jobs : ~Attempting(c, k)
        BY <2>1 DEF Attempting
    <2>6. \A k \in Jobs : ~\E d \in Callers : Attempting(d, k)'
        BY <2>2, NothingInHand
    <2>7. TriesCounted'
        <3> SUFFICES ASSUME NEW k \in Jobs
                     PROVE  /\ acceptFailures'[k] < MAX_ACCEPT_ATTEMPTS
                            /\ tries'[k] <= MAX_ACCEPT_ATTEMPTS
                            /\ outcome'[k] # "none" => acceptFailures'[k] <= 1
                            /\ outcome'[k] = "none" => tries'[k] = acceptFailures'[k]
            BY <2>6 DEF TriesCounted
        <3>1. acceptFailures[k] \in Nat /\ tries[k] \in Nat
            BY DEF TypeOK
        <3>2. /\ acceptFailures[k] < MAX_ACCEPT_ATTEMPTS
              /\ tries[k] <= MAX_ACCEPT_ATTEMPTS
              /\ outcome[k] # "none" => acceptFailures[k] <= 1
              /\ outcome[k] = "none" => tries[k] = acceptFailures[k]
            BY <1>4, <2>5 DEF LoopInv, TriesCounted
        <3>. QED
            BY <2>1, <3>1, <3>2, CapAssumption
    <2>8. OkIsReal'
        <3>1. \A d \in Callers : reply'[d] # "ok"
            BY <1>2, <2>1 DEF FinishCheck, LoopInv, OkIsReal, Alone
        <3>. QED
            BY <2>1, <3>1 DEF LoopInv, OkIsReal, AcceptedIsReal
    <2>. QED
        BY <2>2, <2>3, <2>4, <2>7, <2>8, NothingInHand DEF LoopInv
<1>. QED
    BY <1>5, <1>6, <1>7, <1>9, <1>10, <1>11, <1>12, <1>13, <1>14, <1>15 DEF PollStep

\* The calls, the timer, the chat and the platform.
LEMMA LoopInvOtherStep ==
    ASSUME TypeOK, LoopInv, [Next]_vars, ~\E c \in Callers : PollStep(c)
    PROVE  LoopInv'
<1> USE DEF agentVars, pollVars, memoryVars, platformVars, auxVars
<1>1. ASSUME UNCHANGED <<polling, pollVars, seenJobIds, acceptFailures, platform,
                         auxVars>>
      PROVE  LoopInv'
    BY <1>1 DEF LoopInv, OnePoll, SeenIsSettled, Seen, Elems, HandIsOpen, InHand,
                TriesCounted, Attempting, OkIsReal, AcceptedIsReal
<1>2. ASSUME NEW c \in Callers, BeginCheck(c)
      PROVE  LoopInv'
    <2>1. \A d \in Callers : pc[d] = "idle"
        BY <1>2 DEF BeginCheck, LoopInv, OnePoll
    <2>2. pc'[c] = "fetching" /\ \A d \in Callers : d # c => pc'[d] = "idle"
        BY <1>2, <2>1, GotoEffect DEF BeginCheck, Alone, PCs
    <2>3. OnePoll'
        BY <1>2, <2>2, OnePollFromAlone DEF BeginCheck
    <2>4. TriesCounted'
        BY <1>2, <2>1, <2>2, NothingInHand
        DEF BeginCheck, LoopInv, TriesCounted, Attempting
    <2>5. SeenIsSettled' /\ OkIsReal'
        BY <1>2, <2>1 DEF BeginCheck, LoopInv, SeenIsSettled, Seen, Elems, OkIsReal,
                          AcceptedIsReal
    <2>. QED
        BY <2>2, <2>3, <2>4, <2>5, NothingInHand DEF LoopInv
<1>3. ASSUME NEW s \in Starts, Start(s) \/ StartResumes(s)
      PROVE  LoopInv'
    BY <1>1, <1>2, <1>3 DEF Start, StartResumes, SkipCheck, Callers
<1>4. CASE Stop \/ LearnIAddress \/ ChatChanges
    BY <1>1, <1>4 DEF Stop, LearnIAddress, ChatChanges
<1>5. CASE Tick
    BY <1>2, <1>5 DEF Tick, Callers
<1>6. ASSUME NEW h \in {"bare", "asks"}, setHandler(h)
      PROVE  LoopInv'
    BY <1>1, <1>6 DEF setHandler
<1>7. ASSUME NEW j \in Jobs, JobPosted(j) \/ JobWithdrawn(j) \/ PlatformHandles(j)
      PROVE  LoopInv'
    <2>1. UNCHANGED <<polling, pc, job, seenJobIds, acceptFailures, outcome, tries>>
        BY <1>7 DEF JobPosted, JobWithdrawn, PlatformHandles
    <2>2. \A k \in Jobs : platform[k] = "accepted" => platform'[k] = "accepted"
        BY <1>7 DEF JobPosted, JobWithdrawn, PlatformHandles, TypeOK
    <2>3. \A d \in Callers : reply'[d] = "ok" =>
            \/ reply[d] = "ok"
            \/ pc[d] = "accepting" /\ job[d] = j /\ platform'[j] = "accepted"
        <3>1. CASE JobPosted(j) \/ JobWithdrawn(j)
            BY <3>1 DEF JobPosted, JobWithdrawn
        <3>2. CASE PlatformHandles(j)
            BY <3>2 DEF PlatformHandles, TypeOK
        <3>. QED
            BY <1>7, <3>1, <3>2
    <2>4. OnePoll' /\ SeenIsSettled' /\ HandIsOpen'
        BY <2>1 DEF LoopInv, OnePoll, SeenIsSettled, Seen, Elems, HandIsOpen, InHand
    <2>5. TriesCounted'
        BY <2>1 DEF LoopInv, TriesCounted, Attempting
    <2>6. \A d \in Callers : pc[d] = "accepting" => job[d] \in Jobs
        BY DEF LoopInv, HandIsOpen, InHand, Working
    <2>7. OkIsReal'
        BY <2>1, <2>2, <2>3, <2>6 DEF LoopInv, OkIsReal, AcceptedIsReal
    <2>. QED
        BY <2>4, <2>5, <2>7 DEF LoopInv
<1>8. CASE UNCHANGED vars
    BY <1>1, <1>8 DEF vars
<1>. QED
    BY <1>3, <1>4, <1>5, <1>6, <1>7, <1>8 DEF Next

\* Every step keeps a running agent's timer.
LEMMA TimerStep ==
    ASSUME TypeOK, RunningHasTimer, [Next]_vars
    PROVE  RunningHasTimer'
<1> USE DEF agentVars, pollVars, memoryVars, platformVars, auxVars, RunningHasTimer
<1>1. ASSUME UNCHANGED <<running, pollTimer, timers, start>>
      PROVE  RunningHasTimer'
    BY <1>1
<1>2. ASSUME NEW s \in Starts, Start(s) PROVE RunningHasTimer'
    <2>1. start'[s] # "none"
        BY <1>2 DEF Start, TypeOK
    <2>. QED
        BY <2>1
<1>3. ASSUME NEW s \in Starts, StartResumes(s) PROVE RunningHasTimer'
    BY <1>3 DEF StartResumes
<1>4. CASE Stop
    BY <1>4 DEF Stop
<1>5. ASSUME NEW c \in Callers, FinishCheck(c) PROVE RunningHasTimer'
    <2>1. CASE c \in Starts
        <3>1. start'[c] = "resume"
            BY <1>5, <2>1 DEF FinishCheck, TypeOK
        <3>. QED
            BY <2>1, <3>1
    <2>2. CASE c \notin Starts
        BY <1>1, <1>5, <2>2 DEF FinishCheck
    <2>. QED
        BY <2>1, <2>2
<1>6. ASSUME NEW c \in Callers, PollStep(c) PROVE RunningHasTimer'
    BY <1>1, <1>5, <1>6
    DEF PollStep, Fetched, FetchFails, TakeJob, LeaveForLater, DecideReject,
        DecideAccept, Signed, AcceptOk, AcceptFails, EndPoll
<1>7. CASE LearnIAddress \/ Tick \/ ChatChanges \/ UNCHANGED vars
    BY <1>1, <1>7 DEF LearnIAddress, Tick, ChatChanges, vars
<1>8. ASSUME NEW h \in {"bare", "asks"}, setHandler(h) PROVE RunningHasTimer'
    BY <1>1, <1>8 DEF setHandler
<1>9. ASSUME NEW j \in Jobs, JobPosted(j) \/ JobWithdrawn(j) \/ PlatformHandles(j)
      PROVE  RunningHasTimer'
    BY <1>1, <1>9 DEF JobPosted, JobWithdrawn, PlatformHandles
<1>. QED
    BY <1>2, <1>3, <1>4, <1>6, <1>7, <1>8, <1>9 DEF Next

----------------------------------------------------------------------------
(* The invariant and what follows from it *)

\* Every step of the job loop keeps the invariant.
LEMMA Inductive == IInv /\ [Next]_vars => IInv'
<1> SUFFICES ASSUME IInv, [Next]_vars PROVE IInv'
    OBVIOUS
<1>1. TypeOK /\ LoopInv /\ RunningHasTimer
    BY DEF IInv, LoopInv
<1>2. TypeOK'
    BY <1>1, TypeStep DEF LoopInv
<1>3. LoopInv'
    <2>1. CASE \E c \in Callers : PollStep(c)
        BY <1>1, <2>1, LoopInvPollStep
    <2>2. CASE ~\E c \in Callers : PollStep(c)
        BY <1>1, <2>2, LoopInvOtherStep
    <2>. QED
        BY <2>1, <2>2
<1>4. RunningHasTimer'
    BY <1>1, TimerStep
<1>. QED
    BY <1>2, <1>3, <1>4 DEF IInv, LoopInv

(* The inductive invariant of the job loop holds throughout.                 *)
THEOREM Invariance == Spec => []IInv
BY InitInv, Inductive, PTL DEF Spec

(* Type correctness of the job loop's state.                                 *)
THEOREM TypeCorrect == Spec => []TypeOK
<1>1. IInv => TypeOK
    BY DEF IInv
<1>. QED
    BY <1>1, Invariance, PTL

(* checkForJobs() never works on a job that has been settled.                *)
THEOREM SettledStaysSettled == Spec => []NoReprocessing
<1>1. IInv => NoReprocessing
    BY DEF IInv, HandIsOpen, NoReprocessing
<1>. QED
    BY <1>1, Invariance, PTL

(* recordAcceptFailure() bounds the attempts on every job.                   *)
THEOREM RetriesBounded == Spec => []RetryBudget
<1>1. IInv => RetryBudget
    BY DEF IInv, TriesCounted, RetryBudget
<1>. QED
    BY <1>1, Invariance, PTL

(* job:accepted is emitted only for jobs the platform accepted.              *)
THEOREM AcceptedOnPlatform == Spec => []AcceptedIsReal
<1>1. IInv => AcceptedIsReal
    BY DEF IInv, OkIsReal
<1>. QED
    BY <1>1, Invariance, PTL

(* A running agent with no start() in flight holds a live interval.          *)
THEOREM RunningPolls == Spec => []RunningHasTimer
<1>1. IInv => RunningHasTimer
    BY DEF IInv
<1>. QED
    BY <1>1, Invariance, PTL

----------------------------------------------------------------------------
(* The job loop implements the ledger *)

\* Every step of the job loop is a step of the ledger, or leaves it alone.
LEMMA LedgerStep ==
    ASSUME IInv, [Next]_vars
    PROVE  [Ledger!Next]_(Ledger!ledgerVars)
<1> USE DEF agentVars, pollVars, memoryVars, platformVars, auxVars, Ledger!ledgerVars
<1>1. ASSUME UNCHANGED <<outcome, tries>>
      PROVE  [Ledger!Next]_(Ledger!ledgerVars)
    BY <1>1
<1>2. ASSUME NEW j \in Jobs, NEW how \in {"accepted", "rejected", "abandoned", "noted"},
             Ledger!Decide(j, how)
      PROVE  [Ledger!Next]_(Ledger!ledgerVars)
    BY <1>2 DEF Ledger!Next
<1>3. TypeOK /\ SeenIsSettled /\ HandIsOpen /\ TriesCounted /\ OnePoll
    BY DEF IInv
<1>4. ASSUME NEW c \in Callers, TakeJob(c)
      PROVE  [Ledger!Next]_(Ledger!ledgerVars)
    <2>1. PICK j \in todo[c] :
            UNCHANGED outcome \/ (j \notin Seen /\ Settle(j, "noted"))
        BY <1>4 DEF TakeJob
    <2>2. j \in Jobs /\ UNCHANGED tries
        BY <1>3, <1>4 DEF TypeOK, TakeJob
    <2>3. CASE j \notin Seen /\ Settle(j, "noted")
        BY <1>2, <1>3, <2>2, <2>3 DEF Settle, SeenIsSettled, Ledger!Decide
    <2>. QED
        BY <1>1, <2>1, <2>2, <2>3
<1>5. ASSUME NEW c \in Callers, DecideReject(c)
      PROVE  [Ledger!Next]_(Ledger!ledgerVars)
    <2>1. job[c] \in Jobs /\ outcome[job[c]] = "none"
        BY <1>3, <1>5 DEF DecideReject, HandIsOpen, InHand, Working
    <2>. QED
        BY <1>2, <1>5, <2>1 DEF DecideReject, Settle, Ledger!Decide
<1>6. ASSUME NEW c \in Callers, DecideAccept(c)
      PROVE  [Ledger!Next]_(Ledger!ledgerVars)
    <2> DEFINE j == job[c]
    <2>1. j \in Jobs /\ outcome[j] = "none"
        BY <1>3, <1>6 DEF DecideAccept, HandIsOpen, InHand, Working
    <2>2. ~\E d \in Callers : Attempting(d, j)
        BY <1>3, <1>6 DEF DecideAccept, OnePoll, Attempting
    <2>3. /\ acceptFailures[j] \in Nat /\ tries[j] = acceptFailures[j]
          /\ acceptFailures[j] < MAX_ACCEPT_ATTEMPTS
          /\ tries' = [tries EXCEPT ![j] = @ + 1]
        BY <1>3, <1>6, <2>1, <2>2 DEF TriesCounted, TypeOK, DecideAccept
    <2>4. CASE UNCHANGED outcome
        BY <2>1, <2>3, <2>4 DEF Ledger!Attempt, Ledger!Next
    <2>5. CASE AcceptFailure(j) /\ outcome' # outcome
        <3>1. GiveUp(acceptFailures, j) /\ Settle(j, "abandoned")
            BY <2>5 DEF AcceptFailure
        <3>2. tries[j] + 1 = MAX_ACCEPT_ATTEMPTS
            BY <2>3, <3>1, CapAssumption DEF GiveUp
        <3>3. Ledger!AttemptAndAbandon(j)
            BY <2>1, <2>3, <3>1, <3>2 DEF Settle, Ledger!AttemptAndAbandon
        <3>. QED
            BY <2>1, <3>3 DEF Ledger!Next
    <2>. QED
        BY <1>6, <2>4, <2>5 DEF DecideAccept
<1>7. ASSUME NEW c \in Callers, pc[c] \in {"signing", "accepting"}
      PROVE  /\ job[c] \in Jobs /\ outcome[job[c]] = "none"
             /\ acceptFailures[job[c]] \in Nat
             /\ acceptFailures[job[c]] < MAX_ACCEPT_ATTEMPTS
             /\ tries[job[c]] = acceptFailures[job[c]] + 1
    <2>1. job[c] \in Jobs /\ outcome[job[c]] = "none"
        BY <1>3, <1>7 DEF HandIsOpen, InHand, Working
    <2>2. Attempting(c, job[c])
        BY <1>7 DEF Attempting
    <2>. QED
        BY <1>3, <2>1, <2>2 DEF TriesCounted, TypeOK
<1>8. ASSUME NEW c \in Callers, AcceptOk(c)
      PROVE  [Ledger!Next]_(Ledger!ledgerVars)
    <2>1. /\ pc[c] = "accepting" /\ UNCHANGED tries
          /\ outcome' = [outcome EXCEPT ![job[c]] = "accepted"]
        BY <1>8 DEF AcceptOk, Settle
    <2>. QED
        <3>1. job[c] \in Jobs /\ outcome[job[c]] = "none" /\ tries[job[c]] > 0
            BY <1>7, <2>1
        <3>2. Ledger!Decide(job[c], "accepted")
            BY <2>1, <3>1 DEF Ledger!Decide
        <3>. QED
            BY <1>2, <3>1, <3>2
<1>9. ASSUME NEW c \in Callers, AcceptFails(c)
      PROVE  [Ledger!Next]_(Ledger!ledgerVars)
    <2>1. /\ pc[c] \in {"signing", "accepting"} /\ UNCHANGED tries
          /\ AcceptFailure(job[c])
        BY <1>9 DEF AcceptFails
    <2>2. CASE GiveUp(acceptFailures, job[c])
        <3>1. tries[job[c]] = MAX_ACCEPT_ATTEMPTS
            BY <1>7, <2>1, <2>2, CapAssumption DEF GiveUp
        <3>. QED
            BY <1>2, <1>7, <2>1, <2>2, <3>1 DEF AcceptFailure, Settle, Ledger!Decide
    <2>3. CASE ~GiveUp(acceptFailures, job[c])
        BY <1>1, <2>1, <2>3 DEF AcceptFailure
    <2>. QED
        BY <2>2, <2>3
<1>10. ASSUME NEW c \in Callers, EndPoll(c)
      PROVE  [Ledger!Next]_(Ledger!ledgerVars)
    <2> DEFINE evicted == (Seen \ Elems(seenJobIds')) \cap Jobs
               gone    == Jobs \ fetched[c]
               left    == {j \in Jobs : acceptFailures[j] = 1}
    <2>1. outcome' = [j \in Jobs |-> IF j \in evicted THEN "none" ELSE outcome[j]]
        BY <1>10 DEF EndPoll
    <2>2. \A j \in evicted : acceptFailures[j] \in {0, 1}
        BY <1>3 DEF SeenIsSettled, TriesCounted, TypeOK
    <2>3. tries' = [j \in Jobs |->
                      IF j \in gone THEN 0
                      ELSE IF j \in evicted THEN (IF j \in left THEN 1 ELSE 0)
                      ELSE tries[j]]
        BY <1>10, <2>2 DEF EndPoll, pruneAcceptFailures
    <2>4. Ledger!Forget
        <3>1. evicted \in SUBSET Jobs /\ gone \in SUBSET Jobs /\ left \in SUBSET Jobs
            OBVIOUS
        <3> HIDE DEF evicted, gone, left
        <3>. QED
            BY <2>1, <2>3, <3>1, Zenon DEF Ledger!Forget
    <2>. QED
        BY <2>4 DEF Ledger!Next
<1>11. ASSUME NEW c \in Callers, PollStep(c)
      PROVE  [Ledger!Next]_(Ledger!ledgerVars)
    BY <1>1, <1>4, <1>5, <1>6, <1>8, <1>9, <1>10, <1>11
    DEF PollStep, Fetched, FetchFails, LeaveForLater, Signed
<1>12. CASE ~\E c \in Callers : PollStep(c)
    <2>1. UNCHANGED <<outcome, tries>>
        BY <1>12 DEF Next, vars, Start, BeginCheck, SkipCheck, StartResumes, Stop,
            setHandler, LearnIAddress, Tick, JobPosted, JobWithdrawn,
            PlatformHandles, ChatChanges
    <2>. QED
        BY <1>1, <2>1
<1>. QED
    BY <1>11, <1>12

(* checkForJobs(), with every interleaving of stop(), start(), ticks and the *)
(* platform, implements the ledger of decisions.                             *)
THEOREM ImplementsLedger == Spec => LedgerRefined
<1>1. Init => Ledger!Init
    BY DEF Init, Ledger!Init
<1>. QED
    BY <1>1, LedgerStep, Invariance, PTL DEF Spec, LedgerRefined, Ledger!Spec

============================================================================
