------------------------------ MODULE BuyerProofs ------------------------------
(***************************************************************************)
(* What the parts that surround a hire promise, each by itself: the top-up *)
(* watcher, for every policy and number of signals; a session, for any     *)
(* jobs, waits, events and fees; the exchange of access envelopes, for any *)
(* sellers, requests, verifications, cosigners and clocks.                 *)
(***************************************************************************)
EXTENDS CreditWatcher, BuyerSession, AccessExchange, FiniteSetTheorems, TLAPS

-----------------------------------------------------------------------------
(* CreditWatcher *)

(* Cost of sets of top-ups *)

\* There are finitely many ledger entries, so every set of them has a cost.
LEMMA EntriesFinite ==
    ASSUME NEW S \in SUBSET Entries
    PROVE  IsFiniteSet(S)
<1> USE DEF Entries, Times
<1>1. IsFiniteSet(1..MaxSends) /\ IsFiniteSet(0..MaxTime)
    BY FS_Interval, BoundAssumption
<1>2. IsFiniteSet((1..MaxSends) \X (0..MaxTime))
    BY <1>1, FS_Product
<1> DEFINE f == [p \in (1..MaxSends) \X (0..MaxTime) |-> [id |-> p[1], at |-> p[2]]]
<1>3. f \in Surjection((1..MaxSends) \X (0..MaxTime), [id : 1..MaxSends, at : 0..MaxTime])
    <2>1. \A e \in [id : 1..MaxSends, at : 0..MaxTime] :
             \E p \in (1..MaxSends) \X (0..MaxTime) : f[p] = e
        <3> SUFFICES ASSUME NEW e \in [id : 1..MaxSends, at : 0..MaxTime]
                     PROVE  \E p \in (1..MaxSends) \X (0..MaxTime) : f[p] = e
            OBVIOUS
        <3>1. <<e.id, e.at>> \in (1..MaxSends) \X (0..MaxTime)
            OBVIOUS
        <3>2. f[<<e.id, e.at>>] = [id |-> e.id, at |-> e.at]
            BY <3>1
        <3>3. e = [id |-> e.id, at |-> e.at]
            OBVIOUS
        <3>. QED
            BY <3>1, <3>2, <3>3
    <2>. QED
        BY <2>1 DEF Surjection
<1>4. IsFiniteSet([id : 1..MaxSends, at : 0..MaxTime])
    BY <1>2, <1>3, FS_Surjection
<1>. QED
    BY <1>4, FS_Subset

\* A smaller set of top-ups costs no more.
LEMMA CostMonotone ==
    ASSUME NEW S \in SUBSET Entries, NEW T \in SUBSET Entries, S \subseteq T
    PROVE  Cost(S) <= Cost(T)
<1>1. /\ Cardinality(S) \in Nat /\ Cardinality(T) \in Nat
      /\ Cardinality(S) <= Cardinality(T)
    BY EntriesFinite, FS_Subset, FS_CardinalityType
<1>. QED
    BY <1>1, PolicyAssumption DEF Cost

\* One more top-up costs at most topUpAmount more.
LEMMA CostAdd ==
    ASSUME NEW S \in SUBSET Entries, NEW e \in Entries
    PROVE  Cost(S \cup {e}) <= Cost(S) + topUpAmount
<1>1. /\ Cardinality(S) \in Nat /\ Cardinality(S \cup {e}) \in Nat
      /\ Cardinality(S \cup {e}) <= Cardinality(S) + 1
    BY EntriesFinite, FS_AddElement, FS_CardinalityType
<1>. QED
    BY <1>1, PolicyAssumption DEF Cost

\* The cost of a set of top-ups is a number.
LEMMA CostType ==
    ASSUME NEW S \in SUBSET Entries
    PROVE  Cost(S) \in Nat
BY EntriesFinite, FS_CardinalityType, PolicyAssumption DEF Cost

----------------------------------------------------------------------------
(* The invariant *)

\* The invariant holds of a new watcher.
LEMMA WatchInitInv == Init => IInv
<1> SUFFICES ASSUME Init PROVE IInv
    OBVIOUS
<1> USE DEF Init
<1>1. TypeOK
    <2>1. clock \in Times /\ lastTopUpAt \in Times /\ sends \in 0..MaxSends /\ clock > 0
        BY BoundAssumption DEF Times
    <2>2. 0 \in Times
        BY BoundAssumption DEF Times
    <2>3. phase \in [Calls -> Phases] /\ at \in [Calls -> Times]
        BY <2>2 DEF Phases
    <2>. QED
        BY <2>1, <2>3 DEF TypeOK
<1>2. OneInFlight /\ LedgerPruned /\ DecisionHolds /\ IdsGrow /\ TopUpsSpaced
    BY DEF OneInFlight, LedgerPruned, DecisionHolds, IdsGrow, TopUpsSpaced, Busy
<1>3. RecordedWithinCap
    <2>1. \A t \in Times : InWindow(recorded, t) = {}
        BY DEF InWindow
    <2>2. Cost({}) = 0
        BY FS_EmptySet, PolicyAssumption DEF Cost
    <2>. QED
        BY <2>1, <2>2, PolicyAssumption DEF RecordedWithinCap
<1>. QED
    BY <1>1, <1>2, <1>3 DEF IInv

\* A step that leaves the ledger alone, makes no call busy and moves time
\* forward at most keeps everything but the types.
LEMMA QuietStep ==
    ASSUME IInv, TypeOK',
           UNCHANGED <<lastTopUpAt, spends, recorded, sends, at>>,
           clock' >= clock,
           \A c \in Calls : Busy(c)' => Busy(c),
           (\E c \in Calls : Busy(c)') => pending'
    PROVE  IInv'
<1> USE DEF IInv
<1>1. OneInFlight'
    BY DEF OneInFlight
<1>2. LedgerPruned'
    BY DEF LedgerPruned, TypeOK, Times
<1>3. DecisionHolds'
    BY DEF DecisionHolds, spentInWindow, After, TypeOK, Times
<1>4. IdsGrow'
    BY DEF IdsGrow
<1>5. RecordedWithinCap' /\ TopUpsSpaced'
    BY DEF RecordedWithinCap, InWindow, TopUpsSpaced
<1>. QED
    BY <1>1, <1>2, <1>3, <1>4, <1>5

\* A signal that maybeTopUp() acts on keeps the invariant: what it checked
\* is what DecisionHolds records.
LEMMA SignalInv == ASSUME IInv, NEW c \in Calls, Signal(c) PROVE IInv'
<1> USE DEF IInv
<1>1. /\ ~pending /\ (lastTopUpAt = 0 \/ clock - lastTopUpAt >= minInterval)
      /\ spentInWindow(clock) + topUpAmount <= dailyCapVrsc
      /\ pending' = TRUE /\ phase' = [phase EXCEPT ![c] = "sending"]
      /\ at' = [at EXCEPT ![c] = clock] /\ sends' = sends + 1 /\ sends < MaxSends
      /\ UNCHANGED <<clock, lastTopUpAt, spends, recorded, paid>>
    BY DEF Signal, maybeTopUp
<1>2. TypeOK'
    BY <1>1, BoundAssumption DEF TypeOK, Phases
<1>3. \A d \in Calls : ~Busy(d) /\ (Busy(d)' => d = c)
    BY <1>1 DEF OneInFlight, Busy, TypeOK
<1>4. OneInFlight' /\ LedgerPruned'
    BY <1>1, <1>3 DEF OneInFlight, LedgerPruned
<1>5. DecisionHolds'
    <2>1. at'[c] = clock /\ clock \in Nat /\ lastTopUpAt <= clock
        BY <1>1 DEF TypeOK, LedgerPruned, Times
    <2>2. spentInWindow(clock)' = spentInWindow(clock)
        BY <1>1 DEF spentInWindow, After
    <2>. QED
        BY <1>1, <1>3, <2>1, <2>2 DEF DecisionHolds, TypeOK, spentInWindow
<1>6. IdsGrow'
    BY <1>1 DEF IdsGrow, TypeOK, Entries
<1>7. RecordedWithinCap' /\ TopUpsSpaced'
    BY <1>1 DEF RecordedWithinCap, InWindow, TopUpsSpaced
<1>. QED
    BY <1>2, <1>4, <1>5, <1>6, <1>7

\* Recording the outcome of the top-up in flight.
LEMMA ReportedInv == ASSUME IInv, NEW c \in Calls, Reported(c) PROVE IInv'
<1> USE DEF IInv
<1> DEFINE e == [id |-> sends, at |-> at[c]]
<1>1. /\ Busy(c) /\ phase' = [phase EXCEPT ![c] = "idle"] /\ pending' = FALSE
      /\ spends' = After(spends, at[c] - DAY) \cup {e} /\ lastTopUpAt' = at[c]
      /\ recorded' = recorded \cup {e} /\ UNCHANGED <<at, clock, paid, sends>>
    BY DEF Reported, Finish, Busy, recordSpend
<1>2. /\ sends > 0 /\ (\A s \in recorded : s.id < sends)
      /\ at[c] > 0 /\ at[c] <= clock /\ lastTopUpAt <= at[c]
      /\ lastTopUpAt > 0 => at[c] - lastTopUpAt >= minInterval
      /\ Cost(After(spends, at[c] - DAY)) + topUpAmount <= dailyCapVrsc
    BY <1>1 DEF IdsGrow, DecisionHolds, spentInWindow
<1>3. e \in Entries /\ e.id = sends /\ e.at = at[c] /\ at[c] \in Nat
    BY <1>2, BoundAssumption DEF Entries, TypeOK, Times
<1> HIDE DEF e
<1>4. TypeOK'
    BY <1>1, <1>3 DEF TypeOK, Phases, After
<1>5. \A d \in Calls : ~Busy(d)'
    BY <1>1 DEF OneInFlight, Busy, TypeOK
<1>6. OneInFlight' /\ DecisionHolds' /\ IdsGrow'
    <2>1. OneInFlight' /\ DecisionHolds'
        BY <1>5 DEF OneInFlight, DecisionHolds
    <2>2. \A s \in recorded' : s.id <= sends'
        BY <1>1, <1>3 DEF IdsGrow, TypeOK, Entries
    <2>. QED
        BY <1>5, <2>1, <2>2 DEF IdsGrow
<1>7. \A s \in recorded : s.id \in Nat /\ s.at \in Nat /\ s.at <= at[c]
    BY <1>2, <1>3, BoundAssumption DEF LedgerPruned, TypeOK, Entries, Times
<1>8. lastTopUpAt \in Nat /\ clock \in Nat /\ sends \in Nat /\ DAY \in Nat
    BY PolicyAssumption DEF TypeOK, Times
\* Nothing the pruned ledger misses is within a day of the new entry.
<1>9. After(recorded, at[c] - DAY) = After(spends, at[c] - DAY)
    BY <1>2, <1>3, <1>7, <1>8 DEF LedgerPruned, After
<1>10. LedgerPruned'
    <2>1. spends' \subseteq recorded'
        BY <1>1 DEF LedgerPruned, After
    <2>2. \A s \in recorded' \ spends' : s.at <= at[c] - DAY
        BY <1>1, <1>3, <1>7, <1>8, <1>9 DEF After
    <2>3. \A s \in recorded' : s.at <= at[c]
        BY <1>1, <1>3, <1>7
    <2>. QED
        BY <1>1, <1>2, <2>1, <2>2, <2>3 DEF LedgerPruned
<1>11. TopUpsSpaced'
    <2> SUFFICES ASSUME NEW s \in recorded', NEW r \in recorded', s.id < r.id
                 PROVE  r.at - s.at >= minInterval
        BY DEF TopUpsSpaced
    <2>1. CASE s \in recorded /\ r \in recorded
        BY <2>1 DEF TopUpsSpaced
    <2>2. CASE s = e
        BY <1>1, <1>2, <1>3, <1>7, <1>8, <2>2
    <2>3. CASE s \in recorded /\ r = e
        <3>1. lastTopUpAt > 0 /\ s.at <= lastTopUpAt
            BY <1>8, <2>3 DEF LedgerPruned
        <3>. QED
            BY <1>2, <1>3, <1>7, <1>8, <2>3, <3>1, PolicyAssumption
    <2>. QED
        BY <1>1, <2>1, <2>2, <2>3
<1>12. RecordedWithinCap'
    <2> SUFFICES ASSUME NEW t \in Times
                 PROVE  Cost(InWindow(recorded', t)) <= dailyCapVrsc
        BY DEF RecordedWithinCap
    <2>1. /\ recorded \in SUBSET Entries /\ recorded' \in SUBSET Entries
          /\ After(spends, at[c] - DAY) \in SUBSET Entries /\ t \in Nat
        BY <1>4 DEF TypeOK, After, Times
    <2>2. CASE t < at[c]
        <3>1. InWindow(recorded', t) = InWindow(recorded, t)
            BY <1>1, <1>3, <2>1, <2>2 DEF InWindow
        <3>. QED
            BY <3>1 DEF RecordedWithinCap
    <2>3. CASE t >= at[c]
        <3> DEFINE W == After(spends, at[c] - DAY)
        <3>1. InWindow(recorded', t) \subseteq After(recorded, at[c] - DAY) \cup {e}
            BY <1>1, <1>3, <1>7, <1>8, <2>1, <2>3 DEF InWindow, After
        <3>2. InWindow(recorded', t) \in SUBSET Entries /\ W \cup {e} \in SUBSET Entries
            BY <1>3, <2>1 DEF InWindow
        <3>3. Cost(InWindow(recorded', t)) <= Cost(W \cup {e})
            BY <1>9, <3>1, <3>2, CostMonotone
        <3>4. Cost(W \cup {e}) <= Cost(W) + topUpAmount
            BY <1>3, <2>1, CostAdd
        <3>5. /\ Cost(InWindow(recorded', t)) \in Nat
              /\ Cost(W \cup {e}) \in Nat /\ Cost(W) \in Nat
            BY <2>1, <3>2, CostType
        <3>. QED
            BY <1>2, <3>3, <3>4, <3>5, PolicyAssumption
    <2>. QED
        BY <1>3, <2>1, <2>2, <2>3
<1>. QED
    BY <1>4, <1>6, <1>10, <1>11, <1>12

\* Every step of the watcher keeps the invariant.
LEMMA WatchStepInv == IInv /\ [Next]_vars => IInv'
<1> SUFFICES ASSUME IInv, [Next]_vars PROVE IInv'
    OBVIOUS
<1> USE DEF watcherVars, callVars, auxVars
<1>1. CASE TimePasses
    <2>1. TypeOK' /\ clock' >= clock
        <3>1. clock' \in Times /\ clock' > 0 /\ clock' >= clock
            BY <1>1, BoundAssumption DEF TimePasses, IInv, TypeOK, Times
        <3>. QED
            BY <1>1, <3>1 DEF TimePasses, IInv, TypeOK
    <2>2. \A c \in Calls : Busy(c)' => Busy(c) /\ pending'
        BY <1>1 DEF TimePasses, Busy, IInv, OneInFlight
    <2>. QED
        BY <1>1, <2>1, <2>2, QuietStep DEF TimePasses
<1>2. ASSUME NEW c \in Calls, SendOk(c) \/ SignOk(c) PROVE IInv'
    <2>1. clock' >= clock /\ Busy(c)
        BY <1>2 DEF SendOk, SignOk, IInv, TypeOK, Times, Busy
    <2>2. TypeOK'
        <3>1. sends \in 1..MaxSends
            BY <2>1 DEF IInv, IdsGrow, TypeOK
        <3>2. [id |-> sends, at |-> clock] \in Entries
            BY <3>1 DEF Entries, IInv, TypeOK
        <3>3. paid' \in SUBSET Entries
            BY <1>2, <3>2 DEF SendOk, SignOk, Pay, IInv, TypeOK
        <3>4. phase' \in [Calls -> Phases]
            BY <1>2 DEF SendOk, SignOk, IInv, TypeOK, Phases
        <3>. QED
            BY <1>2, <3>3, <3>4 DEF SendOk, SignOk, IInv, TypeOK
    <2>3. \A d \in Calls : Busy(d)' => Busy(d)
        BY <1>2 DEF SendOk, SignOk, Busy, IInv, TypeOK
    <2>4. pending'
        BY <1>2, <2>1 DEF SendOk, SignOk, IInv, OneInFlight
    <2>. QED
        BY <1>2, <2>1, <2>2, <2>3, <2>4, QuietStep DEF SendOk, SignOk
<1>3. ASSUME NEW c \in Calls, SendFails(c) \/ SignFails(c) PROVE IInv'
    <2>1. clock' >= clock /\ Busy(c) /\ Finish(c)
        BY <1>3 DEF SendFails, SignFails, IInv, TypeOK, Times, Busy
    <2>2. TypeOK'
        <3>1. sends \in 1..MaxSends
            BY <2>1 DEF IInv, IdsGrow, TypeOK
        <3>2. [id |-> sends, at |-> clock] \in Entries
            BY <3>1 DEF Entries, IInv, TypeOK
        <3>3. paid' \in SUBSET Entries
            BY <1>3, <3>2 DEF SendFails, SignFails, Pay, IInv, TypeOK
        <3>4. phase' \in [Calls -> Phases] /\ pending' \in BOOLEAN
            BY <2>1 DEF Finish, IInv, TypeOK, Phases
        <3>. QED
            BY <1>3, <3>3, <3>4 DEF SendFails, SignFails, Finish, IInv, TypeOK
    <2>3. \A d \in Calls : ~Busy(d)'
        BY <2>1 DEF Finish, Busy, IInv, OneInFlight, TypeOK
    <2>. QED
        BY <1>3, <2>1, <2>2, <2>3, QuietStep DEF SendFails, SignFails, Finish
<1>4. CASE UNCHANGED vars
    <2>1. TypeOK' /\ clock' >= clock
        BY <1>4 DEF vars, IInv, TypeOK, Times
    <2>2. \A c \in Calls : Busy(c)' => Busy(c) /\ pending'
        BY <1>4 DEF vars, Busy, IInv, OneInFlight
    <2>. QED
        BY <1>4, <2>1, <2>2, QuietStep DEF vars
<1>. QED
    BY <1>1, <1>2, <1>3, <1>4, SignalInv, ReportedInv DEF Next

(* The inductive invariant of the watcher holds throughout.                  *)
THEOREM Invariance == Spec => []IInv
BY WatchInitInv, WatchStepInv, PTL DEF Spec

(* The watcher's recorded top-ups respect dailyCapVrsc in every 24h window.  *)
THEOREM CapRespected == Spec => []RecordedWithinCap
<1>1. IInv => RecordedWithinCap
    BY DEF IInv
<1>. QED
    BY <1>1, Invariance, PTL

(* Recorded top-ups are at least minInterval apart.                          *)
THEOREM BurstsCollapse == Spec => []TopUpsSpaced
<1>1. IInv => TopUpsSpaced
    BY DEF IInv
<1>. QED
    BY <1>1, Invariance, PTL

(* The watcher's state keeps its types: no ledger entry is out of range.     *)
THEOREM TypeCorrect == Spec => []TypeOK
<1>1. IInv => TypeOK
    BY DEF IInv
<1>. QED
    BY <1>1, Invariance, PTL

-----------------------------------------------------------------------------
(* BuyerSession *)

Ran == {"in_progress", "delivered", "cancelled"}
Platform == {"none", "unpaid", "paid", "in_progress", "delivered", "cancelled"}

\* The types, without the bounds that the other parts of BuyInv give.
StartShape ==
    step \in Steps /\ job \in 0 .. Starts /\ fee \in 0 .. Amount /\ payments \in [JobIds -> Nat]
PlatformShape == platform \in [JobIds -> Platform]
EndShape ==
    /\ active \in BOOLEAN /\ idleTimer \in BOOLEAN
    /\ ending \in [JobIds -> Nat] /\ ended \in [JobIds -> Nat]
WaitShape ==
    /\ wait \in [WaitIds -> {"idle", "pending", "answered", "timedout"}]
    /\ onMessage \in 0 .. Waits /\ original \in [WaitIds -> 0 .. Waits]
SellerShape ==
    /\ event \in [EventIds -> {"none", "reading", "signing", "posting", "over"}]
    /\ eventJob \in [EventIds -> 0 .. Starts]
    /\ announced \in [JobIds -> 0 .. Events]
BuyShape == StartShape /\ PlatformShape /\ EndShape /\ WaitShape /\ SellerShape

\* A job that was not created yet has no history.
FutureIsBlank ==
    \A n \in JobIds : n > job =>
        platform[n] = "none" /\ payments[n] = 0 /\ ended[n] = 0 /\ ending[n] = 0

\* The job that start() works on was never active.
StartIsFresh ==
    /\ step = "creating" => job < Starts
    /\ step \in {"paying", "recording", "polling", "chat"} =>
         job \in JobIds /\ ended[job] = 0 /\ ending[job] = 0
    /\ step = "paying" => payments[job] = 0
    /\ step \in {"recording", "polling", "chat"} => payments[job] >= Amount
    /\ step = "chat" => platform[job] \in Ran

\* A session is active only after its start() returned, and was not ended.
ActiveIsFresh ==
    active => /\ step = "returned" /\ job \in JobIds /\ ended[job] = 0 /\ ending[job] = 0
              /\ platform[job] \in Ran

\* What the platform calls paid was paid.
PaidFirst ==
    \A n \in JobIds :
        platform[n] \in {"paid", "in_progress", "delivered"} => payments[n] >= Amount

\* An event under way is about a job.
EventHasJob ==
    \A e \in EventIds : event[e] \in {"reading", "signing", "posting"} => eventJob[e] \in JobIds

BuyInv == /\ BuyShape /\ FutureIsBlank /\ StartIsFresh /\ ActiveIsFresh /\ PaidFirst /\ EventHasJob
        /\ SpendBounded /\ EndedOnce /\ AnnouncedIsDelivered

LEMMA BuyInitInv == BuyInit => BuyInv
<1> SUFFICES ASSUME BuyInit PROVE BuyInv OBVIOUS
<1> USE BuyAssumption DEF BuyInit, JobIds
<1>1. StartShape
  <2>1. step \in Steps /\ job \in 0 .. Starts /\ fee \in 0 .. Amount BY DEF Steps
  <2>2. payments \in [JobIds -> Nat] OBVIOUS
  <2> QED BY <2>1, <2>2 DEF StartShape
<1>2. PlatformShape BY DEF PlatformShape, Platform
<1>3. EndShape BY DEF EndShape
<1>8. WaitShape BY DEF WaitShape
<1>4. SellerShape BY DEF SellerShape
<1>5. FutureIsBlank /\ StartIsFresh /\ ActiveIsFresh
    BY DEF FutureIsBlank, StartIsFresh, ActiveIsFresh
<1>6. PaidFirst /\ EventHasJob /\ SpendBounded BY DEF PaidFirst, EventHasJob, SpendBounded
<1>7. EndedOnce /\ AnnouncedIsDelivered BY DEF EndedOnce, AnnouncedIsDelivered
<1> QED BY <1>1, <1>2, <1>3, <1>4, <1>5, <1>6, <1>7, <1>8 DEF BuyInv, BuyShape

\* start() up to the payment.
LEMMA CreateInv ==
    ASSUME BuyInv, BeginStart \/ JobCreated \/ CreateFails \/ StartFails
    PROVE  BuyInv'
<1> USE BuyAssumption DEF BuyInv, BuyShape, JobIds
<1>1. CASE BeginStart
  <2>1. StartShape'
      BY <1>1 DEF BeginStart, Goto, endVars, waitVars, sellerVars, StartShape, Steps
  <2>2. StartIsFresh'
      BY <1>1 DEF BeginStart, Goto, endVars, waitVars, sellerVars, StartIsFresh, Ran
  <2>3. ActiveIsFresh'
      BY <1>1 DEF BeginStart, Goto, endVars, waitVars, sellerVars, ActiveIsFresh, Ran
  <2>4. /\ PlatformShape' /\ EndShape' /\ WaitShape' /\ SellerShape'
        /\ FutureIsBlank' /\ PaidFirst' /\ EventHasJob' /\ SpendBounded'
        /\ EndedOnce' /\ AnnouncedIsDelivered'
    BY <1>1
       DEF BeginStart, Goto, endVars, waitVars, sellerVars, PlatformShape, EndShape,
           WaitShape, SellerShape, FutureIsBlank, PaidFirst, EventHasJob, SpendBounded,
           EndedOnce, AnnouncedIsDelivered
  <2> QED BY <2>1, <2>2, <2>3, <2>4
<1>2. CASE JobCreated
  <2>1. /\ step = "creating" /\ step' \in {"paying", "failed"}
        /\ job + 1 \in JobIds /\ job' = job + 1 /\ payments' = payments
        /\ active' = active /\ ended' = ended /\ ending' = ending /\ announced' = announced
      BY <1>2 DEF JobCreated, StartShape, StartIsFresh, endVars, sellerVars
  <2>2. /\ platform' \in [JobIds -> Platform] /\ platform'[job + 1] = "unpaid"
        /\ \A n \in JobIds : n # job + 1 => platform'[n] = platform[n]
      BY <1>2, <2>1 DEF JobCreated, PlatformShape, Platform
  <2>3. platform[job + 1] = "none" /\ payments[job + 1] = 0 /\ ended[job + 1] = 0 /\
      ending[job + 1] = 0
      BY <2>1 DEF FutureIsBlank, StartShape
  <2>4. fee' \in {f \in Fees : FeePlausible(f)} \union {0} \/ fee' = fee
      BY <1>2 DEF JobCreated
  <2>5. fee' \in 0 .. Amount
      <3>1. \A f \in Fees : FeePlausible(f) => f \in 0 .. Amount BY DEF FeePlausible
      <3>2. 0 \in 0 .. Amount /\ fee \in 0 .. Amount BY DEF StartShape
      <3>3. CASE fee' = fee BY <3>2, <3>3
      <3>4. CASE fee' \in {f \in Fees : FeePlausible(f)} BY <3>1, <3>4
      <3>5. CASE fee' = 0 BY <3>2, <3>5
      <3> QED BY <2>4, <3>3, <3>4, <3>5
  <2>6. StartShape' BY <2>1, <2>2, <2>3, <2>4, <2>5 DEF StartShape, Steps
  <2>7. PlatformShape' BY <2>1, <2>2, <2>3, <2>4, <2>5 DEF PlatformShape, Platform
  <2>8. FutureIsBlank' BY <2>1, <2>2, <2>3, <2>4, <2>5 DEF FutureIsBlank, StartShape
  <2>9. StartIsFresh'
      BY <2>1, <2>2, <2>3, <2>4, <2>5 DEF StartIsFresh, Ran, StartShape, FutureIsBlank
  <2>10. ActiveIsFresh' BY <2>1, <2>2, <2>3, <2>4, <2>5 DEF ActiveIsFresh, Ran, StartShape
  <2>11. PaidFirst' BY <2>1, <2>2, <2>3, <2>4, <2>5 DEF PaidFirst, Platform
  <2>12. AnnouncedIsDelivered'
      BY <2>1, <2>2, <2>3, <2>4, <2>5 DEF AnnouncedIsDelivered, Platform
  <2>13. /\ EndShape' /\ WaitShape' /\ SellerShape' /\ EventHasJob'
         /\ SpendBounded' /\ EndedOnce'
    BY <1>2
       DEF JobCreated, waitVars, endVars, sellerVars, EndShape, WaitShape, SellerShape,
           EventHasJob, SpendBounded, EndedOnce
  <2> QED BY <2>6, <2>7, <2>8, <2>9, <2>10, <2>11, <2>12, <2>13
<1>3. CASE CreateFails
  <2>1. StartShape'
      BY <1>3 DEF CreateFails, Goto, endVars, waitVars, sellerVars, StartShape, Steps
  <2>2. StartIsFresh'
      BY <1>3 DEF CreateFails, Goto, endVars, waitVars, sellerVars, StartIsFresh, Ran
  <2>3. ActiveIsFresh'
      BY <1>3 DEF CreateFails, Goto, endVars, waitVars, sellerVars, ActiveIsFresh, Ran
  <2>4. /\ PlatformShape' /\ EndShape' /\ WaitShape' /\ SellerShape'
        /\ FutureIsBlank' /\ PaidFirst' /\ EventHasJob' /\ SpendBounded'
        /\ EndedOnce' /\ AnnouncedIsDelivered'
    BY <1>3
       DEF CreateFails, Goto, endVars, waitVars, sellerVars, PlatformShape, EndShape,
           WaitShape, SellerShape, FutureIsBlank, PaidFirst, EventHasJob, SpendBounded,
           EndedOnce, AnnouncedIsDelivered
  <2> QED BY <2>1, <2>2, <2>3, <2>4
<1>4. CASE StartFails
  <2>1. StartShape'
      BY <1>4 DEF StartFails, Goto, endVars, waitVars, sellerVars, StartShape, Steps
  <2>2. StartIsFresh'
      BY <1>4 DEF StartFails, Goto, endVars, waitVars, sellerVars, StartIsFresh, Ran
  <2>3. ActiveIsFresh'
      BY <1>4 DEF StartFails, Goto, endVars, waitVars, sellerVars, ActiveIsFresh, Ran
  <2>4. /\ PlatformShape' /\ EndShape' /\ WaitShape' /\ SellerShape'
        /\ FutureIsBlank' /\ PaidFirst' /\ EventHasJob' /\ SpendBounded'
        /\ EndedOnce' /\ AnnouncedIsDelivered'
    BY <1>4
       DEF StartFails, Goto, endVars, waitVars, sellerVars, PlatformShape, EndShape,
           WaitShape, SellerShape, FutureIsBlank, PaidFirst, EventHasJob, SpendBounded,
           EndedOnce, AnnouncedIsDelivered
  <2> QED BY <2>1, <2>2, <2>3, <2>4
<1> QED BY <1>1, <1>2, <1>3, <1>4

\* The payment, its record and the wait for the seller.
LEMMA PayInv ==
    ASSUME BuyInv, PaymentSent \/ PaymentFails \/ Recorded \/ JobRuns \/ Activate
    PROVE  BuyInv'
<1> USE BuyAssumption DEF BuyInv, BuyShape, JobIds
<1>1. CASE PaymentSent
  <2>1. /\ step = "paying" /\ step' = "recording" /\ job \in JobIds /\ job' = job
        /\ fee' = fee /\ platform' = platform /\ active' = active
        /\ ended' = ended /\ ending' = ending
      BY <1>1 DEF PaymentSent, Goto, StartIsFresh, endVars
  <2>2. /\ payments' \in [JobIds -> Nat] /\ payments'[job] = Amount + fee
        /\ \A n \in JobIds : n # job => payments'[n] = payments[n]
      BY <1>1, <2>1 DEF PaymentSent, Charge, StartShape, StartIsFresh
  <2>3. StartShape' BY <2>1, <2>2 DEF StartShape, Steps
  <2>4. FutureIsBlank' BY <2>1, <2>2 DEF FutureIsBlank, StartShape
  <2>5. StartIsFresh' BY <2>1, <2>2 DEF StartIsFresh, Ran, StartShape
  <2>6. ActiveIsFresh' BY <2>1, <2>2 DEF ActiveIsFresh, Ran, StartShape
  <2>7. PaidFirst' BY <2>1, <2>2 DEF PaidFirst, Platform, StartShape, StartIsFresh
  <2>8. SpendBounded' BY <2>1, <2>2 DEF SpendBounded, StartShape
  <2>9. /\ PlatformShape' /\ EndShape' /\ WaitShape' /\ SellerShape'
        /\ EventHasJob' /\ EndedOnce' /\ AnnouncedIsDelivered'
    BY <1>1
       DEF PaymentSent, Goto, endVars, waitVars, sellerVars, PlatformShape, EndShape,
           WaitShape, SellerShape, EventHasJob, EndedOnce, AnnouncedIsDelivered
  <2> QED BY <2>3, <2>4, <2>5, <2>6, <2>7, <2>8, <2>9
<1>2. CASE PaymentFails
  <2>1. /\ step = "paying" /\ step' = "failed" /\ job \in JobIds /\ job' = job
        /\ fee' = fee /\ platform' = platform /\ active' = active
        /\ ended' = ended /\ ending' = ending
      BY <1>2 DEF PaymentFails, Goto, StartIsFresh, endVars
  <2>2. /\ payments' \in [JobIds -> Nat] /\ payments'[job] \in {0, Amount + fee}
        /\ \A n \in JobIds : n # job => payments'[n] = payments[n]
      BY <1>2, <2>1 DEF PaymentFails, Charge, StartShape, StartIsFresh
  <2>3. StartShape' BY <2>1, <2>2 DEF StartShape, Steps
  <2>4. FutureIsBlank' BY <2>1, <2>2 DEF FutureIsBlank, StartShape
  <2>5. StartIsFresh' BY <2>1, <2>2 DEF StartIsFresh, Ran, StartShape
  <2>6. ActiveIsFresh' BY <2>1, <2>2 DEF ActiveIsFresh, Ran, StartShape
  <2>7. PaidFirst' BY <2>1, <2>2 DEF PaidFirst, Platform, StartShape, StartIsFresh
  <2>8. SpendBounded' BY <2>1, <2>2 DEF SpendBounded, StartShape
  <2>9. /\ PlatformShape' /\ EndShape' /\ WaitShape' /\ SellerShape'
        /\ EventHasJob' /\ EndedOnce' /\ AnnouncedIsDelivered'
    BY <1>2
       DEF PaymentFails, Goto, endVars, waitVars, sellerVars, PlatformShape, EndShape,
           WaitShape, SellerShape, EventHasJob, EndedOnce, AnnouncedIsDelivered
  <2> QED BY <2>3, <2>4, <2>5, <2>6, <2>7, <2>8, <2>9
<1>3. CASE Recorded
  <2>1. /\ job \in JobIds /\ job' = job /\ payments' = payments /\ payments[job] >= Amount
      /\ fee' = fee
        /\ step = "recording" /\ step' \in {"polling", "failed"}
        /\ active' = active /\ ended' = ended /\ ending' = ending /\ announced' = announced
      BY <1>3 DEF Recorded, Goto, StartIsFresh, endVars, sellerVars
  <2>2. platform' = [platform EXCEPT ![job] = IF @ = "unpaid" THEN "paid" ELSE @]
      BY <1>3 DEF Recorded
  <2>3. /\ platform' \in [JobIds -> Platform]
        /\ \A n \in JobIds : n # job => platform'[n] = platform[n]
        /\ \/ platform'[job] = platform[job]
           \/ platform[job] = "unpaid" /\ platform'[job] = "paid"
      <3>1. CASE platform[job] = "unpaid" BY <2>1, <2>2, <3>1 DEF PlatformShape, Platform
      <3>2. CASE platform[job] # "unpaid"
        <4>1. platform' = platform BY <2>1, <2>2, <3>2 DEF PlatformShape
        <4>2. platform \in [JobIds -> Platform] BY DEF PlatformShape
        <4> QED BY <4>1, <4>2
      <3> QED BY <3>1, <3>2
  <2>4. StartShape' BY <2>1, <2>2, <2>3 DEF StartShape, Steps
  <2>5. PlatformShape' BY <2>1, <2>2, <2>3 DEF PlatformShape, Platform
  <2>6. FutureIsBlank' BY <2>1, <2>2, <2>3 DEF FutureIsBlank, StartShape
  <2>7. StartIsFresh' BY <2>1, <2>2, <2>3 DEF StartIsFresh, Ran
  <2>8. ActiveIsFresh' BY <2>1, <2>2, <2>3 DEF ActiveIsFresh, Ran
  <2>9. PaidFirst' BY <2>1, <2>2, <2>3 DEF PaidFirst, Platform, StartShape
  <2>10. AnnouncedIsDelivered' BY <2>1, <2>2, <2>3 DEF AnnouncedIsDelivered, Platform
  <2>11. /\ EndShape' /\ WaitShape' /\ SellerShape' /\ EventHasJob'
         /\ SpendBounded' /\ EndedOnce'
    BY <1>3
       DEF Recorded, Goto, endVars, waitVars, sellerVars, EndShape, WaitShape, SellerShape,
           EventHasJob, SpendBounded, EndedOnce
  <2> QED BY <2>4, <2>5, <2>6, <2>7, <2>8, <2>9, <2>10, <2>11
<1>4. CASE JobRuns
  <2>1. StartShape'
      BY <1>4 DEF JobRuns, Goto, endVars, waitVars, sellerVars, StartShape, Steps
  <2>2. StartIsFresh'
      BY <1>4 DEF JobRuns, Goto, endVars, waitVars, sellerVars, StartIsFresh, Ran
  <2>3. ActiveIsFresh'
      BY <1>4 DEF JobRuns, Goto, endVars, waitVars, sellerVars, ActiveIsFresh, Ran
  <2>4. /\ PlatformShape' /\ EndShape' /\ WaitShape' /\ SellerShape'
        /\ FutureIsBlank' /\ PaidFirst' /\ EventHasJob' /\ SpendBounded'
        /\ EndedOnce' /\ AnnouncedIsDelivered'
    BY <1>4
       DEF JobRuns, Goto, endVars, waitVars, sellerVars, PlatformShape, EndShape, WaitShape,
           SellerShape, FutureIsBlank, PaidFirst, EventHasJob, SpendBounded, EndedOnce,
           AnnouncedIsDelivered
  <2> QED BY <2>1, <2>2, <2>3, <2>4
<1>5. CASE Activate
  <2>1. StartShape' BY <1>5 DEF Activate, waitVars, sellerVars, StartShape, Steps
  <2>2. EndShape' BY <1>5 DEF Activate, waitVars, sellerVars, EndShape
  <2>3. StartIsFresh' BY <1>5 DEF Activate, waitVars, sellerVars, StartIsFresh, Ran
  <2>4. ActiveIsFresh'
      BY <1>5 DEF Activate, waitVars, sellerVars, ActiveIsFresh, Ran, StartIsFresh
  <2>5. /\ PlatformShape' /\ WaitShape' /\ SellerShape' /\ FutureIsBlank'
        /\ PaidFirst' /\ EventHasJob' /\ SpendBounded' /\ EndedOnce'
        /\ AnnouncedIsDelivered'
    BY <1>5
       DEF Activate, waitVars, sellerVars, PlatformShape, WaitShape, SellerShape,
           FutureIsBlank, PaidFirst, EventHasJob, SpendBounded, EndedOnce,
           AnnouncedIsDelivered
  <2> QED BY <2>1, <2>2, <2>3, <2>4, <2>5
<1> QED BY <1>1, <1>2, <1>3, <1>4, <1>5

\* The platform's moves and the end of a session.
LEMMA EndInv ==
    ASSUME BuyInv, BeginEnd \/ \E n \in JobIds : PlatformMoves(n) \/ EndAnswered(n)
    PROVE  BuyInv'
<1> USE BuyAssumption DEF BuyInv, BuyShape, JobIds
<1>1. CASE BeginEnd
  <2>1. /\ job \in JobIds /\ ended[job] = 0 /\ ending[job] = 0 /\ step = "returned"
        /\ active' = FALSE /\ idleTimer' = FALSE /\ ended' = ended
        /\ step' = step /\ job' = job /\ payments' = payments /\ platform' = platform
      BY <1>1 DEF BeginEnd, ActiveIsFresh, startVars
  <2>2. /\ ending' \in [JobIds -> Nat] /\ ending'[job] = 1
        /\ \A n \in JobIds : n # job => ending'[n] = ending[n]
      BY <1>1, <2>1 DEF BeginEnd, EndShape
  <2>3. EndShape' BY <2>1, <2>2 DEF EndShape
  <2>4. FutureIsBlank' BY <2>1, <2>2 DEF FutureIsBlank, StartShape
  <2>5. StartIsFresh' BY <2>1 DEF StartIsFresh
  <2>6. ActiveIsFresh' BY <2>1, <2>2 DEF ActiveIsFresh, Ran
  <2>7. EndedOnce'
    <3> SUFFICES ASSUME NEW n \in JobIds PROVE ended'[n] + ending'[n] <= 1 BY DEF EndedOnce
    <3>1. CASE n = job BY <2>1, <2>2, <3>1
    <3>2. CASE n # job BY <2>1, <2>2, <3>2 DEF EndedOnce
    <3> QED BY <3>1, <3>2
  <2>8. /\ StartShape' /\ PlatformShape' /\ WaitShape' /\ SellerShape'
        /\ PaidFirst' /\ EventHasJob' /\ SpendBounded' /\ AnnouncedIsDelivered'
    BY <1>1
       DEF BeginEnd, startVars, waitVars, sellerVars, StartShape, PlatformShape, WaitShape,
           SellerShape, PaidFirst, EventHasJob, SpendBounded, AnnouncedIsDelivered
  <2> QED BY <2>3, <2>4, <2>5, <2>6, <2>7, <2>8
<1>2. ASSUME NEW n \in JobIds, PlatformMoves(n) PROVE BuyInv'
  <2>1. PICK move \in Moves :
           move[1] = platform[n] /\ platform' = [platform EXCEPT ![n] = move[2]]
      BY <1>2 DEF PlatformMoves
  <2>2. /\ platform' \in [JobIds -> Platform]
        /\ \A m \in JobIds : m # n => platform'[m] = platform[m]
        /\ \/ /\ platform[n] \in {"paid", "in_progress"}
              /\ platform'[n] \in {"in_progress", "cancelled"}
           \/ platform[n] = "unpaid" /\ platform'[n] = "cancelled"
      BY <2>1 DEF Moves, PlatformShape, Platform
  <2>3. /\ step' = step /\ job' = job /\ payments' = payments /\ active' = active
        /\ ended' = ended /\ ending' = ending /\ announced' = announced
      BY <1>2 DEF PlatformMoves, startVars, endVars, sellerVars
  <2>4. PlatformShape' BY <2>1, <2>2, <2>3 DEF PlatformShape, Platform
  <2>5. FutureIsBlank' BY <2>1, <2>2, <2>3 DEF FutureIsBlank, StartShape
  <2>6. StartIsFresh' BY <2>1, <2>2, <2>3 DEF StartIsFresh, Ran, StartShape
  <2>7. ActiveIsFresh' BY <2>1, <2>2, <2>3 DEF ActiveIsFresh, Ran
  <2>8. PaidFirst' BY <2>1, <2>2, <2>3 DEF PaidFirst, Platform
  <2>9. AnnouncedIsDelivered' BY <2>1, <2>2, <2>3 DEF AnnouncedIsDelivered, Platform
  <2>10. /\ StartShape' /\ EndShape' /\ WaitShape' /\ SellerShape'
         /\ EventHasJob' /\ SpendBounded' /\ EndedOnce'
    BY <1>2
       DEF PlatformMoves, startVars, endVars, waitVars, sellerVars, StartShape, EndShape,
           WaitShape, SellerShape, EventHasJob, SpendBounded, EndedOnce
  <2> QED BY <2>4, <2>5, <2>6, <2>7, <2>8, <2>9, <2>10
<1>3. ASSUME NEW n \in JobIds, EndAnswered(n) PROVE BuyInv'
  <2>1. /\ ending[n] = 1 /\ ended[n] = 0 /\ active' = active /\ idleTimer' = idleTimer
        /\ step' = step /\ job' = job /\ payments' = payments /\ platform' = platform
      BY <1>3 DEF EndAnswered, EndShape, EndedOnce, startVars
  <2>2. /\ ending' \in [JobIds -> Nat] /\ ending'[n] = 0
        /\ ended' \in [JobIds -> Nat] /\ ended'[n] = 1
        /\ \A m \in JobIds : m # n => ending'[m] = ending[m] /\ ended'[m] = ended[m]
      BY <1>3, <2>1 DEF EndAnswered, EndShape
  <2>3. EndShape' BY <2>1, <2>2 DEF EndShape
  <2>4. FutureIsBlank' BY <2>1, <2>2 DEF FutureIsBlank, StartShape
  <2>5. StartIsFresh' BY <2>1, <2>2 DEF StartIsFresh, Ran
  <2>6. ActiveIsFresh' BY <2>1, <2>2 DEF ActiveIsFresh, Ran
  <2>7. EndedOnce'
    <3> SUFFICES ASSUME NEW m \in JobIds PROVE ended'[m] + ending'[m] <= 1 BY DEF EndedOnce
    <3>1. CASE m = n BY <2>1, <2>2, <3>1
    <3>2. CASE m # n BY <2>1, <2>2, <3>2 DEF EndedOnce
    <3> QED BY <3>1, <3>2
  <2>8. /\ StartShape' /\ PlatformShape' /\ WaitShape' /\ SellerShape'
        /\ PaidFirst' /\ EventHasJob' /\ SpendBounded' /\ AnnouncedIsDelivered'
    BY <1>3
       DEF EndAnswered, startVars, waitVars, sellerVars, StartShape, PlatformShape,
           WaitShape, SellerShape, PaidFirst, EventHasJob, SpendBounded,
           AnnouncedIsDelivered
  <2> QED BY <2>3, <2>4, <2>5, <2>6, <2>7, <2>8
<1> QED BY <1>1, <1>2, <1>3

\* Messages and the promises that wait for them.
LEMMA WaitInv ==
    ASSUME BuyInv, SellerMessage \/ \E w \in WaitIds : Ask(w) \/ WaitTimeout(w)
    PROVE  BuyInv'
<1> USE BuyAssumption DEF BuyInv, BuyShape, JobIds
<1>1. CASE SellerMessage
  <2>1. WaitShape'
      BY <1>1 DEF SellerMessage, startVars, endVars, sellerVars, WaitShape, WaitIds
  <2>2. /\ StartShape' /\ PlatformShape' /\ EndShape' /\ SellerShape'
        /\ FutureIsBlank' /\ StartIsFresh' /\ ActiveIsFresh' /\ PaidFirst'
        /\ EventHasJob' /\ SpendBounded' /\ EndedOnce' /\ AnnouncedIsDelivered'
    BY <1>1
       DEF SellerMessage, startVars, endVars, sellerVars, StartShape, PlatformShape,
           EndShape, SellerShape, FutureIsBlank, StartIsFresh, ActiveIsFresh, PaidFirst,
           EventHasJob, SpendBounded, EndedOnce, AnnouncedIsDelivered
  <2> QED BY <2>1, <2>2
<1>2. ASSUME NEW w \in WaitIds, Ask(w) PROVE BuyInv'
  <2>1. WaitShape' BY <1>2 DEF Ask, startVars, endVars, sellerVars, WaitShape, WaitIds
  <2>2. /\ StartShape' /\ PlatformShape' /\ EndShape' /\ SellerShape'
        /\ FutureIsBlank' /\ StartIsFresh' /\ ActiveIsFresh' /\ PaidFirst'
        /\ EventHasJob' /\ SpendBounded' /\ EndedOnce' /\ AnnouncedIsDelivered'
    BY <1>2
       DEF Ask, startVars, endVars, sellerVars, StartShape, PlatformShape, EndShape,
           SellerShape, FutureIsBlank, StartIsFresh, ActiveIsFresh, PaidFirst, EventHasJob,
           SpendBounded, EndedOnce, AnnouncedIsDelivered
  <2> QED BY <2>1, <2>2
<1>3. ASSUME NEW w \in WaitIds, WaitTimeout(w) PROVE BuyInv'
  <2>1. WaitShape'
      BY <1>3 DEF WaitTimeout, startVars, endVars, sellerVars, WaitShape, WaitIds
  <2>2. /\ StartShape' /\ PlatformShape' /\ EndShape' /\ SellerShape'
        /\ FutureIsBlank' /\ StartIsFresh' /\ ActiveIsFresh' /\ PaidFirst'
        /\ EventHasJob' /\ SpendBounded' /\ EndedOnce' /\ AnnouncedIsDelivered'
    BY <1>3
       DEF WaitTimeout, startVars, endVars, sellerVars, StartShape, PlatformShape, EndShape,
           SellerShape, FutureIsBlank, StartIsFresh, ActiveIsFresh, PaidFirst, EventHasJob,
           SpendBounded, EndedOnce, AnnouncedIsDelivered
  <2> QED BY <2>1, <2>2
<1> QED BY <1>1, <1>2, <1>3

\* The seller's automatic delivery.
LEMMA DeliverInv ==
    ASSUME BuyInv, NEW e \in EventIds,
           \/ ReadJob(e) \/ SignDelivery(e) \/ DeliveryFails(e) \/ PostDelivery(e)
           \/ \E n \in JobIds : SessionEnding(e, n)
    PROVE  BuyInv'
<1> USE BuyAssumption DEF BuyInv, BuyShape, JobIds
<1>1. CASE ReadJob(e) \/ SignDelivery(e) \/ DeliveryFails(e)
  <2>1. PICK s \in {"signing", "posting", "over"} :
           event' = [event EXCEPT ![e] = s] /\ event[e] \in {"reading", "signing", "posting"}
      BY <1>1 DEF ReadJob, SignDelivery, DeliveryFails, At
  <2>2. UNCHANGED <<startVars, platform, endVars, waitVars, eventJob, announced>>
      BY <1>1 DEF ReadJob, SignDelivery, DeliveryFails
  <2>3. SellerShape' BY <2>1, <2>2 DEF SellerShape, EventIds
  <2>4. EventHasJob' BY <2>1, <2>2 DEF EventHasJob, SellerShape
  <2>5. /\ StartShape' /\ PlatformShape' /\ EndShape' /\ WaitShape'
        /\ FutureIsBlank' /\ StartIsFresh' /\ ActiveIsFresh' /\ PaidFirst'
        /\ SpendBounded' /\ EndedOnce' /\ AnnouncedIsDelivered'
    BY <2>2
       DEF startVars, endVars, waitVars,
           StartShape, PlatformShape, EndShape, WaitShape, FutureIsBlank, StartIsFresh,
           ActiveIsFresh, PaidFirst, SpendBounded, EndedOnce, AnnouncedIsDelivered
  <2> QED BY <2>3, <2>4, <2>5
<1>2. CASE PostDelivery(e)
  <2> DEFINE n == eventJob[e]
  <2>2. /\ n \in JobIds /\ platform[n] = "in_progress" /\ announced[n] = 0
         /\ 1 \in 0 .. Events
      BY <1>2 DEF PostDelivery, EventHasJob, AnnouncedIsDelivered, SellerShape, EventIds
  <2>3. /\ platform' \in [JobIds -> Platform] /\ platform'[n] = "delivered"
         /\ \A m \in JobIds : m # n => platform'[m] = platform[m] /\ announced'[m] = announced[m]
         /\ announced' \in [JobIds -> 0 .. Events] /\ announced'[n] = 1
      BY <1>2, <2>2 DEF PostDelivery, PlatformShape, Platform, SellerShape
  <2>4. PlatformShape'
      BY <1>2, <2>2, <2>3
         DEF PostDelivery, startVars, endVars, waitVars, At, PlatformShape, Platform
  <2>5. SellerShape'
      BY <1>2, <2>2, <2>3
         DEF PostDelivery, startVars, endVars, waitVars, At, SellerShape, EventIds
  <2>6. FutureIsBlank'
      BY <1>2, <2>2, <2>3 DEF PostDelivery, startVars, endVars, waitVars, At, FutureIsBlank
  <2>7. StartIsFresh'
      BY <1>2, <2>2, <2>3
         DEF PostDelivery, startVars, endVars, waitVars, At, StartIsFresh, Ran, StartShape
  <2>8. ActiveIsFresh'
      BY <1>2, <2>2, <2>3
         DEF PostDelivery, startVars, endVars, waitVars, At, ActiveIsFresh, Ran
  <2>9. PaidFirst'
      BY <1>2, <2>2, <2>3
         DEF PostDelivery, startVars, endVars, waitVars, At, PaidFirst, Platform
  <2>10. EventHasJob'
      BY <1>2, <2>2, <2>3 DEF PostDelivery, startVars, endVars, waitVars, At, EventHasJob
  <2>11. AnnouncedIsDelivered'
      BY <1>2, <2>2, <2>3
         DEF PostDelivery, startVars, endVars, waitVars, At, AnnouncedIsDelivered, Platform
  <2>12. StartShape' /\ EndShape' /\ WaitShape' /\ SpendBounded' /\ EndedOnce'
    BY <1>2
       DEF PostDelivery, startVars, endVars, waitVars, At, StartShape, EndShape, WaitShape,
           SpendBounded, EndedOnce
  <2> QED BY <2>4, <2>5, <2>6, <2>7, <2>8, <2>9, <2>10, <2>11, <2>12
<1>3. ASSUME NEW n \in JobIds, SessionEnding(e, n) PROVE BuyInv'
  <2>1. SellerShape'
    <3>1. n \in 0 .. Starts OBVIOUS
    <3>2. event' = [event EXCEPT ![e] = "reading"] /\ eventJob' = [eventJob EXCEPT ![e] = n]
          /\ announced' = announced
      BY <1>3 DEF SessionEnding
    <3> QED BY <3>1, <3>2 DEF SellerShape
  <2>2. EventHasJob'
    <3>1. event' = [event EXCEPT ![e] = "reading"] /\ eventJob' = [eventJob EXCEPT ![e] = n]
      BY <1>3 DEF SessionEnding
    <3> QED BY <3>1 DEF EventHasJob, SellerShape
  <2>3. /\ StartShape' /\ PlatformShape' /\ EndShape' /\ WaitShape'
        /\ FutureIsBlank' /\ StartIsFresh' /\ ActiveIsFresh' /\ PaidFirst'
        /\ SpendBounded' /\ EndedOnce' /\ AnnouncedIsDelivered'
    BY <1>3
       DEF SessionEnding, startVars, endVars, waitVars, StartShape, PlatformShape, EndShape,
           WaitShape, FutureIsBlank, StartIsFresh, ActiveIsFresh, PaidFirst, SpendBounded,
           EndedOnce, AnnouncedIsDelivered
  <2> QED BY <2>1, <2>2, <2>3
<1> QED BY <1>1, <1>2, <1>3

LEMMA BuyStepInv == BuyInv /\ [BuyNext]_buyVars => BuyInv'
<1> SUFFICES ASSUME BuyInv, [BuyNext]_buyVars PROVE BuyInv' OBVIOUS
<1>1. CASE UNCHANGED buyVars
  BY <1>1 DEF buyVars, startVars, endVars, waitVars, sellerVars, BuyInv, BuyShape, StartShape,
     PlatformShape, EndShape, WaitShape, SellerShape, FutureIsBlank,
     StartIsFresh, ActiveIsFresh, PaidFirst, EventHasJob, SpendBounded, EndedOnce,
     AnnouncedIsDelivered
<1>2. CASE BuyNext BY <1>2, CreateInv, PayInv, EndInv, WaitInv, DeliverInv DEF BuyNext
<1> QED BY <1>1, <1>2

LEMMA BuyInductive == BuySpec => []BuyInv
BY BuyInitInv, BuyStepInv, PTL DEF BuySpec

\* BuyInv gives the types with their bounds.
LEMMA BuyInvTypes == BuyInv => BuyTypeOK
<1> SUFFICES ASSUME BuyInv PROVE BuyTypeOK OBVIOUS
<1> USE BuyAssumption DEF BuyInv, BuyShape
<1>1. payments \in [JobIds -> 0 .. (2 * Amount)] BY DEF SpendBounded, StartShape
<1>2. ending \in [JobIds -> 0 .. 1] /\ ended \in [JobIds -> 0 .. 1]
  <2>1. \A n \in JobIds : ending[n] \in 0 .. 1 /\ ended[n] \in 0 .. 1
      BY DEF EndedOnce, EndShape
  <2> QED BY <2>1 DEF EndShape
<1> QED BY <1>1, <1>2
    DEF BuyTypeOK, StartShape, PlatformShape, Platform, EndShape, WaitShape, SellerShape

-----------------------------------------------------------------------------
(***************************************************************************)
(* Nobody pays more than twice the amount for a job and nobody works       *)
(* unpaid, whatever fails and however often start() is called (session.ts  *)
(* start); the types hold.                                                 *)
(***************************************************************************)
THEOREM PaymentsRight == BuySpec => []PaidIsRight
<1>1. BuyInv => PaidIsRight
  BY BuyInvTypes DEF BuyInv, PaidIsRight, ActiveIsFresh, ActiveHasRun, PaidFirst, Ran
<1> QED BY <1>1, BuyInductive, PTL

(***************************************************************************)
(* The end of a session is reported once (session.ts endSession).          *)
(***************************************************************************)
THEOREM EndsOnce == BuySpec => []EndedOnce
<1>1. BuyInv => EndedOnce BY DEF BuyInv
<1> QED BY <1>1, BuyInductive, PTL

(***************************************************************************)
(* job:delivered is emitted once, for a job the platform holds as          *)
(* delivered, for any number of session_ending events (agent.ts            *)
(* autoDeliver).                                                           *)
(***************************************************************************)
THEOREM DeliveriesReal == BuySpec => []AnnouncedIsDelivered
<1>1. BuyInv => AnnouncedIsDelivered BY DEF BuyInv
<1> QED BY <1>1, BuyInductive, PTL

-----------------------------------------------------------------------------
(* AccessExchange *)

Known == {"verified", "minted"}
VerifPhases == {"idle", "keys", "replay", "verified", "minted", "refused"}
VerifRecords == [phase : VerifPhases, nonce : Nonces \union {None}, seller : Sellers \union {None},
                 damaged : BOOLEAN, need : Nat]
EnvelopeRecords == [nonce : Nonces, seller : Sellers, ts : Int, exp : Int]
OpeningRecords == [phase : {"idle", "keys", "opened", "refused"}, envelope : Nat,
                   damaged : BOOLEAN]

ExchangeShape ==
    /\ time \in 0 .. MaxClock /\ skew \in Skews
    /\ request \in [Nonces -> Requests \union {None}]
    /\ verif \in [Verifs -> VerifRecords]
    /\ seen \subseteq Sellers \X Nonces
    /\ envelopes \in Seq(EnvelopeRecords)
    /\ opening \in [Nonces -> OpeningRecords]

\* A verification is about a request that was built, by some seller.
VerifNamed ==
    \A v \in Verifs : verif[v].phase # "idle" =>
        verif[v].nonce \in Nonces /\ verif[v].seller \in Sellers /\ request[verif[v].nonce] # None

\* Past the signature, the copy was intact and enough cosigners had signed.
Passed(v) == ~verif[v].damaged /\ EnoughSigned(v)
PassedTheCheck == \A v \in Verifs : verif[v].phase \in {"replay"} \union Known => Passed(v)

\* Past the replay check, the nonce is recorded and no other verification has
\* passed it with the same one.
OneVerified ==
    \A v \in Verifs : verif[v].phase \in Known /\ HasGuard(v) =>
        /\ <<verif[v].seller, verif[v].nonce>> \in seen
        /\ \A w \in Verifs : verif[w].phase \in Known /\ verif[w].nonce = verif[v].nonce
                               /\ verif[w].seller = verif[v].seller => w = v

\* Each envelope stems from a verification that ended with it.
MintedBy(v, env) ==
    verif[v].phase = "minted" /\ verif[v].nonce = env.nonce /\ verif[v].seller = env.seller
EnvelopesMinted == \A e \in 1 .. Len(envelopes) : \E v \in Verifs : MintedBy(v, envelopes[e])

\* What the buyer opened is signed by the seller it asked, for its request.
OpenedMatches ==
    \A n \in Nonces : opening[n].phase = "opened" =>
        LET env == envelopes[opening[n].envelope] IN
        env.nonce = n /\ env.seller = request[n].seller

\* The buyer has an envelope in hand that exists, for a request it built.
OpeningNamed ==
    \A n \in Nonces :
        IF opening[n].phase = "idle" THEN opening[n].envelope = 0
        ELSE request[n] # None /\ opening[n].envelope \in 1 .. Len(envelopes)

ExchangeInv == /\ ExchangeShape /\ VerifNamed /\ PassedTheCheck /\ OneVerified /\ EnvelopesMinted
        /\ OpeningNamed /\ OneKeyPerRequest /\ JunkBurnsNothing /\ OpenedMatches

-----------------------------------------------------------------------------
LEMMA ExchangeInitInv == ExchangeInit => ExchangeInv
<1> SUFFICES ASSUME ExchangeInit PROVE ExchangeInv OBVIOUS
<1> USE ExchangeAssumption DEF ExchangeInit, NoVerif, NoOpening
<1>1. ExchangeShape BY DEF ExchangeShape, VerifRecords, OpeningRecords, VerifPhases
<1>2. VerifNamed /\ PassedTheCheck BY DEF VerifNamed, PassedTheCheck, Known
<1>3. OneVerified BY DEF OneVerified, Known
<1>4. EnvelopesMinted /\ OpeningNamed BY DEF EnvelopesMinted, OpeningNamed
<1>5. OneKeyPerRequest /\ JunkBurnsNothing BY DEF OneKeyPerRequest, JunkBurnsNothing
<1>6. OpenedMatches BY DEF OpenedMatches
<1> QED BY <1>1, <1>2, <1>3, <1>4, <1>5, <1>6 DEF ExchangeInv

\* What is signed is a request, whoever signs it and whatever the clocks say.
LEMMA BuildType ==
    ASSUME ExchangeShape, NEW s \in Sellers
    PROVE  /\ \A b \in {"R", "i"}, sigs \in Signings : buildAccessRequest(b, s, sigs) \in Requests
           /\ \A ttl \in TTLs, sigs \in Signings :
                buildRequestAccessEnvelope(s, ttl, sigs) \in Requests
<1>1. buyerClock \in Int BY ExchangeAssumption DEF ExchangeShape, buyerClock
<1>2. \A ttl \in TTLs : (IF ttl < MAX_TTL THEN ttl ELSE MAX_TTL) \in Nat BY ExchangeAssumption
<1> QED BY <1>1, <1>2 DEF buildAccessRequest, buildRequestAccessEnvelope, Requests

\* What a verification is about does not change with its phase.
LEMMA PhaseStep ==
    ASSUME ExchangeShape, NEW v \in Verifs, NEW p \in VerifPhases, Phase(v, p)
    PROVE  /\ verif' \in [Verifs -> VerifRecords]
           /\ verif'[v].phase = p
           /\ \A w \in Verifs : w # v => verif'[w].phase = verif[w].phase
           /\ \A w \in Verifs : /\ verif'[w].nonce = verif[w].nonce
                                /\ verif'[w].seller = verif[w].seller
                                /\ verif'[w].damaged = verif[w].damaged
                                /\ verif'[w].need = verif[w].need
<1>1. /\ verif'[v] = [verif[v] EXCEPT !.phase = p]
      /\ \A w \in Verifs : w # v => verif'[w] = verif[w]
  BY DEF ExchangeShape, Phase
<1>2. verif'[v] \in VerifRecords BY <1>1 DEF ExchangeShape, VerifRecords
<1>3. verif' \in [Verifs -> VerifRecords] BY <1>2 DEF ExchangeShape, Phase
<1>4. /\ verif'[v].phase = p /\ verif'[v].nonce = verif[v].nonce
      /\ verif'[v].seller = verif[v].seller /\ verif'[v].damaged = verif[v].damaged
      /\ verif'[v].need = verif[v].need
  BY <1>1 DEF ExchangeShape, VerifRecords
<1> QED BY <1>1, <1>3, <1>4

\* A step that only builds a new request.
LEMMA BuildInv == ASSUME ExchangeInv, NEW n \in Nonces, Build(n) PROVE ExchangeInv'
<1> USE DEF ExchangeInv
<1>1. UNCHANGED <<time, skew, verif, seen, envelopes, opening>> BY DEF Build
<1>2. PICK r \in Requests : request' = [request EXCEPT ![n] = r] BY BuildType DEF Build
<1>3. request[n] = None /\ \A m \in Nonces : m # n => request'[m] = request[m]
  BY <1>2 DEF Build, ExchangeShape
<1>4. \A m \in Nonces : request[m] # None => request'[m] = request[m] BY <1>3
<1>5. ExchangeShape' BY <1>1, <1>2 DEF ExchangeShape
<1>6. VerifNamed' BY <1>1, <1>4 DEF VerifNamed
<1>7. \A w \in Verifs : verif[w].phase # "idle" =>
          /\ request'[verif[w].nonce] = request[verif[w].nonce]
          /\ Passed(w)' = Passed(w) /\ HasGuard(w)' = HasGuard(w)
  <2> SUFFICES ASSUME NEW w \in Verifs, verif[w].phase # "idle"
               PROVE  /\ request'[verif[w].nonce] = request[verif[w].nonce]
                      /\ Passed(w)' = Passed(w) /\ HasGuard(w)' = HasGuard(w)
    OBVIOUS
  <2>1. request'[verif[w].nonce] = request[verif[w].nonce] BY <1>4 DEF VerifNamed
  <2> QED BY <1>1, <2>1 DEF Passed, EnoughSigned, HasGuard
<1>8. PassedTheCheck' /\ OneVerified' BY <1>1, <1>7 DEF PassedTheCheck, OneVerified, Known
<1>9. EnvelopesMinted' /\ JunkBurnsNothing' BY <1>1 DEF EnvelopesMinted, MintedBy, JunkBurnsNothing
<1>10. OneKeyPerRequest'
  <2>1. \A e \in DOMAIN envelopes : request'[envelopes[e].nonce] = request[envelopes[e].nonce]
    BY <1>7 DEF ExchangeShape, EnvelopesMinted, MintedBy
  <2> QED BY <1>1, <2>1 DEF OneKeyPerRequest
<1>11. OpeningNamed' /\ OpenedMatches' BY <1>1, <1>4 DEF OpeningNamed, OpenedMatches
<1> QED BY <1>5, <1>6, <1>8, <1>9, <1>10, <1>11

\* A verification starts.
LEMMA BeginVerifyInv ==
    ASSUME ExchangeInv, NEW v \in Verifs, NEW n \in Nonces, NEW s \in Sellers, NEW d \in BOOLEAN,
           BeginVerify(v, n, s, d)
    PROVE  ExchangeInv'
<1> USE DEF ExchangeInv
<1>1. UNCHANGED <<time, skew, request, seen, envelopes, opening>> BY DEF BeginVerify
<1>2. PICK p \in {"keys", "refused"} :
         verif' = [verif EXCEPT ![v] = [phase |-> p, nonce |-> n, seller |-> s, damaged |-> d,
                                  need |-> 0]]
  BY DEF BeginVerify
<1>3. verif[v].phase = "idle" /\ request[n] # None BY DEF BeginVerify
<1>4. /\ verif'[v] = [phase |-> p, nonce |-> n, seller |-> s, damaged |-> d,
                                  need |-> 0]
      /\ \A w \in Verifs : w # v => verif'[w] = verif[w]
  BY <1>2 DEF ExchangeShape
<1>5. ExchangeShape'
  <2>1. verif'[v] \in VerifRecords BY <1>4 DEF VerifRecords, VerifPhases
  <2> QED BY <1>1, <1>2, <2>1 DEF ExchangeShape
<1>6. VerifNamed' BY <1>1, <1>3, <1>4 DEF VerifNamed
<1>7. PassedTheCheck'
  <2> SUFFICES ASSUME NEW w \in Verifs, verif'[w].phase \in {"replay"} \union Known
               PROVE  Passed(w)'
    BY DEF PassedTheCheck
  <2>1. w # v BY <1>4 DEF Known
  <2>2. verif'[w] = verif[w] /\ Passed(w) BY <1>4, <2>1 DEF PassedTheCheck
  <2> QED BY ONLY <1>1, <2>2 DEF Passed, EnoughSigned
<1>8. OneVerified' BY <1>1, <1>3, <1>4 DEF OneVerified, Known, HasGuard
<1>9. EnvelopesMinted' BY <1>1, <1>3, <1>4 DEF EnvelopesMinted, MintedBy
<1>10. JunkBurnsNothing' BY <1>1, <1>3, <1>4 DEF JunkBurnsNothing
<1>11. OpeningNamed' /\ OneKeyPerRequest' /\ OpenedMatches'
  BY <1>1 DEF OpeningNamed, OneKeyPerRequest, OpenedMatches
<1> QED BY <1>5, <1>6, <1>7, <1>8, <1>9, <1>10, <1>11

\* Enough of the cosigners are enough distinct signatures.
LEMMA SignersCounted ==
    ASSUME NEW sigs \in Signings, NEW need \in Nat
    PROVE  verifyCanonicalSignatures(sigs, Cosigners, need) =>
             Cardinality({sigs[i] : i \in DOMAIN sigs}) >= need
<1>1. {a \in Cosigners : \E i \in DOMAIN sigs : sigs[i] = a} = {sigs[i] : i \in DOMAIN sigs}
  BY ExchangeAssumption
<1> QED BY <1>1 DEF verifyCanonicalSignatures

\* The keys of the buyer arrive.
LEMMA KeysInv == ASSUME ExchangeInv, NEW v \in Verifs, KeysArrive(v) PROVE ExchangeInv'
<1> USE DEF ExchangeInv
<1>1. UNCHANGED <<time, skew, request, seen, envelopes, opening>> BY DEF KeysArrive
<1>2. verif[v].phase = "keys" /\ verif[v].nonce \in Nonces BY DEF KeysArrive, VerifNamed
<1> DEFINE r == request[verif[v].nonce]
           authentic(keys, need) == IF r.format = "v1" THEN AnySignature(r, keys)
                     ELSE keys # {} /\ verifyCanonicalSignatures(r.signed, keys, need)
<1>3. PICK keys \in {Cosigners, {}}, need \in Nat, p \in {"replay", "verified", "refused"} :
         /\ verif' = [verif EXCEPT ![v].need = need, ![v].phase = p]
         /\ p # "refused" => authentic(keys, need) /\ ~verif[v].damaged
         /\ p = "verified" => ~HasGuard(v)
  <2>1. Thresholds \subseteq Nat BY ExchangeAssumption DEF Thresholds
  <2>2. PICK keys \in {Cosigners, {}}, need \in Nat :
          verif' = [verif EXCEPT ![v].need = need,
                                 ![v].phase = IF ~authentic(keys, need) \/ verif[v].damaged
                                              THEN "refused"
                                              ELSE IF HasGuard(v) THEN "replay" ELSE "verified"]
    BY <2>1 DEF KeysArrive
  <2>3. CASE ~authentic(keys, need) \/ verif[v].damaged BY <2>2, <2>3
  <2>4. CASE ~(~authentic(keys, need) \/ verif[v].damaged) /\ HasGuard(v) BY <2>2, <2>4
  <2>5. CASE ~(~authentic(keys, need) \/ verif[v].damaged) /\ ~HasGuard(v) BY <2>2, <2>5
  <2> QED BY <2>3, <2>4, <2>5
<1> HIDE DEF authentic
<1>4. /\ verif' \in [Verifs -> VerifRecords] /\ verif'[v].phase = p /\ verif'[v].need = need
      /\ verif'[v].damaged = verif[v].damaged
      /\ \A w \in Verifs : w # v => verif'[w] = verif[w]
      /\ \A w \in Verifs : verif'[w].nonce = verif[w].nonce /\ verif'[w].seller = verif[w].seller
  <2>1. verif[v] \in VerifRecords /\ verif \in [Verifs -> VerifRecords] BY DEF ExchangeShape
  <2>2. verif'[v] = [verif[v] EXCEPT !.need = need, !.phase = p]
    BY <1>3, <2>1
  <2>3. verif'[v] \in VerifRecords /\ verif'[v].phase = p /\ verif'[v].need = need
        /\ verif'[v].damaged = verif[v].damaged
        /\ verif'[v].nonce = verif[v].nonce /\ verif'[v].seller = verif[v].seller
    BY <2>1, <2>2 DEF VerifRecords, VerifPhases
  <2>4. \A w \in Verifs : w # v => verif'[w] = verif[w] BY <1>3, <2>1
  <2>5. verif' \in [Verifs -> VerifRecords] BY <1>3, <2>1, <2>2, <2>3
  <2> QED BY <2>3, <2>4, <2>5
<1>5. ExchangeShape' BY <1>1, <1>4 DEF ExchangeShape
<1>6. VerifNamed' BY <1>1, <1>2, <1>4 DEF VerifNamed
<1>7. PassedTheCheck'
  <2> SUFFICES ASSUME NEW w \in Verifs, verif'[w].phase \in {"replay"} \union Known
               PROVE  Passed(w)'
    BY DEF PassedTheCheck
  <2>1. CASE w # v
    <3>1. verif'[w] = verif[w] /\ Passed(w) BY <1>4, <2>1 DEF PassedTheCheck
    <3> QED BY ONLY <1>1, <3>1 DEF Passed, EnoughSigned
  <2>2. CASE w = v
    <3>1. authentic(keys, need) /\ ~verif[v].damaged BY <1>3, <1>4, <2>2 DEF Known
    <3>2. r \in Requests BY <1>2 DEF ExchangeShape, VerifNamed
    <3>3. r.signed \in Signings /\ r.format \in {"v1", "v2"} BY <3>2 DEF Requests
    <3>4. r.format = "v2" => Cardinality({r.signed[i] : i \in DOMAIN r.signed}) >= need
      <4> SUFFICES ASSUME r.format = "v2"
                   PROVE  Cardinality({r.signed[i] : i \in DOMAIN r.signed}) >= need
        OBVIOUS
      <4>1. keys # {} /\ verifyCanonicalSignatures(r.signed, keys, need) BY <3>1 DEF authentic
      <4>2. keys = Cosigners BY <4>1
      <4> QED BY <3>3, <4>1, <4>2, SignersCounted
    <3>5. request'[verif'[v].nonce] = r /\ verif'[v].need = need /\ ~verif'[v].damaged
      BY <1>1, <1>4, <3>1
    <3> QED BY ONLY <2>2, <3>4, <3>5 DEF Passed, EnoughSigned
  <2> QED BY <2>1, <2>2
<1>8. OneVerified'
  <2>1. \A w \in Verifs : HasGuard(w)' = HasGuard(w) BY <1>1, <1>4 DEF HasGuard
  <2>2. \A w \in Verifs : verif'[w].phase \in Known /\ HasGuard(w) =>
                            verif[w].phase \in Known /\ w # v
    BY <1>3, <1>4 DEF Known
  <2>3. \A w \in Verifs : verif[w].nonce = verif[v].nonce /\ verif[w].seller = verif[v].seller
                            => HasGuard(w) = HasGuard(v)
    BY DEF HasGuard
  <2> QED BY <1>1, <1>3, <1>4, <2>1, <2>2, <2>3 DEF OneVerified, Known
<1>9. EnvelopesMinted' BY <1>1, <1>2, <1>4 DEF EnvelopesMinted, MintedBy
<1>10. JunkBurnsNothing' BY <1>1, <1>2, <1>4 DEF JunkBurnsNothing
<1> HIDE DEF r
<1>11. OpeningNamed' /\ OneKeyPerRequest' /\ OpenedMatches'
  BY <1>1 DEF OpeningNamed, OneKeyPerRequest, OpenedMatches
<1> QED BY <1>5, <1>6, <1>7, <1>8, <1>9, <1>10, <1>11

\* The replay check, and the record that goes with it.
LEMMA ReplayInv == ASSUME ExchangeInv, NEW v \in Verifs, CheckReplay(v) PROVE ExchangeInv'
<1> USE DEF ExchangeInv
<1>1. UNCHANGED <<time, skew, request, envelopes, opening>> BY DEF CheckReplay
<1>2. /\ verif[v].phase = "replay" /\ verif[v].nonce \in Nonces /\ verif[v].seller \in Sellers
      /\ seen' = seen \union {<<verif[v].seller, verif[v].nonce>>}
  BY DEF CheckReplay, VerifNamed
<1>3. PICK p \in {"refused", "verified"} :
         /\ Phase(v, p)
         /\ p = "verified" => <<verif[v].seller, verif[v].nonce>> \notin seen
         /\ p = "refused" => seen' = seen
  BY <1>2 DEF CheckReplay
<1>4. /\ verif' \in [Verifs -> VerifRecords] /\ verif'[v].phase = p
      /\ \A w \in Verifs : w # v => verif'[w].phase = verif[w].phase
      /\ \A w \in Verifs : /\ verif'[w].nonce = verif[w].nonce
                           /\ verif'[w].seller = verif[w].seller
                           /\ verif'[w].damaged = verif[w].damaged
                           /\ verif'[w].need = verif[w].need
  BY <1>3, PhaseStep DEF VerifPhases
<1>5. ExchangeShape' BY <1>1, <1>2, <1>4 DEF ExchangeShape
<1>6. VerifNamed' BY <1>1, <1>2, <1>4 DEF VerifNamed
<1>7. PassedTheCheck'
  <2>1. \A w \in Verifs : /\ verif'[w].phase \in {"replay"} \union Known =>
                              verif[w].phase \in {"replay"} \union Known
                          /\ verif'[w].damaged = verif[w].damaged
                          /\ verif'[w].need = verif[w].need
                          /\ request'[verif'[w].nonce] = request[verif[w].nonce]
    BY <1>1, <1>2, <1>4
  <2>2. \A w \in Verifs : verif'[w].phase \in {"replay"} \union Known => Passed(w)
    BY <2>1 DEF PassedTheCheck
  <2>3. \A w \in Verifs : Passed(w)' = Passed(w) BY ONLY <2>1 DEF Passed, EnoughSigned
  <2> QED BY <2>2, <2>3 DEF PassedTheCheck
<1>8. OneVerified'
  <2>0. \A w \in Verifs : HasGuard(w)' = HasGuard(w) BY <1>1, <1>4 DEF HasGuard
  <2>5. \A w, y \in Verifs : verif[w].nonce = verif[y].nonce /\ verif[w].seller = verif[y].seller
                              => HasGuard(w) = HasGuard(y)
    BY DEF HasGuard
  <2> SUFFICES ASSUME NEW x \in Verifs, verif'[x].phase \in Known, HasGuard(x)
               PROVE  /\ <<verif[x].seller, verif[x].nonce>> \in seen'
                      /\ \A w \in Verifs :
                           verif'[w].phase \in Known /\ verif[w].nonce = verif[x].nonce
                             /\ verif[w].seller = verif[x].seller => w = x
    BY <1>4, <2>0 DEF OneVerified
  <2>1. \A w \in Verifs : w # v /\ verif'[w].phase \in Known /\ HasGuard(w) =>
          /\ <<verif[w].seller, verif[w].nonce>> \in seen
          /\ \A y \in Verifs : verif[y].phase \in Known /\ verif[y].nonce = verif[w].nonce
                               /\ verif[y].seller = verif[w].seller => y = w
    BY <1>4 DEF OneVerified
  <2>2. verif'[v].phase \in Known => <<verif[v].seller, verif[v].nonce>> \notin seen
    BY <1>3, <1>4 DEF Known
  <2>3. CASE x = v BY <1>2, <2>1, <2>2, <2>3, <2>5
  <2>4. CASE x # v BY <1>2, <1>4, <2>1, <2>2, <2>4, <2>5
  <2> QED BY <2>3, <2>4
<1>9. EnvelopesMinted' BY <1>1, <1>2, <1>4 DEF EnvelopesMinted, MintedBy
<1>10. JunkBurnsNothing'
  <2> SUFFICES ASSUME NEW q \in seen'
               PROVE  \E w \in Verifs : /\ verif[w].seller = q[1] /\ verif[w].nonce = q[2]
                                        /\ ~verif[w].damaged /\ verif'[w].phase \in Known
    BY <1>4 DEF JunkBurnsNothing, Known
  <2>1. CASE q \in seen
    <3>1. PICK w \in Verifs : /\ verif[w].seller = q[1] /\ verif[w].nonce = q[2]
                             /\ ~verif[w].damaged /\ verif[w].phase \in Known
      BY <2>1 DEF JunkBurnsNothing, Known
    <3> QED BY <1>2, <1>4, <3>1 DEF Known
  <2>2. CASE q \notin seen
    <3>1. q = <<verif[v].seller, verif[v].nonce>> /\ p = "verified" BY <1>2, <1>3, <2>2
    <3> QED BY <1>2, <1>4, <3>1 DEF Known, PassedTheCheck, Passed
  <2> QED BY <2>1, <2>2
<1>11. OpeningNamed' /\ OneKeyPerRequest' /\ OpenedMatches'
  BY <1>1 DEF OpeningNamed, OneKeyPerRequest, OpenedMatches
<1> QED BY <1>5, <1>6, <1>7, <1>8, <1>9, <1>10, <1>11

\* An envelope is minted for a verification that alone passed for its request.
LEMMA MintInv == ASSUME ExchangeInv, NEW v \in Verifs, Mint(v) PROVE ExchangeInv'
<1> USE DEF ExchangeInv
<1> DEFINE env == [nonce |-> verif[v].nonce, seller |-> verif[v].seller,
                   ts |-> time, exp |-> time + KeyLife]
<1>1. UNCHANGED <<time, skew, request, seen, opening>> BY DEF Mint
<1>2. /\ verif[v].phase = "verified" /\ verif[v].nonce \in Nonces /\ verif[v].seller \in Sellers
      /\ envelopes' = Append(envelopes, env)
  BY DEF Mint, VerifNamed
<1>3. Phase(v, "minted") BY DEF Mint
<1>4. /\ verif' \in [Verifs -> VerifRecords] /\ verif'[v].phase = "minted"
      /\ \A w \in Verifs : w # v => verif'[w].phase = verif[w].phase
      /\ \A w \in Verifs : /\ verif'[w].nonce = verif[w].nonce
                           /\ verif'[w].seller = verif[w].seller
                           /\ verif'[w].damaged = verif[w].damaged
                           /\ verif'[w].need = verif[w].need
  BY <1>3, PhaseStep DEF VerifPhases
<1>5. env \in EnvelopeRecords
  <2>1. time \in Int /\ time + KeyLife \in Int BY ExchangeAssumption DEF ExchangeShape
  <2> QED BY <1>2, <2>1 DEF EnvelopeRecords
<1> HIDE DEF env
<1>6. /\ envelopes' \in Seq(EnvelopeRecords) /\ Len(envelopes) \in Nat
      /\ Len(envelopes') = Len(envelopes) + 1
      /\ envelopes'[Len(envelopes) + 1] = env
      /\ \A e \in 1 .. Len(envelopes) : envelopes'[e] = envelopes[e]
  BY <1>2, <1>5 DEF ExchangeShape
<1>7. env.nonce = verif[v].nonce /\ env.seller = verif[v].seller BY DEF env
<1>8. ExchangeShape' BY <1>1, <1>4, <1>6 DEF ExchangeShape
<1>9. VerifNamed' BY <1>1, <1>2, <1>4 DEF VerifNamed
<1>10. PassedTheCheck'
  <2>1. \A w \in Verifs : /\ verif'[w].phase \in {"replay"} \union Known =>
                              verif[w].phase \in {"replay"} \union Known
                          /\ verif'[w].damaged = verif[w].damaged
                          /\ verif'[w].need = verif[w].need
                          /\ request'[verif'[w].nonce] = request[verif[w].nonce]
    BY <1>1, <1>2, <1>4 DEF Known
  <2> QED BY <2>1 DEF PassedTheCheck, Passed, EnoughSigned
<1>11. \A w \in Verifs : verif'[w].phase \in Known <=> verif[w].phase \in Known
  BY <1>2, <1>4 DEF Known
<1>12. OneVerified' BY <1>1, <1>4, <1>11 DEF OneVerified, HasGuard
<1>13. JunkBurnsNothing'
  <2>1. \A p \in seen : \E w \in Verifs : /\ verif[w].seller = p[1] /\ verif[w].nonce = p[2]
                                          /\ ~verif[w].damaged /\ verif[w].phase \in Known
    BY DEF JunkBurnsNothing, Known
  <2> QED BY <1>1, <1>4, <1>11, <2>1 DEF JunkBurnsNothing, Known
<1>14. EnvelopesMinted'
  <2>1. SUFFICES ASSUME NEW e \in 1 .. Len(envelopes')
                 PROVE  \E w \in Verifs : /\ verif'[w].phase = "minted"
                                          /\ verif'[w].nonce = envelopes'[e].nonce
                                          /\ verif'[w].seller = envelopes'[e].seller
    BY DEF EnvelopesMinted, MintedBy
  <2>2. CASE e = Len(envelopes) + 1 BY <1>4, <1>6, <1>7, <2>2
  <2>3. CASE e \in 1 .. Len(envelopes)
    <3>1. PICK w \in Verifs : /\ verif[w].phase = "minted" /\ verif[w].nonce = envelopes[e].nonce
                              /\ verif[w].seller = envelopes[e].seller
      BY <2>3 DEF EnvelopesMinted, MintedBy
    <3> QED BY <1>2, <1>4, <1>6, <2>3, <3>1
  <2> QED BY <1>6, <2>2, <2>3
<1>15. \A e \in 1 .. Len(envelopes) :
          HasGuard(v) => ~(envelopes[e].nonce = env.nonce /\ envelopes[e].seller = env.seller)
  <2> SUFFICES ASSUME NEW e \in 1 .. Len(envelopes), envelopes[e].nonce = env.nonce,
                      envelopes[e].seller = env.seller, HasGuard(v)
               PROVE  FALSE
    OBVIOUS
  <2>1. PICK w \in Verifs : /\ verif[w].phase = "minted" /\ verif[w].nonce = envelopes[e].nonce
                            /\ verif[w].seller = envelopes[e].seller
    BY DEF EnvelopesMinted, MintedBy
  <2>2. w = v BY <1>2, <1>7, <2>1 DEF OneVerified, Known
  <2> QED BY <1>2, <2>1, <2>2
<1>16. OneKeyPerRequest'
  <2>1. DOMAIN envelopes' = 1 .. Len(envelopes) + 1 /\ DOMAIN envelopes = 1 .. Len(envelopes)
    BY <1>6 DEF ExchangeShape
  <2>2. request'[env.nonce].format = "v1" /\ env.seller \in Guarded => HasGuard(v)
    BY <1>1, <1>7 DEF HasGuard
  <2> QED BY <1>1, <1>6, <1>15, <2>1, <2>2 DEF OneKeyPerRequest
<1>17. OpeningNamed' BY <1>1, <1>6 DEF OpeningNamed
<1>18. OpenedMatches'
  <2>1. \A n \in Nonces : opening[n].phase = "opened" =>
          envelopes'[opening[n].envelope] = envelopes[opening[n].envelope]
    BY <1>6 DEF OpeningNamed
  <2> QED BY <1>1, <2>1 DEF OpenedMatches
<1> QED BY <1>8, <1>9, <1>10, <1>12, <1>13, <1>14, <1>16, <1>17, <1>18

\* The buyer starts to open an envelope.
LEMMA BeginOpenInv ==
    ASSUME ExchangeInv, NEW n \in Nonces, NEW e \in DOMAIN envelopes, NEW d \in BOOLEAN,
           BeginOpen(n, e, d)
    PROVE  ExchangeInv'
<1> USE DEF ExchangeInv
<1>1. UNCHANGED <<time, skew, request, verif, seen, envelopes>> BY DEF BeginOpen
<1>2. PICK p \in {"keys", "refused"} :
         opening' = [opening EXCEPT ![n] = [phase |-> p, envelope |-> e, damaged |-> d]]
  BY DEF BeginOpen
<1>3. request[n] # None /\ e \in 1 .. Len(envelopes) /\ e \in Nat BY DEF BeginOpen, ExchangeShape
<1>4. /\ opening'[n] = [phase |-> p, envelope |-> e, damaged |-> d]
      /\ \A m \in Nonces : m # n => opening'[m] = opening[m]
  BY <1>2 DEF ExchangeShape
<1>5. ExchangeShape'
  <2>1. opening'[n] \in OpeningRecords BY <1>3, <1>4 DEF OpeningRecords
  <2> QED BY <1>1, <1>2, <2>1 DEF ExchangeShape
<1>6. OpeningNamed' BY <1>1, <1>3, <1>4 DEF OpeningNamed
<1>7. OpenedMatches'
  <2>1. \A m \in Nonces : opening'[m].phase = "opened" => opening'[m] = opening[m] BY <1>4
  <2> QED BY <1>1, <2>1 DEF OpenedMatches
<1>8. VerifNamed' /\ PassedTheCheck' BY <1>1 DEF VerifNamed, PassedTheCheck, Passed, EnoughSigned
<1>9. OneVerified' /\ EnvelopesMinted' BY <1>1 DEF OneVerified, EnvelopesMinted, MintedBy, HasGuard
<1>10. OneKeyPerRequest' /\ JunkBurnsNothing' BY <1>1 DEF OneKeyPerRequest, JunkBurnsNothing
<1> QED BY <1>5, <1>6, <1>7, <1>8, <1>9, <1>10

\* The buyer opens it, or refuses it.
LEMMA OpenInv == ASSUME ExchangeInv, NEW n \in Nonces, Open(n) PROVE ExchangeInv'
<1> USE DEF ExchangeInv
<1>1. UNCHANGED <<time, skew, request, verif, seen, envelopes>> BY DEF Open
<1>2. PICK p \in {"opened", "refused"} :
         /\ opening' = [opening EXCEPT ![n].phase = p]
         /\ p = "opened" => /\ envelopes[opening[n].envelope].seller = request[n].seller
                            /\ envelopes[opening[n].envelope].nonce = n
  BY DEF Open, Authentic
<1>3. opening[n].phase = "keys" BY DEF Open
<1>4. /\ opening'[n] = [opening[n] EXCEPT !.phase = p]
      /\ \A m \in Nonces : m # n => opening'[m] = opening[m]
  BY <1>2 DEF ExchangeShape
<1>5. /\ opening'[n] \in OpeningRecords /\ opening'[n].phase = p
      /\ opening'[n].envelope = opening[n].envelope
  <2>1. opening[n] \in OpeningRecords BY DEF ExchangeShape
  <2> HIDE DEF ExchangeInv
  <2> QED BY <1>4, <2>1 DEF OpeningRecords
<1>6. ExchangeShape' BY <1>1, <1>2, <1>5 DEF ExchangeShape
<1>7. OpeningNamed' BY <1>1, <1>3, <1>4, <1>5 DEF OpeningNamed
<1>8. OpenedMatches'
  <2> SUFFICES ASSUME NEW m \in Nonces, opening'[m].phase = "opened"
               PROVE  /\ envelopes[opening'[m].envelope].nonce = m
                      /\ envelopes[opening'[m].envelope].seller = request[m].seller
    BY <1>1 DEF OpenedMatches
  <2>1. CASE m = n BY <1>2, <1>5, <2>1
  <2>2. CASE m # n BY <1>4, <2>2 DEF OpenedMatches
  <2> QED BY <2>1, <2>2
<1>9. VerifNamed' /\ PassedTheCheck' BY <1>1 DEF VerifNamed, PassedTheCheck, Passed, EnoughSigned
<1>10. OneVerified' /\ EnvelopesMinted' BY <1>1 DEF OneVerified, EnvelopesMinted, MintedBy, HasGuard
<1>11. OneKeyPerRequest' /\ JunkBurnsNothing' BY <1>1 DEF OneKeyPerRequest, JunkBurnsNothing
<1> QED BY <1>6, <1>7, <1>8, <1>9, <1>10, <1>11

\* Time passes, or nothing changes.
LEMMA IdleInv == ASSUME ExchangeInv, ClockTicks \/ UNCHANGED exchangeVars PROVE ExchangeInv'
<1> USE DEF ExchangeInv
<1>1. UNCHANGED <<skew, request, verif, seen, envelopes, opening>> BY DEF ClockTicks, exchangeVars
<1>2. time' \in 0 .. MaxClock BY ExchangeAssumption DEF ClockTicks, exchangeVars, ExchangeShape
<1>3. ExchangeShape' BY <1>1, <1>2 DEF ExchangeShape
<1>4. VerifNamed' /\ PassedTheCheck' BY <1>1 DEF VerifNamed, PassedTheCheck, Passed, EnoughSigned
<1>5. OneVerified' /\ EnvelopesMinted' BY <1>1 DEF OneVerified, EnvelopesMinted, MintedBy, HasGuard
<1>6. OneKeyPerRequest' /\ JunkBurnsNothing' BY <1>1 DEF OneKeyPerRequest, JunkBurnsNothing
<1>7. OpeningNamed' /\ OpenedMatches' BY <1>1 DEF OpeningNamed, OpenedMatches
<1> QED BY <1>3, <1>4, <1>5, <1>6, <1>7

LEMMA ExchangeStepInv == ExchangeInv /\ [ExchangeNext]_exchangeVars => ExchangeInv'
<1> SUFFICES ASSUME ExchangeInv, [ExchangeNext]_exchangeVars PROVE ExchangeInv' OBVIOUS
<1>1. CASE ClockTicks \/ UNCHANGED exchangeVars BY <1>1, IdleInv
<1>2. CASE \E n \in Nonces : Build(n) \/ Open(n) BY <1>2, BuildInv, OpenInv
<1>3. CASE \E n \in Nonces, e \in DOMAIN envelopes, d \in BOOLEAN : BeginOpen(n, e, d)
  BY <1>3, BeginOpenInv
<1>4. CASE \E v \in Verifs : KeysArrive(v) \/ CheckReplay(v) \/ Mint(v)
  BY <1>4, KeysInv, ReplayInv, MintInv
<1>5. CASE \E v \in Verifs, n \in Nonces, s \in Sellers, d \in BOOLEAN : BeginVerify(v, n, s, d)
  BY <1>5, BeginVerifyInv
<1> QED BY <1>1, <1>2, <1>3, <1>4, <1>5 DEF ExchangeNext

LEMMA ExchangeInductive == ExchangeSpec => []ExchangeInv
BY ExchangeInitInv, ExchangeStepInv, PTL DEF ExchangeSpec

-----------------------------------------------------------------------------
LEMMA KeysLemma == ExchangeInv => KeysAreEarned
<1> SUFFICES ASSUME ExchangeInv PROVE KeysAreEarned OBVIOUS
<1>1. DOMAIN envelopes = 1 .. Len(envelopes) BY DEF ExchangeInv, ExchangeShape
<1>2. ThresholdMet
  BY DEF ExchangeInv, PassedTheCheck, Passed, ThresholdMet, Known
<1>3. \A n \in Nonces : request[n] # None => request[n] \in Requests
    BY DEF ExchangeInv, ExchangeShape
<1>4. \A v \in Verifs : /\ verif[v].phase \in VerifPhases
                        /\ verif[v].phase # "idle" => request[verif[v].nonce] # None
  BY DEF ExchangeInv, ExchangeShape, VerifRecords, VerifNamed
<1>5. \A e \in DOMAIN envelopes : envelopes[e].nonce \in Nonces
  <2>1. envelopes \in Seq(EnvelopeRecords) BY DEF ExchangeInv, ExchangeShape
  <2>2. \A e \in DOMAIN envelopes : envelopes[e] \in EnvelopeRecords BY <1>1, <2>1
  <2> QED BY <2>2 DEF EnvelopeRecords
<1>6. \A n \in Nonces : opening[n].envelope \in 0 .. Len(envelopes)
  BY DEF ExchangeInv, ExchangeShape, OpeningNamed
<1>7. ExchangeTypeOK 
    BY <1>3, <1>4, <1>5, <1>6 DEF ExchangeInv, ExchangeShape, ExchangeTypeOK, VerifPhases
<1> QED BY <1>2, <1>7 DEF ExchangeInv, KeysAreEarned

(***************************************************************************)
(* A dispatcher with a replay guard answers a v1 request with at most one  *)
(* key, and a v2 request is answered only if as many distinct cosigners    *)
(* signed it as the platform's answer requires (one, when it names no      *)
(* number), whatever the relay repeats, damages, misdirects or delays      *)
(* (envelope.ts verifyAccessRequest, canonical.ts                          *)
(* verifyCanonicalSignatures).                                             *)
(***************************************************************************)
THEOREM KeysEarned == ExchangeSpec => []KeysAreEarned
BY KeysLemma, ExchangeInductive, PTL

(***************************************************************************)
(* A damaged copy of a request never uses up its nonce (envelope.ts,       *)
(* isReplay called after the signature was verified).                      *)
(***************************************************************************)
THEOREM JunkHarmless == ExchangeSpec => []JunkBurnsNothing
<1>1. ExchangeInv => JunkBurnsNothing BY DEF ExchangeInv
<1> QED BY <1>1, ExchangeInductive, PTL

(***************************************************************************)
(* End to end, for any relay: the key a buyer reads was minted at the      *)
(* dispatcher of the seller it asked, by a verification of its own request *)
(* that came through unaltered and signed by enough (envelope.ts           *)
(* verifyAccessRequest, mintAccessEnvelope, openAccessEnvelope).           *)
(***************************************************************************)
THEOREM OpenedIsAnswered == ExchangeSpec => []OpenedIsAnswer
<1>1. ExchangeInv => OpenedIsAnswer
  <2> SUFFICES ASSUME ExchangeInv, NEW n \in Nonces, opening[n].phase = "opened"
               PROVE  \E v \in Verifs :
                        /\ verif[v].phase = "minted" /\ verif[v].nonce = n
                        /\ verif[v].seller = request[n].seller
                        /\ ~verif[v].damaged /\ EnoughSigned(v)
    BY DEF OpenedIsAnswer
  <2>1. opening[n].envelope \in 1 .. Len(envelopes) BY DEF ExchangeInv, OpeningNamed
  <2>2. PICK v \in Verifs : MintedBy(v, envelopes[opening[n].envelope])
    BY <2>1 DEF ExchangeInv, EnvelopesMinted
  <2>3. verif[v].phase = "minted" /\ verif[v].nonce = n /\ verif[v].seller = request[n].seller
    BY <2>2 DEF ExchangeInv, OpenedMatches, MintedBy
  <2>4. Passed(v) BY <2>3 DEF ExchangeInv, PassedTheCheck, Known
  <2> QED BY <2>3, <2>4 DEF Passed
<1> QED BY <1>1, ExchangeInductive, PTL
================================================================================
