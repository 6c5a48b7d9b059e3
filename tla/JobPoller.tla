----------------------------- MODULE JobPoller -----------------------------
(***************************************************************************)
(* The job loop of J41Agent (src/src/agent.ts): start(), stop(), the poll  *)
(* timer and checkForJobs(), with the bounded accept retry of              *)
(* src/src/jobs/accept-retry.ts.                                           *)
(*                                                                         *)
(* JavaScript runs one task at a time, so a step of the model is the code  *)
(* between two awaits.  The things that interleave are: the polls, each in *)
(* the hands of its caller (a start() call or a timer tick); the embedding *)
(* program, which calls start, stop and setHandler and answers             *)
(* onJobRequested; and the platform, which lists jobs and processes accept *)
(* requests, possibly after the client gave up waiting for the answer.     *)
(***************************************************************************)
EXTENDS Integers, Sequences, FiniteSets

CONSTANTS
    Jobs,                 \* ids of the jobs offered to this agent
    NoHash,               \* the jobs the platform lists without a jobHash
    rank,                 \* the platform lists jobs in increasing rank
    Starts,               \* start() calls that can be in flight together
    None,                 \* JavaScript's null
    MAX_SEEN_JOBS,
    MAX_ACCEPT_ATTEMPTS,
    MAX_PER_POLL

ASSUME JobsAssumption   == NoHash \subseteq Jobs /\ rank \in [Jobs -> Nat]
ASSUME CallerAssumption == "tick" \notin Starts /\ None \notin Starts
                           /\ None \notin Jobs
ASSUME CapAssumption    == /\ MAX_SEEN_JOBS \in Nat \ {0}
                           /\ MAX_ACCEPT_ATTEMPTS \in Nat \ {0, 1}
                           /\ MAX_PER_POLL \in Nat \ {0}

VARIABLES
    handler,      \* "none", "bare" (no onJobRequested) or "asks"
    iAddress,     \* whether the agent knows its i-address
    running, polling,
    pollTimer,    \* the handle stop() can clear, or None
    timers,       \* the intervals alive in the event loop, by creating start()
    start,        \* start() calls: "none", "check" (awaiting), "resume"
    pc, todo, fetched, job, reply, \* the checkForJobs() call of each caller:
                  \* where it is, jobs left in the loop, the whole response,
                  \* the job in hand and the platform's answer about it
    seenJobIds,   \* insertion-ordered, no duplicates
    acceptFailures,
    chat,         \* [up, rooms]: the chat client's connection and joined rooms
    platform,     \* the platform's status of each job
    wire,         \* jobs with an accept request on its way to the platform
    outcome,      \* auxiliary: the last terminal event emitted for a job
    tries         \* auxiliary: accept attempts begun since the counter was reset

agentVars    == <<handler, iAddress, running, pollTimer, timers, start>>
pollVars     == <<pc, todo, fetched, job, reply>>
memoryVars   == <<polling, seenJobIds, acceptFailures, chat>>
platformVars == <<platform, wire>>
auxVars      == <<outcome, tries>>
vars         == <<agentVars, pollVars, memoryVars, platformVars, auxVars>>

----------------------------------------------------------------------------
(* Types *)

Callers  == Starts \cup {"tick"}
Outcomes == {"none", "accepted", "rejected", "abandoned", "noted"}
Working  == {"deciding", "signing", "accepting"}
PCs      == {"idle", "fetching", "loop"} \cup Working

Elems(s) == {s[i] : i \in 1..Len(s)}
Seen     == Elems(seenJobIds)

TypeOK ==
    /\ handler \in {"none", "bare", "asks"} /\ iAddress \in BOOLEAN
    /\ running \in BOOLEAN /\ polling \in BOOLEAN
    /\ pollTimer \in Starts \cup {None} /\ timers \in SUBSET Starts
    /\ start \in [Starts -> {"none", "check", "resume"}]
    /\ pc \in [Callers -> PCs]
    /\ todo \in [Callers -> SUBSET Jobs] /\ fetched \in [Callers -> SUBSET Jobs]
    /\ job \in [Callers -> Jobs \cup {None}]
    /\ reply \in [Callers -> {"none", "ok", "refused"}]
    /\ seenJobIds \in Seq(Jobs)
    /\ acceptFailures \in [Jobs -> Nat]
    /\ chat \in [up : BOOLEAN, rooms : SUBSET Jobs]
    /\ platform \in [Jobs -> {"absent", "requested", "accepted", "closed"}]
    /\ wire \in SUBSET Jobs
    /\ outcome \in [Jobs -> Outcomes] /\ tries \in [Jobs -> Nat]

----------------------------------------------------------------------------
(* Helpers *)

\* allJobs.slice(0, MAX_PER_POLL), before any filtering by seenJobIds.
Window(S) == {j \in S : Cardinality({k \in S : rank[k] < rank[j]}) < MAX_PER_POLL}

\* Set.prototype.add: an element already present keeps its place.
Add(s, j) == IF j \in Elems(s) THEN s ELSE Append(s, j)

\* The eviction loop: drop oldest entries until MAX_SEEN_JOBS remain.
Evict(s) == IF Len(s) > MAX_SEEN_JOBS
              THEN SubSeq(s, Len(s) - MAX_SEEN_JOBS + 1, Len(s))
              ELSE s

clearAcceptFailure(f, j) == [f EXCEPT ![j] = 0]
recordAcceptFailure(f, j) == [f EXCEPT ![j] = @ + 1]
\* Mutant: the cap is compared with the count before this failure.
GiveUp_OffByOne(f, j) == f[j] >= MAX_ACCEPT_ATTEMPTS
GiveUp(f, j) == f[j] + 1 >= MAX_ACCEPT_ATTEMPTS
pruneAcceptFailures(f, pending) == [j \in Jobs |-> IF j \in pending THEN f[j] ELSE 0]

Goto(c, label) == pc' = [pc EXCEPT ![c] = label]

\* The loop body of caller c is done with its current job.
NextJob(c) ==
    /\ Goto(c, "loop")
    /\ job' = [job EXCEPT ![c] = None] /\ reply' = [reply EXCEPT ![c] = "none"]
    /\ UNCHANGED <<todo, fetched>>

\* Mutant: the job is not remembered as seen.
Settle_NotSeen(j, how) ==
    /\ acceptFailures' = clearAcceptFailure(acceptFailures, j)
    /\ outcome' = [outcome EXCEPT ![j] = how]
    /\ UNCHANGED seenJobIds

\* The job is settled: marked seen, its counter dropped, listeners told.
Settle(j, how) ==
    /\ seenJobIds' = Add(seenJobIds, j)
    /\ acceptFailures' = clearAcceptFailure(acceptFailures, j)
    /\ outcome' = [outcome EXCEPT ![j] = how]

\* One failed accept attempt: give up at the cap, else retry on a later poll.
AcceptFailure(j) ==
    IF GiveUp(acceptFailures, j)
      THEN Settle(j, "abandoned")
      ELSE /\ acceptFailures' = recordAcceptFailure(acceptFailures, j)
           /\ UNCHANGED <<seenJobIds, outcome>>

----------------------------------------------------------------------------
(* start(), stop(), setHandler() *)

\* Mutant: no re-entrancy guard.
BeginCheck_Reentrant(c) ==
    /\ handler # "none" /\ pc[c] = "idle"
    /\ polling' = TRUE
    /\ Goto(c, "fetching")
    /\ UNCHANGED <<todo, fetched, job, reply, seenJobIds, acceptFailures, chat,
                   platformVars, auxVars>>

\* checkForJobs() up to its first await, or its early return.
BeginCheck(c) ==
    /\ handler # "none" /\ ~polling
    /\ polling' = TRUE
    /\ Goto(c, "fetching")
    /\ UNCHANGED <<todo, fetched, job, reply, seenJobIds, acceptFailures, chat,
                   platformVars, auxVars>>

SkipCheck ==
    /\ handler = "none" \/ polling
    /\ UNCHANGED <<pollVars, memoryVars, platformVars, auxVars>>

\* start() up to its await; s \notin timers only keeps timer names distinct.
Start(s) ==
    /\ ~running /\ start[s] = "none" /\ s \notin timers
    /\ running' = TRUE
    /\ \/ BeginCheck(s) /\ start' = [start EXCEPT ![s] = "check"]
       \/ SkipCheck /\ start' = [start EXCEPT ![s] = "resume"]
    /\ UNCHANGED <<handler, iAddress, pollTimer, timers>>

\* start() after its await: arm the interval, and take it back when stop()
\* was called in between.
StartResumes(s) ==
    /\ start[s] = "resume"
    /\ start' = [start EXCEPT ![s] = "none"]
    /\ IF running
         THEN pollTimer' = s /\ timers' = timers \cup {s}
         ELSE pollTimer' = None /\ UNCHANGED timers
    /\ UNCHANGED <<handler, iAddress, running, pollVars, memoryVars,
                   platformVars, auxVars>>

\* Mutant: stop() clears the timer but leaves running set.
Stop_StillRunning ==
    /\ timers' = timers \ {pollTimer} /\ pollTimer' = None
    /\ chat' = [up |-> FALSE, rooms |-> {}]
    /\ UNCHANGED <<handler, iAddress, running, start, pollVars, polling,
                   seenJobIds, acceptFailures, platformVars, auxVars>>

Stop ==
    /\ timers' = timers \ {pollTimer} /\ pollTimer' = None
    /\ running' = FALSE
    /\ chat' = [up |-> FALSE, rooms |-> {}]
    /\ UNCHANGED <<handler, iAddress, start, pollVars, polling,
                   seenJobIds, acceptFailures, platformVars, auxVars>>

setHandler(h) ==
    /\ handler' = h
    /\ UNCHANGED <<iAddress, running, pollTimer, timers, start, pollVars,
                   memoryVars, platformVars, auxVars>>

\* register() stores the i-address the platform reports.
LearnIAddress ==
    /\ ~iAddress /\ iAddress' = TRUE
    /\ UNCHANGED <<handler, running, pollTimer, timers, start, pollVars,
                   memoryVars, platformVars, auxVars>>

\* An interval fires; the callback returns at once when not running.
Tick ==
    /\ timers # {} /\ running /\ BeginCheck("tick")
    /\ UNCHANGED agentVars

----------------------------------------------------------------------------
(* checkForJobs() after its awaits *)

\* finally { polling = false }, and the awaiting start() becomes runnable.
FinishCheck(c) ==
    /\ polling' = FALSE
    /\ Goto(c, "idle")
    /\ todo' = [todo EXCEPT ![c] = {}] /\ fetched' = [fetched EXCEPT ![c] = {}]
    /\ UNCHANGED <<job, reply>>
    /\ start' = IF c \in Starts THEN [start EXCEPT ![c] = "resume"] ELSE start
    /\ UNCHANGED <<handler, iAddress, running, pollTimer, timers>>

Fetched(c) ==
    LET S == {j \in Jobs : platform[j] = "requested"} IN
    /\ pc[c] = "fetching"
    /\ Goto(c, "loop")
    /\ todo' = [todo EXCEPT ![c] = Window(S)]
    /\ fetched' = [fetched EXCEPT ![c] = S]
    /\ UNCHANGED <<agentVars, job, reply, memoryVars, platformVars, auxVars>>

\* Mutant: a failed fetch leaves polling set.
FetchFails_NoFinally(c) ==
    /\ pc[c] = "fetching"
    /\ Goto(c, "idle")
    /\ todo' = [todo EXCEPT ![c] = {}] /\ fetched' = [fetched EXCEPT ![c] = {}]
    /\ UNCHANGED <<job, reply>>
    /\ start' = IF c \in Starts THEN [start EXCEPT ![c] = "resume"] ELSE start
    /\ UNCHANGED <<handler, iAddress, running, pollTimer, timers, polling,
                   seenJobIds, acceptFailures, chat, platformVars, auxVars>>

FetchFails(c) ==
    /\ pc[c] = "fetching" /\ FinishCheck(c)
    /\ UNCHANGED <<seenJobIds, acceptFailures, chat, platformVars, auxVars>>

\* The next listed job: skipped when seen, settled at once without an
\* onJobRequested, otherwise handed to onJobRequested.
TakeJob(c) ==
    /\ pc[c] = "loop" /\ running
    /\ \E j \in todo[c] :
         /\ \A k \in todo[c] : rank[j] <= rank[k]
         /\ todo' = [todo EXCEPT ![c] = @ \ {j}]
         /\ \/ /\ j \in Seen
               /\ UNCHANGED <<pc, job, seenJobIds, acceptFailures, outcome>>
            \/ /\ j \notin Seen /\ handler = "bare" /\ Settle(j, "noted")
               /\ UNCHANGED <<pc, job>>
            \/ /\ j \notin Seen /\ handler = "asks" /\ Goto(c, "deciding")
               /\ job' = [job EXCEPT ![c] = j]
               /\ UNCHANGED <<seenJobIds, acceptFailures, outcome>>
    /\ UNCHANGED <<agentVars, fetched, reply, polling, chat, platformVars, tries>>

\* onJobRequested (or a job:requested listener) throws, or answers 'hold', or
\* answers 'accept' to an agent without an i-address: nothing is remembered.
LeaveForLater(c) ==
    /\ pc[c] = "deciding" /\ NextJob(c)
    /\ UNCHANGED <<agentVars, memoryVars, platformVars, auxVars>>

DecideReject(c) ==
    /\ pc[c] = "deciding" /\ NextJob(c)
    /\ Settle(job[c], "rejected")
    /\ UNCHANGED <<agentVars, polling, chat, platformVars, tries>>

DecideAccept(c) ==
    LET j == job[c] IN
    /\ pc[c] = "deciding" /\ iAddress
    /\ tries' = [tries EXCEPT ![j] = @ + 1]
    /\ \/ j \in NoHash /\ NextJob(c) /\ AcceptFailure(j)
       \/ /\ j \notin NoHash
          /\ Goto(c, "signing")
          /\ UNCHANGED <<todo, fetched, job, reply, seenJobIds, acceptFailures,
                         outcome>>
    /\ UNCHANGED <<agentVars, polling, chat, platformVars>>

\* _signBrokered answered; acceptJob() is on its way.
Signed(c) ==
    /\ pc[c] = "signing"
    /\ Goto(c, "accepting")
    /\ wire' = wire \cup {job[c]}
    /\ UNCHANGED <<agentVars, todo, fetched, job, reply, memoryVars, platform,
                   auxVars>>

\* Mutant: any answer to acceptJob() counts as success.
AcceptOk_AnyReply(c) ==
    /\ pc[c] = "accepting" /\ reply[c] # "none"
    /\ NextJob(c) /\ Settle(job[c], "accepted")
    /\ UNCHANGED <<agentVars, polling, chat, platformVars, tries>>

\* acceptJob() resolved.  A job:accepted listener that throws lands in the
\* same catch block as a refused accept.
AcceptOk(c) ==
    LET j == job[c] IN
    /\ pc[c] = "accepting" /\ reply[c] = "ok"
    /\ NextJob(c)
    /\ \/ /\ Settle(j, "accepted")
          /\ chat' = IF chat.up THEN [up |-> TRUE, rooms |-> chat.rooms \cup {j}]
                               ELSE chat
       \/ /\ seenJobIds' = Add(seenJobIds, j)
          /\ outcome' = [outcome EXCEPT ![j] = "accepted"]
          /\ acceptFailures' =
               recordAcceptFailure(clearAcceptFailure(acceptFailures, j), j)
          /\ UNCHANGED chat
    /\ UNCHANGED <<agentVars, polling, platformVars, tries>>

\* The signer refused, or acceptJob() was refused, lost or timed out.
AcceptFails(c) ==
    /\ pc[c] = "signing" \/ pc[c] = "accepting"
    /\ NextJob(c) /\ AcceptFailure(job[c])
    /\ UNCHANGED <<agentVars, polling, chat, platformVars, tries>>

\* End of the loop (or break, when stopped): evict, prune, finally.
EndPoll(c) ==
    /\ pc[c] = "loop" /\ (todo[c] = {} \/ ~running)
    /\ FinishCheck(c)
    /\ seenJobIds' = Evict(seenJobIds)
    /\ acceptFailures' = pruneAcceptFailures(acceptFailures, fetched[c])
    /\ outcome' = [j \in Jobs |-> IF j \in Seen \ Elems(seenJobIds')
                                    THEN "none" ELSE outcome[j]]
    /\ tries' = [j \in Jobs |->
                   IF j \in fetched[c] /\ j \notin Seen \ Elems(seenJobIds')
                     THEN tries[j] ELSE acceptFailures'[j]]
    /\ UNCHANGED <<chat, platformVars>>

----------------------------------------------------------------------------
(* The platform and the chat connection (external) *)

JobPosted(j) ==
    /\ platform[j] = "absent"
    /\ platform' = [platform EXCEPT ![j] = "requested"]
    /\ UNCHANGED <<agentVars, pollVars, memoryVars, wire, auxVars>>

JobWithdrawn(j) ==
    /\ platform[j] = "requested"
    /\ platform' = [platform EXCEPT ![j] = "closed"]
    /\ UNCHANGED <<agentVars, pollVars, memoryVars, wire, auxVars>>

\* The request may be one an earlier attempt sent and gave up on, and the
\* client retransmits on transport errors: so the reply need not reach the
\* attempt now waiting, and a copy may stay on the wire.
PlatformHandles(j) ==
    LET answer == IF platform[j] = "requested" THEN "ok" ELSE "refused"
        waiting == {c \in Callers : pc[c] = "accepting" /\ job[c] = j
                                    /\ reply[c] = "none"}
    IN
    /\ j \in wire
    /\ wire' \in {wire, wire \ {j}}
    /\ platform' = IF answer = "ok" THEN [platform EXCEPT ![j] = "accepted"]
                                    ELSE platform
    /\ \E told \in SUBSET waiting :
         reply' = [c \in Callers |-> IF c \in told THEN answer ELSE reply[c]]
    /\ UNCHANGED <<agentVars, pc, todo, fetched, job, memoryVars, auxVars>>

ChatChanges ==
    /\ chat' = [up |-> ~chat.up, rooms |-> {}]
    /\ UNCHANGED <<agentVars, pollVars, polling, seenJobIds, acceptFailures,
                   platformVars, auxVars>>

----------------------------------------------------------------------------

Init ==
    /\ handler \in {"none", "bare", "asks"} /\ iAddress \in BOOLEAN
    /\ running = FALSE /\ polling = FALSE
    /\ pollTimer = None /\ timers = {}
    /\ start = [s \in Starts |-> "none"]
    /\ pc = [c \in Callers |-> "idle"]
    /\ todo = [c \in Callers |-> {}] /\ fetched = [c \in Callers |-> {}]
    /\ job = [c \in Callers |-> None] /\ reply = [c \in Callers |-> "none"]
    /\ seenJobIds = <<>>
    /\ acceptFailures = [j \in Jobs |-> 0]
    /\ chat = [up |-> FALSE, rooms |-> {}]
    /\ platform = [j \in Jobs |-> "absent"] /\ wire = {}
    /\ outcome = [j \in Jobs |-> "none"] /\ tries = [j \in Jobs |-> 0]

PollStep(c) ==
    \/ Fetched(c) \/ FetchFails(c) \/ TakeJob(c) \/ LeaveForLater(c)
    \/ DecideReject(c) \/ DecideAccept(c) \/ Signed(c)
    \/ AcceptOk(c) \/ AcceptFails(c) \/ EndPoll(c)

Next ==
    \/ \E s \in Starts : Start(s) \/ StartResumes(s)
    \/ Stop \/ LearnIAddress \/ Tick \/ ChatChanges
    \/ \E h \in {"bare", "asks"} : setHandler(h)
    \/ \E c \in Callers : PollStep(c)
    \/ \E j \in Jobs : JobPosted(j) \/ JobWithdrawn(j) \/ PlatformHandles(j)

Spec == Init /\ [][Next]_vars

(* Fairness: the event loop runs what is runnable (timers, resumed awaits);  *)
(* every await of a poll settles - requests carry a client-side timeout and  *)
(* onJobRequested is assumed to answer - and a poll that keeps being made is *)
(* answered in the end.  The platform, the buyer and stop() owe nothing.     *)
FairSpec ==
    /\ Spec
    /\ WF_vars(Tick)
    /\ \A s \in Starts : WF_vars(StartResumes(s))
    /\ \A c \in Callers : WF_vars(PollStep(c)) /\ SF_vars(Fetched(c))

----------------------------------------------------------------------------
(* Properties *)

InHand(c) == pc[c] \in Working

(* No job is asked about, signed for or accepted again once it was settled:  *)
(* while checkForJobs() has a job between onJobRequested and acceptJob, no   *)
(* terminal event (accepted, rejected, abandoned) stands for that job.  It   *)
(* depends on `polling` keeping a timer tick out of a poll that a start()    *)
(* call (or an earlier tick) still has in flight.                            *)
NoReprocessing ==
    \A c \in Callers : InHand(c) => outcome[job[c]] = "none"

(* Accept retries are bounded as jobs/accept-retry.ts promises: a job is     *)
(* attempted at most MAX_ACCEPT_ATTEMPTS times before its counter is dropped *)
(* (it left the pending list) or its seen mark is evicted; stop() and        *)
(* start() in between do not restart the count.                              *)
RetryBudget == \A j \in Jobs : tries[j] <= MAX_ACCEPT_ATTEMPTS

(* job:accepted is never emitted for a job the platform has not accepted for *)
(* this agent, however late or duplicated the accept requests are.           *)
AcceptedIsReal ==
    \A j \in Jobs : outcome[j] = "accepted" => platform[j] = "accepted"

(* A running agent keeps polling: once no start() call is in flight it holds *)
(* the handle of an interval that is alive, whatever stop()/start() calls    *)
(* raced the initial check.                                                  *)
RunningHasTimer ==
    running /\ (\A s \in Starts : start[s] = "none") => pollTimer \in timers

Considered(j) == \E c \in Callers : pc[c] = "deciding" /\ job[c] = j

\* A job the next response would bring inside the MAX_PER_POLL window.
Waiting(j) == /\ platform[j] = "requested"
              /\ j \in Window({k \in Jobs : platform[k] = "requested"})

(* Every job that stays inside the first MAX_PER_POLL of the pending list    *)
(* reaches onJobRequested (or is marked seen) unless the agent is stopped:   *)
(* failed fetches, polls skipped by the re-entrancy guard and errors of the  *)
(* jobs before it in the loop only delay it.  Nothing is promised to a job   *)
(* outside that window: see ExcessAppears.                                   *)
EveryJobConsidered ==
    \A j \in Jobs :
      (running /\ handler # "none" /\ Waiting(j))
        ~> (~running \/ ~Waiting(j) \/ j \in Seen \/ Considered(j))

(* The inductive strengthening of the invariants above, by parts. *)

Attempting(c, j) == pc[c] \in {"signing", "accepting"} /\ job[c] = j

\* polling guards the one poll in flight.
OnePoll ==
    \A c \in Callers : pc[c] # "idle" =>
      polling /\ \A d \in Callers : pc[d] # "idle" => d = c

\* The seen set is the memory of the terminal events.
SeenIsSettled == \A j \in Jobs : j \in Seen <=> outcome[j] # "none"

\* A job in hand is a job, and not a settled one.
HandIsOpen ==
    \A c \in Callers : InHand(c) =>
      job[c] \in Jobs /\ outcome[job[c]] = "none"

\* Attempts of an open job are its recorded failures and the one under way.
TriesCounted ==
    \A j \in Jobs :
      /\ acceptFailures[j] < MAX_ACCEPT_ATTEMPTS
      /\ tries[j] <= MAX_ACCEPT_ATTEMPTS
      /\ outcome[j] # "none" => acceptFailures[j] <= 1
      /\ outcome[j] = "none" =>
           IF \E c \in Callers : Attempting(c, j)
             THEN tries[j] = acceptFailures[j] + 1
             ELSE tries[j] = acceptFailures[j]

\* An ok reply and an accepted event both come from the platform's accept.
OkIsReal ==
    /\ AcceptedIsReal
    /\ \A c \in Callers : reply[c] = "ok" =>
         pc[c] = "accepting" /\ platform[job[c]] = "accepted"

IInv == /\ TypeOK /\ OnePoll /\ SeenIsSettled /\ HandIsOpen /\ TriesCounted
        /\ OkIsReal /\ RunningHasTimer

(* Seen as a ledger of decisions, the loop implements JobLedger.             *)
Ledger == INSTANCE JobLedger WITH decision <- outcome, attempts <- tries,
                                  Budget <- MAX_ACCEPT_ATTEMPTS

(* The whole poll loop - interleaved with stop(), restarts, late platform    *)
(* answers and eviction - is a refinement of the ledger: per job, attempts   *)
(* within the budget, then one final decision, until the job is forgotten.   *)
LedgerRefined == Ledger!Spec

(* The comment in checkForJobs() on a response longer than MAX_PER_POLL,     *)
(* "Excess will appear on next poll": a job beyond the window is considered  *)
(* in the end.  The window is cut before the seen jobs are skipped, so a job *)
(* that stays in the list without leaving it (rejected, held, without a      *)
(* hash) keeps its place in every later window.                              *)
ExcessAppears ==
    \A j \in Jobs :
      (/\ running /\ handler # "none"
       /\ \E c \in Callers : j \in fetched[c] \ Window(fetched[c]))
        ~> (~running \/ platform[j] # "requested" \/ j \in Seen \/ Considered(j))

(* The comment in start(), "Guard against stop() being called during the     *)
(* initial checkForJobs() await": an agent that is stopped, with no start()  *)
(* in flight, leaves no interval alive.                                      *)
StoppedHasNoTimer ==
    ~running /\ (\A s \in Starts : start[s] = "none") => timers = {}

============================================================================
