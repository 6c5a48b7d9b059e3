# TLA+ specifications of the SovAgent SDK

These modules specify the parts of the SDK (`src/src/`, TypeScript) in which
order, concurrency, failure and retry decide whether an agent behaves: how it
is registered and onboarded, how it polls and accepts jobs, how it spends, how
it keeps its session, how it chats and opens a workspace, how it writes its
on-chain identity, and how a buyer hires it, tops up its credit and obtains
its keys. TLC checks each part on a small instance; TLAPS proves most of the
safety properties for every value of the constants.

Paths are relative to the directory that holds `src/` and `tla/`; `agent.ts` is
`src/src/agent.ts`, and so on. Contents: 1 the system, 2 modules and code,
3 runs, bounds and fairness, 4 what is proved, 5 divergences, 6 assumptions,
7 stated, not run, 8 not modelled.

## 1. The system

The SDK is one library with two users. An *agent* (seller) is a `J41Agent`: it
has keys, an on-chain identity (a VerusID), a wallet and a session with the
platform, polls for jobs, chats, opens workspaces and publishes what others say
of it. A *buyer* hires agents, prepays credit and opens the other end of a
workspace. Both talk to the platform's HTTP API and its socket.io server; the
platform relays transactions to a Verus node. None of these peers is in this
repository: they are modelled from how the code uses them.

All code runs in one JavaScript thread. Two operations therefore never overlap
inside a synchronous stretch, but every `await` is a point where any other
operation may run. That is the granularity of every module here: **one action
is the code between two awaits**.

| Component (code) | State | Operations | Interacts with |
|---|---|---|---|
| Job loop (`agent.ts` start to checkForJobs; `jobs/accept-retry.ts`) | `running`, `polling`, `pollTimer`, `seenJobIds`, `acceptFailures` | `start`, `stop`, `setHandler`, timer tick, `checkForJobs` | session layer, chat client, the embedding program's handler |
| Wallet sends (`agent.ts`; `tx/payment.ts`) | `_txChain`, `_spentUtxos`, `_pendingChange` | `sendCurrency`, `sendMultiPayment`, `transferFunds` | `stop()` clears it; identity updates spend the same coins |
| Session and requests (`client/index.ts`; `agent.ts` login) | `sessionToken`, `loginPromise` | `request`, `login`, re-authentication, file transfers | every API wrapper |
| Inbox accepts (`agent.ts`; `inbox/vdxf-gate.ts`; `identity/update.ts`) | the identity output, the inbox | `acceptReview`, `acceptAttestationTuple`, `acceptJobRecord`, `acceptInboxBatch` | wallet coins for the fee, the node |
| Auto top-up (`buyer/credit-watcher.ts`) | `pending`, `lastTopUpAt`, spend ledger | header and webhook signals | injected send, sign and report |
| Chat client (`chat/client.ts`; `agent.ts` connectChat) | sockets, rooms | `connect`, `joinJob`, `leaveJob`, `disconnect`, `connectChat` | job loop joins rooms |
| Workspace client (`workspace/client.ts`) | sockets, pending tool calls, timers | `connect`, `sendToolCall`, `disconnect` | the platform's relay, the buyer's end |
| Buyer workspace (`buyer/workspace.ts`) | exclusions, write permission, byte counter, keepalive | `connect`, `handleMcpCall`, `disconnect` | the relay, the buyer's program (approvals) |
| Buyer session (`buyer/session.ts`; `agent.ts` autoDeliver) | job, `_active`, idle timer, message handler | `start`, `sendAndWait`, `endSession` | payments, chat, the seller's automatic delivery |
| Registration and status (`agent.ts`) | key, network, i-address; the platform's records | `register`, `registerWithJ41`, `registerService`, `activate`, `deactivate` | platform, node |
| Onboarding (`onboarding/finalize.ts`; `bin/j41.js`) | the state file, the keys file | finalize's stages; generate, register, update | registration; killed and restarted at any step |
| On-chain profile (`onboarding/vdxf.ts`; `identity/update.ts`; `identity/history.ts`) | the identity's multimap over its revisions | builders, decoders, migration, updates, history | inbox accepts write the same identity |
| Access envelopes (`crypto/envelope.ts`, `crypto/canonical.ts`) | nonces seen | build, verify, mint, open | the relay, the identities' keys |
| Pricing, content safety, privacy tiers, signing, message formats, webhook check, egress, feature tables | none | functions | none |

### What is hard in each, and what makes it correct

* **Job loop.** A tick may fire while an earlier poll still waits for the
  handler; `start()` and `stop()` may be called while a first poll is awaited;
  an accept may time out and be processed later; the seen set is bounded and
  forgets. Correct means: a settled job is not worked on again while
  remembered; retries are bounded; what was announced as accepted is accepted
  on the platform; a running agent has a timer; every requested job that the
  window of a poll reaches is considered.
* **Wallet.** The node's coin list lags the mempool in both directions, a
  broadcast may be lost or answered with an error although it took effect, both
  memories are capped, and `stop()` empties them. Correct means: no two payments
  spend one coin, none lists a coin twice, change is not lost, and a failing
  payment does not hold up the queue.
* **Session.** Requests in flight carry different tokens, answers overtake each
  other, and a refused request logs in again through a login that itself makes
  requests. Correct means: the token never goes back to an older one, a re-sent
  request carries a newer session, and each call settles.
* **Inbox.** The identity is read before many awaits and written after them;
  several items can claim one key; a single bad item makes the merged build
  throw; the broadcast and each acknowledgement may be lost. Correct means: every
  item ends in exactly one bucket, none is acknowledged as accepted that was not
  sent, no key of another type slips in, only culprits are rejected, nothing
  already mined is undone, and a healthy item is accepted in the end.
* **Auto top-up.** Two signals race through three awaits that may each fail,
  against a rolling cap. Correct means: the recorded spends of every window
  respect the cap and top-ups are spaced.
* **Chat.** socket.io's own reconnection races with `disconnect()`, a time limit
  and a second `connectChat()`. Correct means: a dropped client is in no room, a
  lasting connection is in all its rooms, no active job is left out, the call
  settles, and a chat lost for good says so.
* **Workspace.** Two ends, several sockets that write one flag, per-call and
  per-connection timers, approvals that are awaited between the check of a limit
  and its use. Correct means: a resolved call was executed and a refused one was
  not, only what was granted is executed, the limit binds, neither side takes a
  dead connection for a live one.
* **Hire.** Money leaves before the platform is told, and `start()` may fail
  after it; the idle timer, the program and the seller's delivery end a job from
  three sides. Correct means: nobody pays too much, nobody works unpaid, the end
  is told once, what is announced as delivered is delivered.
* **Registration and onboarding.** Blocks come late, answers are lost, and the
  process dies between an effect and the file that records it; the next run may be
  asked for other stages, or find another agent's file. Correct means: no
  registration without its key in the key file, no mark without its effect or a
  note that it was skipped, stages in order, a status with a txid shared by
  chain and platform unless it expires, programs end.
* **Profile.** Writers are not serialized and each replaces whole values; readers
  merge revisions. Correct means: what was last written is read back, and every
  review ever published is found again.
* **Envelopes.** The relay repeats, damages, delays and misdirects; verification
  awaits keys between the clock and the replay check, which only v1 requests have
  and only where the dispatcher asks for it. Correct means: one key per guarded v1
  request, v2 requests signed by as many distinct cosigners as the platform's
  answer demands, junk does not burn a nonce, and the key a buyer reads answers its
  own unaltered request.

`PROJECT.json` lists each hazard at the line where it bites, with the properties
that cover it, or the reason none does.

## 2. The modules and the code

Names follow the source where TLA+ allows it. In each component module an action
stands for one stretch of code between awaits, and an `auxiliary` variable is
history that no action reads in its guard. A definition named `X_Something` with
the comment "Mutant" is a plausible bug in `X`, used only to show that a
property can fail; `Next` never uses it. Component `X` comes with `MCX`
(constants for TLC) and `.cfg` files; where there are theorems, `XProofs`
extends it (`BuyerProofs` has those of `CreditWatcher`, `BuyerSession` and
`AccessExchange`, `OnboardingProofs` those of `Onboarding` and `OnChainProfile`).

### JobPoller, JobLedger (agent.ts `start` / `stop` / `checkForJobs`)

`pc[c]` is where the poll in the hands of caller `c` (a `start()` call or the
timer) awaits: `fetching`, `deciding` (in `onJobRequested`), signing, accepting,
rejecting, joining the chat. `todo` is what is left of the window cut by
`MAX_PER_POLL`, before the seen jobs are skipped (agent.ts:1926): a job that
stays pending after it was seen keeps its place, and `EveryJobConsidered`
promises something only to the jobs a next window would hold (`Waiting`). `Start(s)`/`StartResumes(s)` are the two halves of `start()`:
the second re-reads `running`, as the code does. `timers` is the set of
intervals alive in the event loop and `pollTimer` the only handle the agent
keeps. `platform` and `wire` are external: a request on the wire may be
processed after the client gave up on it. A listener of `job:accepted` may
throw, into the `catch` that counts it as a failed attempt (agent.ts:1975).

`JobLedger` is what the loop promises, free of polls: per job, an outcome and a
number of tries. `LedgerRefined` (an `INSTANCE` with a refinement mapping, as a
`PROPERTY` of the run and as a theorem) says each step of the loop is a step
of the ledger or a stutter.

### Wallet (agent.ts sends, tx/payment.ts)

A coin is a genesis coin or the change of a transaction, named after it. `queue`
is `_txChain`; `net` the node's view of each transaction. Script building and
signing are abstracted to which coins go in and what change comes out; values are
integers, so the coin selection with fee and dust is the code's own arithmetic.
Identity updates are in the module because they spend the same coins; they take
theirs outside the queue, as the code does. `dropped` records the coins `stop()`
or a cap made the agent forget too early: the properties exempt exactly those.
`sendMultiPayment()` adds to both memories without evicting, as the code does
(agent.ts:2651), and the inputs of a transaction that expired stay locked.

### Session (client/index.ts `request`, agent.ts `login`)

A token is the number of the login that obtained it. `Requests` are API calls and
the challenge fetches of logins, which go through the same `request()`.
`waitsFor[r]` is the login promise a refused request awaits, and `loginPromise`
the one that callers share. `Transfers` are file uploads and downloads, which
send the same token and clear it on a 401 but have no retry loop; the arrival of
an answer and the transfer's verdict are one step. The challenge and the login
answer are read with `await res.json()`, which no time limit covers; here they
arrive or fail.

### InboxBatch (agent.ts accepts, vdxf-gate.ts, identity/update.ts)

`acceptInboxBatch` with its five phases: fetch and gate each item, read the
identity, merge under the size budget, build (bisecting when the build throws),
broadcast, acknowledge each item. The single-item accepts share the identity and
race with it. The content of a key is the item whose value it holds. The identity
is one output: `fresh` says whether a transaction still spends the current one,
so of the updates built from one read at most one is mined. Whether a build can
throw with no item to blame (a dry wallet, items that build alone and not
together) is the environment's choice at each batch.

### CreditWatcher (buyer/credit-watcher.ts)

`phase[c]` is the effect a signal handler awaits: send, sign or report, and
`at[c]` the time it captured before the first. Time is the injected clock. Every
top-up has the same amount, so VRSC is a count of top-ups times `topUpAmount`.
`recorded` is what the ledger ever held, `paid` what really left the wallet.

### ChatClient, AgentChat (chat/client.ts, agent.ts `connectChat`)

A `ChatClient` instance `i` is connected once by the program: `phase[i]` is where
that `connect()` is and `link[i]` its socket. `link` tells a first connection
("up", which joins the rooms) from one socket.io restored by itself ("back"),
because the `connect` handler does. socket.io reconnects after a lost transport,
not after the server disconnected or refused the socket; when it gives up its
Manager emits `reconnect_failed`, and the Socket, where chat/client.ts:232
listens, emits nothing. The cycles of fresh tokens that begin there therefore
never run and have no actions (`Reported` is false); `LossNotSilent` (section 7) says what
follows. `AgentChat` composes two clients: a second `connectChat()` replaces the
first, and both list the active jobs in two requests between which a job may
move.

### WorkspaceClient, BuyerWorkspace, ToolCalls, Workspace

`WorkspaceClient` names a socket after the `connect()` call that made it:
`connect()` does not close the one before, all write the same `_connected`, and
each has its own five-minute timer. `BuyerWorkspace` is the other end with the
pre-scan's exclusions (which calls they hit; the patterns are abstracted), the
write gate, the transfer limit counted in files, and the keepalive interval; it
includes the part of `BuyerSession` that opens and closes it. `Workspace`
composes both over a relay (external) that reorders and loses calls and results;
a platform that ends a workspace announces it and does not force the sockets
closed. The handlers of `reconnect_attempt` and `reconnect` (workspace/client.ts
:261, :332, buyer/workspace.ts:284) are on the Socket too and never run: a socket
that is lost comes back by itself or stays off, and its flag was cleared when it
was lost. `ToolCalls` holds the constants both ends share.

### BuyerSession (buyer/session.ts, agent.ts `autoDeliver`)

Job `n` is the one the `n`-th `start()` creates; `step` is where `start()`
awaits, `payments` what really left the wallet, `platform` the platform's view.
`original[w]` is the message handler that a `sendAndWait()` found and will
restore. The seller's delivery runs once per `session_ending` event. The job
status "accepted" is part of `in_progress` here, since delivery treats both
alike; a `createJob` whose answer was lost leaves a job nobody follows and is
not tracked.

### AccessExchange (crypto/envelope.ts, crypto/canonical.ts)

Requests v1 (signed by one key) and v2 (canonical, signed by cosigners), the
verification with its await between window and replay checks, minting, and the
buyer's opening. Only `verifyAccessRequest` consults a store of nonces, and only
when the dispatcher passes `isReplay`: `Guarded` are the sellers that do, and
`HasGuard` says which verifications have one. `Thresholds` are the identity's own
and 1, which `verifyCanonicalSignatures` takes when the answer has no valid
number (canonical.ts:394); `need` is what a verification found. A signature is who signed, a ciphertext is for whom; `damaged`
is what the relay may do to either. The byte order of canonical JSON is not
modelled; `signed` is a sequence, so one cosigner may have signed twice.

### AgentIdentity, Onboarding, Milestones

`AgentIdentity` has the agent's operations, `op` being where the running one
awaits; a request that fails may have been carried out. A status update that was
broadcast is in the mempool (`inMempool`) until a block or its expiry
(`Settles`), and a pending one makes the next fail; `Coming` is what the chain
will say, and `txid` turns "lost" with an expired transaction. `Onboarding` has
the programs that drive it: `finalizeOnboarding()` with its state file and the
commands of `bin/j41.js` with the keys file. Any program may be killed between
two steps and another started.

There is one state file, as there is one path: `Resume` takes its stage whoever
wrote it, as `readState` does, and `file.writers` (auxiliary) tells which agents'
runs have. Each run is asked for some stages (`given`: hooks supplied, a profile
or prompt, services); `Skip` marks a stage not asked for with a note and without
effect, as the code does for a missing hook, a headless run without profile and
an empty list of services. `Milestones` is the abstract promise of a resumable
procedure: steps in order, each taken or waived, the mark claims no more, what was
waived is recorded. `FinalizeRefines` shows that finalize implements it for each
key as long as no other agent's run has written the file.

Facts of the code the model keeps: option 1 of the menu overwrites the saved
key, and answering "n" to saving leaves a registered key unused; the key file is
unlinked before it is written anew, so that a crash between the two loses its
content; `readState` does not check whose identity the file is about; a skipped
stage is not come back to by a later run that is asked for it; a 409 is already
swallowed in `registerWithJ41`, so that finalize's own 409 branch is dead;
`registerService` is not idempotent: a run that resumes among the services lists
the first ones again.

### ProfileFormat, IdentityHistory, OnChainProfile

`ProfileFormat` translates the builders and decoders of `onboarding/vdxf.ts`
over keys `<<group, leaf>>` and texts as JSON.parse sees them: flat and
container formats, size limit, prices with the limits on services and on the
entries of a pricing list, migration. `IdentityHistory` rebuilds
earlier revisions; a list of raw reviews there is the set of places `<<i, n>>`
(the n-th review of the i-th revision) it takes them from, with the order
`Before` that says which comes first, so that sorting, flattening and dropping
duplicates are statements about places. `OnChainProfile` is the identity's life: concurrent callers
read, wait and send updates that spend the output they read, and readers decode
what results; `aggregated` is the node's index of all values, which the second
kind of reader gets. The sorting of keys by hash and the node's MULTIMAPREMOVE filter
are not modelled.

### MCBuyer and MCOnboarding

Both put parts that share no state into one instance: a variable `side`, fixed
in the initial state, says which part moves, while the others stay in an initial
state. `MCBuyer` has the sides watcher, session, exchange, tools (all tool calls
over one connection) and dials (one call over two connections); `MCOnboarding`
has onboarding, the same for two agents with one state file (shared), and profile.
There `Within` keeps one agent's runs to three, and the two agents to one network
and no fault; it bounds only what starts or fails. An invariant of one part is checked on all its
behaviours, and nothing is claimed of their combination, which the code does not
have either.

## 3. The runs

| Run | Instance | Shows |
|---|---|---|
| `jobs` | 2 jobs (one listed without a hash), one `start()` at a time and the timer, seen set of 1, 2 attempts, window of 1 | the safety properties of the loop, the refinement of `JobLedger`, `EveryJobConsidered` |
| `wallet_spend` | 2 genesis coins, 2 payments, 1 identity update, both caps 1 | the coin properties, and the queue's liveness |
| `session_tokens` | 1 call, 2 logins, 1 transfer, 3 tries, 3 sessions | token order, fresh retries, every call settles |
| `inbox_safety` | a batch and a single accept over two reviews of one key and a job record, passed in one order (about 3 million states) | the safety properties of the accepts |
| `inbox_live` | repeated batches over a healthy review, a broken one of the same key and an attestation | healthy items are accepted in the end |
| `buyer` | watcher: 2 signals, cap 5 of top-ups of 2 in windows of 3 ticks, clock to 7, 4 sends; session: 2 starts, 1 wait, 2 delivery events, fees 0 to 3 of amount 2; exchange: 1 nonce, 2 sellers of which 1 guarded, 2 verifications, threshold 2 of 2 cosigners or the fallback 1, clocks apart by 0 or 1; workspace: a write, a read that an exclusion may hit, a transfer limit that the first file reaches, 2 connections | cap and spacing; payments, end and delivery; keys earned, junk harmless, opened keys answer; calls true, flags real, limit binds |
| `chat` | 2 `connectChat()` calls, 1 job | rooms agree, no active job left out, the call settles |
| `onboarding` | one agent: 1 key, 2 networks, 2 services, 3 program runs, 2 faults, runs asked for stages 2, 4, 5 or 1, 3; two agents with one state file: 2 keys, 1 network, 5 runs, no faults; profile: 2 writers, 2 updates, 4 edits, 2 job results | identities safe, marks true, finalize refines `Milestones`, programs end; profile and prices read back, reviews recovered |
| `jobs_timer`, `credit_never`, `session_login`, `chat_rejoin` | see section 5 | where the code and its own words part |

Why the bounds are enough. Each hazard in these components needs two actors and
one resource: two polls and a job, two payments and a coin, two requests and a
token, two updates and an identity output, two sockets and a flag, two deliveries
and a job. Every instance has both actors and at most one resource more than
they contend for. Caps are set at the smallest value that lets eviction happen
(1 for the seen set and the wallet's memories), or success, retry and exhaustion
all happen (2 attempts, 3 tries). The window of the job loop is smaller than its
list, so that a seen job does keep another out of it. The watcher's clock runs past two
windows and its cap is odd while top-ups are 2, so that the boundary is met from
both sides. Fees go one above what the fee check lets through. Signatures
include one cosigner signing twice, times to live zero and above the cap. The
onboarding runs allow one program to die, a second to resume and a third to use
what is left; of two agents, one to be registered and finalized and then the other. Overlapping `start()` calls of the job loop are in `jobs_timer` and
in the proofs, which cover any number; the proofs do not depend on the bounds.

The interchangeable signals and verifications of `buyer` are symmetric; that run
checks only safety, for which symmetry is sound.

`CHECK_DEADLOCK FALSE` is set where a system may really stop: all sends done, no
accept under way, sessions over, clocks at their bound, runs used up.

### Fairness

Fairness is assumed of what the runtime or a peer owes, never of a caller.

* `JobPoller`: weak fairness of the timer tick, of a resumed `start()` and of
  each poll's next step, because the event loop runs what is ready, timeouts
  settle every request, and the handler is assumed to answer (there is no time
  limit on `onJobRequested`). Strong fairness of a successful fetch: the
  platform is not down for ever. Without it no job need ever be seen.
* `Wallet`: weak fairness of each send's steps, each of which awaits a request
  with a timeout; nothing is assumed of the node.
* `Session`: weak fairness of each request's and login's steps, and of a call
  acting on an `ok` that has arrived, for the same reason; the platform may
  refuse or fail every time.
* `InboxBatch`: weak fairness of the calls' steps, of the node deciding about
  a transaction and of the caller running the batch again; strong fairness of
  each external success (fetch, read, a build that is not clashing, broadcast
  accepted, acknowledgement), each per item or call, because any of them may fail
  many times but not for ever.
* `AgentChat`: weak fairness of each client's timers and answers and of the
  continuation of a settled `connect()`. socket.io reconnects a lost socket or
  gives up after its attempts (`SocketGivesUp`); that it ever succeeds is not
  assumed.
* `Onboarding`: weak fairness of the running program's steps: every request has
  a timeout, every loop a limit, the user answers. A crash also ends a program.

## 4. What is proved

Every theorem is about the component's specification (`Spec`, `BuySpec`,
`ExchangeSpec`, `WorkspaceSpec`, `ProfileSpec`) and all constants that satisfy its named
`ASSUME`s. The argument is the same each time: an inductive invariant, by
conjuncts with names, a lemma per action that preserves it, and the property as
a consequence.

* **JobPollerProofs**: `TypeCorrect`, `SettledStaysSettled`, `RetriesBounded`,
  `AcceptedOnPlatform`, `RunningPolls`, `ImplementsLedger`. `OnePoll` (at most
  one caller is inside a poll, and then `polling` is set) is what makes the seen
  set trustworthy between reading it and writing it; `HandIsOpen` says the job
  a poll has in hand is not settled; `SeenIsSettled`, `TriesCounted` and
  `OkIsReal` tie the agent's memory to the history; `RunningHasTimer` is
  itself part of it.
* **BuyerProofs** (watcher): `TypeCorrect`, `CapRespected`, `BurstsCollapse`. The cap needs
  `OneInFlight` (the pending guard), `LedgerPruned` (what was pruned is a day
  older than the last top-up) and `DecisionHolds` (the check made before the send still holds
  after it, for the captured time). `IdsGrow` keeps ledger entries apart.
* **WalletProofs**: `PaymentsDisjoint`, that is `NoDoubleSpend`. `OneAtATime` is
  the queue; `UsedIsKnown` (a coin of a payment is in `_spentUtxos`, spent on
  the chain, or `dropped`) is the heart; `MadeFirst`, `PendingIsFresh`,
  `ChoiceIsFresh`, `JustPruned` carry it over lagging lists and chained change.
  `InputsDistinct` (`NoDuplicateInputs`) and `ChangeKept` (`ChangeChained`) follow
  from a second invariant, `ChainInv`: the lists a call chooses from hold no coin
  twice (`AllUnique`), and what is remembered as spent is an input of some
  payment (`SpentIsUsed`), so that pending change pruned as spent is not lost.
  `AmountsTyped` and `PaymentsExact` (`PaysWhatWasAsked`) are about money: no
  amount goes below zero, change comes home, and a transaction takes from its
  coins what was asked, the fee and at most DUST. Their invariant, `MoneyInv`,
  needs that a coin the agent knows of was built before (`KnownIsBuilt`) and so
  keeps its value (`BuiltStays`). `Total` is a fold, a recursive function: that it
  is defined (`SumExists`), is a natural number (`SumType`) and depends only on the
  coins (`TotalNext`) is shown by a smallest counterexample, since every
  non-empty set of naturals has a least element (`LeastExists`, from the
  library's `WFMin`); `MaxIsNat` likewise. `QueueKept`
  (`QueueHoldsCalls`): `_txChain` holds the calls not settled, each once.
* **SessionProofs**: `TypeCorrect`, `TokensOrdered`, `RetriesFresh`, from `OneLogin` (a login
  under way is the one every caller shares) and `GrantIsNewest` (a session granted
  but not yet stored is newer than every token the client holds or has sent).
  `NobodyStranded` (`WaitsForLiveLogin`): the mutex is never held by a login that
  is over, whoever awaits a login awaits the one under way, and a login awaits
  itself only if the platform answers 401 or 403 to a challenge, the divergence
  of section 5.
* **InboxBatchProofs**: `TypeCorrect`, `NothingLost` (`AcceptedWasSent`),
  `GateHolds` (`OnlyOwnKeys`), `OnlyCulprits` (`RejectedAtFault`) and
  `NothingUndone` (`OthersKept`, an action property: an update changes only the
  keys of its items). `CandInv` and `UpdateInv` say what may be among candidates
  and merged items in each phase; `NetInv` says at most one live transaction
  spends the current output, and that it was built from the content that output
  holds, which is why a mined update undoes nothing. `EachInOneBucket` (`Accounted`)
  rests on `SortedInv`: at every step of a batch each of its items is either
  still ahead (to fetch, a candidate, merged, by phase) or in one bucket, and
  what was acknowledged, or failed to be, was written; that the list to fetch
  names no item twice is a counting argument.
* **BuyerProofs** (session): `PaymentsRight` (`PaidIsRight`), `EndsOnce`
  (`EndedOnce`), `DeliveriesReal` (`AnnouncedIsDelivered`). `StartIsFresh` (the
  job `start()` works on was paid as far as `start()` got and was never ended)
  and `ActiveIsFresh` (an active session has not been ended or asked to end)
  carry `start()` over its awaits; `PaidFirst` ties the platform's view to the
  wallet; `FutureIsBlank` says jobs not yet created have no history.
* **BuyerProofs** (envelopes): `KeysEarned` (`KeysAreEarned`), `JunkHarmless`
  (`JunkBurnsNothing`), `OpenedIsAnswered` (`OpenedIsAnswer`). `PassedTheCheck`
  says what is known past the signature check, `OneVerified` that a guarded
  seller's verifications of a v1 nonce passed the replay check at most once (by
  its record in `seen`), `EnvelopesMinted` that an envelope stems from a
  verification that ended with it; a second envelope of such a pair would need a
  second verification past the replay check. `OpenedMatches` (what is opened
  names the request and its seller) and `EnvelopesMinted` together lead from an
  opened key back to a verification of the buyer's own, undamaged request.
* **WorkspaceProofs**: `CallsTrue` (`CallsAreTrue`), `FlagsReal`
  (`FlagsAreReal`), `LimitBinds` (`LimitHolds`). `Undialled` says a `connect()`
  not yet made has no socket, which keeps the two ends' flags on live sockets;
  `AnswersTrue` says a result under way tells what happened, `Unserved` that
  calls not answered were not carried out, `GrantsKept` that what the checks
  found still holds at the write gate, and `Counted` ties the buyer's count to
  the calls executed, a cardinality, for which the set of calls is assumed finite.

* **AgentChatProofs**: `RoomsRight` (`RoomsAgree`) and `NoJobMissed`
  (`ActiveJoined`). That a replaced or dropped client is in no room rests on what
  a socket may still do: a client that waits for a token has none
  (`PhaseOfLink`), only a connected socket is in rooms (`RoomsNeedLink`), and only
  the agent's client remembers any (`OnlyCurrentJoins`). The gap between the two
  requests is closed by `NoGap`: once the accepted jobs were listed, a job
  active when `connect()` resolved is among them or has moved on to
  "in_progress", which the second request lists.
* **OnboardingProofs**, first part: `IdentitiesSafe` (`IdentitiesAreSafe`), `DoneHeld`
  (`DoneIsHeld`) and `ImplementsMilestones` (`FinalizeRefines`), over crashes at
  any step and whatever each run is asked for. `Running` and `InStage` say at
  which place of which program each operation runs, and that a place of a stage is
  reached only where the stage was asked for; `OnItsNetwork` that the agent's
  network is its identity's, or is to be rolled back to it; `FileReal` that the
  key file claims only located identities; `FileAtHand` that it holds the running
  program's key where that registers; `FileOwned`, `ProfileHeld` and
  `ServicesHeld` tie the marks of a state file with one writer to what the
  platform holds; `TxOfStatus` carries a status over the steps that follow its
  broadcast. The refinement takes each action of the programs to one effect, mark,
  waiver or request of `Milestones` or a stutter (`FileSteps`, `RefineStep`), for
  each key by itself and as long as the file is that key's.
* **OnboardingProofs**, second part: `WritesReadBack` (`ReadsBack`). A key of the
  newest output holds what its latest writer wrote (`FieldsFrom`), and the index
  of the node ends with it (`IndexEndsNewest`); an update on its way
  is of the newest output and changes it only as asked (`UpdateIsOfNewest`), since
  the node takes no other, which is where racing writers are told apart. Decoding
  looks at the last entry of each key alone, containers included (`InvViews`),
  so that both views decode alike; that a
  migrated identity is never read as a legacy one, and that only the services can
  make the decoder throw, gives the fields by either view. `ProfileAssumption` is
  what it needs of the data: every key that is written gets a value, and no text
  is what a decoder throws.
* **OnboardingProofs**, third part: `ReviewsReadBack` (`ReviewsRecovered`): whatever
  order the node answers in, the history decoder gives each job ever reviewed on
  chain once, with the height where a review of it was first written, oldest
  first. `HistoryFrom`
  says that an output holds under a key only what it or an earlier
  output wrote; so the first output that holds a review wrote it (`LeastExists` gives the first),
  its value is no copy of an earlier one, and the walk of the decoder, which skips
  unchanged values, stops there (`FirstIsNew`). Places where the walk finds a
  review (`ReviewPlaces`) and jobs reviewed then correspond one to one.

`AgentAssumption` and `ProfileAssumption` say of the data what the code takes
for granted: services are a sequence, a job's hash is not empty, and the above.

### Only model-checked

Liveness (`EveryJobConsidered`, `EveryCallSettles` of `Wallet` and `Session`,
`HealthyAccepted`, `ConnectChatSettles`, `ProgramsEnd`):
leads-to under fairness needs ENABLED, out of the prover's reach. The safety
behind three of them is proved: whoever waits has something under way that will
answer (`RunningHasTimer` for the first, `QueueKept`, `NobodyStranded`). No run
lists the definitions of the last two, nor `TypeOK` and `PaysWhatWasAsked` of
`Wallet`; the instances of the runs satisfy them as well.
`PricesReadBack`, an `ASSUME` of `MCOnboarding` that TLC evaluates at the start of
the run, says of every list of up to two services with up to three prices (one
more than the limit of the instance) around the bounds that reading it gives every
usable price within the limits and no other: its decoder
filters sequences with `SelectSeq`, which tlapm neither knows nor expands.

## 5. Divergences

Four runs state what a comment says, and TLC finds the code doing otherwise.

1. `jobs_timer`: `start()`, `stop()`, `start()` during the first check arms two
   intervals and keeps one handle (agent.ts:1025), despite the guard that is
   commented at 1032.
2. `credit_never`: "NEVER spends past this in a rolling 24h window"
   (credit-watcher.ts:65). When signing fails after the send, the spend is not
   recorded.
3. `session_login`: a 401 or 403 to the challenge request of a login makes it
   await its own promise (agent.ts:374), and every later call with it.
4. `chat_rejoin`: "Re-join any rooms we were in" (chat/client.ts:180) happens
   only while `connect()` is unsettled; after socket.io's own reconnection the
   client is connected and in no room.

Section 7 has more that are not run.

## 6. Assumptions

* Event listeners do not throw, except those of `job:accepted`, whose throw the
  code's own `catch` meets; an `error` listener exists (without one, `start()`
  throws out of agent.ts:1022 with `running` set).
* A confirmed identity read returns the current output; a lagging one is an older
  content whose update cannot be mined (`fresh`).
* Acknowledgements of a batch are independent and modelled in any order, though
  the code sends them one after the other.
* The injected clock of the watcher does not run backwards; the clocks of a buyer
  and a seller differ by a constant.
* The program calls `connect()` once per `ChatClient`, and runs one operation of
  `AgentIdentity` at a time.
* A POST that is retried after a lost answer (client/index.ts:115) may be applied
  twice; whether the platform recognizes the repetition cannot be seen from here,
  so registration effects are modelled as repeatable.
* `onJobRequested` settles in the end, for liveness only.
* An accepted inbox item has a value under each of its keys. The gate takes an
  empty array as it is (vdxf-gate.ts:120), which would empty the key.
* Signatures cannot be forged and ciphertexts open with their own key only.

## 7. Stated, not run

The modules state these properties beside the code they are about. The code
violates them; TLC shows it on the instances of section 3, with the changes
named, when the property replaces those of the `.cfg`. They are kept out of the
runs to bound the time the whole takes.

* `JobPoller.ExcessAppears`, "Excess will appear on next poll" (agent.ts:1923):
  the window is cut to `MAX_PER_POLL` before seen jobs are skipped, so that jobs
  rejected or held, which the platform still lists, keep a later one out.
* `AgentChat.LossNotSilent`, "Surface chat reconnect failures so callers can
  handle silent death" (agent.ts:1083): `reconnect_failed` is an event of
  socket.io's Manager and the handler is on the Socket (chat/client.ts:232), so
  nobody is told.
* `Onboarding.KeysOnDisk`, "It cannot be recovered if lost. Full key is in
  .j41-keys.json" (j41.js:324): the file is unlinked and then written anew after
  the registration (j41.js:403); a crash between the two leaves the key nowhere
  (with `Keys = {k1}`, since to overwrite a key is the user's choice).
* `OnChainProfile.EveryReaderSafe`, "every other key is preserved untouched",
  "Every in-repo reader is safe" (vdxf.ts:1027, :1056): one decoder is chosen for
  the whole identity (vdxf.ts:447), so that after an update of one flat field the
  fields still in a container are read no more, though they are on chain.
* `Wallet.FundMovesDisjoint`, "Serialize fund-moving operations"
  (agent.ts:2585): identity updates choose their coins outside the queue.
* `Workspace.TimeoutClosesOwn` (workspace/client.ts:337): the five-minute timer
  of an earlier `connect()` closes the socket of a later one.
* `Workspace.EndClosesWorkspace`, "Disconnect workspace first"
  (buyer/session.ts:233): a workspace whose `connect()` is under way when the
  session ends comes up afterwards.
* `BuyerSession.ResponseAnswers` (buyer/session.ts:153): of two overlapping
  `sendAndWait()` calls, the timeout of the first removes the handler of the
  second, and a message of the seller then leaves that call waiting (with
  `Waits = 2`).

Two more facts have no property. A state file that runs of several agents share
passes the stages of one for another's (`readState`, finalize.ts:216): no doc says
that it may be shared, and `DoneIsHeld` and `FinalizeRefines` claim nothing of such
a file. A v2 request that is delivered again within its window is answered again,
and so is a v1 request at a dispatcher without `isReplay`: `KeysAreEarned` promises
one key for guarded v1 requests only.

## 8. Not modelled

Ciphers, hashing, signatures, serialization and message formats: single-input
functions, present here as steps that succeed or fail. Pricing: floating-point
formulas a property would only restate. Content safety and privacy tiers: regular
expressions and text. HTTP wrappers: each is one `request()`, which `Session`
models; paths and bodies carry no state. Chat messages: sending changes no state
of the client. Webhook check, egress proxy, remote signer, feature tables, skill
scripts: no state that outlives a call. Of the command line, prompts and output
are left out.
