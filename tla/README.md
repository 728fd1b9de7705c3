# TLA+ specifications of ODATANO

ODATANO is a CAP (SAP Cloud Application Programming model) plugin that exposes the
Cardano blockchain as OData services: it crawls and indexes chain data, builds, signs
and submits transactions, runs an asynchronous wallet worker that pays on behalf of its
callers, and lets agents act under grants with a daily budget. Several application
instances may run against one database; the database and its row-level leases are
their only means of coordination.

This directory holds TLA+ models of the parts of that system whose correctness depends
on interleavings, failures and recovery, or on filters spread over several files, the
TLC configurations that check them, and TLAPS proofs of the properties that matter
most. `PROJECT.json` maps every definition to the lines it models and lists components,
runs, hazards, findings and theorems. Paths below are relative to the directory
`src/srv/`, those of documents to `src/`.

## 1. Inventory

| Component | State it keeps | Operations | Hard behaviour |
|---|---|---|---|
| Wallet worker, job store, lease heartbeat (`blockchain/wallet-worker/`) | job rows, wallet leases, statistics; in memory the executing wallets | dispatch tick, `executeJob`, submit, reconcile, failure handling, start, stop; guarded transitions, lease acquire / renew / release, orphan cleanup | several instances on one queue; a lease that runs out under a stalled executor; a crash or lost answer around the submit; keys under retries |
| Confirmation tracker (`confirmation-tracker.ts`) | pending transactions with found height and slot, last known tip, round | track, block feed, reorg, poll, finalize | answers from before a reorg, two trackers of one job, tip moving backwards |
| Worker service, build requests, signers | none | SubmitWalletJob, CancelJob, pause, resume; payload to build request | cancel racing dispatch; payload fields dropped on the way |
| Crawler and sync state (`blockchain/crawler/`) | cursor row with lease, running intent, error streak; in memory the session, poison counts, standby timer | start, stop, standby, persist block, reorg, degradation between chain-sync and pagination, snapshots | one writer per cursor, rollback depth, poison blocks against outages, takeover, late callbacks |
| UTxO set import, ledger state (`utxo-set-import.ts`, `ledger-state.ts`) | UTxO rows, running sums, set marker | import, rebuild, refresh, activate; apply block, undo block | shares the crawler's lease; long transactions outlive it; three computations of one sum |
| Crawler backfills | progress in memory | two chain-sync streams, a walk over the rows | beside a crawler that rolls back; rows of several providers; batch ends |
| Client, circuit breaker, coalescer (`cardano-client.ts`, ...) | breaker entries, shared promises, lazy initialisation | call with failover, probe, classify errors | probe slots, final against transient errors, late answers |
| Pending spends, transaction building (`pending-spends.ts`, `cardano-tx-builder.ts`, `transaction-building/`) | inputs and outputs of unconfirmed transactions | read UTxOs, select, pledge, evaluate, stamp, submit | stale UTxOs across awaits, filters in several places, missing evaluation |
| Signing requests (`signing/`, `cardano-sign-service.ts`) | tables SigningRequests, TransactionSubmissions | create, verify, submit, deferred submit, finalize, re-drive | crash between submit and finalize, concurrent handlers |
| Agent grants and rate limiter (`utils/agent-grants.ts`, `rate-limiter.ts`) | grants, budget, token cache, usage buffer, windows | resolve, consume, refund, record, flush, edit, rotate, revoke | conditional updates at midnight, caches filled late, overlapping flushes |
| Detached transactions (`utils/tx-utils.ts`) | one pooled connection | begin, time out | a request waiting for the connection it holds |
| Indexer, backends, mappers, validators, cryptography, web application | cached rows | I/O, encoding, pure functions | hardly concurrent; covered by unit tests |

How they interact. The worker service inserts jobs; every instance's dispatch tick reads
due jobs from the shared table and takes the wallet's lease; the executor turns the
payload into a build request, builds through client and indexer, signs, commits the
signed transaction, and submits through the failover client, which records what it spends;
the confirmation tracker is fed by the crawler's in-process events and by polling, and
writes the outcome to the job row. The crawler writes chain data, cursor and UTxO set in
one transaction per block; imports and backfills write beside it, the former under its
lease. API callers build and sign through the same builder and the signing requests;
agents reach all of it through the grants.

What makes each part correct:

* wallet worker: one transaction in flight per wallet; what is sent is what was
  committed; a key pays once and a failed job never, unless a job was given up
  unanswered; nobody waits for ever;
* tracker: no confirmation that is not as deep as configured, no transaction forgotten;
* crawler: stored data is one chain up to the cursor, whoever wrote it; a dead leader is
  replaced; only an operator or a bad block turns the cluster off, and with a source that
  has no fallback a backend that was down at a start;
* UTxO set: an active set is the set at the cursor, its sums agree with its rows;
* backfills: no row of an undone block, no row mixing two inputs, done means complete;
* client: a healthy backend is found, an outage recognised, answers are the ledger's;
* building: nothing spent twice, nothing taken that was protected, the collateral safe;
* signing: one submitter per request, only verified transactions sent, records true;
* grants: no day beyond the budget, every call counted once, edits seen.

## 2. Modules

| Module | Contents |
|---|---|
| `WalletWorker`, `WalletQueue` | worker, job store, heartbeat, tracker verdicts, clients, clocks, chain; what the worker promises: queued, committed to one payment, paid or dropped |
| `WalletWorkerProofs` | types, stored before sent, no way back; one in flight, fencing; outcomes; the refinement |
| `ConfirmationTracker`, `TrackerProofs` | the tracker against a chain that forks; types, nothing forgotten, polling confirms at depth |
| `SyncState`, `LedgerState` | operators on the cursor row; apply, undo and aggregation of the UTxO tables |
| `Crawler` | the crawler on both: processes, sessions, lease, persistence, reorgs |
| `UtxoSetImport` | extends `Crawler` by imports, rebuilds and refreshes; the specification that is checked |
| `Backfills` | the backfill jobs beside a crawler reduced to advance and rollback |
| `CircuitBreaker`, `BackendErrors`, `BackendClient` | operators on a breaker entry; classification of failures; the client |
| `PendingSpends`, `CoinSelection`, `ScriptWitnesses`, `BuildRequests`, `WorkerRequests` | operators: what is offered to a build, selection and collateral, scripts, request handlers, job payloads |
| `TxBuilding` | composes these five: builds beside each other, mempool, chain and crawler |
| `SignedTx`, `Signing` | what a signed transaction must carry; requests, submissions and the re-drive |
| `RateLimiter`, `AgentGrants` | the sliding window; grants |
| `CrawlerProofs` | one chain, outages, the set kept current and right, its sums; about `Crawler` and `UtxoSetImport` together |
| `BackfillProofs`, `ClientProofs`, `BuildingProofs`, `SigningProofs`, `GrantProofs` | the theorems about `Backfills`, `BackendClient`, `TxBuilding`, `Signing`, `AgentGrants` |
| `MC...` | instances for TLC |

Common conventions. A step is one database transaction, one database statement or one
backend answer together with what JavaScript runs until its next await, so every await
is a point where others step in. A database transaction is atomic and serializable.
`history` variables record what a property needs and no guard reads. Processes that die
lose their variables and nothing else.

### WalletWorker

One variable per column of the two tables that the properties need, one record
`exec[i][w]` for the work an instance runs for a wallet (its `pc` names the await it is
at), `tick[i]` for the dispatch tick, `tracked[i]` for the tracker's pending map, and the
network as the sets `mempool`, `ledger`, `invalid`. `TickReconcile`, `TickReadDue` and
`TickDispatch` are the dispatch tick; `Claim` to `FinallyRelease` are `executeJob`;
`Resubmit`, `LookUpStoredTransaction`, `FailReconciled` are `reconcileSubmitting`; both
share `RecordSubmission` and `AdoptSubmitted`. `FinalizeConfirmed` and `FinalizeDropped`
are `finalize`. `Start`, `StopBegin`, `StopComplete`, `Crash` are the life of an instance.
A failing database call is the alternative `DbThrows` of the action that makes it,
followed by what the code's handlers do.

* A lease is live or not and may run out at any moment: this covers every ratio of lease
  time and instance speed. `notBefore` and the confirmation timeout are flags.
* A transaction is `<<job, n>>`, the n-th build of the job; `<<job, 0>>` the bytes of a
  `submitSigned` job. "In ledger" is final; depth and rollbacks are the tracker's.
* A permanent rejection is truthful: the transaction is invalid or already on chain.
* The confirmation timeout passes at any time and says nothing of the transaction: plain
  transfers have no end of validity, and script builds last longer than the timeout, so a
  transaction may be included after its job was given up.
* `unbooked` is a history of the writes after an accepted submit that threw: the submission
  row (`"record"`) or `markSubmitted` (`"adopt"`).
* Instance ids are fresh per start, so a crash leaves its leases to `DeadOwner`.
* `start()` failing on the database changes nothing; the releases of `stop()` are one step.
* Left out: `enabled` of a wallet (never cleared by code), creator scope, roles.

### ConfirmationTracker

The chain of node and backends with its mempool; per job the row's `status` and recorded
point; the tracker's memory (`pending`, `found`, `seen`, `tip`); the chain as a crawler in
the process has stored it (`feed` says whether there is one); and `run`, the local state
of every suspended task: one polling round, and one task per block or reorg event.
`BlockIndexed`, `RecordBlock` are `onBlockIndexed`; `Reorg` with `Rewatch` is `onReorg`;
`PollOnce` to `Drop` are `pollOnce`; `Mature` with `Confirm` is `confirmMature` and
`finalize`; `Rechecked`, `Anchor` are `stillIncluded`; `Forget`, `ClearPoint`, `Resubmit`
are `forgetInclusion`. `Answer` is the backend's answer, one step before the code uses it.

* A transaction is its job, a height stands for the slot as well, and 0 is `null`.
* Node and backends agree on one chain, replaced only by a longer one, and know the height
  of every transaction they find. A lagging backend is not modelled.
* The tasks of a stopped tracker end before the worker is started again there.

### SyncState, LedgerState, Crawler, UtxoSetImport

A block is the sequence of branch choices from the start block, so ancestors are prefixes
and a slot is a length. `cur` is the row of `CardanoSyncState`, `stored` the crawled
blocks, `ledger` the UTxO tables, `inst[i]` the crawler object of a process with the
await its pipeline is at, `poison[i]` the process-wide count, `usable[i]` the kinds of
backends whose init succeeded in the process, `imp[i]` an import call. `InitBackends` runs
when a process comes up, `EnsureBackendInitialized` is the client's lazy retry;
`StartAttempt` to `OpenSource` are `startCrawler` and the standby; `RunChainSync`,
`RollForward`, `RollBackward`, `Rewind` the stream; `Paginate`, `Handover`,
`TryReorgRecovery` pagination; `Persist`, `PersistFails`, `Fenced`, `LatePersist` the
block transaction; `HandleReorg` the rollback; `RequestStop`, `ApplyStop`, `Drain`,
`Release`, `Heartbeat` the end. Imports run `RequestImport`, `ImportLease`, `ImportBegin`,
`ImportFlush`, activation and release, or fail.

* Intersection points are all stored ancestors; the cached tip of pagination is folded
  into the fetch; after a hand-over the crawler connects anew.
* The row data of `indexBlockFull` is the block itself; what the UTxO tables and sums
  become is `LedgerState`, whose `val` stands for lovelace and for each asset.
* Scenarios combine a configuration with bounds on forks, crashes, faults, expiries,
  pauses, outages, late callbacks, imports and failing inits.
* A backend is of the kind that streams the chain or the kind that is read in pages, one of
  each at most. A process of which every backend fails its init starts no crawler.
* `excuses` names seven situations in which the code itself lets go of a property, each of
  which TLC finds when the exception is removed: `uninit` (the source asked for is
  configured, but its backend failed its init when the process came up), `late` (a callback
  of a closed stream still writes), `rewind` (a rebuild sets the cursor back), `start` (the
  set is imported or given up between the read of the cursor and the start), `outdated`
  (what a rebuild checked before its lease no longer holds when it activates), `partial` (a
  broken-off import is activated by a rebuild), `stray` (a rollback among the blocks that a
  rebuild left beyond the cursor). The scenarios of `MCCrawler` are too small for the last
  two: `partial` takes two imports and a fault, `stray` a chain of 4, two imports, two forks
  and a crash.
* `LedgerAssumption` says what the node guarantees of a block: its transactions are new to
  the chain, spend what is unspent there or made by the block itself, and no output twice.

### Backfills

`chain` and `at` are the node's tip and the crawler's cursor, `rows`, `certs`, `reds` the
rows the jobs complete, `job[k]` a backfill in memory. `Intersect` to `Flush` are
`streamCrawledBlocks` with the batch writers of the certificate and the transaction
backfill, `WalkStep` is one page of `fillTable`.

* `CollateralRows` is what `completeInputs` keeps of the rows of a transaction whose
  script failed: the ledger applied no regular input of it.
* `BackfillAssumption` says what the ledger guarantees of the blocks: a chain holds a
  transaction once, and after the transactions whose outputs it takes; and that inputs
  are lists of outpoints.
* One transaction per block and a block every second slot; an address stands for address
  and lovelace; one of the three credential tables is walked; every address has a
  credential; every transaction has certificates and redeemers.
* Left out: lazily indexed blocks, a flush that commits after `onError`, the
  asset-decimals backfill, and liveness of the jobs (a failed job is started again by
  hand).

### BackendClient, CircuitBreaker, BackendErrors

`circ[b]` is a breaker entry, `call[c]` a request with the backend it is at, `pend[m]` a
coalesced promise, `init` the lazy initialisation in flight. An answer, its recording and
the choice of the next backend are one step. `Batching` are the backends that implement
`getTransactionsBatch`, `Unsupported` what the others refuse. A submission that timed out
may reach the ledger later. Bounds: requests, outages and elapsed reset timeouts. Shutdown
is left out; parameter data is reduced to whether it is fresh; the coalescer's second
deletion of its key is folded into the first.

### TxBuilding and its operators

A UTxO has owner, lovelace, token count and perhaps a script; a request what it must
spend, protect, reference, mint and pay. `Accept` is a handler, `RunJob` a wallet job's
payload; `ReadUtxos`, `Apply`, `SetCollateral`, `Resolve`, `CheckAccounts`, `Build`,
`Evaluate` are the awaits of a build; `Submit` and `Answer` the client. The environment
includes, crawls, evicts and lets records lapse (which also stands for a restart).

* Fees and the minimum are constants; outputs are at or above minimum ADA; all script
  bytes parse; a script is its hash; tokens of all units are counted together.
* Left out: string formats, metadata, datum hashes, placeholders of parameters, the shared
  parameter cache.

### SignedTx, Signing

`req` and `subs` are the two tables, `slot[h]` a handler between its awaits, `inst[i].todo`
the requests a boot still re-drives. Claim, network call and outcome are separate steps;
a deferred submission starts when its caller's transaction has committed. Signatures are
records of a key and whether they verify.

### RateLimiter, AgentGrants

`row` is the grant, `usage` the usage table, `proc[p]` token cache, usage buffer and
limiters of a process, `flushes[p]` the flushes of its buffer that are under way, `reqs` and
`edits` calls between two statements. The timer (`FlushTimer`), a read of the usage
(`GetGrantUsage`) and the shutdown hook each start a flush whether or not another one still
writes. `UpsertOutcomes` is one statement of the upsert that flushes and requests share:
each UPDATE and INSERT may throw. Scenarios each stress one part: budget at midnight,
failing writes, overlapping flushes, shutdown, synchronous usage, change sets, edits against
cached tokens, guessed tokens, wallet jobs, the feature switched off.

* A statement that throws has had no effect. Where a database may apply an UPDATE and lose
  the answer, its retry counts the calls of the delta again.
* `Flushers` bounds the flushes of one process that run at once.

* A token is its number; `hist.known` is the last one that was answered to its owner, and
  guessed tokens are negative, so nobody presents a token before it exists.
* `hist.early` and `hist.moved` record the two situations `LocalEditSeen` leaves out: a
  lookup that read the row while a change set had dropped the cache entry and not
  committed, and a rotation made on another process (section 6).

## 3. Runs

| Run | Instance | Shows |
|---|---|---|
| `MCWalletCrash` | 2 instances, 1 wallet, payment and retry of one key, 1 crash | one job in flight across stalls and takeovers; a failed job pays, and a key pays twice, only after a job was given up unanswered |
| `MCWalletFaults` | 2 instances, 1 job, 2 builds, 1 crash, 2 faults | fencing, only the stored transaction is sent, announcements, statistics and submission rows agree, refinement of `WalletQueue` |
| `MCWalletLiveQueue` | 1 instance, 2 jobs, a stop and a crash, restarted | jobs are dispatched, ambiguous submits resolved, submitted jobs settle |
| `MCTrackerPolls` | 1 job, depth 2, chain of 3, a fork, a stop, a crash, a fault | polling confirms at depth, nothing forgotten, deep transactions get a verdict |
| `MCCrawler` | 2 processes, chain of 3, 20 scenarios | stored data is one chain, the set is right and kept current, the cluster catches up, outages do not latch, bad blocks do |
| `MCGrants` | 2 processes, 2 requests at a time, 2 flushes at once, 13 scenarios | budget, usage counts, edits, failed attempts |
| `MCClient` | 2 calls at a time, 4 requests, node and provider, an outage, one elapsed reset | failover, outages, probe slots, truth of answers |
| `MCSigning` | 1 instance, 2 handlers, 2 requests, a recorded submission, one mishap | exclusive claim, verified only, records true, deferred submissions end |
| `MCTxBuilding` | 2 builds at a time (an API request, a wallet job) of every kind, one submission | no double spend, told inputs, collateral, scripts |
| `MCBackfills` | chain of 3, a fork, batches and pages of 2, three provider styles | no orphan rows, rows true, done means complete |
| `MCWalletReconcileFault` | 2 instances, one fault | a finding, section 6 |
| `MCClientProbe` | as `MCClient` | a finding, section 6 |

Why these bounds. Two jobs are the least that conflict on a wallet or a key; two instances
the least that take over from each other, and a third would repeat the second's role; two
builds show a rebuild. One crash and one or two faults put a failure at every point of
every behaviour of that size. Depth 2 and a chain of 3 are the least with an inclusion
that is not deep yet when the fork comes, and with a rollback behind an imported set;
batches of 2 leave a full and a partial one. Two requests meet at midnight; two flushes
overlap, and a third one would find what the first two left. The token cache holds two
rows: after a rotation on the other process both the old token's row and the new one's are
cached, and the third lookup finds the cache full. Four client requests open, half-open
and probe a circuit with thresholds of 2. A wallet job that is submitted is enough for an
API build to collide with; two submissions exceed what TLC explores in minutes.

Runs whose environment is bounded, or whose system may come to rest, do not check
deadlock; the wallet's runs and `MCTxBuilding` do.

Fairness. Timers fire and awaits return (weak fairness of ticks, executions, heartbeats,
flushes, handlers), clocks advance (backoffs, timeouts, a lease that no heartbeat renews),
the chain settles a transaction, and a lookup or start that is repeated for ever succeeds
some time (strong fairness: the code repeats it every tick or delay and depends on that).
`RestartSpec` adds that a supervisor restarts an instance that went down; in
`ConfirmationTracker` and `Signing` a process that died is started again. Nothing is
assumed of operators, callers, or of the crawler when the tracker's verdict is claimed.

## 4. Proofs

Each theorem holds for every value of the constants: any number of instances, wallets,
jobs, backends, requests and builds, any chain, and any number of crashes, forks and
faults. The assumptions are named where the constants are declared and evaluated in the
runs: `RequestAssumption`, `NullAssumption`, `BoundAssumption` (`WalletWorker`),
`JobsAssumption`, `DepthAssumption`, `BoundsAssumption` (`ConfirmationTracker`),
`InstanceAssumption` (`Signing`), `ClientAssumption` (`BackendClient`), `GrantAssumption`,
`RateAssumption` (`AgentGrants`, `RateLimiter`), `CrawlerAssumption`, `ImportAssumption`,
`LedgerAssumption`, `ErrorsAssumption` (`Crawler`, `UtxoSetImport`, `SyncState`),
`BuildingAssumption` (`TxBuilding`), `BackfillAssumption` (`Backfills`). They are types, null
values that differ from the rest, what requests and transactions are made of, and, for the
UTxO set, what the node's ledger guarantees; bounds and thresholds are natural numbers,
positive where zero makes no sense.

`PROJECT.json` lists the theorems. Each proof is an inductive invariant, of which the
property is a part or a consequence; TLC checked each invariant on the runs' instances
before it was proved.

* **WalletWorkerProofs.** `Typed` (`TypeCorrect`, `StoredBeforeSent`, `NoWayBackHolds`)
  adds to the types: an execution and a due row are about a job of their wallet, a row
  stores its own job's transaction, an execution past the store carries the stored one,
  and the network has seen only stored transactions. It is needed because
  `AdoptSubmitted` and `Resubmit` act on the copy in `exec`. `LeaseInv` (`OneJobInFlight`,
  `FenceProtects`) says in addition that a wallet whose lease an executing instance owns
  has no other active job (`OwnerHasClearWallet`), and that a building row has one executor
  (`ClaimedOnce`). A takeover is only possible after the lease ran out, and the transaction
  that takes it fails the building rows; so an executor that lost its wallet finds its row
  no longer building when it stores its transaction. `WorkerImplementsQueue`: each action
  maps to one step of `WalletQueue` or to a stutter, under `phase`, `walletOf`, `payment`,
  `onChain`.
* **Outcomes of wallet jobs.** `FailedIsFinal`, `PaysOnce` and `OutcomeToldOnce` hold
  without conditions: transactions may outlive the confirmation timeout, and any database
  call may throw. What the code does then is part of the properties: `GivenUpUnanswered`
  names the two ways in which a job fails while its transaction may still be included
  (section 6 has a counterexample for each), and every other failed job has no transaction
  that is or gets on the ledger. `OutcomeInv` follows the verdicts: what is given up is
  invalid or excused, and invalid transactions stay so (`VerdictsTrue`); what is failing
  was never sent or is excused (`ClaimedIsUnsent`); a live job owns its key and no later row
  has the same claim (`LiveOwnsKey`), so of two transactions of one key the earlier one's job
  was given up; each outcome is told and counted in the step that writes it, and a
  confirmed build has its submission row unless writing that row threw.
* **TrackerProofs.** `PollingIsSafe` needs `DepthInv`: the tip known, and the tip
  `confirmMature` captured, are never beyond the chain; an inclusion seen in the current
  round has been as deep as these tips say, because the answer was given by a chain at
  least that long; and a round begins with nothing seen. Dropping the re-check of older
  inclusions breaks the second part.
* **SigningProofs.** `SigningInv`: handlers name rows of the build they work on, what they
  were told is on the ledger (`AnswersHold`), and what the signing path holds, in a handler
  or stored in a request, was verified (`HeldIsChecked`), the requests a boot re-drives
  included. This holds for any number of instances. `OneHandlerPerRequest` and
  `EndedStaysEnded` assume `OneInstance`: a boot takes every claimed request with a stored
  transaction for an interrupted one, which is only true if no other instance serves
  (section 6). For them `ClaimsHold` gives each claimed request to one handler and
  `BootsHold` keeps what a boot has left free of handlers.
* **ClientProofs.** One part for each theorem. `Truths`: an error a request keeps was true
  when it was given and still is. `Counted`: a circuit is closed only while it counts every
  miss since the last success, and fewer than the threshold, however the requests overlap.
  `Probed`: probe slots are held by requests in flight or were lost to client errors, which
  the property excepts and `MCClientProbe` shows. `Searched`: what is usable throughout a
  request is still ahead of it, being asked, or gave a verdict.
* **GrantProofs.** `BudgetHolds` speaks of calls admitted, the code of a counter that two
  conditional updates move. `Charges` closes the gap: a day was charged for what it
  admitted and for the requests that hold a unit; the row counts the charges of its
  window, and no later day has any. `Plans` says that a request's row is never from a
  window after the day it charges, `Offers` that every row anybody looks at has a maximum
  within the highest. `EditsAreSeen` rests on `Cached` (which entries a cache may hold,
  and that a lookup of the present generation adds no older one) and `Rotations` (between
  the update and the invalidation of a rotation nobody can present the new token).
  `UsageAddsUp` is a balance over four places and all but inductive: what has to be added
  (`UsageTyped`) are the types of what is added up, and that the delta a flush is writing
  is not among those it has still to write, or a failed write would put it back twice.
  Flushes of one process that overlap hold disjoint parts of what was buffered, because
  each takes the buffer as a whole. `FailuresThrottled` rests on `Limited` (keys, hits and
  group counts of a limiter agree; every check, eviction and sweep keeps that, the sweep's
  fold included) and on the fact that without an eviction no key with hits is dropped: a
  client that is not tracked finds room among `MaxKeys` keys.
* **CrawlerProofs.** `CrawlInv` ties the process that holds the lease to the cursor: the
  stream stands at it, the blocks of a page follow it, a rollback leads to an ancestor
  (`InStep`), and what the leader decided about the set when it started stays right
  (`SetInStep`). Of a process without the lease nothing is said, which is why the order of
  takeovers does not matter. `ReadyInv`, that a crawler runs only in a process of which
  some backend came up, is what `OutagesDoNotLatch` needs for source `auto`. `RowsFit`
  relates rows, cursor and anchor; `Clean` and `Kept` name the exceptions. With a chain of
  any height the theorems need that ancestors are prefixes and that a fork's rollback goes
  to a common one.
* **CrawlerProofs, the UTxO set.** `TrustedSetsAreRight` compares the tables with what the
  chain says is unspent. `TrustedSetIsRight` speaks of the active set at its block and is
  far from inductive: it says nothing of the rows' spenders, on which the next undo depends,
  of a set that is being loaded, or of one that was applied up to a block the cursor has left.
  `SetInv` does (`SetFits`). A set no block was applied to lies within the outputs unspent
  at its anchor, and is all of them unless an import broke off (`Untouched`, `Complete`). An
  applied one consists of those outputs and all made since, each with its spender, up to an
  ancestor of the cursor, and the blocks in between are still stored (`Carried`, `RowsAre`):
  undoing what the stored blocks hold is then undoing what the chain did. `Applies` says that
  a leader applies blocks only to a set it found active, `Imports` and `Loads` how far the
  rows of a running import are. `ApplyGoesOn` and `UndoGoesBack` show that applying and
  undoing move `RowsAre` one block on, and back to any block behind.
* **CrawlerProofs, the sums.** The code computes the sums per address and stake key in three
  ways. `AggregatesFit`, `ApplyFits` and `UndoFits` show that each yields the sums of the
  rows it leaves, for any rows and transactions; the deltas need that an output of the block
  was not there before. They rest on a few facts about the folds `MapThenSumSet` over finite
  sets (`SumLess`, `SumUnion`, `SumMoves`); these are proved by taking a smallest set
  for which they fail, and a fold is compared with another by naming its terms as a function
  (`SumOf`). `GrantProofs` has the part of them it needs as well.
* **BuildingProofs.** `Ids`: a reference means one UTxO in the mempool, on the chain and in
  every build. `Remembered`: a transaction in the mempool that a build knew at its start is
  still pending. `Pooled` follows a UTxO from what `apply` offers through the resolution of
  the references, `Finished` into the draft; the passes over the draft (selection,
  collateral, scripts) each have a lemma.
* **BackfillProofs.** `RowsFit`: the rows are those of the stored blocks, each true of one
  input. `Reached` and `Collected`: of the blocks still owed, those up to the stream's
  position are written or in the batch, within the slots by which the flush asks for them.
  `WalkOk`: outputs owed are filled or ahead of the cursor, for which `PageFacts` shows
  that a page is the next keys in order. What was written stays, because the index resolves
  the inputs of a stored block in the same way for ever (`ResolvedForGood`).

Only model-checked: the liveness properties (`PendingIsDispatched`, `SubmittedSettles`,
`SubmittingResolves`, `DeepIsConfirmed`, `CatchesUp`, `BadBlockLatches`, `UsageIsWritten`,
`DeferredIsResolved`), because fairness and `ENABLED` are out of the prover's reach. Every
invariant and action property a passing run checks is a theorem as well, one of them under
the condition named above (`OneHandlerPerRequest`). Induction over data with an operator
as parameter is out of reach too; where a proof needs a least element of a set of numbers
it takes it from the well-foundedness of `<`, and induction over finite sets and over the
chain is done with sets of those for which the claim holds (`FamilyInduction`,
`BlockInduction`). Types and `NoWayBack` are proved for every instance and not checked
again by a run.

## 5. Not modelled

* Mappers, CBOR parsing, the OData read services, the web application, the workers'
  signers, wiring and configuration: I/O, conversions or key material without control
  that a property depends on.
* Of modelled components: see the lists in section 2. HTTP and WebSocket handling of the
  backends appears as the answers and failures of `BackendClient`, `Crawler` and
  `Backfills`; cryptography as whether a signature verifies; balancing and fees of the
  external transaction library as constants.
* The database's isolation: transactions are steps. Below serializable isolation the
  lease reads and the held-blocks check of a backfill's flush could interleave.
* The connection pool: a detached transaction (`utils/tx-utils.ts`) commits or fails.
* Memory of one process that another cannot see, beyond what is modelled: pending spends
  are per process, so an instance may build with inputs another one has just spent.

## 6. Where the code departs from its documentation

Two runs keep a counterexample:

* `MCWalletReconcileFault`: one database error while a reconciler records an accepted
  re-submit counts as a rejected submit; the job fails and releases its key while its
  transaction can still be included (`wallet-worker.ts:437`).
* `MCClientProbe`: a probe of a half-open circuit that ends in a client error reports
  neither success nor failure, so its slot is never released; as many of them as there
  are slots take the backend out of use until a restart (`circuit-breaker.ts:65`).

Others were met while modelling. They are known to the models, by an exception in a
property, and no run is kept for them:

* A transaction that is not seen within `confirmationTimeoutMs` fails its job as
  `TX_DROPPED`, "safe to retry" (`docs/guides/USER_GUIDE.md:1058`), and frees its key. Plain
  transfers have no end of validity (`transaction-building/buildooor-tx.ts:1583`) and script
  builds last an hour against ten minutes of timeout, so the retry and the original can both
  be included. Without the timeout in `GivenUpUnanswered` TLC violates `KeyPaysOnce` with one
  instance and no mishap, in 28 states.
* With source `ogmios` or `pagination` the crawler takes a backend that failed its init when
  the process came up (`cardano-client.ts:526`, `:602`) for one that is not configured, and
  latches the running intent of the whole cluster off (`crawler/crawler.ts:344`, `:589`):
  "Use it only for misconfiguration, never for outages." (`crawler/crawler.ts:270`). Without
  `uninit` TLC violates `OutageNeverLatches` in 7 states.
* An orphaned building row of a wallet without other due jobs is not cleaned up until a
  worker starts (`wallet-worker.ts:234`).
* Submitted jobs of a stopped instance are watched again only when some worker starts
  (`confirmation-tracker.ts:93`; "Rolling deployments are safe.", `USER_GUIDE.md:1096`).
* The tracker's block feed confirms without looking a transaction up again; a tip of a new
  fork that a poll learned is compared with an inclusion on the old one
  (`confirmation-tracker.ts:244`).
* A callback of a closed chain-sync session still persists its block
  (`crawler/crawler.ts:513` closes, nothing waits for `inFlightCallbacks` there).
* A rebuild activates the rows of a broken-off import (`utxo-set-import.ts:354`), and acts
  on checks of the set and the cursor it made before it took the lease
  (`utxo-set-import.ts:355`-375, lease at :377): a crawler that applied a block in between
  leaves rows past the anchor that is activated.
* A rebuild that sets the cursor back leaves the blocks beyond it stored. If the chain forks
  before they are crawled again, the next rollback may end at one of them, since pagination
  compares stored blocks by height (`crawler.ts:702`) and chain-sync offers stored points,
  and undoes only the blocks after it; or it undoes transactions that a set imported on the
  new fork holds, too ("A cursor past the snapshot slot is set back, so the blocks after it
  are crawled again", `utxo-set-import.ts:354`). The set is then wrong and active. The proof
  of `TrustedSetsAreRight` came to a halt at this rollback, and TLC confirmed it.
* `invalidateTokenCache` drops the entry `tokenHashOfGrant` names, and that is one hash
  (`agent-grants.ts:199`): when the token was rotated on another process, this one may
  hold a row under the old hash and one under the new, and a later edit made here leaves
  the older until it ages ("`RevokeAgentGrant` turns the token into an unknown token
  immediately", `README.md:143`).
* Two instances on one database: the boot of one takes a deferred signing request that the
  other is just submitting for an interrupted one and submits it as well. The network
  takes it once, but both write the outcome, and the second may overwrite a final one.
* A revoked token works on other instances until their cache entry ages.
* A re-submission that the network already knows and whose first row was not final leaves
  a second submission row (`submission-finalizer.ts:98`).
* The change of a pending transaction that was crawled and spent meanwhile is offered
  again while the listing holds none of its outputs (`pending-spends.ts`, `apply`).
* A build that needs a UTxO with a deployed script to pay its way has had them filtered
  out before the fallback that would add them (`cardano-tx-builder.ts:448`).
* A worker job's `forceInputsJson` and `protectInputsJson` are silently ignored for the
  kinds with metadata or several assets (`build-request.ts`, `prepareMetadata`,
  `prepareMultiAsset`).

## 7. Plan

1. A composition of `Signing` and `TxBuilding` by the submission they share.
2. The steps a rebuild leaves unsaid: a model of the crawler in which the rebuild removes the
   blocks beyond the anchor, to show that the exceptions `rewind` and `stray` become
   unnecessary.
