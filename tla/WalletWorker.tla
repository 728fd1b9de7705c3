---------------------------- MODULE WalletWorker ----------------------------
(***************************************************************************)
(* The wallet worker of ODATANO: a queue of transaction jobs per wallet,   *)
(* kept in a database that several application instances share, executed   *)
(* by whichever instance holds the wallet's lease.                         *)
(*                                                                         *)
(* What is kept: every committed database transaction is one step (the     *)
(* code wraps each in cds.tx), every await between two of them is a place  *)
(* where other instances, clients, the clock and the chain may act.        *)
(* Instances stall (a step is simply taken late), crash and restart; a     *)
(* database call may throw; a submit may fail, or be accepted with its     *)
(* answer lost; a chain lookup may fail.                                   *)
(*                                                                         *)
(* What is abstracted: time.  A lease is live or not, and may stop being   *)
(* live at any moment (LeaseExpires): this covers every relation between   *)
(* the lease time to live and the speed of an instance.  A backoff         *)
(* (notBefore) and the confirmation timeout (submittedAt) are flags the    *)
(* environment changes.  A transaction is <<job, n>>, the n-th build of    *)
(* the job; <<job, 0>> stands for the bytes a submitSigned job carries.    *)
(* The confirmation depth is abstracted to "in ledger", which is final     *)
(* here (rollbacks belong to the confirmation tracker's own model).        *)
(***************************************************************************)
EXTENDS Integers, FiniteSets

CONSTANTS
  Instances,             \* application instances running a worker
  Wallets,               \* wallets every instance can sign for
  Claims,                \* (caller, idempotency key) pairs, what dedupKeyFor tells apart
  NoClaim,               \* a request without idempotency key
  NoOwner,               \* leaseOwner of a free wallet
  DeadOwner,             \* leaseOwner left behind by a crashed process (ids are per start)
  NoRequest,             \* the request of a job that does not exist yet
  Requests,              \* the requests clients may send
  MaxAttempts,           \* defaultMaxAttempts
  MaxConcurrentWallets,  \* maxConcurrentWallets
  MaxJobs, MaxBuilds,    \* bounds: jobs inserted, builds per job
  MaxCrashes, MaxStops,  \* bounds: process crashes, graceful stops
  MaxDbFaults            \* bound: database calls that throw

JobIds == 1..MaxJobs
Txs    == JobIds \X (0..MaxBuilds)
NoJob  == 0
NoTx   == <<0, 0>>

Kinds == {"build", "submitSigned"}

RequestType ==
  [walletId : Wallets, kind : Kinds, idempotencyKey : Claims \cup {NoClaim},
   priority : Nat, delayed : BOOLEAN]

ASSUME RequestAssumption == Requests \subseteq RequestType
ASSUME NullAssumption ==
  /\ NoOwner \notin Instances /\ DeadOwner \notin Instances /\ NoOwner # DeadOwner
  /\ NoClaim \notin Claims /\ Claims \cap JobIds = {}
  /\ NoRequest \notin RequestType
ASSUME BoundAssumption ==
  /\ MaxJobs \in Nat /\ MaxBuilds \in Nat /\ MaxAttempts \in Nat \ {0}
  /\ MaxConcurrentWallets \in Nat \ {0}
  /\ MaxCrashes \in Nat /\ MaxStops \in Nat /\ MaxDbFaults \in Nat

VARIABLES
  \* Table CardanoWalletJobs, one function per column.
  request,     \* walletId, kind, idempotencyKey, priority; createdAt is the job id itself
  status, dedupKey, attempt,
  notBefore,   \* TRUE while notBefore lies in the future
  txHash,      \* the stored signed transaction (txHash and signedTxCbor)
  timedOut,    \* TRUE once confirmationTimeoutMs passed since submittedAt
  \* Table CardanoWorkerWallets.
  leaseOwner, leaseLive, jobsConfirmed, jobsFailed,
  \* Table TransactionSubmissions: hashes with a row, and those in state confirmed.
  recorded, recordedConfirmed,
  \* Memory of each instance.
  mode,        \* "down", "up", "stopping"
  tick,        \* the dispatch tick: phase, wallets still to visit, the due rows it read
  exec,        \* the work running for each wallet (executing)
  tracked,     \* transactions pending in the confirmation tracker
  \* The Cardano network.
  mempool, ledger, invalid,
  \* Observation and bounds.
  events,      \* terminal CAP events published per job
  unbooked,    \* history: writes about an accepted transaction that failed
  builds, crashes, stops, faults

jobVars    == <<request, status, dedupKey, attempt, notBefore, txHash, timedOut>>
leaseVars  == <<leaseOwner, leaseLive>>
statVars   == <<jobsConfirmed, jobsFailed>>
recordVars == <<recorded, recordedConfirmed>>
chainVars  == <<mempool, ledger, invalid>>
boundVars  == <<builds, crashes, stops>>
vars == <<jobVars, leaseVars, statVars, recordVars, mode, tick, exec, tracked,
          chainVars, events, unbooked, boundVars, faults>>

-----------------------------------------------------------------------------
(* Types.                                                                  *)

Statuses == {"absent", "pending", "building", "submitting", "submitted",
             "confirmed", "failed", "cancelled"}
InFlight == {"submitting", "submitted"}
Active   == {"building"} \cup InFlight
Terminal == {"confirmed", "failed", "cancelled"}

\* Where an execution is between two awaits.  "claim" to "release" is executeJob,
\* "rsubmit", "rlookup" and "rfail" are reconcileSubmitting; "book" and "adopt"
\* (adoptSubmitted) and "release" belong to both.
Unstored == {"claim", "prep", "build", "fence", "store"}
Failing  == {"reread", "fail"}
Settling == {"submit", "book", "adopt", "rsubmit", "rlookup", "rfail"}
Pcs      == {"idle", "release"} \cup Unstored \cup Failing \cup Settling

ExecType ==
  [pc : Pcs, job : JobIds \cup {NoJob}, attempt : Nat, tx : Txs \cup {NoTx},
   err : {"none", "transient", "permanent"}, via : {"execute", "resubmit", "onchain"}]

Idle == [pc |-> "idle", job |-> NoJob, attempt |-> 0, tx |-> NoTx,
         err |-> "none", via |-> "execute"]

DueRow == [job : JobIds \cup {NoJob}, attempt : Nat]
NoDue  == [job |-> NoJob, attempt |-> 0]

\* The writes that follow an accepted submit: the submission row and markSubmitted.
Bookings == {"record", "adopt"}

TickType == [phase : {"reconcile", "dispatch"}, todo : SUBSET Wallets, due : [Wallets -> DueRow]]
AtRest   == [phase |-> "reconcile", todo |-> Wallets, due |-> [w \in Wallets |-> NoDue]]

\* Every column, lease and in-memory structure holds a value of its type, and a
\* job row that exists carries one of the clients' requests.
TypeOK ==
  /\ request \in [JobIds -> Requests \cup {NoRequest}]
  /\ status \in [JobIds -> Statuses]
  /\ \A j \in JobIds : status[j] # "absent" => request[j] \in Requests
  /\ dedupKey \in [JobIds -> Claims \cup JobIds]
  /\ attempt \in [JobIds -> Nat]
  /\ notBefore \in [JobIds -> BOOLEAN] /\ timedOut \in [JobIds -> BOOLEAN]
  /\ txHash \in [JobIds -> Txs \cup {NoTx}]
  /\ leaseOwner \in [Wallets -> Instances \cup {NoOwner, DeadOwner}]
  /\ leaseLive \in [Wallets -> BOOLEAN]
  /\ jobsConfirmed \in [Wallets -> Nat] /\ jobsFailed \in [Wallets -> Nat]
  /\ recorded \subseteq Txs /\ recordedConfirmed \subseteq Txs
  /\ mode \in [Instances -> {"down", "up", "stopping"}]
  /\ tick \in [Instances -> TickType]
  /\ exec \in [Instances -> [Wallets -> ExecType]]
  /\ tracked \in [Instances -> SUBSET Txs]
  /\ mempool \subseteq Txs /\ ledger \subseteq Txs /\ invalid \subseteq Txs
  /\ events \in [JobIds -> [confirmed : Nat, failed : Nat]]
  /\ unbooked \subseteq JobIds \X Bookings
  /\ builds \in [JobIds -> 0..MaxBuilds]
  /\ crashes \in 0..MaxCrashes /\ stops \in 0..MaxStops /\ faults \in 0..MaxDbFaults

Init ==
  /\ request = [j \in JobIds |-> NoRequest]
  /\ status = [j \in JobIds |-> "absent"]
  /\ dedupKey = [j \in JobIds |-> j]
  /\ attempt = [j \in JobIds |-> 0]
  /\ notBefore = [j \in JobIds |-> FALSE] /\ timedOut = [j \in JobIds |-> FALSE]
  /\ txHash = [j \in JobIds |-> NoTx]
  /\ leaseOwner = [w \in Wallets |-> NoOwner] /\ leaseLive = [w \in Wallets |-> FALSE]
  /\ jobsConfirmed = [w \in Wallets |-> 0] /\ jobsFailed = [w \in Wallets |-> 0]
  /\ recorded = {} /\ recordedConfirmed = {}
  /\ mode = [i \in Instances |-> "up"]
  /\ tick = [i \in Instances |-> AtRest]
  /\ exec = [i \in Instances |-> [w \in Wallets |-> Idle]]
  /\ tracked = [i \in Instances |-> {}]
  /\ mempool = {} /\ ledger = {} /\ invalid = {}
  /\ events = [j \in JobIds |-> [confirmed |-> 0, failed |-> 0]] /\ unbooked = {}
  /\ builds = [j \in JobIds |-> 0] /\ crashes = 0 /\ stops = 0 /\ faults = 0

-----------------------------------------------------------------------------
(* Reads and guarded writes of job-store.ts.                               *)

WalletOf(j) == request[j].walletId
JobsOf(w)   == {j \in JobIds : status[j] # "absent" /\ WalletOf(j) = w}

\* The row that owns a claim: UNIQUE (walletId, kind, dedupKey).
DedupHolders(r) == {j \in JobsOf(r.walletId) : request[j].kind = r.kind
                                               /\ dedupKey[j] = r.idempotencyKey}

\* Pending and due, first by priority and then by age.
DueJobs(w) == {j \in JobsOf(w) : status[j] = "pending" /\ ~notBefore[j]}
Before(j, k) == \/ request[j].priority < request[k].priority
                \/ request[j].priority = request[k].priority /\ j <= k
IsFirstDue(j, w) == j \in DueJobs(w) /\ \A k \in DueJobs(w) : Before(j, k)

WalletLeaseHeld(w) == leaseOwner[w] # NoOwner /\ leaseLive[w]

\* Mutant: the deadline of the lease is ignored.
OrphanedSubmittingIfUnowned(w) == IF leaseOwner[w] # NoOwner THEN {}
                                  ELSE {j \in JobsOf(w) : status[j] = "submitting"}
\* Mutant: an interrupted submit is failed like an interrupted build.
OrphanedBuildingOrSubmitting(w) == IF WalletLeaseHeld(w) THEN {}
                                   ELSE {j \in JobsOf(w) : status[j] \in {"building", "submitting"}}
\* Mutant: no orphan cleanup.
NoOrphanedBuilding(w) == {}

OrphanedSubmitting(w) == IF WalletLeaseHeld(w) THEN {}
                         ELSE {j \in JobsOf(w) : status[j] = "submitting"}
OrphanedBuilding(w)   == IF WalletLeaseHeld(w) THEN {}
                         ELSE {j \in JobsOf(w) : status[j] = "building"}

\* tryAcquireWalletLease would refuse only a live lease of another owner.
CanAcquire(i, w) == leaseOwner[w] \in {NoOwner, i} \/ ~leaseLive[w]
TakeLease(i, w)  == /\ leaseOwner' = [leaseOwner EXCEPT ![w] = i]
                    /\ leaseLive' = [leaseLive EXCEPT ![w] = TRUE]

\* Mutant: the fence accepts any live lease.
FenceLive(i, w) == leaseLive[w]

\* renewWalletLease, as the heartbeat's fence uses it: only the owner can renew,
\* an expired lease nobody took included.
FenceHeld(i, w) == leaseOwner[w] = i

\* releaseWalletLease clears only the caller's lease.
ReleaseLease(i, w) ==
  /\ leaseOwner' = [leaseOwner EXCEPT ![w] = IF @ = i THEN NoOwner ELSE @]
  /\ leaseLive' = [leaseLive EXCEPT ![w] = @ /\ leaseOwner[w] # i]

\* Rows that fail free their idempotency key by pointing dedupKey at themselves.
FailRows(S) ==
  /\ status' = [j \in JobIds |-> IF j \in S THEN "failed" ELSE status[j]]
  /\ dedupKey' = [j \in JobIds |-> IF j \in S THEN j ELSE dedupKey[j]]

\* The statuses markFailed moves to "failed".
Failable == {"pending", "building", "submitting", "submitted"}

\* markFailed and the stats bump its caller makes in the same transaction when
\* the guarded transition happened.
MarkFailed(j) ==
  IF status[j] \in Failable
  THEN /\ FailRows({j})
       /\ jobsFailed' = [jobsFailed EXCEPT ![WalletOf(j)] = @ + 1]
  ELSE UNCHANGED <<status, dedupKey, jobsFailed>>

\* A database call that throws; its transaction is rolled back.
DbThrows == faults < MaxDbFaults /\ faults' = faults + 1
DbOk     == UNCHANGED faults

-----------------------------------------------------------------------------
(* Clients: CardanoWorkerService.                                          *)

\* insertJob.  A request whose key is owned by a job that is neither failed nor
\* cancelled returns that job and changes nothing.
SubmitWalletJob(r, j) ==
  LET holders == IF r.idempotencyKey = NoClaim THEN {} ELSE DedupHolders(r)
  IN /\ status[j] = "absent" /\ \A k \in 1..(j - 1) : status[k] # "absent"
     /\ \A h \in holders : status[h] \in {"failed", "cancelled"}
     /\ request' = [request EXCEPT ![j] = r]
     /\ status' = [status EXCEPT ![j] = "pending"]
     /\ dedupKey' = [k \in JobIds |->
                       IF k = j THEN IF r.idempotencyKey = NoClaim THEN j ELSE r.idempotencyKey
                       ELSE IF k \in holders THEN k ELSE dedupKey[k]]
     /\ notBefore' = [notBefore EXCEPT ![j] = r.delayed]
     /\ UNCHANGED <<attempt, txHash, timedOut, leaseVars, statVars, recordVars, mode,
                    tick, exec, tracked, chainVars, events, unbooked, boundVars, faults>>

\* markCancelled: pending jobs only.
CancelJob(j) ==
  /\ status[j] = "pending"
  /\ status' = [status EXCEPT ![j] = "cancelled"]
  /\ dedupKey' = [dedupKey EXCEPT ![j] = j]
  /\ UNCHANGED <<request, attempt, notBefore, txHash, timedOut, leaseVars, statVars,
                 recordVars, mode, tick, exec, tracked, chainVars, events, unbooked,
                 boundVars, faults>>

-----------------------------------------------------------------------------
(* The dispatch tick.                                                      *)

Executing(i) == {w \in Wallets : exec[i][w].pc # "idle"}
Busy(i, w)   == exec[i][w].pc # "idle"
AtCapacity(i) == Cardinality(Executing(i)) >= MaxConcurrentWallets

\* spawn starts nothing once stop() began; stop() releases the lease.
Spawn(i, w, work) ==
  exec' = IF mode[i] = "up" THEN [exec EXCEPT ![i][w] = work] ELSE exec

\* The loops return at capacity and when the instance is no longer running; the
\* one transaction under way when stop() is called still commits.
Visited(i, w) == IF AtCapacity(i) \/ mode[i] = "stopping" THEN {} ELSE tick[i].todo \ {w}

Ticking(i, w, phase) ==
  /\ mode[i] \in {"up", "stopping"}
  /\ tick[i].phase = phase
  /\ w \in tick[i].todo

\* Leaving the dispatch loop ends the tick.
AfterDispatch(i, w) ==
  tick' = [tick EXCEPT ![i] = IF Visited(i, w) = {} THEN AtRest
                              ELSE [@ EXCEPT !.todo = Visited(i, w), !.due[w] = NoDue]]

\* reconcileOrphanedSubmissions, one wallet: adopt the oldest submitting row of a
\* wallet without live lease, under the lease.
TickReconcile(i, w) ==
  /\ Ticking(i, w, "reconcile")
  /\ tick' = [tick EXCEPT ![i].todo = Visited(i, w)]
  /\ IF Busy(i, w) \/ AtCapacity(i) \/ OrphanedSubmitting(w) = {}
     THEN UNCHANGED <<leaseVars, exec>>
     ELSE \E stuck \in OrphanedSubmitting(w) :
             /\ \A k \in OrphanedSubmitting(w) : stuck <= k
             /\ TakeLease(i, w)
             /\ Spawn(i, w, [Idle EXCEPT !.pc = "rsubmit", !.job = stuck,
                                         !.tx = txHash[stuck], !.via = "resubmit"])
  /\ UNCHANGED <<jobVars, statVars, recordVars, mode, tracked, chainVars, events, unbooked,
                 boundVars, faults>>

\* findDueJobs: the tick keeps the first due row of each wallet, as read now.
TickReadDue(i) ==
  LET ready == {w \in Wallets : DueJobs(w) # {}}
  IN /\ mode[i] = "up"
     /\ tick[i].phase = "reconcile" /\ tick[i].todo = {}
     /\ IF ready = {}
        THEN tick' = [tick EXCEPT ![i] = AtRest]
        ELSE \E first \in [ready -> JobIds] :
               /\ \A w \in ready : IsFirstDue(first[w], w)
               /\ tick' = [tick EXCEPT ![i] =
                    [phase |-> "dispatch", todo |-> ready,
                     due |-> [w \in Wallets |->
                                IF w \in ready
                                THEN [job |-> first[w], attempt |-> attempt[first[w]]]
                                ELSE NoDue]]]
     /\ UNCHANGED <<jobVars, leaseVars, statVars, recordVars, mode, exec, tracked,
                    chainVars, events, unbooked, boundVars, faults>>

\* One wallet of the dispatch loop: in one transaction fail the building rows of a
\* dead executor, stand back while a job is active, take the lease.  The job that
\* is executed is the row the tick read, whatever happened to it since.
TickDispatch(i, w) ==
  /\ Ticking(i, w, "dispatch")
  /\ AfterDispatch(i, w)
  /\ IF Busy(i, w) \/ AtCapacity(i)
     THEN UNCHANGED <<status, dedupKey, leaseVars, exec>>
     ELSE /\ FailRows(OrphanedBuilding(w))
          /\ IF \/ \E j \in JobsOf(w) \ OrphanedBuilding(w) : status[j] \in Active
                \/ ~CanAcquire(i, w)
             THEN UNCHANGED <<leaseVars, exec>>
             ELSE /\ TakeLease(i, w)
                  /\ Spawn(i, w, [Idle EXCEPT !.pc = "claim", !.job = tick[i].due[w].job,
                                              !.attempt = tick[i].due[w].attempt + 1])
  /\ UNCHANGED <<request, attempt, notBefore, txHash, timedOut, statVars, recordVars,
                 mode, tracked, chainVars, events, unbooked, boundVars, faults>>

\* A transaction of the tick throws: tickSafe logs it and the tick is over.
TickFails(i) ==
  /\ mode[i] = "up" /\ tick[i] # AtRest
  /\ DbThrows
  /\ tick' = [tick EXCEPT ![i] = AtRest]
  /\ UNCHANGED <<jobVars, leaseVars, statVars, recordVars, mode, exec, tracked,
                 chainVars, events, unbooked, boundVars>>

-----------------------------------------------------------------------------
(* executeJob.  One action per await; exec[i][w] is its local state.       *)

At(i, w, step)  == exec[i][w].pc = step
Become(i, w, e) == exec' = [exec EXCEPT ![i][w] = e]
Goto(i, w, step) == Become(i, w, [exec[i][w] EXCEPT !.pc = step])

\* The finally block is all that is left.
Finish(i, w) == Become(i, w, [Idle EXCEPT !.pc = "release"])

\* An exception: handleExecutionFailure starts by re-reading the row.
Throw(i, w, kind) ==
  Become(i, w, [exec[i][w] EXCEPT !.pc = "reread", !.err = kind, !.tx = NoTx])

\* markBuilding.  A row that is no longer pending, or a thrown error, ends the
\* execution before its try block: the lease is not released.
Claim(i, w) ==
  LET j == exec[i][w].job
  IN /\ At(i, w, "claim")
     /\ \/ /\ status[j] = "pending" /\ DbOk
           /\ status' = [status EXCEPT ![j] = "building"]
           /\ attempt' = [attempt EXCEPT ![j] = exec[i][w].attempt]
           /\ Goto(i, w, "prep")
        \/ /\ status[j] # "pending" /\ DbOk
           /\ Become(i, w, Idle)
           /\ UNCHANGED <<status, attempt>>
        \/ /\ DbThrows
           /\ Become(i, w, Idle)
           /\ UNCHANGED <<status, attempt>>
     /\ UNCHANGED <<request, dedupKey, notBefore, txHash, timedOut, leaseVars, statVars,
                    recordVars, mode, tick, tracked, chainVars, events, unbooked, boundVars>>

\* fence(): renew now; a lease that is not ours or cannot be verified is lost and
\* the execution stands down.  A lost lease is never regained while the execution
\* runs (executing keeps the instance from dispatching the wallet again), so the
\* heartbeat's own lost flag adds nothing.
Fence(i, w, step) ==
  \/ /\ FenceHeld(i, w) /\ DbOk
     /\ leaseLive' = [leaseLive EXCEPT ![w] = TRUE]
     /\ Goto(i, w, step)
  \/ /\ ~FenceHeld(i, w) /\ DbOk
     /\ Finish(i, w)
     /\ UNCHANGED leaseLive
  \/ /\ DbThrows
     /\ Finish(i, w)
     /\ UNCHANGED leaseLive

\* The request is parsed and validated (which may throw).  A submitSigned job
\* already has its transaction; the others fence before they build.
Prepare(i, w) ==
  /\ At(i, w, "prep")
  /\ \/ Throw(i, w, "permanent") /\ UNCHANGED <<leaseLive, faults>>
     \/ /\ request[exec[i][w].job].kind = "submitSigned"
        /\ Become(i, w, [exec[i][w] EXCEPT !.pc = "fence", !.tx = <<exec[i][w].job, 0>>])
        /\ UNCHANGED <<leaseLive, faults>>
     \/ /\ request[exec[i][w].job].kind = "build"
        /\ Fence(i, w, "build")
  /\ UNCHANGED <<jobVars, leaseOwner, statVars, recordVars, mode, tick, tracked,
                 chainVars, events, unbooked, boundVars>>

\* buildForKind and signTransaction: a fresh transaction, or an error.
BuildAndSign(i, w) ==
  LET j == exec[i][w].job
  IN /\ At(i, w, "build")
     /\ \/ /\ builds[j] < MaxBuilds
           /\ builds' = [builds EXCEPT ![j] = @ + 1]
           /\ Become(i, w, [exec[i][w] EXCEPT !.pc = "fence", !.tx = <<j, builds[j] + 1>>])
        \/ \E kind \in {"transient", "permanent"} : Throw(i, w, kind) /\ UNCHANGED builds
     /\ UNCHANGED <<jobVars, leaseVars, statVars, recordVars, mode, tick, tracked,
                    chainVars, events, unbooked, crashes, stops, faults>>

\* Mutant: the transaction is sent before it is stored.
FenceThenSubmit(i, w) ==
  /\ At(i, w, "fence")
  /\ Fence(i, w, "submit")
  /\ UNCHANGED <<jobVars, leaseOwner, statVars, recordVars, mode, tick, tracked,
                 chainVars, events, unbooked, boundVars>>

\* The last fence before the irreversible part.
FenceBeforeSubmit(i, w) ==
  /\ At(i, w, "fence")
  /\ Fence(i, w, "store")
  /\ UNCHANGED <<jobVars, leaseOwner, statVars, recordVars, mode, tick, tracked,
                 chainVars, events, unbooked, boundVars>>

\* Mutant: markSubmitting does not look whether the row was failed meanwhile.
StorableAfterFailure == {"building", "failed"}

\* The statuses markSubmitting moves to "submitting".
Storable == {"building"}

\* markSubmitting: commit the signed transaction before it can reach a backend.
MarkSubmitting(i, w) ==
  LET j == exec[i][w].job
  IN /\ At(i, w, "store")
     /\ \/ /\ status[j] \in Storable /\ DbOk
           /\ status' = [status EXCEPT ![j] = "submitting"]
           /\ txHash' = [txHash EXCEPT ![j] = exec[i][w].tx]
           /\ Goto(i, w, "submit")
        \/ /\ status[j] \notin Storable /\ DbOk
           /\ Finish(i, w)
           /\ UNCHANGED <<status, txHash>>
        \/ /\ DbThrows
           /\ Throw(i, w, "permanent")
           /\ UNCHANGED <<status, txHash>>
     /\ UNCHANGED <<request, dedupKey, attempt, notBefore, timedOut, leaseVars, statVars,
                    recordVars, mode, tick, tracked, chainVars, events, unbooked, boundVars>>

-----------------------------------------------------------------------------
(* Submitting, and the answers of the network (external).                  *)

\* A backend takes a transaction that is still valid, or knows it already.
Accepted(t) == /\ t \notin invalid
               /\ mempool' = IF t \in ledger THEN mempool ELSE mempool \cup {t}
\* Rejected for good: its inputs are spent or its validity is over.
Rejected(t) == t \in invalid \cup ledger /\ UNCHANGED mempool
\* No answer: the call did not get through, or its answer was lost.
Unanswered(t) == Accepted(t) \/ UNCHANGED mempool

\* submitStoredTransaction: a failed submit leaves the row submitting.
SubmitStoredTransaction(i, w) ==
  LET t == exec[i][w].tx
  IN /\ At(i, w, "submit")
     /\ \/ Accepted(t) /\ Goto(i, w, "book")
        \/ (Rejected(t) \/ Unanswered(t)) /\ Finish(i, w)
     /\ UNCHANGED <<jobVars, leaseVars, statVars, recordVars, mode, tick, tracked,
                    ledger, invalid, events, unbooked, boundVars, faults>>

\* adoptSubmitted, first half: the submission row, once per transaction.  Its
\* errors are logged only.  submitSigned jobs have none.
RecordSubmission(i, w) ==
  /\ At(i, w, "book")
  /\ IF request[exec[i][w].job].kind = "submitSigned" THEN DbOk /\ UNCHANGED <<recorded, unbooked>>
     ELSE \/ DbOk /\ recorded' = recorded \cup {exec[i][w].tx} /\ UNCHANGED unbooked
          \/ DbThrows /\ unbooked' = unbooked \cup {<<exec[i][w].job, "record">>}
             /\ UNCHANGED recorded
  /\ Goto(i, w, "adopt")
  /\ UNCHANGED <<jobVars, leaseVars, statVars, recordedConfirmed, mode, tick, tracked,
                 chainVars, events, boundVars>>

\* track() is idempotent per job.
Track(i, t) ==
  tracked' = IF \E u \in tracked[i] : u[1] = t[1] THEN tracked
             ELSE [tracked EXCEPT ![i] = @ \cup {t}]

\* adoptSubmitted, second half: markSubmitted, and the tracker adopts the
\* transaction whether or not the transition happened.  An error goes to
\* handleExecutionFailure in executeJob, counts as a failed re-submit inside
\* reconcileSubmitting's try block, and ends the reconciliation after a lookup.
AdoptSubmitted(i, w) ==
  LET j == exec[i][w].job
  IN /\ At(i, w, "adopt")
     /\ \/ /\ DbOk
           /\ status' = IF status[j] = "submitting" THEN [status EXCEPT ![j] = "submitted"]
                        ELSE status
           /\ Track(i, exec[i][w].tx)
           /\ Finish(i, w)
           /\ UNCHANGED unbooked
        \/ /\ DbThrows
           /\ unbooked' = unbooked \cup {<<j, "adopt">>}
           /\ CASE exec[i][w].via = "execute"  -> Throw(i, w, "permanent")
                [] exec[i][w].via = "resubmit" ->
                     Become(i, w, [exec[i][w] EXCEPT !.pc = "rlookup", !.err = "permanent"])
                [] exec[i][w].via = "onchain"  -> Finish(i, w)
           /\ UNCHANGED <<status, tracked>>
     /\ UNCHANGED <<request, dedupKey, attempt, notBefore, txHash, timedOut, leaseVars,
                    statVars, recordVars, mode, tick, chainVars, events, boundVars>>

-----------------------------------------------------------------------------
(* handleExecutionFailure and the finally blocks.                          *)

\* Only a row still building goes on to be requeued or failed.  A failed read
\* counts as "still building".
RereadRow(i, w) ==
  /\ At(i, w, "reread")
  /\ \/ status[exec[i][w].job] = "building" /\ DbOk /\ Goto(i, w, "fail")
     \/ status[exec[i][w].job] # "building" /\ DbOk /\ Finish(i, w)
     \/ DbThrows /\ Goto(i, w, "fail")
  /\ UNCHANGED <<jobVars, leaseVars, statVars, recordVars, mode, tick, tracked,
                 chainVars, events, unbooked, boundVars>>

\* The statuses requeueForRetry moves back to "pending".
Requeueable == {"building"}

\* requeueForRetry with a backoff for a transient error that has attempts left,
\* markFailed for any other.  A database error is logged and the row stays.
RequeueOrFail(i, w) ==
  LET j == exec[i][w].job
      retry == exec[i][w].err = "transient" /\ exec[i][w].attempt < MaxAttempts
  IN /\ At(i, w, "fail")
     /\ \/ /\ DbOk /\ retry
           /\ IF status[j] \in Requeueable
              THEN /\ status' = [status EXCEPT ![j] = "pending"]
                   /\ notBefore' = [notBefore EXCEPT ![j] = TRUE]
              ELSE UNCHANGED <<status, notBefore>>
           /\ UNCHANGED <<dedupKey, jobsFailed>>
        \/ DbOk /\ ~retry /\ MarkFailed(j) /\ UNCHANGED notBefore
        \/ DbThrows /\ UNCHANGED <<status, notBefore, dedupKey, jobsFailed>>
     /\ Finish(i, w)
     /\ UNCHANGED <<request, attempt, txHash, timedOut, leaseVars, jobsConfirmed, recordVars,
                    mode, tick, tracked, chainVars, events, unbooked, boundVars>>

\* The finally block: stop the heartbeat, release the lease, errors ignored.
FinallyRelease(i, w) ==
  /\ At(i, w, "release")
  /\ \/ DbOk /\ ReleaseLease(i, w)
     \/ DbThrows /\ UNCHANGED leaseVars
  /\ Become(i, w, Idle)
  /\ UNCHANGED <<jobVars, statVars, recordVars, mode, tick, tracked, chainVars, events, unbooked,
                 boundVars>>

-----------------------------------------------------------------------------
(* reconcileSubmitting.                                                    *)

\* Re-submit the stored bytes; a failure is remembered and the chain decides.
Resubmit(i, w) ==
  LET t == exec[i][w].tx
      failed(kind) == Become(i, w, [exec[i][w] EXCEPT !.pc = "rlookup", !.err = kind])
  IN /\ At(i, w, "rsubmit")
     /\ \/ Accepted(t) /\ Goto(i, w, "book")
        \/ Rejected(t) /\ failed("permanent")
        \/ Unanswered(t) /\ failed("transient")
     /\ UNCHANGED <<jobVars, leaseVars, statVars, recordVars, mode, tick, tracked,
                    ledger, invalid, events, unbooked, boundVars, faults>>

\* Mutant: any failed re-submit of an absent transaction gives up.
GiveUpAtOnce(i, w) == TRUE

\* The transaction is absent: retry on the next tick only after a transient error
\* within the confirmation timeout.
GiveUp(i, w) == exec[i][w].err = "permanent" \/ timedOut[exec[i][w].job]

\* The chain lookup: on chain, not found on every backend, or inconclusive.
LookUpStoredTransaction(i, w) ==
  LET t == exec[i][w].tx
  IN /\ At(i, w, "rlookup")
     /\ \/ /\ t \in ledger
           /\ Become(i, w, [exec[i][w] EXCEPT !.pc = "book", !.err = "none", !.via = "onchain"])
        \/ t \notin ledger /\ IF GiveUp(i, w) THEN Goto(i, w, "rfail") ELSE Finish(i, w)
        \/ Finish(i, w)
     /\ UNCHANGED <<jobVars, leaseVars, statVars, recordVars, mode, tick, tracked,
                    chainVars, events, unbooked, boundVars, faults>>

FailReconciled(i, w) ==
  /\ At(i, w, "rfail")
  /\ \/ DbOk /\ MarkFailed(exec[i][w].job)
     \/ DbThrows /\ UNCHANGED <<status, dedupKey, jobsFailed>>
  /\ Finish(i, w)
  /\ UNCHANGED <<request, attempt, notBefore, txHash, timedOut, leaseVars, jobsConfirmed,
                 recordVars, mode, tick, tracked, chainVars, events, unbooked, boundVars>>

-----------------------------------------------------------------------------
(* The confirmation tracker's verdicts.  finalize() moves the row, the     *)
(* stats and the submission row in one transaction; the tracker that made  *)
(* the transition publishes the event.  A finalize that throws changes     *)
(* nothing and is retried.                                                 *)

Untrack(i, t) == tracked' = [tracked EXCEPT ![i] = @ \ {t}]

\* Mutants: the guard of markConfirmed is too wide.
ConfirmableAgain == {"submitted", "confirmed"}
ConfirmableAfterFailure == {"submitted", "failed"}

\* The statuses markConfirmed moves to "confirmed".
Confirmable == {"submitted"}

FinalizeConfirmed(i, t) ==
  LET j == t[1]
  IN /\ mode[i] = "up" /\ t \in tracked[i] /\ t \in ledger
     /\ IF status[j] \in Confirmable
        THEN /\ status' = [status EXCEPT ![j] = "confirmed"]
             /\ jobsConfirmed' = [jobsConfirmed EXCEPT ![WalletOf(j)] = @ + 1]
             /\ recordedConfirmed' = recordedConfirmed \cup ({t} \cap recorded)
             /\ events' = [events EXCEPT ![j].confirmed = @ + 1]
        ELSE UNCHANGED <<status, jobsConfirmed, recordedConfirmed, events>>
     /\ Untrack(i, t)
     /\ UNCHANGED <<request, dedupKey, attempt, notBefore, txHash, timedOut, leaseVars,
                    jobsFailed, recorded, mode, tick, exec, chainVars, unbooked,
                    boundVars, faults>>

\* Not found on any backend and past the confirmation timeout: TX_DROPPED.
FinalizeDropped(i, t) ==
  LET j == t[1]
  IN /\ mode[i] = "up" /\ t \in tracked[i] /\ t \notin ledger /\ timedOut[j]
     /\ MarkFailed(j)
     /\ events' = IF status[j] \in Failable THEN [events EXCEPT ![j].failed = @ + 1]
                  ELSE events
     /\ Untrack(i, t)
     /\ UNCHANGED <<request, attempt, notBefore, txHash, timedOut, leaseVars,
                    jobsConfirmed, recordVars, mode, tick, exec, chainVars, unbooked,
                    boundVars, faults>>

-----------------------------------------------------------------------------
(* Life cycle of an instance.                                              *)

\* Mutant: submitted rows are not watched again after a restart.
StartUntracked(i) ==
  /\ mode[i] = "down"
  /\ FailRows(UNION {OrphanedBuilding(w) : w \in Wallets})
  /\ mode' = [mode EXCEPT ![i] = "up"]
  /\ UNCHANGED <<request, attempt, notBefore, txHash, timedOut, leaseVars, statVars,
                 recordVars, tick, exec, tracked, chainVars, events, unbooked, boundVars, faults>>

\* start(): recoverInterruptedJobs fails the building rows of every wallet without
\* live lease, and the tracker watches every submitted row.
Start(i) ==
  /\ mode[i] = "down"
  /\ FailRows(UNION {OrphanedBuilding(w) : w \in Wallets})
  /\ tracked' = [tracked EXCEPT ![i] = {txHash[j] : j \in {k \in JobIds : status[k] = "submitted"}}]
  /\ mode' = [mode EXCEPT ![i] = "up"]
  /\ UNCHANGED <<request, attempt, notBefore, txHash, timedOut, leaseVars, statVars,
                 recordVars, tick, exec, chainVars, events, unbooked, boundVars, faults>>

\* stop(): no new work, the tracker forgets everything at once.
StopBegin(i) ==
  /\ mode[i] = "up" /\ stops < MaxStops
  /\ mode' = [mode EXCEPT ![i] = "stopping"]
  /\ stops' = stops + 1
  /\ tracked' = [tracked EXCEPT ![i] = {}]
  /\ UNCHANGED <<jobVars, leaseVars, statVars, recordVars, tick, exec, chainVars,
                 events, unbooked, builds, crashes, faults>>

\* Once the executions are over, stop() releases the instance's leases.  A release
\* that throws is logged: that lease keeps its deadline under an id nobody uses again.
StopComplete(i) ==
  LET mine == {w \in Wallets : leaseOwner[w] = i}
  IN /\ mode[i] = "stopping" /\ Executing(i) = {}
     /\ mode' = [mode EXCEPT ![i] = "down"]
     /\ \E kept \in SUBSET mine :
          /\ \/ kept = {} /\ DbOk
             \/ kept # {} /\ DbThrows
          /\ leaseOwner' = [w \in Wallets |-> IF w \in kept THEN DeadOwner
                                             ELSE IF w \in mine THEN NoOwner ELSE leaseOwner[w]]
          /\ leaseLive' = [w \in Wallets |-> leaseLive[w] /\ w \notin mine \ kept]
     /\ tick' = [tick EXCEPT ![i] = AtRest]
     /\ tracked' = [tracked EXCEPT ![i] = {}]
     /\ UNCHANGED <<jobVars, statVars, recordVars, exec, chainVars, events, unbooked, boundVars>>

\* The process dies.  Its lease keeps its deadline under an id nobody uses again.
Crash(i) ==
  /\ mode[i] # "down" /\ crashes < MaxCrashes
  /\ crashes' = crashes + 1
  /\ mode' = [mode EXCEPT ![i] = "down"]
  /\ tick' = [tick EXCEPT ![i] = AtRest]
  /\ exec' = [exec EXCEPT ![i] = [w \in Wallets |-> Idle]]
  /\ tracked' = [tracked EXCEPT ![i] = {}]
  /\ leaseOwner' = [w \in Wallets |-> IF leaseOwner[w] = i THEN DeadOwner ELSE leaseOwner[w]]
  /\ UNCHANGED <<jobVars, leaseLive, statVars, recordVars, chainVars, events, unbooked, builds,
                 stops, faults>>

-----------------------------------------------------------------------------
(* Clocks and the chain.                                                   *)

\* The heartbeat runs from markBuilding to the finally block.
Heartbeating(i, w) == exec[i][w].pc \notin {"idle", "claim", "release"}

\* A beat renews a lease that ran out and that nobody took.
Beat(i, w) ==
  /\ Heartbeating(i, w) /\ FenceHeld(i, w) /\ ~leaseLive[w]
  /\ leaseLive' = [leaseLive EXCEPT ![w] = TRUE]
  /\ UNCHANGED <<jobVars, leaseOwner, statVars, recordVars, mode, tick, exec, tracked,
                 chainVars, events, unbooked, boundVars, faults>>

LeaseExpires(w) ==
  /\ leaseLive[w]
  /\ leaseLive' = [leaseLive EXCEPT ![w] = FALSE]
  /\ UNCHANGED <<jobVars, leaseOwner, statVars, recordVars, mode, tick, exec, tracked,
                 chainVars, events, unbooked, boundVars, faults>>

NotBeforePasses(j) ==
  /\ notBefore[j]
  /\ notBefore' = [notBefore EXCEPT ![j] = FALSE]
  /\ UNCHANGED <<request, status, dedupKey, attempt, txHash, timedOut, leaseVars, statVars,
                 recordVars, mode, tick, exec, tracked, chainVars, events, unbooked,
                 boundVars, faults>>

\* confirmationTimeoutMs after submittedAt.  The transaction may still be valid: the
\* builders bound its validity only for scripts or on request.
ConfirmationTimeout(j) ==
  /\ status[j] \in InFlight /\ ~timedOut[j]
  /\ timedOut' = [timedOut EXCEPT ![j] = TRUE]
  /\ UNCHANGED <<request, status, dedupKey, attempt, notBefore, txHash, leaseVars, statVars,
                 recordVars, mode, tick, exec, tracked, chainVars, events, unbooked,
                 boundVars, faults>>

\* A block includes a transaction of the mempool.
TxIncluded(t) ==
  /\ t \in mempool
  /\ mempool' = mempool \ {t} /\ ledger' = ledger \cup {t}
  /\ UNCHANGED <<jobVars, leaseVars, statVars, recordVars, mode, tick, exec, tracked,
                 invalid, events, unbooked, boundVars, faults>>

\* A mempool drops a transaction that is still valid.
TxEvicted(t) ==
  /\ t \in mempool
  /\ mempool' = mempool \ {t}
  /\ UNCHANGED <<jobVars, leaseVars, statVars, recordVars, mode, tick, exec, tracked,
                 ledger, invalid, events, unbooked, boundVars, faults>>

\* Its inputs are spent by another transaction, or its validity is over.
TxInvalidated(t) ==
  /\ \E j \in JobIds : txHash[j] = t
  /\ t \notin ledger \cup invalid
  /\ mempool' = mempool \ {t} /\ invalid' = invalid \cup {t}
  /\ UNCHANGED <<jobVars, leaseVars, statVars, recordVars, mode, tick, exec, tracked,
                 ledger, events, unbooked, boundVars, faults>>

-----------------------------------------------------------------------------
Execute(i, w) ==
  \/ Claim(i, w) \/ Prepare(i, w) \/ BuildAndSign(i, w) \/ FenceBeforeSubmit(i, w)
  \/ MarkSubmitting(i, w) \/ SubmitStoredTransaction(i, w)
  \/ RecordSubmission(i, w) \/ AdoptSubmitted(i, w)
  \/ RereadRow(i, w) \/ RequeueOrFail(i, w) \/ FinallyRelease(i, w)
  \/ Resubmit(i, w) \/ LookUpStoredTransaction(i, w) \/ FailReconciled(i, w)

Tick(i) == TickReadDue(i) \/ TickFails(i)
           \/ \E w \in Wallets : TickReconcile(i, w) \/ TickDispatch(i, w)

Finalize(i) == \E t \in Txs : FinalizeConfirmed(i, t) \/ FinalizeDropped(i, t)

LifeCycle(i) == Start(i) \/ StopBegin(i) \/ StopComplete(i) \/ Crash(i)

Client == \/ \E r \in Requests, j \in JobIds : SubmitWalletJob(r, j)
          \/ \E j \in JobIds : CancelJob(j)

Clock == \/ \E i \in Instances, w \in Wallets : Beat(i, w)
         \/ \E w \in Wallets : LeaseExpires(w)
         \/ \E j \in JobIds : NotBeforePasses(j) \/ ConfirmationTimeout(j)

Chain == \E t \in Txs : TxIncluded(t) \/ TxEvicted(t) \/ TxInvalidated(t)

Next == \/ Client \/ Clock \/ Chain
        \/ \E i \in Instances : Tick(i) \/ Finalize(i) \/ LifeCycle(i)
        \/ \E i \in Instances, w \in Wallets : Execute(i, w)

Spec == Init /\ [][Next]_vars

-----------------------------------------------------------------------------
(* Safety.                                                                 *)

\* Per wallet at most one job has a signed transaction that may be on its way to
\* the chain (submitting or submitted), however instances stall, die and take the
\* wallet over: "per wallet only one job is in flight at a time".
OneInFlight ==
  \A j, k \in JobIds :
    status[j] \in InFlight /\ status[k] \in InFlight /\ WalletOf(j) = WalletOf(k) => j = k

\* Whatever the network has seen of a job is the one transaction its row stores:
\* a signed transaction is committed before it is sent and never replaced by a
\* rebuild, across retries, takeovers, crashes and re-submits.
OnlyStoredTxSent ==
  /\ \A t \in mempool \cup ledger : txHash[t[1]] = t
  /\ \A j \in JobIds : status[j] \in InFlight => txHash[j] # NoTx

\* A job was failed without an answer about its transaction: the confirmation timeout
\* was over, or the transaction was accepted and markSubmitted threw.
GivenUpUnanswered(j) ==
  status[j] = "failed" /\ (timedOut[j] \/ <<j, "adopt">> \in unbooked)

\* A failed job released its idempotency key for a retry, so its transaction is
\* neither on chain nor able to get there.  The exceptions are real: a transaction may
\* outlive the confirmation timeout, for all that the guide calls a retry safe then
\* (USER_GUIDE.md:1058), and a write that fails after an accepted submit is taken for
\* a rejection (RejectedNeverPays).
FailedNeverPays ==
  \A j \in JobIds :
    status[j] = "failed" /\ txHash[j] \in mempool \cup ledger => GivenUpUnanswered(j)

\* What the code says of the same: "Proven absent and not submittable anymore:
\* releasing the idempotency key is safe." (wallet-worker.ts:475), the confirmation
\* timeout left aside.
RejectedNeverPays ==
  \A j \in JobIds :
    status[j] = "failed" /\ ~timedOut[j] => txHash[j] \notin mempool \cup ledger

SameClaim(j, k) ==
  /\ request[j].idempotencyKey # NoClaim
  /\ request[j].idempotencyKey = request[k].idempotencyKey
  /\ WalletOf(j) = WalletOf(k) /\ request[j].kind = request[k].kind

\* Two jobs sent under one idempotency key never both reach the ledger, a caller that
\* retries with its key pays once, unless the earlier job was given up unanswered.
KeyPaysOnce ==
  \A t, u \in ledger :
    t # u /\ SameClaim(t[1], u[1]) =>
      \/ t[1] < u[1] /\ GivenUpUnanswered(t[1])
      \/ u[1] < t[1] /\ GivenUpUnanswered(u[1])

\* The outcome of a job is told once and the same way everywhere, also when several
\* instances track its transaction and the transaction is included after one of them
\* gave it up: the event names the state of the row, a confirmed job is on chain, its
\* submission row says so (unless writing that row failed) and the wallet's counters
\* count every outcome once.
OutcomesAgree ==
  /\ \A j \in JobIds :
       /\ events[j].confirmed + events[j].failed <= 1
       /\ events[j].confirmed = 1 => status[j] = "confirmed"
       /\ events[j].failed = 1 => status[j] = "failed"
       /\ status[j] = "confirmed" =>
            /\ txHash[j] \in ledger
            /\ request[j].kind = "build" /\ <<j, "record">> \notin unbooked
                 => txHash[j] \in recordedConfirmed
  /\ \A w \in Wallets :
       /\ jobsConfirmed[w] = Cardinality({j \in JobsOf(w) : status[j] = "confirmed"})
       /\ jobsFailed[w] <= Cardinality({j \in JobsOf(w) : status[j] = "failed"})

\* An execution whose row is still building and that passed its last fence holds
\* the lease: nobody can have taken the wallet over without failing the row.
FencedExecutorOwnsWallet ==
  \A i \in Instances, w \in Wallets :
    exec[i][w].pc \in {"build", "store"} /\ status[exec[i][w].job] = "building"
      => leaseOwner[w] = i

\* A terminal job never changes again, and a job whose transaction is stored never
\* goes back to a state from which it would be built again.
NoWayBack ==
  [][\A j \in JobIds :
       /\ status[j] \in Terminal => status'[j] = status[j]
       /\ status[j] \in InFlight => status'[j] \in InFlight \cup Terminal
       /\ txHash[j] # NoTx => txHash'[j] = txHash[j]]_vars

-----------------------------------------------------------------------------
(* Liveness.                                                               *)

RunTick(i) == TickReadDue(i) \/ \E w \in Wallets : TickReconcile(i, w) \/ TickDispatch(i, w)

\* A backend eventually gives a reconciliation a conclusive answer.
ConclusiveLookup(i, w) ==
  LookUpStoredTransaction(i, w) /\ exec'[i][w].pc \in {"book", "rfail"}

\* A lease that no running execution renews.
UnattendedLeaseExpires(w) ==
  LeaseExpires(w) /\ \A i \in Instances : ~(FenceHeld(i, w) /\ Heartbeating(i, w))

\* Timers fire, awaits return, clocks advance, the chain settles a transaction it
\* has (includes it or outlives its validity), lookups do not fail for ever.
RunFairness ==
  /\ \A i \in Instances : /\ WF_vars(RunTick(i)) /\ WF_vars(Finalize(i))
                          /\ WF_vars(StopComplete(i))
  /\ \A i \in Instances, w \in Wallets : /\ WF_vars(Execute(i, w))
                                         /\ SF_vars(ConclusiveLookup(i, w))
  /\ \A w \in Wallets : WF_vars(UnattendedLeaseExpires(w))
  /\ \A j \in JobIds : WF_vars(NotBeforePasses(j)) /\ WF_vars(ConfirmationTimeout(j))
  /\ \A t \in Txs : WF_vars(TxInvalidated(t))

\* Instances that are down are not obliged to come back.
FairSpec == Spec /\ RunFairness

\* A supervisor restarts every instance that went down.
RestartSpec == FairSpec /\ \A i \in Instances : WF_vars(Start(i))

\* An ambiguous submit is eventually resolved: no job stays submitting for ever,
\* whoever crashed between the commit of the transaction and its acceptance.
SubmittingResolves ==
  \A j \in JobIds : status[j] = "submitting" ~> status[j] # "submitting"

\* A submitted job eventually gets its verdict.
SubmittedSettles ==
  \A j \in JobIds : status[j] = "submitted" ~> status[j] \in Terminal

\* The queue of a wallet never blocks for ever: every pending job is eventually
\* dispatched (or cancelled), past orphans and ambiguous submits of other jobs.
PendingIsDispatched ==
  \A j \in JobIds : status[j] = "pending" ~> status[j] # "pending"

-----------------------------------------------------------------------------
(* The abstract specification.                                             *)

PhaseOf(s) == CASE s = "absent" -> "none"
                [] s \in {"pending", "building"} -> "queued"
                [] s \in InFlight -> "committed"
                [] s = "confirmed" -> "paid"
                [] s \in {"failed", "cancelled"} -> "dropped"

Queue == INSTANCE WalletQueue WITH
  Jobs <- JobIds, NoWallet <- NoRequest,
  phase <- [j \in JobIds |-> PhaseOf(status[j])],
  walletOf <- [j \in JobIds |-> IF status[j] = "absent" THEN NoRequest ELSE WalletOf(j)],
  payment <- txHash, onChain <- ledger

\* The worker implements the queue: whatever instances, clients, clocks, faults and
\* the chain do, each step is a step of WalletQueue or leaves its state alone.
ImplementsQueue == Queue!Spec

=============================================================================
