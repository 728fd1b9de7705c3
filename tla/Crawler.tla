-------------------------------- MODULE Crawler --------------------------------
(* The chain crawler (crawler/crawler.ts, crawler/index.ts): several application *)
(* instances, one database, one cursor under a lease. The leader follows the     *)
(* chain of a node or of a paginating provider, writes one block per database    *)
(* transaction together with the cursor, and rolls back on a reorg.              *)
(*                                                                               *)
(* A step is one database transaction or one answer of a backend with what the   *)
(* code does until its next await. inst[i] is the crawler object of process i;   *)
(* pc names the await its pipeline is at. Backend answers are folded into the    *)
(* step that uses them, except blocks: they are fetched (todo) some time before  *)
(* they are written.                                                             *)
EXTENDS SyncState, LedgerState

CONSTANTS
  Instances, NoBlock,
  Depth,              \* crawler.confirmationDepth
  BatchSize,          \* crawler.batchSize
  PersistRetries, PoisonThreshold,
  ReorgDepth,         \* MAX_DEPTH of tryReorgRecovery
  EpochLength,        \* slots per epoch
  MaxHeight,          \* bound on the length of the chain
  Scenarios           \* configurations, each with bounds on what the environment does

(* The kinds of backends: one streams the chain, the others are read in pages.    *)
Kinds == {"chain-sync", "pagination"}

(* crawler.source, the kinds configured, crawler.epochSnapshots, crawler.utxoSet  *)
(* of each process, and the blocks whose data the database rejects.               *)
Config == [source: {"auto", "ogmios", "pagination"}, backends: (SUBSET Kinds) \ {{}},
           snapshots: BOOLEAN, utxo: [Instances -> BOOLEAN], bad: SUBSET BlocksUpTo(MaxHeight)]
Budget == [{"forks", "crashes", "faults", "expiries", "pauses", "outages", "late", "imports",
            "inits"} -> Nat]

ASSUME CrawlerAssumption ==
  /\ MaxHeight \in Nat /\ NoBlock \notin BlocksUpTo(MaxHeight)
  /\ BatchSize \in Nat \ {0} /\ Depth \in Nat
  /\ PersistRetries \in Nat \ {0} /\ PoisonThreshold \in Nat \ {0} /\ EpochLength \in Nat \ {0}
  /\ NoOwner \notin Instances /\ DeadOwner \notin Instances
  /\ \A s \in Scenarios : s.config \in Config /\ s.left \in Budget

VARIABLES
  cur,        \* the row of CardanoSyncState
  stored,     \* crawled rows of Blocks, with their transactions
  ledger,     \* the Ledger* tables
  snaps,      \* epoch snapshots, each by the block it was read at
  inst,       \* the crawler object of each process
  standby,    \* standbyDeps set: the process keeps trying to start a crawler
  stopping,   \* a stopCrawler call waiting in the lifecycle queue
  poison,     \* CardanoCrawler.poison of each process
  usable,     \* kinds of backends whose init succeeded; none before the process is up
  chain,      \* the chain of the node and the providers
  config,     \* a configuration, fixed
  paused,     \* the operators' last word: pauseCrawler
  excuses,    \* history: the situations some properties make an exception for
  left        \* what the environment may still do

rowVars == <<stored, ledger, snaps>>
procVars == <<standby, stopping, poison, usable>>
envVars == <<chain, config, paused, excuses>>
vars == <<cur, rowVars, inst, procVars, envVars, left>>

Blocks == BlocksUpTo(MaxHeight)
EpochOf(b) == Slot(b) \div EpochLength
NoEpoch == -1
NoPoison == [blk |-> NoBlock, n |-> 0]

NoCrawler == [pc |-> "off", run |-> FALSE, seen |-> NewCursor, at |-> Start, todo |-> << >>,
              src |-> "stream", att |-> 1, prog |-> FALSE, until |-> 0, probe |-> FALSE,
              final |-> "stopped", latch |-> FALSE, anchor |-> NoBlock,
              late |-> NoBlock, snap |-> NoBlock, settled |-> NoEpoch]

Init ==
  /\ cur = NewCursor /\ stored = {} /\ ledger = NoLedger /\ snaps = {}
  /\ inst = [i \in Instances |-> NoCrawler]
  /\ standby = [i \in Instances |-> FALSE] /\ usable = [i \in Instances |-> {}]
  /\ stopping = [i \in Instances |-> "no"]
  /\ poison = [i \in Instances |-> NoPoison]
  /\ chain = Start /\ paused = FALSE /\ excuses = {}
  /\ \E s \in Scenarios : config = s.config /\ left = s.left

Spend(what) == left[what] > 0 /\ left' = [left EXCEPT ![what] = @ - 1]
At(i, pc) == inst[i].pc = pc /\ inst[i].run
Goto(i, pc) == inst' = [inst EXCEPT ![i].pc = pc]
Become(i, k, pc) == inst' = [inst EXCEPT ![i] = [k EXCEPT !.pc = pc]]

--------------------------------------------------------------------------------
(* Halting. beginHalt ends the run; the pipeline drains; then the lease is       *)
(* released. An error status is never hidden by a later stop.                    *)

Halted(k, status, latch) ==
  [k EXCEPT !.run = FALSE, !.latch = @ \/ latch,
            !.final = IF @ = "error" THEN @ ELSE status]
Halt(i, status, latch) == Become(i, Halted(inst[i], status, latch), "halt")

Drain(i) ==
  /\ ~inst[i].run /\ inst[i].pc \notin {"off", "lease", "halt"}
  /\ Goto(i, "halt") /\ UNCHANGED <<cur, rowVars, procVars, envVars, left>>

(* The crawler object is gone; its lease, if any, is left to expire. *)
OwnersOf(i) == {i, <<i, "import">>}
Abandoned(i) == IF cur.owner = i THEN [cur EXCEPT !.owner = DeadOwner] ELSE cur
Orphaned(i) == IF cur.owner \in OwnersOf(i) THEN [cur EXCEPT !.owner = DeadOwner] ELSE cur
Gone(i) == [NoCrawler EXCEPT !.snap = inst[i].snap]

Release(i) ==
  /\ inst[i].pc = "halt" /\ inst[i].late = NoBlock
  /\ inst' = [inst EXCEPT ![i] = Gone(i)]
  /\ \/ cur' = ReleaseLease(cur, i, inst[i].final, inst[i].latch) /\ UNCHANGED left
     \/ cur' = Abandoned(i) /\ Spend("faults")
  /\ UNCHANGED <<rowVars, procVars, envVars>>

(* recordCrawlerError, with the budget l left: -1 when the lease is lost, 0 when  *)
(* the write itself fails.                                                       *)
ErrorOutcomes(i, l) ==
  {[cur |-> IF Holds(cur, i) THEN RecordError(cur) ELSE cur,
    streak |-> IF Holds(cur, i) THEN Streak(cur) ELSE -1, left |-> l]}
  \union IF l.faults > 0
         THEN {[cur |-> cur, streak |-> 0, left |-> [l EXCEPT !.faults = @ - 1]]} ELSE {}

(* Variant: the halt also withdraws the intent. *)
HaltOnErrorLatches(i, k, l) ==
  \E o \in ErrorOutcomes(i, l) :
    cur' = o.cur /\ left' = o.left /\ Become(i, Halted(k, "error", TRUE), "halt")

(* What every failing stream ends in: record, then halt. *)
HaltOnError(i, k, l) ==
  \E o \in ErrorOutcomes(i, l) :
    /\ cur' = o.cur /\ left' = o.left
    /\ Become(i, Halted(k, IF o.streak < 0 THEN "stopped" ELSE "error", FALSE), "halt")

(* What every failing pagination round ends in: record, pause, try again. *)
RetryOnError(i, k, l) ==
  \E o \in ErrorOutcomes(i, l) :
    /\ cur' = o.cur /\ left' = o.left
    /\ IF o.streak < 0 THEN Become(i, Halted(k, "stopped", FALSE), "halt")
       ELSE IF o.streak >= MaxErrors THEN Become(i, Halted(k, "error", FALSE), "halt")
       ELSE Become(i, [k EXCEPT !.todo = << >>], "page")

--------------------------------------------------------------------------------
(* Life cycle of a process (index.ts) and of the crawler object.                 *)

(* A standby timer, or startCrawler: a new crawler object reads the cursor.      *)
StartAttempt(i) ==
  /\ standby[i] /\ inst[i].pc = "off" /\ stopping[i] = "no"
  /\ inst' = [inst EXCEPT ![i] = [Gone(i) EXCEPT !.pc = "lease",
                                              !.seen = IF config.utxo[i] THEN cur ELSE @]]
  /\ UNCHANGED <<cur, rowVars, procVars, envVars, left>>

(* The set is stale when the cursor read before the lease is past what was       *)
(* applied: blocks were crawled while the mode was off.                          *)
StaleSet(c) ==
  /\ c.set = "active"
  /\ Slot(c.at) > (IF c.applied = NoSlot THEN Slot(c.anchor) ELSE c.applied)

SetState(c) == <<c.set, c.anchor, StaleSet(c)>>

StartLease(i) ==
  /\ inst[i].pc = "lease"
  /\ IF CanAcquire(cur, i)
     THEN /\ cur' = TakeLease(cur, i)
          /\ inst' = [inst EXCEPT ![i].pc = "anchor", ![i].run = TRUE]
          /\ excuses' = IF config.utxo[i] /\ SetState(cur) # SetState(inst[i].seen)
                      THEN excuses \union {"start"} ELSE excuses
     ELSE cur' = cur /\ inst' = [inst EXCEPT ![i] = Gone(i)] /\ UNCHANGED excuses
  /\ UNCHANGED <<rowVars, procVars, chain, config, paused, left>>

(* Variant: an outdated set is kept. *)
InvalidatesNever(i, seen) == FALSE
Invalidates(i, seen) == config.utxo[i] /\ StaleSet(seen)

(* History: a set with rows missing is called invalid, as if it were complete.    *)
BrokenOff == cur.set = "importing" /\ DOMAIN ledger.rows # UnspentAt(cur.anchor)

StartAnchor(i) ==
  /\ inst[i].pc = "anchor"
  /\ LET seen == inst[i].seen
         stale == Invalidates(i, seen)
         keep == config.utxo[i] /\ seen.set = "active" /\ ~stale
     IN \/ /\ cur' = IF stale THEN [cur EXCEPT !.set = "invalid"] ELSE cur
           /\ excuses' = IF stale /\ BrokenOff THEN excuses \union {"partial"} ELSE excuses
           /\ inst' = [inst EXCEPT ![i].pc = "open", ![i].seen = NewCursor,
                                   ![i].anchor = IF keep THEN seen.anchor ELSE NoBlock]
           /\ UNCHANGED left
        \/ /\ stale /\ Spend("faults") /\ UNCHANGED excuses
           /\ cur' = Abandoned(i) /\ inst' = [inst EXCEPT ![i] = Gone(i)]
  /\ UNCHANGED <<rowVars, procVars, chain, config, paused>>

(* stopCrawler(pauseCluster): at once the standby ends; the rest waits in the    *)
(* lifecycle queue behind a start in progress.                                   *)
RequestStop(i) ==
  /\ stopping[i] = "no" /\ standby[i] /\ Spend("pauses")
  /\ \E how \in {"pause", "shutdown"} : stopping' = [stopping EXCEPT ![i] = how]
  /\ standby' = [standby EXCEPT ![i] = FALSE]
  /\ UNCHANGED <<cur, rowVars, inst, poison, usable, envVars>>

ApplyStop(i) ==
  /\ stopping[i] # "no" /\ inst[i].pc \notin {"lease", "anchor"}
  /\ cur' = IF stopping[i] = "pause" THEN SetDesiredRunning(cur, FALSE) ELSE cur
  /\ paused' = (paused \/ stopping[i] = "pause")
  /\ inst' = [inst EXCEPT ![i] = IF @.pc = "off" THEN @ ELSE Halted(@, "stopped", FALSE)]
  /\ stopping' = [stopping EXCEPT ![i] = "no"]
  /\ UNCHANGED <<rowVars, standby, poison, usable, chain, config, excuses, left>>

(* startCrawler with resumeCluster. *)
ResumeCrawler(i) ==
  /\ paused /\ usable[i] # {} /\ stopping[i] = "no" /\ inst[i].pc \notin {"lease", "anchor"}
  /\ cur' = SetDesiredRunning(cur, TRUE) /\ paused' = FALSE
  /\ standby' = [standby EXCEPT ![i] = TRUE]
  /\ UNCHANGED <<rowVars, inst, stopping, poison, usable, chain, config, excuses, left>>

(* startCrawler, in a process that stopped its crawler or one that comes up. Then *)
(* its client inits every backend; where all of them fail, no crawler starts.     *)
InitBackends(i) ==
  /\ usable[i] = {}
  /\ \/ usable' = [usable EXCEPT ![i] = config.backends] /\ UNCHANGED left
     \/ /\ \E up \in (SUBSET config.backends) \ {{}, config.backends} : usable' = [usable EXCEPT ![i] = up]
        /\ Spend("inits")

Boot(i) ==
  /\ ~standby[i] /\ stopping[i] = "no"
  /\ InitBackends(i) \/ (usable[i] # {} /\ UNCHANGED <<usable, left>>)
  /\ standby' = [standby EXCEPT ![i] = TRUE]
  /\ UNCHANGED <<cur, rowVars, inst, stopping, poison, envVars>>

(* A request, or the probe, inits the backend that failed once more. *)
EnsureBackendInitialized(i) ==
  /\ usable[i] \notin {{}, config.backends}
  /\ usable' = [usable EXCEPT ![i] = config.backends]
  /\ UNCHANGED <<cur, rowVars, inst, standby, stopping, poison, envVars, left>>

Crash(i) ==
  /\ standby[i] /\ Spend("crashes")
  /\ cur' = Orphaned(i)
  /\ inst' = [inst EXCEPT ![i] = NoCrawler]
  /\ standby' = [standby EXCEPT ![i] = FALSE]
  /\ stopping' = [stopping EXCEPT ![i] = "no"]
  /\ poison' = [poison EXCEPT ![i] = NoPoison]
  /\ usable' = [usable EXCEPT ![i] = {}]
  /\ UNCHANGED <<rowVars, envVars>>

(* The heartbeat renews while no block commits; a lost lease or a pause halts.   *)
Heartbeat(i) ==
  /\ inst[i].run /\ inst[i].pc # "anchor"
  /\ \/ /\ Holds(cur, i) /\ ~cur.live
        /\ cur' = Renew(cur) /\ UNCHANGED <<inst, left>>
     \/ /\ ~Holds(cur, i)
        /\ inst' = [inst EXCEPT ![i] = Halted(@, "stopped", FALSE)] /\ UNCHANGED <<cur, left>>
     \/ /\ Spend("faults")
        /\ cur' = IF Holds(cur, i) THEN RecordError(cur) ELSE cur
        /\ inst' = [inst EXCEPT ![i] =
                      Halted(@, IF Holds(cur, i) THEN "error" ELSE "stopped", FALSE)]
  /\ UNCHANGED <<rowVars, procVars, envVars>>

--------------------------------------------------------------------------------
(* The ingest pipeline: chain-sync when usable, else pagination.                 *)

CanSync(i) == config.source # "pagination" /\ "chain-sync" \in usable[i]
CanPage(i) == config.source # "ogmios" /\ "pagination" \in usable[i]

(* The source asked for is not among the backends configured. *)
NothingToFollow ==
  \/ config.source = "ogmios" /\ "chain-sync" \notin config.backends
  \/ config.source = "pagination" /\ "pagination" \notin config.backends

(* History: a halt that latches for a backend that is there, and only not up yet.  *)
OpenSource(i) ==
  /\ At(i, "open")
  /\ \/ CanSync(i) /\ Goto(i, "connect") /\ UNCHANGED excuses
     \/ /\ ~CanSync(i) /\ CanPage(i) /\ UNCHANGED excuses
        /\ inst' = [inst EXCEPT ![i].pc = "page", ![i].probe = config.source = "auto"]
     \/ /\ ~CanSync(i) /\ ~CanPage(i) /\ Halt(i, "error", TRUE)
        /\ excuses' = IF NothingToFollow THEN excuses ELSE excuses \union {"uninit"}
  /\ UNCHANGED <<cur, rowVars, procVars, chain, config, paused, left>>

(* The node intersects at the newest of cursor, crawled ancestors and start      *)
(* block that is on its chain, and opens with a roll-backward to it.             *)
Intersection ==
  LET points == {Start, cur.at} \union {b \in stored : Slot(b) < Slot(cur.at)}
  IN CHOOSE b \in points : /\ IsAncestor(b, chain)
                           /\ \A p \in points : IsAncestor(p, chain) => Slot(p) <= Slot(b)

RunChainSync(i) ==
  /\ At(i, "connect")
  /\ \/ /\ inst' = [inst EXCEPT ![i].pc = "rewind", ![i].at = Intersection, ![i].until = 0,
                                ![i].probe = FALSE, ![i].prog = FALSE, ![i].src = "stream"]
        /\ UNCHANGED <<cur, left>>
     \/ left.outages > 0 /\ HaltOnError(i, inst[i], [left EXCEPT !.outages = @ - 1])
  /\ UNCHANGED <<rowVars, procVars, envVars>>

RollForward(i) ==
  LET k == inst[i] IN
  /\ At(i, "stream") /\ IsAncestor(k.at, chain) /\ Slot(k.at) < Slot(chain)
  /\ LET b == Ancestor(chain, Slot(k.at) + 1)
     IN inst' = [inst EXCEPT ![i] = [k EXCEPT !.pc = "persist", !.at = b, !.todo = <<b>>, !.att = 1]]
  /\ UNCHANGED <<cur, rowVars, procVars, envVars, left>>

CommonAncestor(a, b) ==
  LET shared == {n \in 0..Slot(a) : n <= Slot(b) /\ Ancestor(a, n) = Ancestor(b, n)}
  IN Ancestor(a, CHOOSE n \in shared : \A m \in shared : m <= n)

RollBackward(i) ==
  /\ At(i, "stream") /\ ~IsAncestor(inst[i].at, chain)
  /\ inst' = [inst EXCEPT ![i].pc = "rewind", ![i].at = CommonAncestor(@, chain)]
  /\ UNCHANGED <<cur, rowVars, procVars, envVars, left>>

(* A roll-backward to the cursor is the handshake of a new stream. *)
Rewind(i) ==
  /\ At(i, "rewind")
  /\ Goto(i, IF cur.at = inst[i].at THEN "stream" ELSE "reorg")
  /\ UNCHANGED <<cur, rowVars, procVars, envVars, left>>

(* degradeToPagination: the block at the given height comes over pagination.     *)
Degraded(i, height, k, l) ==
  \E o \in ErrorOutcomes(i, l) :
    /\ cur' = o.cur /\ left' = o.left
    /\ IF o.streak < 0 THEN Become(i, Halted(k, "stopped", FALSE), "halt")
       ELSE Become(i, [k EXCEPT !.until = height + 1, !.probe = FALSE], "page")

(* The socket closes, possibly while a block's callback is still running. After  *)
(* progress the stream is reopened at the cursor, else the next block is         *)
(* fetched over pagination.                                                      *)
StreamClosed(i) ==
  LET k == inst[i]
      busy == k.pc = "persist"
      rest == [k EXCEPT !.todo = << >>, !.late = IF busy THEN Head(k.todo) ELSE @]
      leftNow == [left EXCEPT !.outages = @ - 1, !.late = IF busy THEN @ - 1 ELSE @]
  IN
  /\ k.run /\ left.outages > 0
  /\ \/ k.pc = "stream"
     \/ busy /\ k.src = "stream" /\ k.late = NoBlock /\ left.late > 0
  /\ \/ /\ k.prog /\ left' = leftNow /\ UNCHANGED cur
        /\ Become(i, rest, "connect")
     \/ ~k.prog /\ CanPage(i) /\ Degraded(i, Slot(cur.at) + 1, rest, leftNow)
     \/ ~k.prog /\ ~CanPage(i) /\ HaltOnError(i, rest, leftNow)
  /\ excuses' = IF busy THEN excuses \union {"late"} ELSE excuses
  /\ UNCHANGED <<rowVars, procVars, chain, config, paused>>

(* A frame the client library cannot parse. *)
FrameError(i) ==
  /\ At(i, "stream") /\ Slot(inst[i].at) < Slot(chain) /\ left.outages > 0
  /\ LET leftNow == [left EXCEPT !.outages = @ - 1]
     IN \/ CanPage(i) /\ Degraded(i, Slot(inst[i].at) + 1, inst[i], leftNow)
        \/ ~CanPage(i) /\ HaltOnError(i, inst[i], leftNow)
  /\ UNCHANGED <<rowVars, procVars, envVars>>

(* One pagination round: the cursor, then tip and next blocks of the provider.   *)
Target == Slot(chain) - Depth

Paginate(i) ==
  LET k == inst[i] IN
  /\ At(i, "page")
  /\ \/ k.until > 0 /\ Slot(cur.at) >= k.until /\ Goto(i, "connect") /\ UNCHANGED <<cur, left>>
     \/ /\ k.until = 0 \/ Slot(cur.at) < k.until
        /\ \/ /\ Slot(cur.at) >= Target /\ cur.status # "synced"
              /\ IF Holds(cur, i)
                 THEN cur' = SetSyncStatus(Renew(cur), "synced") /\ UNCHANGED inst
                 ELSE cur' = cur /\ Halt(i, "stopped", FALSE)
              /\ UNCHANGED left
           \/ /\ Slot(cur.at) < Target /\ IsAncestor(cur.at, chain)
              /\ LET n == IF Target < Slot(cur.at) + BatchSize THEN Target - Slot(cur.at) ELSE BatchSize
                 IN inst' = [inst EXCEPT ![i] = [k EXCEPT
                      !.pc = "persist", !.src = "page", !.att = 1,
                      !.todo = [j \in 1..n |-> Ancestor(chain, Slot(cur.at) + j)]]]
              /\ UNCHANGED <<cur, left>>
           \/ /\ Slot(cur.at) < Target /\ ~IsAncestor(cur.at, chain)
              /\ Goto(i, "recover") /\ UNCHANGED <<cur, left>>
           \/ left.outages > 0 /\ RetryOnError(i, k, [left EXCEPT !.outages = @ - 1])
  /\ UNCHANGED <<rowVars, procVars, envVars>>

(* The probe finds chain-sync usable again; a batch in progress is broken off.    *)
Handover(i) ==
  LET k == inst[i] IN
  /\ k.run /\ k.probe /\ "chain-sync" \in usable[i]
  /\ k.pc = "page" \/ (k.pc = "persist" /\ k.src = "page" /\ k.att = 1)
  /\ inst' = [inst EXCEPT ![i] = [k EXCEPT !.pc = "connect", !.todo = << >>]]
  /\ UNCHANGED <<cur, rowVars, procVars, envVars, left>>

(* tryReorgRecovery: the highest stored block that is still on the chain, not    *)
(* deeper than ReorgDepth. A height the provider lacks ends the attempt.         *)
Matching == {b \in stored : /\ IsAncestor(b, chain) /\ Slot(b) <= Slot(cur.at)
                            /\ Slot(b) > Slot(cur.at) - ReorgDepth}
TryReorgRecovery(i) ==
  /\ At(i, "recover")
  /\ IF Slot(chain) >= Slot(cur.at) /\ Matching # {} /\ ~IsAncestor(cur.at, chain)
     THEN /\ inst' = [inst EXCEPT ![i].pc = "reorg", ![i].src = "page",
                      ![i].at = CHOOSE b \in Matching : \A m \in Matching : Slot(m) <= Slot(b)]
          /\ UNCHANGED <<cur, left>>
     ELSE RetryOnError(i, inst[i], left)
  /\ UNCHANGED <<rowVars, procVars, envVars>>

--------------------------------------------------------------------------------
(* One block, one transaction (persistBlock, indexBlockFull).                    *)

(* verifyUtxoAnchor: the set was taken on the chain the crawler follows.         *)
VerifyUtxoAnchor(k) == cur.applied # NoSlot \/ cur.at = k.anchor

(* indexBlockFull: the rows of the block and its transactions, and the block     *)
(* applied to the UTxO set when one is maintained.                               *)
IndexBlockFull(b, applies) ==
  /\ stored' = stored \union {b}
  /\ ledger' = IF applies THEN ApplyBlockToLedger(ledger, TxsIn(b)) ELSE ledger

Commit(i, b, k) ==
  LET due == k.anchor # NoBlock /\ Slot(b) > Slot(k.anchor)
      proven == VerifyUtxoAnchor(k)
      wanted == config.snapshots /\ k.snap = NoBlock
  IN
  /\ Holds(cur, i)
  /\ IndexBlockFull(b, due /\ proven)
  /\ cur' = [AdvanceCursor(cur, b, IF Slot(b) >= Slot(chain) THEN "synced" ELSE "syncing",
                           IF due /\ proven THEN Slot(b) ELSE cur.applied)
             EXCEPT !.set = IF due /\ ~proven THEN "invalid" ELSE @]
  /\ poison' = [poison EXCEPT ![i] = IF @.blk = b THEN NoPoison ELSE @]
  /\ \E s \in IF wanted THEN {NoBlock, b} ELSE {k.snap} :
       /\ s = b => k.settled # EpochOf(b)
       /\ inst' = [inst EXCEPT ![i] =
                     [k EXCEPT !.snap = s, !.anchor = IF due /\ ~proven THEN NoBlock ELSE @]]
  /\ UNCHANGED <<snaps, standby, stopping, usable, envVars, left>>

(* Variant: each run starts counting again. *)
PoisonCountPerRun(i, b) == 1
PoisonCount(i, b) == IF poison[i].blk = b THEN poison[i].n + 1 ELSE 1

(* The last attempt failed: a block whose data is rejected is counted, and       *)
(* latches the cluster off at the threshold.                                     *)
GiveUp(i, b, o, k) ==
  LET rejected == b \in config.bad
      n == PoisonCount(i, b)
      poisonous == rejected /\ n >= PoisonThreshold
  IN \E written \in {TRUE} \union (IF poisonous /\ o.left.faults > 0 THEN {FALSE} ELSE {}) :
       /\ cur' = IF poisonous /\ written THEN LatchPoisonBlock(o.cur) ELSE o.cur
       /\ poison' = [poison EXCEPT ![i] = IF poisonous /\ written THEN NoPoison
                                          ELSE IF rejected THEN [blk |-> b, n |-> n] ELSE @]
       /\ left' = [o.left EXCEPT !.faults = IF written THEN @ ELSE @ - 1]
       /\ inst' = [inst EXCEPT ![i] = Halted(k, "error", poisonous)]

AfterBlock(k) == IF Len(k.todo) > 1 THEN "persist" ELSE k.src

Persist(i) ==
  LET k == inst[i]
      b == Head(k.todo)
      rest == [k EXCEPT !.todo = Tail(@), !.att = 1, !.prog = @ \/ k.src = "stream",
                        !.pc = AfterBlock(k)]
  IN
  /\ k.pc = "persist" /\ b \notin config.bad
  /\ Commit(i, b, rest)

PersistFails(i) ==
  LET k == inst[i]
      b == Head(k.todo)
      l == IF b \in config.bad THEN left ELSE [left EXCEPT !.faults = @ - 1]
  IN
  /\ At(i, "persist")
  /\ b \in config.bad \/ left.faults > 0
  /\ \E o \in ErrorOutcomes(i, l) :
       IF o.streak < 0
       THEN Halt(i, "stopped", FALSE) /\ cur' = o.cur /\ left' = o.left /\ UNCHANGED poison
       ELSE IF k.att < PersistRetries /\ o.streak < MaxErrors
       THEN /\ inst' = [inst EXCEPT ![i].att = @ + 1]
            /\ cur' = o.cur /\ left' = o.left /\ UNCHANGED poison
       ELSE GiveUp(i, b, o, [k EXCEPT !.pc = "halt"])
  /\ UNCHANGED <<rowVars, standby, stopping, usable, envVars>>

(* The transactions of a fetched block do not come, or not all of them.          *)
FetchFails(i) ==
  LET k == inst[i]
      l == [left EXCEPT !.outages = @ - 1]
  IN
  /\ At(i, "persist") /\ k.att = 1 /\ left.outages > 0
  /\ IF k.src = "stream" THEN HaltOnError(i, k, l) ELSE RetryOnError(i, k, l)
  /\ UNCHANGED <<rowVars, procVars, envVars>>

(* The fence: the transaction rolls back when the lease is no longer held.       *)
Fenced(i) ==
  /\ inst[i].pc \in {"persist", "reorg"} /\ ~Holds(cur, i)
  /\ Halt(i, "stopped", FALSE)
  /\ UNCHANGED <<cur, rowVars, procVars, envVars, left>>

(* The callback of a stream that is closed already, still running or retrying.   *)
LatePersist(i) ==
  LET k == inst[i]
      done == [k EXCEPT !.late = NoBlock]
  IN
  /\ k.late # NoBlock
  /\ \/ k.late \notin config.bad /\ Commit(i, k.late, done)
     \/ /\ ~Holds(cur, i) \/ ~k.run
        /\ inst' = [inst EXCEPT ![i] = Halted(done, "stopped", FALSE)]
        /\ UNCHANGED <<cur, rowVars, procVars, envVars, left>>
     \/ /\ k.late \in config.bad /\ Holds(cur, i) /\ k.run
        /\ \E o \in ErrorOutcomes(i, left) : GiveUp(i, k.late, o, done)
        /\ UNCHANGED <<rowVars, standby, stopping, usable, envVars>>

(* handleReorg: blocks after the fork, their transactions, snapshots and ledger  *)
(* entries go, the cursor goes back, in one transaction under the lease.         *)
(* History: after a rebuild blocks beyond the cursor stay stored, and a set may   *)
(* be taken on another fork. A rollback then leads to a block that is no ancestor *)
(* of the cursor, or undoes transactions that what it keeps has, too.             *)
Strays(p, txs) ==
  ~IsAncestor(p, cur.at) \/ \E t \in ChainTxs(p) \union ChainTxs(cur.anchor) : t.id \in txs

HandleReorg(i) ==
  LET k == inst[i]
      p == k.at
      gone == {b \in stored : Slot(b) > Slot(p)}
      txs == UNION {{t.id : t \in TxsIn(b)} : b \in gone}
      behind == cur.set = "active" /\ Slot(p) < Slot(cur.anchor)
      undo == cur.set = "active" /\ ~behind
  IN
  /\ k.pc = "reorg" /\ Holds(cur, i)
  /\ \/ /\ stored' = stored \ gone
        /\ snaps' = IF gone = {} THEN snaps ELSE {b \in snaps : Slot(b) <= Slot(p)}
        /\ ledger' = IF undo THEN UndoLedgerForTransactions(ledger, txs) ELSE ledger
        /\ cur' = [ResetCursorTo(Renew(cur), p) EXCEPT
                     !.set = IF behind THEN "invalid" ELSE @,
                     !.applied = IF undo /\ @ > Slot(p) THEN Slot(p) ELSE @]
        /\ inst' = [inst EXCEPT ![i] = [k EXCEPT !.pc = k.src, !.settled = NoEpoch,
                                                 !.anchor = IF behind THEN NoBlock ELSE @]]
        /\ excuses' = IF undo /\ Strays(p, txs) THEN excuses \union {"stray"} ELSE excuses
        /\ UNCHANGED left
     \/ /\ k.run /\ left.faults > 0 /\ UNCHANGED <<rowVars, excuses>>
        /\ LET leftNow == [left EXCEPT !.faults = @ - 1]
           IN IF k.src = "stream" THEN HaltOnError(i, k, leftNow) ELSE RetryOnError(i, k, leftNow)
  /\ UNCHANGED <<procVars, chain, config, paused>>

(* The epoch snapshot runs beside the pipeline and beyond a halt. *)
WithSnapshotAt(b) == IF \E s \in snaps : EpochOf(s) = EpochOf(b) THEN snaps ELSE snaps \union {b}

SnapshotEpoch(i) ==
  LET b == inst[i].snap
  IN
  /\ b # NoBlock
  /\ \/ /\ snaps' = WithSnapshotAt(b)
        /\ inst' = [inst EXCEPT ![i].snap = NoBlock, ![i].settled = IF inst[i].run THEN EpochOf(b) ELSE @]
     \/ inst' = [inst EXCEPT ![i].snap = NoBlock] /\ UNCHANGED snaps
  /\ UNCHANGED <<cur, stored, ledger, procVars, envVars, left>>

--------------------------------------------------------------------------------
(* The environment: the chain, the clock.                                        *)

Mint ==
  /\ Slot(chain) < MaxHeight
  /\ chain' = Append(chain, 0)
  /\ UNCHANGED <<cur, rowVars, inst, procVars, config, paused, excuses, left>>

(* A longer fork. The first block after the start block is never rolled back.    *)
Fork ==
  /\ Slot(chain) < MaxHeight /\ Spend("forks")
  /\ \E n \in 1..(Slot(chain) - 1) :
       chain' = [j \in 1..(Slot(chain) + 1) |->
                   IF j <= n THEN chain[j] ELSE IF j = n + 1 THEN 1 - chain[j] ELSE 0]
  /\ UNCHANGED <<cur, rowVars, inst, procVars, config, paused, excuses>>

(* The lease's time is over: a stalled leader, or one that is gone. *)
LeaseExpires ==
  /\ cur.live
  /\ IF cur.owner = DeadOwner THEN UNCHANGED left ELSE Spend("expiries")
  /\ cur' = [cur EXCEPT !.live = FALSE]
  /\ UNCHANGED <<rowVars, inst, procVars, envVars>>

Pipeline(i) ==
  \/ OpenSource(i) \/ RunChainSync(i) \/ RollForward(i) \/ RollBackward(i) \/ Rewind(i)
  \/ Paginate(i) \/ Handover(i) \/ TryReorgRecovery(i) \/ Persist(i) \/ PersistFails(i)
  \/ Fenced(i) \/ LatePersist(i) \/ HandleReorg(i)
LifeCycle(i) ==
  \/ StartAttempt(i) \/ StartLease(i) \/ StartAnchor(i) \/ ApplyStop(i)
  \/ Drain(i) \/ Release(i) \/ Heartbeat(i)
Troubles(i) == StreamClosed(i) \/ FrameError(i) \/ FetchFails(i)
Operator(i) == RequestStop(i) \/ ResumeCrawler(i) \/ Boot(i) \/ EnsureBackendInitialized(i)

CrawlerStep ==
  \/ \E i \in Instances : Pipeline(i) \/ LifeCycle(i) \/ Troubles(i) \/ Operator(i) \/ SnapshotEpoch(i)
  \/ Mint \/ Fork \/ LeaseExpires

--------------------------------------------------------------------------------
(* The crawled blocks are exactly the ancestors of the cursor: whatever          *)
(* instance wrote last, with takeovers, reorgs, retries and provider switches    *)
(* in between, no block is missing, kept from a dead fork, or ahead of the       *)
(* cursor. Left out: a stream closed under a running callback ("late"), and a    *)
(* rebuild of the UTxO set that sets the cursor back ("rewind").                 *)
StoredIsOneChain ==
  \/ excuses \intersect {"late", "rewind"} # {}
  \/ stored = {Ancestor(cur.at, n) : n \in 1..Slot(cur.at)}

(* Trouble that is not the block's fault never turns the cluster off: the        *)
(* running intent is withdrawn only by an operator, for a block the database     *)
(* rejects, or because the source asked for is not configured. Left out: a       *)
(* source that has no fallback and whose backend failed its init ("uninit").     *)
OutageNeverLatches ==
  \/ cur.desired \/ paused \/ config.bad # {} \/ NothingToFollow
  \/ config.source # "auto" /\ "uninit" \in excuses

(* Unless it was turned off, the cluster ends up with the cursor on the chain,   *)
(* no further behind its tip than the confirmation depth, whoever crashed or     *)
(* lost the lease on the way.                                                    *)
CaughtUp == IsAncestor(cur.at, chain) /\ Slot(cur.at) >= Slot(chain) - Depth
CatchesUp == <>[](cur.desired => CaughtUp \/ "late" \in excuses)

(* A block the database rejects does not make the cluster retry it for ever.     *)
OnTheWay(b) == IsAncestor(b, chain) /\ Slot(b) <= Slot(chain) - Depth
BadBlockLatches == <>[](\A b \in config.bad : OnTheWay(b) => ~cur.desired \/ "late" \in excuses)
================================================================================
