----------------------------- MODULE UtxoSetImport -----------------------------
(* The import of a UTxO set (crawler/utxo-set-import.ts) beside the crawler: it   *)
(* replaces the Ledger* tables by a snapshot at an anchor block, under the        *)
(* crawler's own lease. The composition with the crawler is the system whose      *)
(* UTxO set must stay right: imports, rebuilds, crawled blocks, rollbacks and     *)
(* configurations without the set follow each other in any order.                 *)
EXTENDS Crawler

CONSTANT ImportBatch      \* rows per write transaction

(* The import takes the lease under a name of its own. *)
Importer(i) == <<i, "import">>

(* What the node says of the chain: a transaction is new to the chain it extends,  *)
(* spends what is unspent there or made by its own block, and no output twice.    *)
LawfulBlock(b) ==
  LET before == Ancestor(b, Slot(b) - 1)
  IN /\ IsFiniteSet(TxsIn(b))
     /\ \A t \in TxsIn(b) :
          /\ t.id # NoTx /\ \A o \in DOMAIN Genesis : o[1] # t.id
          /\ IsFiniteSet(DOMAIN Produced(t)) /\ \A n \in DOMAIN Produced(t) : Produced(t)[n].val \in Int
          /\ Consumed(t) \subseteq UnspentAt(before) \union Made(TxsIn(b))
          /\ \A u \in ChainTxs(before) : u.id # t.id
          /\ \A u \in TxsIn(b) : u # t => u.id # t.id /\ Consumed(u) \intersect Consumed(t) = {}

ASSUME LedgerAssumption ==
  /\ IsFiniteSet(DOMAIN Genesis) /\ \A o \in DOMAIN Genesis : Genesis[o].val \in Int
  /\ \A b \in Blocks \ {Start} : LawfulBlock(b)

ASSUME ImportAssumption ==
  /\ ImportBatch \in Nat \ {0}
  /\ \A i \in Instances : Importer(i) \notin Instances \union {NoOwner, DeadOwner}

VARIABLE imp              \* the importUtxoSet call of each process

NoImport == [pc |-> "off", kind |-> "none", anchor |-> NoBlock, todo |-> {}, rewind |-> FALSE,
             lost |-> FALSE]
allVars == <<vars, imp>>

ImportInit == Init /\ imp = [i \in Instances |-> NoImport]

(* refreshUtxoSetReferenceScripts: it holds the lease and writes columns that no  *)
(* modelled row has; the set keeps its status and the cursor its place.           *)
RefreshScripts(i) ==
  /\ cur.set # "none"
  /\ imp' = [imp EXCEPT ![i] = [NoImport EXCEPT !.pc = "lease", !.kind = "scripts"]]

(* importUtxoSet, rebuildUtxoSetAggregates, refreshUtxoSetReferenceScripts: what  *)
(* they check before they ask for the lease. A dump or the node gives the set at  *)
(* a block of its chain.                                                          *)
RequestImport(i) ==
  /\ standby[i] /\ imp[i].pc = "off" /\ ~inst[i].run
  /\ ~IsCrawlerLeaseActive(cur) /\ Spend("imports")
  /\ \/ \E n \in 1..Slot(chain) :
          /\ Slot(cur.at) <= n
          /\ imp' = [imp EXCEPT ![i] = [NoImport EXCEPT !.pc = "lease", !.kind = "import",
                                                        !.anchor = Ancestor(chain, n)]]
     \/ /\ cur.set \notin {"none", "importing"} /\ cur.applied = NoSlot
        /\ DOMAIN ledger.rows # {}
        /\ Slot(cur.at) > Slot(cur.anchor) => cur.anchor \in stored
        /\ imp' = [imp EXCEPT ![i] = [NoImport EXCEPT !.pc = "lease", !.kind = "rebuild",
                                      !.anchor = cur.anchor, !.rewind = Slot(cur.at) > Slot(cur.anchor)]]
     \/ RefreshScripts(i)
  /\ UNCHANGED <<cur, rowVars, inst, procVars, envVars>>

(* withImportLease. The indexer of the process stops applying blocks to the set.  *)
ImportLease(i) ==
  /\ imp[i].pc = "lease"
  /\ IF CanAcquireImport(cur, Importer(i))
     THEN /\ cur' = TakeLease(cur, Importer(i))
          /\ imp' = [imp EXCEPT ![i].pc = "begin"]
          /\ inst' = [inst EXCEPT ![i].anchor = IF imp[i].kind = "scripts" THEN @ ELSE NoBlock]
     ELSE cur' = cur /\ imp' = [imp EXCEPT ![i] = NoImport] /\ UNCHANGED inst
  /\ UNCHANGED <<rowVars, procVars, envVars, left>>

Writes(i) == HoldsImport(cur, Importer(i)) /\ ~imp[i].lost
ImportGoto(i, pc) == imp' = [imp EXCEPT ![i].pc = pc]

(* The first write transaction: an import empties the tables. *)
ImportBegin(i) ==
  /\ imp[i].pc = "begin" /\ Writes(i)
  /\ IF imp[i].kind = "import"
     THEN /\ cur' = [Renew(cur) EXCEPT !.set = "importing", !.anchor = imp[i].anchor, !.applied = NoSlot]
          /\ ledger' = NoLedger
          /\ imp' = [imp EXCEPT ![i].pc = "flush", ![i].todo = UnspentAt(imp[i].anchor)]
          /\ excuses' = excuses \ {"partial"}
     ELSE /\ cur' = Renew(cur) /\ UNCHANGED <<ledger, excuses>>
          /\ ImportGoto(i, IF imp[i].kind = "rebuild" THEN "activate" ELSE "release")
  /\ UNCHANGED <<stored, snaps, inst, procVars, chain, config, paused, left>>

AfterBatch(todo, batch) == IF todo = batch THEN "activate" ELSE "flush"

ImportFlush(i) ==
  LET todo == imp[i].todo
      size == IF Cardinality(todo) < ImportBatch THEN Cardinality(todo) ELSE ImportBatch
      batch == CHOOSE S \in SUBSET todo : Cardinality(S) = size
      rows == SnapshotAt(imp[i].anchor)
  IN
  /\ imp[i].pc = "flush" /\ Writes(i)
  /\ cur' = Renew(cur)
  /\ ledger' = [ledger EXCEPT !.rows = [o \in DOMAIN @ \union batch |->
                                          IF o \in batch THEN rows[o] ELSE @[o]]]
  /\ imp' = [imp EXCEPT ![i].todo = @ \ batch, ![i].pc = AfterBatch(todo, batch)]
  /\ UNCHANGED <<stored, snaps, inst, procVars, envVars, left>>

(* The checks of a rebuild that no longer hold: another process imported, or      *)
(* applied blocks, between them and the lease. The code does not repeat them.     *)
Outdated(i) ==
  imp[i].kind = "rebuild" /\ (cur.anchor # imp[i].anchor \/ cur.applied # NoSlot \/ cur.set = "importing")

(* activateWithAggregates: sums and status in one transaction that proves the     *)
(* lease last, whatever the heartbeat said. A rebuild also sets the cursor back.  *)
ImportActivate(i) ==
  /\ imp[i].pc = "activate" /\ HoldsImport(cur, Importer(i))
  /\ ledger' = WithAggregates(ledger.rows)
  /\ LET c == [Renew(cur) EXCEPT !.set = "active", !.anchor = imp[i].anchor]
     IN cur' = IF imp[i].rewind THEN ResetCursorTo(c, imp[i].anchor) ELSE c
  /\ inst' = [inst EXCEPT ![i].anchor = imp[i].anchor]
  /\ excuses' = (excuses \ IF imp[i].kind = "import" THEN {"partial"} ELSE {})
                  \union (IF imp[i].rewind THEN {"rewind"} ELSE {})
                  \union (IF Outdated(i) THEN {"outdated"} ELSE {})
  /\ ImportGoto(i, "release")
  /\ UNCHANGED <<stored, snaps, procVars, chain, config, paused, left>>

(* A lost lease ends the call without a write; any other failure (the source, the *)
(* database) goes on to markInvalid.                                              *)
ImportFails(i) ==
  /\ imp[i].pc \in {"begin", "flush", "activate"}
  /\ \/ /\ IF imp[i].pc = "activate" THEN ~HoldsImport(cur, Importer(i)) ELSE ~Writes(i)
        /\ ImportGoto(i, "release") /\ UNCHANGED left
     \/ /\ Spend("faults")
        /\ ImportGoto(i, IF imp[i].pc = "begin" \/ imp[i].kind = "scripts" THEN "release" ELSE "invalid")
  /\ UNCHANGED <<cur, rowVars, inst, procVars, envVars>>

MarkInvalid(i) ==
  /\ imp[i].pc = "invalid"
  /\ \/ /\ HoldsImport(cur, Importer(i))
        /\ cur' = [Renew(cur) EXCEPT !.set = "invalid"]
        /\ excuses' = IF BrokenOff THEN excuses \union {"partial"} ELSE excuses
        /\ UNCHANGED left
     \/ ~HoldsImport(cur, Importer(i)) /\ UNCHANGED <<cur, excuses, left>>
     \/ Spend("faults") /\ UNCHANGED <<cur, excuses>>
  /\ ImportGoto(i, "release")
  /\ UNCHANGED <<rowVars, inst, procVars, chain, config, paused>>

ImportRelease(i) ==
  /\ imp[i].pc = "release"
  /\ \/ cur' = ReleaseImport(cur, Importer(i)) /\ UNCHANGED left
     \/ /\ cur' = IF HoldsImport(cur, Importer(i)) THEN [cur EXCEPT !.owner = DeadOwner] ELSE cur
        /\ Spend("faults")
  /\ imp' = [imp EXCEPT ![i] = NoImport]
  /\ UNCHANGED <<rowVars, inst, procVars, envVars>>

ImportHeartbeat(i) ==
  /\ imp[i].pc \in {"begin", "flush", "activate", "invalid"}
  /\ \/ /\ HoldsImport(cur, Importer(i)) /\ ~cur.live
        /\ cur' = Renew(cur) /\ UNCHANGED <<imp, left>>
     \/ /\ ~imp[i].lost /\ Spend("faults")
        /\ imp' = [imp EXCEPT ![i].lost = TRUE] /\ UNCHANGED cur
  /\ UNCHANGED <<rowVars, inst, procVars, envVars>>

ImportStep(i) ==
  \/ RequestImport(i) \/ ImportLease(i) \/ ImportBegin(i) \/ ImportFlush(i) \/ ImportActivate(i)
  \/ ImportFails(i) \/ MarkInvalid(i) \/ ImportRelease(i) \/ ImportHeartbeat(i)

Next ==
  \/ CrawlerStep /\ UNCHANGED imp
  \/ \E i \in Instances : ImportStep(i)
  \/ \E i \in Instances : Crash(i) /\ imp' = [imp EXCEPT ![i] = NoImport]

(* A pipeline, a lifecycle queue and the timers of a live process keep running,   *)
(* an import call runs to its end, a process is started again, and the lease of   *)
(* one that is gone runs out.                                                     *)
Fairness ==
  /\ \A i \in Instances :
       /\ WF_allVars(Pipeline(i) /\ UNCHANGED imp) /\ WF_allVars(LifeCycle(i) /\ UNCHANGED imp)
       /\ WF_allVars(Boot(i) /\ UNCHANGED imp)
       /\ WF_allVars(imp[i].pc # "off" /\ ImportStep(i))
  /\ WF_allVars(LeaseExpires /\ cur.owner = DeadOwner /\ UNCHANGED imp)

Spec == ImportInit /\ [][Next]_allVars
FairSpec == Spec /\ Fairness

--------------------------------------------------------------------------------
(* Where the set stands: at its anchor, then at the cursor. *)
SetBlock == IF Slot(cur.at) > Slot(cur.anchor) THEN cur.at ELSE cur.anchor

(* An active set that start() would trust holds exactly the unspent outputs of    *)
(* the chain at the block it stands at, and its running sums equal the sums over  *)
(* its rows, after any sequence of imports, rebuilds, applied and undone blocks.  *)
(* Left out: a late callback; a set that changed between start()'s read of the    *)
(* cursor and its lease ("start") or a rebuild's checks and its lease             *)
(* ("outdated"); the rows of an import that broke off ("partial"); a rollback     *)
(* among blocks that a rebuild left beyond the cursor ("stray").                  *)
TrustedSetIsRight ==
  \/ excuses \ {"rewind", "uninit"} # {}
  \/ cur.set = "active" /\ ~StaleSet(cur) => Describes(ledger, SetBlock) /\ SumsMatchRows(ledger)

(* While a crawler configured to maintain the set leads, an active set keeps up   *)
(* with the cursor, with the same exceptions.                                     *)
Maintains(i) == cur.owner = i /\ inst[i].run /\ inst[i].pc # "anchor" /\ config.utxo[i]
LeaderKeepsSetCurrent ==
  \/ excuses \ {"rewind", "stray", "uninit"} # {}
  \/ (\E i \in Instances : Maintains(i)) /\ cur.set = "active" => ~StaleSet(cur)

================================================================================
