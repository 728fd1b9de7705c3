---------------------------- MODULE PendingSpends ----------------------------
(* pending-spends.ts: the transactions this process submitted that still wait *)
(* in the mempool.  txs is a set of transactions [id, ins, outs]; prune, the  *)
(* removal of an entry after PENDING_TX_TTL_MS, is an action of TxBuilding.   *)
EXTENDS FiniteSets

Spent(txs) == UNION {t.ins : t \in txs}
Outputs(txs) == UNION {t.outs : t \in txs}

SpentBy(txs, ref) == ref \in Spent(txs)

Record(txs, t) == txs \cup {t}

\* What apply keeps: a transaction with an output in the list has been
\* crawled and is forgotten.
Remaining(txs, list) == {t \in txs : \A u \in list : u.ref[1] # t.id}

\* Mutation: a listed output is offered although a pending transaction spends it.
OfferedUnfiltered(txs, at, list) ==
  list \cup {o \in Outputs(txs) : o.at = at /\ ~SpentBy(txs, o.ref)}

\* What apply answers: the listed outputs no pending transaction spends, and
\* the pending outputs of the address nobody spends yet.
Offered(txs, at, list) ==
  {u \in list \cup {o \in Outputs(txs) : o.at = at} : ~SpentBy(txs, u.ref)}
=============================================================================
