------------------------------ MODULE LedgerState ------------------------------
(* The Ledger* tables (ledger-state.ts): one row per output with its spender,    *)
(* and running sums per address and per stake key. applyBlockToLedger changes    *)
(* the sums by deltas, undoLedgerForTransactions recounts them, the import       *)
(* derives them with SQL aggregates: three computations of one quantity.         *)
(*                                                                               *)
(* A transaction is a record: ins and coll are the outpoints <<tx, index>> of    *)
(* its regular and collateral inputs, outs and ret map an index to an output     *)
(* [addr, val], failed is a phase-2 failure (spendsCollaterals). val stands for  *)
(* lovelace and for every asset quantity: each is summed in the same way.        *)
EXTENDS Integers, Sequences, FiniteSetsExt

CONSTANTS NoTx, NoStake,
          Genesis,        \* outpoint -> output: the UTxO set at the start block
          TxsIn(_),       \* the transactions of a block
          StakeOf(_)      \* the stake key of an address

(* What the ledger really produced and consumed. *)
Produced(t) == IF t.failed THEN t.ret ELSE t.outs
Consumed(t) == IF t.failed THEN t.coll ELSE t.ins

OutpointsOf(t) == {<<t.id, n>> : n \in DOMAIN Produced(t)}
Made(txs) == UNION {OutpointsOf(t) : t \in txs}
Used(txs) == UNION {Consumed(t) : t \in txs}
Spender(txs, o) == (CHOOSE t \in txs : o \in Consumed(t)).id
OutputAt(txs, o) == Produced(CHOOSE t \in txs : t.id = o[1])[o[2]]

Total(rows, S) == MapThenSumSet(LAMBDA o : rows[o].val, S)
Amount(addrs, A) == MapThenSumSet(LAMBDA a : addrs[a].total, A)
Outputs(addrs, A) == MapThenSumSet(LAMBDA a : addrs[a].count, A)
RowsOf(rows, S, a) == {o \in S : rows[o].addr = a}
Open(rows) == {o \in DOMAIN rows : rows[o].spent = NoTx}
AddressesIn(rows, S) == {rows[o].addr : o \in S}
Stakes(A) == {StakeOf(a) : a \in A} \ {NoStake}

(* buildLedgerUtxoRows *)
LedgerRow(out, spent) == [addr |-> out.addr, val |-> out.val, spent |-> spent]

(* recountLedgerAccounts *)
AccountOf(addrs, s) ==
  LET mine == {a \in DOMAIN addrs : StakeOf(a) = s}
  IN [amount |-> Amount(addrs, mine), addresses |-> Cardinality(mine), utxos |-> Outputs(addrs, mine)]
AddressOf(rows, a) ==
  LET mine == RowsOf(rows, Open(rows), a)
  IN [total |-> Total(rows, mine), count |-> Cardinality(mine)]

NoLedger == [rows |-> << >>, addrs |-> << >>, accts |-> << >>]

(* Variant: outputs spent in their own block count. *)
GainedWithSpent(rows, made, used, a) == RowsOf(rows, made, a)
Gained(rows, made, used, a) == RowsOf(rows, made \ used, a)

(* applyBlockToLedger: outputs spent in the same block are created spent; an     *)
(* input without an open row is skipped; sums move by deltas.                    *)
ApplyBlockToLedger(l, txs) ==
  LET made == Made(txs)
      used == Used(txs)
      spent == {o \in (used \ made) \intersect DOMAIN l.rows : l.rows[o].spent = NoTx}
      rows == [o \in DOMAIN l.rows \union made |->
                 IF o \in made
                 THEN LedgerRow(OutputAt(txs, o), IF o \in used THEN Spender(txs, o) ELSE NoTx)
                 ELSE [l.rows[o] EXCEPT !.spent = IF o \in spent THEN Spender(txs, o) ELSE @]]
      touched == AddressesIn(rows, made \union spent)
      gained(a) == Gained(rows, made, used, a)
      lost(a) == RowsOf(rows, spent, a)
      delta == [a \in touched |-> [total |-> Total(rows, gained(a)) - Total(rows, lost(a)),
                                   count |-> Cardinality(gained(a)) - Cardinality(lost(a))]]
      prev(a) == IF a \in DOMAIN l.addrs THEN l.addrs[a] ELSE [total |-> 0, count |-> 0]
      prevAccount(s) == IF s \in DOMAIN l.accts THEN l.accts[s]
                        ELSE [amount |-> 0, addresses |-> 0, utxos |-> 0]
      mine(s) == {a \in touched : StakeOf(a) = s}
  IN [rows |-> rows,
      addrs |-> [a \in DOMAIN l.addrs \union touched |->
                   IF a \in touched
                   THEN [total |-> prev(a).total + delta[a].total,
                         count |-> prev(a).count + delta[a].count]
                   ELSE l.addrs[a]],
      accts |-> [s \in DOMAIN l.accts \union Stakes(touched) |->
                   LET p == prevAccount(s)
                   IN [amount |-> p.amount + Amount(delta, mine(s)),
                       addresses |-> p.addresses + Cardinality(mine(s) \ DOMAIN l.addrs),
                       utxos |-> p.utxos + Outputs(delta, mine(s))]]]

(* recountLedgerAddresses: an address without open rows keeps a row of zeros.    *)
RecountLedgerAddresses(l, A) ==
  LET addrs == [a \in DOMAIN l.addrs \union A |->
                  IF a \in A THEN AddressOf(l.rows, a) ELSE l.addrs[a]]
  IN [l EXCEPT !.addrs = addrs,
               !.accts = [s \in DOMAIN @ \union Stakes(A) |->
                            IF s \in Stakes(A) THEN AccountOf(addrs, s) ELSE @[s]]]

(* undoLedgerForTransactions: drop what the transactions created, reopen what    *)
(* they spent, recount every address touched.                                    *)
UndoLedgerForTransactions(l, ids) ==
  LET gone == {o \in DOMAIN l.rows : o[1] \in ids}
      reopened == {o \in DOMAIN l.rows : l.rows[o].spent \in ids}
      rows == [o \in DOMAIN l.rows \ gone |->
                 [l.rows[o] EXCEPT !.spent = IF o \in reopened THEN NoTx ELSE @]]
  IN RecountLedgerAddresses([l EXCEPT !.rows = rows],
                            AddressesIn(l.rows, gone \union reopened))

(* aggregateStatements: the sums of an imported set. *)
WithAggregates(rows) ==
  LET addrs == [a \in AddressesIn(rows, Open(rows)) |-> AddressOf(rows, a)]
  IN [rows |-> rows, addrs |-> addrs,
      accts |-> [s \in Stakes(DOMAIN addrs) |-> AccountOf(addrs, s)]]

--------------------------------------------------------------------------------
(* The reference: what is unspent after a block, from the chain alone.           *)

ChainTxs(b) == UNION {TxsIn(SubSeq(b, 1, n)) : n \in 1..Len(b)}
UnspentAt(b) == (DOMAIN Genesis \union Made(ChainTxs(b))) \ Used(ChainTxs(b))
OutputOf(b, o) == IF o \in DOMAIN Genesis THEN Genesis[o] ELSE OutputAt(ChainTxs(b), o)

(* The rows a snapshot of the UTxO set at block b holds. *)
SnapshotAt(b) == [o \in UnspentAt(b) |-> LedgerRow(OutputOf(b, o), NoTx)]

Describes(l, b) == Open(l.rows) = UnspentAt(b)
SumsMatchRows(l) ==
  /\ \A a \in DOMAIN l.addrs : l.addrs[a] = AddressOf(l.rows, a)
  /\ AddressesIn(l.rows, Open(l.rows)) \subseteq DOMAIN l.addrs
  /\ \A s \in DOMAIN l.accts : l.accts[s] = AccountOf(l.addrs, s)
  /\ Stakes(DOMAIN l.addrs) \subseteq DOMAIN l.accts
================================================================================
