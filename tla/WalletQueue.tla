---------------------------- MODULE WalletQueue -----------------------------
(***************************************************************************)
(* What the wallet worker promises, without instances, leases, retries or  *)
(* reconciliation: jobs queue per wallet; a job commits to one transaction,*)
(* while no other job of its wallet is committed; only committed           *)
(* transactions reach the chain; a job is paid once its transaction is on  *)
(* chain, or dropped.  WalletWorker implements this specification.         *)
(***************************************************************************)
CONSTANTS Jobs, Wallets, Txs, NoTx, NoWallet

VARIABLES
  phase,     \* "none", "queued", "committed", "paid", "dropped"
  walletOf,  \* the wallet a job belongs to
  payment,   \* the transaction a job committed to
  onChain    \* transactions in the ledger

vars == <<phase, walletOf, payment, onChain>>

Init ==
  /\ phase = [j \in Jobs |-> "none"]
  /\ walletOf = [j \in Jobs |-> NoWallet]
  /\ payment = [j \in Jobs |-> NoTx]
  /\ onChain = {}

Enqueue(j, w) ==
  /\ phase[j] = "none"
  /\ phase' = [phase EXCEPT ![j] = "queued"]
  /\ walletOf' = [walletOf EXCEPT ![j] = w]
  /\ UNCHANGED <<payment, onChain>>

Commit(j, t) ==
  /\ phase[j] = "queued" /\ t[1] = j
  /\ \A k \in Jobs : phase[k] = "committed" => walletOf[k] # walletOf[j]
  /\ phase' = [phase EXCEPT ![j] = "committed"]
  /\ payment' = [payment EXCEPT ![j] = t]
  /\ UNCHANGED <<walletOf, onChain>>

Settle(t) ==
  /\ payment[t[1]] = t
  /\ onChain' = onChain \cup {t}
  /\ UNCHANGED <<phase, walletOf, payment>>

Pay(j) ==
  /\ phase[j] = "committed" /\ payment[j] \in onChain
  /\ phase' = [phase EXCEPT ![j] = "paid"]
  /\ UNCHANGED <<walletOf, payment, onChain>>

\* A takeover may drop several jobs in one transaction.
Drop(S) ==
  /\ \A j \in S : phase[j] \in {"queued", "committed"}
  /\ phase' = [j \in Jobs |-> IF j \in S THEN "dropped" ELSE phase[j]]
  /\ UNCHANGED <<walletOf, payment, onChain>>

Next ==
  \/ \E j \in Jobs, w \in Wallets : Enqueue(j, w)
  \/ \E j \in Jobs, t \in Txs : Commit(j, t)
  \/ \E t \in Txs : Settle(t)
  \/ \E j \in Jobs : Pay(j)
  \/ \E S \in SUBSET Jobs : Drop(S)

Spec == Init /\ [][Next]_vars
=============================================================================
