--------------------------- MODULE MCWalletWorker ---------------------------
(* Small instances of WalletWorker: the requests clients may send, and the  *)
(* symmetry of the instances.                                               *)
EXTENDS WalletWorker, TLC

CONSTANTS a, b, w1, w2, k1

Pay(w, key, prio) == [walletId |-> w, kind |-> "build", idempotencyKey |-> key,
                      priority |-> prio, delayed |-> FALSE]
Signed(w, key)    == [Pay(w, key, 1) EXCEPT !.kind = "submitSigned"]

\* One payment, retried under its key.
OneKey == {Pay(w1, k1, 1)}
\* A payment without key, so that two jobs are always two payments.
Keyless == {Pay(w1, NoClaim, 1)}
\* A payment or a transaction signed by the client, which may be delayed.
PayOrSigned == Keyless \cup {[Signed(w1, NoClaim) EXCEPT !.delayed = TRUE]}

InstanceSymmetry == Permutations(Instances)
=============================================================================
