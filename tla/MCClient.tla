------------------------------- MODULE MCClient -------------------------------
(* Instances of the client with a node and one provider. *)
EXTENDS BackendClient, TLC

CONSTANTS ogmios, koios, c1, c2

CallSymmetry == Permutations(Calls)

OneProvider == <<koios>>

\* The node keeps no transaction history.
NodeLacksTx == [b \in Backends |-> IF b = Live THEN {"tx"} ELSE {}]
=============================================================================
