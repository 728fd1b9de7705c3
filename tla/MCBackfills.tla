------------------------------ MODULE MCBackfills ------------------------------
(* Two crawled blocks, one more to come, one fork switch.  The transaction of *)
(* a block depends on its height and its last mark, so forks share some.  At  *)
(* mark 1 the transaction failed: it applied its collateral input only.       *)
EXTENDS Backfills

In(out, coll) == [out |-> out, coll |-> coll, addr |-> None]
Tx(n, mark) ==
  LET from == <<n - 1, 0>>
  IN [id |-> <<n, mark>>,
      ins |-> IF mark = 0 THEN <<In(<<from, 0>>, FALSE), In(<<from, 1>>, FALSE)>>
              ELSE <<In(<<from, 0>>, TRUE)>>,
      lost |-> IF mark = 0 THEN <<>> ELSE <<In(<<from, 1>>, FALSE)>>,
      outs |-> IF mark = 0 THEN {0, 1} ELSE {2},
      extra |-> IF mark = 0 THEN {} ELSE {0}]
MCTxOf(b) == Tx(Len(b), b[Len(b)])
MCAddressOf(out) == IF out[2] = 0 THEN "x" ELSE "y"
MCStyles == {<<"reversed", <<TRUE, FALSE>>>>, <<"reversed", <<FALSE, TRUE>>>>,
             <<"listed", <<FALSE, TRUE>>>>}
MCFirst == <<0, 0>>
\* All, up to a slot between two blocks and
\* from there.
MCRanges == {<<0, 4>>, <<0, 3>>, <<3, 4>>}
=============================================================================
