------------------------------- MODULE MCCrawler -------------------------------
(* Small instances of the crawler and the import: a chain of a few blocks with    *)
(* one fork, two processes, and scenarios that each combine a configuration with  *)
(* one or two kinds of trouble.                                                   *)
EXTENDS UtxoSetImport, TLC

CONSTANTS I1, I2

Calm == [forks |-> 0, crashes |-> 0, faults |-> 0, expiries |-> 0, pauses |-> 0,
         outages |-> 0, late |-> 0, imports |-> 0, inits |-> 0]
Plain == [source |-> "auto", backends |-> Kinds, snapshots |-> FALSE,
          utxo |-> [i \in Instances |-> FALSE], bad |-> {}]
Rejecting == [Plain EXCEPT !.bad = {<<0, 0>>}]
Mixed == [Plain EXCEPT !.source = "pagination", !.utxo = [i \in Instances |-> i = I1]]
Scene(c, l) == [config |-> c, left |-> l]

InitScenes ==
  {Scene([Plain EXCEPT !.source = "ogmios"], [Calm EXCEPT !.inits = 1, !.crashes = 1]),
   Scene([Plain EXCEPT !.source = "pagination"], [Calm EXCEPT !.inits = 1, !.outages = 1])}
CrawlScenes ==
  {Scene(Plain, l) : l \in {[Calm EXCEPT !.forks = 1, !.crashes = 1],
                            [Calm EXCEPT !.forks = 1, !.expiries = 1],
                            [Calm EXCEPT !.faults = 1, !.crashes = 1],
                            [Calm EXCEPT !.pauses = 1, !.faults = 1],
                            [Calm EXCEPT !.outages = 1, !.late = 1],
                            [Calm EXCEPT !.forks = 1, !.inits = 1],
                            [Calm EXCEPT !.faults = 1, !.inits = 1]}}
  \union {Scene(Rejecting, [Calm EXCEPT !.faults = 1]),
          Scene(Rejecting, [Calm EXCEPT !.outages = 1, !.late = 1]),
          Scene([Plain EXCEPT !.source = "ogmios"], [Calm EXCEPT !.outages = 2]),
          Scene([Plain EXCEPT !.backends = {"chain-sync"}], [Calm EXCEPT !.outages = 1]),
          Scene([Plain EXCEPT !.backends = {"pagination"}], [Calm EXCEPT !.forks = 1, !.crashes = 1]),
          Scene([Plain EXCEPT !.snapshots = TRUE], [Calm EXCEPT !.forks = 1])}
SetScenes ==
  {Scene(Mixed, l) : l \in {[Calm EXCEPT !.imports = 1, !.forks = 1, !.crashes = 1],
                            [Calm EXCEPT !.imports = 1, !.forks = 1, !.expiries = 1],
                            [Calm EXCEPT !.imports = 1, !.pauses = 1],
                            [Calm EXCEPT !.imports = 1, !.faults = 1],
                            [Calm EXCEPT !.imports = 3]}}
MCScenarios == InitScenes \union CrawlScenes \union SetScenes

Out(a, v) == [addr |-> a, val |-> v]
GenesisTx == <<Start, 0>>
MCGenesis == <<GenesisTx, 0>> :> Out("a1", 4) @@ <<GenesisTx, 1>> :> Out("a2", 1)
MCStakeOf(a) == IF a = "a3" THEN NoStake ELSE "s"

(* Each block moves the first output of the block before and splits it within     *)
(* the block; on the side branch its transaction fails and loses the collateral.  *)
Tx(id, ins, outs) == [id |-> id, ins |-> ins, coll |-> {}, outs |-> outs, ret |-> << >>, failed |-> FALSE]
MCTxsIn(b) ==
  LET prev == <<IF Len(b) = 1 THEN GenesisTx ELSE <<SubSeq(b, 1, Len(b) - 1), 0>>, 0>>
  IN IF b[Len(b)] = 0
     THEN {Tx(<<b, 0>>, {prev}, 0 :> Out("a1", 2) @@ 1 :> Out("a3", 1)),
           Tx(<<b, 1>>, {<< <<b, 0>>, 1>>}, 0 :> Out("a2", 1))}
     ELSE {[Tx(<<b, 0>>, {prev}, 1 :> Out("a3", 3)) EXCEPT
              !.coll = {prev}, !.ret = 0 :> Out("a2", 1), !.failed = TRUE]}
================================================================================
