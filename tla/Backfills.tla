------------------------------- MODULE Backfills -------------------------------
(* The jobs an operator starts to complete blocks that are already crawled:   *)
(* certificates and transactions from a second chain-sync stream, payment     *)
(* credentials from the rows themselves.  They run detached beside the        *)
(* crawler, which appends blocks and undoes them when the node switches       *)
(* forks, and beside each other; their state lives in the process.            *)
(*                                                                            *)
(* Blocks are those of SyncState; there is one every second slot and each     *)
(* holds one transaction.  An address stands for the address with the         *)
(* lovelace on it.  A database transaction is one step.                       *)
EXTENDS Integers, Sequences, FiniteSets, SequencesExt

CONSTANTS
  None,
  TxOf(_),       \* the transaction of a block: [id, ins, lost, outs, extra]
  AddressOf(_),  \* the address of an output, given as <<transaction, index>>
  First,         \* the chain and the crawled blocks at the start
  MaxHeight,     \* bound on the chain
  MaxForks,      \* bound on fork switches
  Styles,        \* how providers list inputs: <<order, <<outpoints, addresses>>>>
  Ranges,        \* slot ranges the operator asks for
  MaxStarts,     \* bound on accepted stream backfills
  BatchBlocks,   \* blocks per flush
  ChunkSize      \* rows per page of the credential walk

INSTANCE SyncState WITH NoOwner <- None, DeadOwner <- None, MaxErrors <- 1

\* Inputs are lists of [out, coll, addr] with an outpoint, outputs are numbered.
TxOk(tx) ==
  /\ \A list \in {tx.ins, tx.lost} : list \in Seq(Range(list))
  /\ \A f \in Range(tx.ins) \cup Range(tx.lost) :
       DOMAIN f = {"out", "coll", "addr"} /\ f.coll \in BOOLEAN /\ f.out # None /\ f.addr = None
  /\ IsFiniteSet(tx.outs \cup tx.extra) /\ tx.outs \cup tx.extra \subseteq Nat

\* A chain holds a transaction once, and after those whose outputs it takes.
ASSUME BackfillAssumption ==
  /\ {MaxHeight, MaxForks, MaxStarts} \subseteq Nat
  /\ {BatchBlocks, ChunkSize} \subseteq Nat \ {0}
  /\ First \in BlocksUpTo(MaxHeight) /\ Ranges \subseteq Nat \X Nat
  /\ \A b \in BlocksUpTo(MaxHeight) \ {Start} : TxOk(TxOf(b))
  /\ \A a, b \in BlocksUpTo(MaxHeight) \ {Start} : IsAncestor(a, b) =>
       /\ TxOf(a).id = TxOf(b).id => a = b
       /\ \A f \in Range(TxOf(a).ins) : f.out[1] # TxOf(b).id

VARIABLES
  chain,   \* the tip of the node's chain
  at,      \* the crawler's cursor: its ancestors are the stored blocks
  rows,    \* rows[n]: input and output rows of the transaction at height n
  certs,   \* transactions with certificate and withdrawal rows
  reds,    \* transactions with redeemer and datum rows
  job,     \* the backfills of the process
  style,   \* how the provider lists the inputs of a transaction
  forks, starts
vars == <<chain, at, rows, certs, reds, job, style, forks, starts>>
stored == <<rows, certs, reds>>
world == <<style, forks, starts>>

Streams == {"certificates", "transactions"}
Kinds == Streams \cup {"credentials"}

SlotOf(b) == 2 * Slot(b)
AncestorsOf(b) == {Ancestor(b, n) : n \in 1 .. Slot(b)}
Held == AncestorsOf(at)
Next1(b) == Ancestor(chain, Slot(b) + 1)
Ids(blocks) == {TxOf(b).id : b \in blocks}

CommonAncestor(a, b) ==
  LET shared == {n \in 0 .. Slot(a) : n <= Slot(b) /\ Ancestor(a, n) = Ancestor(b, n)}
  IN Ancestor(a, CHOOSE n \in shared : \A m \in shared : m <= n)

-----------------------------------------------------------------------------
(* The input rows of one transaction.                                         *)

\* resolveInputs: the stream names outpoints, the index adds the address when
\* it holds the transaction that made the output.
Fresh(tx) ==
  [i \in DOMAIN tx.ins |->
     [tx.ins[i] EXCEPT !.addr = IF tx.ins[i].out[1] \in Ids(Held) THEN AddressOf(tx.ins[i].out)
                                ELSE None]]

\* Mutation: a row without an outpoint matches whatever address it has.
SameInputIgnoresAddress(row, fresh) ==
  row.coll = fresh.coll /\ (row.out # None => row.out = fresh.out)

\* A stored row and a streamed input agree on the outpoint, or on the address
\* when the row has only that; an address the stream cannot resolve disagrees.
SameInput(row, fresh) ==
  /\ row.coll = fresh.coll
  /\ row.out # None => row.out = fresh.out
  /\ row.out = None /\ row.addr # None => row.addr = fresh.addr

Aligned(list, fresh) ==
  Len(list) = Len(fresh) /\ \A i \in DOMAIN list : SameInput(list[i], fresh[i])

\* missingFields: what a row lacks and the stream knows.
Filled(list, fresh) ==
  [i \in DOMAIN list |->
     [list[i] EXCEPT !.out = IF @ = None THEN fresh[i].out ELSE @,
                     !.addr = IF @ = None THEN fresh[i].addr ELSE @]]

\* reorderByOutpoint
SameOutpoint(row, fresh) == row.out = fresh.out /\ row.coll = fresh.coll
Reorders(list, fresh) ==
  /\ Len(list) = Len(fresh)
  /\ \A f \in Range(fresh) : \E row \in Range(list) : SameOutpoint(row, f)
InOrder(list, fresh) ==
  [i \in DOMAIN fresh |-> CHOOSE row \in Range(list) : SameOutpoint(row, fresh[i])]

\* The collateral inputs, in their order.
CollateralRows(list) ==
  LET places == {i \in DOMAIN list : list[i].coll}
  IN [k \in 1 .. Cardinality(places) |->
        list[CHOOSE i \in places : Cardinality({j \in places : j < i}) = k - 1]]

\* The rows as a backfill leaves them: filled in place, or rewritten in the
\* order of the stream without the regular inputs of a failed transaction, or
\* as they were when they do not agree with the stream.
CompletedInputs(list, tx) ==
  LET fresh == Fresh(tx)
      kept == IF tx.lost # <<>> THEN CollateralRows(list) ELSE list
  IN CASE Aligned(list, fresh) -> Filled(list, fresh)
       [] ~Aligned(list, fresh) /\ Aligned(kept, fresh) -> Filled(kept, fresh)
       [] OTHER -> IF Reorders(kept, fresh) THEN Filled(InOrder(kept, fresh), fresh) ELSE list

\* dropUnappliedOutputs
AppliedOutputs(outs, tx) == IF tx.outs \subseteq outs THEN tx.outs ELSE outs

Completed(row, tx) ==
  [ins |-> CompletedInputs(row.ins, tx), outs |-> AppliedOutputs(row.outs, tx),
   cred |-> row.cred \cap AppliedOutputs(row.outs, tx)]

-----------------------------------------------------------------------------
(* The crawler and the node.                                                  *)

\* What a provider may have listed for a transaction: its inputs in an order of
\* its own, without the outpoints or the addresses, and what a failed
\* transaction would have spent and made.
Listing(list, outpoints, addresses) ==
  [i \in DOMAIN list |->
     [out |-> IF outpoints THEN list[i].out ELSE None, coll |-> list[i].coll,
      addr |-> IF addresses THEN AddressOf(list[i].out) ELSE None]]
Listed(tx) ==
  LET list == tx.lost \o tx.ins
  IN Listing(IF style[1] = "reversed" THEN Reverse(list) ELSE list, style[2][1], style[2][2])
ProviderRow(tx, cred) ==
  LET outs == tx.outs \cup tx.extra
  IN [ins |-> Listed(tx), outs |-> outs, cred |-> IF cred THEN outs ELSE {}]

Idle == [pc |-> "none", owed |-> {}]
Init ==
  /\ chain = First /\ at = First
  /\ style \in Styles
  /\ rows = [n \in 1 .. Slot(First) |-> ProviderRow(TxOf(Ancestor(First, n)), FALSE)]
  /\ certs = {} /\ reds = {}
  /\ job = [k \in Kinds |-> Idle]
  /\ forks = 0 /\ starts = 0

Grow ==
  /\ Slot(chain) < MaxHeight
  /\ \E mark \in Branches : chain' = Append(chain, mark)
  /\ UNCHANGED <<at, stored, job, world>>

\* A block counts as owed to a job only while it stays stored and on the chain.
StillOwed(b, tip, cursor) == IsAncestor(b, tip) /\ IsAncestor(b, cursor)
Owe(tip, cursor) ==
  [k \in Kinds |-> [job[k] EXCEPT !.owed = {b \in @ : StillOwed(b, tip, cursor)}]]

\* The node switches to a fork that is not shorter.
Fork ==
  /\ forks < MaxForks /\ forks' = forks + 1
  /\ chain' \in {b \in BlocksUpTo(MaxHeight) : Slot(b) >= Slot(chain) /\ ~IsAncestor(chain, b)}
  /\ job' = Owe(chain', at)
  /\ UNCHANGED <<at, stored, style, starts>>

\* The crawler commits a block: all rows from a stream, or what a provider
\* lists, without certificates and redeemers.
CrawlForward ==
  LET b == Next1(at)  tx == TxOf(b)
  IN /\ IsAncestor(at, chain) /\ Slot(at) < Slot(chain)
     /\ at' = b
     /\ \/ /\ rows' = Append(rows, [ins |-> Fresh(tx), outs |-> tx.outs, cred |-> tx.outs])
           /\ certs' = certs \cup {tx.id} /\ reds' = reds \cup {tx.id}
        \/ /\ rows' = Append(rows, ProviderRow(tx, TRUE))
           /\ UNCHANGED <<certs, reds>>
     /\ UNCHANGED <<chain, job, world>>

\* The crawler undoes the blocks after the fork with the rows of their
\* transactions.
CrawlBack ==
  LET fork == CommonAncestor(at, chain)
      gone == Ids(Held \ AncestorsOf(fork))
  IN /\ ~IsAncestor(at, chain)
     /\ at' = fork
     /\ rows' = SubSeq(rows, 1, Slot(fork))
     /\ certs' = certs \ gone /\ reds' = reds \ gone
     /\ job' = Owe(chain, fork)
     /\ UNCHANGED <<chain, world>>

-----------------------------------------------------------------------------
(* streamCrawledBlocks.                                                       *)

Running(k) == job[k].pc \notin {"none", "done", "failed"}
Goes(k, j) == job' = [job EXCEPT ![k] = j]
Failed(k) == Goes(k, [pc |-> "failed", owed |-> {}])
Done(k) == Goes(k, [pc |-> "done", owed |-> job[k].owed])
At(k, pc) == k \in Streams /\ job[k].pc = pc

\* backfillRange: within the crawled slots, and one job of a kind at a time.
StartStream(k) ==
  /\ k \in Streams /\ ~Running(k) /\ starts < MaxStarts /\ starts' = starts + 1
  /\ \E r \in Ranges :
       /\ r[1] <= r[2] /\ r[2] <= SlotOf(at)
       /\ Goes(k, [pc |-> "intersect", from |-> r[1], to |-> r[2], pos |-> Start, pending |-> <<>>,
                   owed |-> {b \in Held : SlotOf(b) \in r[1] .. r[2] /\ IsAncestor(b, chain)}])
  /\ UNCHANGED <<chain, at, stored, style, forks>>

\* intersectionBefore: the newest crawled block below the range, else the
\* start of the crawl.
Intersect(k) ==
  LET below == {n \in 1 .. Slot(at) : 2 * n < job[k].from}
      height == IF below = {} THEN 0 ELSE CHOOSE n \in below : \A m \in below : m <= n
  IN /\ At(k, "intersect")
     /\ Goes(k, [job[k] EXCEPT !.pc = "connect", !.pos = Ancestor(at, height)])
     /\ UNCHANGED <<chain, at, stored, world>>

\* The node takes the point only when it is on its chain.
Connect(k) ==
  /\ At(k, "connect")
  /\ IF IsAncestor(job[k].pos, chain) THEN Goes(k, [job[k] EXCEPT !.pc = "stream"]) ELSE Failed(k)
  /\ UNCHANGED <<chain, at, stored, world>>

\* The first block after the range.
Past(b, j) == SlotOf(b) > j.to

\* onBlock: collect, and flush when the batch is full.  The next block is
\* requested when the handler has returned.
RollForward(k) ==
  LET j == job[k]  b == Next1(j.pos)
      collected == Append(j.pending, b)
  IN /\ At(k, "stream") /\ IsAncestor(j.pos, chain) /\ Slot(j.pos) < Slot(chain)
     /\ CASE Past(b, j) -> Goes(k, [j EXCEPT !.pc = "settled"])
          [] SlotOf(b) < j.from -> Goes(k, [j EXCEPT !.pos = b])
          [] OTHER ->
               Goes(k, [j EXCEPT !.pos = b, !.pending = collected,
                          !.pc = IF Len(collected) >= BatchBlocks THEN "flush"
                                 ELSE IF SlotOf(b) = j.to THEN "settled" ELSE @])
     /\ UNCHANGED <<chain, at, stored, world>>

\* A fork switch reaches the stream: collected blocks stay collected.
RollBackward(k) ==
  /\ At(k, "stream") /\ ~IsAncestor(job[k].pos, chain)
  /\ Goes(k, [job[k] EXCEPT !.pos = CommonAncestor(@, chain)])
  /\ UNCHANGED <<chain, at, stored, world>>

\* The socket breaks, or the database does: nothing of the batch is written.
Fails(k) ==
  /\ Running(k) /\ job[k].pc # "intersect"
  /\ Failed(k)
  /\ UNCHANGED <<chain, at, stored, world>>

\* Mutation: the whole batch is written.
IndexedAll(batch) == Range(batch)

\* The blocks of a batch the index holds, by one query over its slots.
Indexed(batch) ==
  {b \in Range(batch) : b \in Held /\ SlotOf(b) \in SlotOf(Head(batch)) .. SlotOf(Last(batch))}

\* Mutation: the rest of the last batch is not written.
BatchOfFull(j) == IF Len(j.pending) >= BatchBlocks THEN j.pending ELSE <<>>
Batch(j) == j.pending

\* writeBatch of the two jobs, in one database transaction.
Write(k, blocks) ==
  IF k = "certificates"
  THEN certs' = certs \cup Ids(blocks) /\ UNCHANGED <<rows, reds>>
  ELSE /\ rows' = [n \in DOMAIN rows |->
                     IF \E b \in blocks : Slot(b) = n
                     THEN Completed(rows[n], TxOf(CHOOSE b \in blocks : Slot(b) = n)) ELSE rows[n]]
       /\ reds' = reds \cup Ids(blocks)
       /\ UNCHANGED certs

\* After a full batch the stream goes on unless the range is covered; after the
\* last one the job is done.
Flush(k) ==
  LET j == job[k]
  IN /\ k \in Streams /\ j.pc \in {"flush", "settled"}
     /\ IF j.pc = "settled" THEN Done(k)
        ELSE Goes(k, [j EXCEPT !.pending = <<>>, !.pc = IF SlotOf(j.pos) = j.to THEN "settled" ELSE "stream"])
     /\ UNCHANGED <<chain, at, world>>
     /\ IF Batch(j) = <<>> THEN UNCHANGED stored ELSE Write(k, Indexed(Batch(j)))

-----------------------------------------------------------------------------
(* fillTable: pages of output rows in the order of their key, of which the    *)
(* first part is the transaction and the second the output.                   *)

StartWalk ==
  LET k == "credentials"
  IN /\ ~Running(k)
     /\ Goes(k, [pc |-> "walk", first |-> 0, second |-> 0, within |-> FALSE,
                 owed |-> {b \in Held : IsAncestor(b, chain)}])
     /\ UNCHANGED <<chain, at, stored, world>>

After(j) ==
  {key \in UNION {{n} \X rows[n].outs : n \in DOMAIN rows} :
     IF j.within THEN key[1] = j.first /\ key[2] > j.second ELSE key[1] > j.first}
Before(a, b) == a[1] < b[1] \/ (a[1] = b[1] /\ a[2] < b[2])
Page(j) == {key \in After(j) : Cardinality({o \in After(j) : Before(o, key)}) < ChunkSize}
LastKey(page) == CHOOSE key \in page : \A o \in page : ~Before(key, o)

\* The rows of the last transaction of a full page wait for the next one,
\* unless the page is all of that transaction.
OneTransaction(page) == \A key \in page : key[1] = LastKey(page)[1]
Ready(page) ==
  IF Cardinality(page) = ChunkSize /\ ~OneTransaction(page)
  THEN {key \in page : key[1] # LastKey(page)[1]} ELSE page

WalkStep ==
  LET k == "credentials"  j == job[k]  page == Page(j)  ready == Ready(page)
      full == Cardinality(page) = ChunkSize
      on == [j EXCEPT !.first = LastKey(ready)[1], !.second = LastKey(ready)[2],
                      !.within = full /\ OneTransaction(page)]
  IN /\ j.pc = "walk"
     /\ IF page = {}
        THEN /\ IF j.within THEN Goes(k, [j EXCEPT !.within = FALSE]) ELSE Done(k)
             /\ UNCHANGED rows
        ELSE /\ rows' = [n \in DOMAIN rows |->
                           [rows[n] EXCEPT !.cred = @ \cup {i \in rows[n].outs : <<n, i>> \in ready}]]
             /\ IF full \/ j.within THEN Goes(k, on) ELSE Done(k)
     /\ UNCHANGED <<chain, at, certs, reds, world>>

\* The process dies, and its backfills with it.
Crash ==
  /\ \E k \in Kinds : job[k].pc # "none"
  /\ job' = [k \in Kinds |-> Idle]
  /\ UNCHANGED <<chain, at, stored, world>>

-----------------------------------------------------------------------------
JobStep(k) ==
  \/ Intersect(k) \/ Connect(k) \/ RollForward(k) \/ RollBackward(k) \/ Flush(k)
  \/ (k = "credentials" /\ WalkStep)

Next ==
  \/ Grow \/ Fork \/ CrawlForward \/ CrawlBack \/ StartWalk \/ Crash
  \/ \E k \in Kinds : StartStream(k) \/ JobStep(k) \/ Fails(k)

Spec == Init /\ [][Next]_vars

-----------------------------------------------------------------------------
(* Properties.                                                                *)

\* A certificate or redeemer row belongs to a transaction of a stored block,
\* whatever the crawler undid between the streaming of a block and its flush.
NoOrphanRows == certs \cup reds \subseteq Ids(Held)

\* A transaction backfill never joins the outpoint of one input with the
\* address of another: all that a row says is true of one input.
RowsStayTrue ==
  \A n \in DOMAIN rows :
    LET tx == TxOf(Ancestor(at, n))
    IN \A row \in Range(rows[n].ins) : \E f \in Range(tx.lost \o tx.ins) :
         /\ row.coll = f.coll /\ row.out \in {None, f.out}
         /\ row.addr \in {None, AddressOf(f.out)}

\* A finished backfill leaves nothing for a second run to add to a block that
\* was stored and on the chain all the while.
DoneMeansComplete ==
  \A k \in Kinds : job[k].pc = "done" =>
    \A b \in job[k].owed :
      CASE k = "certificates" -> TxOf(b).id \in certs
        [] k = "transactions" ->
             TxOf(b).id \in reds /\ Completed(rows[Slot(b)], TxOf(b)) = rows[Slot(b)]
        [] OTHER -> rows[Slot(b)].outs \subseteq rows[Slot(b)].cred
=============================================================================
