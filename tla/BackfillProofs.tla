---------------------------- MODULE BackfillProofs ----------------------------
(***************************************************************************)
(* Proofs about the backfills of a running crawler, for every chain, every *)
(* provider and every batch and page size.                                 *)
(*                                                                         *)
(* A backfill and the crawler share nothing but the rows, so what a        *)
(* backfill believes of a block can have been undone when it writes.       *)
(* BackInv says what it may rely on.  RowsFit: the rows are those of the   *)
(* stored blocks, each true of one input of its transaction.  Reached: of  *)
(* the blocks still owed, those up to the stream's position are on its     *)
(* line, and are collected or written; Collected: they lie between the     *)
(* slots of the first and the last of the batch, by which a flush asks the *)
(* index for them.  WalkOk: the outputs owed are filled or ahead of the    *)
(* cursor.  What was written for an owed block stays: a chain holds the    *)
(* transactions an input refers to before it, so that neither a new block  *)
(* nor an undone one changes what the index resolves (ResolvedForGood).    *)
(***************************************************************************)
EXTENDS Backfills, SequenceTheorems, FiniteSetTheorems, WellFoundedInduction, TLAPS

Blocks == BlocksUpTo(MaxHeight)
Crawled == Blocks \ {Start}

--------------------------------------------------------------------------------
(* The rows.                                                               *)

IsList(f) == f \in Seq(Range(f))

\* A row of an input, and what makes it true of the input f.
RowFields == {"out", "coll", "addr"}
TrueOf(row, f) ==
  row.coll = f.coll /\ row.out \in {None, f.out} /\ row.addr \in {None, AddressOf(f.out)}
Known(tx) == Range(tx.lost \o tx.ins)
InputsOk(list, tx) ==
  /\ IsList(list)
  /\ \A row \in Range(list) : DOMAIN row = RowFields /\ \E f \in Known(tx) : TrueOf(row, f)

\* The rows of one transaction.
RowOk(row, tx) ==
  /\ DOMAIN row = {"ins", "outs", "cred"} /\ InputsOk(row.ins, tx)
  /\ row.outs \subseteq tx.outs \cup tx.extra /\ row.cred \subseteq row.outs

RowsFit ==
  /\ IsList(rows) /\ DOMAIN rows = 1 .. Slot(at)
  /\ \A n \in 1 .. Slot(at) : RowOk(rows[n], TxOf(Ancestor(at, n)))

--------------------------------------------------------------------------------
(* The jobs.                                                               *)

\* The stored blocks for which a stream of kind k has left what it is to leave.
Written(k, b) ==
  IF k = "certificates" THEN TxOf(b).id \in certs
  ELSE TxOf(b).id \in reds /\ Completed(rows[Slot(b)], TxOf(b)) = rows[Slot(b)]
WrittenBlocks(k) == {b \in Held : Written(k, b)}

\* The batch of a stream.
Collected(j) ==
  /\ \A b \in j.owed \cap Range(j.pending) :
       Slot(b) <= Slot(j.pos) /\ Slot(Head(j.pending)) <= Slot(b) /\ Slot(b) <= Slot(Last(j.pending))
  /\ \A h \in Range(j.pending), b \in j.owed : Slot(b) <= Slot(j.pos) \/ Slot(h) < Slot(b)

\* How far it is.
Reached(j, written) ==
  \A b \in j.owed : Slot(b) <= Slot(j.pos) =>
    IsAncestor(b, j.pos) /\ (b \in Range(j.pending) \/ b \in written)

\* A stream of the node's chain tip, when the blocks held are stored.
StreamFields == {"pc", "from", "to", "pos", "pending", "owed"}
Streaming == {"stream", "flush", "settled"}
Owed(j, tip, held) == \A b \in j.owed : b \in held /\ IsAncestor(b, tip)
StreamOk(j, tip, held, written) ==
  /\ j.pc \in {"none", "failed", "done", "intersect", "connect"} \cup Streaming
  /\ {"pc", "owed"} \subseteq DOMAIN j /\ Owed(j, tip, held)
  /\ j.pc \in {"intersect", "connect"} \cup Streaming =>
       /\ DOMAIN j = StreamFields /\ j.from \in Nat /\ j.to \in Nat
       /\ j.pos \in Blocks /\ j.pending \in Seq(Blocks)
       /\ \A b \in j.owed : SlotOf(b) \in j.from .. j.to
  /\ j.pc \in {"intersect", "connect"} => j.pending = <<>>
  /\ j.pc = "connect" => \A b \in j.owed : Slot(j.pos) < Slot(b)
  /\ j.pc \in Streaming => Reached(j, written) /\ Collected(j)
  /\ j.pc = "settled" => \A b \in j.owed : Slot(b) <= Slot(j.pos)
  /\ j.pc = "done" => \A b \in j.owed : b \in written

\* A walk over the rows rs: the cursor has not passed the output o of the transaction at
\* height n.
Ahead(j, n, o) == n > j.first \/ (j.within /\ n = j.first /\ o > j.second)
WalkFields == {"pc", "first", "second", "within", "owed"}
WalkOk(j, tip, held, rs) ==
  /\ j.pc \in {"none", "failed", "done", "walk"}
  /\ {"pc", "owed"} \subseteq DOMAIN j /\ Owed(j, tip, held)
  /\ j.pc = "walk" =>
       /\ DOMAIN j = WalkFields /\ j.first \in Nat /\ j.second \in Nat /\ j.within \in BOOLEAN
       /\ \A b \in j.owed : \A o \in rs[Slot(b)].outs : o \in rs[Slot(b)].cred \/ Ahead(j, Slot(b), o)
  /\ j.pc = "done" => \A b \in j.owed : rs[Slot(b)].outs \subseteq rs[Slot(b)].cred

BackInv ==
  /\ chain \in Blocks /\ at \in Blocks
  /\ RowsFit /\ NoOrphanRows
  /\ job \in [Kinds -> Range(job)]
  /\ \A k \in Streams : StreamOk(job[k], chain, Held, WrittenBlocks(k))
  /\ WalkOk(job["credentials"], chain, Held, rows)

--------------------------------------------------------------------------------
(* Blocks: sequences of branch marks, ordered by their prefixes.                 *)

\* A block is a sequence of branch marks no longer than the bound, and its slot is its length.
LEMMA BlockIsSeq ==
  ASSUME NEW b \in Blocks
  PROVE /\ b \in Seq(Branches) /\ Len(b) \in 0..MaxHeight /\ Slot(b) = Len(b)
        /\ \A j \in 1..Len(b) : b[j] \in Branches
  BY BackfillAssumption, SMTT(60) DEF Blocks, BlocksUpTo, Branches, Slot

\* Every such sequence is a block.
LEMMA SeqIsBlock ==
  ASSUME NEW s \in Seq(Branches), Len(s) <= MaxHeight
  PROVE s \in Blocks
  <1>1. Len(s) \in 0..MaxHeight /\ s \in [1..Len(s) -> Branches]
    BY BackfillAssumption
  <1> QED BY <1>1 DEF Blocks, BlocksUpTo

\* Blocks with the same marks are the same block.
LEMMA SameBlock ==
  ASSUME NEW a \in Blocks, NEW b \in Blocks, Len(a) = Len(b), \A j \in 1..Len(a) : a[j] = b[j]
  PROVE a = b
  <1>1. a \in Seq(Branches) /\ b \in Seq(Branches)
    BY BlockIsSeq
  <1> QED BY <1>1

\* The ancestor at a height is the block with the first marks.
LEMMA AncestorFacts ==
  ASSUME NEW b \in Blocks, NEW n \in 0..Len(b)
  PROVE /\ Ancestor(b, n) \in Blocks /\ Len(Ancestor(b, n)) = n
        /\ \A j \in 1..n : Ancestor(b, n)[j] = b[j]
  <1>1. b \in Seq(Branches) /\ Len(b) \in 0..MaxHeight /\ \A j \in 1..Len(b) : b[j] \in Branches
    BY BlockIsSeq
  <1>2. 1 \in Int /\ n \in Int /\ \A j \in 1..n : b[j] \in Branches
    BY <1>1
  <1>3. /\ SubSeq(b, 1, n) \in Seq(Branches) /\ Len(SubSeq(b, 1, n)) = IF 1 <= n THEN n - 1 + 1 ELSE 0
        /\ \A j \in 1..n - 1 + 1 : SubSeq(b, 1, n)[j] = b[1 + j - 1]
    BY <1>2, SubSeqProperties
  <1>4. Len(SubSeq(b, 1, n)) = n /\ \A j \in 1..n : SubSeq(b, 1, n)[j] = b[j]
    BY <1>1, <1>3
  <1>5. Len(SubSeq(b, 1, n)) <= MaxHeight
    BY <1>1, <1>4, BackfillAssumption
  <1>6. SubSeq(b, 1, n) \in Blocks
    BY <1>3, <1>5, SeqIsBlock
  <1> QED BY <1>4, <1>6 DEF Ancestor

\* An ancestor is a prefix.
LEMMA AncestorIsPrefix ==
  ASSUME NEW a \in Blocks, NEW b \in Blocks
  PROVE IsAncestor(a, b) <=> Len(a) <= Len(b) /\ \A j \in 1..Len(a) : a[j] = b[j]
  <1>1. Len(a) \in 0..MaxHeight /\ Len(b) \in 0..MaxHeight
    BY BlockIsSeq
  <1>2. ASSUME Len(a) <= Len(b) PROVE (SubSeq(b, 1, Len(a)) = a) <=> \A j \in 1..Len(a) : a[j] = b[j]
    <2>1. Len(a) \in 0..Len(b)
      BY <1>1, <1>2
    <2>2. /\ Ancestor(b, Len(a)) \in Blocks /\ Len(Ancestor(b, Len(a))) = Len(a)
          /\ \A j \in 1..Len(a) : Ancestor(b, Len(a))[j] = b[j]
      BY <2>1, AncestorFacts
    <2>3. (\A j \in 1..Len(a) : a[j] = b[j]) => Ancestor(b, Len(a)) = a
      BY <2>2, SameBlock
    <2> QED BY <2>2, <2>3 DEF Ancestor
  <1> QED BY <1>2 DEF IsAncestor

\* Ancestors form a tree: the ancestors of one block are ordered by their slots.
LEMMA AncestorOrder ==
  ASSUME NEW a \in Blocks, NEW b \in Blocks, NEW c \in Blocks
  PROVE /\ IsAncestor(a, a)
        /\ IsAncestor(a, b) /\ IsAncestor(b, c) => IsAncestor(a, c)
        /\ IsAncestor(a, c) /\ IsAncestor(b, c) /\ Slot(a) <= Slot(b) => IsAncestor(a, b)
        /\ IsAncestor(a, b) => Slot(a) <= Slot(b)
        /\ IsAncestor(a, b) /\ Slot(a) = Slot(b) => a = b
  <1>1. /\ Len(a) \in Nat /\ Len(b) \in Nat /\ Len(c) \in Nat
        /\ Slot(a) = Len(a) /\ Slot(b) = Len(b) /\ Slot(c) = Len(c)
    BY BlockIsSeq, BackfillAssumption
  <1>2. IsAncestor(a, a)
    BY <1>1, AncestorIsPrefix
  <1>3. ASSUME IsAncestor(a, b), IsAncestor(b, c) PROVE IsAncestor(a, c)
    BY <1>1, <1>3, AncestorIsPrefix
  <1>4. ASSUME IsAncestor(a, c), IsAncestor(b, c), Slot(a) <= Slot(b) PROVE IsAncestor(a, b)
    BY <1>1, <1>4, AncestorIsPrefix
  <1>5. IsAncestor(a, b) => Slot(a) <= Slot(b)
    BY <1>1, AncestorIsPrefix
  <1>6. ASSUME IsAncestor(a, b), Slot(a) = Slot(b) PROVE a = b
    BY <1>1, <1>6, AncestorIsPrefix, SameBlock
  <1> QED BY <1>2, <1>3, <1>4, <1>5, <1>6

\* What Ancestor returns is an ancestor, at the slot asked for.
LEMMA AncestorIsAncestor ==
  ASSUME NEW b \in Blocks, NEW n \in 0..Slot(b)
  PROVE Ancestor(b, n) \in Blocks /\ Slot(Ancestor(b, n)) = n /\ IsAncestor(Ancestor(b, n), b)
  <1>1. Slot(b) = Len(b) /\ Len(b) \in Nat
    BY BlockIsSeq, BackfillAssumption
  <1>2. /\ Ancestor(b, n) \in Blocks /\ Len(Ancestor(b, n)) = n
        /\ \A j \in 1..n : Ancestor(b, n)[j] = b[j]
    BY <1>1, AncestorFacts
  <1>3. n <= Len(b) /\ Slot(Ancestor(b, n)) = n
    BY <1>1, <1>2, BlockIsSeq
  <1> QED BY <1>2, <1>3, AncestorIsPrefix

\* There is one ancestor at each slot.
LEMMA OneAncestor ==
  ASSUME NEW a \in Blocks, NEW b \in Blocks, IsAncestor(a, b)
  PROVE Slot(a) \in 0..Slot(b) /\ a = Ancestor(b, Slot(a))
  <1>1. Slot(a) \in 0..Slot(b)
    BY AncestorOrder, BlockIsSeq, BackfillAssumption
  <1>2. /\ Ancestor(b, Slot(a)) \in Blocks /\ Slot(Ancestor(b, Slot(a))) = Slot(a)
        /\ IsAncestor(Ancestor(b, Slot(a)), b)
    BY <1>1, AncestorIsAncestor
  <1>3. IsAncestor(a, Ancestor(b, Slot(a)))
    BY <1>1, <1>2, AncestorOrder
  <1> QED BY <1>1, <1>2, <1>3, AncestorOrder

\* The line of a block is the set of its ancestors after the start block.
LEMMA LineIs ==
  ASSUME NEW b \in Blocks
  PROVE AncestorsOf(b) = {x \in Blocks : Slot(x) >= 1 /\ IsAncestor(x, b)}
  <1>1. ASSUME NEW n \in 1..Slot(b)
        PROVE Ancestor(b, n) \in Blocks /\ Slot(Ancestor(b, n)) >= 1 /\ IsAncestor(Ancestor(b, n), b)
    BY AncestorIsAncestor
  <1>2. ASSUME NEW x \in Blocks, Slot(x) >= 1, IsAncestor(x, b) PROVE x \in AncestorsOf(b)
    BY <1>2, OneAncestor DEF AncestorsOf
  <1> QED BY <1>1, <1>2 DEF AncestorsOf

\* The next block adds itself to the line.
LEMMA LineOfChild ==
  ASSUME NEW a \in Blocks, NEW b \in Blocks, Slot(b) = Slot(a) + 1, IsAncestor(a, b)
  PROVE AncestorsOf(b) = AncestorsOf(a) \cup {b}
  <1>1. b \in Blocks /\ Slot(b) = Slot(a) + 1 /\ IsAncestor(a, b) /\ Slot(a) \in Nat
    BY BlockIsSeq, BackfillAssumption
  <1>2. ASSUME NEW x \in Blocks, IsAncestor(x, b) PROVE IsAncestor(x, a) \/ x = b
    <2>1. Slot(x) \in Nat /\ Slot(x) <= Slot(b)
      BY <1>1, <1>2, AncestorOrder, BlockIsSeq, BackfillAssumption
    <2>2. CASE Slot(x) <= Slot(a)
      BY <1>1, <1>2, <2>2, AncestorOrder
    <2>3. CASE Slot(x) = Slot(b)
      BY <1>1, <1>2, <2>3, AncestorOrder
    <2> QED BY <1>1, <2>1, <2>2, <2>3
  <1>3. ASSUME NEW x \in Blocks, IsAncestor(x, a) PROVE IsAncestor(x, b)
    BY <1>1, <1>3, AncestorOrder
  <1>4. IsAncestor(b, b) /\ Slot(b) >= 1
    BY <1>1, AncestorOrder
  <1> QED BY <1>1, <1>2, <1>3, <1>4, LineIs

\* The start block is a block, and an ancestor of every one.
LEMMA StartIsBlock ==
  Start \in Blocks /\ Slot(Start) = 0 /\ AncestorsOf(Start) = {} /\ \A b \in Blocks : IsAncestor(Start, b)
  <1>1. Start \in Seq(Branches) /\ Len(Start) = 0
    BY DEF Start
  <1>2. Start \in Blocks
    <2>1. Len(Start) <= MaxHeight
      BY <1>1, BackfillAssumption
    <2> QED BY <1>1, <2>1, SeqIsBlock
  <1>3. Slot(Start) = 0
    BY <1>1, <1>2, BlockIsSeq
  <1>4. \A b \in Blocks : IsAncestor(Start, b)
    BY <1>1, <1>2, AncestorIsPrefix, BlockIsSeq, BackfillAssumption
  <1>5. AncestorsOf(Start) = {}
    BY <1>3 DEF AncestorsOf
  <1> QED BY <1>2, <1>3, <1>4, <1>5

\* A set of numbers that is bounded and not empty has a greatest one.
LEMMA GreatestNumber ==
  ASSUME NEW max \in Nat, NEW S \in SUBSET (0..max), S # {}
  PROVE \E n \in S : \A m \in S : m <= n
  <1> DEFINE Gaps == {max - n : n \in S}
             R == OpToRel(<, Nat)
  <1>1. Gaps \subseteq Nat /\ Gaps # {}
    <2>1. \A n \in S : n \in 0..max /\ max - n \in Nat
      OBVIOUS
    <2> QED BY <2>1
  <1>2. \A x, y \in Nat : x < y => <<x, y>> \in R
    BY DEF OpToRel
  <1>3. IsWellFoundedOn(R, Nat)
    BY NatLessThanWellFounded
  <1>4. PICK d \in Gaps : \A e \in Gaps : ~ (<<e, d>> \in R)
    <2> HIDE DEF R, Gaps
    <2> QED BY <1>1, <1>3, WFMin
  <1>5. \A e \in Gaps : d <= e
    <2> HIDE DEF R, Gaps
    <2>1. d \in Nat
      BY <1>1, <1>4
    <2>2. ASSUME NEW e \in Gaps PROVE d <= e
      <3>1. e \in Nat /\ ~ (e < d)
        BY <1>1, <1>2, <1>4, <2>1
      <3> QED BY <2>1, <3>1
    <2> QED BY <2>2
  <1>6. PICK n \in S : d = max - n
    BY <1>4
  <1>7. ASSUME NEW m \in S PROVE m <= n
    BY <1>5, <1>6
  <1> QED BY <1>7

\* The fork point of two chains.
LEMMA ForkPoint ==
  ASSUME NEW a \in Blocks, NEW b \in Blocks
  PROVE  LET c == CommonAncestor(a, b)
         IN /\ c \in Blocks /\ IsAncestor(c, a) /\ IsAncestor(c, b) /\ c = Ancestor(a, Slot(c))
            /\ \A x \in Blocks : IsAncestor(x, a) /\ IsAncestor(x, b) => IsAncestor(x, c)
<1> DEFINE shared == {n \in 0 .. Slot(a) : n <= Slot(b) /\ Ancestor(a, n) = Ancestor(b, n)}
           n == CHOOSE i \in shared : \A m \in shared : m <= i
           c == Ancestor(a, n)
<1>1. c = CommonAncestor(a, b) BY DEF CommonAncestor
<1>2. Slot(a) \in Nat /\ Slot(b) \in Nat BY BlockIsSeq, BackfillAssumption
<1>3. 0 \in shared
  <2>1. /\ Ancestor(a, 0) \in Blocks /\ Slot(Ancestor(a, 0)) = 0
        /\ Ancestor(b, 0) \in Blocks /\ Slot(Ancestor(b, 0)) = 0
        /\ IsAncestor(Ancestor(a, 0), a) /\ IsAncestor(Ancestor(b, 0), b)
    BY <1>2, AncestorIsAncestor
  <2>2. Ancestor(a, 0) = Start /\ Ancestor(b, 0) = Start
    BY <2>1, StartIsBlock, AncestorOrder
  <2> QED BY <1>2, <2>2
<1>4. shared \in SUBSET (0 .. Slot(a)) /\ shared # {} BY <1>3
<1>5. n \in shared /\ \A m \in shared : m <= n
  <2> HIDE DEF shared
  <2>1. \E i \in shared : \A m \in shared : m <= i BY <1>2, <1>4, GreatestNumber
  <2> QED BY <2>1
<1> HIDE DEF n
<1>6. n \in 0 .. Slot(a) /\ n \in 0 .. Slot(b) /\ c = Ancestor(b, n) BY <1>2, <1>5
<1>7. c \in Blocks /\ IsAncestor(c, a) /\ IsAncestor(c, b) /\ Slot(c) = n
  BY <1>6, AncestorIsAncestor
<1>8. ASSUME NEW x \in Blocks, IsAncestor(x, a), IsAncestor(x, b) PROVE IsAncestor(x, c)
  <2>1. Slot(x) \in 0 .. Slot(a) /\ x = Ancestor(a, Slot(x)) /\ Slot(x) \in 0 .. Slot(b) /\ x = Ancestor(b, Slot(x))
    BY <1>8, OneAncestor
  <2>2. Slot(x) \in shared BY <1>2, <2>1
  <2>3. Slot(x) <= Slot(c) BY <1>5, <1>7, <2>2
  <2> QED BY <1>7, <1>8, <2>3, AncestorOrder
<1> HIDE DEF c
<1> QED BY <1>1, <1>7, <1>8 DEF c

\* The stored blocks, one at each height.
LEMMA LineFacts ==
  ASSUME NEW p \in Blocks
  PROVE  /\ AncestorsOf(p) = {x \in Blocks : Slot(x) >= 1 /\ IsAncestor(x, p)}
         /\ \A b \in AncestorsOf(p) : b \in Crawled /\ b \in Blocks /\ Slot(b) \in 1 .. Slot(p) /\ b = Ancestor(p, Slot(b))
         /\ \A a, b \in AncestorsOf(p) : Slot(a) <= Slot(b) => IsAncestor(a, b)
         /\ \A a, b \in AncestorsOf(p) : Slot(a) = Slot(b) => a = b
         /\ \A n \in 1 .. Slot(p) : Ancestor(p, n) \in AncestorsOf(p) /\ Slot(Ancestor(p, n)) = n
<1>1. AncestorsOf(p) = {x \in Blocks : Slot(x) >= 1 /\ IsAncestor(x, p)} BY LineIs
<1>2. \A b \in Blocks : Slot(b) \in Nat BY BlockIsSeq, BackfillAssumption
<1>3. ASSUME NEW b \in AncestorsOf(p)
      PROVE  b \in Crawled /\ b \in Blocks /\ Slot(b) \in 1 .. Slot(p) /\ b = Ancestor(p, Slot(b))
  <2>1. b # Start BY <1>1, StartIsBlock
  <2> QED BY <1>1, <1>2, <2>1, OneAncestor DEF Crawled
<1>4. \A a, b \in AncestorsOf(p) : Slot(a) <= Slot(b) => IsAncestor(a, b)
  BY <1>1, AncestorOrder
<1>5. \A a, b \in AncestorsOf(p) : Slot(a) = Slot(b) => a = b
  BY <1>3
<1>6. ASSUME NEW n \in 1 .. Slot(p) PROVE Ancestor(p, n) \in AncestorsOf(p) /\ Slot(Ancestor(p, n)) = n
  <2>1. n \in 0 .. Slot(p) BY <1>2
  <2> QED BY <1>1, <2>1, AncestorIsAncestor
<1> QED BY <1>1, <1>3, <1>4, <1>5, <1>6

\* On one chain, blocks are ordered by their slots.
LEMMA OnChain ==
  ASSUME NEW a \in Blocks, NEW b \in Blocks, NEW c \in Blocks, IsAncestor(a, c), IsAncestor(b, c)
  PROVE  /\ Slot(a) <= Slot(b) => IsAncestor(a, b)
         /\ Slot(a) = Slot(b) => a = b
<1>1. Slot(a) \in Nat /\ Slot(b) \in Nat BY BlockIsSeq, BackfillAssumption
<1> QED BY <1>1, AncestorOrder

--------------------------------------------------------------------------------
(* Lists.                                                                  *)

\* A function on the places of a list is a list.
LEMMA Mapped ==
  ASSUME NEW list, IsList(list), NEW g, g = [i \in DOMAIN list |-> g[i]]
  PROVE  IsList(g) /\ Len(g) = Len(list) /\ DOMAIN g = 1 .. Len(list) /\ Len(list) \in Nat
<1>1. DOMAIN list = 1 .. Len(list) /\ Len(list) \in Nat BY DEF IsList
<1>2. g \in [1 .. Len(list) -> Range(g)] BY <1>1 DEF Range
<1>3. g \in Seq(Range(g)) BY <1>1, <1>2
<1> QED BY <1>1, <1>2, <1>3 DEF IsList

\* The elements of two lists after each other.
LEMMA Joined ==
  ASSUME NEW s, NEW t, IsList(s), IsList(t)
  PROVE  IsList(s \o t) /\ Range(s \o t) = Range(s) \cup Range(t)
<1> DEFINE S == Range(s) \cup Range(t)
           q == s \o t
<1>1. s \in Seq(S) /\ t \in Seq(S) BY DEF IsList
<1> HIDE DEF S
<1>2. /\ q \in Seq(S) /\ Len(q) = Len(s) + Len(t) /\ Len(s) \in Nat /\ Len(t) \in Nat
      /\ DOMAIN q = 1 .. Len(s) + Len(t) /\ DOMAIN s = 1 .. Len(s) /\ DOMAIN t = 1 .. Len(t)
      /\ \A i \in 1 .. Len(s) : q[i] = s[i]
      /\ \A i \in 1 .. Len(t) : q[Len(s) + i] = t[i]
  BY <1>1
<1> HIDE DEF q
<1>3. ASSUME NEW i \in DOMAIN q PROVE q[i] \in Range(s) \cup Range(t)
  <2>1. CASE i <= Len(s) BY <1>2, <2>1 DEF Range
  <2>2. CASE ~(i <= Len(s))
    <3>1. i - Len(s) \in DOMAIN t /\ q[i] = t[i - Len(s)] BY <1>2, <2>2
    <3> QED BY <3>1 DEF Range
  <2> QED BY <2>1, <2>2
<1>4. Range(s) \subseteq Range(q) BY <1>2 DEF Range
<1>5. ASSUME NEW i \in DOMAIN t PROVE t[i] \in Range(q)
  <2>1. Len(s) + i \in DOMAIN q /\ q[Len(s) + i] = t[i] BY <1>2
  <2> QED BY <2>1 DEF Range
<1>6. Range(q) = Range(s) \cup Range(t) BY <1>3, <1>4, <1>5 DEF Range
<1>7. q \in Seq(Range(q))
  <2>1. q \in [1 .. Len(q) -> Range(q)] BY <1>2 DEF Range
  <2> QED BY <1>2, <2>1
<1> QED BY <1>6, <1>7 DEF q, IsList

\* A set of numbers that is not empty has a least one.
LEMMA LeastNumber ==
  ASSUME NEW S \in SUBSET Nat, S # {}
  PROVE  \E n \in S : \A m \in S : n <= m
<1> DEFINE R == OpToRel(<, Nat)
<1>1. IsWellFoundedOn(R, Nat) BY NatLessThanWellFounded
<1>2. PICK i \in S : \A j \in S : ~(<<j, i>> \in R)
  <2> HIDE DEF R
  <2> QED BY <1>1, WFMin
<1>3. \A j \in S : ~(j < i) BY <1>2 DEF OpToRel
<1> QED BY <1>3

\* In a finite set of numbers there is one with k - 1 below it, for every k up to the
\* number of its elements.
LEMMA Ranked ==
  ASSUME NEW S \in SUBSET Nat, IsFiniteSet(S), NEW k \in 1 .. Cardinality(S)
  PROVE  \E i \in S : Cardinality({j \in S : j < i}) = k - 1
<1> DEFINE Below(i) == {j \in S : j < i}
           Missing == {m \in 1 .. Cardinality(S) : \A i \in S : Cardinality(Below(i)) # m - 1}
<1>1. SUFFICES ASSUME Missing # {} PROVE FALSE
  <2>1. k \notin Missing OBVIOUS
  <2> QED BY <2>1
<1>2. Cardinality(S) \in Nat BY FS_CardinalityType
<1>3. PICK m \in Missing : \A x \in Missing : m <= x
  <2>1. Missing \in SUBSET Nat BY <1>2
  <2> HIDE DEF Missing
  <2> QED BY <1>1, <2>1, LeastNumber
<1>4. m \in 1 .. Cardinality(S) /\ \A i \in S : Cardinality(Below(i)) # m - 1 BY <1>3
<1>5. CASE m = 1
  <2>1. S # {} BY <1>2, <1>4, <1>5, FS_EmptySet
  <2>2. PICK i \in S : \A j \in S : i <= j BY <2>1, LeastNumber
  <2>6. \A j \in S : i \in Nat /\ j \in Nat /\ i <= j BY <2>2
  <2>3. Below(i) = {}
    <3>1. \A j \in S : ~(j < i) BY <2>6
    <3> QED BY <3>1, Zenon
  <2>4. Cardinality(Below(i)) = 0 BY <2>3, FS_EmptySet
  <2> QED BY <1>4, <1>5, <2>4
<1>6. CASE m # 1
  <2>1. m - 1 \in 1 .. Cardinality(S) /\ ~(m <= m - 1) BY <1>2, <1>4, <1>6
  <2>2. m - 1 \notin Missing BY <1>3, <2>1
  <2>3. PICK i \in S : Cardinality(Below(i)) = m - 1 - 1 BY <2>1, <2>2
  <2> DEFINE T == Below(i) \cup {i}
  <2>4. IsFiniteSet(Below(i)) /\ i \notin Below(i)
    <3>1. Below(i) \subseteq S OBVIOUS
    <3>2. i \notin Below(i) OBVIOUS
    <3> QED BY <3>1, <3>2, FS_Subset
  <2>5. IsFiniteSet(T) /\ Cardinality(T) = m - 1
    <3>1. Cardinality(T) = Cardinality(Below(i)) + 1 /\ IsFiniteSet(T) BY <2>4, FS_AddElement
    <3> QED BY <1>2, <1>4, <2>3, <3>1
  <2>6. S \ T # {}
    <3>1. T \subseteq S OBVIOUS
    <3>2. T # S BY <1>2, <1>4, <2>5
    <3> HIDE DEF T
    <3> QED BY <3>1, <3>2
  <2>7. PICK x \in S \ T : \A y \in S \ T : x <= y
    <3>1. S \ T \in SUBSET Nat OBVIOUS
    <3> HIDE DEF T
    <3> QED BY <2>6, <3>1, LeastNumber
  <2>8. Below(x) = T
    <3>1. x > i BY <2>7
    <3>2. ASSUME NEW y \in S, y < x PROVE y \in T BY <2>7, <3>2
    <3>3. ASSUME NEW y \in T PROVE y \in S /\ y < x BY <3>1
    <3> QED BY <3>2, <3>3
  <2>9. Cardinality(Below(x)) = m - 1 BY <2>5, <2>8
  <2> QED BY <1>4, <2>7, <2>9
<1> QED BY <1>5, <1>6

\* The collateral inputs are a list of rows of the list.
LEMMA CollateralIsList ==
  ASSUME NEW list, IsList(list)
  PROVE  IsList(CollateralRows(list)) /\ Range(CollateralRows(list)) \subseteq Range(list)
<1> DEFINE places == {i \in DOMAIN list : list[i].coll}
           Place(k) == CHOOSE i \in places : Cardinality({j \in places : j < i}) = k - 1
           g == CollateralRows(list)
<1>1. DOMAIN list = 1 .. Len(list) /\ Len(list) \in Nat BY DEF IsList
<1>2. places \in SUBSET Nat /\ IsFiniteSet(places)
  <2>1. IsFiniteSet(1 .. Len(list)) BY <1>1, FS_Interval
  <2> QED BY <1>1, <2>1, FS_Subset
<1>3. g = [k \in 1 .. Cardinality(places) |-> list[Place(k)]] BY DEF CollateralRows
<1>4. Cardinality(places) \in Nat BY <1>2, FS_CardinalityType
<1> HIDE DEF g
<1>5. ASSUME NEW k \in 1 .. Cardinality(places) PROVE g[k] \in Range(list)
  <2>1. \E i \in places : Cardinality({j \in places : j < i}) = k - 1
    <3> HIDE DEF places
    <3> QED BY <1>2, Ranked
  <2>2. Place(k) \in DOMAIN list BY <2>1
  <2> HIDE DEF Place
  <2>3. g[k] = list[Place(k)] BY <1>3
  <2> QED BY <2>2, <2>3 DEF Range
<1>6. g \in [1 .. Cardinality(places) -> Range(g)] BY <1>3 DEF Range
<1>7. IsList(g)
  <2> HIDE DEF places
  <2> QED BY <1>4, <1>6 DEF IsList
<1>8. Range(g) \subseteq Range(list)
  <2>1. DOMAIN g = 1 .. Cardinality(places) BY <1>3
  <2> QED BY <1>5, <2>1 DEF Range
<1> QED BY <1>7, <1>8 DEF g

--------------------------------------------------------------------------------
(* The rows of one transaction.                                            *)

\* Transactions of blocks.
LEMMA TxFacts ==
  /\ \A b \in Crawled : TxOk(TxOf(b))
  /\ \A a, b \in Crawled : IsAncestor(a, b) =>
       (TxOf(a).id = TxOf(b).id => a = b) /\ \A f \in Range(TxOf(a).ins) : f.out[1] # TxOf(b).id
BY BackfillAssumption DEF Blocks, Crawled

\* What the stream says of the inputs.
LEMMA FreshIs ==
  ASSUME NEW tx, TxOk(tx)
  PROVE  /\ IsList(Fresh(tx)) /\ DOMAIN Fresh(tx) = DOMAIN tx.ins
         /\ \A i \in DOMAIN tx.ins :
              /\ DOMAIN Fresh(tx)[i] = RowFields
              /\ Fresh(tx)[i].coll = tx.ins[i].coll /\ Fresh(tx)[i].out = tx.ins[i].out
              /\ Fresh(tx)[i].out # None
              /\ Fresh(tx)[i].addr = IF tx.ins[i].out[1] \in Ids(Held) THEN AddressOf(tx.ins[i].out) ELSE None
              /\ tx.ins[i] \in Known(tx)
<1>1. IsList(tx.ins) /\ IsList(tx.lost) BY DEF TxOk, IsList
<1>2. \A i \in DOMAIN tx.ins : DOMAIN tx.ins[i] = RowFields /\ tx.ins[i].out # None
  BY DEF TxOk, RowFields, Range
<1> DEFINE g == Fresh(tx)
<1>3. /\ g = [i \in DOMAIN tx.ins |-> g[i]] /\ DOMAIN g = DOMAIN tx.ins
      /\ \A i \in DOMAIN tx.ins :
           g[i] = [tx.ins[i] EXCEPT !.addr = IF tx.ins[i].out[1] \in Ids(Held) THEN AddressOf(tx.ins[i].out) ELSE None]
  BY DEF Fresh
<1> HIDE DEF g
<1>4. IsList(g) BY <1>1, <1>3, Mapped
<1>5. ASSUME NEW i \in DOMAIN tx.ins
      PROVE  /\ DOMAIN g[i] = RowFields /\ g[i].coll = tx.ins[i].coll /\ g[i].out = tx.ins[i].out
             /\ g[i].addr = IF tx.ins[i].out[1] \in Ids(Held) THEN AddressOf(tx.ins[i].out) ELSE None
  BY <1>2, <1>3 DEF RowFields
<1>6. \A i \in DOMAIN tx.ins : tx.ins[i] \in Known(tx)
  <2>1. Known(tx) = Range(tx.lost) \cup Range(tx.ins) BY <1>1, Joined DEF Known
  <2> QED BY <2>1 DEF Range
<1> QED BY <1>2, <1>3, <1>4, <1>5, <1>6 DEF g

\* What missingFields adds.
LEMMA FilledIs ==
  ASSUME NEW list, NEW fresh, IsList(list), \A i \in DOMAIN list : DOMAIN list[i] = RowFields
  PROVE  /\ IsList(Filled(list, fresh)) /\ DOMAIN Filled(list, fresh) = DOMAIN list
         /\ Len(Filled(list, fresh)) = Len(list)
         /\ Filled(list, fresh) = [i \in DOMAIN list |-> Filled(list, fresh)[i]]
         /\ \A i \in DOMAIN list :
              /\ DOMAIN Filled(list, fresh)[i] = RowFields
              /\ Filled(list, fresh)[i].coll = list[i].coll
              /\ Filled(list, fresh)[i].out = IF list[i].out = None THEN fresh[i].out ELSE list[i].out
              /\ Filled(list, fresh)[i].addr = IF list[i].addr = None THEN fresh[i].addr ELSE list[i].addr
<1> DEFINE g == Filled(list, fresh)
<1>1. /\ g = [i \in DOMAIN list |-> g[i]]
      /\ \A i \in DOMAIN list :
           g[i] = [list[i] EXCEPT !.out = IF @ = None THEN fresh[i].out ELSE @,
                                  !.addr = IF @ = None THEN fresh[i].addr ELSE @]
  BY DEF Filled
<1> HIDE DEF g
<1>2. IsList(g) /\ Len(g) = Len(list) /\ DOMAIN g = DOMAIN list BY <1>1, Mapped DEF IsList
<1>3. ASSUME NEW i \in DOMAIN list
      PROVE  /\ DOMAIN g[i] = RowFields /\ g[i].coll = list[i].coll
             /\ g[i].out = IF list[i].out = None THEN fresh[i].out ELSE list[i].out
             /\ g[i].addr = IF list[i].addr = None THEN fresh[i].addr ELSE list[i].addr
  BY <1>1 DEF RowFields
<1> QED BY <1>1, <1>2, <1>3 DEF g

\* Rows that agree with the stream are filled with the truth, once.
LEMMA AlignedFilled ==
  ASSUME NEW tx, TxOk(tx), NEW list, InputsOk(list, tx), Aligned(list, Fresh(tx))
  PROVE  LET g == Filled(list, Fresh(tx))
         IN InputsOk(g, tx) /\ Aligned(g, Fresh(tx)) /\ Filled(g, Fresh(tx)) = g
<1> DEFINE fresh == Fresh(tx)
           g == Filled(list, fresh)
           h == Filled(g, fresh)
<1>1. IsList(list) /\ \A i \in DOMAIN list : DOMAIN list[i] = RowFields /\ \E f \in Known(tx) : TrueOf(list[i], f)
  BY DEF InputsOk, Range
<1>2. Len(list) = Len(fresh) /\ \A i \in DOMAIN list : SameInput(list[i], fresh[i]) BY DEF Aligned
<1>3. /\ IsList(fresh) /\ DOMAIN fresh = DOMAIN tx.ins
      /\ \A i \in DOMAIN tx.ins :
           /\ DOMAIN fresh[i] = RowFields /\ fresh[i].coll = tx.ins[i].coll
           /\ fresh[i].out = tx.ins[i].out /\ fresh[i].out # None
           /\ fresh[i].addr \in {None, AddressOf(tx.ins[i].out)} /\ tx.ins[i] \in Known(tx)
  BY FreshIs
<1> HIDE DEF fresh
<1>4. DOMAIN list = DOMAIN tx.ins BY <1>1, <1>2, <1>3 DEF IsList
<1>5. /\ IsList(g) /\ DOMAIN g = DOMAIN list /\ Len(g) = Len(list) /\ g = [i \in DOMAIN list |-> g[i]]
      /\ \A i \in DOMAIN list :
           /\ DOMAIN g[i] = RowFields /\ g[i].coll = list[i].coll
           /\ g[i].out = IF list[i].out = None THEN fresh[i].out ELSE list[i].out
           /\ g[i].addr = IF list[i].addr = None THEN fresh[i].addr ELSE list[i].addr
  BY <1>1, FilledIs
<1> HIDE DEF g
<1>6. ASSUME NEW i \in DOMAIN list
      PROVE  /\ TrueOf(g[i], tx.ins[i]) /\ tx.ins[i] \in Known(tx)
             /\ SameInput(g[i], fresh[i]) /\ g[i].out # None
             /\ g[i].addr = None => fresh[i].addr = None
  <2>1. PICK f \in Known(tx) : TrueOf(list[i], f) BY <1>1
  <2>2. SameInput(list[i], fresh[i]) BY <1>2
  <2> QED BY <1>3, <1>4, <1>5, <2>1, <2>2 DEF TrueOf, SameInput
<1>7. InputsOk(g, tx) BY <1>5, <1>6 DEF InputsOk, Range
<1>8. Aligned(g, fresh) BY <1>2, <1>5, <1>6 DEF Aligned
<1>9. /\ DOMAIN h = DOMAIN g /\ h = [i \in DOMAIN g |-> h[i]]
      /\ \A i \in DOMAIN g :
           h[i] = [g[i] EXCEPT !.out = IF @ = None THEN fresh[i].out ELSE @,
                               !.addr = IF @ = None THEN fresh[i].addr ELSE @]
  BY DEF Filled
<1> HIDE DEF h
<1>10. ASSUME NEW i \in DOMAIN g PROVE h[i] = g[i]
  <2>1. g[i].out # None /\ (g[i].addr = None => fresh[i].addr = g[i].addr) BY <1>5, <1>6
  <2>2. (IF g[i].out = None THEN fresh[i].out ELSE g[i].out) = g[i].out
        /\ (IF g[i].addr = None THEN fresh[i].addr ELSE g[i].addr) = g[i].addr
    BY <2>1
  <2>3. g[i] = [x \in RowFields |-> g[i][x]]
    <3>1. g[i] = [list[i] EXCEPT !.out = IF @ = None THEN fresh[i].out ELSE @,
                                 !.addr = IF @ = None THEN fresh[i].addr ELSE @]
      BY <1>5 DEF g, Filled
    <3>2. DOMAIN list[i] = RowFields BY <1>1, <1>5
    <3> QED BY <3>1, <3>2
  <2>4. h[i] = [g[i] EXCEPT !.out = g[i].out, !.addr = g[i].addr] BY <1>9, <2>2
  <2> QED BY <2>3, <2>4 DEF RowFields
<1>11. h = g
  <2>1. h = [i \in DOMAIN g |-> g[i]] BY <1>9, <1>10
  <2> QED BY <1>5, <2>1
<1> QED BY <1>7, <1>8, <1>11 DEF g, h, fresh

\* A list in the order of the stream agrees with it.
LEMMA ReorderedAligned ==
  ASSUME NEW tx, TxOk(tx), NEW list, InputsOk(list, tx), Reorders(list, Fresh(tx))
  PROVE  InputsOk(InOrder(list, Fresh(tx)), tx) /\ Aligned(InOrder(list, Fresh(tx)), Fresh(tx))
<1> DEFINE fresh == Fresh(tx)
           g == InOrder(list, fresh)
<1>1. IsList(fresh) /\ DOMAIN fresh = DOMAIN tx.ins /\ \A i \in DOMAIN fresh : fresh[i].out # None
  BY FreshIs
<1>2. \A f \in Range(fresh) : \E row \in Range(list) : SameOutpoint(row, f) BY DEF Reorders
<1> HIDE DEF fresh
<1>3. /\ g = [i \in DOMAIN fresh |-> g[i]]
      /\ \A i \in DOMAIN fresh : g[i] = CHOOSE row \in Range(list) : SameOutpoint(row, fresh[i])
  BY DEF InOrder
<1> HIDE DEF g
<1>4. ASSUME NEW i \in DOMAIN fresh PROVE g[i] \in Range(list) /\ SameOutpoint(g[i], fresh[i])
  <2>1. fresh[i] \in Range(fresh) BY DEF Range
  <2>2. \E row \in Range(list) : SameOutpoint(row, fresh[i]) BY <1>2, <2>1
  <2> QED BY <1>3, <2>2
<1>5. IsList(g) /\ Len(g) = Len(fresh) /\ DOMAIN g = DOMAIN fresh BY <1>1, <1>3, Mapped DEF IsList
<1>6. InputsOk(g, tx) BY <1>4, <1>5 DEF InputsOk, Range
<1>7. \A i \in DOMAIN g : SameInput(g[i], fresh[i]) BY <1>1, <1>4, <1>5 DEF SameOutpoint, SameInput
<1> QED BY <1>5, <1>6, <1>7 DEF Aligned, g, fresh

\* completed inputs: true, and a second time the same.
LEMMA CompletedInputsOk ==
  ASSUME NEW tx, TxOk(tx), NEW list, InputsOk(list, tx)
  PROVE  /\ InputsOk(CompletedInputs(list, tx), tx)
         /\ CompletedInputs(CompletedInputs(list, tx), tx) = CompletedInputs(list, tx)
<1> DEFINE fresh == Fresh(tx)
           kept == IF tx.lost # <<>> THEN CollateralRows(list) ELSE list
           g == CompletedInputs(list, tx)
<1>1. InputsOk(kept, tx)
  <2>1. InputsOk(CollateralRows(list), tx) BY CollateralIsList DEF InputsOk
  <2> QED BY <2>1
<1>2. \/ Aligned(list, fresh) /\ g = Filled(list, fresh)
      \/ Aligned(kept, fresh) /\ g = Filled(kept, fresh)
      \/ Reorders(kept, fresh) /\ g = Filled(InOrder(kept, fresh), fresh)
      \/ g = list
  BY DEF CompletedInputs
<1> HIDE DEF kept
<1>3. (InputsOk(g, tx) /\ Aligned(g, fresh) /\ Filled(g, fresh) = g) \/ g = list
  <2>1. CASE Aligned(list, fresh) /\ g = Filled(list, fresh)
    <3> HIDE DEF g
    <3> QED BY <2>1, AlignedFilled
  <2>2. CASE Aligned(kept, fresh) /\ g = Filled(kept, fresh)
    <3> HIDE DEF g
    <3> QED BY <1>1, <2>2, AlignedFilled
  <2>3. CASE Reorders(kept, fresh) /\ g = Filled(InOrder(kept, fresh), fresh)
    <3>1. InputsOk(InOrder(kept, fresh), tx) /\ Aligned(InOrder(kept, fresh), fresh)
      BY <1>1, <2>3, ReorderedAligned
    <3> HIDE DEF g
    <3> QED BY <2>3, <3>1, AlignedFilled
  <2>4. CASE g = list BY <2>4
  <2> QED BY <1>2, <2>1, <2>2, <2>3, <2>4
<1>4. CASE g = list BY <1>4
<1>5. CASE InputsOk(g, tx) /\ Aligned(g, fresh) /\ Filled(g, fresh) = g
  <2>1. CompletedInputs(g, tx) = Filled(g, fresh)
    <3> HIDE DEF g
    <3> QED BY <1>5 DEF CompletedInputs
  <2> QED BY <1>5, <2>1
<1> QED BY <1>3, <1>4, <1>5

\* A transaction backfill leaves true rows, and a second one nothing to do.
LEMMA CompletedOk ==
  ASSUME NEW tx, TxOk(tx), NEW row, RowOk(row, tx)
  PROVE  /\ RowOk(Completed(row, tx), tx) /\ Completed(Completed(row, tx), tx) = Completed(row, tx)
         /\ Completed(row, tx).outs \subseteq row.outs
         /\ Completed(row, tx).cred = row.cred \cap Completed(row, tx).outs
<1> DEFINE g == Completed(row, tx)
<1>1. /\ DOMAIN g = {"ins", "outs", "cred"} /\ g.ins = CompletedInputs(row.ins, tx)
      /\ g.outs = AppliedOutputs(row.outs, tx) /\ g.cred = row.cred \cap g.outs
  BY DEF Completed
<1>2. InputsOk(g.ins, tx) /\ CompletedInputs(g.ins, tx) = g.ins
  BY <1>1, CompletedInputsOk DEF RowOk
<1>3. AppliedOutputs(g.outs, tx) = g.outs /\ g.outs \subseteq row.outs BY <1>1 DEF AppliedOutputs
<1>4. RowOk(g, tx) BY <1>1, <1>2, <1>3 DEF RowOk
<1>5. Completed(g, tx) = g
  <2>1. g = [ins |-> g.ins, outs |-> g.outs, cred |-> g.cred] BY DEF Completed
  <2>2. g.cred \cap g.outs = g.cred BY <1>1
  <2> HIDE DEF g
  <2>3. Completed(g, tx) = [ins |-> g.ins, outs |-> g.outs, cred |-> g.cred]
    BY <1>2, <1>3, <2>2 DEF Completed
  <2> QED BY <2>1, <2>3
<1> QED BY <1>1, <1>3, <1>4, <1>5

\* More payment credentials make no difference.
LEMMA CreditedStays ==
  ASSUME NEW tx, NEW row, RowOk(row, tx), NEW more, more \subseteq row.outs,
         NEW q, q = [ins |-> row.ins, outs |-> row.outs, cred |-> row.cred \cup more]
  PROVE  /\ RowOk(q, tx) /\ q.outs = row.outs /\ q.cred = row.cred \cup more
         /\ Completed(row, tx) = row => Completed(q, tx) = q
<1>1. DOMAIN row = {"ins", "outs", "cred"} BY DEF RowOk
<1>2. /\ DOMAIN q = {"ins", "outs", "cred"} /\ q.ins = row.ins /\ q.outs = row.outs
      /\ q.cred = row.cred \cup more
  BY <1>1
<1>3. q = [ins |-> q.ins, outs |-> q.outs, cred |-> q.cred] BY <1>1
<1>4. RowOk(q, tx) BY <1>2 DEF RowOk
<1>5. ASSUME Completed(row, tx) = row PROVE Completed(q, tx) = q
  <2>1. CompletedInputs(row.ins, tx) = row.ins /\ AppliedOutputs(row.outs, tx) = row.outs
    BY <1>5 DEF Completed
  <2>2. q.cred \cap q.outs = q.cred BY <1>2 DEF RowOk
  <2>3. Completed(q, tx) = [ins |-> q.ins, outs |-> q.outs, cred |-> q.cred]
    BY <1>2, <2>1, <2>2 DEF Completed
  <2> QED BY <1>3, <2>3
<1> QED BY <1>2, <1>4, <1>5

\* Rows as a stream has them, and as a provider lists them.
LEMMA NewRowsOk ==
  ASSUME NEW tx, TxOk(tx), NEW credited \in BOOLEAN
  PROVE  /\ RowOk([ins |-> Fresh(tx), outs |-> tx.outs, cred |-> tx.outs], tx)
         /\ RowOk(ProviderRow(tx, credited), tx)
<1>1. InputsOk(Fresh(tx), tx)
  <2>1. IsList(Fresh(tx)) /\ DOMAIN Fresh(tx) = DOMAIN tx.ins BY FreshIs
  <2>2. ASSUME NEW i \in DOMAIN tx.ins
        PROVE  DOMAIN Fresh(tx)[i] = RowFields /\ \E f \in Known(tx) : TrueOf(Fresh(tx)[i], f)
    <3>1. TrueOf(Fresh(tx)[i], tx.ins[i]) BY FreshIs DEF TrueOf
    <3> QED BY <3>1, FreshIs
  <2> QED BY <2>1, <2>2 DEF InputsOk, Range
<1>2. InputsOk(Listed(tx), tx)
  <2> DEFINE all == tx.lost \o tx.ins
             list == IF style[1] = "reversed" THEN Reverse(all) ELSE all
             g == Listed(tx)
  <2>1. IsList(tx.lost) /\ IsList(tx.ins) BY DEF TxOk, IsList
  <2>2. IsList(all) /\ Range(all) = Known(tx) BY <2>1, Joined DEF Known
  <2> HIDE DEF all
  <2>3. DOMAIN all = 1 .. Len(all) /\ Len(all) \in Nat BY <2>2 DEF IsList
  <2>4. IsList(list) /\ Range(list) \subseteq Known(tx)
    <3>1. IsList(Reverse(all)) /\ Range(Reverse(all)) \subseteq Range(all)
      <4> DEFINE r == Reverse(all)
      <4>1. r = [i \in 1 .. Len(all) |-> r[i]] /\ \A i \in 1 .. Len(all) : r[i] = all[Len(all) - i + 1]
        BY DEF Reverse
      <4> HIDE DEF r
      <4>2. \A i \in 1 .. Len(all) : Len(all) - i + 1 \in DOMAIN all BY <2>3
      <4>3. IsList(r) BY <2>2, <2>3, <4>1, Mapped
      <4>4. DOMAIN r = 1 .. Len(all) BY <4>1
      <4> QED BY <4>1, <4>2, <4>3, <4>4 DEF r, Range
    <3> QED BY <2>2, <3>1
  <2> HIDE DEF list
  <2> DEFINE outpoints == style[2][1]
             addresses == style[2][2]
  <2>5. g = Listing(list, outpoints, addresses) BY DEF all, list, Listed
  <2>6. /\ g = [i \in DOMAIN list |-> g[i]] /\ DOMAIN g = DOMAIN list
        /\ \A i \in DOMAIN list :
             /\ DOMAIN g[i] = RowFields /\ g[i].coll = list[i].coll /\ g[i].out \in {None, list[i].out}
             /\ g[i].addr \in {None, AddressOf(list[i].out)}
    BY <2>5 DEF Listing, RowFields
  <2> HIDE DEF g
  <2>7. IsList(g) BY <2>4, <2>6, Mapped
  <2>8. \A i \in DOMAIN list : list[i] \in Known(tx) BY <2>4 DEF Range
  <2> QED BY <2>6, <2>7, <2>8 DEF g, InputsOk, Range, TrueOf
<1>3. RowOk([ins |-> Fresh(tx), outs |-> tx.outs, cred |-> tx.outs], tx) BY <1>1 DEF RowOk
<1>4. RowOk(ProviderRow(tx, credited), tx) BY <1>2 DEF RowOk, ProviderRow
<1> QED BY <1>3, <1>4

--------------------------------------------------------------------------------
(* What keeps the invariant.                                               *)

\* The index resolves the inputs of a stored block once and for all.
LEMMA ResolvedForGood ==
  ASSUME at \in Blocks, at' \in Blocks, NEW b, b \in Held, b \in Held'
  PROVE  Fresh(TxOf(b))' = Fresh(TxOf(b))
<1>1. Held = AncestorsOf(at) /\ Held' = AncestorsOf(at') BY DEF Held
<1>2. b \in Crawled /\ b \in Blocks BY <1>1, LineFacts
<1>3. ASSUME NEW f \in Range(TxOf(b).ins), NEW p \in Blocks, b \in AncestorsOf(p), NEW q \in Blocks,
             b \in AncestorsOf(q), f.out[1] \in Ids(AncestorsOf(p))
      PROVE  f.out[1] \in Ids(AncestorsOf(q))
  <2>1. PICK x \in AncestorsOf(p) : f.out[1] = TxOf(x).id BY <1>3 DEF Ids
  <2>2. x \in Crawled /\ x \in Blocks /\ Slot(x) >= 1 /\ IsAncestor(x, p) /\ IsAncestor(b, p)
    BY <1>3, LineFacts
  <2>3. ~IsAncestor(b, x) BY <1>2, <2>1, <2>2, TxFacts
  <2>4. Slot(x) \in Nat /\ Slot(b) \in Nat BY <1>2, <2>2, BlockIsSeq, BackfillAssumption
  <2>5. IsAncestor(x, b) BY <1>2, <1>3, <2>2, <2>3, <2>4, AncestorOrder
  <2>6. IsAncestor(b, q) BY <1>3, LineFacts
  <2>7. IsAncestor(x, q) BY <1>2, <2>2, <2>5, <2>6, AncestorOrder
  <2>8. x \in AncestorsOf(q) BY <2>2, <2>7, LineFacts
  <2> QED BY <2>1, <2>8 DEF Ids
<1>4. \A f \in Range(TxOf(b).ins) : f.out[1] \in Ids(AncestorsOf(at)) <=> f.out[1] \in Ids(AncestorsOf(at'))
  BY <1>1, <1>3
<1>5. \A i \in DOMAIN TxOf(b).ins :
        TxOf(b).ins[i].out[1] \in Ids(Held) <=> TxOf(b).ins[i].out[1] \in Ids(Held)'
  BY <1>1, <1>4 DEF Range, Ids
<1> QED BY <1>5 DEF Fresh

\* A stream that goes no further while blocks come and go.
LEMMA StreamKept ==
  ASSUME NEW j, NEW c, NEW tip, NEW held, NEW written, NEW tip2, NEW held2, NEW written2,
         StreamOk(j, tip, held, written),
         DOMAIN c = DOMAIN j, \A f \in DOMAIN j \ {"owed"} : c[f] = j[f], c.owed \subseteq j.owed,
         Owed(c, tip2, held2), \A b \in c.owed : b \in written => b \in written2
  PROVE  StreamOk(c, tip2, held2, written2)
<1>1. /\ {"pc", "owed"} \subseteq DOMAIN c /\ c.pc = j.pc
      /\ j.pc \in {"intersect", "connect"} \cup Streaming =>
           c.from = j.from /\ c.to = j.to /\ c.pos = j.pos /\ c.pending = j.pending
  BY DEF StreamOk, StreamFields
<1>2. j.pc \in Streaming => Reached(c, written2) /\ Collected(c)
  BY <1>1 DEF StreamOk, Reached, Collected
<1> QED BY <1>1, <1>2 DEF StreamOk

\* A walk that stands still while rows come and go.
LEMMA WalkKept ==
  ASSUME NEW j, NEW c, NEW tip, NEW held, NEW rs, NEW tip2, NEW held2, NEW rs2,
         WalkOk(j, tip, held, rs),
         DOMAIN c = DOMAIN j, \A f \in DOMAIN j \ {"owed"} : c[f] = j[f], c.owed \subseteq j.owed,
         Owed(c, tip2, held2),
         \A b \in c.owed : /\ rs2[Slot(b)].outs \subseteq rs[Slot(b)].outs
                           /\ rs[Slot(b)].cred \cap rs2[Slot(b)].outs \subseteq rs2[Slot(b)].cred
  PROVE  WalkOk(c, tip2, held2, rs2)
<1>1. /\ {"pc", "owed"} \subseteq DOMAIN c /\ c.pc = j.pc
      /\ j.pc = "walk" => c.first = j.first /\ c.second = j.second /\ c.within = j.within
  BY DEF WalkOk, WalkFields
<1> QED BY <1>1 DEF WalkOk, Ahead

\* What a stream is to leave for a block that stays.
LEMMA WrittenNow ==
  ASSUME at \in Blocks, at' \in Blocks, NEW k \in Streams, NEW b, b \in Held, b \in Held',
         IF k = "certificates" THEN TxOf(b).id \in certs'
         ELSE TxOf(b).id \in reds' /\ Completed(rows'[Slot(b)], TxOf(b)) = rows'[Slot(b)]
  PROVE  b \in WrittenBlocks(k)'
<1>1. Fresh(TxOf(b))' = Fresh(TxOf(b)) BY ResolvedForGood
<1>2. Completed(rows[Slot(b)], TxOf(b))' = Completed(rows'[Slot(b)], TxOf(b))
  BY <1>1 DEF Completed, CompletedInputs
<1>3. Written(k, b)' BY <1>2 DEF Written
<1> QED BY <1>3 DEF WrittenBlocks

\* It is still there when a second stream would still find nothing to do.
LEMMA WrittenStays ==
  ASSUME at \in Blocks, at' \in Blocks, NEW k \in Streams, NEW b, b \in WrittenBlocks(k), b \in Held',
         TxOf(b).id \in certs => TxOf(b).id \in certs', TxOf(b).id \in reds => TxOf(b).id \in reds',
         Completed(rows[Slot(b)], TxOf(b)) = rows[Slot(b)] =>
           Completed(rows'[Slot(b)], TxOf(b)) = rows'[Slot(b)]
  PROVE  b \in WrittenBlocks(k)'
<1>1. b \in Held /\ Written(k, b) BY DEF WrittenBlocks
<1> QED BY <1>1, WrittenNow DEF Written

\* Blocks come and go, and the jobs stand still.
LEMMA JobsKept ==
  ASSUME BackInv, chain' \in Blocks, at' \in Blocks, RowsFit', NoOrphanRows', job' \in [Kinds -> Range(job')],
         \A k \in Kinds :
           /\ DOMAIN job'[k] = DOMAIN job[k]
           /\ \A f \in DOMAIN job[k] \ {"owed"} : job'[k][f] = job[k][f]
           /\ job'[k].owed \subseteq job[k].owed /\ Owed(job'[k], chain', Held'),
         \A b \in Held \cap Held' :
           /\ TxOf(b).id \in certs => TxOf(b).id \in certs'
           /\ TxOf(b).id \in reds => TxOf(b).id \in reds'
           /\ rows'[Slot(b)] = rows[Slot(b)]
  PROVE  BackInv'
<1>1. ASSUME NEW k \in Streams PROVE StreamOk(job'[k], chain', Held', WrittenBlocks(k)')
  <2>1. \A b \in Held \cap Held' : b \in WrittenBlocks(k) => b \in WrittenBlocks(k)'
    BY WrittenStays DEF BackInv
  <2>2. StreamOk(job[k], chain, Held, WrittenBlocks(k)) BY DEF BackInv
  <2>3. k \in Kinds BY DEF Kinds
  <2>4. \A b \in job'[k].owed : b \in Held \cap Held' BY <2>2, <2>3 DEF StreamOk, Owed
  <2> QED BY <2>1, <2>2, <2>3, <2>4, StreamKept
<1>2. WalkOk(job'["credentials"], chain', Held', rows')
  <2>1. "credentials" \in Kinds BY DEF Kinds
  <2>2. WalkOk(job["credentials"], chain, Held, rows) BY DEF BackInv
  <2>3. \A b \in job'["credentials"].owed : b \in Held \cap Held' BY <2>1, <2>2 DEF WalkOk, Owed
  <2> QED BY <2>1, <2>2, <2>3, WalkKept
<1> QED BY <1>1, <1>2 DEF BackInv

\* One job changes.
LEMMA OneJob ==
  ASSUME job \in [Kinds -> Range(job)], NEW k \in Kinds, NEW j, Goes(k, j)
  PROVE  /\ job' \in [Kinds -> Range(job')] /\ job'[k] = j
         /\ \A l \in Kinds \ {k} : job'[l] = job[l]
<1>1. job' = [job EXCEPT ![k] = j] BY DEF Goes
<1>2. job' = [l \in Kinds |-> job'[l]] BY <1>1
<1>3. job' \in [Kinds -> Range(job')] BY <1>2 DEF Range
<1> QED BY <1>1, <1>3

\* What a stream has left is still there when the rows are.
LEMMA SameWritten ==
  ASSUME UNCHANGED <<at, stored>>, NEW k
  PROVE  WrittenBlocks(k)' = WrittenBlocks(k)
<1>1. Held' = Held /\ rows' = rows /\ certs' = certs /\ reds' = reds BY DEF Held, stored
<1>2. ASSUME NEW b PROVE Written(k, b)' = Written(k, b)
  <2>1. Fresh(TxOf(b))' = Fresh(TxOf(b)) BY <1>1 DEF Fresh
  <2>2. Completed(rows[Slot(b)], TxOf(b))' = Completed(rows[Slot(b)], TxOf(b))
    BY <1>1, <2>1 DEF Completed, CompletedInputs
  <2> QED BY <1>1, <2>2 DEF Written
<1> QED BY <1>1, <1>2 DEF WrittenBlocks

\* A stream changes and nothing else does.
LEMMA StreamMoves ==
  ASSUME BackInv, NEW k \in Streams, NEW j, StreamOk(j, chain, Held, WrittenBlocks(k)), Goes(k, j),
         UNCHANGED <<chain, at, stored>>
  PROVE  BackInv'
<1>1. /\ Held' = Held /\ rows' = rows /\ certs' = certs /\ reds' = reds /\ at' = at /\ chain' = chain
      /\ \A l \in Streams : WrittenBlocks(l)' = WrittenBlocks(l)
  BY SameWritten DEF Held, stored
<1>2. k \in Kinds /\ Streams \subseteq Kinds /\ "credentials" \in Kinds \ {k} BY DEF Kinds, Streams
<1>3. /\ job' \in [Kinds -> Range(job')] /\ job'[k] = j
      /\ \A l \in Kinds \ {k} : job'[l] = job[l]
  BY <1>2, OneJob DEF BackInv
<1>4. \A l \in Streams : StreamOk(job'[l], chain', Held', WrittenBlocks(l)') BY <1>1, <1>2, <1>3 DEF BackInv
<1>5. WalkOk(job'["credentials"], chain', Held', rows') BY <1>1, <1>2, <1>3 DEF BackInv
<1>6. RowsFit' /\ NoOrphanRows' BY <1>1 DEF BackInv, RowsFit, NoOrphanRows
<1> QED BY <1>1, <1>3, <1>4, <1>5, <1>6 DEF BackInv

\* The walk changes and nothing else does.
LEMMA WalkMoves ==
  ASSUME BackInv, NEW j, WalkOk(j, chain, Held, rows), Goes("credentials", j), UNCHANGED <<chain, at, stored>>
  PROVE  BackInv'
<1>1. /\ Held' = Held /\ rows' = rows /\ certs' = certs /\ reds' = reds /\ at' = at /\ chain' = chain
      /\ \A l \in Streams : WrittenBlocks(l)' = WrittenBlocks(l)
  BY SameWritten DEF Held, stored
<1>2. "credentials" \in Kinds /\ Streams \subseteq Kinds \ {"credentials"} BY DEF Kinds, Streams
<1>3. /\ job' \in [Kinds -> Range(job')] /\ job'["credentials"] = j
      /\ \A l \in Kinds \ {"credentials"} : job'[l] = job[l]
  BY <1>2, OneJob DEF BackInv
<1>4. \A l \in Streams : StreamOk(job'[l], chain', Held', WrittenBlocks(l)') BY <1>1, <1>2, <1>3 DEF BackInv
<1>5. WalkOk(job'["credentials"], chain', Held', rows') BY <1>1, <1>3
<1>6. RowsFit' /\ NoOrphanRows' BY <1>1 DEF BackInv, RowsFit, NoOrphanRows
<1> QED BY <1>1, <1>3, <1>4, <1>5, <1>6 DEF BackInv

\* The next block of a chain.
LEMMA NextBlock ==
  ASSUME NEW a \in Blocks, NEW c \in Blocks, IsAncestor(a, c), Slot(a) < Slot(c)
  PROVE  LET b == Ancestor(c, Slot(a) + 1)
         IN /\ b \in Blocks /\ Slot(b) = Slot(a) + 1 /\ IsAncestor(a, b) /\ IsAncestor(b, c)
            /\ AncestorsOf(b) = AncestorsOf(a) \cup {b}
<1> DEFINE b == Ancestor(c, Slot(a) + 1)
<1>1. Slot(a) \in Nat /\ Slot(c) \in Nat BY BlockIsSeq, BackfillAssumption
<1>2. b \in Blocks /\ Slot(b) = Slot(a) + 1 /\ IsAncestor(b, c) BY <1>1, AncestorIsAncestor
<1> HIDE DEF b
<1>3. IsAncestor(a, b) BY <1>1, <1>2, AncestorOrder
<1>4. AncestorsOf(b) = AncestorsOf(a) \cup {b} BY <1>2, <1>3, LineOfChild
<1> QED BY <1>2, <1>3, <1>4 DEF b

\* An ancestor has the same ancestors.
LEMMA SameAncestor ==
  ASSUME NEW a \in Blocks, NEW b \in Blocks, IsAncestor(a, b), NEW n \in 0 .. Slot(a)
  PROVE  Ancestor(b, n) = Ancestor(a, n)
<1>1. Ancestor(a, n) \in Blocks /\ Slot(Ancestor(a, n)) = n /\ IsAncestor(Ancestor(a, n), a)
  BY AncestorIsAncestor
<1>2. IsAncestor(Ancestor(a, n), b) BY <1>1, AncestorOrder
<1> QED BY <1>1, <1>2, OneAncestor

\* A list with one more element.
LEMMA Appended ==
  ASSUME NEW s, IsList(s), NEW x
  PROVE  /\ IsList(Append(s, x)) /\ Len(Append(s, x)) = Len(s) + 1 /\ Len(s) \in Nat
         /\ DOMAIN s = 1 .. Len(s) /\ DOMAIN Append(s, x) = 1 .. Len(s) + 1
         /\ \A i \in 1 .. Len(s) : Append(s, x)[i] = s[i]
         /\ Append(s, x)[Len(s) + 1] = x /\ Range(Append(s, x)) = Range(s) \cup {x}
<1> DEFINE S == Range(s) \cup {x}
           q == Append(s, x)
<1>1. s \in Seq(S) /\ x \in S BY DEF IsList
<1> HIDE DEF S
<1>2. /\ q \in Seq(S) /\ Len(q) = Len(s) + 1 /\ Len(s) \in Nat
      /\ DOMAIN s = 1 .. Len(s) /\ DOMAIN q = 1 .. Len(s) + 1
      /\ \A i \in 1 .. Len(s) : q[i] = s[i]
      /\ q[Len(s) + 1] = x
  BY <1>1
<1> HIDE DEF q
<1>3. Range(q) = Range(s) \cup {x}
  <2>1. \A i \in DOMAIN q : q[i] \in Range(s) \cup {x}
    <3>1. \A i \in DOMAIN q : i \in 1 .. Len(s) \/ i = Len(s) + 1 BY <1>2
    <3> QED BY <1>2, <3>1 DEF Range
  <2>2. \A i \in DOMAIN s : i \in DOMAIN q /\ q[i] = s[i] BY <1>2
  <2>3. Len(s) + 1 \in DOMAIN q BY <1>2
  <2> QED BY <1>2, <2>1, <2>2, <2>3 DEF Range
<1>4. q \in Seq(Range(q))
  <2>1. q \in [1 .. Len(q) -> Range(q)] BY <1>2 DEF Range
  <2> QED BY <1>2, <2>1
<1> QED BY <1>2, <1>3, <1>4 DEF q, IsList

\* The first elements of a list.
LEMMA Shortened ==
  ASSUME NEW s, IsList(s), NEW n \in 0 .. Len(s)
  PROVE  /\ IsList(SubSeq(s, 1, n)) /\ DOMAIN SubSeq(s, 1, n) = 1 .. n
         /\ \A i \in 1 .. n : SubSeq(s, 1, n)[i] = s[i]
<1> DEFINE S == Range(s)
           q == SubSeq(s, 1, n)
<1>1. s \in Seq(S) /\ Len(s) \in Nat /\ DOMAIN s = 1 .. Len(s) BY DEF IsList
<1> HIDE DEF S
<1>2. \A j \in 1 .. n : s[j] \in S BY <1>1
<1>3. q \in Seq(S) /\ Len(q) = n /\ DOMAIN q = 1 .. n /\ \A i \in 1 .. n : q[i] = s[i]
  <2>1. 1 \in Int /\ n \in Int OBVIOUS
  <2>2. /\ q \in Seq(S) /\ Len(q) = (IF 1 <= n THEN n - 1 + 1 ELSE 0)
        /\ \A j \in 1 .. n - 1 + 1 : q[j] = s[1 + j - 1]
    BY <1>2, <2>1, SubSeqProperties
  <2>3. Len(q) = n BY <2>2
  <2> HIDE DEF q
  <2>4. DOMAIN q = 1 .. n BY <2>2, <2>3
  <2> QED BY <2>2, <2>3, <2>4
<1> HIDE DEF q
<1>4. q \in [1 .. n -> Range(q)] BY <1>3 DEF Range
<1>5. q \in Seq(Range(q)) BY <1>3, <1>4
<1> QED BY <1>3, <1>5 DEF q, IsList

--------------------------------------------------------------------------------
(* The node and the crawler.                                               *)

\* A chain that grows keeps what it holds.
LEMMA GrowKeeps == BackInv /\ Grow => BackInv'
<1> SUFFICES ASSUME BackInv, Grow PROVE BackInv' OBVIOUS
<1>1. PICK mark \in Branches : chain' = Append(chain, mark) BY DEF Grow
<1>2. /\ chain \in Blocks /\ Slot(chain) < MaxHeight /\ UNCHANGED <<at, stored, job>> BY DEF BackInv, Grow, world
<1>3. chain \in Seq(Branches) /\ Len(chain) \in Nat /\ Slot(chain) = Len(chain) /\ MaxHeight \in Nat
  BY <1>2, BlockIsSeq, BackfillAssumption
<1>4. /\ Append(chain, mark) \in Seq(Branches) /\ Len(Append(chain, mark)) = Len(chain) + 1
      /\ \A i \in 1 .. Len(chain) : Append(chain, mark)[i] = chain[i]
  BY <1>3
<1> DEFINE tip == Append(chain, mark)
<1> HIDE DEF tip
<1>5. tip \in Blocks /\ IsAncestor(chain, tip) /\ chain' = tip
  <2>1. tip \in Seq(Branches) /\ Len(tip) <= MaxHeight /\ Len(chain) <= Len(tip) BY <1>2, <1>3, <1>4 DEF tip
  <2>2. tip \in Blocks BY <2>1, SeqIsBlock
  <2>3. IsAncestor(chain, tip) BY <1>2, <1>4, <2>1, <2>2, AncestorIsPrefix DEF tip
  <2> QED BY <1>1, <2>2, <2>3 DEF tip
<1>6. chain' \in Blocks /\ IsAncestor(chain, chain') BY <1>5
<1>7. rows' = rows /\ certs' = certs /\ reds' = reds /\ at' = at /\ job' = job /\ Held' = Held
  BY <1>2 DEF stored, Held
<1>8. RowsFit' /\ NoOrphanRows' BY <1>7 DEF BackInv, RowsFit, NoOrphanRows
<1>9. \A k \in Kinds : Owed(job[k], chain, Held)
  BY DEF BackInv, StreamOk, WalkOk, Kinds
<1>10. \A b \in Held : b \in Blocks BY LineFacts DEF Held, BackInv
<1>11. \A k \in Kinds : Owed(job'[k], chain', Held')
  BY <1>2, <1>6, <1>7, <1>9, <1>10, AncestorOrder DEF Owed
<1> QED BY <1>6, <1>7, <1>8, <1>11, JobsKept DEF BackInv

\* What the jobs still owe when the tip and the cursor have moved.
LEMMA OweIs ==
  ASSUME BackInv, NEW tip, NEW cursor \in Blocks, job' = Owe(tip, cursor)
  PROVE  /\ job' \in [Kinds -> Range(job')]
         /\ \A k \in Kinds :
              /\ DOMAIN job'[k] = DOMAIN job[k]
              /\ \A f \in DOMAIN job[k] \ {"owed"} : job'[k][f] = job[k][f]
              /\ job'[k].owed \subseteq job[k].owed /\ Owed(job'[k], tip, AncestorsOf(cursor))
<1>1. \A k \in Kinds : job'[k] = [job[k] EXCEPT !.owed = {b \in @ : StillOwed(b, tip, cursor)}]
  BY DEF Owe
<1>2. job' \in [Kinds -> Range(job')]
  <2>1. job' = [k \in Kinds |-> job'[k]] BY DEF Owe
  <2> QED BY <2>1 DEF Range
<1>3. \A k \in Kinds : "owed" \in DOMAIN job[k] /\ Owed(job[k], chain, Held)
  BY DEF BackInv, StreamOk, WalkOk, Kinds
<1>4. \A b \in Held : b \in Blocks /\ Slot(b) >= 1 BY LineFacts DEF Held, BackInv
<1>5. ASSUME NEW k \in Kinds
      PROVE  /\ DOMAIN job'[k] = DOMAIN job[k]
             /\ \A f \in DOMAIN job[k] \ {"owed"} : job'[k][f] = job[k][f]
             /\ job'[k].owed \subseteq job[k].owed /\ Owed(job'[k], tip, AncestorsOf(cursor))
  <2>1. job'[k].owed = {b \in job[k].owed : StillOwed(b, tip, cursor)} BY <1>1, <1>3
  <2>2. \A b \in job'[k].owed : b \in AncestorsOf(cursor) /\ IsAncestor(b, tip)
    BY <1>3, <1>4, <2>1, LineFacts DEF Owed, StillOwed
  <2> QED BY <1>1, <1>3, <2>1, <2>2 DEF Owed
<1> QED BY <1>2, <1>5

\* A fork switch of the node.
LEMMA ForkKeeps == BackInv /\ Fork => BackInv'
<1> SUFFICES ASSUME BackInv, Fork PROVE BackInv' OBVIOUS
<1>1. chain' \in Blocks /\ at \in Blocks /\ job' = Owe(chain', at) /\ UNCHANGED <<at, stored>>
  BY DEF Fork, BackInv, Blocks
<1>2. rows' = rows /\ certs' = certs /\ reds' = reds /\ at' = at /\ Held' = Held /\ Held = AncestorsOf(at)
  BY <1>1 DEF stored, Held
<1>3. RowsFit' /\ NoOrphanRows' BY <1>2 DEF BackInv, RowsFit, NoOrphanRows
<1>4. PICK tip : tip = chain' OBVIOUS
<1>5. job' = Owe(tip, at) BY <1>1, <1>4
<1>6. /\ job' \in [Kinds -> Range(job')]
      /\ \A k \in Kinds :
           /\ DOMAIN job'[k] = DOMAIN job[k]
           /\ \A f \in DOMAIN job[k] \ {"owed"} : job'[k][f] = job[k][f]
           /\ job'[k].owed \subseteq job[k].owed /\ Owed(job'[k], tip, AncestorsOf(at))
  BY <1>1, <1>5, OweIs
<1> QED BY <1>1, <1>2, <1>3, <1>4, <1>6, JobsKept

\* The crawler commits a block.
LEMMA CrawlForwardKeeps == BackInv /\ CrawlForward => BackInv'
<1> SUFFICES ASSUME BackInv, CrawlForward PROVE BackInv' OBVIOUS
<1> DEFINE b == Next1(at)
           tx == TxOf(b)
<1>1. at \in Blocks /\ chain \in Blocks /\ RowsFit /\ NoOrphanRows BY DEF BackInv
<1>2. /\ IsAncestor(at, chain) /\ Slot(at) < Slot(chain) /\ at' = b /\ UNCHANGED <<chain, job>>
      /\ certs' \in {certs, certs \cup {tx.id}} /\ reds' \in {reds, reds \cup {tx.id}}
      /\ rows' \in {Append(rows, [ins |-> Fresh(tx), outs |-> tx.outs, cred |-> tx.outs]),
                    Append(rows, ProviderRow(tx, TRUE))}
  BY DEF CrawlForward, world
<1>3. /\ b \in Blocks /\ Slot(b) = Slot(at) + 1 /\ IsAncestor(at, b) /\ IsAncestor(b, chain)
      /\ AncestorsOf(b) = AncestorsOf(at) \cup {b}
  BY <1>1, <1>2, NextBlock DEF Next1
<1> HIDE DEF b
<1>4. Slot(at) \in Nat BY <1>1, BlockIsSeq, BackfillAssumption
<1>5. Held' = Held \cup {b} /\ b \in Crawled BY <1>2, <1>3, <1>4, StartIsBlock DEF Held, Crawled
<1>6. TxOk(tx) BY <1>5, TxFacts
<1>7. PICK row : RowOk(row, tx) /\ rows' = Append(rows, row)
  BY <1>2, <1>6, NewRowsOk
<1>8. /\ IsList(rows) /\ DOMAIN rows = 1 .. Slot(at)
      /\ \A n \in 1 .. Slot(at) : RowOk(rows[n], TxOf(Ancestor(at, n)))
  BY <1>1 DEF RowsFit
<1>9. Len(rows) = Slot(at) BY <1>4, <1>8 DEF IsList
<1>10. /\ IsList(rows') /\ DOMAIN rows' = 1 .. Slot(b)
       /\ \A n \in 1 .. Slot(at) : rows'[n] = rows[n]
       /\ rows'[Slot(b)] = row
  BY <1>3, <1>7, <1>8, <1>9, Appended
<1>11. RowsFit'
  <2>1. ASSUME NEW n \in 1 .. Slot(b) PROVE RowOk(rows'[n], TxOf(Ancestor(b, n)))
    <3>1. CASE n = Slot(b)
      <4>1. Ancestor(b, n) = b BY <1>3, <3>1, AncestorOrder, OneAncestor
      <4> QED BY <1>7, <1>10, <3>1, <4>1
    <3>2. CASE n # Slot(b)
      <4>1. n \in 1 .. Slot(at) /\ n \in 0 .. Slot(at) BY <1>3, <1>4, <3>2
      <4>2. Ancestor(b, n) = Ancestor(at, n) BY <1>1, <1>3, <4>1, SameAncestor
      <4> QED BY <1>8, <1>10, <4>1, <4>2
    <3> QED BY <3>1, <3>2
  <2> QED BY <1>2, <1>10, <2>1 DEF RowsFit
<1>12. NoOrphanRows'
  <2>1. Ids(Held') = Ids(Held) \cup {tx.id} BY <1>5 DEF Ids
  <2> QED BY <1>1, <1>2, <2>1 DEF NoOrphanRows, Ids
<1>13. \A x \in Held : Slot(x) \in 1 .. Slot(at) BY <1>1, LineFacts DEF Held
<1>14. \A k \in Kinds : Owed(job[k], chain, Held) BY DEF BackInv, StreamOk, WalkOk, Kinds
<1>15. \A k \in Kinds : Owed(job'[k], chain', Held') BY <1>2, <1>5, <1>14 DEF Owed
<1>16. job' = job /\ job \in [Kinds -> Range(job)] BY <1>2 DEF BackInv
<1>17. at' \in Blocks /\ chain' \in Blocks BY <1>1, <1>2, <1>3
<1>18. certs \subseteq certs' /\ reds \subseteq reds' BY <1>2
<1>19. \A x \in Held \cap Held' : rows'[Slot(x)] = rows[Slot(x)] BY <1>10, <1>13
<1> QED BY <1>11, <1>12, <1>15, <1>16, <1>17, <1>18, <1>19, JobsKept

\* The crawler undoes the blocks after the fork.
LEMMA CrawlBackKeeps == BackInv /\ CrawlBack => BackInv'
<1> SUFFICES ASSUME BackInv, CrawlBack PROVE BackInv' OBVIOUS
<1> DEFINE fork == CommonAncestor(at, chain)
           gone == Ids(Held \ AncestorsOf(fork))
<1>1. at \in Blocks /\ chain \in Blocks /\ RowsFit /\ NoOrphanRows BY DEF BackInv
<1>2. /\ at' = fork /\ rows' = SubSeq(rows, 1, Slot(fork)) /\ certs' = certs \ gone /\ reds' = reds \ gone
      /\ job' = Owe(chain, fork) /\ chain' = chain
  BY DEF CrawlBack
<1>3. fork \in Blocks /\ IsAncestor(fork, at) BY <1>1, ForkPoint
<1>4. Held' = AncestorsOf(fork) /\ Held = AncestorsOf(at) BY <1>2 DEF Held
<1> HIDE DEF fork
<1>5. Slot(at) \in Nat /\ Slot(fork) \in 0 .. Slot(at) BY <1>1, <1>3, BlockIsSeq, OneAncestor, BackfillAssumption
<1>6. /\ IsList(rows) /\ DOMAIN rows = 1 .. Slot(at) /\ Len(rows) = Slot(at)
      /\ \A n \in 1 .. Slot(at) : RowOk(rows[n], TxOf(Ancestor(at, n)))
  BY <1>1, <1>5 DEF RowsFit, IsList
<1>7. /\ IsList(rows') /\ DOMAIN rows' = 1 .. Slot(fork) /\ \A n \in 1 .. Slot(fork) : rows'[n] = rows[n]
  BY <1>2, <1>5, <1>6, Shortened
<1>8. RowsFit'
  <2>1. ASSUME NEW n \in 1 .. Slot(fork) PROVE RowOk(rows'[n], TxOf(Ancestor(fork, n)))
    <3>1. n \in 1 .. Slot(at) /\ n \in 0 .. Slot(fork) BY <1>5
    <3>2. Ancestor(at, n) = Ancestor(fork, n) BY <1>1, <1>3, <3>1, SameAncestor
    <3> QED BY <1>6, <1>7, <3>1, <3>2
  <2> QED BY <1>2, <1>7, <2>1 DEF RowsFit
<1>9. NoOrphanRows'
  <2>1. Ids(Held) \ gone \subseteq Ids(Held') BY <1>4 DEF Ids
  <2>2. NoOrphanRows' = (certs' \cup reds' \subseteq Ids(Held')) BY DEF NoOrphanRows, Ids
  <2> HIDE DEF gone
  <2> QED BY <1>1, <1>2, <2>1, <2>2 DEF NoOrphanRows
<1>10. \A b \in Held \cap Held' : TxOf(b).id \notin gone
  <2>1. SUFFICES ASSUME NEW b \in Held \cap Held', NEW x \in Held \ Held', TxOf(x).id = TxOf(b).id PROVE FALSE
    BY <1>4 DEF Ids
  <2>2. x \in Crawled /\ b \in Crawled /\ Slot(x) \in Nat /\ Slot(b) \in Nat BY <1>1, <1>4, <1>5, <2>1, LineFacts
  <2>3. IsAncestor(x, b) \/ IsAncestor(b, x) BY <1>1, <1>4, <2>1, <2>2, LineFacts
  <2> QED BY <2>1, <2>2, <2>3, TxFacts
<1>11. \A b \in Held' : Slot(b) \in 1 .. Slot(fork) BY <1>3, <1>4, LineFacts
<1>12. \A b \in Held \cap Held' :
         /\ TxOf(b).id \in certs => TxOf(b).id \in certs'
         /\ TxOf(b).id \in reds => TxOf(b).id \in reds'
         /\ rows'[Slot(b)] = rows[Slot(b)]
  <2> HIDE DEF gone
  <2> QED BY <1>2, <1>7, <1>10, <1>11
<1>13. /\ job' \in [Kinds -> Range(job')]
       /\ \A k \in Kinds :
            /\ DOMAIN job'[k] = DOMAIN job[k]
            /\ \A f \in DOMAIN job[k] \ {"owed"} : job'[k][f] = job[k][f]
            /\ job'[k].owed \subseteq job[k].owed /\ Owed(job'[k], chain, AncestorsOf(fork))
  BY <1>2, <1>3, OweIs
<1>14. at' \in Blocks /\ chain' \in Blocks BY <1>1, <1>2, <1>3
<1> QED BY <1>2, <1>4, <1>8, <1>9, <1>12, <1>13, <1>14, JobsKept

\* Nothing but the bounds of the model changes.
LEMMA StutterKeeps == BackInv /\ UNCHANGED <<chain, at, stored, job>> => BackInv'
<1> SUFFICES ASSUME BackInv, UNCHANGED <<chain, at, stored, job>> PROVE BackInv' OBVIOUS
<1>1. rows' = rows /\ certs' = certs /\ reds' = reds /\ at' = at /\ chain' = chain /\ job' = job /\ Held' = Held
  BY DEF stored, Held
<1>2. \A k \in Kinds : WrittenBlocks(k)' = WrittenBlocks(k) BY SameWritten
<1>3. RowsFit' /\ NoOrphanRows' BY <1>1 DEF BackInv, RowsFit, NoOrphanRows
<1>4. Streams \subseteq Kinds BY DEF Kinds
<1> QED BY <1>1, <1>2, <1>3, <1>4 DEF BackInv

\* A job that has not begun, or has failed, owes nothing.
LEMMA NothingOwed ==
  ASSUME NEW j, DOMAIN j = {"pc", "owed"}, j.pc \in {"none", "failed"}, j.owed = {},
         NEW tip, NEW held, NEW written, NEW rs
  PROVE  StreamOk(j, tip, held, written) /\ WalkOk(j, tip, held, rs)
BY DEF StreamOk, WalkOk, Owed, Streaming

\* At the start the rows are those a provider lists.
LEMMA InitKeeps == Init => BackInv
<1> SUFFICES ASSUME Init PROVE BackInv OBVIOUS
<1>1. /\ chain = First /\ at = First /\ certs = {} /\ reds = {} /\ job = [k \in Kinds |-> Idle]
      /\ rows = [n \in 1 .. Slot(First) |-> ProviderRow(TxOf(Ancestor(First, n)), FALSE)]
  BY DEF Init
<1>2. First \in Blocks /\ Slot(First) \in Nat BY BlockIsSeq, BackfillAssumption DEF Blocks
<1>3. RowsFit
  <2>1. DOMAIN rows = 1 .. Slot(at) BY <1>1
  <2>2. IsList(rows)
    <3>1. rows \in [1 .. Slot(at) -> Range(rows)] /\ Slot(at) \in Nat BY <1>1, <1>2 DEF Range
    <3>2. \A S, n : n \in Nat => [1 .. n -> S] \subseteq Seq(S) OBVIOUS
    <3> QED BY <3>1, <3>2 DEF IsList
  <2>3. ASSUME NEW n \in 1 .. Slot(at) PROVE RowOk(rows[n], TxOf(Ancestor(at, n)))
    <3>1. Ancestor(at, n) \in Crawled BY <1>1, <1>2, LineFacts
    <3>2. TxOk(TxOf(Ancestor(at, n))) BY <3>1, TxFacts
    <3>3. rows[n] = ProviderRow(TxOf(Ancestor(at, n)), FALSE) BY <1>1
    <3> QED BY <3>2, <3>3, NewRowsOk
  <2> QED BY <2>1, <2>2, <2>3 DEF RowsFit
<1>4. NoOrphanRows BY <1>1 DEF NoOrphanRows
<1>5. job \in [Kinds -> Range(job)] BY <1>1 DEF Range
<1>6. \A k \in Kinds : job[k] = Idle BY <1>1
<1>7. DOMAIN Idle = {"pc", "owed"} /\ Idle.pc = "none" /\ Idle.owed = {} BY DEF Idle
<1>8. \A k \in Streams : StreamOk(job[k], chain, Held, WrittenBlocks(k))
  BY <1>6, <1>7, NothingOwed DEF Kinds
<1>9. WalkOk(job["credentials"], chain, Held, rows) BY <1>6, <1>7, NothingOwed DEF Kinds
<1> QED BY <1>1, <1>2, <1>3, <1>4, <1>5, <1>8, <1>9 DEF BackInv

\* The process dies.
LEMMA CrashKeeps == BackInv /\ Crash => BackInv'
<1> SUFFICES ASSUME BackInv, Crash PROVE BackInv' OBVIOUS
<1>1. rows' = rows /\ certs' = certs /\ reds' = reds /\ at' = at /\ chain' = chain /\ Held' = Held
  BY DEF Crash, stored, Held
<1>2. job' = [k \in Kinds |-> Idle] BY DEF Crash
<1>3. RowsFit' /\ NoOrphanRows' BY <1>1 DEF BackInv, RowsFit, NoOrphanRows
<1>4. job' \in [Kinds -> Range(job')] BY <1>2 DEF Range
<1>5. \A k \in Kinds : job'[k] = Idle BY <1>2
<1>6. DOMAIN Idle = {"pc", "owed"} /\ Idle.pc = "none" /\ Idle.owed = {} BY DEF Idle
<1>7. \A k \in Streams : StreamOk(job'[k], chain', Held', WrittenBlocks(k)')
  BY <1>5, <1>6, NothingOwed DEF Kinds
<1>8. WalkOk(job'["credentials"], chain', Held', rows') BY <1>5, <1>6, NothingOwed DEF Kinds
<1> QED BY <1>1, <1>3, <1>4, <1>7, <1>8 DEF BackInv

--------------------------------------------------------------------------------
(* The streams.                                                            *)

\* What the invariant says of a stream that has begun.
LEMMA StreamFacts ==
  ASSUME BackInv, NEW k \in Streams
  PROVE  /\ StreamOk(job[k], chain, Held, WrittenBlocks(k)) /\ k \in Kinds
         /\ chain \in Blocks /\ at \in Blocks /\ Slot(at) \in Nat /\ Slot(chain) \in Nat
         /\ \A b \in Held : b \in Blocks /\ Slot(b) \in 1 .. Slot(at)
         /\ \A b \in Blocks : Slot(b) \in Nat
         /\ \A b \in job[k].owed : b \in Held /\ b \in Blocks /\ IsAncestor(b, chain)
<1>1. StreamOk(job[k], chain, Held, WrittenBlocks(k)) /\ chain \in Blocks /\ at \in Blocks BY DEF BackInv
<1>2. \A b \in Blocks : Slot(b) \in Nat BY BlockIsSeq, BackfillAssumption
<1>3. \A b \in Held : b \in Blocks /\ Slot(b) \in 1 .. Slot(at) BY <1>1, LineFacts DEF Held
<1> QED BY <1>1, <1>2, <1>3 DEF StreamOk, Owed, Kinds

\* A stream that breaks, or is refused.
LEMMA FailedKeeps ==
  ASSUME BackInv, NEW k \in Kinds, Failed(k), UNCHANGED <<chain, at, stored>>
  PROVE  BackInv'
<1> DEFINE j == [pc |-> "failed", owed |-> {}]
<1>1. Goes(k, j) BY DEF Failed
<1>2. DOMAIN j = {"pc", "owed"} /\ j.pc = "failed" /\ j.owed = {} OBVIOUS
<1> HIDE DEF j
<1>3. CASE k \in Streams
  <2>1. StreamOk(j, chain, Held, WrittenBlocks(k)) BY <1>2, NothingOwed
  <2> QED BY <1>1, <1>3, <2>1, StreamMoves
<1>4. CASE k = "credentials"
  <2>1. WalkOk(j, chain, Held, rows) BY <1>2, NothingOwed
  <2> QED BY <1>1, <1>4, <2>1, WalkMoves
<1> QED BY <1>3, <1>4 DEF Kinds

\* A stream that begins owes the crawled blocks of its range.
LEMMA StartStreamKeeps ==
  ASSUME BackInv, NEW k \in Kinds, StartStream(k)
  PROVE  BackInv'
<1>1. k \in Streams /\ UNCHANGED <<chain, at, stored>> BY DEF StartStream
<1>2. PICK r \in Ranges :
        Goes(k, [pc |-> "intersect", from |-> r[1], to |-> r[2], pos |-> Start, pending |-> <<>>,
                 owed |-> {b \in Held : SlotOf(b) \in r[1] .. r[2] /\ IsAncestor(b, chain)}])
  BY DEF StartStream
<1>3. r[1] \in Nat /\ r[2] \in Nat BY BackfillAssumption
<1> DEFINE owed == {b \in Held : SlotOf(b) \in r[1] .. r[2] /\ IsAncestor(b, chain)}
           j == [pc |-> "intersect", from |-> r[1], to |-> r[2], pos |-> Start, pending |-> <<>>, owed |-> owed]
<1>4. \A b \in owed : b \in Held /\ SlotOf(b) \in r[1] .. r[2] /\ IsAncestor(b, chain) OBVIOUS
<1> HIDE DEF owed
<1>5. StreamOk(j, chain, Held, WrittenBlocks(k))
  BY <1>3, <1>4, StartIsBlock DEF StreamOk, Owed, StreamFields, Streaming
<1> HIDE DEF j
<1>6. Goes(k, j) BY <1>2 DEF j, owed
<1> QED BY <1>1, <1>5, <1>6, StreamMoves

\* It begins below its range.
LEMMA IntersectKeeps ==
  ASSUME BackInv, NEW k \in Kinds, Intersect(k)
  PROVE  BackInv'
<1> DEFINE below == {n \in 1 .. Slot(at) : 2 * n < job[k].from}
           height == IF below = {} THEN 0 ELSE CHOOSE n \in below : \A m \in below : m <= n
           start == Ancestor(at, height)
<1>1. /\ k \in Streams /\ job[k].pc = "intersect" /\ UNCHANGED <<chain, at, stored>>
      /\ Goes(k, [job[k] EXCEPT !.pc = "connect", !.pos = start])
  BY DEF Intersect, At
<1>2. /\ StreamOk(job[k], chain, Held, WrittenBlocks(k)) /\ at \in Blocks /\ Slot(at) \in Nat
      /\ \A b \in job[k].owed : b \in Held /\ b \in Blocks /\ Slot(b) \in Nat
      /\ \A b \in Held : Slot(b) \in 1 .. Slot(at)
  BY <1>1, StreamFacts
<1>3. /\ DOMAIN job[k] = StreamFields /\ job[k].from \in Nat /\ job[k].pending = <<>>
      /\ \A b \in job[k].owed : SlotOf(b) \in job[k].from .. job[k].to
  BY <1>1, <1>2 DEF StreamOk
<1>4. height \in 0 .. Slot(at) /\ (height = 0 \/ 2 * height < job[k].from)
  <2>1. CASE below = {} BY <1>2, <2>1
  <2>2. CASE below # {}
    <3>1. below \in SUBSET (0 .. Slot(at)) OBVIOUS
    <3>2. height = CHOOSE n \in below : \A m \in below : m <= n BY <2>2
    <3>3. height \in below
      <4> HIDE DEF below, height
      <4>1. \E n \in below : \A m \in below : m <= n BY <1>2, <2>2, <3>1, GreatestNumber
      <4> QED BY <3>2, <4>1
    <3> HIDE DEF height
    <3> QED BY <1>2, <3>3
  <2> QED BY <2>1, <2>2
<1> HIDE DEF height
<1>5. start \in Blocks /\ Slot(start) = height BY <1>2, <1>4, AncestorIsAncestor
<1> HIDE DEF start
<1>6. \A b \in job[k].owed : Slot(start) < Slot(b)
  BY <1>2, <1>3, <1>4, <1>5 DEF SlotOf
<1> DEFINE j == [job[k] EXCEPT !.pc = "connect", !.pos = start]
<1>7. /\ DOMAIN j = StreamFields /\ j.pc = "connect" /\ j.pos = start /\ j.from = job[k].from /\ j.to = job[k].to
      /\ j.pending = job[k].pending /\ j.owed = job[k].owed
  BY <1>3 DEF StreamFields
<1>8. Goes(k, j) BY <1>1
<1> HIDE DEF j
<1>9. StreamOk(j, chain, Held, WrittenBlocks(k))
  BY <1>1, <1>2, <1>3, <1>5, <1>6, <1>7 DEF StreamOk, Owed, StreamFields, Streaming
<1> QED BY <1>1, <1>8, <1>9, StreamMoves

\* Where it begins, nothing is collected and nothing is owed before.
LEMMA ConnectKeeps ==
  ASSUME BackInv, NEW k \in Kinds, Connect(k)
  PROVE  BackInv'
<1>1. k \in Streams /\ job[k].pc = "connect" /\ UNCHANGED <<chain, at, stored>> BY DEF Connect, At
<1>2. CASE Failed(k) BY <1>1, <1>2, FailedKeeps
<1>3. CASE Goes(k, [job[k] EXCEPT !.pc = "stream"])
  <2> DEFINE j == [job[k] EXCEPT !.pc = "stream"]
  <2>1. StreamOk(job[k], chain, Held, WrittenBlocks(k)) /\ (\A b \in Blocks : Slot(b) \in Nat)
        /\ \A b \in job[k].owed : b \in Blocks
    BY <1>1, StreamFacts
  <2>2. /\ DOMAIN j = StreamFields /\ j.pc = "stream" /\ j.pos = job[k].pos /\ j.from = job[k].from
        /\ j.to = job[k].to /\ j.pending = job[k].pending /\ j.owed = job[k].owed
    BY <1>1, <2>1 DEF StreamOk, StreamFields
  <2>3. Goes(k, j) BY <1>3
  <2> HIDE DEF j
  <2>4. j.pending = <<>> /\ Range(<<>>) = {} BY <1>1, <2>1, <2>2 DEF StreamOk, Range
  <2>5. j.pos \in Blocks /\ \A b \in j.owed : Slot(j.pos) < Slot(b) BY <1>1, <2>1, <2>2 DEF StreamOk
  <2>6. Reached(j, WrittenBlocks(k)) BY <2>1, <2>2, <2>5 DEF Reached
  <2>7. Collected(j) BY <2>4 DEF Collected
  <2>8. StreamOk(j, chain, Held, WrittenBlocks(k))
    BY <1>1, <2>1, <2>2, <2>6, <2>7 DEF StreamOk, Owed, StreamFields, Streaming
  <2> QED BY <1>1, <2>3, <2>8, StreamMoves
<1> QED BY <1>2, <1>3 DEF Connect

\* The ends of a batch, and those of a longer one.
LEMMA BatchEnds ==
  ASSUME NEW s \in Seq(Blocks), NEW b \in Blocks
  PROVE  /\ Append(s, b) \in Seq(Blocks) /\ Range(Append(s, b)) = Range(s) \cup {b}
         /\ Last(Append(s, b)) = b /\ Range(s) \subseteq Blocks
         /\ Range(s) # {} => Head(Append(s, b)) = Head(s) /\ Head(s) \in Range(s) /\ Last(s) \in Range(s)
         /\ Range(s) = {} => Head(Append(s, b)) = b
<1> DEFINE q == Append(s, b)
<1>1. /\ q \in Seq(Blocks) /\ Len(q) = Len(s) + 1 /\ Len(s) \in Nat
      /\ DOMAIN s = 1 .. Len(s) /\ DOMAIN q = 1 .. Len(s) + 1
      /\ \A i \in 1 .. Len(s) : q[i] = s[i] /\ s[i] \in Blocks
      /\ q[Len(s) + 1] = b
  OBVIOUS
<1> HIDE DEF q
<1>2. Head(q) = q[1] /\ Head(s) = s[1] BY DEF Head
<1>3. Last(q) = b /\ Last(s) = s[Len(s)] BY <1>1 DEF Last
<1>4. Range(q) = Range(s) \cup {b}
  <2>1. \A i \in DOMAIN q : i \in DOMAIN s \/ i = Len(s) + 1 BY <1>1
  <2>2. Len(s) + 1 \in DOMAIN q /\ \A i \in DOMAIN s : i \in DOMAIN q BY <1>1
  <2> QED BY <1>1, <2>1, <2>2 DEF Range
<1>5. CASE Len(s) = 0
  <2>1. Range(s) = {} BY <1>1, <1>5 DEF Range
  <2> QED BY <1>1, <1>2, <1>3, <1>4, <1>5, <2>1 DEF q
<1>6. CASE Len(s) # 0
  <2>1. 1 \in DOMAIN s /\ Len(s) \in DOMAIN s BY <1>1, <1>6
  <2>2. Range(s) \subseteq Blocks /\ s[1] \in Range(s) /\ s[Len(s)] \in Range(s) BY <1>1, <2>1 DEF Range
  <2> QED BY <1>1, <1>2, <1>3, <1>4, <2>1, <2>2 DEF q
<1> QED BY <1>5, <1>6

\* The stream takes the next block of the chain.
LEMMA RollForwardKeeps ==
  ASSUME BackInv, NEW k \in Kinds, RollForward(k)
  PROVE  BackInv'
<1> DEFINE j == job[k]
           b == Next1(j.pos)
           pc == IF Len(Append(j.pending, b)) >= BatchBlocks THEN "flush"
                 ELSE IF SlotOf(b) = j.to THEN "settled" ELSE j.pc
           past == [j EXCEPT !.pc = "settled"]
           before == [j EXCEPT !.pos = b]
           in == [j EXCEPT !.pos = b, !.pending = Append(j.pending, b), !.pc = pc]
           written == WrittenBlocks(k)
<1>1. /\ k \in Streams /\ j.pc = "stream" /\ IsAncestor(j.pos, chain) /\ Slot(j.pos) < Slot(chain)
      /\ UNCHANGED <<chain, at, stored>>
  BY DEF RollForward, At
<1>2. \/ Past(b, j) /\ Goes(k, past)
      \/ SlotOf(b) < j.from /\ Goes(k, before)
      \/ Goes(k, in)
  BY DEF RollForward
<1>3. /\ StreamOk(j, chain, Held, written) /\ chain \in Blocks
      /\ \A x \in Blocks : Slot(x) \in Nat
      /\ \A x \in j.owed : x \in Blocks /\ IsAncestor(x, chain)
  BY <1>1, StreamFacts
<1>4. /\ DOMAIN j = StreamFields /\ j.from \in Nat /\ j.to \in Nat /\ j.pos \in Blocks /\ j.pending \in Seq(Blocks)
      /\ \A x \in j.owed : SlotOf(x) \in j.from .. j.to
      /\ Reached(j, written) /\ Collected(j) /\ Owed(j, chain, Held)
  BY <1>1, <1>3 DEF StreamOk, Streaming
<1>5. b \in Blocks /\ Slot(b) = Slot(j.pos) + 1 /\ IsAncestor(j.pos, b) /\ IsAncestor(b, chain)
  BY <1>1, <1>3, <1>4, NextBlock DEF Next1
<1>6. Slot(b) \in Nat /\ Slot(j.pos) \in Nat BY <1>3, <1>4, <1>5
<1>7. CASE Past(b, j) /\ Goes(k, past)
  <2>1. /\ DOMAIN past = StreamFields /\ past.pc = "settled" /\ past.pos = j.pos /\ past.from = j.from
        /\ past.to = j.to /\ past.pending = j.pending /\ past.owed = j.owed
    BY <1>4 DEF StreamFields
  <2> HIDE DEF past, j, b
  <2>2. ASSUME NEW x \in j.owed PROVE Slot(x) <= Slot(j.pos)
    BY <1>3, <1>4, <1>5, <1>6, <1>7 DEF Past, SlotOf
  <2>3. Reached(past, written) /\ Collected(past) /\ Owed(past, chain, Held)
    BY <1>4, <2>1 DEF Reached, Collected, Owed
  <2>4. StreamOk(past, chain, Held, written)
    BY <1>4, <2>1, <2>2, <2>3 DEF StreamOk, StreamFields, Streaming
  <2> QED BY <1>1, <1>7, <2>4, StreamMoves
<1>8. CASE SlotOf(b) < j.from /\ Goes(k, before)
  <2>1. /\ DOMAIN before = StreamFields /\ before.pc = "stream" /\ before.pos = b /\ before.from = j.from
        /\ before.to = j.to /\ before.pending = j.pending /\ before.owed = j.owed
    BY <1>1, <1>4 DEF StreamFields
  <2> HIDE DEF before, j, b
  <2>2. ASSUME NEW x \in j.owed, Slot(x) <= Slot(b)
        PROVE  Slot(x) <= Slot(j.pos) /\ IsAncestor(x, b)
    <3>1. Slot(x) \in Nat /\ SlotOf(x) >= j.from BY <1>3, <1>4 DEF SlotOf
    <3>2. Slot(x) <= Slot(j.pos) BY <1>4, <1>5, <1>6, <1>8, <2>2, <3>1 DEF SlotOf
    <3>3. IsAncestor(x, j.pos) BY <1>4, <3>2 DEF Reached
    <3> QED BY <1>3, <1>4, <1>5, <3>2, <3>3, AncestorOrder
  <2>3. Reached(before, written) BY <1>4, <2>1, <2>2 DEF Reached
  <2>4. Collected(before)
    <3>1. \A x \in j.owed : Slot(x) <= Slot(j.pos) => Slot(x) <= Slot(b) BY <1>3, <1>5, <1>6
    <3> QED BY <1>4, <2>1, <3>1 DEF Collected
  <2>5. StreamOk(before, chain, Held, written)
    BY <1>4, <1>5, <2>1, <2>3, <2>4 DEF StreamOk, StreamFields, Streaming, Owed
  <2> QED BY <1>1, <1>8, <2>5, StreamMoves
<1>9. CASE Goes(k, in)
  <2> DEFINE longer == Append(j.pending, b)
  <2>1. /\ DOMAIN in = StreamFields /\ in.pc = pc /\ in.pos = b /\ in.from = j.from
        /\ in.to = j.to /\ in.pending = longer /\ in.owed = j.owed
    BY <1>4 DEF StreamFields
  <2>2. /\ longer \in Seq(Blocks) /\ Range(longer) = Range(j.pending) \cup {b}
        /\ Last(longer) = b /\ Range(j.pending) \subseteq Blocks
        /\ Range(j.pending) # {} => Head(longer) = Head(j.pending) /\ Head(j.pending) \in Range(j.pending)
        /\ Range(j.pending) = {} => Head(longer) = b
    BY <1>4, <1>5, BatchEnds
  <2>3. pc \in Streaming /\ (pc = "settled" => SlotOf(b) = j.to) BY <1>1 DEF Streaming
  <2> HIDE DEF in, j, b, pc, longer
  <2>4. ASSUME NEW x \in j.owed, Slot(x) <= Slot(b)
        PROVE  IsAncestor(x, b) /\ (x \in Range(longer) \/ x \in written)
    <3>1. Slot(x) \in Nat /\ x \in Blocks BY <1>3
    <3>2. CASE Slot(x) <= Slot(j.pos)
      <4>1. IsAncestor(x, j.pos) /\ (x \in Range(j.pending) \/ x \in written) BY <1>4, <3>2 DEF Reached
      <4> QED BY <1>4, <1>5, <2>2, <3>1, <4>1, AncestorOrder
    <3>3. CASE Slot(x) = Slot(b)
      <4>1. x = b BY <1>3, <1>5, <3>1, <3>3, OnChain
      <4> QED BY <2>2, <3>1, <4>1, AncestorOrder
    <3> QED BY <1>5, <1>6, <2>4, <3>1, <3>2, <3>3
  <2>5. Reached(in, written) BY <2>1, <2>4 DEF Reached
  <2>6. ASSUME NEW h \in Range(longer), NEW x \in j.owed PROVE Slot(x) <= Slot(b) \/ Slot(h) < Slot(x)
    <3>1. Slot(x) \in Nat /\ Slot(h) \in Nat BY <1>3, <1>5, <2>2
    <3>2. CASE h \in Range(j.pending)
      <4>1. Slot(x) <= Slot(j.pos) \/ Slot(h) < Slot(x) BY <1>4, <3>2 DEF Collected
      <4> QED BY <1>5, <1>6, <3>1, <4>1
    <3>3. CASE h = b BY <1>6, <3>1, <3>3
    <3> QED BY <2>2, <3>2, <3>3
  <2>7. ASSUME NEW x \in j.owed \cap Range(longer)
        PROVE  Slot(x) <= Slot(b) /\ Slot(Head(longer)) <= Slot(x) /\ Slot(x) <= Slot(Last(longer))
    <3>1. Slot(x) \in Nat BY <1>3
    <3>2. CASE x \in Range(j.pending)
      <4>1. Slot(x) <= Slot(j.pos) /\ Slot(Head(j.pending)) <= Slot(x) BY <1>4, <3>2 DEF Collected
      <4>2. Head(longer) = Head(j.pending) BY <2>2, <3>2
      <4> QED BY <1>5, <1>6, <2>2, <3>1, <4>1, <4>2
    <3>3. CASE x = b
      <4>1. CASE Range(j.pending) = {} BY <1>6, <2>2, <3>3, <4>1
      <4>2. CASE Range(j.pending) # {}
        <5>1. Head(longer) \in Range(j.pending) BY <2>2, <4>2
        <5>2. Slot(x) <= Slot(j.pos) \/ Slot(Head(longer)) < Slot(x) BY <1>4, <5>1 DEF Collected
        <5>3. Slot(Head(longer)) \in Nat BY <1>3, <2>2, <5>1
        <5> QED BY <1>5, <1>6, <2>2, <3>3, <5>2, <5>3
      <4> QED BY <4>1, <4>2
    <3> QED BY <2>2, <3>2, <3>3
  <2>8. Collected(in) BY <2>1, <2>6, <2>7 DEF Collected
  <2>9. in.pc = "settled" => \A x \in in.owed : Slot(x) <= Slot(in.pos)
    BY <1>3, <1>4, <1>6, <2>1, <2>3 DEF SlotOf
  <2>10. StreamOk(in, chain, Held, written)
    BY <1>4, <1>5, <2>1, <2>2, <2>3, <2>5, <2>8, <2>9 DEF StreamOk, StreamFields, Streaming, Owed
  <2> QED BY <1>1, <1>9, <2>10, StreamMoves
<1> QED BY <1>2, <1>7, <1>8, <1>9

\* A fork switch reaches the stream: what is owed is below the fork, or still to come.
LEMMA RollBackwardKeeps ==
  ASSUME BackInv, NEW k \in Kinds, RollBackward(k)
  PROVE  BackInv'
<1> DEFINE j == job[k]
           fork == CommonAncestor(j.pos, chain)
           back == [j EXCEPT !.pos = fork]
           written == WrittenBlocks(k)
<1>1. k \in Streams /\ j.pc = "stream" /\ UNCHANGED <<chain, at, stored>> /\ Goes(k, back)
  BY DEF RollBackward, At
<1>2. /\ StreamOk(j, chain, Held, written) /\ chain \in Blocks
      /\ \A x \in Blocks : Slot(x) \in Nat
      /\ \A x \in j.owed : x \in Blocks /\ IsAncestor(x, chain)
  BY <1>1, StreamFacts
<1>3. /\ DOMAIN j = StreamFields /\ j.from \in Nat /\ j.to \in Nat /\ j.pos \in Blocks /\ j.pending \in Seq(Blocks)
      /\ \A x \in j.owed : SlotOf(x) \in j.from .. j.to
      /\ Reached(j, written) /\ Collected(j) /\ Owed(j, chain, Held)
  BY <1>1, <1>2 DEF StreamOk, Streaming
<1>4. /\ fork \in Blocks /\ IsAncestor(fork, j.pos)
      /\ \A x \in Blocks : IsAncestor(x, j.pos) /\ IsAncestor(x, chain) => IsAncestor(x, fork)
  BY <1>2, <1>3, ForkPoint
<1>5. /\ DOMAIN back = StreamFields /\ back.pc = "stream" /\ back.pos = fork /\ back.from = j.from
      /\ back.to = j.to /\ back.pending = j.pending /\ back.owed = j.owed
  BY <1>1, <1>3 DEF StreamFields
<1> HIDE DEF back, fork, j
<1>6. Slot(fork) \in Nat /\ Slot(j.pos) \in Nat /\ Slot(fork) <= Slot(j.pos)
  BY <1>2, <1>3, <1>4, AncestorOrder
<1>7. ASSUME NEW x \in j.owed, Slot(x) <= Slot(j.pos) PROVE Slot(x) <= Slot(fork) /\ IsAncestor(x, fork)
  <2>1. IsAncestor(x, j.pos) BY <1>3, <1>7 DEF Reached
  <2> QED BY <1>2, <1>4, <2>1, AncestorOrder
<1>8. Reached(back, written) BY <1>2, <1>3, <1>5, <1>6, <1>7 DEF Reached
<1>9. Collected(back) BY <1>3, <1>5, <1>7 DEF Collected
<1>10. StreamOk(back, chain, Held, written)
  BY <1>3, <1>4, <1>5, <1>8, <1>9 DEF StreamOk, StreamFields, Streaming, Owed
<1> QED BY <1>1, <1>10, StreamMoves

--------------------------------------------------------------------------------
(* Pages of keys.                                                          *)

Keys == Nat \X Nat

\* Keys are in one order.
LEMMA KeyOrder ==
  ASSUME NEW a \in Keys, NEW b \in Keys, NEW c \in Keys
  PROVE  /\ ~Before(a, a) /\ (Before(a, b) /\ Before(b, c) => Before(a, c))
         /\ a = b \/ Before(a, b) \/ Before(b, a)
<1>1. PICK a1 \in Nat, a2 \in Nat : a = <<a1, a2>> BY DEF Keys
<1>2. PICK b1 \in Nat, b2 \in Nat : b = <<b1, b2>> BY DEF Keys
<1>3. PICK c1 \in Nat, c2 \in Nat : c = <<c1, c2>> BY DEF Keys
<1> QED BY <1>1, <1>2, <1>3 DEF Before

\* A key has its rank, and an earlier one a lower rank.
LEMMA KeyRanks ==
  ASSUME NEW A \in SUBSET Keys, IsFiniteSet(A)
  PROVE  /\ Cardinality(A) \in Nat
         /\ \A x \in A : Cardinality({o \in A : Before(o, x)}) \in 0 .. Cardinality(A)
         /\ \A x, y \in A : Before(x, y) =>
              Cardinality({o \in A : Before(o, x)}) < Cardinality({o \in A : Before(o, y)})
<1> DEFINE Below(x) == {o \in A : Before(o, x)}
<1>1. Cardinality(A) \in Nat BY FS_CardinalityType
<1>2. ASSUME NEW x \in A
      PROVE  IsFiniteSet(Below(x)) /\ Cardinality(Below(x)) \in Nat /\ Cardinality(Below(x)) \in 0 .. Cardinality(A)
  <2>1. Below(x) \in SUBSET A OBVIOUS
  <2> HIDE DEF Below
  <2>2. IsFiniteSet(Below(x)) /\ Cardinality(Below(x)) <= Cardinality(A) BY <2>1, FS_Subset
  <2>3. Cardinality(Below(x)) \in Nat BY <2>2, FS_CardinalityType
  <2> QED BY <1>1, <2>2, <2>3
<1>3. ASSUME NEW x \in A, NEW y \in A, Before(x, y) PROVE Cardinality(Below(x)) < Cardinality(Below(y))
  <2>1. Below(x) \in SUBSET Below(y) BY <1>3, KeyOrder
  <2>2. x \in Below(y) /\ x \notin Below(x) BY <1>3, KeyOrder
  <2> HIDE DEF Below
  <2>3. /\ Cardinality(Below(x)) <= Cardinality(Below(y))
        /\ Cardinality(Below(y)) = Cardinality(Below(x)) => Below(y) = Below(x)
    BY <1>2, <2>1, FS_Subset
  <2> QED BY <1>2, <2>2, <2>3
<1> QED BY <1>1, <1>2, <1>3

\* A finite set of keys that is not empty has a first and a last one.
LEMMA FirstAndLast ==
  ASSUME NEW A \in SUBSET Keys, IsFiniteSet(A), NEW B \in SUBSET A, B # {}
  PROVE  /\ \E x \in B : \A o \in B : ~Before(o, x)
         /\ \E x \in B : \A o \in B : ~Before(x, o)
<1> DEFINE Rank(x) == Cardinality({o \in A : Before(o, x)})
           ranks == {Rank(x) : x \in B}
<1>1. /\ Cardinality(A) \in Nat /\ \A x \in A : Rank(x) \in 0 .. Cardinality(A)
      /\ \A x, y \in A : Before(x, y) => Rank(x) < Rank(y)
  BY KeyRanks
<1> HIDE DEF Rank
<1>2. ranks \in SUBSET (0 .. Cardinality(A)) /\ ranks \in SUBSET Nat /\ ranks # {} BY <1>1
<1>3. PICK r \in ranks : \A s \in ranks : r <= s
  <2> HIDE DEF ranks
  <2> QED BY <1>2, LeastNumber
<1>4. PICK t \in ranks : \A s \in ranks : s <= t
  <2> HIDE DEF ranks
  <2> QED BY <1>1, <1>2, GreatestNumber
<1>5. PICK x \in B : r = Rank(x) BY <1>3
<1>6. PICK z \in B : t = Rank(z) BY <1>4
<1>7. \A o \in B : Rank(o) \in Nat /\ r <= Rank(o) /\ Rank(o) <= t BY <1>1, <1>3, <1>4
<1>8. \A o \in B : ~Before(o, x) BY <1>1, <1>5, <1>7
<1>9. \A o \in B : ~Before(z, o) BY <1>1, <1>6, <1>7
<1> QED BY <1>8, <1>9

PageOf(A) == {x \in A : Cardinality({o \in A : Before(o, x)}) < ChunkSize}

\* A page is the first keys of a set, as many as it takes or all of them.
LEMMA PageFacts ==
  ASSUME NEW A \in SUBSET Keys, IsFiniteSet(A), NEW page, page = PageOf(A)
  PROVE  /\ page \subseteq A /\ IsFiniteSet(page)
         /\ A # {} => page # {}
         /\ \A x \in A \ page, p \in page : Before(p, x)
         /\ Cardinality(page) = ChunkSize \/ page = A
<1> DEFINE Below(x) == {o \in A : Before(o, x)}
           Rank(x) == Cardinality(Below(x))
<1>1. /\ Cardinality(A) \in Nat /\ \A x \in A : Rank(x) \in Nat
      /\ \A x, y \in A : Before(x, y) => Rank(x) < Rank(y)
  BY KeyRanks
<1>2. page = {x \in A : Rank(x) < ChunkSize} BY DEF PageOf
<1>3. \A x, o \in A : o \in Below(x) <=> Before(o, x) OBVIOUS
<1>4. \A x \in A : Below(x) \in SUBSET A OBVIOUS
<1>5. ChunkSize \in Nat \ {0} BY BackfillAssumption
<1> HIDE DEF Below
<1>6. \A x \in A : IsFiniteSet(Below(x)) BY <1>4, FS_Subset
<1>7. page \in SUBSET A BY <1>2
<1>8. IsFiniteSet(page) BY <1>7, FS_Subset
<1>9. A # {} => page # {}
  <2>1. ASSUME A # {} PROVE page # {}
    <3>1. PICK x \in A : \A o \in A : ~Before(o, x)
      <4>1. A \in SUBSET A OBVIOUS
      <4> QED BY <2>1, <4>1, FirstAndLast
    <3>2. Below(x) = {} BY <1>3, <1>4, <3>1
    <3>3. Rank(x) = 0 BY <3>2, FS_EmptySet
    <3> HIDE DEF Rank
    <3>4. Rank(x) < ChunkSize BY <1>5, <3>3
    <3>5. x \in page BY <1>2, <3>1, <3>4
    <3> QED BY <3>5
  <2> QED BY <2>1
<1>10. ASSUME NEW x \in A \ page, NEW p \in page PROVE Before(p, x)
  <2>1. p \in A /\ p # x /\ Rank(p) < ChunkSize /\ ~(Rank(x) < ChunkSize) BY <1>2
  <2>2. Rank(p) \in Nat /\ Rank(x) \in Nat /\ (Before(x, p) => Rank(x) < Rank(p)) BY <1>1, <2>1
  <2> HIDE DEF Rank
  <2>3. ~Before(x, p) BY <1>5, <2>1, <2>2
  <2> QED BY <2>1, <2>3, KeyOrder
<1>11. ASSUME page # A PROVE Cardinality(page) = ChunkSize
  <2>1. A \ page \in SUBSET A /\ A \ page # {} BY <1>7, <1>11
  <2>2. PICK x \in A \ page : \A o \in A \ page : ~Before(o, x)
    <3> DEFINE rest == A \ page
    <3> HIDE DEF rest
    <3>1. rest \in SUBSET A /\ rest # {} BY <2>1 DEF rest
    <3>2. \E x \in rest : \A o \in rest : ~Before(o, x) BY <3>1, FirstAndLast
    <3> QED BY <3>2 DEF rest
  <2>3. Below(x) = page BY <1>3, <1>4, <1>7, <1>10, <2>2
  <2>4. ~(Cardinality(page) < ChunkSize) /\ Cardinality(page) \in Nat BY <1>1, <1>2, <2>2, <2>3
  <2>5. page # {} BY <1>9, <2>2
  <2>6. PICK p \in page : \A o \in page : ~Before(p, o) BY <1>7, <2>5, FirstAndLast
  <2>7. p \in A /\ Rank(p) < ChunkSize /\ Rank(p) \in Nat BY <1>1, <1>2, <2>6
  <2>8. page \subseteq Below(p) \cup {p} BY <1>3, <1>7, <2>6, KeyOrder
  <2>9. Below(p) \subseteq page
    <3>1. ASSUME NEW o \in Below(p) PROVE o \in page
      <4>1. o \in A /\ Before(o, p) BY <1>3, <1>4, <2>7
      <4>2. Rank(o) \in Nat /\ Rank(o) < Rank(p) BY <1>1, <2>7, <4>1
      <4> HIDE DEF Rank
      <4> QED BY <1>2, <1>5, <2>7, <4>1, <4>2
    <3> QED BY <3>1
  <2>10. page = Below(p) \cup {p} BY <2>6, <2>8, <2>9
  <2>11. p \notin Below(p) BY <1>3, <2>7, KeyOrder
  <2>12. Cardinality(page) = Rank(p) + 1 BY <1>6, <2>7, <2>10, <2>11, FS_AddElement
  <2> DEFINE size == Cardinality(page)
             rank == Rank(p)
  <2>13. size \in Nat /\ rank \in Nat /\ size = rank + 1 /\ rank < ChunkSize /\ ~(size < ChunkSize)
    BY <2>4, <2>7, <2>12
  <2> HIDE DEF size, rank
  <2>14. size = ChunkSize BY <1>5, <2>13
  <2> QED BY <2>14 DEF size
<1> QED BY <1>7, <1>8, <1>9, <1>10, <1>11

--------------------------------------------------------------------------------
(* The walk over the outputs.                                              *)

\* What the invariant says of the rows.
LEMMA RowFacts ==
  ASSUME BackInv
  PROVE  /\ at \in Blocks /\ Slot(at) \in Nat /\ IsList(rows) /\ DOMAIN rows = 1 .. Slot(at)
         /\ \A n \in 1 .. Slot(at) :
              /\ Ancestor(at, n) \in Held /\ Slot(Ancestor(at, n)) = n
              /\ TxOk(TxOf(Ancestor(at, n))) /\ RowOk(rows[n], TxOf(Ancestor(at, n)))
              /\ rows[n].outs \subseteq Nat /\ IsFiniteSet(rows[n].outs) /\ rows[n].cred \subseteq rows[n].outs
         /\ \A b \in Held : Slot(b) \in 1 .. Slot(at) /\ b = Ancestor(at, Slot(b))
<1>1. at \in Blocks /\ Slot(at) \in Nat BY BlockIsSeq, BackfillAssumption DEF BackInv
<1>2. IsList(rows) /\ DOMAIN rows = 1 .. Slot(at) BY DEF BackInv, RowsFit
<1>3. \A b \in Held : Slot(b) \in 1 .. Slot(at) /\ b = Ancestor(at, Slot(b)) BY <1>1, LineFacts DEF Held
<1>4. ASSUME NEW n \in 1 .. Slot(at)
      PROVE  /\ Ancestor(at, n) \in Held /\ Slot(Ancestor(at, n)) = n
             /\ TxOk(TxOf(Ancestor(at, n))) /\ RowOk(rows[n], TxOf(Ancestor(at, n)))
             /\ rows[n].outs \subseteq Nat /\ IsFiniteSet(rows[n].outs) /\ rows[n].cred \subseteq rows[n].outs
  <2> DEFINE b == Ancestor(at, n)
             tx == TxOf(b)
  <2>1. b \in Held /\ Slot(b) = n /\ b \in Crawled BY <1>1, LineFacts DEF Held
  <2> HIDE DEF b
  <2>2. TxOk(tx) BY <2>1, TxFacts
  <2>3. RowOk(rows[n], tx) BY DEF BackInv, RowsFit, b
  <2> HIDE DEF tx
  <2>4. /\ rows[n].outs \subseteq tx.outs \cup tx.extra /\ rows[n].cred \subseteq rows[n].outs
        /\ IsFiniteSet(tx.outs \cup tx.extra) /\ tx.outs \cup tx.extra \subseteq Nat
    BY <2>2, <2>3 DEF RowOk, TxOk
  <2>5. IsFiniteSet(rows[n].outs) BY <2>4, FS_Subset
  <2> QED BY <2>1, <2>2, <2>3, <2>4, <2>5 DEF b, tx
<1> QED BY <1>1, <1>2, <1>3, <1>4

\* The keys after a cursor.
LEMMA AfterFacts ==
  ASSUME BackInv, NEW j
  PROVE  /\ After(j) \in SUBSET Keys /\ IsFiniteSet(After(j))
         /\ \A n \in 1 .. Slot(at), o \in Nat : <<n, o>> \in After(j) <=>
              o \in rows[n].outs /\ IF j.within THEN n = j.first /\ o > j.second ELSE n > j.first
         /\ \A x \in After(j) : IF j.within THEN x[1] = j.first ELSE x[1] > j.first
<1> DEFINE all == UNION {{n} \X rows[n].outs : n \in DOMAIN rows}
           parts == {{n} \X rows[n].outs : n \in 1 .. Slot(at)}
           f == [n \in 1 .. Slot(at) |-> {n} \X rows[n].outs]
<1>1. /\ Slot(at) \in Nat /\ DOMAIN rows = 1 .. Slot(at)
      /\ \A n \in 1 .. Slot(at) : rows[n].outs \subseteq Nat /\ IsFiniteSet(rows[n].outs)
  BY RowFacts
<1>2. all = UNION parts BY <1>1
<1>3. IsFiniteSet(parts)
  <2>1. f \in Surjection(1 .. Slot(at), parts) BY DEF Surjection
  <2>2. IsFiniteSet(1 .. Slot(at)) BY <1>1, FS_Interval
  <2> HIDE DEF f, parts
  <2> QED BY <2>1, <2>2, FS_Surjection
<1>4. \A T \in parts : IsFiniteSet(T)
  <2>1. ASSUME NEW n \in 1 .. Slot(at) PROVE IsFiniteSet({n} \X rows[n].outs)
    <3> DEFINE outs == rows[n].outs
    <3>1. IsFiniteSet({n}) /\ IsFiniteSet(outs) BY <1>1, FS_Singleton
    <3> HIDE DEF outs
    <3>2. IsFiniteSet({n} \X outs) BY <3>1, FS_Product
    <3> QED BY <3>2 DEF outs
  <2> QED BY <2>1
<1>5. IsFiniteSet(all)
  <2> HIDE DEF parts
  <2>1. IsFiniteSet(UNION parts) BY <1>3, <1>4, FS_UNION
  <2> QED BY <1>2, <2>1
<1>6. all \subseteq Keys
  <2>1. \A n \in 1 .. Slot(at) : {n} \X rows[n].outs \subseteq Keys BY <1>1 DEF Keys
  <2> QED BY <1>2, <2>1
<1>7. \A n \in 1 .. Slot(at), o \in Nat : <<n, o>> \in all <=> o \in rows[n].outs BY <1>1
<1>8. After(j) = {x \in all : IF j.within THEN x[1] = j.first /\ x[2] > j.second ELSE x[1] > j.first}
  BY DEF After
<1> HIDE DEF all
<1>9. After(j) \in SUBSET all BY <1>8
<1>10. IsFiniteSet(After(j)) BY <1>5, <1>9, FS_Subset
<1>11. After(j) \in SUBSET Keys BY <1>6, <1>9
<1>12. \A n \in 1 .. Slot(at), o \in Nat : <<n, o>> \in After(j) <=>
         o \in rows[n].outs /\ IF j.within THEN n = j.first /\ o > j.second ELSE n > j.first
  BY <1>7, <1>8
<1>13. \A x \in After(j) : IF j.within THEN x[1] = j.first ELSE x[1] > j.first BY <1>8
<1> QED BY <1>10, <1>11, <1>12, <1>13

\* A walk that begins owes every crawled block.
LEMMA StartWalkKeeps == BackInv /\ StartWalk => BackInv'
<1> SUFFICES ASSUME BackInv, StartWalk PROVE BackInv' OBVIOUS
<1> DEFINE owed == {b \in Held : IsAncestor(b, chain)}
           j == [pc |-> "walk", first |-> 0, second |-> 0, within |-> FALSE, owed |-> owed]
<1>1. Goes("credentials", j) /\ UNCHANGED <<chain, at, stored>> BY DEF StartWalk
<1>2. Owed(j, chain, Held) BY DEF Owed
<1>3. \A b \in owed : Slot(b) \in Nat /\ Slot(b) > 0 BY RowFacts
<1> HIDE DEF owed
<1>4. \A b \in owed : \A o : Ahead(j, Slot(b), o) BY <1>3 DEF Ahead
<1>5. WalkOk(j, chain, Held, rows) BY <1>2, <1>4 DEF WalkOk, WalkFields
<1> HIDE DEF j
<1> QED BY <1>1, <1>5, WalkMoves

\* A page that is written: the credentials of its outputs.
LEMMA RowsCredited ==
  ASSUME BackInv, NEW ready, UNCHANGED <<chain, at, certs, reds>>,
         rows' = [n \in DOMAIN rows |-> [rows[n] EXCEPT !.cred = @ \cup {i \in rows[n].outs : <<n, i>> \in ready}]],
         NEW j, Goes("credentials", j), WalkOk(j, chain, Held, rows')
  PROVE  BackInv'
<1> DEFINE more(n) == {i \in rows[n].outs : <<n, i>> \in ready}
<1>1. /\ IsList(rows) /\ DOMAIN rows = 1 .. Slot(at) /\ at \in Blocks /\ Held' = Held
      /\ \A n \in 1 .. Slot(at) : RowOk(rows[n], TxOf(Ancestor(at, n)))
      /\ \A b \in Held : Slot(b) \in 1 .. Slot(at) /\ b = Ancestor(at, Slot(b))
  BY RowFacts DEF Held
<1>2. DOMAIN rows' = 1 .. Slot(at) /\ rows' = [n \in DOMAIN rows |-> rows'[n]]
      /\ \A n \in 1 .. Slot(at) : rows'[n] = [rows[n] EXCEPT !.cred = @ \cup more(n)] /\ more(n) \subseteq rows[n].outs
  BY <1>1
<1> HIDE DEF more
<1>3. \A n \in 1 .. Slot(at) :
        /\ RowOk(rows'[n], TxOf(Ancestor(at, n)))
        /\ Completed(rows[n], TxOf(Ancestor(at, n))) = rows[n] => Completed(rows'[n], TxOf(Ancestor(at, n))) = rows'[n]
  <2>1. ASSUME NEW n \in 1 .. Slot(at)
        PROVE  /\ RowOk(rows'[n], TxOf(Ancestor(at, n)))
               /\ Completed(rows[n], TxOf(Ancestor(at, n))) = rows[n] =>
                    Completed(rows'[n], TxOf(Ancestor(at, n))) = rows'[n]
    <3>1. PICK row, add, tx, q : row = rows[n] /\ add = more(n) /\ tx = TxOf(Ancestor(at, n)) /\ q = rows'[n]
      OBVIOUS
    <3>2. RowOk(row, tx) /\ add \subseteq row.outs /\ q = [ins |-> row.ins, outs |-> row.outs, cred |-> row.cred \cup add]
      BY <1>1, <1>2, <3>1 DEF RowOk
    <3>3. RowOk(q, tx) /\ (Completed(row, tx) = row => Completed(q, tx) = q) BY ONLY <3>2, CreditedStays
    <3> QED BY <3>1, <3>3
  <2> QED BY <2>1
<1>4. IsList(rows')
  <2>1. PICK rs : rs = rows' OBVIOUS
  <2>2. rs = [n \in DOMAIN rows |-> rs[n]] BY <1>2, <2>1
  <2>3. IsList(rs) BY <1>1, <2>2, Mapped
  <2> QED BY <2>1, <2>3
<1>5. RowsFit' BY <1>2, <1>3, <1>4 DEF RowsFit
<1>6. NoOrphanRows' BY DEF BackInv, NoOrphanRows, Held
<1>7. "credentials" \in Kinds /\ Streams \subseteq Kinds \ {"credentials"} BY DEF Kinds, Streams
<1>8. /\ job' \in [Kinds -> Range(job')] /\ job'["credentials"] = j
      /\ \A l \in Kinds \ {"credentials"} : job'[l] = job[l]
  BY <1>7, OneJob DEF BackInv
<1>9. ASSUME NEW k \in Streams PROVE StreamOk(job'[k], chain', Held', WrittenBlocks(k)')
  <2>1. StreamOk(job[k], chain, Held, WrittenBlocks(k)) /\ job'[k] = job[k] BY <1>7, <1>8 DEF BackInv
  <2>2. Owed(job'[k], chain', Held') /\ \A b \in job[k].owed : b \in Held BY <1>1, <2>1 DEF StreamOk, Owed
  <2>3. ASSUME NEW b \in Held, b \in WrittenBlocks(k) PROVE b \in WrittenBlocks(k)'
    <3>1. Completed(rows[Slot(b)], TxOf(b)) = rows[Slot(b)] => Completed(rows'[Slot(b)], TxOf(b)) = rows'[Slot(b)]
      BY <1>1, <1>3
    <3> QED BY <1>1, <2>3, <3>1, WrittenStays
  <2> QED BY <2>1, <2>2, <2>3, StreamKept
<1> QED BY <1>1, <1>5, <1>6, <1>8, <1>9 DEF BackInv

\* The last key of a page.
LEMMA LastKeyIs ==
  ASSUME NEW page \in SUBSET Keys, IsFiniteSet(page), page # {}
  PROVE  LastKey(page) \in page /\ \A o \in page : o = LastKey(page) \/ Before(o, LastKey(page))
<1>1. page \in SUBSET page OBVIOUS
<1>2. \E x \in page : \A o \in page : ~Before(x, o) BY <1>1, FirstAndLast
<1>3. LastKey(page) \in page /\ \A o \in page : ~Before(LastKey(page), o) BY <1>2 DEF LastKey
<1> QED BY <1>3, KeyOrder

\* A page brings the cursor to its last key, or to the last transaction it has all
\* the outputs of.
LEMMA Paged ==
  ASSUME NEW A \in SUBSET Keys, IsFiniteSet(A), A # {}, NEW page, page = PageOf(A)
  PROVE  LET last == LastKey(Ready(page))
             full == Cardinality(page) = ChunkSize
         IN /\ page \subseteq A /\ Ready(page) \subseteq page /\ last \in A
            /\ ~full => Ready(page) = A
            /\ \A x \in A \ Ready(page) :
                 x[1] > last[1] \/ (full /\ OneTransaction(page) /\ x[1] = last[1] /\ x[2] > last[2])
<1> DEFINE ready == Ready(page)
           last == LastKey(ready)
           full == Cardinality(page) = ChunkSize
           m == LastKey(page)
<1>1. /\ page \subseteq A /\ IsFiniteSet(page) /\ page # {}
      /\ \A x \in A \ page, p \in page : Before(p, x)
      /\ full \/ page = A
  BY PageFacts
<1> HIDE DEF full
<1>2. \/ full /\ ~OneTransaction(page) /\ ready = {x \in page : x[1] # m[1]}
      \/ (~full \/ OneTransaction(page)) /\ ready = page
  BY DEF Ready, full
<1>3. m \in page /\ \A o \in page : o = m \/ Before(o, m) BY <1>1, LastKeyIs
<1> HIDE DEF m, ready
<1>4. ready \subseteq page /\ ready # {}
  <2>1. CASE ready = page BY <1>1, <2>1
  <2>2. CASE ~OneTransaction(page) /\ ready = {x \in page : x[1] # m[1]}
    <3>1. \E x \in page : x[1] # m[1] BY <2>2 DEF OneTransaction, m
    <3> QED BY <2>2, <3>1
  <2> QED BY <1>2, <2>1, <2>2
<1>5. last \in ready /\ \A o \in ready : o = last \/ Before(o, last)
  <2>1. ready \in SUBSET Keys /\ ready \in SUBSET page BY <1>1, <1>4
  <2>2. IsFiniteSet(ready) BY <1>1, <2>1, FS_Subset
  <2> QED BY <1>4, <2>1, <2>2, LastKeyIs
<1> HIDE DEF last
<1>6. \A x \in A : x[1] \in Nat /\ x[2] \in Nat BY DEF Keys
<1>7. last \in A /\ last \in page /\ m \in A BY <1>1, <1>3, <1>4, <1>5
<1>8. ASSUME NEW x \in A \ ready
      PROVE  x[1] > last[1] \/ (full /\ OneTransaction(page) /\ x[1] = last[1] /\ x[2] > last[2])
  <2>1. CASE ready = page /\ (~full \/ OneTransaction(page))
    <3>1. x \in A \ page BY <1>8, <2>1
    <3>2. full BY <1>1, <3>1
    <3>3. Before(last, x) BY <1>1, <1>7, <3>1
    <3> QED BY <1>6, <1>7, <2>1, <3>2, <3>3 DEF Before
  <2>2. CASE ready = {y \in page : y[1] # m[1]}
    <3>1. last[1] < m[1]
      <4>1. last[1] # m[1] BY <1>5, <2>2
      <4>2. Before(last, m) BY <1>3, <1>7, <4>1
      <4> QED BY <1>6, <1>7, <4>1, <4>2 DEF Before
    <3>2. x[1] = m[1] \/ Before(m, x)
      <4>1. CASE x \in page BY <1>8, <2>2, <4>1
      <4>2. CASE x \notin page BY <1>1, <1>3, <4>2
      <4> QED BY <4>1, <4>2
    <3> QED BY <1>6, <1>7, <3>1, <3>2 DEF Before
  <2> QED BY <1>2, <2>1, <2>2
<1>9. ASSUME ~full PROVE ready = A BY <1>1, <1>2, <1>9
<1> QED BY <1>1, <1>4, <1>7, <1>8, <1>9 DEF ready, last, full

\* A page of the walk.
LEMMA WalkStepKeeps == BackInv /\ WalkStep => BackInv'
<1> SUFFICES ASSUME BackInv, WalkStep PROVE BackInv' OBVIOUS
<1> DEFINE j == job["credentials"]
           page == Page(j)
           ready == Ready(page)
           last == LastKey(ready)
           full == Cardinality(page) = ChunkSize
           A == After(j)
           out == [j EXCEPT !.within = FALSE]
           done == [pc |-> "done", owed |-> j.owed]
           on == [j EXCEPT !.first = last[1], !.second = last[2], !.within = full /\ OneTransaction(page)]
           credited == [n \in DOMAIN rows |->
                          [rows[n] EXCEPT !.cred = @ \cup {i \in rows[n].outs : <<n, i>> \in ready}]]
<1>1. /\ j.pc = "walk" /\ UNCHANGED <<chain, at, certs, reds>>
      /\ \/ page = {} /\ j.within /\ Goes("credentials", out) /\ UNCHANGED rows
         \/ page = {} /\ ~j.within /\ Goes("credentials", done) /\ UNCHANGED rows
         \/ page # {} /\ (full \/ j.within) /\ Goes("credentials", on) /\ rows' = credited
         \/ page # {} /\ ~full /\ ~j.within /\ Goes("credentials", done) /\ rows' = credited
  BY DEF WalkStep, Done
<1>2. /\ WalkOk(j, chain, Held, rows)
      /\ DOMAIN j = WalkFields /\ j.first \in Nat /\ j.second \in Nat /\ j.within \in BOOLEAN
      /\ \A b \in j.owed : \A o \in rows[Slot(b)].outs : o \in rows[Slot(b)].cred \/ Ahead(j, Slot(b), o)
      /\ Owed(j, chain, Held)
  BY <1>1 DEF BackInv, WalkOk
<1>3. /\ DOMAIN rows = 1 .. Slot(at) /\ Slot(at) \in Nat
      /\ \A n \in 1 .. Slot(at) : rows[n].outs \subseteq Nat /\ RowOk(rows[n], TxOf(Ancestor(at, n)))
      /\ \A b \in Held : Slot(b) \in 1 .. Slot(at)
  BY RowFacts
<1>4. /\ A \in SUBSET Keys /\ IsFiniteSet(A)
      /\ \A n \in 1 .. Slot(at), o \in Nat : <<n, o>> \in A <=>
           o \in rows[n].outs /\ IF j.within THEN n = j.first /\ o > j.second ELSE n > j.first
      /\ \A x \in A : IF j.within THEN x[1] = j.first ELSE x[1] > j.first
  BY AfterFacts
<1>5. page = PageOf(A) /\ page \subseteq A BY DEF Page, PageOf
<1>6. \A b \in j.owed : b \in Held /\ Slot(b) \in 1 .. Slot(at) /\ Slot(b) \in Nat BY <1>2, <1>3 DEF Owed
<1> HIDE DEF A, page, j
<1>7. A # {} => page # {} BY <1>4, <1>5, PageFacts
\* What is ahead of the cursor is a key of the walk, or of a later transaction.
<1>8. ASSUME NEW b \in j.owed, NEW o \in rows[Slot(b)].outs, o \notin rows[Slot(b)].cred
      PROVE  /\ o \in Nat
             /\ <<Slot(b), o>> \in A \/ (j.within /\ Slot(b) > j.first)
             /\ j.within => Slot(b) >= j.first
  <2>1. Ahead(j, Slot(b), o) /\ o \in Nat BY <1>2, <1>3, <1>6, <1>8
  <2> QED BY <1>2, <1>4, <1>6, <2>1 DEF Ahead
<1>9. CASE page = {}
  <2>1. A = {} /\ rows' = rows BY <1>1, <1>7, <1>9
  <2>2. CASE j.within /\ Goes("credentials", out)
    <3>1. /\ DOMAIN out = WalkFields /\ out.pc = "walk" /\ out.first = j.first /\ out.second = j.second
          /\ out.within = FALSE /\ out.owed = j.owed
      BY <1>1, <1>2 DEF WalkFields
    <3> HIDE DEF out
    <3>2. \A b \in out.owed : \A o \in rows[Slot(b)].outs : o \in rows[Slot(b)].cred \/ Ahead(out, Slot(b), o)
      BY <1>8, <2>1, <3>1 DEF Ahead
    <3>3. WalkOk(out, chain, Held, rows) BY <1>2, <3>1, <3>2 DEF WalkOk, WalkFields, Owed
    <3> QED BY <1>1, <2>1, <2>2, <3>3, WalkMoves DEF stored
  <2>3. CASE ~j.within /\ Goes("credentials", done)
    <3>1. \A b \in j.owed : rows[Slot(b)].outs \subseteq rows[Slot(b)].cred BY <1>8, <2>1, <2>3
    <3>2. WalkOk(done, chain, Held, rows) BY <1>2, <3>1 DEF WalkOk, Owed
    <3> QED BY <1>1, <2>1, <2>3, <3>2, WalkMoves DEF stored
  <2> QED BY <1>1, <1>9, <2>2, <2>3
<1>10. CASE page # {}
  <2>1. rows' = credited BY <1>1, <1>10
  <2>2. A # {} BY <1>5, <1>10
  <2>3. /\ ready \subseteq A /\ last \in A /\ (~full => ready = A)
        /\ \A x \in A \ ready :
             x[1] > last[1] \/ (full /\ OneTransaction(page) /\ x[1] = last[1] /\ x[2] > last[2])
    BY <1>4, <1>5, <2>2, Paged
  <2>4. last[1] \in Nat /\ last[2] \in Nat /\ (j.within => last[1] = j.first) BY <1>4, <2>3 DEF Keys
  <2> HIDE DEF last, full, ready
  <2>5. \A n \in 1 .. Slot(at) : /\ rows'[n].outs = rows[n].outs
                                 /\ rows'[n].cred = rows[n].cred \cup {i \in rows[n].outs : <<n, i>> \in ready}
    BY <1>3, <2>1 DEF RowOk
  <2>6. ASSUME NEW b \in j.owed, NEW o \in rows'[Slot(b)].outs, o \notin rows'[Slot(b)].cred
        PROVE  /\ o \in Nat /\ (full \/ j.within)
               /\ Slot(b) > last[1] \/ (full /\ OneTransaction(page) /\ Slot(b) = last[1] /\ o > last[2])
    <3>1. /\ o \in rows[Slot(b)].outs /\ o \notin rows[Slot(b)].cred /\ <<Slot(b), o>> \notin ready
      BY <1>6, <2>5, <2>6
    <3>2. CASE j.within /\ Slot(b) > j.first BY <1>3, <1>6, <2>4, <3>1, <3>2
    <3>3. CASE <<Slot(b), o>> \in A
      <4>1. <<Slot(b), o>> \in A \ ready BY <3>1, <3>3
      <4>2. \/ Slot(b) > last[1]
            \/ full /\ OneTransaction(page) /\ Slot(b) = last[1] /\ o > last[2]
        BY <2>3, <4>1
      <4>3. full BY <2>3, <4>1
      <4> QED BY <1>3, <1>6, <3>1, <4>2, <4>3
    <3> QED BY <1>8, <3>1, <3>2, <3>3
  <2>7. CASE (full \/ j.within) /\ Goes("credentials", on)
    <3> DEFINE within == full /\ OneTransaction(page)
    <3>1. /\ DOMAIN on = WalkFields /\ on.pc = "walk" /\ on.first = last[1] /\ on.second = last[2]
          /\ on.within = within /\ on.owed = j.owed
      BY <1>1, <1>2 DEF WalkFields
    <3>2. within \in BOOLEAN BY DEF full, OneTransaction
    <3> HIDE DEF on
    <3>3. \A b \in on.owed : \A o \in rows'[Slot(b)].outs : o \in rows'[Slot(b)].cred \/ Ahead(on, Slot(b), o)
      BY <2>6, <3>1 DEF Ahead
    <3>4. WalkOk(on, chain, Held, rows')
      <4> HIDE DEF within
      <4> QED BY <1>2, <2>4, <3>1, <3>2, <3>3 DEF WalkOk, WalkFields, Owed
    <3> QED BY <1>1, <2>1, <2>7, <3>4, RowsCredited
  <2>8. CASE ~full /\ ~j.within /\ Goes("credentials", done)
    <3>1. \A b \in j.owed : rows'[Slot(b)].outs \subseteq rows'[Slot(b)].cred BY <2>6, <2>8
    <3>2. WalkOk(done, chain, Held, rows') BY <1>2, <3>1 DEF WalkOk, Owed
    <3> QED BY <1>1, <2>1, <2>8, <3>2, RowsCredited
  <2> QED BY <1>1, <1>10, <2>7, <2>8
<1> QED BY <1>9, <1>10

--------------------------------------------------------------------------------
(* Batches.                                                                *)

\* What is written of a batch stays true, whole, and stays.
LEMMA WriteFacts ==
  ASSUME BackInv, at' = at, NEW k \in Streams, NEW W \in SUBSET Held, Write(k, W)
  PROVE  /\ RowsFit' /\ NoOrphanRows'
         /\ \A l \in Streams : \A b \in WrittenBlocks(l) : b \in WrittenBlocks(l)'
         /\ \A b \in W : b \in WrittenBlocks(k)'
         /\ \A b \in Held : /\ rows'[Slot(b)].outs \subseteq rows[Slot(b)].outs
                            /\ rows[Slot(b)].cred \cap rows'[Slot(b)].outs \subseteq rows'[Slot(b)].cred
<1>1. /\ IsList(rows) /\ DOMAIN rows = 1 .. Slot(at) /\ at \in Blocks /\ Held' = Held
      /\ \A n \in 1 .. Slot(at) :
           /\ Ancestor(at, n) \in Held /\ Slot(Ancestor(at, n)) = n
           /\ TxOk(TxOf(Ancestor(at, n))) /\ RowOk(rows[n], TxOf(Ancestor(at, n)))
      /\ \A b \in Held : Slot(b) \in 1 .. Slot(at) /\ b = Ancestor(at, Slot(b))
  BY RowFacts DEF Held
<1>2. Ids(W) \subseteq Ids(Held) /\ Ids(Held') = Ids(Held) /\ certs \cup reds \subseteq Ids(Held)
      /\ (NoOrphanRows' <=> certs' \cup reds' \subseteq Ids(Held)) /\ \A b \in W : TxOf(b).id \in Ids(W)
  BY <1>1 DEF Ids, BackInv, NoOrphanRows
<1>3. CASE k = "certificates"
  <2>1. certs' = certs \cup Ids(W) /\ rows' = rows /\ reds' = reds BY <1>3 DEF Write
  <2>2. RowsFit' BY <2>1 DEF BackInv, RowsFit
  <2>3. NoOrphanRows' BY <1>2, <2>1
  <2>4. \A l \in Streams : \A b \in WrittenBlocks(l) : b \in WrittenBlocks(l)'
    <3>1. \A l \in Streams : \A b \in WrittenBlocks(l) : b \in Held' BY <1>1 DEF WrittenBlocks
    <3> QED BY <1>1, <2>1, <3>1, WrittenStays
  <2>5. \A b \in W : b \in WrittenBlocks(k)'
    <3>1. \A b \in W : b \in Held /\ b \in Held' /\ TxOf(b).id \in certs' BY <1>1, <1>2, <2>1
    <3> QED BY <1>1, <1>3, <3>1, WrittenNow
  <2> QED BY <2>1, <2>2, <2>3, <2>4, <2>5
<1>4. CASE k # "certificates"
  <2>1. /\ reds' = reds \cup Ids(W) /\ certs' = certs
        /\ rows' = [n \in DOMAIN rows |->
                      IF \E b \in W : Slot(b) = n
                      THEN Completed(rows[n], TxOf(CHOOSE b \in W : Slot(b) = n)) ELSE rows[n]]
    BY <1>4 DEF Write
  <2>2. \A b \in W : (CHOOSE x \in W : Slot(x) = Slot(b)) = b
    <3>1. SUFFICES ASSUME NEW b \in W PROVE (CHOOSE x \in W : Slot(x) = Slot(b)) = b OBVIOUS
    <3>2. \A x \in W : Slot(x) = Slot(b) => x = b BY <1>1
    <3> QED BY <3>1, <3>2
  <2>3. ASSUME NEW b \in W PROVE rows'[Slot(b)] = Completed(rows[Slot(b)], TxOf(b))
    <3>1. Slot(b) \in DOMAIN rows BY <1>1
    <3> QED BY <2>1, <2>2, <3>1
  <2>4. ASSUME NEW b \in Held, b \notin W PROVE rows'[Slot(b)] = rows[Slot(b)]
    <3>1. Slot(b) \in DOMAIN rows /\ ~\E x \in W : Slot(x) = Slot(b) BY <1>1, <2>4
    <3> QED BY <2>1, <3>1
  <2>5. ASSUME NEW b \in Held
        PROVE  /\ RowOk(rows'[Slot(b)], TxOf(b))
               /\ b \in W => Completed(rows'[Slot(b)], TxOf(b)) = rows'[Slot(b)]
               /\ Completed(rows[Slot(b)], TxOf(b)) = rows[Slot(b)] =>
                    Completed(rows'[Slot(b)], TxOf(b)) = rows'[Slot(b)]
               /\ rows'[Slot(b)].outs \subseteq rows[Slot(b)].outs
               /\ rows[Slot(b)].cred \cap rows'[Slot(b)].outs \subseteq rows'[Slot(b)].cred
    <3>1. PICK row, tx, new : row = rows[Slot(b)] /\ tx = TxOf(b) /\ new = rows'[Slot(b)] OBVIOUS
    <3>2. RowOk(row, tx) /\ TxOk(tx) BY <1>1, <3>1
    <3>3. CASE b \in W
      <4>1. new = Completed(row, tx) BY <2>3, <3>1, <3>3
      <4>2. RowOk(new, tx) /\ Completed(new, tx) = new /\ new.outs \subseteq row.outs /\ new.cred = row.cred \cap new.outs
        BY <3>2, <4>1, CompletedOk
      <4> QED BY <3>1, <4>2
    <3>4. CASE b \notin W BY <2>4, <3>1, <3>2, <3>4
    <3> QED BY <3>3, <3>4
  <2>6. RowsFit'
    <3>1. DOMAIN rows' = 1 .. Slot(at) /\ rows' = [n \in DOMAIN rows |-> rows'[n]] BY <1>1, <2>1
    <3>2. IsList(rows')
      <4>1. PICK rs : rs = rows' OBVIOUS
      <4>2. rs = [n \in DOMAIN rows |-> rs[n]] BY <3>1, <4>1
      <4>3. IsList(rs) BY <1>1, <4>2, Mapped
      <4> QED BY <4>1, <4>3
    <3>3. \A n \in 1 .. Slot(at) : RowOk(rows'[n], TxOf(Ancestor(at, n))) BY <1>1, <2>5
    <3> QED BY <3>1, <3>2, <3>3 DEF RowsFit
  <2>7. NoOrphanRows' BY <1>2, <2>1
  <2>8. \A l \in Streams : \A b \in WrittenBlocks(l) : b \in WrittenBlocks(l)'
    <3>1. \A l \in Streams : \A b \in WrittenBlocks(l) : b \in Held /\ b \in Held' BY <1>1 DEF WrittenBlocks
    <3> QED BY <1>1, <2>1, <2>5, <3>1, WrittenStays
  <2>9. \A b \in W : b \in WrittenBlocks(k)'
    <3>1. \A b \in W : b \in Held /\ b \in Held' /\ TxOf(b).id \in reds' BY <1>1, <1>2, <2>1
    <3> QED BY <1>1, <1>4, <2>5, <3>1, WrittenNow
  <2> QED BY <2>5, <2>6, <2>7, <2>8, <2>9
<1> QED BY <1>3, <1>4

\* The blocks of a batch that are still owed are among those the index holds.
LEMMA FlushKeeps ==
  ASSUME BackInv, NEW k \in Kinds, Flush(k)
  PROVE  BackInv'
<1> DEFINE j == job[k]
           W == Indexed(j.pending)
           done == [pc |-> "done", owed |-> j.owed]
           pc == IF SlotOf(j.pos) = j.to THEN "settled" ELSE "stream"
           on == [j EXCEPT !.pending = <<>>, !.pc = pc]
<1>1. /\ k \in Streams /\ j.pc \in {"flush", "settled"} /\ chain' = chain /\ at' = at
      /\ IF j.pc = "settled" THEN Goes(k, done) ELSE Goes(k, on)
      /\ IF j.pending = <<>> THEN UNCHANGED stored ELSE Write(k, W)
  BY DEF Flush, Done, Batch
<1>2. /\ StreamOk(j, chain, Held, WrittenBlocks(k)) /\ chain \in Blocks /\ at \in Blocks
      /\ \A x \in Blocks : Slot(x) \in Nat
      /\ \A x \in j.owed : x \in Held /\ x \in Blocks /\ IsAncestor(x, chain)
  BY <1>1, StreamFacts
<1>3. /\ DOMAIN j = StreamFields /\ j.from \in Nat /\ j.to \in Nat /\ j.pos \in Blocks /\ j.pending \in Seq(Blocks)
      /\ \A x \in j.owed : SlotOf(x) \in j.from .. j.to
      /\ Reached(j, WrittenBlocks(k)) /\ Collected(j) /\ Owed(j, chain, Held)
      /\ j.pc = "settled" => \A b \in j.owed : Slot(b) <= Slot(j.pos)
  BY <1>1, <1>2 DEF StreamOk, Streaming
<1>4. Held' = Held BY <1>1 DEF Held
<1>5. ASSUME NEW b \in j.owed \cap Range(j.pending) PROVE b \in W
  <2>1. j.pending # <<>> BY DEF Range
  <2>2. Head(j.pending) \in Blocks /\ Last(j.pending) \in Blocks
    <3>1. Len(j.pending) \in DOMAIN j.pending /\ 1 \in DOMAIN j.pending BY <1>3, <2>1
    <3> QED BY <1>3, <2>1, <3>1 DEF Last
  <2>3. Slot(Head(j.pending)) <= Slot(b) /\ Slot(b) <= Slot(Last(j.pending)) BY <1>3 DEF Collected
  <2>4. SlotOf(b) \in SlotOf(Head(j.pending)) .. SlotOf(Last(j.pending)) BY <1>2, <2>2, <2>3 DEF SlotOf
  <2> QED BY <1>2, <2>4 DEF Indexed
<1>6. W \subseteq Held BY DEF Indexed
<1> HIDE DEF W, j
<1>7. /\ RowsFit' /\ NoOrphanRows'
      /\ \A l \in Streams : \A b \in WrittenBlocks(l) : b \in WrittenBlocks(l)'
      /\ \A b \in j.owed \cap Range(j.pending) : b \in WrittenBlocks(k)'
      /\ \A b \in Held : /\ rows'[Slot(b)].outs \subseteq rows[Slot(b)].outs
                         /\ rows[Slot(b)].cred \cap rows'[Slot(b)].outs \subseteq rows'[Slot(b)].cred
  <2>1. CASE j.pending = <<>>
    <3>1. rows' = rows /\ certs' = certs /\ reds' = reds BY <1>1, <2>1 DEF stored
    <3>2. RowsFit' /\ NoOrphanRows' BY <1>1, <1>4, <3>1 DEF BackInv, RowsFit, NoOrphanRows, Ids
    <3>3. \A l \in Streams : WrittenBlocks(l)' = WrittenBlocks(l) BY <1>1, <3>1, SameWritten DEF stored
    <3>4. Range(j.pending) = {} BY <2>1 DEF Range
    <3> QED BY <3>1, <3>2, <3>3, <3>4
  <2>2. CASE Write(k, W)
    <3>1. PICK S \in SUBSET Held : S = W BY <1>6
    <3>2. Write(k, S) BY <2>2, <3>1
    <3>3. /\ RowsFit' /\ NoOrphanRows'
          /\ \A l \in Streams : \A b \in WrittenBlocks(l) : b \in WrittenBlocks(l)'
          /\ \A b \in S : b \in WrittenBlocks(k)'
          /\ \A b \in Held : /\ rows'[Slot(b)].outs \subseteq rows[Slot(b)].outs
                             /\ rows[Slot(b)].cred \cap rows'[Slot(b)].outs \subseteq rows'[Slot(b)].cred
      BY <1>1, <3>2, WriteFacts
    <3> QED BY <1>5, <3>1, <3>3
  <2> QED BY <1>1, <2>1, <2>2
<1>8. ASSUME NEW b \in j.owed, Slot(b) <= Slot(j.pos) PROVE b \in WrittenBlocks(k)' /\ IsAncestor(b, j.pos)
  BY <1>1, <1>3, <1>7, <1>8 DEF Reached
<1>9. \A i : Goes(k, i) => /\ job' \in [Kinds -> Range(job')] /\ job'[k] = i
                           /\ \A l \in Kinds \ {k} : job'[l] = job[l]
  BY OneJob DEF BackInv
<1>10. ASSUME NEW i, Goes(k, i), StreamOk(i, chain, Held, WrittenBlocks(k)') PROVE BackInv'
  <2>1. Streams \subseteq Kinds /\ "credentials" \in Kinds \ {k} BY <1>1 DEF Kinds, Streams
  <2>2. ASSUME NEW l \in Streams \ {k} PROVE StreamOk(job'[l], chain', Held', WrittenBlocks(l)')
    <3>1. StreamOk(job[l], chain, Held, WrittenBlocks(l)) /\ job'[l] = job[l]
      BY <1>9, <1>10, <2>1 DEF BackInv
    <3>2. Owed(job'[l], chain', Held') BY <1>1, <1>4, <3>1 DEF StreamOk
    <3> QED BY <1>7, <3>1, <3>2, StreamKept
  <2>3. WalkOk(job'["credentials"], chain', Held', rows')
    <3>1. WalkOk(job["credentials"], chain, Held, rows) /\ job'["credentials"] = job["credentials"]
      BY <1>9, <1>10, <2>1 DEF BackInv
    <3>2. Owed(job'["credentials"], chain', Held') /\ \A b \in job["credentials"].owed : b \in Held
      BY <1>1, <1>4, <3>1 DEF WalkOk, Owed
    <3> QED BY <1>7, <3>1, <3>2, WalkKept
  <2>4. StreamOk(job'[k], chain', Held', WrittenBlocks(k)') BY <1>1, <1>4, <1>9, <1>10
  <2> QED BY <1>1, <1>2, <1>7, <1>9, <1>10, <2>2, <2>3, <2>4 DEF BackInv
<1>11. CASE j.pc = "settled"
  <2>1. Goes(k, done) BY <1>1, <1>11
  <2>2. \A b \in j.owed : b \in WrittenBlocks(k)' BY <1>3, <1>8, <1>11
  <2>3. StreamOk(done, chain, Held, WrittenBlocks(k)') BY <1>3, <2>2 DEF StreamOk, Owed, Streaming
  <2> QED BY <1>10, <2>1, <2>3
<1>12. CASE j.pc # "settled"
  <2>1. Goes(k, on) BY <1>1, <1>12
  <2>2. /\ DOMAIN on = StreamFields /\ on.pc = pc /\ on.pos = j.pos /\ on.from = j.from
        /\ on.to = j.to /\ on.pending = <<>> /\ on.owed = j.owed
    BY <1>3 DEF StreamFields
  <2>3. pc \in Streaming /\ (pc = "settled" => SlotOf(j.pos) = j.to) BY DEF Streaming
  <2> HIDE DEF on, pc
  <2>4. Range(on.pending) = {} BY <2>2 DEF Range
  <2>5. Reached(on, WrittenBlocks(k)') BY <1>8, <2>2 DEF Reached
  <2>6. Collected(on) BY <2>4 DEF Collected
  <2>7. on.pc = "settled" => \A b \in on.owed : Slot(b) <= Slot(on.pos)
    BY <1>2, <1>3, <2>2, <2>3 DEF SlotOf
  <2>8. StreamOk(on, chain, Held, WrittenBlocks(k)')
    BY <1>3, <2>2, <2>3, <2>5, <2>6, <2>7 DEF StreamOk, StreamFields, Streaming, Owed
  <2> QED BY <1>10, <2>1, <2>8
<1> QED BY <1>11, <1>12

--------------------------------------------------------------------------------
(* The theorems.                                                           *)

\* Every step keeps the invariant.
LEMMA StepKeeps == BackInv /\ [Next]_vars => BackInv'
<1> SUFFICES ASSUME BackInv, [Next]_vars PROVE BackInv' OBVIOUS
<1>1. CASE Grow BY <1>1, GrowKeeps
<1>2. CASE Fork BY <1>2, ForkKeeps
<1>3. CASE CrawlForward BY <1>3, CrawlForwardKeeps
<1>4. CASE CrawlBack BY <1>4, CrawlBackKeeps
<1>5. CASE StartWalk BY <1>5, StartWalkKeeps
<1>6. CASE Crash BY <1>6, CrashKeeps
<1>7. ASSUME NEW k \in Kinds, StartStream(k) PROVE BackInv' BY <1>7, StartStreamKeeps
<1>8. ASSUME NEW k \in Kinds, Fails(k) PROVE BackInv' BY <1>8, FailedKeeps DEF Fails
<1>9. ASSUME NEW k \in Kinds, JobStep(k) PROVE BackInv'
  <2>1. CASE Intersect(k) BY <2>1, IntersectKeeps
  <2>2. CASE Connect(k) BY <2>2, ConnectKeeps
  <2>3. CASE RollForward(k) BY <2>3, RollForwardKeeps
  <2>4. CASE RollBackward(k) BY <2>4, RollBackwardKeeps
  <2>5. CASE Flush(k) BY <2>5, FlushKeeps
  <2>6. CASE WalkStep BY <2>6, WalkStepKeeps
  <2> QED BY <1>9, <2>1, <2>2, <2>3, <2>4, <2>5, <2>6 DEF JobStep
<1>10. CASE UNCHANGED vars BY <1>10, StutterKeeps DEF vars, stored
<1> QED BY <1>1, <1>2, <1>3, <1>4, <1>5, <1>6, <1>7, <1>8, <1>9, <1>10 DEF Next

\* The invariant of the backfills beside the crawler.
THEOREM BackfillsAreSound == Spec => []BackInv
<1>1. Init => BackInv BY InitKeeps
<1>2. BackInv /\ [Next]_vars => BackInv' BY StepKeeps
<1> QED BY <1>1, <1>2, PTL DEF Spec

\* A certificate or redeemer row belongs to a transaction of a stored block: a flush asks
\* the index which blocks of its batch it still holds (writeBatch), however the crawler
\* undid blocks while the batch was collected.
THEOREM NoRowIsOrphaned == Spec => []NoOrphanRows
<1>1. BackInv => NoOrphanRows BY DEF BackInv
<1> QED BY <1>1, BackfillsAreSound, PTL

\* All that an input row says is true of one input of its transaction: a transaction
\* backfill that fills, reorders and drops inputs never mixes two (completeInputs).
THEOREM RowsAreTrue == Spec => []RowsStayTrue
<1>1. ASSUME BackInv PROVE RowsStayTrue
  <2>1. ASSUME NEW n \in DOMAIN rows, NEW row \in Range(rows[n].ins)
        PROVE  \E f \in Known(TxOf(Ancestor(at, n))) : TrueOf(row, f)
    <3>1. RowOk(rows[n], TxOf(Ancestor(at, n))) BY <1>1 DEF BackInv, RowsFit
    <3> QED BY <3>1 DEF RowOk, InputsOk
  <2> QED BY <2>1 DEF RowsStayTrue, TrueOf, Known
<1> QED BY <1>1, BackfillsAreSound, PTL

\* A finished backfill leaves nothing to add to a block that was stored and on the chain
\* all the while, whatever forks it and the crawler saw in between, and whatever the
\* sizes of batches and pages.
THEOREM DoneIsComplete == Spec => []DoneMeansComplete
<1>1. ASSUME BackInv PROVE DoneMeansComplete
  <2>1. ASSUME NEW k \in Streams, job[k].pc = "done", NEW b \in job[k].owed PROVE Written(k, b)
    <3>1. StreamOk(job[k], chain, Held, WrittenBlocks(k)) BY <1>1 DEF BackInv
    <3> QED BY <2>1, <3>1 DEF StreamOk, WrittenBlocks
  <2>2. ASSUME job["credentials"].pc = "done", NEW b \in job["credentials"].owed
        PROVE  rows[Slot(b)].outs \subseteq rows[Slot(b)].cred
    <3>1. WalkOk(job["credentials"], chain, Held, rows) BY <1>1 DEF BackInv
    <3> QED BY <2>2, <3>1 DEF WalkOk
  <2> QED BY <2>1, <2>2 DEF DoneMeansComplete, Written, Kinds, Streams
<1> QED BY <1>1, BackfillsAreSound, PTL

=============================================================================
