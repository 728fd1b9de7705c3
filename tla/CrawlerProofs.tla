----------------------------- MODULE CrawlerProofs -----------------------------
(***************************************************************************)
(* Proofs about the crawler beside imports of the UTxO set, for every      *)
(* number of processes, every height of the chain and every scenario.      *)
(*                                                                         *)
(* The chain. StoredIsOneChain relates two tables, the cursor and the      *)
(* blocks. Both are written by one transaction of the process that holds   *)
(* the lease, so what has to be shown is that the leader writes the right  *)
(* block: the one after the cursor (InStep).  It follows from how the      *)
(* leader came by the block: the stream stands at the cursor, the blocks   *)
(* of a page follow it (Follows), a rollback goes to an ancestor of it.    *)
(* A process that lost the lease may be anywhere; it does not lead, and    *)
(* when it leads again it starts from the cursor.                          *)
(*                                                                         *)
(* The intent. A halt that latches is one for a block that is rejected, or *)
(* one that finds no source: the second needs ReadyInv, that a process     *)
(* with a crawler has a backend that came up, so 'auto' finds one.         *)
(*                                                                         *)
(* The set. The leader decides once, when it starts, whether the set is    *)
(* as far as the cursor, and keeps only the anchor. SetInStep says that    *)
(* the decision stays right while it leads: what was applied is past the   *)
(* anchor (RowsFit), so a block after the anchor takes the set along, and  *)
(* one before it leaves a set that is ahead.                               *)
(*                                                                         *)
(* The rows of the set. TrustedSetIsRight compares the tables with the     *)
(* chain. SetInv carries the comparison through every step: an untouched   *)
(* set lies within what was unspent at its anchor, and is all of it unless *)
(* an import broke off; a set that blocks were applied to is the outputs   *)
(* unspent at the anchor and those made since, each with its spender, up   *)
(* to an ancestor of the cursor that is still stored. A block after it     *)
(* takes it one block on, a rollback to a stored block back to that block, *)
(* because what is undone is what the stored blocks say.  The node's       *)
(* ledger enters by LedgerAssumption alone.                                *)
(*                                                                         *)
(* The sums. The code computes them in three ways: by aggregates, by       *)
(* deltas, and by recounting. Each is shown to fit the rows it writes; all *)
(* rest on a few facts of sums over finite sets.                           *)
(*                                                                         *)
(* The properties name exceptions, and so does the invariant: Clean and    *)
(* Kept say which history lets go of which part.                           *)
(***************************************************************************)
EXTENDS UtxoSetImport, FiniteSetTheorems, SequenceTheorems, NaturalsInduction, WellFoundedInduction,
        TLAPS

USE DEF rowVars, procVars, envVars

--------------------------------------------------------------------------------
\* The fields of the records the proofs look into.
CursorFields == {"at", "status", "errs", "desired", "owner", "live", "set", "anchor", "applied"}
CrawlerFields == {"pc", "run", "seen", "at", "todo", "src", "att", "prog", "until", "probe",
                  "final", "latch", "anchor", "late", "snap", "settled"}
ImportFields == {"pc", "kind", "anchor", "todo", "rewind", "lost"}

\* The pipeline is not yet, or no more, under way.
Idle == {"off", "lease", "anchor"}

\* Which fields have which values: a crawler object, in a world with excuses e.
Broken(e) ==
  config.bad # {} \/ NothingToFollow \/ (config.source # "auto" /\ "uninit" \in e)
Sound(k, e) ==
  /\ DOMAIN k = CrawlerFields
  /\ k.at \in Blocks /\ k.src \in {"stream", "page"} /\ k.late \in Blocks \union {NoBlock}
  /\ k.late # NoBlock => "late" \in e /\ k.pc \notin Idle
  /\ k.pc = "persist" => k.todo \in Seq(Blocks) /\ k.todo # << >>
  /\ (k.pc = "anchor" => k.run) /\ (k.pc \in {"off", "lease"} => ~k.run)
  /\ k.latch => Broken(e)

\* An import call; all of them, of which the one that holds the lease has emptied the tables
\* that it fills; and the cursor row.
Loading(m) == m.kind = "import" /\ m.pc \in {"flush", "activate"}
ImportSound(m) ==
  /\ DOMAIN m = ImportFields
  /\ m.pc \in {"lease", "begin"} /\ m.kind \in {"import", "rebuild"} => m.anchor \in Blocks
  /\ m.pc \in {"flush", "activate"} => m.anchor \in Blocks /\ m.kind \in {"import", "rebuild"}
ImportsSound(c, m) ==
  /\ DOMAIN m = Instances /\ \A i \in Instances : ImportSound(m[i])
  /\ \A i \in Instances : c.owner = Importer(i) /\ Loading(m[i]) => c.applied = NoSlot
CursorSound(c) == DOMAIN c = CursorFields /\ c.at \in Blocks /\ c.anchor \in Blocks /\ c.applied \in Int

\* The blocks after the start block up to b.
Line(b) == {Ancestor(b, n) : n \in 1..Slot(b)}

\* b is the block after a.
Child(a, b) == b \in Blocks /\ Slot(b) = Slot(a) + 1 /\ IsAncestor(a, b)

\* Blocks that follow each other, the first of them after a.
Follows(a, todo) == \A j \in 1..Len(todo) : Child(IF j = 1 THEN a ELSE todo[j - 1], todo[j])

\* The pipeline of the leader, with the cursor at a: a stream stands at the cursor, the blocks
\* fetched follow it, and a rollback does not lead past it.
InStep(k, a) ==
  /\ k.pc = "stream" => k.at = a
  /\ k.pc = "persist" => Follows(a, k.todo)
  /\ k.pc = "persist" /\ k.src = "stream" => Len(k.todo) = 1 /\ k.at = Head(k.todo)
  /\ k.pc \in {"rewind", "reorg"} => Slot(k.at) <= Slot(a)

\* What the leader knows of the set: before it looks, what it read before the lease still
\* holds, save that another process may have given the set up; then, an active set has the
\* anchor it applies blocks after, and is as far as the cursor.
SetInStep(k, c, maintains) ==
  /\ k.pc = "anchor" /\ maintains =>
       /\ c.anchor = k.seen.anchor
       /\ c.set = "active" => k.seen.set = "active" /\ (StaleSet(c) <=> StaleSet(k.seen))
  /\ k.pc \notin {"off", "lease", "anchor"} =>
       /\ k.anchor \in {NoBlock, c.anchor}
       /\ maintains /\ c.set = "active" => k.anchor # NoBlock /\ ~StaleSet(c)

\* What lets go of each.
Clean(e) == "late" \notin e /\ "rewind" \notin e
Kept(e) == "late" \notin e /\ "start" \notin e /\ "outdated" \notin e

\* What is true of a crawler k whose process holds the lease.
Leads(k, c, e, maintains) ==
  /\ "late" \notin e => InStep(k, c.at)
  /\ Clean(e) /\ k.pc \in {"rewind", "reorg"} => IsAncestor(k.at, c.at)
  /\ Kept(e) => SetInStep(k, c, maintains)

\* The rows: the blocks stored are those up to the cursor, and an applied set is past its
\* anchor.
RowsFit(c, rows, e) ==
  /\ rows \subseteq Blocks
  /\ Clean(e) => rows = Line(c.at)
  /\ Kept(e) /\ c.applied # NoSlot => c.applied >= Slot(c.anchor)

\* A process that runs a crawler, or will, has a backend whose init succeeded.
ReadyInv ==
  /\ DOMAIN inst = Instances /\ DOMAIN standby = Instances /\ DOMAIN usable = Instances
  /\ config.backends \subseteq Kinds /\ config.backends # {}
  /\ \A i \in Instances : usable[i] \subseteq Kinds
  /\ \A i \in Instances : standby[i] \/ inst[i].pc # "off" => usable[i] # {}

\* The inductive invariant.
CrawlInv ==
  /\ chain \in Blocks /\ CursorSound(cur)
  /\ DOMAIN inst = Instances /\ DOMAIN config.utxo = Instances
  /\ \A i \in Instances : Sound(inst[i], excuses)
  /\ ImportsSound(cur, imp)
  /\ \A i \in Instances : cur.owner = i => Leads(inst[i], cur, excuses, config.utxo[i])
  /\ RowsFit(cur, stored, excuses)
  /\ cur.desired \/ paused \/ Broken(excuses)

--------------------------------------------------------------------------------
(* Blocks: sequences of branch marks, ordered by their prefixes.                 *)

\* A block is a sequence of branch marks no longer than the bound, and its slot is its length.
LEMMA BlockIsSeq ==
  ASSUME NEW b \in Blocks
  PROVE /\ b \in Seq(Branches) /\ Len(b) \in 0..MaxHeight /\ Slot(b) = Len(b)
        /\ \A j \in 1..Len(b) : b[j] \in Branches
  BY CrawlerAssumption DEF Blocks, BlocksUpTo, Branches, Slot

\* Every such sequence is a block.
LEMMA SeqIsBlock ==
  ASSUME NEW s \in Seq(Branches), Len(s) <= MaxHeight
  PROVE s \in Blocks
  <1>1. Len(s) \in 0..MaxHeight /\ s \in [1..Len(s) -> Branches]
    BY CrawlerAssumption
  <1> QED BY <1>1 DEF Blocks, BlocksUpTo

\* Blocks with the same marks are the same block.
LEMMA SameBlock ==
  ASSUME NEW a \in Blocks, NEW b \in Blocks, Len(a) = Len(b), \A j \in 1..Len(a) : a[j] = b[j]
  PROVE a = b
  <1>1. a \in Seq(Branches) /\ b \in Seq(Branches)
    BY BlockIsSeq
  <1> QED BY <1>1

\* The ancestor at a height is the block with the first marks.
LEMMA AncestorFacts ==
  ASSUME NEW b \in Blocks, NEW n \in 0..Len(b)
  PROVE /\ Ancestor(b, n) \in Blocks /\ Len(Ancestor(b, n)) = n
        /\ \A j \in 1..n : Ancestor(b, n)[j] = b[j]
  <1>1. b \in Seq(Branches) /\ Len(b) \in 0..MaxHeight /\ \A j \in 1..Len(b) : b[j] \in Branches
    BY BlockIsSeq
  <1>2. 1 \in Int /\ n \in Int /\ \A j \in 1..n : b[j] \in Branches
    BY <1>1
  <1>3. /\ SubSeq(b, 1, n) \in Seq(Branches) /\ Len(SubSeq(b, 1, n)) = IF 1 <= n THEN n - 1 + 1 ELSE 0
        /\ \A j \in 1..n - 1 + 1 : SubSeq(b, 1, n)[j] = b[1 + j - 1]
    BY <1>2, SubSeqProperties
  <1>4. Len(SubSeq(b, 1, n)) = n /\ \A j \in 1..n : SubSeq(b, 1, n)[j] = b[j]
    BY <1>1, <1>3
  <1>5. Len(SubSeq(b, 1, n)) <= MaxHeight
    BY <1>1, <1>4, CrawlerAssumption
  <1>6. SubSeq(b, 1, n) \in Blocks
    BY <1>3, <1>5, SeqIsBlock
  <1> QED BY <1>4, <1>6 DEF Ancestor

\* An ancestor is a prefix.
LEMMA AncestorIsPrefix ==
  ASSUME NEW a \in Blocks, NEW b \in Blocks
  PROVE IsAncestor(a, b) <=> Len(a) <= Len(b) /\ \A j \in 1..Len(a) : a[j] = b[j]
  <1>1. Len(a) \in 0..MaxHeight /\ Len(b) \in 0..MaxHeight
    BY BlockIsSeq
  <1>2. ASSUME Len(a) <= Len(b) PROVE (SubSeq(b, 1, Len(a)) = a) <=> \A j \in 1..Len(a) : a[j] = b[j]
    <2>1. Len(a) \in 0..Len(b)
      BY <1>1, <1>2
    <2>2. /\ Ancestor(b, Len(a)) \in Blocks /\ Len(Ancestor(b, Len(a))) = Len(a)
          /\ \A j \in 1..Len(a) : Ancestor(b, Len(a))[j] = b[j]
      BY <2>1, AncestorFacts
    <2>3. (\A j \in 1..Len(a) : a[j] = b[j]) => Ancestor(b, Len(a)) = a
      BY <2>2, SameBlock
    <2> QED BY <2>2, <2>3 DEF Ancestor
  <1> QED BY <1>2 DEF IsAncestor

\* Ancestors form a tree: the ancestors of one block are ordered by their slots.
LEMMA AncestorOrder ==
  ASSUME NEW a \in Blocks, NEW b \in Blocks, NEW c \in Blocks
  PROVE /\ IsAncestor(a, a)
        /\ IsAncestor(a, b) /\ IsAncestor(b, c) => IsAncestor(a, c)
        /\ IsAncestor(a, c) /\ IsAncestor(b, c) /\ Slot(a) <= Slot(b) => IsAncestor(a, b)
        /\ IsAncestor(a, b) => Slot(a) <= Slot(b)
        /\ IsAncestor(a, b) /\ Slot(a) = Slot(b) => a = b
  <1>1. /\ Len(a) \in Nat /\ Len(b) \in Nat /\ Len(c) \in Nat
        /\ Slot(a) = Len(a) /\ Slot(b) = Len(b) /\ Slot(c) = Len(c)
    BY BlockIsSeq, CrawlerAssumption
  <1>2. IsAncestor(a, a)
    BY <1>1, AncestorIsPrefix
  <1>3. ASSUME IsAncestor(a, b), IsAncestor(b, c) PROVE IsAncestor(a, c)
    BY <1>1, <1>3, AncestorIsPrefix
  <1>4. ASSUME IsAncestor(a, c), IsAncestor(b, c), Slot(a) <= Slot(b) PROVE IsAncestor(a, b)
    BY <1>1, <1>4, AncestorIsPrefix
  <1>5. IsAncestor(a, b) => Slot(a) <= Slot(b)
    BY <1>1, AncestorIsPrefix
  <1>6. ASSUME IsAncestor(a, b), Slot(a) = Slot(b) PROVE a = b
    BY <1>1, <1>6, AncestorIsPrefix, SameBlock
  <1> QED BY <1>2, <1>3, <1>4, <1>5, <1>6

\* What Ancestor returns is an ancestor, at the slot asked for.
LEMMA AncestorIsAncestor ==
  ASSUME NEW b \in Blocks, NEW n \in 0..Slot(b)
  PROVE Ancestor(b, n) \in Blocks /\ Slot(Ancestor(b, n)) = n /\ IsAncestor(Ancestor(b, n), b)
  <1>1. Slot(b) = Len(b) /\ Len(b) \in Nat
    BY BlockIsSeq, CrawlerAssumption
  <1>2. /\ Ancestor(b, n) \in Blocks /\ Len(Ancestor(b, n)) = n
        /\ \A j \in 1..n : Ancestor(b, n)[j] = b[j]
    BY <1>1, AncestorFacts
  <1>3. n <= Len(b) /\ Slot(Ancestor(b, n)) = n
    BY <1>1, <1>2, BlockIsSeq
  <1> QED BY <1>2, <1>3, AncestorIsPrefix

\* There is one ancestor at each slot.
LEMMA OneAncestor ==
  ASSUME NEW a \in Blocks, NEW b \in Blocks, IsAncestor(a, b)
  PROVE Slot(a) \in 0..Slot(b) /\ a = Ancestor(b, Slot(a))
  <1>1. Slot(a) \in 0..Slot(b)
    BY AncestorOrder, BlockIsSeq, CrawlerAssumption
  <1>2. /\ Ancestor(b, Slot(a)) \in Blocks /\ Slot(Ancestor(b, Slot(a))) = Slot(a)
        /\ IsAncestor(Ancestor(b, Slot(a)), b)
    BY <1>1, AncestorIsAncestor
  <1>3. IsAncestor(a, Ancestor(b, Slot(a)))
    BY <1>1, <1>2, AncestorOrder
  <1> QED BY <1>1, <1>2, <1>3, AncestorOrder

\* The line of a block is the set of its ancestors after the start block.
LEMMA LineIs ==
  ASSUME NEW b \in Blocks
  PROVE Line(b) = {x \in Blocks : Slot(x) >= 1 /\ IsAncestor(x, b)}
  <1>1. ASSUME NEW n \in 1..Slot(b)
        PROVE Ancestor(b, n) \in Blocks /\ Slot(Ancestor(b, n)) >= 1 /\ IsAncestor(Ancestor(b, n), b)
    BY AncestorIsAncestor
  <1>2. ASSUME NEW x \in Blocks, Slot(x) >= 1, IsAncestor(x, b) PROVE x \in Line(b)
    BY <1>2, OneAncestor DEF Line
  <1> QED BY <1>1, <1>2 DEF Line

\* The next block adds itself to the line.
LEMMA LineOfChild ==
  ASSUME NEW a \in Blocks, NEW b, Child(a, b)
  PROVE Line(b) = Line(a) \union {b}
  <1>1. b \in Blocks /\ Slot(b) = Slot(a) + 1 /\ IsAncestor(a, b) /\ Slot(a) \in Nat
    BY BlockIsSeq, CrawlerAssumption DEF Child
  <1>2. ASSUME NEW x \in Blocks, IsAncestor(x, b) PROVE IsAncestor(x, a) \/ x = b
    <2>1. Slot(x) \in Nat /\ Slot(x) <= Slot(b)
      BY <1>1, <1>2, AncestorOrder, BlockIsSeq, CrawlerAssumption
    <2>2. CASE Slot(x) <= Slot(a)
      BY <1>1, <1>2, <2>2, AncestorOrder
    <2>3. CASE Slot(x) = Slot(b)
      BY <1>1, <1>2, <2>3, AncestorOrder
    <2> QED BY <1>1, <2>1, <2>2, <2>3
  <1>3. ASSUME NEW x \in Blocks, IsAncestor(x, a) PROVE IsAncestor(x, b)
    BY <1>1, <1>3, AncestorOrder
  <1>4. IsAncestor(b, b) /\ Slot(b) >= 1
    BY <1>1, AncestorOrder
  <1> QED BY <1>1, <1>2, <1>3, <1>4, LineIs

\* What a rollback to an ancestor leaves of the line is the line of the ancestor.
LEMMA LineCut ==
  ASSUME NEW b \in Blocks, NEW p \in Blocks, IsAncestor(p, b)
  PROVE Line(b) \ {x \in Line(b) : Slot(x) > Slot(p)} = Line(p)
  <1>1. ASSUME NEW x \in Blocks, IsAncestor(x, p) PROVE IsAncestor(x, b) /\ Slot(x) <= Slot(p)
    BY <1>1, AncestorOrder
  <1>2. ASSUME NEW x \in Blocks, IsAncestor(x, b), Slot(x) <= Slot(p) PROVE IsAncestor(x, p)
    BY <1>2, AncestorOrder
  <1>3. \A x \in Blocks : Slot(x) \in Nat
    BY BlockIsSeq, CrawlerAssumption
  <1> QED BY <1>1, <1>2, <1>3, LineIs

\* The start block is a block, and an ancestor of every one.
LEMMA StartIsBlock ==
  Start \in Blocks /\ Slot(Start) = 0 /\ Line(Start) = {} /\ \A b \in Blocks : IsAncestor(Start, b)
  <1>1. Start \in Seq(Branches) /\ Len(Start) = 0
    BY DEF Start
  <1>2. Start \in Blocks
    <2>1. Len(Start) <= MaxHeight
      BY <1>1, CrawlerAssumption
    <2> QED BY <1>1, <2>1, SeqIsBlock
  <1>3. Slot(Start) = 0
    BY <1>1, <1>2, BlockIsSeq
  <1>4. \A b \in Blocks : IsAncestor(Start, b)
    BY <1>1, <1>2, AncestorIsPrefix, BlockIsSeq, CrawlerAssumption
  <1>5. Line(Start) = {}
    BY <1>3 DEF Line
  <1> QED BY <1>2, <1>3, <1>4, <1>5

\* A set of numbers that is bounded and not empty has a greatest one.
LEMMA GreatestNumber ==
  ASSUME NEW max \in Nat, NEW S \in SUBSET (0..max), S # {}
  PROVE \E n \in S : \A m \in S : m <= n
  <1> DEFINE Gaps == {max - n : n \in S}
             R == OpToRel(<, Nat)
  <1>1. Gaps \subseteq Nat /\ Gaps # {}
    <2>1. \A n \in S : n \in 0..max /\ max - n \in Nat
      OBVIOUS
    <2> QED BY <2>1
  <1>2. \A x, y \in Nat : x < y => <<x, y>> \in R
    BY DEF OpToRel
  <1>3. IsWellFoundedOn(R, Nat)
    BY NatLessThanWellFounded
  <1>4. PICK d \in Gaps : \A e \in Gaps : ~ (<<e, d>> \in R)
    <2> HIDE DEF R, Gaps
    <2> QED BY <1>1, <1>3, WFMin
  <1>5. \A e \in Gaps : d <= e
    <2> HIDE DEF R, Gaps
    <2>1. d \in Nat
      BY <1>1, <1>4
    <2>2. ASSUME NEW e \in Gaps PROVE d <= e
      <3>1. e \in Nat /\ ~ (e < d)
        BY <1>1, <1>2, <1>4, <2>1
      <3> QED BY <2>1, <3>1
    <2> QED BY <2>2
  <1>6. PICK n \in S : d = max - n
    BY <1>4
  <1>7. ASSUME NEW m \in S PROVE m <= n
    BY <1>5, <1>6
  <1> QED BY <1>7

\* In a set of blocks that is not empty one has the greatest slot.
LEMMA GreatestBlock ==
  ASSUME NEW S \in SUBSET Blocks, S # {}
  PROVE \E b \in S : \A x \in S : Slot(x) <= Slot(b)
  <1> DEFINE Slots == {Slot(x) : x \in S}
  <1>1. Slots \in SUBSET (0..MaxHeight) /\ Slots # {} /\ MaxHeight \in Nat
    BY BlockIsSeq, CrawlerAssumption
  <1>2. PICK n \in Slots : \A m \in Slots : m <= n
    <2> HIDE DEF Slots
    <2> QED BY <1>1, GreatestNumber
  <1>3. PICK b \in S : n = Slot(b)
    BY <1>2
  <1> QED BY <1>2, <1>3

--------------------------------------------------------------------------------
(* What keeps the invariant: steps that leave the place of the cursor alone.     *)

\* The row d says of the chain and the set what c says, or gives the set up.
Quiet(c, d) ==
  /\ DOMAIN d = CursorFields /\ d.at = c.at /\ d.anchor = c.anchor /\ d.applied = c.applied
  /\ d.set \in {c.set, "invalid"}

\* No exception of e is taken back in f.
Grows(e, f) == \A x \in {"late", "rewind", "start", "outdated", "uninit"} : x \in e => x \in f

\* Only the crawler object of process i changes.
OnlyCrawler(i) ==
  DOMAIN inst' = Instances /\ \A j \in Instances \ {i} : inst'[j] = inst[j]

\* A set that is active still was active before, and as stale.
LEMMA QuietKeepsSet ==
  ASSUME NEW c, NEW d, Quiet(c, d)
  PROVE d.set = "active" => c.set = "active" /\ (StaleSet(d) <=> StaleSet(c))
  BY DEF Quiet, StaleSet

\* A quiet step of another process takes nothing from the leader.
LEMMA LeadsKept ==
  ASSUME NEW k, NEW c, NEW d, NEW e, NEW f, NEW m, Quiet(c, d), Grows(e, f), Leads(k, c, e, m)
  PROVE Leads(k, d, f, m)
  <1>1. d.at = c.at /\ d.anchor = c.anchor
    BY DEF Quiet
  <1>2. Clean(f) => Clean(e)
    BY DEF Clean, Grows
  <1>3. Kept(f) => Kept(e)
    BY DEF Kept, Grows
  <1>4. "late" \notin f => "late" \notin e
    BY DEF Grows
  <1>5. SetInStep(k, c, m) => SetInStep(k, d, m)
    BY <1>1, QuietKeepsSet DEF SetInStep
  <1> QED BY <1>1, <1>2, <1>3, <1>4, <1>5 DEF Leads

\* More excuses ask less of a crawler object.
LEMMA SoundKept ==
  ASSUME NEW k, NEW e, NEW f, Grows(e, f), Sound(k, e)
  PROVE Sound(k, f)
  BY DEF Sound, Grows, Broken

\* A quiet step leaves the rows as fitting as they were.
LEMMA RowsKept ==
  ASSUME NEW c, NEW d, NEW e, NEW f, NEW rows, Quiet(c, d), Grows(e, f), RowsFit(c, rows, e)
  PROVE RowsFit(d, rows, f)
  <1>1. d.at = c.at /\ d.anchor = c.anchor /\ d.applied = c.applied
    BY DEF Quiet
  <1>2. (Clean(f) => Clean(e)) /\ (Kept(f) => Kept(e))
    BY DEF Clean, Kept, Grows
  <1> QED BY <1>1, <1>2 DEF RowsFit

\* No process has the name of an import call or of nobody.
LEMMA OwnerIsOther ==
  /\ NoOwner \notin Instances /\ DeadOwner \notin Instances
  /\ \A i \in Instances : Importer(i) \notin Instances \union {NoOwner, DeadOwner}
  BY CrawlerAssumption, ImportAssumption

\* The imports stay sound when the lease goes to none of them and the set stays.
LEMMA ImportsKept ==
  ASSUME NEW c, NEW d, NEW m, ImportsSound(c, m), d.applied = c.applied,
         d.owner \in Instances \union {c.owner, NoOwner, DeadOwner}
  PROVE ImportsSound(d, m)
  BY OwnerIsOther DEF ImportsSound

\* The imports are sound whatever the set when a crawler holds the lease.
LEMMA ImportsElsewhere ==
  ASSUME NEW c, NEW d, NEW m, ImportsSound(c, m), d.owner \in Instances
  PROVE ImportsSound(d, m)
  BY OwnerIsOther DEF ImportsSound

\* A quiet step of process i, which may take the lease, keeps the invariant if its own crawler
\* object is right.
LEMMA ProcessStep ==
  ASSUME CrawlInv, NEW i \in Instances, OnlyCrawler(i), Sound(inst'[i], excuses'),
         Quiet(cur, cur'), cur'.owner \in {cur.owner, i, NoOwner, DeadOwner},
         cur'.owner = i => Leads(inst'[i], cur', excuses', config.utxo[i]),
         cur'.desired \/ paused' \/ Broken(excuses) \/ Broken(excuses'),
         chain' \in Blocks, config' = config, stored' = stored, Grows(excuses, excuses'),
         ImportsSound(cur', imp')
  PROVE CrawlInv'
  <1>1. CursorSound(cur')
    BY DEF CrawlInv, CursorSound, Quiet
  <1>2. \A j \in Instances : Sound(inst'[j], excuses')
    BY SoundKept DEF CrawlInv, OnlyCrawler
  <1>3. ASSUME NEW j \in Instances, cur'.owner = j PROVE Leads(inst'[j], cur', excuses', config.utxo[j])
    <2>1. CASE j = i
      BY <1>3, <2>1
    <2>2. CASE j # i
      <3>1. cur.owner = j /\ inst'[j] = inst[j]
        BY <1>3, <2>2, OwnerIsOther DEF OnlyCrawler
      <3>2. Leads(inst[j], cur, excuses, config.utxo[j])
        BY <3>1 DEF CrawlInv
      <3> QED BY <3>1, <3>2, LeadsKept
    <2> QED BY <2>1, <2>2
  <1>4. RowsFit(cur', stored', excuses')
    BY RowsKept DEF CrawlInv
  <1>5. DOMAIN inst' = Instances /\ DOMAIN config'.utxo = Instances
    BY DEF CrawlInv, OnlyCrawler
  <1>6. Broken(excuses) \/ Broken(excuses') => Broken(excuses)'
    BY DEF Broken, NothingToFollow, Grows
  <1>7. \A j \in Instances : Sound(inst[j], excuses)'
    BY <1>2, <1>6 DEF Sound
  <1>8. \A j \in Instances : (cur.owner = j => Leads(inst[j], cur, excuses, config.utxo[j]))'
    BY <1>3
  <1>9. CursorSound(cur)' /\ RowsFit(cur, stored, excuses)' /\ ImportsSound(cur, imp)'
    BY <1>1, <1>4
  <1> QED BY <1>5, <1>6, <1>7, <1>8, <1>9 DEF CrawlInv

\* A step of the crawler object of one process, or none, that leaves the rest alone.
Rest == UNCHANGED <<stored, chain, config, paused, excuses, imp>>

\* The same when nothing but the object, and the lease, status or intent of the row, changes.
LEMMA QuietStep ==
  ASSUME CrawlInv, NEW i \in Instances, OnlyCrawler(i), Rest, Sound(inst'[i], excuses),
         Quiet(cur, cur'), cur'.owner \in {cur.owner, NoOwner, DeadOwner},
         cur.owner = i => Leads(inst'[i], cur, excuses, config.utxo[i]),
         cur.desired => cur'.desired \/ Broken(excuses)
  PROVE CrawlInv'
  <1>1. Grows(excuses, excuses') /\ excuses' = excuses
    BY DEF Rest, Grows
  <1>2. cur'.owner = i => Leads(inst'[i], cur', excuses', config.utxo[i])
    BY <1>1, LeadsKept, OwnerIsOther
  <1>3. chain' \in Blocks /\ ImportsSound(cur', imp')
    BY ImportsKept DEF CrawlInv, Rest, Quiet
  <1>4. cur'.desired \/ paused' \/ Broken(excuses)
    BY DEF CrawlInv, Rest
  <1>5. cur'.owner \in {cur.owner, i, NoOwner, DeadOwner}
    OBVIOUS
  <1>6. Sound(inst'[i], excuses')
    BY <1>1
  <1>7. config' = config /\ stored' = stored
    BY DEF Rest
  <1> QED BY <1>1, <1>2, <1>3, <1>4, <1>5, <1>6, <1>7, ProcessStep

\* The crawler objects, or only the cursor row's lease, status and intent.
LEMMA RowStep ==
  ASSUME CrawlInv, UNCHANGED <<inst, stored, chain, config, excuses, imp>>, Quiet(cur, cur'),
         cur'.owner \in {cur.owner, NoOwner, DeadOwner}, cur'.desired \/ paused' \/ Broken(excuses)
  PROVE CrawlInv'
  <1>1. Grows(excuses, excuses')
    BY DEF Grows
  <1>2. CursorSound(cur)' /\ RowsFit(cur, stored, excuses)' /\ ImportsSound(cur, imp)'
    <2>1. RowsFit(cur', stored, excuses')
      BY <1>1, RowsKept DEF CrawlInv
    <2>2. ImportsSound(cur', imp')
      BY ImportsKept DEF CrawlInv, Quiet
    <2>3. CursorSound(cur')
      BY DEF CrawlInv, CursorSound, Quiet
    <2> QED BY <2>1, <2>2, <2>3
  <1>3. \A j \in Instances : (cur.owner = j => Leads(inst[j], cur, excuses, config.utxo[j]))'
    BY <1>1, LeadsKept, OwnerIsOther DEF CrawlInv
  <1>4. Broken(excuses) => Broken(excuses)'
    BY DEF Broken, NothingToFollow
  <1>5. \A j \in Instances : Sound(inst[j], excuses)'
    BY <1>4 DEF CrawlInv, Sound
  <1> QED BY <1>2, <1>3, <1>4, <1>5 DEF CrawlInv

\* What a crawler object n may become in the pipeline of k.
Moved(k, n) ==
  /\ DOMAIN n = CrawlerFields /\ n.pc \notin Idle /\ n.anchor = k.anchor
  /\ n.at \in Blocks /\ n.src \in {"stream", "page"} /\ n.late \in {k.late, NoBlock}
  /\ n.latch => k.latch \/ Broken(excuses)
  /\ n.pc = "persist" => n.todo \in Seq(Blocks) /\ n.todo # << >>

\* A step of the pipeline keeps the object well formed.
LEMMA MovedIsSound ==
  ASSUME NEW k, NEW n, Sound(k, excuses), Moved(k, n)
  PROVE Sound(n, excuses)
  BY DEF Sound, Moved, Idle

\* A step of the pipeline changes nothing the leader knows of the set.
LEMMA MovedLeads ==
  ASSUME NEW k, NEW n, NEW c, NEW e, NEW m, k.pc \notin Idle, Moved(k, n), Leads(k, c, e, m),
         "late" \notin e => InStep(n, c.at),
         Clean(e) /\ n.pc \in {"rewind", "reorg"} => IsAncestor(n.at, c.at)
  PROVE Leads(n, c, e, m)
  BY DEF Moved, Leads, SetInStep, Idle

\* A step of the pipeline keeps the invariant when the leader stays in step.
LEMMA PipelineStep ==
  ASSUME CrawlInv, NEW i \in Instances, inst[i].pc \notin Idle, OnlyCrawler(i), Rest,
         Moved(inst[i], inst'[i]), Quiet(cur, cur'), cur'.owner = cur.owner,
         cur.desired => cur'.desired \/ Broken(excuses),
         cur.owner = i /\ "late" \notin excuses => InStep(inst'[i], cur.at),
         cur.owner = i /\ Clean(excuses) /\ inst'[i].pc \in {"rewind", "reorg"} => IsAncestor(inst'[i].at, cur.at)
  PROVE CrawlInv'
  <1>1. Sound(inst[i], excuses) /\ (cur.owner = i => Leads(inst[i], cur, excuses, config.utxo[i]))
    BY DEF CrawlInv
  <1>2. Sound(inst'[i], excuses)
    BY <1>1, MovedIsSound
  <1>3. cur.owner = i => Leads(inst'[i], cur, excuses, config.utxo[i])
    BY <1>1, MovedLeads
  <1> QED BY <1>2, <1>3, QuietStep

\* Nothing is asked of a pipeline that is at none of these places.
LEMMA ElsewhereInStep ==
  ASSUME NEW k, NEW a, k.pc \notin {"stream", "persist", "rewind", "reorg"}
  PROVE InStep(k, a)
  BY DEF InStep

\* A step of a pipeline that ends or goes elsewhere keeps the invariant.
LEMMA ElsewhereStep ==
  ASSUME CrawlInv, NEW i \in Instances, inst[i].pc \notin Idle, OnlyCrawler(i), Rest,
         Moved(inst[i], inst'[i]), Quiet(cur, cur'), cur'.owner = cur.owner,
         cur.desired => cur'.desired \/ Broken(excuses),
         inst'[i].pc \notin {"stream", "persist", "rewind", "reorg"}
  PROVE CrawlInv'
  BY PipelineStep, ElsewhereInStep

\* An unchanged row is a quiet change.
LEMMA QuietSelf ==
  ASSUME CursorSound(cur), cur' = cur
  PROVE Quiet(cur, cur') /\ cur'.owner = cur.owner /\ cur'.desired = cur.desired
  BY DEF CursorSound, Quiet

--------------------------------------------------------------------------------
(* What the functions on the row and on the crawler object change.               *)

\* The row differs in lease time, status and error count only.
Calm(c, d) == Quiet(c, d) /\ d.set = c.set /\ d.owner = c.owner /\ d.desired = c.desired

\* Renewing, recording an error, a new status and an expiry are calm.
LEMMA CalmRows ==
  ASSUME NEW c, CursorSound(c)
  PROVE /\ Calm(c, c) /\ Calm(c, Renew(c)) /\ Calm(c, RecordError(c))
        /\ \A s : Calm(c, SetSyncStatus(Renew(c), s))
        /\ Calm(c, [c EXCEPT !.live = FALSE])
  <1>1. DOMAIN c = CursorFields
    BY DEF CursorSound
  <1>2. Calm(c, c) /\ Calm(c, Renew(c)) /\ Calm(c, [c EXCEPT !.live = FALSE])
    BY <1>1 DEF Calm, Quiet, Renew, CursorFields
  <1>3. Calm(c, RecordError(c))
    BY <1>1 DEF Calm, Quiet, Renew, RecordError, CursorFields
  <1>4. \A s : Calm(c, SetSyncStatus(Renew(c), s))
    BY <1>1 DEF Calm, Quiet, Renew, SetSyncStatus, CursorFields
  <1> QED BY <1>2, <1>3, <1>4

\* So is whatever recordCrawlerError leaves.
LEMMA CalmOutcome ==
  ASSUME CursorSound(cur), NEW i, NEW l, NEW o \in ErrorOutcomes(i, l)
  PROVE Calm(cur, o.cur)
  <1>1. o.cur = cur \/ o.cur = RecordError(cur)
    BY DEF ErrorOutcomes
  <1> QED BY <1>1, CalmRows

\* The object n is k at another place, halted or not.
Displaced(k, n) ==
  /\ DOMAIN n = CrawlerFields /\ n.seen = k.seen /\ n.at = k.at /\ n.src = k.src
  /\ n.anchor = k.anchor /\ n.late = k.late /\ (n.latch => k.latch)

\* What a halt leaves of a crawler object, and a change of place.
LEMMA HaltedFacts ==
  ASSUME NEW k, DOMAIN k = CrawlerFields, NEW status, NEW latch
  PROVE LET n == Halted(k, status, latch) IN
        /\ DOMAIN n = CrawlerFields /\ n.pc = k.pc /\ n.run = FALSE /\ n.seen = k.seen /\ n.at = k.at
        /\ n.todo = k.todo /\ n.src = k.src /\ n.anchor = k.anchor /\ n.late = k.late
        /\ n.latch => k.latch \/ latch
  BY DEF Halted, CrawlerFields

\* A halt leaves the object where it is.
LEMMA HaltedDisplaced ==
  ASSUME NEW k, DOMAIN k = CrawlerFields, NEW status
  PROVE Displaced(k, Halted(k, status, FALSE))
  BY DEF Halted, CrawlerFields, Displaced

\* A new place changes no other field.
LEMMA PlacedFacts ==
  ASSUME NEW k, DOMAIN k = CrawlerFields, NEW pc
  PROVE LET n == [k EXCEPT !.pc = pc] IN
        /\ DOMAIN n = CrawlerFields /\ n.pc = pc /\ n.run = k.run /\ n.seen = k.seen /\ n.at = k.at
        /\ n.todo = k.todo /\ n.src = k.src /\ n.anchor = k.anchor /\ n.late = k.late
        /\ n.latch = k.latch
  BY DEF CrawlerFields

\* A failure: the row is calm, and k halts or goes on with pagination.
Falls(i, k) ==
  /\ Calm(cur, cur') /\ OnlyCrawler(i)
  /\ Displaced(k, inst'[i]) /\ inst'[i].pc \in {"halt", "page"}

\* Become replaces the object of one process.
LEMMA BecomeFacts ==
  ASSUME DOMAIN inst = Instances, NEW i \in Instances, NEW k, NEW pc, DOMAIN k = CrawlerFields, Become(i, k, pc)
  PROVE OnlyCrawler(i) /\ inst'[i] = [k EXCEPT !.pc = pc] /\ Displaced(k, inst'[i]) /\ inst'[i].pc = pc
  <1>1. OnlyCrawler(i) /\ inst'[i] = [k EXCEPT !.pc = pc]
    BY DEF Become, OnlyCrawler
  <1> QED BY <1>1, PlacedFacts DEF Displaced

\* The three ways a failure ends: halt,
LEMMA HaltOnErrorFalls ==
  ASSUME CrawlInv, NEW i \in Instances, NEW k, NEW l, DOMAIN k = CrawlerFields,
         HaltOnError(i, k, l)
  PROVE Falls(i, k)
  <1>1. PICK o \in ErrorOutcomes(i, l) :
          cur' = o.cur /\ Become(i, Halted(k, IF o.streak < 0 THEN "stopped" ELSE "error", FALSE), "halt")
    BY DEF HaltOnError
  <1> DEFINE h == Halted(k, IF o.streak < 0 THEN "stopped" ELSE "error", FALSE)
  <1>2. Displaced(k, h)
    BY HaltedDisplaced
  <1>3. Calm(cur, cur')
    BY <1>1, CalmOutcome DEF CrawlInv
  <1>4. OnlyCrawler(i) /\ Displaced(h, inst'[i]) /\ inst'[i].pc = "halt"
    <2>1. DOMAIN h = CrawlerFields /\ Become(i, h, "halt") /\ DOMAIN inst = Instances
      BY <1>1, <1>2 DEF CrawlInv, Displaced
    <2> HIDE DEF h
    <2> QED BY <2>1, BecomeFacts
  <1> HIDE DEF h
  <1> QED BY <1>2, <1>3, <1>4 DEF Falls, Displaced

\* a halt that is written out,
LEMMA HaltBecomesFalls ==
  ASSUME CrawlInv, NEW i \in Instances, NEW k, NEW s, DOMAIN k = CrawlerFields,
         Calm(cur, cur'), Become(i, Halted(k, s, FALSE), "halt")
  PROVE Falls(i, k)
  <1> DEFINE h == Halted(k, s, FALSE)
  <1>1. Displaced(k, h) /\ Become(i, h, "halt")
    BY HaltedDisplaced
  <1> HIDE DEF h
  <1>2. DOMAIN h = CrawlerFields /\ DOMAIN inst = Instances
    BY <1>1 DEF CrawlInv, Displaced
  <1>3. OnlyCrawler(i) /\ Displaced(h, inst'[i]) /\ inst'[i].pc = "halt"
    BY <1>1, <1>2, BecomeFacts
  <1> QED BY <1>1, <1>3 DEF Falls, Displaced

\* another pagination round,
LEMMA RetryOnErrorFalls ==
  ASSUME CrawlInv, NEW i \in Instances, NEW k, NEW l, DOMAIN k = CrawlerFields, RetryOnError(i, k, l)
  PROVE Falls(i, k)
  <1>1. PICK o \in ErrorOutcomes(i, l) :
          /\ cur' = o.cur
          /\ \/ Become(i, Halted(k, "stopped", FALSE), "halt")
             \/ Become(i, Halted(k, "error", FALSE), "halt")
             \/ Become(i, [k EXCEPT !.todo = << >>], "page")
    BY DEF RetryOnError
  <1>2. Calm(cur, cur')
    BY <1>1, CalmOutcome DEF CrawlInv
  <1>3. CASE Become(i, Halted(k, "stopped", FALSE), "halt") \/ Become(i, Halted(k, "error", FALSE), "halt")
    BY <1>2, <1>3, HaltBecomesFalls
  <1>4. CASE Become(i, [k EXCEPT !.todo = << >>], "page")
    <2> DEFINE h == [k EXCEPT !.todo = << >>]
    <2>1. Displaced(k, h)
      BY DEF Displaced, CrawlerFields
    <2>2. Become(i, h, "page")
      BY <1>4
    <2> HIDE DEF h
    <2>3. DOMAIN h = CrawlerFields /\ DOMAIN inst = Instances
      BY <2>1 DEF CrawlInv, Displaced
    <2>4. OnlyCrawler(i) /\ Displaced(h, inst'[i]) /\ inst'[i].pc = "page"
      BY <2>2, <2>3, BecomeFacts
    <2> QED BY <1>2, <2>1, <2>4 DEF Falls, Displaced
  <1> QED BY <1>1, <1>3, <1>4

\* pagination instead of the stream.
LEMMA DegradedFalls ==
  ASSUME CrawlInv, NEW i \in Instances, NEW height, NEW k, NEW l, DOMAIN k = CrawlerFields,
         Degraded(i, height, k, l)
  PROVE Falls(i, k)
  <1>1. PICK o \in ErrorOutcomes(i, l) :
          /\ cur' = o.cur
          /\ \/ Become(i, Halted(k, "stopped", FALSE), "halt")
             \/ Become(i, [k EXCEPT !.until = height + 1, !.probe = FALSE], "page")
    BY DEF Degraded
  <1>2. Calm(cur, cur')
    BY <1>1, CalmOutcome DEF CrawlInv
  <1>3. CASE Become(i, Halted(k, "stopped", FALSE), "halt")
    BY <1>2, <1>3, HaltBecomesFalls
  <1>4. CASE Become(i, [k EXCEPT !.until = height + 1, !.probe = FALSE], "page")
    <2> DEFINE h == [k EXCEPT !.until = height + 1, !.probe = FALSE]
    <2>1. Displaced(k, h)
      BY DEF Displaced, CrawlerFields
    <2>2. Become(i, h, "page")
      BY <1>4
    <2> HIDE DEF h
    <2>3. DOMAIN h = CrawlerFields /\ DOMAIN inst = Instances
      BY <2>1 DEF CrawlInv, Displaced
    <2>4. OnlyCrawler(i) /\ Displaced(h, inst'[i]) /\ inst'[i].pc = "page"
      BY <2>2, <2>3, BecomeFacts
    <2> QED BY <1>2, <2>1, <2>4 DEF Falls, Displaced
  <1> QED BY <1>1, <1>3, <1>4

\* A failure keeps the invariant.
LEMMA FallsStep ==
  ASSUME CrawlInv, NEW i \in Instances, inst[i].pc \notin Idle, Rest, Falls(i, inst[i])
  PROVE CrawlInv'
  <1>1. Sound(inst[i], excuses)
    BY DEF CrawlInv
  <1>2. /\ Moved(inst[i], inst'[i]) /\ inst'[i].pc \notin {"stream", "persist", "rewind", "reorg"}
    BY <1>1 DEF Moved, Idle, Falls, Displaced, Sound
  <1>3. OnlyCrawler(i) /\ Quiet(cur, cur') /\ cur'.owner = cur.owner /\ (cur.desired => cur'.desired \/ Broken(excuses))
    BY DEF Falls, Calm
  <1> QED BY <1>2, <1>3, ElsewhereStep

\* A halt without a word to the row is a failure too.
LEMMA HaltFalls ==
  ASSUME CrawlInv, NEW i \in Instances, NEW s, Halt(i, s, FALSE), cur' = cur
  PROVE Falls(i, inst[i])
  <1>1. Calm(cur, cur')
    BY CalmRows DEF CrawlInv
  <1>2. DOMAIN inst[i] = CrawlerFields
    BY DEF CrawlInv, Sound
  <1> QED BY <1>1, <1>2, HaltBecomesFalls DEF Halt

\* inst' changes one field, or replaces the object.
LEMMA GotoFacts ==
  ASSUME CrawlInv, NEW i \in Instances, NEW pc, Goto(i, pc)
  PROVE OnlyCrawler(i) /\ inst'[i] = [inst[i] EXCEPT !.pc = pc]
  BY DEF Goto, OnlyCrawler, CrawlInv

--------------------------------------------------------------------------------
(* Life cycle of a process.                                                      *)

\* The object of a process without a crawler is well formed.
LEMMA GoneFacts ==
  ASSUME NEW i, NEW e
  PROVE Sound(Gone(i), e) /\ Gone(i).pc = "off"
  BY StartIsBlock DEF Gone, NoCrawler, Sound, CrawlerFields

\* Nothing is asked of an object that is not there or waits for the lease.
LEMMA IdleLeads ==
  ASSUME NEW k, NEW c, NEW e, NEW m, k.pc \in {"off", "lease"}
  PROVE Leads(k, c, e, m)
  BY DEF Leads, InStep, SetInStep

\* The lease of a crawler object that is gone.
LEMMA GivesUpRow ==
  ASSUME CursorSound(cur), NEW i
  PROVE LET c == Abandoned(i) IN
        /\ Quiet(cur, c) /\ c.owner \in {cur.owner, DeadOwner} /\ c.desired = cur.desired
        /\ cur.owner = i => c.owner = DeadOwner
  BY DEF Abandoned, Quiet, CursorSound, CursorFields

\* startCrawler, a standby timer: a new object.
LEMMA StartAttemptStep ==
  ASSUME CrawlInv, NEW i \in Instances, StartAttempt(i), imp' = imp
  PROVE CrawlInv'
  <1> DEFINE n == [Gone(i) EXCEPT !.pc = "lease", !.seen = IF config.utxo[i] THEN cur ELSE @]
  <1>1. Rest /\ cur' = cur /\ inst' = [inst EXCEPT ![i] = n]
    BY DEF StartAttempt, Rest
  <1>2. Sound(n, excuses) /\ n.pc = "lease"
    BY StartIsBlock DEF Gone, NoCrawler, Sound, CrawlerFields
  <1> HIDE DEF n
  <1>3. OnlyCrawler(i) /\ inst'[i] = n
    BY <1>1 DEF OnlyCrawler, CrawlInv
  <1>4. Quiet(cur, cur') /\ cur'.owner = cur.owner /\ cur'.desired = cur.desired
    BY <1>1, QuietSelf DEF CrawlInv
  <1> QED BY <1>1, <1>2, <1>3, <1>4, QuietStep, IdleLeads

\* The start under the lease: the "start" exception is what the read before it missed.
LEMMA StartLeaseStep ==
  ASSUME CrawlInv, NEW i \in Instances, StartLease(i), imp' = imp
  PROVE CrawlInv'
  <1>1. /\ Sound(inst[i], excuses) /\ DOMAIN inst = Instances /\ DOMAIN cur = CursorFields
        /\ inst[i].pc = "lease"
    BY DEF CrawlInv, CursorSound, StartLease
  <1>2. CASE CanAcquire(cur, i)
    <2>1. /\ cur' = TakeLease(cur, i)
          /\ inst' = [inst EXCEPT ![i].pc = "anchor", ![i].run = TRUE]
          /\ excuses' = IF config.utxo[i] /\ SetState(cur) # SetState(inst[i].seen)
                        THEN excuses \union {"start"} ELSE excuses
          /\ UNCHANGED <<stored, chain, config, paused, imp>>
      BY <1>2 DEF StartLease
    <2>2. /\ Quiet(cur, cur') /\ cur'.owner = i /\ cur'.desired = cur.desired
      BY <1>1, <2>1 DEF TakeLease, Quiet, CursorFields
    <2>3. OnlyCrawler(i) /\ inst'[i] = [inst[i] EXCEPT !.pc = "anchor", !.run = TRUE]
      BY <1>1, <2>1 DEF OnlyCrawler
    <2>4. DOMAIN inst'[i] = CrawlerFields /\ inst'[i].pc = "anchor" /\ inst'[i].seen = inst[i].seen
      BY <1>1, <2>3 DEF Sound, CrawlerFields
    <2>5. Grows(excuses, excuses')
      BY <2>1 DEF Grows
    <2>6. Sound(inst'[i], excuses')
      <3>1. Sound(inst'[i], excuses)
        BY <1>1, <2>3 DEF Sound, CrawlerFields, Idle
      <3> QED BY <2>5, <3>1, SoundKept
    <2>7. ASSUME Kept(excuses'), config.utxo[i] PROVE SetState(cur) = SetState(inst[i].seen)
      BY <2>1, <2>7 DEF Kept
    <2>8. Kept(excuses') => SetInStep(inst'[i], cur', config.utxo[i])
      <3>1. ASSUME Kept(excuses'), config.utxo[i]
            PROVE /\ cur'.anchor = inst[i].seen.anchor
                  /\ cur'.set = "active" => inst[i].seen.set = "active" /\ (StaleSet(cur') <=> StaleSet(inst[i].seen))
        <4>1. cur.set = inst[i].seen.set /\ cur.anchor = inst[i].seen.anchor /\ StaleSet(cur) = StaleSet(inst[i].seen)
          BY <2>7, <3>1 DEF SetState
        <4> QED BY <2>2, <4>1, QuietKeepsSet DEF Quiet
      <3> QED BY <2>4, <3>1 DEF SetInStep
    <2>9. Leads(inst'[i], cur', excuses', config.utxo[i])
      BY <2>4, <2>8, ElsewhereInStep DEF Leads
    <2>10. chain' \in Blocks /\ ImportsSound(cur', imp')
      BY <2>1, <2>2, ImportsKept DEF CrawlInv, Quiet
    <2>11. cur'.desired \/ paused' \/ Broken(excuses)
      BY <2>1, <2>2 DEF CrawlInv
    <2>12. config' = config /\ stored' = stored
      BY <2>1
    <2>13. cur'.owner \in {cur.owner, i, NoOwner, DeadOwner}
      BY <2>2
    <2> QED BY <2>2, <2>3, <2>5, <2>6, <2>9, <2>10, <2>11, <2>12, <2>13, ProcessStep
  <1>3. CASE ~CanAcquire(cur, i)
    <2>1. cur' = cur /\ inst' = [inst EXCEPT ![i] = Gone(i)] /\ Rest
      BY <1>3 DEF StartLease, Rest
    <2>2. OnlyCrawler(i) /\ inst'[i] = Gone(i)
      BY <1>1, <2>1 DEF OnlyCrawler
    <2>3. Quiet(cur, cur') /\ cur'.owner = cur.owner /\ cur'.desired = cur.desired
      BY <2>1, QuietSelf DEF CrawlInv
    <2>4. Sound(inst'[i], excuses) /\ inst'[i].pc = "off"
      BY <2>2, GoneFacts
    <2> QED BY <2>1, <2>2, <2>3, <2>4, QuietStep, IdleLeads
  <1> QED BY <1>2, <1>3

\* The start looks at the set: it trusts it, or gives it up.
LEMMA StartAnchorStep ==
  ASSUME CrawlInv, NEW i \in Instances, StartAnchor(i), imp' = imp
  PROVE CrawlInv'
  <1> DEFINE seen == inst[i].seen
             stale == Invalidates(i, seen)
             keep == config.utxo[i] /\ seen.set = "active" /\ ~stale
             n == [inst[i] EXCEPT !.pc = "open", !.seen = NewCursor, !.anchor = IF keep THEN seen.anchor ELSE NoBlock]
  <1>1. Sound(inst[i], excuses) /\ DOMAIN inst = Instances /\ CursorSound(cur) /\ inst[i].pc = "anchor"
    BY DEF CrawlInv, StartAnchor
  <1>2. UNCHANGED <<stored, chain, config, paused, imp>> /\ Grows(excuses, excuses')
    BY DEF StartAnchor, Grows
  <1>3. CASE cur' = (IF stale THEN [cur EXCEPT !.set = "invalid"] ELSE cur) /\ inst' = [inst EXCEPT ![i] = n]
    <2>1. OnlyCrawler(i) /\ inst'[i] = n
      BY <1>1, <1>3 DEF OnlyCrawler
    <2>2. /\ DOMAIN n = CrawlerFields /\ n.pc = "open" /\ n.anchor = (IF keep THEN seen.anchor ELSE NoBlock)
          /\ Sound(n, excuses)
      BY <1>1 DEF Sound, CrawlerFields, Idle
    <2>3. /\ Quiet(cur, cur') /\ cur'.owner = cur.owner /\ cur'.desired = cur.desired
          /\ cur'.set = IF stale THEN "invalid" ELSE cur.set
      BY <1>1, <1>3 DEF Quiet, CursorSound, CursorFields
    <2>4. ASSUME cur.owner = i, Kept(excuses') PROVE SetInStep(n, cur', config.utxo[i])
      <3>1. config.utxo[i] => /\ cur.anchor = seen.anchor
                              /\ cur.set = "active" => seen.set = "active" /\ (StaleSet(cur) <=> StaleSet(seen))
        <4>1. Kept(excuses)
          BY <1>2, <2>4 DEF Kept, Grows
        <4> QED BY <1>1, <2>4, <4>1 DEF CrawlInv, Leads, SetInStep
      <3>2. n.anchor \in {NoBlock, cur'.anchor}
        BY <2>2, <2>3, <3>1 DEF Quiet
      <3>3. ASSUME config.utxo[i], cur'.set = "active" PROVE n.anchor # NoBlock /\ ~StaleSet(cur')
        <4>1. ~stale /\ cur.set = "active" /\ cur' = cur
          BY <1>3, <2>3, <3>3
        <4>2. keep /\ ~StaleSet(cur)
          BY <3>1, <3>3, <4>1 DEF Invalidates
        <4>3. n.anchor = cur.anchor /\ cur.anchor # NoBlock
          BY <1>1, <2>2, <3>1, <4>2, CrawlerAssumption DEF CursorSound, Blocks
        <4> QED BY <4>1, <4>2, <4>3
      <3> QED BY <2>2, <3>2, <3>3 DEF SetInStep
    <2>5. cur'.owner = i => Leads(n, cur', excuses', config.utxo[i])
      BY <2>2, <2>3, <2>4, ElsewhereInStep DEF Leads
    <2>6. Sound(n, excuses')
      BY <1>2, <2>2, SoundKept
    <2>7. chain' \in Blocks /\ ImportsSound(cur', imp')
      BY <1>2, <2>3, ImportsKept DEF CrawlInv, Quiet
    <2>8. cur'.desired \/ paused' \/ Broken(excuses)
      BY <1>2, <2>3 DEF CrawlInv
    <2>9. config' = config /\ stored' = stored
      BY <1>2
    <2> HIDE DEF n
    <2>10. Sound(inst'[i], excuses') /\ (cur'.owner = i => Leads(inst'[i], cur', excuses', config.utxo[i]))
      BY <2>1, <2>5, <2>6
    <2>11. cur'.owner \in {cur.owner, i, NoOwner, DeadOwner}
      BY <2>3
    <2> QED BY <1>2, <2>1, <2>3, <2>7, <2>8, <2>9, <2>10, <2>11, ProcessStep
  <1>4. CASE Rest /\ cur' = Abandoned(i) /\ inst' = [inst EXCEPT ![i] = Gone(i)]
    <2>1. OnlyCrawler(i) /\ inst'[i] = Gone(i)
      BY <1>1, <1>4 DEF OnlyCrawler
    <2>2. Sound(inst'[i], excuses) /\ inst'[i].pc = "off"
      BY <2>1, GoneFacts
    <2>3. Quiet(cur, cur') /\ cur'.owner \in {cur.owner, DeadOwner} /\ cur'.desired = cur.desired
      BY <1>1, <1>4, GivesUpRow
    <2> QED BY <1>4, <2>1, <2>2, <2>3, QuietStep, IdleLeads, OwnerIsOther
  <1>5. \/ cur' = (IF stale THEN [cur EXCEPT !.set = "invalid"] ELSE cur) /\ inst' = [inst EXCEPT ![i] = n]
        \/ Rest /\ cur' = Abandoned(i) /\ inst' = [inst EXCEPT ![i] = Gone(i)]
    BY <1>1 DEF StartAnchor, Rest
  <1> QED BY <1>3, <1>4, <1>5

\* A crawler object at the same place, halted or not, leads as before.
SamePlace(k, n) ==
  /\ n.pc = k.pc /\ n.at = k.at /\ n.todo = k.todo /\ n.src = k.src /\ n.seen = k.seen /\ n.anchor = k.anchor

\* A halt at the same place leaves the leader in step.
LEMMA SameLeads ==
  ASSUME NEW k, NEW n, NEW c, NEW e, NEW m, Leads(k, c, e, m), SamePlace(k, n)
  PROVE Leads(n, c, e, m)
  BY DEF Leads, InStep, SetInStep, SamePlace

\* A halt keeps the object well formed and at its place.
LEMMA HaltedKept ==
  ASSUME NEW k, NEW e, NEW s, Sound(k, e), k.pc # "anchor"
  PROVE Sound(Halted(k, s, FALSE), e) /\ SamePlace(k, Halted(k, s, FALSE))
  BY DEF Sound, Halted, CrawlerFields, SamePlace

\* stopCrawler, with or without withdrawing the intent.
LEMMA ApplyStopStep ==
  ASSUME CrawlInv, NEW i \in Instances, ApplyStop(i), imp' = imp
  PROVE CrawlInv'
  <1> DEFINE n == IF inst[i].pc = "off" THEN inst[i] ELSE Halted(inst[i], "stopped", FALSE)
  <1>1. Sound(inst[i], excuses) /\ DOMAIN inst = Instances /\ CursorSound(cur) /\ inst[i].pc # "anchor"
    BY DEF CrawlInv, ApplyStop
  <1>2. Sound(n, excuses) /\ SamePlace(inst[i], n)
    <2>1. CASE inst[i].pc = "off"
      <3>1. n = inst[i]
        BY <2>1
      <3> HIDE DEF n
      <3> QED BY <1>1, <3>1 DEF SamePlace
    <2>2. CASE inst[i].pc # "off"
      <3>1. n = Halted(inst[i], "stopped", FALSE)
        BY <2>2
      <3> HIDE DEF n
      <3> QED BY <1>1, <3>1, HaltedKept
    <2> QED BY <2>1, <2>2
  <1>3. OnlyCrawler(i) /\ inst'[i] = n
    BY <1>1 DEF OnlyCrawler, ApplyStop
  <1>4. /\ stored' = stored /\ chain' = chain /\ config' = config /\ excuses' = excuses /\ imp' = imp
        /\ paused' = (paused \/ stopping[i] = "pause")
        /\ cur' = IF stopping[i] = "pause" THEN SetDesiredRunning(cur, FALSE) ELSE cur
    BY DEF ApplyStop
  <1> HIDE DEF n
  <1>5. /\ Quiet(cur, cur') /\ cur'.owner = cur.owner
        /\ stopping[i] # "pause" => cur'.desired = cur.desired
    BY <1>1, <1>4 DEF SetDesiredRunning, Quiet, CursorSound, CursorFields
  <1>6. Grows(excuses, excuses')
    BY <1>4 DEF Grows
  <1>7. cur'.owner = i => Leads(inst'[i], cur', excuses', config.utxo[i])
    <2>1. cur.owner = i => Leads(n, cur, excuses, config.utxo[i])
      BY <1>2, SameLeads DEF CrawlInv
    <2> QED BY <1>3, <1>5, <1>6, <2>1, LeadsKept
  <1>8. chain' \in Blocks /\ ImportsSound(cur', imp')
    BY <1>4, <1>5, ImportsKept DEF CrawlInv, Quiet
  <1>9. cur'.desired \/ paused' \/ Broken(excuses)
    BY <1>4, <1>5 DEF CrawlInv
  <1>10. Sound(inst'[i], excuses') /\ config' = config /\ stored' = stored
    BY <1>2, <1>3, <1>4
  <1>11. cur'.owner \in {cur.owner, i, NoOwner, DeadOwner}
    BY <1>5
  <1> QED BY <1>3, <1>5, <1>6, <1>7, <1>8, <1>9, <1>10, <1>11, ProcessStep

\* Operators ask for a stop, a resume or a restart.
LEMMA OperatorStep ==
  ASSUME CrawlInv, NEW i \in Instances, Operator(i), imp' = imp
  PROVE CrawlInv'
  <1>1. CursorSound(cur)
    BY DEF CrawlInv
  <1>2. CASE RequestStop(i) \/ Boot(i) \/ EnsureBackendInitialized(i)
    <2>1. UNCHANGED <<cur, inst, stored, chain, config, excuses, imp>> /\ paused' = paused
      BY <1>2 DEF RequestStop, Boot, EnsureBackendInitialized
    <2>2. Quiet(cur, cur') /\ cur'.owner = cur.owner /\ cur'.desired = cur.desired
      BY <1>1, <2>1, QuietSelf
    <2>3. cur'.desired \/ paused' \/ Broken(excuses)
      BY <2>1, <2>2 DEF CrawlInv
    <2> QED BY <2>1, <2>2, <2>3, RowStep
  <1>3. CASE ResumeCrawler(i)
    <2>1. UNCHANGED <<inst, stored, chain, config, excuses, imp>> /\ cur' = SetDesiredRunning(cur, TRUE)
      BY <1>3 DEF ResumeCrawler
    <2>2. Quiet(cur, cur') /\ cur'.owner = cur.owner /\ cur'.desired = TRUE
      BY <1>1, <2>1 DEF SetDesiredRunning, Quiet, CursorSound, CursorFields
    <2> QED BY <2>1, <2>2, RowStep
  <1> QED BY <1>2, <1>3 DEF Operator

\* A process is gone, with its crawler object and its import call.
LEMMA CrashStep ==
  ASSUME CrawlInv, NEW i \in Instances, Crash(i), imp' = [imp EXCEPT ![i] = NoImport]
  PROVE CrawlInv'
  <1>1. CursorSound(cur) /\ DOMAIN inst = Instances /\ ImportsSound(cur, imp)
    BY DEF CrawlInv
  <1>2. OnlyCrawler(i) /\ inst'[i] = NoCrawler
    BY <1>1 DEF OnlyCrawler, Crash
  <1>3. UNCHANGED <<stored, chain, config, paused, excuses>> /\ cur' = Orphaned(i)
    BY DEF Crash
  <1>4. Sound(NoCrawler, excuses) /\ NoCrawler.pc = "off"
    BY StartIsBlock DEF NoCrawler, Sound, CrawlerFields
  <1>5. Quiet(cur, cur') /\ cur'.owner \in {cur.owner, DeadOwner} /\ cur'.desired = cur.desired
    BY <1>1, <1>3 DEF Orphaned, Quiet, CursorSound, CursorFields
  <1>6. Grows(excuses, excuses') /\ excuses' = excuses
    BY <1>3 DEF Grows
  <1>7. ImportsSound(cur', imp')
    <2>1. ImportSound(NoImport) /\ ~Loading(NoImport)
      BY DEF NoImport, ImportSound, ImportFields, Loading
    <2>2. ImportsSound(cur, imp')
      BY <1>1, <2>1 DEF ImportsSound
    <2> QED BY <1>5, <2>2, ImportsKept DEF Quiet
  <1>8. cur'.desired \/ paused' \/ Broken(excuses)
    BY <1>3, <1>5 DEF CrawlInv
  <1>9. chain' \in Blocks /\ config' = config /\ stored' = stored
    BY <1>3 DEF CrawlInv
  <1>10. Sound(inst'[i], excuses') /\ (cur'.owner = i => Leads(inst'[i], cur', excuses', config.utxo[i]))
    BY <1>2, <1>4, <1>6, IdleLeads
  <1>11. cur'.owner \in {cur.owner, i, NoOwner, DeadOwner}
    BY <1>5, OwnerIsOther
  <1> QED BY <1>2, <1>5, <1>6, <1>7, <1>8, <1>9, <1>10, <1>11, ProcessStep

\* The heartbeat renews the lease or halts.
LEMMA HeartbeatStep ==
  ASSUME CrawlInv, NEW i \in Instances, Heartbeat(i), imp' = imp
  PROVE CrawlInv'
  <1>1. Sound(inst[i], excuses) /\ DOMAIN inst = Instances /\ CursorSound(cur) /\ inst[i].pc # "anchor" /\ Rest
    BY DEF CrawlInv, Heartbeat, Rest
  <1>2. Calm(cur, cur')
    <2>1. cur' \in {cur, Renew(cur), RecordError(cur)}
      BY DEF Heartbeat
    <2> QED BY <1>1, <2>1, CalmRows
  <1>3. CASE inst' = inst
    <2>1. OnlyCrawler(i) /\ Sound(inst'[i], excuses) /\ (cur.owner = i => Leads(inst'[i], cur, excuses, config.utxo[i]))
      BY <1>1, <1>3 DEF OnlyCrawler, CrawlInv
    <2> QED BY <1>1, <1>2, <2>1, QuietStep DEF Calm
  <1>4. ASSUME NEW s, inst' = [inst EXCEPT ![i] = Halted(@, s, FALSE)] PROVE CrawlInv'
    <2>1. OnlyCrawler(i) /\ inst'[i] = Halted(inst[i], s, FALSE)
      BY <1>1, <1>4 DEF OnlyCrawler
    <2>2. Sound(inst'[i], excuses)
      BY <1>1, <2>1, HaltedKept
    <2>3. cur.owner = i => Leads(inst'[i], cur, excuses, config.utxo[i])
      <3>1. SamePlace(inst[i], inst'[i])
        BY <1>1, <2>1, HaltedKept
      <3> QED BY <3>1, SameLeads DEF CrawlInv
    <2> QED BY <1>1, <1>2, <2>1, <2>2, <2>3, QuietStep DEF Calm
  <1>5. \/ inst' = inst
        \/ inst' = [inst EXCEPT ![i] = Halted(@, "stopped", FALSE)]
        \/ inst' = [inst EXCEPT ![i] = Halted(@, IF Holds(cur, i) THEN "error" ELSE "stopped", FALSE)]
    BY DEF Heartbeat
  <1> QED BY <1>3, <1>4, <1>5

\* A halted pipeline comes to its end,
LEMMA DrainStep ==
  ASSUME CrawlInv, NEW i \in Instances, Drain(i), imp' = imp
  PROVE CrawlInv'
  <1>1. Sound(inst[i], excuses) /\ CursorSound(cur) /\ Rest /\ cur' = cur
    BY DEF CrawlInv, Drain, Rest
  <1>2. inst[i].pc \notin Idle
    BY <1>1 DEF Drain, Idle, Sound
  <1>3. OnlyCrawler(i) /\ inst'[i] = [inst[i] EXCEPT !.pc = "halt"]
    BY GotoFacts DEF Drain
  <1>4. Falls(i, inst[i])
    <2>1. DOMAIN inst[i] = CrawlerFields
      BY <1>1 DEF Sound
    <2>2. Displaced(inst[i], inst'[i]) /\ inst'[i].pc = "halt"
      BY <1>3, <2>1, PlacedFacts DEF Displaced
    <2> QED BY <1>1, <1>3, <2>2, CalmRows DEF Falls
  <1> QED BY <1>1, <1>2, <1>4, FallsStep

\* and gives the lease back.
LEMMA ReleaseStep ==
  ASSUME CrawlInv, NEW i \in Instances, Release(i), imp' = imp
  PROVE CrawlInv'
  <1>1. Sound(inst[i], excuses) /\ CursorSound(cur) /\ Rest /\ DOMAIN inst = Instances
    BY DEF CrawlInv, Release, Rest
  <1>2. OnlyCrawler(i) /\ inst'[i] = Gone(i)
    BY <1>1 DEF Release, OnlyCrawler
  <1>3. Sound(inst'[i], excuses) /\ inst'[i].pc = "off"
    BY <1>2, GoneFacts
  <1>4. /\ Quiet(cur, cur') /\ cur'.owner \in {cur.owner, DeadOwner, NoOwner}
        /\ cur.desired => cur'.desired \/ Broken(excuses)
    <2>1. CASE cur' = Abandoned(i)
      BY <1>1, <2>1, GivesUpRow
    <2>2. CASE cur' = ReleaseLease(cur, i, inst[i].final, inst[i].latch)
      BY <1>1, <2>2 DEF ReleaseLease, Quiet, CursorSound, CursorFields, Sound
    <2> QED BY <2>1, <2>2 DEF Release
  <1> QED BY <1>1, <1>2, <1>3, <1>4, QuietStep, IdleLeads, OwnerIsOther

--------------------------------------------------------------------------------
(* The pipeline.                                                                 *)

\* The node intersects at or before the cursor, on its line.
LEMMA IntersectionFacts ==
  ASSUME CrawlInv
  PROVE /\ Intersection \in Blocks /\ Slot(Intersection) <= Slot(cur.at)
        /\ Clean(excuses) => IsAncestor(Intersection, cur.at)
  <1> DEFINE points == {Start, cur.at} \union {b \in stored : Slot(b) < Slot(cur.at)}
             found == {b \in points : IsAncestor(b, chain)}
  <1>1. cur.at \in Blocks /\ stored \subseteq Blocks /\ chain \in Blocks
    BY DEF CrawlInv, CursorSound, RowsFit
  <1>2. found \in SUBSET Blocks /\ found # {}
    BY <1>1, StartIsBlock
  <1>3. \E b \in found : \A p \in found : Slot(p) <= Slot(b)
    <2> HIDE DEF found
    <2> QED BY <1>2, GreatestBlock
  <1>4. Intersection \in points
    BY <1>3 DEF Intersection
  <1>5. \A b \in points : b \in Blocks /\ Slot(b) <= Slot(cur.at)
    BY <1>1, StartIsBlock, BlockIsSeq, CrawlerAssumption
  <1>6. ASSUME Clean(excuses), NEW b \in points PROVE IsAncestor(b, cur.at)
    <2>1. CASE b = Start
      BY <1>1, <2>1, StartIsBlock
    <2>2. CASE b = cur.at
      BY <1>1, <2>2, AncestorOrder
    <2>3. CASE b \in stored
      BY <1>1, <1>6, <2>3, LineIs DEF CrawlInv, RowsFit
    <2> QED BY <2>1, <2>2, <2>3
  <1> HIDE DEF points
  <1> QED BY <1>4, <1>5, <1>6

\* A fork begins at an ancestor.
LEMMA CommonAncestorFacts ==
  ASSUME NEW a \in Blocks, NEW b \in Blocks
  PROVE CommonAncestor(a, b) \in Blocks /\ IsAncestor(CommonAncestor(a, b), a)
  <1> DEFINE shared == {n \in 0..Slot(a) : n <= Slot(b) /\ Ancestor(a, n) = Ancestor(b, n)}
             fork == CHOOSE n \in shared : \A m \in shared : m <= n
  <1>1. Slot(a) \in Nat /\ Slot(b) \in Nat
    BY BlockIsSeq, CrawlerAssumption
  <1>2. Ancestor(a, 0) = Ancestor(b, 0)
    <2>1. /\ Ancestor(a, 0) \in Blocks /\ Slot(Ancestor(a, 0)) = 0
          /\ Ancestor(b, 0) \in Blocks /\ Slot(Ancestor(b, 0)) = 0
      BY <1>1, AncestorIsAncestor
    <2> QED BY <2>1, StartIsBlock, AncestorOrder
  <1>3. shared \in SUBSET (0..Slot(a)) /\ shared # {}
    BY <1>1, <1>2
  <1>4. \E n \in shared : \A m \in shared : m <= n
    <2> HIDE DEF shared
    <2> QED BY <1>1, <1>3, GreatestNumber
  <1>5. fork \in 0..Slot(a)
    BY <1>4
  <1>6. CommonAncestor(a, b) = Ancestor(a, fork)
    BY DEF CommonAncestor
  <1> HIDE DEF fork
  <1> QED BY <1>5, <1>6, AncestorIsAncestor

\* The steps of the pipeline, each by what it becomes.
LEMMA OpenSourceStep ==
  ASSUME CrawlInv, ReadyInv, NEW i \in Instances, OpenSource(i), imp' = imp
  PROVE CrawlInv'
  <1>1. /\ Sound(inst[i], excuses) /\ CursorSound(cur) /\ cur' = cur /\ inst[i].pc \notin Idle
        /\ UNCHANGED <<stored, chain, config, paused, imp>>
    BY DEF CrawlInv, OpenSource, At, Idle
  <1>2. Quiet(cur, cur') /\ cur'.owner = cur.owner /\ cur'.desired = cur.desired
    BY <1>1, QuietSelf
  <1>3. CASE Goto(i, "connect") /\ excuses' = excuses
    <2>1. OnlyCrawler(i) /\ inst'[i] = [inst[i] EXCEPT !.pc = "connect"]
      BY <1>3, GotoFacts
    <2>2. Moved(inst[i], inst'[i]) /\ inst'[i].pc = "connect"
      BY <1>1, <2>1 DEF Moved, Sound, CrawlerFields, Idle
    <2> QED BY <1>1, <1>2, <1>3, <2>1, <2>2, ElsewhereStep DEF Rest
  <1>4. CASE /\ inst' = [inst EXCEPT ![i].pc = "page", ![i].probe = config.source = "auto"]
             /\ excuses' = excuses
    <2>1. OnlyCrawler(i) /\ inst'[i] = [inst[i] EXCEPT !.pc = "page", !.probe = config.source = "auto"]
      BY <1>4 DEF OnlyCrawler, CrawlInv
    <2>2. Moved(inst[i], inst'[i]) /\ inst'[i].pc = "page"
      BY <1>1, <2>1 DEF Moved, Sound, CrawlerFields, Idle
    <2> QED BY <1>1, <1>2, <1>4, <2>1, <2>2, ElsewhereStep DEF Rest
  <1>5. CASE /\ ~CanSync(i) /\ ~CanPage(i) /\ Halt(i, "error", TRUE)
             /\ excuses' = IF NothingToFollow THEN excuses ELSE excuses \union {"uninit"}
    <2>1. OnlyCrawler(i) /\ inst'[i] = [Halted(inst[i], "error", TRUE) EXCEPT !.pc = "halt"]
      BY <1>5 DEF Halt, Become, OnlyCrawler, CrawlInv
    <2>2. config.source # "auto"
      <3>1. usable[i] # {} /\ usable[i] \subseteq {"chain-sync", "pagination"}
        BY <1>1 DEF ReadyInv, Idle, Kinds
      <3>2. ASSUME config.source = "auto" PROVE FALSE
        BY <1>5, <3>1, <3>2 DEF CanSync, CanPage
      <3> QED BY <3>2
    <2>3. Broken(excuses') /\ Grows(excuses, excuses')
      BY <1>5, <2>2 DEF Broken, Grows
    <2>4. /\ DOMAIN inst'[i] = CrawlerFields /\ inst'[i].pc = "halt" /\ inst'[i].late = inst[i].late
          /\ inst'[i].at = inst[i].at /\ inst'[i].src = inst[i].src /\ inst'[i].anchor = inst[i].anchor
      BY <1>1, <2>1 DEF Halted, Sound, CrawlerFields
    <2>5. Sound(inst'[i], excuses')
      BY <1>1, <2>3, <2>4 DEF Sound, Idle, Grows
    <2>6. cur'.owner = i => Leads(inst'[i], cur', excuses', config.utxo[i])
      <3>1. cur.owner = i => Leads(inst[i], cur, excuses', config.utxo[i])
        <4>1. Quiet(cur, cur)
          BY <1>1, <1>2
        <4> QED BY <2>3, <4>1, LeadsKept DEF CrawlInv
      <3>2. cur.owner = i /\ Kept(excuses') => SetInStep(inst'[i], cur, config.utxo[i])
        BY <1>1, <2>4, <3>1 DEF Leads, SetInStep, Idle
      <3> QED BY <1>1, <2>4, <3>2, ElsewhereInStep DEF Leads
    <2>7. chain' \in Blocks /\ ImportsSound(cur', imp')
      BY <1>1 DEF CrawlInv
    <2> QED BY <1>1, <1>2, <2>1, <2>3, <2>5, <2>6, <2>7, ProcessStep
  <1> QED BY <1>3, <1>4, <1>5 DEF OpenSource

\* A new stream begins with a roll-backward to the intersection.
LEMMA RunChainSyncStep ==
  ASSUME CrawlInv, NEW i \in Instances, RunChainSync(i), imp' = imp
  PROVE CrawlInv'
  <1>1. Sound(inst[i], excuses) /\ CursorSound(cur) /\ Rest /\ inst[i].pc \notin Idle
    BY DEF CrawlInv, RunChainSync, Rest, At, Idle
  <1>2. CASE /\ inst' = [inst EXCEPT ![i].pc = "rewind", ![i].at = Intersection, ![i].until = 0,
                                     ![i].probe = FALSE, ![i].prog = FALSE, ![i].src = "stream"]
             /\ cur' = cur
    <2>1. OnlyCrawler(i) /\ inst'[i] = [inst[i] EXCEPT !.pc = "rewind", !.at = Intersection, !.until = 0,
                                                       !.probe = FALSE, !.prog = FALSE, !.src = "stream"]
      BY <1>2 DEF OnlyCrawler, CrawlInv
    <2>2. /\ Intersection \in Blocks /\ Slot(Intersection) <= Slot(cur.at)
          /\ Clean(excuses) => IsAncestor(Intersection, cur.at)
      BY IntersectionFacts
    <2>3. Moved(inst[i], inst'[i]) /\ inst'[i].pc = "rewind" /\ inst'[i].at = Intersection
      BY <1>1, <2>1, <2>2 DEF Moved, Sound, CrawlerFields, Idle
    <2>4. InStep(inst'[i], cur.at)
      BY <2>2, <2>3 DEF InStep
    <2>5. Quiet(cur, cur') /\ cur'.owner = cur.owner /\ cur'.desired = cur.desired
      BY <1>1, <1>2, QuietSelf
    <2> QED BY <1>1, <2>1, <2>2, <2>3, <2>4, <2>5, PipelineStep
  <1>3. CASE HaltOnError(i, inst[i], [left EXCEPT !.outages = @ - 1])
    BY <1>1, <1>3, HaltOnErrorFalls, FallsStep DEF Sound
  <1> QED BY <1>2, <1>3 DEF RunChainSync

\* Of two neighbours in the chain the second is the child of the first.
LEMMA NextIsChild ==
  ASSUME NEW c \in Blocks, NEW n \in Nat, n + 1 <= Slot(c)
  PROVE Child(Ancestor(c, n), Ancestor(c, n + 1))
  <1>1. Slot(c) \in Nat /\ n \in 0..Slot(c) /\ n + 1 \in 0..Slot(c)
    BY BlockIsSeq, CrawlerAssumption
  <1>2. /\ Ancestor(c, n) \in Blocks /\ Slot(Ancestor(c, n)) = n /\ IsAncestor(Ancestor(c, n), c)
        /\ Ancestor(c, n + 1) \in Blocks /\ Slot(Ancestor(c, n + 1)) = n + 1 /\ IsAncestor(Ancestor(c, n + 1), c)
    BY <1>1, AncestorIsAncestor
  <1>3. IsAncestor(Ancestor(c, n), Ancestor(c, n + 1))
    BY <1>2, AncestorOrder
  <1> QED BY <1>2, <1>3 DEF Child

\* A stream hands out the block after the one it stands at.
LEMMA RollForwardStep ==
  ASSUME CrawlInv, NEW i \in Instances, RollForward(i), imp' = imp
  PROVE CrawlInv'
  <1> DEFINE k == inst[i]
             b == Ancestor(chain, Slot(k.at) + 1)
  <1>1. /\ Sound(k, excuses) /\ CursorSound(cur) /\ Rest /\ cur' = cur /\ k.pc = "stream" /\ k.pc \notin Idle
        /\ IsAncestor(k.at, chain) /\ Slot(k.at) < Slot(chain) /\ chain \in Blocks
    BY DEF CrawlInv, RollForward, Rest, At, Idle
  <1>2. OnlyCrawler(i) /\ inst'[i] = [k EXCEPT !.pc = "persist", !.at = b, !.todo = <<b>>, !.att = 1]
    BY DEF OnlyCrawler, CrawlInv, RollForward
  <1>3. Child(k.at, b) /\ b \in Blocks
    <2>1. Slot(k.at) \in Nat /\ Slot(chain) \in Nat /\ k.at \in Blocks
      BY <1>1, BlockIsSeq, CrawlerAssumption DEF Sound
    <2>2. k.at = Ancestor(chain, Slot(k.at))
      BY <1>1, <2>1, OneAncestor
    <2>3. Child(Ancestor(chain, Slot(k.at)), b)
      BY <1>1, <2>1, NextIsChild
    <2> QED BY <2>2, <2>3 DEF Child
  <1> HIDE DEF b
  <1>4. <<b>> \in Seq(Blocks) /\ <<b>> # << >> /\ Len(<<b>>) = 1 /\ Head(<<b>>) = b /\ <<b>>[1] = b
    BY <1>3
  <1>5. Moved(k, inst'[i]) /\ inst'[i].pc = "persist" /\ inst'[i].at = b /\ inst'[i].todo = <<b>>
    BY <1>1, <1>2, <1>3, <1>4 DEF Moved, Sound, CrawlerFields, Idle
  <1>6. ASSUME cur.owner = i, "late" \notin excuses PROVE InStep(inst'[i], cur.at)
    <2>1. k.at = cur.at
      BY <1>1, <1>6 DEF CrawlInv, Leads, InStep
    <2>2. Follows(cur.at, <<b>>)
      BY <1>3, <1>4, <2>1 DEF Follows
    <2> QED BY <1>4, <1>5, <2>2 DEF InStep
  <1>7. Quiet(cur, cur') /\ cur'.owner = cur.owner /\ cur'.desired = cur.desired
    BY <1>1, QuietSelf
  <1> QED BY <1>1, <1>2, <1>5, <1>6, <1>7, PipelineStep

\* A fork rolls a stream back to an ancestor of where it stands.
LEMMA RollBackwardStep ==
  ASSUME CrawlInv, NEW i \in Instances, RollBackward(i), imp' = imp
  PROVE CrawlInv'
  <1> DEFINE k == inst[i]
             p == CommonAncestor(k.at, chain)
  <1>1. /\ Sound(k, excuses) /\ CursorSound(cur) /\ Rest /\ cur' = cur /\ k.pc = "stream" /\ k.pc \notin Idle
        /\ chain \in Blocks /\ k.at \in Blocks
    BY DEF CrawlInv, RollBackward, Rest, At, Idle, Sound
  <1>2. OnlyCrawler(i) /\ inst'[i] = [k EXCEPT !.pc = "rewind", !.at = p]
    BY DEF OnlyCrawler, CrawlInv, RollBackward
  <1>3. p \in Blocks /\ IsAncestor(p, k.at)
    BY <1>1, CommonAncestorFacts
  <1> HIDE DEF p
  <1>4. Moved(k, inst'[i]) /\ inst'[i].pc = "rewind" /\ inst'[i].at = p
    BY <1>1, <1>2, <1>3 DEF Moved, Sound, CrawlerFields, Idle
  <1>5. cur.owner = i /\ "late" \notin excuses => k.at = cur.at
    BY <1>1 DEF CrawlInv, Leads, InStep
  <1>6. cur.owner = i /\ "late" \notin excuses => InStep(inst'[i], cur.at)
    BY <1>1, <1>3, <1>4, <1>5, AncestorOrder DEF InStep
  <1>7. cur.owner = i /\ Clean(excuses) => IsAncestor(inst'[i].at, cur.at)
    BY <1>3, <1>4, <1>5 DEF Clean
  <1>8. Quiet(cur, cur') /\ cur'.owner = cur.owner /\ cur'.desired = cur.desired
    BY <1>1, QuietSelf
  <1> QED BY <1>1, <1>2, <1>4, <1>6, <1>7, <1>8, PipelineStep

\* A roll-backward to the cursor is none; any other is a reorg.
LEMMA RewindStep ==
  ASSUME CrawlInv, NEW i \in Instances, Rewind(i), imp' = imp
  PROVE CrawlInv'
  <1> DEFINE k == inst[i]
  <1>1. /\ Sound(k, excuses) /\ CursorSound(cur) /\ Rest /\ cur' = cur /\ k.pc = "rewind" /\ k.pc \notin Idle
    BY DEF CrawlInv, Rewind, Rest, At, Idle
  <1>2. PICK pc \in {"stream", "reorg"} : Goto(i, pc) /\ (pc = "stream" => cur.at = k.at)
    BY DEF Rewind
  <1>3. OnlyCrawler(i) /\ inst'[i] = [k EXCEPT !.pc = pc]
    BY <1>2, GotoFacts
  <1>4. Moved(k, inst'[i]) /\ inst'[i].pc = pc /\ inst'[i].at = k.at
    BY <1>1, <1>2, <1>3 DEF Moved, Sound, CrawlerFields, Idle
  <1>5. ASSUME cur.owner = i, "late" \notin excuses PROVE InStep(inst'[i], cur.at)
    <2>1. Slot(k.at) <= Slot(cur.at)
      BY <1>1, <1>5 DEF CrawlInv, Leads, InStep
    <2> QED BY <1>2, <1>4, <2>1 DEF InStep
  <1>6. cur.owner = i /\ Clean(excuses) => IsAncestor(inst'[i].at, cur.at)
    BY <1>1, <1>4 DEF CrawlInv, Leads
  <1>7. Quiet(cur, cur') /\ cur'.owner = cur.owner /\ cur'.desired = cur.desired
    BY <1>1, QuietSelf
  <1> QED BY <1>1, <1>3, <1>4, <1>5, <1>6, <1>7, PipelineStep

\* A closed stream may leave a callback behind: the "late" exception.
LEMMA StreamClosedStep ==
  ASSUME CrawlInv, NEW i \in Instances, StreamClosed(i), imp' = imp
  PROVE CrawlInv'
  <1> DEFINE k == inst[i]
             busy == k.pc = "persist"
             rest == [k EXCEPT !.todo = << >>, !.late = IF busy THEN Head(k.todo) ELSE @]
             n == inst'[i]
  <1>1. /\ Sound(k, excuses) /\ CursorSound(cur) /\ k.pc \in {"stream", "persist"}
        /\ UNCHANGED <<stored, chain, config, paused, imp>>
        /\ excuses' = IF busy THEN excuses \union {"late"} ELSE excuses
    BY DEF CrawlInv, StreamClosed
  <1>2. DOMAIN rest = CrawlerFields
    BY <1>1 DEF Sound
  <1>3. Calm(cur, cur') /\ OnlyCrawler(i) /\ Displaced(rest, n) /\ n.pc \in {"connect", "page", "halt"}
    <2> HIDE DEF rest
    <2>1. CASE Become(i, rest, "connect") /\ cur' = cur
      <3>1. OnlyCrawler(i) /\ Displaced(rest, n) /\ n.pc = "connect"
        BY <1>2, <2>1, BecomeFacts DEF CrawlInv
      <3> QED BY <1>1, <2>1, <3>1, CalmRows
    <2>2. ASSUME NEW h, NEW l, Degraded(i, h, rest, l) PROVE Falls(i, rest)
      BY <1>2, <2>2, DegradedFalls
    <2>3. ASSUME NEW l, HaltOnError(i, rest, l) PROVE Falls(i, rest)
      BY <1>2, <2>3, HaltOnErrorFalls
    <2>4. \/ Become(i, rest, "connect") /\ cur' = cur
          \/ \E h, l : Degraded(i, h, rest, l)
          \/ \E l : HaltOnError(i, rest, l)
      BY DEF StreamClosed, rest
    <2> QED BY <2>1, <2>2, <2>3, <2>4 DEF Falls
  <1>4. /\ rest.at = k.at /\ rest.src = k.src /\ rest.anchor = k.anchor /\ rest.latch = k.latch
        /\ rest.late = IF busy THEN Head(k.todo) ELSE k.late
    BY <1>1 DEF Sound, CrawlerFields
  <1>5. Grows(excuses, excuses')
    BY <1>1 DEF Grows
  <1>6. Sound(n, excuses')
    <2>1. busy => Head(k.todo) \in Blocks
      BY <1>1 DEF Sound
    <2>2. n.late \in Blocks \union {NoBlock} /\ (n.late # NoBlock => "late" \in excuses')
      BY <1>1, <1>3, <1>4, <2>1 DEF Displaced, Sound
    <2>3. Broken(excuses) => Broken(excuses')
      BY <1>5 DEF Broken, Grows
    <2>4. n.latch => Broken(excuses')
      BY <1>1, <1>3, <1>4, <2>3 DEF Displaced, Sound
    <2> HIDE DEF rest
    <2> QED BY <1>1, <1>3, <1>4, <2>2, <2>4 DEF Displaced, Sound, Idle
  <1> HIDE DEF rest
  <1>7. cur.owner = i => Leads(n, cur, excuses', config.utxo[i])
    <2>1. Kept(excuses') => Kept(excuses)
      BY <1>5 DEF Kept, Grows
    <2>2. cur.owner = i /\ Kept(excuses) => SetInStep(k, cur, config.utxo[i])
      BY DEF CrawlInv, Leads
    <2>3. cur.owner = i /\ Kept(excuses') => SetInStep(n, cur, config.utxo[i])
      BY <1>1, <1>3, <1>4, <2>1, <2>2 DEF SetInStep, Displaced
    <2> QED BY <1>3, <2>3, ElsewhereInStep DEF Leads
  <1>8. cur'.owner = i => Leads(n, cur', excuses', config.utxo[i])
    <2>1. Grows(excuses', excuses')
      BY DEF Grows
    <2> QED BY <1>3, <1>7, <2>1, LeadsKept DEF Calm
  <1>9. cur'.desired \/ paused' \/ Broken(excuses)
    BY <1>1, <1>3 DEF CrawlInv, Calm
  <1>10. chain' \in Blocks /\ ImportsSound(cur', imp')
    BY <1>1, <1>3, ImportsKept DEF CrawlInv, Calm, Quiet
  <1>11. config' = config /\ stored' = stored /\ Quiet(cur, cur') /\ cur'.owner \in {cur.owner, i, NoOwner, DeadOwner}
    BY <1>1, <1>3 DEF Calm
  <1> QED BY <1>3, <1>5, <1>6, <1>8, <1>9, <1>10, <1>11, ProcessStep

\* A frame that cannot be parsed,
LEMMA FrameErrorStep ==
  ASSUME CrawlInv, NEW i \in Instances, FrameError(i), imp' = imp
  PROVE CrawlInv'
  <1>1. DOMAIN inst[i] = CrawlerFields /\ Rest /\ inst[i].pc \notin Idle
    BY DEF CrawlInv, Sound, FrameError, At, Rest, Idle
  <1>2. \/ \E h, l : Degraded(i, h, inst[i], l)
        \/ \E l : HaltOnError(i, inst[i], l)
    BY DEF FrameError
  <1> QED BY <1>1, <1>2, DegradedFalls, HaltOnErrorFalls, FallsStep

\* transactions that do not come,
LEMMA FetchFailsStep ==
  ASSUME CrawlInv, NEW i \in Instances, FetchFails(i), imp' = imp
  PROVE CrawlInv'
  <1>1. DOMAIN inst[i] = CrawlerFields /\ Rest /\ inst[i].pc \notin Idle
    BY DEF CrawlInv, Sound, FetchFails, At, Rest, Idle
  <1>2. \E l : HaltOnError(i, inst[i], l) \/ RetryOnError(i, inst[i], l)
    BY DEF FetchFails
  <1> QED BY <1>1, <1>2, RetryOnErrorFalls, HaltOnErrorFalls, FallsStep

\* a fence that does not hold: failures all three.
LEMMA FencedStep ==
  ASSUME CrawlInv, NEW i \in Instances, Fenced(i), imp' = imp
  PROVE CrawlInv'
  <1>1. Rest /\ inst[i].pc \notin Idle /\ cur' = cur /\ Halt(i, "stopped", FALSE)
    BY DEF Fenced, Rest, Idle
  <1> QED BY <1>1, HaltFalls, FallsStep

\* The probe hands over to chain-sync.
LEMMA HandoverStep ==
  ASSUME CrawlInv, NEW i \in Instances, Handover(i), imp' = imp
  PROVE CrawlInv'
  <1>1. Sound(inst[i], excuses) /\ CursorSound(cur) /\ Rest /\ cur' = cur /\ inst[i].pc \notin Idle
    BY DEF CrawlInv, Handover, Rest, Idle
  <1>2. OnlyCrawler(i) /\ inst'[i] = [inst[i] EXCEPT !.pc = "connect", !.todo = << >>]
    BY DEF Handover, OnlyCrawler, CrawlInv
  <1>3. Moved(inst[i], inst'[i]) /\ inst'[i].pc = "connect"
    BY <1>1, <1>2 DEF Moved, Sound, CrawlerFields, Idle
  <1>4. Quiet(cur, cur') /\ cur'.owner = cur.owner /\ cur'.desired = cur.desired
    BY <1>1, QuietSelf
  <1> QED BY <1>1, <1>2, <1>3, <1>4, ElsewhereStep

\* The batch of a pagination round follows the cursor.
LEMMA BatchFollows ==
  ASSUME NEW a \in Blocks, NEW c \in Blocks, IsAncestor(a, c), NEW n \in Nat \ {0}, Slot(a) + n <= Slot(c)
  PROVE LET todo == [j \in 1..n |-> Ancestor(c, Slot(a) + j)] IN
        todo \in Seq(Blocks) /\ todo # << >> /\ Follows(a, todo)
  <1> DEFINE todo == [j \in 1..n |-> Ancestor(c, Slot(a) + j)]
  <1>1. Slot(a) \in Nat /\ Slot(c) \in Nat /\ a = Ancestor(c, Slot(a))
    BY BlockIsSeq, OneAncestor, CrawlerAssumption
  <1>2. \A j \in 1..n : Ancestor(c, Slot(a) + j) \in Blocks
    BY <1>1, AncestorIsAncestor
  <1>3. todo \in Seq(Blocks) /\ Len(todo) = n /\ todo # << >>
    BY <1>2
  <1>4. ASSUME NEW j \in 1..n PROVE Child(IF j = 1 THEN a ELSE todo[j - 1], todo[j])
    <2>1. Child(Ancestor(c, Slot(a) + (j - 1)), Ancestor(c, Slot(a) + (j - 1) + 1))
      <3>1. Slot(a) + (j - 1) \in Nat /\ Slot(a) + (j - 1) + 1 <= Slot(c)
        BY <1>1
      <3> QED BY <3>1, NextIsChild
    <2>2. todo[j] = Ancestor(c, Slot(a) + (j - 1) + 1)
      BY <1>1
    <2>3. CASE j = 1
      <3>1. Slot(a) + (j - 1) = Slot(a)
        BY <1>1, <2>3
      <3> QED BY <1>1, <2>1, <2>2, <2>3, <3>1
    <2>4. CASE j # 1
      <3>1. todo[j - 1] = Ancestor(c, Slot(a) + (j - 1))
        BY <2>4
      <3> QED BY <2>1, <2>2, <2>4, <3>1
    <2> QED BY <2>3, <2>4
  <1> HIDE DEF todo
  <1>5. Follows(a, todo)
    BY <1>3, <1>4 DEF Follows
  <1> QED BY <1>3, <1>5 DEF todo

\* A round of pagination.
LEMMA PaginateStep ==
  ASSUME CrawlInv, NEW i \in Instances, Paginate(i), imp' = imp
  PROVE CrawlInv'
  <1> DEFINE k == inst[i]
             n == IF Target < Slot(cur.at) + BatchSize THEN Target - Slot(cur.at) ELSE BatchSize
             todo == [j \in 1..n |-> Ancestor(chain, Slot(cur.at) + j)]
  <1>1. /\ Sound(k, excuses) /\ CursorSound(cur) /\ Rest /\ k.pc = "page" /\ k.pc \notin Idle
        /\ chain \in Blocks /\ cur.at \in Blocks
    BY DEF CrawlInv, Paginate, Rest, At, Idle, CursorSound
  <1>2. CASE (Goto(i, "connect") \/ Goto(i, "recover")) /\ cur' = cur
    <2>1. PICK pc \in {"connect", "recover"} : Goto(i, pc)
      BY <1>2
    <2>2. OnlyCrawler(i) /\ inst'[i] = [k EXCEPT !.pc = pc]
      BY <2>1, GotoFacts
    <2>3. Moved(k, inst'[i]) /\ inst'[i].pc = pc
      BY <1>1, <2>1, <2>2 DEF Moved, Sound, CrawlerFields, Idle
    <2>4. Quiet(cur, cur') /\ cur'.owner = cur.owner /\ cur'.desired = cur.desired
      BY <1>1, <1>2, QuietSelf
    <2>5. inst'[i].pc \notin {"stream", "persist", "rewind", "reorg"}
      BY <2>1, <2>3
    <2> QED BY <1>1, <2>2, <2>3, <2>4, <2>5, ElsewhereStep
  <1>3. CASE cur' = SetSyncStatus(Renew(cur), "synced") /\ inst' = inst
    <2>1. Calm(cur, cur')
      BY <1>1, <1>3, CalmRows
    <2>2. UNCHANGED <<inst, stored, chain, config, excuses, imp>> /\ paused' = paused
      BY <1>1, <1>3 DEF Rest
    <2>3. cur'.desired \/ paused' \/ Broken(excuses)
      BY <2>1, <2>2 DEF CrawlInv, Calm
    <2> QED BY <2>1, <2>2, <2>3, RowStep DEF Calm
  <1>4. CASE Halt(i, "stopped", FALSE) /\ cur' = cur
    BY <1>1, <1>4, HaltFalls, FallsStep
  <1>5. CASE \E l : RetryOnError(i, k, l)
    BY <1>1, <1>5, RetryOnErrorFalls, FallsStep DEF Sound
  <1>6. CASE /\ Slot(cur.at) < Target /\ IsAncestor(cur.at, chain) /\ cur' = cur
             /\ inst' = [inst EXCEPT ![i] = [k EXCEPT !.pc = "persist", !.src = "page", !.att = 1, !.todo = todo]]
    <2>1. Slot(cur.at) \in Nat /\ Slot(chain) \in Nat
      BY <1>1, BlockIsSeq, CrawlerAssumption
    <2>2. n \in Nat \ {0} /\ Slot(cur.at) + n <= Slot(chain)
      BY <1>6, <2>1, CrawlerAssumption DEF Target
    <2>3. todo \in Seq(Blocks) /\ todo # << >> /\ Follows(cur.at, todo)
      <3> HIDE DEF n
      <3> QED BY <1>1, <1>6, <2>2, BatchFollows
    <2> HIDE DEF todo
    <2>4. OnlyCrawler(i) /\ inst'[i] = [k EXCEPT !.pc = "persist", !.src = "page", !.att = 1, !.todo = todo]
      BY <1>6 DEF OnlyCrawler, CrawlInv
    <2>5. Moved(k, inst'[i]) /\ inst'[i].pc = "persist" /\ inst'[i].src = "page" /\ inst'[i].todo = todo
      BY <1>1, <2>3, <2>4 DEF Moved, Sound, CrawlerFields, Idle
    <2>6. InStep(inst'[i], cur.at)
      BY <2>3, <2>5 DEF InStep
    <2>7. Quiet(cur, cur') /\ cur'.owner = cur.owner /\ cur'.desired = cur.desired
      BY <1>1, <1>6, QuietSelf
    <2> QED BY <1>1, <2>4, <2>5, <2>6, <2>7, PipelineStep
  <1>7. \/ (Goto(i, "connect") \/ Goto(i, "recover")) /\ cur' = cur
        \/ cur' = SetSyncStatus(Renew(cur), "synced") /\ inst' = inst
        \/ Halt(i, "stopped", FALSE) /\ cur' = cur
        \/ \E l : RetryOnError(i, k, l)
        \/ /\ Slot(cur.at) < Target /\ IsAncestor(cur.at, chain) /\ cur' = cur
           /\ inst' = [inst EXCEPT ![i] = [k EXCEPT !.pc = "persist", !.src = "page", !.att = 1, !.todo = todo]]
    BY DEF Paginate
  <1> QED BY <1>2, <1>3, <1>4, <1>5, <1>6, <1>7

\* A stored block that is still on the chain is on the line of the cursor.
LEMMA TryReorgRecoveryStep ==
  ASSUME CrawlInv, NEW i \in Instances, TryReorgRecovery(i), imp' = imp
  PROVE CrawlInv'
  <1> DEFINE k == inst[i]
             p == CHOOSE b \in Matching : \A m \in Matching : Slot(m) <= Slot(b)
  <1>1. /\ Sound(k, excuses) /\ CursorSound(cur) /\ Rest /\ k.pc = "recover" /\ k.pc \notin Idle
        /\ stored \subseteq Blocks /\ cur.at \in Blocks
    BY DEF CrawlInv, TryReorgRecovery, Rest, At, Idle, CursorSound, RowsFit
  <1>2. CASE Matching # {} /\ cur' = cur /\ inst' = [inst EXCEPT ![i].pc = "reorg", ![i].src = "page", ![i].at = p]
    <2>1. Matching \in SUBSET Blocks
      BY <1>1 DEF Matching
    <2>2. \E b \in Matching : \A m \in Matching : Slot(m) <= Slot(b)
      BY <1>2, <2>1, GreatestBlock
    <2>3. p \in stored /\ p \in Blocks /\ Slot(p) <= Slot(cur.at)
      BY <1>1, <2>2 DEF Matching
    <2> HIDE DEF p
    <2>4. OnlyCrawler(i) /\ inst'[i] = [k EXCEPT !.pc = "reorg", !.src = "page", !.at = p]
      BY <1>2 DEF OnlyCrawler, CrawlInv
    <2>5. Moved(k, inst'[i]) /\ inst'[i].pc = "reorg" /\ inst'[i].at = p
      BY <1>1, <2>3, <2>4 DEF Moved, Sound, CrawlerFields, Idle
    <2>6. InStep(inst'[i], cur.at)
      BY <2>3, <2>5 DEF InStep
    <2>7. Clean(excuses) => IsAncestor(p, cur.at)
      BY <1>1, <2>3, LineIs DEF CrawlInv, RowsFit
    <2>8. Quiet(cur, cur') /\ cur'.owner = cur.owner /\ cur'.desired = cur.desired
      BY <1>1, <1>2, QuietSelf
    <2> QED BY <1>1, <2>4, <2>5, <2>6, <2>7, <2>8, PipelineStep
  <1>3. CASE RetryOnError(i, k, left)
    BY <1>1, <1>3, RetryOnErrorFalls, FallsStep DEF Sound
  <1> QED BY <1>2, <1>3 DEF TryReorgRecovery

\* Giving a block up halts the crawler, and latches the cluster off for a bad one only.
LEMMA GiveUpFacts ==
  ASSUME CrawlInv, NEW i \in Instances, NEW b, NEW l, NEW o \in ErrorOutcomes(i, l), NEW k,
         DOMAIN k = CrawlerFields, GiveUp(i, b, o, k)
  PROVE /\ OnlyCrawler(i) /\ DOMAIN inst'[i] = CrawlerFields
        /\ SamePlace(k, inst'[i]) /\ inst'[i].late = k.late /\ (inst'[i].latch => k.latch \/ Broken(excuses))
        /\ Quiet(cur, cur') /\ cur'.owner = cur.owner /\ (cur.desired => cur'.desired \/ Broken(excuses))
  <1> DEFINE poisonous == b \in config.bad /\ PoisonCount(i, b) >= PoisonThreshold
  <1>1. PICK written \in BOOLEAN :
          /\ cur' = IF poisonous /\ written THEN LatchPoisonBlock(o.cur) ELSE o.cur
          /\ inst' = [inst EXCEPT ![i] = Halted(k, "error", poisonous)]
    BY DEF GiveUp
  <1>2. poisonous => Broken(excuses)
    BY DEF Broken
  <1> HIDE DEF poisonous
  <1>3. Calm(cur, o.cur)
    BY CalmOutcome DEF CrawlInv
  <1>4. Quiet(cur, cur') /\ cur'.owner = cur.owner /\ (cur.desired => cur'.desired \/ Broken(excuses))
    BY <1>1, <1>2, <1>3 DEF LatchPoisonBlock, Calm, Quiet, CursorFields
  <1>5. OnlyCrawler(i) /\ inst'[i] = Halted(k, "error", poisonous)
    BY <1>1 DEF OnlyCrawler, CrawlInv
  <1>6. /\ DOMAIN inst'[i] = CrawlerFields
        /\ SamePlace(k, inst'[i]) /\ inst'[i].late = k.late /\ (inst'[i].latch => k.latch \/ Broken(excuses))
    BY <1>2, <1>5 DEF Halted, CrawlerFields, SamePlace
  <1> QED BY <1>4, <1>5, <1>6

\* A block that cannot be written is tried again, or given up.
LEMMA PersistFailsStep ==
  ASSUME CrawlInv, NEW i \in Instances, PersistFails(i), imp' = imp
  PROVE CrawlInv'
  <1> DEFINE k == inst[i]
             b == Head(k.todo)
             l == IF b \in config.bad THEN left ELSE [left EXCEPT !.faults = @ - 1]
             h == [k EXCEPT !.pc = "halt"]
  <1>1. Sound(k, excuses) /\ CursorSound(cur) /\ Rest /\ k.pc = "persist" /\ k.pc \notin Idle
    BY DEF CrawlInv, PersistFails, Rest, At, Idle
  <1>2. PICK o \in ErrorOutcomes(i, l) :
          \/ Halt(i, "stopped", FALSE) /\ cur' = o.cur
          \/ inst' = [inst EXCEPT ![i].att = @ + 1] /\ cur' = o.cur
          \/ GiveUp(i, b, o, h)
    BY DEF PersistFails
  <1> HIDE DEF l
  <1>3. Calm(cur, o.cur)
    BY <1>1, CalmOutcome
  <1>4. CASE Halt(i, "stopped", FALSE) /\ cur' = o.cur
    BY <1>1, <1>3, <1>4, HaltBecomesFalls, FallsStep DEF Halt, Sound
  <1>5. CASE inst' = [inst EXCEPT ![i].att = @ + 1] /\ cur' = o.cur
    <2>1. OnlyCrawler(i) /\ inst'[i] = [k EXCEPT !.att = @ + 1]
      BY <1>5 DEF OnlyCrawler, CrawlInv
    <2>2. Moved(k, inst'[i]) /\ SamePlace(k, inst'[i])
      BY <1>1, <2>1 DEF Moved, SamePlace, Sound, CrawlerFields, Idle
    <2>3. cur.owner = i /\ "late" \notin excuses => InStep(inst'[i], cur.at)
      BY <2>2 DEF CrawlInv, Leads, InStep, SamePlace
    <2>4. inst'[i].pc \notin {"rewind", "reorg"}
      BY <1>1, <2>2 DEF SamePlace
    <2> QED BY <1>1, <1>3, <1>5, <2>1, <2>2, <2>3, <2>4, PipelineStep DEF Calm
  <1>6. CASE GiveUp(i, b, o, h)
    <2>1. DOMAIN h = CrawlerFields /\ Displaced(k, h) /\ h.pc = "halt"
      BY <1>1, PlacedFacts DEF Displaced, Sound
    <2> HIDE DEF h, b
    <2>2. /\ OnlyCrawler(i) /\ DOMAIN inst'[i] = CrawlerFields
          /\ SamePlace(h, inst'[i]) /\ inst'[i].late = h.late /\ (inst'[i].latch => h.latch \/ Broken(excuses))
          /\ Quiet(cur, cur') /\ cur'.owner = cur.owner /\ (cur.desired => cur'.desired \/ Broken(excuses))
      BY <1>6, <2>1, GiveUpFacts
    <2>3. Moved(k, inst'[i]) /\ inst'[i].pc = "halt"
      BY <1>1, <2>1, <2>2 DEF Moved, SamePlace, Displaced, Sound, Idle
    <2>4. inst'[i].pc \notin {"stream", "persist", "rewind", "reorg"}
      BY <2>3
    <2> QED BY <1>1, <2>2, <2>3, <2>4, ElsewhereStep
  <1> QED BY <1>2, <1>4, <1>5, <1>6

\* The snapshot of an epoch changes nothing the invariant is about.
LEMMA SnapshotEpochStep ==
  ASSUME CrawlInv, NEW i \in Instances, SnapshotEpoch(i), imp' = imp
  PROVE CrawlInv'
  <1>1. Sound(inst[i], excuses) /\ CursorSound(cur) /\ Rest /\ cur' = cur /\ DOMAIN inst = Instances
    BY DEF CrawlInv, SnapshotEpoch, Rest
  <1>2. PICK x, y : inst' = [inst EXCEPT ![i].snap = x, ![i].settled = y] \/ inst' = [inst EXCEPT ![i].snap = x]
    BY DEF SnapshotEpoch
  <1>3. OnlyCrawler(i)
    BY <1>1, <1>2 DEF OnlyCrawler
  <1>4. inst'[i] = [inst[i] EXCEPT !.snap = x, !.settled = y] \/ inst'[i] = [inst[i] EXCEPT !.snap = x]
    BY <1>1, <1>2
  <1>5. Sound(inst'[i], excuses) /\ SamePlace(inst[i], inst'[i])
    <2>1. CASE inst'[i] = [inst[i] EXCEPT !.snap = x, !.settled = y]
      BY <1>1, <2>1 DEF Sound, CrawlerFields, SamePlace
    <2>2. CASE inst'[i] = [inst[i] EXCEPT !.snap = x]
      BY <1>1, <2>2 DEF Sound, CrawlerFields, SamePlace
    <2> QED BY <1>4, <2>1, <2>2
  <1>6. cur.owner = i => Leads(inst'[i], cur, excuses, config.utxo[i])
    BY <1>5, SameLeads DEF CrawlInv
  <1>7. Quiet(cur, cur') /\ cur'.owner = cur.owner /\ cur'.desired = cur.desired
    BY <1>1, QuietSelf
  <1> QED BY <1>1, <1>3, <1>5, <1>6, <1>7, QuietStep

--------------------------------------------------------------------------------
(* The leader moves the cursor: a block is written, a fork is rolled back.       *)

\* A step of the lease's owner i that moves the cursor keeps the invariant if what it writes
\* fits and the owner still leads.
LEMMA LeaderStep ==
  ASSUME CrawlInv, NEW i \in Instances, OnlyCrawler(i), Sound(inst'[i], excuses'), CursorSound(cur'),
         cur'.owner \in {i} \/ cur'.owner \notin Instances,
         cur'.owner = i => Leads(inst'[i], cur', excuses', config.utxo[i]),
         RowsFit(cur', stored', excuses'), cur'.desired \/ paused' \/ Broken(excuses),
         chain' \in Blocks, config' = config, Grows(excuses, excuses'),
         ImportsSound(cur', imp')
  PROVE CrawlInv'
  <1>1. Broken(excuses) \/ Broken(excuses') => Broken(excuses)'
    BY DEF Broken, NothingToFollow, Grows
  <1>2. \A j \in Instances : Sound(inst'[j], excuses')
    BY SoundKept DEF CrawlInv, OnlyCrawler
  <1>3. \A j \in Instances : Sound(inst[j], excuses)'
    BY <1>1, <1>2 DEF Sound
  <1>4. \A j \in Instances : (cur.owner = j => Leads(inst[j], cur, excuses, config.utxo[j]))'
    OBVIOUS
  <1>5. DOMAIN inst' = Instances /\ DOMAIN config'.utxo = Instances
    BY DEF CrawlInv, OnlyCrawler
  <1>6. CursorSound(cur)' /\ RowsFit(cur, stored, excuses)' /\ ImportsSound(cur, imp)'
    OBVIOUS
  <1> QED BY <1>1, <1>3, <1>4, <1>5, <1>6 DEF CrawlInv

\* Writing a block: the cursor goes on to its child, and the set with it, or the set is given
\* up because its anchor is on another chain.
LEMMA CommitStep ==
  ASSUME CrawlInv, NEW i \in Instances, NEW b \in Blocks, NEW k, Commit(i, b, k), imp' = imp,
         Sound(k, excuses), k.pc \notin Idle, k.anchor = inst[i].anchor, inst[i].pc \notin Idle,
         "late" \notin excuses => Child(cur.at, b) /\ InStep(k, b) /\ k.pc \notin {"rewind", "reorg"}
  PROVE CrawlInv'
  <1> DEFINE due == k.anchor # NoBlock /\ Slot(b) > Slot(k.anchor)
             proven == VerifyUtxoAnchor(k)
             n == inst'[i]
  <1>1. /\ CursorSound(cur) /\ cur.owner = i /\ cur.desired /\ DOMAIN inst = Instances
        /\ UNCHANGED <<chain, config, paused, excuses, imp>> /\ stored' = stored \union {b}
    BY DEF CrawlInv, Commit, Holds, IndexBlockFull
  <1>2. /\ DOMAIN cur' = CursorFields /\ cur'.at = b /\ cur'.anchor = cur.anchor
        /\ cur'.owner = i /\ cur'.desired = cur.desired
        /\ cur'.applied = (IF due /\ proven THEN Slot(b) ELSE cur.applied)
        /\ cur'.set = (IF due /\ ~proven THEN "invalid" ELSE cur.set)
    <2>1. \E s : cur' = [AdvanceCursor(cur, b, s, IF due /\ proven THEN Slot(b) ELSE cur.applied)
                         EXCEPT !.set = IF due /\ ~proven THEN "invalid" ELSE @]
      BY DEF Commit
    <2> HIDE DEF due, proven
    <2> QED BY <1>1, <2>1 DEF AdvanceCursor, Renew, CursorSound, CursorFields
  <1>3. /\ OnlyCrawler(i) /\ DOMAIN n = CrawlerFields
        /\ n.pc = k.pc /\ n.run = k.run /\ n.at = k.at /\ n.todo = k.todo /\ n.src = k.src /\ n.late = k.late
        /\ n.latch = k.latch /\ n.anchor = IF due /\ ~proven THEN NoBlock ELSE k.anchor
    <2>1. \E s : inst' = [inst EXCEPT ![i] = [k EXCEPT !.snap = s, !.anchor = IF due /\ ~proven THEN NoBlock ELSE @]]
      BY DEF Commit
    <2>2. DOMAIN k = CrawlerFields
      BY DEF Sound
    <2> HIDE DEF due, proven
    <2> QED BY <1>1, <2>1, <2>2 DEF CrawlerFields, OnlyCrawler
  <1>4. Slot(b) \in Nat /\ Slot(cur.anchor) \in Nat /\ cur.at \in Blocks /\ cur.anchor \in Blocks /\ cur.applied \in Int
    BY <1>1, BlockIsSeq, CrawlerAssumption DEF CursorSound
  <1>5. CursorSound(cur')
    BY <1>2, <1>4 DEF CursorSound
  <1>6. Sound(n, excuses')
    BY <1>1, <1>3 DEF Sound
  <1>7. ASSUME Kept(excuses)
        PROVE /\ k.anchor \in {NoBlock, cur.anchor}
              /\ config.utxo[i] /\ cur.set = "active" => k.anchor # NoBlock /\ ~StaleSet(cur)
              /\ cur.applied # NoSlot => cur.applied >= Slot(cur.anchor)
    <2>1. SetInStep(inst[i], cur, config.utxo[i])
      BY <1>1, <1>7 DEF CrawlInv, Leads
    <2>2. cur.applied # NoSlot => cur.applied >= Slot(cur.anchor)
      BY <1>7 DEF CrawlInv, RowsFit
    <2> QED BY <2>1, <2>2 DEF SetInStep, Idle
  <1>8. RowsFit(cur', stored', excuses')
    <2>1. stored' \subseteq Blocks
      BY <1>1 DEF CrawlInv, RowsFit
    <2>2. ASSUME Clean(excuses) PROVE stored' = Line(cur'.at)
      <3>1. stored = Line(cur.at) /\ Child(cur.at, b)
        BY <2>2 DEF CrawlInv, RowsFit, Clean
      <3> QED BY <1>1, <1>2, <1>4, <3>1, LineOfChild
    <2>3. ASSUME Kept(excuses), cur'.applied # NoSlot PROVE cur'.applied >= Slot(cur'.anchor)
      BY <1>2, <1>4, <1>7, <2>3
    <2> QED BY <1>1, <2>1, <2>2, <2>3 DEF RowsFit
  <1>9. Leads(n, cur', excuses', config.utxo[i])
    <2>1. "late" \notin excuses => InStep(n, cur'.at) /\ n.pc \notin {"rewind", "reorg"}
      BY <1>2, <1>3 DEF InStep
    <2>2. ASSUME Kept(excuses) PROVE SetInStep(n, cur', config.utxo[i])
      <3>1. n.anchor \in {NoBlock, cur'.anchor}
        BY <1>2, <1>3, <1>7, <2>2
      <3>2. ASSUME config.utxo[i], cur'.set = "active" PROVE n.anchor # NoBlock /\ ~StaleSet(cur')
        <4>1. ~(due /\ ~proven) /\ cur.set = "active"
          BY <1>2, <3>2
        <4>2. k.anchor # NoBlock /\ k.anchor = cur.anchor
          BY <1>7, <2>2, <3>2, <4>1
        <4>3. CASE due
          <5>1. cur'.applied = Slot(b) /\ cur'.at = b
            BY <1>2, <4>1, <4>3
          <5> QED BY <1>3, <1>4, <4>1, <4>2, <5>1 DEF StaleSet, NoSlot
        <4>4. CASE ~due
          <5>1. cur'.applied = cur.applied /\ cur'.at = b /\ cur'.anchor = cur.anchor /\ Slot(b) <= Slot(cur.anchor)
            BY <1>2, <1>4, <4>2, <4>4
          <5>2. cur.applied # NoSlot => cur.applied >= Slot(cur.anchor)
            BY <1>7, <2>2
          <5>3. ~StaleSet(cur')
            BY <1>4, <5>1, <5>2 DEF StaleSet
          <5> QED BY <1>3, <4>2, <4>4, <5>3
        <4> QED BY <4>3, <4>4
      <3> QED BY <1>3, <3>1, <3>2 DEF SetInStep, Idle
    <2> QED BY <1>1, <2>1, <2>2 DEF Leads, Clean
  <1>10. cur'.desired \/ paused' \/ Broken(excuses)
    BY <1>1, <1>2
  <1>11. chain' \in Blocks /\ config' = config /\ ImportsSound(cur', imp')
    BY <1>1, <1>2, ImportsElsewhere DEF CrawlInv
  <1>12. Grows(excuses, excuses')
    BY <1>1 DEF Grows
  <1> HIDE DEF n
  <1> QED BY <1>2, <1>3, <1>5, <1>6, <1>8, <1>9, <1>10, <1>11, <1>12, LeaderStep DEF n

\* What is left of blocks that follow each other when the first is taken.
LEMMA FollowsTail ==
  ASSUME NEW a, NEW todo \in Seq(Blocks), todo # << >>
  PROVE /\ Head(todo) \in Blocks /\ Tail(todo) \in Seq(Blocks)
        /\ Len(todo) > 1 => Tail(todo) # << >>
        /\ Follows(a, todo) => Child(a, Head(todo)) /\ Follows(Head(todo), Tail(todo))
  <1>1. /\ Len(todo) \in Nat \ {0} /\ Head(todo) = todo[1] /\ Head(todo) \in Blocks
        /\ Tail(todo) \in Seq(Blocks) /\ Len(Tail(todo)) = Len(todo) - 1
        /\ \A j \in 1..Len(Tail(todo)) : Tail(todo)[j] = todo[j + 1]
    OBVIOUS
  <1>2. ASSUME Follows(a, todo) PROVE Child(a, Head(todo)) /\ Follows(Head(todo), Tail(todo))
    <2>1. \A j \in 1..Len(todo) : Child(IF j = 1 THEN a ELSE todo[j - 1], todo[j])
      BY <1>2 DEF Follows
    <2>2. Child(a, Head(todo))
      BY <1>1, <2>1
    <2>3. ASSUME NEW j \in 1..Len(Tail(todo))
          PROVE Child(IF j = 1 THEN Head(todo) ELSE Tail(todo)[j - 1], Tail(todo)[j])
      <3>1. Child(todo[j], todo[j + 1])
        <4>1. j + 1 \in 1..Len(todo) /\ j + 1 # 1 /\ (j + 1) - 1 = j
          BY <1>1
        <4> QED BY <2>1, <4>1
      <3>2. Tail(todo)[j] = todo[j + 1]
        BY <1>1
      <3>3. (IF j = 1 THEN Head(todo) ELSE Tail(todo)[j - 1]) = todo[j]
        BY <1>1
      <3> QED BY <3>1, <3>2, <3>3
    <2> QED BY <2>2, <2>3 DEF Follows
  <1> QED BY <1>1, <1>2

\* The pipeline writes the first of the blocks it fetched.
LEMMA PersistStep ==
  ASSUME CrawlInv, NEW i \in Instances, Persist(i), imp' = imp
  PROVE CrawlInv'
  <1> DEFINE k == inst[i]
             b == Head(k.todo)
             rest == [k EXCEPT !.todo = Tail(@), !.att = 1, !.prog = @ \/ k.src = "stream",
                               !.pc = AfterBlock(k)]
  <1>1. Sound(k, excuses) /\ k.pc = "persist" /\ k.pc \notin Idle /\ Commit(i, b, rest)
    BY DEF CrawlInv, Persist, Idle
  <1>2. k.todo \in Seq(Blocks) /\ k.todo # << >>
    BY <1>1 DEF Sound
  <1>3. /\ DOMAIN rest = CrawlerFields /\ rest.pc = AfterBlock(k) /\ rest.todo = Tail(k.todo)
        /\ rest.run = k.run /\ rest.at = k.at /\ rest.src = k.src /\ rest.late = k.late
        /\ rest.latch = k.latch /\ rest.anchor = k.anchor
    BY <1>1 DEF Sound, CrawlerFields
  <1>4. b \in Blocks /\ Tail(k.todo) \in Seq(Blocks) /\ (Len(k.todo) > 1 => Tail(k.todo) # << >>)
    BY <1>2, FollowsTail
  <1>5. /\ AfterBlock(k) \in {"persist", "stream", "page"}
        /\ AfterBlock(k) = "persist" => Len(k.todo) > 1
        /\ AfterBlock(k) = "stream" => k.src = "stream"
    BY <1>1 DEF AfterBlock, Sound
  <1> HIDE DEF rest
  <1>6. Sound(rest, excuses) /\ rest.pc \notin Idle
    BY <1>1, <1>3, <1>4, <1>5 DEF Sound, Idle
  <1>7. ASSUME "late" \notin excuses
        PROVE Child(cur.at, b) /\ InStep(rest, b) /\ rest.pc \notin {"rewind", "reorg"}
    <2>1. InStep(k, cur.at)
      BY <1>1, <1>7 DEF Commit, Holds, CrawlInv, Leads
    <2>2. Follows(cur.at, k.todo) /\ (k.src = "stream" => Len(k.todo) = 1 /\ k.at = b)
      BY <1>1, <2>1 DEF InStep
    <2>3. Child(cur.at, b) /\ Follows(b, Tail(k.todo))
      BY <1>2, <2>2, FollowsTail
    <2>4. InStep(rest, b)
      <3>1. rest.pc = "stream" => rest.at = b
        BY <1>3, <1>5, <2>2
      <3>2. ~(rest.pc = "persist" /\ rest.src = "stream")
        <4>1. Len(k.todo) = 1 => ~(Len(k.todo) > 1)
          OBVIOUS
        <4> HIDE DEF k, b
        <4> QED BY <1>3, <1>5, <2>2, <4>1
      <3>3. rest.pc \notin {"rewind", "reorg"}
        BY <1>3, <1>5
      <3> QED BY <1>3, <2>3, <3>1, <3>2, <3>3 DEF InStep
    <2> QED BY <1>3, <1>5, <2>3, <2>4
  <1> HIDE DEF b
  <1> QED BY <1>1, <1>3, <1>4, <1>6, <1>7, CommitStep

\* A callback left behind writes, halts or gives its block up.
LEMMA LatePersistStep ==
  ASSUME CrawlInv, NEW i \in Instances, LatePersist(i), imp' = imp
  PROVE CrawlInv'
  <1> DEFINE k == inst[i]
             done == [k EXCEPT !.late = NoBlock]
  <1>1. /\ Sound(k, excuses) /\ CursorSound(cur) /\ k.late # NoBlock
        /\ k.late \in Blocks /\ "late" \in excuses /\ k.pc \notin Idle
    BY DEF CrawlInv, LatePersist, Sound
  <1>2. DOMAIN done = CrawlerFields /\ SamePlace(k, done) /\ done.late = NoBlock /\ done.latch = k.latch /\ done.run = k.run
    BY <1>1 DEF Sound, CrawlerFields, SamePlace
  <1> HIDE DEF done
  <1>3. Sound(done, excuses) /\ Moved(k, done)
    BY <1>1, <1>2 DEF Sound, SamePlace, Moved
  <1>4. CASE Commit(i, k.late, done)
    <2>1. done.pc \notin Idle /\ done.anchor = k.anchor
      BY <1>1, <1>2 DEF SamePlace
    <2> QED BY <1>1, <1>3, <1>4, <2>1, CommitStep
  <1>5. CASE inst' = [inst EXCEPT ![i] = Halted(done, "stopped", FALSE)] /\ cur' = cur /\ Rest
    <2>1. OnlyCrawler(i) /\ inst'[i] = Halted(done, "stopped", FALSE)
      BY <1>5 DEF OnlyCrawler, CrawlInv
    <2>2. /\ DOMAIN inst'[i] = CrawlerFields /\ SamePlace(done, inst'[i]) /\ inst'[i].late = done.late
          /\ inst'[i].latch => done.latch
      BY <1>2, <2>1, ZenonT(80) DEF Halted, CrawlerFields, SamePlace
    <2>3. Moved(k, inst'[i])
      BY <1>3, <2>2 DEF Moved, SamePlace
    <2>4. Quiet(cur, cur') /\ cur'.owner = cur.owner /\ cur'.desired = cur.desired
      BY <1>1, <1>5, QuietSelf
    <2> QED BY <1>1, <1>5, <2>1, <2>3, <2>4, PipelineStep DEF Clean
  <1>6. CASE Rest /\ \E o \in ErrorOutcomes(i, left) : GiveUp(i, k.late, o, done)
    <2>1. PICK o \in ErrorOutcomes(i, left) : GiveUp(i, k.late, o, done)
      BY <1>6
    <2>2. /\ OnlyCrawler(i) /\ DOMAIN inst'[i] = CrawlerFields
          /\ SamePlace(done, inst'[i]) /\ inst'[i].late = done.late /\ (inst'[i].latch => done.latch \/ Broken(excuses))
          /\ Quiet(cur, cur') /\ cur'.owner = cur.owner /\ (cur.desired => cur'.desired \/ Broken(excuses))
      BY <1>2, <2>1, GiveUpFacts
    <2>3. Moved(k, inst'[i])
      BY <1>3, <2>2 DEF Moved, SamePlace
    <2> QED BY <1>1, <1>6, <2>2, <2>3, PipelineStep DEF Clean
  <1>7. \/ Commit(i, k.late, done)
        \/ inst' = [inst EXCEPT ![i] = Halted(done, "stopped", FALSE)] /\ cur' = cur /\ Rest
        \/ Rest /\ \E o \in ErrorOutcomes(i, left) : GiveUp(i, k.late, o, done)
    BY DEF LatePersist, Rest, done
  <1> QED BY <1>4, <1>5, <1>6, <1>7

\* A rollback: the cursor goes back to an ancestor, what is stored is cut to its line, and the
\* set is undone as far, or given up when its anchor goes too.
LEMMA HandleReorgStep ==
  ASSUME CrawlInv, NEW i \in Instances, HandleReorg(i), imp' = imp
  PROVE CrawlInv'
  <1> DEFINE k == inst[i]
             p == k.at
             behind == cur.set = "active" /\ Slot(p) < Slot(cur.anchor)
             undo == cur.set = "active" /\ ~behind
             gone == {b \in stored : Slot(b) > Slot(p)}
             c == [ResetCursorTo(Renew(cur), p) EXCEPT
                     !.set = IF behind THEN "invalid" ELSE @,
                     !.applied = IF undo /\ @ > Slot(p) THEN Slot(p) ELSE @]
             n == [k EXCEPT !.pc = k.src, !.settled = NoEpoch, !.anchor = IF behind THEN NoBlock ELSE @]
  <1>1. /\ Sound(k, excuses) /\ CursorSound(cur) /\ cur.owner = i /\ cur.desired /\ k.pc = "reorg" /\ k.pc \notin Idle
        /\ UNCHANGED <<chain, config, paused, imp>> /\ DOMAIN inst = Instances
        /\ Grows(excuses, excuses')
    BY DEF CrawlInv, HandleReorg, Holds, Idle, Grows
  <1>2. /\ p \in Blocks /\ cur.at \in Blocks /\ cur.anchor \in Blocks /\ cur.applied \in Int
        /\ Slot(p) \in Nat /\ Slot(cur.anchor) \in Nat /\ Slot(cur.at) \in Nat
    BY <1>1, BlockIsSeq, CrawlerAssumption DEF CursorSound, Sound
  <1> /\ Kept(excuses') => Kept(excuses)
      /\ Clean(excuses') => Clean(excuses)
    BY <1>1 DEF Kept, Clean, Grows
  <1>3. CASE stored' = stored \ gone /\ cur' = c /\ inst' = [inst EXCEPT ![i] = n]
    <2>1. /\ DOMAIN cur' = CursorFields /\ cur'.at = p /\ cur'.anchor = cur.anchor
          /\ cur'.owner = i /\ cur'.desired = cur.desired
          /\ cur'.set = (IF behind THEN "invalid" ELSE cur.set)
          /\ cur'.applied = (IF undo /\ cur.applied > Slot(p) THEN Slot(p) ELSE cur.applied)
      <3> HIDE DEF behind, undo
      <3> QED BY <1>1, <1>3 DEF ResetCursorTo, Renew, CursorSound, CursorFields
    <2>2. /\ OnlyCrawler(i) /\ inst'[i] = n
          /\ DOMAIN n = CrawlerFields /\ n.pc = k.src /\ n.run = k.run /\ n.at = p /\ n.src = k.src
          /\ n.late = k.late /\ n.latch = k.latch /\ n.anchor = (IF behind THEN NoBlock ELSE k.anchor)
      <3> HIDE DEF behind
      <3> QED BY <1>1, <1>3 DEF Sound, CrawlerFields, OnlyCrawler
    <2>3. n.pc \in {"stream", "page"}
      BY <1>1, <2>2 DEF Sound
    <2> HIDE DEF n, c
    <2>4. Sound(n, excuses) /\ n.pc \notin Idle
      BY <1>1, <2>2, <2>3 DEF Sound, Idle
    <2>5. CursorSound(cur')
      BY <1>2, <2>1 DEF CursorSound
    <2>6. ASSUME Kept(excuses)
          PROVE /\ k.anchor \in {NoBlock, cur.anchor} /\ Slot(p) <= Slot(cur.at)
                /\ config.utxo[i] /\ cur.set = "active" => k.anchor # NoBlock /\ ~StaleSet(cur)
                /\ cur.applied # NoSlot => cur.applied >= Slot(cur.anchor)
      <3>1. SetInStep(k, cur, config.utxo[i]) /\ InStep(k, cur.at)
        BY <1>1, <2>6 DEF CrawlInv, Leads, Kept
      <3>2. cur.applied # NoSlot => cur.applied >= Slot(cur.anchor)
        BY <2>6 DEF CrawlInv, RowsFit
      <3> QED BY <1>1, <3>1, <3>2 DEF SetInStep, InStep, Idle
    <2>7. RowsFit(cur', stored', excuses')
      <3>1. stored' \subseteq Blocks
        BY <1>3 DEF CrawlInv, RowsFit
      <3>2. ASSUME Clean(excuses) PROVE stored' = Line(cur'.at)
        <4>1. stored = Line(cur.at) /\ IsAncestor(p, cur.at)
          BY <1>1, <3>2 DEF CrawlInv, RowsFit, Leads
        <4> QED BY <1>2, <1>3, <2>1, <4>1, LineCut
      <3>3. ASSUME Kept(excuses), cur'.applied # NoSlot PROVE cur'.applied >= Slot(cur'.anchor)
        BY <1>2, <2>1, <2>6, <3>3
      <3> QED BY <1>1, <3>1, <3>2, <3>3 DEF RowsFit
    <2>8. ASSUME Kept(excuses) PROVE SetInStep(n, cur', config.utxo[i])
      <3>1. n.anchor \in {NoBlock, cur'.anchor}
        BY <2>1, <2>2, <2>6, <2>8
      <3>2. ASSUME config.utxo[i], cur'.set = "active" PROVE n.anchor # NoBlock /\ ~StaleSet(cur')
        <4>1. ~behind /\ undo
          BY <2>1, <3>2
        <4>2. k.anchor # NoBlock /\ ~StaleSet(cur) /\ cur.set = "active"
          BY <2>6, <2>8, <3>2, <4>1
        <4>3. /\ cur'.at = p /\ cur'.anchor = cur.anchor /\ Slot(p) <= Slot(cur.at)
              /\ cur'.applied = (IF cur.applied > Slot(p) THEN Slot(p) ELSE cur.applied)
          BY <2>1, <2>6, <2>8, <4>1
        <4>4. Slot(cur.at) <= (IF cur.applied = NoSlot THEN Slot(cur.anchor) ELSE cur.applied)
          BY <1>2, <4>2 DEF StaleSet
        <4>5. Slot(cur'.at) <= (IF cur'.applied = NoSlot THEN Slot(cur'.anchor) ELSE cur'.applied)
          <5> HIDE DEF p
          <5> QED BY <1>2, <4>3, <4>4 DEF NoSlot
        <4>6. ~StaleSet(cur')
          BY <1>2, <4>3, <4>5 DEF StaleSet, NoSlot
        <4> QED BY <2>2, <4>1, <4>2, <4>6
      <3> QED BY <2>4, <3>1, <3>2 DEF SetInStep, Idle
    <2>9. InStep(n, cur'.at) /\ n.pc \notin {"rewind", "reorg"}
      BY <2>1, <2>2, <2>3 DEF InStep
    <2>10. Leads(inst'[i], cur', excuses', config.utxo[i]) /\ Sound(inst'[i], excuses')
      BY <1>1, <2>2, <2>4, <2>8, <2>9, SoundKept DEF Leads
    <2>11. cur'.desired \/ paused' \/ Broken(excuses)
      BY <1>1, <2>1
    <2>12. chain' \in Blocks /\ config' = config /\ ImportsSound(cur', imp')
      BY <1>1, <2>1, ImportsElsewhere DEF CrawlInv
    <2>13. Grows(excuses, excuses')
      BY <1>1 DEF Grows
    <2> QED BY <2>1, <2>2, <2>5, <2>7, <2>10, <2>11, <2>12, <2>13, LeaderStep
  <1>4. CASE stored' = stored /\ excuses' = excuses /\ \E l : HaltOnError(i, k, l) \/ RetryOnError(i, k, l)
    <2>1. DOMAIN k = CrawlerFields /\ Rest
      BY <1>1, <1>4 DEF Sound, Rest
    <2> QED BY <1>1, <1>4, <2>1, RetryOnErrorFalls, HaltOnErrorFalls, FallsStep
  <1>5. \/ stored' = stored \ gone /\ cur' = c /\ inst' = [inst EXCEPT ![i] = n]
        \/ stored' = stored /\ excuses' = excuses /\ \E l : HaltOnError(i, k, l) \/ RetryOnError(i, k, l)
    BY DEF HandleReorg
  <1> QED BY <1>3, <1>4, <1>5

--------------------------------------------------------------------------------
(* The environment.                                                              *)

\* A step that changes nothing but the chain keeps the invariant.
LEMMA ChainStep ==
  ASSUME CrawlInv, chain' \in Blocks, UNCHANGED <<cur, inst, stored, config, paused, excuses, imp>>
  PROVE CrawlInv'
  <1>1. Broken(excuses) => Broken(excuses)'
    BY DEF Broken, NothingToFollow
  <1>2. \A j \in Instances : Sound(inst[j], excuses)'
    BY <1>1 DEF CrawlInv, Sound
  <1>3. \A j \in Instances : (cur.owner = j => Leads(inst[j], cur, excuses, config.utxo[j]))'
    BY DEF CrawlInv
  <1>4. CursorSound(cur)' /\ RowsFit(cur, stored, excuses)' /\ ImportsSound(cur, imp)'
    BY DEF CrawlInv
  <1> QED BY <1>1, <1>2, <1>3, <1>4 DEF CrawlInv

\* The chain grows or forks, a lease runs out.
LEMMA EnvironmentStep ==
  ASSUME CrawlInv, Mint \/ Fork \/ LeaseExpires, imp' = imp
  PROVE CrawlInv'
  <1>1. /\ chain \in Blocks /\ chain \in Seq(Branches) /\ Len(chain) \in Nat /\ Slot(chain) = Len(chain)
        /\ \A j \in 1..Len(chain) : chain[j] \in Branches
    BY BlockIsSeq, CrawlerAssumption DEF CrawlInv
  <1>2. CASE Mint
    <2>1. Append(chain, 0) \in Seq(Branches) /\ Len(Append(chain, 0)) <= MaxHeight
      BY <1>1, <1>2, CrawlerAssumption DEF Mint, Branches
    <2>2. chain' \in Blocks
      BY <1>2, <2>1, SeqIsBlock DEF Mint
    <2> QED BY <1>2, <2>2, ChainStep DEF Mint
  <1>3. CASE Fork
    <2>1. PICK n \in 1..(Slot(chain) - 1) :
            chain' = [j \in 1..(Slot(chain) + 1) |->
                        IF j <= n THEN chain[j] ELSE IF j = n + 1 THEN 1 - chain[j] ELSE 0]
      BY <1>3 DEF Fork
    <2>2. ASSUME NEW j \in 1..(Len(chain) + 1)
          PROVE (IF j <= n THEN chain[j] ELSE IF j = n + 1 THEN 1 - chain[j] ELSE 0) \in Branches
      <3>1. CASE j <= n
        BY <1>1, <2>1, <3>1
      <3>2. CASE j = n + 1
        <4>1. chain[j] \in {0, 1}
          BY <1>1, <2>1, <3>2 DEF Branches
        <4> QED BY <2>1, <3>2, <4>1 DEF Branches
      <3> QED BY <2>1, <3>1, <3>2 DEF Branches
    <2>3. chain' \in Seq(Branches) /\ Len(chain') = Len(chain) + 1
      BY <1>1, <2>1, <2>2
    <2>4. chain' \in Blocks
      <3>1. Slot(chain) < MaxHeight /\ MaxHeight \in Nat
        BY <1>3, CrawlerAssumption DEF Fork
      <3>2. Len(chain') <= MaxHeight
        BY <1>1, <2>3, <3>1
      <3> QED BY <2>3, <3>2, SeqIsBlock
    <2> QED BY <1>3, <2>4, ChainStep DEF Fork
  <1>4. CASE LeaseExpires
    <2>1. /\ UNCHANGED <<inst, stored, chain, config, excuses, imp>> /\ paused' = paused
          /\ cur' = [cur EXCEPT !.live = FALSE]
      BY <1>4 DEF LeaseExpires
    <2>2. Calm(cur, cur')
      BY <2>1, CalmRows DEF CrawlInv
    <2>3. cur'.desired \/ paused' \/ Broken(excuses)
      BY <2>1, <2>2 DEF CrawlInv, Calm
    <2> QED BY <2>1, <2>2, <2>3, RowStep DEF Calm
  <1> QED BY <1>2, <1>3, <1>4

--------------------------------------------------------------------------------
(* Imports of the UTxO set.                                                      *)

\* Only the import call of process i changes.
OnlyImport(i) == DOMAIN imp' = Instances /\ \A j \in Instances \ {i} : imp'[j] = imp[j]

\* One import call goes on: it stays sound, and fills the tables only if it did or emptied them.
LEMMA ImportsGoOn ==
  ASSUME NEW i \in Instances, NEW c, ImportsSound(c, imp), OnlyImport(i), ImportSound(imp'[i]),
         c.owner = Importer(i) /\ Loading(imp'[i]) => c.applied = NoSlot
  PROVE ImportsSound(c, imp')
  BY DEF ImportsSound, OnlyImport

\* A step of an import that leaves the crawlers and the place of the cursor alone.
LEMMA ImportPasses ==
  ASSUME CrawlInv, NEW i \in Instances, UNCHANGED <<inst, stored, chain, config, paused>>,
         Grows(excuses, excuses'), Quiet(cur, cur'), cur'.desired = cur.desired,
         cur'.owner \in {cur.owner, NoOwner, DeadOwner}, OnlyImport(i), ImportSound(imp'[i]),
         cur.owner = Importer(i) /\ Loading(imp'[i]) => Loading(imp[i])
  PROVE CrawlInv'
  <1>1. OnlyCrawler(i) /\ Sound(inst'[i], excuses')
    BY SoundKept DEF CrawlInv, OnlyCrawler
  <1>2. cur'.owner = i => Leads(inst'[i], cur', excuses', config.utxo[i])
    BY LeadsKept, OwnerIsOther DEF CrawlInv
  <1>3. ImportsSound(cur', imp')
    <2>1. ImportsSound(cur, imp')
      BY ImportsGoOn DEF CrawlInv, ImportsSound
    <2> QED BY <2>1, ImportsKept DEF Quiet
  <1>4. cur'.desired \/ paused' \/ Broken(excuses)
    BY DEF CrawlInv
  <1>5. chain' \in Blocks /\ config' = config /\ stored' = stored
    BY DEF CrawlInv
  <1>6. cur'.owner \in {cur.owner, i, NoOwner, DeadOwner}
    OBVIOUS
  <1> QED BY <1>1, <1>2, <1>3, <1>4, <1>5, <1>6, ProcessStep

\* A step of the import that holds the lease: no crawler leads.
LEMMA ImportHolds ==
  ASSUME CrawlInv, NEW i \in Instances, UNCHANGED <<stored, chain, config, paused>>,
         Grows(excuses, excuses'), CursorSound(cur'), cur'.desired = cur.desired,
         cur'.owner = Importer(i), OnlyCrawler(i), Sound(inst'[i], excuses),
         RowsFit(cur', stored, excuses'), OnlyImport(i), ImportSound(imp'[i]),
         Loading(imp'[i]) => cur'.applied = NoSlot
  PROVE CrawlInv'
  <1>1. cur'.owner \notin Instances /\ cur'.owner # i
    BY OwnerIsOther
  <1>2. Sound(inst'[i], excuses')
    BY SoundKept
  <1>3. ImportsSound(cur', imp')
    <2>1. ASSUME NEW j \in Instances, j # i PROVE cur'.owner # Importer(j)
      BY <2>1 DEF Importer
    <2>2. \A j \in Instances : ImportSound(imp'[j])
      BY DEF CrawlInv, ImportsSound, OnlyImport
    <2> QED BY <2>1, <2>2 DEF ImportsSound, OnlyImport
  <1>4. cur'.desired \/ paused' \/ Broken(excuses)
    BY DEF CrawlInv
  <1>5. chain' \in Blocks /\ config' = config /\ RowsFit(cur', stored', excuses')
    BY DEF CrawlInv
  <1> QED BY <1>1, <1>2, <1>3, <1>4, <1>5, LeaderStep

\* imp' replaces the call of process i.
LEMMA CallFacts ==
  ASSUME CrawlInv, NEW i \in Instances, NEW m, imp' = [imp EXCEPT ![i] = m]
  PROVE OnlyImport(i) /\ imp'[i] = m
  BY DEF CrawlInv, ImportsSound, OnlyImport

\* imp' puts the call of process i at another place.
LEMMA ImportGotoFacts ==
  ASSUME CrawlInv, NEW i \in Instances, NEW pc, ImportGoto(i, pc)
  PROVE OnlyImport(i) /\ imp'[i] = [imp[i] EXCEPT !.pc = pc]
  BY DEF CrawlInv, ImportsSound, OnlyImport, ImportGoto

\* A new place changes nothing else of an import call.
LEMMA CallPlaced ==
  ASSUME NEW m, DOMAIN m = ImportFields, NEW pc
  PROVE LET n == [m EXCEPT !.pc = pc] IN
        DOMAIN n = ImportFields /\ n.pc = pc /\ n.kind = m.kind /\ n.anchor = m.anchor /\ n.rewind = m.rewind
  BY DEF ImportFields

\* A call that has not yet begun, or that is at its end.
LEMMA CallIsSound ==
  ASSUME NEW m, ImportSound(m), NEW pc \in {"release", "invalid", "off"}
  PROVE ImportSound([m EXCEPT !.pc = pc]) /\ ~Loading([m EXCEPT !.pc = pc])
  BY DEF ImportSound, ImportFields, Loading

\* A process without an import.
LEMMA NoImportIsSound == ImportSound(NoImport) /\ ~Loading(NoImport)
  BY DEF NoImport, ImportSound, ImportFields, Loading

\* A call is checked: its anchor is a block of the chain, or the one of the set.
LEMMA RequestImportStep ==
  ASSUME CrawlInv, NEW i \in Instances, RequestImport(i)
  PROVE CrawlInv'
  <1>1. /\ UNCHANGED <<cur, inst, stored, chain, config, paused, excuses>> /\ CursorSound(cur)
        /\ chain \in Blocks
    BY DEF CrawlInv, RequestImport
  <1>2. PICK m : imp' = [imp EXCEPT ![i] = m] /\ ImportSound(m) /\ m.pc = "lease"
    <2>1. CASE RefreshScripts(i)
      <3> DEFINE m == [NoImport EXCEPT !.pc = "lease", !.kind = "scripts"]
      <3>1. ImportSound(m) /\ m.pc = "lease"
        BY DEF NoImport, ImportSound, ImportFields
      <3>2. imp' = [imp EXCEPT ![i] = m]
        BY <2>1 DEF RefreshScripts
      <3> QED BY <3>1, <3>2
    <2>2. ASSUME NEW n \in 1..Slot(chain),
                 imp' = [imp EXCEPT ![i] = [NoImport EXCEPT !.pc = "lease", !.kind = "import",
                                                            !.anchor = Ancestor(chain, n)]]
          PROVE \E m : imp' = [imp EXCEPT ![i] = m] /\ ImportSound(m) /\ m.pc = "lease"
      <3> DEFINE b == Ancestor(chain, n)
                 m == [NoImport EXCEPT !.pc = "lease", !.kind = "import", !.anchor = b]
      <3>1. b \in Blocks
        BY <1>1, AncestorIsAncestor
      <3> HIDE DEF b
      <3>2. ImportSound(m) /\ m.pc = "lease"
        BY <3>1 DEF NoImport, ImportSound, ImportFields
      <3>3. imp' = [imp EXCEPT ![i] = m]
        BY <2>2 DEF b
      <3> QED BY <3>2, <3>3
    <2>3. ASSUME NEW r, imp' = [imp EXCEPT ![i] = [NoImport EXCEPT !.pc = "lease", !.kind = "rebuild",
                                                                  !.anchor = cur.anchor, !.rewind = r]]
          PROVE \E m : imp' = [imp EXCEPT ![i] = m] /\ ImportSound(m) /\ m.pc = "lease"
      <3> DEFINE m == [NoImport EXCEPT !.pc = "lease", !.kind = "rebuild", !.anchor = cur.anchor, !.rewind = r]
      <3>1. ImportSound(m) /\ m.pc = "lease"
        BY <1>1 DEF NoImport, ImportSound, ImportFields, CursorSound
      <3>2. imp' = [imp EXCEPT ![i] = m]
        BY <2>3
      <3> QED BY <3>1, <3>2
    <2> QED BY <2>1, <2>2, <2>3 DEF RequestImport
  <1>3. OnlyImport(i) /\ imp'[i] = m /\ ~Loading(m)
    BY <1>2, CallFacts DEF Loading
  <1>4. Quiet(cur, cur') /\ cur'.owner = cur.owner /\ cur'.desired = cur.desired /\ Grows(excuses, excuses')
    BY <1>1, QuietSelf DEF Grows
  <1> QED BY <1>1, <1>2, <1>3, <1>4, ImportPasses

\* The crawler of the process forgets its anchor, or gets another.
LEMMA AnchorSet ==
  ASSUME CrawlInv, NEW i \in Instances, NEW b, inst' = [inst EXCEPT ![i].anchor = b]
  PROVE OnlyCrawler(i) /\ Sound(inst'[i], excuses)
  <1>1. OnlyCrawler(i) /\ inst'[i] = [inst[i] EXCEPT !.anchor = b]
    BY DEF CrawlInv, OnlyCrawler
  <1>2. Sound(inst[i], excuses)
    BY DEF CrawlInv
  <1> QED BY <1>1, <1>2 DEF Sound, CrawlerFields

\* It gets the lease, or gives up.
LEMMA ImportLeaseStep ==
  ASSUME CrawlInv, NEW i \in Instances, ImportLease(i)
  PROVE CrawlInv'
  <1> DEFINE m == imp[i]
  <1>1. /\ UNCHANGED <<stored, chain, config, paused, excuses>> /\ CursorSound(cur)
        /\ m.pc = "lease" /\ ImportSound(m) /\ Grows(excuses, excuses') /\ DOMAIN inst = Instances
    BY DEF CrawlInv, ImportLease, ImportsSound, Grows
  <1>2. CASE CanAcquireImport(cur, Importer(i))
    <2>1. /\ cur' = TakeLease(cur, Importer(i))
          /\ imp' = [imp EXCEPT ![i].pc = "begin"]
          /\ inst' = [inst EXCEPT ![i].anchor = IF imp[i].kind = "scripts" THEN @ ELSE NoBlock]
      BY <1>2 DEF ImportLease
    <2>2. /\ Quiet(cur, cur') /\ cur'.owner = Importer(i) /\ cur'.desired = cur.desired
      BY <1>1, <2>1 DEF TakeLease, Quiet, CursorSound, CursorFields
    <2>3. OnlyCrawler(i) /\ Sound(inst'[i], excuses)
      <3>1. \E b : inst' = [inst EXCEPT ![i].anchor = b]
        BY <1>1, <2>1
      <3> QED BY <3>1, AnchorSet
    <2>4. OnlyImport(i) /\ imp'[i] = [m EXCEPT !.pc = "begin"]
      BY <2>1, ImportGotoFacts DEF ImportGoto
    <2>5. ImportSound(imp'[i]) /\ ~Loading(imp'[i])
      BY <1>1, <2>4 DEF ImportSound, ImportFields, Loading
    <2>6. CursorSound(cur')
      BY <1>1, <2>2 DEF CursorSound, Quiet
    <2>7. RowsFit(cur', stored, excuses')
      BY <1>1, <2>2, RowsKept DEF CrawlInv
    <2> QED BY <1>1, <2>2, <2>3, <2>4, <2>5, <2>6, <2>7, ImportHolds
  <1>3. CASE ~CanAcquireImport(cur, Importer(i))
    <2>1. cur' = cur /\ imp' = [imp EXCEPT ![i] = NoImport] /\ inst' = inst
      BY <1>3 DEF ImportLease
    <2>2. OnlyImport(i) /\ ImportSound(imp'[i]) /\ ~Loading(imp'[i])
      BY <2>1, CallFacts, NoImportIsSound
    <2>3. Quiet(cur, cur') /\ cur'.owner = cur.owner /\ cur'.desired = cur.desired
      BY <1>1, <2>1, QuietSelf
    <2> QED BY <1>1, <2>1, <2>2, <2>3, ImportPasses
  <1> QED BY <1>2, <1>3

\* It empties the tables: no block is applied to what it will fill.
LEMMA ImportBeginStep ==
  ASSUME CrawlInv, NEW i \in Instances, ImportBegin(i)
  PROVE CrawlInv'
  <1> DEFINE m == imp[i]
  <1>1. /\ UNCHANGED <<stored, inst, chain, config, paused>> /\ CursorSound(cur)
        /\ m.pc = "begin" /\ ImportSound(m) /\ cur.owner = Importer(i) /\ Sound(inst[i], excuses)
        /\ DOMAIN inst = Instances
    BY DEF CrawlInv, ImportBegin, ImportsSound, Writes, HoldsImport
  <1>2. CASE m.kind = "import"
    <2>1. /\ cur' = [Renew(cur) EXCEPT !.set = "importing", !.anchor = m.anchor, !.applied = NoSlot]
          /\ imp' = [imp EXCEPT ![i].pc = "flush", ![i].todo = UnspentAt(imp[i].anchor)]
          /\ excuses' = excuses \ {"partial"}
      BY <1>2 DEF ImportBegin
    <2>2. m.anchor \in Blocks
      BY <1>1, <1>2 DEF ImportSound
    <2>3. /\ DOMAIN cur' = CursorFields /\ cur'.at = cur.at /\ cur'.anchor = m.anchor
          /\ cur'.applied = NoSlot /\ cur'.owner = cur.owner /\ cur'.desired = cur.desired
      BY <1>1, <2>1 DEF Renew, CursorSound, CursorFields
    <2>4. OnlyImport(i) /\ ImportSound(imp'[i])
      <3>1. OnlyImport(i) /\ imp'[i] = [m EXCEPT !.pc = "flush", !.todo = UnspentAt(m.anchor)]
        BY <2>1 DEF OnlyImport, CrawlInv, ImportsSound
      <3> QED BY <1>1, <1>2, <2>2, <3>1 DEF ImportSound, ImportFields
    <2>5. Grows(excuses, excuses')
      BY <2>1 DEF Grows
    <2>6. CursorSound(cur')
      BY <1>1, <2>2, <2>3 DEF CursorSound, NoSlot
    <2>7. RowsFit(cur', stored, excuses')
      <3>1. Clean(excuses') => Clean(excuses)
        BY <2>5 DEF Clean, Grows
      <3> QED BY <2>3, <3>1 DEF CrawlInv, RowsFit
    <2>8. OnlyCrawler(i) /\ Sound(inst'[i], excuses)
      BY <1>1 DEF OnlyCrawler
    <2> QED BY <1>1, <2>3, <2>4, <2>5, <2>6, <2>7, <2>8, ImportHolds
  <1>3. CASE m.kind # "import"
    <2>1. cur' = Renew(cur) /\ excuses' = excuses
      BY <1>3 DEF ImportBegin
    <2>2. PICK pc \in {"activate", "release"} : ImportGoto(i, pc) /\ (pc = "activate" => m.kind = "rebuild")
      BY <1>3 DEF ImportBegin
    <2>3. OnlyImport(i) /\ imp'[i] = [m EXCEPT !.pc = pc]
      BY <2>2, ImportGotoFacts
    <2>4. ImportSound(imp'[i]) /\ ~Loading(imp'[i])
      BY <1>1, <1>3, <2>2, <2>3 DEF ImportSound, ImportFields, Loading
    <2>5. Calm(cur, cur') /\ Grows(excuses, excuses')
      BY <1>1, <2>1, CalmRows DEF Grows
    <2> QED BY <1>1, <2>3, <2>4, <2>5, ImportPasses DEF Calm
  <1> QED BY <1>2, <1>3

\* It fills them, batch by batch, under its lease.
LEMMA ImportFlushStep ==
  ASSUME CrawlInv, NEW i \in Instances, ImportFlush(i)
  PROVE CrawlInv'
  <1> DEFINE m == imp[i]
  <1>1. /\ UNCHANGED <<stored, inst, chain, config, paused, excuses>> /\ CursorSound(cur)
        /\ m.pc = "flush" /\ ImportSound(m) /\ cur' = Renew(cur)
    BY DEF CrawlInv, ImportFlush, ImportsSound
  <1>2. PICK x, y : imp' = [imp EXCEPT ![i].todo = x, ![i].pc = AfterBatch(m.todo, y)]
    BY DEF ImportFlush, CrawlInv, ImportsSound
  <1>3. PICK pc \in {"activate", "flush"} : imp' = [imp EXCEPT ![i].todo = x, ![i].pc = pc]
    BY <1>2 DEF AfterBatch
  <1>4. OnlyImport(i) /\ imp'[i] = [m EXCEPT !.todo = x, !.pc = pc]
    BY <1>3 DEF OnlyImport, CrawlInv, ImportsSound
  <1>5. ImportSound(imp'[i]) /\ (Loading(imp'[i]) => Loading(m))
    <2>1. /\ DOMAIN imp'[i] = ImportFields /\ imp'[i].pc = pc
          /\ imp'[i].kind = m.kind /\ imp'[i].anchor = m.anchor
      BY <1>1, <1>4 DEF ImportSound, ImportFields
    <2> QED BY <1>1, <2>1 DEF ImportSound, Loading
  <1>6. Calm(cur, cur') /\ Grows(excuses, excuses')
    BY <1>1, CalmRows DEF Grows
  <1> QED BY <1>1, <1>4, <1>5, <1>6, ImportPasses DEF Calm

\* It makes the set active. Nothing was applied after the anchor: by the lease, for an import;
\* for a rebuild because the set is not outdated.
LEMMA ImportActivateStep ==
  ASSUME CrawlInv, NEW i \in Instances, ImportActivate(i)
  PROVE CrawlInv'
  <1> DEFINE m == imp[i]
             c == [Renew(cur) EXCEPT !.set = "active", !.anchor = m.anchor]
  <1>1. /\ UNCHANGED <<stored, chain, config, paused>> /\ CursorSound(cur) /\ DOMAIN inst = Instances
        /\ m.pc = "activate" /\ ImportSound(m) /\ cur.owner = Importer(i)
        /\ cur' = (IF m.rewind THEN ResetCursorTo(c, m.anchor) ELSE c)
        /\ inst' = [inst EXCEPT ![i].anchor = m.anchor]
        /\ excuses' = (excuses \ IF m.kind = "import" THEN {"partial"} ELSE {})
                        \union (IF m.rewind THEN {"rewind"} ELSE {})
                        \union (IF Outdated(i) THEN {"outdated"} ELSE {})
        /\ ImportGoto(i, "release")
    BY DEF CrawlInv, ImportActivate, ImportsSound, HoldsImport
  <1>2. m.anchor \in Blocks /\ m.kind \in {"import", "rebuild"}
    BY <1>1 DEF ImportSound
  <1>3. /\ DOMAIN c = CursorFields /\ c.at = cur.at /\ c.anchor = m.anchor
        /\ c.applied = cur.applied /\ c.owner = cur.owner /\ c.desired = cur.desired
    BY <1>1 DEF Renew, CursorSound, CursorFields
  <1> HIDE DEF c
  <1>4. /\ DOMAIN cur' = CursorFields /\ cur'.at = (IF m.rewind THEN m.anchor ELSE cur.at)
        /\ cur'.anchor = m.anchor /\ cur'.applied = cur.applied /\ cur'.owner = cur.owner
        /\ cur'.desired = cur.desired
    BY <1>1, <1>3 DEF ResetCursorTo, CursorFields
  <1>5. OnlyCrawler(i) /\ Sound(inst'[i], excuses)
    BY <1>1, AnchorSet
  <1>6. OnlyImport(i) /\ ImportSound(imp'[i]) /\ ~Loading(imp'[i])
    <2>1. OnlyImport(i) /\ imp'[i] = [m EXCEPT !.pc = "release"]
      BY <1>1, ImportGotoFacts
    <2> HIDE DEF m
    <2> QED BY <1>1, <2>1, CallIsSound
  <1>7. Grows(excuses, excuses')
    BY <1>1 DEF Grows
  <1>8. CursorSound(cur')
    BY <1>1, <1>2, <1>4 DEF CursorSound
  <1>9. RowsFit(cur', stored, excuses')
    <2>1. stored \subseteq Blocks
      BY DEF CrawlInv, RowsFit
    <2>2. ASSUME Clean(excuses') PROVE stored = Line(cur'.at)
      <3>1. ~m.rewind /\ Clean(excuses)
        BY <1>1, <1>7, <2>2 DEF Clean, Grows
      <3> QED BY <1>4, <3>1 DEF CrawlInv, RowsFit
    <2>3. ASSUME Kept(excuses') PROVE cur'.applied = NoSlot
      <3>1. ~Outdated(i)
        BY <1>1, <2>3 DEF Kept
      <3>2. CASE m.kind = "import"
        BY <1>1, <1>4, <3>2 DEF CrawlInv, ImportsSound, Loading
      <3>3. CASE m.kind = "rebuild"
        BY <1>4, <3>1, <3>3 DEF Outdated
      <3> QED BY <1>2, <3>2, <3>3
    <2> QED BY <2>1, <2>2, <2>3 DEF RowsFit
  <1> QED BY <1>1, <1>4, <1>5, <1>6, <1>7, <1>8, <1>9, ImportHolds

\* It fails, marks the set invalid, gives the lease back, renews it or loses it.
LEMMA ImportEndsStep ==
  ASSUME CrawlInv, NEW i \in Instances,
         ImportFails(i) \/ MarkInvalid(i) \/ ImportRelease(i) \/ ImportHeartbeat(i)
  PROVE CrawlInv'
  <1> DEFINE m == imp[i]
  <1>1. /\ UNCHANGED <<inst, stored, chain, config, paused>> /\ CursorSound(cur) /\ ImportSound(m)
        /\ Grows(excuses, excuses')
    BY DEF CrawlInv, ImportsSound, ImportFails, MarkInvalid, ImportRelease, ImportHeartbeat, Grows
  <1>2. /\ Quiet(cur, cur') /\ cur'.desired = cur.desired
        /\ cur'.owner \in {cur.owner, NoOwner, DeadOwner}
    <2>1. \/ cur' = cur
          \/ cur' = Renew(cur)
          \/ cur' = [Renew(cur) EXCEPT !.set = "invalid"]
          \/ cur' = [cur EXCEPT !.owner = DeadOwner]
          \/ cur' = [cur EXCEPT !.owner = NoOwner, !.live = FALSE]
      BY DEF ImportFails, MarkInvalid, ImportRelease, ImportHeartbeat, ReleaseImport
    <2> QED BY <1>1, <2>1 DEF Renew, Quiet, CursorSound, CursorFields
  <1>3. OnlyImport(i) /\ ImportSound(imp'[i]) /\ (Loading(imp'[i]) => Loading(m))
    <2>1. CASE \E pc \in {"release", "invalid", "off"} : ImportGoto(i, pc)
      <3>1. PICK pc \in {"release", "invalid", "off"} : ImportGoto(i, pc)
        BY <2>1
      <3>2. OnlyImport(i) /\ imp'[i] = [m EXCEPT !.pc = pc]
        BY <3>1, ImportGotoFacts
      <3> HIDE DEF m
      <3>3. ImportSound(m)
        BY <1>1
      <3>4. ImportSound([m EXCEPT !.pc = pc]) /\ ~Loading([m EXCEPT !.pc = pc])
        BY ONLY <3>1, <3>3, CallIsSound
      <3> QED BY <3>2, <3>4, Zenon
    <2>2. CASE imp' = [imp EXCEPT ![i] = NoImport]
      BY <2>2, CallFacts, NoImportIsSound
    <2>3. CASE imp' = [imp EXCEPT ![i].lost = TRUE]
      <3>1. OnlyImport(i) /\ imp'[i] = [m EXCEPT !.lost = TRUE]
        BY <2>3 DEF OnlyImport, CrawlInv, ImportsSound
      <3> QED BY <1>1, <3>1 DEF ImportSound, ImportFields, Loading
    <2>4. CASE imp' = imp
      BY <1>1, <2>4 DEF OnlyImport, CrawlInv, ImportsSound
    <2> QED BY <2>1, <2>2, <2>3, <2>4 DEF ImportFails, MarkInvalid, ImportRelease, ImportHeartbeat
  <1> QED BY <1>1, <1>2, <1>3, ImportPasses

--------------------------------------------------------------------------------
(* The theorems.                                                                 *)

\* The invariant holds at the start,
LEMMA CrawlStart == ImportInit => CrawlInv
  <1> SUFFICES ASSUME ImportInit PROVE CrawlInv
    OBVIOUS
  <1>1. /\ cur = NewCursor /\ stored = {} /\ inst = [i \in Instances |-> NoCrawler]
        /\ chain = Start /\ excuses = {} /\ imp = [i \in Instances |-> NoImport]
    BY DEF ImportInit, Init
  <1>2. DOMAIN config.utxo = Instances
    <2>1. PICK s \in Scenarios : config = s.config
      BY DEF ImportInit, Init
    <2>2. config \in Config
      BY <2>1, CrawlerAssumption
    <2> QED BY <2>2 DEF Config
  <1>3. /\ CursorSound(cur) /\ cur.at = Start /\ cur.applied = NoSlot /\ cur.owner = NoOwner /\ cur.desired
    BY <1>1, StartIsBlock DEF NewCursor, CursorSound, CursorFields, NoSlot
  <1>4. Sound(NoCrawler, excuses)
    BY StartIsBlock DEF NoCrawler, Sound, CrawlerFields
  <1>5. ImportsSound(cur, imp)
    BY <1>1, NoImportIsSound DEF ImportsSound
  <1>6. RowsFit(cur, stored, excuses)
    BY <1>1, <1>3, StartIsBlock DEF RowsFit
  <1>7. \A i \in Instances : cur.owner # i
    BY <1>3, OwnerIsOther
  <1> QED BY <1>1, <1>2, <1>3, <1>4, <1>5, <1>6, <1>7, StartIsBlock DEF CrawlInv

\* and every step keeps it: those of the pipeline,
LEMMA PipelineKeeps ==
  ASSUME CrawlInv, ReadyInv, NEW i \in Instances, Pipeline(i), imp' = imp
  PROVE CrawlInv'
  <1>1. CASE OpenSource(i) \/ RunChainSync(i) \/ RollForward(i) \/ RollBackward(i) \/ Rewind(i)
    BY <1>1, OpenSourceStep, RunChainSyncStep, RollForwardStep, RollBackwardStep, RewindStep
  <1>2. CASE Paginate(i) \/ Handover(i) \/ TryReorgRecovery(i) \/ Persist(i) \/ PersistFails(i)
    BY <1>2, PaginateStep, HandoverStep, TryReorgRecoveryStep, PersistStep, PersistFailsStep
  <1>3. CASE Fenced(i) \/ LatePersist(i) \/ HandleReorg(i)
    BY <1>3, FencedStep, LatePersistStep, HandleReorgStep
  <1> QED BY <1>1, <1>2, <1>3 DEF Pipeline

\* those of the life cycle, of troubles and of operators,
LEMMA ProcessKeeps ==
  ASSUME CrawlInv, NEW i \in Instances, imp' = imp,
         LifeCycle(i) \/ Troubles(i) \/ Operator(i) \/ SnapshotEpoch(i)
  PROVE CrawlInv'
  <1>1. CASE LifeCycle(i)
    BY <1>1, StartAttemptStep, StartLeaseStep, StartAnchorStep, ApplyStopStep, DrainStep, ReleaseStep,
       HeartbeatStep DEF LifeCycle
  <1>2. CASE Troubles(i)
    BY <1>2, StreamClosedStep, FrameErrorStep, FetchFailsStep DEF Troubles
  <1>3. CASE Operator(i) \/ SnapshotEpoch(i)
    BY <1>3, OperatorStep, SnapshotEpochStep
  <1> QED BY <1>1, <1>2, <1>3

\* those of imports,
LEMMA ImportKeeps ==
  ASSUME CrawlInv, NEW i \in Instances, ImportStep(i)
  PROVE CrawlInv'
  <1>1. CASE RequestImport(i) \/ ImportLease(i) \/ ImportBegin(i) \/ ImportFlush(i) \/ ImportActivate(i)
    BY <1>1, RequestImportStep, ImportLeaseStep, ImportBeginStep, ImportFlushStep, ImportActivateStep
  <1>2. CASE ImportFails(i) \/ MarkInvalid(i) \/ ImportRelease(i) \/ ImportHeartbeat(i)
    BY <1>2, ImportEndsStep
  <1> QED BY <1>1, <1>2 DEF ImportStep

--------------------------------------------------------------------------------
(* The clients: no crawler starts in a process none of whose backends came up.   *)

\* A step of one crawler object that is at work, or may start.
LEMMA WorkKeepsReady ==
  ASSUME ReadyInv, NEW i \in Instances, OnlyCrawler(i), inst[i].pc # "off" \/ standby[i],
         UNCHANGED <<standby, usable, config>>
  PROVE ReadyInv'
  BY DEF ReadyInv, OnlyCrawler

\* A step that leaves the objects where they are and starts no standby.
LEMMA PlaceKeepsReady ==
  ASSUME ReadyInv, DOMAIN inst' = Instances, \A j \in Instances : inst'[j].pc = inst[j].pc,
         DOMAIN standby' = Instances, \A j \in Instances : standby'[j] => standby[j],
         UNCHANGED <<usable, config>>
  PROVE ReadyInv'
  BY DEF ReadyInv

\* A write of a block, a block given up, and what failures end in, are about one object.
LEMMA AboutOne ==
  ASSUME ReadyInv, NEW i \in Instances
  PROVE /\ \A b, k : Commit(i, b, k) => OnlyCrawler(i) /\ UNCHANGED <<standby, usable, config>>
        /\ \A b, o, k : GiveUp(i, b, o, k) => OnlyCrawler(i)
        /\ \A k, l : HaltOnError(i, k, l) \/ RetryOnError(i, k, l) => OnlyCrawler(i)
        /\ \A h, k, l : Degraded(i, h, k, l) => OnlyCrawler(i)
        /\ \A k, pc : Become(i, k, pc) => OnlyCrawler(i)
        /\ \A pc : Goto(i, pc) => OnlyCrawler(i)
        /\ \A status, latch : Halt(i, status, latch) => OnlyCrawler(i)
  <1>1. \A k, pc : Become(i, k, pc) => OnlyCrawler(i)
    BY DEF Become, OnlyCrawler, ReadyInv
  <1>2. \A pc : Goto(i, pc) => OnlyCrawler(i)
    BY DEF Goto, OnlyCrawler, ReadyInv
  <1>3. \A status, latch : Halt(i, status, latch) => OnlyCrawler(i)
    BY <1>1 DEF Halt
  <1>4. \A k, l : HaltOnError(i, k, l) \/ RetryOnError(i, k, l) => OnlyCrawler(i)
    BY <1>1 DEF HaltOnError, RetryOnError
  <1>5. \A h, k, l : Degraded(i, h, k, l) => OnlyCrawler(i)
    BY <1>1 DEF Degraded
  <1>6. ASSUME NEW b, NEW k, Commit(i, b, k) PROVE OnlyCrawler(i) /\ UNCHANGED <<standby, usable, config>>
    BY <1>6 DEF Commit, OnlyCrawler, ReadyInv
  <1>7. ASSUME NEW b, NEW o, NEW k, GiveUp(i, b, o, k) PROVE OnlyCrawler(i)
    BY <1>7 DEF GiveUp, OnlyCrawler, ReadyInv
  <1> QED BY <1>1, <1>2, <1>3, <1>4, <1>5, <1>6, <1>7

\* The pipeline works on an object that runs,
LEMMA PipelineReady ==
  ASSUME CrawlInv, ReadyInv, NEW i \in Instances, Pipeline(i)
  PROVE ReadyInv'
  <1>1. Sound(inst[i], excuses)
    BY DEF CrawlInv
  <1>2. CASE OpenSource(i) \/ RunChainSync(i) \/ RollForward(i) \/ RollBackward(i) \/ Rewind(i)
    <2>1. inst[i].pc # "off" /\ UNCHANGED <<standby, usable, config>>
      BY <1>2 DEF OpenSource, RunChainSync, RollForward, RollBackward, Rewind, At
    <2>2. ASSUME OpenSource(i) PROVE OnlyCrawler(i)
      BY <2>2, AboutOne DEF OpenSource, OnlyCrawler, ReadyInv
    <2>3. ASSUME RunChainSync(i) PROVE OnlyCrawler(i)
      BY <2>3, AboutOne DEF RunChainSync, OnlyCrawler, ReadyInv
    <2>4. ASSUME RollForward(i) \/ RollBackward(i) \/ Rewind(i) PROVE OnlyCrawler(i)
      BY <2>4, AboutOne DEF RollForward, RollBackward, Rewind, OnlyCrawler, ReadyInv
    <2> QED BY <1>2, <2>1, <2>2, <2>3, <2>4, WorkKeepsReady
  <1>3. CASE Paginate(i)
    <2>1. inst[i].pc # "off" /\ UNCHANGED <<standby, usable, config>>
      BY <1>3 DEF Paginate, At
    <2>2. CASE inst' = inst
      BY <2>1, <2>2, PlaceKeepsReady DEF ReadyInv
    <2>3. CASE \E k : inst' = [inst EXCEPT ![i] = k]
      BY <2>1, <2>3, WorkKeepsReady DEF OnlyCrawler, ReadyInv
    <2>4. CASE OnlyCrawler(i)
      BY <2>1, <2>4, WorkKeepsReady
    <2> QED BY <1>3, <2>2, <2>3, <2>4, AboutOne DEF Paginate
  <1>4. CASE Handover(i) \/ TryReorgRecovery(i)
    <2>1. inst[i].pc # "off" /\ UNCHANGED <<standby, usable, config>>
      BY <1>4 DEF Handover, TryReorgRecovery, At
    <2>2. OnlyCrawler(i)
      BY <1>4, AboutOne DEF Handover, TryReorgRecovery, OnlyCrawler, ReadyInv
    <2> QED BY <2>1, <2>2, WorkKeepsReady
  <1>5. CASE Persist(i) \/ PersistFails(i) \/ Fenced(i)
    <2>1. inst[i].pc # "off"
      BY <1>5 DEF Persist, PersistFails, Fenced, At
    <2>2. OnlyCrawler(i) /\ UNCHANGED <<standby, usable, config>>
      <3>1. CASE Persist(i)
        BY <3>1, AboutOne DEF Persist
      <3>2. CASE PersistFails(i)
        BY <3>2, AboutOne DEF PersistFails, OnlyCrawler, ReadyInv
      <3>3. CASE Fenced(i)
        BY <3>3, AboutOne DEF Fenced
      <3> QED BY <1>5, <3>1, <3>2, <3>3
    <2> QED BY <2>1, <2>2, WorkKeepsReady
  <1>6. CASE LatePersist(i)
    <2>1. inst[i].pc # "off"
      BY <1>1, <1>6 DEF LatePersist, Sound, Idle
    <2>2. OnlyCrawler(i) /\ UNCHANGED <<standby, usable, config>>
      BY <1>6, AboutOne DEF LatePersist, OnlyCrawler, ReadyInv
    <2> QED BY <2>1, <2>2, WorkKeepsReady
  <1>7. CASE HandleReorg(i)
    <2>1. inst[i].pc # "off" /\ UNCHANGED <<standby, usable, config>>
      BY <1>7 DEF HandleReorg
    <2>2. OnlyCrawler(i)
      BY <1>7, AboutOne DEF HandleReorg, OnlyCrawler, ReadyInv
    <2> QED BY <2>1, <2>2, WorkKeepsReady
  <1> QED BY <1>2, <1>3, <1>4, <1>5, <1>6, <1>7 DEF Pipeline

\* a standby starts an object, and what ends one works on it,
LEMMA ProcessReady ==
  ASSUME CrawlInv, ReadyInv, NEW i \in Instances, LifeCycle(i) \/ Troubles(i) \/ SnapshotEpoch(i)
  PROVE ReadyInv'
  <1>1. Sound(inst[i], excuses)
    BY DEF CrawlInv
  <1>2. CASE StartAttempt(i) \/ StartLease(i) \/ StartAnchor(i)
    <2>1. (inst[i].pc # "off" \/ standby[i]) /\ UNCHANGED <<standby, usable, config>>
      BY <1>2 DEF StartAttempt, StartLease, StartAnchor
    <2>2. OnlyCrawler(i)
      BY <1>2 DEF StartAttempt, StartLease, StartAnchor, OnlyCrawler, ReadyInv
    <2> QED BY <2>1, <2>2, WorkKeepsReady
  <1>3. CASE ApplyStop(i)
    <2>1. UNCHANGED <<standby, usable, config>>
          /\ inst' = [inst EXCEPT ![i] = IF @.pc = "off" THEN @ ELSE Halted(@, "stopped", FALSE)]
      BY <1>3 DEF ApplyStop
    <2>2. OnlyCrawler(i)
      BY <2>1 DEF OnlyCrawler, ReadyInv
    <2>3. CASE inst[i].pc = "off"
      <3>1. inst'[i] = inst[i]
        BY <2>1, <2>3 DEF ReadyInv
      <3> QED BY <2>1, <2>2, <3>1, PlaceKeepsReady DEF OnlyCrawler, ReadyInv
    <2> QED BY <2>1, <2>2, <2>3, WorkKeepsReady
  <1>4. CASE Drain(i) \/ Release(i)
    <2>1. inst[i].pc # "off" /\ UNCHANGED <<standby, usable, config>>
      BY <1>4 DEF Drain, Release
    <2>2. OnlyCrawler(i)
      BY <1>4, AboutOne DEF Drain, Release, OnlyCrawler, ReadyInv
    <2> QED BY <2>1, <2>2, WorkKeepsReady
  <1>5. CASE Heartbeat(i)
    <2>1. inst[i].pc # "off" /\ UNCHANGED <<standby, usable, config>>
      BY <1>1, <1>5 DEF Heartbeat, Sound
    <2>2. OnlyCrawler(i)
      BY <1>5 DEF Heartbeat, OnlyCrawler, ReadyInv
    <2> QED BY <2>1, <2>2, WorkKeepsReady
  <1>6. CASE Troubles(i)
    <2>1. inst[i].pc # "off" /\ UNCHANGED <<standby, usable, config>>
      BY <1>1, <1>6 DEF Troubles, StreamClosed, FrameError, FetchFails, At, Sound
    <2>2. OnlyCrawler(i)
      BY <1>6, AboutOne DEF Troubles, StreamClosed, FrameError, FetchFails
    <2> QED BY <2>1, <2>2, WorkKeepsReady
  <1>7. CASE SnapshotEpoch(i)
    <2>1. UNCHANGED <<standby, usable, config>> /\ OnlyCrawler(i) /\ inst'[i].pc = inst[i].pc
      <3>1. DOMAIN inst[i] = CrawlerFields /\ "pc" \in CrawlerFields
        BY <1>1 DEF Sound, CrawlerFields
      <3> QED BY <1>7, <3>1 DEF SnapshotEpoch, OnlyCrawler, ReadyInv
    <2> QED BY <2>1, PlaceKeepsReady DEF OnlyCrawler, ReadyInv
  <1> QED BY <1>2, <1>3, <1>4, <1>5, <1>6, <1>7 DEF LifeCycle

\* a standby begins with a client,
LEMMA OperatorReady ==
  ASSUME CrawlInv, ReadyInv, NEW i \in Instances, Operator(i) \/ Crash(i)
  PROVE ReadyInv'
  <1>1. CASE RequestStop(i)
    <2>1. UNCHANGED <<inst, usable, config>> /\ standby' = [standby EXCEPT ![i] = FALSE]
      BY <1>1 DEF RequestStop
    <2> QED BY <2>1 DEF ReadyInv
  <1>2. CASE ResumeCrawler(i)
    <2>1. UNCHANGED <<inst, usable, config>> /\ standby' = [standby EXCEPT ![i] = TRUE] /\ usable[i] # {}
      BY <1>2 DEF ResumeCrawler
    <2> QED BY <2>1 DEF ReadyInv
  <1>3. CASE Boot(i) \/ EnsureBackendInitialized(i)
    <2>1. /\ UNCHANGED <<inst, config>> /\ standby' \in {standby, [standby EXCEPT ![i] = TRUE]}
          /\ \/ usable' = usable /\ usable[i] # {}
             \/ \E up \in (SUBSET config.backends) \ {{}} : usable' = [usable EXCEPT ![i] = up]
      BY <1>3 DEF Boot, InitBackends, EnsureBackendInitialized, ReadyInv
    <2>2. \A j \in Instances \ {i} : usable'[j] = usable[j] /\ standby'[j] = standby[j]
      BY <2>1 DEF ReadyInv
    <2>3. usable'[i] # {} /\ usable'[i] \subseteq Kinds
      BY <2>1 DEF ReadyInv
    <2>4. DOMAIN usable' = Instances /\ DOMAIN standby' = Instances
      BY <2>1 DEF ReadyInv
    <2> QED BY <2>1, <2>2, <2>3, <2>4 DEF ReadyInv
  <1>4. CASE Crash(i)
    <2>1. /\ config' = config /\ inst' = [inst EXCEPT ![i] = NoCrawler]
          /\ standby' = [standby EXCEPT ![i] = FALSE] /\ usable' = [usable EXCEPT ![i] = {}]
      BY <1>4 DEF Crash
    <2>2. NoCrawler.pc = "off"
      BY DEF NoCrawler
    <2> HIDE DEF NoCrawler
    <2> QED BY <2>1, <2>2 DEF ReadyInv
  <1> QED BY <1>1, <1>2, <1>3, <1>4 DEF Operator

\* and an import leaves the clients alone.
LEMMA ImportReady ==
  ASSUME CrawlInv, ReadyInv, NEW i \in Instances, ImportStep(i)
  PROVE ReadyInv'
  <1>1. UNCHANGED <<standby, usable, config>>
    BY DEF ImportStep, RequestImport, ImportLease, ImportBegin, ImportFlush, ImportActivate, ImportFails,
           MarkInvalid, ImportRelease, ImportHeartbeat
  <1>2. inst' = inst \/ \E a : inst' = [inst EXCEPT ![i].anchor = a]
    BY DEF ImportStep, RequestImport, ImportLease, ImportBegin, ImportFlush, ImportActivate, ImportFails,
           MarkInvalid, ImportRelease, ImportHeartbeat
  <1>3. DOMAIN inst' = Instances /\ \A j \in Instances : inst'[j].pc = inst[j].pc
    <2>1. "pc" \in DOMAIN inst[i] /\ DOMAIN inst = Instances
      BY DEF CrawlInv, Sound, CrawlerFields
    <2> QED BY <1>2, <2>1
  <1> QED BY <1>1, <1>3, PlaceKeepsReady DEF ReadyInv

\* Every step of the system keeps the processes ready.
LEMMA ReadyStep ==
  ASSUME CrawlInv, ReadyInv, [Next]_allVars
  PROVE ReadyInv'
  <1>1. CASE Mint \/ Fork \/ LeaseExpires \/ UNCHANGED allVars
    <2>1. UNCHANGED <<inst, standby, usable, config>>
      BY <1>1 DEF Mint, Fork, LeaseExpires, allVars, vars
    <2> QED BY <2>1 DEF ReadyInv
  <1>2. ASSUME NEW i \in Instances,
               Pipeline(i) \/ LifeCycle(i) \/ Troubles(i) \/ Operator(i) \/ SnapshotEpoch(i)
                 \/ ImportStep(i) \/ Crash(i)
        PROVE ReadyInv'
    BY <1>2, PipelineReady, ProcessReady, OperatorReady, ImportReady
  <1> QED BY <1>1, <1>2 DEF Next, CrawlerStep

--------------------------------------------------------------------------------
(* The two together.                                                             *)

\* Every step of the system keeps the crawlers in step,
LEMMA CrawlStep ==
  ASSUME CrawlInv, ReadyInv, [Next]_allVars
  PROVE CrawlInv'
  <1>1. CASE CrawlerStep /\ imp' = imp
    <2>1. CASE Mint \/ Fork \/ LeaseExpires
      BY <1>1, <2>1, EnvironmentStep
    <2>2. ASSUME NEW i \in Instances, Pipeline(i) \/ LifeCycle(i) \/ Troubles(i) \/ Operator(i) \/ SnapshotEpoch(i)
          PROVE CrawlInv'
      BY <1>1, <2>2, PipelineKeeps, ProcessKeeps
    <2> QED BY <1>1, <2>1, <2>2 DEF CrawlerStep
  <1>2. ASSUME NEW i \in Instances, ImportStep(i) PROVE CrawlInv'
    BY <1>2, ImportKeeps
  <1>3. ASSUME NEW i \in Instances, Crash(i), imp' = [imp EXCEPT ![i] = NoImport] PROVE CrawlInv'
    BY <1>3, CrashStep
  <1>4. CASE UNCHANGED allVars
    <2>1. chain' \in Blocks /\ UNCHANGED <<cur, inst, stored, config, paused, excuses, imp>>
      BY <1>4 DEF allVars, vars, CrawlInv
    <2> QED BY <2>1, ChainStep
  <1> QED BY <1>1, <1>2, <1>3, <1>4 DEF Next

\* and both hold from the start.
LEMMA CrawlersStayReady == Spec => [](CrawlInv /\ ReadyInv)
  <1>1. ImportInit => CrawlInv
    BY CrawlStart
  <1>2. ImportInit => ReadyInv
    <2> SUFFICES ASSUME ImportInit PROVE ReadyInv
      OBVIOUS
    <2>1. /\ inst = [i \in Instances |-> NoCrawler] /\ standby = [i \in Instances |-> FALSE]
          /\ usable = [i \in Instances |-> {}]
      BY DEF ImportInit, Init
    <2>2. config.backends \subseteq Kinds /\ config.backends # {}
      <3>1. PICK s \in Scenarios : config = s.config
        BY DEF ImportInit, Init
      <3>2. config \in Config
        BY <3>1, CrawlerAssumption
      <3> QED BY <3>2 DEF Config
    <2>3. NoCrawler.pc = "off"
      BY DEF NoCrawler
    <2> HIDE DEF NoCrawler
    <2> QED BY <2>1, <2>2, <2>3 DEF ReadyInv
  <1>3. CrawlInv /\ ReadyInv /\ [Next]_allVars => CrawlInv' /\ ReadyInv'
    BY CrawlStep, ReadyStep
  <1> QED BY <1>1, <1>2, <1>3, PTL DEF Spec

\* The inductive invariant holds, whatever crashes, forks, faults and imports happen.
THEOREM CrawlerStaysInStep == Spec => []CrawlInv
  BY CrawlersStayReady, PTL

\* The rows of Blocks are exactly the ancestors of the cursor, for any number of processes, any
\* chain and any order of takeovers, reorgs, retries and provider switches; with the exceptions
\* StoredIsOneChain names.
THEOREM OneChainIsStored == Spec => []StoredIsOneChain
  <1>1. CrawlInv => StoredIsOneChain
    BY DEF CrawlInv, RowsFit, Clean, Line, StoredIsOneChain
  <1> QED BY <1>1, CrawlerStaysInStep, PTL

\* Only an operator, a block the database rejects or a source that is not configured takes back
\* the intent that the cluster crawls. No fault of the database does, and no outage of a stream or
\* of a provider, whatever the source; an init that fails does with a source that has no fallback,
\* and never with source 'auto', because a crawler runs only where some backend came up.
THEOREM OutagesDoNotLatch == Spec => []OutageNeverLatches
  <1>1. CrawlInv => OutageNeverLatches
    BY DEF CrawlInv, Broken, OutageNeverLatches
  <1> QED BY <1>1, CrawlerStaysInStep, PTL

\* While a crawler that maintains the set leads, an active set is as far as the cursor; with the
\* exceptions LeaderKeepsSetCurrent names.
THEOREM LeaderKeepsUp == Spec => []LeaderKeepsSetCurrent
  <1>1. CrawlInv => LeaderKeepsSetCurrent
    <2> SUFFICES ASSUME CrawlInv, excuses \ {"rewind", "stray", "uninit"} = {}, NEW i \in Instances, Maintains(i), cur.set = "active"
                 PROVE ~StaleSet(cur)
      BY DEF LeaderKeepsSetCurrent
    <2>1. Kept(excuses)
      BY DEF Kept
    <2>2. Sound(inst[i], excuses) /\ Leads(inst[i], cur, excuses, config.utxo[i])
      BY DEF CrawlInv, Maintains
    <2>3. inst[i].pc \notin {"off", "lease", "anchor"}
      BY <2>2 DEF Sound, Maintains
    <2>4. SetInStep(inst[i], cur, config.utxo[i])
      BY <2>1, <2>2 DEF Leads
    <2> QED BY <2>3, <2>4 DEF SetInStep, Maintains
  <1> QED BY <1>1, CrawlerStaysInStep, PTL

--------------------------------------------------------------------------------
(* The set: what the rows and the sums of the ledger are, and the invariant.      *)

\* The ledger's rows are outputs with a value and a spender, and its sums fit them.
Row(x) == x = LedgerRow(x, x.spent) /\ x.val \in Int
RowsSound(rows) == IsFiniteSet(DOMAIN rows) /\ \A o \in DOMAIN rows : Row(rows[o])
LedgerSound(l) == DOMAIN l = {"rows", "addrs", "accts"} /\ RowsSound(l.rows)
SumsFit(l) == SumsMatchRows(l) /\ NoStake \notin DOMAIN l.accts /\ IsFiniteSet(DOMAIN l.addrs)

\* A set taken at block a and applied up to block b: the outputs that were unspent at a
\* and those made since, each with its spender up to b.
SpentBy(b, o) == IF o \in Used(ChainTxs(b)) THEN Spender(ChainTxs(b), o) ELSE NoTx
RowsAre(rows, a, b) ==
  /\ DOMAIN rows = UnspentAt(a) \union (Made(ChainTxs(b)) \ Made(ChainTxs(a)))
  /\ \A o \in DOMAIN rows : rows[o].spent = SpentBy(b, o)

\* A set no block was applied to: outputs unspent at its anchor, all of them unless an
\* import broke off.
Untouched(c, rows) ==
  /\ DOMAIN rows \subseteq UnspentAt(c.anchor)
  /\ \A o \in DOMAIN rows : rows[o].spent = NoTx
Complete(c, rows) == DOMAIN rows = UnspentAt(c.anchor)

\* A set blocks were applied to: they are ancestors of the cursor, still stored.
Carried(c, rows, blks) ==
  /\ IsAncestor(c.anchor, c.at) /\ c.applied \in Slot(c.anchor)..Slot(c.at)
  /\ \A n \in Slot(c.anchor) + 1 .. c.applied : Ancestor(c.at, n) \in blks
  /\ RowsAre(rows, c.anchor, Ancestor(c.at, c.applied))

\* What lets go of the set, and what is true of it else.
Trusting(e) == Kept(e) /\ "stray" \notin e
SetFits(c, l, blks, e) ==
  Trusting(e) =>
    /\ LedgerSound(l)
    /\ c.applied = NoSlot /\ c.set # "none" => Untouched(c, l.rows)
    /\ "partial" \notin e =>
         /\ c.applied = NoSlot /\ c.set \in {"active", "invalid"} => Complete(c, l.rows)
         /\ c.applied # NoSlot /\ c.set = "active" => Carried(c, l.rows, blks)
         /\ c.set = "active" => SumsFit(l)

\* A crawler knows of a set only when there was one; the leader applies blocks only to a set it
\* maintains, that is active or was given up since.
HasSet(k, c) == k.anchor # NoBlock \/ k.seen.set # "none" => c.set # "none"
Applies(k, c, e, maintains) ==
  /\ k.pc \notin Idle /\ ~maintains => k.anchor = NoBlock
  /\ Kept(e) /\ k.pc \notin Idle /\ k.anchor # NoBlock => c.set \in {"active", "invalid"}
  /\ Kept(e) /\ k.pc = "anchor" /\ maintains => c.set \in {k.seen.set, "invalid"}

\* An import has a set to work on; while it holds the lease, the rows it has not loaded yet
\* are those to do.
Loads(c, m, rows) ==
  /\ c.anchor = m.anchor /\ c.set \in {"importing", "invalid"}
  /\ m.pc = "flush" => m.todo \subseteq UnspentAt(m.anchor) /\ DOMAIN rows = UnspentAt(m.anchor) \ m.todo
  /\ m.pc = "activate" => DOMAIN rows = UnspentAt(m.anchor)
Imports(i, m, c, rows) ==
  /\ m.pc = "flush" => m.kind = "import"
  /\ m.kind = "rebuild" \/ m.pc \in {"flush", "activate", "invalid"} => c.set # "none"
  /\ c.owner = Importer(i) /\ Loading(m) => Loads(c, m, rows)

\* The inductive invariant of the set.
SetInv ==
  /\ DOMAIN ledger = {"rows", "addrs", "accts"}
  /\ SetFits(cur, ledger, stored, excuses)
  /\ cur.set \in {"none", "importing", "active", "invalid"}
  /\ \A i \in Instances : HasSet(inst[i], cur)
  /\ \A i \in Instances : cur.owner = i => Applies(inst[i], cur, excuses, config.utxo[i])
  /\ \A i \in Instances : Imports(i, imp[i], cur, ledger.rows)
--------------------------------------------------------------------------------
(* Sums over a finite set. The ledger's sums are folds of the form               *)
(* MapThenSumSet(LAMBDA x : ..., S): a fact about one is proved by naming its     *)
(* terms with a function g, as a fact about SumOf(g, S).                          *)

\* The function behind such a fold, and the sum of the terms of g over S.
SomeOf(s) == CHOOSE x \in s : TRUE
Adds(g, S, h) == h = [s \in SUBSET S |-> IF s = {} THEN 0 ELSE g[SomeOf(s)] + h[s \ {SomeOf(s)}]]
SumOf(g, S) == MapThenSumSet(LAMBDA x : g[x], S)
IsSum(g, S, h) == h \in [SUBSET S -> Int] /\ Adds(g, S, h) /\ \A s \in SUBSET S : SumOf(g, s) = h[s]

\* A set of natural numbers has a smallest one.
LEMMA SmallestNumber ==
  ASSUME NEW T, T \subseteq Nat, T # {}
  PROVE \E x \in T : \A y \in T : x <= y
  <1> DEFINE R == OpToRel(<, Nat)
  <1>1. IsWellFoundedOn(R, Nat)
    BY NatLessThanWellFounded
  <1>2. \A x, y \in Nat : x < y => <<x, y>> \in R
    BY DEF OpToRel
  <1> HIDE DEF R
  <1>3. PICK x \in T : \A y \in T : ~(<<y, x>> \in R)
    BY <1>1, WFMin
  <1>4. \A y \in T : ~(y < x)
    BY <1>2, <1>3
  <1> QED
    BY <1>4

\* A family of subsets of a finite set that holds every set whose proper subsets
\* it holds, holds them all.
LEMMA FamilyInduction ==
  ASSUME NEW S, IsFiniteSet(S), NEW F,
         \A s \in SUBSET S : (\A t \in SUBSET s : t # s => t \in F) => s \in F
  PROVE \A s \in SUBSET S : s \in F
  <1> SUFFICES ASSUME NEW z \in SUBSET S, z \notin F PROVE FALSE
    OBVIOUS
  <1> DEFINE N == {Cardinality(s) : s \in {t \in SUBSET S : t \notin F}}
  <1>1. \A s \in SUBSET S : IsFiniteSet(s) /\ Cardinality(s) \in Nat
    BY FS_Subset, FS_CardinalityType
  <1>2. N \subseteq Nat /\ N # {}
    BY <1>1
  <1> HIDE DEF N
  <1>3. PICK n \in N : \A m \in N : n <= m
    BY <1>2, SmallestNumber
  <1>4. PICK s \in SUBSET S : s \notin F /\ n = Cardinality(s)
    BY <1>3 DEF N
  <1>5. ASSUME NEW t \in SUBSET s, t # s PROVE t \in F
    <2>1. /\ Cardinality(t) \in Nat /\ Cardinality(s) \in Nat /\ Cardinality(t) <= Cardinality(s)
          /\ Cardinality(t) = Cardinality(s) => t = s
      BY <1>1, FS_Subset
    <2>2. SUFFICES ASSUME t \notin F PROVE FALSE
      OBVIOUS
    <2>3. Cardinality(t) \in N
      BY <2>2 DEF N
    <2>4. n <= Cardinality(t)
      BY <1>3, <2>3
    <2> QED
      BY <1>4, <1>5, <2>1, <2>4
  <1> QED
    BY <1>4, <1>5

\* Two such functions agree on the sets they both know.
LEMMA AddsUnique ==
  ASSUME NEW S, NEW T, IsFiniteSet(S), NEW g, NEW h, NEW k, Adds(g, S, h), Adds(g, T, k)
  PROVE \A s \in SUBSET S : s \in SUBSET T => h[s] = k[s]
  <1> DEFINE F == {s \in SUBSET S : s \in SUBSET T => h[s] = k[s]}
  <1>1. ASSUME NEW s \in SUBSET S, \A t \in SUBSET s : t # s => t \in F
        PROVE s \in F
    <2> SUFFICES ASSUME s \in SUBSET T PROVE h[s] = k[s]
      OBVIOUS
    <2>1. CASE s = {}
      BY <2>1 DEF Adds
    <2>2. CASE s # {}
      <3>1. SomeOf(s) \in s
        BY <2>2 DEF SomeOf
      <3>2. h[s \ {SomeOf(s)}] = k[s \ {SomeOf(s)}]
        BY <1>1, <3>1
      <3>3. h[s] = g[SomeOf(s)] + h[s \ {SomeOf(s)}] /\ k[s] = g[SomeOf(s)] + k[s \ {SomeOf(s)}]
        BY <2>2 DEF Adds
      <3> QED
        BY <3>2, <3>3
    <2> QED
      BY <2>1, <2>2
  <1> HIDE DEF F
  <1>2. \A s \in SUBSET S : s \in F
    BY <1>1, FamilyInduction
  <1> QED
    BY <1>2 DEF F

\* There is one, and its values are numbers.
LEMMA AddsExists ==
  ASSUME NEW S, IsFiniteSet(S), NEW g, \A x \in S : g[x] \in Int
  PROVE \E h \in [SUBSET S -> Int] : Adds(g, S, h)
  <1> DEFINE F == {s \in SUBSET S : \E h \in [SUBSET s -> Int] : Adds(g, s, h)}
  <1>1. ASSUME NEW s \in SUBSET S, \A t \in SUBSET s : t # s => t \in F
        PROVE s \in F
    <2> DEFINE H(t) == CHOOSE h \in [SUBSET t -> Int] : Adds(g, t, h)
               V(t) == H(t)[t]
               W(t) == IF t = {} THEN 0 ELSE g[SomeOf(t)] + V(t \ {SomeOf(t)})
               w == [t \in SUBSET s |-> W(t)]
    <2>1. \A t \in SUBSET s : t # s => H(t) \in [SUBSET t -> Int] /\ Adds(g, t, H(t))
      BY <1>1
    <2>2. \A t \in SUBSET s : t # s => V(t) \in Int
      BY <2>1
    <2>3. ASSUME NEW t \in SUBSET s, t # {}
          PROVE SomeOf(t) \in t /\ t \ {SomeOf(t)} \in SUBSET s /\ t \ {SomeOf(t)} # s
      BY <2>3 DEF SomeOf
    <2>4. \A t \in SUBSET s : W(t) \in Int
      <3> HIDE DEF V
      <3>1. ASSUME NEW t \in SUBSET s, t # {} PROVE g[SomeOf(t)] \in Int /\ V(t \ {SomeOf(t)}) \in Int
        BY <2>2, <2>3, <3>1
      <3> QED
        BY <3>1
    <2>5. \A t \in SUBSET s : IsFiniteSet(t)
      BY FS_Subset
    <2>6. ASSUME NEW t \in SUBSET s, t # s PROVE V(t) = W(t)
      <3> HIDE DEF H
      <3>1. CASE t = {}
        <4>1. Adds(g, t, H(t))
          BY <2>1, <2>6
        <4> QED
          BY <3>1, <4>1 DEF Adds
      <3>2. CASE t # {}
        <4> DEFINE u == t \ {SomeOf(t)}
        <4>1. SomeOf(t) \in t /\ u \in SUBSET s /\ u # s /\ u \in SUBSET t
          BY <2>3, <3>2
        <4>2. Adds(g, t, H(t)) /\ Adds(g, u, H(u))
          BY <2>1, <2>6, <4>1
        <4>3. H(u)[u] = H(t)[u]
          <5> DEFINE hu == H(u)
                     ht == H(t)
          <5>1. IsFiniteSet(u) /\ Adds(g, u, hu) /\ Adds(g, t, ht)
            BY <2>5, <4>1, <4>2
          <5> HIDE DEF u, hu, ht
          <5>2. \A x \in SUBSET u : x \in SUBSET t => hu[x] = ht[x]
            BY ONLY <5>1, AddsUnique
          <5>3. hu[u] = ht[u]
            BY <4>1, <5>2
          <5> QED
            BY <5>3 DEF hu, ht
        <4>4. H(t)[t] = g[SomeOf(t)] + H(t)[u]
          BY <3>2, <4>2 DEF Adds
        <4> QED
          BY <3>2, <4>3, <4>4
      <3> QED
        BY <3>1, <3>2
    <2>7. \A t \in SUBSET s : w[t] = IF t = {} THEN 0 ELSE g[SomeOf(t)] + w[t \ {SomeOf(t)}]
      <3> HIDE DEF V
      <3> QED
      BY <2>3, <2>6
    <2>8. w \in [SUBSET s -> Int]
      <3> HIDE DEF W
      <3> QED
        BY <2>4
    <2>9. Adds(g, s, w)
      <3> HIDE DEF W
      <3> QED
        BY <2>7, <2>8 DEF Adds
    <2> QED
      BY <2>8, <2>9
  <1> HIDE DEF F
  <1>2. \A s \in SUBSET S : s \in F
    BY <1>1, FamilyInduction
  <1> QED
    BY <1>2 DEF F

\* A fold of the library, unfolded.
LEMMA SumUnfold ==
  ASSUME NEW S, NEW g
  PROVE SumOf(g, S) = (CHOOSE h : Adds(g, S, h))[S]
  BY DEF SumOf, MapThenSumSet, MapThenFoldSet, SomeOf, Adds

\* Over a finite set of numbers the fold is a recursive function of the subsets:
LEMMA SumIs ==
  ASSUME NEW S, IsFiniteSet(S), NEW g, \A x \in S : g[x] \in Int
  PROVE \E h : IsSum(g, S, h)
  <1>1. PICK h \in [SUBSET S -> Int] : Adds(g, S, h)
    BY AddsExists
  <1>2. ASSUME NEW s \in SUBSET S PROVE SumOf(g, s) = h[s]
    <2>1. IsFiniteSet(s) /\ \A x \in s : g[x] \in Int
      BY FS_Subset
    <2>2. \E k : Adds(g, s, k)
      BY <2>1, AddsExists
    <2>3. PICK k : Adds(g, s, k) /\ SumOf(g, s) = k[s]
      BY <2>2, SumUnfold
    <2> QED
      BY <1>1, <2>1, <2>3, AddsUnique
  <1> QED
    BY <1>1, <1>2 DEF IsSum

\* nothing over the empty set,
LEMMA SumEmpty ==
  ASSUME NEW g
  PROVE SumOf(g, {}) = 0
  <1>1. IsFiniteSet({})
    BY FS_EmptySet
  <1>2. \E h : IsSum(g, {}, h)
    <2>1. \A x \in {} : g[x] \in Int
      OBVIOUS
    <2> QED
      BY ONLY <1>1, <2>1, SumIs
  <1>3. PICK h : IsSum(g, {}, h)
    BY <1>2
  <1> QED
    BY <1>3 DEF Adds, IsSum

\* a number over any,
LEMMA SumType ==
  ASSUME NEW S, IsFiniteSet(S), NEW g, \A x \in S : g[x] \in Int
  PROVE SumOf(g, S) \in Int
  <1>1. \E h : IsSum(g, S, h)
    BY SumIs
  <1> QED
    BY <1>1 DEF IsSum

\* and the term of any one member more than over the others.
LEMMA SumLess ==
  ASSUME NEW S, IsFiniteSet(S), NEW g, \A x \in S : g[x] \in Int, NEW y \in S
  PROVE SumOf(g, S) = g[y] + SumOf(g, S \ {y})
  <1>0. \E h : IsSum(g, S, h)
    BY SumIs
  <1>1. PICK h : IsSum(g, S, h)
    BY <1>0
  <1> DEFINE F == {s \in SUBSET S : \A x \in s : h[s] = g[x] + h[s \ {x}]}
  <1>2. ASSUME NEW s \in SUBSET S, \A t \in SUBSET s : t # s => t \in F, NEW x \in s
        PROVE h[s] = g[x] + h[s \ {x}]
    <2> DEFINE z == SomeOf(s)
    <2>1. z \in s
      BY DEF SomeOf
    <2>2. h[s] = g[z] + h[s \ {z}]
      BY <1>1, <2>1 DEF Adds, IsSum
    <2> HIDE DEF z
    <2>3. CASE x # z
      <3>1. s \ {z} \in F /\ s \ {x} \in F
        BY <1>2, <2>1
      <3>2. h[s \ {z}] = g[x] + h[(s \ {z}) \ {x}] /\ h[s \ {x}] = g[z] + h[(s \ {x}) \ {z}]
        BY <2>1, <2>3, <3>1
      <3>3. (s \ {z}) \ {x} = (s \ {x}) \ {z}
        OBVIOUS
      <3>4. g[x] \in Int /\ g[z] \in Int /\ h[(s \ {x}) \ {z}] \in Int
        BY <1>1, <2>1 DEF IsSum
      <3>5. h[s] = g[z] + (g[x] + h[(s \ {x}) \ {z}])
        BY <2>2, <3>2, <3>3
      <3>6. h[s \ {x}] = g[z] + h[(s \ {x}) \ {z}]
        BY <3>2
      <3> HIDE DEF F
      <3> QED
        BY <3>4, <3>5, <3>6
    <2> QED
      BY <2>2, <2>3
  <1>3. \A s \in SUBSET S : (\A t \in SUBSET s : t # s => t \in F) => s \in F
    BY <1>2
  <1> HIDE DEF F
  <1>4. \A s \in SUBSET S : s \in F
    BY <1>3, FamilyInduction
  <1>5. h[S] = g[y] + h[S \ {y}]
    BY <1>4 DEF F
  <1> QED
    BY <1>1, <1>5 DEF IsSum

\* The sum depends on the terms only;
LEMMA SumSame ==
  ASSUME NEW S, IsFiniteSet(S), NEW g, NEW k, \A x \in S : g[x] \in Int /\ k[x] = g[x]
  PROVE SumOf(k, S) = SumOf(g, S)
  <1> DEFINE F == {s \in SUBSET S : SumOf(k, s) = SumOf(g, s)}
  <1>1. ASSUME NEW s \in SUBSET S, \A t \in SUBSET s : t # s => t \in F
        PROVE s \in F
    <2>1. CASE s = {}
      BY <2>1, SumEmpty
    <2>2. CASE s # {}
      <3>1. PICK x \in s : TRUE
        BY <2>2
      <3>2. IsFiniteSet(s) /\ s \ {x} \in F
        BY <1>1, <3>1, FS_Subset
      <3>3. SumOf(g, s) = g[x] + SumOf(g, s \ {x}) /\ SumOf(k, s) = k[x] + SumOf(k, s \ {x})
        BY <3>1, <3>2, SumLess
      <3> QED
        BY <3>2, <3>3
    <2> QED
      BY <2>1, <2>2
  <1> HIDE DEF F
  <1>2. S \in F
    BY <1>1, FamilyInduction
  <1> QED
    BY <1>2 DEF F

\* a sum of sums is the sum of both;
LEMMA SumPlus ==
  ASSUME NEW S, IsFiniteSet(S), NEW g, NEW k, NEW m,
         \A x \in S : g[x] \in Int /\ k[x] \in Int /\ m[x] = g[x] + k[x]
  PROVE SumOf(m, S) = SumOf(g, S) + SumOf(k, S)
  <1> DEFINE F == {s \in SUBSET S : SumOf(m, s) = SumOf(g, s) + SumOf(k, s)}
  <1>1. ASSUME NEW s \in SUBSET S, \A t \in SUBSET s : t # s => t \in F
        PROVE s \in F
    <2>1. CASE s = {}
      BY <2>1, SumEmpty
    <2>2. CASE s # {}
      <3>1. PICK x \in s : TRUE
        BY <2>2
      <3>2. IsFiniteSet(s) /\ IsFiniteSet(s \ {x}) /\ s \ {x} \in F
        BY <1>1, <3>1, FS_Subset
      <3>3. /\ SumOf(g, s) = g[x] + SumOf(g, s \ {x})
            /\ SumOf(k, s) = k[x] + SumOf(k, s \ {x})
            /\ SumOf(m, s) = m[x] + SumOf(m, s \ {x})
        BY <3>1, <3>2, SumLess
      <3>4. SumOf(g, s \ {x}) \in Int /\ SumOf(k, s \ {x}) \in Int
        BY <3>2, SumType
      <3> QED
        BY <3>2, <3>3, <3>4
    <2> QED
      BY <2>1, <2>2
  <1> HIDE DEF F
  <1>2. S \in F
    BY <1>1, FamilyInduction
  <1> QED
    BY <1>2 DEF F

\* terms of zero add up to zero.
LEMMA SumZero ==
  ASSUME NEW S, IsFiniteSet(S), NEW g, \A x \in S : g[x] = 0
  PROVE SumOf(g, S) = 0
  <1>1. \A x \in S : g[x] \in Int /\ g[x] = g[x] + g[x]
    OBVIOUS
  <1>2. SumOf(g, S) = SumOf(g, S) + SumOf(g, S) /\ SumOf(g, S) \in Int
    BY <1>1, SumPlus, SumType
  <1>3. ASSUME NEW n \in Int, n = n + n PROVE n = 0
    BY ONLY <1>3
  <1> DEFINE n == SumOf(g, S)
  <1>4. n = n + n /\ n \in Int
    BY <1>2
  <1> HIDE DEF n
  <1>5. n = 0
    BY ONLY <1>3, <1>4, Zenon
  <1> QED BY <1>5 DEF n

\* The sum over two disjoint sets is the sum of both.
LEMMA SumUnion ==
  ASSUME NEW S, NEW T, IsFiniteSet(S), IsFiniteSet(T), S \intersect T = {}, NEW g,
         \A x \in S \union T : g[x] \in Int
  PROVE SumOf(g, S \union T) = SumOf(g, S) + SumOf(g, T)
  <1> DEFINE F == {s \in SUBSET T : SumOf(g, S \union s) = SumOf(g, S) + SumOf(g, s)}
  <1>1. ASSUME NEW s \in SUBSET T, \A t \in SUBSET s : t # s => t \in F
        PROVE s \in F
    <2>1. CASE s = {}
      <3>1. S \union s = S /\ SumOf(g, s) = 0 /\ SumOf(g, S) \in Int
        BY <2>1, SumEmpty, SumType
      <3>2. SumOf(g, S \union s) = SumOf(g, S) /\ SumOf(g, S) + SumOf(g, s) = SumOf(g, S)
        <4>1. \A a \in Int : a + 0 = a
          OBVIOUS
        <4> QED BY <3>1, <4>1, Zenon
      <3> QED BY <3>2
    <2>2. CASE s # {}
      <3>1. PICK x \in s : TRUE
        BY <2>2
      <3>2. s \ {x} \in F /\ (S \union s) \ {x} = S \union (s \ {x})
        BY <1>1, <3>1
      <3>3. IsFiniteSet(s) /\ IsFiniteSet(S \union s) /\ IsFiniteSet(s \ {x})
        BY FS_Subset, FS_Union
      <3>4. SumOf(g, s) = g[x] + SumOf(g, s \ {x}) /\ SumOf(g, s \ {x}) \in Int
        BY <3>1, <3>3, SumLess, SumType
      <3>5. SumOf(g, S \union s) = g[x] + SumOf(g, (S \union s) \ {x})
        BY <3>1, <3>3, SumLess
      <3>6. SumOf(g, S) \in Int /\ g[x] \in Int
        BY <3>1, SumType
      <3>7. SumOf(g, S \union (s \ {x})) = SumOf(g, S) + SumOf(g, s \ {x})
        BY <3>2
      <3>8. ASSUME NEW a \in Int, NEW b \in Int, NEW c \in Int PROVE c + (a + b) = a + (c + b)
        OBVIOUS
      <3>9. SumOf(g, S \union s) = g[x] + (SumOf(g, S) + SumOf(g, s \ {x}))
        BY <3>2, <3>5, <3>7
      <3>10. SumOf(g, S \union s) = SumOf(g, S) + SumOf(g, s)
        BY <3>4, <3>6, <3>8, <3>9
      <3> QED BY <3>10
    <2> QED BY <2>1, <2>2
  <1> HIDE DEF F
  <1>2. T \in F
    BY <1>1, FamilyInduction
  <1> QED BY <1>2 DEF F

\* The sums of the ledger, by the terms they add.
AddsTotal(rows, S, h) == h = [s \in SUBSET S |-> IF s = {} THEN 0 ELSE rows[SomeOf(s)].val + h[s \ {SomeOf(s)}]]
AddsAmount(f, S, h) == h = [s \in SUBSET S |-> IF s = {} THEN 0 ELSE f[SomeOf(s)].total + h[s \ {SomeOf(s)}]]
AddsOutputs(f, S, h) == h = [s \in SUBSET S |-> IF s = {} THEN 0 ELSE f[SomeOf(s)].count + h[s \ {SomeOf(s)}]]

\* Total adds up the values of rows,
LEMMA TotalIs ==
  ASSUME NEW rows, NEW S, NEW g, \A x \in S : g[x] = rows[x].val
  PROVE Total(rows, S) = SumOf(g, S)
  <1>1. Total(rows, S) = (CHOOSE h : AddsTotal(rows, S, h))[S]
    BY DEF Total, MapThenSumSet, MapThenFoldSet, SomeOf, AddsTotal
  <1>2. ASSUME NEW h PROVE AddsTotal(rows, S, h) <=> Adds(g, S, h)
    <2>1. \A s \in SUBSET S : s # {} => SomeOf(s) \in S
      BY DEF SomeOf
    <2>2. \A s \in SUBSET S : (IF s = {} THEN 0 ELSE rows[SomeOf(s)].val + h[s \ {SomeOf(s)}])
                               = (IF s = {} THEN 0 ELSE g[SomeOf(s)] + h[s \ {SomeOf(s)}])
      BY <2>1
    <2>3. [s \in SUBSET S |-> IF s = {} THEN 0 ELSE rows[SomeOf(s)].val + h[s \ {SomeOf(s)}]]
          = [s \in SUBSET S |-> IF s = {} THEN 0 ELSE g[SomeOf(s)] + h[s \ {SomeOf(s)}]]
      BY <2>2, Zenon
    <2> QED BY <2>3 DEF Adds, AddsTotal
  <1>3. (CHOOSE h : AddsTotal(rows, S, h)) = (CHOOSE h : Adds(g, S, h))
    BY <1>2, Zenon
  <1> QED BY <1>1, <1>3, SumUnfold

\* Amount the totals of addresses,
LEMMA AmountIs ==
  ASSUME NEW f, NEW S, NEW g, \A x \in S : g[x] = f[x].total
  PROVE Amount(f, S) = SumOf(g, S)
  <1>1. Amount(f, S) = (CHOOSE h : AddsAmount(f, S, h))[S]
    BY DEF Amount, MapThenSumSet, MapThenFoldSet, SomeOf, AddsAmount
  <1>2. ASSUME NEW h PROVE AddsAmount(f, S, h) <=> Adds(g, S, h)
    <2>1. \A s \in SUBSET S : s # {} => SomeOf(s) \in S
      BY DEF SomeOf
    <2>2. \A s \in SUBSET S : (IF s = {} THEN 0 ELSE f[SomeOf(s)].total + h[s \ {SomeOf(s)}])
                               = (IF s = {} THEN 0 ELSE g[SomeOf(s)] + h[s \ {SomeOf(s)}])
      BY <2>1
    <2>3. [s \in SUBSET S |-> IF s = {} THEN 0 ELSE f[SomeOf(s)].total + h[s \ {SomeOf(s)}]]
          = [s \in SUBSET S |-> IF s = {} THEN 0 ELSE g[SomeOf(s)] + h[s \ {SomeOf(s)}]]
      BY <2>2, Zenon
    <2> QED BY <2>3 DEF Adds, AddsAmount
  <1>3. (CHOOSE h : AddsAmount(f, S, h)) = (CHOOSE h : Adds(g, S, h))
    BY <1>2, Zenon
  <1> QED BY <1>1, <1>3, SumUnfold

\* and Outputs their numbers of outputs.
LEMMA OutputsIs ==
  ASSUME NEW f, NEW S, NEW g, \A x \in S : g[x] = f[x].count
  PROVE Outputs(f, S) = SumOf(g, S)
  <1>1. Outputs(f, S) = (CHOOSE h : AddsOutputs(f, S, h))[S]
    BY DEF Outputs, MapThenSumSet, MapThenFoldSet, SomeOf, AddsOutputs
  <1>2. ASSUME NEW h PROVE AddsOutputs(f, S, h) <=> Adds(g, S, h)
    <2>1. \A s \in SUBSET S : s # {} => SomeOf(s) \in S
      BY DEF SomeOf
    <2>2. \A s \in SUBSET S : (IF s = {} THEN 0 ELSE f[SomeOf(s)].count + h[s \ {SomeOf(s)}])
                               = (IF s = {} THEN 0 ELSE g[SomeOf(s)] + h[s \ {SomeOf(s)}])
      BY <2>1
    <2>3. [s \in SUBSET S |-> IF s = {} THEN 0 ELSE f[SomeOf(s)].count + h[s \ {SomeOf(s)}]]
          = [s \in SUBSET S |-> IF s = {} THEN 0 ELSE g[SomeOf(s)] + h[s \ {SomeOf(s)}]]
      BY <2>2, Zenon
    <2> QED BY <2>3 DEF Adds, AddsOutputs
  <1>3. (CHOOSE h : AddsOutputs(f, S, h)) = (CHOOSE h : Adds(g, S, h))
    BY <1>2, Zenon
  <1> QED BY <1>1, <1>3, SumUnfold

--------------------------------------------------------------------------------
(* The ledger: the sums fit the rows after each of the three ways to write them.  *)

\* The rows after a block is undone, or applied; the outputs a block spends.
UndoneRows(rows, ids) ==
  [o \in {x \in DOMAIN rows : x[1] \notin ids} |->
     [rows[o] EXCEPT !.spent = IF rows[o].spent \in ids THEN NoTx ELSE @]]
SpentNow(rows, txs) == {o \in (Used(txs) \ Made(txs)) \intersect DOMAIN rows : rows[o].spent = NoTx}
AppliedRow(rows, txs, o) ==
  IF o \in Made(txs)
  THEN LedgerRow(OutputAt(txs, o), IF o \in Used(txs) THEN Spender(txs, o) ELSE NoTx)
  ELSE [rows[o] EXCEPT !.spent = IF o \in SpentNow(rows, txs) THEN Spender(txs, o) ELSE @]
AppliedRows(rows, txs) == [o \in DOMAIN rows \union Made(txs) |-> AppliedRow(rows, txs, o)]

\* The addresses of a stake key.
Mine(addrs, s) == {a \in DOMAIN addrs : StakeOf(a) = s}

\* The addresses of finitely many rows are finitely many.
LEMMA AddressesFinite ==
  ASSUME NEW rows, NEW S, IsFiniteSet(S)
  PROVE IsFiniteSet(AddressesIn(rows, S))
  <1> DEFINE f == [o \in S |-> rows[o].addr]
             T == AddressesIn(rows, S)
  <1>1. f \in [S -> T] /\ \A a \in T : \E o \in S : f[o] = a
    BY DEF AddressesIn
  <1>2. f \in Surjection(S, T)
    BY <1>1 DEF Surjection
  <1> HIDE DEF f, T
  <1>3. IsFiniteSet(T)
    BY <1>2, FS_Surjection
  <1> QED BY <1>3 DEF T

\* A row with another spender.
LEMMA RowSpent ==
  ASSUME NEW x, Row(x), NEW t
  PROVE LET y == [x EXCEPT !.spent = t]
        IN Row(y) /\ y.addr = x.addr /\ y.val = x.val /\ y.spent = t
  BY DEF Row, LedgerRow

\* Totals and numbers of an address are numbers.
LEMMA AddressType ==
  ASSUME NEW rows, RowsSound(rows), NEW a
  PROVE LET x == AddressOf(rows, a)
        IN x = [total |-> x.total, count |-> x.count] /\ x.total \in Int /\ x.count \in Nat
  <1> DEFINE mine == RowsOf(rows, Open(rows), a)
             g == [o \in mine |-> rows[o].val]
  <1>1. mine \subseteq DOMAIN rows /\ IsFiniteSet(mine)
    BY FS_Subset DEF RowsOf, Open, RowsSound
  <1>2. \A o \in mine : g[o] = rows[o].val /\ g[o] \in Int
    BY <1>1 DEF RowsSound, Row
  <1>3. AddressOf(rows, a) = [total |-> Total(rows, mine), count |-> Cardinality(mine)]
    BY DEF AddressOf
  <1> HIDE DEF mine, g
  <1>4. Total(rows, mine) = SumOf(g, mine)
    BY <1>2, TotalIs
  <1>5. Total(rows, mine) \in Int /\ Cardinality(mine) \in Nat
    BY <1>1, <1>2, <1>4, SumType, FS_CardinalityType
  <1> QED BY <1>3, <1>5

\* The sums aggregateStatements derives fit the rows of any set.
THEOREM AggregatesFit ==
  ASSUME NEW rows, RowsSound(rows)
  PROVE /\ WithAggregates(rows).rows = rows
        /\ LedgerSound(WithAggregates(rows)) /\ SumsFit(WithAggregates(rows))
  <1> DEFINE l == WithAggregates(rows)
             addrs == [a \in AddressesIn(rows, Open(rows)) |-> AddressOf(rows, a)]
             accts == [s \in Stakes(DOMAIN addrs) |-> AccountOf(addrs, s)]
  <1>1. l = [rows |-> rows, addrs |-> addrs, accts |-> accts]
    BY DEF WithAggregates
  <1>2. DOMAIN addrs = AddressesIn(rows, Open(rows)) /\ DOMAIN accts = Stakes(DOMAIN addrs)
    OBVIOUS
  <1>3. /\ \A a \in DOMAIN addrs : addrs[a] = AddressOf(rows, a)
        /\ \A s \in DOMAIN accts : accts[s] = AccountOf(addrs, s)
    OBVIOUS
  <1>4. NoStake \notin DOMAIN accts
    BY <1>2 DEF Stakes
  <1> HIDE DEF addrs, accts, l
  <1>5. DOMAIN l = {"rows", "addrs", "accts"} /\ l.rows = rows /\ l.addrs = addrs /\ l.accts = accts
    BY <1>1
  <1>6. IsFiniteSet(DOMAIN addrs)
    <2>1. IsFiniteSet(Open(rows)) /\ IsFiniteSet(AddressesIn(rows, Open(rows)))
      BY FS_Subset, AddressesFinite DEF Open, RowsSound
    <2> QED BY <1>2, <2>1
  <1>7. LedgerSound(l) /\ SumsFit(l)
    BY <1>2, <1>3, <1>4, <1>5, <1>6 DEF LedgerSound, SumsFit, SumsMatchRows
  <1> QED BY <1>5, <1>7 DEF l

\* An account depends on its addresses alone.
LEMMA AccountSame ==
  ASSUME NEW f, NEW g, NEW s, Mine(f, s) = Mine(g, s), IsFiniteSet(Mine(f, s)),
         \A a \in Mine(f, s) : f[a] = g[a] /\ f[a].total \in Int /\ f[a].count \in Int
  PROVE AccountOf(f, s) = AccountOf(g, s)
  <1> DEFINE m == Mine(f, s)
             t == [a \in m |-> f[a].total]
             n == [a \in m |-> f[a].count]
  <1>1. \A a \in m : t[a] = f[a].total /\ t[a] = g[a].total /\ n[a] = f[a].count /\ n[a] = g[a].count
    OBVIOUS
  <1>2. /\ AccountOf(f, s) = [amount |-> Amount(f, m), addresses |-> Cardinality(m), utxos |-> Outputs(f, m)]
        /\ AccountOf(g, s) = [amount |-> Amount(g, m), addresses |-> Cardinality(m), utxos |-> Outputs(g, m)]
    BY DEF AccountOf, Mine
  <1> HIDE DEF m, t, n
  <1>3. Amount(f, m) = SumOf(t, m) /\ Amount(g, m) = SumOf(t, m)
    BY <1>1, AmountIs
  <1>4. Outputs(f, m) = SumOf(n, m) /\ Outputs(g, m) = SumOf(n, m)
    BY <1>1, OutputsIs
  <1> QED BY <1>2, <1>3, <1>4

\* An address depends on its open outputs alone.
LEMMA AddressSame ==
  ASSUME NEW f, NEW g, NEW a, RowsOf(f, Open(f), a) = RowsOf(g, Open(g), a),
         \A o \in RowsOf(f, Open(f), a) : f[o].val = g[o].val
  PROVE AddressOf(f, a) = AddressOf(g, a)
  <1> DEFINE m == RowsOf(f, Open(f), a)
             t == [o \in m |-> f[o].val]
  <1>1. \A o \in m : t[o] = f[o].val /\ t[o] = g[o].val
    OBVIOUS
  <1>2. /\ AddressOf(f, a) = [total |-> Total(f, m), count |-> Cardinality(m)]
        /\ AddressOf(g, a) = [total |-> Total(g, m), count |-> Cardinality(m)]
    BY DEF AddressOf
  <1> HIDE DEF m, t
  <1>3. Total(f, m) = SumOf(t, m) /\ Total(g, m) = SumOf(t, m)
    BY <1>1, TotalIs
  <1> QED BY <1>2, <1>3

\* An address that is recounted fits, and so does one that was left out for good reason.
LEMMA RecountFits ==
  ASSUME NEW l, DOMAIN l = {"rows", "addrs", "accts"}, RowsSound(l.rows), NEW A, IsFiniteSet(DOMAIN l.addrs), IsFiniteSet(A),
         \A a \in DOMAIN l.addrs \ A : l.addrs[a] = AddressOf(l.rows, a),
         AddressesIn(l.rows, Open(l.rows)) \subseteq DOMAIN l.addrs \union A,
         \A s \in DOMAIN l.accts : l.accts[s] = AccountOf(l.addrs, s),
         Stakes(DOMAIN l.addrs) \subseteq DOMAIN l.accts, NoStake \notin DOMAIN l.accts
  PROVE SumsFit(RecountLedgerAddresses(l, A))
  <1> DEFINE addrs == [a \in DOMAIN l.addrs \union A |-> IF a \in A THEN AddressOf(l.rows, a) ELSE l.addrs[a]]
             accts == [s \in DOMAIN l.accts \union Stakes(A) |->
                         IF s \in Stakes(A) THEN AccountOf(addrs, s) ELSE l.accts[s]]
             d == RecountLedgerAddresses(l, A)
  <1>1. d.rows = l.rows /\ d.addrs = addrs /\ d.accts = accts
    <2> HIDE DEF addrs
    <2>1. d = [l EXCEPT !.addrs = addrs,
                 !.accts = [s \in DOMAIN @ \union Stakes(A) |->
                              IF s \in Stakes(A) THEN AccountOf(addrs, s) ELSE @[s]]]
      BY DEF RecountLedgerAddresses, addrs
    <2> QED BY <2>1
  <1>2. \A a \in DOMAIN addrs : addrs[a] = AddressOf(l.rows, a)
    OBVIOUS
  <1>3. Stakes(DOMAIN addrs) \subseteq DOMAIN accts /\ NoStake \notin DOMAIN accts
    BY DEF Stakes
  <1>4. ASSUME NEW s \in DOMAIN l.accts, s \notin Stakes(A) PROVE l.accts[s] = AccountOf(addrs, s)
    <2>1. \A a \in A : StakeOf(a) # s
      BY <1>4 DEF Stakes
    <2>2. Mine(l.addrs, s) = Mine(addrs, s)
      BY <2>1 DEF Mine
    <2>3. \A a \in Mine(l.addrs, s) : l.addrs[a] = addrs[a] /\ l.addrs[a] = AddressOf(l.rows, a)
      BY <2>1 DEF Mine
    <2>4. IsFiniteSet(Mine(l.addrs, s))
      BY FS_Subset DEF Mine
    <2>5. ASSUME NEW a \in Mine(l.addrs, s) PROVE l.addrs[a].total \in Int /\ l.addrs[a].count \in Int
      <3> DEFINE x == AddressOf(l.rows, a)
      <3>1. x.total \in Int /\ x.count \in Nat
        BY AddressType
      <3>2. l.addrs[a] = x
        BY <2>3
      <3> HIDE DEF x
      <3> QED BY <3>1, <3>2
    <2> HIDE DEF addrs
    <2>6. AccountOf(l.addrs, s) = AccountOf(addrs, s)
      BY <2>2, <2>3, <2>4, <2>5, AccountSame
    <2> QED BY <2>6
  <1>5. \A s \in DOMAIN accts : accts[s] = AccountOf(addrs, s)
    <2> HIDE DEF addrs
    <2> QED BY <1>4
  <1>6. AddressesIn(l.rows, Open(l.rows)) \subseteq DOMAIN addrs
    OBVIOUS
  <1>7. IsFiniteSet(DOMAIN addrs)
    BY FS_Union
  <1> HIDE DEF addrs, accts, d
  <1>8. SumsFit(d)
    BY <1>1, <1>2, <1>3, <1>5, <1>6, <1>7 DEF SumsFit, SumsMatchRows
  <1> QED BY <1>8 DEF d

\* undoLedgerForTransactions recounts the addresses that lost or regained an output, and the keys
\* of those: sums that fitted fit what is left, whatever transactions are undone.
THEOREM UndoFits ==
  ASSUME NEW l, LedgerSound(l), NEW ids
  PROVE LET d == UndoLedgerForTransactions(l, ids)
        IN /\ d.rows = UndoneRows(l.rows, ids) /\ LedgerSound(d)
           /\ SumsFit(l) => SumsFit(d)
  <1> DEFINE d == UndoLedgerForTransactions(l, ids)
             gone == {o \in DOMAIN l.rows : o[1] \in ids}
             reopened == {o \in DOMAIN l.rows : l.rows[o].spent \in ids}
             rows == UndoneRows(l.rows, ids)
             A == AddressesIn(l.rows, gone \union reopened)
             m == [l EXCEPT !.rows = rows]
  <1>1. d = RecountLedgerAddresses(m, A)
    <2>1. rows = [o \in DOMAIN l.rows \ gone |->
                    [l.rows[o] EXCEPT !.spent = IF o \in reopened THEN NoTx ELSE @]]
      <3>1. {x \in DOMAIN l.rows : x[1] \notin ids} = DOMAIN l.rows \ gone
        OBVIOUS
      <3> QED BY <3>1 DEF UndoneRows
    <2> HIDE DEF rows
    <2> QED BY <2>1 DEF UndoLedgerForTransactions
  <1>2. DOMAIN rows = DOMAIN l.rows \ gone
    BY DEF UndoneRows
  <1>3. ASSUME NEW o \in DOMAIN rows
        PROVE /\ Row(rows[o]) /\ rows[o].addr = l.rows[o].addr /\ rows[o].val = l.rows[o].val
              /\ rows[o].spent = IF o \in reopened THEN NoTx ELSE l.rows[o].spent
    <2> DEFINE t == IF l.rows[o].spent \in ids THEN NoTx ELSE l.rows[o].spent
    <2>1. o \in DOMAIN l.rows /\ Row(l.rows[o])
      BY <1>2 DEF LedgerSound, RowsSound
    <2>2. rows[o] = [l.rows[o] EXCEPT !.spent = t]
      BY DEF UndoneRows
    <2>3. t = IF o \in reopened THEN NoTx ELSE l.rows[o].spent
      BY <2>1
    <2> HIDE DEF t, rows
    <2> QED BY <2>1, <2>2, <2>3, RowSpent
  <1>4. RowsSound(rows)
    <2>1. IsFiniteSet(DOMAIN rows)
      BY <1>2, FS_Subset DEF LedgerSound, RowsSound
    <2> HIDE DEF rows
    <2> QED BY <1>3, <2>1 DEF RowsSound
  <1>5. DOMAIN m = {"rows", "addrs", "accts"} /\ m.rows = rows /\ m.addrs = l.addrs /\ m.accts = l.accts
    BY DEF LedgerSound
  <1> HIDE DEF m
  <1>6. d.rows = rows /\ DOMAIN d = {"rows", "addrs", "accts"}
    BY <1>1, <1>5 DEF RecountLedgerAddresses
  <1>7. LedgerSound(d)
    BY <1>4, <1>6 DEF LedgerSound
  <1>8. ASSUME SumsFit(l) PROVE SumsFit(d)
    <2>1. IsFiniteSet(A) /\ IsFiniteSet(DOMAIN l.addrs)
      <3>1. IsFiniteSet(gone \union reopened)
        BY FS_Subset DEF LedgerSound, RowsSound
      <3> HIDE DEF gone, reopened
      <3> QED BY <1>8, <3>1, AddressesFinite DEF SumsFit
    <2>2. ASSUME NEW a \in DOMAIN l.addrs \ A PROVE l.addrs[a] = AddressOf(rows, a)
      <3>1. \A o \in gone \union reopened : l.rows[o].addr # a
        BY <2>2 DEF AddressesIn
      <3>2. RowsOf(l.rows, Open(l.rows), a) = RowsOf(rows, Open(rows), a)
        <4>1. ASSUME NEW o \in DOMAIN l.rows, l.rows[o].addr = a
              PROVE o \in DOMAIN rows /\ rows[o].addr = a /\ rows[o].spent = l.rows[o].spent
          BY <1>2, <1>3, <3>1, <4>1
        <4>2. \A o \in DOMAIN rows : o \in DOMAIN l.rows /\ rows[o].addr = l.rows[o].addr
          BY <1>2, <1>3
        <4> HIDE DEF rows
        <4> QED BY <4>1, <4>2 DEF RowsOf, Open
      <3>3. \A o \in RowsOf(rows, Open(rows), a) : l.rows[o].val = rows[o].val
        <4> HIDE DEF rows
        <4> QED BY <1>3 DEF RowsOf, Open
      <3>4. AddressOf(l.rows, a) = AddressOf(rows, a)
        <4> HIDE DEF rows
        <4> QED BY <3>2, <3>3, AddressSame
      <3> QED BY <1>8, <3>4 DEF SumsFit, SumsMatchRows
    <2>3. AddressesIn(rows, Open(rows)) \subseteq DOMAIN l.addrs \union A
      <3> SUFFICES ASSUME NEW o \in Open(rows) PROVE rows[o].addr \in DOMAIN l.addrs \union A
        BY DEF AddressesIn
      <3>1. o \in DOMAIN rows /\ o \in DOMAIN l.rows /\ rows[o].spent = NoTx /\ rows[o].addr = l.rows[o].addr
        <4>1. o \in DOMAIN rows /\ rows[o].spent = NoTx
          BY DEF Open
        <4> QED BY <1>2, <1>3, <4>1
      <3>2. CASE o \in reopened
        BY <3>1, <3>2 DEF AddressesIn
      <3>3. CASE o \notin reopened
        <4>1. l.rows[o].spent = NoTx
          BY <1>3, <3>1, <3>3
        <4> QED BY <1>8, <3>1, <4>1 DEF SumsFit, SumsMatchRows, AddressesIn, Open
      <3> QED BY <3>2, <3>3
    <2>4. /\ \A s \in DOMAIN l.accts : l.accts[s] = AccountOf(l.addrs, s)
          /\ Stakes(DOMAIN l.addrs) \subseteq DOMAIN l.accts /\ NoStake \notin DOMAIN l.accts
      BY <1>8 DEF SumsFit, SumsMatchRows
    <2> HIDE DEF A, rows, d
    <2> QED BY <1>1, <1>4, <1>5, <2>1, <2>2, <2>3, <2>4, RecountFits
  <1> QED BY <1>6, <1>7, <1>8

\* A sum that takes in other terms: those of both sets are added.
LEMMA SumPadded ==
  ASSUME NEW M, NEW N, IsFiniteSet(M), IsFiniteSet(N), NEW g, \A a \in M : g[a] \in Int,
         NEW k, \A a \in M \union N : k[a] = IF a \in M THEN g[a] ELSE 0
  PROVE SumOf(k, M \union N) = SumOf(g, M)
  <1>1. M \union N = M \union (N \ M) /\ M \intersect (N \ M) = {} /\ IsFiniteSet(N \ M)
    BY FS_Difference
  <1>2. \A a \in M \union (N \ M) : k[a] \in Int
    BY <1>1
  <1>3. SumOf(k, M \union (N \ M)) = SumOf(k, M) + SumOf(k, N \ M)
    BY <1>1, <1>2, SumUnion
  <1>4. SumOf(k, M) = SumOf(g, M) /\ SumOf(k, N \ M) = 0
    BY <1>1, SumSame, SumZero
  <1>5. SumOf(g, M) \in Int
    BY SumType
  <1>6. \A x \in Int : x + 0 = x
    OBVIOUS
  <1>7. SumOf(k, M \union (N \ M)) = SumOf(g, M) + 0
    BY <1>3, <1>4, Zenon
  <1> QED BY <1>1, <1>5, <1>6, <1>7, Zenon

\* A sum whose terms move: by h on N, where M had g.
LEMMA SumMoves ==
  ASSUME NEW M, NEW N, IsFiniteSet(M), IsFiniteSet(N), NEW g, \A a \in M : g[a] \in Int,
         NEW h, \A a \in N : h[a] \in Int, NEW k,
         \A a \in M \union N : k[a] = (IF a \in M THEN g[a] ELSE 0) + (IF a \in N THEN h[a] ELSE 0)
  PROVE SumOf(k, M \union N) = SumOf(g, M) + SumOf(h, N)
  <1> DEFINE T == M \union N
             p == [a \in T |-> IF a \in M THEN g[a] ELSE 0]
             q == [a \in T |-> IF a \in N THEN h[a] ELSE 0]
  <1>1. /\ \A a \in T : p[a] = IF a \in M THEN g[a] ELSE 0
        /\ \A a \in T : q[a] = IF a \in N THEN h[a] ELSE 0
    OBVIOUS
  <1>2. \A a \in T : p[a] \in Int /\ q[a] \in Int /\ k[a] = p[a] + q[a]
    OBVIOUS
  <1>3. IsFiniteSet(T)
    BY FS_Union
  <1> HIDE DEF p, q
  <1>4. SumOf(p, M \union N) = SumOf(g, M)
    BY <1>1, SumPadded
  <1>5. SumOf(q, N \union M) = SumOf(h, N)
    BY <1>1, SumPadded
  <1>6. N \union M = T
    OBVIOUS
  <1> HIDE DEF T
  <1>7. SumOf(k, T) = SumOf(p, T) + SumOf(q, T)
    BY <1>2, <1>3, SumPlus
  <1> QED BY <1>4, <1>5, <1>6, <1>7, Zenon DEF T

\* The rows of a block written to the ledger.
LEMMA AppliedRowsFacts ==
  ASSUME NEW rows, RowsSound(rows), NEW txs, IsFiniteSet(Made(txs)),
         \A o \in Made(txs) : OutputAt(txs, o).val \in Int
  PROVE LET new == AppliedRows(rows, txs)
        IN /\ RowsSound(new) /\ DOMAIN new = DOMAIN rows \union Made(txs)
           /\ \A o \in Made(txs) : new[o].spent = IF o \in Used(txs) THEN Spender(txs, o) ELSE NoTx
           /\ \A o \in DOMAIN rows \ Made(txs) :
                /\ new[o].addr = rows[o].addr /\ new[o].val = rows[o].val
                /\ new[o].spent = IF o \in SpentNow(rows, txs) THEN Spender(txs, o) ELSE rows[o].spent
  <1> DEFINE new == AppliedRows(rows, txs)
  <1>1. DOMAIN new = DOMAIN rows \union Made(txs)
    BY DEF AppliedRows
  <1>2. ASSUME NEW o \in Made(txs)
        PROVE Row(new[o]) /\ new[o].spent = IF o \in Used(txs) THEN Spender(txs, o) ELSE NoTx
    <2> DEFINE t == IF o \in Used(txs) THEN Spender(txs, o) ELSE NoTx
    <2>1. new[o] = LedgerRow(OutputAt(txs, o), t) /\ OutputAt(txs, o).val \in Int
      BY DEF AppliedRows, AppliedRow
    <2> HIDE DEF new, t
    <2>2. Row(new[o]) /\ new[o].spent = t
      BY <2>1 DEF LedgerRow, Row
    <2> QED BY <2>2 DEF t
  <1>3. ASSUME NEW o \in DOMAIN rows \ Made(txs)
        PROVE /\ Row(new[o]) /\ new[o].addr = rows[o].addr /\ new[o].val = rows[o].val
              /\ new[o].spent = IF o \in SpentNow(rows, txs) THEN Spender(txs, o) ELSE rows[o].spent
    <2> DEFINE t == IF o \in SpentNow(rows, txs) THEN Spender(txs, o) ELSE rows[o].spent
    <2>1. new[o] = [rows[o] EXCEPT !.spent = t] /\ Row(rows[o])
      BY DEF AppliedRows, AppliedRow, RowsSound
    <2> HIDE DEF new, t
    <2>2. Row(new[o]) /\ new[o].addr = rows[o].addr /\ new[o].val = rows[o].val /\ new[o].spent = t
      BY <2>1, RowSpent
    <2> QED BY <2>2 DEF t
  <1>4. IsFiniteSet(DOMAIN new)
    BY <1>1, FS_Union DEF RowsSound
  <1> HIDE DEF new
  <1>5. RowsSound(new)
    BY <1>1, <1>2, <1>3, <1>4 DEF RowsSound
  <1>6. \A o \in Made(txs) : new[o].spent = IF o \in Used(txs) THEN Spender(txs, o) ELSE NoTx
    BY <1>2
  <1>7. \A o \in DOMAIN rows \ Made(txs) :
          /\ new[o].addr = rows[o].addr /\ new[o].val = rows[o].val
          /\ new[o].spent = IF o \in SpentNow(rows, txs) THEN Spender(txs, o) ELSE rows[o].spent
    BY <1>3
  <1> QED BY <1>1, <1>5, <1>6, <1>7 DEF new

\* The open outputs of an address: those it lost are among what it had, those it gained are new.
LEMMA OpenMoves ==
  ASSUME NEW rows, RowsSound(rows), NEW txs, IsFiniteSet(Made(txs)),
         \A o \in Made(txs) : OutputAt(txs, o).val \in Int,
         Made(txs) \intersect DOMAIN rows = {}, \A o \in Used(txs) : Spender(txs, o) # NoTx
  PROVE LET new == AppliedRows(rows, txs)
        IN /\ Open(new) = (Open(rows) \ SpentNow(rows, txs)) \union (Made(txs) \ Used(txs))
           /\ SpentNow(rows, txs) \subseteq Open(rows) /\ Open(rows) \subseteq DOMAIN new
           /\ \A o \in DOMAIN rows : new[o].addr = rows[o].addr /\ new[o].val = rows[o].val
           /\ \A a : /\ RowsOf(new, Open(new), a) =
                          (RowsOf(rows, Open(rows), a) \ RowsOf(new, SpentNow(rows, txs), a))
                             \union RowsOf(new, Made(txs) \ Used(txs), a)
                     /\ RowsOf(new, SpentNow(rows, txs), a) \subseteq RowsOf(rows, Open(rows), a)
                     /\ RowsOf(new, Made(txs) \ Used(txs), a) \intersect RowsOf(rows, Open(rows), a) = {}
  <1> DEFINE new == AppliedRows(rows, txs)
             made == Made(txs)
             used == Used(txs)
             spent == SpentNow(rows, txs)
  <1>1. /\ DOMAIN new = DOMAIN rows \union made
        /\ \A o \in made : new[o].spent = IF o \in used THEN Spender(txs, o) ELSE NoTx
        /\ \A o \in DOMAIN rows \ made :
             /\ new[o].addr = rows[o].addr /\ new[o].val = rows[o].val
             /\ new[o].spent = IF o \in spent THEN Spender(txs, o) ELSE rows[o].spent
    <2>1. LET n == AppliedRows(rows, txs)
          IN /\ RowsSound(n) /\ DOMAIN n = DOMAIN rows \union Made(txs)
             /\ \A o \in Made(txs) : n[o].spent = IF o \in Used(txs) THEN Spender(txs, o) ELSE NoTx
             /\ \A o \in DOMAIN rows \ Made(txs) :
                  /\ n[o].addr = rows[o].addr /\ n[o].val = rows[o].val
                  /\ n[o].spent = IF o \in SpentNow(rows, txs) THEN Spender(txs, o) ELSE rows[o].spent
      BY AppliedRowsFacts
    <2> QED BY <2>1
  <1>2. spent \subseteq Open(rows) /\ spent \subseteq used /\ Open(rows) \subseteq DOMAIN rows
    BY DEF SpentNow, Open
  <1>3. made \intersect DOMAIN rows = {} /\ \A o \in used : Spender(txs, o) # NoTx
    OBVIOUS
  <1> HIDE DEF new, made, used, spent
  <1>4. \A o \in DOMAIN rows : new[o].addr = rows[o].addr /\ new[o].val = rows[o].val
    BY <1>1, <1>3
  <1>5. Open(new) = (Open(rows) \ spent) \union (made \ used)
    <2>1. ASSUME NEW o \in made PROVE new[o].spent = NoTx <=> o \notin used
      BY <1>1, <1>3
    <2>2. ASSUME NEW o \in DOMAIN rows PROVE new[o].spent = NoTx <=> rows[o].spent = NoTx /\ o \notin spent
      BY <1>1, <1>2, <1>3 DEF Open
    <2> QED BY <1>1, <1>3, <2>1, <2>2 DEF Open
  <1>6. ASSUME NEW a
        PROVE /\ RowsOf(new, Open(new), a) =
                   (RowsOf(rows, Open(rows), a) \ RowsOf(new, spent, a)) \union RowsOf(new, made \ used, a)
              /\ RowsOf(new, spent, a) \subseteq RowsOf(rows, Open(rows), a)
              /\ RowsOf(new, made \ used, a) \intersect RowsOf(rows, Open(rows), a) = {}
    BY <1>2, <1>3, <1>4, <1>5 DEF RowsOf
  <1>7. Open(rows) \subseteq DOMAIN new
    BY <1>1, <1>2
  <1> QED BY <1>2, <1>4, <1>5, <1>6, <1>7 DEF new, made, used, spent

\* Totals and numbers of sets of rows.
LEMMA WeightType ==
  ASSUME NEW rows, RowsSound(rows), NEW S, S \subseteq DOMAIN rows
  PROVE Total(rows, S) \in Int /\ Cardinality(S) \in Nat /\ IsFiniteSet(S)
  <1> DEFINE g == [o \in S |-> rows[o].val]
  <1>1. IsFiniteSet(S) /\ \A o \in S : g[o] = rows[o].val /\ g[o] \in Int
    BY FS_Subset DEF RowsSound, Row
  <1> HIDE DEF g
  <1>2. Total(rows, S) = SumOf(g, S)
    BY <1>1, TotalIs
  <1> QED BY <1>1, <1>2, SumType, FS_CardinalityType

\* What moves is added and taken away.
LEMMA WeightMoves ==
  ASSUME NEW rows, RowsSound(rows), NEW old, NEW lost, NEW gained,
         old \subseteq DOMAIN rows, lost \subseteq old, gained \subseteq DOMAIN rows,
         gained \intersect old = {}
  PROVE /\ Total(rows, (old \ lost) \union gained) = Total(rows, old) + (Total(rows, gained) - Total(rows, lost))
        /\ Cardinality((old \ lost) \union gained) = Cardinality(old) + (Cardinality(gained) - Cardinality(lost))
  <1> DEFINE kept == old \ lost
             g == [o \in DOMAIN rows |-> rows[o].val]
  <1>1. /\ kept \union lost = old /\ kept \intersect lost = {} /\ kept \intersect gained = {}
        /\ kept \subseteq DOMAIN rows /\ lost \subseteq DOMAIN rows
    OBVIOUS
  <1>2. \A o \in DOMAIN rows : g[o] = rows[o].val /\ g[o] \in Int
    BY DEF RowsSound, Row
  <1> HIDE DEF kept, g
  <1>3. \A S : S \subseteq DOMAIN rows =>
          Total(rows, S) = SumOf(g, S) /\ Total(rows, S) \in Int /\ Cardinality(S) \in Nat /\ IsFiniteSet(S)
    <2> SUFFICES ASSUME NEW S, S \subseteq DOMAIN rows
                 PROVE /\ Total(rows, S) = SumOf(g, S) /\ Total(rows, S) \in Int /\ Cardinality(S) \in Nat
                       /\ IsFiniteSet(S)
      OBVIOUS
    <2> QED BY <1>2, TotalIs, WeightType
  <1>4. SumOf(g, kept \union lost) = SumOf(g, kept) + SumOf(g, lost)
    BY <1>1, <1>2, <1>3, SumUnion
  <1>5. SumOf(g, kept \union gained) = SumOf(g, kept) + SumOf(g, gained)
    BY <1>1, <1>2, <1>3, SumUnion
  <1>6. /\ Cardinality(kept \union lost) = Cardinality(kept) + Cardinality(lost) - Cardinality(kept \intersect lost)
        /\ Cardinality(kept \union gained) = Cardinality(kept) + Cardinality(gained) - Cardinality(kept \intersect gained)
    BY <1>1, <1>3, FS_Union
  <1>7. Cardinality(kept \intersect lost) = 0 /\ Cardinality(kept \intersect gained) = 0
    BY <1>1, FS_EmptySet
  <1>8. kept \union gained \subseteq DOMAIN rows
    BY <1>1
  <1>9. /\ Total(rows, old) = Total(rows, kept) + Total(rows, lost)
        /\ Total(rows, kept \union gained) = Total(rows, kept) + Total(rows, gained)
    <2>1. Total(rows, old) = SumOf(g, kept \union lost) /\ Total(rows, kept \union gained) = SumOf(g, kept \union gained)
      BY <1>1, <1>3, <1>8
    <2>2. Total(rows, kept) = SumOf(g, kept) /\ Total(rows, lost) = SumOf(g, lost) /\ Total(rows, gained) = SumOf(g, gained)
      BY <1>1, <1>3
    <2> QED BY <1>4, <1>5, <2>1, <2>2, Zenon
  <1>10. /\ Total(rows, kept) \in Int /\ Total(rows, lost) \in Int /\ Total(rows, gained) \in Int
         /\ Cardinality(kept) \in Int /\ Cardinality(lost) \in Int /\ Cardinality(gained) \in Int
    BY <1>1, <1>3
  <1>11. ASSUME NEW x \in Int, NEW y \in Int, NEW z \in Int, NEW o, NEW n, o = x + y, n = x + z
         PROVE n = o + (z - y)
    BY <1>11
  <1>12. Total(rows, kept \union gained) = Total(rows, old) + (Total(rows, gained) - Total(rows, lost))
    BY <1>9, <1>10, <1>11
  <1>13. Cardinality(kept \union gained) = Cardinality(old) + (Cardinality(gained) - Cardinality(lost))
    <2>1. Cardinality(old) = Cardinality(kept) + Cardinality(lost) - 0
      BY <1>1, <1>6, <1>7, Zenon
    <2>2. Cardinality(kept \union gained) = Cardinality(kept) + Cardinality(gained) - 0
      BY <1>6, <1>7, Zenon
    <2>3. Cardinality(old) = Cardinality(kept) + Cardinality(lost)
      BY <1>10, <2>1
    <2>4. Cardinality(kept \union gained) = Cardinality(kept) + Cardinality(gained)
      BY <1>10, <2>2
    <2> QED BY <1>10, <1>11, <2>3, <2>4
  <1> QED BY <1>12, <1>13 DEF kept

\* Sums k of addresses are sums f moved by deltas d.
Moves(f, d, k) ==
  /\ DOMAIN k = DOMAIN f \union DOMAIN d
  /\ \A a \in DOMAIN f : f[a].total \in Int /\ f[a].count \in Int
  /\ \A a \in DOMAIN d : d[a].total \in Int /\ d[a].count \in Int
  /\ \A a \in DOMAIN k :
       /\ k[a].total = (IF a \in DOMAIN f THEN f[a].total ELSE 0) + (IF a \in DOMAIN d THEN d[a].total ELSE 0)
       /\ k[a].count = (IF a \in DOMAIN f THEN f[a].count ELSE 0) + (IF a \in DOMAIN d THEN d[a].count ELSE 0)

\* An account moves with its addresses.
LEMMA AccountMoves ==
  ASSUME NEW f, NEW d, NEW k, IsFiniteSet(DOMAIN f), IsFiniteSet(DOMAIN d),
         Moves(f, d, k), NEW s
  PROVE /\ Amount(k, Mine(k, s)) = Amount(f, Mine(f, s)) + Amount(d, Mine(d, s))
        /\ Outputs(k, Mine(k, s)) = Outputs(f, Mine(f, s)) + Outputs(d, Mine(d, s))
        /\ Cardinality(Mine(k, s)) = Cardinality(Mine(f, s)) + Cardinality(Mine(d, s) \ DOMAIN f)
  <1> DEFINE M == Mine(f, s)
             N == Mine(d, s)
             T == Mine(k, s)
             X(g) == [a \in DOMAIN g |-> g[a].total]
             Y(g) == [a \in DOMAIN g |-> g[a].count]
  <1>1. /\ T = M \union N /\ M \subseteq DOMAIN f /\ N \subseteq DOMAIN d /\ IsFiniteSet(M) /\ IsFiniteSet(N)
        /\ \A a \in T : /\ a \in DOMAIN k /\ (a \in M <=> a \in DOMAIN f) /\ (a \in N <=> a \in DOMAIN d)
    BY FS_Subset DEF Mine, Moves
  <1>2. /\ \A a \in DOMAIN f : X(f)[a] = f[a].total /\ Y(f)[a] = f[a].count
        /\ \A a \in DOMAIN d : X(d)[a] = d[a].total /\ Y(d)[a] = d[a].count
        /\ \A a \in DOMAIN k : X(k)[a] = k[a].total /\ Y(k)[a] = k[a].count
    OBVIOUS
  <1>3. \A a \in M : X(f)[a] \in Int /\ Y(f)[a] \in Int
    BY <1>1, <1>2 DEF Moves
  <1>4. \A a \in N : X(d)[a] \in Int /\ Y(d)[a] \in Int
    BY <1>1, <1>2 DEF Moves
  <1>5. ASSUME NEW a \in M \union N
        PROVE /\ X(k)[a] = (IF a \in M THEN X(f)[a] ELSE 0) + (IF a \in N THEN X(d)[a] ELSE 0)
              /\ Y(k)[a] = (IF a \in M THEN Y(f)[a] ELSE 0) + (IF a \in N THEN Y(d)[a] ELSE 0)
    <2>1. a \in DOMAIN k /\ (a \in M <=> a \in DOMAIN f) /\ (a \in N <=> a \in DOMAIN d)
      BY <1>1
    <2>2. X(k)[a] = k[a].total /\ Y(k)[a] = k[a].count
      BY <1>2, <2>1
    <2>3. a \in M => X(f)[a] = f[a].total /\ Y(f)[a] = f[a].count
      BY <1>2, <2>1
    <2>4. a \in N => X(d)[a] = d[a].total /\ Y(d)[a] = d[a].count
      BY <1>2, <2>1
    <2>5. (IF a \in M THEN X(f)[a] ELSE 0) = (IF a \in DOMAIN f THEN f[a].total ELSE 0)
      BY <2>1, <2>3
    <2>6. (IF a \in N THEN X(d)[a] ELSE 0) = (IF a \in DOMAIN d THEN d[a].total ELSE 0)
      BY <2>1, <2>4
    <2>7. (IF a \in M THEN Y(f)[a] ELSE 0) = (IF a \in DOMAIN f THEN f[a].count ELSE 0)
      BY <2>1, <2>3
    <2>8. (IF a \in N THEN Y(d)[a] ELSE 0) = (IF a \in DOMAIN d THEN d[a].count ELSE 0)
      BY <2>1, <2>4
    <2> HIDE DEF X, Y, M, N
    <2>9. /\ k[a].total = (IF a \in DOMAIN f THEN f[a].total ELSE 0) + (IF a \in DOMAIN d THEN d[a].total ELSE 0)
          /\ k[a].count = (IF a \in DOMAIN f THEN f[a].count ELSE 0) + (IF a \in DOMAIN d THEN d[a].count ELSE 0)
      BY <2>1 DEF Moves
    <2> QED BY <2>2, <2>5, <2>6, <2>7, <2>8, <2>9, Zenon
  <1> HIDE DEF M, N, T, X, Y
  <1>6. SumOf(X(k), M \union N) = SumOf(X(f), M) + SumOf(X(d), N)
    BY <1>1, <1>3, <1>4, <1>5, SumMoves
  <1>7. SumOf(Y(k), M \union N) = SumOf(Y(f), M) + SumOf(Y(d), N)
    BY <1>1, <1>3, <1>4, <1>5, SumMoves
  <1>8. /\ Amount(f, M) = SumOf(X(f), M) /\ Amount(d, N) = SumOf(X(d), N) /\ Amount(k, T) = SumOf(X(k), T)
    BY <1>1, <1>2, AmountIs
  <1>9. /\ Outputs(f, M) = SumOf(Y(f), M) /\ Outputs(d, N) = SumOf(Y(d), N) /\ Outputs(k, T) = SumOf(Y(k), T)
    BY <1>1, <1>2, OutputsIs
  <1>10. Amount(k, T) = Amount(f, M) + Amount(d, N) /\ Outputs(k, T) = Outputs(f, M) + Outputs(d, N)
    BY <1>1, <1>6, <1>7, <1>8, <1>9, Zenon
  <1>11. Cardinality(T) = Cardinality(M) + Cardinality(N \ DOMAIN f)
    <2> DEFINE E == N \ DOMAIN f
    <2>1. T = M \union E /\ M \intersect E = {} /\ IsFiniteSet(E)
      BY <1>1, FS_Difference
    <2> HIDE DEF E
    <2>2. Cardinality(T) = Cardinality(M) + Cardinality(E) - Cardinality(M \intersect E)
      BY <1>1, <2>1, FS_Union
    <2>3. Cardinality(M \intersect E) = 0 /\ Cardinality(M) \in Nat /\ Cardinality(E) \in Nat
      BY <1>1, <2>1, FS_EmptySet, FS_CardinalityType
    <2>4. Cardinality(T) = Cardinality(M) + Cardinality(E)
      BY <2>2, <2>3
    <2> QED BY <2>4 DEF E
  <1> QED BY <1>10, <1>11 DEF M, N, T

\* An address without open rows has nothing.
LEMMA NoRows ==
  ASSUME NEW rows, NEW a, RowsOf(rows, Open(rows), a) = {}
  PROVE AddressOf(rows, a) = [total |-> 0, count |-> 0]
  <1>1. AddressOf(rows, a) = [total |-> Total(rows, {}), count |-> Cardinality({})]
    BY DEF AddressOf
  <1>2. Total(rows, {}) = SumOf(rows, {})
    BY TotalIs
  <1> QED BY <1>1, <1>2, SumEmpty, FS_EmptySet

\* A stake key without addresses has nothing.
LEMMA NoAddresses ==
  ASSUME NEW f, NEW s, Mine(f, s) = {}
  PROVE AccountOf(f, s) = [amount |-> 0, addresses |-> 0, utxos |-> 0]
  <1>1. AccountOf(f, s) = [amount |-> Amount(f, {}), addresses |-> Cardinality({}), utxos |-> Outputs(f, {})]
    BY DEF AccountOf, Mine
  <1>2. Amount(f, {}) = SumOf(f, {}) /\ Outputs(f, {}) = SumOf(f, {})
    BY AmountIs, OutputsIs
  <1> QED BY <1>1, <1>2, SumEmpty, FS_EmptySet

\* applyBlockToLedger moves the sums by deltas: if they fitted the rows and the block makes new
\* outputs, they fit the rows it writes, whatever it spends, what it spends of its own included.
THEOREM ApplyFits ==
  ASSUME NEW l, LedgerSound(l), NEW txs, IsFiniteSet(Made(txs)),
         \A o \in Made(txs) : OutputAt(txs, o).val \in Int
  PROVE LET e == ApplyBlockToLedger(l, txs)
        IN /\ e.rows = AppliedRows(l.rows, txs) /\ LedgerSound(e)
           /\ SumsFit(l) /\ Made(txs) \intersect DOMAIN l.rows = {} /\ (\A o \in Used(txs) : Spender(txs, o) # NoTx)
                => SumsFit(e)
  <1> DEFINE e == ApplyBlockToLedger(l, txs)
             made == Made(txs)
             used == Used(txs)
             spent == SpentNow(l.rows, txs)
             rows == AppliedRows(l.rows, txs)
             touched == AddressesIn(rows, made \union spent)
             gained(a) == Gained(rows, made, used, a)
             lost(a) == RowsOf(rows, spent, a)
             delta == [a \in touched |-> [total |-> Total(rows, gained(a)) - Total(rows, lost(a)),
                                          count |-> Cardinality(gained(a)) - Cardinality(lost(a))]]
             prev(a) == IF a \in DOMAIN l.addrs THEN l.addrs[a] ELSE [total |-> 0, count |-> 0]
             prevAccount(s) == IF s \in DOMAIN l.accts THEN l.accts[s]
                               ELSE [amount |-> 0, addresses |-> 0, utxos |-> 0]
             mine(s) == {a \in touched : StakeOf(a) = s}
             addrs == [a \in DOMAIN l.addrs \union touched |->
                         IF a \in touched THEN [total |-> prev(a).total + delta[a].total,
                                                count |-> prev(a).count + delta[a].count]
                         ELSE l.addrs[a]]
             account(s) == [amount |-> prevAccount(s).amount + Amount(delta, mine(s)),
                            addresses |-> prevAccount(s).addresses + Cardinality(mine(s) \ DOMAIN l.addrs),
                            utxos |-> prevAccount(s).utxos + Outputs(delta, mine(s))]
             accts == [s \in DOMAIN l.accts \union Stakes(touched) |-> account(s)]
  <1>1. e = [rows |-> rows, addrs |-> addrs, accts |-> accts]
    <2>1. rows = [o \in DOMAIN l.rows \union made |->
                 IF o \in made
                 THEN LedgerRow(OutputAt(txs, o), IF o \in used THEN Spender(txs, o) ELSE NoTx)
                 ELSE [l.rows[o] EXCEPT !.spent = IF o \in spent THEN Spender(txs, o) ELSE @]]
      BY DEF AppliedRows, AppliedRow
    <2>2. spent = {o \in (used \ made) \intersect DOMAIN l.rows : l.rows[o].spent = NoTx}
      BY DEF SpentNow
    <2> HIDE DEF rows, spent
    <2> QED BY <2>1, <2>2 DEF ApplyBlockToLedger
  <1>2. RowsSound(rows) /\ DOMAIN rows = DOMAIN l.rows \union made
    BY AppliedRowsFacts DEF LedgerSound
  <1>3. e.rows = rows /\ e.addrs = addrs /\ e.accts = accts /\ DOMAIN e = {"rows", "addrs", "accts"}
    <2> HIDE DEF rows, addrs, accts, e
    <2> QED BY <1>1
  <1>4. LedgerSound(e)
    BY <1>2, <1>3 DEF LedgerSound
  <1>5. ASSUME SumsFit(l), made \intersect DOMAIN l.rows = {}, \A o \in used : Spender(txs, o) # NoTx
        PROVE SumsFit(e)
    <2>1. /\ Open(rows) = (Open(l.rows) \ spent) \union (made \ used)
          /\ spent \subseteq Open(l.rows) /\ Open(l.rows) \subseteq DOMAIN rows
          /\ \A o \in DOMAIN l.rows : rows[o].addr = l.rows[o].addr /\ rows[o].val = l.rows[o].val
          /\ \A a : /\ RowsOf(rows, Open(rows), a) = (RowsOf(l.rows, Open(l.rows), a) \ lost(a)) \union gained(a)
                    /\ lost(a) \subseteq RowsOf(l.rows, Open(l.rows), a)
                    /\ gained(a) \intersect RowsOf(l.rows, Open(l.rows), a) = {}
      BY <1>5, OpenMoves DEF Gained, LedgerSound
    <2>2. ASSUME NEW a \in touched
          PROVE delta[a] = [total |-> Total(rows, gained(a)) - Total(rows, lost(a)),
                            count |-> Cardinality(gained(a)) - Cardinality(lost(a))]
      OBVIOUS
    <2>3. DOMAIN delta = touched /\ DOMAIN addrs = DOMAIN l.addrs \union touched
      OBVIOUS
    <2>4. \A a \in DOMAIN l.addrs : l.addrs[a] = AddressOf(l.rows, a)
      BY <1>5 DEF SumsFit, SumsMatchRows
    <2>5. IsFiniteSet(touched) /\ IsFiniteSet(DOMAIN l.addrs)
      <3>1. made \union spent \subseteq DOMAIN rows
        BY <1>2, <2>1
      <3>2. IsFiniteSet(made \union spent)
        BY <1>2, <3>1, FS_Subset DEF RowsSound
      <3> QED BY <1>5, <3>2, AddressesFinite DEF SumsFit
    <2>6. ASSUME NEW a
          PROVE /\ gained(a) \subseteq DOMAIN rows /\ lost(a) \subseteq DOMAIN rows
                /\ RowsOf(l.rows, Open(l.rows), a) \subseteq DOMAIN rows
                /\ a \notin touched => gained(a) = {} /\ lost(a) = {}
      <3>1. gained(a) \subseteq made /\ \A o \in gained(a) : rows[o].addr = a
        BY DEF Gained, RowsOf
      <3>2. lost(a) \subseteq spent /\ \A o \in lost(a) : rows[o].addr = a
        BY DEF RowsOf
      <3>3. RowsOf(l.rows, Open(l.rows), a) \subseteq Open(l.rows)
        BY DEF RowsOf
      <3>4. ASSUME a \notin touched PROVE \A o \in made \union spent : rows[o].addr # a
        BY <3>4 DEF AddressesIn
      <3> HIDE DEF rows, made, spent, touched, gained, lost
      <3> QED BY <1>2, <2>1, <3>1, <3>2, <3>3, <3>4
    <2>7. ASSUME NEW a
          PROVE /\ AddressOf(l.rows, a).total \in Int /\ AddressOf(l.rows, a).count \in Int
                /\ AddressOf(rows, a) =
                     [total |-> AddressOf(l.rows, a).total + (Total(rows, gained(a)) - Total(rows, lost(a))),
                      count |-> AddressOf(l.rows, a).count + (Cardinality(gained(a)) - Cardinality(lost(a)))]
      <3> DEFINE old == RowsOf(l.rows, Open(l.rows), a)
      <3> HIDE DEF rows, made, spent, touched, gained, lost
      <3>1. /\ Total(rows, (old \ lost(a)) \union gained(a)) = Total(rows, old) + (Total(rows, gained(a)) - Total(rows, lost(a)))
            /\ Cardinality((old \ lost(a)) \union gained(a)) = Cardinality(old) + (Cardinality(gained(a)) - Cardinality(lost(a)))
        BY <1>2, <2>1, <2>6, WeightMoves
      <3>2. AddressOf(rows, a) = [total |-> Total(rows, (old \ lost(a)) \union gained(a)),
                                  count |-> Cardinality((old \ lost(a)) \union gained(a))]
        BY <2>1, Zenon DEF AddressOf
      <3>3. AddressOf(l.rows, a) = [total |-> Total(l.rows, old), count |-> Cardinality(old)]
        BY DEF AddressOf
      <3>4. Total(l.rows, old) = Total(rows, old)
        <4> DEFINE g == [o \in old |-> rows[o].val]
        <4>1. \A o \in old : g[o] = rows[o].val /\ g[o] = l.rows[o].val
          BY <2>1 DEF RowsOf, Open
        <4> HIDE DEF g, old
        <4>2. Total(rows, old) = SumOf(g, old)
          BY <4>1, TotalIs
        <4>3. Total(l.rows, old) = SumOf(g, old)
          BY <4>1, TotalIs
        <4> QED BY <4>2, <4>3
      <3>5. Total(rows, old) \in Int /\ Cardinality(old) \in Nat
        BY <1>2, <2>6, WeightType
      <3> HIDE DEF old
      <3> QED BY <3>1, <3>2, <3>3, <3>4, <3>5
    <2>8. ASSUME NEW a PROVE prev(a) = AddressOf(l.rows, a)
      <3>1. CASE a \in DOMAIN l.addrs
        BY <2>4, <3>1
      <3>2. CASE a \notin DOMAIN l.addrs
        <4>1. a \notin AddressesIn(l.rows, Open(l.rows))
          BY <1>5, <3>2 DEF SumsFit, SumsMatchRows
        <4>2. RowsOf(l.rows, Open(l.rows), a) = {}
          BY <4>1 DEF RowsOf, AddressesIn
        <4> QED BY <3>2, <4>2, NoRows
      <3> QED BY <3>1, <3>2
    <2>9. ASSUME NEW a \in touched
          PROVE /\ delta[a].total = Total(rows, gained(a)) - Total(rows, lost(a))
                /\ delta[a].count = Cardinality(gained(a)) - Cardinality(lost(a))
                /\ delta[a].total \in Int /\ delta[a].count \in Int
      <3>1. delta[a] = [total |-> Total(rows, gained(a)) - Total(rows, lost(a)),
                        count |-> Cardinality(gained(a)) - Cardinality(lost(a))]
        BY <2>2
      <3>2. /\ Total(rows, gained(a)) \in Int /\ Cardinality(gained(a)) \in Nat
            /\ Total(rows, lost(a)) \in Int /\ Cardinality(lost(a)) \in Nat
        <4> HIDE DEF rows, gained, lost
        <4> QED BY <1>2, <2>6, WeightType
      <3> HIDE DEF rows, gained, lost, delta
      <3> QED BY <3>1, <3>2
    <2>10. ASSUME NEW a \in DOMAIN addrs
           PROVE /\ addrs[a] = AddressOf(rows, a)
                 /\ addrs[a].total = (IF a \in DOMAIN l.addrs THEN l.addrs[a].total ELSE 0)
                                       + (IF a \in DOMAIN delta THEN delta[a].total ELSE 0)
                 /\ addrs[a].count = (IF a \in DOMAIN l.addrs THEN l.addrs[a].count ELSE 0)
                                       + (IF a \in DOMAIN delta THEN delta[a].count ELSE 0)
      <3>1. CASE a \in touched
        <4>1. addrs[a] = [total |-> prev(a).total + delta[a].total, count |-> prev(a).count + delta[a].count]
          BY <3>1
        <4>2. /\ prev(a).total = (IF a \in DOMAIN l.addrs THEN l.addrs[a].total ELSE 0)
              /\ prev(a).count = (IF a \in DOMAIN l.addrs THEN l.addrs[a].count ELSE 0)
          OBVIOUS
        <4>3. AddressOf(rows, a) = [total |-> prev(a).total + delta[a].total, count |-> prev(a).count + delta[a].count]
          <5> HIDE DEF rows, gained, lost, delta, prev
          <5> QED BY <2>7, <2>8, <2>9, <3>1
        <4> HIDE DEF rows, gained, lost, delta, prev, addrs
        <4> QED BY <2>3, <3>1, <4>1, <4>2, <4>3
      <3>2. CASE a \notin touched
        <4>1. addrs[a] = l.addrs[a] /\ a \in DOMAIN l.addrs /\ a \notin DOMAIN delta
          BY <2>3, <3>2
        <4>2. RowsOf(rows, Open(rows), a) = RowsOf(l.rows, Open(l.rows), a)
          <5> HIDE DEF rows, gained, lost, touched
          <5> QED BY <2>1, <2>6, <3>2
        <4>3. \A o \in RowsOf(rows, Open(rows), a) : rows[o].val = l.rows[o].val
          <5>1. RowsOf(l.rows, Open(l.rows), a) \subseteq DOMAIN l.rows
            BY DEF RowsOf, Open
          <5> HIDE DEF rows
          <5> QED BY <2>1, <4>2, <5>1
        <4>4. AddressOf(rows, a) = AddressOf(l.rows, a)
          <5> HIDE DEF rows
          <5> QED BY <4>2, <4>3, AddressSame
        <4>5. l.addrs[a].total \in Int /\ l.addrs[a].count \in Int
          BY <2>4, <2>7, <4>1
        <4> HIDE DEF rows, delta, addrs
        <4> QED BY <2>4, <4>1, <4>4, <4>5
      <3> QED BY <3>1, <3>2
    <2>11. AddressesIn(rows, Open(rows)) \subseteq DOMAIN addrs
      <3>1. \A o \in Open(l.rows) : l.rows[o].addr \in DOMAIN l.addrs
        BY <1>5 DEF SumsFit, SumsMatchRows, AddressesIn
      <3>2. \A o \in made : rows[o].addr \in touched
        BY DEF AddressesIn
      <3>3. Open(l.rows) \subseteq DOMAIN l.rows
        BY DEF Open
      <3>4. \A o \in Open(rows) : rows[o].addr \in DOMAIN addrs
        <4> HIDE DEF rows, made, spent, touched, addrs
        <4> QED BY <2>1, <2>3, <3>1, <3>2, <3>3
      <3> HIDE DEF rows
      <3> QED BY <3>4 DEF AddressesIn
    <2>12. ASSUME NEW s
           PROVE /\ Amount(addrs, Mine(addrs, s)) = Amount(l.addrs, Mine(l.addrs, s)) + Amount(delta, Mine(delta, s))
                 /\ Outputs(addrs, Mine(addrs, s)) = Outputs(l.addrs, Mine(l.addrs, s)) + Outputs(delta, Mine(delta, s))
                 /\ Cardinality(Mine(addrs, s)) = Cardinality(Mine(l.addrs, s)) + Cardinality(Mine(delta, s) \ DOMAIN l.addrs)
      <3>1. \A a \in DOMAIN l.addrs : l.addrs[a].total \in Int /\ l.addrs[a].count \in Int
        BY <2>4, <2>7
      <3>2. \A a \in DOMAIN delta : delta[a].total \in Int /\ delta[a].count \in Int
        BY <2>3, <2>9
      <3>3. DOMAIN addrs = DOMAIN l.addrs \union DOMAIN delta /\ IsFiniteSet(DOMAIN delta)
        BY <2>3, <2>5
      <3>4. \A a \in DOMAIN addrs :
              /\ addrs[a].total = (IF a \in DOMAIN l.addrs THEN l.addrs[a].total ELSE 0)
                                    + (IF a \in DOMAIN delta THEN delta[a].total ELSE 0)
              /\ addrs[a].count = (IF a \in DOMAIN l.addrs THEN l.addrs[a].count ELSE 0)
                                    + (IF a \in DOMAIN delta THEN delta[a].count ELSE 0)
        <4> HIDE DEF delta, addrs
        <4> QED BY <2>10
      <3> HIDE DEF delta, addrs
      <3>5. Moves(l.addrs, delta, addrs)
        BY <3>1, <3>2, <3>3, <3>4, Zenon DEF Moves
      <3> QED BY <2>5, <3>3, <3>5, AccountMoves
    <2>13. ASSUME NEW s, s # NoStake PROVE prevAccount(s) = AccountOf(l.addrs, s)
      <3>1. CASE s \in DOMAIN l.accts
        BY <1>5, <3>1 DEF SumsFit, SumsMatchRows
      <3>2. CASE s \notin DOMAIN l.accts
        <4>1. s \notin Stakes(DOMAIN l.addrs)
          BY <1>5, <3>2 DEF SumsFit, SumsMatchRows
        <4>2. Mine(l.addrs, s) = {}
          BY <2>13, <4>1 DEF Mine, Stakes
        <4> QED BY <3>2, <4>2, NoAddresses
      <3> QED BY <3>1, <3>2
    <2>14. DOMAIN accts = DOMAIN l.accts \union Stakes(touched) /\ NoStake \notin DOMAIN accts
      BY <1>5 DEF SumsFit, Stakes
    <2>15. ASSUME NEW s \in DOMAIN accts PROVE accts[s] = AccountOf(addrs, s)
      <3>1. s # NoStake
        BY <2>14
      <3>2. AccountOf(l.addrs, s) = [amount |-> Amount(l.addrs, Mine(l.addrs, s)), addresses |-> Cardinality(Mine(l.addrs, s)),
                                     utxos |-> Outputs(l.addrs, Mine(l.addrs, s))]
        BY DEF AccountOf, Mine
      <3>3. AccountOf(addrs, s) = [amount |-> Amount(addrs, Mine(addrs, s)), addresses |-> Cardinality(Mine(addrs, s)),
                                   utxos |-> Outputs(addrs, Mine(addrs, s))]
        <4> HIDE DEF addrs
        <4> QED BY DEF AccountOf, Mine
      <3>4. mine(s) = Mine(delta, s)
        BY <2>3 DEF Mine
      <3>5. accts[s] = [amount |-> prevAccount(s).amount + Amount(delta, mine(s)),
                        addresses |-> prevAccount(s).addresses + Cardinality(mine(s) \ DOMAIN l.addrs),
                        utxos |-> prevAccount(s).utxos + Outputs(delta, mine(s))]
        OBVIOUS
      <3>6. /\ prevAccount(s).amount = Amount(l.addrs, Mine(l.addrs, s))
            /\ prevAccount(s).addresses = Cardinality(Mine(l.addrs, s))
            /\ prevAccount(s).utxos = Outputs(l.addrs, Mine(l.addrs, s))
        <4> HIDE DEF prevAccount
        <4> QED BY <2>13, <3>1, <3>2
      <3> HIDE DEF addrs, delta, accts, prevAccount, mine
      <3> QED BY <2>12, <3>3, <3>4, <3>5, <3>6, Zenon
    <2>16. Stakes(DOMAIN addrs) \subseteq DOMAIN accts
      <3>1. Stakes(DOMAIN l.addrs) \subseteq DOMAIN l.accts
        BY <1>5 DEF SumsFit, SumsMatchRows
      <3> HIDE DEF addrs, accts, touched
      <3> QED BY <2>3, <2>14, <3>1 DEF Stakes
    <2>17. IsFiniteSet(DOMAIN addrs)
      <3> HIDE DEF addrs, touched
      <3> QED BY <2>3, <2>5, FS_Union
    <2> HIDE DEF addrs, accts, rows, e
    <2> QED BY <1>3, <2>10, <2>11, <2>14, <2>15, <2>16, <2>17 DEF SumsFit, SumsMatchRows
  <1> QED BY <1>3, <1>4, <1>5

--------------------------------------------------------------------------------
(* The chain: lawful blocks, what they make and use, and the set at a block.    *)

\* What holds of the start block and of every block after one it holds of, holds of all blocks.
LEMMA BlockInduction ==
  ASSUME NEW F, Start \in F, \A a \in Blocks : \A b : a \in F /\ Child(a, b) => b \in F
  PROVE Blocks \subseteq F
  <1> SUFFICES ASSUME NEW z \in Blocks, z \notin F PROVE FALSE
    OBVIOUS
  <1> DEFINE N == {Slot(b) : b \in Blocks \ F}
  <1>1. \A b \in Blocks : Slot(b) \in 0..MaxHeight
    BY BlockIsSeq
  <1>2. N \subseteq Nat /\ N # {}
    BY <1>1
  <1> HIDE DEF N
  <1>3. PICK n \in N : \A m \in N : n <= m
    BY <1>2, SmallestNumber
  <1>4. PICK b \in Blocks : b \notin F /\ n = Slot(b)
    BY DEF N
  <1>5. b # Start /\ Slot(b) # 0
    <2>1. Start \in Blocks /\ Slot(Start) = 0
      BY StartIsBlock
    <2>2. Slot(b) = 0 => b = Start
      BY <2>1, StartIsBlock, AncestorOrder
    <2> QED BY <1>4, <2>2
  <1> DEFINE a == Ancestor(b, Slot(b) - 1)
  <1>6. a \in Blocks /\ Slot(a) = Slot(b) - 1 /\ IsAncestor(a, b)
    <2>1. Slot(b) - 1 \in 0..Slot(b)
      BY <1>1, <1>5
    <2> QED BY <2>1, AncestorIsAncestor
  <1> HIDE DEF a
  <1>7. Child(a, b)
    <2>1. Slot(b) \in Int
      BY <1>1
    <2> QED BY <1>6, <2>1 DEF Child
  <1>8. a \notin F
    BY <1>4, <1>6, <1>7
  <1>9. Slot(b) <= Slot(a)
    BY <1>3, <1>4, <1>6, <1>8 DEF N
  <1> QED BY <1>1, <1>6, <1>9

\* The transactions of a chain: those of its line,
LEMMA ChainTxsIs ==
  ASSUME NEW b \in Blocks
  PROVE ChainTxs(b) = UNION {TxsIn(x) : x \in Line(b)}
  BY DEF ChainTxs, Line, Ancestor, Slot

\* those of the parent and of the block itself,
LEMMA ChainTxsOfChild ==
  ASSUME NEW a \in Blocks, NEW b, Child(a, b)
  PROVE ChainTxs(b) = ChainTxs(a) \union TxsIn(b)
  <1>1. Line(b) = Line(a) \union {b}
    BY LineOfChild
  <1>2. b \in Blocks
    BY DEF Child
  <1> QED BY <1>1, <1>2, ChainTxsIs

\* and among those of every block after it.
LEMMA ChainTxsGrow ==
  ASSUME NEW a \in Blocks, NEW b \in Blocks, IsAncestor(a, b)
  PROVE ChainTxs(a) \subseteq ChainTxs(b)
  <1>1. Line(a) \subseteq Line(b)
    BY LineIs, AncestorOrder
  <1> QED BY <1>1, ChainTxsIs

\* The block before the child.
LEMMA ParentIs ==
  ASSUME NEW a \in Blocks, NEW b, Child(a, b)
  PROVE b \in Blocks \ {Start} /\ Ancestor(b, Slot(b) - 1) = a
  <1>1. b \in Blocks /\ Slot(b) = Slot(a) + 1 /\ IsAncestor(a, b) /\ Slot(a) \in Nat
    BY BlockIsSeq DEF Child
  <1>2. a = Ancestor(b, Slot(a))
    BY <1>1, OneAncestor
  <1>3. Slot(b) - 1 = Slot(a) /\ Slot(b) # 0
    BY <1>1
  <1>4. b # Start
    BY <1>3, StartIsBlock
  <1> QED BY <1>1, <1>2, <1>3, <1>4

\* Transactions of which each is there once and spends what no other spends.
Lawful(T) ==
  /\ IsFiniteSet(T)
  /\ \A t \in T : /\ t.id # NoTx /\ (\A o \in DOMAIN Genesis : o[1] # t.id)
                  /\ IsFiniteSet(DOMAIN Produced(t)) /\ \A n \in DOMAIN Produced(t) : Produced(t)[n].val \in Int
  /\ \A t, u \in T : u # t => u.id # t.id /\ Consumed(u) \intersect Consumed(t) = {}
Grounded(T) == Used(T) \subseteq DOMAIN Genesis \union Made(T)

\* An outpoint names the transaction that made it.
LEMMA MadeIs ==
  ASSUME NEW T, NEW o
  PROVE o \in Made(T) <=> \E t \in T : \E n \in DOMAIN Produced(t) : o = <<t.id, n>>
  BY DEF Made, OutpointsOf

\* An outpoint is used by a transaction.
LEMMA UsedIs ==
  ASSUME NEW T, NEW o
  PROVE o \in Used(T) <=> \E t \in T : o \in Consumed(t)
  BY DEF Used

\* What a lawful block says, with its parent named.
LEMMA BlockIsLawful ==
  ASSUME NEW a \in Blocks, NEW b, Child(a, b)
  PROVE /\ Lawful(TxsIn(b))
        /\ \A t \in TxsIn(b) : /\ Consumed(t) \subseteq UnspentAt(a) \union Made(TxsIn(b))
                               /\ \A u \in ChainTxs(a) : u.id # t.id
  <1>1. b \in Blocks \ {Start} /\ Ancestor(b, Slot(b) - 1) = a
    BY ParentIs
  <1>2. LawfulBlock(b)
    BY <1>1, LedgerAssumption
  <1> QED BY <1>1, <1>2 DEF LawfulBlock, Lawful

\* Two parts of lawful transactions that share neither an id nor an input are lawful together.
LEMMA LawfulTogether ==
  ASSUME NEW S, NEW T, Lawful(S), Lawful(T),
         \A t \in T : \A u \in S : u.id # t.id /\ Consumed(u) \intersect Consumed(t) = {}
  PROVE Lawful(S \union T)
  <1>1. IsFiniteSet(S \union T)
    BY FS_Union DEF Lawful
  <1>2. ASSUME NEW t \in S \union T, NEW u \in S \union T, u # t
        PROVE u.id # t.id /\ Consumed(u) \intersect Consumed(t) = {}
    BY <1>2 DEF Lawful
  <1>3. ASSUME NEW t \in S \union T
        PROVE /\ t.id # NoTx /\ (\A o \in DOMAIN Genesis : o[1] # t.id)
              /\ IsFiniteSet(DOMAIN Produced(t)) /\ \A n \in DOMAIN Produced(t) : Produced(t)[n].val \in Int
    BY DEF Lawful
  <1> QED BY <1>1, <1>2, <1>3 DEF Lawful

\* The transactions of any chain are lawful.
LEMMA ChainsAreLawful ==
  ASSUME NEW b \in Blocks
  PROVE Lawful(ChainTxs(b)) /\ Grounded(ChainTxs(b))
  <1> DEFINE F == {x \in Blocks : Lawful(ChainTxs(x)) /\ Grounded(ChainTxs(x))}
  <1>1. Start \in F
    <2>1. ChainTxs(Start) = {}
      BY StartIsBlock, ChainTxsIs
    <2>2. Lawful({}) /\ Grounded({})
      BY FS_EmptySet DEF Lawful, Grounded, Used
    <2> QED BY <2>1, <2>2, StartIsBlock
  <1>2. ASSUME NEW x \in Blocks, NEW y, x \in F, Child(x, y) PROVE y \in F
    <2>1. ChainTxs(y) = ChainTxs(x) \union TxsIn(y) /\ y \in Blocks
      BY <1>2, ChainTxsOfChild DEF Child
    <2>2. /\ Lawful(TxsIn(y))
          /\ \A t \in TxsIn(y) : /\ Consumed(t) \subseteq UnspentAt(x) \union Made(TxsIn(y))
                                 /\ \A u \in ChainTxs(x) : u.id # t.id
      BY <1>2, BlockIsLawful
    <2>3. Lawful(ChainTxs(x)) /\ Used(ChainTxs(x)) \subseteq DOMAIN Genesis \union Made(ChainTxs(x))
      BY <1>2 DEF Grounded
    <2>4. ASSUME NEW o \in Made(TxsIn(y)) PROVE o \notin DOMAIN Genesis /\ o \notin Made(ChainTxs(x))
      <3>1. PICK t \in TxsIn(y) : \E n \in DOMAIN Produced(t) : o = <<t.id, n>>
        BY MadeIs
      <3>2. o[1] = t.id
        BY <3>1
      <3>3. o \notin DOMAIN Genesis
        BY <2>2, <3>2 DEF Lawful
      <3>4. o \notin Made(ChainTxs(x))
        <4> SUFFICES ASSUME o \in Made(ChainTxs(x)) PROVE FALSE
          OBVIOUS
        <4>1. PICK u \in ChainTxs(x) : \E n \in DOMAIN Produced(u) : o = <<u.id, n>>
          BY MadeIs
        <4> QED BY <2>2, <3>2, <4>1
      <3> QED BY <3>3, <3>4
    <2>5. ASSUME NEW t \in TxsIn(y), NEW u \in ChainTxs(x)
          PROVE u.id # t.id /\ Consumed(u) \intersect Consumed(t) = {}
      <3>1. Consumed(u) \subseteq Used(ChainTxs(x))
        BY UsedIs
      <3>2. UnspentAt(x) \intersect Used(ChainTxs(x)) = {}
        BY DEF UnspentAt
      <3> QED BY <2>2, <2>3, <2>4, <3>1, <3>2
    <2>6. Lawful(ChainTxs(y))
      BY <2>1, <2>2, <2>3, <2>5, LawfulTogether
    <2>7. Used(ChainTxs(y)) = Used(ChainTxs(x)) \union Used(TxsIn(y)) /\ Made(ChainTxs(y)) = Made(ChainTxs(x)) \union Made(TxsIn(y))
      BY <2>1 DEF Used, Made
    <2>8. Used(TxsIn(y)) \subseteq UnspentAt(x) \union Made(TxsIn(y))
      BY <2>2, UsedIs
    <2>9. UnspentAt(x) \subseteq DOMAIN Genesis \union Made(ChainTxs(x))
      BY DEF UnspentAt
    <2> QED BY <2>1, <2>3, <2>6, <2>7, <2>8, <2>9 DEF Grounded
  <1> HIDE DEF F
  <1>3. Blocks \subseteq F
    BY <1>1, <1>2, BlockInduction
  <1> QED BY <1>3 DEF F

\* A block after another: what it makes is new, what it spends was unspent or is its own.
LEMMA ChildFacts ==
  ASSUME NEW a \in Blocks, NEW b, Child(a, b)
  PROVE /\ b \in Blocks /\ ChainTxs(b) = ChainTxs(a) \union TxsIn(b)
        /\ Made(ChainTxs(b)) = Made(ChainTxs(a)) \union Made(TxsIn(b))
        /\ Used(ChainTxs(b)) = Used(ChainTxs(a)) \union Used(TxsIn(b))
        /\ Used(TxsIn(b)) \subseteq UnspentAt(a) \union Made(TxsIn(b))
        /\ Made(TxsIn(b)) \intersect (DOMAIN Genesis \union Made(ChainTxs(a))) = {}
        /\ Made(TxsIn(b)) \intersect Used(ChainTxs(a)) = {}
  <1>1. ChainTxs(b) = ChainTxs(a) \union TxsIn(b) /\ b \in Blocks
    BY ChainTxsOfChild DEF Child
  <1>2. /\ Made(ChainTxs(b)) = Made(ChainTxs(a)) \union Made(TxsIn(b))
        /\ Used(ChainTxs(b)) = Used(ChainTxs(a)) \union Used(TxsIn(b))
    BY <1>1 DEF Used, Made
  <1>3. /\ Lawful(TxsIn(b))
        /\ \A t \in TxsIn(b) : /\ Consumed(t) \subseteq UnspentAt(a) \union Made(TxsIn(b))
                               /\ \A u \in ChainTxs(a) : u.id # t.id
    BY BlockIsLawful
  <1>4. Used(TxsIn(b)) \subseteq UnspentAt(a) \union Made(TxsIn(b))
    BY <1>3, UsedIs
  <1>5. ASSUME NEW o \in Made(TxsIn(b)) PROVE o \notin DOMAIN Genesis /\ o \notin Made(ChainTxs(a))
    <2>1. PICK t \in TxsIn(b) : \E n \in DOMAIN Produced(t) : o = <<t.id, n>>
      BY MadeIs
    <2>2. o[1] = t.id
      BY <2>1
    <2>3. o \notin DOMAIN Genesis
      BY <1>3, <2>2 DEF Lawful
    <2>4. ASSUME o \in Made(ChainTxs(a)) PROVE FALSE
      <3>1. PICK u \in ChainTxs(a) : \E n \in DOMAIN Produced(u) : o = <<u.id, n>>
        BY <2>4, MadeIs
      <3> QED BY <1>3, <2>2, <3>1
    <2> QED BY <2>3, <2>4
  <1>6. Used(ChainTxs(a)) \subseteq DOMAIN Genesis \union Made(ChainTxs(a))
    BY ChainsAreLawful DEF Grounded
  <1> QED BY <1>1, <1>2, <1>4, <1>5, <1>6

\* The spender of an outpoint is the one transaction that consumes it.
LEMMA SpenderIs ==
  ASSUME NEW T, Lawful(T), NEW t \in T, NEW o \in Consumed(t)
  PROVE Spender(T, o) = t.id
  <1>1. \A u \in T : o \in Consumed(u) => u = t
    BY DEF Lawful
  <1>2. (CHOOSE u \in T : o \in Consumed(u)) = t
    BY <1>1
  <1> QED BY <1>2 DEF Spender

\* The output of an outpoint is what the one transaction of its id produced.
LEMMA OutputIs ==
  ASSUME NEW T, Lawful(T), NEW o \in Made(T)
  PROVE OutputAt(T, o).val \in Int
  <1>1. PICK t \in T : \E n \in DOMAIN Produced(t) : o = <<t.id, n>>
    BY MadeIs
  <1>2. PICK n \in DOMAIN Produced(t) : o = <<t.id, n>>
    BY <1>1
  <1>3. o[1] = t.id /\ o[2] = n
    BY <1>2
  <1>4. \A u \in T : u.id = o[1] => u = t
    BY <1>3 DEF Lawful
  <1>5. (CHOOSE u \in T : u.id = o[1]) = t
    BY <1>3, <1>4
  <1>6. OutputAt(T, o) = Produced(t)[n]
    BY <1>3, <1>5 DEF OutputAt
  <1> QED BY <1>6 DEF Lawful

\* The spender of an outpoint up to a block.
LEMMA SpentByIs ==
  ASSUME NEW b \in Blocks, NEW o
  PROVE /\ o \notin Used(ChainTxs(b)) => SpentBy(b, o) = NoTx
        /\ \A t \in ChainTxs(b) : o \in Consumed(t) => SpentBy(b, o) = t.id
        /\ o \in Used(ChainTxs(b)) => SpentBy(b, o) # NoTx
  <1>1. Lawful(ChainTxs(b))
    BY ChainsAreLawful
  <1>2. ASSUME NEW t \in ChainTxs(b), o \in Consumed(t) PROVE SpentBy(b, o) = t.id /\ t.id # NoTx
    <2>1. o \in Used(ChainTxs(b))
      BY <1>2, UsedIs
    <2>2. Spender(ChainTxs(b), o) = t.id
      BY <1>1, <1>2, SpenderIs
    <2> QED BY <1>1, <2>1, <2>2 DEF SpentBy, Lawful
  <1>3. o \in Used(ChainTxs(b)) => \E t \in ChainTxs(b) : o \in Consumed(t)
    BY UsedIs
  <1> QED BY <1>2, <1>3 DEF SpentBy

\* Finitely many transactions make finitely many outputs.
LEMMA MadeFinite ==
  ASSUME NEW T, Lawful(T)
  PROVE IsFiniteSet(Made(T))
  <1>1. ASSUME NEW t \in T PROVE IsFiniteSet(OutpointsOf(t))
    <2> DEFINE D == DOMAIN Produced(t)
               f == [n \in D |-> <<t.id, n>>]
               O == OutpointsOf(t)
    <2>1. f \in [D -> O] /\ \A o \in O : \E n \in D : f[n] = o
      BY DEF OutpointsOf
    <2>2. f \in Surjection(D, O) /\ IsFiniteSet(D)
      BY <2>1 DEF Surjection, Lawful
    <2> HIDE DEF f, O, D
    <2>3. IsFiniteSet(O)
      BY <2>2, FS_Surjection
    <2> QED BY <2>3 DEF O
  <1> DEFINE P == {OutpointsOf(t) : t \in T}
             g == [t \in T |-> OutpointsOf(t)]
  <1>2. g \in Surjection(T, P)
    BY DEF Surjection
  <1>3. \A p \in P : IsFiniteSet(p)
    BY <1>1
  <1>4. Made(T) = UNION P /\ IsFiniteSet(T)
    BY DEF Made, Lawful
  <1> HIDE DEF g, P
  <1>5. IsFiniteSet(P)
    BY <1>2, <1>4, FS_Surjection
  <1> QED BY <1>3, <1>4, <1>5, FS_UNION

\* The set at a block is finite, and so are the rows of its snapshot, which have numbers.
LEMMA SnapshotSound ==
  ASSUME NEW b \in Blocks
  PROVE /\ IsFiniteSet(UnspentAt(b)) /\ DOMAIN SnapshotAt(b) = UnspentAt(b)
        /\ \A o \in UnspentAt(b) : Row(SnapshotAt(b)[o]) /\ SnapshotAt(b)[o].spent = NoTx
  <1>1. Lawful(ChainTxs(b))
    BY ChainsAreLawful
  <1>2. IsFiniteSet(Made(ChainTxs(b))) /\ IsFiniteSet(DOMAIN Genesis)
    BY <1>1, MadeFinite, LedgerAssumption
  <1>3. IsFiniteSet(UnspentAt(b))
    BY <1>2, FS_Union, FS_Difference DEF UnspentAt
  <1>4. ASSUME NEW o \in UnspentAt(b) PROVE OutputOf(b, o).val \in Int
    <2>1. CASE o \in DOMAIN Genesis
      BY <2>1, LedgerAssumption DEF OutputOf
    <2>2. CASE o \notin DOMAIN Genesis
      <3>1. o \in Made(ChainTxs(b))
        BY <2>2 DEF UnspentAt
      <3> QED BY <1>1, <2>2, <3>1, OutputIs DEF OutputOf
    <2> QED BY <2>1, <2>2
  <1>5. DOMAIN SnapshotAt(b) = UnspentAt(b) /\ \A o \in UnspentAt(b) : SnapshotAt(b)[o] = LedgerRow(OutputOf(b, o), NoTx)
    BY DEF SnapshotAt
  <1>6. ASSUME NEW o \in UnspentAt(b) PROVE Row(SnapshotAt(b)[o]) /\ SnapshotAt(b)[o].spent = NoTx
    <2>1. SnapshotAt(b)[o] = LedgerRow(OutputOf(b, o), NoTx)
      BY <1>5
    <2> QED BY <1>4, <2>1 DEF Row, LedgerRow
  <1> QED BY <1>3, <1>5, <1>6

\* The open rows of a set are the outputs that are unspent at the block it stands at.
LEMMA OpenIsUnspent ==
  ASSUME NEW a \in Blocks, NEW b \in Blocks, IsAncestor(a, b), NEW rows, RowsAre(rows, a, b)
  PROVE Open(rows) = UnspentAt(b)
  <1>1. DOMAIN rows = UnspentAt(a) \union (Made(ChainTxs(b)) \ Made(ChainTxs(a)))
        /\ \A o \in DOMAIN rows : rows[o].spent = SpentBy(b, o)
    BY DEF RowsAre
  <1>2. Made(ChainTxs(a)) \subseteq Made(ChainTxs(b)) /\ Used(ChainTxs(a)) \subseteq Used(ChainTxs(b))
    BY ChainTxsGrow DEF Made, Used
  <1>3. \A o : SpentBy(b, o) = NoTx <=> o \notin Used(ChainTxs(b))
    BY SpentByIs
  <1>4. Open(rows) = {o \in DOMAIN rows : o \notin Used(ChainTxs(b))}
    BY <1>1, <1>3 DEF Open
  <1> QED BY <1>1, <1>2, <1>4 DEF UnspentAt

\* A complete set no block was applied to stands at its anchor.
LEMMA CompleteIs ==
  ASSUME NEW c, c.anchor \in Blocks, NEW rows, Untouched(c, rows), Complete(c, rows)
  PROVE RowsAre(rows, c.anchor, c.anchor)
  <1>1. \A o \in UnspentAt(c.anchor) : SpentBy(c.anchor, o) = NoTx
    BY SpentByIs DEF UnspentAt
  <1> QED BY <1>1 DEF RowsAre, Untouched, Complete

\* A block applied: the set stands at it.
LEMMA ApplyGoesOn ==
  ASSUME NEW a \in Blocks, NEW b \in Blocks, IsAncestor(a, b), NEW c, Child(b, c),
         NEW rows, RowsSound(rows), RowsAre(rows, a, b)
  PROVE /\ RowsAre(AppliedRows(rows, TxsIn(c)), a, c)
        /\ Made(TxsIn(c)) \intersect DOMAIN rows = {}
  <1> DEFINE M == Made(TxsIn(c))
             U == Used(TxsIn(c))
             new == AppliedRows(rows, TxsIn(c))
  <1>1. /\ c \in Blocks /\ ChainTxs(c) = ChainTxs(b) \union TxsIn(c)
        /\ Made(ChainTxs(c)) = Made(ChainTxs(b)) \union M /\ Used(ChainTxs(c)) = Used(ChainTxs(b)) \union U
        /\ U \subseteq UnspentAt(b) \union M
        /\ M \intersect (DOMAIN Genesis \union Made(ChainTxs(b))) = {} /\ M \intersect Used(ChainTxs(b)) = {}
    BY ChildFacts
  <1>2. Made(ChainTxs(a)) \subseteq Made(ChainTxs(b))
    BY ChainTxsGrow DEF Made
  <1>3. /\ DOMAIN rows = UnspentAt(a) \union (Made(ChainTxs(b)) \ Made(ChainTxs(a)))
        /\ \A o \in DOMAIN rows : rows[o].spent = SpentBy(b, o)
    BY DEF RowsAre
  <1>4. DOMAIN rows \subseteq DOMAIN Genesis \union Made(ChainTxs(b))
    BY <1>2, <1>3 DEF UnspentAt
  <1>5. M \intersect DOMAIN rows = {}
    BY <1>1, <1>4
  <1>6. DOMAIN new = DOMAIN rows \union M /\ \A o \in DOMAIN rows \union M : new[o] = AppliedRow(rows, TxsIn(c), o)
    BY DEF AppliedRows
  <1>7. DOMAIN new = UnspentAt(a) \union (Made(ChainTxs(c)) \ Made(ChainTxs(a)))
    <2> HIDE DEF M, new
    <2> QED BY <1>1, <1>2, <1>3, <1>6
  <1>8. Lawful(TxsIn(c))
    BY BlockIsLawful
  <1>9. ASSUME NEW o \in U PROVE Spender(TxsIn(c), o) = SpentBy(c, o)
    <2>1. PICK t \in TxsIn(c) : o \in Consumed(t)
      BY UsedIs
    <2>2. Spender(TxsIn(c), o) = t.id
      BY <1>8, <2>1, SpenderIs
    <2>3. SpentBy(c, o) = t.id
      BY <1>1, <2>1, SpentByIs
    <2> QED BY <2>2, <2>3
  <1>10. ASSUME NEW o, o \notin U PROVE SpentBy(b, o) = SpentBy(c, o)
    <2>1. CASE o \in Used(ChainTxs(b))
      <3>1. PICK t \in ChainTxs(b) : o \in Consumed(t)
        BY <2>1, UsedIs
      <3> QED BY <1>1, <3>1, SpentByIs
    <2>2. CASE o \notin Used(ChainTxs(b))
      BY <1>1, <1>10, <2>2, SpentByIs
    <2> QED BY <2>1, <2>2
  <1>11. ASSUME NEW o \in DOMAIN new PROVE new[o].spent = SpentBy(c, o)
    <2>1. CASE o \in M
      <3>1. new[o] = LedgerRow(OutputAt(TxsIn(c), o), IF o \in U THEN Spender(TxsIn(c), o) ELSE NoTx)
        BY <1>6, <2>1 DEF AppliedRow
      <3>2. new[o].spent = IF o \in U THEN Spender(TxsIn(c), o) ELSE NoTx
        BY <3>1 DEF LedgerRow
      <3>3. o \notin Used(ChainTxs(b))
        BY <1>1, <2>1
      <3>4. SpentBy(b, o) = NoTx
        BY <3>3, SpentByIs
      <3> QED BY <1>9, <1>10, <3>2, <3>4
    <2>2. CASE o \notin M
      <3>1. o \in DOMAIN rows /\ rows[o].spent = SpentBy(b, o)
        BY <1>3, <1>6, <2>2
      <3>2. new[o] = [rows[o] EXCEPT !.spent = IF o \in SpentNow(rows, TxsIn(c)) THEN Spender(TxsIn(c), o) ELSE @]
        BY <1>6, <2>2, <3>1 DEF AppliedRow
      <3>3. o \in U <=> o \in SpentNow(rows, TxsIn(c))
        <4>1. o \in U => SpentBy(b, o) = NoTx
          BY <1>1, <2>2, SpentByIs DEF UnspentAt
        <4> QED BY <2>2, <3>1, <4>1 DEF SpentNow
      <3> DEFINE t == IF o \in SpentNow(rows, TxsIn(c)) THEN Spender(TxsIn(c), o) ELSE rows[o].spent
      <3>4. new[o] = [rows[o] EXCEPT !.spent = t] /\ Row(rows[o])
        BY <3>1, <3>2 DEF RowsSound
      <3>5. new[o].spent = t
        <4> HIDE DEF t, new
        <4> QED BY <3>4, RowSpent
      <3>6. t = IF o \in U THEN Spender(TxsIn(c), o) ELSE rows[o].spent
        BY <3>3
      <3> HIDE DEF t, new
      <3> QED BY <1>9, <1>10, <3>1, <3>5, <3>6
    <2> QED BY <2>1, <2>2
  <1>12. RowsAre(new, a, c)
    <2> HIDE DEF new
    <2> QED BY <1>7, <1>11 DEF RowsAre
  <1> QED BY <1>5, <1>12

\* A rollback to q: what is dropped are the transactions after q.
Undoes(ids, a, b, q) ==
  /\ NoTx \notin ids /\ \A o \in DOMAIN Genesis : o[1] \notin ids
  /\ \A t \in ChainTxs(q) : t.id \notin ids
  /\ \A t \in ChainTxs(b) : t.id \in ids \/ t \in ChainTxs(q)

\* The set stands at q.
LEMMA UndoGoesBack ==
  ASSUME NEW a \in Blocks, NEW b \in Blocks, NEW q \in Blocks, IsAncestor(a, q), IsAncestor(q, b),
         NEW rows, RowsAre(rows, a, b), RowsSound(rows), NEW ids, Undoes(ids, a, b, q)
  PROVE RowsAre(UndoneRows(rows, ids), a, q)
  <1> DEFINE new == UndoneRows(rows, ids)
  <1>1. /\ DOMAIN rows = UnspentAt(a) \union (Made(ChainTxs(b)) \ Made(ChainTxs(a)))
        /\ \A o \in DOMAIN rows : rows[o].spent = SpentBy(b, o)
    BY DEF RowsAre
  <1>2. ChainTxs(a) \subseteq ChainTxs(q) /\ ChainTxs(q) \subseteq ChainTxs(b)
    BY ChainTxsGrow
  <1>3. DOMAIN new = {o \in DOMAIN rows : o[1] \notin ids}
        /\ \A o \in DOMAIN new : new[o] = [rows[o] EXCEPT !.spent = IF rows[o].spent \in ids THEN NoTx ELSE @]
    BY DEF UndoneRows
  <1>4. ASSUME NEW T, NEW o \in Made(T) PROVE \E t \in T : o[1] = t.id /\ o \in OutpointsOf(t)
    <2>1. PICK t \in T : \E n \in DOMAIN Produced(t) : o = <<t.id, n>>
      BY <1>4, MadeIs
    <2>2. o[1] = t.id /\ o \in OutpointsOf(t)
      BY <2>1 DEF OutpointsOf
    <2> QED BY <2>2
  <1>5. \A o \in UnspentAt(a) : o[1] \notin ids
    <2>1. \A o \in Made(ChainTxs(a)) : o[1] \notin ids
      BY <1>2, <1>4 DEF Undoes
    <2> QED BY <2>1 DEF UnspentAt, Undoes
  <1>6. ASSUME NEW o \in Made(ChainTxs(b)) PROVE o[1] \notin ids <=> o \in Made(ChainTxs(q))
    <2>1. PICK t \in ChainTxs(b) : o[1] = t.id /\ o \in OutpointsOf(t)
      BY <1>4
    <2>2. o[1] \notin ids => o \in Made(ChainTxs(q))
      BY <2>1 DEF Undoes, Made
    <2>3. o \in Made(ChainTxs(q)) => o[1] \notin ids
      BY <1>4 DEF Undoes
    <2> QED BY <2>2, <2>3
  <1>7. Made(ChainTxs(q)) \subseteq Made(ChainTxs(b))
    BY <1>2 DEF Made
  <1>8. DOMAIN new = UnspentAt(a) \union (Made(ChainTxs(q)) \ Made(ChainTxs(a)))
    <2> HIDE DEF new
    <2> QED BY <1>1, <1>3, <1>5, <1>6, <1>7
  <1>9. ASSUME NEW o \in DOMAIN new PROVE new[o].spent = SpentBy(q, o)
    <2>1. o \in DOMAIN rows /\ rows[o].spent = SpentBy(b, o) /\ Row(rows[o])
      BY <1>1, <1>3 DEF RowsSound
    <2>2. new[o].spent = IF SpentBy(b, o) \in ids THEN NoTx ELSE SpentBy(b, o)
      <3> DEFINE t == IF rows[o].spent \in ids THEN NoTx ELSE rows[o].spent
      <3>1. new[o] = [rows[o] EXCEPT !.spent = t]
        BY <1>3
      <3>2. new[o].spent = t
        <4> HIDE DEF t, new
        <4> QED BY <2>1, <3>1, RowSpent
      <3> QED BY <2>1, <3>2
    <2>3. CASE o \in Used(ChainTxs(b))
      <3>1. PICK t \in ChainTxs(b) : o \in Consumed(t)
        BY <2>3, UsedIs
      <3>2. SpentBy(b, o) = t.id
        BY <3>1, SpentByIs
      <3>3. CASE t.id \in ids
        <4>1. o \notin Used(ChainTxs(q))
          <5> SUFFICES ASSUME o \in Used(ChainTxs(q)) PROVE FALSE
            OBVIOUS
          <5>1. PICK u \in ChainTxs(q) : o \in Consumed(u)
            BY UsedIs
          <5>2. SpentBy(b, o) = u.id
            BY <1>2, <5>1, SpentByIs
          <5> QED BY <3>2, <3>3, <5>2 DEF Undoes
        <4> QED BY <2>2, <3>2, <3>3, <4>1, SpentByIs
      <3>4. CASE t.id \notin ids
        <4>1. t \in ChainTxs(q)
          BY <3>4 DEF Undoes
        <4> QED BY <2>2, <3>1, <3>2, <3>4, <4>1, SpentByIs
      <3> QED BY <3>3, <3>4
    <2>4. CASE o \notin Used(ChainTxs(b))
      <3>1. o \notin Used(ChainTxs(q))
        BY <1>2, <2>4 DEF Used
      <3> QED BY <2>2, <2>4, <3>1, SpentByIs
    <2> QED BY <2>3, <2>4
  <1>10. RowsAre(new, a, q)
    <2> HIDE DEF new
    <2> QED BY <1>8, <1>9 DEF RowsAre
  <1> QED BY <1>10

\* A rollback past no block the set has leaves its rows as they were.
LEMMA UndoNothing ==
  ASSUME NEW rows, RowsSound(rows), NEW ids, NoTx \notin ids,
         \A o \in DOMAIN rows : o[1] \notin ids /\ rows[o].spent = NoTx
  PROVE /\ DOMAIN UndoneRows(rows, ids) = DOMAIN rows
        /\ \A o \in DOMAIN rows : UndoneRows(rows, ids)[o].spent = NoTx
  <1>1. DOMAIN UndoneRows(rows, ids) = DOMAIN rows
        /\ \A o \in DOMAIN rows : UndoneRows(rows, ids)[o] = [rows[o] EXCEPT !.spent = IF rows[o].spent \in ids THEN NoTx ELSE @]
    BY DEF UndoneRows
  <1>2. \A o \in DOMAIN rows : Row(rows[o])
    BY DEF RowsSound
  <1>3. ASSUME NEW o \in DOMAIN rows PROVE UndoneRows(rows, ids)[o].spent = NoTx
    <2> DEFINE t == IF rows[o].spent \in ids THEN NoTx ELSE rows[o].spent
               x == UndoneRows(rows, ids)[o]
    <2>1. x = [rows[o] EXCEPT !.spent = t] /\ Row(rows[o]) /\ t = NoTx
      BY <1>1, <1>2
    <2> HIDE DEF t, x
    <2>2. x.spent = NoTx
      BY <2>1, RowSpent
    <2> QED BY <2>2 DEF x
  <1> QED BY <1>1, <1>3

\* A set has subsets of every smaller size.
LEMMA SubsetOfSize ==
  ASSUME NEW S, IsFiniteSet(S), NEW n \in 0..Cardinality(S)
  PROVE \E T \in SUBSET S : Cardinality(T) = n
  <1> DEFINE N == {m \in Nat : \E T \in SUBSET S : Cardinality(T) = m /\ m >= n}
  <1>1. Cardinality(S) \in Nat
    BY FS_CardinalityType
  <1>2. N \subseteq Nat /\ N # {}
    <2>1. Cardinality(S) \in N
      BY <1>1
    <2> QED BY <2>1
  <1> HIDE DEF N
  <1>3. PICK m \in N : \A x \in N : m <= x
    BY <1>2, SmallestNumber
  <1>4. PICK T \in SUBSET S : m \in Nat /\ Cardinality(T) = m /\ m >= n
    BY DEF N
  <1>5. IsFiniteSet(T) /\ n \in Nat
    BY <1>1, <1>4, FS_Subset
  <1>6. ASSUME m > n PROVE FALSE
    <2>1. T # {}
      BY <1>4, <1>5, <1>6, FS_EmptySet
    <2>2. PICK x \in T : TRUE
      BY <2>1
    <2>3. Cardinality(T \ {x}) = m - 1
      BY <1>4, <1>5, <2>2, FS_RemoveElement
    <2>4. m - 1 \in N
      BY <1>4, <1>5, <1>6, <2>3 DEF N
    <2> QED BY <1>3, <1>4, <2>4
  <1> QED BY <1>4, <1>5, <1>6

--------------------------------------------------------------------------------
(* The set and the crawler: steps that leave the set alone.                     *)

\* A row that says the same of the chain and the set, or gives up a set that there is, when it
\* is complete or counts as broken off.
GivesUp(c, d, rows, f) ==
  /\ d.set # c.set => c.set # "none"
  /\ d.set # c.set /\ c.set = "importing" /\ "partial" \notin f => Complete(c, rows)

\* A quiet step leaves the set as fitting as it was.
LEMMA FitsKept ==
  ASSUME NEW c, NEW d, NEW l, NEW blks, NEW e, NEW f, SetFits(c, l, blks, e), Quiet(c, d),
         GivesUp(c, d, l.rows, f), c.set \in {"none", "importing", "active", "invalid"}, e \subseteq f
  PROVE SetFits(d, l, blks, f)
  <1> SUFFICES ASSUME Trusting(f) PROVE
        /\ LedgerSound(l)
        /\ d.applied = NoSlot /\ d.set # "none" => Untouched(d, l.rows)
        /\ "partial" \notin f =>
             /\ d.applied = NoSlot /\ d.set \in {"active", "invalid"} => Complete(d, l.rows)
             /\ d.applied # NoSlot /\ d.set = "active" => Carried(d, l.rows, blks)
             /\ d.set = "active" => SumsFit(l)
    BY DEF SetFits
  <1>1. Trusting(e) /\ ("partial" \notin f => "partial" \notin e)
    BY DEF Trusting, Kept
  <1>2. /\ d.at = c.at /\ d.anchor = c.anchor /\ d.applied = c.applied /\ d.set \in {c.set, "invalid"}
    BY DEF Quiet
  <1>3. LedgerSound(l) /\ (c.applied = NoSlot /\ c.set # "none" => Untouched(c, l.rows))
    BY <1>1 DEF SetFits
  <1>4. d.applied = NoSlot /\ d.set # "none" => Untouched(d, l.rows)
    BY <1>2, <1>3 DEF Untouched, GivesUp
  <1>5. ASSUME "partial" \notin f PROVE
          /\ d.applied = NoSlot /\ d.set \in {"active", "invalid"} => Complete(d, l.rows)
          /\ d.applied # NoSlot /\ d.set = "active" => Carried(d, l.rows, blks)
          /\ d.set = "active" => SumsFit(l)
    <2>1. /\ c.applied = NoSlot /\ c.set \in {"active", "invalid"} => Complete(c, l.rows)
          /\ c.applied # NoSlot /\ c.set = "active" => Carried(c, l.rows, blks)
          /\ c.set = "active" => SumsFit(l)
      BY <1>1, <1>5 DEF SetFits
    <2>2. Complete(c, l.rows) => Complete(d, l.rows)
      BY <1>2 DEF Complete
    <2>3. Carried(c, l.rows, blks) => Carried(d, l.rows, blks)
      BY <1>2 DEF Carried
    <2>4. d.set \in {"active", "invalid"} => c.set \in {"active", "invalid"} \/ Complete(c, l.rows)
      BY <1>2, <1>5 DEF GivesUp
    <2> QED BY <1>2, <2>1, <2>2, <2>3, <2>4
  <1> QED BY <1>3, <1>4, <1>5

\* The object n knows no more of a set than k, at no place where k was not.
Unmoved(k, n) ==
  /\ n.anchor = k.anchor /\ n.seen = k.seen
  /\ n.pc = k.pc \/ (n.pc \notin Idle /\ k.pc \notin Idle)

\* What it knows stays true in a quiet step.
LEMMA KnowledgeKept ==
  ASSUME NEW k, NEW n, NEW c, NEW d, NEW e, NEW f, NEW m, Quiet(c, d), d.set # c.set => c.set # "none",
         Unmoved(k, n), e \subseteq f
  PROVE /\ HasSet(k, c) => HasSet(n, d)
        /\ Applies(k, c, e, m) => Applies(n, d, f, m)
  <1>1. d.set \in {c.set, "invalid"}
    BY DEF Quiet
  <1>2. HasSet(k, c) => HasSet(n, d)
    BY <1>1 DEF HasSet, Unmoved
  <1>3. Kept(f) => Kept(e)
    BY DEF Kept
  <1>4. Applies(k, c, e, m) => Applies(n, d, f, m)
    BY <1>1, <1>3 DEF Applies, Unmoved, Idle
  <1> QED BY <1>2, <1>4

\* So does what an import knows, when the lease goes to no import.
LEMMA CallKept ==
  ASSUME NEW i \in Instances, NEW c, NEW d, NEW m, NEW rows, Imports(i, m, c, rows), Quiet(c, d),
         d.set # c.set => c.set # "none",
         d.owner \in Instances \union {c.owner, NoOwner, DeadOwner}
  PROVE Imports(i, m, d, rows)
  <1>1. d.owner = Importer(i) => c.owner = Importer(i)
    BY OwnerIsOther
  <1>2. d.anchor = c.anchor /\ d.set \in {c.set, "invalid"}
    BY DEF Quiet
  <1> QED BY <1>1, <1>2 DEF Imports, Loads

\* A quiet step of process i, which may take the lease, keeps the invariant of the set if its own
\* crawler object is right.
LEMMA SetStep ==
  ASSUME CrawlInv, SetInv, NEW i \in Instances, OnlyCrawler(i), Quiet(cur, cur'),
         cur'.owner \in {cur.owner, i, NoOwner, DeadOwner}, UNCHANGED <<ledger, stored, config>>,
         excuses \subseteq excuses', GivesUp(cur, cur', ledger.rows, excuses'),
         HasSet(inst'[i], cur'), cur'.owner = i => Applies(inst'[i], cur', excuses', config.utxo[i]),
         \A j \in Instances \ {i} : imp'[j] = imp[j], imp'[i] \in {imp[i], NoImport}
  PROVE SetInv'
  <1>1. /\ DOMAIN ledger = {"rows", "addrs", "accts"}
        /\ SetFits(cur, ledger, stored, excuses) /\ cur.set \in {"none", "importing", "active", "invalid"}
        /\ \A j \in Instances : HasSet(inst[j], cur)
        /\ \A j \in Instances : cur.owner = j => Applies(inst[j], cur, excuses, config.utxo[j])
        /\ \A j \in Instances : Imports(j, imp[j], cur, ledger.rows)
    BY DEF SetInv
  <1>2. cur'.set \in {cur.set, "invalid"} /\ (cur'.set # cur.set => cur.set # "none")
    BY DEF Quiet, GivesUp
  <1>3. SetFits(cur', ledger', stored', excuses')
    BY <1>1, FitsKept
  <1>4. ASSUME NEW j \in Instances
        PROVE /\ HasSet(inst'[j], cur')
              /\ cur'.owner = j => Applies(inst'[j], cur', excuses', config'.utxo[j])
    <2>1. CASE j = i
      BY <2>1
    <2>2. CASE j # i
      <3>1. inst'[j] = inst[j] /\ Unmoved(inst[j], inst'[j])
        BY <2>2 DEF OnlyCrawler, Unmoved
      <3>2. cur'.owner = j => cur.owner = j
        BY <2>2, OwnerIsOther
      <3> QED BY <1>1, <1>2, <3>1, <3>2, KnowledgeKept
    <2> QED BY <2>1, <2>2
  <1>5. ASSUME NEW j \in Instances PROVE Imports(j, imp'[j], cur', ledger'.rows)
    <2>1. Imports(j, imp[j], cur', ledger.rows)
      BY <1>1, <1>2, CallKept
    <2>2. Imports(j, NoImport, cur', ledger.rows)
      BY DEF Imports, NoImport, Loading
    <2> QED BY <2>1, <2>2
  <1>6. cur'.set \in {"none", "importing", "active", "invalid"}
    BY <1>1, <1>2
  <1>7. DOMAIN ledger' = {"rows", "addrs", "accts"}
    BY <1>1
  <1> QED BY <1>3, <1>4, <1>5, <1>6, <1>7 DEF SetInv

\* A row with the same set, whoever holds the lease now.
SameSet(c, d) == Quiet(c, d) /\ d.set = c.set /\ d.owner \in {c.owner, NoOwner, DeadOwner}

\* A step that leaves the set and what the crawlers know of it alone.
LEMMA SetAside ==
  ASSUME CrawlInv, SetInv, \A j \in Instances : Unmoved(inst[j], inst'[j]), SameSet(cur, cur'),
         UNCHANGED <<ledger, stored, config, imp>>, excuses \subseteq excuses'
  PROVE SetInv'
  <1>1. /\ DOMAIN ledger = {"rows", "addrs", "accts"}
        /\ SetFits(cur, ledger, stored, excuses) /\ cur.set \in {"none", "importing", "active", "invalid"}
        /\ \A j \in Instances : HasSet(inst[j], cur)
        /\ \A j \in Instances : cur.owner = j => Applies(inst[j], cur, excuses, config.utxo[j])
        /\ \A j \in Instances : Imports(j, imp[j], cur, ledger.rows)
    BY DEF SetInv
  <1>2. Quiet(cur, cur') /\ cur'.set = cur.set /\ GivesUp(cur, cur', ledger.rows, excuses')
    BY DEF SameSet, GivesUp
  <1>3. SetFits(cur', ledger', stored', excuses')
    BY <1>1, <1>2, FitsKept
  <1>4. \A j \in Instances : HasSet(inst'[j], cur')
    BY <1>1, <1>2, KnowledgeKept
  <1>5. ASSUME NEW j \in Instances, cur'.owner = j
        PROVE Applies(inst'[j], cur', excuses', config'.utxo[j])
    <2>1. cur.owner = j
      BY <1>5, OwnerIsOther DEF SameSet
    <2> QED BY <1>1, <1>2, <2>1, KnowledgeKept
  <1>6. ASSUME NEW j \in Instances PROVE Imports(j, imp'[j], cur', ledger'.rows)
    <2>1. cur'.owner \in Instances \union {cur.owner, NoOwner, DeadOwner}
      BY DEF SameSet
    <2> QED BY <1>1, <1>2, <2>1, CallKept
  <1>7. cur'.set \in {"none", "importing", "active", "invalid"} /\ DOMAIN ledger' = {"rows", "addrs", "accts"}
    BY <1>1, <1>2
  <1> QED BY <1>3, <1>4, <1>5, <1>6, <1>7 DEF SetInv

\* One process's object is the only one that changes, and moves only past the start.
LEMMA OneUnmoved ==
  ASSUME NEW i \in Instances, OnlyCrawler(i), Unmoved(inst[i], inst'[i])
  PROVE \A j \in Instances : Unmoved(inst[j], inst'[j])
  BY DEF OnlyCrawler, Unmoved

\* A calm row has the same set; so has one of which only the lease is lost, or the intent changed.
LEMMA CalmIsSame ==
  ASSUME NEW c, NEW d, Calm(c, d)
  PROVE SameSet(c, d)
  BY DEF Calm, SameSet

\* A failure leaves the set alone.
LEMMA FallsAside ==
  ASSUME CrawlInv, SetInv, NEW i \in Instances, inst[i].pc \notin Idle, NEW k, k.anchor = inst[i].anchor,
         k.seen = inst[i].seen, Falls(i, k), UNCHANGED <<ledger, stored, config, imp>>, excuses \subseteq excuses'
  PROVE SetInv'
  <1>1. Unmoved(inst[i], inst'[i])
    BY DEF Falls, Displaced, Unmoved, Idle
  <1>2. \A j \in Instances : Unmoved(inst[j], inst'[j])
    BY <1>1, OneUnmoved DEF Falls
  <1>3. SameSet(cur, cur')
    BY CalmIsSame DEF Falls
  <1> QED BY <1>2, <1>3, SetAside

\* A step of one process that leaves the set and what it knows of it alone.
LEMMA StepAside ==
  ASSUME CrawlInv, SetInv, NEW i \in Instances, OnlyCrawler(i), Unmoved(inst[i], inst'[i]), SameSet(cur, cur'),
         UNCHANGED <<ledger, stored, config, imp>>, excuses \subseteq excuses'
  PROVE SetInv'
  BY OneUnmoved, SetAside

\* So does one with the cursor row unchanged,
LEMMA StillAside ==
  ASSUME CrawlInv, SetInv, NEW i \in Instances, OnlyCrawler(i), Unmoved(inst[i], inst'[i]), cur' = cur,
         UNCHANGED <<ledger, stored, config, imp>>, excuses \subseteq excuses'
  PROVE SetInv'
  <1>1. SameSet(cur, cur')
    BY CalmRows, CalmIsSame DEF CrawlInv
  <1> QED BY <1>1, StepAside

\* or the row alone.
LEMMA RowAside ==
  ASSUME CrawlInv, SetInv, inst' = inst, SameSet(cur, cur'),
         UNCHANGED <<ledger, stored, config, imp>>, excuses \subseteq excuses'
  PROVE SetInv'
  <1>1. \A j \in Instances : Unmoved(inst[j], inst'[j])
    BY DEF Unmoved
  <1> QED BY <1>1, SetAside

\* What the steps of the pipeline leave alone.
SetRest == UNCHANGED <<ledger, stored, config, imp, excuses>>

\* A place further on in the pipeline.
LEMMA GotoAside ==
  ASSUME CrawlInv, SetInv, NEW i \in Instances, NEW pc, pc \notin Idle, inst[i].pc \notin Idle, Goto(i, pc),
         cur' = cur, SetRest
  PROVE SetInv'
  <1>1. OnlyCrawler(i) /\ inst'[i] = [inst[i] EXCEPT !.pc = pc] /\ DOMAIN inst[i] = CrawlerFields
    BY GotoFacts DEF CrawlInv, Sound
  <1>2. Unmoved(inst[i], inst'[i])
    BY <1>1, PlacedFacts DEF Unmoved
  <1> QED BY <1>1, <1>2, StillAside DEF SetRest

\* A failure,
LEMMA FailAside ==
  ASSUME CrawlInv, SetInv, NEW i \in Instances, inst[i].pc \notin Idle, SetRest,
         \/ \E s : Halt(i, s, FALSE) /\ cur' = cur
         \/ \E l : HaltOnError(i, inst[i], l)
         \/ \E l : RetryOnError(i, inst[i], l)
         \/ \E h, l : Degraded(i, h, inst[i], l)
  PROVE SetInv'
  <1>1. DOMAIN inst[i] = CrawlerFields
    BY DEF CrawlInv, Sound
  <1>2. Falls(i, inst[i])
    BY <1>1, HaltFalls, HaltOnErrorFalls, RetryOnErrorFalls, DegradedFalls
  <1> QED BY <1>2, FallsAside DEF SetRest

\* the choice of a source and a new stream,
LEMMA OpenSourceSet ==
  ASSUME CrawlInv, SetInv, NEW i \in Instances, OpenSource(i), imp' = imp
  PROVE SetInv'
  <1>1. /\ Sound(inst[i], excuses) /\ cur' = cur /\ inst[i].pc \notin Idle
        /\ UNCHANGED <<ledger, stored, config, imp>> /\ excuses \subseteq excuses'
    BY DEF CrawlInv, OpenSource, At, Idle
  <1>2. CASE Goto(i, "connect") /\ excuses' = excuses
    BY <1>1, <1>2, GotoAside DEF Idle, SetRest
  <1>3. CASE inst' = [inst EXCEPT ![i].pc = "page", ![i].probe = config.source = "auto"]
    <2>1. OnlyCrawler(i) /\ inst'[i] = [inst[i] EXCEPT !.pc = "page", !.probe = config.source = "auto"]
      BY <1>3 DEF OnlyCrawler, CrawlInv
    <2>2. Unmoved(inst[i], inst'[i])
      BY <1>1, <2>1 DEF Unmoved, Sound, CrawlerFields, Idle
    <2> QED BY <1>1, <2>1, <2>2, StillAside
  <1>4. CASE Halt(i, "error", TRUE)
    <2>1. OnlyCrawler(i) /\ inst'[i] = [Halted(inst[i], "error", TRUE) EXCEPT !.pc = "halt"]
      BY <1>4 DEF Halt, Become, OnlyCrawler, CrawlInv
    <2>2. Unmoved(inst[i], inst'[i])
      BY <1>1, <2>1 DEF Unmoved, Halted, Sound, CrawlerFields, Idle
    <2> QED BY <1>1, <2>1, <2>2, StillAside
  <1> QED BY <1>2, <1>3, <1>4 DEF OpenSource

\* which begins with a roll-backward,
LEMMA RunChainSyncSet ==
  ASSUME CrawlInv, SetInv, NEW i \in Instances, RunChainSync(i), imp' = imp
  PROVE SetInv'
  <1>1. Sound(inst[i], excuses) /\ SetRest /\ inst[i].pc \notin Idle
    BY DEF CrawlInv, RunChainSync, SetRest, At, Idle
  <1>2. CASE /\ cur' = cur
             /\ inst' = [inst EXCEPT ![i].pc = "rewind", ![i].at = Intersection, ![i].until = 0,
                                     ![i].probe = FALSE, ![i].prog = FALSE, ![i].src = "stream"]
    <2>1. /\ OnlyCrawler(i)
          /\ inst'[i] = [inst[i] EXCEPT !.pc = "rewind", !.at = Intersection, !.until = 0,
                                        !.probe = FALSE, !.prog = FALSE, !.src = "stream"]
      BY <1>2 DEF OnlyCrawler, CrawlInv
    <2>2. Unmoved(inst[i], inst'[i])
      BY <1>1, <2>1 DEF Unmoved, Sound, CrawlerFields, Idle
    <2> QED BY <1>1, <1>2, <2>1, <2>2, StillAside DEF SetRest
  <1>3. CASE \E l : HaltOnError(i, inst[i], l)
    BY <1>1, <1>3, FailAside
  <1> QED BY <1>2, <1>3 DEF RunChainSync

\* the blocks and rollbacks of a stream, the hand-over,
LEMMA StreamSet ==
  ASSUME CrawlInv, SetInv, NEW i \in Instances, RollForward(i) \/ RollBackward(i) \/ Handover(i), imp' = imp
  PROVE SetInv'
  <1>1. Sound(inst[i], excuses) /\ SetRest /\ inst[i].pc \notin Idle /\ cur' = cur
    BY DEF CrawlInv, RollForward, RollBackward, Handover, SetRest, At, Idle
  <1>2. PICK n : /\ inst' = [inst EXCEPT ![i] = n]
                 /\ \/ \E b : n = [inst[i] EXCEPT !.pc = "persist", !.at = b, !.todo = <<b>>, !.att = 1]
                    \/ \E b : n = [inst[i] EXCEPT !.pc = "rewind", !.at = b]
                    \/ n = [inst[i] EXCEPT !.pc = "connect", !.todo = << >>]
    <2>1. CASE RollForward(i)
      BY <2>1 DEF RollForward
    <2>2. CASE RollBackward(i)
      <3> DEFINE n == [inst[i] EXCEPT !.pc = "rewind", !.at = CommonAncestor(@, chain)]
      <3>1. inst' = [inst EXCEPT ![i] = n]
        BY <2>2 DEF RollBackward
      <3>2. \E b : n = [inst[i] EXCEPT !.pc = "rewind", !.at = b]
        OBVIOUS
      <3> QED BY <3>1, <3>2
    <2>3. CASE Handover(i)
      BY <2>3 DEF Handover
    <2> QED BY <2>1, <2>2, <2>3
  <1>3. OnlyCrawler(i) /\ inst'[i] = n
    BY <1>2 DEF OnlyCrawler, CrawlInv
  <1>4. Unmoved(inst[i], inst'[i])
    <2> DEFINE k == inst[i]
    <2>1. DOMAIN k = CrawlerFields /\ k.pc \notin Idle
      BY <1>1 DEF Sound
    <2>2. /\ \/ \E b : n = [k EXCEPT !.pc = "persist", !.at = b, !.todo = <<b>>, !.att = 1]
             \/ \E b : n = [k EXCEPT !.pc = "rewind", !.at = b]
             \/ n = [k EXCEPT !.pc = "connect", !.todo = << >>]
      BY <1>2
    <2> HIDE DEF k
    <2>3. n.anchor = k.anchor /\ n.seen = k.seen /\ n.pc \notin Idle
      BY <2>1, <2>2, ZenonT(80) DEF CrawlerFields, Idle
    <2>4. Unmoved(k, n)
      BY <2>1, <2>3 DEF Unmoved
    <2> QED BY <1>3, <2>4 DEF k
  <1> QED BY <1>1, <1>3, <1>4, StillAside DEF SetRest

\* the start of a rollback,
LEMMA RewindSet ==
  ASSUME CrawlInv, SetInv, NEW i \in Instances, Rewind(i), imp' = imp
  PROVE SetInv'
  <1>1. SetRest /\ inst[i].pc \notin Idle /\ cur' = cur
    BY DEF Rewind, SetRest, At, Idle
  <1>2. PICK pc \in {"stream", "reorg"} : Goto(i, pc)
    BY DEF Rewind
  <1> QED BY <1>1, <1>2, GotoAside DEF Idle

\* a round of pagination,
LEMMA PaginateSet ==
  ASSUME CrawlInv, SetInv, NEW i \in Instances, Paginate(i), imp' = imp
  PROVE SetInv'
  <1>1. Sound(inst[i], excuses) /\ SetRest /\ inst[i].pc \notin Idle /\ CursorSound(cur)
    BY DEF CrawlInv, Paginate, SetRest, At, Idle
  <1>2. CASE (Goto(i, "connect") \/ Goto(i, "recover")) /\ cur' = cur
    BY <1>1, <1>2, GotoAside DEF Idle
  <1>3. CASE cur' = SetSyncStatus(Renew(cur), "synced") /\ inst' = inst
    <2>1. SameSet(cur, cur')
      BY <1>1, <1>3, CalmRows, CalmIsSame
    <2> QED BY <1>1, <1>3, <2>1, RowAside DEF SetRest
  <1>4. CASE (Halt(i, "stopped", FALSE) /\ cur' = cur) \/ \E l : RetryOnError(i, inst[i], l)
    BY <1>1, <1>4, FailAside
  <1>5. CASE \E todo : /\ cur' = cur
                       /\ inst' = [inst EXCEPT ![i] = [inst[i] EXCEPT !.pc = "persist", !.src = "page", !.att = 1, !.todo = todo]]
    <2>1. PICK todo : inst' = [inst EXCEPT ![i] = [inst[i] EXCEPT !.pc = "persist", !.src = "page", !.att = 1, !.todo = todo]]
      BY <1>5
    <2>2. OnlyCrawler(i) /\ inst'[i] = [inst[i] EXCEPT !.pc = "persist", !.src = "page", !.att = 1, !.todo = todo]
      BY <2>1 DEF OnlyCrawler, CrawlInv
    <2>3. Unmoved(inst[i], inst'[i])
      BY <1>1, <2>2 DEF Unmoved, Sound, CrawlerFields, Idle
    <2> QED BY <1>1, <1>5, <2>2, <2>3, StillAside DEF SetRest
  <1>6. \/ (Goto(i, "connect") \/ Goto(i, "recover")) /\ cur' = cur
        \/ cur' = SetSyncStatus(Renew(cur), "synced") /\ inst' = inst
        \/ (Halt(i, "stopped", FALSE) /\ cur' = cur) \/ \E l : RetryOnError(i, inst[i], l)
        \/ \E todo : /\ cur' = cur
                     /\ inst' = [inst EXCEPT ![i] = [inst[i] EXCEPT !.pc = "persist", !.src = "page", !.att = 1, !.todo = todo]]
    BY DEF Paginate
  <1> QED BY <1>2, <1>3, <1>4, <1>5, <1>6

\* the search for a fork point,
LEMMA TryReorgRecoverySet ==
  ASSUME CrawlInv, SetInv, NEW i \in Instances, TryReorgRecovery(i), imp' = imp
  PROVE SetInv'
  <1>1. Sound(inst[i], excuses) /\ SetRest /\ inst[i].pc \notin Idle
    BY DEF CrawlInv, TryReorgRecovery, SetRest, At, Idle
  <1>2. CASE \E b : inst' = [inst EXCEPT ![i].pc = "reorg", ![i].src = "page", ![i].at = b] /\ cur' = cur
    <2>1. PICK b : inst' = [inst EXCEPT ![i].pc = "reorg", ![i].src = "page", ![i].at = b]
      BY <1>2
    <2>2. OnlyCrawler(i) /\ inst'[i] = [inst[i] EXCEPT !.pc = "reorg", !.src = "page", !.at = b]
      BY <2>1 DEF OnlyCrawler, CrawlInv
    <2>3. Unmoved(inst[i], inst'[i])
      BY <1>1, <2>2 DEF Unmoved, Sound, CrawlerFields, Idle
    <2> QED BY <1>1, <1>2, <2>2, <2>3, StillAside DEF SetRest
  <1>3. CASE RetryOnError(i, inst[i], left)
    BY <1>1, <1>3, FailAside
  <1> QED BY <1>2, <1>3 DEF TryReorgRecovery

\* a closed stream, a broken frame, missing transactions, a fence, the end of a pipeline.
LEMMA TroublesSet ==
  ASSUME CrawlInv, SetInv, NEW i \in Instances, FrameError(i) \/ FetchFails(i) \/ Fenced(i) \/ Drain(i), imp' = imp
  PROVE SetInv'
  <1>1. Sound(inst[i], excuses) /\ SetRest
    BY DEF CrawlInv, FrameError, FetchFails, Fenced, Drain, SetRest
  <1>2. inst[i].pc \notin Idle
    BY <1>1 DEF Sound, FrameError, FetchFails, Fenced, Drain, At, Idle
  <1>3. \/ \E s : Halt(i, s, FALSE) /\ cur' = cur
        \/ \E l : HaltOnError(i, inst[i], l)
        \/ \E l : RetryOnError(i, inst[i], l)
        \/ \E h, l : Degraded(i, h, inst[i], l)
        \/ Goto(i, "halt") /\ cur' = cur
    BY DEF FrameError, FetchFails, Fenced, Drain
  <1>4. CASE Goto(i, "halt") /\ cur' = cur
    BY <1>1, <1>2, <1>4, GotoAside DEF Idle
  <1> QED BY <1>1, <1>2, <1>3, <1>4, FailAside

\* So does a stream that closes, at any place of the pipeline.
LEMMA StreamClosedSet ==
  ASSUME CrawlInv, SetInv, NEW i \in Instances, StreamClosed(i), imp' = imp
  PROVE SetInv'
  <1> DEFINE k == inst[i]
             busy == k.pc = "persist"
             rest == [k EXCEPT !.todo = << >>, !.late = IF busy THEN Head(k.todo) ELSE @]
  <1>1. /\ Sound(k, excuses) /\ CursorSound(cur) /\ k.pc \notin Idle
        /\ UNCHANGED <<ledger, stored, config, imp>> /\ excuses \subseteq excuses'
    BY DEF CrawlInv, StreamClosed, Idle
  <1>2. DOMAIN rest = CrawlerFields /\ rest.anchor = k.anchor /\ rest.seen = k.seen
    BY <1>1 DEF Sound, CrawlerFields
  <1>3. \/ Become(i, rest, "connect") /\ cur' = cur
        \/ \E h, l : Degraded(i, h, rest, l)
        \/ \E l : HaltOnError(i, rest, l)
    BY DEF StreamClosed
  <1> HIDE DEF rest
  <1>4. CASE Become(i, rest, "connect") /\ cur' = cur
    <2>1. OnlyCrawler(i) /\ Displaced(rest, inst'[i]) /\ inst'[i].pc = "connect"
      BY <1>2, <1>4, BecomeFacts DEF CrawlInv
    <2>2. Unmoved(k, inst'[i])
      BY <1>1, <1>2, <2>1 DEF Displaced, Unmoved, Idle
    <2> QED BY <1>1, <1>4, <2>1, <2>2, StillAside
  <1>5. CASE (\E h, l : Degraded(i, h, rest, l)) \/ \E l : HaltOnError(i, rest, l)
    <2>1. Falls(i, rest)
      BY <1>2, <1>5, DegradedFalls, HaltOnErrorFalls
    <2> QED BY <1>1, <1>2, <2>1, FallsAside
  <1> QED BY <1>3, <1>4, <1>5

\* A block given up.
LEMMA GiveUpAside ==
  ASSUME CrawlInv, SetInv, NEW i \in Instances, inst[i].pc \notin Idle, NEW b, NEW l, NEW o \in ErrorOutcomes(i, l),
         NEW k, DOMAIN k = CrawlerFields, Unmoved(inst[i], k), GiveUp(i, b, o, k), SetRest
  PROVE SetInv'
  <1> DEFINE poisonous == b \in config.bad /\ PoisonCount(i, b) >= PoisonThreshold
  <1>1. PICK written \in BOOLEAN : cur' = IF poisonous /\ written THEN LatchPoisonBlock(o.cur) ELSE o.cur
    BY DEF GiveUp
  <1> HIDE DEF poisonous
  <1>2. Calm(cur, o.cur)
    BY CalmOutcome DEF CrawlInv
  <1>3. SameSet(cur, cur')
    BY <1>1, <1>2 DEF LatchPoisonBlock, Calm, SameSet, Quiet, CursorFields
  <1>4. OnlyCrawler(i) /\ SamePlace(k, inst'[i])
    BY GiveUpFacts
  <1>5. Unmoved(inst[i], inst'[i])
    BY <1>4 DEF Unmoved, SamePlace
  <1> QED BY <1>3, <1>4, <1>5, StepAside DEF SetRest

\* A block that cannot be written.
LEMMA PersistFailsSet ==
  ASSUME CrawlInv, SetInv, NEW i \in Instances, PersistFails(i), imp' = imp
  PROVE SetInv'
  <1> DEFINE k == inst[i]
             b == Head(k.todo)
             l == IF b \in config.bad THEN left ELSE [left EXCEPT !.faults = @ - 1]
             h == [k EXCEPT !.pc = "halt"]
  <1>1. Sound(k, excuses) /\ CursorSound(cur) /\ SetRest /\ k.pc \notin Idle
    BY DEF CrawlInv, PersistFails, SetRest, At, Idle
  <1>2. PICK o \in ErrorOutcomes(i, l) :
          \/ Halt(i, "stopped", FALSE) /\ cur' = o.cur
          \/ inst' = [inst EXCEPT ![i].att = @ + 1] /\ cur' = o.cur
          \/ GiveUp(i, b, o, h)
    BY DEF PersistFails
  <1> HIDE DEF l
  <1>3. Calm(cur, o.cur)
    BY <1>1, CalmOutcome
  <1>4. CASE Halt(i, "stopped", FALSE) /\ cur' = o.cur
    <2>1. Falls(i, k)
      BY <1>1, <1>3, <1>4, HaltBecomesFalls DEF Halt, Sound
    <2> QED BY <1>1, <2>1, FallsAside DEF SetRest
  <1>5. CASE inst' = [inst EXCEPT ![i].att = @ + 1] /\ cur' = o.cur
    <2>1. OnlyCrawler(i) /\ inst'[i] = [k EXCEPT !.att = @ + 1]
      BY <1>5 DEF OnlyCrawler, CrawlInv
    <2>2. Unmoved(k, inst'[i])
      BY <1>1, <2>1 DEF Unmoved, Sound, CrawlerFields
    <2> QED BY <1>1, <1>3, <1>5, <2>1, <2>2, CalmIsSame, StepAside DEF SetRest
  <1>6. CASE GiveUp(i, b, o, h)
    <2>1. DOMAIN h = CrawlerFields /\ Unmoved(k, h)
      BY <1>1, PlacedFacts DEF Unmoved, Sound, Idle
    <2> HIDE DEF h, b
    <2> QED BY <1>1, <1>6, <2>1, GiveUpAside
  <1> QED BY <1>2, <1>4, <1>5, <1>6

\* A crawler object that knows of no set.
LEMMA NobodyKnows ==
  ASSUME NEW k, k.anchor = NoBlock, k.seen.set = "none", k.pc = "off", NEW c, NEW e, NEW m
  PROVE HasSet(k, c) /\ Applies(k, c, e, m)
  BY DEF HasSet, Applies, Idle

\* The object of a process without a crawler knows of none.
LEMMA GoneKnows ==
  ASSUME NEW i, NEW c, NEW e, NEW m
  PROVE /\ HasSet(Gone(i), c) /\ Applies(Gone(i), c, e, m)
        /\ HasSet(NoCrawler, c) /\ Applies(NoCrawler, c, e, m)
  <1>1. /\ NoCrawler.anchor = NoBlock /\ NoCrawler.seen.set = "none" /\ NoCrawler.pc = "off"
        /\ Gone(i).anchor = NoBlock /\ Gone(i).seen.set = "none" /\ Gone(i).pc = "off"
    BY DEF NoCrawler, Gone, NewCursor
  <1> QED BY <1>1, NobodyKnows

\* An object that is gone, whatever becomes of its lease.
LEMMA GoneSet ==
  ASSUME CrawlInv, SetInv, NEW i \in Instances, inst' = [inst EXCEPT ![i] = Gone(i)], SameSet(cur, cur'), SetRest
  PROVE SetInv'
  <1>1. OnlyCrawler(i) /\ inst'[i] = Gone(i)
    BY DEF CrawlInv, OnlyCrawler
  <1>2. HasSet(inst'[i], cur') /\ Applies(inst'[i], cur', excuses', config.utxo[i])
    BY <1>1, GoneKnows
  <1>3. GivesUp(cur, cur', ledger.rows, excuses')
    BY DEF SameSet, GivesUp
  <1> QED BY <1>1, <1>2, <1>3, SetStep DEF SameSet, SetRest

\* A new object has read the cursor.
LEMMA StartAttemptSet ==
  ASSUME CrawlInv, SetInv, NEW i \in Instances, StartAttempt(i), imp' = imp
  PROVE SetInv'
  <1>1. SetRest /\ cur' = cur /\ CursorSound(cur)
    BY DEF StartAttempt, SetRest, CrawlInv
  <1> DEFINE k == [Gone(i) EXCEPT !.pc = "lease", !.seen = IF config.utxo[i] THEN cur ELSE @]
  <1>2. OnlyCrawler(i) /\ inst'[i] = k
    BY DEF StartAttempt, CrawlInv, OnlyCrawler
  <1>3. k.pc = "lease" /\ k.anchor = NoBlock /\ k.seen \in {cur, NewCursor}
    BY DEF Gone, NoCrawler
  <1> HIDE DEF k
  <1>4. HasSet(k, cur) /\ Applies(k, cur, excuses, config.utxo[i])
    BY <1>3 DEF HasSet, Applies, Idle, NewCursor
  <1>5. SameSet(cur, cur') /\ GivesUp(cur, cur', ledger.rows, excuses')
    BY <1>1, CalmRows, CalmIsSame DEF SameSet, GivesUp
  <1> QED BY <1>1, <1>2, <1>4, <1>5, SetStep DEF SameSet, SetRest

\* Under the lease the set is what it was when the object read the cursor, or "start".
LEMMA StartLeaseSet ==
  ASSUME CrawlInv, SetInv, NEW i \in Instances, StartLease(i), imp' = imp
  PROVE SetInv'
  <1>1. Sound(inst[i], excuses) /\ CursorSound(cur) /\ UNCHANGED <<ledger, stored, config, imp>> /\ excuses \subseteq excuses'
    BY DEF StartLease, CrawlInv
  <1>2. CASE CanAcquire(cur, i)
    <2>1. /\ cur' = TakeLease(cur, i)
          /\ inst' = [inst EXCEPT ![i].pc = "anchor", ![i].run = TRUE]
          /\ excuses' = IF config.utxo[i] /\ SetState(cur) # SetState(inst[i].seen)
                        THEN excuses \union {"start"} ELSE excuses
      BY <1>2 DEF StartLease
    <2>2. /\ Quiet(cur, cur') /\ cur'.owner = i /\ cur'.set = cur.set
      BY <1>1, <2>1 DEF TakeLease, Quiet, CursorSound, CursorFields
    <2>3. OnlyCrawler(i) /\ inst'[i] = [inst[i] EXCEPT !.pc = "anchor", !.run = TRUE]
      BY <2>1 DEF OnlyCrawler, CrawlInv
    <2>4. inst'[i].pc = "anchor" /\ inst'[i].seen = inst[i].seen /\ inst'[i].anchor = inst[i].anchor
      BY <1>1, <2>3 DEF Sound, CrawlerFields
    <2>5. HasSet(inst'[i], cur')
      BY <2>2, <2>4 DEF SetInv, HasSet
    <2>6. ASSUME Kept(excuses'), config.utxo[i] PROVE cur.set = inst[i].seen.set
      BY <2>1, <2>6 DEF Kept, SetState
    <2>7. Applies(inst'[i], cur', excuses', config.utxo[i])
      BY <2>2, <2>4, <2>6 DEF Applies, Idle
    <2>8. GivesUp(cur, cur', ledger.rows, excuses') /\ cur'.owner \in {cur.owner, i, NoOwner, DeadOwner}
      BY <2>2 DEF GivesUp
    <2> QED BY <1>1, <2>2, <2>3, <2>5, <2>7, <2>8, SetStep
  <1>3. CASE ~CanAcquire(cur, i)
    <2>1. cur' = cur /\ inst' = [inst EXCEPT ![i] = Gone(i)] /\ SetRest
      BY <1>3 DEF StartLease, SetRest
    <2> QED BY <1>1, <2>1, CalmRows, CalmIsSame, GoneSet
  <1> QED BY <1>2, <1>3

\* The start trusts the set it read of, or gives it up.
LEMMA StartAnchorSet ==
  ASSUME CrawlInv, SetInv, NEW i \in Instances, StartAnchor(i), imp' = imp
  PROVE SetInv'
  <1> DEFINE seen == inst[i].seen
             stale == Invalidates(i, seen)
             keep == config.utxo[i] /\ seen.set = "active" /\ ~stale
             n == [inst[i] EXCEPT !.pc = "open", !.seen = NewCursor, !.anchor = IF keep THEN seen.anchor ELSE NoBlock]
  <1>1. Sound(inst[i], excuses) /\ CursorSound(cur) /\ UNCHANGED <<ledger, stored, config, imp>> /\ inst[i].pc = "anchor"
        /\ HasSet(inst[i], cur) /\ (cur.owner = i => Applies(inst[i], cur, excuses, config.utxo[i]))
    BY DEF StartAnchor, CrawlInv, SetInv
  <1>2. CASE /\ cur' = IF stale THEN [cur EXCEPT !.set = "invalid"] ELSE cur
             /\ excuses' = IF stale /\ BrokenOff THEN excuses \union {"partial"} ELSE excuses
             /\ inst' = [inst EXCEPT ![i] = n]
    <2>1. OnlyCrawler(i) /\ inst'[i] = n
      BY <1>2 DEF OnlyCrawler, CrawlInv
    <2>2. n.pc = "open" /\ n.anchor = (IF keep THEN seen.anchor ELSE NoBlock) /\ n.seen.set = "none"
      BY <1>1 DEF Sound, CrawlerFields, NewCursor
    <2>3. /\ Quiet(cur, cur') /\ cur'.owner = cur.owner /\ cur'.set = IF stale THEN "invalid" ELSE cur.set
      BY <1>1, <1>2 DEF Quiet, CursorSound, CursorFields
    <2>4. excuses \subseteq excuses' /\ (stale /\ BrokenOff => "partial" \in excuses')
      BY <1>2
    <2>5. seen.set = "active" => cur.set # "none"
      BY <1>1 DEF HasSet
    <2>6. stale => seen.set = "active"
      BY DEF Invalidates, StaleSet
    <2>7. GivesUp(cur, cur', ledger.rows, excuses')
      BY <2>3, <2>4, <2>5, <2>6 DEF GivesUp, BrokenOff, Complete
    <2>8. n.anchor # NoBlock => keep
      BY <2>2
    <2> HIDE DEF n
    <2>9. HasSet(n, cur')
      BY <2>2, <2>3, <2>5, <2>8 DEF HasSet
    <2>10. cur'.owner = i => Applies(n, cur', excuses', config.utxo[i])
      <3>1. Kept(excuses') => Kept(excuses)
        BY <2>4 DEF Kept
      <3>2. cur.owner = i /\ Kept(excuses) /\ keep => cur.set \in {"active", "invalid"}
        BY <1>1 DEF Applies
      <3> HIDE DEF stale
      <3> QED BY <2>2, <2>3, <2>8, <3>1, <3>2 DEF Applies
    <2>11. cur'.owner \in {cur.owner, i, NoOwner, DeadOwner}
      BY <2>3
    <2> QED BY <1>1, <2>1, <2>3, <2>4, <2>7, <2>9, <2>10, <2>11, SetStep
  <1>3. CASE SetRest /\ cur' = Abandoned(i) /\ inst' = [inst EXCEPT ![i] = Gone(i)]
    <2>1. SameSet(cur, cur')
      BY <1>1, <1>3 DEF Abandoned, SameSet, Quiet, CursorSound, CursorFields
    <2> QED BY <1>3, <2>1, GoneSet
  <1>4. \/ /\ cur' = IF stale THEN [cur EXCEPT !.set = "invalid"] ELSE cur
           /\ excuses' = IF stale /\ BrokenOff THEN excuses \union {"partial"} ELSE excuses
           /\ inst' = [inst EXCEPT ![i] = n]
        \/ SetRest /\ cur' = Abandoned(i) /\ inst' = [inst EXCEPT ![i] = Gone(i)]
    BY <1>1 DEF StartAnchor, SetRest
  <1> QED BY <1>2, <1>3, <1>4

\* A stop waits for the start in progress.
LEMMA ApplyStopSet ==
  ASSUME CrawlInv, SetInv, NEW i \in Instances, ApplyStop(i), imp' = imp
  PROVE SetInv'
  <1> DEFINE n == IF inst[i].pc = "off" THEN inst[i] ELSE Halted(inst[i], "stopped", FALSE)
  <1>1. Sound(inst[i], excuses) /\ CursorSound(cur) /\ SetRest /\ inst[i].pc # "anchor"
    BY DEF CrawlInv, ApplyStop, SetRest
  <1>2. OnlyCrawler(i) /\ inst'[i] = n
    BY DEF OnlyCrawler, ApplyStop, CrawlInv
  <1>3. Unmoved(inst[i], n)
    <2>1. SamePlace(inst[i], Halted(inst[i], "stopped", FALSE))
      BY <1>1, HaltedKept
    <2> QED BY <2>1 DEF SamePlace, Unmoved
  <1>4. SameSet(cur, cur')
    <2>1. cur' \in {cur, SetDesiredRunning(cur, FALSE)}
      BY DEF ApplyStop
    <2> QED BY <1>1, <2>1 DEF SetDesiredRunning, SameSet, Quiet, CursorSound, CursorFields
  <1> HIDE DEF n
  <1> QED BY <1>1, <1>2, <1>3, <1>4, StepAside DEF SetRest

\* A heartbeat renews the lease, or halts.
LEMMA HeartbeatSet ==
  ASSUME CrawlInv, SetInv, NEW i \in Instances, Heartbeat(i), imp' = imp
  PROVE SetInv'
  <1>1. Sound(inst[i], excuses) /\ CursorSound(cur) /\ inst[i].pc # "anchor" /\ SetRest
    BY DEF CrawlInv, Heartbeat, SetRest
  <1>2. SameSet(cur, cur')
    <2>1. cur' \in {cur, Renew(cur), RecordError(cur)}
      BY DEF Heartbeat
    <2> QED BY <1>1, <2>1, CalmRows, CalmIsSame
  <1>3. inst' = inst \/ \E s : inst' = [inst EXCEPT ![i] = Halted(@, s, FALSE)]
    BY DEF Heartbeat
  <1>4. CASE inst' = inst
    BY <1>1, <1>2, <1>4, RowAside DEF SetRest
  <1>5. ASSUME NEW s, inst' = [inst EXCEPT ![i] = Halted(@, s, FALSE)] PROVE SetInv'
    <2>1. OnlyCrawler(i) /\ inst'[i] = Halted(inst[i], s, FALSE)
      BY <1>5 DEF OnlyCrawler, CrawlInv
    <2>2. SamePlace(inst[i], Halted(inst[i], s, FALSE))
      BY <1>1, HaltedKept
    <2>3. Unmoved(inst[i], inst'[i])
      BY <2>1, <2>2 DEF SamePlace, Unmoved
    <2> QED BY <1>1, <1>2, <2>1, <2>3, StepAside DEF SetRest
  <1> QED BY <1>3, <1>4, <1>5

\* An epoch snapshot is taken beside the pipeline.
LEMMA SnapshotEpochSet ==
  ASSUME CrawlInv, SetInv, NEW i \in Instances, SnapshotEpoch(i), imp' = imp
  PROVE SetInv'
  <1>1. Sound(inst[i], excuses) /\ SetRest /\ cur' = cur /\ DOMAIN inst = Instances
    BY DEF CrawlInv, SnapshotEpoch, SetRest
  <1>2. PICK x, y : inst' = [inst EXCEPT ![i].snap = x, ![i].settled = y] \/ inst' = [inst EXCEPT ![i].snap = x]
    BY DEF SnapshotEpoch
  <1>3. OnlyCrawler(i)
    BY <1>1, <1>2 DEF OnlyCrawler
  <1>4. inst'[i] = [inst[i] EXCEPT !.snap = x, !.settled = y] \/ inst'[i] = [inst[i] EXCEPT !.snap = x]
    BY <1>1, <1>2
  <1>5. Unmoved(inst[i], inst'[i])
    <2> DEFINE k == inst[i]
               n == inst'[i]
    <2>1. DOMAIN k = CrawlerFields
      BY <1>1 DEF Sound
    <2>2. n = [k EXCEPT !.snap = x, !.settled = y] \/ n = [k EXCEPT !.snap = x]
      BY <1>4
    <2> HIDE DEF k, n
    <2>3. n.anchor = k.anchor /\ n.seen = k.seen /\ n.pc = k.pc
      BY <2>1, <2>2 DEF CrawlerFields
    <2>4. Unmoved(k, n)
      BY <2>3 DEF Unmoved
    <2> QED BY <2>4 DEF k, n
  <1> QED BY <1>1, <1>3, <1>5, StillAside DEF SetRest

\* A crawler gives its lease back, or leaves it to expire.
LEMMA ReleaseSet ==
  ASSUME CrawlInv, SetInv, NEW i \in Instances, Release(i), imp' = imp
  PROVE SetInv'
  <1>1. CursorSound(cur) /\ SetRest /\ inst' = [inst EXCEPT ![i] = Gone(i)]
    BY DEF CrawlInv, Release, SetRest
  <1>2. cur' \in {Abandoned(i), ReleaseLease(cur, i, inst[i].final, inst[i].latch)}
    BY DEF Release
  <1>3. SameSet(cur, cur')
    BY <1>1, <1>2 DEF Abandoned, ReleaseLease, SameSet, Quiet, CursorSound, CursorFields
  <1> QED BY <1>1, <1>3, GoneSet

\* Operators, the chain and the clock do not touch the set.
LEMMA OutsideSet ==
  ASSUME CrawlInv, SetInv, (\E i \in Instances : Operator(i)) \/ Mint \/ Fork \/ LeaseExpires, imp' = imp
  PROVE SetInv'
  <1>1. inst' = inst /\ SetRest /\ CursorSound(cur)
    BY DEF CrawlInv, Operator, RequestStop, ResumeCrawler, Boot, EnsureBackendInitialized, Mint, Fork,
           LeaseExpires, SetRest
  <1>2. cur' \in {cur, SetDesiredRunning(cur, TRUE), [cur EXCEPT !.live = FALSE]}
    BY DEF Operator, RequestStop, ResumeCrawler, Boot, EnsureBackendInitialized, Mint, Fork, LeaseExpires
  <1>3. SameSet(cur, cur')
    BY <1>1, <1>2 DEF SetDesiredRunning, SameSet, Quiet, CursorSound, CursorFields
  <1> QED BY <1>1, <1>3, RowAside DEF SetRest

\* A crash takes the crawler object and the import call of a process, not the rows.
LEMMA CrashSet ==
  ASSUME CrawlInv, SetInv, NEW i \in Instances, Crash(i), imp' = [imp EXCEPT ![i] = NoImport]
  PROVE SetInv'
  <1>1. CursorSound(cur) /\ UNCHANGED <<ledger, stored, config, excuses>> /\ cur' = Orphaned(i)
    BY DEF CrawlInv, Crash
  <1>2. OnlyCrawler(i) /\ inst'[i] = NoCrawler
    BY DEF CrawlInv, OnlyCrawler, Crash
  <1>3. Quiet(cur, cur') /\ cur'.set = cur.set /\ cur'.owner \in {cur.owner, i, NoOwner, DeadOwner}
    BY <1>1 DEF Orphaned, Quiet, CursorSound, CursorFields
  <1>4. HasSet(inst'[i], cur') /\ Applies(inst'[i], cur', excuses', config.utxo[i])
    BY <1>2, GoneKnows
  <1>5. GivesUp(cur, cur', ledger.rows, excuses')
    BY <1>3 DEF GivesUp
  <1>6. (\A j \in Instances \ {i} : imp'[j] = imp[j]) /\ imp'[i] \in {imp[i], NoImport}
    BY DEF CrawlInv, ImportsSound
  <1> QED BY <1>1, <1>2, <1>3, <1>4, <1>5, <1>6, SetStep

--------------------------------------------------------------------------------
(* The set and the block: written, applied, and undone.                          *)

\* The ancestors of an ancestor are those of the block.
LEMMA AncestorThrough ==
  ASSUME NEW a \in Blocks, NEW b \in Blocks, IsAncestor(a, b), NEW n \in 0..Slot(a)
  PROVE Ancestor(b, n) = Ancestor(a, n)
  <1>1. Ancestor(a, n) \in Blocks /\ Slot(Ancestor(a, n)) = n /\ IsAncestor(Ancestor(a, n), a)
    BY AncestorIsAncestor
  <1>2. IsAncestor(Ancestor(a, n), b)
    BY <1>1, AncestorOrder
  <1> QED BY <1>1, <1>2, OneAncestor

\* The last of them is the block.
LEMMA AncestorSelf ==
  ASSUME NEW b \in Blocks
  PROVE Ancestor(b, Slot(b)) = b
  BY AncestorOrder, OneAncestor

\* A block of the chain applied to the tables: outputs with numbers, sums that fit.
LEMMA BlockFits ==
  ASSUME NEW a \in Blocks, NEW b, Child(a, b), NEW l, LedgerSound(l)
  PROVE LET e == ApplyBlockToLedger(l, TxsIn(b))
        IN /\ e.rows = AppliedRows(l.rows, TxsIn(b)) /\ LedgerSound(e)
           /\ SumsFit(l) /\ Made(TxsIn(b)) \intersect DOMAIN l.rows = {} => SumsFit(e)
  <1> DEFINE T == TxsIn(b)
  <1>1. Lawful(T)
    BY BlockIsLawful
  <1> HIDE DEF T
  <1>2. IsFiniteSet(Made(T)) /\ \A o \in Made(T) : OutputAt(T, o).val \in Int
    BY <1>1, MadeFinite, OutputIs
  <1>3. \A o \in Used(T) : Spender(T, o) # NoTx
    <2> SUFFICES ASSUME NEW o \in Used(T) PROVE Spender(T, o) # NoTx
      OBVIOUS
    <2>1. PICK t \in T : o \in Consumed(t)
      BY UsedIs
    <2> QED BY <1>1, <2>1, SpenderIs DEF Lawful
  <1>4. LET e == ApplyBlockToLedger(l, T)
        IN /\ e.rows = AppliedRows(l.rows, T) /\ LedgerSound(e)
           /\ SumsFit(l) /\ Made(T) \intersect DOMAIN l.rows = {} /\ (\A o \in Used(T) : Spender(T, o) # NoTx)
                => SumsFit(e)
    BY <1>2, ApplyFits
  <1> QED BY <1>3, <1>4 DEF T

\* A block the set is not concerned with is stored.
LEMMA StoredFits ==
  ASSUME NEW c, c.at \in Blocks, c.anchor \in Blocks, c.applied \in Int, NEW l, NEW blks, NEW e, SetFits(c, l, blks, e),
         NEW b, Trusting(e) => Child(c.at, b), NEW d, d.at = b, d.anchor = c.anchor, d.applied = c.applied,
         \/ d.set = c.set
         \/ c.set \in {"active", "invalid"} /\ d.set = "invalid"
  PROVE SetFits(d, l, blks \union {b}, e)
  <1> SUFFICES ASSUME Trusting(e) PROVE
        /\ LedgerSound(l)
        /\ d.applied = NoSlot /\ d.set # "none" => Untouched(d, l.rows)
        /\ "partial" \notin e =>
             /\ d.applied = NoSlot /\ d.set \in {"active", "invalid"} => Complete(d, l.rows)
             /\ d.applied # NoSlot /\ d.set = "active" => Carried(d, l.rows, blks \union {b})
             /\ d.set = "active" => SumsFit(l)
    BY DEF SetFits
  <1>1. LedgerSound(l) /\ (c.applied = NoSlot /\ c.set # "none" => Untouched(c, l.rows))
    BY DEF SetFits
  <1>2. d.applied = NoSlot /\ d.set # "none" => Untouched(d, l.rows)
    BY <1>1 DEF Untouched
  <1>3. Child(c.at, b) /\ b \in Blocks /\ IsAncestor(c.at, b) /\ Slot(b) = Slot(c.at) + 1
    BY DEF Child
  <1>4. ASSUME Carried(c, l.rows, blks) PROVE Carried(d, l.rows, blks \union {b})
    <2>1. /\ IsAncestor(c.anchor, c.at) /\ c.applied \in Slot(c.anchor)..Slot(c.at)
          /\ \A n \in Slot(c.anchor) + 1 .. c.applied : Ancestor(c.at, n) \in blks
          /\ RowsAre(l.rows, c.anchor, Ancestor(c.at, c.applied))
      BY <1>4 DEF Carried
    <2>2. Slot(c.anchor) \in Nat /\ Slot(c.at) \in Nat
      BY BlockIsSeq
    <2>3. \A n \in 0..Slot(c.at) : Ancestor(b, n) = Ancestor(c.at, n)
      BY <1>3, AncestorThrough
    <2>4. IsAncestor(c.anchor, b)
      BY <1>3, <2>1, AncestorOrder
    <2>5. c.applied \in Slot(c.anchor)..Slot(b) /\ c.applied \in 0..Slot(c.at)
      BY <1>3, <2>1, <2>2
    <2>6. ASSUME NEW n \in Slot(c.anchor) + 1 .. c.applied PROVE Ancestor(b, n) \in blks
      <3>1. n \in 0..Slot(c.at)
        BY <2>2, <2>5
      <3> QED BY <2>1, <2>3, <3>1
    <2> QED BY <2>1, <2>3, <2>4, <2>5, <2>6 DEF Carried
  <1>5. Complete(c, l.rows) => Complete(d, l.rows)
    BY DEF Complete
  <1>6. "partial" \notin e =>
          /\ d.applied = NoSlot /\ d.set \in {"active", "invalid"} => Complete(d, l.rows)
          /\ d.applied # NoSlot /\ d.set = "active" => Carried(d, l.rows, blks \union {b})
          /\ d.set = "active" => SumsFit(l)
    BY <1>4, <1>5 DEF SetFits
  <1> QED BY <1>1, <1>2, <1>6

\* A block is applied to a set that stands at the cursor.
LEMMA AppliedFits ==
  ASSUME NEW c, c.at \in Blocks, c.anchor \in Blocks, c.applied \in Int, NEW l, NEW blks, NEW e, SetFits(c, l, blks, e),
         NEW b, Trusting(e) => Child(c.at, b), c.applied # NoSlot \/ c.at = c.anchor, Slot(b) > Slot(c.anchor),
         Trusting(e) /\ c.set = "active" => ~StaleSet(c), c.set # "none",
         NEW d, d.at = b, d.anchor = c.anchor, d.applied = Slot(b), d.set = c.set
  PROVE SetFits(d, ApplyBlockToLedger(l, TxsIn(b)), blks \union {b}, e)
  <1> DEFINE new == ApplyBlockToLedger(l, TxsIn(b))
  <1> SUFFICES ASSUME Trusting(e) PROVE
        /\ LedgerSound(new)
        /\ d.applied = NoSlot /\ d.set # "none" => Untouched(d, new.rows)
        /\ "partial" \notin e =>
             /\ d.applied = NoSlot /\ d.set \in {"active", "invalid"} => Complete(d, new.rows)
             /\ d.applied # NoSlot /\ d.set = "active" => Carried(d, new.rows, blks \union {b})
             /\ d.set = "active" => SumsFit(new)
    BY DEF SetFits
  <1>1. LedgerSound(l) /\ (c.applied = NoSlot => Untouched(c, l.rows))
    BY DEF SetFits
  <1>2. Child(c.at, b) /\ b \in Blocks /\ IsAncestor(c.at, b) /\ Slot(b) = Slot(c.at) + 1
    BY DEF Child
  <1>3. /\ new.rows = AppliedRows(l.rows, TxsIn(b)) /\ LedgerSound(new)
        /\ SumsFit(l) /\ Made(TxsIn(b)) \intersect DOMAIN l.rows = {} => SumsFit(new)
    BY <1>1, <1>2, BlockFits
  <1> HIDE DEF new
  <1>4. Slot(c.anchor) \in Nat /\ Slot(c.at) \in Nat /\ Slot(b) \in Nat
    BY <1>2, BlockIsSeq
  <1>5. d.applied # NoSlot
    BY <1>4 DEF NoSlot
  <1>6. ASSUME "partial" \notin e, c.set = "active"
        PROVE Carried(d, new.rows, blks \union {b}) /\ SumsFit(new)
    <2>1. /\ IsAncestor(c.anchor, c.at) /\ RowsAre(l.rows, c.anchor, c.at)
          /\ \A n \in Slot(c.anchor) + 1 .. Slot(c.at) : Ancestor(c.at, n) \in blks
      <3>1. CASE c.applied = NoSlot
        <4>1. c.at = c.anchor /\ Untouched(c, l.rows) /\ Complete(c, l.rows)
          BY <1>1, <1>6, <3>1 DEF SetFits
        <4>2. RowsAre(l.rows, c.anchor, c.anchor)
          BY <4>1, CompleteIs
        <4>3. IsAncestor(c.anchor, c.at)
          BY <4>1, AncestorOrder
        <4> QED BY <1>4, <4>1, <4>2, <4>3
      <3>2. CASE c.applied # NoSlot
        <4>1. Carried(c, l.rows, blks) /\ ~StaleSet(c)
          BY <1>6, <3>2 DEF SetFits
        <4>2. c.applied = Slot(c.at)
          BY <1>4, <1>6, <3>2, <4>1 DEF Carried, StaleSet
        <4> QED BY <4>1, <4>2, AncestorSelf DEF Carried
      <3> QED BY <3>1, <3>2
    <2>2. RowsAre(new.rows, c.anchor, b) /\ Made(TxsIn(b)) \intersect DOMAIN l.rows = {}
      <3>1. RowsSound(l.rows)
        BY <1>1 DEF LedgerSound
      <3> QED BY <1>2, <1>3, <2>1, <3>1, ApplyGoesOn
    <2>3. IsAncestor(c.anchor, b) /\ Ancestor(b, Slot(b)) = b
      BY <1>2, <2>1, AncestorOrder, AncestorSelf
    <2>4. ASSUME NEW n \in Slot(c.anchor) + 1 .. Slot(b) PROVE Ancestor(b, n) \in blks \union {b}
      <3>1. ASSUME NEW x \in Nat, NEW y \in Nat, NEW m \in x + 1 .. y + 1
            PROVE m = y + 1 \/ (m \in x + 1 .. y /\ m \in 0..y)
        OBVIOUS
      <3>2. n = Slot(b) \/ (n \in Slot(c.anchor) + 1 .. Slot(c.at) /\ n \in 0..Slot(c.at))
        BY <1>2, <1>4, <3>1
      <3>3. n \in 0..Slot(c.at) => Ancestor(b, n) = Ancestor(c.at, n)
        BY <1>2, AncestorThrough
      <3> QED BY <2>1, <2>3, <3>2, <3>3
    <2>5. Slot(b) \in Slot(c.anchor)..Slot(b)
      BY <1>4
    <2>6. Carried(d, new.rows, blks \union {b})
      BY <2>2, <2>3, <2>4, <2>5 DEF Carried
    <2>7. SumsFit(l)
      BY <1>6 DEF SetFits
    <2> QED BY <1>3, <2>2, <2>6, <2>7
  <1> QED BY <1>3, <1>5, <1>6

\* What the object that writes knows of the set.
LEMMA WriterKnows ==
  ASSUME CrawlInv, SetInv, NEW i \in Instances, cur.owner = i, inst[i].pc \notin Idle, Trusting(excuses)
  PROVE /\ inst[i].anchor \in {NoBlock, cur.anchor}
        /\ inst[i].anchor # NoBlock => cur.set \in {"active", "invalid"} /\ (cur.set = "active" => ~StaleSet(cur))
  <1>1. Kept(excuses)
    BY DEF Trusting
  <1>2. SetInStep(inst[i], cur, config.utxo[i])
    BY <1>1 DEF CrawlInv, Leads
  <1>3. Applies(inst[i], cur, excuses, config.utxo[i])
    BY DEF SetInv
  <1> QED BY <1>1, <1>2, <1>3 DEF SetInStep, Applies, Idle

\* A step of the leader after which the tables fit keeps the invariant of the set.
LEMMA WriterSet ==
  ASSUME CrawlInv, SetInv, NEW i \in Instances, cur.owner = i, cur'.owner = i, OnlyCrawler(i),
         inst[i].pc \notin Idle, inst'[i].pc \notin Idle, inst'[i].seen = inst[i].seen,
         inst'[i].anchor \in {inst[i].anchor, NoBlock}, config' = config, imp' = imp, excuses \subseteq excuses',
         cur'.set \in {cur.set, "invalid"}, cur'.set = "none" <=> cur.set = "none",
         SetFits(cur', ledger', stored', excuses'), DOMAIN ledger' = {"rows", "addrs", "accts"}
  PROVE SetInv'
  <1>1. /\ cur.set \in {"none", "importing", "active", "invalid"}
        /\ \A j \in Instances : HasSet(inst[j], cur)
        /\ Applies(inst[i], cur, excuses, config.utxo[i])
        /\ \A j \in Instances : Imports(j, imp[j], cur, ledger.rows)
    BY DEF SetInv
  <1>2. ASSUME NEW j \in Instances PROVE HasSet(inst'[j], cur')
    <2>1. CASE j = i
      BY <1>1, <2>1 DEF HasSet
    <2>2. CASE j # i
      <3>1. inst'[j] = inst[j] /\ HasSet(inst[j], cur)
        BY <1>1, <2>2 DEF OnlyCrawler
      <3> QED BY <3>1 DEF HasSet
    <2> QED BY <2>1, <2>2
  <1>3. Applies(inst'[i], cur', excuses', config'.utxo[i])
    <2>1. inst'[i].anchor # NoBlock => inst[i].anchor # NoBlock
      OBVIOUS
    <2>2. Kept(excuses') => Kept(excuses)
      BY DEF Kept
    <2> QED BY <1>1, <2>1, <2>2 DEF Applies, Idle
  <1>4. ASSUME NEW j \in Instances, cur'.owner = j PROVE Applies(inst'[j], cur', excuses', config'.utxo[j])
    <2>1. j = i
      BY <1>4
    <2> QED BY <1>3, <2>1
  <1>5. ASSUME NEW j \in Instances PROVE Imports(j, imp'[j], cur', ledger'.rows)
    <2>1. cur'.owner # Importer(j)
      BY OwnerIsOther
    <2>2. Imports(j, imp[j], cur, ledger.rows) /\ imp'[j] = imp[j]
      BY <1>1
    <2> QED BY <2>1, <2>2 DEF Imports
  <1>6. cur'.set \in {"none", "importing", "active", "invalid"}
    BY <1>1
  <1> QED BY <1>2, <1>4, <1>5, <1>6 DEF SetInv

\* A block is written: what the set says goes on.
LEMMA SetCommit ==
  ASSUME CrawlInv, SetInv, NEW i \in Instances, NEW b \in Blocks, NEW k, Commit(i, b, k), imp' = imp,
         DOMAIN k = CrawlerFields, k.anchor = inst[i].anchor, k.seen = inst[i].seen,
         k.pc \notin Idle, inst[i].pc \notin Idle, "late" \notin excuses => Child(cur.at, b)
  PROVE SetInv'
  <1> DEFINE due == k.anchor # NoBlock /\ Slot(b) > Slot(k.anchor)
             proven == VerifyUtxoAnchor(k)
             n == inst'[i]
  <1>1. /\ CursorSound(cur) /\ cur.owner = i /\ DOMAIN inst = Instances
        /\ UNCHANGED <<config, excuses, imp>> /\ stored' = stored \union {b}
        /\ ledger' = IF due /\ proven THEN ApplyBlockToLedger(ledger, TxsIn(b)) ELSE ledger
    BY DEF CrawlInv, Commit, Holds, IndexBlockFull
  <1>2. /\ DOMAIN cur' = CursorFields /\ cur'.at = b /\ cur'.anchor = cur.anchor /\ cur'.owner = i
        /\ cur'.applied = (IF due /\ proven THEN Slot(b) ELSE cur.applied)
        /\ cur'.set = (IF due /\ ~proven THEN "invalid" ELSE cur.set)
    <2>1. \E s : cur' = [AdvanceCursor(cur, b, s, IF due /\ proven THEN Slot(b) ELSE cur.applied)
                         EXCEPT !.set = IF due /\ ~proven THEN "invalid" ELSE @]
      BY DEF Commit
    <2> HIDE DEF due, proven
    <2> QED BY <1>1, <2>1 DEF AdvanceCursor, Renew, CursorSound, CursorFields
  <1>3. OnlyCrawler(i) /\ n.pc = k.pc /\ n.seen = k.seen /\ n.anchor = IF due /\ ~proven THEN NoBlock ELSE k.anchor
    <2>1. \E s : inst' = [inst EXCEPT ![i] = [k EXCEPT !.snap = s, !.anchor = IF due /\ ~proven THEN NoBlock ELSE @]]
      BY DEF Commit
    <2> HIDE DEF due, proven
    <2> QED BY <1>1, <2>1 DEF CrawlerFields, OnlyCrawler
  <1>4. /\ DOMAIN ledger = {"rows", "addrs", "accts"}
        /\ SetFits(cur, ledger, stored, excuses) /\ cur.set \in {"none", "importing", "active", "invalid"}
        /\ \A j \in Instances : HasSet(inst[j], cur)
        /\ Applies(inst[i], cur, excuses, config.utxo[i])
        /\ \A j \in Instances : Imports(j, imp[j], cur, ledger.rows)
    BY <1>1 DEF SetInv
  <1>5. ASSUME Trusting(excuses)
        PROVE /\ k.anchor \in {NoBlock, cur.anchor}
              /\ k.anchor # NoBlock => cur.set \in {"active", "invalid"} /\ (cur.set = "active" => ~StaleSet(cur))
    BY <1>1, <1>5, WriterKnows
  <1>6. due => cur.set # "none"
    BY <1>4 DEF HasSet
  <1>7. SetFits(cur', ledger', stored', excuses')
    <2> SUFFICES ASSUME Trusting(excuses) PROVE SetFits(cur', ledger', stored', excuses)
      BY <1>1 DEF SetFits
    <2>1. cur.at \in Blocks /\ cur.anchor \in Blocks /\ cur.applied \in Int /\ Child(cur.at, b)
      BY <1>1 DEF CursorSound, Trusting, Kept
    <2>2. CASE due /\ proven
      <3>1. k.anchor = cur.anchor /\ Slot(b) > Slot(cur.anchor) /\ (cur.applied # NoSlot \/ cur.at = cur.anchor)
        BY <1>5, <2>2 DEF VerifyUtxoAnchor
      <3>2. cur.set = "active" => ~StaleSet(cur)
        BY <1>5, <2>2
      <3>3. cur'.applied = Slot(b) /\ cur'.set = cur.set /\ ledger' = ApplyBlockToLedger(ledger, TxsIn(b))
        BY <1>1, <1>2, <2>2
      <3> HIDE DEF due, proven
      <3> QED BY <1>1, <1>2, <1>4, <1>6, <2>1, <2>2, <3>1, <3>2, <3>3, AppliedFits
    <2>3. CASE ~(due /\ proven)
      <3>1. cur'.applied = cur.applied /\ ledger' = ledger
        BY <1>1, <1>2, <2>3
      <3>2. \/ cur'.set = cur.set
            \/ cur.set \in {"active", "invalid"} /\ cur'.set = "invalid"
        BY <1>2, <1>5, <2>3
      <3> HIDE DEF due, proven
      <3>3. SetFits(cur, ledger, stored, excuses) /\ cur'.at = b /\ cur'.anchor = cur.anchor
        BY <1>2, <1>4
      <3>4. SetFits(cur', ledger, stored \union {b}, excuses)
        BY ONLY <2>1, <3>1, <3>2, <3>3, StoredFits
      <3> QED BY <1>1, <3>1, <3>4
    <2> QED BY <2>2, <2>3
  <1>8. /\ cur'.set = "none" <=> cur.set = "none"
        /\ cur'.set \in {cur.set, "invalid"}
    BY <1>2, <1>6
  <1>9. n.pc \notin Idle /\ n.seen = inst[i].seen /\ n.anchor \in {inst[i].anchor, NoBlock}
    BY <1>3
  <1>10. DOMAIN ledger' = {"rows", "addrs", "accts"}
    <2>1. ledger' \in {ledger, ApplyBlockToLedger(ledger, TxsIn(b))}
      BY <1>1
    <2>2. DOMAIN ApplyBlockToLedger(ledger, TxsIn(b)) = {"rows", "addrs", "accts"}
      BY DEF ApplyBlockToLedger
    <2> QED BY <1>4, <2>1, <2>2
  <1> HIDE DEF n, due, proven
  <1> QED BY <1>1, <1>2, <1>3, <1>7, <1>8, <1>9, <1>10, WriterSet DEF n

\* The pipeline writes the first of the blocks it fetched,
LEMMA PersistSet ==
  ASSUME CrawlInv, SetInv, NEW i \in Instances, Persist(i), imp' = imp
  PROVE SetInv'
  <1> DEFINE k == inst[i]
             b == Head(k.todo)
             rest == [k EXCEPT !.todo = Tail(@), !.att = 1, !.prog = @ \/ k.src = "stream",
                               !.pc = AfterBlock(k)]
  <1>1. Sound(k, excuses) /\ k.pc = "persist" /\ k.pc \notin Idle /\ Commit(i, b, rest)
    BY DEF CrawlInv, Persist, Idle
  <1>2. k.todo \in Seq(Blocks) /\ k.todo # << >> /\ b \in Blocks
    BY <1>1, FollowsTail DEF Sound
  <1>3. /\ DOMAIN rest = CrawlerFields /\ rest.pc = AfterBlock(k)
        /\ rest.seen = k.seen /\ rest.anchor = k.anchor
    BY <1>1 DEF Sound, CrawlerFields
  <1>4. AfterBlock(k) \notin Idle
    BY <1>1 DEF AfterBlock, Sound, Idle
  <1> HIDE DEF rest
  <1>5. ASSUME "late" \notin excuses PROVE Child(cur.at, b)
    <2>1. InStep(k, cur.at)
      BY <1>1, <1>5 DEF Commit, Holds, CrawlInv, Leads
    <2>2. Follows(cur.at, k.todo)
      BY <1>1, <2>1 DEF InStep
    <2> QED BY <1>2, <2>2, FollowsTail
  <1> HIDE DEF b
  <1> QED BY <1>1, <1>2, <1>3, <1>4, <1>5, SetCommit

\* and so does a callback left behind, when it does not halt or give its block up.
LEMMA LatePersistSet ==
  ASSUME CrawlInv, SetInv, NEW i \in Instances, LatePersist(i), imp' = imp
  PROVE SetInv'
  <1> DEFINE k == inst[i]
             done == [k EXCEPT !.late = NoBlock]
  <1>1. /\ Sound(k, excuses) /\ CursorSound(cur) /\ k.late \in Blocks /\ "late" \in excuses /\ k.pc \notin Idle
    BY DEF CrawlInv, LatePersist, Sound
  <1>2. DOMAIN done = CrawlerFields /\ done.anchor = k.anchor /\ done.seen = k.seen /\ done.pc = k.pc
    BY <1>1 DEF Sound, CrawlerFields
  <1>3. \/ Commit(i, k.late, done)
        \/ inst' = [inst EXCEPT ![i] = Halted(done, "stopped", FALSE)] /\ cur' = cur /\ SetRest
        \/ SetRest /\ \E o \in ErrorOutcomes(i, left) : GiveUp(i, k.late, o, done)
    BY DEF LatePersist, SetRest, done
  <1> HIDE DEF done
  <1>4. CASE Commit(i, k.late, done)
    BY <1>1, <1>2, <1>4, SetCommit
  <1>5. CASE inst' = [inst EXCEPT ![i] = Halted(done, "stopped", FALSE)] /\ cur' = cur /\ SetRest
    <2>1. OnlyCrawler(i) /\ inst'[i] = Halted(done, "stopped", FALSE)
      BY <1>5 DEF OnlyCrawler, CrawlInv
    <2>2. Unmoved(k, inst'[i])
      BY <1>2, <2>1 DEF Halted, CrawlerFields, Unmoved
    <2> QED BY <1>5, <2>1, <2>2, StillAside DEF SetRest
  <1>6. CASE SetRest /\ \E o \in ErrorOutcomes(i, left) : GiveUp(i, k.late, o, done)
    <2>1. Unmoved(k, done)
      BY <1>2 DEF Unmoved
    <2> QED BY <1>1, <1>2, <1>6, <2>1, GiveUpAside
  <1> QED BY <1>3, <1>4, <1>5, <1>6

\* A row whose set is not active, for what was crawled since does not matter to it.
LEMMA UnusedFits ==
  ASSUME NEW c, NEW l, NEW blks, NEW e, SetFits(c, l, blks, e),
         NEW d, d.anchor = c.anchor, d.applied = c.applied, d.set \in {c.set, "invalid"}, d.set # "active",
         d.set # c.set => c.set = "active", NEW more
  PROVE SetFits(d, l, more, e)
  <1> SUFFICES ASSUME Trusting(e) PROVE
        /\ LedgerSound(l)
        /\ d.applied = NoSlot /\ d.set # "none" => Untouched(d, l.rows)
        /\ "partial" \notin e =>
             /\ d.applied = NoSlot /\ d.set \in {"active", "invalid"} => Complete(d, l.rows)
             /\ d.applied # NoSlot /\ d.set = "active" => Carried(d, l.rows, more)
             /\ d.set = "active" => SumsFit(l)
    BY DEF SetFits
  <1>1. Untouched(c, l.rows) <=> Untouched(d, l.rows)
    BY DEF Untouched
  <1>2. Complete(c, l.rows) <=> Complete(d, l.rows)
    BY DEF Complete
  <1> QED BY <1>1, <1>2 DEF SetFits

\* The blocks a rollback to p takes of the stored ones, the ids of their transactions, and
\* how far a set applied up to slot m still is.
Beyond(blks, p) == {b \in blks : Slot(b) > Slot(p)}
Dropped(blks, p) == UNION {{t.id : t \in TxsIn(b)} : b \in Beyond(blks, p)}
Cut(m, p) == IF m > Slot(p) THEN Slot(p) ELSE m

\* The ids of blocks after p are those of transactions of the chain.
LEMMA DroppedIds ==
  ASSUME NEW p \in Blocks, NEW blks \in SUBSET Blocks
  PROVE /\ NoTx \notin Dropped(blks, p) /\ \A o \in DOMAIN Genesis : o[1] \notin Dropped(blks, p)
        /\ \A b \in Beyond(blks, p) : \A t \in TxsIn(b) : t.id \in Dropped(blks, p)
  <1>1. ASSUME NEW b \in Beyond(blks, p) PROVE Lawful(TxsIn(b))
    <2>1. b # Start /\ b \in Blocks
      <3>1. b \in Blocks /\ Slot(b) > Slot(p) /\ Slot(p) \in Nat /\ Slot(b) \in Nat /\ Slot(Start) = 0
        BY BlockIsSeq, StartIsBlock DEF Beyond
      <3> QED BY <3>1
    <2>2. LawfulBlock(b)
      BY <2>1, LedgerAssumption
    <2> QED BY <2>2 DEF LawfulBlock, Lawful
  <1>2. \A x : x \in Dropped(blks, p) <=> \E b \in Beyond(blks, p) : \E t \in TxsIn(b) : x = t.id
    BY DEF Dropped
  <1> QED BY <1>1, <1>2 DEF Lawful

\* What a rollback to p undoes of the rows that stand at b.
LEMMA RollbackUndoes ==
  ASSUME NEW at \in Blocks, NEW a \in Blocks, NEW p \in Blocks, IsAncestor(a, at), IsAncestor(p, at),
         Slot(a) <= Slot(p), NEW m \in Slot(a)..Slot(at), NEW blks \in SUBSET Blocks,
         \A n \in Slot(a) + 1 .. m : Ancestor(at, n) \in blks,
         \A t \in ChainTxs(p) : t.id \notin Dropped(blks, p)
  PROVE LET q == Ancestor(at, Cut(m, p))
        IN /\ Undoes(Dropped(blks, p), a, Ancestor(at, m), q)
           /\ q \in Blocks /\ IsAncestor(a, q) /\ IsAncestor(q, Ancestor(at, m)) /\ IsAncestor(q, p)
  <1> DEFINE b0 == Ancestor(at, m)
             q == Ancestor(at, Cut(m, p))
             ids == Dropped(blks, p)
  <1>1. Slot(a) \in Nat /\ Slot(p) \in Nat /\ Slot(at) \in Nat /\ Slot(p) <= Slot(at) /\ m \in 0..Slot(at)
    BY BlockIsSeq, AncestorOrder
  <1>2. b0 \in Blocks /\ Slot(b0) = m /\ IsAncestor(b0, at)
    BY <1>1, AncestorIsAncestor
  <1>3. p = Ancestor(at, Slot(p))
    BY OneAncestor
  <1>4. q \in Blocks /\ q = (IF m > Slot(p) THEN p ELSE b0)
    BY <1>2, <1>3 DEF Cut
  <1> HIDE DEF q, ids
  <1>5. IsAncestor(q, p) /\ IsAncestor(q, b0) /\ IsAncestor(a, q)
    <2>1. CASE m > Slot(p)
      <3>1. IsAncestor(p, b0) /\ IsAncestor(p, p) /\ IsAncestor(a, p)
        BY <1>1, <1>2, <2>1, AncestorOrder
      <3> QED BY <1>4, <2>1, <3>1
    <2>2. CASE ~(m > Slot(p))
      <3>1. Slot(b0) <= Slot(p) /\ Slot(a) <= Slot(b0)
        BY <1>1, <1>2, <2>2
      <3>2. IsAncestor(b0, p) /\ IsAncestor(b0, b0) /\ IsAncestor(a, b0)
        BY <1>2, <3>1, AncestorOrder
      <3> QED BY <1>4, <2>2, <3>2
    <2> QED BY <2>1, <2>2
  <1>6. NoTx \notin ids /\ \A o \in DOMAIN Genesis : o[1] \notin ids
    BY DroppedIds DEF ids
  <1>7. \A t \in ChainTxs(q) : t.id \notin ids
    BY <1>4, <1>5, ChainTxsGrow DEF ids
  <1>8. ASSUME NEW t \in ChainTxs(b0), t \notin ChainTxs(q) PROVE t.id \in ids
    <2>1. PICK x \in Line(b0) : t \in TxsIn(x)
      BY <1>2, ChainTxsIs
    <2>2. m > Slot(p) /\ q = p
      BY <1>4, <1>8
    <2>3. x \in Blocks /\ IsAncestor(x, b0) /\ Slot(x) >= 1 /\ Slot(x) \in Nat
      BY <1>2, <2>1, LineIs, BlockIsSeq
    <2>4. IsAncestor(x, at) /\ Slot(x) <= m
      BY <1>2, <2>3, AncestorOrder
    <2>5. Slot(x) > Slot(p)
      <3> SUFFICES ASSUME Slot(x) <= Slot(p) PROVE FALSE
        BY <1>1, <2>3
      <3>1. IsAncestor(x, p)
        BY <2>3, <2>4, AncestorOrder
      <3>2. t \in ChainTxs(p)
        BY <2>1, <2>3, <3>1, LineIs, ChainTxsIs
      <3> QED BY <1>8, <2>2, <3>2
    <2>6. x = Ancestor(at, Slot(x))
      BY <2>3, <2>4, OneAncestor
    <2>7. Slot(x) \in Slot(a) + 1 .. m
      BY <1>1, <2>3, <2>4, <2>5
    <2>8. x \in Beyond(blks, p)
      BY <2>5, <2>6, <2>7 DEF Beyond
    <2> QED BY <2>1, <2>8, DroppedIds DEF ids
  <1>9. Undoes(ids, a, b0, q)
    BY <1>6, <1>7, <1>8 DEF Undoes
  <1> QED BY <1>4, <1>5, <1>9 DEF q, ids

\* A rollback undone in an active set.
LEMMA UndoneFits ==
  ASSUME NEW c, c.at \in Blocks, c.anchor \in Blocks, c.applied \in Int, c.set = "active",
         NEW l, NEW blks \in SUBSET Blocks, NEW e, SetFits(c, l, blks, e),
         NEW p \in Blocks, Slot(p) >= Slot(c.anchor), NEW ids, ids = Dropped(blks, p),
         Trusting(e) => IsAncestor(p, c.at) /\ \A t \in ChainTxs(p) \union ChainTxs(c.anchor) : t.id \notin ids,
         NEW d, d.at = p, d.anchor = c.anchor, d.set = "active", d.applied = Cut(c.applied, p)
  PROVE SetFits(d, UndoLedgerForTransactions(l, ids), blks \ Beyond(blks, p), e)
  <1> DEFINE new == UndoLedgerForTransactions(l, ids)
             gone == Beyond(blks, p)
  <1> SUFFICES ASSUME Trusting(e) PROVE
        /\ LedgerSound(new)
        /\ d.applied = NoSlot /\ d.set # "none" => Untouched(d, new.rows)
        /\ "partial" \notin e =>
             /\ d.applied = NoSlot /\ d.set \in {"active", "invalid"} => Complete(d, new.rows)
             /\ d.applied # NoSlot /\ d.set = "active" => Carried(d, new.rows, blks \ gone)
             /\ d.set = "active" => SumsFit(new)
    BY DEF SetFits
  <1>1. LedgerSound(l) /\ (c.applied = NoSlot => Untouched(c, l.rows)) /\ RowsSound(l.rows)
    BY DEF SetFits, LedgerSound
  <1>2. new.rows = UndoneRows(l.rows, ids) /\ LedgerSound(new) /\ (SumsFit(l) => SumsFit(new))
    BY <1>1, UndoFits
  <1> HIDE DEF new
  <1>3. Slot(c.anchor) \in Nat /\ Slot(c.at) \in Nat /\ Slot(p) \in Nat
    BY BlockIsSeq
  <1>4. d.applied = NoSlot <=> c.applied = NoSlot
    BY <1>3 DEF NoSlot, Cut
  <1> HIDE DEF gone
  <1>5. ASSUME c.applied = NoSlot
        PROVE DOMAIN new.rows = DOMAIN l.rows /\ \A o \in DOMAIN l.rows : new.rows[o].spent = NoTx
    <2>1. NoTx \notin ids /\ \A o \in DOMAIN Genesis : o[1] \notin ids
      BY DroppedIds
    <2>2. ASSUME NEW o \in DOMAIN l.rows PROVE o[1] \notin ids /\ l.rows[o].spent = NoTx
      <3>1. o \in UnspentAt(c.anchor) /\ l.rows[o].spent = NoTx
        BY <1>1, <1>5 DEF Untouched
      <3>2. CASE o \in DOMAIN Genesis
        BY <2>1, <3>1, <3>2
      <3>3. CASE o \in Made(ChainTxs(c.anchor))
        <4>1. PICK t \in ChainTxs(c.anchor) : \E n \in DOMAIN Produced(t) : o = <<t.id, n>>
          BY <3>3, MadeIs
        <4>2. o[1] = t.id
          BY <4>1
        <4> QED BY <3>1, <4>2
      <3> QED BY <3>1, <3>2, <3>3 DEF UnspentAt
    <2> QED BY <1>1, <1>2, <2>1, <2>2, UndoNothing
  <1>6. ASSUME "partial" \notin e, c.applied # NoSlot PROVE Carried(d, new.rows, blks \ gone)
    <2>1. Carried(c, l.rows, blks)
      BY <1>6 DEF SetFits
    <2> DEFINE m == c.applied
               q == Ancestor(c.at, Cut(m, p))
    <2>2. /\ IsAncestor(c.anchor, c.at) /\ m \in Slot(c.anchor)..Slot(c.at)
          /\ \A n \in Slot(c.anchor) + 1 .. m : Ancestor(c.at, n) \in blks
          /\ RowsAre(l.rows, c.anchor, Ancestor(c.at, m))
      BY <2>1 DEF Carried
    <2>3. IsAncestor(p, c.at) /\ Slot(c.anchor) <= Slot(p) /\ Slot(p) <= Slot(c.at)
          /\ \A t \in ChainTxs(p) : t.id \notin Dropped(blks, p)
      BY <1>3, AncestorOrder
    <2>4. d.applied = Cut(m, p)
      OBVIOUS
    <2> HIDE DEF m
    <2>5. /\ Undoes(ids, c.anchor, Ancestor(c.at, m), q)
          /\ q \in Blocks /\ IsAncestor(c.anchor, q) /\ IsAncestor(q, Ancestor(c.at, m)) /\ IsAncestor(q, p)
      BY <2>2, <2>3, RollbackUndoes
    <2>6. Ancestor(c.at, m) \in Blocks
      BY <1>3, <2>2, AncestorIsAncestor
    <2>7. RowsAre(new.rows, c.anchor, q)
      <3> HIDE DEF q
      <3> QED BY <1>1, <1>2, <2>2, <2>5, <2>6, UndoGoesBack
    <2>8. /\ d.applied \in Slot(c.anchor)..Slot(p) /\ d.applied \in 0..Slot(p) /\ d.applied <= m
      BY <1>3, <2>2, <2>3, <2>4 DEF Cut
    <2>9. \A n \in 0..Slot(p) : Ancestor(p, n) = Ancestor(c.at, n)
      BY <2>3, AncestorThrough
    <2>10. IsAncestor(c.anchor, p)
      BY <2>2, <2>3, AncestorOrder
    <2>11. ASSUME NEW n \in Slot(c.anchor) + 1 .. d.applied PROVE Ancestor(p, n) \in blks \ gone
      <3>1. n \in 0..Slot(p) /\ n \in Slot(c.anchor) + 1 .. m /\ n <= Slot(p)
        BY <1>3, <2>2, <2>8
      <3>2. Ancestor(p, n) \in blks
        BY <2>2, <2>9, <3>1
      <3>3. Slot(Ancestor(p, n)) = n
        BY <3>1, AncestorIsAncestor
      <3> QED BY <1>3, <3>1, <3>2, <3>3 DEF gone, Beyond
    <2>12. RowsAre(new.rows, c.anchor, Ancestor(p, d.applied))
      BY <2>4, <2>7, <2>8, <2>9
    <2> QED BY <2>8, <2>10, <2>11, <2>12 DEF Carried
  <1>7. c.applied = NoSlot => Untouched(d, new.rows)
    BY <1>1, <1>5 DEF Untouched
  <1>8. c.applied = NoSlot /\ "partial" \notin e => Complete(d, new.rows)
    BY <1>5 DEF SetFits, Complete
  <1> QED BY <1>2, <1>4, <1>6, <1>7, <1>8 DEF SetFits, gone

\* A rollback, of the rows of the set with those of the blocks.
LEMMA HandleReorgSet ==
  ASSUME CrawlInv, SetInv, NEW i \in Instances, HandleReorg(i), imp' = imp
  PROVE SetInv'
  <1> DEFINE k == inst[i]
             p == k.at
             gone == Beyond(stored, p)
             ids == Dropped(stored, p)
             behind == cur.set = "active" /\ Slot(p) < Slot(cur.anchor)
             undo == cur.set = "active" /\ ~behind
             c == [ResetCursorTo(Renew(cur), p) EXCEPT
                     !.set = IF behind THEN "invalid" ELSE @,
                     !.applied = IF undo /\ @ > Slot(p) THEN Slot(p) ELSE @]
             n == [k EXCEPT !.pc = k.src, !.settled = NoEpoch, !.anchor = IF behind THEN NoBlock ELSE @]
  <1>1. /\ Sound(k, excuses) /\ CursorSound(cur) /\ cur.owner = i /\ k.pc = "reorg" /\ k.pc \notin Idle
        /\ UNCHANGED <<config, imp>> /\ DOMAIN inst = Instances /\ stored \in SUBSET Blocks
    BY DEF CrawlInv, RowsFit, HandleReorg, Holds, Idle
  <1>2. /\ DOMAIN ledger = {"rows", "addrs", "accts"}
        /\ SetFits(cur, ledger, stored, excuses) /\ cur.set \in {"none", "importing", "active", "invalid"}
    BY DEF SetInv
  <1>3. /\ p \in Blocks /\ cur.at \in Blocks /\ cur.anchor \in Blocks /\ cur.applied \in Int
        /\ Slot(p) \in Nat /\ Slot(cur.anchor) \in Nat /\ Slot(cur.at) \in Nat
    BY <1>1, BlockIsSeq DEF CursorSound, Sound
  <1>4. CASE /\ stored' = stored \ gone /\ cur' = c /\ inst' = [inst EXCEPT ![i] = n]
             /\ ledger' = IF undo THEN UndoLedgerForTransactions(ledger, ids) ELSE ledger
             /\ excuses' = IF undo /\ Strays(p, ids) THEN excuses \union {"stray"} ELSE excuses
    <2>1. /\ cur'.at = p /\ cur'.anchor = cur.anchor /\ cur'.owner = i
          /\ cur'.set = (IF behind THEN "invalid" ELSE cur.set)
          /\ cur'.applied = (IF undo /\ cur.applied > Slot(p) THEN Slot(p) ELSE cur.applied)
      <3> HIDE DEF behind, undo
      <3> QED BY <1>1, <1>4 DEF ResetCursorTo, Renew, CursorSound, CursorFields
    <2>2. OnlyCrawler(i) /\ inst'[i].pc = k.src /\ inst'[i].seen = k.seen /\ inst'[i].anchor \in {k.anchor, NoBlock}
      <3> HIDE DEF behind
      <3> QED BY <1>1, <1>4 DEF Sound, CrawlerFields, OnlyCrawler
    <2>3. inst'[i].pc \notin Idle
      BY <1>1, <2>2 DEF Sound, Idle
    <2> HIDE DEF n, c
    <2>4. /\ stored' = stored \ gone /\ excuses \subseteq excuses'
          /\ ledger' = (IF undo THEN UndoLedgerForTransactions(ledger, ids) ELSE ledger)
          /\ undo /\ Strays(p, ids) => "stray" \in excuses'
      BY <1>4
    <2>5. SetFits(cur, ledger, stored, excuses')
      <3>1. Quiet(cur, cur)
        BY <1>1 DEF Quiet, CursorSound
      <3>2. GivesUp(cur, cur, ledger.rows, excuses')
        BY DEF GivesUp
      <3> QED BY <1>2, <2>4, <3>1, <3>2, FitsKept
    <2>6. SetFits(cur', ledger', stored', excuses')
      <3>1. CASE undo
        <4>1. cur.set = "active" /\ cur'.set = "active" /\ Slot(p) >= Slot(cur.anchor)
          BY <1>3, <2>1, <3>1
        <4>2. cur'.applied = Cut(cur.applied, p)
          BY <2>1, <3>1 DEF Cut
        <4>3. ledger' = UndoLedgerForTransactions(ledger, ids)
          BY <2>4, <3>1
        <4>4. Trusting(excuses') => IsAncestor(p, cur.at) /\ \A t \in ChainTxs(p) \union ChainTxs(cur.anchor) : t.id \notin ids
          BY <2>4, <3>1 DEF Trusting, Strays
        <4> HIDE DEF undo, behind, p
        <4> QED BY <1>1, <1>3, <2>1, <2>4, <2>5, <4>1, <4>2, <4>3, <4>4, UndoneFits
      <3>2. CASE ~undo
        <4>1. /\ cur'.applied = cur.applied /\ cur'.set \in {cur.set, "invalid"} /\ cur'.set # "active"
              /\ (cur'.set # cur.set => cur.set = "active") /\ ledger' = ledger
          BY <2>1, <2>4, <3>2
        <4> QED BY <2>1, <2>5, <4>1, UnusedFits
      <3> QED BY <3>1, <3>2
    <2>7. /\ cur'.set \in {cur.set, "invalid"}
          /\ cur'.set = "none" <=> cur.set = "none"
      BY <2>1
    <2>8. DOMAIN ledger' = {"rows", "addrs", "accts"}
      <3>1. DOMAIN UndoLedgerForTransactions(ledger, ids) = {"rows", "addrs", "accts"}
        BY <1>2 DEF UndoLedgerForTransactions, RecountLedgerAddresses
      <3> QED BY <1>2, <2>4, <3>1
    <2> HIDE DEF gone, ids, undo, behind
    <2> QED BY <1>1, <2>1, <2>2, <2>3, <2>4, <2>6, <2>7, <2>8, WriterSet
  <1>5. CASE SetRest /\ \E l : HaltOnError(i, k, l) \/ RetryOnError(i, k, l)
    BY <1>1, <1>5, FailAside
  <1>6. \/ /\ stored' = stored \ gone /\ cur' = c /\ inst' = [inst EXCEPT ![i] = n]
           /\ ledger' = IF undo THEN UndoLedgerForTransactions(ledger, ids) ELSE ledger
           /\ excuses' = IF undo /\ Strays(p, ids) THEN excuses \union {"stray"} ELSE excuses
        \/ SetRest /\ \E l : HaltOnError(i, k, l) \/ RetryOnError(i, k, l)
    BY DEF HandleReorg, SetRest, Beyond, Dropped
  <1> QED BY <1>4, <1>5, <1>6

--------------------------------------------------------------------------------
(* The set and its imports.                                                      *)

\* A step of an import call that leaves the tables alone, and takes no more from the crawlers
\* than the anchor of one.
LEMMA CallPasses ==
  ASSUME CrawlInv, SetInv, NEW i \in Instances, UNCHANGED <<ledger, stored, config>>, Quiet(cur, cur'),
         cur'.owner \in {cur.owner, Importer(i), NoOwner, DeadOwner}, excuses \subseteq excuses',
         GivesUp(cur, cur', ledger.rows, excuses'), OnlyImport(i), Imports(i, imp'[i], cur', ledger.rows),
         \A j \in Instances : /\ inst'[j].pc = inst[j].pc /\ inst'[j].seen = inst[j].seen
                              /\ inst'[j].anchor \in {inst[j].anchor, NoBlock}
  PROVE SetInv'
  <1>1. /\ DOMAIN ledger = {"rows", "addrs", "accts"}
        /\ SetFits(cur, ledger, stored, excuses) /\ cur.set \in {"none", "importing", "active", "invalid"}
        /\ \A j \in Instances : HasSet(inst[j], cur)
        /\ \A j \in Instances : cur.owner = j => Applies(inst[j], cur, excuses, config.utxo[j])
        /\ \A j \in Instances : Imports(j, imp[j], cur, ledger.rows)
    BY DEF SetInv
  <1>2. cur'.set \in {cur.set, "invalid"} /\ (cur'.set = "none" <=> cur.set = "none") /\ cur'.anchor = cur.anchor
    BY DEF Quiet, GivesUp
  <1>3. SetFits(cur', ledger', stored', excuses')
    BY <1>1, FitsKept
  <1>4. \A j \in Instances : HasSet(inst'[j], cur')
    BY <1>1, <1>2 DEF HasSet
  <1>5. ASSUME NEW j \in Instances, cur'.owner = j PROVE Applies(inst'[j], cur', excuses', config'.utxo[j])
    <2>1. cur.owner = j
      BY <1>5, OwnerIsOther
    <2>2. Applies(inst[j], cur, excuses, config.utxo[j]) /\ (Kept(excuses') => Kept(excuses))
      BY <1>1, <2>1 DEF Kept
    <2>3. /\ inst'[j].pc = inst[j].pc /\ inst'[j].seen = inst[j].seen
          /\ inst'[j].anchor \in {inst[j].anchor, NoBlock}
      OBVIOUS
    <2> QED BY <1>2, <2>2, <2>3 DEF Applies
  <1>6. ASSUME NEW j \in Instances PROVE Imports(j, imp'[j], cur', ledger'.rows)
    <2>1. CASE j = i
      BY <2>1
    <2>2. CASE j # i
      <3>1. imp'[j] = imp[j] /\ Imports(j, imp[j], cur, ledger.rows)
        BY <1>1, <2>2 DEF OnlyImport
      <3>2. cur'.owner = Importer(j) => cur.owner = Importer(j)
        BY <2>2, OwnerIsOther DEF Importer
      <3> QED BY <1>2, <3>1, <3>2 DEF Imports, Loads
    <2> QED BY <2>1, <2>2
  <1>7. cur'.set \in {"none", "importing", "active", "invalid"} /\ DOMAIN ledger' = {"rows", "addrs", "accts"}
    BY <1>1, <1>2
  <1> QED BY <1>3, <1>4, <1>5, <1>6, <1>7 DEF SetInv

\* A step of the import call that holds the lease: no crawler leads, and no other import fills.
LEMMA CallHolds ==
  ASSUME CrawlInv, SetInv, NEW i \in Instances, cur'.owner = Importer(i),
         cur'.set \in {"importing", "active", "invalid"}, SetFits(cur', ledger', stored', excuses'),
         DOMAIN ledger' = {"rows", "addrs", "accts"}, OnlyImport(i), Imports(i, imp'[i], cur', ledger'.rows)
  PROVE SetInv'
  <1>1. \A j \in Instances : HasSet(inst'[j], cur')
    BY DEF HasSet
  <1>2. \A j \in Instances : cur'.owner # j
    BY OwnerIsOther
  <1>3. ASSUME NEW j \in Instances PROVE Imports(j, imp'[j], cur', ledger'.rows)
    <2>1. CASE j = i
      BY <2>1
    <2>2. CASE j # i
      <3>1. imp'[j] = imp[j] /\ Imports(j, imp[j], cur, ledger.rows)
        BY <2>2 DEF OnlyImport, SetInv
      <3>2. cur'.owner # Importer(j)
        BY <2>2 DEF Importer
      <3> QED BY <3>1, <3>2 DEF Imports
    <2> QED BY <2>1, <2>2
  <1> QED BY <1>1, <1>2, <1>3 DEF SetInv

\* A call is checked: one that works on a set finds one.
LEMMA RequestImportSet ==
  ASSUME CrawlInv, SetInv, NEW i \in Instances, RequestImport(i)
  PROVE SetInv'
  <1>1. UNCHANGED <<cur, ledger, stored, inst, config, excuses>> /\ CursorSound(cur)
    BY DEF CrawlInv, RequestImport
  <1>2. PICK m : imp' = [imp EXCEPT ![i] = m] /\ m.pc = "lease" /\ (m.kind = "rebuild" => cur.set # "none")
    <2>1. CASE RefreshScripts(i)
      <3> DEFINE m == [NoImport EXCEPT !.pc = "lease", !.kind = "scripts"]
      <3>1. m.pc = "lease" /\ m.kind = "scripts"
        BY DEF NoImport
      <3>2. imp' = [imp EXCEPT ![i] = m]
        BY <2>1 DEF RefreshScripts
      <3> HIDE DEF m
      <3> QED BY <3>1, <3>2
    <2>2. ASSUME NEW b, imp' = [imp EXCEPT ![i] = [NoImport EXCEPT !.pc = "lease", !.kind = "import", !.anchor = b]]
          PROVE \E m : imp' = [imp EXCEPT ![i] = m] /\ m.pc = "lease" /\ (m.kind = "rebuild" => cur.set # "none")
      <3> DEFINE m == [NoImport EXCEPT !.pc = "lease", !.kind = "import", !.anchor = b]
      <3>1. m.pc = "lease" /\ m.kind = "import" /\ imp' = [imp EXCEPT ![i] = m]
        BY <2>2 DEF NoImport
      <3> HIDE DEF m
      <3> QED BY <3>1
    <2>3. ASSUME NEW b, NEW r, cur.set # "none",
                 imp' = [imp EXCEPT ![i] = [NoImport EXCEPT !.pc = "lease", !.kind = "rebuild", !.anchor = b, !.rewind = r]]
          PROVE \E m : imp' = [imp EXCEPT ![i] = m] /\ m.pc = "lease" /\ (m.kind = "rebuild" => cur.set # "none")
      <3> DEFINE m == [NoImport EXCEPT !.pc = "lease", !.kind = "rebuild", !.anchor = b, !.rewind = r]
      <3>1. m.pc = "lease" /\ imp' = [imp EXCEPT ![i] = m]
        BY <2>3 DEF NoImport
      <3> HIDE DEF m
      <3> QED BY <2>3, <3>1
    <2> QED BY <2>1, <2>2, <2>3 DEF RequestImport
  <1>3. OnlyImport(i) /\ imp'[i] = m
    BY <1>2, CallFacts
  <1>4. Imports(i, m, cur, ledger.rows)
    BY <1>2 DEF Imports, Loading
  <1>5. Quiet(cur, cur') /\ cur'.owner = cur.owner /\ GivesUp(cur, cur', ledger.rows, excuses')
    BY <1>1, QuietSelf DEF GivesUp
  <1> QED BY <1>1, <1>3, <1>4, <1>5, CallPasses

\* It gets the lease, or gives up.
LEMMA ImportLeaseSet ==
  ASSUME CrawlInv, SetInv, NEW i \in Instances, ImportLease(i)
  PROVE SetInv'
  <1> DEFINE m == imp[i]
  <1>1. /\ UNCHANGED <<ledger, stored, config, excuses>> /\ CursorSound(cur) /\ DOMAIN inst = Instances
        /\ m.pc = "lease" /\ ImportSound(m) /\ Imports(i, m, cur, ledger.rows)
    BY DEF CrawlInv, ImportLease, ImportsSound, SetInv
  <1>2. CASE CanAcquireImport(cur, Importer(i))
    <2>1. /\ cur' = TakeLease(cur, Importer(i)) /\ ImportGoto(i, "begin")
          /\ inst' = [inst EXCEPT ![i].anchor = IF imp[i].kind = "scripts" THEN @ ELSE NoBlock]
      BY <1>2 DEF ImportLease, ImportGoto
    <2>2. Quiet(cur, cur') /\ cur'.owner = Importer(i) /\ cur'.set = cur.set
      BY <1>1, <2>1 DEF TakeLease, Quiet, CursorSound, CursorFields
    <2>3. ASSUME NEW j \in Instances
          PROVE /\ inst'[j].pc = inst[j].pc /\ inst'[j].seen = inst[j].seen
                /\ inst'[j].anchor \in {inst[j].anchor, NoBlock}
      <3>1. CASE j = i
        <4>1. inst'[i] = [inst[i] EXCEPT !.anchor = IF imp[i].kind = "scripts" THEN @ ELSE NoBlock]
              /\ DOMAIN inst[i] = CrawlerFields
          BY <1>1, <2>1 DEF CrawlInv, Sound
        <4> QED BY <3>1, <4>1 DEF CrawlerFields
      <3>2. CASE j # i
        BY <1>1, <2>1, <3>2
      <3> QED BY <3>1, <3>2
    <2>4. OnlyImport(i) /\ imp'[i] = [m EXCEPT !.pc = "begin"]
      BY <2>1, ImportGotoFacts
    <2>5. Imports(i, imp'[i], cur', ledger.rows)
      <3>1. imp'[i].pc = "begin" /\ imp'[i].kind = m.kind
        BY <1>1, <2>4, CallPlaced DEF ImportSound
      <3> QED BY <1>1, <2>2, <3>1 DEF Imports, Loading
    <2>6. GivesUp(cur, cur', ledger.rows, excuses')
      BY <2>2 DEF GivesUp
    <2> QED BY <1>1, <2>2, <2>3, <2>4, <2>5, <2>6, CallPasses
  <1>3. CASE ~CanAcquireImport(cur, Importer(i))
    <2>1. cur' = cur /\ imp' = [imp EXCEPT ![i] = NoImport] /\ inst' = inst
      BY <1>3 DEF ImportLease
    <2>2. OnlyImport(i) /\ imp'[i] = NoImport
      BY <2>1, CallFacts
    <2>3. Imports(i, NoImport, cur, ledger.rows)
      BY DEF Imports, NoImport, Loading
    <2>4. Quiet(cur, cur') /\ cur'.owner = cur.owner /\ GivesUp(cur, cur', ledger.rows, excuses')
      BY <1>1, <2>1, QuietSelf DEF GivesUp
    <2> QED BY <1>1, <2>1, <2>2, <2>3, <2>4, CallPasses
  <1> QED BY <1>2, <1>3

\* Empty tables.
LEMMA NoLedgerFits ==
  /\ DOMAIN NoLedger = {"rows", "addrs", "accts"} /\ LedgerSound(NoLedger) /\ DOMAIN NoLedger.rows = {}
  <1>1. DOMAIN NoLedger = {"rows", "addrs", "accts"} /\ NoLedger.rows = << >>
    BY DEF NoLedger
  <1>2. DOMAIN << >> = {}
    OBVIOUS
  <1>3. RowsSound(<< >>)
    BY <1>2, FS_EmptySet DEF RowsSound
  <1> QED BY <1>1, <1>2, <1>3 DEF LedgerSound

\* It empties the tables, or goes straight on to the sums or to the scripts.
LEMMA ImportBeginSet ==
  ASSUME CrawlInv, SetInv, NEW i \in Instances, ImportBegin(i)
  PROVE SetInv'
  <1> DEFINE m == imp[i]
  <1>1. /\ UNCHANGED <<stored, inst, config>> /\ CursorSound(cur) /\ m.pc = "begin" /\ ImportSound(m)
        /\ cur.owner = Importer(i) /\ Imports(i, m, cur, ledger.rows)
    BY DEF CrawlInv, ImportBegin, ImportsSound, Writes, HoldsImport, SetInv
  <1>2. CASE m.kind = "import"
    <2>1. /\ cur' = [Renew(cur) EXCEPT !.set = "importing", !.anchor = m.anchor, !.applied = NoSlot]
          /\ imp' = [imp EXCEPT ![i].pc = "flush", ![i].todo = UnspentAt(imp[i].anchor)]
          /\ ledger' = NoLedger
      BY <1>2 DEF ImportBegin
    <2>2. /\ cur'.set = "importing" /\ cur'.anchor = m.anchor /\ cur'.applied = NoSlot /\ cur'.owner = cur.owner
      BY <1>1, <2>1 DEF Renew, CursorSound, CursorFields
    <2>3. OnlyImport(i) /\ imp'[i] = [m EXCEPT !.pc = "flush", !.todo = UnspentAt(m.anchor)]
      BY <2>1 DEF OnlyImport, CrawlInv, ImportsSound
    <2>4. /\ imp'[i].pc = "flush" /\ imp'[i].todo = UnspentAt(m.anchor) /\ imp'[i].anchor = m.anchor
          /\ imp'[i].kind = "import"
      BY <1>1, <1>2, <2>3 DEF ImportSound, ImportFields
    <2>5. Imports(i, imp'[i], cur', ledger'.rows)
      BY <2>1, <2>2, <2>4, NoLedgerFits DEF Imports, Loads
    <2>6. SetFits(cur', ledger', stored', excuses')
      BY <2>1, <2>2, NoLedgerFits DEF SetFits, Untouched
    <2> QED BY <1>1, <2>1, <2>2, <2>3, <2>5, <2>6, NoLedgerFits, CallHolds
  <1>3. CASE m.kind # "import"
    <2>1. cur' = Renew(cur) /\ excuses' = excuses /\ ledger' = ledger
      BY <1>3 DEF ImportBegin
    <2>2. PICK pc \in {"activate", "release"} : ImportGoto(i, pc) /\ (pc = "activate" => m.kind = "rebuild")
      BY <1>3 DEF ImportBegin
    <2>3. OnlyImport(i) /\ imp'[i] = [m EXCEPT !.pc = pc]
      BY <2>2, ImportGotoFacts
    <2>4. Calm(cur, cur') /\ GivesUp(cur, cur', ledger.rows, excuses')
      BY <1>1, <2>1, CalmRows DEF GivesUp, Calm
    <2>5. Imports(i, imp'[i], cur', ledger.rows)
      <3>1. imp'[i].pc = pc /\ imp'[i].kind = m.kind
        BY <1>1, <2>3, CallPlaced DEF ImportSound
      <3> QED BY <1>1, <1>3, <2>2, <2>4, <3>1 DEF Imports, Loading, Calm
    <2> QED BY <1>1, <2>1, <2>3, <2>4, <2>5, CallPasses DEF Calm
  <1> QED BY <1>2, <1>3

\* A batch of a snapshot written to rows that are part of it.
FilledRows(rows, batch, b) ==
  [o \in DOMAIN rows \union batch |-> IF o \in batch THEN SnapshotAt(b)[o] ELSE rows[o]]

\* The rows that are there and those of the batch are rows of the snapshot, none of them spent.
LEMMA BatchFits ==
  ASSUME NEW c, c.anchor \in Blocks, NEW rows, NEW batch, batch \subseteq UnspentAt(c.anchor),
         RowsSound(rows), Untouched(c, rows)
  PROVE RowsSound(FilledRows(rows, batch, c.anchor)) /\ Untouched(c, FilledRows(rows, batch, c.anchor))
  <1> DEFINE new == FilledRows(rows, batch, c.anchor)
  <1>1. DOMAIN new = DOMAIN rows \union batch
        /\ \A o \in DOMAIN new : new[o] = IF o \in batch THEN SnapshotAt(c.anchor)[o] ELSE rows[o]
    BY DEF FilledRows
  <1> HIDE DEF new
  <1>2. /\ IsFiniteSet(UnspentAt(c.anchor))
        /\ \A o \in UnspentAt(c.anchor) : Row(SnapshotAt(c.anchor)[o]) /\ SnapshotAt(c.anchor)[o].spent = NoTx
    BY SnapshotSound
  <1>3. DOMAIN rows \subseteq UnspentAt(c.anchor) /\ \A o \in DOMAIN rows : rows[o].spent = NoTx
    BY DEF Untouched
  <1>4. DOMAIN new \subseteq UnspentAt(c.anchor)
    BY <1>1, <1>3
  <1>5. IsFiniteSet(DOMAIN new)
    BY <1>2, <1>4, FS_Subset
  <1>6. ASSUME NEW o \in DOMAIN new PROVE Row(new[o]) /\ new[o].spent = NoTx
    <2>1. CASE o \in batch
      BY <1>1, <1>2, <2>1
    <2>2. CASE o \notin batch
      BY <1>1, <1>3, <2>2 DEF RowsSound
    <2> QED BY <2>1, <2>2
  <1> QED BY <1>4, <1>5, <1>6 DEF new, RowsSound, Untouched

\* A batch of rows is written, and they are no longer to do.
LEMMA ImportFlushSet ==
  ASSUME CrawlInv, SetInv, NEW i \in Instances, ImportFlush(i)
  PROVE SetInv'
  <1> DEFINE m == imp[i]
             todo == m.todo
             size == IF Cardinality(todo) < ImportBatch THEN Cardinality(todo) ELSE ImportBatch
             batch == CHOOSE S \in SUBSET todo : Cardinality(S) = size
             a == cur.anchor
  <1>1. /\ UNCHANGED <<stored, inst, config, excuses>> /\ CursorSound(cur) /\ m.pc = "flush" /\ ImportSound(m)
        /\ cur.owner = Importer(i) /\ Imports(i, m, cur, ledger.rows) /\ cur' = Renew(cur)
        /\ DOMAIN ledger = {"rows", "addrs", "accts"}
        /\ SetFits(cur, ledger, stored, excuses) /\ cur.set \in {"none", "importing", "active", "invalid"}
    BY DEF CrawlInv, ImportFlush, ImportsSound, Writes, HoldsImport, SetInv
  <1>2. m.anchor \in Blocks /\ m.kind = "import" /\ Loading(m) /\ m.anchor = a
    BY <1>1 DEF ImportSound, Imports, Loading, Loads
  <1>3. cur.set \in {"importing", "invalid"} /\ todo \subseteq UnspentAt(a) /\ DOMAIN ledger.rows = UnspentAt(a) \ todo
    BY <1>1, <1>2 DEF Imports, Loads
  <1>4. cur.applied = NoSlot
    BY <1>1, <1>2 DEF CrawlInv, ImportsSound
  <1>5. batch \subseteq todo
    <2>1. IsFiniteSet(todo)
      BY <1>2, <1>3, SnapshotSound, FS_Subset
    <2>2. Cardinality(todo) \in Nat
      BY <2>1, FS_CardinalityType
    <2>3. size \in 0..Cardinality(todo)
      BY <2>2, ImportAssumption
    <2> HIDE DEF size, todo
    <2>4. \E S \in SUBSET todo : Cardinality(S) = size
      BY <2>1, <2>3, SubsetOfSize
    <2> QED BY <2>4
  <1>6. /\ ledger' = [ledger EXCEPT !.rows = FilledRows(ledger.rows, batch, a)]
        /\ imp' = [imp EXCEPT ![i].todo = todo \ batch, ![i].pc = AfterBatch(todo, batch)]
    <2> HIDE DEF a
    <2> QED BY <1>2 DEF ImportFlush, FilledRows, CrawlInv, ImportsSound
  <1> HIDE DEF batch, size
  <1>7. /\ cur'.set = cur.set /\ cur'.anchor = a /\ cur'.applied = NoSlot /\ cur'.owner = cur.owner
    BY <1>1, <1>4 DEF Renew, CursorSound, CursorFields
  <1>8. /\ DOMAIN ledger' = {"rows", "addrs", "accts"} /\ ledger'.rows = FilledRows(ledger.rows, batch, a)
        /\ DOMAIN ledger'.rows = DOMAIN ledger.rows \union batch
    BY <1>1, <1>6 DEF FilledRows
  <1>9. OnlyImport(i) /\ imp'[i] = [m EXCEPT !.todo = todo \ batch, !.pc = AfterBatch(todo, batch)]
    BY <1>6 DEF OnlyImport, CrawlInv, ImportsSound
  <1>10. /\ imp'[i].pc = AfterBatch(todo, batch) /\ imp'[i].todo = todo \ batch /\ imp'[i].anchor = m.anchor
         /\ imp'[i].kind = m.kind
    BY <1>1, <1>9 DEF ImportSound, ImportFields
  <1>11. Imports(i, imp'[i], cur', ledger'.rows)
    <2>1. DOMAIN ledger'.rows = UnspentAt(a) \ (todo \ batch) /\ todo \ batch \subseteq UnspentAt(a)
      BY <1>3, <1>5, <1>8
    <2>2. AfterBatch(todo, batch) \in {"flush", "activate"} /\ (AfterBatch(todo, batch) = "activate" => todo = batch)
      BY DEF AfterBatch
    <2>3. imp'[i].pc = "activate" => DOMAIN ledger'.rows = UnspentAt(a)
      BY <1>10, <2>1, <2>2
    <2> HIDE DEF a, m, todo
    <2> QED BY <1>2, <1>3, <1>7, <1>10, <2>1, <2>2, <2>3 DEF Imports, Loads
  <1>12. SetFits(cur', ledger', stored', excuses')
    <2> SUFFICES ASSUME Trusting(excuses) PROVE
          /\ LedgerSound(ledger') /\ Untouched(cur', ledger'.rows)
          /\ "partial" \notin excuses /\ cur'.set = "invalid" => Complete(cur', ledger'.rows)
      BY <1>1, <1>3, <1>7 DEF SetFits
    <2>1. RowsSound(ledger.rows) /\ Untouched(cur, ledger.rows)
      BY <1>1, <1>3, <1>4 DEF SetFits, LedgerSound
    <2>2. batch \subseteq UnspentAt(cur.anchor) /\ cur.anchor \in Blocks
      BY <1>1, <1>3, <1>5 DEF CursorSound
    <2>3. RowsSound(ledger'.rows) /\ Untouched(cur, ledger'.rows)
      <3>1. ledger'.rows = FilledRows(ledger.rows, batch, cur.anchor)
        BY <1>8
      <3> QED BY <2>1, <2>2, <3>1, BatchFits
    <2>4. Untouched(cur', ledger'.rows)
      BY <1>7, <2>3 DEF Untouched
    <2>5. ASSUME "partial" \notin excuses, cur'.set = "invalid" PROVE Complete(cur', ledger'.rows)
      <3>1. DOMAIN ledger.rows = UnspentAt(cur.anchor)
        BY <1>1, <1>4, <1>7, <2>5 DEF SetFits, Complete
      <3> QED BY <1>7, <1>8, <2>2, <3>1 DEF Complete
    <2> QED BY <1>8, <2>3, <2>4, <2>5 DEF LedgerSound
  <1> HIDE DEF m, a
  <1> QED BY <1>1, <1>3, <1>7, <1>8, <1>9, <1>11, <1>12, CallHolds

\* The sums are made and the set becomes active: it was filled under this lease, or it is one
\* that was complete.
LEMMA ImportActivateSet ==
  ASSUME CrawlInv, SetInv, NEW i \in Instances, ImportActivate(i)
  PROVE SetInv'
  <1> DEFINE m == imp[i]
             c == [Renew(cur) EXCEPT !.set = "active", !.anchor = m.anchor]
             rows == ledger.rows
  <1>1. /\ stored' = stored /\ CursorSound(cur)
        /\ m.pc = "activate" /\ ImportSound(m) /\ cur.owner = Importer(i) /\ Imports(i, m, cur, rows)
        /\ cur' = (IF m.rewind THEN ResetCursorTo(c, m.anchor) ELSE c)
        /\ excuses' = (excuses \ IF m.kind = "import" THEN {"partial"} ELSE {})
                        \union (IF m.rewind THEN {"rewind"} ELSE {})
                        \union (IF Outdated(i) THEN {"outdated"} ELSE {})
        /\ ledger' = WithAggregates(rows) /\ ImportGoto(i, "release")
        /\ SetFits(cur, ledger, stored, excuses) /\ cur.set \in {"none", "importing", "active", "invalid"}
    BY DEF CrawlInv, ImportActivate, ImportsSound, HoldsImport, SetInv
  <1>2. m.anchor \in Blocks /\ m.kind \in {"import", "rebuild"}
    BY <1>1 DEF ImportSound
  <1>3. /\ DOMAIN c = CursorFields /\ c.anchor = m.anchor /\ c.applied = cur.applied /\ c.owner = cur.owner /\ c.set = "active"
    BY <1>1 DEF Renew, CursorSound, CursorFields
  <1> HIDE DEF c
  <1>4. cur'.anchor = m.anchor /\ cur'.applied = cur.applied /\ cur'.owner = cur.owner /\ cur'.set = "active"
    BY <1>1, <1>3 DEF ResetCursorTo, CursorFields
  <1>5. OnlyImport(i) /\ imp'[i] = [m EXCEPT !.pc = "release"]
    BY <1>1, ImportGotoFacts
  <1>6. Imports(i, imp'[i], cur', ledger'.rows)
    <2>1. imp'[i].pc = "release"
      BY <1>1, <1>5, CallPlaced DEF ImportSound
    <2> QED BY <1>4, <2>1 DEF Imports, Loading
  <1>7. DOMAIN ledger' = {"rows", "addrs", "accts"} /\ ledger'.rows = rows
    BY <1>1 DEF WithAggregates
  <1>8. SetFits(cur', ledger', stored', excuses')
    <2> SUFFICES ASSUME Trusting(excuses')
                 PROVE /\ LedgerSound(ledger') /\ cur'.applied = NoSlot /\ Untouched(cur', rows)
                       /\ "partial" \notin excuses' => Complete(cur', rows) /\ SumsFit(ledger')
      BY <1>4, <1>7 DEF SetFits
    <2>1. Trusting(excuses) /\ ~Outdated(i)
      BY <1>1 DEF Trusting, Kept
    <2>2. RowsSound(rows) /\ (cur.applied = NoSlot /\ cur.set # "none" => Untouched(cur, rows))
      BY <1>1, <2>1 DEF SetFits, LedgerSound
    <2>3. LedgerSound(ledger') /\ SumsFit(ledger')
      <3> HIDE DEF rows
      <3> QED BY <1>1, <2>2, AggregatesFit
    <2>4. /\ cur.anchor = m.anchor /\ cur.applied = NoSlot /\ cur.set # "none"
          /\ "partial" \notin excuses' => DOMAIN rows = UnspentAt(cur.anchor)
      <3>1. CASE m.kind = "import"
        <4>1. Loading(m)
          BY <1>1, <3>1 DEF Loading
        <4>2. cur.applied = NoSlot
          BY <1>1, <4>1 DEF CrawlInv, ImportsSound
        <4> HIDE DEF m, rows
        <4> QED BY <1>1, <4>1, <4>2 DEF Imports, Loads
      <3>2. CASE m.kind = "rebuild"
        <4>1. cur.anchor = m.anchor /\ cur.applied = NoSlot /\ cur.set # "importing"
          BY <2>1, <3>2 DEF Outdated
        <4>2. cur.set # "none"
          <5> HIDE DEF m
          <5> QED BY <1>1, <3>2 DEF Imports
        <4>3. "partial" \notin excuses' => "partial" \notin excuses
          BY <1>1, <3>2
        <4>4. "partial" \notin excuses => Complete(cur, rows)
          BY <1>1, <2>1, <4>1, <4>2 DEF SetFits
        <4> QED BY <4>1, <4>2, <4>3, <4>4 DEF Complete
      <3> QED BY <1>2, <3>1, <3>2
    <2>5. Untouched(cur', rows)
      BY <1>4, <2>2, <2>4 DEF Untouched
    <2> QED BY <1>4, <2>3, <2>4, <2>5 DEF Complete
  <1> HIDE DEF m, rows
  <1> QED BY <1>1, <1>4, <1>5, <1>6, <1>7, <1>8, CallHolds

\* A call that comes to its end says nothing of the set any more.
LEMMA CallEnds ==
  ASSUME NEW i, NEW m, m.pc = "release" \/ m = NoImport, NEW c, NEW rows, m.kind = "rebuild" => c.set # "none"
  PROVE Imports(i, m, c, rows)
  <1>1. m.pc \notin {"flush", "activate", "invalid"}
    BY DEF NoImport
  <1> QED BY <1>1 DEF Imports, Loading

\* It fails, marks the set invalid, gives the lease back, renews it or loses it.
LEMMA ImportEndsSet ==
  ASSUME CrawlInv, SetInv, NEW i \in Instances,
         ImportFails(i) \/ MarkInvalid(i) \/ ImportRelease(i) \/ ImportHeartbeat(i)
  PROVE SetInv'
  <1> DEFINE m == imp[i]
  <1>1. /\ UNCHANGED <<ledger, inst, stored, config>> /\ CursorSound(cur) /\ ImportSound(m) /\ excuses \subseteq excuses'
        /\ Imports(i, m, cur, ledger.rows)
    BY DEF CrawlInv, ImportsSound, ImportFails, MarkInvalid, ImportRelease, ImportHeartbeat, SetInv
  <1>2. Quiet(cur, cur') /\ cur'.owner \in {cur.owner, NoOwner, DeadOwner}
    <2>1. \/ cur' = cur
          \/ cur' = Renew(cur)
          \/ cur' = [Renew(cur) EXCEPT !.set = "invalid"]
          \/ cur' = [cur EXCEPT !.owner = DeadOwner]
          \/ cur' = [cur EXCEPT !.owner = NoOwner, !.live = FALSE]
      BY DEF ImportFails, MarkInvalid, ImportRelease, ImportHeartbeat, ReleaseImport
    <2> QED BY <1>1, <2>1 DEF Renew, Quiet, CursorSound, CursorFields
  <1>3. cur'.set = cur.set \/ (MarkInvalid(i) /\ cur' = [Renew(cur) EXCEPT !.set = "invalid"]
                                /\ (BrokenOff => "partial" \in excuses'))
    <2>1. \/ cur' \in {cur, Renew(cur), [cur EXCEPT !.owner = DeadOwner], [cur EXCEPT !.owner = NoOwner, !.live = FALSE]}
          \/ (MarkInvalid(i) /\ cur' = [Renew(cur) EXCEPT !.set = "invalid"] /\ (BrokenOff => "partial" \in excuses'))
      BY DEF ImportFails, MarkInvalid, ImportRelease, ImportHeartbeat, ReleaseImport
    <2> QED BY <1>1, <2>1 DEF Renew, CursorSound, CursorFields
  <1>4. GivesUp(cur, cur', ledger.rows, excuses')
    <2>1. MarkInvalid(i) => cur.set # "none"
      BY <1>1 DEF MarkInvalid, Imports
    <2> QED BY <1>3, <2>1 DEF GivesUp, BrokenOff, Complete
  <1>5. cur'.set = "none" <=> cur.set = "none"
    BY <1>2, <1>4 DEF Quiet, GivesUp
  <1>6. OnlyImport(i) /\ Imports(i, imp'[i], cur', ledger.rows)
    <2>1. CASE ImportGoto(i, "release")
      <3>1. OnlyImport(i) /\ imp'[i] = [m EXCEPT !.pc = "release"]
        BY <2>1, ImportGotoFacts
      <3>2. imp'[i].pc = "release" /\ imp'[i].kind = m.kind
        BY <1>1, <3>1, CallPlaced DEF ImportSound
      <3>3. imp'[i].kind = "rebuild" => cur'.set # "none"
        BY <1>1, <1>5, <3>2 DEF Imports
      <3> QED BY <3>1, <3>2, <3>3, CallEnds
    <2>2. CASE ImportFails(i) /\ ImportGoto(i, "invalid") /\ m.pc # "begin"
      <3>1. OnlyImport(i) /\ imp'[i] = [m EXCEPT !.pc = "invalid"]
        BY <2>2, ImportGotoFacts
      <3>2. imp'[i].pc = "invalid" /\ imp'[i].kind = m.kind
        BY <1>1, <3>1, CallPlaced DEF ImportSound
      <3>3. cur'.set # "none"
        BY <1>1, <1>5, <2>2 DEF Imports, ImportFails
      <3> QED BY <3>1, <3>2, <3>3 DEF Imports, Loading
    <2>3. CASE imp' = [imp EXCEPT ![i] = NoImport]
      <3>1. OnlyImport(i) /\ imp'[i] = NoImport
        BY <2>3, CallFacts
      <3>2. NoImport.kind # "rebuild"
        BY DEF NoImport
      <3> QED BY <3>1, <3>2, CallEnds
    <2>4. CASE imp' = [imp EXCEPT ![i].lost = TRUE] /\ cur' = cur
      <3>1. OnlyImport(i) /\ imp'[i] = [m EXCEPT !.lost = TRUE]
        BY <2>4 DEF OnlyImport, CrawlInv, ImportsSound
      <3>2. /\ imp'[i].pc = m.pc /\ imp'[i].kind = m.kind /\ imp'[i].anchor = m.anchor /\ imp'[i].todo = m.todo
        BY <1>1, <3>1 DEF ImportSound, ImportFields
      <3>3. Imports(i, imp'[i], cur, ledger.rows)
        BY <1>1, <3>2 DEF Imports, Loads, Loading
      <3> QED BY <2>4, <3>1, <3>3
    <2>5. CASE imp' = imp /\ cur' = Renew(cur)
      <3>1. OnlyImport(i)
        BY <2>5 DEF OnlyImport, CrawlInv, ImportsSound
      <3>2. cur'.owner = cur.owner /\ cur'.set = cur.set /\ cur'.anchor = cur.anchor
        BY <1>1, <2>5 DEF Renew, CursorSound, CursorFields
      <3> QED BY <1>1, <2>5, <3>1, <3>2 DEF Imports, Loads
    <2> QED BY <2>1, <2>2, <2>3, <2>4, <2>5 DEF ImportFails, MarkInvalid, ImportRelease, ImportHeartbeat
  <1> QED BY <1>1, <1>2, <1>4, <1>6, CallPasses
--------------------------------------------------------------------------------
(* The set: the theorem.                                                         *)

\* No set at the start,
LEMMA SetStart == ImportInit => SetInv
  <1> SUFFICES ASSUME ImportInit PROVE SetInv
    OBVIOUS
  <1>1. /\ cur = NewCursor /\ ledger = NoLedger /\ inst = [i \in Instances |-> NoCrawler]
        /\ imp = [i \in Instances |-> NoImport]
    BY DEF ImportInit, Init
  <1>2. cur.set = "none" /\ cur.applied = NoSlot
    BY <1>1 DEF NewCursor
  <1>3. SetFits(cur, ledger, stored, excuses)
    BY <1>1, <1>2, NoLedgerFits DEF SetFits
  <1>4. \A i \in Instances : HasSet(inst[i], cur) /\ Applies(inst[i], cur, excuses, config.utxo[i])
    BY <1>1, GoneKnows
  <1>5. \A i \in Instances : Imports(i, imp[i], cur, ledger.rows)
    <2>1. \A i \in Instances : imp[i] = NoImport
      BY <1>1
    <2>2. NoImport.kind # "rebuild"
      BY DEF NoImport
    <2> QED BY <2>1, <2>2, CallEnds
  <1> QED BY <1>1, <1>2, <1>3, <1>4, <1>5, NoLedgerFits DEF SetInv

\* and every step keeps it: those of the crawler,
LEMMA CrawlerKeepsSet ==
  ASSUME CrawlInv, SetInv, CrawlerStep, imp' = imp
  PROVE SetInv'
  <1>1. ASSUME NEW i \in Instances, Pipeline(i) PROVE SetInv'
    <2>1. CASE OpenSource(i) \/ RunChainSync(i) \/ RollForward(i) \/ RollBackward(i) \/ Rewind(i) \/ Handover(i)
      BY <2>1, OpenSourceSet, RunChainSyncSet, StreamSet, RewindSet
    <2>2. CASE Paginate(i) \/ TryReorgRecovery(i) \/ Fenced(i) \/ HandleReorg(i)
      BY <2>2, PaginateSet, TryReorgRecoverySet, TroublesSet, HandleReorgSet
    <2>3. CASE Persist(i) \/ PersistFails(i) \/ LatePersist(i)
      BY <2>3, PersistSet, PersistFailsSet, LatePersistSet
    <2> QED BY <1>1, <2>1, <2>2, <2>3 DEF Pipeline
  <1>2. ASSUME NEW i \in Instances, LifeCycle(i) PROVE SetInv'
    BY <1>2, StartAttemptSet, StartLeaseSet, StartAnchorSet, ApplyStopSet, TroublesSet, ReleaseSet,
       HeartbeatSet DEF LifeCycle
  <1>3. ASSUME NEW i \in Instances, Troubles(i) \/ SnapshotEpoch(i) PROVE SetInv'
    BY <1>3, StreamClosedSet, TroublesSet, SnapshotEpochSet DEF Troubles
  <1>4. CASE (\E i \in Instances : Operator(i)) \/ Mint \/ Fork \/ LeaseExpires
    BY <1>4, OutsideSet
  <1> QED BY <1>1, <1>2, <1>3, <1>4 DEF CrawlerStep

\* those of imports, and a crash.
LEMMA SetKeeps ==
  ASSUME CrawlInv, SetInv, [Next]_allVars
  PROVE SetInv'
  <1>1. CASE CrawlerStep /\ imp' = imp
    BY <1>1, CrawlerKeepsSet
  <1>2. ASSUME NEW i \in Instances, ImportStep(i) PROVE SetInv'
    BY <1>2, RequestImportSet, ImportLeaseSet, ImportBeginSet, ImportFlushSet, ImportActivateSet,
       ImportEndsSet DEF ImportStep
  <1>3. ASSUME NEW i \in Instances, Crash(i), imp' = [imp EXCEPT ![i] = NoImport] PROVE SetInv'
    BY <1>3, CrashSet
  <1>4. CASE UNCHANGED allVars
    <2>1. UNCHANGED <<cur, inst, ledger, stored, config, excuses, imp>>
      BY <1>4 DEF allVars, vars
    <2>2. SameSet(cur, cur')
      BY <2>1, QuietSelf DEF SameSet, CrawlInv
    <2> QED BY <2>1, <2>2, RowAside
  <1> QED BY <1>1, <1>2, <1>3, <1>4 DEF Next

\* A set that fits and that start() trusts is right.
LEMMA FittingSetIsRight ==
  ASSUME CrawlInv, SetInv
  PROVE TrustedSetIsRight
  <1> SUFFICES ASSUME excuses \ {"rewind", "uninit"} = {}, cur.set = "active", ~StaleSet(cur)
               PROVE Describes(ledger, SetBlock) /\ SumsMatchRows(ledger)
    BY DEF TrustedSetIsRight
  <1>1. Trusting(excuses) /\ "partial" \notin excuses
    BY DEF Trusting, Kept
  <1>2. SetFits(cur, ledger, stored, excuses) /\ CursorSound(cur)
    BY DEF SetInv, CrawlInv
  <1>3. SumsMatchRows(ledger)
    BY <1>1, <1>2 DEF SetFits, SumsFit
  <1>4. cur.at \in Blocks /\ cur.anchor \in Blocks /\ Slot(cur.at) \in Nat /\ Slot(cur.anchor) \in Nat
    BY <1>2, BlockIsSeq, CrawlerAssumption DEF CursorSound
  <1>5. CASE cur.applied = NoSlot
    <2>1. RowsAre(ledger.rows, cur.anchor, cur.anchor)
      BY <1>1, <1>2, <1>4, <1>5, CompleteIs DEF SetFits
    <2>2. SetBlock = cur.anchor
      BY <1>4, <1>5 DEF StaleSet, SetBlock
    <2> QED BY <1>3, <1>4, <2>1, <2>2, OpenIsUnspent, AncestorOrder DEF Describes
  <1>6. CASE cur.applied # NoSlot
    <2>1. Carried(cur, ledger.rows, stored)
      BY <1>1, <1>2, <1>6 DEF SetFits
    <2>2. cur.applied = Slot(cur.at)
      BY <1>4, <1>6, <2>1 DEF StaleSet, Carried
    <2>3. IsAncestor(cur.anchor, cur.at) /\ RowsAre(ledger.rows, cur.anchor, cur.at)
      BY <1>4, <2>1, <2>2, AncestorSelf DEF Carried
    <2>4. SetBlock = cur.at
      BY <1>4, <2>3, AncestorOrder DEF SetBlock
    <2> QED BY <1>3, <1>4, <2>3, <2>4, OpenIsUnspent DEF Describes
  <1> QED BY <1>5, <1>6

\* An active set that start() would trust holds exactly the outputs unspent at the block it stands
\* at, and its sums are those of its rows, whatever imports, rebuilds, applied and undone blocks
\* came before, by whatever processes; with the exceptions TrustedSetIsRight names.
THEOREM TrustedSetsAreRight == Spec => []TrustedSetIsRight
  <1>1. ImportInit => SetInv
    BY SetStart
  <1>2. CrawlInv /\ SetInv /\ [Next]_allVars => SetInv'
    BY SetKeeps
  <1>3. CrawlInv /\ SetInv => TrustedSetIsRight
    BY FittingSetIsRight
  <1> QED BY <1>1, <1>2, <1>3, CrawlerStaysInStep, PTL DEF Spec

================================================================================
