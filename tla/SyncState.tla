------------------------------- MODULE SyncState -------------------------------
(* The one row of CardanoSyncState: the crawler's cursor, its lease, the pause  *)
(* intent of the cluster, the error streak and the state of the imported UTxO   *)
(* set. Every operator is what one function of crawler/sync-state.ts reads of   *)
(* the row or leaves in it; the functions run inside a database transaction of  *)
(* their caller, so a step of the callers applies them atomically.              *)
(*                                                                              *)
(* A block is the sequence of branch marks from the configured start block,     *)
(* which is << >>: a prefix is an ancestor, and the length stands for height    *)
(* and for slot. The clock is abstracted to "live": a lease may run out at any  *)
(* moment.                                                                      *)
EXTENDS Integers, Sequences

CONSTANTS NoOwner,        \* leaseOwner = null
          DeadOwner,      \* the id of a crawler object that is gone
          MaxErrors       \* MAX_CONSECUTIVE_ERRORS

ASSUME ErrorsAssumption == MaxErrors \in Nat \ {0}

Start == << >>            \* the configured start block
NoSlot == -1              \* utxoAppliedSlot = null
Slot(b) == Len(b)

Branches == {0, 1}
BlocksUpTo(n) == UNION {[1..k -> Branches] : k \in 0..n}
IsAncestor(a, b) == Len(a) <= Len(b) /\ SubSeq(b, 1, Len(a)) = a
Ancestor(b, n) == SubSeq(b, 1, n)


(* ensureSyncStateSingleton on a fresh database. *)
NewCursor == [at |-> Start, status |-> "stopped", errs |-> 0, desired |-> TRUE,
              owner |-> NoOwner, live |-> FALSE,
              set |-> "none", anchor |-> Start, applied |-> NoSlot]

(* Variant: the lease of a dead owner is never taken over. *)
FreeIgnoresExpiry(c, o) == c.owner \in {NoOwner, o}
Free(c, o) == c.owner \in {NoOwner, o} \/ ~c.live

CanAcquire(c, o) == c.desired /\ Free(c, o)
TakeLease(c, o) == [c EXCEPT !.owner = o, !.live = TRUE]

(* The row renewCrawlerLease and advanceCursor update: an expired lease that     *)
(* nobody took is renewed too.                                                   *)
(* Variant: only the intent is checked. *)
HoldsWithoutOwner(c, o) == c.desired
Holds(c, o) == c.owner = o /\ c.desired
Renew(c) == [c EXCEPT !.live = TRUE]

IsCrawlerLeaseActive(c) == c.desired /\ c.owner # NoOwner /\ c.live

ReleaseLease(c, o, status, pause) ==
  IF c.owner = o
  THEN [c EXCEPT !.owner = NoOwner, !.live = FALSE, !.status = status,
                 !.desired = @ /\ ~pause]
  ELSE c

SetDesiredRunning(c, d) ==
  IF d THEN [c EXCEPT !.desired = TRUE, !.errs = 0]
       ELSE [c EXCEPT !.desired = FALSE, !.status = "stopped"]

(* Not tied to the lease: the verdict about a block holds for every instance.    *)
LatchPoisonBlock(c) == [c EXCEPT !.desired = FALSE, !.status = "error"]

AdvanceCursor(c, b, status, applied) ==
  [Renew(c) EXCEPT !.at = b, !.status = status, !.errs = 0, !.applied = applied]

Streak(c) == IF c.errs < MaxErrors THEN c.errs + 1 ELSE MaxErrors
RecordError(c) ==
  [Renew(c) EXCEPT !.errs = Streak(c),
                   !.status = IF Streak(c) >= MaxErrors THEN "error" ELSE "syncing"]

ResetCursorTo(c, b) == [c EXCEPT !.at = b]
SetSyncStatus(c, status) == [c EXCEPT !.status = status]

(* The import lease uses the same columns and ignores the pause intent.          *)
CanAcquireImport(c, o) == Free(c, o)
HoldsImport(c, o) == c.owner = o
ReleaseImport(c, o) == IF c.owner = o THEN [c EXCEPT !.owner = NoOwner, !.live = FALSE] ELSE c
================================================================================
