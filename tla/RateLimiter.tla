------------------------------ MODULE RateLimiter ------------------------------
(* The in-memory sliding-window limiter (utils/rate-limiter.ts) as operators on   *)
(* its state: the tracked keys from the least to the most recently used, the      *)
(* hits of each key that are still inside the window, and the number of tracked   *)
(* keys per group. A key is <<principal, scope>>, its group the principal. The    *)
(* clock is abstracted: hits leave the window one at a time, at any moment.       *)
EXTENDS Integers, Sequences, SequencesExt, FiniteSetsExt

CONSTANTS MaxKeys,            \* maxKeys
          MaxKeysPerGroup     \* maxKeysPerGroup

ASSUME RateAssumption == MaxKeys \in Nat \ {0} /\ MaxKeysPerGroup \in Nat \ {0}

GroupOf(key) == key[1]
EmptyLimiter == [order |-> << >>, hits |-> << >>, groups |-> << >>]

Tracked(l) == ToSet(l.order)
HitsOf(l, key) == IF key \in DOMAIN l.hits THEN l.hits[key] ELSE 0
GroupCount(l, g) == IF g \in DOMAIN l.groups THEN l.groups[g] ELSE 0
Bind(f, x, v) == [y \in DOMAIN f \union {x} |-> IF y = x THEN v ELSE f[y]]
Unbind(f, x) == [y \in DOMAIN f \ {x} |-> f[y]]

DropKey(l, key) ==
  LET g == GroupOf(key)
  IN [order |-> RemoveFirst(l.order, key), hits |-> Unbind(l.hits, key),
      groups |-> IF GroupCount(l, g) <= 1 THEN Unbind(l.groups, g)
                 ELSE Bind(l.groups, g, GroupCount(l, g) - 1)]

(* peek: would one more hit fit? *)
(* Variant: one hit more. *)
FitsOneMore(l, key, max) == HitsOf(l, key) <= max
Fits(l, key, max) == HitsOf(l, key) < max

(* checkMany for one slot: the answer, and the state it leaves.                   *)
TooManyKeys(l, key) == key \notin Tracked(l) /\ GroupCount(l, GroupOf(key)) >= MaxKeysPerGroup
CheckAllows(l, key, max) == ~TooManyKeys(l, key) /\ Fits(l, key, max)
Touched(l, key) ==
  LET evicted == IF Len(l.order) >= MaxKeys THEN DropKey(l, Head(l.order)) ELSE l
      added == [evicted EXCEPT !.groups = Bind(@, GroupOf(key), GroupCount(evicted, GroupOf(key)) + 1)]
      base == IF key \in Tracked(l) THEN l ELSE added
  IN [base EXCEPT !.order = Append(RemoveFirst(@, key), key), !.hits = Bind(@, key, HitsOf(base, key))]
Checked(l, key, max) ==
  IF TooManyKeys(l, key) THEN l
  ELSE IF Fits(l, key, max) THEN [Touched(l, key) EXCEPT !.hits[key] = @ + 1]
  ELSE Touched(l, key)

(* A hit leaves the window; the sweep drops the keys without any.                 *)
Aged(l, key) == [l EXCEPT !.hits[key] = @ - 1]
Idle(l) == {key \in Tracked(l) : l.hits[key] = 0}
Swept(l) == FoldSet(LAMBDA key, m : DropKey(m, key), l, Idle(l))

Consistent(l) ==
  /\ Len(l.order) = Cardinality(Tracked(l)) /\ DOMAIN l.hits = Tracked(l)
  /\ Len(l.order) <= MaxKeys /\ DOMAIN l.groups = {GroupOf(k) : k \in Tracked(l)}
  /\ \A k \in Tracked(l) : GroupCount(l, GroupOf(k)) =
                             Cardinality({m \in Tracked(l) : GroupOf(m) = GroupOf(k)})
================================================================================
