------------------------------ MODULE GrantProofs ------------------------------
(***************************************************************************)
(* Proofs about agent grants, for every number of processes, requests,     *)
(* days, edits and scenarios.                                              *)
(*                                                                         *)
(* The budget. BudgetHolds speaks of calls admitted, the code of a counter *)
(* that two UPDATEs move.  Charges closes the gap: a day has been charged  *)
(* for the calls it admitted and for the requests that hold a unit and are *)
(* not yet answered; the row counts the charges of its window, and no day  *)
(* after that window has any.  The window never goes back because a        *)
(* request carries a row whose window is not after the day it charges      *)
(* (Plans), and a unit fits below the ceiling because every row anybody    *)
(* looks at has a maximum within it (Offers).                              *)
(*                                                                         *)
(* The caches. LocalEditSeen speaks of the entries of a cache.  Cached     *)
(* says which entry may be there, the one tokenHashOfGrant names, and that *)
(* a lookup of the present generation will add no older one.  A rotation   *)
(* outside a transaction is the delicate case: between its UPDATE and its  *)
(* invalidation the entry holds the token before, and nobody can present   *)
(* the new one, because it is not yet answered (Rotations).                *)
(*                                                                         *)
(* The usage counters. UsageAddsUp is a balance over four places; it is    *)
(* inductive with the types of what is added up (UsageTyped), of which one *)
(* part matters: the delta a flush writes is not among those it has still  *)
(* to write.  The sums are folds over sets; what is needed of them is      *)
(* proved first, for the terms given by a function (SumOf).                *)
(*                                                                         *)
(* The limiters. A limiter is a list of keys, a function of hits and one   *)
(* of group counts that must agree (Limited), which every operation keeps, *)
(* the sweep's fold included.  What a client has learned is bounded by     *)
(* what its key still counts, because without an eviction no key with hits *)
(* is dropped: an untracked client finds room among MaxKeys keys.          *)
(***************************************************************************)
EXTENDS AgentGrants, FiniteSetTheorems, SequenceTheorems, NaturalsInduction, WellFoundedInduction, TLAPS

--------------------------------------------------------------------------------
\* The fields of the records the proofs look into.
HistFields == {"charged", "admitted", "recorded", "lost", "ceiling", "early",
               "seen", "moved", "known", "detail"}
ProcFields == {"lane", "cache", "hashOf", "gen", "buf", "armed", "fails", "admin"}
ReqFields == {"pc", "p", "client", "hash", "gen", "grant", "call", "parts", "today", "charged", "usageDay"}
EditFields == {"pc", "tx", "kind", "patch"}

\* Where a request that has a row of the grant may be.
Paying == {"record", "update", "insert", "again", "handler", "refund"}
Consuming == {"reset", "increment"}
Granted == Paying \union Consuming \union {"enforce", "changeset", "refundUsage"}
Looking == {"select", "selected"}
Places == Granted \union Looking \union {"idle", "fail"}

\* What the grant's row, the history and the scenario may hold.
RowTyped ==
  /\ DOMAIN row = RowFields
  /\ row.win \in Days \union {NoDay} /\ row.used \in Int /\ row.ver \in Nat
  /\ row.hash \in Nat \union {NoHash} /\ row.max \in Int \union {NoMax}
HistTyped ==
  /\ DOMAIN hist = HistFields
  /\ hist.charged \in [Days -> Int] /\ hist.admitted \in [Days -> Nat]
  /\ hist.ceiling \in Int \union {NoMax}
  /\ hist.seen \in [Procs -> Nat] /\ hist.moved \in [Procs -> BOOLEAN] /\ hist.known \in Nat
SceneTyped == scene \in Scenarios /\ day \in Days

\* What the memory of the processes, their requests and their edits may hold.
ProcTyped ==
  /\ DOMAIN proc = Procs
  /\ \A p \in Procs : DOMAIN proc[p] = ProcFields /\ proc[p].gen \in Nat
ReqTyped ==
  /\ DOMAIN reqs = Requests
  /\ \A r \in Requests :
       /\ DOMAIN reqs[r] = ReqFields /\ reqs[r].pc \in Places
       /\ reqs[r].pc # "idle" => reqs[r].p \in Procs
       /\ reqs[r].today \in Days \union {NoDay}
       /\ reqs[r].pc \in Looking => reqs[r].gen \in Nat
EditTyped ==
  /\ DOMAIN edits = Procs
  /\ \A p \in Procs :
       /\ DOMAIN edits[p] = EditFields
       /\ edits[p].pc \in {"write", "commit"} => edits[p].kind \in {"revoke", "rotate", "update"}
       /\ edits[p].pc = "invalidate" => edits[p].kind \in {"revoke", "rotate", "update", "none"}
       /\ edits[p].pc # "idle" /\ edits[p].kind = "update" =>
            /\ DOMAIN edits[p].patch \subseteq Editable
            /\ "max" \in DOMAIN edits[p].patch => edits[p].patch.max \in (Nat \ {0}) \union {NoMax}

Typed == RowTyped /\ HistTyped /\ SceneTyped /\ ProcTyped /\ ReqTyped /\ EditTyped

\* Before the grant is issued nothing has happened.
Unissued ==
  row.hash = NoHash =>
    /\ ~row.active /\ row.win = NoDay /\ row.ver = 0
    /\ hist.ceiling = scene.row.max /\ hist.known = 0
    /\ \A r \in Requests : reqs[r].pc = "idle"
    /\ \A p \in Procs : edits[p].pc = "idle" /\ hist.seen[p] = 0

\* A version of the grant: its budget is at least one and within the ceiling, its
\* window has begun.
Offer(g) ==
  /\ g.max # NoMax => g.max \in Nat \ {0} /\ (hist.ceiling # NoMax => g.max <= hist.ceiling)
  /\ g.win # NoDay => g.win \in Days /\ g.win <= day

\* Every row anybody looks at is such a version.
Offers ==
  /\ row.hash # NoHash => Offer(row)
  /\ \A p \in Procs : \A h \in DOMAIN proc[p].cache : Offer(proc[p].cache[h])
  /\ \A r \in Requests :
       reqs[r].pc \in Granted \/ (reqs[r].pc = "selected" /\ reqs[r].grant # << >>) => Offer(reqs[r].grant)

\* A request about to charge a day has a row whose window is not a later one; only a
\* request that charged asks for a refund.
Budgeted(q) == q.pc \in Consuming \/ (q.pc = "changeset" /\ q.today # NoDay)
Plans ==
  \A r \in Requests :
    /\ Budgeted(reqs[r]) =>
         /\ reqs[r].today \in Days /\ reqs[r].today <= day /\ reqs[r].grant.max # NoMax
         /\ reqs[r].grant.win # NoDay => reqs[r].grant.win <= reqs[r].today
    /\ reqs[r].charged => reqs[r].pc \in Paying \union {"refundUsage"} /\ reqs[r].today \in Days
    /\ reqs[r].pc = "refund" => reqs[r].charged

\* The requests that hold a unit of a day and have not been answered.
Using(d) == {r \in Requests : reqs[r].charged /\ reqs[r].today = d /\ reqs[r].pc \in Paying}

\* The units of a day: admitted or still held, counted in the row while its window is
\* that day, none for a day after the window, and never above the ceiling.
Charges ==
  /\ \A d \in Days : hist.admitted[d] + Cardinality(Using(d)) <= hist.charged[d]
  /\ \A d \in Days : hist.charged[d] # 0 => row.win # NoDay /\ d <= row.win
  /\ row.win # NoDay => row.used = hist.charged[row.win]
  /\ hist.ceiling # NoMax => \A d \in Days : hist.charged[d] <= hist.ceiling

BudgetInv == Typed /\ Unissued /\ Offers /\ Plans /\ Charges

--------------------------------------------------------------------------------
\* A rotation outside a transaction that is written and has not dropped its entry:
\* the token anybody can present is still the one before.
Rotating(p) == edits[p].pc = "invalidate" /\ edits[p].kind = "rotate" /\ ~edits[p].tx
LiveHash(p) == IF Rotating(p) THEN row.hash - 1 ELSE row.hash

\* A lookup of the process p that will store its row in the cache.
Fresh(r, p) ==
  /\ reqs[r].pc = "selected" /\ reqs[r].p = p
  /\ reqs[r].gen = proc[p].gen /\ reqs[r].grant # << >>

Current(p, g) == g.ver >= hist.seen[p] /\ g.hash = LiveHash(p)

\* Numbers of versions, tokens and lookups.
Numbers ==
  /\ \A p \in Procs : hist.seen[p] <= row.ver
  /\ row.hash # NoHash => hist.known <= row.hash
  /\ \A r \in Requests : reqs[r].pc \in Looking =>
       /\ reqs[r].gen <= proc[reqs[r].p].gen
       /\ reqs[r].pc = "select" => reqs[r].hash \in Int /\ reqs[r].hash <= hist.known
       /\ reqs[r].pc = "selected" /\ reqs[r].grant # << >> => reqs[r].grant.hash \in Nat

\* A rotation is seen as such by every other process; unless it was made by another
\* process, its token is not out before its entry is dropped.
Rotations ==
  \A p \in Procs : Rotating(p) =>
    /\ \A q \in Procs \ {p} : hist.moved[q]
    /\ hist.moved[p] \/ row.hash > hist.known

\* The cache of a process has at most the entry that the next edit will drop, which
\* is as recent as the last edit; a lookup that may add one is, too. None is there
\* while a transaction of the process is about to commit.
Cached ==
  \A p \in Procs :
    /\ \A h \in DOMAIN proc[p].cache : h \in Nat
    /\ ~hist.early /\ ~hist.moved[p] =>
         /\ \A h \in DOMAIN proc[p].cache : h = proc[p].hashOf /\ h = LiveHash(p) /\ Current(p, proc[p].cache[h])
         /\ \A r \in Requests : Fresh(r, p) => Current(p, reqs[r].grant)
         /\ edits[p].pc = "commit" => /\ DOMAIN proc[p].cache = {}
                                      /\ \A r \in Requests : ~Fresh(r, p)

SeenInv == Typed /\ Unissued /\ Numbers /\ Rotations /\ Cached

GrantInv == BudgetInv /\ SeenInv

--------------------------------------------------------------------------------
(***************************************************************************)
(* What the actions do to the parts the invariants look at.                *)
(***************************************************************************)

\* What of the history the invariants look at is untouched.
SameHist ==
  /\ DOMAIN hist' = HistFields
  /\ hist'.charged = hist.charged /\ hist'.admitted = hist.admitted /\ hist'.ceiling = hist.ceiling
  /\ hist'.early = hist.early /\ hist'.seen = hist.seen /\ hist'.moved = hist.moved /\ hist'.known = hist.known

\* The caches are untouched, whatever else a process writes into its memory.
SameCaches ==
  /\ DOMAIN proc' = Procs
  /\ \A p \in Procs :
       /\ DOMAIN proc'[p] = ProcFields
       /\ proc'[p].cache = proc[p].cache /\ proc'[p].hashOf = proc[p].hashOf /\ proc'[p].gen = proc[p].gen

\* The request r alone moves: it ends, goes on with its next part, or goes to x.
Moves(r) ==
  /\ DOMAIN reqs' = Requests /\ DOMAIN reqs'[r] = ReqFields
  /\ \A s \in Requests : s # r => reqs'[s] = reqs[s]
Ends(r) == Moves(r) /\ reqs'[r].pc = "idle" /\ reqs'[r].charged = FALSE /\ reqs'[r].today = NoDay
Again(r) ==
  /\ Moves(r) /\ reqs'[r].pc = "enforce" /\ reqs'[r].charged = FALSE /\ reqs'[r].today = NoDay
  /\ reqs'[r].p = reqs[r].p /\ reqs'[r].grant = reqs[r].grant
Goes(r, x) ==
  /\ Moves(r) /\ reqs'[r].pc = x /\ reqs'[r].charged = reqs[r].charged /\ reqs'[r].today = reqs[r].today
  /\ reqs'[r].p = reqs[r].p /\ reqs'[r].grant = reqs[r].grant

\* Nothing but the memory beside the caches and the requests changes.
Calm == row' = row /\ day' = day /\ scene' = scene /\ edits' = edits /\ SameHist /\ SameCaches

\* What a request does in a calm step.
Settles(r) ==
  \/ Ends(r)
  \/ reqs[r].pc \in Granted /\ Again(r)
  \/ reqs[r].pc \in Paying /\ \E x \in Paying \union {"refundUsage"} :
       Goes(r, x) /\ (x = "refund" => reqs[r].charged)

\* A request that ends leaves a free slot.
LEMMA EndFacts ==
  ASSUME ReqTyped, NEW r \in Requests, End(r)
  PROVE  Ends(r)
<1>1. DOMAIN NoRequest = ReqFields /\ NoRequest.pc = "idle" /\ NoRequest.charged = FALSE /\ NoRequest.today = NoDay
  BY DEF NoRequest, ReqFields
<1>2. reqs' = [reqs EXCEPT ![r] = NoRequest] BY DEF End
<1> HIDE DEF NoRequest
<1> QED BY <1>1, <1>2 DEF Ends, Moves, ReqTyped

\* A part of a batch that is done makes way for the next one, or ends the request.
LEMMA NextPartFacts ==
  ASSUME ReqTyped, NEW r \in Requests, reqs' = NextPart(r)
  PROVE  Ends(r) \/ Again(r)
<1>1. CASE reqs[r].parts > 1
  <2>1. reqs' = [reqs EXCEPT ![r].pc = "enforce", ![r].parts = @ - 1, ![r].charged = FALSE, ![r].today = NoDay]
    BY <1>1 DEF NextPart
  <2> QED BY <2>1 DEF Again, Moves, ReqTyped, ReqFields
<1>2. CASE ~(reqs[r].parts > 1)
  <2>1. End(r) BY <1>2 DEF NextPart, End
  <2> QED BY <2>1, EndFacts
<1> QED BY <1>1, <1>2

\* A request that goes on keeps what it carries.
LEMMA GotoFacts ==
  ASSUME ReqTyped, NEW r \in Requests, NEW x, ReqGoto(r, x)
  PROVE  Goes(r, x)
BY DEF ReqGoto, Goes, Moves, ReqTyped, ReqFields

\* A failed attempt ends the request and touches the limiter of its process only.
LEMMA FailFacts ==
  ASSUME Typed, NEW r \in Requests, reqs[r].pc # "idle", Fail(r, proc, hist)
  PROVE  Ends(r) /\ SameHist /\ SameCaches
<1> DEFINE c == reqs[r].client
           p == reqs[r].p
<1>1. PICK f : proc' = [proc EXCEPT ![p].fails = f]
  BY DEF Fail
<1>2. PICK d : hist' = [hist EXCEPT !.detail = d]
  BY DEF Fail
<1>3. Ends(r) BY EndFacts DEF Fail, Typed
<1>4. SameHist BY <1>2 DEF SameHist, Typed, HistTyped, HistFields
<1>5. SameCaches
  BY <1>1 DEF SameCaches, Typed, ProcTyped, ProcFields
<1> QED BY <1>3, <1>4, <1>5

\* What a process buffers leaves its caches alone.
LEMMA BufferFacts ==
  ASSUME Typed, NEW p \in Procs, NEW d, NEW delta, proc' = [proc EXCEPT ![p] = Buffered(@, d, delta)]
  PROVE  SameCaches
<1> DEFINE m == Buffered(proc[p], d, delta)
<1>1. /\ DOMAIN m = DOMAIN proc[p]
      /\ "cache" \in DOMAIN proc[p] => m.cache = proc[p].cache
      /\ "hashOf" \in DOMAIN proc[p] => m.hashOf = proc[p].hashOf
      /\ "gen" \in DOMAIN proc[p] => m.gen = proc[p].gen
  BY DEF Buffered
<1>2. proc' = [proc EXCEPT ![p] = m] OBVIOUS
<1> HIDE DEF m
<1> QED BY <1>1, <1>2 DEF SameCaches, Typed, ProcTyped, ProcFields

\* The steps of the usage counters, the limiter and the activation are calm and
\* move no request.
LEMMA MemoryFacts ==
  ASSUME Typed, NEW p \in Procs,
         \/ Activate(p) \/ FlushTimer(p) \/ GetGrantUsage(p) \/ Shutdown(p) \/ FlushStep(p) \/ Sweep(p)
         \/ \E c \in Clients : AgeFailure(p, c)
  PROVE  Calm /\ reqs' = reqs
<1>0. /\ UNCHANGED hist => SameHist
      /\ UNCHANGED proc => SameCaches
  BY DEF SameHist, SameCaches, Typed, HistTyped, ProcTyped
<1>1. CASE Activate(p)
  <2>1. PICK l : proc' = [proc EXCEPT ![p].lane = l] BY <1>1 DEF Activate
  <2>2. SameCaches BY <2>1 DEF SameCaches, Typed, ProcTyped, ProcFields
  <2> QED BY <1>1, <1>0, <2>2 DEF Activate, Calm
<1>2. CASE FlushTimer(p) \/ GetGrantUsage(p) \/ Shutdown(p)
  <2>1. CASE \E a : Flush(p, a)
    <3>1. PICK a : Flush(p, a) BY <2>1
    <3>2. PICK b : proc' = [proc EXCEPT ![p].armed = a, ![p].buf = b] BY <3>1 DEF Flush
    <3>3. SameCaches BY <3>2 DEF SameCaches, Typed, ProcTyped, ProcFields
    <3> QED BY <1>0, <3>1, <3>3 DEF Flush, Calm
  <2>2. CASE FlushTimer(p) /\ proc' = [proc EXCEPT ![p].armed = FALSE]
    <3>1. SameCaches BY <2>2 DEF SameCaches, Typed, ProcTyped, ProcFields
    <3> QED BY <1>0, <2>2, <3>1 DEF FlushTimer, Flush, Calm
  <2> QED BY <1>2, <2>1, <2>2 DEF FlushTimer, GetGrantUsage, Shutdown
<1>3. CASE \E f \in Flushers : FlushNext(p, f)
  BY <1>3, <1>0 DEF FlushNext, Calm
<1>4. CASE \E f \in Flushers : FlushStatement(p, f)
  <2>0. PICK f \in Flushers : FlushStatement(p, f) BY <1>4
  <2>1. SameCaches
    <3>1. CASE UNCHANGED proc BY <3>1, <1>0
    <3>2. CASE proc' = [proc EXCEPT ![p] = Buffered(@, flushes[p][f].day, flushes[p][f].delta)]
      BY <3>2, BufferFacts
    <3> QED BY <2>0, <3>1, <3>2 DEF FlushStatement
  <2> QED BY <2>0, <1>0, <2>1 DEF FlushStatement, Calm
<1>5. CASE Sweep(p)
  <2>1. PICK l : proc' = [proc EXCEPT ![p].fails = l] BY <1>5 DEF Sweep
  <2>2. SameCaches BY <2>1 DEF SameCaches, Typed, ProcTyped, ProcFields
  <2> QED BY <1>5, <1>0, <2>2 DEF Sweep, Calm
<1>6. CASE \E c \in Clients : AgeFailure(p, c)
  <2>1. PICK c \in Clients : AgeFailure(p, c) BY <1>6
  <2>2. PICK l : proc' = [proc EXCEPT ![p].fails = l] BY <2>1 DEF AgeFailure
  <2>3. SameCaches BY <2>2 DEF SameCaches, Typed, ProcTyped, ProcFields
  <2>4. PICK d : hist' = [hist EXCEPT !.detail = d] BY <2>1 DEF AgeFailure
  <2>5. SameHist BY <2>4 DEF SameHist, Typed, HistTyped, HistFields
  <2> QED BY <2>1, <2>3, <2>5 DEF AgeFailure, Calm
<1> QED BY <1>1, <1>2, <1>3, <1>4, <1>5, <1>6 DEF FlushStep

\* A refused lookup, the recording of a call, the end of a call without charge, and a
\* refund the database refused are calm steps of their request.
LEMMA CalmFacts ==
  ASSUME Typed, Plans, NEW r \in Requests,
         \/ FailCached(r) \/ RecordDeferred(r) \/ RecordSync(r) \/ RecordStatement(r) \/ RefundGrantUsage(r)
  PROVE  Calm /\ Settles(r)
<1>0. /\ UNCHANGED hist => SameHist
      /\ UNCHANGED proc => SameCaches
      /\ \A n : hist' = [hist EXCEPT !.recorded = n] \/ hist' = [hist EXCEPT !.lost = n] => SameHist
      /\ ReqTyped
  BY DEF SameHist, SameCaches, Typed, HistTyped, ProcTyped, HistFields
<1>1. CASE FailCached(r)
  BY <1>1, FailFacts DEF FailCached, Calm, Settles
<1>2. CASE RecordDeferred(r)
  <2>1. reqs[r].p \in Procs BY <1>2 DEF RecordDeferred, Typed, ReqTyped
  <2>2. SameCaches BY <1>2, <2>1, BufferFacts DEF RecordDeferred
  <2>3. Goes(r, "handler")
    BY <1>2, <1>0 DEF RecordDeferred, Goes, Moves, ReqTyped, ReqFields
  <2>4. Settles(r) BY <1>2, <2>3 DEF RecordDeferred, Settles, Paying
  <2> QED BY <1>0, <1>2, <2>2, <2>4 DEF RecordDeferred, Calm
<1>3. CASE RecordSync(r)
  <2>3. Goes(r, "update")
    BY <1>3, <1>0 DEF RecordSync, Goes, Moves, ReqTyped, ReqFields
  <2>4. Settles(r) BY <1>3, <2>3 DEF RecordSync, Settles, Paying
  <2> QED BY <1>0, <1>3, <2>4 DEF RecordSync, Calm
<1>4. CASE RecordStatement(r)
  <2>1. PICK o \in UpsertOutcomes(reqs[r].pc, reqs[r].usageDay, One) :
          /\ ReqGoto(r, IF o.pc \in {"done", "failed"} THEN "handler" ELSE o.pc)
          /\ hist' = IF o.pc = "failed" THEN [hist EXCEPT !.lost = @ + 1] ELSE hist
    BY <1>4 DEF RecordStatement
  <2>2. o.pc \in {"done", "insert", "again", "failed"}
    BY <1>4 DEF RecordStatement, UpsertOutcomes, StillMissing
  <2>3. Settles(r) BY <1>4, <1>0, <2>1, <2>2, GotoFacts DEF RecordStatement, Settles, Paying
  <2>4. SameHist BY <2>1, <1>0
  <2> QED BY <1>0, <1>4, <2>3, <2>4 DEF RecordStatement, Calm
<1>5. CASE RefundGrantUsage(r)
  <2>1. Ends(r) \/ Again(r) BY <1>5, <1>0, NextPartFacts DEF RefundGrantUsage
  <2>2. Settles(r) BY <2>1, <1>5 DEF Settles, RefundGrantUsage, Granted
  <2>3. reqs[r].p \in Procs BY <1>5 DEF RefundGrantUsage, Typed, ReqTyped
  <2>4. SameCaches BY <1>5, <1>0, <2>3, BufferFacts DEF RefundGrantUsage
  <2> QED BY <1>0, <1>5, <2>2, <2>4 DEF RefundGrantUsage, Calm
<1> QED BY <1>1, <1>2, <1>3, <1>4, <1>5

\* Requests are finitely many, so the units they hold can be counted.
LEMMA UsingIsFinite ==
  ASSUME NEW d
  PROVE  IsFiniteSet(Using(d)) /\ Cardinality(Using(d)) \in Nat
<1>1. IsFiniteSet(Requests) BY GrantAssumption
<1>2. Using(d) \subseteq Requests BY DEF Using
<1> QED BY <1>1, <1>2, FS_Subset, FS_CardinalityType

\* No new holder, no more units held.
LEMMA UsingShrinks ==
  ASSUME NEW d, Using(d)' \subseteq Using(d)
  PROVE  Cardinality(Using(d)') \in Nat /\ Cardinality(Using(d)') <= Cardinality(Using(d))
BY UsingIsFinite, FS_Subset, FS_CardinalityType

\* In a calm step no request gains a unit.
LEMMA SettledUsing ==
  ASSUME Typed, NEW r \in Requests, Settles(r), NEW d
  PROVE  Using(d)' \subseteq Using(d)
<1>1. \A s \in Requests : s # r => reqs'[s] = reqs[s]
  BY DEF Settles, Ends, Again, Goes, Moves
<1>2. reqs'[r].charged /\ reqs'[r].today = d /\ reqs'[r].pc \in Paying
        => reqs[r].charged /\ reqs[r].today = d /\ reqs[r].pc \in Paying
  BY DEF Settles, Ends, Again, Goes, Paying
<1> QED BY <1>1, <1>2 DEF Using

\* The budget's bookkeeping survives a step that charges nothing, admits nothing and
\* gives no request a unit.
LEMMA ChargesFrame ==
  ASSUME Typed, Charges,
         row'.win = row.win, row'.used = row.used,
         hist'.charged = hist.charged, hist'.admitted = hist.admitted,
         \/ hist'.ceiling = hist.ceiling
         \/ hist.ceiling \in Int /\ hist'.ceiling \in Int /\ hist.ceiling <= hist'.ceiling,
         \A d \in Days : Using(d)' \subseteq Using(d)
  PROVE  Charges'
<1>1. \A d \in Days : hist'.admitted[d] + Cardinality(Using(d)') <= hist'.charged[d]
  <2> TAKE d \in Days
  <2>1. hist.admitted[d] \in Nat /\ hist.charged[d] \in Int BY DEF Typed, HistTyped
  <2> QED BY <2>1, UsingShrinks, UsingIsFinite DEF Charges
<1>2. hist'.ceiling # NoMax => \A d \in Days : hist'.charged[d] <= hist'.ceiling
  BY GrantAssumption DEF Charges, Typed, HistTyped
<1> QED BY <1>1, <1>2 DEF Charges

\* Types survive a calm step.
LEMMA CalmTyped ==
  ASSUME Typed, Calm, reqs' = reqs \/ \E r \in Requests : reqs[r].pc # "idle" /\ Settles(r)
  PROVE  Typed'
<1>1. RowTyped' /\ SceneTyped' BY DEF Typed, Calm, RowTyped, SceneTyped
<1>2. HistTyped' BY DEF Typed, Calm, SameHist, HistTyped
<1>3. ProcTyped' BY DEF Typed, Calm, SameCaches, ProcTyped
<1>4. EditTyped' BY DEF Typed, Calm, EditTyped
<1>5. ReqTyped'
  <2>1. CASE reqs' = reqs BY <2>1 DEF Typed, ReqTyped
  <2>2. ASSUME NEW r \in Requests, reqs[r].pc # "idle", Settles(r) PROVE ReqTyped'
    <3>1. Moves(r) BY <2>2 DEF Settles, Ends, Again, Goes
    <3>2. reqs'[r].pc \in Places \ Looking
      BY <2>2 DEF Settles, Ends, Again, Goes, Places, Granted, Paying, Looking, Consuming
    <3>3. reqs'[r].pc # "idle" => reqs'[r].p \in Procs
      BY <2>2 DEF Settles, Ends, Again, Goes, Typed, ReqTyped
    <3>4. reqs'[r].today \in Days \union {NoDay}
      BY <2>2 DEF Settles, Ends, Again, Goes, Typed, ReqTyped
    <3> QED BY <3>1, <3>2, <3>3, <3>4 DEF Typed, ReqTyped, Moves
  <2> QED BY <2>1, <2>2
<1> QED BY <1>1, <1>2, <1>3, <1>4, <1>5 DEF Typed

\* The budget's invariant survives a calm step.
LEMMA CalmBudget ==
  ASSUME BudgetInv, Calm, reqs' = reqs \/ \E r \in Requests : reqs[r].pc # "idle" /\ Settles(r)
  PROVE  BudgetInv'
<1> USE DEF BudgetInv
<1>1. Typed' BY CalmTyped
<1>2. \A r \in Requests : reqs[r].pc # "idle" => row.hash # NoHash BY DEF Unissued
<1>3. Unissued' /\ Offers' /\ Plans'
  <2>1. CASE reqs' = reqs
    BY <2>1 DEF Calm, SameHist, SameCaches, Unissued, Offers, Offer, Plans, Budgeted, Typed
  <2>2. ASSUME NEW r \in Requests, reqs[r].pc # "idle", Settles(r)
        PROVE  Unissued' /\ Offers' /\ Plans'
    <3>1. \A s \in Requests : s # r => reqs'[s] = reqs[s]
      BY <2>2 DEF Settles, Ends, Again, Goes, Moves
    <3>2. row.hash # NoHash BY <1>2, <2>2
    <3>3. Unissued' BY <3>2 DEF Calm, Unissued
    <3>4. \A g : Offer(g) <=> Offer(g)' BY DEF Calm, SameHist, Offer
    <3>5. reqs'[r].pc \in Granted => reqs[r].pc \in Granted /\ reqs'[r].grant = reqs[r].grant
      BY <2>2 DEF Settles, Ends, Again, Goes, Granted, Paying, Consuming
    <3>6. reqs'[r].pc # "selected"
      BY <2>2 DEF Settles, Ends, Again, Goes, Paying
    <3>7. Offers' BY <3>1, <3>2, <3>4, <3>5, <3>6 DEF Calm, SameCaches, Offers, Typed, ProcTyped
    <3>8. ~Budgeted(reqs'[r])
      BY <2>2 DEF Settles, Ends, Again, Goes, Paying, Budgeted, Consuming
    <3>9. reqs'[r].charged => reqs'[r].pc \in Paying \union {"refundUsage"} /\ reqs'[r].today \in Days
      BY <2>2 DEF Settles, Ends, Again, Goes, Plans
    <3>10. reqs'[r].pc = "refund" => reqs'[r].charged
      BY <2>2 DEF Settles, Ends, Again, Goes
    <3>11. Plans' BY <3>1, <3>8, <3>9, <3>10 DEF Calm, Plans, Budgeted
    <3> QED BY <3>3, <3>7, <3>11
  <2> QED BY <2>1, <2>2
<1>4. Charges'
  <2>1. \A d \in Days : Using(d)' \subseteq Using(d)
    <3>1. CASE reqs' = reqs BY <3>1 DEF Using
    <3> QED BY <3>1, SettledUsing
  <2> QED BY <2>1, ChargesFrame DEF Calm, SameHist
<1> QED BY <1>1, <1>3, <1>4

\* The caches may only lose entries.
FewerCaches ==
  /\ DOMAIN proc' = Procs
  /\ \A p \in Procs :
       /\ DOMAIN proc'[p] = ProcFields
       /\ proc'[p].hashOf = proc[p].hashOf /\ proc'[p].gen = proc[p].gen
       /\ DOMAIN proc'[p].cache \subseteq DOMAIN proc[p].cache
       /\ \A h \in DOMAIN proc'[p].cache : proc'[p].cache[h] = proc[p].cache[h]

\* What is known of the caches survives a step that leaves the tokens and the versions
\* alone, starts and ends no rotation, adds nothing to a cache and reads no row.
LEMMA CachedKept ==
  ASSUME Typed, Numbers, Rotations, Cached,
         row'.hash = row.hash, row'.ver = row.ver,
         \A p \in Procs : (Rotating(p)' <=> Rotating(p)) /\ (edits'[p].pc = "commit" => edits[p].pc = "commit"),
         hist'.seen = hist.seen, hist'.moved = hist.moved, hist'.known = hist.known, hist'.early = hist.early,
         FewerCaches,
         \A r \in Requests : reqs'[r].pc \in Looking =>
            \/ reqs'[r] = reqs[r]
            \/ /\ reqs'[r].pc = "select" /\ reqs'[r].p \in Procs
               /\ reqs'[r].gen <= proc[reqs'[r].p].gen
               /\ reqs'[r].hash \in Int /\ reqs'[r].hash <= hist.known
  PROVE  Numbers' /\ Rotations' /\ Cached'
<1>1. \A p \in Procs : (Rotating(p) <=> Rotating(p)') /\ LiveHash(p)' = LiveHash(p)
  BY DEF LiveHash
<1>2. \A r \in Requests, p \in Procs : Fresh(r, p)' => Fresh(r, p) /\ reqs'[r] = reqs[r]
  BY DEF Fresh, FewerCaches, Looking
<1>3. \A r \in Requests : reqs[r].pc \in Looking => reqs[r].p \in Procs
  BY DEF Typed, ReqTyped, Looking
<1>4. Numbers' BY <1>3 DEF Numbers, FewerCaches, Looking
<1>5. Rotations' BY <1>1 DEF Rotations
<1>6. Cached'
  <2>1. \A p \in Procs : \A g : Current(p, g) <=> Current(p, g)' BY <1>1 DEF Current
  <2> QED BY <1>1, <1>2, <2>1 DEF Cached, FewerCaches
<1> QED BY <1>4, <1>5, <1>6

\* The same for a step that leaves the edits alone.
LEMMA CachedFrame ==
  ASSUME Typed, Numbers, Rotations, Cached,
         row'.hash = row.hash, row'.ver = row.ver, edits' = edits,
         hist'.seen = hist.seen, hist'.moved = hist.moved, hist'.known = hist.known, hist'.early = hist.early,
         FewerCaches,
         \A r \in Requests : reqs'[r].pc \in Looking =>
            \/ reqs'[r] = reqs[r]
            \/ /\ reqs'[r].pc = "select" /\ reqs'[r].p \in Procs
               /\ reqs'[r].gen <= proc[reqs'[r].p].gen
               /\ reqs'[r].hash \in Int /\ reqs'[r].hash <= hist.known
  PROVE  Numbers' /\ Rotations' /\ Cached'
<1>1. \A p \in Procs : (Rotating(p)' <=> Rotating(p)) /\ (edits'[p].pc = "commit" => edits[p].pc = "commit")
  BY DEF Rotating
<1> QED BY <1>1, CachedKept

\* The whole invariant survives a calm step.
LEMMA CalmStep ==
  ASSUME GrantInv, Calm, reqs' = reqs \/ \E r \in Requests : reqs[r].pc # "idle" /\ Settles(r)
  PROVE  GrantInv'
<1>1. BudgetInv' BY CalmBudget DEF GrantInv
<1>2. \A r \in Requests : reqs'[r].pc \in Looking => reqs'[r] = reqs[r]
  BY DEF Settles, Ends, Again, Goes, Moves, Looking, Paying
<1>3. Numbers' /\ Rotations' /\ Cached'
  <2>1. FewerCaches BY DEF Calm, SameCaches, FewerCaches
  <2> QED BY <1>2, <2>1, CachedFrame DEF GrantInv, SeenInv, BudgetInv, Calm, SameHist
<1> QED BY <1>1, <1>3 DEF GrantInv, SeenInv, BudgetInv

--------------------------------------------------------------------------------
(***************************************************************************)
(* The steps of a request.                                                 *)
(***************************************************************************)

\* Types survive a step of one request.
LEMMA RequestTyped ==
  ASSUME Typed, NEW r \in Requests, Moves(r), RowTyped', HistTyped', SceneTyped', ProcTyped', edits' = edits,
         reqs'[r].pc \in Places, reqs'[r].pc # "idle" => reqs'[r].p \in Procs,
         reqs'[r].today \in Days \union {NoDay}, reqs'[r].pc \in Looking => reqs'[r].gen \in Nat
  PROVE  Typed'
<1>1. EditTyped' BY DEF Typed, EditTyped
<1>2. ReqTyped' BY DEF Typed, ReqTyped, Moves
<1> QED BY <1>1, <1>2 DEF Typed

\* The rows in use stay versions of the grant, and the plans sound, if those of the
\* request that moved are.
LEMMA RequestFrame ==
  ASSUME Typed, Unissued, Offers, Plans, NEW r \in Requests, Moves(r),
         row.hash # NoHash, row'.hash = row.hash, row'.max = row.max,
         row'.win # NoDay => row'.win \in Days /\ row'.win <= day,
         day' = day, hist'.ceiling = hist.ceiling,
         \A p \in Procs : \A h \in DOMAIN proc'[p].cache : Offer(proc'[p].cache[h]),
         reqs'[r].pc \in Granted \/ (reqs'[r].pc = "selected" /\ reqs'[r].grant # << >>) => Offer(reqs'[r].grant),
         Budgeted(reqs'[r]) =>
           /\ reqs'[r].today \in Days /\ reqs'[r].today <= day /\ reqs'[r].grant.max # NoMax
           /\ reqs'[r].grant.win # NoDay => reqs'[r].grant.win <= reqs'[r].today,
         reqs'[r].charged => reqs'[r].pc \in Paying \union {"refundUsage"} /\ reqs'[r].today \in Days,
         reqs'[r].pc = "refund" => reqs'[r].charged
  PROVE  Unissued' /\ Offers' /\ Plans'
<1>1. \A s \in Requests : s # r => reqs'[s] = reqs[s] BY DEF Moves
<1>2. Unissued' BY DEF Unissued
<1>3. \A g : Offer(g) <=> Offer(g)' BY DEF Offer
<1>4. Offer(row)' BY DEF Offers, Offer
<1>5. Offers' BY <1>1, <1>3, <1>4 DEF Offers
<1>6. Plans' BY <1>1 DEF Plans, Budgeted
<1> QED BY <1>2, <1>5, <1>6

\* A request without a unit before and after leaves the counting alone.
LEMMA FreeUsing ==
  ASSUME NEW r \in Requests, Moves(r), ~reqs'[r].charged, NEW d
  PROVE  Using(d)' \subseteq Using(d)
BY DEF Moves, Using

\* Binding a key adds it, and leaves the values of the others.
LEMMA BindFacts ==
  ASSUME NEW f, NEW x, NEW v
  PROVE  \A y \in DOMAIN Bind(f, x, v) :
           \/ y = x /\ Bind(f, x, v)[y] = v
           \/ y \in DOMAIN f /\ Bind(f, x, v)[y] = f[y]
BY DEF Bind

\* A token is presented: a young row is taken from the cache, or a lookup starts.
LEMMA PresentStep ==
  ASSUME GrantInv, NEW r \in Requests, NEW p \in Procs, NEW c, NEW h \in Int, NEW call, reqs[r].pc = "idle",
         Present(r, p, c, h, call)
  PROVE  GrantInv'
<1> USE DEF GrantInv, BudgetInv, SeenInv
<1> DEFINE q == [NoRequest EXCEPT !.p = p, !.client = c, !.hash = h, !.call = call, !.parts = scene.parts]
<1>1. /\ DOMAIN q = ReqFields /\ q.pc = "idle" /\ q.p = p /\ q.hash = h /\ q.today = NoDay /\ q.charged = FALSE
  BY DEF NoRequest, ReqFields
<1>2. /\ row' = row /\ day' = day /\ scene' = scene /\ edits' = edits /\ hist' = hist
      /\ row.hash # NoHash /\ h <= hist.known
  BY DEF Present
<1>3. SameHist BY <1>2 DEF SameHist, Typed, HistTyped
<1>4. /\ FewerCaches /\ Moves(r)
      /\ reqs'[r].p = p /\ reqs'[r].today = NoDay /\ reqs'[r].charged = FALSE
      /\ \/ /\ reqs'[r].pc \in {"fail", "enforce"} /\ h \in DOMAIN proc[p].cache
            /\ reqs'[r].grant = proc[p].cache[h]
         \/ /\ reqs'[r].pc = "select" /\ reqs'[r].gen = proc[p].gen /\ reqs'[r].hash = h
  <2>1. CASE /\ h \in DOMAIN proc[p].cache /\ UNCHANGED proc
             /\ reqs' = [reqs EXCEPT ![r] = [q EXCEPT !.grant = proc[p].cache[h],
                      !.pc = IF proc[p].cache[h].over <= day THEN "fail" ELSE "enforce"]]
    <3> HIDE DEF q
    <3>1. FewerCaches BY <2>1 DEF FewerCaches, Typed, ProcTyped
    <3> QED BY <2>1, <3>1, <1>1 DEF Moves, Typed, ReqTyped, ReqFields
  <2>2. CASE /\ reqs' = [reqs EXCEPT ![r] = [q EXCEPT !.pc = "select", !.gen = proc[p].gen]]
             /\ proc' = IF h \in DOMAIN proc[p].cache THEN [proc EXCEPT ![p].cache = Unbind(@, h)] ELSE proc
    <3> HIDE DEF q
    <3>1. FewerCaches
      <4>1. CASE proc' = proc BY <4>1 DEF FewerCaches, Typed, ProcTyped
      <4>2. CASE proc' = [proc EXCEPT ![p].cache = Unbind(@, h)]
        BY <4>2 DEF FewerCaches, Typed, ProcTyped, ProcFields, Unbind
      <4> QED BY <2>2, <4>1, <4>2
    <3> QED BY <2>2, <3>1, <1>1 DEF Moves, Typed, ReqTyped, ReqFields
  <2> QED BY <2>1, <2>2 DEF Present
<1> HIDE DEF q
<1>5. Typed'
  <2>1. RowTyped' /\ SceneTyped' /\ HistTyped' BY <1>2 DEF Typed, RowTyped, SceneTyped, HistTyped
  <2>2. ProcTyped' BY <1>4 DEF FewerCaches, Typed, ProcTyped
  <2>3. reqs'[r].pc \in Places BY <1>4 DEF Places, Granted, Looking
  <2>4. proc[p].gen \in Nat BY DEF Typed, ProcTyped
  <2>5. reqs'[r].pc \in Looking => reqs'[r].gen \in Nat BY <1>4, <2>4 DEF Looking
  <2> QED BY <1>2, <1>4, <2>1, <2>2, <2>3, <2>5, RequestTyped
<1>6. Unissued' /\ Offers' /\ Plans'
  <2>1. \A s \in Procs : \A k \in DOMAIN proc'[s].cache : Offer(proc'[s].cache[k])
    BY <1>4 DEF Offers, FewerCaches
  <2>2. /\ reqs'[r].pc \in Granted \/ (reqs'[r].pc = "selected" /\ reqs'[r].grant # << >>) => Offer(reqs'[r].grant)
        /\ ~Budgeted(reqs'[r]) /\ reqs'[r].pc # "refund"
    BY <1>4 DEF Offers, Granted, Paying, Consuming, Budgeted
  <2>3. row'.win # NoDay => row'.win \in Days /\ row'.win <= day BY <1>2 DEF Offers, Offer
  <2> QED BY <1>2, <1>4, <2>1, <2>2, <2>3, RequestFrame
<1>7. Charges'
  <2>1. \A d \in Days : Using(d)' \subseteq Using(d) BY <1>4, FreeUsing
  <2> QED BY <1>2, <2>1, ChargesFrame
<1>8. Numbers' /\ Rotations' /\ Cached'
  <2>1. proc[p].gen \in Nat BY DEF Typed, ProcTyped
  <2>2. reqs'[r].pc \in Looking => /\ reqs'[r].pc = "select" /\ reqs'[r].p \in Procs
                                  /\ reqs'[r].gen <= proc[reqs'[r].p].gen
                                  /\ reqs'[r].hash \in Int /\ reqs'[r].hash <= hist.known
    BY <1>2, <1>4, <2>1 DEF Looking
  <2>3. \A s \in Requests : s # r => reqs'[s] = reqs[s] BY <1>4 DEF Moves
  <2> QED BY <1>2, <1>4, <2>2, <2>3, CachedFrame
<1> QED BY <1>5, <1>6, <1>7, <1>8

\* The SELECT of a lookup returns the row as it is now, or nothing.
LEMMA SelectStep ==
  ASSUME GrantInv, NEW r \in Requests, Select(r)
  PROVE  GrantInv'
<1> USE DEF GrantInv, BudgetInv, SeenInv
<1> DEFINE p == reqs[r].p
<1>1. /\ row' = row /\ day' = day /\ scene' = scene /\ edits' = edits /\ proc' = proc
      /\ reqs[r].pc = "select" /\ p \in Procs
  BY DEF Select, Typed, ReqTyped
<1>2. /\ Moves(r) /\ reqs'[r].pc = "selected" /\ reqs'[r].p = p /\ reqs'[r].gen = reqs[r].gen
      /\ reqs'[r].today = reqs[r].today /\ reqs'[r].charged = reqs[r].charged
      /\ reqs'[r].grant # << >> => reqs'[r].grant = row /\ row.hash = reqs[r].hash /\ row.active
  BY DEF Select, Moves, Typed, ReqTyped, ReqFields
<1>3. /\ DOMAIN hist' = HistFields
      /\ hist'.charged = hist.charged /\ hist'.admitted = hist.admitted /\ hist'.ceiling = hist.ceiling
      /\ hist'.seen = hist.seen /\ hist'.moved = hist.moved /\ hist'.known = hist.known
      /\ ~hist'.early => ~hist.early /\ edits[p].pc # "commit"
  BY DEF Select, Typed, HistTyped, HistFields
<1>4. row.hash # NoHash /\ row.hash \in Nat
  BY <1>1 DEF Unissued, Typed, RowTyped
<1>5. Typed'
  <2>1. RowTyped' /\ SceneTyped' /\ HistTyped' /\ ProcTyped'
    BY <1>1, <1>3 DEF Typed, RowTyped, SceneTyped, HistTyped, ProcTyped
  <2>2. reqs'[r].pc \in Places BY <1>2 DEF Places, Looking
  <2>3. reqs'[r].gen \in Nat /\ reqs'[r].today \in Days \union {NoDay}
    BY <1>1, <1>2 DEF Typed, ReqTyped, Looking
  <2> QED BY <1>1, <1>2, <2>1, <2>2, <2>3, RequestTyped
<1>6. ~reqs'[r].charged BY <1>1, <1>2 DEF Plans, Paying
<1>7. Unissued' /\ Offers' /\ Plans'
  <2>1. /\ reqs'[r].pc \in Granted \/ (reqs'[r].pc = "selected" /\ reqs'[r].grant # << >>) => Offer(reqs'[r].grant)
        /\ ~Budgeted(reqs'[r]) /\ reqs'[r].pc # "refund"
    BY <1>2, <1>4 DEF Offers, Granted, Paying, Consuming, Budgeted
  <2>2. row'.win # NoDay => row'.win \in Days /\ row'.win <= day BY <1>1, <1>4 DEF Offers, Offer
  <2>3. \A s \in Procs : \A k \in DOMAIN proc'[s].cache : Offer(proc'[s].cache[k])
    BY <1>1 DEF Offers
  <2> QED BY <1>1, <1>2, <1>3, <1>4, <1>6, <2>1, <2>2, <2>3, RequestFrame
<1>8. Charges'
  <2>1. \A d \in Days : Using(d)' \subseteq Using(d) BY <1>2, <1>6, FreeUsing
  <2> QED BY <1>1, <1>3, <2>1, ChargesFrame
<1>9. \A s \in Procs : (Rotating(s) <=> Rotating(s)') /\ LiveHash(s)' = LiveHash(s)
  BY <1>1 DEF Rotating, LiveHash
<1>10. \A s \in Procs : \A g : Current(s, g) <=> Current(s, g)' BY <1>1, <1>3, <1>9 DEF Current
<1>11. \A s \in Requests : s # r => reqs'[s] = reqs[s] BY <1>2 DEF Moves
<1>12. Numbers'
  <2>1. reqs[r].gen <= proc[p].gen BY <1>1 DEF Numbers, Looking
  <2> QED BY <1>1, <1>2, <1>3, <1>4, <1>11, <2>1 DEF Numbers, Looking
<1>13. Rotations' BY <1>1, <1>3, <1>9 DEF Rotations
<1>14. Cached'
  <2> SUFFICES ASSUME NEW s \in Procs, ~hist'.early, ~hist'.moved[s]
               PROVE  /\ \A h \in DOMAIN proc'[s].cache :
                           h = proc'[s].hashOf /\ h = LiveHash(s)' /\ Current(s, proc[s].cache[h])'
                      /\ \A q \in Requests : Fresh(q, s)' => Current(s, reqs[q].grant)'
                      /\ edits'[s].pc = "commit" => /\ DOMAIN proc'[s].cache = {}
                                                   /\ \A q \in Requests : ~Fresh(q, s)'
    BY <1>1 DEF Cached
  <2>1. ~hist.early /\ ~hist.moved[s] BY <1>3
  <2>2. \A q \in Requests : q # r /\ Fresh(q, s)' => Fresh(q, s) /\ reqs'[q] = reqs[q]
    BY <1>1, <1>11 DEF Fresh
  <2>3. Fresh(r, s)' => s = p /\ edits[p].pc # "commit" /\ Current(s, reqs'[r].grant)
    <3> SUFFICES ASSUME Fresh(r, s)' PROVE s = p /\ edits[p].pc # "commit" /\ Current(s, reqs'[r].grant)
      OBVIOUS
    <3>1. s = p /\ reqs'[r].grant = row /\ row.hash = reqs[r].hash BY <1>2 DEF Fresh
    <3>2. row.hash <= hist.known BY <1>1, <3>1 DEF Numbers, Looking
    <3>3. hist.known \in Nat BY DEF Typed, HistTyped
    <3>4. ~Rotating(s) BY <1>4, <2>1, <3>2, <3>3 DEF Rotations
    <3>5. row.ver \in Nat /\ hist.seen[s] \in Nat BY DEF Typed, RowTyped, HistTyped
    <3> QED BY <1>3, <3>1, <3>4, <3>5 DEF Current, LiveHash, Numbers
  <2> QED BY <1>1, <1>9, <1>10, <2>1, <2>2, <2>3 DEF Cached
<1> QED BY <1>5, <1>7, <1>8, <1>12, <1>13, <1>14

\* The row is remembered, if no edit of this process came in between.
LEMMA ResolveStep ==
  ASSUME GrantInv, NEW r \in Requests, Resolve(r)
  PROVE  GrantInv'
<1> USE DEF GrantInv, BudgetInv, SeenInv
<1>a. ReqTyped /\ reqs[r].pc = "selected" /\ reqs[r].p \in Procs
  BY DEF Resolve, Typed, ReqTyped
<1>b. PICK p \in Procs : p = reqs[r].p BY <1>a
<1>c. PICK g : g = reqs[r].grant OBVIOUS
<1>1. /\ row' = row /\ day' = day /\ scene' = scene /\ edits' = edits /\ ReqTyped
      /\ reqs[r].pc = "selected" /\ p = reqs[r].p /\ g = reqs[r].grant
  BY <1>a, <1>b, <1>c DEF Resolve
<1>2. CASE Fail(r, proc, hist)
  BY <1>1, <1>2, FailFacts, CalmStep DEF Calm, Settles
<1>3. CASE /\ g # << >> /\ ReqGoto(r, "enforce") /\ UNCHANGED hist
           /\ proc' = IF MayRemember(r) THEN [proc EXCEPT ![p] = Remembered(@, g)] ELSE proc
  <2>1. Goes(r, "enforce") BY <1>1, <1>3, GotoFacts
  <2>2. ~reqs[r].charged BY <1>1 DEF Plans, Paying
  <2>3. row.hash # NoHash BY <1>1 DEF Unissued
  <2>4. g.hash \in Nat /\ Offer(g) BY <1>1, <1>3 DEF Numbers, Looking, Offers
  <2>5. /\ DOMAIN proc' = Procs
        /\ \A s \in Procs : DOMAIN proc'[s] = ProcFields /\ proc'[s].gen = proc[s].gen
        /\ \A s \in Procs : s # p \/ ~MayRemember(r) => proc'[s] = proc[s]
        /\ MayRemember(r) =>
             /\ proc'[p].hashOf = g.hash
             /\ \A h \in DOMAIN proc'[p].cache :
                  \/ h = g.hash /\ proc'[p].cache[h] = g
                  \/ h \in DOMAIN proc[p].cache /\ proc'[p].cache[h] = proc[p].cache[h]
    <3>1. CASE ~MayRemember(r) BY <1>3, <3>1 DEF Typed, ProcTyped
    <3>2. CASE MayRemember(r)
      <4> DEFINE old == IF Cardinality(DOMAIN proc[p].cache) >= TokenCacheMax THEN << >> ELSE proc[p].cache
      <4>1. proc' = [proc EXCEPT ![p] = [proc[p] EXCEPT !.cache = Bind(old, g.hash, g), !.hashOf = g.hash]]
        BY <1>3, <3>2 DEF Remembered, Typed, ProcTyped, ProcFields
      <4>2. \A h \in DOMAIN old : h \in DOMAIN proc[p].cache /\ old[h] = proc[p].cache[h]
        OBVIOUS
      <4> HIDE DEF old
      <4>3. \A h \in DOMAIN Bind(old, g.hash, g) :
              \/ h = g.hash /\ Bind(old, g.hash, g)[h] = g
              \/ h \in DOMAIN old /\ Bind(old, g.hash, g)[h] = old[h]
        BY BindFacts
      <4> DEFINE b == Bind(old, g.hash, g)
      <4> HIDE DEF b
      <4>4. /\ DOMAIN proc' = Procs
            /\ \A s \in Procs : DOMAIN proc'[s] = ProcFields /\ proc'[s].gen = proc[s].gen
            /\ \A s \in Procs : s # p => proc'[s] = proc[s]
            /\ proc'[p].hashOf = g.hash /\ proc'[p].cache = b
        BY <1>1, <4>1 DEF b, Typed, ProcTyped, ProcFields
      <4> QED BY <3>2, <4>2, <4>3, <4>4 DEF b
    <3> QED BY <3>1, <3>2
  <2>6. Typed'
    <3>1. RowTyped' /\ SceneTyped' /\ HistTyped'
      BY <1>1, <1>3 DEF Typed, RowTyped, SceneTyped, HistTyped
    <3>2. ProcTyped' BY <2>5 DEF Typed, ProcTyped
    <3>3. reqs'[r].pc \in Places /\ reqs'[r].pc \notin Looking BY <2>1 DEF Goes, Places, Granted, Looking
    <3> QED BY <1>1, <2>1, <3>1, <3>2, <3>3, RequestTyped DEF Goes, ReqTyped
  <2>7. Unissued' /\ Offers' /\ Plans'
    <3>1. \A s \in Procs : \A k \in DOMAIN proc'[s].cache : Offer(proc'[s].cache[k])
      BY <2>4, <2>5 DEF Offers
    <3>2. ~Budgeted(reqs'[r]) /\ reqs'[r].pc # "refund" /\ ~reqs'[r].charged /\ reqs'[r].grant = g /\ Moves(r)
      BY <1>1, <2>1, <2>2 DEF Goes, Budgeted, Consuming
    <3>3. row'.win # NoDay => row'.win \in Days /\ row'.win <= day BY <1>1, <2>3 DEF Offers, Offer
    <3> QED BY <1>1, <1>3, <2>3, <2>4, <3>1, <3>2, <3>3, RequestFrame
  <2>8. Charges'
    <3>1. \A d \in Days : Using(d)' \subseteq Using(d) BY <2>1, <2>2, FreeUsing DEF Goes
    <3> QED BY <1>1, <1>3, <3>1, ChargesFrame
  <2>9. \A s \in Procs : (Rotating(s) <=> Rotating(s)') /\ LiveHash(s)' = LiveHash(s)
    BY <1>1 DEF Rotating, LiveHash
  <2>10. \A s \in Procs : \A x : Current(s, x) <=> Current(s, x)' BY <1>1, <1>3, <2>9 DEF Current
  <2>11. \A s \in Requests : s # r => reqs'[s] = reqs[s] BY <2>1 DEF Goes, Moves
  <2>12. \A q \in Requests, s \in Procs : Fresh(q, s)' => Fresh(q, s) /\ reqs'[q] = reqs[q]
    BY <2>1, <2>5, <2>11 DEF Fresh, Goes
  <2>13. Numbers'
    <3>1. \A s \in Requests : reqs'[s].pc \in Looking => reqs'[s] = reqs[s] /\ reqs[s].p \in Procs
      BY <2>1, <2>11 DEF Goes, Looking, Typed, ReqTyped
    <3> QED BY <1>1, <1>3, <2>5, <3>1 DEF Numbers
  <2>14. Rotations' BY <1>1, <1>3, <2>9 DEF Rotations
  <2>15. Cached'
    <3>1. \A s \in Procs : s # p \/ ~MayRemember(r) => proc'[s] = proc[s] BY <2>5
    <3>2. ASSUME NEW s \in Procs, proc'[s] = proc[s]
          PROVE  /\ \A h \in DOMAIN proc'[s].cache : h \in Nat
                 /\ ~hist'.early /\ ~hist'.moved[s] =>
                      /\ \A h \in DOMAIN proc'[s].cache :
                           h = proc'[s].hashOf /\ h = LiveHash(s)' /\ Current(s, proc[s].cache[h])'
                      /\ \A q \in Requests : Fresh(q, s)' => Current(s, reqs[q].grant)'
                      /\ edits'[s].pc = "commit" => /\ DOMAIN proc'[s].cache = {}
                                                   /\ \A q \in Requests : ~Fresh(q, s)'
      BY <1>1, <1>3, <2>9, <2>10, <2>12, <3>2 DEF Cached
    <3>3. ASSUME MayRemember(r)
          PROVE  /\ \A h \in DOMAIN proc'[p].cache : h \in Nat
                 /\ ~hist'.early /\ ~hist'.moved[p] =>
                      /\ \A h \in DOMAIN proc'[p].cache :
                           h = proc'[p].hashOf /\ h = LiveHash(p)' /\ Current(p, proc[p].cache[h])'
                      /\ \A q \in Requests : Fresh(q, p)' => Current(p, reqs[q].grant)'
                      /\ edits'[p].pc = "commit" => /\ DOMAIN proc'[p].cache = {}
                                                   /\ \A q \in Requests : ~Fresh(q, p)'
      <4>1. Fresh(r, p) BY <1>1, <1>3, <3>3 DEF Fresh, MayRemember
      <4>2. \A h \in DOMAIN proc'[p].cache : h \in Nat BY <1>1, <2>4, <2>5, <3>3 DEF Cached
      <4> SUFFICES ASSUME ~hist'.early, ~hist'.moved[p]
                   PROVE  /\ \A h \in DOMAIN proc'[p].cache :
                               h = proc'[p].hashOf /\ h = LiveHash(p)' /\ Current(p, proc[p].cache[h])'
                          /\ \A q \in Requests : Fresh(q, p)' => Current(p, reqs[q].grant)'
                          /\ edits'[p].pc # "commit"
        BY <4>2
      <4>3. Current(p, g) /\ edits[p].pc # "commit" BY <1>1, <1>3, <4>1 DEF Cached
      <4>4. g.hash = LiveHash(p) BY <4>3 DEF Current
      <4>5. \A h \in DOMAIN proc[p].cache : h = LiveHash(p) /\ Current(p, proc[p].cache[h])
        BY <1>1, <1>3 DEF Cached
      <4>6. \A h \in DOMAIN proc'[p].cache : h = g.hash /\ Current(p, proc'[p].cache[h])
        BY <2>5, <3>3, <4>3, <4>4, <4>5
      <4>7. \A q \in Requests : Fresh(q, p)' => Current(p, reqs'[q].grant)
        BY <1>1, <1>3, <2>12 DEF Cached
      <4> QED BY <1>1, <2>5, <2>9, <2>10, <3>3, <4>3, <4>4, <4>6, <4>7
    <3> QED BY <3>1, <3>2, <3>3 DEF Cached
  <2> QED BY <2>6, <2>7, <2>8, <2>13, <2>14, <2>15
<1> QED BY <1>1, <1>2, <1>3 DEF Resolve

\* One more request with a unit of the day adds at most one, one less takes one away.
LEMMA UsingGains ==
  ASSUME NEW r \in Requests, NEW d, Using(d)' \subseteq Using(d) \union {r}
  PROVE  Cardinality(Using(d)') \in Nat /\ Cardinality(Using(d)') <= Cardinality(Using(d)) + 1
<1>1. IsFiniteSet(Using(d)) /\ Cardinality(Using(d)) \in Nat BY UsingIsFinite
<1>2. /\ IsFiniteSet(Using(d) \union {r})
      /\ Cardinality(Using(d) \union {r}) = IF r \in Using(d) THEN Cardinality(Using(d)) ELSE Cardinality(Using(d)) + 1
  BY <1>1, FS_AddElement
<1>3. Cardinality(Using(d)') <= Cardinality(Using(d) \union {r}) /\ IsFiniteSet(Using(d)')
  BY <1>2, FS_Subset
<1>4. Cardinality(Using(d)') \in Nat BY <1>3, FS_CardinalityType
<1> QED BY <1>1, <1>2, <1>3, <1>4

\* A request that gives its unit up frees exactly one.
LEMMA UsingLoses ==
  ASSUME NEW r \in Requests, NEW d, r \in Using(d), Using(d)' = Using(d) \ {r}
  PROVE  Cardinality(Using(d)) \in Nat \ {0} /\ Cardinality(Using(d)') = Cardinality(Using(d)) - 1
<1>1. IsFiniteSet(Using(d)) /\ Cardinality(Using(d)) \in Nat BY UsingIsFinite
<1>2. Cardinality(Using(d) \ {r}) = Cardinality(Using(d)) - 1 /\ IsFiniteSet(Using(d) \ {r})
  BY <1>1, FS_RemoveElement
<1>3. Cardinality(Using(d) \ {r}) \in Nat BY <1>2, FS_CardinalityType
<1> QED BY <1>1, <1>2, <1>3

\* One unit of a day is charged: the first of a window that was before the day, or one
\* more of the window. The ceiling is not passed.
LEMMA ChargeDay ==
  ASSUME Typed, Charges, NEW d \in Days,
         \/ (row.win = NoDay \/ row.win < d) /\ row'.used = 1
         \/ row.win = d /\ row'.used = row.used + 1,
         row'.win = d, hist.ceiling # NoMax => row'.used <= hist.ceiling, hist'.ceiling = hist.ceiling,
         hist'.charged = [hist.charged EXCEPT ![d] = @ + 1],
         hist'.admitted \in [Days -> Nat],
         hist'.admitted[d] + Cardinality(Using(d)') <= hist.admitted[d] + Cardinality(Using(d)) + 1,
         Cardinality(Using(d)') \in Nat,
         \A e \in Days : e # d => hist'.admitted[e] = hist.admitted[e] /\ Using(e)' \subseteq Using(e)
  PROVE  Charges'
<1>0. Days \subseteq Int /\ NoDay \notin Days BY GrantAssumption DEF Days
<1>1. /\ hist.charged \in [Days -> Int] /\ hist.admitted \in [Days -> Nat] /\ d \in Int /\ d # NoDay
      /\ row.win # NoDay => row.win \in Days /\ row.win \in Int
  BY <1>0 DEF Typed, HistTyped, RowTyped
<1>2. \A e \in Days : hist'.charged[e] = IF e = d THEN hist.charged[d] + 1 ELSE hist.charged[e]
  BY <1>1
<1>3. \A e \in Days : hist.charged[e] >= 0
  BY <1>1, UsingIsFinite DEF Charges
<1>4. row'.used = hist.charged[d] + 1
  <2>1. CASE (row.win = NoDay \/ row.win < d) /\ row'.used = 1
    <3>1. ~(d <= row.win) \/ row.win = NoDay BY <2>1, <1>1
    <3>2. hist.charged[d] = 0 BY <3>1 DEF Charges
    <3> QED BY <2>1, <3>2
  <2>2. CASE row.win = d /\ row'.used = row.used + 1
    BY <2>2, <1>1 DEF Charges
  <2> QED BY <2>1, <2>2
<1>5. \A e \in Days : hist'.admitted[e] + Cardinality(Using(e)') <= hist'.charged[e]
  <2> TAKE e \in Days
  <2>1. CASE e = d BY <2>1, <1>1, <1>2, UsingIsFinite DEF Charges
  <2>2. CASE e # d BY <2>2, <1>1, <1>2, UsingIsFinite, UsingShrinks DEF Charges
  <2> QED BY <2>1, <2>2
<1>6. \A e \in Days : hist'.charged[e] # 0 => row'.win # NoDay /\ e <= row'.win
  <2> TAKE e \in Days
  <2>0. e \in Int BY <1>0
  <2>1. CASE e = d BY <2>1, <1>1
  <2>2. ASSUME e # d, hist.charged[e] # 0 PROVE e <= d
    <3>1. row.win # NoDay /\ e <= row.win BY <2>2 DEF Charges
    <3>2. row.win <= d BY <3>1, <1>1
    <3> QED BY <2>0, <3>1, <3>2, <1>1
  <2> QED BY <2>1, <2>2, <1>1, <1>2
<1>7. hist'.ceiling # NoMax => \A e \in Days : hist'.charged[e] <= hist'.ceiling
  BY <1>1, <1>2, <1>4 DEF Charges
<1> QED BY <1>1, <1>2, <1>4, <1>5, <1>6, <1>7 DEF Charges

\* A step of a request that has its row: what must be shown of it.
LEMMA WorkStep ==
  ASSUME GrantInv, NEW r \in Requests, reqs[r].pc \in Granted, Moves(r),
         row'.hash = row.hash, row'.ver = row.ver, row'.max = row.max, row'.active = row.active,
         DOMAIN row' = RowFields, row'.used \in Int,
         row'.win \in Days \union {NoDay}, row'.win # NoDay => row'.win <= day,
         day' = day, scene' = scene, edits' = edits, proc' = proc,
         HistTyped', hist'.ceiling = hist.ceiling,
         hist'.seen = hist.seen, hist'.moved = hist.moved, hist'.known = hist.known, hist'.early = hist.early,
         reqs'[r].pc \in Granted \union {"idle"},
         reqs'[r].pc \in Granted => reqs'[r].p = reqs[r].p /\ reqs'[r].grant = reqs[r].grant,
         reqs'[r].today \in Days \union {NoDay},
         Budgeted(reqs'[r]) =>
           /\ reqs'[r].today \in Days /\ reqs'[r].today <= day /\ reqs[r].grant.max # NoMax
           /\ reqs[r].grant.win # NoDay => reqs[r].grant.win <= reqs'[r].today,
         reqs'[r].charged => reqs'[r].pc \in Paying \union {"refundUsage"} /\ reqs'[r].today \in Days,
         reqs'[r].pc = "refund" => reqs'[r].charged,
         Charges'
  PROVE  GrantInv'
<1> USE DEF GrantInv, BudgetInv, SeenInv
<1>1. /\ row.hash # NoHash /\ Offer(reqs[r].grant) /\ reqs[r].p \in Procs
      /\ reqs'[r].pc \notin Looking /\ reqs'[r].pc \in Places
  BY DEF Unissued, Offers, Typed, ReqTyped, Granted, Paying, Consuming, Looking, Places
<1>2. Typed'
  <2>1. RowTyped' BY DEF Typed, RowTyped
  <2>2. SceneTyped' /\ ProcTyped' BY DEF Typed, SceneTyped, ProcTyped
  <2> QED BY <1>1, <2>1, <2>2, RequestTyped DEF Places
<1>3. Unissued' /\ Offers' /\ Plans'
  <2>1. \A s \in Procs : \A k \in DOMAIN proc'[s].cache : Offer(proc'[s].cache[k])
    BY DEF Offers
  <2>2. Budgeted(reqs'[r]) => reqs'[r].pc \in Granted BY DEF Budgeted, Granted, Consuming
  <2> QED BY <1>1, <2>1, <2>2, RequestFrame DEF Looking
<1>4. Numbers' /\ Rotations' /\ Cached'
  <2>1. FewerCaches BY DEF FewerCaches, Typed, ProcTyped
  <2>2. \A s \in Requests : reqs'[s].pc \in Looking => reqs'[s] = reqs[s] BY <1>1 DEF Moves
  <2> QED BY <2>1, <2>2, CachedFrame
<1> QED BY <1>2, <1>3, <1>4

\* The grant and the budget are looked at: a call that needs no unit or is refused is
\* done, the others go on with the day as it is now.
LEMMA EnforceStep ==
  ASSUME GrantInv, NEW r \in Requests, Enforce(r)
  PROVE  GrantInv'
<1> USE DEF GrantInv, BudgetInv, SeenInv
<1>1. /\ row' = row /\ day' = day /\ scene' = scene /\ edits' = edits /\ hist' = hist /\ proc' = proc
      /\ reqs[r].pc = "enforce" /\ reqs[r].pc \in Granted /\ ~reqs[r].charged /\ row.hash # NoHash
  BY DEF Enforce, Granted, Plans, Paying, Unissued
<1>2. CASE reqs' = NextPart(r)
  <2>1. Settles(r) BY <1>1, <1>2, NextPartFacts DEF Settles, Typed
  <2>2. Calm BY <1>1 DEF Calm, SameHist, SameCaches, Typed, HistTyped, ProcTyped
  <2> QED BY <1>1, <2>1, <2>2, CalmStep
<1>3. CASE reqs' = [reqs EXCEPT ![r].pc = IF scene.changeset THEN "changeset"
                                         ELSE IF reqs[r].grant.max # NoMax THEN "reset" ELSE "record",
                               ![r].today = IF reqs[r].grant.max # NoMax THEN day ELSE NoDay]
  <2>1. /\ Moves(r) /\ reqs'[r].pc \in {"changeset", "reset", "record"}
        /\ reqs'[r].p = reqs[r].p /\ reqs'[r].grant = reqs[r].grant /\ reqs'[r].charged = reqs[r].charged
        /\ reqs'[r].today = (IF reqs[r].grant.max # NoMax THEN day ELSE NoDay)
        /\ reqs'[r].pc = "reset" => reqs[r].grant.max # NoMax
    BY <1>3 DEF Moves, Typed, ReqTyped, ReqFields
  <2>2. day \in Days /\ day \in Int /\ day <= day BY GrantAssumption DEF Typed, SceneTyped, Days
  <2>3. Offer(reqs[r].grant) /\ Offer(row) BY <1>1 DEF Offers
  <2>4. Budgeted(reqs'[r]) => /\ reqs'[r].today \in Days /\ reqs'[r].today <= day /\ reqs[r].grant.max # NoMax
                              /\ reqs[r].grant.win # NoDay => reqs[r].grant.win <= reqs'[r].today
    BY <2>1, <2>2, <2>3 DEF Budgeted, Consuming, Offer
  <2>5. Charges'
    <3>1. \A d \in Days : Using(d)' \subseteq Using(d) BY <1>1, <2>1, FreeUsing
    <3> QED BY <1>1, <3>1, ChargesFrame
  <2>6. reqs'[r].pc \in Granted BY <2>1 DEF Granted, Paying, Consuming
  <2>7. reqs'[r].today \in Days \union {NoDay} BY <2>1, <2>2
  <2>8. /\ row'.used \in Int /\ DOMAIN row' = RowFields /\ row'.win \in Days \union {NoDay}
        /\ row'.win # NoDay => row'.win <= day
        /\ HistTyped'
    BY <1>1, <2>3 DEF Typed, RowTyped, Offer, HistTyped
  <2> QED BY <1>1, <2>1, <2>4, <2>5, <2>6, <2>7, <2>8, WorkStep
<1> QED BY <1>1, <1>2, <1>3 DEF Enforce

\* The row of the grant moves to the day and counts one unit more, within the ceiling.
LEMMA ChargeStep ==
  ASSUME GrantInv, NEW r \in Requests, reqs[r].pc \in Consuming, NEW u \in Int, Charge(r, u),
         \/ Resets(row, reqs[r].grant, reqs[r].today) /\ u = 1
         \/ Increments(row, reqs[r].grant, reqs[r].today) /\ u = row.used + 1,
         day' = day, scene' = scene, edits' = edits, proc' = proc
  PROVE  GrantInv'
<1> USE DEF GrantInv, BudgetInv, SeenInv
<1>0. PICK d \in Days : /\ d = reqs[r].today /\ d <= day /\ reqs[r].grant.max # NoMax
                        /\ reqs[r].grant.win # NoDay => reqs[r].grant.win <= d
  BY DEF Plans, Budgeted
<1>1. /\ reqs[r].pc \in Granted /\ ~reqs[r].charged /\ row.hash # NoHash /\ Offer(reqs[r].grant)
  BY DEF Granted, Consuming, Plans, Paying, Unissued, Offers
<1>2. /\ Moves(r) /\ reqs'[r].pc = "record" /\ reqs'[r].charged = TRUE /\ reqs'[r].today = d
      /\ reqs'[r].p = reqs[r].p /\ reqs'[r].grant = reqs[r].grant
  BY <1>0 DEF Charge, Moves, Typed, ReqTyped, ReqFields
<1>3. /\ DOMAIN row' = RowFields /\ row'.win = d /\ row'.used = u
      /\ row'.hash = row.hash /\ row'.ver = row.ver /\ row'.max = row.max /\ row'.active = row.active
  BY <1>0 DEF Charge, Typed, RowTyped, RowFields
<1>4. /\ DOMAIN hist' = HistFields /\ hist'.charged = [hist.charged EXCEPT ![d] = @ + 1]
      /\ hist'.admitted = hist.admitted /\ hist'.ceiling = hist.ceiling /\ hist'.early = hist.early
      /\ hist'.seen = hist.seen /\ hist'.moved = hist.moved /\ hist'.known = hist.known
  BY <1>0 DEF Charge, Typed, HistTyped, HistFields
<1>5. HistTyped' BY <1>4 DEF Typed, HistTyped
<1>6. \A e \in Days : Using(e)' \subseteq IF e = d THEN Using(e) \union {r} ELSE Using(e)
  BY <1>1, <1>2 DEF Using, Moves
<1>7. reqs[r].grant.win # NoDay => reqs[r].grant.win \in Int BY <1>1, GrantAssumption DEF Offer, Days
<1>8. \/ (row.win = NoDay \/ row.win < d) /\ u = 1
      \/ row.win = d /\ u = row.used + 1
  <2>1. d \in Int BY GrantAssumption DEF Days
  <2> QED BY <1>0, <1>7, <2>1 DEF Resets, Increments
<1>9. hist.ceiling # NoMax => u <= hist.ceiling
  <2>1. hist.ceiling # NoMax => /\ hist.ceiling \in Int /\ reqs[r].grant.max \in Nat \ {0}
                                /\ reqs[r].grant.max <= hist.ceiling
    BY <1>0, <1>1 DEF Offer, Typed, HistTyped
  <2>2. row.used \in Int BY DEF Typed, RowTyped
  <2>3. u = 1 \/ (u = row.used + 1 /\ row.used < reqs[r].grant.max) BY DEF Increments
  <2> QED BY <2>1, <2>2, <2>3
<1>10. Charges'
  <2>1. Cardinality(Using(d)') \in Nat /\ Cardinality(Using(d)') <= Cardinality(Using(d)) + 1
    BY <1>6, UsingGains
  <2>2. hist'.admitted[d] + Cardinality(Using(d)') <= hist.admitted[d] + Cardinality(Using(d)) + 1
    BY <1>4, <2>1, UsingIsFinite DEF Typed, HistTyped
  <2>3. hist'.admitted \in [Days -> Nat] BY <1>4 DEF Typed, HistTyped
  <2>4. \A e \in Days : e # d => hist'.admitted[e] = hist.admitted[e] /\ Using(e)' \subseteq Using(e)
    BY <1>4, <1>6
  <2>5. /\ row'.win = d /\ hist'.ceiling = hist.ceiling /\ hist'.charged = [hist.charged EXCEPT ![d] = @ + 1]
        /\ \/ (row.win = NoDay \/ row.win < d) /\ row'.used = 1
           \/ row.win = d /\ row'.used = row.used + 1
        /\ hist.ceiling # NoMax => row'.used <= hist.ceiling
    BY <1>3, <1>4, <1>8, <1>9
  <2> QED BY <2>1, <2>2, <2>3, <2>4, <2>5, ChargeDay
<1>11. /\ reqs'[r].pc \in Granted /\ ~Budgeted(reqs'[r]) /\ reqs'[r].pc \in Paying
  BY <1>2 DEF Granted, Paying, Consuming, Budgeted
<1>12. row'.win \in Days \union {NoDay} /\ row'.win <= day /\ row'.used \in Int
  BY <1>0, <1>3
<1> QED BY <1>0, <1>1, <1>2, <1>3, <1>4, <1>5, <1>10, <1>11, <1>12, WorkStep

\* The two updates of consumeDailyBudget: a unit, the second update, or a refusal.
LEMMA ConsumeStep ==
  ASSUME GrantInv, NEW r \in Requests, ConsumeReset(r) \/ ConsumeIncrement(r)
  PROVE  GrantInv'
<1> USE DEF GrantInv, BudgetInv, SeenInv
<1>1. /\ day' = day /\ scene' = scene /\ edits' = edits /\ proc' = proc
      /\ reqs[r].pc \in Consuming /\ row.used \in Int /\ row.used + 1 \in Int
  BY DEF ConsumeReset, ConsumeIncrement, Consuming, Typed, RowTyped
<1>2. CASE ConsumeReset(r) /\ Resets(row, reqs[r].grant, reqs[r].today)
  <2>1. Charge(r, 1) BY <1>2 DEF ConsumeReset
  <2> QED BY <1>1, <1>2, <2>1, ChargeStep
<1>3. CASE ConsumeReset(r) /\ ~Resets(row, reqs[r].grant, reqs[r].today)
  <2>1. ReqGoto(r, "increment") /\ row' = row /\ hist' = hist BY <1>3 DEF ConsumeReset
  <2>2. Goes(r, "increment") BY <2>1, GotoFacts DEF Typed
  <2>3. ~reqs[r].charged /\ reqs[r].pc \in Granted /\ row.hash # NoHash
    BY <1>1 DEF Plans, Consuming, Paying, Granted, Unissued
  <2>4. Charges'
    <3>1. \A d \in Days : Using(d)' \subseteq Using(d) BY <2>2, <2>3, FreeUsing DEF Goes
    <3> QED BY <2>1, <3>1, ChargesFrame
  <2>5. Budgeted(reqs[r]) BY <1>1 DEF Budgeted
  <2>6. /\ row'.win \in Days \union {NoDay}
        /\ row'.win # NoDay => row'.win <= day
        /\ DOMAIN row' = RowFields /\ HistTyped'
    BY <2>1, <2>3 DEF Offers, Offer, Typed, RowTyped, HistTyped
  <2>7. reqs'[r].pc \in Granted BY <2>2 DEF Goes, Granted, Consuming
  <2>8. /\ reqs[r].today \in Days /\ reqs[r].today <= day /\ reqs[r].grant.max # NoMax
        /\ reqs[r].grant.win # NoDay => reqs[r].grant.win <= reqs[r].today
    BY <2>5 DEF Plans
  <2>9. /\ Moves(r) /\ reqs'[r].pc = "increment" /\ ~reqs'[r].charged /\ reqs'[r].today = reqs[r].today
        /\ reqs'[r].p = reqs[r].p /\ reqs'[r].grant = reqs[r].grant
    BY <2>2, <2>3 DEF Goes
  <2>10. /\ row'.hash = row.hash /\ row'.ver = row.ver /\ row'.max = row.max /\ row'.active = row.active
         /\ row'.used \in Int /\ hist'.ceiling = hist.ceiling /\ hist'.early = hist.early
         /\ hist'.seen = hist.seen /\ hist'.moved = hist.moved /\ hist'.known = hist.known
    BY <1>1, <2>1
  <2>11. reqs'[r].pc # "refund" /\ reqs'[r].today \in Days BY <2>8, <2>9
  <2> QED BY <1>1, <2>3, <2>4, <2>6, <2>7, <2>8, <2>9, <2>10, <2>11, WorkStep
<1>4. CASE ConsumeIncrement(r) /\ Increments(row, reqs[r].grant, reqs[r].today)
  <2>1. Charge(r, row.used + 1) BY <1>4 DEF ConsumeIncrement
  <2> QED BY <1>1, <1>4, <2>1, ChargeStep
<1>5. CASE ConsumeIncrement(r) /\ ~Increments(row, reqs[r].grant, reqs[r].today)
  <2>1. reqs' = NextPart(r) /\ row' = row /\ hist' = hist BY <1>5 DEF ConsumeIncrement
  <2>2. Settles(r) BY <1>1, <2>1, NextPartFacts DEF Settles, Typed, Granted
  <2>3. Calm BY <1>1, <2>1 DEF Calm, SameHist, SameCaches, Typed, HistTyped, ProcTyped
  <2>4. reqs[r].pc # "idle" BY <1>1 DEF Consuming
  <2> QED BY <2>2, <2>3, <2>4, CalmStep
<1> QED BY <1>2, <1>3, <1>4, <1>5

\* In a changeset the unit is charged and the call admitted in one transaction.
LEMMA ChangesetStep ==
  ASSUME GrantInv, NEW r \in Requests, ChangesetCall(r)
  PROVE  GrantInv'
<1> USE DEF GrantInv, BudgetInv, SeenInv
<1>1. /\ day' = day /\ scene' = scene /\ edits' = edits /\ proc' = proc /\ reqs' = NextPart(r)
      /\ reqs[r].pc = "changeset" /\ reqs[r].pc \in Granted /\ ~reqs[r].charged /\ row.hash # NoHash
  BY DEF ChangesetCall, Granted, Plans, Paying, Unissued
<1>2. Settles(r) /\ (Ends(r) \/ Again(r)) BY <1>1, NextPartFacts DEF Settles, Typed
<1>3. CASE row' = row /\ SameHist
  <2>1. Calm BY <1>1, <1>3 DEF Calm, SameCaches, Typed, ProcTyped
  <2> QED BY <1>1, <1>2, <2>1, CalmStep
<1>4. CASE reqs[r].today = NoDay /\ hist' = [hist EXCEPT !.recorded = @ + 1] /\ row' = row
  <2>1. SameHist BY <1>4 DEF SameHist, Typed, HistTyped, HistFields
  <2> QED BY <1>3, <1>4, <2>1
<1>5. ASSUME reqs[r].today # NoDay,
             \/ Resets(row, reqs[r].grant, reqs[r].today)
             \/ Increments(row, reqs[r].grant, reqs[r].today),
             row' = [row EXCEPT !.win = reqs[r].today,
                                !.used = IF Resets(row, reqs[r].grant, reqs[r].today) THEN 1 ELSE @ + 1],
             hist' = [[hist EXCEPT !.recorded = @ + 1] EXCEPT !.charged[reqs[r].today] = @ + 1,
                                                              !.admitted[reqs[r].today] = @ + 1]
      PROVE  GrantInv'
  <2>0. PICK d \in Days : /\ d = reqs[r].today /\ d <= day /\ reqs[r].grant.max # NoMax
                          /\ reqs[r].grant.win # NoDay => reqs[r].grant.win <= d
    BY <1>1, <1>5 DEF Plans, Budgeted
  <2>1. Offer(reqs[r].grant) BY <1>1 DEF Offers
  <2>a. PICK u : u = IF Resets(row, reqs[r].grant, d) THEN 1 ELSE row.used + 1 OBVIOUS
  <2>2. /\ u \in Int /\ row' = [row EXCEPT !.win = d, !.used = u]
        /\ \/ Resets(row, reqs[r].grant, d) /\ u = 1
           \/ Increments(row, reqs[r].grant, d) /\ u = row.used + 1
    <3>1. row.used \in Int BY DEF Typed, RowTyped
    <3>2. [row EXCEPT !.win = d].used = row.used BY DEF Typed, RowTyped, RowFields
    <3>3. row' = [row EXCEPT !.win = d, !.used = u] BY <1>5, <2>0, <2>a, <3>2
    <3> QED BY <1>5, <2>0, <2>a, <3>1, <3>3
  <2>3. /\ DOMAIN row' = RowFields /\ row'.win = d /\ row'.used = u
        /\ row'.hash = row.hash /\ row'.ver = row.ver /\ row'.max = row.max /\ row'.active = row.active
    BY <2>2 DEF Typed, RowTyped, RowFields
  <2>4. /\ DOMAIN hist' = HistFields /\ hist'.charged = [hist.charged EXCEPT ![d] = @ + 1]
        /\ hist'.admitted = [hist.admitted EXCEPT ![d] = @ + 1] /\ hist'.ceiling = hist.ceiling
        /\ hist'.early = hist.early
        /\ hist'.seen = hist.seen /\ hist'.moved = hist.moved /\ hist'.known = hist.known
    BY <1>5, <2>0 DEF Typed, HistTyped, HistFields
  <2>5. HistTyped' BY <2>4 DEF Typed, HistTyped
  <2>6. \A e \in Days : Using(e)' \subseteq Using(e)
    BY <1>2, SettledUsing
  <2>7. reqs[r].grant.win # NoDay => reqs[r].grant.win \in Int BY <2>1, GrantAssumption DEF Offer, Days
  <2>8. \/ (row.win = NoDay \/ row.win < d) /\ u = 1
        \/ row.win = d /\ u = row.used + 1
    <3>1. d \in Int BY GrantAssumption DEF Days
    <3> QED BY <2>0, <2>2, <2>7, <3>1 DEF Resets, Increments
  <2>9. hist.ceiling # NoMax => u <= hist.ceiling
    <3>1. hist.ceiling # NoMax => /\ hist.ceiling \in Int /\ reqs[r].grant.max \in Nat \ {0}
                                  /\ reqs[r].grant.max <= hist.ceiling
      BY <2>0, <2>1 DEF Offer, Typed, HistTyped
    <3>2. row.used \in Int BY DEF Typed, RowTyped
    <3>3. u = 1 \/ (u = row.used + 1 /\ row.used < reqs[r].grant.max) BY <2>2 DEF Increments
    <3> QED BY <3>1, <3>2, <3>3
  <2>10. Charges'
    <3>1. Cardinality(Using(d)') \in Nat /\ Cardinality(Using(d)') <= Cardinality(Using(d))
      BY <2>6, UsingShrinks
    <3>2. hist.admitted[d] \in Nat /\ hist'.admitted[d] = hist.admitted[d] + 1
      BY <2>4 DEF Typed, HistTyped
    <3>3. hist'.admitted[d] + Cardinality(Using(d)') <= hist.admitted[d] + Cardinality(Using(d)) + 1
      BY <3>1, <3>2, UsingIsFinite
    <3>4. hist'.admitted \in [Days -> Nat] BY <2>5 DEF HistTyped
    <3>5. \A e \in Days : e # d => hist'.admitted[e] = hist.admitted[e] /\ Using(e)' \subseteq Using(e)
      BY <2>4, <2>6 DEF Typed, HistTyped
    <3>6. /\ row'.win = d /\ hist'.ceiling = hist.ceiling /\ hist'.charged = [hist.charged EXCEPT ![d] = @ + 1]
          /\ \/ (row.win = NoDay \/ row.win < d) /\ row'.used = 1
             \/ row.win = d /\ row'.used = row.used + 1
          /\ hist.ceiling # NoMax => row'.used <= hist.ceiling
      BY <2>3, <2>4, <2>8, <2>9
    <3> QED BY <3>1, <3>3, <3>4, <3>5, <3>6, ChargeDay
  <2>11. /\ Moves(r) /\ reqs'[r].pc \in Granted \union {"idle"} /\ ~Budgeted(reqs'[r])
         /\ ~reqs'[r].charged /\ reqs'[r].pc # "refund" /\ reqs'[r].today = NoDay
         /\ reqs'[r].pc \in Granted => reqs'[r].p = reqs[r].p /\ reqs'[r].grant = reqs[r].grant
    BY <1>2 DEF Ends, Again, Granted, Paying, Consuming, Budgeted
  <2>12. row'.win \in Days \union {NoDay} /\ row'.win <= day /\ row'.used \in Int
    BY <2>0, <2>2, <2>3
  <2> QED BY <1>1, <2>3, <2>4, <2>5, <2>10, <2>11, <2>12, WorkStep
<1>6. UNCHANGED <<row, hist>> => row' = row /\ SameHist
  BY DEF SameHist, Typed, HistTyped
<1> QED BY <1>3, <1>4, <1>5, <1>6 DEF ChangesetCall

\* The handler serves the call, which is admitted now, or refuses it.
LEMMA HandleStep ==
  ASSUME GrantInv, NEW r \in Requests, Handle(r)
  PROVE  GrantInv'
<1> USE DEF GrantInv, BudgetInv, SeenInv
<1>1. /\ row' = row /\ day' = day /\ scene' = scene /\ edits' = edits /\ proc' = proc
      /\ reqs[r].pc = "handler" /\ reqs[r].pc \in Paying /\ reqs[r].pc \in Granted /\ row.hash # NoHash
      /\ UNCHANGED hist => SameHist
      /\ SameHist => Calm
  BY DEF Handle, Granted, Paying, Unissued, Calm, SameHist, SameCaches, Typed, HistTyped, ProcTyped
<1>2. CASE reqs' = NextPart(r) /\ ~reqs[r].charged /\ UNCHANGED hist
  <2>1. Settles(r) BY <1>1, <1>2, NextPartFacts DEF Settles, Typed
  <2> QED BY <1>1, <1>2, <2>1, CalmStep
<1>3. CASE ReqGoto(r, IF reqs[r].charged THEN "refund" ELSE "refundUsage") /\ UNCHANGED hist
  <2>1. Goes(r, IF reqs[r].charged THEN "refund" ELSE "refundUsage") BY <1>3, GotoFacts DEF Typed
  <2>2. Settles(r) BY <1>1, <2>1 DEF Settles, Paying
  <2> QED BY <1>1, <1>3, <2>2, CalmStep
<1>4. CASE reqs' = NextPart(r) /\ reqs[r].charged /\ hist' = [hist EXCEPT !.admitted[reqs[r].today] = @ + 1]
  <2>1. Ends(r) \/ Again(r) BY <1>4, NextPartFacts DEF Typed
  <2>2. PICK d \in Days : d = reqs[r].today BY <1>4 DEF Plans
  <2>3. /\ DOMAIN hist' = HistFields /\ hist'.charged = hist.charged
        /\ hist'.admitted = [hist.admitted EXCEPT ![d] = @ + 1] /\ hist'.ceiling = hist.ceiling
        /\ hist'.early = hist.early
        /\ hist'.seen = hist.seen /\ hist'.moved = hist.moved /\ hist'.known = hist.known
    BY <1>4, <2>2 DEF Typed, HistTyped, HistFields
  <2>4. HistTyped' BY <2>3 DEF Typed, HistTyped
  <2>5. /\ Moves(r) /\ reqs'[r].pc \in Granted \union {"idle"} /\ ~Budgeted(reqs'[r])
        /\ ~reqs'[r].charged /\ reqs'[r].pc # "refund" /\ reqs'[r].today = NoDay
        /\ reqs'[r].pc \in Granted => reqs'[r].p = reqs[r].p /\ reqs'[r].grant = reqs[r].grant
    BY <2>1 DEF Ends, Again, Granted, Paying, Consuming, Budgeted
  <2>6. r \in Using(d) /\ Using(d)' = Using(d) \ {r}
    BY <1>1, <1>4, <2>2, <2>5 DEF Using, Moves
  <2>7. \A e \in Days : Using(e)' \subseteq Using(e) BY <2>5, FreeUsing
  <2>8. Charges'
    <3>1. \A e \in Days : hist'.admitted[e] + Cardinality(Using(e)') <= hist'.charged[e]
      <4> TAKE e \in Days
      <4>1. hist.admitted[e] \in Nat /\ hist.charged[e] \in Int
        BY DEF Typed, HistTyped
      <4>2. CASE e = d
        <5>1. hist'.admitted[d] = hist.admitted[d] + 1 BY <2>3 DEF Typed, HistTyped
        <5>2. Cardinality(Using(d)) \in Nat \ {0} /\ Cardinality(Using(d)') = Cardinality(Using(d)) - 1
          BY <2>6, UsingLoses
        <5> QED BY <2>3, <4>1, <4>2, <5>1, <5>2 DEF Charges
      <4>3. CASE e # d
        <5>1. hist'.admitted[e] = hist.admitted[e] BY <2>3, <4>3 DEF Typed, HistTyped
        <5> QED BY <2>3, <2>7, <4>1, <5>1, UsingShrinks, UsingIsFinite DEF Charges
      <4> QED BY <4>2, <4>3
    <3> QED BY <1>1, <2>3, <3>1 DEF Charges
  <2>9. /\ row'.used \in Int /\ DOMAIN row' = RowFields /\ row'.win \in Days \union {NoDay}
        /\ row'.win # NoDay => row'.win <= day
    BY <1>1 DEF Offers, Offer, Typed, RowTyped
  <2> QED BY <1>1, <2>3, <2>4, <2>5, <2>8, <2>9, WorkStep
<1> QED BY <1>2, <1>3, <1>4 DEF Handle

\* A refund takes a unit back from the day it was charged to, and from the counter if
\* the window is still that day.
LEMMA RefundStep ==
  ASSUME GrantInv, NEW r \in Requests, RefundDailyBudget(r)
  PROVE  GrantInv'
<1> USE DEF GrantInv, BudgetInv, SeenInv
<1>1. /\ day' = day /\ scene' = scene /\ edits' = edits /\ proc' = proc
      /\ reqs[r].pc = "refund" /\ reqs[r].pc \in Paying /\ reqs[r].pc \in Granted /\ row.hash # NoHash
      /\ ReqGoto(r, "refundUsage") /\ reqs[r].charged
  BY DEF RefundDailyBudget, Granted, Paying, Unissued, Plans
<1>2. Goes(r, "refundUsage") BY <1>1, GotoFacts DEF Typed
<1>3. CASE UNCHANGED <<row, hist>>
  <2>1. Calm BY <1>1, <1>3 DEF Calm, SameHist, SameCaches, Typed, HistTyped, ProcTyped
  <2>2. Settles(r) BY <1>1, <1>2 DEF Settles
  <2> QED BY <1>1, <2>1, <2>2, CalmStep
<1>4. CASE /\ row' = IF Refunds(row, reqs[r].today) THEN [row EXCEPT !.used = @ - 1] ELSE row
           /\ hist' = [hist EXCEPT !.charged[reqs[r].today] = @ - 1]
  <2>1. PICK d \in Days : d = reqs[r].today BY <1>1 DEF Plans
  <2>2. /\ DOMAIN hist' = HistFields /\ hist'.charged = [hist.charged EXCEPT ![d] = @ - 1]
        /\ hist'.admitted = hist.admitted /\ hist'.ceiling = hist.ceiling
        /\ hist'.early = hist.early
        /\ hist'.seen = hist.seen /\ hist'.moved = hist.moved /\ hist'.known = hist.known
    BY <1>4, <2>1 DEF Typed, HistTyped, HistFields
  <2>3. HistTyped' BY <2>2 DEF Typed, HistTyped
  <2>4. /\ DOMAIN row' = RowFields /\ row'.win = row.win
        /\ row'.hash = row.hash /\ row'.ver = row.ver /\ row'.max = row.max /\ row'.active = row.active
        /\ row'.used = IF Refunds(row, d) THEN row.used - 1 ELSE row.used
    BY <1>4, <2>1 DEF Typed, RowTyped, RowFields
  <2>5. r \in Using(d) /\ Using(d)' = Using(d) \ {r}
    BY <1>1, <1>2, <2>1 DEF Using, Goes, Moves, Paying
  <2>6. \A e \in Days : e # d => Using(e)' \subseteq Using(e)
    BY <1>1, <1>2, <2>1 DEF Using, Goes, Moves
  <2>7. Cardinality(Using(d)) \in Nat \ {0} /\ Cardinality(Using(d)') = Cardinality(Using(d)) - 1
    BY <2>5, UsingLoses
  <2>8. \A e \in Days : /\ hist.admitted[e] \in Nat /\ hist.charged[e] \in Int
                        /\ hist'.charged[e] = IF e = d THEN hist.charged[d] - 1 ELSE hist.charged[e]
    BY <2>2 DEF Typed, HistTyped
  <2>9. hist.charged[d] >= 1 BY <2>7, <2>8 DEF Charges
  <2>10. Charges'
    <3>1. \A e \in Days : hist'.admitted[e] + Cardinality(Using(e)') <= hist'.charged[e]
      <4> TAKE e \in Days
      <4>1. CASE e = d BY <2>2, <2>7, <2>8, <4>1 DEF Charges
      <4>2. CASE e # d BY <2>2, <2>6, <2>8, <4>2, UsingShrinks, UsingIsFinite DEF Charges
      <4> QED BY <4>1, <4>2
    <3>2. \A e \in Days : hist'.charged[e] # 0 => row'.win # NoDay /\ e <= row'.win
      <4> TAKE e \in Days
      <4>1. CASE e = d BY <2>4, <2>9, <4>1 DEF Charges
      <4>2. CASE e # d BY <2>4, <2>8, <4>2 DEF Charges
      <4> QED BY <4>1, <4>2
    <3>3. row'.win # NoDay => row'.used = hist'.charged[row'.win]
      <4> SUFFICES ASSUME row.win # NoDay PROVE row'.used = hist'.charged[row.win]
        BY <2>4
      <4>1. row.win \in Days /\ row.used = hist.charged[row.win]
        BY DEF Typed, RowTyped, Charges
      <4>2. CASE row.win = d BY <2>4, <2>8, <2>9, <4>1, <4>2 DEF Refunds
      <4>3. CASE row.win # d BY <2>4, <2>8, <4>1, <4>3 DEF Refunds
      <4> QED BY <4>2, <4>3
    <3>4. hist'.ceiling # NoMax => \A e \in Days : hist'.charged[e] <= hist'.ceiling
      <4> SUFFICES ASSUME hist.ceiling # NoMax, NEW e \in Days PROVE hist'.charged[e] <= hist.ceiling
        BY <2>2
      <4>1. hist.ceiling \in Int /\ hist.charged[e] <= hist.ceiling BY DEF Typed, HistTyped, Charges
      <4> QED BY <2>8, <4>1
    <3> QED BY <3>1, <3>2, <3>3, <3>4 DEF Charges
  <2>11. /\ row'.used \in Int /\ row'.win \in Days \union {NoDay}
         /\ row'.win # NoDay => row'.win <= day
    BY <1>1, <2>4 DEF Offers, Offer, Typed, RowTyped
  <2>12. /\ Moves(r) /\ reqs'[r].pc = "refundUsage" /\ reqs'[r].today = d
         /\ reqs'[r].p = reqs[r].p /\ reqs'[r].grant = reqs[r].grant
         /\ ~Budgeted(reqs'[r]) /\ reqs'[r].pc \in Granted
    BY <1>2, <2>1 DEF Goes, Budgeted, Consuming, Granted
  <2> QED BY <1>1, <2>2, <2>3, <2>4, <2>10, <2>11, <2>12, WorkStep
<1> QED BY <1>3, <1>4 DEF RefundDailyBudget

--------------------------------------------------------------------------------
(***************************************************************************)
(* The steps of an edit, and of the environment.                           *)
(***************************************************************************)

\* What an edit makes of the row: a new version, with the same window and counter, a
\* new token if it is a rotation, and a maximum that is valid and below the ceiling.
LEMMA EditedFacts ==
  ASSUME Typed, Unissued, Offers, NEW p \in Procs, edits[p].pc \in {"write", "commit"}, NEW g, g = Edited(edits[p])
  PROVE  /\ DOMAIN g = RowFields /\ g.ver = row.ver + 1 /\ g.win = row.win /\ g.used = row.used
         /\ g.hash = IF edits[p].kind = "rotate" THEN row.hash + 1 ELSE row.hash
         /\ row.hash \in Nat
         /\ g.max # NoMax => /\ g.max \in Nat \ {0}
                             /\ Ceiling(g) # NoMax => g.max <= Ceiling(g)
         /\ Ceiling(g) \in Int \union {NoMax}
         /\ \/ Ceiling(g) = hist.ceiling
            \/ hist.ceiling \in Int /\ Ceiling(g) \in Int /\ hist.ceiling <= Ceiling(g)
<1>1. row.hash # NoHash /\ row.hash \in Nat /\ Offer(row)
  BY DEF Unissued, Typed, RowTyped, Offers
<1>2. PICK e : e = edits[p] OBVIOUS
<1>3. e.kind \in {"revoke", "rotate", "update"}
  BY <1>2 DEF Typed, EditTyped
<1>4. /\ DOMAIN g = RowFields /\ g.ver = row.ver + 1 /\ g.win = row.win /\ g.used = row.used
      /\ g.hash = IF e.kind = "rotate" THEN row.hash + 1 ELSE row.hash
      /\ g.max = row.max \/ g.max \in (Nat \ {0}) \union {NoMax}
  <2>1. CASE e.kind = "revoke"
    <3>1. g = [[row EXCEPT !.active = FALSE] EXCEPT !.ver = @ + 1] BY <1>2, <2>1 DEF Edited
    <3> QED BY <2>1, <3>1 DEF Typed, RowTyped, RowFields
  <2>2. CASE e.kind = "rotate"
    <3>1. g = [[row EXCEPT !.hash = @ + 1] EXCEPT !.ver = @ + 1] BY <1>2, <2>2 DEF Edited
    <3> QED BY <2>2, <3>1 DEF Typed, RowTyped, RowFields
  <2>3. CASE e.kind = "update"
    <3>1. g = [Patched(row, e.patch) EXCEPT !.ver = @ + 1] BY <1>2, <2>3 DEF Edited
    <3>2. /\ DOMAIN e.patch \subseteq Editable
          /\ "max" \in DOMAIN e.patch => e.patch.max \in (Nat \ {0}) \union {NoMax}
      BY <1>2, <2>3 DEF Typed, EditTyped
    <3>3. PICK m : m = Patched(row, e.patch) OBVIOUS
    <3>4. /\ DOMAIN m = RowFields /\ m.ver = row.ver /\ m.win = row.win /\ m.used = row.used /\ m.hash = row.hash
          /\ m.max = row.max \/ m.max \in (Nat \ {0}) \union {NoMax}
      BY <3>2, <3>3 DEF Patched, Typed, RowTyped, RowFields, Editable
    <3> QED BY <2>3, <3>1, <3>3, <3>4 DEF RowFields
  <2> QED BY <1>3, <2>1, <2>2, <2>3
<1>5. g.max # NoMax => g.max \in Nat \ {0} BY <1>1, <1>4 DEF Offer
<1>6. hist.ceiling \in Int \union {NoMax} BY DEF Typed, HistTyped
<1> QED BY <1>1, <1>2, <1>4, <1>5, <1>6, GrantAssumption DEF Ceiling

\* The memory of an edit that moves on, and of one that ends.
LEMMA EditMoves ==
  ASSUME Typed, NEW p \in Procs,
         \/ edits[p].pc \in {"write", "invalidate"} /\ \E x \in {"invalidate", "commit"} : \E k :
              /\ edits' = [edits EXCEPT ![p].pc = x, ![p].kind = k]
              /\ k \in {edits[p].kind, "none"}
              /\ x = "commit" => k \in {"revoke", "rotate", "update"}
         \/ edits' = [edits EXCEPT ![p] = NoEdit]
  PROVE  EditTyped'
<1>1. CASE edits' = [edits EXCEPT ![p] = NoEdit]
  <2>1. DOMAIN NoEdit = EditFields /\ NoEdit.pc = "idle" BY DEF NoEdit, EditFields
  <2> HIDE DEF NoEdit
  <2> QED BY <1>1, <2>1 DEF Typed, EditTyped
<1>2. ASSUME edits[p].pc \in {"write", "invalidate"}, NEW x \in {"invalidate", "commit"}, NEW k,
             edits' = [edits EXCEPT ![p].pc = x, ![p].kind = k],
             k \in {edits[p].kind, "none"},
             x = "commit" => k \in {"revoke", "rotate", "update"}
      PROVE  EditTyped'
  <2>1. /\ DOMAIN edits' = Procs /\ DOMAIN edits'[p] = EditFields
        /\ edits'[p].pc = x /\ edits'[p].kind = k /\ edits'[p].patch = edits[p].patch
        /\ \A s \in Procs : s # p => edits'[s] = edits[s]
    BY <1>2 DEF Typed, EditTyped, EditFields
  <2>2. /\ edits'[p].pc \in {"write", "commit"} => edits'[p].kind \in {"revoke", "rotate", "update"}
        /\ edits'[p].pc = "invalidate" => edits'[p].kind \in {"revoke", "rotate", "update", "none"}
    BY <1>2, <2>1, ZenonT(80) DEF Typed, EditTyped
  <2>3. ASSUME edits'[p].kind = "update"
        PROVE  /\ DOMAIN edits'[p].patch \subseteq Editable
               /\ "max" \in DOMAIN edits'[p].patch => edits'[p].patch.max \in (Nat \ {0}) \union {NoMax}
    <3>1. edits[p].kind = "update" BY <1>2, <2>1, <2>3
    <3> QED BY <1>2, <2>1, <3>1 DEF Typed, EditTyped
  <2> QED BY <2>1, <2>2, <2>3 DEF Typed, EditTyped
<1> QED BY <1>1, <1>2

\* The budget's invariant survives a step that leaves the row, the requests and the
\* budget's history alone and adds nothing to a cache.
LEMMA MemoryBudget ==
  ASSUME BudgetInv, row' = row, reqs' = reqs, day' = day, scene' = scene, row.hash # NoHash,
         HistTyped', hist'.charged = hist.charged, hist'.admitted = hist.admitted, hist'.ceiling = hist.ceiling,
         ProcTyped', EditTyped',
         \A p \in Procs : \A h \in DOMAIN proc'[p].cache :
           h \in DOMAIN proc[p].cache /\ proc'[p].cache[h] = proc[p].cache[h]
  PROVE  BudgetInv'
<1> USE DEF BudgetInv
<1>1. Typed'
  <2>1. RowTyped' /\ SceneTyped' /\ ReqTyped' BY DEF Typed, RowTyped, SceneTyped, ReqTyped
  <2> QED BY <2>1 DEF Typed
<1>2. Unissued' BY DEF Unissued
<1>3. \A g : Offer(g) <=> Offer(g)' BY DEF Offer
<1>4. Offers' BY <1>3 DEF Offers
<1>5. Plans' BY DEF Plans, Budgeted
<1>6. \A d \in Days : Using(d)' \subseteq Using(d) BY DEF Using
<1>7. Charges' BY <1>6, ChargesFrame
<1> QED BY <1>1, <1>2, <1>4, <1>5, <1>7

\* An administration call is admitted and validated, or refused.
LEMMA RequestEditStep ==
  ASSUME GrantInv, NEW p \in Procs, NEW e \in scene.edits, RequestEdit(p, e.tx, e.kind, e.patch)
  PROVE  GrantInv'
<1> USE DEF GrantInv, BudgetInv, SeenInv
<1>1. /\ row' = row /\ reqs' = reqs /\ day' = day /\ scene' = scene /\ hist' = hist
      /\ row.hash # NoHash /\ edits[p].pc = "idle"
  BY DEF RequestEdit
<1>2. SameCaches
  <2>1. CASE proc' = proc BY <2>1 DEF SameCaches, Typed, ProcTyped
  <2>2. ASSUME NEW l, proc' = [proc EXCEPT ![p].admin = l] PROVE SameCaches
    BY <2>2 DEF SameCaches, Typed, ProcTyped, ProcFields
  <2> QED BY <2>1, <2>2 DEF RequestEdit
<1>3. /\ EditTyped'
      /\ \A s \in Procs : (Rotating(s)' <=> Rotating(s)) /\ (edits'[s].pc = "commit" => edits[s].pc = "commit")
  <2>1. CASE edits' = edits BY <2>1 DEF Typed, EditTyped, Rotating
  <2>2. CASE /\ edits' = [edits EXCEPT ![p] = [pc |-> "write", tx |-> e.tx, kind |-> e.kind, patch |-> e.patch]]
             /\ e.kind = "update" => ValidInput(Patched(row, e.patch))
    <3>1. /\ e.kind \in {"revoke", "rotate", "update"} /\ DOMAIN e.patch \subseteq Editable
          /\ "max" \in DOMAIN e.patch => e.patch.max \in Int \union {NoMax}
      BY GrantAssumption DEF Typed, SceneTyped
    <3>2. ASSUME e.kind = "update", "max" \in DOMAIN e.patch PROVE e.patch.max \in (Nat \ {0}) \union {NoMax}
      <4>1. PICK m : m = Patched(row, e.patch) OBVIOUS
      <4>2. m.max = e.patch.max BY <3>2, <4>1 DEF Patched, Typed, RowTyped, RowFields
      <4>3. m.max # NoMax => m.max >= 1 BY <2>2, <3>2, <4>1 DEF ValidInput
      <4> QED BY <3>1, <3>2, <4>2, <4>3
    <3>3. PICK f : f = [pc |-> "write", tx |-> e.tx, kind |-> e.kind, patch |-> e.patch] OBVIOUS
    <3>4. DOMAIN f = EditFields /\ f.pc = "write" /\ f.kind = e.kind /\ f.patch = e.patch
      BY <3>3 DEF EditFields
    <3>5. /\ DOMAIN edits' = Procs /\ edits'[p] = f
          /\ \A s \in Procs : s # p => edits'[s] = edits[s]
      BY <2>2, <3>3 DEF Typed, EditTyped
    <3>6. EditTyped' BY <3>1, <3>2, <3>4, <3>5 DEF Typed, EditTyped
    <3> QED BY <1>1, <3>4, <3>5, <3>6 DEF Rotating
  <2> QED BY <2>1, <2>2 DEF RequestEdit
<1>4. BudgetInv'
  <2>1. HistTyped' BY <1>1 DEF Typed, HistTyped
  <2>2. ProcTyped' BY <1>2 DEF SameCaches, Typed, ProcTyped
  <2>3. \A s \in Procs : \A h \in DOMAIN proc'[s].cache :
           h \in DOMAIN proc[s].cache /\ proc'[s].cache[h] = proc[s].cache[h]
    BY <1>2 DEF SameCaches
  <2> QED BY <1>1, <1>3, <2>1, <2>2, <2>3, MemoryBudget
<1>5. Numbers' /\ Rotations' /\ Cached'
  <2>1. FewerCaches BY <1>2 DEF SameCaches, FewerCaches
  <2> QED BY <1>1, <1>3, <2>1, CachedKept
<1> QED BY <1>4, <1>5

\* The budget's invariant survives a committed edit: it changes neither window nor
\* counter, and the ceiling follows the maximum.
LEMMA EditedBudget ==
  ASSUME BudgetInv, NEW p \in Procs, edits[p].pc \in {"write", "commit"}, row' = Edited(edits[p]),
         reqs' = reqs, day' = day, scene' = scene, proc' = proc, EditTyped', HistTyped',
         hist'.charged = hist.charged, hist'.admitted = hist.admitted, hist'.ceiling = Ceiling(Edited(edits[p]))
  PROVE  BudgetInv'
<1> USE DEF BudgetInv
<1>0. PICK g : g = Edited(edits[p]) OBVIOUS
<1>1. /\ DOMAIN g = RowFields /\ g.ver = row.ver + 1 /\ g.win = row.win /\ g.used = row.used
      /\ g.hash = IF edits[p].kind = "rotate" THEN row.hash + 1 ELSE row.hash
      /\ row.hash \in Nat
      /\ g.max # NoMax => /\ g.max \in Nat \ {0}
                          /\ Ceiling(g) # NoMax => g.max <= Ceiling(g)
      /\ Ceiling(g) \in Int \union {NoMax}
      /\ \/ Ceiling(g) = hist.ceiling
         \/ hist.ceiling \in Int /\ Ceiling(g) \in Int /\ hist.ceiling <= Ceiling(g)
  BY <1>0, EditedFacts
<1>2. row' = g /\ hist'.ceiling = Ceiling(g) BY <1>0
<1>3. Typed'
  <2>1. RowTyped'
    <3>1. g.hash \in Nat /\ g.ver \in Nat /\ g.max \in Int \union {NoMax}
      BY <1>1 DEF Typed, RowTyped
    <3> QED BY <1>1, <1>2, <3>1 DEF Typed, RowTyped
  <2>2. SceneTyped' /\ ReqTyped' /\ ProcTyped' BY DEF Typed, SceneTyped, ReqTyped, ProcTyped
  <2> QED BY <2>1, <2>2 DEF Typed
<1>4. row.hash # NoHash /\ row'.hash # NoHash /\ Offer(row)
  BY <1>1, <1>2, GrantAssumption DEF Offers
<1>5. Unissued' BY <1>4 DEF Unissued
<1>6. \A x : Offer(x) => Offer(x)'
  BY <1>1, <1>2, GrantAssumption DEF Offer
<1>7. Offer(row)' BY <1>1, <1>2, <1>4 DEF Offer
<1>8. Offers' BY <1>6, <1>7 DEF Offers
<1>9. Plans' BY DEF Plans, Budgeted
<1>10. Charges'
  <2>1. \A d \in Days : Using(d)' \subseteq Using(d) BY DEF Using
  <2> QED BY <1>1, <1>2, <2>1, ChargesFrame
<1> QED BY <1>3, <1>5, <1>8, <1>9, <1>10

\* The UPDATE of an edit: outside a transaction it is committed at once, and a rotation
\* is not yet dropped from the cache.
LEMMA EditWriteStep ==
  ASSUME GrantInv, NEW p \in Procs, EditWrite(p)
  PROVE  GrantInv'
<1> USE DEF GrantInv, BudgetInv, SeenInv
<1>1. /\ edits[p].pc = "write" /\ reqs' = reqs /\ day' = day /\ scene' = scene /\ proc' = proc
      /\ row.hash # NoHash /\ FewerCaches /\ ProcTyped'
  BY DEF EditWrite, Unissued, FewerCaches, Typed, ProcTyped
<1>2. \A s \in Requests : reqs'[s].pc \in Looking => reqs'[s] = reqs[s] BY <1>1
<1>3. ASSUME UNCHANGED <<row, hist>>,
             \/ edits' = [edits EXCEPT ![p].pc = "invalidate", ![p].kind = "none"]
             \/ edits' = [edits EXCEPT ![p].pc = "invalidate"] /\ edits[p].tx
      PROVE  GrantInv'
  <2>1. EditTyped'
    <3>1. edits' = [edits EXCEPT ![p].pc = "invalidate"]
            => edits' = [edits EXCEPT ![p].pc = "invalidate", ![p].kind = edits[p].kind]
      BY DEF Typed, EditTyped, EditFields
    <3> QED BY <1>1, <1>3, <3>1, EditMoves
  <2>2. \A s \in Procs : (Rotating(s)' <=> Rotating(s)) /\ (edits'[s].pc = "commit" => edits[s].pc = "commit")
    BY <1>1, <1>3 DEF Rotating, Typed, EditTyped, EditFields
  <2>3. HistTyped' BY <1>3 DEF Typed, HistTyped
  <2>4. BudgetInv' BY <1>1, <1>3, <2>1, <2>3, MemoryBudget
  <2>5. Numbers' /\ Rotations' /\ Cached' BY <1>1, <1>2, <1>3, <2>2, CachedKept
  <2> QED BY <2>4, <2>5
<1>4. ASSUME edits' = [edits EXCEPT ![p].pc = "invalidate"], ~edits[p].tx,
             row' = Edited(edits[p]), hist' = Committed(hist, p, edits[p])
      PROVE  GrantInv'
  <2>0. PICK g : g = Edited(edits[p]) OBVIOUS
  <2>1. /\ g.ver = row.ver + 1 /\ row.hash \in Nat /\ row.ver \in Nat
        /\ g.hash = IF edits[p].kind = "rotate" THEN row.hash + 1 ELSE row.hash
        /\ Ceiling(g) \in Int \union {NoMax} /\ row' = g
    BY <1>1, <1>4, <2>0, EditedFacts DEF Typed, RowTyped
  <2>2. /\ DOMAIN hist' = HistFields /\ hist'.charged = hist.charged /\ hist'.admitted = hist.admitted
        /\ hist'.ceiling = Ceiling(g) /\ hist'.early = hist.early /\ hist'.seen = hist.seen
        /\ hist'.known = hist.known
        /\ hist'.moved = [q \in Procs |-> hist.moved[q] \/ (edits[p].kind = "rotate" /\ q # p)]
    BY <1>4, <2>0 DEF Committed, Typed, HistTyped, HistFields
  <2>3. HistTyped' BY <2>1, <2>2 DEF Typed, HistTyped
  <2>4. /\ DOMAIN edits' = Procs /\ edits'[p].pc = "invalidate" /\ edits'[p].kind = edits[p].kind
        /\ edits'[p].tx = edits[p].tx /\ edits'[p].patch = edits[p].patch /\ DOMAIN edits'[p] = EditFields
        /\ \A s \in Procs : s # p => edits'[s] = edits[s]
    BY <1>4 DEF Typed, EditTyped, EditFields
  <2>5. EditTyped' BY <1>1, <2>4 DEF Typed, EditTyped
  <2>6. BudgetInv' BY <1>1, <1>4, <2>0, <2>2, <2>3, <2>5, EditedBudget
  <2>7. ~Rotating(p) /\ (Rotating(p)' <=> edits[p].kind = "rotate")
    BY <1>1, <1>4, <2>4 DEF Rotating
  <2>8. \A s \in Procs : s # p => (Rotating(s)' <=> Rotating(s)) BY <2>4 DEF Rotating
  <2>9. \A s \in Procs : ~hist'.moved[s] => ~hist.moved[s] /\ LiveHash(s)' = LiveHash(s)
    <3>1. SUFFICES ASSUME NEW s \in Procs, ~hist'.moved[s]
                   PROVE  ~hist.moved[s] /\ LiveHash(s)' = LiveHash(s)
      OBVIOUS
    <3>2. ~hist.moved[s] /\ ~(edits[p].kind = "rotate" /\ s # p) BY <2>2, <3>1
    <3>3. CASE s = p BY <2>1, <2>7, <3>2, <3>3 DEF LiveHash
    <3>4. CASE s # p
      <4>1. row'.hash = row.hash BY <2>1, <3>2, <3>4
      <4> QED BY <2>8, <3>2, <3>4, <4>1 DEF LiveHash
    <3> QED BY <3>3, <3>4
  <2>10. Numbers'
    <3>1. \A s \in Procs : hist.seen[s] \in Nat /\ hist.seen[s] <= row.ver + 1
      BY <2>1 DEF Numbers, Typed, HistTyped
    <3>2. hist.known \in Nat /\ hist.known <= row'.hash BY <1>1, <2>1 DEF Numbers, Typed, HistTyped
    <3> QED BY <1>1, <2>1, <2>2, <3>1, <3>2 DEF Numbers
  <2>11. Rotations'
    <3> SUFFICES ASSUME NEW s \in Procs, Rotating(s)'
                 PROVE  /\ \A q \in Procs \ {s} : hist'.moved[q]
                        /\ hist'.moved[s] \/ row'.hash > hist'.known
      BY DEF Rotations
    <3>1. hist.known \in Nat /\ hist.known <= row.hash BY <1>1 DEF Numbers, Typed, HistTyped
    <3>2. \A q \in Procs : hist'.moved[q] <=> hist.moved[q] \/ (edits[p].kind = "rotate" /\ q # p)
      BY <2>2
    <3>3. row'.hash \in Nat /\ row.hash <= row'.hash BY <2>1
    <3>4. CASE s = p
      <4>1. edits[p].kind = "rotate" BY <2>7, <3>4
      <4>2. row'.hash > hist'.known BY <2>1, <2>2, <3>1, <4>1
      <4> QED BY <3>2, <3>4, <4>1, <4>2
    <3>5. CASE s # p
      <4>1. Rotating(s) BY <2>8, <3>5
      <4>2. \A q \in Procs \ {s} : hist.moved[q] BY <4>1 DEF Rotations
      <4>3. hist.moved[s] \/ row.hash > hist.known BY <4>1 DEF Rotations
      <4>4. row.hash > hist.known => row'.hash > hist'.known BY <2>1, <2>2, <3>1, <3>3
      <4> QED BY <3>2, <4>2, <4>3, <4>4
    <3> QED BY <3>4, <3>5
  <2>12. Cached'
    <3>1. \A s \in Procs : ~hist'.moved[s] => \A x : Current(s, x) <=> Current(s, x)'
      BY <2>2, <2>9 DEF Current
    <3>2. \A q \in Requests, s \in Procs : Fresh(q, s)' <=> Fresh(q, s) BY <1>1 DEF Fresh
    <3>3. \A s \in Procs : edits'[s].pc = "commit" => edits[s].pc = "commit" BY <2>4
    <3> QED BY <1>1, <2>2, <2>9, <3>1, <3>2, <3>3 DEF Cached
  <2> QED BY <2>6, <2>10, <2>11, <2>12
<1> QED BY <1>3, <1>4 DEF EditWrite

\* The commit of an edit made in a transaction, answered with it.
LEMMA EditCommitStep ==
  ASSUME GrantInv, NEW p \in Procs, EditCommit(p)
  PROVE  GrantInv'
<1> USE DEF GrantInv, BudgetInv, SeenInv
<1>1. /\ edits[p].pc = "commit" /\ reqs' = reqs /\ day' = day /\ scene' = scene /\ proc' = proc
      /\ row.hash # NoHash /\ ProcTyped' /\ edits' = [edits EXCEPT ![p] = NoEdit] /\ row' = Edited(edits[p])
      /\ hist' = Answered(Committed(hist, p, edits[p]), p, edits[p].kind, Edited(edits[p]))
  BY DEF EditCommit, Unissued, Typed, ProcTyped
<1>2. PICK g : g = Edited(edits[p]) OBVIOUS
<1>3. /\ g.ver = row.ver + 1 /\ row.hash \in Nat /\ row.ver \in Nat
      /\ g.hash = IF edits[p].kind = "rotate" THEN row.hash + 1 ELSE row.hash
      /\ Ceiling(g) \in Int \union {NoMax} /\ row' = g
  BY <1>1, <1>2, EditedFacts DEF Typed, RowTyped
<1>4. /\ DOMAIN hist' = HistFields /\ hist'.charged = hist.charged /\ hist'.admitted = hist.admitted
      /\ hist'.ceiling = Ceiling(g) /\ hist'.early = hist.early
      /\ hist'.seen = [hist.seen EXCEPT ![p] = IF edits[p].kind = "none" THEN @ ELSE g.ver]
      /\ hist'.known = IF edits[p].kind = "rotate" THEN g.hash ELSE hist.known
      /\ hist'.moved = [q \in Procs |-> hist.moved[q] \/ (edits[p].kind = "rotate" /\ q # p)]
  BY <1>1, <1>2 DEF Answered, Committed, Typed, HistTyped, HistFields
<1>5. HistTyped'
  <2>1. g.ver \in Nat /\ g.hash \in Nat BY <1>3
  <2> QED BY <1>3, <1>4, <2>1 DEF Typed, HistTyped
<1>6. /\ NoEdit.pc = "idle" /\ DOMAIN edits' = Procs /\ edits'[p] = NoEdit
      /\ \A s \in Procs : s # p => edits'[s] = edits[s]
  BY <1>1 DEF NoEdit, Typed, EditTyped
<1>7. EditTyped' BY <1>1, EditMoves
<1>8. BudgetInv' BY <1>1, <1>2, <1>4, <1>5, <1>7, EditedBudget
<1>9. ~Rotating(p)' BY <1>6 DEF Rotating
<1>10. \A s \in Procs : s # p => (Rotating(s)' <=> Rotating(s)) BY <1>6 DEF Rotating
<1>11. Numbers'
  <2>1. \A s \in Procs : hist'.seen[s] <= row'.ver
    <3> TAKE s \in Procs
    <3>1. hist.seen[s] \in Nat /\ hist.seen[s] <= row.ver BY DEF Numbers, Typed, HistTyped
    <3>2. hist'.seen[s] \in {hist.seen[s], g.ver} BY <1>4 DEF Typed, HistTyped
    <3> QED BY <1>3, <3>1, <3>2
  <2>2. hist.known \in Nat /\ hist.known <= hist'.known /\ hist'.known <= row'.hash
    BY <1>1, <1>3, <1>4 DEF Numbers, Typed, HistTyped
  <2>3. \A r \in Requests : reqs[r].pc = "select" => reqs[r].hash \in Int /\ reqs[r].hash <= hist'.known
    <3> TAKE r \in Requests
    <3>1. reqs[r].pc = "select" => reqs[r].hash \in Int /\ reqs[r].hash <= hist.known BY DEF Numbers, Looking
    <3>2. hist'.known \in Nat BY <1>5 DEF HistTyped
    <3> QED BY <2>2, <3>1, <3>2
  <2> QED BY <1>1, <2>1, <2>2, <2>3 DEF Numbers
<1>12. Rotations'
  <2> SUFFICES ASSUME NEW s \in Procs, Rotating(s)'
               PROVE  /\ \A q \in Procs \ {s} : hist'.moved[q]
                      /\ hist'.moved[s] \/ row'.hash > hist'.known
    BY DEF Rotations
  <2>1. s # p /\ Rotating(s) BY <1>9, <1>10
  <2>2. \A q \in Procs \ {s} : hist'.moved[q] BY <1>4, <2>1 DEF Rotations
  <2>3. edits[p].kind = "rotate" => hist'.moved[s] BY <1>4, <2>1
  <2>4. edits[p].kind # "rotate" => hist'.known = hist.known /\ row'.hash = row.hash
    BY <1>3, <1>4
  <2>5. hist.moved[s] => hist'.moved[s] BY <1>4
  <2> QED BY <2>1, <2>2, <2>3, <2>4, <2>5 DEF Rotations
<1>13. Cached'
  <2>1. \A q \in Requests, s \in Procs : Fresh(q, s)' <=> Fresh(q, s) BY <1>1 DEF Fresh
  <2>2. \A s \in Procs : hist.moved[s] => hist'.moved[s] BY <1>4
  <2>3. \A s \in Procs : s # p /\ ~hist'.moved[s] =>
          LiveHash(s)' = LiveHash(s) /\ \A x : Current(s, x) <=> Current(s, x)'
    <3> SUFFICES ASSUME NEW s \in Procs, s # p, ~hist'.moved[s]
                 PROVE  LiveHash(s)' = LiveHash(s) /\ \A x : Current(s, x) <=> Current(s, x)'
      OBVIOUS
    <3>1. row'.hash = row.hash BY <1>3, <1>4
    <3>2. LiveHash(s)' = LiveHash(s) BY <1>10, <3>1 DEF LiveHash
    <3>3. hist'.seen[s] = hist.seen[s] BY <1>4 DEF Typed, HistTyped
    <3> QED BY <3>2, <3>3 DEF Current
  <2>4. ~hist.early /\ ~hist.moved[p] => DOMAIN proc[p].cache = {} /\ \A q \in Requests : ~Fresh(q, p)
    BY <1>1 DEF Cached
  <2>5. ASSUME NEW s \in Procs, ~hist'.early, ~hist'.moved[s]
        PROVE  /\ \A h \in DOMAIN proc'[s].cache :
                    h = proc'[s].hashOf /\ h = LiveHash(s)' /\ Current(s, proc[s].cache[h])'
               /\ \A q \in Requests : Fresh(q, s)' => Current(s, reqs[q].grant)'
               /\ edits'[s].pc = "commit" => /\ DOMAIN proc'[s].cache = {}
                                            /\ \A q \in Requests : ~Fresh(q, s)'
    <3>1. ~hist.early /\ ~hist.moved[s] BY <1>4, <2>2, <2>5
    <3>2. CASE s = p BY <1>1, <1>6, <2>1, <2>4, <3>1, <3>2
    <3>3. CASE s # p BY <1>1, <1>6, <2>1, <2>3, <2>5, <3>1, <3>3 DEF Cached
    <3> QED BY <3>2, <3>3
  <2>6. \A s \in Procs : \A h \in DOMAIN proc'[s].cache : h \in Nat BY <1>1 DEF Cached
  <2> QED BY <2>5, <2>6 DEF Cached
<1> QED BY <1>8, <1>11, <1>12, <1>13

\* invalidateTokenCache: the one entry a process may have is gone, and so is every
\* lookup that might add one.
LEMMA EditInvalidateStep ==
  ASSUME GrantInv, NEW p \in Procs, EditInvalidate(p)
  PROVE  GrantInv'
<1> USE DEF GrantInv, BudgetInv, SeenInv
<1>1. /\ edits[p].pc = "invalidate" /\ reqs' = reqs /\ day' = day /\ scene' = scene /\ row' = row
      /\ row.hash # NoHash /\ row.hash \in Nat
  BY DEF EditInvalidate, Unissued, Typed, RowTyped
<1>2. /\ DOMAIN proc' = Procs /\ DOMAIN proc'[p] = ProcFields
      /\ proc'[p].gen = proc[p].gen + 1 /\ proc'[p].hashOf = NoHash
      /\ DOMAIN proc'[p].cache = IF proc[p].hashOf = NoHash THEN DOMAIN proc[p].cache
                                 ELSE DOMAIN proc[p].cache \ {proc[p].hashOf}
      /\ \A h \in DOMAIN proc'[p].cache : proc'[p].cache[h] = proc[p].cache[h]
      /\ \A s \in Procs : s # p => proc'[s] = proc[s]
  <2>1. DOMAIN proc[p] = ProcFields BY DEF Typed, ProcTyped
  <2>2. PICK m : m = Forgotten(proc[p]) OBVIOUS
  <2>3. /\ DOMAIN m = ProcFields /\ m.gen = proc[p].gen + 1 /\ m.hashOf = NoHash
        /\ m.cache = IF proc[p].hashOf = NoHash THEN proc[p].cache ELSE Unbind(proc[p].cache, proc[p].hashOf)
    BY <2>1, <2>2 DEF Forgotten, ProcFields
  <2>4. proc' = [proc EXCEPT ![p] = m] BY <2>2 DEF EditInvalidate
  <2> QED BY <2>3, <2>4 DEF Typed, ProcTyped, Unbind
<1>3. ProcTyped'
  <2>1. proc[p].gen \in Nat BY DEF Typed, ProcTyped
  <2>2. proc'[p].gen \in Nat BY <1>2, <2>1
  <2> QED BY <1>2, <2>2 DEF Typed, ProcTyped
<1>4. /\ EditTyped' /\ ~Rotating(p)'
      /\ \A s \in Procs : s # p => edits'[s] = edits[s]
  <2>1. CASE edits' = [edits EXCEPT ![p].pc = "commit"] /\ edits[p].kind # "none"
    <3>1. edits' = [edits EXCEPT ![p].pc = "commit", ![p].kind = edits[p].kind]
      BY <2>1 DEF Typed, EditTyped, EditFields
    <3>2. edits[p].kind \in {"revoke", "rotate", "update"} BY <1>1, <2>1 DEF Typed, EditTyped
    <3>3. EditTyped' BY <1>1, <3>1, <3>2, EditMoves
    <3> QED BY <2>1, <3>3 DEF Rotating, Typed, EditTyped, EditFields
  <2>2. CASE edits' = [edits EXCEPT ![p] = NoEdit]
    <3>1. EditTyped' BY <2>2, EditMoves
    <3>2. edits'[p].pc = "idle" BY <2>2 DEF NoEdit, Typed, EditTyped
    <3> QED BY <2>2, <3>1, <3>2 DEF Rotating, Typed, EditTyped
  <2> QED BY <2>1, <2>2 DEF EditInvalidate
<1>5. /\ DOMAIN hist' = HistFields /\ hist'.charged = hist.charged /\ hist'.admitted = hist.admitted
      /\ hist'.ceiling = hist.ceiling /\ hist'.early = hist.early /\ hist'.moved = hist.moved
      /\ hist'.seen \in [Procs -> Nat] /\ hist'.known \in Nat
      /\ \A s \in Procs : s # p => hist'.seen[s] = hist.seen[s]
      /\ hist'.seen[p] \in {hist.seen[p], row.ver}
      /\ hist'.known = hist.known \/ (hist'.known = row.hash /\ Rotating(p))
  <2>1. CASE hist' = hist BY <2>1 DEF Typed, HistTyped
  <2>2. CASE hist' = Answered(hist, p, edits[p].kind, row) /\ ~(edits[p].tx /\ edits[p].kind # "none")
    <3>1. row.ver \in Nat BY DEF Typed, RowTyped
    <3>2. hist' = [hist EXCEPT !.seen[p] = IF edits[p].kind = "none" THEN @ ELSE row.ver,
                               !.known = IF edits[p].kind = "rotate" THEN row.hash ELSE @]
      BY <2>2 DEF Answered
    <3>3. edits[p].kind = "rotate" => Rotating(p) BY <1>1, <2>2 DEF Rotating
    <3> QED BY <1>1, <3>1, <3>2, <3>3 DEF Typed, HistTyped, HistFields
  <2> QED BY <2>1, <2>2 DEF EditInvalidate
<1>6. HistTyped' BY <1>5 DEF Typed, HistTyped
<1>7. \A s \in Procs : \A h \in DOMAIN proc'[s].cache :
         h \in DOMAIN proc[s].cache /\ proc'[s].cache[h] = proc[s].cache[h]
  BY <1>2
<1>8. BudgetInv' BY <1>1, <1>3, <1>4, <1>5, <1>6, <1>7, MemoryBudget
<1>9. \A s \in Procs : s # p => (Rotating(s)' <=> Rotating(s)) /\ LiveHash(s)' = LiveHash(s)
  BY <1>1, <1>4 DEF Rotating, LiveHash
<1>10. \A q \in Requests : reqs[q].pc \in Looking => reqs[q].p \in Procs /\ reqs[q].gen \in Nat
  BY DEF Typed, ReqTyped, Looking
<1>11. Numbers'
  <2>1. \A s \in Procs : hist'.seen[s] <= row.ver
    BY <1>5, SMTT(60) DEF Numbers, Typed, RowTyped, HistTyped
  <2>2. hist.known \in Nat /\ hist.known <= hist'.known /\ hist'.known <= row.hash
    BY <1>1, <1>5 DEF Numbers, Typed, HistTyped
  <2>3. \A q \in Requests : reqs[q].pc \in Looking => reqs[q].gen <= proc'[reqs[q].p].gen
    <3> TAKE q \in Requests
    <3>1. reqs[q].pc \in Looking => reqs[q].gen <= proc[reqs[q].p].gen BY DEF Numbers
    <3>2. \A s \in Procs : proc[s].gen \in Nat BY DEF Typed, ProcTyped
    <3> QED BY <1>2, <1>10, <3>1, <3>2
  <2>4. \A q \in Requests : reqs[q].pc = "select" => reqs[q].hash \in Int /\ reqs[q].hash <= hist'.known
    <3> TAKE q \in Requests
    <3>1. reqs[q].pc = "select" => reqs[q].hash \in Int /\ reqs[q].hash <= hist.known BY DEF Numbers, Looking
    <3> QED BY <1>6, <2>2, <3>1 DEF HistTyped
  <2> QED BY <1>1, <2>1, <2>2, <2>3, <2>4 DEF Numbers
<1>12. Rotations'
  <2> SUFFICES ASSUME NEW s \in Procs, Rotating(s)'
               PROVE  /\ \A q \in Procs \ {s} : hist'.moved[q]
                      /\ hist'.moved[s] \/ row'.hash > hist'.known
    BY DEF Rotations
  <2>1. s # p /\ Rotating(s) BY <1>4, <1>9
  <2>2. Rotating(p) => hist.moved[s] BY <2>1 DEF Rotations
  <2> QED BY <1>1, <1>5, <2>1, <2>2 DEF Rotations
<1>13. Cached'
  <2>1. \A s \in Procs : \A h \in DOMAIN proc'[s].cache : h \in Nat BY <1>7 DEF Cached
  <2>2. \A q \in Requests : ~Fresh(q, p)'
    <3> SUFFICES ASSUME NEW q \in Requests, Fresh(q, p)' PROVE FALSE
      OBVIOUS
    <3>1. reqs[q].pc = "selected" /\ reqs[q].p = p /\ reqs[q].gen = proc'[p].gen BY <1>1 DEF Fresh
    <3>2. reqs[q].gen <= proc[p].gen BY <3>1 DEF Numbers, Looking
    <3>3. proc[p].gen \in Nat BY DEF Typed, ProcTyped
    <3> QED BY <1>2, <3>1, <3>2, <3>3
  <2>3. ~hist.early /\ ~hist.moved[p] => DOMAIN proc'[p].cache = {}
    <3>1. ~hist.early /\ ~hist.moved[p] => \A h \in DOMAIN proc[p].cache : h = proc[p].hashOf /\ h \in Nat
      BY DEF Cached
    <3>2. NoHash \notin Nat BY GrantAssumption
    <3> QED BY <1>2, <3>1, <3>2
  <2>4. ASSUME NEW s \in Procs, s # p, ~hist'.early, ~hist'.moved[s]
        PROVE  /\ \A h \in DOMAIN proc'[s].cache :
                    h = proc'[s].hashOf /\ h = LiveHash(s)' /\ Current(s, proc[s].cache[h])'
               /\ \A q \in Requests : Fresh(q, s)' => Current(s, reqs[q].grant)'
               /\ edits'[s].pc = "commit" => /\ DOMAIN proc'[s].cache = {}
                                            /\ \A q \in Requests : ~Fresh(q, s)'
    <3>1. proc'[s] = proc[s] /\ LiveHash(s)' = LiveHash(s) /\ hist'.seen[s] = hist.seen[s]
          /\ edits'[s] = edits[s] /\ ~hist.early /\ ~hist.moved[s]
      BY <1>2, <1>4, <1>5, <1>9, <2>4
    <3>2. \A q \in Requests : Fresh(q, s)' <=> Fresh(q, s) BY <1>1, <3>1 DEF Fresh
    <3>3. \A x : Current(s, x) <=> Current(s, x)' BY <3>1 DEF Current
    <3> QED BY <1>1, <3>1, <3>2, <3>3 DEF Cached
  <2> QED BY <1>2, <2>1, <2>2, <2>3, <2>4, <1>5 DEF Cached
<1> QED BY <1>8, <1>11, <1>12, <1>13

\* The grant is issued: its first version is within the ceiling.
LEMMA IssueStep ==
  ASSUME GrantInv, IssueAgentGrant
  PROVE  GrantInv'
<1> USE DEF GrantInv, BudgetInv, SeenInv
<1>1. /\ row.hash = NoHash /\ row' = scene.row /\ ValidInput(scene.row)
      /\ reqs' = reqs /\ day' = day /\ scene' = scene /\ proc' = proc /\ edits' = edits /\ hist' = hist
  BY DEF IssueAgentGrant
<1>2. /\ DOMAIN scene.row = RowFields /\ scene.row.ver = 0 /\ scene.row.hash = 0
      /\ scene.row.max \in Nat \union {NoMax} /\ scene.row.win = NoDay /\ scene.row.used = 0
      /\ NoMax \notin Int
  BY GrantAssumption DEF Typed, SceneTyped
<1>3. Typed'
  <2>1. RowTyped' BY <1>1, <1>2 DEF RowTyped
  <2>2. HistTyped' /\ SceneTyped' /\ ProcTyped' /\ ReqTyped' /\ EditTyped'
    BY <1>1 DEF Typed, HistTyped, SceneTyped, ProcTyped, ReqTyped, EditTyped
  <2> QED BY <2>1, <2>2 DEF Typed
<1>4. row'.hash # NoHash BY <1>1, <1>2, GrantAssumption
<1>5. /\ hist.ceiling = scene.row.max /\ hist.known = 0 /\ row.win = NoDay /\ row.ver = 0
      /\ \A r \in Requests : reqs[r].pc = "idle"
      /\ \A p \in Procs : edits[p].pc = "idle" /\ hist.seen[p] = 0
  BY <1>1 DEF Unissued
<1>6. Unissued' BY <1>4 DEF Unissued
<1>7. \A g : Offer(g) <=> Offer(g)' BY <1>1 DEF Offer
<1>8. Offer(scene.row)
  <2>1. scene.row.max # NoMax => scene.row.max >= 1 BY <1>1 DEF ValidInput
  <2> QED BY <1>2, <1>5, <2>1 DEF Offer
<1>9. Offers' BY <1>1, <1>7, <1>8 DEF Offers
<1>10. Plans' BY <1>1 DEF Plans, Budgeted
<1>11. Charges'
  <2>1. \A d \in Days : hist.charged[d] = 0 BY <1>5 DEF Charges
  <2>2. \A d \in Days : Using(d)' = Using(d) BY <1>1 DEF Using
  <2>3. \A d \in Days : hist.admitted[d] + Cardinality(Using(d)') <= hist.charged[d]
    BY <2>2 DEF Charges
  <2> QED BY <1>1, <1>2, <2>1, <2>3 DEF Charges
<1>12. Numbers' BY <1>1, <1>2, <1>5 DEF Numbers, Looking
<1>13. Rotations' BY <1>1, <1>5 DEF Rotations, Rotating
<1>14. Cached'
  <2>1. \A p \in Procs : ~hist.early /\ ~hist.moved[p] => DOMAIN proc[p].cache = {}
    <3> SUFFICES ASSUME NEW p \in Procs, ~hist.early, ~hist.moved[p], NEW h \in DOMAIN proc[p].cache
                 PROVE  FALSE
      OBVIOUS
    <3>1. h \in Nat /\ h = LiveHash(p) BY DEF Cached
    <3>2. LiveHash(p) = NoHash BY <1>1, <1>5 DEF LiveHash, Rotating
    <3> QED BY <3>1, <3>2, GrantAssumption
  <2>2. \A r \in Requests, p \in Procs : ~Fresh(r, p)' BY <1>1, <1>5 DEF Fresh
  <2> QED BY <1>1, <2>1, <2>2 DEF Cached
<1> QED BY <1>3, <1>6, <1>9, <1>10, <1>11, <1>12, <1>13, <1>14

\* A day passes.
LEMMA MidnightStep ==
  ASSUME GrantInv, Midnight
  PROVE  GrantInv'
<1> USE DEF GrantInv, BudgetInv, SeenInv
<1>1. /\ row' = row /\ proc' = proc /\ reqs' = reqs /\ edits' = edits /\ hist' = hist /\ scene' = scene
      /\ day' = day + 1 /\ day < scene.days /\ scene.days \in Days /\ day \in Days /\ MaxDay \in Nat
  BY GrantAssumption DEF Midnight, Typed, SceneTyped
<1>2. day' \in Days /\ day \in Nat BY <1>1 DEF Days
<1>3. Typed'
  <2>1. SceneTyped' BY <1>1, <1>2 DEF Typed, SceneTyped
  <2> QED BY <1>1, <2>1 DEF Typed, RowTyped, HistTyped, ProcTyped, ReqTyped, EditTyped
<1>4. Unissued' BY <1>1 DEF Unissued
<1>5. \A d \in Days : d <= day => d <= day' BY <1>1, <1>2 DEF Days
<1>6. \A g : Offer(g) => Offer(g)' BY <1>1, <1>5 DEF Offer
<1>7. Offers' BY <1>1, <1>6 DEF Offers
<1>8. Plans' BY <1>1, <1>5 DEF Plans, Budgeted
<1>9. Charges'
  <2>1. \A d \in Days : Using(d)' \subseteq Using(d) BY <1>1 DEF Using
  <2> QED BY <1>1, <2>1, ChargesFrame
<1>10. Numbers' /\ Rotations' /\ Cached'
  <2>1. FewerCaches BY <1>1 DEF FewerCaches, Typed, ProcTyped
  <2> QED BY <1>1, <2>1, CachedFrame
<1> QED BY <1>3, <1>4, <1>7, <1>8, <1>9, <1>10

\* A process dies: its cache is empty, its requests and its edit are gone, the units
\* they held stay charged.
LEMMA CrashStep ==
  ASSUME GrantInv, NEW p \in Procs, Crash(p)
  PROVE  GrantInv'
<1> USE DEF GrantInv, BudgetInv, SeenInv
<1>1. row' = row /\ day' = day /\ scene' = scene
  BY DEF Crash
<1>2. /\ DOMAIN FreshProc = ProcFields /\ DOMAIN FreshProc.cache = {} /\ FreshProc.gen = 0
      /\ DOMAIN NoRequest = ReqFields /\ NoRequest.pc = "idle" /\ NoRequest.today = NoDay
      /\ NoRequest.charged = FALSE /\ NoEdit.pc = "idle"
  BY DEF FreshProc, ProcFields, NoRequest, ReqFields, NoEdit
<1>3. /\ DOMAIN proc' = Procs /\ proc'[p] = FreshProc
      /\ \A s \in Procs : s # p => proc'[s] = proc[s]
  BY DEF Crash, Typed, ProcTyped
<1>4. /\ edits' = [edits EXCEPT ![p] = NoEdit] /\ edits'[p] = NoEdit
      /\ \A s \in Procs : s # p => edits'[s] = edits[s]
  BY DEF Crash, Typed, EditTyped
<1>5. /\ DOMAIN reqs' = Requests
      /\ \A r \in Requests : reqs'[r] = NoRequest \/ (reqs'[r] = reqs[r] /\ reqs[r].p # p)
  BY DEF Crash
<1>6. /\ HistTyped'
      /\ hist'.charged = hist.charged /\ hist'.admitted = hist.admitted /\ hist'.ceiling = hist.ceiling
      /\ hist'.early = hist.early /\ hist'.seen = hist.seen /\ hist'.moved = hist.moved /\ hist'.known = hist.known
  <2>1. PICK l, d : hist' = [hist EXCEPT !.lost = l, !.detail = d]
    <3>1. PICK l, d : hist' = [hist EXCEPT !.lost = l, !.detail[p] = d] BY DEF Crash
    <3>2. hist' = [hist EXCEPT !.lost = l, !.detail = [hist.detail EXCEPT ![p] = d]]
      BY <3>1 DEF Typed, HistTyped, HistFields
    <3> QED BY <3>2
  <2> QED BY <2>1 DEF Typed, HistTyped, HistFields
<1> HIDE DEF FreshProc, NoRequest, NoEdit
<1>7. Typed'
  <2>1. ProcTyped' BY <1>2, <1>3 DEF Typed, ProcTyped
  <2>2. ReqTyped' BY <1>2, <1>5 DEF Typed, ReqTyped, Places, Looking
  <2>3. EditTyped' BY <1>4, EditMoves
  <2>4. RowTyped' /\ SceneTyped' BY <1>1 DEF Typed, RowTyped, SceneTyped
  <2> QED BY <1>6, <2>1, <2>2, <2>3, <2>4 DEF Typed
<1>8. Unissued' BY <1>1, <1>2, <1>4, <1>5, <1>6 DEF Unissued
<1>9. \A g : Offer(g) <=> Offer(g)' BY <1>1, <1>6 DEF Offer
<1>10. Offers'
  <2>1. \A s \in Procs : \A h \in DOMAIN proc'[s].cache : Offer(proc'[s].cache[h])
    BY <1>2, <1>3 DEF Offers
  <2>2. \A r \in Requests :
          reqs'[r].pc \in Granted \/ (reqs'[r].pc = "selected" /\ reqs'[r].grant # << >>) => Offer(reqs'[r].grant)
    BY <1>2, <1>5 DEF Offers, Granted, Paying, Consuming
  <2> QED BY <1>1, <1>9, <2>1, <2>2 DEF Offers
<1>11. Plans' BY <1>1, <1>2, <1>5 DEF Plans, Budgeted, Consuming
<1>12. Charges'
  <2>1. \A d \in Days : Using(d)' \subseteq Using(d) BY <1>2, <1>5 DEF Using
  <2> QED BY <1>1, <1>6, <2>1, ChargesFrame
<1>13. ~Rotating(p)' /\ \A s \in Procs : s # p => (Rotating(s)' <=> Rotating(s)) /\ LiveHash(s)' = LiveHash(s)
  BY <1>1, <1>2, <1>4 DEF Rotating, LiveHash
<1>14. \A r \in Requests : reqs'[r].pc \in Looking =>
         reqs'[r] = reqs[r] /\ reqs[r].p \in Procs /\ reqs[r].p # p
  BY <1>2, <1>5 DEF Looking, Typed, ReqTyped
<1>15. Numbers' BY <1>1, <1>3, <1>6, <1>14 DEF Numbers, Looking
<1>16. Rotations' BY <1>1, <1>6, <1>13 DEF Rotations
<1>17. Cached'
  <2>1. \A s \in Procs : s # p => \A g : Current(s, g) <=> Current(s, g)' BY <1>1, <1>6, <1>13 DEF Current
  <2>2. \A s \in Procs, r \in Requests : Fresh(r, s)' => s # p /\ Fresh(r, s) /\ reqs'[r] = reqs[r]
    BY <1>3, <1>14 DEF Fresh, Looking
  <2>3. ASSUME NEW s \in Procs
        PROVE  /\ \A h \in DOMAIN proc'[s].cache : h \in Nat
               /\ ~hist'.early /\ ~hist'.moved[s] =>
                    /\ \A h \in DOMAIN proc'[s].cache :
                         h = proc'[s].hashOf /\ h = LiveHash(s)' /\ Current(s, proc[s].cache[h])'
                    /\ \A r \in Requests : Fresh(r, s)' => Current(s, reqs[r].grant)'
                    /\ edits'[s].pc = "commit" => /\ DOMAIN proc'[s].cache = {}
                                                 /\ \A r \in Requests : ~Fresh(r, s)'
    <3>1. CASE s = p BY <1>2, <1>3, <1>4, <2>2, <3>1
    <3>2. CASE s # p BY <1>3, <1>4, <1>6, <1>13, <2>1, <2>2, <3>2 DEF Cached
    <3> QED BY <3>1, <3>2
  <2> QED BY <2>3 DEF Cached
<1> QED BY <1>7, <1>8, <1>10, <1>11, <1>12, <1>15, <1>16, <1>17

\* Nothing has happened in the first state.
LEMMA GrantInit ==
  ASSUME Init
  PROVE  GrantInv
<1> USE DEF GrantInv, BudgetInv, SeenInv
<1>1. /\ DOMAIN FreshProc = ProcFields /\ DOMAIN FreshProc.cache = {} /\ FreshProc.gen = 0
      /\ DOMAIN NoRequest = ReqFields /\ NoRequest.pc = "idle" /\ NoRequest.today = NoDay
      /\ NoRequest.charged = FALSE
      /\ DOMAIN NoEdit = EditFields /\ NoEdit.pc = "idle"
  BY DEF FreshProc, ProcFields, NoRequest, ReqFields, NoEdit, EditFields
<1>2. /\ scene \in Scenarios /\ row = NoGrant(scene.row) /\ day = 0
      /\ proc = [p \in Procs |-> FreshProc] /\ reqs = [r \in Requests |-> NoRequest]
      /\ edits = [p \in Procs |-> NoEdit]
  BY DEF Init
<1>3. /\ DOMAIN hist = HistFields
      /\ hist.charged = [d \in Days |-> 0] /\ hist.admitted = [d \in Days |-> 0] /\ hist.ceiling = row.max
      /\ hist.early = FALSE /\ hist.seen = [p \in Procs |-> 0] /\ hist.moved = [p \in Procs |-> FALSE]
      /\ hist.known = scene.row.hash
  BY DEF Init, HistFields
<1> HIDE DEF FreshProc, NoRequest, NoEdit
<1>4. /\ DOMAIN row = RowFields /\ row.hash = NoHash /\ ~row.active /\ row.ver = 0 /\ row.win = NoDay
      /\ row.used = 0 /\ row.max = scene.row.max /\ scene.row.max \in Nat \union {NoMax} /\ scene.row.hash = 0
  <2>1. /\ DOMAIN scene.row = RowFields /\ scene.row.ver = 0 /\ scene.row.hash = 0
        /\ scene.row.max \in Nat \union {NoMax} /\ scene.row.win = NoDay /\ scene.row.used = 0
    BY <1>2, GrantAssumption
  <2>2. row = [scene.row EXCEPT !.hash = NoHash, !.active = FALSE] BY <1>2 DEF NoGrant
  <2> QED BY <2>1, <2>2 DEF RowFields
<1>5. 0 \in Days BY GrantAssumption DEF Days
<1>6. Typed
  <2>1. RowTyped BY <1>4 DEF RowTyped
  <2>2. HistTyped BY <1>3, <1>4 DEF HistTyped
  <2>3. SceneTyped BY <1>2, <1>5 DEF SceneTyped
  <2>4. ProcTyped BY <1>1, <1>2 DEF ProcTyped
  <2>5. ReqTyped BY <1>1, <1>2 DEF ReqTyped, Places, Looking
  <2>6. EditTyped BY <1>1, <1>2 DEF EditTyped
  <2> QED BY <2>1, <2>2, <2>3, <2>4, <2>5, <2>6 DEF Typed
<1>7. Unissued BY <1>1, <1>2, <1>3, <1>4 DEF Unissued
<1>8. Offers BY <1>1, <1>2, <1>4 DEF Offers, Granted, Paying, Consuming
<1>9. Plans BY <1>1, <1>2 DEF Plans, Budgeted, Consuming
<1>10. Charges
  <2>1. \A d \in Days : Using(d) = {} BY <1>1, <1>2 DEF Using
  <2>2. \A d \in Days : Cardinality(Using(d)) = 0 BY <2>1, FS_EmptySet
  <2>3. \A d \in Days : hist.admitted[d] + Cardinality(Using(d)) <= hist.charged[d] BY <1>3, <2>2
  <2>4. hist.ceiling # NoMax => \A d \in Days : hist.charged[d] <= hist.ceiling BY <1>3, <1>4
  <2>5. \A d \in Days : hist.charged[d] = 0 BY <1>3
  <2> QED BY <1>4, <2>3, <2>4, <2>5 DEF Charges
<1>11. Numbers BY <1>1, <1>2, <1>3, <1>4 DEF Numbers, Looking
<1>12. Rotations BY <1>1, <1>2 DEF Rotations, Rotating
<1>13. Cached BY <1>1, <1>2 DEF Cached, Fresh
<1> QED BY <1>6, <1>7, <1>8, <1>9, <1>10, <1>11, <1>12, <1>13

--------------------------------------------------------------------------------
\* Every step keeps the invariant.
LEMMA GrantNext ==
  ASSUME GrantInv, [Next]_vars
  PROVE  GrantInv'
<1> USE DEF GrantInv, BudgetInv, SeenInv
<1>0. scene.procs \subseteq Procs /\ scene.tokens \subseteq Int
  BY GrantAssumption DEF Typed, SceneTyped
<1>1. ASSUME NEW r \in Requests, RequestStep(r) PROVE GrantInv'
  <2>1. CASE FailCached(r) \/ RecordDeferred(r) \/ RecordSync(r) \/ RecordStatement(r) \/ RefundGrantUsage(r)
    <3>1. reqs[r].pc # "idle"
      BY <2>1 DEF FailCached, RecordDeferred, RecordSync, RecordStatement, RefundGrantUsage
    <3> QED BY <2>1, <3>1, CalmFacts, CalmStep
  <2>2. CASE Select(r) \/ Resolve(r) BY <2>2, SelectStep, ResolveStep
  <2>3. CASE Enforce(r) \/ ConsumeReset(r) \/ ConsumeIncrement(r) \/ ChangesetCall(r)
    BY <2>3, EnforceStep, ConsumeStep, ChangesetStep
  <2>4. CASE Handle(r) \/ RefundDailyBudget(r) BY <2>4, HandleStep, RefundStep
  <2> QED BY <1>1, <2>1, <2>2, <2>3, <2>4 DEF RequestStep
<1>2. ASSUME NEW r \in Requests, reqs[r].pc = "idle", NEW p \in scene.procs, NEW c \in scene.clients,
             NEW h \in scene.tokens, NEW call \in scene.calls, Present(r, p, c, h, call)
      PROVE  GrantInv'
  BY <1>0, <1>2, PresentStep
<1>3. ASSUME NEW p \in Procs,
             \/ Activate(p) \/ FlushStep(p) \/ FlushTimer(p) \/ GetGrantUsage(p) \/ Shutdown(p) \/ Sweep(p)
             \/ \E c \in Clients : AgeFailure(p, c)
      PROVE  GrantInv'
  BY <1>3, MemoryFacts, CalmStep
<1>4. ASSUME NEW p \in Procs, EditStep(p) PROVE GrantInv'
  BY <1>4, EditWriteStep, EditInvalidateStep, EditCommitStep DEF EditStep
<1>5. ASSUME NEW p \in Procs, NEW e \in scene.edits, RequestEdit(p, e.tx, e.kind, e.patch) PROVE GrantInv'
  BY <1>5, RequestEditStep
<1>6. ASSUME NEW p \in Procs, Crash(p) PROVE GrantInv'
  BY <1>6, CrashStep
<1>7. CASE IssueAgentGrant \/ Midnight
  BY <1>7, IssueStep, MidnightStep
<1>8. CASE UNCHANGED vars
  <2>1. Calm BY <1>8 DEF vars, Calm, SameHist, SameCaches, Typed, HistTyped, ProcTyped
  <2> QED BY <1>8, <2>1, CalmStep DEF vars
<1> QED BY <1>0, <1>1, <1>2, <1>3, <1>4, <1>5, <1>6, <1>7, <1>8 DEF Next

\* The invariant the theorems rest on.
LEMMA GrantInvariant == Spec => []GrantInv
<1>1. Init => GrantInv BY GrantInit
<1>2. GrantInv /\ [Next]_vars => GrantInv' BY GrantNext
<1> QED BY <1>1, <1>2, PTL DEF Spec

\* The grant's row, the caches, the requests and the edits hold what their columns and
\* fields may hold, in every state of every number of processes and requests.
THEOREM GrantIsTyped == Spec => []Typed
<1>1. GrantInv => Typed BY DEF GrantInv, BudgetInv
<1> QED BY <1>1, GrantInvariant, PTL

\* consumeDailyBudget and refundDailyBudget, run by any number of requests on any number
\* of processes with rows read at any time before: no day admits more calls than the
\* highest daily maximum, and the row's counter is what its day was charged.
THEOREM BudgetIsKept == Spec => []BudgetHolds
<1>1. ASSUME GrantInv PROVE BudgetHolds
  <2>1. Typed /\ Charges BY <1>1 DEF GrantInv, BudgetInv
  <2>2. ASSUME hist.ceiling # NoMax, NEW d \in Days PROVE hist.admitted[d] <= hist.ceiling
    <3>1. /\ hist.admitted[d] \in Nat /\ hist.charged[d] \in Int /\ hist.ceiling \in Int
          /\ hist.admitted[d] + Cardinality(Using(d)) <= hist.charged[d]
          /\ hist.charged[d] <= hist.ceiling
      BY <2>1, <2>2 DEF Typed, HistTyped, Charges
    <3>2. Cardinality(Using(d)) \in Nat BY UsingIsFinite
    <3> QED BY <3>1, <3>2
  <2> QED BY <2>1, <2>2 DEF BudgetHolds, Charges
<1> QED BY <1>1, GrantInvariant, PTL

\* invalidateTokenCache and cacheGeneration: after an edit was answered, the process that
\* made it uses no row from before it, however lookups, rotations, crashes and
\* transactions interleave (except for the cases LocalEditSeen names).
THEOREM EditsAreSeen == Spec => []LocalEditSeen
<1>1. ASSUME GrantInv PROVE LocalEditSeen
  BY <1>1 DEF GrantInv, SeenInv, Cached, Current, LocalEditSeen
<1> QED BY <1>1, GrantInvariant, PTL

--------------------------------------------------------------------------------
\* Sums over a finite set.  The module's sums are folds of the form
\* MapThenSumSet(LAMBDA x : ..., S); a fact about one is proved by naming its
\* terms with a function g and is cited as a fact about SumOf(g, S).
SomeOf(s) == CHOOSE x \in s : TRUE
Adds(g, S, h) == h = [s \in SUBSET S |-> IF s = {} THEN 0 ELSE g[SomeOf(s)] + h[s \ {SomeOf(s)}]]
SumOf(g, S) == MapThenSumSet(LAMBDA x : g[x], S)
IsSum(g, S, h) == h \in [SUBSET S -> Int] /\ Adds(g, S, h) /\ \A s \in SUBSET S : SumOf(g, s) = h[s]

\* A set of natural numbers has a smallest one.
LEMMA SmallestNumber ==
  ASSUME NEW T, T \subseteq Nat, T # {}
  PROVE  \E x \in T : \A y \in T : x <= y
<1> DEFINE R == OpToRel(<, Nat)
<1>1. IsWellFoundedOn(R, Nat)
  BY NatLessThanWellFounded
<1>2. \A x, y \in Nat : x < y => <<x, y>> \in R
  BY DEF OpToRel
<1> HIDE DEF R
<1>3. PICK x \in T : \A y \in T : ~(<<y, x>> \in R)
  BY <1>1, WFMin
<1>4. \A y \in T : ~(y < x)
  BY <1>2, <1>3
<1> QED
  BY <1>4

\* A family of subsets of a finite set that holds every set whose proper subsets
\* it holds, holds them all.
LEMMA FamilyInduction ==
  ASSUME NEW S, IsFiniteSet(S), NEW F,
         \A s \in SUBSET S : (\A t \in SUBSET s : t # s => t \in F) => s \in F
  PROVE  \A s \in SUBSET S : s \in F
<1> SUFFICES ASSUME NEW z \in SUBSET S, z \notin F PROVE FALSE
  OBVIOUS
<1> DEFINE N == {Cardinality(s) : s \in {t \in SUBSET S : t \notin F}}
<1>1. \A s \in SUBSET S : IsFiniteSet(s) /\ Cardinality(s) \in Nat
  BY FS_Subset, FS_CardinalityType
<1>2. N \subseteq Nat /\ N # {}
  BY <1>1
<1> HIDE DEF N
<1>3. PICK n \in N : \A m \in N : n <= m
  BY <1>2, SmallestNumber
<1>4. PICK s \in SUBSET S : s \notin F /\ n = Cardinality(s)
  BY <1>3 DEF N
<1>5. ASSUME NEW t \in SUBSET s, t # s PROVE t \in F
  <2>1. /\ Cardinality(t) \in Nat /\ Cardinality(s) \in Nat /\ Cardinality(t) <= Cardinality(s)
        /\ Cardinality(t) = Cardinality(s) => t = s
    BY <1>1, FS_Subset
  <2>2. SUFFICES ASSUME t \notin F PROVE FALSE
    OBVIOUS
  <2>3. Cardinality(t) \in N
    BY <2>2 DEF N
  <2>4. n <= Cardinality(t)
    BY <1>3, <2>3
  <2> QED
    BY <1>4, <1>5, <2>1, <2>4
<1> QED
  BY <1>4, <1>5

\* Two such functions agree on the sets they both know.
LEMMA AddsUnique ==
  ASSUME NEW S, NEW T, IsFiniteSet(S), NEW g, NEW h, NEW k, Adds(g, S, h), Adds(g, T, k)
  PROVE  \A s \in SUBSET S : s \in SUBSET T => h[s] = k[s]
<1> DEFINE F == {s \in SUBSET S : s \in SUBSET T => h[s] = k[s]}
<1>1. ASSUME NEW s \in SUBSET S, \A t \in SUBSET s : t # s => t \in F
      PROVE  s \in F
  <2> SUFFICES ASSUME s \in SUBSET T PROVE h[s] = k[s]
    OBVIOUS
  <2>1. CASE s = {}
    BY <2>1 DEF Adds
  <2>2. CASE s # {}
    <3>1. SomeOf(s) \in s
      BY <2>2 DEF SomeOf
    <3>2. h[s \ {SomeOf(s)}] = k[s \ {SomeOf(s)}]
      BY <1>1, <3>1
    <3>3. h[s] = g[SomeOf(s)] + h[s \ {SomeOf(s)}] /\ k[s] = g[SomeOf(s)] + k[s \ {SomeOf(s)}]
      BY <2>2 DEF Adds
    <3> QED
      BY <3>2, <3>3
  <2> QED
    BY <2>1, <2>2
<1> HIDE DEF F
<1>2. \A s \in SUBSET S : s \in F
  BY <1>1, FamilyInduction
<1> QED
  BY <1>2 DEF F

\* There is one, and its values are numbers.
LEMMA AddsExists ==
  ASSUME NEW S, IsFiniteSet(S), NEW g, \A x \in S : g[x] \in Int
  PROVE  \E h \in [SUBSET S -> Int] : Adds(g, S, h)
<1> DEFINE F == {s \in SUBSET S : \E h \in [SUBSET s -> Int] : Adds(g, s, h)}
<1>1. ASSUME NEW s \in SUBSET S, \A t \in SUBSET s : t # s => t \in F
      PROVE  s \in F
  <2> DEFINE H(t) == CHOOSE h \in [SUBSET t -> Int] : Adds(g, t, h)
             V(t) == H(t)[t]
             W(t) == IF t = {} THEN 0 ELSE g[SomeOf(t)] + V(t \ {SomeOf(t)})
             w == [t \in SUBSET s |-> W(t)]
  <2>1. \A t \in SUBSET s : t # s => H(t) \in [SUBSET t -> Int] /\ Adds(g, t, H(t))
    BY <1>1
  <2>2. \A t \in SUBSET s : t # s => V(t) \in Int
    BY <2>1
  <2>3. ASSUME NEW t \in SUBSET s, t # {}
        PROVE  SomeOf(t) \in t /\ t \ {SomeOf(t)} \in SUBSET s /\ t \ {SomeOf(t)} # s
    BY <2>3 DEF SomeOf
  <2>4. \A t \in SUBSET s : W(t) \in Int
    <3> HIDE DEF V
    <3>1. ASSUME NEW t \in SUBSET s, t # {} PROVE g[SomeOf(t)] \in Int /\ V(t \ {SomeOf(t)}) \in Int
      BY <2>2, <2>3, <3>1
    <3> QED
      BY <3>1
  <2>5. \A t \in SUBSET s : IsFiniteSet(t)
    BY FS_Subset
  <2>6. ASSUME NEW t \in SUBSET s, t # s PROVE V(t) = W(t)
    <3> HIDE DEF H
    <3>1. CASE t = {}
      <4>1. Adds(g, t, H(t))
        BY <2>1, <2>6
      <4> QED
        BY <3>1, <4>1 DEF Adds
    <3>2. CASE t # {}
      <4> DEFINE u == t \ {SomeOf(t)}
      <4>1. SomeOf(t) \in t /\ u \in SUBSET s /\ u # s /\ u \in SUBSET t
        BY <2>3, <3>2
      <4>2. Adds(g, t, H(t)) /\ Adds(g, u, H(u))
        BY <2>1, <2>6, <4>1
      <4>3. H(u)[u] = H(t)[u]
        <5> DEFINE hu == H(u)
                   ht == H(t)
        <5>1. IsFiniteSet(u) /\ Adds(g, u, hu) /\ Adds(g, t, ht)
          BY <2>5, <4>1, <4>2
        <5> HIDE DEF u, hu, ht
        <5>2. \A x \in SUBSET u : x \in SUBSET t => hu[x] = ht[x]
          BY ONLY <5>1, AddsUnique
        <5>3. hu[u] = ht[u]
          BY <4>1, <5>2
        <5> QED
          BY <5>3 DEF hu, ht
      <4>4. H(t)[t] = g[SomeOf(t)] + H(t)[u]
        BY <3>2, <4>2 DEF Adds
      <4> QED
        BY <3>2, <4>3, <4>4
    <3> QED
      BY <3>1, <3>2
  <2>7. \A t \in SUBSET s : w[t] = IF t = {} THEN 0 ELSE g[SomeOf(t)] + w[t \ {SomeOf(t)}]
    <3> HIDE DEF V
    <3> QED
    BY <2>3, <2>6
  <2>8. w \in [SUBSET s -> Int]
    <3> HIDE DEF W
    <3> QED
      BY <2>4
  <2>9. Adds(g, s, w)
    <3> HIDE DEF W
    <3> QED
      BY <2>7, <2>8 DEF Adds
  <2> QED
    BY <2>8, <2>9
<1> HIDE DEF F
<1>2. \A s \in SUBSET S : s \in F
  BY <1>1, FamilyInduction
<1> QED
  BY <1>2 DEF F

\* The fold, unfolded.
LEMMA SumUnfold ==
  ASSUME NEW S, NEW g
  PROVE  SumOf(g, S) = (CHOOSE h : Adds(g, S, h))[S]
  BY DEF SumOf, MapThenSumSet, MapThenFoldSet, SomeOf, Adds

\* The sums of all subsets are given by one such function.
LEMMA SumIs ==
  ASSUME NEW S, IsFiniteSet(S), NEW g, \A x \in S : g[x] \in Int
  PROVE  \E h : IsSum(g, S, h)
<1>1. PICK h \in [SUBSET S -> Int] : Adds(g, S, h)
  BY AddsExists
<1>2. ASSUME NEW s \in SUBSET S PROVE SumOf(g, s) = h[s]
  <2>1. IsFiniteSet(s) /\ \A x \in s : g[x] \in Int
    BY FS_Subset
  <2>2. \E k : Adds(g, s, k)
    BY <2>1, AddsExists
  <2>3. PICK k : Adds(g, s, k) /\ SumOf(g, s) = k[s]
    BY <2>2, SumUnfold
  <2> QED
    BY <1>1, <2>1, <2>3, AddsUnique
<1> QED
  BY <1>1, <1>2 DEF IsSum

\* The sum over nothing.
LEMMA SumEmpty ==
  ASSUME NEW g
  PROVE  SumOf(g, {}) = 0
<1>1. IsFiniteSet({})
  BY FS_EmptySet
<1>2. \E h : IsSum(g, {}, h)
  <2>1. \A x \in {} : g[x] \in Int
    OBVIOUS
  <2> QED
    BY ONLY <1>1, <2>1, SumIs
<1>3. PICK h : IsSum(g, {}, h)
  BY <1>2
<1> QED
  BY <1>3 DEF Adds, IsSum

\* A sum of numbers is a number.
LEMMA SumType ==
  ASSUME NEW S, IsFiniteSet(S), NEW g, \A x \in S : g[x] \in Int
  PROVE  SumOf(g, S) \in Int
<1>1. \E h : IsSum(g, S, h)
  BY SumIs
<1> QED
  BY <1>1 DEF IsSum

\* One term less.
LEMMA SumLess ==
  ASSUME NEW S, IsFiniteSet(S), NEW g, \A x \in S : g[x] \in Int, NEW y \in S
  PROVE  SumOf(g, S) = g[y] + SumOf(g, S \ {y})
<1>0. \E h : IsSum(g, S, h)
  BY SumIs
<1>1. PICK h : IsSum(g, S, h)
  BY <1>0
<1> DEFINE F == {s \in SUBSET S : \A x \in s : h[s] = g[x] + h[s \ {x}]}
<1>2. ASSUME NEW s \in SUBSET S, \A t \in SUBSET s : t # s => t \in F, NEW x \in s
      PROVE  h[s] = g[x] + h[s \ {x}]
  <2> DEFINE z == SomeOf(s)
  <2>1. z \in s
    BY DEF SomeOf
  <2>2. h[s] = g[z] + h[s \ {z}]
    BY <1>1, <2>1 DEF Adds, IsSum
  <2> HIDE DEF z
  <2>3. CASE x # z
    <3>1. s \ {z} \in F /\ s \ {x} \in F
      BY <1>2, <2>1
    <3>2. h[s \ {z}] = g[x] + h[(s \ {z}) \ {x}] /\ h[s \ {x}] = g[z] + h[(s \ {x}) \ {z}]
      BY <2>1, <2>3, <3>1
    <3>3. (s \ {z}) \ {x} = (s \ {x}) \ {z}
      OBVIOUS
    <3>4. g[x] \in Int /\ g[z] \in Int /\ h[(s \ {x}) \ {z}] \in Int
      BY <1>1, <2>1 DEF IsSum
    <3>5. h[s] = g[z] + (g[x] + h[(s \ {x}) \ {z}])
      BY <2>2, <3>2, <3>3
    <3>6. h[s \ {x}] = g[z] + h[(s \ {x}) \ {z}]
      BY <3>2
    <3> HIDE DEF F
    <3> QED
      BY <3>4, <3>5, <3>6
  <2> QED
    BY <2>2, <2>3
<1>3. \A s \in SUBSET S : (\A t \in SUBSET s : t # s => t \in F) => s \in F
  BY <1>2
<1> HIDE DEF F
<1>4. \A s \in SUBSET S : s \in F
  BY <1>3, FamilyInduction
<1>5. h[S] = g[y] + h[S \ {y}]
  BY <1>4 DEF F
<1> QED
  BY <1>1, <1>5 DEF IsSum

\* One element more.
LEMMA SumMore ==
  ASSUME NEW S, IsFiniteSet(S), NEW g, \A x \in S : g[x] \in Int, NEW y, y \notin S, g[y] \in Int
  PROVE  SumOf(g, S \union {y}) = SumOf(g, S) + g[y]
<1> DEFINE T == S \union {y}
<1>1. IsFiniteSet(T) /\ y \in T /\ T \ {y} = S /\ \A x \in T : g[x] \in Int
  BY FS_AddElement
<1>2. SumOf(g, S) \in Int
  BY SumType
<1> HIDE DEF T
<1>3. SumOf(g, T) = g[y] + SumOf(g, T \ {y})
  BY <1>1, SumLess
<1>4. SumOf(g, T) = g[y] + SumOf(g, S)
  BY <1>1, <1>3, Zenon
<1>5. SumOf(g, T) = SumOf(g, S) + g[y]
  BY <1>2, <1>4
<1> QED
  BY <1>5 DEF T

\* The sum depends on the terms only.
LEMMA SumSame ==
  ASSUME NEW S, IsFiniteSet(S), NEW g, NEW k, \A x \in S : g[x] \in Int /\ k[x] = g[x]
  PROVE  SumOf(k, S) = SumOf(g, S)
<1> DEFINE F == {s \in SUBSET S : SumOf(k, s) = SumOf(g, s)}
<1>1. ASSUME NEW s \in SUBSET S, \A t \in SUBSET s : t # s => t \in F
      PROVE  s \in F
  <2>1. CASE s = {}
    BY <2>1, SumEmpty
  <2>2. CASE s # {}
    <3>1. PICK x \in s : TRUE
      BY <2>2
    <3>2. IsFiniteSet(s) /\ s \ {x} \in F
      BY <1>1, <3>1, FS_Subset
    <3>3. SumOf(g, s) = g[x] + SumOf(g, s \ {x}) /\ SumOf(k, s) = k[x] + SumOf(k, s \ {x})
      BY <3>1, <3>2, SumLess
    <3> QED
      BY <3>2, <3>3
  <2> QED
    BY <2>1, <2>2
<1> HIDE DEF F
<1>2. S \in F
  BY <1>1, FamilyInduction
<1> QED
  BY <1>2 DEF F

\* A sum of sums is the sum of both.
LEMMA SumPlus ==
  ASSUME NEW S, IsFiniteSet(S), NEW g, NEW k, NEW m,
         \A x \in S : g[x] \in Int /\ k[x] \in Int /\ m[x] = g[x] + k[x]
  PROVE  SumOf(m, S) = SumOf(g, S) + SumOf(k, S)
<1> DEFINE F == {s \in SUBSET S : SumOf(m, s) = SumOf(g, s) + SumOf(k, s)}
<1>1. ASSUME NEW s \in SUBSET S, \A t \in SUBSET s : t # s => t \in F
      PROVE  s \in F
  <2>1. CASE s = {}
    BY <2>1, SumEmpty
  <2>2. CASE s # {}
    <3>1. PICK x \in s : TRUE
      BY <2>2
    <3>2. IsFiniteSet(s) /\ IsFiniteSet(s \ {x}) /\ s \ {x} \in F
      BY <1>1, <3>1, FS_Subset
    <3>3. /\ SumOf(g, s) = g[x] + SumOf(g, s \ {x})
          /\ SumOf(k, s) = k[x] + SumOf(k, s \ {x})
          /\ SumOf(m, s) = m[x] + SumOf(m, s \ {x})
      BY <3>1, <3>2, SumLess
    <3>4. SumOf(g, s \ {x}) \in Int /\ SumOf(k, s \ {x}) \in Int
      BY <3>2, SumType
    <3> QED
      BY <3>2, <3>3, <3>4
  <2> QED
    BY <2>1, <2>2
<1> HIDE DEF F
<1>2. S \in F
  BY <1>1, FamilyInduction
<1> QED
  BY <1>2 DEF F

\* A sum of zeros.
LEMMA SumZero ==
  ASSUME NEW S, IsFiniteSet(S), NEW g, \A x \in S : g[x] = 0
  PROVE  SumOf(g, S) = 0
<1>1. \A x \in S : g[x] \in Int /\ g[x] = g[x] + g[x]
  OBVIOUS
<1>2. SumOf(g, S) = SumOf(g, S) + SumOf(g, S) /\ SumOf(g, S) \in Int
  BY <1>1, SumPlus, SumType
<1>3. ASSUME NEW n \in Int, n = n + n PROVE n = 0
  BY ONLY <1>3
<1> DEFINE n == SumOf(g, S)
<1>4. n = n + n /\ n \in Int
  BY <1>2
<1> HIDE DEF n
<1>5. n = 0
  BY ONLY <1>3, <1>4, Zenon
<1> QED
  BY <1>5 DEF n

--------------------------------------------------------------------------------
(***************************************************************************)
(* The usage counters: what was recorded is in the table, in a buffer, in  *)
(* a flush, on its way by a request, or lost.                              *)
(***************************************************************************)
Upserting == {"update", "insert", "again"}
Upserts == {r \in Requests : reqs[r].pc \in Upserting}

\* Counters per day, and the deltas of a flush.
Counters(u) == IsFiniteSet(DOMAIN u) /\ \A d \in DOMAIN u : u[d].calls \in Int
Deltas(S) == IsFiniteSet(S) /\ \A x \in S : x = <<x[1], x[2]>> /\ x[2].calls \in Int
Flushing(f) ==
  /\ DOMAIN f = {"pc", "todo", "day", "delta"} /\ Deltas(f.todo)
  /\ f.pc \in Upserting => f.delta.calls \in Int /\ <<f.day, f.delta>> \notin f.todo
  /\ f.pc = "idle" => f.todo = {}
Flushings(fl) == DOMAIN fl = Flushers /\ \A f \in Flushers : Flushing(fl[f])
UsageTyped ==
  /\ Counters(usage) /\ hist.lost \in Int /\ hist.recorded \in Int
  /\ DOMAIN flushes = Procs
  /\ \A p \in Procs : Counters(proc[p].buf) /\ Flushings(flushes[p])

Written(u) == MapThenSumSet(LAMBDA d : u[d].calls, DOMAIN u)
Holds(m, fl) == BufferedCalls(m) + PendingCalls(fl)
Held(pr, fl) == MapThenSumSet(LAMBDA p : BufferedCalls(pr[p]) + PendingCalls(fl[p]), Procs)
UsageInv ==
  UsageTyped /\ Written(usage) + Held(proc, flushes) + InFlight(Requests) + hist.lost = hist.recorded

\* The sums of the module, by the terms they add.
AddsCalls(S, h) == h = [s \in SUBSET S |-> IF s = {} THEN 0 ELSE SomeOf(s)[2].calls + h[s \ {SomeOf(s)}]]
\* CallsIn adds up the calls of the deltas.
LEMMA CallsInIs ==
  ASSUME NEW S, NEW g, \A x \in S : g[x] = x[2].calls
  PROVE  CallsIn(S) = SumOf(g, S)
<1>1. CallsIn(S) = (CHOOSE h : AddsCalls(S, h))[S]
  BY DEF CallsIn, MapThenSumSet, MapThenFoldSet, SomeOf, AddsCalls
<1>2. ASSUME NEW h PROVE AddsCalls(S, h) <=> Adds(g, S, h)
  <2>1. \A s \in SUBSET S : s # {} => SomeOf(s) \in S
    BY DEF SomeOf
  <2>2. \A s \in SUBSET S : (IF s = {} THEN 0 ELSE SomeOf(s)[2].calls + h[s \ {SomeOf(s)}])
                             = (IF s = {} THEN 0 ELSE g[SomeOf(s)] + h[s \ {SomeOf(s)}])
    BY <2>1
  <2>3. [s \in SUBSET S |-> IF s = {} THEN 0 ELSE SomeOf(s)[2].calls + h[s \ {SomeOf(s)}]]
      = [s \in SUBSET S |-> IF s = {} THEN 0 ELSE g[SomeOf(s)] + h[s \ {SomeOf(s)}]]
    BY <2>2, Zenon
  <2> QED
    BY <2>3 DEF Adds, AddsCalls
<1>3. (CHOOSE h : AddsCalls(S, h)) = (CHOOSE h : Adds(g, S, h))
  BY <1>2, Zenon
<1> QED
  BY <1>1, <1>3, SumUnfold

AddsWritten(u, S, h) == h = [s \in SUBSET S |-> IF s = {} THEN 0 ELSE u[SomeOf(s)].calls + h[s \ {SomeOf(s)}]]
\* Written adds up the calls of the days.
LEMMA WrittenIs ==
  ASSUME NEW u, NEW g, \A x \in DOMAIN u : g[x] = u[x].calls
  PROVE  Written(u) = SumOf(g, DOMAIN u)
<1> DEFINE S == DOMAIN u
<1>1. Written(u) = (CHOOSE h : AddsWritten(u, S, h))[S]
  BY DEF Written, MapThenSumSet, MapThenFoldSet, SomeOf, AddsWritten
<1>0. \A x \in S : g[x] = u[x].calls
  OBVIOUS
<1> HIDE DEF S
<1>2. ASSUME NEW h PROVE AddsWritten(u, S, h) <=> Adds(g, S, h)
  <2>1. \A s \in SUBSET S : s # {} => SomeOf(s) \in S
    BY DEF SomeOf
  <2>2. \A s \in SUBSET S : (IF s = {} THEN 0 ELSE u[SomeOf(s)].calls + h[s \ {SomeOf(s)}])
                             = (IF s = {} THEN 0 ELSE g[SomeOf(s)] + h[s \ {SomeOf(s)}])
    BY <2>1, <1>0
  <2>3. [s \in SUBSET S |-> IF s = {} THEN 0 ELSE u[SomeOf(s)].calls + h[s \ {SomeOf(s)}]]
      = [s \in SUBSET S |-> IF s = {} THEN 0 ELSE g[SomeOf(s)] + h[s \ {SomeOf(s)}]]
    BY <2>2, Zenon
  <2> QED
    BY <2>3 DEF Adds, AddsWritten
<1>3. (CHOOSE h : AddsWritten(u, S, h)) = (CHOOSE h : Adds(g, S, h))
  BY <1>2, Zenon
<1>4. Written(u) = SumOf(g, S)
  BY <1>1, <1>3, SumUnfold
<1> QED
  BY <1>4 DEF S

AddsHeld(pr, fl, S, h) ==
  h = [s \in SUBSET S |-> IF s = {} THEN 0
                          ELSE (BufferedCalls(pr[SomeOf(s)]) + PendingCalls(fl[SomeOf(s)])) + h[s \ {SomeOf(s)}]]
\* Held adds up what the processes hold.
LEMMA HeldIs ==
  ASSUME NEW pr, NEW fl, NEW g, \A p \in Procs : g[p] = Holds(pr[p], fl[p])
  PROVE  Held(pr, fl) = SumOf(g, Procs)
<1>1. Held(pr, fl) = (CHOOSE h : AddsHeld(pr, fl, Procs, h))[Procs]
  BY DEF Held, MapThenSumSet, MapThenFoldSet, SomeOf, AddsHeld
<1>2. ASSUME NEW h PROVE AddsHeld(pr, fl, Procs, h) <=> Adds(g, Procs, h)
  <2> DEFINE term(x) == BufferedCalls(pr[x]) + PendingCalls(fl[x])
  <2>0. \A p \in Procs : g[p] = term(p)
    BY DEF Holds
  <2>1. \A s \in SUBSET Procs : s # {} => SomeOf(s) \in Procs
    BY DEF SomeOf
  <2> HIDE DEF term
  <2>2. \A s \in SUBSET Procs : (IF s = {} THEN 0 ELSE term(SomeOf(s)) + h[s \ {SomeOf(s)}])
                             = (IF s = {} THEN 0 ELSE g[SomeOf(s)] + h[s \ {SomeOf(s)}])
    BY <2>0, <2>1
  <2>3. [s \in SUBSET Procs |-> IF s = {} THEN 0 ELSE term(SomeOf(s)) + h[s \ {SomeOf(s)}]]
      = [s \in SUBSET Procs |-> IF s = {} THEN 0 ELSE g[SomeOf(s)] + h[s \ {SomeOf(s)}]]
    BY <2>2, Zenon
  <2> QED
    BY <2>3 DEF Adds, AddsHeld, term
<1>3. (CHOOSE h : AddsHeld(pr, fl, Procs, h)) = (CHOOSE h : Adds(g, Procs, h))
  BY <1>2, Zenon
<1> QED
  BY <1>1, <1>3, SumUnfold

AddsPending(fl, S, h) ==
  h = [s \in SUBSET S |-> IF s = {} THEN 0 ELSE CallsIn(Pending(fl[SomeOf(s)])) + h[s \ {SomeOf(s)}]]
\* PendingCalls adds up what the flushes of a process hold.
LEMMA PendingIs ==
  ASSUME NEW fl, NEW g, \A f \in Flushers : g[f] = CallsIn(Pending(fl[f]))
  PROVE  PendingCalls(fl) = SumOf(g, Flushers)
<1>1. PendingCalls(fl) = (CHOOSE h : AddsPending(fl, Flushers, h))[Flushers]
  BY DEF PendingCalls, MapThenSumSet, MapThenFoldSet, SomeOf, AddsPending
<1>2. ASSUME NEW h PROVE AddsPending(fl, Flushers, h) <=> Adds(g, Flushers, h)
  <2> DEFINE term(x) == CallsIn(Pending(fl[x]))
  <2>0. \A f \in Flushers : g[f] = term(f)
    OBVIOUS
  <2>1. \A s \in SUBSET Flushers : s # {} => SomeOf(s) \in Flushers
    BY DEF SomeOf
  <2> HIDE DEF term
  <2>2. \A s \in SUBSET Flushers : (IF s = {} THEN 0 ELSE term(SomeOf(s)) + h[s \ {SomeOf(s)}])
                                = (IF s = {} THEN 0 ELSE g[SomeOf(s)] + h[s \ {SomeOf(s)}])
    BY <2>0, <2>1
  <2>3. [s \in SUBSET Flushers |-> IF s = {} THEN 0 ELSE term(SomeOf(s)) + h[s \ {SomeOf(s)}]]
      = [s \in SUBSET Flushers |-> IF s = {} THEN 0 ELSE g[SomeOf(s)] + h[s \ {SomeOf(s)}]]
    BY <2>2, Zenon
  <2> QED
    BY <2>3 DEF Adds, AddsPending, term
<1>3. (CHOOSE h : AddsPending(fl, Flushers, h)) = (CHOOSE h : Adds(g, Flushers, h))
  BY <1>2, Zenon
<1> QED
  BY <1>1, <1>3, SumUnfold

\* The calls of a set of deltas, and of one more.
LEMMA CallsInFacts ==
  ASSUME NEW S, Deltas(S)
  PROVE  /\ CallsIn(S) \in Int /\ CallsIn({}) = 0
         /\ \A x : x \notin S /\ x[2].calls \in Int => CallsIn(S \union {x}) = CallsIn(S) + x[2].calls
         /\ \A x \in S : CallsIn(S) = CallsIn(S \ {x}) + x[2].calls
<1> DEFINE g == [x \in S |-> x[2].calls]
<1>1. IsFiniteSet(S) /\ \A x \in S : g[x] \in Int /\ g[x] = x[2].calls
  BY DEF Deltas
<1>2. CallsIn(S) = SumOf(g, S)
  <2> HIDE DEF g
  <2> QED
    BY <1>1, CallsInIs
<1>3. CallsIn({}) = 0
  <2>1. \A x \in {} : g[x] = x[2].calls
    OBVIOUS
  <2> HIDE DEF g
  <2> QED
    BY <2>1, CallsInIs, SumEmpty
<1>4. CallsIn(S) \in Int
  <2> HIDE DEF g
  <2> QED
    BY <1>1, <1>2, SumType
<1>5. ASSUME NEW x, x \notin S, x[2].calls \in Int
      PROVE  CallsIn(S \union {x}) = CallsIn(S) + x[2].calls
  <2> DEFINE T == S \union {x}
             k == [y \in T |-> y[2].calls]
  <2>1. /\ \A y \in T : k[y] = y[2].calls
        /\ \A y \in S : k[y] \in Int /\ k[y] = y[2].calls
        /\ k[x] = x[2].calls /\ k[x] \in Int
    BY <1>1, <1>5
  <2> HIDE DEF k, g
  <2>2. CallsIn(T) = SumOf(k, T)
    <3> HIDE DEF T
    <3> QED
      BY <2>1, CallsInIs
  <2>3. CallsIn(S) = SumOf(k, S)
    BY <2>1, CallsInIs
  <2>4. SumOf(k, S \union {x}) = SumOf(k, S) + k[x]
    BY <1>1, <1>5, <2>1, SumMore
  <2> QED
    BY <2>1, <2>2, <2>3, <2>4
<1>6. ASSUME NEW x \in S PROVE CallsIn(S) = CallsIn(S \ {x}) + x[2].calls
  <2>1. \A y \in S \ {x} : g[y] = y[2].calls
    BY <1>1
  <2>2. g[x] = x[2].calls /\ g[x] \in Int /\ IsFiniteSet(S \ {x}) /\ \A y \in S \ {x} : g[y] \in Int
    BY <1>1, FS_RemoveElement
  <2> HIDE DEF g
  <2>3. CallsIn(S \ {x}) = SumOf(g, S \ {x})
    BY <2>1, CallsInIs
  <2>4. SumOf(g, S) = g[x] + SumOf(g, S \ {x})
    BY <1>1, SumLess
  <2>5. SumOf(g, S \ {x}) \in Int
    BY <2>2, SumType
  <2> QED
    BY <1>2, <2>2, <2>3, <2>4, <2>5
<1> QED
  BY <1>3, <1>4, <1>5, <1>6

\* A counter that is raised, or begins, raises the sum.
LEMMA WrittenGains ==
  ASSUME NEW u, Counters(u), NEW v, NEW d, NEW c \in Int, DOMAIN v = DOMAIN u \union {d},
         \A e \in DOMAIN u : e # d => v[e].calls = u[e].calls,
         v[d].calls = (IF d \in DOMAIN u THEN u[d].calls ELSE 0) + c
  PROVE  Counters(v) /\ Written(v) = Written(u) + c /\ Written(u) \in Int
<1> DEFINE S == DOMAIN u
           R == S \ {d}
           g == [x \in S |-> u[x].calls]
           k == [x \in DOMAIN v |-> v[x].calls]
           old == IF d \in S THEN u[d].calls ELSE 0
<1>1. /\ IsFiniteSet(S) /\ IsFiniteSet(R) /\ IsFiniteSet(DOMAIN v) /\ old \in Int
      /\ \A x \in S : g[x] = u[x].calls /\ g[x] \in Int
      /\ \A x \in R : g[x] \in Int /\ k[x] = g[x]
      /\ \A x \in DOMAIN v : k[x] = v[x].calls /\ k[x] \in Int
      /\ k[d] = old + c /\ (d \in S => g[d] = old)
  BY FS_RemoveElement, FS_AddElement DEF Counters
<1>2. DOMAIN v = R \union {d} /\ (DOMAIN v) \ {d} = R /\ d \notin R /\ (d \notin S => R = S) /\ d \in DOMAIN v
  OBVIOUS
<1>3. Counters(v)
  BY <1>1 DEF Counters
<1> HIDE DEF g, k, old
<1>4. Written(v) = SumOf(k, DOMAIN v)
  BY <1>1, WrittenIs
<1>5. Written(u) = SumOf(g, S)
  BY <1>1, WrittenIs
<1> HIDE DEF R, S
<1>6. SumOf(k, DOMAIN v) = k[d] + SumOf(k, (DOMAIN v) \ {d})
  BY <1>1, <1>2, SumLess, ZenonT(80)
<1>7. SumOf(k, R) = SumOf(g, R) /\ SumOf(g, R) \in Int
  BY <1>1, SumSame, SumType
<1>8. SumOf(g, S) = SumOf(g, R) + old
  <2>1. CASE d \in S
    <3>1. SumOf(g, S) = g[d] + SumOf(g, S \ {d})
      BY <1>1, <2>1, SumLess
    <3>2. SumOf(g, S) = old + SumOf(g, R)
      BY <1>1, <2>1, <3>1, Zenon DEF R
    <3> QED
      BY <1>1, <1>7, <3>2
  <2>2. CASE d \notin S
    BY <1>2, <1>7, <2>2 DEF old
  <2> QED
    BY <2>1, <2>2
<1>9. (DOMAIN v) \ {d} = R
  BY <1>2
<1>10. Written(v) = k[d] + SumOf(k, R)
  BY <1>4, <1>6, <1>9, Zenon
<1> QED
  BY <1>1, <1>3, <1>5, <1>7, <1>8, <1>10

\* The batch a buffer makes; a buffered delta adds its calls.
Batch(b) == {<<d, b[d]>> : d \in DOMAIN b}
\* A batch is a set of deltas.
LEMMA BatchFacts ==
  ASSUME NEW b, Counters(b)
  PROVE  Deltas(Batch(b)) /\ CallsIn(Batch(b)) \in Int
<1>1. IsFiniteSet(Batch(b))
  <2> DEFINE D == DOMAIN b
             f == [d \in D |-> <<d, b[d]>>]
  <2>1. f \in Surjection(D, Batch(b))
    BY DEF Surjection, Batch
  <2>2. IsFiniteSet(D)
    BY DEF Counters
  <2> HIDE DEF D, f
  <2> QED
    BY <2>1, <2>2, FS_Surjection
<1>2. Deltas(Batch(b))
  BY <1>1 DEF Counters, Deltas, Batch
<1> QED
  BY <1>2, CallsInFacts

\* A delta bound in a buffer replaces the one of its day in the batch.
LEMMA BatchGains ==
  ASSUME NEW b, Counters(b), NEW d, NEW new, new.calls \in Int
  PROVE  LET c == Bind(b, d, new)
         IN Counters(c) /\ CallsIn(Batch(c)) = CallsIn(Batch(b)) + new.calls
                                                 - (IF d \in DOMAIN b THEN b[d].calls ELSE 0)
<1> DEFINE c == Bind(b, d, new)
           S == Batch(b)
           R == Batch(b) \ {<<d, b[d]>>}
           x == <<d, new>>
<1>1. DOMAIN c = DOMAIN b \union {d} /\ c[d] = new /\ \A e \in DOMAIN b : e # d => c[e] = b[e]
  BY DEF Bind
<1>2. Counters(c)
  <2>1. IsFiniteSet(DOMAIN c)
    BY <1>1, FS_AddElement DEF Counters
  <2> QED
    BY <1>1, <2>1 DEF Counters
<1>3. Deltas(S) /\ CallsIn(S) \in Int
  BY BatchFacts
<1>4. Deltas(R)
  BY <1>3, FS_RemoveElement DEF Deltas
<1> HIDE DEF c
<1>5. CASE d \in DOMAIN b
  <2>1. Batch(c) = R \union {x}
    <3>1. ASSUME NEW z \in Batch(c) PROVE z \in R \union {x}
      <4>1. PICK e \in DOMAIN c : z = <<e, c[e]>>
        BY DEF Batch
      <4>2. CASE e = d
        BY <1>1, <4>1, <4>2
      <4>3. CASE e # d
        BY <1>1, <4>1, <4>3 DEF Batch
      <4> QED
        BY <4>2, <4>3
    <3>2. ASSUME NEW z \in R \union {x} PROVE z \in Batch(c)
      <4>1. CASE z = x
        BY <1>1, <4>1 DEF Batch
      <4>2. CASE z \in R
        <5>1. PICK e \in DOMAIN b : z = <<e, b[e]>>
          BY <4>2 DEF Batch
        <5>2. e # d
          BY <4>2, <5>1
        <5> QED
          BY <1>1, <5>1, <5>2 DEF Batch
      <4> QED
        BY <3>2, <4>1, <4>2
    <3> QED
      BY <3>1, <3>2
  <2>2. x \notin R /\ x[2] = new /\ <<d, b[d]>> \in S
    BY <1>5 DEF Batch
  <2>3. CallsIn(S) = CallsIn(R) + b[d].calls
    <3>1. <<d, b[d]>>[2].calls = b[d].calls
      OBVIOUS
    <3>2. CallsIn(S) = CallsIn(S \ {<<d, b[d]>>}) + <<d, b[d]>>[2].calls
      BY <1>3, <2>2, CallsInFacts
    <3> QED
      BY <3>1, <3>2
  <2> HIDE DEF R, S, x
  <2>4. CallsIn(R \union {x}) = CallsIn(R) + new.calls /\ CallsIn(R) \in Int
    BY <1>4, <2>2, CallsInFacts
  <2>5. b[d].calls \in Int
    BY <1>5 DEF Counters
  <2> QED
    BY <1>2, <1>5, <2>1, <2>3, <2>4, <2>5 DEF S, c
<1>6. CASE d \notin DOMAIN b
  <2>1. Batch(c) = S \union {x}
    BY <1>1, <1>6 DEF Batch
  <2>2. x \notin S /\ x[2] = new
    BY <1>6 DEF Batch
  <2> HIDE DEF S, x
  <2>3. CallsIn(S \union {x}) = CallsIn(S) + new.calls
    BY <1>3, <2>2, CallsInFacts
  <2> QED
    BY <1>2, <1>3, <1>6, <2>1, <2>3 DEF S, c
<1> QED
  BY <1>5, <1>6

\* bufferUsage adds the calls of the delta.
LEMMA BufferedGains ==
  ASSUME NEW m, Counters(m.buf), {"buf", "armed"} \subseteq DOMAIN m, NEW d, NEW delta, delta.calls \in Int
  PROVE  /\ Counters(Buffered(m, d, delta).buf)
         /\ BufferedCalls(Buffered(m, d, delta)) = BufferedCalls(m) + delta.calls
<1> DEFINE old == IF d \in DOMAIN m.buf THEN m.buf[d] ELSE NoDelta
           new == Plus(old, delta)
<1>1. Buffered(m, d, delta).buf = Bind(m.buf, d, new)
  BY DEF Buffered
<1>2. new.calls = old.calls + delta.calls
  BY DEF Plus
<1>3. old.calls = (IF d \in DOMAIN m.buf THEN m.buf[d].calls ELSE 0) /\ old.calls \in Int
  BY DEF NoDelta, Counters
<1>4. new.calls \in Int
  BY <1>2, <1>3
<1> HIDE DEF old, new
<1>5. /\ Counters(Bind(m.buf, d, new))
      /\ CallsIn(Batch(Bind(m.buf, d, new))) = CallsIn(Batch(m.buf)) + new.calls
                                               - (IF d \in DOMAIN m.buf THEN m.buf[d].calls ELSE 0)
  BY <1>4, BatchGains
<1>6. CallsIn(Batch(m.buf)) \in Int
  BY BatchFacts
<1>7. CallsIn(Batch(Bind(m.buf, d, new))) = CallsIn(Batch(m.buf)) + delta.calls
  BY <1>2, <1>3, <1>5, <1>6
<1>8. \A n : BufferedCalls(n) = CallsIn(Batch(n.buf))
  BY DEF BufferedCalls, Batch
<1> QED
  BY <1>1, <1>5, <1>7, <1>8

\* What one flush holds is a number.
LEMMA FlushingType ==
  ASSUME NEW w, Flushing(w)
  PROVE  CallsIn(Pending(w)) \in Int
<1>1. Deltas(Pending(w))
  <2>1. CASE w.pc \in Upserting
    <3>1. Pending(w) = w.todo \union {<<w.day, w.delta>>}
      BY <2>1 DEF Pending, Upserting
    <3>2. IsFiniteSet(Pending(w))
      BY <3>1, FS_AddElement DEF Flushing, Deltas
    <3> QED
      BY <2>1, <3>1, <3>2 DEF Flushing, Deltas
  <2>2. CASE w.pc \notin Upserting
    BY <2>2 DEF Pending, Upserting, Flushing
  <2> QED
    BY <2>1, <2>2
<1> QED
  BY <1>1, CallsInFacts

\* What the flushes of a process hold is a number.
LEMMA PendingType ==
  ASSUME NEW fl, Flushings(fl)
  PROVE  PendingCalls(fl) \in Int
<1> DEFINE g == [f \in Flushers |-> CallsIn(Pending(fl[f]))]
<1>1. IsFiniteSet(Flushers) /\ \A f \in Flushers : g[f] = CallsIn(Pending(fl[f])) /\ g[f] \in Int
  BY GrantAssumption, FlushingType DEF Flushings
<1> HIDE DEF g
<1> QED
  BY <1>1, PendingIs, SumType

\* One flush of a process moves: the sum changes by what it gains or loses.
LEMMA SlotMoves ==
  ASSUME NEW fl, Flushings(fl), NEW s \in Flushers, NEW w, Flushing(w)
  PROVE  LET fl2 == [fl EXCEPT ![s] = w]
         IN /\ Flushings(fl2)
            /\ PendingCalls(fl2) = PendingCalls(fl) - CallsIn(Pending(fl[s])) + CallsIn(Pending(w))
            /\ PendingCalls(fl) \in Int /\ CallsIn(Pending(fl[s])) \in Int /\ CallsIn(Pending(w)) \in Int
<1> DEFINE fl2 == [fl EXCEPT ![s] = w]
           g == [f \in Flushers |-> CallsIn(Pending(fl[f]))]
           k == [f \in Flushers |-> CallsIn(Pending(fl2[f]))]
           R == Flushers \ {s}
<1>1. Flushings(fl2) /\ fl2[s] = w /\ \A f \in Flushers : f # s => fl2[f] = fl[f]
  BY DEF Flushings
<1>2. CallsIn(Pending(w)) \in Int
  BY FlushingType
<1> HIDE DEF fl2
<1>3. /\ IsFiniteSet(Flushers) /\ IsFiniteSet(R)
      /\ \A f \in Flushers : g[f] = CallsIn(Pending(fl[f])) /\ g[f] \in Int
      /\ \A f \in Flushers : k[f] = CallsIn(Pending(fl2[f])) /\ k[f] \in Int
      /\ \A f \in R : g[f] \in Int /\ k[f] = g[f]
      /\ k[s] = CallsIn(Pending(w))
  BY <1>1, GrantAssumption, FS_RemoveElement, FlushingType DEF Flushings
<1> HIDE DEF g, k
<1>4. PendingCalls(fl) = SumOf(g, Flushers) /\ PendingCalls(fl2) = SumOf(k, Flushers)
  BY <1>3, PendingIs
<1>5. SumOf(g, Flushers) = g[s] + SumOf(g, Flushers \ {s}) /\ SumOf(k, Flushers) = k[s] + SumOf(k, Flushers \ {s})
  BY <1>3, SumLess
<1>6. SumOf(k, R) = SumOf(g, R) /\ SumOf(g, R) \in Int
  <2> HIDE DEF R
  <2> QED
    BY <1>3, SumSame, SumType
<1>7. Flushings(fl2) /\ PendingCalls(fl2) = PendingCalls(fl) - CallsIn(Pending(fl[s])) + CallsIn(Pending(w))
  BY <1>1, <1>2, <1>3, <1>4, <1>5, <1>6
<1>8. PendingCalls(fl) \in Int /\ CallsIn(Pending(fl[s])) \in Int
  BY <1>3, PendingType
<1> QED
  BY <1>2, <1>7, <1>8 DEF fl2

\* What a process holds is a number.
LEMMA HoldsType ==
  ASSUME NEW m, Counters(m.buf), NEW fl, Flushings(fl)
  PROVE  Holds(m, fl) \in Int /\ BufferedCalls(m) \in Int /\ PendingCalls(fl) \in Int
<1>1. BufferedCalls(m) \in Int
  BY BatchFacts DEF BufferedCalls, Batch
<1> QED
  BY <1>1, PendingType DEF Holds

\* One process gains or loses.
AllHold(pr, fl) == \A q \in Procs : Holds(pr[q], fl[q]) \in Int
OthersHold(pr, fl, pr2, fl2, p) == \A q \in Procs : q # p => Holds(pr2[q], fl2[q]) = Holds(pr[q], fl[q])
\* What is held in all changes by what one process gains or loses.
LEMMA HeldMoves ==
  ASSUME NEW pr, NEW fl, NEW pr2, NEW fl2, NEW p \in Procs,
         AllHold(pr, fl), AllHold(pr2, fl2), OthersHold(pr, fl, pr2, fl2, p)
  PROVE  /\ Held(pr2, fl2) = Held(pr, fl) - Holds(pr[p], fl[p]) + Holds(pr2[p], fl2[p])
         /\ Held(pr, fl) \in Int
<1> DEFINE g == [q \in Procs |-> Holds(pr[q], fl[q])]
           k == [q \in Procs |-> Holds(pr2[q], fl2[q])]
           R == Procs \ {p}
<1>1. /\ IsFiniteSet(Procs) /\ IsFiniteSet(R)
      /\ \A q \in Procs : g[q] = Holds(pr[q], fl[q]) /\ g[q] \in Int
      /\ \A q \in Procs : k[q] = Holds(pr2[q], fl2[q]) /\ k[q] \in Int
      /\ \A q \in R : g[q] \in Int /\ k[q] = g[q]
  BY GrantAssumption, FS_RemoveElement DEF AllHold, OthersHold
<1> HIDE DEF g, k
<1>2. Held(pr, fl) = SumOf(g, Procs) /\ Held(pr2, fl2) = SumOf(k, Procs)
  BY <1>1, HeldIs
<1>3. SumOf(g, Procs) = g[p] + SumOf(g, Procs \ {p}) /\ SumOf(k, Procs) = k[p] + SumOf(k, Procs \ {p})
  BY <1>1, SumLess
<1>4. SumOf(k, R) = SumOf(g, R) /\ SumOf(g, R) \in Int
  <2> HIDE DEF R
  <2> QED
    BY <1>1, SumSame, SumType
<1> QED
  BY <1>1, <1>2, <1>3, <1>4

\* Everything in the balance is a number.
LEMMA BalanceTyped ==
  ASSUME UsageTyped
  PROVE  /\ Written(usage) \in Int /\ Held(proc, flushes) \in Int /\ InFlight(Requests) \in Nat
         /\ \A p \in Procs : Holds(proc[p], flushes[p]) \in Int
         /\ IsFiniteSet(Upserts) /\ InFlight(Requests) = Cardinality(Upserts)
<1>1. \A p \in Procs : Holds(proc[p], flushes[p]) \in Int
  BY HoldsType DEF UsageTyped
<1>2. Held(proc, flushes) \in Int
  <2> DEFINE g == [q \in Procs |-> Holds(proc[q], flushes[q])]
  <2>1. IsFiniteSet(Procs) /\ \A q \in Procs : g[q] = Holds(proc[q], flushes[q]) /\ g[q] \in Int
    BY <1>1, GrantAssumption
  <2> HIDE DEF g
  <2>2. Held(proc, flushes) = SumOf(g, Procs)
    BY <2>1, HeldIs
  <2> QED
    BY <2>1, <2>2, SumType
<1>3. Written(usage) \in Int
  <2> DEFINE u == usage
             g == [d \in DOMAIN u |-> u[d].calls]
  <2>1. IsFiniteSet(DOMAIN u) /\ \A d \in DOMAIN u : g[d] = u[d].calls /\ g[d] \in Int
    BY DEF UsageTyped, Counters
  <2> HIDE DEF g, u
  <2>2. Written(u) = SumOf(g, DOMAIN u)
    BY <2>1, WrittenIs
  <2>3. SumOf(g, DOMAIN u) \in Int
    BY <2>1, SumType
  <2> QED
    BY <2>2, <2>3 DEF u
<1>4. IsFiniteSet(Upserts) /\ Cardinality(Upserts) \in Nat
  BY GrantAssumption, FS_Subset, FS_CardinalityType DEF Upserts
<1>5. InFlight(Requests) = Cardinality(Upserts)
  BY DEF InFlight, Upserts, Upserting
<1> QED
  BY <1>1, <1>2, <1>3, <1>4, <1>5

\* The processes hold the same while no buffer and no flush moves.
LEMMA HeldSame ==
  ASSUME UsageTyped, NEW pr, NEW fl, \A p \in Procs : pr[p].buf = proc[p].buf /\ fl[p] = flushes[p]
  PROVE  Held(pr, fl) = Held(proc, flushes)
<1> DEFINE g == [q \in Procs |-> Holds(proc[q], flushes[q])]
<1>1. \A p \in Procs : g[p] = Holds(proc[p], flushes[p]) /\ g[p] = Holds(pr[p], fl[p])
  BY DEF Holds, BufferedCalls
<1> HIDE DEF g
<1> QED
  BY <1>1, HeldIs

\* A step that leaves the counters, the buffers, the flushes and the statements of the
\* requests alone keeps the balance.
LEMMA QuietUsage ==
  ASSUME UsageInv, usage' = usage, flushes' = flushes, \A p \in Procs : proc'[p].buf = proc[p].buf,
         hist'.recorded = hist.recorded, hist'.lost = hist.lost, Upserts' = Upserts
  PROVE  UsageInv'
<1>1. UsageTyped'
  BY DEF UsageInv, UsageTyped
<1>2. Held(proc, flushes)' = Held(proc, flushes)
  <2> DEFINE pr == proc'
             fl == flushes'
  <2>1. UsageTyped /\ \A p \in Procs : pr[p].buf = proc[p].buf /\ fl[p] = flushes[p]
    BY DEF UsageInv
  <2> HIDE DEF pr, fl
  <2>2. Held(pr, fl) = Held(proc, flushes)
    BY <2>1, HeldSame
  <2> QED
    BY <2>2 DEF pr, fl
<1>3. InFlight(Requests)' = InFlight(Requests)
  BY DEF InFlight, Upserts, Upserting
<1> QED
  BY <1>1, <1>2, <1>3 DEF UsageInv

\* What one upsert does to the counters: a written delta counts once.
LEMMA UpsertFacts ==
  ASSUME Counters(usage), NEW pc \in Upserting, NEW d, NEW delta, delta.calls \in Int,
         NEW o \in UpsertOutcomes(pc, d, delta)
  PROVE  /\ Counters(o.usage)
         /\ \/ o.pc = "done" /\ Written(o.usage) = Written(usage) + delta.calls
            \/ o.pc \in {"insert", "again", "failed"} /\ o.usage = usage
<1> DEFINE u == usage
           v == [u EXCEPT ![d] = Plus(@, delta)]
           w == Bind(u, d, delta)
           c == delta.calls
<1>1. \/ o.pc = "done" /\ d \in DOMAIN u /\ o.usage = v
      \/ o.pc = "done" /\ d \notin DOMAIN u /\ o.usage = w
      \/ o.pc \in {"insert", "again", "failed"} /\ o.usage = u
  BY DEF UpsertOutcomes, Upserting, StillMissing
<1>2. Counters(u) /\ c \in Int
  OBVIOUS
<1>3. CASE o.pc = "done" /\ d \in DOMAIN u /\ o.usage = v
  <2>1. /\ DOMAIN v = DOMAIN u \union {d} /\ \A e \in DOMAIN u : e # d => v[e].calls = u[e].calls
        /\ v[d].calls = (IF d \in DOMAIN u THEN u[d].calls ELSE 0) + c
    BY <1>3 DEF Plus
  <2> HIDE DEF u, v, c
  <2>2. Counters(v) /\ Written(v) = Written(u) + c
    BY <1>2, <2>1, WrittenGains
  <2> QED
    BY <1>3, <2>2 DEF u, c
<1>4. CASE o.pc = "done" /\ d \notin DOMAIN u /\ o.usage = w
  <2>1. /\ DOMAIN w = DOMAIN u \union {d} /\ \A e \in DOMAIN u : e # d => w[e].calls = u[e].calls
        /\ w[d].calls = (IF d \in DOMAIN u THEN u[d].calls ELSE 0) + c
    BY <1>4 DEF Bind
  <2> HIDE DEF u, w, c
  <2>2. Counters(w) /\ Written(w) = Written(u) + c
    BY <1>2, <2>1, WrittenGains
  <2> QED
    BY <1>4, <2>2 DEF u, c
<1> QED
  BY <1>1, <1>2, <1>3, <1>4

\* One request moves: what becomes of the statements in flight.
LEMMA UpsertsMove ==
  ASSUME UsageTyped, NEW r \in Requests, Moves(r)
  PROVE  InFlight(Requests)' = InFlight(Requests) + (IF reqs'[r].pc \in Upserting THEN 1 ELSE 0)
                                                  - (IF reqs[r].pc \in Upserting THEN 1 ELSE 0)
<1> DEFINE S == Upserts \ {r}
<1>1. IsFiniteSet(S) /\ r \notin S /\ Cardinality(S) \in Nat
  BY BalanceTyped, FS_RemoveElement, FS_CardinalityType
<1>2. Cardinality(S \union {r}) = Cardinality(S) + 1
  <2> HIDE DEF S
  <2> QED
    BY <1>1, FS_AddElement
<1>3. Upserts = IF reqs[r].pc \in Upserting THEN S \union {r} ELSE S
  BY DEF Upserts
<1>4. Upserts' = IF reqs'[r].pc \in Upserting THEN S \union {r} ELSE S
  BY DEF Upserts, Moves
<1>5. InFlight(Requests) = Cardinality(Upserts) /\ InFlight(Requests)' = Cardinality(Upserts')
  BY DEF InFlight, Upserts, Upserting
<1> HIDE DEF S
<1> QED
  BY <1>1, <1>2, <1>3, <1>4, <1>5

\* The buffer of one process changes by c, and nothing else is held differently.
LEMMA BufferMoves ==
  ASSUME UsageTyped, Typed, NEW p \in Procs, NEW d, NEW delta, delta.calls \in Int,
         proc' = [proc EXCEPT ![p] = Buffered(@, d, delta)], flushes' = flushes
  PROVE  /\ \A q \in Procs : Counters(proc'[q].buf) /\ Flushings(flushes'[q])
         /\ Held(proc, flushes)' = Held(proc, flushes) + delta.calls
<1> DEFINE pr == proc'
           fl == flushes
           m == Buffered(proc[p], d, delta)
           c == delta.calls
<1>1. {"buf", "armed"} \subseteq DOMAIN proc[p] /\ Counters(proc[p].buf) /\ Flushings(fl[p])
  BY DEF Typed, ProcTyped, ProcFields, UsageTyped
<1>2. Counters(m.buf) /\ BufferedCalls(m) = BufferedCalls(proc[p]) + c
  <2> DEFINE n == proc[p]
  <2>1. Counters(n.buf) /\ {"buf", "armed"} \subseteq DOMAIN n
    BY <1>1
  <2> HIDE DEF n
  <2>2. Counters(Buffered(n, d, delta).buf) /\ BufferedCalls(Buffered(n, d, delta)) = BufferedCalls(n) + delta.calls
    BY <2>1, BufferedGains
  <2> QED
    BY <2>2 DEF n
<1>3. pr[p] = m /\ \A q \in Procs : q # p => pr[q] = proc[q]
  BY DEF Typed, ProcTyped
<1> HIDE DEF pr, m
<1>4. \A q \in Procs : Counters(pr[q].buf) /\ Flushings(fl[q])
  BY <1>2, <1>3 DEF UsageTyped
<1>5. AllHold(pr, fl) /\ AllHold(proc, fl)
  BY <1>4, HoldsType DEF UsageTyped, AllHold
<1>6. BufferedCalls(proc[p]) \in Int /\ PendingCalls(fl[p]) \in Int
  BY <1>1, HoldsType
<1>7. Holds(pr[p], fl[p]) = Holds(proc[p], fl[p]) + c
  BY <1>2, <1>3, <1>6 DEF Holds
<1>8. OthersHold(proc, fl, pr, fl, p)
  BY <1>3 DEF OthersHold
<1> HIDE DEF fl, c
<1>9. Held(pr, fl) = Held(proc, fl) - Holds(proc[p], fl[p]) + Holds(pr[p], fl[p]) /\ Held(proc, fl) \in Int
  BY <1>5, <1>8, HeldMoves
<1>10. c \in Int
  BY DEF c
<1>11. Held(pr, fl) = Held(proc, fl) + c
  BY <1>5, <1>7, <1>9, <1>10 DEF AllHold
<1> QED
  BY <1>4, <1>11 DEF fl, pr, c

\* recordGrantUsage: a recorded call is in the buffer, or its statement begins.
LEMMA RecordUsage ==
  ASSUME UsageInv, Typed, NEW r \in Requests, RecordDeferred(r) \/ RecordSync(r)
  PROVE  UsageInv'
<1>0. UsageTyped /\ Written(usage) \in Int /\ Held(proc, flushes) \in Int /\ InFlight(Requests) \in Nat
      /\ hist.lost \in Int /\ hist.recorded \in Int
  BY BalanceTyped DEF UsageInv, UsageTyped
<1>1. hist'.lost = hist.lost /\ hist'.recorded = hist.recorded + 1
  BY DEF RecordDeferred, RecordSync, Typed, HistTyped, HistFields
<1>2. Moves(r)
  BY DEF RecordDeferred, RecordSync, Moves, Typed, ReqTyped, ReqFields
<1>3. CASE RecordDeferred(r)
  <2> DEFINE p == reqs[r].p
  <2>1. p \in Procs /\ One.calls = 1 /\ One.calls \in Int
    BY <1>3 DEF RecordDeferred, Typed, ReqTyped, One
  <2>2. proc' = [proc EXCEPT ![p] = Buffered(@, day, One)] /\ flushes' = flushes /\ usage' = usage
    BY <1>3 DEF RecordDeferred
  <2>3. reqs[r].pc \notin Upserting /\ reqs'[r].pc \notin Upserting
    BY <1>3 DEF RecordDeferred, Upserting, Typed, ReqTyped, ReqFields
  <2> HIDE DEF p
  <2>4. /\ \A q \in Procs : Counters(proc'[q].buf) /\ Flushings(flushes'[q])
        /\ Held(proc, flushes)' = Held(proc, flushes) + 1
    BY <1>0, <2>1, <2>2, BufferMoves
  <2>5. InFlight(Requests)' = InFlight(Requests)
    BY <1>0, <1>2, <2>3, UpsertsMove
  <2>6. UsageTyped'
    BY <1>0, <1>1, <2>2, <2>4 DEF UsageTyped
  <2> QED
    BY <1>0, <1>1, <2>2, <2>4, <2>5, <2>6 DEF UsageInv
<1>4. CASE RecordSync(r)
  <2>1. proc' = proc /\ flushes' = flushes /\ usage' = usage
    BY <1>4 DEF RecordSync
  <2>2. reqs[r].pc \notin Upserting /\ reqs'[r].pc \in Upserting
    BY <1>4 DEF RecordSync, Upserting, Typed, ReqTyped, ReqFields
  <2>3. InFlight(Requests)' = InFlight(Requests) + 1
    BY <1>0, <1>2, <2>2, UpsertsMove
  <2>4. UsageTyped'
    BY <1>0, <1>1, <2>1 DEF UsageTyped
  <2> QED
    BY <1>0, <1>1, <2>1, <2>3, <2>4 DEF UsageInv
<1> QED
  BY <1>3, <1>4

\* One statement of a request's upsert: the call moves into the table, or is lost.
LEMMA StatementUsage ==
  ASSUME UsageInv, Typed, NEW r \in Requests, RecordStatement(r)
  PROVE  UsageInv'
<1>0. UsageTyped /\ Written(usage) \in Int /\ Held(proc, flushes) \in Int /\ InFlight(Requests) \in Nat
      /\ hist.lost \in Int /\ hist.recorded \in Int
  BY BalanceTyped DEF UsageInv, UsageTyped
<1> DEFINE pc == reqs[r].pc
           d == reqs[r].usageDay
<1>1. pc \in Upserting /\ One.calls = 1 /\ One.calls \in Int
  BY DEF RecordStatement, Upserting, One
<1>2. PICK o \in UpsertOutcomes(pc, d, One) :
        /\ usage' = o.usage
        /\ ReqGoto(r, IF o.pc \in {"done", "failed"} THEN "handler" ELSE o.pc)
        /\ hist' = IF o.pc = "failed" THEN [hist EXCEPT !.lost = @ + 1] ELSE hist
  BY DEF RecordStatement
<1>3. proc' = proc /\ flushes' = flushes
  BY DEF RecordStatement
<1>4. Moves(r) /\ reqs'[r].pc = IF o.pc \in {"done", "failed"} THEN "handler" ELSE o.pc
  BY <1>2, GotoFacts DEF Typed, Goes
<1>5. hist'.recorded = hist.recorded /\ hist'.lost = hist.lost + (IF o.pc = "failed" THEN 1 ELSE 0)
  BY <1>0, <1>2 DEF Typed, HistTyped, HistFields
<1>6. InFlight(Requests)' = InFlight(Requests) + (IF reqs'[r].pc \in Upserting THEN 1 ELSE 0) - 1
  BY <1>0, <1>1, <1>4, UpsertsMove
<1> HIDE DEF pc, d
<1>7. /\ Counters(o.usage)
      /\ \/ o.pc = "done" /\ Written(o.usage) = Written(usage) + 1
         \/ o.pc \in {"insert", "again", "failed"} /\ o.usage = usage
  BY <1>0, <1>1, UpsertFacts DEF UsageTyped
<1>8. UsageTyped'
  BY <1>0, <1>2, <1>3, <1>5, <1>7 DEF UsageTyped
<1>9. CASE o.pc = "done" /\ Written(o.usage) = Written(usage) + 1
  <2>1. reqs'[r].pc \notin Upserting
    BY <1>4, <1>9 DEF Upserting
  <2> QED
    BY <1>0, <1>2, <1>3, <1>5, <1>6, <1>8, <1>9, <2>1 DEF UsageInv
<1>10. CASE o.pc = "failed" /\ o.usage = usage
  <2>1. reqs'[r].pc \notin Upserting
    BY <1>4, <1>10 DEF Upserting
  <2> QED
    BY <1>0, <1>2, <1>3, <1>5, <1>6, <1>8, <1>10, <2>1 DEF UsageInv
<1>11. CASE o.pc \in {"insert", "again"} /\ o.usage = usage
  <2>1. reqs'[r].pc \in Upserting
    BY <1>4, <1>11 DEF Upserting
  <2> QED
    BY <1>0, <1>2, <1>3, <1>5, <1>6, <1>8, <1>11, <2>1 DEF UsageInv
<1> QED
  BY <1>7, <1>9, <1>10, <1>11

\* A call of a changeset is in the table and recorded, or neither.
LEMMA ChangesetUsage ==
  ASSUME UsageInv, Typed, NEW r \in Requests, ChangesetCall(r)
  PROVE  UsageInv'
<1>0. UsageTyped /\ Written(usage) \in Int /\ Held(proc, flushes) \in Int /\ InFlight(Requests) \in Nat
      /\ hist.lost \in Int /\ hist.recorded \in Int /\ Counters(usage)
  BY BalanceTyped DEF UsageInv, UsageTyped
<1>1. proc' = proc /\ flushes' = flushes
  BY DEF ChangesetCall
<1>2. reqs' = NextPart(r) /\ reqs[r].pc \notin Upserting
  BY DEF ChangesetCall, Upserting
<1>3. Moves(r) /\ reqs'[r].pc \notin Upserting
  BY <1>2, NextPartFacts DEF Typed, Ends, Again, Upserting
<1>4. InFlight(Requests)' = InFlight(Requests)
  BY <1>0, <1>2, <1>3, UpsertsMove
<1>5. CASE hist' = hist /\ usage' = usage
  BY <1>0, <1>1, <1>4, <1>5 DEF UsageInv, UsageTyped
<1>6. CASE ~(hist' = hist /\ usage' = usage)
  <2> DEFINE u == usage
             n == [calls |-> (IF day \in DOMAIN u THEN u[day].calls ELSE 0) + 1,
                   refunded |-> IF day \in DOMAIN u THEN u[day].refunded ELSE 0]
             v == Bind(u, day, n)
             q == reqs[r]
  <2>1. /\ usage' = v
        /\ hist' = LET h == [hist EXCEPT !.recorded = @ + 1]
                   IN IF q.today = NoDay THEN h
                      ELSE [h EXCEPT !.charged[q.today] = @ + 1, !.admitted[q.today] = @ + 1]
    BY <1>6 DEF ChangesetCall
  <2>2. hist'.recorded = hist.recorded + 1 /\ hist'.lost = hist.lost
    BY <2>1 DEF Typed, HistTyped, HistFields
  <2>3. /\ DOMAIN v = DOMAIN u \union {day} /\ \A e \in DOMAIN u : e # day => v[e].calls = u[e].calls
        /\ v[day].calls = (IF day \in DOMAIN u THEN u[day].calls ELSE 0) + 1
    BY DEF Bind
  <2>4. Counters(u)
    BY <1>0
  <2> HIDE DEF u, v
  <2>5. Counters(v) /\ Written(v) = Written(u) + 1
    BY <2>3, <2>4, WrittenGains
  <2>6. Counters(usage') /\ Written(usage)' = Written(usage) + 1
    BY <2>1, <2>5 DEF u
  <2>7. UsageTyped'
    BY <1>0, <1>1, <2>2, <2>6 DEF UsageTyped
  <2> QED
    BY <1>0, <1>1, <1>4, <2>2, <2>6, <2>7 DEF UsageInv
<1> QED
  BY <1>5, <1>6

\* A refund counts no call.
LEMMA RefundUsage ==
  ASSUME UsageInv, Typed, NEW r \in Requests, RefundGrantUsage(r)
  PROVE  UsageInv'
<1>0. UsageTyped /\ Written(usage) \in Int /\ Held(proc, flushes) \in Int /\ InFlight(Requests) \in Nat
      /\ hist.lost \in Int /\ hist.recorded \in Int /\ Counters(usage)
  BY BalanceTyped DEF UsageInv, UsageTyped
<1>1. reqs' = NextPart(r) /\ reqs[r].pc = "refundUsage" /\ flushes' = flushes /\ hist' = hist
  BY DEF RefundGrantUsage
<1>2. Moves(r) /\ reqs'[r].pc \notin Upserting
  BY <1>1, NextPartFacts DEF Typed, Ends, Again, Upserting
<1>3. InFlight(Requests)' = InFlight(Requests)
  BY <1>0, <1>1, <1>2, UpsertsMove DEF Upserting
<1>4. OneBack.calls = 0 /\ OneBack.calls \in Int
  BY DEF OneBack
<1> DEFINE d == reqs[r].usageDay
           p == reqs[r].p
           u == usage
           v == [u EXCEPT ![d] = Plus(@, OneBack)]
<1>5. p \in Procs
  BY <1>1 DEF Typed, ReqTyped
<1>6. \/ proc' = [proc EXCEPT ![p] = Buffered(@, d, OneBack)] /\ usage' = usage
      \/ proc' = proc /\ usage' = usage
      \/ proc' = proc /\ d \in DOMAIN u /\ usage' = v
  BY DEF RefundGrantUsage
<1>7. CASE proc' = [proc EXCEPT ![p] = Buffered(@, d, OneBack)] /\ usage' = usage
  <2> HIDE DEF p, d
  <2>1. /\ \A q \in Procs : Counters(proc'[q].buf) /\ Flushings(flushes'[q])
        /\ Held(proc, flushes)' = Held(proc, flushes) + 0
    BY <1>0, <1>1, <1>4, <1>5, <1>7, BufferMoves
  <2>2. UsageTyped'
    BY <1>0, <1>1, <1>7, <2>1 DEF UsageTyped
  <2> QED
    BY <1>0, <1>1, <1>3, <1>7, <2>1, <2>2 DEF UsageInv
<1>8. CASE proc' = proc /\ usage' = usage
  BY <1>0, <1>1, <1>3, <1>8 DEF UsageInv, UsageTyped
<1>9. CASE proc' = proc /\ d \in DOMAIN u /\ usage' = v
  <2>1. /\ DOMAIN v = DOMAIN u \union {d} /\ \A e \in DOMAIN u : e # d => v[e].calls = u[e].calls
        /\ v[d].calls = u[d].calls + 0 /\ (IF d \in DOMAIN u THEN u[d].calls ELSE 0) = u[d].calls
    BY <1>9, <1>4 DEF Plus
  <2>2. Counters(u)
    BY <1>0
  <2> HIDE DEF u, v, d
  <2>3. Counters(v) /\ Written(v) = Written(u) + 0
    BY <2>1, <2>2, WrittenGains
  <2>4. Counters(usage') /\ Written(usage)' = Written(usage)
    BY <1>0, <1>9, <2>3 DEF u
  <2>5. UsageTyped'
    BY <1>0, <1>1, <1>9, <2>4 DEF UsageTyped
  <2> QED
    BY <1>0, <1>1, <1>3, <1>9, <2>4, <2>5 DEF UsageInv
<1> QED
  BY <1>6, <1>7, <1>8, <1>9

\* One flush and one buffer move, and what they hold together changes by c.
LEMMA FlushMoves ==
  ASSUME UsageTyped, NEW p \in Procs, NEW c \in Int,
         \A q \in Procs : q # p => proc'[q].buf = proc[q].buf /\ flushes'[q] = flushes[q],
         DOMAIN flushes' = Procs, Counters(proc'[p].buf), Flushings(flushes'[p]),
         Holds(proc'[p], flushes'[p]) = Holds(proc[p], flushes[p]) + c
  PROVE  /\ \A q \in Procs : Counters(proc'[q].buf) /\ Flushings(flushes'[q])
         /\ Held(proc, flushes)' = Held(proc, flushes) + c
<1> DEFINE pr == proc'
           fl == flushes'
<1>1. \A q \in Procs : Counters(pr[q].buf) /\ Flushings(fl[q])
  BY DEF UsageTyped
<1> HIDE DEF pr, fl
<1>2. AllHold(pr, fl) /\ AllHold(proc, flushes)
  BY <1>1, HoldsType DEF AllHold, UsageTyped
<1>3. OthersHold(proc, flushes, pr, fl, p)
  BY ZenonT(80) DEF OthersHold, Holds, BufferedCalls, pr, fl
<1>4. /\ Held(pr, fl) = Held(proc, flushes) - Holds(proc[p], flushes[p]) + Holds(pr[p], fl[p])
      /\ Held(proc, flushes) \in Int
  BY <1>2, <1>3, HeldMoves
<1>5. Holds(pr[p], fl[p]) = Holds(proc[p], flushes[p]) + c
  BY DEF pr, fl
<1>6. Held(pr, fl) = Held(proc, flushes) + c
  BY <1>2, <1>4, <1>5 DEF AllHold
<1> QED
  BY <1>1, <1>6 DEF pr, fl

\* Nothing is buffered, flushed or batched at first.
LEMMA NothingFacts ==
  /\ Deltas({}) /\ CallsIn({}) = 0 /\ Counters(<< >>) /\ CallsIn(Batch(<< >>)) = 0
  /\ Flushing(NoFlush) /\ Pending(NoFlush) = {}
  /\ DOMAIN NoFlush = {"pc", "todo", "day", "delta"} /\ NoFlush.pc = "idle" /\ NoFlush.todo = {}
  /\ Flushings(NoFlushes) /\ PendingCalls(NoFlushes) = 0
<1>1. Deltas({})
  BY FS_EmptySet DEF Deltas
<1>2. CallsIn({}) = 0
  BY <1>1, CallsInFacts
<1>3. DOMAIN << >> = {} /\ Batch(<< >>) = {}
  BY DEF Batch
<1>4. Counters(<< >>)
  BY <1>3, FS_EmptySet DEF Counters
<1>5. DOMAIN NoFlush = {"pc", "todo", "day", "delta"} /\ NoFlush.pc = "idle" /\ NoFlush.todo = {}
  BY DEF NoFlush
<1>6. Flushing(NoFlush) /\ Pending(NoFlush) = {}
  BY <1>1, <1>5 DEF Flushing, Pending, Upserting
<1>7. Flushings(NoFlushes) /\ \A f \in Flushers : NoFlushes[f] = NoFlush
  BY <1>6 DEF Flushings, NoFlushes
<1>8. PendingCalls(NoFlushes) = 0
  <2> DEFINE g == [f \in Flushers |-> 0]
  <2>1. IsFiniteSet(Flushers) /\ \A f \in Flushers : g[f] = CallsIn(Pending(NoFlushes[f])) /\ g[f] = 0
    BY <1>2, <1>6, <1>7, GrantAssumption
  <2> HIDE DEF g
  <2>2. PendingCalls(NoFlushes) = SumOf(g, Flushers)
    BY <2>1, PendingIs
  <2> QED
    BY <2>1, <2>2, SumZero
<1> QED
  BY <1>1, <1>2, <1>3, <1>4, <1>5, <1>6, <1>7, <1>8

\* One flush and the buffer of its process move, and what they hold together changes
\* by k.
LEMMA SlotStep ==
  ASSUME UsageTyped, NEW p \in Procs, NEW s \in Flushers, NEW k \in Int, NEW w, Flushing(w),
         flushes' = [flushes EXCEPT ![p][s] = w], Counters(proc'[p].buf),
         \A q \in Procs : q # p => proc'[q].buf = proc[q].buf,
         BufferedCalls(proc'[p]) + CallsIn(Pending(w)) = (BufferedCalls(proc[p]) + CallsIn(Pending(flushes[p][s]))) + k
  PROVE  /\ DOMAIN flushes' = Procs
         /\ \A q \in Procs : Counters(proc'[q].buf) /\ Flushings(flushes'[q])
         /\ Held(proc, flushes)' = Held(proc, flushes) + k
<1> DEFINE fl == flushes[p]
           fl2 == [fl EXCEPT ![s] = w]
<1>1. /\ DOMAIN flushes' = Procs /\ flushes'[p] = fl2
      /\ \A q \in Procs : q # p => flushes'[q] = flushes[q]
  BY DEF UsageTyped
<1>2. Flushings(fl) /\ Counters(proc[p].buf)
  BY DEF UsageTyped
<1> HIDE DEF fl
<1>3. /\ Flushings(fl2)
      /\ PendingCalls(fl2) = PendingCalls(fl) - CallsIn(Pending(fl[s])) + CallsIn(Pending(w))
      /\ PendingCalls(fl) \in Int /\ CallsIn(Pending(fl[s])) \in Int /\ CallsIn(Pending(w)) \in Int
  BY <1>2, SlotMoves
<1> HIDE DEF fl2
<1> DEFINE new == proc'[p]
<1>4. /\ Counters(new.buf)
      /\ BufferedCalls(new) + CallsIn(Pending(w)) = (BufferedCalls(proc[p]) + CallsIn(Pending(fl[s]))) + k
  BY DEF fl
<1> HIDE DEF new
<1>5. BufferedCalls(new) \in Int /\ BufferedCalls(proc[p]) \in Int
  BY <1>2, <1>3, <1>4, HoldsType
<1>6. Holds(new, fl2) = Holds(proc[p], fl) + k
  BY <1>3, <1>4, <1>5 DEF Holds
<1>7. Holds(proc'[p], flushes'[p]) = Holds(proc[p], flushes[p]) + k
  BY <1>1, <1>6 DEF fl, new
<1>8. Counters(proc'[p].buf) /\ Flushings(flushes'[p])
  BY <1>1, <1>3
<1>9. /\ UsageTyped /\ p \in Procs /\ k \in Int /\ DOMAIN flushes' = Procs
      /\ \A q \in Procs : q # p => proc'[q].buf = proc[q].buf /\ flushes'[q] = flushes[q]
  BY <1>1
<1>10. /\ \A q \in Procs : Counters(proc'[q].buf) /\ Flushings(flushes'[q])
       /\ Held(proc, flushes)' = Held(proc, flushes) + k
  BY ONLY <1>7, <1>8, <1>9, FlushMoves
<1> QED
  BY <1>1, <1>10

\* A flush takes the buffer as a whole.
LEMMA FlushUsage ==
  ASSUME UsageInv, Typed, NEW p \in Procs, NEW a, Flush(p, a)
  PROVE  UsageInv'
<1>0. UsageTyped /\ Written(usage) \in Int /\ Held(proc, flushes) \in Int /\ InFlight(Requests) \in Nat
      /\ hist.lost \in Int /\ hist.recorded \in Int
  BY BalanceTyped DEF UsageInv, UsageTyped
<1>1. usage' = usage /\ reqs' = reqs /\ hist' = hist
  BY DEF Flush
<1> DEFINE b == proc[p].buf
           m == proc'[p]
           s == CHOOSE f \in {f \in Flushers : flushes[p][f].pc = "idle"} : TRUE
           w == [NoFlush EXCEPT !.pc = "next", !.todo = Batch(b)]
           g == flushes[p][s]
<1>2. /\ m.buf = << >> /\ \A q \in Procs : q # p => proc'[q].buf = proc[q].buf
  BY DEF Flush, Typed, ProcTyped, ProcFields
<1>3. s \in Flushers /\ g.pc = "idle" /\ flushes' = [flushes EXCEPT ![p][s] = w]
  BY DEF Flush, Batch
<1>4. DOMAIN w = {"pc", "todo", "day", "delta"} /\ w.pc = "next" /\ w.todo = Batch(b)
  BY NothingFacts
<1> HIDE DEF s, w
<1>5. Counters(b) /\ Flushing(g)
  BY <1>0, <1>3 DEF UsageTyped, Flushings
<1> HIDE DEF b, m, g
<1>6. Deltas(Batch(b)) /\ CallsIn(Batch(b)) \in Int
  BY <1>5, BatchFacts
<1>7. Flushing(w)
  BY <1>4, <1>6 DEF Flushing, Upserting
<1>8. CallsIn(Pending(w)) = CallsIn(Batch(b)) /\ BufferedCalls(m) = 0
  BY <1>2, <1>4, NothingFacts DEF Pending, BufferedCalls, Batch
<1>9. CallsIn(Pending(g)) = 0 /\ BufferedCalls(proc[p]) = CallsIn(Batch(b))
  <2>1. Pending(g) = {}
    BY <1>3, <1>5 DEF Pending, Flushing
  <2> QED
    BY <2>1, NothingFacts DEF BufferedCalls, Batch, b
<1>10. BufferedCalls(proc'[p]) + CallsIn(Pending(w)) = (BufferedCalls(proc[p]) + CallsIn(Pending(flushes[p][s]))) + 0
  BY <1>6, <1>8, <1>9 DEF g, m
<1>11. Counters(proc'[p].buf)
  BY <1>2, NothingFacts DEF m
<1>12. /\ DOMAIN flushes' = Procs
       /\ \A q \in Procs : Counters(proc'[q].buf) /\ Flushings(flushes'[q])
       /\ Held(proc, flushes)' = Held(proc, flushes) + 0
  <2> DEFINE k == 0
  <2>1. /\ UsageTyped /\ p \in Procs /\ s \in Flushers /\ k \in Int /\ Flushing(w)
        /\ flushes' = [flushes EXCEPT ![p][s] = w] /\ Counters(proc'[p].buf)
        /\ \A q \in Procs : q # p => proc'[q].buf = proc[q].buf
        /\ BufferedCalls(proc'[p]) + CallsIn(Pending(w)) = (BufferedCalls(proc[p]) + CallsIn(Pending(flushes[p][s]))) + k
    BY <1>0, <1>2, <1>3, <1>7, <1>10, <1>11
  <2> HIDE DEF k
  <2>2. /\ DOMAIN flushes' = Procs
        /\ \A q \in Procs : Counters(proc'[q].buf) /\ Flushings(flushes'[q])
        /\ Held(proc, flushes)' = Held(proc, flushes) + k
    BY ONLY <2>1, SlotStep
  <2> QED
    BY <2>2 DEF k
<1>13. UsageTyped'
  BY <1>0, <1>1, <1>12 DEF UsageTyped
<1>14. InFlight(Requests)' = InFlight(Requests)
  BY <1>1 DEF InFlight
<1> QED
  BY <1>0, <1>1, <1>12, <1>13, <1>14 DEF UsageInv

\* The flush goes on with one of the deltas it took, or ends.
LEMMA FlushNextUsage ==
  ASSUME UsageInv, Typed, NEW p \in Procs, NEW s \in Flushers, FlushNext(p, s)
  PROVE  UsageInv'
<1>0. UsageTyped /\ Written(usage) \in Int /\ Held(proc, flushes) \in Int /\ InFlight(Requests) \in Nat
      /\ hist.lost \in Int /\ hist.recorded \in Int
  BY BalanceTyped DEF UsageInv, UsageTyped
<1>1. usage' = usage /\ reqs' = reqs /\ hist' = hist /\ proc' = proc /\ flushes[p][s].pc = "next"
  BY DEF FlushNext
<1> DEFINE g == flushes[p][s]
           S == g.todo
           e == CHOOSE x \in S : TRUE
           f == IF S = {} THEN NoFlush
                ELSE [pc |-> "update", todo |-> S \ {e}, day |-> e[1], delta |-> e[2]]
<1>2. flushes' = [flushes EXCEPT ![p][s] = f]
  BY <1>0 DEF FlushNext
<1>3. Flushing(g) /\ g.pc = "next" /\ Pending(g) = S /\ Deltas(S)
  BY <1>0, <1>1 DEF UsageTyped, Pending, Flushing, Flushings
<1>4. Flushing(f) /\ Pending(f) = S
  <2>1. CASE S = {}
    BY <2>1, NothingFacts
  <2>2. CASE S # {}
    <3>1. e \in S
      BY <2>2
    <3>2. e = <<e[1], e[2]>> /\ e[2].calls \in Int
      BY <1>3, <3>1 DEF Deltas
    <3>3. Deltas(S \ {e})
      BY <1>3, FS_RemoveElement DEF Deltas
    <3>4. f = [pc |-> "update", todo |-> S \ {e}, day |-> e[1], delta |-> e[2]]
      BY <2>2
    <3> HIDE DEF f, e
    <3>5. /\ DOMAIN f = {"pc", "todo", "day", "delta"} /\ f.pc = "update"
          /\ f.todo = S \ {e} /\ f.day = e[1] /\ f.delta = e[2]
      BY <3>4
    <3>6. <<f.day, f.delta>> = e
      BY <3>2, <3>5
    <3>7. Flushing(f)
      BY <3>2, <3>3, <3>5, <3>6 DEF Flushing, Upserting
    <3>8. Pending(f) = (S \ {e}) \union {e}
      BY <3>5, <3>6 DEF Pending
    <3> QED
      BY <3>1, <3>7, <3>8
  <2> QED
    BY <2>1, <2>2
<1> HIDE DEF S, e, f, g
<1>5. Counters(proc'[p].buf) /\ \A q \in Procs : proc'[q].buf = proc[q].buf
  BY <1>0, <1>1 DEF UsageTyped
<1>6. BufferedCalls(proc[p]) \in Int /\ CallsIn(Pending(g)) \in Int
  BY <1>0, <1>3, HoldsType, FlushingType DEF UsageTyped
<1>7. BufferedCalls(proc'[p]) + CallsIn(Pending(f)) = (BufferedCalls(proc[p]) + CallsIn(Pending(flushes[p][s]))) + 0
  BY <1>1, <1>3, <1>4, <1>6 DEF g
<1>8. /\ DOMAIN flushes' = Procs
      /\ \A q \in Procs : Counters(proc'[q].buf) /\ Flushings(flushes'[q])
      /\ Held(proc, flushes)' = Held(proc, flushes) + 0
  <2> DEFINE k == 0
  <2>1. /\ UsageTyped /\ p \in Procs /\ s \in Flushers /\ k \in Int /\ Flushing(f)
        /\ flushes' = [flushes EXCEPT ![p][s] = f] /\ Counters(proc'[p].buf)
        /\ \A q \in Procs : q # p => proc'[q].buf = proc[q].buf
        /\ BufferedCalls(proc'[p]) + CallsIn(Pending(f)) = (BufferedCalls(proc[p]) + CallsIn(Pending(flushes[p][s]))) + k
    BY <1>0, <1>2, <1>4, <1>5, <1>7
  <2> HIDE DEF k
  <2>2. /\ DOMAIN flushes' = Procs
        /\ \A q \in Procs : Counters(proc'[q].buf) /\ Flushings(flushes'[q])
        /\ Held(proc, flushes)' = Held(proc, flushes) + k
    BY ONLY <2>1, SlotStep
  <2> QED
    BY <2>2 DEF k
<1>9. UsageTyped'
  BY <1>0, <1>1, <1>8 DEF UsageTyped
<1>10. InFlight(Requests)' = InFlight(Requests)
  BY <1>1 DEF InFlight
<1> QED
  BY <1>0, <1>1, <1>8, <1>9, <1>10 DEF UsageInv

\* One statement of a flush: the delta is in the table, still in the flush, or back in
\* the buffer.
LEMMA FlushStatementUsage ==
  ASSUME UsageInv, Typed, NEW p \in Procs, NEW s \in Flushers, FlushStatement(p, s)
  PROVE  UsageInv'
<1>0. UsageTyped /\ Written(usage) \in Int /\ Held(proc, flushes) \in Int /\ InFlight(Requests) \in Nat
      /\ hist.lost \in Int /\ hist.recorded \in Int
  BY BalanceTyped DEF UsageInv, UsageTyped
<1> DEFINE g == flushes[p][s]
           pc == g.pc
           d == g.day
           delta == g.delta
           S == g.todo
           c == delta.calls
<1>1. reqs' = reqs /\ hist' = hist /\ pc \in Upserting
  BY DEF FlushStatement, Upserting
<1>2. PICK o \in UpsertOutcomes(pc, d, delta) :
        /\ usage' = o.usage
        /\ flushes' = [flushes EXCEPT ![p][s] =
             IF o.pc \in {"done", "failed"} THEN [NoFlush EXCEPT !.pc = "next", !.todo = S]
             ELSE [g EXCEPT !.pc = o.pc]]
        /\ proc' = IF o.pc = "failed" THEN [proc EXCEPT ![p] = Buffered(@, d, delta)] ELSE proc
  BY DEF FlushStatement
<1> DEFINE f == IF o.pc \in {"done", "failed"} THEN [NoFlush EXCEPT !.pc = "next", !.todo = S]
                ELSE [g EXCEPT !.pc = o.pc]
<1>3. flushes' = [flushes EXCEPT ![p][s] = f]
  BY <1>2
<1>4. /\ Flushing(g) /\ c \in Int /\ Deltas(S) /\ <<d, delta>> \notin S
      /\ DOMAIN g = {"pc", "todo", "day", "delta"} /\ Pending(g) = S \union {<<d, delta>>}
  BY <1>0, <1>1 DEF UsageTyped, Flushing, Flushings, Pending, Upserting
<1>5. Counters(proc[p].buf) /\ {"buf", "armed"} \subseteq DOMAIN proc[p] /\ DOMAIN proc = Procs
  BY <1>0 DEF UsageTyped, Typed, ProcTyped, ProcFields
<1> DEFINE n == proc[p]
           m == proc'[p]
<1>6. /\ m = IF o.pc = "failed" THEN Buffered(n, d, delta) ELSE n
      /\ \A q \in Procs : q # p => proc'[q].buf = proc[q].buf
  BY <1>2, <1>5
<1>7a. /\ o.pc \in {"done", "failed"} => f = [NoFlush EXCEPT !.pc = "next", !.todo = S]
       /\ o.pc \notin {"done", "failed"} => f = [g EXCEPT !.pc = o.pc]
  OBVIOUS
<1> HIDE DEF f, g, pc, d, delta, S, n, m
<1>7. CallsIn(Pending(g)) = CallsIn(S) + c /\ CallsIn(S) \in Int
  <2> DEFINE x == <<d, delta>>
  <2>1. x \notin S /\ x[2].calls = c /\ x[2].calls \in Int
    BY <1>4 DEF c
  <2> HIDE DEF x
  <2>2. CallsIn(S \union {x}) = CallsIn(S) + x[2].calls /\ CallsIn(S) \in Int
    BY <1>4, <2>1, CallsInFacts
  <2> QED
    BY <1>4, <2>1, <2>2 DEF x
<1>8. delta.calls \in Int /\ Counters(usage)
  BY <1>0, <1>4 DEF c, UsageTyped
<1>9. /\ Counters(o.usage)
      /\ \/ o.pc = "done" /\ Written(o.usage) = Written(usage) + c
         \/ o.pc \in {"insert", "again", "failed"} /\ o.usage = usage
  BY <1>1, <1>8, UpsertFacts DEF c
<1> HIDE DEF c
<1>10. BufferedCalls(n) \in Int
  <2>1. Counters(n.buf)
    BY <1>5 DEF n
  <2> QED
    BY <1>4, <1>0, <2>1, HoldsType DEF UsageTyped
<1>11. BufferedCalls(n) + CallsIn(Pending(g)) = BufferedCalls(n) + (CallsIn(S) + c)
  BY <1>7
<1>12. ASSUME NEW k \in Int, Flushing(f), Counters(m.buf),
              BufferedCalls(m) + CallsIn(Pending(f)) = (BufferedCalls(n) + CallsIn(Pending(g))) + k
       PROVE  /\ DOMAIN flushes' = Procs
              /\ \A q \in Procs : Counters(proc'[q].buf) /\ Flushings(flushes'[q])
              /\ Held(proc, flushes)' = Held(proc, flushes) + k
  <2>1. /\ Counters(proc'[p].buf)
        /\ BufferedCalls(proc'[p]) + CallsIn(Pending(f)) = (BufferedCalls(proc[p]) + CallsIn(Pending(flushes[p][s]))) + k
    BY <1>12 DEF g, m, n
  <2> QED
    BY <1>0, <1>3, <1>6, <1>12, <2>1, SlotStep
<1>13. InFlight(Requests)' = InFlight(Requests)
  BY <1>1 DEF InFlight
<1>14. ASSUME DOMAIN flushes' = Procs, \A q \in Procs : Counters(proc'[q].buf) /\ Flushings(flushes'[q])
       PROVE  UsageTyped'
  BY <1>0, <1>1, <1>2, <1>9, <1>14 DEF UsageTyped
<1>15. CASE o.pc \in {"done", "failed"}
  <2>1. f = [NoFlush EXCEPT !.pc = "next", !.todo = S]
    BY <1>7a, <1>15
  <2>2. DOMAIN f = {"pc", "todo", "day", "delta"} /\ f.pc = "next" /\ f.todo = S
    BY <2>1, NothingFacts
  <2>3. Flushing(f) /\ Pending(f) = S
    BY <1>4, <2>2 DEF Flushing, Pending, Upserting
  <2>4. CASE o.pc = "done"
    <3>1. m = n /\ Counters(m.buf)
      BY <1>5, <1>6, <2>4 DEF n
    <3>2. BufferedCalls(m) + CallsIn(Pending(f)) = (BufferedCalls(n) + CallsIn(Pending(g))) + (-c)
      BY <1>4, <1>7, <1>10, <1>11, <2>3, <3>1
    <3>3. /\ DOMAIN flushes' = Procs
          /\ \A q \in Procs : Counters(proc'[q].buf) /\ Flushings(flushes'[q])
          /\ Held(proc, flushes)' = Held(proc, flushes) + (-c)
      BY <1>4, <1>12, <2>3, <3>1, <3>2
    <3>4. Written(usage)' = Written(usage) + c
      BY <1>2, <1>9, <2>4
    <3> QED
      BY <1>0, <1>1, <1>4, <1>13, <1>14, <3>3, <3>4 DEF UsageInv
  <2>5. CASE o.pc = "failed"
    <3>1. m = Buffered(n, d, delta)
      BY <1>6, <2>5
    <3>2. Counters(n.buf) /\ {"buf", "armed"} \subseteq DOMAIN n
      BY <1>5 DEF n
    <3>3. Counters(m.buf) /\ BufferedCalls(m) = BufferedCalls(n) + c
      BY <1>8, <3>1, <3>2, BufferedGains DEF c
    <3>4. BufferedCalls(m) + CallsIn(Pending(f)) = (BufferedCalls(n) + CallsIn(Pending(g))) + 0
      BY <1>4, <1>7, <1>10, <1>11, <2>3, <3>3
    <3>5. /\ DOMAIN flushes' = Procs
          /\ \A q \in Procs : Counters(proc'[q].buf) /\ Flushings(flushes'[q])
          /\ Held(proc, flushes)' = Held(proc, flushes) + 0
      BY <1>12, <2>3, <3>3, <3>4
    <3>6. Written(usage)' = Written(usage)
      BY <1>2, <1>9, <2>5
    <3> QED
      BY <1>0, <1>1, <1>13, <1>14, <3>5, <3>6 DEF UsageInv
  <2> QED
    BY <1>15, <2>4, <2>5
<1>16. CASE o.pc \in {"insert", "again"}
  <2>1. f = [g EXCEPT !.pc = o.pc]
    BY <1>7a, <1>16
  <2>2. DOMAIN f = {"pc", "todo", "day", "delta"} /\ f.pc \in Upserting /\ f.todo = S /\ f.day = d /\ f.delta = delta
    BY <1>4, <1>16, <2>1 DEF Upserting, S, d, delta
  <2>3. Flushing(f)
    BY <1>4, <2>2 DEF Flushing, Upserting, c
  <2>4. Pending(f) = Pending(g)
    BY <1>4, <2>2 DEF Pending, Upserting
  <2>5. m = n /\ Counters(m.buf)
    BY <1>5, <1>6, <1>16 DEF n
  <2>6. BufferedCalls(m) + CallsIn(Pending(f)) = (BufferedCalls(n) + CallsIn(Pending(g))) + 0
    BY <1>4, <1>7, <1>10, <2>4, <2>5
  <2>7. /\ DOMAIN flushes' = Procs
        /\ \A q \in Procs : Counters(proc'[q].buf) /\ Flushings(flushes'[q])
        /\ Held(proc, flushes)' = Held(proc, flushes) + 0
    BY <1>12, <2>3, <2>5, <2>6
  <2>8. Written(usage)' = Written(usage)
    BY <1>2, <1>9, <1>16
  <2> QED
    BY <1>0, <1>1, <1>13, <1>14, <2>7, <2>8 DEF UsageInv
<1> QED
  BY <1>9, <1>15, <1>16

\* A crash loses what the process held and the statements of its requests.
LEMMA CrashUsage ==
  ASSUME UsageInv, Typed, NEW p \in Procs, Crash(p)
  PROVE  UsageInv'
<1>0. UsageTyped /\ Written(usage) \in Int /\ Held(proc, flushes) \in Int /\ InFlight(Requests) \in Nat
      /\ hist.lost \in Int /\ hist.recorded \in Int
  BY BalanceTyped DEF UsageInv, UsageTyped
<1> DEFINE mine == {r \in Requests : reqs[r].p = p}
           c == Holds(proc[p], flushes[p])
<1>1. /\ usage' = usage /\ proc' = [proc EXCEPT ![p] = FreshProc] /\ flushes' = [flushes EXCEPT ![p] = NoFlushes]
      /\ reqs' = [r \in Requests |-> IF r \in mine THEN NoRequest ELSE reqs[r]]
  BY DEF Crash
<1>2. c \in Int /\ BufferedCalls(proc[p]) \in Int /\ PendingCalls(flushes[p]) \in Int
  BY <1>0, HoldsType DEF UsageTyped
<1>3. InFlight(mine) = Cardinality(Upserts \intersect mine) /\ InFlight(mine) \in Nat
  <2>1. {r \in mine : reqs[r].pc \in Upserting} = Upserts \intersect mine
    BY DEF Upserts
  <2>2. IsFiniteSet(Upserts \intersect mine)
    BY <1>0, BalanceTyped, FS_Subset
  <2> HIDE DEF mine
  <2> QED
    BY <2>1, <2>2, FS_CardinalityType DEF InFlight, Upserting
<1>4. hist'.recorded = hist.recorded /\ hist'.lost = hist.lost + c + InFlight(mine)
  <2>1. hist' = [hist EXCEPT !.lost = @ + BufferedCalls(proc[p]) + PendingCalls(flushes[p]) + InFlight(mine),
                             !.detail[p] = [x \in Clients |-> 0]]
    BY DEF Crash
  <2>2. DOMAIN hist = HistFields
    BY DEF Typed, HistTyped
  <2> HIDE DEF mine
  <2>3. /\ hist'.recorded = hist.recorded
        /\ hist'.lost = hist.lost + BufferedCalls(proc[p]) + PendingCalls(flushes[p]) + InFlight(mine)
    BY <2>1, <2>2 DEF HistFields
  <2> QED
    BY <1>0, <1>2, <1>3, <2>3 DEF Holds
<1>5. InFlight(Requests)' = InFlight(Requests) - InFlight(mine)
  <2>1. NoRequest.pc = "idle"
    BY DEF NoRequest
  <2>2. Upserts' = Upserts \ mine
    BY <1>1, <2>1 DEF Upserts, Upserting
  <2>3. Cardinality(Upserts \ mine) = Cardinality(Upserts) - Cardinality(Upserts \intersect mine)
    <3> HIDE DEF mine
    <3> QED
      BY <1>0, BalanceTyped, FS_Difference
  <2>4. InFlight(Requests)' = Cardinality(Upserts')
    BY DEF InFlight, Upserts, Upserting
  <2> QED
    BY <1>0, <1>3, <2>2, <2>3, <2>4, BalanceTyped
<1> HIDE DEF mine
<1>6. /\ \A q \in Procs : q # p => proc'[q].buf = proc[q].buf /\ flushes'[q] = flushes[q]
      /\ DOMAIN flushes' = Procs /\ proc'[p].buf = << >> /\ flushes'[p] = NoFlushes
  BY <1>0, <1>1 DEF Typed, ProcTyped, UsageTyped, FreshProc
<1>7. Holds(proc'[p], flushes'[p]) = c + (-c)
  BY <1>2, <1>6, NothingFacts DEF Holds, BufferedCalls, Batch
<1>8. Counters(proc'[p].buf) /\ Flushings(flushes'[p])
  BY <1>6, NothingFacts
<1>9. /\ \A q \in Procs : Counters(proc'[q].buf) /\ Flushings(flushes'[q])
      /\ Held(proc, flushes)' = Held(proc, flushes) + (-c)
  <2>1. -c \in Int /\ Holds(proc'[p], flushes'[p]) = Holds(proc[p], flushes[p]) + (-c)
    BY <1>2, <1>7
  <2> HIDE DEF c
  <2> DEFINE k == -c
  <2>2. k \in Int /\ Holds(proc'[p], flushes'[p]) = Holds(proc[p], flushes[p]) + k
    BY <2>1
  <2> HIDE DEF k
  <2>3. /\ \A q \in Procs : Counters(proc'[q].buf) /\ Flushings(flushes'[q])
        /\ Held(proc, flushes)' = Held(proc, flushes) + k
    BY <1>0, <1>6, <1>8, <2>2, FlushMoves
  <2> QED
    BY <2>3 DEF k
<1>10. UsageTyped'
  BY <1>0, <1>1, <1>2, <1>3, <1>4, <1>6, <1>9, SMTT(60) DEF UsageTyped
<1> HIDE DEF c
<1> QED
  BY <1>0, <1>1, <1>2, <1>3, <1>4, <1>5, <1>9, <1>10 DEF UsageInv

\* The steps of a request that the counters do not see.
LEMMA QuietRequest ==
  ASSUME UsageInv, Typed, NEW r \in Requests,
         \/ FailCached(r) \/ Select(r) \/ Resolve(r) \/ Enforce(r) \/ ConsumeReset(r) \/ ConsumeIncrement(r)
         \/ Handle(r) \/ RefundDailyBudget(r)
  PROVE  UsageInv'
<1>1. usage' = usage /\ flushes' = flushes
  BY DEF FailCached, Select, Resolve, Enforce, ConsumeReset, ConsumeIncrement, Handle, RefundDailyBudget
<1>2. \A p \in Procs : proc'[p].buf = proc[p].buf
  <2>1. CASE proc' = proc
    BY <2>1
  <2>2. CASE FailCached(r) \/ Resolve(r)
    <3>1. CASE Fail(r, proc, hist)
      <4> DEFINE q == reqs[r].p
      <4>1. PICK f : proc' = [proc EXCEPT ![q].fails = f]
        BY <3>1 DEF Fail
      <4> QED
        BY <4>1 DEF Typed, ProcTyped, ProcFields
    <3>2. CASE \E g : proc' = [proc EXCEPT ![reqs[r].p] = Remembered(@, g)]
      <4>1. PICK g : proc' = [proc EXCEPT ![reqs[r].p] = Remembered(@, g)]
        BY <3>2
      <4> DEFINE m == Remembered(proc[reqs[r].p], g)
      <4>2. m.buf = proc[reqs[r].p].buf \/ "buf" \notin DOMAIN proc[reqs[r].p]
        BY DEF Remembered
      <4> HIDE DEF m
      <4>3. proc' = [proc EXCEPT ![reqs[r].p] = m]
        BY <4>1 DEF m
      <4> QED
        BY <4>2, <4>3 DEF Typed, ProcTyped, ProcFields
    <3> QED
      BY <2>1, <2>2, <3>1, <3>2 DEF FailCached, Resolve
  <2> QED
    BY <2>1, <2>2 DEF Select, Enforce, ConsumeReset, ConsumeIncrement, Handle, RefundDailyBudget
<1>3. hist'.recorded = hist.recorded /\ hist'.lost = hist.lost
  <2>1. DOMAIN hist = HistFields
    BY DEF Typed, HistTyped
  <2>2. CASE hist' = hist
    BY <2>2
  <2>3. CASE Fail(r, proc, hist)
    BY <2>1, <2>3 DEF Fail, HistFields
  <2>4. CASE Select(r)
    BY <2>1, <2>4 DEF Select, HistFields
  <2>5. CASE ConsumeReset(r) \/ ConsumeIncrement(r) \/ Handle(r) \/ RefundDailyBudget(r)
    BY <2>1, <2>5 DEF ConsumeReset, ConsumeIncrement, Handle, RefundDailyBudget, Charge, HistFields
  <2> QED
    BY <2>2, <2>3, <2>4, <2>5 DEF FailCached, Resolve, Enforce
<1>4. Upserts' = Upserts
  <2>1. reqs[r].pc \notin Upserting
    BY DEF FailCached, Select, Resolve, Enforce, ConsumeReset, ConsumeIncrement, Handle, RefundDailyBudget, Upserting
  <2>2. Moves(r) /\ reqs'[r].pc \notin Upserting
    <3>0. ReqTyped
      BY DEF Typed
    <3>1. CASE reqs' = NextPart(r) \/ End(r)
      BY <3>0, <3>1, NextPartFacts, EndFacts DEF Ends, Again, Upserting
    <3>2. CASE \E x \in {"enforce", "increment", "refund", "refundUsage"} : ReqGoto(r, x)
      BY <3>0, <3>2, GotoFacts DEF Goes, Upserting
    <3>3. CASE Select(r)
      BY <3>0, <3>3 DEF Select, Moves, ReqTyped, ReqFields, Upserting
    <3>4. CASE \E used : Charge(r, used)
      BY <3>0, <3>4 DEF Charge, Moves, ReqTyped, ReqFields, Upserting
    <3>5. CASE \E t : \E x \in {"changeset", "reset", "record"} : reqs' = [reqs EXCEPT ![r].pc = x, ![r].today = t]
      BY <3>0, <3>5 DEF Moves, ReqTyped, ReqFields, Upserting
    <3>6. CASE FailCached(r) \/ Resolve(r)
      BY <3>1, <3>2, <3>6 DEF FailCached, Resolve, Fail
    <3>7. CASE Enforce(r)
      BY <3>1, <3>5, <3>7 DEF Enforce
    <3>8. CASE ConsumeReset(r) \/ ConsumeIncrement(r)
      BY <3>1, <3>2, <3>4, <3>8 DEF ConsumeReset, ConsumeIncrement
    <3>9. CASE Handle(r) \/ RefundDailyBudget(r)
      BY <3>1, <3>2, <3>9 DEF Handle, RefundDailyBudget
    <3> QED
      BY <3>3, <3>6, <3>7, <3>8, <3>9
  <2> QED
    BY <2>1, <2>2 DEF Moves, Upserts
<1> QED
  BY <1>1, <1>2, <1>3, <1>4, QuietUsage

\* A request that arrives, and the steps of the environment and the operator.
LEMMA QuietOther ==
  ASSUME UsageInv, Typed,
         \/ \E r \in Requests, p \in Procs : reqs[r].pc = "idle" /\ \E c, h, call : Present(r, p, c, h, call)
         \/ \E p \in Procs : \/ Activate(p) \/ EditStep(p) \/ Sweep(p) \/ \E c \in Clients : AgeFailure(p, c)
                             \/ \E e : RequestEdit(p, e.tx, e.kind, e.patch)
         \/ IssueAgentGrant \/ Midnight \/ UNCHANGED vars
  PROVE  UsageInv'
<1>0. DOMAIN hist = HistFields /\ DOMAIN proc = Procs /\ \A p \in Procs : DOMAIN proc[p] = ProcFields
  BY DEF Typed, HistTyped, ProcTyped
<1>1. CASE \E r \in Requests, p \in Procs : reqs[r].pc = "idle" /\ \E c, h, call : Present(r, p, c, h, call)
  <2>0. PICK r \in Requests, p \in Procs : reqs[r].pc = "idle" /\ \E c, h, call : Present(r, p, c, h, call)
    BY <1>1
  <2>1. PICK c, h, call : reqs[r].pc = "idle" /\ Present(r, p, c, h, call)
    BY <2>0
  <2>2. usage' = usage /\ flushes' = flushes /\ hist' = hist
    BY <2>1 DEF Present
  <2>3. \A s \in Procs : proc'[s].buf = proc[s].buf
    <3>1. PICK k : proc' = proc \/ proc' = [proc EXCEPT ![p].cache = k]
      BY <2>1 DEF Present
    <3> QED
      BY <1>0, <3>1 DEF ProcFields
  <2>4. Upserts' = Upserts
    <3> DEFINE q == [NoRequest EXCEPT !.p = p, !.client = c, !.hash = h, !.call = call, !.parts = scene.parts]
    <3>1. DOMAIN q = ReqFields
      BY DEF NoRequest, ReqFields
    <3> HIDE DEF q
    <3>2. \/ \E g : \E x \in {"fail", "enforce"} : reqs' = [reqs EXCEPT ![r] = [q EXCEPT !.grant = g, !.pc = x]]
          \/ \E g : reqs' = [reqs EXCEPT ![r] = [q EXCEPT !.pc = "select", !.gen = g]]
      <4>1. CASE h \in DOMAIN proc[p].cache
              /\ reqs' = [reqs EXCEPT ![r] = [q EXCEPT !.grant = proc[p].cache[h],
                           !.pc = IF proc[p].cache[h].over <= day THEN "fail" ELSE "enforce"]]
        BY <4>1
      <4>2. CASE reqs' = [reqs EXCEPT ![r] = [q EXCEPT !.pc = "select", !.gen = proc[p].gen]]
        BY <4>2
      <4> QED
        BY <2>1, <4>1, <4>2 DEF Present, q
    <3>3. /\ reqs'[r].pc \in {"fail", "enforce", "select"}
          /\ DOMAIN reqs' = Requests /\ \A s \in Requests : s # r => reqs'[s] = reqs[s]
      BY <3>1, <3>2 DEF Typed, ReqTyped, ReqFields
    <3> QED
      BY <2>1, <3>3 DEF Upserts, Upserting
  <2> QED
    BY <2>2, <2>3, <2>4, QuietUsage
<1>2. ASSUME NEW p \in Procs,
             \/ Activate(p) \/ EditStep(p) \/ Sweep(p) \/ \E c \in Clients : AgeFailure(p, c)
             \/ \E e : RequestEdit(p, e.tx, e.kind, e.patch)
      PROVE  UsageInv'
  <2>1. usage' = usage /\ flushes' = flushes /\ reqs' = reqs
    BY <1>2 DEF Activate, EditStep, EditWrite, EditInvalidate, EditCommit, Sweep, AgeFailure, RequestEdit
  <2>2. \A s \in Procs : proc'[s].buf = proc[s].buf
    <3>1. CASE EditInvalidate(p)
      <4> DEFINE m == Forgotten(proc[p])
      <4>1. proc' = [proc EXCEPT ![p] = m]
        BY <3>1 DEF EditInvalidate
      <4>2. m.buf = proc[p].buf
        BY <1>0 DEF Forgotten, ProcFields
      <4> HIDE DEF m
      <4> QED
        BY <1>0, <4>1, <4>2
    <3>2. CASE ~EditInvalidate(p)
      <4>1. \/ proc' = proc
            \/ \E k : proc' = [proc EXCEPT ![p].lane = k]
            \/ \E k : proc' = [proc EXCEPT ![p].fails = k]
            \/ \E k : proc' = [proc EXCEPT ![p].admin = k]
        BY <1>2, <3>2 DEF Activate, EditStep, EditWrite, EditCommit, Sweep, AgeFailure, RequestEdit
      <4> QED
        BY <1>0, <4>1 DEF ProcFields
    <3> QED
      BY <3>1, <3>2
  <2>3. hist'.recorded = hist.recorded /\ hist'.lost = hist.lost
    BY <1>0, <1>2 DEF Activate, EditStep, EditWrite, EditInvalidate, EditCommit, Sweep, AgeFailure, RequestEdit,
       Committed, Answered, HistFields
  <2>4. Upserts' = Upserts
    BY <2>1 DEF Upserts
  <2> QED
    BY <2>1, <2>2, <2>3, <2>4, QuietUsage
<1>3. CASE IssueAgentGrant \/ Midnight \/ UNCHANGED vars
  <2>1. usage' = usage /\ flushes' = flushes /\ reqs' = reqs /\ proc' = proc /\ hist' = hist
    BY <1>3 DEF IssueAgentGrant, Midnight, vars
  <2> QED
    BY <2>1, QuietUsage DEF Upserts
<1> QED
  BY <1>1, <1>2, <1>3

\* At first nothing is recorded and nobody holds anything.
LEMMA UsageInit ==
  ASSUME Init
  PROVE  UsageInv
<1>1. /\ usage = << >> /\ proc = [p \in Procs |-> FreshProc] /\ flushes = [p \in Procs |-> NoFlushes]
      /\ reqs = [r \in Requests |-> NoRequest] /\ hist.recorded = 0 /\ hist.lost = 0
  BY DEF Init
<1>2. UsageTyped
  BY <1>1, NothingFacts DEF UsageTyped, FreshProc
<1>3. Written(usage) = 0
  <2> DEFINE u == usage
             g == [d \in DOMAIN u |-> 0]
  <2>1. \A d \in DOMAIN u : g[d] = u[d].calls
    BY <1>1
  <2>2. DOMAIN u = {}
    BY <1>1
  <2> HIDE DEF u, g
  <2>3. Written(u) = SumOf(g, DOMAIN u)
    BY <2>1, WrittenIs
  <2> QED
    BY <2>2, <2>3, SumEmpty DEF u
<1>4. Held(proc, flushes) = 0
  <2>1. \A p \in Procs : Holds(proc[p], flushes[p]) = 0
    <3>1. FreshProc.buf = << >>
      BY DEF FreshProc
    <3>2. ASSUME NEW p \in Procs PROVE Holds(proc[p], flushes[p]) = 0
      <4>1. proc[p].buf = << >> /\ flushes[p] = NoFlushes
        BY <1>1, <3>1
      <4>2. BufferedCalls(proc[p]) = 0
        BY <4>1, NothingFacts DEF BufferedCalls, Batch
      <4> QED
        BY <4>1, <4>2, NothingFacts DEF Holds
    <3> QED
      BY <3>2
  <2> DEFINE g == [p \in Procs |-> 0]
  <2>2. IsFiniteSet(Procs) /\ \A p \in Procs : g[p] = Holds(proc[p], flushes[p]) /\ g[p] = 0
    BY <2>1, GrantAssumption
  <2> HIDE DEF g
  <2>3. Held(proc, flushes) = SumOf(g, Procs)
    BY <2>2, HeldIs
  <2> QED
    BY <2>2, <2>3, SumZero
<1>5. InFlight(Requests) = 0
  <2>1. {r \in Requests : reqs[r].pc \in {"update", "insert", "again"}} = {}
    BY <1>1 DEF NoRequest
  <2> QED
    BY <2>1, FS_EmptySet DEF InFlight
<1> QED
  BY <1>1, <1>2, <1>3, <1>4, <1>5 DEF UsageInv

\* Every step keeps the balance.
LEMMA UsageNext ==
  ASSUME UsageInv, GrantInv, [Next]_vars
  PROVE  UsageInv'
<1>0. Typed /\ scene.procs \subseteq Procs
  BY GrantAssumption DEF GrantInv, BudgetInv, Typed, SceneTyped
<1>1. ASSUME NEW r \in Requests, RequestStep(r) PROVE UsageInv'
  BY <1>0, <1>1, QuietRequest, ChangesetUsage, RecordUsage, StatementUsage, RefundUsage DEF RequestStep
<1>2. ASSUME NEW p \in Procs, FlushStep(p) \/ FlushTimer(p) \/ GetGrantUsage(p) \/ Shutdown(p) PROVE UsageInv'
  <2>1. CASE FlushStep(p)
    BY <1>0, <2>1, FlushNextUsage, FlushStatementUsage DEF FlushStep
  <2>2. CASE \E a : Flush(p, a)
    BY <1>0, <2>2, FlushUsage
  <2>3. CASE FlushTimer(p) /\ proc' = [proc EXCEPT ![p].armed = FALSE] /\ UNCHANGED <<usage, flushes, reqs, hist>>
    BY <1>0, <2>3, QuietUsage DEF Upserts, Typed, ProcTyped, ProcFields
  <2> QED
    BY <1>2, <2>1, <2>2, <2>3 DEF FlushTimer, GetGrantUsage, Shutdown
<1>3. ASSUME NEW p \in Procs, Crash(p) PROVE UsageInv'
  BY <1>0, <1>3, CrashUsage
<1>4. ASSUME NEW r \in Requests, reqs[r].pc = "idle", NEW p \in scene.procs, NEW c \in scene.clients,
             NEW h \in scene.tokens, NEW call \in scene.calls, Present(r, p, c, h, call)
      PROVE  UsageInv'
  BY <1>0, <1>4, QuietOther
<1>5. ASSUME NEW p \in Procs,
             \/ Activate(p) \/ EditStep(p) \/ Sweep(p) \/ \E c \in Clients : AgeFailure(p, c)
             \/ \E e \in scene.edits : RequestEdit(p, e.tx, e.kind, e.patch)
      PROVE  UsageInv'
  BY <1>0, <1>5, QuietOther
<1>6. CASE IssueAgentGrant \/ Midnight \/ UNCHANGED vars
  BY <1>0, <1>6, QuietOther
<1> QED
  BY <1>0, <1>1, <1>2, <1>3, <1>4, <1>5, <1>6 DEF Next

\* bufferUsage, flushGrantUsage, recordGrantUsage and their failing statements, for any number of
\* processes, requests and flushes at once: every recorded call is in the table, in a
\* buffer, in a flush or in a request's statement, once, or was lost to a crash or to a
\* failed write without a buffer.
THEOREM UsageIsKept == Spec => []UsageAddsUp
<1>1. Init => UsageInv
  BY UsageInit
<1>2. GrantInv /\ UsageInv /\ [Next]_vars => UsageInv'
  BY UsageNext
<1>3. UsageInv => UsageAddsUp
  BY DEF UsageInv, UsageAddsUp, Written, Held
<1> QED
  BY <1>1, <1>2, <1>3, GrantInvariant, PTL DEF Spec

--------------------------------------------------------------------------------
(***************************************************************************)
(* The limiters: the order holds every tracked key once, and the groups    *)
(* count the tracked keys.                                                 *)
(***************************************************************************)
\* The keys of the limiters: one per client for failures, one for the administration.
AdminKey == <<"operator", "grant-admin">>
FailKeys == {FailKey(c) : c \in Clients}
AllKeys == FailKeys \union {AdminKey}

\* A limiter: an order without repetitions, hits of its keys, and for every group the
\* number of its keys.
Distinct(s) == \A i, j \in 1 .. Len(s) : s[i] = s[j] => i = j
Order(s) == s \in Seq(AllKeys) /\ Distinct(s)
Members(T, g) == {m \in T : GroupOf(m) = g}
CountIn(gs, g) == IF g \in DOMAIN gs THEN gs[g] ELSE 0
Counted(T, gs) ==
  /\ DOMAIN gs = {GroupOf(k) : k \in T}
  /\ \A g \in DOMAIN gs : gs[g] = Cardinality(Members(T, g))
Limited(l) ==
  /\ DOMAIN l = {"order", "hits", "groups"}
  /\ Order(l.order) /\ Len(l.order) <= MaxKeys
  /\ DOMAIN l.hits = Tracked(l) /\ \A k \in DOMAIN l.hits : l.hits[k] \in Nat
  /\ Counted(Tracked(l), l.groups)

\* An order has as many places as keys.
LEMMA OrderFacts ==
  ASSUME NEW s, Order(s)
  PROVE  /\ Len(s) \in Nat /\ DOMAIN s = 1 .. Len(s) /\ ToSet(s) \subseteq AllKeys
         /\ \A i \in 1 .. Len(s) : s[i] \in ToSet(s)
         /\ \A k \in ToSet(s) : \E i \in 1 .. Len(s) : s[i] = k
         /\ IsFiniteSet(ToSet(s)) /\ Cardinality(ToSet(s)) = Len(s)
<1>1. Len(s) \in Nat /\ DOMAIN s = 1 .. Len(s) /\ \A i \in 1 .. Len(s) : s[i] \in AllKeys
  BY LenProperties, ElementOfSeq DEF Order
<1>2. ToSet(s) = {s[i] : i \in 1 .. Len(s)}
  BY <1>1 DEF ToSet
<1> DEFINE f == [i \in 1 .. Len(s) |-> s[i]]
<1>3. f \in Bijection(1 .. Len(s), ToSet(s))
  BY <1>2 DEF Order, Distinct, Bijection, Injection, Surjection, IsInjective
<1>4. IsFiniteSet(1 .. Len(s)) /\ Cardinality(1 .. Len(s)) = Len(s)
  <2>1. ASSUME NEW n \in Nat PROVE IsFiniteSet(1 .. n) /\ Cardinality(1 .. n) = n
    <3>1. IsFiniteSet(1 .. n) /\ Cardinality(1 .. n) = IF 1 > n THEN 0 ELSE n - 1 + 1
      BY ONLY <2>1, FS_Interval
    <3>2. (IF 1 > n THEN 0 ELSE n - 1 + 1) = n
      BY ONLY <2>1
    <3> QED
      BY ONLY <3>1, <3>2
  <2>2. Len(s) \in Nat
    BY <1>1
  <2> QED
    BY ONLY <2>1, <2>2, Zenon
<1> HIDE DEF f
<1>5. IsFiniteSet(ToSet(s)) /\ Cardinality(ToSet(s)) = Len(s)
  <2>1. ExistsBijection(1 .. Len(s), ToSet(s))
    BY <1>3 DEF ExistsBijection
  <2> QED
    BY <1>4, <2>1, FS_Bijection
<1> QED
  BY <1>1, <1>2, <1>5

\* Map.delete: the order without a key.
LEMMA RemoveFirstFacts ==
  ASSUME NEW s, Order(s), NEW e
  PROVE  /\ Order(RemoveFirst(s, e)) /\ ToSet(RemoveFirst(s, e)) = ToSet(s) \ {e}
         /\ e \in ToSet(s) => Len(RemoveFirst(s, e)) = Len(s) - 1
         /\ e \notin ToSet(s) => RemoveFirst(s, e) = s
<1> USE OrderFacts
<1>1. CASE e \notin ToSet(s)
  <2>1. ~ \E i \in 1 .. Len(s) : s[i] = e
    BY <1>1
  <2>2. RemoveFirst(s, e) = s
    BY <2>1 DEF RemoveFirst
  <2> QED
    BY <1>1, <2>2
<1>2. CASE e \in ToSet(s)
  <2> DEFINE at == SelectInSeq(s, LAMBDA v : v = e)
             n == Len(s)
             t == RemoveAt(s, at)
  <2>1. PICK k \in 1 .. n : s[k] = e
    BY <1>2
  <2>2. at = k
    <3>1. {i \in 1 .. n : s[i] = e} = {k}
      BY <2>1 DEF Order, Distinct
    <3>2. Min({k}) = k
      <4>1. n \in Nat /\ k \in Int
        OBVIOUS
      <4> QED
        BY <4>1 DEF Min
    <3>3. at = IF {i \in 1 .. n : s[i] = e} # {} THEN Min({i \in 1 .. n : s[i] = e}) ELSE 0
      BY DEF SelectInSeq
    <3> HIDE DEF at
    <3> QED
      BY <3>1, <3>2, <3>3
  <2>3. RemoveFirst(s, e) = t
    BY <2>1 DEF RemoveFirst
  <2> DEFINE a == SubSeq(s, 1, k - 1)
             b == SubSeq(s, k + 1, n)
  <2>4. n \in Nat /\ k \in 1 .. n /\ s \in Seq(AllKeys) /\ t = a \o b
    BY <2>2 DEF RemoveAt, Order
  <2>5. a \in Seq(AllKeys) /\ Len(a) = k - 1 /\ \A i \in 1 .. k - 1 : a[i] = s[i]
    BY <2>4, SubSeqProperties, SMTT(60)
  <2>6. b \in Seq(AllKeys) /\ Len(b) = n - k /\ \A i \in 1 .. n - k : b[i] = s[k + i]
    <3>1. /\ b \in Seq(AllKeys)
          /\ Len(b) = IF k + 1 <= n THEN n - (k + 1) + 1 ELSE 0
          /\ \A i \in 1 .. n - (k + 1) + 1 : b[i] = s[(k + 1) + i - 1]
      BY <2>4, SubSeqProperties, SMTT(60)
    <3> HIDE DEF b, n
    <3>2. n - (k + 1) + 1 = n - k /\ Len(b) = n - k
      BY <2>4, <3>1
    <3>3. ASSUME NEW i \in 1 .. n - k PROVE b[i] = s[k + i]
      <4>1. i \in 1 .. n - (k + 1) + 1 /\ (k + 1) + i - 1 = k + i
        BY <2>4
      <4> QED
        BY <3>1, <4>1
    <3> QED
      BY <3>1, <3>2, <3>3
  <2> HIDE DEF a, b, t, at
  <2>7. /\ t \in Seq(AllKeys) /\ Len(t) = n - 1
        /\ \A i \in 1 .. n - 1 : t[i] = IF i < k THEN s[i] ELSE s[i + 1]
    <3>1. /\ t \in Seq(AllKeys) /\ Len(t) = Len(a) + Len(b)
          /\ \A i \in 1 .. Len(a) + Len(b) : t[i] = IF i <= Len(a) THEN a[i] ELSE b[i - Len(a)]
      <4>1. a \in Seq(AllKeys) /\ b \in Seq(AllKeys) /\ t = a \o b
        BY <2>4, <2>5, <2>6
      <4> QED
        BY ONLY <4>1, ConcatProperties, Zenon
    <3>2. Len(t) = n - 1
      BY <2>4, <2>5, <2>6, <3>1
    <3>3. ASSUME NEW i \in 1 .. n - 1 PROVE t[i] = IF i < k THEN s[i] ELSE s[i + 1]
      <4>1. CASE i < k
        BY <2>4, <2>5, <2>6, <3>1, <3>3, <4>1
      <4>2. CASE ~(i < k)
        <5>1. i - (k - 1) \in 1 .. n - k /\ k + (i - (k - 1)) = i + 1
          BY <2>4, <3>3, <4>2
        <5>2. t[i] = b[i - (k - 1)]
          BY <2>4, <2>5, <2>6, <3>1, <3>3, <4>2, SMTT(60)
        <5> QED
          BY <2>6, <4>2, <5>1, <5>2
      <4> QED
        BY <4>1, <4>2
    <3> QED
      BY <3>1, <3>2, <3>3
  <2> DEFINE src(i) == IF i < k THEN i ELSE i + 1
  <2>8. \A i \in 1 .. n - 1 : src(i) \in 1 .. n /\ src(i) # k /\ t[i] = s[src(i)]
    BY <2>4, <2>7, SMTT(60)
  <2>9. \A i, j \in 1 .. n - 1 : src(i) = src(j) => i = j
    BY <2>4
  <2>10. \A m \in 1 .. n : m # k => \E i \in 1 .. n - 1 : src(i) = m
    <3> SUFFICES ASSUME NEW m \in 1 .. n, m # k PROVE \E i \in 1 .. n - 1 : src(i) = m
      OBVIOUS
    <3>1. CASE m < k
      <4>1. m \in 1 .. n - 1 /\ src(m) = m
        BY <2>4, <3>1
      <4> QED
        BY <4>1
    <3>2. CASE ~(m < k)
      <4>1. m - 1 \in 1 .. n - 1 /\ src(m - 1) = m
        BY <2>4, <3>2
      <4> QED
        BY <4>1
    <3> QED
      BY <3>1, <3>2
  <2> HIDE DEF src
  <2>11. Distinct(t)
    <3>1. ASSUME NEW i \in 1 .. n - 1, NEW j \in 1 .. n - 1, t[i] = t[j] PROVE i = j
      <4>1. /\ s[src(i)] = s[src(j)] /\ src(i) \in 1 .. n /\ src(j) \in 1 .. n
        BY <2>8, <3>1
      <4>2. src(i) = src(j)
        BY <4>1 DEF Order, Distinct
      <4> QED
        BY <2>9, <4>2
    <3>2. Len(t) = n - 1
      BY <2>7
    <3> QED
      BY ONLY <3>1, <3>2 DEF Distinct
  <2>12. Order(t)
    BY <2>7, <2>11 DEF Order
  <2>13. ASSUME NEW x PROVE x \in ToSet(t) <=> x \in ToSet(s) /\ x # e
    <3>1. ASSUME x \in ToSet(t) PROVE x \in ToSet(s) /\ x # e
      <4>1. PICK i \in 1 .. n - 1 : x = t[i]
        BY <2>7, <2>12, <3>1
      <4>2. s[src(i)] = x /\ src(i) \in 1 .. n /\ src(i) # k
        BY <2>8, <4>1
      <4> QED
        BY <2>1, <4>2 DEF Order, Distinct
    <3>2. ASSUME x \in ToSet(s), x # e PROVE x \in ToSet(t)
      <4>1. PICK m \in 1 .. n : s[m] = x
        BY <3>2
      <4>2. m # k
        BY <2>1, <3>2, <4>1
      <4>3. PICK i \in 1 .. n - 1 : src(i) = m
        BY <2>10, <4>2
      <4>4. t[i] = x
        BY <2>8, <4>1, <4>3
      <4> QED
        BY <2>7, <2>12, <4>4
    <3> QED
      BY <3>1, <3>2
  <2>14. ToSet(t) = ToSet(s) \ {e}
    BY <2>13
  <2> QED
    BY <1>2, <2>3, <2>7, <2>12, <2>14
<1> QED
  BY <1>1, <1>2

\* Map.set of a new key: it comes last.
LEMMA AppendFacts ==
  ASSUME NEW s, Order(s), NEW e \in AllKeys, e \notin ToSet(s)
  PROVE  Order(Append(s, e)) /\ ToSet(Append(s, e)) = ToSet(s) \union {e} /\ Len(Append(s, e)) = Len(s) + 1
<1> DEFINE t == Append(s, e)
           n == Len(s)
<1>1. /\ t \in Seq(AllKeys) /\ Len(t) = n + 1 /\ t[n + 1] = e /\ \A i \in 1 .. n : t[i] = s[i]
      /\ n \in Nat /\ s \in Seq(AllKeys)
  <2>1. s \in Seq(AllKeys)
    BY DEF Order
  <2> QED
    BY <2>1, AppendProperties, OrderFacts
<1>2. \A i \in 1 .. n : s[i] # e
  BY OrderFacts
<1>3. DOMAIN t = 1 .. n + 1
  BY <1>1, LenProperties
<1> HIDE DEF t
<1>4. Distinct(t)
  <2> SUFFICES ASSUME NEW i \in 1 .. n + 1, NEW j \in 1 .. n + 1, t[i] = t[j] PROVE i = j
    BY <1>1 DEF Distinct
  <2>1. (i \in 1 .. n \/ i = n + 1) /\ (j \in 1 .. n \/ j = n + 1)
    BY <1>1
  <2> QED
    BY <1>1, <1>2, <2>1 DEF Order, Distinct
<1>5. ASSUME NEW x PROVE x \in ToSet(t) <=> x \in ToSet(s) \/ x = e
  <2>1. ASSUME x \in ToSet(t) PROVE x \in ToSet(s) \/ x = e
    <3>1. PICK i \in 1 .. n + 1 : t[i] = x
      BY <1>3, <2>1 DEF ToSet
    <3>2. i \in 1 .. n \/ i = n + 1
      BY <1>1
    <3> QED
      BY <1>1, <3>1, <3>2, OrderFacts
  <2>2. ASSUME x \in ToSet(s) PROVE x \in ToSet(t)
    <3>1. PICK i \in 1 .. n : s[i] = x
      BY <2>2, OrderFacts
    <3>2. i \in 1 .. n + 1
      BY <1>1
    <3> QED
      BY <1>1, <1>3, <3>1, <3>2 DEF ToSet
  <2>3. e \in ToSet(t)
    <3>1. n + 1 \in 1 .. n + 1
      BY <1>1
    <3> QED
      BY <1>1, <1>3, <3>1 DEF ToSet
  <2> QED
    BY <2>1, <2>2, <2>3
<1>6. ToSet(t) = ToSet(s) \union {e}
  BY <1>5
<1> QED
  BY <1>1, <1>4, <1>6 DEF t, Order

\* A group counts one less, or is dropped with its last key; a new key counts.
LEMMA CountedFacts ==
  ASSUME NEW T, IsFiniteSet(T), NEW gs, Counted(T, gs), NEW k, NEW g, g = GroupOf(k)
  PROVE  /\ CountIn(gs, g) = Cardinality(Members(T, g))
         /\ k \in T => Counted(T \ {k}, IF CountIn(gs, g) <= 1 THEN Unbind(gs, g)
                                        ELSE Bind(gs, g, CountIn(gs, g) - 1))
         /\ k \notin T => Counted(T \union {k}, Bind(gs, g, CountIn(gs, g) + 1))
<1>1. \A x : IsFiniteSet(Members(T, x)) /\ Cardinality(Members(T, x)) \in Nat
  BY FS_Subset, FS_CardinalityType DEF Members
<1>2. CountIn(gs, g) = Cardinality(Members(T, g))
  <2>1. CASE g \in DOMAIN gs
    BY <2>1 DEF CountIn, Counted
  <2>2. CASE g \notin DOMAIN gs
    <3>1. Members(T, g) = {}
      BY <2>2 DEF Counted, Members
    <3> QED
      BY <2>2, <3>1, FS_EmptySet DEF CountIn
  <2> QED
    BY <2>1, <2>2
<1> DEFINE n == Cardinality(Members(T, g))
<1>3. ASSUME k \in T
      PROVE  Counted(T \ {k}, IF n <= 1 THEN Unbind(gs, g) ELSE Bind(gs, g, n - 1))
  <2> DEFINE R == T \ {k}
  <2>1. Members(R, g) = Members(T, g) \ {k} /\ k \in Members(T, g)
    BY <1>3 DEF Members
  <2>2. Cardinality(Members(R, g)) = n - 1 /\ n \in Nat
    BY <1>1, <2>1, FS_RemoveElement
  <2>3. \A x : x # g => Members(R, x) = Members(T, x)
    BY DEF Members
  <2>4. DOMAIN gs = {GroupOf(m) : m \in T} /\ \A x \in DOMAIN gs : gs[x] = Cardinality(Members(T, x))
    BY DEF Counted
  <2>5. CASE n <= 1
    <3>1. Cardinality(Members(R, g)) = 0 /\ IsFiniteSet(Members(R, g))
      <4>1. IsFiniteSet(Members(R, g)) /\ Cardinality(Members(R, g)) \in Nat
        <5>1. IsFiniteSet(Members(T, g))
          BY <1>1
        <5>2. IsFiniteSet(Members(R, g))
          BY ONLY <2>1, <5>1, FS_RemoveElement
        <5> QED
          BY ONLY <5>2, FS_CardinalityType
      <4> HIDE DEF n
      <4> QED
        BY <2>2, <2>5, <4>1
    <3>2. Members(R, g) = {}
      BY <3>1, FS_EmptySet
    <3>3. {GroupOf(m) : m \in R} = DOMAIN gs \ {g}
      <4>1. ASSUME NEW m \in R PROVE GroupOf(m) \in DOMAIN gs \ {g}
        <5>1. m \notin Members(R, g)
          BY <3>2
        <5> QED
          BY <2>4, <5>1 DEF Members
      <4>2. ASSUME NEW x \in DOMAIN gs \ {g} PROVE \E m \in R : GroupOf(m) = x
        <5>1. PICK m \in T : GroupOf(m) = x
          BY <2>4
        <5> QED
          BY <5>1
      <4> QED
        BY <4>1, <4>2
    <3>4. DOMAIN Unbind(gs, g) = DOMAIN gs \ {g} /\ \A x \in DOMAIN gs \ {g} : Unbind(gs, g)[x] = gs[x]
      BY DEF Unbind
    <3>5. Counted(R, Unbind(gs, g))
      BY <2>3, <2>4, <3>3, <3>4 DEF Counted
    <3> QED
      BY <2>5, <3>5
  <2>6. CASE ~(n <= 1)
    <3>1. Members(R, g) # {}
      <4>1. Cardinality({}) = 0
        BY FS_EmptySet
      <4> HIDE DEF n
      <4> QED
        BY <2>2, <2>6, <4>1
    <3>2. {GroupOf(m) : m \in R} = DOMAIN gs \union {g}
      <4>1. ASSUME NEW x \in DOMAIN gs \union {g} PROVE \E m \in R : GroupOf(m) = x
        <5>1. CASE x = g
          BY <3>1, <5>1 DEF Members
        <5>2. CASE x # g
          BY <2>4, <5>2
        <5> QED
          BY <5>1, <5>2
      <4>2. ASSUME NEW m \in R PROVE GroupOf(m) \in DOMAIN gs \union {g}
        BY <2>4
      <4> QED
        BY <4>1, <4>2
    <3>3. /\ DOMAIN Bind(gs, g, n - 1) = DOMAIN gs \union {g} /\ Bind(gs, g, n - 1)[g] = n - 1
          /\ \A x \in DOMAIN gs : x # g => Bind(gs, g, n - 1)[x] = gs[x]
      BY DEF Bind
    <3>4. Counted(R, Bind(gs, g, n - 1))
      BY <2>2, <2>3, <2>4, <3>2, <3>3 DEF Counted
    <3> QED
      BY <2>6, <3>4
  <2> QED
    BY <2>5, <2>6
<1>4. ASSUME k \notin T PROVE Counted(T \union {k}, Bind(gs, g, n + 1))
  <2> DEFINE R == T \union {k}
  <2>1. Members(R, g) = Members(T, g) \union {k} /\ k \notin Members(T, g)
    BY <1>4 DEF Members
  <2>2. Cardinality(Members(R, g)) = n + 1
    BY <1>1, <2>1, FS_AddElement, ZenonT(80)
  <2>3. \A x : x # g => Members(R, x) = Members(T, x)
    BY DEF Members
  <2>4. DOMAIN gs = {GroupOf(m) : m \in T} /\ \A x \in DOMAIN gs : gs[x] = Cardinality(Members(T, x))
    BY DEF Counted
  <2>5. {GroupOf(m) : m \in R} = DOMAIN gs \union {g}
    BY <2>4
  <2>6. /\ DOMAIN Bind(gs, g, n + 1) = DOMAIN gs \union {g} /\ Bind(gs, g, n + 1)[g] = n + 1
        /\ \A x \in DOMAIN gs : x # g => Bind(gs, g, n + 1)[x] = gs[x]
    BY DEF Bind
  <2> QED
    BY <2>2, <2>3, <2>4, <2>5, <2>6 DEF Counted
<1> QED
  BY <1>2, <1>3, <1>4

\* dropKey: the key, its hits and its place in the group are gone.
LEMMA DropKeyFacts ==
  ASSUME NEW l, Limited(l), NEW k \in Tracked(l)
  PROVE  /\ Limited(DropKey(l, k)) /\ Tracked(DropKey(l, k)) = Tracked(l) \ {k}
         /\ Len(DropKey(l, k).order) = Len(l.order) - 1
         /\ \A x \in Tracked(l) : x # k => DropKey(l, k).hits[x] = l.hits[x]
<1> DEFINE d == DropKey(l, k)
           g == GroupOf(k)
           T == Tracked(l)
           gs == l.groups
<1>1. /\ d.order = RemoveFirst(l.order, k) /\ d.hits = Unbind(l.hits, k) /\ DOMAIN d = {"order", "hits", "groups"}
      /\ d.groups = IF CountIn(gs, g) <= 1 THEN Unbind(gs, g) ELSE Bind(gs, g, CountIn(gs, g) - 1)
  BY DEF DropKey, GroupCount, CountIn
<1>2. Order(l.order) /\ IsFiniteSet(T) /\ Counted(T, gs) /\ T = ToSet(l.order) /\ Len(l.order) \in Nat
  BY OrderFacts DEF Limited, Tracked
<1> HIDE DEF d
<1>3. Order(d.order) /\ Tracked(d) = T \ {k} /\ Len(d.order) = Len(l.order) - 1
  BY <1>1, <1>2, RemoveFirstFacts DEF Tracked
<1>4. DOMAIN d.hits = T \ {k} /\ \A x \in T : x # k => d.hits[x] = l.hits[x]
  BY <1>1 DEF Unbind, Limited
<1> HIDE DEF T, gs, g
<1>5. Counted(T \ {k}, d.groups)
  <2>1. k \in T /\ g = GroupOf(k)
    BY DEF T, g
  <2>2. Counted(T \ {k}, IF CountIn(gs, g) <= 1 THEN Unbind(gs, g) ELSE Bind(gs, g, CountIn(gs, g) - 1))
    BY <1>2, <2>1, CountedFacts
  <2> QED
    BY <1>1, <2>2
<1>6. \A x \in DOMAIN d.hits : d.hits[x] \in Nat
  BY <1>4 DEF Limited, T
<1>7. Len(d.order) <= MaxKeys
  BY <1>2, <1>3, RateAssumption DEF Limited
<1>8. Limited(d)
  BY <1>1, <1>3, <1>4, <1>5, <1>6, <1>7 DEF Limited
<1> QED
  BY <1>3, <1>4, <1>8 DEF d, T

\* checkMany: the key comes last; a new one may cost the oldest.
LEMMA TouchedFacts ==
  ASSUME NEW l, Limited(l), NEW k \in AllKeys
  PROVE  LET t == Touched(l, k)
         IN /\ Limited(t) /\ k \in Tracked(t) /\ HitsOf(t, k) = HitsOf(l, k) /\ t.hits[k] = HitsOf(l, k)
            /\ Tracked(t) \subseteq Tracked(l) \union {k}
            /\ \A x \in Tracked(t) : HitsOf(t, x) = HitsOf(l, x)
            /\ k \in Tracked(l) \/ Len(l.order) < MaxKeys => Tracked(t) = Tracked(l) \union {k}
<1> DEFINE t == Touched(l, k)
           T == Tracked(l)
           evicted == IF Len(l.order) >= MaxKeys THEN DropKey(l, Head(l.order)) ELSE l
           added == [evicted EXCEPT !.groups = Bind(@, GroupOf(k), GroupCount(evicted, GroupOf(k)) + 1)]
           base == IF k \in T THEN l ELSE added
<1>0. t = [base EXCEPT !.order = Append(RemoveFirst(@, k), k), !.hits = Bind(@, k, HitsOf(base, k))]
  BY DEF Touched
<1>1. Order(l.order) /\ IsFiniteSet(T) /\ Counted(T, l.groups) /\ T = ToSet(l.order) /\ Len(l.order) \in Nat
      /\ DOMAIN l = {"order", "hits", "groups"} /\ DOMAIN l.hits = T /\ (\A x \in T : l.hits[x] \in Nat)
      /\ Len(l.order) <= MaxKeys
  BY OrderFacts DEF Limited, Tracked
<1>2. ASSUME NEW b, t = [b EXCEPT !.order = Append(RemoveFirst(@, k), k), !.hits = Bind(@, k, HitsOf(b, k))],
             DOMAIN b = {"order", "hits", "groups"}, Order(b.order), DOMAIN b.hits = Tracked(b),
             \A x \in DOMAIN b.hits : b.hits[x] \in Nat,
             k \in Tracked(b) \/ Len(b.order) < MaxKeys, Len(b.order) <= MaxKeys,
             Counted(Tracked(b) \union {k}, b.groups)
      PROVE  /\ Limited(t) /\ Tracked(t) = Tracked(b) \union {k} /\ t.hits[k] = HitsOf(b, k)
             /\ \A x \in Tracked(t) : HitsOf(t, x) = HitsOf(b, x)
  <2>1. /\ DOMAIN t = {"order", "hits", "groups"} /\ t.order = Append(RemoveFirst(b.order, k), k)
        /\ t.hits = Bind(b.hits, k, HitsOf(b, k)) /\ t.groups = b.groups
    BY <1>2
  <2> HIDE DEF t
  <2> DEFINE s == RemoveFirst(b.order, k)
  <2>2. Order(s) /\ ToSet(s) = Tracked(b) \ {k} /\ (k \in Tracked(b) => Len(s) = Len(b.order) - 1)
    BY <1>2, RemoveFirstFacts DEF Tracked
  <2>3. (k \notin Tracked(b) => s = b.order) /\ Len(b.order) \in Nat
    BY <1>2, RemoveFirstFacts, OrderFacts DEF Tracked
  <2>4. Len(s) + 1 <= MaxKeys
    BY <1>2, <2>2, <2>3, RateAssumption
  <2> HIDE DEF s
  <2>5. Order(t.order) /\ ToSet(t.order) = ToSet(s) \union {k} /\ Len(t.order) = Len(s) + 1
    <3>1. k \notin ToSet(s)
      BY <2>2
    <3>2. Order(Append(s, k)) /\ ToSet(Append(s, k)) = ToSet(s) \union {k} /\ Len(Append(s, k)) = Len(s) + 1
      BY <2>2, <3>1, AppendFacts
    <3> QED
      BY <2>1, <3>2 DEF s
  <2>6. Tracked(t) = Tracked(b) \union {k}
    BY <2>2, <2>5 DEF Tracked
  <2>7. /\ DOMAIN t.hits = Tracked(b) \union {k} /\ t.hits[k] = HitsOf(b, k)
        /\ \A x \in Tracked(b) : x # k => t.hits[x] = b.hits[x]
    BY <1>2, <2>1 DEF Bind
  <2>8. HitsOf(b, k) \in Nat
    BY <1>2 DEF HitsOf
  <2>9. Limited(t)
    BY <1>2, <2>1, <2>4, <2>5, <2>6, <2>7, <2>8 DEF Limited
  <2>10. ASSUME NEW x \in Tracked(t) PROVE HitsOf(t, x) = HitsOf(b, x)
    <3>1. CASE x = k
      BY <2>6, <2>7, <3>1 DEF HitsOf
    <3>2. CASE x # k
      BY <1>2, <2>6, <2>7, <2>10, <3>2 DEF HitsOf
    <3> QED
      BY <3>1, <3>2
  <2> QED
    BY <2>6, <2>7, <2>9, <2>10
<1>3. CASE k \in T
  <2>1. base = l /\ T \union {k} = T
    BY <1>3
  <2>2. t = [l EXCEPT !.order = Append(RemoveFirst(@, k), k), !.hits = Bind(@, k, HitsOf(l, k))]
    BY <1>0, <2>1
  <2>3. Counted(Tracked(l) \union {k}, l.groups)
    BY <1>1, <2>1
  <2> HIDE DEF t, base
  <2>4. /\ Limited(t) /\ Tracked(t) = Tracked(l) \union {k} /\ t.hits[k] = HitsOf(l, k)
        /\ \A x \in Tracked(t) : HitsOf(t, x) = HitsOf(l, x)
    BY <1>1, <1>2, <1>3, <2>2, <2>3
  <2> QED
    BY <1>3, <2>4 DEF t
<1>4. CASE k \notin T
  <2> DEFINE e == evicted
  <2>1. /\ Limited(e) /\ Tracked(e) \subseteq T /\ Len(e.order) < MaxKeys
        /\ \A x \in Tracked(e) : HitsOf(e, x) = HitsOf(l, x)
        /\ Len(l.order) < MaxKeys => e = l
    <3>1. CASE Len(l.order) >= MaxKeys
      <4>1. Len(l.order) >= 1
        BY <1>1, <3>1, RateAssumption
      <4>2. Head(l.order) \in Tracked(l)
        <5>1. Head(l.order) = l.order[1] /\ 1 \in 1 .. Len(l.order)
          BY <1>1, <4>1 DEF Order
        <5> QED
          BY <1>1, <5>1, OrderFacts
      <4> DEFINE h == Head(l.order)
      <4>3. e = DropKey(l, h)
        BY <3>1
      <4>4. h \in Tracked(l)
        BY <4>2
      <4> HIDE DEF h, evicted
      <4>5. /\ Limited(e) /\ Tracked(e) = T \ {h} /\ Len(e.order) = Len(l.order) - 1
            /\ \A x \in T : x # h => e.hits[x] = l.hits[x]
        BY <4>3, <4>4, DropKeyFacts
      <4>6. \A x \in Tracked(e) : HitsOf(e, x) = HitsOf(l, x)
        BY <1>1, <4>5 DEF HitsOf, Limited
      <4> QED
        BY <1>1, <3>1, <4>5, <4>6, RateAssumption
    <3>2. CASE ~(Len(l.order) >= MaxKeys)
      BY <1>1, <3>2, RateAssumption
    <3> QED
      BY <3>1, <3>2
  <2>2. base = [e EXCEPT !.groups = Bind(@, GroupOf(k), GroupCount(e, GroupOf(k)) + 1)]
    BY <1>4
  <2> HIDE DEF evicted
  <2>3. /\ DOMAIN base = {"order", "hits", "groups"} /\ base.order = e.order /\ base.hits = e.hits
        /\ base.groups = Bind(e.groups, GroupOf(k), CountIn(e.groups, GroupOf(k)) + 1)
    BY <2>1, <2>2 DEF Limited, GroupCount, CountIn
  <2>4. k \notin Tracked(e) /\ Tracked(base) = Tracked(e)
    BY <1>4, <2>1, <2>3 DEF Tracked
  <2>5. Counted(Tracked(e) \union {k}, base.groups)
    <3> DEFINE E == Tracked(e)
    <3>1. IsFiniteSet(E) /\ Counted(E, e.groups) /\ k \notin E
      BY <2>1, <2>4, OrderFacts DEF Limited, Tracked
    <3> HIDE DEF E
    <3>2. Counted(E \union {k}, Bind(e.groups, GroupOf(k), CountIn(e.groups, GroupOf(k)) + 1))
      BY <3>1, CountedFacts
    <3> QED
      BY <2>3, <3>2 DEF E
  <2> DEFINE b == base
  <2>6. /\ t = [b EXCEPT !.order = Append(RemoveFirst(@, k), k), !.hits = Bind(@, k, HitsOf(b, k))]
    BY <1>0
  <2> HIDE DEF base, t
  <2>7. /\ Order(b.order) /\ DOMAIN b.hits = Tracked(b) /\ (\A x \in DOMAIN b.hits : b.hits[x] \in Nat)
        /\ Len(b.order) < MaxKeys /\ Len(b.order) <= MaxKeys
    BY <2>1, <2>3, <2>4 DEF Limited
  <2>8. /\ Limited(t) /\ Tracked(t) = Tracked(b) \union {k} /\ t.hits[k] = HitsOf(b, k)
        /\ \A x \in Tracked(t) : HitsOf(t, x) = HitsOf(b, x)
    BY <1>2, <2>3, <2>4, <2>5, <2>6, <2>7
  <2>9. \A x : HitsOf(b, x) = HitsOf(e, x)
    BY <2>3 DEF HitsOf
  <2>10. HitsOf(e, k) = 0 /\ HitsOf(l, k) = 0
    BY <1>1, <1>4, <2>1, <2>4 DEF HitsOf, Limited
  <2>11. \A x \in Tracked(t) : HitsOf(t, x) = HitsOf(l, x)
    BY <2>1, <2>4, <2>8, <2>9, <2>10
  <2>12. HitsOf(t, k) = HitsOf(l, k) /\ t.hits[k] = HitsOf(l, k) /\ k \in Tracked(t)
    BY <2>8, <2>9, <2>10, <2>11
  <2>13. Tracked(t) \subseteq Tracked(l) \union {k}
    BY <2>1, <2>4, <2>8
  <2>14. Len(l.order) < MaxKeys => Tracked(t) = Tracked(l) \union {k}
    BY <2>1, <2>4, <2>8
  <2> QED
    BY <1>4, <2>8, <2>11, <2>12, <2>13, <2>14 DEF t
<1> QED
  BY <1>3, <1>4

\* One attempt: the hits of its key count it if it was allowed, the others' are the same.
LEMMA CheckedFacts ==
  ASSUME NEW l, Limited(l), NEW k \in AllKeys, NEW max \in Nat
  PROVE  LET t == Checked(l, k, max)
         IN /\ Limited(t) /\ Tracked(t) \subseteq Tracked(l) \union {k}
            /\ HitsOf(t, k) = HitsOf(l, k) + (IF CheckAllows(l, k, max) THEN 1 ELSE 0)
            /\ CheckAllows(l, k, max) => HitsOf(l, k) < max
            /\ \A x \in Tracked(t) : x # k => HitsOf(t, x) = HitsOf(l, x)
            /\ k \in Tracked(l) \/ Len(l.order) < MaxKeys => Tracked(l) \subseteq Tracked(t)
<1> DEFINE t == Checked(l, k, max)
           u == Touched(l, k)
<1>1. /\ Limited(u) /\ k \in Tracked(u) /\ HitsOf(u, k) = HitsOf(l, k) /\ u.hits[k] = HitsOf(l, k)
      /\ Tracked(u) \subseteq Tracked(l) \union {k}
      /\ \A x \in Tracked(u) : HitsOf(u, x) = HitsOf(l, x)
      /\ k \in Tracked(l) \/ Len(l.order) < MaxKeys => Tracked(u) = Tracked(l) \union {k}
  BY TouchedFacts
<1>2. HitsOf(l, k) \in Nat
  BY DEF Limited, HitsOf
<1> HIDE DEF u
<1>3. CASE TooManyKeys(l, k)
  <2>1. t = l /\ ~CheckAllows(l, k, max)
    BY <1>3 DEF Checked, CheckAllows
  <2> HIDE DEF t
  <2> QED
    BY <1>2, <2>1 DEF t
<1>4. CASE ~TooManyKeys(l, k) /\ ~Fits(l, k, max)
  <2>1. t = u /\ ~CheckAllows(l, k, max)
    BY <1>4 DEF Checked, CheckAllows, u
  <2> HIDE DEF t
  <2> QED
    BY <1>1, <1>2, <2>1 DEF t
<1>5. CASE ~TooManyKeys(l, k) /\ Fits(l, k, max)
  <2>1. t = [u EXCEPT !.hits[k] = @ + 1] /\ CheckAllows(l, k, max) /\ HitsOf(l, k) < max
    BY <1>5 DEF Checked, CheckAllows, u, Fits
  <2>2. DOMAIN u = {"order", "hits", "groups"} /\ DOMAIN u.hits = Tracked(u)
    BY <1>1 DEF Limited
  <2> HIDE DEF t
  <2>3. /\ DOMAIN t = {"order", "hits", "groups"} /\ t.order = u.order /\ t.groups = u.groups
        /\ DOMAIN t.hits = DOMAIN u.hits /\ t.hits[k] = u.hits[k] + 1
        /\ \A x \in DOMAIN u.hits : x # k => t.hits[x] = u.hits[x]
    BY <1>1, <2>1, <2>2
  <2>4. Tracked(t) = Tracked(u)
    BY <2>3 DEF Tracked
  <2>5. Limited(t)
    BY <1>1, <1>2, <2>3, <2>4 DEF Limited
  <2>6. HitsOf(t, k) = HitsOf(l, k) + 1 /\ \A x \in Tracked(t) : x # k => HitsOf(t, x) = HitsOf(u, x)
    BY <1>1, <2>2, <2>3, <2>4 DEF HitsOf
  <2>7. \A x \in Tracked(t) : x # k => HitsOf(t, x) = HitsOf(l, x)
    BY <1>1, <2>4, <2>6
  <2>8. k \in Tracked(l) \/ Len(l.order) < MaxKeys => Tracked(l) \subseteq Tracked(t)
    BY <1>1, <2>4
  <2>9. Tracked(t) \subseteq Tracked(l) \union {k}
    BY <1>1, <2>4
  <2> QED
    BY <2>1, <2>5, <2>6, <2>7, <2>8, <2>9 DEF t
<1> QED
  BY <1>3, <1>4, <1>5

\* A hit leaves the window.
LEMMA AgedFacts ==
  ASSUME NEW l, Limited(l), NEW k, HitsOf(l, k) > 0
  PROVE  /\ Limited(Aged(l, k)) /\ Tracked(Aged(l, k)) = Tracked(l)
         /\ HitsOf(Aged(l, k), k) = HitsOf(l, k) - 1 /\ HitsOf(l, k) \in Nat
         /\ \A x : x # k => HitsOf(Aged(l, k), x) = HitsOf(l, x)
<1> DEFINE t == Aged(l, k)
<1>1. k \in DOMAIN l.hits
  BY DEF HitsOf
<1>2. t = [l EXCEPT !.hits[k] = @ - 1] /\ DOMAIN l = {"order", "hits", "groups"} /\ HitsOf(l, k) = l.hits[k]
      /\ l.hits[k] \in Nat
  BY <1>1 DEF Aged, Limited, HitsOf
<1> HIDE DEF t
<1>3. /\ DOMAIN t = {"order", "hits", "groups"} /\ t.order = l.order /\ t.groups = l.groups
      /\ DOMAIN t.hits = DOMAIN l.hits /\ t.hits[k] = l.hits[k] - 1
      /\ \A x \in DOMAIN l.hits : x # k => t.hits[x] = l.hits[x]
  BY <1>1, <1>2
<1>4. Tracked(t) = Tracked(l)
  BY <1>3 DEF Tracked
<1>5. Limited(t)
  <2>1. \A x \in DOMAIN t.hits : t.hits[x] \in Nat
    BY <1>2, <1>3 DEF Limited
  <2> QED
    BY <1>3, <1>4, <2>1 DEF Limited
<1>6. HitsOf(t, k) = HitsOf(l, k) - 1 /\ \A x : x # k => HitsOf(t, x) = HitsOf(l, x)
  BY <1>1, <1>3 DEF HitsOf
<1> QED
  BY <1>2, <1>4, <1>5, <1>6 DEF t

\* The sweep drops keys one by one, in any order: as for the sums, there is one such
\* function on the sets of keys.
Drops(l, S, h) == h = [s \in SUBSET S |-> IF s = {} THEN l ELSE DropKey(h[s \ {SomeOf(s)}], SomeOf(s))]

\* Two such functions agree where both are defined.
LEMMA DropsUnique ==
  ASSUME NEW S, NEW T, IsFiniteSet(S), NEW l, NEW h, NEW k, Drops(l, S, h), Drops(l, T, k)
  PROVE  \A s \in SUBSET S : s \in SUBSET T => h[s] = k[s]
<1> DEFINE F == {s \in SUBSET S : s \in SUBSET T => h[s] = k[s]}
<1>1. ASSUME NEW s \in SUBSET S, \A t \in SUBSET s : t # s => t \in F
      PROVE  s \in F
  <2> SUFFICES ASSUME s \in SUBSET T PROVE h[s] = k[s]
    OBVIOUS
  <2>1. CASE s = {}
    BY <2>1 DEF Drops
  <2>2. CASE s # {}
    <3>1. SomeOf(s) \in s
      BY <2>2 DEF SomeOf
    <3>2. h[s \ {SomeOf(s)}] = k[s \ {SomeOf(s)}]
      BY <1>1, <3>1
    <3>3. h[s] = DropKey(h[s \ {SomeOf(s)}], SomeOf(s)) /\ k[s] = DropKey(k[s \ {SomeOf(s)}], SomeOf(s))
      BY <2>2 DEF Drops
    <3> QED
      BY <3>2, <3>3
  <2> QED
    BY <2>1, <2>2
<1> HIDE DEF F
<1>2. \A s \in SUBSET S : s \in F
  BY <1>1, FamilyInduction
<1> QED
  BY <1>2 DEF F

\* There is one.
LEMMA DropsExists ==
  ASSUME NEW S, IsFiniteSet(S), NEW l
  PROVE  \E h : Drops(l, S, h)
<1> DEFINE F == {s \in SUBSET S : \E h : Drops(l, s, h)}
<1>1. ASSUME NEW s \in SUBSET S, \A t \in SUBSET s : t # s => t \in F
      PROVE  s \in F
  <2> DEFINE H(t) == CHOOSE h : Drops(l, t, h)
             V(t) == H(t)[t]
             W(t) == IF t = {} THEN l ELSE DropKey(V(t \ {SomeOf(t)}), SomeOf(t))
             w == [t \in SUBSET s |-> W(t)]
  <2>1. \A t \in SUBSET s : t # s => Drops(l, t, H(t))
    BY <1>1
  <2>3. ASSUME NEW t \in SUBSET s, t # {}
        PROVE  SomeOf(t) \in t /\ t \ {SomeOf(t)} \in SUBSET s /\ t \ {SomeOf(t)} # s
    BY <2>3 DEF SomeOf
  <2>5. \A t \in SUBSET s : IsFiniteSet(t)
    BY FS_Subset
  <2>6. ASSUME NEW t \in SUBSET s, t # s PROVE V(t) = W(t)
    <3> HIDE DEF H
    <3>1. CASE t = {}
      <4>1. Drops(l, t, H(t))
        BY <2>1, <2>6
      <4> QED
        BY <3>1, <4>1 DEF Drops
    <3>2. CASE t # {}
      <4> DEFINE u == t \ {SomeOf(t)}
      <4>1. SomeOf(t) \in t /\ u \in SUBSET s /\ u # s /\ u \in SUBSET t
        BY <2>3, <3>2
      <4>2. Drops(l, t, H(t)) /\ Drops(l, u, H(u))
        BY <2>1, <2>6, <4>1
      <4>3. H(u)[u] = H(t)[u]
        <5> HIDE DEF u
        <5> QED
          BY <2>5, <4>1, <4>2, DropsUnique
      <4>4. H(t)[t] = DropKey(H(t)[u], SomeOf(t))
        BY <3>2, <4>2 DEF Drops
      <4> QED
        BY <3>2, <4>3, <4>4
    <3> QED
      BY <3>1, <3>2
  <2>7. \A t \in SUBSET s : w[t] = IF t = {} THEN l ELSE DropKey(w[t \ {SomeOf(t)}], SomeOf(t))
    <3> HIDE DEF V
    <3> QED
      BY <2>3, <2>6
  <2>9. Drops(l, s, w)
    <3> HIDE DEF W
    <3> QED
      BY <2>7 DEF Drops
  <2> QED
    BY <2>9
<1> HIDE DEF F
<1>2. \A s \in SUBSET S : s \in F
  BY <1>1, FamilyInduction
<1> QED
  BY <1>2 DEF F

\* sweep: the keys without hits are gone, the others as they were.
LEMMA SweptFacts ==
  ASSUME NEW l, Limited(l)
  PROVE  LET t == Swept(l)
         IN Limited(t) /\ Tracked(t) = Tracked(l) \ Idle(l) /\ \A x : HitsOf(t, x) = HitsOf(l, x)
<1> DEFINE S == Idle(l)
           t == Swept(l)
<1>1. S \subseteq Tracked(l) /\ IsFiniteSet(Tracked(l)) /\ DOMAIN l.hits = Tracked(l)
  BY OrderFacts DEF Idle, Limited, Tracked
<1>2. IsFiniteSet(S)
  BY <1>1, FS_Subset
<1>3. t = (CHOOSE h : Drops(l, S, h))[S]
  BY DEF Swept, FoldSet, MapThenFoldSet, Drops, SomeOf
<1> HIDE DEF S, t
<1>4. PICK h : Drops(l, S, h) /\ t = h[S]
  BY <1>2, <1>3, DropsExists
<1> DEFINE Good(s) == /\ Limited(h[s]) /\ Tracked(h[s]) = Tracked(l) \ s
                      /\ \A x \in Tracked(l) \ s : h[s].hits[x] = l.hits[x]
           F == {s \in SUBSET S : Good(s)}
<1>5. ASSUME NEW s \in SUBSET S, \A r \in SUBSET s : r # s => r \in F
      PROVE  s \in F
  <2>1. CASE s = {}
    <3>1. h[s] = l
      BY <1>4, <2>1 DEF Drops
    <3> QED
      BY <2>1, <3>1
  <2>2. CASE s # {}
    <3> DEFINE k == SomeOf(s)
               r == s \ {k}
    <3>1. k \in s /\ r \in SUBSET s /\ r # s
      BY <2>2 DEF SomeOf
    <3>2. h[s] = DropKey(h[r], k)
      BY <1>4, <2>2 DEF Drops
    <3>3. Good(r)
      BY <1>5, <3>1
    <3> DEFINE m == h[r]
    <3> HIDE DEF k
    <3>4. Limited(m) /\ k \in Tracked(m) /\ Tracked(m) = Tracked(l) \ r
      BY <1>1, <3>1, <3>3
    <3>5. \A x \in Tracked(m) : m.hits[x] = l.hits[x]
      BY <3>3, <3>4
    <3> HIDE DEF m
    <3>6. /\ Limited(DropKey(m, k)) /\ Tracked(DropKey(m, k)) = Tracked(m) \ {k}
          /\ \A x \in Tracked(m) : x # k => DropKey(m, k).hits[x] = m.hits[x]
      BY <3>4, DropKeyFacts
    <3>7. h[s] = DropKey(m, k)
      BY <3>2 DEF m
    <3>8. Tracked(m) \ {k} = Tracked(l) \ s
      BY <3>1, <3>4
    <3>9. Good(s)
      BY <3>4, <3>5, <3>6, <3>7, <3>8
    <3> QED
      BY <3>9
  <2> QED
    BY <2>1, <2>2
<1> HIDE DEF F, Good
<1>6. S \in F
  BY <1>2, <1>5, FamilyInduction
<1>7. Limited(t) /\ Tracked(t) = Tracked(l) \ S /\ \A x \in Tracked(l) \ S : t.hits[x] = l.hits[x]
  BY <1>4, <1>6 DEF F, Good
<1>8. ASSUME NEW x PROVE HitsOf(t, x) = HitsOf(l, x)
  <2>1. DOMAIN t.hits = Tracked(l) \ S
    BY <1>7 DEF Limited
  <2>2. x \in S => l.hits[x] = 0
    BY DEF S, Idle
  <2> QED
    BY <1>1, <1>7, <2>1, <2>2 DEF HitsOf
<1> QED
  BY <1>7, <1>8 DEF t, S

\* What the module calls consistent.
LEMMA LimitedIsConsistent ==
  ASSUME NEW l, Limited(l)
  PROVE  Consistent(l)
<1>1. IsFiniteSet(Tracked(l)) /\ Cardinality(Tracked(l)) = Len(l.order)
  BY OrderFacts DEF Limited, Tracked
<1>2. ASSUME NEW k \in Tracked(l)
      PROVE  GroupCount(l, GroupOf(k)) = Cardinality({m \in Tracked(l) : GroupOf(m) = GroupOf(k)})
  <2> DEFINE g == GroupOf(k)
             T == Tracked(l)
  <2>1. g \in DOMAIN l.groups /\ l.groups[g] = Cardinality(Members(T, g))
    BY DEF Limited, Counted
  <2> QED
    BY <2>1 DEF GroupCount, Members
<1> QED
  BY <1>1, <1>2 DEF Consistent, Limited, Counted

--------------------------------------------------------------------------------
\* The limiters of one process: its failed attempts are those of clients, none has
\* more hits than the limit, and unless keys are evicted a client has learned the
\* reason of no more failures than the limiter still counts.
Throttled(m, d) ==
  /\ Limited(m.fails) /\ Limited(m.admin) /\ Tracked(m.fails) \subseteq FailKeys
  /\ \A k \in FailKeys : HitsOf(m.fails, k) <= MaxFailures
  /\ DOMAIN d = Clients /\ \A c \in Clients : d[c] \in Int
  /\ Cardinality(Clients) <= MaxKeys => \A c \in Clients : d[c] <= HitsOf(m.fails, FailKey(c))
MayFail == {"fail", "select", "selected"}
ThrottleInv ==
  /\ \A r \in Requests : reqs[r].pc \in MayFail => reqs[r].client \in Clients
  /\ DOMAIN hist.detail = Procs
  /\ \A p \in Procs : Throttled(proc[p], hist.detail[p])

\* A limiter counts in numbers, and a key that fails and is not tracked finds room.
LEMMA ThrottledFacts ==
  ASSUME NEW m, NEW d, Throttled(m, d), NEW c \in Clients
  PROVE  /\ FailKey(c) \in FailKeys /\ FailKey(c) \in AllKeys
         /\ HitsOf(m.fails, FailKey(c)) \in Nat /\ Len(m.fails.order) \in Nat
         /\ Cardinality(Clients) <= MaxKeys => FailKey(c) \in Tracked(m.fails) \/ Len(m.fails.order) < MaxKeys
<1> DEFINE l == m.fails
           k == FailKey(c)
<1>1. k \in FailKeys /\ k \in AllKeys
  BY DEF FailKeys, AllKeys
<1>2. HitsOf(l, k) \in Nat
  BY DEF HitsOf, Limited, Throttled
<1>3. /\ Len(l.order) \in Nat /\ Cardinality(Tracked(l)) = Len(l.order) /\ IsFiniteSet(Tracked(l))
  BY OrderFacts DEF Limited, Throttled, Tracked
<1>4. ASSUME Cardinality(Clients) <= MaxKeys, k \notin Tracked(l)
      PROVE  Len(l.order) < MaxKeys
  <2> DEFINE f == [x \in Clients |-> FailKey(x)]
  <2>1. /\ IsFiniteSet(Clients) /\ Cardinality(Clients) \in Nat /\ MaxKeys \in Nat
    BY GrantAssumption, RateAssumption, FS_CardinalityType
  <2>2. IsFiniteSet(FailKeys) /\ Cardinality(FailKeys) <= Cardinality(Clients)
    <3>1. f \in Surjection(Clients, FailKeys)
      BY DEF FailKeys, Surjection
    <3> HIDE DEF f
    <3> QED
      BY <2>1, <3>1, FS_Surjection
  <2>3. IsFiniteSet(FailKeys \ {k}) /\ Cardinality(FailKeys \ {k}) = Cardinality(FailKeys) - 1
    BY <1>1, <2>2, FS_RemoveElement
  <2>4. Tracked(l) \subseteq FailKeys \ {k}
    BY <1>4 DEF Throttled
  <2>5. Cardinality(Tracked(l)) <= Cardinality(FailKeys \ {k})
    BY <2>3, <2>4, FS_Subset
  <2>6. Cardinality(FailKeys) \in Nat
    BY <2>2, FS_CardinalityType
  <2> HIDE DEF k, l
  <2> QED
    BY <1>3, <1>4, <2>1, <2>2, <2>3, <2>5, <2>6
<1> QED
  BY <1>1, <1>2, <1>3, <1>4

\* A failed attempt is counted, and answered with the reason while it fits.
LEMMA FailThrottled ==
  ASSUME NEW m, NEW d, Throttled(m, d), NEW c \in Clients, NEW n, NEW e,
         n.fails = Checked(m.fails, FailKey(c), MaxFailures), n.admin = m.admin,
         e = [d EXCEPT ![c] = IF CheckAllows(m.fails, FailKey(c), MaxFailures) THEN @ + 1 ELSE @]
  PROVE  Throttled(n, e)
<1> DEFINE l == m.fails
           k == FailKey(c)
           t == Checked(l, k, MaxFailures)
           one == IF CheckAllows(l, k, MaxFailures) THEN 1 ELSE 0
<1>0. /\ k \in FailKeys /\ k \in AllKeys /\ HitsOf(l, k) \in Nat
      /\ Cardinality(Clients) <= MaxKeys => k \in Tracked(l) \/ Len(l.order) < MaxKeys
  BY ThrottledFacts
<1>1. MaxFailures \in Nat
  BY GrantAssumption
<1>2. /\ Limited(t) /\ Tracked(t) \subseteq Tracked(l) \union {k}
      /\ HitsOf(t, k) = HitsOf(l, k) + one
      /\ one = 1 => HitsOf(l, k) < MaxFailures
      /\ \A x \in Tracked(t) : x # k => HitsOf(t, x) = HitsOf(l, x)
      /\ k \in Tracked(l) \/ Len(l.order) < MaxKeys => Tracked(l) \subseteq Tracked(t)
  BY <1>0, <1>1, CheckedFacts DEF Throttled
<1>3. Tracked(t) \subseteq FailKeys
  BY <1>0, <1>2 DEF Throttled
<1>4. \A x : x \notin Tracked(t) => HitsOf(t, x) = 0
  BY <1>2 DEF HitsOf, Limited
<1>5. \A x : x \notin Tracked(l) => HitsOf(l, x) = 0
  BY DEF HitsOf, Limited, Throttled
<1>6. one \in {0, 1}
  OBVIOUS
<1>7. ASSUME NEW x \in FailKeys PROVE HitsOf(t, x) <= MaxFailures
  <2>1. HitsOf(l, x) <= MaxFailures /\ HitsOf(l, k) <= MaxFailures
    BY <1>0 DEF Throttled
  <2> HIDE DEF t, one, k, l
  <2>2. CASE x = k
    BY <1>0, <1>1, <1>2, <1>6, <2>1, <2>2
  <2>3. CASE x # k /\ x \in Tracked(t)
    BY <1>2, <2>1, <2>3
  <2>4. CASE x \notin Tracked(t)
    BY <1>1, <1>4, <2>4
  <2> QED
    BY <2>2, <2>3, <2>4
<1>8. /\ DOMAIN e = Clients /\ \A x \in Clients : e[x] \in Int
      /\ e[c] = d[c] + one /\ \A x \in Clients : x # c => e[x] = d[x]
  BY DEF Throttled
<1>9. ASSUME Cardinality(Clients) <= MaxKeys, NEW x \in Clients
      PROVE  e[x] <= HitsOf(t, FailKey(x))
  <2>1. d[x] <= HitsOf(l, FailKey(x)) /\ d[x] \in Int /\ d[c] <= HitsOf(l, k) /\ d[c] \in Int
    BY <1>9 DEF Throttled
  <2>2. CASE x = c
    <3> HIDE DEF t, one, l
    <3> QED
      BY <1>0, <1>2, <1>6, <1>8, <2>1, <2>2
  <2>3. CASE x # c
    <3>1. FailKey(x) # k
      BY <2>3 DEF FailKey
    <3>2. HitsOf(t, FailKey(x)) = HitsOf(l, FailKey(x))
      <4> HIDE DEF t, one, l, k
      <4>1. Tracked(l) \subseteq Tracked(t)
        BY <1>0, <1>2, <1>9
      <4>2. CASE FailKey(x) \in Tracked(t)
        BY <1>2, <3>1, <4>2
      <4>3. CASE FailKey(x) \notin Tracked(t)
        BY <1>4, <1>5, <4>1, <4>3
      <4> QED
        BY <4>2, <4>3
    <3> HIDE DEF t, one, l, k
    <3> QED
      BY <1>8, <2>1, <2>3, <3>2
  <2> QED
    BY <2>2, <2>3
<1>10. n.fails = t /\ n.admin = m.admin
  OBVIOUS
<1> HIDE DEF t, one, k, l
<1> QED
  BY <1>2, <1>3, <1>7, <1>8, <1>9, <1>10 DEF Throttled

\* A hit that leaves the window.
LEMMA AgeThrottled ==
  ASSUME NEW m, NEW d, Throttled(m, d), NEW c \in Clients, NEW n, NEW e,
         HitsOf(m.fails, FailKey(c)) > 0,
         n.fails = Aged(m.fails, FailKey(c)), n.admin = m.admin, e = [d EXCEPT ![c] = @ - 1]
  PROVE  Throttled(n, e)
<1> DEFINE l == m.fails
           k == FailKey(c)
           t == Aged(l, k)
<1>1. /\ Limited(t) /\ Tracked(t) = Tracked(l) /\ HitsOf(t, k) = HitsOf(l, k) - 1 /\ HitsOf(l, k) \in Nat
      /\ \A x : x # k => HitsOf(t, x) = HitsOf(l, x)
  BY AgedFacts DEF Throttled
<1>2. /\ DOMAIN e = Clients /\ \A x \in Clients : e[x] \in Int
      /\ e[c] = d[c] - 1 /\ \A x \in Clients : x # c => e[x] = d[x]
  BY DEF Throttled
<1>3. MaxFailures \in Nat /\ k \in FailKeys
  BY GrantAssumption, ThrottledFacts
<1>4. ASSUME NEW x \in FailKeys PROVE HitsOf(t, x) <= MaxFailures
  <2>1. HitsOf(l, x) <= MaxFailures /\ HitsOf(l, k) <= MaxFailures
    BY <1>3 DEF Throttled
  <2> HIDE DEF t, k, l
  <2> QED
    BY <1>1, <1>3, <2>1
<1>5. ASSUME Cardinality(Clients) <= MaxKeys, NEW x \in Clients
      PROVE  e[x] <= HitsOf(t, FailKey(x))
  <2>1. d[x] <= HitsOf(l, FailKey(x)) /\ d[x] \in Int /\ d[c] <= HitsOf(l, k) /\ d[c] \in Int
    BY <1>5 DEF Throttled
  <2>2. x # c => FailKey(x) # k
    BY DEF FailKey
  <2>3. x = c => FailKey(x) = k
    OBVIOUS
  <2> HIDE DEF t, k, l
  <2> QED
    BY <1>1, <1>2, <2>1, <2>2, <2>3
<1>6. n.fails = t /\ n.admin = m.admin /\ Tracked(l) \subseteq FailKeys /\ Limited(m.admin)
  BY DEF Throttled
<1> HIDE DEF t, k, l
<1> QED
  BY <1>1, <1>2, <1>4, <1>5, <1>6 DEF Throttled

\* The sweep drops keys nobody has a hit with; the limiter of the administration
\* counts apart.
LEMMA OtherThrottled ==
  ASSUME NEW m, NEW d, Throttled(m, d), NEW n,
         \/ n.fails = Swept(m.fails) /\ n.admin = m.admin
         \/ n.fails = m.fails /\ n.admin = Checked(m.admin, AdminKey, AdminRate)
         \/ n.fails = m.fails /\ n.admin = m.admin
  PROVE  Throttled(n, d)
<1>1. CASE n.fails = Swept(m.fails) /\ n.admin = m.admin
  <2>1. /\ Limited(n.fails) /\ Tracked(n.fails) \subseteq Tracked(m.fails)
        /\ \A x : HitsOf(n.fails, x) = HitsOf(m.fails, x)
    BY <1>1, SweptFacts DEF Throttled
  <2> QED
    BY <1>1, <2>1 DEF Throttled
<1>2. CASE n.fails = m.fails /\ n.admin = Checked(m.admin, AdminKey, AdminRate)
  <2>1. AdminKey \in AllKeys /\ AdminRate \in Nat
    BY GrantAssumption DEF AllKeys
  <2>2. Limited(n.admin)
    BY <1>2, <2>1, CheckedFacts DEF Throttled
  <2> QED
    BY <1>2, <2>2 DEF Throttled
<1>3. CASE n.fails = m.fails /\ n.admin = m.admin
  BY <1>3 DEF Throttled
<1> QED
  BY <1>1, <1>2, <1>3

\* A fresh process has counted nothing.
LEMMA FreshThrottled ==
  ASSUME NEW d, d = [c \in Clients |-> 0]
  PROVE  Throttled(FreshProc, d)
<1>1. FreshProc.fails = EmptyLimiter /\ FreshProc.admin = EmptyLimiter
  BY DEF FreshProc
<1>2. Order(<< >>) /\ ToSet(<< >>) = {} /\ Len(<< >>) = 0
  <2>1. << >> \in Seq(AllKeys) /\ Len(<< >>) = 0 /\ DOMAIN << >> = {}
    BY EmptySeq
  <2> QED
    BY <2>1 DEF Order, Distinct, ToSet
<1>3. /\ DOMAIN EmptyLimiter = {"order", "hits", "groups"} /\ EmptyLimiter.order = << >>
      /\ DOMAIN EmptyLimiter.hits = {} /\ DOMAIN EmptyLimiter.groups = {}
  BY DEF EmptyLimiter
<1>4. Tracked(EmptyLimiter) = {} /\ \A k : HitsOf(EmptyLimiter, k) = 0
  BY <1>2, <1>3 DEF Tracked, HitsOf
<1>5. Limited(EmptyLimiter)
  BY <1>2, <1>3, <1>4, RateAssumption DEF Limited, Counted
<1> QED
  BY <1>1, <1>4, <1>5, GrantAssumption DEF Throttled

\* A step keeps the limiters if what it changes is one process and one request.
LEMMA ThrottleKept ==
  ASSUME ThrottleInv, DOMAIN hist'.detail = Procs,
         \A p \in Procs : Throttled(proc'[p], hist'.detail[p]),
         \A r \in Requests : reqs'[r].pc \in MayFail =>
           \/ reqs'[r].client \in Clients
           \/ reqs[r].pc \in MayFail /\ reqs'[r].client = reqs[r].client
  PROVE  ThrottleInv'
BY DEF ThrottleInv

\* A step that leaves the limiters alone.
LEMMA ThrottleQuiet ==
  ASSUME ThrottleInv, hist'.detail = hist.detail,
         \A p \in Procs : proc'[p].fails = proc[p].fails /\ proc'[p].admin = proc[p].admin,
         \A r \in Requests : reqs'[r].pc \in MayFail =>
           \/ reqs'[r].client \in Clients
           \/ reqs[r].pc \in MayFail /\ reqs'[r].client = reqs[r].client
  PROVE  ThrottleInv'
<1>1. ASSUME NEW p \in Procs PROVE Throttled(proc'[p], hist'.detail[p])
  <2> DEFINE m == proc[p]
             n == proc'[p]
             d == hist.detail[p]
  <2>1. Throttled(m, d) /\ n.fails = m.fails /\ n.admin = m.admin /\ hist'.detail[p] = d
    BY DEF ThrottleInv
  <2> HIDE DEF m, n, d
  <2>2. Throttled(n, d)
    BY <2>1, OtherThrottled
  <2> QED
    BY <2>1, <2>2 DEF n
<1>2. DOMAIN hist'.detail = Procs
  BY DEF ThrottleInv
<1> QED
  BY <1>1, <1>2, ThrottleKept

\* A request whose attempt failed: Fail, on the state as it is.
LEMMA FailKeepsThrottle ==
  ASSUME ThrottleInv, Typed, NEW r \in Requests, reqs[r].pc \in MayFail, Fail(r, proc, hist)
  PROVE  ThrottleInv'
<1> DEFINE c == reqs[r].client
           p == reqs[r].p
           k == FailKey(c)
<1>1. c \in Clients /\ p \in Procs /\ DOMAIN reqs = Requests
  BY DEF ThrottleInv, Typed, ReqTyped, MayFail
<1>2. /\ proc' = [proc EXCEPT ![p].fails = Checked(@, k, MaxFailures)]
      /\ hist' = [hist EXCEPT !.detail[p][c] = IF CheckAllows(proc[p].fails, k, MaxFailures) THEN @ + 1 ELSE @]
      /\ End(r)
  BY DEF Fail
<1>3. /\ DOMAIN proc = Procs /\ DOMAIN proc[p] = ProcFields /\ DOMAIN hist = HistFields
      /\ DOMAIN hist.detail = Procs /\ Throttled(proc[p], hist.detail[p])
  BY <1>1 DEF Typed, ProcTyped, HistTyped, ThrottleInv
<1>4. Ends(r)
  BY EndFacts DEF Typed, Fail
<1>5. /\ proc'[p].fails = Checked(proc[p].fails, k, MaxFailures) /\ proc'[p].admin = proc[p].admin
      /\ \A q \in Procs : q # p => proc'[q] = proc[q]
  <2> HIDE DEF p, k
  <2> QED
    BY <1>1, <1>2, <1>3 DEF ProcFields
<1>6. /\ DOMAIN hist'.detail = Procs /\ \A q \in Procs : q # p => hist'.detail[q] = hist.detail[q]
      /\ hist'.detail[p] = [hist.detail[p] EXCEPT ![c] =
           IF CheckAllows(proc[p].fails, k, MaxFailures) THEN @ + 1 ELSE @]
  <2> HIDE DEF p, k, c
  <2> QED
    BY <1>1, <1>2, <1>3 DEF HistFields
<1>7. Throttled(proc'[p], hist'.detail[p])
  <2> DEFINE n == proc'[p]
             e == hist'.detail[p]
             m == proc[p]
             d == hist.detail[p]
  <2>1. /\ n.fails = Checked(m.fails, FailKey(c), MaxFailures) /\ n.admin = m.admin /\ Throttled(m, d)
        /\ e = [d EXCEPT ![c] = IF CheckAllows(m.fails, FailKey(c), MaxFailures) THEN @ + 1 ELSE @]
    BY <1>3, <1>5, <1>6
  <2> HIDE DEF n, e, m, d, c, p
  <2> QED
    BY <1>1, <2>1, FailThrottled DEF n, e
<1>8. ASSUME NEW q \in Procs PROVE Throttled(proc'[q], hist'.detail[q])
  <2>1. CASE q = p
    BY <1>7, <2>1
  <2>2. CASE q # p
    BY <1>5, <1>6, <2>2 DEF ThrottleInv
  <2> QED
    BY <2>1, <2>2
<1>9. \A s \in Requests : reqs'[s].pc \in MayFail => reqs[s].pc \in MayFail /\ reqs'[s].client = reqs[s].client
  BY <1>4 DEF Ends, Moves, MayFail
<1> QED
  BY <1>6, <1>8, <1>9, ThrottleKept

\* The other steps of a request leave the limiters alone, and none of them fails
\* afterwards but the one that has looked its row up.
LEMMA RequestThrottle ==
  ASSUME ThrottleInv, Typed, NEW r \in Requests, RequestStep(r)
  PROVE  ThrottleInv'
<1>0. ReqTyped /\ DOMAIN proc = Procs /\ (\A p \in Procs : DOMAIN proc[p] = ProcFields) /\ DOMAIN hist = HistFields
  BY DEF Typed, ProcTyped, HistTyped
<1>1. CASE FailCached(r) \/ (Resolve(r) /\ Fail(r, proc, hist))
  <2>1. reqs[r].pc \in MayFail /\ Fail(r, proc, hist)
    BY <1>1 DEF FailCached, Resolve, MayFail
  <2> QED
    BY <2>1, FailKeepsThrottle
<1>2. CASE ~(FailCached(r) \/ (Resolve(r) /\ Fail(r, proc, hist)))
  <2>1. \A p \in Procs : proc'[p].fails = proc[p].fails /\ proc'[p].admin = proc[p].admin
    <3>1. CASE proc' = proc
      BY <3>1
    <3>2. CASE \E g : proc' = [proc EXCEPT ![reqs[r].p] = Remembered(@, g)]
      <4>1. PICK g : proc' = [proc EXCEPT ![reqs[r].p] = Remembered(@, g)]
        BY <3>2
      <4> DEFINE m == Remembered(proc[reqs[r].p], g)
                 old == proc[reqs[r].p]
      <4>2. DOMAIN old = ProcFields => m.fails = old.fails /\ m.admin = old.admin
        BY DEF Remembered, ProcFields
      <4>3. proc' = [proc EXCEPT ![reqs[r].p] = m]
        BY <4>1
      <4> HIDE DEF m
      <4> QED
        BY <1>0, <4>2, <4>3
    <3>3. CASE \E b, a : proc' = [proc EXCEPT ![reqs[r].p] = [@ EXCEPT !.buf = b, !.armed = a]]
      BY <1>0, <3>3 DEF ProcFields
    <3>4. \A m, x, y : Buffered(m, x, y)
            = [m EXCEPT !.buf = Bind(@, x, Plus(IF x \in DOMAIN @ THEN @[x] ELSE NoDelta, y)), !.armed = Arms(m)]
      BY DEF Buffered
    <3>5. CASE RecordDeferred(r) \/ RefundGrantUsage(r)
      <4>1. \/ proc' = proc
            \/ \E x, y : proc' = [proc EXCEPT ![reqs[r].p] = Buffered(@, x, y)]
        BY <3>5 DEF RecordDeferred, RefundGrantUsage
      <4>2. CASE \E x, y : proc' = [proc EXCEPT ![reqs[r].p] = Buffered(@, x, y)]
        <5>1. PICK x, y : proc' = [proc EXCEPT ![reqs[r].p] = Buffered(@, x, y)]
          BY <4>2
        <5> DEFINE old == proc[reqs[r].p]
                   m == Buffered(old, x, y)
        <5>2. DOMAIN old = ProcFields => m.fails = old.fails /\ m.admin = old.admin
          BY DEF Buffered, ProcFields
        <5>3. proc' = [proc EXCEPT ![reqs[r].p] = m]
          BY <5>1
        <5> HIDE DEF m
        <5> QED
          BY <1>0, <5>2, <5>3
      <4> QED
        BY <3>1, <4>1, <4>2
    <3>6. CASE Resolve(r)
      BY <1>2, <3>1, <3>2, <3>6 DEF Resolve
    <3> QED
      BY <1>2, <3>1, <3>5, <3>6 DEF RequestStep, Select, Enforce, ConsumeReset, ConsumeIncrement, ChangesetCall,
         RecordSync, RecordStatement, Handle, RefundDailyBudget
  <2>2. hist'.detail = hist.detail
    <3>1. CASE hist' = hist
      BY <3>1
    <3>2. CASE Select(r)
      BY <1>0, <3>2 DEF Select, HistFields
    <3>3. CASE ConsumeReset(r) \/ ConsumeIncrement(r) \/ Handle(r) \/ RefundDailyBudget(r)
      BY <1>0, <3>3 DEF ConsumeReset, ConsumeIncrement, Handle, RefundDailyBudget, Charge, HistFields
    <3>4. CASE ChangesetCall(r)
      BY <1>0, <3>4 DEF ChangesetCall, HistFields
    <3>5. CASE RecordDeferred(r) \/ RecordSync(r) \/ RecordStatement(r)
      BY <1>0, <3>5 DEF RecordDeferred, RecordSync, RecordStatement, HistFields
    <3> QED
      BY <1>2, <3>1, <3>2, <3>3, <3>4, <3>5 DEF RequestStep, Resolve, Enforce, RefundGrantUsage
  <2>3. /\ Moves(r)
        /\ reqs'[r].pc \in MayFail => reqs[r].pc \in MayFail /\ reqs'[r].client = reqs[r].client
    <3>1. CASE reqs' = NextPart(r) \/ End(r)
      BY <1>0, <3>1, NextPartFacts, EndFacts DEF Ends, Again, MayFail
    <3>2. CASE \E x : x \notin MayFail /\ ReqGoto(r, x)
      BY <1>0, <3>2, GotoFacts DEF Goes
    <3>3. CASE Select(r)
      BY <1>0, <3>3 DEF Select, Moves, ReqTyped, ReqFields, MayFail
    <3>4. CASE \E used : Charge(r, used)
      BY <1>0, <3>4 DEF Charge, Moves, ReqTyped, ReqFields, MayFail
    <3>5. CASE \E t : \E x \in {"changeset", "reset", "record"} : reqs' = [reqs EXCEPT ![r].pc = x, ![r].today = t]
      BY <1>0, <3>5 DEF Moves, ReqTyped, ReqFields, MayFail
    <3>6. CASE \E t : \E x \in {"handler", "update"} : reqs' = [reqs EXCEPT ![r].pc = x, ![r].usageDay = t]
      BY <1>0, <3>6 DEF Moves, ReqTyped, ReqFields, MayFail
    <3>7. CASE RecordStatement(r)
      <4>1. PICK o \in UpsertOutcomes(reqs[r].pc, reqs[r].usageDay, One) :
              ReqGoto(r, IF o.pc \in {"done", "failed"} THEN "handler" ELSE o.pc)
        BY <3>7 DEF RecordStatement
      <4>2. o.pc \in {"done", "failed", "insert", "again"}
        BY <3>7 DEF RecordStatement, UpsertOutcomes, StillMissing
      <4> QED
        BY <3>2, <4>1, <4>2 DEF MayFail
    <3>8. CASE Resolve(r)
      <4>1. ReqGoto(r, "enforce")
        BY <1>2, <3>8 DEF Resolve
      <4> QED
        BY <3>2, <4>1 DEF MayFail
    <3>9. CASE Enforce(r)
      BY <3>1, <3>5, <3>9 DEF Enforce
    <3>10. CASE ConsumeReset(r) \/ ConsumeIncrement(r)
      BY <3>1, <3>2, <3>4, <3>10 DEF ConsumeReset, ConsumeIncrement, MayFail
    <3>11. CASE Handle(r) \/ RefundDailyBudget(r) \/ ChangesetCall(r) \/ RefundGrantUsage(r)
      BY <3>1, <3>2, <3>11 DEF Handle, RefundDailyBudget, ChangesetCall, RefundGrantUsage, MayFail
    <3>12. CASE RecordDeferred(r) \/ RecordSync(r)
      BY <3>6, <3>12 DEF RecordDeferred, RecordSync
    <3> QED
      BY <1>2, <3>3, <3>7, <3>8, <3>9, <3>10, <3>11, <3>12 DEF RequestStep
  <2>4. \A s \in Requests : reqs'[s].pc \in MayFail => reqs[s].pc \in MayFail /\ reqs'[s].client = reqs[s].client
    BY <2>3 DEF Moves
  <2> QED
    BY <2>1, <2>2, <2>4, ThrottleQuiet
<1> QED
  BY <1>1, <1>2

\* A request that arrives comes from a client.
LEMMA PresentThrottle ==
  ASSUME ThrottleInv, Typed, NEW r \in Requests, NEW p \in Procs, NEW c \in Clients, NEW h, NEW call,
         Present(r, p, c, h, call)
  PROVE  ThrottleInv'
<1>0. DOMAIN proc = Procs /\ (\A q \in Procs : DOMAIN proc[q] = ProcFields) /\ DOMAIN reqs = Requests
  BY DEF Typed, ProcTyped, ReqTyped
<1>1. hist' = hist
  BY DEF Present
<1>2. \A s \in Procs : proc'[s].fails = proc[s].fails /\ proc'[s].admin = proc[s].admin
  <2>1. PICK k : proc' = proc \/ proc' = [proc EXCEPT ![p].cache = k]
    BY DEF Present
  <2> QED
    BY <1>0, <2>1 DEF ProcFields
<1>3. reqs'[r].client = c /\ \A s \in Requests : s # r => reqs'[s] = reqs[s]
  <2> DEFINE q == [NoRequest EXCEPT !.p = p, !.client = c, !.hash = h, !.call = call, !.parts = scene.parts]
  <2>1. DOMAIN q = ReqFields /\ q.client = c
    BY DEF NoRequest, ReqFields
  <2>2. \/ \E g, x : reqs' = [reqs EXCEPT ![r] = [q EXCEPT !.grant = g, !.pc = x]]
        \/ \E g : reqs' = [reqs EXCEPT ![r] = [q EXCEPT !.pc = "select", !.gen = g]]
    <3>1. CASE reqs' = [reqs EXCEPT ![r] = [q EXCEPT !.grant = proc[p].cache[h],
                           !.pc = IF proc[p].cache[h].over <= day THEN "fail" ELSE "enforce"]]
      BY <3>1
    <3>2. CASE reqs' = [reqs EXCEPT ![r] = [q EXCEPT !.pc = "select", !.gen = proc[p].gen]]
      BY <3>2
    <3> QED
      BY <3>1, <3>2 DEF Present, q
  <2> HIDE DEF q
  <2> QED
    BY <1>0, <2>1, <2>2 DEF ReqFields
<1> QED
  BY <1>1, <1>2, <1>3, ThrottleQuiet

\* The flushes, the edits but their admission, and the calendar leave the limiters
\* alone.
LEMMA QuietThrottle ==
  ASSUME ThrottleInv, Typed,
         \/ \E p \in Procs : Activate(p) \/ EditStep(p) \/ FlushStep(p) \/ FlushTimer(p) \/ GetGrantUsage(p) \/ Shutdown(p)
         \/ IssueAgentGrant \/ Midnight \/ UNCHANGED vars
  PROVE  ThrottleInv'
<1>0. DOMAIN hist = HistFields /\ DOMAIN proc = Procs /\ \A p \in Procs : DOMAIN proc[p] = ProcFields
  BY DEF Typed, HistTyped, ProcTyped
<1>1. CASE IssueAgentGrant \/ Midnight \/ UNCHANGED vars
  <2>1. proc' = proc /\ hist' = hist /\ reqs' = reqs
    BY <1>1 DEF IssueAgentGrant, Midnight, vars
  <2> QED
    BY <2>1, ThrottleQuiet
<1>2. ASSUME NEW p \in Procs, Activate(p) \/ EditStep(p) \/ FlushStep(p) \/ FlushTimer(p) \/ GetGrantUsage(p) \/ Shutdown(p)
      PROVE  ThrottleInv'
  <2>1. reqs' = reqs
    BY <1>2 DEF Activate, EditStep, EditWrite, EditInvalidate, EditCommit, FlushStep, FlushNext, FlushStatement,
       FlushTimer, GetGrantUsage, Shutdown, Flush
  <2>2. hist'.detail = hist.detail
    BY <1>0, <1>2 DEF Activate, EditStep, EditWrite, EditInvalidate, EditCommit, FlushStep, FlushNext, FlushStatement,
       FlushTimer, GetGrantUsage, Shutdown, Flush, Committed, Answered, HistFields
  <2>3. \A s \in Procs : proc'[s].fails = proc[s].fails /\ proc'[s].admin = proc[s].admin
    <3>0. \A m : DOMAIN m = ProcFields /\ proc' = [proc EXCEPT ![p] = m]
                 /\ m.fails = proc[p].fails /\ m.admin = proc[p].admin
            => \A s \in Procs : proc'[s].fails = proc[s].fails /\ proc'[s].admin = proc[s].admin
      BY <1>0
    <3>1. CASE EditInvalidate(p)
      <4> DEFINE m == Forgotten(proc[p])
      <4>1. proc' = [proc EXCEPT ![p] = m]
        BY <3>1 DEF EditInvalidate
      <4>2. DOMAIN m = ProcFields /\ m.fails = proc[p].fails /\ m.admin = proc[p].admin
        BY <1>0 DEF Forgotten, ProcFields
      <4> HIDE DEF m
      <4> QED
        BY <3>0, <4>1, <4>2
    <3>2. CASE (\E f \in Flushers : FlushStatement(p, f)) /\ proc' # proc
      <4>1. PICK x, y : proc' = [proc EXCEPT ![p] = Buffered(@, x, y)]
        BY <3>2 DEF FlushStatement
      <4> DEFINE m == Buffered(proc[p], x, y)
      <4>2. proc' = [proc EXCEPT ![p] = m]
        BY <4>1
      <4>3. DOMAIN m = ProcFields /\ m.fails = proc[p].fails /\ m.admin = proc[p].admin
        BY <1>0 DEF Buffered, ProcFields
      <4> HIDE DEF m
      <4> QED
        BY <3>0, <4>2, <4>3
    <3>3. CASE proc' = proc
      BY <3>3
    <3>4. CASE \E a : Flush(p, a)
      <4>1. PICK a, b : proc' = [proc EXCEPT ![p].armed = a, ![p].buf = b]
        BY <3>4 DEF Flush
      <4> QED
        BY <1>0, <4>1 DEF ProcFields
    <3>6. CASE proc' = [proc EXCEPT ![p].armed = FALSE]
      BY <1>0, <3>6 DEF ProcFields
    <3>5. CASE Activate(p)
      <4>1. PICK b : proc' = [proc EXCEPT ![p].lane = b]
        BY <3>5 DEF Activate
      <4> QED
        BY <1>0, <4>1 DEF ProcFields
    <3> QED
      BY <1>2, <3>1, <3>2, <3>3, <3>4, <3>5, <3>6 DEF EditStep, EditWrite, EditCommit, FlushStep, FlushNext,
         FlushTimer, GetGrantUsage, Shutdown
  <2> QED
    BY <2>1, <2>2, <2>3, ThrottleQuiet
<1> QED
  BY <1>1, <1>2

\* One process counts an administration call, forgets a hit, sweeps or dies.
LEMMA ProcessThrottle ==
  ASSUME ThrottleInv, Typed, NEW p \in Procs,
         \/ Sweep(p) \/ Crash(p) \/ \E c \in Clients : AgeFailure(p, c)
         \/ \E e : RequestEdit(p, e.tx, e.kind, e.patch)
  PROVE  ThrottleInv'
<1>0. /\ DOMAIN hist = HistFields /\ DOMAIN proc = Procs /\ DOMAIN hist.detail = Procs /\ DOMAIN reqs = Requests
      /\ \A q \in Procs : DOMAIN proc[q] = ProcFields /\ Throttled(proc[q], hist.detail[q])
  BY DEF Typed, HistTyped, ProcTyped, ReqTyped, ThrottleInv
<1>1. \A r \in Requests : reqs'[r].pc \in MayFail => reqs[r].pc \in MayFail /\ reqs'[r].client = reqs[r].client
  <2>1. CASE reqs' = reqs
    BY <2>1
  <2>2. CASE Crash(p)
    <3>1. NoRequest.pc = "idle"
      BY DEF NoRequest
    <3>2. \A r \in Requests : reqs'[r] = NoRequest \/ reqs'[r] = reqs[r]
      BY <2>2 DEF Crash
    <3> HIDE DEF NoRequest
    <3> QED
      BY <3>1, <3>2 DEF MayFail
  <2> QED
    BY <2>1, <2>2 DEF Sweep, AgeFailure, RequestEdit
<1>2. ASSUME NEW n, NEW d, Throttled(n, d),
             proc' = [proc EXCEPT ![p] = n], DOMAIN hist'.detail = Procs, hist'.detail[p] = d,
             \A q \in Procs : q # p => hist'.detail[q] = hist.detail[q]
      PROVE  ThrottleInv'
  <2>1. ASSUME NEW q \in Procs PROVE Throttled(proc'[q], hist'.detail[q])
    <3>1. q # p => proc'[q] = proc[q] /\ hist'.detail[q] = hist.detail[q]
      BY <1>2
    <3>2. q = p => proc'[q] = n /\ hist'.detail[q] = d
      BY <1>0, <1>2
    <3> QED
      BY <1>0, <1>2, <3>1, <3>2
  <2> QED
    BY <1>1, <1>2, <2>1, ThrottleKept
<1>3. CASE Sweep(p)
  <2> DEFINE n == [proc[p] EXCEPT !.fails = Swept(@)]
  <2>1. proc' = [proc EXCEPT ![p] = n] /\ hist' = hist
    BY <1>3 DEF Sweep
  <2>2. n.fails = Swept(proc[p].fails) /\ n.admin = proc[p].admin
    BY <1>0 DEF ProcFields
  <2> HIDE DEF n
  <2>3. Throttled(n, hist.detail[p])
    BY <1>0, <2>2, OtherThrottled
  <2> QED
    BY <1>0, <1>2, <2>1, <2>3
<1>4. CASE \E e : RequestEdit(p, e.tx, e.kind, e.patch)
  <2> DEFINE n == [proc[p] EXCEPT !.admin = Checked(@, AdminKey, AdminRate)]
  <2>1. (proc' = proc \/ proc' = [proc EXCEPT ![p] = n]) /\ hist' = hist
    BY <1>4 DEF RequestEdit, AdminKey
  <2>2. n.fails = proc[p].fails /\ n.admin = Checked(proc[p].admin, AdminKey, AdminRate)
    BY <1>0 DEF ProcFields
  <2> HIDE DEF n
  <2>3. Throttled(n, hist.detail[p])
    BY <1>0, <2>2, OtherThrottled
  <2>4. CASE proc' = proc
    BY <1>1, <2>1, <2>4, ThrottleQuiet
  <2> QED
    BY <1>0, <1>2, <2>1, <2>3, <2>4
<1>5. CASE \E c \in Clients : AgeFailure(p, c)
  <2>1. PICK c \in Clients : AgeFailure(p, c)
    BY <1>5
  <2> DEFINE n == [proc[p] EXCEPT !.fails = Aged(@, FailKey(c))]
             d == [hist.detail[p] EXCEPT ![c] = @ - 1]
  <2>2. /\ proc' = [proc EXCEPT ![p] = n] /\ HitsOf(proc[p].fails, FailKey(c)) > 0
        /\ DOMAIN hist'.detail = Procs /\ hist'.detail[p] = d
        /\ \A q \in Procs : q # p => hist'.detail[q] = hist.detail[q]
    BY <1>0, <2>1 DEF AgeFailure, HistFields
  <2>3. n.fails = Aged(proc[p].fails, FailKey(c)) /\ n.admin = proc[p].admin
    BY <1>0 DEF ProcFields
  <2>4. d = [hist.detail[p] EXCEPT ![c] = @ - 1]
    OBVIOUS
  <2> HIDE DEF n, d
  <2>5. Throttled(n, d)
    <3> DEFINE m == proc[p]
               o == hist.detail[p]
    <3>1. /\ Throttled(m, o) /\ HitsOf(m.fails, FailKey(c)) > 0 /\ n.fails = Aged(m.fails, FailKey(c))
          /\ n.admin = m.admin /\ d = [o EXCEPT ![c] = @ - 1]
      BY <1>0, <2>2, <2>3, <2>4
    <3> HIDE DEF m, o
    <3> QED
      BY <3>1, AgeThrottled
  <2> QED
    BY <1>2, <2>2, <2>5
<1>6. CASE Crash(p)
  <2> DEFINE d == [c \in Clients |-> 0]
  <2>1. proc' = [proc EXCEPT ![p] = FreshProc]
    BY <1>6 DEF Crash
  <2>2. /\ DOMAIN hist'.detail = Procs /\ hist'.detail[p] = d
        /\ \A q \in Procs : q # p => hist'.detail[q] = hist.detail[q]
    <3>1. PICK x : hist' = [hist EXCEPT !.lost = x, !.detail[p] = d]
      BY <1>6 DEF Crash
    <3> HIDE DEF d
    <3> QED
      BY <1>0, <3>1 DEF HistFields
  <2>3. Throttled(FreshProc, d)
    BY FreshThrottled
  <2> HIDE DEF d
  <2> QED
    BY <1>2, <2>1, <2>2, <2>3
<1> QED
  BY <1>3, <1>4, <1>5, <1>6

\* At first no failure is counted.
LEMMA ThrottleInit ==
  ASSUME Init
  PROVE  ThrottleInv
<1>1. /\ proc = [p \in Procs |-> FreshProc] /\ reqs = [r \in Requests |-> NoRequest]
      /\ hist.detail = [p \in Procs |-> [c \in Clients |-> 0]]
  BY DEF Init
<1>2. \A p \in Procs : Throttled(proc[p], hist.detail[p])
  <2> DEFINE d == [c \in Clients |-> 0]
  <2>1. Throttled(FreshProc, d)
    BY FreshThrottled
  <2>2. \A p \in Procs : proc[p] = FreshProc /\ hist.detail[p] = d
    BY <1>1
  <2> HIDE DEF d
  <2> QED
    BY <2>1, <2>2
<1>3. \A r \in Requests : reqs[r].pc \notin MayFail
  BY <1>1 DEF NoRequest, MayFail
<1> QED
  BY <1>1, <1>2, <1>3 DEF ThrottleInv

\* Every step keeps the limiters.
LEMMA ThrottleNext ==
  ASSUME ThrottleInv, GrantInv, [Next]_vars
  PROVE  ThrottleInv'
<1>0. Typed /\ scene.procs \subseteq Procs /\ scene.clients \subseteq Clients
  BY GrantAssumption DEF GrantInv, BudgetInv, Typed, SceneTyped
<1>1. ASSUME NEW r \in Requests, RequestStep(r) PROVE ThrottleInv'
  BY <1>0, <1>1, RequestThrottle
<1>2. ASSUME NEW r \in Requests, NEW p \in Procs, NEW c \in Clients, NEW h, NEW call, Present(r, p, c, h, call)
      PROVE  ThrottleInv'
  BY <1>0, <1>2, PresentThrottle
<1>3. ASSUME NEW p \in Procs,
             Activate(p) \/ EditStep(p) \/ FlushStep(p) \/ FlushTimer(p) \/ GetGrantUsage(p) \/ Shutdown(p)
      PROVE  ThrottleInv'
  BY <1>0, <1>3, QuietThrottle
<1>4. ASSUME NEW p \in Procs,
             \/ Sweep(p) \/ Crash(p) \/ \E c \in Clients : AgeFailure(p, c)
             \/ \E e \in scene.edits : RequestEdit(p, e.tx, e.kind, e.patch)
      PROVE  ThrottleInv'
  BY <1>0, <1>4, ProcessThrottle
<1>5. CASE IssueAgentGrant \/ Midnight \/ UNCHANGED vars
  BY <1>0, <1>5, QuietThrottle
<1> QED
  BY <1>0, <1>1, <1>2, <1>3, <1>4, <1>5 DEF Next

\* However many attempts run at once, a client learns the reason of no more
\* failures within a window than the limit, unless keys had to be evicted, and the
\* keys, group counts and capacity of every limiter agree (checkMany, sweep and
\* evictOldest of rate-limiter.ts under recordFailedAuth and checkGrantAdmin).
THEOREM FailuresAreThrottled == Spec => []FailuresThrottled
<1>1. Init => ThrottleInv
  BY ThrottleInit
<1>2. ThrottleInv /\ GrantInv /\ [Next]_vars => ThrottleInv'
  BY ThrottleNext
<1>3. ThrottleInv => FailuresThrottled
  <2> SUFFICES ASSUME ThrottleInv, NEW p \in Procs
               PROVE  /\ Cardinality(Clients) <= MaxKeys => \A c \in Clients : hist.detail[p][c] <= MaxFailures
                      /\ Consistent(proc[p].fails) /\ Consistent(proc[p].admin)
    BY DEF FailuresThrottled
  <2> DEFINE m == proc[p]
             d == hist.detail[p]
  <2>1. Throttled(m, d)
    BY DEF ThrottleInv
  <2> HIDE DEF m, d
  <2>2. Consistent(m.fails) /\ Consistent(m.admin)
    BY <2>1, LimitedIsConsistent DEF Throttled
  <2>3. ASSUME Cardinality(Clients) <= MaxKeys, NEW c \in Clients PROVE d[c] <= MaxFailures
    <3>1. /\ d[c] <= HitsOf(m.fails, FailKey(c)) /\ HitsOf(m.fails, FailKey(c)) <= MaxFailures
          /\ d[c] \in Int /\ HitsOf(m.fails, FailKey(c)) \in Nat /\ MaxFailures \in Nat
      BY <2>1, <2>3, ThrottledFacts, GrantAssumption DEF Throttled
    <3> QED
      BY <3>1
  <2> QED
    BY <2>2, <2>3 DEF m, d
<1>4. Spec => []GrantInv
  BY GrantInvariant
<1> QED
  BY <1>1, <1>2, <1>3, <1>4, PTL DEF Spec

=============================================================================
