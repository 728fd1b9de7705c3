------------------------------ MODULE ClientProofs ------------------------------
(***************************************************************************)
(* Proofs about the multi-backend client: for any number of backends,      *)
(* providers and concurrent requests, any thresholds and any outages,      *)
(* failover skips no healthy backend, an outage opens its circuit, probe   *)
(* slots are released and no answer contradicts the ledger.                *)
(*                                                                         *)
(* ClientInv is the inductive invariant, one part for each theorem.  Every *)
(* handler is first reduced to what it does to one request and to the      *)
(* breakers (Walked, Ends); the parts are proved from these facts.         *)
(***************************************************************************)
EXTENDS BackendClient, SequenceTheorems, FiniteSetTheorems, WellFoundedInduction, TLAPS

USE DEF world

\* Types of a breaker entry and of a request.
EntryType == [state : {"closed", "open", "half-open"}, failures : Nat, successes : Nat,
              probes : Nat, aged : BOOLEAN]
\* The operations of the client, the errors and the requests it keeps.
Methods == {"tx", "batch", "cred", "account", "submit", "params"}
Errs == [b : Backends, status : Nat]
CallType == [pc : {"idle", "start", "init", "lazy", "asked", "failing", "settling", "join"},
             m : Methods, at : Backends \cup Calls \cup {NoBackend}, todo : Seq(Backends),
             errs : SUBSET Errs,
             res : {"none", "ok", "no", "unknown", "failed", "already", "rejected"}]

\* A request asks a backend or initialises it first.
AtBackend == {"lazy", "asked"}

\* The type invariant.
TypeOK ==
  /\ up \in [Backends -> BOOLEAN] /\ uninit \in SUBSET Backends /\ initialized \in BOOLEAN
  /\ init \in [todo : Seq(Backends), tries : Nat, failed : SUBSET Backends]
  /\ circ \in [Backends -> EntryType] /\ call \in [Calls -> CallType]
  /\ pend \in [{"tx", "cred", "params"} -> Calls \cup {NoCall}]
  /\ mempool \in BOOLEAN /\ late \in BOOLEAN /\ fresh \in BOOLEAN
  /\ account \in {"absent", "registered", "delegated"} /\ valid \in BOOLEAN
  /\ missed \in [Backends -> Nat] /\ verdicts \in [Backends -> Nat]

\* A request at a backend names one; only coalesced requests join others; the
\* client is initialised at most once.
Shaped ==
  /\ \A c \in Calls : /\ call[c].pc \in AtBackend => call[c].at \in Backends
                      /\ call[c].pc = "join" => Coalesced(call[c].m)
  /\ init.todo # <<>> => ~initialized

Typed == TypeOK /\ Shaped

\* What a request knows and says is true; taken says whether the ledger took
\* the transaction.
TruthOf(r, taken) ==
  /\ \A e \in r.errs : r.m = "account" /\ e.b # Live /\ e.status = 404 => account = "absent"
  /\ r.pc = "idle" =>
       /\ r.m = "account" /\ r.res = "no" => account = "absent"
       /\ r.m = "submit" /\ r.res = "rejected" => ~valid
       /\ r.m = "submit" /\ r.res \in {"ok", "already"} => taken

\* The ledger takes valid transactions only, and every request is truthful.
Truths ==
  /\ mempool \/ late => valid
  /\ \A c \in Calls : TruthOf(call[c], mempool)

\* A circuit is closed only while it counts every fault that was missed, and
\* fewer than the threshold.
Counted ==
  \A b \in Backends : circ[b].state = "closed" =>
    missed[b] <= circ[b].failures /\ circ[b].failures < FailureThreshold

\* Probe slots are held by requests in flight or were lost to client errors.
Probed ==
  \A b \in Backends : circ[b].state = "half-open" =>
    /\ circ[b].probes <= SuccessThreshold
    /\ circ[b].probes <= Cardinality(InFlight(b)) + verdicts[b]

\* The request still has b ahead of it, has b's verdict, or one of both or
\* waits for b.
InTodo(r, b) == \E k \in DOMAIN r.todo : r.todo[k] = b
GaveVerdict(r, b) == \E e \in r.errs : e.b = b /\ IsClientError(e.status)

Reaches(r, b) ==
  \/ GaveVerdict(r, b)
  \/ r.pc \in {"init", "lazy", "asked"} /\ InTodo(r, b)
  \/ r.pc \in AtBackend /\ r.at = b

\* What is usable throughout a request is usable now, and the request reaches it.
Searched ==
  \A c \in Calls :
    /\ good[c] \subseteq {b \in Backends : Usable(b, call[c].m)}
    /\ Routed(call[c].m) /\ call[c].pc \in {"init", "lazy", "asked", "failing"}
         => \A b \in good[c] : Reaches(call[c], b)

-----------------------------------------------------------------------------
(* Operators *)

\* A nonempty set of natural numbers has a least element: < is well founded.
LEMMA LeastNatural ==
  ASSUME NEW T, T \subseteq Nat, T # {}
  PROVE  Min(T) \in T /\ \A y \in T : Min(T) <= y
<1> DEFINE R == OpToRel(<, Nat)
<1>1. IsWellFoundedOn(R, Nat)
  BY NatLessThanWellFounded
<1>2. \A x, y \in Nat : x < y => <<x, y>> \in R
  BY DEF OpToRel
<1> HIDE DEF R
<1>3. PICK x \in T : \A y \in T : ~ (<<y, x>> \in R)
  BY <1>1, WFMin
<1>4. \A y \in T : ~(y < x)
  BY <1>2, <1>3
<1>5. \A y \in T : x <= y
  BY <1>4
<1> QED
  BY <1>5 DEF Min

\* The lesser of two counts.
LEMMA MinPair ==
  ASSUME NEW x \in Nat, NEW y \in Nat
  PROVE  Min({x, y}) \in {x, y} /\ Min({x, y}) <= x /\ Min({x, y}) <= y
  BY LeastNatural

\* Every backend is in the list of a routed request.
LEMMA OrderFacts ==
  ASSUME NEW m \in Methods
  PROVE  /\ Order(m) \in Seq(Backends)
         /\ Routed(m) => \A b \in Backends : \E k \in DOMAIN Order(m) : Order(m)[k] = b
<1>1. Historical \in Seq(Backends) /\ Live \in Backends /\ CredBackend \in Backends
  BY ClientAssumption, SeqMonotonic DEF Backends
<1>2. Len(Historical) \in Nat /\ DOMAIN Historical = 1 .. Len(Historical)
  BY <1>1, LenProperties
<1>3. ASSUME NEW b \in Backends
      PROVE  b = Live \/ \E k \in 1 .. Len(Historical) : Historical[k] = b
  BY <1>2 DEF Backends, Providers
<1>4. CASE m = "cred"
  BY <1>1, <1>4 DEF Order, Routed
<1>5. CASE m # "cred" /\ PreferLive(m)
  <2> DEFINE o == <<Live>> \o Historical
  <2>1. Order(m) = o
    BY <1>5 DEF Order
  <2>2. <<Live>> \in Seq(Backends) /\ Len(<<Live>>) = 1 /\ <<Live>>[1] = Live
    BY <1>1
  <2>3. /\ o \in Seq(Backends) /\ Len(o) = 1 + Len(Historical)
        /\ \A i \in 1 .. 1 + Len(Historical) : o[i] = IF i <= 1 THEN <<Live>>[i] ELSE Historical[i - 1]
    BY <1>1, <2>2, ConcatProperties
  <2> HIDE DEF o
  <2>4. DOMAIN o = 1 .. 1 + Len(Historical)
    BY <2>3, LenProperties
  <2>5. o[1] = Live /\ \A k \in 1 .. Len(Historical) : k + 1 \in DOMAIN o /\ o[k + 1] = Historical[k]
    BY <1>2, <2>2, <2>3, <2>4
  <2>6. \A b \in Backends : \E k \in DOMAIN o : o[k] = b
    BY <1>2, <1>3, <2>4, <2>5
  <2> QED
    BY <2>1, <2>3, <2>6
<1>6. CASE m # "cred" /\ ~PreferLive(m)
  <2> DEFINE o == Append(Historical, Live)
  <2>1. Order(m) = o
    BY <1>6 DEF Order
  <2>2. /\ o \in Seq(Backends) /\ Len(o) = Len(Historical) + 1
        /\ \A i \in 1 .. Len(Historical) : o[i] = Historical[i]
        /\ o[Len(Historical) + 1] = Live
    BY <1>1, AppendProperties
  <2> HIDE DEF o
  <2>3. DOMAIN o = 1 .. Len(Historical) + 1
    BY <2>2, LenProperties
  <2>4. \A b \in Backends : \E k \in DOMAIN o : o[k] = b
    BY <1>2, <1>3, <2>2, <2>3
  <2> QED
    BY <2>1, <2>2, <2>4
<1> QED
  BY <1>4, <1>5, <1>6

\* A breaker entry after an admitted call, a success and a failure.
LEMMA EntryFacts ==
  ASSUME NEW e \in EntryType
  PROVE  /\ NewEntry \in EntryType
         /\ Attempted(e) \in EntryType
         /\ e.state = "closed" <=> Attempted(e).state = "closed"
         /\ e.state = "closed" => Attempted(e) = e
         /\ e.state = "open" => Attempted(e).state = "half-open" /\ Attempted(e).probes = 1
         /\ e.state = "half-open" => Attempted(e).state = "half-open"
                                     /\ Attempted(e).probes = e.probes + 1
         /\ RecordFailure(e) \in EntryType /\ RecordFailure(e).state # "half-open"
         /\ RecordFailure(e).state = "closed" =>
              /\ e.state = "closed"
              /\ e.failures < FailureThreshold =>
                   /\ RecordFailure(e).failures = e.failures + 1
                   /\ RecordFailure(e).failures < FailureThreshold
         /\ RecordSuccess(e) \in EntryType
         /\ RecordSuccess(e).state = "closed" => RecordSuccess(e).failures = 0
         /\ RecordSuccess(e).state = "half-open" =>
              /\ e.state = "half-open"
              /\ RecordSuccess(e).probes = IF e.probes = 0 THEN 0 ELSE e.probes - 1
<1> USE ClientAssumption DEF EntryType
<1>1. NewEntry \in EntryType
  BY DEF NewEntry
<1>2. PICK f \in Nat, u \in Nat, p \in Nat :
        /\ f = (IF e.failures < FailureThreshold THEN e.failures + 1 ELSE FailureThreshold)
        /\ u = e.successes + 1 /\ p = e.probes + 1
  OBVIOUS
<1>3. PICK q \in Nat : q = IF e.probes = 0 THEN 0 ELSE e.probes - 1
  OBVIOUS
<1>4. CASE e.state = "closed"
  <2>1. Attempted(e) = e
    BY <1>4 DEF Attempted
  <2>2. RecordSuccess(e) = [e EXCEPT !.failures = 0]
    BY <1>4 DEF RecordSuccess
  <2>3. RecordFailure(e) = [e EXCEPT !.state = IF f >= FailureThreshold THEN "open" ELSE @,
                                     !.failures = f, !.aged = FALSE]
    BY <1>2, <1>4 DEF RecordFailure
  <2>4. PICK st \in {"closed", "open", "half-open"} : st = IF f >= FailureThreshold THEN "open" ELSE e.state
    OBVIOUS
  <2>5. RecordFailure(e) = [e EXCEPT !.state = st, !.failures = f, !.aged = FALSE]
    BY <2>3, <2>4
  <2>6. RecordFailure(e) \in EntryType
    BY <2>5
  <2>7. RecordFailure(e).state = st /\ RecordFailure(e).failures = f
    BY <2>5
  <2>8. RecordSuccess(e) \in EntryType
    BY <2>2, SMTT(60)
  <2>9. RecordSuccess(e).failures = 0 /\ RecordSuccess(e).state = "closed"
    BY <1>4, <2>2
  <2> HIDE DEF EntryType
  <2> QED
    BY <1>1, <1>2, <1>4, <2>1, <2>4, <2>6, <2>7, <2>8, <2>9
<1>5. CASE e.state = "open"
  <2>1. Attempted(e) = [e EXCEPT !.state = "half-open", !.successes = 0, !.probes = 1]
    BY <1>5 DEF Attempted
  <2>2. RecordSuccess(e) = e
    BY <1>5 DEF RecordSuccess
  <2>3. RecordFailure(e) = [e EXCEPT !.failures = f, !.aged = FALSE]
    BY <1>2, <1>5 DEF RecordFailure
  <2>4. Attempted(e) \in EntryType
    <3>1. PICK st \in {"closed", "open", "half-open"} : st = "half-open"
      OBVIOUS
    <3>2. Attempted(e) = [e EXCEPT !.state = st, !.successes = 0, !.probes = 1]
      BY <2>1, <3>1
    <3>3. PICK one \in Nat, zero \in Nat : one = 1 /\ zero = 0
      OBVIOUS
    <3>4. [e EXCEPT !.state = st, !.successes = zero, !.probes = one] \in EntryType
      OBVIOUS
    <3> QED
      BY <3>2, <3>3, <3>4
  <2>5. Attempted(e).state = "half-open" /\ Attempted(e).probes = 1
    BY <2>1
  <2>6. RecordFailure(e) \in EntryType
    BY <2>3
  <2>7. RecordFailure(e).state = "open"
    BY <1>5, <2>3
  <2> HIDE DEF EntryType
  <2> QED
    BY <1>1, <1>5, <2>2, <2>4, <2>5, <2>6, <2>7
<1>6. CASE e.state = "half-open"
  <2>1. Attempted(e) = [e EXCEPT !.probes = p]
    BY <1>2, <1>6 DEF Attempted
  <2>2. RecordSuccess(e) = IF u >= SuccessThreshold THEN [NewEntry EXCEPT !.aged = e.aged]
                           ELSE [e EXCEPT !.successes = u, !.probes = q]
    BY <1>2, <1>3, <1>6 DEF RecordSuccess
  <2>3. RecordFailure(e) = [e EXCEPT !.state = "open", !.failures = f, !.successes = 0,
                                     !.probes = 0, !.aged = FALSE]
    BY <1>2, <1>6 DEF RecordFailure
  <2>4. RecordSuccess(e) \in EntryType
        /\ (RecordSuccess(e).state = "closed" => RecordSuccess(e).failures = 0)
        /\ (RecordSuccess(e).state = "half-open" => RecordSuccess(e).probes = q)
    BY <1>1, <1>6, <2>2, ZenonT(80) DEF NewEntry
  <2>5. Attempted(e) \in EntryType /\ Attempted(e).state = "half-open"
        /\ Attempted(e).probes = e.probes + 1
    BY <1>2, <1>6, <2>1
  <2>6. RecordFailure(e) \in EntryType
    <3>1. PICK st \in {"closed", "open", "half-open"} : st = "open"
      OBVIOUS
    <3>2. RecordFailure(e) = [e EXCEPT !.state = st, !.failures = f, !.successes = 0,
                                       !.probes = 0, !.aged = FALSE]
      BY <2>3, <3>1
    <3>3. PICK zero \in Nat, no \in BOOLEAN : zero = 0 /\ no = FALSE
      OBVIOUS
    <3>4. [e EXCEPT !.state = st, !.failures = f, !.successes = zero,
                    !.probes = zero, !.aged = no] \in EntryType
      OBVIOUS
    <3> QED
      BY <3>2, <3>3, <3>4
  <2>7. RecordFailure(e).state = "open"
    BY <2>3
  <2> HIDE DEF EntryType
  <2> QED
    BY <1>1, <1>3, <1>6, <2>4, <2>5, <2>6, <2>7
<1> QED
  BY <1>4, <1>5, <1>6

\* What follows place k of a list is in the rest of the list.
LEMMA Suffix ==
  ASSUME NEW S, NEW s \in Seq(S), NEW k \in 1 .. Len(s)
  PROVE  /\ SubSeq(s, k + 1, Len(s)) \in Seq(S)
         /\ \A i \in DOMAIN s : i > k => \E j \in DOMAIN SubSeq(s, k + 1, Len(s)) :
                                          SubSeq(s, k + 1, Len(s))[j] = s[i]
<1>1. Len(s) \in Nat /\ DOMAIN s = 1 .. Len(s) /\ \A i \in DOMAIN s : s[i] \in S
  BY LenProperties, ElementOfSeq
<1>a. k + 1 \in Int /\ Len(s) \in Int
  BY <1>1
<1>2. PICK m \in Int, n \in Int : m = k + 1 /\ n = Len(s)
  BY <1>a
<1>3. \A i \in m .. n : s[i] \in S
  BY <1>1, <1>2
<1> DEFINE t == SubSeq(s, m, n)
<1>4. /\ t \in Seq(S) /\ Len(t) = IF m <= n THEN n - m + 1 ELSE 0
      /\ \A i \in 1 .. n - m + 1 : t[i] = s[m + i - 1]
  BY <1>3, SubSeqProperties
<1> HIDE DEF t
<1>5. DOMAIN t = 1 .. Len(t)
  BY <1>4, LenProperties
<1>6. ASSUME NEW i \in DOMAIN s, i > k
      PROVE  i - k \in DOMAIN t /\ t[i - k] = s[i]
  <2>1. i - k \in 1 .. n - m + 1 /\ m <= n /\ m + (i - k) - 1 = i
    BY <1>1, <1>2, <1>6
  <2>2. t[i - k] = s[m + (i - k) - 1]
    BY <1>4, <2>1
  <2>3. Len(t) = n - m + 1
    BY <1>4, <2>1
  <2> QED
    BY <1>5, <2>1, <2>2, <2>3
<1>7. \A i \in DOMAIN s : i > k => \E j \in DOMAIN t : t[j] = s[i]
  BY <1>6
<1> QED
  BY <1>2, <1>4, <1>7 DEF t

\* What Walk makes of a request and the breakers.
WalkedTo(r, ci, s, cj) ==
  /\ s \in CallType /\ s.errs = r.errs /\ cj \in [Backends -> EntryType]
  /\ \/ /\ cj = ci /\ s.m = IF r.m = "batch" THEN "tx" ELSE r.m
        /\ s.pc = IF r.m = "batch" THEN "start" ELSE "failing"
        /\ \A k \in DOMAIN r.todo : ~(Supports(r.todo[k], r.m) /\ ShouldAttempt(ci[r.todo[k]]))
     \/ \E k \in DOMAIN r.todo :
          /\ s.m = r.m /\ s.pc \in AtBackend /\ s.at = r.todo[k] /\ s.at \in Backends
          /\ ShouldAttempt(ci[s.at]) /\ cj = [ci EXCEPT ![s.at] = Attempted(@)]
          /\ s.todo \in Seq(Backends)
          /\ \A i \in DOMAIN r.todo : i > k => InTodo(s, r.todo[i])
          /\ \A i \in DOMAIN r.todo : i < k => ~(Supports(r.todo[i], r.m) /\ ShouldAttempt(ci[r.todo[i]]))

\* Walk, as the relation WalkedTo.
LEMMA WalkFacts ==
  ASSUME NEW r \in CallType, NEW ci \in [Backends -> EntryType], uninit \in SUBSET Backends
  PROVE  WalkedTo(r, ci, Walk(r, ci).r, Walk(r, ci).circ)
<1> DEFINE open == {k \in DOMAIN r.todo : Supports(r.todo[k], r.m) /\ ShouldAttempt(ci[r.todo[k]])}
<1>1. r.todo \in Seq(Backends) /\ r.m \in Methods
  BY DEF CallType
<1>2. Len(r.todo) \in Nat /\ DOMAIN r.todo = 1 .. Len(r.todo) /\ \A k \in DOMAIN r.todo : r.todo[k] \in Backends
  BY <1>1, LenProperties, ElementOfSeq
<1>3. CASE open = {}
  <2>1. <<>> \in Seq(Backends) /\ NoBackend \in Backends \cup Calls \cup {NoBackend}
    OBVIOUS
  <2> DEFINE s == [r EXCEPT !.pc = IF r.m = "batch" THEN "start" ELSE "failing",
                            !.m = IF @ = "batch" THEN "tx" ELSE @,
                            !.todo = <<>>, !.at = NoBackend]
  <2>2. Walk(r, ci) = [r |-> s, circ |-> ci]
    BY <1>3 DEF Walk
  <2>3. /\ s \in CallType /\ s.errs = r.errs /\ s.m = IF r.m = "batch" THEN "tx" ELSE r.m
        /\ s.pc = IF r.m = "batch" THEN "start" ELSE "failing"
    BY <1>1, <2>1, ZenonT(80) DEF CallType, Methods
  <2> HIDE DEF s
  <2>4. Walk(r, ci).r = s /\ Walk(r, ci).circ = ci
    BY <2>2
  <2> QED
    BY <1>3, <2>3, <2>4 DEF WalkedTo
<1>4. CASE open # {}
  <2> DEFINE k == Min(open)
             b == r.todo[k]
             s == [r EXCEPT !.pc = IF b \in uninit THEN "lazy" ELSE "asked",
                            !.at = b, !.todo = SubSeq(r.todo, k + 1, Len(r.todo))]
             cj == [ci EXCEPT ![b] = Attempted(@)]
  <2>1. Walk(r, ci) = [r |-> s, circ |-> cj]
    BY <1>4 DEF Walk
  <2>a. open \subseteq Nat
    BY <1>2
  <2>2. k \in open /\ \A j \in open : k <= j
    <3> HIDE DEF open
    <3> QED
      BY <2>a, <1>4, LeastNatural
  <2>3. k \in 1 .. Len(r.todo) /\ b \in Backends /\ ShouldAttempt(ci[b])
    BY <1>2, <2>2
  <2>4. \A i \in DOMAIN r.todo : i < k => i \notin open
    <3> HIDE DEF open, k
    <3> QED
      BY <1>2, <2>2, <2>3
  <2> HIDE DEF k
  <2>5. /\ SubSeq(r.todo, k + 1, Len(r.todo)) \in Seq(Backends)
        /\ \A i \in DOMAIN r.todo : i > k =>
              \E j \in DOMAIN SubSeq(r.todo, k + 1, Len(r.todo)) :
                 SubSeq(r.todo, k + 1, Len(r.todo))[j] = r.todo[i]
    BY <1>1, <2>3, Suffix
  <2> HIDE DEF b
  <2>6. s \in CallType /\ s.errs = r.errs /\ s.m = r.m /\ s.pc \in AtBackend /\ s.at = b
        /\ s.todo = SubSeq(r.todo, k + 1, Len(r.todo))
    BY <2>3, <2>5 DEF CallType, AtBackend
  <2> HIDE DEF s
  <2>7. cj \in [Backends -> EntryType]
    BY <2>3, EntryFacts
  <2>8. ASSUME NEW i \in DOMAIN r.todo, i > k
        PROVE  InTodo(s, r.todo[i])
    BY <2>5, <2>6, <2>8 DEF InTodo
  <2>9. Walk(r, ci).r = s /\ Walk(r, ci).circ = cj
    BY <2>1
  <2> HIDE DEF open, cj
  <2>10. cj = [ci EXCEPT ![s.at] = Attempted(@)] /\ s.at = r.todo[k] /\ ShouldAttempt(ci[s.at])
         /\ s.at \in Backends /\ k \in DOMAIN r.todo
    BY <1>2, <2>3, <2>6 DEF b, cj
  <2>11. \A i \in DOMAIN r.todo : i < k => ~(Supports(r.todo[i], r.m) /\ ShouldAttempt(ci[r.todo[i]]))
    BY <2>4 DEF open
  <2> QED
    BY <2>5, <2>6, <2>7, <2>8, <2>9, <2>10, <2>11 DEF WalkedTo
<1> QED
  BY <1>3, <1>4

-----------------------------------------------------------------------------
(* Types *)

\* What Walks makes of the request and of the breakers.
LEMMA WalksFacts ==
  ASSUME Typed, NEW c \in Calls, NEW r \in CallType, NEW ci \in [Backends -> EntryType],
         Walks(c, r, ci)
  PROVE  /\ call' = [call EXCEPT ![c] = call'[c]] /\ WalkedTo(r, ci, call'[c], circ')
         /\ call' \in [Calls -> CallType] /\ circ' \in [Backends -> EntryType]
<1>1. call \in [Calls -> CallType] /\ uninit \in SUBSET Backends
  BY DEF Typed, TypeOK
<1>2. WalkedTo(r, ci, Walk(r, ci).r, Walk(r, ci).circ)
  BY <1>1, WalkFacts
<1>3. call' = [call EXCEPT ![c] = Walk(r, ci).r] /\ circ' = Walk(r, ci).circ
  BY DEF Walks
<1>4. Walk(r, ci).r \in CallType /\ circ' \in [Backends -> EntryType]
  BY <1>2, <1>3 DEF WalkedTo
<1> QED
  BY <1>1, <1>2, <1>3, <1>4

\* A request that waits at a backend after a walk names it, and no walk joins.
LEMMA WalkedShape ==
  ASSUME NEW r, NEW ci, NEW s, NEW cj, WalkedTo(r, ci, s, cj)
  PROVE  (s.pc \in AtBackend => s.at \in Backends) /\ s.pc # "join"
  BY DEF WalkedTo, AtBackend

\* A request that has not begun.
LEMMA IdleFacts ==
  Idle \in CallType /\ Idle.pc = "idle" /\ Idle.m = "tx" /\ Idle.errs = {} /\ Idle.res = "none"
<1>1. <<>> \in Seq(Backends) /\ {} \in SUBSET Errs
  OBVIOUS
<1>2. Idle \in CallType
  BY <1>1 DEF Idle, CallType, Methods
<1> QED
  BY <1>2 DEF Idle

\* Ended requests are idle.
LEMMA EndedFacts ==
  ASSUME NEW r \in CallType, NEW res \in {"none", "ok", "no", "unknown", "failed", "already", "rejected"}
  PROVE  /\ Idle \in CallType /\ Ended(r, res) \in CallType
         /\ Idle.pc = "idle" /\ Idle.m = "tx" /\ Idle.errs = {} /\ Idle.res = "none"
         /\ Ended(r, res).pc = "idle" /\ Ended(r, res).errs = {}
         /\ Ended(r, res).m = "account" => r.m = "account" /\ Ended(r, res).res = res
         /\ Ended(r, res).m = "submit" => r.m = "submit" /\ Ended(r, res).res = res
<1>2. /\ Idle \in CallType /\ Idle.pc = "idle" /\ Idle.m = "tx" /\ Idle.errs = {} /\ Idle.res = "none"
  BY IdleFacts
<1>3. r.m \in Methods
  BY DEF CallType
<1>4. [Idle EXCEPT !.m = r.m, !.res = res] \in CallType
  BY <1>2, <1>3 DEF CallType
<1>5. /\ [Idle EXCEPT !.m = r.m, !.res = res].pc = "idle" /\ [Idle EXCEPT !.m = r.m, !.res = res].errs = {}
      /\ [Idle EXCEPT !.m = r.m, !.res = res].m = r.m /\ [Idle EXCEPT !.m = r.m, !.res = res].res = res
  BY DEF Idle
<1> QED
  BY <1>2, <1>4, <1>5 DEF Ended

\* The errors a backend throws: those of a healthy one are its verdict, those
\* of one that is down never are, and a provider that answers 404 about the
\* account knows that it is absent.
LEMMA ErrorFacts ==
  ASSUME NEW b, NEW m \in Methods, NEW e \in Errors(b, m), up[b] \in BOOLEAN, mempool \in BOOLEAN,
         valid \in BOOLEAN
  PROVE  /\ Normalize(e) \in Nat /\ (up[b] <=> IsClientError(Normalize(e)))
         /\ m = "account" /\ b # Live /\ Normalize(e) = 404 => account = "absent"
         /\ m = "submit" /\ up[b] => IF mempool THEN Normalize(e) = 409
                                                ELSE ~valid /\ Normalize(e) = 400
<1> USE DEF Methods, IsClientError
<1>1. CASE ~up[b]
  <2>1. e \in {Timeout, Http("none", 500), Raw("http", "notfound", TRUE, 400)}
    BY <1>1 DEF Errors
  <2>2. Normalize(e) = 503
    BY <2>1 DEF Normalize, Timeout, Http, Raw
  <2> QED
    BY <1>1, <2>2
<1>2. CASE up[b] /\ m \in {"tx", "batch", "cred"}
  <2>1. e \in {Http("none", 404), Http("rate", 503)}
    BY <1>2 DEF Errors
  <2>2. Normalize(e) \in {404, 429}
    BY <2>1 DEF Normalize, Http, Raw
  <2> QED
    BY <1>2, <2>2
<1>3. CASE up[b] /\ m = "account"
  <2>1. \/ e = Http("notfound", 500) /\ (account = "absent" \/ b = Live)
        \/ e = Http("none", 429)
    BY <1>3 DEF Errors
  <2>2. \/ Normalize(e) = 404 /\ (account = "absent" \/ b = Live)
        \/ Normalize(e) = 429
    BY <2>1 DEF Normalize, Http, Raw
  <2> QED
    BY <1>3, <2>2
<1>4. CASE up[b] /\ m = "submit"
  <2>1. IF mempool THEN e = Http("duplicate", 400) ELSE ~valid /\ e = Http("validation", 400)
    BY <1>4 DEF Errors
  <2>2. IF mempool THEN Normalize(e) = 409 ELSE ~valid /\ Normalize(e) = 400
    BY <2>1 DEF Normalize, Http, Raw
  <2> QED
    BY <1>4, <2>2
<1>5. CASE up[b] /\ m = "params"
  BY <1>5 DEF Errors
<1> QED
  BY <1>1, <1>2, <1>3, <1>4, <1>5

\* The history of client errors stays a count.
LEMMA VerdictsType ==
  ASSUME NEW old, NEW ci, NEW v \in [Backends -> Nat]
  PROVE  VerdictsAfter(old, ci, v) \in [Backends -> Nat]
  BY DEF VerdictsAfter

\* A count with one more, up to a cap.
LEMMA CappedType ==
  ASSUME NEW f \in [Backends -> Nat], NEW b \in Backends, NEW cap \in Nat
  PROVE  [f EXCEPT ![b] = Min({@ + 1, cap})] \in [Backends -> Nat]
<1>1. f[b] + 1 \in Nat
  OBVIOUS
<1>2. Min({f[b] + 1, cap}) \in Nat
  BY <1>1, MinPair
<1> QED
  BY <1>2

\* A coalescer that drops a key.
LEMMA DroppedType ==
  ASSUME Typed, NEW m \in Methods
  PROVE  Dropped(m) \in [{"tx", "cred", "params"} -> Calls \cup {NoCall}]
<1>1. pend \in [{"tx", "cred", "params"} -> Calls \cup {NoCall}]
  BY DEF Typed, TypeOK
<1>2. [pend EXCEPT ![m] = NoCall] \in [{"tx", "cred", "params"} -> Calls \cup {NoCall}]
  BY <1>1
<1> QED
  BY <1>1, <1>2 DEF Dropped

\* The end of a request keeps the types, and touches no request at a backend
\* but its own.
LEMMA EndsFacts ==
  ASSUME Typed, NEW c \in Calls,
         NEW res \in {"none", "ok", "no", "unknown", "failed", "already", "rejected"}, Ends(c, res)
  PROVE  /\ call' \in [Calls -> CallType]
         /\ \A d \in Calls : IF d = c \/ (call[d].pc = "join" /\ call[d].at = c)
                             THEN call'[d] = Ended(call[d], res) /\ call'[d].pc = "idle"
                             ELSE call'[d] = call[d]
<1>1. call \in [Calls -> CallType]
  BY DEF Typed, TypeOK
<1>2. \A d \in Calls : Ended(call[d], res) \in CallType /\ Ended(call[d], res).pc = "idle"
  BY <1>1, EndedFacts
<1> QED
  BY <1>1, <1>2 DEF Ends

\* The initialisation of one backend is decided.
LEMMA InitDecidedFacts ==
  ASSUME Typed, NEW f \in SUBSET Backends, init.todo # <<>>, InitDecided(f)
  PROVE  /\ init' \in [todo : Seq(Backends), tries : Nat, failed : SUBSET Backends]
         /\ initialized' \in BOOLEAN /\ call' \in [Calls -> CallType]
         /\ init'.todo # <<>> => ~initialized'
         /\ \A c \in Calls : \/ call'[c] = call[c]
                             \/ /\ call[c].pc = "init" /\ call'[c] = [call[c] EXCEPT !.pc = "failing"]
                                /\ ~initialized'
<1> DEFINE rest == Tail(init.todo)
           dead == rest = <<>> /\ f = Backends
<1>1. /\ init' = IF rest = <<>> THEN NoInit ELSE [todo |-> rest, tries |-> 0, failed |-> f]
      /\ initialized' = (initialized \/ (rest = <<>> /\ ~dead))
      /\ call' = [c \in Calls |-> IF dead /\ call[c].pc = "init"
                                  THEN [call[c] EXCEPT !.pc = "failing"] ELSE call[c]]
  BY DEF InitDecided
<1>2. init.todo \in Seq(Backends) /\ call \in [Calls -> CallType] /\ ~initialized
  BY DEF Typed, TypeOK, Shaped
<1>3. rest \in Seq(Backends)
  BY <1>2, HeadTailProperties
<1>4. <<>> \in Seq(Backends)
  OBVIOUS
<1> HIDE DEF rest
<1>5. NoInit \in [todo : Seq(Backends), tries : Nat, failed : SUBSET Backends] /\ NoInit.todo = <<>>
  BY <1>4 DEF NoInit
<1>6. init' \in [todo : Seq(Backends), tries : Nat, failed : SUBSET Backends]
  BY <1>1, <1>3, <1>5
<1>7. \A c \in Calls : [call[c] EXCEPT !.pc = "failing"] \in CallType
  BY <1>2, SMTT(60) DEF CallType
<1>8. call' \in [Calls -> CallType]
  BY <1>1, <1>2, <1>7
<1>9. initialized' \in BOOLEAN
  BY <1>1
<1>10. init'.todo # <<>> => ~initialized'
  BY <1>1, <1>2, <1>5
<1>11. \A c \in Calls : \/ call'[c] = call[c]
                       \/ /\ call[c].pc = "init" /\ call'[c] = [call[c] EXCEPT !.pc = "failing"]
                          /\ ~initialized'
  BY <1>1, <1>2
<1> QED
  BY <1>6, <1>8, <1>9, <1>10, <1>11

\* The head of the list of an initialisation is a backend.
LEMMA InitHead ==
  ASSUME Typed, init.todo # <<>>
  PROVE  Head(init.todo) \in Backends
  BY HeadTailProperties DEF Typed, TypeOK

\* A request with its list of backends.
LEMMA OrderedType ==
  ASSUME Typed, NEW c \in Calls
  PROVE  [call[c] EXCEPT !.todo = Order(call[c].m)] \in CallType
<1>1. call[c] \in CallType
  BY DEF Typed, TypeOK
<1>2. call[c].m \in Methods
  BY <1>1 DEF CallType
<1>3. Order(call[c].m) \in Seq(Backends)
  BY <1>2, OrderFacts
<1> QED
  BY <1>1, <1>3 DEF CallType

\* A handler that walks: the request and the breakers it walks with, and the
\* count of client errors it leaves.
Walked(c, r, ci, v) ==
  /\ r \in CallType /\ ci \in [Backends -> EntryType] /\ v \in [Backends -> Nat]
  /\ call' = [call EXCEPT ![c] = call'[c]] /\ WalkedTo(r, ci, call'[c], circ')
  /\ call' \in [Calls -> CallType] /\ circ' \in [Backends -> EntryType]
  /\ verdicts' = VerdictsAfter(circ, circ', v) /\ verdicts' \in [Backends -> Nat]
  /\ (call'[c].pc \in AtBackend => call'[c].at \in Backends) /\ call'[c].pc # "join"

\* Walks, as the relation Walked.
LEMMA WalkedFacts ==
  ASSUME Typed, NEW c \in Calls, NEW r \in CallType, NEW ci \in [Backends -> EntryType],
         NEW v \in [Backends -> Nat], Walks(c, r, ci), verdicts' = VerdictsAfter(circ, circ', v)
  PROVE  Walked(c, r, ci, v)
<1>1. /\ call' = [call EXCEPT ![c] = call'[c]] /\ WalkedTo(r, ci, call'[c], circ')
      /\ call' \in [Calls -> CallType] /\ circ' \in [Backends -> EntryType]
  BY WalksFacts
<1>2. verdicts' \in [Backends -> Nat]
  BY VerdictsType
<1>3. (call'[c].pc \in AtBackend => call'[c].at \in Backends) /\ call'[c].pc # "join"
  BY <1>1, WalkedShape
<1> QED
  BY <1>1, <1>2, <1>3 DEF Walked

\* Start answers at once, joins, waits for the initialisation or walks.
LEMMA StartFacts ==
  ASSUME Typed, NEW c \in Calls, Start(c)
  PROVE  LET r == [call[c] EXCEPT !.todo = Order(call[c].m)]
         IN /\ r \in CallType /\ call[c].pc = "start" /\ UNCHANGED missed
            /\ pend' \in [{"tx", "cred", "params"} -> Calls \cup {NoCall}]
            /\ \/ call' = [call EXCEPT ![c] = Idle] /\ UNCHANGED <<circ, verdicts, init>>
               \/ /\ call' = [call EXCEPT ![c].pc = "join", ![c].at = pend[call[c].m]]
                  /\ Coalesced(call[c].m) /\ pend[call[c].m] \in Calls
                  /\ UNCHANGED <<circ, verdicts, init>>
               \/ /\ call' = [call EXCEPT ![c] = [r EXCEPT !.pc = "init"]]
                  /\ ~initialized /\ UNCHANGED <<circ, verdicts>>
                  /\ init' \in [todo : Seq(Backends), tries : Nat, failed : SUBSET Backends]
               \/ Walked(c, r, circ, verdicts) /\ UNCHANGED init
<1> DEFINE r == [call[c] EXCEPT !.todo = Order(call[c].m)]
           m == call[c].m
<1>1. r \in CallType /\ r.m = m
  BY OrderedType DEF Typed, TypeOK, CallType
<1> HIDE DEF r
<1>2. /\ pend \in [{"tx", "cred", "params"} -> Calls \cup {NoCall}] /\ circ \in [Backends -> EntryType]
      /\ verdicts \in [Backends -> Nat]
      /\ init \in [todo : Seq(Backends), tries : Nat, failed : SUBSET Backends]
  BY DEF Typed, TypeOK
<1>3. CASE m = "params" /\ fresh
  <2>1. call' = [call EXCEPT ![c] = Idle] /\ UNCHANGED <<circ, pend, init, verdicts, missed>> /\ call[c].pc = "start"
    BY <1>1, <1>3 DEF Start, r
  <2> QED
    BY <1>1, <1>2, <2>1 DEF r
<1>4. CASE ~(m = "params" /\ fresh) /\ Coalesced(m) /\ pend[m] # NoCall
  <2>1. /\ call' = [call EXCEPT ![c].pc = "join", ![c].at = pend[m]] /\ call[c].pc = "start"
        /\ UNCHANGED <<circ, pend, init, verdicts, missed>>
    BY <1>1, <1>4 DEF Start, r
  <2>2. pend[m] \in Calls
    BY <1>2, <1>4 DEF Coalesced
  <2> QED
    BY <1>1, <1>2, <1>4, <2>1, <2>2 DEF r
<1>5. CASE ~(m = "params" /\ fresh) /\ ~(Coalesced(m) /\ pend[m] # NoCall)
  <2>1. /\ pend' = IF Coalesced(m) THEN [pend EXCEPT ![m] = c] ELSE pend
        /\ call[c].pc = "start" /\ UNCHANGED missed
        /\ IF Routed(m) /\ ~initialized
           THEN /\ call' = [call EXCEPT ![c] = [r EXCEPT !.pc = "init"]]
                /\ init' = IF init.todo # <<>> THEN init
                           ELSE [NoInit EXCEPT !.todo = <<Live>> \o Historical]
                /\ UNCHANGED <<circ, verdicts>>
           ELSE /\ Walks(c, r, circ) /\ verdicts' = VerdictsAfter(circ, circ', verdicts)
                /\ UNCHANGED init
    BY <1>1, <1>5 DEF Start, r
  <2>2. pend' \in [{"tx", "cred", "params"} -> Calls \cup {NoCall}]
    BY <1>2, <2>1
  <2>3. CASE Routed(m) /\ ~initialized
    <3>1. "params" \in Methods /\ PreferLive("params") /\ Order("params") = <<Live>> \o Historical
      BY DEF Methods, PreferLive, Order
    <3>2. <<Live>> \o Historical \in Seq(Backends)
      BY <3>1, OrderFacts
    <3>3. init' = IF init.todo # <<>> THEN init ELSE [NoInit EXCEPT !.todo = <<Live>> \o Historical]
      BY <2>1, <2>3
    <3> DEFINE o == <<Live>> \o Historical
    <3> HIDE DEF o
    <3>a. <<>> \in Seq(Backends)
      OBVIOUS
    <3>4. NoInit \in [todo : Seq(Backends), tries : Nat, failed : SUBSET Backends]
      BY <3>a DEF NoInit
    <3>5. o \in Seq(Backends) => [NoInit EXCEPT !.todo = o] \in [todo : Seq(Backends), tries : Nat, failed : SUBSET Backends]
      BY <3>4
    <3>6. init' \in [todo : Seq(Backends), tries : Nat, failed : SUBSET Backends]
      BY <1>2, <3>2, <3>3, <3>5 DEF o
    <3> QED
      BY <1>1, <2>1, <2>2, <2>3, <3>6 DEF r
  <2>4. CASE ~(Routed(m) /\ ~initialized)
    <3>1. Walks(c, r, circ) /\ verdicts' = VerdictsAfter(circ, circ', verdicts) /\ UNCHANGED init
      BY <2>1, <2>4
    <3>2. Walked(c, r, circ, verdicts)
      BY <1>1, <1>2, <3>1, WalkedFacts
    <3> QED
      BY <1>1, <2>1, <2>2, <3>1, <3>2 DEF r
  <2> QED
    BY <2>3, <2>4
<1> QED
  BY <1>3, <1>4, <1>5

\* A request that waited for the initialisation walks.
LEMMA ResumeFacts ==
  ASSUME Typed, NEW c \in Calls, Resume(c)
  PROVE  /\ call[c].pc = "init" /\ call[c] \in CallType
         /\ Walked(c, call[c], circ, verdicts) /\ UNCHANGED <<missed, init>>
<1>1. call[c] \in CallType /\ circ \in [Backends -> EntryType] /\ verdicts \in [Backends -> Nat]
  BY DEF Typed, TypeOK
<1>2. /\ call[c].pc = "init" /\ Walks(c, call[c], circ)
      /\ verdicts' = VerdictsAfter(circ, circ', verdicts) /\ UNCHANGED <<missed, init>>
  BY DEF Resume
<1> QED
  BY <1>1, <1>2, WalkedFacts

\* A failed lazy initialisation is a fault of the backend; the walk goes on.
LEMMA LazyFailsFacts ==
  ASSUME Typed, NEW c \in Calls, LazyFails(c)
  PROVE  LET b == call[c].at
             ci == [circ EXCEPT ![b] = RecordFailure(@)]
             r == [call[c] EXCEPT !.errs = IF Routed(call[c].m)
                                           THEN @ \cup {[b |-> b, status |-> 500]} ELSE @]
         IN /\ call[c].pc = "lazy" /\ b \in Backends /\ ~up[b]
            /\ Walked(c, r, ci, verdicts)
            /\ missed' = [missed EXCEPT ![b] = Min({@ + 1, FailureThreshold})]
            /\ missed' \in [Backends -> Nat] /\ UNCHANGED <<init, up>>
<1> DEFINE b == call[c].at
           ci == [circ EXCEPT ![b] = RecordFailure(@)]
           er == IF Routed(call[c].m) THEN call[c].errs \cup {[b |-> b, status |-> 500]} ELSE call[c].errs
           r == [call[c] EXCEPT !.errs = er]
<1>1. call[c] \in CallType /\ circ \in [Backends -> EntryType] /\ verdicts \in [Backends -> Nat]
      /\ missed \in [Backends -> Nat]
  BY DEF Typed, TypeOK
<1>2. /\ call[c].pc = "lazy" /\ ~up[b] /\ Walks(c, r, ci)
      /\ verdicts' = VerdictsAfter(circ, circ', verdicts)
      /\ missed' = [missed EXCEPT ![b] = Min({@ + 1, FailureThreshold})] /\ UNCHANGED <<init, up>>
  BY DEF LazyFails
<1>3. b \in Backends
  BY <1>2 DEF Typed, Shaped, AtBackend
<1>4. [b |-> b, status |-> 500] \in Errs
  BY <1>3 DEF Errs
<1>5. er \in SUBSET Errs
  BY <1>1, <1>4 DEF CallType
<1> HIDE DEF er
<1>6. r \in CallType
  BY <1>1, <1>5 DEF CallType
<1>7. RecordFailure(circ[b]) \in EntryType
  BY <1>1, <1>3, EntryFacts
<1>8. ci \in [Backends -> EntryType]
  BY <1>1, <1>7
<1>9. Walked(c, r, ci, verdicts)
  <2> HIDE DEF r, ci
  <2> QED
    BY <1>1, <1>2, <1>6, <1>8, WalkedFacts
<1>10. missed' \in [Backends -> Nat]
  BY <1>1, <1>2, <1>3, CappedType, ClientAssumption
<1> QED
  BY <1>2, <1>3, <1>9, <1>10 DEF er

\* An error of a backend: a fault counts against its circuit, a verdict only
\* in the history.  A verdict on a submission ends it, everything else walks on.
LEMMA AnswerErrorFacts ==
  ASSUME Typed, NEW c \in Calls, AnswerError(c)
  PROVE  LET b == call[c].at
             m == call[c].m
         IN /\ call[c].pc = "asked" /\ b \in Backends /\ m \in Methods
            /\ missed' \in [Backends -> Nat] /\ UNCHANGED <<init, up, mempool>>
            /\ \E e \in Errors(b, m) :
                 LET status == Normalize(e)
                     ci == IF up[b] THEN circ ELSE [circ EXCEPT ![b] = RecordFailure(@)]
                     v == IF up[b] /\ circ[b].state = "half-open"
                          THEN [verdicts EXCEPT ![b] = Min({@ + 1, SuccessThreshold})] ELSE verdicts
                     r == [call[c] EXCEPT !.errs = IF m = "batch" THEN @
                                                   ELSE @ \cup {[b |-> b, status |-> status]}]
                 IN /\ \/ /\ m = "submit" /\ up[b] /\ Ends(c, Verdict(m, status)) /\ circ' = ci
                          /\ verdicts' = VerdictsAfter(circ, circ', v) /\ v \in [Backends -> Nat]
                          /\ verdicts' \in [Backends -> Nat]
                       \/ Walked(c, r, ci, v)
                    /\ missed' = IF up[b] THEN missed
                                 ELSE [missed EXCEPT ![b] = Min({@ + 1, FailureThreshold})]
                    /\ late' = (late \/ (m = "submit" /\ ~up[b] /\ valid))
<1> DEFINE b == call[c].at
           m == call[c].m
           ci == IF up[b] THEN circ ELSE [circ EXCEPT ![b] = RecordFailure(@)]
           v == IF up[b] /\ circ[b].state = "half-open"
                THEN [verdicts EXCEPT ![b] = Min({@ + 1, SuccessThreshold})] ELSE verdicts
           er(e) == IF m = "batch" THEN call[c].errs ELSE call[c].errs \cup {[b |-> b, status |-> Normalize(e)]}
           r(e) == [call[c] EXCEPT !.errs = er(e)]
<1>1. call[c] \in CallType /\ circ \in [Backends -> EntryType] /\ verdicts \in [Backends -> Nat]
      /\ missed \in [Backends -> Nat] /\ up \in [Backends -> BOOLEAN] /\ mempool \in BOOLEAN /\ valid \in BOOLEAN
  BY DEF Typed, TypeOK
<1>2. call[c].pc = "asked" /\ UNCHANGED <<init, up, mempool>>
  BY DEF AnswerError
<1>3. b \in Backends
  BY <1>2 DEF Typed, Shaped, AtBackend
<1>4. m \in Methods
  BY <1>1 DEF CallType
<1>5. PICK e \in Errors(b, m) :
          LET status == Normalize(e)
              client == IsClientError(status)
              cj == IF client THEN circ ELSE [circ EXCEPT ![b] = RecordFailure(@)]
          IN /\ IF client /\ FinalOnClientError(m)
                THEN Ends(c, Verdict(m, status)) /\ circ' = cj
                ELSE Walks(c, r(e), cj)
             /\ verdicts' =
                  LET w == IF client /\ circ[b].state = "half-open"
                           THEN [verdicts EXCEPT ![b] = Min({@ + 1, SuccessThreshold})]
                           ELSE verdicts
                  IN VerdictsAfter(circ, circ', w)
             /\ missed' = IF up[b] THEN missed
                          ELSE [missed EXCEPT ![b] = Min({@ + 1, FailureThreshold})]
             /\ late' = (late \/ (m = "submit" /\ ~client /\ valid))
  BY DEF AnswerError
<1>6. up[b] \in BOOLEAN /\ Normalize(e) \in Nat /\ (up[b] <=> IsClientError(Normalize(e)))
  BY <1>1, <1>3, <1>4, ErrorFacts
<1>7. /\ IF up[b] /\ m = "submit" THEN Ends(c, Verdict(m, Normalize(e))) /\ circ' = ci
         ELSE Walks(c, r(e), ci)
      /\ verdicts' = VerdictsAfter(circ, circ', v)
      /\ missed' = IF up[b] THEN missed
                   ELSE [missed EXCEPT ![b] = Min({@ + 1, FailureThreshold})]
      /\ late' = (late \/ (m = "submit" /\ ~up[b] /\ valid))
  <2> HIDE DEF r, b, m
  <2> QED
    BY <1>5, <1>6 DEF FinalOnClientError
<1>8. [b |-> b, status |-> Normalize(e)] \in Errs
  BY <1>3, <1>6 DEF Errs
<1>9. er(e) \in SUBSET Errs
  BY <1>1, <1>8 DEF CallType
<1> HIDE DEF er
<1>10. r(e) \in CallType
  BY <1>1, <1>9 DEF CallType
<1>11. RecordFailure(circ[b]) \in EntryType
  BY <1>1, <1>3, EntryFacts
<1>12. ci \in [Backends -> EntryType]
  BY <1>1, <1>11
<1>13. [verdicts EXCEPT ![b] = Min({@ + 1, SuccessThreshold})] \in [Backends -> Nat]
       /\ [missed EXCEPT ![b] = Min({@ + 1, FailureThreshold})] \in [Backends -> Nat]
  BY <1>1, <1>3, CappedType, ClientAssumption
<1>14. v \in [Backends -> Nat] /\ missed' \in [Backends -> Nat]
  BY <1>1, <1>7, <1>13
<1> HIDE DEF ci, v
<1>15. CASE up[b] /\ m = "submit"
  <2>1. verdicts' \in [Backends -> Nat]
    BY <1>7, <1>14, VerdictsType
  <2> QED
    BY <1>2, <1>3, <1>4, <1>7, <1>14, <1>15, <2>1 DEF ci, v
<1>16. CASE ~(up[b] /\ m = "submit")
  <2>1. Walked(c, r(e), ci, v)
    <3> HIDE DEF r
    <3> QED
      BY <1>7, <1>10, <1>12, <1>14, <1>16, WalkedFacts
  <2> QED
    BY <1>2, <1>3, <1>4, <1>7, <1>14, <2>1 DEF ci, v, er
<1> QED
  BY <1>15, <1>16

\* The outcome of a request is one of those its caller is told.
LEMMA Outcomes ==
  ASSUME NEW m, NEW status, NEW errs
  PROVE  /\ Verdict(m, status) \in {"none", "ok", "no", "unknown", "failed", "already", "rejected"}
         /\ Registration(errs) \in {"none", "ok", "no", "unknown", "failed", "already", "rejected"}
  BY DEF Verdict, Registration

\* A backend serves a request.
LEMMA AnswerOkFacts ==
  ASSUME Typed, NEW c \in Calls, AnswerOk(c)
  PROVE  /\ call[c].pc = "asked" /\ call[c].at \in Backends /\ call[c].m \in Methods
         /\ CanServe(call[c].at, call[c].m) /\ Ends(c, "ok")
         /\ circ' = [circ EXCEPT ![call[c].at] = RecordSuccess(@)]
         /\ circ' \in [Backends -> EntryType]
         /\ missed' = [missed EXCEPT ![call[c].at] = 0] /\ missed' \in [Backends -> Nat]
         /\ pend' \in [{"tx", "cred", "params"} -> Calls \cup {NoCall}]
         /\ fresh' \in BOOLEAN /\ mempool' = (mempool \/ call[c].m = "submit")
         /\ UNCHANGED <<up, uninit, initialized, init, late, verdicts>>
<1>1. call[c] \in CallType /\ circ \in [Backends -> EntryType] /\ missed \in [Backends -> Nat]
      /\ pend \in [{"tx", "cred", "params"} -> Calls \cup {NoCall}] /\ fresh \in BOOLEAN
  BY DEF Typed, TypeOK
<1>2. call[c].pc = "asked"
  BY DEF AnswerOk
<1>3. call[c].at \in Backends
  BY <1>2 DEF Typed, Shaped, AtBackend
<1>4. call[c].m \in Methods
  BY <1>1 DEF CallType
<1>5. RecordSuccess(circ[call[c].at]) \in EntryType
  BY <1>1, <1>3, EntryFacts
<1>6. Dropped(call[c].m) \in [{"tx", "cred", "params"} -> Calls \cup {NoCall}]
  BY <1>4, DroppedType
<1>7. circ' \in [Backends -> EntryType] /\ missed' \in [Backends -> Nat]
  BY <1>1, <1>3, <1>5 DEF AnswerOk
<1>8. pend' \in [{"tx", "cred", "params"} -> Calls \cup {NoCall}]
  BY <1>1, <1>6 DEF AnswerOk
<1>9. fresh' \in BOOLEAN
  BY <1>1 DEF AnswerOk
<1> QED
  BY <1>3, <1>4, <1>7, <1>8, <1>9 DEF AnswerOk

\* A settled request ends for itself and for those who joined it.
LEMMA FailFacts ==
  ASSUME Typed, NEW c \in Calls, Fail(c) \/ Settle(c)
  PROVE  /\ call[c].pc \in {"failing", "settling"} /\ call[c].m \in Methods
         /\ pend' \in [{"tx", "cred", "params"} -> Calls \cup {NoCall}]
         /\ UNCHANGED <<up, uninit, initialized, init, circ, fresh, mempool, late, missed, verdicts>>
         /\ call' \in [Calls -> CallType]
         /\ \/ call' = [call EXCEPT ![c].pc = "settling"] /\ Coalesced(call[c].m)
            \/ Ends(c, IF call[c].m = "account" THEN Registration(call[c].errs) ELSE "failed")
            \/ Ends(c, "failed")
<1>1. call[c] \in CallType /\ call \in [Calls -> CallType]
  BY DEF Typed, TypeOK
<1>2. call[c].m \in Methods
  BY <1>1 DEF CallType
<1>3. pend' \in [{"tx", "cred", "params"} -> Calls \cup {NoCall}]
  BY <1>2, DroppedType DEF Fail, Settle
<1>4. CASE Settle(c)
  <2>1. Ends(c, "failed") /\ call[c].pc = "settling"
    BY <1>4 DEF Settle
  <2>2. call' \in [Calls -> CallType]
    BY <2>1, EndsFacts
  <2> QED
    BY <1>2, <1>3, <1>4, <2>1, <2>2 DEF Settle
<1>5. CASE Fail(c)
  <2> DEFINE res == IF call[c].m = "account" THEN Registration(call[c].errs) ELSE "failed"
  <2>1. res \in {"none", "ok", "no", "unknown", "failed", "already", "rejected"}
    BY Outcomes
  <2>2. /\ call[c].pc = "failing"
        /\ UNCHANGED <<up, uninit, initialized, init, circ, fresh, mempool, late, missed, verdicts>>
        /\ \/ call' = [call EXCEPT ![c].pc = "settling"] /\ Coalesced(call[c].m)
           \/ Ends(c, res)
    BY <1>5 DEF Fail
  <2> HIDE DEF res
  <2>3. Ends(c, res) => call' \in [Calls -> CallType]
    BY <2>1, EndsFacts
  <2>4. [call EXCEPT ![c].pc = "settling"] \in [Calls -> CallType]
    BY <1>1 DEF CallType
  <2>5. call' \in [Calls -> CallType]
    BY <2>2, <2>3, <2>4
  <2> QED
    BY <1>2, <1>3, <2>2, <2>5 DEF res
<1> QED
  BY <1>4, <1>5

\* The crawler's own retry of the node's initialisation.
LEMMA RecoverFacts ==
  ASSUME Typed, RecoverChainSync
  PROVE  /\ circ' \in [Backends -> EntryType] /\ missed' \in [Backends -> Nat]
         /\ uninit' \in SUBSET Backends
         /\ UNCHANGED <<up, initialized, init, call, pend, fresh, mempool, late, verdicts>>
         /\ \/ UNCHANGED <<circ, missed>>
            \/ /\ circ' = [circ EXCEPT ![Live] = RecordFailure(@)]
               /\ missed' = [missed EXCEPT ![Live] = Min({@ + 1, FailureThreshold})]
<1>1. /\ circ \in [Backends -> EntryType] /\ missed \in [Backends -> Nat] /\ uninit \in SUBSET Backends
      /\ Live \in Backends
  BY DEF Typed, TypeOK, Backends
<1>2. RecordFailure(circ[Live]) \in EntryType
  BY <1>1, EntryFacts
<1>3. [missed EXCEPT ![Live] = Min({@ + 1, FailureThreshold})] \in [Backends -> Nat]
  BY <1>1, CappedType, ClientAssumption
<1>4. [circ EXCEPT ![Live] = RecordFailure(@)] \in [Backends -> EntryType]
  BY <1>1, <1>2
<1> QED
  BY <1>1, <1>3, <1>4 DEF RecoverChainSync

\* The types, action by action.
LEMMA TypedStep ==
  ASSUME Typed, Next
  PROVE  Typed'
<1>t. /\ up \in [Backends -> BOOLEAN] /\ uninit \in SUBSET Backends /\ initialized \in BOOLEAN
      /\ init \in [todo : Seq(Backends), tries : Nat, failed : SUBSET Backends]
      /\ circ \in [Backends -> EntryType] /\ call \in [Calls -> CallType]
      /\ pend \in [{"tx", "cred", "params"} -> Calls \cup {NoCall}]
      /\ mempool \in BOOLEAN /\ late \in BOOLEAN /\ fresh \in BOOLEAN
      /\ account \in {"absent", "registered", "delegated"} /\ valid \in BOOLEAN
      /\ missed \in [Backends -> Nat] /\ verdicts \in [Backends -> Nat]
  BY DEF Typed, TypeOK
<1>s. /\ \A c \in Calls : /\ call[c].pc \in AtBackend => call[c].at \in Backends
                          /\ call[c].pc = "join" => Coalesced(call[c].m)
      /\ init.todo # <<>> => ~initialized
  BY DEF Typed, Shaped
<1>i. Idle \in CallType /\ Idle.pc = "idle"
  BY IdleFacts
<1>w. account' = account /\ valid' = valid
  BY ZenonT(80) DEF Next, Request, Start, Resume, LazySucceeds, LazyFails, AnswerOk, AnswerError, Fail, Settle,
         InitSucceeds, InitRetries, InitFails, RecoverChainSync, LateAccept, Flip, Age, ParamsAge, Observe
<1> USE DEF AtBackend
<1>1. ASSUME NEW c \in Calls, NEW m \in Offered, Request(c, m)
      PROVE  Typed'
  <2>1. m \in Methods
    BY ClientAssumption DEF Methods
  <2>2. [Idle EXCEPT !.pc = "start", !.m = m] \in CallType
    BY <1>i, <2>1 DEF CallType
  <2>3. call' = [call EXCEPT ![c] = [Idle EXCEPT !.pc = "start", !.m = m]]
        /\ UNCHANGED <<up, uninit, initialized, init, circ, pend, fresh, mempool, late, missed, verdicts>>
    BY <1>1 DEF Request
  <2>4. call' \in [Calls -> CallType]
    BY <1>t, <2>2, <2>3
  <2>5. [Idle EXCEPT !.pc = "start", !.m = m].pc = "start"
    BY DEF Idle
  <2>6. Shaped'
    BY <1>t, <1>s, <2>3, <2>5 DEF Shaped
  <2> QED
    BY <1>t, <1>w, <2>3, <2>4, <2>6 DEF Typed, TypeOK
<1>2. ASSUME NEW c \in Calls, Start(c)
      PROVE  Typed'
  <2> DEFINE r == [call[c] EXCEPT !.todo = Order(call[c].m)]
  <2>1. UNCHANGED <<up, uninit, initialized, fresh, mempool, late>>
    BY <1>2 DEF Start
  <2>2. /\ r \in CallType /\ UNCHANGED missed /\ pend' \in [{"tx", "cred", "params"} -> Calls \cup {NoCall}]
        /\ \/ call' = [call EXCEPT ![c] = Idle] /\ UNCHANGED <<circ, verdicts, init>>
           \/ /\ call' = [call EXCEPT ![c].pc = "join", ![c].at = pend[call[c].m]]
              /\ Coalesced(call[c].m) /\ pend[call[c].m] \in Calls
              /\ UNCHANGED <<circ, verdicts, init>>
           \/ /\ call' = [call EXCEPT ![c] = [r EXCEPT !.pc = "init"]]
              /\ ~initialized /\ UNCHANGED <<circ, verdicts>>
              /\ init' \in [todo : Seq(Backends), tries : Nat, failed : SUBSET Backends]
           \/ Walked(c, r, circ, verdicts) /\ UNCHANGED init
    BY <1>2, StartFacts
  <2> HIDE DEF r
  <2>3. CASE call' = [call EXCEPT ![c] = Idle] /\ UNCHANGED <<circ, verdicts, init>>
    <3>1. call' \in [Calls -> CallType]
      BY <1>t, <1>i, <2>3
    <3>2. Shaped'
      BY <1>t, <1>s, <1>i, <2>1, <2>3 DEF Shaped
    <3> QED
      BY <1>t, <1>w, <2>1, <2>2, <2>3, <3>1, <3>2 DEF Typed, TypeOK
  <2>4. CASE /\ call' = [call EXCEPT ![c].pc = "join", ![c].at = pend[call[c].m]]
             /\ Coalesced(call[c].m) /\ pend[call[c].m] \in Calls /\ UNCHANGED <<circ, verdicts, init>>
    <3>p. PICK q \in {"idle", "start", "init", "lazy", "asked", "failing", "settling", "join"} : q = "join"
      OBVIOUS
    <3>c. call[c] \in CallType /\ pend[call[c].m] \in Calls
      BY <1>t, <2>4
    <3>q. [call[c] EXCEPT !.pc = q, !.at = pend[call[c].m]] \in CallType
      BY <3>c DEF CallType
    <3>1. [call[c] EXCEPT !.pc = "join", !.at = pend[call[c].m]] \in CallType
      BY <3>p, <3>q
    <3>2. call' = [call EXCEPT ![c] = [call[c] EXCEPT !.pc = "join", !.at = pend[call[c].m]]]
      BY <2>4
    <3>3. call' \in [Calls -> CallType]
      BY <1>t, <3>1, <3>2
    <3>4. call'[c].pc = "join" /\ call'[c].m = call[c].m /\ \A d \in Calls : d # c => call'[d] = call[d]
      BY <1>t, <3>2 DEF CallType
    <3>5. Shaped'
      BY <1>s, <2>1, <2>4, <3>4 DEF Shaped
    <3> QED
      BY <1>t, <1>w, <2>1, <2>2, <2>4, <3>3, <3>5 DEF Typed, TypeOK
  <2>5. CASE /\ call' = [call EXCEPT ![c] = [r EXCEPT !.pc = "init"]] /\ ~initialized /\ UNCHANGED <<circ, verdicts>>
             /\ init' \in [todo : Seq(Backends), tries : Nat, failed : SUBSET Backends]
    <3>1. [r EXCEPT !.pc = "init"] \in CallType /\ [r EXCEPT !.pc = "init"].pc = "init"
      BY <2>2 DEF CallType
    <3>2. call' \in [Calls -> CallType]
      BY <1>t, <2>5, <3>1
    <3>3. Shaped'
      BY <1>t, <1>s, <2>1, <2>5, <3>1 DEF Shaped
    <3> QED
      BY <1>t, <1>w, <2>1, <2>2, <2>5, <3>2, <3>3 DEF Typed, TypeOK
  <2>6. CASE Walked(c, r, circ, verdicts) /\ UNCHANGED init
    <3>1. Shaped'
      BY <1>t, <1>s, <2>1, <2>6 DEF Shaped, Walked
    <3> QED
      BY <1>t, <1>w, <2>1, <2>2, <2>6, <3>1 DEF Typed, TypeOK, Walked
  <2> QED
    BY <2>2, <2>3, <2>4, <2>5, <2>6
<1>3. ASSUME NEW c \in Calls, Resume(c)
      PROVE  Typed'
  <2>1. UNCHANGED <<up, uninit, initialized, pend, fresh, mempool, late>>
    BY <1>3 DEF Resume
  <2>2. Walked(c, call[c], circ, verdicts) /\ UNCHANGED <<missed, init>>
    BY <1>3, ResumeFacts
  <2>3. Shaped'
    BY <1>t, <1>s, <2>1, <2>2 DEF Shaped, Walked
  <2> QED
    BY <1>t, <1>w, <2>1, <2>2, <2>3 DEF Typed, TypeOK, Walked
<1>4. ASSUME NEW c \in Calls, LazySucceeds(c)
      PROVE  Typed'
  <2>1. /\ call' = [call EXCEPT ![c].pc = "asked"] /\ call[c].pc = "lazy" /\ uninit' = uninit \ {call[c].at}
        /\ UNCHANGED <<up, initialized, init, circ, pend, fresh, mempool, late, missed, verdicts>>
    BY <1>4 DEF LazySucceeds
  <2>p. PICK q \in {"idle", "start", "init", "lazy", "asked", "failing", "settling", "join"} : q = "asked"
    OBVIOUS
  <2>c. call[c] \in CallType
    BY <1>t
  <2>q. [call[c] EXCEPT !.pc = q] \in CallType
    BY <2>c DEF CallType
  <2>2. [call[c] EXCEPT !.pc = "asked"] \in CallType
    BY <2>p, <2>q
  <2>3. call' \in [Calls -> CallType] /\ call'[c].at = call[c].at /\ call'[c].pc = "asked"
        /\ \A d \in Calls : d # c => call'[d] = call[d]
    BY <1>t, <2>1, <2>2 DEF CallType
  <2>4. Shaped'
    BY <1>s, <2>1, <2>3 DEF Shaped
  <2>5. uninit' \in SUBSET Backends
    BY <1>t, <2>1
  <2> QED
    BY <1>t, <1>w, <2>1, <2>3, <2>4, <2>5 DEF Typed, TypeOK
<1>5. ASSUME NEW c \in Calls, LazyFails(c)
      PROVE  Typed'
  <2>1. UNCHANGED <<up, uninit, initialized, init, pend, fresh, mempool, late>>
    BY <1>5 DEF LazyFails
  <2>2. PICK r \in CallType, ci \in [Backends -> EntryType] : Walked(c, r, ci, verdicts)
    BY <1>5, LazyFailsFacts, ZenonT(80) DEF Walked
  <2>3. missed' \in [Backends -> Nat]
    BY <1>5, LazyFailsFacts
  <2>4. Shaped'
    BY <1>t, <1>s, <2>1, <2>2 DEF Shaped, Walked
  <2> QED
    BY <1>t, <1>w, <2>1, <2>2, <2>3, <2>4 DEF Typed, TypeOK, Walked
<1>6. ASSUME NEW c \in Calls, AnswerOk(c)
      PROVE  Typed'
  <2>1. /\ Ends(c, "ok") /\ circ' \in [Backends -> EntryType] /\ missed' \in [Backends -> Nat]
        /\ pend' \in [{"tx", "cred", "params"} -> Calls \cup {NoCall}]
        /\ fresh' \in BOOLEAN /\ mempool' = (mempool \/ call[c].m = "submit")
        /\ UNCHANGED <<up, uninit, initialized, init, late, verdicts>>
    BY <1>6, AnswerOkFacts
  <2>2. /\ call' \in [Calls -> CallType]
        /\ \A d \in Calls : call'[d].pc = "idle" \/ call'[d] = call[d]
    BY <2>1, EndsFacts
  <2>3. Shaped'
    BY <1>s, <2>1, <2>2 DEF Shaped
  <2>4. mempool' \in BOOLEAN
    BY <2>1
  <2> QED
    BY <1>t, <1>w, <2>1, <2>2, <2>3, <2>4 DEF Typed, TypeOK
<1>7. ASSUME NEW c \in Calls, AnswerError(c)
      PROVE  Typed'
  <2>1. UNCHANGED <<up, uninit, initialized, init, pend, fresh, mempool>>
    BY <1>7 DEF AnswerError
  <2>2. /\ missed' \in [Backends -> Nat] /\ late' \in BOOLEAN
        /\ \/ /\ \E s, m : Ends(c, Verdict(m, s))
              /\ verdicts' \in [Backends -> Nat] /\ circ' = circ
           \/ \E r \in CallType, ci \in [Backends -> EntryType], v \in [Backends -> Nat] : Walked(c, r, ci, v)
    BY <1>7, AnswerErrorFacts DEF Walked
  <2>3. CASE (\E s, m : Ends(c, Verdict(m, s))) /\ verdicts' \in [Backends -> Nat] /\ circ' = circ
    <3>1. PICK s, m : Ends(c, Verdict(m, s))
      BY <2>3
    <3>2. /\ call' \in [Calls -> CallType]
          /\ \A d \in Calls : call'[d].pc = "idle" \/ call'[d] = call[d]
      BY <3>1, EndsFacts, Outcomes
    <3>3. Shaped'
      BY <1>s, <2>1, <3>2 DEF Shaped
    <3> QED
      BY <1>t, <1>w, <2>1, <2>2, <2>3, <3>2, <3>3 DEF Typed, TypeOK
  <2>4. CASE \E r \in CallType, ci \in [Backends -> EntryType], v \in [Backends -> Nat] : Walked(c, r, ci, v)
    <3>1. PICK r \in CallType, ci \in [Backends -> EntryType], v \in [Backends -> Nat] : Walked(c, r, ci, v)
      BY <2>4
    <3>2. Shaped'
      BY <1>t, <1>s, <2>1, <3>1 DEF Shaped, Walked
    <3> QED
      BY <1>t, <1>w, <2>1, <2>2, <3>1, <3>2 DEF Typed, TypeOK, Walked
  <2> QED
    BY <2>2, <2>3, <2>4
<1>8. ASSUME NEW c \in Calls, Fail(c) \/ Settle(c)
      PROVE  Typed'
  <2>1. /\ call[c].pc \in {"failing", "settling"}
        /\ pend' \in [{"tx", "cred", "params"} -> Calls \cup {NoCall}]
        /\ UNCHANGED <<up, uninit, initialized, init, circ, fresh, mempool, late, missed, verdicts>>
        /\ call' \in [Calls -> CallType]
        /\ \/ call' = [call EXCEPT ![c].pc = "settling"] /\ Coalesced(call[c].m)
           \/ Ends(c, IF call[c].m = "account" THEN Registration(call[c].errs) ELSE "failed")
           \/ Ends(c, "failed")
    BY <1>8, FailFacts
  <2>2. CASE call' = [call EXCEPT ![c].pc = "settling"]
    <3>1. call'[c].pc = "settling" /\ \A d \in Calls : d # c => call'[d] = call[d]
      BY <1>t, <2>2 DEF CallType
    <3>2. Shaped'
      BY <1>s, <2>1, <3>1 DEF Shaped
    <3> QED
      BY <1>t, <1>w, <2>1, <3>2 DEF Typed, TypeOK
  <2>3. CASE \E res \in {"none", "ok", "no", "unknown", "failed", "already", "rejected"} : Ends(c, res)
    <3>1. \A d \in Calls : call'[d].pc = "idle" \/ call'[d] = call[d]
      BY <2>3, EndsFacts
    <3>2. Shaped'
      BY <1>s, <2>1, <3>1 DEF Shaped
    <3> QED
      BY <1>t, <1>w, <2>1, <3>2 DEF Typed, TypeOK
  <2>4. Registration(call[c].errs) \in {"none", "ok", "no", "unknown", "failed", "already", "rejected"}
    BY Outcomes
  <2> QED
    BY <2>1, <2>2, <2>3, <2>4
<1>9. ASSUME InitSucceeds \/ InitFails
      PROVE  Typed'
  <2>1. /\ init.todo # <<>> /\ uninit' \in {uninit \ {Head(init.todo)}, uninit \cup {Head(init.todo)}}
        /\ InitDecided(init.failed) \/ InitDecided(init.failed \cup {Head(init.todo)})
        /\ UNCHANGED <<up, circ, pend, fresh, mempool, late, missed, verdicts>>
    BY <1>9 DEF InitSucceeds, InitFails
  <2>2. Head(init.todo) \in Backends
    BY <2>1, InitHead
  <2>3. init.failed \in SUBSET Backends /\ init.failed \cup {Head(init.todo)} \in SUBSET Backends
    BY <1>t, <2>2
  <2>4. /\ init' \in [todo : Seq(Backends), tries : Nat, failed : SUBSET Backends]
        /\ initialized' \in BOOLEAN /\ call' \in [Calls -> CallType]
        /\ init'.todo # <<>> => ~initialized'
        /\ \A c \in Calls : \/ call'[c] = call[c]
                            \/ /\ call[c].pc = "init" /\ call'[c] = [call[c] EXCEPT !.pc = "failing"]
                               /\ ~initialized'
    BY <2>1, <2>3, InitDecidedFacts
  <2>5. \A c \in Calls : [call[c] EXCEPT !.pc = "failing"].pc = "failing"
    BY <1>t DEF CallType
  <2>6. Shaped'
    BY <1>s, <2>1, <2>4, <2>5 DEF Shaped
  <2>7. uninit' \in SUBSET Backends
    BY <1>t, <2>1, <2>2
  <2> QED
    BY <1>t, <1>w, <2>1, <2>4, <2>6, <2>7 DEF Typed, TypeOK
<1>10. ASSUME InitRetries
       PROVE  Typed'
  <2>1. init' = [init EXCEPT !.tries = @ + 1]
        /\ UNCHANGED <<up, uninit, initialized, circ, call, pend, fresh, mempool, late, missed, verdicts>>
    BY <1>10 DEF InitRetries
  <2>p. PICK n \in Nat : n = init.tries + 1
    BY <1>t
  <2>2. init' \in [todo : Seq(Backends), tries : Nat, failed : SUBSET Backends] /\ init'.todo = init.todo
    BY <1>t, <2>1, <2>p
  <2>3. Shaped'
    BY <1>s, <2>1, <2>2 DEF Shaped
  <2> QED
    BY <1>t, <1>w, <2>1, <2>2, <2>3 DEF Typed, TypeOK
<1>11. ASSUME RecoverChainSync
       PROVE  Typed'
  <2>1. /\ circ' \in [Backends -> EntryType] /\ missed' \in [Backends -> Nat] /\ uninit' \in SUBSET Backends
        /\ UNCHANGED <<up, initialized, init, call, pend, fresh, mempool, late, verdicts>>
    BY <1>11, RecoverFacts
  <2>2. Shaped'
    BY <1>s, <2>1 DEF Shaped
  <2> QED
    BY <1>t, <1>w, <2>1, <2>2 DEF Typed, TypeOK
<1>12. ASSUME LateAccept \/ ParamsAge \/ \E b \in Backends : Flip(b)
       PROVE  Typed'
  <2>1. /\ mempool' \in BOOLEAN /\ fresh' \in BOOLEAN /\ up' \in [Backends -> BOOLEAN]
        /\ UNCHANGED <<uninit, initialized, init, circ, call, pend, late, missed, verdicts>>
    BY <1>t, <1>12 DEF LateAccept, ParamsAge, Flip
  <2>2. Shaped'
    BY <1>s, <2>1 DEF Shaped
  <2> QED
    BY <1>t, <1>w, <2>1, <2>2 DEF Typed, TypeOK
<1>13. ASSUME NEW b \in Backends, Age(b)
       PROVE  Typed'
  <2>1. circ' = [circ EXCEPT ![b].aged = TRUE]
        /\ UNCHANGED <<up, uninit, initialized, init, call, pend, fresh, mempool, late, missed, verdicts>>
    BY <1>13 DEF Age
  <2>p. PICK t \in BOOLEAN : t = TRUE
    OBVIOUS
  <2>c. circ[b] \in EntryType
    BY <1>t
  <2>q. [circ[b] EXCEPT !.aged = t] \in EntryType
    BY <2>c DEF EntryType
  <2>2. [circ[b] EXCEPT !.aged = TRUE] \in EntryType
    BY <2>p, <2>q
  <2>3. circ' \in [Backends -> EntryType]
    BY <1>t, <2>1, <2>2
  <2>4. Shaped'
    BY <1>s, <2>1 DEF Shaped
  <2> QED
    BY <1>t, <1>w, <2>1, <2>3, <2>4 DEF Typed, TypeOK
<1> QED
  BY <1>1, <1>2, <1>3, <1>4, <1>5, <1>6, <1>7, <1>8, <1>9, <1>10, <1>11, <1>12, <1>13 DEF Next

-----------------------------------------------------------------------------
(* Circuits *)

\* A walk admits at most one call, at the backend it stops at; the entry of a
\* closed circuit stays as it is.
LEMMA WalkedEntry ==
  ASSUME NEW c \in Calls, NEW r, NEW ci, NEW v, Walked(c, r, ci, v), NEW b \in Backends
  PROVE  /\ \/ circ'[b] = ci[b] /\ ~(call'[c].pc \in AtBackend /\ call'[c].at = b)
            \/ /\ ShouldAttempt(ci[b]) /\ circ'[b] = Attempted(ci[b])
               /\ call'[c].pc \in AtBackend /\ call'[c].at = b
         /\ circ'[b].state = "closed" <=> ci[b].state = "closed"
         /\ circ'[b].state = "closed" => circ'[b] = ci[b]
<1>1. /\ ci \in [Backends -> EntryType] /\ WalkedTo(r, ci, call'[c], circ')
  BY DEF Walked
<1>2. \/ circ' = ci /\ call'[c].pc \in {"start", "failing"}
      \/ /\ call'[c].pc \in AtBackend /\ call'[c].at \in Backends /\ ShouldAttempt(ci[call'[c].at])
         /\ circ' = [ci EXCEPT ![call'[c].at] = Attempted(@)]
  BY <1>1 DEF WalkedTo
<1>3. \/ circ'[b] = ci[b] /\ ~(call'[c].pc \in AtBackend /\ call'[c].at = b)
      \/ /\ ShouldAttempt(ci[b]) /\ circ'[b] = Attempted(ci[b])
         /\ call'[c].pc \in AtBackend /\ call'[c].at = b
  BY <1>1, <1>2 DEF AtBackend
<1>4. ci[b] \in EntryType
  BY <1>1
<1>5. (circ'[b].state = "closed" <=> ci[b].state = "closed") /\ (circ'[b].state = "closed" => circ'[b] = ci[b])
  BY <1>3, <1>4, EntryFacts
<1> QED
  BY <1>3, <1>5

\* What a fault does to the count of a backend.
LEMMA FaultCounts ==
  ASSUME Typed, Counted, NEW b \in Backends, NEW f \in EntryType, NEW n,
         f = RecordFailure(circ[b]), n = Min({missed[b] + 1, FailureThreshold})
  PROVE  f.state = "closed" => n <= f.failures /\ f.failures < FailureThreshold
<1>1. circ[b] \in EntryType /\ missed[b] \in Nat /\ FailureThreshold \in Nat
  BY ClientAssumption DEF Typed, TypeOK
<1>2. ASSUME f.state = "closed"
      PROVE  n <= f.failures /\ f.failures < FailureThreshold
  <2>1. /\ circ[b].state = "closed"
        /\ circ[b].failures < FailureThreshold => f.failures = circ[b].failures + 1 /\ f.failures < FailureThreshold
    BY <1>1, <1>2, EntryFacts
  <2>2. missed[b] <= circ[b].failures /\ circ[b].failures < FailureThreshold
    BY <2>1 DEF Counted
  <2>3. missed[b] + 1 \in Nat
    BY <1>1
  <2>4. n \in {missed[b] + 1, FailureThreshold} /\ n <= missed[b] + 1
    BY <1>1, <2>3, MinPair
  <2>5. circ[b].failures \in Nat
    BY <1>1 DEF EntryType
  <2> QED
    BY <1>1, <2>1, <2>2, <2>4, <2>5
<1> QED
  BY <1>2

\* Failures that were missed are counted, until the circuit opens.
LEMMA CountedStep ==
  ASSUME Typed, Counted, Next
  PROVE  Counted'
<1>t. circ \in [Backends -> EntryType] /\ missed \in [Backends -> Nat]
  BY DEF Typed, TypeOK
<1>1. ASSUME UNCHANGED <<circ, missed>>
      PROVE  Counted'
  BY <1>1 DEF Counted
<1>2. ASSUME NEW c \in Calls, NEW r, NEW v, Walked(c, r, circ, v), UNCHANGED missed
      PROVE  Counted'
  <2>1. \A b \in Backends : circ'[b].state = "closed" => circ'[b] = circ[b]
    BY <1>2, WalkedEntry
  <2> QED
    BY <1>2, <2>1 DEF Counted
<1>3. ASSUME NEW c \in Calls, NEW r, NEW ci, NEW v, NEW b \in Backends, Walked(c, r, ci, v),
             ci = [circ EXCEPT ![b] = RecordFailure(@)],
             missed' = [missed EXCEPT ![b] = Min({@ + 1, FailureThreshold})]
      PROVE  Counted'
  <2>0. Walked(c, r, ci, v)
    BY <1>3
  <2>1. \A d \in Backends : circ'[d].state = "closed" => circ'[d] = ci[d]
    BY <2>0, WalkedEntry
  <2>2. ci[b] = RecordFailure(circ[b]) /\ missed'[b] = Min({missed[b] + 1, FailureThreshold})
        /\ \A d \in Backends : d # b => ci[d] = circ[d] /\ missed'[d] = missed[d]
    BY <1>t, <1>3
  <2>3. RecordFailure(circ[b]) \in EntryType
    BY <1>t, EntryFacts
  <2>4. ci[b].state = "closed" => missed'[b] <= ci[b].failures /\ ci[b].failures < FailureThreshold
    BY <2>2, <2>3, FaultCounts
  <2>5. ASSUME NEW d \in Backends, circ'[d].state = "closed"
        PROVE  missed'[d] <= circ'[d].failures /\ circ'[d].failures < FailureThreshold
    <3>1. circ'[d] = ci[d] /\ ci[d].state = "closed"
      BY <2>1, <2>5
    <3>2. CASE d = b
      BY <2>4, <3>1, <3>2
    <3>3. CASE d # b
      BY <2>2, <3>1, <3>3 DEF Counted
    <3> QED
      BY <3>2, <3>3
  <2> QED
    BY <2>5 DEF Counted
<1>4. ASSUME NEW c \in Calls, Start(c)
      PROVE  Counted'
  <2>1. UNCHANGED missed /\ (UNCHANGED circ \/ \E r : Walked(c, r, circ, verdicts))
    BY <1>4, StartFacts
  <2> QED
    BY <1>1, <1>2, <2>1
<1>5. ASSUME NEW c \in Calls, Resume(c)
      PROVE  Counted'
  BY <1>2, <1>5, ResumeFacts
<1>6. ASSUME NEW c \in Calls, LazyFails(c)
      PROVE  Counted'
  <2> DEFINE b == call[c].at
             fail == [circ EXCEPT ![b] = RecordFailure(@)]
  <2>1. /\ b \in Backends /\ \E r : Walked(c, r, fail, verdicts)
        /\ missed' = [missed EXCEPT ![b] = Min({@ + 1, FailureThreshold})]
    BY <1>6, LazyFailsFacts
  <2> HIDE DEF b
  <2> QED
    BY <1>3, <2>1
<1>7. ASSUME NEW c \in Calls, AnswerOk(c)
      PROVE  Counted'
  <2> DEFINE b == call[c].at
  <2>1. b \in Backends /\ circ' = [circ EXCEPT ![b] = RecordSuccess(@)] /\ missed' = [missed EXCEPT ![b] = 0]
        /\ circ' \in [Backends -> EntryType]
    BY <1>7, AnswerOkFacts
  <2> HIDE DEF b
  <2>2. RecordSuccess(circ[b]).state = "closed" => RecordSuccess(circ[b]).failures = 0
    BY <1>t, <2>1, EntryFacts
  <2>3. FailureThreshold \in Nat \ {0}
    BY ClientAssumption
  <2>4. /\ circ'[b] = RecordSuccess(circ[b]) /\ missed'[b] = 0
        /\ \A d \in Backends : d # b => circ'[d] = circ[d] /\ missed'[d] = missed[d]
    BY <1>t, <2>1
  <2>5. ASSUME NEW d \in Backends, circ'[d].state = "closed"
        PROVE  missed'[d] <= circ'[d].failures /\ circ'[d].failures < FailureThreshold
    <3>2. CASE d = b
      BY <2>2, <2>3, <2>4, <2>5, <3>2
    <3>3. CASE d # b
      BY <2>4, <2>5, <3>3 DEF Counted
    <3> QED
      BY <3>2, <3>3
  <2> QED
    BY <2>5 DEF Counted
<1>8. ASSUME NEW c \in Calls, AnswerError(c)
      PROVE  Counted'
  <2> DEFINE b == call[c].at
             fail == [circ EXCEPT ![b] = RecordFailure(@)]
  <2>1. /\ b \in Backends
        /\ \/ circ' = circ /\ missed' = missed
           \/ (\E r, v : Walked(c, r, circ, v)) /\ missed' = missed
           \/ (\E r, v : Walked(c, r, fail, v)) /\ missed' = [missed EXCEPT ![b] = Min({@ + 1, FailureThreshold})]
    BY <1>8, AnswerErrorFacts
  <2> QED
    BY <1>1, <1>2, <1>3, <2>1
<1>9. ASSUME RecoverChainSync
      PROVE  Counted'
  <2>1. Live \in Backends
    BY DEF Backends
  <2>2. CASE UNCHANGED <<circ, missed>>
    BY <1>1, <2>2
  <2>3. CASE /\ circ' = [circ EXCEPT ![Live] = RecordFailure(@)]
             /\ missed' = [missed EXCEPT ![Live] = Min({@ + 1, FailureThreshold})]
    <3>1. RecordFailure(circ[Live]) \in EntryType
      BY <1>t, <2>1, EntryFacts
    <3>2. circ'[Live] = RecordFailure(circ[Live]) /\ missed'[Live] = Min({missed[Live] + 1, FailureThreshold})
          /\ \A d \in Backends : d # Live => circ'[d] = circ[d] /\ missed'[d] = missed[d]
      BY <1>t, <2>1, <2>3
    <3>3. circ'[Live].state = "closed" => missed'[Live] <= circ'[Live].failures /\ circ'[Live].failures < FailureThreshold
      BY <2>1, <3>1, <3>2, FaultCounts
    <3> QED
      BY <3>2, <3>3 DEF Counted
  <2> QED
    BY <1>9, <2>2, <2>3, RecoverFacts
<1>10. ASSUME NEW b \in Backends, Age(b)
       PROVE  Counted'
  <2>1. circ' = [circ EXCEPT ![b].aged = TRUE] /\ UNCHANGED missed
    BY <1>10 DEF Age
  <2>2. \A d \in Backends : circ'[d].state = circ[d].state /\ circ'[d].failures = circ[d].failures
    BY <1>t, <2>1 DEF EntryType
  <2> QED
    BY <2>1, <2>2 DEF Counted
<1>11. ASSUME \/ \E c \in Calls, m \in Offered : Request(c, m)
              \/ \E c \in Calls : LazySucceeds(c) \/ Fail(c) \/ Settle(c)
              \/ InitSucceeds \/ InitRetries \/ InitFails \/ LateAccept \/ ParamsAge
              \/ \E b \in Backends : Flip(b)
       PROVE  Counted'
  <2>1. UNCHANGED <<circ, missed>>
    BY <1>11 DEF Request, LazySucceeds, Fail, Settle, InitSucceeds, InitRetries, InitFails, LateAccept, ParamsAge, Flip
  <2> QED
    BY <1>1, <2>1
<1> QED
  BY <1>4, <1>5, <1>6, <1>7, <1>8, <1>9, <1>10, <1>11 DEF Next

\* 1 if request c is in flight at b.
Held(c, b) == IF c \in InFlight(b) THEN 1 ELSE 0

\* The requests in flight at b, when at most c comes or goes.
LEMMA FlightCount ==
  ASSUME NEW c \in Calls, NEW b, \A d \in Calls : d # c => (d \in InFlight(b)' <=> d \in InFlight(b))
  PROVE  /\ Cardinality(InFlight(b)) \in Nat /\ Cardinality(InFlight(b)') \in Nat
         /\ Cardinality(InFlight(b)') + Held(c, b) = Cardinality(InFlight(b)) + Held(c, b)'
         /\ Held(c, b) <= Cardinality(InFlight(b))
<1> DEFINE R == InFlight(b) \ {c}
<1>1. R \subseteq Calls /\ IsFiniteSet(Calls)
  BY ClientAssumption DEF InFlight
<1>2. IsFiniteSet(R)
  BY <1>1, FS_Subset
<1>3. c \notin R /\ InFlight(b) = (IF c \in InFlight(b) THEN R \cup {c} ELSE R)
  OBVIOUS
<1>4. InFlight(b)' = IF c \in InFlight(b)' THEN R \cup {c} ELSE R
  BY DEF InFlight
<1> HIDE DEF R
<1>5. Cardinality(R) \in Nat /\ Cardinality(R \cup {c}) = Cardinality(R) + 1
  BY <1>2, <1>3, FS_AddElement, FS_CardinalityType
<1>6. Cardinality(InFlight(b)) = Cardinality(R) + Held(c, b) /\ Held(c, b) \in {0, 1}
  BY <1>3, <1>5 DEF Held
<1>7. Cardinality(InFlight(b)') = Cardinality(R) + Held(c, b)' /\ Held(c, b)' \in {0, 1}
  BY <1>4, <1>5 DEF Held
<1> QED
  BY <1>5, <1>6, <1>7

\* The slots a breaker would hold with the request c gone are held by others or
\* were lost to client errors.
SlotsWithout(c, ci, v) ==
  \A b \in Backends : ci[b].state = "half-open" =>
    /\ circ[b].state = "half-open" /\ ci[b].probes <= SuccessThreshold
    /\ ci[b].probes + Held(c, b) <= Cardinality(InFlight(b)) + v[b]

\* A handler that walks takes the slot of the backend it stops at.
LEMMA WalkedProbes ==
  ASSUME Typed, NEW c \in Calls, NEW r, NEW ci, NEW v, Walked(c, r, ci, v), SlotsWithout(c, ci, v)
  PROVE  Probed'
<1>1. /\ ci \in [Backends -> EntryType] /\ v \in [Backends -> Nat] /\ call \in [Calls -> CallType]
      /\ call' = [call EXCEPT ![c] = call'[c]] /\ verdicts' = VerdictsAfter(circ, circ', v)
  BY DEF Walked, Typed, TypeOK
<1> SUFFICES ASSUME NEW b \in Backends, circ'[b].state = "half-open"
             PROVE  /\ circ'[b].probes <= SuccessThreshold
                    /\ circ'[b].probes <= Cardinality(InFlight(b)') + verdicts'[b]
  BY DEF Probed
<1>2. \A d \in Calls : d # c => (d \in InFlight(b)' <=> d \in InFlight(b))
  BY <1>1 DEF InFlight
<1>3. /\ Cardinality(InFlight(b)) \in Nat /\ Cardinality(InFlight(b)') \in Nat
      /\ Cardinality(InFlight(b)') + Held(c, b) = Cardinality(InFlight(b)) + Held(c, b)'
      /\ Held(c, b) <= Cardinality(InFlight(b))
  BY <1>2, FlightCount
<1>4. Held(c, b) \in {0, 1} /\ Held(c, b)' \in {0, 1}
      /\ (call'[c].pc \in AtBackend /\ call'[c].at = b => Held(c, b)' = 1)
  BY DEF Held, InFlight, AtBackend
<1>5. ci[b] \in EntryType /\ ci[b].probes \in Nat /\ v[b] \in Nat /\ SuccessThreshold \in Nat \ {0}
      /\ ci[b].state \in {"closed", "open", "half-open"}
  BY <1>1, ClientAssumption DEF EntryType
<1>6. verdicts'[b] = IF circ[b].state # "half-open" THEN 0 ELSE v[b]
  BY <1>1 DEF VerdictsAfter
<1>7. CASE circ'[b] = ci[b]
  <2>1. /\ circ[b].state = "half-open" /\ ci[b].probes <= SuccessThreshold
        /\ ci[b].probes + Held(c, b) <= Cardinality(InFlight(b)) + v[b]
    BY <1>7 DEF SlotsWithout
  <2> HIDE DEF InFlight, Held
  <2> QED
    BY <1>3, <1>4, <1>5, <1>6, <1>7, <2>1
<1>8. CASE /\ ShouldAttempt(ci[b]) /\ circ'[b] = Attempted(ci[b])
           /\ call'[c].pc \in AtBackend /\ call'[c].at = b
  <2>1. Held(c, b)' = 1
    BY <1>4, <1>8
  <2>2. CASE ci[b].state = "open"
    <3>1. circ'[b].probes = 1
      BY <1>5, <1>8, <2>2, EntryFacts
    <3>2. verdicts'[b] \in Nat
      BY <1>5, <1>6
    <3>3. Cardinality(InFlight(b)') >= 1
      BY <1>3, <1>4, <2>1
    <3> QED
      BY <1>3, <1>5, <3>1, <3>2, <3>3
  <2>3. CASE ci[b].state = "half-open"
    <3>1. circ'[b].probes = ci[b].probes + 1 /\ ci[b].probes < SuccessThreshold
      BY <1>5, <1>8, <2>3, EntryFacts DEF ShouldAttempt
    <3>2. circ[b].state = "half-open" /\ ci[b].probes + Held(c, b) <= Cardinality(InFlight(b)) + v[b]
      BY <2>3 DEF SlotsWithout
    <3> QED
      BY <1>3, <1>4, <1>5, <1>6, <2>1, <3>1, <3>2
  <2>4. CASE ci[b].state = "closed"
    BY <1>5, <1>8, <2>4, EntryFacts
  <2> QED
    BY <1>5, <2>2, <2>3, <2>4
<1>9. \/ circ'[b] = ci[b]
      \/ /\ ShouldAttempt(ci[b]) /\ circ'[b] = Attempted(ci[b])
         /\ call'[c].pc \in AtBackend /\ call'[c].at = b
  BY WalkedEntry
<1> QED
  BY <1>7, <1>8, <1>9

\* A handler that ends its request gives its slot back.
LEMMA EndsProbes ==
  ASSUME Typed, NEW c \in Calls, Ends(c, "ok") \/ Ends(c, "already") \/ Ends(c, "rejected"),
         circ' \in [Backends -> EntryType], verdicts' \in [Backends -> Nat], SlotsWithout(c, circ', verdicts')
  PROVE  Probed'
<1> SUFFICES ASSUME NEW b \in Backends, circ'[b].state = "half-open"
             PROVE  /\ circ'[b].probes <= SuccessThreshold
                    /\ circ'[b].probes <= Cardinality(InFlight(b)') + verdicts'[b]
  BY DEF Probed
<1>0. PICK res \in {"none", "ok", "no", "unknown", "failed", "already", "rejected"} : Ends(c, res)
  OBVIOUS
<1>1. ASSUME NEW d \in Calls
      PROVE  \/ call'[d] = call[d] /\ d # c
             \/ call'[d].pc = "idle" /\ (d # c => call[d].pc = "join")
  BY <1>0, EndsFacts
<1>2. \A d \in Calls : d # c => (d \in InFlight(b)' <=> d \in InFlight(b))
  BY <1>1 DEF InFlight
<1>3. /\ Cardinality(InFlight(b)) \in Nat /\ Cardinality(InFlight(b)') \in Nat
      /\ Cardinality(InFlight(b)') + Held(c, b) = Cardinality(InFlight(b)) + Held(c, b)'
  BY <1>2, FlightCount
<1>4. Held(c, b)' = 0 /\ Held(c, b) \in {0, 1}
  BY <1>1 DEF Held, InFlight
<1>5. circ'[b].probes \in Nat /\ verdicts'[b] \in Nat
  BY DEF EntryType
<1>6. circ'[b].probes <= SuccessThreshold /\ circ'[b].probes + Held(c, b) <= Cardinality(InFlight(b)) + verdicts'[b]
  BY DEF SlotsWithout
<1> QED
  BY <1>3, <1>4, <1>5, <1>6

\* Handlers that neither ask a backend nor hear from one.
LEMMA SameProbes ==
  ASSUME Probed, UNCHANGED <<circ, verdicts>>,
         \A c \in Calls, b \in Backends : c \in InFlight(b)' <=> c \in InFlight(b)
  PROVE  Probed'
<1>1. \A b \in Backends : InFlight(b)' = InFlight(b)
  BY DEF InFlight
<1> QED
  BY <1>1 DEF Probed

\* With no request of its own in flight, a handler leaves the slots as they are.
LEMMA SlotsOfOthers ==
  ASSUME Typed, Probed, NEW c \in Calls, ~(call[c].pc \in AtBackend)
  PROVE  SlotsWithout(c, circ, verdicts)
<1>1. \A b \in Backends : Held(c, b) = 0
  BY DEF Held, InFlight, AtBackend
<1> SUFFICES ASSUME NEW b \in Backends, circ[b].state = "half-open"
             PROVE  /\ circ[b].probes <= SuccessThreshold
                    /\ circ[b].probes + Held(c, b) <= Cardinality(InFlight(b)) + verdicts[b]
  BY DEF SlotsWithout
<1>2. circ[b].probes \in Nat
  BY DEF Typed, TypeOK, EntryType
<1> QED
  BY <1>1, <1>2 DEF Probed

\* A fault closes no slot: it opens the circuit of its backend.
LEMMA SlotsAfterFault ==
  ASSUME Typed, Probed, NEW c \in Calls, NEW b \in Backends, call[c].at = b,
         NEW ci, ci = [circ EXCEPT ![b] = RecordFailure(@)]
  PROVE  SlotsWithout(c, ci, verdicts)
<1>1. circ \in [Backends -> EntryType]
  BY DEF Typed, TypeOK
<1>2. ci[b].state # "half-open"
  BY <1>1, EntryFacts
<1> SUFFICES ASSUME NEW d \in Backends, ci[d].state = "half-open"
             PROVE  /\ circ[d].state = "half-open" /\ ci[d].probes <= SuccessThreshold
                    /\ ci[d].probes + Held(c, d) <= Cardinality(InFlight(d)) + verdicts[d]
  BY DEF SlotsWithout
<1>3. d # b /\ ci[d] = circ[d]
  BY <1>1, <1>2
<1>4. Held(c, d) = 0
  BY <1>3 DEF Held, InFlight
<1>5. circ[d].probes \in Nat
  BY <1>1 DEF EntryType
<1> QED
  BY <1>3, <1>4, <1>5 DEF Probed

\* A verdict of a half-open backend is counted in the history.
LEMMA SlotsAfterVerdict ==
  ASSUME Typed, Probed, NEW c \in Calls, NEW b \in Backends, call[c].at = b,
         NEW v, v = IF circ[b].state = "half-open"
                    THEN [verdicts EXCEPT ![b] = Min({@ + 1, SuccessThreshold})] ELSE verdicts
  PROVE  SlotsWithout(c, circ, v)
<1>1. circ \in [Backends -> EntryType] /\ verdicts \in [Backends -> Nat] /\ SuccessThreshold \in Nat
  BY ClientAssumption DEF Typed, TypeOK
<1> SUFFICES ASSUME NEW d \in Backends, circ[d].state = "half-open"
             PROVE  /\ circ[d].probes <= SuccessThreshold
                    /\ circ[d].probes + Held(c, d) <= Cardinality(InFlight(d)) + v[d]
  BY DEF SlotsWithout
<1>2. /\ circ[d].probes \in Nat /\ circ[d].probes <= SuccessThreshold
      /\ circ[d].probes <= Cardinality(InFlight(d)) + verdicts[d]
  BY <1>1 DEF Probed, EntryType
<1>3. Cardinality(InFlight(d)) \in Nat /\ Held(c, d) <= Cardinality(InFlight(d)) /\ Held(c, d) \in {0, 1}
  <2>1. Calls # {} /\ InFlight(d) \subseteq Calls /\ IsFiniteSet(Calls)
    BY ClientAssumption DEF InFlight
  <2>2. IsFiniteSet(InFlight(d)) /\ Cardinality(InFlight(d)) \in Nat
    BY <2>1, FS_Subset, FS_CardinalityType
  <2>3. Cardinality(InFlight(d)) = 0 => c \notin InFlight(d)
    BY <2>2, FS_EmptySet
  <2> QED
    BY <2>2, <2>3 DEF Held
<1>4. verdicts[d] \in Nat
  BY <1>1
<1>5. CASE d = b
  <2>1. v[d] = Min({verdicts[d] + 1, SuccessThreshold})
    BY <1>1, <1>5
  <2>2. verdicts[d] + 1 \in Nat
    BY <1>4
  <2>3. v[d] \in {verdicts[d] + 1, SuccessThreshold}
    BY <1>1, <2>1, <2>2, MinPair
  <2> HIDE DEF Held, InFlight
  <2> QED
    BY <1>1, <1>2, <1>3, <1>4, <2>3
<1>6. CASE d # b
  <2>1. v[d] = verdicts[d]
    BY <1>1, <1>6
  <2>2. Held(c, d) = 0
    BY <1>6 DEF Held, InFlight
  <2> QED
    BY <1>2, <2>1, <2>2
<1> QED
  BY <1>5, <1>6

\* Probe slots in use are in flight or were lost to client errors.
LEMMA ProbedStep ==
  ASSUME Typed, Probed, Next
  PROVE  Probed'
<1>t. /\ circ \in [Backends -> EntryType] /\ verdicts \in [Backends -> Nat] /\ call \in [Calls -> CallType]
  BY DEF Typed, TypeOK
<1>1. ASSUME UNCHANGED <<circ, verdicts>>,
             \A d \in Calls : \/ call'[d] = call[d]
                              \/ ~(call[d].pc \in AtBackend) /\ ~(call'[d].pc \in AtBackend)
                              \/ {call[d].pc, call'[d].pc} \subseteq AtBackend /\ call'[d].at = call[d].at
      PROVE  Probed'
  <2>1. \A d \in Calls, b \in Backends : d \in InFlight(b)' <=> d \in InFlight(b)
    BY <1>1 DEF InFlight, AtBackend
  <2> QED
    BY <1>1, <2>1, SameProbes
<1>4. ASSUME NEW c \in Calls, Start(c)
      PROVE  Probed'
  <2> DEFINE r == [call[c] EXCEPT !.todo = Order(call[c].m)]
  <2>1. /\ r \in CallType /\ call[c].pc = "start"
        /\ \/ call' = [call EXCEPT ![c] = Idle] /\ UNCHANGED <<circ, verdicts>>
           \/ call' = [call EXCEPT ![c].pc = "join", ![c].at = pend[call[c].m]] /\ UNCHANGED <<circ, verdicts>>
           \/ call' = [call EXCEPT ![c] = [r EXCEPT !.pc = "init"]] /\ UNCHANGED <<circ, verdicts>>
           \/ Walked(c, r, circ, verdicts)
    BY <1>4, StartFacts
  <2> HIDE DEF r
  <2>2. Idle.pc = "idle" /\ [r EXCEPT !.pc = "init"].pc = "init"
        /\ [call[c] EXCEPT !.pc = "join", !.at = pend[call[c].m]].pc = "join"
    BY <1>t, <2>1 DEF Idle, CallType
  <2>3. CASE Walked(c, r, circ, verdicts)
    <3>1. SlotsWithout(c, circ, verdicts)
      BY <2>1, SlotsOfOthers DEF AtBackend
    <3> QED
      BY <2>3, <3>1, WalkedProbes
  <2>4. CASE ~Walked(c, r, circ, verdicts)
    <3>1. /\ UNCHANGED <<circ, verdicts>>
          /\ \A d \in Calls : call'[d] = call[d] \/ (~(call[d].pc \in AtBackend) /\ ~(call'[d].pc \in AtBackend))
      BY <1>t, <2>1, <2>2, <2>4 DEF AtBackend
    <3> QED
      BY <1>1, <3>1
  <2> QED
    BY <2>3, <2>4
<1>5. ASSUME NEW c \in Calls, Resume(c)
      PROVE  Probed'
  <2>1. call[c].pc = "init" /\ Walked(c, call[c], circ, verdicts)
    BY <1>5, ResumeFacts
  <2>2. SlotsWithout(c, circ, verdicts)
    BY <2>1, SlotsOfOthers DEF AtBackend
  <2> QED
    BY <2>1, <2>2, WalkedProbes
<1>6. ASSUME NEW c \in Calls, LazyFails(c)
      PROVE  Probed'
  <2> DEFINE b == call[c].at
             fail == [circ EXCEPT ![b] = RecordFailure(@)]
  <2>1. b \in Backends /\ \E r : Walked(c, r, fail, verdicts)
    BY <1>6, LazyFailsFacts
  <2> HIDE DEF fail
  <2>2. SlotsWithout(c, fail, verdicts)
    BY <2>1, SlotsAfterFault DEF fail
  <2> QED
    BY <2>1, <2>2, WalkedProbes
<1>7. ASSUME NEW c \in Calls, AnswerOk(c)
      PROVE  Probed'
  <2>0. PICK b : b = call[c].at
    OBVIOUS
  <2>1. /\ b \in Backends /\ circ' = [circ EXCEPT ![b] = RecordSuccess(@)] /\ verdicts' = verdicts
        /\ circ' \in [Backends -> EntryType] /\ Ends(c, "ok") /\ call[c].pc = "asked"
    BY <1>7, <2>0, AnswerOkFacts
  <2>2. /\ circ'[b] = RecordSuccess(circ[b]) /\ \A d \in Backends : d # b => circ'[d] = circ[d]
        /\ circ[b] \in EntryType
    BY <1>t, <2>1
  <2>3. circ'[b].state = "half-open" =>
          circ[b].state = "half-open" /\ circ'[b].probes = IF circ[b].probes = 0 THEN 0 ELSE circ[b].probes - 1
    BY <2>2, EntryFacts
  <2>4. ASSUME NEW d \in Backends, circ'[d].state = "half-open"
        PROVE  /\ circ[d].state = "half-open" /\ circ'[d].probes <= SuccessThreshold
               /\ circ'[d].probes + Held(c, d) <= Cardinality(InFlight(d)) + verdicts[d]
    <3>1. circ[d].state = "half-open" /\ circ[d].probes \in Nat /\ verdicts[d] \in Nat /\ SuccessThreshold \in Nat
      BY <1>t, <2>2, <2>3, <2>4, ClientAssumption DEF EntryType
    <3>2. circ[d].probes <= SuccessThreshold /\ circ[d].probes <= Cardinality(InFlight(d)) + verdicts[d]
      BY <3>1 DEF Probed
    <3>3. Cardinality(InFlight(d)) \in Nat /\ Held(c, d) <= Cardinality(InFlight(d)) /\ Held(c, d) \in {0, 1}
      <4>1. InFlight(d) \subseteq Calls /\ IsFiniteSet(Calls)
        BY ClientAssumption DEF InFlight
      <4>2. IsFiniteSet(InFlight(d)) /\ Cardinality(InFlight(d)) \in Nat
        BY <4>1, FS_Subset, FS_CardinalityType
      <4>3. Cardinality(InFlight(d)) = 0 => c \notin InFlight(d)
        BY <4>2, FS_EmptySet
      <4> QED
        BY <4>2, <4>3 DEF Held
    <3>4. d # b => Held(c, d) = 0
      BY <2>0 DEF Held, InFlight
    <3> HIDE DEF Held, InFlight
    <3>5. CASE d = b
      BY <2>3, <2>4, <3>1, <3>2, <3>3, <3>5
    <3>6. CASE d # b
      BY <2>2, <3>1, <3>2, <3>4, <3>6
    <3> QED
      BY <3>5, <3>6
  <2>5. SlotsWithout(c, circ', verdicts')
    BY <2>1, <2>4 DEF SlotsWithout
  <2> QED
    BY <1>t, <2>1, <2>5, EndsProbes
<1>8. ASSUME NEW c \in Calls, AnswerError(c)
      PROVE  Probed'
  <2>0. PICK b : b = call[c].at
    OBVIOUS
  <2> DEFINE fail == [circ EXCEPT ![b] = RecordFailure(@)]
             v == IF circ[b].state = "half-open"
                  THEN [verdicts EXCEPT ![b] = Min({@ + 1, SuccessThreshold})] ELSE verdicts
  <2>1. /\ b \in Backends
        /\ \/ /\ Ends(c, "already") \/ Ends(c, "rejected")
              /\ circ' = circ /\ verdicts' = VerdictsAfter(circ, circ', v)
              /\ v \in [Backends -> Nat]
           \/ \E r : Walked(c, r, circ, v)
           \/ \E r : Walked(c, r, fail, verdicts)
    <3> DEFINE m == call[c].m
    <3>1. PICK e \in Errors(b, m) :
                 LET status == Normalize(e)
                     ci == IF up[b] THEN circ ELSE fail
                     w == IF up[b] /\ circ[b].state = "half-open"
                          THEN [verdicts EXCEPT ![b] = Min({@ + 1, SuccessThreshold})] ELSE verdicts
                 IN \/ /\ m = "submit" /\ up[b] /\ Ends(c, Verdict(m, status)) /\ circ' = ci
                       /\ verdicts' = VerdictsAfter(circ, circ', w) /\ w \in [Backends -> Nat]
                    \/ \E r : Walked(c, r, ci, w)
      BY <1>8, <2>0, AnswerErrorFacts
    <3>2. b \in Backends
      BY <1>8, <2>0, AnswerErrorFacts
    <3>3. m = "submit" => Verdict(m, Normalize(e)) \in {"already", "rejected"}
      BY DEF Verdict
    <3> QED
      BY <3>1, <3>2, <3>3
  <2> HIDE DEF fail, v
  <2>2. SlotsWithout(c, circ, v)
    BY <2>0, <2>1, SlotsAfterVerdict DEF v
  <2>3. SlotsWithout(c, fail, verdicts)
    BY <2>0, <2>1, SlotsAfterFault DEF fail
  <2>4. CASE \E r : Walked(c, r, circ, v)
    BY <2>2, <2>4, WalkedProbes
  <2>5. CASE \E r : Walked(c, r, fail, verdicts)
    BY <2>3, <2>5, WalkedProbes
  <2>6. CASE /\ Ends(c, "already") \/ Ends(c, "rejected")
             /\ circ' = circ /\ verdicts' = VerdictsAfter(circ, circ', v) /\ v \in [Backends -> Nat]
    <3>1. verdicts' = v
      BY <2>6 DEF VerdictsAfter
    <3> QED
      BY <1>t, <2>2, <2>6, <3>1, EndsProbes
  <2> QED
    BY <2>1, <2>4, <2>5, <2>6
<1>9. ASSUME NEW c \in Calls, Fail(c) \/ Settle(c)
      PROVE  Probed'
  <2>1. /\ call[c].pc \in {"failing", "settling"} /\ UNCHANGED <<circ, verdicts>>
        /\ \/ call' = [call EXCEPT ![c].pc = "settling"]
           \/ \E res \in {"none", "ok", "no", "unknown", "failed", "already", "rejected"} : Ends(c, res)
    BY <1>9, FailFacts, Outcomes
  <2>2. CASE call' = [call EXCEPT ![c].pc = "settling"]
    <3>1. call'[c].pc = "settling" /\ \A d \in Calls : d # c => call'[d] = call[d]
      BY <1>t, <2>2 DEF CallType
    <3>2. \A d \in Calls : call'[d] = call[d] \/ (~(call[d].pc \in AtBackend) /\ ~(call'[d].pc \in AtBackend))
      BY <2>1, <3>1 DEF AtBackend
    <3> QED
      BY <1>1, <2>1, <3>2
  <2>3. CASE \E res \in {"none", "ok", "no", "unknown", "failed", "already", "rejected"} : Ends(c, res)
    <3>1. ASSUME NEW d \in Calls
          PROVE  \/ call'[d] = call[d] /\ d # c
                 \/ call'[d].pc = "idle" /\ (d # c => call[d].pc = "join")
      BY <2>3, EndsFacts
    <3>2. \A d \in Calls : call'[d] = call[d] \/ (~(call[d].pc \in AtBackend) /\ ~(call'[d].pc \in AtBackend))
      BY <2>1, <3>1 DEF AtBackend
    <3> QED
      BY <1>1, <2>1, <3>2
  <2> QED
    BY <2>1, <2>2, <2>3
<1>10. ASSUME InitSucceeds \/ InitFails
       PROVE  Probed'
  <2>1. /\ init.todo # <<>> /\ UNCHANGED <<circ, verdicts>>
        /\ InitDecided(init.failed) \/ InitDecided(init.failed \cup {Head(init.todo)})
    BY <1>10 DEF InitSucceeds, InitFails
  <2>2. init.failed \in SUBSET Backends /\ init.failed \cup {Head(init.todo)} \in SUBSET Backends
    BY <2>1, InitHead DEF Typed, TypeOK
  <2>3. \A d \in Calls : call'[d] = call[d] \/ (call[d].pc = "init" /\ call'[d] = [call[d] EXCEPT !.pc = "failing"])
    BY <2>1, <2>2, InitDecidedFacts
  <2>4. \A d \in Calls : [call[d] EXCEPT !.pc = "failing"].pc = "failing"
    BY <1>t DEF CallType
  <2>5. \A d \in Calls : call'[d] = call[d] \/ (~(call[d].pc \in AtBackend) /\ ~(call'[d].pc \in AtBackend))
    BY <2>3, <2>4 DEF AtBackend
  <2> QED
    BY <1>1, <2>1, <2>5
<1>11. ASSUME NEW c \in Calls, LazySucceeds(c)
       PROVE  Probed'
  <2>1. call' = [call EXCEPT ![c].pc = "asked"] /\ call[c].pc = "lazy" /\ UNCHANGED <<circ, verdicts>>
    BY <1>11 DEF LazySucceeds
  <2>2. call'[c].pc = "asked" /\ call'[c].at = call[c].at /\ \A d \in Calls : d # c => call'[d] = call[d]
    BY <1>t, <2>1 DEF CallType
  <2> QED
    BY <1>1, <2>1, <2>2 DEF AtBackend
<1>12. ASSUME NEW c \in Calls, NEW m \in Offered, Request(c, m)
       PROVE  Probed'
  <2>1. call' = [call EXCEPT ![c] = [Idle EXCEPT !.pc = "start", !.m = m]] /\ call[c].pc = "idle"
        /\ UNCHANGED <<circ, verdicts>>
    BY <1>12 DEF Request
  <2>2. [Idle EXCEPT !.pc = "start", !.m = m].pc = "start"
    BY DEF Idle
  <2>3. \A d \in Calls : call'[d] = call[d] \/ (~(call[d].pc \in AtBackend) /\ ~(call'[d].pc \in AtBackend))
    BY <1>t, <2>1, <2>2 DEF AtBackend
  <2> QED
    BY <1>1, <2>1, <2>3
<1>13. ASSUME RecoverChainSync \/ \E b \in Backends : Age(b)
       PROVE  Probed'
  <2>1. UNCHANGED <<call, verdicts>>
    BY <1>13 DEF RecoverChainSync, Age
  <2>2. \A b \in Backends : circ'[b].state = "half-open" => circ'[b] = circ[b]
    <3>1. CASE RecoverChainSync
      <4>1. Live \in Backends
        BY DEF Backends
      <4>2. RecordFailure(circ[Live]).state # "half-open"
        BY <1>t, <4>1, EntryFacts
      <4> QED
        BY <1>t, <3>1, <4>2 DEF RecoverChainSync
    <3>2. ASSUME NEW b \in Backends, Age(b)
          PROVE  \A d \in Backends : circ'[d].state = "half-open" => circ'[d] = circ[d]
      <4>1. circ' = [circ EXCEPT ![b].aged = TRUE] /\ circ[b].state = "open"
        BY <3>2 DEF Age
      <4>2. circ'[b].state = "open" /\ \A d \in Backends : d # b => circ'[d] = circ[d]
        BY <1>t, <4>1 DEF EntryType
      <4> QED
        BY <4>2
    <3> QED
      BY <1>13, <3>1, <3>2
  <2>3. \A b \in Backends : InFlight(b)' = InFlight(b)
    BY <2>1 DEF InFlight
  <2> QED
    BY <2>1, <2>2, <2>3 DEF Probed
<1>14. ASSUME InitRetries \/ LateAccept \/ ParamsAge \/ \E b \in Backends : Flip(b)
       PROVE  Probed'
  <2>1. UNCHANGED <<circ, verdicts, call>>
    BY <1>14 DEF InitRetries, LateAccept, ParamsAge, Flip
  <2> QED
    BY <1>1, <2>1
<1> QED
  BY <1>4, <1>5, <1>6, <1>7, <1>8, <1>9, <1>10, <1>11, <1>12, <1>13, <1>14 DEF Next

-----------------------------------------------------------------------------
(* Answers *)

\* What was true stays true: the ledger keeps a transaction it took.
LEMMA TruthKept ==
  ASSUME NEW r, NEW t \in BOOLEAN, NEW u \in BOOLEAN, t => u, TruthOf(r, t)
  PROVE  TruthOf(r, u)
  BY DEF TruthOf

\* A walk keeps the errors; a batch goes on as a getTransaction.
LEMMA WalkedTruth ==
  ASSUME NEW r, NEW ci, NEW s, NEW cj, NEW t, WalkedTo(r, ci, s, cj), TruthOf([r EXCEPT !.pc = "start"], t),
         r \in CallType
  PROVE  TruthOf(s, t)
<1>1. s.errs = r.errs /\ s.pc # "idle" /\ (s.m = r.m \/ s.m = "tx")
  BY DEF WalkedTo, AtBackend
<1>2. [r EXCEPT !.pc = "start"].errs = r.errs /\ [r EXCEPT !.pc = "start"].m = r.m
  BY DEF CallType
<1> QED
  BY <1>1, <1>2 DEF TruthOf

\* The errors of a request, whatever it does next.
LEMMA ErrsTruth ==
  ASSUME NEW r \in CallType, NEW t, \A e \in r.errs : r.m = "account" /\ e.b # Live /\ e.status = 404 => account = "absent"
  PROVE  TruthOf([r EXCEPT !.pc = "start"], t)
  BY DEF TruthOf, CallType

\* An outcome that tells the truth.
LEMMA EndedTruth ==
  ASSUME NEW r \in CallType, NEW t,
         NEW res \in {"none", "ok", "no", "unknown", "failed", "already", "rejected"},
         r.m = "account" /\ res = "no" => account = "absent",
         r.m = "submit" /\ res = "rejected" => ~valid,
         r.m = "submit" /\ res \in {"ok", "already"} => t
  PROVE  TruthOf(Ended(r, res), t)
  BY EndedFacts DEF TruthOf

\* An outcome told to a request and to those who joined it.
LEMMA EndsTruths ==
  ASSUME Typed, Truths, NEW c \in Calls, NEW t \in BOOLEAN, mempool => t,
         NEW res \in {"none", "ok", "no", "unknown", "failed", "already", "rejected"}, Ends(c, res),
         call[c].m = "account" /\ res = "no" => account = "absent",
         call[c].m = "submit" /\ res = "rejected" => ~valid,
         call[c].m = "submit" /\ res \in {"ok", "already"} => t
  PROVE  \A d \in Calls : TruthOf(call'[d], t)
<1> SUFFICES ASSUME NEW d \in Calls
             PROVE  TruthOf(call'[d], t)
  OBVIOUS
<1>1. call \in [Calls -> CallType] /\ mempool \in BOOLEAN
      /\ (call[d].pc = "join" => Coalesced(call[d].m))
  BY DEF Typed, TypeOK, Shaped
<1>2. IF d = c \/ (call[d].pc = "join" /\ call[d].at = c)
      THEN call'[d] = Ended(call[d], res) ELSE call'[d] = call[d]
  BY EndsFacts
<1>3. CASE call'[d] = Ended(call[d], res) /\ d = c
  BY <1>1, <1>3, EndedTruth
<1>4. CASE call'[d] = Ended(call[d], res) /\ d # c /\ call[d].pc = "join"
  <2>1. call[d].m \notin {"account", "submit"} /\ call[d] \in CallType
    BY <1>1, <1>4 DEF Coalesced
  <2> QED
    BY <1>4, <2>1, EndedTruth
<1>5. CASE call'[d] = call[d]
  <2>1. TruthOf(call[d], mempool)
    BY DEF Truths
  <2> QED
    BY <1>1, <1>5, <2>1, TruthKept
<1> QED
  BY <1>2, <1>3, <1>4, <1>5

\* What the client knows and says stays true.
LEMMA TruthsStep ==
  ASSUME Typed, Truths, Next
  PROVE  Truths'
<1>t. /\ call \in [Calls -> CallType] /\ mempool \in BOOLEAN /\ late \in BOOLEAN /\ valid \in BOOLEAN
      /\ up \in [Backends -> BOOLEAN]
  BY DEF Typed, TypeOK
<1>w. account' = account /\ valid' = valid
  BY ZenonT(80) DEF Next, Request, Start, Resume, LazySucceeds, LazyFails, AnswerOk, AnswerError, Fail, Settle,
         InitSucceeds, InitRetries, InitFails, RecoverChainSync, LateAccept, Flip, Age, ParamsAge, Observe
<1>o. (mempool \/ late => valid) /\ \A d \in Calls : TruthOf(call[d], mempool)
  BY DEF Truths
<1>1. ASSUME mempool' \in BOOLEAN, mempool => mempool', mempool' \/ late' => valid,
             \A d \in Calls : TruthOf(call'[d], mempool')
      PROVE  Truths'
  BY <1>1, <1>w DEF Truths, TruthOf
<1>2. ASSUME UNCHANGED <<mempool, late>>,
             \A d \in Calls : call'[d] = call[d] \/ TruthOf(call'[d], mempool)
      PROVE  Truths'
  BY <1>t, <1>o, <1>1, <1>2
<1>3. ASSUME NEW d \in Calls
      PROVE  /\ \A e \in call[d].errs : call[d].m = "account" /\ e.b # Live /\ e.status = 404 => account = "absent"
             /\ call[d] \in CallType
  BY <1>t, <1>o DEF TruthOf
<1>4. ASSUME NEW c \in Calls, NEW m \in Offered, Request(c, m)
      PROVE  Truths'
  <2>1. call' = [call EXCEPT ![c] = [Idle EXCEPT !.pc = "start", !.m = m]] /\ UNCHANGED <<mempool, late>>
    BY <1>4 DEF Request
  <2>2. [Idle EXCEPT !.pc = "start", !.m = m].pc = "start" /\ [Idle EXCEPT !.pc = "start", !.m = m].errs = {}
    BY DEF Idle
  <2>3. TruthOf([Idle EXCEPT !.pc = "start", !.m = m], mempool)
    BY <2>2 DEF TruthOf
  <2> QED
    BY <1>t, <1>2, <2>1, <2>3
<1>5. ASSUME NEW c \in Calls, Start(c)
      PROVE  Truths'
  <2> DEFINE r == [call[c] EXCEPT !.todo = Order(call[c].m)]
  <2>1. /\ r \in CallType
        /\ \/ call' = [call EXCEPT ![c] = Idle]
           \/ call' = [call EXCEPT ![c].pc = "join", ![c].at = pend[call[c].m]]
           \/ call' = [call EXCEPT ![c] = [r EXCEPT !.pc = "init"]]
           \/ Walked(c, r, circ, verdicts)
    BY <1>5, StartFacts
  <2>2. UNCHANGED <<mempool, late>>
    BY <1>5 DEF Start
  <2>3. r.errs = call[c].errs /\ r.m = call[c].m
    BY <1>3 DEF CallType
  <2> HIDE DEF r
  <2>4. CASE call' = [call EXCEPT ![c] = Idle]
    <3>1. TruthOf(Idle, mempool)
      BY IdleFacts DEF TruthOf
    <3> QED
      BY <1>t, <1>2, <2>2, <2>4, <3>1
  <2>5. CASE call' = [call EXCEPT ![c].pc = "join", ![c].at = pend[call[c].m]]
    <3>1. call' = [call EXCEPT ![c] = [call[c] EXCEPT !.pc = "join", !.at = pend[call[c].m]]]
      BY <2>5
    <3>2. /\ [call[c] EXCEPT !.pc = "join", !.at = pend[call[c].m]].pc = "join"
          /\ [call[c] EXCEPT !.pc = "join", !.at = pend[call[c].m]].errs = call[c].errs
          /\ [call[c] EXCEPT !.pc = "join", !.at = pend[call[c].m]].m = call[c].m
      BY <1>t DEF CallType
    <3>3. TruthOf([call[c] EXCEPT !.pc = "join", !.at = pend[call[c].m]], mempool)
      BY <1>3, <3>2 DEF TruthOf
    <3> QED
      BY <1>t, <1>2, <2>2, <3>1, <3>3
  <2>6. CASE call' = [call EXCEPT ![c] = [r EXCEPT !.pc = "init"]]
    <3>1. [r EXCEPT !.pc = "init"].pc = "init" /\ [r EXCEPT !.pc = "init"].errs = r.errs /\ [r EXCEPT !.pc = "init"].m = r.m
      BY <2>1 DEF CallType
    <3>2. TruthOf([r EXCEPT !.pc = "init"], mempool)
      BY <1>3, <2>3, <3>1 DEF TruthOf
    <3> QED
      BY <1>t, <1>2, <2>2, <2>6, <3>2
  <2>7. CASE Walked(c, r, circ, verdicts)
    <3>1. TruthOf([r EXCEPT !.pc = "start"], mempool)
      BY <1>3, <2>1, <2>3, ErrsTruth
    <3>2. call' = [call EXCEPT ![c] = call'[c]] /\ WalkedTo(r, circ, call'[c], circ')
      BY <2>7 DEF Walked
    <3>3. TruthOf(call'[c], mempool)
      BY <2>1, <3>1, <3>2, WalkedTruth
    <3> QED
      BY <1>t, <1>2, <2>2, <3>2, <3>3
  <2> QED
    BY <2>1, <2>4, <2>5, <2>6, <2>7
<1>6. ASSUME NEW c \in Calls, Resume(c)
      PROVE  Truths'
  <2>1. Walked(c, call[c], circ, verdicts) /\ UNCHANGED <<mempool, late>>
    BY <1>6, ResumeFacts DEF Resume
  <2>2. TruthOf([call[c] EXCEPT !.pc = "start"], mempool)
    BY <1>3, ErrsTruth
  <2>3. call' = [call EXCEPT ![c] = call'[c]] /\ WalkedTo(call[c], circ, call'[c], circ')
    BY <2>1 DEF Walked
  <2>4. TruthOf(call'[c], mempool)
    BY <1>3, <2>2, <2>3, WalkedTruth
  <2> QED
    BY <1>t, <1>2, <2>1, <2>3, <2>4
<1>7. ASSUME NEW c \in Calls, LazySucceeds(c)
      PROVE  Truths'
  <2>1. call' = [call EXCEPT ![c] = [call[c] EXCEPT !.pc = "asked"]] /\ UNCHANGED <<mempool, late>>
    BY <1>7 DEF LazySucceeds
  <2>2. /\ [call[c] EXCEPT !.pc = "asked"].pc = "asked" /\ [call[c] EXCEPT !.pc = "asked"].errs = call[c].errs
        /\ [call[c] EXCEPT !.pc = "asked"].m = call[c].m
    BY <1>t DEF CallType
  <2>3. TruthOf([call[c] EXCEPT !.pc = "asked"], mempool)
    BY <1>3, <2>2 DEF TruthOf
  <2> QED
    BY <1>t, <1>2, <2>1, <2>3
<1>8. ASSUME NEW c \in Calls, LazyFails(c)
      PROVE  Truths'
  <2> DEFINE b == call[c].at
             er == IF Routed(call[c].m) THEN call[c].errs \cup {[b |-> b, status |-> 500]} ELSE call[c].errs
             r == [call[c] EXCEPT !.errs = er]
             ci == [circ EXCEPT ![b] = RecordFailure(@)]
  <2>1. Walked(c, r, ci, verdicts)
    BY <1>8, LazyFailsFacts
  <2>2. UNCHANGED <<mempool, late>>
    BY <1>8 DEF LazyFails
  <2>3. r \in CallType /\ call' = [call EXCEPT ![c] = call'[c]] /\ WalkedTo(r, ci, call'[c], circ')
    BY <2>1 DEF Walked
  <2>4. \A e \in er : e \in call[c].errs \/ e.status = 500
    OBVIOUS
  <2> HIDE DEF er, ci
  <2>5. r.errs = er /\ r.m = call[c].m
    BY <1>3 DEF CallType
  <2> HIDE DEF r
  <2>6. TruthOf([r EXCEPT !.pc = "start"], mempool)
    BY <1>3, <2>3, <2>4, <2>5, ErrsTruth
  <2>7. TruthOf(call'[c], mempool)
    BY <2>3, <2>6, WalkedTruth
  <2> QED
    BY <1>t, <1>2, <2>2, <2>3, <2>7
<1>9. ASSUME NEW c \in Calls, AnswerOk(c)
      PROVE  Truths'
  <2>1. /\ Ends(c, "ok") /\ CanServe(call[c].at, call[c].m) /\ mempool' = (mempool \/ call[c].m = "submit")
        /\ late' = late
    BY <1>9, AnswerOkFacts
  <2>2. mempool' \in BOOLEAN /\ (mempool => mempool') /\ (call[c].m = "submit" => mempool')
    BY <1>t, <2>1
  <2>3. mempool' \/ late' => valid
    BY <1>o, <2>1 DEF CanServe
  <2>4. \A d \in Calls : TruthOf(call'[d], mempool')
    BY <2>1, <2>2, EndsTruths
  <2> QED
    BY <1>1, <2>2, <2>3, <2>4
<1>10. ASSUME NEW c \in Calls, AnswerError(c)
       PROVE  Truths'
  <2>0. PICK b, m : b = call[c].at /\ m = call[c].m
    OBVIOUS
  <2>1. b \in Backends /\ m \in Methods /\ mempool' = mempool
    BY <1>10, <2>0, AnswerErrorFacts
  <2>2. PICK e \in Errors(b, m) :
          /\ \/ m = "submit" /\ up[b] /\ Ends(c, Verdict(m, Normalize(e)))
             \/ \E ci, v :
                  Walked(c, [call[c] EXCEPT !.errs = IF m = "batch" THEN @
                                                     ELSE @ \cup {[b |-> b, status |-> Normalize(e)]}], ci, v)
          /\ late' = (late \/ (m = "submit" /\ ~up[b] /\ valid))
    BY <1>10, <2>0, AnswerErrorFacts
  <2>3. up[b] \in BOOLEAN
    BY <1>t, <2>1
  <2>4. /\ m = "account" /\ b # Live /\ Normalize(e) = 404 => account = "absent"
        /\ m = "submit" /\ up[b] => IF mempool THEN Normalize(e) = 409 ELSE ~valid /\ Normalize(e) = 400
    BY <1>t, <2>1, <2>3, ErrorFacts
  <2>5. mempool' \/ late' => valid
    BY <1>o, <2>1, <2>2
  <2>6. CASE m = "submit" /\ up[b] /\ Ends(c, Verdict(m, Normalize(e)))
    <3>1. IF mempool THEN Verdict(m, Normalize(e)) = "already" ELSE ~valid /\ Verdict(m, Normalize(e)) = "rejected"
      BY <2>4, <2>6 DEF Verdict
    <3>2. CASE mempool
      <4>1. Ends(c, "already")
        BY <2>6, <3>1, <3>2
      <4>2. \A d \in Calls : TruthOf(call'[d], mempool)
        BY <1>t, <2>0, <2>6, <3>2, <4>1, EndsTruths
      <4> QED
        BY <1>t, <1>1, <2>1, <2>5, <4>2
    <3>3. CASE ~mempool
      <4>1. Ends(c, "rejected") /\ ~valid
        BY <2>6, <3>1, <3>3
      <4>2. \A d \in Calls : TruthOf(call'[d], mempool)
        BY <1>t, <2>0, <2>6, <4>1, EndsTruths
      <4> QED
        BY <1>t, <1>1, <2>1, <2>5, <4>2
    <3> QED
      BY <3>2, <3>3
  <2>7. CASE \E ci, v :
                  Walked(c, [call[c] EXCEPT !.errs = IF m = "batch" THEN @
                                                     ELSE @ \cup {[b |-> b, status |-> Normalize(e)]}], ci, v)
    <3> DEFINE er == IF m = "batch" THEN call[c].errs ELSE call[c].errs \cup {[b |-> b, status |-> Normalize(e)]}
               r == [call[c] EXCEPT !.errs = er]
    <3>1. PICK ci, v : Walked(c, r, ci, v)
      BY <2>7
    <3>2. r \in CallType /\ call' = [call EXCEPT ![c] = call'[c]] /\ WalkedTo(r, ci, call'[c], circ')
      BY <3>1 DEF Walked
    <3>3. \A f \in er : f \in call[c].errs \/ (f.b = b /\ f.status = Normalize(e))
      OBVIOUS
    <3> HIDE DEF er
    <3>4. r.errs = er /\ r.m = m
      BY <1>3, <2>0 DEF CallType
    <3> HIDE DEF r
    <3>5. TruthOf([r EXCEPT !.pc = "start"], mempool)
      BY <1>3, <2>0, <2>4, <3>2, <3>3, <3>4, ErrsTruth
    <3>6. TruthOf(call'[c], mempool)
      BY <3>2, <3>5, WalkedTruth
    <3>7. \A d \in Calls : TruthOf(call'[d], mempool')
      BY <1>o, <1>t, <2>1, <3>2, <3>6
    <3> QED
      BY <1>t, <1>1, <2>1, <2>5, <3>7
  <2> QED
    BY <2>2, <2>6, <2>7
<1>11. ASSUME NEW c \in Calls, Fail(c) \/ Settle(c)
       PROVE  Truths'
  <2>1. /\ UNCHANGED <<mempool, late>>
        /\ \/ call' = [call EXCEPT ![c].pc = "settling"]
           \/ Ends(c, IF call[c].m = "account" THEN Registration(call[c].errs) ELSE "failed")
           \/ Ends(c, "failed")
    BY <1>11, FailFacts
  <2>2. CASE call' = [call EXCEPT ![c].pc = "settling"]
    <3>1. call' = [call EXCEPT ![c] = [call[c] EXCEPT !.pc = "settling"]]
      BY <2>2
    <3>2. /\ [call[c] EXCEPT !.pc = "settling"].pc = "settling" /\ [call[c] EXCEPT !.pc = "settling"].errs = call[c].errs
          /\ [call[c] EXCEPT !.pc = "settling"].m = call[c].m
      BY <1>t DEF CallType
    <3>3. TruthOf([call[c] EXCEPT !.pc = "settling"], mempool)
      BY <1>3, <3>2 DEF TruthOf
    <3> QED
      BY <1>t, <1>2, <2>1, <3>1, <3>3
  <2>3. CASE Ends(c, "failed")
    <3>1. \A d \in Calls : TruthOf(call'[d], mempool)
      BY <1>t, <2>3, EndsTruths
    <3> QED
      BY <1>2, <2>1, <3>1
  <2>4. CASE Ends(c, Registration(call[c].errs)) /\ call[c].m = "account"
    <3>1. Registration(call[c].errs) = "no" => account = "absent"
      BY <1>3, <2>4 DEF Registration
    <3>2. \A d \in Calls : TruthOf(call'[d], mempool)
      BY <1>t, <2>4, <3>1, Outcomes, EndsTruths
    <3> QED
      BY <1>2, <2>1, <3>2
  <2> QED
    BY <2>1, <2>2, <2>3, <2>4
<1>12. ASSUME InitSucceeds \/ InitFails
       PROVE  Truths'
  <2>1. /\ init.todo # <<>> /\ UNCHANGED <<mempool, late>>
        /\ InitDecided(init.failed) \/ InitDecided(init.failed \cup {Head(init.todo)})
    BY <1>12 DEF InitSucceeds, InitFails
  <2>2. init.failed \in SUBSET Backends /\ init.failed \cup {Head(init.todo)} \in SUBSET Backends
    BY <2>1, InitHead DEF Typed, TypeOK
  <2>3. \A d \in Calls : call'[d] = call[d] \/ (call[d].pc = "init" /\ call'[d] = [call[d] EXCEPT !.pc = "failing"])
    BY <2>1, <2>2, InitDecidedFacts
  <2>4. ASSUME NEW d \in Calls
        PROVE  TruthOf([call[d] EXCEPT !.pc = "failing"], mempool)
    <3>1. /\ [call[d] EXCEPT !.pc = "failing"].pc = "failing" /\ [call[d] EXCEPT !.pc = "failing"].errs = call[d].errs
          /\ [call[d] EXCEPT !.pc = "failing"].m = call[d].m
      BY <1>t DEF CallType
    <3> QED
      BY <1>3, <3>1 DEF TruthOf
  <2>5. \A d \in Calls : call'[d] = call[d] \/ TruthOf(call'[d], mempool)
    BY <2>3, <2>4
  <2> QED
    BY <1>2, <2>1, <2>5
<1>13. ASSUME LateAccept
       PROVE  Truths'
  <2>1. mempool' = TRUE /\ late /\ late' = late /\ call' = call
    BY <1>13 DEF LateAccept
  <2>2. \A d \in Calls : TruthOf(call'[d], mempool')
    BY <1>t, <1>o, <2>1, TruthKept
  <2> QED
    BY <1>1, <1>o, <2>1, <2>2
<1>14. ASSUME InitRetries \/ RecoverChainSync \/ ParamsAge \/ \E b \in Backends : Flip(b) \/ Age(b)
       PROVE  Truths'
  <2>1. UNCHANGED <<call, mempool, late>>
    BY <1>14 DEF InitRetries, RecoverChainSync, ParamsAge, Flip, Age
  <2> QED
    BY <1>2, <2>1
<1> QED
  BY <1>4, <1>5, <1>6, <1>7, <1>8, <1>9, <1>10, <1>11, <1>12, <1>13, <1>14 DEF Next

-----------------------------------------------------------------------------
(* Failover *)

\* What is usable throughout a request is usable now, and never comes back.
LEMMA GoodFacts ==
  ASSUME Next, NEW c \in Calls
  PROVE  /\ good'[c] \subseteq {b \in Backends : Usable(b, call[c].m)'}
         /\ call'[c].pc \in {"init", "lazy", "asked", "failing", "settling"} => good'[c] \subseteq good[c]
<1>1. Observe
  BY ZenonT(80) DEF Next, Request, Start, Resume, LazySucceeds, LazyFails, AnswerOk, AnswerError, Fail, Settle,
         InitSucceeds, InitRetries, InitFails, RecoverChainSync, LateAccept, Flip, Age, ParamsAge
<1> DEFINE now == {b \in Backends : Usable(b, call[c].m)'}
<1>2. good'[c] = IF call[c].pc = "idle" /\ call'[c].pc = "start" THEN now
                 ELSE IF call'[c].pc \in {"join", "idle"} THEN {} ELSE good[c] \cap now
  BY <1>1 DEF Observe
<1> HIDE DEF now
<1>3. good'[c] \subseteq now /\ (call'[c].pc \in {"init", "lazy", "asked", "failing", "settling"} => good'[c] \subseteq good[c])
  BY <1>2
<1> QED
  BY <1>3 DEF now

\* A walk skips no backend whose circuit is closed.
LEMMA WalkedReaches ==
  ASSUME NEW c \in Calls, NEW r, NEW ci, NEW v, Walked(c, r, ci, v), Routed(call'[c].m),
         call'[c].pc \in {"init", "lazy", "asked", "failing"}, NEW b \in Backends,
         Supports(b, call'[c].m), circ'[b].state = "closed", GaveVerdict(r, b) \/ InTodo(r, b)
  PROVE  Reaches(call'[c], b)
<1> DEFINE s == call'[c]
<1>1. WalkedTo(r, ci, s, circ')
  BY DEF Walked
<1>2. s.errs = r.errs
  BY <1>1 DEF WalkedTo
<1>3. CASE GaveVerdict(r, b)
  BY <1>2, <1>3 DEF Reaches, GaveVerdict
<1>4. CASE InTodo(r, b)
  <2>1. PICK j \in DOMAIN r.todo : r.todo[j] = b
    BY <1>4 DEF InTodo
  <2>2. ci[b].state = "closed"
    BY WalkedEntry
  <2>3. r.m = "batch" => FALSE
    BY <1>1 DEF WalkedTo, Routed
  <2>4. s.m = r.m
    BY <1>1, <2>3 DEF WalkedTo
  <2>5. Supports(r.todo[j], r.m) /\ ShouldAttempt(ci[r.todo[j]])
    BY <2>1, <2>2, <2>4 DEF ShouldAttempt
  <2>6. PICK k \in DOMAIN r.todo :
          /\ s.pc \in AtBackend /\ s.at = r.todo[k]
          /\ \A i \in DOMAIN r.todo : i > k => InTodo(s, r.todo[i])
          /\ \A i \in DOMAIN r.todo : i < k => ~(Supports(r.todo[i], r.m) /\ ShouldAttempt(ci[r.todo[i]]))
    BY <1>1, <2>1, <2>5 DEF WalkedTo
  <2>7. DOMAIN r.todo = 1 .. Len(r.todo) /\ Len(r.todo) \in Nat
    BY LenProperties DEF Walked, CallType
  <2>8. ~(j < k)
    BY <2>5, <2>6
  <2>9. j = k \/ j > k
    BY <2>7, <2>8
  <2> HIDE DEF s
  <2>10. s.pc \in {"lazy", "asked"}
    BY <2>6 DEF AtBackend
  <2>11. Reaches(s, b)
    BY <2>1, <2>6, <2>9, <2>10 DEF Reaches
  <2> QED
    BY <2>11 DEF s
<1> QED
  BY <1>3, <1>4

\* What a usable backend is.
LEMMA UsableFacts ==
  ASSUME Next, NEW c \in Calls, NEW b \in good'[c]
  PROVE  b \in Backends /\ up'[b] /\ initialized' /\ circ'[b].state = "closed" /\ Supports(b, call'[c].m)
<1>1. b \in Backends /\ Usable(b, call[c].m)'
  BY GoodFacts
<1>2. Supports(b, call[c].m)' <=> Supports(b, call'[c].m)
  BY DEF Supports, Routed
<1> QED
  BY <1>1, <1>2 DEF Usable

\* A request leaves no usable backend behind without a verdict.
LEMMA SearchedStep ==
  ASSUME Typed, Searched, Next
  PROVE  Searched'
<1> DEFINE Busy == {"init", "lazy", "asked", "failing"}
<1>t. /\ call \in [Calls -> CallType] /\ up \in [Backends -> BOOLEAN]
  BY DEF Typed, TypeOK
<1>g. \A d \in Calls : good'[d] \subseteq {b \in Backends : Usable(b, call[d].m)'}
  BY GoodFacts
<1>u. \A d \in Calls : \A b \in good'[d] :
        b \in Backends /\ up'[b] /\ initialized' /\ circ'[b].state = "closed" /\ Supports(b, call'[d].m)
  BY UsableFacts
<1>k. \A d \in Calls : call'[d].pc \in Busy => good'[d] \subseteq good[d]
  BY GoodFacts
<1>o. \A d \in Calls : Routed(call[d].m) /\ call[d].pc \in Busy => \A b \in good[d] : Reaches(call[d], b)
  BY DEF Searched
<1>1. ASSUME \A d \in Calls : \/ call'[d] = call[d] \/ call'[d].pc \notin Busy
                              \/ Routed(call'[d].m) => \A b \in good'[d] : Reaches(call'[d], b)
      PROVE  Searched'
  <2>1. ASSUME NEW d \in Calls, Routed(call'[d].m), call'[d].pc \in Busy, NEW b \in good'[d]
        PROVE  Reaches(call'[d], b)
    BY <1>1, <1>k, <1>o, <2>1
  <2>2. \A d \in Calls : (Routed(call'[d].m) <=> Routed(call[d].m)') /\ \A b : Reaches(call'[d], b) <=> Reaches(call[d], b)'
    BY DEF Routed, Reaches, GaveVerdict, InTodo
  <2>3. \A d \in Calls : Routed(call[d].m)' /\ call'[d].pc \in Busy => \A b \in good'[d] : Reaches(call[d], b)'
    BY <2>1, <2>2
  <2> QED
    BY <1>g, <2>3 DEF Searched
<1>2. ASSUME NEW c \in Calls, NEW r, NEW ci, NEW v, Walked(c, r, ci, v),
             call'[c].pc \in Busy /\ Routed(call'[c].m) => \A b \in good'[c] : GaveVerdict(r, b) \/ InTodo(r, b)
      PROVE  Searched'
  <2>1. \A d \in Calls : d # c => call'[d] = call[d]
    BY <1>2, <1>t DEF Walked
  <2>2. ASSUME Routed(call'[c].m), call'[c].pc \in Busy, NEW b \in good'[c]
        PROVE  Reaches(call'[c], b)
    BY <1>2, <1>u, <2>2, WalkedReaches
  <2> QED
    BY <1>1, <2>1, <2>2
<1>4. ASSUME NEW c \in Calls, NEW m \in Offered, Request(c, m)
      PROVE  Searched'
  <2>1. call' = [call EXCEPT ![c] = [Idle EXCEPT !.pc = "start", !.m = m]]
    BY <1>4 DEF Request
  <2>2. [Idle EXCEPT !.pc = "start", !.m = m].pc = "start"
    BY DEF Idle
  <2> QED
    BY <1>t, <1>1, <2>1, <2>2
<1>5. ASSUME NEW c \in Calls, Start(c)
      PROVE  Searched'
  <2> DEFINE r == [call[c] EXCEPT !.todo = Order(call[c].m)]
  <2>1. /\ r \in CallType
        /\ \/ call' = [call EXCEPT ![c] = Idle]
           \/ call' = [call EXCEPT ![c].pc = "join", ![c].at = pend[call[c].m]]
           \/ call' = [call EXCEPT ![c] = [r EXCEPT !.pc = "init"]]
           \/ Walked(c, r, circ, verdicts)
    BY <1>5, StartFacts
  <2>2. call[c] \in CallType /\ call[c].m \in Methods
    BY <1>t DEF CallType
  <2>3. r.todo = Order(call[c].m) /\ r.m = call[c].m
    BY <2>2 DEF CallType
  <2>4. Routed(call[c].m) => \A b \in Backends : InTodo(r, b)
    BY <2>2, <2>3, OrderFacts DEF InTodo
  <2> HIDE DEF r
  <2>5. CASE call' = [call EXCEPT ![c] = Idle]
    BY <1>t, <1>1, <2>5, IdleFacts
  <2>6. CASE call' = [call EXCEPT ![c].pc = "join", ![c].at = pend[call[c].m]]
    <3>1. call'[c].pc = "join" /\ \A d \in Calls : d # c => call'[d] = call[d]
      BY <1>t, <2>6 DEF CallType
    <3> QED
      BY <1>1, <3>1
  <2>7. CASE call' = [call EXCEPT ![c] = [r EXCEPT !.pc = "init"]]
    <3>1. [r EXCEPT !.pc = "init"].pc = "init" /\ [r EXCEPT !.pc = "init"].todo = r.todo /\ [r EXCEPT !.pc = "init"].m = r.m
      BY <2>1 DEF CallType
    <3>2. Routed(call[c].m) => \A b \in Backends : Reaches([r EXCEPT !.pc = "init"], b)
      BY <2>4, <3>1 DEF Reaches, InTodo
    <3>3. call'[c] = [r EXCEPT !.pc = "init"] /\ \A d \in Calls : d # c => call'[d] = call[d]
      BY <1>t, <2>7
    <3>4. Routed(call'[c].m) => \A b \in good'[c] : Reaches(call'[c], b)
      BY <1>u, <2>3, <3>1, <3>2, <3>3
    <3> QED
      BY <1>1, <3>3, <3>4
  <2>8. CASE Walked(c, r, circ, verdicts)
    <3>1. call'[c].m = r.m \/ call'[c].pc = "start"
      BY <2>8 DEF Walked, WalkedTo
    <3>2. call'[c].pc \in Busy /\ Routed(call'[c].m) => \A b \in good'[c] : InTodo(r, b)
      BY <1>u, <2>3, <2>4, <3>1
    <3> QED
      BY <1>2, <2>8, <3>2
  <2> QED
    BY <2>1, <2>5, <2>6, <2>7, <2>8
<1>6. ASSUME NEW c \in Calls, Resume(c)
      PROVE  Searched'
  <2>1. Walked(c, call[c], circ, verdicts) /\ call[c].pc = "init"
    BY <1>6, ResumeFacts
  <2>2. call'[c].m = call[c].m \/ call'[c].pc \notin Busy
    BY <2>1 DEF Walked, WalkedTo
  <2>3. call'[c].pc \in Busy /\ Routed(call'[c].m) => \A b \in good'[c] : GaveVerdict(call[c], b) \/ InTodo(call[c], b)
    BY <1>k, <1>o, <2>1, <2>2 DEF Reaches, AtBackend
  <2> QED
    BY <1>2, <2>1, <2>3
<1>7. ASSUME NEW c \in Calls, LazySucceeds(c)
      PROVE  Searched'
  <2>1. call' = [call EXCEPT ![c] = [call[c] EXCEPT !.pc = "asked"]] /\ call[c].pc = "lazy"
    BY <1>7 DEF LazySucceeds
  <2>2. /\ [call[c] EXCEPT !.pc = "asked"].pc = "asked" /\ [call[c] EXCEPT !.pc = "asked"].errs = call[c].errs
        /\ [call[c] EXCEPT !.pc = "asked"].m = call[c].m /\ [call[c] EXCEPT !.pc = "asked"].todo = call[c].todo
        /\ [call[c] EXCEPT !.pc = "asked"].at = call[c].at
    BY <1>t DEF CallType
  <2>3. \A b : Reaches(call[c], b) => Reaches([call[c] EXCEPT !.pc = "asked"], b)
    BY <2>1, <2>2 DEF Reaches, GaveVerdict, InTodo, AtBackend
  <2>4. call'[c] = [call[c] EXCEPT !.pc = "asked"] /\ \A d \in Calls : d # c => call'[d] = call[d]
    BY <1>t, <2>1
  <2>5. Routed(call'[c].m) => \A b \in good'[c] : Reaches(call'[c], b)
    BY <1>k, <1>o, <2>1, <2>2, <2>3, <2>4
  <2> QED
    BY <1>1, <2>4, <2>5
<1>8. ASSUME NEW c \in Calls, LazyFails(c)
      PROVE  Searched'
  <2>0. PICK b0 : b0 = call[c].at
    OBVIOUS
  <2> DEFINE er == IF Routed(call[c].m) THEN call[c].errs \cup {[b |-> b0, status |-> 500]} ELSE call[c].errs
             r == [call[c] EXCEPT !.errs = er]
             ci == [circ EXCEPT ![b0] = RecordFailure(@)]
  <2>1. Walked(c, r, ci, verdicts) /\ call[c].pc = "lazy" /\ ~up'[b0]
    BY <1>8, <2>0, LazyFailsFacts, ZenonT(80)
  <2>2. r.errs = er /\ r.m = call[c].m /\ r.todo = call[c].todo /\ call[c].errs \subseteq er
    BY <1>t DEF CallType
  <2> HIDE DEF er, ci, r
  <2>3. call'[c].m = call[c].m \/ call'[c].pc \notin Busy
    BY <2>1, <2>2 DEF Walked, WalkedTo
  <2>4. \A b : Reaches(call[c], b) /\ b # b0 => GaveVerdict(r, b) \/ InTodo(r, b)
    BY <2>0, <2>1, <2>2 DEF Reaches, GaveVerdict, InTodo
  <2>5. call'[c].pc \in Busy /\ Routed(call'[c].m) => \A b \in good'[c] : GaveVerdict(r, b) \/ InTodo(r, b)
    BY <1>k, <1>o, <1>u, <2>1, <2>3, <2>4
  <2> QED
    BY <1>2, <2>1, <2>5
<1>9. ASSUME NEW c \in Calls, AnswerOk(c)
      PROVE  Searched'
  <2>1. Ends(c, "ok")
    BY <1>9, AnswerOkFacts
  <2>2. \A d \in Calls : call'[d].pc = "idle" \/ call'[d] = call[d]
    BY <2>1, EndsFacts
  <2> QED
    BY <1>1, <2>2
<1>10. ASSUME NEW c \in Calls, AnswerError(c)
       PROVE  Searched'
  <2>0. PICK b0, m : b0 = call[c].at /\ m = call[c].m
    OBVIOUS
  <2>1. b0 \in Backends /\ m \in Methods /\ up' = up /\ call[c].pc = "asked"
    BY <1>10, <2>0, AnswerErrorFacts
  <2>2. PICK e \in Errors(b0, m) :
          \/ Ends(c, Verdict(m, Normalize(e)))
          \/ \E ci, v :
               Walked(c, [call[c] EXCEPT !.errs = IF m = "batch" THEN @
                                                  ELSE @ \cup {[b |-> b0, status |-> Normalize(e)]}], ci, v)
    BY <1>10, <2>0, AnswerErrorFacts
  <2>3. up[b0] \in BOOLEAN /\ (up[b0] <=> IsClientError(Normalize(e)))
    <3>1. up[b0] \in BOOLEAN /\ mempool \in BOOLEAN /\ valid \in BOOLEAN
      BY <1>t, <2>1 DEF Typed, TypeOK
    <3> QED
      BY <2>1, <3>1, ErrorFacts
  <2>6. CASE Ends(c, Verdict(m, Normalize(e)))
    <3>1. \A d \in Calls : call'[d].pc = "idle" \/ call'[d] = call[d]
      BY <2>6, Outcomes, EndsFacts
    <3> QED
      BY <1>1, <3>1
  <2>7. CASE \E ci, v :
               Walked(c, [call[c] EXCEPT !.errs = IF m = "batch" THEN @
                                                  ELSE @ \cup {[b |-> b0, status |-> Normalize(e)]}], ci, v)
    <3> DEFINE er == IF m = "batch" THEN call[c].errs ELSE call[c].errs \cup {[b |-> b0, status |-> Normalize(e)]}
               r == [call[c] EXCEPT !.errs = er]
    <3>1. PICK ci, v : Walked(c, r, ci, v)
      BY <2>7
    <3>2. r.errs = er /\ r.m = m /\ r.todo = call[c].todo /\ call[c].errs \subseteq er
      BY <1>t, <2>0 DEF CallType
    <3>3. ASSUME Routed(m), up[b0]
          PROVE  GaveVerdict(r, b0)
      <4>1. PICK f : f = [b |-> b0, status |-> Normalize(e)]
        OBVIOUS
      <4>2. f.b = b0 /\ f.status = Normalize(e) /\ f \in er
        BY <3>3, <4>1 DEF Routed
      <4> HIDE DEF er, r
      <4> QED
        BY <2>3, <3>2, <3>3, <4>2 DEF GaveVerdict
    <3> HIDE DEF er, r
    <3>4. call'[c].m = m \/ call'[c].pc \notin Busy
      BY <3>1, <3>2 DEF Walked, WalkedTo
    <3>5. \A b : Reaches(call[c], b) /\ b # b0 => GaveVerdict(r, b) \/ InTodo(r, b)
      BY <2>0, <3>2 DEF Reaches, GaveVerdict, InTodo
    <3>6. call'[c].pc \in Busy /\ Routed(call'[c].m) => \A b \in good'[c] : GaveVerdict(r, b) \/ InTodo(r, b)
      BY <1>k, <1>o, <1>u, <2>0, <2>1, <3>3, <3>4, <3>5
    <3> QED
      BY <1>2, <3>1, <3>6
  <2> QED
    BY <2>2, <2>6, <2>7
<1>11. ASSUME NEW c \in Calls, Fail(c) \/ Settle(c)
       PROVE  Searched'
  <2>1. /\ call[c].pc \in {"failing", "settling"}
        /\ \/ call' = [call EXCEPT ![c].pc = "settling"]
           \/ \E res \in {"none", "ok", "no", "unknown", "failed", "already", "rejected"} : Ends(c, res)
    BY <1>11, FailFacts, Outcomes
  <2>2. CASE call' = [call EXCEPT ![c].pc = "settling"]
    <3>1. call'[c].pc = "settling" /\ \A d \in Calls : d # c => call'[d] = call[d]
      BY <1>t, <2>2 DEF CallType
    <3> QED
      BY <1>1, <3>1
  <2>3. CASE \E res \in {"none", "ok", "no", "unknown", "failed", "already", "rejected"} : Ends(c, res)
    <3>1. \A d \in Calls : call'[d].pc = "idle" \/ call'[d] = call[d]
      BY <2>3, EndsFacts
    <3> QED
      BY <1>1, <3>1
  <2> QED
    BY <2>1, <2>2, <2>3
<1>12. ASSUME InitSucceeds \/ InitFails
       PROVE  Searched'
  <2>1. init.todo # <<>> /\ (InitDecided(init.failed) \/ InitDecided(init.failed \cup {Head(init.todo)}))
    BY <1>12 DEF InitSucceeds, InitFails
  <2>2. init.failed \in SUBSET Backends /\ init.failed \cup {Head(init.todo)} \in SUBSET Backends
    BY <2>1, InitHead DEF Typed, TypeOK
  <2>3. \A d \in Calls : call'[d] = call[d] \/ ~initialized'
    BY <2>1, <2>2, InitDecidedFacts
  <2>4. ~initialized' => \A d \in Calls : good'[d] = {}
    BY <1>u
  <2> QED
    BY <1>1, <2>3, <2>4
<1>13. ASSUME LateAccept \/ InitRetries \/ RecoverChainSync \/ ParamsAge \/ \E b \in Backends : Flip(b) \/ Age(b)
       PROVE  Searched'
  <2>1. call' = call
    BY <1>13 DEF LateAccept, InitRetries, RecoverChainSync, ParamsAge, Flip, Age
  <2> QED
    BY <1>1, <2>1
<1> QED
  BY <1>4, <1>5, <1>6, <1>7, <1>8, <1>9, <1>10, <1>11, <1>12, <1>13 DEF Next

-----------------------------------------------------------------------------
(* Theorems *)

\* The inductive invariant.
ClientInv == Typed /\ Truths /\ Counted /\ Probed /\ Searched

\* The invariant holds initially.
LEMMA ClientInit ==
  ASSUME Init
  PROVE  ClientInv
<1>1. <<>> \in Seq(Backends)
  OBVIOUS
<1>2. \A c \in Calls : call[c] = Idle
  BY DEF Init
<1>3. NewEntry \in EntryType /\ NewEntry.state = "closed" /\ NewEntry.failures = 0
  BY DEF NewEntry, EntryType
<1>4. FailureThreshold \in Nat \ {0}
  BY ClientAssumption
<1>5. account \in {"absent", "registered", "delegated"} /\ valid \in BOOLEAN
  BY DEF Init
<1>6. init \in [todo : Seq(Backends), tries : Nat, failed : SUBSET Backends] /\ init.todo = <<>>
  BY <1>1 DEF Init, NoInit
<1>7. call \in [Calls -> CallType] /\ circ \in [Backends -> EntryType]
  BY <1>3, IdleFacts DEF Init
<1>8. Typed
  BY <1>2, <1>5, <1>6, <1>7, IdleFacts DEF Typed, TypeOK, Shaped, Init, AtBackend
<1>9. Truths
  BY <1>2, IdleFacts DEF Truths, TruthOf, Init
<1>10. Counted
  BY <1>3, <1>4 DEF Counted, Init
<1>11. Probed
  BY <1>3 DEF Probed, Init
<1>12. Searched
  BY <1>2, IdleFacts DEF Searched, Init
<1> QED
  BY <1>8, <1>9, <1>10, <1>11, <1>12 DEF ClientInv

\* Every step keeps the invariant.
LEMMA ClientStep ==
  ASSUME ClientInv, [Next]_vars
  PROVE  ClientInv'
<1>1. CASE Next
  BY <1>1, TypedStep, TruthsStep, CountedStep, ProbedStep, SearchedStep DEF ClientInv
<1>2. CASE UNCHANGED vars
  <2>1. Typed'
    BY <1>2 DEF vars, ClientInv, Typed, TypeOK, Shaped
  <2>2. Truths'
    BY <1>2 DEF vars, ClientInv, Truths, TruthOf
  <2>3. Counted'
    BY <1>2 DEF vars, ClientInv, Counted
  <2>4. Probed'
    BY <1>2 DEF vars, ClientInv, Probed, InFlight
  <2>5. Searched'
    <3>1. UNCHANGED <<up, uninit, initialized, circ, call, good>>
      BY <1>2 DEF vars
    <3>2. \A c \in Calls, b \in Backends : Usable(b, call[c].m)' <=> Usable(b, call[c].m)
      BY <3>1 DEF Usable, Supports, Routed
    <3>3. \A c \in Calls, b \in Backends : Reaches(call[c], b)' <=> Reaches(call[c], b)
      BY <3>1 DEF Reaches, GaveVerdict, InTodo
    <3>4. \A c \in Calls : Routed(call[c].m)' <=> Routed(call[c].m)
      BY <3>1 DEF Routed
    <3>5. Searched
      BY DEF ClientInv
    <3>6. \A c \in Calls : good'[c] \subseteq {b \in Backends : Usable(b, call[c].m)'}
      BY <3>1, <3>2, <3>5 DEF Searched
    <3>7. \A c \in Calls : Routed(call[c].m)' /\ call'[c].pc \in {"init", "lazy", "asked", "failing"}
            => \A b \in good'[c] : Reaches(call[c], b)'
      BY <3>1, <3>3, <3>4, <3>5 DEF Searched
    <3> QED
      BY <3>6, <3>7 DEF Searched
  <2> QED
    BY <2>1, <2>2, <2>3, <2>4, <2>5 DEF ClientInv
<1> QED
  BY <1>1, <1>2

\* The invariant of the client holds in every state.
LEMMA ClientInvariant == Spec => []ClientInv
  BY ClientInit, ClientStep, PTL DEF Spec

\* What cardano-client.ts keeps in its fields has its type.
THEOREM ClientIsTyped == Spec => []TypeOK
<1>1. ClientInv => TypeOK
  BY DEF ClientInv, Typed
<1> QED
  BY <1>1, ClientInvariant, PTL

\* isRewardAccountRegistered and submitTransaction never contradict the ledger,
\* whatever backends fail, time out or answer late.
THEOREM AnswersTrue == Spec => []AnswersAreTrue
<1>1. ClientInv => AnswersAreTrue
  BY DEF ClientInv, Truths, TruthOf, AnswersAreTrue
<1> QED
  BY <1>1, ClientInvariant, PTL

\* A backend that missed failureThreshold requests in a row is behind an open
\* circuit, in whatever order the requests overlap.
THEOREM OutagesOpen == Spec => []OutageOpensCircuit
<1>1. ASSUME ClientInv
      PROVE  OutageOpensCircuit
  <2>1. ASSUME NEW b \in Backends, circ[b].state = "closed"
        PROVE  ~(missed[b] >= FailureThreshold)
    <3>1. missed[b] \in Nat /\ circ[b].failures \in Nat /\ FailureThreshold \in Nat
      BY <1>1, ClientAssumption DEF ClientInv, Typed, TypeOK, EntryType
    <3>2. missed[b] <= circ[b].failures /\ circ[b].failures < FailureThreshold
      BY <1>1, <2>1 DEF ClientInv, Counted
    <3> QED
      BY <3>1, <3>2
  <2> QED
    BY <2>1 DEF OutageOpensCircuit
<1> QED
  BY <1>1, ClientInvariant, PTL

\* No probe slot of a half-open circuit is held by a request that is over, but
\* for those a client error kept.
THEOREM SlotsReleased == Spec => []ProbesReleased
<1>1. ClientInv => ProbesReleased
  BY DEF ClientInv, Probed, ProbesReleased
<1> QED
  BY <1>1, ClientInvariant, PTL

\* executeWithPriority gives up only when every backend that could serve the
\* request throughout answered it with a verdict.
THEOREM FailoverComplete == Spec => []FailoverFindsHealthy
<1>1. ASSUME ClientInv
      PROVE  FailoverFindsHealthy
  <2>1. ASSUME NEW c \in Calls, call[c].pc = "failing", Routed(call[c].m), NEW b \in good[c]
        PROVE  \E e \in call[c].errs : e.b = b /\ IsClientError(e.status)
    <3>1. Reaches(call[c], b)
      BY <1>1, <2>1 DEF ClientInv, Searched
    <3> QED
      BY <2>1, <3>1 DEF Reaches, GaveVerdict, AtBackend
  <2> QED
    BY <2>1 DEF FailoverFindsHealthy
<1> QED
  BY <1>1, ClientInvariant, PTL

=============================================================================
