----------------------------- MODULE SigningProofs -----------------------------
(***************************************************************************)
(* Proofs about signing requests and submissions, for every number of      *)
(* requests, handlers, instances, crashes and lost answers.                *)
(*                                                                         *)
(* The argument.  SigningInv, for any number of instances on the database: *)
(* a handler names rows of the build it works on (Typed); what it was told *)
(* is on the ledger (AnswersHold), so what it records is true; and what    *)
(* the signing path holds, in a handler or stored in a deferred request,   *)
(* passed the verification of its build (HeldIsChecked), so the re-drive   *)
(* after a crash, which checks no required signer again, sends nothing     *)
(* that was not checked before the claim.                                  *)
(*                                                                         *)
(* That a request has one handler needs that the instance which boots is   *)
(* the only one (OneInstance): redriveInterruptedSubmissions takes every   *)
(* claimed request with a stored transaction for an interrupted one.       *)
(* ClaimsHold gives each claimed or locked request to one handler;         *)
(* BootsHold keeps what a boot has left to re-drive free of handlers.      *)
(*                                                                         *)
(* The steps are first reduced to a few kinds (StepKinds) that say which   *)
(* row and which handler changes; the invariants are proved of the kinds.  *)
(***************************************************************************)
EXTENDS Signing, SequenceTheorems, FiniteSetTheorems, TLAPS

USE DEF rows, world

\* Every signed transaction the model can come to hold.
ClientTxs == UNION {{ToSigned(b, in) : in \in Inputs} : b \in Builds}
HsmTxs == {HsmSigned(b, TRUE) : b \in Builds}
SignedTxs == {NoTx} \cup ClientTxs \cup HsmTxs

\* Types of the rows and of a handler's local state.
RequestStatuses == {"pending", "verified", "expired", "submitting", "submitted", "failed"}
RowStatuses == {"pending", "submitted", "confirmed", "failed", "dropped"}

RequestType == [b : Builds, status : RequestStatuses, aged : BOOLEAN, tx : SignedTxs, sub : Nat]
RowType == [b : Builds, status : RowStatuses]
SlotType == [pc : {"idle", "create", "callerTx", "send", "sent"}, r : Nat, s : Nat,
             b : Builds \cup {0}, tx : SignedTxs, defer : BOOLEAN,
             res : {"none", "ok", "already", "rejected", "unreachable"}]

\* The type invariant.
TypeOK ==
  /\ req \in Seq(RequestType) /\ subs \in Seq(RowType)
  /\ inst \in [Instances -> [pc : {"down", "booting", "up"}, todo : SUBSET Nat]]
  /\ slot \in [Slots -> SlotType]
  /\ ledger \in SUBSET Builds /\ deep \in SUBSET ledger

\* A handler between its claim and the end of the network call's outcome.
Busy == {"send", "sent"}

\* The rows a handler names exist and are of the build it works on.
Linked(t) ==
  /\ t.r <= Len(req) /\ t.s <= Len(subs)
  /\ t.pc # "idle" => t.b \in Builds
  /\ t.pc = "callerTx" => t.s = 0
  /\ t.pc \in Busy => t.r # 0 \/ t.s # 0
  /\ t.pc \in Busy \cup {"callerTx"} /\ t.r # 0 => req[t.r].b = t.b
  /\ t.pc \in Busy /\ t.s # 0 => subs[t.s].b = t.b

\* The types, and that handlers and boots name rows that exist.
Typed ==
  /\ TypeOK
  /\ \A h \in Slots : Linked(slot[h])
  /\ \A i \in Instances : inst[i].todo \subseteq Requests

\* What is answered as taken is on the ledger.
AnswersHold ==
  \A h \in Slots : slot[h].pc = "sent" /\ slot[h].res \in {"ok", "already"}
                     => slot[h].b \in ledger

\* The verification every transaction of the signing path passes.
Checked(t, b) ==
  Verifies(t, b, {}) /\ (b \notin HsmBuilds => Verifies(t, b, RequiredSigners(b)))

\* What the signing path holds, in a handler or in a request, was verified.
HeldIsChecked ==
  /\ \A h \in Slots : slot[h].pc \in Busy \cup {"callerTx"} /\ slot[h].s = 0
                        => Checked(slot[h].tx, slot[h].b)
  /\ \A h \in Slots : slot[h].pc \in Busy /\ slot[h].r # 0 => slot[h].s = 0
  /\ \A r \in Requests : req[r].tx # NoTx => Checked(req[r].tx, req[r].b)

\* All handlers run on one instance, as a single server on its database.
OneInstance == \A g, h \in Slots : InstanceOf[g] = InstanceOf[h]

\* The inductive invariant that needs no assumption on the instances.
SigningInv == Typed /\ AnswersHold /\ RecordedIsOnLedger /\ HeldIsChecked

-----------------------------------------------------------------------------
(* Rows and handlers *)

\* The rows stay well typed, none disappears, none changes its build.
RowsGrow ==
  /\ req' \in Seq(RequestType) /\ Len(req) <= Len(req')
  /\ \A r \in Requests : req'[r].b = req[r].b
  /\ subs' \in Seq(RowType) /\ Len(subs) <= Len(subs')
  /\ \A s \in Rows : subs'[s].b = subs[s].b

\* Lengths, elements.
LEMMA RowFacts ==
  ASSUME TypeOK
  PROVE  /\ Len(req) \in Nat /\ Len(subs) \in Nat
         /\ \A r \in Requests : r \in Nat /\ r # 0 /\ req[r] \in RequestType
         /\ \A s \in Rows : s \in Nat /\ s # 0 /\ subs[s] \in RowType
         /\ \A h \in Slots : slot[h] \in SlotType /\ InstanceOf[h] \in Instances
  BY InstanceAssumption DEF TypeOK, Requests, Rows

\* What merging and signing return is a transaction the model can hold.
LEMMA SignedTyped ==
  ASSUME NEW b \in Builds
  PROVE  /\ NoTx \in SignedTxs /\ HsmSigned(b, TRUE) \in SignedTxs
         /\ \A in \in Inputs : ToSigned(b, in) \in SignedTxs
<1>1. \A in \in Inputs : ToSigned(b, in) \in ClientTxs
  <2>1. ASSUME NEW in \in Inputs
        PROVE  ToSigned(b, in) \in {ToSigned(b, i) : i \in Inputs}
    OBVIOUS
  <2> QED
    BY <2>1 DEF ClientTxs
<1>2. HsmSigned(b, TRUE) \in HsmTxs
  BY DEF HsmTxs
<1> QED
  BY <1>1, <1>2 DEF SignedTxs

\* Rows nobody writes.
LEMMA RowsStay ==
  ASSUME TypeOK, UNCHANGED <<req, subs>>
  PROVE  RowsGrow
  BY RowFacts DEF TypeOK, RowsGrow, Requests, Rows

\* Submission rows nobody writes.
LEMMA RequestsGrow ==
  ASSUME TypeOK, UNCHANGED subs, req' \in Seq(RequestType), Len(req) <= Len(req'),
         \A r \in Requests : req'[r].b = req[r].b
  PROVE  RowsGrow /\ Rows' = Rows
<1>1. subs \in Seq(RowType) /\ Len(subs) \in Nat
  BY RowFacts DEF TypeOK
<1> QED
  BY <1>1 DEF RowsGrow, Rows

\* A request is updated in place, its build excepted.
LEMMA RequestUpdated ==
  ASSUME TypeOK, NEW r \in Requests, NEW q \in RequestType, q.b = req[r].b,
         req' = [req EXCEPT ![r] = q]
  PROVE  /\ req' \in Seq(RequestType) /\ Len(req') = Len(req) /\ req'[r] = q
         /\ \A i \in Requests \ {r} : req'[i] = req[i]
         /\ \A i \in Requests : req'[i].b = req[i].b
         /\ Requests' = Requests
<1>1. /\ req' \in Seq(RequestType) /\ Len(req') = Len(req)
      /\ \A i \in 1 .. Len(req) : req'[i] = IF i = r THEN q ELSE req[i]
  BY ExceptSeq DEF TypeOK, Requests
<1> QED
  BY <1>1 DEF Requests

\* A request is inserted.
LEMMA RequestInserted ==
  ASSUME TypeOK, NEW q \in RequestType, req' = Append(req, q)
  PROVE  /\ req' \in Seq(RequestType) /\ Len(req') = Len(req) + 1 /\ req'[Len(req) + 1] = q
         /\ \A i \in Requests : req'[i] = req[i]
         /\ Requests' = Requests \cup {Len(req) + 1}
<1>1. /\ req' \in Seq(RequestType) /\ Len(req') = Len(req) + 1 /\ req'[Len(req) + 1] = q
      /\ \A i \in 1 .. Len(req) : req'[i] = req[i]
  BY AppendProperties DEF TypeOK
<1> QED
  BY <1>1, RowFacts DEF Requests

\* A submission row is updated in place, its build excepted.
LEMMA RowUpdated ==
  ASSUME TypeOK, NEW s \in Rows, NEW q \in RowType, q.b = subs[s].b,
         subs' = [subs EXCEPT ![s] = q]
  PROVE  /\ subs' \in Seq(RowType) /\ Len(subs') = Len(subs) /\ subs'[s] = q
         /\ \A i \in Rows \ {s} : subs'[i] = subs[i]
         /\ \A i \in Rows : subs'[i].b = subs[i].b
         /\ Rows' = Rows
<1>1. /\ subs' \in Seq(RowType) /\ Len(subs') = Len(subs)
      /\ \A i \in 1 .. Len(subs) : subs'[i] = IF i = s THEN q ELSE subs[i]
  BY ExceptSeq DEF TypeOK, Rows
<1> QED
  BY <1>1 DEF Rows

\* A submission row is inserted.
LEMMA RowInserted ==
  ASSUME TypeOK, NEW q \in RowType, subs' = Append(subs, q)
  PROVE  /\ subs' \in Seq(RowType) /\ Len(subs') = Len(subs) + 1 /\ subs'[Len(subs) + 1] = q
         /\ \A i \in Rows : subs'[i] = subs[i]
         /\ Rows' = Rows \cup {Len(subs) + 1}
<1>1. /\ subs' \in Seq(RowType) /\ Len(subs') = Len(subs) + 1 /\ subs'[Len(subs) + 1] = q
      /\ \A i \in 1 .. Len(subs) : subs'[i] = subs[i]
  BY AppendProperties DEF TypeOK
<1> QED
  BY <1>1, RowFacts DEF Rows

\* One handler moves.
LEMMA SlotUpdated ==
  ASSUME TypeOK, NEW h \in Slots, NEW t \in SlotType, slot' = [slot EXCEPT ![h] = t]
  PROVE  /\ slot' \in [Slots -> SlotType] /\ slot'[h] = t
         /\ \A g \in Slots \ {h} : slot'[g] = slot[g]
  BY DEF TypeOK

\* The handler that ends is idle.
LEMMA IdleTyped == Idle \in SlotType /\ Idle.pc = "idle" /\ Idle.r = 0 /\ Idle.s = 0 /\ Idle.b = 0
  BY DEF Idle, SlotType, SignedTxs

\* The handlers that do not move stay linked to their rows.
LEMMA TypedFromParts ==
  ASSUME Typed, RowsGrow,
         inst' \in [Instances -> [pc : {"down", "booting", "up"}, todo : SUBSET Nat]],
         \A i \in Instances : inst'[i].todo \subseteq Requests',
         slot' \in [Slots -> SlotType],
         \A h \in Slots : slot'[h] = slot[h] \/ slot'[h] = Idle \/ Linked(slot[h])',
         ledger' \in SUBSET Builds, deep' \in SUBSET ledger'
  PROVE  Typed'
<1>1. ASSUME NEW h \in Slots
      PROVE  Linked(slot[h])'
  <2>1. CASE slot'[h] = slot[h]
    <3>1. Linked(slot[h]) /\ slot[h] \in SlotType
      BY RowFacts DEF Typed
    <3>2. slot[h].r # 0 => slot[h].r \in Requests
      BY <3>1, RowFacts DEF Linked, Requests, SlotType, Typed
    <3>3. slot[h].s # 0 => slot[h].s \in Rows
      BY <3>1, RowFacts DEF Linked, Rows, SlotType, Typed
    <3>4. Len(req') \in Nat /\ Len(subs') \in Nat /\ Len(req) \in Nat /\ Len(subs) \in Nat
      BY RowFacts DEF RowsGrow, Typed
    <3> QED
      BY <2>1, <3>1, <3>2, <3>3, <3>4 DEF Linked, RowsGrow, SlotType
  <2>2. CASE slot'[h] = Idle
    <3>1. Len(req') \in Nat /\ Len(subs') \in Nat
      BY DEF RowsGrow
    <3> QED
      BY <2>2, <3>1, IdleTyped DEF Linked, Busy
  <2> QED
    BY <2>1, <2>2
<1>2. TypeOK'
  BY DEF TypeOK, RowsGrow
<1> QED
  BY <1>1, <1>2 DEF Typed

-----------------------------------------------------------------------------
(* Type correctness *)

\* The initial states are well typed.
LEMMA TypedInit ==
  ASSUME Init
  PROVE  Typed
<1>1. req \in Seq(RequestType) /\ subs \in Seq(RowType) /\ Len(req) = 0 /\ Len(subs) = 0
  BY EmptySeq DEF Init
<1> QED
  BY <1>1, IdleTyped DEF Init, Typed, TypeOK, Linked, Busy

\* Requests that change by themselves: expiry, verification, age.
Drifts ==
  /\ UNCHANGED <<subs, slot, inst, ledger>> /\ deep' \in SUBSET ledger
  /\ req' \in Seq(RequestType) /\ Len(req) <= Len(req')
  /\ \A r \in Requests :
       /\ req'[r].b = req[r].b /\ req'[r].tx = req[r].tx
       /\ \/ req'[r].status = req[r].status
          \/ /\ req[r].status = "pending" /\ Unlocked(r)
             /\ req'[r].status \in {"expired", "verified", "failed"}
  /\ \A r \in Requests' \ Requests : req'[r].tx = NoTx /\ req'[r].status = "verified"

\* checkAndExpireSigningRequest, VerifySignature, SignWithHsm, age and the ledger.
DriftSteps ==
  \/ \E r \in Requests : ExpireOne(r) \/ Age(r) \/ \E in \in Inputs : VerifySignature(r, in)
  \/ \E b \in Builds : SignWithHsm(b) \/ Bury(b)
  \/ ExpireDue

\* Those steps are such changes.
LEMMA StepsDrift ==
  ASSUME Typed, DriftSteps
  PROVE  Drifts
<1>1. TypeOK
  BY DEF Typed
<1>2. CASE \E r \in Requests : ExpireOne(r) \/ Age(r) \/ \E in \in Inputs : VerifySignature(r, in)
  <2>1. PICK r \in Requests : ExpireOne(r) \/ Age(r) \/ \E in \in Inputs : VerifySignature(r, in)
    BY <1>2
  <2>2. req[r] \in RequestType
    BY <1>1, RowFacts
  <2>3. PICK st \in {req[r].status, "expired", "verified", "failed"}, ag \in {req[r].aged, TRUE} :
          /\ req' = [req EXCEPT ![r] = [req[r] EXCEPT !.status = st, !.aged = ag]]
          /\ st = req[r].status \/ (req[r].status = "pending" /\ Unlocked(r))
          /\ UNCHANGED <<subs, slot, inst, ledger, deep>>
    <3>1. CASE ExpireOne(r)
      <4>1. req' = [req EXCEPT ![r] = [req[r] EXCEPT !.status = "expired", !.aged = req[r].aged]]
        BY <3>1, <2>2 DEF ExpireOne, RequestType
      <4> QED  BY <3>1, <4>1 DEF ExpireOne, Due
    <3>2. CASE Age(r)
      <4>1. req' = [req EXCEPT ![r] = [req[r] EXCEPT !.status = req[r].status, !.aged = TRUE]]
        BY <3>2, <2>2 DEF Age, RequestType
      <4> QED  BY <3>2, <4>1 DEF Age
    <3>3. CASE \E in \in Inputs : VerifySignature(r, in)
      <4>1. PICK in \in Inputs : VerifySignature(r, in)
        BY <3>3
      <4> DEFINE st == IF Verifies(ToSigned(req[r].b, in), req[r].b, RequiredSigners(req[r].b))
                       THEN "verified" ELSE "failed"
      <4>2. req' = [req EXCEPT ![r].status = st]
        BY <4>1 DEF VerifySignature
      <4>3. st \in {"verified", "failed"}
        OBVIOUS
      <4> HIDE DEF st
      <4>4. req' = [req EXCEPT ![r] = [req[r] EXCEPT !.status = st, !.aged = req[r].aged]]
        BY <4>2, <2>2 DEF RequestType
      <4> QED  BY <4>1, <4>3, <4>4 DEF VerifySignature
    <3> QED
      BY <2>1, <3>1, <3>2, <3>3
  <2> DEFINE q == [req[r] EXCEPT !.status = st, !.aged = ag]
  <2>4. q \in RequestType /\ q.b = req[r].b /\ q.tx = req[r].tx /\ q.status = st
    BY <2>2 DEF RequestType, RequestStatuses
  <2> HIDE DEF q
  <2>5. /\ req' \in Seq(RequestType) /\ Len(req') = Len(req) /\ req'[r] = q
        /\ \A i \in Requests \ {r} : req'[i] = req[i]
        /\ Requests' = Requests
    BY <1>1, <2>3, <2>4, RequestUpdated DEF q
  <2>6. Len(req) <= Len(req')
    BY <2>5, <1>1, RowFacts
  <2> QED
    BY <1>1, <2>3, <2>4, <2>5, <2>6 DEF Drifts, TypeOK
<1>3. CASE \E b \in Builds : SignWithHsm(b) \/ Bury(b)
  <2>1. PICK b \in Builds : SignWithHsm(b) \/ Bury(b)
    BY <1>3
  <2>2. CASE SignWithHsm(b)
    <3> DEFINE q == NewRequest(b, "verified", NoTx)
    <3>1. q \in RequestType /\ q.tx = NoTx /\ q.status = "verified"
      BY SignedTyped DEF NewRequest, RequestType, RequestStatuses
    <3>2. req' = Append(req, q) /\ UNCHANGED <<subs, slot, inst, ledger, deep>>
      BY <2>2 DEF SignWithHsm
    <3> HIDE DEF q
    <3>3. /\ req' \in Seq(RequestType) /\ Len(req') = Len(req) + 1 /\ req'[Len(req) + 1] = q
          /\ \A i \in Requests : req'[i] = req[i]
          /\ Requests' = Requests \cup {Len(req) + 1}
      BY <1>1, <3>1, <3>2, RequestInserted
    <3>4. Len(req) <= Len(req')
      BY <3>3, <1>1, RowFacts
    <3> QED
      BY <1>1, <3>1, <3>2, <3>3, <3>4 DEF Drifts, TypeOK
  <2>3. CASE Bury(b)
    <3>1. UNCHANGED <<req, subs, slot, inst, ledger>> /\ deep' \in SUBSET ledger
      BY <2>3, <1>1 DEF Bury, TypeOK
    <3> QED
      BY <3>1, <1>1, RowFacts DEF Drifts, TypeOK, Requests
  <2> QED
    BY <2>1, <2>2, <2>3
<1>4. CASE ExpireDue
  <2>1. /\ \A r \in Requests : Due(r) => Unlocked(r)
        /\ req' = [r \in Requests |-> IF Due(r) THEN [req[r] EXCEPT !.status = "expired"] ELSE req[r]]
        /\ UNCHANGED <<subs, slot, inst, ledger, deep>>
    BY <1>4 DEF ExpireDue
  <2>2. \A r \in Requests : req'[r] \in RequestType
    BY <2>1, <1>1, RowFacts, SMTT(60) DEF RequestType, RequestStatuses
  <2>3. req' \in [1 .. Len(req) -> RequestType]
    BY <2>1, <2>2 DEF Requests
  <2>4. Len(req) \in Nat
    BY <1>1, RowFacts
  <2>5. req' \in Seq(RequestType) /\ Len(req') = Len(req)
    BY <2>3, <2>4
  <2>6. Requests' = Requests
    BY <2>5 DEF Requests
  <2>7. \A r \in Requests :
          /\ req'[r].b = req[r].b /\ req'[r].tx = req[r].tx
          /\ \/ req'[r].status = req[r].status
             \/ req[r].status = "pending" /\ Unlocked(r) /\ req'[r].status = "expired"
    BY <2>1, <1>1, RowFacts DEF RequestType, Due
  <2>8. Len(req) <= Len(req')
    BY <2>4, <2>5
  <2>9. UNCHANGED <<subs, slot, inst, ledger>> /\ deep' \in SUBSET ledger
    BY <1>1, <2>1 DEF TypeOK
  <2> QED
    BY <2>5, <2>6, <2>7, <2>8, <2>9 DEF Drifts
<1> QED
  BY <1>2, <1>3, <1>4 DEF DriftSteps

-----------------------------------------------------------------------------
(* What each step of a handler does *)

\* Handler h gets the local state t.
Moves(h, t) == h \in Slots /\ t \in SlotType /\ slot' = [slot EXCEPT ![h] = t]

\* Request r is written; its build stays.
Writes(r, status, tx) ==
  /\ r \in Requests /\ Requests' = Requests
  /\ req'[r].status = status /\ req'[r].tx = tx /\ req'[r].b = req[r].b
  /\ \A i \in Requests \ {r} : req'[i] = req[i]

\* A request appears.
Adds(b, status, tx) ==
  /\ Requests' = Requests \cup {Len(req) + 1}
  /\ req'[Len(req) + 1].b = b /\ req'[Len(req) + 1].status = status
  /\ req'[Len(req) + 1].tx = tx
  /\ \A i \in Requests : req'[i] = req[i]

\* A step of handler h to the local state t that claims nothing and sends nothing.
Quiet(h, t) ==
  /\ Moves(h, t) /\ UNCHANGED <<inst, ledger>> /\ deep' \in SUBSET ledger
  /\ RowsGrow /\ \A s \in Rows' : s \in Rows /\ subs'[s] = subs[s]
  /\ t.pc \in {"idle", "create"} /\ Linked(t)' /\ (t.pc = "create" => Free(h))
  /\ UNCHANGED req \/ (slot[h].pc = "create" /\ \E b \in Builds : Adds(b, "pending", NoTx))

\* CreateSigningRequest, a rollback and a lost outcome are quiet.
LEMMA QuietSteps ==
  ASSUME Typed, NEW h \in Slots,
         \/ \E b \in Builds : CreateRead(h, b)
         \/ CreateInsert(h) \/ CallerRollsBack(h) \/ OutcomeLost(h)
  PROVE  \E t : Quiet(h, t)
<1>a. TypeOK /\ deep \in SUBSET ledger /\ slot[h] \in SlotType /\ Linked(slot[h])
      /\ Len(req) \in Nat /\ Len(subs) \in Nat
  BY RowFacts DEF Typed, TypeOK
<1>b. \A t \in SlotType : t.pc \in {"idle", "create"} /\ t.r = 0 /\ t.s = 0
                          /\ (t.pc = "create" => t.b \in Builds)
                          /\ Len(req') \in Nat /\ Len(subs') \in Nat
        => Linked(t)'
  BY DEF Linked, Busy
<1>1. CASE \E b \in Builds : CreateRead(h, b)
  <2>1. PICK b \in Builds : CreateRead(h, b)
    BY <1>1
  <2> DEFINE t == [Idle EXCEPT !.pc = "create", !.b = b]
  <2>2. /\ t \in SlotType /\ t.pc = "create" /\ t.r = 0 /\ t.s = 0 /\ t.b = b
    BY IdleTyped DEF SlotType
  <2>3. UNCHANGED <<req, subs, inst, ledger, deep>> /\ slot' = [slot EXCEPT ![h] = t] /\ Free(h)
    BY <2>1 DEF CreateRead
  <2> HIDE DEF t
  <2>4. RowsGrow /\ Rows' = Rows
    BY <1>a, <2>3, RowsStay DEF Rows
  <2>5. Linked(t)'
    BY <1>a, <1>b, <2>2, <2>3
  <2> QED
    BY <1>a, <2>2, <2>3, <2>4, <2>5 DEF Quiet, Moves
<1>2. CASE CreateInsert(h)
  <2> DEFINE q == NewRequest(slot[h].b, "pending", NoTx)
  <2>1. slot[h].pc = "create" /\ slot[h].b \in Builds
    BY <1>2, <1>a DEF CreateInsert, Linked
  <2>2. q \in RequestType /\ q.b = slot[h].b /\ q.status = "pending" /\ q.tx = NoTx
    BY <2>1, SignedTyped DEF NewRequest, RequestType, RequestStatuses
  <2>3. UNCHANGED <<subs, inst, ledger, deep>> /\ slot' = [slot EXCEPT ![h] = Idle]
        /\ req' = Append(req, q)
    BY <1>2 DEF CreateInsert
  <2> HIDE DEF q
  <2>4. /\ req' \in Seq(RequestType) /\ Len(req') = Len(req) + 1 /\ req'[Len(req) + 1] = q
        /\ \A i \in Requests : req'[i] = req[i]
        /\ Requests' = Requests \cup {Len(req) + 1}
    BY <1>a, <2>2, <2>3, RequestInserted
  <2>5. RowsGrow /\ Rows' = Rows
    <3>1. UNCHANGED subs
      BY <2>3
    <3> QED
      BY <1>a, <2>4, <3>1, RequestsGrow
  <2>6. Adds(slot[h].b, "pending", NoTx)
    BY <2>2, <2>4 DEF Adds
  <2>7. Linked(Idle)'
    BY <1>a, <1>b, <2>3, <2>4, IdleTyped
  <2> QED
    BY <1>a, <2>1, <2>3, <2>5, <2>6, <2>7, IdleTyped DEF Quiet, Moves
<1>3. CASE CallerRollsBack(h) \/ OutcomeLost(h)
  <2>1. UNCHANGED <<req, subs, inst, ledger, deep>> /\ slot' = [slot EXCEPT ![h] = Idle]
    BY <1>3 DEF CallerRollsBack, OutcomeLost
  <2>2. RowsGrow /\ Rows' = Rows
    BY <1>a, <2>1, RowsStay DEF Rows
  <2>3. Linked(Idle)'
    BY <1>a, <1>b, <2>1, IdleTyped
  <2> QED
    BY <1>a, <2>1, <2>2, <2>3, IdleTyped DEF Quiet, Moves
<1> QED
  BY <1>1, <1>2, <1>3

\* A handler takes a request to submit: at once, in its caller's transaction, or
\* when that transaction commits.  r = 0 is the HSM's request, not yet visible.
Takes(h, t) ==
  /\ Moves(h, t) /\ UNCHANGED <<inst, ledger, subs>> /\ deep' \in SUBSET ledger
  /\ RowsGrow /\ t.pc \in {"callerTx", "send"} /\ t.s = 0 /\ t.b \in Builds /\ Linked(t)'
  /\ Checked(t.tx, t.b)
  /\ \/ /\ t.pc = "callerTx" /\ UNCHANGED req /\ Free(h)
        /\ t.r # 0 => t.r \in Requests /\ Claimable(t.r) /\ Unlocked(t.r)
     \/ /\ t.pc = "send" /\ Free(h) /\ Claimable(t.r) /\ Unlocked(t.r)
        /\ Writes(t.r, "submitting", req[t.r].tx)
     \/ /\ t.pc = "send" /\ slot[h].pc = "callerTx" /\ slot[h].r = t.r /\ slot[h].b = t.b
        /\ Writes(t.r, "submitting", t.tx)
     \/ /\ t.pc = "send" /\ Free(h) /\ t.r = Len(req) + 1
        /\ Adds(t.b, "submitting", NoTx)
     \/ /\ t.pc = "send" /\ slot[h].pc = "callerTx" /\ slot[h].r = 0 /\ t.r = Len(req) + 1
        /\ Adds(t.b, "submitting", t.tx)

\* SubmitVerifiedTransaction, SignAndSubmitWithHsm and the caller's commit take a
\* request, with a transaction that was verified.
LEMMA TakingSteps ==
  ASSUME Typed, HeldIsChecked, NEW h \in Slots,
         \/ \E r \in Requests, in \in Inputs, defer \in BOOLEAN : SubmitVerified(h, r, in, defer)
         \/ \E b \in Builds, defer \in BOOLEAN : SubmitWithHsm(h, b, defer)
         \/ CallerCommits(h)
  PROVE  \E t : Takes(h, t)
<1>a. TypeOK /\ deep \in SUBSET ledger /\ slot[h] \in SlotType /\ Linked(slot[h])
      /\ Len(req) \in Nat /\ Len(subs) \in Nat
  BY RowFacts DEF Typed, TypeOK
<1>1. CASE \E r \in Requests, in \in Inputs, defer \in BOOLEAN : SubmitVerified(h, r, in, defer)
  <2>1. PICK r \in Requests, in \in Inputs, defer \in BOOLEAN : SubmitVerified(h, r, in, defer)
    BY <1>1
  <2>b. PICK b : b = req[r].b
    OBVIOUS
  <2> DEFINE tx == ToSigned(b, in)
             pc == IF defer THEN "callerTx" ELSE "send"
  <2>t. PICK t : t = [Idle EXCEPT !.pc = pc, !.r = r, !.b = b, !.tx = tx, !.defer = defer]
    OBVIOUS
  <2>2. /\ req[r] \in RequestType /\ r \in Nat /\ r # 0 /\ r <= Len(req) /\ b \in Builds
    BY <2>b, <1>a, RowFacts DEF RequestType, Requests
  <2>3. tx \in SignedTxs
    BY <2>2, SignedTyped
  <2>4. Checked(tx, b)
    BY <2>1, <2>b DEF SubmitVerified, Checked, Verifies
  <2>5. /\ Free(h) /\ Claimable(r) /\ Unlocked(r) /\ UNCHANGED <<subs, inst, ledger, deep>>
        /\ slot' = [slot EXCEPT ![h] = t]
        /\ req' = IF defer THEN req ELSE [req EXCEPT ![r].status = "submitting"]
    BY <2>1, <2>b, <2>t DEF SubmitVerified
  <2>c. /\ pc \in {"callerTx", "send"}
        /\ defer => pc = "callerTx"
        /\ ~defer => pc = "send"
    OBVIOUS
  <2> HIDE DEF tx, pc
  <2>6. /\ t \in SlotType /\ t.r = r /\ t.s = 0 /\ t.b = b /\ t.tx = tx /\ t.pc = pc
    BY <2>2, <2>3, <2>c, <2>t, IdleTyped DEF SlotType
  <2>7. CASE defer
    <3>1. RowsGrow /\ UNCHANGED req
      BY <2>5, <2>7, <1>a, RowsStay
    <3>2. Linked(t)'
      BY <3>1, <2>2, <2>5, <2>6, <2>7, <2>b, <2>c, <1>a DEF Linked, Busy
    <3> QED
      BY <1>a, <2>2, <2>4, <2>5, <2>6, <2>7, <2>b, <2>c, <3>1, <3>2 DEF Takes, Moves
  <2>8. CASE ~defer
    <3> DEFINE q == [req[r] EXCEPT !.status = "submitting"]
    <3>1. q \in RequestType /\ q.b = b /\ q.status = "submitting" /\ q.tx = req[r].tx
      BY <2>2, <2>b DEF RequestType, RequestStatuses
    <3>2. req' = [req EXCEPT ![r] = q]
      BY <2>5, <2>8
    <3> HIDE DEF q
    <3>3. /\ req' \in Seq(RequestType) /\ Len(req') = Len(req) /\ req'[r] = q
          /\ \A i \in Requests \ {r} : req'[i] = req[i]
          /\ \A i \in Requests : req'[i].b = req[i].b
          /\ Requests' = Requests
      BY <1>a, <2>b, <3>1, <3>2, RequestUpdated
    <3>4. RowsGrow /\ Writes(r, "submitting", req[r].tx)
      BY <1>a, <2>5, <2>b, <3>1, <3>3, RequestsGrow DEF Writes
    <3>5. Linked(t)'
      BY <3>1, <3>3, <2>2, <2>5, <2>6, <2>8, <2>b, <2>c, <1>a DEF Linked, Busy
    <3> QED
      BY <1>a, <2>2, <2>4, <2>5, <2>6, <2>8, <2>b, <2>c, <3>4, <3>5 DEF Takes, Moves
  <2> QED
    BY <2>7, <2>8
<1>2. CASE \E b \in Builds, defer \in BOOLEAN : SubmitWithHsm(h, b, defer)
  <2>1. PICK b \in Builds, defer \in BOOLEAN : SubmitWithHsm(h, b, defer)
    BY <1>2
  <2> DEFINE tx == HsmSigned(b, TRUE)
             pc == IF defer THEN "callerTx" ELSE "send"
  <2>r. PICK r \in Nat : r = IF defer THEN 0 ELSE Len(req) + 1
    BY <1>a
  <2>t. PICK t : t = [Idle EXCEPT !.pc = pc, !.r = r, !.b = b, !.tx = tx, !.defer = defer]
    OBVIOUS
  <2>2. tx \in SignedTxs
    BY SignedTyped
  <2>3. Checked(tx, b)
    BY <2>1 DEF SubmitWithHsm, Checked
  <2>4. /\ Free(h) /\ UNCHANGED <<subs, inst, ledger, deep>>
        /\ slot' = [slot EXCEPT ![h] = t]
        /\ req' = IF defer THEN req ELSE Append(req, NewRequest(b, "submitting", NoTx))
    BY <2>1, <2>r, <2>t DEF SubmitWithHsm
  <2>c. /\ pc \in {"callerTx", "send"}
        /\ defer => pc = "callerTx" /\ r = 0
        /\ ~defer => pc = "send" /\ r = Len(req) + 1
    BY <2>r
  <2> HIDE DEF tx, pc
  <2>5. /\ t \in SlotType /\ t.s = 0 /\ t.b = b /\ t.tx = tx /\ t.r = r /\ t.pc = pc
    BY <1>a, <2>2, <2>c, <2>t, IdleTyped DEF SlotType
  <2>6. CASE defer
    <3>1. RowsGrow /\ UNCHANGED req
      BY <2>4, <2>6, <1>a, RowsStay
    <3>2. Linked(t)'
      BY <3>1, <2>4, <2>5, <2>6, <2>c, <1>a DEF Linked, Busy
    <3> QED
      BY <1>a, <2>3, <2>4, <2>5, <2>6, <2>c, <3>1, <3>2 DEF Takes, Moves
  <2>7. CASE ~defer
    <3> DEFINE q == NewRequest(b, "submitting", NoTx)
    <3>1. q \in RequestType /\ q.b = b /\ q.status = "submitting" /\ q.tx = NoTx
      BY SignedTyped DEF NewRequest, RequestType, RequestStatuses
    <3>2. req' = Append(req, q)
      BY <2>4, <2>7
    <3> HIDE DEF q
    <3>3. /\ req' \in Seq(RequestType) /\ Len(req') = Len(req) + 1 /\ req'[Len(req) + 1] = q
          /\ \A i \in Requests : req'[i] = req[i]
          /\ Requests' = Requests \cup {Len(req) + 1}
      BY <1>a, <3>1, <3>2, RequestInserted
    <3>4. RowsGrow /\ Adds(b, "submitting", NoTx)
      <4>1. UNCHANGED subs
        BY <2>4
      <4> QED
        BY <1>a, <3>1, <3>3, <4>1, RequestsGrow DEF Adds
    <3>5. Linked(t)'
      BY <3>1, <3>3, <2>4, <2>5, <2>7, <2>c, <1>a DEF Linked, Busy
    <3> QED
      BY <1>a, <2>3, <2>4, <2>5, <2>7, <2>c, <3>4, <3>5 DEF Takes, Moves
  <2> QED
    BY <2>6, <2>7
<1>3. CASE CallerCommits(h)
  <2>r. PICK r : r = IF slot[h].r = 0 THEN Len(req) + 1 ELSE slot[h].r
    OBVIOUS
  <2>b. PICK b, tx : b = slot[h].b /\ tx = slot[h].tx
    OBVIOUS
  <2>t. PICK t : t = [slot[h] EXCEPT !.pc = "send", !.r = r]
    OBVIOUS
  <2>1. /\ slot[h].pc = "callerTx" /\ slot[h].s = 0 /\ b \in Builds /\ tx \in SignedTxs
        /\ Checked(tx, b) /\ r \in Nat /\ r # 0
    BY <1>3, <1>a, <2>b, <2>r DEF CallerCommits, Linked, HeldIsChecked, SlotType
  <2>2. /\ t \in SlotType /\ t.r = r /\ t.s = 0 /\ t.b = b /\ t.tx = tx /\ t.pc = "send"
    BY <2>1, <2>b, <2>r, <2>t, <1>a DEF SlotType
  <2>3. UNCHANGED <<subs, inst, ledger, deep>> /\ slot' = [slot EXCEPT ![h] = t]
    BY <1>3, <1>a, <2>r, <2>t DEF CallerCommits, SlotType
  <2>4. CASE slot[h].r = 0
    <3> DEFINE q == NewRequest(b, "submitting", tx)
    <3>1. q \in RequestType /\ q.b = b /\ q.status = "submitting" /\ q.tx = tx
      BY <2>1 DEF NewRequest, RequestType, RequestStatuses
    <3>2. req' = Append(req, q) /\ r = Len(req) + 1
      BY <1>3, <2>4, <2>b, <2>r DEF CallerCommits
    <3> HIDE DEF q
    <3>3. /\ req' \in Seq(RequestType) /\ Len(req') = Len(req) + 1 /\ req'[Len(req) + 1] = q
          /\ \A i \in Requests : req'[i] = req[i]
          /\ Requests' = Requests \cup {Len(req) + 1}
      BY <1>a, <3>1, <3>2, RequestInserted
    <3>4. RowsGrow /\ Adds(b, "submitting", tx)
      BY <1>a, <2>3, <3>1, <3>3, RequestsGrow DEF Adds
    <3>5. Linked(t)'
      BY <3>1, <3>2, <3>3, <2>1, <2>2, <2>3, <1>a DEF Linked, Busy
    <3> QED
      BY <1>3, <1>a, <2>1, <2>2, <2>3, <2>4, <3>2, <3>4, <3>5 DEF Takes, Moves
  <2>5. CASE slot[h].r # 0
    <3> DEFINE q == [req[r] EXCEPT !.status = "submitting", !.tx = tx]
    <3>1. r = slot[h].r /\ r \in Requests /\ req[r] \in RequestType /\ req[r].b = b /\ r <= Len(req)
      BY <2>1, <2>5, <2>b, <2>r, <1>a, RowFacts DEF Linked, Requests, SlotType, Busy
    <3>2. q \in RequestType /\ q.b = req[r].b /\ q.status = "submitting" /\ q.tx = tx
      BY <2>1, <3>1 DEF RequestType, RequestStatuses
    <3>3. req' = [req EXCEPT ![r] = q]
      BY <1>3, <2>5, <2>b, <2>r DEF CallerCommits
    <3> HIDE DEF q
    <3>4. /\ req' \in Seq(RequestType) /\ Len(req') = Len(req) /\ req'[r] = q
          /\ \A i \in Requests \ {r} : req'[i] = req[i]
          /\ \A i \in Requests : req'[i].b = req[i].b
          /\ Requests' = Requests
      BY <1>a, <3>1, <3>2, <3>3, RequestUpdated
    <3>5. RowsGrow /\ Writes(r, "submitting", tx)
      BY <1>a, <2>3, <3>1, <3>2, <3>4, RequestsGrow DEF Writes
    <3>6. Linked(t)'
      BY <3>1, <3>4, <2>1, <2>2, <2>3, <1>a DEF Linked, Busy
    <3> QED
      BY <1>3, <1>a, <2>1, <2>2, <2>3, <2>5, <2>b, <3>1, <3>5, <3>6 DEF Takes, Moves
  <2> QED
    BY <2>4, <2>5
<1> QED
  BY <1>1, <1>2, <1>3

\* A boot re-drives request r.
Redrives(h, t) ==
  LET i == InstanceOf[h]
  IN /\ Moves(h, t) /\ UNCHANGED <<req, subs, ledger, deep>> /\ RowsGrow
     /\ inst' = [inst EXCEPT ![i].todo = @ \ {t.r}]
     /\ inst[i].pc = "booting" /\ t.r \in inst[i].todo /\ t.r \in Requests
     /\ t.pc = "send" /\ t.s = 0 /\ t.b = req[t.r].b /\ t.tx = req[t.r].tx
     /\ t.tx # NoTx /\ Linked(t)'

\* redriveInterruptedSubmissions submits one request.
LEMMA RedriveStep ==
  ASSUME Typed, NEW h \in Slots, NEW r \in Requests, Redrive(h, r)
  PROVE  \E t : Redrives(h, t)
<1>a. /\ TypeOK /\ r \in Nat /\ r # 0 /\ r <= Len(req) /\ req[r] \in RequestType
      /\ Len(subs) \in Nat
  BY RowFacts DEF Typed, Requests
<1>b. PICK b, tx : b = req[r].b /\ tx = req[r].tx
  OBVIOUS
<1>t. PICK t : t = [Idle EXCEPT !.pc = "send", !.r = r, !.b = b, !.tx = tx, !.defer = TRUE]
  OBVIOUS
<1>1. b \in Builds /\ tx \in SignedTxs
  BY <1>a, <1>b DEF RequestType
<1>2. t \in SlotType /\ t.pc = "send" /\ t.r = r /\ t.s = 0 /\ t.b = b /\ t.tx = tx
  BY <1>1, <1>a, <1>t, IdleTyped DEF SlotType
<1>3. /\ UNCHANGED <<req, subs, ledger, deep>> /\ slot' = [slot EXCEPT ![h] = t]
      /\ inst[InstanceOf[h]].pc = "booting" /\ r \in inst[InstanceOf[h]].todo
      /\ inst' = [inst EXCEPT ![InstanceOf[h]].todo = @ \ {r}]
      /\ tx # NoTx
  BY <1>b, <1>t DEF Redrive, Verifies
<1>4. RowsGrow
  BY <1>3, <1>a, RowsStay
<1>5. Linked(t)'
  BY <1>1, <1>2, <1>3, <1>a, <1>b DEF Linked, Busy
<1> QED
  BY <1>2, <1>3, <1>4, <1>5, <1>a, <1>b DEF Redrives, Moves

\* A handler of SubmitTransaction or SubmitSignedTransaction starts.
Records(h, t) ==
  /\ Moves(h, t) /\ UNCHANGED <<req, inst, ledger, deep>> /\ RowsGrow
  /\ Free(h) /\ t.pc = "send" /\ t.r = 0 /\ t.s # 0 /\ Linked(t)'
  /\ Rows' = Rows \cup {Len(subs) + 1} /\ subs'[Len(subs) + 1].status = "pending"
  /\ \A s \in Rows : subs'[s] = subs[s]

\* SubmitTransaction and SubmitSignedTransaction record a pending row first.
LEMMA RecordStep ==
  ASSUME Typed, NEW h \in Slots, NEW b \in Builds, NEW in \in Inputs, SubmitRecorded(h, b, in)
  PROVE  \E t : Records(h, t)
<1>a. TypeOK /\ Len(subs) \in Nat /\ Len(req) \in Nat /\ Requests' = Requests
  BY RowFacts DEF Typed, Requests, SubmitRecorded
<1>s. PICK s \in Nat : s = Len(subs) + 1
  BY <1>a
<1> DEFINE tx == ToSigned(b, in)
           q == [b |-> b, status |-> "pending"]
<1>t. PICK t : t = [Idle EXCEPT !.pc = "send", !.s = s, !.b = b, !.tx = tx]
  OBVIOUS
<1>1. tx \in SignedTxs
  BY SignedTyped
<1>2. /\ UNCHANGED <<req, inst, ledger, deep>> /\ slot' = [slot EXCEPT ![h] = t]
      /\ Free(h)
  BY <1>s, <1>t DEF SubmitRecorded
<1>3. subs' = Append(subs, q)
  BY DEF SubmitRecorded
<1>4. q \in RowType /\ q.b = b /\ q.status = "pending"
  BY DEF RowType, RowStatuses
<1> HIDE DEF tx, q
<1>5. t \in SlotType /\ t.pc = "send" /\ t.r = 0 /\ t.s = s /\ t.b = b
  BY <1>1, <1>t, IdleTyped DEF SlotType
<1>6. /\ subs' \in Seq(RowType) /\ Len(subs') = Len(subs) + 1 /\ subs'[Len(subs) + 1] = q
      /\ \A i \in Rows : subs'[i] = subs[i]
      /\ Rows' = Rows \cup {Len(subs) + 1}
  BY <1>a, <1>3, <1>4, RowInserted
<1>7. RowsGrow
  <2>1. req' \in Seq(RequestType) /\ Len(req) <= Len(req') /\ \A r \in Requests : req'[r].b = req[r].b
    BY <1>a, <1>2 DEF TypeOK
  <2> QED
    BY <2>1, <1>6, <1>a DEF RowsGrow
<1>8. Linked(t)'
  BY <1>2, <1>4, <1>5, <1>6, <1>a, <1>s DEF Linked, Busy
<1> QED
  <2>1. t.s # 0 /\ subs'[Len(subs) + 1].status = "pending"
    BY <1>4, <1>5, <1>6, <1>s, <1>a
  <2> QED
    BY <1>2, <1>5, <1>6, <1>7, <1>8, <2>1 DEF Records, Moves

\* The network answers.
Answers(h, t) ==
  /\ Moves(h, t) /\ UNCHANGED <<req, subs, inst, deep>> /\ RowsGrow
  /\ slot[h].pc = "send" /\ t.pc = "sent" /\ t.b = slot[h].b /\ t.r = slot[h].r
  /\ t.s = slot[h].s /\ t.tx = slot[h].tx /\ Linked(t)'
  /\ ledger \subseteq ledger' /\ ledger' \in SUBSET Builds
  /\ t.res \in {"ok", "already"} => t.b \in ledger'

\* Every outcome of the network call is an answer.
LEMMA AnswerSteps ==
  ASSUME Typed, NEW h \in Slots, Network(h)
  PROVE  \E t : Answers(h, t)
<1>a. TypeOK /\ slot[h] \in SlotType /\ Linked(slot[h])
  BY RowFacts DEF Typed
<1>1. PICK res \in {"ok", "already", "rejected", "unreachable"} :
        /\ Answered(h, res)
        /\ ledger' = ledger \/ ledger' = ledger \cup {slot[h].b}
        /\ res \in {"ok", "already"} => slot[h].b \in ledger'
  <2>1. CASE SendAccepted(h)
    BY <2>1 DEF SendAccepted
  <2>2. CASE SendKnown(h)
    BY <2>2 DEF SendKnown
  <2>3. CASE SendRejected(h)
    BY <2>3 DEF SendRejected
  <2>4. CASE SendLost(h)
    <3>1. ledger' = ledger \/ ledger' = ledger \cup {slot[h].b}
      BY <2>4 DEF SendLost
    <3> QED
      BY <2>4, <3>1 DEF SendLost
  <2> QED
    BY <2>1, <2>2, <2>3, <2>4 DEF Network
<1>t. PICK t : t = [slot[h] EXCEPT !.pc = "sent", !.res = res]
  OBVIOUS
<1>2. /\ t \in SlotType /\ t.pc = "sent" /\ t.res = res /\ t.r = slot[h].r /\ t.s = slot[h].s
      /\ t.b = slot[h].b /\ t.tx = slot[h].tx
  BY <1>a, <1>t DEF SlotType
<1>3. /\ UNCHANGED <<req, subs, inst, deep>> /\ slot' = [slot EXCEPT ![h] = t]
      /\ slot[h].pc = "send"
  BY <1>1, <1>t, <1>a DEF Answered, SlotType
<1>4. slot[h].b \in Builds
  BY <1>3, <1>a DEF Linked
<1>5. RowsGrow
  BY <1>3, <1>a, RowsStay
<1>6. Linked(t)'
  BY <1>2, <1>3, <1>a DEF Linked, Busy
<1>7. ledger \subseteq ledger' /\ ledger' \in SUBSET Builds
  BY <1>1, <1>4, <1>a DEF TypeOK
<1> QED
  BY <1>1, <1>2, <1>3, <1>5, <1>6, <1>7 DEF Answers, Moves

\* The outcome of a request is written.
Finishes(h) ==
  /\ Moves(h, Idle) /\ UNCHANGED <<inst, ledger, deep>> /\ RowsGrow
  /\ slot[h].pc = "sent" /\ slot[h].r # 0
  /\ \/ /\ Writes(slot[h].r, "submitted", req[slot[h].r].tx)
        /\ slot[h].res \in {"ok", "already"}
        /\ Rows' = Rows \cup {Len(subs) + 1} /\ subs'[Len(subs) + 1].b = slot[h].b
        /\ \A s \in Rows : subs'[s] = subs[s]
     \/ Writes(slot[h].r, "failed", req[slot[h].r].tx) /\ UNCHANGED subs

\* indexVerifiedTransactionSubmission and the mark as failed finish a request.
LEMMA FinishStep ==
  ASSUME Typed, NEW h \in Slots, FinishRequest(h)
  PROVE  Finishes(h)
<1>a. /\ TypeOK /\ slot[h] \in SlotType /\ Linked(slot[h]) /\ slot[h].pc = "sent"
      /\ slot[h].r # 0 /\ Len(req) \in Nat /\ Len(subs) \in Nat
  BY RowFacts DEF Typed, FinishRequest
<1>r. PICK r : r = slot[h].r
  OBVIOUS
<1>1. r \in Requests /\ slot[h].b \in Builds /\ req[r] \in RequestType
  BY <1>a, <1>r, RowFacts DEF Linked, SlotType, Requests
<1>2. UNCHANGED <<inst, ledger, deep>> /\ slot' = [slot EXCEPT ![h] = Idle]
  BY DEF FinishRequest
<1>3. CASE Succeeded(slot[h].res)
  <2> DEFINE w == [b |-> slot[h].b, status |-> "submitted"]
  <2>n. PICK n \in Nat : n = Len(subs) + 1
    BY <1>a
  <2> DEFINE q == [req[r] EXCEPT !.status = "submitted", !.sub = n]
  <2>1. subs' = Append(subs, w) /\ req' = [req EXCEPT ![r] = q]
    BY <1>3, <1>r, <2>n DEF FinishRequest
  <2>2. w \in RowType /\ w.b = slot[h].b
    BY <1>1 DEF RowType, RowStatuses
  <2>3. q \in RequestType /\ q.b = req[r].b /\ q.status = "submitted" /\ q.tx = req[r].tx
    BY <1>1, <1>a DEF RequestType, RequestStatuses
  <2> HIDE DEF w, q
  <2>4. /\ req' \in Seq(RequestType) /\ Len(req') = Len(req) /\ req'[r] = q
        /\ \A i \in Requests \ {r} : req'[i] = req[i]
        /\ \A i \in Requests : req'[i].b = req[i].b
        /\ Requests' = Requests
    BY <1>a, <1>1, <2>1, <2>3, RequestUpdated
  <2>5. /\ subs' \in Seq(RowType) /\ Len(subs') = Len(subs) + 1 /\ subs'[Len(subs) + 1] = w
        /\ \A i \in Rows : subs'[i] = subs[i]
        /\ Rows' = Rows \cup {Len(subs) + 1}
    BY <1>a, <2>1, <2>2, RowInserted
  <2>6. RowsGrow
    BY <1>a, <2>4, <2>5 DEF RowsGrow
  <2>7. Writes(r, "submitted", req[r].tx)
    BY <1>1, <2>3, <2>4 DEF Writes
  <2> QED
    BY <1>2, <1>3, <1>a, <1>r, <2>2, <2>5, <2>6, <2>7, IdleTyped DEF Finishes, Moves, Succeeded
<1>4. CASE ~Succeeded(slot[h].res)
  <2> DEFINE q == [req[r] EXCEPT !.status = "failed"]
  <2>1. UNCHANGED subs /\ req' = [req EXCEPT ![r] = q]
    BY <1>4, <1>r DEF FinishRequest
  <2>2. q \in RequestType /\ q.b = req[r].b /\ q.status = "failed" /\ q.tx = req[r].tx
    BY <1>1, <1>a DEF RequestType, RequestStatuses
  <2> HIDE DEF q
  <2>3. /\ req' \in Seq(RequestType) /\ Len(req') = Len(req) /\ req'[r] = q
        /\ \A i \in Requests \ {r} : req'[i] = req[i]
        /\ \A i \in Requests : req'[i].b = req[i].b
        /\ Requests' = Requests
    BY <1>a, <1>1, <2>1, <2>2, RequestUpdated
  <2>4. RowsGrow
    BY <1>a, <2>1, <2>3, RequestsGrow
  <2>5. Writes(r, "failed", req[r].tx)
    BY <1>1, <2>2, <2>3 DEF Writes
  <2> QED
    BY <1>2, <1>a, <1>r, <2>1, <2>4, <2>5, IdleTyped DEF Finishes, Moves
<1> QED
  BY <1>3, <1>4

\* A submission row gets its outcome, or is found confirmed; only what the ledger
\* has becomes submitted or confirmed.
Settles ==
  /\ UNCHANGED <<req, inst, ledger, deep>> /\ RowsGrow /\ Rows' = Rows
  /\ slot' \in [Slots -> SlotType]
  /\ \A h \in Slots : slot'[h] = slot[h] \/ slot'[h] = Idle
  /\ \A s \in Rows : subs'[s].status \in {"submitted", "confirmed"} =>
       (subs'[s] = subs[s]) \/ (subs[s].b \in ledger)

\* submitRecorded's outcome and CheckSubmissionStatus settle rows.
LEMMA SettlingSteps ==
  ASSUME Typed, AnswersHold,
         (\E h \in Slots : FinishRecorded(h)) \/ (\E s \in Rows : CheckSubmission(s))
  PROVE  Settles
<1>a. TypeOK /\ Len(subs) \in Nat /\ slot \in [Slots -> SlotType] /\ deep \subseteq ledger
  BY RowFacts DEF Typed, TypeOK
<1>1. PICK s \in Rows, st \in {"failed", "dropped", "submitted", "confirmed"} :
        /\ subs' = [subs EXCEPT ![s].status = st]
        /\ st \in {"submitted", "confirmed"} => subs[s].b \in ledger
  <2>1. CASE \E h \in Slots : FinishRecorded(h)
    <3>1. PICK h \in Slots : FinishRecorded(h)
      BY <2>1
    <3>2. PICK st \in {"failed", "dropped", "submitted"} :
            /\ subs' = [subs EXCEPT ![slot[h].s].status = st]
            /\ st = "submitted" => Succeeded(slot[h].res)
      <4> DEFINE other == \E t \in Rows \ {slot[h].s} : subs[t].b = slot[h].b
                                      /\ subs[t].status \in {"submitted", "confirmed"}
                 st == CASE ~Succeeded(slot[h].res) -> "failed"
                         [] slot[h].res = "already" /\ other -> "dropped"
                         [] OTHER -> "submitted"
      <4>1. subs' = [subs EXCEPT ![slot[h].s].status = st]
        BY <3>1 DEF FinishRecorded
      <4> HIDE DEF other
      <4>2. st \in {"failed", "dropped", "submitted"} /\ (st = "submitted" => Succeeded(slot[h].res))
        OBVIOUS
      <4> QED
        BY <4>1, <4>2
    <3>3. slot[h].pc = "sent" /\ slot[h].s # 0
      BY <3>1 DEF FinishRecorded
    <3>4. /\ slot[h].s \in Rows /\ subs[slot[h].s].b = slot[h].b
      BY <3>3, <1>a, RowFacts DEF Typed, Linked, Rows, SlotType, Busy
    <3> QED
      BY <3>2, <3>3, <3>4 DEF AnswersHold, Succeeded
  <2>2. CASE \E s \in Rows : CheckSubmission(s)
    BY <2>2, <1>a DEF CheckSubmission
  <2> QED
    BY <2>1, <2>2
<1>2. /\ UNCHANGED <<req, inst, ledger, deep>>
      /\ UNCHANGED slot \/ \E h \in Slots : slot' = [slot EXCEPT ![h] = Idle]
  BY DEF FinishRecorded, CheckSubmission
<1>3. slot' \in [Slots -> SlotType] /\ \A h \in Slots : slot'[h] = slot[h] \/ slot'[h] = Idle
  BY <1>2, <1>a, IdleTyped
<1> DEFINE q == [subs[s] EXCEPT !.status = st]
<1>4. q \in RowType /\ q.b = subs[s].b /\ q.status = st
  BY <1>a, RowFacts DEF RowType, RowStatuses
<1>5. subs' = [subs EXCEPT ![s] = q]
  BY <1>1
<1> HIDE DEF q
<1>6. /\ subs' \in Seq(RowType) /\ Len(subs') = Len(subs) /\ subs'[s] = q
      /\ \A i \in Rows \ {s} : subs'[i] = subs[i]
      /\ \A i \in Rows : subs'[i].b = subs[i].b
      /\ Rows' = Rows
  BY <1>a, <1>4, <1>5, RowUpdated
<1>7. RowsGrow
  <2>1. req' \in Seq(RequestType) /\ Len(req) <= Len(req') /\ \A r \in Requests : req'[r].b = req[r].b
    BY <1>a, <1>2, RowFacts DEF TypeOK
  <2> QED
    BY <2>1, <1>6, <1>a DEF RowsGrow
<1> QED
  BY <1>1, <1>2, <1>3, <1>4, <1>6, <1>7 DEF Settles

\* An instance boots, starts to serve, or dies with its handlers.
Cycles(i) ==
  /\ UNCHANGED <<req, subs, ledger, deep>> /\ RowsGrow /\ slot' \in [Slots -> SlotType]
  /\ \E x \in [pc : {"down", "booting", "up"}, todo : SUBSET Nat] :
       /\ inst' = [inst EXCEPT ![i] = x]
       /\ \/ /\ inst[i].pc = "down" /\ x.pc = "booting" /\ UNCHANGED slot
             /\ x.todo = {r \in Requests : Interrupted(r)}
          \/ inst[i].todo = {} /\ x.pc = "up" /\ x.todo = {} /\ UNCHANGED slot
          \/ /\ x.pc = "down" /\ x.todo = {}
             /\ \A h \in Slots : slot'[h] = IF InstanceOf[h] = i THEN Idle ELSE slot[h]

\* Boot, start of service and crash.
LEMMA CycleSteps ==
  ASSUME Typed, NEW i \in Instances, Boot(i) \/ Serve(i) \/ Crash(i)
  PROVE  Cycles(i)
<1>a. /\ TypeOK /\ slot \in [Slots -> SlotType] /\ Requests \subseteq Nat
      /\ inst[i] \in [pc : {"down", "booting", "up"}, todo : SUBSET Nat]
  BY RowFacts DEF Typed, TypeOK
<1>1. UNCHANGED <<req, subs, ledger, deep>>
  BY DEF Boot, Serve, Crash
<1>2. RowsGrow
  BY <1>1, <1>a, RowsStay
<1>3. CASE Boot(i)
  <2> DEFINE x == [pc |-> "booting", todo |-> {r \in Requests : Interrupted(r)}]
  <2>1. x \in [pc : {"down", "booting", "up"}, todo : SUBSET Nat]
    BY <1>a
  <2> QED
    BY <1>1, <1>2, <1>3, <1>a, <2>1 DEF Boot, Cycles
<1>4. CASE Serve(i)
  <2>1. PICK x : x = [inst[i] EXCEPT !.pc = "up"]
    OBVIOUS
  <2>2. /\ x \in [pc : {"down", "booting", "up"}, todo : SUBSET Nat] /\ x.pc = "up" /\ x.todo = {}
        /\ inst[i].todo = {} /\ inst' = [inst EXCEPT ![i] = x]
    BY <1>4, <1>a, <2>1 DEF Serve
  <2> QED
    BY <1>1, <1>2, <1>4, <1>a, <2>2 DEF Serve, Cycles
<1>5. CASE Crash(i)
  <2> DEFINE x == [pc |-> "down", todo |-> {}]
  <2>1. x \in [pc : {"down", "booting", "up"}, todo : SUBSET Nat]
    OBVIOUS
  <2>2. slot' \in [Slots -> SlotType]
        /\ \A h \in Slots : slot'[h] = IF InstanceOf[h] = i THEN Idle ELSE slot[h]
    BY <1>5, <1>a, IdleTyped DEF Crash
  <2> QED
    BY <1>1, <1>2, <1>5, <2>1, <2>2 DEF Crash, Cycles
<1> QED
  BY <1>3, <1>4, <1>5

\* Every step is one of these.
AnyStep ==
  \/ Drifts \/ Settles \/ UNCHANGED vars
  \/ \E h \in Slots, t \in SlotType :
       Quiet(h, t) \/ Takes(h, t) \/ Redrives(h, t) \/ Records(h, t) \/ Answers(h, t)
  \/ \E h \in Slots : Finishes(h)
  \/ \E i \in Instances : Cycles(i)

\* A step of the program is of one of these kinds.
LEMMA StepKinds ==
  ASSUME Typed, AnswersHold, HeldIsChecked, [Next]_vars
  PROVE  AnyStep
<1>1. CASE DriftSteps
  BY <1>1, StepsDrift DEF AnyStep
<1>2. CASE \E h \in Slots : \/ \E b \in Builds : CreateRead(h, b)
                            \/ CreateInsert(h) \/ CallerRollsBack(h) \/ OutcomeLost(h)
  BY <1>2, QuietSteps DEF AnyStep, Quiet, Moves
<1>3. CASE \E h \in Slots :
             \/ \E r \in Requests, in \in Inputs, defer \in BOOLEAN : SubmitVerified(h, r, in, defer)
             \/ \E b \in Builds, defer \in BOOLEAN : SubmitWithHsm(h, b, defer)
             \/ CallerCommits(h)
  BY <1>3, TakingSteps DEF AnyStep, Takes, Moves
<1>4. CASE \E h \in Slots, r \in Requests : Redrive(h, r)
  BY <1>4, RedriveStep DEF AnyStep, Redrives, Moves
<1>5. CASE \E h \in Slots, b \in Builds, in \in Inputs : SubmitRecorded(h, b, in)
  BY <1>5, RecordStep DEF AnyStep, Records, Moves
<1>6. CASE \E h \in Slots : Network(h)
  BY <1>6, AnswerSteps DEF AnyStep, Answers, Moves
<1>7. CASE \E h \in Slots : FinishRequest(h)
  BY <1>7, FinishStep DEF AnyStep
<1>8. CASE (\E h \in Slots : FinishRecorded(h)) \/ \E s \in Rows : CheckSubmission(s)
  BY <1>8, SettlingSteps DEF AnyStep
<1>9. CASE \E i \in Instances : Boot(i) \/ Serve(i) \/ Crash(i)
  BY <1>9, CycleSteps DEF AnyStep
<1>10. CASE UNCHANGED vars
  BY <1>10 DEF AnyStep
<1> QED
  BY <1>1, <1>2, <1>3, <1>4, <1>5, <1>6, <1>7, <1>8, <1>9, <1>10
     DEF Next, DriftSteps, Network

\* Every step keeps the types.
LEMMA TypedStep ==
  ASSUME Typed, AnyStep
  PROVE  Typed'
<1>a. /\ TypeOK /\ deep \in SUBSET ledger /\ ledger \in SUBSET Builds
      /\ slot \in [Slots -> SlotType] /\ Len(req) \in Nat
      /\ inst \in [Instances -> [pc : {"down", "booting", "up"}, todo : SUBSET Nat]]
      /\ \A i \in Instances : inst[i].todo \subseteq Requests
      /\ req \in Seq(RequestType) /\ subs \in Seq(RowType)
  BY RowFacts DEF Typed, TypeOK
<1>b. ASSUME RowsGrow
      PROVE  Requests \subseteq Requests'
  <2>1. Len(req) \in Nat /\ Len(req') \in Nat /\ Len(req) <= Len(req')
    BY <1>a, <1>b DEF RowsGrow
  <2> QED
    BY <2>1 DEF Requests
<1>c. ASSUME RowsGrow, NEW h \in Slots, NEW t \in SlotType, Moves(h, t), t = Idle \/ Linked(t)',
             UNCHANGED inst, ledger' \in SUBSET Builds, deep' \in SUBSET ledger'
      PROVE  Typed'
  <2>1. slot' \in [Slots -> SlotType] /\ slot'[h] = t /\ \A g \in Slots \ {h} : slot'[g] = slot[g]
    BY <1>a, <1>c, SlotUpdated DEF Moves
  <2>2. \A g \in Slots : slot'[g] = slot[g] \/ slot'[g] = Idle \/ Linked(slot[g])'
    BY <2>1, <1>c DEF Linked
  <2> QED
    BY <1>a, <1>b, <1>c, <2>1, <2>2, TypedFromParts
<1>1. CASE Drifts
  <2>1. RowsGrow
    BY <1>1, <1>a, RowFacts DEF Drifts, RowsGrow
  <2> QED
    BY <1>1, <1>a, <1>b, <2>1, TypedFromParts DEF Drifts
<1>2. CASE Settles
  BY <1>2, <1>a, <1>b, TypedFromParts DEF Settles
<1>3. CASE UNCHANGED vars
  <2>1. RowsGrow /\ UNCHANGED <<slot, inst, ledger, deep>>
    BY <1>3, <1>a, RowsStay DEF vars
  <2> QED
    BY <1>a, <1>b, <2>1, TypedFromParts
<1>4. ASSUME NEW h \in Slots, NEW t \in SlotType,
             Quiet(h, t) \/ Takes(h, t) \/ Records(h, t) \/ Answers(h, t)
      PROVE  Typed'
  <2>1. RowsGrow /\ Moves(h, t) /\ Linked(t)' /\ UNCHANGED inst
        /\ ledger' \in SUBSET Builds /\ deep' \in SUBSET ledger'
    BY <1>4, <1>a DEF Quiet, Takes, Records, Answers
  <2> QED
    BY <1>c, <2>1
<1>5. ASSUME NEW h \in Slots, NEW t \in SlotType, Redrives(h, t)
      PROVE  Typed'
  <2>1. /\ RowsGrow /\ Moves(h, t) /\ Linked(t)' /\ UNCHANGED <<ledger, deep>>
        /\ inst' = [inst EXCEPT ![InstanceOf[h]].todo = @ \ {t.r}]
    BY <1>5 DEF Redrives
  <2>2. slot' \in [Slots -> SlotType] /\ slot'[h] = t /\ \A g \in Slots \ {h} : slot'[g] = slot[g]
    BY <1>a, <2>1, SlotUpdated DEF Moves
  <2>3. \A g \in Slots : slot'[g] = slot[g] \/ slot'[g] = Idle \/ Linked(slot[g])'
    BY <2>1, <2>2 DEF Linked
  <2>4. /\ inst' \in [Instances -> [pc : {"down", "booting", "up"}, todo : SUBSET Nat]]
        /\ \A i \in Instances : inst'[i].todo \subseteq inst[i].todo
    BY <2>1, <1>a, InstanceAssumption
  <2> QED
    BY <1>a, <1>b, <2>1, <2>2, <2>3, <2>4, TypedFromParts
<1>6. ASSUME NEW h \in Slots, Finishes(h)
      PROVE  Typed'
  BY <1>6, <1>a, <1>c, IdleTyped DEF Finishes
<1>7. ASSUME NEW i \in Instances, Cycles(i)
      PROVE  Typed'
  <2>1. PICK x \in [pc : {"down", "booting", "up"}, todo : SUBSET Nat] :
          inst' = [inst EXCEPT ![i] = x] /\ x.todo \subseteq Requests
    BY <1>7 DEF Cycles
  <2>2. /\ inst' \in [Instances -> [pc : {"down", "booting", "up"}, todo : SUBSET Nat]]
        /\ \A k \in Instances : inst'[k].todo \subseteq inst[k].todo \/ inst'[k].todo \subseteq Requests
    BY <2>1, <1>a
  <2>3. /\ RowsGrow /\ slot' \in [Slots -> SlotType] /\ UNCHANGED <<ledger, deep>>
        /\ \A h \in Slots : slot'[h] = slot[h] \/ slot'[h] = Idle
    BY <1>7 DEF Cycles
  <2> QED
    BY <1>a, <1>b, <2>2, <2>3, TypedFromParts
<1> QED
  BY <1>1, <1>2, <1>3, <1>4, <1>5, <1>6, <1>7 DEF AnyStep

-----------------------------------------------------------------------------
(* What is recorded, what is sent *)

\* One handler moves, the others stay.
LEMMA MoveFacts ==
  ASSUME Typed, NEW h, NEW t, Moves(h, t)
  PROVE  h \in Slots /\ t \in SlotType /\ slot'[h] = t /\ \A g \in Slots \ {h} : slot'[g] = slot[g]
  BY SlotUpdated DEF Typed, Moves

\* The ledger keeps what it took.
LEMMA LedgerGrows ==
  ASSUME AnyStep
  PROVE  ledger \subseteq ledger'
<1>1. CASE Drifts \/ Settles \/ UNCHANGED vars
  BY <1>1 DEF Drifts, Settles, vars
<1>2. ASSUME NEW h, NEW t, Quiet(h, t) \/ Takes(h, t) \/ Redrives(h, t) \/ Records(h, t) \/ Answers(h, t)
      PROVE  ledger \subseteq ledger'
  BY <1>2 DEF Quiet, Takes, Redrives, Records, Answers
<1>3. ASSUME NEW h, Finishes(h) PROVE ledger \subseteq ledger'
  BY <1>3 DEF Finishes
<1>4. ASSUME NEW i, Cycles(i) PROVE ledger \subseteq ledger'
  BY <1>4 DEF Cycles
<1> QED
  BY <1>1, <1>2, <1>3, <1>4 DEF AnyStep

\* What is recorded as submitted stays true.
LEMMA RecordedStep ==
  ASSUME Typed, AnswersHold, RecordedIsOnLedger, AnyStep
  PROVE  AnswersHold' /\ RecordedIsOnLedger'
<1>a. /\ \A r \in Requests : r \in Nat /\ req[r] \in RequestType
      /\ \A h \in Slots : slot[h] \in SlotType /\ Linked(slot[h])
      /\ ledger \subseteq ledger' /\ Len(req) \in Nat /\ Len(subs) \in Nat
  BY RowFacts, LedgerGrows DEF Typed
\* Handlers: only an answer brings one to "sent".
<1>b. ASSUME \A h \in Slots : slot'[h] = slot[h] \/ slot'[h].pc # "sent"
      PROVE  AnswersHold'
  BY <1>a, <1>b DEF AnswersHold
<1>c. \A h, t : Moves(h, t) /\ t.pc # "sent" => AnswersHold'
  BY <1>b, MoveFacts
\* Rows: what is submitted or confirmed was so before, or is on the ledger.
<1>d. ASSUME \A s \in Rows' : \/ s \in Rows /\ subs'[s] = subs[s]
                              \/ subs'[s].status \in {"submitted", "confirmed"}
                                   => subs'[s].b \in ledger
      PROVE  \A s \in Rows' : subs'[s].status \in {"submitted", "confirmed"} => subs'[s].b \in ledger'
  BY <1>a, <1>d DEF RecordedIsOnLedger
<1>e. ASSUME \A r \in Requests' : (r \in Requests /\ req'[r].b = req[r].b /\ req[r].status = "submitted")
                                  \/ (req'[r].status = "submitted" => req'[r].b \in ledger)
      PROVE  \A r \in Requests' : req'[r].status = "submitted" => req'[r].b \in ledger'
  BY <1>a, <1>e DEF RecordedIsOnLedger
<1>f. UNCHANGED subs => \A s \in Rows' : s \in Rows /\ subs'[s] = subs[s]
  BY DEF Rows
<1>g. UNCHANGED req => \A r \in Requests' : r \in Requests /\ req'[r] = req[r]
  BY DEF Requests
<1>1. CASE Drifts
  <2>1. AnswersHold'
    BY <1>1, <1>b DEF Drifts
  <2>2. \A r \in Requests' : (r \in Requests /\ req'[r].b = req[r].b /\ req[r].status = "submitted")
                              \/ req'[r].status # "submitted"
    BY <1>1 DEF Drifts
  <2> QED
    BY <1>1, <1>d, <1>e, <1>f, <2>1, <2>2 DEF Drifts, RecordedIsOnLedger
<1>2. CASE Settles
  <2>1. AnswersHold'
    BY <1>2, <1>b, IdleTyped DEF Settles
  <2>2. \A s \in Rows' : subs'[s].status \in {"submitted", "confirmed"} => subs'[s].b \in ledger
    BY <1>2 DEF Settles, RowsGrow, RecordedIsOnLedger
  <2>3. \A r \in Requests' : req'[r].status = "submitted" => req'[r].b \in ledger
    BY <1>2, <1>g DEF Settles, RecordedIsOnLedger
  <2> QED
    BY <1>a, <2>1, <2>2, <2>3 DEF RecordedIsOnLedger
<1>3. CASE UNCHANGED vars
  BY <1>3 DEF vars, AnswersHold, RecordedIsOnLedger, Requests, Rows
<1>4. ASSUME NEW h, NEW t, Quiet(h, t) \/ Takes(h, t) \/ Redrives(h, t) \/ Records(h, t)
      PROVE  AnswersHold' /\ RecordedIsOnLedger'
  <2>1. AnswersHold'
    BY <1>4, <1>c DEF Quiet, Takes, Redrives, Records
  <2>2. \A s \in Rows' : (s \in Rows /\ subs'[s] = subs[s]) \/ subs'[s].status = "pending"
    BY <1>4, <1>f DEF Quiet, Takes, Redrives, Records
  <2>3. \A r \in Requests' : (r \in Requests /\ req'[r] = req[r])
                              \/ req'[r].status \in {"pending", "submitting"}
    BY <1>4, <1>g DEF Quiet, Takes, Redrives, Records, Writes, Adds
  <2>4. \A s \in Rows' : subs'[s].status \in {"submitted", "confirmed"} => subs'[s].b \in ledger
    BY <2>2 DEF RecordedIsOnLedger
  <2>5. \A r \in Requests' : req'[r].status = "submitted" => req'[r].b \in ledger
    BY <2>3 DEF RecordedIsOnLedger
  <2> QED
    BY <1>a, <2>1, <2>4, <2>5 DEF RecordedIsOnLedger
<1>5. ASSUME NEW h, NEW t, Answers(h, t)
      PROVE  AnswersHold' /\ RecordedIsOnLedger'
  <2>1. /\ h \in Slots /\ slot'[h] = t /\ \A g \in Slots \ {h} : slot'[g] = slot[g]
        /\ t.res \in {"ok", "already"} => t.b \in ledger'
    BY <1>5, MoveFacts DEF Answers
  <2>2. AnswersHold'
    BY <1>a, <2>1 DEF AnswersHold
  <2>3. UNCHANGED <<req, subs>>
    BY <1>5 DEF Answers
  <2> QED
    BY <1>a, <2>2, <2>3, <1>f, <1>g DEF RecordedIsOnLedger
<1>6. ASSUME NEW h \in Slots, Finishes(h)
      PROVE  AnswersHold' /\ RecordedIsOnLedger'
  <2>1. AnswersHold'
    BY <1>6, <1>c, IdleTyped DEF Finishes
  <2>2. slot[h].pc = "sent" /\ slot[h].r # 0 /\ req[slot[h].r].b = slot[h].b
        /\ UNCHANGED ledger
        /\ (slot[h].res \in {"ok", "already"} => slot[h].b \in ledger)
    BY <1>6, <1>a DEF Finishes, Linked, Busy, AnswersHold
  <2>3. CASE UNCHANGED subs /\ Writes(slot[h].r, "failed", req[slot[h].r].tx)
    BY <2>1, <2>2, <2>3, <1>f DEF Writes, RecordedIsOnLedger
  <2>4. CASE /\ Writes(slot[h].r, "submitted", req[slot[h].r].tx)
             /\ slot[h].res \in {"ok", "already"}
             /\ Rows' = Rows \cup {Len(subs) + 1} /\ subs'[Len(subs) + 1].b = slot[h].b
             /\ \A s \in Rows : subs'[s] = subs[s]
    BY <2>1, <2>2, <2>4 DEF Writes, RecordedIsOnLedger
  <2> QED
    BY <1>6, <2>3, <2>4 DEF Finishes
<1>7. ASSUME NEW i, Cycles(i)
      PROVE  AnswersHold' /\ RecordedIsOnLedger'
  <2>1. UNCHANGED <<req, subs, ledger>>
        /\ \A h \in Slots : slot'[h] = slot[h] \/ slot'[h] = Idle
    BY <1>7 DEF Cycles
  <2> QED
    BY <2>1, <1>b, <1>f, <1>g, IdleTyped DEF RecordedIsOnLedger
<1> QED
  BY <1>1, <1>2, <1>3, <1>4, <1>5, <1>6, <1>7 DEF AnyStep

\* What the signing path holds stays verified.
LEMMA CheckedStep ==
  ASSUME Typed, HeldIsChecked, AnyStep
  PROVE  HeldIsChecked'
<1>a. /\ \A r \in Requests : r \in Nat /\ req[r] \in RequestType
      /\ \A h \in Slots : slot[h] \in SlotType /\ Linked(slot[h])
      /\ Len(req) \in Nat
  BY RowFacts DEF Typed
<1> DEFINE Good(t) == /\ t.pc \in Busy \cup {"callerTx"} /\ t.s = 0 => Checked(t.tx, t.b)
                      /\ t.pc \in Busy /\ t.r # 0 => t.s = 0
<1>b. ASSUME NEW g \in Slots PROVE Good(slot[g])
  BY DEF HeldIsChecked
<1>c. Good(Idle)
  BY IdleTyped DEF Busy
<1>d. ASSUME \A g \in Slots : Good(slot'[g]),
             \A r \in Requests' : req'[r].tx # NoTx => Checked(req'[r].tx, req'[r].b)
      PROVE  HeldIsChecked'
  BY <1>d DEF HeldIsChecked, Checked, Verifies
<1> HIDE DEF Good
<1>e. ASSUME NEW h, NEW t, Moves(h, t), Good(t)
      PROVE  \A g \in Slots : Good(slot'[g])
  BY <1>b, <1>e, MoveFacts
<1>f. UNCHANGED req => \A r \in Requests' : req'[r].tx # NoTx => Checked(req'[r].tx, req'[r].b)
  BY DEF HeldIsChecked, Requests
<1>1. CASE Drifts
  <2>1. \A r \in Requests' : req'[r].tx # NoTx => Checked(req'[r].tx, req'[r].b)
    BY <1>1 DEF Drifts, HeldIsChecked
  <2>2. \A g \in Slots : Good(slot'[g])
    BY <1>1, <1>b DEF Drifts
  <2> QED
    BY <1>d, <2>1, <2>2
<1>2. CASE Settles \/ (\E i \in Instances : Cycles(i)) \/ UNCHANGED vars
  <2>1. UNCHANGED req /\ \A h \in Slots : slot'[h] = slot[h] \/ slot'[h] = Idle
    BY <1>2 DEF Settles, Cycles, vars
  <2>2. \A g \in Slots : Good(slot'[g])
    BY <2>1, <1>b, <1>c
  <2> QED
    BY <1>d, <1>f, <2>1, <2>2
<1>3. ASSUME NEW h, NEW t, Quiet(h, t)
      PROVE  HeldIsChecked'
  <2>1. Moves(h, t) /\ Good(t)
    BY <1>3 DEF Quiet, Good, Busy
  <2>2. \A r \in Requests' : (r \in Requests /\ req'[r] = req[r]) \/ req'[r].tx = NoTx
    BY <1>3 DEF Quiet, Adds, Requests
  <2> QED
    BY <1>d, <1>e, <2>1, <2>2 DEF HeldIsChecked
<1>4. ASSUME NEW h, NEW t, Takes(h, t)
      PROVE  HeldIsChecked'
  <2>1. Moves(h, t) /\ Good(t) /\ Checked(t.tx, t.b)
    BY <1>4 DEF Takes, Good, Busy
  <2>2. \A r \in Requests' : \/ r \in Requests /\ req'[r].tx = req[r].tx /\ req'[r].b = req[r].b
                             \/ req'[r].tx = NoTx
                             \/ req'[r].tx = t.tx /\ req'[r].b = t.b
    <3>1. slot[h] \in SlotType /\ Linked(slot[h])
      BY <1>a, <2>1 DEF Moves
    <3>2. slot[h].pc = "callerTx" /\ slot[h].r = t.r /\ t.r \in Requests => req[t.r].b = slot[h].b
      BY <3>1, <1>a DEF Linked, Requests
    <3> QED
      BY <1>4, <3>2 DEF Takes, Writes, Adds, Requests
  <2> QED
    BY <1>d, <1>e, <2>1, <2>2 DEF HeldIsChecked
<1>5. ASSUME NEW h, NEW t, Redrives(h, t)
      PROVE  HeldIsChecked'
  <2>1. Moves(h, t) /\ UNCHANGED req /\ Checked(t.tx, t.b) /\ t.s = 0
    BY <1>5 DEF Redrives, HeldIsChecked
  <2> QED
    BY <1>d, <1>e, <1>f, <2>1 DEF Good
<1>6. ASSUME NEW h, NEW t, Records(h, t)
      PROVE  HeldIsChecked'
  <2>1. Moves(h, t) /\ UNCHANGED req /\ t.r = 0 /\ t.s # 0
    BY <1>6 DEF Records
  <2> QED
    BY <1>d, <1>e, <1>f, <2>1 DEF Good
<1>7. ASSUME NEW h, NEW t, Answers(h, t)
      PROVE  HeldIsChecked'
  <2>1. /\ Moves(h, t) /\ UNCHANGED req /\ slot[h].pc = "send" /\ t.pc = "sent" /\ t.r = slot[h].r
        /\ t.s = slot[h].s /\ t.tx = slot[h].tx /\ t.b = slot[h].b /\ h \in Slots
    BY <1>7, MoveFacts DEF Answers
  <2>2. Good(t)
    BY <2>1, <1>b DEF Good, Busy
  <2> QED
    BY <1>d, <1>e, <1>f, <2>1, <2>2
<1>8. ASSUME NEW h \in Slots, Finishes(h)
      PROVE  HeldIsChecked'
  <2>1. \A r \in Requests' : r \in Requests /\ req'[r].tx = req[r].tx /\ req'[r].b = req[r].b
    BY <1>8 DEF Finishes, Writes
  <2> QED
    BY <1>8, <1>c, <1>d, <1>e, <2>1 DEF Finishes, HeldIsChecked
<1> QED
  BY <1>1, <1>2, <1>3, <1>4, <1>5, <1>6, <1>7, <1>8 DEF AnyStep

-----------------------------------------------------------------------------
(* One handler per request *)

\* A handler that has claimed a request or holds its row's lock.
Active == Busy \cup {"callerTx"}

\* What Claims says of the handlers, apart from their instances.
ClaimsHold ==
  /\ \A h \in Slots : slot[h].pc \in Busy /\ slot[h].r # 0 => req[slot[h].r].status = "submitting"
  /\ \A h \in Slots : slot[h].pc = "callerTx" /\ slot[h].r # 0
                        => req[slot[h].r].status \in {"pending", "verified"}
  /\ \A g, h \in Slots : slot[g].pc \in Active /\ slot[h].pc \in Active
                         /\ slot[g].r = slot[h].r /\ slot[g].r # 0 => g = h

\* A boot re-drives what nobody works on; what it has left to do is claimed.
BootsHold ==
  /\ \A h \in Slots : inst[InstanceOf[h]].pc = "down" => slot[h].pc = "idle"
  /\ \A h \in Slots : inst[InstanceOf[h]].pc # "booting" => inst[InstanceOf[h]].todo = {}
  /\ \A h \in Slots : \A r \in inst[InstanceOf[h]].todo :
        /\ req[r].status = "submitting"
        /\ \A g \in Slots : ~(slot[g].pc \in Busy /\ slot[g].r = r)

\* A handler moves to t while request r is written: the others do not name r.
LEMMA ClaimsFromMove ==
  ASSUME Typed, ClaimsHold, NEW h, NEW t, Moves(h, t),
         \A g \in Slots \ {h} : slot[g].pc \in Active /\ slot[g].r # 0 =>
           /\ req'[slot[g].r].status = req[slot[g].r].status
           /\ t.pc \in Active => slot[g].r # t.r,
         t.pc \in Busy /\ t.r # 0 => req'[t.r].status = "submitting",
         t.pc = "callerTx" /\ t.r # 0 => req'[t.r].status \in {"pending", "verified"}
  PROVE  ClaimsHold'
<1>1. h \in Slots /\ slot'[h] = t /\ \A g \in Slots \ {h} : slot'[g] = slot[g]
  BY MoveFacts
<1>2. ASSUME NEW g \in Slots, slot'[g].pc \in Busy, slot'[g].r # 0
      PROVE  req'[slot'[g].r].status = "submitting"
  BY <1>1, <1>2 DEF ClaimsHold, Active
<1>3. ASSUME NEW g \in Slots, slot'[g].pc = "callerTx", slot'[g].r # 0
      PROVE  req'[slot'[g].r].status \in {"pending", "verified"}
  BY <1>1, <1>3 DEF ClaimsHold, Active
<1>4. ASSUME NEW g \in Slots, NEW k \in Slots, slot'[g].pc \in Active, slot'[k].pc \in Active,
             slot'[g].r = slot'[k].r, slot'[g].r # 0
      PROVE  g = k
  BY <1>1, <1>4 DEF ClaimsHold
<1> QED
  BY <1>2, <1>3, <1>4 DEF ClaimsHold

\* Every step keeps one handler per claimed or locked request.
LEMMA ClaimsStep ==
  ASSUME Typed, ClaimsHold, BootsHold, AnyStep
  PROVE  ClaimsHold'
<1>a. /\ \A r \in Requests : r \in Nat /\ r # 0 /\ req[r] \in RequestType
      /\ \A h \in Slots : slot[h] \in SlotType /\ Linked(slot[h])
      /\ Len(req) \in Nat
  BY RowFacts DEF Typed
<1>b. \A h \in Slots : slot[h].pc \in Active /\ slot[h].r # 0 =>
         slot[h].r \in Requests /\ slot[h].r # Len(req) + 1
  BY <1>a DEF Linked, Requests, SlotType
<1>1. CASE Drifts
  <2>1. \A h \in Slots : slot[h].pc \in Busy /\ slot[h].r # 0 =>
           req'[slot[h].r].status = "submitting"
    BY <1>1, <1>b DEF Drifts, ClaimsHold, Active
  <2>2. \A h \in Slots : slot[h].pc = "callerTx" /\ slot[h].r # 0 =>
           req'[slot[h].r].status \in {"pending", "verified"}
    BY <1>1, <1>b DEF Drifts, ClaimsHold, Active, Unlocked
  <2> QED
    BY <1>1, <2>1, <2>2 DEF Drifts, ClaimsHold
<1>2. CASE Settles \/ (\E i \in Instances : Cycles(i)) \/ UNCHANGED vars
  <2>1. UNCHANGED req /\ \A h \in Slots : slot'[h] = slot[h] \/ slot'[h] = Idle
    BY <1>2 DEF Settles, Cycles, vars
  <2> QED
    BY <2>1, IdleTyped DEF ClaimsHold, Active, Busy
<1>3. ASSUME NEW h, NEW t, Quiet(h, t)
      PROVE  ClaimsHold'
  <2>1. Moves(h, t) /\ t.pc \notin Active
    BY <1>3 DEF Quiet, Active, Busy
  <2>2. \A r \in Requests : req'[r] = req[r]
    BY <1>3 DEF Quiet, Adds
  <2> QED
    BY <1>b, <2>1, <2>2, ClaimsFromMove DEF Active
<1>4. ASSUME NEW h, NEW t, Takes(h, t)
      PROVE  ClaimsHold'
  <2>a. Moves(h, t) /\ h \in Slots /\ t.pc \in {"callerTx", "send"}
    BY <1>4 DEF Takes, Moves
  \* Nobody else works on a request that can be claimed, or that h has locked.
  <2>b. \A g \in Slots \ {h} : slot[g].pc \in Active /\ slot[g].r # 0 /\ Claimable(slot[g].r)
                               /\ Unlocked(slot[g].r) => FALSE
    BY <1>b DEF Claimable, Unlocked, ClaimsHold, Active
  <2>c. \A g \in Slots \ {h} : slot[h].pc = "callerTx" /\ slot[g].pc \in Active /\ slot[g].r # 0
                               => slot[g].r # slot[h].r
    BY <2>a DEF ClaimsHold, Active
  <2>1. CASE /\ t.pc = "callerTx" /\ UNCHANGED req
             /\ t.r # 0 => t.r \in Requests /\ Claimable(t.r) /\ Unlocked(t.r)
    BY <1>b, <2>a, <2>b, <2>1, ClaimsFromMove DEF Claimable, Busy
  <2>2. CASE /\ t.pc = "send" /\ Claimable(t.r) /\ Unlocked(t.r)
             /\ Writes(t.r, "submitting", req[t.r].tx)
    BY <1>b, <2>a, <2>b, <2>2, ClaimsFromMove DEF Writes, Busy
  <2>3. CASE /\ t.pc = "send" /\ slot[h].pc = "callerTx" /\ slot[h].r = t.r
             /\ Writes(t.r, "submitting", t.tx)
    BY <1>b, <2>a, <2>c, <2>3, ClaimsFromMove DEF Writes, Busy
  <2>4. CASE /\ t.pc = "send" /\ t.r = Len(req) + 1
             /\ Adds(t.b, "submitting", NoTx) \/ Adds(t.b, "submitting", t.tx)
    BY <1>b, <2>a, <2>4, ClaimsFromMove DEF Adds, Busy
  <2> QED
    BY <1>4, <2>1, <2>2, <2>3, <2>4 DEF Takes
<1>5. ASSUME NEW h, NEW t, Redrives(h, t)
      PROVE  ClaimsHold'
  <2>1. /\ Moves(h, t) /\ UNCHANGED req /\ t.pc = "send" /\ h \in Slots
        /\ t.r \in inst[InstanceOf[h]].todo
    BY <1>5 DEF Redrives, Moves
  <2>2. req[t.r].status = "submitting" /\ \A g \in Slots : ~(slot[g].pc \in Busy /\ slot[g].r = t.r)
    BY <2>1 DEF BootsHold
  <2>3. \A g \in Slots : slot[g].pc \in Active /\ slot[g].r # 0 => slot[g].r # t.r
    BY <2>2 DEF ClaimsHold, Active
  <2> QED
    BY <2>1, <2>2, <2>3, ClaimsFromMove DEF Busy
<1>6. ASSUME NEW h, NEW t, Records(h, t)
      PROVE  ClaimsHold'
  <2>1. Moves(h, t) /\ UNCHANGED req /\ t.r = 0
    BY <1>6 DEF Records
  <2> QED
    BY <2>1, ClaimsFromMove
<1>7. ASSUME NEW h, NEW t, Answers(h, t)
      PROVE  ClaimsHold'
  <2>1. /\ Moves(h, t) /\ UNCHANGED req /\ slot[h].pc = "send" /\ t.pc = "sent" /\ t.r = slot[h].r
        /\ h \in Slots
    BY <1>7, MoveFacts DEF Answers
  <2>2. t.r # 0 => req'[t.r].status = "submitting"
    BY <2>1 DEF ClaimsHold, Busy
  <2>3. \A g \in Slots \ {h} : slot[g].pc \in Active /\ slot[g].r # 0 => slot[g].r # t.r
    BY <2>1 DEF ClaimsHold, Active, Busy
  <2> QED
    BY <2>1, <2>2, <2>3, ClaimsFromMove
<1>8. ASSUME NEW h \in Slots, Finishes(h)
      PROVE  ClaimsHold'
  <2>1. Moves(h, Idle) /\ slot[h].pc = "sent" /\ slot[h].r # 0
    BY <1>8 DEF Finishes
  <2>2. \A r \in Requests : r # slot[h].r => req'[r] = req[r]
    BY <1>8 DEF Finishes, Writes
  <2>3. \A g \in Slots \ {h} : slot[g].pc \in Active /\ slot[g].r # 0 => slot[g].r # slot[h].r
    BY <2>1 DEF ClaimsHold, Active, Busy
  <2> QED
    BY <1>b, <2>1, <2>2, <2>3, IdleTyped, ClaimsFromMove DEF Active, Busy
<1> QED
  BY <1>1, <1>2, <1>3, <1>4, <1>5, <1>6, <1>7, <1>8 DEF AnyStep

\* Steps that change no instance: what a boot has left to do stays claimed and
\* free of handlers.
LEMMA BootsFromMove ==
  ASSUME Typed, BootsHold, NEW h, NEW t, Moves(h, t), UNCHANGED inst,
         inst[InstanceOf[h]].pc # "down" \/ t.pc = "idle",
         \A r \in Requests : req[r].status = "submitting"
            => req'[r].status = "submitting" \/ (slot[h].pc \in Busy /\ slot[h].r = r),
         t.pc \in Busy =>
            \/ slot[h].pc \in Busy /\ slot[h].r = t.r
            \/ \A r \in Requests : req[r].status = "submitting" => r # t.r
  PROVE  BootsHold'
<1>1. h \in Slots /\ slot'[h] = t /\ \A g \in Slots \ {h} : slot'[g] = slot[g]
  BY MoveFacts
<1>2. \A k \in Slots : inst[InstanceOf[k]].todo \subseteq Requests
  BY RowFacts DEF Typed
<1>3. \A k \in Slots : inst'[InstanceOf[k]].pc = "down" => slot'[k].pc = "idle"
  BY <1>1 DEF BootsHold
<1>4. \A k \in Slots : inst'[InstanceOf[k]].pc # "booting" => inst'[InstanceOf[k]].todo = {}
  BY DEF BootsHold
<1>5. ASSUME NEW k \in Slots, NEW r \in inst'[InstanceOf[k]].todo
      PROVE  /\ req'[r].status = "submitting"
             /\ \A g \in Slots : ~(slot'[g].pc \in Busy /\ slot'[g].r = r)
  <2>1. /\ r \in Requests /\ req[r].status = "submitting"
        /\ \A g \in Slots : ~(slot[g].pc \in Busy /\ slot[g].r = r)
    BY <1>2, <1>5 DEF BootsHold
  <2>2. req'[r].status = "submitting"
    BY <1>1, <2>1
  <2>3. ~(t.pc \in Busy /\ t.r = r)
    BY <1>1, <2>1
  <2> QED
    BY <1>1, <2>1, <2>2, <2>3
<1> QED
  BY <1>3, <1>4, <1>5 DEF BootsHold

\* Every step keeps what a boot has left to do free, when there is one instance.
LEMMA BootsStep ==
  ASSUME OneInstance, Typed, ClaimsHold, BootsHold, AnyStep
  PROVE  BootsHold'
<1>a. /\ \A r \in Requests : r \in Nat /\ r # 0 /\ req[r] \in RequestType
      /\ \A h \in Slots : slot[h] \in SlotType /\ Linked(slot[h]) /\ InstanceOf[h] \in Instances
      /\ Len(req) \in Nat
      /\ \A h \in Slots : inst[InstanceOf[h]].todo \subseteq Requests
      /\ inst \in [Instances -> [pc : {"down", "booting", "up"}, todo : SUBSET Nat]]
  BY RowFacts DEF Typed, TypeOK
<1>b. \A h \in Slots : Free(h) => inst[InstanceOf[h]].pc = "up"
  BY DEF Free
<1>c. ASSUME UNCHANGED inst, \A h \in Slots : slot'[h] = slot[h] \/ slot'[h] = Idle,
             \A r \in Requests : req[r].status = "submitting" => req'[r].status = "submitting"
      PROVE  BootsHold'
  BY <1>a, <1>c, IdleTyped DEF BootsHold, Busy
<1>1. CASE Drifts
  BY <1>1, <1>c DEF Drifts
<1>2. CASE Settles \/ UNCHANGED vars
  BY <1>2, <1>c DEF Settles, vars
<1>3. ASSUME NEW i \in Instances, Cycles(i)
      PROVE  BootsHold'
  <2>1. PICK x \in [pc : {"down", "booting", "up"}, todo : SUBSET Nat] :
       /\ inst' = [inst EXCEPT ![i] = x]
       /\ \/ /\ inst[i].pc = "down" /\ x.pc = "booting" /\ UNCHANGED slot
             /\ x.todo = {r \in Requests : Interrupted(r)}
          \/ inst[i].todo = {} /\ x.pc = "up" /\ x.todo = {} /\ UNCHANGED slot
          \/ /\ x.pc = "down" /\ x.todo = {}
             /\ \A h \in Slots : slot'[h] = IF InstanceOf[h] = i THEN Idle ELSE slot[h]
    BY <1>3 DEF Cycles
  <2>2. UNCHANGED req
    BY <1>3 DEF Cycles
  <2>3. inst'[i] = x /\ \A k \in Instances \ {i} : inst'[k] = inst[k]
    BY <2>1, <1>a
  <2>4. CASE inst[i].pc = "down" /\ x.pc = "booting" /\ UNCHANGED slot
             /\ x.todo = {r \in Requests : Interrupted(r)}
    <3>1. \A h \in Slots : InstanceOf[h] = i => \A g \in Slots : slot[g].pc = "idle"
      BY <2>4 DEF OneInstance, BootsHold
    <3>2. \A r \in x.todo : req[r].status = "submitting"
      BY <2>4 DEF Interrupted
    <3> QED
      BY <1>a, <2>2, <2>3, <2>4, <3>1, <3>2 DEF BootsHold, Busy
  <2>5. CASE inst[i].todo = {} /\ x.pc = "up" /\ x.todo = {} /\ UNCHANGED slot
    BY <1>a, <2>2, <2>3, <2>5 DEF BootsHold
  <2>6. CASE /\ x.pc = "down" /\ x.todo = {}
             /\ \A h \in Slots : slot'[h] = IF InstanceOf[h] = i THEN Idle ELSE slot[h]
    BY <1>a, <2>2, <2>3, <2>6, IdleTyped, SMTT(60) DEF BootsHold, Busy
  <2> QED
    BY <2>1, <2>4, <2>5, <2>6
<1>4. ASSUME NEW h, NEW t, Quiet(h, t)
      PROVE  BootsHold'
  <2>1. Moves(h, t) /\ h \in Slots /\ UNCHANGED inst /\ t.pc \in {"idle", "create"}
        /\ \A r \in Requests : req'[r] = req[r]
    BY <1>4 DEF Quiet, Moves, Adds
  <2>2. t.pc = "create" => inst[InstanceOf[h]].pc # "down"
    BY <1>4, <2>1, <1>b DEF Quiet
  <2> QED
    BY <2>1, <2>2, BootsFromMove DEF Busy
<1>5. ASSUME NEW h, NEW t, Takes(h, t)
      PROVE  BootsHold'
  <2>1. Moves(h, t) /\ h \in Slots /\ UNCHANGED inst
    BY <1>5 DEF Takes, Moves
  <2>2. inst[InstanceOf[h]].pc # "down"
    BY <1>5, <2>1, <1>b DEF Takes, BootsHold
  <2>3. \A r \in Requests : req[r].status = "submitting" => req'[r].status = "submitting"
    BY <1>5 DEF Takes, Writes, Adds
  <2>4. t.pc \in Busy => \A r \in Requests : req[r].status = "submitting" => r # t.r
    <3>1. slot[h].pc = "callerTx" /\ slot[h].r = t.r /\ t.r \in Requests => req[t.r].status # "submitting"
      BY <1>a, <2>1 DEF ClaimsHold
    <3>2. \A r \in Requests : r # Len(req) + 1
      BY <1>a DEF Requests
    <3> QED
      BY <1>5, <3>1, <3>2 DEF Takes, Claimable, Writes, Busy
  <2> QED
    BY <2>1, <2>2, <2>3, <2>4, BootsFromMove
<1>6. ASSUME NEW h, NEW t, Redrives(h, t)
      PROVE  BootsHold'
  <2> DEFINE i == InstanceOf[h]
  <2>1. /\ Moves(h, t) /\ h \in Slots /\ UNCHANGED req /\ t.pc = "send"
        /\ t.r \in inst[i].todo /\ inst[i].pc = "booting"
        /\ inst' = [inst EXCEPT ![i].todo = @ \ {t.r}]
    BY <1>6 DEF Redrives, Moves
  <2>2. slot'[h] = t /\ \A g \in Slots \ {h} : slot'[g] = slot[g]
    BY <2>1, MoveFacts
  <2>3. i \in Instances /\ inst'[i].pc = "booting" /\ inst'[i].todo = inst[i].todo \ {t.r}
    BY <1>a, <2>1
  <2>4. \A k \in Slots : InstanceOf[k] = i
    BY <2>1 DEF OneInstance
  <2>5. \A r \in inst[i].todo : /\ req[r].status = "submitting"
                                /\ \A g \in Slots : ~(slot[g].pc \in Busy /\ slot[g].r = r)
    BY <2>1 DEF BootsHold
  <2> HIDE DEF i
  <2> QED
    BY <2>1, <2>2, <2>3, <2>4, <2>5 DEF BootsHold
<1>7. ASSUME NEW h, NEW t, Records(h, t)
      PROVE  BootsHold'
  <2>1. Moves(h, t) /\ h \in Slots /\ UNCHANGED <<inst, req>> /\ t.r = 0 /\ Free(h)
    BY <1>7 DEF Records, Moves
  <2> QED
    BY <1>a, <1>b, <2>1, BootsFromMove
<1>8. ASSUME NEW h, NEW t, Answers(h, t)
      PROVE  BootsHold'
  <2>1. /\ Moves(h, t) /\ UNCHANGED <<inst, req>> /\ slot[h].pc = "send" /\ t.r = slot[h].r
        /\ h \in Slots
    BY <1>8, MoveFacts DEF Answers
  <2>2. inst[InstanceOf[h]].pc # "down"
    BY <2>1 DEF BootsHold
  <2> QED
    BY <2>1, <2>2, BootsFromMove DEF Busy
<1>9. ASSUME NEW h \in Slots, Finishes(h)
      PROVE  BootsHold'
  <2>1. /\ Moves(h, Idle) /\ UNCHANGED inst /\ slot[h].pc \in Busy
        /\ \A r \in Requests : r # slot[h].r => req'[r] = req[r]
    BY <1>9 DEF Finishes, Writes, Busy
  <2> QED
    BY <2>1, BootsFromMove, IdleTyped DEF Busy
<1> QED
  BY <1>1, <1>2, <1>3, <1>4, <1>5, <1>6, <1>7, <1>8, <1>9 DEF AnyStep

-----------------------------------------------------------------------------
(* The theorems *)

\* The invariants hold initially.
LEMMA SigningInit ==
  ASSUME Init
  PROVE  SigningInv /\ ClaimsHold /\ BootsHold
<1>1. Requests = {} /\ Rows = {} /\ \A h \in Slots : slot[h] = Idle
  BY DEF Init, Requests, Rows
<1>2. \A h \in Slots : inst[InstanceOf[h]] = [pc |-> "booting", todo |-> {}]
  BY InstanceAssumption DEF Init
<1> QED
  BY <1>1, <1>2, IdleTyped, TypedInit
     DEF SigningInv, AnswersHold, RecordedIsOnLedger, HeldIsChecked, ClaimsHold, BootsHold,
         Active, Busy

\* Every step keeps the inductive invariant.
LEMMA SigningStep ==
  ASSUME SigningInv, [Next]_vars
  PROVE  SigningInv' /\ AnyStep
  BY StepKinds, TypedStep, RecordedStep, CheckedStep DEF SigningInv

\* The inductive invariant holds of the specification.
LEMMA SigningInductive == Spec => []SigningInv
  BY SigningInit, SigningStep, PTL DEF Spec

\* Type correctness of the requests, the submission rows, the handlers and the boots.
THEOREM RowsAreTyped == Spec => []TypeOK
<1>1. SigningInv => TypeOK
  BY DEF SigningInv, Typed
<1> QED
  BY <1>1, SigningInductive, PTL

\* What indexVerifiedTransactionSubmission and submitRecorded record as submitted, or
\* CheckSubmissionStatus as confirmed, the ledger took, across crashes and re-drives.
THEOREM RecordedIsTrue == Spec => []RecordedIsOnLedger
<1>1. SigningInv => RecordedIsOnLedger
  BY DEF SigningInv
<1> QED
  BY <1>1, SigningInductive, PTL

\* What the signing path submits passed SignatureVerifier.verify with the keys its build
\* requires, the re-driven ones included.
THEOREM SentIsVerified == Spec => []OnlyVerifiedSent
<1>1. SigningInv => OnlyVerifiedSent
  BY DEF SigningInv, HeldIsChecked, OnlyVerifiedSent, Checked, Verifies, Busy
<1> QED
  BY <1>1, SigningInductive, PTL

\* The WHERE clause of the claim, the caller's row lock and the boot that ends before
\* serving leave every request to one handler at a time, if one instance serves.
THEOREM OneHandlerPerRequest == OneInstance => (Spec => []ClaimIsExclusive)
<1> SUFFICES ASSUME OneInstance PROVE Spec => []ClaimIsExclusive
  OBVIOUS
<1>1. SigningInv /\ ClaimsHold /\ BootsHold /\ [Next]_vars
        => (SigningInv /\ ClaimsHold /\ BootsHold)'
  BY SigningStep, ClaimsStep, BootsStep DEF SigningInv
<1>2. SigningInv /\ ClaimsHold => ClaimIsExclusive
  <2> SUFFICES ASSUME SigningInv, ClaimsHold, NEW r \in Requests
               PROVE  Cardinality(Submitting(r)) <= 1
    BY DEF ClaimIsExclusive
  <2>1. r # 0
    BY RowFacts DEF SigningInv, Typed
  <2>2. \A g, h \in Submitting(r) : g = h
    BY <2>1 DEF Submitting, ClaimsHold, Active, Busy
  <2>3. CASE Submitting(r) = {}
    BY <2>3, FS_EmptySet
  <2>4. CASE Submitting(r) # {}
    <3>1. PICK h \in Submitting(r) : TRUE
      BY <2>4
    <3>2. Submitting(r) = {h}
      BY <2>2, <3>1
    <3> QED
      BY <3>2, FS_Singleton
  <2> QED
    BY <2>3, <2>4
<1> QED
  BY <1>1, <1>2, SigningInit, PTL DEF Spec

\* A request that is expired, failed or submitted stays what it is: no second
\* outcome is written over it.
OutcomesAreFinal ==
  [][\A r \in Requests : req[r].status \in {"expired", "failed", "submitted"}
       => req'[r].status = req[r].status]_vars

\* FinishRequest writes whatever the status is by then; with one handler per request
\* it never finds one that has ended.
THEOREM EndedStaysEnded == OneInstance => (Spec => OutcomesAreFinal)
<1> SUFFICES ASSUME OneInstance PROVE Spec => OutcomesAreFinal
  OBVIOUS
<1>1. SigningInv /\ ClaimsHold /\ BootsHold /\ [Next]_vars
        => (SigningInv /\ ClaimsHold /\ BootsHold)'
  BY SigningStep, ClaimsStep, BootsStep DEF SigningInv
<1>2. ASSUME SigningInv, ClaimsHold, [Next]_vars
      PROVE  [\A r \in Requests : req[r].status \in {"expired", "failed", "submitted"}
                => req'[r].status = req[r].status]_vars
  <2> SUFFICES ASSUME NEW r \in Requests, req[r].status \in {"expired", "failed", "submitted"}
               PROVE  req'[r].status = req[r].status
    OBVIOUS
  <2>1. AnyStep
    BY <1>2, SigningStep
  <2>2. ASSUME NEW h, NEW t, Takes(h, t)
        PROVE  req'[r].status = req[r].status
    <3>1. \A q \in Requests : q # 0
      BY <1>2, RowFacts DEF SigningInv, Typed
    <3> QED
      BY <1>2, <2>2, <3>1 DEF Takes, Moves, Writes, Adds, Claimable, ClaimsHold
  <2>3. ASSUME NEW h \in Slots, Finishes(h)
        PROVE  req'[r].status = req[r].status
    BY <1>2, <2>3 DEF Finishes, Writes, ClaimsHold, Busy
  <2>4. CASE Drifts \/ Settles \/ UNCHANGED vars
    BY <2>4 DEF Drifts, Settles, vars
  <2>5. ASSUME NEW h, NEW t, Quiet(h, t) \/ Redrives(h, t) \/ Records(h, t) \/ Answers(h, t)
        PROVE  req'[r].status = req[r].status
    BY <2>5 DEF Quiet, Adds, Redrives, Records, Answers
  <2>6. ASSUME NEW i, Cycles(i)
        PROVE  req'[r].status = req[r].status
    BY <2>6 DEF Cycles
  <2> QED
    BY <2>1, <2>2, <2>3, <2>4, <2>5, <2>6 DEF AnyStep
<1> QED
  BY <1>1, <1>2, SigningInit, PTL DEF Spec, OutcomesAreFinal
=============================================================================
