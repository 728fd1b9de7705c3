------------------------- MODULE WalletWorkerProofs -------------------------
(***************************************************************************)
(* Proofs about WalletWorker for every set of instances, wallets, claims   *)
(* and requests and every value of the bounds, in three parts: types and   *)
(* the order of storing and sending; one job in flight and true outcomes;  *)
(* the refinement of the abstract queue.                                   *)
(***************************************************************************)
EXTENDS WalletWorker, FiniteSetTheorems, TLAPS

USE DEF jobVars, leaseVars, statVars, recordVars, chainVars, boundVars

-----------------------------------------------------------------------------
(* Lemmas about the operators the actions are built from.                  *)

ExecState == [Instances -> [Wallets -> ExecType]]

\* The null values are not values of the types they complete.
LEMMA Nulls == NoJob \notin JobIds /\ NoTx \notin Txs
BY BoundAssumption DEF JobIds, NoJob, Txs, NoTx

\* The resting values have the types of the running ones.
LEMMA RestTypes == Idle \in ExecType /\ AtRest \in TickType /\ NoDue \in DueRow
BY DEF Idle, ExecType, Pcs, AtRest, TickType, NoDue, DueRow

\* Every other execution is left alone.
OthersKeep(i, w) ==
  \A k \in Instances, v \in Wallets : <<k, v>> # <<i, w>> => exec'[k][v] = exec[k][v]

\* Giving one wallet's execution a new local state keeps the type of exec and
\* changes nothing else.
LEMMA BecomeType ==
  ASSUME exec \in ExecState, NEW i \in Instances, NEW w \in Wallets, NEW e \in ExecType,
         Become(i, w, e)
  PROVE  /\ exec' \in ExecState
         /\ exec'[i][w] = e
         /\ OthersKeep(i, w)
BY DEF Become, ExecState, OthersKeep

\* The jumps of an execution keep its type.
LEMMA JumpTypes ==
  ASSUME exec \in ExecState, NEW i \in Instances, NEW w \in Wallets
  PROVE  /\ \A s \in Pcs : [exec[i][w] EXCEPT !.pc = s] \in ExecType
         /\ [Idle EXCEPT !.pc = "release"] \in ExecType
         /\ \A k \in {"transient", "permanent"} :
              /\ [exec[i][w] EXCEPT !.pc = "reread", !.err = k, !.tx = NoTx] \in ExecType
              /\ [exec[i][w] EXCEPT !.pc = "rlookup", !.err = k] \in ExecType
         /\ [exec[i][w] EXCEPT !.pc = "book", !.err = "none", !.via = "onchain"] \in ExecType
         /\ \A t \in Txs : [exec[i][w] EXCEPT !.pc = "fence", !.tx = t] \in ExecType
<1>1. exec[i][w] \in ExecType
  BY DEF ExecState
<1>2. [Idle EXCEPT !.pc = "release"] \in ExecType
  BY DEF ExecType, Pcs, Idle
<1>3. \A s \in Pcs : [exec[i][w] EXCEPT !.pc = s] \in ExecType
  BY <1>1 DEF ExecType
<1>4. ASSUME NEW k \in {"transient", "permanent"}
      PROVE  /\ [exec[i][w] EXCEPT !.pc = "reread", !.err = k, !.tx = NoTx] \in ExecType
             /\ [exec[i][w] EXCEPT !.pc = "rlookup", !.err = k] \in ExecType
  BY <1>1 DEF ExecType, Pcs, Failing, Settling
<1>5. /\ [exec[i][w] EXCEPT !.pc = "book", !.err = "none", !.via = "onchain"] \in ExecType
      /\ \A t \in Txs : [exec[i][w] EXCEPT !.pc = "fence", !.tx = t] \in ExecType
  BY <1>1 DEF ExecType, Pcs, Settling, Unstored
<1> QED BY <1>2, <1>3, <1>4, <1>5

\* A database call leaves the fault budget within its bound.
LEMMA FaultsType ==
  ASSUME faults \in 0..MaxDbFaults, DbOk \/ DbThrows PROVE faults' \in 0..MaxDbFaults
BY BoundAssumption DEF DbOk, DbThrows

\* Failing a set of rows keeps the types of the columns it writes.
LEMMA FailRowsType ==
  ASSUME TypeOK, NEW S \in SUBSET JobIds, FailRows(S)
  PROVE  /\ status' \in [JobIds -> Statuses] /\ dedupKey' \in [JobIds -> Claims \cup JobIds]
         /\ \A j \in JobIds : status'[j] = IF j \in S THEN "failed" ELSE status[j]
BY DEF FailRows, TypeOK, Statuses

\* The orphans of a wallet are existing rows of it.
LEMMA OrphansType ==
  ASSUME NEW w \in Wallets
  PROVE  /\ OrphanedBuilding(w) \subseteq {j \in JobIds : status[j] = "building" /\ WalletOf(j) = w}
         /\ OrphanedSubmitting(w) \subseteq {j \in JobIds : status[j] = "submitting" /\ WalletOf(j) = w}
BY DEF OrphanedBuilding, OrphanedSubmitting, JobsOf

\* markFailed fails at most the given row; its stats bump keeps its type.
LEMMA MarkFailedType ==
  ASSUME TypeOK, NEW j \in JobIds \cup {NoJob}, MarkFailed(j)
  PROVE  /\ status' \in [JobIds -> Statuses] /\ dedupKey' \in [JobIds -> Claims \cup JobIds]
         /\ jobsFailed' \in [Wallets -> Nat]
         /\ \A k \in JobIds : status'[k] = IF k = j /\ status[j] \in Failable THEN "failed" ELSE status[k]
<1>1. CASE status[j] \in Failable
  <2>1. FailRows({j} \cap JobIds)
    BY <1>1 DEF MarkFailed, FailRows
  <2>2. jobsFailed' \in [Wallets -> Nat]
    BY <1>1 DEF MarkFailed, TypeOK
  <2> QED BY <1>1, <2>1, <2>2, FailRowsType
<1>2. CASE status[j] \notin Failable
  BY <1>2 DEF MarkFailed, TypeOK
<1> QED BY <1>1, <1>2

-----------------------------------------------------------------------------
(* Type correctness.  It rests on an execution always working on an        *)
(* existing row of its own wallet, which the tick's due rows provide.      *)

RowOf(j, w) == j \in JobIds /\ status[j] # "absent" /\ WalletOf(j) = w

\* A running execution works on a row of its wallet.
ExecOnOwnJob ==
  \A i \in Instances, w \in Wallets :
    exec[i][w].pc \notin {"idle", "release"} => RowOf(exec[i][w].job, w)

\* A tick that dispatches read a row for each wallet it still has to visit.
DueOnOwnJob ==
  \A i \in Instances, w \in Wallets :
    tick[i].phase = "dispatch" /\ w \in tick[i].todo => RowOf(tick[i].due[w].job, w)

\* A row has a stored transaction, one of its own builds, exactly from markSubmitting
\* on (a failed row may have one or not).
RowTx ==
  \A j \in JobIds :
    /\ status[j] \in {"absent", "pending", "building", "cancelled"} => txHash[j] = NoTx
    /\ status[j] \in InFlight \cup {"confirmed"} => txHash[j] # NoTx
    /\ txHash[j] # NoTx => txHash[j][1] = j

\* An execution carries a build of its job, and from markSubmitting on the stored one.
ExecTx ==
  \A i \in Instances, w \in Wallets :
    /\ exec[i][w].pc \in {"fence", "store"} =>
         exec[i][w].tx \in Txs /\ exec[i][w].tx[1] = exec[i][w].job
    /\ exec[i][w].pc \in Settling =>
         exec[i][w].tx \in Txs /\ exec[i][w].tx = txHash[exec[i][w].job]

\* Trackers watch, and the network has seen, stored transactions only.
SeenTx ==
  /\ \A i \in Instances : \A t \in tracked[i] : txHash[t[1]] = t
  /\ \A t \in mempool \cup ledger : txHash[t[1]] = t

Typed == TypeOK /\ ExecOnOwnJob /\ DueOnOwnJob /\ RowTx /\ ExecTx /\ SeenTx

\* The initial state has the types.
LEMMA TypeInit == Init => TypeOK
BY RestTypes, BoundAssumption DEF Init, TypeOK, Statuses

\* Client calls keep the types.
LEMMA TypeClient ==
  ASSUME TypeOK, Client PROVE TypeOK'
<1>1. ASSUME NEW r \in Requests, NEW j \in JobIds, SubmitWalletJob(r, j) PROVE TypeOK'
  <2>0. r.idempotencyKey \in Claims \cup {NoClaim} /\ r.delayed \in BOOLEAN
    BY RequestAssumption DEF RequestType
  <2>1. /\ request' \in [JobIds -> Requests \cup {NoRequest}] /\ status' \in [JobIds -> Statuses]
        /\ \A k \in JobIds : status'[k] # "absent" => request'[k] \in Requests
    BY <1>1 DEF SubmitWalletJob, TypeOK, Statuses
  <2>2. dedupKey' \in [JobIds -> Claims \cup JobIds] /\ notBefore' \in [JobIds -> BOOLEAN]
    BY <1>1, <2>0 DEF SubmitWalletJob, TypeOK
  <2> QED BY <1>1, <2>1, <2>2 DEF SubmitWalletJob, TypeOK
<1>2. ASSUME NEW j \in JobIds, CancelJob(j) PROVE TypeOK'
  BY <1>2 DEF TypeOK, CancelJob, Statuses
<1> QED BY <1>1, <1>2 DEF Client

\* The dispatch tick keeps the types.
LEMMA TypeTick ==
  ASSUME TypeOK, NEW i \in Instances, Tick(i) PROVE TypeOK'
<1>0. exec \in ExecState /\ tick[i] \in TickType
  BY DEF TypeOK, ExecState
<1>1. ASSUME NEW w \in Wallets, TickReconcile(i, w) PROVE TypeOK'
  <2>1. tick' \in [Instances -> TickType]
    BY <1>0, <1>1 DEF TickReconcile, TypeOK, TickType, Visited
  <2>2. /\ leaseOwner' \in [Wallets -> Instances \cup {NoOwner, DeadOwner}]
        /\ leaseLive' \in [Wallets -> BOOLEAN]
    BY <1>1 DEF TickReconcile, TypeOK, TakeLease
  <2>3. exec' \in ExecState
    <3>1. ASSUME NEW j \in OrphanedSubmitting(w)
          PROVE [Idle EXCEPT !.pc = "rsubmit", !.job = j, !.tx = txHash[j], !.via = "resubmit"] \in ExecType
      BY OrphansType DEF TypeOK, ExecType, Idle, Pcs, Settling
    <3>2. CASE UNCHANGED exec
      BY <1>0, <3>2
    <3>3. ASSUME NEW j \in OrphanedSubmitting(w),
                 Spawn(i, w, [Idle EXCEPT !.pc = "rsubmit", !.job = j, !.tx = txHash[j], !.via = "resubmit"])
          PROVE exec' \in ExecState
      BY <1>0, <3>1, <3>3 DEF Spawn, ExecState
    <3> QED BY <1>1, <3>2, <3>3 DEF TickReconcile
  <2> QED BY <1>1, <2>1, <2>2, <2>3 DEF TickReconcile, TypeOK, ExecState
<1>2. CASE TickReadDue(i)
  <2>1. tick' \in [Instances -> TickType]
    <3> DEFINE ready == {w \in Wallets : DueJobs(w) # {}}
               row(first) == [phase |-> "dispatch", todo |-> ready,
                              due |-> [w \in Wallets |-> IF w \in ready
                                         THEN [job |-> first[w], attempt |-> attempt[first[w]]]
                                         ELSE NoDue]]
    <3>1. ASSUME NEW first \in [ready -> JobIds] PROVE row(first) \in TickType
      <4>1. \A w \in ready : [job |-> first[w], attempt |-> attempt[first[w]]] \in DueRow
        BY DEF TypeOK, DueRow
      <4> QED BY <4>1, RestTypes DEF TickType
    <3>2. CASE tick' = [tick EXCEPT ![i] = AtRest]
      BY <3>2, RestTypes DEF TypeOK
    <3>3. ASSUME NEW first \in [ready -> JobIds], tick' = [tick EXCEPT ![i] = row(first)]
          PROVE tick' \in [Instances -> TickType]
      <4> HIDE DEF row
      <4> QED BY <3>1, <3>3 DEF TypeOK
    <3>4. \/ tick' = [tick EXCEPT ![i] = AtRest]
          \/ \E first \in [ready -> JobIds] : tick' = [tick EXCEPT ![i] = row(first)]
      BY <1>2 DEF TickReadDue
    <3> HIDE DEF ready, row
    <3> QED BY <3>2, <3>3, <3>4
  <2> QED BY <1>2, <2>1 DEF TickReadDue, TypeOK
<1>3. ASSUME NEW w \in Wallets, TickDispatch(i, w) PROVE TypeOK'
  <2>1. tick' \in [Instances -> TickType]
    <3>1. [tick[i] EXCEPT !.todo = Visited(i, w), !.due[w] = NoDue] \in TickType
      BY <1>0, RestTypes DEF TickType, Visited
    <3> QED BY <1>3, <3>1, RestTypes DEF TickDispatch, AfterDispatch, TypeOK
  <2>2. /\ leaseOwner' \in [Wallets -> Instances \cup {NoOwner, DeadOwner}]
        /\ leaseLive' \in [Wallets -> BOOLEAN]
    BY <1>3 DEF TickDispatch, TypeOK, TakeLease
  <2>3. exec' \in ExecState
    <3>1. tick[i].due[w] \in DueRow
      BY <1>0 DEF TickType
    <3>2. [Idle EXCEPT !.pc = "claim", !.job = tick[i].due[w].job,
                       !.attempt = tick[i].due[w].attempt + 1] \in ExecType
      <4>1. tick[i].due[w].job \in JobIds \cup {NoJob} /\ tick[i].due[w].attempt + 1 \in Nat
        BY <3>1 DEF DueRow
      <4> QED BY <4>1 DEF ExecType, Idle, Pcs, Unstored
    <3> QED BY <1>0, <1>3, <3>2 DEF TickDispatch, Spawn, ExecState
  <2>4. /\ status' \in [JobIds -> Statuses] /\ dedupKey' \in [JobIds -> Claims \cup JobIds]
        /\ \A j \in JobIds : status'[j] # "absent" => status[j] # "absent"
    <3>1. CASE FailRows(OrphanedBuilding(w))
      BY <3>1, FailRowsType, OrphansType
    <3>2. CASE UNCHANGED <<status, dedupKey>>
      BY <3>2 DEF TypeOK
    <3> QED BY <1>3, <3>1, <3>2 DEF TickDispatch
  <2> QED BY <1>3, <2>1, <2>2, <2>3, <2>4 DEF TickDispatch, TypeOK, ExecState
<1>4. CASE TickFails(i)
  BY <1>4, RestTypes, FaultsType DEF TickFails, TypeOK
<1> QED BY <1>1, <1>2, <1>3, <1>4 DEF Tick

\* Executions and reconciliations keep the types; what they send is a stored transaction.
LEMMA TypeExecute ==
  ASSUME TypeOK, ExecOnOwnJob, ExecTx, NEW i \in Instances, NEW w \in Wallets, Execute(i, w) PROVE TypeOK'
<1> DEFINE e == exec[i][w]
<1>0. /\ exec \in ExecState /\ e \in ExecType /\ e.job \in JobIds \cup {NoJob}
      /\ e.attempt \in Nat /\ e.tx \in Txs \cup {NoTx}
  BY DEF TypeOK, ExecState, ExecType
<1>job. e.pc \notin {"idle", "release"} => e.job \in JobIds
  BY DEF ExecOnOwnJob, RowOf
<1>1. ASSUME NEW s \in Pcs, Goto(i, w, s) PROVE exec' \in ExecState
  BY <1>0, <1>1, BecomeType, JumpTypes DEF Goto
<1>2. ASSUME NEW k \in {"transient", "permanent"}, Throw(i, w, k) PROVE exec' \in ExecState
  BY <1>0, <1>2, BecomeType, JumpTypes DEF Throw
<1>3. ASSUME Finish(i, w) \/ Become(i, w, Idle) PROVE exec' \in ExecState
  BY <1>0, <1>3, BecomeType, JumpTypes, RestTypes DEF Finish
<1>4. ASSUME NEW t \in Txs, Become(i, w, [e EXCEPT !.pc = "fence", !.tx = t]) PROVE exec' \in ExecState
  BY <1>0, <1>4, BecomeType, JumpTypes
<1>5. ASSUME NEW k \in {"transient", "permanent"}, Become(i, w, [e EXCEPT !.pc = "rlookup", !.err = k])
      PROVE exec' \in ExecState
  BY <1>0, <1>5, BecomeType, JumpTypes
<1>6. ASSUME Become(i, w, [e EXCEPT !.pc = "book", !.err = "none", !.via = "onchain"])
      PROVE exec' \in ExecState
  BY <1>0, <1>6, BecomeType, JumpTypes
<1>pcs. {"prep", "build", "store", "submit", "book", "adopt", "fail", "rfail"} \subseteq Pcs
  BY DEF Pcs, Unstored, Failing, Settling
<1>claim. CASE Claim(i, w)
  <2>1. exec' \in ExecState
    BY <1>claim, <1>1, <1>3, <1>pcs DEF Claim
  <2>2. /\ status' \in [JobIds -> Statuses] /\ attempt' \in [JobIds -> Nat]
        /\ \A j \in JobIds : status'[j] # "absent" => status[j] # "absent"
    BY <1>claim, <1>0 DEF Claim, TypeOK, Statuses
  <2> QED BY <1>claim, <2>1, <2>2, FaultsType DEF Claim, TypeOK, ExecState
<1>fence. ASSUME NEW s \in {"build", "store"}, Fence(i, w, s)
          PROVE exec' \in ExecState /\ leaseLive' \in [Wallets -> BOOLEAN] /\ faults' \in 0..MaxDbFaults
  BY <1>fence, <1>1, <1>3, <1>pcs, FaultsType DEF Fence, TypeOK
<1>prepare. CASE Prepare(i, w)
  <2>1. /\ exec' \in ExecState /\ leaseLive' \in [Wallets -> BOOLEAN]
        /\ faults' \in 0..MaxDbFaults
    <3>1. CASE request[e.job].kind = "submitSigned" /\ Become(i, w, [e EXCEPT !.pc = "fence", !.tx = <<e.job, 0>>])
               /\ UNCHANGED <<leaseLive, faults>>
      <4>1. <<e.job, 0>> \in Txs
        BY <1>prepare, <1>job, BoundAssumption DEF Txs, Prepare, At
      <4> QED BY <3>1, <4>1, <1>4 DEF TypeOK
    <3> QED BY <1>prepare, <3>1, <1>2, <1>fence DEF Prepare, TypeOK
  <2> QED BY <1>prepare, <2>1 DEF Prepare, TypeOK, ExecState
<1>build. CASE BuildAndSign(i, w)
  <2>1. exec' \in ExecState /\ builds' \in [JobIds -> 0..MaxBuilds]
    <3>1. CASE /\ builds[e.job] < MaxBuilds
               /\ builds' = [builds EXCEPT ![e.job] = @ + 1]
               /\ Become(i, w, [e EXCEPT !.pc = "fence", !.tx = <<e.job, builds[e.job] + 1>>])
      <4>0. e.job \in JobIds
        BY <1>build, <1>job DEF BuildAndSign, At
      <4>1. <<e.job, builds[e.job] + 1>> \in Txs
        BY <3>1, <4>0, BoundAssumption DEF Txs, TypeOK
      <4>2. builds' \in [JobIds -> 0..MaxBuilds]
        BY <3>1, <4>0, BoundAssumption DEF TypeOK
      <4> QED BY <3>1, <4>1, <4>2, <1>4
    <3> QED BY <1>build, <3>1, <1>2 DEF BuildAndSign, TypeOK
  <2> QED BY <1>build, <2>1 DEF BuildAndSign, TypeOK, ExecState
<1>fence2. CASE FenceBeforeSubmit(i, w)
  BY <1>fence2, <1>fence DEF FenceBeforeSubmit, TypeOK, ExecState
<1>store. CASE MarkSubmitting(i, w)
  <2>1. exec' \in ExecState
    BY <1>store, <1>1, <1>2, <1>3, <1>pcs DEF MarkSubmitting
  <2>2. /\ status' \in [JobIds -> Statuses] /\ txHash' \in [JobIds -> Txs \cup {NoTx}]
        /\ \A j \in JobIds : status'[j] # "absent" => status[j] # "absent"
    BY <1>store, <1>0 DEF MarkSubmitting, TypeOK, Statuses, Storable
  <2> QED BY <1>store, <2>1, <2>2, FaultsType DEF MarkSubmitting, TypeOK, ExecState
<1>mempool. ASSUME e.tx \in Txs, Accepted(e.tx) \/ Rejected(e.tx) \/ Unanswered(e.tx)
            PROVE mempool' \subseteq Txs
  BY <1>mempool DEF Accepted, Rejected, Unanswered, TypeOK
<1>tx. e.pc \in Settling => e.tx \in Txs
  BY DEF ExecTx
<1>submit. CASE SubmitStoredTransaction(i, w)
  <2>1. e.tx \in Txs /\ mempool' \subseteq Txs
    BY <1>submit, <1>mempool, <1>tx DEF SubmitStoredTransaction, At, Settling
  <2>2. exec' \in ExecState
    BY <1>submit, <1>1, <1>3, <1>pcs DEF SubmitStoredTransaction
  <2> QED BY <1>submit, <2>1, <2>2 DEF SubmitStoredTransaction, TypeOK, ExecState
<1>resubmit. CASE Resubmit(i, w)
  <2>1. e.tx \in Txs /\ mempool' \subseteq Txs
    BY <1>resubmit, <1>mempool, <1>tx DEF Resubmit, At, Settling
  <2>2. exec' \in ExecState
    BY <1>resubmit, <1>1, <1>5, <1>pcs DEF Resubmit
  <2> QED BY <1>resubmit, <2>1, <2>2 DEF Resubmit, TypeOK, ExecState
<1>book. CASE RecordSubmission(i, w)
  <2>1. recorded' \subseteq Txs
    BY <1>book, <1>tx DEF RecordSubmission, At, Settling, TypeOK
  <2>3. unbooked' \subseteq JobIds \X Bookings
    <3>1. e.job \in JobIds
      BY <1>book, <1>job DEF RecordSubmission, At
    <3>2. unbooked' = unbooked \/ unbooked' = unbooked \cup {<<e.job, "record">>}
      BY <1>book DEF RecordSubmission
    <3> QED BY <3>1, <3>2 DEF TypeOK, Bookings
  <2>2. exec' \in ExecState /\ faults' \in 0..MaxDbFaults
    BY <1>book, <1>1, <1>pcs, FaultsType DEF RecordSubmission, TypeOK
  <2> QED BY <1>book, <2>1, <2>2, <2>3 DEF RecordSubmission, TypeOK, ExecState
<1>adopt. CASE AdoptSubmitted(i, w)
  <2>1. e.tx \in Txs
    BY <1>adopt, <1>tx DEF AdoptSubmitted, At, Settling
  <2>2. exec' \in ExecState
    BY <1>adopt, <1>0, <1>2, <1>3, <1>5 DEF AdoptSubmitted, ExecType
  <2>3. tracked' \in [Instances -> SUBSET Txs]
    <3>1. CASE Track(i, e.tx)
      <4> HIDE DEF e
      <4> QED BY <3>1, <2>1 DEF Track, TypeOK
    <3> QED BY <1>adopt, <3>1 DEF AdoptSubmitted, TypeOK
  <2>4. /\ status' \in [JobIds -> Statuses] /\ faults' \in 0..MaxDbFaults
        /\ \A j \in JobIds : status'[j] # "absent" => status[j] # "absent"
    BY <1>adopt, FaultsType DEF AdoptSubmitted, TypeOK, Statuses
  <2>5. unbooked' \subseteq JobIds \X Bookings
    <3>1. e.job \in JobIds
      BY <1>adopt, <1>job DEF AdoptSubmitted, At
    <3>2. unbooked' = unbooked \/ unbooked' = unbooked \cup {<<e.job, "adopt">>}
      BY <1>adopt DEF AdoptSubmitted
    <3> QED BY <3>1, <3>2 DEF TypeOK, Bookings
  <2> QED BY <1>adopt, <2>2, <2>3, <2>4, <2>5 DEF AdoptSubmitted, TypeOK, ExecState
<1>reread. CASE RereadRow(i, w)
  <2>1. exec' \in ExecState /\ faults' \in 0..MaxDbFaults
    BY <1>reread, <1>1, <1>3, <1>pcs, FaultsType DEF RereadRow, TypeOK
  <2> QED BY <1>reread, <2>1 DEF RereadRow, TypeOK, ExecState
<1>fail. CASE RequeueOrFail(i, w)
  <2>1. exec' \in ExecState /\ faults' \in 0..MaxDbFaults
    BY <1>fail, <1>3, FaultsType DEF RequeueOrFail, TypeOK
  <2>2. /\ status' \in [JobIds -> Statuses] /\ notBefore' \in [JobIds -> BOOLEAN]
        /\ dedupKey' \in [JobIds -> Claims \cup JobIds] /\ jobsFailed' \in [Wallets -> Nat]
        /\ \A j \in JobIds : status'[j] # "absent" => status[j] # "absent"
    <3>1. CASE MarkFailed(e.job) /\ UNCHANGED notBefore
      BY <3>1, <1>0, MarkFailedType DEF TypeOK, Failable
    <3>2. CASE /\ status' = [status EXCEPT ![e.job] = "pending"] /\ status[e.job] \in Requeueable
               /\ notBefore' = [notBefore EXCEPT ![e.job] = TRUE]
               /\ UNCHANGED <<dedupKey, jobsFailed>>
      BY <3>2 DEF TypeOK, Statuses, Requeueable
    <3>3. CASE UNCHANGED <<status, notBefore, dedupKey, jobsFailed>>
      BY <3>3 DEF TypeOK
    <3> QED BY <1>fail, <3>1, <3>2, <3>3 DEF RequeueOrFail
  <2> QED BY <1>fail, <2>1, <2>2 DEF RequeueOrFail, TypeOK, ExecState
<1>finally. CASE FinallyRelease(i, w)
  <2>1. exec' \in ExecState /\ faults' \in 0..MaxDbFaults
    BY <1>finally, <1>3, FaultsType DEF FinallyRelease, TypeOK
  <2>2. /\ leaseOwner' \in [Wallets -> Instances \cup {NoOwner, DeadOwner}]
        /\ leaseLive' \in [Wallets -> BOOLEAN]
    BY <1>finally DEF FinallyRelease, ReleaseLease, TypeOK
  <2> QED BY <1>finally, <2>1, <2>2 DEF FinallyRelease, TypeOK, ExecState
<1>lookup. CASE LookUpStoredTransaction(i, w)
  <2>1. exec' \in ExecState
    BY <1>lookup, <1>1, <1>3, <1>6, <1>pcs DEF LookUpStoredTransaction
  <2> QED BY <1>lookup, <2>1 DEF LookUpStoredTransaction, TypeOK, ExecState
<1>rfail. CASE FailReconciled(i, w)
  <2>1. exec' \in ExecState /\ faults' \in 0..MaxDbFaults
    BY <1>rfail, <1>3, FaultsType DEF FailReconciled, TypeOK
  <2>2. /\ status' \in [JobIds -> Statuses] /\ jobsFailed' \in [Wallets -> Nat]
        /\ dedupKey' \in [JobIds -> Claims \cup JobIds]
        /\ \A j \in JobIds : status'[j] # "absent" => status[j] # "absent"
    <3>1. CASE MarkFailed(e.job)
      BY <3>1, <1>0, MarkFailedType DEF TypeOK, Failable
    <3> QED BY <1>rfail, <3>1 DEF FailReconciled, TypeOK
  <2> QED BY <1>rfail, <2>1, <2>2 DEF FailReconciled, TypeOK, ExecState
<1> QED
  BY <1>claim, <1>prepare, <1>build, <1>fence2, <1>store, <1>submit, <1>resubmit, <1>book,
     <1>adopt, <1>reread, <1>fail, <1>finally, <1>lookup, <1>rfail DEF Execute

EventCounts == [JobIds -> [confirmed : Nat, failed : Nat]]

\* Publishing an event keeps the type of the event counters.
LEMMA EventsType ==
  ASSUME events \in EventCounts, NEW j \in JobIds
  PROVE  /\ [events EXCEPT ![j].confirmed = @ + 1] \in EventCounts
         /\ [events EXCEPT ![j].failed = @ + 1] \in EventCounts
<1>1. events[j] \in [confirmed : Nat, failed : Nat]
  BY DEF EventCounts
<1>2. /\ [events[j] EXCEPT !.confirmed = @ + 1] \in [confirmed : Nat, failed : Nat]
      /\ [events[j] EXCEPT !.failed = @ + 1] \in [confirmed : Nat, failed : Nat]
  BY <1>1
<1> QED BY <1>2 DEF EventCounts

\* The tracker's verdicts keep the types.
LEMMA TypeFinalize ==
  ASSUME TypeOK, NEW i \in Instances, Finalize(i) PROVE TypeOK'
<1> PICK t \in Txs : FinalizeConfirmed(i, t) \/ FinalizeDropped(i, t)
  BY DEF Finalize
<1> DEFINE j == t[1]
<1>0. j \in JobIds
  BY DEF Txs
<1>e. events \in EventCounts
  BY DEF TypeOK, EventCounts
<1>1. ASSUME Untrack(i, t) PROVE tracked' \in [Instances -> SUBSET Txs]
  BY <1>1 DEF Untrack, TypeOK
<1>2. CASE FinalizeConfirmed(i, t)
  <2>1. /\ status' \in [JobIds -> Statuses] /\ jobsConfirmed' \in [Wallets -> Nat]
        /\ \A k \in JobIds : status'[k] # "absent" => status[k] # "absent"
    <3>1. \/ /\ status[j] = "submitted" /\ status' = [status EXCEPT ![j] = "confirmed"]
             /\ jobsConfirmed' = [jobsConfirmed EXCEPT ![WalletOf(j)] = @ + 1]
          \/ UNCHANGED <<status, jobsConfirmed>>
      BY <1>2 DEF FinalizeConfirmed, Confirmable
    <3> HIDE DEF j
    <3>2. ASSUME NEW w, jobsConfirmed' = [jobsConfirmed EXCEPT ![w] = @ + 1]
          PROVE jobsConfirmed' \in [Wallets -> Nat]
      <4>1. jobsConfirmed \in [Wallets -> Nat]
        BY DEF TypeOK
      <4>2. \A v \in Wallets : jobsConfirmed[v] + 1 \in Nat
        BY <4>1
      <4> QED BY <3>2, <4>1, <4>2
    <3>3. jobsConfirmed' \in [Wallets -> Nat]
      BY <3>1, <3>2 DEF TypeOK
    <3> QED BY <1>0, <3>1, <3>3 DEF TypeOK, Statuses
  <2>2. recordedConfirmed' \subseteq Txs
    BY <1>2 DEF FinalizeConfirmed, TypeOK
  <2>3. events' \in EventCounts
    BY <1>0, <1>e, <1>2, EventsType DEF FinalizeConfirmed
  <2> QED BY <1>1, <1>2, <2>1, <2>2, <2>3 DEF FinalizeConfirmed, TypeOK, EventCounts
<1>3. CASE FinalizeDropped(i, t)
  <2>1. /\ status' \in [JobIds -> Statuses] /\ jobsFailed' \in [Wallets -> Nat]
        /\ dedupKey' \in [JobIds -> Claims \cup JobIds]
        /\ \A k \in JobIds : status'[k] # "absent" => status[k] # "absent"
    BY <1>0, <1>3, MarkFailedType DEF FinalizeDropped, Failable
  <2>2. events' \in EventCounts
    BY <1>0, <1>e, <1>3, EventsType DEF FinalizeDropped
  <2> QED BY <1>1, <1>3, <2>1, <2>2 DEF FinalizeDropped, TypeOK, EventCounts
<1> QED BY <1>2, <1>3

\* Starts, stops and crashes keep the types; a start tracks stored transactions.
LEMMA TypeLifeCycle ==
  ASSUME TypeOK, RowTx, NEW i \in Instances, LifeCycle(i) PROVE TypeOK'
<1>1. CASE Start(i)
  <2> DEFINE S == UNION {OrphanedBuilding(w) : w \in Wallets}
  <2>1. S \in SUBSET JobIds /\ \A j \in S : status[j] = "building"
    BY OrphansType
  <2>2. FailRows(S)
    BY <1>1 DEF Start
  <2>3. /\ status' \in [JobIds -> Statuses] /\ dedupKey' \in [JobIds -> Claims \cup JobIds]
        /\ \A j \in JobIds : status'[j] # "absent" => status[j] # "absent"
    <3> HIDE DEF S
    <3> QED BY <2>1, <2>2, FailRowsType
  <2>4. {txHash[j] : j \in {k \in JobIds : status[k] = "submitted"}} \subseteq Txs
    BY DEF TypeOK, RowTx, InFlight
  <2>5. tracked' \in [Instances -> SUBSET Txs] /\ mode' \in [Instances -> {"down", "up", "stopping"}]
    BY <1>1, <2>4 DEF Start, TypeOK
  <2> QED BY <1>1, <2>3, <2>5 DEF Start, TypeOK
<1>2. CASE StopBegin(i)
  BY <1>2, BoundAssumption DEF StopBegin, TypeOK
<1>3. CASE StopComplete(i)
  <2>1. /\ leaseOwner' \in [Wallets -> Instances \cup {NoOwner, DeadOwner}]
        /\ leaseLive' \in [Wallets -> BOOLEAN]
    BY <1>3 DEF StopComplete, TypeOK
  <2>2. faults' \in 0..MaxDbFaults
    BY <1>3, BoundAssumption DEF StopComplete, DbOk, DbThrows, TypeOK
  <2>3. tick' \in [Instances -> TickType] /\ mode' \in [Instances -> {"down", "up", "stopping"}]
    BY <1>3, RestTypes DEF StopComplete, TypeOK
  <2> QED BY <1>3, <2>1, <2>2, <2>3 DEF StopComplete, TypeOK
<1>4. CASE Crash(i)
  <2>1. exec' \in ExecState
    BY <1>4, RestTypes DEF Crash, TypeOK, ExecState
  <2>2. crashes' \in 0..MaxCrashes /\ tick' \in [Instances -> TickType]
        /\ leaseOwner' \in [Wallets -> Instances \cup {NoOwner, DeadOwner}]
    BY <1>4, RestTypes, BoundAssumption DEF Crash, TypeOK
  <2> QED BY <1>4, <2>1, <2>2 DEF Crash, TypeOK, ExecState
<1> QED BY <1>1, <1>2, <1>3, <1>4 DEF LifeCycle

\* Clocks and the chain keep the types.
LEMMA TypeClockAndChain ==
  ASSUME TypeOK, Clock \/ Chain PROVE TypeOK'
<1>1. ASSUME NEW i \in Instances, NEW w \in Wallets, Beat(i, w) PROVE TypeOK'
  BY <1>1 DEF Beat, TypeOK
<1>2. ASSUME NEW w \in Wallets, LeaseExpires(w) PROVE TypeOK'
  BY <1>2 DEF LeaseExpires, TypeOK
<1>3. ASSUME NEW j \in JobIds, NotBeforePasses(j) PROVE TypeOK'
  BY <1>3 DEF NotBeforePasses, TypeOK
<1>4. ASSUME NEW j \in JobIds, ConfirmationTimeout(j) PROVE TypeOK'
  BY <1>4 DEF ConfirmationTimeout, TypeOK
<1>5. ASSUME NEW t \in Txs, TxIncluded(t) PROVE TypeOK'
  BY <1>5 DEF TxIncluded, TypeOK
<1>6. ASSUME NEW t \in Txs, TxEvicted(t) PROVE TypeOK'
  BY <1>6 DEF TxEvicted, TypeOK
<1>7. ASSUME NEW t \in Txs, TxInvalidated(t) PROVE TypeOK'
  BY <1>7 DEF TxInvalidated, TypeOK
<1> QED BY <1>1, <1>2, <1>3, <1>4, <1>5, <1>6, <1>7 DEF Clock, Chain

\* Every step of the worker keeps the type invariant.
LEMMA TypeStep == ASSUME Typed, Next PROVE TypeOK'
BY TypeClient, TypeTick, TypeExecute, TypeFinalize, TypeLifeCycle, TypeClockAndChain
   DEF Next, Typed

-----------------------------------------------------------------------------
(* What a step does to a row.                                              *)

\* The status changes that leave the stored transaction alone.
QuietMove(s, t) ==
  \/ s = t
  \/ s \in Failable /\ t = "failed"
  \/ <<s, t>> \in {<<"absent", "pending">>, <<"pending", "cancelled">>, <<"pending", "building">>,
                  <<"building", "pending">>, <<"submitting", "submitted">>,
                  <<"submitted", "confirmed">>}

\* markSubmitting stores the transaction of an execution of the row.
StoreMove(j) ==
  /\ status[j] = "building" /\ status'[j] = "submitting"
  /\ \E i \in Instances, w \in Wallets :
       exec[i][w].pc = "store" /\ exec[i][w].job = j /\ txHash'[j] = exec[i][w].tx

RowMove(j) ==
  /\ \/ QuietMove(status[j], status'[j]) /\ txHash'[j] = txHash[j]
     \/ StoreMove(j)
  /\ status[j] # "absent" => request'[j] = request[j]

\* Executions move rows along the life cycle of a job.
LEMMA RowStepExecute ==
  ASSUME TypeOK, ExecOnOwnJob, NEW i \in Instances, NEW w \in Wallets, Execute(i, w),
         NEW j \in JobIds
  PROVE  RowMove(j)
<1> DEFINE e == exec[i][w]
<1>0. e.job \in JobIds \cup {NoJob}
  BY DEF TypeOK, ExecType
<1>1. CASE UNCHANGED <<request, status, txHash>>
  BY <1>1 DEF RowMove, QuietMove
<1>2. CASE Claim(i, w)
  BY <1>2 DEF Claim, RowMove, QuietMove, TypeOK
<1>3. CASE MarkSubmitting(i, w)
  BY <1>3 DEF MarkSubmitting, At, RowMove, QuietMove, StoreMove, Storable, TypeOK
<1>4. CASE AdoptSubmitted(i, w)
  BY <1>4 DEF AdoptSubmitted, RowMove, QuietMove, TypeOK
<1>5. CASE RequeueOrFail(i, w)
  <2>1. UNCHANGED <<request, txHash>>
    BY <1>5 DEF RequeueOrFail
  <2>2. CASE MarkFailed(e.job)
    BY <1>0, <2>1, <2>2, MarkFailedType DEF RowMove, QuietMove
  <2>3. CASE status' = [status EXCEPT ![e.job] = "pending"] /\ status[e.job] \in Requeueable
    BY <2>1, <2>3 DEF Requeueable, RowMove, QuietMove, TypeOK
  <2> QED BY <1>1, <1>5, <2>1, <2>2, <2>3 DEF RequeueOrFail
<1>6. CASE FailReconciled(i, w)
  <2>1. UNCHANGED <<request, txHash>>
    BY <1>6 DEF FailReconciled
  <2>2. CASE MarkFailed(e.job)
    BY <1>0, <2>1, <2>2, MarkFailedType DEF RowMove, QuietMove
  <2> QED BY <1>1, <1>6, <2>1, <2>2 DEF FailReconciled
<1>7. CASE Prepare(i, w) \/ BuildAndSign(i, w) \/ FenceBeforeSubmit(i, w)
           \/ SubmitStoredTransaction(i, w) \/ RecordSubmission(i, w) \/ RereadRow(i, w)
           \/ FinallyRelease(i, w) \/ Resubmit(i, w) \/ LookUpStoredTransaction(i, w)
  BY <1>1, <1>7 DEF Prepare, BuildAndSign, FenceBeforeSubmit, SubmitStoredTransaction,
     RecordSubmission, RereadRow, FinallyRelease, Resubmit, LookUpStoredTransaction
<1> QED BY <1>2, <1>3, <1>4, <1>5, <1>6, <1>7 DEF Execute

\* Every step moves every row along the life cycle of a job.
LEMMA RowStep ==
  ASSUME TypeOK, ExecOnOwnJob, Next, NEW j \in JobIds PROVE RowMove(j)
<1>1. CASE UNCHANGED <<request, status, txHash>>
  BY <1>1 DEF RowMove, QuietMove
<1>2. CASE Client
  <2>1. ASSUME NEW r \in Requests, NEW k \in JobIds, SubmitWalletJob(r, k) PROVE RowMove(j)
    BY <2>1 DEF SubmitWalletJob, RowMove, QuietMove, TypeOK
  <2>2. ASSUME NEW k \in JobIds, CancelJob(k) PROVE RowMove(j)
    BY <2>2 DEF CancelJob, RowMove, QuietMove, TypeOK
  <2> QED BY <1>2, <2>1, <2>2 DEF Client
<1>3. CASE Clock \/ Chain
  BY <1>1, <1>3 DEF Clock, Chain, Beat, LeaseExpires, NotBeforePasses, ConfirmationTimeout,
     TxIncluded, TxEvicted, TxInvalidated
<1>4. ASSUME NEW S \in SUBSET JobIds, FailRows(S), UNCHANGED <<request, txHash>>,
             \A k \in S : status[k] = "building"
      PROVE  RowMove(j)
  BY <1>4, FailRowsType DEF RowMove, QuietMove, Failable
<1>5. ASSUME NEW i \in Instances, Tick(i) PROVE RowMove(j)
  <2>1. ASSUME NEW w \in Wallets, TickDispatch(i, w) PROVE RowMove(j)
    <3>1. OrphanedBuilding(w) \in SUBSET JobIds /\ \A k \in OrphanedBuilding(w) : status[k] = "building"
      BY OrphansType
    <3>2. CASE FailRows(OrphanedBuilding(w))
      BY <1>4, <2>1, <3>1, <3>2 DEF TickDispatch
    <3> QED BY <1>1, <2>1, <3>2 DEF TickDispatch
  <2>2. ASSUME NEW w \in Wallets, TickReconcile(i, w) PROVE RowMove(j)
    BY <1>1, <2>2 DEF TickReconcile
  <2>3. CASE TickReadDue(i) \/ TickFails(i)
    BY <1>1, <2>3 DEF TickReadDue, TickFails
  <2> QED BY <1>5, <2>1, <2>2, <2>3 DEF Tick
<1>6. ASSUME NEW i \in Instances, Finalize(i) PROVE RowMove(j)
  <2> PICK t \in Txs : FinalizeConfirmed(i, t) \/ FinalizeDropped(i, t)
    BY <1>6 DEF Finalize
  <2> DEFINE k == t[1]
  <2>0. k \in JobIds
    BY DEF Txs
  <2>1. CASE FinalizeConfirmed(i, t)
    <3>1. /\ UNCHANGED <<request, txHash>>
          /\ \/ status[k] = "submitted" /\ status' = [status EXCEPT ![k] = "confirmed"]
             \/ UNCHANGED status
      BY <2>1 DEF FinalizeConfirmed, Confirmable
    <3> HIDE DEF k
    <3> QED BY <2>0, <3>1 DEF RowMove, QuietMove, TypeOK
  <2>2. CASE FinalizeDropped(i, t)
    <3>1. UNCHANGED <<request, txHash>> /\ MarkFailed(k)
      BY <2>2 DEF FinalizeDropped
    <3> HIDE DEF k
    <3> QED BY <2>0, <3>1, MarkFailedType DEF RowMove, QuietMove
  <2> QED BY <2>1, <2>2
<1>7. ASSUME NEW i \in Instances, LifeCycle(i) PROVE RowMove(j)
  <2>1. CASE Start(i)
    <3> DEFINE S == UNION {OrphanedBuilding(w) : w \in Wallets}
    <3>1. S \in SUBSET JobIds /\ \A k \in S : status[k] = "building"
      BY OrphansType
    <3>2. FailRows(S) /\ UNCHANGED <<request, txHash>>
      BY <2>1 DEF Start
    <3> HIDE DEF S
    <3> QED BY <1>4, <3>1, <3>2
  <2>2. CASE StopBegin(i) \/ StopComplete(i) \/ Crash(i)
    BY <1>1, <2>2 DEF StopBegin, StopComplete, Crash
  <2> QED BY <1>7, <2>1, <2>2 DEF LifeCycle
<1> QED BY <1>2, <1>3, <1>5, <1>6, <1>7, RowStepExecute DEF Next

\* A row of a wallet stays one.
LEMMA RowStays ==
  ASSUME TypeOK, NEW j \in JobIds, RowMove(j), NEW w \in Wallets, RowOf(j, w)
  PROVE  RowOf(j, w)'
BY DEF RowMove, RowOf, WalletOf, QuietMove, StoreMove, Failable

-----------------------------------------------------------------------------
(* What a step does to an execution.                                       *)

\* An execution that stays before the commit of its transaction, or handles a failure.
\* The fences are passed by the owner of the lease only.
Claimed == {"prep", "build", "fence", "store", "reread", "fail"}
EarlyMove(i, w, e, f) ==
  /\ f.job = e.job
  /\ \/ e.pc = "claim" /\ f.pc = "prep"
     \/ e.pc \in Claimed \cup {"adopt"} /\ f.pc \in Failing
     \/ e.pc = "prep" /\ f.pc = "build" /\ FenceHeld(i, w)
     \/ e.pc \in {"prep", "build"} /\ f.pc = "fence" /\ f.tx \in Txs /\ f.tx[1] = e.job
     \/ e.pc = "fence" /\ f.pc = "store" /\ f.tx = e.tx /\ FenceHeld(i, w)

\* An execution that commits its transaction, or goes on with the committed one.
LateMove(e, f) ==
  /\ f.job = e.job /\ f.tx = e.tx /\ f.pc \in Settling
  /\ \/ e.pc = "store" /\ txHash'[e.job] = e.tx
     \/ e.pc \in Settling

\* A tick starts an execution: of a row it read, or of an orphaned submit.
SpawnMove(w, e, f) ==
  /\ e.pc = "idle"
  /\ \/ f.pc = "claim" /\ RowOf(f.job, w)
     \/ f.pc = "rsubmit" /\ RowOf(f.job, w) /\ status[f.job] = "submitting" /\ f.tx = txHash[f.job]

ExecMove(i, w) ==
  LET e == exec[i][w]
      f == exec'[i][w]
  IN \/ f = e
     \/ f.pc \in {"idle", "release"}
     \/ EarlyMove(i, w, e, f) \/ LateMove(e, f) \/ SpawnMove(w, e, f)

\* A step of an execution changes only that execution, in one of these ways.
LEMMA ExecStepExecute ==
  ASSUME TypeOK, ExecOnOwnJob, ExecTx, NEW i \in Instances, NEW w \in Wallets, Execute(i, w)
  PROVE  /\ ExecMove(i, w)
         /\ OthersKeep(i, w)
<1> DEFINE e == exec[i][w]
<1>0. /\ exec \in ExecState /\ e \in ExecType
      /\ e.pc \notin {"idle", "release"} => e.job \in JobIds
  BY DEF TypeOK, ExecState, ExecOnOwnJob, RowOf
<1>1. ASSUME NEW s \in Pcs, Goto(i, w, s)
      PROVE  OthersKeep(i, w) /\ exec'[i][w] = [e EXCEPT !.pc = s]
  BY <1>0, <1>1, BecomeType, JumpTypes DEF Goto
<1>2. ASSUME NEW k \in {"transient", "permanent"}, Throw(i, w, k), e.pc \in Claimed \cup {"adopt"}
      PROVE  OthersKeep(i, w) /\ ExecMove(i, w)
  <2>1. OthersKeep(i, w) /\ exec'[i][w] = [e EXCEPT !.pc = "reread", !.err = k, !.tx = NoTx]
    BY <1>0, <1>2, BecomeType, JumpTypes DEF Throw
  <2> QED BY <1>0, <1>2, <2>1 DEF ExecMove, EarlyMove, ExecType, Failing
<1>3. ASSUME Finish(i, w) \/ Become(i, w, Idle) PROVE OthersKeep(i, w) /\ ExecMove(i, w)
  <2>1. OthersKeep(i, w) /\ (exec'[i][w] = [Idle EXCEPT !.pc = "release"] \/ exec'[i][w] = Idle)
    BY <1>0, <1>3, BecomeType, JumpTypes, RestTypes DEF Finish
  <2> QED BY <2>1 DEF ExecMove, Idle
<1>4. ASSUME NEW t \in Txs, t[1] = e.job, Become(i, w, [e EXCEPT !.pc = "fence", !.tx = t]),
             e.pc \in {"prep", "build"}
      PROVE  OthersKeep(i, w) /\ ExecMove(i, w)
  <2>0. [e EXCEPT !.pc = "fence", !.tx = t] \in ExecType
    BY <1>0, JumpTypes
  <2>1. OthersKeep(i, w) /\ exec'[i][w] = [e EXCEPT !.pc = "fence", !.tx = t]
    BY <1>0, <1>4, <2>0, BecomeType
  <2> QED BY <1>0, <1>4, <2>1 DEF ExecMove, EarlyMove, ExecType
<1>5. ASSUME NEW k \in {"transient", "permanent"}, Become(i, w, [e EXCEPT !.pc = "rlookup", !.err = k]),
             e.pc \in Settling
      PROVE  OthersKeep(i, w) /\ ExecMove(i, w)
  <2>1. OthersKeep(i, w) /\ exec'[i][w] = [e EXCEPT !.pc = "rlookup", !.err = k]
    BY <1>0, <1>5, BecomeType, JumpTypes
  <2> QED BY <1>0, <1>5, <2>1 DEF ExecMove, LateMove, ExecType, Settling
<1>6. ASSUME Become(i, w, [e EXCEPT !.pc = "book", !.err = "none", !.via = "onchain"]), e.pc \in Settling
      PROVE  OthersKeep(i, w) /\ ExecMove(i, w)
  <2>1. OthersKeep(i, w) /\ exec'[i][w] = [e EXCEPT !.pc = "book", !.err = "none", !.via = "onchain"]
    BY <1>0, <1>6, BecomeType, JumpTypes
  <2> QED BY <1>0, <1>6, <2>1 DEF ExecMove, LateMove, ExecType, Settling
<1>7. ASSUME NEW s \in Pcs, Goto(i, w, s),
             \/ s = "prep" /\ e.pc = "claim"
             \/ s = "fail" /\ e.pc = "reread"
             \/ s = "build" /\ e.pc = "prep" /\ FenceHeld(i, w)
             \/ s = "store" /\ e.pc = "fence" /\ FenceHeld(i, w)
             \/ s \in Settling /\ e.pc \in Settling
             \/ s \in Settling /\ e.pc = "store" /\ txHash'[e.job] = e.tx
      PROVE  OthersKeep(i, w) /\ ExecMove(i, w)
  <2>1. OthersKeep(i, w) /\ exec'[i][w] = [e EXCEPT !.pc = s]
    BY <1>1, <1>7
  <2>2. /\ exec'[i][w].pc = s /\ exec'[i][w].job = e.job /\ exec'[i][w].tx = e.tx
    BY <1>0, <2>1 DEF ExecType
  <2> QED BY <1>7, <2>1, <2>2 DEF ExecMove, EarlyMove, LateMove, Failing, Claimed
<1>pcs. {"prep", "build", "store", "submit", "book", "adopt", "fail", "rfail"} \subseteq Pcs
  BY DEF Pcs, Unstored, Failing, Settling
<1>fence. ASSUME NEW s \in {"build", "store"}, Fence(i, w, s), e.pc = IF s = "build" THEN "prep" ELSE "fence"
          PROVE  OthersKeep(i, w) /\ ExecMove(i, w)
  BY <1>fence, <1>3, <1>7, <1>pcs DEF Fence
<1>claim. CASE Claim(i, w)
  BY <1>claim, <1>3, <1>7, <1>pcs DEF Claim, At
<1>prepare. CASE Prepare(i, w)
  <2>1. e.pc = "prep" /\ <<e.job, 0>> \in Txs /\ <<e.job, 0>>[1] = e.job
    BY <1>prepare, <1>0, BoundAssumption DEF Prepare, At, Txs
  <2> QED BY <1>prepare, <1>2, <1>4, <1>fence, <2>1 DEF Prepare, Claimed
<1>build. CASE BuildAndSign(i, w)
  <2>1. e.pc = "build" /\ e.job \in JobIds
    BY <1>build, <1>0 DEF BuildAndSign, At
  <2>2. builds[e.job] < MaxBuilds => <<e.job, builds[e.job] + 1>> \in Txs
    BY <2>1, BoundAssumption DEF TypeOK, Txs
  <2> QED BY <1>build, <1>2, <1>4, <2>1, <2>2 DEF BuildAndSign, Claimed
<1>fence2. CASE FenceBeforeSubmit(i, w)
  BY <1>fence2, <1>fence DEF FenceBeforeSubmit, At
<1>store. CASE MarkSubmitting(i, w)
  <2>1. e.pc = "store" /\ e.job \in JobIds
    BY <1>store, <1>0 DEF MarkSubmitting, At
  <2>2. ASSUME txHash' = [txHash EXCEPT ![e.job] = e.tx] PROVE txHash'[e.job] = e.tx
    BY <2>1, <2>2 DEF TypeOK
  <2> QED BY <1>store, <1>2, <1>3, <1>7, <1>pcs, <2>1, <2>2 DEF MarkSubmitting, Settling, Claimed
<1>settle. CASE SubmitStoredTransaction(i, w) \/ Resubmit(i, w) \/ RecordSubmission(i, w)
                \/ LookUpStoredTransaction(i, w)
  BY <1>settle, <1>3, <1>5, <1>6, <1>7, <1>pcs
     DEF SubmitStoredTransaction, Resubmit, RecordSubmission, LookUpStoredTransaction, At, Settling
<1>adopt. CASE AdoptSubmitted(i, w)
  <2>1. e.via \in {"execute", "resubmit", "onchain"} /\ e.pc = "adopt"
    BY <1>adopt, <1>0 DEF AdoptSubmitted, At, ExecType
  <2> QED BY <1>adopt, <1>2, <1>3, <1>5, <2>1 DEF AdoptSubmitted, Settling
<1>fail. CASE RereadRow(i, w) \/ RequeueOrFail(i, w) \/ FinallyRelease(i, w) \/ FailReconciled(i, w)
  BY <1>fail, <1>3, <1>7, <1>pcs DEF RereadRow, RequeueOrFail, FinallyRelease, FailReconciled, At
<1> QED
  BY <1>claim, <1>prepare, <1>build, <1>fence2, <1>store, <1>settle, <1>adopt, <1>fail
     DEF Execute

\* Every step moves every execution along its program.
LEMMA ExecStep ==
  ASSUME Typed, Next, NEW k \in Instances, NEW v \in Wallets PROVE ExecMove(k, v)
<1>0. exec \in ExecState
  BY DEF Typed, TypeOK, ExecState
<1>1. CASE exec' = exec
  BY <1>1 DEF ExecMove
<1>2. ASSUME NEW i \in Instances, NEW w \in Wallets, Execute(i, w) PROVE ExecMove(k, v)
  <2>1. ExecMove(i, w) /\ OthersKeep(i, w)
    BY <1>2, ExecStepExecute DEF Typed
  <2>2. CASE <<k, v>> = <<i, w>>
    BY <2>1, <2>2
  <2>3. CASE <<k, v>> # <<i, w>>
    BY <2>1, <2>3 DEF OthersKeep, ExecMove
  <2> QED BY <2>2, <2>3
<1>3. ASSUME NEW i \in Instances, NEW w \in Wallets, NEW f \in ExecType, Spawn(i, w, f),
             SpawnMove(w, exec[i][w], f)
      PROVE  ExecMove(k, v)
  <2>1. CASE exec' = [exec EXCEPT ![i][w] = f]
    <3>1. exec'[i][w] = f /\ OthersKeep(i, w)
      BY <1>0, <2>1, BecomeType DEF Become
    <3>2. CASE <<k, v>> = <<i, w>>
      BY <1>3, <3>1, <3>2 DEF ExecMove
    <3>3. CASE <<k, v>> # <<i, w>>
      BY <3>1, <3>3 DEF OthersKeep, ExecMove
    <3> QED BY <3>2, <3>3
  <2> QED BY <1>1, <1>3, <2>1 DEF Spawn
<1>4. ASSUME NEW i \in Instances, NEW w \in Wallets, TickReconcile(i, w) PROVE ExecMove(k, v)
  <2>1. CASE ~(Busy(i, w) \/ AtCapacity(i) \/ OrphanedSubmitting(w) = {})
    <3> DEFINE start(j) == [Idle EXCEPT !.pc = "rsubmit", !.job = j, !.tx = txHash[j], !.via = "resubmit"]
    <3>1. PICK j \in OrphanedSubmitting(w) : Spawn(i, w, start(j))
      BY <1>4, <2>1 DEF TickReconcile
    <3>2. start(j) \in ExecType
      BY OrphansType DEF Typed, TypeOK, ExecType, Idle, Pcs, Settling
    <3>3. RowOf(j, w) /\ status[j] = "submitting"
      BY OrphansType DEF RowOf
    <3>4. start(j).pc = "rsubmit" /\ start(j).job = j /\ start(j).tx = txHash[j]
      BY DEF Idle
    <3>5. exec[i][w].pc = "idle"
      BY <2>1 DEF Busy
    <3> HIDE DEF start
    <3> QED BY <1>3, <3>1, <3>2, <3>3, <3>4, <3>5 DEF SpawnMove
  <2> QED BY <1>1, <1>4, <2>1 DEF TickReconcile
<1>5. ASSUME NEW i \in Instances, NEW w \in Wallets, TickDispatch(i, w) PROVE ExecMove(k, v)
  <2> DEFINE start == [Idle EXCEPT !.pc = "claim", !.job = tick[i].due[w].job,
                                   !.attempt = tick[i].due[w].attempt + 1]
  <2>1. CASE Spawn(i, w, start) /\ ~Busy(i, w)
    <3>1. RowOf(tick[i].due[w].job, w)
      BY <1>5 DEF TickDispatch, Ticking, Typed, DueOnOwnJob
    <3>2. tick[i].due[w] \in DueRow
      BY DEF Typed, TypeOK, TickType
    <3>3. tick[i].due[w].job \in JobIds \cup {NoJob} /\ tick[i].due[w].attempt + 1 \in Nat
      BY <3>2 DEF DueRow
    <3>4. start \in ExecType
      BY <3>3 DEF ExecType, Idle, Pcs, Unstored
    <3>5. start.pc = "claim" /\ start.job = tick[i].due[w].job
      BY DEF Idle
    <3>6. exec[i][w].pc = "idle"
      BY <2>1 DEF Busy
    <3> HIDE DEF start
    <3> QED BY <1>3, <2>1, <3>1, <3>4, <3>5, <3>6 DEF SpawnMove
  <2> QED BY <1>1, <1>5, <2>1 DEF TickDispatch
<1>6. ASSUME NEW i \in Instances, Crash(i) PROVE ExecMove(k, v)
  <2>1. exec'[k][v] = IF k = i THEN Idle ELSE exec[k][v]
    BY <1>0, <1>6 DEF Crash, ExecState
  <2> QED BY <2>1 DEF ExecMove, Idle
<1>7. ASSUME NEW i \in Instances, Finalize(i) PROVE ExecMove(k, v)
  BY <1>1, <1>7 DEF Finalize, FinalizeConfirmed, FinalizeDropped
<1>8. CASE Client \/ Clock \/ Chain
  BY <1>1, <1>8 DEF Client, SubmitWalletJob, CancelJob, Clock, Chain, Beat, LeaseExpires,
     NotBeforePasses, ConfirmationTimeout, TxIncluded, TxEvicted, TxInvalidated
<1>9. ASSUME NEW i \in Instances,
             TickReadDue(i) \/ TickFails(i) \/ Start(i) \/ StopBegin(i) \/ StopComplete(i)
      PROVE  ExecMove(k, v)
  BY <1>1, <1>9 DEF TickReadDue, TickFails, Start, StopBegin, StopComplete
<1> QED BY <1>2, <1>4, <1>5, <1>6, <1>7, <1>8, <1>9 DEF Next, Tick, LifeCycle

-----------------------------------------------------------------------------
(* The parts of Typed are kept.                                            *)

\* A stored transaction is never replaced.
LEMMA TxKept ==
  ASSUME TypeOK, RowTx, NEW j \in JobIds, RowMove(j), txHash[j] # NoTx PROVE txHash'[j] = txHash[j]
BY DEF RowMove, StoreMove, RowTx

\* Executions keep working on rows of their wallet.
LEMMA ExecOnOwnJobStep == ASSUME Typed, Next PROVE ExecOnOwnJob'
<1> SUFFICES ASSUME NEW i \in Instances, NEW w \in Wallets,
                    exec'[i][w].pc \notin {"idle", "release"}
             PROVE  RowOf(exec[i][w].job, w)'
  BY DEF ExecOnOwnJob
<1>1. ExecMove(i, w)
  BY ExecStep
<1>2. RowOf(exec'[i][w].job, w)
  BY <1>1 DEF ExecMove, EarlyMove, LateMove, SpawnMove, Typed, ExecOnOwnJob, Settling, Claimed
<1>3. exec'[i][w].job \in JobIds
  BY <1>2 DEF RowOf
<1>4. \A j \in JobIds : RowOf(j, w) => RowOf(j, w)'
  BY RowStep, RowStays DEF Typed
<1> QED BY <1>2, <1>3, <1>4 DEF RowOf, WalletOf

\* Ticks keep due rows of the wallets they visit.
LEMMA DueOnOwnJobStep == ASSUME Typed, Next PROVE DueOnOwnJob'
<1> SUFFICES ASSUME NEW i \in Instances, NEW w \in Wallets,
                    tick'[i].phase = "dispatch", w \in tick'[i].todo
             PROVE  RowOf(tick[i].due[w].job, w)'
  BY DEF DueOnOwnJob
<1>0. tick \in [Instances -> TickType] /\ tick[i] \in TickType
  BY DEF Typed, TypeOK
<1>1. RowOf(tick'[i].due[w].job, w)
  <2>1. CASE tick'[i] = tick[i]
    BY <2>1 DEF Typed, DueOnOwnJob
  <2>rest. tick'[i] # AtRest
    BY DEF AtRest
  <2>2. ASSUME NEW v \in Wallets, TickReconcile(i, v) PROVE FALSE
    BY <2>2, <1>0 DEF TickReconcile, Ticking, TickType
  <2>3. CASE TickReadDue(i)
    <3> DEFINE ready == {v \in Wallets : DueJobs(v) # {}}
               due(first) == [v \in Wallets |-> IF v \in ready
                                THEN [job |-> first[v], attempt |-> attempt[first[v]]] ELSE NoDue]
               row(first) == [phase |-> "dispatch", todo |-> ready, due |-> due(first)]
    <3>0. tick' # [tick EXCEPT ![i] = AtRest]
      BY <1>0, <2>rest
    <3>1. PICK first \in [ready -> JobIds] :
            /\ \A v \in ready : IsFirstDue(first[v], v)
            /\ tick' = [tick EXCEPT ![i] = row(first)]
      BY <2>3, <3>0 DEF TickReadDue
    <3>2. tick'[i] = row(first)
      <4> HIDE DEF row, ready
      <4> QED BY <1>0, <3>1
    <3>3. w \in ready
      BY <3>2
    <3>4. tick'[i].due[w].job = first[w]
      BY <3>2, <3>3
    <3>5. RowOf(first[w], w)
      BY <3>1, <3>3 DEF IsFirstDue, DueJobs, JobsOf, RowOf
    <3> QED BY <3>4, <3>5
  <2>4. ASSUME NEW v \in Wallets, TickDispatch(i, v) PROVE RowOf(tick'[i].due[w].job, w)
    <3> DEFINE next == [tick[i] EXCEPT !.todo = Visited(i, v), !.due[v] = NoDue]
    <3>1. tick'[i] = next
      BY <1>0, <2>4, <2>rest DEF TickDispatch, AfterDispatch
    <3>2. next.todo = Visited(i, v) /\ (w # v => next.due[w] = tick[i].due[w])
      BY <1>0 DEF TickType
    <3>3. w \in tick[i].todo /\ w # v
      BY <3>1, <3>2 DEF Visited
    <3>4. tick[i].phase = "dispatch"
      BY <2>4 DEF TickDispatch, Ticking
    <3> HIDE DEF next
    <3> QED BY <3>1, <3>2, <3>3, <3>4 DEF Typed, DueOnOwnJob
  <2>5. CASE TickFails(i) \/ StopComplete(i) \/ Crash(i)
    BY <1>0, <2>5, <2>rest, SMTT(60) DEF TickFails, StopComplete, Crash
  <2>6. ASSUME NEW k \in Instances \ {i}, Tick(k) \/ StopComplete(k) \/ Crash(k) PROVE tick'[i] = tick[i]
    BY <1>0, <2>6 DEF Tick, TickReconcile, TickReadDue, TickDispatch, AfterDispatch, TickFails,
       StopComplete, Crash
  <2>7. ASSUME NEW k \in Instances, NEW v \in Wallets, Execute(k, v) PROVE tick'[i] = tick[i]
    BY <2>7 DEF Execute, Claim, Prepare, BuildAndSign, FenceBeforeSubmit, MarkSubmitting,
       SubmitStoredTransaction, RecordSubmission, AdoptSubmitted, RereadRow, RequeueOrFail,
       FinallyRelease, Resubmit, LookUpStoredTransaction, FailReconciled
  <2>8. ASSUME NEW k \in Instances, Finalize(k) \/ Start(k) \/ StopBegin(k) PROVE tick'[i] = tick[i]
    BY <2>8 DEF Finalize, FinalizeConfirmed, FinalizeDropped, Start, StopBegin
  <2>9. CASE Client \/ Clock \/ Chain
    BY <2>1, <2>9 DEF Client, SubmitWalletJob, CancelJob, Clock, Chain, Beat, LeaseExpires,
       NotBeforePasses, ConfirmationTimeout, TxIncluded, TxEvicted, TxInvalidated
  <2>10. ASSUME NEW k \in Instances, Tick(k) \/ StopComplete(k) \/ Crash(k)
         PROVE  RowOf(tick'[i].due[w].job, w)
    BY <2>10, <2>1, <2>2, <2>3, <2>4, <2>5, <2>6 DEF Tick
  <2> QED BY <2>1, <2>7, <2>8, <2>9, <2>10 DEF Next, LifeCycle
<1>2. tick'[i].due[w].job \in JobIds
  BY <1>1 DEF RowOf
<1>3. \A j \in JobIds : RowOf(j, w) => RowOf(j, w)'
  BY RowStep, RowStays DEF Typed
<1> QED BY <1>1, <1>2, <1>3 DEF RowOf, WalletOf

\* Rows have a stored transaction exactly from markSubmitting on.
LEMMA RowTxStep == ASSUME Typed, Next PROVE RowTx'
<1> SUFFICES ASSUME NEW j \in JobIds
             PROVE  /\ status'[j] \in {"absent", "pending", "building", "cancelled"} => txHash'[j] = NoTx
                    /\ status'[j] \in InFlight \cup {"confirmed"} => txHash'[j] # NoTx
                    /\ txHash'[j] # NoTx => txHash'[j][1] = j
  BY DEF RowTx
<1>1. RowMove(j) /\ RowTx
  BY RowStep DEF Typed
<1>2. CASE StoreMove(j)
  <2>1. txHash'[j] \in Txs /\ txHash'[j][1] = j
    BY <1>2 DEF StoreMove, Typed, ExecTx
  <2> QED BY <1>2, <2>1, Nulls DEF StoreMove
<1>3. CASE QuietMove(status[j], status'[j]) /\ txHash'[j] = txHash[j]
  BY <1>1, <1>3 DEF QuietMove, RowTx, InFlight, Failable
<1> QED BY <1>1, <1>2, <1>3 DEF RowMove

\* Executions carry the stored transaction once there is one.
LEMMA ExecTxStep == ASSUME Typed, Next PROVE ExecTx'
<1> SUFFICES ASSUME NEW i \in Instances, NEW w \in Wallets
             PROVE  /\ exec'[i][w].pc \in {"fence", "store"} =>
                         exec'[i][w].tx \in Txs /\ exec'[i][w].tx[1] = exec'[i][w].job
                    /\ exec'[i][w].pc \in Settling =>
                         exec'[i][w].tx \in Txs /\ exec'[i][w].tx = txHash'[exec'[i][w].job]
  BY DEF ExecTx
<1> DEFINE e == exec[i][w]
           f == exec'[i][w]
<1>1. ExecMove(i, w)
  BY ExecStep
<1>2. /\ e.pc \in {"fence", "store"} => e.tx \in Txs /\ e.tx[1] = e.job
      /\ e.pc \in Settling => e.tx \in Txs /\ e.tx = txHash[e.job] /\ e.job \in JobIds
  BY DEF Typed, ExecTx, ExecOnOwnJob, RowOf, Settling
<1>3. \A j \in JobIds : txHash[j] \in Txs => txHash'[j] = txHash[j]
  BY RowStep, TxKept, Nulls DEF Typed
<1> HIDE DEF e, f
<1>4. CASE f = e
  BY <1>2, <1>3, <1>4 DEF e, f
<1>5. CASE f.pc \in {"idle", "release"}
  BY <1>5 DEF f, Settling
<1>6. CASE EarlyMove(i, w, e, f)
  BY <1>2, <1>6 DEF EarlyMove, Settling, Failing, f
<1>7. CASE LateMove(e, f)
  BY <1>2, <1>3, <1>7 DEF LateMove, Settling, f
<1>8. CASE SpawnMove(w, e, f)
  <2>1. CASE f.pc = "claim"
    BY <2>1 DEF f, Settling
  <2>2. CASE f.pc = "rsubmit"
    <3>1. /\ f.job \in JobIds /\ status[f.job] = "submitting" /\ f.tx = txHash[f.job]
      BY <1>8, <2>2 DEF SpawnMove, RowOf
    <3>2. txHash[f.job] \in Txs
      BY <3>1 DEF Typed, TypeOK, RowTx, InFlight
    <3> QED BY <1>3, <2>2, <3>1, <3>2 DEF f
  <2> QED BY <1>8, <2>1, <2>2 DEF SpawnMove
<1> QED BY <1>1, <1>4, <1>5, <1>6, <1>7, <1>8 DEF ExecMove, e, f

\* Trackers and the network see stored transactions only.
LEMMA SeenTxStep == ASSUME Typed, Next PROVE SeenTx'
<1> DEFINE Seen(t) == t \in Txs /\ txHash[t[1]] = t
           StillSeen == /\ \A i \in Instances : \A t \in tracked'[i] : Seen(t)
                        /\ \A t \in mempool' \cup ledger' : Seen(t)
<1>1. ASSUME NEW t, Seen(t) PROVE txHash'[t[1]] = t
  <2>1. t[1] \in JobIds
    BY <1>1 DEF Txs
  <2>2. RowMove(t[1])
    BY <2>1, RowStep DEF Typed
  <2>3. txHash[t[1]] # NoTx
    BY <1>1, Nulls
  <2> QED BY <1>1, <2>1, <2>2, <2>3, TxKept DEF Typed
<1>2. /\ \A i \in Instances : \A t \in tracked[i] : Seen(t)
      /\ \A t \in mempool \cup ledger : Seen(t)
  BY DEF Typed, TypeOK, SeenTx
<1>3. ASSUME NEW j \in JobIds, status[j] \in InFlight PROVE Seen(txHash[j])
  <2>1. txHash[j] \in Txs /\ txHash[j][1] = j
    BY <1>3 DEF Typed, TypeOK, RowTx
  <2> QED BY <2>1
<1>4. ASSUME NEW i \in Instances, NEW w \in Wallets, exec[i][w].pc \in Settling PROVE Seen(exec[i][w].tx)
  <2>1. exec[i][w].tx \in Txs /\ exec[i][w].tx = txHash[exec[i][w].job] /\ exec[i][w].job \in JobIds
    BY <1>4 DEF Typed, ExecTx, ExecOnOwnJob, RowOf, Settling
  <2>2. exec[i][w].tx[1] = exec[i][w].job
    BY <2>1, Nulls DEF Typed, RowTx
  <2> QED BY <2>1, <2>2
<1>0. tracked \in [Instances -> SUBSET Txs]
  BY DEF Typed, TypeOK
<1> HIDE DEF Seen
<1>5. StillSeen
  <2>1. CASE UNCHANGED <<tracked, mempool, ledger>>
    BY <1>2, <2>1
  <2>2. ASSUME NEW i \in Instances, NEW w \in Wallets, Execute(i, w) PROVE StillSeen
    <3> DEFINE t == exec[i][w].tx
    <3>1. CASE SubmitStoredTransaction(i, w) \/ Resubmit(i, w)
      <4>1. Seen(t)
        BY <1>4, <3>1 DEF SubmitStoredTransaction, Resubmit, At, Settling
      <4>2. UNCHANGED <<tracked, ledger>> /\ mempool' \subseteq mempool \cup {t}
        BY <3>1 DEF SubmitStoredTransaction, Resubmit, Accepted, Rejected, Unanswered
      <4> QED BY <1>2, <4>1, <4>2
    <3>2. CASE AdoptSubmitted(i, w)
      <4>1. Seen(t)
        BY <1>4, <3>2 DEF AdoptSubmitted, At, Settling
      <4>2. UNCHANGED <<mempool, ledger>>
        BY <3>2 DEF AdoptSubmitted
      <4>3. \A k \in Instances : tracked'[k] \subseteq tracked[k] \cup {t}
        <5>1. CASE Track(i, t)
          <6> HIDE DEF t
          <6> QED BY <1>0, <5>1 DEF Track
        <5> QED BY <3>2, <5>1 DEF AdoptSubmitted
      <4> QED BY <1>2, <4>1, <4>2, <4>3
    <3>3. CASE Claim(i, w) \/ Prepare(i, w) \/ BuildAndSign(i, w) \/ FenceBeforeSubmit(i, w)
               \/ MarkSubmitting(i, w) \/ RecordSubmission(i, w) \/ RereadRow(i, w)
               \/ RequeueOrFail(i, w) \/ FinallyRelease(i, w)
               \/ LookUpStoredTransaction(i, w) \/ FailReconciled(i, w)
      BY <2>1, <3>3 DEF Claim, Prepare, BuildAndSign, FenceBeforeSubmit, MarkSubmitting,
         RecordSubmission, RereadRow, RequeueOrFail, FinallyRelease, LookUpStoredTransaction,
         FailReconciled
    <3> QED BY <2>2, <3>1, <3>2, <3>3 DEF Execute
  <2>3. ASSUME NEW i \in Instances, Finalize(i) PROVE StillSeen
    <3>1. UNCHANGED <<mempool, ledger>> /\ \A k \in Instances : tracked'[k] \subseteq tracked[k]
      BY <1>0, <2>3 DEF Finalize, FinalizeConfirmed, FinalizeDropped, Untrack
    <3> QED BY <1>2, <3>1
  <2>4. ASSUME NEW i \in Instances, LifeCycle(i) PROVE StillSeen
    <3>1. UNCHANGED <<mempool, ledger>>
      BY <2>4 DEF LifeCycle, Start, StopBegin, StopComplete, Crash
    <3>2. CASE Start(i)
      <4>1. \A k \in Instances : \A t \in tracked'[k] :
              t \in tracked[k] \/ \E j \in JobIds : status[j] = "submitted" /\ t = txHash[j]
        BY <1>0, <3>2 DEF Start
      <4> QED BY <1>2, <1>3, <3>1, <4>1 DEF InFlight
    <3>3. CASE StopBegin(i) \/ StopComplete(i) \/ Crash(i)
      <4>1. \A k \in Instances : tracked'[k] \subseteq tracked[k]
        BY <1>0, <3>3 DEF StopBegin, StopComplete, Crash
      <4> QED BY <1>2, <3>1, <4>1
    <3> QED BY <2>4, <3>2, <3>3 DEF LifeCycle
  <2>5. CASE Chain
    BY <1>2, <2>5 DEF Chain, TxIncluded, TxEvicted, TxInvalidated
  <2>6. CASE Client \/ Clock
    BY <2>1, <2>6 DEF Client, SubmitWalletJob, CancelJob, Clock, Beat, LeaseExpires,
       NotBeforePasses, ConfirmationTimeout
  <2>7. ASSUME NEW i \in Instances, Tick(i) PROVE StillSeen
    BY <2>1, <2>7 DEF Tick, TickReconcile, TickReadDue, TickDispatch, TickFails
  <2> QED BY <2>2, <2>3, <2>4, <2>5, <2>6, <2>7 DEF Next
<1> QED BY <1>1, <1>5 DEF SeenTx

\* Typed is an inductive invariant.
LEMMA TypedInductive ==
  /\ Init => Typed
  /\ Typed /\ [Next]_vars => Typed'
<1>1. Init => Typed
  <2> SUFFICES ASSUME Init PROVE Typed
    OBVIOUS
  <2>1. TypeOK
    BY TypeInit
  <2>2. \A i \in Instances, w \in Wallets : exec[i][w] = Idle /\ tick[i] = AtRest
    BY DEF Init
  <2>3. ExecOnOwnJob /\ DueOnOwnJob /\ ExecTx
    BY <2>2 DEF ExecOnOwnJob, DueOnOwnJob, ExecTx, Idle, AtRest, Settling
  <2>4. RowTx /\ SeenTx
    BY DEF Init, RowTx, SeenTx, InFlight
  <2> QED BY <2>1, <2>3, <2>4 DEF Typed
<1>2. ASSUME Typed, Next PROVE Typed'
  BY <1>2, TypeStep, ExecOnOwnJobStep, DueOnOwnJobStep, RowTxStep, ExecTxStep, SeenTxStep DEF Typed
<1>3. ASSUME Typed, UNCHANGED vars PROVE Typed'
  BY <1>3, SMTT(30) DEF Typed, vars, TypeOK, ExecOnOwnJob, DueOnOwnJob, RowTx, ExecTx, SeenTx, RowOf, WalletOf
<1> QED BY <1>1, <1>2, <1>3

\* Every column, lease and in-memory structure keeps its type in every reachable
\* state of every instance of the model.
THEOREM TypeCorrect == Spec => []TypeOK
<1>1. Typed => TypeOK
  BY DEF Typed
<1> QED BY <1>1, TypedInductive, PTL DEF Spec

\* No other transaction of a job than the one its row stores ever reaches the network.
THEOREM StoredBeforeSent == Spec => []OnlyStoredTxSent
<1>1. Typed => OnlyStoredTxSent
  BY DEF Typed, SeenTx, RowTx, OnlyStoredTxSent
<1> QED BY <1>1, TypedInductive, PTL DEF Spec

\* A terminal job stays as it is, and a stored transaction is never replaced or
\* its job built again: the guarded transitions of job-store.ts.
THEOREM NoWayBackHolds == Spec => NoWayBack
<1>1. ASSUME Typed, [Next]_vars
      PROVE  [\A j \in JobIds :
                /\ status[j] \in Terminal => status'[j] = status[j]
                /\ status[j] \in InFlight => status'[j] \in InFlight \cup Terminal
                /\ txHash[j] # NoTx => txHash'[j] = txHash[j]]_vars
  <2>1. CASE UNCHANGED vars
    BY <2>1
  <2>2. ASSUME Next, NEW j \in JobIds
        PROVE  /\ status[j] \in Terminal => status'[j] = status[j]
               /\ status[j] \in InFlight => status'[j] \in InFlight \cup Terminal
               /\ txHash[j] # NoTx => txHash'[j] = txHash[j]
    <3>1. RowMove(j)
      BY <1>1, <2>2, RowStep DEF Typed
    <3>2. txHash[j] # NoTx => txHash'[j] = txHash[j]
      BY <1>1, <3>1, TxKept DEF Typed
    <3> QED BY <3>1, <3>2 DEF RowMove, QuietMove, StoreMove, Terminal, InFlight, Failable
  <2> QED BY <1>1, <2>1, <2>2
<1> QED BY <1>1, TypedInductive, PTL DEF Spec, NoWayBack

-----------------------------------------------------------------------------
(***************************************************************************)
(* Proofs that one job per wallet is in flight, and that what the worker   *)
(* says of a job is what became of it, for every number of instances,      *)
(* jobs, crashes, stops and database faults.                               *)
(*                                                                         *)
(* The argument.  A row becomes in flight in markSubmitting only, by an    *)
(* execution that passed its last fence and whose row is still building.   *)
(* Such an execution owns the lease (FencedExecutorOwnsWallet): a takeover *)
(* by a dispatch fails the building rows of the wallet in the transaction  *)
(* that takes the lease, and a takeover by a reconciliation needs a row in *)
(* flight.  There is none while the owner has not stored its transaction   *)
(* (OwnerHasClearWallet), because the dispatch that made it the owner saw  *)
(* no active job.  So the wallet has no row in flight when a new one is    *)
(* made.  ClaimedOnce keeps a row that was requeued and claimed again from *)
(* being mistaken for the one an old execution still believes to build.    *)
(*                                                                         *)
(* A row that fails has stored nothing, or what can never be accepted, or  *)
(* it is excused (FailedIsInvalid): its confirmation timeout was over, or  *)
(* a markSubmitted after its accepted submit threw.  For an execution that *)
(* claimed a row works on one still building or failed, unless that write  *)
(* threw (ClaimedIsUnsent, which needs ClaimedOnce); and a reconciliation  *)
(* gives up only after a rejection and a lookup, past the timeout, or when *)
(* it took that write for a rejection (VerdictsTrue).  Both excuses stay.  *)
(* A row on chain that is not excused is live and owns its claim alone     *)
(* (LiveOwnsKey).                                                          *)
(***************************************************************************)

\* The owner of a lease that has not stored its transaction works on a wallet
\* without rows in flight.
OwnerHasClearWallet ==
  \A i \in Instances, w \in Wallets :
    exec[i][w].pc \in Unstored /\ leaseOwner[w] = i =>
      \A j \in JobIds : status[j] \in InFlight => WalletOf(j) # w

\* At most one execution has claimed a row that is building, and a claimed row is
\* not pending.
ClaimedOnce ==
  /\ \A i \in Instances, w \in Wallets :
       exec[i][w].pc \in Claimed => status[exec[i][w].job] # "pending"
  /\ \A i, k \in Instances, w \in Wallets :
       /\ exec[i][w].pc \in Claimed /\ exec[k][w].pc \in Claimed
       /\ exec[i][w].job = exec[k][w].job /\ status[exec[i][w].job] = "building"
       => i = k

\* The invariant of the lease.
LeaseInv == OneInFlight /\ FencedExecutorOwnsWallet /\ OwnerHasClearWallet /\ ClaimedOnce

-----------------------------------------------------------------------------
(* Steps that leave the lease alone.                                       *)

\* The row does not enter "building" or flight, and is not requeued.
CalmRow(j) ==
  \/ status'[j] = status[j]
  \/ status'[j] \notin InFlight \cup {"building", "pending"}
  \/ status[j] = "absent" /\ status'[j] = "pending"
  \/ status[j] \in InFlight /\ status'[j] \in InFlight

\* The execution is not spawned and claims nothing.
CalmExec(i, w) ==
  LET e == exec[i][w]
      f == exec'[i][w]
  IN \/ f = e
     \/ f.pc \in {"idle", "release"}
     \/ EarlyMove(i, w, e, f) /\ e.pc # "claim"
     \/ LateMove(e, f)

\* Rows keep their wallet.
LEMMA WalletKept ==
  ASSUME TypeOK, NEW j \in JobIds, RowMove(j), status[j] # "absent" PROVE WalletOf(j)' = WalletOf(j)
BY DEF RowMove, WalletOf

\* A row that is in flight after a calm step was in flight before, in the same wallet.
LEMMA CalmInFlight ==
  ASSUME Typed, Next, NEW j \in JobIds, CalmRow(j), status'[j] \in InFlight
  PROVE  status[j] \in InFlight /\ WalletOf(j)' = WalletOf(j)
<1>1. status[j] \in InFlight
  BY DEF CalmRow, InFlight
<1> QED BY <1>1, RowStep, WalletKept DEF InFlight, Typed

\* What a calm step preserves of the executions.
LEMMA CalmExecFacts ==
  ASSUME Typed, NEW i \in Instances, NEW w \in Wallets, CalmExec(i, w)
  PROVE  /\ exec'[i][w].pc \in Unstored => exec[i][w].pc \in Unstored
         /\ exec'[i][w].pc \in {"build", "store"} /\ exec[i][w].pc \notin {"build", "store"} => leaseOwner[w] = i
         /\ exec'[i][w].pc \in Claimed =>
              /\ exec'[i][w].job = exec[i][w].job /\ exec[i][w].job \in JobIds
              /\ \/ exec[i][w].pc \in Claimed
                 \/ status[exec[i][w].job] \notin {"absent", "pending", "building"}
<1> DEFINE e == exec[i][w]
           f == exec'[i][w]
<1>1. e.pc \notin {"idle", "release"} => e.job \in JobIds
  BY DEF Typed, ExecOnOwnJob, RowOf
<1>2. ASSUME e.pc = "adopt" PROVE status[e.job] \notin {"absent", "pending", "building"}
  BY <1>1, <1>2, Nulls DEF Typed, ExecTx, RowTx, Settling
<1> HIDE DEF e, f
<1>3. CASE f = e
  BY <1>1, <1>3 DEF e, f, Claimed
<1>4. CASE f.pc \in {"idle", "release"}
  BY <1>4 DEF f, Claimed, Unstored
<1>5. CASE EarlyMove(i, w, e, f) /\ e.pc # "claim"
  BY <1>1, <1>2, <1>5 DEF EarlyMove, Claimed, Unstored, Failing, FenceHeld, e, f
<1>6. CASE LateMove(e, f)
  BY <1>6 DEF LateMove, Settling, Claimed, Unstored, f
<1> QED BY <1>3, <1>4, <1>5, <1>6 DEF CalmExec, e, f

\* Calm steps keep the lease invariant.
LEMMA CalmStep ==
  ASSUME Typed, LeaseInv, Next, leaseOwner' = leaseOwner,
         \A j \in JobIds : CalmRow(j), \A i \in Instances, w \in Wallets : CalmExec(i, w)
  PROVE  LeaseInv'
<1>1. OneInFlight'
  <2> SUFFICES ASSUME NEW j \in JobIds, NEW k \in JobIds, status'[j] \in InFlight, status'[k] \in InFlight,
                      WalletOf(j)' = WalletOf(k)'
               PROVE  j = k
    BY DEF OneInFlight
  <2> QED BY CalmInFlight DEF LeaseInv, OneInFlight
<1>2. FencedExecutorOwnsWallet'
  <2> SUFFICES ASSUME NEW i \in Instances, NEW w \in Wallets, exec'[i][w].pc \in {"build", "store"},
                      status'[exec'[i][w].job] = "building"
               PROVE  leaseOwner[w] = i
    BY DEF FencedExecutorOwnsWallet
  <2>1. exec[i][w].pc \notin {"build", "store"} => leaseOwner[w] = i
    BY CalmExecFacts
  <2>2. exec'[i][w].job = exec[i][w].job /\ exec[i][w].job \in JobIds
    BY CalmExecFacts DEF Claimed
  <2>3. status[exec[i][w].job] = "building"
    BY <2>2 DEF CalmRow, InFlight
  <2> QED BY <2>1, <2>3 DEF LeaseInv, FencedExecutorOwnsWallet
<1>3. OwnerHasClearWallet'
  <2> SUFFICES ASSUME NEW i \in Instances, NEW w \in Wallets, exec'[i][w].pc \in Unstored,
                      leaseOwner[w] = i, NEW j \in JobIds, status'[j] \in InFlight
               PROVE  WalletOf(j)' # w
    BY DEF OwnerHasClearWallet
  <2>1. exec[i][w].pc \in Unstored
    BY CalmExecFacts
  <2> QED BY <2>1, CalmInFlight DEF LeaseInv, OwnerHasClearWallet
<1>4. ClaimedOnce'
  <2>1. ASSUME NEW i \in Instances, NEW w \in Wallets, exec'[i][w].pc \in Claimed
        PROVE  status'[exec'[i][w].job] # "pending"
    <3> DEFINE j == exec[i][w].job
    <3>1. exec'[i][w].job = j /\ j \in JobIds /\ status[j] # "pending" /\ status[j] # "absent"
      BY <2>1, CalmExecFacts DEF LeaseInv, ClaimedOnce, Typed, ExecOnOwnJob, RowOf, Claimed
    <3> HIDE DEF j
    <3> QED BY <3>1 DEF CalmRow, InFlight
  <2>2. ASSUME NEW i \in Instances, NEW k \in Instances, NEW w \in Wallets,
               exec'[i][w].pc \in Claimed, exec'[k][w].pc \in Claimed,
               exec'[i][w].job = exec'[k][w].job, status'[exec'[i][w].job] = "building"
        PROVE  i = k
    <3>1. /\ exec'[i][w].job = exec[i][w].job /\ exec[i][w].job \in JobIds
          /\ exec'[k][w].job = exec[k][w].job
      BY <2>2, CalmExecFacts
    <3>2. status[exec[i][w].job] = "building"
      BY <2>2, <3>1 DEF CalmRow, InFlight
    <3>3. exec[i][w].pc \in Claimed /\ exec[k][w].pc \in Claimed
      <4>1. exec[i][w].pc \in Claimed
        BY <2>2, <3>1, <3>2, CalmExecFacts
      <4>2. exec[k][w].pc \in Claimed
        <5>1. exec[k][w].job \in JobIds /\ status[exec[k][w].job] = "building"
          BY <2>2, <3>1, <3>2
        <5> QED BY <2>2, <5>1, CalmExecFacts
      <4> QED BY <4>1, <4>2
    <3> QED BY <2>2, <3>1, <3>2, <3>3 DEF LeaseInv, ClaimedOnce
  <2> QED BY <2>1, <2>2 DEF ClaimedOnce
<1> QED BY <1>1, <1>2, <1>3, <1>4 DEF LeaseInv

-----------------------------------------------------------------------------
(* Executions.                                                             *)

\* An execution that neither claims nor stores nor requeues nor releases is calm.
LEMMA LeaseExecuteCalm ==
  ASSUME Typed, LeaseInv, NEW i \in Instances, NEW w \in Wallets, Execute(i, w),
         leaseOwner' = leaseOwner, \A j \in JobIds : CalmRow(j), exec[i][w].pc # "claim"
  PROVE  LeaseInv'
<1>1. ExecMove(i, w) /\ OthersKeep(i, w)
  BY ExecStepExecute DEF Typed
<1>2. CalmExec(i, w)
  <2>1. ~SpawnMove(w, exec[i][w], exec'[i][w])
    BY DEF SpawnMove, Execute, Claim, Prepare, BuildAndSign, FenceBeforeSubmit, MarkSubmitting,
       SubmitStoredTransaction, RecordSubmission, AdoptSubmitted, RereadRow, RequeueOrFail,
       FinallyRelease, Resubmit, LookUpStoredTransaction, FailReconciled, At
  <2> QED BY <1>1, <2>1 DEF ExecMove, CalmExec
<1>3. ASSUME NEW k \in Instances, NEW v \in Wallets PROVE CalmExec(k, v)
  <2>1. CASE <<k, v>> = <<i, w>>
    BY <1>2, <2>1
  <2>2. CASE <<k, v>> # <<i, w>>
    BY <1>1, <2>2 DEF OthersKeep, CalmExec
  <2> QED BY <2>1, <2>2
<1>4. Next
  BY DEF Next
<1> QED BY <1>3, <1>4, CalmStep

\* Two executions that work on one job work for one wallet.
LEMMA SameJobSameWallet ==
  ASSUME Typed, NEW i \in Instances, NEW k \in Instances, NEW w \in Wallets, NEW v \in Wallets,
         exec[i][w].pc \notin {"idle", "release"}, exec[k][v].pc \notin {"idle", "release"},
         exec[i][w].job = exec[k][v].job
  PROVE  w = v
BY DEF Typed, ExecOnOwnJob, RowOf

\* markBuilding: nobody else has claimed a pending row.
LEMMA LeaseClaim ==
  ASSUME Typed, LeaseInv, NEW i \in Instances, NEW w \in Wallets, Claim(i, w) PROVE LeaseInv'
<1> DEFINE e == exec[i][w]
           j == exec[i][w].job
<1>0. e.pc = "claim" /\ j \in JobIds /\ exec \in ExecState /\ e \in ExecType /\ Idle \in ExecType
  BY RestTypes DEF Claim, At, Typed, TypeOK, ExecState, ExecOnOwnJob, RowOf
<1>n. Next /\ leaseOwner' = leaseOwner
  BY DEF Next, Execute, Claim
<1>1. CASE Become(i, w, Idle) /\ UNCHANGED status
  <2>1. exec'[i][w] = Idle /\ OthersKeep(i, w)
    BY <1>0, <1>1, BecomeType
  <2>2. \A k \in Instances, v \in Wallets : CalmExec(k, v)
    <3> SUFFICES ASSUME NEW k \in Instances, NEW v \in Wallets PROVE CalmExec(k, v)
      OBVIOUS
    <3>1. CASE <<k, v>> = <<i, w>>
      BY <2>1, <3>1 DEF CalmExec, Idle
    <3>2. CASE <<k, v>> # <<i, w>>
      BY <2>1, <3>2 DEF OthersKeep, CalmExec
    <3> QED BY <3>1, <3>2
  <2> QED BY <1>1, <1>n, <2>2, CalmStep DEF CalmRow
<1>2. CASE status[j] = "pending" /\ status' = [status EXCEPT ![j] = "building"] /\ Goto(i, w, "prep")
  <2>0. [e EXCEPT !.pc = "prep"] \in ExecType
    BY <1>0 DEF ExecType, Pcs, Unstored
  <2>1. exec'[i][w] = [e EXCEPT !.pc = "prep"] /\ OthersKeep(i, w)
    BY <1>0, <1>2, <2>0, BecomeType DEF Goto
  <2>2. exec'[i][w].pc = "prep" /\ exec'[i][w].job = j
    BY <1>0, <2>1 DEF ExecType
  <2>3. \A k \in JobIds : status'[k] = IF k = j THEN "building" ELSE status[k]
    BY <1>2 DEF Typed, TypeOK
  <2>4. ASSUME NEW k \in Instances, NEW v \in Wallets, exec'[k][v].pc \in Claimed
        PROVE  /\ <<k, v>> # <<i, w>> => exec'[k][v] = exec[k][v] /\ exec[k][v].job # j
               /\ exec'[k][v].job \in JobIds
    <3>1. CASE <<k, v>> = <<i, w>>
      BY <1>0, <2>2, <3>1
    <3>2. CASE <<k, v>> # <<i, w>>
      <4>1. exec'[k][v] = exec[k][v]
        BY <2>1, <3>2 DEF OthersKeep
      <4>2. status[exec[k][v].job] # "pending" /\ exec[k][v].job \in JobIds
        BY <2>4, <4>1 DEF LeaseInv, ClaimedOnce, Typed, ExecOnOwnJob, RowOf, Claimed
      <4> QED BY <1>2, <4>1, <4>2
    <3> QED BY <3>1, <3>2
  <2>5. UNCHANGED request
    BY DEF Claim
  <2> HIDE DEF j, e
  <2>6. \A k \in JobIds : status'[k] \in InFlight => status[k] \in InFlight
    BY <2>3 DEF InFlight
  <2>7. OneInFlight'
    BY <2>5, <2>6 DEF LeaseInv, OneInFlight, WalletOf
  <2>8. FencedExecutorOwnsWallet'
    <3> SUFFICES ASSUME NEW k \in Instances, NEW v \in Wallets, exec'[k][v].pc \in {"build", "store"},
                        status'[exec'[k][v].job] = "building"
                 PROVE  leaseOwner[v] = k
      BY <1>n DEF FencedExecutorOwnsWallet
    <3>1. <<k, v>> # <<i, w>>
      BY <2>2
    <3>2. exec'[k][v] = exec[k][v] /\ exec[k][v].job # j /\ exec[k][v].job \in JobIds
      BY <2>1, <2>4, <3>1 DEF OthersKeep, Claimed
    <3> QED BY <2>3, <3>2 DEF LeaseInv, FencedExecutorOwnsWallet
  <2>9. OwnerHasClearWallet'
    <3> SUFFICES ASSUME NEW k \in Instances, NEW v \in Wallets, exec'[k][v].pc \in Unstored,
                        leaseOwner[v] = k, NEW l \in JobIds, status[l] \in InFlight
                 PROVE  WalletOf(l) # v
      BY <1>n, <2>5, <2>6 DEF OwnerHasClearWallet, WalletOf
    <3>1. exec[k][v].pc \in Unstored
      <4>1. CASE <<k, v>> = <<i, w>>
        BY <1>0, <4>1 DEF Unstored, e
      <4>2. CASE <<k, v>> # <<i, w>>
        BY <2>1, <4>2 DEF OthersKeep
      <4> QED BY <4>1, <4>2
    <3> QED BY <3>1 DEF LeaseInv, OwnerHasClearWallet
  <2>10. ClaimedOnce'
    <3>1. ASSUME NEW k \in Instances, NEW v \in Wallets, exec'[k][v].pc \in Claimed
          PROVE  status'[exec'[k][v].job] # "pending"
      <4>1. CASE <<k, v>> = <<i, w>>
        BY <1>0, <2>2, <2>3, <4>1
      <4>2. CASE <<k, v>> # <<i, w>>
        BY <2>1, <2>3, <2>4, <3>1, <4>2 DEF OthersKeep, LeaseInv, ClaimedOnce
      <4> QED BY <4>1, <4>2
    <3>2. ASSUME NEW k \in Instances, NEW l \in Instances, NEW v \in Wallets,
                 exec'[k][v].pc \in Claimed, exec'[l][v].pc \in Claimed,
                 exec'[k][v].job = exec'[l][v].job, status'[exec'[k][v].job] = "building"
          PROVE  k = l
      <4>1. CASE exec'[k][v].job = j
        <5>1. <<k, v>> = <<i, w>>
          BY <2>4, <3>2, <4>1
        <5>2. <<l, v>> = <<i, w>>
          BY <2>4, <3>2, <4>1
        <5> QED BY <5>1, <5>2
      <4>2. CASE exec'[k][v].job # j
        <5>1. <<k, v>> # <<i, w>> /\ <<l, v>> # <<i, w>>
          BY <2>2, <3>2, <4>2
        <5>2. exec'[k][v] = exec[k][v] /\ exec'[l][v] = exec[l][v] /\ exec[k][v].job \in JobIds
          BY <2>1, <2>4, <3>2, <5>1 DEF OthersKeep
        <5> QED BY <2>3, <3>2, <4>2, <5>2 DEF LeaseInv, ClaimedOnce
      <4> QED BY <4>1, <4>2
    <3> QED BY <3>1, <3>2 DEF ClaimedOnce
  <2> QED BY <2>7, <2>8, <2>9, <2>10 DEF LeaseInv
<1> QED BY <1>1, <1>2 DEF Claim

\* markSubmitting: the owner of the wallet puts the one row in flight.
LEMMA LeaseStore ==
  ASSUME Typed, LeaseInv, NEW i \in Instances, NEW w \in Wallets, MarkSubmitting(i, w) PROVE LeaseInv'
<1> DEFINE e == exec[i][w]
           j == exec[i][w].job
<1>0. e.pc = "store" /\ RowOf(j, w) /\ j \in JobIds
  BY DEF MarkSubmitting, At, Typed, ExecOnOwnJob, RowOf
<1>n. Execute(i, w) /\ leaseOwner' = leaseOwner /\ UNCHANGED request
  BY DEF Execute, MarkSubmitting
<1>1. CASE UNCHANGED status
  BY <1>0, <1>1, <1>n, LeaseExecuteCalm DEF CalmRow
<1>2. CASE status[j] = "building" /\ status' = [status EXCEPT ![j] = "submitting"] /\ Goto(i, w, "submit")
  <2>0. exec \in ExecState /\ e \in ExecType /\ "submit" \in Pcs
    BY DEF Typed, TypeOK, ExecState, Pcs, Settling
  <2>01. [e EXCEPT !.pc = "submit"] \in ExecType
    BY <2>0, JumpTypes
  <2>1. exec'[i][w] = [e EXCEPT !.pc = "submit"] /\ OthersKeep(i, w)
    BY <1>2, <2>0, <2>01, BecomeType DEF Goto
  <2>2. exec'[i][w].pc = "submit"
    BY <2>0, <2>1 DEF ExecType
  <2>3. \A k \in JobIds : status'[k] = IF k = j THEN "submitting" ELSE status[k]
    BY <1>2 DEF Typed, TypeOK
  <2>4. /\ leaseOwner[w] = i
        /\ \A k \in JobIds : status[k] \in InFlight => WalletOf(k) # w
    BY <1>0, <1>2 DEF LeaseInv, FencedExecutorOwnsWallet, OwnerHasClearWallet, Unstored
  <2>5. WalletOf(j) = w
    BY <1>0 DEF RowOf
  <2>6. ASSUME NEW k \in Instances, NEW v \in Wallets, exec'[k][v].pc \in Unstored \cup Claimed
        PROVE  /\ <<k, v>> # <<i, w>> /\ exec'[k][v] = exec[k][v]
               /\ exec[k][v].job \in JobIds
    <3>1. <<k, v>> # <<i, w>>
      BY <2>2, <2>6 DEF Unstored, Claimed
    <3>2. exec'[k][v] = exec[k][v]
      BY <2>1, <3>1 DEF OthersKeep
    <3> QED BY <2>6, <3>1, <3>2 DEF Typed, ExecOnOwnJob, RowOf, Unstored, Claimed
  <2> HIDE DEF e, j
  <2>7. OneInFlight'
    BY <1>n, <2>3, <2>4, <2>5 DEF LeaseInv, OneInFlight, WalletOf
  <2>8. FencedExecutorOwnsWallet'
    <3> SUFFICES ASSUME NEW k \in Instances, NEW v \in Wallets, exec'[k][v].pc \in {"build", "store"},
                        status'[exec'[k][v].job] = "building"
                 PROVE  leaseOwner[v] = k
      BY <1>n DEF FencedExecutorOwnsWallet
    <3>1. exec'[k][v] = exec[k][v] /\ exec[k][v].job \in JobIds
      BY <2>6 DEF Claimed
    <3> QED BY <2>3, <3>1 DEF LeaseInv, FencedExecutorOwnsWallet
  <2>9. OwnerHasClearWallet'
    <3> SUFFICES ASSUME NEW k \in Instances, NEW v \in Wallets, exec'[k][v].pc \in Unstored,
                        leaseOwner[v] = k, NEW l \in JobIds, status'[l] \in InFlight
                 PROVE  WalletOf(l) # v
      BY <1>n DEF OwnerHasClearWallet, WalletOf
    <3>1. exec[k][v].pc \in Unstored /\ <<k, v>> # <<i, w>>
      BY <2>6
    <3>2. CASE l = j
      BY <2>4, <2>5, <3>1, <3>2
    <3>3. CASE l # j
      BY <2>3, <3>1, <3>3 DEF LeaseInv, OwnerHasClearWallet
    <3> QED BY <3>2, <3>3
  <2>10. ClaimedOnce'
    <3>1. ASSUME NEW k \in Instances, NEW v \in Wallets, exec'[k][v].pc \in Claimed
          PROVE  status'[exec'[k][v].job] # "pending"
      <4>1. exec'[k][v] = exec[k][v] /\ exec[k][v].job \in JobIds
        BY <2>6, <3>1
      <4> QED BY <2>3, <3>1, <4>1 DEF LeaseInv, ClaimedOnce
    <3>2. ASSUME NEW k \in Instances, NEW l \in Instances, NEW v \in Wallets,
                 exec'[k][v].pc \in Claimed, exec'[l][v].pc \in Claimed,
                 exec'[k][v].job = exec'[l][v].job, status'[exec'[k][v].job] = "building"
          PROVE  k = l
      <4>1. exec'[k][v] = exec[k][v] /\ exec'[l][v] = exec[l][v] /\ exec[k][v].job \in JobIds
        BY <2>6, <3>2
      <4> QED BY <2>3, <3>2, <4>1 DEF LeaseInv, ClaimedOnce
    <3> QED BY <3>1, <3>2 DEF ClaimedOnce
  <2> QED BY <2>7, <2>8, <2>9, <2>10 DEF LeaseInv
<1> QED BY <1>1, <1>2 DEF MarkSubmitting, Storable

\* requeueForRetry: nobody else works on the row that becomes pending again.
LEMMA LeaseRequeue ==
  ASSUME Typed, LeaseInv, NEW i \in Instances, NEW w \in Wallets, RequeueOrFail(i, w) PROVE LeaseInv'
<1> DEFINE e == exec[i][w]
           j == exec[i][w].job
<1>0. e.pc = "fail" /\ j \in JobIds /\ exec \in ExecState
  BY DEF RequeueOrFail, At, Typed, TypeOK, ExecOnOwnJob, RowOf, ExecState
<1>n. Execute(i, w) /\ leaseOwner' = leaseOwner /\ UNCHANGED request
  BY DEF Execute, RequeueOrFail
<1>1. CASE UNCHANGED status
  BY <1>0, <1>1, <1>n, LeaseExecuteCalm DEF CalmRow
<1>2. CASE MarkFailed(j)
  <2>1. \A k \in JobIds : CalmRow(k)
    BY <1>0, <1>2, MarkFailedType DEF Typed, CalmRow, InFlight
  <2> QED BY <1>0, <1>n, <2>1, LeaseExecuteCalm
<1>3. CASE status[j] = "building" /\ status' = [status EXCEPT ![j] = "pending"]
  <2>1. exec'[i][w].pc = "release" /\ OthersKeep(i, w)
    <3>1. [Idle EXCEPT !.pc = "release"] \in ExecType
      BY <1>0, JumpTypes
    <3>2. exec'[i][w] = [Idle EXCEPT !.pc = "release"] /\ OthersKeep(i, w)
      BY <1>0, <3>1, BecomeType DEF RequeueOrFail, Finish
    <3> QED BY <3>2 DEF Idle
  <2>3. \A k \in JobIds : status'[k] = IF k = j THEN "pending" ELSE status[k]
    BY <1>3 DEF Typed, TypeOK
  <2>6. ASSUME NEW k \in Instances, NEW v \in Wallets, exec'[k][v].pc \in Unstored \cup Claimed
        PROVE  /\ exec'[k][v] = exec[k][v] /\ exec[k][v].job \in JobIds
               /\ exec'[k][v].pc \in Claimed => exec[k][v].job # j
    <3>1. <<k, v>> # <<i, w>>
      BY <2>1, <2>6 DEF Unstored, Claimed
    <3>2. exec'[k][v] = exec[k][v]
      BY <2>1, <3>1 DEF OthersKeep
    <3>3. exec[k][v].job \in JobIds
      BY <2>6, <3>2 DEF Typed, ExecOnOwnJob, RowOf, Unstored, Claimed
    <3>4. ASSUME exec[k][v].pc \in Claimed, exec[k][v].job = j PROVE FALSE
      <4>1. v = w
        BY <1>0, <3>4, SameJobSameWallet DEF Claimed
      <4>2. k = i
        BY <1>0, <1>3, <3>4, <4>1 DEF LeaseInv, ClaimedOnce, Claimed
      <4> QED BY <3>1, <4>1, <4>2
    <3> QED BY <3>2, <3>3, <3>4
  <2> HIDE DEF e, j
  <2>7. OneInFlight'
    BY <1>n, <2>3 DEF LeaseInv, OneInFlight, WalletOf, InFlight
  <2>8. FencedExecutorOwnsWallet'
    <3> SUFFICES ASSUME NEW k \in Instances, NEW v \in Wallets, exec'[k][v].pc \in {"build", "store"},
                        status'[exec'[k][v].job] = "building"
                 PROVE  leaseOwner[v] = k
      BY <1>n DEF FencedExecutorOwnsWallet
    <3>1. exec'[k][v] = exec[k][v] /\ exec[k][v].job \in JobIds
      BY <2>6 DEF Claimed
    <3> QED BY <2>3, <3>1 DEF LeaseInv, FencedExecutorOwnsWallet
  <2>9. OwnerHasClearWallet'
    <3> SUFFICES ASSUME NEW k \in Instances, NEW v \in Wallets, exec'[k][v].pc \in Unstored,
                        leaseOwner[v] = k, NEW l \in JobIds, status'[l] \in InFlight
                 PROVE  WalletOf(l) # v
      BY <1>n DEF OwnerHasClearWallet, WalletOf
    <3>1. exec[k][v].pc \in Unstored /\ status[l] \in InFlight
      BY <2>3, <2>6 DEF InFlight
    <3> QED BY <3>1 DEF LeaseInv, OwnerHasClearWallet
  <2>10. ClaimedOnce'
    <3>1. ASSUME NEW k \in Instances, NEW v \in Wallets, exec'[k][v].pc \in Claimed
          PROVE  status'[exec'[k][v].job] # "pending"
      <4>1. exec'[k][v] = exec[k][v] /\ exec[k][v].job \in JobIds /\ exec[k][v].job # j
        BY <2>6, <3>1
      <4> QED BY <2>3, <3>1, <4>1 DEF LeaseInv, ClaimedOnce
    <3>2. ASSUME NEW k \in Instances, NEW l \in Instances, NEW v \in Wallets,
                 exec'[k][v].pc \in Claimed, exec'[l][v].pc \in Claimed,
                 exec'[k][v].job = exec'[l][v].job, status'[exec'[k][v].job] = "building"
          PROVE  k = l
      <4>1. exec'[k][v] = exec[k][v] /\ exec'[l][v] = exec[l][v] /\ exec[k][v].job \in JobIds
        BY <2>6, <3>2
      <4> QED BY <2>3, <3>2, <4>1 DEF LeaseInv, ClaimedOnce
    <3> QED BY <3>1, <3>2 DEF ClaimedOnce
  <2> QED BY <2>7, <2>8, <2>9, <2>10 DEF LeaseInv
<1> QED BY <1>1, <1>2, <1>3 DEF RequeueOrFail, Requeueable

-----------------------------------------------------------------------------
(* Steps that move the lease.                                              *)

\* An execution is left alone, ends, or starts without having claimed anything.
StartOrEnd(i, w) == exec'[i][w] = exec[i][w] \/ exec'[i][w].pc \notin Claimed

\* A lease that moves away from a fenced execution takes its row out of "building",
\* and one that moves to an execution finds the wallet clear.
LEMMA OwnerStep ==
  ASSUME Typed, LeaseInv, Next, \A j \in JobIds : CalmRow(j),
         \A i \in Instances, w \in Wallets : StartOrEnd(i, w),
         \A i \in Instances, w \in Wallets :
           /\ exec'[i][w] = exec[i][w] /\ exec[i][w].pc \in {"build", "store"} /\ leaseOwner[w] = i
                => leaseOwner'[w] = i \/ status'[exec[i][w].job] # "building"
           /\ exec'[i][w].pc \in Unstored /\ leaseOwner'[w] = i
                => \/ exec'[i][w] = exec[i][w] /\ leaseOwner[w] = i
                   \/ \A j \in JobIds : status'[j] \in InFlight => WalletOf(j) # w
  PROVE  LeaseInv'
<1>1. OneInFlight'
  <2> SUFFICES ASSUME NEW j \in JobIds, NEW k \in JobIds, status'[j] \in InFlight, status'[k] \in InFlight,
                      WalletOf(j)' = WalletOf(k)'
               PROVE  j = k
    BY DEF OneInFlight
  <2> QED BY CalmInFlight DEF LeaseInv, OneInFlight
<1>0. ASSUME NEW i \in Instances, NEW w \in Wallets, exec'[i][w].pc \in Claimed
      PROVE  /\ exec'[i][w] = exec[i][w] /\ exec[i][w].job \in JobIds
             /\ status[exec[i][w].job] \notin {"absent", "pending"}
             /\ status'[exec[i][w].job] = "building" => status[exec[i][w].job] = "building"
             /\ status'[exec[i][w].job] # "pending"
  <2>1. exec'[i][w] = exec[i][w]
    BY <1>0 DEF StartOrEnd
  <2>2. exec[i][w].job \in JobIds /\ status[exec[i][w].job] \notin {"absent", "pending"}
    BY <1>0, <2>1 DEF Typed, ExecOnOwnJob, RowOf, Claimed, LeaseInv, ClaimedOnce
  <2>3. CalmRow(exec[i][w].job)
    BY <2>2
  <2> QED BY <2>1, <2>2, <2>3 DEF CalmRow, InFlight
<1>2. FencedExecutorOwnsWallet'
  <2> SUFFICES ASSUME NEW i \in Instances, NEW w \in Wallets, exec'[i][w].pc \in {"build", "store"},
                      status'[exec'[i][w].job] = "building"
               PROVE  leaseOwner'[w] = i
    BY DEF FencedExecutorOwnsWallet
  <2>1. exec'[i][w] = exec[i][w] /\ status[exec[i][w].job] = "building"
    BY <1>0 DEF Claimed
  <2>2. leaseOwner[w] = i
    BY <2>1 DEF LeaseInv, FencedExecutorOwnsWallet
  <2> QED BY <2>1, <2>2
<1>3. OwnerHasClearWallet'
  <2> SUFFICES ASSUME NEW i \in Instances, NEW w \in Wallets, exec'[i][w].pc \in Unstored,
                      leaseOwner'[w] = i, NEW j \in JobIds, status'[j] \in InFlight
               PROVE  WalletOf(j)' # w
    BY DEF OwnerHasClearWallet
  <2>1. status[j] \in InFlight /\ WalletOf(j)' = WalletOf(j)
    BY CalmInFlight
  <2>2. CASE exec'[i][w] = exec[i][w] /\ leaseOwner[w] = i
    BY <2>1, <2>2 DEF LeaseInv, OwnerHasClearWallet
  <2> QED BY <2>1, <2>2
<1>4. ClaimedOnce'
  <2>1. ASSUME NEW i \in Instances, NEW w \in Wallets, exec'[i][w].pc \in Claimed
        PROVE  status'[exec'[i][w].job] # "pending"
    BY <1>0, <2>1
  <2>2. ASSUME NEW i \in Instances, NEW k \in Instances, NEW w \in Wallets,
               exec'[i][w].pc \in Claimed, exec'[k][w].pc \in Claimed,
               exec'[i][w].job = exec'[k][w].job, status'[exec'[i][w].job] = "building"
        PROVE  i = k
    <3>1. /\ exec'[i][w] = exec[i][w] /\ exec'[k][w] = exec[k][w]
          /\ status[exec[i][w].job] = "building"
      BY <1>0, <2>2
    <3> QED BY <2>2, <3>1 DEF LeaseInv, ClaimedOnce
  <2> QED BY <2>1, <2>2 DEF ClaimedOnce
<1> QED BY <1>1, <1>2, <1>3, <1>4 DEF LeaseInv

\* The finally block releases the lease of an execution that is over.
LEMMA LeaseRelease ==
  ASSUME Typed, LeaseInv, NEW i \in Instances, NEW w \in Wallets, FinallyRelease(i, w) PROVE LeaseInv'
<1>0. exec \in ExecState /\ Idle \in ExecType
  BY RestTypes DEF Typed, TypeOK, ExecState
<1>1. exec'[i][w] = Idle /\ OthersKeep(i, w)
  BY <1>0, BecomeType DEF FinallyRelease
<1>2. Next /\ \A j \in JobIds : CalmRow(j)
  BY DEF Next, Execute, FinallyRelease, CalmRow
<1>3. \A v \in Wallets : \/ leaseOwner'[v] = leaseOwner[v]
                         \/ v = w /\ leaseOwner[v] = i /\ leaseOwner'[v] = NoOwner
  <2>1. leaseOwner \in [Wallets -> Instances \cup {NoOwner, DeadOwner}]
    BY DEF Typed, TypeOK
  <2>2. CASE ReleaseLease(i, w)
    BY <2>1, <2>2 DEF ReleaseLease
  <2> QED BY <2>2 DEF FinallyRelease
<1>4. ASSUME NEW k \in Instances, NEW v \in Wallets
      PROVE  /\ StartOrEnd(k, v)
             /\ exec'[k][v].pc \in {"build", "store"} /\ leaseOwner[v] = k => leaseOwner'[v] = k
             /\ exec'[k][v].pc \in Unstored /\ leaseOwner'[v] = k =>
                  exec'[k][v] = exec[k][v] /\ leaseOwner[v] = k
  <2>1. CASE <<k, v>> = <<i, w>>
    BY <1>1, <2>1 DEF StartOrEnd, Idle, Unstored, Claimed
  <2>2. CASE <<k, v>> # <<i, w>>
    <3>1. exec'[k][v] = exec[k][v]
      BY <1>1, <2>2 DEF OthersKeep
    <3> QED BY <1>3, <2>2, <3>1, NullAssumption DEF StartOrEnd
  <2> QED BY <2>1, <2>2
<1> QED BY <1>2, <1>4, OwnerStep

\* Executions keep the lease invariant.
LEMMA LeaseExecute ==
  ASSUME Typed, LeaseInv, NEW i \in Instances, NEW w \in Wallets, Execute(i, w) PROVE LeaseInv'
<1>1. CASE Claim(i, w) \/ MarkSubmitting(i, w) \/ RequeueOrFail(i, w) \/ FinallyRelease(i, w)
  BY <1>1, LeaseClaim, LeaseStore, LeaseRequeue, LeaseRelease
<1>2. CASE Prepare(i, w) \/ BuildAndSign(i, w) \/ FenceBeforeSubmit(i, w)
           \/ SubmitStoredTransaction(i, w) \/ RecordSubmission(i, w) \/ RereadRow(i, w)
           \/ Resubmit(i, w) \/ LookUpStoredTransaction(i, w)
  <2>1. leaseOwner' = leaseOwner /\ exec[i][w].pc # "claim" /\ UNCHANGED status
    BY <1>2 DEF Prepare, BuildAndSign, FenceBeforeSubmit, SubmitStoredTransaction, RecordSubmission,
       RereadRow, Resubmit, LookUpStoredTransaction, At
  <2> QED BY <2>1, LeaseExecuteCalm DEF CalmRow
<1>3. CASE AdoptSubmitted(i, w)
  <2>1. leaseOwner' = leaseOwner /\ exec[i][w].pc # "claim"
    BY <1>3 DEF AdoptSubmitted, At
  <2>2. \A j \in JobIds : CalmRow(j)
    BY <1>3 DEF AdoptSubmitted, CalmRow, Typed, TypeOK, InFlight
  <2> QED BY <2>1, <2>2, LeaseExecuteCalm
<1>4. CASE FailReconciled(i, w)
  <2>1. leaseOwner' = leaseOwner /\ exec[i][w].pc # "claim"
    BY <1>4 DEF FailReconciled, At
  <2>2. \A j \in JobIds : CalmRow(j)
    <3>1. CASE MarkFailed(exec[i][w].job)
      <4>1. exec[i][w].job \in JobIds \cup {NoJob}
        BY DEF Typed, TypeOK, ExecType
      <4> QED BY <3>1, <4>1, MarkFailedType DEF Typed, CalmRow, InFlight
    <3> QED BY <1>4, <3>1 DEF FailReconciled, CalmRow
  <2> QED BY <2>1, <2>2, LeaseExecuteCalm
<1> QED BY <1>1, <1>2, <1>3, <1>4 DEF Execute

\* A spawn starts one execution and leaves the others alone.
LEMMA SpawnExec ==
  ASSUME Typed, NEW i \in Instances, NEW w \in Wallets, NEW f \in ExecType, Spawn(i, w, f)
  PROVE  /\ exec'[i][w] = f \/ exec'[i][w] = exec[i][w]
         /\ OthersKeep(i, w)
<1>1. exec \in ExecState
  BY DEF Typed, TypeOK, ExecState
<1>2. CASE exec' = [exec EXCEPT ![i][w] = f]
  BY <1>1, <1>2, BecomeType DEF Become
<1>3. CASE exec' = exec
  BY <1>3 DEF OthersKeep
<1> QED BY <1>2, <1>3 DEF Spawn

\* Taking a lease changes one owner.
LEMMA TakeLeaseOwner ==
  ASSUME Typed, NEW i \in Instances, NEW w \in Wallets, TakeLease(i, w)
  PROVE  \A v \in Wallets : leaseOwner'[v] = IF v = w THEN i ELSE leaseOwner[v]
BY DEF TakeLease, Typed, TypeOK

\* A reconciliation takes over only a wallet with a row in flight, whose owner can
\* not be before its own store.
LEMMA LeaseReconcile ==
  ASSUME Typed, LeaseInv, NEW i \in Instances, NEW w \in Wallets, TickReconcile(i, w) PROVE LeaseInv'
<1>n. Next /\ \A j \in JobIds : CalmRow(j)
  BY DEF Next, Tick, TickReconcile, CalmRow
<1>1. CASE UNCHANGED <<leaseVars, exec>>
  BY <1>1, <1>n, CalmStep DEF CalmExec
<1>2. CASE ~(Busy(i, w) \/ AtCapacity(i) \/ OrphanedSubmitting(w) = {})
  <2> DEFINE start(j) == [Idle EXCEPT !.pc = "rsubmit", !.job = j, !.tx = txHash[j], !.via = "resubmit"]
  <2>1. PICK j \in OrphanedSubmitting(w) : TakeLease(i, w) /\ Spawn(i, w, start(j))
    BY <1>2 DEF TickReconcile
  <2>2. start(j) \in ExecType
    BY OrphansType DEF Typed, TypeOK, ExecType, Idle, Pcs, Settling
  <2>3. start(j).pc = "rsubmit"
    BY DEF Idle
  <2>4. j \in JobIds /\ status[j] \in InFlight /\ WalletOf(j) = w
    BY OrphansType DEF InFlight
  <2>5. exec[i][w].pc = "idle"
    BY <1>2 DEF Busy
  <2> HIDE DEF start
  <2>6. exec'[i][w].pc \in {"idle", "rsubmit"} /\ OthersKeep(i, w)
    BY <2>1, <2>2, <2>3, <2>5, SpawnExec
  <2>7. ASSUME NEW k \in Instances, NEW v \in Wallets
        PROVE  /\ StartOrEnd(k, v)
               /\ exec'[k][v] = exec[k][v] /\ exec[k][v].pc \in {"build", "store"} /\ leaseOwner[v] = k
                    => leaseOwner'[v] = k
               /\ exec'[k][v].pc \in Unstored /\ leaseOwner'[v] = k =>
                    exec'[k][v] = exec[k][v] /\ leaseOwner[v] = k
    <3>1. CASE <<k, v>> = <<i, w>>
      BY <2>5, <2>6, <3>1 DEF StartOrEnd, Unstored, Claimed
    <3>2. CASE <<k, v>> # <<i, w>>
      <4>1. exec'[k][v] = exec[k][v]
        BY <2>6, <3>2 DEF OthersKeep
      <4>2. leaseOwner'[v] = IF v = w THEN i ELSE leaseOwner[v]
        BY <2>1, TakeLeaseOwner
      <4>3. exec[k][w].pc \in Unstored => leaseOwner[w] # k
        BY <2>4 DEF LeaseInv, OwnerHasClearWallet
      <4> QED BY <3>2, <4>1, <4>2, <4>3 DEF StartOrEnd, Unstored
    <3> QED BY <3>1, <3>2
  <2> QED BY <1>n, <2>7, OwnerStep
<1> QED BY <1>1, <1>2 DEF TickReconcile

\* A dispatch takes over only a wallet that it leaves without active rows.
LEMMA LeaseDispatch ==
  ASSUME Typed, LeaseInv, NEW i \in Instances, NEW w \in Wallets, TickDispatch(i, w) PROVE LeaseInv'
<1> DEFINE orphans == OrphanedBuilding(w)
           start == [Idle EXCEPT !.pc = "claim", !.job = tick[i].due[w].job,
                                 !.attempt = tick[i].due[w].attempt + 1]
<1>0. orphans \in SUBSET JobIds
  BY OrphansType
<1>n. Next
  BY DEF Next, Tick
<1>r. \A j \in JobIds : CalmRow(j)
  <2>1. CASE FailRows(orphans)
    <3> HIDE DEF orphans
    <3> QED BY <1>0, <2>1, FailRowsType DEF Typed, CalmRow, InFlight
  <2>2. CASE UNCHANGED status
    BY <2>2 DEF CalmRow
  <2> QED BY <2>1, <2>2 DEF TickDispatch
<1>1. CASE UNCHANGED <<leaseVars, exec>>
  BY <1>1, <1>n, <1>r, CalmStep DEF CalmExec
<1>2. CASE /\ ~Busy(i, w) /\ FailRows(orphans)
           /\ ~ \E j \in JobsOf(w) \ orphans : status[j] \in Active
           /\ TakeLease(i, w) /\ Spawn(i, w, start)
  <2>1. exec[i][w].pc = "idle"
    BY <1>2 DEF Busy
  <2>2. start \in ExecType
    <3>1. tick[i].due[w] \in DueRow
      BY DEF Typed, TypeOK, TickType
    <3>2. tick[i].due[w].job \in JobIds \cup {NoJob} /\ tick[i].due[w].attempt + 1 \in Nat
      BY <3>1 DEF DueRow
    <3> QED BY <3>2 DEF ExecType, Idle, Pcs, Unstored
  <2>3. start.pc = "claim"
    BY DEF Idle
  <2>4. ASSUME NEW j \in JobIds, WalletOf(j) = w, status[j] # "absent" PROVE status'[j] \notin Active
    <3>1. CASE j \in orphans
      <4> HIDE DEF orphans
      <4> QED BY <1>0, <1>2, <3>1, FailRowsType DEF Typed, Active, InFlight
    <3>2. CASE j \notin orphans
      <4>1. status[j] \notin Active
        BY <1>2, <2>4, <3>2 DEF JobsOf
      <4> HIDE DEF orphans
      <4> QED BY <1>0, <1>2, <3>2, <4>1, FailRowsType DEF Typed
    <3> QED BY <3>1, <3>2
  <2>5. ASSUME NEW j \in JobIds, status'[j] \in InFlight PROVE WalletOf(j) # w
    <3>1. status[j] \in InFlight
      BY <1>n, <1>r, <2>5, CalmInFlight
    <3> QED BY <2>4, <2>5, <3>1 DEF InFlight, Active
  <2> HIDE DEF start, orphans
  <2>6. exec'[i][w].pc \in {"idle", "claim"} /\ OthersKeep(i, w)
    BY <1>2, <2>1, <2>2, <2>3, SpawnExec
  <2>7. ASSUME NEW k \in Instances, NEW v \in Wallets
        PROVE  /\ StartOrEnd(k, v)
               /\ exec'[k][v] = exec[k][v] /\ exec[k][v].pc \in {"build", "store"} /\ leaseOwner[v] = k
                    => leaseOwner'[v] = k \/ status'[exec[k][v].job] # "building"
               /\ exec'[k][v].pc \in Unstored /\ leaseOwner'[v] = k =>
                    \/ exec'[k][v] = exec[k][v] /\ leaseOwner[v] = k
                    \/ \A j \in JobIds : status'[j] \in InFlight => WalletOf(j) # v
    <3>0. leaseOwner'[v] = IF v = w THEN i ELSE leaseOwner[v]
      BY <1>2, TakeLeaseOwner
    <3>1. CASE <<k, v>> = <<i, w>>
      BY <2>1, <2>5, <2>6, <3>1 DEF StartOrEnd, Claimed
    <3>2. CASE <<k, v>> # <<i, w>>
      <4>1. exec'[k][v] = exec[k][v]
        BY <2>6, <3>2 DEF OthersKeep
      <4>2. CASE v # w
        BY <3>0, <4>1, <4>2 DEF StartOrEnd
      <4>3. CASE v = w
        <5>1. leaseOwner'[v] # k
          BY <3>0, <3>2, <4>3
        <5>2. exec[k][v].pc \in {"build", "store"} => status'[exec[k][v].job] # "building"
          BY <2>4, <4>3 DEF Typed, ExecOnOwnJob, RowOf, Active
        <5> QED BY <4>1, <5>1, <5>2 DEF StartOrEnd
      <4> QED BY <4>2, <4>3
    <3> QED BY <3>1, <3>2
  <2> QED BY <1>n, <1>r, <2>7, OwnerStep
<1> QED BY <1>1, <1>2 DEF TickDispatch

\* Stopping and crashing free or orphan the leases of an instance without executions.
LEMMA LeaseDown ==
  ASSUME Typed, LeaseInv, NEW i \in Instances, StopComplete(i) \/ Crash(i) PROVE LeaseInv'
<1>n. Next /\ \A j \in JobIds : CalmRow(j)
  BY DEF Next, LifeCycle, StopComplete, Crash, CalmRow
<1>1. ASSUME NEW k \in Instances, NEW v \in Wallets
      PROVE  exec'[k][v] = IF k = i THEN exec'[k][v] ELSE exec[k][v]
  <2>1. exec \in ExecState
    BY DEF Typed, TypeOK, ExecState
  <2> QED BY <2>1 DEF StopComplete, Crash, ExecState
<1>2. \A v \in Wallets : exec'[i][v].pc = "idle"
  <2>1. CASE StopComplete(i)
    BY <2>1 DEF StopComplete, Executing
  <2>2. CASE Crash(i)
    BY <2>2 DEF Crash, Typed, TypeOK, ExecState, Idle
  <2> QED BY <2>1, <2>2
<1>3. \A v \in Wallets : leaseOwner'[v] = IF leaseOwner[v] = i THEN leaseOwner'[v] ELSE leaseOwner[v]
  BY DEF StopComplete, Crash
<1>4. \A v \in Wallets : leaseOwner[v] = i => leaseOwner'[v] \in {NoOwner, DeadOwner}
  BY DEF StopComplete, Crash
<1>5. ASSUME NEW k \in Instances, NEW v \in Wallets
      PROVE  /\ StartOrEnd(k, v)
             /\ exec'[k][v] = exec[k][v] /\ exec[k][v].pc \in {"build", "store"} /\ leaseOwner[v] = k
                  => leaseOwner'[v] = k
             /\ exec'[k][v].pc \in Unstored /\ leaseOwner'[v] = k =>
                  exec'[k][v] = exec[k][v] /\ leaseOwner[v] = k
  <2>1. CASE k = i
    BY <1>2, <2>1 DEF StartOrEnd, Unstored, Claimed
  <2>2. CASE k # i
    <3>1. exec'[k][v] = exec[k][v]
      BY <1>1, <2>2
    <3>2. leaseOwner[v] = k => leaseOwner'[v] = k
      BY <1>3, <2>2
    <3>3. leaseOwner'[v] = k => leaseOwner[v] = k
      BY <1>3, <1>4, NullAssumption
    <3> QED BY <3>1, <3>2, <3>3 DEF StartOrEnd
  <2> QED BY <2>1, <2>2
<1> QED BY <1>n, <1>5, OwnerStep

-----------------------------------------------------------------------------
(* The theorem.                                                            *)

\* Clients, clocks, the chain, finalizations and starts are calm.
LEMMA LeaseOthers ==
  ASSUME Typed, LeaseInv, Next, UNCHANGED <<leaseOwner, exec>>, \A j \in JobIds : CalmRow(j)
  PROVE  LeaseInv'
BY CalmStep DEF CalmExec

\* Every step keeps the lease invariant.
LEMMA LeaseStep == ASSUME Typed, LeaseInv, Next PROVE LeaseInv'
<1>1. ASSUME NEW i \in Instances, NEW w \in Wallets, Execute(i, w) PROVE LeaseInv'
  BY <1>1, LeaseExecute
<1>2. ASSUME NEW i \in Instances, Tick(i) PROVE LeaseInv'
  <2>1. ASSUME NEW w \in Wallets, TickReconcile(i, w) \/ TickDispatch(i, w) PROVE LeaseInv'
    BY <2>1, LeaseReconcile, LeaseDispatch
  <2>2. CASE TickReadDue(i) \/ TickFails(i)
    BY <2>2, LeaseOthers DEF TickReadDue, TickFails, CalmRow
  <2> QED BY <1>2, <2>1, <2>2 DEF Tick
<1>3. ASSUME NEW i \in Instances, LifeCycle(i) PROVE LeaseInv'
  <2>1. CASE Start(i)
    <3> DEFINE S == UNION {OrphanedBuilding(w) : w \in Wallets}
    <3>1. S \in SUBSET JobIds /\ FailRows(S) /\ UNCHANGED <<leaseOwner, exec>>
      BY <2>1, OrphansType DEF Start
    <3> HIDE DEF S
    <3>2. \A j \in JobIds : CalmRow(j)
      BY <3>1, FailRowsType DEF Typed, CalmRow, InFlight
    <3> QED BY <3>1, <3>2, LeaseOthers
  <2>2. CASE StopBegin(i)
    BY <2>2, LeaseOthers DEF StopBegin, CalmRow
  <2>3. CASE StopComplete(i) \/ Crash(i)
    BY <2>3, LeaseDown
  <2> QED BY <1>3, <2>1, <2>2, <2>3 DEF LifeCycle
<1>4. ASSUME NEW i \in Instances, Finalize(i) PROVE LeaseInv'
  <2>0. UNCHANGED <<leaseOwner, exec>>
    BY <1>4 DEF Finalize, FinalizeConfirmed, FinalizeDropped
  <2>1. \A j \in JobIds : CalmRow(j)
    <3> PICK t \in Txs : FinalizeConfirmed(i, t) \/ FinalizeDropped(i, t)
      BY <1>4 DEF Finalize
    <3> DEFINE k == t[1]
    <3>1. k \in JobIds
      BY DEF Txs
    <3>2. MarkFailed(k) \/ UNCHANGED status \/ status' = [status EXCEPT ![k] = "confirmed"]
      BY DEF FinalizeConfirmed, FinalizeDropped
    <3> HIDE DEF k
    <3>3. CASE MarkFailed(k)
      BY <3>1, <3>3, MarkFailedType DEF Typed, CalmRow, InFlight
    <3>4. CASE UNCHANGED status \/ status' = [status EXCEPT ![k] = "confirmed"]
      BY <3>1, <3>4 DEF Typed, TypeOK, CalmRow, InFlight
    <3> QED BY <3>2, <3>3, <3>4
  <2> QED BY <2>0, <2>1, LeaseOthers
<1>5. CASE Client
  <2>0. UNCHANGED <<leaseOwner, exec>>
    BY <1>5 DEF Client, SubmitWalletJob, CancelJob
  <2>1. \A j \in JobIds : CalmRow(j)
    BY <1>5 DEF Client, SubmitWalletJob, CancelJob, CalmRow, InFlight, Typed, TypeOK
  <2> QED BY <2>0, <2>1, LeaseOthers
<1>6. CASE Clock \/ Chain
  <2>0. UNCHANGED <<leaseOwner, exec, status>>
    BY <1>6 DEF Clock, Chain, Beat, LeaseExpires, NotBeforePasses, ConfirmationTimeout,
       TxIncluded, TxEvicted, TxInvalidated
  <2> QED BY <2>0, LeaseOthers DEF CalmRow
<1> QED BY <1>1, <1>2, <1>3, <1>4, <1>5, <1>6 DEF Next

\* LeaseInv, with Typed, is inductive.
LEMMA LeaseInductive ==
  /\ Init => LeaseInv
  /\ Typed /\ LeaseInv /\ [Next]_vars => LeaseInv'
<1>1. Init => LeaseInv
  BY DEF Init, LeaseInv, OneInFlight, FencedExecutorOwnsWallet, OwnerHasClearWallet, ClaimedOnce,
     Idle, InFlight, Unstored, Claimed
<1>2. ASSUME Typed, LeaseInv, UNCHANGED vars PROVE LeaseInv'
  BY <1>2 DEF vars, LeaseInv, OneInFlight, FencedExecutorOwnsWallet, OwnerHasClearWallet,
     ClaimedOnce, WalletOf
<1> QED BY <1>1, <1>2, LeaseStep

\* Per wallet one job is in flight, whatever instances stall, stop, crash and take
\* over, for any number of them and any number of jobs and database faults.
THEOREM OneJobInFlight == Spec => []OneInFlight
<1>1. LeaseInv => OneInFlight
  BY DEF LeaseInv
<1> QED BY <1>1, TypedInductive, LeaseInductive, PTL DEF Spec

\* An execution past a fence whose row is still building owns the wallet's lease.
THEOREM FenceProtects == Spec => []FencedExecutorOwnsWallet
<1>1. LeaseInv => FencedExecutorOwnsWallet
  BY DEF LeaseInv
<1> QED BY <1>1, TypedInductive, LeaseInductive, PTL DEF Spec

-----------------------------------------------------------------------------
(* Outcomes.                                                               *)

\* No transaction that can never be accepted is waiting in a mempool or on chain.
InvalidStaysOut == invalid \cap (mempool \cup ledger) = {}

\* The confirmation timeout is over, or a markSubmitted threw after an accepted submit.
Excused(j) == timedOut[j] \/ <<j, "adopt">> \in unbooked

\* A reconciliation that holds a permanent error, or is about to fail the row, is right
\* or excused.
VerdictsTrue ==
  \A i \in Instances, w \in Wallets :
    /\ exec[i][w].pc = "rlookup" /\ exec[i][w].err = "permanent" =>
         exec[i][w].tx \in invalid \cup ledger \/ Excused(exec[i][w].job)
    /\ exec[i][w].pc = "rfail" => exec[i][w].tx \in invalid \/ Excused(exec[i][w].job)

\* An execution that claimed a row has one nobody has sent, or is excused.
ClaimedIsUnsent ==
  \A i \in Instances, w \in Wallets :
    exec[i][w].pc \in Claimed =>
      status[exec[i][w].job] \in {"building", "failed"} \/ Excused(exec[i][w].job)

\* A failed row stores no transaction, or one that can never be accepted, or is excused.
FailedIsInvalid ==
  \A j \in JobIds : status[j] = "failed" => txHash[j] \in {NoTx} \cup invalid \/ Excused(j)

\* A job that is neither failed nor cancelled.
Live(j) == status[j] \notin {"absent", "failed", "cancelled"}

\* Rows are made in the order of their ids.
RowsInOrder == \A j, k \in JobIds : k < j /\ status[j] # "absent" => status[k] # "absent"

\* A live job owns its claim, and no later row was made under it.
LiveOwnsKey ==
  /\ RowsInOrder
  /\ \A j \in JobIds : Live(j) /\ request[j].idempotencyKey # NoClaim
                         => dedupKey[j] = request[j].idempotencyKey
  /\ \A j, k \in JobIds : Live(j) /\ status[k] # "absent" /\ SameClaim(j, k) => k <= j

\* A job that needs a submission row: it is built, and no write of the row threw.
Recordable(j) == request[j].kind = "build" /\ <<j, "record">> \notin unbooked

\* A transaction has its submission row before the job counts as submitted.
SubmittedIsRecorded ==
  /\ \A i \in Instances, w \in Wallets :
       exec[i][w].pc = "adopt" /\ Recordable(exec[i][w].job) => exec[i][w].tx \in recorded
  /\ \A j \in JobIds : status[j] = "submitted" /\ Recordable(j) => txHash[j] \in recorded

\* A confirmed job is on chain and its submission row says so.
ConfirmedIsTrue ==
  \A j \in JobIds : status[j] = "confirmed" =>
    /\ txHash[j] \in ledger
    /\ Recordable(j) => txHash[j] \in recordedConfirmed

\* An event was published for a job that has its outcome, once.
EventsTold ==
  \A j \in JobIds :
    /\ events[j].confirmed <= IF status[j] = "confirmed" THEN 1 ELSE 0
    /\ events[j].failed <= IF status[j] = "failed" THEN 1 ELSE 0

\* A wallet's jobs with an outcome.
JobsIn(w, s) == {j \in JobsOf(w) : status[j] = s}

\* A wallet counts every confirmed job, and at most every failed one.
CountsKept ==
  \A w \in Wallets : /\ jobsConfirmed[w] = Cardinality(JobsIn(w, "confirmed"))
                     /\ jobsFailed[w] <= Cardinality(JobsIn(w, "failed"))

\* The invariant of the outcomes.
OutcomeInv ==
  /\ InvalidStaysOut /\ VerdictsTrue /\ ClaimedIsUnsent /\ FailedIsInvalid
  /\ LiveOwnsKey /\ SubmittedIsRecorded /\ ConfirmedIsTrue /\ EventsTold /\ CountsKept

-----------------------------------------------------------------------------
(* What stays, and how an execution gets where it is.                      *)

\* The submission rows, the writes that threw and what the network has decided are
\* for good.
LEMMA RecordsGrow ==
  ASSUME Next
  PROVE  /\ invalid \subseteq invalid' /\ ledger \subseteq ledger'
         /\ recorded \subseteq recorded' /\ recordedConfirmed \subseteq recordedConfirmed'
         /\ unbooked \subseteq unbooked'
<1>1. CASE Client \/ Clock \/ Chain
  BY <1>1, SMTT(60) DEF Client, SubmitWalletJob, CancelJob, Clock, Chain, Beat, LeaseExpires,
     NotBeforePasses, ConfirmationTimeout, TxIncluded, TxEvicted, TxInvalidated
<1>2. ASSUME NEW i \in Instances, Tick(i) \/ LifeCycle(i)
      PROVE  UNCHANGED <<invalid, ledger, recorded, recordedConfirmed, unbooked>>
  BY <1>2 DEF Tick, TickReconcile, TickReadDue, TickDispatch, TickFails, LifeCycle, Start,
     StopBegin, StopComplete, Crash
<1>3. ASSUME NEW i \in Instances, Finalize(i)
      PROVE  /\ UNCHANGED <<invalid, ledger, recorded, unbooked>>
             /\ recordedConfirmed \subseteq recordedConfirmed'
  BY <1>3, SMTT(60) DEF Finalize, FinalizeConfirmed, FinalizeDropped
<1>4. ASSUME NEW i \in Instances, NEW w \in Wallets, Execute(i, w)
      PROVE  /\ UNCHANGED <<invalid, ledger, recordedConfirmed>>
             /\ recorded \subseteq recorded' /\ unbooked \subseteq unbooked'
  BY <1>4 DEF Execute, Claim, Prepare, BuildAndSign, FenceBeforeSubmit, MarkSubmitting,
     SubmitStoredTransaction, RecordSubmission, AdoptSubmitted, RereadRow, RequeueOrFail,
     FinallyRelease, Resubmit, LookUpStoredTransaction, FailReconciled
<1> QED BY <1>1, <1>2, <1>3, <1>4 DEF Next

\* An excuse stays.
StillExcused(j) == timedOut'[j] \/ <<j, "adopt">> \in unbooked'
LEMMA ExcuseStays == ASSUME TypeOK, Next, NEW j \in JobIds, Excused(j) PROVE StillExcused(j)
<1>1. timedOut[j] => timedOut'[j]
  <2>1. CASE UNCHANGED timedOut
    BY <2>1
  <2>2. ASSUME NEW k \in JobIds, ConfirmationTimeout(k) PROVE timedOut[j] => timedOut'[j]
    BY <2>2 DEF ConfirmationTimeout, TypeOK
  <2>3. ASSUME NEW i \in Instances, NEW w \in Wallets, Execute(i, w) PROVE UNCHANGED timedOut
    BY <2>3 DEF Execute, Claim, Prepare, BuildAndSign, FenceBeforeSubmit, MarkSubmitting,
       SubmitStoredTransaction, RecordSubmission, AdoptSubmitted, RereadRow, RequeueOrFail,
       FinallyRelease, Resubmit, LookUpStoredTransaction, FailReconciled
  <2>4. ASSUME NEW i \in Instances, Tick(i) \/ LifeCycle(i) \/ Finalize(i) PROVE UNCHANGED timedOut
    BY <2>4 DEF Tick, TickReconcile, TickReadDue, TickDispatch, TickFails, LifeCycle, Start,
       StopBegin, StopComplete, Crash, Finalize, FinalizeConfirmed, FinalizeDropped
  <2>5. CASE Client \/ Chain
    BY <2>1, <2>5 DEF Client, SubmitWalletJob, CancelJob, Chain, TxIncluded, TxEvicted, TxInvalidated
  <2>6. ASSUME NEW i \in Instances, NEW w \in Wallets, Beat(i, w) PROVE UNCHANGED timedOut
    BY <2>6 DEF Beat
  <2>7. ASSUME NEW w \in Wallets, LeaseExpires(w) PROVE UNCHANGED timedOut
    BY <2>7 DEF LeaseExpires
  <2>8. ASSUME NEW k \in JobIds, NotBeforePasses(k) PROVE UNCHANGED timedOut
    BY <2>8 DEF NotBeforePasses
  <2> QED BY <2>1, <2>2, <2>3, <2>4, <2>5, <2>6, <2>7, <2>8 DEF Next, Clock
<1> QED BY <1>1, RecordsGrow DEF Excused, StillExcused

\* How an execution comes to a lookup, a verdict, the adoption or a claimed row.
Arrival(i, w) ==
  LET e == exec[i][w]
      f == exec'[i][w]
  IN /\ f.pc = "rlookup" /\ f.err = "permanent" =>
          /\ e.pc \in {"rsubmit", "adopt"} /\ f.tx = e.tx /\ f.job = e.job
          /\ Rejected(e.tx) \/ <<e.job, "adopt">> \in unbooked'
     /\ f.pc = "rfail" => /\ e.pc = "rlookup" /\ f.tx = e.tx /\ f.job = e.job
                          /\ GiveUp(i, w) /\ e.tx \notin ledger
     /\ f.pc = "adopt" => /\ e.pc = "book" /\ f.tx = e.tx /\ f.job = e.job
                          /\ \/ request[e.job].kind # "build" \/ e.tx \in recorded'
                             \/ <<e.job, "record">> \in unbooked'
     /\ f.pc \in Claimed => /\ f.job = e.job
                            /\ \/ e.pc \in Claimed
                               \/ e.pc = "claim" /\ status'[e.job] = "building"
                               \/ e.pc = "adopt" /\ <<e.job, "adopt">> \in unbooked'

\* The steps of an execution arrive so.
LEMMA ArrivalExecute ==
  ASSUME Typed, NEW i \in Instances, NEW w \in Wallets, Execute(i, w)
  PROVE  Arrival(i, w)
<1> DEFINE e == exec[i][w]
           f == exec'[i][w]
<1>0. /\ exec \in ExecState /\ e \in ExecType /\ e.job \in JobIds \cup {NoJob}
      /\ Idle \in ExecType
      /\ e.pc \notin {"idle", "release"} => e.job \in JobIds
  BY RestTypes DEF Typed, TypeOK, ExecState, ExecType, ExecOnOwnJob, RowOf
<1>1. ASSUME f.pc \notin {"rlookup", "rfail", "adopt"} \cup Claimed PROVE Arrival(i, w)
  BY <1>1 DEF Arrival
<1>2. ASSUME NEW s \in Pcs, Goto(i, w, s)
      PROVE  f = [e EXCEPT !.pc = s] /\ f.pc = s /\ f.tx = e.tx /\ f.job = e.job
  <2>0. [e EXCEPT !.pc = s] \in ExecType
    BY <1>0, JumpTypes
  <2>1. f = [e EXCEPT !.pc = s]
    BY <1>0, <1>2, <2>0, BecomeType DEF Goto
  <2> QED BY <1>0, <2>1 DEF ExecType
<1>3. ASSUME NEW k \in {"transient", "permanent"}, Throw(i, w, k)
      PROVE  f.pc = "reread" /\ f.job = e.job
  <2>0. [e EXCEPT !.pc = "reread", !.err = k, !.tx = NoTx] \in ExecType
    BY <1>0, JumpTypes
  <2>1. f = [e EXCEPT !.pc = "reread", !.err = k, !.tx = NoTx]
    BY <1>0, <1>3, <2>0, BecomeType DEF Throw
  <2> QED BY <1>0, <2>1 DEF ExecType
<1>4. ASSUME Finish(i, w) \/ Become(i, w, Idle) PROVE f.pc \in {"idle", "release"}
  <2>1. f = [Idle EXCEPT !.pc = "release"] \/ f = Idle
    BY <1>0, <1>4, BecomeType, JumpTypes DEF Finish
  <2> QED BY <2>1 DEF Idle
<1>5. ASSUME NEW t \in Txs, Become(i, w, [e EXCEPT !.pc = "fence", !.tx = t])
      PROVE  f.pc = "fence" /\ f.job = e.job
  <2>0. [e EXCEPT !.pc = "fence", !.tx = t] \in ExecType
    BY <1>0, JumpTypes
  <2>1. f = [e EXCEPT !.pc = "fence", !.tx = t]
    BY <1>0, <1>5, <2>0, BecomeType
  <2> QED BY <1>0, <2>1 DEF ExecType
<1>6. ASSUME NEW k \in {"transient", "permanent"}, Become(i, w, [e EXCEPT !.pc = "rlookup", !.err = k])
      PROVE  f.pc = "rlookup" /\ f.err = k /\ f.tx = e.tx /\ f.job = e.job
  <2>0. [e EXCEPT !.pc = "rlookup", !.err = k] \in ExecType
    BY <1>0, JumpTypes
  <2>1. f = [e EXCEPT !.pc = "rlookup", !.err = k]
    BY <1>0, <1>6, <2>0, BecomeType
  <2> QED BY <1>0, <2>1 DEF ExecType
<1>7. ASSUME Become(i, w, [e EXCEPT !.pc = "book", !.err = "none", !.via = "onchain"]) PROVE f.pc = "book"
  <2>0. [e EXCEPT !.pc = "book", !.err = "none", !.via = "onchain"] \in ExecType
    BY <1>0, JumpTypes
  <2>1. f = [e EXCEPT !.pc = "book", !.err = "none", !.via = "onchain"]
    BY <1>0, <1>7, <2>0, BecomeType
  <2> QED BY <1>0, <2>1 DEF ExecType
<1>pcs. {"prep", "build", "store", "submit", "book", "adopt", "fail", "rfail"} \subseteq Pcs
  BY DEF Pcs, Unstored, Failing, Settling
<1>fence. ASSUME NEW s \in {"build", "store"}, Fence(i, w, s)
         PROVE  f.pc \in {s, "release", "idle"} /\ (f.pc \in Claimed => f.job = e.job)
  BY <1>fence, <1>2, <1>4, <1>pcs DEF Fence, Claimed
<1>early. ASSUME e.pc \in Claimed, f.pc \in Claimed \cup {"idle", "release", "submit"},
                 f.pc \in Claimed => f.job = e.job
          PROVE  Arrival(i, w)
  BY <1>early DEF Arrival, Claimed
<1> HIDE DEF e, f
<1>8. CASE Claim(i, w)
  <2>0. e.pc = "claim" /\ e.job \in JobIds
    BY <1>0, <1>8 DEF Claim, At, e
  <2>1. CASE status' = [status EXCEPT ![e.job] = "building"] /\ Goto(i, w, "prep")
    <3>1. status'[e.job] = "building"
      BY <2>0, <2>1 DEF Typed, TypeOK
    <3>2. f.pc = "prep" /\ f.job = e.job
      BY <1>2, <1>pcs, <2>1
    <3> QED BY <2>0, <3>1, <3>2 DEF Arrival, Claimed, e, f
  <2> QED BY <1>1, <1>4, <1>8, <2>1 DEF Claim, Claimed, e
<1>9. CASE Prepare(i, w)
  <2>0. e.pc = "prep" /\ e.pc \in Claimed /\ e.job \in JobIds
    BY <1>0, <1>9 DEF Prepare, At, Claimed, e
  <2>1. CASE Become(i, w, [exec[i][w] EXCEPT !.pc = "fence", !.tx = <<exec[i][w].job, 0>>])
    <3>1. <<exec[i][w].job, 0>> \in Txs
      BY <2>0, BoundAssumption DEF Txs, e
    <3> QED BY <1>5, <1>early, <2>0, <2>1, <3>1 DEF e, Claimed
  <2>2. CASE Throw(i, w, "permanent")
    BY <1>3, <1>early, <2>0, <2>2 DEF Claimed
  <2>3. CASE Fence(i, w, "build")
    BY <1>fence, <1>early, <2>0, <2>3 DEF Claimed
  <2> QED BY <1>9, <2>1, <2>2, <2>3 DEF Prepare
<1>10. CASE BuildAndSign(i, w)
  <2>0. e.pc = "build" /\ e.pc \in Claimed /\ e.job \in JobIds
    BY <1>0, <1>10 DEF BuildAndSign, At, Claimed, e
  <2>1. CASE /\ builds[exec[i][w].job] < MaxBuilds
             /\ Become(i, w, [exec[i][w] EXCEPT !.pc = "fence", !.tx = <<exec[i][w].job, builds[exec[i][w].job] + 1>>])
    <3>1. <<exec[i][w].job, builds[exec[i][w].job] + 1>> \in Txs
      BY <2>0, <2>1, BoundAssumption DEF Txs, Typed, TypeOK, e
    <3> QED BY <1>5, <1>early, <2>0, <2>1, <3>1 DEF e, Claimed
  <2>2. ASSUME NEW k \in {"transient", "permanent"}, Throw(i, w, k) PROVE Arrival(i, w)
    BY <1>3, <1>early, <2>0, <2>2 DEF Claimed
  <2> QED BY <1>10, <2>1, <2>2 DEF BuildAndSign
<1>11. CASE FenceBeforeSubmit(i, w)
  <2>0. e.pc \in Claimed /\ Fence(i, w, "store")
    BY <1>11 DEF FenceBeforeSubmit, At, Claimed, e
  <2> QED BY <1>fence, <1>early, <2>0 DEF Claimed
<1>12. CASE MarkSubmitting(i, w)
  <2>0. e.pc \in Claimed
    BY <1>12 DEF MarkSubmitting, At, Claimed, e
  <2>1. CASE Goto(i, w, "submit")
    BY <1>1, <1>2, <1>pcs, <2>1 DEF Claimed
  <2>2. CASE Throw(i, w, "permanent")
    BY <1>3, <1>early, <2>0, <2>2 DEF Claimed
  <2>3. CASE Finish(i, w)
    BY <1>1, <1>4, <2>3 DEF Claimed
  <2> QED BY <1>12, <2>1, <2>2, <2>3 DEF MarkSubmitting
<1>13. CASE SubmitStoredTransaction(i, w)
  <2>1. CASE Goto(i, w, "book")
    BY <1>1, <1>2, <1>pcs, <2>1 DEF Claimed
  <2>2. CASE Finish(i, w)
    BY <1>1, <1>4, <2>2 DEF Claimed
  <2> QED BY <1>13, <2>1, <2>2 DEF SubmitStoredTransaction
<1>14. CASE RecordSubmission(i, w)
  <2>1. e.pc = "book" /\ f.pc = "adopt" /\ f.tx = e.tx /\ f.job = e.job
    BY <1>2, <1>14, <1>pcs DEF RecordSubmission, At, e
  <2>2. \/ request[e.job].kind # "build" \/ e.tx \in recorded'
        \/ <<e.job, "record">> \in unbooked'
    <3>1. CASE request[e.job].kind = "submitSigned"
      BY <3>1
    <3>2. CASE recorded' = recorded \cup {e.tx} \/ unbooked' = unbooked \cup {<<e.job, "record">>}
      BY <3>2
    <3> QED BY <1>14, <3>1, <3>2 DEF RecordSubmission, e
  <2> QED BY <2>1, <2>2 DEF Arrival, Claimed, e, f
<1>15. CASE AdoptSubmitted(i, w)
  <2>0. e.pc = "adopt"
    BY <1>15 DEF AdoptSubmitted, At, e
  <2>1. CASE Finish(i, w)
    BY <1>1, <1>4, <2>1 DEF Claimed
  <2>2. CASE ~Finish(i, w)
    <3>1. /\ unbooked' = unbooked \cup {<<e.job, "adopt">>}
          /\ \/ Throw(i, w, "permanent")
             \/ Become(i, w, [e EXCEPT !.pc = "rlookup", !.err = "permanent"])
      <4>1. e.via \in {"execute", "resubmit", "onchain"}
        BY <1>0 DEF ExecType
      <4> QED BY <1>15, <2>2, <4>1 DEF AdoptSubmitted, e
    <3>2. <<e.job, "adopt">> \in unbooked'
      BY <3>1
    <3>3. CASE Throw(i, w, "permanent")
      <4>1. f.pc = "reread" /\ f.job = e.job
        BY <1>3, <3>3
      <4> QED BY <2>0, <3>2, <4>1 DEF Arrival, Claimed, e, f
    <3>4. CASE Become(i, w, [e EXCEPT !.pc = "rlookup", !.err = "permanent"])
      <4>1. f.pc = "rlookup" /\ f.tx = e.tx /\ f.job = e.job
        BY <1>6, <3>4
      <4> QED BY <2>0, <3>2, <4>1 DEF Arrival, Claimed, e, f
    <3> QED BY <3>1, <3>3, <3>4
  <2> QED BY <2>1, <2>2
<1>16. CASE RereadRow(i, w)
  <2>0. e.pc \in Claimed
    BY <1>16 DEF RereadRow, At, Claimed, e
  <2>1. CASE Goto(i, w, "fail")
    BY <1>2, <1>pcs, <1>early, <2>0, <2>1 DEF Claimed
  <2>2. CASE Finish(i, w)
    BY <1>1, <1>4, <2>2 DEF Claimed
  <2> QED BY <1>16, <2>1, <2>2 DEF RereadRow
<1>17. CASE RequeueOrFail(i, w)
  BY <1>1, <1>4, <1>17 DEF RequeueOrFail, Claimed
<1>18. CASE FinallyRelease(i, w)
  BY <1>1, <1>4, <1>18 DEF FinallyRelease, Claimed
<1>19. CASE Resubmit(i, w)
  <2>0. e.pc = "rsubmit"
    BY <1>19 DEF Resubmit, At, e
  <2>1. CASE Goto(i, w, "book")
    BY <1>1, <1>2, <1>pcs, <2>1 DEF Claimed
  <2>2. CASE Rejected(exec[i][w].tx) /\ Become(i, w, [exec[i][w] EXCEPT !.pc = "rlookup", !.err = "permanent"])
    <3>1. f.pc = "rlookup" /\ f.tx = e.tx /\ f.job = e.job
      BY <1>6, <2>2 DEF e
    <3> QED BY <2>0, <2>2, <3>1 DEF Arrival, Claimed, e, f
  <2>3. CASE Become(i, w, [exec[i][w] EXCEPT !.pc = "rlookup", !.err = "transient"])
    <3>1. f.pc = "rlookup" /\ f.err = "transient"
      BY <1>6, <2>3 DEF e
    <3> QED BY <3>1 DEF Arrival, Claimed, e, f
  <2> QED BY <1>19, <2>1, <2>2, <2>3 DEF Resubmit
<1>20. CASE LookUpStoredTransaction(i, w)
  <2>1. CASE exec[i][w].tx \notin ledger /\ GiveUp(i, w) /\ Goto(i, w, "rfail")
    <3>1. e.pc = "rlookup" /\ f.pc = "rfail" /\ f.tx = e.tx /\ f.job = e.job
      BY <1>2, <1>20, <1>pcs, <2>1 DEF LookUpStoredTransaction, At, e
    <3> QED BY <2>1, <3>1 DEF Arrival, Claimed, e, f
  <2> QED BY <1>1, <1>4, <1>7, <1>20, <2>1 DEF LookUpStoredTransaction, Claimed, e
<1>21. CASE FailReconciled(i, w)
  BY <1>1, <1>4, <1>21 DEF FailReconciled, Claimed
<1> QED
  BY <1>8, <1>9, <1>10, <1>11, <1>12, <1>13, <1>14, <1>15, <1>16, <1>17, <1>18, <1>19,
     <1>20, <1>21 DEF Execute

\* Every execution arrives so, or is left alone.
LEMMA ArrivalStep ==
  ASSUME Typed, Next, NEW k \in Instances, NEW v \in Wallets
  PROVE  exec'[k][v] = exec[k][v] \/ Arrival(k, v)
<1>0. exec \in ExecState
  BY DEF Typed, TypeOK, ExecState
<1>1. ASSUME exec'[k][v].pc \notin {"rlookup", "rfail", "adopt"} \cup Claimed PROVE Arrival(k, v)
  BY <1>1 DEF Arrival
<1>2. ASSUME NEW i \in Instances, NEW w \in Wallets, Execute(i, w)
      PROVE  exec'[k][v] = exec[k][v] \/ Arrival(k, v)
  <2>1. Arrival(i, w) /\ OthersKeep(i, w)
    BY <1>2, ArrivalExecute, ExecStepExecute DEF Typed
  <2>2. CASE <<k, v>> = <<i, w>>
    BY <2>1, <2>2
  <2>3. CASE <<k, v>> # <<i, w>>
    BY <2>1, <2>3 DEF OthersKeep
  <2> QED BY <2>2, <2>3
<1>3. ASSUME NEW i \in Instances, NEW w \in Wallets, NEW f \in ExecType, Spawn(i, w, f),
             f.pc \in {"claim", "rsubmit"}
      PROVE  exec'[k][v] = exec[k][v] \/ Arrival(k, v)
  <2>1. (exec'[i][w] = f \/ exec'[i][w] = exec[i][w]) /\ OthersKeep(i, w)
    BY <1>3, SpawnExec
  <2>2. CASE <<k, v>> = <<i, w>>
    BY <1>1, <1>3, <2>1, <2>2 DEF Claimed
  <2>3. CASE <<k, v>> # <<i, w>>
    BY <2>1, <2>3 DEF OthersKeep
  <2> QED BY <2>2, <2>3
<1>4. ASSUME NEW i \in Instances, NEW w \in Wallets, TickReconcile(i, w)
      PROVE  exec'[k][v] = exec[k][v] \/ Arrival(k, v)
  <2> DEFINE start(j) == [Idle EXCEPT !.pc = "rsubmit", !.job = j, !.tx = txHash[j], !.via = "resubmit"]
  <2>1. exec' = exec \/ \E j \in OrphanedSubmitting(w) : Spawn(i, w, start(j))
    BY <1>4 DEF TickReconcile
  <2>2. ASSUME NEW j \in OrphanedSubmitting(w) PROVE start(j) \in ExecType /\ start(j).pc = "rsubmit"
    BY OrphansType DEF Typed, TypeOK, ExecType, Idle, Pcs, Settling
  <2> HIDE DEF start
  <2> QED BY <1>3, <2>1, <2>2
<1>5. ASSUME NEW i \in Instances, NEW w \in Wallets, TickDispatch(i, w)
      PROVE  exec'[k][v] = exec[k][v] \/ Arrival(k, v)
  <2> DEFINE start == [Idle EXCEPT !.pc = "claim", !.job = tick[i].due[w].job,
                                   !.attempt = tick[i].due[w].attempt + 1]
  <2>1. exec' = exec \/ Spawn(i, w, start)
    BY <1>5 DEF TickDispatch
  <2>2. tick[i].due[w] \in DueRow
    BY DEF Typed, TypeOK, TickType
  <2>3. tick[i].due[w].job \in JobIds \cup {NoJob} /\ tick[i].due[w].attempt + 1 \in Nat
    BY <2>2 DEF DueRow
  <2>4. start \in ExecType /\ start.pc = "claim"
    BY <2>3 DEF ExecType, Idle, Pcs, Unstored
  <2> HIDE DEF start
  <2> QED BY <1>3, <2>1, <2>4
<1>6. ASSUME NEW i \in Instances, Crash(i) PROVE exec'[k][v] = exec[k][v] \/ Arrival(k, v)
  <2>1. exec'[k][v] = IF k = i THEN Idle ELSE exec[k][v]
    BY <1>0, <1>6 DEF Crash, ExecState
  <2> QED BY <1>1, <2>1 DEF Idle, Claimed
<1>7. ASSUME NEW i \in Instances, Finalize(i) PROVE exec' = exec
  BY <1>7 DEF Finalize, FinalizeConfirmed, FinalizeDropped
<1>8. CASE Client \/ Clock \/ Chain
  BY <1>8 DEF Client, SubmitWalletJob, CancelJob, Clock, Chain, Beat, LeaseExpires,
     NotBeforePasses, ConfirmationTimeout, TxIncluded, TxEvicted, TxInvalidated
<1>9. ASSUME NEW i \in Instances,
             TickReadDue(i) \/ TickFails(i) \/ Start(i) \/ StopBegin(i) \/ StopComplete(i)
      PROVE  exec' = exec
  BY <1>9 DEF TickReadDue, TickFails, Start, StopBegin, StopComplete
<1> QED BY <1>2, <1>4, <1>5, <1>6, <1>7, <1>8, <1>9 DEF Next, Tick, LifeCycle

-----------------------------------------------------------------------------
(* What moves a row, and what is told about it.                            *)

\* Why a row changes its status.
Cause(j) ==
  /\ status'[j] = "failed" =>
       status[j] = "failed" \/ txHash[j] \in {NoTx} \cup invalid \/ Excused(j)
  /\ status'[j] = "confirmed" /\ status[j] # "confirmed" =>
       /\ txHash[j] \in ledger
       /\ recordedConfirmed' = recordedConfirmed \cup ({txHash[j]} \cap recorded)
  /\ status'[j] = "submitted" /\ status[j] # "submitted" /\ Recordable(j) =>
       txHash[j] \in recorded
  /\ status[j] = "building" /\ status'[j] \in {"pending", "submitting"} =>
       \E i \in Instances, w \in Wallets :
         /\ exec[i][w].job = j /\ exec[i][w].pc \in {"fail", "store"}
         /\ exec'[i][w].pc \notin Claimed

\* The executions change rows for these causes.
LEMMA CauseExecute ==
  ASSUME Typed, OutcomeInv, NEW i \in Instances, NEW w \in Wallets, Execute(i, w),
         NEW j \in JobIds
  PROVE  Cause(j)
<1> DEFINE e == exec[i][w]
<1>0. /\ exec \in ExecState /\ e \in ExecType
      /\ e.job \in JobIds \cup {NoJob}
      /\ e.pc \notin {"idle", "release"} => e.job \in JobIds
  BY DEF Typed, TypeOK, ExecState, ExecType, ExecOnOwnJob, RowOf
<1>t. /\ status \in [JobIds -> Statuses] /\ txHash \in [JobIds -> Txs \cup {NoTx}]
      /\ \A k \in JobIds : status[k] = "building" => txHash[k] = NoTx
  BY DEF Typed, TypeOK, RowTx
<1>ty. TypeOK /\ e.job \in JobIds \cup {NoJob}
  BY <1>0 DEF Typed
<1>1. CASE UNCHANGED status
  BY <1>1 DEF Cause
<1>2. CASE Claim(i, w)
  <2>1. \A k \in JobIds : status'[k] = status[k] \/ status'[k] = "building"
    BY <1>t, <1>2 DEF Claim
  <2> QED BY <2>1 DEF Cause
<1>3. CASE MarkSubmitting(i, w)
  <2>1. CASE status' = [status EXCEPT ![e.job] = "submitting"] /\ Goto(i, w, "submit")
    <3>1. e.pc = "store"
      BY <1>3 DEF MarkSubmitting, At
    <3>2. "submit" \in Pcs
      BY DEF Pcs, Settling
    <3>3. [e EXCEPT !.pc = "submit"] \in ExecType
      BY <1>0, <3>2, JumpTypes
    <3>4. exec'[i][w] = [e EXCEPT !.pc = "submit"]
      BY <1>0, <2>1, <3>3, BecomeType DEF Goto
    <3>5. exec'[i][w].pc = "submit"
      BY <1>0, <3>4 DEF ExecType
    <3>6. status'[j] = IF j = e.job THEN "submitting" ELSE status[j]
      BY <1>t, <2>1
    <3> QED BY <3>1, <3>5, <3>6 DEF Cause, Claimed
  <2> QED BY <1>0, <1>1, <1>3, <2>1 DEF MarkSubmitting
<1>4. CASE AdoptSubmitted(i, w)
  <2>00. e.pc = "adopt"
    BY <1>4 DEF AdoptSubmitted, At
  <2>0. e.pc = "adopt" /\ e.job \in JobIds
    BY <1>0, <2>00
  <2>2. e.tx = txHash[e.job]
    BY <2>0 DEF Typed, ExecTx, Settling
  <2>3. Recordable(e.job) => e.tx \in recorded
    BY <2>0 DEF OutcomeInv, SubmittedIsRecorded
  <2>4. \/ UNCHANGED status
        \/ status' = IF status[e.job] = "submitting" THEN [status EXCEPT ![e.job] = "submitted"]
                     ELSE status
    BY <1>4 DEF AdoptSubmitted
  <2>5. CASE status' = [status EXCEPT ![e.job] = "submitted"] /\ status[e.job] = "submitting"
    <3>1. status'[j] = IF j = e.job /\ status[j] = "submitting" THEN "submitted" ELSE status[j]
      BY <1>t, <2>5
    <3> QED BY <2>0, <2>2, <2>3, <3>1 DEF Cause
  <2> QED BY <1>1, <2>4, <2>5
<1>fin. ASSUME Finish(i, w) PROVE exec'[i][w].pc = "release"
  <2>1. exec'[i][w] = [Idle EXCEPT !.pc = "release"]
    BY <1>0, <1>fin, BecomeType, JumpTypes, ZenonT(80) DEF Finish
  <2> QED BY <2>1 DEF Idle
<1>5. CASE RequeueOrFail(i, w)
  <2>00. e.pc = "fail" /\ Finish(i, w)
    BY <1>5 DEF RequeueOrFail, At
  <2>0. e.pc = "fail" /\ exec'[i][w].pc = "release" /\ e.job \in JobIds
    BY <1>0, <1>fin, <2>00
  <2>1. CASE MarkFailed(e.job)
    <3>1. status'[j] = IF j = e.job /\ status[e.job] \in Failable THEN "failed" ELSE status[j]
      BY <1>ty, <2>1, MarkFailedType
    <3>2. status[e.job] \in {"building", "failed"} \/ Excused(e.job)
      BY <2>0 DEF OutcomeInv, ClaimedIsUnsent, Claimed
    <3> QED BY <1>t, <2>0, <3>1, <3>2 DEF Cause, Claimed
  <2>2. CASE status' = [status EXCEPT ![e.job] = "pending"]
    <3>1. status'[j] = IF j = e.job THEN "pending" ELSE status[j]
      BY <1>t, <2>2
    <3> QED BY <2>0, <3>1 DEF Cause, Claimed
  <2>3. UNCHANGED status \/ MarkFailed(e.job) \/ status' = [status EXCEPT ![e.job] = "pending"]
    BY <1>5 DEF RequeueOrFail
  <2> QED BY <1>1, <2>1, <2>2, <2>3
<1>6. CASE FailReconciled(i, w)
  <2>1. e.pc = "rfail" /\ (MarkFailed(e.job) \/ UNCHANGED status)
    BY <1>6 DEF FailReconciled, At
  <2>2. txHash[e.job] \in invalid \/ Excused(e.job)
    BY <1>0, <2>1 DEF OutcomeInv, VerdictsTrue, Typed, ExecTx, Settling
  <2>3. CASE MarkFailed(e.job)
    <3>1. status'[j] = IF j = e.job /\ status[e.job] \in Failable THEN "failed" ELSE status[j]
      BY <1>ty, <2>3, MarkFailedType
    <3> QED BY <2>2, <3>1 DEF Cause
  <2> QED BY <1>1, <2>1, <2>3
<1>7. CASE Prepare(i, w) \/ BuildAndSign(i, w) \/ FenceBeforeSubmit(i, w)
           \/ SubmitStoredTransaction(i, w) \/ RecordSubmission(i, w) \/ RereadRow(i, w)
           \/ FinallyRelease(i, w) \/ Resubmit(i, w) \/ LookUpStoredTransaction(i, w)
  BY <1>1, <1>7 DEF Prepare, BuildAndSign, FenceBeforeSubmit, SubmitStoredTransaction,
     RecordSubmission, RereadRow, FinallyRelease, Resubmit, LookUpStoredTransaction
<1> QED BY <1>2, <1>3, <1>4, <1>5, <1>6, <1>7 DEF Execute

\* So does every step.
LEMMA CauseStep ==
  ASSUME Typed, OutcomeInv, Next, NEW j \in JobIds
  PROVE  Cause(j)
<1>t. /\ status \in [JobIds -> Statuses] /\ txHash \in [JobIds -> Txs \cup {NoTx}]
      /\ \A k \in JobIds : status[k] = "building" => txHash[k] = NoTx
  BY DEF Typed, TypeOK, RowTx
<1>1. CASE UNCHANGED status
  BY <1>1 DEF Cause
<1>2. CASE Client
  <2>1. ASSUME NEW r \in Requests, NEW k \in JobIds, SubmitWalletJob(r, k) PROVE Cause(j)
    <3>1. status'[j] = status[j] \/ (status[j] = "absent" /\ status'[j] = "pending")
      BY <1>t, <2>1 DEF SubmitWalletJob
    <3> QED BY <3>1 DEF Cause
  <2>2. ASSUME NEW k \in JobIds, CancelJob(k) PROVE Cause(j)
    <3>1. status'[j] = status[j] \/ status'[j] = "cancelled"
      BY <1>t, <2>2 DEF CancelJob
    <3> QED BY <3>1 DEF Cause
  <2> QED BY <1>2, <2>1, <2>2 DEF Client
<1>3. CASE Clock \/ Chain
  BY <1>1, <1>3 DEF Clock, Chain, Beat, LeaseExpires, NotBeforePasses, ConfirmationTimeout,
     TxIncluded, TxEvicted, TxInvalidated
<1>4. ASSUME NEW S \in SUBSET JobIds, FailRows(S), \A k \in S : status[k] = "building" PROVE Cause(j)
  <2>1. status'[j] = IF j \in S THEN "failed" ELSE status[j]
    BY <1>4, FailRowsType DEF Typed
  <2> QED BY <1>t, <1>4, <2>1 DEF Cause
<1>5. ASSUME NEW i \in Instances, Tick(i) PROVE Cause(j)
  <2>1. ASSUME NEW w \in Wallets, TickDispatch(i, w) PROVE Cause(j)
    <3>1. OrphanedBuilding(w) \in SUBSET JobIds /\ \A k \in OrphanedBuilding(w) : status[k] = "building"
      BY OrphansType
    <3>2. CASE FailRows(OrphanedBuilding(w))
      BY <1>4, <3>1, <3>2
    <3> QED BY <1>1, <2>1, <3>2 DEF TickDispatch
  <2>2. ASSUME NEW w \in Wallets, TickReconcile(i, w) PROVE UNCHANGED status
    BY <2>2 DEF TickReconcile
  <2>3. CASE TickReadDue(i) \/ TickFails(i)
    BY <1>1, <2>3 DEF TickReadDue, TickFails
  <2> QED BY <1>1, <1>5, <2>1, <2>2, <2>3 DEF Tick
<1>6. ASSUME NEW i \in Instances, Finalize(i) PROVE Cause(j)
  <2> PICK t \in Txs : FinalizeConfirmed(i, t) \/ FinalizeDropped(i, t)
    BY <1>6 DEF Finalize
  <2> PICK k \in JobIds : k = t[1]
    BY DEF Txs
  <2>0. txHash[k] = t
    BY DEF FinalizeConfirmed, FinalizeDropped, Typed, SeenTx
  <2>1. CASE FinalizeConfirmed(i, t)
    <3>1. /\ t \in ledger
          /\ \/ UNCHANGED status
             \/ /\ status' = [status EXCEPT ![k] = "confirmed"]
                /\ recordedConfirmed' = recordedConfirmed \cup ({t} \cap recorded)
      BY <2>1 DEF FinalizeConfirmed
    <3> QED BY <1>t, <1>1, <2>0, <3>1 DEF Cause
  <2>2. CASE FinalizeDropped(i, t)
    <3>1. MarkFailed(k) /\ t \notin ledger /\ timedOut[k]
      BY <2>2 DEF FinalizeDropped
    <3>2. status'[j] = IF j = k /\ status[k] \in Failable THEN "failed" ELSE status[j]
      BY <3>1, MarkFailedType DEF Typed
    <3>3. Excused(k)
      BY <3>1 DEF Excused
    <3> QED BY <3>2, <3>3 DEF Cause
  <2> QED BY <2>1, <2>2
<1>7. ASSUME NEW i \in Instances, LifeCycle(i) PROVE Cause(j)
  <2>1. CASE Start(i)
    <3> DEFINE S == UNION {OrphanedBuilding(w) : w \in Wallets}
    <3>1. S \in SUBSET JobIds /\ (\A k \in S : status[k] = "building") /\ FailRows(S)
      BY <2>1, OrphansType DEF Start
    <3> HIDE DEF S
    <3> QED BY <1>4, <3>1
  <2>2. CASE StopBegin(i) \/ StopComplete(i) \/ Crash(i)
    BY <1>1, <2>2 DEF StopBegin, StopComplete, Crash
  <2> QED BY <1>7, <2>1, <2>2 DEF LifeCycle
<1> QED BY <1>2, <1>3, <1>5, <1>6, <1>7, CauseExecute DEF Next

\* The counters and events of a step that confirms or fails a row, or does neither.
Tally ==
  /\ \A w \in Wallets :
       /\ \/ /\ jobsConfirmed'[w] = jobsConfirmed[w]
             /\ \A j \in JobIds : status'[j] = "confirmed" /\ status[j] # "confirmed" => WalletOf(j) # w
          \/ \E j \in JobIds :
               /\ status[j] = "submitted" /\ status'[j] = "confirmed" /\ WalletOf(j) = w
               /\ jobsConfirmed'[w] = jobsConfirmed[w] + 1
               /\ \A k \in JobIds \ {j} : status'[k] = status[k]
       /\ \/ jobsFailed'[w] = jobsFailed[w]
          \/ /\ jobsFailed'[w] = jobsFailed[w] + 1
             /\ \E j \in JobIds : status[j] \in Failable /\ status'[j] = "failed" /\ WalletOf(j) = w
  /\ \A j \in JobIds :
       \/ events'[j] = events[j]
       \/ /\ status[j] = "submitted" /\ status'[j] = "confirmed"
          /\ events'[j].confirmed = events[j].confirmed + 1 /\ events'[j].failed = events[j].failed
       \/ /\ status[j] \in Failable /\ status'[j] = "failed"
          /\ events'[j].failed = events[j].failed + 1 /\ events'[j].confirmed = events[j].confirmed

\* A step that confirms nothing, counts nothing and tells nothing.
LEMMA TallyQuiet ==
  ASSUME UNCHANGED <<jobsConfirmed, jobsFailed, events>>,
         \A j \in JobIds : status'[j] = "confirmed" => status[j] = "confirmed"
  PROVE  Tally
BY DEF Tally

\* markFailed counts the failure of the row it fails, and confirms nothing.
LEMMA TallyFailed ==
  ASSUME TypeOK, NEW j \in JobIds, MarkFailed(j)
  PROVE  /\ \A w \in Wallets :
              \/ jobsFailed'[w] = jobsFailed[w]
              \/ /\ jobsFailed'[w] = jobsFailed[w] + 1
                 /\ status[j] \in Failable /\ status'[j] = "failed" /\ WalletOf(j) = w
         /\ \A k \in JobIds : status'[k] = "confirmed" => status[k] = "confirmed"
<1>1. \A k \in JobIds : status'[k] = IF k = j /\ status[j] \in Failable THEN "failed" ELSE status[k]
  BY MarkFailedType
<1>2. CASE status[j] \in Failable
  <2>1. jobsFailed' = [jobsFailed EXCEPT ![WalletOf(j)] = @ + 1]
    BY <1>2 DEF MarkFailed
  <2>2. jobsFailed \in [Wallets -> Nat]
    BY DEF TypeOK
  <2> QED BY <1>1, <1>2, <2>1, <2>2
<1>3. CASE status[j] \notin Failable
  BY <1>1, <1>3 DEF MarkFailed
<1> QED BY <1>2, <1>3

\* Every step keeps the tally.
LEMMA TallyStep == ASSUME Typed, Next PROVE Tally
<1>t. status \in [JobIds -> Statuses] /\ TypeOK
  BY DEF Typed, TypeOK
<1>1. CASE UNCHANGED <<status, jobsConfirmed, jobsFailed, events>>
  BY <1>1, TallyQuiet
<1>2. CASE Client
  <2>1. UNCHANGED <<jobsConfirmed, jobsFailed, events>>
    BY <1>2 DEF Client, SubmitWalletJob, CancelJob
  <2>2. \A j \in JobIds : status'[j] = "confirmed" => status[j] = "confirmed"
    BY <1>t, <1>2 DEF Client, SubmitWalletJob, CancelJob
  <2> QED BY <2>1, <2>2, TallyQuiet
<1>3. CASE Clock \/ Chain
  BY <1>1, <1>3 DEF Clock, Chain, Beat, LeaseExpires, NotBeforePasses, ConfirmationTimeout,
     TxIncluded, TxEvicted, TxInvalidated
<1>4. ASSUME NEW S \in SUBSET JobIds, FailRows(S), UNCHANGED <<jobsConfirmed, jobsFailed, events>>
      PROVE  Tally
  <2>1. \A j \in JobIds : status'[j] = IF j \in S THEN "failed" ELSE status[j]
    BY <1>4, <1>t, FailRowsType
  <2> QED BY <1>4, <2>1, TallyQuiet
<1>5. ASSUME NEW i \in Instances, Tick(i) PROVE Tally
  <2>0. UNCHANGED <<jobsConfirmed, jobsFailed, events>>
    BY <1>5 DEF Tick, TickReconcile, TickReadDue, TickDispatch, TickFails
  <2>1. ASSUME NEW w \in Wallets, TickDispatch(i, w) PROVE Tally
    <3>1. OrphanedBuilding(w) \in SUBSET JobIds
      BY OrphansType
    <3> QED BY <1>1, <1>4, <2>0, <2>1, <3>1 DEF TickDispatch
  <2>2. ASSUME NEW w \in Wallets, TickReconcile(i, w) PROVE UNCHANGED status
    BY <2>2 DEF TickReconcile
  <2>3. CASE TickReadDue(i) \/ TickFails(i)
    BY <1>1, <2>0, <2>3 DEF TickReadDue, TickFails
  <2> QED BY <1>1, <1>5, <2>0, <2>1, <2>2, <2>3 DEF Tick
<1>6. ASSUME NEW i \in Instances, Finalize(i) PROVE Tally
  <2> PICK t \in Txs : FinalizeConfirmed(i, t) \/ FinalizeDropped(i, t)
    BY <1>6 DEF Finalize
  <2> PICK k \in JobIds : k = t[1]
    BY DEF Txs
  <2>e. events \in EventCounts
    BY DEF Typed, TypeOK, EventCounts
  <2>1. CASE FinalizeConfirmed(i, t)
    <3>1. CASE UNCHANGED <<status, jobsConfirmed, events>>
      BY <1>1, <2>1, <3>1 DEF FinalizeConfirmed
    <3>2. CASE /\ status[k] = "submitted" /\ status' = [status EXCEPT ![k] = "confirmed"]
               /\ jobsConfirmed' = [jobsConfirmed EXCEPT ![WalletOf(k)] = @ + 1]
               /\ events' = [events EXCEPT ![k].confirmed = @ + 1]
      <4>1. \A j \in JobIds : status'[j] = IF j = k THEN "confirmed" ELSE status[j]
        BY <1>t, <3>2
      <4>2. jobsConfirmed \in [Wallets -> Nat] /\ UNCHANGED jobsFailed
        BY <2>1 DEF FinalizeConfirmed, Typed, TypeOK
      <4>3. \A w \in Wallets : jobsConfirmed'[w] = IF w = WalletOf(k) THEN jobsConfirmed[w] + 1 ELSE jobsConfirmed[w]
        BY <3>2, <4>2
      <4>4. \A j \in JobIds : j # k => events'[j] = events[j]
        BY <2>e, <3>2 DEF EventCounts
      <4>5. events'[k].confirmed = events[k].confirmed + 1 /\ events'[k].failed = events[k].failed
        BY <2>e, <3>2 DEF EventCounts
      <4> QED BY <3>2, <4>1, <4>2, <4>3, <4>4, <4>5 DEF Tally
    <3> QED BY <2>1, <3>1, <3>2 DEF FinalizeConfirmed, Confirmable
  <2>2. CASE FinalizeDropped(i, t)
    <3>1. /\ MarkFailed(k) /\ UNCHANGED jobsConfirmed
          /\ events' = IF status[k] \in Failable THEN [events EXCEPT ![k].failed = @ + 1] ELSE events
      BY <2>2 DEF FinalizeDropped
    <3>2. \A j \in JobIds : status'[j] = IF j = k /\ status[k] \in Failable THEN "failed" ELSE status[j]
      BY <1>t, <3>1, MarkFailedType
    <3>3. \A j \in JobIds : \/ events'[j] = events[j]
                            \/ /\ j = k /\ status[j] \in Failable
                               /\ events'[j].failed = events[j].failed + 1
                               /\ events'[j].confirmed = events[j].confirmed
      BY <2>e, <3>1 DEF EventCounts
    <3>4. /\ \A w \in Wallets :
              \/ jobsFailed'[w] = jobsFailed[w]
              \/ /\ jobsFailed'[w] = jobsFailed[w] + 1
                 /\ status[k] \in Failable /\ status'[k] = "failed" /\ WalletOf(k) = w
          /\ \A j \in JobIds : status'[j] = "confirmed" => status[j] = "confirmed"
      BY <1>t, <3>1, TallyFailed
    <3> QED BY <3>1, <3>2, <3>3, <3>4 DEF Tally
  <2> QED BY <2>1, <2>2
<1>7. ASSUME NEW i \in Instances, LifeCycle(i) PROVE Tally
  <2>0. UNCHANGED <<jobsConfirmed, jobsFailed, events>>
    BY <1>7 DEF LifeCycle, Start, StopBegin, StopComplete, Crash
  <2>1. CASE Start(i)
    <3> DEFINE S == UNION {OrphanedBuilding(w) : w \in Wallets}
    <3>1. S \in SUBSET JobIds /\ FailRows(S)
      BY <2>1, OrphansType DEF Start
    <3> HIDE DEF S
    <3> QED BY <1>4, <2>0, <3>1
  <2>2. CASE StopBegin(i) \/ StopComplete(i) \/ Crash(i)
    BY <1>1, <2>0, <2>2 DEF StopBegin, StopComplete, Crash
  <2> QED BY <1>7, <2>1, <2>2 DEF LifeCycle
<1>8. ASSUME NEW i \in Instances, NEW w \in Wallets, Execute(i, w) PROVE Tally
  <2>0. UNCHANGED <<jobsConfirmed, events>>
    BY <1>8 DEF Execute, Claim, Prepare, BuildAndSign, FenceBeforeSubmit, MarkSubmitting,
       SubmitStoredTransaction, RecordSubmission, AdoptSubmitted, RereadRow, RequeueOrFail,
       FinallyRelease, Resubmit, LookUpStoredTransaction, FailReconciled
  <2>1. CASE RequeueOrFail(i, w) \/ FailReconciled(i, w)
    <3>1. exec[i][w].job \in JobIds
      BY <2>1 DEF RequeueOrFail, FailReconciled, At, Typed, ExecOnOwnJob, RowOf
    <3>2. CASE MarkFailed(exec[i][w].job)
      BY <1>t, <2>0, <3>1, <3>2, TallyFailed DEF Tally
    <3>3. CASE status' = [status EXCEPT ![exec[i][w].job] = "pending"] /\ UNCHANGED jobsFailed
      BY <1>t, <2>0, <3>3, TallyQuiet
    <3> QED BY <1>1, <2>0, <2>1, <3>2, <3>3 DEF RequeueOrFail, FailReconciled
  <2>2. CASE Claim(i, w) \/ MarkSubmitting(i, w) \/ AdoptSubmitted(i, w)
    <3>1. UNCHANGED jobsFailed
      BY <2>2 DEF Claim, MarkSubmitting, AdoptSubmitted
    <3>2. \A j \in JobIds : status'[j] = "confirmed" => status[j] = "confirmed"
      BY <1>t, <2>2 DEF Claim, MarkSubmitting, AdoptSubmitted
    <3> QED BY <2>0, <3>1, <3>2, TallyQuiet
  <2>3. CASE Prepare(i, w) \/ BuildAndSign(i, w) \/ FenceBeforeSubmit(i, w)
             \/ SubmitStoredTransaction(i, w) \/ RecordSubmission(i, w) \/ RereadRow(i, w)
             \/ FinallyRelease(i, w) \/ Resubmit(i, w) \/ LookUpStoredTransaction(i, w)
    BY <1>1, <2>0, <2>3 DEF Prepare, BuildAndSign, FenceBeforeSubmit, SubmitStoredTransaction,
       RecordSubmission, RereadRow, FinallyRelease, Resubmit, LookUpStoredTransaction
  <2> QED BY <1>8, <2>1, <2>2, <2>3 DEF Execute
<1> QED BY <1>2, <1>3, <1>5, <1>6, <1>7, <1>8 DEF Next

-----------------------------------------------------------------------------
(* The parts of OutcomeInv are kept.                                       *)

\* A network takes valid transactions only, and loses one that becomes invalid.
LEMMA InvalidStaysOutStep == ASSUME Typed, OutcomeInv, Next PROVE InvalidStaysOut'
<1>0. InvalidStaysOut
  BY DEF OutcomeInv
<1>1. CASE UNCHANGED <<mempool, ledger, invalid>>
  BY <1>0, <1>1 DEF InvalidStaysOut
<1>2. CASE Chain
  BY <1>0, <1>2 DEF Chain, TxIncluded, TxEvicted, TxInvalidated, InvalidStaysOut
<1>3. ASSUME NEW i \in Instances, NEW w \in Wallets, SubmitStoredTransaction(i, w) \/ Resubmit(i, w)
      PROVE  InvalidStaysOut'
  <2>1. UNCHANGED <<ledger, invalid>>
    BY <1>3 DEF SubmitStoredTransaction, Resubmit
  <2>2. \/ mempool' = mempool
        \/ exec[i][w].tx \notin invalid /\ mempool' = mempool \cup {exec[i][w].tx}
    BY <1>3 DEF SubmitStoredTransaction, Resubmit, Accepted, Rejected, Unanswered
  <2> QED BY <1>0, <2>1, <2>2 DEF InvalidStaysOut
<1>4. ASSUME NEW i \in Instances, NEW w \in Wallets, Execute(i, w) PROVE InvalidStaysOut'
  <2>1. CASE Claim(i, w) \/ Prepare(i, w) \/ BuildAndSign(i, w) \/ FenceBeforeSubmit(i, w)
             \/ MarkSubmitting(i, w) \/ RecordSubmission(i, w) \/ AdoptSubmitted(i, w)
             \/ RereadRow(i, w) \/ RequeueOrFail(i, w) \/ FinallyRelease(i, w)
             \/ LookUpStoredTransaction(i, w) \/ FailReconciled(i, w)
    BY <1>1, <2>1 DEF Claim, Prepare, BuildAndSign, FenceBeforeSubmit, MarkSubmitting,
       RecordSubmission, AdoptSubmitted, RereadRow, RequeueOrFail, FinallyRelease,
       LookUpStoredTransaction, FailReconciled
  <2> QED BY <1>3, <1>4, <2>1 DEF Execute
<1>5. CASE Client \/ Clock
  BY <1>1, <1>5 DEF Client, SubmitWalletJob, CancelJob, Clock, Beat, LeaseExpires,
     NotBeforePasses, ConfirmationTimeout
<1>6. ASSUME NEW i \in Instances, Tick(i) \/ LifeCycle(i) \/ Finalize(i) PROVE InvalidStaysOut'
  BY <1>1, <1>6 DEF Tick, TickReconcile, TickReadDue, TickDispatch, TickFails, LifeCycle, Start,
     StopBegin, StopComplete, Crash, Finalize, FinalizeConfirmed, FinalizeDropped
<1> QED BY <1>2, <1>4, <1>5, <1>6 DEF Next

\* What a reconciliation concludes follows from the chain's answers and the timeout,
\* or from a markSubmitted that threw.
LEMMA VerdictsStep == ASSUME Typed, OutcomeInv, Next PROVE VerdictsTrue'
<1> SUFFICES ASSUME NEW i \in Instances, NEW w \in Wallets
             PROVE  /\ exec'[i][w].pc = "rlookup" /\ exec'[i][w].err = "permanent" =>
                         exec'[i][w].tx \in invalid' \cup ledger' \/ StillExcused(exec'[i][w].job)
                    /\ exec'[i][w].pc = "rfail" =>
                         exec'[i][w].tx \in invalid' \/ StillExcused(exec'[i][w].job)
  BY DEF VerdictsTrue, Excused, StillExcused
<1> DEFINE e == exec[i][w]
           f == exec'[i][w]
<1>1. VerdictsTrue /\ TypeOK
  BY DEF OutcomeInv, Typed
<1>j. e.pc \in Settling => e.job \in JobIds /\ e.tx = txHash[e.job]
  BY DEF Typed, ExecOnOwnJob, RowOf, ExecTx, Settling
<1>2. CASE f = e
  <2>1. e.pc \in {"rlookup", "rfail"} => (Excused(e.job) => StillExcused(e.job))
    BY <1>1, <1>j, ExcuseStays DEF Settling
  <2> QED BY <1>1, <1>2, <2>1, RecordsGrow DEF VerdictsTrue
<1>3. CASE Arrival(i, w)
  <2>1. ASSUME f.pc = "rlookup", f.err = "permanent" PROVE f.tx \in invalid' \cup ledger' \/ StillExcused(f.job)
    <3>1. f.tx = e.tx /\ f.job = e.job /\ (Rejected(e.tx) \/ <<e.job, "adopt">> \in unbooked')
      BY <1>3, <2>1 DEF Arrival
    <3> QED BY <3>1, RecordsGrow DEF Rejected, StillExcused
  <2>2. ASSUME f.pc = "rfail" PROVE f.tx \in invalid' \/ StillExcused(f.job)
    <3>1. e.pc = "rlookup" /\ f.tx = e.tx /\ f.job = e.job /\ GiveUp(i, w) /\ e.tx \notin ledger
      BY <1>3, <2>2 DEF Arrival
    <3>2. e.tx \in invalid \/ Excused(e.job)
      BY <1>1, <3>1 DEF GiveUp, VerdictsTrue, Excused
    <3>3. Excused(e.job) => StillExcused(e.job)
      BY <1>1, <1>j, <3>1, ExcuseStays DEF Settling
    <3> QED BY <3>1, <3>2, <3>3, RecordsGrow
  <2> QED BY <2>1, <2>2
<1> QED BY <1>2, <1>3, ArrivalStep

\* Nobody else sends or requeues the row of an execution that has claimed it.
LEMMA ClaimedStep == ASSUME Typed, LeaseInv, OutcomeInv, Next PROVE ClaimedIsUnsent'
<1> SUFFICES ASSUME NEW i \in Instances, NEW w \in Wallets, exec'[i][w].pc \in Claimed
             PROVE  \/ status'[exec'[i][w].job] \in {"building", "failed"}
                    \/ StillExcused(exec'[i][w].job)
  BY DEF ClaimedIsUnsent, Excused, StillExcused
<1> DEFINE j == exec[i][w].job
<1>1. /\ exec'[i][w].job = j /\ exec[i][w].pc \notin {"idle", "release"}
      /\ \/ exec[i][w].pc \in Claimed
         \/ status'[j] = "building" \/ <<j, "adopt">> \in unbooked'
  <2>1. CASE exec'[i][w] = exec[i][w]
    BY <2>1 DEF Claimed
  <2>2. CASE Arrival(i, w)
    BY <2>2 DEF Arrival, Claimed
  <2> QED BY <2>1, <2>2, ArrivalStep
<1>2. j \in JobIds
  BY <1>1 DEF Typed, ExecOnOwnJob, RowOf
<1>3. RowMove(j) /\ Cause(j)
  BY <1>2, RowStep, CauseStep DEF Typed
<1>4. ASSUME status[j] = "building", status'[j] \in {"pending", "submitting"}, exec[i][w].pc \in Claimed
      PROVE  FALSE
  <2>1. PICK k \in Instances, v \in Wallets :
          exec[k][v].job = j /\ exec[k][v].pc \in {"fail", "store"} /\ exec'[k][v].pc \notin Claimed
    BY <1>3, <1>4 DEF Cause
  <2>2. v = w
    BY <1>1, <2>1, SameJobSameWallet
  <2>3. k = i
    BY <1>1, <1>4, <2>1, <2>2 DEF LeaseInv, ClaimedOnce, Claimed
  <2> QED BY <2>1, <2>2, <2>3
<1>5. CASE status'[j] = "building" \/ <<j, "adopt">> \in unbooked'
  BY <1>1, <1>5 DEF StillExcused
<1>6. CASE exec[i][w].pc \in Claimed
  <2>1. status[j] \in {"building", "failed"} \/ Excused(j)
    BY <1>6 DEF OutcomeInv, ClaimedIsUnsent
  <2>2. CASE Excused(j)
    <3>1. StillExcused(j)
      BY <1>2, <2>2, ExcuseStays DEF Typed
    <3> QED BY <1>1, <3>1
  <2>3. CASE status[j] \in {"building", "failed"}
    <3>1. status'[j] \in {"building", "failed"}
      <4> HIDE DEF j
      <4> QED BY <1>3, <1>4, <1>6, <2>3 DEF RowMove, QuietMove, StoreMove, Failable
    <3> QED BY <1>1, <3>1
  <2> QED BY <2>1, <2>2, <2>3
<1> QED BY <1>1, <1>5, <1>6

\* A row that fails stores nothing, or what can never be accepted, or is excused.
LEMMA FailedStep == ASSUME Typed, OutcomeInv, Next PROVE FailedIsInvalid'
<1> SUFFICES ASSUME NEW j \in JobIds, status'[j] = "failed"
             PROVE  txHash'[j] \in {NoTx} \cup invalid' \/ StillExcused(j)
  BY DEF FailedIsInvalid, Excused, StillExcused
<1>1. RowMove(j) /\ Cause(j)
  BY RowStep, CauseStep DEF Typed
<1>2. txHash[j] \in {NoTx} \cup invalid \/ Excused(j)
  BY <1>1 DEF Cause, OutcomeInv, FailedIsInvalid
<1>3. txHash'[j] = txHash[j]
  BY <1>1 DEF RowMove, StoreMove
<1>4. Excused(j) => StillExcused(j)
  BY ExcuseStays DEF Typed
<1> QED BY <1>2, <1>3, <1>4, RecordsGrow

\* A confirmed row stays on chain, and its submission row confirmed.
LEMMA ConfirmedStep == ASSUME Typed, OutcomeInv, Next PROVE ConfirmedIsTrue'
<1> SUFFICES ASSUME NEW j \in JobIds, status'[j] = "confirmed"
             PROVE  /\ txHash'[j] \in ledger'
                    /\ Recordable(j)' => txHash'[j] \in recordedConfirmed'
  BY DEF ConfirmedIsTrue
<1>1. RowMove(j) /\ Cause(j)
  BY RowStep, CauseStep DEF Typed
<1>2. txHash'[j] = txHash[j] /\ request'[j] = request[j]
  BY <1>1 DEF RowMove, StoreMove, QuietMove
<1>r. Recordable(j)' => Recordable(j)
  BY <1>2, RecordsGrow DEF Recordable
<1>3. CASE status[j] = "confirmed"
  BY <1>2, <1>3, <1>r, RecordsGrow DEF OutcomeInv, ConfirmedIsTrue
<1>4. CASE status[j] # "confirmed"
  <2>1. /\ txHash[j] \in ledger
        /\ recordedConfirmed' = recordedConfirmed \cup ({txHash[j]} \cap recorded)
    BY <1>1, <1>4 DEF Cause
  <2>2. status[j] = "submitted"
    BY <1>1, <1>4 DEF RowMove, StoreMove, QuietMove
  <2>3. Recordable(j) => txHash[j] \in recorded
    BY <2>2 DEF OutcomeInv, SubmittedIsRecorded
  <2> QED BY <1>2, <1>r, <2>1, <2>3, RecordsGrow
<1> QED BY <1>3, <1>4

\* The submission row is written before the job becomes submitted.
LEMMA RecordedStep == ASSUME Typed, OutcomeInv, Next PROVE SubmittedIsRecorded'
<1>0. SubmittedIsRecorded
  BY DEF OutcomeInv
<1>1. ASSUME NEW i \in Instances, NEW w \in Wallets, exec'[i][w].pc = "adopt",
             Recordable(exec[i][w].job)'
      PROVE  exec'[i][w].tx \in recorded'
  <2>1. exec'[i][w].job = exec[i][w].job /\ exec[i][w].pc \in {"book", "adopt"}
    BY <1>1, ArrivalStep DEF Arrival
  <2>2. exec[i][w].job \in JobIds /\ status[exec[i][w].job] # "absent"
    BY <2>1 DEF Typed, ExecOnOwnJob, RowOf
  <2>3. request'[exec[i][w].job] = request[exec[i][w].job]
    BY <2>2, RowStep DEF Typed, RowMove
  <2>4. /\ request[exec[i][w].job].kind = "build" /\ <<exec[i][w].job, "record">> \notin unbooked'
        /\ Recordable(exec[i][w].job)
    BY <1>1, <2>1, <2>3, RecordsGrow DEF Recordable
  <2>5. CASE exec'[i][w] = exec[i][w]
    BY <1>0, <1>1, <2>4, <2>5, RecordsGrow DEF SubmittedIsRecorded
  <2>6. CASE Arrival(i, w)
    BY <1>1, <2>4, <2>6 DEF Arrival
  <2> QED BY <2>5, <2>6, ArrivalStep
<1>2. ASSUME NEW j \in JobIds, status'[j] = "submitted", Recordable(j)'
      PROVE  txHash'[j] \in recorded'
  <2>1. RowMove(j) /\ Cause(j)
    BY RowStep, CauseStep DEF Typed
  <2>2. txHash'[j] = txHash[j] /\ request'[j] = request[j]
    BY <1>2, <2>1 DEF RowMove, StoreMove, QuietMove
  <2>3. Recordable(j)
    BY <1>2, <2>2, RecordsGrow DEF Recordable
  <2> QED BY <1>0, <1>2, <2>1, <2>2, <2>3, RecordsGrow DEF Cause, SubmittedIsRecorded
<1> QED BY <1>1, <1>2 DEF SubmittedIsRecorded

\* A live row keeps its claim; a row becomes live by a request that finds its claim free.
LEMMA KeyStep ==
  ASSUME Typed, OutcomeInv, Next, NEW j \in JobIds, Live(j)'
  PROVE  \/ Live(j) /\ dedupKey'[j] = dedupKey[j] /\ request'[j] = request[j]
         \/ \E r \in Requests : SubmitWalletJob(r, j)
<1>t. status \in [JobIds -> Statuses] /\ dedupKey \in [JobIds -> Claims \cup JobIds] /\ TypeOK
  BY DEF Typed, TypeOK
<1>m. RowMove(j)
  BY RowStep DEF Typed
<1>1. Live(j) => request'[j] = request[j]
  BY <1>m DEF RowMove, Live
<1>2. ~Live(j) => status[j] = "absent" /\ status'[j] = "pending"
  BY <1>m DEF RowMove, QuietMove, StoreMove, Live, Failable
<1>3. CASE UNCHANGED <<status, dedupKey>>
  BY <1>1, <1>3 DEF Live
<1>4. ASSUME NEW S \in SUBSET JobIds, FailRows(S)
      PROVE  Live(j) /\ dedupKey'[j] = dedupKey[j]
  <2>1. status'[j] = IF j \in S THEN "failed" ELSE status[j]
    BY <1>4, <1>t, FailRowsType
  <2>2. j \notin S
    BY <2>1 DEF Live
  <2>3. dedupKey'[j] = dedupKey[j]
    BY <1>4, <2>2 DEF FailRows
  <2> QED BY <2>1, <2>2, <2>3 DEF Live
<1>5. ASSUME NEW k \in JobIds, MarkFailed(k) PROVE Live(j) /\ dedupKey'[j] = dedupKey[j]
  <2>1. FailRows({k}) \/ UNCHANGED <<status, dedupKey>>
    BY <1>5 DEF MarkFailed
  <2> QED BY <1>4, <2>1 DEF Live
<1>6. CASE Client
  <2>1. ASSUME NEW r \in Requests, NEW k \in JobIds, SubmitWalletJob(r, k), k # j
        PROVE  Live(j) /\ dedupKey'[j] = dedupKey[j]
    <3>1. status'[j] = status[j]
      BY <1>t, <2>1 DEF SubmitWalletJob
    <3>2. Live(j)
      BY <3>1 DEF Live
    <3>3. \/ dedupKey'[j] = dedupKey[j]
          \/ r.idempotencyKey # NoClaim /\ j \in DedupHolders(r) /\ status[j] \in {"failed", "cancelled"}
      BY <1>t, <2>1 DEF SubmitWalletJob
    <3> QED BY <3>2, <3>3 DEF Live
  <2>2. ASSUME NEW k \in JobIds, CancelJob(k) PROVE Live(j) /\ dedupKey'[j] = dedupKey[j]
    <3>1. status'[j] = IF j = k THEN "cancelled" ELSE status[j]
      BY <1>t, <2>2 DEF CancelJob
    <3>2. dedupKey'[j] = IF j = k THEN j ELSE dedupKey[j]
      BY <1>t, <2>2 DEF CancelJob
    <3> QED BY <3>1, <3>2 DEF Live
  <2> QED BY <1>1, <1>6, <2>1, <2>2 DEF Client
<1>7. CASE Clock \/ Chain
  BY <1>3, <1>7 DEF Clock, Chain, Beat, LeaseExpires, NotBeforePasses, ConfirmationTimeout,
     TxIncluded, TxEvicted, TxInvalidated
<1>8. ASSUME NEW i \in Instances, Tick(i) PROVE Live(j) /\ dedupKey'[j] = dedupKey[j]
  <2>1. ASSUME NEW w \in Wallets, TickDispatch(i, w) PROVE Live(j) /\ dedupKey'[j] = dedupKey[j]
    <3>1. OrphanedBuilding(w) \in SUBSET JobIds
      BY OrphansType
    <3> QED BY <1>4, <2>1, <3>1 DEF TickDispatch, Live
  <2>2. ASSUME NEW w \in Wallets, TickReconcile(i, w) PROVE UNCHANGED <<status, dedupKey>>
    BY <2>2 DEF TickReconcile
  <2>3. CASE TickReadDue(i) \/ TickFails(i)
    BY <2>3 DEF TickReadDue, TickFails, Live
  <2> QED BY <1>8, <2>1, <2>2, <2>3 DEF Tick, Live
<1>9. ASSUME NEW i \in Instances, Finalize(i) PROVE Live(j) /\ dedupKey'[j] = dedupKey[j]
  <2> PICK t \in Txs : FinalizeConfirmed(i, t) \/ FinalizeDropped(i, t)
    BY <1>9 DEF Finalize
  <2> PICK k \in JobIds : k = t[1]
    BY DEF Txs
  <2>1. CASE FinalizeConfirmed(i, t)
    <3>1. UNCHANGED dedupKey
      BY <2>1 DEF FinalizeConfirmed
    <3>2. \/ UNCHANGED status
          \/ status[k] = "submitted" /\ status' = [status EXCEPT ![k] = "confirmed"]
      BY <2>1 DEF FinalizeConfirmed, Confirmable
    <3> QED BY <1>t, <3>1, <3>2 DEF Live
  <2>2. CASE FinalizeDropped(i, t)
    BY <1>5, <2>2 DEF FinalizeDropped
  <2> QED BY <2>1, <2>2
<1>10. ASSUME NEW i \in Instances, LifeCycle(i) PROVE Live(j) /\ dedupKey'[j] = dedupKey[j]
  <2>1. CASE Start(i)
    <3> DEFINE S == UNION {OrphanedBuilding(w) : w \in Wallets}
    <3>1. S \in SUBSET JobIds /\ FailRows(S)
      BY <2>1, OrphansType DEF Start
    <3> HIDE DEF S
    <3> QED BY <1>4, <3>1
  <2>2. CASE StopBegin(i) \/ StopComplete(i) \/ Crash(i)
    BY <2>2 DEF StopBegin, StopComplete, Crash, Live
  <2> QED BY <1>10, <2>1, <2>2 DEF LifeCycle
<1>11. ASSUME NEW i \in Instances, NEW w \in Wallets, Execute(i, w)
       PROVE  Live(j) /\ dedupKey'[j] = dedupKey[j]
  <2>1. CASE RequeueOrFail(i, w) \/ FailReconciled(i, w)
    <3>1. exec[i][w].job \in JobIds
      BY <2>1 DEF RequeueOrFail, FailReconciled, At, Typed, ExecOnOwnJob, RowOf
    <3>2. CASE MarkFailed(exec[i][w].job)
      BY <1>5, <3>1, <3>2
    <3>3. CASE /\ status[exec[i][w].job] \in Requeueable
               /\ status' = [status EXCEPT ![exec[i][w].job] = "pending"] /\ UNCHANGED dedupKey
      BY <1>t, <3>3 DEF Live, Requeueable
    <3>4. CASE UNCHANGED <<status, dedupKey>>
      BY <3>4 DEF Live
    <3> QED BY <2>1, <3>2, <3>3, <3>4 DEF RequeueOrFail, FailReconciled
  <2>2. CASE Claim(i, w) \/ MarkSubmitting(i, w) \/ AdoptSubmitted(i, w)
    <3>1. UNCHANGED dedupKey
      BY <2>2 DEF Claim, MarkSubmitting, AdoptSubmitted
    <3>2. status'[j] = status[j] \/ status[j] \in {"pending", "building", "submitting"}
      BY <1>t, <2>2 DEF Claim, MarkSubmitting, AdoptSubmitted, Storable
    <3> QED BY <3>1, <3>2 DEF Live
  <2>3. CASE Prepare(i, w) \/ BuildAndSign(i, w) \/ FenceBeforeSubmit(i, w)
             \/ SubmitStoredTransaction(i, w) \/ RecordSubmission(i, w) \/ RereadRow(i, w)
             \/ FinallyRelease(i, w) \/ Resubmit(i, w) \/ LookUpStoredTransaction(i, w)
    BY <2>3 DEF Prepare, BuildAndSign, FenceBeforeSubmit, SubmitStoredTransaction,
       RecordSubmission, RereadRow, FinallyRelease, Resubmit, LookUpStoredTransaction, Live
  <2> QED BY <1>11, <2>1, <2>2, <2>3 DEF Execute
<1> QED BY <1>1, <1>3, <1>6, <1>7, <1>8, <1>9, <1>10, <1>11 DEF Next

\* A row comes into being by a request, after all rows before it.
LEMMA OrderStep == ASSUME Typed, OutcomeInv, Next PROVE RowsInOrder'
<1> SUFFICES ASSUME NEW j \in JobIds, NEW k \in JobIds, k < j, status'[j] # "absent"
             PROVE  status'[k] # "absent"
  BY DEF RowsInOrder
<1>1. status[k] # "absent" => status'[k] # "absent"
  BY RowStep DEF Typed, RowMove, QuietMove, StoreMove
<1>2. CASE status[j] # "absent"
  BY <1>1, <1>2 DEF OutcomeInv, LiveOwnsKey, RowsInOrder
<1>3. CASE status[j] = "absent"
  <2>1. status'[j] = "pending"
    BY <1>3, RowStep DEF Typed, RowMove, QuietMove, StoreMove, Failable
  <2>2. PICK r \in Requests : SubmitWalletJob(r, j)
    BY <1>3, <2>1, KeyStep DEF Live
  <2>3. \A m \in 1..(j - 1) : status[m] # "absent"
    BY <2>2 DEF SubmitWalletJob
  <2>4. k \in 1..(j - 1)
    BY BoundAssumption DEF JobIds
  <2> QED BY <1>1, <2>3, <2>4
<1> QED BY <1>2, <1>3

\* No row is made under a claim that a live job owns.
LEMMA LiveOwnsKeyStep == ASSUME Typed, OutcomeInv, Next PROVE LiveOwnsKey'
<1>t. /\ status \in [JobIds -> Statuses] /\ request \in [JobIds -> Requests \cup {NoRequest}]
      /\ dedupKey \in [JobIds -> Claims \cup JobIds]
  BY DEF Typed, TypeOK
<1>i. LiveOwnsKey
  BY DEF OutcomeInv
<1>1. ASSUME NEW r \in Requests, NEW j \in JobIds, SubmitWalletJob(r, j)
      PROVE  request'[j] = r /\ (r.idempotencyKey # NoClaim => dedupKey'[j] = r.idempotencyKey)
  BY <1>t, <1>1 DEF SubmitWalletJob
<1>2. ASSUME NEW r \in Requests, NEW j \in JobIds, SubmitWalletJob(r, j),
             NEW k \in JobIds, Live(k), request'[k] = request[k]
      PROVE  ~SameClaim(k, j)'
  <2>1. SUFFICES ASSUME SameClaim(k, j)' PROVE FALSE
    OBVIOUS
  <2>2. /\ r.idempotencyKey # NoClaim /\ request[k].idempotencyKey = r.idempotencyKey
        /\ request[k].walletId = r.walletId /\ request[k].kind = r.kind
    BY <1>1, <1>2, <2>1 DEF SameClaim, WalletOf
  <2>3. dedupKey[k] = r.idempotencyKey
    BY <1>i, <1>2, <2>2 DEF LiveOwnsKey
  <2>4. k \in DedupHolders(r)
    BY <1>2, <2>2, <2>3 DEF DedupHolders, JobsOf, WalletOf, Live
  <2> QED BY <1>2, <2>2, <2>4 DEF SubmitWalletJob, Live
<1>3. ASSUME NEW j \in JobIds, Live(j)', request'[j].idempotencyKey # NoClaim
      PROVE  dedupKey'[j] = request'[j].idempotencyKey
  <2>1. CASE Live(j) /\ dedupKey'[j] = dedupKey[j] /\ request'[j] = request[j]
    BY <1>i, <1>3, <2>1 DEF LiveOwnsKey
  <2>2. ASSUME NEW r \in Requests, SubmitWalletJob(r, j) PROVE dedupKey'[j] = request'[j].idempotencyKey
    BY <1>1, <1>3, <2>2
  <2> QED BY <1>3, <2>1, <2>2, KeyStep
<1>4. ASSUME NEW j \in JobIds, NEW k \in JobIds, Live(j)', status'[k] # "absent", SameClaim(j, k)'
      PROVE  k <= j
  <2>k. RowMove(k)
    BY RowStep DEF Typed
  <2>1. CASE Live(j) /\ request'[j] = request[j]
    <3>1. CASE status[k] # "absent"
      <4>1. request'[k] = request[k]
        BY <2>k, <3>1 DEF RowMove
      <4> QED BY <1>i, <1>4, <2>1, <3>1, <4>1 DEF LiveOwnsKey, SameClaim, WalletOf
    <3>2. CASE status[k] = "absent"
      <4>1. Live(k)' /\ ~Live(k)
        BY <1>4, <2>k, <3>2 DEF RowMove, QuietMove, StoreMove, Failable, Live
      <4>2. PICK r \in Requests : SubmitWalletJob(r, k)
        BY <4>1, KeyStep
      <4> QED BY <1>2, <1>4, <2>1, <4>2
    <3> QED BY <3>1, <3>2
  <2>2. ASSUME NEW r \in Requests, SubmitWalletJob(r, j), j < k PROVE FALSE
    <3>1. status[j] = "absent" /\ status'[k] = status[k]
      BY <1>t, <2>2 DEF SubmitWalletJob, JobIds
    <3> QED BY <1>4, <1>i, <2>2, <3>1 DEF LiveOwnsKey, RowsInOrder
  <2> QED BY <1>4, <2>1, <2>2, KeyStep DEF JobIds
<1> QED BY <1>3, <1>4, OrderStep DEF LiveOwnsKey

\* The one event of a job is published by the step that settles it.
LEMMA EventsStep == ASSUME Typed, OutcomeInv, Next PROVE EventsTold'
<1> SUFFICES ASSUME NEW j \in JobIds
             PROVE  /\ events'[j].confirmed <= IF status'[j] = "confirmed" THEN 1 ELSE 0
                    /\ events'[j].failed <= IF status'[j] = "failed" THEN 1 ELSE 0
  BY DEF EventsTold
<1>t. events[j].confirmed \in Nat /\ events[j].failed \in Nat
  <2>1. events[j] \in [confirmed : Nat, failed : Nat]
    BY DEF Typed, TypeOK
  <2> QED BY <2>1
<1>1. /\ events[j].confirmed <= IF status[j] = "confirmed" THEN 1 ELSE 0
      /\ events[j].failed <= IF status[j] = "failed" THEN 1 ELSE 0
  BY DEF OutcomeInv, EventsTold
<1>2. status[j] \in {"confirmed", "failed"} => status'[j] = status[j]
  BY RowStep DEF Typed, RowMove, QuietMove, StoreMove, Failable
<1>3. \/ events'[j] = events[j]
      \/ /\ status[j] = "submitted" /\ status'[j] = "confirmed"
         /\ events'[j].confirmed = events[j].confirmed + 1 /\ events'[j].failed = events[j].failed
      \/ /\ status[j] \in Failable /\ status'[j] = "failed"
         /\ events'[j].failed = events[j].failed + 1 /\ events'[j].confirmed = events[j].confirmed
  BY TallyStep DEF Tally
<1> QED BY <1>t, <1>1, <1>2, <1>3 DEF Failable

\* A settled row of a wallet stays one.
LEMMA SettledStay ==
  ASSUME Typed, Next, NEW w \in Wallets, NEW s \in {"confirmed", "failed"}
  PROVE  /\ JobsIn(w, s) \subseteq JobsIn(w, s)' /\ JobsIn(w, s)' \subseteq JobIds
         /\ \A j \in JobIds : j \in JobsIn(w, s)' =>
              j \in JobsIn(w, s) \/ (status[j] # s /\ status'[j] = s /\ WalletOf(j) = w)
         /\ \A j \in JobIds : status[j] # "absent" /\ status'[j] = s /\ WalletOf(j) = w => j \in JobsIn(w, s)'
<1>1. \A j \in JobIds : RowMove(j)
  BY RowStep DEF Typed
<1>2. ASSUME NEW j \in JobIds PROVE /\ status[j] = s => status'[j] = s
                                    /\ status'[j] = s => status[j] # "absent"
                                    /\ status[j] # "absent" => WalletOf(j)' = WalletOf(j)
  BY <1>1 DEF RowMove, QuietMove, StoreMove, Failable, WalletOf
<1> QED BY <1>2 DEF JobsIn, JobsOf

\* A wallet's counters count its settled rows.
LEMMA CountsStep == ASSUME Typed, OutcomeInv, Next PROVE CountsKept'
<1> SUFFICES ASSUME NEW w \in Wallets
             PROVE  /\ jobsConfirmed'[w] = Cardinality(JobsIn(w, "confirmed")')
                    /\ jobsFailed'[w] <= Cardinality(JobsIn(w, "failed")')
  BY DEF CountsKept
<1>1. /\ jobsConfirmed[w] = Cardinality(JobsIn(w, "confirmed"))
      /\ jobsFailed[w] <= Cardinality(JobsIn(w, "failed"))
  BY DEF OutcomeInv, CountsKept
<1>f. \A S \in SUBSET JobIds : IsFiniteSet(S)
  <2>1. IsFiniteSet(JobIds)
    BY BoundAssumption, FS_Interval DEF JobIds
  <2> QED BY <2>1, FS_Subset
<1>2. jobsConfirmed'[w] = Cardinality(JobsIn(w, "confirmed")')
  <2> PICK A : A = JobsIn(w, "confirmed")
    OBVIOUS
  <2> PICK B : B = JobsIn(w, "confirmed")'
    OBVIOUS
  <2>0. A \subseteq B /\ B \subseteq JobIds /\ IsFiniteSet(A)
    BY <1>f, SettledStay DEF JobsIn, JobsOf
  <2>1. CASE /\ jobsConfirmed'[w] = jobsConfirmed[w]
             /\ \A j \in JobIds : status'[j] = "confirmed" /\ status[j] # "confirmed" => WalletOf(j) # w
    <3>1. B = A
      BY <2>0, <2>1, SettledStay
    <3> QED BY <1>1, <2>1, <3>1
  <2>2. ASSUME NEW j \in JobIds,
               status[j] = "submitted", status'[j] = "confirmed", WalletOf(j) = w,
               jobsConfirmed'[w] = jobsConfirmed[w] + 1,
               \A k \in JobIds \ {j} : status'[k] = status[k]
        PROVE  jobsConfirmed'[w] = Cardinality(B)
    <3>1. B = A \cup {j}
      <4>1. j \in B
        BY <2>2, SettledStay
      <4>2. \A k \in B : k \in A \/ k = j
        BY <2>0, <2>2, SettledStay
      <4> QED BY <2>0, <4>1, <4>2
    <3>2. j \notin A
      BY <2>2 DEF JobsIn
    <3>3. Cardinality(B) = Cardinality(A) + 1
      BY <2>0, <3>1, <3>2, FS_AddElement
    <3> QED BY <1>1, <2>2, <3>3
  <2> QED BY <2>1, <2>2, TallyStep DEF Tally
<1>3. jobsFailed'[w] <= Cardinality(JobsIn(w, "failed")')
  <2> PICK A : A = JobsIn(w, "failed")
    OBVIOUS
  <2> PICK B : B = JobsIn(w, "failed")'
    OBVIOUS
  <2>0. A \subseteq B /\ B \subseteq JobIds /\ IsFiniteSet(A) /\ IsFiniteSet(B)
    BY <1>f, SettledStay DEF JobsIn, JobsOf
  <2>c. /\ Cardinality(A) \in Nat /\ Cardinality(B) \in Nat
        /\ Cardinality(A) <= Cardinality(B)
        /\ A # B => Cardinality(A) < Cardinality(B)
    BY <2>0, FS_CardinalityType, FS_Subset
  <2>t. jobsFailed[w] \in Nat
    BY DEF Typed, TypeOK
  <2>1. CASE jobsFailed'[w] = jobsFailed[w]
    BY <1>1, <2>c, <2>t, <2>1
  <2>2. ASSUME jobsFailed'[w] = jobsFailed[w] + 1,
               NEW j \in JobIds, status[j] \in Failable, status'[j] = "failed", WalletOf(j) = w
        PROVE  jobsFailed'[w] <= Cardinality(B)
    <3>1. j \in B /\ j \notin A
      BY <2>2, SettledStay DEF JobsIn, Failable
    <3> QED BY <1>1, <2>c, <2>t, <2>2, <3>1
  <2> QED BY <2>1, <2>2, TallyStep DEF Tally
<1> QED BY <1>2, <1>3

-----------------------------------------------------------------------------
(* The theorems.                                                           *)

\* OutcomeInv, with Typed and LeaseInv, is inductive.
LEMMA OutcomeInductive ==
  /\ Init => OutcomeInv
  /\ Typed /\ LeaseInv /\ OutcomeInv /\ [Next]_vars => OutcomeInv'
<1>1. ASSUME Init PROVE OutcomeInv
  <2>1. /\ InvalidStaysOut /\ VerdictsTrue /\ ClaimedIsUnsent /\ FailedIsInvalid
        /\ LiveOwnsKey /\ SubmittedIsRecorded /\ ConfirmedIsTrue /\ EventsTold
    BY <1>1 DEF Init, Idle, InvalidStaysOut, VerdictsTrue, ClaimedIsUnsent, Claimed,
       FailedIsInvalid, Live, LiveOwnsKey, RowsInOrder, SubmittedIsRecorded, ConfirmedIsTrue, EventsTold
  <2>2. \A w \in Wallets, s \in {"confirmed", "failed"} : JobsIn(w, s) = {}
    BY <1>1 DEF Init, JobsIn, JobsOf
  <2>3. CountsKept
    <3>1. Cardinality({}) = 0
      BY FS_EmptySet
    <3>2. \A w \in Wallets : jobsConfirmed[w] = 0 /\ jobsFailed[w] = 0
      BY <1>1 DEF Init
    <3> QED BY <2>2, <3>1, <3>2 DEF CountsKept
  <2> QED BY <2>1, <2>3 DEF OutcomeInv
<1>2. ASSUME Typed, LeaseInv, OutcomeInv, Next PROVE OutcomeInv'
  BY <1>2, InvalidStaysOutStep, VerdictsStep, ClaimedStep, FailedStep, ConfirmedStep,
     RecordedStep, LiveOwnsKeyStep, EventsStep, CountsStep DEF OutcomeInv
<1>3. ASSUME OutcomeInv, UNCHANGED vars PROVE OutcomeInv'
  <2>1. UNCHANGED <<request, status, dedupKey, timedOut, txHash, exec, mempool, ledger, invalid,
                    recorded, recordedConfirmed, unbooked, events, jobsConfirmed, jobsFailed>>
    BY <1>3 DEF vars
  <2>2. \A w \in Wallets, s \in {"confirmed", "failed"} : JobsIn(w, s)' = JobsIn(w, s)
    BY <2>1 DEF JobsIn, JobsOf, WalletOf
  <2>3. CountsKept => CountsKept'
    BY <2>1, <2>2 DEF CountsKept
  <2>4. LiveOwnsKey => LiveOwnsKey'
    BY <2>1 DEF LiveOwnsKey, RowsInOrder, Live, SameClaim, WalletOf
  <2>5. /\ InvalidStaysOut => InvalidStaysOut'
        /\ VerdictsTrue => VerdictsTrue'
        /\ ClaimedIsUnsent => ClaimedIsUnsent'
        /\ FailedIsInvalid => FailedIsInvalid'
        /\ SubmittedIsRecorded => SubmittedIsRecorded'
        /\ ConfirmedIsTrue => ConfirmedIsTrue'
        /\ EventsTold => EventsTold'
    BY <2>1 DEF InvalidStaysOut, VerdictsTrue, ClaimedIsUnsent, FailedIsInvalid, Excused,
       Recordable, SubmittedIsRecorded, ConfirmedIsTrue, EventsTold
  <2> QED BY <1>3, <2>3, <2>4, <2>5 DEF OutcomeInv
<1> QED BY <1>1, <1>2, <1>3

\* A failed job's transaction is not on chain and can not get there, unless the job was
\* given up past its confirmation timeout, or after an accepted submit whose
\* markSubmitted threw: what a reconciliation gives up otherwise is invalid, and every
\* other row that fails has stored nothing.
THEOREM FailedIsFinal == Spec => []FailedNeverPays
<1>1. ASSUME Typed, OutcomeInv PROVE FailedNeverPays
  <2> SUFFICES ASSUME NEW j \in JobIds, status[j] = "failed", txHash[j] \in mempool \cup ledger
               PROVE  GivenUpUnanswered(j)
    BY DEF FailedNeverPays
  <2>1. (txHash[j] \in {NoTx} \cup invalid \/ Excused(j)) /\ InvalidStaysOut
    BY <1>1 DEF OutcomeInv, FailedIsInvalid
  <2>2. NoTx \notin mempool \cup ledger
    BY <1>1, Nulls DEF Typed, TypeOK
  <2> QED BY <2>1, <2>2 DEF InvalidStaysOut, GivenUpUnanswered, Excused
<1> QED BY <1>1, TypedInductive, LeaseInductive, OutcomeInductive, PTL DEF Spec

\* A caller that retries with its key pays once, unless the earlier job was given up
\* unanswered: otherwise two transactions on chain under one claim would be stored by
\* two live rows that own it.
THEOREM PaysOnce == Spec => []KeyPaysOnce
<1>1. ASSUME Typed, OutcomeInv PROVE KeyPaysOnce
  <2> SUFFICES ASSUME NEW t \in ledger, NEW u \in ledger, t # u, SameClaim(t[1], u[1])
               PROVE  \/ t[1] < u[1] /\ GivenUpUnanswered(t[1])
                      \/ u[1] < t[1] /\ GivenUpUnanswered(u[1])
    BY DEF KeyPaysOnce
  <2>1. ASSUME NEW x \in ledger
        PROVE  /\ x[1] \in JobIds /\ txHash[x[1]] = x /\ status[x[1]] # "absent"
               /\ Live(x[1]) \/ GivenUpUnanswered(x[1])
    <3>1. x \in Txs /\ x[1] \in JobIds
      BY <1>1 DEF Typed, TypeOK, Txs
    <3>2. txHash[x[1]] = x /\ x # NoTx /\ x \notin invalid
      BY <1>1, <3>1, Nulls DEF Typed, SeenTx, OutcomeInv, InvalidStaysOut
    <3>3. status[x[1]] \notin {"absent", "cancelled"}
      BY <1>1, <3>1, <3>2 DEF Typed, RowTx
    <3>4. status[x[1]] = "failed" => Excused(x[1])
      BY <1>1, <3>1, <3>2 DEF OutcomeInv, FailedIsInvalid
    <3> QED BY <3>1, <3>2, <3>3, <3>4 DEF Live, GivenUpUnanswered, Excused
  <2>2. /\ Live(t[1]) => u[1] <= t[1]
        /\ Live(u[1]) => t[1] <= u[1]
    <3>1. SameClaim(u[1], t[1])
      BY DEF SameClaim
    <3> QED BY <1>1, <2>1, <3>1 DEF OutcomeInv, LiveOwnsKey
  <2>3. t[1] # u[1] /\ t[1] \in Int /\ u[1] \in Int
    BY <2>1 DEF JobIds
  <2> QED BY <2>1, <2>2, <2>3
<1> QED BY <1>1, TypedInductive, LeaseInductive, OutcomeInductive, PTL DEF Spec

\* Events, rows, submission rows and counters tell one outcome.
THEOREM OutcomeToldOnce == Spec => []OutcomesAgree
<1>1. ASSUME Typed, OutcomeInv PROVE OutcomesAgree
  <2>1. EventsTold /\ ConfirmedIsTrue /\ CountsKept
    BY <1>1 DEF OutcomeInv
  <2>2. ASSUME NEW j \in JobIds
        PROVE  /\ events[j].confirmed + events[j].failed <= 1
               /\ events[j].confirmed = 1 => status[j] = "confirmed"
               /\ events[j].failed = 1 => status[j] = "failed"
    <3>1. events[j] \in [confirmed : Nat, failed : Nat]
      BY <1>1 DEF Typed, TypeOK
    <3>2. events[j].confirmed \in Nat /\ events[j].failed \in Nat
      BY <3>1
    <3> QED BY <2>1, <3>2 DEF EventsTold
  <2> QED BY <2>1, <2>2 DEF OutcomesAgree, ConfirmedIsTrue, Recordable, CountsKept, JobsIn
<1> QED BY <1>1, TypedInductive, LeaseInductive, OutcomeInductive, PTL DEF Spec

-----------------------------------------------------------------------------
(***************************************************************************)
(* Proof that the worker implements the abstract queue: WalletWorker's     *)
(* columns map to the state of WalletQueue, its initial states to initial  *)
(* states and every one of its steps to a step or a stutter.               *)
(***************************************************************************)

-----------------------------------------------------------------------------
(* The refinement mapping, row by row.                                     *)

PhaseOfRow(j)  == PhaseOf(status[j])
WalletOfRow(j) == IF status[j] = "absent" THEN NoRequest ELSE WalletOf(j)

\* A step that keeps the phase and the wallet of every row, the stored transactions
\* and the ledger is a stutter of the queue.
LEMMA Stutter ==
  ASSUME \A j \in JobIds : PhaseOfRow(j)' = PhaseOfRow(j) /\ WalletOfRow(j)' = WalletOfRow(j),
         UNCHANGED <<txHash, ledger>>
  PROVE  UNCHANGED Queue!vars
BY DEF Queue!vars, PhaseOfRow, WalletOfRow

\* Statuses and their phases.
LEMMA Phases ==
  /\ PhaseOf("absent") = "none" /\ PhaseOf("pending") = "queued" /\ PhaseOf("building") = "queued"
  /\ PhaseOf("submitting") = "committed" /\ PhaseOf("submitted") = "committed"
  /\ PhaseOf("confirmed") = "paid" /\ PhaseOf("failed") = "dropped" /\ PhaseOf("cancelled") = "dropped"
BY DEF PhaseOf, InFlight

\* Rows that fail or are cancelled together are one Drop.
LEMMA DropRows ==
  ASSUME Typed, NEW S \in SUBSET JobIds, \A j \in S : status[j] \in Failable,
         \A j \in S : status'[j] \in {"failed", "cancelled"},
         \A j \in JobIds \ S : status'[j] = status[j],
         UNCHANGED <<request, txHash, ledger>>
  PROVE  Queue!Drop(S)
<1>1. \A j \in S : PhaseOf(status[j]) \in {"queued", "committed"}
  BY Phases DEF Failable
<1>2. \A j \in JobIds : PhaseOf(status'[j]) = IF j \in S THEN "dropped" ELSE PhaseOf(status[j])
  BY Phases
<1>3. \A j \in JobIds : WalletOfRow(j)' = WalletOfRow(j)
  BY DEF WalletOfRow, WalletOf, Failable
<1>4. [j \in JobIds |-> WalletOfRow(j)]' = [j \in JobIds |-> WalletOfRow(j)]
  BY <1>3
<1> QED BY <1>1, <1>2, <1>4 DEF Queue!Drop, WalletOfRow

-----------------------------------------------------------------------------
(* Every step.                                                             *)

\* A step that keeps the rows keeps the mapped state, or lets the ledger grow.
LEMMA SameRows ==
  ASSUME UNCHANGED <<request, status, txHash, ledger>> PROVE UNCHANGED Queue!vars
BY Stutter DEF PhaseOfRow, WalletOfRow, WalletOf

\* One row changes its status within its phase.
LEMMA SamePhase ==
  ASSUME Typed, NEW j \in JobIds, NEW s \in Statuses \ {"absent"}, status[j] # "absent",
         PhaseOf(s) = PhaseOf(status[j]),
         status' = [status EXCEPT ![j] = s], UNCHANGED <<request, txHash, ledger>>
  PROVE  UNCHANGED Queue!vars
<1>1. \A k \in JobIds : status'[k] = IF k = j THEN s ELSE status[k]
  BY DEF Typed, TypeOK
<1>2. \A k \in JobIds : PhaseOfRow(k)' = PhaseOfRow(k) /\ WalletOfRow(k)' = WalletOfRow(k)
  BY <1>1 DEF PhaseOfRow, WalletOfRow, WalletOf
<1> QED BY <1>2, Stutter

\* The clients' calls: insertJob enqueues, markCancelled drops.
LEMMA QueueClient == ASSUME Typed, Client PROVE [Queue!Next]_(Queue!vars)
<1>1. ASSUME NEW r \in Requests, NEW j \in JobIds, SubmitWalletJob(r, j) PROVE Queue!Enqueue(j, r.walletId)
  <2>1. /\ status[j] = "absent" /\ UNCHANGED <<txHash, ledger>>
        /\ \A k \in JobIds : /\ status'[k] = IF k = j THEN "pending" ELSE status[k]
                             /\ request'[k] = IF k = j THEN r ELSE request[k]
    BY <1>1 DEF SubmitWalletJob, Typed, TypeOK
  <2>2. \A k \in JobIds : PhaseOf(status'[k]) = IF k = j THEN "queued" ELSE PhaseOf(status[k])
    BY <2>1, Phases
  <2>3. \A k \in JobIds : WalletOfRow(k)' = IF k = j THEN r.walletId ELSE WalletOfRow(k)
    BY <2>1 DEF WalletOfRow, WalletOf
  <2>4. [k \in JobIds |-> WalletOfRow(k)]' = [[k \in JobIds |-> WalletOfRow(k)] EXCEPT ![j] = r.walletId]
    BY <2>3
  <2>5. [k \in JobIds |-> PhaseOf(status[k])]' = [[k \in JobIds |-> PhaseOf(status[k])] EXCEPT ![j] = "queued"]
    BY <2>2
  <2> QED BY <2>1, <2>4, <2>5, Phases DEF Queue!Enqueue, WalletOfRow
<1>2. ASSUME NEW r \in Requests PROVE r.walletId \in Wallets
  BY RequestAssumption DEF RequestType
<1>3. ASSUME NEW j \in JobIds, CancelJob(j) PROVE Queue!Drop({j})
  <2>1. /\ status[j] = "pending" /\ UNCHANGED <<request, txHash, ledger>>
        /\ \A k \in JobIds : status'[k] = IF k = j THEN "cancelled" ELSE status[k]
    BY <1>3 DEF CancelJob, Typed, TypeOK
  <2> QED BY <2>1, DropRows DEF Failable
<1> QED BY <1>1, <1>2, <1>3 DEF Client, Queue!Next

\* markFailed drops one row or does nothing.
LEMMA QueueMarkFailed ==
  ASSUME Typed, NEW j \in JobIds, MarkFailed(j), UNCHANGED <<request, txHash, ledger>>
  PROVE  [Queue!Next]_(Queue!vars)
<1>1. \A k \in JobIds : status'[k] = IF k = j /\ status[j] \in Failable THEN "failed" ELSE status[k]
  BY MarkFailedType DEF Typed
<1>2. CASE status[j] \in Failable
  <2>1. Queue!Drop({j})
    BY <1>1, <1>2, DropRows
  <2> QED BY <2>1 DEF Queue!Next
<1>3. CASE status[j] \notin Failable
  <2>1. UNCHANGED status
    BY <1>3 DEF MarkFailed
  <2> QED BY <2>1, SameRows
<1> QED BY <1>2, <1>3

\* Failing the orphans of a dead executor is one Drop.
LEMMA QueueFailRows ==
  ASSUME Typed, NEW S \in SUBSET JobIds, \A j \in S : status[j] = "building", FailRows(S),
         UNCHANGED <<request, txHash, ledger>>
  PROVE  [Queue!Next]_(Queue!vars)
<1>1. \A j \in JobIds : status'[j] = IF j \in S THEN "failed" ELSE status[j]
  BY FailRowsType DEF Typed
<1>2. Queue!Drop(S)
  BY <1>1, DropRows DEF Failable
<1> QED BY <1>2 DEF Queue!Next

\* markSubmitting commits: no other job of the wallet is committed.
LEMMA QueueCommit ==
  ASSUME Typed, LeaseInv, NEW i \in Instances, NEW w \in Wallets, MarkSubmitting(i, w),
         status[exec[i][w].job] = "building", txHash' = [txHash EXCEPT ![exec[i][w].job] = exec[i][w].tx],
         status' = [status EXCEPT ![exec[i][w].job] = "submitting"]
  PROVE  Queue!Commit(exec[i][w].job, exec[i][w].tx)
<1> DEFINE j == exec[i][w].job
           t == exec[i][w].tx
<1>1. exec[i][w].pc = "store" /\ RowOf(j, w) /\ j \in JobIds /\ t[1] = j
  BY DEF MarkSubmitting, At, Typed, ExecOnOwnJob, RowOf, ExecTx
<1>2. \A k \in JobIds : status[k] \in InFlight => WalletOf(k) # w
  BY <1>1 DEF LeaseInv, FencedExecutorOwnsWallet, OwnerHasClearWallet, Unstored
<1>3. \A k \in JobIds : PhaseOf(status[k]) = "committed" => status[k] \in InFlight
  BY Phases DEF Typed, TypeOK, Statuses, InFlight
<1>4. UNCHANGED <<request, ledger>>
  BY DEF MarkSubmitting
<1>5. \A k \in JobIds : status'[k] = IF k = j THEN "submitting" ELSE status[k]
  BY DEF Typed, TypeOK
<1>6. \A k \in JobIds : PhaseOf(status'[k]) = IF k = j THEN "committed" ELSE PhaseOf(status[k])
  BY <1>5, Phases
<1>7. \A k \in JobIds : WalletOfRow(k)' = WalletOfRow(k)
  BY <1>4, <1>5 DEF WalletOfRow, WalletOf
<1>8. \A k \in JobIds : PhaseOf(status[k]) = "committed" => WalletOfRow(k) # WalletOfRow(j)
  BY <1>1, <1>2, <1>3 DEF WalletOfRow, RowOf, InFlight
<1>9. [k \in JobIds |-> PhaseOf(status[k])]' = [[k \in JobIds |-> PhaseOf(status[k])] EXCEPT ![j] = "committed"]
  BY <1>6
<1>10. [k \in JobIds |-> WalletOfRow(k)]' = [k \in JobIds |-> WalletOfRow(k)]
  BY <1>7
<1>11. PhaseOf(status[j]) = "queued" /\ txHash' = [txHash EXCEPT ![j] = t]
  BY Phases
<1> HIDE DEF j, t
<1>12. Queue!Commit(j, t)
  BY <1>1, <1>4, <1>8, <1>9, <1>10, <1>11 DEF Queue!Commit, WalletOfRow
<1> QED BY <1>12 DEF j, t

\* Executions: markSubmitting commits, failures drop, everything else stutters.
LEMMA QueueExecute ==
  ASSUME Typed, LeaseInv, NEW i \in Instances, NEW w \in Wallets, Execute(i, w)
  PROVE  [Queue!Next]_(Queue!vars)
<1> DEFINE e == exec[i][w]
           j == exec[i][w].job
<1>0. e.pc \notin {"idle", "release"} => j \in JobIds
  BY DEF Typed, ExecOnOwnJob, RowOf
<1>1. CASE UNCHANGED <<request, status, txHash, ledger>>
  BY <1>1, SameRows
<1>2. CASE Claim(i, w)
  <2>1. j \in JobIds /\ UNCHANGED <<request, txHash, ledger>>
    BY <1>0, <1>2 DEF Claim, At
  <2>2. CASE status[j] = "pending" /\ status' = [status EXCEPT ![j] = "building"]
    <3> HIDE DEF j
    <3> QED BY <2>1, <2>2, SamePhase, Phases DEF Statuses
  <2> QED BY <1>1, <1>2, <2>1, <2>2 DEF Claim
<1>3. CASE MarkSubmitting(i, w)
  <2>1. e.pc = "store" /\ e.tx \in Txs /\ j \in JobIds /\ UNCHANGED <<request, ledger>>
    BY <1>0, <1>3 DEF MarkSubmitting, At, Typed, ExecTx
  <2>2. CASE UNCHANGED <<status, txHash>>
    BY <1>1, <2>1, <2>2
  <2>3. CASE /\ status[j] = "building" /\ txHash' = [txHash EXCEPT ![j] = e.tx]
             /\ status' = [status EXCEPT ![j] = "submitting"]
    <3>1. Queue!Commit(j, e.tx)
      BY <1>3, <2>3, QueueCommit
    <3> QED BY <2>1, <3>1 DEF Queue!Next
  <2> QED BY <1>3, <2>2, <2>3 DEF MarkSubmitting, Storable
<1>4. CASE AdoptSubmitted(i, w)
  <2>1. j \in JobIds /\ UNCHANGED <<request, txHash, ledger>>
    BY <1>0, <1>4 DEF AdoptSubmitted, At
  <2>2. CASE status[j] = "submitting" /\ status' = [status EXCEPT ![j] = "submitted"]
    <3> HIDE DEF j
    <3> QED BY <2>1, <2>2, SamePhase, Phases DEF Statuses
  <2> QED BY <1>1, <1>4, <2>1, <2>2 DEF AdoptSubmitted
<1>5. CASE RequeueOrFail(i, w)
  <2>1. j \in JobIds /\ UNCHANGED <<request, txHash, ledger>>
    BY <1>0, <1>5 DEF RequeueOrFail, At
  <2>2. CASE status[j] \in Requeueable /\ status' = [status EXCEPT ![j] = "pending"]
    <3> HIDE DEF j
    <3> QED BY <2>1, <2>2, SamePhase, Phases DEF Statuses, Requeueable
  <2>3. CASE MarkFailed(j)
    <3> HIDE DEF j
    <3> QED BY <2>1, <2>3, QueueMarkFailed
  <2> QED BY <1>1, <1>5, <2>1, <2>2, <2>3 DEF RequeueOrFail
<1>6. CASE FailReconciled(i, w)
  <2>1. j \in JobIds /\ UNCHANGED <<request, txHash, ledger>>
    BY <1>0, <1>6 DEF FailReconciled, At
  <2>2. CASE MarkFailed(j)
    <3> HIDE DEF j
    <3> QED BY <2>1, <2>2, QueueMarkFailed
  <2> QED BY <1>1, <1>6, <2>1, <2>2 DEF FailReconciled
<1>7. CASE Prepare(i, w) \/ BuildAndSign(i, w) \/ FenceBeforeSubmit(i, w)
           \/ SubmitStoredTransaction(i, w) \/ RecordSubmission(i, w) \/ RereadRow(i, w)
           \/ FinallyRelease(i, w) \/ Resubmit(i, w) \/ LookUpStoredTransaction(i, w)
  <2>1. UNCHANGED <<request, status, txHash, ledger>>
    BY <1>7 DEF Prepare, BuildAndSign, FenceBeforeSubmit, SubmitStoredTransaction,
       RecordSubmission, RereadRow, FinallyRelease, Resubmit, LookUpStoredTransaction
  <2> QED BY <1>1, <2>1
<1> QED BY <1>2, <1>3, <1>4, <1>5, <1>6, <1>7 DEF Execute

\* The tracker's verdicts: a confirmation pays, a dropped transaction drops.
LEMMA QueueFinalize ==
  ASSUME Typed, NEW i \in Instances, Finalize(i) PROVE [Queue!Next]_(Queue!vars)
<1> PICK t \in Txs : FinalizeConfirmed(i, t) \/ FinalizeDropped(i, t)
  BY DEF Finalize
<1> DEFINE j == t[1]
<1>0. j \in JobIds
  BY DEF Txs
<1>1. CASE FinalizeDropped(i, t)
  <2>1. MarkFailed(j) /\ UNCHANGED <<request, txHash, ledger>>
    BY <1>1 DEF FinalizeDropped
  <2> HIDE DEF j
  <2> QED BY <1>0, <2>1, QueueMarkFailed
<1>2. CASE FinalizeConfirmed(i, t)
  <2>1. t \in ledger /\ txHash[j] = t /\ UNCHANGED <<request, txHash, ledger>>
    BY <1>2 DEF FinalizeConfirmed, Typed, SeenTx
  <2>2. CASE UNCHANGED status
    BY <2>1, <2>2, SameRows
  <2>3. CASE status[j] = "submitted" /\ status' = [status EXCEPT ![j] = "confirmed"]
    <3> HIDE DEF j
    <3>1. \A k \in JobIds : status'[k] = IF k = j THEN "confirmed" ELSE status[k]
      BY <2>3 DEF Typed, TypeOK
    <3>2. \A k \in JobIds : PhaseOf(status'[k]) = IF k = j THEN "paid" ELSE PhaseOf(status[k])
      BY <3>1, Phases
    <3>3. \A k \in JobIds : WalletOfRow(k)' = WalletOfRow(k)
      BY <2>1, <2>3, <3>1 DEF WalletOfRow, WalletOf
    <3>4. [k \in JobIds |-> PhaseOf(status[k])]' = [[k \in JobIds |-> PhaseOf(status[k])] EXCEPT ![j] = "paid"]
      BY <3>2
    <3>5. [k \in JobIds |-> WalletOfRow(k)]' = [k \in JobIds |-> WalletOfRow(k)]
      BY <3>3
    <3>6. PhaseOf(status[j]) = "committed"
      BY <2>3, Phases
    <3>7. Queue!Pay(j)
      BY <1>0, <2>1, <3>4, <3>5, <3>6 DEF Queue!Pay, WalletOfRow
    <3> QED BY <1>0, <3>7 DEF Queue!Next
  <2> QED BY <1>2, <2>2, <2>3 DEF FinalizeConfirmed, Confirmable
<1> QED BY <1>1, <1>2

\* Ticks and the life cycle drop the orphans of dead executors and nothing else.
LEMMA QueueTickAndLifeCycle ==
  ASSUME Typed, NEW i \in Instances, Tick(i) \/ LifeCycle(i) PROVE [Queue!Next]_(Queue!vars)
<1>1. ASSUME NEW w \in Wallets, TickDispatch(i, w) PROVE [Queue!Next]_(Queue!vars)
  <2>1. /\ OrphanedBuilding(w) \in SUBSET JobIds
        /\ \A j \in OrphanedBuilding(w) : status[j] = "building"
    BY OrphansType
  <2>2. UNCHANGED <<request, txHash, ledger>>
    BY <1>1 DEF TickDispatch
  <2>3. CASE FailRows(OrphanedBuilding(w))
    BY <2>1, <2>2, <2>3, QueueFailRows
  <2>4. CASE UNCHANGED status
    BY <2>2, <2>4, SameRows
  <2> QED BY <1>1, <2>3, <2>4 DEF TickDispatch
<1>2. CASE Start(i)
  <2> DEFINE S == UNION {OrphanedBuilding(w) : w \in Wallets}
  <2>1. S \in SUBSET JobIds /\ \A j \in S : status[j] = "building"
    BY OrphansType
  <2>2. FailRows(S) /\ UNCHANGED <<request, txHash, ledger>>
    BY <1>2 DEF Start
  <2> HIDE DEF S
  <2> QED BY <2>1, <2>2, QueueFailRows
<1>3. ASSUME NEW w \in Wallets, TickReconcile(i, w) PROVE [Queue!Next]_(Queue!vars)
  BY <1>3, SameRows DEF TickReconcile
<1>4. CASE TickReadDue(i) \/ TickFails(i) \/ StopBegin(i) \/ StopComplete(i) \/ Crash(i)
  <2>1. UNCHANGED <<request, status, txHash, ledger>>
    BY <1>4 DEF TickReadDue, TickFails, StopBegin, StopComplete, Crash
  <2> QED BY <2>1, SameRows
<1> QED BY <1>1, <1>2, <1>3, <1>4 DEF Tick, LifeCycle

\* The chain settles committed transactions only; clocks are invisible.
LEMMA QueueClockAndChain == ASSUME Typed, Clock \/ Chain PROVE [Queue!Next]_(Queue!vars)
<1>1. ASSUME NEW t \in Txs, TxIncluded(t) PROVE [Queue!Next]_(Queue!vars)
  <2>1. UNCHANGED <<request, status, txHash>> /\ ledger' = ledger \cup {t} /\ txHash[t[1]] = t
    BY <1>1 DEF TxIncluded, Typed, SeenTx
  <2>2. Queue!Settle(t)
    BY <2>1 DEF Queue!Settle, WalletOf
  <2> QED BY <2>2 DEF Queue!Next
<1>2. ASSUME NEW t \in Txs, TxEvicted(t) \/ TxInvalidated(t) PROVE [Queue!Next]_(Queue!vars)
  BY <1>2, SameRows DEF TxEvicted, TxInvalidated
<1>3. CASE Clock
  <2>1. UNCHANGED <<request, status, txHash, ledger>>
    BY <1>3 DEF Clock, Beat, LeaseExpires, NotBeforePasses, ConfirmationTimeout
  <2> QED BY <2>1, SameRows
<1> QED BY <1>1, <1>2, <1>3 DEF Chain

\* The worker implements the queue, for every value of the constants: jobs commit
\* one at a time per wallet to a transaction that is never replaced, only committed
\* transactions reach the chain, and a job is paid only by its own.
THEOREM WorkerImplementsQueue == Spec => ImplementsQueue
<1>1. Init => Queue!Init
  BY Phases DEF Init, Queue!Init
<1>2. ASSUME Typed, LeaseInv, [Next]_vars PROVE [Queue!Next]_(Queue!vars)
  <2>1. CASE UNCHANGED vars
    BY <2>1, SameRows DEF vars
  <2>2. CASE Next
    BY <1>2, <2>2, QueueClient, QueueClockAndChain, QueueTickAndLifeCycle, QueueFinalize, QueueExecute DEF Next
  <2> QED BY <1>2, <2>1, <2>2
<1> QED BY <1>1, <1>2, TypedInductive, LeaseInductive, PTL DEF Spec, ImplementsQueue, Queue!Spec
=============================================================================
