-------------------------------- MODULE Signing --------------------------------
(***************************************************************************)
(* The life of signing requests and submissions: cardano-sign-service.ts,  *)
(* submission-finalizer.ts, the submission actions of                      *)
(* cardano-tx-service.ts and the rows cardano-indexer.ts writes for them.  *)
(* A submission runs in three committed phases: claim, network call,       *)
(* outcome; the process can die between any two, and the boot re-drives    *)
(* what a deferred submission left behind.                                 *)
(*                                                                         *)
(* A step is one database transaction or one network call.  Every          *)
(* transaction that changes a request does so through a conditional UPDATE *)
(* whose row lock it keeps until its commit, so it is one step; the caller *)
(* of a deferred submission keeps the lock while its own transaction runs. *)
(***************************************************************************)
EXTENDS SignedTx, Naturals, Sequences, FiniteSets

CONSTANTS
  Instances, Slots, InstanceOf,  \* InstanceOf[h]: the instance slot h runs on
  Inputs,                        \* what callers hand in as signed
  HsmBuilds,                     \* the builds whose sender is the HSM's address
  MaxRequests,
  MaxRecorded,                   \* rows beyond which no recorded submission starts
  MaxMishaps                     \* crashes, lost answers and lost outcomes together

ASSUME InstanceAssumption == InstanceOf \in [Slots -> Instances]

VARIABLES
  req,      \* SigningRequests: sequence of [b, status, aged, tx, sub]
  subs,     \* TransactionSubmissions: sequence of [b, status]
  inst,     \* inst[i]: [pc, todo], todo the requests left to re-drive
  slot,     \* slot[h]: the request a handler works on
  ledger,   \* the builds whose transaction the ledger took
  deep,     \* of those, the ones SUBMISSION_CONFIRMATION_DEPTH blocks deep
  crashes, faults, outages

vars == <<req, subs, inst, slot, ledger, deep, crashes, faults, outages>>
rows == <<req, subs>>
world == <<ledger, deep, outages>>

Mishap == crashes + faults + outages < MaxMishaps
Requests == 1 .. Len(req)
Rows == 1 .. Len(subs)

\* r: the request, 0 on the recorded path; s: the submission row of that path;
\* tx: the signed transaction; res: what the network answered.
Idle == [pc |-> "idle", r |-> 0, s |-> 0, b |-> 0, tx |-> NoTx, defer |-> FALSE,
         res |-> "none"]

Init ==
  /\ req = <<>> /\ subs = <<>>
  /\ inst = [i \in Instances |-> [pc |-> "booting", todo |-> {}]]
  /\ slot = [h \in Slots |-> Idle]
  /\ ledger = {} /\ deep = {}
  /\ crashes = 0 /\ faults = 0 /\ outages = 0

Free(h) == inst[InstanceOf[h]].pc = "up" /\ slot[h].pc = "idle"

\* Nobody's open transaction holds the row.
Unlocked(r) == \A h \in Slots : ~(slot[h].pc = "callerTx" /\ slot[h].r = r)

NewRequest(b, status, tx) ==
  [b |-> b, status |-> status, aged |-> FALSE, tx |-> tx, sub |-> 0]

-----------------------------------------------------------------------------
(* Signing requests *)

\* CreateSigningRequest reads first ...
CreateRead(h, b) ==
  /\ Free(h) /\ Len(req) < MaxRequests
  /\ ~\E r \in Requests : req[r].b = b /\ req[r].status = "pending"
  /\ slot' = [slot EXCEPT ![h] = [Idle EXCEPT !.pc = "create", !.b = b]]
  /\ UNCHANGED <<rows, world, inst, crashes, faults>>

\* ... and inserts what it did not find.
CreateInsert(h) ==
  /\ slot[h].pc = "create" /\ Len(req) < MaxRequests
  /\ req' = Append(req, NewRequest(slot[h].b, "pending", NoTx))
  /\ slot' = [slot EXCEPT ![h] = Idle]
  /\ UNCHANGED <<subs, world, inst, crashes, faults>>

Due(r) == req[r].status = "pending" /\ req[r].aged

\* checkAndExpireSigningRequest on a read of one request, and the bulk
\* expiry before a READ, which takes all that are due.
ExpireOne(r) ==
  /\ Due(r) /\ Unlocked(r)
  /\ req' = [req EXCEPT ![r].status = "expired"]
  /\ UNCHANGED <<subs, world, inst, slot, crashes, faults>>

ExpireDue ==
  LET due == {r \in Requests : Due(r)}
  IN /\ due # {} /\ \A r \in due : Unlocked(r)
     /\ req' = [r \in Requests |-> IF r \in due
                                   THEN [req[r] EXCEPT !.status = "expired"] ELSE req[r]]
     /\ UNCHANGED <<subs, world, inst, slot, crashes, faults>>

\* VerifySignature claims the pending row as `signed' and, in the same
\* transaction, stores the verdict.  A merge that throws rolls the claim back.
VerifySignature(r, in) ==
  LET b  == req[r].b
      tx == ToSigned(b, in)
  IN /\ req[r].status = "pending" /\ ~req[r].aged /\ Unlocked(r) /\ tx # NoTx
     /\ req' = [req EXCEPT ![r].status =
                  IF Verifies(tx, b, RequiredSigners(b)) THEN "verified" ELSE "failed"]
     /\ UNCHANGED <<subs, world, inst, slot, crashes, faults>>

\* SignWithHsm: creates, signs and verifies; an invalid HSM signature rolls
\* everything back.
SignWithHsm(b) ==
  /\ b \in HsmBuilds /\ Len(req) < MaxRequests
  /\ Verifies(HsmSigned(b, TRUE), b, {})
  /\ req' = Append(req, NewRequest(b, "verified", NoTx))
  /\ UNCHANGED <<subs, world, inst, slot, crashes, faults>>

-----------------------------------------------------------------------------
(* Phase 1 of a submission: verify and claim *)

\* Mutation: the claim does not look at the status again.
ClaimableAnyway(r) == req[r].status \notin {"submitted"} /\ ~req[r].aged

\* The WHERE clause of the claim.
Claimable(r) == req[r].status \in {"pending", "verified"} /\ ~req[r].aged

\* SubmitVerifiedTransaction.  Only a deferred claim stores the signed
\* transaction.
SubmitVerified(h, r, in, defer) ==
  LET b  == req[r].b
      tx == ToSigned(b, in)
  IN /\ Free(h) /\ Claimable(r) /\ Unlocked(r)
     /\ Verifies(tx, b, RequiredSigners(b))
     /\ req' = IF defer THEN req ELSE [req EXCEPT ![r].status = "submitting"]
     /\ slot' = [slot EXCEPT ![h] = [Idle EXCEPT !.pc = IF defer THEN "callerTx" ELSE "send",
                                       !.r = r, !.b = b, !.tx = tx, !.defer = defer]]
     /\ UNCHANGED <<subs, world, inst, crashes, faults>>

\* SignAndSubmitWithHsm creates its own request, already claimed.
SubmitWithHsm(h, b, defer) ==
  LET tx == HsmSigned(b, TRUE)
  IN /\ Free(h) /\ b \in HsmBuilds /\ Len(req) < MaxRequests
     /\ Verifies(tx, b, {})
     /\ req' = IF defer THEN req ELSE Append(req, NewRequest(b, "submitting", NoTx))
     /\ slot' = [slot EXCEPT ![h] = [Idle EXCEPT !.pc = IF defer THEN "callerTx" ELSE "send",
                                       !.r = IF defer THEN 0 ELSE Len(req) + 1,
                                       !.b = b, !.tx = tx, !.defer = defer]]
     /\ UNCHANGED <<subs, world, inst, crashes, faults>>

\* The caller's transaction commits with the claim and the signed
\* transaction in it; only then the submission is scheduled.  The HSM's
\* request row becomes visible with the same commit.
CallerCommits(h) ==
  LET new == slot[h].r = 0
      r   == IF new THEN Len(req) + 1 ELSE slot[h].r
  IN /\ slot[h].pc = "callerTx" /\ (new => Len(req) < MaxRequests)
     /\ req' = IF new THEN Append(req, NewRequest(slot[h].b, "submitting", slot[h].tx))
               ELSE [req EXCEPT ![r].status = "submitting", ![r].tx = slot[h].tx]
     /\ slot' = [slot EXCEPT ![h].pc = "send", ![h].r = r]
     /\ UNCHANGED <<subs, world, inst, crashes, faults>>

CallerRollsBack(h) ==
  /\ slot[h].pc = "callerTx"
  /\ slot' = [slot EXCEPT ![h] = Idle]
  /\ UNCHANGED <<rows, world, inst, crashes, faults>>

\* SubmitTransaction and SubmitSignedTransaction: only the body is compared
\* with the build; a pending row is committed before the network call.
SubmitRecorded(h, b, in) ==
  LET tx == ToSigned(b, in)
  IN /\ Free(h) /\ Len(subs) < MaxRecorded /\ tx # NoTx /\ tx.body = b
     /\ subs' = Append(subs, [b |-> b, status |-> "pending"])
     /\ slot' = [slot EXCEPT ![h] = [Idle EXCEPT !.pc = "send", !.s = Len(subs) + 1,
                                       !.b = b, !.tx = tx]]
     /\ UNCHANGED <<req, world, inst, crashes, faults>>

-----------------------------------------------------------------------------
(* Phase 2: the network call *)

Answered(h, res) ==
  /\ slot[h].pc = "send"
  /\ slot' = [slot EXCEPT ![h].pc = "sent", ![h].res = res]
  /\ UNCHANGED <<rows, deep, inst, crashes, faults>>

SendAccepted(h) ==
  /\ slot[h].b \notin ledger /\ slot[h].tx # NoTx /\ LedgerAccepts(slot[h].tx)
  /\ ledger' = ledger \cup {slot[h].b}
  /\ Answered(h, "ok") /\ UNCHANGED outages

SendKnown(h) ==
  /\ slot[h].b \in ledger
  /\ Answered(h, "already") /\ UNCHANGED <<ledger, outages>>

SendRejected(h) ==
  /\ slot[h].b \notin ledger /\ slot[h].tx # NoTx /\ ~LedgerAccepts(slot[h].tx)
  /\ Answered(h, "rejected") /\ UNCHANGED <<ledger, outages>>

\* Every backend fails; one of them may have taken the transaction.
SendLost(h) ==
  /\ slot[h].tx # NoTx /\ Mishap
  /\ outages' = outages + 1
  /\ ledger' \in {ledger, ledger \cup {b \in {slot[h].b} : LedgerAccepts(slot[h].tx)}}
  /\ Answered(h, "unreachable")

-----------------------------------------------------------------------------
(* Phase 3: the outcome *)

\* Mutation: a backend that cannot be reached counts as submitted.
SucceededUnlessRejected(res) == res # "rejected"

\* TransactionAlreadySubmittedError is a success.
Succeeded(res) == res \in {"ok", "already"}

\* indexVerifiedTransactionSubmission, or the mark as failed: both write
\* the request whatever its status is by now.
FinishRequest(h) ==
  LET r == slot[h].r
  IN /\ slot[h].pc = "sent" /\ r # 0
     /\ IF Succeeded(slot[h].res)
        THEN /\ subs' = Append(subs, [b |-> slot[h].b, status |-> "submitted"])
             /\ req' = [req EXCEPT ![r].status = "submitted", ![r].sub = Len(subs) + 1]
        ELSE /\ req' = [req EXCEPT ![r].status = "failed"]
             /\ UNCHANGED subs
     /\ slot' = [slot EXCEPT ![h] = Idle]
     /\ UNCHANGED <<world, inst, crashes, faults>>

\* submitRecorded's outcome: a duplicate of a row that is already submitted
\* or confirmed is dropped.
FinishRecorded(h) ==
  LET s == slot[h].s
      other == \E t \in Rows \ {s} : subs[t].b = slot[h].b
                                     /\ subs[t].status \in {"submitted", "confirmed"}
      status == CASE ~Succeeded(slot[h].res) -> "failed"
                  [] slot[h].res = "already" /\ other -> "dropped"
                  [] OTHER -> "submitted"
  IN /\ slot[h].pc = "sent" /\ s # 0
     /\ subs' = [subs EXCEPT ![s].status = status]
     /\ slot' = [slot EXCEPT ![h] = Idle]
     /\ UNCHANGED <<req, world, inst, crashes, faults>>

\* detachedTx gives up waiting for a connection: the outcome is not written.
OutcomeLost(h) ==
  /\ slot[h].pc = "sent" /\ Mishap
  /\ faults' = faults + 1
  /\ slot' = [slot EXCEPT ![h] = Idle]
  /\ UNCHANGED <<rows, world, inst, crashes>>

\* CheckSubmissionStatus, offered for submitted rows only.
CheckSubmission(s) ==
  /\ subs[s].status = "submitted" /\ subs[s].b \in deep
  /\ subs' = [subs EXCEPT ![s].status = "confirmed"]
  /\ UNCHANGED <<req, world, inst, slot, crashes, faults>>

-----------------------------------------------------------------------------
(* Process and environment *)

\* Mutation: a submission whose TTL has passed does not count.
InterruptedUnlessAged(r) == req[r].status = "submitting" /\ req[r].tx # NoTx /\ ~req[r].aged

Interrupted(r) == req[r].status = "submitting" /\ req[r].tx # NoTx

\* redriveInterruptedSubmissions loads the claimed requests that carry their
\* signed transaction ...
Boot(i) ==
  /\ inst[i].pc = "down"
  /\ inst' = [inst EXCEPT ![i] = [pc |-> "booting",
       todo |-> {r \in Requests : Interrupted(r)}]]
  /\ UNCHANGED <<rows, world, slot, crashes, faults>>

\* ... and submits them one after the other, on the row as it was loaded.
Redrive(h, r) ==
  LET i == InstanceOf[h]
  IN /\ inst[i].pc = "booting" /\ r \in inst[i].todo
     /\ \A g \in Slots : InstanceOf[g] = i => slot[g].pc = "idle"
     /\ Verifies(req[r].tx, req[r].b, {})
     /\ inst' = [inst EXCEPT ![i].todo = @ \ {r}]
     /\ slot' = [slot EXCEPT ![h] = [Idle EXCEPT !.pc = "send", !.r = r, !.b = req[r].b,
                                                 !.tx = req[r].tx, !.defer = TRUE]]
     /\ UNCHANGED <<rows, world, crashes, faults>>

Serve(i) ==
  /\ inst[i].pc = "booting" /\ inst[i].todo = {}
  /\ \A g \in Slots : InstanceOf[g] = i => slot[g].pc = "idle"
  /\ inst' = [inst EXCEPT ![i].pc = "up"]
  /\ UNCHANGED <<rows, world, slot, crashes, faults>>

Crash(i) ==
  /\ inst[i].pc # "down" /\ Mishap
  /\ crashes' = crashes + 1
  /\ inst' = [inst EXCEPT ![i] = [pc |-> "down", todo |-> {}]]
  /\ slot' = [h \in Slots |-> IF InstanceOf[h] = i THEN Idle ELSE slot[h]]
  /\ UNCHANGED <<rows, world, faults>>

\* The TTL of a request has passed; the ledger buries a transaction.
Age(r) ==
  /\ ~req[r].aged /\ req[r].status \in {"pending", "verified"}
  /\ req' = [req EXCEPT ![r].aged = TRUE]
  /\ UNCHANGED <<subs, world, inst, slot, crashes, faults>>

Bury(b) ==
  /\ b \in ledger \ deep
  /\ deep' = deep \cup {b}
  /\ UNCHANGED <<rows, ledger, outages, inst, slot, crashes, faults>>

-----------------------------------------------------------------------------
Network(h) == SendAccepted(h) \/ SendKnown(h) \/ SendRejected(h) \/ SendLost(h)
Outcome(h) == FinishRequest(h) \/ FinishRecorded(h) \/ OutcomeLost(h)

Next ==
  \/ \E h \in Slots, b \in Builds :
       \/ CreateRead(h, b)
       \/ \E in \in Inputs : SubmitRecorded(h, b, in)
       \/ \E defer \in BOOLEAN : SubmitWithHsm(h, b, defer)
  \/ \E h \in Slots, r \in Requests :
       \/ \E in \in Inputs, defer \in BOOLEAN : SubmitVerified(h, r, in, defer)
       \/ Redrive(h, r)
  \/ \E h \in Slots : \/ CreateInsert(h) \/ CallerCommits(h) \/ CallerRollsBack(h)
                      \/ SendAccepted(h) \/ SendKnown(h) \/ SendRejected(h)
                      \/ SendLost(h) \/ FinishRequest(h) \/ FinishRecorded(h)
                      \/ OutcomeLost(h)
  \/ \E r \in Requests : \/ ExpireOne(r) \/ Age(r)
                         \/ \E in \in Inputs : VerifySignature(r, in)
  \/ \E b \in Builds : SignWithHsm(b) \/ Bury(b)
  \/ \E s \in Rows : CheckSubmission(s)
  \/ \E i \in Instances : Boot(i) \/ Serve(i) \/ Crash(i)
  \/ ExpireDue

Spec == Init /\ [][Next]_vars

\* Handlers go on, callers end their transactions, the operator restarts a
\* dead instance.
Fairness ==
  /\ \A h \in Slots :
       /\ WF_vars(CallerCommits(h) \/ CallerRollsBack(h))
       /\ WF_vars(Network(h)) /\ WF_vars(Outcome(h))
       /\ \A r \in 1 .. MaxRequests : WF_vars(r \in Requests /\ Redrive(h, r))
  /\ \A i \in Instances : WF_vars(Boot(i)) /\ WF_vars(Serve(i))

FairSpec == Spec /\ Fairness

-----------------------------------------------------------------------------
(* Properties *)

Submitting(r) == {h \in Slots : slot[h].r = r /\ slot[h].pc \in {"send", "sent"}}

\* A request is submitted by one handler at a time, whatever clients repeat
\* and whatever a restart re-drives (claim WHERE clause, boot before serving).
ClaimIsExclusive == \A r \in Requests : Cardinality(Submitting(r)) <= 1

\* What is recorded as submitted or confirmed was taken by the ledger, also
\* after a lost answer, a duplicate, a crash or a re-drive.
RecordedIsOnLedger ==
  /\ \A r \in Requests : req[r].status = "submitted" => req[r].b \in ledger
  /\ \A s \in Rows : subs[s].status \in {"submitted", "confirmed"} => subs[s].b \in ledger

\* What the signing path hands to the network is the body of its build,
\* carries at least one witness, only valid ones, and, outside the HSM's own
\* builds, those of every required key.
OnlyVerifiedSent ==
  \A h \in Slots : slot[h].pc = "send" /\ slot[h].r # 0 =>
    LET t == slot[h].tx
    IN /\ t.body = slot[h].b /\ t.sigs # {} /\ \A g \in t.sigs : g.ok
       /\ slot[h].b \notin HsmBuilds => RequiredSigners(slot[h].b) \subseteq Keys(t)

\* A deferred submission whose caller has committed is brought to an end,
\* by its own handler or by the re-drive after a crash, unless an outcome
\* could not be written.
DeferredIsResolved ==
  \A r \in 1 .. MaxRequests :
    (r \in Requests /\ req[r].status = "submitting" /\ req[r].tx # NoTx)
      ~> (faults > 0 \/ (r \in Requests /\ req[r].status \in {"submitted", "failed"}))

=============================================================================
