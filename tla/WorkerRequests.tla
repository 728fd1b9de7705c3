---------------------------- MODULE WorkerRequests ----------------------------
(* build-request.ts: what a stored wallet job's request becomes before the    *)
(* worker builds it.  It is read when the job runs, long after it was         *)
(* accepted, and it is parsed by code of its own: the kinds and the checks    *)
(* differ from those of the build actions.  The sender is the wallet.         *)
EXTENDS Integers, Sequences

CONSTANTS None, Sender, MaxEntries
INSTANCE BuildRequests

\* requirePresent: the primary output, with its recipient and amount.
Complete(raw) == raw.outs # <<>>

\* An address lock of a mint or spend needs parameters to derive it.
Lockable(raw) == raw.lock => raw.params = "some"

\* parseMintActions and assertPolicyPrefix, under the policy a bare name or a
\* unit without a script of its own stands for.
ActionsFit(raw, bareOk, top, expands) ==
  /\ \A a \in {raw.actions[i] : i \in DOMAIN raw.actions} : ActionOk(a, bareOk)
  /\ UnitsMatch(raw.actions, top, expands)

Mints(raw, top, expands) ==
  [i \in DOMAIN raw.actions |-> Minted(raw.actions[i], raw, top, expands)]

\* prepareSimpleAda: both forms of a datum get past it, the builder refuses them.
SimpleAdaJobOk(raw) == Complete(raw) /\ (raw.lock => raw.validator # None)
SimpleAdaJob(raw) ==
  [Handed(raw) EXCEPT !.kind = "transfer",
                      !.outs = LockedOn(@, raw.lock, Applied(raw.validator, raw.params))]

\* prepareMetadata and prepareMultiAsset: forced and protected inputs of the
\* stored request are not parsed, and so are without effect.
PlainJob(raw) == [Handed(raw) EXCEPT !.kind = "transfer", !.force = {}, !.protect = {}]
MetadataJobOk(raw) == Complete(raw) /\ raw.metadata
MultiAssetJobOk(raw) == Complete(raw) /\ raw.outs[1].tok > 0

\* prepareMint: an empty list of actions gets past it, the builder refuses it.
MintJobOk(raw) ==
  /\ Complete(raw) /\ raw.policy # None /\ Lockable(raw)
  /\ ActionsFit(raw, raw.params # "none", MintTop(raw), raw.params = "some")

MintJob(raw) ==
  [Handed(raw) EXCEPT !.outs = LockedOn(@, raw.lock, MintTop(raw)),
                      !.mints = Mints(raw, MintTop(raw), raw.params = "some")]

\* preparePlutusSpend: with actions it mints as well, under a policy that takes
\* the parameters when it is the validator.
SpendJobOk(raw) ==
  /\ Complete(raw) /\ raw.validator # None /\ Len(raw.inputs) = 1 /\ Lockable(raw)
  /\ IF raw.actions = <<>> THEN raw.policy = None /\ raw.redeemer = None
     ELSE /\ raw.policy # None
          /\ ActionsFit(raw, raw.params # "none" /\ SharesParams(raw),
                        SpendTop(raw), raw.params = "some" /\ SharesParams(raw))

SpendJob(raw) ==
  LET validator == Applied(raw.validator, raw.params)
  IN [Handed(raw) EXCEPT
        !.kind = "spend",
        !.outs = LockedOn(@, raw.lock, validator),
        !.scripts = <<[ref |-> raw.inputs[1].ref, script |-> validator, by |-> None]>>,
        !.mints = Mints(raw, SpendTop(raw), raw.params = "some" /\ SharesParams(raw))]

\* prepareWorkerBuildRequest: any other kind fails the job.
JobAccepted(raw) ==
  CASE raw.kind = "simpleAda" -> SimpleAdaJobOk(raw)
    [] raw.kind = "metadata" -> MetadataJobOk(raw)
    [] raw.kind = "multiAsset" -> MultiAssetJobOk(raw)
    [] raw.kind = "mint" -> MintJobOk(raw)
    [] raw.kind = "plutusSpend" -> SpendJobOk(raw)
    [] OTHER -> FALSE

JobRequest(raw) ==
  CASE raw.kind = "simpleAda" -> SimpleAdaJob(raw)
    [] raw.kind = "mint" -> MintJob(raw)
    [] raw.kind = "plutusSpend" -> SpendJob(raw)
    [] OTHER -> PlainJob(raw)
=============================================================================
