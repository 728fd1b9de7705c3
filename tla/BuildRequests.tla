---------------------------- MODULE BuildRequests ----------------------------
(* What the build actions of cardano-tx-service.ts accept and hand to the     *)
(* builder: a raw request, as its fields were sent, becomes a request.        *)
(*                                                                            *)
(* A script is [code, applied]; its hash, its policy id and its enterprise    *)
(* address are the script itself.  An asset unit is the policy it names, None *)
(* for a bare asset name.  params is "none", "empty" or "some"; the forms of  *)
(* a datum or redeemer that were sent are a subset of {"json", "cbor"}.       *)
(* Field formats are left out.                                                *)
EXTENDS Integers, Sequences, Functions

CONSTANTS None, Sender,
  MaxEntries   \* MAX_SCRIPT_INPUTS, MAX_WITHDRAWALS and MAX_CERTIFICATES

Applied(script, params) ==
  IF script # None /\ params = "some" THEN [script EXCEPT !.applied = TRUE] ELSE script

AtMostOne(forms) == forms # {"json", "cbor"}
ExactlyOne(forms) == AtMostOne(forms) /\ forms # {}

-----------------------------------------------------------------------------
(* Mint actions of BuildMintTransaction and BuildPlutusSpendTransaction.      *)

\* parseMintActionPolicyFields
PolicyFieldsOk(a, byReference) == a.redeemer # None => a.own # None \/ byReference

\* A bare name needs a policy to stand under, a unit must name the action's
\* own policy.
ActionOk(a, bareOk) ==
  /\ PolicyFieldsOk(a, FALSE)
  /\ a.unit = None => bareOk \/ a.own # None
  /\ a.unit # None /\ a.own # None => a.unit = a.own

\* The unit after the expansion of bare names.
UnitOf(a, top, expands) ==
  CASE a.unit # None -> a.unit
    [] a.unit = None /\ a.own # None -> a.own
    [] OTHER -> IF expands THEN top ELSE None

\* Mutation: the policy id of the unit is not compared with the policy.
UnitsMatchAnyPolicy(actions, top, expands) == TRUE

\* Every action without its own policy names the request's.
UnitsMatch(actions, top, expands) ==
  \A a \in Range(actions) : a.own = None => UnitOf(a, top, expands) = top

\* _mintActionScript and the redeemer _buildMintEntries encodes for an action.
Minted(a, raw, top, expands) ==
  [policy |-> IF a.own # None THEN a.own ELSE top, by |-> a.by, qty |-> a.qty,
   unit |-> UnitOf(a, top, expands),
   redeemer |-> IF a.redeemer # None THEN a.redeemer ELSE raw.redeemer]

-----------------------------------------------------------------------------
(* One operator per handler for what it refuses, one for what it hands on.    *)

Handed(raw) ==
  [kind |-> raw.kind, outs |-> raw.outs, force |-> raw.force, protect |-> raw.protect,
   refs |-> raw.refs, signers |-> raw.signers,
   datum |-> raw.datum, scripts |-> <<>>, mints |-> <<>>, withdrawals |-> <<>>, certs |-> <<>>]

\* The primary output goes to the address of the script.
LockedOn(outs, lock, script) == IF lock THEN [outs EXCEPT ![1].at = script] ELSE outs

\* BuildSimpleAdaTransaction
TransferOk(raw) ==
  /\ AtMostOne(raw.datum)
  /\ raw.lock => raw.validator # None

TransferRequest(raw) ==
  [Handed(raw) EXCEPT !.outs = LockedOn(@, raw.lock, Applied(raw.validator, raw.params))]

\* BuildMultiAssetTransaction
MultiAssetOk(raw) == AtMostOne(raw.datum) /\ raw.outs[1].tok > 0

\* BuildMintTransaction
MintTop(raw) == Applied(raw.policy, raw.params)

MintOk(raw) ==
  /\ raw.policy # None /\ raw.actions # <<>>
  /\ \A a \in Range(raw.actions) : ActionOk(a, raw.params # "none")
  /\ raw.lock => raw.params = "some"
  /\ UnitsMatch(raw.actions, MintTop(raw), raw.params = "some")

MintRequest(raw) ==
  [Handed(raw) EXCEPT
     !.outs = LockedOn(@, raw.lock, MintTop(raw)),
     !.mints = [i \in DOMAIN raw.actions |->
                  Minted(raw.actions[i], raw, MintTop(raw), raw.params = "some")]]

\* BuildPlutusSpendTransaction: a policy equal to the validator takes its
\* parameters as well.
SharesParams(raw) == raw.policy = raw.validator
SpendTop(raw) == IF SharesParams(raw) THEN Applied(raw.policy, raw.params) ELSE raw.policy

SpendOk(raw) ==
  /\ raw.validator # None /\ Len(raw.inputs) = 1
  /\ raw.lock => raw.params = "some"
  /\ raw.actions = <<>> => raw.policy = None /\ raw.redeemer = None
  /\ raw.actions # <<>> =>
       /\ raw.policy # None
       /\ \A a \in Range(raw.actions) : ActionOk(a, raw.params # "none" /\ SharesParams(raw))
       /\ UnitsMatch(raw.actions, SpendTop(raw), raw.params = "some" /\ SharesParams(raw))

SpendRequest(raw) ==
  LET validator == Applied(raw.validator, raw.params)
  IN [Handed(raw) EXCEPT
        !.outs = LockedOn(@, raw.lock, validator),
        !.scripts = <<[ref |-> raw.inputs[1].ref, script |-> validator, by |-> None]>>,
        !.mints = [i \in DOMAIN raw.actions |->
                     Minted(raw.actions[i], raw, SpendTop(raw),
                            raw.params = "some" /\ SharesParams(raw))]]

-----------------------------------------------------------------------------
(* BuildPlutusTransaction.                                                    *)

\* parseScriptInputs
ScriptInputsOk(inputs) ==
  /\ Len(inputs) <= MaxEntries /\ IsInjective([i \in DOMAIN inputs |-> inputs[i].ref])
  /\ \A i \in Range(inputs) :
       /\ (i.script = None) # (i.by = None)
       /\ i.params # "none" => i.script # None
       /\ ExactlyOne(i.redeemer) /\ AtMostOne(i.datum)

\* parseStakingScriptWitness
StakingScriptOk(w) ==
  /\ w.script = None \/ w.by = None
  /\ w.params # "none" => w.script # None
  /\ IF w.script # None \/ w.by # None THEN ExactlyOne(w.redeemer) ELSE w.redeemer = {}

\* parseWithdrawals
WithdrawalsOk(list) ==
  /\ Len(list) <= MaxEntries /\ IsInjective([i \in DOMAIN list |-> list[i].account])
  /\ \A w \in Range(list) : w.ll >= 0 /\ StakingScriptOk(w)

\* parseCertificates
CertificatesOk(list) ==
  /\ Len(list) <= MaxEntries
  /\ \A c \in Range(list) : c.type \in {"register", "deregister"} /\ StakingScriptOk(c)

\* parsePolicyMintActions: no default policy; a referenced one is known only
\* to the builder, so its unit must be whole.
PolicyActionsOk(actions) ==
  \A a \in Range(actions) :
    /\ (a.own = None) # (a.by = None)
    /\ a.qty # 0 /\ PolicyFieldsOk(a, a.by # None)
    /\ IF a.by # None THEN a.unit # None ELSE a.unit \in {None, a.own}

PlutusOk(raw) ==
  /\ raw.outs # <<>>
  /\ ScriptInputsOk(raw.inputs)
  /\ WithdrawalsOk(raw.withdrawals) /\ CertificatesOk(raw.certs)
  /\ PolicyActionsOk(raw.actions)

\* Script parameters are applied here.
Final(list) == [i \in DOMAIN list |-> [list[i] EXCEPT !.script = Applied(@, list[i].params)]]

PlutusRequest(raw) ==
  [Handed(raw) EXCEPT
     !.scripts = Final(raw.inputs), !.withdrawals = Final(raw.withdrawals),
     !.certs = Final(raw.certs),
     !.mints = [i \in DOMAIN raw.actions |-> Minted(raw.actions[i], raw, None, FALSE)]]

-----------------------------------------------------------------------------
Accepted(raw) ==
  CASE raw.kind = "mint" -> MintOk(raw)
    [] raw.kind = "spend" -> SpendOk(raw)
    [] raw.kind = "plutus" -> PlutusOk(raw)
    [] raw.kind = "multiAsset" -> MultiAssetOk(raw)
    [] OTHER -> TransferOk(raw)

Request(raw) ==
  CASE raw.kind = "mint" -> MintRequest(raw)
    [] raw.kind = "spend" -> SpendRequest(raw)
    [] raw.kind = "plutus" -> PlutusRequest(raw)
    [] OTHER -> TransferRequest(raw)
=============================================================================
