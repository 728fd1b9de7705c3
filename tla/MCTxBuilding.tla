----------------------------- MODULE MCTxBuilding -----------------------------
(* A sender with two plain UTxOs, one with tokens and one that carries a      *)
(* deployed policy; another key's UTxO and one at a validator.  Slot 1 builds *)
(* anything and keeps it, slot 2 runs a wallet's jobs and submits them.       *)
EXTENDS TxBuilding

CONSTANTS sender, other, stake, low

Script(code) == [code |-> code, applied |-> FALSE]
Validator == Script("v")
Policy == Script("p")
Bad == Script("bad")

MCBroken == {Bad}
MCKeys == {other, stake, low}
MCLow == {low}

U(ix, at, ll, tok, script) ==
  [ref |-> <<0, ix>>, at |-> at, ll |-> ll, tok |-> tok, script |-> script]
MCGenesis ==
  {U(1, sender, 4, 0, None), U(2, sender, 3, 0, None), U(3, sender, 2, 1, None),
   U(4, sender, 3, 0, Policy), U(5, other, 2, 1, None), U(6, Validator, 2, 1, None)}
r(ix) == <<0, ix>>

Out(at, ll, tok) == [at |-> at, ll |-> ll, tok |-> tok, script |-> None]
Raw(kind, outs) ==
  [kind |-> kind, outs |-> outs, force |-> {}, protect |-> {}, refs |-> {}, signers |-> {},
   datum |-> {}, params |-> "none", lock |-> FALSE, policy |-> None, validator |-> None,
   actions |-> <<>>, redeemer |-> None, metadata |-> FALSE, inputs |-> <<>>, withdrawals |-> <<>>, certs |-> <<>>]

Act(own, by, unit, qty, redeemer) ==
  [own |-> own, by |-> by, unit |-> unit, qty |-> qty, redeemer |-> redeemer]
In(ref, script, by, params) ==
  [ref |-> ref, script |-> script, by |-> by, params |-> params, redeemer |-> {"json"}, datum |-> {"cbor"}]
Stake(account, ll, script, by) ==
  [account |-> account, ll |-> ll, script |-> script, by |-> by, params |-> "none", type |-> "register",
   redeemer |-> IF script = None /\ by = None THEN {} ELSE {"cbor"}]
Dereg(w) == [w EXCEPT !.type = "deregister"]

\* Transfers: plain, forced with protection, a deployed or a foreign UTxO
\* forced, too much, a lock, tokens.
T(ll, tok) == Raw("transfer", <<Out(other, ll, tok)>>)
Transfers ==
  {T(2, 0), [T(2, 1) EXCEPT !.protect = {r(1)}],
   [T(1, 0) EXCEPT !.force = {r(3)}, !.protect = {r(2)}],
   [T(2, 0) EXCEPT !.force = {r(1)}, !.protect = {r(1)}],
   [T(2, 0) EXCEPT !.force = {r(4), r(5)}], T(8, 0),
   [T(2, 0) EXCEPT !.lock = TRUE, !.validator = Validator, !.params = "some"],
   [T(2, 0) EXCEPT !.lock = TRUE], [T(2, 0) EXCEPT !.datum = {"json", "cbor"}],
   Raw("multiAsset", <<Out(other, 1, 1)>>), Raw("collateral", <<>>)}

\* Mints: full and bare units, parameters, own policies, redeemers that
\* differ, a burn, a policy that fails, extra outputs.
M(policy, actions) == [Raw("mint", <<Out(sender, 1, 0)>>) EXCEPT !.policy = policy, !.actions = actions]
Mints ==
  {M(Policy, <<Act(None, None, Policy, 1, None)>>),
   M(Policy, <<Act(None, None, Validator, 1, None)>>),
   M(Policy, <<Act(None, None, None, 1, None)>>),
   [M(Policy, <<Act(None, None, None, 1, None)>>) EXCEPT !.params = "some", !.lock = TRUE],
   [M(Policy, <<Act(None, None, Policy, 1, None)>>) EXCEPT !.params = "some"],
   [M(Policy, <<Act(None, None, None, 1, None)>>) EXCEPT !.params = "empty"],
   M(Policy, <<Act(Validator, None, None, 1, "x"), Act(None, None, Policy, -1, None)>>),
   M(Policy, <<Act(Policy, None, Policy, 1, "x"), Act(None, None, Policy, 1, None)>>),
   M(Bad, <<Act(None, None, Bad, 1, None)>>),
   [M(Policy, <<Act(None, None, Policy, 1, None)>>) EXCEPT
      !.outs = <<Out(sender, 1, 0), Out(other, 1, 1)>>, !.force = {r(1)}, !.refs = {r(5)},
      !.protect = {r(2)}],
   [M(Policy, <<Act(None, None, Policy, 1, None)>>) EXCEPT !.refs = {r(2)}, !.protect = {r(1)}]}

\* Script spends: with parameters, with a mint under the same or another script.
S(outs) == [Raw("spend", outs) EXCEPT !.validator = Validator, !.inputs = <<In(r(6), None, None, "none")>>]
Spends ==
  {S(<<Out(Validator, 1, 0)>>),
   [S(<<Out(sender, 4, 0), Out(other, 2, 0)>>) EXCEPT !.force = {r(6)}, !.protect = {r(3)}],
   [S(<<Out(sender, 1, 0)>>) EXCEPT !.params = "some", !.lock = TRUE, !.policy = Validator,
      !.actions = <<Act(None, None, None, 1, None)>>],
   [S(<<Out(sender, 1, 0)>>) EXCEPT !.params = "some", !.policy = Policy,
      !.actions = <<Act(None, None, Policy, 1, None)>>],
   [S(<<Out(sender, 1, 0)>>) EXCEPT !.redeemer = "x"],
   [S(<<Out(sender, 1, 0)>>) EXCEPT !.validator = Bad, !.refs = {r(4)}]}

\* Multi-script builds: a policy inline and by reference, a foreign input with
\* and without its owner's signature, withdrawals and certificates of keys and
\* scripts.
P(outs) == Raw("plutus", outs)
Plutuses ==
  {[P(<<Out(sender, 1, 1)>>) EXCEPT !.inputs = <<In(r(6), Validator, None, "none")>>],
   [P(<<Out(sender, 1, 2)>>) EXCEPT !.inputs = <<In(r(6), Validator, None, "some")>>, !.refs = {r(4)},
      !.actions = <<Act(Policy, None, None, 1, "x"), Act(None, r(4), Policy, -1, "x")>>],
   [P(<<Out(sender, 1, 0)>>) EXCEPT !.actions = <<Act(Policy, None, None, 1, None)>>, !.refs = {r(4)},
      !.protect = {r(1)}],
   [P(<<Out(other, 2, 0), Out(sender, 1, 0)>>) EXCEPT !.force = {r(5)}, !.signers = {other}],
   [P(<<Out(other, 2, 1), Out(sender, 1, 0)>>) EXCEPT !.force = {r(5)}, !.signers = {other}],
   [P(<<Out(other, 2, 1)>>) EXCEPT !.force = {r(5)}],
   [P(<<Out(sender, 1, 0)>>) EXCEPT !.withdrawals = <<Stake(stake, 1, None, None), Stake(Policy, 0, None, r(4))>>],
   [P(<<Out(sender, 1, 0)>>) EXCEPT !.withdrawals = <<Stake(low, 1, None, None), Stake(Policy, 0, Policy, None)>>],
   [P(<<Out(sender, 1, 0)>>) EXCEPT !.certs = <<Stake(Validator, 0, None, None)>>,
      !.withdrawals = <<Stake(Validator, 0, Validator, None)>>],
   [P(<<Out(sender, 1, 0)>>) EXCEPT !.certs = <<Dereg(Stake(Validator, 0, Validator, None)), Dereg(Stake(stake, 0, None, None))>>],
   [P(<<Out(sender, 1, 0)>>) EXCEPT !.certs = <<Stake(Validator, 0, Policy, None)>>],
   [P(<<Out(sender, 1, 0)>>) EXCEPT !.inputs = <<In(r(6), None, r(1), "none")>>],
   [P(<<Out(sender, 1, 0)>>) EXCEPT !.inputs = <<In(r(6), Bad, None, "none")>>, !.protect = {r(6)}]}

\* Stored jobs of slot 2: both datum forms, forced inputs that are ignored, no tokens, locks
\* without a script or parameters, mints without actions and under the wrong
\* policy, a spend, a kind the worker does not know.
JobRaw(kind, raw) == [raw EXCEPT !.kind = kind]
StoredJobs ==
  {JobRaw("simpleAda", [T(2, 0) EXCEPT !.datum = {"json", "cbor"}]),
   JobRaw("simpleAda", [T(2, 0) EXCEPT !.lock = TRUE]),
   JobRaw("metadata", T(2, 0)),
   JobRaw("metadata", [T(2, 0) EXCEPT !.metadata = TRUE, !.force = {r(1)}, !.protect = {r(3)}]),
   JobRaw("multiAsset", T(2, 0)),
   JobRaw("plutus", T(1, 0)),
   M(Policy, <<>>), [M(Policy, <<Act(None, None, Policy, 1, None)>>) EXCEPT !.lock = TRUE],
   M(Policy, <<Act(None, None, Validator, 1, None)>>),
   JobRaw("plutusSpend", S(<<Out(sender, 1, 0)>>))}

MCSlots == {1, 2}
MCOffers == <<Transfers \cup Mints \cup Spends \cup Plutuses, {}>>
MCJobs == <<{}, StoredJobs>>
=============================================================================
