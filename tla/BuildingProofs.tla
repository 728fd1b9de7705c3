---------------------------- MODULE BuildingProofs ----------------------------
(***************************************************************************)
(* Proofs about building transactions, for every number of builds beside   *)
(* each other, every chain, and every request a handler or a job accepts.  *)
(*                                                                         *)
(* What a build may name is decided in several places: pending-spends.ts   *)
(* offers the UTxOs, the resolution of references looks others up, coin    *)
(* selection takes from the rest.  BuildInv follows a UTxO through them.   *)
(* Ids gives every transaction its own outputs, so that a reference means  *)
(* one UTxO in the mempool, on the chain and in every build (Old).         *)
(* Remembered says that a transaction in the mempool that a build knew at  *)
(* its start is still among the pending ones: a crawled output is the only *)
(* reason to forget it.  Pooled is what a build holds while it resolves,   *)
(* Finished what the transaction it ends with names.                       *)
(***************************************************************************)
EXTENDS TxBuilding, SequenceTheorems, FiniteSetTheorems, WellFoundedInduction, TLAPS

--------------------------------------------------------------------------------
(* Transactions and references.                                            *)

\* Every transaction somebody still holds.
Held == Tip \cup mempool \cup pending \cup {slot[s].sent : s \in {z \in Slots : slot[z].pc = "submitted"}}

Ids ==
  /\ sent \in Nat
  /\ \A t \in Held : t.id \in 0 .. sent /\ \A u \in t.outs : u.ref[1] = t.id
  /\ \A t, v \in Held : t.id = v.id => t = v
  /\ \A t \in Held : \A u, v \in t.outs : u.ref = v.ref => u = v
  /\ mempool \cap Tip = {}
  /\ chain \in Seq(Range(chain)) /\ crawled \in 0 .. Len(chain)

Remembered ==
  \A s \in Slots : (\A t \in slot[s].known : t.id \in 0 .. sent) /\ slot[s].known \cap mempool \subseteq pending

--------------------------------------------------------------------------------
(* Requests.                                                               *)

ReqFields == {"kind", "outs", "force", "protect", "refs", "signers", "datum",
              "scripts", "mints", "withdrawals", "certs"}
IsList(f) == f \in Seq(Range(f))

ReqOk(req) ==
  /\ DOMAIN req = ReqFields
  /\ IsList(req.scripts) /\ IsList(req.mints) /\ IsList(req.withdrawals) /\ IsList(req.certs)
  /\ req.kind \notin {"spend", "plutus"} => req.scripts = <<>>
  /\ req.kind \notin {"mint", "spend"} => req.kind = "plutus" \/ (req.mints = <<>> /\ req.refs = {})
  /\ req.kind # "plutus" => \A i \in DOMAIN req.mints : req.mints[i].policy = req.mints[i].unit

--------------------------------------------------------------------------------
(* Builds.                                                                 *)

NamedBy(req) == req.force \cup ScriptRefs(req)
Plain(u) == u.at = Sender /\ u.script = None

\* What a group of references becomes.
Resolved(b, group) ==
  CASE group \in {"script", "scriptInput", "force"} -> Named(b.req, group) \subseteq Refs(b.utxos)
    [] group \in {"refScript", "refs"} -> Named(b.req, group) \subseteq Refs(b.refu)
    [] OTHER -> TRUE

\* The world a build lives in: n transactions were made, outs are the outputs of those
\* still held, on the ones on the chain, mp is the mempool.  A reference is old when its
\* transaction was made; a UTxO a build holds is the one its reference means.
Old(r, n) == r[1] \in 0 .. n
Means(u, n, outs) == Old(u.ref, n) /\ \A v \in outs : v.ref = u.ref => v = u

\* While it resolves: the UTxOs at hand mean what their references say, no pending
\* transaction the build knew spends one, deployed scripts are on the chain, and only
\* what was named is not the sender's.
Pooled(b, n, outs, on, mp) ==
  /\ DOMAIN b = {"pc", "known", "req", "utxos", "refu", "todo"}
  /\ ReqOk(b.req)
  /\ b.todo \in Seq(Range(Groups(b.req.kind)))
  /\ \A group \in Range(Groups(b.req.kind)) : group \in Range(b.todo) \/ Resolved(b, group)
  /\ \A u \in b.utxos \cup b.refu : Means(u, n, outs) /\ (u.script # None => u \in on)
  /\ \A u \in b.utxos : Plain(u) \/ u.ref \in NamedBy(b.req)
  /\ \A t \in b.known \cap mp : t.ins \cap Refs(b.utxos \cup b.refu) = {}

\* What a transaction names, once it is drafted.
Names(tx) == tx.ins \cup tx.coll \cup tx.refs

\* A draft spends what it was told and nothing it was told to leave.
Obeys(req, tx) ==
  /\ NamedBy(req) \subseteq tx.ins
  /\ Taken(tx) \cap (req.protect \ ScriptRefs(req)) = {}
  /\ Taken(tx) \cap (tx.refs \ ScriptRefs(req)) = {}
Owned(req, tx, outs) == \A u \in outs : u.ref \in Taken(tx) \ NamedBy(req) => Plain(u)

\* One collateral for a draft that runs scripts.
Pledges(tx, outs) ==
  /\ tx.runs = {} => tx.coll = {}
  /\ tx.runs # {} => \E r : tx.coll = {r}
  /\ \A u \in outs : u.ref \in tx.coll => u.at = Sender /\ u.tok = 0 /\ u.script = None

\* Policies, and for a BuildPlutusTransaction where its scripts are.
Minting(tx) ==
  \A m, n \in tx.mints : m.policy = m.unit /\ (m.policy = n.policy => m.redeemer = n.redeemer)
Provided(req, tx, outs, on) ==
  req.kind = "plutus" => \A p \in tx.runs :
    \/ p \in tx.inline /\ \A u \in outs : u.ref \in tx.refs => u.script # p
    \/ p \notin tx.inline /\ \E u \in on : u.ref \in tx.refs /\ u.script = p

Finished(b, n, outs, on, mp) ==
  /\ DOMAIN b = {"pc", "known", "req", "tx"}
  /\ \A r \in Names(b.tx) : Old(r, n)
  /\ \A t \in b.known \cap mp : t.ins \cap Names(b.tx) = {}
  /\ Obeys(b.req, b.tx) /\ Owned(b.req, b.tx, outs)
  /\ Pledges(b.tx, outs) /\ Minting(b.tx) /\ Provided(b.req, b.tx, outs, on)

Pcs == {"idle", "read", "apply", "resolve", "evaluate", "built", "submitted"}
BuildOk(b, n, outs, on, mp) ==
  /\ b.pc \in Pcs /\ {"pc", "known"} \subseteq DOMAIN b
  /\ b.pc \in {"read", "apply"} => "req" \in DOMAIN b /\ ReqOk(b.req)
  /\ b.pc = "apply" => "list" \in DOMAIN b /\ b.list \subseteq At(on, Sender)
  /\ b.pc = "resolve" => Pooled(b, n, outs, on, mp)
  /\ b.pc \in {"evaluate", "built"} => Finished(b, n, outs, on, mp)
  /\ b.pc = "built" => b.tx.runs \cap Broken = {}
  /\ b.pc = "submitted" => "sent" \in DOMAIN b

Builds == \A s \in Slots : BuildOk(slot[s], sent, Outputs(Held), Outputs(Tip), mempool)

BuildInv == slot \in [Slots -> Range(slot)] /\ Ids /\ Remembered /\ Builds

--------------------------------------------------------------------------------
(* A build in a world that moves on.                                       *)

\* One entry of slot changes.
LEMMA Put ==
  ASSUME slot \in [Slots -> Range(slot)], NEW s \in Slots, NEW c, Goes(s, c)
  PROVE  slot' \in [Slots -> Range(slot')] /\ \A z \in Slots : slot'[z] = IF z = s THEN c ELSE slot[z]
<1>1. slot' = [z \in Slots |-> IF z = s THEN c ELSE slot[z]]
  BY DEF Goes
<1> QED BY <1>1 DEF Range

\* What a build holds stays true when transactions are made, and when the build knows
\* fewer of them.
LEMMA Later ==
  ASSUME NEW b, NEW c, NEW n \in Nat, NEW outs, NEW on, NEW mp,
         NEW n2 \in Nat, NEW outs2, NEW on2, NEW mp2,
         BuildOk(b, n, outs, on, mp), n <= n2, on \subseteq on2,
         \A u \in outs2 : u \in outs \/ ~Old(u.ref, n),
         DOMAIN c = DOMAIN b, \A f \in DOMAIN b \ {"known"} : c[f] = b[f],
         \A t \in c.known \cap mp2 : t \in b.known \cap mp
  PROVE  BuildOk(c, n2, outs2, on2, mp2)
<1>0. /\ c.pc = b.pc
      /\ b.pc \in {"read", "apply"} => c.req = b.req
      /\ b.pc = "apply" => c.list = b.list
      /\ b.pc = "resolve" => c.req = b.req /\ c.utxos = b.utxos /\ c.refu = b.refu /\ c.todo = b.todo
      /\ b.pc \in {"evaluate", "built"} => c.req = b.req /\ c.tx = b.tx
  BY DEF BuildOk, Pooled, Finished
<1>1. \A r : Old(r, n) => Old(r, n2)
  BY DEF Old
<1>2. \A u : Means(u, n, outs) => Means(u, n2, outs2)
  BY <1>1 DEF Means
<1>3. ASSUME b.pc = "resolve" PROVE Pooled(c, n2, outs2, on2, mp2)
  <2>1. Pooled(b, n, outs, on, mp) BY <1>3 DEF BuildOk
  <2>2. \A group : Resolved(b, group) => Resolved(c, group)
    BY <1>0, <1>3 DEF Resolved
  <2> QED BY <2>1, <2>2, <1>0, <1>2, <1>3 DEF Pooled
<1>4. ASSUME b.pc \in {"evaluate", "built"} PROVE Finished(c, n2, outs2, on2, mp2)
  <2>1. Finished(b, n, outs, on, mp) BY <1>4 DEF BuildOk
  <2>2. c.req = b.req /\ c.tx = b.tx BY <1>0, <1>4
  <2>3. \A r \in Names(b.tx) : Old(r, n) BY <2>1 DEF Finished
  <2>4. \A u \in outs2 : u.ref \in Names(b.tx) => u \in outs BY <2>3
  <2>5. Owned(b.req, b.tx, outs2)
    BY <2>1, <2>4 DEF Finished, Owned, Names, Taken
  <2>6. Pledges(b.tx, outs2)
    BY <2>1, <2>4 DEF Finished, Pledges, Names
  <2>7. Provided(b.req, b.tx, outs2, on2)
    BY <2>1, <2>4 DEF Finished, Provided, Names
  <2> QED BY <2>1, <2>2, <2>3, <2>5, <2>6, <2>7, <1>1 DEF Finished
<1> QED BY <1>0, <1>3, <1>4 DEF BuildOk, At

\* Ids is about fewer transactions.
LEMMA Fewer ==
  ASSUME Ids, Held' \subseteq Held, mempool' \subseteq mempool, sent' = sent, chain' = chain,
         crawled' \in 0 .. Len(chain)
  PROVE  Ids'
<1>1. Tip' = Tip BY DEF Tip, Blocks
<1> QED BY <1>1 DEF Ids

\* One build goes on by itself; the pending transactions may become fewer, but none that
\* a build knew and the mempool holds.
LEMMA Alone ==
  ASSUME BuildInv, NEW s \in Slots, NEW c, Goes(s, c),
         UNCHANGED <<chain, crawled, mempool, sent>>, pending' \subseteq pending,
         c.pc # "submitted", BuildOk(c, sent, Outputs(Held), Outputs(Tip), mempool),
         \A t \in c.known : t \in slot[s].known \/ t \in pending,
         \A t \in pending \ pending' : t \notin mempool
  PROVE  BuildInv'
<1>1. slot' \in [Slots -> Range(slot')] /\ \A z \in Slots : slot'[z] = IF z = s THEN c ELSE slot[z]
  BY Put DEF BuildInv
<1>2. Tip' = Tip BY DEF Tip, Blocks
<1>3. Held' \subseteq Held
  BY <1>1, <1>2 DEF Held
<1>4. Ids'
  <2>1. crawled' \in 0 .. Len(chain) BY DEF BuildInv, Ids
  <2> QED BY <2>1, <1>3, Fewer DEF BuildInv
<1>5. Outputs(Held)' \subseteq Outputs(Held) /\ Outputs(Tip)' = Outputs(Tip)
  BY <1>2, <1>3 DEF Outputs
<1>6. Remembered'
  <2>1. \A t \in pending : t.id \in 0 .. sent BY DEF BuildInv, Ids, Held
  <2>2. \A z \in Slots : \A t \in slot'[z].known : t.id \in 0 .. sent
    BY <1>1, <2>1 DEF BuildInv, Remembered
  <2>3. \A z \in Slots : slot'[z].known \cap mempool \subseteq pending
    BY <1>1 DEF BuildInv, Remembered
  <2> QED BY <2>2, <2>3 DEF Remembered
<1>7. ASSUME NEW z \in Slots
      PROVE  BuildOk(slot'[z], sent', Outputs(Held)', Outputs(Tip)', mempool')
  <2> DEFINE b == IF z = s THEN c ELSE slot[z]
  <2>1. BuildOk(b, sent, Outputs(Held), Outputs(Tip), mempool)
    BY DEF BuildInv, Builds
  <2>2. sent \in Nat BY DEF BuildInv, Ids
  <2> HIDE DEF b
  <2>a. sent' = sent /\ mempool' = mempool /\ sent <= sent BY <2>2
  <2>b. Outputs(Tip) \subseteq Outputs(Tip)' BY <1>5
  <2>c. \A u \in Outputs(Held)' : u \in Outputs(Held) \/ ~Old(u.ref, sent) BY <1>5
  <2>d. \A t \in b.known \cap mempool' : t \in b.known \cap mempool BY <2>a
  <2>3. BuildOk(b, sent', Outputs(Held)', Outputs(Tip)', mempool')
    BY <2>1, <2>2, <2>a, <2>b, <2>c, <2>d, Later
  <2> QED BY <2>3, <1>1 DEF b
<1> QED BY <1>1, <1>4, <1>6, <1>7 DEF BuildInv, Builds

\* A build ends, or is refused.
LEMMA Ends ==
  ASSUME BuildInv, NEW s \in Slots, Refuse(s), UNCHANGED <<chain, crawled, mempool, sent, pending>>
  PROVE  BuildInv'
<1>1. BuildOk(Idle, sent, Outputs(Held), Outputs(Tip), mempool)
  BY DEF Idle, BuildOk, Pcs
<1>2. Goes(s, Idle) /\ Idle.pc # "submitted" /\ Idle.known = {} BY DEF Refuse, Idle
<1> QED BY <1>1, <1>2, Alone

--------------------------------------------------------------------------------
(* What the handlers and the jobs hand on.                                 *)

\* A function over the indices of a list is a list.
LEMMA Mapped ==
  ASSUME NEW f, IsList(f), NEW g, g = [i \in DOMAIN f |-> g[i]]
  PROVE  IsList(g) /\ DOMAIN g = 1 .. Len(f) /\ Len(g) = Len(f)
<1>1. DOMAIN f = 1 .. Len(f) /\ Len(f) \in Nat BY DEF IsList
<1>2. g \in [1 .. Len(f) -> Range(g)] BY <1>1 DEF Range
<1> QED BY <1>1, <1>2 DEF IsList

\* The empty list, and a list of one.
LEMMA Short == IsList(<<>>) /\ \A x : IsList(<<x>>)
<1>1. \A x : Range(<<x>>) = {x} BY DEF Range
<1> QED BY <1>1 DEF IsList

\* What a handler hands on before it adds anything.
LEMMA HandedOn ==
  ASSUME NEW raw
  PROVE  /\ DOMAIN Handed(raw) = ReqFields
         /\ Handed(raw).kind = raw.kind /\ Handed(raw).refs = raw.refs
         /\ Handed(raw).scripts = <<>> /\ Handed(raw).mints = <<>>
         /\ Handed(raw).withdrawals = <<>> /\ Handed(raw).certs = <<>>
BY DEF Handed, ReqFields

\* A request without scripts and mints.
LEMMA PlainRequest ==
  ASSUME NEW req, DOMAIN req = ReqFields, req.scripts = <<>>, req.mints = <<>>,
         req.withdrawals = <<>>, req.certs = <<>>, req.refs = {}
  PROVE  ReqOk(req)
BY Short DEF ReqOk

\* A unit stands under the action's own policy.
OwnUnits(actions) ==
  \A i \in DOMAIN actions :
    actions[i].unit # None /\ actions[i].own # None => actions[i].unit = actions[i].own

\* parseMintActions: every entry mints under the policy its unit names.
LEMMA UnitsNamePolicies ==
  ASSUME NEW raw, NEW actions, NEW top, NEW expands, OwnUnits(actions), UnitsMatch(actions, top, expands),
         NEW i \in DOMAIN actions
  PROVE  LET m == Minted(actions[i], raw, top, expands) IN m.policy = m.unit
<1> DEFINE a == actions[i]
<1>1. a \in Range(actions) BY DEF Range
<1>2. CASE a.own = None
  BY <1>1, <1>2 DEF UnitsMatch, Minted
<1>3. CASE a.own # None
  BY <1>1, <1>3 DEF OwnUnits, Minted, UnitOf
<1> QED BY <1>2, <1>3

\* A request that mints under the policies its units name, and spends a script UTxO
\* only as its handler says.
LEMMA MintingRequest ==
  ASSUME NEW req, DOMAIN req = ReqFields, req.kind \in {"mint", "spend"}, IsList(req.scripts),
         req.kind = "mint" => req.scripts = <<>>, req.withdrawals = <<>>, req.certs = <<>>,
         IsList(req.mints), \A i \in DOMAIN req.mints : req.mints[i].policy = req.mints[i].unit
  PROVE  ReqOk(req)
BY Short DEF ReqOk

\* The lists of a BuildPlutusTransaction.
LEMMA FinalList == ASSUME NEW list, IsList(list) PROVE IsList(Final(list))
<1> DEFINE g == Final(list)
<1>1. g = [i \in DOMAIN list |-> g[i]] BY DEF Final
<1> HIDE DEF g
<1>2. IsList(g) BY <1>1, Mapped
<1> QED BY <1>2 DEF g

\* Whatever a handler of a build action accepts.
LEMMA RequestIsOk ==
  ASSUME NEW raw, RawOk(raw, {"mint", "spend", "plutus"}), Accepted(raw)
  PROVE  ReqOk(Request(raw))
<1>1. CASE raw.kind = "mint"
  <2> DEFINE req == MintRequest(raw)
             actions == raw.actions
             mints == req.mints
             own == raw.params = "some"
  <2>1. Request(raw) = req BY <1>1 DEF Request
  <2>2. MintOk(raw) BY <1>1 DEF Accepted
  <2>3. /\ DOMAIN req = ReqFields /\ req.kind = "mint" /\ req.scripts = <<>>
        /\ req.withdrawals = <<>> /\ req.certs = <<>>
        /\ req.mints = [i \in DOMAIN actions |-> Minted(actions[i], raw, MintTop(raw), own)]
    BY <1>1, HandedOn DEF MintRequest, ReqFields
  <2>4. OwnUnits(actions) /\ UnitsMatch(actions, MintTop(raw), own)
    BY <2>2 DEF MintOk, ActionOk, OwnUnits, Range
  <2> HIDE DEF req, own
  <2>5. IsList(actions) BY DEF RawOk, IsList
  <2>6. mints = [i \in DOMAIN actions |-> mints[i]] /\ DOMAIN mints = DOMAIN actions
    BY <2>3
  <2> HIDE DEF actions, mints
  <2>7. IsList(mints) BY <2>5, <2>6, Mapped
  <2>8. ASSUME NEW i \in DOMAIN mints PROVE mints[i].policy = mints[i].unit
    <3>1. i \in DOMAIN actions BY <2>6
    <3>2. OwnUnits(actions) /\ UnitsMatch(actions, MintTop(raw), own) BY <2>4, <3>1
    <3>3. mints[i] = Minted(actions[i], raw, MintTop(raw), own) BY <2>3, <3>1 DEF mints
    <3> QED BY <3>1, <3>2, <3>3, UnitsNamePolicies
  <2> QED BY <2>1, <2>3, <2>7, <2>8, Short, MintingRequest DEF mints
<1>2. CASE raw.kind = "spend"
  <2> DEFINE req == SpendRequest(raw)
             actions == raw.actions
             mints == req.mints
             own == raw.params = "some" /\ SharesParams(raw)
             script == [ref |-> raw.inputs[1].ref, script |-> Applied(raw.validator, raw.params), by |-> None]
  <2>1. Request(raw) = req BY <1>2 DEF Request
  <2>2. SpendOk(raw) BY <1>2 DEF Accepted
  <2>3. /\ DOMAIN req = ReqFields /\ req.kind = "spend" /\ req.scripts = <<script>>
        /\ req.withdrawals = <<>> /\ req.certs = <<>>
        /\ req.mints = [i \in DOMAIN actions |-> Minted(actions[i], raw, SpendTop(raw), own)]
    BY <1>2, HandedOn DEF SpendRequest, ReqFields
  <2>4. actions # <<>> => OwnUnits(actions) /\ UnitsMatch(actions, SpendTop(raw), own)
    BY <2>2 DEF SpendOk, ActionOk, OwnUnits, Range
  <2> HIDE DEF req, own, script
  <2>5. IsList(actions) BY DEF RawOk, IsList
  <2>6. mints = [i \in DOMAIN actions |-> mints[i]] /\ DOMAIN mints = DOMAIN actions
    BY <2>3
  <2> HIDE DEF actions, mints
  <2>7. IsList(mints) BY <2>5, <2>6, Mapped
  <2>8. ASSUME NEW i \in DOMAIN mints PROVE mints[i].policy = mints[i].unit
    <3>1. i \in DOMAIN actions BY <2>6
    <3>2. OwnUnits(actions) /\ UnitsMatch(actions, SpendTop(raw), own) BY <2>4, <3>1
    <3>3. mints[i] = Minted(actions[i], raw, SpendTop(raw), own) BY <2>3, <3>1 DEF mints
    <3> QED BY <3>1, <3>2, <3>3, UnitsNamePolicies
  <2> QED BY <2>1, <2>3, <2>7, <2>8, Short, MintingRequest DEF mints
<1>3. CASE raw.kind = "plutus"
  <2> DEFINE req == PlutusRequest(raw)
             g == req.mints
  <2>1. Request(raw) = req BY <1>3 DEF Request
  <2>2. /\ DOMAIN req = ReqFields /\ req.kind = "plutus"
        /\ req.scripts = Final(raw.inputs) /\ req.withdrawals = Final(raw.withdrawals)
        /\ req.certs = Final(raw.certs)
        /\ req.mints = [i \in DOMAIN raw.actions |-> Minted(raw.actions[i], raw, None, FALSE)]
    BY <1>3, HandedOn DEF PlutusRequest, ReqFields
  <2>3. /\ IsList(raw.inputs) /\ IsList(raw.withdrawals) /\ IsList(raw.certs) /\ IsList(raw.actions)
    BY DEF RawOk, IsList
  <2>4. g = [i \in DOMAIN raw.actions |-> g[i]] BY <2>2
  <2> HIDE DEF g
  <2>5. IsList(g) BY <2>3, <2>4, Mapped
  <2> USE DEF g
  <2> HIDE DEF req
  <2> QED BY <2>1, <2>2, <2>3, <2>5, FinalList DEF ReqOk
<1>4. CASE raw.kind \notin {"mint", "spend", "plutus"}
  <2> DEFINE req == TransferRequest(raw)
  <2>1. Request(raw) = req BY <1>4 DEF Request
  <2>2. raw.refs = {} BY <1>4 DEF RawOk
  <2>3. /\ DOMAIN req = ReqFields /\ req.scripts = <<>> /\ req.mints = <<>>
        /\ req.withdrawals = <<>> /\ req.certs = <<>> /\ req.refs = {}
    BY <2>2, HandedOn DEF TransferRequest, ReqFields
  <2> HIDE DEF req
  <2> QED BY <2>1, <2>3, PlainRequest
<1> QED BY <1>1, <1>2, <1>3, <1>4

\* The jobs use the operators of the handlers.
LEMMA JHanded ==
  ASSUME NEW raw
  PROVE  /\ DOMAIN J!Handed(raw) = ReqFields
         /\ J!Handed(raw).kind = raw.kind /\ J!Handed(raw).refs = raw.refs
         /\ J!Handed(raw).scripts = <<>> /\ J!Handed(raw).mints = <<>>
         /\ J!Handed(raw).withdrawals = <<>> /\ J!Handed(raw).certs = <<>>
BY DEF J!Handed, ReqFields

\* A job's mints are made as a handler's are.
LEMMA JMinted ==
  /\ \A script, params : J!Applied(script, params) = Applied(script, params)
  /\ \A raw : J!MintTop(raw) = MintTop(raw) /\ J!SpendTop(raw) = SpendTop(raw)
              /\ J!SharesParams(raw) = SharesParams(raw)
  /\ \A a, raw, top, expands : J!Minted(a, raw, top, expands) = Minted(a, raw, top, expands)
BY DEF J!Applied, Applied, J!MintTop, MintTop, J!SpendTop, SpendTop, J!SharesParams, SharesParams,
       J!Minted, Minted, J!UnitOf, UnitOf

\* A job's actions pass the checks a handler makes of them.
LEMMA JChecks ==
  ASSUME NEW raw, NEW bareOk, NEW top, NEW expands, J!ActionsFit(raw, bareOk, top, expands)
  PROVE  OwnUnits(raw.actions) /\ UnitsMatch(raw.actions, top, expands)
<1>1. OwnUnits(raw.actions)
  BY DEF J!ActionsFit, J!ActionOk, OwnUnits
<1>2. \A a : J!UnitOf(a, top, expands) = UnitOf(a, top, expands)
  BY DEF J!UnitOf, UnitOf
<1>3. UnitsMatch(raw.actions, top, expands)
  <2>1. J!UnitsMatch(raw.actions, top, expands) BY DEF J!ActionsFit
  <2> QED BY <2>1, <1>2, Zenon DEF J!UnitsMatch, UnitsMatch, J!Range, Range
<1> QED BY <1>1, <1>3

\* Whatever a wallet job's request becomes.
LEMMA JobRequestIsOk ==
  ASSUME NEW raw, RawOk(raw, {"mint", "plutusSpend"}), J!JobAccepted(raw)
  PROVE  ReqOk(J!JobRequest(raw))
<1>1. CASE raw.kind = "mint"
  <2> DEFINE req == J!MintJob(raw)
             actions == raw.actions
             mints == req.mints
             own == raw.params = "some"
  <2>1. J!JobRequest(raw) = req BY <1>1 DEF J!JobRequest
  <2>2. J!MintJobOk(raw) BY <1>1 DEF J!JobAccepted
  <2>3. /\ DOMAIN req = ReqFields /\ req.kind = "mint" /\ req.scripts = <<>>
        /\ req.withdrawals = <<>> /\ req.certs = <<>>
        /\ req.mints = [i \in DOMAIN actions |-> Minted(actions[i], raw, MintTop(raw), own)]
    BY <1>1, JHanded, JMinted DEF J!MintJob, J!Mints, ReqFields
  <2>4. OwnUnits(actions) /\ UnitsMatch(actions, MintTop(raw), own)
    BY <2>2, JMinted, JChecks DEF J!MintJobOk
  <2> HIDE DEF req, own
  <2>5. IsList(actions) BY DEF RawOk, IsList
  <2>6. mints = [i \in DOMAIN actions |-> mints[i]] /\ DOMAIN mints = DOMAIN actions
    BY <2>3
  <2> HIDE DEF actions, mints
  <2>7. IsList(mints) BY <2>5, <2>6, Mapped
  <2>8. ASSUME NEW i \in DOMAIN mints PROVE mints[i].policy = mints[i].unit
    <3>1. i \in DOMAIN actions BY <2>6
    <3>2. OwnUnits(actions) /\ UnitsMatch(actions, MintTop(raw), own) BY <2>4, <3>1
    <3>3. mints[i] = Minted(actions[i], raw, MintTop(raw), own) BY <2>3, <3>1 DEF mints
    <3> QED BY <3>1, <3>2, <3>3, UnitsNamePolicies
  <2> QED BY <2>1, <2>3, <2>7, <2>8, Short, MintingRequest DEF mints
<1>2. CASE raw.kind = "plutusSpend"
  <2> DEFINE req == J!SpendJob(raw)
             actions == raw.actions
             mints == req.mints
             own == raw.params = "some" /\ SharesParams(raw)
             script == [ref |-> raw.inputs[1].ref, script |-> Applied(raw.validator, raw.params), by |-> None]
  <2>1. J!JobRequest(raw) = req BY <1>2 DEF J!JobRequest
  <2>2. J!SpendJobOk(raw) BY <1>2 DEF J!JobAccepted
  <2>3. /\ DOMAIN req = ReqFields /\ req.kind = "spend" /\ req.scripts = <<script>>
        /\ req.withdrawals = <<>> /\ req.certs = <<>>
        /\ req.mints = [i \in DOMAIN actions |-> Minted(actions[i], raw, SpendTop(raw), own)]
    BY <1>2, JHanded, JMinted DEF J!SpendJob, J!Mints, ReqFields
  <2>4. actions # <<>> => OwnUnits(actions) /\ UnitsMatch(actions, SpendTop(raw), own)
    BY <2>2, JMinted, JChecks DEF J!SpendJobOk
  <2> HIDE DEF req, own, script
  <2>5. IsList(actions) BY DEF RawOk, IsList
  <2>6. mints = [i \in DOMAIN actions |-> mints[i]] /\ DOMAIN mints = DOMAIN actions
    BY <2>3
  <2> HIDE DEF actions, mints
  <2>7. IsList(mints) BY <2>5, <2>6, Mapped
  <2>8. ASSUME NEW i \in DOMAIN mints PROVE mints[i].policy = mints[i].unit
    <3>1. i \in DOMAIN actions BY <2>6
    <3>2. OwnUnits(actions) /\ UnitsMatch(actions, SpendTop(raw), own) BY <2>4, <3>1
    <3>3. mints[i] = Minted(actions[i], raw, SpendTop(raw), own) BY <2>3, <3>1 DEF mints
    <3> QED BY <3>1, <3>2, <3>3, UnitsNamePolicies
  <2> QED BY <2>1, <2>3, <2>7, <2>8, Short, MintingRequest DEF mints
<1>3. CASE raw.kind \in {"simpleAda", "metadata", "multiAsset"}
  <2> DEFINE req == J!JobRequest(raw)
  <2>1. raw.refs = {} BY <1>3 DEF RawOk
  <2>2. /\ DOMAIN req = ReqFields /\ req.scripts = <<>> /\ req.mints = <<>>
        /\ req.withdrawals = <<>> /\ req.certs = <<>> /\ req.refs = {}
    BY <1>3, <2>1, JHanded DEF J!JobRequest, J!SimpleAdaJob, J!PlainJob, ReqFields
  <2> HIDE DEF req
  <2>3. ReqOk(req) BY <2>2, PlainRequest
  <2> QED BY <2>3 DEF req
<1> QED BY <1>1, <1>2, <1>3 DEF J!JobAccepted

--------------------------------------------------------------------------------
(* Up to the list of UTxOs.                                                *)

\* A reference to an output means that output.
LEMMA OutputsMean ==
  ASSUME Ids, NEW u \in Outputs(Held)
  PROVE  Means(u, sent, Outputs(Held))
<1>1. PICK t \in Held : u \in t.outs BY DEF Outputs
<1>2. t.id \in 0 .. sent /\ u.ref[1] = t.id BY <1>1 DEF Ids
<1>3. ASSUME NEW v \in Outputs(Held), v.ref = u.ref PROVE v = u
  <2>1. PICK w \in Held : v \in w.outs BY DEF Outputs
  <2>2. v.ref[1] = w.id BY <2>1 DEF Ids
  <2>3. w = t BY <1>2, <1>3, <2>2 DEF Ids
  <2> QED BY <1>1, <1>3, <2>1, <2>3 DEF Ids
<1> QED BY <1>2, <1>3 DEF Means, Old

\* What the chain and the pending transactions made.
LEMMA Made ==
  Outputs(Tip) \subseteq Outputs(Held) /\ Outputs(pending) \subseteq Outputs(Held)
BY DEF Outputs, Held

\* A request that passes its handler.
LEMMA AcceptStep == ASSUME BuildInv, NEW s \in Slots, Accept(s) PROVE BuildInv'
<1>1. PICK raw \in Offers[s] :
        Accepted(raw) /\ Goes(s, [pc |-> "read", known |-> pending, req |-> Request(raw)])
  BY DEF Accept
<1> DEFINE c == [pc |-> "read", known |-> pending, req |-> Request(raw)]
<1>2. ReqOk(Request(raw)) BY <1>1, RequestIsOk, BuildingAssumption
<1>3. BuildOk(c, sent, Outputs(Held), Outputs(Tip), mempool)
  BY <1>2 DEF BuildOk, Pcs
<1>4. Goes(s, c) /\ c.pc # "submitted" /\ c.known = pending BY <1>1
<1>5. UNCHANGED <<chain, crawled, mempool, sent, pending>> BY DEF Accept
<1> HIDE DEF c
<1> QED BY <1>3, <1>4, <1>5, Alone

\* A wallet's job.
LEMMA RunJobStep == ASSUME BuildInv, NEW s \in Slots, RunJob(s) PROVE BuildInv'
<1>1. PICK raw \in Jobs[s] :
        J!JobAccepted(raw) /\ Goes(s, [pc |-> "read", known |-> pending, req |-> J!JobRequest(raw)])
  BY DEF RunJob
<1> DEFINE c == [pc |-> "read", known |-> pending, req |-> J!JobRequest(raw)]
<1>2. ReqOk(J!JobRequest(raw)) BY <1>1, JobRequestIsOk, BuildingAssumption
<1>3. BuildOk(c, sent, Outputs(Held), Outputs(Tip), mempool)
  BY <1>2 DEF BuildOk, Pcs
<1>4. Goes(s, c) /\ c.pc # "submitted" /\ c.known = pending BY <1>1
<1>5. UNCHANGED <<chain, crawled, mempool, sent, pending>> BY DEF RunJob
<1> HIDE DEF c
<1> QED BY <1>3, <1>4, <1>5, Alone

\* _fetchUtxosForAddress lists outputs of the chain at the sender.
LEMMA ReadUtxosStep == ASSUME BuildInv, NEW s \in Slots, ReadUtxos(s) PROVE BuildInv'
<1> DEFINE b == slot[s]
           local == At(Unspent(Blocks(crawled)), Sender)
           node == At(Unspent(Tip), Sender)
<1>1. PICK list \in {local, node} :
        Goes(s, [pc |-> "apply", known |-> b.known, req |-> b.req, list |-> list])
  BY DEF ReadUtxos
<1>2. list \subseteq At(Outputs(Tip), Sender)
  <2>1. crawled \in 0 .. Len(chain) /\ Len(chain) \in Nat BY DEF BuildInv, Ids
  <2>2. Blocks(crawled) \subseteq Tip BY <2>1 DEF Blocks, Tip
  <2>3. Outputs(Blocks(crawled)) \subseteq Outputs(Tip) BY <2>2 DEF Outputs
  <2> QED BY <2>3 DEF At, Unspent
<1> DEFINE c == [pc |-> "apply", known |-> b.known, req |-> b.req, list |-> list]
<1>3. ReqOk(b.req) BY DEF ReadUtxos, BuildInv, Builds, BuildOk
<1>4. BuildOk(c, sent, Outputs(Held), Outputs(Tip), mempool)
  BY <1>2, <1>3 DEF BuildOk, Pcs
<1>5. Goes(s, c) /\ c.pc # "submitted" /\ c.known = b.known BY <1>1
<1>6. UNCHANGED <<chain, crawled, mempool, sent, pending>> BY DEF ReadUtxos
<1> HIDE DEF c
<1> QED BY <1>4, <1>5, <1>6, Alone

\* A crawled transaction is the only one PendingSpends.apply forgets.
LEMMA ForgetsCrawled ==
  ASSUME Ids, NEW list, list \subseteq Outputs(Tip), NEW t \in pending \ Remaining(pending, list)
  PROVE  t \notin mempool
<1>1. PICK u \in list : u.ref[1] = t.id BY DEF Remaining
<1>2. PICK v \in Tip : u \in v.outs BY DEF Outputs
<1>3. v \in Held /\ t \in Held BY <1>2 DEF Held
<1>4. v.id = t.id BY <1>1, <1>2, <1>3 DEF Ids
<1>5. v = t BY <1>3, <1>4 DEF Ids
<1> QED BY <1>2, <1>5 DEF Ids

\* The groups of references.
LEMMA GroupLists ==
  \A kind : /\ IsList(Groups(kind)) /\ "force" \in Range(Groups(kind))
            /\ kind \in {"mint", "spend", "plutus"} => "refs" \in Range(Groups(kind))
            /\ kind = "spend" => "script" \in Range(Groups(kind))
            /\ kind = "plutus" => {"scriptInput", "refScript"} \subseteq Range(Groups(kind))
<1>1. /\ Range(<<"force", "refs">>) = {"force", "refs"}
      /\ Range(<<"script", "force", "refs">>) = {"script", "force", "refs"}
      /\ Range(<<"scriptInput", "force", "refScript", "refs", "accounts">>)
           = {"scriptInput", "force", "refScript", "refs", "accounts"}
      /\ Range(<<"force">>) = {"force"}
  BY DEF Range
<1>2. /\ IsList(<<"force", "refs">>) /\ IsList(<<"script", "force", "refs">>) /\ IsList(<<"force">>)
      /\ IsList(<<"scriptInput", "force", "refScript", "refs", "accounts">>)
  BY <1>1 DEF IsList
<1> QED BY <1>1, <1>2 DEF Groups

\* The UTxOs a build starts with.
LEMMA ApplyStep == ASSUME BuildInv, NEW s \in Slots, Apply(s) PROVE BuildInv'
<1> DEFINE b == slot[s]
           left == Remaining(pending, b.list)
           free == {u \in Offered(left, Sender, b.list) : u.script = None}
           c == [pc |-> "resolve", known |-> b.known, req |-> b.req, utxos |-> free,
                 refu |-> {}, todo |-> Groups(b.req.kind)]
<1>1. ReqOk(b.req) /\ b.list \subseteq At(Outputs(Tip), Sender)
  BY DEF Apply, BuildInv, Builds, BuildOk
<1>2. pending' = left /\ left \subseteq pending /\ UNCHANGED <<chain, crawled, mempool, sent>>
  BY DEF Apply, Remaining
<1>3. Ids BY DEF BuildInv
<1>4. \A t \in pending \ left : t \notin mempool
  BY <1>1, <1>3, ForgetsCrawled DEF At
<1>5. CASE Goes(s, Idle)
  <2>1. BuildOk(Idle, sent, Outputs(Held), Outputs(Tip), mempool) BY DEF Idle, BuildOk, Pcs
  <2>2. Idle.pc # "submitted" /\ Idle.known = {} BY DEF Idle
  <2> QED BY <1>2, <1>4, <1>5, <2>1, <2>2, Alone
<1>6. CASE Goes(s, c)
  <2>1. \A u \in free : u \in Outputs(Held) /\ Plain(u)
    BY <1>1, <1>2, Made DEF Offered, At, Plain, Outputs
  <2>2. \A u \in free : Means(u, sent, Outputs(Held)) BY <2>1, <1>3, OutputsMean
  <2>3. ASSUME NEW t \in b.known \cap mempool PROVE t.ins \cap Refs(free) = {}
    <3>1. t \in pending BY DEF BuildInv, Remembered
    <3>2. t \in left BY <3>1, <1>4
    <3> QED BY <3>2 DEF Offered, SpentBy, Spent, Refs
  <2>4. IsList(c.todo) /\ c.todo = Groups(c.req.kind) BY GroupLists
  <2>5. Pooled(c, sent, Outputs(Held), Outputs(Tip), mempool)
    BY <1>1, <2>1, <2>2, <2>3, <2>4 DEF Pooled, Plain, IsList
  <2>6. BuildOk(c, sent, Outputs(Held), Outputs(Tip), mempool) BY <2>5 DEF BuildOk, Pcs
  <2>7. c.pc # "submitted" /\ c.known = b.known OBVIOUS
  <2> HIDE DEF c
  <2> QED BY <1>2, <1>4, <1>6, <2>6, <2>7, Alone
<1> QED BY <1>5, <1>6 DEF Apply, Refuse

\* SetCollateral: nothing to do, or a transfer to the sender.
LEMMA SetCollateralStep == ASSUME BuildInv, NEW s \in Slots, SetCollateral(s) PROVE BuildInv'
<1> DEFINE b == slot[s]
           left == Remaining(pending, b.list)
           req == [b.req EXCEPT !.kind = "transfer",
                                !.outs = <<[at |-> Sender, ll |-> Floor, tok |-> 0, script |-> None]>>]
           c == [pc |-> "read", known |-> b.known, req |-> req]
<1>1. ReqOk(b.req) /\ b.list \subseteq At(Outputs(Tip), Sender) /\ b.req.kind = "collateral"
  BY DEF SetCollateral, BuildInv, Builds, BuildOk
<1>2. pending' = left /\ left \subseteq pending /\ UNCHANGED <<chain, crawled, mempool, sent>>
  BY DEF SetCollateral, Remaining
<1>3. \A t \in pending \ left : t \notin mempool
  BY <1>1, ForgetsCrawled DEF At, BuildInv
<1>4. CASE Goes(s, Idle)
  <2>1. BuildOk(Idle, sent, Outputs(Held), Outputs(Tip), mempool) BY DEF Idle, BuildOk, Pcs
  <2>2. Idle.pc # "submitted" /\ Idle.known = {} BY DEF Idle
  <2> QED BY <1>2, <1>3, <1>4, <2>1, <2>2, Alone
<1>5. CASE Goes(s, c)
  <2>1. ReqOk(req) BY <1>1 DEF ReqOk, ReqFields
  <2>2. BuildOk(c, sent, Outputs(Held), Outputs(Tip), mempool) BY <2>1 DEF BuildOk, Pcs
  <2>3. c.pc # "submitted" /\ c.known = b.known OBVIOUS
  <2> HIDE DEF c
  <2> QED BY <1>2, <1>3, <1>5, <2>2, <2>3, Alone
<1> QED BY <1>4, <1>5 DEF SetCollateral, Refuse

--------------------------------------------------------------------------------
(* Resolving references.                                                   *)

\* The first of a list, and the rest.
LEMMA HeadAndTail ==
  ASSUME NEW S, NEW q \in Seq(S), q # <<>>
  PROVE  Tail(q) \in Seq(S) /\ \A x \in Range(q) : x = Head(q) \/ x \in Range(Tail(q))
<1>1. Tail(q) \in Seq(S) /\ Len(Tail(q)) = Len(q) - 1 /\ \A i \in 1 .. Len(q) - 1 : Tail(q)[i] = q[i + 1]
  OBVIOUS
<1>2. ASSUME NEW i \in DOMAIN q, i # 1 PROVE q[i] \in Range(Tail(q))
  <2>1. i - 1 \in DOMAIN Tail(q) /\ q[i] = Tail(q)[i - 1] BY <1>1, <1>2
  <2> QED BY <2>1 DEF Range
<1> QED BY <1>1, <1>2 DEF Range

\* What a lookup finds is on the chain.
LEMMA LookupsFind ==
  ASSUME NEW refs, NEW found \in Lookups(refs)
  PROVE  found \subseteq Outputs(Tip) /\ Refs(found) = refs
BY DEF Lookups, Unspent

\* A group of references is resolved: the UTxOs are the named ones, on the chain or at hand.
LEMMA ResolveStep == ASSUME BuildInv, NEW s \in Slots, Resolve(s) PROVE BuildInv'
<1> DEFINE b == slot[s]
           group == Head(b.todo)
           named == Named(b.req, group)
           known == IF group = "refScript" THEN {} ELSE {u \in b.utxos : u.ref \in named}
           missing == named \ Refs(known)
           checked == IF group = "script" THEN missing ELSE named
           with(found) == IF group \in {"refs", "refScript"} THEN [b EXCEPT !.refu = @ \cup found]
                          ELSE [b EXCEPT !.utxos = @ \cup found]
           next(found) == [with(known \cup found) EXCEPT !.todo = Tail(@)]
<1>1. UNCHANGED <<chain, crawled, mempool, sent, pending>> BY DEF Resolve
<1>2. CASE Refuse(s) BY <1>1, <1>2, Ends
<1>3. CASE /\ ~\E r \in checked : SpentBy(pending, r)
           /\ \E found \in Lookups(missing) : Goes(s, next(found))
  <2>1. PICK found \in Lookups(missing) : Goes(s, next(found)) BY <1>3
  <2>2. found \subseteq Outputs(Tip) /\ Refs(found) = missing BY LookupsFind
  <2>3. b.pc = "resolve" /\ b.todo # <<>> BY DEF Resolve
  <2>4. Pooled(b, sent, Outputs(Held), Outputs(Tip), mempool)
    BY <2>3 DEF BuildInv, Builds, BuildOk
  <2> DEFINE utxos == IF group \in {"refs", "refScript"} THEN b.utxos ELSE b.utxos \cup known \cup found
             refu == IF group \in {"refs", "refScript"} THEN b.refu \cup known \cup found ELSE b.refu
             c == next(found)
  <2>5. /\ DOMAIN c = {"pc", "known", "req", "utxos", "refu", "todo"}
        /\ c.pc = "resolve" /\ c.known = b.known /\ c.req = b.req
        /\ c.utxos = utxos /\ c.refu = refu /\ c.todo = Tail(b.todo)
    BY <2>3, <2>4 DEF Pooled
  <2>6. known \subseteq b.utxos /\ \A u \in known : u.ref \in named OBVIOUS
  <2>7. named \subseteq Refs(known \cup found) BY <2>2 DEF Refs
  <2> DEFINE all == Range(Groups(b.req.kind))
  <2>8. b.todo \in Seq(all) BY <2>4 DEF Pooled
  <2>9. Tail(b.todo) \in Seq(all) /\ \A x \in Range(b.todo) : x = group \/ x \in Range(Tail(b.todo))
    BY <2>3, <2>8, HeadAndTail
  <2>10. \A x \in all : x \in Range(c.todo) \/ Resolved(c, x)
    <3> SUFFICES ASSUME NEW x \in all, x \notin Range(c.todo) PROVE Resolved(c, x)
      OBVIOUS
    <3>1. CASE x = group
      <4>1. Refs(b.utxos) \subseteq Refs(utxos) /\ Refs(known \cup found) \subseteq Refs(utxos) \cup Refs(refu)
        BY DEF Refs
      <4>2. group \in {"refs", "refScript"} => Refs(known \cup found) \subseteq Refs(refu) BY DEF Refs
      <4>3. group \notin {"refs", "refScript"} => Refs(known \cup found) \subseteq Refs(utxos) BY DEF Refs
      <4>4. named = Named(c.req, x) BY <3>1, <2>5
      <4> HIDE DEF c, utxos, refu, known, named
      <4> QED BY <3>1, <2>5, <2>7, <4>2, <4>3, <4>4 DEF Resolved
    <3>2. CASE x # group
      <4>1. x \notin Range(b.todo) BY <3>2, <2>5, <2>9
      <4>2. Resolved(b, x) BY <4>1, <2>4 DEF Pooled
      <4>3. Refs(b.utxos) \subseteq Refs(c.utxos) /\ Refs(b.refu) \subseteq Refs(c.refu)
        BY <2>5 DEF Refs
      <4> HIDE DEF c, all
      <4> QED BY <4>2, <4>3, <2>5 DEF Resolved
    <3> QED BY <3>1, <3>2
  <2>11. ASSUME NEW u \in c.utxos \cup c.refu
         PROVE  Means(u, sent, Outputs(Held)) /\ (u.script # None => u \in Outputs(Tip))
    <3>1. CASE u \in b.utxos \cup b.refu BY <3>1, <2>4 DEF Pooled
    <3>2. CASE u \in found BY <3>2, <2>2, Made, OutputsMean DEF BuildInv
    <3>3. u \in b.utxos \cup b.refu \cup found BY <2>5, <2>6
    <3> QED BY <3>1, <3>2, <3>3
  <2>12. ASSUME NEW u \in c.utxos PROVE Plain(u) \/ u.ref \in NamedBy(b.req)
    <3>1. CASE u \in b.utxos BY <3>1, <2>4 DEF Pooled
    <3>2. CASE u \notin b.utxos
      <4>1. u \in found /\ group \notin {"refs", "refScript"} BY <3>2, <2>5, <2>6
      <4>2. u.ref \in named BY <4>1, <2>2 DEF Refs
      <4>3. group \in {"script", "scriptInput", "force"}
        <5>1. group \in all /\ group # "accounts"
          <6>1. group \in Range(b.todo) BY <2>3, <2>8 DEF Range
          <6>2. Range(b.todo) \subseteq all BY <2>8 DEF Range
          <6> QED BY <6>1, <6>2 DEF Resolve
        <5>2. all \subseteq {"script", "scriptInput", "force", "refs", "refScript", "accounts"}
          BY DEF Groups, Range
        <5> QED BY <4>1, <5>1, <5>2
      <4> QED BY <4>2, <4>3 DEF Named, NamedBy
    <3> QED BY <3>1, <3>2
  <2>13. ASSUME NEW t \in b.known \cap mempool PROVE t.ins \cap Refs(c.utxos \cup c.refu) = {}
    <3>1. t \in pending BY DEF BuildInv, Remembered
    <3>2. \A r \in missing : r \notin t.ins BY <1>3, <3>1 DEF SpentBy, Spent
    <3>3. \A u \in found : u.ref \notin t.ins BY <3>2, <2>2 DEF Refs
    <3>4. \A u \in b.utxos \cup b.refu : u.ref \notin t.ins BY <2>4 DEF Pooled, Refs
    <3>5. c.utxos \cup c.refu \subseteq b.utxos \cup b.refu \cup found BY <2>5, <2>6
    <3> QED BY <3>3, <3>4, <3>5 DEF Refs
  <2>14. ReqOk(b.req) BY <2>4 DEF Pooled
  <2> HIDE DEF c
  <2>15. Pooled(c, sent, Outputs(Held), Outputs(Tip), mempool)
    BY <2>5, <2>9, <2>10, <2>11, <2>12, <2>13, <2>14 DEF Pooled
  <2>16. BuildOk(c, sent, Outputs(Held), Outputs(Tip), mempool)
    BY <2>5, <2>15 DEF BuildOk, Pcs
  <2>17. Goes(s, c) /\ c.pc # "submitted" /\ c.known = b.known BY <2>1, <2>5 DEF c
  <2> QED BY <1>1, <2>16, <2>17, Alone
<1> QED BY <1>2, <1>3 DEF Resolve

\* The accounts are the last group.
LEMMA CheckAccountsStep == ASSUME BuildInv, NEW s \in Slots, CheckAccounts(s) PROVE BuildInv'
<1> DEFINE b == slot[s]
           c == [b EXCEPT !.todo = <<>>]
<1>1. UNCHANGED <<chain, crawled, mempool, sent, pending>> BY DEF CheckAccounts
<1>2. CASE Refuse(s) BY <1>1, <1>2, Ends
<1>3. CASE Goes(s, c)
  <2>1. b.pc = "resolve" /\ b.todo = <<"accounts">> BY DEF CheckAccounts
  <2>2. Pooled(b, sent, Outputs(Held), Outputs(Tip), mempool)
    BY <2>1 DEF BuildInv, Builds, BuildOk
  <2>3. /\ DOMAIN c = {"pc", "known", "req", "utxos", "refu", "todo"} /\ c.pc = "resolve" /\ c.known = b.known /\ c.req = b.req
        /\ c.utxos = b.utxos /\ c.refu = b.refu /\ c.todo = <<>>
    BY <2>1, <2>2 DEF Pooled
  <2>4. \A x \in Range(Groups(b.req.kind)) : Resolved(c, x)
    <3> SUFFICES ASSUME NEW x \in Range(Groups(b.req.kind)) PROVE Resolved(c, x)
      OBVIOUS
    <3>1. x = "accounts" \/ Resolved(b, x)
      <4>1. Range(b.todo) = {"accounts"} BY <2>1 DEF Range
      <4> QED BY <4>1, <2>2 DEF Pooled
    <3> HIDE DEF c
    <3> QED BY <3>1, <2>3 DEF Resolved
  <2>8. c.todo \in Seq(Range(Groups(c.req.kind))) BY <2>3
  <2> HIDE DEF c
  <2>5. Pooled(c, sent, Outputs(Held), Outputs(Tip), mempool)
    BY <2>2, <2>3, <2>4, <2>8 DEF Pooled
  <2>6. BuildOk(c, sent, Outputs(Held), Outputs(Tip), mempool)
    BY <2>3, <2>5 DEF BuildOk, Pcs
  <2>7. Goes(s, c) /\ c.pc # "submitted" BY <1>3, <2>3 DEF c
  <2> QED BY <1>1, <2>3, <2>6, <2>7, Alone
<1> QED BY <1>2, <1>3 DEF CheckAccounts

--------------------------------------------------------------------------------
(* Where scripts come from.                                                *)

\* A script is a witness when no reference input carries it, else it is on the reference
\* input its source names.
SourceOk(e, refu) ==
  \/ e.inline = TRUE /\ e.script # None /\ Carriers(refu, e.script) = {}
  \/ e.inline = FALSE /\ e.script = None
  \/ e.inline = FALSE /\ e.script # None /\ \E u \in refu : u.script = e.script /\ u.ref = e.ref

\* _resolveScriptWitness
LEMMA SourceIsOk ==
  ASSUME NEW w, NEW refu, w.by # None => w.by \in Refs(refu)
  PROVE  SourceOk(Source(w, refu), refu)
<1> DEFINE e == Source(w, refu)
<1>1. CASE w.script # None /\ Carriers(refu, w.script) = {}
  BY <1>1 DEF Source, SourceOk
<1>2. CASE w.script # None /\ Carriers(refu, w.script) # {}
  <2>1. PICK u \in Carriers(refu, w.script) : u = CHOOSE v \in Carriers(refu, w.script) : TRUE
    BY <1>2
  <2>2. u \in refu /\ u.script = w.script BY <2>1 DEF Carriers
  <2>3. e.script = w.script /\ e.ref = u.ref /\ e.inline = FALSE BY <1>2, <2>1 DEF Source
  <2> QED BY <1>2, <2>2, <2>3 DEF SourceOk
<1>3. CASE w.script = None /\ w.by # None
  <2>1. \E u \in refu : u.ref = w.by BY <1>3 DEF Refs
  <2>2. PICK u \in refu : u = CHOOSE v \in refu : v.ref = w.by BY <2>1
  <2>3. u.ref = w.by BY <2>1, <2>2
  <2>4. e.script = u.script /\ e.ref = u.ref /\ e.inline = FALSE BY <1>3, <2>2, <2>3 DEF Source
  <2> QED BY <2>4 DEF SourceOk
<1>4. CASE w.script = None /\ w.by = None
  BY <1>4 DEF Source, SourceOk
<1> QED BY <1>1, <1>2, <1>3, <1>4

\* A list of sources.
LEMMA SourcesAreOk ==
  ASSUME NEW list, IsList(list), NEW refu, \A w \in Range(list) : w.by # None => w.by \in Refs(refu)
  PROVE  IsList(Sources(list, refu)) /\ \A e \in Range(Sources(list, refu)) : SourceOk(e, refu)
<1> DEFINE g == Sources(list, refu)
<1>1. g = [i \in DOMAIN list |-> g[i]] /\ \A i \in DOMAIN list : g[i] = Source(list[i], refu)
  BY DEF Sources
<1>2. ASSUME NEW i \in DOMAIN list PROVE SourceOk(g[i], refu)
  BY <1>1, SourceIsOk DEF Range
<1> HIDE DEF g
<1>3. IsList(g) BY <1>1, Mapped
<1>4. DOMAIN g = DOMAIN list BY <1>1
<1> QED BY <1>2, <1>3, <1>4 DEF g, Range

\* The first index with a property.
LEMMA FirstIndex ==
  ASSUME NEW D, D \subseteq Nat, NEW k \in D
  PROVE  \E i \in D : \A j \in D : i <= j
<1> DEFINE R == OpToRel(<, Nat)
<1>1. IsWellFoundedOn(R, Nat) BY NatLessThanWellFounded
<1>2. PICK i \in D : \A j \in D : ~(<<j, i>> \in R) BY <1>1, WFMin
<1>3. \A j \in D : ~(j < i) BY <1>2 DEF OpToRel
<1> QED BY <1>3

\* A policy that one action takes from a reference input is taken from there by all.
LEMMA MintSourcesAreOk ==
  ASSUME NEW mints, IsList(mints), NEW refu,
         \A i \in DOMAIN mints : mints[i].by # None => mints[i].by \in Refs(refu)
  PROVE  LET g == MintSources(mints, refu)
         IN IsList(g) /\ Len(g) = Len(mints) /\ \A e \in Range(g) : SourceOk(e, refu)
<1> DEFINE g == MintSources(mints, refu)
           entry(i) == Source([script |-> IF mints[i].by = None THEN mints[i].policy ELSE None,
                               by |-> mints[i].by], refu)
           Is(i, s) == entry(i).script = s /\ entry(i).ref # None
           first(s) == CHOOSE i \in DOMAIN mints :
                         /\ Is(i, s)
                         /\ \A j \in 1 .. i - 1 : entry(j).script # s \/ entry(j).ref = None
           fromRef(s) == \E i \in DOMAIN mints : Is(i, s)
<1>1. g = [i \in DOMAIN mints |->
             IF fromRef(entry(i).script) THEN entry(first(entry(i).script)) ELSE entry(i)]
  BY DEF MintSources
<1>2. ASSUME NEW i \in DOMAIN mints PROVE SourceOk(entry(i), refu)
  BY SourceIsOk
<1> HIDE DEF entry
<1>3. DOMAIN mints \subseteq Nat /\ DOMAIN mints = 1 .. Len(mints) BY DEF IsList
<1>4. ASSUME NEW s, fromRef(s) PROVE first(s) \in DOMAIN mints
  <2> DEFINE D == {i \in DOMAIN mints : Is(i, s)}
  <2>1. PICK k \in D : TRUE BY <1>4
  <2>2. D \subseteq Nat BY <1>3
  <2> HIDE DEF D
  <2>3. PICK i \in D : \A j \in D : i <= j BY <2>1, <2>2, FirstIndex
  <2>4. i \in DOMAIN mints /\ Is(i, s) BY <2>3 DEF D
  <2>5. \A j \in 1 .. i - 1 : j \in DOMAIN mints /\ ~(i <= j) BY <1>3, <2>4
  <2>6. \A j \in 1 .. i - 1 : ~Is(j, s) BY <2>3, <2>5 DEF D
  <2> QED BY <2>4, <2>6
<1> HIDE DEF first, fromRef
<1>5. ASSUME NEW i \in DOMAIN mints PROVE SourceOk(g[i], refu)
  BY <1>1, <1>2, <1>4
<1>6. g = [i \in DOMAIN mints |-> g[i]] /\ DOMAIN g = DOMAIN mints BY <1>1
<1> HIDE DEF g
<1>7. IsList(g) /\ Len(g) = Len(mints) BY <1>6, Mapped
<1> QED BY <1>5, <1>6, <1>7 DEF g, Range

--------------------------------------------------------------------------------
(* One build of the library.                                               *)

\* A build that has resolved everything it was told.
Ready(b, n, outs, on, mp) == Pooled(b, n, outs, on, mp) /\ b.todo = <<>>

\* Everything that was named is at hand.
LEMMA AllAtHand ==
  ASSUME NEW b, NEW n, NEW outs, NEW on, NEW mp, Ready(b, n, outs, on, mp)
  PROVE  /\ b.req.force \subseteq Refs(b.utxos) /\ ScriptRefs(b.req) \subseteq Refs(b.utxos)
         /\ b.req.refs \subseteq Refs(b.refu)
         /\ b.req.kind = "plutus" =>
              \A e \in Range(b.req.scripts) \cup Range(b.req.withdrawals) \cup Range(b.req.certs)
                         \cup Range(b.req.mints) : e.by # None => e.by \in Refs(b.refu)
<1>1. \A group \in Range(Groups(b.req.kind)) : Resolved(b, group)
  <2>1. Range(b.todo) = {} BY DEF Ready, Range
  <2> QED BY <2>1 DEF Ready, Pooled
<1>2. ReqOk(b.req) BY DEF Ready, Pooled
<1>3. b.req.force \subseteq Refs(b.utxos)
  <2>1. Resolved(b, "force") BY <1>1, GroupLists
  <2> QED BY <2>1 DEF Resolved, Named
<1>4. ScriptRefs(b.req) \subseteq Refs(b.utxos)
  <2>1. CASE b.req.kind = "spend"
    <3>1. Resolved(b, "script") BY <1>1, <2>1, GroupLists
    <3> QED BY <3>1 DEF Resolved, Named
  <2>2. CASE b.req.kind = "plutus"
    <3>1. Resolved(b, "scriptInput") BY <1>1, <2>2, GroupLists
    <3> QED BY <3>1 DEF Resolved, Named
  <2>3. CASE b.req.kind \notin {"spend", "plutus"}
    <3>1. b.req.scripts = <<>> BY <1>2, <2>3 DEF ReqOk
    <3> QED BY <3>1 DEF ScriptRefs, Range
  <2> QED BY <2>1, <2>2, <2>3
<1>5. b.req.refs \subseteq Refs(b.refu)
  <2>1. CASE b.req.kind \in {"mint", "spend", "plutus"}
    <3>1. Resolved(b, "refs") BY <1>1, <2>1, GroupLists
    <3> QED BY <3>1 DEF Resolved, Named
  <2>2. CASE b.req.kind \notin {"mint", "spend", "plutus"}
    BY <1>2, <2>2 DEF ReqOk
  <2> QED BY <2>1, <2>2
<1>6. ASSUME b.req.kind = "plutus",
             NEW e \in Range(b.req.scripts) \cup Range(b.req.withdrawals) \cup Range(b.req.certs)
                         \cup Range(b.req.mints), e.by # None
      PROVE  e.by \in Refs(b.refu)
  <2>1. Resolved(b, "refScript") BY <1>1, <1>6, GroupLists
  <2>2. Named(b.req, "refScript") \subseteq Refs(b.refu) BY <2>1 DEF Resolved
  <2>3. e.by \in Named(b.req, "refScript") BY <1>6 DEF Named
  <2> QED BY <2>2, <2>3
<1> QED BY <1>3, <1>4, <1>5, <1>6

\* Two lists after each other.
LEMMA Joined ==
  ASSUME NEW s, NEW t, IsList(s), IsList(t)
  PROVE  /\ IsList(s \o t) /\ Len(s \o t) = Len(s) + Len(t)
         /\ Range(s \o t) = Range(s) \cup Range(t)
         /\ \A i \in 1 .. Len(t) : (s \o t)[Len(s) + i] = t[i]
<1> DEFINE S == Range(s) \cup Range(t)
           q == s \o t
<1>1. s \in Seq(S) /\ t \in Seq(S) BY DEF IsList
<1> HIDE DEF S
<1>2. /\ q \in Seq(S) /\ Len(q) = Len(s) + Len(t) /\ Len(s) \in Nat /\ Len(t) \in Nat
      /\ DOMAIN q = 1 .. Len(s) + Len(t) /\ DOMAIN s = 1 .. Len(s) /\ DOMAIN t = 1 .. Len(t)
      /\ \A i \in 1 .. Len(s) : q[i] = s[i]
      /\ \A i \in 1 .. Len(t) : q[Len(s) + i] = t[i]
  BY <1>1
<1> HIDE DEF q
<1>3. Range(q) \subseteq Range(s) \cup Range(t)
  <2>1. ASSUME NEW i \in DOMAIN q PROVE q[i] \in Range(s) \cup Range(t)
    <3>1. CASE i <= Len(s) BY <1>2, <3>1 DEF Range
    <3>2. CASE ~(i <= Len(s))
      <4>1. i - Len(s) \in DOMAIN t /\ q[i] = t[i - Len(s)] BY <1>2, <3>2
      <4> QED BY <4>1 DEF Range
    <3> QED BY <3>1, <3>2
  <2> QED BY <2>1 DEF Range
<1>4. Range(s) \subseteq Range(q) BY <1>2 DEF Range
<1>5. Range(t) \subseteq Range(q)
  <2>1. ASSUME NEW i \in DOMAIN t PROVE t[i] \in Range(q)
    <3>1. Len(s) + i \in DOMAIN q /\ q[Len(s) + i] = t[i] BY <1>2
    <3> QED BY <3>1 DEF Range
  <2> QED BY <2>1 DEF Range
<1>6. q \in Seq(Range(q))
  <2>1. q \in [1 .. Len(q) -> Range(q)] BY <1>2 DEF Range
  <2> QED BY <1>2, <2>1
<1> QED BY <1>2, <1>3, <1>4, <1>5, <1>6 DEF q, IsList

\* The sources of a build: lists, in order.
LEMMA AllSources ==
  ASSUME NEW b, NEW n, NEW outs, NEW on, NEW mp, Ready(b, n, outs, on, mp)
  PROVE  LET g == ScriptSources(b)
         IN /\ b.req.kind = "plutus" => \A e \in Range(g) : SourceOk(e, b.refu)
            /\ b.req.kind # "plutus" => \A e \in Range(g) : e.inline = TRUE
            /\ b.req.kind # "plutus" => \A i \in DOMAIN b.req.mints :
                                          MintPolicies(b)[i].script = b.req.mints[i].policy
<1> DEFINE req == b.req
<1>1. ReqOk(req) BY DEF Ready, Pooled
<1>2. IsList(req.scripts) /\ IsList(req.withdrawals) /\ IsList(req.certs) /\ IsList(req.mints)
  BY <1>1 DEF ReqOk
<1>3. CASE req.kind = "plutus"
  <2>1. \A e \in Range(req.scripts) \cup Range(req.withdrawals) \cup Range(req.certs)
                   \cup Range(req.mints) : e.by # None => e.by \in Refs(b.refu)
    BY <1>3, AllAtHand
  <2> DEFINE s1 == Sources(req.scripts, b.refu)
             s2 == Sources(req.withdrawals, b.refu)
             s3 == Sources(req.certs, b.refu)
             s4 == MintSources(req.mints, b.refu)
  <2>2. /\ IsList(s1) /\ \A e \in Range(s1) : SourceOk(e, b.refu)
        /\ IsList(s2) /\ \A e \in Range(s2) : SourceOk(e, b.refu)
        /\ IsList(s3) /\ \A e \in Range(s3) : SourceOk(e, b.refu)
    BY <1>2, <2>1, SourcesAreOk
  <2>3. IsList(s4) /\ \A e \in Range(s4) : SourceOk(e, b.refu)
    <3>1. \A i \in DOMAIN req.mints : req.mints[i].by # None => req.mints[i].by \in Refs(b.refu)
      BY <2>1 DEF Range
    <3> QED BY <1>2, <3>1, MintSourcesAreOk
  <2>4. ScriptSources(b) = s1 \o s2 \o s3 \o s4 BY <1>3 DEF ScriptSources
  <2> HIDE DEF s1, s2, s3, s4
  <2>5. IsList(s1 \o s2) /\ Range(s1 \o s2) = Range(s1) \cup Range(s2) BY <2>2, Joined
  <2>6. IsList(s1 \o s2 \o s3) /\ Range(s1 \o s2 \o s3) = Range(s1 \o s2) \cup Range(s3)
    BY <2>2, <2>5, Joined
  <2>7. Range(s1 \o s2 \o s3 \o s4) = Range(s1 \o s2 \o s3) \cup Range(s4)
    BY <2>3, <2>6, Joined
  <2> QED BY <1>3, <2>2, <2>3, <2>4, <2>5, <2>6, <2>7
<1>4. CASE req.kind # "plutus"
  <2> DEFINE f == [i \in DOMAIN req.scripts |-> [script |-> req.scripts[i].script, ref |-> None, inline |-> TRUE]]
             m == [i \in DOMAIN req.mints |-> [script |-> req.mints[i].policy, ref |-> None, inline |-> TRUE]]
  <2>1. ScriptSources(b) = f \o m BY <1>4 DEF ScriptSources
  <2>2. /\ f = [i \in DOMAIN req.scripts |-> f[i]] /\ DOMAIN f = DOMAIN req.scripts
        /\ m = [i \in DOMAIN req.mints |-> m[i]] /\ DOMAIN m = DOMAIN req.mints
        /\ \A i \in DOMAIN f : f[i].inline = TRUE
        /\ \A i \in DOMAIN m : m[i].inline = TRUE /\ m[i].script = req.mints[i].policy
    OBVIOUS
  <2> HIDE DEF f, m
  <2>3. IsList(f) /\ IsList(m) /\ Len(m) = Len(req.mints) BY <1>2, <2>2, Mapped
  <2>4. /\ Len(f \o m) = Len(f) + Len(m) /\ Range(f \o m) = Range(f) \cup Range(m)
        /\ \A i \in 1 .. Len(m) : (f \o m)[Len(f) + i] = m[i]
    BY <2>3, Joined, SMTT(60)
  <2>5. \A e \in Range(f \o m) : e.inline = TRUE BY <2>2, <2>4 DEF Range
  <2>6. ASSUME NEW i \in DOMAIN req.mints PROVE MintPolicies(b)[i].script = req.mints[i].policy
    <3>1. i \in 1 .. Len(m) /\ Len(f) \in Nat /\ Len(m) \in Nat BY <1>2, <2>3 DEF IsList
    <3>2. i + Len(f \o m) - Len(req.mints) = Len(f) + i BY <2>3, <2>4, <3>1
    <3>3. MintPolicies(b)[i] = (f \o m)[i + Len(f \o m) - Len(req.mints)] BY <2>1 DEF MintPolicies
    <3>4. MintPolicies(b)[i] = m[i] BY <2>4, <3>1, <3>2, <3>3
    <3> QED BY <2>2, <3>4
  <2> QED BY <1>4, <2>1, <2>5, <2>6
<1> QED BY <1>3, <1>4

\* Coin selection takes from what it is given.
LEMMA PicksFromPool ==
  ASSUME NEW rest, NEW forced, NEW coll, NEW need, NEW ll, NEW tok,
         NEW picked \in Selections(Funding(rest, forced, coll, need), ll, tok)
  PROVE  picked \subseteq rest
<1> DEFINE pool == Funding(rest, forced, coll, need)
<1>1. pool \subseteq rest BY DEF Funding
<1> HIDE DEF pool
<1>2. picked \subseteq pool BY DEF pool, Selections
<1> QED BY <1>1, <1>2

\* What a build may spend and pledge.
LEMMA CandidatesTake ==
  ASSUME NEW b, NEW withScripts, NEW c \in Candidates(b, withScripts)
  PROVE  \E picked \in SUBSET RestOf(b, withScripts), coll \in Collaterals(b, RestOf(b, withScripts)) :
           c = <<Chosen(b) \cup ForcedOf(b) \cup picked, coll>>
<1> DEFINE rest == RestOf(b, withScripts)
           Pool(coll) == Funding(rest, ForcedOf(b), coll, FundingNeed(b))
<1>1. PICK coll \in Collaterals(b, rest) :
        c \in {<<Chosen(b) \cup ForcedOf(b) \cup picked, coll>> :
                 picked \in Selections(Pool(coll), Need(b).ll, Need(b).tok)}
  BY DEF Candidates
<1>2. PICK picked \in Selections(Pool(coll), Need(b).ll, Need(b).tok) :
        c = <<Chosen(b) \cup ForcedOf(b) \cup picked, coll>>
  BY <1>1
<1>3. picked \subseteq rest BY PicksFromPool
<1> QED BY <1>2, <1>3

\* Collateral for scripts only, and no value that belongs elsewhere.
LEMMA CollateralOf ==
  ASSUME NEW b, NEW rest, NEW coll \in Collaterals(b, rest)
  PROVE  \/ Executed(b) = {} /\ coll = {}
         \/ /\ Executed(b) # {}
            /\ \E u : /\ coll = {u} /\ IsCollateralCandidate(u)
                      /\ u \in rest \/ (u \in ForcedOf(b) /\ u.at = Sender)
<1>1. CASE Executed(b) = {} BY <1>1 DEF Collaterals
<1>2. CASE Executed(b) # {}
  <2>1. PICK u \in CollateralChoices(rest, ForcedOf(b), Sender) : coll = {u}
    BY <1>2 DEF Collaterals
  <2>2. IsCollateralCandidate(u) /\ (u \in rest \/ (u \in ForcedOf(b) /\ u.at = Sender))
    BY DEF CollateralChoices, Smallest, Largest
  <2> QED BY <1>2, <2>1, <2>2
<1> QED BY <1>1, <1>2

\* What is left to choose from was named by nobody.
LEMMA RestIsFree ==
  ASSUME NEW b, NEW withScripts, NEW u \in RestOf(b, withScripts)
  PROVE  u \in b.utxos /\ u.ref \notin NamedBy(b.req) /\ u.ref \notin b.req.protect /\ u.ref \notin Refs(b.refu)
BY DEF RestOf, Rest, Chosen, ForcedRefs, NamedBy

\* Reference inputs are the resolved ones.
LEMMA ReferencesResolved ==
  ASSUME NEW b, NEW n, NEW outs, NEW on, NEW mp, Ready(b, n, outs, on, mp)
  PROVE  References(b) \subseteq Refs(b.refu)
<1>1. b.req.refs \subseteq Refs(b.refu) BY AllAtHand
<1>2. ASSUME NEW e \in Range(ScriptSources(b)), e.script # None, ~e.inline PROVE e.ref \in Refs(b.refu)
  <2>1. b.req.kind = "plutus" BY <1>2, AllSources
  <2>2. SourceOk(e, b.refu) BY <2>1, AllSources
  <2> QED BY <1>2, <2>2 DEF SourceOk, Refs
<1> QED BY <1>1, <1>2 DEF References

\* What a draft names, of what the build holds.
LEMMA DraftNames ==
  ASSUME NEW b, NEW n, NEW outs, NEW on, NEW mp, Ready(b, n, outs, on, mp),
         NEW withScripts, NEW c \in Candidates(b, withScripts)
  PROVE  /\ c[1] \cup c[2] \subseteq b.utxos
         /\ Chosen(b) \cup ForcedOf(b) \subseteq c[1]
         /\ \A u \in c[1] \cup c[2] : u \in Chosen(b) \cup ForcedOf(b) \cup RestOf(b, withScripts)
         /\ Draft(b, c[1], c[2]).ins = Refs(c[1]) /\ Draft(b, c[1], c[2]).coll = Refs(c[2])
         /\ Draft(b, c[1], c[2]).refs = References(b) /\ Draft(b, c[1], c[2]).runs = Executed(b)
<1>1. PICK picked \in SUBSET RestOf(b, withScripts), coll \in Collaterals(b, RestOf(b, withScripts)) :
        c = <<Chosen(b) \cup ForcedOf(b) \cup picked, coll>>
  BY CandidatesTake, SMTT(60)
<1>2. c[1] = Chosen(b) \cup ForcedOf(b) \cup picked /\ c[2] = coll BY <1>1
<1>3. coll \subseteq RestOf(b, withScripts) \cup ForcedOf(b) BY CollateralOf
<1>4. Chosen(b) \subseteq b.utxos /\ ForcedOf(b) \subseteq b.utxos /\ RestOf(b, withScripts) \subseteq b.utxos
  BY RestIsFree DEF Chosen, ForcedOf, Forced
<1>5. /\ Draft(b, c[1], c[2]).ins = Refs(c[1]) /\ Draft(b, c[1], c[2]).coll = Refs(c[2])
      /\ Draft(b, c[1], c[2]).refs = References(b) /\ Draft(b, c[1], c[2]).runs = Executed(b)
  BY DEF Draft
<1> QED BY <1>2, <1>3, <1>4, <1>5

\* It obeys the request.
LEMMA DraftObeys ==
  ASSUME NEW b, NEW n, NEW outs, NEW on, NEW mp, Ready(b, n, outs, on, mp), Fits(b),
         NEW withScripts, NEW c \in Candidates(b, withScripts)
  PROVE  Obeys(b.req, Draft(b, c[1], c[2]))
<1> DEFINE tx == Draft(b, c[1], c[2])
           req == b.req
<1>1. tx.ins = Refs(c[1]) /\ tx.coll = Refs(c[2]) /\ tx.refs = References(b) BY DraftNames
<1>2. References(b) \subseteq Refs(b.refu) BY ReferencesResolved
<1> HIDE DEF tx
<1>3. ScriptRefs(req) \subseteq tx.ins
  <2>1. ScriptRefs(req) \subseteq Refs(Chosen(b)) BY AllAtHand DEF Chosen, Refs
  <2> QED BY <1>1, <2>1, DraftNames DEF Refs
<1>4. req.force \subseteq tx.ins
  <2>1. req.force \ ScriptRefs(req) \subseteq Refs(ForcedOf(b))
    BY AllAtHand DEF ForcedOf, Forced, ForcedRefs, Refs
  <2> QED BY <1>1, <1>3, <2>1, DraftNames DEF Refs
<1>5. ASSUME NEW r \in Taken(tx), r \notin ScriptRefs(req) PROVE r \notin req.protect /\ r \notin tx.refs
  <2>1. PICK u \in c[1] \cup c[2] : u.ref = r BY <1>1 DEF Taken, Refs
  <2>2. CASE u \in Chosen(b) BY <1>5, <2>1, <2>2 DEF Chosen
  <2>3. CASE u \in ForcedOf(b)
    <3>1. r \in ForcedRefs(b) BY <2>1, <2>3 DEF ForcedOf, Forced
    <3>2. ForcedRefs(b) \cap (Refs(b.refu) \cup req.protect) = {} BY DEF Fits, Clash
    <3> QED BY <1>1, <1>2, <3>1, <3>2
  <2>4. CASE u \in RestOf(b, withScripts)
    BY <1>1, <1>2, <2>1, <2>4, RestIsFree
  <2> QED BY <2>2, <2>3, <2>4, DraftNames
<1> QED BY <1>3, <1>4, <1>5 DEF Obeys, NamedBy, tx

\* What it was not told to take is the sender's.
LEMMA DraftOwned ==
  ASSUME NEW b, NEW n, NEW outs, NEW on, NEW mp, Ready(b, n, outs, on, mp),
         NEW withScripts, NEW c \in Candidates(b, withScripts)
  PROVE  Owned(b.req, Draft(b, c[1], c[2]), outs)
<1> DEFINE tx == Draft(b, c[1], c[2])
<1>1. tx.ins = Refs(c[1]) /\ tx.coll = Refs(c[2]) /\ c[1] \cup c[2] \subseteq b.utxos BY DraftNames
<1> HIDE DEF tx
<1>2. ASSUME NEW u \in outs, u.ref \in Taken(tx) \ NamedBy(b.req) PROVE Plain(u)
  <2>1. PICK v \in b.utxos : v.ref = u.ref BY <1>1, <1>2 DEF Taken, Refs
  <2>2. Means(v, n, outs) /\ (Plain(v) \/ v.ref \in NamedBy(b.req)) BY <2>1 DEF Ready, Pooled
  <2> QED BY <1>2, <2>1, <2>2 DEF Means
<1> QED BY <1>2 DEF Owned, tx

\* It pledges what may be lost.
LEMMA DraftPledges ==
  ASSUME NEW b, NEW n, NEW outs, NEW on, NEW mp, Ready(b, n, outs, on, mp),
         NEW withScripts, NEW c \in Candidates(b, withScripts)
  PROVE  Pledges(Draft(b, c[1], c[2]), outs)
<1> DEFINE tx == Draft(b, c[1], c[2])
           rest == RestOf(b, withScripts)
<1>1. tx.coll = Refs(c[2]) /\ tx.runs = Executed(b) /\ c[2] \subseteq b.utxos BY DraftNames
<1>2. c[2] \in Collaterals(b, rest) BY CandidatesTake
<1> HIDE DEF tx
<1>3. CASE Executed(b) = {} /\ c[2] = {}
  <2>1. tx.coll = {} BY <1>1, <1>3 DEF Refs
  <2> QED BY <1>1, <1>3, <2>1 DEF Pledges, tx
<1>4. CASE /\ Executed(b) # {}
           /\ \E u : /\ c[2] = {u} /\ IsCollateralCandidate(u)
                     /\ u \in rest \/ (u \in ForcedOf(b) /\ u.at = Sender)
  <2>1. PICK u : c[2] = {u} /\ IsCollateralCandidate(u) /\ (u \in rest \/ (u \in ForcedOf(b) /\ u.at = Sender))
    BY <1>4
  <2>2. u \in b.utxos BY <1>1, <2>1
  <2>3. Means(u, n, outs) /\ (Plain(u) \/ u.ref \in NamedBy(b.req)) BY <2>2 DEF Ready, Pooled
  <2>4. u.at = Sender /\ u.tok = 0 /\ u.script = None
    BY <2>1, <2>3, RestIsFree DEF Plain, IsCollateralCandidate
  <2>5. tx.coll = {u.ref} BY <1>1, <2>1 DEF Refs
  <2>6. \A v \in outs : v.ref \in tx.coll => v = u BY <2>3, <2>5 DEF Means
  <2> QED BY <1>1, <1>4, <2>4, <2>5, <2>6 DEF Pledges, tx
<1> QED BY <1>2, <1>3, <1>4, CollateralOf

\* It mints under the right policies, each with one redeemer.
LEMMA DraftMints ==
  ASSUME NEW b, NEW n, NEW outs, NEW on, NEW mp, Ready(b, n, outs, on, mp), Fits(b),
         NEW ins, NEW coll
  PROVE  Minting(Draft(b, ins, coll))
<1> DEFINE mints == b.req.mints
           Entry(i) == [policy |-> MintPolicies(b)[i].script, unit |-> mints[i].unit, redeemer |-> mints[i].redeemer]
<1>1. Draft(b, ins, coll).mints = {Entry(i) : i \in DOMAIN mints} BY DEF Draft
<1>2. ASSUME NEW i \in DOMAIN mints PROVE MintPolicies(b)[i].script = mints[i].unit
  <2>1. CASE b.req.kind = "plutus" BY <2>1 DEF Fits, PlutusFits, UnitsUnderPolicy
  <2>2. CASE b.req.kind # "plutus"
    <3>1. mints[i].policy = mints[i].unit BY <2>2 DEF Ready, Pooled, ReqOk
    <3> QED BY <2>2, <3>1, AllSources
  <2> QED BY <2>1, <2>2
<1>3. \A i, j \in DOMAIN mints : MintPolicies(b)[i].script = MintPolicies(b)[j].script
                                   => mints[i].redeemer = mints[j].redeemer
  BY DEF Fits, RedeemersAgree
<1>4. \A i \in DOMAIN mints : Entry(i).policy = MintPolicies(b)[i].script /\ Entry(i).unit = mints[i].unit
                               /\ Entry(i).redeemer = mints[i].redeemer
  OBVIOUS
<1> HIDE DEF Entry
<1> QED BY <1>1, <1>2, <1>3, <1>4 DEF Minting

\* Each script that runs is in one place.
LEMMA DraftProvides ==
  ASSUME NEW b, NEW n, NEW outs, NEW on, NEW mp, Ready(b, n, outs, on, mp), NEW ins, NEW coll
  PROVE  Provided(b.req, Draft(b, ins, coll), outs, on)
<1> DEFINE tx == Draft(b, ins, coll)
           g == Range(ScriptSources(b))
<1>1. /\ tx.runs = {e.script : e \in g} \ {None}
      /\ tx.inline = {e.script : e \in {f \in g : f.inline}} /\ tx.refs = References(b)
  BY DEF Draft, Executed
<1> HIDE DEF tx
<1>2. ASSUME b.req.kind = "plutus", NEW p \in tx.runs
      PROVE  \/ p \in tx.inline /\ \A u \in outs : u.ref \in tx.refs => u.script # p
             \/ p \notin tx.inline /\ \E u \in on : u.ref \in tx.refs /\ u.script = p
  <2>1. \A e \in g : SourceOk(e, b.refu) BY <1>2, AllSources
  <2>2. CASE p \in tx.inline
    <3>1. PICK e \in g : e.inline /\ e.script = p BY <1>1, <2>2
    <3>2. Carriers(b.refu, p) = {} BY <2>1, <3>1 DEF SourceOk
    <3>3. ASSUME NEW u \in outs, u.ref \in tx.refs PROVE u.script # p
      <4>1. PICK v \in b.refu : v.ref = u.ref BY <1>1, <3>3, ReferencesResolved DEF Refs
      <4>2. Means(v, n, outs) BY <4>1 DEF Ready, Pooled
      <4>3. u = v BY <3>3, <4>1, <4>2 DEF Means
      <4> QED BY <3>2, <4>1, <4>3 DEF Carriers
    <3> QED BY <2>2, <3>3
  <2>3. CASE p \notin tx.inline
    <3>1. PICK e \in g : e.script = p BY <1>1
    <3>2. ~e.inline /\ p # None BY <1>1, <2>3, <3>1
    <3>3. PICK u \in b.refu : u.script = p /\ u.ref = e.ref BY <2>1, <3>1, <3>2 DEF SourceOk
    <3>4. u \in on BY <3>2, <3>3 DEF Ready, Pooled
    <3>5. u.ref \in tx.refs BY <1>1, <3>1, <3>2, <3>3 DEF References
    <3> QED BY <2>3, <3>3, <3>4, <3>5
  <2> QED BY <2>2, <2>3
<1> QED BY <1>2 DEF Provided, tx

\* The transaction a build ends with.
LEMMA DraftFinished ==
  ASSUME NEW b, NEW n, NEW outs, NEW on, NEW mp, Ready(b, n, outs, on, mp), Fits(b),
         NEW withScripts, NEW c \in Candidates(b, withScripts), NEW pc
  PROVE  Finished([pc |-> pc, known |-> b.known, req |-> b.req, tx |-> Draft(b, c[1], c[2])], n, outs, on, mp)
<1> DEFINE tx == Draft(b, c[1], c[2])
           d == [pc |-> pc, known |-> b.known, req |-> b.req, tx |-> tx]
<1>1. /\ DOMAIN d = {"pc", "known", "req", "tx"} /\ d.known = b.known /\ d.req = b.req /\ d.tx = tx
  OBVIOUS
<1>2. Names(tx) \subseteq Refs(b.utxos \cup b.refu)
  <2>1. /\ tx.ins = Refs(c[1]) /\ tx.coll = Refs(c[2]) /\ tx.refs = References(b)
        /\ c[1] \cup c[2] \subseteq b.utxos
    BY DraftNames
  <2>2. References(b) \subseteq Refs(b.refu) BY ReferencesResolved
  <2> HIDE DEF tx
  <2> QED BY <2>1, <2>2 DEF Names, Refs
<1>3. \A r \in Names(tx) : Old(r, n) BY <1>2 DEF Ready, Pooled, Means, Refs
<1>4. \A t \in b.known \cap mp : t.ins \cap Names(tx) = {} BY <1>2 DEF Ready, Pooled
<1>5. Obeys(b.req, tx) /\ Owned(b.req, tx, outs) /\ Pledges(tx, outs)
  BY DraftObeys, DraftOwned, DraftPledges
<1>6. Minting(tx) /\ Provided(b.req, tx, outs, on) BY DraftMints, DraftProvides
<1> HIDE DEF d, tx
<1>7. Finished(d, n, outs, on, mp) BY <1>1, <1>3, <1>4, <1>5, <1>6 DEF Finished
<1> QED BY <1>7 DEF d, tx

\* A build of the library.
LEMMA BuildStep == ASSUME BuildInv, NEW s \in Slots, Build(s) PROVE BuildInv'
<1> DEFINE b == slot[s]
<1>1. UNCHANGED <<chain, crawled, mempool, sent, pending>> BY DEF Build
<1>2. Ready(b, sent, Outputs(Held), Outputs(Tip), mempool)
  BY DEF Build, BuildInv, Builds, BuildOk, Ready
<1>3. CASE Refuse(s) BY <1>1, <1>3, Ends
<1>4. ASSUME Fits(b), NEW withScripts, NEW c \in Candidates(b, withScripts), Finish(s, c)
      PROVE  BuildInv'
  <2> DEFINE tx == Draft(b, c[1], c[2])
             pc == IF tx.runs = {} THEN "built" ELSE "evaluate"
             d == [pc |-> pc, known |-> b.known, req |-> b.req, tx |-> tx]
  <2>1. Goes(s, d) BY <1>4 DEF Finish
  <2>2. Finished(d, sent, Outputs(Held), Outputs(Tip), mempool) BY <1>2, <1>4, DraftFinished
  <2>3. DOMAIN d = {"pc", "known", "req", "tx"} /\ d.pc = pc /\ d.known = b.known /\ d.tx = tx
    OBVIOUS
  <2>4. d.pc \in {"built", "evaluate"} /\ (d.pc = "built" => d.tx.runs = {}) BY <2>3
  <2> HIDE DEF d, tx, pc
  <2>5. BuildOk(d, sent, Outputs(Held), Outputs(Tip), mempool)
    BY <2>2, <2>3, <2>4 DEF BuildOk, Pcs
  <2>6. d.pc # "submitted" BY <2>4
  <2> QED BY <1>1, <2>1, <2>3, <2>5, <2>6, Alone
<1> QED BY <1>3, <1>4 DEF Build

\* The evaluation.
LEMMA EvaluateStep == ASSUME BuildInv, NEW s \in Slots, Evaluate(s) PROVE BuildInv'
<1> DEFINE b == slot[s]
           d == [b EXCEPT !.pc = "built"]
<1>1. UNCHANGED <<chain, crawled, mempool, sent, pending>> BY DEF Evaluate
<1>2. CASE Refuse(s) BY <1>1, <1>2, Ends
<1>3. ASSUME Goes(s, d), b.tx.runs \cap Broken = {} PROVE BuildInv'
  <2>1. Finished(b, sent, Outputs(Held), Outputs(Tip), mempool)
    BY DEF Evaluate, BuildInv, Builds, BuildOk
  <2>2. /\ DOMAIN d = {"pc", "known", "req", "tx"} /\ d.pc = "built" /\ d.known = b.known
        /\ d.req = b.req /\ d.tx = b.tx
    BY <2>1 DEF Finished
  <2> HIDE DEF d
  <2>3. Finished(d, sent, Outputs(Held), Outputs(Tip), mempool) BY <2>1, <2>2 DEF Finished
  <2>4. BuildOk(d, sent, Outputs(Held), Outputs(Tip), mempool) BY <1>3, <2>2, <2>3 DEF BuildOk, Pcs
  <2>5. Goes(s, d) /\ d.pc # "submitted" BY <1>3, <2>2
  <2> QED BY <1>1, <2>2, <2>4, <2>5, Alone
<1> QED BY <1>2, <1>3 DEF Evaluate, Stampable

--------------------------------------------------------------------------------
(* What happens outside the builds.                                        *)

\* Transactions come and go; a build that stays where it is loses nothing.
LEMMA Moves ==
  ASSUME BuildInv, Ids', Remembered', slot' \in [Slots -> Range(slot')], sent <= sent',
         Outputs(Tip) \subseteq Outputs(Tip)',
         \A u \in Outputs(Held)' : u \in Outputs(Held) \/ ~Old(u.ref, sent),
         \A z \in Slots :
           \/ slot'[z].pc \in {"idle", "submitted"} /\ BuildOk(slot'[z], sent', Outputs(Held)', Outputs(Tip)', mempool')
           \/ /\ DOMAIN slot'[z] = DOMAIN slot[z]
              /\ \A f \in DOMAIN slot[z] \ {"known"} : slot'[z][f] = slot[z][f]
              /\ \A t \in slot'[z].known \cap mempool' : t \in slot[z].known \cap mempool
  PROVE  BuildInv'
<1>1. ASSUME NEW z \in Slots PROVE BuildOk(slot'[z], sent', Outputs(Held)', Outputs(Tip)', mempool')
  <2>1. CASE BuildOk(slot'[z], sent', Outputs(Held)', Outputs(Tip)', mempool') BY <2>1
  <2>2. CASE /\ DOMAIN slot'[z] = DOMAIN slot[z]
             /\ \A f \in DOMAIN slot[z] \ {"known"} : slot'[z][f] = slot[z][f]
             /\ \A t \in slot'[z].known \cap mempool' : t \in slot[z].known \cap mempool
    <3>1. BuildOk(slot[z], sent, Outputs(Held), Outputs(Tip), mempool) BY DEF BuildInv, Builds
    <3>2. sent \in Nat /\ sent' \in Nat BY DEF BuildInv, Ids
    <3> QED BY <2>2, <3>1, <3>2, Later
  <2> QED BY <2>1, <2>2
<1> QED BY <1>1 DEF BuildInv, Builds

\* The node takes a transaction: its outputs are new.
LEMMA SubmitStep == ASSUME BuildInv, NEW s \in Slots, Submit(s) PROVE BuildInv'
<1> DEFINE b == slot[s]
           tx == Numbered(b.tx, sent + 1)
           d == [pc |-> "submitted", known |-> b.known, sent |-> tx]
<1>1. UNCHANGED <<chain, crawled, pending>> BY DEF Submit
<1>2. CASE Refuse(s) /\ UNCHANGED <<mempool, sent>> BY <1>1, <1>2, Ends
<1>3. CASE mempool' = mempool \cup {tx} /\ sent' = sent + 1 /\ Goes(s, d)
  <2>1. slot' \in [Slots -> Range(slot')] /\ \A z \in Slots : slot'[z] = IF z = s THEN d ELSE slot[z]
    BY <1>3, Put DEF BuildInv
  <2>2. DOMAIN d = {"pc", "known", "sent"} /\ d.pc = "submitted" /\ d.known = b.known /\ d.sent = tx
    OBVIOUS
  <2>3. tx.id = sent + 1 /\ \A u \in tx.outs : u.ref[1] = sent + 1 BY DEF Numbered
  <2>4. \A u, v \in tx.outs : u.ref = v.ref => u = v
    <3>1. ASSUME NEW u \in tx.outs, NEW v \in tx.outs, u.ref = v.ref PROVE u = v
      <4> DEFINE Out(i) == [ref |-> <<sent + 1, i>>, at |-> b.tx.outs[i].at, ll |-> b.tx.outs[i].ll,
                            tok |-> b.tx.outs[i].tok, script |-> b.tx.outs[i].script]
      <4>1. tx.outs = {Out(i) : i \in DOMAIN b.tx.outs} BY DEF Numbered
      <4>2. PICK i \in DOMAIN b.tx.outs : u = Out(i) BY <4>1
      <4>3. PICK j \in DOMAIN b.tx.outs : v = Out(j) BY <4>1
      <4>4. i = j BY <3>1, <4>2, <4>3
      <4> QED BY <4>2, <4>3, <4>4
    <3> QED BY <3>1
  <2>5. Tip' = Tip BY <1>1 DEF Tip, Blocks
  <2> HIDE DEF d, tx
  <2>6. sent \in Nat BY DEF BuildInv, Ids
  <2>7. Held' \subseteq Held \cup {tx} BY <1>1, <1>3, <2>1, <2>2, <2>5 DEF Held
  <2>8. \A t \in Held : t.id \in 0 .. sent /\ \A u \in t.outs : u.ref[1] = t.id BY DEF BuildInv, Ids
  <2>9. tx \notin Tip BY <2>3, <2>6, <2>8 DEF Held
  <2>10. Ids'
    <3>1. sent' \in Nat BY <1>3, <2>6
    <3>2. ASSUME NEW t \in Held' PROVE t.id \in 0 .. sent' /\ \A u \in t.outs : u.ref[1] = t.id
      BY <1>3, <2>3, <2>6, <2>7, <2>8
    <3>3. ASSUME NEW t \in Held', NEW v \in Held', t.id = v.id PROVE t = v
      <4>1. t \in Held /\ v \in Held => t = v BY <3>3 DEF BuildInv, Ids
      <4> QED BY <4>1, <3>3, <2>3, <2>6, <2>7, <2>8
    <3>4. ASSUME NEW t \in Held' PROVE \A u, v \in t.outs : u.ref = v.ref => u = v
      <4>1. t \in Held => \A u, v \in t.outs : u.ref = v.ref => u = v BY DEF BuildInv, Ids
      <4> QED BY <4>1, <2>4, <2>7
    <3>5. mempool' \cap Tip' = {} BY <1>3, <2>5, <2>9 DEF BuildInv, Ids
    <3>6. chain' \in Seq(Range(chain')) /\ crawled' \in 0 .. Len(chain') BY <1>1 DEF BuildInv, Ids
    <3> QED BY <3>1, <3>2, <3>3, <3>4, <3>5, <3>6 DEF Ids
  <2>11. \A z \in Slots : \A t \in slot'[z].known : t.id \in 0 .. sent
    BY <2>1, <2>2 DEF BuildInv, Remembered
  <2>12. \A z \in Slots : \A t \in slot'[z].known \cap mempool' : t \in slot[z].known \cap mempool
    <3>1. ASSUME NEW z \in Slots, NEW t \in slot'[z].known \cap mempool'
          PROVE  t \in slot[z].known \cap mempool
      <4>1. t # tx BY <2>3, <2>6, <2>11, <3>1
      <4>2. t \in slot[z].known BY <2>1, <2>2, <3>1
      <4> QED BY <1>3, <4>1, <4>2
    <3> QED BY <3>1
  <2>13. Remembered'
    BY <1>1, <1>3, <2>6, <2>11, <2>12 DEF BuildInv, Remembered
  <2>14. \A u \in Outputs(Held)' : u \in Outputs(Held) \/ ~Old(u.ref, sent)
    BY <2>3, <2>6, <2>7 DEF Outputs, Old
  <2>15. Outputs(Tip) \subseteq Outputs(Tip)' BY <2>5
  <2>16. BuildOk(d, sent', Outputs(Held)', Outputs(Tip)', mempool') BY <2>2 DEF BuildOk, Pcs
  <2>17. sent <= sent' BY <1>3, <2>6
  <2> QED BY <2>1, <2>2, <2>10, <2>12, <2>13, <2>14, <2>15, <2>16, <2>17, Moves
<1> QED BY <1>2, <1>3 DEF Submit

\* The pending transactions, the mempool or the builds change, the chain does not.
LEMMA SameChain ==
  ASSUME BuildInv, UNCHANGED <<chain, sent>>, Held' \subseteq Held, mempool' \subseteq mempool,
         crawled' \in 0 .. Len(chain)
  PROVE  /\ Ids' /\ sent <= sent' /\ Outputs(Tip) \subseteq Outputs(Tip)'
         /\ \A u \in Outputs(Held)' : u \in Outputs(Held) \/ ~Old(u.ref, sent)
<1>1. Ids' BY Fewer DEF BuildInv
<1>2. sent \in Nat BY DEF BuildInv, Ids
<1>3. Tip' = Tip BY DEF Tip, Blocks
<1> QED BY <1>1, <1>2, <1>3 DEF Outputs

\* The answer.
LEMMA AnswerStep == ASSUME BuildInv, NEW s \in Slots, Answer(s) PROVE BuildInv'
<1>1. /\ UNCHANGED <<chain, crawled, mempool, sent>> /\ Goes(s, Idle) /\ slot[s].pc = "submitted"
      /\ pending' \in {pending \cup {slot[s].sent}, pending}
  BY DEF Answer, Refuse, Record
<1>2. slot' \in [Slots -> Range(slot')] /\ \A z \in Slots : slot'[z] = IF z = s THEN Idle ELSE slot[z]
  BY <1>1, Put DEF BuildInv
<1>3. Tip' = Tip BY <1>1 DEF Tip, Blocks
<1>4. Idle.pc = "idle" /\ Idle.known = {} /\ DOMAIN Idle = {"pc", "known"} BY DEF Idle
<1>5. Held' \subseteq Held BY <1>1, <1>2, <1>3, <1>4 DEF Held
<1>6. crawled' \in 0 .. Len(chain) /\ mempool' \subseteq mempool BY <1>1 DEF BuildInv, Ids
<1>7. Remembered'
  <2>1. \A z \in Slots : slot'[z].known \subseteq slot[z].known BY <1>2, <1>4
  <2> QED BY <1>1, <2>1 DEF BuildInv, Remembered
<1>8. BuildOk(Idle, sent', Outputs(Held)', Outputs(Tip)', mempool') BY <1>4 DEF BuildOk, Pcs
<1>9. /\ Ids' /\ sent <= sent' /\ Outputs(Tip) \subseteq Outputs(Tip)'
      /\ \A u \in Outputs(Held)' : u \in Outputs(Held) \/ ~Old(u.ref, sent)
  BY <1>1, <1>5, <1>6, SameChain
<1>10. \A z \in Slots :
         \/ slot'[z].pc \in {"idle", "submitted"} /\ BuildOk(slot'[z], sent', Outputs(Held)', Outputs(Tip)', mempool')
         \/ /\ DOMAIN slot'[z] = DOMAIN slot[z]
            /\ \A f \in DOMAIN slot[z] \ {"known"} : slot'[z][f] = slot[z][f]
            /\ \A t \in slot'[z].known \cap mempool' : t \in slot[z].known \cap mempool
  BY <1>1, <1>2, <1>4, <1>8
<1> QED BY <1>2, <1>7, <1>9, <1>10, Moves

\* The builds stay where they are.
LEMMA Around ==
  ASSUME BuildInv, slot' = slot, Ids', sent' = sent, mempool' \subseteq mempool, pending \subseteq pending',
         Outputs(Tip) \subseteq Outputs(Tip)', Outputs(Held)' \subseteq Outputs(Held)
  PROVE  BuildInv'
<1>1. Remembered' BY DEF BuildInv, Remembered
<1>2. sent <= sent' BY DEF BuildInv, Ids
<1>3. \A z \in Slots : \A t \in slot'[z].known \cap mempool' : t \in slot[z].known \cap mempool
  OBVIOUS
<1>4. slot' \in [Slots -> Range(slot')] BY DEF BuildInv
<1> QED BY <1>1, <1>2, <1>3, <1>4, Moves

\* The same transaction again.
LEMMA ResubmitStep == ASSUME BuildInv, Resubmit PROVE BuildInv'
<1>1. PICK t \in mempool \cup Tip : pending' = pending \cup {t} BY DEF Resubmit, Record
<1>2. UNCHANGED <<chain, crawled, mempool, sent, slot>> BY DEF Resubmit
<1>3. Tip' = Tip BY <1>2 DEF Tip, Blocks
<1>4. Held' \subseteq Held BY <1>1, <1>2, <1>3 DEF Held
<1>5. crawled' \in 0 .. Len(chain) BY <1>2 DEF BuildInv, Ids
<1>6. Ids' BY <1>2, <1>4, <1>5, SameChain
<1>7. Outputs(Tip)' = Outputs(Tip) /\ Outputs(Held)' \subseteq Outputs(Held) BY <1>3, <1>4 DEF Outputs
<1> QED BY <1>1, <1>2, <1>6, <1>7, Around

\* A transaction that leaves the mempool.
LEMMA EvictStep == ASSUME BuildInv, Evict PROVE BuildInv'
<1>1. mempool' \subseteq mempool /\ UNCHANGED <<chain, crawled, pending, sent, slot>> BY DEF Evict
<1>3. Tip' = Tip BY <1>1 DEF Tip, Blocks
<1>4. Held' \subseteq Held BY <1>1, <1>3 DEF Held
<1>5. crawled' \in 0 .. Len(chain) BY <1>1 DEF BuildInv, Ids
<1>6. Ids' BY <1>1, <1>4, <1>5, SameChain
<1>7. Outputs(Tip)' = Outputs(Tip) /\ Outputs(Held)' \subseteq Outputs(Held) BY <1>3, <1>4 DEF Outputs
<1> QED BY <1>1, <1>6, <1>7, Around

\* A block the crawler has read.
LEMMA CrawlStep == ASSUME BuildInv, Crawl PROVE BuildInv'
<1>1. crawled' = crawled + 1 /\ crawled < Len(chain) /\ UNCHANGED <<chain, mempool, pending, sent, slot>>
  BY DEF Crawl
<1>3. Tip' = Tip BY <1>1 DEF Tip, Blocks
<1>4. Held' \subseteq Held BY <1>1, <1>3 DEF Held
<1>5. crawled' \in 0 .. Len(chain)
  <2>1. crawled \in 0 .. Len(chain) /\ Len(chain) \in Nat BY DEF BuildInv, Ids
  <2> QED BY <1>1, <2>1
<1>6. Ids' BY <1>1, <1>4, <1>5, SameChain
<1>7. Outputs(Tip)' = Outputs(Tip) /\ Outputs(Held)' \subseteq Outputs(Held) BY <1>3, <1>4 DEF Outputs
<1> QED BY <1>1, <1>6, <1>7, Around

\* A block: a transaction moves from the mempool to the chain.
LEMMA IncludeStep == ASSUME BuildInv, Include PROVE BuildInv'
<1>1. PICK t \in mempool : chain' = Append(chain, t) /\ mempool' = mempool \ {t}
  BY DEF Include
<1>2. UNCHANGED <<crawled, pending, sent, slot>> BY DEF Include
<1>3. chain \in Seq(Range(chain)) /\ crawled \in 0 .. Len(chain) /\ Len(chain) \in Nat BY DEF BuildInv, Ids
<1>4. Tip = Range(chain)
  <2>1. DOMAIN chain = 1 .. Len(chain) BY <1>3
  <2> QED BY <2>1 DEF Tip, Blocks, Range
<1>5. /\ chain' \in Seq(Range(chain')) /\ Len(chain') = Len(chain) + 1 /\ Tip' = Tip \cup {t}
  <2> DEFINE S == Range(chain) \cup {t}
  <2>1. chain \in Seq(S) /\ t \in S BY <1>3
  <2> HIDE DEF S
  <2>2. /\ chain' \in Seq(S) /\ Len(chain') = Len(chain) + 1 /\ DOMAIN chain' = 1 .. Len(chain) + 1
        /\ chain'[Len(chain) + 1] = t /\ \A i \in 1 .. Len(chain) : chain'[i] = chain[i]
    BY <1>1, <1>3, <2>1
  <2>3. Tip' = {chain'[i] : i \in 1 .. Len(chain) + 1} BY <2>2 DEF Tip, Blocks
  <2>4. Tip = {chain[i] : i \in 1 .. Len(chain)} BY DEF Tip, Blocks
  <2>5. Tip' = Tip \cup {t}
    <3>1. \A i \in 1 .. Len(chain) + 1 : i \in 1 .. Len(chain) \/ i = Len(chain) + 1 BY <1>3
    <3>2. \A i \in 1 .. Len(chain) : i \in 1 .. Len(chain) + 1 BY <1>3
    <3>3. Len(chain) + 1 \in 1 .. Len(chain) + 1 BY <1>3
    <3> QED BY <2>2, <2>3, <2>4, <3>1, <3>2, <3>3
  <2>6. Range(chain') = Tip' BY <2>2, <2>3 DEF Range
  <2>7. chain' \in Seq(Range(chain'))
    <3>1. chain' \in [1 .. Len(chain) + 1 -> Range(chain')] BY <2>2 DEF Range
    <3> QED BY <1>3, <2>2, <3>1
  <2> QED BY <2>2, <2>5, <2>7
<1>6. Held' = Held BY <1>1, <1>2, <1>5 DEF Held
<1>7. mempool' \cap Tip' = {} BY <1>1, <1>5 DEF BuildInv, Ids
<1>8. crawled' \in 0 .. Len(chain') BY <1>2, <1>3, <1>5
<1>9. Ids' BY <1>2, <1>5, <1>6, <1>7, <1>8 DEF BuildInv, Ids
<1>10. Outputs(Tip) \subseteq Outputs(Tip)' /\ Outputs(Held)' = Outputs(Held) BY <1>5, <1>6 DEF Outputs
<1> QED BY <1>1, <1>2, <1>9, <1>10, Around

\* A record lapses, and with it what the builds knew.
LEMMA LapseStep == ASSUME BuildInv, Lapse PROVE BuildInv'
<1>1. PICK t \in pending : /\ pending' = pending \ {t}
                           /\ slot' = [s \in Slots |-> [slot[s] EXCEPT !.known = @ \ {t}]]
  BY DEF Lapse
<1>2. UNCHANGED <<chain, crawled, mempool, sent>> BY DEF Lapse
<1>3. ASSUME NEW z \in Slots
      PROVE  /\ DOMAIN slot'[z] = DOMAIN slot[z]
             /\ \A f \in DOMAIN slot[z] \ {"known"} : slot'[z][f] = slot[z][f]
             /\ slot'[z].known = slot[z].known \ {t}
             /\ slot'[z].pc = slot[z].pc
             /\ slot[z].pc = "submitted" => slot'[z].sent = slot[z].sent
  <2>1. {"pc", "known"} \subseteq DOMAIN slot[z] /\ (slot[z].pc = "submitted" => "sent" \in DOMAIN slot[z])
    BY DEF BuildInv, Builds, BuildOk
  <2>2. slot'[z] = [slot[z] EXCEPT !.known = @ \ {t}] BY <1>1
  <2> QED BY <2>1, <2>2
<1>4. slot' \in [Slots -> Range(slot')] BY <1>1 DEF Range
<1>5. Tip' = Tip BY <1>2 DEF Tip, Blocks
<1>6. Held' \subseteq Held BY <1>1, <1>2, <1>3, <1>5 DEF Held
<1>7. crawled' \in 0 .. Len(chain) /\ mempool' \subseteq mempool BY <1>2 DEF BuildInv, Ids
<1>8. Remembered' BY <1>1, <1>2, <1>3 DEF BuildInv, Remembered
<1>9. /\ Ids' /\ sent <= sent' /\ Outputs(Tip) \subseteq Outputs(Tip)'
      /\ \A u \in Outputs(Held)' : u \in Outputs(Held) \/ ~Old(u.ref, sent)
  BY <1>2, <1>6, <1>7, SameChain
<1>10. \A z \in Slots :
         /\ DOMAIN slot'[z] = DOMAIN slot[z]
         /\ \A f \in DOMAIN slot[z] \ {"known"} : slot'[z][f] = slot[z][f]
         /\ \A u \in slot'[z].known \cap mempool' : u \in slot[z].known \cap mempool
  BY <1>2, <1>3
<1> QED BY <1>4, <1>8, <1>9, <1>10, Moves

\* A client that keeps its build.
LEMMA AbandonStep == ASSUME BuildInv, NEW s \in Slots, Abandon(s) PROVE BuildInv'
BY Ends DEF Abandon

\* Before the first build there is one transaction, the genesis.
LEMMA BuildInit == Init => BuildInv
<1> SUFFICES ASSUME Init PROVE BuildInv
  OBVIOUS
<1> DEFINE g == [id |-> 0, ins |-> {}, outs |-> Genesis]
<1>1. /\ chain = <<g>> /\ crawled = 1 /\ mempool = {} /\ pending = {} /\ sent = 0
      /\ slot = [s \in Slots |-> Idle]
  BY DEF Init
<1>2. g.id = 0 /\ g.outs = Genesis OBVIOUS
<1> HIDE DEF g
<1>3. \A s \in Slots : slot[s] = Idle BY <1>1
<1>4. Idle.pc = "idle" /\ Idle.known = {} /\ DOMAIN Idle = {"pc", "known"} BY DEF Idle
<1>5. Tip = {g}
  <2>1. Len(chain) = 1 /\ chain[1] = g BY <1>1
  <2> QED BY <2>1 DEF Tip, Blocks
<1>6. Held = {g} BY <1>1, <1>3, <1>4, <1>5 DEF Held
<1>7. \A u \in Genesis : u.ref[1] = 0 BY BuildingAssumption
<1>8. \A u, v \in Genesis : u.ref = v.ref => u = v BY BuildingAssumption
<1>9. chain \in Seq(Range(chain)) /\ crawled \in 0 .. Len(chain) BY <1>1 DEF Range
<1>10. Ids BY <1>1, <1>2, <1>6, <1>7, <1>8, <1>9 DEF Ids
<1>11. Remembered BY <1>3, <1>4 DEF Remembered
<1>12. Builds BY <1>3, <1>4 DEF Builds, BuildOk, Pcs
<1>13. slot \in [Slots -> Range(slot)] BY <1>1 DEF Range
<1> QED BY <1>10, <1>11, <1>12, <1>13 DEF BuildInv

\* Every step of every build, and what happens around them.
LEMMA BuildNext == BuildInv /\ [Next]_vars => BuildInv'
<1> SUFFICES ASSUME BuildInv, [Next]_vars PROVE BuildInv'
  OBVIOUS
<1>1. CASE UNCHANGED vars
  <2>1. UNCHANGED <<chain, crawled, mempool, pending, sent, slot>> BY <1>1 DEF vars
  <2>2. Tip' = Tip BY <2>1 DEF Tip, Blocks
  <2>3. Held' = Held BY <2>1, <2>2 DEF Held
  <2>4. crawled' \in 0 .. Len(chain) BY <2>1 DEF BuildInv, Ids
  <2>5. Ids' BY <2>1, <2>3, <2>4, SameChain
  <2> QED BY <2>1, <2>2, <2>3, <2>5, Around
<1>2. ASSUME NEW s \in Slots, Accept(s) PROVE BuildInv' BY <1>2, AcceptStep
<1>3. ASSUME NEW s \in Slots, RunJob(s) PROVE BuildInv' BY <1>3, RunJobStep
<1>4. ASSUME NEW s \in Slots, ReadUtxos(s) PROVE BuildInv' BY <1>4, ReadUtxosStep
<1>5. ASSUME NEW s \in Slots, Apply(s) PROVE BuildInv' BY <1>5, ApplyStep
<1>6. ASSUME NEW s \in Slots, SetCollateral(s) PROVE BuildInv' BY <1>6, SetCollateralStep
<1>7. ASSUME NEW s \in Slots, Resolve(s) PROVE BuildInv' BY <1>7, ResolveStep
<1>8. ASSUME NEW s \in Slots, CheckAccounts(s) PROVE BuildInv' BY <1>8, CheckAccountsStep
<1>9. ASSUME NEW s \in Slots, Build(s) PROVE BuildInv' BY <1>9, BuildStep
<1>10. ASSUME NEW s \in Slots, Evaluate(s) PROVE BuildInv' BY <1>10, EvaluateStep
<1>11. ASSUME NEW s \in Slots, Submit(s) PROVE BuildInv' BY <1>11, SubmitStep
<1>12. ASSUME NEW s \in Slots, Answer(s) PROVE BuildInv' BY <1>12, AnswerStep
<1>13. ASSUME NEW s \in Slots, Abandon(s) PROVE BuildInv' BY <1>13, AbandonStep
<1>14. ASSUME Resubmit \/ Include \/ Crawl \/ Evict \/ Lapse PROVE BuildInv'
  BY <1>14, ResubmitStep, IncludeStep, CrawlStep, EvictStep, LapseStep
<1> QED BY <1>1, <1>2, <1>3, <1>4, <1>5, <1>6, <1>7, <1>8, <1>9, <1>10, <1>11, <1>12, <1>13, <1>14 DEF Next

--------------------------------------------------------------------------------
(* Theorems.                                                               *)

\* What the builds hold is as they take it to be, in every reachable state.
THEOREM BuildingIsSound == Spec => []BuildInv
<1>1. Init => BuildInv BY BuildInit
<1>2. BuildInv /\ [Next]_vars => BuildInv' BY BuildNext
<1> QED BY <1>1, <1>2, PTL DEF Spec

\* What a finished build satisfies.
LEMMA BuiltIsFinished ==
  ASSUME BuildInv, NEW s \in Slots, Built(s)
  PROVE  /\ Finished(slot[s], sent, Outputs(Held), Outputs(Tip), mempool)
         /\ slot[s].tx.runs \cap Broken = {}
         /\ Everything \subseteq Outputs(Held) /\ Outputs(Tip) \subseteq Everything
<1>1. Everything \subseteq Outputs(Held) /\ Outputs(Tip) \subseteq Everything
  BY DEF Everything, Outputs, Held
<1> QED BY <1>1 DEF BuildInv, Builds, BuildOk, Built

\* No build names what a transaction in the mempool spends that was recorded before the
\* build began and still is: PendingSpends.apply only forgets what has been crawled, and
\* _resolveInputRefs checks every reference that is looked up instead.
THEOREM BuildsAvoidMempool == Spec => []AvoidsMempool
<1>1. BuildInv => AvoidsMempool
  <2> SUFFICES ASSUME BuildInv PROVE AvoidsMempool
    OBVIOUS
  <2>1. ASSUME NEW s \in Slots, Built(s), NEW t \in slot[s].known \cap mempool
        PROVE  t.ins \cap (Taken(slot[s].tx) \cup slot[s].tx.refs) = {}
    BY <2>1, BuiltIsFinished DEF Finished, Names, Taken
  <2> QED BY <2>1 DEF AvoidsMempool
<1> QED BY <1>1, BuildingIsSound, PTL

\* A build spends what it was told to spend, leaves what it was told to leave, and takes
\* others' UTxOs and deployed scripts only when they were named.
THEOREM BuildsSpendAsTold == Spec => []SpendsAsTold
<1>1. BuildInv => SpendsAsTold
  <2> SUFFICES ASSUME BuildInv PROVE SpendsAsTold
    OBVIOUS
  <2>1. ASSUME NEW s \in Slots, Built(s)
        PROVE  LET req == slot[s].req  tx == slot[s].tx
                   named == req.force \cup ScriptRefs(req)
               IN /\ named \subseteq tx.ins
                  /\ Taken(tx) \cap (req.protect \ ScriptRefs(req)) = {}
                  /\ Taken(tx) \cap (tx.refs \ ScriptRefs(req)) = {}
                  /\ \A u \in Everything : u.ref \in Taken(tx) \ named => u.at = Sender /\ u.script = None
    BY <2>1, BuiltIsFinished DEF Finished, Obeys, Owned, NamedBy, Plain
  <2> QED BY <2>1 DEF SpendsAsTold
<1> QED BY <1>1, BuildingIsSound, PTL

\* A transaction pledges collateral exactly when it runs a script: one UTxO, the sender's,
\* with lovelace alone and no deployed script.
THEOREM BuildsPledgeSafely == Spec => []CollateralIsSafe
<1>1. BuildInv => CollateralIsSafe
  <2> SUFFICES ASSUME BuildInv PROVE CollateralIsSafe
    OBVIOUS
  <2>1. ASSUME NEW s \in Slots, Built(s)
        PROVE  /\ Cardinality(slot[s].tx.coll) = IF slot[s].tx.runs = {} THEN 0 ELSE 1
               /\ \A u \in Everything : u.ref \in slot[s].tx.coll => u.at = Sender /\ u.tok = 0 /\ u.script = None
    <3> DEFINE tx == slot[s].tx
    <3>1. Pledges(tx, Outputs(Held)) /\ Everything \subseteq Outputs(Held)
      BY <2>1, BuiltIsFinished DEF Finished
    <3> HIDE DEF tx
    <3>2. tx.runs = {} => Cardinality(tx.coll) = 0 BY <3>1, FS_EmptySet DEF Pledges
    <3>3. ASSUME tx.runs # {} PROVE Cardinality(tx.coll) = 1
      <4>1. PICK r : tx.coll = {r} BY <3>1, <3>3 DEF Pledges
      <4> QED BY <4>1, FS_Singleton
    <3>4. \A u \in Everything : u.ref \in tx.coll => u.at = Sender /\ u.tok = 0 /\ u.script = None
      BY <3>1 DEF Pledges
    <3> QED BY <3>2, <3>3, <3>4 DEF tx
  <2> QED BY <2>1 DEF CollateralIsSafe
<1> QED BY <1>1, BuildingIsSound, PTL

\* A transaction with a script the ledger rejects is never handed out.
THEOREM NoBuildIsDoomed == Spec => []NoDoomedScript
<1>1. BuildInv => NoDoomedScript BY BuiltIsFinished DEF NoDoomedScript
<1> QED BY <1>1, BuildingIsSound, PTL

\* Scripts and witnesses of a build fit together.
THEOREM BuildsFitTheirWitnesses == Spec => []WitnessesFit
<1>1. BuildInv => WitnessesFit
  <2> SUFFICES ASSUME BuildInv PROVE WitnessesFit
    OBVIOUS
  <2>1. ASSUME NEW s \in Slots, Built(s)
        PROVE  LET tx == slot[s].tx
                   carried(p) == \E u \in Everything : u.ref \in tx.refs /\ u.script = p
               IN /\ \A m, n \in tx.mints :
                       m.policy = m.unit /\ (m.policy = n.policy => m.redeemer = n.redeemer)
                  /\ slot[s].req.kind = "plutus" => \A p \in tx.runs : (p \in tx.inline) # carried(p)
    <3> DEFINE tx == slot[s].tx
               carried(p) == \E u \in Everything : u.ref \in tx.refs /\ u.script = p
    <3>1. /\ Minting(tx) /\ Provided(slot[s].req, tx, Outputs(Held), Outputs(Tip))
          /\ Everything \subseteq Outputs(Held) /\ Outputs(Tip) \subseteq Everything
      BY <2>1, BuiltIsFinished DEF Finished
    <3> HIDE DEF tx
    <3>2. ASSUME slot[s].req.kind = "plutus", NEW p \in tx.runs PROVE (p \in tx.inline) # carried(p)
      <4>1. CASE p \in tx.inline /\ \A u \in Outputs(Held) : u.ref \in tx.refs => u.script # p
        <5>1. ~carried(p) BY <3>1, <4>1
        <5> QED BY <4>1, <5>1
      <4>2. CASE p \notin tx.inline /\ \E u \in Outputs(Tip) : u.ref \in tx.refs /\ u.script = p
        <5>1. carried(p) BY <3>1, <4>2
        <5> QED BY <4>2, <5>1
      <4> QED BY <3>1, <3>2, <4>1, <4>2 DEF Provided
    <3>3. \A m, n \in tx.mints : m.policy = m.unit /\ (m.policy = n.policy => m.redeemer = n.redeemer)
      BY <3>1 DEF Minting
    <3> HIDE DEF carried
    <3> QED BY <3>2, <3>3 DEF tx, carried
  <2> QED BY <2>1 DEF WitnessesFit
<1> QED BY <1>1, BuildingIsSound, PTL

=============================================================================
