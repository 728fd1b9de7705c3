------------------------------ MODULE TxBuilding ------------------------------
(* The build actions from the accepted request to the submitted transaction:  *)
(* cardano-tx-builder.ts reads the UTxOs, buildooor-tx.ts selects, evaluates  *)
(* and stamps, cardano-client.ts remembers what was submitted.  Several       *)
(* builds run side by side; the chain, the mempool and the crawler move on    *)
(* between their steps.                                                       *)
EXTENDS Integers, Sequences, FiniteSets, Functions

CONSTANTS
  None, Sender, MaxEntries, KeyAccounts, LowAccounts,
  Fee, Floor, FeeBuffer, MinChange,
  Deposit,      \* stakeAddressDeposit
  Slots,        \* builds that may run at the same time
  Submitters,   \* slots whose client submits what was built
  Offers,       \* Offers[s]: the raw requests slot s may receive
  Jobs,         \* Jobs[s]: the stored requests of wallet jobs that slot s runs
  Genesis,      \* outputs on the chain at the start
  Broken,       \* scripts the ledger rejects
  MaxTx         \* bound on submitted transactions

\* Lists are sequences; only some kinds have reference inputs.
RawOk(raw, scriptKinds) ==
  /\ \A list \in {raw.actions, raw.inputs, raw.withdrawals, raw.certs} : list \in Seq(Range(list))
  /\ raw.kind \notin scriptKinds => raw.refs = {}

ASSUME BuildingAssumption ==
  /\ MaxTx \in Nat /\ Submitters \subseteq Slots /\ LowAccounts \subseteq KeyAccounts
  /\ \A s \in Slots :
       /\ \A raw \in Offers[s] : RawOk(raw, {"mint", "spend", "plutus"})
       /\ \A raw \in Jobs[s] : RawOk(raw, {"mint", "plutusSpend"})
  /\ \A u \in Genesis : u.ref[1] = 0
  /\ \A u, v \in Genesis : u.ref = v.ref => u = v

INSTANCE PendingSpends
INSTANCE CoinSelection
INSTANCE BuildRequests
J == INSTANCE WorkerRequests
INSTANCE ScriptWitnesses

VARIABLES
  chain,     \* the node's chain: a sequence of transactions
  crawled,   \* how many of them the crawled UTxO set covers
  mempool,   \* submitted, not yet in a block
  pending,   \* PendingSpends.txs
  sent,      \* transactions submitted so far
  slot       \* the running builds
vars == <<chain, crawled, mempool, pending, sent, slot>>

\* A ledger with these transactions: the outputs nobody has spent.
Unspent(txs) == {u \in Outputs(txs) : ~SpentBy(txs, u.ref)}
Blocks(n) == {chain[i] : i \in 1 .. n}
Tip == Blocks(Len(chain))
At(utxos, addr) == {u \in utxos : u.at = addr}

Idle == [pc |-> "idle", known |-> {}]
Goes(s, b) == slot' = [slot EXCEPT ![s] = b]
Refuse(s) == Goes(s, Idle)

Init ==
  /\ chain = <<[id |-> 0, ins |-> {}, outs |-> Genesis]>>
  /\ crawled = 1 /\ mempool = {} /\ pending = {} /\ sent = 0
  /\ slot = [s \in Slots |-> Idle]

\* A request passes its handler.  known is history: what was recorded by then
\* and has not lapsed.
Accept(s) ==
  /\ slot[s].pc = "idle"
  /\ \E raw \in Offers[s] :
       /\ Accepted(raw)
       /\ Goes(s, [pc |-> "read", known |-> pending, req |-> Request(raw)])
  /\ UNCHANGED <<chain, crawled, mempool, pending, sent>>

\* The worker runs a job of its wallet; one whose request does not parse fails
\* before anything is built.
RunJob(s) ==
  /\ slot[s].pc = "idle"
  /\ \E raw \in Jobs[s] :
       /\ J!JobAccepted(raw)
       /\ Goes(s, [pc |-> "read", known |-> pending, req |-> J!JobRequest(raw)])
  /\ UNCHANGED <<chain, crawled, mempool, pending, sent>>

\* _fetchUtxosForAddress: the crawled set when it answers and knows the
\* address, else the node.  SetCollateral takes an empty answer as it is.
ReadUtxos(s) ==
  LET b == slot[s]
      local == At(Unspent(Blocks(crawled)), Sender)
      node == At(Unspent(Tip), Sender)
  IN /\ b.pc = "read"
     /\ \E list \in {node} \cup (IF local # {} \/ b.req.kind = "collateral" THEN {local} ELSE {}) :
          Goes(s, [pc |-> "apply", known |-> b.known, req |-> b.req, list |-> list])
     /\ UNCHANGED <<chain, crawled, mempool, pending, sent>>

\* What a build resolves, in order.
Groups(kind) ==
  CASE kind = "mint" -> <<"force", "refs">>
    [] kind = "spend" -> <<"script", "force", "refs">>
    [] kind = "plutus" -> <<"scriptInput", "force", "refScript", "refs", "accounts">>
    [] OTHER -> <<"force">>

\* The list goes through the pending transactions; UTxOs with a reference
\* script stay behind.
Apply(s) ==
  LET b == slot[s]
      left == Remaining(pending, b.list)
      free == {u \in Offered(left, Sender, b.list) : u.script = None}
  IN /\ b.pc = "apply" /\ b.req.kind # "collateral"
     /\ pending' = left
     /\ IF free = {} THEN Refuse(s)
        ELSE Goes(s, [pc |-> "resolve", known |-> b.known, req |-> b.req, utxos |-> free,
                      refu |-> {}, todo |-> Groups(b.req.kind)])
     /\ UNCHANGED <<chain, crawled, mempool, sent>>

\* SetCollateral: nothing to do when a build would find collateral and
\* funding, else a transfer of the floor to the sender.
SetCollateral(s) ==
  LET b == slot[s]
      left == Remaining(pending, b.list)
      utxos == Offered(left, Sender, b.list)
      available == /\ Cardinality(utxos) >= 2
                   /\ \E u \in utxos : IsCollateralCandidate(u) /\ CoversFloor(u)
  IN /\ b.pc = "apply" /\ b.req.kind = "collateral"
     /\ pending' = left
     /\ IF utxos = {} \/ available \/ Lovelace(utxos) < Floor + FeeBuffer THEN Refuse(s)
        ELSE Goes(s, [pc |-> "read", known |-> b.known,
                      req |-> [b.req EXCEPT !.kind = "transfer",
                                 !.outs = <<[at |-> Sender, ll |-> Floor, tok |-> 0, script |-> None]>>]])
     /\ UNCHANGED <<chain, crawled, mempool, sent>>

-----------------------------------------------------------------------------
(* Resolving the references of a request.                                     *)

ScriptRefs(req) == {i.ref : i \in Range(req.scripts)}
Named(req, group) ==
  CASE group \in {"script", "scriptInput"} -> ScriptRefs(req)
    [] group = "force" -> req.force
    [] group = "refs" -> req.refs
    [] OTHER -> {e.by : e \in Range(req.scripts) \cup Range(req.withdrawals)
                              \cup Range(req.certs) \cup Range(req.mints)} \ {None}

\* What a lookup of refs finds: the unspent outputs, by the ledger query or by
\* the producing transaction and the address's UTxOs; when that last query
\* fails, every output ever produced.
Lookups(refs) ==
  {found \in {{u \in Unspent(Tip) : u.ref \in refs}, {u \in Outputs(Tip) : u.ref \in refs}} :
     Refs(found) = refs}

\* _resolveInputRefs and _resolveScriptUtxo: no reference is spent by a pending
\* transaction; UTxOs at hand are taken as they are, except that scripts are
\* always read from the ledger; the others are looked up.
Resolve(s) ==
  LET b == slot[s]
      group == Head(b.todo)
      named == Named(b.req, group)
      known == IF group = "refScript" THEN {} ELSE {u \in b.utxos : u.ref \in named}
      missing == named \ Refs(known)
      checked == IF group = "script" THEN missing ELSE named
      with(found) == IF group \in {"refs", "refScript"} THEN [b EXCEPT !.refu = @ \cup found]
                     ELSE [b EXCEPT !.utxos = @ \cup found]
  IN /\ b.pc = "resolve" /\ b.todo # <<>> /\ group # "accounts"
     /\ IF \E r \in checked : SpentBy(pending, r) THEN Refuse(s)
        ELSE \/ \E found \in Lookups(missing) :
                  Goes(s, [with(known \cup found) EXCEPT !.todo = Tail(@)])
             \/ ~(missing \subseteq Refs(Unspent(Tip))) /\ Refuse(s)
     /\ UNCHANGED <<chain, crawled, mempool, pending, sent>>

\* _assertRewardAccountsRegistered: an account that this transaction does not
\* register may turn out to be unregistered; no answer lets the build go on.
CheckAccounts(s) ==
  LET b == slot[s]
      here == {c.account : c \in {d \in Range(b.req.certs) : d.type = "register"}}
  IN /\ b.pc = "resolve" /\ b.todo = <<"accounts">>
     /\ \/ Goes(s, [b EXCEPT !.todo = <<>>])
        \/ (\E w \in Range(b.req.withdrawals) : w.account \notin here) /\ Refuse(s)
     /\ UNCHANGED <<chain, crawled, mempool, pending, sent>>

-----------------------------------------------------------------------------
(* One build of the library from the resolved UTxOs.                          *)

Total(list, Of(_)) == MapThenSumSet(LAMBDA i : Of(list[i]), DOMAIN list)
Chosen(b) == {u \in b.utxos : u.ref \in ScriptRefs(b.req)}

\* A forced reference to the script UTxO is ignored.
ForcedRefs(b) == b.req.force \ ScriptRefs(b.req)
ForcedOf(b) == Forced(b.utxos, ForcedRefs(b))

RestOf(b, withScripts) ==
  Rest(b.utxos \ Chosen(b), ForcedRefs(b), Refs(b.refu), b.req.protect, withScripts)

MintedTokens(req) == Total(req.mints, LAMBDA m : Above0(m.qty))
ChosenTokens(b) == Tokens(Chosen(b))

\* The outputs before the change.  Without extra outputs the primary one takes
\* what is minted, and the continuing output what the script UTxO held.
Topped(outs, tokens) == [outs EXCEPT ![1].tok = @ + tokens]
MintOutputs(b) == Topped(b.req.outs, IF Len(b.req.outs) = 1 THEN MintedTokens(b.req) ELSE 0)
SpendOutputs(b) == Topped(MintOutputs(b), ChosenTokens(b))
Outputs0(b) ==
  CASE b.req.kind = "mint" -> MintOutputs(b)
    [] b.req.kind = "spend" -> SpendOutputs(b)
    [] OTHER -> b.req.outs

DepositOf(certs) == Total(certs, LAMBDA c : IF c.type = "register" THEN Deposit ELSE -Deposit)
Withdrawn(req) == Total(req.withdrawals, LAMBDA w : w.ll)
NetMint(req) == Total(req.mints, LAMBDA m : m.qty)
Asked(b) == [ll |-> Total(Outputs0(b), LAMBDA o : o.ll), tok |-> Total(Outputs0(b), LAMBDA o : o.tok)]

\* What coin selection must find.  A transfer and a script spend ignore what
\* the fixed inputs bring, a mint counts what it mints, BuildPlutusTransaction
\* everything.
ExtraTokens(req) == Total(Tail(req.outs), LAMBDA o : o.tok)
TransferNeed(b) == Asked(b)
MintNeed(b) ==
  [ll |-> Asked(b).ll, tok |-> Above0(ExtraTokens(b.req) - MintedTokens(b.req))]
SpendNeed(b) == [ll |-> Asked(b).ll, tok |-> ExtraTokens(b.req)]
PlutusNeed(b) ==
  LET fixed == Chosen(b) \cup ForcedOf(b)
  IN [ll |-> Above0(Asked(b).ll + DepositOf(b.req.certs) - Withdrawn(b.req) - Lovelace(fixed)),
      tok |-> Above0(Asked(b).tok - NetMint(b.req) - Tokens(fixed))]
Need(b) ==
  CASE b.req.kind = "plutus" -> PlutusNeed(b)
    [] b.req.kind = "mint" -> MintNeed(b)
    [] b.req.kind = "spend" -> SpendNeed(b)
    [] OTHER -> TransferNeed(b)

\* The collateral has to leave enough for what the script UTxO does not pay.
FundingNeed(b) ==
  IF b.req.kind = "spend" THEN Above0(Need(b).ll - Lovelace(Chosen(b))) ELSE Need(b).ll

-----------------------------------------------------------------------------
(* Scripts of the transaction and where they come from.                       *)

\* The mint and spend builds attach every script; a BuildPlutusTransaction
\* takes it from a reference input when it can.
ScriptSources(b) ==
  IF b.req.kind = "plutus"
  THEN Sources(b.req.scripts, b.refu) \o Sources(b.req.withdrawals, b.refu)
       \o Sources(b.req.certs, b.refu) \o MintSources(b.req.mints, b.refu)
  ELSE [i \in DOMAIN b.req.scripts |-> [script |-> b.req.scripts[i].script, ref |-> None, inline |-> TRUE]]
       \o [i \in DOMAIN b.req.mints |-> [script |-> b.req.mints[i].policy, ref |-> None, inline |-> TRUE]]

MintPolicies(b) ==
  [i \in DOMAIN b.req.mints |->
     ScriptSources(b)[i + Len(ScriptSources(b)) - Len(b.req.mints)]]

Executed(b) == {e.script : e \in Range(ScriptSources(b))} \ {None}

\* The reference inputs: the caller's, and the carriers that are used.
References(b) ==
  b.req.refs \cup {e.ref : e \in {f \in Range(ScriptSources(b)) : f.script # None /\ ~f.inline}}

\* What buildUnsignedPlutusTransaction refuses.
PlutusFits(b) ==
  LET req == b.req
  IN /\ Resolvable(req.scripts \o req.withdrawals \o req.certs, b.refu)
     /\ UnitsUnderPolicy(req.mints, MintPolicies(b))
     /\ CertificatesFit(req.certs, Sources(req.certs, b.refu))
     /\ Indexable(req.withdrawals, Sources(req.withdrawals, b.refu))
     /\ req.protect \cap ScriptRefs(req) = {}
     /\ ForeignFits(ForcedOf(b), Sender, req.signers, KeyAccounts, Asked(b))

Fits(b) ==
  /\ ~Clash(ForcedRefs(b), Refs(b.refu), b.req.protect)
  /\ AtMostOne(b.req.datum)
  /\ b.req.kind = "mint" => b.req.mints # <<>>
  /\ b.req.kind = "plutus" => PlutusFits(b)
  /\ RedeemersAgree(b.req.mints, MintPolicies(b))

-----------------------------------------------------------------------------
(* The drafts a build may end with, change included; short when the funds do  *)
(* not pay them.                                                              *)

Collaterals(b, rest) ==
  IF Executed(b) = {} THEN {{}}
  ELSE {{u} : u \in CollateralChoices(rest, ForcedOf(b), Sender)}

Change(b, ins) ==
  [ll |-> Lovelace(ins) + Withdrawn(b.req) - DepositOf(b.req.certs) - Asked(b).ll - Fee,
   tok |-> Tokens(ins) + NetMint(b.req) - Asked(b).tok]

Pays(change) ==
  /\ change.ll >= 0 /\ change.tok >= 0
  /\ change.tok > 0 => change.ll > 0

Draft(b, ins, coll) ==
  LET change == Change(b, ins)
      outs == Outputs0(b) \o (IF change.ll = 0 THEN <<>>
                ELSE <<[at |-> Sender, ll |-> change.ll, tok |-> change.tok, script |-> None]>>)
  IN [ins |-> Refs(ins), coll |-> Refs(coll),
      refs |-> References(b), outs |-> outs, runs |-> Executed(b),
      inline |-> {e.script : e \in {f \in Range(ScriptSources(b)) : f.inline}},
      mints |-> {[policy |-> MintPolicies(b)[i].script, unit |-> b.req.mints[i].unit,
                  redeemer |-> b.req.mints[i].redeemer] : i \in DOMAIN b.req.mints}]

\* The inputs and collateral a build may choose.
Candidates(b, withScripts) ==
  LET rest == RestOf(b, withScripts)
      pool(coll) == Funding(rest, ForcedOf(b), coll, FundingNeed(b))
  IN UNION {{<<Chosen(b) \cup ForcedOf(b) \cup picked, coll>> :
               picked \in Selections(pool(coll), Need(b).ll, Need(b).tok)} :
            coll \in Collaterals(b, rest)}

\* A transaction without scripts is finished.
Finish(s, c) ==
  LET b == slot[s]
      tx == Draft(b, c[1], c[2])
  IN Goes(s, [pc |-> IF tx.runs = {} THEN "built" ELSE "evaluate",
              known |-> b.known, req |-> b.req, tx |-> tx])

\* When the funds are short, the build is repeated with the UTxOs that carry
\* reference scripts in the pool (_withRefScriptFallback).
Build(s) ==
  LET b == slot[s]
      paid(c) == Pays(Change(b, c[1]))
  IN /\ b.pc = "resolve" /\ b.todo = <<>>
     /\ IF ~Fits(b) \/ Candidates(b, FALSE) = {} THEN Refuse(s)
        ELSE \E c \in Candidates(b, FALSE) :
               \/ paid(c) /\ Finish(s, c)
               \/ /\ ~paid(c) /\ \E u \in b.utxos : u.script # None
                  /\ \E d \in Candidates(b, TRUE) : IF paid(d) THEN Finish(s, d) ELSE Refuse(s)
               \/ ~paid(c) /\ (\A u \in b.utxos : u.script = None) /\ Refuse(s)
     /\ UNCHANGED <<chain, crawled, mempool, pending, sent>>

-----------------------------------------------------------------------------
(* Evaluation, submission and what happens outside.                           *)

\* Mutation: local units are stamped although the local evaluation failed.
StampableUnlessRejected(local, node) == node # "rejected"

\* _resolveTargetExUnits: units the node certified win, a local failure without
\* them ends the build, and so does a rejection by the node.
Stampable(local, node) == node # "rejected" /\ (local = "failed" => node = "units")

\* The local machine and, when a backend can, the node run the scripts.
Evaluate(s) ==
  LET b == slot[s]
  IN /\ b.pc = "evaluate"
     /\ \E local \in {"units", "failed"}, node \in {"units", "rejected", "unusable"} :
          /\ b.tx.runs \cap Broken # {} => local = "failed" /\ node # "units"
          /\ IF Stampable(local, node) THEN Goes(s, [b EXCEPT !.pc = "built"]) ELSE Refuse(s)
     /\ UNCHANGED <<chain, crawled, mempool, pending, sent>>

\* The transaction as it enters the mempool: its outputs have references.
Numbered(tx, id) ==
  [id |-> id, ins |-> tx.ins,
   outs |-> {[ref |-> <<id, i>>, at |-> tx.outs[i].at, ll |-> tx.outs[i].ll,
              tok |-> tx.outs[i].tok, script |-> tx.outs[i].script] : i \in DOMAIN tx.outs}]

\* The signed transaction reaches the node, which takes it when everything it
\* names is unspent there.
Submit(s) ==
  LET b == slot[s]
      tx == Numbered(b.tx, sent + 1)
  IN /\ b.pc = "built" /\ s \in Submitters
     /\ IF b.tx.ins \cup b.tx.coll \cup b.tx.refs \subseteq Refs(Unspent(Tip \cup mempool))
        THEN /\ sent < MaxTx
             /\ mempool' = mempool \cup {tx} /\ sent' = sent + 1
             /\ Goes(s, [pc |-> "submitted", known |-> b.known, sent |-> tx])
        ELSE Refuse(s) /\ UNCHANGED <<mempool, sent>>
     /\ UNCHANGED <<chain, crawled, pending>>

\* The answer, a 409 of a second backend included, records the transaction; a
\* lost one does not.
Answer(s) ==
  /\ slot[s].pc = "submitted"
  /\ pending' \in {Record(pending, slot[s].sent), pending}
  /\ Refuse(s)
  /\ UNCHANGED <<chain, crawled, mempool, sent>>

\* The client keeps the build, or never signs it.
Abandon(s) ==
  /\ slot[s].pc = "built"
  /\ Refuse(s)
  /\ UNCHANGED <<chain, crawled, mempool, pending, sent>>

\* The same signed bytes are submitted again: "already submitted".
Resubmit ==
  /\ \E t \in mempool \cup {u \in Tip : u.id # 0} : pending' = Record(pending, t)
  /\ UNCHANGED <<chain, crawled, mempool, sent, slot>>

\* A block takes a transaction whose inputs the chain holds.
Include ==
  /\ \E t \in mempool :
       /\ t.ins \subseteq Refs(Unspent(Tip))
       /\ chain' = Append(chain, t) /\ mempool' = mempool \ {t}
  /\ UNCHANGED <<crawled, pending, sent, slot>>

Crawl ==
  /\ crawled < Len(chain)
  /\ crawled' = crawled + 1
  /\ UNCHANGED <<chain, mempool, pending, sent, slot>>

\* The mempool drops a transaction and what builds on it.
Evict ==
  /\ \E t \in mempool :
       mempool' = {u \in mempool : u # t /\ u.ins \cap Refs(t.outs) = {}}
  /\ UNCHANGED <<chain, crawled, pending, sent, slot>>

\* PENDING_TX_TTL_MS passes.
Lapse ==
  /\ \E t \in pending :
       /\ pending' = pending \ {t}
       /\ slot' = [s \in Slots |-> [slot[s] EXCEPT !.known = @ \ {t}]]
  /\ UNCHANGED <<chain, crawled, mempool, sent>>

Next ==
  \/ \E s \in Slots :
       \/ Accept(s) \/ RunJob(s) \/ ReadUtxos(s) \/ Apply(s) \/ SetCollateral(s) \/ Resolve(s)
       \/ CheckAccounts(s) \/ Build(s) \/ Evaluate(s) \/ Submit(s) \/ Answer(s) \/ Abandon(s)
  \/ Resubmit \/ Include \/ Crawl \/ Evict \/ Lapse

Spec == Init /\ [][Next]_vars

-----------------------------------------------------------------------------
(* Properties.                                                                *)

Built(s) == slot[s].pc = "built"
Everything == Outputs(Tip \cup mempool \cup pending)
Taken(tx) == tx.ins \cup tx.coll

\* A build names nothing that a transaction in the mempool spends, when that
\* transaction was recorded before the build began and its record has not
\* lapsed, whatever the crawler and the other builds did to the records since.
AvoidsMempool ==
  \A s \in Slots : Built(s) =>
    \A t \in slot[s].known \cap mempool :
      t.ins \cap (Taken(slot[s].tx) \cup slot[s].tx.refs) = {}

\* A build spends every forced and script UTxO, and takes no protected or
\* referenced UTxO as input or collateral; a deployed script is only spent when
\* it was named, and others' UTxOs as well.
SpendsAsTold ==
  \A s \in Slots : Built(s) =>
    LET req == slot[s].req  tx == slot[s].tx
        named == req.force \cup ScriptRefs(req)
    IN /\ named \subseteq tx.ins
       /\ Taken(tx) \cap (req.protect \ ScriptRefs(req)) = {}
       /\ Taken(tx) \cap (tx.refs \ ScriptRefs(req)) = {}
       /\ \A u \in Everything : u.ref \in Taken(tx) \ named => u.at = Sender /\ u.script = None

\* A transaction that runs a script pledges exactly one UTxO, the sender's own,
\* with lovelace alone and no deployed script on it; no other transaction does.
CollateralIsSafe ==
  \A s \in Slots : Built(s) =>
    LET tx == slot[s].tx
        pledged == {u \in Everything : u.ref \in tx.coll}
    IN /\ Cardinality(tx.coll) = IF tx.runs = {} THEN 0 ELSE 1
       /\ \A u \in pledged : u.at = Sender /\ u.tok = 0 /\ u.script = None

\* A transaction with a script the ledger rejects, which would forfeit the
\* collateral, is never handed out, whichever evaluation is missing.
NoDoomedScript == \A s \in Slots : Built(s) => slot[s].tx.runs \cap Broken = {}

\* Scripts and their witnesses fit together as the ledger demands: tokens are
\* minted under the policy their unit names, with parameters applied; a policy has
\* one redeemer; a BuildPlutusTransaction provides each script it runs exactly
\* once, as a witness or on a reference input (a second one is extraneous).
WitnessesFit ==
  \A s \in Slots : Built(s) =>
    LET tx == slot[s].tx
        carried(p) == \E u \in Everything : u.ref \in tx.refs /\ u.script = p
    IN /\ \A m, n \in tx.mints :
            m.policy = m.unit /\ (m.policy = n.policy => m.redeemer = n.redeemer)
       /\ slot[s].req.kind = "plutus" => \A p \in tx.runs : (p \in tx.inline) # carried(p)
=============================================================================
