---------------------------- MODULE CoinSelection ----------------------------
(* Which UTxOs a build spends, references and pledges: the partition, the     *)
(* collateral and the funding of transaction-building/buildooor-tx.ts.        *)
(*                                                                            *)
(* A UTxO is [ref, at, ll, tok, script]: its reference <<tx, index>>, address,*)
(* lovelace, native tokens (of all units together) and the reference script   *)
(* it carries.  Lovelace is counted in small units; ties and the selection of *)
(* the library are free choices.                                              *)
EXTENDS Integers, FiniteSetsExt

CONSTANTS
  None,        \* no script
  Fee,         \* of every transaction
  Floor,       \* COLLATERAL_LOVELACE
  FeeBuffer,   \* FEE_BUFFER_LOVELACE
  MinChange    \* MIN_CHANGE_LOVELACE

Refs(S) == {u.ref : u \in S}
Lovelace(S) == MapThenSumSet(LAMBDA u : u.ll, S)
Tokens(S) == MapThenSumSet(LAMBDA u : u.tok, S)
Above0(n) == IF n > 0 THEN n ELSE 0

\* _partitionForcedInputs
Clash(force, referenced, protect) == force \cap (referenced \cup protect) # {}

Forced(utxos, force) == {u \in utxos : u.ref \in force}

\* Mutation: protected UTxOs are only kept out of the forced inputs.
RestUnprotected(utxos, force, referenced, protect, withScripts) ==
  {u \in utxos : /\ u.ref \notin force \cup referenced
                 /\ withScripts \/ u.script = None}

Rest(utxos, force, referenced, protect, withScripts) ==
  {u \in utxos : /\ u.ref \notin force \cup referenced \cup protect
                 /\ withScripts \/ u.script = None}

\* Mutation: tokens do not matter for collateral.
IsCollateralCandidateAnyValue(u) == u.script = None

IsCollateralCandidate(u) == u.tok = 0 /\ u.script = None
CoversFloor(u) == u.ll >= Floor

Smallest(S) == {u \in S : \A v \in S : u.ll <= v.ll}
Largest(S) == {u \in S : \A v \in S : u.ll >= v.ll}

\* _setupCollateral: the smallest candidate that covers the floor, else a
\* forced input of the sender that does, else the largest candidate; none at
\* all refuses the build.
CollateralChoices(rest, forced, sender) ==
  LET cands  == {u \in rest : IsCollateralCandidate(u)}
      enough == {u \in cands : CoversFloor(u)}
      own    == {u \in forced : u.at = sender /\ IsCollateralCandidate(u) /\ CoversFloor(u)}
  IN CASE enough # {} -> Smallest(enough)
       [] enough = {} /\ own # {} -> Smallest(own)
       [] OTHER -> Largest(cands)

\* The collateral, a set of at most one UTxO, also funds the transaction when
\* the rest is too little; a forced one is spent already.
Funding(rest, forced, coll, need) ==
  LET others == rest \ coll
  IN IF coll \subseteq forced \/ Lovelace(others) >= need + FeeBuffer + MinChange
     THEN others ELSE rest

\* keepRelevant: any selection that covers the need with the library's margin
\* for fee and change and has nothing superfluous; everything when none does.
Selections(pool, ll, tok) ==
  LET covers(S) == Lovelace(S) >= ll + Fee + MinChange /\ Tokens(S) >= tok
      enough == {S \in SUBSET pool : covers(S)}
  IN IF enough = {} THEN {pool}
     ELSE {S \in enough : \A u \in S : ~covers(S \ {u})}

\* _checkForeignForcedInputs: other addresses are key addresses whose owners
\* sign, and the outputs spend what they bring.
ForeignFits(forced, sender, signers, keys, outs) ==
  LET foreign == {u \in forced : u.at # sender}
  IN foreign # {} => /\ \A u \in foreign : u.at \in keys /\ u.at \in signers
                     /\ Lovelace(foreign) <= outs.ll /\ Tokens(foreign) <= outs.tok
=============================================================================
