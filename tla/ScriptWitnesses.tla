--------------------------- MODULE ScriptWitnesses ---------------------------
(* Where the scripts of a BuildPlutusTransaction come from: the inline ones   *)
(* become witnesses of the transaction, the others sit on reference inputs.   *)
(* An entry w is a script input, withdrawal, certificate or mint with its     *)
(* inline script and the reference of a UTxO carrying it; refu is the set of  *)
(* resolved reference inputs.                                                 *)
EXTENDS Integers, Sequences, Functions

CONSTANTS None,
  KeyAccounts,   \* reward accounts of a key
  LowAccounts    \* those whose hash sorts before every script hash

Carriers(refu, script) == {u \in refu : u.script = script}

\* _resolveScriptWitness and its twin for script inputs: an inline script that
\* a reference input carries is taken from there.
Source(w, refu) ==
  CASE w.script # None /\ Carriers(refu, w.script) = {} ->
         [script |-> w.script, ref |-> None, inline |-> TRUE]
    [] w.script # None /\ Carriers(refu, w.script) # {} ->
         [script |-> w.script, ref |-> (CHOOSE u \in Carriers(refu, w.script) : TRUE).ref,
          inline |-> FALSE]
    [] w.script = None /\ w.by # None ->
         [script |-> (CHOOSE u \in refu : u.ref = w.by).script, ref |-> w.by, inline |-> FALSE]
    [] OTHER -> [script |-> None, ref |-> None, inline |-> FALSE]

Sources(list, refu) == [i \in DOMAIN list |-> Source(list[i], refu)]

\* A named carrier must carry a script whose bytes are known.
Resolvable(list, refu) ==
  \A w \in Range(list) : w.by # None => Source(w, refu).script # None

\* Every action under a policy takes it from one place.
MintSources(mints, refu) ==
  LET entry(i) == Source([script |-> IF mints[i].by = None THEN mints[i].policy ELSE None,
                          by |-> mints[i].by], refu)
      first(s) == CHOOSE i \in DOMAIN mints :
                    /\ entry(i).script = s /\ entry(i).ref # None
                    /\ \A j \in 1 .. i - 1 : entry(j).script # s \/ entry(j).ref = None
      fromRef(s) == \E i \in DOMAIN mints : entry(i).script = s /\ entry(i).ref # None
  IN [i \in DOMAIN mints |->
        IF fromRef(entry(i).script) THEN entry(first(entry(i).script)) ELSE entry(i)]

\* A unit stands under the policy of its script.
UnitsUnderPolicy(mints, sources) == \A i \in DOMAIN mints : mints[i].unit = sources[i].script

\* One redeemer per policy.
RedeemersAgree(mints, sources) ==
  \A i, j \in DOMAIN mints :
    sources[i].script = sources[j].script => mints[i].redeemer = mints[j].redeemer

\* The credential of a certificate is the hash of its script; a key takes no
\* script, and without one a script credential can only be registered.
CertificatesFit(certs, sources) ==
  \A i \in DOMAIN certs :
    LET c == certs[i]  script == sources[i].script
    IN IF c.account \in KeyAccounts THEN script = None
       ELSE IF script = None THEN c.type = "register" ELSE script = c.account

\* _ledgerWithdrawalOrder: the library numbers withdrawals by hash alone, the
\* ledger puts script credentials first.
Indexable(withdrawals, sources) ==
  (\E i \in DOMAIN withdrawals : sources[i].script # None)
    => \A w \in Range(withdrawals) : w.account \notin LowAccounts
=============================================================================
