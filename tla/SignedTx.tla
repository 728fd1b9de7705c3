------------------------------- MODULE SignedTx -------------------------------
(***************************************************************************)
(* Signed transactions and their verification, as operators: merging a     *)
(* CIP-30 witness set into the unsigned transaction (signing-helper.ts),   *)
(* the witness checks (signature-verifier.ts), the HSM's own witness       *)
(* (hsm-signer.ts) and the keys that must sign (cardano-sign-service.ts).  *)
(*                                                                         *)
(* A signed input is a record: form "full" (a transaction) or "witness"    *)
(* (a witness set alone), the build whose body it carries (`body', which   *)
(* means nothing for a witness set) and the vkey witnesses, pairs of a key *)
(* and whether its signature is over the body the witness was made for.    *)
(* The body hash of a build is the build: hashing original bytes makes     *)
(* equal hashes and equal bodies the same thing.                           *)
(***************************************************************************)
CONSTANTS
  Builds,       \* unsigned transactions
  SenderKey,    \* SenderKey[b]: payment key of the sender; NoKey for a script
  BodySigners,  \* BodySigners[b]: required_signers of the body
  NoKey, HsmKey

Keys(tx) == {s.key : s \in tx.sigs}

NoTx == [form |-> "none"]

\* toSignedTransaction: the wallet's signatures replace those of the
\* unsigned transaction, whose body stays; a witness set without any
\* signature is refused.
ToSigned(b, in) ==
  IF in.form = "full" THEN in
  ELSE IF in.sigs = {} THEN NoTx
  ELSE [form |-> "full", body |-> b, sigs |-> in.sigs]

\* resolveRequiredSigners: the body's signers and the sender's payment key.
RequiredSigners(b) == BodySigners[b] \cup ({SenderKey[b]} \ {NoKey})

\* Mutation: the checks stop at the names of the signers.
VerifiesKeysOnly(tx, b, required) ==
  /\ tx # NoTx /\ tx.body = b /\ tx.sigs # {}
  /\ required \subseteq Keys(tx)

\* SignatureVerifier.verify: the body is the expected one, it is signed,
\* every required key is among the witnesses and every witness verifies.
Verifies(tx, b, required) ==
  /\ tx # NoTx /\ tx.body = b /\ tx.sigs # {}
  /\ required \subseteq Keys(tx)
  /\ \A s \in tx.sigs : s.ok

\* HsmSigner.signTransaction: the HSM's witness replaces all others.
HsmSigned(b, ok) == [form |-> "full", body |-> b, sigs |-> {[key |-> HsmKey, ok |-> ok]}]

\* External: the ledger takes a transaction whose required keys all signed.
LedgerAccepts(tx) ==
  /\ RequiredSigners(tx.body) \subseteq {s.key : s \in {t \in tx.sigs : t.ok}}
  /\ \A s \in tx.sigs : s.ok
=============================================================================
