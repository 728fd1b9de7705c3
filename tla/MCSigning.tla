------------------------------- MODULE MCSigning -------------------------------
(* Instances of the signing model: one build of an external wallet with a   *)
(* cosigner, one of the HSM.                                                *)
EXTENDS Signing

CONSTANTS i1, i2, h1, h2, k1, k2, wb, hb

Sender == [b \in Builds |-> IF b = hb THEN HsmKey ELSE k1]
Cosigned == [b \in Builds |-> IF b = hb THEN {} ELSE {k2}]
OneInstance == [h \in Slots |-> i1]

Sig(k, ok) == [key |-> k, ok |-> ok]
In(form, b, sigs) == [form |-> form, body |-> b, sigs |-> sigs]
Good == {Sig(k1, TRUE), Sig(k2, TRUE)}

\* A complete witness set, a transaction that misses a cosigner, one with a
\* signature over another body, an unsigned witness set, a foreign body.
WalletInputs == {In("witness", wb, Good), In("full", wb, {Sig(k1, TRUE)}),
                 In("full", wb, {Sig(k1, TRUE), Sig(k2, FALSE)}),
                 In("witness", wb, {}), In("full", hb, Good)}
=============================================================================
