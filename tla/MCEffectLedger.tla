--------------------------- MODULE MCEffectLedger ---------------------------
(* Instances of EffectLedger for TLC.                                        *)
EXTENDS EffectLedger, TLC

CONSTANTS a1, a2, l1, l2, t1, e1

\* One aggregate, two actors of one tenant racing for it.
OneTenant == [a \in {a1, a2} |-> t1]
LedgerSymmetry == Permutations({a1, a2}) \cup Permutations({l1, l2})
=============================================================================
