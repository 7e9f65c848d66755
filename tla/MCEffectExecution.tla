------------------------- MODULE MCEffectExecution -------------------------
(* Instances of EffectExecution for TLC: one effect of one tenant.           *)
EXTENDS EffectRefinement, TLC

CONSTANTS a1, h, t1, e1, w1, w2, c1, c2, r1, d1

AllOneTenant == [a \in {a1, h} |-> t1]
OneActor == [c \in Cycles |-> a1]
Leases == Cycles \X EffectKeys \X (1 .. MAX_EFFECT_TRANSITIONS)

\* Workers are alike, and so are the cycles they run.
Symmetry == Permutations(Workers) \cup Permutations(Cycles)
=============================================================================
