------------------------- MODULE MCEffectGovernor -------------------------
EXTENDS EffectGovernor, TLC

CONSTANTS n1, n2, n3, op1, op2, t1, t2

\* One dispatch per window of two, opened by a single failure or by two of them.
Strict  == [id |-> "p", max |-> 1, window |-> 2, threshold |-> 1,
            open |-> 1, probe |-> 1, retention |-> 3]
Patient == [id |-> "p", max |-> 2, window |-> 2, threshold |-> 2,
            open |-> 1, probe |-> 2, retention |-> 3]

Both == {Strict, Patient}

Symmetry ==
    Permutations(AdmissionIds) \cup Permutations(Operations) \cup Permutations(Tenants)
============================================================================
