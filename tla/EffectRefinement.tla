-------------------------- MODULE EffectRefinement --------------------------
(***************************************************************************)
(* The refinement mapping from EffectExecution, the ledger with the         *)
(* processes that use it, to EffectLedger, the ledger and its commands.     *)
(***************************************************************************)
EXTENDS EffectExecution

\* The processes use the ledger only as EffectLedger allows.  Command
\* identities, digests in the code, are numbered in commit order.
Numbered(tr) == [i \in DOMAIN tr |-> [tr[i] EXCEPT !.id = i]]

Ledger == INSTANCE EffectLedger WITH
    effects <- [k \in EffectKeys |->
                  [effects[k] EXCEPT !.transitions = Numbered(effects[k].transitions)]]

\* Executor, reconciler and driver implement the abstract ledger: what is
\* proved of EffectLedger holds of the system.  This is Ledger!Spec with the
\* stuttering step first, where TLC finds it before it tries Ledger!Next.
ImplementsLedger ==
    Ledger!Init /\ [][UNCHANGED Ledger!vars \/ Ledger!Next]_(Ledger!vars)
=============================================================================
