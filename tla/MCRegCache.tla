----------------------------- MODULE MCRegCache -----------------------------
(* RegCache for TLC.                                                        *)
EXTENDS RegCache, TLC

CONSTANTS o1, o2

\* Operations are alike.
Symmetry == Permutations(Op)

\* mr, which no step reads and which only NoStaleHit is about, is left out.
View == <<[e \in Entry |-> [dreg[e] EXCEPT !.mr = {}]],
          vmas, free, unused, pinned, queued, mapped, op, spins>>
=============================================================================
