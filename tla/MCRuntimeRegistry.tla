-------------------------- MODULE MCRuntimeRegistry --------------------------
(* Small instances of RuntimeRegistry for TLC. *)
EXTENDS RuntimeRegistry, TLC

CONSTANTS k1, k2, o1, o2, c1, c2

OneKind == {k1}
TwoKinds == {k1, k2}
OneOp == {o1}
TwoOps == {o1, o2}
OneControl == {c1}
TwoControls == {c1, c2}

\* The code treats kinds, commands and controls alike.
Symmetry == Permutations(Kinds) \cup Permutations(Ops) \cup Permutations(Controls)

=============================================================================
