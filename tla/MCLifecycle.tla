---------------------------- MODULE MCLifecycle ----------------------------
(***************************************************************************)
(* Lifecycle with the callers as interchangeable model values.             *)
(***************************************************************************)
EXTENDS Lifecycle, TLC

CONSTANTS c1, c2

OneCaller == {c1}
TwoCallers == {c1, c2}

Symmetry == Permutations(TwoCallers)
=============================================================================
