-------------------------------- MODULE MCDfs --------------------------------
(* Instances of Dfs for TLC. *)
EXTENDS DfsRefinement, TLC

CONSTANTS s1, s2, elsewhere, k1, k2

OneServer == {s1}
TwoServers == {s1, s2}

\* Sound where nobody is Local, and no liveness is checked.
ServerSymmetry == Permutations(TwoServers)
==============================================================================
