------------------------- MODULE MCClientRegistry -------------------------
(* Constants of the model-checking run of ClientRegistry. *)
EXTENDS ClientRegistry, TLC

CONSTANTS a1, a2, d1, d2, t1, t2, s1, s2

\* The full clients, the direct ones and the sizes are alike.
Symmetry == Permutations({a1, a2}) \cup Permutations({d1, d2}) \cup Permutations({s1, s2})
=============================================================================
