--------------------------- MODULE MCHandleClaim ---------------------------
(* An instance of HandleClaim: the processes and the pids are model values *)
(* and neither are told apart, so both may be permuted.                    *)
EXTENDS HandleClaim, TLC

Symmetry == Permutations(Procs) \cup Permutations(Pids)
=============================================================================
