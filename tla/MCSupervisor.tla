---------------------------- MODULE MCSupervisor ----------------------------
(* An instance of Supervisor.  No definition tells one message or one tool *)
(* from another, so both may be permuted where no liveness is checked.     *)
EXTENDS Supervisor, TLC

Symmetry == Permutations(Messages) \cup Permutations(Tools)
=============================================================================
