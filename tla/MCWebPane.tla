------------------------------ MODULE MCWebPane ------------------------------
(* The instance of WebPane: one room, one peer, two handlers at once. *)
EXTENDS WebPane

TaskSymmetry == Permutations(Tasks)
=============================================================================
