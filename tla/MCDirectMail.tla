--------------------------- MODULE MCDirectMail ---------------------------
(* The instance of DirectMail.  No definition or property tells one sender *)
(* from another.                                                           *)
EXTENDS DirectMail, TLC

Symmetry == Permutations(Senders)
=============================================================================
