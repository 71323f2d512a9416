-------------------------- MODULE MCLoginThrottle ---------------------------
(* Symmetry for model-checking LoginThrottle.                              *)
EXTENDS LoginThrottle, TLC

Symmetry == Permutations(Worker) \cup Permutations(Ident)
=============================================================================
