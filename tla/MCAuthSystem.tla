----------------------------- MODULE MCAuthSystem -----------------------------
(* Symmetry for model-checking AuthSystem.                                   *)
EXTENDS AuthSystem, TLC

Symmetry ==
    Permutations(User) \cup Permutations(Session) \cup Permutations(Jti)
        \cup Permutations(Role) \cup Permutations(Request)
===============================================================================
