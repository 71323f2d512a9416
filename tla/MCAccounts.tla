----------------------------- MODULE MCAccounts ------------------------------
(* Symmetry for model-checking Accounts.                                     *)
EXTENDS Accounts, TLC

Symmetry ==
    Permutations(User) \cup Permutations(Address) \cup Permutations(Request)
===============================================================================
