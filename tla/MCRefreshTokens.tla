-------------------------- MODULE MCRefreshTokens --------------------------
(* Model values and symmetry for model-checking RefreshTokens.             *)
EXTENDS RefreshTokens, TLC

Symmetry ==
    Permutations(Token) \cup Permutations(Family)
        \cup Permutations(Device) \cup Permutations(Request)
=============================================================================
