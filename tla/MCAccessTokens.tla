--------------------------- MODULE MCAccessTokens ---------------------------
(* Symmetry for model-checking AccessTokens.                               *)
EXTENDS AccessTokens, TLC

Symmetry == Permutations(Jti) \cup Permutations(Call) \cup Permutations(User)
=============================================================================
