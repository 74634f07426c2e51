--------------------------- MODULE MCRefreshTokens ---------------------------
(* Small instances of RefreshTokens for TLC. *)
EXTENDS RefreshTokens, TLC

\* One user owns every family.
SingleOwner == [f \in Family |-> CHOOSE u \in User : TRUE]

Symm == Permutations(Token) \cup Permutations(Family) \cup Permutations(Req)
=============================================================================
