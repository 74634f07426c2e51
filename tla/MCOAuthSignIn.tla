--------------------------- MODULE MCOAuthSignIn ---------------------------
EXTENDS OAuthSignIn, TLC

CONSTANTS s1, s2, b1, r1, r2, h1, h2, u1, u2, g1, g2, e1, e2

Accounts == (g1 :> e1) @@ (g2 :> e2)

Alike == Permutations({r1, r2}) \cup Permutations({s1, s2})
           \cup Permutations({u1, u2}) \cup Permutations({h1, h2})
=============================================================================
