------------------------ MODULE MCEmailVerification ------------------------
EXTENDS EmailVerification, TLC

CONSTANTS a1, a2, a3, n1, n2, m1, m2, r1, r2, r3, t1, t2, t3

\* a1 and a2 ask for one user name, a1 and a3 give one address
Names == (a1 :> n1) @@ (a2 :> n1) @@ (a3 :> n2)
Mails == (a1 :> m1) @@ (a2 :> m2) @@ (a3 :> m1)

\* The third account matters to who may register, not to the tokens.
Focus ==
  \/ a2 \notin rows \cup {pending[r] : r \in Req} \cup {req[r].acc : r \in Req}
  \/ \A t \in Token : owner[t] = NoAccount

Alike == Permutations({r1, r2, r3}) \cup Permutations({t1, t2, t3})
=============================================================================
