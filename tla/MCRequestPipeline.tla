-------------------------- MODULE MCRequestPipeline --------------------------
EXTENDS RequestPipeline, TLC

CONSTANTS u1, u2, n1, n2, r1, r2, c1, c2, proxy

Owners == (n1 :> u1) @@ (n2 :> u1)

\* Statuses that only the public endpoint's service answers with
Rare == {400, 404, 405, 409, 422}

\* u1 owns the notifications and may lose his session or be deactivated; u2
\* only tries to mark one of them; one request is u1's. The mode jwt, which
\* differs in what a write has to show, is left to u1's writes. Public requests
\* share nothing with notifications: they meet each other only, a rare
\* status needs no second request, and all the others are counted at c1.
Focus ==
  /\ u2 \in session \cap active /\ u1 \in session \cup active
  /\ \A r \in Req : req[r].sender = u2 => req[r].op = "read"
  /\ \E r \in Req : req[r].pc = "new" \/ req[r].sender = u1 \/ req[r].op = "public"
  /\ mode = "jwt" => \A r \in Req : req[r].pc = "new" \/ (req[r].sender = u1 /\ req[r].op \in Writes)
  /\ mode = "jwt" => u1 \in session \cap active
  /\ \A r \in Req : req[r].op = "public" /\ req[r].pc # "new" =>
       /\ session = User /\ active = User /\ sent = {}
       /\ \A q \in Req \ {r} : \/ req[q].pc = "new"
                               \/ req[q].op = "public" /\ Rare \cap {req[r].code, req[r].answer} = {}
  /\ \A u \in User, a \in Addr \ {c1} :
       count[<<"notification_read", u, a>>] = 0 /\ count[<<"notification_write", u, a>>] = 0

Alike == Permutations({r1, r2}) \cup Permutations({n1, n2})
=============================================================================
