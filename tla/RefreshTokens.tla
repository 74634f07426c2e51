---------------------------- MODULE RefreshTokens ----------------------------
(***************************************************************************)
(* Refresh tokens in AUTH_MODE=jwt: JwtAuthStrategy (login, refresh,       *)
(* logout, rollback_login) over the Redis operations of                    *)
(* repository/redis_store_auth.py and rotate_refresh_token.lua.            *)
(*                                                                         *)
(* A MULTI/EXEC pipeline and a Lua script are one step; everything between *)
(* two Redis calls of a request interleaves with the other requests.       *)
(* refresh:{hash}, refresh_used:{hash} and refresh_family_revoked:{f} are  *)
(* represented by their expiry times (0: never set), user_refresh:{uid} by *)
(* its members and its expiry time. A key exists while its expiry time is  *)
(* in the future.                                                          *)
(***************************************************************************)
EXTENDS Naturals

CONSTANTS Token, Family, User, Req,
          NoFamily, NoToken,
          Owner,     \* the user whose login opens a family
          TTL,       \* REFRESH_TTL_SECONDS, in ticks
          MaxTime    \* bound: the clock stops here

ASSUME NoFamilyAssumption == NoFamily \notin Family
ASSUME NoTokenAssumption == NoToken \notin Token
ASSUME OwnerAssumption == Owner \in [Family -> User]
ASSUME TTLAssumption == TTL \in Nat \ {0}   \* validate_ttl
ASSUME MaxTimeAssumption == MaxTime \in Nat

VARIABLES
  now,
  fam,       \* "family_id" of the stored value; kept after the key is gone
  exp,       \* expiry of refresh:{hash}
  usedExp,   \* expiry of the tombstone refresh_used:{hash}
  revExp,    \* expiry of refresh_family_revoked:{uid}:{family}
  index,     \* user_refresh:{uid}
  indexExp,  \* expiry of user_refresh:{uid}
  job,       \* the multi-step operations in flight
  raced,     \* families that stored a token while a revoke-all was under way
  ended      \* families a finished revoke-all had seen in the index

vars == <<now, fam, exp, usedExp, revExp, index, indexExp, job, raced, ended>>
keys == <<fam, exp, usedExp, revExp, index, indexExp>>
ghosts == <<raced, ended>>
-----------------------------------------------------------------------------
PC == {"idle", "recording", "members", "scan", "logout", "delete_all"}

\* The local variables of a request: the token it works on, the family it
\* revokes, {user_id} of a revoke-all, token_hashes still to look at and
\* to_delete.
Job == [pc : PC, tok : Token \cup {NoToken}, fam : Family \cup {NoFamily},
        users : SUBSET User, todo : SUBSET Token, hits : SUBSET Token]
Idle == [pc |-> "idle", tok |-> NoToken, fam |-> NoFamily,
         users |-> {}, todo |-> {}, hits |-> {}]
OnToken(label, t) ==
  [pc |-> label, tok |-> t, fam |-> NoFamily, users |-> {}, todo |-> {}, hits |-> {}]
OnFamily(label, f, todo, hits) ==
  [pc |-> label, tok |-> NoToken, fam |-> f, users |-> {}, todo |-> todo, hits |-> hits]
OnUser(u, todo) ==
  [pc |-> "delete_all", tok |-> NoToken, fam |-> NoFamily, users |-> {u},
   todo |-> todo, hits |-> {}]

TypeOK ==
  /\ now \in Nat
  /\ fam \in [Token -> Family \cup {NoFamily}]
  /\ exp \in [Token -> Nat]
  /\ usedExp \in [Token -> Nat]
  /\ revExp \in [Family -> Nat]
  /\ index \in [User -> SUBSET Token]
  /\ indexExp \in [User -> Nat]
  /\ job \in [Req -> Job]
  /\ \A r \in Req : /\ job[r].pc \in {"members", "scan"} => job[r].fam \in Family
                    /\ job[r].pc \in {"recording", "logout"} =>
                         job[r].tok \in Token /\ fam[job[r].tok] \in Family
  /\ raced \subseteq Family
  /\ ended \subseteq Family
-----------------------------------------------------------------------------
Fresh(t)   == fam[t] = NoFamily
Live(t)    == exp[t] > now
Used(t)    == usedExp[t] > now
Revoked(f) == revExp[f] > now
Usable     == {t \in Token : Live(t) /\ ~Revoked(fam[t])}
Members(u) == IF indexExp[u] > now THEN index[u] ELSE {}

\* SADD and EXPIRE of user_refresh:{uid}, after an SREM of "gone".
AddMember(u, t, gone) ==
  /\ index' = [index EXCEPT ![u] = (Members(u) \ gone) \cup {t}]
  /\ indexExp' = [indexExp EXCEPT ![u] = now + TTL]

\* A family of a user whose tokens are being revoked stores a token.
NoteRace(f) ==
  raced' = IF \E r \in Req : job[r].pc = "delete_all" /\ Owner[f] \in job[r].users
           THEN raced \cup {f} ELSE raced

Goto(r, j) == job' = [job EXCEPT ![r] = j]
Finish(r)  == Goto(r, Idle)

Init ==
  /\ now = 0
  /\ fam = [t \in Token |-> NoFamily]
  /\ exp = [t \in Token |-> 0]
  /\ usedExp = [t \in Token |-> 0]
  /\ revExp = [f \in Family |-> 0]
  /\ index = [u \in User |-> {}]
  /\ indexExp = [u \in User |-> 0]
  /\ job = [r \in Req |-> Idle]
  /\ raced = {}
  /\ ended = {}
-----------------------------------------------------------------------------
\* strategy.login: a new family, a new token, store_refresh_token. The login
\* history is written next.
Login(r, f, t) ==
  /\ job[r].pc = "idle"
  /\ \A u \in Token : fam[u] # f
  /\ Fresh(t)
  /\ fam' = [fam EXCEPT ![t] = f]
  /\ exp' = [exp EXCEPT ![t] = now + TTL]
  /\ AddMember(Owner[f], t, {})
  /\ Goto(r, OnToken("recording", t))
  /\ NoteRace(f)
  /\ UNCHANGED <<now, usedExp, revExp, ended>>

LoginRecorded(r) ==
  /\ job[r].pc = "recording"
  /\ Finish(r)
  /\ UNCHANGED <<now, keys, ghosts>>

\* revoke_refresh_token: DEL and SREM in one pipeline.
RevokeRefreshToken(t) ==
  /\ exp' = [exp EXCEPT ![t] = 0]
  /\ index' = [index EXCEPT ![Owner[fam[t]]] = @ \ {t}]
  /\ UNCHANGED <<fam, usedExp, revExp, indexExp>>

\* Writing the login history failed: rollback_login.
RollbackLogin(r) ==
  /\ job[r].pc = "recording"
  /\ RevokeRefreshToken(job[r].tok)
  /\ Finish(r)
  /\ UNCHANGED <<now, ghosts>>

\* The token of a login still being recorded has not reached its client.
Delivered(t) == \A r \in Req : ~(job[r].pc = "recording" /\ job[r].tok = t)

\* Mutant: the script leaves out DEL of the old key.
RotateKeepsOld(t, n) ==
  /\ Live(t) /\ Delivered(t)
  /\ ~Revoked(fam[t])
  /\ Fresh(n)
  /\ fam' = [fam EXCEPT ![n] = fam[t]]
  /\ exp' = [exp EXCEPT ![n] = now + TTL]
  /\ usedExp' = [usedExp EXCEPT ![t] = now + TTL]
  /\ AddMember(Owner[fam[t]], n, {t})
  /\ NoteRace(fam[t])
  /\ UNCHANGED <<now, revExp, job, ended>>

\* Mutant: the script leaves out EXPIRE of the index.
RotateKeepsIndexTtl(t, n) ==
  /\ Live(t) /\ Delivered(t)
  /\ ~Revoked(fam[t])
  /\ Fresh(n)
  /\ fam' = [fam EXCEPT ![n] = fam[t]]
  /\ exp' = [exp EXCEPT ![t] = 0, ![n] = now + TTL]
  /\ usedExp' = [usedExp EXCEPT ![t] = now + TTL]
  /\ index' = [index EXCEPT ![Owner[fam[t]]] = (Members(Owner[fam[t]]) \ {t}) \cup {n}]
  /\ UNCHANGED indexExp
  /\ NoteRace(fam[t])
  /\ UNCHANGED <<now, revExp, job, ended>>

\* rotate_refresh_token.lua, result 1.
Rotate(t, n) ==
  /\ Live(t) /\ Delivered(t)
  /\ ~Revoked(fam[t])
  /\ Fresh(n)
  /\ fam' = [fam EXCEPT ![n] = fam[t]]
  /\ exp' = [exp EXCEPT ![t] = 0, ![n] = now + TTL]
  /\ usedExp' = [usedExp EXCEPT ![t] = now + TTL]
  /\ AddMember(Owner[fam[t]], n, {t})
  /\ NoteRace(fam[t])
  /\ UNCHANGED <<now, revExp, job, ended>>

\* Result 2, the presented token is stored but its family is revoked: the
\* handler goes on to revoke_token_family.
RefuseRevoked(r, t) ==
  /\ job[r].pc = "idle"
  /\ Live(t) /\ Delivered(t)
  /\ Revoked(fam[t])
  /\ Goto(r, OnFamily("members", fam[t], {}, {}))
  /\ UNCHANGED <<now, keys, ghosts>>

\* Mutant: the marker gets a shorter life than the tokens it blocks.
DetectReuseShortMarker(r, t) ==
  /\ job[r].pc = "idle"
  /\ ~Live(t)
  /\ Used(t)
  /\ revExp' = [revExp EXCEPT ![fam[t]] = now + 1]
  /\ Goto(r, OnFamily("members", fam[t], {}, {}))
  /\ UNCHANGED <<now, fam, exp, usedExp, index, indexExp, ghosts>>

\* Result 2, the presented token was rotated before: the script sets the
\* marker, the handler goes on to revoke_token_family. (Result 0, neither key
\* exists, changes nothing.)
DetectReuse(r, t) ==
  /\ job[r].pc = "idle"
  /\ ~Live(t)
  /\ Used(t)
  /\ revExp' = [revExp EXCEPT ![fam[t]] = now + TTL]
  /\ Goto(r, OnFamily("members", fam[t], {}, {}))
  /\ UNCHANGED <<now, fam, exp, usedExp, index, indexExp, ghosts>>

\* revoke_token_family: SMEMBERS, ...
FamilyMembers(r) ==
  /\ job[r].pc = "members"
  /\ Goto(r, OnFamily("scan", job[r].fam, Members(Owner[job[r].fam]), {}))
  /\ UNCHANGED <<now, keys, ghosts>>

\* ... a GET for each of them, ...
FamilyGet(r, t) ==
  /\ job[r].pc = "scan"
  /\ t \in job[r].todo
  /\ Goto(r, OnFamily("scan", job[r].fam, job[r].todo \ {t},
                      IF Live(t) /\ fam[t] = job[r].fam
                      THEN job[r].hits \cup {t} ELSE job[r].hits))
  /\ UNCHANGED <<now, keys, ghosts>>

\* ... and one pipeline: the marker again, DEL and SREM of what was found.
FamilyExec(r) ==
  /\ job[r].pc = "scan"
  /\ job[r].todo = {}
  /\ revExp' = [revExp EXCEPT ![job[r].fam] = now + TTL]
  /\ exp' = [t \in Token |-> IF t \in job[r].hits THEN 0 ELSE exp[t]]
  /\ index' = [index EXCEPT ![Owner[job[r].fam]] = @ \ job[r].hits]
  /\ Finish(r)
  /\ UNCHANGED <<now, fam, usedExp, indexExp, ghosts>>

\* logout: get_refresh_token finds the token, ...
LogoutGet(r, t) ==
  /\ job[r].pc = "idle"
  /\ Live(t) /\ Delivered(t)
  /\ Goto(r, OnToken("logout", t))
  /\ UNCHANGED <<now, keys, ghosts>>

\* ... revoke_refresh_token removes it.
LogoutRevoke(r) ==
  /\ job[r].pc = "logout"
  /\ RevokeRefreshToken(job[r].tok)
  /\ Finish(r)
  /\ UNCHANGED <<now, ghosts>>

\* revoke_all_refresh_tokens (deactivation, force logout, password change and
\* reset): SMEMBERS, ...
RevokeAllMembers(r, u) ==
  /\ job[r].pc = "idle"
  /\ Goto(r, OnUser(u, Members(u)))
  /\ UNCHANGED <<now, keys, ghosts>>

\* Mutant: only the index is deleted.
RevokeAllKeepsTokens(r) ==
  /\ job[r].pc = "delete_all"
  /\ index' = [u \in User |-> IF u \in job[r].users THEN {} ELSE index[u]]
  /\ ended' = ended \cup {f \in Family : \E t \in job[r].todo : fam[t] = f}
  /\ Finish(r)
  /\ UNCHANGED <<now, fam, exp, usedExp, revExp, indexExp, raced>>

\* ... then one pipeline: DEL of each member and of the index.
RevokeAllExec(r) ==
  /\ job[r].pc = "delete_all"
  /\ exp' = [t \in Token |-> IF t \in job[r].todo THEN 0 ELSE exp[t]]
  /\ index' = [u \in User |-> IF u \in job[r].users THEN {} ELSE index[u]]
  /\ ended' = ended \cup {f \in Family : \E t \in job[r].todo : fam[t] = f}
  /\ Finish(r)
  /\ UNCHANGED <<now, fam, usedExp, revExp, indexExp, raced>>

\* A Redis call fails: the exception ends the request where it stands.
RedisFails(r) ==
  /\ job[r].pc # "idle"
  /\ Finish(r)
  /\ UNCHANGED <<now, keys, ghosts>>

Tick ==
  /\ now < MaxTime
  /\ now' = now + 1
  /\ UNCHANGED <<keys, job, ghosts>>

Next ==
  \/ \E r \in Req, f \in Family, t \in Token : Login(r, f, t)
  \/ \E t, n \in Token : Rotate(t, n)
  \/ \E r \in Req, t \in Token :
       RefuseRevoked(r, t) \/ DetectReuse(r, t) \/ FamilyGet(r, t) \/ LogoutGet(r, t)
  \/ \E r \in Req : \/ LoginRecorded(r) \/ RollbackLogin(r)
                    \/ FamilyMembers(r) \/ FamilyExec(r)
                    \/ LogoutRevoke(r) \/ RevokeAllExec(r) \/ RedisFails(r)
  \/ \E r \in Req, u \in User : RevokeAllMembers(r, u)
  \/ Tick

Spec == Init /\ [][Next]_vars
-----------------------------------------------------------------------------
\* Of one login at most one refresh token is stored at any time, however many
\* refreshes, retries and revocations run together.
OneLivePerFamily ==
  \A t, u \in Token : Live(t) /\ Live(u) /\ fam[t] = fam[u] => t = u

\* Once reuse was detected in a family no token is ever issued in it again,
\* even if revoke_token_family fails half-way or its marker has expired:
\* the marker outlives every token it has to block.
NoIssueAfterRevocation ==
  [][\A t \in Token : Fresh(t) /\ fam'[t] # NoFamily => revExp[fam'[t]] = 0]_vars

\* user_refresh:{uid} names every stored token of its user, so that a
\* revocation that starts now misses none; the only exception is a token
\* stored while another revocation of the same user is between its SMEMBERS
\* and its DEL of the set.
IndexCovers ==
  \A t \in Token : Live(t) => t \in Members(Owner[fam[t]]) \/ fam[t] \in raced

\* A revoke-all that has run to its end leaves no usable token in the
\* families it saw, except those that were refreshed while it ran.
RevokeAllCovers == \A t \in Usable : fam[t] \in ended => fam[t] \in raced

\* The Redis operations implement the family life cycle of TokenFamilies.
Abstract == INSTANCE TokenFamilies WITH usable <- Usable
ImplementsFamilies == Abstract!Spec
-----------------------------------------------------------------------------
\* Inductive strengthening.
UnissuedIsAbsent == \A t \in Token : Fresh(t) => exp[t] = 0 /\ usedExp[t] = 0

ExpiryBounded == \A t \in Token : exp[t] <= now + TTL

\* Only families that a login has opened are revoked.
Opened(f) == \E t \in Token : fam[t] = f
MarkedWasOpened ==
  /\ \A f \in Family : revExp[f] # 0 => Opened(f)
  /\ \A r \in Req : job[r].pc \in {"members", "scan"} => Opened(job[r].fam)

\* A revocation marker does not expire before the tokens it blocks.
MarkerOutlives ==
  \A t \in Token : Live(t) /\ revExp[fam[t]] # 0 => exp[t] <= revExp[fam[t]]

IInv ==
  /\ TypeOK
  /\ UnissuedIsAbsent
  /\ ExpiryBounded
  /\ OneLivePerFamily
  /\ MarkedWasOpened
  /\ MarkerOutlives
=============================================================================
