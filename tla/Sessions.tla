------------------------------ MODULE Sessions ------------------------------
(***************************************************************************)
(* Server-side sessions in AUTH_MODE=session: SessionAuthStrategy (login,  *)
(* authenticate, logout, rollback_login) over                              *)
(* repository/redis_store_session.py.                                      *)
(*                                                                         *)
(* As in RefreshTokens a pipeline is one step, a key is represented by its *)
(* expiry time and exists while that lies in the future.  session:{sid}    *)
(* and csrf:{sid} are two keys; user_sessions:{uid} is the index that      *)
(* delete_all_sessions goes by.                                            *)
(***************************************************************************)
EXTENDS Integers

CONSTANTS Session, User, Req, NoSession,
          Owner,    \* the user who logs in with a session
          TTL,      \* SESSION_TTL_SECONDS, in ticks
          AbsTTL,   \* SESSION_ABSOLUTE_TTL_SECONDS, in ticks
          MaxTime   \* bound: the clock stops here

ASSUME NoSessionAssumption == NoSession \notin Session
ASSUME OwnerAssumption == Owner \in [Session -> User]
ASSUME TTLAssumption == TTL \in Nat \ {0} /\ AbsTTL \in Nat \ {0}
ASSUME MaxTimeAssumption == MaxTime \in Nat

VARIABLES
  now,
  created,   \* created_at of the sessions there have been
  born,      \* the sessions there have been
  exp,       \* expiry of session:{sid}
  csrfExp,   \* expiry of csrf:{sid}
  index,     \* user_sessions:{uid}
  indexExp,  \* expiry of user_sessions:{uid}
  job,       \* the requests in flight
  raced,     \* sessions created while a delete-all of their user was under way
  shrunk,    \* users whose index was given a shorter life than it had
  ended      \* sessions a finished delete-all had seen in the index

vars == <<now, created, born, exp, csrfExp, index, indexExp, job, raced, shrunk, ended>>
keys == <<created, born, exp, csrfExp, index, indexExp>>
ghosts == <<raced, shrunk, ended>>
-----------------------------------------------------------------------------
PC == {"idle", "recording", "touch", "extend", "logout", "delete_all"}

\* Local variables: the session, effective_ttl, and {user_id} with the
\* session_ids of a delete-all.
Job == [pc : PC, sid : Session \cup {NoSession}, ttl : Nat,
        users : SUBSET User, todo : SUBSET Session]
Idle == [pc |-> "idle", sid |-> NoSession, ttl |-> 0, users |-> {}, todo |-> {}]
On(label, s, ttl) == [pc |-> label, sid |-> s, ttl |-> ttl, users |-> {}, todo |-> {}]
OnUser(u, todo) ==
  [pc |-> "delete_all", sid |-> NoSession, ttl |-> 0, users |-> {u}, todo |-> todo]

TypeOK ==
  /\ now \in Nat
  /\ born \subseteq Session
  /\ created \in [Session -> Nat]
  /\ exp \in [Session -> Nat]
  /\ csrfExp \in [Session -> Nat]
  /\ index \in [User -> SUBSET Session]
  /\ indexExp \in [User -> Nat]
  /\ job \in [Req -> Job]
  /\ \A r \in Req : job[r].pc \in {"recording", "touch", "extend", "logout"} => job[r].sid \in born
  /\ raced \subseteq Session
  /\ shrunk \subseteq User
  /\ ended \subseteq Session
-----------------------------------------------------------------------------
Live(s)     == exp[s] > now
CsrfLive(s) == csrfExp[s] > now
Members(u)  == IF indexExp[u] > now THEN index[u] ELSE {}
Least(m, n) == IF m <= n THEN m ELSE n

Goto(r, j) == job' = [job EXCEPT ![r] = j]
Finish(r)  == Goto(r, Idle)

Init ==
  /\ now = 0
  /\ born = {}
  /\ created = [s \in Session |-> 0]
  /\ exp = [s \in Session |-> 0]
  /\ csrfExp = [s \in Session |-> 0]
  /\ index = [u \in User |-> {}]
  /\ indexExp = [u \in User |-> 0]
  /\ job = [r \in Req |-> Idle]
  /\ raced = {} /\ shrunk = {} /\ ended = {}
-----------------------------------------------------------------------------
\* login: create_session; the login history is written next.
Login(r, s) ==
  LET u == Owner[s] IN
  /\ job[r].pc = "idle"
  /\ s \notin born
  /\ born' = born \cup {s}
  /\ created' = [created EXCEPT ![s] = now]
  /\ exp' = [exp EXCEPT ![s] = now + TTL]
  /\ csrfExp' = [csrfExp EXCEPT ![s] = now + TTL]
  /\ index' = [index EXCEPT ![u] = Members(u) \cup {s}]
  /\ indexExp' = [indexExp EXCEPT ![u] = now + TTL]
  /\ Goto(r, On("recording", s, 0))
  /\ raced' = IF \E q \in Req : job[q].pc = "delete_all" /\ u \in job[q].users
              THEN raced \cup {s} ELSE raced
  /\ UNCHANGED <<now, shrunk, ended>>

LoginRecorded(r) ==
  /\ job[r].pc = "recording"
  /\ Finish(r)
  /\ UNCHANGED <<now, keys, ghosts>>

\* Mutant: only the session key is deleted.
DeleteSessionKeepsCsrf(s) ==
  /\ exp' = [exp EXCEPT ![s] = 0]
  /\ index' = [index EXCEPT ![Owner[s]] = @ \ {s}]
  /\ UNCHANGED <<born, created, csrfExp, indexExp>>

\* delete_session: both keys and the index entry in one pipeline.
DeleteSession(s) ==
  /\ exp' = [exp EXCEPT ![s] = 0]
  /\ csrfExp' = [csrfExp EXCEPT ![s] = 0]
  /\ index' = [index EXCEPT ![Owner[s]] = @ \ {s}]
  /\ UNCHANGED <<born, created, indexExp>>

\* Writing the login history failed: rollback_login.
RollbackLogin(r) ==
  /\ job[r].pc = "recording"
  /\ DeleteSession(job[r].sid)
  /\ Finish(r)
  /\ UNCHANGED <<now, ghosts>>

\* The cookie of a login still being recorded has not reached its client.
Delivered(s) == \A r \in Req : ~(job[r].pc = "recording" /\ job[r].sid = s)

\* authenticate: get_session finds the session, ...
Authenticate(r, s) ==
  /\ job[r].pc = "idle"
  /\ Live(s) /\ Delivered(s)
  /\ Goto(r, On("touch", s, 0))
  /\ UNCHANGED <<now, keys, ghosts>>

\* ... touch_session looks again and works out the time left, ...
TouchSession(r) ==
  LET s   == job[r].sid
      end == created[s] + AbsTTL
  IN
  /\ job[r].pc = "touch"
  /\ \/ Live(s) /\ end > now /\ Goto(r, On("extend", s, Least(TTL, end - now)))
     \/ (~Live(s) \/ end <= now) /\ Finish(r)   \* SESSION_EXPIRED
  /\ UNCHANGED <<now, keys, ghosts>>

\* Mutant: touch_session extends the session but not the index.
ExtendForgetsIndex(r) ==
  LET s == job[r].sid
      Expire(e) == IF e > now THEN now + job[r].ttl ELSE e
  IN
  /\ job[r].pc = "extend"
  /\ exp' = [exp EXCEPT ![s] = Expire(@)]
  /\ csrfExp' = [csrfExp EXCEPT ![s] = Expire(@)]
  /\ Finish(r)
  /\ UNCHANGED <<now, born, created, index, indexExp, ghosts>>

\* ... and EXPIRE of the three keys, those that still exist.
Extend(r) ==
  LET s == job[r].sid
      u == Owner[s]
      Expire(e) == IF e > now THEN now + job[r].ttl ELSE e
  IN
  /\ job[r].pc = "extend"
  /\ exp' = [exp EXCEPT ![s] = Expire(@)]
  /\ csrfExp' = [csrfExp EXCEPT ![s] = Expire(@)]
  /\ indexExp' = [indexExp EXCEPT ![u] = Expire(@)]
  /\ shrunk' = IF Members(u) # {} /\ indexExp[u] > now + job[r].ttl THEN shrunk \cup {u} ELSE shrunk
  /\ Finish(r)
  /\ UNCHANGED <<now, born, created, index, raced, ended>>

\* logout: get_session, then delete_session.
LogoutGet(r, s) ==
  /\ job[r].pc = "idle"
  /\ Live(s) /\ Delivered(s)
  /\ Goto(r, On("logout", s, 0))
  /\ UNCHANGED <<now, keys, ghosts>>

LogoutDelete(r) ==
  /\ job[r].pc = "logout"
  /\ DeleteSession(job[r].sid)
  /\ Finish(r)
  /\ UNCHANGED <<now, ghosts>>

\* delete_all_sessions (deactivation, force logout, password change and
\* reset): SMEMBERS, then one pipeline over what it returned.
DeleteAllMembers(r, u) ==
  /\ job[r].pc = "idle"
  /\ Goto(r, OnUser(u, Members(u)))
  /\ UNCHANGED <<now, keys, ghosts>>

\* Mutant: the members are read but only the index is deleted.
DeleteAllKeepsKeys(r) ==
  /\ job[r].pc = "delete_all"
  /\ index' = [u \in User |-> IF u \in job[r].users THEN {} ELSE index[u]]
  /\ ended' = ended \cup job[r].todo
  /\ Finish(r)
  /\ UNCHANGED <<now, born, created, exp, csrfExp, indexExp, raced, shrunk>>

DeleteAllExec(r) ==
  /\ job[r].pc = "delete_all"
  /\ exp' = [s \in Session |-> IF s \in job[r].todo THEN 0 ELSE exp[s]]
  /\ csrfExp' = [s \in Session |-> IF s \in job[r].todo THEN 0 ELSE csrfExp[s]]
  /\ index' = [u \in User |-> IF u \in job[r].users THEN {} ELSE index[u]]
  /\ ended' = ended \cup job[r].todo
  /\ Finish(r)
  /\ UNCHANGED <<now, born, created, indexExp, raced, shrunk>>

\* A Redis call fails: the exception ends the request where it stands.
RedisFails(r) ==
  /\ job[r].pc # "idle"
  /\ Finish(r)
  /\ UNCHANGED <<now, keys, ghosts>>

Tick ==
  /\ now < MaxTime
  /\ now' = now + 1
  /\ UNCHANGED <<keys, job, ghosts>>

Next ==
  \/ \E r \in Req, s \in Session : Login(r, s) \/ Authenticate(r, s) \/ LogoutGet(r, s)
  \/ \E r \in Req : \/ LoginRecorded(r) \/ RollbackLogin(r) \/ TouchSession(r) \/ Extend(r)
                    \/ LogoutDelete(r) \/ DeleteAllExec(r) \/ RedisFails(r)
  \/ \E r \in Req, u \in User : DeleteAllMembers(r, u)
  \/ Tick

Spec == Init /\ [][Next]_vars
-----------------------------------------------------------------------------
\* A session that was deleted or has expired never comes back, although
\* authenticate extends it in a pipeline sent after it last saw it alive.
GoneStaysGone == [][\A s \in Session : s \in born /\ ~Live(s) => ~Live(s)']_vars

\* A live session always has its CSRF token, and no token is left behind by
\* a session: every operation treats the two keys alike.
SessionAndCsrfTogether == \A s \in Session : Live(s) <=> CsrfLive(s)

\* A delete-all that has run to its end has ended every session it found,
\* whatever authenticate, logout and other delete-alls did meanwhile.
DeleteAllIsFinal == \A s \in ended : ~Live(s)

\* user_sessions:{uid} names every live session of its user, but for the
\* sessions created in the middle of a delete-all and for users whose index
\* a request near its session's absolute end has given a shorter life.
IndexCovers ==
  \A s \in Session : Live(s) => s \in Members(Owner[s]) \/ s \in raced \/ Owner[s] \in shrunk
=============================================================================
