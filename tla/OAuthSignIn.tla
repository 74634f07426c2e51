---------------------------- MODULE OAuthSignIn ----------------------------
(***************************************************************************)
(* Sign-in with Google: oauth_start, oauth_callback, oauth_callback_denied *)
(* and oauth_exchange of service/oauth_service.py with oauth_support.py,   *)
(* auth/oauth.py and the OAuth keys of repository/redis_store_auth.py, in  *)
(* both auth modes.                                                        *)
(*                                                                         *)
(* A Redis command, a statement and a COMMIT are one step each, and so is  *)
(* a call to Google; everything between two of them interleaves with the   *)
(* other requests. A start stands for its state, its code_verifier and its *)
(* nonce, which are drawn together and stored under one key. Google        *)
(* accounts keep their address (EmailOf). The rate limit comes before      *)
(* everything else and only adds refusals; RequestPipeline models it.      *)
(***************************************************************************)
EXTENDS Naturals, FiniteSets

CONSTANTS Start, Browser, Req, Handoff, User, Sub, Email,
          EmailOf,                          \* the address of a Google account
          NoStart, NoUser, NoSub, NoEmail, NoBrowser

ASSUME EmailOfAssumption == EmailOf \in [Sub -> Email]
ASSUME NoneAssumption ==
  /\ NoStart \notin Start /\ NoUser \notin User /\ NoSub \notin Sub
  /\ NoEmail \notin Email /\ NoBrowser \notin Browser

VARIABLES
  mode,      \* AUTH_MODE
  stateKey,  \* oauth_state:{state}: "absent", "live" or "gone"
  cookie,    \* cerberus_oauth_state in each browser
  codes,     \* authorization codes Google has issued: who consented to which start
  handoff,   \* oauth_handoff:{code}: its status and what it was made for
  req,       \* the callback and exchange requests in flight
  email,     \* users.email; NoEmail: no such row
  active,    \* users.is_active
  verified,  \* users.email_verified_at IS NOT NULL
  password,  \* users with a password_hash
  link,      \* oauth_accounts: (provider, provider_user_id) -> user_id
  creds,     \* sessions or refresh tokens stored by an OAuth login
  recorded,  \* login_history rows with login_method = 'oauth_google'
  abandoned  \* credentials nobody will roll back: rollback_login failed, the reply
             \* of the store was lost, or the process died before the history row

tables == <<email, active, verified, password, link>>
logins == <<creds, recorded, abandoned>>
vars == <<mode, stateKey, cookie, codes, handoff, req, tables, logins>>
-----------------------------------------------------------------------------
PC == {"idle", "exchange_code", "verify_id_token", "userinfo", "account",
       "by_email", "link", "create", "read_back", "login", "record", "undo",
       "ex_user", "ex_login"}
Job == [pc : PC, st : Start \cup {NoStart}, sub : Sub \cup {NoSub},
        granted : Start \cup {NoStart}, user : User \cup {NoUser},
        b : Browser \cup {NoBrowser}]
Idle == [pc |-> "idle", st |-> NoStart, sub |-> NoSub, granted |-> NoStart,
         user |-> NoUser, b |-> NoBrowser]
Cred == [st : Start, sub : Sub, user : User]
Given == [status : {"live", "gone"}, st : Start, sub : Sub, user : User]
NoHandoff == [status |-> "absent"]

TypeOK ==
  /\ mode \in {"session", "jwt"}
  /\ stateKey \in [Start -> {"absent", "live", "gone"}]
  /\ cookie \in [Browser -> Start \cup {NoStart}]
  /\ codes \subseteq [st : Start, sub : Sub]
  /\ handoff \in [Handoff -> Given \cup {NoHandoff}]
  /\ req \in [Req -> Job]
  /\ email \in [User -> Email \cup {NoEmail}]
  /\ active \subseteq User /\ verified \subseteq User /\ password \subseteq User
  /\ link \in [Sub -> User \cup {NoUser}]
  /\ creds \subseteq Cred /\ recorded \subseteq Cred /\ abandoned \subseteq Cred

Init ==
  /\ mode \in {"session", "jwt"}
  /\ stateKey = [s \in Start |-> "absent"]
  /\ cookie = [b \in Browser |-> NoStart]
  /\ codes = {}
  /\ handoff = [h \in Handoff |-> NoHandoff]
  /\ req = [r \in Req |-> Idle]
  /\ email = [u \in User |-> NoEmail]
  /\ active = {} /\ verified = {} /\ password = {}
  /\ link = [g \in Sub |-> NoUser]
  /\ creds = {} /\ recorded = {} /\ abandoned = {}
-----------------------------------------------------------------------------
(* Answers. A redirect carries the Set-Cookie headers of the service, so   *)
(* the state cookie is deleted; 429 and 503 are raised past the router and *)
(* their response has no cookies.                                          *)
ClearCookie(b) == cookie' = [cookie EXCEPT ![b] = NoStart]
AtPC(r, label) == req[r].pc = label
Goto(r, label) == req' = [req EXCEPT ![r].pc = label]
Return(r)      == req' = [req EXCEPT ![r] = Idle]

\* _redirect_with_cookies
Redirect(r) == Return(r) /\ ClearCookie(req[r].b)
\* ServiceUnavailableError
Unavailable(r)   == Return(r) /\ UNCHANGED cookie
\* raise_database_error: a lost connection is 503, any other error a redirect
DatabaseError(r) == Redirect(r) \/ Unavailable(r)
-----------------------------------------------------------------------------
\* save_oauth_state
SaveState(s) ==
  /\ stateKey[s] = "absent"
  /\ stateKey' = [stateKey EXCEPT ![s] = "live"]

\* Mutant: GET in place of GETDEL
TakeStateKept(s) == stateKey[s] = "live" /\ UNCHANGED stateKey

\* GETDEL: what consume_oauth_state returns it also removes
TakeState(s) ==
  /\ stateKey[s] = "live"
  /\ stateKey' = [stateKey EXCEPT ![s] = "gone"]

SetCookie(b, s) == cookie' = [cookie EXCEPT ![b] = s]

\* oauth_start: the cookie of an earlier start of this browser is replaced;
\* the answer may not arrive
OAuthStart(b, s) ==
  /\ SaveState(s)
  /\ SetCookie(b, s) \/ UNCHANGED cookie
  /\ UNCHANGED <<mode, codes, handoff, req, tables, logins>>

\* The user consents at Google to the request that carries this state
Consent(s, g) ==
  /\ stateKey[s] # "absent"
  /\ codes' = codes \cup {[st |-> s, sub |-> g]}
  /\ UNCHANGED <<mode, stateKey, cookie, handoff, req, tables, logins>>

\* The state is missing, differs from the cookie or is no longer stored
CallbackInvalidState(b, s) ==
  /\ stateKey[s] # "absent"
  /\ cookie[b] # s \/ stateKey[s] # "live"
  /\ ClearCookie(b)
  /\ UNCHANGED <<mode, stateKey, codes, handoff, req, tables, logins>>

\* error=access_denied with the right state, or no code at all
CallbackWithoutCode(b) ==
  /\ cookie[b] \in Start
  /\ TakeState(cookie[b])
  /\ ClearCookie(b)
  /\ UNCHANGED <<mode, codes, handoff, req, tables, logins>>

\* _oauth_callback_impl up to consume_oauth_state; the code in the query is
\* any that Google has issued
CallbackConsume(r, b, c) ==
  /\ AtPC(r, "idle")
  /\ cookie[b] \in Start
  /\ TakeState(cookie[b])
  /\ req' = [req EXCEPT ![r] = [pc |-> "exchange_code", st |-> cookie[b],
               sub |-> c.sub, granted |-> c.st, user |-> NoUser, b |-> b]]
  /\ UNCHANGED <<mode, cookie, codes, handoff, tables, logins>>

\* The deletion reached Redis and its reply did not come back
CallbackStateLost(b) ==
  /\ cookie[b] \in Start
  /\ TakeState(cookie[b])
  /\ UNCHANGED <<mode, cookie, codes, handoff, req, tables, logins>>

ExchangeCode(r) ==
  /\ AtPC(r, "exchange_code")
  /\ Goto(r, "verify_id_token")
  /\ UNCHANGED <<mode, stateKey, cookie, codes, handoff, tables, logins>>

\* Mutant: the nonce is not compared
NonceIgnored(j) == j.granted \in Start

\* The ID token carries the nonce of the start its code was issued for
NonceMatches(j) == j.granted = j.st

VerifyIdToken(r) ==
  /\ AtPC(r, "verify_id_token")
  /\ NonceMatches(req[r])
  /\ Goto(r, "userinfo")
  /\ UNCHANGED <<mode, stateKey, cookie, codes, handoff, tables, logins>>

\* fetch_userinfo; its sub has to be the one of the ID token
FetchUserinfo(r) ==
  /\ AtPC(r, "userinfo")
  /\ Goto(r, "account")
  /\ UNCHANGED <<mode, stateKey, cookie, codes, handoff, tables, logins>>

\* OAuthFailedError: an error status, a bad body, no key for the signature
ProviderFails(r) ==
  /\ req[r].pc \in {"exchange_code", "verify_id_token", "userinfo"}
  /\ Redirect(r)
  /\ UNCHANGED <<mode, stateKey, codes, handoff, tables, logins>>
-----------------------------------------------------------------------------
(* _resolve_or_create_user                                                 *)
UserWith(e) == {u \in User : email[u] = e}

\* The account is linked already, and its user may sign in
LookupAccount(r) ==
  /\ AtPC(r, "account")
  /\ LET u == link[req[r].sub] IN
       \/ u = NoUser /\ Goto(r, "by_email") /\ UNCHANGED cookie
       \/ /\ u \in active
          /\ req' = [req EXCEPT ![r].pc = "login", ![r].user = u]
          /\ UNCHANGED cookie
       \/ u \in User \ active /\ Redirect(r)
  /\ UNCHANGED <<mode, stateKey, codes, handoff, tables, logins>>

LookupEmail(r) ==
  /\ AtPC(r, "by_email")
  /\ \/ \E u \in UserWith(EmailOf[req[r].sub]) \cap active :
          req' = [req EXCEPT ![r].pc = "link", ![r].user = u]
     \/ UserWith(EmailOf[req[r].sub]) = {} /\ Goto(r, "create")
  /\ UNCHANGED <<mode, stateKey, cookie, codes, handoff, tables, logins>>

\* The address is not verified at Google, or its user is inactive
LookupEmailRefused(r) ==
  /\ AtPC(r, "by_email")
  /\ Redirect(r)
  /\ UNCHANGED <<mode, stateKey, codes, handoff, tables, logins>>

\* INSERT ... ON CONFLICT (provider, provider_user_id) DO NOTHING
Upsert(g, u) ==
  link' = IF link[g] = NoUser THEN [link EXCEPT ![g] = u] ELSE link

LinkRow(r) ==
  /\ Upsert(req[r].sub, req[r].user)
  /\ verified' = verified \cup {req[r].user}
  /\ UNCHANGED <<email, active, password>>

\* upsert, mark_email_verified and COMMIT for the user found by address
LinkExisting(r) ==
  /\ AtPC(r, "link")
  /\ LinkRow(r)
  /\ Goto(r, "login")
  /\ UNCHANGED <<mode, stateKey, cookie, codes, handoff, logins>>

\* Mutant: the COMMIT comes before the upsert
CreateRowUnlinked(r, u) ==
  /\ email[u] = NoEmail /\ UserWith(EmailOf[req[r].sub]) = {}
  /\ email' = [email EXCEPT ![u] = EmailOf[req[r].sub]]
  /\ active' = active \cup {u}
  /\ UNCHANGED <<verified, password, link>>

CreateRow(r, u) ==
  /\ email[u] = NoEmail
  /\ UserWith(EmailOf[req[r].sub]) = {}
  /\ email' = [email EXCEPT ![u] = EmailOf[req[r].sub]]
  /\ Upsert(req[r].sub, u)
  /\ verified' = verified \cup {u}
  /\ active' = active \cup {u}
  /\ UNCHANGED password

\* create, upsert, mark_email_verified, update_profile and COMMIT
CreateUser(r, u) ==
  /\ AtPC(r, "create")
  /\ CreateRow(r, u)
  /\ req' = [req EXCEPT ![r].pc = "read_back", ![r].user = u]
  /\ UNCHANGED <<mode, stateKey, cookie, codes, handoff, logins>>

\* The committed row is read again; an administrator may have been faster
ReadBack(r) ==
  /\ AtPC(r, "read_back")
  /\ \/ req[r].user \in active /\ Goto(r, "login") /\ UNCHANGED cookie
     \/ req[r].user \notin active /\ Redirect(r)
  /\ UNCHANGED <<mode, stateKey, codes, handoff, tables, logins>>

\* A read fails, or a unique constraint or the connection refuses the
\* transaction: nothing of it stays
ResolveFails(r) ==
  /\ req[r].pc \in {"account", "by_email", "link", "create", "read_back"}
  /\ DatabaseError(r)
  /\ UNCHANGED <<mode, stateKey, codes, handoff, tables, logins>>

\* The COMMIT took effect and the connection was lost before its reply
ResolveUnanswered(r) ==
  /\ \/ AtPC(r, "link") /\ LinkRow(r)
     \/ AtPC(r, "create") /\ \E u \in User : CreateRow(r, u)
  /\ DatabaseError(r)
  /\ UNCHANGED <<mode, stateKey, codes, handoff, logins>>
-----------------------------------------------------------------------------
(* The end of the callback and the exchange                                *)
CredOf(j) == [st |-> j.st, sub |-> j.sub, user |-> j.user]

\* strategy.login stores the session or the refresh token
AtStore(r) == (AtPC(r, "login") /\ mode = "session") \/ AtPC(r, "ex_login")

StoreCredential(r) ==
  /\ AtStore(r)
  /\ creds' = creds \cup {CredOf(req[r])}
  /\ Goto(r, "record")
  /\ UNCHANGED <<mode, stateKey, cookie, codes, handoff, tables, recorded, abandoned>>

\* save_oauth_handoff
PutHandoff(h, j) ==
  /\ handoff[h] = NoHandoff
  /\ handoff' = [handoff EXCEPT ![h] = [status |-> "live", st |-> j.st,
                   sub |-> j.sub, user |-> j.user]]

\* The redirect gives the hand-off code to the browser
HandOff(r, h) ==
  /\ AtPC(r, "login") /\ mode = "jwt"
  /\ PutHandoff(h, req[r])
  /\ Redirect(r)
  /\ UNCHANGED <<mode, stateKey, codes, tables, logins>>

\* EXEC took effect and its reply was lost: strategy.login raises outside the
\* try that rolls back
StoreUnanswered(r) ==
  /\ AtStore(r)
  /\ creds' = creds \cup {CredOf(req[r])}
  /\ abandoned' = abandoned \cup {CredOf(req[r])}
  /\ Unavailable(r)
  /\ UNCHANGED <<mode, stateKey, codes, handoff, tables, recorded>>

\* Redis does not answer and nothing was stored, or a hand-off code was that
\* nobody is given
StoreFails(r) ==
  /\ req[r].pc \in {"login", "ex_login"}
  /\ Unavailable(r)
  /\ UNCHANGED <<mode, stateKey, codes, handoff, tables, logins>>

\* GETDEL of the hand-off
TakeHandoff(h) ==
  /\ handoff[h] # NoHandoff
  /\ handoff[h].status = "live"
  /\ handoff' = [handoff EXCEPT ![h].status = "gone"]

\* oauth_exchange up to consume_oauth_handoff
ExchangeConsume(r, h) ==
  /\ AtPC(r, "idle")
  /\ TakeHandoff(h)
  /\ req' = [req EXCEPT ![r] = [pc |-> "ex_user", st |-> handoff[h].st,
               sub |-> handoff[h].sub, granted |-> handoff[h].st,
               user |-> handoff[h].user, b |-> NoBrowser]]
  /\ UNCHANGED <<mode, stateKey, cookie, codes, tables, logins>>

\* The user is read again: the hand-off may be older than a deactivation
ExchangeUser(r) ==
  /\ AtPC(r, "ex_user")
  /\ IF req[r].user \in active THEN Goto(r, "ex_login") ELSE Return(r)
  /\ UNCHANGED <<mode, stateKey, cookie, codes, handoff, tables, logins>>

\* record_oauth_login
RecordLogin(r) ==
  /\ AtPC(r, "record")
  /\ recorded' = recorded \cup {CredOf(req[r])}
  /\ IF mode = "session" THEN Redirect(r) ELSE Return(r) /\ UNCHANGED cookie
  /\ UNCHANGED <<mode, stateKey, codes, handoff, tables, creds, abandoned>>

\* The history row cannot be written (its COMMIT may have taken effect), or
\* the login result of the exchange is not valid
RecordFails(r) ==
  /\ AtPC(r, "record")
  /\ recorded' \in {recorded, recorded \cup {CredOf(req[r])}}
  /\ Goto(r, "undo")
  /\ UNCHANGED <<mode, stateKey, cookie, codes, handoff, tables, creds, abandoned>>

\* Mutant: only the cookies of the response are cleared
RollbackForgotten(j) == UNCHANGED <<creds, abandoned>>

\* rollback_login of the strategy deletes what login stored, or fails and is
\* logged
RollbackLogin(j) ==
  \/ creds' = creds \ {CredOf(j)} /\ UNCHANGED abandoned
  \/ abandoned' = abandoned \cup {CredOf(j)} /\ UNCHANGED creds

\* Either way the answer is an error
Undo(r) ==
  /\ AtPC(r, "undo")
  /\ RollbackLogin(req[r])
  /\ Unavailable(r)
  /\ UNCHANGED <<mode, stateKey, codes, handoff, tables, recorded>>

\* The process dies: what the request has stored and not recorded stays
RequestDies(r) ==
  /\ ~AtPC(r, "idle")
  /\ abandoned' = IF req[r].pc \in {"record", "undo"}
                  THEN abandoned \cup {CredOf(req[r])} ELSE abandoned
  /\ Unavailable(r)
  /\ UNCHANGED <<mode, stateKey, codes, handoff, tables, creds, recorded>>
-----------------------------------------------------------------------------
(* The rest of the system                                                  *)
StateExpires(s) ==
  /\ stateKey[s] = "live"
  /\ stateKey' = [stateKey EXCEPT ![s] = "gone"]
  /\ UNCHANGED <<mode, cookie, codes, handoff, req, tables, logins>>

HandoffExpires(h) ==
  /\ TakeHandoff(h)
  /\ UNCHANGED <<mode, stateKey, cookie, codes, req, tables, logins>>

\* POST /auth/register, committed
Register(u, e) ==
  /\ email[u] = NoEmail /\ UserWith(e) = {}
  /\ email' = [email EXCEPT ![u] = e]
  /\ active' = active \cup {u}
  /\ password' = password \cup {u}
  /\ UNCHANGED <<mode, stateKey, cookie, codes, handoff, req, verified, link, logins>>

\* PATCH /admin/users/{id}/status, which also deletes what the user holds
Deactivate(u) ==
  /\ u \in active
  /\ active' = active \ {u}
  /\ creds' = {c \in creds : c.user # u}
  /\ UNCHANGED <<mode, stateKey, cookie, codes, handoff, req, email, verified,
                 password, link, recorded, abandoned>>

RequestStep(r) ==
  \/ ExchangeCode(r) \/ VerifyIdToken(r) \/ FetchUserinfo(r) \/ ProviderFails(r)
  \/ LookupAccount(r) \/ LookupEmail(r) \/ LookupEmailRefused(r)
  \/ LinkExisting(r) \/ (\E u \in User : CreateUser(r, u))
  \/ ReadBack(r) \/ ResolveFails(r) \/ ResolveUnanswered(r)
  \/ StoreCredential(r) \/ (\E h \in Handoff : HandOff(r, h))
  \/ StoreUnanswered(r) \/ StoreFails(r) \/ RequestDies(r)
  \/ ExchangeUser(r) \/ RecordLogin(r) \/ RecordFails(r) \/ Undo(r)

Next ==
  \/ \E b \in Browser, s \in Start : OAuthStart(b, s) \/ CallbackInvalidState(b, s)
  \/ \E s \in Start, g \in Sub : Consent(s, g)
  \/ \E b \in Browser : CallbackWithoutCode(b) \/ CallbackStateLost(b)
  \/ \E r \in Req, b \in Browser, c \in codes : CallbackConsume(r, b, c)
  \/ \E r \in Req, h \in Handoff : ExchangeConsume(r, h)
  \/ \E r \in Req : RequestStep(r)
  \/ \E s \in Start : StateExpires(s)
  \/ \E h \in Handoff : HandoffExpires(h)
  \/ \E u \in User, e \in Email : Register(u, e)
  \/ \E u \in User : Deactivate(u)

Spec == Init /\ [][Next]_vars
-----------------------------------------------------------------------------
\* A request that works for a start and has stored nothing yet
Working == {"exchange_code", "verify_id_token", "userinfo", "account", "by_email",
            "link", "create", "read_back", "login"}
Exchanging == {"ex_user", "ex_login"}

\* Everything that could still become, or is, a credential of this start
Holders(s) ==
  {<<"open", t>> : t \in {t \in Start : t = s /\ stateKey[t] = "live"}}
    \cup {<<"working", r>> : r \in {r \in Req : req[r].st = s /\ req[r].pc \in Working}}
    \cup {<<"exchanging", r>> : r \in {r \in Req : req[r].st = s /\ req[r].pc \in Exchanging}}
    \cup {<<"handed", h>> : h \in {h \in Handoff : /\ handoff[h] # NoHandoff
                                                 /\ handoff[h].status = "live"
                                                 /\ handoff[h].st = s}}
    \cup {<<"granted", c>> : c \in {c \in creds : c.st = s}}

PhaseOf(s) ==
  IF stateKey[s] = "absent" THEN "unused"
  ELSE IF Holders(s) = {} THEN "over"
  ELSE IF Cardinality(Holders(s)) > 1 THEN "broken"
  ELSE (CHOOSE x \in Holders(s) : TRUE)[1]

Flow == INSTANCE SignInFlow WITH phase <- [s \in Start |-> PhaseOf(s)]

\* Whatever the order in which two tabs, a repeated callback, a repeated
\* exchange and the expiry of the keys interleave, one press of the button is
\* answered once: its state becomes at most one hand-off and that at most one
\* credential (GETDEL of consume_oauth_state and consume_oauth_handoff).
ImplementsFlow == Flow!Spec

\* A credential belongs to the user that is linked to the Google account
\* which consented to this very start: neither a code that was issued for
\* another start nor a second sign-in that creates or links the user at the
\* same time changes whose session it is.
SignedInAsConsented ==
  \A c \in creds : /\ [st |-> c.st, sub |-> c.sub] \in codes
                    /\ link[c.sub] = c.user

\* A user without a password has a linked Google account and a verified
\* address, whichever of create, upsert, mark_email_verified and COMMIT
\* failed: otherwise nobody could ever sign in to the row.
PasswordlessCanSignIn ==
  \A u \in User : (email[u] # NoEmail /\ u \notin password)
     => u \in verified /\ \E g \in Sub : link[g] = u

\* A sign-in that no login_history row shows does not stay: the request that
\* stored it is still there to record it or to roll it back.  The exceptions
\* are the three ways the code has of leaving one behind: its rollback failed
\* and was logged, the reply of the store itself was lost, or the process died.
UnrecordedIsRolledBack ==
  \A c \in creds \ recorded :
     \/ c \in abandoned
     \/ \E r \in Req : req[r].pc \in {"record", "undo"} /\ CredOf(req[r]) = c
=============================================================================
