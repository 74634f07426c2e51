--------------------------- MODULE RequestPipeline ---------------------------
(***************************************************************************)
(* A request on its way through the API: the dependencies of core/deps.py  *)
(* (authentication, origin, CSRF, rate limit), a service call, the error   *)
(* handlers of core/exceptions.py and the history row of                   *)
(* core/history_middleware.py, for the endpoints of in-app notifications   *)
(* and, as "public", for an endpoint that is only limited by address.      *)
(*                                                                         *)
(* A Redis command, a statement and a COMMIT are one step each, and each   *)
(* may fail. Headers are read in one step and are chosen there. An UPDATE  *)
(* waits for the rows that another transaction has changed. Notification   *)
(* texts, tasks and the pages of the list are left out.                    *)
(***************************************************************************)
EXTENDS Naturals, FiniteSets, Sequences

CONSTANTS User, Note, Req, NoReq, NoUser, NoNote,
          OwnerOf,   \* notifications.user_id
          Addr, Junk,        \* addresses; an entry that is none
          Trusted, Client,   \* TRUSTED_PROXY_CIDRS; where requests come from
          MaxRequests   \* rate_limit_notification_*_max_requests

ASSUME TrustedAssumption == Trusted \subseteq Addr /\ Client \subseteq Addr \ Trusted /\ Junk \notin Addr
ASSUME MaxAssumption == MaxRequests \in Nat \ {0}
ASSUME NoneAssumption == NoReq \notin Req /\ NoUser \notin User /\ NoNote \notin Note
ASSUME NoteAssumption == IsFiniteSet(Note)

VARIABLES
  mode,      \* AUTH_MODE
  session,   \* users whose session, or token, is still good
  active,    \* users.is_active
  sent,      \* notifications rows
  readBy,    \* the request that set read_at
  pending,   \* rows an open transaction has changed
  count,     \* rate_limit:{scope}:{hash} keys
  timed,     \* the ones with an expiry
  history,   \* api_history rows
  req,       \* requests; each is made once
  admitted   \* ghost: how many were let through in the current window, by who answers

stores == <<session, active, sent, readBy, pending>>
limits == <<count, timed, admitted>>
vars == <<mode, stores, limits, history, req>>
-----------------------------------------------------------------------------
Reads  == {"list"}                 \* and the unread count
Writes == {"read", "read_all"}
Scope  == {"notification_read", "notification_write", "public"}
ScopeOf(op) == IF op \in Reads THEN "notification_read"
               ELSE IF op \in Writes THEN "notification_write" ELSE "public"
Key == Scope \X (User \cup {NoUser}) \X Addr

\* enforce_rate_limit of a public endpoint: by address
AddressKey(op, a) == <<ScopeOf(op), NoUser, a>>
\* _enforce_rate_limit: by user and address
UserKey(op, u, a) == <<ScopeOf(op), u, a>>
KeyOf(op, u, a) == IF op = "public" THEN AddressKey(op, a) ELSE UserKey(op, u, a)

\* No handler below the middleware takes the exception
NoResponse == 0

\* code: what the service or an error handler answers
New == [pc |-> "new", op |-> "public", sender |-> NoUser, user |-> NoUser,
        note |-> NoNote, key |-> <<>>, code |-> NoResponse,
        before |-> {}, unread |-> 0, answer |-> 0]
NoHistory == [code |-> 0, status |-> "none", user |-> NoUser]

Label == {"new", "auth", "csrf", "limit", "expire", "over", "serve", "count", "commit",
          "history", "done"}
Job == [pc : Label, op : Reads \cup Writes \cup {"public"}, sender : User \cup {NoUser},
        user : User \cup {NoUser}, note : Note \cup {NoNote}, key : Key \cup {<<>>},
        code : Nat, before : SUBSET Note, unread : Nat, answer : Nat]

TypeOK ==
  /\ mode \in {"session", "jwt"}
  /\ session \subseteq User /\ active \subseteq User /\ sent \subseteq Note
  /\ readBy \in [Note -> Req \cup {NoReq}]
  /\ pending \in [Req -> SUBSET Note]
  /\ count \in [Key -> Nat] /\ timed \subseteq Key /\ admitted \in [Key -> Nat]
  /\ history \in [Req -> [code : Nat, status : {"none", "error", "success"}, user : User \cup {NoUser}]]
  /\ req \in [Req -> Job]

Init ==
  /\ mode \in {"session", "jwt"}
  /\ session = User /\ active = User /\ sent = {}
  /\ readBy = [n \in Note |-> NoReq]
  /\ pending = [r \in Req |-> {}]
  /\ count = [k \in Key |-> 0] /\ timed = {}
  /\ history = [r \in Req |-> NoHistory]
  /\ req = [r \in Req |-> New]
  /\ admitted = [k \in Key |-> 0]
-----------------------------------------------------------------------------
(* Errors and their answers                                                *)
\* The subclasses of AppError, by the status they have or inherit
AppStatus ==
  [InvalidState |-> 400, OAuthFailed |-> 400, OAuthEmailUnverified |-> 400,
   OAuthHandoffInvalid |-> 400, InvalidVerifyToken |-> 400, InvalidResetToken |-> 400,
   Unauthenticated |-> 401, SessionExpired |-> 401, TokenInvalid |-> 401,
   TokenExpired |-> 401, TokenRevoked |-> 401, InvalidCredentials |-> 401,
   Forbidden |-> 403, CsrfInvalid |-> 403, UserInactive |-> 403, EmailNotVerified |-> 403,
   NotFound |-> 404, OAuthDisabled |-> 404, NotSupportedInMode |-> 405,
   TaskConflict |-> 409, AssigneeInactive |-> 409, DuplicateUsername |-> 409,
   DuplicateEmail |-> 409, AlreadyMember |-> 409, OwnerCannotBeRemoved |-> 409,
   SelfModification |-> 409, LastAdminRequired |-> 409,
   Validation |-> 422, TooManyAttempts |-> 429, AppError |-> 500, ServiceUnavailable |-> 503]

\* is_service_unavailable_database_error
ConnectionErrors == {"InterfaceError", "OperationalError 08", "TimeoutError", "DisconnectionError"}
DatabaseErrors == ConnectionErrors \cup {"OperationalError other", "DBAPIError"}

\* infra_error_handler, and raise_database_error before it: 503 for a lost
\* connection, 500 for the other errors of the database
InfraStatus(e) == IF e \in DatabaseErrors \ ConnectionErrors THEN 500 ELSE 503

Respond(r, status) ==
  req' = [req EXCEPT ![r].pc = "history", ![r].code = status, ![r].key = <<>>]

\* Mutant: an exception that no handler took counts as answered
HistoryCodeRaised(code) == IF code = NoResponse THEN 200 ELSE code

\* response is None in the middleware
HistoryCode(code) == IF code = NoResponse THEN 500 ELSE code
-----------------------------------------------------------------------------
(* resolve_client_ip                                                       *)
Entries(fwd) == {fwd[i] : i \in DOMAIN fwd}

\* Mutant: the list is searched from its left end
ResolvedFromLeft(peer, fwd) ==
  LET far == {i \in DOMAIN fwd : fwd[i] \notin Trusted} IN
  IF peer \notin Trusted \/ Junk \in Entries(fwd) \/ far = {} THEN peer
  ELSE fwd[CHOOSE i \in far : \A j \in far : i <= j]

\* The last address that is not a trusted proxy; the peer if it is no proxy
\* itself, if some entry is no address, or if there is none
Resolved(peer, fwd) ==
  LET far == {i \in DOMAIN fwd : fwd[i] \notin Trusted} IN
  IF peer \notin Trusted \/ Junk \in Entries(fwd) \/ far = {} THEN peer
  ELSE fwd[CHOOSE i \in far : \A j \in far : i >= j]
-----------------------------------------------------------------------------
(* The way in                                                              *)
AtPC(r, label) == req[r].pc = label
Goto(r, label) == req' = [req EXCEPT ![r].pc = label]

Receive(r, op, u, n) ==
  /\ AtPC(r, "new")
  /\ req' = [req EXCEPT ![r] = [New EXCEPT !.op = op, !.sender = u, !.note = n,
               !.pc = IF op = "public" THEN "limit" ELSE "auth", !.before = IF op = "read_all" THEN sent ELSE {}]]
  /\ UNCHANGED <<mode, stores, limits, history>>

\* get_current_user
Authenticate(r) ==
  LET u == req[r].sender IN
  /\ AtPC(r, "auth")
  /\ IF u \notin session THEN Respond(r, AppStatus.SessionExpired)
     ELSE IF u \notin active THEN Respond(r, AppStatus.UserInactive)
     ELSE req' = [req EXCEPT ![r].user = u,
                    ![r].pc = IF req[r].op \in Writes /\ mode = "session" THEN "csrf" ELSE "limit"]
  /\ UNCHANGED <<mode, stores, limits, history>>

\* verify_origin: no Origin header, then over https the one of the Referer
OriginOk(origin, referer) ==
  IF origin = "none" THEN referer = "allowed" ELSE origin = "allowed"

\* verify_csrf: the token in Redis goes with the session
CsrfOk(header, u) == header = "matching" /\ u \in session

Verify(r, origin, referer, header) ==
  /\ AtPC(r, "csrf")
  /\ IF OriginOk(origin, referer) /\ CsrfOk(header, req[r].user)
     THEN Goto(r, "limit") ELSE Respond(r, AppStatus.CsrfInvalid)
  /\ UNCHANGED <<mode, stores, limits, history>>
-----------------------------------------------------------------------------
(* _enforce_rate_limit_by_key and check_rate_limit                         *)
\* also in check_oauth_rate_limit, which counts and refuses the same way
Admits(hits) == hits <= MaxRequests

\* The client's request comes from him or through the proxies, each of which
\* appends its own peer; he may have sent a header himself.
Peer(client, via) == IF via = <<>> THEN client ELSE via[Len(via)]
Forwarded(client, sentHeader, via) ==
  IF via = <<>> THEN sentHeader ELSE sentHeader \o <<client>> \o SubSeq(via, 1, Len(via) - 1)

Counter(r, client, sentHeader, via) ==
  KeyOf(req[r].op, req[r].user, Resolved(Peer(client, via), Forwarded(client, sentHeader, via)))

\* Who has to answer for the request: the client, whatever addresses he names;
\* the peer, for all of its clients, if he sends an entry that is none
Answerable(client, sentHeader, via) ==
  IF Junk \in Entries(sentHeader) THEN Peer(client, via) ELSE client

Incr(r, client, sentHeader, via) ==
  LET key  == Counter(r, client, sentHeader, via)
      owes == KeyOf(req[r].op, req[r].user, Answerable(client, sentHeader, via)) IN
  /\ AtPC(r, "limit")
  /\ count' = [count EXCEPT ![key] = @ + 1]
  /\ req' = [req EXCEPT ![r].key = IF count[key] = 0 THEN key ELSE <<>>,
               ![r].pc = IF count[key] = 0 THEN "expire"
                         ELSE IF Admits(count[key] + 1) THEN "serve" ELSE "over"]
  /\ admitted' = IF Admits(count[key] + 1) THEN [admitted EXCEPT ![owes] = @ + 1] ELSE admitted
  /\ UNCHANGED <<mode, stores, timed, history>>

\* The reply is lost: counted, without a window, and refused with 503
IncrUnanswered(r, client, sentHeader, via) ==
  /\ AtPC(r, "limit")
  /\ count' = [count EXCEPT ![Counter(r, client, sentHeader, via)] = @ + 1]
  /\ Respond(r, AppStatus.ServiceUnavailable)
  /\ UNCHANGED <<mode, stores, timed, admitted, history>>

\* count == 1: the window begins
Expire(r) ==
  /\ AtPC(r, "expire")
  /\ timed' = timed \cup {req[r].key}
  /\ req' = [req EXCEPT ![r].pc = "serve", ![r].key = <<>>]
  /\ UNCHANGED <<mode, stores, count, admitted, history>>

\* get_rate_limit_ttl for the Retry-After header
Refuse(r) ==
  /\ AtPC(r, "over")
  /\ Respond(r, AppStatus.TooManyAttempts)
  /\ UNCHANGED <<mode, stores, limits, history>>

\* The command was not done, or EXPIRE was: 503 in either case
RedisFails(r) ==
  /\ \/ req[r].pc \in {"auth", "csrf", "limit", "over"} /\ UNCHANGED timed
     \/ AtPC(r, "expire") /\ timed' \in {timed, timed \cup {req[r].key}}
  /\ Respond(r, AppStatus.ServiceUnavailable)
  /\ UNCHANGED <<mode, stores, count, admitted, history>>
-----------------------------------------------------------------------------
(* notification_service                                                    *)
Unread(u) == {n \in sent : OwnerOf[n] = u /\ readBy[n] = NoReq}
Locked == UNION {pending[r] : r \in Req}

\* Statements that only read, and the public endpoint's service, which may
\* raise any of the errors
Serve(r) ==
  /\ AtPC(r, "serve") /\ req[r].op \notin Writes
  /\ \/ Respond(r, 200)
     \/ req[r].op = "public" /\ \E e \in DOMAIN AppStatus : Respond(r, AppStatus[e])
  /\ UNCHANGED <<mode, stores, limits, history>>

\* Mutant: the row is looked for by its id alone
OwnRowById(r) == sent \cap {req[r].note}

\* sp_mark_notification_read: WHERE id = ... AND user_id = ... FOR UPDATE
OwnRow(r) == {n \in sent \cap {req[r].note} : OwnerOf[n] = req[r].user}

MarkRead(r) ==
  /\ AtPC(r, "serve") /\ req[r].op = "read"
  /\ OwnRow(r) \cap Locked = {}
  /\ IF OwnRow(r) = {}
     THEN Respond(r, AppStatus.NotFound) /\ UNCHANGED pending
     ELSE Goto(r, "count") /\ pending' = [pending EXCEPT ![r] = OwnRow(r)]
  /\ UNCHANGED <<mode, session, active, sent, readBy, limits, history>>

\* Mutant: SKIP LOCKED
OwnUnreadUnlocked(r) == Unread(req[r].user) \ Locked

\* WHERE user_id = ... AND read_at IS NULL
OwnUnread(r) == Unread(req[r].user)

\* sp_mark_all_notifications_read
MarkAllRead(r) ==
  /\ AtPC(r, "serve") /\ req[r].op = "read_all"
  /\ OwnUnread(r) \cap Locked = {}
  /\ pending' = [pending EXCEPT ![r] = OwnUnread(r)]
  /\ Goto(r, "count")
  /\ UNCHANGED <<mode, session, active, sent, readBy, limits, history>>

\* count_unread, in the same transaction
CountUnread(r) ==
  /\ AtPC(r, "count")
  /\ req' = [req EXCEPT ![r].pc = "commit",
               ![r].unread = Cardinality(Unread(req[r].user) \ pending[r])]
  /\ UNCHANGED <<mode, stores, limits, history>>

\* COALESCE(read_at, now())
Marked(r) == [n \in Note |-> IF n \in pending[r] /\ readBy[n] = NoReq THEN r ELSE readBy[n]]

EndTransaction(r, committed) ==
  /\ readBy' = IF committed THEN Marked(r) ELSE readBy
  /\ pending' = [pending EXCEPT ![r] = {}]

Commit(r) ==
  /\ AtPC(r, "commit")
  /\ EndTransaction(r, TRUE)
  /\ Respond(r, 200)
  /\ UNCHANGED <<mode, session, active, sent, limits, history>>

\* A statement or the COMMIT fails, or its answer is lost
DatabaseFails(r, e) ==
  /\ \/ req[r].pc \in {"auth", "serve", "count", "commit"} /\ EndTransaction(r, FALSE)
     \/ AtPC(r, "commit") /\ e \in ConnectionErrors /\ EndTransaction(r, TRUE)
  /\ Respond(r, InfraStatus(e))
  /\ UNCHANGED <<mode, session, active, sent, limits, history>>

\* Any other exception passes the middleware
Unhandled(r) ==
  /\ req[r].pc \in {"auth", "csrf", "serve", "count"}
  /\ EndTransaction(r, FALSE)
  /\ Respond(r, NoResponse)
  /\ UNCHANGED <<mode, session, active, sent, limits, history>>
-----------------------------------------------------------------------------
(* The way out: history_middleware and, above it, the server's own handler *)
\* request.state.current_user
HistoryUser(r) == req[r].user

Row(r) ==
  LET code == HistoryCode(req[r].code) IN
  [code |-> code, status |-> IF code >= 400 THEN "error" ELSE "success", user |-> HistoryUser(r)]

\* _save_history has a session of its own and only logs its failure; then the
\* response, or unhandled_exception_handler's
SaveHistory(r) ==
  /\ AtPC(r, "history")
  /\ history' \in {history, [history EXCEPT ![r] = Row(r)]}
  /\ req' = [req EXCEPT ![r].pc = "done", ![r].user = NoUser, ![r].code = NoResponse,
               ![r].answer = IF req[r].code = NoResponse THEN 500 ELSE req[r].code]
  /\ UNCHANGED <<mode, stores, limits>>
-----------------------------------------------------------------------------
(* What happens meanwhile                                                  *)
\* sp_create_task, sp_update_task or the job of DueNotification
Notify(n) ==
  /\ n \notin sent
  /\ sent' = sent \cup {n}
  /\ UNCHANGED <<mode, session, active, readBy, pending, limits, history, req>>

\* Logout, expiry, revocation; in the mode jwt only the expiry of the token
EndSession(u) ==
  /\ u \in session
  /\ session' = session \ {u}
  /\ UNCHANGED <<mode, active, sent, readBy, pending, limits, history, req>>

Deactivate(u) ==
  /\ u \in active
  /\ active' = active \ {u}
  /\ UNCHANGED <<mode, session, sent, readBy, pending, limits, history, req>>

WindowEnds(k) ==
  /\ k \in timed
  /\ count' = [count EXCEPT ![k] = 0] /\ timed' = timed \ {k}
  /\ admitted' = [admitted EXCEPT ![k] = 0]
  /\ UNCHANGED <<mode, stores, history, req>>

Headers == {<<>>} \cup {<<a>> : a \in Addr \cup {Junk}}
Routes  == {<<>>} \cup {<<a>> : a \in Trusted}

Enter(r) ==
  \/ Receive(r, "public", NoUser, NoNote)
  \/ \E op \in Reads \cup {"read_all"}, u \in User : Receive(r, op, u, NoNote)
  \/ \E u \in User, n \in Note : Receive(r, "read", u, n)

Step(r) ==
  \/ Authenticate(r)
  \/ \E o \in {"none", "allowed", "other"}, f \in {"none", "allowed"}, h \in {"none", "matching"} :
       Verify(r, o, f, h)
  \/ \E c \in Client, h \in Headers, via \in Routes : Incr(r, c, h, via) \/ IncrUnanswered(r, c, h, via)
  \/ Expire(r) \/ Refuse(r) \/ RedisFails(r)
  \/ Serve(r) \/ MarkRead(r) \/ MarkAllRead(r) \/ CountUnread(r) \/ Commit(r)
  \/ (\E e \in DatabaseErrors : DatabaseFails(r, e)) \/ Unhandled(r) \/ SaveHistory(r)

Next ==
  \/ \E r \in Req : Enter(r) \/ Step(r)
  \/ \E n \in Note : Notify(n)
  \/ \E u \in User : EndSession(u) \/ Deactivate(u)
  \/ \E k \in Key : WindowEnds(k)

Spec == Init /\ [][Next]_vars
-----------------------------------------------------------------------------
Done(r) == req[r].pc = "done"

\* A history row says what the client was answered, also when no handler took
\* the exception and the answer was made above the middleware, and names the
\* user exactly if authentication let him in (401, and 403 for an inactive
\* user, have none).
HistoryMatchesAnswer ==
  \A r \in Req : Done(r) /\ history[r] # NoHistory =>
     /\ history[r].code = req[r].answer
     /\ history[r].status = "success" <=> req[r].answer < 400
     /\ history[r].user \in {NoUser, req[r].sender}
     /\ req[r].answer = 200 => history[r].user = req[r].sender
     /\ req[r].answer = 401 => history[r].user = NoUser

\* The answer tells what happened: after a 4xx the request has read nothing,
\* after a 200 what it asked for is read, and whatever it read is its user's
\* own. Only a 5xx leaves open whether the COMMIT took place.
AnswerTellsEffect ==
  \A r \in Req : Done(r) =>
     /\ req[r].answer \in 400 .. 499 => \A n \in Note : readBy[n] # r
     /\ (req[r].answer = 200 /\ req[r].op = "read") => readBy[req[r].note] # NoReq
     /\ \A n \in Note : readBy[n] = r => OwnerOf[n] = req[r].sender

\* read-all leaves none of the notifications unread that were there when the
\* request came, whatever other requests were marking at the time, and the
\* count it answers is of later ones.
ReadAllCovers ==
  \A r \in Req : (Done(r) /\ req[r].op = "read_all" /\ req[r].answer = 200) =>
     LET own == {n \in req[r].before : OwnerOf[n] = req[r].sender} IN
     /\ \A n \in own : readBy[n] # NoReq
     /\ req[r].unread <= Cardinality({n \in sent \ req[r].before : OwnerOf[n] = req[r].sender})

\* In one window at most MaxRequests requests of a client get through that name
\* no, or only real, addresses in X-Forwarded-For, by whatever way they come and
\* whatever addresses those are; and at most MaxRequests, of all its clients
\* together, through one proxy with an entry that is no address. So a client
\* behind a proxy has two counters, his own and the proxy's, and no header opens
\* him a third.
AdmittedWithinLimit == \A k \in Key : admitted[k] <= MaxRequests
=============================================================================
