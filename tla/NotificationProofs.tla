------------------------- MODULE NotificationProofs -------------------------
(***************************************************************************)
(* Requests and the due-date job, which write and read the notifications.  *)
(***************************************************************************)
EXTENDS RequestPipeline, DueNotification, FiniteSetTheorems, SequenceTheorems, WellFoundedInduction, TLAPS

-----------------------------------------------------------------------------
(***************************************************************************)
(* RequestPipeline: the history row tells what was answered, the answer    *)
(* tells what was done, read-all covers what was there, and no counter of  *)
(* the rate limit lets more than its share through, for any number of      *)
(* requests, users and notifications.                                      *)
(***************************************************************************)

\* Authentication is behind the request.
Past == {"csrf", "limit", "expire", "over", "serve", "count", "commit"}
\* Its transaction is open.
Writing == {"count", "commit"}
\* It has been answered with 200, or with no 4xx.
Granted(j) == \/ j.pc = "history" /\ j.code = 200
              \/ j.pc = "done" /\ j.answer = 200
Settled(j) == \/ j.pc = "history" /\ j.code \notin 400 .. 499
              \/ j.pc = "done" /\ j.answer \notin 400 .. 499

\* request.state.current_user is the sender, from authentication on.
UserOK(r) ==
  /\ req[r].user \in {NoUser, req[r].sender}
  /\ req[r].op = "public" => req[r].sender = NoUser
  /\ req[r].pc = "auth" => req[r].user = NoUser
  /\ req[r].pc \in Past => req[r].user = req[r].sender
  /\ req[r].pc = "history" /\ req[r].code = 200 => req[r].user = req[r].sender
  /\ req[r].pc = "history" /\ req[r].code = 401 => req[r].user = NoUser
  /\ req[r].pc = "expire" => req[r].key \in Key

RowOK(r) ==
  history[r] # NoHistory =>
    /\ Done(r)
    /\ history[r].code = req[r].answer
    /\ history[r].status = "success" <=> req[r].answer < 400
    /\ history[r].user \in {NoUser, req[r].sender}
    /\ req[r].answer = 200 => history[r].user = req[r].sender
    /\ req[r].answer = 401 => history[r].user = NoUser

\* A request has changed rows, its sender's own, while its transaction is open;
\* its mark is on a row only if it was not refused.
EffectOK(r) ==
  /\ req[r].op = "read" => req[r].note \in Note
  /\ \A n \in Note : readBy[n] = r => Settled(req[r]) /\ OwnerOf[n] = req[r].sender
  /\ pending[r] # {} => req[r].pc \in Writing
  /\ \A n \in pending[r] : OwnerOf[n] = req[r].sender
  /\ req[r].op = "read" /\ req[r].pc \in Writing => req[r].note \in pending[r]
  /\ req[r].op = "read" /\ Granted(req[r]) => readBy[req[r].note] # NoReq

Later(r) == {n \in sent \ req[r].before : OwnerOf[n] = req[r].sender}

\* What read-all found is read or about to be, and what it counts came later.
CoverOK(r) ==
  req[r].op = "read_all" =>
    /\ req[r].before \subseteq sent
    /\ req[r].pc \in Writing => \A n \in req[r].before :
         OwnerOf[n] = req[r].sender => readBy[n] # NoReq \/ n \in pending[r]
    /\ Granted(req[r]) => \A n \in req[r].before : OwnerOf[n] = req[r].sender => readBy[n] # NoReq
    /\ req[r].pc = "commit" \/ Granted(req[r]) => req[r].unread <= Cardinality(Later(r))

JobOK(r) == UserOK(r) /\ RowOK(r) /\ EffectOK(r) /\ CoverOK(r)

\* Whoever was admitted was counted.
LimitOK == \A k \in Key : admitted[k] <= count[k] /\ admitted[k] <= MaxRequests

IInv == TypeOK /\ LimitOK /\ \A r \in Req : JobOK(r)
-----------------------------------------------------------------------------
(* The operators of the model                                              *)
\* An error of the application is a 4xx, a 500 or a 503.
LEMMA AppStatusRange == \A e \in DOMAIN AppStatus : AppStatus[e] \in 400 .. 503
BY DEF AppStatus

\* The statuses of the errors that the endpoints of notifications raise.
LEMMA AppStatusValues ==
  /\ AppStatus.SessionExpired = 401 /\ AppStatus.UserInactive = 403
  /\ AppStatus.CsrfInvalid = 403 /\ AppStatus.TooManyAttempts = 429
  /\ AppStatus.NotFound = 404 /\ AppStatus.ServiceUnavailable = 503
BY DEF AppStatus

\* An error of a store is none of the client.
LEMMA InfraStatusValues == \A e : InfraStatus(e) \in {500, 503}
BY DEF InfraStatus

\* A request is counted at the address that answers for it: its client's,
\* directly or through a proxy, or with Junk its peer's.
LEMMA ResolvedAnswers ==
  ASSUME NEW c \in Client, NEW h \in Headers, NEW via \in Routes
  PROVE  /\ Answerable(c, h, via) \in Addr
         /\ Resolved(Peer(c, via), Forwarded(c, h, via)) = Answerable(c, h, via)
<1>1. c \in Addr /\ c \notin Trusted /\ c # Junk /\ Trusted \subseteq Addr /\ Junk \notin Addr
  BY TrustedAssumption
<1>2. CASE via = <<>>
  BY <1>1, <1>2 DEF Resolved, Peer, Answerable
<1>3. ASSUME NEW a \in Trusted, via = <<a>>
      PROVE  LET fwd == h \o <<c>> IN
             Resolved(a, fwd) = IF Junk \in Entries(h) THEN a ELSE c
  <2>1. CASE h = <<>>
    <3>1. h \o <<c>> = <<c>>  BY <2>1
    <3>2. Entries(<<c>>) = {c}  BY DEF Entries
    <3>3. Resolved(a, <<c>>) = c  BY <1>1, <3>2 DEF Resolved
    <3> QED BY <3>1, <3>3, <2>1 DEF Entries
  <2>2. ASSUME NEW x \in Addr \cup {Junk}, h = <<x>>
        PROVE  Resolved(a, h \o <<c>>) = IF Junk \in Entries(h) THEN a ELSE c
    <3>0. <<x>> \in Seq(Addr \cup {Junk}) /\ <<c>> \in Seq(Addr \cup {Junk})  BY <1>1
    <3>1. h \o <<c>> = <<x, c>>
      <4>1. Len(<<x>> \o <<c>>) = 2 /\ <<x>> \o <<c>> \in Seq(Addr \cup {Junk})  BY <3>0
      <4>2. (<<x>> \o <<c>>)[1] = x /\ (<<x>> \o <<c>>)[2] = c  BY <3>0
      <4>3. <<x, c>> \in Seq(Addr \cup {Junk}) /\ Len(<<x, c>>) = 2  BY <1>1
      <4>4. \A i \in 1 .. 2 : (<<x>> \o <<c>>)[i] = <<x, c>>[i]  BY <4>2
      <4>5. <<x>> \o <<c>> = <<x, c>>  BY <4>1, <4>3, <4>4, SeqEqual
      <4> QED BY <2>2, <4>5
    <3>2. Entries(<<x, c>>) = {x, c} /\ Entries(h) = {x}  BY <2>2 DEF Entries
    <3>3. CASE x = Junk
      BY <1>1, <3>1, <3>2, <3>3 DEF Resolved
    <3>4. CASE x # Junk
      <4>1. (CHOOSE i \in {k \in 1 .. 2 : <<x, c>>[k] \notin Trusted} :
               \A j \in {k \in 1 .. 2 : <<x, c>>[k] \notin Trusted} : i >= j) = 2
        BY <1>1
      <4>2. Resolved(a, <<x, c>>) = c
        BY <1>1, <3>2, <3>4, <4>1 DEF Resolved
      <4> QED BY <3>1, <3>2, <3>4, <4>2
    <3> QED BY <3>3, <3>4
  <2> QED BY <2>1, <2>2 DEF Headers
<1>4. ASSUME NEW a \in Trusted, via = <<a>>
      PROVE  Len(via) = 1 /\ via[1] = a /\ h \o <<c>> \o SubSeq(via, 1, 0) = h \o <<c>>
  <2>1. h \o <<c>> \in Seq(Addr \cup {Junk})
    <3>1. \A x \in Addr \cup {Junk} : <<x>> \in Seq(Addr \cup {Junk})  OBVIOUS
    <3>2. <<>> \in Seq(Addr \cup {Junk})  OBVIOUS
    <3>3. h \in Seq(Addr \cup {Junk}) /\ <<c>> \in Seq(Addr \cup {Junk})
      BY <1>1, <3>1, <3>2 DEF Headers
    <3> QED BY <3>3
  <2>2. SubSeq(via, 1, 0) = <<>>  BY <1>4
  <2> QED BY <1>4, <2>1, <2>2
<1>5. CASE \E a \in Trusted : via = <<a>>
  <2>1. PICK a \in Trusted : via = <<a>>  BY <1>5
  <2>2. Len(via) = 1 /\ Len(via) # 0 /\ Len(via) - 1 = 0  BY <2>1
  <2>3. Peer(c, via) = a /\ Forwarded(c, h, via) = h \o <<c>>
    <3>1. via # <<>>  BY <2>2
    <3> QED BY <1>4, <2>1, <2>2, <3>1 DEF Peer, Forwarded
  <2> QED BY <1>1, <1>3, <2>1, <2>3 DEF Answerable
<1> QED BY <1>2, <1>5 DEF Routes

\* A request and an address have a key.
LEMMA KeyOfType ==
  ASSUME NEW op, NEW u \in User \cup {NoUser}, NEW a \in Addr
  PROVE  KeyOf(op, u, a) \in Key
BY DEF KeyOf, AddressKey, UserKey, ScopeOf, Scope, Key

\* The counter of a request is the key of who answers for it.
LEMMA CounterAnswers ==
  ASSUME NEW r \in Req, req[r].user \in User \cup {NoUser},
         NEW c \in Client, NEW h \in Headers, NEW via \in Routes
  PROVE  /\ Counter(r, c, h, via) \in Key
         /\ Counter(r, c, h, via) = KeyOf(req[r].op, req[r].user, Answerable(c, h, via))
BY ResolvedAnswers, KeyOfType DEF Counter
-----------------------------------------------------------------------------
(* Types                                                                   *)
\* An answer with a status keeps the requests' types.
LEMMA RespondType ==
  ASSUME TypeOK, NEW r \in Req, NEW s \in Nat, Respond(r, s)
  PROVE  req' \in [Req -> Job]
<1>1. req[r] \in Job  BY DEF TypeOK
<1>2. [req[r] EXCEPT !.pc = "history", !.code = s, !.key = <<>>] \in Job
  BY <1>1 DEF Job, Label
<1> QED BY <1>2 DEF TypeOK, Respond

\* So does a step to the next label.
LEMMA GotoType ==
  ASSUME TypeOK, NEW r \in Req, NEW l \in Label, Goto(r, l)
  PROVE  req' \in [Req -> Job]
<1>1. req[r] \in Job  BY DEF TypeOK
<1>2. [req[r] EXCEPT !.pc = l] \in Job  BY <1>1 DEF Job
<1> QED BY <1>2 DEF TypeOK, Goto

\* The end of a transaction keeps the types of the rows.
LEMMA EndType ==
  ASSUME TypeOK, NEW r \in Req, NEW b \in BOOLEAN, EndTransaction(r, b)
  PROVE  readBy' \in [Note -> Req \cup {NoReq}] /\ pending' \in [Req -> SUBSET Note]
BY DEF TypeOK, EndTransaction, Marked

\* The first types.
LEMMA InitType == Init => TypeOK
BY DEF Init, TypeOK, New, NoHistory, NoResponse, Job, Label, Reads, Writes

\* The statuses that the endpoints answer with are numbers.
LEMMA StatusNat ==
  /\ \A e \in DOMAIN AppStatus : AppStatus[e] \in Nat
  /\ AppStatus.SessionExpired \in Nat /\ AppStatus.UserInactive \in Nat
  /\ AppStatus.CsrfInvalid \in Nat /\ AppStatus.TooManyAttempts \in Nat
  /\ AppStatus.NotFound \in Nat /\ AppStatus.ServiceUnavailable \in Nat
  /\ \A e : InfraStatus(e) \in Nat
  /\ NoResponse \in Nat
<1>1. \A e \in DOMAIN AppStatus : AppStatus[e] \in Nat
  BY AppStatusRange
<1> QED BY <1>1, AppStatusValues, InfraStatusValues DEF NoResponse

\* A received request has a request's type.
LEMMA ReceiveType ==
  ASSUME TypeOK, NEW r \in Req, Enter(r)
  PROVE  TypeOK'
<1>1. ASSUME NEW op \in Reads \cup Writes \cup {"public"}, NEW u \in User \cup {NoUser},
             NEW n \in Note \cup {NoNote}, Receive(r, op, u, n)
      PROVE  TypeOK'
  <2>1. req' \in [Req -> Job]
    BY <1>1, ZenonT(40) DEF TypeOK, Receive, New, NoResponse, Job, Label
  <2> QED BY <1>1, <2>1 DEF TypeOK, Receive, stores, limits
<1> QED BY <1>1 DEF Enter, Reads, Writes

\* The way in keeps the types.
LEMMA WayInType ==
  ASSUME TypeOK, NEW r \in Req, UserOK(r),
         \/ Authenticate(r)
         \/ \E o \in {"none", "allowed", "other"}, f \in {"none", "allowed"}, h \in {"none", "matching"} :
              Verify(r, o, f, h)
         \/ Expire(r) \/ Refuse(r) \/ RedisFails(r)
  PROVE  TypeOK'
<1>1. CASE Authenticate(r)
  <2>1. req' \in [Req -> Job]
    <3>1. CASE Respond(r, AppStatus.SessionExpired)  BY <3>1, StatusNat, RespondType
    <3>2. CASE Respond(r, AppStatus.UserInactive)  BY <3>2, StatusNat, RespondType
    <3>3. CASE req' = [req EXCEPT ![r].user = req[r].sender,
                 ![r].pc = IF req[r].op \in Writes /\ mode = "session" THEN "csrf" ELSE "limit"]
      <4> DEFINE l == IF req[r].op \in Writes /\ mode = "session" THEN "csrf" ELSE "limit"
      <4>1. req[r] \in Job /\ l \in Label  BY DEF TypeOK, Label
      <4>2. [req[r] EXCEPT !.user = req[r].sender, !.pc = l] \in Job
        <5> HIDE DEF l
        <5> QED BY <4>1 DEF Job
      <4> QED BY <3>3, <4>2 DEF TypeOK
    <3> QED BY <1>1, <3>1, <3>2, <3>3 DEF Authenticate
  <2> QED BY <1>1, <2>1 DEF TypeOK, Authenticate, stores, limits
<1>2. ASSUME NEW o, NEW f, NEW h, Verify(r, o, f, h) PROVE TypeOK'
  <2>1. req' \in [Req -> Job]
    BY <1>2, StatusNat, RespondType, GotoType DEF Verify, Label
  <2> QED BY <1>2, <2>1 DEF TypeOK, Verify, stores, limits
<1>3. CASE Expire(r)
  <2>1. req' \in [Req -> Job]
    <3>1. req[r] \in Job  BY DEF TypeOK
    <3>2. [req[r] EXCEPT !.pc = "serve", !.key = <<>>] \in Job  BY <3>1 DEF Job, Label
    <3> QED BY <1>3, <3>2 DEF TypeOK, Expire
  <2>2. req[r].key \in Key  BY <1>3 DEF UserOK, Expire, AtPC
  <2> QED BY <1>3, <2>1, <2>2 DEF TypeOK, Expire, stores, limits
<1>4. CASE Refuse(r)
  <2>1. req' \in [Req -> Job]  BY <1>4, StatusNat, RespondType DEF Refuse
  <2> QED BY <1>4, <2>1 DEF TypeOK, Refuse, stores, limits
<1>5. CASE RedisFails(r)
  <2>1. req' \in [Req -> Job]  BY <1>5, StatusNat, RespondType DEF RedisFails
  <2>2. timed' \subseteq Key
    BY <1>5 DEF TypeOK, RedisFails, UserOK, AtPC
  <2> QED BY <1>5, <2>1, <2>2 DEF TypeOK, RedisFails, stores, limits
<1> QED BY <1>1, <1>2, <1>3, <1>4, <1>5

\* Counting keeps the types.
LEMMA IncrType ==
  ASSUME TypeOK, NEW r \in Req, NEW c \in Client, NEW h \in Headers, NEW via \in Routes,
         Incr(r, c, h, via)
  PROVE  TypeOK'
<1>1. req[r] \in Job /\ req[r].user \in User \cup {NoUser}  BY DEF TypeOK, Job
<1>2. PICK key \in Key : /\ key = Counter(r, c, h, via)
                         /\ key = KeyOf(req[r].op, req[r].user, Answerable(c, h, via))
  BY <1>1, CounterAnswers
<1>4. count' = [count EXCEPT ![key] = @ + 1]  BY <1>2 DEF Incr
<1>5. \/ admitted' = [admitted EXCEPT ![key] = @ + 1]
      \/ admitted' = admitted
  BY <1>2 DEF Incr
<1>6. /\ count' \in [Key -> Nat]
      /\ admitted' \in [Key -> Nat]
  BY <1>4, <1>5 DEF TypeOK
<1>7. PICK k \in Key \cup {<<>>}, l \in {"expire", "serve", "over"} :
        req' = [req EXCEPT ![r].key = k, ![r].pc = l]
  <2>1. req' = [req EXCEPT ![r].key = IF count[key] = 0 THEN key ELSE <<>>,
               ![r].pc = IF count[key] = 0 THEN "expire"
                         ELSE IF Admits(count[key] + 1) THEN "serve" ELSE "over"]
    BY <1>2 DEF Incr
  <2> QED BY <2>1
<1>8. req' \in [Req -> Job]
  <2>1. [req[r] EXCEPT !.key = k, !.pc = l] \in Job  BY <1>1, <1>7 DEF Job, Label
  <2> QED BY <1>7, <2>1 DEF TypeOK
<1> QED BY <1>6, <1>8 DEF TypeOK, Incr, stores

\* So does a count whose reply is lost.
LEMMA IncrLostType ==
  ASSUME TypeOK, NEW r \in Req, NEW c \in Client, NEW h \in Headers, NEW via \in Routes,
         IncrUnanswered(r, c, h, via)
  PROVE  TypeOK'
<1>1. req[r].user \in User \cup {NoUser}  BY DEF TypeOK, Job
<1>2. PICK key \in Key : key = Counter(r, c, h, via)  BY <1>1, CounterAnswers
<1>3. count' \in [Key -> Nat]  BY <1>2 DEF TypeOK, IncrUnanswered
<1>4. req' \in [Req -> Job]  BY StatusNat, RespondType DEF IncrUnanswered
<1> QED BY <1>3, <1>4 DEF TypeOK, IncrUnanswered, stores

\* The service keeps the types.
LEMMA ServiceType ==
  ASSUME TypeOK, NEW r \in Req,
         \/ Serve(r) \/ MarkRead(r) \/ MarkAllRead(r) \/ CountUnread(r) \/ Commit(r)
         \/ (\E e \in DatabaseErrors : DatabaseFails(r, e)) \/ Unhandled(r)
  PROVE  TypeOK'
<1>1. CASE Serve(r)
  <2>1. req' \in [Req -> Job]
    <3>1. CASE Respond(r, 200)  BY <3>1, RespondType
    <3>2. ASSUME NEW e \in DOMAIN AppStatus, Respond(r, AppStatus[e]) PROVE req' \in [Req -> Job]
      BY <3>2, StatusNat, RespondType
    <3> QED BY <1>1, <3>1, <3>2 DEF Serve
  <2> QED BY <1>1, <2>1 DEF TypeOK, Serve, stores, limits
<1>2. CASE MarkRead(r)
  <2>1. req' \in [Req -> Job]
    BY <1>2, StatusNat, RespondType, GotoType DEF MarkRead, Label
  <2>2. pending' \in [Req -> SUBSET Note]  BY <1>2 DEF TypeOK, MarkRead, OwnRow
  <2> QED BY <1>2, <2>1, <2>2 DEF TypeOK, MarkRead, limits
<1>3. CASE MarkAllRead(r)
  <2>1. req' \in [Req -> Job]  BY <1>3, GotoType DEF MarkAllRead, Label
  <2>2. pending' \in [Req -> SUBSET Note]  BY <1>3 DEF TypeOK, MarkAllRead, OwnUnread, Unread
  <2> QED BY <1>3, <2>1, <2>2 DEF TypeOK, MarkAllRead, limits
<1>4. CASE CountUnread(r)
  <2>1. Cardinality(Unread(req[r].user) \ pending[r]) \in Nat
    <3>1. IsFiniteSet(Unread(req[r].user) \ pending[r])
      BY NoteAssumption, FS_Subset DEF Unread, TypeOK
    <3> QED BY <3>1, FS_CardinalityType
  <2>2. req' \in [Req -> Job]
    <3>1. PICK n \in Nat : req' = [req EXCEPT ![r].pc = "commit", ![r].unread = n]
      BY <1>4, <2>1 DEF CountUnread
    <3>2. req[r] \in Job  BY DEF TypeOK
    <3>3. [req[r] EXCEPT !.pc = "commit", !.unread = n] \in Job  BY <3>1, <3>2 DEF Job, Label
    <3> QED BY <3>1, <3>3 DEF TypeOK
  <2> QED BY <1>4, <2>2 DEF TypeOK, CountUnread, stores, limits
<1>5. CASE Commit(r)
  BY <1>5, RespondType, EndType, ZenonT(40) DEF TypeOK, Commit, limits
<1>6. ASSUME NEW e, DatabaseFails(r, e) PROVE TypeOK'
  <2>1. req' \in [Req -> Job]  BY <1>6, StatusNat, RespondType DEF DatabaseFails
  <2>2. \E b \in BOOLEAN : EndTransaction(r, b)  BY <1>6 DEF DatabaseFails
  <2> QED BY <1>6, <2>1, <2>2, EndType DEF TypeOK, DatabaseFails, limits
<1>7. CASE Unhandled(r)
  <2>1. req' \in [Req -> Job]  BY <1>7, StatusNat, RespondType DEF Unhandled
  <2> QED BY <1>7, <2>1, EndType DEF TypeOK, Unhandled, limits
<1> QED BY <1>1, <1>2, <1>3, <1>4, <1>5, <1>6, <1>7

\* The way out keeps the types.
LEMMA SaveType ==
  ASSUME TypeOK, NEW r \in Req, SaveHistory(r)
  PROVE  TypeOK'
<1>1. req[r] \in Job  BY DEF TypeOK
<1>2. Row(r) \in [code : Nat, status : {"none", "error", "success"}, user : User \cup {NoUser}]
  <2>1. HistoryCode(req[r].code) \in Nat /\ HistoryUser(r) \in User \cup {NoUser}
    BY <1>1 DEF Job, HistoryCode, HistoryUser
  <2> QED BY <2>1 DEF Row
<1>3. req' \in [Req -> Job]
  <2>1. PICK a \in Nat : req' = [req EXCEPT ![r].pc = "done", ![r].user = NoUser,
                                 ![r].code = NoResponse, ![r].answer = a]
    <3>1. (IF req[r].code = NoResponse THEN 500 ELSE req[r].code) \in Nat  BY <1>1 DEF Job
    <3> QED BY <3>1 DEF SaveHistory
  <2>2. [req[r] EXCEPT !.pc = "done", !.user = NoUser, !.code = NoResponse, !.answer = a] \in Job
    BY <1>1 DEF Job, Label, NoResponse
  <2> QED BY <2>1, <2>2 DEF TypeOK
<1> QED BY <1>2, <1>3, SMTT(30) DEF TypeOK, SaveHistory, stores, limits

\* Every step keeps the types.
LEMMA TypeStep ==
  ASSUME IInv, [Next]_vars
  PROVE  TypeOK'
<1>1. TypeOK /\ \A r \in Req : UserOK(r)  BY DEF IInv, JobOK
<1>2. ASSUME NEW r \in Req, Step(r) PROVE TypeOK'
  BY <1>1, <1>2, WayInType, IncrType, IncrLostType, ServiceType, SaveType DEF Step
<1>3. ASSUME NEW n \in Note, Notify(n) PROVE TypeOK'
  BY <1>1, <1>3 DEF TypeOK, Notify, limits
<1>4. ASSUME NEW u \in User, EndSession(u) \/ Deactivate(u) PROVE TypeOK'
  BY <1>1, <1>4 DEF TypeOK, EndSession, Deactivate, limits
<1>5. ASSUME NEW k \in Key, WindowEnds(k) PROVE TypeOK'
  BY <1>1, <1>5 DEF TypeOK, WindowEnds, stores
<1>6. CASE UNCHANGED vars
  BY <1>1, <1>6 DEF TypeOK, vars, stores, limits
<1> QED BY <1>1, <1>2, <1>3, <1>4, <1>5, <1>6, ReceiveType DEF Next
-----------------------------------------------------------------------------
(* Steps                                                                   *)
\* A step of r marks rows only for r, and only unread ones; no row goes away.
Forward(r) ==
  /\ sent \subseteq sent' /\ sent' \subseteq Note
  /\ \A n \in Note : readBy'[n] = readBy[n] \/ (readBy[n] = NoReq /\ readBy'[n] = r)

\* Such a step keeps what holds of the other requests.
LEMMA OtherKept ==
  ASSUME TypeOK, NEW r \in Req, NEW q \in Req, JobOK(q), Forward(r), q # r,
         req'[q] = req[q], history'[q] = history[q], pending'[q] = pending[q]
  PROVE  JobOK(q)'
<1>1. UserOK(q)' /\ RowOK(q)'
  BY DEF JobOK, UserOK, RowOK, Done
<1>2. \A n \in Note : /\ readBy'[n] = q => readBy[n] = q
                      /\ readBy[n] # NoReq => readBy'[n] # NoReq
  BY NoneAssumption DEF Forward
<1>3. EffectOK(q)'
  BY <1>2 DEF JobOK, EffectOK, Granted, Settled
<1>4. Later(q) \subseteq Later(q)' /\ Later(q)' \subseteq Note
  BY DEF Later, Forward
<1>5. /\ IsFiniteSet(Later(q)')
      /\ Cardinality(Later(q)) <= Cardinality(Later(q)')
      /\ Cardinality(Later(q)) \in Nat /\ Cardinality(Later(q)') \in Nat
  BY <1>4, NoteAssumption, FS_Subset, FS_CardinalityType
<1>6. req[q].before \subseteq Note /\ req[q].unread \in Nat
  BY DEF TypeOK, Job
<1>7. Cardinality(Later(q))' = Cardinality(Later(q)')  OBVIOUS
<1>8. CoverOK(q)'
  <2> SUFFICES ASSUME req[q].op = "read_all" PROVE CoverOK(q)'
    BY DEF CoverOK
  <2>1. (req[q].before \subseteq sent)'  BY DEF JobOK, CoverOK, Forward
  <2>2. req[q].pc \in Writing => \A n \in req[q].before :
          OwnerOf[n] = req[q].sender => readBy'[n] # NoReq \/ n \in pending[q]
    BY <1>2, <1>6 DEF JobOK, CoverOK
  <2>3. Granted(req[q]) => \A n \in req[q].before : OwnerOf[n] = req[q].sender => readBy'[n] # NoReq
    BY <1>2, <1>6 DEF JobOK, CoverOK
  <2>4. req[q].pc = "commit" \/ Granted(req[q]) => req[q].unread <= Cardinality(Later(q)')
    BY <1>5, <1>6 DEF JobOK, CoverOK
  <2> QED BY <2>1, <2>2, <2>3, <2>4, <1>7 DEF CoverOK, Granted
<1> QED BY <1>1, <1>3, <1>8 DEF JobOK

\* The same for a step of nobody's.
LEMMA AllKept ==
  ASSUME TypeOK, \A q \in Req : JobOK(q), UNCHANGED <<readBy, pending, history, req>>,
         sent \subseteq sent', sent' \subseteq Note
  PROVE  \A q \in Req : JobOK(q)'
<1> SUFFICES ASSUME NEW q \in Req PROVE JobOK(q)'
  OBVIOUS
<1>1. UserOK(q)' /\ RowOK(q)'
  BY DEF JobOK, UserOK, RowOK, Done
<1>3. EffectOK(q)'
  BY DEF JobOK, EffectOK, Granted, Settled
<1>4. Later(q) \subseteq Later(q)' /\ Later(q)' \subseteq Note
  BY DEF Later
<1>5. /\ Cardinality(Later(q)) <= Cardinality(Later(q)')
      /\ Cardinality(Later(q)) \in Nat /\ Cardinality(Later(q)') \in Nat
  BY <1>4, NoteAssumption, FS_Subset, FS_CardinalityType
<1>6. req[q].before \subseteq Note /\ req[q].unread \in Nat
  BY DEF TypeOK, Job
<1>7. req[q].unread <= Cardinality(Later(q)) => req[q].unread <= Cardinality(Later(q)')
  BY <1>5, <1>6
<1>8. CoverOK(q)'
  BY <1>7 DEF JobOK, CoverOK, Granted
<1> QED BY <1>1, <1>3, <1>8 DEF JobOK

\* No two requests of the same name: what changes is the step's own.
LEMMA OthersKept ==
  ASSUME IInv, NEW r \in Req, Forward(r), JobOK(r)',
         \A q \in Req \ {r} : req'[q] = req[q] /\ history'[q] = history[q] /\ pending'[q] = pending[q]
  PROVE  \A q \in Req : JobOK(q)'
BY OtherKept DEF IInv

\* A request is answered: what the service changed is kept only after a 200, or
\* with no refusal.
Answered(r, s) ==
  /\ s = NoResponse \/ s \in {200, 500, 503} \/ s \in 400 .. 499
  /\ s = 200 => /\ req[r].pc \in Past
                /\ req[r].op \in Writes => readBy' = Marked(r) /\ req[r].pc = "commit"
  /\ s = 401 => req[r].user = NoUser
  /\ readBy' = readBy \/ (readBy' = Marked(r) /\ s \notin 400 .. 499)
  /\ pending' = [pending EXCEPT ![r] = {}]

\* Every answer, with its transaction's end, keeps the invariant.
LEMMA AnswerStep ==
  ASSUME IInv, NEW r \in Req, NEW s \in Nat, Respond(r, s), Answered(r, s),
         req[r].pc \notin {"history", "done"}, UNCHANGED <<sent, history>>
  PROVE  \A q \in Req : JobOK(q)'
<1>1. TypeOK /\ UserOK(r) /\ RowOK(r) /\ EffectOK(r) /\ CoverOK(r) /\ req[r] \in Job
  BY DEF IInv, JobOK, TypeOK
<1>2. /\ req'[r] = [req[r] EXCEPT !.pc = "history", !.code = s, !.key = <<>>]
      /\ \A q \in Req \ {r} : req'[q] = req[q]
  BY <1>1 DEF TypeOK, Respond
<1>3. /\ req'[r].pc = "history" /\ req'[r].code = s
      /\ req'[r].op = req[r].op /\ req'[r].sender = req[r].sender /\ req'[r].user = req[r].user
      /\ req'[r].note = req[r].note /\ req'[r].before = req[r].before
      /\ req'[r].unread = req[r].unread
  BY <1>1, <1>2 DEF Job
<1>4. /\ pending'[r] = {} /\ \A q \in Req \ {r} : pending'[q] = pending[q]
  BY <1>1 DEF Answered, TypeOK
<1>5. \A n \in Note : \/ readBy'[n] = readBy[n]
                      \/ readBy[n] = NoReq /\ readBy'[n] = r /\ n \in pending[r] /\ s \notin 400 .. 499
  BY <1>1 DEF Answered, Marked, TypeOK
<1>6. Forward(r)  BY <1>1, <1>5 DEF Forward, TypeOK
<1>7. UserOK(r)'  BY <1>1, <1>3 DEF UserOK, Answered, Past
<1>8. RowOK(r)'  BY <1>1, <1>3 DEF RowOK, Done
<1>9. EffectOK(r)'
  <2>1. \A n \in Note : readBy'[n] = r => s \notin 400 .. 499 /\ OwnerOf[n] = req[r].sender
    BY <1>1, <1>5 DEF EffectOK, Settled
  <2>2. req[r].op = "read" /\ s = 200 => readBy'[req[r].note] # NoReq
    <3> SUFFICES ASSUME req[r].op = "read", s = 200 PROVE readBy'[req[r].note] # NoReq
      OBVIOUS
    <3>1. readBy' = Marked(r) /\ req[r].note \in Note /\ req[r].note \in pending[r]
      BY <1>1 DEF Answered, Writes, EffectOK, Writing
    <3> QED BY <3>1, NoneAssumption DEF Marked
  <2> QED BY <1>1, <1>3, <1>4, <2>1, <2>2 DEF EffectOK, Granted, Settled, Writing
<1>10. CoverOK(r)'
  <2> SUFFICES ASSUME req[r].op = "read_all" PROVE CoverOK(r)'
    BY <1>3 DEF CoverOK
  <2>1. s = 200 => \A n \in req[r].before : OwnerOf[n] = req[r].sender => readBy'[n] # NoReq
    <3> SUFFICES ASSUME s = 200, NEW n \in req[r].before, OwnerOf[n] = req[r].sender
                 PROVE  readBy'[n] # NoReq
      OBVIOUS
    <3>1. readBy' = Marked(r) /\ n \in Note /\ (readBy[n] # NoReq \/ n \in pending[r])
      BY <1>1 DEF Answered, Writes, CoverOK, Writing, Job
    <3> QED BY <3>1, NoneAssumption DEF Marked
  <2>2. Later(r)' = Later(r)  BY <1>3 DEF Later
  <2>3. s = 200 => req[r].unread <= Cardinality(Later(r))
    BY <1>1 DEF Answered, Writes, CoverOK
  <2>4. req[r].before \subseteq sent  BY <1>1 DEF CoverOK
  <2> QED BY <1>3, <2>1, <2>2, <2>3, <2>4 DEF CoverOK, Granted, Writing
<1> QED BY <1>2, <1>4, <1>6, <1>7, <1>8, <1>9, <1>10, OthersKept DEF JobOK

\* A step of the way in touches nothing but the request.
LEMMA AdvanceStep ==
  ASSUME IInv, NEW r \in Req, NEW u \in {NoUser, req[r].sender}, NEW k \in Key \cup {<<>>},
         NEW l \in {"csrf", "limit", "expire", "over", "serve"},
         req[r].pc \in {"auth", "csrf", "limit", "expire"},
         u = req[r].sender, l = "expire" => k \in Key,
         req' = [req EXCEPT ![r] = [req[r] EXCEPT !.user = u, !.key = k, !.pc = l]],
         UNCHANGED <<stores, history>>
  PROVE  \A q \in Req : JobOK(q)'
<1>1. /\ TypeOK /\ UserOK(r) /\ RowOK(r) /\ EffectOK(r) /\ CoverOK(r) /\ req[r] \in Job
      /\ UNCHANGED <<sent, readBy, pending, history>>
  BY DEF IInv, JobOK, TypeOK, stores
<1>2. /\ req'[r] = [req[r] EXCEPT !.user = u, !.key = k, !.pc = l]
      /\ \A q \in Req \ {r} : req'[q] = req[q]
  BY <1>1 DEF TypeOK
<1>3. /\ req'[r].pc = l /\ req'[r].user = u /\ req'[r].key = k
      /\ req'[r].op = req[r].op /\ req'[r].sender = req[r].sender
      /\ req'[r].note = req[r].note /\ req'[r].before = req[r].before
  <2>1. PICK j \in Job : j = req[r]  BY <1>1
  <2>2. PICK i : i = [j EXCEPT !.user = u, !.key = k, !.pc = l]  OBVIOUS
  <2>3. i.pc = l /\ i.user = u /\ i.key = k  BY <2>2 DEF Job
  <2>4. i.op = j.op /\ i.sender = j.sender /\ i.note = j.note /\ i.before = j.before
    BY <2>2 DEF Job
  <2> QED BY <1>2, <2>1, <2>2, <2>3, <2>4
<1>4. Forward(r)  BY <1>1 DEF Forward, TypeOK
<1>5. UserOK(r)'  BY <1>1, <1>3 DEF UserOK
<1>6. RowOK(r)'  BY <1>1, <1>3 DEF RowOK, Done
<1>7. EffectOK(r)'
  BY <1>1, <1>3 DEF EffectOK, Granted, Settled, Writing
<1>8. CoverOK(r)'
  BY <1>1, <1>3 DEF CoverOK, Granted, Writing
<1> QED BY <1>1, <1>2, <1>4, <1>5, <1>6, <1>7, <1>8, OthersKept DEF JobOK

\* An answer before anything was changed.
LEMMA EarlyAnswer ==
  ASSUME IInv, NEW r \in Req, NEW s \in Nat, Respond(r, s),
         req[r].pc \notin {"count", "commit", "history", "done"},
         s = NoResponse \/ s \in {200, 500, 503} \/ s \in 400 .. 499,
         s = 200 => req[r].pc \in Past /\ req[r].op \notin Writes,
         s = 401 => req[r].user = NoUser,
         UNCHANGED <<stores, history>>
  PROVE  \A q \in Req : JobOK(q)'
<1>1. TypeOK /\ pending[r] = {} /\ UNCHANGED <<sent, readBy, pending, history>>
  BY DEF IInv, JobOK, EffectOK, Writing, stores
<1>2. Answered(r, s)  BY <1>1 DEF Answered, TypeOK
<1> QED BY <1>1, <1>2, AnswerStep

\* What get_current_user reads and decides.
LEMMA AuthenticateStep ==
  ASSUME IInv, NEW r \in Req, Authenticate(r)
  PROVE  \A q \in Req : JobOK(q)'
<1>1. /\ req[r].pc = "auth" /\ req[r] \in Job /\ UNCHANGED <<stores, history>>
      /\ req[r].user = NoUser
  BY DEF Authenticate, AtPC, IInv, TypeOK, JobOK, UserOK
<1>2. CASE Respond(r, AppStatus.SessionExpired)
  BY <1>1, <1>2, AppStatusValues, EarlyAnswer
<1>3. CASE Respond(r, AppStatus.UserInactive)
  BY <1>1, <1>3, AppStatusValues, EarlyAnswer
<1>4. ASSUME NEW l \in {"csrf", "limit"},
             req' = [req EXCEPT ![r].user = req[r].sender, ![r].pc = l]
      PROVE  \A q \in Req : JobOK(q)'
  <2>1. req[r].key \in Key \cup {<<>>}  BY <1>1 DEF Job
  <2>2. req' = [req EXCEPT ![r] = [req[r] EXCEPT !.user = req[r].sender, !.key = req[r].key, !.pc = l]]
    <3>1. [req[r] EXCEPT !.user = req[r].sender, !.key = req[r].key, !.pc = l]
            = [req[r] EXCEPT !.user = req[r].sender, !.pc = l]
      BY <1>1 DEF Job
    <3> QED BY <1>4, <3>1
  <2> QED BY <1>1, <2>1, <2>2, AdvanceStep
<1>5. PICK l \in {"csrf", "limit"} :
        l = IF req[r].op \in Writes /\ mode = "session" THEN "csrf" ELSE "limit"
  OBVIOUS
<1> QED BY <1>2, <1>3, <1>4, <1>5 DEF Authenticate

\* verify_origin, verify_csrf and the limit's refusal; a failing Redis.
LEMMA GateStep ==
  ASSUME IInv, NEW r \in Req,
         \/ \E o \in {"none", "allowed", "other"}, f \in {"none", "allowed"}, h \in {"none", "matching"} :
              Verify(r, o, f, h)
         \/ Expire(r) \/ Refuse(r) \/ RedisFails(r)
         \/ \E c \in Client, h \in Headers, via \in Routes : IncrUnanswered(r, c, h, via)
  PROVE  \A q \in Req : JobOK(q)'
<1>1. TypeOK /\ UserOK(r) /\ req[r] \in Job /\ req[r].user \in {NoUser, req[r].sender}
  BY DEF IInv, JobOK, UserOK, TypeOK
<1>2. req[r].key \in Key \cup {<<>>}  BY <1>1 DEF Job
<1>3. ASSUME NEW o, NEW f, NEW h, Verify(r, o, f, h) PROVE \A q \in Req : JobOK(q)'
  <2>1. req[r].pc = "csrf" /\ UNCHANGED <<stores, history>> /\ req[r].user = req[r].sender
    BY <1>1, <1>3 DEF Verify, AtPC, UserOK, Past
  <2>2. CASE Goto(r, "limit")
    <3>1. [req[r] EXCEPT !.pc = "limit"]
            = [req[r] EXCEPT !.user = req[r].user, !.key = req[r].key, !.pc = "limit"]
      BY <1>1 DEF Job
    <3>2. req' = [req EXCEPT ![r] = [req[r] EXCEPT !.user = req[r].user, !.key = req[r].key,
                                              !.pc = "limit"]]
      BY <2>2, <3>1 DEF Goto
    <3> QED BY <1>1, <1>2, <2>1, <3>2, AdvanceStep
  <2>3. CASE Respond(r, AppStatus.CsrfInvalid)
    BY <2>1, <2>3, AppStatusValues, EarlyAnswer
  <2> QED BY <1>3, <2>2, <2>3 DEF Verify
<1>4. CASE Expire(r)
  <2>1. req[r].pc = "expire" /\ UNCHANGED <<stores, history>> /\ req[r].user = req[r].sender
    BY <1>1, <1>4 DEF Expire, AtPC, UserOK, Past
  <2>2. [req[r] EXCEPT !.pc = "serve", !.key = <<>>]
          = [req[r] EXCEPT !.user = req[r].user, !.key = <<>>, !.pc = "serve"]
    BY <1>1 DEF Job
  <2>3. req' = [req EXCEPT ![r] = [req[r] EXCEPT !.user = req[r].user, !.key = <<>>, !.pc = "serve"]]
    BY <1>4, <2>2 DEF Expire
  <2> QED BY <1>1, <2>1, <2>3, AdvanceStep
<1>5. CASE Refuse(r)
  BY <1>5, AppStatusValues, EarlyAnswer DEF Refuse, AtPC
<1>6. CASE RedisFails(r)
  BY <1>6, AppStatusValues, EarlyAnswer DEF RedisFails, AtPC
<1>7. ASSUME NEW c, NEW h, NEW via, IncrUnanswered(r, c, h, via) PROVE \A q \in Req : JobOK(q)'
  BY <1>7, AppStatusValues, EarlyAnswer DEF IncrUnanswered, AtPC
<1> QED BY <1>3, <1>4, <1>5, <1>6, <1>7

\* The count decides only where the request goes.
LEMMA IncrStep ==
  ASSUME IInv, NEW r \in Req, NEW c \in Client, NEW h \in Headers, NEW via \in Routes,
         Incr(r, c, h, via)
  PROVE  \A q \in Req : JobOK(q)'
<1>1. /\ UserOK(r) /\ req[r] \in Job /\ req[r].pc = "limit" /\ UNCHANGED <<stores, history>>
      /\ req[r].user = req[r].sender
  BY DEF IInv, JobOK, UserOK, TypeOK, Incr, AtPC, Past
<1>2. req[r].user \in User \cup {NoUser}  BY <1>1 DEF Job
<1>3. PICK key \in Key : key = Counter(r, c, h, via)  BY <1>2, CounterAnswers
<1>4. PICK k \in Key \cup {<<>>}, l \in {"expire", "serve", "over"} :
        /\ req' = [req EXCEPT ![r].key = k, ![r].pc = l]
        /\ l = "expire" => k \in Key
  <2>1. req' = [req EXCEPT ![r].key = IF count[key] = 0 THEN key ELSE <<>>,
               ![r].pc = IF count[key] = 0 THEN "expire"
                         ELSE IF Admits(count[key] + 1) THEN "serve" ELSE "over"]
    BY <1>3 DEF Incr
  <2>2. CASE count[key] = 0
    <3>1. req' = [req EXCEPT ![r].key = key, ![r].pc = "expire"]  BY <2>1, <2>2
    <3> QED BY <3>1
  <2>3. CASE count[key] # 0
    <3>1. \E l \in {"serve", "over"} : req' = [req EXCEPT ![r].key = <<>>, ![r].pc = l]
      BY <2>1, <2>3
    <3> QED BY <3>1
  <2> QED BY <2>2, <2>3
<1>5. [req[r] EXCEPT !.key = k, !.pc = l]
        = [req[r] EXCEPT !.user = req[r].user, !.key = k, !.pc = l]
  BY <1>1 DEF Job
<1>6. req' = [req EXCEPT ![r] = [req[r] EXCEPT !.user = req[r].user, !.key = k, !.pc = l]]
  BY <1>4, <1>5
<1> QED BY <1>1, <1>4, <1>6, AdvanceStep

\* A statement that changes rows: its own, the one asked for, or all that
\* are unread.
LEMMA WriteStep ==
  ASSUME IInv, NEW r \in Req, NEW S \in SUBSET Note, Goto(r, "count"), req[r].pc = "serve",
         pending' = [pending EXCEPT ![r] = S],
         UNCHANGED <<sent, readBy, history>>,
         \A n \in S : OwnerOf[n] = req[r].sender,
         req[r].op = "read" => req[r].note \in S,
         req[r].op = "read_all" => \A n \in req[r].before :
            OwnerOf[n] = req[r].sender => readBy[n] # NoReq \/ n \in S
  PROVE  \A q \in Req : JobOK(q)'
<1>1. /\ TypeOK /\ UserOK(r) /\ RowOK(r) /\ EffectOK(r) /\ CoverOK(r) /\ req[r] \in Job
  BY DEF IInv, JobOK, TypeOK
<1>2. /\ req'[r] = [req[r] EXCEPT !.pc = "count"]
      /\ \A q \in Req \ {r} : req'[q] = req[q]
  BY <1>1 DEF TypeOK, Goto
<1>3. /\ req'[r].pc = "count" /\ req'[r].user = req[r].user
      /\ req'[r].op = req[r].op /\ req'[r].sender = req[r].sender
      /\ req'[r].note = req[r].note /\ req'[r].before = req[r].before
  BY <1>1, <1>2 DEF Job
<1>4. pending'[r] = S /\ \A q \in Req \ {r} : pending'[q] = pending[q]
  BY <1>1 DEF TypeOK
<1>5. Forward(r)  BY <1>1 DEF Forward, TypeOK
<1>6. UserOK(r)'  BY <1>1, <1>3 DEF UserOK, Past
<1>7. RowOK(r)'  BY <1>1, <1>3 DEF RowOK, Done
<1>8. EffectOK(r)'
  BY <1>1, <1>3, <1>4 DEF EffectOK, Granted, Settled, Writing
<1>9. CoverOK(r)'
  BY <1>1, <1>3, <1>4 DEF CoverOK, Granted, Writing
<1> QED BY <1>2, <1>4, <1>5, <1>6, <1>7, <1>8, <1>9, OthersKept DEF JobOK

\* The statements of the service.
LEMMA MarkStep ==
  ASSUME IInv, NEW r \in Req, Serve(r) \/ MarkRead(r) \/ MarkAllRead(r)
  PROVE  \A q \in Req : JobOK(q)'
<1>1. /\ req[r].pc = "serve" /\ UNCHANGED <<sent, readBy, history>>
      /\ TypeOK /\ UserOK(r) /\ EffectOK(r) /\ CoverOK(r) /\ req[r] \in Job
      /\ req[r].user = req[r].sender
  BY DEF IInv, JobOK, TypeOK, UserOK, Past, Serve, MarkRead, MarkAllRead, AtPC, stores
<1>2. CASE Serve(r)
  <2>1. CASE Respond(r, 200)
    BY <1>1, <1>2, <2>1, EarlyAnswer DEF Serve, Past
  <2>2. ASSUME NEW e \in DOMAIN AppStatus, Respond(r, AppStatus[e]), req[r].op = "public"
        PROVE  \A q \in Req : JobOK(q)'
    <3>1. AppStatus[e] \in 400 .. 499 \/ AppStatus[e] \in {500, 503}  BY DEF AppStatus
    <3>2. req[r].user = NoUser  BY <1>1, <2>2 DEF UserOK
    <3>3. UNCHANGED <<stores, history>>  BY <1>2 DEF Serve
    <3> HIDE DEF AppStatus
    <3>4. AppStatus[e] \in Nat /\ AppStatus[e] # 200  BY <3>1
    <3> QED BY <1>1, <2>2, <3>1, <3>2, <3>3, <3>4, EarlyAnswer
  <2> QED BY <1>2, <2>1, <2>2 DEF Serve
<1>3. CASE MarkRead(r)
  <2>1. CASE OwnRow(r) = {}
    BY <1>1, <1>3, <2>1, AppStatusValues, EarlyAnswer DEF MarkRead, stores
  <2>2. CASE OwnRow(r) # {}
    <3>1. /\ req[r].note \in OwnRow(r) /\ OwnRow(r) \subseteq Note
          /\ \A n \in OwnRow(r) : OwnerOf[n] = req[r].sender
      BY <1>1, <2>2 DEF OwnRow, TypeOK
    <3>2. Goto(r, "count") /\ pending' = [pending EXCEPT ![r] = OwnRow(r)] /\ req[r].op = "read"
      BY <1>3, <2>2 DEF MarkRead
    <3> QED BY <1>1, <3>1, <3>2, WriteStep
  <2> QED BY <2>1, <2>2
<1>4. CASE MarkAllRead(r)
  <2>1. /\ OwnUnread(r) \subseteq Note
        /\ \A n \in OwnUnread(r) : OwnerOf[n] = req[r].sender
        /\ \A n \in sent : OwnerOf[n] = req[r].sender => readBy[n] # NoReq \/ n \in OwnUnread(r)
    BY <1>1 DEF OwnUnread, Unread, TypeOK
  <2>2. /\ Goto(r, "count") /\ pending' = [pending EXCEPT ![r] = OwnUnread(r)]
        /\ req[r].op = "read_all" /\ req[r].before \subseteq sent
    BY <1>1, <1>4 DEF MarkAllRead, CoverOK
  <2> QED BY <1>1, <2>1, <2>2, WriteStep
<1> QED BY <1>2, <1>3, <1>4

\* What is left to count came after the request.
LEMMA CountStep ==
  ASSUME IInv, NEW r \in Req, CountUnread(r)
  PROVE  \A q \in Req : JobOK(q)'
<1>1. /\ TypeOK /\ UserOK(r) /\ RowOK(r) /\ EffectOK(r) /\ CoverOK(r) /\ req[r] \in Job
      /\ req[r].pc = "count" /\ req[r].user = req[r].sender
      /\ UNCHANGED <<sent, readBy, pending, history>>
  BY DEF IInv, JobOK, TypeOK, CountUnread, AtPC, UserOK, Past, stores
<1>2. PICK left : left = Unread(req[r].user) \ pending[r]  OBVIOUS
<1>3. left \subseteq Note /\ Later(r) \subseteq Note  BY <1>1, <1>2 DEF Unread, Later, TypeOK
<1>4. Cardinality(left) \in Nat
  BY <1>3, NoteAssumption, FS_Subset, FS_CardinalityType
<1>5. req[r].op = "read_all" => Cardinality(left) <= Cardinality(Later(r))
  <2> SUFFICES ASSUME req[r].op = "read_all" PROVE Cardinality(left) <= Cardinality(Later(r))
    OBVIOUS
  <2>1. left \subseteq Later(r)
    BY <1>1, <1>2 DEF CoverOK, Writing, Unread, Later
  <2> QED BY <1>3, <2>1, NoteAssumption, FS_Subset
<1>6. /\ req' = [req EXCEPT ![r].pc = "commit", ![r].unread = Cardinality(left)]
  BY <1>2 DEF CountUnread
<1>7. /\ req'[r] = [req[r] EXCEPT !.pc = "commit", !.unread = Cardinality(left)]
      /\ \A q \in Req \ {r} : req'[q] = req[q]
  BY <1>1, <1>6 DEF TypeOK
<1>8. /\ req'[r].pc = "commit" /\ req'[r].unread = Cardinality(left)
      /\ req'[r].op = req[r].op /\ req'[r].sender = req[r].sender /\ req'[r].user = req[r].user
      /\ req'[r].note = req[r].note /\ req'[r].before = req[r].before
  BY <1>1, <1>7 DEF Job
<1>9. Forward(r)  BY <1>1 DEF Forward, TypeOK
<1>10. UserOK(r)'  BY <1>1, <1>8 DEF UserOK, Past
<1>11. RowOK(r)'  BY <1>1, <1>8 DEF RowOK, Done
<1>12. EffectOK(r)'
  BY <1>1, <1>8 DEF EffectOK, Granted, Settled, Writing
<1>13. Later(r)' = Later(r)  BY <1>1, <1>8 DEF Later
<1>14. CoverOK(r)'
  BY <1>1, <1>5, <1>8, <1>13 DEF CoverOK, Granted, Writing
<1> QED BY <1>1, <1>7, <1>9, <1>10, <1>11, <1>12, <1>14, OthersKept DEF JobOK

\* The ends of transactions.
LEMMA EndStep ==
  ASSUME IInv, NEW r \in Req,
         \/ Commit(r) \/ (\E e \in DatabaseErrors : DatabaseFails(r, e)) \/ Unhandled(r)
  PROVE  \A q \in Req : JobOK(q)'
<1>1. TypeOK /\ UNCHANGED <<sent, history>>
  BY DEF IInv, Commit, DatabaseFails, Unhandled
<1>2. CASE Commit(r)
  <2>1. Answered(r, 200) /\ Respond(r, 200) /\ req[r].pc = "commit"
    BY <1>2 DEF Commit, AtPC, EndTransaction, Answered, Past
  <2> QED BY <1>1, <2>1, AnswerStep
<1>3. ASSUME NEW e, DatabaseFails(r, e) PROVE \A q \in Req : JobOK(q)'
  <2>1. PICK s \in {500, 503} : s = InfraStatus(e)  BY InfraStatusValues
  <2>2. /\ Answered(r, s) /\ Respond(r, s)
        /\ req[r].pc \notin {"history", "done"}
    BY <1>3, <2>1 DEF DatabaseFails, AtPC, EndTransaction, Answered
  <2> QED BY <1>1, <2>2, AnswerStep
<1>4. CASE Unhandled(r)
  <2>1. /\ Answered(r, NoResponse) /\ Respond(r, NoResponse)
        /\ req[r].pc \notin {"history", "done"}
    BY <1>4 DEF Unhandled, EndTransaction, Answered, NoResponse
  <2> QED BY <1>1, <2>1, AnswerStep DEF NoResponse
<1> QED BY <1>2, <1>3, <1>4

\* The row has the status of the answer.
LEMMA SaveStep ==
  ASSUME IInv, NEW r \in Req, SaveHistory(r)
  PROVE  \A q \in Req : JobOK(q)'
<1>1. /\ TypeOK /\ UserOK(r) /\ RowOK(r) /\ EffectOK(r) /\ CoverOK(r) /\ req[r] \in Job
      /\ req[r].pc = "history" /\ UNCHANGED <<sent, readBy, pending>>
  BY DEF IInv, JobOK, TypeOK, SaveHistory, AtPC, stores
<1>2. PICK a \in Nat : a = IF req[r].code = NoResponse THEN 500 ELSE req[r].code
  BY <1>1 DEF Job
<1>3. req' = [req EXCEPT ![r].pc = "done", ![r].user = NoUser, ![r].code = NoResponse, ![r].answer = a]
  BY <1>2 DEF SaveHistory
<1>4. /\ req'[r] = [req[r] EXCEPT !.pc = "done", !.user = NoUser, !.code = NoResponse, !.answer = a]
      /\ \A q \in Req \ {r} : req'[q] = req[q]
  BY <1>1, <1>3 DEF TypeOK
<1>5. /\ req'[r].pc = "done" /\ req'[r].user = NoUser /\ req'[r].answer = a
      /\ req'[r].op = req[r].op /\ req'[r].sender = req[r].sender
      /\ req'[r].note = req[r].note /\ req'[r].before = req[r].before
      /\ req'[r].unread = req[r].unread
  BY <1>1, <1>4 DEF Job
<1>6. /\ a = 200 <=> req[r].code = 200
      /\ a \in 400 .. 499 <=> req[r].code \in 400 .. 499
      /\ a = 401 <=> req[r].code = 401
      /\ HistoryCode(req[r].code) = a
  <2>1. req[r].code \in Nat  BY <1>1 DEF Job
  <2>2. CASE req[r].code = 0  BY <1>2, <2>2 DEF NoResponse, HistoryCode
  <2>3. CASE req[r].code # 0  BY <1>2, <2>1, <2>3 DEF NoResponse, HistoryCode
  <2> QED BY <2>2, <2>3
<1>7. Row(r).code = a /\ (Row(r).status = "success" <=> a < 400) /\ Row(r).user = req[r].user
  BY <1>2, <1>6 DEF Row, HistoryUser
<1>8. (history'[r] = Row(r) \/ history'[r] = history[r]) /\ \A q \in Req \ {r} : history'[q] = history[q]
  BY <1>1 DEF SaveHistory, TypeOK
<1>9. history[r] = NoHistory  BY <1>1 DEF RowOK, Done
<1>10. Forward(r)  BY <1>1 DEF Forward, TypeOK
<1>11. UserOK(r)'  BY <1>1, <1>5 DEF UserOK, Past
<1>12. RowOK(r)'
  BY <1>1, <1>5, <1>6, <1>7, <1>8, <1>9 DEF RowOK, Done, UserOK
<1>13. EffectOK(r)'
  BY <1>1, <1>5, <1>6 DEF EffectOK, Granted, Settled, Writing
<1>14. Later(r)' = Later(r)  BY <1>1, <1>5 DEF Later
<1>15. CoverOK(r)'
  BY <1>1, <1>5, <1>6, <1>14 DEF CoverOK, Granted, Writing
<1> QED BY <1>1, <1>4, <1>8, <1>10, <1>11, <1>12, <1>13, <1>15, OthersKept DEF JobOK

\* A request comes in; nothing has its name yet.
LEMMA EnterStep ==
  ASSUME IInv, NEW r \in Req, Enter(r)
  PROVE  \A q \in Req : JobOK(q)'
<1>1. ASSUME NEW op \in Reads \cup Writes \cup {"public"}, NEW u \in User \cup {NoUser},
             NEW n \in Note \cup {NoNote}, Receive(r, op, u, n),
             op = "public" => u = NoUser, op = "read" => n \in Note
      PROVE  \A q \in Req : JobOK(q)'
  <2>1. /\ TypeOK /\ UserOK(r) /\ RowOK(r) /\ EffectOK(r) /\ req[r] \in Job
        /\ req[r].pc = "new" /\ UNCHANGED <<sent, readBy, pending, history>>
    BY <1>1 DEF IInv, JobOK, TypeOK, Receive, AtPC, stores
  <2>2. PICK l \in {"limit", "auth"} : l = IF op = "public" THEN "limit" ELSE "auth"
    OBVIOUS
  <2>3. PICK S \in SUBSET Note : S = IF op = "read_all" THEN sent ELSE {}
    BY <2>1 DEF TypeOK
  <2>4. /\ req'[r] = [New EXCEPT !.op = op, !.sender = u, !.note = n, !.pc = l, !.before = S]
        /\ \A q \in Req \ {r} : req'[q] = req[q]
    BY <1>1, <2>1, <2>2, <2>3 DEF Receive, TypeOK
  <2>5. /\ req'[r].op = op /\ req'[r].sender = u /\ req'[r].note = n /\ req'[r].pc = l
        /\ req'[r].before = S /\ req'[r].user = NoUser
    BY <2>4 DEF New
  <2>6. Forward(r)  BY <2>1 DEF Forward, TypeOK
  <2>7. UserOK(r)'  BY <1>1, <2>2, <2>5 DEF UserOK, Past
  <2>8. RowOK(r)'  BY <2>1, <2>5 DEF RowOK, Done
  <2>9. EffectOK(r)'
    BY <1>1, <2>1, <2>5 DEF EffectOK, Granted, Settled, Writing
  <2>10. CoverOK(r)'
    BY <2>1, <2>3, <2>5 DEF CoverOK, Granted, Writing
  <2> QED BY <2>1, <2>4, <2>6, <2>7, <2>8, <2>9, <2>10, OthersKept DEF JobOK
<1> QED BY <1>1 DEF Enter, Reads, Writes

\* Who was let through was counted at the key of who answers for him.
LEMMA LimitStep ==
  ASSUME IInv, [Next]_vars
  PROVE  LimitOK'
<1>1. TypeOK /\ LimitOK /\ \A r \in Req : req[r] \in Job  BY DEF IInv, TypeOK
<1>2. CASE UNCHANGED <<count, admitted>>  BY <1>1, <1>2 DEF LimitOK
<1>3. ASSUME NEW r \in Req, NEW c \in Client, NEW h \in Headers, NEW via \in Routes, Incr(r, c, h, via)
      PROVE  LimitOK'
  <2>1. PICK key \in Key : /\ key = Counter(r, c, h, via)
                           /\ key = KeyOf(req[r].op, req[r].user, Answerable(c, h, via))
    BY <1>1, CounterAnswers DEF Job
  <2>2. count' = [count EXCEPT ![key] = @ + 1]  BY <1>3, <2>1 DEF Incr
  <2>3. \/ admitted' = admitted
        \/ Admits(count[key] + 1) /\ admitted' = [admitted EXCEPT ![key] = @ + 1]
    BY <1>3, <2>1 DEF Incr
  <2> QED BY <1>1, <2>2, <2>3, MaxAssumption DEF LimitOK, TypeOK, Admits
<1>8. ASSUME NEW r \in Req, NEW c \in Client, NEW h \in Headers, NEW via \in Routes,
             IncrUnanswered(r, c, h, via)
      PROVE  LimitOK'
  <2>1. PICK key \in Key : key = Counter(r, c, h, via)  BY <1>1, CounterAnswers DEF Job
  <2> QED BY <1>1, <1>8, <2>1 DEF LimitOK, TypeOK, IncrUnanswered
<1>4. ASSUME NEW k \in Key, WindowEnds(k) PROVE LimitOK'
  BY <1>1, <1>4, MaxAssumption DEF WindowEnds, LimitOK, TypeOK
<1>5. ASSUME NEW r \in Req, Step(r),
             ~(\E c \in Client, h \in Headers, via \in Routes :
                 Incr(r, c, h, via) \/ IncrUnanswered(r, c, h, via))
      PROVE  UNCHANGED <<count, admitted>>
  BY <1>5 DEF Step, Authenticate, Verify, Expire, Refuse, RedisFails, Serve, MarkRead, MarkAllRead,
              CountUnread, Commit, DatabaseFails, Unhandled, SaveHistory, limits
<1>6. ASSUME NEW r \in Req, Enter(r) PROVE UNCHANGED <<count, admitted>>
  BY <1>6 DEF Enter, Receive, limits
<1>7. ASSUME \/ \E n \in Note : Notify(n)
             \/ \E u \in User : EndSession(u) \/ Deactivate(u)
             \/ UNCHANGED vars
      PROVE  UNCHANGED <<count, admitted>>
  BY <1>7 DEF Notify, EndSession, Deactivate, vars, limits
<1> QED BY <1>2, <1>3, <1>4, <1>5, <1>6, <1>7, <1>8 DEF Next

\* Nothing is promised before the first request.
LEMMA InitInv == Init => IInv
<1> SUFFICES ASSUME Init PROVE IInv
  OBVIOUS
<1>1. TypeOK  BY InitType
<1>2. LimitOK  BY MaxAssumption DEF Init, LimitOK
<1>3. ASSUME NEW r \in Req PROVE JobOK(r)
  <2>1. /\ req[r] = New /\ history[r] = NoHistory /\ pending[r] = {} /\ sent = {}
        /\ \A n \in Note : readBy[n] # r
    BY NoneAssumption DEF Init
  <2> QED BY <2>1 DEF JobOK, UserOK, RowOK, EffectOK, CoverOK, New, Granted, Settled, Past, Writing
<1> QED BY <1>1, <1>2, <1>3 DEF IInv

\* Every step keeps the invariant.
LEMMA NextInv == IInv /\ [Next]_vars => IInv'
<1> SUFFICES ASSUME IInv, [Next]_vars PROVE IInv'
  OBVIOUS
<1>1. TypeOK' /\ LimitOK'  BY TypeStep, LimitStep
<1>2. TypeOK /\ \A q \in Req : JobOK(q)  BY DEF IInv
<1>3. ASSUME NEW r \in Req, Step(r) PROVE \A q \in Req : JobOK(q)'
  BY <1>3, AuthenticateStep, GateStep, IncrStep, MarkStep, CountStep, EndStep, SaveStep DEF Step
<1>4. ASSUME UNCHANGED <<sent, readBy, pending, history, req>> PROVE \A q \in Req : JobOK(q)'
  BY <1>2, <1>4, AllKept DEF TypeOK
<1>5. ASSUME NEW n \in Note, Notify(n) PROVE \A q \in Req : JobOK(q)'
  BY <1>2, <1>5, AllKept DEF Notify, TypeOK
<1>6. ASSUME \/ \E u \in User : EndSession(u) \/ Deactivate(u)
             \/ \E k \in Key : WindowEnds(k)
             \/ UNCHANGED vars
      PROVE  \A q \in Req : JobOK(q)'
  <2>1. UNCHANGED <<sent, readBy, pending, history, req>>
    BY <1>6 DEF EndSession, Deactivate, WindowEnds, vars, stores
  <2> QED BY <1>4, <2>1
<1>7. \A q \in Req : JobOK(q)'  BY <1>3, <1>5, <1>6, EnterStep DEF Next
<1> QED BY <1>1, <1>7 DEF IInv
-----------------------------------------------------------------------------
(* Theorems                                                                *)
\* The invariant holds throughout.
THEOREM Invariance == Spec => []IInv
BY InitInv, NextInv, PTL DEF Spec

\* Types are right.
THEOREM TypeCorrect == Spec => []TypeOK
BY Invariance, PTL DEF IInv

\* The history has the status that the client got, also of requests that no
\* handler answered, and the user who was let in, and only him.
THEOREM HistorySafety == Spec => []HistoryMatchesAnswer
<1>1. IInv => HistoryMatchesAnswer
  BY DEF IInv, JobOK, RowOK, HistoryMatchesAnswer
<1> QED BY <1>1, Invariance, PTL

\* A 4xx has read nothing, a 200 has read what was asked for, and nobody
\* reads another's notifications.
THEOREM AnswerSafety == Spec => []AnswerTellsEffect
<1>1. IInv => AnswerTellsEffect
  BY DEF IInv, JobOK, EffectOK, AnswerTellsEffect, Done, Granted, Settled
<1> QED BY <1>1, Invariance, PTL

\* Read-all leaves nothing unread that was there before it.
THEOREM ReadAllSafety == Spec => []ReadAllCovers
<1>1. IInv => ReadAllCovers
  BY DEF IInv, JobOK, CoverOK, ReadAllCovers, Done, Granted, Later
<1> QED BY <1>1, Invariance, PTL

\* By no way through proxies and with no addresses of his own choosing does a
\* client get more than his share; an entry that is no address counts against
\* what all clients of the proxy share.
THEOREM LimitSafety == Spec => []AdmittedWithinLimit
<1>1. IInv => AdmittedWithinLimit  BY DEF IInv, LimitOK, AdmittedWithinLimit
<1> QED BY <1>1, Invariance, PTL
-----------------------------------------------------------------------------
(***************************************************************************)
(* DueNotification: its lock excludes, complete means sent, and what matched*)
(* all along is sent, for any number of runs, tasks and users, any TTL and *)
(* any chunk size.                                                         *)
(***************************************************************************)

\* ExclusiveRuns is not inductive: nothing in it says whose the lock is.  A
\* run at work within its TTL owns the lock, with the expiry it set.
LockIsOwn ==
  \A r \in Run : pc[r] \in Working =>
    /\ held[r]
    /\ now < since[r] + TTL => lock = r /\ lockExp = since[r] + TTL

JobIInv == JobTypeOK /\ LockIsOwn

\* What a page yields are notifications.
LEMMA PayloadsType ==
  ASSUME JobTypeOK, NEW o \in Nat
  PROVE  Payloads(Page(o)) \in SUBSET Notice
<1> SUFFICES ASSUME NEW t \in Page(o) PROVE <<assignee[t], t>> \in Notice
  BY DEF Payloads
<1>1. t \in Task /\ assignee[t] \in Recipient
  BY DEF JobTypeOK, Page
<1> QED BY <1>1 DEF Notice

\* The two labels Advance chooses from are labels.
LEMMA AdvanceType ==
  ASSUME JobTypeOK, NEW r \in Run, NEW label \in PC, Advance(r, label)
  PROVE  pc' \in [Run -> PC]
BY DEF JobTypeOK, Advance, PC

\* A call that cannot fail brings the run to its label.
LEMMA JumpType ==
  ASSUME JobTypeOK, NEW r \in Run, NEW label \in PC, Jump(r, label)
  PROVE  pc' \in [Run -> PC]
BY DEF JobTypeOK, Jump

\* A step that leaves the lock and the clock alone and puts no run to work
\* keeps LockIsOwn.
LEMMA LockKept ==
  ASSUME LockIsOwn, UNCHANGED <<now, lock, lockExp, held, since>>,
         \A r \in Run : pc'[r] \in Working => pc[r] \in Working
  PROVE  LockIsOwn'
BY DEF LockIsOwn

\* Before the first run nobody holds the lock.
LEMMA InitJob == JobInit => JobIInv
<1> SUFFICES ASSUME JobInit PROVE JobIInv
  OBVIOUS
<1>1. JobTypeOK
  BY NoRunAssumption DEF JobInit, JobTypeOK, Status, PC, Working, Notice
<1>2. LockIsOwn
  BY DEF JobInit, LockIsOwn, Working
<1> QED BY <1>1, <1>2 DEF JobIInv

\* Every step keeps the types.
LEMMA JobTypeStep ==
  ASSUME JobTypeOK, [JobNext]_jobVars
  PROVE  JobTypeOK'
<1> USE TimeAssumption, SizeAssumption
<1>1. ASSUME NEW r \in Run, Start(r) PROVE JobTypeOK'
  <2>1. pc' \in [Run -> PC]
    BY <1>1, AdvanceType DEF Start, PC
  <2>2. outcome' \in [Run -> Status]
    BY <1>1 DEF Start, JobTypeOK, Status
  <2> QED BY <1>1, <2>1, <2>2 DEF Start, JobTypeOK, taskVars, lockVars, readVars
<1>2. ASSUME NEW r \in Run, StartFails(r) PROVE JobTypeOK'
  <2>1. pc' \in [Run -> PC]
    BY <1>2, JumpType DEF StartFails, PC
  <2> QED BY <1>2, <2>1 DEF StartFails, JobTypeOK, taskVars, lockVars, readVars
<1>3. ASSUME NEW r \in Run, Acquire(r) PROVE JobTypeOK'
  <2>1. pc' \in [Run -> PC]
    BY <1>3, JumpType DEF Acquire, PC, Working
  <2>2. held' \in [Run -> BOOLEAN]
    BY <1>3 DEF Acquire, JobTypeOK
  <2>3. since' \in [Run -> Nat]
    BY <1>3 DEF Acquire, JobTypeOK
  <2>4. stable' \in [Run -> SUBSET Task]
    BY <1>3 DEF Acquire, JobTypeOK
  <2>5. lock' \in Run \cup {NoRun} /\ lockExp' \in Nat
    BY <1>3 DEF Acquire, JobTypeOK
  <2> QED BY <1>3, <2>1, <2>2, <2>3, <2>4, <2>5 DEF Acquire, JobTypeOK, taskVars
<1>4. ASSUME NEW r \in Run, AcquireRefused(r) PROVE JobTypeOK'
  <2>1. pc' \in [Run -> PC]
    BY <1>4, JumpType DEF AcquireRefused, PC
  <2> QED BY <1>4, <2>1 DEF AcquireRefused, JobTypeOK, taskVars, lockVars, readVars
<1>5. ASSUME NEW r \in Run, Skip(r) PROVE JobTypeOK'
  <2>1. pc' \in [Run -> PC]
    BY <1>5, AdvanceType DEF Skip, PC
  <2>2. outcome' \in [Run -> Status]
    BY <1>5 DEF Skip, JobTypeOK, Status
  <2> QED BY <1>5, <2>1, <2>2 DEF Skip, JobTypeOK, taskVars, lockVars, readVars
<1>6. ASSUME NEW r \in Run, ReadPage(r) PROVE JobTypeOK'
  <2> DEFINE new == Payloads(Page(offset[r]))
  <2>0. new \in SUBSET Notice
    BY PayloadsType DEF JobTypeOK
  <2> HIDE DEF new
  <2>1. pc' \in [Run -> PC]
    BY <1>6, JumpType DEF ReadPage, PC, Working, JobTypeOK
  <2>2. offset' \in [Run -> Nat]
    <3>1. offset' = offset \/ offset' = [offset EXCEPT ![r] = offset[r] + Chunk]
      BY <1>6 DEF ReadPage
    <3>2. offset[r] + Chunk \in Nat
      BY DEF JobTypeOK
    <3> QED BY <3>1, <3>2 DEF JobTypeOK
  <2>3. Append(pages[r], new) \in Seq(SUBSET Notice) /\ pages[r] \in Seq(SUBSET Notice)
    BY <2>0 DEF JobTypeOK
  <2>4. pages' \in [Run -> Seq(SUBSET Notice)]
    <3>1. \/ pages' = [pages EXCEPT ![r] = pages[r]]
          \/ pages' = [pages EXCEPT ![r] = Append(pages[r], new)]
      BY <1>6 DEF ReadPage, new
    <3> QED BY <3>1, <2>3 DEF JobTypeOK
  <2>5. picked' \in [Run -> SUBSET Notice]
    <3>1. picked' = [picked EXCEPT ![r] = picked[r] \cup new]
      BY <1>6 DEF ReadPage, new
    <3> QED BY <3>1, <2>0 DEF JobTypeOK
  <2> QED BY <1>6, <2>1, <2>2, <2>4, <2>5 DEF ReadPage, JobTypeOK, taskVars, lockVars
<1>7. ASSUME NEW r \in Run, InsertChunk(r) PROVE JobTypeOK'
  <2>1. pc' \in [Run -> PC]
    BY <1>7, AdvanceType DEF InsertChunk, PC, Working
  <2>2. Head(pages[r]) \in SUBSET Notice /\ Tail(pages[r]) \in Seq(SUBSET Notice)
    BY <1>7 DEF InsertChunk, JobTypeOK
  <2>3. notes' \subseteq Notice
    BY <1>7, <2>2 DEF InsertChunk, JobTypeOK
  <2>4. pages' \in [Run -> Seq(SUBSET Notice)]
    BY <1>7, <2>2 DEF InsertChunk, JobTypeOK
  <2> QED BY <1>7, <2>1, <2>3, <2>4 DEF InsertChunk, JobTypeOK, taskVars, lockVars
<1>8. ASSUME NEW r \in Run, AllInserted(r) PROVE JobTypeOK'
  <2>1. pc' \in [Run -> PC]
    BY <1>8, JumpType DEF AllInserted, PC, Working
  <2> QED BY <1>8, <2>1 DEF AllInserted, JobTypeOK, taskVars, lockVars, readVars
<1>9. ASSUME NEW r \in Run, Purge(r) PROVE JobTypeOK'
  <2>1. pc' \in [Run -> PC]
    BY <1>9, AdvanceType DEF Purge, PC, Working
  <2> QED BY <1>9, <2>1 DEF Purge, JobTypeOK, taskVars, lockVars, readVars
<1>10. ASSUME NEW r \in Run, Finish(r) PROVE JobTypeOK'
  <2>1. pc' \in [Run -> PC]
    BY <1>10, AdvanceType DEF Finish, PC
  <2>2. outcome' \in [Run -> Status]
    BY <1>10 DEF Finish, JobTypeOK, Status
  <2> QED BY <1>10, <2>1, <2>2 DEF Finish, JobTypeOK, taskVars, lockVars, readVars
<1>11. ASSUME NEW r \in Run, StepFails(r) PROVE JobTypeOK'
  <2>1. pc' \in [Run -> PC]
    BY <1>11, JumpType DEF StepFails, PC
  <2> QED BY <1>11, <2>1 DEF StepFails, JobTypeOK, taskVars, lockVars, readVars
<1>12. ASSUME NEW r \in Run, RecordFailure(r) PROVE JobTypeOK'
  <2>1. pc' \in [Run -> PC]
    BY <1>12, JumpType DEF RecordFailure, PC
  <2>2. outcome' \in [Run -> Status]
    BY <1>12 DEF RecordFailure, JobTypeOK, Status
  <2> QED BY <1>12, <2>1, <2>2 DEF RecordFailure, JobTypeOK, taskVars, lockVars, readVars
<1>13. ASSUME NEW r \in Run, Release(r) PROVE JobTypeOK'
  <2>1. pc' \in [Run -> PC]
    BY <1>13, JumpType DEF Release, PC
  <2>2. lock' \in Run \cup {NoRun}
    BY <1>13 DEF Release, JobTypeOK
  <2> QED BY <1>13, <2>1, <2>2 DEF Release, JobTypeOK, taskVars, readVars
<1>14. ASSUME NEW r \in Run, Crash(r) PROVE JobTypeOK'
  <2>1. pc' \in [Run -> PC]
    BY <1>14, JumpType DEF Crash, PC
  <2> QED BY <1>14, <2>1 DEF Crash, JobTypeOK, taskVars, lockVars, readVars
<1>15. ASSUME NEW r \in Run, Shutdown(r) PROVE JobTypeOK'
  <2>1. pc' \in [Run -> PC]
    BY <1>15, JumpType DEF Shutdown, PC
  <2> QED BY <1>15, <2>1 DEF Shutdown, JobTypeOK, taskVars, lockVars, readVars
<1>16. ASSUME NEW t \in Task, StopMatching(t) PROVE JobTypeOK'
  <2>1. stable' \in [Run -> SUBSET Task]
    BY <1>16 DEF StopMatching, JobTypeOK
  <2>2. departed' \subseteq Run /\ due' \subseteq Task /\ edits' \in Nat
    BY <1>16 DEF StopMatching, JobTypeOK, Reading
  <2> QED BY <1>16, <2>1, <2>2 DEF StopMatching, JobTypeOK, lockVars
<1>17. ASSUME NEW t \in Task, NEW u \in Recipient, StartMatching(t, u) PROVE JobTypeOK'
  <2>1. assignee' \in [Task -> Recipient]
    BY <1>17 DEF StartMatching, JobTypeOK
  <2>2. due' \subseteq Task /\ edits' \in Nat
    BY <1>17 DEF StartMatching, JobTypeOK
  <2> QED BY <1>17, <2>1, <2>2 DEF StartMatching, JobTypeOK, lockVars, readVars
<1>18. ASSUME Tick PROVE JobTypeOK'
  BY <1>18 DEF Tick, JobTypeOK, taskVars, lockVars, readVars
<1>19. ASSUME UNCHANGED jobVars PROVE JobTypeOK'
  BY <1>19 DEF jobVars, JobTypeOK, taskVars, lockVars, readVars
<1> QED
  BY <1>1, <1>2, <1>3, <1>4, <1>5, <1>6, <1>7, <1>8, <1>9, <1>10, <1>11,
     <1>12, <1>13, <1>14, <1>15, <1>16, <1>17, <1>18, <1>19 DEF JobNext, RunStep

\* Every step leaves each run at work the owner of its lock.
LEMMA LockStep ==
  ASSUME JobTypeOK, LockIsOwn, [JobNext]_jobVars
  PROVE  LockIsOwn'
<1> USE TimeAssumption, NoRunAssumption
<1>1. ASSUME NEW r \in Run,
             \/ Start(r) \/ StartFails(r) \/ AcquireRefused(r) \/ Skip(r) \/ ReadPage(r)
             \/ InsertChunk(r) \/ AllInserted(r) \/ Purge(r) \/ Finish(r)
             \/ StepFails(r) \/ RecordFailure(r) \/ Crash(r) \/ Shutdown(r)
      PROVE  LockIsOwn'
  <2>1. UNCHANGED <<now, lock, lockExp, held, since>>
    BY <1>1 DEF Start, StartFails, AcquireRefused, Skip, ReadPage, InsertChunk, AllInserted,
                Purge, Finish, StepFails, RecordFailure, Crash, Shutdown, lockVars
  <2>2. \A q \in Run : pc'[q] \in Working => pc[q] \in Working
    BY <1>1 DEF Start, StartFails, AcquireRefused, Skip, ReadPage, InsertChunk, AllInserted,
                Purge, Finish, StepFails, RecordFailure, Crash, Shutdown, Advance, Jump, Working, JobTypeOK
  <2> QED BY <2>1, <2>2, LockKept
<1>2. ASSUME NEW r \in Run, Acquire(r) PROVE LockIsOwn'
  <2> SUFFICES ASSUME NEW q \in Run, pc'[q] \in Working
               PROVE  /\ held'[q]
                      /\ now' < since'[q] + TTL => lock' = q /\ lockExp' = since'[q] + TTL
    BY DEF LockIsOwn
  <2>1. CASE q = r
    <3>1. pc' = [pc EXCEPT ![r] = "read"]
      BY <1>2, <2>1 DEF Acquire, Jump, Working, JobTypeOK
    <3>2. held' = [held EXCEPT ![r] = TRUE] /\ since' = [since EXCEPT ![r] = now]
      BY <1>2, <3>1 DEF Acquire, Jump, JobTypeOK
    <3>3. held'[q] /\ since'[q] = now
      BY <2>1, <3>2 DEF JobTypeOK
    <3> QED BY <1>2, <2>1, <3>3 DEF Acquire
  <2>2. CASE q # r
    <3>1. pc[q] \in Working /\ held'[q] = held[q] /\ since'[q] = since[q] /\ now' = now
      BY <1>2, <2>2 DEF Acquire, Jump, JobTypeOK
    <3>2. ~(now < since[q] + TTL)
      BY <1>2, <3>1 DEF Acquire, Held, LockIsOwn, JobTypeOK
    <3> QED BY <3>1, <3>2 DEF LockIsOwn
  <2> QED BY <2>1, <2>2
<1>3. ASSUME NEW r \in Run, Release(r) PROVE LockIsOwn'
  <2> SUFFICES ASSUME NEW q \in Run, pc'[q] \in Working
               PROVE  /\ held'[q]
                      /\ now' < since'[q] + TTL => lock' = q /\ lockExp' = since'[q] + TTL
    BY DEF LockIsOwn
  <2>1. q # r /\ pc[q] \in Working /\ UNCHANGED <<now, held, since, lockExp>>
    BY <1>3 DEF Release, Jump, Working, JobTypeOK
  <2>2. lock = q => lock' = q
    BY <1>3, <2>1 DEF Release
  <2> QED BY <2>1, <2>2 DEF LockIsOwn
<1>4. ASSUME NEW t \in Task, StopMatching(t) \/ \E u \in Recipient : StartMatching(t, u)
      PROVE  LockIsOwn'
  BY <1>4, LockKept DEF StopMatching, StartMatching, lockVars
<1>5. ASSUME Tick PROVE LockIsOwn'
  BY <1>5 DEF Tick, LockIsOwn, lockVars, JobTypeOK
<1>6. ASSUME UNCHANGED jobVars PROVE LockIsOwn'
  BY <1>6, LockKept DEF jobVars, lockVars
<1> QED BY <1>1, <1>2, <1>3, <1>4, <1>5, <1>6 DEF JobNext, RunStep

\* The invariant the results below rest on: types, and a run at work within
\* its TTL owns the Redis lock.
THEOREM JobInvariance == JobSpec => []JobIInv
<1>1. JobIInv /\ [JobNext]_jobVars => JobIInv'
  BY JobTypeStep, LockStep DEF JobIInv
<1> QED BY InitJob, <1>1, PTL DEF JobSpec

\* Every variable of the job keeps its type: batch_history takes only the
\* statuses its CHECK constraint admits, what is read are notifications.
THEOREM JobTypeCorrect == JobSpec => []JobTypeOK
<1>1. JobIInv => JobTypeOK
  BY DEF JobIInv
<1> QED BY JobInvariance, <1>1, PTL

\* Two runs of the job for one slot work at the same time only if one of
\* them has outlived the lock's TTL, whatever failed before.
THEOREM Exclusion == JobSpec => []ExclusiveRuns
<1>1. JobIInv => ExclusiveRuns
  BY DEF JobIInv, LockIsOwn, ExclusiveRuns, InTime
<1> QED BY JobInvariance, <1>1, PTL
-----------------------------------------------------------------------------
(***************************************************************************)
(* A complete run has sent what it read.                                   *)
(***************************************************************************)
Over == {"fail", "release", "done", "dead"}

\* What a run has read is committed or waits in one of its pages.
Pending ==
  \A r \in Run : pc[r] \in {"read", "insert"} =>
    \A n \in picked[r] : n \in notes \/ \E i \in 1..Len(pages[r]) : n \in pages[r][i]

\* A run has read nothing before it has the lock, and once its pages are used
\* up, everything is committed; a run that reported complete is at its end.
SentInv ==
  /\ \A r \in Run : pc[r] \in {"idle", "acquire"} => picked[r] = {}
  /\ Pending
  /\ \A r \in Run : pc[r] \in {"purge", "finish"} => picked[r] \subseteq notes
  /\ \A r \in Run : outcome[r] = "complete" => pc[r] \in Over
  /\ CompleteMeansSent

\* The moves of a run that neither read nor insert nor complete.
Move(from, to) ==
  \/ to = from
  \/ to \in Over
  \/ <<from, to>> \in {<<"idle", "acquire">>, <<"acquire", "read">>, <<"acquire", "skip">>,
                       <<"purge", "finish">>}

\* At the start no run has read anything.
LEMMA InitSent == JobInit => SentInv
BY DEF JobInit, SentInv, Pending, CompleteMeansSent

\* A step without reading, inserting or completing.
LEMMA MoveSent ==
  ASSUME SentInv, UNCHANGED <<notes, picked, pages>>,
         \A q \in Run : Move(pc[q], pc'[q]) /\ (outcome'[q] = "complete" => outcome[q] = "complete")
  PROVE  SentInv'
<1>1. \A q \in Run : /\ pc'[q] \in {"idle", "acquire"} => pc[q] \in {"idle", "acquire"}
                     /\ pc'[q] = "read" => pc[q] \in {"read", "acquire"}
                     /\ pc'[q] = "insert" => pc[q] = "insert"
                     /\ pc'[q] \in {"purge", "finish"} => pc[q] \in {"purge", "finish"}
                     /\ pc[q] \in Over => pc'[q] \in Over
  BY DEF Move, Over
<1>2. Pending'
  BY <1>1 DEF SentInv, Pending
<1> QED BY <1>1, <1>2 DEF SentInv, CompleteMeansSent

\* The steps of that kind.
LEMMA MoveSteps ==
  ASSUME JobTypeOK, NEW r \in Run,
         \/ Start(r) \/ StartFails(r) \/ Acquire(r) \/ AcquireRefused(r) \/ Skip(r)
         \/ Purge(r) \/ StepFails(r) \/ RecordFailure(r) \/ Release(r) \/ Crash(r) \/ Shutdown(r)
  PROVE  /\ UNCHANGED <<notes, picked, pages>>
         /\ \A q \in Run : /\ Move(pc[q], pc'[q])
                           /\ outcome'[q] = "complete" => outcome[q] = "complete"
<1>0. pc \in [Run -> PC] /\ outcome \in [Run -> Status]
  BY DEF JobTypeOK
<1>1. UNCHANGED <<notes, picked, pages>>
  BY DEF Start, StartFails, Acquire, AcquireRefused, Skip, Purge, StepFails, RecordFailure,
         Release, Crash, Shutdown, readVars
<1>2. PICK l \in PC : Jump(r, l) /\ Move(pc[r], l)
  BY DEF Start, StartFails, Acquire, AcquireRefused, Skip, Purge, StepFails, RecordFailure,
         Release, Crash, Shutdown, Advance, Jump, Move, Over, PC, Working
<1>3. \A q \in Run : Move(pc[q], pc'[q])
  BY <1>0, <1>2 DEF Jump, Move
<1>4. \A q \in Run : outcome'[q] = "complete" => outcome[q] = "complete"
  BY <1>0 DEF Start, StartFails, Acquire, AcquireRefused, Skip, Purge, StepFails, RecordFailure,
         Release, Crash, Shutdown
<1> QED BY <1>1, <1>3, <1>4

\* A page that is read waits at the end of the run's pages.
LEMMA ReadSent ==
  ASSUME JobTypeOK, SentInv, NEW r \in Run, ReadPage(r)
  PROVE  SentInv'
<1> DEFINE page == Page(offset[r])
           new == Payloads(page)
<1>0. /\ pc \in [Run -> PC] /\ picked \in [Run -> SUBSET Notice]
      /\ pages \in [Run -> Seq(SUBSET Notice)] /\ new \in SUBSET Notice
  BY PayloadsType DEF JobTypeOK
<1>1. /\ pc[r] = "read" /\ UNCHANGED <<notes, outcome>>
      /\ pages' = [pages EXCEPT ![r] = IF page = {} THEN pages[r] ELSE Append(pages[r], new)]
      /\ picked' = [picked EXCEPT ![r] = picked[r] \cup new]
      /\ pc' = [pc EXCEPT ![r] = "insert"] \/ pc' = pc
  BY DEF ReadPage, Jump
<1>2. page = {} => new = {}
  BY DEF Payloads
<1> HIDE DEF page, new
<1>3. ASSUME NEW n \in picked'[r]
      PROVE  n \in notes \/ \E i \in 1..Len(pages'[r]) : n \in pages'[r][i]
  <2>0. pages[r] \in Seq(SUBSET Notice) /\ Len(pages[r]) \in Nat
    BY <1>0
  <2>1. CASE n \in new
    <3>1. pages'[r] = Append(pages[r], new)
      BY <1>0, <1>1, <1>2, <2>1
    <3>2. Len(pages'[r]) = Len(pages[r]) + 1 /\ pages'[r][Len(pages[r]) + 1] = new
      BY <1>0, <2>0, <3>1
    <3> QED BY <2>0, <2>1, <3>2
  <2>2. CASE n \in picked[r] /\ n \notin notes
    <3>1. PICK i \in 1..Len(pages[r]) : n \in pages[r][i]
      BY <1>1, <2>2 DEF SentInv, Pending
    <3>2. CASE pages'[r] = pages[r]
      BY <3>1, <3>2
    <3>3. CASE pages'[r] = Append(pages[r], new)
      <4>1. Len(pages'[r]) = Len(pages[r]) + 1 /\ pages'[r][i] = pages[r][i]
        BY <1>0, <2>0, <3>1, <3>3
      <4> QED BY <2>0, <3>1, <4>1
    <3> QED BY <1>0, <1>1, <3>2, <3>3
  <2> QED BY <1>0, <1>1, <1>3, <2>1, <2>2
<1>4. \A q \in Run : q # r => /\ picked'[q] = picked[q] /\ pages'[q] = pages[q] /\ pc'[q] = pc[q]
  BY <1>0, <1>1
<1>5. pc'[r] \in {"read", "insert"}
  BY <1>0, <1>1
<1>6. Pending'
  <2> SUFFICES ASSUME NEW q \in Run, pc'[q] \in {"read", "insert"}, NEW n \in picked'[q]
               PROVE  n \in notes' \/ \E i \in 1..Len(pages'[q]) : n \in pages'[q][i]
    BY DEF Pending
  <2>1. CASE q = r
    BY <1>1, <1>3, <2>1
  <2>2. CASE q # r
    BY <1>1, <1>4, <2>2 DEF SentInv, Pending
  <2> QED BY <2>1, <2>2
<1>7. outcome[r] # "complete"
  BY <1>1 DEF SentInv, Over
<1>8. \A q \in Run : outcome'[q] = "complete" => pc'[q] \in Over /\ picked'[q] \subseteq notes'
  BY <1>1, <1>4, <1>7 DEF SentInv, CompleteMeansSent
<1>9. \A q \in Run : /\ pc'[q] \in {"idle", "acquire"} => picked'[q] = {}
                     /\ pc'[q] \in {"purge", "finish"} => picked'[q] \subseteq notes'
  BY <1>1, <1>4, <1>5 DEF SentInv
<1> QED BY <1>6, <1>8, <1>9 DEF SentInv, CompleteMeansSent

\* The first page of the run is committed, and leaves its pages.
LEMMA InsertSent ==
  ASSUME JobTypeOK, SentInv, NEW r \in Run, InsertChunk(r)
  PROVE  SentInv'
<1>0. /\ pc \in [Run -> PC] /\ pages \in [Run -> Seq(SUBSET Notice)]
      /\ pages[r] \in Seq(SUBSET Notice) /\ pages[r] # <<>>
  BY DEF JobTypeOK, InsertChunk
<1>1. /\ pc[r] = "insert" /\ UNCHANGED <<picked, outcome>>
      /\ notes' = notes \cup Head(pages[r])
      /\ pages' = [pages EXCEPT ![r] = Tail(pages[r])]
      /\ pc' = [pc EXCEPT ![r] = "insert"] \/ pc' = [pc EXCEPT ![r] = "fail"]
  BY DEF InsertChunk, Advance
<1>2. \A q \in Run : q # r => pages'[q] = pages[q] /\ pc'[q] = pc[q]
  BY <1>0, <1>1
<1>3. pc'[r] \in {"insert", "fail"} /\ pages'[r] = Tail(pages[r])
  BY <1>0, <1>1
<1>4. ASSUME NEW n \in picked[r]
      PROVE  n \in notes' \/ \E i \in 1..Len(pages'[r]) : n \in pages'[r][i]
  <2>1. CASE n \in notes
    BY <1>1, <2>1
  <2>2. ASSUME NEW i \in 1..Len(pages[r]), n \in pages[r][i]
        PROVE  n \in notes' \/ \E k \in 1..Len(pages'[r]) : n \in pages'[r][k]
    <3>1. CASE i = 1
      BY <1>0, <1>1, <2>2, <3>1
    <3>2. CASE i # 1
      <4>1. /\ i - 1 \in 1..Len(Tail(pages[r])) /\ Tail(pages[r])[i - 1] = pages[r][i]
        BY <1>0, <3>2
      <4> QED BY <1>3, <2>2, <4>1
    <3> QED BY <3>1, <3>2
  <2> QED BY <1>1, <2>1, <2>2 DEF SentInv, Pending
<1>5. Pending'
  <2> SUFFICES ASSUME NEW q \in Run, pc'[q] \in {"read", "insert"}, NEW n \in picked[q]
               PROVE  n \in notes' \/ \E i \in 1..Len(pages'[q]) : n \in pages'[q][i]
    BY <1>1 DEF Pending
  <2>1. CASE q = r
    BY <1>4, <2>1
  <2>2. CASE q # r
    BY <1>1, <1>2, <2>2 DEF SentInv, Pending
  <2> QED BY <2>1, <2>2
<1>6. outcome[r] # "complete"
  BY <1>1 DEF SentInv, Over
<1>7. \A q \in Run : outcome'[q] = "complete" => pc'[q] \in Over /\ picked'[q] \subseteq notes'
  BY <1>1, <1>2, <1>6 DEF SentInv, CompleteMeansSent
<1>8. \A q \in Run : /\ pc'[q] \in {"idle", "acquire"} => picked'[q] = {}
                     /\ pc'[q] \in {"purge", "finish"} => picked'[q] \subseteq notes'
  BY <1>1, <1>2, <1>3 DEF SentInv
<1> QED BY <1>5, <1>7, <1>8 DEF SentInv, CompleteMeansSent

\* No page is left: everything read is committed.  complete() reports it.
LEMMA EndSent ==
  ASSUME JobTypeOK, SentInv, NEW r \in Run, AllInserted(r) \/ Finish(r)
  PROVE  SentInv'
<1>0. pc \in [Run -> PC] /\ outcome \in [Run -> Status] /\ UNCHANGED <<notes, picked, pages>>
  BY DEF JobTypeOK, AllInserted, Finish, readVars
<1>1. picked[r] \subseteq notes
  BY DEF AllInserted, Finish, SentInv, Pending
<1>2. \A q \in Run : q # r => pc'[q] = pc[q] /\ outcome'[q] = outcome[q]
  BY <1>0 DEF AllInserted, Finish, Advance, Jump
<1>3. /\ pc'[r] \in {"purge"} \cup Over
      /\ outcome'[r] = "complete" => pc'[r] \in Over
  <2>1. CASE AllInserted(r)
    BY <1>0, <2>1 DEF AllInserted, Jump, SentInv, Over
  <2>2. CASE Finish(r)
    BY <1>0, <2>2 DEF Finish, Advance, Over
  <2> QED BY <2>1, <2>2
<1>4. Pending'
  BY <1>0, <1>2, <1>3 DEF SentInv, Pending, Over
<1>5. \A q \in Run : outcome'[q] = "complete" => pc'[q] \in Over /\ picked'[q] \subseteq notes'
  BY <1>0, <1>1, <1>2, <1>3 DEF SentInv, CompleteMeansSent
<1>6. \A q \in Run : /\ pc'[q] \in {"idle", "acquire"} => picked'[q] = {}
                     /\ pc'[q] \in {"purge", "finish"} => picked'[q] \subseteq notes'
  BY <1>0, <1>1, <1>2, <1>3 DEF SentInv, Over
<1> QED BY <1>4, <1>5, <1>6 DEF SentInv, CompleteMeansSent

\* Every step keeps SentInv.
LEMMA NextSent ==
  ASSUME JobTypeOK, SentInv, [JobNext]_jobVars
  PROVE  SentInv'
<1>1. ASSUME UNCHANGED <<notes, picked, pages, pc, outcome>> PROVE SentInv'
  BY <1>1, MoveSent DEF Move
<1>2. ASSUME NEW t \in Task, StopMatching(t) \/ \E u \in Recipient : StartMatching(t, u) PROVE SentInv'
  BY <1>1, <1>2 DEF StopMatching, StartMatching, readVars
<1>3. CASE Tick \/ UNCHANGED jobVars
  BY <1>1, <1>3 DEF Tick, jobVars, readVars
<1> QED BY <1>2, <1>3, MoveSteps, MoveSent, ReadSent, InsertSent, EndSent DEF JobNext, RunStep

\* A run that reports complete has had every notification it read committed,
\* whichever chunks failed, and whatever other runs did.
THEOREM SentSafety == JobSpec => []CompleteMeansSent
<1>1. SentInv => CompleteMeansSent
  BY DEF SentInv
<1>2. JobTypeOK /\ SentInv /\ [JobNext]_jobVars => SentInv'
  BY NextSent
<1> QED BY JobTypeCorrect, InitSent, <1>1, <1>2, PTL DEF JobSpec
-----------------------------------------------------------------------------
(***************************************************************************)
(* Paging: a page that is not full is the last one.                        *)
(***************************************************************************)

\* The place of a task in ORDER BY id.
Rank(D, t) == Cardinality({x \in D : x < t})

\* A set of natural numbers has a least element.
LEMMA LeastExists ==
  ASSUME NEW S \in SUBSET Nat, S # {}
  PROVE  \E m \in S : \A x \in S : m <= x
<1>1. PICK m \in S : \A y \in S : ~(<<y, m>> \in OpToRel(<, Nat))
  BY WFMin, NatLessThanWellFounded
<1>2. \A y \in S : ~(y < m)
  BY <1>1 DEF OpToRel
<1> QED BY <1>2

\* A bounded one has a greatest element.
LEMMA GreatestExists ==
  ASSUME NEW n \in Nat, NEW S \in SUBSET (1..n), S # {}
  PROVE  \E m \in S : \A x \in S : x <= m
<1> DEFINE U == {k \in Nat : \A x \in S : x <= k}
<1>1. n \in U /\ U \in SUBSET Nat
  OBVIOUS
<1>2. PICK m \in U : \A k \in U : m <= k
  BY <1>1, LeastExists
<1>3. m \in Nat /\ \A x \in S : x <= m
  BY <1>2
<1>4. ASSUME m \notin S PROVE FALSE
  <2>0. PICK z \in S : TRUE
    OBVIOUS
  <2>1. m - 1 \in Nat
    <3>1. z \in 1..n /\ z <= m
      BY <1>3, <2>0
    <3> QED BY <1>3, <3>1
  <2>2. \A x \in S : x <= m - 1
    BY <1>3, <1>4
  <2>3. m - 1 \in U
    BY <2>1, <2>2
  <2> QED BY <1>2, <1>3, <2>1, <2>3
<1> QED BY <1>3, <1>4

\* The tasks a query matches are finite in number, and so are ranks.
LEMMA RankType ==
  ASSUME NEW D \in SUBSET Task
  PROVE  /\ IsFiniteSet(D)
         /\ \A E \in SUBSET D : IsFiniteSet(E) /\ Cardinality(E) \in Nat
         /\ \A t : Rank(D, t) \in Nat
<1>1. IsFiniteSet(Task)
  BY FS_Interval, SizeAssumption DEF Task
<1>2. IsFiniteSet(D)
  BY <1>1, FS_Subset
<1>3. \A E \in SUBSET D : IsFiniteSet(E) /\ Cardinality(E) \in Nat
  BY <1>2, FS_Subset, FS_CardinalityType
<1>4. \A t : {x \in D : x < t} \in SUBSET D
  OBVIOUS
<1> QED BY <1>2, <1>3, <1>4 DEF Rank

\* At most o tasks have a rank below o.
LEMMA FewBelow ==
  ASSUME NEW D \in SUBSET Task, NEW o \in Nat
  PROVE  Cardinality({x \in D : Rank(D, x) < o}) <= o
<1> DEFINE L == {x \in D : Rank(D, x) < o}
<1>1. CASE L = {}
  BY <1>1, FS_EmptySet
<1>2. CASE L # {}
  <2>0. L \in SUBSET (1..NTasks) /\ NTasks \in Nat
    BY SizeAssumption DEF Task
  <2> HIDE DEF L
  <2>1. PICK m \in L : \A x \in L : x <= m
    BY <1>2, <2>0, GreatestExists
  <2> DEFINE B == {x \in D : x < m}
  <2>2. m \in D /\ Rank(D, m) < o /\ L \subseteq D
    BY <2>1 DEF L
  <2>3. L \subseteq B \cup {m}
    BY <2>0, <2>1, <2>2
  <2>4. IsFiniteSet(B) /\ Cardinality(B) = Rank(D, m) /\ Rank(D, m) \in Nat
    BY RankType DEF Rank
  <2>5. m \notin B
    BY <2>0, <2>1
  <2> HIDE DEF B
  <2>6. IsFiniteSet(B \cup {m}) /\ Cardinality(B \cup {m}) = Rank(D, m) + 1
    BY <2>4, <2>5, FS_AddElement
  <2>7. Cardinality(L) <= Rank(D, m) + 1 /\ Cardinality(L) \in Nat
    BY <2>2, <2>3, <2>6, FS_Subset, RankType
  <2> QED BY <2>2, <2>4, <2>7 DEF L
<1> QED BY <1>1, <1>2

\* If a task has a rank of n or more, at least n tasks have a lower rank.
LEMMA ManyBelow ==
  ASSUME NEW D \in SUBSET Task, NEW n \in Nat, NEW t \in D, Rank(D, t) >= n
  PROVE  Cardinality({x \in D : Rank(D, x) < n}) >= n
<1> DEFINE M == {x \in D : Rank(D, x) < n}
           R == {x \in D : Rank(D, x) >= n}
<1>1. R \in SUBSET Nat /\ R # {}
  <2>1. D \subseteq Nat
    BY SizeAssumption DEF Task
  <2>2. t \in R
    OBVIOUS
  <2> QED BY <2>1, <2>2
<1>2. PICK m \in R : \A x \in R : m <= x
  BY <1>1, LeastExists
<1> DEFINE B == {x \in D : x < m}
<1>3. B \subseteq M
  <2> SUFFICES ASSUME NEW x \in D, x < m PROVE Rank(D, x) < n
    OBVIOUS
  <2>1. x \in Nat /\ m \in Nat /\ Rank(D, x) \in Nat
    BY <1>1, <1>2, RankType DEF Task
  <2>2. x \notin R
    BY <1>2, <2>1
  <2> QED BY <2>1, <2>2
<1>4. Cardinality(B) = Rank(D, m) /\ Rank(D, m) >= n /\ Rank(D, m) \in Nat
  BY <1>2, RankType DEF Rank
<1>5. M \in SUBSET D
  OBVIOUS
<1> HIDE DEF B, M, R
<1>6. IsFiniteSet(M) /\ Cardinality(M) \in Nat /\ Cardinality(B) <= Cardinality(M)
  BY <1>3, <1>5, RankType, FS_Subset
<1>7. Cardinality(M) >= n
  BY <1>4, <1>6
<1> QED BY <1>7 DEF M

\* LIMIT Chunk OFFSET o: a page that is not full has no task after it.
LEMMA ShortPageIsLast ==
  ASSUME JobTypeOK, NEW o \in Nat, Cardinality(Page(o)) < Chunk, NEW t \in due
  PROVE  Rank(due, t) < o + Chunk
<1> DEFINE L == {x \in due : Rank(due, x) < o}
           M == {x \in due : Rank(due, x) < o + Chunk}
<1>0. due \in SUBSET Task /\ Chunk \in Nat /\ o + Chunk \in Nat /\ Rank(due, t) \in Nat
  <2>1. due \in SUBSET Task
    BY DEF JobTypeOK
  <2>2. Rank(due, t) \in Nat
    BY <2>1, RankType
  <2>3. Chunk \in Nat /\ o + Chunk \in Nat
    BY SizeAssumption
  <2> QED BY <2>1, <2>2, <2>3
<1>1. \A x \in due : Rank(due, x) \in Nat
  BY <1>0, RankType
<1>2. Page(o) = M \ L /\ M \cap L = L
  <2>1. \A x \in due : x \in Page(o) <=> o <= Rank(due, x) /\ Rank(due, x) < o + Chunk
    BY DEF Page, Rank
  <2>2. \A x \in due : Rank(due, x) < o => Rank(due, x) < o + Chunk
    BY <1>0, <1>1
  <2>3. \A x \in due : ~(Rank(due, x) < o) <=> o <= Rank(due, x)
    BY <1>1
  <2>4. Page(o) \subseteq due
    BY DEF Page
  <2> QED BY <2>1, <2>2, <2>3, <2>4
<1>3. SUFFICES ASSUME Rank(due, t) >= o + Chunk PROVE FALSE
  BY <1>0
<1>4. Cardinality(M) >= o + Chunk
  BY <1>0, <1>3, ManyBelow
<1>5. Cardinality(L) <= o
  BY <1>0, FewBelow
<1>6. M \in SUBSET due /\ L \in SUBSET due
  OBVIOUS
<1> HIDE DEF L, M
<1>7. IsFiniteSet(M) /\ Cardinality(M) \in Nat /\ Cardinality(L) \in Nat
  BY <1>0, <1>6, RankType
<1>8. Cardinality(M \ L) = Cardinality(M) - Cardinality(L)
  BY <1>2, <1>7, FS_Difference
<1> QED BY <1>0, <1>2, <1>4, <1>5, <1>7, <1>8

\* A task that starts to match moves the others back, never forward.
LEMMA RankGrows ==
  ASSUME NEW D \in SUBSET Task, NEW E \in SUBSET Task, D \subseteq E, NEW t
  PROVE  Rank(D, t) <= Rank(E, t)
<1>1. {x \in D : x < t} \subseteq {x \in E : x < t} /\ {x \in E : x < t} \in SUBSET E
  OBVIOUS
<1>2. IsFiniteSet({x \in E : x < t})
  BY <1>1, RankType
<1> QED BY <1>1, <1>2, FS_Subset DEF Rank
-----------------------------------------------------------------------------
(***************************************************************************)
(* A complete run has notified the tasks that matched throughout.          *)
(***************************************************************************)
Covered(r, t) == \E u \in Recipient : <<u, t>> \in picked[r]

\* While a run reads, a task that has matched ever since is still ahead of it
\* or has been read; ranks only grow as long as no task stops matching.
AheadOrRead ==
  \A r \in Run \ departed : pc[r] = "read" =>
    \A t \in stable[r] : t \in due /\ (Rank(due, t) >= offset[r] \/ Covered(r, t))

\* After the last page all of them have been read.
AllRead ==
  \A r \in Run \ departed : pc[r] \in {"insert", "purge", "finish"} \/ outcome[r] = "complete" =>
    \A t \in stable[r] : Covered(r, t)

StableInv ==
  /\ \A r \in Run : pc[r] \in {"idle", "acquire"} => offset[r] = 0
  /\ AheadOrRead
  /\ AllRead

\* At the start no run reads.
LEMMA InitStable == JobInit => StableInv
BY DEF JobInit, StableInv, AheadOrRead, AllRead

AfterRead == {"insert", "purge", "finish"}

\* The moves of a run that do not read.
Onward(from, to) ==
  \/ to = from
  \/ to \in Over \cup {"skip"}
  \/ from = "idle" /\ to = "acquire"
  \/ from \in AfterRead /\ to \in AfterRead

\* A step that leaves the query's result and what was read alone.
LEMMA MoveStable ==
  ASSUME StableInv, UNCHANGED <<due, offset, picked, stable, departed>>,
         \A q \in Run : Onward(pc[q], pc'[q]),
         \A q \in Run : outcome'[q] = "complete" => outcome[q] = "complete" \/ pc[q] = "finish"
  PROVE  StableInv'
<1>1. \A q \in Run : /\ pc'[q] \in {"idle", "acquire"} => pc[q] \in {"idle", "acquire"}
                     /\ pc'[q] = "read" => pc[q] = "read"
                     /\ pc'[q] \in {"insert", "purge", "finish"} => pc[q] \in {"insert", "purge", "finish"}
  BY DEF Over, Onward, AfterRead
<1>2. AheadOrRead'
  BY <1>1 DEF StableInv, AheadOrRead, Covered
<1>3. AllRead'
  BY <1>1 DEF StableInv, AllRead, Covered
<1> QED BY <1>1, <1>2, <1>3 DEF StableInv

\* The steps of that kind.
LEMMA MoveStableSteps ==
  ASSUME JobTypeOK, StableInv, NEW r \in Run,
         \/ Start(r) \/ StartFails(r) \/ AcquireRefused(r) \/ Skip(r) \/ InsertChunk(r)
         \/ AllInserted(r) \/ Purge(r) \/ Finish(r)
         \/ StepFails(r) \/ RecordFailure(r) \/ Release(r) \/ Crash(r) \/ Shutdown(r)
  PROVE  StableInv'
<1>0. pc \in [Run -> PC] /\ outcome \in [Run -> Status]
  BY DEF JobTypeOK
<1>1. UNCHANGED <<due, offset, picked, stable, departed>>
  BY DEF Start, StartFails, AcquireRefused, Skip, InsertChunk, AllInserted, Purge, Finish,
         StepFails, RecordFailure, Release, Crash, Shutdown, readVars, taskVars
<1>2. PICK l \in PC : pc' = [pc EXCEPT ![r] = l] /\ Onward(pc[r], l)
  BY DEF Start, StartFails, AcquireRefused, Skip, InsertChunk, AllInserted, Purge, Finish,
         StepFails, RecordFailure, Release, Crash, Shutdown, Advance, Jump, Over, PC, Working, Onward, AfterRead
<1>3. \A q \in Run : outcome'[q] = "complete" => outcome[q] = "complete" \/ pc[q] = "finish"
  BY <1>0 DEF Start, StartFails, AcquireRefused, Skip, InsertChunk, AllInserted, Purge, Finish,
         StepFails, RecordFailure, Release, Crash, Shutdown
<1>4. \A q \in Run : Onward(pc[q], pc'[q])
  BY <1>0, <1>2 DEF Onward
<1> QED BY <1>1, <1>3, <1>4, MoveStable

\* A run that gets the lock has everything ahead of it.
LEMMA AcquireStable ==
  ASSUME JobTypeOK, SentInv, StableInv, NEW r \in Run, Acquire(r)
  PROVE  StableInv'
<1>0. /\ pc \in [Run -> PC] /\ stable \in [Run -> SUBSET Task] /\ pc[r] = "acquire"
      /\ offset[r] = 0 /\ outcome[r] # "complete" /\ due \in SUBSET Task
  BY DEF JobTypeOK, Acquire, StableInv, SentInv, Over
<1>1. UNCHANGED <<due, offset, picked, departed, outcome>>
  BY DEF Acquire, taskVars
<1>2. CASE Jump(r, "fail") /\ UNCHANGED stable
  <2>1. \A q \in Run : Onward(pc[q], pc'[q])
    BY <1>0, <1>2 DEF Jump, Over, Onward
  <2> QED BY <1>1, <1>2, <2>1, MoveStable
<1>3. CASE Jump(r, "read") /\ stable' = [stable EXCEPT ![r] = due]
  <2>1. \A q \in Run : q # r => pc'[q] = pc[q] /\ stable'[q] = stable[q]
    BY <1>0, <1>3 DEF Jump
  <2>2. pc'[r] = "read" /\ stable'[r] = due
    BY <1>0, <1>3 DEF Jump
  <2>3. \A t \in due : Rank(due, t) >= offset[r]
    BY <1>0, RankType
  <2>4. AheadOrRead'
    BY <1>1, <2>1, <2>2, <2>3 DEF StableInv, AheadOrRead, Covered
  <2>5. AllRead'
    BY <1>0, <1>1, <2>1, <2>2 DEF StableInv, AllRead, Covered
  <2> QED BY <1>1, <2>1, <2>2, <2>4, <2>5 DEF StableInv
<1> QED BY <1>2, <1>3 DEF Acquire

\* A page takes the tasks that are next; a short one takes all that are left.
LEMMA ReadStable ==
  ASSUME JobTypeOK, SentInv, StableInv, NEW r \in Run, ReadPage(r)
  PROVE  StableInv'
<1> DEFINE o == offset[r]
           new == Payloads(Page(o))
<1>0. /\ pc \in [Run -> PC] /\ picked \in [Run -> SUBSET Notice] /\ offset \in [Run -> Nat]
      /\ o \in Nat /\ Chunk \in Nat /\ assignee \in [Task -> Recipient] /\ due \in SUBSET Task
      /\ pc[r] = "read" /\ outcome[r] # "complete"
  BY SizeAssumption DEF JobTypeOK, ReadPage, SentInv, Over
<1>1. /\ UNCHANGED <<due, stable, departed, outcome>>
      /\ picked' = [picked EXCEPT ![r] = picked[r] \cup new]
  BY DEF ReadPage, taskVars
<1>2. \/ Cardinality(Page(o)) < Chunk /\ pc' = [pc EXCEPT ![r] = "insert"] /\ offset' = offset
      \/ pc' = pc /\ offset' = [offset EXCEPT ![r] = o + Chunk]
  BY DEF ReadPage, Jump
<1>3. \A q \in Run : q # r => pc'[q] = pc[q] /\ offset'[q] = offset[q] /\ picked'[q] = picked[q]
  BY <1>0, <1>1, <1>2
<1>4. picked'[r] = picked[r] \cup new
  BY <1>0, <1>1
<1>5. ASSUME NEW t \in due, Rank(due, t) >= o, Rank(due, t) < o + Chunk PROVE Covered(r, t)'
  <2>1. t \in Page(o)
    BY <1>5 DEF Page, Rank
  <2>2. <<assignee[t], t>> \in new /\ assignee[t] \in Recipient
    BY <1>0, <2>1 DEF Payloads
  <2> QED BY <1>4, <2>2 DEF Covered
<1>6. \A t : Covered(r, t) => Covered(r, t)'
  BY <1>4 DEF Covered
<1>7. r \notin departed => \A t \in stable[r] : t \in due /\ (Rank(due, t) >= o \/ Covered(r, t))
  BY <1>0 DEF StableInv, AheadOrRead
<1>8. \A t \in due : Rank(due, t) \in Nat
  BY <1>0, RankType
<1> HIDE DEF new
<1>9. \A q \in Run : q # r => \A t : Covered(q, t)' <=> Covered(q, t)
  BY <1>3 DEF Covered
<1>10. ASSUME Cardinality(Page(o)) < Chunk, pc'[r] = "insert" PROVE AheadOrRead' /\ AllRead'
  <2>1. \A t \in due : Rank(due, t) < o + Chunk
    BY <1>0, <1>10, ShortPageIsLast
  <2>2. r \notin departed => \A t \in stable[r] : Covered(r, t)'
    BY <1>5, <1>6, <1>7, <2>1
  <2>3. AheadOrRead'
    <3> SUFFICES ASSUME NEW q \in Run \ departed, pc'[q] = "read", NEW t \in stable[q]
                 PROVE  t \in due /\ (Rank(due, t) >= offset'[q] \/ Covered(q, t)')
      BY <1>1 DEF AheadOrRead, Covered
    <3>1. q # r
      BY <1>10
    <3> QED BY <1>3, <1>9, <3>1 DEF StableInv, AheadOrRead
  <2>4. AllRead'
    <3> SUFFICES ASSUME NEW q \in Run \ departed,
                        pc'[q] \in {"insert", "purge", "finish"} \/ outcome[q] = "complete",
                        NEW t \in stable[q]
                 PROVE  Covered(q, t)'
      BY <1>1 DEF AllRead, Covered
    <3>1. CASE q = r
      BY <2>2, <3>1
    <3>2. CASE q # r
      BY <1>3, <1>9, <3>2 DEF StableInv, AllRead
    <3> QED BY <3>1, <3>2
  <2> QED BY <2>3, <2>4
<1>11. ASSUME pc'[r] = "read", offset'[r] = o + Chunk PROVE AheadOrRead' /\ AllRead'
  <2>1. ASSUME r \notin departed, NEW t \in stable[r]
        PROVE  t \in due /\ (Rank(due, t) >= o + Chunk \/ Covered(r, t)')
    <3>1. t \in due /\ (Rank(due, t) >= o \/ Covered(r, t)) /\ Rank(due, t) \in Nat
      BY <1>7, <1>8, <2>1
    <3>2. CASE Rank(due, t) >= o /\ Rank(due, t) < o + Chunk
      BY <1>5, <3>1, <3>2
    <3>3. CASE Covered(r, t)
      BY <1>6, <3>1, <3>3
    <3>4. CASE ~(Rank(due, t) < o + Chunk)
      BY <1>0, <3>1, <3>4
    <3> QED BY <3>1, <3>2, <3>3, <3>4
  <2>2. AheadOrRead'
    <3> SUFFICES ASSUME NEW q \in Run \ departed, pc'[q] = "read", NEW t \in stable[q]
                 PROVE  t \in due /\ (Rank(due, t) >= offset'[q] \/ Covered(q, t)')
      BY <1>1 DEF AheadOrRead, Covered
    <3>1. CASE q = r
      BY <1>11, <2>1, <3>1
    <3>2. CASE q # r
      BY <1>3, <1>9, <3>2 DEF StableInv, AheadOrRead
    <3> QED BY <3>1, <3>2
  <2>3. AllRead'
    <3> SUFFICES ASSUME NEW q \in Run \ departed,
                        pc'[q] \in {"insert", "purge", "finish"} \/ outcome[q] = "complete",
                        NEW t \in stable[q]
                 PROVE  Covered(q, t)'
      BY <1>1 DEF AllRead, Covered
    <3>1. q # r
      BY <1>0, <1>11
    <3> QED BY <1>3, <1>9, <3>1 DEF StableInv, AllRead
  <2> QED BY <2>2, <2>3
<1>12. AheadOrRead' /\ AllRead'
  <2>1. CASE Cardinality(Page(o)) < Chunk /\ pc' = [pc EXCEPT ![r] = "insert"]
    BY <1>0, <1>10, <2>1
  <2>2. CASE pc' = pc /\ offset' = [offset EXCEPT ![r] = o + Chunk]
    BY <1>0, <1>11, <2>2
  <2> QED BY <1>2, <2>1, <2>2
<1>13. \A q \in Run : pc'[q] \in {"idle", "acquire"} => offset'[q] = 0
  <2>1. pc'[r] \in {"read", "insert"}
    BY <1>0, <1>2
  <2> QED BY <1>3, <2>1 DEF StableInv
<1> QED BY <1>12, <1>13 DEF StableInv

\* A task that stops matching disqualifies the runs that read at that time.
LEMMA StopStable ==
  ASSUME JobTypeOK, StableInv, NEW t \in Task, StopMatching(t)
  PROVE  StableInv'
<1>1. /\ departed' = departed \cup Reading
      /\ stable' = [r \in Run |-> IF r \in Reading THEN stable[r] \ {t} ELSE stable[r]]
      /\ UNCHANGED <<outcome, pc, offset, picked>>
  BY DEF StopMatching
<1>2. \A q \in Run \ departed' : q \notin departed /\ pc[q] # "read" /\ stable'[q] = stable[q]
  BY <1>1 DEF Reading
<1>3. AheadOrRead'
  BY <1>1, <1>2 DEF AheadOrRead
<1>4. AllRead'
  BY <1>1, <1>2 DEF StableInv, AllRead, Covered
<1> QED BY <1>1, <1>3, <1>4 DEF StableInv

\* A task that starts matching leaves what is ahead of a run ahead of it.
LEMMA StartStable ==
  ASSUME JobTypeOK, StableInv, NEW t \in Task, NEW u \in Recipient, StartMatching(t, u)
  PROVE  StableInv'
<1>1. due' = due \cup {t} /\ UNCHANGED <<outcome, pc, offset, picked, stable, departed>>
  BY DEF StartMatching, readVars
<1>2. due \in SUBSET Task /\ due' \in SUBSET Task /\ due \subseteq due' /\ offset \in [Run -> Nat]
  BY <1>1 DEF JobTypeOK
<1>3. \A x : /\ Rank(due, x) <= Rank(due', x)
             /\ Rank(due, x) \in Nat /\ Rank(due', x) \in Nat
  BY <1>2, RankGrows, RankType
<1>4. AheadOrRead'
  <2> SUFFICES ASSUME NEW q \in Run \ departed, pc[q] = "read", NEW x \in stable[q]
               PROVE  x \in due' /\ (Rank(due', x) >= offset[q] \/ Covered(q, x))
    BY <1>1 DEF AheadOrRead, Covered, Rank
  <2>1. x \in due /\ (Rank(due, x) >= offset[q] \/ Covered(q, x)) /\ offset[q] \in Nat
    BY <1>2 DEF StableInv, AheadOrRead
  <2> QED BY <1>2, <1>3, <2>1
<1>5. AllRead'
  BY <1>1 DEF StableInv, AllRead, Covered
<1> QED BY <1>1, <1>4, <1>5 DEF StableInv

\* Every step keeps StableInv.
LEMMA NextStable ==
  ASSUME JobTypeOK, SentInv, StableInv, [JobNext]_jobVars
  PROVE  StableInv'
<1>1. CASE Tick \/ UNCHANGED jobVars
  <2>1. UNCHANGED <<due, offset, picked, stable, departed, pc, outcome>>
    BY <1>1 DEF Tick, jobVars, taskVars, readVars
  <2>2. \A q \in Run : Onward(pc[q], pc'[q])
    BY <2>1 DEF Onward
  <2> QED BY <2>1, <2>2, MoveStable
<1> QED BY <1>1, MoveStableSteps, AcquireStable, ReadStable, StopStable, StartStable
        DEF JobNext, RunStep

\* A complete run has notified every task that matched while it read, if none
\* stopped matching meanwhile, for every number of tasks and chunk size:
\* paging by offset passes over no task of a result that only grows.
THEOREM StableCovered == JobSpec => []CompleteCoversStable
<1>1. SentInv /\ StableInv => CompleteCoversStable
  BY DEF SentInv, StableInv, AllRead, CompleteMeansSent, CompleteCoversStable, Covered, Notified
<1>2. JobTypeOK /\ SentInv /\ [JobNext]_jobVars => SentInv'
  BY NextSent
<1>3. JobTypeOK /\ SentInv /\ StableInv /\ [JobNext]_jobVars => StableInv'
  BY NextStable
<1> QED BY JobTypeCorrect, InitSent, InitStable, <1>1, <1>2, <1>3, PTL DEF JobSpec
=============================================================================
