-------------------------- MODULE EmailVerification --------------------------
(***************************************************************************)
(* Registration and the confirmation of the address: register of           *)
(* service/auth_service.py, issue_email_verify_token, resend_verification  *)
(* and verify_email of service/email_verification_service.py, the keys     *)
(* emailverify, emailverify_current and emailverify_sent of Redis and the  *)
(* confirmation mail.                                                      *)
(*                                                                         *)
(* An account is what a registration asks for: a user name and an address. *)
(* A Redis command or MULTI/EXEC, a lookup, an INSERT and a COMMIT are one *)
(* step each. Both token keys of one EXEC get the same lifetime and expire *)
(* together; that lifetime (24 hours) is longer than any request.          *)
(***************************************************************************)
EXTENDS FiniteSets

CONSTANTS Account, NameOf, MailOf, Req, Token, NoAccount, NoToken

ASSUME NoneAssumption == NoAccount \notin Account /\ NoToken \notin Token

VARIABLES
  rows,      \* committed rows of users
  pending,   \* rows inserted by transactions that are still open
  verified,  \* users.email_verified_at IS NOT NULL
  live,      \* emailverify:{hash} keys
  owner,     \* the user_id in the value of such a key
  current,   \* emailverify_current:{user_id}
  marker,    \* emailverify_sent:{user_id} keys
  inbox,     \* tokens in delivered mails
  req,       \* requests
  raced,     \* ghost: accounts for which two replacements overlapped
  superseded,\* ghost: tokens that a later one replaced
  spent      \* ghost: tokens that verified their user or were not put back

db == <<rows, pending, verified>>
keys == <<live, owner, current, marker>>
ghosts == <<raced, superseded, spent>>
vars == <<db, keys, inbox, req, ghosts>>
-----------------------------------------------------------------------------
PC == {"idle", "name", "mail", "call", "insert", "commit", "get_current",
       "replace", "mark", "send", "find", "mark_first", "verify", "restore"}
Job == [pc : PC, acc : Account \cup {NoAccount}, token : Token \cup {NoToken},
        old : Token \cup {NoToken}]
Idle == [pc |-> "idle", acc |-> NoAccount, token |-> NoToken, old |-> NoToken]

TypeOK ==
  /\ rows \subseteq Account /\ verified \subseteq rows /\ marker \subseteq Account
  /\ pending \in [Req -> Account \cup {NoAccount}]
  /\ live \subseteq Token /\ inbox \subseteq Token
  /\ owner \in [Token -> Account \cup {NoAccount}]
  /\ current \in [Account -> Token \cup {NoToken}]
  /\ req \in [Req -> Job]
  /\ raced \subseteq Account /\ superseded \subseteq Token /\ spent \subseteq Token

Init ==
  /\ rows = {} /\ verified = {} /\ live = {} /\ marker = {} /\ inbox = {}
  /\ pending = [r \in Req |-> NoAccount]
  /\ owner = [t \in Token |-> NoAccount]
  /\ current = [a \in Account |-> NoToken]
  /\ req = [r \in Req |-> Idle]
  /\ raced = {} /\ superseded = {} /\ spent = {}
-----------------------------------------------------------------------------
AtPC(r, label) == req[r].pc = label
Goto(r, label) == req' = [req EXCEPT ![r].pc = label]
Start(r, j)    == AtPC(r, "idle") /\ req' = [req EXCEPT ![r] = j]
Return(r)      == req' = [req EXCEPT ![r] = Idle]

SameName(a) == {b \in Account : NameOf[b] = NameOf[a]}
SameMail(a) == {b \in Account : MailOf[b] = MailOf[a]}
Same(a)     == SameName(a) \cup SameMail(a)
-----------------------------------------------------------------------------
(* register                                                                *)
Register(r, a) ==
  /\ Start(r, [Idle EXCEPT !.pc = "name", !.acc = a])
  /\ UNCHANGED <<db, keys, inbox, ghosts>>

\* get_by_login_identifier
LookupName(r) ==
  /\ AtPC(r, "name")
  /\ IF SameName(req[r].acc) \cap rows # {}
     THEN Return(r) ELSE Goto(r, "mail")
  /\ UNCHANGED <<db, keys, inbox, ghosts>>

\* get_by_email
LookupMail(r) ==
  /\ AtPC(r, "mail")
  /\ IF SameMail(req[r].acc) \cap rows # {}
     THEN Return(r) ELSE Goto(r, "call")
  /\ UNCHANGED <<db, keys, inbox, ghosts>>

\* sp_register_user looks at the committed rows once more; P0001 and P0002
\* become DuplicateUsernameError and DuplicateEmailError
CallRegister(r) ==
  /\ AtPC(r, "call")
  /\ IF Same(req[r].acc) \cap rows # {} THEN Return(r) ELSE Goto(r, "insert")
  /\ UNCHANGED <<db, keys, inbox, ghosts>>

\* Mutant: a unique index on lower(username) only
NameConflict(a) == SameName(a)

\* What the unique indexes of users make an INSERT of this row wait for or
\* fail on
Conflict(a) == Same(a)

\* The INSERT waits for an open transaction that inserted the same name or
\* address; if that one committed it fails with 23505, which
\* _duplicate_error_for does not know
Insert(r) ==
  /\ AtPC(r, "insert")
  /\ \A q \in Req : pending[q] \notin Conflict(req[r].acc)
  /\ \/ /\ Conflict(req[r].acc) \cap rows # {}
        /\ Return(r)
        /\ UNCHANGED pending
     \/ /\ Conflict(req[r].acc) \cap rows = {}
        /\ pending' = [pending EXCEPT ![r] = req[r].acc]
        /\ Goto(r, "commit")
  /\ UNCHANGED <<rows, verified, keys, inbox, ghosts>>

EndTransaction(r, committed) ==
  /\ pending' = [pending EXCEPT ![r] = NoAccount]
  /\ rows' = rows \cup committed
  /\ UNCHANGED verified

RegisterCommit(r) ==
  /\ AtPC(r, "commit")
  /\ EndTransaction(r, {req[r].acc})
  /\ Goto(r, "get_current")
  /\ UNCHANGED <<keys, inbox, ghosts>>

\* The connection is lost: rolled back, or committed without an answer
RegisterFails(r) ==
  /\ AtPC(r, "commit")
  /\ EndTransaction(r, {}) \/ EndTransaction(r, {req[r].acc})
  /\ Return(r)
  /\ UNCHANGED <<keys, inbox, ghosts>>
-----------------------------------------------------------------------------
(* issue_email_verify_token and replace_email_verify_token                 *)
GetCurrent(r, t) ==
  /\ AtPC(r, "get_current")
  /\ owner[t] = NoAccount                      \* a new random token
  /\ \A q \in Req : req[q].token # t
  /\ req' = [req EXCEPT ![r].pc = "replace", ![r].token = t,
                        ![r].old = current[req[r].acc]]
  /\ UNCHANGED <<db, keys, inbox, ghosts>>

\* Mutant: emailverify_current is left as it was
StoreWithoutCurrent(a, t, old) ==
  /\ live' = (live \ {old}) \cup {t}
  /\ owner' = [owner EXCEPT ![t] = a]
  /\ UNCHANGED current

\* MULTI: delete the old token, set the new one, point to the new one; EXEC
StoreToken(a, t, old) ==
  /\ live' = (live \ {old}) \cup {t}
  /\ owner' = [owner EXCEPT ![t] = a]
  /\ current' = [current EXCEPT ![a] = t]

ReplaceToken(r) ==
  LET j == req[r] IN
  /\ AtPC(r, "replace")
  /\ StoreToken(j.acc, j.token, j.old)
  /\ raced' = IF j.old = current[j.acc] THEN raced ELSE raced \cup {j.acc}
  /\ superseded' = superseded \cup ({current[j.acc]} \ {NoToken})
  /\ (Goto(r, "mark") \/ Return(r))
  /\ UNCHANGED <<db, marker, inbox, spent>>

\* SET NX; whether the key was set is ignored here
MarkSent(r) ==
  /\ AtPC(r, "mark")
  /\ marker' = marker \cup {req[r].acc}
  /\ (Goto(r, "send") \/ Return(r))
  /\ UNCHANGED <<db, live, owner, current, inbox, ghosts>>

IssueFails(r) ==
  /\ req[r].pc \in {"get_current", "replace", "mark", "find", "mark_first"}
  /\ Return(r)
  /\ UNCHANGED <<db, keys, inbox, ghosts>>

\* _send_mail runs after the answer; its failure is only logged
SendMail(r) ==
  /\ AtPC(r, "send")
  /\ inbox' \in {inbox, inbox \cup {req[r].token}}
  /\ Return(r)
  /\ UNCHANGED <<db, keys, ghosts>>
-----------------------------------------------------------------------------
(* resend_verification                                                     *)
Resend(r, a) ==
  /\ Start(r, [Idle EXCEPT !.pc = "find", !.acc = a])
  /\ UNCHANGED <<db, keys, inbox, ghosts>>

FindUnverified(r) ==
  /\ AtPC(r, "find")
  /\ LET found == SameMail(req[r].acc) \cap (rows \ verified) IN
       \/ found = {} /\ Return(r)
       \/ \E a \in found : req' = [req EXCEPT ![r].pc = "mark_first", ![r].acc = a]
  /\ UNCHANGED <<db, keys, inbox, ghosts>>

\* SET NX: at most one resend for as long as the key lives
MarkFirst(r) ==
  /\ AtPC(r, "mark_first")
  /\ IF req[r].acc \in marker THEN Return(r) ELSE Goto(r, "get_current")
  /\ marker' = marker \cup {req[r].acc}
  /\ UNCHANGED <<db, live, owner, current, inbox, ghosts>>
-----------------------------------------------------------------------------
(* verify_email                                                            *)
\* consume_email_verify_token: GETDEL
Consume(r, t) ==
  /\ t \in live \cap inbox
  /\ Start(r, [pc |-> "verify", acc |-> owner[t], token |-> t, old |-> NoToken])
  /\ live' = live \ {t}
  /\ UNCHANGED <<db, owner, current, marker, inbox, ghosts>>

MarkVerified(r) ==
  /\ AtPC(r, "verify")
  /\ verified' = verified \cup {req[r].acc}
  /\ Return(r)
  /\ spent' = spent \cup {req[r].token}
  /\ UNCHANGED <<rows, pending, keys, inbox, raced, superseded>>

\* The COMMIT fails, or its answer is lost
VerifyFails(r) ==
  /\ AtPC(r, "verify")
  /\ verified' \in {verified, verified \cup {req[r].acc}}
  /\ Goto(r, "restore")
  /\ UNCHANGED <<rows, pending, keys, inbox, ghosts>>

\* Mutant: the token is put back whatever is current
MayRestoreAlways(a, t) == TRUE

MayRestore(a, t) == current[a] \in {t, NoToken}

\* _RESTORE_EMAIL_VERIFY_SCRIPT
Restore(r) ==
  LET a == req[r].acc  t == req[r].token IN
  /\ AtPC(r, "restore")
  /\ IF MayRestore(a, t)
     THEN live' = live \cup {t} /\ current' = [current EXCEPT ![a] = t]
     ELSE UNCHANGED <<live, current>>
  /\ Return(r)
  /\ UNCHANGED <<db, owner, marker, inbox, ghosts>>

\* except Exception: pass
RestoreFails(r) ==
  /\ AtPC(r, "restore")
  /\ Return(r)
  /\ spent' = spent \cup {req[r].token}
  /\ UNCHANGED <<db, keys, inbox, raced, superseded>>
-----------------------------------------------------------------------------
Busy(a) == \E r \in Req : req[r].pc \in {"verify", "restore"} /\ req[r].acc = a

\* The TTL of both keys ends
Expire(t) ==
  /\ t \in live \/ \E a \in Account : current[a] = t
  /\ ~Busy(owner[t])
  /\ live' = live \ {t}
  /\ current' = [a \in Account |-> IF current[a] = t THEN NoToken ELSE current[a]]
  /\ UNCHANGED <<db, owner, marker, inbox, req, ghosts>>

MarkerExpires(a) ==
  /\ a \in marker
  /\ marker' = marker \ {a}
  /\ UNCHANGED <<db, live, owner, current, inbox, req, ghosts>>

RequestStep(r) ==
  \/ LookupName(r) \/ LookupMail(r) \/ CallRegister(r) \/ Insert(r)
  \/ RegisterCommit(r) \/ RegisterFails(r)
  \/ (\E t \in Token : GetCurrent(r, t)) \/ ReplaceToken(r) \/ MarkSent(r)
  \/ IssueFails(r) \/ SendMail(r)
  \/ FindUnverified(r) \/ MarkFirst(r)
  \/ MarkVerified(r) \/ VerifyFails(r) \/ Restore(r) \/ RestoreFails(r)

Next ==
  \/ \E r \in Req, a \in Account : Register(r, a) \/ Resend(r, a)
  \/ \E r \in Req, t \in Token : Consume(r, t)
  \/ \E r \in Req : RequestStep(r)
  \/ \E t \in Token : Expire(t)
  \/ \E a \in Account : MarkerExpires(a)

Spec == Init /\ [][Next]_vars
-----------------------------------------------------------------------------
\* Two registrations may both pass both lookups and the check of the
\* procedure; still no two rows share a name or an address.
OneAccountPerAddress == \A a, b \in rows : b \in Same(a) => a = b

\* A user has at most one token that works, across resends, failed
\* verifications and the tokens these put back: a token that was replaced
\* while its verification was under way does not come back when that one
\* fails. Two replacements of one user that overlap (GET and EXEC of
\* replace_email_verify_token are two round trips) are the exception.
OneLiveToken ==
  /\ \A t, u \in live : (owner[t] = owner[u] /\ owner[t] \notin raced) => t = u
  /\ \A t \in superseded \cap live : owner[t] \in raced

\* The token the user was last sent works: it is stored, or a request is
\* verifying it, or it was used up by one that verified the user or whose
\* restore failed. No replacement deletes the token of a later one.
CurrentIsUsable ==
  \A a \in Account : current[a] # NoToken =>
     \/ current[a] \in live \cup spent
     \/ \E r \in Req : req[r].pc \in {"verify", "restore"} /\ req[r].token = current[a]
=============================================================================
