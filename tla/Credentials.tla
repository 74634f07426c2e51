----------------------------- MODULE Credentials -----------------------------
(***************************************************************************)
(* What logins leave in Redis, as far as revoking all of it tells it       *)
(* apart: session:{id} and user_sessions:{uid} in AUTH_MODE "session",     *)
(* refresh:{hash} and user_refresh:{uid} in "jwt".  delete_all_sessions    *)
(* and revoke_all_refresh_tokens of api/app/repository are two calls each, *)
(* SMEMBERS of the user's set and a pipeline that deletes what was read    *)
(* and the whole set; logins and rotations fall in between.  Sessions and  *)
(* RefreshTokens have the two stores with their expiry times; here a       *)
(* credential may end, and the set of a user's sessions expire, any time.  *)
(*                                                                         *)
(* The operators are the store's part of an action: AdminProtection and    *)
(* PasswordReset say who calls them and when.                              *)
(***************************************************************************)
CONSTANTS Cred,   \* credentials: session ids or hashes of refresh tokens
          User, Req,
          UserOf  \* the user a credential is issued to

ASSUME UserOfAssumption == UserOf \in [Cred -> User]

VARIABLES
  mode,     \* AUTH_MODE
  stored,   \* credentials whose own key exists
  indexed,  \* those the user's set names
  signing,  \* logins between their last check and the store
  sweep,    \* what a request has read by SMEMBERS and not deleted yet
  escaped   \* credentials no later SMEMBERS or pipeline was to find, by cause

credVars == <<mode, stored, indexed, signing, sweep, escaped>>

NoSweep == [users |-> {}, creds |-> {}]

CredTypeOK ==
  /\ mode \in {"session", "jwt"}
  /\ indexed \subseteq stored /\ escaped \subseteq stored /\ stored \subseteq Cred
  /\ signing \subseteq Cred
  /\ sweep \in [Req -> [users : SUBSET User, creds : SUBSET Cred]]

CredInit ==
  /\ mode \in {"session", "jwt"}
  /\ stored = {} /\ indexed = {} /\ signing = {} /\ escaped = {}
  /\ sweep = [r \in Req |-> NoSweep]
-----------------------------------------------------------------------------
Of(us) == {c \in Cred : UserOf[c] \in us}

\* token_urlsafe: an identifier nobody has seen.
Unknown(c) == c \notin stored \cup signing /\ \A r \in Req : c \notin sweep[r].creds

\* A request is between SMEMBERS and pipeline for this user.
Swept(u) == \E r \in Req : u \in sweep[r].users

\* A login has passed its last check of the user's row.
BeginLogin(c) ==
  /\ Unknown(c)
  /\ signing' = signing \cup {c}
  /\ UNCHANGED <<mode, stored, indexed, sweep, escaped>>

\* create_session or store_refresh_token: key and set in one pipeline.  It
\* escapes a sweep that has read already, and a change the caller names.
StoreCredential(c, tooLate) ==
  /\ c \in signing
  /\ signing' = signing \ {c}
  /\ stored' = stored \cup {c}
  /\ indexed' = indexed \cup {c}
  /\ escaped' = IF tooLate \/ Swept(UserOf[c]) THEN escaped \cup {c} ELSE escaped
  /\ UNCHANGED <<mode, sweep>>

\* rotate_refresh_token: the new token escapes if the old one had, or if a
\* sweep has read the set; nobody looks at the user's row.
RotateCredential(c, n) ==
  /\ mode = "jwt"
  /\ c \in stored /\ Unknown(n) /\ UserOf[n] = UserOf[c]
  /\ stored' = (stored \ {c}) \cup {n}
  /\ indexed' = (indexed \ {c}) \cup {n}
  /\ escaped' = (escaped \ {c})
                \cup IF c \in escaped \/ Swept(UserOf[c]) THEN {n} ELSE {}
  /\ UNCHANGED <<mode, signing, sweep>>

\* touch_session near a session's absolute end has given user_sessions that
\* session's remaining life: the set is gone before the other sessions are.
IndexExpires(u) ==
  /\ mode = "session"
  /\ indexed \cap Of({u}) # {}
  /\ indexed' = indexed \ Of({u})
  /\ escaped' = escaped \cup (indexed \cap Of({u}))
  /\ UNCHANGED <<mode, stored, signing, sweep>>

\* Logout, the rollback of a login, or the end of the key's TTL.
CredentialEnds(c) ==
  /\ c \in stored
  /\ stored' = stored \ {c} /\ indexed' = indexed \ {c} /\ escaped' = escaped \ {c}
  /\ UNCHANGED <<mode, signing, sweep>>

\* SMEMBERS of delete_all_sessions (m = "session") or
\* revoke_all_refresh_tokens ("jwt"): the other mode's set is empty.
ReadMembers(r, us, m) ==
  /\ sweep' = [sweep EXCEPT ![r] =
       IF mode = m THEN [users |-> us, creds |-> indexed \cap Of(us)] ELSE NoSweep]
  /\ UNCHANGED <<mode, stored, indexed, signing, escaped>>

\* The pipeline: DEL of every member that was read, and of the set.
DeleteMembers(r) ==
  /\ stored'  = stored \ sweep[r].creds
  /\ indexed' = indexed \ (sweep[r].creds \cup Of(sweep[r].users))
  /\ escaped' = escaped \ sweep[r].creds
  /\ sweep'   = [sweep EXCEPT ![r] = NoSweep]
  /\ UNCHANGED <<mode, signing>>

\* The request ends between the two calls.
AbandonSweep(r) ==
  /\ sweep' = [sweep EXCEPT ![r] = NoSweep]
  /\ UNCHANGED <<mode, stored, indexed, signing, escaped>>

\* Every way the store can change.
StoreStep ==
  \/ \E c \in Cred : BeginLogin(c) \/ CredentialEnds(c)
  \/ \E c \in Cred, tooLate \in BOOLEAN : StoreCredential(c, tooLate)
  \/ \E c, n \in Cred : RotateCredential(c, n)
  \/ \E u \in User : IndexExpires(u)
  \/ \E r \in Req, us \in SUBSET User, m \in {"session", "jwt"} : ReadMembers(r, us, m)
  \/ \E r \in Req : DeleteMembers(r) \/ AbandonSweep(r)
  \/ UNCHANGED credVars
-----------------------------------------------------------------------------
\* What makes a sweep enough: whatever is stored is named by its user's set,
\* or was in the hands of a sweep that has read it, unless it escaped.
SweepInv ==
  /\ CredTypeOK
  /\ \A c \in stored : c \in indexed \cup escaped
  /\ \A r \in Req, c \in stored :
       UserOf[c] \in sweep[r].users => c \in sweep[r].creds \cup escaped
=============================================================================
