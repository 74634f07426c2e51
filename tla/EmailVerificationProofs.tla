----------------------- MODULE EmailVerificationProofs -----------------------
(***************************************************************************)
(* EmailVerification for any accounts, tokens and requests: one account    *)
(* per name and address, one token that works per user, and none that is   *)
(* lost.                                                                   *)
(***************************************************************************)
EXTENDS EmailVerification, TLAPS

USE NoneAssumption

\* Where a request works for a user whose row is committed.
HasRow   == {"get_current", "replace", "mark", "send", "mark_first", "verify", "restore"}
\* Where it has consumed a token.
Checking == {"verify", "restore"}

\* A transaction that has inserted a row shares its name and address neither
\* with a committed row nor with another open transaction.
Unshared ==
  \A r \in Req : req[r].pc = "commit" =>
    /\ \A b \in rows : b \notin Same(req[r].acc)
    /\ \A q \in Req : req[q].pc = "commit" /\ req[q].acc \in Same(req[r].acc) => q = r

RowInv ==
  /\ \A r \in Req : req[r].pc # "idle" => req[r].acc \in Account
  /\ \A r \in Req : req[r].pc \in HasRow => req[r].acc \in rows
  /\ \A r \in Req : pending[r] = IF req[r].pc = "commit" THEN req[r].acc ELSE NoAccount
  /\ Unshared
  /\ OneAccountPerAddress

\* Tokens that exist belong to a user, the current one to the user it is
\* current for.
Owned ==
  /\ \A t \in live \cup superseded : owner[t] # NoAccount
  /\ \A t \in Token : owner[t] # NoAccount => owner[t] \in rows
  /\ \A a \in Account : current[a] # NoToken => owner[current[a]] = a

\* A request about to store a token is alone with it, and the token it has
\* read as current is of the same user.
Replacing ==
  \A r \in Req : req[r].pc = "replace" =>
    /\ req[r].token \in Token /\ owner[req[r].token] = NoAccount
    /\ req[r].old # NoToken => owner[req[r].old] = req[r].acc
    /\ \A q \in Req : req[q].token = req[r].token => q = r

\* While a request checks a token, its user has a current one: the token
\* itself or a newer one, which then forbids the restore.
CheckedOwned ==
  \A r \in Req : req[r].pc \in Checking =>
    /\ req[r].token \in Token /\ owner[req[r].token] = req[r].acc
    /\ req[r].acc \notin raced => current[req[r].acc] # NoToken

\* What works is current, and what is current was not replaced.
LiveIsCurrent ==
  /\ \A t \in live : owner[t] \notin raced => current[owner[t]] = t
  /\ \A a \in Account \ raced : current[a] \notin superseded

TokenInv == Owned /\ Replacing /\ CheckedOwned /\ LiveIsCurrent /\ CurrentIsUsable

\* A request that has stored a token mails that one.
Holding == \A r \in Req : req[r].pc \in {"mark", "send"} => req[r].token \in Token

IInv == TypeOK /\ RowInv /\ TokenInv /\ Holding
-----------------------------------------------------------------------------
(* How a request moves                                                     *)

\* Goto changes the label alone.
LEMMA GotoFields ==
  ASSUME req \in [Req -> Job], NEW r \in Req, NEW label \in PC, Goto(r, label)
  PROVE  /\ req' \in [Req -> Job]
         /\ req'[r].pc = label /\ req'[r].acc = req[r].acc
         /\ req'[r].token = req[r].token /\ req'[r].old = req[r].old
         /\ \A q \in Req : q # r => req'[q] = req[q]
BY DEF Goto, Job

\* A request that returns is idle and names nothing.
LEMMA ReturnFields ==
  ASSUME req \in [Req -> Job], NEW r \in Req, Return(r)
  PROVE  /\ req' \in [Req -> Job]
         /\ req'[r].pc = "idle" /\ req'[r].acc = NoAccount
         /\ req'[r].token = NoToken /\ req'[r].old = NoToken
         /\ \A q \in Req : q # r => req'[q] = req[q]
BY DEF Return, Idle, Job, PC

\* A request starts with the job it is given.
LEMMA StartFields ==
  ASSUME req \in [Req -> Job], NEW r \in Req, NEW j \in Job, Start(r, j)
  PROVE  /\ req' \in [Req -> Job] /\ req[r].pc = "idle"
         /\ req'[r] = j /\ \A q \in Req : q # r => req'[q] = req[q]
BY DEF Start, AtPC

\* Register and Resend name an account.
LEMMA NewJob ==
  ASSUME NEW a \in Account, NEW label \in PC
  PROVE  LET j == [Idle EXCEPT !.pc = label, !.acc = a]
         IN  j \in Job /\ j.pc = label /\ j.acc = a /\ j.token = NoToken
BY DEF Idle, Job, PC

\* Names and addresses are shared both ways.
LEMMA SameSymmetric ==
  \A a, b \in Account : b \in Same(a) <=> a \in Same(b)
BY DEF Same, SameName, SameMail
-----------------------------------------------------------------------------
\* What a step that leaves the accounts alone does to a request.
QuietForRows(q) ==
  \/ req'[q] = req[q]
  \/ /\ req[q].pc # "commit" /\ req'[q].pc # "commit"
     /\ req'[q].pc # "idle" => req'[q].acc \in Account
     /\ req'[q].pc \in HasRow => req'[q].acc \in rows

\* Such a step keeps the accounts unique.
LEMMA RowsKept ==
  ASSUME RowInv, UNCHANGED <<rows, pending>>, \A q \in Req : QuietForRows(q)
  PROVE  RowInv'
<1>1. \A q \in Req : req'[q].pc = "commit" => req'[q] = req[q]
  BY DEF QuietForRows
<1>2. Unshared'
  BY <1>1 DEF RowInv, Unshared, Same, SameName, SameMail
<1>3. OneAccountPerAddress'
  BY DEF RowInv, OneAccountPerAddress, Same, SameName, SameMail
<1>4. \A r \in Req : /\ req'[r].pc # "idle" => req'[r].acc \in Account
                     /\ req'[r].pc \in HasRow => req'[r].acc \in rows'
  BY DEF RowInv, QuietForRows
<1>5. \A r \in Req : pending'[r] = IF req'[r].pc = "commit" THEN req'[r].acc ELSE NoAccount
  BY DEF RowInv, QuietForRows
<1> QED BY <1>2, <1>3, <1>4, <1>5 DEF RowInv

\* The INSERT goes ahead only if nobody has the name or the address, and no
\* open transaction is about to.
LEMMA InsertRows ==
  ASSUME TypeOK, RowInv, NEW r \in Req, Insert(r)
  PROVE  RowInv'
<1>0. /\ req \in [Req -> Job] /\ pending \in [Req -> Account \cup {NoAccount}]
      /\ req[r].pc = "insert" /\ req[r].acc \in Account /\ rows' = rows
  BY DEF TypeOK, RowInv, Insert, AtPC
<1>1. CASE Return(r) /\ UNCHANGED pending
  <2>1. \A q \in Req : QuietForRows(q)
    BY <1>0, <1>1, ReturnFields DEF QuietForRows, HasRow
  <2> QED BY <1>0, <1>1, <2>1, RowsKept
<1>2. CASE /\ Same(req[r].acc) \cap rows = {}
           /\ pending' = [pending EXCEPT ![r] = req[r].acc]
           /\ Goto(r, "commit")
  <2>1. /\ req'[r].pc = "commit" /\ req'[r].acc = req[r].acc
        /\ \A q \in Req : q # r => req'[q] = req[q]
    BY <1>0, <1>2, GotoFields DEF PC
  <2>2. \A q \in Req : pending[q] \notin Same(req[r].acc)
    BY DEF Insert, Conflict
  <2>3. \A q \in Req : q # r /\ req[q].pc = "commit" =>
          /\ req[q].acc \notin Same(req[r].acc) /\ req[r].acc \notin Same(req[q].acc)
    BY <1>0, <2>2, SameSymmetric DEF RowInv
  <2>4. Unshared'
    BY <1>0, <1>2, <2>1, <2>3 DEF RowInv, Unshared, Same, SameName, SameMail
  <2>5. \A q \in Req : /\ req'[q].pc # "idle" => req'[q].acc \in Account
                       /\ req'[q].pc \in HasRow => req'[q].acc \in rows'
    BY <1>0, <2>1 DEF RowInv, HasRow
  <2>6. \A q \in Req : pending'[q] = IF req'[q].pc = "commit" THEN req'[q].acc ELSE NoAccount
    BY <1>0, <1>2, <2>1 DEF RowInv
  <2>7. OneAccountPerAddress'
    BY <1>0 DEF RowInv, OneAccountPerAddress, Same, SameName, SameMail
  <2> QED BY <2>4, <2>5, <2>6, <2>7 DEF RowInv
<1> QED BY <1>1, <1>2 DEF Insert, Conflict

\* The transaction ends, with or without its row.
LEMMA CommitRows ==
  ASSUME TypeOK, RowInv, NEW r \in Req, RegisterCommit(r) \/ RegisterFails(r)
  PROVE  RowInv'
<1>0. /\ req \in [Req -> Job] /\ pending \in [Req -> Account \cup {NoAccount}]
      /\ req[r].pc = "commit" /\ req[r].acc \in Account /\ rows \subseteq Account
  BY DEF TypeOK, RowInv, RegisterCommit, RegisterFails, AtPC
<1>1. /\ pending' = [pending EXCEPT ![r] = NoAccount]
      /\ rows' = rows \/ rows' = rows \cup {req[r].acc}
  BY DEF RegisterCommit, RegisterFails, EndTransaction
<1>2. /\ \A q \in Req : q # r => req'[q] = req[q]
      /\ \/ req'[r].pc = "idle"
         \/ req'[r].pc = "get_current" /\ req'[r].acc = req[r].acc /\ req[r].acc \in rows'
  BY <1>0, GotoFields, ReturnFields DEF RegisterCommit, RegisterFails, EndTransaction, PC
<1>3. OneAccountPerAddress'
  <2>1. \A b \in rows : b \notin Same(req[r].acc) /\ req[r].acc \notin Same(b)
    BY <1>0, SameSymmetric DEF RowInv, Unshared
  <2>2. \A a, b \in rows : b \in Same(a) => a = b
    BY DEF RowInv, OneAccountPerAddress
  <2>3. \A a, b \in rows' : b \in Same(a) => a = b
    BY <1>1, <2>1, <2>2
  <2> QED BY <2>3 DEF OneAccountPerAddress, Same, SameName, SameMail
<1>4. Unshared'
  <2> SUFFICES ASSUME NEW q \in Req, req'[q].pc = "commit"
               PROVE  /\ \A b \in rows' : b \notin Same(req'[q].acc)
                      /\ \A p \in Req : req'[p].pc = "commit" /\ req'[p].acc \in Same(req'[q].acc) => p = q
    BY DEF Unshared, Same, SameName, SameMail
  <2>1. q # r /\ req'[q] = req[q]
    BY <1>2
  <2>2. /\ \A b \in rows : b \notin Same(req[q].acc)
        /\ \A p \in Req : req[p].pc = "commit" /\ req[p].acc \in Same(req[q].acc) => p = q
    BY <2>1 DEF RowInv, Unshared
  <2> QED BY <1>0, <1>1, <1>2, <2>1, <2>2
<1>5. \A q \in Req : /\ req'[q].pc # "idle" => req'[q].acc \in Account
                     /\ req'[q].pc \in HasRow => req'[q].acc \in rows'
  BY <1>0, <1>1, <1>2 DEF RowInv, HasRow
<1>6. \A q \in Req : pending'[q] = IF req'[q].pc = "commit" THEN req'[q].acc ELSE NoAccount
  BY <1>0, <1>1, <1>2 DEF RowInv
<1> QED BY <1>3, <1>4, <1>5, <1>6 DEF RowInv
-----------------------------------------------------------------------------
\* What a step that leaves the tokens alone does to a request.
QuietForTokens(q) ==
  \/ req'[q] = req[q]
  \/ /\ req[q].pc \notin Checking /\ req'[q].pc \notin Checking \cup {"replace"}
     /\ req'[q].token \in {req[q].token, NoToken}

\* Such a step keeps the invariant of the tokens.
LEMMA TokensKept ==
  ASSUME TypeOK, TokenInv, UNCHANGED <<live, owner, current, ghosts>>, rows \subseteq rows',
         \A q \in Req : QuietForTokens(q)
  PROVE  TokenInv'
<1>1. \A q \in Req : /\ req'[q].pc \in Checking \cup {"replace"} => req'[q] = req[q]
                     /\ req[q].pc \in Checking => req'[q] = req[q]
                     /\ req'[q].token \in {req[q].token, NoToken}
  BY DEF QuietForTokens
<1>2. Owned' /\ LiveIsCurrent'
  BY DEF TokenInv, Owned, LiveIsCurrent, ghosts
<1>3. Replacing'
  BY <1>1 DEF TokenInv, Replacing
<1>4. CheckedOwned'
  BY <1>1 DEF TokenInv, CheckedOwned, ghosts
<1>5. CurrentIsUsable'
  BY <1>1 DEF TokenInv, CurrentIsUsable, Checking, ghosts
<1> QED BY <1>2, <1>3, <1>4, <1>5 DEF TokenInv

\* A new token is nobody's, and the old one is the user's.
LEMMA GetTokens ==
  ASSUME TypeOK, TokenInv, NEW r \in Req, NEW t \in Token, req[r].acc \in Account, GetCurrent(r, t)
  PROVE  TokenInv'
<1>0. req \in [Req -> Job] /\ current \in [Account -> Token \cup {NoToken}]
  BY DEF TypeOK
<1>1. /\ req' = [req EXCEPT ![r].pc = "replace", ![r].token = t, ![r].old = current[req[r].acc]]
      /\ req[r].pc = "get_current" /\ owner[t] = NoAccount /\ \A q \in Req : req[q].token # t
      /\ UNCHANGED <<rows, live, owner, current, ghosts>>
  BY DEF GetCurrent, AtPC, db, keys
<1>2. /\ req'[r].pc = "replace" /\ req'[r].token = t /\ req'[r].acc = req[r].acc
      /\ req'[r].old = current[req[r].acc]
      /\ \A q \in Req : q # r => req'[q] = req[q]
  BY <1>0, <1>1 DEF Job
<1>3. Owned' /\ LiveIsCurrent'
  BY <1>1 DEF TokenInv, Owned, LiveIsCurrent, ghosts
<1>4. Replacing'
  <2> SUFFICES ASSUME NEW q \in Req, req'[q].pc = "replace"
               PROVE  /\ req'[q].token \in Token /\ owner'[req'[q].token] = NoAccount
                      /\ req'[q].old # NoToken => owner'[req'[q].old] = req'[q].acc
                      /\ \A p \in Req : req'[p].token = req'[q].token => p = q
    BY DEF Replacing
  <2>0. owner' = owner /\ NoToken # t
    BY <1>1
  <2>1. CASE q = r
    <3>1. req'[q].token \in Token /\ owner[req'[q].token] = NoAccount
      BY <1>1, <1>2, <2>1
    <3>2. req'[q].old # NoToken => owner[req'[q].old] = req'[q].acc
      BY <1>2, <2>1 DEF TokenInv, Owned
    <3>3. \A p \in Req : req'[p].token = req'[q].token => p = q
      BY <1>1, <1>2, <2>1
    <3> QED BY <2>0, <3>1, <3>2, <3>3
  <2>2. CASE q # r
    <3>1. /\ req[q].token \in Token /\ owner[req[q].token] = NoAccount
          /\ req[q].old # NoToken => owner[req[q].old] = req[q].acc
          /\ \A p \in Req : req[p].token = req[q].token => p = q
      BY <1>2, <2>2 DEF TokenInv, Replacing
    <3>2. \A p \in Req : req'[p].token = req'[q].token => p = q
      BY <1>1, <1>2, <2>2, <3>1
    <3> QED BY <1>2, <2>0, <2>2, <3>1, <3>2
  <2> QED BY <2>1, <2>2
<1>5. CheckedOwned'
  <2> SUFFICES ASSUME NEW q \in Req, req'[q].pc \in Checking
               PROVE  /\ req'[q].token \in Token /\ owner'[req'[q].token] = req'[q].acc
                      /\ req'[q].acc \notin raced' => current'[req'[q].acc] # NoToken
    BY DEF CheckedOwned
  <2>1. req'[q] = req[q]
    BY <1>2 DEF Checking
  <2>2. owner' = owner /\ raced' = raced /\ current' = current
    BY <1>1 DEF ghosts
  <2> QED BY <2>1, <2>2 DEF TokenInv, CheckedOwned
<1>6. CurrentIsUsable'
  <2> SUFFICES ASSUME NEW a \in Account, current[a] # NoToken, current[a] \notin live \cup spent
               PROVE  \E q \in Req : /\ req'[q].pc \in {"verify", "restore"}
                                    /\ req'[q].token = current[a]
    BY <1>1 DEF CurrentIsUsable, ghosts
  <2>1. PICK q \in Req : req[q].pc \in {"verify", "restore"} /\ req[q].token = current[a]
    BY DEF TokenInv, CurrentIsUsable
  <2>2. req'[q] = req[q]
    BY <1>1, <1>2, <2>1
  <2> QED BY <2>1, <2>2
<1> QED BY <1>3, <1>4, <1>5, <1>6 DEF TokenInv

\* The EXEC of a replacement: without a race the old token was the only one.
LEMMA ReplaceTokens ==
  ASSUME TypeOK, RowInv, TokenInv, NEW r \in Req, ReplaceToken(r)
  PROVE  TokenInv'
<1> DEFINE a == req[r].acc
           t == req[r].token
           old == req[r].old
<1>0. /\ req \in [Req -> Job] /\ current \in [Account -> Token \cup {NoToken}]
      /\ owner \in [Token -> Account \cup {NoAccount}] /\ a \in Account /\ a \in rows
      /\ live \subseteq Token /\ superseded \subseteq Token /\ old \in Token \cup {NoToken}
  BY DEF TypeOK, RowInv, HasRow, ReplaceToken, AtPC, Job
<1>1. /\ req[r].pc = "replace"
      /\ live' = (live \ {old}) \cup {t}
      /\ owner' = [owner EXCEPT ![t] = a]
      /\ current' = [current EXCEPT ![a] = t]
      /\ raced' = IF old = current[a] THEN raced ELSE raced \cup {a}
      /\ superseded' = superseded \cup ({current[a]} \ {NoToken})
      /\ UNCHANGED <<rows, spent>>
  BY DEF ReplaceToken, StoreToken, AtPC, db
<1>2. /\ \A q \in Req : q # r => req'[q] = req[q]
      /\ req'[r].pc \in {"mark", "idle"} /\ req'[r].token \in {t, NoToken}
  BY <1>0, GotoFields, ReturnFields DEF ReplaceToken, PC
<1>3. /\ t \in Token /\ owner[t] = NoAccount /\ \A q \in Req : req[q].token = t => q = r
      /\ old # NoToken => owner[old] = a
  BY <1>1 DEF TokenInv, Replacing
<1>4. t \notin live /\ t \notin superseded /\ \A b \in Account : current[b] # t
  BY <1>0, <1>3 DEF TokenInv, Owned
<1> HIDE DEF a, t, old
<1>5. /\ owner'[t] = a /\ \A x \in Token : x # t => owner'[x] = owner[x]
      /\ current'[a] = t /\ \A b \in Account : b # a => current'[b] = current[b]
  BY <1>0, <1>1, <1>3
<1>6. Owned'
  <2>1. a \in rows
    BY <1>0
  <2>2. \A x \in live' \cup superseded' : owner'[x] # NoAccount
    BY <1>0, <1>1, <1>3, <1>5 DEF TokenInv, Owned
  <2>3. \A x \in Token : owner'[x] # NoAccount => owner'[x] \in rows'
    BY <1>1, <1>5, <2>1 DEF TokenInv, Owned
  <2>4. \A b \in Account : current'[b] # NoToken => owner'[current'[b]] = b
    BY <1>0, <1>4, <1>5 DEF TokenInv, Owned
  <2> QED BY <2>2, <2>3, <2>4 DEF Owned
<1>7. Replacing'
  <2> SUFFICES ASSUME NEW q \in Req, req'[q].pc = "replace"
               PROVE  /\ req'[q].token \in Token /\ owner'[req'[q].token] = NoAccount
                      /\ req'[q].old # NoToken => owner'[req'[q].old] = req'[q].acc
                      /\ \A p \in Req : req'[p].token = req'[q].token => p = q
    BY DEF Replacing
  <2>1. q # r /\ req'[q] = req[q]
    BY <1>2
  <2>2. /\ req[q].token \in Token /\ owner[req[q].token] = NoAccount
        /\ req[q].old # NoToken => owner[req[q].old] = req[q].acc
        /\ \A p \in Req : req[p].token = req[q].token => p = q
    BY <2>1 DEF TokenInv, Replacing
  <2>3. req[q].token # t
    BY <1>3, <2>1
  <2>4. req[q].old \in Token \cup {NoToken} /\ req[q].acc \in Account \cup {NoAccount}
    BY <1>0 DEF Job
  <2>5. req[q].old # NoToken => owner'[req[q].old] = req[q].acc
    <3>1. CASE req[q].old = t
      <4>1. req[q].acc = NoAccount
        BY <1>3, <2>2, <3>1
      <4>2. FALSE
        BY <2>1, <4>1 DEF RowInv
      <4> QED BY <4>2
    <3>2. CASE req[q].old # t
      BY <1>5, <2>2, <2>4, <3>2
    <3> QED BY <3>1, <3>2
  <2>6. \A p \in Req : req'[p].token = req[q].token => p = q
    BY <1>2, <2>2, <2>3
  <2> QED BY <1>5, <2>1, <2>2, <2>3, <2>5, <2>6
<1>8. CheckedOwned'
  <2> SUFFICES ASSUME NEW q \in Req, req'[q].pc \in Checking
               PROVE  /\ req'[q].token \in Token /\ owner'[req'[q].token] = req'[q].acc
                      /\ req'[q].acc \notin raced' => current'[req'[q].acc] # NoToken
    BY DEF CheckedOwned
  <2>1. req'[q] = req[q] /\ q # r
    BY <1>2 DEF Checking
  <2>2. /\ req[q].token \in Token /\ owner[req[q].token] = req[q].acc
        /\ req[q].acc \notin raced => current[req[q].acc] # NoToken
    BY <2>1 DEF TokenInv, CheckedOwned
  <2>3. req[q].token # t
    BY <1>3, <2>1
  <2>4. raced \subseteq raced'
    BY <1>1
  <2>5. req[q].acc \in Account \cup {NoAccount} /\ req[q].acc # NoAccount
    BY <2>1 DEF RowInv, Checking
  <2> QED BY <1>3, <1>5, <2>1, <2>2, <2>3, <2>4, <2>5
<1>9. LiveIsCurrent'
  <2>1. ASSUME NEW x \in live', owner'[x] \notin raced' PROVE current'[owner'[x]] = x
    <3>1. CASE x = t
      BY <1>5, <3>1
    <3>2. CASE x # t
      <4>1. x \in live /\ x # old /\ owner'[x] = owner[x] /\ owner[x] \notin raced
        BY <1>0, <1>1, <1>5, <2>1, <3>2
      <4>2. current[owner[x]] = x /\ owner[x] \in Account
        BY <1>0, <4>1 DEF TokenInv, LiveIsCurrent, Owned
      <4>3. owner[x] # a
        BY <1>1, <2>1, <4>1, <4>2
      <4> QED BY <1>5, <4>1, <4>2, <4>3
    <3> QED BY <3>1, <3>2
  <2>2. ASSUME NEW b \in Account \ raced' PROVE current'[b] \notin superseded'
    <3>1. CASE b = a
      BY <1>0, <1>1, <1>4, <1>5, <3>1
    <3>2. CASE b # a
      <4>1. b \notin raced /\ current'[b] = current[b] /\ current[b] \notin superseded
        BY <1>1, <1>5, <3>2 DEF TokenInv, LiveIsCurrent
      <4>2. current[b] # NoToken => current[b] # current[a]
        BY <1>0, <3>2 DEF TokenInv, Owned
      <4> QED BY <1>1, <4>1, <4>2
    <3> QED BY <3>1, <3>2
  <2> QED BY <2>1, <2>2 DEF LiveIsCurrent
<1>10. CurrentIsUsable'
  <2> SUFFICES ASSUME NEW b \in Account, current'[b] # NoToken
               PROVE  \/ current'[b] \in live' \cup spent'
                      \/ \E q \in Req : req'[q].pc \in {"verify", "restore"} /\ req'[q].token = current'[b]
    BY DEF CurrentIsUsable
  <2>1. CASE b = a
    BY <1>1, <1>5, <2>1
  <2>2. CASE b # a
    <3>1. current'[b] = current[b] /\ current[b] # old /\ current[b] \in Token
      BY <1>0, <1>3, <1>5, <2>2 DEF TokenInv, Owned
    <3>2. \/ current[b] \in live \cup spent
          \/ \E q \in Req : req[q].pc \in {"verify", "restore"} /\ req[q].token = current[b]
      BY <3>1 DEF TokenInv, CurrentIsUsable
    <3>3. \A q \in Req : req[q].pc \in {"verify", "restore"} => req'[q] = req[q]
      BY <1>1, <1>2
    <3> QED BY <1>1, <3>1, <3>2, <3>3
  <2> QED BY <2>1, <2>2
<1> QED BY <1>6, <1>7, <1>8, <1>9, <1>10 DEF TokenInv

\* The GETDEL takes a token that is current, or the user's replacements raced.
LEMMA ConsumeTokens ==
  ASSUME TypeOK, RowInv, TokenInv, NEW r \in Req, NEW t \in Token, Consume(r, t)
  PROVE  TokenInv'
<1> DEFINE j == [pc |-> "verify", acc |-> owner[t], token |-> t, old |-> NoToken]
<1>0. /\ req \in [Req -> Job] /\ owner \in [Token -> Account \cup {NoAccount}]
      /\ live \subseteq Token
  BY DEF TypeOK
<1>1. /\ t \in live /\ live' = live \ {t} /\ Start(r, j)
      /\ UNCHANGED <<rows, owner, current, raced, superseded, spent>>
  BY DEF Consume, db, ghosts
<1>2. /\ req[r].pc = "idle" /\ req'[r] = j /\ \A q \in Req : q # r => req'[q] = req[q]
  BY <1>0, <1>1, StartFields DEF Job, PC
<1>3. /\ req'[r].pc = "verify" /\ req'[r].acc = owner[t] /\ req'[r].token = t
  BY <1>2
<1>4. owner[t] # NoAccount
  BY <1>1 DEF TokenInv, Owned
<1>5. Owned' /\ LiveIsCurrent'
  BY <1>1 DEF TokenInv, Owned, LiveIsCurrent
<1>6. Replacing'
  <2> SUFFICES ASSUME NEW q \in Req, req'[q].pc = "replace"
               PROVE  /\ req'[q].token \in Token /\ owner'[req'[q].token] = NoAccount
                      /\ req'[q].old # NoToken => owner'[req'[q].old] = req'[q].acc
                      /\ \A p \in Req : req'[p].token = req'[q].token => p = q
    BY DEF Replacing
  <2>1. q # r /\ req'[q] = req[q]
    BY <1>2, <1>3
  <2> QED BY <1>1, <1>2, <1>3, <1>4, <2>1 DEF TokenInv, Replacing
<1>7. CheckedOwned'
  <2> SUFFICES ASSUME NEW q \in Req, req'[q].pc \in Checking
               PROVE  /\ req'[q].token \in Token /\ owner'[req'[q].token] = req'[q].acc
                      /\ req'[q].acc \notin raced' => current'[req'[q].acc] # NoToken
    BY DEF CheckedOwned
  <2>1. CASE q = r
    BY <1>1, <1>3, <2>1 DEF TokenInv, LiveIsCurrent
  <2>2. CASE q # r
    BY <1>1, <1>2, <2>2 DEF TokenInv, CheckedOwned
  <2> QED BY <2>1, <2>2
<1>8. CurrentIsUsable'
  <2> SUFFICES ASSUME NEW a \in Account, current'[a] # NoToken
               PROVE  \/ current'[a] \in live' \cup spent'
                      \/ \E q \in Req : req'[q].pc \in {"verify", "restore"} /\ req'[q].token = current'[a]
    BY DEF CurrentIsUsable
  <2>1. CASE current[a] = t
    BY <1>1, <1>3, <2>1
  <2>2. CASE current[a] # t
    BY <1>1, <1>2, <2>2 DEF TokenInv, CurrentIsUsable
  <2> QED BY <2>1, <2>2
<1> QED BY <1>5, <1>6, <1>7, <1>8 DEF TokenInv

\* A verification that ends uses its token up; one that fails keeps it.
LEMMA CheckedTokens ==
  ASSUME TypeOK, TokenInv, NEW r \in Req, MarkVerified(r) \/ VerifyFails(r) \/ RestoreFails(r)
  PROVE  TokenInv'
<1>0. req \in [Req -> Job]
  BY DEF TypeOK
<1>1. UNCHANGED <<rows, live, owner, current, raced, superseded>>
  BY DEF MarkVerified, VerifyFails, RestoreFails, db, keys, ghosts
<1>2. /\ \A q \in Req : q # r => req'[q] = req[q]
      /\ \/ /\ req'[r].pc = "idle" /\ req'[r].token = NoToken
            /\ spent' = spent \cup {req[r].token}
         \/ /\ req[r].pc \in Checking /\ req'[r].pc = "restore" /\ spent' = spent
            /\ req'[r].token = req[r].token /\ req'[r].acc = req[r].acc
  BY <1>0, GotoFields, ReturnFields
  DEF MarkVerified, VerifyFails, RestoreFails, AtPC, Checking, PC, ghosts
<1>3. Owned' /\ LiveIsCurrent'
  BY <1>1 DEF TokenInv, Owned, LiveIsCurrent
<1>4. Replacing'
  BY <1>1, <1>2 DEF TokenInv, Replacing
<1>5. CheckedOwned'
  BY <1>1, <1>2 DEF TokenInv, CheckedOwned, Checking
<1>6. CurrentIsUsable'
  <2> SUFFICES ASSUME NEW a \in Account, current'[a] # NoToken
               PROVE  \/ current'[a] \in live' \cup spent'
                      \/ \E q \in Req : req'[q].pc \in {"verify", "restore"} /\ req'[q].token = current'[a]
    BY DEF CurrentIsUsable
  <2>1. CASE current[a] \in live \cup spent
    BY <1>1, <1>2, <2>1
  <2>2. ASSUME NEW q \in Req, req[q].pc \in {"verify", "restore"}, req[q].token = current[a]
        PROVE  \/ current'[a] \in live' \cup spent'
               \/ \E p \in Req : req'[p].pc \in {"verify", "restore"} /\ req'[p].token = current'[a]
    BY <1>1, <1>2, <2>2
  <2> QED BY <1>1, <2>1, <2>2 DEF TokenInv, CurrentIsUsable
<1> QED BY <1>3, <1>4, <1>5, <1>6 DEF TokenInv

\* The script puts a token back only where no later one is current.
LEMMA RestoreTokens ==
  ASSUME TypeOK, RowInv, TokenInv, NEW r \in Req, Restore(r)
  PROVE  TokenInv'
<1> DEFINE a == req[r].acc
           t == req[r].token
<1>0. /\ req \in [Req -> Job] /\ current \in [Account -> Token \cup {NoToken}]
      /\ live \subseteq Token /\ superseded \subseteq Token
  BY DEF TypeOK
<1>1. /\ req[r].pc = "restore" /\ UNCHANGED <<rows, owner, raced, superseded, spent>>
      /\ \/ /\ current[a] \in {t, NoToken}
            /\ live' = live \cup {t} /\ current' = [current EXCEPT ![a] = t]
         \/ current[a] \notin {t, NoToken} /\ UNCHANGED <<live, current>>
  BY DEF Restore, MayRestore, AtPC, db, ghosts
<1>2. /\ a \in Account /\ t \in Token /\ owner[t] = a
      /\ a \notin raced => current[a] # NoToken
  BY <1>1 DEF RowInv, TokenInv, CheckedOwned, Checking
<1>3. /\ req'[r].pc = "idle" /\ req'[r].token = NoToken
      /\ \A q \in Req : q # r => req'[q] = req[q]
  BY <1>0, ReturnFields DEF Restore
<1>4. \A b \in Account : current[b] = t => b = a
  BY <1>2 DEF TokenInv, Owned
<1> HIDE DEF a, t
<1>5. Replacing'
  BY <1>1, <1>3 DEF TokenInv, Replacing
<1>6. CASE current[a] \notin {t, NoToken} /\ UNCHANGED <<live, current>>
  <2>1. Owned' /\ LiveIsCurrent'
    BY <1>1, <1>6 DEF TokenInv, Owned, LiveIsCurrent
  <2>2. CheckedOwned'
    BY <1>1, <1>3, <1>6 DEF TokenInv, CheckedOwned, Checking
  <2>3. \A b \in Account : current[b] # t
    BY <1>4, <1>6
  <2>4. CurrentIsUsable'
    BY <1>1, <1>3, <1>6, <2>3 DEF TokenInv, CurrentIsUsable, t
  <2> QED BY <1>5, <2>1, <2>2, <2>4 DEF TokenInv
<1>7. CASE /\ current[a] \in {t, NoToken}
           /\ live' = live \cup {t} /\ current' = [current EXCEPT ![a] = t]
  <2>1. current'[a] = t /\ \A b \in Account : b # a => current'[b] = current[b]
    BY <1>0, <1>2, <1>7
  <2>2. Owned'
    <3>1. \A x \in live' \cup superseded' : owner'[x] # NoAccount
      BY <1>1, <1>2, <1>7 DEF TokenInv, Owned
    <3>2. \A b \in Account : current'[b] # NoToken => owner'[current'[b]] = b
      BY <1>1, <1>2, <2>1 DEF TokenInv, Owned
    <3> QED BY <1>1, <3>1, <3>2 DEF TokenInv, Owned
  <2>3. CheckedOwned'
    <3> SUFFICES ASSUME NEW q \in Req, req'[q].pc \in Checking
                 PROVE  /\ req'[q].token \in Token /\ owner'[req'[q].token] = req'[q].acc
                        /\ req'[q].acc \notin raced' => current'[req'[q].acc] # NoToken
      BY DEF CheckedOwned
    <3>1. req'[q] = req[q] /\ req[q].acc \in Account
      BY <1>3 DEF Checking, RowInv
    <3> QED BY <1>1, <1>2, <2>1, <3>1 DEF TokenInv, CheckedOwned
  <2>4. LiveIsCurrent'
    <3>1. ASSUME NEW x \in live', owner'[x] \notin raced' PROVE current'[owner'[x]] = x
      <4>1. CASE x = t
        BY <1>1, <1>2, <2>1, <4>1
      <4>2. CASE x # t
        <5>1. x \in live /\ owner[x] \in Account /\ current[owner[x]] = x
          BY <1>0, <1>1, <1>7, <3>1, <4>2 DEF TokenInv, LiveIsCurrent, Owned, TypeOK
        <5>2. owner[x] # a
          BY <1>0, <1>7, <4>2, <5>1
        <5> QED BY <1>1, <2>1, <5>1, <5>2
      <4> QED BY <4>1, <4>2
    <3>2. ASSUME NEW b \in Account \ raced' PROVE current'[b] \notin superseded'
      BY <1>1, <1>2, <1>7, <2>1 DEF TokenInv, LiveIsCurrent
    <3> QED BY <3>1, <3>2 DEF LiveIsCurrent
  <2>5. CurrentIsUsable'
    <3> SUFFICES ASSUME NEW b \in Account, current'[b] # NoToken
                 PROVE  \/ current'[b] \in live' \cup spent'
                        \/ \E q \in Req : req'[q].pc \in {"verify", "restore"} /\ req'[q].token = current'[b]
      BY DEF CurrentIsUsable
    <3>1. CASE b = a
      BY <1>7, <2>1, <3>1
    <3>2. CASE b # a
      <4>1. current'[b] = current[b] /\ current[b] # t
        BY <1>4, <2>1, <3>2
      <4> QED BY <1>1, <1>3, <1>7, <4>1 DEF TokenInv, CurrentIsUsable, t
    <3> QED BY <3>1, <3>2
  <2> QED BY <1>5, <2>2, <2>3, <2>4, <2>5 DEF TokenInv
<1> QED BY <1>1, <1>6, <1>7

\* A token does not expire while it is being checked.
LEMMA ExpireTokens ==
  ASSUME TypeOK, RowInv, TokenInv, NEW t \in Token, Expire(t)
  PROVE  TokenInv'
<1>0. current \in [Account -> Token \cup {NoToken}]
  BY DEF TypeOK
<1>1. /\ ~Busy(owner[t]) /\ live' = live \ {t}
      /\ UNCHANGED <<rows, owner, req, raced, superseded, spent>>
      /\ \A a \in Account : current'[a] = IF current[a] = t THEN NoToken ELSE current[a]
  BY DEF Expire, db, ghosts
<1>2. Owned'
  BY <1>1 DEF TokenInv, Owned
<1>3. Replacing'
  BY <1>1 DEF TokenInv, Replacing
<1>4. CheckedOwned'
  <2> SUFFICES ASSUME NEW q \in Req, req[q].pc \in Checking
               PROVE  /\ req[q].token \in Token /\ owner[req[q].token] = req[q].acc
                      /\ req[q].acc \notin raced => current'[req[q].acc] # NoToken
    BY <1>1 DEF CheckedOwned
  <2>1. req[q].acc \in Account /\ owner[t] # req[q].acc
    BY <1>1 DEF Busy, Checking, RowInv
  <2>2. current[req[q].acc] # t
    BY <2>1 DEF TokenInv, Owned
  <2> QED BY <1>1, <2>1, <2>2 DEF TokenInv, CheckedOwned
<1>5. LiveIsCurrent'
  <2>1. ASSUME NEW x \in live', owner'[x] \notin raced' PROVE current'[owner'[x]] = x
    <3>1. x \in live /\ x # t /\ current[owner[x]] = x
      BY <1>1, <2>1 DEF TokenInv, LiveIsCurrent
    <3>2. owner[x] \in Account
      BY <3>1 DEF TokenInv, Owned, TypeOK
    <3> QED BY <1>1, <3>1, <3>2
  <2>2. ASSUME NEW b \in Account \ raced' PROVE current'[b] \notin superseded'
    <3>1. superseded \subseteq Token /\ superseded' = superseded /\ raced' = raced
      BY <1>1 DEF TypeOK
    <3>2. current[b] \notin superseded
      BY <3>1 DEF TokenInv, LiveIsCurrent
    <3> QED BY <1>1, <3>1, <3>2
  <2> QED BY <2>1, <2>2 DEF LiveIsCurrent
<1>6. CurrentIsUsable'
  <2> SUFFICES ASSUME NEW a \in Account, current'[a] # NoToken
               PROVE  \/ current'[a] \in live' \cup spent'
                      \/ \E q \in Req : req'[q].pc \in {"verify", "restore"} /\ req'[q].token = current'[a]
    BY DEF CurrentIsUsable
  <2>1. current'[a] = current[a] /\ current[a] # t
    BY <1>1
  <2> QED BY <1>1, <2>1 DEF TokenInv, CurrentIsUsable
<1> QED BY <1>2, <1>3, <1>4, <1>5, <1>6 DEF TokenInv
-----------------------------------------------------------------------------
\* The steps that touch neither a token key nor the request that checks one.
Untouched(r) ==
  \/ \E a \in Account : Register(r, a) \/ Resend(r, a)
  \/ LookupName(r) \/ LookupMail(r) \/ CallRegister(r) \/ Insert(r)
  \/ RegisterCommit(r) \/ RegisterFails(r)
  \/ MarkSent(r) \/ IssueFails(r) \/ SendMail(r)
  \/ FindUnverified(r) \/ MarkFirst(r)

\* They leave every token as it was.
LEMMA UntouchedTokens ==
  ASSUME TypeOK, TokenInv, NEW r \in Req, Untouched(r)
  PROVE  TokenInv'
<1>0. req \in [Req -> Job]
  BY DEF TypeOK
<1>1. UNCHANGED <<live, owner, current, ghosts>>
  BY DEF Untouched, Register, Resend, LookupName, LookupMail, CallRegister, Insert, RegisterCommit,
         RegisterFails, MarkSent, IssueFails, SendMail, FindUnverified, MarkFirst, keys
<1>2. rows \subseteq rows'
  BY DEF Untouched, Register, Resend, LookupName, LookupMail, CallRegister, Insert, RegisterCommit,
         RegisterFails, MarkSent, IssueFails, SendMail, FindUnverified, MarkFirst, EndTransaction, db
<1>3. \A q \in Req : q # r => req'[q] = req[q]
  BY <1>0, GotoFields, ReturnFields
  DEF Untouched, Register, Resend, Start, LookupName, LookupMail, CallRegister, Insert, RegisterCommit,
      RegisterFails, MarkSent, IssueFails, SendMail, FindUnverified, MarkFirst, Goto, Return
<1>4. QuietForTokens(r)
  <2>1. CASE \E a \in Account : Register(r, a) \/ Resend(r, a)
    <3>1. PICK a \in Account, label \in {"name", "find"} :
               Start(r, [Idle EXCEPT !.pc = label, !.acc = a])
      BY <2>1 DEF Register, Resend
    <3>2. label \in PC
      BY DEF PC
    <3> DEFINE j == [Idle EXCEPT !.pc = label, !.acc = a]
    <3>3. j \in Job /\ j.pc = label /\ j.token = NoToken
      BY <3>2, NewJob
    <3> HIDE DEF j
    <3>4. req[r].pc = "idle" /\ req'[r] = j
      BY <1>0, <3>1, <3>3, StartFields DEF j
    <3> QED BY <3>3, <3>4 DEF QuietForTokens, Checking
  <2>2. CASE /\ req[r].pc \notin Checking
             /\ \/ Return(r)
                \/ \E label \in PC \ (Checking \cup {"replace"}) : Goto(r, label)
    BY <1>0, <2>2, GotoFields, ReturnFields DEF QuietForTokens, Checking
  <2>3. CASE FindUnverified(r)
    <3>1. /\ req[r].pc = "find"
          /\ \/ Return(r)
             \/ \E a \in Account : req' = [req EXCEPT ![r].pc = "mark_first", ![r].acc = a]
      BY <2>3 DEF FindUnverified, AtPC, SameMail
    <3>2. CASE Return(r)
      BY <1>0, <3>1, <3>2, ReturnFields DEF QuietForTokens, Checking
    <3>3. CASE \E a \in Account : req' = [req EXCEPT ![r].pc = "mark_first", ![r].acc = a]
      <4>1. req'[r].pc = "mark_first" /\ req'[r].token = req[r].token
        BY <1>0, <3>3 DEF Job
      <4> QED BY <3>1, <4>1 DEF QuietForTokens, Checking
    <3> QED BY <3>1, <3>2, <3>3
  <2>4. LookupName(r) \/ LookupMail(r) \/ CallRegister(r) \/ Insert(r) \/ RegisterCommit(r) \/ RegisterFails(r)
        => /\ req[r].pc \notin Checking
           /\ \/ Return(r)
              \/ \E label \in PC \ (Checking \cup {"replace"}) : Goto(r, label)
    BY DEF LookupName, LookupMail, CallRegister, Insert, RegisterCommit, RegisterFails, AtPC, Checking, PC
  <2>5. MarkSent(r) \/ IssueFails(r) \/ SendMail(r) \/ MarkFirst(r)
        => /\ req[r].pc \notin Checking
           /\ \/ Return(r)
              \/ \E label \in PC \ (Checking \cup {"replace"}) : Goto(r, label)
    BY DEF MarkSent, IssueFails, SendMail, MarkFirst, AtPC, Checking, PC
  <2> QED BY <2>1, <2>2, <2>3, <2>4, <2>5 DEF Untouched
<1> QED BY <1>1, <1>2, <1>3, <1>4, TokensKept DEF QuietForTokens
-----------------------------------------------------------------------------
\* The steps that neither open nor end a transaction on the users.
OffRows(r) ==
  \/ \E a \in Account : Register(r, a) \/ Resend(r, a)
  \/ LookupName(r) \/ LookupMail(r) \/ CallRegister(r)
  \/ \E t \in Token : GetCurrent(r, t) \/ Consume(r, t)
  \/ ReplaceToken(r) \/ MarkSent(r) \/ IssueFails(r) \/ SendMail(r)
  \/ FindUnverified(r) \/ MarkFirst(r)
  \/ MarkVerified(r) \/ VerifyFails(r) \/ Restore(r) \/ RestoreFails(r)

\* They leave the rows, and whoever is about to add one, alone.
LEMMA OffRowsKept ==
  ASSUME TypeOK, RowInv, TokenInv, NEW r \in Req, OffRows(r)
  PROVE  RowInv'
<1>0. req \in [Req -> Job]
  BY DEF TypeOK
<1>1. UNCHANGED <<rows, pending>>
  BY DEF OffRows, Register, Resend, LookupName, LookupMail, CallRegister, GetCurrent, Consume,
         ReplaceToken, MarkSent, IssueFails, SendMail, FindUnverified, MarkFirst, MarkVerified,
         VerifyFails, Restore, RestoreFails, db
<1>2. \A q \in Req : q # r => req'[q] = req[q]
  BY <1>0
  DEF OffRows, Register, Resend, Start, LookupName, LookupMail, CallRegister, GetCurrent, Consume,
      ReplaceToken, MarkSent, IssueFails, SendMail, FindUnverified, MarkFirst, MarkVerified,
      VerifyFails, Restore, RestoreFails, Goto, Return
<1>3. QuietForRows(r)
  <2>1. CASE \E a \in Account : Register(r, a) \/ Resend(r, a)
    <3>1. PICK a \in Account, label \in {"name", "find"} :
               Start(r, [Idle EXCEPT !.pc = label, !.acc = a])
      BY <2>1 DEF Register, Resend
    <3>2. label \in PC
      BY DEF PC
    <3> DEFINE j == [Idle EXCEPT !.pc = label, !.acc = a]
    <3>3. j \in Job /\ j.pc = label /\ j.acc = a
      BY <3>2, NewJob
    <3> HIDE DEF j
    <3>4. req[r].pc = "idle" /\ req'[r] = j
      BY <1>0, <3>1, <3>3, StartFields DEF j
    <3> QED BY <3>3, <3>4 DEF QuietForRows, HasRow
  <2>2. ASSUME req[r].pc # "commit", Return(r) PROVE QuietForRows(r)
    BY <1>0, <2>2, ReturnFields DEF QuietForRows, HasRow
  <2>3. ASSUME req[r].pc \in {"name", "mail", "call"}, NEW label \in {"mail", "call", "insert"}, Goto(r, label)
        PROVE  QuietForRows(r)
    <3>1. label \in PC
      BY DEF PC
    <3>2. req'[r].pc = label /\ req'[r].acc = req[r].acc
      BY <1>0, <2>3, <3>1, GotoFields
    <3>3. req[r].acc \in Account
      BY <2>3 DEF RowInv
    <3> QED BY <2>3, <3>2, <3>3 DEF QuietForRows, HasRow
  <2>4. ASSUME req[r].pc \in HasRow, NEW label \in PC \ {"commit"}, Goto(r, label)
        PROVE  QuietForRows(r)
    <3>1. req'[r].pc = label /\ req'[r].acc = req[r].acc
      BY <1>0, <2>4, GotoFields
    <3>2. req[r].acc \in Account /\ req[r].acc \in rows
      BY <2>4 DEF RowInv, HasRow
    <3> QED BY <2>4, <3>1, <3>2 DEF QuietForRows, HasRow
  <2>5. CASE LookupName(r) \/ LookupMail(r) \/ CallRegister(r)
    <3>1. /\ req[r].pc \in {"name", "mail", "call"}
          /\ Return(r) \/ \E label \in {"mail", "call", "insert"} : Goto(r, label)
      BY <2>5 DEF LookupName, LookupMail, CallRegister, AtPC
    <3> QED BY <2>2, <2>3, <3>1
  <2>6. CASE \/ ReplaceToken(r) \/ MarkSent(r) \/ SendMail(r) \/ MarkFirst(r)
             \/ MarkVerified(r) \/ VerifyFails(r) \/ Restore(r) \/ RestoreFails(r)
    <3>1. /\ req[r].pc \in HasRow
          /\ Return(r) \/ \E label \in PC \ {"commit"} : Goto(r, label)
      BY <2>6 DEF ReplaceToken, MarkSent, SendMail, MarkFirst, MarkVerified, VerifyFails,
                  Restore, RestoreFails, AtPC, HasRow, PC
    <3>2. req[r].pc # "commit"
      BY <3>1 DEF HasRow
    <3> QED BY <2>2, <2>4, <3>1, <3>2
  <2>7. CASE IssueFails(r)
    <3>1. req[r].pc # "commit" /\ Return(r)
      BY <2>7 DEF IssueFails
    <3> QED BY <2>2, <3>1
  <2>8. CASE FindUnverified(r)
    <3>1. /\ req[r].pc = "find"
          /\ \/ Return(r)
             \/ \E a \in rows : req' = [req EXCEPT ![r].pc = "mark_first", ![r].acc = a]
      BY <2>8 DEF FindUnverified, AtPC
    <3>2. CASE \E a \in rows : req' = [req EXCEPT ![r].pc = "mark_first", ![r].acc = a]
      <4>1. req'[r].pc = "mark_first" /\ req'[r].acc \in rows
        BY <1>0, <3>2 DEF Job
      <4>2. rows \subseteq Account
        BY DEF TypeOK
      <4> QED BY <3>1, <4>1, <4>2 DEF QuietForRows
    <3> QED BY <2>2, <3>1, <3>2
  <2>9. CASE \E t \in Token : GetCurrent(r, t)
    <3>1. req[r].pc = "get_current" /\ req'[r].pc = "replace" /\ req'[r].acc = req[r].acc
      BY <1>0, <2>9 DEF GetCurrent, AtPC, Job
    <3>2. req[r].acc \in Account /\ req[r].acc \in rows
      BY <3>1 DEF RowInv, HasRow
    <3> QED BY <3>1, <3>2 DEF QuietForRows
  <2>10. CASE \E t \in Token : Consume(r, t)
    <3>1. PICK t \in live : /\ req[r].pc = "idle"
                            /\ req' = [req EXCEPT ![r] = [pc |-> "verify", acc |-> owner[t],
                                                          token |-> t, old |-> NoToken]]
      BY <2>10 DEF Consume, Start, AtPC
    <3>2. req'[r].pc = "verify" /\ req'[r].acc = owner[t]
      BY <1>0, <3>1
    <3>3. owner[t] \in rows /\ owner[t] \in Account
      BY DEF TokenInv, Owned, TypeOK
    <3> QED BY <3>1, <3>2, <3>3 DEF QuietForRows
  <2> QED BY <2>1, <2>5, <2>6, <2>7, <2>8, <2>9, <2>10 DEF OffRows
<1> QED BY <1>1, <1>2, <1>3, RowsKept DEF QuietForRows
-----------------------------------------------------------------------------
\* Requests keep their type.
LEMMA RequestType ==
  ASSUME TypeOK, RowInv, Next
  PROVE  req' \in [Req -> Job]
<1>0. /\ req \in [Req -> Job] /\ owner \in [Token -> Account \cup {NoAccount}]
      /\ current \in [Account -> Token \cup {NoToken}] /\ rows \subseteq Account
  BY DEF TypeOK
<1>1. ASSUME NEW r \in Req, NEW label \in PC, Goto(r, label) PROVE req' \in [Req -> Job]
  BY <1>0, <1>1, GotoFields
<1>2. ASSUME NEW r \in Req, Return(r) PROVE req' \in [Req -> Job]
  BY <1>0, <1>2, ReturnFields
<1>3. ASSUME NEW r \in Req, NEW j \in Job, Start(r, j) PROVE req' \in [Req -> Job]
  BY <1>0, <1>3, StartFields
<1>4. ASSUME NEW r \in Req, NEW a \in Account, Register(r, a) \/ Resend(r, a)
      PROVE  req' \in [Req -> Job]
  <2>1. "name" \in PC /\ "find" \in PC
    BY DEF PC
  <2>2. /\ [Idle EXCEPT !.pc = "name", !.acc = a] \in Job
        /\ [Idle EXCEPT !.pc = "find", !.acc = a] \in Job
    BY <2>1, NewJob
  <2> QED BY <1>3, <1>4, <2>2 DEF Register, Resend
<1>5. ASSUME NEW r \in Req, NEW t \in Token, Consume(r, t) PROVE req' \in [Req -> Job]
  <2>1. [pc |-> "verify", acc |-> owner[t], token |-> t, old |-> NoToken] \in Job
    BY <1>0 DEF Job, PC
  <2> QED BY <1>3, <1>5, <2>1 DEF Consume
<1>6. ASSUME NEW r \in Req, NEW t \in Token, GetCurrent(r, t) PROVE req' \in [Req -> Job]
  <2>1. req[r].pc = "get_current" /\ req[r].acc \in Account
    BY <1>6 DEF GetCurrent, AtPC, RowInv
  <2>2. req' = [req EXCEPT ![r].pc = "replace", ![r].token = t, ![r].old = current[req[r].acc]]
    BY <1>6 DEF GetCurrent
  <2>3. current[req[r].acc] \in Token \cup {NoToken}
    BY <1>0, <2>1
  <2>4. ASSUME NEW k \in Job, NEW c \in Token \cup {NoToken}
        PROVE  [k EXCEPT !.pc = "replace", !.token = t, !.old = c] \in Job
    BY DEF Job, PC
  <2>5. req' = [req EXCEPT ![r] = [req[r] EXCEPT !.pc = "replace", !.token = t, !.old = current[req[r].acc]]]
    BY <2>2
  <2> QED BY <1>0, <2>3, <2>4, <2>5
<1>7. ASSUME NEW r \in Req, FindUnverified(r) PROVE req' \in [Req -> Job]
  <2>1. Return(r) \/ \E a \in rows : req' = [req EXCEPT ![r].pc = "mark_first", ![r].acc = a]
    BY <1>7 DEF FindUnverified
  <2>2. ASSUME NEW a \in rows, req' = [req EXCEPT ![r].pc = "mark_first", ![r].acc = a]
        PROVE  req' \in [Req -> Job]
    <3>1. a \in Account
      BY DEF TypeOK
    <3>2. [req[r] EXCEPT !.pc = "mark_first", !.acc = a] \in Job
      BY <1>0, <3>1 DEF Job, PC
    <3>3. req' = [req EXCEPT ![r] = [req[r] EXCEPT !.pc = "mark_first", !.acc = a]]
      BY <2>2
    <3> QED BY <1>0, <3>2, <3>3
  <2> QED BY <1>2, <2>1, <2>2
<1>8. ASSUME NEW r \in Req,
             \/ LookupName(r) \/ LookupMail(r) \/ CallRegister(r) \/ Insert(r)
             \/ RegisterCommit(r) \/ RegisterFails(r) \/ ReplaceToken(r) \/ MarkSent(r)
             \/ IssueFails(r) \/ SendMail(r) \/ MarkFirst(r)
             \/ MarkVerified(r) \/ VerifyFails(r) \/ Restore(r) \/ RestoreFails(r)
      PROVE  req' \in [Req -> Job]
  <2>1. Return(r) \/ \E label \in PC : Goto(r, label)
    BY <1>8
    DEF LookupName, LookupMail, CallRegister, Insert, RegisterCommit, RegisterFails, ReplaceToken,
        MarkSent, IssueFails, SendMail, MarkFirst, MarkVerified, VerifyFails, Restore, RestoreFails, PC
  <2> QED BY <1>1, <1>2, <2>1
<1>9. CASE UNCHANGED req
  BY <1>0, <1>9
<1> QED BY <1>4, <1>5, <1>6, <1>7, <1>8, <1>9 DEF Next, RequestStep, Expire, MarkerExpires

\* Every step keeps the types; a user who is verified has a row.
LEMMA TypeStep ==
  ASSUME IInv, [Next]_vars
  PROVE  TypeOK'
<1> USE DEF IInv
<1>1. CASE UNCHANGED vars
  BY <1>1 DEF TypeOK, vars, db, keys, ghosts
<1>2. CASE Next
  <2>1. req' \in [Req -> Job]
    BY <1>2, RequestType
  <2>2. ASSUME NEW r \in Req, NEW a \in Account, Register(r, a) \/ Resend(r, a)
        PROVE  TypeOK'
    BY <2>1, <2>2 DEF TypeOK, Register, Resend, db, keys, ghosts
  <2>3. ASSUME NEW r \in Req, NEW t \in Token, Consume(r, t) PROVE TypeOK'
    BY <2>1, <2>3 DEF TypeOK, Consume, db, ghosts
  <2>4. ASSUME NEW t \in Token, Expire(t) PROVE TypeOK'
    BY <2>1, <2>4 DEF TypeOK, Expire, db, ghosts
  <2>5. ASSUME NEW a \in Account, MarkerExpires(a) PROVE TypeOK'
    BY <2>1, <2>5 DEF TypeOK, MarkerExpires, db, ghosts
  <2>6. ASSUME NEW r \in Req, RequestStep(r) PROVE TypeOK'
    <3>0. req[r] \in Job /\ req[r].token \in Token \cup {NoToken} /\ req[r].acc \in Account \cup {NoAccount}
      BY DEF TypeOK, Job
    <3>1. CASE LookupName(r) \/ LookupMail(r) \/ CallRegister(r) \/ IssueFails(r) \/ FindUnverified(r)
      BY <2>1, <3>1 DEF TypeOK, LookupName, LookupMail, CallRegister, IssueFails, FindUnverified,
                        db, keys, ghosts
    <3>2. CASE \E t \in Token : GetCurrent(r, t)
      BY <2>1, <3>2 DEF TypeOK, GetCurrent, db, keys, ghosts
    <3>3. CASE Insert(r)
      BY <2>1, <3>0, <3>3 DEF TypeOK, Insert, keys, ghosts
    <3>4. CASE RegisterCommit(r) \/ RegisterFails(r)
      <4>1. req[r].acc \in Account
        BY <3>4 DEF RowInv, RegisterCommit, RegisterFails, AtPC
      <4> QED BY <2>1, <3>4, <4>1 DEF TypeOK, RegisterCommit, RegisterFails, EndTransaction, keys, ghosts
    <3>5. CASE ReplaceToken(r)
      <4>1. req[r].acc \in Account /\ req[r].token \in Token
        BY <3>5 DEF RowInv, TokenInv, Replacing, ReplaceToken, AtPC
      <4>2. /\ live' = (live \ {req[r].old}) \cup {req[r].token}
            /\ owner' = [owner EXCEPT ![req[r].token] = req[r].acc]
            /\ current' = [current EXCEPT ![req[r].acc] = req[r].token]
        BY <3>5 DEF ReplaceToken, StoreToken
      <4>3. live' \subseteq Token
        BY <4>1, <4>2 DEF TypeOK
      <4>4. owner' \in [Token -> Account \cup {NoAccount}]
        BY <4>1, <4>2 DEF TypeOK
      <4>5. current' \in [Account -> Token \cup {NoToken}]
        BY <4>1, <4>2 DEF TypeOK
      <4>6. raced' \subseteq Account /\ superseded' \subseteq Token
        BY <3>5, <4>1 DEF TypeOK, ReplaceToken
      <4> QED BY <2>1, <3>5, <4>3, <4>4, <4>5, <4>6 DEF TypeOK, ReplaceToken, db
    <3>6. CASE MarkSent(r) \/ MarkFirst(r)
      <4>1. req[r].acc \in Account
        BY <3>6 DEF RowInv, MarkSent, MarkFirst, AtPC
      <4> QED BY <2>1, <3>6, <4>1 DEF TypeOK, MarkSent, MarkFirst, db, ghosts
    <3>7. CASE SendMail(r)
      <4>1. req[r].token \in Token
        BY <3>7 DEF Holding, SendMail, AtPC
      <4> QED BY <2>1, <3>7, <4>1 DEF TypeOK, SendMail, db, keys, ghosts
    <3>8. CASE MarkVerified(r) \/ VerifyFails(r) \/ RestoreFails(r)
      <4>1. req[r].acc \in rows /\ req[r].token \in Token
        BY <3>8 DEF RowInv, HasRow, TokenInv, CheckedOwned, Checking, MarkVerified, VerifyFails,
                    RestoreFails, AtPC
      <4> QED BY <2>1, <3>8, <4>1 DEF TypeOK, MarkVerified, VerifyFails, RestoreFails, db, keys, ghosts
    <3>9. CASE Restore(r)
      <4>1. req[r].acc \in Account /\ req[r].token \in Token
        BY <3>9 DEF RowInv, TokenInv, CheckedOwned, Checking, Restore, AtPC
      <4> QED BY <2>1, <3>9, <4>1 DEF TypeOK, Restore, db, ghosts
    <3> QED BY <2>6, <3>1, <3>2, <3>3, <3>4, <3>5, <3>6, <3>7, <3>8, <3>9 DEF RequestStep
  <2> QED BY <1>2, <2>2, <2>3, <2>4, <2>5, <2>6 DEF Next
<1> QED BY <1>1, <1>2

\* The token of the EXEC is the token of the mail.
LEMMA HoldingStep ==
  ASSUME IInv, [Next]_vars
  PROVE  Holding'
<1> USE DEF IInv
<1>0. req \in [Req -> Job]
  BY DEF TypeOK
<1> SUFFICES ASSUME NEW q \in Req, req'[q].pc \in {"mark", "send"}
             PROVE  req'[q].token \in Token
  BY DEF Holding
<1>1. CASE req'[q] = req[q]
  BY <1>1 DEF Holding
<1>2. ASSUME ReplaceToken(q) PROVE req'[q].token \in Token
  <2>1. req[q].token \in Token
    BY <1>2 DEF TokenInv, Replacing, ReplaceToken, AtPC
  <2> QED BY <1>0, <1>2, <2>1, GotoFields, ReturnFields DEF ReplaceToken, PC
<1>3. ASSUME MarkSent(q) PROVE req'[q].token \in Token
  <2>1. req[q].token \in Token
    BY <1>3 DEF Holding, MarkSent, AtPC
  <2> QED BY <1>0, <1>3, <2>1, GotoFields, ReturnFields DEF MarkSent, PC
<1>4. CASE UNCHANGED req
  BY <1>1, <1>4
<1>5. ASSUME NEW r \in Req, RequestStep(r) PROVE req'[q].token \in Token
  <2>1. CASE r # q
    <3>1. req'[q] = req[q]
      BY <1>0, <1>5, <2>1
      DEF RequestStep, LookupName, LookupMail, CallRegister, Insert, RegisterCommit, RegisterFails,
          GetCurrent, ReplaceToken, MarkSent, IssueFails, SendMail, FindUnverified, MarkFirst,
          MarkVerified, VerifyFails, Restore, RestoreFails, Goto, Return
    <3> QED BY <1>1, <3>1
  <2>2. CASE r = q
    <3>1. CASE ReplaceToken(q) \/ MarkSent(q)
      BY <1>2, <1>3, <3>1
    <3>2. ASSUME Return(q) PROVE FALSE
      BY <1>0, <3>2, ReturnFields
    <3>3. ASSUME NEW label \in PC \ {"mark", "send"}, Goto(q, label) PROVE FALSE
      BY <1>0, <3>3, GotoFields
    <3>4. ASSUME LookupName(q) \/ LookupMail(q) \/ CallRegister(q) \/ Insert(q)
                 \/ RegisterCommit(q) \/ RegisterFails(q) \/ IssueFails(q) \/ SendMail(q)
                 \/ MarkFirst(q) \/ MarkVerified(q) \/ VerifyFails(q) \/ Restore(q) \/ RestoreFails(q)
          PROVE  FALSE
      <4>1. Return(q) \/ \E label \in PC \ {"mark", "send"} : Goto(q, label)
        BY <3>4
        DEF LookupName, LookupMail, CallRegister, Insert, RegisterCommit, RegisterFails, IssueFails,
            SendMail, MarkFirst, MarkVerified, VerifyFails, Restore, RestoreFails, PC
      <4> QED BY <3>2, <3>3, <4>1
    <3>5. ASSUME NEW t \in Token, GetCurrent(q, t) PROVE FALSE
      BY <1>0, <3>5 DEF GetCurrent, Job
    <3>6. ASSUME FindUnverified(q) PROVE FALSE
      <4>1. Return(q) \/ \E a \in rows : req' = [req EXCEPT ![q].pc = "mark_first", ![q].acc = a]
        BY <3>6 DEF FindUnverified
      <4>2. ASSUME NEW a \in rows, req' = [req EXCEPT ![q].pc = "mark_first", ![q].acc = a]
            PROVE  FALSE
        BY <1>0, <4>2 DEF Job
      <4> QED BY <3>2, <4>1, <4>2
    <3> QED BY <1>5, <2>2, <3>1, <3>4, <3>5, <3>6 DEF RequestStep
  <2> QED BY <2>1, <2>2
<1>6. ASSUME NEW r \in Req, NEW a \in Account, Register(r, a) \/ Resend(r, a)
      PROVE  req'[q].token \in Token
  BY <1>0, <1>1, <1>6 DEF Register, Resend, Start, Idle
<1>7. ASSUME NEW r \in Req, NEW t \in Token, Consume(r, t) PROVE req'[q].token \in Token
  BY <1>0, <1>1, <1>7 DEF Consume, Start
<1> QED BY <1>4, <1>5, <1>6, <1>7 DEF Next, Expire, MarkerExpires, vars

\* No account, no token.
LEMMA InitInv == Init => IInv
<1> SUFFICES ASSUME Init PROVE IInv
  OBVIOUS
<1>1. TypeOK
  BY DEF Init, TypeOK, Idle, Job, PC
<1>2. RowInv
  BY DEF Init, RowInv, Unshared, OneAccountPerAddress, HasRow, Idle
<1>3. TokenInv
  BY DEF Init, TokenInv, Owned, Replacing, CheckedOwned, LiveIsCurrent, CurrentIsUsable, Checking, Idle
<1>4. Holding
  BY DEF Init, Holding, Idle
<1> QED BY <1>1, <1>2, <1>3, <1>4 DEF IInv

\* Every step of every request, and every expiry, keeps the invariant.
LEMMA NextInv == IInv /\ [Next]_vars => IInv'
<1> SUFFICES ASSUME IInv, [Next]_vars PROVE IInv'
  OBVIOUS
<1>0. TypeOK /\ RowInv /\ TokenInv
  BY DEF IInv
<1>1. TypeOK' /\ Holding'
  BY TypeStep, HoldingStep
<1>2. CASE UNCHANGED vars
  <2>1. UNCHANGED <<rows, pending, live, owner, current, ghosts, req>>
    BY <1>2 DEF vars, db, keys
  <2>2. RowInv' /\ TokenInv'
    BY <1>0, <2>1, RowsKept, TokensKept DEF QuietForRows, QuietForTokens
  <2> QED BY <1>1, <2>2 DEF IInv
<1>3. CASE Next
  <2>1. ASSUME NEW r \in Req, Untouched(r) PROVE RowInv' /\ TokenInv'
    <3>1. TokenInv'
      BY <1>0, <2>1, UntouchedTokens
    <3>2. Insert(r) \/ RegisterCommit(r) \/ RegisterFails(r) => RowInv'
      BY <1>0, InsertRows, CommitRows
    <3>3. OffRows(r) => RowInv'
      BY <1>0, OffRowsKept
    <3> QED BY <2>1, <3>1, <3>2, <3>3 DEF Untouched, OffRows
  <2>2. ASSUME NEW r \in Req, OffRows(r) PROVE RowInv'
    BY <1>0, <2>2, OffRowsKept
  <2>3. ASSUME NEW r \in Req, NEW t \in Token, GetCurrent(r, t) PROVE RowInv' /\ TokenInv'
    <3>1. req[r].acc \in Account
      BY <1>0, <2>3 DEF GetCurrent, AtPC, RowInv
    <3> QED BY <1>0, <2>2, <2>3, <3>1, GetTokens DEF OffRows
  <2>4. ASSUME NEW r \in Req, NEW t \in Token, Consume(r, t) PROVE RowInv' /\ TokenInv'
    BY <1>0, <2>2, <2>4, ConsumeTokens DEF OffRows
  <2>5. ASSUME NEW r \in Req, ReplaceToken(r) PROVE RowInv' /\ TokenInv'
    BY <1>0, <2>2, <2>5, ReplaceTokens DEF OffRows
  <2>6. ASSUME NEW r \in Req, MarkVerified(r) \/ VerifyFails(r) \/ RestoreFails(r)
        PROVE  RowInv' /\ TokenInv'
    BY <1>0, <2>2, <2>6, CheckedTokens DEF OffRows
  <2>7. ASSUME NEW r \in Req, Restore(r) PROVE RowInv' /\ TokenInv'
    BY <1>0, <2>2, <2>7, RestoreTokens DEF OffRows
  <2>8. ASSUME NEW t \in Token, Expire(t) PROVE RowInv' /\ TokenInv'
    <3>1. UNCHANGED <<rows, pending, req>>
      BY <2>8 DEF Expire, db
    <3> QED BY <1>0, <2>8, <3>1, RowsKept, ExpireTokens DEF QuietForRows
  <2>9. ASSUME NEW a \in Account, MarkerExpires(a) PROVE RowInv' /\ TokenInv'
    <3>1. UNCHANGED <<rows, pending, live, owner, current, ghosts, req>>
      BY <2>9 DEF MarkerExpires, db
    <3> QED BY <1>0, <3>1, RowsKept, TokensKept DEF QuietForRows, QuietForTokens
  <2>10. RowInv' /\ TokenInv'
    BY <1>3, <2>1, <2>3, <2>4, <2>5, <2>6, <2>7, <2>8, <2>9 DEF Next, RequestStep, Untouched
  <2> QED BY <1>1, <2>10 DEF IInv
<1> QED BY <1>2, <1>3
-----------------------------------------------------------------------------
\* The invariant of registration and confirmation holds at all times.
THEOREM Invariance == Spec => []IInv
BY InitInv, NextInv, PTL DEF Spec

\* Every row, key and request has its type, and only a committed user is
\* verified.
THEOREM TypeCorrect == Spec => []TypeOK
<1>1. IInv => TypeOK
  BY DEF IInv
<1> QED BY <1>1, Invariance, PTL

\* However many registrations race through both lookups and the check of
\* sp_register_user, no two committed users share a name or an address.
THEOREM UniqueAccounts == Spec => []OneAccountPerAddress
<1>1. IInv => OneAccountPerAddress
  BY DEF IInv, RowInv
<1> QED BY <1>1, Invariance, PTL

\* Of the tokens a user was ever sent at most one works, unless two
\* replacements for that user overlapped, and none that was replaced comes
\* back through a failed verification.
THEOREM SingleToken == Spec => []OneLiveToken
<1>1. IInv => OneLiveToken
  <2> SUFFICES ASSUME IInv PROVE OneLiveToken
    OBVIOUS
  <2>1. \A t \in live : owner[t] \notin raced => current[owner[t]] = t
    BY DEF IInv, TokenInv, LiveIsCurrent
  <2>2. \A a \in Account \ raced : current[a] \notin superseded
    BY DEF IInv, TokenInv, LiveIsCurrent
  <2>3. \A t \in live : owner[t] \in Account
    BY DEF IInv, TypeOK, TokenInv, Owned
  <2> QED BY <2>1, <2>2, <2>3 DEF OneLiveToken
<1> QED BY <1>1, Invariance, PTL

\* The token emailverify_current names is stored, being verified or used up:
\* no replacement and no restore loses the token of a later mail.
THEOREM CurrentUsable == Spec => []CurrentIsUsable
<1>1. IInv => CurrentIsUsable
  BY DEF IInv, TokenInv
<1> QED BY <1>1, Invariance, PTL
=============================================================================
