# TLA+ verification of the Cerberus task management system

The repository is a task management web application: a FastAPI backend
(`api/app`), PostgreSQL procedures and functions (`db/`), a Redis store for
everything that expires, a batch container that sends due-date notifications
(`batch/app`) and a React frontend (`frontend/src`). Several API workers and a
batch process share PostgreSQL and Redis; nothing but these two serialises them.
That is where the system is hard to test, and what these modules are about.

Each component has a module (state, one action per handler step, `Spec`), an
`MC...` module with `.cfg` files for TLC, and its proofs, checked by TLAPS, in a
`...Proofs` module; three of these hold two components each (section 4). `PROJECT.json` maps every definition to the
lines it models and lists the runs, mutants, hazards, findings and theorems.

## 1. Inventory

| Component | State | Operations | Hard part | Module |
|---|---|---|---|---|
| Admin operations (`admin_user_service.py`, `sp_admin_update_user_*.sql`) | `users.role`, `users.is_active`, one global advisory lock, credentials in Redis | change role, change status, force logout | two admins acting on each other; old value for the audit log; PostgreSQL commit followed by revocations of two Redis calls each | `AdminProtection`, `Credentials` |
| Refresh tokens (`jwt_auth.py`, `redis_store_auth.py`, `rotate_refresh_token.lua`) | token keys, tombstones, family markers, a set per user, all with TTLs | login, refresh, logout, revoke family, revoke all, rollback of a login | rotation, reuse detection and revocation interleave, with failures between calls and expiring markers | `RefreshTokens`, `TokenFamilies` |
| Sessions (`session_auth.py`, `redis_store_session.py`) | session and CSRF keys, a set per user | login, authenticate and touch, logout, delete all, rollback | touch reads, then extends; delete-all reads, then deletes | `Sessions` |
| Login and lockout (`auth_service.py`, `redis_store_security.py`) | failure counter with TTL, history rows, stored credential | login | check-then-count; INCR and EXPIRE apart; a failure at any of six calls | `LoginThrottle` |
| Password reset and change (`email_verification_service.py`, `user_service.py`) | token key, current key, consumed tombstone; password; credentials | request, reset, restore, change | GET then script; restore after failure; revocation before commit | `PasswordReset`, `Credentials` |
| Task ordering (`task_service.py`, `sp_create_task.sql`, `sp_update_task.sql`, `sp_deactivate_task.sql`) | status, position, version; advisory column locks, row locks | create, update and move, deactivate | READ COMMITTED, decisions from reads made before the locks | `TaskBoard` |
| Due-date job (`batch/app`) | slot lock in Redis, pages, notifications, `batch_history` | one run of a slot | OFFSET paging over changing rows, lock TTL, partial commits, crashes | `DueNotification` |
| Registration, e-mail verification (`auth_service.py`, `email_verification_service.py`, `redis_store_auth.py`) | `users` rows, token key, current key, resend marker | register, resend, verify | two lookups, then INSERT; GET then pipeline; restore of a consumed token | `EmailVerification` |
| OAuth sign-in (`oauth_service.py`, `oauth_support.py`, `auth/oauth.py`) | one-time state, cookie, hand-off code, `oauth_accounts` | start, callback, exchange | one-time use, two tabs, two first sign-ins, unrecorded logins | `OAuthSignIn`, `SignInFlow` |
| Projects, members, tasks' access, comments (`project_service.py`, `member_service.py`, `admin_project_service.py`, `task_comment_service.py`, `authorization_service.py`) | project, membership, task and comment rows | all writes, all lists | rights tested before the write; removal unassigns tasks while they are edited; two sets of rules for lists and for access | `ProjectMembers` |
| In-app notifications (`notification_service.py`, `sp_mark_*_read.sql`) | notification rows, `read_at` | list, count, read, read-all | read-all against reads and new rows | `RequestPipeline` |
| Request dependencies, error mapping, history (`deps.py`, `exceptions.py`, `history_middleware.py`, `client_ip.py`) | rate-limit counters, `api_history` rows | every request | INCR and EXPIRE apart; who answers which exception; addresses a client may invent | `RequestPipeline`; the admin guard also in `AdminProtection` |
| Mail (`mail_service.py`) | none | send after the answer | a mail may be lost | a step of `EmailVerification` |
| Batch scheduling (`batch/app/main.py`) | none | start at a slot, shut down | a shutdown cancels a run | `DueNotification.Shutdown` |
| Frontend stores | one in-flight refresh, task detail cache | request, refresh, save | late answers applied to newer state | planned |
| User profile, configuration, health; deployment files | no state that two steps share | | | not modelled |

Interactions: the handlers of `api/app` call the procedures (one transaction per
request) and Redis in separate calls; logging in, deactivation, reset and change
of a password all store or revoke the credentials that `Sessions` and
`RefreshTokens` own; the batch job reads the rows that task procedures write and
inserts rows that the notification API serves.

What makes each component correct is stated in section 3, property by property;
what can go wrong where is listed under `hazards` in `PROJECT.json`.

## 2. How the code becomes a model

- A handler is cut at its awaited calls. One Redis call is one step; a
  `MULTI/EXEC` pipeline and a Lua script are one step as well. Between two steps
  everything else may happen.
- PostgreSQL runs at READ COMMITTED (`api/app/db.py`). In `TaskBoard` a
  multi-row UPDATE takes its candidates from the statement's snapshot, locks them
  one by one and tests its WHERE clause again on the newest version of each. In
  `AdminProtection` the procedures hold one advisory lock from start to commit.
- A key with a TTL is its expiry time, and exists while that is in the future.
  Seconds become ticks; only the order of expiries matters to the properties. In
  `LoginThrottle` a key with a TTL may disappear at any moment.
- Every call may raise. Where a call can take effect although its reply is lost
  (a COMMIT, SET NX, INCR, a pipeline) both outcomes are there. Where a death of
  the process leaves something behind that a property is about, it is an action
  (`RequestDies`, `Crash`).
- Data no property distinguishes is left out: texts, cookies, hashes, mail,
  log lines, counters of `batch_history`. Passwords are numbered.
- Ghost variables (`raced`, `ended`, `shrunk`, `escaped`, `pending`, `cut`,
  `made`, `superseded`, `used`, `kept`, `stable`, `departed`, `bare`, `spent`,
  `abandoned`, `stray`, `unjustified`, `admitted`, and the fields `was` and `before`
  of a request) record history for the properties; no guard reads them.

### The modules

`AdminProtection`. `Call` is the request after `get_current_user` and
`require_admin`; `RejectSelf`, `EnterProcedure`, `AcquireLock`, `SelectTarget`,
`RejectMissing`, `RejectLastAdmin`, `UpdateRow` follow the two SQL procedures
statement by statement, `CommitRole`, `CommitStatus` and `Rollback` the service;
`CommitUnanswered` is a COMMIT that takes effect without its reply, after which
no revocation is tried. `SessionMembers`, `DeleteAllSessions`, `RefreshMembers`
and `RevokeAllRefreshTokens` are the four Redis calls that follow the commit of a
deactivation, and make up `force_logout`. Logins are split at their `is_active`
check; a refresh looks at nothing but the token. Initially there is one active
admin: the documents speak of a seeded one.

`Credentials` is the store that `AdminProtection` and `PasswordReset` share: the
credentials whose key exists, those the user's set names, and what a request has
read by SMEMBERS and not deleted yet. A login stores key and set entry in one
pipeline, a rotation replaces both in one script, and a credential may end at any
moment. The set of a user's sessions may be gone before they are
(`IndexExpires`), as a touch gives it one session's remaining life; that of his
refresh tokens may not, since every rotation renews it. The exact expiry times
are in `Sessions` and `RefreshTokens`. The ghost `escaped` collects the
credentials no revocation was to find, each at the step where it gets away.

`RefreshTokens` implements `TokenFamilies`, the abstract life of a family: a
login opens it with one usable token, a refresh replaces the token, and a family
that has lost its token never gets another. The refinement mapping takes
`usable` to the tokens whose key is alive and whose family carries no live
marker. `Rotate` and `DetectReuse` are the branches of the Lua script;
`FamilyMembers`, `FamilyGet`, `FamilyExec` the loop of `revoke_token_family`;
`RevokeAllMembers` and `RevokeAllExec` the two calls of
`revoke_all_refresh_tokens`.

`Sessions` has the same shape: `Authenticate`, `TouchSession` and `Extend` are
the three calls of an authenticated request, `DeleteAllMembers` and
`DeleteAllExec` the two of a delete-all.

`LoginThrottle` follows `login` from `ensure_login_not_rate_limited` to the
history row and the rollback. The counter of one identifier and address is
modelled; the members of `Slot` run one login after another.

`PasswordReset` has the three Lua scripts as `Save`, `Consume` and `Restore`,
the GET before the first one as `ForgotGet`, and the revocations (again four
calls, over `Credentials`), the commit and their failures in the order of
`reset_password`; `change_password` is the same path without a token. A failure
leads to `Restore` (`StepFails`) or past it (`RequestDies`: the process dies, Redis
fails at the restore, or `update_password` raises a `ServiceUnavailableError`,
which the `except DBAPIError` of `email_verification_service.py:105` does not
take).

`TaskBoard` has the two advisory column locks in key order, the read made
without a lock that decides whether to take them, the version check under
`FOR UPDATE`, the shift statements row by row, the deferred unique constraint
and the deadlock condition of the wait-for graph. The variable `constrained` says
whether the board belongs to a project: the unique index excludes rows without
one, so nothing checks the positions of the other boards.

`DueNotification` has one run of the job from its history row to `finally`, over
the Redis lock of the slot, with pages, chunks and failures, while the API edits
tasks. `Shutdown` is the SIGTERM path of `main.py`: the run is cancelled at
its await, and as CancelledError is no Exception it neither records a failure
nor, unless it had failed before, releases its lock.

`EmailVerification` has `register` from its two lookups to the answer, with the
INSERT waiting for an open transaction that holds the same unique value,
`replace_email_verify_token` as `GetCurrent` and `ReplaceToken`, the resend
marker before or after the mail as the two callers have it, and `verify_email`
as `Consume`, `MarkVerified`, `Restore`. Both keys of a token expire together.

`OAuthSignIn` follows a press of the button: `OAuthStart` stores state, verifier
and nonce under one key and sets the cookie; `Consent` is Google (external);
`CallbackConsume` compares the cookie and takes the state by GETDEL;
`ExchangeCode`, `VerifyIdToken`, `FetchUserinfo` are the provider calls;
`LookupAccount`, `LookupEmail`, `LinkExisting`, `CreateUser`, `ReadBack` resolve
the user in one transaction; `StoreCredential` (session mode) or `HandOff` and
the exchange requests (jwt mode) give out the credential; `RecordLogin` and
`Undo` are the history row and `rollback_login`. `StoreUnanswered` is an EXEC of the
store whose reply is lost, which raises outside the `try` that rolls back, and
`RequestDies` the end of the process at any step. `SignInFlow` is its abstract
specification: a start is unused, open, worked on, handed over, exchanged,
granted or over, and is in one place at a time.

`ProjectMembers` has one request shape for every route: authenticate and load
what the path names (`OnProject`, `OnTask`, `OnComment`), test the right
(`LookForMember`, `CheckAccess`), call the procedure (`Write...`). Each is a
step, so a membership may be gone when the procedure runs. A removal writes two
tables and is two steps: `UnassignTasks` takes the tasks its UPDATE finds and keeps
their rows locked, `WriteRemoval` is the DELETE and the COMMIT that shows both; a
task written in between is not among them. `POST /api/tasks` has an operation of
its own (`create_task_flat`), as it tests no right. The lists are
operators translated from the stored functions; accounts are switched off and on
meanwhile. Versions of tasks are there, positions are not (`TaskBoard`).

`RequestPipeline` takes a request through `get_current_user`, `verify_csrf`
(origin or referer, cookie or stored token, header), the rate limit with the
address `resolve_client_ip` finds in a header the client may have started and each
proxy appends to, the notification services or a public
endpoint that may raise any `AppError`, the handlers of `exceptions.py`
(`AppStatus` lists every class with its status; `InfraStatus` the Redis,
connection and database errors) and the history row, which is written for
exceptions no handler takes as well.

## 3. Runs

`NAME (module.cfg)`; times are with two workers.

**admin_protection** (`MCAdminProtection.cfg`, 416,775 states, about 2.5 min): two
accounts, two requests; two credentials of one account, in both modes.
`ActiveAdminRemains`: somebody can always administer the system.
`OldRowIsCurrent`: the old value returned for the audit log is the committed one
until the commit. `CallsReturn`: no path keeps the advisory lock.
`DeactivatedHoldNothing`: after a deactivation that was answered 200 its user
holds no stored credential, but for those that escaped: a login that had passed
its check before the commit, what was stored or rotated between SMEMBERS and
pipeline, sessions whose index had expired, and the rotations of such a token. A
deactivation that was answered with an error promises nothing here (section 5).

**refresh_tokens** (`MCRefreshTokens.cfg`, about 2 min): four tokens, two
families, two requests, TTL 2, four instants. `OneLivePerFamily`;
`IndexCovers` and `RevokeAllCovers` (exceptions: tokens stored while a revoke-all
of the user was between its two calls); `ImplementsFamilies`, the refinement,
which includes that a revoked family gets no token any more.

**sessions** (`MCSessions.cfg`): two sessions, two requests, TTL 2, absolute TTL
3, five instants. `SessionAndCsrfTogether`; `DeleteAllIsFinal`, whatever touch
was under way; `IndexCovers` with two exceptions:
sessions created during a delete-all, and users whose set was given a shorter
life by the touch of a session near its absolute end (the set then expires
before a younger session).

**login_throttle** (`MCLoginThrottle.cfg`, seconds): two logins at a time, limit
2. `OvershootBounded`: the counter exceeds the limit by at most the number of
concurrent logins less one; `TimedOrOwed` and `LockEnds`: a counter gets its TTL
and a lock ends, unless the single EXPIRE was lost (nothing sets it later);
`AnswerAgrees`: an answer 200, 401 or 403 has its history row and only 200
leaves a credential, but for unanswered calls.

**password_reset** (`MCPasswordReset.cfg`, 708,818 states, about 2 min): three
tokens of one user, two requests, TTL 2, four instants; three credentials, two
password changes, both modes. `SupersededStaysDead` (the tombstone a restore
needs expires no later than the newer token that blocks it); `RestoreGivesBack`: a
failed reset that comes to its restore gets its token back unless a newer one was
saved or the tombstone has expired (it says nothing of a failure that skips the
restore); `OldPasswordEnds`: credentials of an earlier password are gone, except
those that escaped: stored between the revocation and the commit, stored by a
login that had verified the old password, stored or rotated between SMEMBERS and
pipeline, or sessions whose index had expired.

**oauth_sign_in** (`MCOAuthSignIn.cfg`, 272,970 states, about 1.5 min): two
starts in one browser, two requests, two Google accounts, two addresses, two
users, both auth modes. `ImplementsFlow`: one press of the button gives at most
one credential, whatever is repeated, expires or fails. `SignedInAsConsented`:
the credential is of the user linked to the account that consented to this very
start. `PasswordlessCanSignIn`: no failure leaves a row nobody could sign in to.
`UnrecordedIsRolledBack`: a login without a history row is taken back, unless its
rollback failed, the reply of its store was lost or the process died.

**email_verification** (`MCEmailVerification.cfg`, 2,278,990 states, about 3 min):
three accounts of which two share a name and two an address, three requests,
three tokens. `OneAccountPerAddress`: the lookups decide nothing, the unique
indexes do; `OneLiveToken`, except after two overlapping replacements;
`CurrentIsUsable`: the token last stored for a user works, is being verified, or
was used up.

**project_members** (`MCProjectMembers.cfg`, 1,862,315 states, about 2.5 min): an
administrator and two users, a project, a task, a comment, two requests.
`PeriodOrdered`: two PATCHes of one date each never leave an inverted period;
`RemovalUnassigns`: no task is left to somebody who cannot open it, but for three
writes of the task itself: one that named such a user, one that wrote back the
assignee it had read, one that came between a removal's UPDATE and its COMMIT;
`ListedCanBeOpened`: the rules of the lists and of the access checks agree;
`WritesAreJustified`: nobody writes what he had no right to at any time of the
request. The flat creation route is excepted (section 5), and that the right still
holds at the write itself is not claimed: nothing in the code sees to it.

**task_board** (`MCTaskBoard.cfg`, 320,831 states): three tasks in two columns,
three requests. `LockedShiftsKeepOrder`, `LockedShiftsNeverDeadlock`: as long as
every shift ran under its column locks, positions stay unique, no commit meets
the constraint and nobody waits in a circle; `OldStatusIsCurrent`: the version
check makes up for the status read before the locks.

**task_move** (violation): `MoveAppends`. A status change without a position does
not append to the new column: the service fills in the old position.

**due_notification** (`MCDueNotification.cfg`, 896,347 states, about 3 min): two
runs, three tasks, pages of two, one edit, lock TTL 1, a shutdown at any point; a
third run when nothing is due. `ExclusiveRuns`: a run that outlived its lock and
fails does not free the lock of the run after it, so the third one is refused;
without the owner's name in the release script it takes these three to go wrong.
`CompleteMeansSent`; `CompleteCoversStable`: a complete run has notified every
task that matched throughout, if none left the result while it paged; `RunsEnd`.

**request_pipeline** (`MCRequestPipeline.cfg`, 556,143 states, about 1.5 min): two
users, two notifications of one of them, two requests, one client behind a
proxy, one request per window. `HistoryMatchesAnswer`: a history row has the
status and the user of the answer, also for exceptions answered above the
middleware; `AnswerTellsEffect`: after a 4xx nothing is read, after a 200 it is,
and only one's own; `ReadAllCovers`; `AdmittedWithinLimit`: a client has two
counters, his own and, with an entry that is no address, the one of the proxy he
comes through, each with the quota; no header opens him a third.

### Bounds

Two requests are enough for every race of the code that involves two handlers;
the third transaction of `MCTaskBoard` is there because a wait-for circle through
a stale reader needs one that moved the rows, and the third request of
`MCEmailVerification` because a restore can meet two replacements. Three runs of
`MCDueNotification` are a late one, the one whose lock it would free, and the one
that lock keeps out. Three credentials of `MCPasswordReset` are a token, its
rotation and a login beside them. TTL 2 with
four or more instants lets a key be written, outlived by a later one and expire.
Pages of two over three tasks give a full and a short page. The named bounds
(`MaxTime`, `MaxPosition`, `MaxEdits`, `MaxPw`, `MaxVersion`, `Kinds`, `Routes`)
sit in the guards.

Seven runs bound their instance further by a state constraint `Focus` of their
`MC` module, which leaves out combinations of features rather than features:

- `MCAdminProtection` varies roles and registrations without credentials; while
  there are any, the requests are status changes and forced logouts of their
  holder.
- `MCPasswordReset` has the succession of tokens without logins; from the first
  login on, requests change the password or reset it with one token, and no key
  expires.
- `MCEmailVerification` lets the account that shares a name register only while no
  token is out.
- `MCDueNotification` starts its third run only beside two others and when no task
  is due: the lock does not depend on the tasks.
- `MCTaskBoard` takes two requests of any kind outside projects, and three that
  create or move to the top in a project with two tasks.
- `MCProjectMembers` does not vary the project's dates and `is_active` while there
  are tasks or a second member, nor an inactive user with dates, a comment or two
  requests, and its second client only changes what the first one's rights rest on.
- `MCRequestPipeline` lets public requests meet public requests only, keeps the
  mode jwt to the writes of one user, and gives the second user only the attempt
  to mark a notification that is not his.

`CHECK_DEADLOCK FALSE` is used where the clock, the tokens or the runs are used
up at the end of a behaviour. Symmetry is used only where no property is about
progress, over tokens, tasks, sessions and requests, which no definition
distinguishes.

### Fairness

- `AdminProtection`: weak fairness of a request's steps (an awaited statement
  returns or raises); strong fairness of `AcquireLock`, because PostgreSQL queues
  the waiters of an advisory lock.
- `LoginThrottle`: weak fairness of a login's steps and of `KeyExpires` (Redis
  drops a key whose TTL has passed). No fairness for starting a login.
- `DueNotification`: weak fairness of a run's steps; failing and dying are among
  them. Edits of tasks are bounded.
- The four modules with requests of the other handlers (`EmailVerification`,
  `OAuthSignIn`, `ProjectMembers`, `RequestPipeline`) state no liveness: any of
  their requests may be cut off by a disconnect, and nothing waits for one except
  an INSERT or UPDATE, which a closed connection's rollback sets free.

## 4. Proofs

Proved for every number of accounts, requests, tokens, tasks and every TTL, from
the named `ASSUME`s of the modules (sentinels are not members of the sets they
extend, TTLs and sizes are positive as `validate_ttl` requires, `Slot` is finite
in `LoginThrottle`, as are the rows of `TaskBoard` and `RequestPipeline`, the tasks are 1 to any n in `DueNotification`). The bounds of
the runs, and the state constraints `Focus`, do not apply to them. Two components
share a module in `SignInProofs` (`OAuthSignIn`, `LoginThrottle`),
`NotificationProofs` (`RequestPipeline`, `DueNotification`) and `ProjectProofs`
(`TaskBoard`, `ProjectMembers`), so `LoginThrottle`, `DueNotification` and
`TaskBoard` prefix their general names: `LoginSpec`, `JobSpec`, `BoardSpec`.

Each proof has the same course: `Init => IInv`, one lemma or case per action for
`IInv /\ [Next]_vars => IInv'`, and the properties from `IInv`. Where
many actions do the same to a part of the state, an effect (`QuietEffect`,
`ShrinkEffect`, `Stable`, ...) is stated once and a lemma shows that it keeps the
invariant; the actions are then only shown to have the effect.

- `AdminProtectionProofs`: `TypeCorrect`, `AdminSafety`, `AuditSafety`. That an
  admin remains is not inductive: needed are that whoever is between the read
  and the commit holds the lock, that its old row is current, and that a
  decision to take an admin away still has another active admin.
  `DeactivationClears` proves `DeactivatedHoldNothing` from `CredInv`. Its base is
  `SweepInv` of `Credentials`: a stored credential is named by its user's set or has
  escaped, and a request between SMEMBERS and pipeline has in hand every stored
  credential of its user that has not. On it, a deactivation that is still the last
  word on its user (`pending`) has, by the step it has come to, deleted what there
  was of one or both kinds; nothing new arrives that has not escaped, as a login
  checks `is_active` and a rotation needs a token that is there.
- `RefreshTokensProofs`: `TypeCorrect`, `SingleToken`, `RevocationIsFinal`,
  `Refinement`. The heart is `MarkerOutlives`: a marker set by the script lives
  at least as long as the family's token, which with `ExpiryBounded` makes an
  expired marker harmless. `IndexSafety` and `RevokeAllSafety` rest on
  `CoverInv`: the set of a user has every live token and expires no earlier, and
  a revoke-all between its calls has in hand every live token of its users but
  those whose family raced with it.
- `SessionsProofs`: `TypeCorrect`, `Paired`, `DeletionIsFinal`, `NoReturn` (a late
  EXPIRE revives nothing), `IndexSafety`. For the last, `CoverInv` has the index complete
  and long-lived enough, a delete-all between its calls in possession of every
  live session, and (`WithinTTL`) no session longer than the life a login gives
  the index.
- `PasswordResetProofs`: `TypeCorrect`, `SingleToken`, `SupersededSafety`,
  `OneUse`. `Paired` says a usable token is its user's current one and expires
  with it; `SupersededBlocked` says the tombstone of a superseded token expires
  no later than the current key that makes the restore script refuse; `InHand`
  says a consumed token is in one request's hands, so that a used one is in
  nobody's. `OldPasswordSafety` follows a request from SMEMBERS to the
  commit: with `SweepInv`, a request past its pipeline (`Swung`) finds none of its
  user's credentials but escaped ones, and rotations carry the escape on. It holds
  for both values of AUTH_MODE. `RestoreSafety` is an action
  property: by `HeldIsLast` the tombstone names the token a request has consumed,
  and nothing is current, until a newer one is saved.
- `LoginThrottle` (`SignInProofs`): `LoginTypeCorrect`, `Overshoot`, `CounterEnds`, `Agreement`.
  The strengthening counts the logins that have passed the check and not yet
  counted: counter plus pending logins never exceed limit - 1 + slots.
- `DueNotification` (`NotificationProofs`): `JobTypeCorrect`, `Exclusion`: a run that works within its
  TTL is the holder of the lock and the lock's expiry is its own. `SentSafety`
  (`CompleteMeansSent`) has `SentInv`: what a run has read is committed or waits
  in one of its pages, and all of it is committed once the pages are used up. `StableCovered`
  (`CompleteCoversStable`) is about OFFSET paging: `StableInv` says that a task
  that has matched throughout was read or its `Rank`, the number of matching
  tasks before it, is at least the offset. The lemmas on `Rank` (a page that is
  not full is the last, fewer than n tasks lie before the n-th, no task moves
  forward unless one leaves) rest on the least element of a set of numbers,
  which the well-foundedness of `<` on Nat gives without an induction rule.
- `EmailVerificationProofs`: `TypeCorrect`, `UniqueAccounts`, `SingleToken`,
  `CurrentUsable`. `RowInv`: a transaction that has inserted shares its name and
  address with no row and no other open transaction. `TokenInv`: a live token of
  a user whose replacements did not overlap is his current one, and nothing that
  was replaced is current; a token in the hands of `verify_email` is its user's,
  who then still has a current one (`CheckedOwned`), so a restore finds its own
  token there or stays away; the token of a replacement is nobody else's.
- `ProjectMembers` (`ProjectProofs`): `TypeCorrect`, `PeriodSafety`, `RemovalSafety`,
  `WriteSafety`, `ListSafety`. `Sound` says what a request relies on between its
  route and its write, and `Stable` what no step of another request takes from
  it: the owner of a project, the creator and the project of a task. Membership
  is not stable; that it was there once is what `WritesAreJustified` promises.
  `RowsFit` (no task in a project without one, no member without a project) is
  what makes the filtered list and the board the same set. `Covered` carries
  `RemovalSafety` over the gap between a removal's UPDATE and its COMMIT: the tasks
  of the leaving member are locked by it or stray. `Asked` is the exception of
  `WriteSafety`: every operation but the flat creation comes to its write with a
  right it had.

- `OAuthSignIn` (`SignInProofs`): `TypeCorrect`, `ConsentSafety`, `LinkSafety`,
  `RollbackSafety`, `Refinement`. `JobsOK` says what a request knows at each step:
  its code was issued for the account it names, from the nonce check on for the
  very start it answers, and from `read_back` on the account's link leads to its
  user; `HandoffsOK` says the same of the hand-off codes, `AddressesOK` that
  addresses are unique and a link leads to the user with the account's address.
  `Grows` is why this survives the other requests: codes, addresses and links are
  only added. The refinement of `SignInFlow` has an invariant of its own,
  `OneHolder`: a used start is in one place at most (its key, a request, a
  hand-off, an exchange, a credential) and an unused one nowhere; each step then
  moves one start along the flow or ends starts.
- `RequestPipeline` (`NotificationProofs`): `TypeCorrect`, `HistorySafety`,
  `AnswerSafety`, `ReadAllSafety`, `LimitSafety`. `JobOK` has four parts: who
  `request.state.current_user` is at each step (`UserOK`), the written row
  (`RowOK`), that only a request not refused has marked anything, and only rows of
  its sender (`EffectOK`), and that what read-all found is read or in its open
  transaction, while everything it counts came after it (`CoverOK`). `LimitOK` says
  that a request is admitted under the key it is counted under, whoever has to
  answer for it (`CounterAnswers`), which makes the separate INCR and EXPIRE, and an
  INCR without a reply, safe for the limit.
- `TaskBoard` (`ProjectProofs`): `BoardTypeCorrect`, `StatusSafety`, `OrderSafety`,
  `DeadlockSafety`. Unique positions are not inductive: in the middle of a shift
  a column has neither its old nor its new order. `ReqOK` says per transaction
  where it is and what it has (`Shape`), which locks it holds (`HoldOK`), that it
  locks columns in key order (`KeyOK`), that a row with the version the client saw
  has the status that was read (`VersionOK`), and, unless some shift ran bare,
  `OrderOK`: what it has written is harmless to every column it has not locked,
  exactly the rows its statements match are shifted, each once (`ShiftOK`), and
  before its COMMIT the columns it has locked are in order as it sees them. Rows
  that two transactions insert differ (`InsertOK`). The deadlock proof: whoever
  waits for a row holds its columns' locks, so it does not wait for another
  waiter for rows (`RowWaitersApart`); the others wait for column locks of
  strictly rising keys (`WaitsUpward`), and there are three keys.

`TypeCorrect` of every module, `RevocationIsFinal`, `NoReturn`, and `SingleToken`
and `OneUse` of `PasswordResetProofs` prove definitions that no run lists on their
own; the runs check what they lead to.

Every invariant, every action property and both refinements that a passing run
checks are theorems. Only model-checked: liveness (`CallsReturn`, `RunsEnd`,
`LockEnds`), which with its fairness and ENABLED is outside the prover's reach, and
the counterexample to `MoveAppends`, which needs no proof. Nothing is proved about
deadlock freedom outside `TaskBoard`; TLC checks it where the configuration does.
Mutants: for each property `PROJECT.json` names a plausible bug (an operator
commented "Mutant" beside the definition it would replace) that makes TLC find
the property violated.

## 5. Findings and observations

The run `task_move` refutes a statement of the documents, quoted in
`PROJECT.json`. The following showed up while modelling; they appear as named
exceptions of properties that hold, or as what an action does.

Credentials and tokens:
- `revoke_all_refresh_tokens` misses a token rotated between SMEMBERS and its
  pipeline, though `docs/basic_design/02_redis.md:143` has all of them revoked.
  After a deactivation such a token goes on being rotated, as `jwt_auth.py:131-150`
  does not look at `is_active` (`raced` in `RevokeAllCovers`; `escaped` in
  `DeactivatedHoldNothing` and `OldPasswordEnds`).
- A touch near a session's absolute end shortens the life of the user's set, and a
  delete-all after that does not find his other sessions; a login that overlaps a
  deactivation or a password change may store its credential after the revocation;
  a lost EXPIRE leaves a failure counter that only a successful login removes.
- `change_status` commits and then revokes (`admin_user_service.py:169`, 186-210):
  a failed revocation is answered 503 with the row changed, and a COMMIT whose reply
  is lost is followed by none. `security_business_rules.md:74` has Redis first and
  no row changed then; `03_patch_admin_user_status.md:27` agrees with the code.
- A reset whose `update_password` raises a `ServiceUnavailableError` does not come
  to its restore (`email_verification_service.py:105` takes `DBAPIError` only), so
  the mailed token is gone.
- A login by Google whose EXEC takes effect without its reply, or whose process
  dies before the history row, leaves a credential without one
  (`StoreUnanswered`, `RequestDies`).
- An entry of X-Forwarded-For that is no address moves a client to the counter of
  the proxy it comes through, so it has two (`client_ip.py:29-31`; the proxy appends
  to what the client sent, `nginx.conf:10`). `security_business_rules.md:94`
  prescribes the fallback, while line 104 speaks of preventing evasion by forged
  addresses; the fallback counter is shared by all who come that way.
- Two overlapping replacements leave two working verification tokens, where
  `03_auth.md:404` and `06_token_mail.md:231` speak of one (`raced`).
- Two registrations that pass both lookups: the loser's 23505 becomes a 500,
  while `01_post_auth_register.md:196` has a 409.

Projects and tasks:
- The unlocked read that decides on the column lock (`sp_update_task.sql:29`) may
  be stale; two moves can then wait for each other, which PostgreSQL ends with a
  deadlock error.
- A PATCH of a task outside projects can name an assignee who cannot open it,
  though its creation refuses one (`schemas/task.py:46-53`), and the calendar then
  shows it to him. Removing a member does not raise the version of his tasks, so
  a stale update writes him back, and a task that names him after the removal's
  UPDATE and before its COMMIT is in neither (`stray`;
  `05_table_project_members.md:134`, 254 has the two statements in that order, in
  one transaction, which READ COMMITTED does not make enough). Inside a project the
  assignee need not be a member (`06_table_tasks.md:36`).
- `POST /api/tasks` with a `project_id` asks for no membership
  (`tasks_router.py:81-89`, `task_service.py:195`), where `11_post_tasks.md:23`, 108
  has a 404 for who is no member. `WritesAreJustified` excepts this operation by
  name, and only it.
- Every right is tested before the statement that writes, and nothing locks what
  was tested: a write may come after the membership, the project or the account
  has gone.
- `fn_is_project_member` answers TRUE for every active administrator and FALSE for
  an inactive member. Only P0003 becomes "already a member"; two concurrent
  additions end in a 23505 and a 500.
- PATCHes of a project and of a profile read, merge and write without a version:
  the later one undoes the fields of the earlier one.
- The project list counts active tasks, the project's own page and the admin list
  count inactive ones too.

Batch:
- OFFSET paging passes over a task when an earlier one leaves the result between
  two pages (`07_batch.md:118`; the exception of `CompleteCoversStable`).
- The assignee is part of the key that keeps notifications apart: a task given to
  another user between two extractions of a slot is notified to both.
- `scheduler.shutdown(wait=True)` of an AsyncIOScheduler cancels the running job;
  `docs/detailed_design/batch/01_scheduler.md:104` says it finishes its chunk. The
  lock and the history row stay behind (`Shutdown`).
- When the reply to SET NX is lost the run fails without knowing that it has the
  lock, and the slot's runs within the TTL are skipped.

## 6. Plan

Done: the backend's components and the batch job, with proofs of all their safety
properties and refinements. Left:

1. The frontend: the single-flight refresh of the JWT adapter composed with
   `RefreshTokens`, and the task detail store's late answers.
2. `Sessions` and `RefreshTokens` with their expiry times as implementations of
   `Credentials`, over which `PasswordReset` and `AdminProtection` are composed with
   the store already.

### Not modelled

- Frontend rendering, hooks and polling: they hold no state the backend relies
  on; their calls are the requests of the modules above.
- `core/config.py`, health checks, deployment files: read once or read only.
- The user profile and the lists of login histories: one row, one statement; the
  lost update of the profile is noted above.
- The notifications that the task procedures insert: rows of `RequestPipeline`
  appear at any time, which includes them.
- Texts, masking of logs, rendering of mails, hashing and signatures.
