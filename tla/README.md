# Dotly: TLA+ models and proofs

Dotly is a contact platform: users own *personas*, personas ask each other for
contact, connect through QR codes, and are cut apart by blocks; *identities* have
connections and conversations with layered permissions. The back end (`src/src`) is a
NestJS modular monolith over PostgreSQL (Prisma). The Photo-Vault add-on
(`src/addons/Photo-Vault/apps/api`) is a second back end with its own database, a
BullMQ queue and an object store. Several instances of each serve HTTP requests and
run jobs at the same time, and nearly every rule of the product is enforced by code
that reads rows in one statement and writes them in a later one. What these models
are about is what such handlers do to each other.

## 1. Inventory

| Part | State | Operations | Hard because |
|---|---|---|---|
| Contact requests: create (`contact-requests/*create*`, `*retry-policy*`, `*recipient-policy*`, `request-rate-limit`) | `ContactRequest` | send a request | block, pending and cooldown checks run before and outside the inserting transaction; the hourly limit is counted under an advisory lock with a time read before it |
| Contact requests: respond | `ContactRequest`, `ContactRelationship` | approve, reject | races with each other and with the cancellation of a block; one row update and two inserts must be all or nothing |
| Blocks | `Block` | create, remove | one transaction whose statements read at different times, while what it is to cut apart goes on being made |
| Relationships | `ContactRelationship`, `Interaction` | instant connect, upgrade, expire, lazy expiry, interactions, notes | updates by id of rows that were checked earlier; limit counted without a lock |
| QR | `QRAccessToken` | create profile / quick connect QR, resolve, redeem | many scans for the last use; errors swallowed inside a transaction |
| Contacts | reads `ContactRelationship` | list, read (both expire lapsed rows) | expiry as a side effect of a read |
| Follow-ups | `FollowUp` | create, update, complete, cancel, trigger; reminder job, passive job | overlapping job runs; stale reads; a reminder must eventually fire |
| Auth: mobile codes | `MobileOtpChallenge`, the numbers in `User` | request, verify | superseding against verifying; attempts counted from a stale read |
| Auth: reset links | `PasswordResetToken`, the password in `User` | request, reset, change password, clean-up | links issued or consumed while the password changes |
| Device sessions | `AuthSession` | login, guard with keep-alive, sign out one / others / all, revocation with a new password, clean-up | revocation misses what is inserted meanwhile; a request that has passed the read while its session is revoked |
| Login throttling | counters and locks in Redis | check, record a failure | commands one by one, a crash between two of them, a cache that may be absent |
| Identities: permissions | connections, overrides, conversations; two caches per instance | merge of five layers, resolution, binding, context, invalidation | guardrails repeated in five files; a hash computed from another read than what it is filed with, and of less than it stands for; instances that are not told |
| Vault: media and purge | `Media`, `UserUsage`, objects, purge jobs | upload, trash, restore, purge, scan | counters moved by calls whose check is stale; the job deletes by id; at-least-once jobs |
| Vault: exports | `Export`, archives, export jobs | create, run, download, delete, clean-up, watchdog | retried runs against clean-up, watchdog and deletion |
| Vault: idempotency keys | `IdempotencyKey` | the interceptor around a handler | look-up and claim are two statements; an error after the effect |
| Vault: continuity packs | packs with items and recipients, `ReleaseInstance` | edit, arm, release, revoke, remove | status checked by one statement, written by another; a release reads the pack in three |
| Analytics, contact memory, notifications | their rows | written by the callers above | best effort inside their callers' transactions |
| Events | `Event`, participants | create, join, leave, discovery | window, visibility and block conditions |
| Personas, profiles, agencies, users, support | their rows | CRUD, activation milestones | read-modify-write of a whole document |
| Vault: accounts, billing, albums, shares | their rows | CRUD, payments | see section 6 |
| Front ends, generated client, configuration, health | none | - | - |

Inside the contact platform the parts meet in the database only: a call from one
service to another runs in the caller's transaction, and instances send each other
nothing. Two kinds of state are outside the database: the throttle's keys in Redis,
shared by all instances, and the permission caches, which every instance keeps for itself.
In Photo-Vault a request commits rows, changes the object store and puts jobs in the queue,
in this order and with nothing that spans them. Every hazard the code has is in
`PROJECT.json`, at its line.

### Database semantics used everywhere

No call names an isolation level, so transactions are READ COMMITTED: each
statement sees what was committed when it starts. The models follow these rules.

* A handler is a process. What it has read is kept in `op[h]`; other handlers run
  between its statements. Consecutive statements are one step only when nothing
  another handler does in between could make a difference.
* A transaction's writes appear in one commit step. The step repeats the conditions
  SQL evaluates again when a row lock is granted (`updateMany` with a `where`, a
  unique index) and does not repeat those the code checked earlier (`update` by id).
  Where a transaction holds a row lock from its first statement to its commit, the
  statement and the commit are two steps if what the statement *sees* matters
  (the sweeps of `ResetLinks` and `DeviceSessions`). A statement that may wait for row locks
  finds its rows when it starts and takes those of them that still match when it gets the
  locks; what is inserted meanwhile it misses (the two statements of a block in `ContactGraph`).
* `update` by id fails if the row is gone (P2025) and otherwise writes whatever the
  row has become.
* A statement that fails aborts the whole transaction, even when the code catches
  its error: later statements fail too and COMMIT silently rolls back.
* A handler can end without effect at any time (`Abort`): an exception, a deadlock
  victim, a lost connection, a crash of the instance. What the instance held in its
  memory is lost with it (`Restart` in `PermissionCaches`); what Redis, the object store
  or the queue hold is not.

## 2. Modules

Each component is a module of its own, parameterised by constants; `...Proofs` modules
hold the theorems about it. Protocols of one service that share no state are put side by
side: `Auth` (`MobileOtp`, with `ResetLinks`, `DeviceSessions` and `LoginThrottle` as
instances), `Permissions` (`PermissionCaches` and `PermissionMerge`) and `Vault`
(`VaultMedia`, `IdempotencyKeys`, `ContinuityPacks`) each have a variable `part` that says,
for a whole behaviour, which of them moves. They compose nothing that interacts, and give
the runs and the theorems one specification; `ContactGraph` does compose, requests, answers,
blocks and connections over one set of tables. The MC modules `EXTEND` these and add
what makes an instance small: which identifiers are used first (`MCFollowUps`), which
media an overlap is about (`MCVaultMedia`), on which instances the permissions live
(`MCPermissions`), what the cache may tear apart (`MCAuth`).

### `ContactGraph` (core) and `ContactLedger` (what it promises)

Tables `request`, `relationship` (existence of the directed row), `block`; handlers
`op`; a clock. `overtaken` is a history variable: handlers whose block check has
been overtaken by the commit of a block. `sent` and `linked` are history too: the requests and
the links that have come since a block that is being made began.

| Action | Code |
|---|---|
| `CreateBegin`, `CreateClear`, `CreateCommit` | `create`: recipient policy with the block check; `assertCanCreateRequest`; `reserveAndCreate` with the partial unique index |
| `ApproveBegin`, `ApproveCommit`; `RejectBegin`, `RejectCommit` | `approve`, `reject`; the commit is the conditional `updateMany`, and for approve the two inserts |
| `BlockBegin`, `BlockCancel`; `BlockLook`, `BlockSever`; `BlockCommit`; `Unblock` | `BlocksService.create`: the `updateMany` of the requests and the `deleteMany` of the rows, each as its start, when it finds what is there, and its end, when it has the locks; the commit; `remove` |
| `InstantBegin`, `InstantLookup`, `InstantCommit` | `instantConnect` with the lookups and inserts of `upsertApprovedRelationship` |
| `QuickBegin`, `QuickCommit` | the relationship side of `connectQuickConnectQr` |
| `Abort`, `Tick` | failure; the clock |

The answer's time is read when the handler begins, as in the code, and the row's
`createdAt` (a column default) may lie anywhere up to the commit. Which personas accept
requests or connections is a constant (`RequestFlow`, `InstantFlow`, `QuickFlow`); the
source and verification policies only refuse, which is `Abort`.

`ContactLedger` has no handlers, clocks or locks: submit, approve, reject, connect,
separate, lift, each atomic. A separation begins (`Begin`), may be given up (`GiveUp`), and
takes effect in one step (`Separate`): it cancels every pending request and cuts every link
between the two users, in both directions. It may miss only what has come since it began
(`Note`): any request, and links only together with those they came with, so that no
relationship is left half-cut. `ImplementsLedger` says `ContactGraph` implements it; a
separation begins with `BlockBegin` and takes effect with `BlockCommit`.

### `RelationshipAccess`

One directed row through INSTANT_ACCESS, APPROVED and EXPIRED. Read/commit pairs for
quick connect (`createOrRefreshInstantAccessRelationship`), upgrade, expire, promotion by
instant connect, lazy expiry outside a transaction (`ReadLapsed`/`MarkExpired`), the
sweep before a list, approval, deletion by a block, and `createInteraction` with its
unlocked count. A deleted and recreated row has another `id`. `sent` is the set of the
interactions on the row.

### `QuickConnectQr`

One token and the scans that redeem it. `ScanCommit` is the consuming `updateMany` with
everything after it. `ScanAgain` is the scan of somebody whose access has lapsed: the
refresh succeeds, its CONTACT_CREATED event is a duplicate, and the transaction is lost
although the answer says `connected` (see findings). `connects` and `unstored` are
history variables.

### `FollowUps`

The follow-ups of one relationship: the owner's calls (`Handlers`), runs of the reminder
job (`Reminders`: `DueFind` selects a batch, `DueCommit` triggers it conditionally) and of
the passive job (`Generators`). The relationship is reduced to active / not active and
`lastInteractionAt`.

### `MobileOtp`

`RequestCheck` is what `requestMobileOtp` reads before its transaction (resend cooldown,
hourly count), `Issue` that transaction: supersede what is active, insert, set the pending
number. `VerifyRead` reads a challenge; `WrongCode` writes the count computed from that
reading, by id, and supersedes at the limit; `RightCode` consumes, supersedes the others and
sets the verified number. Both transactions update the `User` row first, whose lock
serializes them, so each is one step; `WrongCode` takes no lock.

### `ResetLinks`

| Action | Code |
|---|---|
| `IssueCheck`, `IssueSupersede`, `IssueCommit` | `requestPasswordReset`: cooldown and hourly count; the `updateMany` that replaces active links; the insert |
| `ResetRead`, `ResetSweep`, `ResetCommit` | `resetPassword`: the link is read as usable; the User row and the link, both by id, and the other links; commit |
| `ChangeRead`, `ChangeSweep`, `ChangeCommit` | `changePassword`, which supersedes all links |
| `CleanUp` | the deletions of `SecurityArtifactLifecycleService` by their retention times |

A sweep supersedes what was committed when it starts. An issue waits for no lock of the
User row: a link may be inserted between a sweep and its commit (`late`, history).
`knew` records which rows an issue could see, `under` the password a link was issued under.

### `DeviceSessions`

`LoginRead` compares the password, `LoginCreate` inserts the session later.
`GuardRead`/`GuardPass` are the guard of every authenticated request with its conditional
keep-alive. `SignOut(h, S)` is the sign-out of one session, the request's own or another, or
of all others. `ResetSweep`/`ChangeSweep` and `ChangeCommit` are the
revocations that come with a new password, `CleanUp` the hourly deletion.

### `LoginThrottle`

`AuthAbuseProtectionService` over Redis, a command to a step: `CheckLock` (three GETs, for
account and address, account, address), `Fail`, `Increment`, `Expire` (only after the INCR
that created the counter), `SetLock` (NX). `Miss` is a command that finds no connection: it
returns null and the caller goes on as if there were no limit. `Abort` between
two commands leaves what they have done. `torn` (keys whose EXPIRE or SET came late or
never, or whose SET met an older lock that ends before the counter) and `admitted` are
history.

### `PermissionMerge` and `PermissionCaches`

`PermissionMerge` follows one permission through the layers of
`resolveConnectionPermissionsCore`: identity behaviour, relationship behaviour, trust state,
override, risk. Each layer is an action with the code's order of effects and its own
guardrails; templates and behaviour tables are left open (any effect, or none), trust states
and guarded keys are those of the code.

| `PermissionCaches` | Code |
|---|---|
| `Start`, `CheckConnection`, `CheckOverrides` | a cached resolution is used if its hash, computed from two reads, still matches |
| `ReadConnection`, `ReadOverrides` | the resolution itself: two reads |
| `HashConnection`, `Store` | the hash it is filed under is computed afterwards, from two more reads |
| `Answer`; `BindStart`, `Bind` | what a resolution is for: an answer; a conversation's binding, after which the instance drops its context (`InvalidateContext`) |
| `ContextStart`, `ContextLook`, `ContextStore` | `resolveConversationContext`: the conversation is read; a context stored for it as it was read is the answer, with no look at the source; otherwise the permissions are resolved, and a context stored if the conversation is bound to them |
| `ChangeConnection`; `Override`, `OverrideCommit` | a change of the connection; an override, whose date is read before it is written, so that another may overtake it |
| `Invalidate`, `InvalidateContext`; `Touch` | the entries dropped on the instance that made a change, and on no other; another write of the conversation |
| `Restart`, `Tick`, `Abort` | loss of an instance's caches, ageing and expiry of entries, failure |

What is resolved is abstracted to the versions it was read from: every change is taken to
change what is resolved. The source hash has of the overrides what `computePermissionSourceHash`
puts in it, their number and the latest of their dates; two overrides that overlap may leave it
as it was. `updatedAt` of the connection and of the conversation is taken to tell their writes
apart. `of` of an entry (the overrides when its hash was computed) and `backdated` (the last
override that was dated no later than one it found) are there for the properties.

### `VaultMedia`

Read/commit pairs for `completeUpload`, `trash`, `restore`; the owner's purge
(`PurgeRead`, `PurgeObject`, `PurgeCommit`), and the purge job: `Scan` enqueues a batch of
due media with one job id per media, `JobRead`, `JobObject`, `JobCommit`; `JobFail` is a
failed attempt, after which the queue tries again while the worker may go on all the same;
`Forget` is the queue dropping a finished job, which frees its id.
A usage counter changes by increments, so the model keeps it as the sum per media. `stale`
and `begun` are history.

### `VaultExports`

`CreateRead`, `CreateCount`, `CreateCommit`, `Enqueue`: stale exports are failed, active
ones counted, the row committed and then its run enqueued. `Run` claims conditionally;
`Store`, `Complete`, `MarkReady`, or `MarkFailed` and `Retry`. `DownloadRead`/`DownloadExpire`,
`DeleteRead`/`DeleteObject`/`DeleteRow`, `CleanRead`/`CleanMark`/`CleanObject`,
`WatchRead`/`WatchMark`. `Retry` is a run that fails or whose worker seems dead: the queue
runs the job again while attempts are left, and the first worker may go on all the same.

### `IdempotencyKeys`

`Lookup`, `Claim` (upsert), `Effect`, `Store`, `Fail` (the key is deleted when the handler
throws), `Drop` (crash), and `Unprotected`: a request that runs without the key. `effects`
counts what the handler did; `excuse` notes why it may have done it twice.

### `ContinuityPacks`

`EditRead`/`EditCommit` stand for adding and removing items and recipients: the status is read,
the row written later. `Arm` is unconditional, and works after a release too. `ReleaseRead`,
`ReadItems`, `ReadRecipients` are the queries of `executeRelease`, `ReleaseCommit` its
transaction, `Revoke` is `revokeRelease`. A pack or a person that a release refers to cannot be
removed (foreign keys). `blurred` notes that a release overlapped an edit or another release.

## 3. Runs

| Run | Question | Bounds |
|---|---|---|
| `graph_races` | types, one pending request per pair, blocks stop later handlers, answers stand; refinement: approvals whole, blocks in both directions and never by halves | 1 persona pair, 2 requests, 3 handlers, clock still |
| `graph_policy` | hourly limit, cooldown | 3 requests, limit 2, 2 handlers, 2 ticks, hour = cooldown = 1 |
| `access` | honest windows, bounded bursts, who may end an open window | 2 handlers, row created twice, 4 ticks |
| `upgrade_race` | finding | 2 handlers |
| `quick_connect` | uses are connections, retired only when spent, access starts in time | 3 scans, 3 scanners, 2 uses |
| `qr_refresh` | finding | 1 scanner, 3 ticks |
| `follow_ups` | never early, the owner decides, what is due is triggered; bursts of the passive job | 2 follow-ups under the reminder job, 1 call, 2 runs, batch 1, 2 ticks; 3 follow-ups, one of them the owner's at most, under the passive job |
| `auth` | mobile codes, reset links, sessions, lockouts | 2 handlers; 3 challenges, 2 numbers, 2 attempts; 3 links, 1 new password; 2 sessions, 2 new passwords; 1 address, failures counted for 2 ticks; 1 to 3 ticks |
| `vault_media` | counters, objects, liveness of the purge, idempotency keys, releases of a pack | 2 calls on 1 media, 1 call at a time on 2, batch 1, 2 attempts, drift 1, 2 ticks; 2 requests and 2 bodies with 1 key, 2 effects; 2 calls on a pack of 1 item and 1 recipient, armed twice |
| `vault_exports` | ready exports have their archive and are kept; none stays active | 2 calls, 2 exports, 2 attempts, 3 ticks |
| `purge_race` | finding | 2 calls |
| `permissions` | guardrails; timely answers; contexts follow their bindings; stale entries go | every permission, trust state and effect; 2 requests, entries live 1 tick; 1 change of the connection with 2 writes of the conversation (1 instance), with 1 override (2 instances), or with the overlay and without; 2 overlapping overrides of 2 permissions, each there before or not |

Why the bounds are enough: every race in this code is between two handlers over one row
or one pair; a third handler is there for a race that a third one enables or hides (an
approval between the two statements of a block while another block runs). Tables are one
row larger than what can be live at once, so that the row after a replacement is
reachable: a second request of a pair, a challenge or link issued while two others overlap.
Limits are below what the rows allow; attempts are two, so that a first failure is followed by
a last one. Clocks are long enough for a window, cooldown or retention to end and a later action
to happen. One change of the permissions is enough for an entry to be stale, a second
instance for one that is not told, and two overrides for one to be dated before the other. The
second write of a conversation makes a context that was stored for the first outdated. Symmetry is over handlers and row identifiers, which no
property orders; it is not used in runs with liveness. In `auth`, `ThrottleBound` keeps the
cache from tearing commands apart for more than one key and at more than one time, and
lets no login begin at the last tick.

Deadlock is not checked where the system may really stop: a token that has ended (`quick_connect`,
`qr_refresh`), all rows used and the clock at its bound (`auth`, `vault_media`, `purge_race`,
`vault_exports`), a permission that is resolved (`permissions`).

### Each property in a sentence

* `TypeOK`, `AuthTypeOK`: types, and what rows of a kind always have. (The types of
  `QuickConnectQr` are part of its proved invariant.)
* `OnePendingPerPair`, `AnsweredOnce`: the row-level outcome of the races between send,
  approve, reject and block. `ImplementsLedger`: an approval is never seen without both its
  rows; a block cancels and cuts in both directions all that there was when it began.
* `OnlyOvertakenRunBlocked`: a block stops every handler that checks after it; only a
  handler overtaken after its check can still link blocked users.
* `HourlyCap`: no hour, from whichever request it is measured, holds more than the limit.
* `CooldownHonoured`: the cooldown is circumvented only by handlers that passed the check
  before the rejection was committed.
* `WindowsAreHonest`, `OpenWindowsEndByOwner`, `BurstIsBounded`: `accessEndAt` agrees with
  the state whoever wrote last; an open window ends early only by its owner or by a reader
  of an older window, and an approved row is put back only by a call that had read it
  before; the interaction limit is exceeded by less than the number of handlers.
* `UsesAreConnections`, `RetiredOnlyWhenSpent`, `AccessStartsInWindow`: the token's count.
* `NeverEarly`: a reminder does not fire before its time, though it may be put off between
  selection and trigger. `OwnerDecides`: jobs trigger once, and touch nothing that was
  settled. `PassiveBurst`: overlapping passive runs add at most one each. `RunsTriggerDue`
  is `DueIsTriggered` of `FollowUps` where the reminder job runs.
* `OneOpenChallenge`: at most one code would be accepted, and it belongs to the pending
  number. `LockedOut`: a challenge closed by wrong codes stays closed, although a later
  write may lower its count. `IssueBursts`: the codes, and the links, issued within any
  window exceed the limit by less than the calls there are, leaving out links superseded by
  a reset that began before them: clean-up may delete those too early.
* `LinksReplaced`: two links are usable together only if neither issue could see the other.
  `LinksFollowPassword`: no usable link is older than the password, unless it was inserted
  while the change was about to commit.
* `SessionsFollowPassword`: whoever is signed in proved the current password, unless the
  login was overtaken by its change. `SignedOutStaysOut`: a revocation is final, also for a
  request between its read and its keep-alive.
* `LockHolds`: a lockout lets through only logins that had looked at it before, one each.
  `CountedIsLocked`: a counter at its threshold is locked as long as it counts, unless two
  commands were torn apart, or failures of logins that had not seen an older lock outlast it.
* `UsageFollowsMedia`: counters drift only through a call that wrote after its reading was
  overtaken. `LiveHasObject`: an uploaded media lacks its object only if a purge found it in
  the trash. `DueIsPurged`. `KeyProtects`: one effect per key, and the answer of its own
  body, but for the excuses named. `ReleasedAsShown`: what a released pack shows is what its
  recipients were given, once, unless calls overlapped: two releases of an armed pack both
  hand out instances.
* `DownloadableIsStored`: whatever a download link is given for is stored. `ReadyIsKept`: a
  ready export is not taken up or failed again, except by a reader that saw it active.
  `ExportsSettle`: no export stays active.
* `Guardrails`: the blocked are denied, sealed permissions are granted by overrides only,
  blocking and reporting stay allowed. `AnswersAreTimely`: a resolution is no older than the
  request it answers, on any instance, unless its entry eludes the source hash: it was torn
  while it was made, or an override committed since is dated no later than one it found.
  `ContextsAreBound`: a cached context, which is not held against the source, answers with what
  its conversation was bound to. `StaleIsForgotten`: entries that elude the hash and contexts
  are gone in the end all the same.

Some properties exempt, by a history variable or by their wording, the very race their hazard
names, because the code has no defence against it. What they bound is its extent, and they hold
the code to its promise everywhere else: `OnlyOvertakenRunBlocked` (a block between check and
insert), `LinksReplaced` (issues that do not see each other), `SessionsFollowPassword` (a login
overtaken by the change), `CountedIsLocked` (torn commands), `UsageFollowsMedia` (stale
counting), `LiveHasObject` (a restore under a purge, which `purge_race` shows), `KeyProtects`
(overlapping requests, errors after the effect), `ReleasedAsShown` (overlapping releases and
edits), `ReadyIsKept` (a write by id by a reader of an active export), and `AnswersAreTimely`
(entries that elude the hash). `DownloadableIsStored` speaks of exports before their end, which
a clean-up does not touch.

### Fairness

* `FollowUps!FairSpec`, and `MCFairness` where the reminder job runs. `WF(DueFind)`: the scheduler starts the reminder job every minute
  (`follow-up-reminder-lifecycle.service.ts:36`), whatever happened to the last run.
  `SF(DueCommit)`: runs may fail any number of times, but not every run that
  reaches its second statement fails. Nothing is assumed of the owner, the clock or the
  passive job.
* `VaultMedia!Fairness`. Calls end (`WF(Serve)`, which a failure satisfies); the repeatable scan job
  runs again and again (`SF(Scan)`); a job that waits is taken by a worker (`SF(Take)`); time passes.
  Jobs may fail until their attempts are used up, and `DueIsPurged` says so.
* `VaultExports!Fairness`. Calls end, time passes, the repeatable clean-up is started
  (`SF(StartClean)`) and does not always fail on the same export (`SF(Settle)`). Nothing is
  assumed of runs, retries or the watchdog.
* `PermissionCaches!Fairness`. Requests end and time passes: entries expire by the clock alone.

## 4. Findings

Each is a `violation` run; `PROJECT.json` quotes the text the code disagrees with.

1. `upgrade_race`: an upgrade writes APPROVED by id over a row that has expired meanwhile.
2. `qr_refresh`: refreshing a lapsed quick connect tracks a duplicate analytics event inside
   the transaction; the scanner is told `connected` and nothing is stored.
3. `purge_race`: the purge job deletes by id a media that its owner restored after the job
   had found it trashed and due.

## 5. Proofs

Checked by TLAPS for every value of the constants that satisfies the modules' assumptions.
Every safety invariant and every action property that a passing run checks is stated by a
theorem; where an invariant is not inductive, the strengthening is named below.

### Assumptions

Times, limits and counts are natural numbers; rows and calls are finitely many where they are
counted. Beyond that:

* `GraphAssumption`: personas have owners. `FollowUpAssumption`: calls and runs are different
  processes.
* `LinkAssumption`: expired and ended links are kept for longer than the window in which links
  are counted. `SECURITY_ARTIFACT_RETENTION_POLICY` keeps them for 3 and 30 days, and the window
  is an hour. With a shorter retention the clean-up would delete what the limit counts.
* `ThrottleAssumption`: no policy locks at its first failure, and none for less time than it
  counts. `LOGIN_FAILURE_LOCKOUT_POLICIES` has thresholds 5, 12 and 7 in windows of 15 minutes,
  and locks of 15 or 30.
* `Vault` takes `AllowConcurrent` of `IdempotencyKeys` to be false, as it is unless
  `IDEMPOTENCY_ALLOW_CONCURRENT` is set.

### Contact graph (`ContactGraphProofs`)

* Types and races. `TypeOK` is not inductive: `BlockCommit` writes an answer over the
  requests its first statement found, which is well typed only if they are still pending.
  `IInv` adds `DoomedStillPending`, which holds because every answer waits for the row locks
  of open blocks; it is a step of the proof and no result. `OpShapes` reads a handler's contents off its kind; `QuietStep` and
  `DoomedKept` cover all steps that answer nothing; one step per action does the rest.
  `RequestSteps` then sums up what a step can do to the request table, from which
  `OnePendingPerPair` and `AnsweredOnce` follow in a few lines. `OnlyOvertakenRunBlocked` is
  inductive relative to `IInv`.
* `HourlyCap` is kept by the one step that inserts (`Sends`). `RowsDated` says that the rows
  are finitely many and none is later than now. The window of the new row starts no earlier
  than the one that was counted under the lock, and the window of an older row has not changed.
* `CooldownHonoured` counts rows; `AsksCounted` counts with them the handlers that have passed
  the check and may insert yet (`MayAsk`), as if they had. The rejecting handler is none of
  them, hence fewer than there are handlers; and a rejected request was the only pending one of
  its pair (`RowsDated`), so nothing of the pair is later than its rejection when it commits.
* Refinement. `LinkInv` says what a handler relies on between its read and its
  commit (end points of the request being approved, users of the rows being cut, which rows
  were missing) and that requests never change their end points. `BlockInv` says of a block at
  every step that each pending request between its users is one it found or one that has come
  since, and each row one it found or one that came with others of which it found none; `NoteInv`
  that what has come still stands. With these each commit is one ledger step (`SubmitSimulated`
  ... `SeparateSimulated`), so are the beginning and the failure of a block, and every other step
  stutters.

### Relationships, QR, follow-ups

* `QuickConnectQrProofs`. The three token invariants with `TypeOK` are inductive together:
  retiring by the count read at the start is right because that count is never newer than
  the token's.
* `RelationshipAccessProofs`. Whoever writes the row writes times that were read earlier, so
  `Inv` adds `ReadersHonest`: a scan began in the past, and who marks a row as expired
  saw its window lapse. `OpenWindowsEndByOwner` follows step by step (`OwnerStep`).
  `BurstIsBounded` needs `SendBursts`: the interactions of a window and the calls that
  have counted and not yet inserted are together below the limit plus the handlers.
* `FollowUpsProofs`. A call holds the id of a row (`CallsNameRows`), or its write by id would make
  one. `Counted` counts the passive runs that have passed the checks as if they had inserted.

### Auth (`AuthProofs`)

* Codes. `OtpInv` adds `ClosedAtLimit` (whoever records the last failure closes the
  challenge), which `LockedOut` needs of steps that leave the row alone.
  `SupersedeKeeps` says what superseding leaves open; then one lemma for each writing action.
* `IssueBursts`. `OtpBursts` and `LinkBursts` count, for every time w, what was issued within a
  window from w together with the calls still to issue there. `DeletedLate` says
  that what the clean-up deletes is older than the window.
* Links. `Replacing`: an issue replaces whatever it could see and is usable. `Sweeping`: a change
  of the password supersedes all that is active but its own link and what came late.
  `RowsKept` says in one place how a step may treat a link.
* Sessions. `SweepingAll` says the same of the live sessions; `SessionsKept` is the table of
  what a step may do to one. That a revoked session stays so follows from it.
* Throttle. `CounterEnds`: without a tear, a counter has no end only while the call that
  created it is about to send EXPIRE. `LockOutlasts`: a counter at its threshold has a lock that
  ends no earlier. `AdmittedOnce` counts the logins between the second and the third look.

### Permissions (`PermissionProofs`)

* `AnswersAreTimely` speaks of the end of a resolution; `Timely(h)` says it of each step on the
  way. `Known` is what makes so poor a hash enough: an entry's hash is that of the overrides as
  long as they stay, and once they change they outdo it for good (`Outdone`: more of them, or as
  many and a later date) unless one was dated back. Versions only advance, so what a hash matched
  after a request began is as new as the request. `Latest` exists because dates are natural
  numbers (`HasLatest`) and there are finitely many overrides.
* `ContextsAreBound`. `ContextsInv`: whoever saw the same `updatedAt` of the conversation saw the
  same binding, and a stored context is of the binding of its `updatedAt`; so a hit is too.
* `Guardrails` do not say at which layer an effect was set;
  `SealedUntilOverrides` adds that nothing has granted a sealed permission before the overrides.
  Each layer has a lemma (`BehavedKeeps`, `TrustedKeeps`, `OverridingKeeps`, `RiskedKeeps`).

### Photo-Vault (`VaultProofs`, `VaultExportsProofs`)

* Media. `JobsHeld` (a waiting or running job has an attempt left and at
  most one holder, or an attempt too many would be counted) and `CallsInOrder` (who is about
  to take an object away was in order when it began; an upload about to be completed has its
  object or a purge has begun).
* Keys. `OneInside`: without an excuse, one call at a time is inside the handler, and the row is
  its own.
* Packs. `ReadsCurrent`: what a release has read is what is there as long as nothing came in
  between. `ArmingsInOrder`: what is given is of an arming that has been.
* Exports. An archive disappears by a deletion, which `dropped` remembers, or by a clean-up that
  read the row earlier. `Archived` is therefore stored, dropped or past its end; the end
  of a row never moves (`RowLasts`), so what a clean-up holds has ended for good
  (`CallsInOrder`). `ReadyIsKept` needs the types only: `ReadyMove` goes through the actions.

### What the proofs changed

Proving found three places where TLC's instance had been too kind. The bound on issued codes and
links spoke of rows only and is false when a clean-up may delete links earlier than the limit
looks back: hence `LinkAssumption` and the windows of `IssuedIn`. `CountedIsLocked` is false for
a lock that is shorter than the counter, or that an older lock's SET NX keeps: hence
`ThrottleAssumption` and what `torn` notes. And the type of a continuity pack admitted values
from which a step leaves the type.

### Only model-checked

Liveness under fairness (`RunsTriggerDue`, `DueIsPurged`, `ExportsSettle`,
`StaleIsForgotten`), which is out of the prover's reach. The three violations are
counterexamples of TLC.

## 6. Not modelled, and why

* Size: three quarters of the implementation are the generated database client (71 000 lines) and
  the web and mobile front ends (100 000), which carry no protocol between handlers. The map
  names about 7 000 of the 67 000 lines of the two back ends, most of whose rest
  is validation, projection and formatting.
* Auth: sign-up and the e-mail links (the same table shape and protocol as `ResetLinks`, with a
  consumption that also activates the user), the plain window counters of the other
  endpoints, the trust states that follow a verified number.
* Identities: CRUD, stored snapshots, content rules and the enforcement services. They read what
  `PermissionCaches` resolves, and change it as `ChangeConnection` does.
* Events: joins are guarded inserts with the race between check and insert that
  `ContactGraph` has for requests. Milestones: one document is read and written whole; its
  contents are only counted. Creation of profile QRs: no index forbids a second active one,
  and nothing depends on there being one.
* Personas appear as constants, policies as `Abort`. Profiles, support, agencies: no protocol
  between handlers. Configuration, logging, health, clients of mail, SMS and storage: I/O.
* Photo-Vault beyond media, exports, keys and packs: accounts and sign-in have a protocol like that
  of `DeviceSessions`; billing follows an external ledger; albums and shares are CRUD.
  Of continuity, what heirs read, mails and policies: the hourly inactivity check is declared with
  `@Cron`, but no module imports the scheduler, so that only the owner's release runs. Thumbnails,
  multipart uploads and plan limits are left out of `VaultMedia`.
* In modelled services: views and filters, notification and memory contents, the optimistic
  update of notes, public resolution of QRs.
* Deadlocks are PostgreSQL's to break; a victim is an `Abort`.

## 7. What could come next

1. E-mail verification and sign-up beside `ResetLinks`, with an abstract specification of a
   one-time token that both implement.
2. `Events`: join and discovery against windows and blocks; `Milestones`.
3. An abstract specification of the vault's usage counters and of an export's life, with
   `VaultMedia` and `VaultExports` shown to implement them.
4. An abstract specification of the permission caches: a store that answers with some version
   between the request and the answer, or with one that was current within an entry's life.
