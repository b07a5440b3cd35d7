# EduHub backend: formal models

TLA+ models of the EduHub API server (NestJS, PostgreSQL through Prisma, Redis,
BullMQ), checked with TLC and, where TLAPS reaches, proved. Each module is a
translation of TypeScript code under `src/`; `PROJECT.json` maps every
definition to the lines it stands for.

## 1. The system

EduHub is an online-education backend. One Node process serves HTTP requests,
runs queue workers, and keeps its state in PostgreSQL and Redis; several
instances may run side by side. Handlers are `async` functions: any number of
requests are in flight, and everything another request does may happen at every
`await`. PostgreSQL transactions run at the default isolation (READ COMMITTED)
and nothing in the code asks for a stronger one, locks a row explicitly, or
retries an aborted transaction.

| Component | State it keeps | Operations | Uses |
|---|---|---|---|
| **Sessions and tokens** (`token.service.ts`, JWT strategies) | `User.tokenVersion`, one `RefreshToken` row and one `Session` row per (user, device) | sign a token pair, upsert a session with a device limit, rotate a refresh token with reuse detection, log out one device or all | called by every authentication handler |
| **Authentication handlers** (`auth.service.ts`, `auth.controller.ts`) | `User`, `AuthSecurity`, one `VerificationToken` row per (user, type) | signup, verify code, login, Google login, request and perform a password reset, change password | sessions, rate limiter, queues |
| **Platform administration** | `User.status`, `User.role` | create an administrator, change an administrator's status | the status decides whether tokens are accepted |
| **Rate limiter** (`redis.service.ts` `rateLimit`) | a sorted set with an expiry per identifier | one Lua script per call | asked first by signup, verify, login, reset |
| **Redis cache** (`redis.service.ts`) | Redis keys, tag sets, locks; an in-process LRU and a map of running fetches | get, set, getOrSet with a lock, invalidate a tag, batches | no caller yet |
| **Background queues** (`common/queues`) | BullMQ queues in Redis; `LoginHistory`, `AuditLog`, `DeadLetterJob` rows | add by id, run a handler, retry, dead-letter | fed by the authentication and content handlers |
| **Badges and diamonds** (`badge.service.ts`) | badges, rules, `UserBadge`, `DiamondWallet` | manage, evaluate rules, award | no caller of the award yet |
| **Categories, plans, features** | category tree, plans, category-plan links, feature flags | create, update, remove, each a look and a later write | each other's rows through foreign keys |
| **Subscriptions** | subscriptions with their categories, grants | subscribe, grant, list, cancel | access token, plans, categories |
| **Books and chapters** | books, chapters with an order | create, update, remove, each with an audit job | admin-audit queue |
| **User profiles**, **seed** | `Profile` and the row below it (`StudentProfile`, `AdminProfile`, ...) | create with an account, update the student profile, seed the super-administrator | accounts |
| **Guards**, **crypto**, **mail**, **files**, **configuration** | see `PROJECT.json` | | |

What is hard in it, and what makes each part correct:

* **Sessions.** Every handler reads the account, then a row, then writes, with
  awaits and (for logins) a bcrypt comparison in between; logins, refreshes,
  logouts, password changes, lapse of tokens and administrators interleave. Two
  tables record one session. Correct means: a token works from its grant to the
  next global termination and never after; a token of the current version
  descends from a login with the current password; a replaced refresh token
  never becomes current; a listed session has its token.
* **Account.** Codes are compared and spent in separate statements, errors are
  thrown inside transactions (which rolls them back), and signup writes by id
  after a decision taken outside its transaction. Correct means: a code is good
  once, an unverified password can only be activated with the code mailed for
  it, wrong attempts count, signup never touches a verified account.
* **Rate limiter.** The clock is the caller's, the script is the store's, and
  the key's expiry runs on a third rule. Correct means: a sliding window, in
  both directions (never too many, never refused without cause), and an honest
  waiting time.
* **Queues.** Handlers run at least once: after a crash, a lost lock or a lost
  answer they run again, possibly twice at the same time. Correct means:
  a handler that runs again finds the row of the run before, no completed job
  without its effect, bounded mails, a dead letter exactly for exhausted jobs, and no job left behind.
* **Redis cache.** Two levels of which one is not told of the other's changes,
  replies that arrive after later writes, a lock that expires, and a map of
  promises that is looked at before two awaits. Correct means: old values go by
  themselves, an instance sees its own writes, only a fetch that outlasts its
  lock lets two callers hold it, no caller waits for a promise nobody works on, a
  tag knows its keys although pipelines are not atomic.
* **Catalogue.** Every handler looks, decides and writes in a later statement,
  outside a transaction; some uniqueness rules have an index behind them and
  some (plan names, labels, names but for case, roots) have none. Correct means:
  what the look is for holds afterwards, whichever fields were changed; where
  only the look stands, an overlap may break it and nothing else may.
* **Books and chapters.** As the catalogue, and the change is committed before
  its audit entry is queued. Correct means: no change is missing from the trail
  but for a crash, a queue that refuses, or a chapter removed by a statement whose
  answer was lost.
* **Badges.** An event works through its rules with an await between looking,
  judging and awarding, next to other events and to administrators. Correct
  means: every badge is paid once, and one that is held does not stop the rest.
* **Profiles.** Two rows are inserted after a look outside the transaction, with
  a name and a code no other student has. Correct means: both rows or none, and
  both whenever no other insert came in between.
* **Codes by mail.** A job whose id is taken is dropped silently, and the id is
  the minute. Correct means: the code that is stored is also mailed.

The full list of hazards, each at its line and with the properties that cover
it, is in `PROJECT.json`.

## 2. Modules

| Module | Role |
|---|---|
| `SessionContract` | abstract: what clients are promised about tokens, without any table |
| `AuthSession` | detailed: TokenService with login, refresh, logout, logout-all, change-password; refines `SessionContract` |
| `Account` | extends `AuthSession` (composition: same rows, same requests) with signup, codes, reset, Google login, administration |
| `CodeMail` | composition of the limit on an address, the row of its code, and the queue of its mails |
| `WindowPolicy` | abstract: the sliding window, up to a clock error `Slack` |
| `RateLimiter` | detailed: `rateLimit`; refines `WindowPolicy` |
| `RedisCache` | the two cache levels, tags, `getOrSet` |
| `JobQueue` | producer, worker slots, faults, dead-letter queue |
| `Overlap` | what all handlers that look first and write later have in common |
| `Category`, `Plan`, `Feature` | the catalogue: tree, plans with their links, features |
| `Books` | books, chapters and their audit entries |
| `Badges` | badges, rules, events, awards, wallet |
| `Profile` | accounts with their profile rows, the seed |
| `Subscribe` | from the access token to the row of a subscription or grant |
| `AuthSessionProofs`, `RateLimiterProofs`, `RedisCacheProofs`, `OverlapProofs` | theorems about the module of that name |
| `AccountProofs` | theorems about `Account`; extends `AuthSessionProofs` and uses its step lemmas |
| `JobQueueProofs` | theorems about `JobQueue`, and about the mails of `CodeMail` on that queue |
| `CatalogProofs`, `LearningProofs` | theorems about `Category`, `Plan`, `Feature`; `Profile`, `Badges`, `Books` |
| `MC...` | values and symmetry for TLC; `MCCatalog` and `MCLearning` also put components side by side |

### Model and code

**AuthSession.** All queries filter by `userId`, so one account is modelled.
`refreshRow[d]` and `sessionRow[d]` are the unique rows of device `d`; a row
with `jti = 0` does not exist. The i-th UUID drawn is `i`. `req[p]` holds the
local variables of a handler at an `await`; `at` is the statement it will run
next. The steps are the *statements that matter under READ COMMITTED*: each
read that later code relies on is a step; the writes of a transaction take
effect in the step that commits them; if an earlier statement of the transaction
finds rows by a condition (the first `updateMany` of a revocation), it is a step
of its own that records and locks the rows it found. `RowsFree` and
`UserRowHolders` are the row locks PostgreSQL takes, so a write waits for another
transaction's commit exactly where it does in the database. `Fail` is every
error exit of a handler, including a deadlock abort. `password`, `terminations`
and the `password` of a token are history variables. `born` is the rank of
`createdAt`; it is given at the commit of the insert, whereas the database takes
`now()` at the start of the transaction, so two first logins that overlap may be
ranked the other way round in reality; no property depends on that. `LOCKED` and `DELETED`
accounts take the branches of `SUSPENDED` everywhere. bcrypt/argon hashes are
equal exactly when their inputs are.

**Account.** Same treatment for the handlers around the sessions; `form[p]`
holds the locals of a handler of this module, and its session part goes through
the steps of `AuthSession` (`req[p]`). A throw inside the callback of
`prisma.$transaction` rolls back, so `WrongCode` changes no row. The rate limits
in front of the handlers only refuse requests and are left out here: whatever
holds without them holds with them.

**RateLimiter.** One identifier (keys do not interact). `ReadClock` is
`Date.now()`; `Allow` and `Deny` are the Lua script, atomic in Redis. `Late` is
how long a call may take from the reading to the script (including a clock that
is behind), `Early` how far a caller's clock may be ahead; the guarantees are
exact when both are 0. `told` is the time to come back that the reply
`resetInSeconds` names; it is dropped once another call is allowed.

**JobQueue.** The handlers and listeners are the repository's; how BullMQ moves
jobs (promotion, locks, stalled jobs, `attemptsMade`) is external and modelled
from how the code uses it. `slot[s]` is one concurrency slot; `lock[j]` is the
slot whose result still counts. `LoseLock` lets a handler run on without its lock
while another slot takes the job; `Crash` kills all slots and pending listeners
of the process and keeps Redis. `failing` holds the calls of `onFailed` that have
not yet pushed. A row job upserts by id with `update: {}`: `Look` for the row,
then `Insert`, which the unique index on `jobId` rejects (`Throw`) if another run
has inserted meanwhile. (Where the client runs the upsert as one statement of the
database, `Insert` follows `Look` at once, which is one of the behaviours here.)
A mail job sends each time it runs. `lapsed` is history: the jobs whose lock
lapsed under a handler. Whether BullMQ counts the failure of a job that stalled too often as an
attempt depends on its version: both are allowed.

**RedisCache.** A value is the number of the write that stored it, so "older" is
a comparison. An instance has one connection: its commands take effect in the
order they are sent and replies are handled in that order, which is the order of
`replies[p]`; a single command acts in the step that sends it, the code behind its
`await` in the step that handles the reply. `pipeline()` is not `MULTI`: `pipe[p]`
is what is left of the pipeline of an instance, and `PipeGet`, `PipeSet`,
`PipeAdd`, `PipeDel`, `PipeDelTag` are its commands, each a step of the store,
with those of the other instances in between; the next command of the same
instance comes after its last one. A pipeline visits its keys in any order. That
one of its commands alone is refused, which `exec` does not report as an error, is
left out. `local` is the LRU cache with the
time each entry has left, `lockMap` the map of promises, `lock` the time the lock
of a key still exists. `stale` counts how long a value has been gone from the
store. `Finally` is the `finally` of `getOrSet`, with a `releaseLock` that may be
rejected. `Evict` makes room in a full L1. `MaxDelay` bounds the wait for a reply.
A fetcher may take any time, also longer than the lock lives: `overrun` is history
and holds the locks that a holder outlived, until nobody holds them any more.
`loose` is history too: the keys whose `SADD` ran while an invalidation under way
had not listed them or had deleted them already (`Missed`), and whose value
therefore outlives the tag.

**Overlap, Category, Plan, Feature, Books.** A handler is two steps: the look (its
guard is the conflict test, what it decides goes into the call's record) and the
write (its guard are the constraints of the schema, a violated one makes
`...Fail` the only step left). `raced` is a history field: another request has
written the table between look and write; a row keeps the `raced` of the request
that wrote it. So a property can say what the looks guarantee by themselves and
what only an overlap breaks. A request that dies never takes its second step.
Ids of rows are never used again. A category's name stands for the slug made
from it; Bengali names all give the empty slug and so exclude each other among
siblings. `Plan` has the deletion of categories too (`ShelfRemove`) because links
refer to them. In `Books` a request ends with its audit entry: `Wrote` and
`Refused` prepare it, `LogAction` queues it, `LogRefused` is the queue that
refuses, `BookCrash` the end of the process. When the answer of a write is lost the
handler enters a failure for what it did; the removal of a chapter then enters
nothing, because its catch block has no entry: the second branch of
`ChapterRemove`, which counts it in `forgotten`. What an entry says is not
modelled.

**Badges.** One student. `EventRead` is the `findMany`, then the loop takes its
rules in any order (the query has none): `EventSkip`, `EventJudge`, `AwardRead`,
`AwardCommit`. `EventFail` is the error of `awardBadge`, which ends the loop.
`award` keeps what a `UserBadge` row said after the cascade from a removed badge
took it; `Held` is the row itself.

**Profile.** An account is its e-mail. `NameOf(base, n)` is the name that a first
name and a number make; nothing is assumed of it, so that several bases may make
one name, as "rahul" with 1 and "rahul1" do. The search for a name and the one for a
code are one step: an insert between their queries leaves the request `raced`, as
one before or after them does. Staff comes with both rows, students get them with the first update;
`PATCH profile/student` is open to every role, so staff gets a `StudentProfile`
below its profile as well, as in the model.

**CodeMail.** One address and one kind of code. `passed` is when the limit last
let a request through, `Minute` the id of the job, `Added` the queue that keeps
the older job of an id. Nobody awaits the add, so its failure is an unhandled
rejection that ends the process: `MailCrash`.

**Subscribe.** `RequestUser` is what `AtStrategy.validate` returns and `GetUser`
the decorator that takes a field of it; an undefined column value is refused, an
undefined filter is none.

## 3. Runs

| Run | Question | Bounds | Result |
|---|---|---|---|
| `sessions` | Do overlapping requests of one account keep `ListedSessionHasToken`, `AcceptedTokenKnowsPassword`, `FamilyIsOneLogin`, `SupersededStaysDead` and the contract? | 2 requests, 2 devices, device limit 1, 3 pairs, 2 terminations; 1.8 M states | holds |
| `sessions_serial` | What holds if requests do not overlap: `RowsAgree`, `DeviceLimit`, `SingleUse`, `ActiveRowIsLive`, `RevokedUntilLogin` | 1 request, 3 devices, limit 2, 5 pairs, 1 termination; 3.9 M states | holds |
| `account` | Do signup, codes, reset, Google login and administration, overlapping with all session handlers, keep the contract? | 2 requests, 1 device, 2 pairs, 1 code, 1 termination; 1.4 M states | holds |
| `account_serial` | `RedeemedOnce`, `PendingPasswordHasCode`, `SignupSparesActive` for requests that do not overlap | 1 request, 2 pairs, 3 codes, 2 terminations; 2.8 M states | holds |
| `rate_limiter` | Does the limiter implement the window, and is the wait honest? | 2 callers, limit 2, window 4 ticks, "second" of 2 ticks, clocks 1 late / 1 early, 7 ticks; 1.5 M states | holds |
| `redis_cache` | How stale may L1 be, when do two hold the lock, which promises are alive, which keys does a tag know? | 2 instances, 2 calls, 2 keys, 2 writes, one instance writes batches of the 1st key, the other also of both, L1 lives 1 tick, the lock 2, a reply takes up to 1, a fetch any time; 1.6 M states | holds |
| `job_queue` | Which reruns are rejected, completion, bounded mails, letters, every job settles | 2 slots, a row job and a mail job, 2 attempts, 1 tolerated stall, each id added twice, 1 crash, 1 lost lock; 0.7 M states | holds |
| `catalog` | What do the looks and the constraints guarantee for categories, plans, links and features? | 2 requests; 3 categories, 2 slugs; 2 plans, 2 links, 2 categories, names of which two differ in case; 2 features; 1.4 M states | holds |
| `learning` | Are the audit, chapter orders, wallet, awards, profiles and the mails of codes what they should be? | 2 requests; 2 books, 2 chapters, 2 orders; 2 badges, 2 rules; 3 accounts, first names "rahul" and "rahul1", numbers to 2; window 4, minute 2, delay 2, 12 ticks; 1.0 M states | holds |
| `breach_reply` | Is "All sessions terminated" true when a reuse is detected? | 1 request | **violated** |
| `otp_attempts` | Is a wrong code counted? | 1 request | **violated** |
| `subscribe` | Can a student subscribe to a plan that exists? | 2 accounts, 1 plan, 1 category | **violated** |

`catalog` and `learning` each hold several components that share no row and no
lock, so no behaviour of one depends on another; the initial state chooses which
one runs and the others rest, which explores exactly the behaviours of each.

Five more configurations answer questions about single races and are run by
hand; each ends in the counterexample that *Disagreements* describes:
`AuthSessionLogoutRace.cfg`, `AccountSignupRace.cfg`, `JobQueueHang.cfg`,
`JobQueueLetter.cfg`, `RedisCacheStampede.cfg` (with the type invariant of the
cache, which `RedisCacheProofs` proves).

*Why the bounds suffice to make the cases happen.* Two requests are the smallest
number for a race, and every race in the code is between a read and a write of
one request with the commit of another; two devices with limit 1 make eviction
happen; three pairs allow a login, its rotation and a replay or a second login;
two terminations let a request started before the first be overtaken twice. In
the serial runs the length of the history matters, so there are more pairs,
devices and codes instead. `MaxClock` 7 with a window of 4 lets a second
window begin while entries of the first are still counted, lets the key expire
and be created again, and lets refused callers wait to the second. Two attempts,
one tolerated stall, one crash and one lost lock are enough for a handler to run
next to its own successor, for a stalled-out failure, and for a letter that is
delivered again; adding an id twice covers the reuse of an id after
`removeOnComplete`. In the catalogue and in `learning` a race takes two requests
and a conflict two rows; a cycle of categories takes a third, and a name that
differs in case a second spelling. Two badges with two rules let one event skip
the first and award the second while another event awards, and while rules and
rewards change. With two bases of which one makes a name of the other, and
numbers to 2, a search has to pass over a name of the other base, and two students
of one base that overlap find the same name. In
`CodeMail` a window of two minutes, with requests as slow as a minute, lets two
requests come as close as the limit allows, several times over. Two calls of one
instance, and writes of another, are what `getOrSet` needs to wait, to join, to
give up and to be overtaken; a batch of two keys lets commands of the other
instance run inside it, a lock of two ticks is outlived by a fetch of two; one tick of L1 with one of delay makes a reply
arrive after the write it misses. All bounds are named constants (`MaxJti`, `MaxVersion`,
`MaxCodes`, `MaxClock`, `MaxAdds`, `MaxCrashes`, `MaxLockLosses`, `MaxWrites`,
`MaxName`, `MaxRows`, `Horizon`, and the sets of ids).

*Deadlock* is checked except where the system may stop: in `job_queue` when all
jobs are settled and no faults are left, in `catalog` and `learning` when the ids
or the clock have run out.

*Symmetry.* Requests, devices and ids are interchangeable in the models; the
property sets of the runs that use symmetry are invariants and action
properties only, for which it is sound.

*Fairness.* None outside `JobQueue`: the other properties are safety, and the
code promises no progress. `JobQueue` assumes weak
fairness of what the worker and the library do by themselves (taking a job,
finishing a handler, promoting delayed jobs, looking for stalled ones, running
the listener, handling letters) and none of adding jobs, crashes or lost locks.
`Handle` is fair because a database or mail server that answers makes the
handler return or throw; `HangSpec` adds the handler that never does.
The jobs are finitely many, so starvation of a prioritised job by an endless
stream of others is not covered by `JobsSettle`.

### Disagreements between code and documentation

* **`breach_reply`** (`token.service.ts:216-258`): both breach branches revoke
  all rows, increment `tokenVersion` and then `throw` inside the transaction
  callback, which rolls all of it back; only the reply remains.
* **`otp_attempts`** (`auth.service.ts:164-171, 255`): the same pattern; the
  increment of `attempts` is undone by the throw, so `OTP_MAX_ATTEMPTS` never
  bites.
* **`subscribe`** (`subscription.controller.ts:29`): the controller takes the
  student from `@GetUser('sub')`, but `AtStrategy.validate` sets `id`: the row is
  refused and no student gets a subscription. For the same reason the list of a
  student's subscriptions is filtered by nothing (`FindMySubscriptions`), and the
  count of active subscriptions before a plan is removed is always zero.
* **A logout that loses** (`AuthSessionLogoutRace.cfg`, `token.service.ts:118`):
  a refresh that read its row before a logout of the device writes
  `isRevoked: false` after it.
* **A signup that loses** (`AccountSignupRace.cfg`, `auth.service.ts:72-97`): a
  signup that read PENDING overwrites the password of an account verified in
  the meantime.
* **A handler that hangs** (`JobQueueHang.cfg`, `queues.constants.ts:49-57`): the
  `timeout` job option is declared by the project's own type; BullMQ 5 ignores it.
* **A letter that is lost** (`JobQueueLetter.cfg`, `auth.processor.ts:133-164`):
  the letter is pushed by an event listener after the job has failed; a crash or
  a failed push loses it.
* **More than one fetcher** (`RedisCacheStampede.cfg`, `redis.service.ts:276`):
  a caller that has waited `lockAcquireMaxWaitMs` fetches as well. A fetch that
  outlasts the lock itself (10 seconds) also deletes the lock of the next owner,
  because `releaseLock` does not look whose it is; `OneHolder` excepts the locks
  that were outlived, and only those.

Observed while modelling, without a run of its own: the comment of
`book.remove` speaks of cascades, but the foreign key of the chapters restricts,
so a book with chapters cannot be deleted; a category can be moved below its own
descendant (`OnlyMovesCutOff` states that nothing else cuts a branch off); a
chapter moved to another book may meet its order there (`ChapterOrdersDiffer`
excepts moves); the 60-second limit of signup is too short for the ids of its
mails (`CodeMailAssumptions` is what the reset fulfils and signup does not).

## 4. Proofs

All theorems hold for every value of the constants that satisfies the named
assumptions; every proof is checked to the leaves, nothing is assumed beyond
the `ASSUME`s of the modules, which TLC evaluates in the runs.

**AuthSessionProofs** (assumes finitely many devices, `NoDevice` no device,
a positive device limit). `IInv` is the inductive invariant: types; `DeviceInv`,
`RowsInv` (what a handler's locals are about); `VersionInv` (nobody is ahead of
`tokenVersion`) and `PasswordInv`, needed because a token is signed from locals
read before the transaction: whoever still carries the present version has also
seen the present password; `JtiInv` (an id belongs to one delivered or one
pending pair); `FamilyInv` (whoever extends a family agrees with its members).
`ListedSessionHasTokenAlways` needs that both tables name the same pair and that a
revocation can only miss rows that did not exist when it began.
`ImplementsContractAlways` maps each of the nineteen actions to a contract step
or a stutter, with the requests whose version is still current as `vouched`;
`DeadStaysDeadAlways` is then inherited from the contract.

The properties that hold only while the requests of an account do not overlap are
theorems under one more hypothesis, `Serial` (any two requests are the same one),
with any number of devices, tokens and terminations. `SerialInv` says of the one
handler that what it has read is still so (`Sound`: its version is the account's,
the token it exchanges is its device's, with the room it makes the limit holds, the
rows it locked are those there are); and of the rows that they hold delivered
pairs which the account accepts while the row is not revoked
(`RowsAreDelivered`), and no row holds a pair that was exchanged
(`ParentsAreGone`). `DeviceLimitSerial` counts active rows, which needs finitely
many devices; each commit adds one device and removes the victim.

**AccountProofs** (assumes what `AuthSession` assumes, a positive limit of
attempts). `StepKinds` sorts the steps of an account by what they do to its
sessions: a step of `AuthSession`, a rewrite of status and password, the entry of
a handler into the steps of its session, or the commit of a session by a
verification or a Google login. Each lemma of `AuthSessionProofs` then covers the
first kind and leaves three. For overlapping requests this gives the types, the
refinement of the contract (`AccountImplementsContract`), and three more promises
of the sessions next to the other handlers (`AccountListedSessionHasToken`,
`AccountFamilyIsOneLogin`, `AccountSupersededStaysDead`; the runs check them on
`AuthSession` alone). `AccountInv` needs `FormInv` for that: a verification signs
with the version it read first, which is not ahead of the account's.
`AcceptedTokenKnowsPassword` is not among them: a signup on a pending account
writes the password and keeps the version.

Under `Serial`, `AccountSerialInv` says that codes are numbered and a redeemed one
is in no unspent row (`CodesInv`), and that what a handler compared or saw is
still so (`FormSound`). Hence a code is redeemed once, a pending account has the
password its code came with, and a signup meets no active account.

**RateLimiterProofs** (assumes a positive limit, window and second; natural
`Late`, `Early`). `IInv`: the reading of a call in flight is near the clock
(`ReadingInv`); each score is near the time its call was allowed and the key
outlives it by a window (`ScoreInv`); only members that no present or future
reading counts were removed (`KeepInv`). From it: the counted members include
all calls of the last `Window - Late - Early` and are within the last
`Window + Late + Early`, which gives both halves of the policy by monotonicity of
cardinality (`ImplementsPolicyAlways`); and the refusal that a waiting caller
hears again implies that a member left its window (`WaitIsHonestAlways`).

**JobQueueProofs** (assumes mail ids are ids, positive attempts, finitely many
slots: a worker's `concurrency` is a number). `IInv` adds to
three of the proved properties: a handler that returned had its effect (`SlotInv`), locks
are on active jobs only (`LockInv`), a slot has the lock of its job until it lapses
(`OwnInv`), a job that may still run has an attempt
and a stall left (`LiveInv`), and `onFailed` acts for exhausted, failed jobs
(`FailingInv`). `OwnInv` is what makes reruns harmless: without a lapsed lock two
slots cannot be between look and insert of one job (`RerunsAreHarmlessAlways`). The locks matter: without `LockInv` a late result could settle a
job whose letter is written. `MailsAreBoundedAlways` is an accounting argument:
every call of add pays for `Attempts + MaxStalled` sends, and `SendsInv` says that
what a mail has been sent, what is running now and what attempts and stalls are
left never exceed what was paid. A lost lock does not break it, because the run
that lost its lock is still counted and the stall it causes is spent.

*Codes by mail* (assumes the window no shorter than the minute and the delay of
a request together). `MailInv`: only one request is under way, it is no older than
the delay, and all jobs in the queue are from minutes before it passed the limit.
Hence its job finds its id free (`EveryCodeIsMailedAlways`).

**RedisCacheProofs** (assumes that each call has an instance, tagged and read keys
are keys, batches are not empty, L1 entries and locks live at least one tick,
"nobody" and "settled" are no calls; any number of instances, calls and keys, and
fetchers of any length). `Base` is types
and what one call knows by itself (`Sound`): getOrSet is about one key, no reply is
older than `MaxDelay`, a reply in flight is no staler than the wait for it. The
bound on L1 follows (`StaleForAWhileAlways`). `HoldOK`: unless it was outlived, a
lock and the time its holder has had it add up to at least the lock's life, so a
holder's key is not free, and what a caller without the lock does at its end never
deletes it (`OneHolderAlways`).
`PromiseIsAlive` is inductive beside `Base`. `TrackedOK`: of the tagged values that
are not `loose` and whose `SADD` has run, an invalidation under way has listed
each, and before it deletes the tag it still has to delete each, whatever commands
of other pipelines come in between (`TaggedKeysAreTrackedAlways`). `SetIsSeenAlways`
needs the order of the queue:
`QueuesOK` says that a read behind a write brings nothing older than the write,
and that what waits in a queue is no older than what its instance has set;
`PipesOK` that the call of a running pipeline is the last one its instance waits
for, and `VersionsOK` that versions in the store only grow. Without the FIFO
connection the property is false, and the proof shows where it is used
(`RestOrdered`).

**CatalogProofs** (assumes only that the values for "no parent", "left out" are no
ids). The three invariants have one shape: types, the property, and that what a
pending request has seen still holds unless it was overtaken; `OverlapProofs`
says what the end of one request does to the others. For the tree,
`ParentsExist` is needed besides: a removed category has no children, and a new
one none that wait for it, so a set that is closed under parents stays closed
(`OnlyMovesCutOffAlways`). The `Plan` step lemma also proves `LinksStaySound`,
from which `OnlyRacesMakeTwinsAlways` follows.

**LearningProofs.** *Profiles*: a request that saw a profile still has one
(`ProfilesAreWholeAlways`); and until a student is inserted, what it saw is so and
the names it found are free (`ProfCallSound`), the first free number being one at
all because the naturals are well-founded (`OnlyRacesClashAlways`). *Badges*: every badge that is due is held, being
awarded, or has a rule ahead in the loop (`Provided`); at the end of the loop
only the first is left (`AwardsAreCompleteAlways`). The wallet is compared with the
number of pairs of a badge and the number of a diamond of it, which is the sum of
the awards without a fold: an award adds the product of one badge and as many
numbers as its reward, disjoint from what is there
(`WalletIsWhatWasAwardedAlways`). *Books*: `BooksInv` adds to the
two properties what a pending request has seen of the orders (`BkCallSound`) and
that the chapters removed without an entry are finitely many and gone for good
(`ForgottenAreGone`: each is counted once). Each step changes the set of requests
that owe an entry by at most the one that takes it; a crash empties it.

The theorems of `CatalogProofs` and `LearningProofs` are about the specification
of each component, which the runs compose without interaction.

**Only model-checked:** `JobsSettle`. It is a liveness property under fairness, out
of the prover's reach. The runs that end in a violation are not theorems either:
their properties are what a comment or a document says, and the code does
otherwise. All other properties of the runs are proved; those of
`AuthSessionSerial.cfg` and `AccountSerial.cfg` under `Serial`, as in their runs:
overlapping requests break some of them (`AuthSessionLogoutRace.cfg` and
`AccountSignupRace.cfg` show how).

## 5. Plan

What is left, in order:

1. Proofs: which tokens keep their password when signup rewrites a pending
   account (`AcceptedTokenKnowsPassword` next to the handlers of `Account`, for
   accounts that no administrator sets back to pending); the serial properties of
   the sessions next to those handlers.
2. `Subscribe` beyond its first failure, when the repository mends it: expiry,
   tiers, one active subscription, the rows per category.
3. Questions, quizzes and statistics, when the repository has services for them:
   the schema has their tables already.

## 6. Not modelled, and why

* CSRF guard, crypto helpers, DTO validation, configuration, logging, filters:
  stateless; a unit test reaches every case.
* Mail, S3 and file upload: pure I/O.
* Controllers of the catalogue, books and badges: they pass their arguments on.
* Metadata of sessions (IP, user agent, location), texts of profiles, books and
  badges: no property reads them.
* Foreign keys from questions and statistics to books, and from users to staff:
  no handler of the repository writes those rows yet.
* Queues: priorities, the e-mail limiter, the removal of the oldest of more than
  100 failed jobs.
* Subscriptions: everything behind the insert that always fails.
* Redis cluster mode and failover: `rateLimit` assumes one store that keeps its
  keys; `getOrSet` has the rejected command but no store that forgets.

## 7. Running

    tlc -config AuthSession.cfg MCAuthSession      # likewise for the others
    tlapm AuthSessionProofs.tla
