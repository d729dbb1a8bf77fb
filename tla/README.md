# BetPulse: a verification of its core services

BetPulse is a football-prediction service: a FastAPI application, ARQ workers on
three queues (`realtime`, `batch`, `ml`), PostgreSQL, Redis and a Next.js front
end.  This directory holds TLA+ models of its own core logic, the TLC runs that
check them and the TLAPS proofs about them.  Source paths are relative to `src/`;
`app/` stands for `backend/app/`.

    tlc -workers 2 -config RefreshTokens_chain.cfg MCRefreshTokens   # a run
    tlapm RefreshTokensProofs.tla                                    # a proof module

`PROJECT.json` lists every run with its module and configuration, maps every
definition to the lines it stands for, and names for every property a mutation of
the code's logic that violates it.

## 1. The system

| Component | State it keeps | Operations | Hard behaviour | Module |
|---|---|---|---|---|
| Refresh-token sessions (`app/services/auth.py`, `refresh_replay.py`, `user_admin.py`) | `refresh_tokens` rows in families, `credentials_changed_at`, replay entries in Redis | login, refresh, replay, logout, password change, disable, enable | concurrent requests on one family, READ COMMITTED snapshots, lost answers, Redis failures after the commit | `RefreshTokens` |
| Account security (`app/services/auth.py`, `user_admin.py`, `twofa.py`, `app/core/db.py`) | the account's row, issued tokens, two connection pools | login with lockout, password change, disable, enable, TOTP setup, confirmation, removal | snapshots written back, counters in a transaction beside the request's, hold-and-wait between pools | `AccountSecurity` |
| Model registry (`app/ml/registry.py`, `registry_lock.py`, `app/services/model_admin.py`, `app/workers/tasks.py`) | `model_registry` rows, snapshots, the weighting mode | nightly re-evaluation, manual weights, promotion, rollback, mode change, training upsert | an advisory lock taken by some writers only, values read before it | `ModelRegistry`, `ChampionRule`, `Champion` |
| Live poll loop (`app/workers/tasks.py`, `arq_app.py`) | a Redis lock with a TTL, the ARQ queue | bootstrap, poll, reschedule | crash and restart while the lock is held, TTL expiry, failed enqueue | `LivePollLoop` |
| Live recompute and SSE (`app/services/live/recompute.py`, `events.py`, `app/api/live.py`) | `live_updates`, the Redis channel, one stream per viewer | recompute, publish, replay, subscribe | jobs run concurrently, crash and run again, or raise and end for good; a gap between replay and subscription | `LiveUpdates` |
| Push dispatch (`app/services/live/push.py`, `limits.py`) | window keys, daily counters, subscriptions | dispatch, deliver, retry | reservations around an await, crash between reserve and release, expiry of a key in use or, its life being whole seconds, before its day ends | `PushDispatch` |
| Promo codes, tiers, daily views (`app/services/promo.py`, `tiers.py`, `limits.py`, `counters.py`) | codes, redemptions, subscriptions, the tier cache, sets of opened cards | redeem, kill a batch, grant, edit a tier, open a card | the last use of a code, redeem against kill, a cache filled after its invalidation, midnight | `Entitlements` |
| LLM analysis (`app/services/llm/`) | spend counter, cache rows, journal rows | generate, cached answer | a budget checked before a paid call and charged after it | `LlmAnalysis` |
| Ingestion (`app/services/ingestion/`) | run log, fixtures, references, odds, conflicts | rescan, skip, mark stale, live poll | crash between commits, runs at once, runs without a timeout, a match that moves | `Ingestion` |
| Team identity (`app/providers/id_mapping.py`) | alias rows, the worklist | resolve, map, seed | clubs that take each other's names | `TeamIdentity` |
| Training (`app/ml/`) | none beyond the run | passes, LightGBM, stack | results that come in between two queries, matches without a time of day | `WalkForward` |
| Backtester (`app/services/backtester/`, `odds_selection.py`) | `backtest_features` | populate, run a rule | kickoffs and quotes that change after they were read | `Backtest` |
| Match list and card (`app/api/matches.py`, `app/ml/registry.py`, `training.py`) | predictions, registry rows | train, edit, read | one answer from several snapshots | `MatchCard` |
| Data-quality report (`app/services/data_quality.py`) | none | report | four queries while ingestion writes | `DataQuality` |
| Migration 0015 (`migrations/versions/0015_identity_data.py`) | fixtures, odds, references | upgrade, downgrade | rows that collide, data stored in between | `IdentityMigration` |
| Client addresses (`app/core/client_ip.py`, `app/services/client_identity.py`) | sightings not yet flushed | resolve, count, flush | forged headers, a slow Redis | `ClientIdentity` |
| Request limits (`app/services/rate_limit.py`, `counters.py`, `app/core/deps.py`) | one counter with an expiry per scope and caller | count, read the TTL, fail open or closed | answers that are lost or late, a window that ends or a token that lapses between two calls | `RateLimits` |
| Telegram link (`app/services/push/telegram_link.py`, `app/api/push.py`) | link tokens, connected chats | mint, consume, disconnect | a token read without a lock and burnt later | `TelegramLink` |
| Front-end session (`frontend/lib/auth/store.ts`) | access token, refresh in flight, timers | hydrate, refresh, sign in, sign out, reload the account, replay | single flight over several triggers, late answers, bodies that stall, other tabs | `BrowserSession` |

A request goes from the front end through its BFF proxy to a FastAPI route, a
service, one PostgreSQL transaction (for security state a second, short one) and
Redis.  The scheduler enqueues nightly jobs on ARQ: ingestion, training, the
re-evaluation of the registry, the backtester's store.  The realtime worker polls
providers; a poll upserts fixtures beside the rescans of the historical files and
enqueues one recompute job per fixture; a recompute writes a `live_updates` row,
publishes it on a Redis channel that the event streams subscribe to, and on a
probability swing enqueues a push job.

What makes each component correct: a session never forks or comes back to life
and every request ends; no failed login is forgotten and no pool waits for the
other; there is one champion and a manual decision is never overwritten by an
automatic one; the poll loop neither dies nor runs twice at once; a viewer misses
no event; quotas are never exceeded and money spent is bounded; a code is redeemed
no more often than its limit; one match has one row and its prices are from before
its kickoff; no prediction knows a later result; an answer names the model that
gave it.

## 2. The modules

| Module | Models | Run | Proofs |
|---|---|---|---|
| `SessionFamily` | what a login session promises (abstract) | `refresh_live` | |
| `RefreshTokens` | refresh-token rotation over PostgreSQL and Redis; implements `SessionFamily` | `refresh_chain`, `refresh_live` | `RefreshTokensProofs` |
| `AccountSecurity` | one account: lockout, credentials, second factor, pools | `account` | `AccountSecurityProofs` |
| `ModelRegistry` | governance transactions; extends `ChampionRule` | `registry_govern` | `ModelRegistryProofs` |
| `LivePollLoop` | the self-rescheduling poll | `poll_loop` | `LivePollLoopProofs` |
| `LiveUpdates` | recompute jobs, log, channel, one viewer | `live_stream` | `LiveUpdatesProofs` |
| `PushDispatch` | push jobs for one follower | `push_dispatch` | `PushDispatchProofs` |
| `Entitlements` | codes, subscriptions, the tier cache, daily views | `access` | `EntitlementsProofs` |
| `Ingestion` | two rescans and the live poll of one match | `rescan`, `closing_lost` | `LiveUpdatesProofs` |
| `LlmAnalysis` | paid analyses under a daily budget | `llm_budget` | `RulesProofs` |
| `WalkForward`, `DataQuality`, `TeamIdentity`, `IdentityMigration` | the data that the models learn from | `registry_govern` | `ModelRegistryProofs`, the last two in `RulesProofs` |
| `Champion` (over `ChampionRule`), `Backtest`, `ClientIdentity`, `BrowserSession`, `MatchCard`, `TelegramLink`, `RateLimits` | parts that meet no other one | `rules` | `RulesProofs`; `Champion` in `ModelRegistryProofs` |

The `MC...` modules hold instances only.  `MCRules` composes the parts of the last
row, `MCModelRegistry` those of the row before it with the registry: a behaviour
picks one part, which moves while the others stay as they began.  So one run checks
several parts, in the sum of their state spaces and not the product.

### RefreshTokens

The committed columns of `refresh_tokens` are `fam`, `revoked` and `replacedBy`;
`famLock` and `rowLock` are the advisory family lock and the row locks; `entry` is
the Redis replay entry of a token; `pc`, `req`, `todo` and `targets` are where each
request is, what it has read, the families it has still to lock and the rows its
UPDATE will write.  A request is a READ COMMITTED transaction whose steps are the
statements whose order matters: the unlocked lookup (`StartRefresh`,
`StartLogout`, `StartRevokeAll`), each lock it waits for (`LockFamily`,
`LockRow`), the decision of `_rotate_locked` (`DecideRotate`, `DecideInvalid`,
`DecideReplay`, `DecideConflict`, `DecideReuse`), the bulk UPDATE in two steps
(`StartUpdate` takes its snapshot, `FinishUpdate` has waited for the row locks and
re-checked), the commits, and `Remember`, which writes Redis after the commit.
`Abort` may end any request before its commit.

Abstractions.  An UPDATE takes all the row locks it needs at once.  Age and expiry
are kept for a family's newest row, the only one the code ever times: 0 is within
the grace window, 1 within the replay window, 2 older.  `credentials_changed_at`
is kept as one flag, whether it still equals what an entry or a request read.  Any
row may be presented at any time, and `ReplayRefused` lets any Redis call fail.

### ChampionRule, Champion and ModelRegistry

`row` is the `model_registry` table by (method, version), `mode` the weighting
mode, `snapshots` the earlier states an admin may roll back to.  A governance
transaction starts (`StartNightly` reads the weighting mode here, as the task
does), takes the advisory lock (`TakeLock`; `SkipNightly` and `Busy` when it is
held), reads the rows into `view`, and commits in one of `CommitNightly`,
`Promote`, `Demote`, `Patch`, `SetMode`, `SetWeights`, `Rollback`, or in `Abort`.
`Write` is the ORM's UPDATE: only the columns that changed since they were read.
`Train` inserts a version and takes no lock.

Abstractions.  A commit is one step: the order in which the ORM flushes a promotion
and a demotion against the unique index of champions is below the model, which shows
that the rows left by the commit satisfy that index.  The rows are read when the
lock is taken: only `Train` could come between the two, and it commutes with the
lock.  A weight is reduced to who set it, a metric to a Brier score or `Unfit`; log
loss, which only breaks ties, is left out.  The code keeps every snapshot; the model
keeps any `MaxSnapshots` of those taken, chosen freely, so that one is enough to
roll back to any of them.

`Champion` is evaluation after evaluation alone (`standing`, `weighting`), begun from
any registry with one champion at most, so that `rules` meets registries which the
one version per method of `registry_govern` does not.

### LivePollLoop

Each element of `Job` is a slot for a job that is queued or running; `left` is its
remaining delay or time.  `lock` and `ttl` are the Redis key, `up` the running
workers.  `StartWorker` enqueues the first poll; `Acquire` and `Skip` are the two
outcomes of `SET NX EX`; `EndPoll` is any end of the poll, cancellation included;
`CheckToken`, `DeleteLock` and `Reschedule` are the calls of the finally block, one
step each; `Crash` loses a worker's jobs and leaves the lock, `LoseJob` is a
Redis error or a timeout that skips the rest of a job.

### LiveUpdates

`match` is the state of one fixture that the provider reports (minute and score,
as a number that grows), `task` the recompute jobs, `log` the committed
`live_updates` rows in commit order, `nextId` their sequence, `published` the ids
on the channel, `viewer` one event stream's client.  A job reads the latest row
(`Read`), takes an id (`Flush`), commits, publishes and ends.  It may end early at
any step in two ways, as ARQ tells them apart: `Crash` is a worker that dies or
stops, and the job runs again while it has a try left (`max_tries`); `Raise` is an
exception of the database or of Redis, or the job timeout, and the job has failed
for good, whatever tries it had.  The viewer opens, replays the rows after its last id,
subscribes, tails and disconnects.  The replay window and its row limit, tier
gating and the probabilities themselves are left out.

### PushDispatch

One follower's part of every push job.  `window` is the key
`push:rl:{user}:{fixture}`, `budget` the counters `limits:push:{user}:{day}` with
their expiry, which is a whole number of seconds (`TimeToLive`, of `Second` ticks
each) and may so come up to a second before midnight, `job` where each job is and
how far its delivery has got, `pushes` the history of deliveries.  `TakeWindow`,
`Reserve`, `Release` and `FreeWindow` are one Redis call or script each; `Deliver`,
`Gone` and `Fail` are the outcomes of one request to the push service, `Wake` ends
the pause before the retry; `BlowUp` is an exception or the job timeout, which runs
the finally block, `Lose` a death that does not.  The followers of a fixture do not
interact: what a job does for the others is time that passes.  A push is one the
push service answered for.  The deletion of dead subscriptions is left out.

### AccountSecurity

A request reads `row`, the account as committed, once and without a lock; `snap`
keeps what it decides on and `writes` the columns that the ORM finds changed.
`Login` gives the verdict, `Borrow`, `Audit` and `CountFailure` are the transaction
of `independent_transaction` on a connection of the second pool, `Flush` takes the
row lock, `Sweep` revokes the refresh tokens, `Commit` publishes.  `changes`,
`strikes` and `proven` are history.  A secret is a number, a code names its secret.

### Entitlements

Each request runs one statement or Redis command at a time: `BeginRedeem`,
`ReadCode`, `Claim` (the guarded UPDATE, which locks the row), `Apply`,
`CommitRedeem`; `KillUpdate`, `CommitKill`; `Edit`, `CommitEdit`; `BeginView`,
`ReadTier`, `SetCache`, `Consume` (the Lua script).  `ver` and `gen` in a cache
entry, `changed` in a tier and `before` in a day's keys are history.  One batch, one
code, one paid tier.  A request reads its clock once (`now`), when it reaches its
handler; a tick is a second, and the keys of a day or an hour live whole seconds
from a moment within that tick (`TimesToLive`, `HourEnds`), so that they may be gone
in the last one of their day or hour.

### Ingestion

`db` is the part of the tables one match touches; `job` the rescans between
`Rescan`, `Download`, `Look`, `Skip` or `Save`, `Fail`, `Die`; `runs` the run log
with `MarkStaleRuns`; `poll` the live poll.  The rescans in `Cli` are those of the
command line: they may be forced, and no timeout ends them, while `Tick` lets no job
of the worker outlive `JobTimeout`.  `IngestRecords` is the core:
`FindFixture` by reference and then by kickoff within the window, `Reconcile`,
`MoveOdds`, `InsertOdds`.  A slot is twelve hours, a kickoff's day is part of the
file's name for it.

### LlmAnalysis

`GetAnalysis`, `CheckBudget`, `Answer`, `Charge`, `ExpireAt`, `Commit`, one call
each, over the budget keys of Redis by day.  A request keeps the day on which it
began, as the code does.

### The parts of MCModelRegistry and MCRules

- `WalkForward`: a rating, a probability or a fitted model is the set of matches
  whose results went into it; the actions are the two queries, the batches, the
  passes and the windows of one training.  What a match "knows" is then a set to
  compare with the time at which it was played.
- `Backtest`: the store's row of one match beside ingestion, and the engine
  (`Bets`, `Curve`, `Returned`, `SeasonSplits`) against reference definitions.
- `TeamIdentity`: look-up by stable id, then by name; the operator maps.
- `ClientIdentity`: the walk over X-Forwarded-For, and the count of internal
  clients while a flush is out.  Every proxy appends the peer it sees; the BFF
  forwards the last incoming hop alone (`frontend/lib/server/backendProxy.ts:20-47`),
  which behind the edge, where the client's own values are discarded, is the same
  client.
- `BrowserSession`: one tab; the other tabs and the server are the environment.  A
  stretch between two awaits is one step, and a caller whose promise settled goes
  on before anything else.  `CallApi` begins an `authFetch`, of the page (`api`) or of
  `reloadUser` (`me`), whose answer writes the account beside whatever token the tab
  holds by then (`ReloadUser`).  A run has ten seconds for the headers of its answer
  (`RunTimesOut`) and any time for the body (`BodyAwaited`), during which tokens age.
- `MatchCard`: the card's queries `ReadLatest`, `ReadRuns`, `ReadVisible` beside
  trainings and registry edits; the list's `ReadTotal` and `ReadPage`.
- `DataQuality`: `ScanFixtures`, `ScanPairs`, `ScanOdds`, `ScanConflicts` beside
  ingestion, and `Issues`, what the report says of what it read.
- `IdentityMigration`: `Upgrade`, `Downgrade` and `Stop`, with matches, quotes and
  backtest rows stored in between.
- `TelegramLink`: `Mint`, `Open` (the read), `Link` (burn and connect), `Drop`.
- `RateLimits`: `Count` and `ReadTtl` are the two calls of Redis, `CountUnanswered`
  and `TtlUnanswered` their loss, `LookUp` is what a public route finds out about
  its caller after it counted him by his token, which is decoded a second time and
  may have lapsed meanwhile.

## 3. What the runs check

| Run | Properties | Shows |
|---|---|---|
| `refresh_chain` | `OneLivePerFamily`, `EndedFamilyStaysDead`, `ReplayIsBounded`, `RotatedOnce` | no schedule of rotations, replays, logouts, revocations, aborts and lost Redis calls forks, revives or over-replays a session |
| `refresh_live` | `RequestsFinish`, `ImplementsSessionFamily` | every request ends, its locks are never waited for in a cycle, and the tables implement the abstract session |
| `account` | `SweptStayDead`, `AccessDiesWithCredentials`, `NobodyWaitsForever`, `FailuresHold` | tokens die with the credentials, failures of parallel logins add up, a lock is shortened by nothing but a login that succeeds or a lock at the failure limit, the two pools never wait for each other |
| `registry_govern` | `SingleChampion`, `NothingIsOverwritten`, `RollbackNamesTheChampion`, `NoLookAhead`, `ReportIsSound`, `IdentityKept`, `NothingMerged` | two admins, a nightly run and training: one champion, no lost update, rollback as promised; for the rest see below |
| `poll_loop` | `SingleFlight`, `NoStaleRelease`, `LoopGoesOn` | polls never overlap, no job deletes another's lock; until a first failure the loop goes on |
| `live_stream` | `LogIsTheRecord`, `TailingViewerReceives` | a viewer sees committed rows only, a state is missing from the log only if every job of it failed, a rerun repeats no row, a tailing viewer gets every row unless its job crashes or fails |
| `push_dispatch` | `DailyBudget`, `WindowsAreHonoured` | up to a day's last second the budget is a cap and exact, the whole day sees at most twice of it, one push per window, a failed delivery frees its window |
| `access` | `StalenessIsBounded`, `RedemptionsHold`, `ViewsHold` | activations match redemptions, a killed batch stays dead, a cached tier is stale only by a race and for a bounded time, the day's budget of cards is a cap and an opened card stays open up to the day's last second |
| `rescan` | `OddsTimeline`, `OneRowPerMatch`, `RunLogIsTrue` | one fixture per match, no price of the running match, one closing instant, nothing skipped that is not in the tables, no living run of the worker marked stale |
| `llm_budget` | `OverspendBounded`, `LedgersAgree` | the overspend is bounded by the requests in flight, yesterday's calls never count today, every journal row is charged |
| `rules` | `ChampionSettled`, `BacktestIsSound`, `CallersAreKnown`, `SessionsAreKept`, `RenewalGoesOn`, `MatchPagesAgree`, `LinksAreEarned`, `LimitsHold` | see below |
| `closing_lost` (violation) | `ClosingLands` | a file that lists a match earlier than the fixture the live poll created loses its closing quotes |

The violation run states what a comment of the code says; the finding in
`PROJECT.json` quotes it.  The data's properties in `registry_govern`: no feature,
rating, stacked input or calibration uses a match that may have been played at the
same time or later; a report that nothing overtook is complete; a club renamed to
another's old name keeps its team once mapped; the migration merges and strands
nothing.  Those of `rules`: a repeated evaluation changes nothing and a narrow gap
keeps the title; a bet settles at the reference bookmaker's closing price and the
result's parts add up; a forged header never names the caller and no sighting is
lost while the process lives; a tab's ended session is not brought back by a late
answer, a replayed request goes out for the same account, a signed-in tab does not
run out of renewals; the card names the run that gave each probability and pages
cover the list; a Telegram chat is connected only by a link its user minted; a
request limit lets at most twice its number through in any span of one window, who
waits for the Retry-After of a refusal is not refused by the same window again, and
the quota that is charged is that of the caller counted.

Some invariants carry an exception that a history variable makes precise, because
the code has the race: `raced` and `overlapped` in `Ingestion`, `died` in
`LlmAnalysis`, `lost` and `mixed` in `BrowserSession`, `lapsed` in `RateLimits`,
`Collided` in `MatchCard`, `UniformDays` in `WalkForward`; failed jobs in
`LiveUpdates`, runs of the command line in `Ingestion`, and the last second of a day
in `PushDispatch` and `Entitlements`.  Section 7 says what happens in the exceptions.

### Bounds

`refresh_chain` has three rows of one family (a presented row, its replacement and
the replacement's replacement, which is what replay, conflict and reuse tell apart)
and two requests, as every hazard of a family is a race of two.  `refresh_live` has
two families, since ordering family locks needs two, and no client, clock or Redis,
which never hold a lock.  `account` has two requests of any of seven kinds, pools
of two and one connections, two failures to a lock, two credential changes and one
generated secret.  `registry_govern` has one version per method, trained at any
time, so that rows appear behind a transaction's back.

`poll_loop` has three chains (three starts), an interval and a job timeout of two
ticks and a cleanup of one, the largest that `TtlAssumption` allows for them.
`live_stream` has two jobs of two tries.  `push_dispatch` has a window (3) longer
than the job timeout (2), a day of 4 and six ticks, of which a second has two: jobs
run before, in and after a day's last second, keys are gone before midnight or last
to it, and a window expires and opens again.

`access` has three requests of any kind, two users, two cards, a code of one or two
activations, limits 0 and 1, and a midnight at tick 2, so that tick 1 is a day's
last second; a cache entry lives as long as the longest request, so that one may be
written when another ends.  `rescan` has three rescans, of which one of the worker
and one of the command line may run at once (the latter can do all that the former
can, and last longer), four versions of the file (moved by hours, moved to the next
day with a new score, corrected) and one live poll at a time; `closing_lost` needs
one rescan.  `llm_budget` has two requests, budgets of 1 and 2, calls of up to two
tokens and a midnight.

The data in `registry_govern`: nine matches on four days in 233 tables, ties and
date-only days included, with one late result; two fixtures, three rows of odds and
one write after the report began; two clubs and three names; two matches, two
spellings, slots 4 to 6 of days of four slots with the second day in summer time,
two quotes.

`rules` (1.7 million states): every registry of two methods with two versions,
Brier scores 0..2 and a margin of 2, so that gaps lie below, at and above it; three
stored rows, two seasons and two prices; two forged hops, two sightings; a tab with
three requests to the auth routes, one `authFetch` at a time and one event of other
tabs, a page load or `reloadUser`; two trainings in two seconds' worth of
ticks and one registry edit; a list of three matches on pages of two; two users,
chats, links and webhook calls, a link of two minutes in three; three requests to
limits of one per second of three ticks, since Redis rounds a TTL to the nearest
second.

### Fairness

`RefreshTokens`: strong fairness of each request's `Run`.  PostgreSQL queues the
waiters of a lock in order, so a waiter whose lock is released again and again
gets it, and a request that can run runs.  `OutOfRows` is weakly fair: it aborts a
request that needs a row beyond the instance and stands for nothing in the code.
`LivePollLoop`: time passes, ARQ runs a due job, a running job goes on, and a
worker that is down is started again (Compose's restart policy) while starts are
left.  `LoopGoesOn` holds until a first failure only (section 7).
`LiveUpdates`: a worker runs the jobs it has; nothing is assumed of the viewer, the
provider or crashes.  Every other module has safety properties only, and no
fairness.

## 4. What is proved

`RefreshTokensProofs`, for any rows, families, requests, callers and replay cap:
`TypeCorrect`, `NoFork` (`[]OneLivePerFamily`), `LinearChain`, `RotatesOnce`
(`RotatedOnce`).  `TypeOK` is inductive only with `RequestInv`, what a request
carries at each label.  `OneLivePerFamily` is not inductive either: a rotation
commits steps after it decided.  The invariant adds `LocksHeld` (a request that has
decided to rotate holds its row's lock and the row is still live; what an UPDATE
has collected is locked) and `RowsInv` (a row that does not exist is neither
revoked nor replaced, and every replacement exists); with them the row that a
commit replaces is the family's only live one, so the new row is too.  The row lock
alone carries this argument.

The family lock carries the next two.  `EndedStaysDead` (`[]EndedFamilyStaysDead`)
adds `FamilyInv`: a request past its family's lock holds it until its commit, and
what a revocation's UPDATE has collected covers every unrevoked row of the families
it holds, so no rotation adds a row between the snapshot and the commit; and a
revoked family has no live row that a later rotation could decide on.
`ReplaysAreBounded` (`[]ReplayIsBounded`) adds `EntryInv`: the answered replays of a
row and those under way never exceed the uses counted in its entry, one replay of a
row is under way at a time, and a row whose new entry is still to be written has had
no replay.  `SessionHolds` is the whole invariant, and `Refinement` proves
`ImplementsSessionFamily`: each step of the requests opens a family, moves it to a
row never handed out, closes it for good, or is a stutter of `SessionFamily`.
Assumptions: `FamilyAssumption`, `NullAssumption`, `UsesAssumption`.

`ModelRegistryProofs`, for any methods, versions, metrics, margin, nightly runs,
admins and number of snapshots: `TypeCorrect`, `OneChampion`
(`[]SingleChampion`), `NoLostUpdate` (`[]NothingIsOverwritten`) and
`RollbackRestores` (`RollbackNamesTheChampion`).  The invariant adds `ReadyHolds`
(only the lock's holder has read rows), `UnseenIsChallenger` (a row inserted
behind a view is no champion) and `SnapshotsSound` (a snapshot has one champion at
most and no row the registry lost).  So a transaction leaves exactly the rows it
decided on, and each decision, `Select` included, names one champion at most.
`TitleSettles` (`[]ChampionSettled`) says it of `Champion`, `EvaluationsSettle` of every
registry that governance leaves: the winner of the first evaluation is the
incumbent of the second, and the best is too close to it or is itself.

The module also holds the proofs about training and about the report on its data.
Of training, for any matches, tables, late results, cuts and least sizes:
`WalkTypeCorrect` and `NothingLooksAhead` (`[]NoLookAhead`); the invariant is
`WalkHolds`.  A pass knows nothing but what it has folded, and everything folded
kicked off before everything left (`PassOK`); the windows of a split are ordered, as
`assert_ordered_disjoint` demands; so whatever a number comes from has an earlier
kickoff (`SeenOK`).  That an earlier kickoff is an earlier time is a step of its own
(`KickoffTellsTime`): a match without a time is stored at noon of its day, and the
property speaks of days whose matches all have a time or all have none
(`UniformDays`).  Assumptions: `ScheduleAssumption`, `WindowAssumption`.

Of the report, for any fixtures, labels, quotes, windows and writes:
`ReportTellsTruth` (`[]ReportIsSound`); the invariant is `QualityHolds`.  A write
between two queries overtakes the report, so one that nothing has overtaken has read
the stored state (`ReadOK`).  Its scope has a season's fixtures all or none, so
each kind of issue is that of the whole cut down to its fixtures (`SaidPart`).
The table has one row per outcome and instant (`OddsOK`), so a snapshot with as many
closing rows as there are outcomes is all there is at its instant, and the two rules
for coverage and for the closing quote can differ only by a price that an error
names.  Assumption: `ReportAssumption`.

`LivePollLoopProofs`, for any workers, jobs, starts, failures and times:
`TypeCorrect`, `PollsNeverOverlap` (`[]SingleFlight`), `ReleasesItsOwn`
(`[]NoStaleRelease`).  The invariant is about time: the lock's remaining life
exceeds what its holder may still use, cleanup included.  The theorems rest on
`TtlAssumption`, JobTimeout + Cleanup < 2 * Interval.  The defaults (60 s and
60 s) satisfy it; a poll interval of half the job timeout or less does not, and
the settings do not forbid one.

`RulesProofs` proves about nine modules.  Of the Telegram link, for any users,
chats, links, webhook calls and life of a link: `TelegramTypeCorrect`, `LinksEarned`
(`[]LinksAreEarned`).  The invariant is about the burnt token: a call that linked
has marked its token used (`LinkedIsBurnt`), so a call that finds a token unused was
opened before every call that links with it (`PastIsOther`); the read is in the
token's life (`OpenedInTime`), and each connected chat has its call
(`ConnectedByLink`).

Of the LLM budget, for any nonempty finite set of requests, cards, budgets and
costs: `LlmTyped`, `OverspendIsBounded` (`[]OverspendBounded`), `LedgersStayTrue`
(`[]LedgersAgree`); the invariant is `LlmHolds`.  While a day lasts, what was charged
for it and `MaxTokens` for each call still out stay under the highest budget it had
and one round of requests; afterwards under two, since the checks that are behind
the day's end read a key that expires (`DayOK`).  A key without an expiry has a
request that is about to set it, or one that died there.  The journal and what is
owed to it are at most what was charged; the sum over the requests is the size of a
set of pairs, since the provers have no induction for a fold.

Of the request limits, for any callers, scopes, limits and windows:
`LimitsAreHonoured` (`[]LimitsHold`); the invariant is `CountersHold`.  A request
was counted in the window that lives or in one that is over (`AskedOK`), the windows
of a key follow one another (`WindowsApart`), and its count covers those who got
through (`CountsCover`); a request that waits for its look-up still carries the
address and the token that made its key, so it is charged as it was counted, unless
the token lapsed: then as the guest of that address.  A span of one window's length
meets two windows at most (`TwoWindowsMeet`), and the Retry-After, which Redis
rounds to the nearest second, is at most half a second short (`TtlRounds`), for any
resolution of the clock.

Of team identity, for any clubs and names: `IdentitySurvives` (`[]IdentityKept`): a
row that learnt an id is bound to that club, one that has not to the club that bears
its name.  Of client addresses, for any addresses and forged headers: `CallersKnown`
(`[]CallersAreKnown`); that the walk passes exactly the proxies of the path
(`WalkEndsAtSender`) is a lemma about the operators, and the watch needs that no
write is under way once its interval is over.

Of the browser's session, for any accounts, answers, reloads and other tabs:
`SessionsKept` (`[]SessionsAreKept`) and `RenewalsGoOn` (`[]RenewalGoesOn`); the
invariant is `BrowserHolds`.  The account that the store shows is that of its token,
and a call remembers both, as long as no late answer of `reloadUser` has put them
apart (`mixed`).  A refresh that its run still waits for is dated by the
run's two counts, one that the run gave up on by its own (`Dated`): if the session
ended, or another one was applied, since it left, the tab's count is past the one it
carries, so the test at its answer fails.  For the renewals (`RenewOK`): while a 429's
window lasts a retry is set, and a run of an earlier session, which schedules nothing
when it ends, is under way only beside a token that has its timer (or lost it to that
run), and either waits for a body or is older than the token, which is then fresh.

Of the identity migration, for any rows, quotes and backtests, also those that are
written between two attempts: `MigrationMergesNothing` (`[]NothingMerged`); the
invariant is `MigrationHolds`.  A downgrade can tell which kickoff a row had, since
the row's column says whether its time was known, and so how it was corrected
(`OriginalOfCorrected`); moving the quotes of a match with its kickoff is one-to-one
(`QuotesMove`), so none is lost; and an upgrade that would make two rows the same
stops before it writes.  Assumption: `MigrationAssumption`.

Of the match card and the match list, for any trainings, methods, registry edits,
matches and length of a page: `PagesBelongTogether` (`[]MatchPagesAgree`); the
invariants are `CardHolds` and `ListHolds`.  A prediction is of a committed run, and
the row of its version is registered under a run that began in the second the
version names (`PredictedOK`), so the run the card reads is the prediction's own or
one of its second (`Traced`).  The ranks of a finite list are its numbers from 1 to
its length, each once (`RanksFill`, by counting), so what a client of a list that
stands still has seen is the beginning of the list (`SeenPart`), and at the end all
of it.  Assumption: `CardAssumption`.

Of the backtester's store, for any kickoffs, quotes, results and moves:
`BetsSettleAtClose` (`[]FreshPriceCloses`, the first part of `BacktestIsSound`); the
invariant is `StoreHolds`: a closing quote is at the kickoff, since a kickoff that
moves takes the mark from the quotes it leaves, and a population that nothing
overtook has read, and then written, what holds.  Assumption: `BacktestAssumption`.

`AccountSecurityProofs`, for any requests, pools, failure limits and lock lengths:
`AccountTyped`, `FailuresAddUp` (`FailuresHold`), `SweptTokensDie`
(`[]SweptStayDead`), `AccessTokensDie` (`[]AccessDiesWithCredentials`); the
invariant is `AccountHolds`.  It says of a change that is not committed that its
stamp is its own and that it has swept every token older than the stamp
(`PendingOK`), of a login that goes on that it read its stamp with the changes of
that time (`EnteringOK`), of each pending write that it is a column's value of its
operation, and of the lock that it is never longer than the failures that were
counted deserve (`LockOK`).  The proof showed that a lock may be shortened in one
more way than by the commit of a successful login: a login that read the account
before it was locked resets the count and leaves the lock, so that the failures
after it reach the limit anew and set a lock which may end before the one left
behind.  `LockNeverShortened` names both; TLC shows the second with five logins at
once, more than the run has.

`NobodyDeadlocks` (`[]NobodyWaitsForever`) is about the guards: `MayStep` is the
condition under which a request's next step can be taken, the guard of each action
with its updates left out, so that no ENABLED is needed; TLC finds it equal to ENABLED
`Step` in every state of `account`.  Who waits for the account's
row waits for a request that can commit; who waits for a connection of the second
pool finds one, or waits for a request that holds one and can go on.  So it holds
for pools of any size as long as the second one has a connection of its own.
Assumptions: `SecurityAssumption` and `PowersOfTwo`, two facts of arithmetic about
powers of two that the provers lack and TLC evaluates.

`EntitlementsProofs`, for any requests, users, cards, limits and offers:
`EntitlementsTyped`, `RedemptionsAreCounted` (`RedemptionsHold`), `StalenessBounded`
(`[]StalenessIsBounded`), `ViewsAreKept` (`ViewsHold`); the invariant is `EntHolds`.
The code's row lock keeps an activation that is claimed claimable until it commits,
and is held by one request at a time (`RequestOK`, `PromoOK`).  A reader that found
a version before the last edit began before that edit was committed, so what it
caches ends at most `TTL` and one request's life later (`CacheOK`).  A day's first
keys last to its last second at least, those that replace them in it outlive the day,
and each charge is within a limit that some request had read (`KeysOK`).

`LiveUpdatesProofs`, for any jobs, tries, match states and connections:
`NothingBesideTheLog` (`[]LogIsTheRecord`) from `StreamHolds` and `RerunsHold`:
between its commit and its end a job's row is in the log, ids in the log come from
the sequence, and a job that returns, not one that failed, has its state there
(`StreamHolds`).  A job decides to write only over another state than its own: when
it runs again after its row was committed, either the row is the latest and it ends,
or another job's row with a greater id and another state is (`RerunsHold`, whose
`RerunOK` follows such a row from the read to the commit).  A replay moves a
viewer's last id to the greatest it missed; that a bounded set of numbers has a
greatest element is derived from the library's well-founded induction.
`StreamTyped` (`[]TypeOK`) bounds the ids: each flush takes the id of a try that had
none (`Taken`), so there are no more ids than jobs times `MaxTries`, whatever
crashes.

The module also holds the proofs about `Ingestion`, for any rescans, versions of the
file, live kickoffs, window and timeouts: `OddsAreOnTime` (`[]OddsTimeline`),
`TheRunLogIsTrue` (`[]RunLogIsTrue`) and, when all sources list the match within the
window (`AllNear`, as the run's do), `OneRowAMatch` (`[]OneRowPerMatch`); the
invariant is `IngestionHolds`.  Each clause says which exception it needs.  Always:
a rescan's row is its own, and that of the worker's is marked running and no older
than `JobTimeout`, so `mark_stale_runs` never touches it; one of the command line may
be marked failed beyond the threshold (`RunLogInv`).  If no two rescans overlapped:
what one has read still stands when it saves (`CurrentInv`), hence the quotes it
stores are on their side of the kickoff it leaves.  If no look raced with an insert:
at most one source is about to insert (`InsertInv`).  With both: no fixture has come
near a match about to be inserted (`FarInv`), so an insert is never lost, and the
last successful run is in the tables (`ReflectInv`), which is what a skip relies on.
`SaveEffect` and `PollEffect` say once what a commit may change.

`PushDispatchProofs`, for any jobs, fixtures, subscriptions and limits, a job
timeout shorter than the window and any day length: `PushTyped`, `OnePushAWindow`
(`[]WindowsAreHonoured`), `BudgetIsKept` (`[]DailyBudget`); the invariant is
`PushHolds`.  For windows: at most one job of a fixture is between its SET NX and
its end, its key outlives it (`WindowAssumption`), and it opened its window after
those of the earlier pushes were over.  For the budget: the first key of
a day lives to the day's last second at least, and its count covers the jobs that hold
a unit and the pushes delivered, exactly if no job was lost (`FirstKey`); in that
second another key may begin from zero, which outlives the day, so that what it covers
is short by one limit at most (`NextKey`).

Only model-checked: the liveness properties `RequestsFinish`, `LoopGoesOn` and
`TailingViewerReceives`, which the provers do not reach.  What the folds of
`Backtest` compute (`ResultAddsUp`, the second part of `BacktestIsSound`) needs
induction over a sequence and stays with TLC too.

## 5. What is not modelled

The numbers of the match models (floating point), HTTP and the parsing of
third-party formats, the wording of prompts and alerts; e-mail verification (a
one-time token, the rule of `TelegramLink` without its race), push follows, audit,
alerts and health (append-only or read-only), configuration and security primitives
(stateless), command line and the other migrations, pages and BFF routes (rendering,
a stateless proxy), deployment scripts.  Each module's header says what it leaves
out of its own component, and `PROJECT.json` lists it per component.

## 6. Plan

1. Compose `BrowserSession` with `RefreshTokens`, so that the server's answers to
   two tabs are those of the rotation.
2. Two batches and codes bound to a user in `Entitlements`; statistics and
   half-time scores in `Ingestion`.

## 7. Where the code promises less than its documents

Each of these is a finding in `PROJECT.json` with the words it contradicts and
the name of the definition that states it.  TLC finds a violation of each when it
replaces the properties in its module's configuration; `RefreshTokens` then needs
`Family = {1, 2}`, `LiveUpdates` a third task, `AccountSecurity` a second secret
and `LivePollLoop` one worker, two starts and one failure.

- `ClosingLands` (run `closing_lost`): a file that lists a match earlier than the
  stored kickoff loses its closing quotes (`app/services/ingestion/core.py:405`).
- `RotationInFlightNeverSurvives`: an account-wide revocation misses the rotation
  in flight of a family that a login added after the families were listed.
- `ReevaluationLeavesManualWeights`: a nightly run that read the mode before the
  switch to manual overwrites the admin's weights.
- `StartKicksOffLoop`: after a crash, a worker that is up again within the lock's
  life skips its poll and the loop is dead.
- `ReconnectMissesNothing`: a row published between the replay query and the
  subscription reaches the viewer by neither.
- `CalendarDayBudget`: a job that crosses midnight counts on the expired key of
  the day before, and a key whose life was rounded down is gone up to a second before
  its midnight; so one day sees more pushes than its budget.
- `ResetsAtMidnight`: for the same rounding the day's cards may be counted anew in
  its last second (`app/services/limits.py:81`).
- `OnlyDeadRunsAreStale`: a run of the command line, which has no timeout, is marked
  stale while it goes on (`app/services/ingestion/runner.py:103`).
- `TokenAndUserAgree`: a late answer of `reloadUser` puts the account that asked beside
  the token of the one that has signed in since; that account's request may then be
  replayed with the other one's token (`frontend/lib/auth/store.ts:386`).
- `WaitersGiveUp`: ten seconds bound the headers of a refresh, nothing its body
  (`frontend/lib/auth/store.ts:277`).
- `EnabledSecretProven`: a setup that overlaps a confirmation leaves the second
  factor enabled for a secret of which no code was verified.
- `RowIsRenewed`: the backtester's row keeps the score and kickoff it was first
  written with.
- `RetriesAreScheduled`: a refresh whose body is cut schedules no retry.
- `SameStrings`: a token that expires between the count of a request and the look-up
  of its caller is counted as the user and charged as a guest (`app/core/deps.py:253`).
- `ExpiredWasHeld`: a 401 to a refresh sent before a sign-in ends the new session.
- `RunAlwaysProducedIt`: two trainings of one second share a version; the card
  names the second one's run for the first one's probabilities.
- `OnlyVisibleIsShown`: consensus and market are shown though hidden.
- `ErrorsAreReal`: a kickoff that moves between two queries of the report yields
  an error that no stored row has.
- `EveryRowHasRef`: a date-only and a timed row of one pairing and day share a
  reference, and the migration leaves one without.
- `LinkIsSingleUse`: two deliveries that both read a link's token connect two chats.

Reading the code for the models showed more, which is no claim of a document or
which a module's exception covers:

- A login that read the account as active before it was disabled commits its token
  afterwards (`app/services/auth.py:346`); it works once the account is enabled
  (`NoSessionOutlivesChange` is the claim).
- A reader may cache a tier it read before an edit was committed, after the edit's
  invalidation (`EditTakesEffect`); `StalenessIsBounded` says for how long.
- `rollback_to_snapshot` (`app/ml/registry.py:131`) takes no snapshot itself.
- Two recompute jobs of one fixture may both find the state new and log it twice;
  ids, taken before the commit, may become visible out of order.
- A recompute that raises or meets its 60 s is not run again although it has tries
  left (`app/workers/arq_app.py:127`): its state is missing from the log until the
  next change of the match.  A job that dies or fails between commit and publication
  never publishes its row; a rerun finds the state unchanged, so who tails the channel
  sees the row only after a reconnect.
- A refresh of an earlier session that waits for a stalled body is joined by the new
  session's renewal timer and schedules nothing when it ends: the tab renews again
  when it is looked at or makes a request.
- The counter of promo attempts (`app/services/limits.py:58-61`) lives whole seconds
  too, and may start again in its hour's last second.
- A push whose answer is lost counts as failed and is sent again.
- A match moved to another day has a new name in the file: its row is only linked to
  the fixture, whose kickoff stays, and the next rescan of the unchanged file is
  skipped (`app/services/ingestion/core.py:261`).  Two sources that list a match at
  different times and look for it at once make two fixtures of it.  A fixture that
  the live poll created is never corrected by the file.  Overlapping rescans may
  leave quotes after the kickoff, and a rescan that loses an insert race does not
  reconcile the score.
- A day with timed and date-only matches breaks the walk-forward order
  (`UniformDays`): a date-only match is taken for noon.
- A club found by name only may be another one that took the name, until it is
  mapped by id.
- A new version is inserted visible, so a hidden method returns with the next
  training; a training task delivered twice adds a second version, although
  `README.md:243` calls all tasks idempotent.
- The report does not count snapshots with an invalid price, which `quote_at` uses.
- A quote stored before migration 0015 at the instant that becomes the kickoff is
  taken back with the kickoff by the downgrade.
