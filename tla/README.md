# A verification project for accountant-backend

accountant-backend is the API of a personal ledger: accounts that sign in with
cookies, a ledger of transactions with recurring subscriptions, budgets and
savings, mails about them, and PostgreSQL and Redis behind it. This directory
models the parts of it whose correctness depends on the *order* of things: what
threads, sessions, the scheduler, mail, Redis and a dying process may do between
two steps of each other. TLC checks the models on small instances; TLAPS proves the most
important properties for every value of the constants.

`PROJECT.json` lists, for every definition that stands for code, the lines it
stands for; for every property, a plausible bug ("mutant") that would break it;
and every hazard of the code with the property that watches it.

## 1. The system

One uvicorn worker runs synchronous endpoints in a thread pool, each with its
own SQLAlchemy session, and two asyncio schedulers (billing, notifications)
which run their work in threads. Sessions use PostgreSQL's READ COMMITTED and
`expire_on_commit=False`. A use case is seldom one transaction: repositories
commit inside their methods, so most use cases are *chains* of transactions
between which anything can happen. That is where nearly all the hazards below
come from.

| Component | State it keeps | Operations | Talks to |
|---|---|---|---|
| Ledger read cache (`infrastructure/cache`, `infrastructure/database/events.py`) | entries and version numbers in Redis; `session.info` of each open session | read, write, invalidate; flush, commit and rollback listeners | called by the transaction repository; listens to every session |
| Refresh tokens (`repositories/refresh_tokens.py`, `application/identity`) | table `refresh_tokens`; `users.password_hash`, `is_active` | sign in, renew, sign out, change password, reset password, switch an account off | cookies of the browser; reset links |
| Subscription billing (`application/ledger/subscriptions.py`) | tables `subscriptions`, `transactions` | create, edit, cancel, `ProcessDueSubscriptions` | hourly scheduler and `POST /subscriptions/process-due`; its commits go through the cache's listeners |
| Mail links (`password_resets.py`, `email_changes.py`, `change_email.py`) | two token tables; `users.email` | ask, replace, mail, follow | SMTP; consumption of a reset link starts a password reset |
| Access tokens (`dependencies/auth.py`, `security/tokens.py`) | none: a signed `iat` against `users.password_changed_at` | issue, accept or refuse | every request; issued with each refresh token |
| Notifications (`application/notifications`, `infrastructure/notifications/runtime.py`) | table of deliveries | budget warnings from requests, daily summaries from the scheduler | SMTP; reads the ledger through the cache |
| Rate limiter (`infrastructure/security/rate_limit.py`) | hits per key, in Redis or in the process | peek, record, reset, sweep | login, reset and address handlers |
| Savings (`application/savings/services.py`) | table `monthly_savings`; `users.savings_goal_minor` | overview, goal | reads the whole ledger once per overview |
| Entries, categories, budgets (`application/ledger`, `repositories/ledger.py`) | tables `transactions`, `categories`, `monthly_budgets` | create, edit, delete; set, move and remove a limit | the cache's listeners, budget warnings |
| Accounts and administration | `users` | register, settings, switch on and off | refresh tokens, mail links |
| HTTP envelope, schemas, mail rendering, configuration, migrations | none | conversion | |

What is hard in each, and what makes it correct:

- **Cache.** A read is four calls (look up the version, get, query, set, the key
  being computed a second time for the set), a write is a flush, a commit and
  one `INCR` per ledger touched, and any of them may find Redis gone. Correct
  means: nothing is published before it is committed; a read that starts after
  everything was published sees it; whatever goes wrong is over with the TTL.
- **Sessions.** The password check, the insertion of a token, the update of the
  password and the sweep are four transactions. Correct means: a session never
  forks, once closed it stays closed, and a changed password ends the old ones.
- **Access tokens.** They cannot be revoked: `get_current_user` compares whole
  seconds with a marker that is taken before the change commits and before its
  sweep. Correct means: a token of an old password is refused, unless it is of
  the marker's own second or of a session the change had not caught up with.
- **Billing.** `list_due` locks the plan and the first commit of its session
  frees it; from then on a run works on the plan as it was loaded, while another
  run or an edit may change it. Correct means: each month once, none skipped, on
  its day, however late.
- **Mail links.** Replacing is not atomic with respect to another replacement;
  following a link spends it before the account is looked at; an address may be
  taken while its mail sits unread. Correct means: a link works once, an older
  one not at all, and nobody moves to an address whose mailbox did not agree.
- **Notifications.** Check, send and record are three steps and nothing is
  locked. Correct means: what is recorded was sent, repetition has a cause, and
  nothing that should be told is lost.
- **Entries and limits.** A request reads a row, holds no lock on it, and writes
  the columns that differ from what it read. Correct means: kinds match their
  categories, every category that spends more is checked, and a limit is the one
  its user was last answered, unless two requests crossed on one row.
- **Savings.** An overview reads the ledger once and then commits month by month,
  while another does the same. Correct means: one that ran alone answers with
  what the ledger it read comes to, whatever was stored before.
- **Rate limiter.** The count is read before the attempt and written after it,
  in whichever of two stores answers. Correct means: the overshoot is bounded,
  and a lockout ends.

## 2. Modules

| Module | Models | Checked by | Proved in |
|---|---|---|---|
| `LedgerCache` | readers, sessions, Redis, crashes | `cache_threads`, `cache_live` | `LedgerCacheProofs` |
| `RefreshTokens` | one account's refresh tokens, its requests and its password | `tokens`, `tokens_survivor` | `RefreshTokensProofs` |
| `AccessTokens` | the clock, the marker and one access token, composed with `RefreshTokens` | `tokens` | `RefreshTokensProofs` |
| `SessionLifecycle` | what sessions promise, without tokens | as property `LifecycleSpec` | `TokensImplementSessions` |
| `Subscriptions` | one plan, its charges, overlapping runs and edits | `billing`, `billing_twice` | `SubscriptionsProofs` |
| `MailLinks` | reset and address links, accounts and addresses | `links` | `MailLinksProofs` |
| `BudgetWarnings` | one category in one month and the tasks that watch it | `warnings` | `BudgetWarningsProofs` |
| `DailySummaries` | rounds of the notification scheduler for one user | `summaries` | `CalendarProofs` |
| `DeliveryLog` | what both promise of `notification_deliveries` | as property `LogSpec` | `WarningsFollowTheLog`, `SummariesFollowTheLog` |
| `RateLimiter` | one key, its two stores and the attempts made on it | `limiter` | `RateLimiterProofs` |
| `LedgerEntries` | one user's transactions, categories and limits, and the requests that change them | `entries` | `LedgerEntriesProofs` |
| `Savings` | the month walk of overlapping overviews over a moving ledger | `savings` | `CalendarProofs` |

An `MC...` module only fixes constants and symmetry. The conventions are the
same everywhere: one action is one database statement, one transaction or one
call to Redis, that is, everything that no other thread can get in between of; a
record with a program counter `pc` is a thread or a session; an action's name is
the method's, or says which part of it; a definition marked *Mutant* is a
plausible bug, is used by no specification, and is there so that a property can
be shown to notice it. Variables marked *history* record why a state was reached
and are read by no guard.

**LedgerCache.** `rows[u]` counts the commits that touched u's ledger; an answer
is the number of commits it shows, which is all that staleness needs of it.
`ReadKey`, `ReadHit` / `ReadMiss`, `Query`, `WriteKey` and `WriteSet` are the
calls of a cached read: `RedisCache.read` computes the versioned key and gets,
`write` computes it *again* and sets. `Flush`, `Commit`, `Rollback`, `PublishOne`
and `PublishEverything` are the SQLAlchemy listeners of `events.py`.
`invalidate_everything` (`PublishEverything`) is what a touched global category
leads to (no use case writes one today; the listener is ready for it). An outage makes every call fail, which each caller swallows; a restart
loses entries and versions. `NullCache` is the case in which Redis is never up.

**RefreshTokens.** One account. `rotate` is one action because it holds the
row's lock from its read to its commit; `revoke_all_for_user` is two, the
snapshot of its `SELECT ... FOR UPDATE` and its commit, because a row inserted
in between is not in the snapshot while a row it had to wait for is re-read.
Passwords are numbers (how often changed). `held` says whether the token ever
reached the browser. `SessionLifecycle` sees only none, open, closed.

**AccessTokens** extends `RefreshTokens`: `Others` are the requests that neither
answer with cookies nor change a password, and the composition adds to the rest.
`AnswerWithAccess` is the end of a sign-in or a renewal, where `JwtTokenService`
mints a token with the current second as its `iat`; any one of the tokens minted
is followed, since no two of them affect each other. `update_password` is `Mark`,
which computes the marker, and `CommitMarker`, which stores it with the hash: the
second may pass between them, and another change may commit there. `Oddity` is
history: why a token could be minted for an old password although the change was
on its way.

**Subscriptions.** The plan's row, the charges by date, and for each run what
it has *loaded*. `list_due` is `ListDue`; `OtherCommits` is the commit for
another plan of the same user that frees the lock before this one's turn;
`FindCharge` / `InsertCharge` are the two halves of `add_subscription_charge`;
`UpdateNextCharge` re-reads the row and writes blindly. An edit writes only the
columns it changed (SQLAlchemy flushes changed attributes), so it is modelled as
`EditLoad` and an `EditCommit` that leaves `next` alone unless it moves it. `torn`
is history: some edit was written while a charge existed, or a run held a copy of
the plan, that the edit did not know of. The calendar is the constant `Length`.

**MailLinks.** Both token tables work alike and are one variable; `kind` tells
them apart. `Snapshot` and `Insert` are `replace_for_user`, `Consume` is
`consume` (lock, check and mark in one transaction), `Refuse` / `Accept` the
checks that follow it, `UpdatePassword` and `UpdateEmail` the writes, the latter
under the unique index. The table keeps one `used_at` for links that were
retired and links that were spent; which of the two is history.

**LedgerEntries.** A request is a record of what it read and what it wants.
`Merge` is SQLAlchemy's UPDATE: it names the columns that differ from the copy
read and no others, so two edits of one row may leave a column of each. `Load...`
actions end with the read, `Update...` / `Delete...` / `Insert...` are the commit,
and `Fails` is a constraint, a row that has gone (`StaleDataError`) or a dead
process. The unique constraint on a category's limit is a guard of `InsertBudget`
and `UpdateBudget`. `asked`, `crossed` and `unchecked` are history: what the user
was last told, which categories had two requests cross on a row, and which have
spending nobody has looked at. Dates and descriptions are columns like the amount.

**Savings.** A month's transactions are kept as their net. `Begin` is
`monthly_totals`, one read of the whole ledger; `FindMonth` and `CloseMonth` are
the two halves of `upsert_month`, each followed by nothing that others wait for;
`Overview` sums the table as it is by then, and `SetGoal` starts the same walk.
`First` is where the walk starts: at the account's first month, or at the earliest
transaction. Rows before that (their transactions were deleted) are neither
rewritten nor removed, and still counted; the model keeps them, and
`OverviewAddsUp` names them (`Leftover`, the rows before the first month walked).
`Saved` is the reference definition, a function of the month alone. `OverviewFails`
is a failed insert or a process that dies; what was stored by then stays.

**BudgetWarnings.** The spending `used` is what was spent plus what plans will
still charge. Handlers commit and then add a background task (`Spend`,
`SetLimit`); deleting adds none (`Unspend`, `DropCharge`, `RemoveLimit`). The
task's steps are the reads of `execute`, one after another. Its transactions come
through the ledger cache, so `AddUpStale` allows any sum: `LedgerCache` says when
that can be. `missed` is history: since the last task was added, something has
happened that lets an overrun go unnoticed.

**DailySummaries.** `Start` reads the clock once and lists the days owed; then
each day is looked up, sent, recorded, or fails, which leaves it to a later
round. Days are numbers. Rounds do not overlap, because one asyncio task awaits
each before it sleeps.

**DeliveryLog** is the abstract specification of the two: attempts that look a key
up, mail it and record it, each in its own time, and give up anywhere. It knows
neither rounds, dates and limits nor who adds what. `Mailing` is the refinement
mapping: a task or the round is an attempt from the lookup that found nothing
(`was_delivered`) to the record (`mark_delivered`). For `BudgetWarnings` the tasks
are the attempts; for `DailySummaries` there is one.

**RateLimiter.** A hit has no time of day, only the ticks left in its window.
Redis runs a script whole, so `AskRedis` and `RecordRedis` are one step each,
followed by the step that clears the fallback (`PeekDone`, `RecordDone`), with
other threads in between. A call that fails is answered by the fallback;
`RecordFallback` and `ResetRedis` choose whether the script ran all the same.
`blind` and `forgiven` are history: the attempts Redis did not answer, and the
hits that were dropped before their time by a reset, a restart or a recovery.

## 3. What the runs show

Bounds are in the `.cfg` files; all state spaces are exhausted.

| Run | Instance | Result | What it shows |
|---|---|---|---|
| `cache_threads` | 1 ledger, 1 query, 2 readers, 2 sessions, no write starts after 1 commit | passes | `PublishedWritesAreRead`, `VersionNeverAheadOfCommits` through outages, restarts and crashes |
| `cache_live` | 2 ledgers, 1 reader, 1 session | passes | `StaleOnlyWhenExplained` with commits that touch both ledgers or all; `ReadsEnd` and `StalenessHeals` under fairness |
| `tokens` | 3 rows, 2 threads, no change starts after 1 (two may overlap), seconds 0 and 1, crashes | passes | `OneTokenPerSession`, `SurvivorsExplained`, `OldAccessExplained`, refinement of `SessionLifecycle` |
| `tokens_survivor` | 3 rows, 2 threads, 1 change, no crash | **violated** | a sign-in or rotation outlives the sweep (finding 1) |
| `billing` | 2 months, 2 and 1 days long and a third to run into, 2 runs, 1 edit, 1 aborted run | passes | `NoMonthSkipped`, `TwiceOnlyWhenTorn`, `NoDrift`; `CatchesUp` under fairness |
| `billing_twice` | 1 month, 1 run, 1 edit | **violated** | an edit writes back a month just charged (finding 2) |
| `links` | 2 accounts, 3 addresses, 2 links, 2 threads | passes | `OlderLinksAreDead`, `OneUsePerLink`, `AddressesAreUnique`, `AddressesAreProved` |
| `warnings` | limits 1 and 2, spending to 3, 3 tasks | passes | refinement of `DeliveryLog`, `RepeatsExplained`, `OverrunsAreNoticed` |
| `summaries` | 5 days, look-back 2 | passes | refinement of `DeliveryLog`, `RepeatsExplained`, `NoDayLost` |
| `limiter` | 4 attempts, 2 threads, limit 2, window 2 | passes | `QuotaHolds`, `LocalQuotaHolds`; `LockoutsEnd` under fairness |
| `entries` | 3 categories (2 of expenses, 1 of income; 1 of them the user's own), 1 transaction, 2 limits, 2 requests | passes | `KindsAgree`, `OverspendingIsChecked`, `AnsweredLimitsStand` |
| `savings` | months 0 to 2, account created in month 1, nets -1 and 1, 2 overviews | passes | `OverviewAddsUp`, `NeverBelowNothing` |

**Why the bounds are enough to be interesting.** The races are between two
actors, so there are two of each where they race; one commit is enough for an
entry to be old, two sessions let it be published out of order, and two ledgers
let one commit be published in part. Three rows are a sign-in, its rotation and
another sign-in. Two changes overlap when both start before either commits; two
seconds are the marker's own and the next. Months of 2 and 1 days stand for 31
and 28: a plan on the last day meets a month that is too short and the one after
it. Two requests that cross on one row are two; a second limit row is what the
unique constraint is there for. A month before the account's, its own and one
after it give an overview a history that begins early, is rewritten and is left
over, and nets of either sign let a month empty what was saved. Three tasks let one
send, one be about to, and one look; two limits let the limit move and come
back. Five days with a look-back of two have days that fall out of it, days
within, and days before the account. Four attempts with a limit of two and two
threads reach the limit, exceed it and are refused while one more waits. Nothing
beyond these depends on the size, which the proofs confirm where there are
proofs.

**Symmetry** is used where identities are interchangeable and the run has no
liveness property. `LifecycleSpec` and `LogSpec` have no fairness and are checked step
by step, so it is sound in `tokens` and `warnings`.

**Deadlock** is checked for `warnings`, `summaries`, `limiter`, `entries` and
`savings`. The others may stop for good, since their
counters and rows run out.

**Fairness.** In `FairSpec` of LedgerCache, a read that began takes its steps
(it runs in a thread and every call has a timeout), a session that began commits
or rolls back and publishes, and Redis expires what was stored with `EX`; nothing is assumed about
outages ending or reads being started. In Subscriptions, the scheduler comes
back (`while True`, every exception caught) and runs go on; runs die at most
`MaxAborts` times, since one that always dies never charges. In RateLimiter, the clock ticks
and the last step of a call is taken. `LockoutsEnd` is about a Redis that answers from
some time on: one that keeps coming and going lets so many through that the
window may stay full.

## 4. Findings

1. **A session can survive a password change** (`tokens_survivor`;
   `issue_session.py:27`, `refresh_tokens.py:57`): a sign-in that verified the old
   password inserts its token after the sweep, or a rotation under way inserts a
   replacement the sweep's snapshot does not hold. `SurvivorsExplained`, proved,
   says these and a crash are the only ways.
2. **A month can be charged twice** (`billing_twice`; `repositories/ledger.py:425`):
   an edit writes back the month of the pending charge it read before a run charged it; the unique
   constraint is on the date, and the edit has changed the day. Without such an
   edit a month is charged once (`TwiceOnlyWhenTorn`, proved).

Three more disagreements were met and are recorded as hazards, each with the
strongest statement the code keeps. `events.py:36-39` says that publishing after
the commit leaves nothing stale under the new version; a fill that queried before
the commit and computes its key after the `INCR` (`redis_cache.py:41`) does, until
its TTL (`StaleOnlyWhenExplained`, `StalenessHeals`). Overlapping requests for a
link leave two links live (`src/README.md:184`, `OlderLinksAreDead`). Overlapping
tasks both send a warning (`src/README.md:129`, `RepeatsExplained`).

Where the repository is silent, the models show what happens: two edits of one
transaction can leave an expense under a category of income (`KindsAgree` says
only so); a limit may be removed after it was moved to another category, with the
row found for the old one; savings of months whose transactions were all deleted
stay in the total when they lie before the first month walked.

## 5. What is proved

All theorems hold for every value of the constants that satisfies the named
assumptions, which only say that bounds are numbers, that the calendar's months
have between one and `MaxDay` days, that the scheduler is one of the runs, that a month
comes to an integer and that `Attempts` is finite.

| Module | Theorems | Invariant it rests on |
|---|---|---|
| `LedgerCacheProofs` | `TypeCorrect`, `StalenessExplained`, `PublishedIsRead`, `VersionsFollow` | `ExplainedInv`: an entry or a fill that is not marked as raced never has a key of the future, and if its key is the current one its rows are current unless something is owed or lost. The property alone says nothing of fills not yet stored, nor of entries whose key is not current *now*. `FloorInv` adds, for a reader still looking, that every entry under its key and every fill that could still be filed there has the rows its floor promises. `VersionInv`: versions plus the sessions that still owe an `INCR` never exceed the commits; the sessions publishing are finitely many, whatever `Sessions` is. |
| `RefreshTokensProofs` | `TypeCorrect`, `SessionsNeverFork`, `ChangesSweep`, `TokensImplementSessions`; of the composition `AccessRefines`, `AccessTypeCorrect`, `OldAccessIsExplained` | `ChainInv` adds that the root of every row exists; `SweepInv` is the property with types: whatever is live, old and not marked as late is pending in some sweep. The refinement has one step per action: most close or stutter, `IssueSession` opens. `AccessRefines` carries all of it over to `AccessTokens`. `MarkersFollow`: an access token that is not odd is no younger than any marker still to be committed, nor, once its password is an old one, than the marker in force; no marker is of the future (`ClocksOK`). |
| `SubscriptionsProofs` | `TypeCorrect`, `NothingSkipped`, `ChargedOnce`, `BillingDayKept` | `CopiesNotAhead`: all months before what *any* run or edit has in hand have been billed, since any of them may be written back. `Scheduled`, as long as nothing is torn: the pending date, and the date each run has in hand, is the billing day of its month, and so is every charge from there on. |
| `MailLinksProofs` | `TypeCorrect`, `AskingAgainRetires`, `LinksWorkOnce`, `AddressesStayUnique`, `AddressesStayProved` | `DeadInv`: of the links a request saw when it was asked, those still unused are in its snapshot. `UseInv` with `CarriersMatch`: what a request carries is what its link says. |
| `BudgetWarningsProofs` | `TypeCorrect`, `RecordsAreTrue`, `WarnedAgainForAReason`, `OverrunsGetNoticed`, `WarningsFollowTheLog` | `MailInv`: what was sent is recorded, about to be, or excused, and tasks that overlap are excused. `NoticeInv`: an overrun that may not be missed is recorded or some task will still look at the limit as it is. The refinement of `DeliveryLog` needs types alone: `LogSeesTheTask` says that a step shows in the log only as what it does to the task that takes it. |
| `CalendarProofs`, of `DailySummaries` | `TypeCorrect`, `RecordsAreTrue`, `MailedAgainForAReason`, `RoundsLoseNoDay`, `SummariesFollowTheLog` | `DayInv`: every day owed is recorded, failed, or still ahead of the round. |
| `CalendarProofs`, of `Savings` | `SavingsTypeCorrect`, `OverviewsAddUp`, `SavingsStayAboveNothing` | `SavingsInv`. `AddsUpSoFar`, of an overview no other overlapped: the rows it has gone past come to what its own ledger saves up to its cursor, over what was left before its first month; no row is of a month it will not close, and what it saw of the row at the cursor is still so. `Calm`, until two overviews overlap or one dies: no prefix of the rows gone past is below nothing, nor, between overviews, any prefix at all. `InBounds`: a cursor never leaves the months between the first one and the current one. |
| `LedgerEntriesProofs` | `TypeCorrect`, `KindsCorrect`, `ChecksCorrect`, `LimitsCorrect` | A merged row has the types of what it was merged from. `KindsInv` adds that what an edit is about to write was checked as a whole. `LimitsInv` says more than the property: no category ever has two rows, crossed or not, and where nobody crossed the row is there exactly if a limit was asked for. |
| `RateLimiterProofs` | `TypeCorrect`, `QuotaIsKept`, `LocalQuotaIsKept` | `HitsHold`: a hit with time left is in Redis, or in the fallback and blind, or forgiven, and an attempt in flight has none yet; `ThreadsHold`: at most `Threads` attempts are under way. Then the counted are covered by the hits and the threads, and a peek lets one more in only below the limit. |

The argument is the same each time: Init implies the invariant, every action and the stuttering
step preserve it, it implies the property; PTL closes the temporal step.

**Sums and months.** The savings are about the sum of a table, which `SumFunction`
computes by recursion, and about `Saved`, which is defined month by month. Both are
functions, not RECURSIVE operators, and what they compute is proved without an induction
rule: `SmallestSet` (from the library's well-foundedness of strict inclusion) gives every
family of parts of a finite set a smallest member, so a smallest counterexample can be
picked and taken apart, and `LeastNumber` does the same for numbers. The sum exists
(`AddsExists`), does not depend on the order of its members (`SumWithout`), and grows from
month to month by what the month stored (`RowsBeforeNext`); `Saved` satisfies its own
equation (`SavedAt`). The two then advance together in `CloseMonthStep`.

**Only model-checked:** the liveness properties `ReadsEnd`, `StalenessHeals`,
`CatchesUp` and `LockoutsEnd`, and the two violations. Liveness under fairness
and ENABLED are out of the prover's reach.

## 6. What is not modelled

- **Opening balance** (a column that its own handler alone writes) and the
  **listings**, which only read, except through the cache.
- **Administrators' views and the display name.** Switching an account on and off
  is an action of `MailLinks` and `RefreshTokens`, for which it is the environment.
  Who does it is left out: an administrator cannot switch themselves off
  (`application/admin/services.py:90`), but two who switch each other off at once
  are each let through by `get_current_user` before the other commits, and no
  administrator is left. This is the next thing to model (section 7).
- **Browser**: cookies. A lost answer is a row that nobody holds.
- A budget warning at the turn of a month: plans alone may exceed the limit of a
  new month, and nobody looks until something is spent. One month is modelled.
- A plan cancelled while a run has it loaded is still charged by that run; a charge
  deleted while a run is under way may be posted again. Both are reached in
  `Subscriptions`; the repository does not say what should happen, beyond what
  `NoMonthSkipped` and `TwiceOnlyWhenTorn` say of any run.
- Which address a request is charged to (`client_address`), `Retry-After`
  values, and the other keys of the limiter, each of which behaves like the one.
- Conversion, rendering, configuration, migrations: no state of their own.

## 7. Plan

Done, in this order: cache, sessions with their abstract specification, billing, mail links,
warnings, summaries, rate limiter; then entries and limits, savings, access tokens
composed with the sessions, and cancellations, deletions and torn edits in billing.
Notifications have their abstract specification, `DeliveryLog`, which both modules are
proved to implement. Every safety property the runs check is proved.

Left:

1. Administration: the caller is looked at, then the target is written, in two
   transactions; an administrator is left unless two requests crossed.
2. Subscriptions and LedgerCache composed: each commit of a run goes through the listeners, and
   `BudgetWarnings` reads through the cache; `AddUpStale` would then be a consequence.
3. `Retry-After` of the limiter against the time a refused caller really has to wait, after an overshoot.
4. That what notifications owe is told in the end, on top of `DeliveryLog`: liveness, once mail stays up.
