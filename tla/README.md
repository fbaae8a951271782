# A verification of the AIOps backend

TLA+ models of `src/backend` of the AIOps agents project, checked with TLC, and
theorems about them checked with TLAPS. The backend is a FastAPI application: an
authentication and account service on PostgreSQL, and a monitoring pipeline that
collects metrics and logs of one EC2 instance, stores them and looks for
anomalies. All handlers are plain `def` functions, so FastAPI runs every request
on a thread of its pool: requests interleave at every statement that touches
something shared.

## 1. The system and its parts

| Part | Code | State it keeps | Operations | Models |
|---|---|---|---|---|
| Tables and sessions | `db/session.py`, `models/auth.py`, `alembic/` | `users`, `refresh_tokens`, two one-time token tables, `auth_audit_events`; one SQLAlchemy session per request | SELECT, commit, close without commit | `AuthStore` |
| Public authentication | `api/auth.py`, `services/auth_service.py`, `services/security.py` | none of its own | register, login (with lockout), refresh, logout, request and confirmation of e-mail verification and password reset | `AuthService` |
| Accounts and sessions | `api/user_profile.py`, `api/users.py`, `api/dependencies.py`, `services/user_service.py` | none of its own | profile, password change, deactivation, revoke one or all sessions; administrators update, deactivate, unlock and revoke | `UserService` |
| The service | `app.py`, `main.py`, thread pool, clients, clock | the requests in progress | the above in any interleaving | `AuthSystem` |
| E-mail | `services/email_service.py` | mailboxes | send, after the commit; may fail or never return | `AuthService` (`SendEmail`) |
| Rate limiter | `services/rate_limiter.py` | one deque of times per key, shared by all threads, no lock | `assert_not_rate_limited` | `RateLimiter` |
| Ingestion and storage | `pipelines/ingestion_pipeline.py`, `aws/storage.py`, `aws/s3_storage.py`, `aws/log_collector.py`, `api/routes.py` | `./data/*`, S3 objects | run ingestion, full cycle, inference, read the latest file | `Ingestion` |
| Metrics collector | `aws/cloudwatch_collector.py`, `aws/collector_service.py` | two discovery caches with a TTL, shared by all threads, no lock | collect the metrics | `MetricCache`; one step of `Ingestion` |
| Anomaly rules | `pipelines/inference_pipeline.py`, `ml/features.py` | none | thresholds over an observation | `AnomalyRules`; one step of `Ingestion` |
| EC2 inventory | `aws/ec2_service.py`, `api/instances.py` | none | list, get, summarise | `Ec2Inventory` |
| AWS | outside: EC2, EBS, CloudWatch | volumes, agent metrics, instances | they change on their own | `AwsCloud` (external) |
| Listings | `list_sessions`, `get_user_activity`, `list_users` | none, they only read | pages of rows | not modelled |
| Configuration, stubs | `config/settings.py`, `agents/*`, `llm/*`, `monitoring/*`, `utils/*`, `arcade/*` | none | most files are one-line placeholders | not modelled |

How they interact. A request passes `get_current_user` (its access token and the
account's row), in three routes the rate limiter, and then works through one
database session. Handlers talk to each other only through committed rows: there
is no lock, no `SELECT ... FOR UPDATE`, no version column. The monitoring routes
share local files, S3 and the collector's caches in the same way. The two halves
meet only in `get_current_user`.

What is hard, and which property watches it (the complete list, line by line, is
under "hazards" in `PROJECT.json`):

- *A row read, checked and changed at a commit much later.* Refresh, one-time
  tokens, the count of administrators, revoke-all, password change, deactivation:
  `RotationsBounded`, `RedemptionsBounded`, `CutTokensStayDead`,
  `RevokedIsNotExchanged`, `PasswordChangeIsFinal`, `InactiveGetsNoSession`,
  `UpdateSparesAnAdmin`; one request at a time `InactiveHasNoSession`,
  `PasswordChangeEndsSessions`, `AdminUpdateKeepsAnAdmin`.
- *Lost updates.* A session writes a row it loaded long ago: `OnlyOwnersWrite`,
  `DeactivationStamped`.
- *A handler that raises half-way.* What it did is discarded in the database and
  kept on disk: `LockoutIsInert`, `LockoutEngages`, `AuditMatchesTables`,
  `RotationRevokesParent`, `MailFollowsCommit`, `ObservationIsBacked`.
- *Deque operations that are atomic one by one only*: `BucketBounded`,
  `ErrorNeedsOverlap`, `LimitHoldsAlone`, `RefusedOnlyWhenFull`, `CallsEnd`.
- *Caches cleared, filled and read by several threads, and filled by calls that
  failed*: `NoFalseAlarm`, `OverloadIsReported`, `KeyErrorNeedsOverlap`.
- *A listing read in several calls while what it lists changes*: `ListingIsTrue`,
  `SummaryIsTrue`.
- *A check made once, at the start of a request*: `ChangesAreAuthorized`.
- *A mail server that never answers*, on a connection without a timeout:
  `RequestsFinish`.
- *All of the sessions at once*: `ImplementsSessions`.
- *Files created while they are listed, and crashes*: `LatestIsFresh`,
  `ResultsFollowObservations`, `ObservationIsBacked`.

## 2. The modules

    AuthStore          tables, sessions, commit        (state, TypeOK)
      AuthService      public requests
      UserService      requests with an access token
        AuthSystem     clients, threads, clock; Spec, FairSpec, properties
          AuthOverlap  which accounts a request overlaps with others on
            MCAdmins   an instance for TLC
          SessionRefinement     AuthSystem implements Sessions
            MCAuth     instances for TLC
          AuthProofs   type correctness, accounts and lockout
            AuthTokenProofs     refresh tokens, the refinement
              AuthRequestProofs      one-time tokens, owners of changes, the audit trail
                AuthOverlapProofs    what the tests promise, with the overlap it tolerates
    Sessions           abstract: what the service promises about sessions
    RateLimiter        the shared deques
      RateLimiterProofs         types, races, the limit itself
    Ingestion          the monitoring requests, files and objects
      IngestionProofs
    AwsCloud           EC2, EBS, CloudWatch and the clock
      MetricCache      the collector; extends AnomalyRules as well
      Ec2Inventory     the listings of instances
        Monitor        both on one pool of threads; Spec, properties
          MCMonitor    an instance for TLC
          MonitorProofs      listings, summaries, the caches, the judgement
    AnomalyRules       from an answer of CloudWatch to features over a threshold
    SetLemmas          greatest elements and sums over finite sets, for the proofs

### AuthStore, AuthService, UserService, AuthSystem

`users`, `refresh_tokens`, `links` (both one-time token tables), `audit` are the
committed tables; a row is a record of the columns some condition reads. `sess[w]`
is the request thread `w` serves together with its database session: the row of
`users` it loaded (`loaded`), the object as the handler changed it (`row`), the
tokens it will revoke, insert or redeem, the events it will log.

An action is what a handler does up to its next statement that reads the database
or commits; between two actions any other thread may run. `refresh`, for
instance, is `RefreshToken` (the SELECT of the token row and its checks),
`RefreshUser` (the SELECT of the account) and `Commit`. What follows from the code:

- *Commit writes changed columns* (`Merge`). SQLAlchemy's UPDATE names the
  attributes that differ from their loaded values; the others keep whatever is
  committed by then. Under READ COMMITTED, PostgreSQL's default, the flush of
  single-row updates at the commit does not abort.
- *An identity map.* A row once loaded is not read again by the same session: an
  administrator who changes the own account works on the row authentication
  loaded (`LoadTarget`).
- *Errors roll back.* `get_db` closes the session when the handler raises
  (`Reject`, `Refuse`). `RollbackOnError = FALSE` is the fixture of
  `tests/auth/test_auth_flow.py:48`, which lends one session to all requests, so
  what a failing handler changed is there for the next one.
- *The unique index on `users.email`* makes the second of two concurrent
  registrations fail in `Commit`. The code issues its INSERT in a flush just
  before; PostgreSQL lets the second INSERT wait for the first transaction and
  then fail, which has the same effect.
- *Tokens.* A refresh token is its row; decoding succeeds until it expires. An
  access token is "some access token of the user is valid until `access[u]`": the
  server cannot tell the valid ones apart. Hashes and JWT encoding are left out, but
  for one thing they do: hashes are salted, so a reset to the password an account
  already has writes the column all the same (`ConfirmLinkUser`).
- *The mail* is sent after the commit, while the thread still has its session, over a
  connection without a timeout (`email_service.py:20`). `SendEmail` delivers or raises;
  that it never returns is a thread that stays in stage `mail`, which no fairness
  forbids.
- *The clock* counts ticks; expiry and lock times are constants in ticks.

`parent`, `cut`, `redeemed` and `misses` are history: no guard reads them.

### AuthOverlap

What the tests and the error messages promise is kept while requests do not meet, and
some of it is refuted when they do (section 6). `AuthOverlap` says how far it goes on a
server with any number of threads. It conjoins every step of `AuthSystem` with an
update of two history variables: for each request in progress, `rewritten` has the
accounts whose row of `users`, and `moved` those whose refresh tokens, another
transaction has changed in the tables since the request began. Each promise is then an
action property of the commit: it is kept for every account outside these sets.

| Property | Promise | Tolerates |
|---|---|---|
| `RevokedIsNotExchanged` | no revoked token is exchanged | the owner's tokens changed |
| `PasswordChangeIsFinal` | a password change leaves no live token | the account's tokens changed |
| `InactiveGetsNoSession` | no commit deactivates an account with a live token, or opens a session for an inactive one | the account's row or tokens changed |
| `UpdateSparesAnAdmin` | an update leaves an active administrator | some account's row changed |
| `ChangesAreAuthorized` | the caller is still active, an administrator, knows the password | the caller's row changed |

So a change of another account never breaks a promise about this one, nor does a change
the request makes itself, as when an administrator updates the own account on the row
authentication loaded. The cases tolerated are real: `MCLastAdminRace` and
`MCPasswordChangeRace` are such steps.

### RateLimiter

One action per deque operation: the test for an empty bucket, `bucket[0]`,
`popleft`, the test of the length, the append. `now` is read when the call begins,
so entries of overlapping calls may be out of order. `overlapped` (history)
remembers the keys on which two calls were ever in progress together.

### Ingestion

One action per call that can fail or that another request can see: creating a file
(`mkdir` and `open`, which truncates or raises), writing it, uploading an object (which
may be stored although the call raises), listing a folder, reading a file. Names are timestamps;
`Crash` ends the process at any point, and partial files stay. Whether logs were
found is kept, since the run continues differently; their text is not.
`Collect` is all of `collect_metrics`, its caches included, as far as an ingestion
sees it: failed calls become zeros, and it raises only when another thread clears a
cache between the membership test and the read (`cloudwatch_collector.py:90`).

### Sessions, SessionRefinement

`Sessions` is what a client may rely on, without tables, commits or requests: a
session is opened for a user, ended, or exchanged for the next one; an exchange
needs a session that was open when it was presented, ends it, and stays with the
user. `SessionRefinement` maps the service to it: a session is a row of
`refresh_tokens`, open until `revoked_at` is set; a thread *holds* the token of a
refresh from the SELECT that found it live to its commit. `ImplementsSessions` is
`Sessions!Spec` under this mapping. The race of two refreshes of one token is part
of the abstract specification (`Exchange` does not ask that the held session is
still open), as the code does not exclude it; everything else is as one would want.

### AwsCloud, AnomalyRules, MetricCache, Ec2Inventory, Monitor

`AwsCloud` is the environment: volumes come and go, the agent starts and stops
reporting a metric, instances change state, time passes.

`MetricCache` takes `fetch_all_metrics_batch` apart into what other threads can see:
the comparison with `CACHE_LAST_REFRESH`, the two `clear()`s, the new stamp, each
membership test, each read (which raises `KeyError` if the entry has gone),
`describe_instances`, one `list_metrics` per metric, the store of each result, the
query. Each call of AWS may fail. A failed `list_metrics` leaves a gap in the entry
that is stored all the same; a failed `describe_instances` stores nothing. The answer
is judged in the same step by `AnomalyRules`: `ParseResults` (latest by timestamp),
`CollectedMetrics` (missing is 0, volumes are added up), `Triggered`.

The properties speak of a `Horizon`: the time a change may go unnoticed. It is
`CACHE_TTL` where collections do not overlap. Where they do, a discovery that began
before a clear may be stored after it, and the new stamp may be set later than the
clear it belongs to, each by as long as a collection may take: twice `LONGEST_CALL`
more. `possible` and `certain` in a call are history: the features over their
threshold told from the measurements alone, with the resources that are or were
there within the horizon, and with those that have been there for longer.

`Ec2Inventory` keeps of each request in progress the filter, the next page and what
was read. Pages partition the instances and an instance stays on its page.
`Wanted` states independently of `Normalized` what a list of state names asks for.

`Monitor` puts both on one pool of threads. Ingestion's `Collect` remains one step:
what an ingestion sees of a collection is metrics or an exception, and
`KeyErrorNeedsOverlap` says when the latter.

## 3. The runs

Every `pass` run explores its instance completely.

| Run | Asks | Bounds |
|---|---|---|
| `MCSessions` | Is a revoke-all final, a rotation atomic and done at most once by each thread, the audit trail right, however session requests interleave? Does the service implement `Sessions`? | 2 threads, 1 account, 4 refresh tokens, 5 requests, 3 ticks |
| `MCAdmins` | Do administrators who change each other (and themselves) lose or resurrect updates? Does the lockout ever reach the table? Which overlap does each promise of `AuthOverlap` need to fail? | 2 threads, 2 administrators, 3 tokens, 4 requests, 1 tick |
| `MCLinks` | Are one-time tokens bounded, mailed after the commit, audited? Two registrations of one address? Is every request answered, or left to the mail server (fairness)? | 2 threads, 2 addresses, 2 one-time tokens, 4 requests, 3 ticks |
| `MCSuite` | Does what tests and messages promise hold, as they say it, in the test suite's world? | 1 thread, no rollback, administrator and member, 3 tokens, 5 requests, 3 ticks |
| `MCRateLimiter` | Is the limit exact alone, and how far off is a bucket under races? Does every call end (fairness)? | 2 threads, 1 key, limit 2 in 2 ticks, 5 calls, 5 ticks |
| `MCIngestion` | Is an observation ever there without its parts? Do readers and results keep up? | 2 threads, 3 requests, 1 crash |
| `MCMonitor` | Do caches that threads share and failed calls hide an overload or raise a false alarm? Is a listing right about what did not change? | 2 threads, 2 volumes, 1 agent metric, 2 instances on 2 pages, 3 requests, 1 change of AWS, TTL 1, longest call 1, 3 ticks |
| `MCLockoutLost`, `MCLastAdminLeaves`, `MCLastAdminRace`, `MCPasswordChangeRace`, `MCIngestionLogs` | the disagreements of section 6 | the smallest instance that shows each |

Why these bounds. Two threads are enough for every race in this code: each is between
one handler's read and its commit and one other commit. Three tokens make a chain of
rotations with a bystander; the fourth of `MCSessions` lets one token, after its login,
be exchanged once more often than there are threads, if that were possible. Four or five
requests log in (which is what hands out tokens), run two racing requests and one that
looks at the result. Refresh tokens live two ticks and access tokens one, so both
expire, in that order, within a run. A limit of two makes a full bucket, one over and an
expired entry all reachable. Three monitoring requests are a first observation, a racing
second one and a reader or inference. `MCSuite` has two wrong passwords lock an account,
as `LOCKOUT_THRESHOLD` is a parameter. In `MCAdmins` two administrators are enough for
one to be the account an overlap concerns and the other not; four requests are two
logins and two that race, or a login and a refresh that is repeated, and expiry, which
`MCSessions` has, plays no part in these promises. In `MCMonitor` three requests fill a
cache, use or clear it and use it again, with a second collection around any of it; one
volume or metric appears or disappears at any point, before or after the horizon, and
the datapoint over the threshold is first in its list and latest. Two volumes are over
their common threshold together only, so one that is missed or kept too long shows.
Symmetry is used for tokens, one-time tokens, volumes and threads in runs without
liveness; the action properties and `ImplementsSessions` name no single one.

Each property of a passing run comes with a mutant, a plausible slip in one mapped
definition (a forgotten `used_at IS NULL`, a whole-row UPDATE, a `>` for a `>=`),
that breaks it. Mutant definitions stand before the definition they replace.

Fairness. `FairSpec` of `AuthSystem` adds weak fairness of `Handle(w)` for every thread
that is not in stage `mail`, `FairSpec` of `RateLimiter` weak fairness of
`ThreadStep(t)`: a thread of the pool that has a request keeps running as long as it
waits for nobody but the database and its own process. No fairness is assumed of
clients, of the clock or of the mail server: `smtplib.SMTP` gets no timeout, so a thread
may wait in `SendEmail` forever, with its session. `RequestsFinish` therefore promises
that every request is answered or has committed and waits for the mail server, and that
threads held there hold up no other. Deadlock is checked in all runs: the system may
rest only when no request is in progress (`Quiet`).

## 4. What is proved

For all constants that satisfy the named assumptions of `AuthStore` (finite sets of
users, tokens and threads; positive threshold and lock time), of `RateLimiter`
(finitely many threads, some key, a positive limit), of `Ingestion` (finitely many
threads) or of `AwsCloud`, `AnomalyRules`, `MetricCache` and `Ec2Inventory` (finitely
many volumes, metrics and threads; volumes are not metrics; pages that partition the
instances; a positive TTL; thresholds and datapoints are naturals; the datapoints of one
answer have different timestamps; each agent metric of the model is one the code asks
for):

| Theorem | Says |
|---|---|
| `AuthProofs!TypeCorrect` | `Spec => []TypeOK` |
| `AuthTokenProofs!CutIsFinal` | `Spec => []CutTokensStayDead`: "log out everywhere" is final |
| `AuthTokenProofs!RotationIsAtomic` | `Spec => []RotationRevokesParent` |
| `AuthTokenProofs!RotationsAreBounded` | `Spec => []RotationsBounded`: no more exchanges of a token than threads |
| `AuthRequestProofs!RedemptionsAreBounded` | `Spec => []RedemptionsBounded`: a one-time token takes effect no more often than there are threads |
| `AuthRequestProofs!MailIsBacked` | `Spec => []MailFollowsCommit` |
| `AuthRequestProofs!ChangesAreOwned` | `RollbackOnError => (Spec => OnlyOwnersWrite)`: no lost or resurrected update |
| `AuthRequestProofs!AuditIsTrue` | `RollbackOnError => (Spec => []AuditMatchesTables)` |
| `AuthOverlapProofs!RevokedStaysRefused` | `OverlapSpec => RevokedIsNotExchanged`, and so on down the table of `AuthOverlap`: |
| `AuthOverlapProofs!PasswordChangeRevokes` | `OverlapSpec => PasswordChangeIsFinal` |
| `AuthOverlapProofs!DeactivationEndsSessions` | `OverlapSpec => InactiveGetsNoSession` |
| `AuthOverlapProofs!UpdatesSpareAnAdmin` | `OverlapSpec => UpdateSparesAnAdmin` |
| `AuthOverlapProofs!ChangesStayAuthorized` | `OverlapSpec => ChangesAreAuthorized` |
| `AuthProofs!StampFollowsActivity` | `Spec => []DeactivationStamped` |
| `AuthProofs!ServerNeverLocks` | `RollbackOnError => (Spec => []LockoutIsInert)` |
| `AuthTokenProofs!ServiceImplementsSessions` | `Spec => ImplementsSessions` |
| `RateLimiterProofs!RateLimiterTyped` | `Spec => []TypeOK` |
| `RateLimiterProofs!LimitIsBounded` | `Spec => []BucketBounded`: races exceed the limit by less than the number of threads |
| `RateLimiterProofs!ErrorTakesTwo` | `Spec => []ErrorNeedsOverlap`: a call that is alone on its key does not fail |
| `RateLimiterProofs!LimitHolds` | `Spec => []LimitHoldsAlone`: no window sees more than the limit |
| `RateLimiterProofs!RefusalsAreDue` | `Spec => RefusedOnlyWhenFull`: nobody is refused early |
| `IngestionProofs!TypeCorrect` | `Spec => []TypeOK` |
| `IngestionProofs!ObservationsAreBacked` | `Spec => []ObservationIsBacked`: no observation without its metrics on disk and in S3, no result without its observation |
| `IngestionProofs!ReadersAreFresh` | `Spec => []LatestIsFresh` |
| `IngestionProofs!ResultsFollow` | `Spec => []ResultsFollowObservations` |
| `MonitorProofs!TypeCorrect` | `Spec => []TypeOK` |
| `MonitorProofs!ListingIsRight` | `Spec => []ListingIsTrue`, over any number of pages |
| `MonitorProofs!SummaryIsRight` | `Spec => []SummaryIsTrue`: counters off by no more than what changed meanwhile |
| `MonitorProofs!KeyErrorTakesTwo` | `Spec => []KeyErrorNeedsOverlap` |
| `MonitorProofs!AlarmsHaveCause` | `Spec => []NoFalseAlarm`: an entry of a cache raises no alarm after its horizon |
| `MonitorProofs!OverloadsAreReported` | `Spec => []OverloadIsReported`: nor does it hide one |

*Types.* `TypeInv` adds to `TypeOK` which arguments a session has in which stage
(a refresh in progress has a token, a session that is ready has a user ...).

*Refresh tokens.* `CutTokensStayDead` alone is not inductive: while a revoke-all is
between its SELECT and its commit, the tokens it saw must stay such that its commit
kills all of them. `TokenInv` therefore says of every session: each token it has seen
is issued, belongs to the session's user, and is dead already or among those it will
revoke (`Pending`); a token about to be inserted is not in the table, and no other
session inserts it (`Alone`); what is cut is dead for good, as revocation is never
undone and expiry only passes (`CutDead`); and a parent is revoked and of the same
user (`ParentsRevoked`). Every action either leaves the tables alone or is `Commit`,
and `Commit` is `Write` of one session.

*Bounded rotations.* A thread may exchange token `t` only after it saw `t` live, so
before the first exchange committed. `Counted`, a conjunct of `TokenInv`, counts the
exchanges made together with the threads that still have one of `t` in progress: the sum never exceeds the
number of threads, and once an exchange exists `t` is revoked and no thread can join.

*One-time tokens, owners and the audit trail.* All three are about what a commit writes,
and a commit writes what its session gathered over several statements. `RequestInv`
therefore says what a request of each kind may hold by the time it is ready: which
event goes with which row (`Logs`), which columns the row may differ in from the row it
loaded and for whom (`Changes`), that it redeems only the one-time token it was given,
and that this one was mailed and belongs to the user it found (`Linked`).
`RedeemCounted` adds to the redemptions of a one-time token those on their way, as for
rotations. `OnlyOwnersWrite` then follows although the row is stale, because `Merge`
writes changed columns only and `Changes` names the request behind each. It needs
`RollbackOnError`: in the tests' shared session a failed request leaves its changes to
the next one. `AuditInv` counts: a commit that logs an event inserts exactly one row of
its kind, which was not there (`Alone`, `AloneLink`).

*Overlap.* A handler checks the rows it reads and writes several statements later.
`OverlapInv` says that what it has checked is still so for every account no other
transaction has touched since: `Current(s, x, y)` states, of session `s` in each of its
stages and about the tables as they are now, that outside the accounts `x` (rows
changed) and `y` (tokens changed) the row held is the committed one and
`get_current_user`, `require_role` and `change_password` would let the request in again
(`Admitted`), the token would be accepted again (`Accepted`), the tokens to revoke are
all the live ones (`Revokes`), and another administrator is there (`SparesAnAdmin`). A
step of another thread may falsify a clause for an account, but then it puts that account
into `rewritten` or `moved` in the same step (`Undisturbed`, which needs that a token
never changes its owner, and that expiry only passes); a step of the thread itself is a
stage of its handler, one lemma for each group of requests. Each property then follows
from `Current` at the commit (`CommitFacts`). No number of threads is assumed, and
nothing about rollback.

*Accounts.* `DeactivationStamped` holds although three handlers write `is_active` and
`deactivated_at` through sessions that may be stale. It needs `AccountInv`: in a
session `loaded` and `row` each agree on the two columns, so that the columns a commit
writes come in pairs. For the lockout, `loaded` and `row` of a session that can commit
both have the initial values when errors roll back.

*The rate limiter.* The inductive invariant counts the entries of a bucket and the
threads between the test of its length and the append (`Counted`): together fewer than
the limit plus the number of threads. For `ErrorNeedsOverlap`, `AloneSeesEntries` says
that a call alone on its key finds the entry it tested for. For the limit itself,
`WindowInv` says that the bucket of a key without overlap is the end of the list of
admitted requests, that this list is ordered, and that each request in it is more than
a window after the one `MAX_REQUESTS_PER_WINDOW` before it; a call in progress adds
what it has tested (`Knows`). A window then begins with some request `m` and ends
before `m + MAX_REQUESTS_PER_WINDOW` (`WindowHolds`).

*The refinement.* Every action of the service leaves the abstract variables alone or is
one abstract step: a SELECT that finds a live token is `Present`, leaving the handler is
`LetGo`, and `Write` of a session is `Open`, `Exchange` or `End`. It needs `TokenInv`:
that what a commit revokes belongs to one account, that the token it inserts is not in
the table, and that a held token is a row of the user it is exchanged for. In a
successful rotation `Exchange` also needs that the old row is among those revoked.

*Ingestion.* `Inv` says of every stage of a run what the run has left behind on disk and
in S3 (`Left`), that a stamp belongs to one file or one run (`OwnStamps`) and that there
are enough of them: the stamps taken are counted against the requests begun
(`StampsSuffice`). For results, `Promised` relates every run that is to make one to the
results stamped before it began. That readers are fresh uses `SetLemmas!MaxIsGreatest`: a set of
naturals under a bound has a greatest element and `Max` is it, proved from well-founded
induction.

*Listings and summaries.* For a listing in progress: of each instance on the pages read
that has not changed since, what was read is its state now; no item stems from a page to
come, and without a filter every instance of the pages read has its item (`ListingInv`). A
summary adds its counters up: `CountersSum` makes the sum the number of items, by way of
`SumIsUnits`, which shows of any function into the naturals that its sum is the size of a
set of that many units, so that facts about finite sets give facts about sums.
For `KeyErrorNeedsOverlap`: a collection that is alone and has found an entry finds it
again (`Alone`).

*The caches.* An entry, or what a call has found or read, may be wrong about a volume or a
metric for two reasons only: it appeared or disappeared since, or the `list_metrics` that
asked for it failed. `Excuses` are the times of those, and `CacheInv` bounds how old an
excuse can be at each place where an answer rests on it. What a call found itself is
excused by nothing older than the call (`Found`). What is in a cache is excused by nothing
older than what any thread in a position to read it allows (`StoredAt`): with `z` the time
of the excuse and `Slack` zero while no two collections ever overlapped and `LONGEST_CALL`
once they did, the stamp is at most `z + 2 * Slack`; a call that has cleared that cache and
not stamped yet began by `z + Slack`; a call that has passed its check of the TTL and may
still read the entry began before `z + CACHE_TTL + 2 * Slack`. The two slacks are the two
races of section 2: a discovery stored after a clear, and a stamp set after the clear it
belongs to. At the query an excuse is younger than the horizon (`Recent`), so a volume
that has long been gone is not asked about, and one that has long been there is, or this
very collection failed to resolve the volumes (`QueryIsRecent`). Then `JudgeBetween`
compares judgements of different sets of queries: more queries add naturals to the sums
(`SumMonotone`), and the one datapoint `_parse_results` takes is the freshest one
(`LatestOfReading`). `CacheInv` was checked with TLC on the instance of `MCMonitor` before
it was proved.

## 5. What is only model-checked, and what is not modelled

- Liveness (`RequestsFinish`, `CallsEnd`): fairness and ENABLED are out of the
  prover's reach.
- `LockoutEngages`, `InactiveHasNoSession`, `PasswordChangeEndsSessions` and
  `AdminUpdateKeepsAnAdmin`, the promises word for word, hold one request at a time, in
  the world of `tests/`, and are checked there only. The first fails on the server, which
  rolls the count back, and the last two between two threads (section 6). What holds
  between threads is proved, as the properties of `AuthOverlap`.
- Not modelled: password hashing and strength, the text of tokens and mails, names and
  addresses, HTTP status codes, the migrations as steps; severity, score and wording of
  an anomaly, functions of the features over their threshold; `fetch_single_metric`,
  for debugging only; the read-only listings of sessions, events and users, which
  return what one or two SELECTs find. Two
  processes of the server behave like more threads, but for the rate limiter and the
  caches, which each process has for itself.
- Observation files are written in place, and one left unfinished is still the latest.
  `LatestIsFresh` says that a reader is handed no older file, not that what it is handed
  can be read: until the next complete file every read of it raises.
- Entries dropped by a race of two `popleft`s let more than `BucketBounded` suggests
  pass in one window: the property bounds the bucket, and no multiple of the limit
  bounds the requests of a window when calls overlap.

- Assumed of AWS: an instance stays on its page of `describe_instances` during a
  listing, CloudWatch answers a query with whole datapoints, and no collection takes
  longer than `LONGEST_CALL` (boto3's timeouts and retries bound it).
- A collection whose `get_metric_data` fails judges nothing as over its threshold: the
  code turns missing metrics into 0. `OverloadIsReported` excepts exactly this, a
  failed `describe_instances` of the same call, and a `list_metrics` that failed within
  the horizon.

## 6. Disagreements found

| Run | The code | The claim |
|---|---|---|
| `MCLockoutLost` | `authenticate_user` counts failed logins in memory and raises; nothing commits the count, so no account is ever locked | `tests/auth/test_auth_flow.py:88-93` expects 429, and passes because its fixture shares a session |
| `MCLastAdminLeaves` | `deactivate_account` does not count administrators | "Cannot deactivate the last active admin" (`user_service.py:287`) |
| `MCLastAdminRace` | two updates count two administrators each and remove both | "Cannot demote the last active admin" (`user_service.py:282`) |
| `MCPasswordChangeRace` | a token that commits between the SELECT and the commit survives | "Change password (revokes all sessions)" (`tests/auth/test_auth_full_workflow.py:144`) |
| `MCIngestionLogs` | `summarize_logs` calls `get` on a pydantic model: any log event makes the ingestion fail | `logs: list[dict]`, "Run /api/run-ingestion first." |

With two threads the error message "Refresh token revoked or expired" is not kept to
either: two refreshes that read a token before one commits both exchange it.
`RotationsBounded` and `RevokedIsNotExchanged` are what remains. A password reset leaves
every session alive, a password change in progress overwrites a reset that commits
meanwhile, and a demotion that commits during an administrator's request does not stop
it; nothing in the repository says whether they should.

## 7. Plan

1. Listings: `list_users` and its total from two SELECTs, pages that move while
   accounts are registered.
2. A refinement of the collector: an abstract monitor that knows the resources as they were
   at some time within the horizon, with `CacheInv` as the argument that `MetricCache`
   implements it.
