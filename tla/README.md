# Raindrop in TLA+

Raindrop is a self-hosted feed reader: one server process (or several on one
database) that serves an HTTP API and web pages, refreshes feeds in background
lanes, runs AI jobs about articles, backs up subscriptions, and hosts plugins.
Everything that must survive a crash is in an SQL database; the processes keep
only what a request or a lane is doing.

This directory models the parts of that code where concurrency, failure and
time decide whether it is correct, checks them with TLC on small instances and
proves the central results with TLAPS for every size. Paths below are relative
to `src/src/` unless they start with `src/`.

## 1. Inventory

| Component | State it keeps | Operations | What is hard | What makes it correct |
|---|---|---|---|---|
| Refresh runs, leases, schedule (`feeds/repository.rs`, `schedule.rs`, `refresh.rs`, `lifecycle.rs`) | `feeds` (lease, schedule), `feed_refresh_runs`, `lifecycle_outbox` | queue, claim, extend, recover, enqueue due, complete | several lanes and processes, leases that expire under a slow attempt, crashes between claim and commit, once-only keys | one active run a feed, commits fenced by the lease, no lost retry, exact failure count, schedule never stuck |
| Feed runtime (`feeds/runtime.rs`, `service.rs`) | per lane: candidates, claim, context, result | `run_lane`: recover, enqueue, retain, claim, execute with a heartbeat | candidates read before the lock, the heartbeat beside the attempt, lost wake-ups, shutdown | due feeds are fetched, running runs end |
| Subscriptions (`feeds/subscription.rs`) | `subscriptions`, `feeds.orphaned_at` | subscribe, unsubscribe, manual refresh, move to another URL | two users on one feed, the limit of active runs, the cool-down | `orphaned_at` follows the last subscriber, limits hold |
| Feed and history retention (`feeds/retention.rs`) | deletes rows of feeds, runs, outbox | three purges | scan and locked re-check, foreign keys, one failure in a batch | deletes only old orphans, and all of them |
| Entry store (`feeds/persistence.rs`, `identity.rs`) | `entries`, `ingest_generation`, retired identities | store the entries of a fetch in one commit | retries of a commit, deduplication, sequence numbers | an entry is stored once, generations order what readers see |
| Reader state, bulk read (`feeds/state.rs`, `bulk_read.rs`, `query.rs`) | `entry_states` | mark read, starred, read later, mark all read | stale pages, concurrent edits with revisions | no state is lost, nothing newer than the page is marked |
| Read-article retention (`feeds/article_retention.rs`) | deletes `entries`, keeps identities | purge old read articles | the feed still lists what was purged | a purged article does not return |
| Content jobs (`content/jobs/`) | `content_jobs`, `content_job_attempts`, `content_artifacts`, `content_job_results` | enqueue, claim with recovery, heartbeat, two verdicts | limits per user, leases and deadlines, retries, two jobs of one identity | attempts tell the truth, one artifact an identity, jobs end |
| Content worker (`content/worker/`) | eight lanes and a heartbeat task each | `run_lane`, `run_claim`, the processor | a heartbeat racing the processor, an entry that changes, a provider that never answers | verdicts only in time and only once |
| AI broker, admission (`content/ai/`) | semaphores and request windows in memory | acquire, reserve, release | provider revisions, a sliding minute | permits and windows bound the calls |
| Content providers (`content/provider/`) | `content_providers`, encrypted secrets | create, update, delete, bind | revisions, secrets | optimistic updates |
| Backups (`backups/`) | `backup_targets`, `backup_schedules`, `backup_jobs`, `backup_job_targets` | enqueue, claim, upload to each target, finish | an upload longer than the lease, a crash between upload and record, partial success | each target ends, the job says what its targets did |
| Background supervision (`background.rs`, `main.rs`) | tasks and a shutdown flag | start, join, shut down | one runtime ends first | both always end |
| Plugin registry (`plugins/repository.rs`) | installations, configurations, grants, key-value store | sync, replace configuration, grant, revoke, put, delete | optimistic revisions, quotas | no lost update, quotas hold |
| Plugin runtime (`plugins/runtime/`) | budgets of an invocation | host calls | limits | budgets hold |
| Translation (`translation/`) | settings, a cache by content hash | translate, look up | provider calls | cache keyed by content |
| Sessions (`auth/`) | `sessions`, `users` | create, resolve, revoke | idle and absolute expiry, coarse last-seen writes | an expired or revoked session is refused |
| Setup (`setup/service.rs`) | a mode flag, a configuration file, the database | complete, complete admin | a crash between file and database | one administrator, setup can be finished |
| Realtime hub (`realtime.rs`) | a bounded broadcast for each user | subscribe, publish, receive, drop | slow receivers, changes that are never published, shutdown | a lagging reader is told to synchronize, and shows what was published |
| Rate limits (`api/rate_limit.rs`) | windows and permits in memory | check, record, acquire | full key tables | limits hold, tables are bounded |
| Preferences, organization (`preferences/`, `organization/`) | single rows, fonts, categories | read, update | counts | limits hold |
| Fetching (`feeds/fetch.rs`, `resolver.rs`, `address_policy.rs`) | one snapshot of NAT64 prefixes, shared | fetch, resolve, approve, redirect, read | a policy that expires between two reads, four limits of time | requests go only to approved addresses, and end in time |
| Parsing (`feeds/parse/`, `opml.rs`) | none | decode, parse | formats | — |
| HTTP and web (`app.rs`, `api/routes.rs`, `web/`) | none | routing, encoding | — | — |
| Database schema (`db/`) | constraints | migrations | cascades and restrictions | — |

How they meet: requests of the API call the repositories, each in transactions
that lock the user row and then the feed or job row. Lanes call the same
repositories and share nothing else with requests but the database and a
`Notify` that wakes them early. A refresh stores entries, which content jobs
read later and retention deletes. `PROJECT.json` lists the components with what
is modelled of each, and the hazards of the code at their lines.

## 2. Plan

In the order of importance. Everything but the last item is done.

1. `FeedRefresh` (runs, leases, schedule, lanes, subscriptions, retention) and
   the abstract specification it implements, `RefreshCycle`.
2. `FeedRefreshProofs`: type correctness, every safety property of the runs and
   the refinement, for all constants.
3. `ContentJobs`, the queue of AI jobs with its lanes, with `ContentJobsProofs`;
   `ContentOverview`, what a reader sees of it.
4. `FeedRetention`, the purge as an ordered pass against the foreign keys.
5. `EntryStore` and `EntryList`: commits of fetched documents, what a reader has
   read, retention of read articles, walks through a list.
6. What stands behind AI content: `PluginRegistry`, `Providers`, `AiExecution`,
   `Admission`, `Translation`; `AiExecutionProofs`.
7. `BackupJobs`.
8. The services around: `Accounts`, `RateLimits`, `FeedFetch`, `Setup`,
   `Supervision`, `Realtime`, `Organization`; `FeedFetchProofs`,
   `ServicesProofs` for the entry store, its lists and the limits, and
   `LifecycleProofs` for backups and the services that must come to an end, and
   `TranslationProofs` and `ReaderProofs` for what a reader is answered.
9. Models left: parsing of feeds as a conversion, the preferences, questions to
    the AI about an entry, which use the permits of `Admission` without a job.

Modules are written to be proved about: constants with named assumptions, one
action for each operation, invariants as conjunctions, no RECURSIVE operator.

## 3. Modules

A transaction that locks a row before it reads is one action. What is read
*outside* of a transaction, or in a statement before it, is a step of its own,
and the later action makes the checks that the code makes again. Requests that
change nothing (a known key, a refused form) are no actions.

`MC*` modules give the constants values. Some of them put several components
next to each other that share no state, to be checked in one run: a variable
`part` says which one a behaviour is about, and the others stay in their
initial state. `Absence` declares `None`, the value of a column that is null.

### FeedRefresh, RefreshCycle

| Variable | Code |
|---|---|
| `now` | the clock of the database, read inside each transaction |
| `row`, `disabled`, `orphaned` | a row of `feeds`, its `is_disabled` and `orphaned_at` |
| `subs` | `subscriptions` of a feed |
| `lease` | `lease_owner`, `lease_token`, `lease_until` of a feed |
| `sched` | `next_fetch_at`, `consecutive_failures`, `retry_after_at`, `last_attempt_at`, and whether `last_success_at` is set |
| `run`, `outbox` | `feed_refresh_runs`, `lifecycle_outbox` |
| `pc`, `todo`, `claim`, `ctx`, `job` | where a lane is, the candidates it read, its `RefreshClaim`, the failure count it read, the result it is about to commit |

Every transaction of `feeds/` locks the feed row first. A scan (`ScanExpired`,
`ScanDue`, `ScanOrphans`, `FindWork`) fills `todo`, and a later action handles
one candidate with the checks the code makes again under the lock.
`LoadContext` reads the failure count before the fetch and `Finish` writes the
schedule after it. Requests check outside and again inside; only the second
check is modelled.

Points a reader may stumble over:

- Lanes stand for lease owners: an owner string has the process and the lane.
  A restart takes the lane to `"top"` (`Drop`), which is also how an attempt
  ends that fails without a write, and how a commit whose answer is lost ends.
- `Drop` includes persistence errors: the code retries a transient one three
  times and then ends the attempt *without* recording a failure, so the run is
  lost, recovered and retried without back-off (`feeds/service.rs:241`). This is
  the code's behaviour and no document states a rate to hold it to.
- An `is_disabled` feed is only made by an operator; no code writes it. The
  retry of a lost run of a disabled feed stays queued, which keeps the feed
  from being purged.
- Run ids are given in the order of insertion; equal `queued_at` are picked in
  any order, as the code compares a random id there. Feed ids are never reused.
- `retry_after_at` is stored uncapped; only `next_fetch_at` is capped at 4 h.
- A run whose feed has used up its token blocks the head of the candidate list
  (the code reports an error and the lane starts over); the bound on tokens is
  where `QueuedStarts` stops.
- The checks of active runs and keys inside `Requeue` cannot fail given
  `OneActiveRun`; they are kept because the code has them.
- Not in the model: the limit of 100 candidates of a pass, HTTP validators,
  the contents of entries and of events, and `queue_refresh`, `claim_run`,
  `cancel_*`, `record_lease_lost`, which only tests call.

`RefreshCycle` is the abstract specification: a feed is idle, waits, or is
worked on; a grant is numbered; work concludes with one result or is forfeited,
and then the feed waits again. `ImplementsCycle` maps the runs of a feed to its
stage, the lease token to the number of grants, and `consecutive_failures` to
itself.

### FeedRetention

The purge of `FeedRefresh` deletes a feed whenever the locked check allows it.
Here the pass itself is modelled: candidates sorted by `orphaned_at`, at most
`BatchLimit` of them, one cutoff for the pass, and a deletion that can fail.
`ai[f]` says whether the entries of a feed have jobs or artifacts. Deleting a
feed cascades to entries and jobs, but `content_artifacts.producer_job_id` and
`content_job_results.artifact_id` are `RESTRICT`, so the database refuses
(`CascadeRefused`), and the error leaves `purge_orphaned_feeds` before the rest
of the candidates (`DeleteFails`).

### EntryStore, EntryList

| Variable | Code |
|---|---|
| `generation`, `head` | `rss_counters`, `feeds.entry_sequence_head` |
| `entry`, `retired` | `entries` (sequence, generation, `sort_at_us`), `retired_entry_identities` |
| `sub` | the frontiers of a subscription: `start` and `read_through` |
| `state` | `entry_states`: the override of the frontier, starred |
| `walk` | the cursor that a page of a list holds, and what it has shown |

An article is what one identity names (a GUID, a URL or a fingerprint), whether
it is stored or not; a document is a set of articles with dates, and a commit
stores those that are neither known nor retired and updates the others.
`MarkRead` is the mark of a whole page up to the generation the page was read at.
`EntryList` adds walks: the first request reads the generation and then, in
another statement, rows; the cursor is all that the next request knows.
Hashes, texts, images, search and counts are left out.

### ContentJobs, ContentOverview

| Variable | Code |
|---|---|
| `disabled`, `readers`, `content` | `users.is_disabled`, subscribers of the entry's feed, `entries.content_hash` |
| `job`, `attempt`, `artifact`, `result` | the four tables; `attempt[j]` in the order of the attempt number |
| `window` | the candidates of `due_candidates`, read without a lock |
| `claim`, `input`, `verdict`, `pc` | the lane: its claim, the content it sends, the processor's answer |

A transaction locks the user and then the job, and is one action. `ReadWindow`
is the unlocked query; `SkipCandidate`, `GiveUp` and `StartAttempt` are the
three outcomes of `try_claim_candidate`, with everything checked again.
`FirstHeartbeat` precedes the processor as in `run_claim`; `Heartbeat` may come
at any point until the processor has answered, when the code stops the task;
`Refused` is a heartbeat or a verdict without authority. The processor is its
load of the entry, which the model has in full, and any verdict after that.

- The identity of an artifact has sixteen fields in the code, all frozen when
  the job is queued; the model keeps the user and the content they stand for
  (`AiExecution` has the others). `source` records what was really sent.
- Jobs are inserted in the order of their numbers.
- With a lease of one instant a heartbeat of the runs checks the claim but gives it
  no more time; what a longer lease adds is in the proofs of `AuthorityLasts` and
  `VerdictInTime` only.
- The lease token equals the number of attempts, so `JOB_FENCE_EXHAUSTED` only
  happens when `MaxToken < MaxAttempts`, which is so in `content_overview` only; a
  job that has no attempt left takes the same branch in the other runs.
- An error of the database inside a claim or a verdict writes nothing and is
  `Drop`; while the entry is loaded it is a retryable failure (`LoadFails`).
- The branch of `abandon_attempt` that reports corrupt data, when no open
  attempt is found, cannot be reached: `AttemptLog` says so.

`ContentOverview` puts the overview of an entry beside this queue: it reads the
artifact and then the latest job, in two statements without a transaction.

### PluginRegistry, Providers, AiExecution

| Variable | Code |
|---|---|
| `installation`, `syncing` | the row of the official plugin; what each starting process has read of it |
| `document`, `shown`, `change`, `userLock` | configuration, grant and pairs of the user; the page of a client; its transaction between lock and commit |
| `provider`, `drawn`, `screen`, `edit` | `ai_providers`, the ids ever drawn, the page and the request of an editor |
| `vetted`, `asking`, `task`, `session`, `calls` | the checked settings of a save, the reads of a request for a job, the job's identity, what an attempt has read, the calls that were sent |

A document is a row with a value and a revision. In `PluginRegistry` a
transaction locks the user first and reads and writes in later steps; an update
in `Providers` reads and writes without a lock in between, guarded by the
revision. The kind of a provider is authenticated with its sealed credential,
so a change of kind opens and seals it again.

`AiExecution` follows a request from `enqueue` to the calls: the identity is
built from separate reads, every attempt reads all of it again, and the broker
once more before each call. A call has a key made of the job and its ordinal,
so a second attempt sends its calls under the keys of the first.

- Prices are constants, and `SpendBounded` holds as far as these are right: an
  answer that times out or is not valid charges nothing to the budget.
- A process that runs an older bundle than the installation fails the job for
  good (`PLUGIN_UNAVAILABLE`): during a rolling upgrade jobs fail that a newer
  process could run.
- The number of providers (32) is counted before the transaction of the
  insertion, so two requests at once may exceed it by one.
- A pair that is deleted and put again starts at revision 0; a page that shows
  the old one may then hold a revision that exists again, with another value.
- Values of pairs have at least one unit; `put_kv` accepts an empty value too,
  which takes nothing of the quota of sizes.
- MCP is never enabled: the processor refuses a configuration that asks for it.

### Admission, RateLimits, Accounts

`Admission` is the table from a revision of a provider to its admission state
(permits and a window of requests); `call` says what a request of the broker
holds. `RateLimits` has the two tables of `api/rate_limit.rs`: windows of
mutations for each user and permits of a user, with what a full table drops.
`Accounts` has logins with their bounded password tasks, sessions with expiry,
use and revocation, and the refresh of `last_seen_at`, which a request leaves
behind and which runs later in any process.

### FeedFetch

A fetch is at one place of `fetch` and `fetch_hop`: resolve, read or discover
the policy, confirm it, request, read the body, decode. `policyNow` is the
shared snapshot of NAT64 prefixes with the moment it expires, `refreshing` who
holds the lock of a refresh, `vetted` a history variable: which of its addresses
a policy in force since the lookup allows. Addresses and URLs are members of
small sets; `Hides` says which addresses a prefix embeds a private one in.

### Translation

A request takes a permit of its user and a shared one, reads the settings, the
article and the credential one after another, cuts the article into calls and
puts the answers together; `relay` is the channel to the page, which the task
never waits for. A text is the sequence of the lengths of its words.

- The key and the base URL are read separately, so a save between the two reads
  sends a new key to an old address or the reverse.
- The batches of an article may straddle an edit of the provider; the label
  that is returned is the first batch's.
- A page slower than its channel (8) loses the stream without a message; the
  result of the request itself is unaffected.

### Organization

Subscriptions and categories as several pages change them: each change is one
transaction that locks its user; feeds are looked for first and locked
afterwards, by when they may be gone (the transaction starts over, three times
in all) or others may have appeared. `OpmlFiles` are parsed files.

- `Snapshots` says whether the reads of a transaction show the moment of its
  first read (MySQL's REPEATABLE READ). The run has FALSE (SQLite, and
  PostgreSQL's READ COMMITTED). With TRUE, TLC finds `OrphansHaveNoReaders`
  violated: the unlocked read at `feeds/subscription.rs:574` fixes the snapshot
  before the feed is locked, and the count of subscribers that follows does not
  see one who has joined meanwhile.
- A stored feed that is disabled fails the whole import of a file naming it.
- `export_opml` reads three times without a transaction; what it reads while
  another page changes the same user may be answered as corrupt data.
- A position may be set up to `i64::MAX`; the creation of a category after that
  cannot have a greater one and answers `CorruptData`.

### BackupJobs

`bjob` and `outcome` are `backup_jobs` and `backup_job_targets`; `holder` says
which worker's claim the row still names and stands for owner and lease token;
`worker` is what a runtime remembers between its transactions. Time matters only
as the end of a lease, which may come while `faults` are left and always comes
during the upload to a slow target. Uploads succeed or fail by choice.

### Setup, Supervision, Realtime

`Setup` is the way from no database to an administrator: `config` is what the
running system reads from `config.toml` and `durable` what is there after a loss
of power; `request` disappears with its connection at any await, the server
with a crash at any step.

- A client that is lost while the administrator is committed leaves the server
  in `ADMIN_ONLY`; it is finished by a request with another name, since the
  first name is taken.
- A server that crashes between the rename and the synchronisation of the
  directory adopts the new file at its next start, although the power could
  still take it away.

`Supervision` has the runtimes with their lanes, three watchers, each of which
waits for the first of its children, asks the others to stop, and joins them,
the server with its event streams, and the signals. `Realtime` has the hub's
channel, the subscription behind each connection and the state of a page;
`version` counts committed changes, and a page is caught up when it has seen it.

- A change is published after its commit, by the request or the lane that made
  it (`Commit`, then `Publish`), and this may fail: `LosePublication` is
  `finish_attempt` when it cannot read the subscribers
  (`feeds/runtime.rs:593-598`), or a request that is given up in between.
- `CommitQuietly` is a change that nobody publishes to this hub: a refresh whose
  commit took place but whose answer was lost (`feeds/runtime.rs:600`), a purge,
  or a change made by another process, since the hub is memory of one process.
- A page whose stream is open and healthy does not poll. Such a change it may
  never show as long as nothing else happens; the next event, a new connection,
  or a return to the page brings it. So `PagesCatchUp` promises what the hub was
  told of (`told`) to every page in sight, and everything to a page that is left
  without a stream, which asks every minute. It does not say that every
  committed change is shown.
- All pages of the model are connected to the hub of one process; a page that
  reconnects to another one starts there with a reload just as well.

## 4. Runs

| Run | Instance | Shows |
|---|---|---|
| `lease` | 1 feed, 1 user, 2 lanes (1 scheduler), 4 runs, 3 tokens, lease of 1, clock to 2 | unique runs under their leases, fencing, retry of lost runs, the schedule, refinement of `RefreshCycle` |
| `retention` | 2 feeds of 1 user with a limit of 1 run, 1 lane, 3 runs, ages 1, 0 and 0 | outbox, orphans, purges, the limit under subscribe, manual refresh and retries |
| `progress` | 1 feed that may be disabled, 2 lanes, 3 runs, fairness | running runs end, queued ones start, due feeds are fetched |
| `retry_after` | 1 feed, 2 users, 1 lane | *violated*: Retry-After is not always respected |
| `content_identity` | in turn: 3 jobs of 1 user with a limit of 2, 2 versions, 2 lanes, 2 tokens; 2 clients, 2 hosts, 2 bundles, 2 settings; 2 providers, 2 editors; attempts of 2 hosts, 3 parts, 2 calls | artifacts, results and the limit of running jobs; no lost edit, quotas; calls made of what the identity names |
| `content_progress` | in turn: 2 users with 1 job each, 1 lane; 1 translation, 2 pages of settings; 2 owners, 3 tabs, 3 sources, 2 shelves, files; fairness | jobs and translations end, attempts are logged, translations are whole, subscriptions and categories agree, imports are whole |
| `content_overview` | 1 user, 2 keys, 2 lanes, 2 jobs | *violated*: an overview reports corrupt data |
| `retention_cascade` | 2 feeds, one with AI artifacts, 1 process, fairness | *violated*: an AI artifact stops retention |
| `services` | in turn: 2 users, 2 feeds, 2 articles, pages of 1; 2 logins, 2 sessions, 2 processes; 2 calls, 2 revisions; 2 users with a table of 1; 2 fetches, 3 URLs, 2 addresses, 1 redirect, 1 replay | overrides and marks, walks, sessions, limits, the address policy, deadlines |
| `lifecycle` | in turn: 2 feeds, 2 processes; 2 targets, 1 job, 2 workers; 2 servers, 2 databases; 1 lane for each runtime, 2 panics; 1 page, 2 connections, capacity 1; fairness | old orphans go, backups end with a true verdict, setup ends and is durable, shutdown ends with a true status, pages catch up |
| `backup_isolation` | 2 targets, the first one slow, 1 job, 1 worker, no faults | *violated*: a slow target keeps the others from their backup |
| `admission` | 3 calls, 2 revisions, 3 states, concurrency 1 | *violated*: an edit gives a provider more permits |

**Why the bounds are enough.** Two lanes are needed for every race between an
attempt and a recovery or a second claim, and a third adds no new kind of
holder: at most one lane holds a lease, one may hold a stale claim, and a pass
works on what it has read. A feed needs runs for a first attempt, its loss, the
retry and the next scheduled run (4). Three tokens let a lane hold a claim that
is two grants old. The clock must pass a lease and a delay in both orders (2 or
3 instants); it keeps ticking beyond `MaxNow` while a lease, a deadline or a
delay is open, so nothing is stuck at the bound. Two attempts stand for three: a
first that is repeated and a last that is not; three add one more of the first
kind. Two jobs share an identity and fill the limit of two, which a third one
meets once a lane has dropped its job under a live lease. Two tokens let a lane
claim what another one lost. A batch of two contains both feeds, which keeps the
order of candidates relevant. Two revisions and two editors are a stale page and
the edit it missed. Three parts in two calls are a budget that ends in the
middle of an article. Two processes are needed for a crash of one to be seen by
another. A table of one key makes every second user evict the first. Two fetches
meet at the snapshot and nowhere else.

`CONSTRAINT Bounded` (`content_identity`, `content_progress`, `services`) keeps
the parts small: it lets at most one of several disturbances into a behaviour,
say a second user, or a second page, or a walk, but every one of them alone with
everything else. These restrictions are named in the MC modules and cost the
combinations of two disturbances; the theorems of section 7 do not have them.
In `content_progress`, which checks liveness, a fair step leaves the constraint
only where it ends the request it is about, which is what the property asks.

In `content_identity` the disturbances of the jobs are a change of the entry, a
reader who leaves or is disabled, a job that is claimed a second time, and a
third job, for which no job is tried again. An article of two parts is read
without disturbances, one of three parts with one. Jobs take their idempotency
keys in a fixed order, as keys are only compared for equality. The run
identifies states that differ by a permutation of lanes (`SYMMETRY`), which are
only compared as well, and checks no liveness.

The jitter of a failed attempt is at least one instant in the runs while the
code may draw zero. With zero, `next_fetch_at` could equal the instant it had
before and reuse its `s1` key; in the code this takes a claim, a fetch and a
commit within the microsecond of the schedule, and is listed as a hazard.

`CHECK_DEADLOCK FALSE` is set where the system really stops, or where a bound
is used up: all feeds purged (`retention_cascade`, `lifecycle`), a process that
has exited and jobs that have ended (`lifecycle`), clocks, keys and revisions
at their bound (`services`, `admission`). In the other runs TLC checks that
there is always something to do.

## 5. Fairness

Lanes run their loop for ever, and a lane that finds no work polls after one
second at the latest (so a lost `notify_waiters` does not matter): weak fairness
of a lane's own steps, and of the clock. The scheduler lane scans for due feeds
every 30 s whatever else it does: strong fairness of `ScanDue`, which other work
may disable again and again. Faults cease: from some point on, a step that looks
like a fault is an ordinary step. Retention passes are repeated every hour: weak
fairness of a pass.

A backup runtime goes on with what it has claimed, and a lease ends if nobody
works on its job: weak fairness of `BackupWork` and of `LeaseEnds`. A server
goes on with a setup request, and the user who sets it up comes back with a name
that was not refused: weak fairness of `SetupWork` and of a `CompleteAdmin` that
is no mishap. In `Supervision` fairness covers the steps of runtimes and
watchers, never a panic or a signal. In `Realtime` it covers the server's end of
the streams, the timers of the page and reloads that do not fail; not `Publish`,
which the code may leave out. A translation is only owed its time limits and the
server's own steps.

Nothing is assumed of users, operators, the processor's answers, a provider's
answers, an upload that succeeds, or the end of a refresh run in
`FeedRetention`.

Two liveness results depend on a limit of the code and are stated with it:
`JobsEnd` needs a window (16) larger than the number of due jobs of disabled
users, because `due_candidates` does not filter them, and
`PlainOrphansArePurged` a batch (100) larger than the number of orphans that
keep an active run (`feeds/retention.rs:245`).

## 6. What the runs found

- **An AI artifact makes a feed undeletable, and stops retention behind it**
  (`retention_cascade`, `OrphansArePurged`). The designs of feed retention and
  of content jobs both rely on cascades from feeds to entries to jobs; the two
  `RESTRICT` keys refuse them, the failed deletion ends the pass, and the same
  feed is the first candidate of every later pass.
- **An overview answers that data is corrupt when nothing is**
  (`content_overview`, `OverviewReportsNoCorruption`). The artifact is read
  before and the job after a lane's commit, or a second job of the identity is
  still waiting, and the disagreement of the two reads is answered with 500.
- **A slow target keeps the others from their backup** (`backup_isolation`,
  `TargetsIsolated`). The lease is extended before an upload and not during it,
  the record after it is refused, and the next claim starts with the same
  target, while the design says that target attempts are isolated.
- **An edit gives a provider more permits than its policy** (`admission`,
  `AdmissionBounded`). The state of an old revision is dropped while its permits
  are out, as a permit does not refer to the state; a request that has loaded
  the old revision then gets a fresh state.
- **Retry-After is not always respected** (`retry_after`,
  `RetryAfterRespected`). Only scheduled runs wait for `next_fetch_at`; a new
  subscription to a feed that never succeeded, or the retry of a lost run, is
  claimed at once, and the wait is capped at four hours.

All other properties hold. For each of them `PROJECT.json` names a mutant, a
small plausible bug in one definition, that makes TLC find it violated. What
no property covers is among the hazards there with the reason: a feed deleted
between scan and lock ends the pass (`feeds/repository.rs:478`), for example.

## 7. Proofs

TLAPS checks eight modules. None of the theorems bounds the number of users,
feeds, lanes, jobs, targets, servers, fetches or instants, and none assumes a
`CONSTRAINT` of the runs. They assume the named `ASSUME`s of the modules, which
say that limits and delays are natural numbers, that limits the code compares
with are positive, that sets that are counted are finite, and that `None` and
`NULL` are no rows, numbers or categories (a value and its absence are different
things). A few say
more: `TranslationAssumption` that a chunk without a key is no longer than one
with a key (the two limits in `translation/`), and that a text has words, as the
code trims texts and leaves blank ones out; `FetchAssumption` that the life of a prefix answer is positive, as
`resolver.rs` refuses one that is no longer valid when it comes; and the theorem
`ScheduleGoesOn` assumes `Spaced`, that the least jitter, the delay after a
success and the greatest delay are positive, for the reason given in section 4.

**`FeedRefreshProofs`.** The invariants the runs check are not inductive alone.
`TypeInv` adds to `TypeOK` what a lane holds at each place of its loop (a lane
that may commit has a claim, a failure count and a result). The steps are then
sorted into seven kinds (`Stillness`, `Insertion`, `Loss`, `Granting`, `Commit`,
`Extension`, `Purging`), since most of the handlers look alike to the tables,
and `StepKinds` shows that there are no others. `RunInv` is `TypeInv`,
`OneActiveRun`, `RunningIsLeased` and `RetryKeys`: the key of a retry is made
from the lost run, so a loss always finds its key unused, and inserts exactly
one retry. Without it one could not exclude that a lost run vanishes. `CountInv`
says that tokens only grow, and that a lane whose claim still names the current
token and owner read the failure count that the feed has now; this is what
makes the stale read before the fetch harmless. From `FullInv`, their
conjunction, follow `RunsAreSound`, `AttemptsAreFenced` with its three parts
(`RunsForward`, `CommitsFenced`, `FailuresExact`) and the refinement of
`RefreshCycle` (`RefinesCycle`): an insertion is an `Ask`, a granting a grant, a
commit a conclusion, a loss a forfeit, and the other kinds are stutters.

Its second part, about the tables, builds on `RunInv` and the kinds of steps.
`MemberInv`
(subscribers and runs belong to a feed that is there) carries
`OrphanIffUnsubscribed` and `PurgeLeavesNothing`; `OutboxInv` says of each run
that is still there what the outbox has of it, and that no event names a run yet
to be inserted, without which an insertion could find its events already there.
`ActiveRunLimit` is inductive with `RunInv`: recovery trades a lost run for its
retry, and everything else that inserts has counted. `LostInv` adds that ids
have no gaps and that a retry lies behind its run, so that retention, which
deletes by age, cannot make a second one possible. `SchedInv` says that no
scheduled run has an instant in the future and that a schedule about to be
committed lies behind every key in use; it needs `Spaced`.

**`ServicesProofs`** is about the services of `MCServices`. `StoreInv` joins
the types with
`SequencesFollowGenerations` (an entry of an earlier generation has a smaller
number in its feed) and `OverridesDiffer`. A mark of a page moves a frontier,
which is a number, up to a generation, and only the first of the two says that
no entry newer than the page lies under it; this gives `ReadingIsKept`.
`ListInv` says of a walk (`WalkOK`) that its cursor has everything shown so far
behind it (`Behind`), and that what it owes was shown or is still ahead
(`StillAhead`); that the order of a page exists at all is proved by counting
ranks (`RowsInOrder`), and a page is cut from it without recursion. With it
`WalkShowsAll`. `AccountsInv` ties the password slots to the work in progress,
that of clients that left included; `SessionsMoveOn` needs only the types, as
the conditional update is made again on the row. `AdmissionInv` bounds the
permits and the window of each admission state by the policy; the states of a
provider whose revision changed have limits of their own, so before the first
edit (`OneState`) the bound is that of the provider, and later it is not, which
the run `admission` shows. `LimitsInv` keeps
what a refused user was told equal to the first attempt of the current window
plus its length (`ToldOfWindow`), and semaphores apart (`SemaphoresApart`): a
user whose entry left the full table had no request in progress, so a new
semaphore cannot add to permits still held. `LimitsStand` reads `LimitsHold` off
their conjunction for the composed specification.

**`ContentJobsProofs`.** `TypeInv` adds that a running row has the end of its
lease and of its attempt, and what a lane holds at its place (`LaneOK`): between
claims nothing, in an attempt the number of an existing job, and after the load
the content of the claimed job's identity. `OneRow` reduces every transaction to
a change of one row that is new, due, or running; `DoneIsDone` and `RetriesWait`
follow. On top of `TypeInv`: `ArtifactInv` (unique identities, faithful sources)
carries `OneArtifact` and `SourceIsIdentity`; `RunningLimit` is inductive itself,
because time only shrinks the set of live jobs and only a claim, which has just
counted them, adds one; `AuthorityLasts` holds since a live row is neither due
nor expired, and its owner is one lane; `LogInv` is `AttemptLog` with the
deadline of a running row equal to that of its open attempt, and gives
`VerdictInTime`: the deadline on the row is rewritten by claims, and only this
equality shows that a heartbeat never moves it; `ResultsAgree` is inductive with
the typing. `ArtifactsAreSound` and `JobsAreFenced` are their conjunctions.

**`AiExecutionProofs`.** `ProvidersInv`: a page shows a row that is still there
or one that was replaced since, a pending update was computed from the row its
page shows, and a credential is sealed for the kind of its row. `RegistryInv`:
whoever changes a document holds the lock of the user, and what it has read is
what is there. Both give `NoEditIsLost`, the first through the revision and the
ids, which are drawn once, the second through the lock. It speaks of the
configuration and the grant, not of pairs, whose revisions start over.
`ExecutionInv`: an attempt that sends has read a row of the kind, model and
revision of the identity and can pay for the call, and every call so far follows
the identity; hence `CallsFollowIdentity`. Quota and budget are sums over sets,
folds that the community modules define with CHOOSE: from a least counterexample
each fold is shown to exist (`SumsExist`), to be the same in every larger set
(`SumsAgree`) and not to depend on the order (`SumsAdd`), so that an element adds
its weight to the rest (`WeightLaws`). `QuotaInv`: a transaction that has
checked its put still fits, as nobody else writes while it holds the user's row.
`SpendInv`: no two processes work on the same attempt, what its answered calls
cost and what it has left are together within `MaxSpend`, and its one open call
costs no more than is left; so `SpendBounded` holds although a process that
restarts forgets what it has spent. `ContentSound` is `ContentHolds` for
`ExecutionSpec`, where clients change the configuration; `QuotaKept` and
`DocumentsBuild` speak of `RegistryNext`, where pairs and the grant change too.

**`FeedFetchProofs`.** `FetchInv` says of one fetch (`Sound`) that what it holds
fits its place: once its snapshot was confirmed all its addresses are vetted, a
snapshot it holds is the shared one or an earlier one, validators go with the
first URL only, and a wait is within its limits; and that one fetch discovers at
a time, and only while the shared snapshot is missing or expired
(`OneRefreshes`), so that snapshots only get later although several fetches
publish for each other. `PolicyHolds` and
`EndsInTime` follow: a wait is cut at the least of three deadlines, and a
timeout names one that has passed.

**`LifecycleProofs`** is about all services of `MCLifecycle`. `BackupInv`: while
a row names a worker's claim, what the worker still has to do and the rows of the
job agree (`Tells`): targets it has left behind are decided, those before it have
no backup yet, and its verdict is the one the rows give. A worker whose claim was
taken may believe what it likes, as nothing it writes is accepted.
`VerdictTellsTargets` and `OutcomesStand` follow. `CutoffInv`: while
a pass has candidates its cutoff lies a full grace period back, so
`DeletesOnlyOrphans` holds for any number of processes and any moment at which
a list was read. `SetupInv` (`ServerSound`) says what the mode of a server tells of
its files, its database and its request: one that started without a
configuration leaves `FULL` only with the file durable, and is ready only with
an administrator; with it `ReadyIsDurable`. `SupervisionInv` follows a failure
upwards: what each watcher reports is so of what it watches (`BackgroundTells`,
`GroupTells`, `MainTells`), flags are set in the order that lets a watcher tell an
expected end from another (`StopsInOrder`), and until the process itself is told
to end only a failure makes anybody stop (`OnlyFailuresStop`); with it
`ExitTellsFailures`. `RealtimeInv`: a page is linked to its own open
subscription, and the hub always finds a free channel, by a pigeonhole argument
over the connections. `LifecycleSafe` is their conjunction for the composed
specification, from which `LifecycleTyped` and `ServersTruthful` are read off.

**`TranslationProofs`.** `SettingsInv`: a page shows the settings of an earlier
revision or those that are there, and a save that is about to write was computed
from the row its page shows; so a write that finds the revision it read finds
that row, which is `SettingsEditsBuild`. The rest is about the texts. Cutting and
joining are folds of the community modules, which define them with CHOOSE; each
is unfolded, from a least counterexample, into a function of the place in the
sequence (`FoldExists`, `TotalSteps`, `ChunkSteps`, `FlattenSteps`,
`BatchSteps`), and then followed along the sequence. `ChunksFit`: the chunks of
a text lose no letter, and each is within the limit, the one that is still open
included. `Numbered` and `GroupsCut`: the fragments of an article, put one after
the other, are numbered by their places, and those of one text have exactly its
letters. `BatchesCarry` and `BatchCallsFit`: batches take the fragments in that
order, leave none out, and fit. `RequestsInv` then says of a request (`ReqOK`)
that its calls are such a cut of its own article, whatever has been saved since,
and that what it has put together are the answers to the calls it has made; and
of the relay beside it (`WireOf`) that it has told exactly the beginning of the
story of the article, up to the last text whose calls are all answered. That the
owner of the first fragment not yet sent separates the texts that are done from
the others is where the order of the cut is needed (`TextDone`). How far the page
has heard it plays no part, so it holds of a channel that overflows too.

**`ReaderProofs`** is about `MCReader`, where translations and subscriptions are
composed. Organization rests on `Tables`, what the
four tables say together, and one lemma for each kind of write to them
(`Subscribed`, `Unsubscribed`, `Moved`, `Filed`, `Shelved`, `Purged`,
`Disabled`). An import is a fold over its file, unfolded in the same way into a
function of the place in the file (`ImportSteps`), along which `ImportKeeps` and
`SoFarGoesOn` carry the tables and what has been added so far; hence
`ImportSound` for files of any length. `TabsOK` is about the pages: at most one
of a user's holds the lock of the user, a move knows where its subscription is
for as long as it holds that lock, and a page that leaves a feed names a
subscription of its own user, although the id was drawn long before. `Spares`
is what a step of one page owes to the others. For exports, `ExportListed` says
that the file lists every subscription of the user once, with its category, and
`Got` follows an import of that file by another user from one entry to the next:
what has been listed so far is what the other has; `ExportAccepted` adds that the
limits are not in its way. With these two and `RequestsInv` every part of
`AnswersAreFaithful` is proved (`AnswersFaithful`). `OrganizationSound`,
`ImportsWhole`, `ExportsAreImports` and so `AnswersFaithful` assume `~Snapshots`;
with snapshots the first is false (section 3, Organization).
`TranslationsFaithful`, its part about translations, assumes nothing of the kind.

**Only model-checked.** All liveness (`RunningEnds`, `QueuedStarts`,
`DueIsFetched`, `JobsEnd`, `RequestsEnd`, `PlainOrphansArePurged`,
`BackupJobsEnd`, `SetupEnds`, `ShutdownEnds`, `PagesCatchUp`): fairness and
`ENABLED` are out of the reach of this prover. Every invariant and every action
property of a passing run is stated by a theorem, for all constants. No module
has a RECURSIVE operator, so nothing is left out for that reason.

## 8. Not modelled

Parsing, encryption, HTML sanitizing, HTTP routing and encoding are input and
output without state of their own; the document that a parse yields and the
answer of a provider are choices. WebAssembly, fuel and memory of the plugin
runtime, fonts and single-row preferences (the last writer wins), profiles and
password changes, and questions to the AI about an entry are left out. The
database is assumed to give what the code asks of it: row locks held to the end
of a transaction, and one transaction after the other where SQLite is used.
