# TLA+ verification of DebCraft

DebCraft mirrors Debian repositories, indexes them, scans artifacts (images,
directories) for Debian packages and writes SBOMs. This directory holds TLA+ modules
that model the parts of it whose behaviour is hard to test, the TLC configurations
that check them on small instances, and theorems about them that TLAPS proves for
every value of the constants. Paths below are relative to `src/debcraft/` in the
repository; `PROJECT.json` maps every definition to the lines it stands for.

    tlc -workers 2 -config MirrorSyncSafety.cfg MCMirrorSync
    tlapm MirrorSyncProofs.tla

## 1. The system

The pipeline is `mirror sync` → `index` → `sbom` (scan → enrich → assemble → write →
persist). Each is a process of its own; they meet in three SQLite databases
(`mirror.db`, `metadata.db`, `cache.db`) and in the mirror directory. Everything
inside a process runs on one asyncio event loop: code between two `await`s is atomic,
everything else may interleave.

| Component | State | Operations | Meets |
|---|---|---|---|
| Mirror engine (`infrastructure/mirror/engine.py`, `_staging`, `_persistence`, `_checksums`, `publisher`, `domain/mirror/comparator`) | `repository_files`, `sync_sessions`, snapshots, mirror files, counters of the session | release → indexes → artifacts → verify → publish for each suite; resume; persist session | coordinator (calls), databases, cancellation token |
| Mirror workflow (`mirror/workflow.py`, `cli/mirror.py`) | cancellation token, results per repository | sync all repositories, roll back after a cancellation | engine, kernel |
| Download coordinator (`mirror/download.py`) | semaphore, tasks of a TaskGroup, `.part` files | download_file with retries, download_batch, check_conditional | rate limiter, HTTP, disk |
| Rate limiter (`mirror/rate_limiter.py`) | tokens, time of last replenishment | acquire with a timeout, cancel_waiters | every request |
| Mirror configuration (`mirror/config_reader.py`, `domain/mirror/config.py`) | none | parse, validate | workflow |
| Debian index parsers (`domain/_stanza_parser.py`, `domain/mirror/*_parser.py`, `domain/indexer/*_parser.py`) | none | text → records | engine, indexer |
| Indexer service (`domain/indexer/service.py`) | snapshot in progress, skip decisions | index_repository: choose files, parse, persist, mark INDEXED, publish | mirror.db, metadata.db |
| Indexer persistence (`infrastructure/indexer/*`) | snapshots, packages, instances, file ownership | find or create, add in batches, publish, mark_indexed | indexer, enrichment |
| Index CLI (`cli/index.py`) | results per repository | discover, index each | indexer |
| Mirror cache maintenance (`cli/mirror.py`) | none of its own | verify, status, clean | mirror.db, disk, a running sync |
| Storage engine (`infrastructure/storage/engine.py`) | initialised flag, cache directories | initialize (recovery, integrity scan), invalidate, shutdown | mirror.db, disk |
| Databases, unit of work, migrations (`infrastructure/database/*`, `repositories/*`) | sessions, transaction, schema version | commit, rollback, run_pending, dispose | everything that persists |
| Kernel workflow engine (`platform/kernel/workflow.py`) | running workflows, their status | run with timeout and retries, cancel, shutdown | event bus, signals |
| Kernel event bus (`platform/kernel/events.py`) | handler lists | subscribe, publish | all |
| Kernel container, scopes, resources (`kernel/container.py`, `resources.py`) | registrations, instances, resources to release | register, resolve, close | all |
| Kernel configuration, logging, errors | settings | load, format | all |
| SBOM workflow (`sbom_writers/workflow.py`, `cli/sbom.py`) | stage, write results, SBOM record | scan, enrich, assemble, write one format after the other, persist | scanners, writers, cache.db |
| SBOM model and writers | none | assemble, validate, serialise | workflow |
| Plugin registries (`scanners/registry.py`, `sbom_writers/registry.py`) | plugins by name | discover, register, look up | workflow |
| Artifact scanners (`scanners/*`, `domain/_whiteouts.py`) | virtual file system | read image, merge layers | identification |
| Package identification (`domain/scanner/*`) | none | parse dpkg status, classify | enrichment |
| Enrichment (`scanners/enricher.py`, `cache_adapter.py`) | enrichment cache | look up a snapshot's metadata | metadata.db, cache.db |
| Package intelligence (`domain/package_intelligence/*`) | none | copyright, licences, SPDX expressions, symlinks | scanners, SBOM |

### What makes it hard, and what correct means

*Mirroring.* Files and rows are two stores without a common transaction. A session
writes one, then the other, can die, be cancelled, lose a commit (the helpers catch
`SQLAlchemyError`, log it and go on) or be left by an exception at any `await`; upstream
publishes new releases meanwhile; the indexer marks rows from another process. Later
sessions trust the rows and never look at the disk. Correct: a row vouches only for
what is on disk; verified work is not lost; a suite is skipped only when nothing
changed; a session is called completed only if it is; repeating sessions converges.

*Downloading.* Many tasks share permits and tokens, each attempt can end in a dozen
ways, and one exception cancels the siblings. Correct: destinations are atomic and
verified, one result per task, permits balance, requests are metered, batches end.

*Indexing and enrichment.* Files are marked one by one, a snapshot is published at
the end, and enrichment reads the newest one. Correct: what is marked is in
metadata.db, and a run that succeeds leaves nothing out; the snapshot a scan uses is complete.

*Maintenance.* `clean` compares the disk with the database while a sync may run.
Correct: no referenced file is removed.

*Kernel.* Completion, timeout, retry, cancellation and shutdown race. Correct: exactly
one terminal event per run, nothing runs after shutdown, resources are released once,
in reverse order, whatever fails.

*Databases.* Migrations can fail half way, be run by two processes at once and be
crossed by a crash; units of work share a pool and one writer's lock. Correct: the
recorded versions are what the schema holds, and a unit is in the database exactly as
far as its commits have returned.

*SBOM.* A scan falls back from one source of package metadata to the next, any of which
may be damaged, and can be cancelled anywhere; layers are merged with their whiteouts;
enrichment reads a cache that other processes fill, for a snapshot among others; formats
are written one after the other over files of earlier runs. Correct: lost packages are
never lost in silence, the merged files are those of an overlay, what a package is
enriched with is of the run's snapshot, and what is reported and persisted is on disk.

`PROJECT.json` lists the single hazards, each at its line, with the properties that
would catch it.

## 2. Plan

| # | Modules | Composes | Runs | Proofs |
|---|---|---|---|---|
| 1 | `MirrorSync` (done) | — | `mirror_safety`, `mirror_liveness`, `mirror_resume`, `mirror_settled` | types, rows against disk, action properties, completed sessions, what happens to index files |
| 2 | `RateLimiter`, `Download`, abstract `Fetch` (done) | `Download` extends `RateLimiter`, implements `Fetch` | `download_batch`, `download_timeout` | refinement, metering, permits |
| 3 | `Indexer` (done) | abstracts `MirrorSync` to files, rows and upstream | `indexer_safety`, `indexer_duplicates` | types, records against the cache, completeness of a run |
| 4 | `EventBus`, `Resources`, `WorkflowEngine` (done) | the engine extends the other two | `kernel_safety`, `kernel_resources` | types, one outcome, cancellation, dispatch order, reverse exits, shutdown |
| 5 | `MirrorRun`, `MirrorCache` (done) | `MirrorCache` runs beside the steps of `MirrorRun` | `storage_safety` | types, verdicts of `verify`, integrity after a scan, vouched files survive, the loop over repositories |
| 6 | `Migrations`, `UnitOfWork` (done) | — | `storage_safety` | types, schema against history, atomic units |
| 7 | `Layers`, `Scan`, `Enrichment`, `SbomRun` (done) | one after the other in the pipeline; they share no state | `sbom_safety` | types, overlays, losses said and readers closed, snapshot of an enrichment, reports and records against files |
| 8 | `Container` (done) | — | `sbom_safety` | types, verdicts against the graph |

Every safety and action property of a passing run has a theorem. Not done: that the batch
stage of `MirrorSync` implements `Fetch` (which tells the content a file had from the one
it should get; `MirrorSync` would need a history variable for it).

## 3. Module by module

### `MirrorSync`

One repository, `MirrorEngine.sync_repository` and everything it delegates to, from
start to start.

* `disk` is the mirror directory, `row` the `repository_files` table (the columns the
  engine reads back: state, sha256, retry_count, whether local_path is set, etag),
  `session` and `snapshot` the last of each that was persisted; these four and
  `remote` (what upstream serves) survive a crash.
* `pc`, `suite`, `release`, `file`, `decision`, `entries`, `queue`, `result`, `count` are
  the engine's locals and counters, `cancelled` the token. A crash clears them.
* `faults` counts injected failures (bounded by `MaxFaults`); `dbFailed` and `handled`
  are history: whether a failed write was swallowed, and which releases this session
  took to the end.

A step is one commit, one rename, or the code between. The correspondence is:
`StartSession`/`EnterSuite`/`Finish`/`EndRun` – `sync_repository` and
`MirrorWorkflow.execute`; `CheckRelease` … `StoreRelease` – `stage_release`;
`DecideIndexes` … `IndexesDone` – `_stage_indexes`; `DecideArtifacts`, `CreateRows`,
`ArtifactArrives`/`ArtifactFails`, `CollectResults`, `MarkVerified`, `MarkFailed` –
`_stage_artifacts`; `DecidePublish`, `CommitSnapshot`, `SnapshotFails` –
`_stage_publish`. The environment is `Upstream`, `Cancel`, `Crash`, `Aborts` (an
exception nobody catches), `StorageInitialize` and `MarkIndexed`.

Simplifications, and what they cost:

* A content stands for its digest, and a release for its ETag: no collisions.
* One download is one step, justified by `Fetch` (below).
* Releases never bring back an index an earlier release had, in the instances; the
  module allows it. The theorem about completed sessions has it as a hypothesis
  (`NeverReverts`), which they need: see section 6.
* `url LIKE 'base_url%'` is taken as "this repository's rows": exact with one
  repository, whose URL no other extends.
* A Release body is decodable; the one kind of rejection is `Malformed`.
* No row ever becomes DOWNLOADING: no code of the pipeline sets it. The re-queueing
  of such rows in `StartSession` and `Recovered` is modelled as written and never
  finds any in the instances.
* `StorageInitialize` runs where the kernel path initialises the storage engine; the
  CLI's `mirror sync` does not, so it is never obliged to happen.

### `RateLimiter`

`TokenBucketRateLimiter`. Tokens are counted in ticks (`Grain` ticks make one token),
clocks are relative to now, so time is unbounded and the state finite. One poll
(replenish, then take or sleep) is one step: it has no `await` inside its lock. A
sleeper that is due may be woken late. `debt` is a history variable, the largest
excess of grants over the rate in any stretch of time that ends now. A crash starts a
new process with a full bucket, so `Metered` is a promise per process. `cancel_waiters`
is left out: it cancels futures nothing awaits.

### `Download`, `Fetch`

`Download` extends `RateLimiter` (its `Clients` are the batch's tasks) with
`download_batch`, `download_file` and `_attempt_download`: `StartBatch`, `BeginAttempt`
(permit, stale `.part` removed, token asked), `KeepWaiting`, `Send`, `NoToken`,
`BodyBegins`, `BodyEnds` (verify and rename: no `await` between), `RetriableError`,
`ClientError`, `UncaughtError` (timeout, file system), `CannotBegin`, `ModeFails`
(`os.chmod` after the rename), `Abort`, `Cancelled`, `EndBatch`, `Crash`. A body is
"wanted" or "other"; `Unchecked` tasks (Release files have neither digest nor size to
compare) accept both. Backoff is any amount of time.

`Fetch` states what the engine relies on, in six actions. `Download` implements it with
`outcome` mapped from `batch` (aborting is still running). `MirrorSync` is written
against it: `ArtifactArrives` is `Arrive`, `ArtifactFails` is `Fail`, `Aborts` is
`Raise`.

### `Indexer`

`IndexerService.index_repository` with the repositories it writes through, in one or
several processes (`Runners`), each running it again and again as the CLI's loop does.
The mirror goes on beside it, reduced to what it does to an index file: `Upstream`,
`Fetch` (rename), `Store` (row), `Remove` (integrity scan); `Upgrade` installs a parser
with another `PARSER_VERSION`.

* `disk`, `digest` are the cached file and its row's sha256; `record` is
  `indexing_records`; `owner` says in whose snapshot the `package_instances` row of a
  natural key is: a running one's, a published one, or one abandoned by a run that died.
* `Start` – `find_or_create_repository`, `create_snapshot`; `List` – `get_verified_files`;
  `Skip`, `Read`, `FileFails`, `Persist`, `Mark` – `_process_single_file` split at its
  commits; `Publish` – `publish_snapshot`; `Die` – `IndexingFailed`, an exception nobody
  catches, or the end of the process. `failed` is history.

Simplifications: contents are numbered in the order upstream publishes them, and upstream
never goes back (if it does, `RecordIsBacked` fails; see the hazard at `service.py:331`).
`add_package_instances` selects and inserts in one transaction; of two that insert the same
key one fails on the unique constraint, which is `Die`, so it is one step here. The row's
INDEXED state is left out, since no run reads it; `MirrorSync` has it (`MarkIndexed`).
Sources and Contents files are left out: `generate_index_paths` names none.

### `EventBus`, `Resources`, `WorkflowEngine`

The kernel. `EventBus` is `KernelEventBus`: `handlers` is `_handlers`, `dispatch` the `for`
loop of a `publish` in progress with its index into the *live* list, so `Subscribe` and
`Unsubscribe` of other tasks are seen by it; `Invoke` is one handler, which may raise.
`Resources` is `KernelResourceManager`: `Acquire`, `BeginCleanup` (the list is copied and
emptied first), `ExitNext`, and `CancelCleanup`, after which nobody knows of the rest
(`forgotten`).

`WorkflowEngine` composes both. `pc` is where `run` is: `Start` (tracked, started event),
`BeginAttempt` (the token is looked at, also after a backoff), `TimesOut` (`wait_for` cancels
the coroutine, which unwinds), `EndsInTime`/`Unwinds` (it returns, raises, or raises
`TimeoutError`), `CloseScope` (terminal event), `Return`; `Interrupt` cancels the task that
awaits `run` at any of its awaits. `Cancel`, `Sigint`, `BeginShutdown`, `EndShutdown` and
`ChangeHandlers` come in between. What the workflow itself does is external. Waiting times
are left out: a timeout may fire at once, a backoff may last.

### `MirrorRun`, `MirrorCache`

`MirrorRun` is one `mirror sync` over all repositories, in either of the two loops there
are: the workflow's, which isolates a repository's failure, looks at the token and rolls
back what is queued after a cancellation, and the CLI's, which does none of it. A
repository's own pipeline is reduced to what another process can see of it: rows are
queued (`EnterRepository`), files arrive, rows are marked (`RepositoryReturns`).

`MirrorCache` puts `mirror clean` (`Scan`, `QueryReferenced`, `Confirm`, `RemoveListed`),
`mirror verify` (`QueryVerified`, `CheckListed`, `Report`) and the integrity scan of the
storage engine (`ListFiles`, `ComputeSha256`, `Lookup`, `EndScan`) beside it, one step per
file and per query. `touched` is history: the files whose content or row changed after the
command had read them. `Damage` changes a file from outside. Contents are numbered and
upstream only goes forward.

The module shows what the commands guarantee in spite of the race, and where it ends: a
file that a sync renames or marks after `clean` has read both *is* removed
(`RemovesOnlyUnvouched` excludes exactly those).

### `Migrations`, `UnitOfWork`

`Migrations` is `run_pending` by several processes of different releases (`Known`):
`RunPending`, `NextVersion` (savepoint), `Create` (one DDL statement), `Insert`, `Release`,
`Fail`, `RollBack`, `Crash`. sqlite3 begins no transaction before a `SELECT` or DDL, so the
applied versions are read outside any, and the savepoint is the transaction; SQLite's lock
is `MayWrite`.

`UnitOfWork` is `SqliteUnitOfWork` over a pool of connections: `Read`, `Write`, `Commit`
(inside the body or by `__aexit__`; with a cancelled token it rolls back and raises),
`CancelledInCommit`, `RollBackInside`, `Abandon`, `Close`. `promised` is history: the changes
for which a commit has returned.

### `Layers`, `Scan`

`Layers` merges the layers of a Docker or OCI image: `MergeLayer` stores the files of any
archive and applies its markers, `LayerFails` passes over a layer that stops half-way,
`LayerRaises` is the exception nobody catches. `view` is the reference: the overlay of the
image specification. The code differs from it on the constructs listed in `Odd` (each is a
finding or a documented limit), so `view` is kept, and `MergedIsOverlay` stated, while an
image is `plain`. Member names are sequences of components.

`Scan` has the ISO, IMG, QCOW2, AMI and directory scanners: a step is an open, a listing, a
file read or one package of a loop; `Checkpoints` are the places where each looks at the
token, `Leave` the `finally` clauses on the way out. What a file lists, what of it is
usable, and what cannot be read are arbitrary. `listed` is history: what the package
metadata chosen so far lists. A `note` is a diagnostic that reports no loss; it does not
satisfy `PartialIsSaid`.

### `Enrichment`

`MetadataEnricher` in several processes beside the indexer: `Begin` (`resolve_snapshot_id`, or
an explicit `--snapshot-id`), `CacheGet`, `Query`, `Store`, `Extract`, package by package. The
indexer adds instances of packages no snapshot has yet and publishes. `early` marks
snapshots that somebody named before they were published: an entry cached for one of them
goes stale, since nothing invalidates it (a finding). `calm` marks runs during which no
query failed and nothing was indexed: only of these can be said that no package was left
to the last tier for no reason.

### `SbomRun`

`SBOMWorkflow.execute` with `write_with_cancellation`, `_persist` and the `sbom` command
around it, run after run into one directory. A file remembers which run wrote it and
whether it is whole. Writers fail before, in or after `write_bytes`; `Tidy` is the
command's removal of what was asked for, `Collect` its reading of the files for their
digests, `Interrupt` everything `except Exception` does not catch.

### `Container`

`KernelContainer` and one `KernelScope`: `Register` (again, too), `RegisterInstance`,
`CloseScope`, and one call of `resolve` in steps: `Enter` (missing, cached, circular, or
pushed), `ResolveNeed`, `Construct`. `resolving` is the `_resolution_stack` of each owner, `calls` the
Python call stack. The reference is `Reached` with the least fixpoint of `Needs`, computed
from the registrations alone. What `close` methods do to instances is left out.

## 4. Runs

| Run | Instance | Shows |
|---|---|---|
| `mirror_safety` | 2 suites sharing a package, one with an InRelease and two releases (the other's upstream stays, and the indexer is run on the first only), 2 packages, one row per transaction, at most 2 failures of 5 kinds | the five safety properties: 1.6 million states |
| `mirror_liveness` | 1 suite served by Release only, 3 releases (the second malformed), foreign keys enforced, 1 failure | `EventuallyMirrored` |
| `mirror_resume` | 1 static suite with InRelease, one failed request | violated: a package that failed once is never tried again |
| `mirror_settled` | the same | violated: a snapshot is published beside QUEUED rows |
| `download_batch` | 3 tasks (one unchecked), 2 permits, 1 token, 2 attempts, half-token ticks, any number of failures, cancellations and crashes | the safety properties, the refinement, `BatchEnds` |
| `download_timeout` | 2 tasks, only timeouts | violated: a timeout ends the batch |
| `indexer_safety` | 2 runners, 2 files (the first replaced once, the second listing a package of the first's), 2 parser versions, 3 packages, 1 failure | `RecordIsBacked`, `PublishedIsWhole`, `EventuallyIndexed`: 1.1 million states |
| `indexer_duplicates` | 1 runner, the same files, no failure | violated: a package of an earlier snapshot is not in the current one |
| `kernel_safety` | 2 runs (one may retry once, one acquires up to 2 resources), 1 handler registered up to twice for one event type | one terminal event, no completion or attempt after a cancellation, `shutdown` drains, handlers in order, exits in reverse, `RunEnds` |
| `kernel_resources` | 1 run, 1 resource | violated: `run` returns with the resource open |
| `storage_safety` | `MirrorCache`: 2 repositories of a file each, 2 contents, 1 failure, 1 damage; `Migrations`: 2 processes of releases 1 and 2, 2 statements each; `UnitOfWork`: 2 units, 1 connection, 2 writes each | the loop over repositories, `clean`, `verify` and the integrity scan beside a sync, `HistoryMatchesSchema`, `UnitIsAtomic` |
| `sbom_safety` | `Layers`: up to 3 layers over a directory, the status file in it and a file beside it; `Scan`: 2 packages, 2 Packages files, 2 roots; `SbomRun`: 2 runs, 2 formats, requests of up to 2; `Enrichment`: 2 processes, 1 package under 2 filenames, 2 snapshots; `Container`: 3 services, 3 registrations | the six properties of the five modules: 0.7 million states |

Bounds. Two suites are needed for a package both list, and for work left behind by the
first; two releases for "changed underneath"; two packages with `BatchSize` 1 for a
crash between two transactions of one batch; two failures for a failure during the
recovery from one (cancel, then a lost commit; crash, then a failed download). The
retry limit is 2 in both passing runs (3 in the code), so that FAILED is reached with two
injected failures, or with one and a digest mismatch after an upstream change, which is
not counted as injected. In the liveness run one
failure suffices: `<>[]` only asks that failures end. Three tasks and two
permits make one task wait while two compete for the token; two attempts are a retry
and a last one; a timeout of 3 ticks with 2 per token lets a waiter poll once more
before it gives up.

For the indexer, two runners let one mark after the other with an older list or an older
parser; one replacement is enough to change a file between any two steps of a run, and a
second file lets a run go wrong after a file it has done; the failure is one run that dies
or one file that is given up.

In the kernel two runs are what shutdown and SIGINT have to tell apart, a second attempt
is a retry and the last one, two resources have an order, and a handler registered twice
is the shortest list that changes under a dispatch. One failure and one damage suffice in
`storage_safety`, for what a command reads is at most two things per file. Two layers show
what a whiteout hides and a third what comes after it; the three paths are a directory,
what is in it and what is not. With three services a cycle can pass through the scope, the
container and back, and after the third registration a service can have been registered
again. Services and enrichers are interchangeable (symmetry): no definition names one.

`storage_safety` and `sbom_safety` hold several modules that share no state. The variable
`part` picks one at the start and the others rest: every behaviour of each module is
checked, at the sum of their state spaces and not the product. Their parts come to rest
(a unit that is over, a scan that has returned), so these runs do not check for deadlock.

Properties of `MirrorSync` about packages are conditional on `~dbFailed`: with a swallowed
commit they are false, which is how the code is (hazard at `_persistence.py`). They are
stated about pool files, not indexes or Release files: an index is renamed before its
row is upserted, by design.

`EventuallyMirrored` is stated for suites whose server offers no InRelease. With one,
`mirror_resume` is its counterexample.

Fairness. `MirrorSync`: weak fairness of the session's own steps (the event loop runs a
coroutine that is ready) and of starting a session (the command is run again, by a
timer or an operator). No fairness for upstream, the indexer, the integrity scan,
cancellations, crashes or failures. `Download`: weak fairness of time, of each task
(aiohttp's total timeout bounds every request, so an answer or an error comes), of
`EndBatch` and of the TaskGroup learning that a task raised. An external cancellation
need not happen. `Indexer`: weak fairness of each runner (its event loop, and `index` being
run again); none for the mirror: `EventuallyIndexed` is about files it leaves alone.
`WorkflowEngine`: weak fairness of a run's own steps (handlers return, backoffs end), of a
cancelled coroutine coming to its end, of the exits of a cleanup, and of the timer of
`wait_for`, which the event loop fires. Nothing assumes that a workflow ends by itself:
`RunEnds` holds because of the timeout. The other parts have no liveness property: they
are commands that run once.

## 5. Proofs

`MirrorSyncProofs` proves, for any number of suites, releases, packages, faults and
any batch size (assumptions: the named ones of `MirrorSync`, which say that lists are
functions, contents are distinct from releases and from `NoContent`, and sets are
finite):

* `TypeCorrect` – `TypeOK`.
* `VerifiedOnDisk` – `VerifiedIsOnDisk`. It is not inductive: while a batch runs, files
  change. `SafeInv` adds, stage by stage, what keeps it true: `Queueing` (what
  `batch_create_repository_files` has passed is in hand: its row is QUEUED with the
  listed digest), `Fetching` (so is the whole batch, and an "ok" result has its file in
  place), `Marking` (what is marked VERIFIED is in place, what failed is still in hand)
  and `Demoting` (what is marked failed was QUEUED, never VERIFIED).
* `UntouchedWhileVerified`, `VerifiedKept` – action properties, from the same invariant.
* `SkippedSuiteIsCurrent` – needs another invariant, `Ordered`: the ETag stored for an
  InRelease file is never newer than the file on disk, nor the file newer than what
  upstream serves, whatever crashes in between; so a 304 means that all three are equal.
* `CompletedSessionsAreComplete` – `CompletedIsComplete`, under two hypotheses. The
  invariant `CompleteInv` adds to `SafeInv`: what an index row says was listed by a release
  the suite has seen, and a file that differs from its row comes from a later one
  (`IndexRow`), so that a row which agrees with the release in hand has its file unless
  upstream came back to an old index; and, while nothing has failed (`Clean`), that
  the indexes decided on (`IndexesHeld`) and the packages of the entries (`PackagesHeld`)
  are in place, stage by stage, and what earlier suites of the session took to the end
  stays in place (`HandledHeld`). The hypotheses: upstream does not bring back an index it
  has replaced (`NeverReverts`), and the releases one session takes up name one content
  for each package (`HandledAgree`, along the behaviour). Neither can be left out: without
  the first a crash and a reverted index make the property false, without the second two
  suites overwrite each other's package; TLC finds both in instances that allow them. A
  Debian archive meets the second, since a file name in its pool stands for one content;
  `mirror_safety`'s instance meets both.
* `IndexesMoveAsIndexed` – an index file and its digest change only by one of the four
  things `Indexer` lets a mirror do to them (`Upstream`, `Fetch`, `Store`, `Remove`), which
  joins the two modules file by file. From `PathsVouched`: only a row that vouches
  for a content is compared by the integrity scan.

`DownloadProofs` proves, for any tasks, permits, attempts and bucket:

* `LimiterMeters`, `RequestsMetered` – `Metered`; the inductive form is `Budget`: the debt
  and the tokens left share the capacity. `ImplementsLimiter` – the coordinator is one
  more client program of the limiter.
* `CoordinatorDelivers` – `Download` implements `Fetch`; the invariant is `ResultInv`: a task
  has a result exactly when it has ended in one, and has lost one only by raising.

* `DownloadTypeCorrect`, `PermitsAlwaysBalance`, `ReturnsClean` – `TypeOK`,
  `PermitsBalance`, `NothingPartial`, from `BatchInv`: the permits and the tasks in
  `download_file` make `Parallel`; who backs off has an attempt left; a `.part` file belongs
  to a task that has not begun, is streaming or has raised.

`IndexerProofs` proves, for any runners, files, contents, parser versions and failures:

* `IndexerTypeCorrect` – `TypeOK`.
* `RecordsAreBacked` – `RecordIsBacked`; `NothingLeftOut` – `PublishedIsWhole`. The invariant
  `IInv` has to admit that a record may name a content nobody parsed, because a run marks a
  file with the digest it listed and not with that of what it read. It says when: the
  content is `Passed`, upstream and the cache have both left it for a later one. That is
  stable, and `Forward` (a list is never ahead of the row, nor the row of the file, nor the
  file of upstream) shows that it is the only other case when a run reads.

`WorkflowEngineProofs` proves, for any runs, policies, handlers and resources:

* `EngineTypeCorrect` – `EngineTypeOK`, with attempts within what the policy allows.
* `AnnouncesOnce`, `CancellationSticks`, `DrainedIsEmpty`, `AttemptsStop` –
  `OneTerminalEvent`, `CancelledNeverCompletes`, `ShutdownDrains`, `NoAttemptAfterCancel`.
  The invariant is `RunHolds`: a run is tracked exactly while it is inside the try block
  and has no outcome, and what it has announced is told by where it is. So a cancellation
  reaches a token only before the outcome is decided, and the outcome decides the event.
* `HandlersInOrder` – `InRegistrationOrder`; `DispatchHolds` adds that the position of a
  dispatch is in the list it walks, and that who publishes nothing has called nobody.
* `ResourcesInReverse` – `ExitsInReverse`; `OwnerHolds` adds that an owner's list rises, a
  running cleanup's falls, and that together they hold what is open and not forgotten.

`StorageProofs` proves, for any units and pool, any migrators and versions, and any
repositories, files, contents and amount of damage:

* `UnitTypeCorrect` – `UnitTypeOK` (connections in use never exceed the pool);
  `UnitsAreAtomic` – `UnitIsAtomic`, which needs `UnansweredInside`: the uncertainty of a
  cancelled commit never reaches a later transaction.
* `MigrationTypeCorrect` – `MigrationTypeOK`; `SchemaIsRecorded` – `HistoryMatchesSchema`. The
  invariant `MigratorHolds` says what of the schema each migrator holds uncommitted, from
  its place in the loop, and that it applies its pending versions from the least.
* `CacheTypeCorrect` – `CacheTypeOK`; `StorageTypeCorrect` – `StorageTypeOK`, of the three
  modules together.
* `RunsTryEveryRepository`, `VerdictsAreHonest`, `ScansRestoreIntegrity`, `VouchedFilesStay` –
  `EveryRepositoryTried`, `VerifyIsHonest`, `IntegrityRestored`, `RemovesOnlyUnvouched`, from
  `CacheInv`. It has a part for each command: what the loop over the repositories has
  behind it was tried (`LoopHolds`); what `clean` is about to remove was not vouched
  for when it asked (`CleanHolds`); a file `verify` is done with is a mismatch or
  matches (`VerifyHolds`); a file the integrity scan is past has the digest of its row, and
  the one it has read keeps the digest it has in hand (`ScanHolds`). Each holds of
  every file but those in `touched`: that is what makes the parts survive a sync that goes
  on between any two steps.

`SbomRunProofs` proves, for any formats, requests and number of runs:

* `SbomTypeCorrect` – `SbomTypeOK`.
* `ReportsAreTrue`, `RowsAreFiles` – `ExitTellsFiles`, `RecordsAreWritten`. The invariant
  follows the loop over the formats: those behind it have succeeded or failed
  (`ResultsHold`), a success that no later attempt at the same format spoiled is a whole
  file of this run, and under the engine no format comes twice; rows are of earlier runs
  until this one persists (`RecordsHold`).

`ArtifactProofs` proves, for any paths and layers, listings and roots, packages,
snapshots and runs (assumed: the bounds are natural numbers, and the status file is a path):

* `LayersTypeCorrect`, `ScanTypeCorrect`, `EnrichmentTypeCorrect` – the types; with those of
  `SbomRunProofs` and `ContainerProofs`, `SbomPathTypeCorrect`.
* `MergesAreOverlays` – `MergedIsOverlay`, inductive with the types: `MergeMatches` shows that
  one merged layer agrees with one layer of the overlay, path by path.
* `LossesAreSaid`, `ScansCloseReaders` – `PartialIsSaid`, `ReadersClosed`. `ScanHolds` says at
  each step of a scan that what has been identified is what the metadata lists, or that a
  loss has been reported.
* `RunsKeepToTheirSnapshot` – `EnrichedFromSnapshot`. `EntriesHold` says of the cache that an
  entry for a snapshot published in time is of the newest instance in it, and
  `RunsHold` the same of what a run carries from the query to the cache.

`ContainerProofs` proves, for any services, registrations, needs and scopes:

* `ContainerTypeCorrect` – `ContainerTypeOK`; `ResolutionsTellTheGraph` – `CycleIffCyclic`. The
  calls are a path of needs from the node that was asked for (`PathHolds`), the stacks hold
  only its nodes (`StacksHold`), and what is cached can be built (`CachesHold`). Reached
  and buildable nodes are smallest fixpoints, so that no induction over data is needed: a
  node met again on the stack closes a cycle of nodes that are reached (`PathCycles`), and
  what can be built is in no cycle.

Only model-checked: the liveness properties `EventuallyMirrored`, `BatchEnds`,
`EventuallyIndexed` and `RunEnds` (liveness under fairness is out of the proof system's
reach, together with `ENABLED`). The properties of the five runs that expect a violation
are false, so there is nothing to prove of them.

## 6. Disagreements between the code and its documents

Five have a run whose counterexample shows them: `mirror_resume`, `mirror_settled`,
`download_timeout`, `indexer_duplicates` and `kernel_resources`. The others are met by a model
and listed in `PROJECT.json` with the line that says otherwise:

* Mirror: the snapshot's repository id of 0, which violates the foreign key wherever
  foreign keys are enforced; `cancel_waiters`, which releases nobody; an index skipped
  because its row has the digest, although a crash left another file under it.
* Enrichment: the cache adapter used without `cache.db`, whose parameter names do not match
  the call; cached enrichments nothing invalidates; the newest snapshot chosen by id
  rather than by `captured_at`.
* Scanners: whiteouts of what the same layer writes, and of directories; damaged layers
  whose errors escape; cancelled scans that drop what they found; unreadable artifacts
  that give a result where an error is specified; equal priorities in the registry; an
  ISO repository without packages.
* SBOM command: complete files and files of earlier runs removed after a failure; names of
  formats.

## 7. Not modelled, and why

* *Mirror configuration* and *kernel configuration, logging, errors*: stateless parsing and
  formatting; nothing another part does depends on an order of its steps.
* *Debian index parsers*, the parsers of *package identification* and *package intelligence*
  (deb archives, copyright files, SPDX expressions): functions of their text. The models
  take any result, or any failure, a caller has to cope with.
* *SBOM serialisation*, the assembler and schema validation: functions from records to
  text. That they may refuse is part of `SbomRun`.
* *Registries*: entry points are loaded once, before anything runs.
* *Sources and Contents files* in the indexer: `generate_index_paths` names none.
* *Providers*: `dispose`, `health_check`, the single queries of the repositories, and the
  creation of directories by the storage engine are calls without an interleaving of
  their own.
