----------------------------- MODULE MirrorSync -----------------------------
(***************************************************************************)
(* One repository's synchronisation: MirrorEngine.sync_repository with the *)
(* helpers it delegates to (_staging, _persistence, _checksums, the        *)
(* comparator and the snapshot publisher), the cancellation rollback of    *)
(* MirrorWorkflow, and what happens to mirror.db and to the mirror         *)
(* directory between two runs: crashes, the storage engine's integrity     *)
(* scan and the indexer's INDEXED marks.                                   *)
(*                                                                         *)
(* The two stores are `row' (the repository_files table, keyed by URL) and *)
(* `disk' (the files below the mirror root).  A step is what the code does *)
(* between two awaits that matter: one database commit, or one file        *)
(* renamed into place.  A download is one step that either puts exactly    *)
(* the expected content in place or changes nothing; module Download shows *)
(* that download_file implements that step.                                *)
(*                                                                         *)
(* A file's content stands for its SHA256 digest.                          *)
(***************************************************************************)
EXTENDS Naturals, FiniteSets

CONSTANTS
  NumSuites,       \* config.suites, as positions in the list
  IndexPaths,      \* generate_index_paths: component x architecture
  Artifacts,       \* pool paths, shared by the suites
  NumReleases,     \* BOUND: releases a suite's upstream publishes over time
  IndexContents,   \* contents of Packages.gz files
  Packages,        \* contents of .deb files
  NoContent,       \* no such file, no such header, not listed
  ReleaseLists,    \* [suite][release][index path]: content listed, or NoContent
  IndexLists,      \* [index content][artifact]: content listed, or NoContent
  Malformed,       \* releases ReleaseParser rejects
  InReleaseSuites, \* suites whose server offers InRelease beside Release
  ForeignKeys,     \* TRUE: SqliteDatabaseProvider (PRAGMA foreign_keys = ON)
  BatchSize,       \* _BATCH_SIZE: rows per transaction
  MaxRetries,      \* _MAX_RETRIES: failures before FAILED
  MaxFaults,       \* BOUND: failures the environment injects in a behaviour
  FaultKinds       \* the kinds of failure it may inject

Suites == 1..NumSuites

ASSUME SuitesAssumption == NumSuites \in Nat \ {0}
ASSUME ReleasesAssumption == NumReleases \in Nat \ {0}
ASSUME ContentAssumption ==
  /\ NoContent \notin (1..NumReleases) \union IndexContents \union Packages
  /\ (1..NumReleases) \intersect (IndexContents \union Packages) = {}
ASSUME ListsAssumption ==
  /\ ReleaseLists \in
       [Suites -> [1..NumReleases -> [IndexPaths -> IndexContents \union {NoContent}]]]
  /\ IndexLists \in [IndexContents -> [Artifacts -> Packages \union {NoContent}]]
ASSUME FiniteAssumption == IsFiniteSet(Artifacts) /\ IsFiniteSet(IndexPaths)
ASSUME BoundsAssumption ==
  /\ BatchSize \in Nat \ {0}
  /\ MaxRetries \in Nat \ {0}
  /\ MaxFaults \in Nat
  /\ ForeignKeys \in BOOLEAN

-----------------------------------------------------------------------------
(* The files of the repository, named by their URL. *)

InRelease(s) == <<"InRelease", s>>
Release(s) == <<"Release", s>>
Index(s, i) == <<"index", s, i>>
Pool(a) == <<"pool", a>>
Pools(B) == {Pool(a) : a \in B}

File ==
  UNION { {InRelease(s) : s \in Suites}, {Release(s) : s \in Suites},
          {Index(s, i) : s \in Suites, i \in IndexPaths},
          Pools(Artifacts) }

Content == (1..NumReleases) \union IndexContents \union Packages \union {NoContent}

(* RepositoryFileState, and ABSENT for a URL without a row. *)
State == {"ABSENT", "DISCOVERED", "QUEUED", "DOWNLOADING", "DOWNLOADED",
          "VERIFIED", "INDEXED", "FAILED"}

(* The columns the engine reads back: `path' says whether local_path is set. *)
Row == [state : State, sha : Content, retry : Nat, path : BOOLEAN, etag : Content]

NoRow == [state |-> "ABSENT", sha |-> NoContent, retry |-> 0, path |-> FALSE,
          etag |-> NoContent]

VARIABLES
  \* Durable state
  remote,    \* [Suites -> release]: what upstream publishes now
  disk,      \* [File -> Content]: the mirror directory
  row,       \* [File -> Row]: repository_files
  session,   \* the last SyncSession persisted
  snapshot,  \* the last RepositorySnapshot published
  \* State of the running session
  pc, suite, release, file, decision, entries, queue, result, count, cancelled,
  \* The environment and the history
  faults,    \* failures injected so far
  dbFailed,  \* history: some failed write was swallowed
  handled    \* history: [Suites -> release whose pipeline ended in this session, or 0]

stores == <<remote, disk, row, session, snapshot>>
run == <<suite, release, file, decision, entries, queue, result, count>>
vars == <<stores, pc, run, cancelled, faults, dbFailed, handled>>

-----------------------------------------------------------------------------
(* Helpers *)

Claimed(f) == row[f].state \in {"VERIFIED", "INDEXED"}

NoDecision == [i \in IndexPaths |-> "none"]
NoEntries == [a \in Artifacts |-> NoContent]
NoResult == [a \in Artifacts |-> "none"]
NoCount == [downloaded |-> 0, skipped |-> 0, failed |-> 0]
NoSession == [status |-> "none", count |-> NoCount]
NoSnapshot == [verified |-> 0, failed |-> 0]

(* A failure of kind k: a request, a commit or the process. *)
Fault(k) == /\ k \in FaultKinds
            /\ faults < MaxFaults
            /\ faults' = faults + 1

(* A transaction on mirror.db: it commits, or SQLAlchemyError is caught,  *)
(* rolled back and logged, and the caller goes on as if it had committed. *)
Commit(rows) ==
  \/ /\ row' = rows
     /\ UNCHANGED <<faults, dbFailed>>
  \/ /\ Fault("db")
     /\ dbFailed' = TRUE
     /\ UNCHANGED row

(* upsert_repository_file with state VERIFIED: retry_count stays, and the *)
(* etag is replaced only by a response that carries one.                  *)
Upserted(f, sha, etag) ==
  [row EXCEPT ![f] = [state |-> "VERIFIED", sha |-> sha, retry |-> @.retry,
                      path |-> TRUE,
                      etag |-> IF etag = NoContent THEN @.etag ELSE etag]]

(* deduplicate_entries: the first entry seen for a path wins. *)
FirstSeen(old, new) ==
  [a \in Artifacts |-> IF old[a] # NoContent THEN old[a] ELSE new[a]]

(* _parse_packages_file on the cached copy: what cannot be read lists nothing. *)
Parsed(c) == IF c \in IndexContents THEN IndexLists[c] ELSE NoEntries

(* What the server holds now. *)
Serves(s, i, c) == ReleaseLists[s][remote[s]][i] = c
PoolServes(a, c) ==
  \E s \in Suites, i \in IndexPaths :
    LET x == ReleaseLists[s][remote[s]][i]
    IN  x # NoContent /\ IndexLists[x][a] = c

(* Mutant of UpToDate: a row that is already QUEUED is taken for one in hand. *)
UpToDateOrQueued(f, c, states) ==
  row[f].state \in states \union {"QUEUED"} /\ row[f].sha = c

(* compute_sync_decisions for the listed file f with digest c. *)
UpToDate(f, c, states) == row[f].state \in states /\ row[f].sha = c

(* The next transaction of a loop that commits every BatchSize rows. *)
Batch(B) == /\ B \subseteq queue
            /\ B # {}
            /\ \/ B = queue
               \/ Cardinality(B) = BatchSize

ResetRun ==
  /\ suite' = 1
  /\ release' = NoContent
  /\ file' = <<>>
  /\ decision' = NoDecision
  /\ entries' = NoEntries
  /\ queue' = {}
  /\ result' = NoResult
  /\ count' = NoCount
  /\ cancelled' = FALSE
  /\ handled' = [s \in Suites |-> 0]

-----------------------------------------------------------------------------
(* The session *)

(* sync_repository up to its loop, with _resume_interrupted_downloads. *)
StartSession ==
  /\ pc = "idle"
  /\ Commit([f \in File |-> IF row[f].state = "DOWNLOADING"
                            THEN [row[f] EXCEPT !.state = "QUEUED"] ELSE row[f]])
  /\ pc' = "suite"
  /\ UNCHANGED <<remote, disk, session, snapshot, run, cancelled, handled>>

(* The head of the loop over config.suites. *)
EnterSuite ==
  /\ pc = "suite"
  /\ pc' = IF suite > NumSuites \/ cancelled THEN "finish" ELSE "release"
  /\ UNCHANGED <<stores, run, cancelled, faults, dbFailed, handled>>

LeaveSuite ==
  /\ pc' = "suite"
  /\ suite' = suite + 1

(* Mutant of NotModified: the cached file is trusted without a request. *)
CachedIsCurrent(s) == disk[InRelease(s)] # NoContent

(* check_release_unchanged: the file is there and HEAD answers 304. *)
NotModified(s) ==
  disk[InRelease(s)] # NoContent /\ row[InRelease(s)].etag = remote[s]

(* stage_release up to the first download: check_conditional with the stored etag. *)
CheckRelease ==
  /\ pc = "release"
  /\ \/ /\ NotModified(suite)
        /\ LeaveSuite
        /\ UNCHANGED faults
     \/ /\ IF NotModified(suite)       \* aiohttp.ClientError: treated as changed
           THEN Fault("http") ELSE UNCHANGED faults
        /\ pc' = "inrelease"
        /\ UNCHANGED suite
  /\ UNCHANGED <<stores, release, file, decision, entries, queue, result, count,
                 cancelled, dbFailed, handled>>

(* The file stage_release is fetching: InRelease, then Release. *)
ReleaseTarget == IF pc = "inrelease" THEN InRelease(suite) ELSE Release(suite)

(* download_release_file, with no digest to check against. *)
ReleaseArrives ==
  /\ pc \in {"inrelease", "fallback"}
  /\ pc = "inrelease" => suite \in InReleaseSuites
  /\ disk' = [disk EXCEPT ![ReleaseTarget] = remote[suite]]
  /\ release' = remote[suite]
  /\ file' = ReleaseTarget
  /\ pc' = "store_release"
  /\ UNCHANGED <<remote, row, session, snapshot, suite, decision, entries, queue,
                 result, count, cancelled, faults, dbFailed, handled>>

(* No InRelease (404), or the attempts are exhausted: DownloadError, OSError *)
(* and RuntimeError all end as None.                                         *)
ReleaseFails ==
  /\ \/ /\ pc = "inrelease"
        /\ IF suite \in InReleaseSuites THEN Fault("http") ELSE UNCHANGED faults
        /\ pc' = "fallback"
        /\ UNCHANGED <<suite, count>>
     \/ /\ pc = "fallback"
        /\ Fault("http")
        /\ count' = [count EXCEPT !.failed = @ + 1]
        /\ LeaveSuite
  /\ UNCHANGED <<stores, release, file, decision, entries, queue, result, cancelled,
                 dbFailed, handled>>

(* parse_and_store_release.  The row carries the etag before any index or *)
(* artifact of the release has been fetched.                              *)
StoreRelease ==
  /\ pc = "store_release"
  /\ IF release \in Malformed
     THEN /\ count' = [count EXCEPT !.failed = @ + 1]
          /\ LeaveSuite
          /\ UNCHANGED <<row, faults, dbFailed>>
     ELSE /\ Commit(Upserted(file, release, release))
          /\ count' = [count EXCEPT !.downloaded = @ + 1]
          /\ pc' = "indexes"
          /\ UNCHANGED suite
  /\ file' = <<>>
  /\ UNCHANGED <<remote, disk, session, snapshot, release, decision, entries, queue,
                 result, cancelled, handled>>

-----------------------------------------------------------------------------
(* _stage_indexes *)

(* The cancellation check, then the decisions: only VERIFIED rows count as *)
(* cached, so an index the indexer has marked INDEXED is fetched again.    *)
DecideIndexes ==
  /\ pc = "indexes"
  /\ IF cancelled
     THEN /\ pc' = "finish"
          /\ UNCHANGED <<decision, entries>>
     ELSE /\ pc' = "index"
          /\ decision' = [i \in IndexPaths |->
               LET c == ReleaseLists[suite][release][i]
               IN  IF c = NoContent THEN "none"
                   ELSE IF UpToDate(Index(suite, i), c, {"VERIFIED"}) THEN "skip"
                   ELSE "download"]
          /\ entries' = NoEntries
  /\ UNCHANGED <<stores, suite, release, file, queue, result, count, cancelled, faults,
                 dbFailed, handled>>

(* A cached index is parsed again if its file is still there. *)
SkipIndex(i) ==
  /\ pc = "index"
  /\ decision[i] = "skip"
  /\ count' = [count EXCEPT !.skipped = @ + 1]
  /\ entries' = FirstSeen(entries, Parsed(disk[Index(suite, i)]))
  /\ decision' = [decision EXCEPT ![i] = "none"]
  /\ UNCHANGED <<stores, pc, suite, release, file, queue, result, cancelled, faults,
                 dbFailed, handled>>

IndexArrives(i) ==
  /\ pc = "index"
  /\ decision[i] = "download"
  /\ Serves(suite, i, ReleaseLists[suite][release][i])
  /\ disk' = [disk EXCEPT ![Index(suite, i)] = ReleaseLists[suite][release][i]]
  /\ file' = Index(suite, i)
  /\ pc' = "store_index"
  /\ UNCHANGED <<remote, row, session, snapshot, suite, release, decision, entries,
                 queue, result, count, cancelled, faults, dbFailed, handled>>

StoreIndex(i) ==
  /\ pc = "store_index"
  /\ file = Index(suite, i)
  /\ Commit(Upserted(file, ReleaseLists[suite][release][i], NoContent))
  /\ count' = [count EXCEPT !.downloaded = @ + 1]
  /\ entries' = FirstSeen(entries, Parsed(disk[file]))
  /\ decision' = [decision EXCEPT ![i] = "none"]
  /\ file' = <<>>
  /\ pc' = "index"
  /\ UNCHANGED <<remote, disk, session, snapshot, suite, release, queue, result,
                 cancelled, handled>>

(* Three attempts failed: a network or server error, or upstream has *)
(* replaced the file and the digest never matches.                   *)
IndexFails(i) ==
  /\ pc = "index"
  /\ decision[i] = "download"
  /\ IF Serves(suite, i, ReleaseLists[suite][release][i])
     THEN Fault("http") ELSE UNCHANGED faults
  /\ count' = [count EXCEPT !.failed = @ + 1]
  /\ decision' = [decision EXCEPT ![i] = "none"]
  /\ UNCHANGED <<stores, pc, suite, release, file, entries, queue, result, cancelled,
                 dbFailed, handled>>

IndexesDone ==
  /\ pc = "index"
  /\ decision = NoDecision
  /\ pc' = "artifacts"
  /\ UNCHANGED <<stores, run, cancelled, faults, dbFailed, handled>>

-----------------------------------------------------------------------------
(* _stage_artifacts *)

(* The cancellation check, then get_artifact_checksums and the decisions. *)
DecideArtifacts ==
  /\ pc = "artifacts"
  /\ IF cancelled
     THEN /\ pc' = "finish"
          /\ UNCHANGED <<queue, result, count>>
     ELSE LET listed == {a \in Artifacts : entries[a] # NoContent}
              todo == {a \in listed :
                         ~UpToDate(Pool(a), entries[a], {"VERIFIED", "INDEXED"})}
          IN  /\ count' = [count EXCEPT !.skipped = @ + Cardinality(listed \ todo)]
              /\ queue' = todo
              /\ result' = [a \in Artifacts |-> IF a \in todo THEN "pending" ELSE "none"]
              /\ pc' = IF todo = {} THEN "publish" ELSE "create"
  /\ UNCHANGED <<stores, suite, release, file, decision, entries, cancelled, faults,
                 dbFailed, handled>>

(* Mutant of Queued: a row that exists keeps its state. *)
QueuedIfNew(r, sha) ==
  [r EXCEPT !.state = IF @ = "ABSENT" THEN "QUEUED" ELSE @, !.sha = sha]

(* The row of a package about to be fetched: created, or brought back. *)
Queued(r, sha) == [r EXCEPT !.state = "QUEUED", !.sha = sha]

(* batch_create_repository_files: one transaction of it.  A failed commit  *)
(* ends the loop; what earlier transactions committed stays.               *)
CreateRows(B) ==
  /\ pc = "create"
  /\ Batch(B)
  /\ \/ /\ row' = [f \in File |->
                     IF f \in Pools(B)
                     THEN Queued(row[f], entries[f[2]]) ELSE row[f]]
        /\ queue' = queue \ B
        /\ pc' = IF queue = B THEN "batch" ELSE "create"
        /\ UNCHANGED <<faults, dbFailed>>
     \/ /\ Fault("db")
        /\ dbFailed' = TRUE
        /\ queue' = {}
        /\ pc' = "batch"
        /\ UNCHANGED row
  /\ UNCHANGED <<remote, disk, session, snapshot, suite, release, file, decision,
                 entries, result, count, cancelled, handled>>

(* download_batch: the tasks finish in any order. *)
ArtifactArrives(a) ==
  /\ pc = "batch"
  /\ result[a] = "pending"
  /\ PoolServes(a, entries[a])
  /\ disk' = [disk EXCEPT ![Pool(a)] = entries[a]]
  /\ result' = [result EXCEPT ![a] = "ok"]
  /\ UNCHANGED <<remote, row, session, snapshot, pc, suite, release, file, decision,
                 entries, queue, count, cancelled, faults, dbFailed, handled>>

ArtifactFails(a) ==
  /\ pc = "batch"
  /\ result[a] = "pending"
  /\ IF PoolServes(a, entries[a]) THEN Fault("http") ELSE UNCHANGED faults
  /\ result' = [result EXCEPT ![a] = "failed"]
  /\ UNCHANGED <<stores, pc, suite, release, file, decision, entries, queue, count,
                 cancelled, dbFailed, handled>>

(* Mutant of With: a download that failed counts among those that went well. *)
WithAny(outcome) ==
  {a \in Artifacts : result[a] \in IF outcome = "ok" THEN {"ok", "failed"} ELSE {outcome}}

(* The downloads with that outcome. *)
With(outcome) == {a \in Artifacts : result[a] = outcome}

(* _process_artifact_results up to the first transaction. *)
CollectResults ==
  /\ pc = "batch"
  /\ With("pending") = {}
  /\ count' = [count EXCEPT !.downloaded = @ + Cardinality(With("ok")),
                            !.failed = @ + Cardinality(With("failed"))]
  /\ queue' = With("ok")
  /\ pc' = "mark_verified"
  /\ UNCHANGED <<stores, suite, release, file, decision, entries, result, cancelled,
                 faults, dbFailed, handled>>

(* batch_update_state(succeeded, VERIFIED): a row that is not there is passed over. *)
MarkVerified(B) ==
  /\ pc = "mark_verified"
  /\ Batch(B)
  /\ \/ /\ row' = [f \in File |->
                     IF f \in Pools(B) /\ row[f].state # "ABSENT"
                     THEN [row[f] EXCEPT !.state = "VERIFIED", !.path = TRUE]
                     ELSE row[f]]
        /\ queue' = queue \ B
        /\ UNCHANGED <<faults, dbFailed>>
     \/ /\ Fault("db")
        /\ dbFailed' = TRUE
        /\ queue' = {}
        /\ UNCHANGED row
  /\ UNCHANGED <<remote, disk, session, snapshot, pc, suite, release, file, decision,
                 entries, result, count, cancelled, handled>>

VerifiedDone ==
  /\ pc = "mark_verified"
  /\ queue = {}
  /\ queue' = With("failed")
  /\ pc' = "mark_failed"
  /\ UNCHANGED <<stores, suite, release, file, decision, entries, result, count,
                 cancelled, faults, dbFailed, handled>>

(* Mutant of Failed: retries are counted down. *)
FailedCountsDown(r) ==
  [r EXCEPT !.retry = @ - 1, !.state = IF r.retry = 1 THEN "FAILED" ELSE "QUEUED"]

(* batch_mark_failed *)
Failed(r) == [r EXCEPT !.retry = @ + 1,
                       !.state = IF r.retry + 1 >= MaxRetries THEN "FAILED" ELSE "QUEUED"]

MarkFailed(B) ==
  /\ pc = "mark_failed"
  /\ Batch(B)
  /\ \/ /\ row' = [f \in File |->
                     IF f \in Pools(B) /\ row[f].state # "ABSENT"
                     THEN Failed(row[f]) ELSE row[f]]
        /\ queue' = queue \ B
        /\ UNCHANGED <<faults, dbFailed>>
     \/ /\ Fault("db")
        /\ dbFailed' = TRUE
        /\ queue' = {}
        /\ UNCHANGED row
  /\ UNCHANGED <<remote, disk, session, snapshot, pc, suite, release, file, decision,
                 entries, result, count, cancelled, handled>>

FailedDone ==
  /\ pc = "mark_failed"
  /\ queue = {}
  /\ pc' = "publish"
  /\ UNCHANGED <<stores, run, cancelled, faults, dbFailed, handled>>

-----------------------------------------------------------------------------
(* _stage_publish and the end of the session *)

VerifiedRows == {f \in File : row[f].state = "VERIFIED"}
FailedRows == {f \in File : row[f].state = "FAILED"}

(* The cancellation checks after the artifact and verify stages, then the counts. *)
DecidePublish ==
  /\ pc = "publish"
  /\ result' = NoResult
  /\ handled' = [handled EXCEPT ![suite] = release]
  /\ IF cancelled
     THEN pc' = "finish" /\ UNCHANGED suite
     ELSE IF VerifiedRows = {} THEN LeaveSuite
     ELSE pc' = "commit" /\ UNCHANGED suite
  /\ UNCHANGED <<stores, release, file, decision, entries, queue, count, cancelled,
                 faults, dbFailed>>

(* publish_snapshot's transaction.  The engine passes repository_id 0: where *)
(* foreign keys are enforced the insert never succeeds.                      *)
CommitSnapshot ==
  /\ pc = "commit"
  /\ ~ForeignKeys
  /\ snapshot' = [verified |-> Cardinality(VerifiedRows),
                  failed |-> Cardinality(FailedRows)]
  /\ LeaveSuite
  /\ UNCHANGED <<remote, disk, row, session, release, file, decision, entries, queue,
                 result, count, cancelled, faults, dbFailed, handled>>

(* publish_snapshot rolls back and re-raises, and sync_repository ends there. *)
SnapshotFails ==
  /\ pc = "commit"
  /\ IF ForeignKeys THEN UNCHANGED faults ELSE Fault("db")
  /\ pc' = "wind_down"
  /\ UNCHANGED <<stores, run, cancelled, dbFailed, handled>>

(* An exception nothing in sync_repository catches: RateLimitTimeoutError   *)
(* wherever a request is made, TimeoutError or OSError from a download, a   *)
(* 404 for an index, an exception group from the batch's TaskGroup, a query *)
(* that fails.  The downloads that are under way are cancelled.             *)
Aborts ==
  /\ pc \in {"release", "inrelease", "fallback", "indexes", "index", "artifacts",
             "batch", "publish"}
  /\ Fault("abort")
  /\ pc' = "wind_down"
  /\ UNCHANGED <<stores, run, cancelled, dbFailed, handled>>

(* Mutant of Status: something was downloaded, so the session is completed. *)
StatusByDownloads ==
  CASE cancelled -> "cancelled"
    [] ~cancelled /\ count.failed > 0 /\ count.downloaded = 0 -> "failed"
    [] OTHER -> "completed"

(* _determine_sync_status *)
Status ==
  CASE cancelled -> "cancelled"
    [] ~cancelled /\ count.failed > 0 /\ count.downloaded > 0 -> "partial"
    [] ~cancelled /\ count.failed > 0 /\ count.downloaded = 0 -> "failed"
    [] OTHER -> "completed"

(* _persist_sync_session: a failure is logged and the sync still returns. *)
Finish ==
  /\ pc = "finish"
  /\ \/ /\ session' = [status |-> Status, count |-> count]
        /\ UNCHANGED faults
     \/ /\ Fault("db")
        /\ UNCHANGED session
  /\ pc' = "wind_down"
  /\ UNCHANGED <<remote, disk, row, snapshot, run, cancelled, dbFailed, handled>>

(* Mutant of RolledBack: the rollback starts verified files over as well. *)
RolledBackToStart(r) ==
  CASE r.state \in {"QUEUED", "VERIFIED"} -> [r EXCEPT !.state = "DISCOVERED"]
    [] r.state = "DOWNLOADING" -> [r EXCEPT !.state = "QUEUED"]
    [] OTHER -> r

(* MirrorWorkflow.execute after the loop over repositories, with *)
(* _rollback_cancellation_state if the token was cancelled.      *)
RolledBack(r) ==
  CASE r.state = "QUEUED" -> [r EXCEPT !.state = "DISCOVERED"]
    [] r.state = "DOWNLOADING" -> [r EXCEPT !.state = "QUEUED"]
    [] OTHER -> r

EndRun ==
  /\ pc = "wind_down"
  /\ IF cancelled
     THEN Commit([f \in File |-> RolledBack(row[f])])
     ELSE UNCHANGED <<row, faults, dbFailed>>
  /\ pc' = "idle"
  /\ ResetRun
  /\ UNCHANGED <<remote, disk, session, snapshot>>

-----------------------------------------------------------------------------
(* The environment *)

(* Upstream publishes the next release of a suite, at any moment. *)
Upstream(s) ==
  /\ remote[s] < NumReleases
  /\ remote' = [remote EXCEPT ![s] = @ + 1]
  /\ UNCHANGED <<disk, row, session, snapshot, pc, run, cancelled, faults, dbFailed,
                 handled>>

(* CancellationToken.cancel from a signal handler or another task: at any await. *)
Cancel ==
  /\ pc # "idle"
  /\ ~cancelled
  /\ Fault("cancel")
  /\ cancelled' = TRUE
  /\ UNCHANGED <<stores, pc, run, dbFailed, handled>>

(* The process dies: what is in memory is gone, both stores stay. *)
Crash ==
  /\ pc # "idle"
  /\ Fault("crash")
  /\ pc' = "idle"
  /\ ResetRun
  /\ UNCHANGED <<stores, dbFailed>>

(* StorageEngineImpl.initialize: _recover_interrupted_downloads, then      *)
(* _verify_cache_integrity, which looks a file up by its local_path and    *)
(* removes it when its digest is not the one stored.  The row stays as is. *)
Recovered(r) ==
  IF r.state # "DOWNLOADING" THEN r
  ELSE IF r.retry < 3 THEN [r EXCEPT !.state = "QUEUED", !.retry = @ + 1]
  ELSE [r EXCEPT !.state = "FAILED"]

StorageInitialize ==
  /\ pc = "idle"
  /\ row' = [f \in File |-> Recovered(row[f])]
  /\ disk' = [f \in File |-> IF row[f].path /\ row[f].sha # disk[f]
                             THEN NoContent ELSE disk[f]]
  /\ UNCHANGED <<remote, session, snapshot, pc, run, cancelled, faults, dbFailed,
                 handled>>

(* The indexer's mark_indexed, from another process, for an index or Release *)
(* file it was given by get_verified_files.                                  *)
MarkIndexed(f) ==
  /\ Claimed(f)
  /\ row' = [row EXCEPT ![f].state = "INDEXED"]
  /\ UNCHANGED <<remote, disk, session, snapshot, pc, run, cancelled, faults, dbFailed,
                 handled>>

-----------------------------------------------------------------------------
Init ==
  /\ remote = [s \in Suites |-> 1]
  /\ disk = [f \in File |-> NoContent]
  /\ row = [f \in File |-> NoRow]
  /\ session = NoSession
  /\ snapshot = NoSnapshot
  /\ pc = "idle"
  /\ suite = 1
  /\ release = NoContent
  /\ file = <<>>
  /\ decision = NoDecision
  /\ entries = NoEntries
  /\ queue = {}
  /\ result = NoResult
  /\ count = NoCount
  /\ cancelled = FALSE
  /\ faults = 0
  /\ dbFailed = FALSE
  /\ handled = [s \in Suites |-> 0]

ReleaseStage == CheckRelease \/ ReleaseArrives \/ ReleaseFails \/ StoreRelease

IndexStage ==
  \/ DecideIndexes \/ IndexesDone
  \/ \E i \in IndexPaths : SkipIndex(i) \/ IndexArrives(i) \/ StoreIndex(i) \/ IndexFails(i)

ArtifactStage ==
  \/ DecideArtifacts \/ CollectResults \/ VerifiedDone \/ FailedDone
  \/ \E a \in Artifacts : ArtifactArrives(a) \/ ArtifactFails(a)
  \/ \E B \in SUBSET Artifacts : CreateRows(B) \/ MarkVerified(B) \/ MarkFailed(B)

PublishStage == DecidePublish \/ CommitSnapshot \/ SnapshotFails

SyncStep ==
  EnterSuite \/ ReleaseStage \/ IndexStage \/ ArtifactStage \/ PublishStage \/ Finish \/ EndRun

Environment ==
  \/ Cancel \/ Crash \/ Aborts \/ StorageInitialize
  \/ \E s \in Suites : Upstream(s)
  \/ \E f \in File \ Pools(Artifacts) : MarkIndexed(f)

Next == StartSession \/ SyncStep \/ Environment

Spec == Init /\ [][Next]_vars

(* The event loop runs a session's next step, and `mirror sync' is run again *)
(* and again (a timer or an operator).  Nothing obliges upstream, the        *)
(* indexer, a cancellation or a failure to happen.                           *)
Fairness == WF_vars(StartSession) /\ WF_vars(SyncStep)

FairSpec == Spec /\ Fairness

-----------------------------------------------------------------------------
(* Properties *)

Stage == {"idle", "suite", "release", "inrelease", "fallback", "store_release",
          "indexes", "index", "store_index", "artifacts", "create", "batch",
          "mark_verified", "mark_failed", "publish", "commit", "finish", "wind_down"}

Count == [downloaded : Nat, skipped : Nat, failed : Nat]

(* Every variable has the shape its column, attribute or local has in the code. *)
TypeOK ==
  /\ remote \in [Suites -> 1..NumReleases]
  /\ disk \in [File -> Content]
  /\ row \in [File -> Row]
  /\ session \in [status : {"none", "completed", "partial", "failed", "cancelled"},
                  count : Count]
  /\ snapshot \in [verified : Nat, failed : Nat]
  /\ pc \in Stage
  /\ suite \in 1..(NumSuites + 1)
  /\ release \in (1..NumReleases) \union {NoContent}
  /\ file \in File \union {<<>>}
  /\ decision \in [IndexPaths -> {"none", "skip", "download"}]
  /\ entries \in [Artifacts -> Packages \union {NoContent}]
  /\ queue \in SUBSET Artifacts
  /\ result \in [Artifacts -> {"none", "pending", "ok", "failed"}]
  /\ count \in Count
  /\ cancelled \in BOOLEAN
  /\ faults \in 0..MaxFaults
  /\ dbFailed \in BOOLEAN
  /\ handled \in [Suites -> 0..NumReleases]

(* As long as no failed write was swallowed, a package whose row says VERIFIED *)
(* or INDEXED is on disk with exactly the digest of its row, whatever crashed, *)
(* was cancelled or aborted in between (get_artifact_checksums trusts this and *)
(* never looks at the disk).                                                   *)
VerifiedIsOnDisk ==
  ~dbFailed => \A a \in Artifacts : Claimed(Pool(a)) => disk[Pool(a)] = row[Pool(a)].sha

(* The file of a package is replaced only while its row is QUEUED: a verified *)
(* package is never overwritten under a row that still vouches for it         *)
(* (_stage_artifacts queues the rows before the batch starts).                *)
VerifiedUntouched ==
  [][ ~dbFailed =>
        \A a \in Artifacts : disk'[Pool(a)] \notin {disk[Pool(a)], NoContent} =>
          row[Pool(a)].state = "QUEUED" ]_vars

(* Verified work is never lost: a package stops being VERIFIED or INDEXED only *)
(* when the release being synchronised lists it with another digest, not by a *)
(* cancellation, a rollback, a recovery, a failed download or a repeated      *)
(* session (batch_create_repository_files is the only way back to QUEUED).    *)
VerifiedStaysVerified ==
  [][ ~dbFailed =>
        \A a \in Artifacts : (Claimed(Pool(a)) /\ ~Claimed(Pool(a))') =>
          pc = "create" /\ entries[a] \notin {NoContent, row[Pool(a)].sha} ]_vars

(* A suite skipped as up to date (304) has the InRelease file upstream serves *)
(* at that moment in its cache (check_release_unchanged).                     *)
NotModifiedIsCurrent ==
  [][ (pc = "release" /\ pc' = "suite") => disk[InRelease(suite)] = remote[suite] ]_vars

(* Row and file of one listed path agree with what the release listed. *)
Holds(f, c) == Claimed(f) /\ row[f].sha = c /\ disk[f] = c

Mirrored(s, r) ==
  \A i \in IndexPaths :
    LET x == ReleaseLists[s][r][i]
    IN  x # NoContent =>
          /\ Holds(Index(s, i), x)
          /\ \A a \in Artifacts : IndexLists[x][a] # NoContent =>
               Holds(Pool(a), IndexLists[x][a])

(* A session that ends with status "completed" has put every index and every  *)
(* package of each release it took up in the mirror: no failure on the way is *)
(* left out of files_failed (unless a write to the database was swallowed).   *)
(* The instances' lists are such that it can hold: releases that one session  *)
(* takes up name one content for each package, and no release brings back an  *)
(* index an earlier one replaced (MirrorSyncProofs shows that this is enough). *)
CompletedIsComplete ==
  [][ (Finish /\ Status = "completed" /\ ~dbFailed) =>
        \A s \in Suites : handled[s] # 0 => Mirrored(s, handled[s]) ]_vars

(* Once failures stop, repeating the sync brings the mirror to what upstream *)
(* publishes and keeps it there, for the suites whose server offers only a   *)
(* Release file (which is fetched again by every session), unless upstream   *)
(* stays at a release that cannot be parsed.                                 *)
EventuallyMirrored ==
  \A s \in Suites \ InReleaseSuites :
    <>[](remote[s] \notin Malformed) => <>[]Mirrored(s, remote[s])

(* What the documentation says of publication: a snapshot is created only when *)
(* no row of the repository is left QUEUED or DOWNLOADING.                     *)
PublishedWhenSettled ==
  [][ snapshot' # snapshot =>
        \A f \in File : row[f].state \notin {"QUEUED", "DOWNLOADING"} ]_vars

(* What the code's documentation says of an interrupted session: the rows it *)
(* left QUEUED are processed by a later one.                                 *)
QueuedIsResumed ==
  \A a \in Artifacts : (row[Pool(a)].state = "QUEUED") ~> (row[Pool(a)].state # "QUEUED")
=============================================================================
