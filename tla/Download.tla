------------------------------ MODULE Download ------------------------------
(***************************************************************************)
(* DownloadCoordinator.download_batch: one asyncio task per file, a        *)
(* semaphore around download_file, up to MaxAttempts attempts per file,    *)
(* each after a token of the rate limiter, streamed to a .part file that   *)
(* is renamed into place once size and digest are right.  The tasks live   *)
(* in a TaskGroup: HttpClientError becomes a failed result, any other      *)
(* exception cancels the siblings and leaves the batch.                    *)
(*                                                                         *)
(* A step runs from one await to the next.  A response is one step, its    *)
(* body another: the event loop may run anything in between.               *)
(***************************************************************************)
EXTENDS RateLimiter, FiniteSets

CONSTANTS
  Tasks,        \* the DownloadTasks of a batch, named by destination
  Unchecked,    \* those with an empty expected_sha256 and size 0 (Release files)
  Parallel,     \* max_concurrent
  MaxAttempts,  \* _MAX_ATTEMPTS
  FaultKinds    \* what may go wrong: see Strikes

ASSUME DownloadAssumption ==
  /\ Clients = Tasks /\ IsFiniteSet(Tasks)
  /\ Unchecked \subseteq Tasks
  /\ Parallel \in Nat \ {0}
  /\ MaxAttempts \in Nat \ {0}

VARIABLES
  disk,     \* [Tasks -> content at dest_path]
  part,     \* tasks whose .part file exists
  pc,       \* [Tasks -> where its coroutine is suspended]
  attempt,  \* [Tasks -> number of its attempt, 0 outside download_file]
  permits,  \* the semaphore's counter
  result,   \* [Tasks -> DownloadResult, "lost" if its file arrived without one]
  batch     \* the TaskGroup

vars == <<limiter, disk, part, pc, attempt, permits, result, batch>>

Body == {"wanted", "other"}

(* A failure the environment may inject. *)
Strikes(k) == k \in FaultKinds

-----------------------------------------------------------------------------
(* Helpers *)

(* Mutant of Exit: an exception keeps the permit. *)
ExitOnReturn(t, where, res) ==
  /\ pc' = [pc EXCEPT ![t] = where]
  /\ attempt' = [attempt EXCEPT ![t] = 0]
  /\ result' = [result EXCEPT ![t] = res]
  /\ permits' = permits + IF where = "done" THEN 1 ELSE 0

(* The task leaves download_file and the semaphore. *)
Exit(t, where, res) ==
  /\ pc' = [pc EXCEPT ![t] = where]
  /\ attempt' = [attempt EXCEPT ![t] = 0]
  /\ result' = [result EXCEPT ![t] = res]
  /\ permits' = permits + 1

(* Mutant of RetryOrGiveUp: one attempt too many. *)
RetryOnceMore(t) ==
  IF attempt[t] <= MaxAttempts
  THEN pc' = [pc EXCEPT ![t] = "backoff"] /\ UNCHANGED <<attempt, result, permits>>
  ELSE Exit(t, "done", "failed")

(* A retriable error: back off, or give up after the last attempt. *)
RetryOrGiveUp(t) ==
  IF attempt[t] < MaxAttempts
  THEN pc' = [pc EXCEPT ![t] = "backoff"] /\ UNCHANGED <<attempt, result, permits>>
  ELSE Exit(t, "done", "failed")

(* Mutant of NextAttempt: attempts are not counted. *)
SameAttempt(t) == attempt[t]

NextAttempt(t) == attempt[t] + 1

(* An exception that neither download_file nor the wrapper catches. *)
Escapes(t) == Exit(t, "raised", "none")

-----------------------------------------------------------------------------
(* The batch *)

(* A batch begins: every task waits for the semaphore.  What the previous batch *)
(* wanted is now the old content.                                               *)
StartBatch ==
  /\ batch \in {"idle", "returned", "raised"}
  /\ batch' = "running"
  /\ pc' = [t \in Tasks |-> "new"]
  /\ attempt' = [t \in Tasks |-> 0]
  /\ permits' = Parallel
  /\ result' = [t \in Tasks |-> "none"]
  /\ disk' = [t \in Tasks |-> IF disk[t] = "none" THEN "none" ELSE "old"]
  /\ UNCHANGED <<limiter, part>>

(* From the semaphore, or from the backoff sleep, into the limiter: a stale *)
(* .part file is deleted on the way.                                        *)
BeginAttempt(t) ==
  /\ batch = "running"
  /\ \/ pc[t] = "new" /\ permits > 0 /\ permits' = permits - 1
     \/ pc[t] = "backoff" /\ UNCHANGED permits
  /\ pc' = [pc EXCEPT ![t] = "acquiring"]
  /\ attempt' = [attempt EXCEPT ![t] = NextAttempt(t)]
  /\ part' = part \ {t}
  /\ Acquire(t)
  /\ UNCHANGED <<disk, result, batch>>

(* The directory cannot be made or the stale .part file not deleted (OSError). *)
CannotBegin(t) ==
  /\ batch = "running"
  /\ Strikes("os")
  /\ \/ /\ pc[t] = "new"
        /\ permits > 0
        /\ pc' = [pc EXCEPT ![t] = "raised"]
        /\ UNCHANGED <<attempt, permits, result>>
     \/ pc[t] = "backoff" /\ Escapes(t)
  /\ UNCHANGED <<limiter, disk, part, batch>>

KeepWaiting(t) ==
  /\ batch = "running"
  /\ pc[t] = "acquiring"
  /\ Wake(t)
  /\ UNCHANGED <<disk, part, pc, attempt, permits, result, batch>>

Send(t) ==
  /\ batch = "running"
  /\ pc[t] = "acquiring"
  /\ status[t] = "granted"
  /\ Leave(t)
  /\ pc' = [pc EXCEPT ![t] = "requesting"]
  /\ UNCHANGED <<disk, part, attempt, permits, result, batch>>

(* RateLimitTimeoutError is not a DownloadError. *)
NoToken(t) ==
  /\ batch = "running"
  /\ pc[t] = "acquiring"
  /\ status[t] = "timed_out"
  /\ Leave(t)
  /\ Escapes(t)
  /\ UNCHANGED <<disk, part, batch>>

(* Status 200: the .part file is opened at once. *)
BodyBegins(t) ==
  /\ batch = "running"
  /\ pc[t] = "requesting"
  /\ pc' = [pc EXCEPT ![t] = "streaming"]
  /\ part' = part \union {t}
  /\ UNCHANGED <<limiter, disk, attempt, permits, result, batch>>

(* Mutant of RetriableError: the .part file is left to the next attempt. *)
RetriableErrorKeepsPart(t) ==
  /\ batch = "running"
  /\ pc[t] \in {"requesting", "streaming"}
  /\ RetryOrGiveUp(t)
  /\ UNCHANGED <<limiter, disk, part, batch>>

(* 429, 5xx, or aiohttp.ClientError before or in the body: the .part file is *)
(* unlinked and the attempt may be repeated.                                 *)
RetriableError(t) ==
  /\ batch = "running"
  /\ pc[t] \in {"requesting", "streaming"}
  /\ part' = part \ {t}
  /\ RetryOrGiveUp(t)
  /\ UNCHANGED <<limiter, disk, batch>>

(* Any other 4xx. *)
ClientError(t) ==
  /\ batch = "running"
  /\ pc[t] = "requesting"
  /\ part' = part \ {t}
  /\ Exit(t, "done", "failed")
  /\ UNCHANGED <<limiter, disk, batch>>

(* Mutant of Verifies: the digest of the body is not compared. *)
VerifiesSize(t, b) == b \in Body

(* _verify_download *)
Verifies(t, b) == b = "wanted" \/ t \in Unchecked

(* The last chunk: verification and os.replace follow without an await. *)
BodyEnds(t, b) ==
  /\ batch = "running"
  /\ pc[t] = "streaming"
  /\ part' = part \ {t}
  /\ \/ /\ Verifies(t, b)
        /\ disk' = [disk EXCEPT ![t] = b]
        /\ Exit(t, "done", "ok")
     \/ /\ ~Verifies(t, b)
        /\ RetryOrGiveUp(t)
        /\ UNCHANGED disk
  /\ UNCHANGED <<limiter, batch>>

(* os.chmod raises after the rename: the file is in place, its result is not. *)
ModeFails(t, b) ==
  /\ batch = "running"
  /\ Strikes("os")
  /\ pc[t] = "streaming"
  /\ Verifies(t, b)
  /\ disk' = [disk EXCEPT ![t] = b]
  /\ part' = part \ {t}
  /\ Exit(t, "raised", "lost")
  /\ UNCHANGED <<limiter, batch>>

(* aiohttp's total timeout raises TimeoutError, the file system OSError: neither *)
(* is retried, and the .part file stays.                                         *)
UncaughtError(t) ==
  /\ batch = "running"
  /\ Strikes("timeout") \/ Strikes("os")
  /\ pc[t] \in {"requesting", "streaming"}
  /\ Escapes(t)
  /\ UNCHANGED <<limiter, disk, part, batch>>

(* The TaskGroup learns that a task raised, or is itself cancelled. *)
Abort ==
  /\ batch = "running"
  /\ (\E t \in Tasks : pc[t] = "raised") \/ Strikes("cancel")
  /\ batch' = "aborting"
  /\ UNCHANGED <<limiter, disk, part, pc, attempt, permits, result>>

(* CancelledError at the await where the task is suspended. *)
Cancelled(t) ==
  /\ batch = "aborting"
  /\ pc[t] \notin {"done", "raised", "cancelled"}
  /\ IF pc[t] = "new"
     THEN pc' = [pc EXCEPT ![t] = "cancelled"] /\ UNCHANGED <<attempt, permits, result>>
     ELSE Exit(t, "cancelled", "none")
  /\ IF status[t] = "idle" THEN UNCHANGED limiter ELSE Leave(t)
  /\ UNCHANGED <<disk, part, batch>>

EndBatch ==
  /\ \/ batch = "running" /\ (\A t \in Tasks : pc[t] = "done") /\ batch' = "returned"
     \/ /\ batch = "aborting"
        /\ \A t \in Tasks : pc[t] \in {"done", "raised", "cancelled"}
        /\ batch' = "raised"
  /\ UNCHANGED <<limiter, disk, part, pc, attempt, permits, result>>

(* The process dies: files stay. *)
Crash ==
  /\ Strikes("crash")
  /\ Fresh
  /\ pc' = [t \in Tasks |-> "new"]
  /\ attempt' = [t \in Tasks |-> 0]
  /\ permits' = Parallel
  /\ result' = [t \in Tasks |-> "none"]
  /\ batch' = "idle"
  /\ UNCHANGED <<disk, part>>

TimePasses ==
  /\ Tick
  /\ UNCHANGED <<disk, part, pc, attempt, permits, result, batch>>

Init ==
  /\ LimiterInit
  /\ disk = [t \in Tasks |-> "none"]
  /\ part = {}
  /\ pc = [t \in Tasks |-> "new"]
  /\ attempt = [t \in Tasks |-> 0]
  /\ permits = Parallel
  /\ result = [t \in Tasks |-> "none"]
  /\ batch = "idle"

TaskStep(t) ==
  \/ BeginAttempt(t) \/ CannotBegin(t) \/ KeepWaiting(t) \/ Send(t) \/ NoToken(t)
  \/ BodyBegins(t) \/ RetriableError(t) \/ ClientError(t) \/ UncaughtError(t)
  \/ \E b \in Body : BodyEnds(t, b) \/ ModeFails(t, b)
  \/ Cancelled(t)

Next ==
  StartBatch \/ Abort \/ EndBatch \/ Crash \/ TimePasses \/ \E t \in Tasks : TaskStep(t)

Spec == Init /\ [][Next]_vars

(* Time passes, the event loop runs every task that can go on (aiohttp's total *)
(* timeout bounds every request), and the TaskGroup is told of what its tasks  *)
(* do.                                                                         *)
Fairness ==
  /\ WF_vars(TimePasses)
  /\ WF_vars(EndBatch)
  /\ WF_vars(Abort /\ \E t \in Tasks : pc[t] = "raised")
  /\ \A t \in Tasks : WF_vars(TaskStep(t))

FairSpec == Spec /\ Fairness

-----------------------------------------------------------------------------
(* Properties *)

Suspended == {"new", "acquiring", "requesting", "streaming", "backoff"}

(* Every variable keeps its range, those of the limiter included. *)
TypeOK ==
  /\ LimiterTypeOK
  /\ disk \in [Tasks -> {"none", "old"} \union Body]
  /\ part \in SUBSET Tasks
  /\ pc \in [Tasks -> Suspended \union {"done", "raised", "cancelled"}]
  /\ attempt \in [Tasks -> 0..MaxAttempts]
  /\ permits \in 0..Parallel
  /\ result \in [Tasks -> {"none", "ok", "failed", "lost"}]
  /\ batch \in {"idle", "running", "aborting", "returned", "raised"}

(* A permit is held exactly while a task is in download_file: no exception, *)
(* timeout or cancellation loses one or returns one twice.                  *)
PermitsBalance ==
  permits + Cardinality({t \in Tasks :
      pc[t] \in {"acquiring", "requesting", "streaming", "backoff"}}) = Parallel

(* A batch that returns leaves no .part file behind, not even one that an *)
(* earlier batch or a crashed process left.                               *)
NothingPartial == batch = "returned" => part = {}

(* download_batch as the engine sees it. *)
Promise == INSTANCE Fetch WITH outcome <- IF batch = "aborting" THEN "running" ELSE batch

(* Every step of the coordinator is a step of Fetch or changes nothing it shows: *)
(* no file is ever seen incomplete, unverified or missing, and a result is "ok"  *)
(* only together with the arrival of its file.                                   *)
DeliversFetch == Promise!Spec

(* Every batch ends, with a result for each task or with an exception: waiting *)
(* for tokens, permits, answers and backoffs cannot go on for ever.            *)
BatchEnds == (batch = "running") ~> (batch \notin {"running", "aborting"})

(* What the requirements say of a download that exceeds its timeout: it is a *)
(* failure that is retried, so timeouts alone never abort a batch.           *)
TimeoutIsRetriable == batch # "raised"
=============================================================================
