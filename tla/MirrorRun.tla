------------------------------ MODULE MirrorRun ------------------------------
(***************************************************************************)
(* One run of mirror sync over the configured repositories: the loop of    *)
(* MirrorWorkflow, which isolates a repository's failure and looks at the  *)
(* cancellation token, and the loop of the CLI, which does neither.        *)
(* A repository's own pipeline is MirrorSync's; here it queues rows, lets  *)
(* files arrive and marks them, in steps that other processes can see.     *)
(***************************************************************************)
EXTENDS Naturals, FiniteSets

CONSTANTS
  NumRepositories,
  Files,
  FilesOf,      \* [Repositories -> SUBSET Files]: what upstream lists
  Digests,      \* contents a file can have, numbered as upstream publishes them
  Absent,       \* no such file
  MaxFaults     \* bound on failures of a repository and kills of the run

Repositories == 1..NumRepositories

ASSUME RunAssumption ==
  /\ NumRepositories \in Nat \ {0}
  /\ FilesOf \in [Repositories -> SUBSET Files]
  /\ Digests \subseteq Nat /\ 1 \in Digests /\ Absent \notin Digests
  /\ MaxFaults \in Nat

VARIABLES
  upstream,     \* [Files -> what upstream serves]
  disk,         \* [Files -> what the mirror directory holds]
  row,          \* mirror.db: [Files -> state and sha256 of its row]
  loop,         \* "cli" or "kernel"
  stage,        \* where the run is
  repository,   \* the repository it is at
  queue,        \* files this repository's sync still has to fetch
  arrived,      \* files renamed into place and not marked
  outcome,      \* [Repositories -> what became of it in this run]
  cancelled,    \* the run's cancellation token
  exit,         \* how the last run ended
  faults

store == <<disk, row>>
running == <<loop, stage, repository, queue, arrived, outcome, cancelled, exit, faults>>
mirror == <<upstream, store, running>>

NoRow == [state |-> "none", sha256 |-> Absent]
Vouched(f) == row[f].state = "verified"    \* VERIFIED or INDEXED

MirrorTypeOK ==
  /\ upstream \in [Files -> Digests]
  /\ disk \in [Files -> Digests \union {Absent}]
  /\ row \in [Files -> [state : {"none", "discovered", "queued", "verified"},
                        sha256 : Digests \union {Absent}]]
  /\ loop \in {"cli", "kernel"}
  /\ stage \in {"idle", "next", "syncing", "close"}
  /\ repository \in 1..NumRepositories + 1
  /\ queue \subseteq Files /\ arrived \subseteq Files
  /\ outcome \in [Repositories -> {"none", "synced", "failed"}]
  /\ cancelled \in BOOLEAN
  /\ exit \in {"none", "success", "cancelled", "error", "killed"}
  /\ faults \in 0..MaxFaults

MirrorInit ==
  /\ upstream = [f \in Files |-> 1]
  /\ disk = [f \in Files |-> Absent]
  /\ row = [f \in Files |-> NoRow]
  /\ loop \in {"cli", "kernel"}
  /\ stage = "idle"
  /\ repository = 1
  /\ queue = {} /\ arrived = {}
  /\ outcome = [r \in Repositories |-> "none"]
  /\ cancelled = FALSE
  /\ exit = "none"
  /\ faults = 0

-----------------------------------------------------------------------------
Upstream(f) ==
  /\ \E d \in Digests : d > upstream[f] /\ upstream' = [upstream EXCEPT ![f] = d]
  /\ UNCHANGED <<store, running>>

(* The coordinator is started and the first repository is next. *)
StartRun ==
  /\ stage = "idle"
  /\ stage' = "next" /\ repository' = 1
  /\ outcome' = [r \in Repositories |-> "none"]
  /\ cancelled' = FALSE
  /\ exit' = "none"
  /\ UNCHANGED <<upstream, store, loop, queue, arrived, faults>>

(* The loop is over, or the workflow sees the token between two repositories. *)
Done == repository > NumRepositories \/ (loop = "kernel" /\ cancelled)

LeaveLoop ==
  /\ stage = "next" /\ Done
  /\ stage' = "close"
  /\ UNCHANGED <<upstream, store, loop, repository, queue, arrived, outcome, cancelled,
                 exit, faults>>

Outdated == {f \in FilesOf[repository] : ~(Vouched(f) /\ row[f].sha256 = upstream[f])}

(* sync_repository, up to its downloads. *)
EnterRepository ==
  /\ stage = "next" /\ ~Done
  /\ stage' = "syncing"
  /\ queue' = Outdated /\ arrived' = {}
  /\ row' = [f \in Files |-> IF f \in Outdated
                               THEN [state |-> "queued", sha256 |-> upstream[f]] ELSE row[f]]
  /\ UNCHANGED <<upstream, disk, loop, repository, outcome, cancelled, exit, faults>>

(* A download is verified against the listed digest and renamed into place. *)
Arrive(f) ==
  /\ stage = "syncing" /\ f \in queue
  /\ disk' = [disk EXCEPT ![f] = row[f].sha256]
  /\ queue' = queue \ {f} /\ arrived' = arrived \union {f}
  /\ UNCHANGED <<upstream, row, loop, stage, repository, outcome, cancelled, exit, faults>>

(* sync_repository marks what arrived and returns; what failed stays queued. *)
RepositoryReturns ==
  /\ stage = "syncing"
  /\ row' = [f \in Files |-> IF f \in arrived
                               THEN [row[f] EXCEPT !.state = "verified"] ELSE row[f]]
  /\ outcome' = [outcome EXCEPT ![repository] = "synced"]
  /\ stage' = "next" /\ repository' = repository + 1
  /\ queue' = {} /\ arrived' = {}
  /\ UNCHANGED <<upstream, disk, loop, cancelled, exit, faults>>

(* Mutant of AfterFailure: the workflow, too, stops at the first failure. *)
AfterFailureAlwaysStops == "close"

(* The workflow goes on to the next repository; from the CLI's loop the      *)
(* exception escapes.                                                        *)
AfterFailure == IF loop = "kernel" THEN "next" ELSE "close"

(* sync_repository raises, before its batch is marked. *)
RepositoryRaises ==
  /\ stage = "syncing" /\ faults < MaxFaults
  /\ outcome' = [outcome EXCEPT ![repository] = "failed"]
  /\ stage' = AfterFailure
  /\ repository' = repository + 1
  /\ exit' = IF loop = "cli" THEN "error" ELSE exit
  /\ queue' = {} /\ arrived' = {}
  /\ faults' = faults + 1
  /\ UNCHANGED <<upstream, store, loop, cancelled>>

(* The token of a workflow run; the CLI's is never cancelled. *)
CancelRun ==
  /\ loop = "kernel" /\ stage \in {"next", "syncing", "close"}
  /\ cancelled' = TRUE
  /\ UNCHANGED <<upstream, store, loop, stage, repository, queue, arrived, outcome, exit,
                 faults>>

(* close() in `finally'; a cancelled workflow then takes back what is queued, *)
(* whichever repository queued it.                                            *)
CloseRun ==
  /\ stage = "close"
  /\ stage' = "idle"
  /\ row' = IF cancelled
              THEN [f \in Files |-> IF row[f].state = "queued"
                                      THEN [row[f] EXCEPT !.state = "discovered"] ELSE row[f]]
              ELSE row
  /\ exit' = IF exit # "none" THEN exit ELSE IF cancelled THEN "cancelled" ELSE "success"
  /\ repository' = 1
  /\ UNCHANGED <<upstream, disk, loop, queue, arrived, outcome, cancelled, faults>>

(* The process is killed, at any step. *)
KillRun ==
  /\ stage # "idle" /\ faults < MaxFaults
  /\ stage' = "idle" /\ exit' = "killed"
  /\ repository' = 1 /\ queue' = {} /\ arrived' = {}
  /\ faults' = faults + 1
  /\ UNCHANGED <<upstream, store, loop, outcome, cancelled>>

MirrorNext ==
  \/ \E f \in Files : Upstream(f) \/ Arrive(f)
  \/ StartRun \/ LeaveLoop \/ EnterRepository \/ RepositoryReturns \/ RepositoryRaises
  \/ CancelRun \/ CloseRun \/ KillRun

-----------------------------------------------------------------------------
(* A workflow run that ends without being cancelled has tried every           *)
(* repository, whichever failed; a CLI run that reports success has           *)
(* synchronised every one.                                                    *)
EveryRepositoryTried ==
  exit = "success" =>
    \A r \in Repositories : outcome[r] # "none" /\ (loop = "cli" => outcome[r] = "synced")
=============================================================================
