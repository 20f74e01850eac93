----------------------------- MODULE Enrichment -----------------------------
(***************************************************************************)
(* Processes that enrich the packages of an artifact, each against one     *)
(* snapshot of metadata.db, beside the indexer that adds instances and     *)
(* publishes snapshots.  Three tiers: the cache in cache.db, the instances *)
(* of the snapshot, the .deb archive on the ISO.                           *)
(***************************************************************************)
EXTENDS Naturals, Sequences, FiniteSets, FiniteSetsExt

CONSTANTS
  Enrichers,     \* processes that generate SBOMs, sharing the two databases
  NumBinaries,   \* packages of the artifact, by (name, version, architecture)
  Filenames,     \* a package may be in the repository under several of them
  MaxSnapshots,  \* bound: snapshots the indexer creates
  MaxRows        \* bound: package instances

ASSUME EnrichmentAssumption ==
  NumBinaries \in Nat /\ MaxSnapshots \in Nat /\ MaxRows \in Nat

VARIABLES
  instances,     \* Seq of [binary, filename, snapshot]; the index is the row's id
  snapshots,     \* number of snapshots created; ids count up
  published,     \* the published ones
  cache,         \* [Binaries \X Ids -> the row its entry was made of, or 0]
  enricher,      \* [Enrichers -> the run under way]
  early,         \* history: snapshots an enricher was given before they were published
  calm           \* history: [Enrichers -> nothing failed or was indexed during its run]

enrichment == <<instances, snapshots, published, cache, enricher, early, calm>>

Binaries == 1..NumBinaries
Ids == 1..MaxSnapshots
NoRow == 0

Tiers == {"pending", "cache", "metadata", "deb", "none"}
Pending == [tier |-> "pending", row |-> NoRow]

EnricherRun == [step : {"idle", "cached?", "query", "store", "extract", "done", "aborted"},
        snapshot : 0..MaxSnapshots, at : 1..NumBinaries + 1, found : 0..MaxRows,
        outputs : [Binaries -> [tier : Tiers, row : 0..MaxRows]]]

IdleRun == [step |-> "idle", snapshot |-> 0, at |-> 1, found |-> NoRow,
            outputs |-> [b \in Binaries |-> Pending]]

EnrichmentTypeOK ==
  /\ instances \in Seq([binary : Binaries, filename : Filenames, snapshot : Ids])
  /\ Len(instances) <= MaxRows /\ snapshots \in 0..MaxSnapshots /\ published \in SUBSET Ids
  /\ cache \in [Binaries \X Ids -> 0..MaxRows] /\ enricher \in [Enrichers -> EnricherRun]
  /\ early \in SUBSET Ids /\ calm \in [Enrichers -> BOOLEAN]

EnrichmentInit ==
  /\ instances = <<>> /\ snapshots = 0 /\ published = {}
  /\ cache = [k \in Binaries \X Ids |-> NoRow]
  /\ enricher = [e \in Enrichers |-> IdleRun]
  /\ early = {} /\ calm = [e \in Enrichers |-> FALSE]

-----------------------------------------------------------------------------
(* The indexer, as its own module has it: it creates a snapshot, inserts the  *)
(* instances no snapshot has yet, and publishes it.                           *)
Disturbed == calm' = [e \in Enrichers |-> FALSE]

CreateSnapshot ==
  /\ snapshots < MaxSnapshots /\ snapshots' = snapshots + 1
  /\ UNCHANGED <<instances, published, cache, enricher, early, calm>>

AddInstance ==
  /\ Len(instances) < MaxRows
  /\ \E b \in Binaries, f \in Filenames, s \in (1..snapshots) \ published :
       /\ \A i \in DOMAIN instances :
            instances[i].binary = b => instances[i].filename # f
       /\ instances' = Append(instances, [binary |-> b, filename |-> f, snapshot |-> s])
  /\ Disturbed
  /\ UNCHANGED <<snapshots, published, cache, enricher, early>>

PublishSnapshot ==
  /\ \E s \in (1..snapshots) \ published : published' = published \union {s}
  /\ UNCHANGED <<instances, snapshots, cache, enricher, early, calm>>

-----------------------------------------------------------------------------
(* Mutant of Latest: the newest snapshot, published or not. *)
LatestOfAll == 1..snapshots

(* resolve_snapshot_id takes the highest published id, 0 when there is none. *)
Latest == published

(* resolve_snapshot_id and the set-up of the enricher: an explicit id is taken *)
(* as it is; a database that cannot be read counts as one without snapshots.   *)
Begin(e) ==
  /\ enricher[e].step \in {"idle", "done", "aborted"}
  /\ \E auto, failed \in BOOLEAN :
       \E s \in (IF auto THEN {IF Latest = {} \/ failed THEN 0 ELSE Max(Latest)} ELSE Ids) :
         /\ enricher' = [enricher EXCEPT ![e] =
              [IdleRun EXCEPT !.step = IF s > 0 THEN "cached?" ELSE "extract", !.snapshot = s]]
         /\ early' = early \union (IF auto THEN {} ELSE {s} \ published)
         /\ calm' = [calm EXCEPT ![e] = ~failed]
  /\ UNCHANGED <<instances, snapshots, published, cache>>

Reaches(e, s) == enricher[e].step = s /\ enricher[e].at \in Binaries

Step(e, s) == enricher' = [enricher EXCEPT ![e].step = s]

(* One EnrichedPackage is appended, and the loop goes on to the next package. *)
Output(e, t, r) ==
  enricher' = [enricher EXCEPT
    ![e].outputs[enricher[e].at] = [tier |-> t, row |-> r],
    ![e].at = @ + 1, ![e].found = NoRow,
    ![e].step = IF enricher[e].snapshot > 0 THEN "cached?" ELSE "extract"]

Databases == UNCHANGED <<instances, snapshots, published, early>>
Fails(e) == calm' = [calm EXCEPT ![e] = FALSE]

-----------------------------------------------------------------------------
(* Mutant of Key: the cache is looked up by package alone. *)
KeyOfPackage(b, s) == <<b, 1>>

(* The columns of uq_cached_enrichment: package and snapshot. *)
Key(b, s) == <<b, s>>

EntryOf(e) == Key(enricher[e].at, enricher[e].snapshot)

(* EnrichmentCacheAdapter.get: an error of the database counts as a miss.  The *)
(* adapter the command uses without cache.db names its parameters otherwise    *)
(* than its caller does: the call raises TypeError and the SBOM fails.         *)
CacheGet(e) ==
  /\ Reaches(e, "cached?")
  /\ \/ enricher[e].at = 1 /\ Step(e, "aborted") /\ UNCHANGED calm
     \/ cache[EntryOf(e)] # NoRow /\ Output(e, "cache", cache[EntryOf(e)]) /\ UNCHANGED calm
     \/ cache[EntryOf(e)] = NoRow /\ Step(e, "query") /\ UNCHANGED calm
     \/ Step(e, "query") /\ Fails(e)
  /\ Databases /\ UNCHANGED cache

Matching(b, s) ==
  {i \in DOMAIN instances : instances[i].binary = b /\ instances[i].snapshot = s}

(* _query_metadata_db: the matching instance with the highest id.  Without    *)
(* metadata.db, or when the query fails, there is none.                       *)
Query(e) ==
  /\ Reaches(e, "query")
  /\ LET rows == Matching(enricher[e].at, enricher[e].snapshot) IN
       \/ /\ rows # {} /\ UNCHANGED calm
          /\ enricher' = [enricher EXCEPT ![e].step = "store", ![e].found = Max(rows)]
       \/ rows = {} /\ Step(e, "extract") /\ UNCHANGED calm
       \/ Step(e, "extract") /\ Fails(e)
  /\ Databases /\ UNCHANGED cache

(* EnrichmentCacheAdapter.store: select, then insert or update.  An error (also *)
(* the unique constraint, when another process inserted in between) is logged.  *)
Store(e) ==
  /\ Reaches(e, "store")
  /\ cache' \in {cache, [cache EXCEPT ![EntryOf(e)] = enricher[e].found]}
  /\ Output(e, "metadata", enricher[e].found)
  /\ Databases /\ UNCHANGED calm

(* extract_enrichment: no ISO, no archive or a malformed one gives nothing. A *)
(* malformed dependency field raises DependencyParseError, which is neither a *)
(* DebParseError nor one of the errors caught beside it.                      *)
Extract(e) ==
  /\ Reaches(e, "extract")
  /\ \/ Output(e, "none", NoRow)
     \/ Output(e, "deb", NoRow)
     \/ Step(e, "aborted")
  /\ Databases /\ UNCHANGED <<cache, calm>>

EndEnrichment(e) ==
  /\ enricher[e].at > NumBinaries /\ enricher[e].step # "done"
  /\ Step(e, "done")
  /\ Databases /\ UNCHANGED <<cache, calm>>

EnrichmentNext ==
  \/ CreateSnapshot \/ AddInstance \/ PublishSnapshot
  \/ \E e \in Enrichers : Begin(e) \/ CacheGet(e) \/ Query(e) \/ Store(e)
                          \/ Extract(e) \/ EndEnrichment(e)

EnrichmentSpec == EnrichmentInit /\ [][EnrichmentNext]_enrichment

-----------------------------------------------------------------------------
(* What a run takes from the cache or from metadata.db for a package is the   *)
(* newest instance of that package in the run's own snapshot, though other    *)
(* snapshots are indexed, published and cached meanwhile; this holds of       *)
(* snapshots that nobody named before they were published.  And when nothing  *)
(* failed and nothing was indexed during the run, no package its snapshot     *)
(* has is left to the last tier (enrich, resolve_snapshot_id, the cache key). *)
EnrichedFromSnapshot ==
  \A e \in Enrichers : \A b \in Binaries :
    LET out == enricher[e].outputs[b]
        s == enricher[e].snapshot
        rows == Matching(b, s) IN
    /\ out.tier \in {"cache", "metadata"} /\ s \notin early =>
         rows # {} /\ out.row = Max(rows)
    /\ out.tier \in {"deb", "none"} /\ calm[e] => rows = {}
=============================================================================
