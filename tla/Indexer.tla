------------------------------- MODULE Indexer -------------------------------
(***************************************************************************)
(* Runs of IndexerService.index_repository, in one or several processes,   *)
(* over the index files of one repository, while the mirror goes on        *)
(* replacing them.  A run works on three stores with no transaction that   *)
(* spans them: the cached files (`disk'), their rows in mirror.db          *)
(* (`digest') and metadata.db (`record', `owner').                         *)
(*                                                                         *)
(* A step is one commit, or one file read.  The contents a file has over   *)
(* time are numbered, and a number stands for the digest: upstream does    *)
(* not go back to an earlier content.  Only Packages files carry anything  *)
(* here: generate_index_paths names no others, a Release file persists     *)
(* nothing, and a .deb is passed over before any I/O.                      *)
(***************************************************************************)
EXTENDS Naturals

CONSTANTS
  Runners,      \* processes that run `index', one repository at a time each
  NumFiles,     \* index files, in the order index_repository sorts them
  NumContents,  \* BOUND: contents a file can have
  LastContent,  \* BOUND: [file]: the content upstream ends with
  NumVersions,  \* BOUND: releases of PackagesParser, by PARSER_VERSION
  Keys,         \* natural keys: (package_name, version, architecture, filename)
  Lists,        \* [file][content][parser version]: the keys parsed out of it
  MaxFaults     \* BOUND: failures the environment injects in a behaviour

Files == 1..NumFiles
Contents == 1..NumContents
Versions == 1..NumVersions
Absent == 0     \* no such file, no such row, nothing listed

ASSUME SizesAssumption == NumFiles \in Nat /\ NumContents \in Nat \ {0}
                          /\ NumVersions \in Nat \ {0} /\ MaxFaults \in Nat
ASSUME LastAssumption == LastContent \in [Files -> Contents]
ASSUME KeysAssumption == Lists \in [Files -> [Contents -> [Versions -> SUBSET Keys]]]
ASSUME RunnersAssumption == Runners \intersect {"none", "published", "abandoned"} = {}

VARIABLES
  \* The mirror
  remote,    \* [Files -> Contents]: what upstream publishes now
  disk,      \* [Files -> content or Absent]: the cached file
  digest,    \* [Files -> content or Absent]: the sha256 of its row
  installed, \* the parser version of the program that is installed
  \* metadata.db
  record,    \* [Files -> IndexingRecord or NoRecord]
  owner,     \* [Keys -> whose snapshot the PackageInstance is in]
  \* The runs
  pc, parser, listed, cursor, content,
  failed,    \* history: a file of this run was given up
  faults     \* failures injected so far

mirror == <<remote, disk, digest, installed>>
metadata == <<record, owner>>
vars == <<mirror, metadata, pc, parser, listed, cursor, content, failed, faults>>

Record == [sha : Contents, version : Versions]
NoRecord == [sha |-> Absent, version |-> Absent]
NothingListed == [f \in Files |-> Absent]

(* The natural keys metadata.db has an instance of, in whatever snapshot. *)
Stored == {k \in Keys : owner[k] # "none"}

Fault == faults < MaxFaults /\ faults' = faults + 1

-----------------------------------------------------------------------------
(* One run *)

(* find_or_create_repository and create_snapshot. *)
Start(p) ==
  /\ pc[p] = "idle"
  /\ pc' = [pc EXCEPT ![p] = "list"]
  /\ parser' = [parser EXCEPT ![p] = installed]
  /\ failed' = [failed EXCEPT ![p] = FALSE]
  /\ UNCHANGED <<mirror, metadata, listed, cursor, content, faults>>

(* get_verified_files: the digests are read once, before the first file.     *)
(* Rows are VERIFIED or INDEXED whenever they are there, and both are taken. *)
List(p) ==
  /\ pc[p] = "list"
  /\ listed' = [listed EXCEPT ![p] = digest]
  /\ cursor' = [cursor EXCEPT ![p] = 1]
  /\ pc' = [pc EXCEPT ![p] = "file"]
  /\ UNCHANGED <<mirror, metadata, parser, content, failed, faults>>

(* Mutant of ShouldSkip: what was indexed once is skipped whatever has parsed it. *)
ShouldSkipBySha(r, sha, version) == r.sha = sha

(* Mutant of ShouldSkip: the digest is not compared. *)
ShouldSkipByVersion(r, sha, version) == r.version = version

(* _should_skip *)
ShouldSkip(r, sha, version) == r.sha = sha /\ r.version = version

(* The file the loop is at, as it was listed. *)
AtFile(p) == pc[p] = "file" /\ cursor[p] \in Files
Sha(p) == listed[p][cursor[p]]

(* Mutant of NextFile: what was read for one file is still there for the next. *)
NextWithContent(p) ==
  /\ cursor' = [cursor EXCEPT ![p] = @ + 1]
  /\ pc' = [pc EXCEPT ![p] = "file"]
  /\ content' = content

NextFile(p) ==
  /\ cursor' = [cursor EXCEPT ![p] = @ + 1]
  /\ pc' = [pc EXCEPT ![p] = "file"]
  /\ content' = [content EXCEPT ![p] = Absent]

(* A file without a row is not in the list; one that is up to date is skipped. *)
Skip(p) ==
  /\ AtFile(p)
  /\ Sha(p) = Absent \/ ShouldSkip(record[cursor[p]], Sha(p), parser[p])
  /\ NextFile(p)
  /\ UNCHANGED <<mirror, metadata, parser, listed, failed, faults>>

(* read_file: what is on disk now.  Nothing compares it with the listed digest. *)
Read(p) ==
  /\ AtFile(p)
  /\ Sha(p) # Absent /\ ~ShouldSkip(record[cursor[p]], Sha(p), parser[p])
  /\ disk[cursor[p]] # Absent
  /\ content' = [content EXCEPT ![p] = disk[cursor[p]]]
  /\ pc' = [pc EXCEPT ![p] = "persist"]
  /\ UNCHANGED <<mirror, metadata, parser, listed, cursor, failed, faults>>

(* OSError, ValueError, KeyError or ReleaseParseError while the file is read or *)
(* parsed: it is logged, and the run goes on with the next file.                *)
FileFails(p) ==
  /\ \/ /\ AtFile(p)
        /\ Sha(p) # Absent /\ ~ShouldSkip(record[cursor[p]], Sha(p), parser[p])
        /\ IF disk[cursor[p]] = Absent THEN UNCHANGED faults ELSE Fault
     \/ pc[p] = "persist" /\ Fault
  /\ NextFile(p)
  /\ failed' = [failed EXCEPT ![p] = TRUE]
  /\ UNCHANGED <<mirror, metadata, parser, listed>>

(* The keys parsed out of what was read. *)
Parsed(p) == Lists[cursor[p]][content[p]][parser[p]]

(* add_package_instances, one transaction: a key any snapshot has is left where *)
(* it is (the natural key is unique in the whole table).                        *)
Persist(p) ==
  /\ pc[p] = "persist"
  /\ owner' = [k \in Keys |-> IF k \in Parsed(p) \ Stored THEN p ELSE owner[k]]
  /\ pc' = [pc EXCEPT ![p] = "mark"]
  /\ UNCHANGED <<mirror, record, parser, listed, cursor, content, failed, faults>>

(* Mutant of Marked: the record takes the digest the row has by now. *)
MarkedAsStored(p) == digest[cursor[p]]

(* The digest mark_indexed is given: the listed one. *)
Marked(p) == Sha(p)

(* mark_indexed.  Its second commit, the row's state in mirror.db, is left out: *)
(* no run reads the state.                                                      *)
Mark(p) ==
  /\ pc[p] = "mark"
  /\ record' = [record EXCEPT ![cursor[p]] = [sha |-> Marked(p), version |-> parser[p]]]
  /\ NextFile(p)
  /\ UNCHANGED <<mirror, owner, parser, listed, failed, faults>>

EndRun(p) ==
  /\ pc' = [pc EXCEPT ![p] = "idle"]
  /\ listed' = [listed EXCEPT ![p] = NothingListed]
  /\ cursor' = [cursor EXCEPT ![p] = 1]
  /\ content' = [content EXCEPT ![p] = Absent]
  /\ UNCHANGED <<mirror, record, parser>>

(* The instances of p's snapshot, from now on in a snapshot that is `fate'. *)
SnapshotBecomes(p, fate) ==
  owner' = [k \in Keys |-> IF owner[k] = p THEN fate ELSE owner[k]]

(* publish_snapshot, whatever failed on the way, and for an empty list too *)
(* (_finalize_empty_snapshot).                                             *)
Publish(p) ==
  /\ pc[p] = "file"
  /\ cursor[p] \notin Files
  /\ SnapshotBecomes(p, "published")
  /\ EndRun(p)
  /\ UNCHANGED <<failed, faults>>

(* The run ends early: IndexingFailed, an exception nobody catches (a database *)
(* error, a truncated gzip file), or the process dies.  Nothing that was       *)
(* committed is undone, and the snapshot stays unpublished for good.           *)
Die(p) ==
  /\ pc[p] # "idle"
  /\ Fault
  /\ SnapshotBecomes(p, "abandoned")
  /\ EndRun(p)
  /\ failed' = [failed EXCEPT ![p] = FALSE]

-----------------------------------------------------------------------------
(* The mirror, as MirrorSync has it for index files, and the operator. *)

Upstream(f) ==
  /\ remote[f] < LastContent[f]
  /\ remote' = [remote EXCEPT ![f] = @ + 1]
  /\ UNCHANGED <<disk, digest, installed>>

(* IndexArrives: the file is renamed into place before its row is written. *)
Fetch(f) ==
  /\ disk' = [disk EXCEPT ![f] = remote[f]]
  /\ UNCHANGED <<remote, digest, installed>>

(* StoreIndex *)
Store(f) ==
  /\ disk[f] # Absent
  /\ digest' = [digest EXCEPT ![f] = disk[f]]
  /\ UNCHANGED <<remote, disk, installed>>

(* StorageInitialize removes a file that is not the one its row describes. *)
Remove(f) ==
  /\ digest[f] # Absent /\ disk[f] # digest[f]
  /\ disk' = [disk EXCEPT ![f] = Absent]
  /\ UNCHANGED <<remote, digest, installed>>

Upgrade ==
  /\ installed < NumVersions
  /\ installed' = installed + 1
  /\ UNCHANGED <<remote, disk, digest>>

Environment ==
  /\ \/ \E f \in Files : Upstream(f) \/ Fetch(f) \/ Store(f) \/ Remove(f)
     \/ Upgrade
  /\ UNCHANGED <<metadata, pc, parser, listed, cursor, content, failed, faults>>

-----------------------------------------------------------------------------
Init ==
  /\ remote = [f \in Files |-> 1]
  /\ disk = [f \in Files |-> Absent]
  /\ digest = [f \in Files |-> Absent]
  /\ installed = 1
  /\ record = [f \in Files |-> NoRecord]
  /\ owner = [k \in Keys |-> "none"]
  /\ pc = [p \in Runners |-> "idle"]
  /\ parser = [p \in Runners |-> 1]
  /\ listed = [p \in Runners |-> NothingListed]
  /\ cursor = [p \in Runners |-> 1]
  /\ content = [p \in Runners |-> Absent]
  /\ failed = [p \in Runners |-> FALSE]
  /\ faults = 0

Step(p) == Start(p) \/ List(p) \/ Skip(p) \/ Read(p) \/ Persist(p) \/ Mark(p) \/ Publish(p)

Next == (\E p \in Runners : Step(p) \/ FileFails(p) \/ Die(p)) \/ Environment

Spec == Init /\ [][Next]_vars

(* `index' is run again and again, and a run that is under way goes on. *)
Fairness == \A p \in Runners : WF_vars(Step(p) \/ FileFails(p))

FairSpec == Spec /\ Fairness

-----------------------------------------------------------------------------
(* Properties *)

(* Every store and every local of a run has the shape it has in the code, and a *)
(* run holds the content of a file exactly while it processes that file.        *)
TypeOK ==
  /\ remote \in [Files -> Contents]
  /\ disk \in [Files -> Contents \union {Absent}]
  /\ digest \in [Files -> Contents \union {Absent}]
  /\ installed \in Versions
  /\ record \in [Files -> Record \union {NoRecord}]
  /\ owner \in [Keys -> Runners \union {"none", "published", "abandoned"}]
  /\ pc \in [Runners -> {"idle", "list", "file", "persist", "mark"}]
  /\ parser \in [Runners -> Versions]
  /\ listed \in [Runners -> [Files -> Contents \union {Absent}]]
  /\ cursor \in [Runners -> 1..(NumFiles + 1)]
  /\ content \in [Runners -> Contents \union {Absent}]
  /\ \A p \in Runners :
       IF pc[p] \in {"persist", "mark"}
       THEN cursor[p] \in Files /\ content[p] # Absent /\ Sha(p) # Absent
       ELSE content[p] = Absent
  /\ failed \in [Runners -> BOOLEAN]
  /\ faults \in 0..MaxFaults

(* What an IndexingRecord says is true of the file in the cache: if it has the *)
(* digest of the file as it is now, every package the recorded parser version  *)
(* finds in that file is in metadata.db.  It must survive a mirror that        *)
(* replaces the file between listing, reading and marking, two runs at once    *)
(* and a crash between any two commits (_process_single_file, mark_indexed).   *)
RecordIsBacked ==
  \A f \in Files :
    record[f] # NoRecord /\ record[f].sha = disk[f] =>
      Lists[f][disk[f]][record[f].version] \subseteq Stored

(* A run that gives no file up leaves nothing out: when it publishes, every file *)
(* whose cached content is still the one it listed has all its packages in       *)
(* metadata.db, skipped or parsed (index_repository).                            *)
PublishedIsWhole ==
  [][ \A p \in Runners : Publish(p) /\ ~failed[p] =>
        \A f \in Files : listed[p][f] # Absent /\ listed[p][f] = disk[f] =>
          Lists[f][disk[f]][parser[p]] \subseteq Stored ]_vars

(* Once the mirror leaves a file and its row alone and in agreement, repeated   *)
(* runs bring all its packages, as the installed parser finds them, into        *)
(* metadata.db, whatever died or raced before (incremental indexing never       *)
(* skips for good what it has not stored).                                      *)
EventuallyIndexed ==
  \A f \in Files :
    <>[](disk[f] # Absent /\ disk[f] = digest[f]) =>
      <>[](disk[f] # Absent /\ Lists[f][disk[f]][installed] \subseteq Stored)

(* What the documentation says of duplicates: a package is left out only if the *)
(* current snapshot has it, so whatever a run parses is in that run's snapshot. *)
SnapshotHoldsParsed ==
  [][ \A p \in Runners : Persist(p) => \A k \in Parsed(p) : owner'[k] = p ]_vars
=============================================================================
