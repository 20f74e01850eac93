-------------------------- MODULE MirrorSyncProofs --------------------------
(***************************************************************************)
(* Proofs about MirrorSync, for every number of suites, every release and  *)
(* index content, every batch size and every number of failures.           *)
(***************************************************************************)
EXTENDS MirrorSync, FiniteSetTheorems, TLAPS

(* Facts about the files: the kinds are disjoint and all of them are URLs. *)
LEMMA FilesDiffer ==
  ASSUME NEW a \in Artifacts, NEW s \in Suites
  PROVE  /\ Pool(a) # InRelease(s)
         /\ Pool(a) # Release(s)
         /\ \A i \in IndexPaths : Pool(a) # Index(s, i)
BY DEF Pool, InRelease, Release, Index

(* Packages at different paths are different files. *)
LEMMA PoolsDiffer ==
  ASSUME NEW a \in Artifacts
  PROVE  /\ \A b \in Artifacts : Pool(a) = Pool(b) <=> a = b
         /\ \A B \in SUBSET Artifacts : Pool(a) \in Pools(B) <=> a \in B
BY DEF Pool, Pools

(* What the constructors of URLs name are files of the repository. *)
LEMMA FileTypes ==
  /\ \A s \in Suites : InRelease(s) \in File /\ Release(s) \in File
  /\ \A s \in Suites, i \in IndexPaths : Index(s, i) \in File
  /\ \A a \in Artifacts : Pool(a) \in File /\ Pool(a)[2] = a
BY DEF Pool, Pools, InRelease, Release, Index, File

(* The values of a function on a finite set are finitely many. *)
LEMMA FiniteImage ==
  ASSUME NEW S, IsFiniteSet(S), NEW f
  PROVE  IsFiniteSet({f[x] : x \in S})
<1> DEFINE T == {f[x] : x \in S}
           g == [x \in S |-> f[x]]
<1>1. g \in Surjection(S, T)
  BY DEF Surjection
<1> QED BY <1>1, FS_Surjection

(* There are finitely many files, so rows can be counted. *)
LEMMA FileFinite == IsFiniteSet(File)
<1> DEFINE Rel == {InRelease(s) : s \in Suites}
           Old == {Release(s) : s \in Suites}
           Idx == {Index(s, i) : s \in Suites, i \in IndexPaths}
           Art == {Pool(a) : a \in Artifacts}
           Pairs == Suites \X IndexPaths
<1>1. IsFiniteSet(Suites)
  BY FS_Interval, SuitesAssumption DEF Suites
<1>2. IsFiniteSet(Rel)
  <2> DEFINE f == [s \in Suites |-> InRelease(s)]
  <2>1. Rel = {f[s] : s \in Suites}
    OBVIOUS
  <2> HIDE DEF f, Rel
  <2> QED BY <1>1, <2>1, FiniteImage
<1>3. IsFiniteSet(Old)
  <2> DEFINE f == [s \in Suites |-> Release(s)]
  <2>1. Old = {f[s] : s \in Suites}
    OBVIOUS
  <2> HIDE DEF f, Old
  <2> QED BY <1>1, <2>1, FiniteImage
<1>4. IsFiniteSet(Art)
  <2> DEFINE f == [a \in Artifacts |-> Pool(a)]
  <2>1. Art = {f[a] : a \in Artifacts}
    OBVIOUS
  <2> HIDE DEF f, Art
  <2> QED BY <2>1, FiniteImage, FiniteAssumption
<1>5. IsFiniteSet(Idx)
  <2> DEFINE f == [q \in Pairs |-> Index(q[1], q[2])]
  <2>1. Idx = {f[q] : q \in Pairs}
    <3>1. ASSUME NEW s \in Suites, NEW i \in IndexPaths
          PROVE  <<s, i>> \in Pairs /\ Index(s, i) = f[<<s, i>>]
      OBVIOUS
    <3>2. ASSUME NEW q \in Pairs
          PROVE  f[q] = Index(q[1], q[2]) /\ q[1] \in Suites /\ q[2] \in IndexPaths
      OBVIOUS
    <3> HIDE DEF f, Pairs
    <3>3. ASSUME NEW x \in Idx  PROVE  x \in {f[q] : q \in Pairs}
      <4>1. PICK s \in Suites, i \in IndexPaths : x = Index(s, i)
        OBVIOUS
      <4>2. <<s, i>> \in Pairs /\ x = f[<<s, i>>]
        BY <3>1, <4>1
      <4>3. \E q \in Pairs : x = f[q]
        BY <4>2
      <4> QED BY <4>3
    <3>4. ASSUME NEW q \in Pairs  PROVE  f[q] \in Idx
      BY <3>2
    <3> HIDE DEF Idx
    <3> QED BY <3>3, <3>4
  <2>2. IsFiniteSet(Pairs)
    BY <1>1, FS_Product, FiniteAssumption
  <2> HIDE DEF f, Idx, Pairs
  <2> QED BY <2>1, <2>2, FiniteImage
<1>6. File = Rel \union Old \union Idx \union Art
  BY DEF File, Pools
<1> HIDE DEF Rel, Old, Idx, Art
<1> QED BY <1>2, <1>3, <1>4, <1>5, <1>6, FS_Union

(* What publish_snapshot and files_downloaded count is finite. *)
LEMMA Counts ==
  /\ \A S \in SUBSET File : Cardinality(S) \in Nat
  /\ \A S \in SUBSET Artifacts : Cardinality(S) \in Nat
BY FileFinite, FiniteAssumption, FS_Subset, FS_CardinalityType

-----------------------------------------------------------------------------
(* Type correctness.  TypeOK is not inductive: the stages of a suite index   *)
(* ReleaseLists with `suite' and `release', which has to be their business.  *)

InSuite == pc \notin {"idle", "suite", "finish", "wind_down"} => suite \in Suites

HasRelease ==
  pc \in {"store_release", "indexes", "index", "store_index", "artifacts", "create",
         "batch", "mark_verified", "mark_failed", "publish", "commit"}
    => release \in 1..NumReleases

HasFile == pc = "store_release" => file \in {InRelease(suite), Release(suite)}

TypeInv == TypeOK /\ InSuite /\ HasRelease /\ HasFile

(* An injected failure stays within the bound. *)
LEMMA FaultType ==
  ASSUME faults \in 0..MaxFaults, NEW k, Fault(k)
  PROVE  faults' \in 0..MaxFaults
BY BoundsAssumption DEF Fault

(* A commit, or a swallowed failure, leaves well-typed rows. *)
LEMMA CommitType ==
  ASSUME TypeOK, NEW rows \in [File -> Row], Commit(rows)
  PROVE  row' \in [File -> Row] /\ faults' \in 0..MaxFaults /\ dbFailed' \in BOOLEAN
BY FaultType DEF Commit, TypeOK

(* upsert_repository_file writes well-typed rows. *)
LEMMA UpsertedType ==
  ASSUME TypeOK, NEW f \in File, NEW c \in Content, NEW e \in Content
  PROVE  Upserted(f, c, e) \in [File -> Row]
BY DEF Upserted, TypeOK, Row, State

(* Whatever the cached file holds, parsing it lists packages. *)
LEMMA ParsedType ==
  ASSUME NEW c
  PROVE  Parsed(c) \in [Artifacts -> Packages \union {NoContent}]
BY ListsAssumption DEF Parsed, NoEntries

(* deduplicate_entries returns a list of packages. *)
LEMMA FirstSeenType ==
  ASSUME NEW x \in [Artifacts -> Packages \union {NoContent}],
         NEW y \in [Artifacts -> Packages \union {NoContent}]
  PROVE  FirstSeen(x, y) \in [Artifacts -> Packages \union {NoContent}]
BY DEF FirstSeen

(* A release lists known index contents, or nothing. *)
LEMMA ListedType ==
  ASSUME NEW s \in Suites, NEW r \in 1..NumReleases, NEW i \in IndexPaths
  PROVE  ReleaseLists[s][r][i] \in IndexContents \union {NoContent}
<1>1. ReleaseLists[s] \in [1..NumReleases -> [IndexPaths -> IndexContents \union {NoContent}]]
  BY ListsAssumption
<1>2. ReleaseLists[s][r] \in [IndexPaths -> IndexContents \union {NoContent}]
  BY <1>1
<1> QED BY <1>2

(* The type invariant and the facts about stages hold at the start. *)
LEMMA InitType == Init => TypeInv
<1> SUFFICES ASSUME Init PROVE TypeInv
  OBVIOUS
<1>1. remote \in [Suites -> 1..NumReleases] /\ suite \in 1..(NumSuites + 1)
      /\ handled \in [Suites -> 0..NumReleases] /\ faults \in 0..MaxFaults
  BY SuitesAssumption, ReleasesAssumption, BoundsAssumption DEF Init
<1>2. disk \in [File -> Content] /\ row \in [File -> Row]
  BY DEF Init, NoRow, Row, State, Content
<1>3. count \in Count /\ session.status = "none" /\ session = [status |-> "none", count |-> NoCount]
  BY DEF Init, NoCount, Count, NoSession
<1>4. /\ session \in [status : {"none", "completed", "partial", "failed", "cancelled"},
                      count : Count]
      /\ snapshot \in [verified : Nat, failed : Nat]
  BY <1>3 DEF Init, NoSession, NoSnapshot, NoCount, Count
<1>5. /\ decision \in [IndexPaths -> {"none", "skip", "download"}]
      /\ entries \in [Artifacts -> Packages \union {NoContent}]
      /\ result \in [Artifacts -> {"none", "pending", "ok", "failed"}]
  BY DEF Init, NoDecision, NoEntries, NoResult
<1>6. /\ pc \in Stage /\ release \in (1..NumReleases) \union {NoContent}
      /\ file \in File \union {<<>>} /\ queue \in SUBSET Artifacts
      /\ cancelled \in BOOLEAN /\ dbFailed \in BOOLEAN
  BY DEF Init, Stage
<1> QED
  BY <1>1, <1>2, <1>3, <1>4, <1>5, <1>6
     DEF TypeInv, TypeOK, InSuite, HasRelease, HasFile, Init

(* A new run starts from well-typed locals. *)
LEMMA ResetType ==
  ASSUME ResetRun
  PROVE  /\ suite' \in 1..(NumSuites + 1)
         /\ release' \in (1..NumReleases) \union {NoContent}
         /\ file' \in File \union {<<>>}
         /\ decision' \in [IndexPaths -> {"none", "skip", "download"}]
         /\ entries' \in [Artifacts -> Packages \union {NoContent}]
         /\ queue' \in SUBSET Artifacts
         /\ result' \in [Artifacts -> {"none", "pending", "ok", "failed"}]
         /\ count' \in Count
         /\ cancelled' \in BOOLEAN
         /\ handled' \in [Suites -> 0..NumReleases]
<1>1. suite' \in 1..(NumSuites + 1) /\ handled' \in [Suites -> 0..NumReleases]
  BY SuitesAssumption, ReleasesAssumption DEF ResetRun
<1>2. decision' \in [IndexPaths -> {"none", "skip", "download"}]
  BY DEF ResetRun, NoDecision
<1>3. entries' \in [Artifacts -> Packages \union {NoContent}]
  BY DEF ResetRun, NoEntries
<1>4. result' \in [Artifacts -> {"none", "pending", "ok", "failed"}]
  BY DEF ResetRun, NoResult
<1>5. count' \in Count
  BY DEF ResetRun, NoCount, Count
<1>6. release' \in (1..NumReleases) \union {NoContent} /\ file' \in File \union {<<>>}
      /\ queue' \in SUBSET Artifacts /\ cancelled' \in BOOLEAN
  BY DEF ResetRun
<1> QED BY <1>1, <1>2, <1>3, <1>4, <1>5, <1>6

(* The loop over suites runs at most one past the last. *)
LEMMA LeaveSuiteType ==
  ASSUME suite \in Suites, LeaveSuite
  PROVE  suite' \in 1..(NumSuites + 1)
BY SuitesAssumption DEF LeaveSuite, Suites

(* Counters that are added to stay counters. *)
LEMMA CountedType ==
  ASSUME NEW c \in Count, NEW n \in Nat, NEW m \in Nat
  PROVE  /\ [c EXCEPT !.downloaded = @ + n] \in Count
         /\ [c EXCEPT !.skipped = @ + n] \in Count
         /\ [c EXCEPT !.failed = @ + n] \in Count
         /\ [c EXCEPT !.downloaded = @ + n, !.failed = @ + m] \in Count
<1>1. [c EXCEPT !.downloaded = @ + n] \in Count
  BY DEF Count
<1>2. [c EXCEPT !.skipped = @ + n] \in Count
  BY DEF Count
<1>3. [c EXCEPT !.failed = @ + n] \in Count
  BY DEF Count
<1>4. [c EXCEPT !.downloaded = @ + n, !.failed = @ + m] \in Count
  <2>1. \A x, y \in Nat : [c EXCEPT !.downloaded = x, !.failed = y] \in Count
    BY DEF Count
  <2>2. c.downloaded + n \in Nat /\ c.failed + m \in Nat
    BY DEF Count
  <2> QED BY <2>1, <2>2
<1> QED BY <1>1, <1>2, <1>3, <1>4

(* So do counters that are incremented. *)
LEMMA CountedOnceType ==
  ASSUME NEW c \in Count
  PROVE  /\ [c EXCEPT !.downloaded = @ + 1] \in Count
         /\ [c EXCEPT !.failed = @ + 1] \in Count
<1>1. [c EXCEPT !.downloaded = @ + 1] \in Count
  BY DEF Count
<1>2. [c EXCEPT !.failed = @ + 1] \in Count
  BY DEF Count
<1> QED BY <1>1, <1>2

(* The changes a row can undergo give rows. *)
LEMMA RowTypes ==
  ASSUME NEW r \in Row
  PROVE  /\ \A c \in Content : Queued(r, c) \in Row
         /\ [r EXCEPT !.state = "VERIFIED", !.path = TRUE] \in Row
         /\ [r EXCEPT !.state = "INDEXED"] \in Row
         /\ Failed(r) \in Row
         /\ RolledBack(r) \in Row
         /\ Recovered(r) \in Row
<1>1. \A c \in Content : Queued(r, c) \in Row
  BY DEF Queued, Row, State
<1>2. [r EXCEPT !.state = "VERIFIED", !.path = TRUE] \in Row
  BY DEF Row, State
<1>3. [r EXCEPT !.state = "INDEXED"] \in Row
  BY DEF Row, State
<1>4. \A q \in State, n \in Nat : /\ [r EXCEPT !.retry = n, !.state = q] \in Row
                                 /\ [r EXCEPT !.state = q, !.retry = n] \in Row
  BY DEF Row
<1>5. r.retry + 1 \in Nat
  BY DEF Row
<1>6. ASSUME NEW q \in State  PROVE [r EXCEPT !.state = q] \in Row
  BY DEF Row
<1>7. Failed(r) \in Row
  <2> DEFINE q == IF r.retry + 1 >= MaxRetries THEN "FAILED" ELSE "QUEUED"
  <2>1. q \in State
    BY DEF State
  <2>2. Failed(r) = [r EXCEPT !.retry = @ + 1, !.state = q]
    BY DEF Failed
  <2> HIDE DEF q
  <2> QED BY <1>4, <1>5, <2>1, <2>2, ZenonT(40)
<1>8. Recovered(r) \in Row
  BY <1>4, <1>5, <1>6 DEF Recovered, State
<1>9. RolledBack(r) \in Row
  BY <1>6 DEF RolledBack, State
<1> QED BY <1>1, <1>2, <1>3, <1>7, <1>8, <1>9

(* Every step keeps TypeInv: one step of the proof per action, which types the *)
(* variables the action computes; the others are unchanged.                    *)
LEMMA StepType == TypeInv /\ [Next]_vars => TypeInv'
<1> SUFFICES ASSUME TypeInv, [Next]_vars PROVE TypeInv'
  OBVIOUS
<1> USE DEF TypeInv
<1>1. CASE StartSession
  <2>1. [f \in File |-> IF row[f].state = "DOWNLOADING"
                          THEN [row[f] EXCEPT !.state = "QUEUED"] ELSE row[f]]
           \in [File -> Row]
    <3>1. \A r \in Row : [r EXCEPT !.state = "QUEUED"] \in Row
      BY DEF Row, State
    <3>2. row \in [File -> Row]
      BY DEF TypeOK
    <3> QED
      BY <3>1, <3>2
  <2>2. row' \in [File -> Row] /\ faults' \in 0..MaxFaults /\ dbFailed' \in BOOLEAN
    BY <1>1, <2>1, CommitType DEF StartSession
  <2>3. TypeOK'
    BY <1>1, <2>2 DEF TypeOK, Stage, StartSession, run
  <2>4. InSuite' /\ HasRelease' /\ HasFile'
    BY <1>1 DEF InSuite, HasRelease, HasFile, StartSession, run
  <2> QED
    BY <2>3, <2>4
<1>2. CASE EnterSuite
  <2>1. suite <= NumSuites => suite \in Suites
    BY <1>2, SuitesAssumption DEF TypeOK, Suites
  <2> QED
    BY <1>2, <2>1, SuitesAssumption
       DEF TypeOK, InSuite, HasRelease, HasFile, Stage, EnterSuite, stores, run
<1>3. CASE CheckRelease
  <2>1. faults' \in 0..MaxFaults
    BY <1>3, FaultType DEF CheckRelease, TypeOK
  <2>2. suite' \in 1..(NumSuites + 1)
    BY <1>3, LeaveSuiteType DEF CheckRelease, TypeOK, InSuite
  <2> QED
    BY <1>3, <2>1, <2>2
       DEF TypeOK, InSuite, HasRelease, HasFile, Stage, CheckRelease, LeaveSuite, stores, run
<1>4. CASE ReleaseArrives
  <2>1. ReleaseTarget \in {InRelease(suite), Release(suite)} /\ ReleaseTarget \in File
    BY <1>4, FileTypes DEF ReleaseArrives, ReleaseTarget, InSuite
  <2>2. disk' \in [File -> Content] /\ release' \in 1..NumReleases
    BY <1>4, <2>1 DEF ReleaseArrives, TypeOK, InSuite, Content
  <2> QED
    BY <1>4, <2>1, <2>2
       DEF TypeOK, InSuite, HasRelease, HasFile, Stage, ReleaseArrives, stores, run
<1>5. CASE ReleaseFails
  <2>1. faults' \in 0..MaxFaults
    BY <1>5, FaultType DEF ReleaseFails, TypeOK
  <2>2. suite' \in 1..(NumSuites + 1)
    BY <1>5, LeaveSuiteType DEF ReleaseFails, TypeOK, InSuite
  <2>3. count' \in Count
    BY <1>5, CountedOnceType DEF ReleaseFails, TypeOK
  <2> QED
    BY <1>5, <2>1, <2>2, <2>3
       DEF TypeOK, InSuite, HasRelease, HasFile, Stage, ReleaseFails, LeaveSuite, stores, run
<1>6. CASE StoreRelease
  <2>1. file \in File /\ release \in Content
    BY <1>6, FileTypes DEF StoreRelease, HasFile, HasRelease, InSuite, Content
  <2>2. Upserted(file, release, release) \in [File -> Row]
    BY <1>6, <2>1, UpsertedType
  <2>3. row' \in [File -> Row] /\ faults' \in 0..MaxFaults /\ dbFailed' \in BOOLEAN
    BY <1>6, <2>2, CommitType DEF StoreRelease, TypeOK
  <2>4. suite' \in 1..(NumSuites + 1)
    BY <1>6, LeaveSuiteType DEF StoreRelease, TypeOK, InSuite
  <2>5. count' \in Count
    BY <1>6, CountedOnceType DEF StoreRelease, TypeOK
  <2> QED
    BY <1>6, <2>1, <2>2, <2>3, <2>4, <2>5
       DEF TypeOK, InSuite, HasRelease, HasFile, Stage, StoreRelease, LeaveSuite, stores, run
<1>7. CASE DecideIndexes
  <2>1. decision' \in [IndexPaths -> {"none", "skip", "download"}]
    BY <1>7 DEF DecideIndexes, TypeOK
  <2>2. entries' \in [Artifacts -> Packages \union {NoContent}]
    BY <1>7 DEF DecideIndexes, TypeOK, NoEntries
  <2> QED
    BY <1>7, <2>1, <2>2
       DEF TypeOK, InSuite, HasRelease, HasFile, Stage, DecideIndexes, stores, run
<1>8. ASSUME NEW i \in IndexPaths, SkipIndex(i) PROVE TypeInv'
  <2>1. entries' \in [Artifacts -> Packages \union {NoContent}]
    BY <1>8, FirstSeenType, ParsedType DEF SkipIndex, TypeOK
  <2>2. count' \in Count /\ decision' \in [IndexPaths -> {"none", "skip", "download"}]
    BY <1>8, CountedType DEF SkipIndex, TypeOK
  <2> QED
    BY <1>8, <2>1, <2>2
       DEF TypeOK, InSuite, HasRelease, HasFile, Stage, SkipIndex, stores, run
<1>9. ASSUME NEW i \in IndexPaths, IndexArrives(i) PROVE TypeInv'
  <2>1. Index(suite, i) \in File /\ ReleaseLists[suite][release][i] \in Content
    BY <1>9, FileTypes, ListedType DEF IndexArrives, InSuite, HasRelease, Content
  <2>2. disk' \in [File -> Content]
    BY <1>9, <2>1 DEF IndexArrives, TypeOK
  <2> QED
    BY <1>9, <2>1, <2>2
       DEF TypeOK, InSuite, HasRelease, HasFile, Stage, IndexArrives, stores, run
<1>10. ASSUME NEW i \in IndexPaths, StoreIndex(i) PROVE TypeInv'
  <2>1. file \in File /\ ReleaseLists[suite][release][i] \in Content /\ NoContent \in Content
    BY <1>10, FileTypes, ListedType DEF StoreIndex, InSuite, HasRelease, Content
  <2>2. Upserted(file, ReleaseLists[suite][release][i], NoContent) \in [File -> Row]
    BY <1>10, <2>1, UpsertedType
  <2>3. row' \in [File -> Row] /\ faults' \in 0..MaxFaults /\ dbFailed' \in BOOLEAN
    BY <1>10, <2>2, CommitType DEF StoreIndex
  <2>4. entries' \in [Artifacts -> Packages \union {NoContent}]
    BY <1>10, FirstSeenType, ParsedType DEF StoreIndex, TypeOK
  <2>5. count' \in Count /\ decision' \in [IndexPaths -> {"none", "skip", "download"}]
    BY <1>10, CountedType DEF StoreIndex, TypeOK
  <2> QED
    BY <1>10, <2>1, <2>2, <2>3, <2>4, <2>5
       DEF TypeOK, InSuite, HasRelease, HasFile, Stage, StoreIndex, stores, run
<1>11. ASSUME NEW i \in IndexPaths, IndexFails(i) PROVE TypeInv'
  <2>1. faults' \in 0..MaxFaults
    BY <1>11, FaultType DEF IndexFails, TypeOK
  <2>2. count' \in Count /\ decision' \in [IndexPaths -> {"none", "skip", "download"}]
    BY <1>11, CountedType DEF IndexFails, TypeOK
  <2> QED
    BY <1>11, <2>1, <2>2
       DEF TypeOK, InSuite, HasRelease, HasFile, Stage, IndexFails, stores, run
<1>12. CASE IndexesDone
  BY <1>12 DEF TypeOK, InSuite, HasRelease, HasFile, Stage, IndexesDone, stores, run
<1>13. CASE DecideArtifacts
  <2>1. queue' \in SUBSET Artifacts /\ result' \in [Artifacts -> {"none", "pending", "ok", "failed"}]
    BY <1>13 DEF DecideArtifacts, TypeOK
  <2>2. count' = count \/ \E S \in SUBSET Artifacts :
                              count' = [count EXCEPT !.skipped = @ + Cardinality(S)]
    BY <1>13 DEF DecideArtifacts
  <2>3. \A S \in SUBSET Artifacts : [count EXCEPT !.skipped = @ + Cardinality(S)] \in Count
    BY <1>13, Counts, CountedType DEF TypeOK
  <2>4. count \in Count
    BY DEF TypeOK
  <2>5. count' \in Count
    <3>1. CASE count' = count
      BY <2>4, <3>1
    <3>2. CASE \E S \in SUBSET Artifacts :
                  count' = [count EXCEPT !.skipped = @ + Cardinality(S)]
      <4>1. PICK S \in SUBSET Artifacts : count' = [count EXCEPT !.skipped = @ + Cardinality(S)]
        BY <3>2
      <4> QED
        BY <4>1, <2>3
    <3> QED
      BY <2>2, <3>1, <3>2
  <2> QED
    BY <1>13, <2>1, <2>5
       DEF TypeOK, InSuite, HasRelease, HasFile, Stage, DecideArtifacts, stores, run
<1>14. ASSUME NEW B \in SUBSET Artifacts, CreateRows(B) PROVE TypeInv'
  <2>1. \A f \in Pools(B) : entries[f[2]] \in Content
    BY <1>14, FileTypes DEF TypeOK, Content, Pools
  <2>2. \A f \in File : /\ row[f] \in Row
                         /\ f \in Pools(B) => Queued(row[f], entries[f[2]]) \in Row
    BY <1>14, <2>1, RowTypes DEF TypeOK
  <2>3. row' \in [File -> Row]
    BY <1>14, <2>2 DEF CreateRows, TypeOK
  <2>4. faults' \in 0..MaxFaults /\ dbFailed' \in BOOLEAN /\ queue' \in SUBSET Artifacts
    BY <1>14, FaultType DEF CreateRows, TypeOK
  <2> QED
    BY <1>14, <2>1, <2>2, <2>3, <2>4
       DEF TypeOK, InSuite, HasRelease, HasFile, Stage, CreateRows, stores, run
<1>15. ASSUME NEW a \in Artifacts, ArtifactArrives(a) PROVE TypeInv'
  <2>1. disk' \in [File -> Content]
    BY <1>15, FileTypes DEF ArtifactArrives, TypeOK, Content
  <2>2. result' \in [Artifacts -> {"none", "pending", "ok", "failed"}]
    BY <1>15 DEF ArtifactArrives, TypeOK
  <2> QED
    BY <1>15, <2>1, <2>2
       DEF TypeOK, InSuite, HasRelease, HasFile, Stage, ArtifactArrives, stores, run
<1>16. ASSUME NEW a \in Artifacts, ArtifactFails(a) PROVE TypeInv'
  <2>1. faults' \in 0..MaxFaults
    BY <1>16, FaultType DEF ArtifactFails, TypeOK
  <2>2. result' \in [Artifacts -> {"none", "pending", "ok", "failed"}]
    BY <1>16 DEF ArtifactFails, TypeOK
  <2> QED
    BY <1>16, <2>1, <2>2
       DEF TypeOK, InSuite, HasRelease, HasFile, Stage, ArtifactFails, stores, run
<1>17. CASE CollectResults
  <2>1. With("ok") \in SUBSET Artifacts /\ With("failed") \in SUBSET Artifacts
    BY <1>17 DEF With
  <2>2. Cardinality(With("ok")) \in Nat /\ Cardinality(With("failed")) \in Nat
    BY <1>17, <2>1, Counts
  <2>3. count' \in Count
    BY <1>17, <2>2, CountedType DEF CollectResults, TypeOK
  <2> QED
    BY <1>17, <2>1, <2>2, <2>3
       DEF TypeOK, InSuite, HasRelease, HasFile, Stage, CollectResults, stores, run
<1>18. ASSUME NEW B \in SUBSET Artifacts, MarkVerified(B) PROVE TypeInv'
  <2>1. \A f \in File : /\ row[f] \in Row
                         /\ [row[f] EXCEPT !.state = "VERIFIED", !.path = TRUE] \in Row
    BY <1>18, RowTypes DEF TypeOK
  <2>2. row' \in [File -> Row]
    BY <1>18, <2>1 DEF MarkVerified, TypeOK
  <2>3. faults' \in 0..MaxFaults /\ dbFailed' \in BOOLEAN /\ queue' \in SUBSET Artifacts
    BY <1>18, FaultType DEF MarkVerified, TypeOK
  <2> QED
    BY <1>18, <2>1, <2>2, <2>3
       DEF TypeOK, InSuite, HasRelease, HasFile, Stage, MarkVerified, stores, run
<1>19. CASE VerifiedDone
  <2>1. With("failed") \in SUBSET Artifacts
    BY <1>19 DEF With
  <2> QED
    BY <1>19, <2>1
       DEF TypeOK, InSuite, HasRelease, HasFile, Stage, VerifiedDone, stores, run
<1>20. ASSUME NEW B \in SUBSET Artifacts, MarkFailed(B) PROVE TypeInv'
  <2>1. \A f \in File : row[f] \in Row /\ Failed(row[f]) \in Row
    BY <1>20, RowTypes DEF TypeOK
  <2>2. row' \in [File -> Row]
    BY <1>20, <2>1 DEF MarkFailed, TypeOK
  <2>3. faults' \in 0..MaxFaults /\ dbFailed' \in BOOLEAN /\ queue' \in SUBSET Artifacts
    BY <1>20, FaultType DEF MarkFailed, TypeOK
  <2> QED
    BY <1>20, <2>1, <2>2, <2>3
       DEF TypeOK, InSuite, HasRelease, HasFile, Stage, MarkFailed, stores, run
<1>21. CASE FailedDone
  BY <1>21 DEF TypeOK, InSuite, HasRelease, HasFile, Stage, FailedDone, stores, run
<1>22. CASE DecidePublish
  <2>1. suite' \in 1..(NumSuites + 1)
    BY <1>22, LeaveSuiteType DEF DecidePublish, TypeOK, InSuite
  <2>2. result' \in [Artifacts -> {"none", "pending", "ok", "failed"}]
    BY <1>22 DEF DecidePublish, NoResult
  <2>3. release \in 0..NumReleases
    BY <1>22 DEF DecidePublish, HasRelease
  <2>4. handled' \in [Suites -> 0..NumReleases]
    BY <1>22, <2>3 DEF DecidePublish, TypeOK
  <2> QED
    BY <1>22, <2>1, <2>2, <2>3, <2>4
       DEF TypeOK, InSuite, HasRelease, HasFile, Stage, DecidePublish, LeaveSuite, stores, run
<1>23. CASE CommitSnapshot
  <2>1. suite' \in 1..(NumSuites + 1)
    BY <1>23, LeaveSuiteType DEF CommitSnapshot, InSuite
  <2>2. VerifiedRows \in SUBSET File /\ FailedRows \in SUBSET File
    BY <1>23 DEF VerifiedRows, FailedRows
  <2>3. snapshot' \in [verified : Nat, failed : Nat]
    BY <1>23, <2>2, Counts DEF CommitSnapshot
  <2> QED
    BY <1>23, <2>1, <2>2, <2>3
       DEF TypeOK, InSuite, HasRelease, HasFile, Stage, CommitSnapshot, LeaveSuite, stores, run
<1>24. CASE SnapshotFails
  <2>1. faults' \in 0..MaxFaults
    BY <1>24, FaultType DEF SnapshotFails, TypeOK
  <2> QED
    BY <1>24, <2>1
       DEF TypeOK, InSuite, HasRelease, HasFile, Stage, SnapshotFails, stores, run
<1>25. CASE Finish
  <2>1. faults' \in 0..MaxFaults
    BY <1>25, FaultType DEF Finish, TypeOK
  <2>2. Status \in {"completed", "partial", "failed", "cancelled"}
    BY <1>25 DEF Status, TypeOK, Count
  <2>3. session' \in [status : {"none", "completed", "partial", "failed", "cancelled"}, count : Count]
    BY <1>25, <2>2 DEF Finish, TypeOK
  <2> QED
    BY <1>25, <2>1, <2>2, <2>3
       DEF TypeOK, InSuite, HasRelease, HasFile, Stage, Finish, stores, run
<1>26. CASE EndRun
  <2>1. [f \in File |-> RolledBack(row[f])] \in [File -> Row]
    BY <1>26, RowTypes DEF TypeOK
  <2>2. row' \in [File -> Row] /\ faults' \in 0..MaxFaults /\ dbFailed' \in BOOLEAN
    BY <1>26, <2>1, CommitType DEF EndRun, TypeOK
  <2> QED
    BY <1>26, <2>1, <2>2, ResetType
       DEF TypeOK, InSuite, HasRelease, HasFile, Stage, EndRun, stores, run
<1>27. ASSUME NEW s \in Suites, Upstream(s) PROVE TypeInv'
  <2>1. remote' \in [Suites -> 1..NumReleases]
    BY <1>27, ReleasesAssumption DEF Upstream, TypeOK
  <2> QED
    BY <1>27, <2>1
       DEF TypeOK, InSuite, HasRelease, HasFile, Stage, Upstream, stores, run
<1>28. CASE Cancel
  <2>1. faults' \in 0..MaxFaults
    BY <1>28, FaultType DEF Cancel, TypeOK
  <2> QED
    BY <1>28, <2>1
       DEF TypeOK, InSuite, HasRelease, HasFile, Stage, Cancel, stores, run
<1>29. CASE Crash
  <2>1. faults' \in 0..MaxFaults
    BY <1>29, FaultType DEF Crash, TypeOK
  <2> QED
    BY <1>29, <2>1, ResetType
       DEF TypeOK, InSuite, HasRelease, HasFile, Stage, Crash, stores, run
<1>30. CASE Aborts
  <2>1. faults' \in 0..MaxFaults
    BY <1>30, FaultType DEF Aborts, TypeOK
  <2> QED
    BY <1>30, <2>1
       DEF TypeOK, InSuite, HasRelease, HasFile, Stage, Aborts, stores, run
<1>31. CASE StorageInitialize
  <2>1. row' \in [File -> Row] /\ disk' \in [File -> Content]
    BY <1>31, RowTypes DEF StorageInitialize, TypeOK, Content
  <2> QED
    BY <1>31, <2>1
       DEF TypeOK, InSuite, HasRelease, HasFile, Stage, StorageInitialize, stores, run
<1>32. ASSUME NEW f \in File \ Pools(Artifacts), MarkIndexed(f) PROVE TypeInv'
  <2>1. row' \in [File -> Row]
    BY <1>32, FileTypes, RowTypes DEF MarkIndexed, TypeOK
  <2> QED
    BY <1>32, <2>1
       DEF TypeOK, InSuite, HasRelease, HasFile, Stage, MarkIndexed, stores, run
<1>33. CASE UNCHANGED vars
  BY <1>33 DEF vars, stores, run, TypeOK, InSuite, HasRelease, HasFile
<1> QED
  BY <1>1, <1>2, <1>3, <1>4, <1>5, <1>6, <1>7, <1>8, <1>9, <1>10, <1>11, <1>12, <1>13, <1>14, <1>15, <1>16, <1>17, <1>18, <1>19, <1>20, <1>21, <1>22, <1>23, <1>24, <1>25, <1>26, <1>27, <1>28, <1>29, <1>30, <1>31, <1>32, <1>33
     DEF Next, SyncStep, ReleaseStage, IndexStage, ArtifactStage, PublishStage, Environment

(* Every reachable state has the shapes TypeOK names: in particular no count  *)
(* and no retry_count leaves the naturals, `suite' stays a position of the    *)
(* list or one past its end, and no row gets a state outside the enumeration. *)
THEOREM TypeCorrect == Spec => []TypeOK
<1>1. Spec => []TypeInv
  BY InitType, StepType, PTL DEF Spec
<1>2. TypeInv => TypeOK
  BY DEF TypeInv
<1> QED BY <1>1, <1>2, PTL

-----------------------------------------------------------------------------
(* The artifact pipeline.  That a VERIFIED package is on disk is inductive    *)
(* only together with what each stage of _stage_artifacts has already done.   *)

(* The package's row is the one this session queued. *)
InHand(a) == row[Pool(a)].state = "QUEUED" /\ row[Pool(a)].sha = entries[a]

(* While batch_create_repository_files runs, what has left the queue is in hand. *)
Queueing ==
  pc = "create" =>
    \A a \in Artifacts :
      /\ result[a] \in {"none", "pending"}
      /\ a \in queue => /\ result[a] = "pending"
                        /\ entries[a] # NoContent
                        /\ ~UpToDate(Pool(a), entries[a], {"VERIFIED", "INDEXED"})
      /\ (result[a] = "pending" /\ a \notin queue /\ ~dbFailed) => InHand(a)

(* While download_batch runs, every package of the batch is in hand. *)
Fetching ==
  (pc = "batch" /\ ~dbFailed) =>
    \A a \in Artifacts : result[a] # "none" =>
      InHand(a) /\ (result[a] = "ok" => disk[Pool(a)] = entries[a])

(* While batch_update_state runs, what it marks VERIFIED is in place. *)
Marking ==
  (pc = "mark_verified" /\ ~dbFailed) =>
    \A a \in Artifacts :
      /\ a \in queue => result[a] = "ok"
      /\ result[a] = "ok" => /\ row[Pool(a)].sha = entries[a]
                             /\ disk[Pool(a)] = entries[a]
      /\ result[a] = "failed" => InHand(a)

(* What batch_mark_failed is given was never VERIFIED. *)
Demoting ==
  (pc = "mark_failed" /\ ~dbFailed) =>
    \A a \in queue : row[Pool(a)].state = "QUEUED"

SafeInv == TypeInv /\ VerifiedIsOnDisk /\ Queueing /\ Fetching /\ Marking /\ Demoting

(* For a step that leaves the pipeline alone it is enough that no row of a  *)
(* package becomes VERIFIED or INDEXED, changes its digest while it is, or  *)
(* loses its file.                                                          *)
Kept ==
  \A a \in Artifacts : Claimed(Pool(a))' =>
    /\ Claimed(Pool(a))
    /\ row'[Pool(a)].sha = row[Pool(a)].sha
    /\ disk[Pool(a)] = row[Pool(a)].sha => disk'[Pool(a)] = disk[Pool(a)]

Busy == {"create", "batch", "mark_verified", "mark_failed"}

(* A step that keeps rows and files, and ends outside the artifact stage, is safe. *)
LEMMA QuietStep ==
  ASSUME SafeInv, TypeInv', Kept, pc' \notin Busy, dbFailed => dbFailed'
  PROVE  SafeInv'
<1>1. VerifiedIsOnDisk'
  BY DEF SafeInv, VerifiedIsOnDisk, Kept
<1>2. Queueing' /\ Fetching' /\ Marking' /\ Demoting'
  BY DEF Busy, Queueing, Fetching, Marking, Demoting
<1> QED BY <1>1, <1>2 DEF SafeInv

(* Nor does a step that leaves all of it as it is. *)
LEMMA IdleStep ==
  ASSUME SafeInv, TypeInv',
         \A a \in Artifacts : row'[Pool(a)] = row[Pool(a)] /\ disk'[Pool(a)] = disk[Pool(a)],
         UNCHANGED <<pc, entries, queue, result, dbFailed>>
  PROVE  SafeInv'
<1>1. VerifiedIsOnDisk'
  BY DEF SafeInv, VerifiedIsOnDisk, Claimed
<1>2. Queueing'
  BY DEF SafeInv, Queueing, UpToDate, InHand
<1>3. Fetching'
  BY DEF SafeInv, Fetching, InHand
<1>4. Marking'
  BY DEF SafeInv, Marking, InHand
<1>5. Demoting'
  BY DEF SafeInv, Demoting, TypeInv, TypeOK
<1> QED BY <1>1, <1>2, <1>3, <1>4, <1>5 DEF SafeInv

(* The safety invariant holds at the start. *)
LEMMA InitSafe == Init => SafeInv
<1> SUFFICES ASSUME Init PROVE SafeInv
  OBVIOUS
<1>1. TypeInv
  BY InitType
<1>2. VerifiedIsOnDisk
  BY FileTypes DEF Init, VerifiedIsOnDisk, Claimed, NoRow
<1>3. Queueing /\ Fetching /\ Marking /\ Demoting
  BY DEF Init, Queueing, Fetching, Marking, Demoting
<1> QED BY <1>1, <1>2, <1>3 DEF SafeInv

(* Storing a release or an index leaves the rows of the packages as they are. *)
LEMMA UpsertedElsewhere ==
  ASSUME TypeOK, NEW f, NEW c, NEW e, NEW a \in Artifacts, f # Pool(a)
  PROVE  Upserted(f, c, e)[Pool(a)] = row[Pool(a)]
BY FileTypes DEF Upserted, TypeOK

(* The stages before and after _stage_artifacts. *)
LEMMA StagesAreQuiet ==
  ASSUME SafeInv,
         \/ EnterSuite \/ CheckRelease \/ ReleaseArrives \/ ReleaseFails \/ StoreRelease
         \/ DecideIndexes \/ IndexesDone \/ FailedDone \/ DecidePublish \/ CommitSnapshot
         \/ SnapshotFails \/ Finish \/ Crash \/ Aborts
         \/ \E i \in IndexPaths :
              SkipIndex(i) \/ IndexArrives(i) \/ StoreIndex(i) \/ IndexFails(i)
  PROVE  /\ \A a \in Artifacts : row'[Pool(a)] = row[Pool(a)] /\ disk'[Pool(a)] = disk[Pool(a)]
         /\ pc' \notin Busy
         /\ dbFailed => dbFailed'
<1>0. TypeInv /\ TypeOK /\ InSuite /\ HasFile
  BY DEF SafeInv, TypeInv
<1>1. CASE EnterSuite
  BY <1>1 DEF EnterSuite, stores, Busy
<1>2. CASE CheckRelease
  BY <1>2 DEF CheckRelease, LeaveSuite, stores, Busy
<1>3. CASE ReleaseArrives
  <2>1. \A a \in Artifacts : ReleaseTarget # Pool(a)
    BY <1>0, <1>3, FilesDiffer DEF ReleaseArrives, ReleaseTarget, InSuite
  <2> QED BY <1>0, <1>3, <2>1, FileTypes DEF ReleaseArrives, TypeOK, Busy
<1>4. CASE ReleaseFails
  BY <1>4 DEF ReleaseFails, LeaveSuite, stores, Busy
<1>5. CASE StoreRelease
  <2>1. \A a \in Artifacts : file # Pool(a)
    BY <1>0, <1>5, FilesDiffer DEF StoreRelease, InSuite, HasFile
  <2> QED BY <1>0, <1>5, <2>1, UpsertedElsewhere DEF StoreRelease, Commit, LeaveSuite, Busy
<1>6. CASE DecideIndexes
  BY <1>6 DEF DecideIndexes, stores, Busy
<1>7. CASE IndexesDone
  BY <1>7 DEF IndexesDone, stores, Busy
<1>8. CASE FailedDone
  BY <1>8 DEF FailedDone, stores, Busy
<1>9. CASE DecidePublish
  BY <1>9 DEF DecidePublish, LeaveSuite, stores, Busy
<1>10. CASE CommitSnapshot
  BY <1>10 DEF CommitSnapshot, LeaveSuite, Busy
<1>11. CASE SnapshotFails
  BY <1>11 DEF SnapshotFails, stores, Busy
<1>12. CASE Finish
  BY <1>12 DEF Finish, Busy
<1>13. CASE Crash
  BY <1>13 DEF Crash, stores, Busy
<1>14. CASE Aborts
  BY <1>14 DEF Aborts, stores, Busy
<1>15. ASSUME NEW i \in IndexPaths, SkipIndex(i)
       PROVE  /\ \A a \in Artifacts : row'[Pool(a)] = row[Pool(a)] /\ disk'[Pool(a)] = disk[Pool(a)]
              /\ pc' \notin Busy /\ dbFailed' = dbFailed
  BY <1>15 DEF SkipIndex, stores, Busy
<1>16. ASSUME NEW i \in IndexPaths, IndexArrives(i)
       PROVE  /\ \A a \in Artifacts : row'[Pool(a)] = row[Pool(a)] /\ disk'[Pool(a)] = disk[Pool(a)]
              /\ pc' \notin Busy /\ dbFailed' = dbFailed
  <2>1. \A a \in Artifacts : Index(suite, i) # Pool(a)
    BY <1>0, <1>16, FilesDiffer DEF IndexArrives, InSuite
  <2> QED BY <1>0, <1>16, <2>1, FileTypes DEF IndexArrives, TypeOK, Busy
<1>17. ASSUME NEW i \in IndexPaths, StoreIndex(i)
       PROVE  /\ \A a \in Artifacts : row'[Pool(a)] = row[Pool(a)] /\ disk'[Pool(a)] = disk[Pool(a)]
              /\ pc' \notin Busy
              /\ dbFailed => dbFailed'
  <2>1. \A a \in Artifacts : file # Pool(a)
    BY <1>0, <1>17, FilesDiffer DEF StoreIndex, InSuite
  <2> QED BY <1>0, <1>17, <2>1, UpsertedElsewhere DEF StoreIndex, Commit, Busy
<1>18. ASSUME NEW i \in IndexPaths, IndexFails(i)
       PROVE  /\ \A a \in Artifacts : row'[Pool(a)] = row[Pool(a)] /\ disk'[Pool(a)] = disk[Pool(a)]
              /\ pc' \notin Busy /\ dbFailed' = dbFailed
  BY <1>18 DEF IndexFails, stores, Busy
<1> QED
  BY <1>1, <1>2, <1>3, <1>4, <1>5, <1>6, <1>7, <1>8, <1>9, <1>10, <1>11, <1>12, <1>13,
     <1>14, <1>15, <1>16, <1>17, <1>18

(* The sweeps over all rows bring no package to VERIFIED. *)
LEMMA SweepsKeep ==
  ASSUME SafeInv, StartSession \/ EndRun \/ StorageInitialize
  PROVE  Kept /\ pc' \notin Busy /\ (dbFailed => dbFailed')
<1>0. TypeOK
  BY DEF SafeInv, TypeInv
<1>1. CASE StartSession
  <2>1. \A a \in Artifacts : Claimed(Pool(a))' => row'[Pool(a)] = row[Pool(a)]
    BY <1>0, <1>1, FileTypes DEF StartSession, Commit, Claimed, TypeOK, Row
  <2> QED BY <1>1, <2>1 DEF StartSession, Commit, Kept, Claimed, Busy
<1>2. CASE EndRun
  <2>1. \A r \in Row : RolledBack(r).state \in {"VERIFIED", "INDEXED"} => RolledBack(r) = r
    BY DEF RolledBack, Row
  <2>2. \A a \in Artifacts : Claimed(Pool(a))' => row'[Pool(a)] = row[Pool(a)]
    BY <1>0, <1>2, <2>1, FileTypes DEF EndRun, Commit, Claimed, TypeOK
  <2> QED BY <1>2, <2>2 DEF EndRun, Commit, Kept, Claimed, Busy
<1>3. CASE StorageInitialize
  <2>1. \A r \in Row : Recovered(r).state \in {"VERIFIED", "INDEXED"} => Recovered(r) = r
    BY DEF Recovered, Row
  <2>2. \A a \in Artifacts : Claimed(Pool(a))' => row'[Pool(a)] = row[Pool(a)]
    BY <1>0, <1>3, <2>1, FileTypes DEF StorageInitialize, Claimed, TypeOK
  <2>3. \A a \in Artifacts : disk[Pool(a)] = row[Pool(a)].sha => disk'[Pool(a)] = disk[Pool(a)]
    BY <1>0, <1>3, FileTypes DEF StorageInitialize, TypeOK
  <2> QED BY <1>3, <2>2, <2>3 DEF StorageInitialize, Kept, Claimed, Busy
<1> QED BY <1>1, <1>2, <1>3

(* What a step of _stage_artifacts does to the queued rows. *)
LEMMA ArtifactStageSafe ==
  ASSUME SafeInv, TypeInv', ArtifactStage
  PROVE  SafeInv'
<1>0. TypeOK /\ VerifiedIsOnDisk /\ Queueing /\ Fetching /\ Marking /\ Demoting
  BY DEF SafeInv, TypeInv
<1>1. CASE DecideArtifacts
  <2>1. VerifiedIsOnDisk'
    BY <1>0, <1>1 DEF DecideArtifacts, VerifiedIsOnDisk, Claimed, stores
  <2>2. Queueing'
    BY <1>0, <1>1 DEF DecideArtifacts, Queueing, UpToDate, stores
  <2>3. Fetching' /\ Marking' /\ Demoting'
    BY <1>1 DEF DecideArtifacts, Fetching, Marking, Demoting
  <2> QED BY <2>1, <2>2, <2>3 DEF SafeInv
<1>2. ASSUME NEW B \in SUBSET Artifacts, CreateRows(B)  PROVE SafeInv'
  <2>1. CASE dbFailed'
    <3>1. VerifiedIsOnDisk' /\ Fetching' /\ Marking' /\ Demoting'
      BY <2>1 DEF VerifiedIsOnDisk, Fetching, Marking, Demoting
    <3>2. Queueing'
      <4>1. \A a \in Artifacts : a \in queue' =>
              a \in queue /\ (row[Pool(a)] = row'[Pool(a)])
        BY <1>0, <1>2, FileTypes, PoolsDiffer DEF CreateRows, TypeOK
      <4> QED BY <1>0, <1>2, <2>1, <4>1 DEF CreateRows, Queueing, UpToDate
    <3> QED BY <3>1, <3>2 DEF SafeInv
  <2>2. CASE ~dbFailed'
    <3>1. /\ ~dbFailed
          /\ \A a \in B : row'[Pool(a)] = Queued(row[Pool(a)], entries[a])
          /\ \A a \in Artifacts \ B : row'[Pool(a)] = row[Pool(a)]
          /\ B \subseteq queue
          /\ queue' = queue \ B
          /\ pc' = (IF queue = B THEN "batch" ELSE "create")
      <4>1. /\ row' = [f \in File |-> IF f \in Pools(B)
                                    THEN Queued(row[f], entries[f[2]]) ELSE row[f]]
            /\ queue' = queue \ B
            /\ pc' = (IF queue = B THEN "batch" ELSE "create")
            /\ UNCHANGED dbFailed
        BY <1>2, <2>2 DEF CreateRows
      <4>2. \A a \in Artifacts : Pool(a) \in File /\ Pool(a)[2] = a
        BY FileTypes
      <4>3. B \subseteq queue
        BY <1>2 DEF CreateRows, Batch
      <4>4. \A a \in B : row'[Pool(a)] = Queued(row[Pool(a)], entries[a])
        BY <4>1, <4>2, PoolsDiffer
      <4>5. \A a \in Artifacts \ B : row'[Pool(a)] = row[Pool(a)]
        BY <4>1, <4>2, PoolsDiffer
      <4> QED BY <2>2, <4>1, <4>3, <4>4, <4>5
    <3>2. \A a \in B : row'[Pool(a)].state = "QUEUED" /\ row'[Pool(a)].sha = entries[a]
      <4>1. \A r \in Row : \A c : Queued(r, c).state = "QUEUED" /\ Queued(r, c).sha = c
        BY DEF Queued, Row
      <4>2. \A a \in B : row[Pool(a)] \in Row
        BY <1>0, <1>2, FileTypes DEF TypeOK
      <4> QED BY <3>1, <4>1, <4>2
    <3>3. pc = "create" /\ UNCHANGED <<disk, entries, result>>
      BY <1>2 DEF CreateRows
    <3>4. VerifiedIsOnDisk'
      BY <1>0, <3>1, <3>2, <3>3 DEF VerifiedIsOnDisk, Claimed
    <3>5. Queueing'
      BY <1>0, <3>1, <3>2, <3>3 DEF Queueing, UpToDate, InHand
    <3>6. Fetching'
      BY <1>0, <3>1, <3>2, <3>3 DEF Queueing, Fetching, InHand
    <3>7. Marking' /\ Demoting'
      BY <3>1 DEF Marking, Demoting
    <3> QED BY <3>4, <3>5, <3>6, <3>7 DEF SafeInv
  <2> QED BY <2>1, <2>2
<1>3. ASSUME NEW a \in Artifacts, ArtifactArrives(a)  PROVE SafeInv'
  <2>1. /\ pc = "batch" /\ result[a] = "pending"
        /\ disk'[Pool(a)] = entries[a]
        /\ \A b \in Artifacts : b # a => disk'[Pool(b)] = disk[Pool(b)] /\ result'[b] = result[b]
        /\ UNCHANGED <<pc, row, entries, queue, dbFailed>>
    BY <1>0, <1>3, FileTypes, PoolsDiffer DEF ArtifactArrives, TypeOK
  <2>2. VerifiedIsOnDisk'
    BY <1>0, <2>1 DEF VerifiedIsOnDisk, Fetching, InHand, Claimed
  <2>3. Fetching'
    BY <1>0, <2>1 DEF Fetching, InHand
  <2>4. Queueing' /\ Marking' /\ Demoting'
    BY <2>1 DEF Queueing, Marking, Demoting
  <2> QED BY <2>2, <2>3, <2>4 DEF SafeInv
<1>4. ASSUME NEW a \in Artifacts, ArtifactFails(a)  PROVE SafeInv'
  <2>1. /\ pc = "batch" /\ result[a] = "pending" /\ result'[a] = "failed"
        /\ \A b \in Artifacts : b # a => result'[b] = result[b]
        /\ UNCHANGED <<pc, row, disk, entries, queue, dbFailed>>
    BY <1>0, <1>4 DEF ArtifactFails, TypeOK, stores
  <2>2. VerifiedIsOnDisk'
    BY <1>0, <2>1 DEF VerifiedIsOnDisk, Claimed
  <2>3. Fetching'
    BY <1>0, <2>1 DEF Fetching, InHand
  <2>4. Queueing' /\ Marking' /\ Demoting'
    BY <2>1 DEF Queueing, Marking, Demoting
  <2> QED BY <2>2, <2>3, <2>4 DEF SafeInv
<1>5. CASE CollectResults
  <2>1. VerifiedIsOnDisk'
    BY <1>0, <1>5 DEF CollectResults, VerifiedIsOnDisk, Claimed, stores
  <2>2. Marking'
    BY <1>0, <1>5 DEF CollectResults, With, Marking, Fetching, InHand, stores
  <2>3. Queueing' /\ Fetching' /\ Demoting'
    BY <1>5 DEF CollectResults, Queueing, Fetching, Demoting
  <2> QED BY <2>1, <2>2, <2>3 DEF SafeInv
<1>6. ASSUME NEW B \in SUBSET Artifacts, MarkVerified(B)  PROVE SafeInv'
  <2>1. CASE dbFailed'
    <3>1. VerifiedIsOnDisk' /\ Fetching' /\ Marking' /\ Demoting'
      BY <2>1 DEF VerifiedIsOnDisk, Fetching, Marking, Demoting
    <3>2. Queueing'
      BY <1>6 DEF MarkVerified, Queueing
    <3> QED BY <3>1, <3>2 DEF SafeInv
  <2>2. CASE ~dbFailed'
    <3>1. /\ ~dbFailed
          /\ pc = "mark_verified" /\ UNCHANGED <<pc, disk, entries, result>>
          /\ B \subseteq queue /\ queue' = queue \ B
      <4>1. UNCHANGED dbFailed /\ queue' = queue \ B
        BY <1>6, <2>2 DEF MarkVerified
      <4> QED BY <1>6, <2>2, <4>1 DEF MarkVerified, Batch
    <3>2. \A a \in Artifacts :
            /\ row'[Pool(a)].sha = row[Pool(a)].sha
            /\ a \notin B => row'[Pool(a)] = row[Pool(a)]
      <4>1. row' = [f \in File |->
                      IF f \in Pools(B) /\ row[f].state # "ABSENT"
                      THEN [row[f] EXCEPT !.state = "VERIFIED", !.path = TRUE] ELSE row[f]]
        BY <1>6, <2>2 DEF MarkVerified
      <4>2. \A a \in Artifacts : Pool(a) \in File /\ row[Pool(a)] \in Row
        BY <1>0, FileTypes DEF TypeOK
      <4>3. \A r \in Row : [r EXCEPT !.state = "VERIFIED", !.path = TRUE].sha = r.sha
        BY DEF Row
      <4> QED BY <4>1, <4>2, <4>3, PoolsDiffer
    <3>3. VerifiedIsOnDisk'
      BY <1>0, <3>1, <3>2 DEF VerifiedIsOnDisk, Marking, Claimed
    <3>4. Marking'
      BY <1>0, <3>1, <3>2 DEF Marking, InHand
    <3>5. Queueing' /\ Fetching' /\ Demoting'
      BY <3>1 DEF Queueing, Fetching, Demoting
    <3> QED BY <3>3, <3>4, <3>5 DEF SafeInv
  <2> QED BY <2>1, <2>2
<1>7. CASE VerifiedDone
  <2>1. VerifiedIsOnDisk'
    BY <1>0, <1>7 DEF VerifiedDone, VerifiedIsOnDisk, Claimed, stores
  <2>2. Demoting'
    BY <1>0, <1>7 DEF VerifiedDone, With, Marking, Demoting, InHand, stores
  <2>3. Queueing' /\ Fetching' /\ Marking'
    BY <1>7 DEF VerifiedDone, Queueing, Fetching, Marking
  <2> QED BY <2>1, <2>2, <2>3 DEF SafeInv
<1>8. ASSUME NEW B \in SUBSET Artifacts, MarkFailed(B)  PROVE SafeInv'
  <2>1. CASE dbFailed'
    <3>1. VerifiedIsOnDisk' /\ Fetching' /\ Marking' /\ Demoting'
      BY <2>1 DEF VerifiedIsOnDisk, Fetching, Marking, Demoting
    <3>2. Queueing'
      BY <1>8 DEF MarkFailed, Queueing
    <3> QED BY <3>1, <3>2 DEF SafeInv
  <2>2. CASE ~dbFailed'
    <3>1. /\ ~dbFailed
          /\ pc = "mark_failed" /\ UNCHANGED <<pc, disk, entries, result>>
          /\ B \subseteq queue /\ queue' = queue \ B
      BY <1>8, <2>2 DEF MarkFailed, Batch
    <3>2. \A r \in Row : Failed(r).state \notin {"VERIFIED", "INDEXED"}
      BY DEF Failed, Row
    <3>3. \A a \in Artifacts :
            /\ Claimed(Pool(a))' => row'[Pool(a)] = row[Pool(a)]
            /\ a \notin B => row'[Pool(a)] = row[Pool(a)]
      BY <1>0, <1>8, <2>2, <3>2, FileTypes, PoolsDiffer DEF MarkFailed, TypeOK, Claimed
    <3>4. VerifiedIsOnDisk'
      BY <1>0, <3>1, <3>3 DEF VerifiedIsOnDisk, Claimed
    <3>5. Demoting'
      BY <1>0, <3>1, <3>3 DEF Demoting, TypeOK
    <3>6. Queueing' /\ Fetching' /\ Marking'
      BY <3>1 DEF Queueing, Fetching, Marking
    <3> QED BY <3>4, <3>5, <3>6 DEF SafeInv
  <2> QED BY <2>1, <2>2
<1>9. CASE FailedDone
  BY <1>9, StagesAreQuiet, QuietStep DEF Kept, Claimed
<1> QED
  BY <1>1, <1>2, <1>3, <1>4, <1>5, <1>6, <1>7, <1>8, <1>9 DEF ArtifactStage

(* Every step preserves the safety invariant. *)
LEMMA StepSafe == SafeInv /\ [Next]_vars => SafeInv'
<1> SUFFICES ASSUME SafeInv, [Next]_vars PROVE SafeInv'
  OBVIOUS
<1>0. TypeInv' /\ TypeOK
  BY StepType DEF SafeInv, TypeInv
<1>1. CASE \/ EnterSuite \/ ReleaseStage \/ IndexStage \/ PublishStage \/ Finish
           \/ Crash \/ Aborts
  BY <1>0, <1>1, StagesAreQuiet, QuietStep
     DEF ReleaseStage, IndexStage, PublishStage, Kept, Claimed
<1>2. CASE StartSession \/ EndRun \/ StorageInitialize
  BY <1>0, <1>2, SweepsKeep, QuietStep
<1>3. CASE ArtifactStage
  BY <1>0, <1>3, ArtifactStageSafe
<1>4. CASE Cancel
  BY <1>0, <1>4, IdleStep DEF Cancel, stores, run
<1>5. ASSUME NEW s \in Suites, Upstream(s)  PROVE SafeInv'
  BY <1>0, <1>5, IdleStep DEF Upstream, run
<1>6. ASSUME NEW f \in File \ Pools(Artifacts), MarkIndexed(f)  PROVE SafeInv'
  <2>1. \A a \in Artifacts : row'[Pool(a)] = row[Pool(a)]
    BY <1>0, <1>6, FileTypes, FilesDiffer DEF MarkIndexed, TypeOK, Pools
  <2> QED BY <1>0, <1>6, <2>1, IdleStep DEF MarkIndexed, run
<1>7. CASE UNCHANGED vars
  BY <1>0, <1>7, IdleStep DEF vars, stores, run
<1> QED
  BY <1>1, <1>2, <1>3, <1>4, <1>5, <1>6, <1>7 DEF Next, SyncStep, Environment

(* So it holds in every reachable state. *)
LEMMA AlwaysSafe == Spec => []SafeInv
BY InitSafe, StepSafe, PTL DEF Spec

(* The mirror never vouches for a package it does not hold: whatever crashes, *)
(* cancellations, aborts, integrity scans and upstream releases come between, *)
(* a VERIFIED or INDEXED row has exactly its digest on disk.                  *)
THEOREM VerifiedOnDisk == Spec => []VerifiedIsOnDisk
<1>1. SafeInv => VerifiedIsOnDisk
  BY DEF SafeInv
<1> QED BY <1>1, AlwaysSafe, PTL

(* A package's file is replaced only while its row is QUEUED. *)
THEOREM UntouchedWhileVerified == Spec => VerifiedUntouched
<1>1. SafeInv /\ [Next]_vars =>
        [~dbFailed =>
           \A a \in Artifacts : disk'[Pool(a)] \notin {disk[Pool(a)], NoContent} =>
             row[Pool(a)].state = "QUEUED"]_vars
  <2> SUFFICES ASSUME SafeInv, Next, ~dbFailed, NEW a \in Artifacts,
                      disk'[Pool(a)] \notin {disk[Pool(a)], NoContent}
               PROVE  row[Pool(a)].state = "QUEUED"
    OBVIOUS
  <2>0. TypeOK /\ Fetching
    BY DEF SafeInv, TypeInv
  <2>1. ASSUME NEW b \in Artifacts, ArtifactArrives(b)
        PROVE  row[Pool(a)].state = "QUEUED"
    <3>1. a = b
      BY <2>0, <2>1, FileTypes, PoolsDiffer DEF ArtifactArrives, TypeOK
    <3> QED BY <2>0, <2>1, <3>1 DEF ArtifactArrives, Fetching, InHand
  <2>2. CASE StorageInitialize
    BY <2>0, <2>2, FileTypes DEF StorageInitialize, TypeOK
  <2>3. CASE \/ EnterSuite \/ ReleaseStage \/ IndexStage \/ PublishStage \/ Finish
             \/ Crash \/ Aborts
    BY <2>3, StagesAreQuiet DEF ReleaseStage, IndexStage, PublishStage
  <2>4. ASSUME UNCHANGED disk  PROVE FALSE
    BY <2>4
  <2>5. CASE StartSession \/ EndRun \/ Cancel
    BY <2>4, <2>5 DEF StartSession, EndRun, Cancel, stores
  <2>6. CASE \/ \E s \in Suites : Upstream(s)
             \/ \E f \in File \ Pools(Artifacts) : MarkIndexed(f)
    BY <2>4, <2>6 DEF Upstream, MarkIndexed
  <2>7. CASE ArtifactStage
    <3>1. CASE DecideArtifacts \/ CollectResults \/ VerifiedDone \/ FailedDone
      BY <2>4, <3>1 DEF DecideArtifacts, CollectResults, VerifiedDone, FailedDone, stores
    <3>2. ASSUME NEW b \in Artifacts, ArtifactFails(b)  PROVE FALSE
      BY <2>4, <3>2 DEF ArtifactFails, stores
    <3>3. ASSUME NEW B \in SUBSET Artifacts, CreateRows(B) \/ MarkVerified(B) \/ MarkFailed(B)
          PROVE  FALSE
      BY <2>4, <3>3 DEF CreateRows, MarkVerified, MarkFailed
    <3> QED BY <2>1, <2>7, <3>1, <3>2, <3>3 DEF ArtifactStage
  <2> QED
    BY <2>2, <2>3, <2>5, <2>6, <2>7 DEF Next, SyncStep, Environment
<1> QED BY <1>1, AlwaysSafe, PTL DEF Spec, VerifiedUntouched

(* A package leaves VERIFIED only for a release that lists another digest. *)
THEOREM VerifiedKept == Spec => VerifiedStaysVerified
<1>1. SafeInv /\ [Next]_vars =>
        [~dbFailed =>
           \A a \in Artifacts : (Claimed(Pool(a)) /\ ~Claimed(Pool(a))') =>
             pc = "create" /\ entries[a] \notin {NoContent, row[Pool(a)].sha}]_vars
  <2> SUFFICES ASSUME SafeInv, Next, ~dbFailed, NEW a \in Artifacts,
                      Claimed(Pool(a)), ~Claimed(Pool(a))'
               PROVE  pc = "create" /\ entries[a] \notin {NoContent, row[Pool(a)].sha}
    OBVIOUS
  <2>0. TypeOK /\ Queueing /\ Demoting
    BY DEF SafeInv, TypeInv
  <2>1. ASSUME row'[Pool(a)] = row[Pool(a)]  PROVE FALSE
    BY <2>1 DEF Claimed
  <2>2. CASE StartSession
    BY <2>0, <2>1, <2>2, FileTypes DEF StartSession, Commit, TypeOK, Claimed
  <2>3. CASE EndRun
    <3>1. RolledBack(row[Pool(a)]) = row[Pool(a)]
      BY DEF RolledBack, Claimed
    <3> QED BY <2>0, <2>1, <2>3, <3>1, FileTypes DEF EndRun, Commit, TypeOK
  <2>4. CASE StorageInitialize
    BY <2>0, <2>1, <2>4, FileTypes DEF StorageInitialize, Recovered, TypeOK, Claimed
  <2>5. CASE \/ EnterSuite \/ ReleaseStage \/ IndexStage \/ PublishStage \/ Finish
             \/ Crash \/ Aborts
    BY <2>1, <2>5, StagesAreQuiet DEF ReleaseStage, IndexStage, PublishStage
  <2>6. CASE Cancel \/ \E s \in Suites : Upstream(s)
    BY <2>1, <2>6 DEF Cancel, Upstream, stores
  <2>7. ASSUME NEW f \in File \ Pools(Artifacts), MarkIndexed(f)  PROVE FALSE
    BY <2>0, <2>1, <2>7, FileTypes, FilesDiffer DEF MarkIndexed, TypeOK, Pools
  <2>8. CASE ArtifactStage
    <3>1. ASSUME NEW B \in SUBSET Artifacts, CreateRows(B)
          PROVE  pc = "create" /\ entries[a] \notin {NoContent, row[Pool(a)].sha}
      <4>1. a \in queue
        BY <2>0, <2>1, <3>1, FileTypes, PoolsDiffer DEF CreateRows, Batch, TypeOK
      <4> QED BY <2>0, <3>1, <4>1 DEF CreateRows, Queueing, UpToDate, Claimed
    <3>2. ASSUME NEW B \in SUBSET Artifacts, MarkVerified(B)  PROVE FALSE
      <4>1. \A r \in Row : [r EXCEPT !.state = "VERIFIED", !.path = TRUE].state = "VERIFIED"
        BY DEF Row
      <4>2. row[Pool(a)] \in Row /\ Pool(a) \in File
        BY <2>0, FileTypes DEF TypeOK
      <4>3. row'[Pool(a)] = row[Pool(a)] \/ row'[Pool(a)].state = "VERIFIED"
        BY <3>2, <4>1, <4>2 DEF MarkVerified
      <4> QED BY <2>1, <4>3 DEF Claimed
    <3>3. ASSUME NEW B \in SUBSET Artifacts, MarkFailed(B)  PROVE FALSE
      <4>1. a \notin queue
        BY <2>0, <3>3 DEF MarkFailed, Demoting, Claimed
      <4>2. row'[Pool(a)] = row[Pool(a)]
        BY <2>0, <3>3, <4>1, FileTypes, PoolsDiffer DEF MarkFailed, Batch, TypeOK
      <4> QED BY <2>1, <4>2
    <3>4. ASSUME NEW b \in Artifacts, ArtifactArrives(b) \/ ArtifactFails(b)  PROVE FALSE
      BY <2>1, <3>4 DEF ArtifactArrives, ArtifactFails, stores
    <3>5. CASE DecideArtifacts \/ CollectResults \/ VerifiedDone \/ FailedDone
      BY <2>1, <3>5 DEF DecideArtifacts, CollectResults, VerifiedDone, FailedDone, stores
    <3> QED BY <2>8, <3>1, <3>2, <3>3, <3>4, <3>5 DEF ArtifactStage
  <2> QED
    BY <2>2, <2>3, <2>4, <2>5, <2>6, <2>7, <2>8 DEF Next, SyncStep, Environment
<1> QED BY <1>1, AlwaysSafe, PTL DEF Spec, VerifiedStaysVerified

-----------------------------------------------------------------------------
(* The conditional request.  Upstream only moves forward; the file on disk is *)
(* never newer than upstream, and the stored etag never newer than the file:  *)
(* an etag that matches upstream therefore pins the file between the two.     *)

Ordered(s) ==
  LET f == InRelease(s)
  IN  /\ disk[f] # NoContent => disk[f] \in 1..remote[s]
      /\ row[f].etag # NoContent =>
           /\ row[f].etag \in 1..remote[s]
           /\ disk[f] # NoContent => row[f].etag <= disk[f]
      /\ (pc = "store_release" /\ file = f) => release = disk[f]

OrderInv == TypeInv /\ \A s \in Suites : Ordered(s)

(* The order of releases holds at the start. *)
LEMMA InitOrdered == Init => OrderInv
<1> SUFFICES ASSUME Init PROVE OrderInv
  OBVIOUS
<1>1. TypeInv
  BY InitType
<1>2. \A s \in Suites : Ordered(s)
  BY FileTypes DEF Init, Ordered, NoRow
<1> QED BY <1>1, <1>2 DEF OrderInv

(* A step that neither stores a release nor fetches one. *)
LEMMA OrderKept ==
  ASSUME OrderInv, TypeInv', NEW s \in Suites,
         remote'[s] >= remote[s],
         row'[InRelease(s)].etag = row[InRelease(s)].etag,
         disk'[InRelease(s)] \in {disk[InRelease(s)], NoContent},
         \/ pc' # "store_release"
         \/ UNCHANGED <<pc, file, release, disk>>
  PROVE  Ordered(s)'
<1>1. remote[s] \in Nat /\ remote'[s] \in Nat
  BY DEF OrderInv, TypeInv, TypeOK
<1> QED BY <1>1 DEF OrderInv, Ordered

(* An InRelease file is no other file. *)
LEMMA InReleaseDiffers ==
  ASSUME NEW s \in Suites
  PROVE  /\ \A t \in Suites : InRelease(s) # Release(t) /\ (InRelease(s) = InRelease(t) <=> s = t)
         /\ \A t \in Suites, i \in IndexPaths : InRelease(s) # Index(t, i)
         /\ \A B \in SUBSET Artifacts : InRelease(s) \notin Pools(B)
BY DEF InRelease, Release, Index, Pools, Pool

(* Every step keeps the order of one suite's releases. *)
LEMMA SuiteOrdered ==
  ASSUME OrderInv, [Next]_vars, NEW s \in Suites
  PROVE  Ordered(s)'
<1> DEFINE f == InRelease(s)
<1>a. TypeInv /\ TypeOK /\ InSuite /\ HasFile
  BY DEF OrderInv, TypeInv
<1>b. TypeInv'
  BY <1>a, StepType
<1>c. f \in File
  BY FileTypes
<1>d. remote[s] \in 1..NumReleases
  BY <1>a DEF TypeOK
<1>e. remote[s] >= remote[s]
  BY <1>d, ReleasesAssumption
<1>0. /\ TypeInv' /\ TypeOK /\ InSuite /\ HasFile /\ f \in File
      /\ remote[s] \in 1..NumReleases /\ remote[s] >= remote[s]
  BY <1>a, <1>b, <1>c, <1>d, <1>e
<1> HIDE DEF f
<1>1. CASE ReleaseArrives
  <2>1. CASE ReleaseTarget = f
    <3>1. /\ disk'[f] = remote[s] /\ release' = remote[s]
          /\ UNCHANGED <<remote, row>>
      BY <1>0, <1>1, <2>1, InReleaseDiffers
         DEF ReleaseArrives, ReleaseTarget, TypeOK, InSuite, f
    <3> QED BY <1>0, <3>1 DEF OrderInv, Ordered, f
  <2>2. CASE ReleaseTarget # f
    <3>1. disk'[f] = disk[f] /\ file' # f /\ UNCHANGED <<remote, row>>
      BY <1>0, <1>1, <2>2 DEF ReleaseArrives, TypeOK
    <3> QED BY <1>0, <3>1 DEF OrderInv, Ordered, f
  <2> QED BY <2>1, <2>2
<1>2. CASE StoreRelease
  <2>1. pc' # "store_release" /\ UNCHANGED <<remote, disk>>
    BY <1>2 DEF StoreRelease, LeaveSuite
  <2>2. CASE row'[f].etag = row[f].etag
    BY <1>0, <2>1, <2>2, OrderKept DEF f
  <2>3. CASE row'[f].etag # row[f].etag
    <3>1. row' = Upserted(file, release, release)
      BY <1>2, <2>3 DEF StoreRelease, Commit
    <3>2. file = f
      BY <1>0, <2>3, <3>1 DEF Upserted, TypeOK
    <3>3. row'[f].etag = release
      BY <1>0, <2>3, <3>1, <3>2 DEF Upserted, TypeOK, Row
    <3>4. release = disk[f] /\ release \in 1..NumReleases
      BY <1>2, <3>2 DEF OrderInv, TypeInv, Ordered, StoreRelease, HasRelease, f
    <3>5. release # NoContent
      BY <3>4, ContentAssumption
    <3> QED BY <1>0, <2>1, <3>3, <3>4, <3>5 DEF OrderInv, Ordered, f
  <2> QED BY <2>2, <2>3
<1>3. CASE \/ EnterSuite \/ CheckRelease \/ ReleaseFails \/ DecideIndexes \/ IndexesDone
           \/ DecideArtifacts \/ CollectResults \/ VerifiedDone \/ FailedDone
           \/ PublishStage \/ Finish \/ Crash \/ Aborts
  <2>1. pc' # "store_release" /\ UNCHANGED <<remote, disk, row>>
    BY <1>3 DEF EnterSuite, CheckRelease, ReleaseFails, DecideIndexes, IndexesDone,
         DecideArtifacts, CollectResults, VerifiedDone, FailedDone, PublishStage,
         DecidePublish, CommitSnapshot, SnapshotFails, Finish, Crash, Aborts, LeaveSuite, stores
  <2> QED BY <1>0, <2>1, OrderKept
<1>4. CASE StartSession \/ EndRun \/ StorageInitialize
  <2>1. \A r \in Row : RolledBack(r).etag = r.etag /\ Recovered(r).etag = r.etag
    BY DEF RolledBack, Recovered, Row
  <2>2. row[f] \in Row
    BY <1>0 DEF TypeOK
  <2>3. row'[f].etag = row[f].etag
    BY <1>0, <1>4, <2>1, <2>2 DEF StartSession, EndRun, StorageInitialize, Commit, Row
  <2>4. /\ pc' # "store_release" /\ UNCHANGED remote
        /\ disk'[f] \in {disk[f], NoContent}
    BY <1>0, <1>4 DEF StartSession, EndRun, StorageInitialize
  <2> QED BY <1>0, <2>3, <2>4, OrderKept DEF f
<1>5. ASSUME NEW i \in IndexPaths,
             SkipIndex(i) \/ IndexArrives(i) \/ StoreIndex(i) \/ IndexFails(i)
      PROVE  Ordered(s)'
  <2>1. pc' # "store_release" /\ UNCHANGED remote
    BY <1>5 DEF SkipIndex, IndexArrives, StoreIndex, IndexFails, stores
  <2>2. disk'[f] = disk[f]
    BY <1>0, <1>5, InReleaseDiffers
       DEF SkipIndex, IndexArrives, StoreIndex, IndexFails, TypeOK, InSuite, stores, f
  <2>3. row'[f] = row[f]
    BY <1>0, <1>5, InReleaseDiffers
       DEF SkipIndex, IndexArrives, StoreIndex, IndexFails, Commit, Upserted, TypeOK,
           InSuite, stores, f
  <2> QED BY <1>0, <2>1, <2>2, <2>3, OrderKept DEF f
<1>6. ASSUME NEW a \in Artifacts, ArtifactArrives(a) \/ ArtifactFails(a)
      PROVE  Ordered(s)'
  <2>1. pc' # "store_release" /\ UNCHANGED <<remote, row>>
    BY <1>6 DEF ArtifactArrives, ArtifactFails, stores
  <2>2. disk'[f] = disk[f]
    BY <1>0, <1>6, FilesDiffer DEF ArtifactArrives, ArtifactFails, TypeOK, stores, f
  <2> QED BY <1>0, <2>1, <2>2, OrderKept DEF f
<1>7. ASSUME NEW B \in SUBSET Artifacts, CreateRows(B) \/ MarkVerified(B) \/ MarkFailed(B)
      PROVE  Ordered(s)'
  <2>1. pc' # "store_release" /\ UNCHANGED <<remote, disk>>
    BY <1>7 DEF CreateRows, MarkVerified, MarkFailed
  <2>2. row'[f] = row[f]
    BY <1>0, <1>7, InReleaseDiffers DEF CreateRows, MarkVerified, MarkFailed, f
  <2> QED BY <1>0, <2>1, <2>2, OrderKept DEF f
<1>8. ASSUME NEW g \in File \ Pools(Artifacts), MarkIndexed(g)  PROVE Ordered(s)'
  <2>1. row'[f].etag = row[f].etag
    BY <1>0, <1>8 DEF MarkIndexed, TypeOK, Row
  <2> QED BY <1>0, <1>8, <2>1, OrderKept DEF MarkIndexed, run, f
<1>9. ASSUME NEW t \in Suites, Upstream(t)  PROVE Ordered(s)'
  <2>1. remote'[s] >= remote[s]
    BY <1>0, <1>9 DEF Upstream, TypeOK
  <2> QED BY <1>0, <1>9, <2>1, OrderKept DEF Upstream, run, f
<1>10. CASE Cancel \/ UNCHANGED vars
  BY <1>0, <1>10, OrderKept DEF Cancel, vars, stores, run, f
<1> QED
  BY <1>0, <1>1, <1>2, <1>3, <1>4, <1>5, <1>6, <1>7, <1>8, <1>9, <1>10
     DEF Next, SyncStep, ReleaseStage, IndexStage, ArtifactStage, Environment

(* So the order of releases is inductive. *)
LEMMA StepOrdered == OrderInv /\ [Next]_vars => OrderInv'
<1> SUFFICES ASSUME OrderInv, [Next]_vars PROVE OrderInv'
  OBVIOUS
<1>1. TypeInv'
  BY StepType DEF OrderInv
<1>2. \A s \in Suites : Ordered(s)'
  BY SuiteOrdered
<1> QED BY <1>1, <1>2 DEF OrderInv

(* A suite is skipped as up to date only while the cached InRelease file is *)
(* the one upstream serves.                                                 *)
THEOREM SkippedSuiteIsCurrent == Spec => NotModifiedIsCurrent
<1>1. Spec => []OrderInv
  BY InitOrdered, StepOrdered, PTL DEF Spec
<1>2. OrderInv /\ [Next]_vars =>
        [(pc = "release" /\ pc' = "suite") => disk[InRelease(suite)] = remote[suite]]_vars
  <2> SUFFICES ASSUME OrderInv, Next, pc = "release", pc' = "suite"
               PROVE  disk[InRelease(suite)] = remote[suite]
    OBVIOUS
  <2>1. CheckRelease
    BY DEF Next, StartSession, SyncStep, EnterSuite, ReleaseStage, ReleaseArrives, ReleaseFails,
         StoreRelease, IndexStage, DecideIndexes, IndexesDone, SkipIndex, IndexArrives,
         StoreIndex, IndexFails, ArtifactStage, DecideArtifacts, CollectResults,
         VerifiedDone, FailedDone, ArtifactArrives, ArtifactFails, CreateRows,
         MarkVerified, MarkFailed, PublishStage, DecidePublish, CommitSnapshot,
         SnapshotFails, Finish, EndRun, Environment, Cancel, Crash, Aborts,
         StorageInitialize, Upstream, MarkIndexed
  <2>2. NotModified(suite) /\ suite \in Suites
    BY <2>1 DEF CheckRelease, OrderInv, TypeInv, InSuite
  <2>3. remote[suite] \in 1..NumReleases
    BY <2>2 DEF OrderInv, TypeInv, TypeOK
  <2>4. remote[suite] # NoContent
    BY <2>3, ContentAssumption
  <2> QED BY <2>2, <2>3, <2>4 DEF NotModified, OrderInv, Ordered
<1> QED BY <1>1, <1>2, PTL DEF Spec, NotModifiedIsCurrent
-----------------------------------------------------------------------------
(* Completed sessions.  CompletedIsComplete is no theorem for every content  *)
(* of the lists.  It needs what the code takes for granted of a repository:  *)
(* that upstream does not bring an index back once it has replaced it, and   *)
(* that what one session takes up names one content for each package.        *)

(* An index that was replaced is not published again.  Without it, a crash    *)
(* between the renaming of the new file and the upsert of its row leaves the  *)
(* old digest over the new file, and the reverted index is taken for cached.  *)
NeverReverts ==
  \A s \in Suites, i \in IndexPaths : \A x, y, z \in 1..NumReleases :
    ( /\ x < y /\ y < z
      /\ ReleaseLists[s][x][i] = ReleaseLists[s][z][i]
      /\ ReleaseLists[s][x][i] # NoContent )
    => ReleaseLists[s][y][i] \in {ReleaseLists[s][x][i], NoContent}

(* What index path i lists for package a in release r of suite s. *)
ListedBy(s, r, i, a) ==
  IF ReleaseLists[s][r][i] = NoContent THEN NoContent
  ELSE IndexLists[ReleaseLists[s][r][i]][a]

(* Two releases that name no package with two contents. *)
Agree(s, r, t, q) ==
  \A i, j \in IndexPaths, a \in Artifacts :
    (ListedBy(s, r, i, a) # NoContent /\ ListedBy(t, q, j, a) # NoContent)
    => ListedBy(s, r, i, a) = ListedBy(t, q, j, a)

(* The releases the session has taken up agree with each other. *)
HandledAgree ==
  \A s, t \in Suites : (handled[s] # 0 /\ handled[t] # 0) =>
    Agree(s, handled[s], t, handled[t])

(* From the first decision about an index to the end of the suite. *)
Working == {"index", "store_index", "artifacts", "create", "batch", "mark_verified",
            "mark_failed", "publish"}

(* A suite's release is handled once the suite is done with. *)
HandledBefore ==
  \A s \in Suites : handled[s] # 0 =>
    /\ pc # "idle"
    /\ s < suite \/ (s = suite /\ pc \in {"commit", "finish", "wind_down"})

(* The release of a suite this session holds to: handled, or being worked on. *)
TakenUp(s) ==
  IF handled[s] # 0 THEN handled[s] ELSE IF s = suite /\ pc \in Working THEN release ELSE 0

(* Nothing has gone wrong in this session so far. *)
Clean ==
  /\ ~dbFailed /\ ~cancelled /\ count.failed = 0 /\ pc \notin {"idle", "wind_down"}
  /\ \A s, t \in Suites : (TakenUp(s) # 0 /\ TakenUp(t) # 0) =>
       Agree(s, TakenUp(s), t, TakenUp(t))

(* The stages of a suite that have its release in hand. *)
HasOne == Working \union {"store_release", "indexes", "commit"}

(* A release that suite s has seen: no newer than upstream's, nor than the one *)
(* in hand.                                                                    *)
Seen(s, r) ==
  /\ r \in 1..remote[s]
  /\ (s = suite /\ pc \in HasOne) => r <= release

(* The release in hand is one upstream has published. *)
ReleaseSeen == pc \in HasOne => release <= remote[suite]

(* A row vouches for an index some past release listed; a file that is another *)
(* one comes from a release in between.                                        *)
IndexRow(s, i) ==
  LET f == Index(s, i)
  IN  Claimed(f) =>
        \E x \in 1..NumReleases :
          /\ Seen(s, x)
          /\ ReleaseLists[s][x][i] = row[f].sha
          /\ disk[f] # row[f].sha =>
               \E y \in 1..NumReleases :
                 /\ Seen(s, y) /\ x < y
                 /\ ReleaseLists[s][y][i] \notin {row[f].sha, NoContent}

(* The index just renamed into place is the one the release lists. *)
Arrived ==
  pc = "store_index" =>
    \A i \in IndexPaths : file = Index(suite, i) =>
      disk[file] = ReleaseLists[suite][release][i] /\ disk[file] # NoContent

(* The decisions are settled before the artifact stage, and concern listed indexes. *)
Decided ==
  /\ (pc \in Working /\ pc \notin {"index", "store_index"}) => decision = NoDecision
  /\ pc \in Working => \A i \in IndexPaths :
       decision[i] # "none" => ReleaseLists[suite][release][i] # NoContent

(* Index path i of release r of suite s is in the mirror, if it is listed. *)
IndexHeld(s, r, i) ==
  ReleaseLists[s][r][i] # NoContent => Holds(Index(s, i), ReleaseLists[s][r][i])

(* What has been decided about the indexes of the suite in hand is done. *)
IndexesHeld ==
  (Clean /\ pc \in Working) =>
    /\ \A i \in IndexPaths : decision[i] # "download" => IndexHeld(suite, release, i)
    /\ \A i \in IndexPaths, a \in Artifacts :
         (decision[i] = "none" /\ ListedBy(suite, release, i, a) # NoContent)
         => entries[a] # NoContent
    /\ \A a \in Artifacts : entries[a] # NoContent =>
         \E i \in IndexPaths : entries[a] = ListedBy(suite, release, i, a)

(* The packages the artifact stage is done with. *)
Settled(a) ==
  /\ pc \in {"create", "batch", "mark_verified", "mark_failed", "publish"}
  /\ \/ result[a] = "none"
     \/ pc \in {"mark_failed", "publish"}
     \/ pc = "mark_verified" /\ a \notin queue

(* They are in the mirror, and none of them failed. *)
PackagesHeld ==
  Clean =>
    /\ \A a \in Artifacts : (Settled(a) /\ entries[a] # NoContent) =>
         Holds(Pool(a), entries[a])
    /\ pc = "mark_verified" =>
         \A a \in Artifacts : /\ result[a] \in {"none", "ok"}
                              /\ result[a] = "ok" => row[Pool(a)].state # "ABSENT"
    /\ pc = "mark_failed" => queue = {}

(* What the releases handled in this session list stays in the mirror. *)
HandledHeld ==
  Clean => \A s \in Suites : handled[s] # 0 =>
    \A i \in IndexPaths :
      /\ IndexHeld(s, handled[s], i)
      /\ \A a \in Artifacts : ListedBy(s, handled[s], i, a) # NoContent =>
           Holds(Pool(a), ListedBy(s, handled[s], i, a))

SessionInv == HandledBefore /\ Arrived /\ Decided /\ IndexesHeld /\ PackagesHeld /\ HandledHeld

IndexRows == ReleaseSeen /\ \A s \in Suites, i \in IndexPaths : IndexRow(s, i)

CompleteInv == SafeInv /\ IndexRows /\ SessionInv

(* What keeps an index row explained: its digest and its file stay, and what *)
(* its suite has seen remains seen.                                          *)
LEMMA IndexRowKept ==
  ASSUME NEW s \in Suites, NEW i \in IndexPaths, IndexRow(s, i),
         Claimed(Index(s, i))' => /\ Claimed(Index(s, i))
                                  /\ row'[Index(s, i)].sha = row[Index(s, i)].sha,
         disk[Index(s, i)] = row[Index(s, i)].sha => disk'[Index(s, i)] = disk[Index(s, i)],
         \A r \in 1..NumReleases : Seen(s, r) => Seen(s, r)'
  PROVE  IndexRow(s, i)'
BY DEF IndexRow

(* The releases seen only grow, and a suite's release is upstream's when taken up. *)
LEMMA SeenKept ==
  ASSUME TypeInv, TypeInv', ReleaseSeen,
         \A s \in Suites : remote'[s] >= remote[s],
         \/ pc' \notin HasOne
         \/ pc \in HasOne /\ suite' = suite /\ release' = release
         \/ suite \in Suites /\ suite' = suite /\ release' = remote[suite] /\ remote' = remote
  PROVE  ReleaseSeen' /\ \A s \in Suites, r \in 1..NumReleases : Seen(s, r) => Seen(s, r)'
<1>1. /\ \A s \in Suites : remote[s] \in Nat /\ remote'[s] \in Nat
      /\ suite \in Nat /\ suite' \in Nat
  BY DEF TypeInv, TypeOK, Suites
<1>2. pc \in HasOne => release \in Nat /\ suite \in Suites
  BY DEF TypeInv, HasRelease, InSuite, HasOne, Working
<1>3. pc' \in HasOne => release' \in Nat /\ suite' \in Suites
  BY DEF TypeInv, HasRelease, InSuite, HasOne, Working
<1>4. ReleaseSeen'
  BY <1>1, <1>2, <1>3 DEF ReleaseSeen
<1>5. ASSUME NEW s \in Suites, NEW r \in 1..NumReleases, Seen(s, r)
      PROVE  Seen(s, r)'
  <2>1. r \in 1..remote'[s]
    BY <1>1, <1>5 DEF Seen
  <2>2. (s = suite' /\ pc' \in HasOne) => r <= release'
    BY <1>1, <1>5 DEF Seen
  <2> QED BY <2>1, <2>2 DEF Seen
<1> QED BY <1>4, <1>5

(* No step takes back what has been seen. *)
LEMMA SeenStep ==
  ASSUME TypeInv, ReleaseSeen, [Next]_vars
  PROVE  ReleaseSeen' /\ \A s \in Suites, r \in 1..NumReleases : Seen(s, r) => Seen(s, r)'
<1>0. TypeInv' /\ TypeOK /\ InSuite
  BY StepType DEF TypeInv
<1>a. \A s \in Suites : remote[s] \in Nat /\ remote[s] >= remote[s]
  BY <1>0 DEF TypeOK
<1>1. CASE ReleaseArrives
  <2>1. suite \in Suites /\ suite' = suite /\ release' = remote[suite] /\ remote' = remote
    BY <1>0, <1>1 DEF ReleaseArrives, InSuite
  <2> QED BY <1>0, <1>a, <2>1, SeenKept
<1>2. CASE \/ StartSession \/ EnterSuite \/ CheckRelease \/ ReleaseFails \/ IndexesDone
           \/ StoreRelease \/ DecideIndexes \/ DecideArtifacts \/ CollectResults \/ VerifiedDone
           \/ FailedDone \/ DecidePublish \/ CommitSnapshot \/ SnapshotFails
  <2>1. remote' = remote
    BY <1>2 DEF StartSession, EnterSuite, CheckRelease, ReleaseFails, IndexesDone, StoreRelease,
         DecideIndexes, DecideArtifacts, CollectResults, VerifiedDone, FailedDone,
         DecidePublish, CommitSnapshot, SnapshotFails, stores
  <2>2. pc' \notin HasOne \/ (pc \in HasOne /\ suite' = suite /\ release' = release)
    BY <1>2 DEF StartSession, EnterSuite, CheckRelease, ReleaseFails, IndexesDone, StoreRelease,
         DecideIndexes, DecideArtifacts, CollectResults, VerifiedDone, FailedDone,
         DecidePublish, CommitSnapshot, SnapshotFails, LeaveSuite, run, HasOne, Working
  <2> QED BY <1>0, <1>a, <2>1, <2>2, SeenKept
<1>3. CASE Finish \/ EndRun \/ Crash \/ Aborts \/ StorageInitialize \/ Cancel \/ UNCHANGED vars
  <2>1. remote' = remote
    BY <1>3 DEF Finish, EndRun, Crash, Aborts, StorageInitialize, Cancel, vars, stores
  <2>2. pc' \notin HasOne \/ (pc \in HasOne /\ suite' = suite /\ release' = release)
    BY <1>3 DEF Finish, EndRun, Crash, Aborts, StorageInitialize, Cancel, vars, run, HasOne,
         Working
  <2> QED BY <1>0, <1>a, <2>1, <2>2, SeenKept
<1>4. ASSUME NEW i \in IndexPaths,
             SkipIndex(i) \/ IndexArrives(i) \/ StoreIndex(i) \/ IndexFails(i)
      PROVE  /\ remote' = remote
             /\ pc \in HasOne /\ suite' = suite /\ release' = release
  BY <1>4 DEF SkipIndex, IndexArrives, StoreIndex, IndexFails, stores, HasOne, Working
<1>5. ASSUME NEW a \in Artifacts, ArtifactArrives(a) \/ ArtifactFails(a)
      PROVE  /\ remote' = remote
             /\ pc \in HasOne /\ suite' = suite /\ release' = release
  BY <1>5 DEF ArtifactArrives, ArtifactFails, stores, HasOne, Working
<1>6. ASSUME NEW B \in SUBSET Artifacts, CreateRows(B) \/ MarkVerified(B) \/ MarkFailed(B)
      PROVE  /\ remote' = remote
             /\ pc \in HasOne /\ suite' = suite /\ release' = release
  BY <1>6 DEF CreateRows, MarkVerified, MarkFailed, HasOne, Working
<1>7. ASSUME NEW t \in Suites, Upstream(t)
      PROVE  ReleaseSeen' /\ \A s \in Suites, r \in 1..NumReleases : Seen(s, r) => Seen(s, r)'
  <2>1. \A s \in Suites : remote'[s] >= remote[s]
    BY <1>0, <1>a, <1>7 DEF Upstream, TypeOK
  <2>2. UNCHANGED <<pc, suite, release>>
    BY <1>7 DEF Upstream, run
  <2> QED BY <1>0, <2>1, <2>2, SeenKept
<1>8. ASSUME NEW g \in File \ Pools(Artifacts), MarkIndexed(g)
      PROVE  remote' = remote /\ UNCHANGED <<pc, suite, release>>
  BY <1>8 DEF MarkIndexed, run
<1>9. CASE \/ \E i \in IndexPaths : SkipIndex(i) \/ IndexArrives(i) \/ StoreIndex(i) \/ IndexFails(i)
           \/ \E a \in Artifacts : ArtifactArrives(a) \/ ArtifactFails(a)
           \/ \E B \in SUBSET Artifacts : CreateRows(B) \/ MarkVerified(B) \/ MarkFailed(B)
           \/ \E g \in File \ Pools(Artifacts) : MarkIndexed(g)
  <2>1. remote' = remote /\ UNCHANGED <<suite, release>> /\ (pc \in HasOne \/ pc' = pc)
    BY <1>4, <1>5, <1>6, <1>8, <1>9
  <2> QED BY <1>0, <1>a, <2>1, SeenKept
<1> QED
  BY <1>1, <1>2, <1>3, <1>7, <1>9
     DEF Next, SyncStep, ReleaseStage, IndexStage, ArtifactStage, PublishStage, Environment

(* An index file is no other file. *)
LEMMA IndexDiffers ==
  ASSUME NEW s \in Suites, NEW i \in IndexPaths
  PROVE  /\ \A t \in Suites : Index(s, i) # InRelease(t) /\ Index(s, i) # Release(t)
         /\ \A t \in Suites, j \in IndexPaths : Index(s, i) = Index(t, j) <=> s = t /\ i = j
         /\ \A a \in Artifacts : Index(s, i) # Pool(a)
         /\ \A B \in SUBSET Artifacts : Index(s, i) \notin Pools(B)
         /\ Index(s, i) # <<>>
BY DEF InRelease, Release, Index, Pools, Pool

(* Apart from the arrival and the upsert of an index, no step gives its row   *)
(* another digest, brings it to VERIFIED or INDEXED or back, or changes the   *)
(* file; but between sessions the integrity scan removes it when it is not    *)
(* the one of its row.                                                        *)
LEMMA IndexKept ==
  ASSUME TypeInv, [Next]_vars, NEW s \in Suites, NEW i \in IndexPaths
  PROVE  \/ s = suite /\ (IndexArrives(i) \/ StoreIndex(i))
         \/ /\ Claimed(Index(s, i))' <=> Claimed(Index(s, i))
            /\ row'[Index(s, i)].sha = row[Index(s, i)].sha
            /\ row'[Index(s, i)].path = row[Index(s, i)].path
            /\ disk'[Index(s, i)] # disk[Index(s, i)] =>
                 /\ pc = "idle"
                 /\ disk'[Index(s, i)] = NoContent
                 /\ row[Index(s, i)].path
                 /\ disk[Index(s, i)] # row[Index(s, i)].sha
<1> DEFINE f == Index(s, i)
<1>0. TypeOK /\ InSuite /\ HasFile
  BY DEF TypeInv
<1>a. /\ f \in File /\ f \notin {Pool(a) : a \in Artifacts}
      /\ \A t \in Suites : f # InRelease(t) /\ f # Release(t)
      /\ \A t \in Suites, j \in IndexPaths : f = Index(t, j) <=> s = t /\ i = j
      /\ \A a \in Artifacts : f # Pool(a)
      /\ \A B \in SUBSET Artifacts : f \notin Pools(B)
  BY FileTypes, IndexDiffers
<1>b. row[f] \in Row
  BY <1>0, <1>a DEF TypeOK
<1> DEFINE Same == row'[f] = row[f] /\ disk'[f] = disk[f]
           Goal == /\ Claimed(f)' <=> Claimed(f)
                   /\ row'[f].sha = row[f].sha /\ row'[f].path = row[f].path
                   /\ disk'[f] # disk[f] => /\ pc = "idle" /\ disk'[f] = NoContent
                                            /\ row[f].path /\ disk[f] # row[f].sha
<1> HIDE DEF f
<1>c. Same => Goal
  BY DEF Claimed
<1>1. CASE \/ EnterSuite \/ CheckRelease \/ ReleaseFails \/ DecideIndexes \/ IndexesDone
           \/ DecideArtifacts \/ CollectResults \/ VerifiedDone \/ FailedDone
           \/ PublishStage \/ Finish \/ Crash \/ Aborts
  <2>1. UNCHANGED <<disk, row>>
    BY <1>1 DEF EnterSuite, CheckRelease, ReleaseFails, DecideIndexes, IndexesDone,
         DecideArtifacts, CollectResults, VerifiedDone, FailedDone, PublishStage,
         DecidePublish, CommitSnapshot, SnapshotFails, Finish, Crash, Aborts, stores
  <2> QED BY <1>c, <2>1 DEF f
<1>2. CASE ReleaseArrives
  <2>1. ReleaseTarget # f
    BY <1>0, <1>a, <1>2 DEF ReleaseArrives, ReleaseTarget, InSuite
  <2>2. Same
    BY <1>0, <1>2, <2>1 DEF ReleaseArrives, TypeOK
  <2> QED BY <1>c, <2>2 DEF f
<1>3. CASE StoreRelease
  <2>1. file # f
    BY <1>0, <1>a, <1>3 DEF StoreRelease, InSuite, HasFile
  <2>2. Same
    BY <1>0, <1>a, <1>3, <2>1 DEF StoreRelease, Commit, Upserted, TypeOK
  <2> QED BY <1>c, <2>2 DEF f
<1>4. CASE StartSession \/ EndRun
  <2>1. \A r \in Row : /\ RolledBack(r).sha = r.sha /\ RolledBack(r).path = r.path
                       /\ RolledBack(r).state \in {"VERIFIED", "INDEXED"}
                            <=> r.state \in {"VERIFIED", "INDEXED"}
    BY DEF RolledBack, Row
  <2>2. disk'[f] = disk[f]
    BY <1>4 DEF StartSession, EndRun
  <2>3. CASE StartSession
    <3>1. \/ row' = row
          \/ row' = [g \in File |-> IF row[g].state = "DOWNLOADING"
                                    THEN [row[g] EXCEPT !.state = "QUEUED"] ELSE row[g]]
      BY <2>3 DEF StartSession, Commit
    <3>2. row'[f].sha = row[f].sha /\ row'[f].path = row[f].path /\ (Claimed(f)' <=> Claimed(f))
      BY <1>a, <1>b, <3>1 DEF Claimed, Row
    <3> QED BY <2>2, <3>2 DEF f
  <2>4. CASE EndRun
    <3>1. row' = row \/ row' = [g \in File |-> RolledBack(row[g])]
      BY <2>4 DEF EndRun, Commit
    <3>2. row'[f].sha = row[f].sha /\ row'[f].path = row[f].path /\ (Claimed(f)' <=> Claimed(f))
      BY <1>a, <1>b, <2>1, <3>1 DEF Claimed
    <3> QED BY <2>2, <3>2 DEF f
  <2> QED BY <1>4, <2>3, <2>4
<1>5. CASE StorageInitialize
  <2>1. \A r \in Row : /\ Recovered(r).sha = r.sha /\ Recovered(r).path = r.path
                       /\ Recovered(r).state \in {"VERIFIED", "INDEXED"}
                            <=> r.state \in {"VERIFIED", "INDEXED"}
    BY DEF Recovered, Row
  <2>2. /\ row'[f] = Recovered(row[f])
        /\ disk'[f] # disk[f] => /\ disk'[f] = NoContent /\ row[f].path
                                 /\ disk[f] # row[f].sha
    BY <1>0, <1>a, <1>5 DEF StorageInitialize
  <2>3. pc = "idle"
    BY <1>5 DEF StorageInitialize
  <2>4. Goal
    BY <1>b, <2>1, <2>2, <2>3 DEF Claimed
  <2> QED BY <2>4 DEF f
<1>6. ASSUME NEW j \in IndexPaths,
             SkipIndex(j) \/ IndexArrives(j) \/ StoreIndex(j) \/ IndexFails(j)
      PROVE  Goal \/ (s = suite /\ j = i /\ (IndexArrives(j) \/ StoreIndex(j)))
  <2>1. suite \in Suites
    BY <1>0, <1>6 DEF SkipIndex, IndexArrives, StoreIndex, IndexFails, InSuite
  <2>2. CASE SkipIndex(j) \/ IndexFails(j)
    BY <1>c, <2>2 DEF SkipIndex, IndexFails, stores
  <2>3. CASE f # Index(suite, j)
    <3>1. Same
      BY <1>0, <1>a, <1>6, <2>3 DEF SkipIndex, IndexArrives, StoreIndex, IndexFails,
           Commit, Upserted, TypeOK, stores
    <3> QED BY <1>c, <3>1
  <2> QED BY <1>6, <1>a, <2>1, <2>2, <2>3
<1>7. ASSUME NEW a \in Artifacts, ArtifactArrives(a) \/ ArtifactFails(a)
      PROVE  Goal
  <2>1. Same
    BY <1>0, <1>a, <1>7 DEF ArtifactArrives, ArtifactFails, TypeOK, stores
  <2> QED BY <1>c, <2>1
<1>8. ASSUME NEW B \in SUBSET Artifacts, CreateRows(B) \/ MarkVerified(B) \/ MarkFailed(B)
      PROVE  Goal
  <2>1. Same
    BY <1>0, <1>a, <1>8 DEF CreateRows, MarkVerified, MarkFailed
  <2> QED BY <1>c, <2>1
<1>9. ASSUME NEW g \in File \ Pools(Artifacts), MarkIndexed(g)
      PROVE  Goal
  <2>1. /\ row'[f].sha = row[f].sha /\ row'[f].path = row[f].path
        /\ (Claimed(f)' <=> Claimed(f)) /\ disk' = disk
    BY <1>0, <1>a, <1>b, <1>9 DEF MarkIndexed, TypeOK, Claimed, Row
  <2> QED BY <2>1
<1>10. ASSUME NEW t \in Suites, Upstream(t)
       PROVE  Goal
  BY <1>10, <1>c DEF Upstream
<1>11. CASE Cancel \/ UNCHANGED vars
  BY <1>11, <1>c DEF Cancel, vars, stores, f
<1> QED
  BY <1>1, <1>2, <1>3, <1>4, <1>5, <1>6, <1>7, <1>8, <1>9, <1>10, <1>11
     DEF Next, SyncStep, ReleaseStage, IndexStage, ArtifactStage, Environment, f

(* The rows of the indexes stay explained. *)
LEMMA StepIndexRows ==
  ASSUME TypeInv, IndexRows, Arrived, Decided, [Next]_vars
  PROVE  IndexRows'
<1>0. TypeOK /\ InSuite /\ HasRelease /\ TypeInv' /\ ReleaseSeen
  BY StepType DEF TypeInv, IndexRows
<1>1. ReleaseSeen' /\ \A s \in Suites, r \in 1..NumReleases : Seen(s, r) => Seen(s, r)'
  BY <1>0, SeenStep
<1>2. ASSUME NEW s \in Suites, NEW i \in IndexPaths
      PROVE  IndexRow(s, i)'
  <2> DEFINE f == Index(s, i)
  <2>0. IndexRow(s, i) /\ f \in File
    BY FileTypes DEF IndexRows
  <2>1. CASE s = suite /\ IndexArrives(i)
    <3>1. /\ pc = "index" /\ decision[i] = "download"
          /\ disk'[f] = ReleaseLists[s][release][i]
      BY <1>0, <2>0, <2>1 DEF IndexArrives, TypeOK
    <3>2. /\ row' = row
          /\ ReleaseLists[s][release][i] # NoContent
      BY <2>1, <3>1 DEF Decided, Working, IndexArrives
    <3>3. release \in 1..NumReleases /\ pc \in HasOne
      BY <1>0, <3>1 DEF HasRelease, HasOne, Working
    <3>4. remote[s] \in Nat /\ release <= remote[s]
      BY <1>0, <2>1, <3>3 DEF TypeOK, ReleaseSeen
    <3>5. Seen(s, release)
      BY <3>3, <3>4, <2>1 DEF Seen
    <3>6. ASSUME Claimed(f)'
          PROVE  \E x \in 1..NumReleases :
                   /\ Seen(s, x)'
                   /\ ReleaseLists[s][x][i] = row'[f].sha
                   /\ disk'[f] # row'[f].sha =>
                        \E y \in 1..NumReleases :
                          /\ Seen(s, y)' /\ x < y
                          /\ ReleaseLists[s][y][i] \notin {row'[f].sha, NoContent}
      <4>1. Claimed(f)
        BY <3>2, <3>6 DEF Claimed
      <4>2. PICK x \in 1..NumReleases : Seen(s, x) /\ ReleaseLists[s][x][i] = row[f].sha
        BY <2>0, <4>1 DEF IndexRow
      <4>3. x <= release
        BY <2>1, <3>3, <4>2 DEF Seen
      <4>4. disk'[f] # row'[f].sha => x < release
        BY <3>1, <3>2, <3>3, <4>2, <4>3
      <4> QED BY <1>1, <3>1, <3>2, <3>3, <3>5, <4>2, <4>4
    <3> QED BY <3>6 DEF IndexRow
  <2>2. CASE s = suite /\ StoreIndex(i)
    <3>1. disk'[f] = ReleaseLists[s][release][i]
      BY <2>2 DEF StoreIndex, Arrived
    <3>2. CASE row' = row
      <4>1. disk' = disk
        BY <2>2 DEF StoreIndex
      <4> QED BY <1>1, <2>0, <3>2, <4>1, IndexRowKept DEF Claimed
    <3>3. CASE row' # row
      <4>1. row' = Upserted(f, ReleaseLists[s][release][i], NoContent)
        BY <2>2, <3>3 DEF StoreIndex, Commit
      <4>2. row'[f].sha = ReleaseLists[s][release][i]
        BY <1>0, <2>0, <4>1 DEF Upserted, TypeOK
      <4>3. release \in 1..NumReleases /\ pc \in HasOne
        BY <1>0, <2>2 DEF StoreIndex, HasRelease, HasOne, Working
      <4>4. remote[s] \in Nat /\ release <= remote[s]
        BY <1>0, <2>2, <4>3 DEF TypeOK, ReleaseSeen
      <4>5. Seen(s, release)
        BY <4>3, <4>4, <2>2 DEF Seen
      <4> QED BY <1>1, <3>1, <4>2, <4>3, <4>5 DEF IndexRow
    <3> QED BY <3>2, <3>3
  <2>3. CASE ~(s = suite /\ (IndexArrives(i) \/ StoreIndex(i)))
    <3>1. /\ Claimed(f)' => /\ Claimed(f)
                            /\ row'[f].sha = row[f].sha
          /\ disk[f] = row[f].sha => disk'[f] = disk[f]
      BY <2>3, IndexKept
    <3> QED BY <1>1, <2>0, <3>1, IndexRowKept
  <2> QED BY <2>1, <2>2, <2>3
<1> QED BY <1>1, <1>2 DEF IndexRows

(* The order of the stages: when a release counts as handled, what an index  *)
(* that has arrived is, and that every index is decided before the packages. *)
LEMMA StepControl ==
  ASSUME TypeInv, HandledBefore, Arrived, Decided, [Next]_vars
  PROVE  HandledBefore' /\ Arrived' /\ Decided'
<1>0. TypeOK /\ InSuite /\ HasRelease /\ TypeInv'
  BY StepType DEF TypeInv
<1>a. suite \in Nat /\ \A s \in Suites : s \in Nat
  BY <1>0 DEF TypeOK, Suites
<1>1. HandledBefore'
  <2>1. CASE Crash \/ EndRun
    BY <2>1 DEF Crash, EndRun, ResetRun, HandledBefore
  <2>2. CASE DecidePublish
    <3>1. /\ pc = "publish" /\ suite \in Suites
          /\ \A s \in Suites : s # suite => handled'[s] = handled[s]
          /\ (pc' = "suite" /\ suite' = suite + 1) \/ (pc' \in {"commit", "finish"} /\ suite' = suite)
      BY <1>0, <2>2 DEF DecidePublish, LeaveSuite, InSuite, TypeOK
    <3> QED BY <1>a, <3>1 DEF HandledBefore
  <2>3. CASE \/ StartSession \/ EnterSuite \/ ReleaseStage \/ DecideIndexes \/ IndexesDone
             \/ DecideArtifacts \/ CollectResults \/ VerifiedDone \/ FailedDone
             \/ CommitSnapshot \/ SnapshotFails \/ Finish \/ Aborts \/ StorageInitialize
             \/ Cancel \/ UNCHANGED vars
    <3>1. handled' = handled /\ suite' \in {suite, suite + 1}
      BY <2>3 DEF StartSession, EnterSuite, ReleaseStage, CheckRelease, ReleaseArrives,
           ReleaseFails, StoreRelease, DecideIndexes, IndexesDone, DecideArtifacts,
           CollectResults, VerifiedDone, FailedDone, CommitSnapshot, SnapshotFails, Finish,
           Aborts, StorageInitialize, Cancel, LeaveSuite, vars, run
    <3>2. suite' = suite \/ (pc # "idle" /\ pc' # "idle")
      BY <2>3 DEF StartSession, EnterSuite, ReleaseStage, CheckRelease, ReleaseArrives,
           ReleaseFails, StoreRelease, DecideIndexes, IndexesDone, DecideArtifacts,
           CollectResults, VerifiedDone, FailedDone, CommitSnapshot, SnapshotFails, Finish,
           Aborts, StorageInitialize, Cancel, LeaveSuite, vars, run
    <3>3. \/ suite' = suite + 1
          \/ pc \in {"commit", "finish", "wind_down"} => pc' \in {"commit", "finish", "wind_down"}
      BY <2>3 DEF StartSession, EnterSuite, ReleaseStage, CheckRelease, ReleaseArrives,
           ReleaseFails, StoreRelease, DecideIndexes, IndexesDone, DecideArtifacts,
           CollectResults, VerifiedDone, FailedDone, CommitSnapshot, SnapshotFails, Finish,
           Aborts, StorageInitialize, Cancel, LeaveSuite, vars, run
    <3>4. pc # "idle" => pc' # "idle"
      BY <2>3 DEF StartSession, EnterSuite, ReleaseStage, CheckRelease, ReleaseArrives,
           ReleaseFails, StoreRelease, DecideIndexes, IndexesDone, DecideArtifacts,
           CollectResults, VerifiedDone, FailedDone, CommitSnapshot, SnapshotFails, Finish,
           Aborts, StorageInitialize, Cancel, LeaveSuite, vars, run
    <3> QED BY <1>a, <3>1, <3>2, <3>3, <3>4 DEF HandledBefore
  <2>4. CASE \/ \E i \in IndexPaths :
                  SkipIndex(i) \/ IndexArrives(i) \/ StoreIndex(i) \/ IndexFails(i)
             \/ \E a \in Artifacts : ArtifactArrives(a) \/ ArtifactFails(a)
             \/ \E B \in SUBSET Artifacts : CreateRows(B) \/ MarkVerified(B) \/ MarkFailed(B)
             \/ \E t \in Suites : Upstream(t)
             \/ \E g \in File \ Pools(Artifacts) : MarkIndexed(g)
    <3>1. /\ handled' = handled /\ suite' = suite
          /\ pc' = pc \/ (pc' # "idle" /\ pc \notin {"commit", "finish", "wind_down"})
      BY <2>4 DEF SkipIndex, IndexArrives, StoreIndex, IndexFails, ArtifactArrives,
           ArtifactFails, CreateRows, MarkVerified, MarkFailed, Upstream, MarkIndexed, run
    <3> QED BY <3>1 DEF HandledBefore
  <2> QED BY <2>1, <2>2, <2>3, <2>4
       DEF Next, SyncStep, ReleaseStage, IndexStage, ArtifactStage, PublishStage, Environment
<1>2. Arrived'
  <2>1. ASSUME NEW j \in IndexPaths, IndexArrives(j)  PROVE Arrived'
    <3>1. /\ suite \in Suites /\ suite' = suite /\ release' = release
          /\ file' = Index(suite, j)
          /\ disk'[Index(suite, j)] = ReleaseLists[suite][release][j]
          /\ ReleaseLists[suite][release][j] # NoContent
      BY <1>0, <2>1, FileTypes DEF IndexArrives, InSuite, TypeOK, Decided, Working
    <3>2. \A i \in IndexPaths : Index(suite, j) = Index(suite, i) => i = j
      BY <3>1, IndexDiffers
    <3> QED BY <3>1, <3>2 DEF Arrived
  <2>2. CASE pc' # "store_index"
    BY <2>2 DEF Arrived
  <2>3. CASE pc = "store_index" /\ pc' = "store_index" /\ UNCHANGED <<suite, release, file, disk>>
    BY <2>3, SMTT(30) DEF Arrived
  <2>4. \/ \E j \in IndexPaths : IndexArrives(j)
        \/ pc' # "store_index"
        \/ pc = "store_index" /\ pc' = "store_index" /\ UNCHANGED <<suite, release, file, disk>>
    BY DEF Next, StartSession, SyncStep, EnterSuite, ReleaseStage, CheckRelease,
         ReleaseArrives, ReleaseFails, LeaveSuite,
         StoreRelease, IndexStage, DecideIndexes, IndexesDone, SkipIndex,
         StoreIndex, IndexFails, ArtifactStage, DecideArtifacts, CollectResults,
         VerifiedDone, FailedDone, ArtifactArrives, ArtifactFails, CreateRows,
         MarkVerified, MarkFailed, PublishStage, DecidePublish, CommitSnapshot,
         SnapshotFails, Finish, EndRun, Environment, Cancel, Crash, Aborts,
         StorageInitialize, Upstream, MarkIndexed, vars, stores, run
  <2> QED BY <2>1, <2>2, <2>3, <2>4
<1>3. Decided'
  <2>1. CASE pc' \notin Working
    BY <2>1 DEF Decided
  <2>2. CASE DecideIndexes
    <3>1. CASE cancelled
      BY <2>2, <3>1 DEF DecideIndexes, Decided, Working
    <3>2. CASE ~cancelled
      BY <2>2, <3>2 DEF DecideIndexes, Decided, Working
    <3> QED BY <3>1, <3>2
  <2>3. CASE IndexesDone
    BY <2>3 DEF IndexesDone, Decided, Working, run
  <2>4. ASSUME NEW i \in IndexPaths,
               SkipIndex(i) \/ IndexArrives(i) \/ StoreIndex(i) \/ IndexFails(i)
        PROVE  Decided'
    <3>1. /\ pc \in {"index", "store_index"} /\ pc' \in {"index", "store_index"}
          /\ suite' = suite /\ release' = release
          /\ \A j \in IndexPaths : decision'[j] \in {decision[j], "none"}
      BY <1>0, <2>4 DEF SkipIndex, IndexArrives, StoreIndex, IndexFails, TypeOK
    <3> QED BY <3>1 DEF Decided, Working
  <2>5. CASE /\ pc \in Working /\ (pc \in {"index", "store_index"} => pc' \in {"index", "store_index"})
             /\ suite' = suite /\ release' = release /\ decision' = decision
    BY <2>5 DEF Decided, Working
  <2>6. \/ pc' \notin Working \/ DecideIndexes \/ IndexesDone
        \/ \E i \in IndexPaths : SkipIndex(i) \/ IndexArrives(i) \/ StoreIndex(i) \/ IndexFails(i)
        \/ /\ pc \in Working /\ (pc \in {"index", "store_index"} => pc' \in {"index", "store_index"})
           /\ suite' = suite /\ release' = release /\ decision' = decision
    BY DEF Next, StartSession, SyncStep, EnterSuite, ReleaseStage, CheckRelease,
         ReleaseArrives, ReleaseFails, LeaveSuite,
         StoreRelease, IndexStage, ArtifactStage, DecideArtifacts, CollectResults,
         VerifiedDone, FailedDone, ArtifactArrives, ArtifactFails, CreateRows,
         MarkVerified, MarkFailed, PublishStage, DecidePublish, CommitSnapshot,
         SnapshotFails, Finish, EndRun, Environment, Cancel, Crash, Aborts,
         StorageInitialize, Upstream, MarkIndexed, vars, run, Working
  <2> QED BY <2>1, <2>2, <2>3, <2>4, <2>5, <2>6
<1> QED BY <1>1, <1>2, <1>3

(* A session in which nothing has gone wrong was so a step before, when it  *)
(* had taken up the same releases at most.                                  *)
LEMMA CleanBefore ==
  ASSUME TypeInv, HandledBefore, [Next]_vars, Clean', pc # "idle"
  PROVE  /\ Clean
         /\ \A s \in Suites : handled[s] # 0 => handled'[s] = handled[s]
<1>0. TypeOK /\ InSuite /\ HasRelease /\ TypeInv'
  BY StepType DEF TypeInv
<1>a. /\ count \in Count /\ count.failed \in Nat
      /\ \A S \in SUBSET Artifacts : Cardinality(S) \in Nat
  BY <1>0, Counts DEF TypeOK, Count
<1>b. /\ ~dbFailed' /\ ~cancelled' /\ count'.failed = 0
      /\ pc' # "idle" /\ pc' # "wind_down"
  BY DEF Clean
<1>1. ~dbFailed /\ ~cancelled /\ pc # "wind_down"
  <2>1. ~dbFailed
    BY <1>b DEF Next, StartSession, SyncStep, EnterSuite, ReleaseStage, CheckRelease,
         ReleaseArrives, ReleaseFails, Commit,
         StoreRelease, IndexStage, DecideIndexes, IndexesDone, SkipIndex, IndexArrives,
         StoreIndex, IndexFails, ArtifactStage, DecideArtifacts, CollectResults,
         VerifiedDone, FailedDone, ArtifactArrives, ArtifactFails, CreateRows,
         MarkVerified, MarkFailed, PublishStage, DecidePublish, CommitSnapshot,
         SnapshotFails, Finish, EndRun, Environment, Cancel, Crash, Aborts,
         StorageInitialize, Upstream, MarkIndexed, vars
  <2>2. ~cancelled
    BY <1>b DEF Next, StartSession, SyncStep, EnterSuite, ReleaseStage, CheckRelease,
         ReleaseArrives, ReleaseFails,
         StoreRelease, IndexStage, DecideIndexes, IndexesDone, SkipIndex, IndexArrives,
         StoreIndex, IndexFails, ArtifactStage, DecideArtifacts, CollectResults,
         VerifiedDone, FailedDone, ArtifactArrives, ArtifactFails, CreateRows,
         MarkVerified, MarkFailed, PublishStage, DecidePublish, CommitSnapshot,
         SnapshotFails, Finish, EndRun, Environment, Cancel, Crash, Aborts,
         StorageInitialize, Upstream, MarkIndexed, vars
  <2>3. pc # "wind_down"
    BY <1>b DEF Next, StartSession, SyncStep, EnterSuite, ReleaseStage, CheckRelease,
         ReleaseArrives, ReleaseFails,
         StoreRelease, IndexStage, DecideIndexes, IndexesDone, SkipIndex, IndexArrives,
         StoreIndex, IndexFails, ArtifactStage, DecideArtifacts, CollectResults,
         VerifiedDone, FailedDone, ArtifactArrives, ArtifactFails, CreateRows,
         MarkVerified, MarkFailed, PublishStage, DecidePublish, CommitSnapshot,
         SnapshotFails, Finish, EndRun, Environment, Cancel, Crash, Aborts,
         StorageInitialize, Upstream, MarkIndexed, vars
  <2> QED BY <2>1, <2>2, <2>3
<1>2. count.failed = 0
  <2>1. CASE ReleaseFails \/ StoreRelease \/ CollectResults \/ DecideArtifacts
    <3>1. CASE ReleaseFails \/ StoreRelease
      <4>1. \/ count'.failed = count.failed \/ count'.failed = count.failed + 1
        BY <1>a, <3>1 DEF ReleaseFails, StoreRelease, Count
      <4> QED BY <1>a, <1>b, <4>1
    <3>2. CASE CollectResults
      <4>1. PICK n \in Nat : count'.failed = count.failed + n
        BY <1>a, <3>2 DEF CollectResults, Count, With
      <4> QED BY <1>a, <1>b, <4>1
    <3>3. CASE DecideArtifacts
      <4>1. count'.failed = count.failed
        BY <1>a, <3>3 DEF DecideArtifacts, Count
      <4> QED BY <1>b, <4>1
    <3> QED BY <2>1, <3>1, <3>2, <3>3
  <2>2. ASSUME NEW i \in IndexPaths, SkipIndex(i) \/ StoreIndex(i) \/ IndexFails(i)
        PROVE  count.failed = 0
    <3>1. \/ count'.failed = count.failed \/ count'.failed = count.failed + 1
      BY <1>a, <2>2 DEF SkipIndex, StoreIndex, IndexFails, Count
    <3> QED BY <1>a, <1>b, <3>1
  <2>3. \/ ReleaseFails \/ StoreRelease \/ CollectResults \/ DecideArtifacts
        \/ \E i \in IndexPaths : SkipIndex(i) \/ StoreIndex(i) \/ IndexFails(i)
        \/ count' = count
    BY <1>b DEF Next, StartSession, SyncStep, EnterSuite, ReleaseStage, CheckRelease,
         ReleaseArrives, IndexStage, DecideIndexes, IndexesDone, IndexArrives,
         ArtifactStage, VerifiedDone, FailedDone, ArtifactArrives, ArtifactFails, CreateRows,
         MarkVerified, MarkFailed, PublishStage, DecidePublish, CommitSnapshot,
         SnapshotFails, Finish, EndRun, Environment, Cancel, Crash, Aborts,
         StorageInitialize, Upstream, MarkIndexed, vars, run
  <2> QED BY <1>b, <2>1, <2>2, <2>3
<1>3. \/ DecidePublish
      \/ /\ handled' = handled
         /\ pc \in Working => pc' \in Working /\ suite' = suite /\ release' = release
  BY <1>1, <1>b DEF Next, StartSession, SyncStep, EnterSuite, ReleaseStage, CheckRelease,
       ReleaseArrives, ReleaseFails,
       StoreRelease, IndexStage, DecideIndexes, IndexesDone, SkipIndex, IndexArrives,
       StoreIndex, IndexFails, ArtifactStage, DecideArtifacts, CollectResults,
       VerifiedDone, FailedDone, ArtifactArrives, ArtifactFails, CreateRows,
       MarkVerified, MarkFailed, PublishStage, CommitSnapshot,
       SnapshotFails, Finish, EndRun, Environment, Cancel, Crash, Aborts,
       StorageInitialize, Upstream, MarkIndexed, vars, run, Working
<1>4. \A s \in Suites : /\ handled[s] # 0 => handled'[s] = handled[s]
                        /\ TakenUp(s) # 0 => TakenUp(s)' = TakenUp(s)
  <2>1. CASE DecidePublish
    <3>1. /\ pc = "publish" /\ suite \in Suites
          /\ handled'[suite] = release
          /\ \A s \in Suites : s # suite => handled'[s] = handled[s]
      BY <1>0, <2>1 DEF DecidePublish, InSuite, TypeOK
    <3>2. handled[suite] = 0 /\ release # 0
      <4>1. ~(suite < suite)
        BY <1>0 DEF TypeOK
      <4>2. release \in 1..NumReleases
        BY <1>0, <3>1 DEF HasRelease
      <4> QED BY <3>1, <4>1, <4>2 DEF HandledBefore
    <3> QED BY <3>1, <3>2 DEF TakenUp
  <2>2. CASE /\ handled' = handled
             /\ pc \in Working => pc' \in Working /\ suite' = suite /\ release' = release
    BY <2>2 DEF TakenUp
  <2> QED BY <1>3, <2>1, <2>2
<1>5. \A s, t \in Suites : (TakenUp(s) # 0 /\ TakenUp(t) # 0) =>
        Agree(s, TakenUp(s), t, TakenUp(t))
  BY <1>4 DEF Clean
<1> QED BY <1>1, <1>2, <1>4, <1>5 DEF Clean

(* While nothing goes wrong, a package in the mirror stays there, unless the *)
(* suite in hand lists it with another content.                              *)
LEMMA PoolStays ==
  ASSUME SafeInv, HandledBefore, PackagesHeld, [Next]_vars, Clean', pc # "idle",
         NEW a \in Artifacts, NEW c, Holds(Pool(a), c), pc = "create" => entries[a] \in {NoContent, c}
  PROVE  Holds(Pool(a), c)'
<1>0. TypeOK /\ TypeInv /\ Queueing /\ Clean
  BY CleanBefore DEF SafeInv, TypeInv
<1>a. Pool(a) \in File /\ row[Pool(a)] \in Row
  BY <1>0, FileTypes DEF TypeOK
<1>b. Claimed(Pool(a)) /\ row[Pool(a)].sha = c
  BY DEF Holds
<1>c. ~dbFailed' /\ ~cancelled' /\ pc' # "idle" /\ ~cancelled
  BY <1>0 DEF Clean
<1>d. row'[Pool(a)] = row[Pool(a)] => Claimed(Pool(a))' /\ row'[Pool(a)].sha = c
  BY <1>b DEF Claimed
<1>1. Claimed(Pool(a))' /\ row'[Pool(a)].sha = c
  <2>1. CASE \/ EnterSuite \/ CheckRelease \/ ReleaseArrives \/ ReleaseFails \/ StoreRelease
             \/ DecideIndexes \/ IndexesDone \/ FailedDone \/ PublishStage \/ Finish \/ Aborts
             \/ \E i \in IndexPaths :
                  SkipIndex(i) \/ IndexArrives(i) \/ StoreIndex(i) \/ IndexFails(i)
    BY <1>d, <2>1, StagesAreQuiet DEF PublishStage
  <2>2. CASE \/ DecideArtifacts \/ CollectResults \/ VerifiedDone \/ Cancel \/ UNCHANGED vars
    BY <1>d, <2>2 DEF DecideArtifacts, CollectResults, VerifiedDone, Cancel, vars, stores
  <2>3. CASE StartSession \/ StorageInitialize \/ EndRun \/ Crash
    BY <1>c, <2>3 DEF StartSession, StorageInitialize, EndRun, Crash
  <2>4. ASSUME NEW b \in Artifacts, ArtifactArrives(b) \/ ArtifactFails(b)
        PROVE  row' = row
    BY <2>4 DEF ArtifactArrives, ArtifactFails, stores
  <2>5. ASSUME NEW B \in SUBSET Artifacts, CreateRows(B)
        PROVE  row'[Pool(a)] = row[Pool(a)]
    <3>1. B \subseteq queue /\ pc = "create"
      BY <2>5 DEF CreateRows, Batch
    <3>2. a \notin B
      BY <1>0, <1>b, <3>1 DEF Queueing, UpToDate, Claimed
    <3>3. Pool(a) \notin Pools(B)
      BY <3>2, PoolsDiffer
    <3>4. row' = [f \in File |-> IF f \in Pools(B)
                                 THEN Queued(row[f], entries[f[2]]) ELSE row[f]]
      BY <1>c, <2>5 DEF CreateRows
    <3> QED BY <1>a, <3>3, <3>4
  <2>6. ASSUME NEW B \in SUBSET Artifacts, MarkVerified(B)
        PROVE  Claimed(Pool(a))' /\ row'[Pool(a)].sha = c
    <3>1. row' = [f \in File |->
                    IF f \in Pools(B) /\ row[f].state # "ABSENT"
                    THEN [row[f] EXCEPT !.state = "VERIFIED", !.path = TRUE] ELSE row[f]]
      BY <1>c, <2>6 DEF MarkVerified
    <3>2. row'[Pool(a)] \in {row[Pool(a)], [row[Pool(a)] EXCEPT !.state = "VERIFIED", !.path = TRUE]}
      BY <1>a, <3>1
    <3>3. \A r \in Row : /\ [r EXCEPT !.state = "VERIFIED", !.path = TRUE].sha = r.sha
                         /\ [r EXCEPT !.state = "VERIFIED", !.path = TRUE].state = "VERIFIED"
      BY DEF Row
    <3> QED BY <1>a, <1>b, <3>2, <3>3 DEF Claimed
  <2>7. ASSUME NEW B \in SUBSET Artifacts, MarkFailed(B)
        PROVE  FALSE
    BY <1>0, <2>7 DEF MarkFailed, Batch, PackagesHeld
  <2>8. ASSUME NEW t \in Suites, Upstream(t)
        PROVE  row' = row
    BY <2>8 DEF Upstream
  <2>9. ASSUME NEW g \in File \ Pools(Artifacts), MarkIndexed(g)
        PROVE  row'[Pool(a)] = row[Pool(a)]
    <3>1. g # Pool(a)
      BY <2>9, PoolsDiffer DEF Pools
    <3> QED BY <1>0, <1>a, <2>9, <3>1 DEF MarkIndexed, TypeOK
  <2> QED
    BY <1>d, <2>1, <2>2, <2>3, <2>4, <2>5, <2>6, <2>7, <2>8, <2>9
       DEF Next, SyncStep, ReleaseStage, IndexStage, ArtifactStage, Environment
<1>2. VerifiedIsOnDisk'
  BY StepSafe DEF SafeInv
<1> QED BY <1>1, <1>2, <1>c DEF VerifiedIsOnDisk, Holds

(* Likewise for an index that is not the one just arriving. *)
LEMMA IndexStays ==
  ASSUME TypeInv, [Next]_vars, pc # "idle",
         NEW s \in Suites, NEW i \in IndexPaths, NEW c, Holds(Index(s, i), c),
         ~(s = suite /\ (IndexArrives(i) \/ StoreIndex(i)))
  PROVE  Holds(Index(s, i), c)'
BY IndexKept DEF Holds

(* The packages of the suite in hand that the artifact stage is done with. *)
LEMMA StepPackages ==
  ASSUME SafeInv, HandledBefore, PackagesHeld, [Next]_vars
  PROVE  PackagesHeld'
<1> SUFFICES ASSUME Clean' PROVE PackagesHeld'
  BY DEF PackagesHeld
<1>0. TypeOK /\ TypeInv /\ VerifiedIsOnDisk /\ Fetching /\ Marking
  BY DEF SafeInv, TypeInv
<1>a. CASE pc = "idle"
  <2>1. pc' \in {"idle", "suite"}
    BY <1>a DEF Next, StartSession, SyncStep, EnterSuite, ReleaseStage, CheckRelease,
       ReleaseArrives, ReleaseFails,
       StoreRelease, IndexStage, DecideIndexes, IndexesDone, SkipIndex, IndexArrives,
       StoreIndex, IndexFails, ArtifactStage, DecideArtifacts, CollectResults,
       VerifiedDone, FailedDone, ArtifactArrives, ArtifactFails, CreateRows,
       MarkVerified, MarkFailed, PublishStage, DecidePublish, CommitSnapshot,
       SnapshotFails, Finish, EndRun, Environment, Cancel, Crash, Aborts,
       StorageInitialize, Upstream, MarkIndexed, vars
  <2> QED BY <2>1 DEF PackagesHeld, Settled
<1>b. CASE pc # "idle"
  <2>0. Clean /\ ~dbFailed /\ ~dbFailed' /\ count'.failed = 0 /\ count.failed = 0
    BY <1>0, <1>b, CleanBefore DEF Clean
  <2>a. ASSUME NEW a \in Artifacts, Settled(a), entries[a] # NoContent, entries' = entries
        PROVE  Holds(Pool(a), entries[a])'
    BY <1>b, <2>0, <2>a, PoolStays DEF PackagesHeld
  <2>1. CASE pc' \notin {"create", "batch", "mark_verified", "mark_failed", "publish"}
    BY <2>1 DEF PackagesHeld, Settled
  <2>2. CASE DecideArtifacts
    <3>1. CASE cancelled
      BY <2>2, <3>1 DEF DecideArtifacts, PackagesHeld, Settled
    <3>2. CASE ~cancelled
      <4>1. /\ UNCHANGED <<row, disk, entries>>
            /\ pc' \in {"create", "publish"}
            /\ pc' = "publish" => \A a \in Artifacts : result'[a] = "none"
            /\ \A a \in Artifacts : (result'[a] = "none" /\ entries[a] # NoContent) =>
                 UpToDate(Pool(a), entries[a], {"VERIFIED", "INDEXED"})
        BY <2>2, <3>2 DEF DecideArtifacts, stores
      <4>2. \A a \in Artifacts : (result'[a] = "none" /\ entries[a] # NoContent) =>
              Holds(Pool(a), entries[a])
        BY <1>0, <2>0, <4>1 DEF UpToDate, Holds, VerifiedIsOnDisk, Claimed
      <4> QED BY <4>1, <4>2 DEF PackagesHeld, Settled, Holds, Claimed
    <3> QED BY <3>1, <3>2
  <2>3. ASSUME NEW B \in SUBSET Artifacts, CreateRows(B)
        PROVE  PackagesHeld'
    <3>1. /\ pc = "create" /\ pc' \in {"create", "batch"}
          /\ UNCHANGED <<entries, result>>
      BY <2>3 DEF CreateRows
    <3> QED BY <2>a, <3>1 DEF PackagesHeld, Settled
  <2>4. ASSUME NEW b \in Artifacts, ArtifactArrives(b) \/ ArtifactFails(b)
        PROVE  PackagesHeld'
    <3>1. /\ pc = "batch" /\ pc' = "batch" /\ entries' = entries
          /\ \A a \in Artifacts : result'[a] = "none" => result[a] = "none"
      BY <1>0, <2>4 DEF ArtifactArrives, ArtifactFails, TypeOK
    <3> QED BY <2>a, <3>1 DEF PackagesHeld, Settled
  <2>5. CASE CollectResults
    <3>1. /\ pc = "batch" /\ pc' = "mark_verified" /\ UNCHANGED <<entries, result, row>>
          /\ With("pending") = {} /\ queue' = With("ok")
          /\ count'.failed = count.failed + Cardinality(With("failed"))
      BY <1>0, <2>5 DEF CollectResults, stores, TypeOK, Count
    <3>2. With("failed") \in SUBSET Artifacts /\ IsFiniteSet(With("failed"))
      BY FiniteAssumption, FS_Subset DEF With
    <3>3. Cardinality(With("failed")) = 0
      BY <2>0, <3>1, <3>2, Counts
    <3>4. With("failed") = {}
      BY <3>2, <3>3, FS_EmptySet
    <3>5. \A a \in Artifacts : /\ result[a] \in {"none", "ok"}
                               /\ result[a] = "ok" <=> a \in queue'
      BY <1>0, <3>1, <3>4 DEF With, TypeOK
    <3>6. \A a \in Artifacts : result[a] = "ok" => row[Pool(a)].state # "ABSENT"
      BY <1>0, <2>0, <3>1 DEF Fetching, InHand
    <3> QED BY <2>a, <3>1, <3>5, <3>6 DEF PackagesHeld, Settled
  <2>6. ASSUME NEW B \in SUBSET Artifacts, MarkVerified(B)
        PROVE  PackagesHeld'
    <3>1. /\ pc = "mark_verified" /\ pc' = "mark_verified"
          /\ UNCHANGED <<entries, result, disk>>
          /\ queue' = queue \ B /\ B \subseteq queue
          /\ row' = [f \in File |->
                       IF f \in Pools(B) /\ row[f].state # "ABSENT"
                       THEN [row[f] EXCEPT !.state = "VERIFIED", !.path = TRUE] ELSE row[f]]
      BY <2>0, <2>6 DEF MarkVerified, Batch
    <3>2. \A a \in Artifacts : Pool(a) \in File /\ row[Pool(a)] \in Row
      BY <1>0, FileTypes DEF TypeOK
    <3>3. \A r \in Row : /\ [r EXCEPT !.state = "VERIFIED", !.path = TRUE].sha = r.sha
                         /\ [r EXCEPT !.state = "VERIFIED", !.path = TRUE].state = "VERIFIED"
      BY DEF Row
    <3>4. \A a \in Artifacts : row[Pool(a)].state # "ABSENT" => row'[Pool(a)].state # "ABSENT"
      BY <3>1, <3>2, <3>3
    <3>5. ASSUME NEW a \in B, entries[a] # NoContent
          PROVE  Holds(Pool(a), entries[a])'
      <4>1. result[a] = "ok" /\ row[Pool(a)].sha = entries[a] /\ disk[Pool(a)] = entries[a]
        BY <1>0, <2>0, <3>1, <3>5 DEF Marking
      <4>2. row[Pool(a)].state # "ABSENT"
        BY <2>0, <3>1, <4>1 DEF PackagesHeld
      <4>3. Pool(a) \in Pools(B)
        BY <3>5, PoolsDiffer
      <4>4. row'[Pool(a)] = [row[Pool(a)] EXCEPT !.state = "VERIFIED", !.path = TRUE]
        BY <3>1, <3>2, <4>2, <4>3
      <4> QED BY <3>1, <3>2, <3>3, <4>1, <4>4 DEF Holds, Claimed
    <3>6. ASSUME NEW a \in Artifacts, a \notin B, Settled(a)', entries[a] # NoContent
          PROVE  Holds(Pool(a), entries[a])'
      BY <2>a, <3>1, <3>6 DEF Settled
    <3>7. \A a \in Artifacts : /\ result'[a] \in {"none", "ok"}
                               /\ result'[a] = "ok" => row'[Pool(a)].state # "ABSENT"
      BY <2>0, <3>1, <3>4 DEF PackagesHeld
    <3> QED BY <3>1, <3>5, <3>6, <3>7 DEF PackagesHeld
  <2>7. CASE VerifiedDone
    <3>1. /\ pc = "mark_verified" /\ queue = {} /\ pc' = "mark_failed" /\ entries' = entries
          /\ queue' = With("failed")
      BY <2>7 DEF VerifiedDone
    <3>2. queue' = {}
      BY <2>0, <3>1 DEF PackagesHeld, With
    <3> QED BY <2>a, <3>1, <3>2 DEF PackagesHeld, Settled
  <2>8. ASSUME NEW B \in SUBSET Artifacts, MarkFailed(B)
        PROVE  FALSE
    BY <2>0, <2>8 DEF MarkFailed, Batch, PackagesHeld
  <2>9. CASE FailedDone
    BY <2>a, <2>9 DEF FailedDone, PackagesHeld, Settled, run
  <2>10. CASE \/ Cancel \/ UNCHANGED vars \/ \E t \in Suites : Upstream(t)
              \/ \E g \in File \ Pools(Artifacts) : MarkIndexed(g)
    <3>1. UNCHANGED <<pc, entries, result, queue>>
      BY <2>10 DEF Cancel, vars, Upstream, MarkIndexed, run
    <3>2. \A a \in Artifacts : row'[Pool(a)] = row[Pool(a)]
      BY <1>0, <2>10, FileTypes, FilesDiffer DEF Cancel, vars, stores, Upstream, MarkIndexed, TypeOK, Pools
    <3> QED BY <2>0, <2>a, <3>1, <3>2 DEF PackagesHeld, Settled
  <2>11. CASE \/ StartSession \/ EnterSuite \/ ReleaseStage \/ IndexStage \/ PublishStage
              \/ Finish \/ EndRun \/ Crash \/ Aborts \/ StorageInitialize
    <3>1. pc' \notin {"create", "batch", "mark_verified", "mark_failed", "publish"}
      BY <1>b, <2>11 DEF StartSession, EnterSuite, ReleaseStage, CheckRelease, LeaveSuite,
       ReleaseArrives, ReleaseFails,
       StoreRelease, IndexStage, DecideIndexes, IndexesDone, SkipIndex, IndexArrives,
       StoreIndex, IndexFails, PublishStage, DecidePublish, CommitSnapshot,
       SnapshotFails, Finish, EndRun, Crash, Aborts, StorageInitialize
    <3> QED BY <2>1, <3>1
  <2> QED
    BY <2>2, <2>3, <2>4, <2>5, <2>6, <2>7, <2>8, <2>9, <2>10, <2>11
       DEF Next, SyncStep, ArtifactStage, Environment
<1> QED BY <1>a, <1>b

(* A row that agrees with the release in hand has the file the release lists. *)
LEMMA CachedIndexIsCurrent ==
  ASSUME TypeInv, IndexRows, NeverReverts, pc = "indexes", suite \in Suites,
         NEW i \in IndexPaths, ReleaseLists[suite][release][i] # NoContent,
         UpToDate(Index(suite, i), ReleaseLists[suite][release][i], {"VERIFIED"})
  PROVE  Holds(Index(suite, i), ReleaseLists[suite][release][i])
<1> DEFINE f == Index(suite, i)
<1>1. release \in 1..NumReleases /\ pc \in HasOne
  BY DEF TypeInv, HasRelease, HasOne
<1>2. Claimed(f) /\ row[f].sha = ReleaseLists[suite][release][i]
  BY DEF UpToDate, Claimed
<1>3. ASSUME disk[f] # row[f].sha  PROVE FALSE
  <2>1. PICK x \in 1..NumReleases, y \in 1..NumReleases :
          /\ ReleaseLists[suite][x][i] = row[f].sha
          /\ Seen(suite, y) /\ x < y
          /\ ReleaseLists[suite][y][i] \notin {row[f].sha, NoContent}
    BY <1>2, <1>3 DEF IndexRows, IndexRow
  <2>2. y <= release
    BY <1>1, <2>1 DEF Seen
  <2>3. y < release
    BY <1>1, <1>2, <2>1, <2>2
  <2> QED BY <1>1, <1>2, <2>1, <2>3 DEF NeverReverts
<1> QED BY <1>2, <1>3 DEF Holds

(* The indexes of the suite in hand, and what they list. *)
LEMMA StepIndexes ==
  ASSUME SafeInv, IndexRows, NeverReverts, HandledBefore, Arrived, Decided, IndexesHeld,
         [Next]_vars
  PROVE  IndexesHeld'
<1> SUFFICES ASSUME Clean', pc' \in Working PROVE IndexesHeld'
  BY DEF IndexesHeld
<1>0. TypeOK /\ TypeInv /\ InSuite /\ HasRelease
  BY SMTT(30) DEF SafeInv, TypeInv
<1>a. pc # "idle"
  BY DEF Next, StartSession, SyncStep, EnterSuite, ReleaseStage, CheckRelease,
       ReleaseArrives, ReleaseFails,
       StoreRelease, IndexStage, DecideIndexes, IndexesDone, SkipIndex, IndexArrives,
       StoreIndex, IndexFails, ArtifactStage, DecideArtifacts, CollectResults,
       VerifiedDone, FailedDone, ArtifactArrives, ArtifactFails, CreateRows,
       MarkVerified, MarkFailed, PublishStage, DecidePublish, CommitSnapshot,
       SnapshotFails, Finish, EndRun, Environment, Cancel, Crash, Aborts,
       StorageInitialize, Upstream, MarkIndexed, vars, Working
<1>b. Clean /\ ~dbFailed' /\ ~cancelled
  BY <1>0, <1>a, CleanBefore DEF Clean
<1>1. CASE DecideIndexes
  <2>1. /\ pc = "indexes" /\ suite \in Suites
        /\ UNCHANGED <<row, disk, suite, release>>
        /\ entries' = NoEntries
        /\ \A i \in IndexPaths :
             /\ decision'[i] = "none" => ReleaseLists[suite][release][i] = NoContent
             /\ decision'[i] = "skip" =>
                  /\ ReleaseLists[suite][release][i] # NoContent
                  /\ UpToDate(Index(suite, i), ReleaseLists[suite][release][i], {"VERIFIED"})
             /\ decision'[i] \in {"none", "skip", "download"}
    BY <1>0, <1>1, <1>b DEF DecideIndexes, InSuite, stores
  <2>2. ASSUME NEW i \in IndexPaths, decision'[i] # "download",
               ReleaseLists[suite][release][i] # NoContent
        PROVE  Holds(Index(suite, i), ReleaseLists[suite][release][i])'
    <3>1. Holds(Index(suite, i), ReleaseLists[suite][release][i])
      BY <1>0, <2>1, <2>2, CachedIndexIsCurrent
    <3> QED BY <2>1, <3>1 DEF Holds, Claimed
  <2>3. \A i \in IndexPaths : decision'[i] # "download" => IndexHeld(suite, release, i)'
    BY <2>1, <2>2 DEF IndexHeld, Holds, Claimed
  <2>4. \A i \in IndexPaths, a \in Artifacts :
          decision'[i] = "none" => ListedBy(suite, release, i, a) = NoContent
    BY <2>1 DEF ListedBy
  <2>5. \A a \in Artifacts : entries'[a] = NoContent
    BY <2>1 DEF NoEntries
  <2> QED BY <2>1, <2>3, <2>4, <2>5 DEF IndexesHeld
<1>2. ASSUME NEW i \in IndexPaths, SkipIndex(i) \/ StoreIndex(i)
      PROVE  IndexesHeld'
  <2> DEFINE x == ReleaseLists[suite][release][i]
             new == Parsed(x)
  <2>1. /\ pc \in Working /\ suite \in Suites /\ release \in 1..NumReleases
        /\ UNCHANGED <<suite, release>>
        /\ decision' = [decision EXCEPT ![i] = "none"]
        /\ entries' = FirstSeen(entries, Parsed(disk[Index(suite, i)]))
    BY <1>0, <1>2 DEF SkipIndex, StoreIndex, InSuite, HasRelease, Working
  <2>a. /\ \A j \in IndexPaths : decision[j] # "download" => IndexHeld(suite, release, j)
        /\ \A j \in IndexPaths, a \in Artifacts :
             (decision[j] = "none" /\ ListedBy(suite, release, j, a) # NoContent)
             => entries[a] # NoContent
        /\ \A a \in Artifacts : entries[a] # NoContent =>
             \E j \in IndexPaths : entries[a] = ListedBy(suite, release, j, a)
    BY <1>b, <2>1 DEF IndexesHeld
  <2>2. disk[Index(suite, i)] = x
    <3>1. CASE SkipIndex(i)
      <4>1. decision[i] = "skip"
        BY <3>1 DEF SkipIndex
      <4>2. x # NoContent
        BY <2>1, <4>1 DEF Decided
      <4> QED BY <2>a, <4>1, <4>2 DEF IndexHeld, Holds
    <3>2. CASE StoreIndex(i)
      BY <3>2 DEF StoreIndex, Arrived
    <3> QED BY <1>2, <3>1, <3>2
  <2>3. x \in IndexContents \union {NoContent}
    BY <2>1, ListedType
  <2>4. \A a \in Artifacts : new[a] = ListedBy(suite, release, i, a)
    <3>1. CASE x = NoContent
      BY <3>1, ContentAssumption DEF Parsed, ListedBy, NoEntries
    <3>2. CASE x # NoContent
      BY <2>3, <3>2 DEF Parsed, ListedBy
    <3> QED BY <3>1, <3>2
  <2>5. \A a \in Artifacts :
          entries'[a] = IF entries[a] # NoContent THEN entries[a]
                        ELSE ListedBy(suite, release, i, a)
    BY <2>1, <2>2, <2>4 DEF FirstSeen
  <2>6. ASSUME NEW j \in IndexPaths, j # i, decision[j] # "download"
        PROVE  IndexHeld(suite, release, j)'
    <3>1. ~(IndexArrives(j) \/ StoreIndex(j))
      <4>1. ~IndexArrives(j)
        BY <2>6 DEF IndexArrives
      <4>2. ~StoreIndex(j)
        <5>1. CASE SkipIndex(i)
          BY <5>1 DEF SkipIndex, StoreIndex
        <5>2. CASE StoreIndex(i)
          BY <2>1, <2>6, <5>2, IndexDiffers DEF StoreIndex
        <5> QED BY <1>2, <5>1, <5>2
      <4> QED BY <4>1, <4>2
    <3>2. IndexHeld(suite, release, j)
      BY <2>a, <2>6
    <3>3. CASE ReleaseLists[suite][release][j] = NoContent
      BY <2>1, <3>3 DEF IndexHeld
    <3>4. CASE ReleaseLists[suite][release][j] # NoContent
      <4>1. Holds(Index(suite, j), ReleaseLists[suite][release][j])
        BY <3>2, <3>4 DEF IndexHeld
      <4>2. Holds(Index(suite, j), ReleaseLists[suite][release][j])'
        <5>0. PICK s \in Suites : s = suite
          BY <2>1
        <5>1. PICK c : s = suite /\ c = ReleaseLists[suite][release][j]
          BY <5>0
        <5>2. Holds(Index(s, j), c) /\ s' = s /\ c' = c
          BY <4>1, <5>1
        <5>3. Holds(Index(s, j), c)'
          BY <1>0, <1>a, <3>1, <5>1, <5>2, IndexStays
        <5> QED BY <2>1, <5>1, <5>3
      <4> QED BY <4>2 DEF IndexHeld
    <3> QED BY <3>3, <3>4
  <2>7. IndexHeld(suite, release, i)'
    <3>1. CASE SkipIndex(i)
      <4>1. IndexHeld(suite, release, i) /\ UNCHANGED <<row, disk>>
        BY <2>a, <3>1 DEF SkipIndex, stores
      <4> QED BY <2>1, <4>1 DEF IndexHeld, Holds, Claimed
    <3>2. CASE StoreIndex(i)
      <4>1. row' = Upserted(Index(suite, i), x, NoContent) /\ disk' = disk
        BY <1>b, <3>2 DEF StoreIndex, Commit
      <4>2. Index(suite, i) \in File
        BY <2>1, FileTypes
      <4>3. row'[Index(suite, i)].state = "VERIFIED" /\ row'[Index(suite, i)].sha = x
        BY <1>0, <4>1, <4>2 DEF Upserted, TypeOK
      <4> QED BY <2>1, <2>2, <4>1, <4>3 DEF IndexHeld, Holds, Claimed
    <3> QED BY <1>2, <3>1, <3>2
  <2>8. \A j \in IndexPaths : /\ decision'[j] = IF j = i THEN "none" ELSE decision[j]
    BY <1>0, <2>1 DEF TypeOK
  <2>9. \A j \in IndexPaths : decision'[j] # "download" => IndexHeld(suite, release, j)'
    BY <2>6, <2>7, <2>8
  <2>10. \A j \in IndexPaths, a \in Artifacts :
           (decision'[j] = "none" /\ ListedBy(suite, release, j, a) # NoContent)
           => entries'[a] # NoContent
    BY <2>a, <2>5, <2>8
  <2>11. \A a \in Artifacts : entries'[a] # NoContent =>
           \E j \in IndexPaths : entries'[a] = ListedBy(suite, release, j, a)
    BY <2>a, <2>5
  <2> QED BY <2>1, <2>9, <2>10, <2>11 DEF IndexesHeld
<1>3. ASSUME pc \in Working, UNCHANGED <<suite, release, decision, entries>>,
             \A i \in IndexPaths : decision[i] # "download" =>
               ~(IndexArrives(i) \/ StoreIndex(i))
      PROVE  IndexesHeld'
  <2>1. suite \in Suites
    BY <1>0, <1>3 DEF InSuite, Working
  <2>2. ASSUME NEW i \in IndexPaths, decision[i] # "download",
               ReleaseLists[suite][release][i] # NoContent
        PROVE  Holds(Index(suite, i), ReleaseLists[suite][release][i])'
    <3>0. PICK s \in Suites : s = suite
      BY <2>1
    <3>1. PICK c : s = suite /\ c = ReleaseLists[suite][release][i]
      BY <3>0
    <3>2. Holds(Index(s, i), c)
      BY <1>b, <1>3, <2>2, <3>1 DEF IndexesHeld, IndexHeld
    <3>3. Holds(Index(s, i), c)'
      BY <1>0, <1>a, <1>3, <2>2, <3>1, <3>2, IndexStays
    <3> QED BY <1>3, <3>1, <3>3
  <2>3. \A i \in IndexPaths : decision[i] # "download" => IndexHeld(suite, release, i)'
    BY <1>3, <2>2 DEF IndexHeld, Holds, Claimed
  <2> QED BY <1>b, <1>3, <2>3 DEF IndexesHeld
<1>4. ASSUME NEW i \in IndexPaths, IndexArrives(i)
      PROVE  IndexesHeld'
  <2>1. /\ pc = "index" /\ decision[i] = "download"
        /\ UNCHANGED <<suite, release, decision, entries>>
    BY <1>4 DEF IndexArrives
  <2>2. \A j \in IndexPaths : decision[j] # "download" => ~(IndexArrives(j) \/ StoreIndex(j))
    BY <2>1 DEF IndexArrives, StoreIndex
  <2> QED BY <1>3, <2>1, <2>2 DEF Working
<1>5. ASSUME NEW i \in IndexPaths, IndexFails(i)
      PROVE  FALSE
  <2>1. count'.failed = count.failed + 1 /\ count.failed = 0 /\ count'.failed = 0
    BY <1>0, <1>5, <1>b DEF IndexFails, Clean, TypeOK, Count
  <2> QED BY <2>1
<1>6. \/ DecideIndexes
      \/ \E i \in IndexPaths : SkipIndex(i) \/ StoreIndex(i) \/ IndexArrives(i) \/ IndexFails(i)
      \/ pc \in Working /\ UNCHANGED <<suite, release, decision, entries>>
  BY <1>a DEF Next, StartSession, SyncStep, EnterSuite, ReleaseStage, CheckRelease,
       ReleaseArrives, ReleaseFails, LeaveSuite,
       StoreRelease, IndexStage, IndexesDone, ArtifactStage, DecideArtifacts, CollectResults,
       VerifiedDone, FailedDone, ArtifactArrives, ArtifactFails, CreateRows,
       MarkVerified, MarkFailed, PublishStage, DecidePublish, CommitSnapshot,
       SnapshotFails, Finish, EndRun, Environment, Cancel, Crash, Aborts,
       StorageInitialize, Upstream, MarkIndexed, vars, run, Working
<1> QED BY <1>1, <1>2, <1>3, <1>4, <1>5, <1>6

(* What the suites behind, and the suite just finished, list stays in the mirror. *)
LEMMA StepHandled ==
  ASSUME SafeInv, HandledBefore, Decided, IndexesHeld, PackagesHeld, HandledHeld, [Next]_vars
  PROVE  HandledHeld'
<1> SUFFICES ASSUME Clean' PROVE HandledHeld'
  BY DEF HandledHeld
<1>0. TypeOK /\ TypeInv /\ InSuite /\ HasRelease /\ Queueing
  BY DEF SafeInv, TypeInv
<1>1. CASE pc = "idle"
  <2>1. handled' = handled
    BY <1>1 DEF Next, StartSession, SyncStep, EnterSuite, ReleaseStage, CheckRelease,
       ReleaseArrives, ReleaseFails,
       StoreRelease, IndexStage, DecideIndexes, IndexesDone, SkipIndex, IndexArrives,
       StoreIndex, IndexFails, ArtifactStage, DecideArtifacts, CollectResults,
       VerifiedDone, FailedDone, ArtifactArrives, ArtifactFails, CreateRows,
       MarkVerified, MarkFailed, PublishStage, DecidePublish, CommitSnapshot,
       SnapshotFails, Finish, EndRun, Environment, Cancel, Crash, Aborts,
       StorageInitialize, Upstream, MarkIndexed, vars
  <2> QED BY <1>1, <2>1 DEF HandledBefore, HandledHeld
<1>2. CASE pc # "idle"
  <2>0. Clean /\ \A s \in Suites : handled[s] # 0 => handled'[s] = handled[s]
    BY <1>0, <1>2, CleanBefore
  <2>1. ASSUME NEW s \in Suites, handled[s] # 0, NEW i \in IndexPaths
        PROVE  IndexHeld(s, handled[s], i)'
    <3>1. PICK c : c = ReleaseLists[s][handled[s]][i]
      OBVIOUS
    <3>2. handled'[s] = handled[s]
      BY <2>0, <2>1
    <3>3. CASE c = NoContent
      BY <3>1, <3>2, <3>3 DEF IndexHeld
    <3>4. CASE c # NoContent
      <4>1. Holds(Index(s, i), c)
        BY <2>0, <2>1, <3>1, <3>4 DEF HandledHeld, IndexHeld
      <4>2. ~(s = suite /\ (IndexArrives(i) \/ StoreIndex(i)))
        <5>1. ~(suite < suite)
          BY <1>0 DEF TypeOK
        <5> QED BY <2>1, <5>1 DEF HandledBefore, IndexArrives, StoreIndex
      <4>3. Holds(Index(s, i), c)'
        BY <1>0, <1>2, <4>1, <4>2, IndexStays
      <4> QED BY <3>1, <3>2, <4>3 DEF IndexHeld
    <3> QED BY <3>3, <3>4
  <2>2. ASSUME NEW s \in Suites, handled[s] # 0, NEW i \in IndexPaths, NEW a \in Artifacts,
               ListedBy(s, handled[s], i, a) # NoContent
        PROVE  Holds(Pool(a), ListedBy(s, handled[s], i, a))'
    <3>1. PICK c : c = ListedBy(s, handled[s], i, a)
      OBVIOUS
    <3>2. Holds(Pool(a), c)
      BY <2>0, <2>2, <3>1 DEF HandledHeld
    <3>3. pc = "create" => entries[a] \in {NoContent, c}
      <4> SUFFICES ASSUME pc = "create", entries[a] # NoContent  PROVE entries[a] = c
        OBVIOUS
      <4>1. PICK j \in IndexPaths : entries[a] = ListedBy(suite, release, j, a)
        BY <2>0 DEF IndexesHeld, Working
      <4>2. suite \in Suites /\ release \in 1..NumReleases
        BY <1>0 DEF InSuite, HasRelease
      <4>3. ~(suite < suite)
        BY <1>0 DEF TypeOK
      <4>4. handled[suite] = 0
        BY <4>2, <4>3 DEF HandledBefore
      <4>5. TakenUp(suite) = release /\ TakenUp(s) = handled[s] /\ release # 0
        BY <2>2, <4>2, <4>4 DEF TakenUp, Working
      <4>6. Agree(s, handled[s], suite, release)
        BY <2>0, <2>2, <4>2, <4>5 DEF Clean
      <4> QED BY <2>2, <3>1, <4>1, <4>6 DEF Agree
    <3>4. Holds(Pool(a), c)'
      BY <1>2, <3>2, <3>3, PoolStays
    <3> QED BY <2>0, <2>2, <3>1, <3>4
  <2>3. CASE DecidePublish
    <3>1. /\ pc = "publish" /\ suite \in Suites /\ release \in 1..NumReleases
          /\ handled'[suite] = release
          /\ \A s \in Suites : s # suite => handled'[s] = handled[s]
          /\ UNCHANGED <<row, disk>>
      BY <1>0, <2>3 DEF DecidePublish, InSuite, HasRelease, TypeOK, stores
    <3>2. handled[suite] = 0
      <4>1. ~(suite < suite)
        BY <1>0 DEF TypeOK
      <4> QED BY <3>1, <4>1 DEF HandledBefore
    <3>3. \A i \in IndexPaths : decision[i] = "none"
      BY <3>1 DEF Decided, Working, NoDecision
    <3>4. /\ \A i \in IndexPaths : IndexHeld(suite, release, i)
          /\ \A i \in IndexPaths, a \in Artifacts :
               ListedBy(suite, release, i, a) # NoContent => entries[a] # NoContent
          /\ \A a \in Artifacts : entries[a] # NoContent =>
               \E j \in IndexPaths : entries[a] = ListedBy(suite, release, j, a)
      BY <2>0, <3>1, <3>3 DEF IndexesHeld, Working
    <3>5. Agree(suite, release, suite, release)
      <4>1. TakenUp(suite) = release /\ release # 0
        BY <3>1, <3>2 DEF TakenUp, Working
      <4> QED BY <2>0, <3>1, <4>1 DEF Clean
    <3>6. ASSUME NEW i \in IndexPaths, NEW a \in Artifacts,
                 ListedBy(suite, release, i, a) # NoContent
          PROVE  Holds(Pool(a), ListedBy(suite, release, i, a))
      <4>1. entries[a] # NoContent
        BY <3>4, <3>6
      <4>2. PICK j \in IndexPaths : entries[a] = ListedBy(suite, release, j, a)
        BY <3>4, <4>1
      <4>3. entries[a] = ListedBy(suite, release, i, a)
        BY <3>5, <3>6, <4>1, <4>2 DEF Agree
      <4>4. Holds(Pool(a), entries[a])
        BY <2>0, <3>1, <4>1 DEF PackagesHeld, Settled
      <4> QED BY <4>3, <4>4
    <3>7. ASSUME NEW s \in Suites, NEW r, s = suite, r = release, NEW i \in IndexPaths
          PROVE  /\ IndexHeld(s, r, i)'
                 /\ \A a \in Artifacts : ListedBy(s, r, i, a) # NoContent =>
                      Holds(Pool(a), ListedBy(s, r, i, a))'
      <4>1. /\ IndexHeld(s, r, i)
            /\ \A a \in Artifacts : ListedBy(s, r, i, a) # NoContent =>
                 Holds(Pool(a), ListedBy(s, r, i, a))
        BY <3>4, <3>6, <3>7
      <4> QED BY <3>1, <4>1 DEF IndexHeld, Holds, Claimed
    <3> QED BY <2>1, <2>2, <3>1, <3>7 DEF HandledHeld
  <2>4. CASE handled' = handled
    BY <2>0, <2>1, <2>2, <2>4, SMTT(30) DEF HandledHeld
  <2>5. DecidePublish \/ handled' = handled
    BY <1>2, <2>0 DEF Clean, Next, StartSession, SyncStep, EnterSuite, ReleaseStage, CheckRelease,
       ReleaseArrives, ReleaseFails,
       StoreRelease, IndexStage, DecideIndexes, IndexesDone, SkipIndex, IndexArrives,
       StoreIndex, IndexFails, ArtifactStage, DecideArtifacts, CollectResults,
       VerifiedDone, FailedDone, ArtifactArrives, ArtifactFails, CreateRows,
       MarkVerified, MarkFailed, PublishStage, CommitSnapshot,
       SnapshotFails, Finish, EndRun, Environment, Cancel, Crash, Aborts,
       StorageInitialize, Upstream, MarkIndexed, vars
  <2> QED BY <2>3, <2>4, <2>5
<1> QED BY <1>1, <1>2

(* The invariant of completed sessions holds at the start. *)
LEMMA InitComplete == Init => CompleteInv
<1> SUFFICES ASSUME Init PROVE CompleteInv
  OBVIOUS
<1>1. SafeInv
  BY InitSafe
<1>2. IndexRows
  BY FileTypes DEF Init, IndexRows, ReleaseSeen, HasOne, Working, IndexRow, Claimed, NoRow
<1>3. SessionInv
  BY DEF Init, SessionInv, HandledBefore, Arrived, Decided, IndexesHeld, PackagesHeld,
     HandledHeld, Clean, Working
<1> QED BY <1>1, <1>2, <1>3 DEF CompleteInv

(* Every step preserves it, as long as upstream does not bring an index back. *)
LEMMA StepComplete ==
  ASSUME NeverReverts, CompleteInv, [Next]_vars
  PROVE  CompleteInv'
<1>1. SafeInv /\ TypeInv /\ IndexRows /\ SessionInv
  BY DEF CompleteInv, SafeInv
<1>2. SafeInv'
  BY <1>1, StepSafe
<1>3. IndexRows'
  BY <1>1, StepIndexRows DEF SessionInv
<1>4. SessionInv'
  BY <1>1, StepControl, StepIndexes, StepPackages, StepHandled DEF SessionInv
<1> QED BY <1>2, <1>3, <1>4 DEF CompleteInv

(* If upstream brings back no index it has replaced, and the releases a       *)
(* session handles agree on every package, then a session that ends completed *)
(* has put every index and package of these releases in the mirror, however   *)
(* many crashes, aborts and failures the sessions before it met.              *)
THEOREM CompletedSessionsAreComplete ==
  NeverReverts => (Spec /\ []HandledAgree => CompletedIsComplete)
<1> SUFFICES ASSUME NeverReverts PROVE Spec /\ []HandledAgree => CompletedIsComplete
  OBVIOUS
<1>1. CompleteInv /\ [Next]_vars => CompleteInv'
  BY StepComplete
<1>2. CompleteInv /\ HandledAgree /\ [Next]_vars =>
        [(Finish /\ Status = "completed" /\ ~dbFailed) =>
           \A s \in Suites : handled[s] # 0 => Mirrored(s, handled[s])]_vars
  <2> SUFFICES ASSUME CompleteInv, HandledAgree, Finish, Status = "completed", ~dbFailed,
                      NEW s \in Suites, handled[s] # 0
               PROVE  Mirrored(s, handled[s])
    OBVIOUS
  <2>1. TypeOK /\ HandledHeld
    BY DEF CompleteInv, SafeInv, TypeInv, SessionInv
  <2>2. ~cancelled /\ count.failed = 0
    <3>1. cancelled \in BOOLEAN /\ count.failed \in Nat /\ count.downloaded \in Nat
      BY <2>1 DEF TypeOK, Count
    <3>2. ~cancelled
      BY DEF Status
    <3>3. ~(count.failed > 0)
      BY <3>1, <3>2 DEF Status
    <3> QED BY <3>1, <3>2, <3>3
  <2>3. pc = "finish"
    BY DEF Finish
  <2>4. \A t \in Suites : TakenUp(t) # 0 => TakenUp(t) = handled[t] /\ handled[t] # 0
    BY <2>3 DEF TakenUp, Working
  <2>5. Clean
    BY <2>2, <2>3, <2>4 DEF Clean, HandledAgree
  <2>6. \A i \in IndexPaths :
          /\ IndexHeld(s, handled[s], i)
          /\ \A a \in Artifacts : ListedBy(s, handled[s], i, a) # NoContent =>
               Holds(Pool(a), ListedBy(s, handled[s], i, a))
    BY <2>1, <2>5 DEF HandledHeld
  <2> QED BY <2>6 DEF Mirrored, IndexHeld, ListedBy
<1> QED BY <1>1, <1>2, InitComplete, PTL DEF Spec, CompletedIsComplete

-----------------------------------------------------------------------------
(* What Indexer takes for granted of the mirror that goes on beside it.       *)

(* The digest get_verified_files reads for an index. *)
Digest(f) == IF Claimed(f) THEN row[f].sha ELSE NoContent

(* What may happen to an index file and its row: Upstream (neither changes),  *)
(* Fetch, Store and Remove of Indexer, in this order.                         *)
IndexMoves(s, i) ==
  LET f == Index(s, i) IN
  \/ disk'[f] = disk[f] /\ Digest(f)' = Digest(f)
  \/ /\ disk'[f] = ReleaseLists[s][remote[s]][i]
     /\ remote' = remote /\ Digest(f)' = Digest(f)
  \/ /\ disk[f] # NoContent /\ Digest(f)' = disk[f]
     /\ remote' = remote /\ disk'[f] = disk[f]
  \/ /\ Digest(f) # NoContent /\ disk[f] # Digest(f) /\ disk'[f] = NoContent
     /\ remote' = remote /\ Digest(f)' = Digest(f)

(* Only a row that vouches for a content has a path for the integrity scan. *)
PathsVouched ==
  \A s \in Suites, i \in IndexPaths :
    /\ row[Index(s, i)].path => Claimed(Index(s, i))
    /\ Claimed(Index(s, i)) => row[Index(s, i)].sha # NoContent

MovesInv == TypeInv /\ HandledBefore /\ Arrived /\ Decided /\ PathsVouched

(* What a stored index leaves in its row. *)
LEMMA IndexStored ==
  ASSUME TypeInv, Arrived, NEW s \in Suites, NEW i \in IndexPaths, s = suite, StoreIndex(i)
  PROVE  /\ disk' = disk /\ remote' = remote /\ disk[Index(s, i)] # NoContent
         /\ \/ row' = row
            \/ Claimed(Index(s, i))' /\ row'[Index(s, i)].sha = disk[Index(s, i)]
<1> DEFINE f == Index(s, i)
<1>1. TypeOK
  BY DEF TypeInv
<1>2. f \in File
  BY FileTypes
<1>3. disk[f] = ReleaseLists[s][release][i] /\ disk[f] # NoContent
  BY DEF StoreIndex, Arrived
<1>4. CASE row' # row
  <2>1. row' = Upserted(f, ReleaseLists[s][release][i], NoContent)
    BY <1>4 DEF StoreIndex, Commit
  <2>2. row'[f].state = "VERIFIED" /\ row'[f].sha = disk[f]
    BY <1>1, <1>2, <1>3, <2>1 DEF Upserted, TypeOK
  <2> QED BY <1>3, <2>2 DEF StoreIndex, Claimed
<1> QED BY <1>3, <1>4 DEF StoreIndex

(* Rows of indexes stay as the scan expects them. *)
LEMMA StepMoves == MovesInv /\ [Next]_vars => MovesInv'
<1> SUFFICES ASSUME MovesInv, [Next]_vars PROVE MovesInv'
  OBVIOUS
<1>0. TypeInv /\ TypeInv' /\ Arrived /\ TypeOK
  BY StepType DEF MovesInv, TypeInv
<1>1. HandledBefore' /\ Arrived' /\ Decided'
  BY StepControl DEF MovesInv
<1>2. ASSUME NEW s \in Suites, NEW i \in IndexPaths
      PROVE  /\ row'[Index(s, i)].path => Claimed(Index(s, i))'
             /\ Claimed(Index(s, i))' => row'[Index(s, i)].sha # NoContent
  <2>0. /\ row[Index(s, i)].path => Claimed(Index(s, i))
        /\ Claimed(Index(s, i)) => row[Index(s, i)].sha # NoContent
    BY DEF MovesInv, PathsVouched
  <2>1. CASE s = suite /\ IndexArrives(i)
    BY <2>0, <2>1 DEF IndexArrives, Claimed
  <2>2. CASE s = suite /\ StoreIndex(i)
    <3>1. /\ disk[Index(s, i)] # NoContent
          /\ \/ row' = row
             \/ Claimed(Index(s, i))' /\ row'[Index(s, i)].sha = disk[Index(s, i)]
      BY <1>0, <2>2, IndexStored
    <3> QED BY <2>0, <3>1 DEF Claimed
  <2>3. CASE ~(s = suite /\ (IndexArrives(i) \/ StoreIndex(i)))
    BY <1>0, <2>0, <2>3, IndexKept
  <2> QED BY <2>1, <2>2, <2>3
<1> QED BY <1>0, <1>1, <1>2 DEF MovesInv, PathsVouched

(* Whatever a session, a crash, an integrity scan or another process does, an *)
(* index file and its digest change only as Indexer says: the file becomes    *)
(* what upstream serves, the row takes the digest of the file, or the scan    *)
(* removes a file that is not the one of its row.                             *)
THEOREM IndexesMoveAsIndexed ==
  Spec => [][\A s \in Suites, i \in IndexPaths : IndexMoves(s, i)]_vars
<1>1. Init => MovesInv
  <2> SUFFICES ASSUME Init PROVE MovesInv
    OBVIOUS
  <2>1. TypeInv
    BY InitType
  <2>2. HandledBefore /\ Arrived /\ Decided
    BY DEF Init, HandledBefore, Arrived, Decided, Working
  <2>3. PathsVouched
    BY FileTypes DEF Init, PathsVouched, Claimed, NoRow
  <2> QED BY <2>1, <2>2, <2>3 DEF MovesInv
<1>2. MovesInv /\ [Next]_vars => [\A s \in Suites, i \in IndexPaths : IndexMoves(s, i)]_vars
  <2> SUFFICES ASSUME MovesInv, Next, NEW s \in Suites, NEW i \in IndexPaths
               PROVE  IndexMoves(s, i)
    OBVIOUS
  <2> DEFINE f == Index(s, i)
  <2>0. TypeInv /\ TypeOK /\ Arrived /\ f \in File
    BY FileTypes DEF MovesInv, TypeInv
  <2>1. CASE s = suite /\ IndexArrives(i)
    <3>1. /\ disk'[f] = ReleaseLists[s][remote[s]][i]
          /\ row' = row /\ remote' = remote
      BY <2>0, <2>1 DEF IndexArrives, Serves, TypeOK
    <3> QED BY <3>1 DEF IndexMoves, Digest, Claimed
  <2>2. CASE s = suite /\ StoreIndex(i)
    <3>1. /\ disk' = disk /\ remote' = remote /\ disk[f] # NoContent
          /\ \/ row' = row
             \/ Claimed(f)' /\ row'[f].sha = disk[f]
      BY <2>0, <2>2, IndexStored
    <3>2. Digest(f)' = Digest(f) \/ Digest(f)' = disk[f]
      BY <3>1 DEF Digest, Claimed
    <3> QED BY <3>1, <3>2 DEF IndexMoves
  <2>3. CASE ~(s = suite /\ (IndexArrives(i) \/ StoreIndex(i)))
    <3>1. /\ Claimed(f)' <=> Claimed(f)
          /\ row'[f].sha = row[f].sha
          /\ disk'[f] # disk[f] =>
               pc = "idle" /\ disk'[f] = NoContent /\ row[f].path /\ disk[f] # row[f].sha
      BY <2>0, <2>3, IndexKept
    <3>2. Digest(f)' = Digest(f)
      BY <3>1 DEF Digest
    <3>3. CASE disk'[f] = disk[f]
      BY <3>2, <3>3 DEF IndexMoves
    <3>4. CASE disk'[f] # disk[f]
      <4>1. Claimed(f) /\ row[f].sha # NoContent
        BY <3>1, <3>4 DEF MovesInv, PathsVouched
      <4>2. StorageInitialize
        <5>1. ~UNCHANGED disk
          BY <3>4
        <5> QED BY <3>1, <3>4, <5>1 DEF Next, StartSession, SyncStep, EnterSuite, ReleaseStage,
             CheckRelease, ReleaseArrives, ReleaseFails, LeaveSuite, stores,
             StoreRelease, IndexStage, DecideIndexes, IndexesDone, SkipIndex, IndexArrives,
             StoreIndex, IndexFails, ArtifactStage, DecideArtifacts, CollectResults,
             VerifiedDone, FailedDone, ArtifactArrives, ArtifactFails, CreateRows,
             MarkVerified, MarkFailed, PublishStage, DecidePublish, CommitSnapshot,
             SnapshotFails, Finish, EndRun, Environment, Cancel, Crash, Aborts,
             Upstream, MarkIndexed
      <4>3. remote' = remote
        BY <4>2 DEF StorageInitialize
      <4>4. Digest(f) = row[f].sha
        BY <4>1 DEF Digest
      <4> QED BY <3>1, <3>2, <3>4, <4>1, <4>3, <4>4 DEF IndexMoves
    <3> QED BY <3>3, <3>4
  <2> QED BY <2>1, <2>2, <2>3
<1> QED BY <1>1, <1>2, StepMoves, PTL DEF Spec
=============================================================================
