---------------------------- MODULE ArtifactProofs ----------------------------
(***************************************************************************)
(* Proofs about the parts an SBOM is made by beside SbomRun and Container: *)
(* the merge of image layers, the scanners, the enrichers, and all of them *)
(* together as MCSbom has them.                                            *)
(***************************************************************************)
EXTENDS MCSbom, SbomRunProofs, ContainerProofs, FiniteSetTheorems, WellFoundedInduction

(* The invariant of the merge is the property itself, with the types: what a  *)
(* layer adds and hides is compared on both sides of one step.                *)
LayersInv == LayersTypeOK /\ MergedIsOverlay

LEMMA LayersStarts == LayersInit => LayersInv
<1> SUFFICES ASSUME LayersInit PROVE LayersInv
  OBVIOUS
<1>1. LayersTypeOK
  <2>1. layers \in Nat /\ 0 \in 0..layers /\ 0 \in Numbers
    BY LayersAssumption DEF LayersInit, Numbers
  <2>2. NoView \in [Paths -> [kind : {"none", "file", "dir", "link"}, layer : Numbers]]
    BY <2>1 DEF NoView, Nothing
  <2>3. result \in [outcome : Outcomes, status : Numbers]
    BY <2>1 DEF LayersInit, Outcomes
  <2> QED
    BY <2>1, <2>2, <2>3 DEF LayersInit, LayersTypeOK
<1>2. MergedIsOverlay
  BY DEF LayersInit, MergedIsOverlay, FileShown, NoView, Nothing
<1> QED
  BY <1>1, <1>2 DEF LayersInv

LEMMA LayersTyped ==
  ASSUME LayersTypeOK
  PROVE  /\ layers \in Nat /\ layers <= MaxLayers /\ merged \in Nat /\ merged <= layers
         /\ vfs[Status] \in Numbers /\ 0 \in Numbers
         /\ merged < layers => merged + 1 \in Numbers /\ merged + 1 \in 0..layers
BY LayersAssumption DEF LayersTypeOK, Numbers

(* A layer that is merged: one file of the filesystem and of the overlay. *)
LEMMA MergeMatches ==
  ASSUME LayersTypeOK, NEW l \in Layer, NEW n, n # 0, ~Odd(view, l), NEW q \in Paths,
         vfs[q] = FileShown(q)
  PROVE  Apply(Stored(vfs, FilesIn(l), n), l)[q]
           = LET v == Overlaid(view, l, n)[q] IN IF v.kind = "file" THEN v.layer ELSE 0
<1>1. /\ l.gone \in SUBSET Paths
      /\ \A r \in Paths : l.kind[r] \in {"none", "file", "dir", "link"}
  BY DEF Layer
<1>2. CASE q \in Entries(l)
  <2>1. q \notin Doomed(l)
    BY <1>2 DEF Doomed, Odd
  <2>2. CASE l.kind[q] = "file"
    BY <1>2, <2>1, <2>2 DEF Apply, Stored, FilesIn, Overlaid
  <2>3. CASE l.kind[q] \in {"dir", "link"}
    <3>1. view[q].kind # "file"
      BY <2>3 DEF Odd
    <3> QED
      BY <1>2, <2>1, <2>3, <3>1 DEF Apply, Stored, FilesIn, Overlaid, FileShown
  <2> QED
    BY <1>1, <1>2, <2>2, <2>3 DEF Entries
<1>3. CASE q \notin Entries(l) /\ q \in Doomed(l)
  <2>1. Hidden(l, q)
    BY <1>3 DEF Doomed, Hidden
  <2> QED
    BY <1>3, <2>1 DEF Apply, Overlaid, Nothing
<1>4. CASE q \notin Entries(l) /\ q \notin Doomed(l)
  <2>1. Apply(Stored(vfs, FilesIn(l), n), l)[q] = vfs[q]
    BY <1>4 DEF Apply, Stored, FilesIn, Entries
  <2>2. CASE Hidden(l, q)
    <3>1. \E r \in Paths : Under(r, q) /\ (r \in l.gone \/ l.kind[r] \in {"file", "link"})
      BY <1>1, <1>4, <2>2 DEF Doomed, Hidden
    <3>2. view[q].kind = "none"
      BY <3>1 DEF Odd
    <3> QED
      BY <1>4, <2>1, <2>2, <3>2 DEF Overlaid, Nothing, FileShown
  <2>3. CASE ~Hidden(l, q)
    BY <1>4, <2>1, <2>3 DEF Overlaid, FileShown
  <2> QED
    BY <2>2, <2>3
<1> QED
  BY <1>2, <1>3, <1>4

LEMMA MergeKeeps ==
  ASSUME LayersInv, MergeLayer
  PROVE  LayersInv'
<1>0. LayersTypeOK /\ MergedIsOverlay /\ merged < layers /\ result.outcome = "running"
  BY DEF LayersInv, MergeLayer, AtLayer, Running
<1>1. PICK l \in Layer :
        /\ vfs' = Apply(Stored(vfs, FilesIn(l), merged + 1), l)
        /\ plain' = (plain /\ ~Odd(view, l))
        /\ view' = IF plain' THEN Overlaid(view, l, merged + 1) ELSE NoView
  BY DEF MergeLayer
<1>2. PICK n \in Numbers : n = merged + 1 /\ n # 0 /\ n \in 0..layers
  BY <1>0, LayersTyped
<1>3. UNCHANGED <<format, layers, said, cancelled, result>> /\ merged' = n
  BY <1>2 DEF MergeLayer
<1>4. vfs' \in [Paths -> Numbers]
  <2>1. \A q \in Paths : Apply(Stored(vfs, FilesIn(l), n), l)[q] \in Numbers
    BY <1>0, <1>2, LayersTyped DEF Apply, Stored, LayersTypeOK
  <2> QED
    BY <1>1, <1>2, <2>1 DEF Apply
<1>5. view' \in [Paths -> [kind : {"none", "file", "dir", "link"}, layer : Numbers]]
  <2>1. CASE plain'
    <3>1. \A q \in Paths : l.kind[q] \in {"none", "file", "dir", "link"}
      BY DEF Layer
    <3> QED
      BY <1>0, <1>1, <1>2, <2>1, <3>1, LayersTyped DEF Overlaid, Nothing, LayersTypeOK
  <2>2. CASE ~plain'
    BY <1>0, <1>1, <2>2, LayersTyped DEF NoView, Nothing
  <2> QED
    BY <2>1, <2>2
<1>6. plain' \in BOOLEAN
  BY <1>0, <1>1 DEF LayersTypeOK
<1>7. LayersTypeOK'
  BY <1>0, <1>2, <1>3, <1>4, <1>5, <1>6 DEF LayersTypeOK, Numbers
<1>8. MergedIsOverlay'
  <2> SUFFICES ASSUME plain', ~said' PROVE \A q \in Paths : vfs'[q] = FileShown(q)'
    BY <1>0, <1>3 DEF MergedIsOverlay
  <2>1. plain /\ ~Odd(view, l) /\ view' = Overlaid(view, l, n)
    BY <1>1, <1>2
  <2>2. \A q \in Paths : vfs[q] = FileShown(q)
    BY <1>0, <1>3, <2>1 DEF MergedIsOverlay
  <2>3. \A q \in Paths : vfs'[q] = IF view'[q].kind = "file" THEN view'[q].layer ELSE 0
    BY <1>0, <1>1, <1>2, <2>1, <2>2, MergeMatches
  <2> QED
    BY <2>3 DEF FileShown
<1> QED
  BY <1>7, <1>8 DEF LayersInv

LEMMA LayersStep == LayersInv /\ [LayersNext]_image => LayersInv'
<1> SUFFICES ASSUME LayersInv, [LayersNext]_image PROVE LayersInv'
  OBVIOUS
<1>0. LayersTypeOK /\ MergedIsOverlay
  BY DEF LayersInv
<1>1. CASE MergeLayer
  BY <1>1, MergeKeeps
<1>2. CASE LayerFails
  <2>1. PICK n \in Numbers : n = merged + 1 /\ n \in 0..layers
    BY <1>0, <1>2, LayersTyped DEF LayerFails, AtLayer
  <2>2. PICK read \in SUBSET Paths : vfs' = Stored(vfs, read, n)
    BY <1>2, <2>1 DEF LayerFails
  <2>3. vfs' \in [Paths -> Numbers]
    BY <1>0, <2>2 DEF Stored, LayersTypeOK
  <2>4. LayersTypeOK'
    BY <1>0, <1>2, <2>1, <2>3 DEF LayerFails, LayersTypeOK
  <2>5. MergedIsOverlay'
    BY <1>2 DEF LayerFails, MergedIsOverlay
  <2> QED
    BY <2>4, <2>5 DEF LayersInv
<1>3. CASE Refuse \/ Cancelled \/ LayerRaises \/ ParseDockerStatus \/ ParseOciStatus \/ CancelScan
  <2>1. UNCHANGED <<format, layers, merged, vfs, view, plain>>
    BY <1>3 DEF Refuse, Cancelled, LayerRaises, ParseStatus, ParseDockerStatus, ParseOciStatus, CancelScan
  <2>2. LayersTypeOK'
    <3>1. result' \in [outcome : Outcomes, status : Numbers]
      BY <1>0, <1>3, LayersTyped DEF Refuse, Cancelled, LayerRaises, ParseDockerStatus,
         ParseOciStatus, CancelScan, Finish, LayersTypeOK, Outcomes
    <3>2. said' \in BOOLEAN
      BY <1>0, <1>3 DEF Refuse, Cancelled, LayerRaises, ParseDockerStatus, ParseOciStatus, CancelScan, LayersTypeOK
    <3>3. cancelled' \in BOOLEAN
      BY <1>0, <1>3 DEF Refuse, Cancelled, LayerRaises, ParseStatus, ParseDockerStatus, ParseOciStatus, CancelScan, LayersTypeOK
    <3> QED
      BY <1>0, <2>1, <3>1, <3>2, <3>3 DEF LayersTypeOK
  <2>3. MergedIsOverlay'
    <3>1. \A q : FileShown(q)' = FileShown(q)
      BY <2>1 DEF FileShown
    <3>2. ~said' => ~said
      BY <1>3 DEF Refuse, Cancelled, LayerRaises, ParseDockerStatus, ParseOciStatus, CancelScan
    <3>3. ~said' /\ result'.outcome = "scanned" =>
            result' = result \/ result'.status = vfs[Status]
      BY <1>3 DEF Refuse, Cancelled, LayerRaises, ParseDockerStatus, ParseOciStatus, CancelScan, Finish
    <3> QED
      BY <1>0, <2>1, <3>1, <3>2, <3>3, LayersAssumption DEF MergedIsOverlay
  <2> QED
    BY <2>2, <2>3 DEF LayersInv
<1>4. CASE UNCHANGED image
  BY <1>0, <1>4 DEF image, LayersInv, LayersTypeOK, MergedIsOverlay, FileShown
<1> QED
  BY <1>1, <1>2, <1>3, <1>4 DEF LayersNext

(* The merged layers and what a scan reports of them keep to their types. *)
THEOREM LayersTypeCorrect == LayersSpec => []LayersTypeOK
<1>1. LayersInv => LayersTypeOK
  BY DEF LayersInv
<1> QED
  BY <1>1, LayersStarts, LayersStep, PTL DEF LayersSpec

(* For images of any number of layers and any paths in them: as long as       *)
(* nothing has been said to be wrong and no layer uses a construct of Odd,    *)
(* the virtual filesystem is the overlay of the layers, and the status file   *)
(* parsed is the one the image shows (_merge_layer and apply_whiteouts).      *)
THEOREM MergesAreOverlays == LayersSpec => []MergedIsOverlay
<1>1. LayersInv => MergedIsOverlay
  BY DEF LayersInv
<1> QED
  BY <1>1, LayersStarts, LayersStep, PTL DEF LayersSpec

-----------------------------------------------------------------------------
(* Before any metadata is parsed, or after the metadata found was dropped.    *)
Unparsed == {"start", "delegate", "opened", "located", "squashfs", "extracted", "repository",
             "rootfs", "validated", "inspect", "mount", "read", "parse", "paths"}

Lost == "loss" \in reported

(* At each point of a scan: what has been identified is what the metadata     *)
(* lists, or a loss was reported.                                             *)
ScanHolds ==
  /\ step \in Unparsed => listed = {} /\ accepted = {}
  /\ step = "discovered" => accepted = {} /\ (listed # {} => Lost)
  /\ step = "packages" => accepted = listed \/ Lost
  /\ step = "installed" => listed = accepted \union pending \/ Lost
  /\ step # "returned" => strategy = "none"

ScanInv == ScanTypeOK /\ ScanHolds /\ PartialIsSaid /\ ReadersClosed

LEMMA ScanStarts == ScanInit => ScanInv
<1> SUFFICES ASSUME ScanInit PROVE ScanInv
  OBVIOUS
<1>1. ScanTypeOK
  BY DEF ScanInit, ScanTypeOK, Steps, Strategies
<1>2. ScanHolds /\ PartialIsSaid /\ ReadersClosed
  BY DEF ScanInit, ScanHolds, PartialIsSaid, ReadersClosed
<1> QED
  BY <1>1, <1>2 DEF ScanInv

(* A step of the search for metadata, before anything is parsed. *)
LEMMA SearchKeeps ==
  ASSUME ScanInv, step \in Unparsed, step' \in Unparsed, artifact' \in Artifacts, left' \in Nat,
         opened' \in SUBSET Readers, UNCHANGED <<listed, accepted, pending, reported, stopped, strategy>>
  PROVE  ScanInv'
<1>1. ScanTypeOK'
  BY DEF ScanInv, ScanTypeOK, Unparsed, Steps
<1>2. ScanHolds'
  BY DEF ScanInv, ScanHolds, Unparsed, Lost
<1>3. PartialIsSaid' /\ ReadersClosed'
  BY DEF ScanInv, ScanHolds, PartialIsSaid, ReadersClosed, Unparsed
<1> QED
  BY <1>1, <1>2, <1>3 DEF ScanInv

(* An exit of scan closes what is open; its result is complete, or says that  *)
(* it is not.                                                                 *)
LEMMA ExitKeeps ==
  ASSUME ScanInv, NEW s \in {"returned", "raised"}, NEW by \in Strategies, Leave(s, by),
         s = "raised" => by = "none",
         listed' \in SUBSET Packages, accepted' \in SUBSET Packages,
         reported' \in SUBSET {"loss", "note", "cancelled"},
         by = "dpkg_metadata" =>
           accepted' = listed' \/ "loss" \in reported' \/ "cancelled" \in reported'
  PROVE  ScanInv'
<1>1. opened' = {} /\ step' = s /\ strategy' = by /\ UNCHANGED <<artifact, left, pending, stopped>>
  BY DEF Leave, Closed
<1>2. ScanTypeOK'
  BY <1>1 DEF ScanInv, ScanTypeOK, Steps
<1>3. ScanHolds'
  BY <1>1 DEF ScanHolds, Unparsed
<1>4. PartialIsSaid' /\ ReadersClosed'
  BY <1>1 DEF PartialIsSaid, ReadersClosed
<1> QED
  BY <1>2, <1>3, <1>4 DEF ScanInv

LEMMA GiveUpKeeps ==
  ASSUME ScanInv, GiveUp
  PROVE  ScanInv'
<1>1. Leave("returned", "dpkg_metadata") /\ reported' = reported \union {"loss"} /\ UNCHANGED <<listed, accepted>>
  BY DEF GiveUp
<1>2. /\ listed' \in SUBSET Packages /\ accepted' \in SUBSET Packages
      /\ reported' \in SUBSET {"loss", "note", "cancelled"}
  BY <1>1 DEF ScanInv, ScanTypeOK
<1>3. "dpkg_metadata" \in Strategies
  BY DEF Strategies
<1> QED
  BY <1>1, <1>2, <1>3, ExitKeeps

LEMMA StopKeeps ==
  ASSUME ScanInv, Stop
  PROVE  ScanInv'
<1>1. PICK by \in {"filesystem_analysis", "dpkg_metadata"} : Leave("returned", by)
  BY DEF Stop
<1>2. accepted' = {} /\ reported' = reported \union {"cancelled"} /\ UNCHANGED listed
  BY DEF Stop
<1>3. /\ listed' \in SUBSET Packages /\ accepted' \in SUBSET Packages
      /\ reported' \in SUBSET {"loss", "note", "cancelled"}
  BY <1>2 DEF ScanInv, ScanTypeOK
<1>4. by \in Strategies
  BY DEF Strategies
<1> QED
  BY <1>1, <1>2, <1>3, <1>4, ExitKeeps

(* The steps that look for metadata, or give up. *)
LEMMA SearchStep ==
  ASSUME ScanInv, ~GiveUp,
         \/ DetectFormat \/ Open \/ FindSquashfs \/ Located \/ OpenSquashfs \/ ReadInSquashfs
         \/ ReadInImage \/ InspectRoots \/ Mount \/ ReadStatus
  PROVE  ScanInv'
<1> USE DEF Unparsed, At, Goto, Unread, Opens
<1>0. artifact \in Artifacts /\ left \in Nat /\ opened \in SUBSET Readers
  BY DEF ScanInv, ScanTypeOK
<1>1. step \in Unparsed
  BY DEF DetectFormat, Open, FindSquashfs, Located, OpenSquashfs, ReadInSquashfs, ReadInImage, InspectRoots, Mount, ReadStatus
<1>2. step' \in Unparsed
  BY DEF DetectFormat, Open, FindSquashfs, Located, OpenSquashfs, ReadInSquashfs, ReadInImage, InspectRoots, Mount, ReadStatus
<1>3. artifact' \in Artifacts
  BY <1>0 DEF DetectFormat, Open, FindSquashfs, Located, OpenSquashfs, ReadInSquashfs, ReadInImage, InspectRoots, Mount, ReadStatus, Artifacts
<1>4. left' \in Nat
  <2>1. left > 1 => left - 1 \in Nat
    BY <1>0
  <2>2. 1..MaxRoots \subseteq Nat
    OBVIOUS
  <2> QED
    BY <1>0, <2>1, <2>2 DEF DetectFormat, Open, FindSquashfs, Located, OpenSquashfs, ReadInSquashfs, ReadInImage, InspectRoots, Mount, ReadStatus
<1>5. opened' \in SUBSET Readers
  BY <1>0 DEF DetectFormat, Open, FindSquashfs, Located, OpenSquashfs, ReadInSquashfs, ReadInImage, InspectRoots, Mount, ReadStatus, Readers
<1>6. UNCHANGED <<listed, accepted, pending, reported, stopped, strategy>>
  BY DEF DetectFormat, Open, FindSquashfs, Located, OpenSquashfs, ReadInSquashfs, ReadInImage, InspectRoots, Mount, ReadStatus
<1> QED
  BY <1>1, <1>2, <1>3, <1>4, <1>5, <1>6, SearchKeeps

LEMMA DiscoverKeeps ==
  ASSUME ScanInv, DiscoverPackagesFiles \/ EndDiscovery
  PROVE  ScanInv'
<1>0. ScanTypeOK /\ ScanHolds
  BY DEF ScanInv
<1>a. DiscoverPackagesFiles \/ EndDiscovery
  OBVIOUS
<1>1. /\ UNCHANGED <<artifact, pending, opened, stopped, strategy, accepted>>
      /\ step \in {"repository", "discovered"}
      /\ step' \in {"rootfs", "discovered", "packages"}
  BY DEF DiscoverPackagesFiles, EndDiscovery, At, Goto, Unread
<1>2. /\ step' = "rootfs" => listed' = {}
      /\ step' = "discovered" => (listed' # {} => "loss" \in reported')
      /\ step' = "packages" => listed' = {} \/ "loss" \in reported'
  BY <1>0 DEF DiscoverPackagesFiles, EndDiscovery, At, Goto, Unread, ScanHolds, Unparsed, Lost
<1>3. accepted' = {} /\ strategy' = "none"
  BY <1>0, <1>1 DEF ScanHolds, Unparsed
<1>4. listed' \in SUBSET Packages /\ reported' \in SUBSET {"loss", "note", "cancelled"}
  <2>1. CASE DiscoverPackagesFiles
    <3>1. CASE Unread
      BY <1>0, <3>1 DEF Unread, ScanTypeOK
    <3>2. CASE ~Unread
      <4>1. PICK hidden \in SUBSET Packages :
              /\ listed' = hidden
              /\ reported' = {"note"} \union (IF hidden # {} \/ left' = 0 THEN {"loss"} ELSE {})
        BY <2>1, <3>2 DEF DiscoverPackagesFiles
      <4> QED
        BY <4>1
    <3> QED
      BY <3>1, <3>2
  <2>2. CASE EndDiscovery
    BY <1>0, <2>2 DEF EndDiscovery, ScanTypeOK
  <2> QED
    BY <1>a, <2>1, <2>2
<1>5. left' \in Nat
  <2>1. 0..MaxFiles \subseteq Nat
    OBVIOUS
  <2> QED
    BY <1>0, <2>1 DEF DiscoverPackagesFiles, EndDiscovery, At, Goto, Unread, ScanTypeOK
<1>6. ScanTypeOK'
  BY <1>0, <1>1, <1>4, <1>5 DEF ScanTypeOK, Steps
<1>7. ScanHolds'
  BY <1>1, <1>2, <1>3 DEF ScanHolds, Unparsed, Lost
<1>8. PartialIsSaid' /\ ReadersClosed'
  BY <1>1, <1>3 DEF PartialIsSaid, ReadersClosed
<1> QED
  BY <1>6, <1>7, <1>8 DEF ScanInv

LEMMA PackagesKeep ==
  ASSUME ScanInv, ParsePackagesFile
  PROVE  ScanInv'
<1>0. /\ ScanTypeOK /\ ScanHolds /\ step = "packages" /\ left > 0 /\ strategy = "none"
      /\ accepted = listed \/ "loss" \in reported
  BY DEF ScanInv, ParsePackagesFile, At, ScanHolds, Lost
<1>1. CASE Leave("raised", "none") /\ UNCHANGED <<listed, accepted, reported>>
  BY <1>0, <1>1, ExitKeeps DEF ScanTypeOK, Strategies
<1>2. CASE ~(Leave("raised", "none") /\ UNCHANGED <<listed, accepted, reported>>)
  <2>1. PICK lists \in SUBSET Packages, usable \in SUBSET Packages :
          /\ usable \subseteq lists
          /\ listed' = listed \union lists
          /\ accepted' = accepted \union usable /\ reported \subseteq reported'
          /\ reported' \in SUBSET {"loss", "note", "cancelled"}
          /\ usable # lists => "loss" \in reported'
    <3>1. CASE \E lists \in SUBSET Packages : \E usable \in SUBSET lists :
                 Parse(lists, usable) /\ accepted' = accepted \union usable
      BY <1>0, <3>1 DEF Parse, Skipped, ScanTypeOK
    <3>2. CASE /\ \E lists \in SUBSET Packages : listed' = listed \union lists
               /\ reported' = reported \union {"loss"} /\ UNCHANGED accepted
      <4>1. PICK lists \in SUBSET Packages : listed' = listed \union lists
        BY <3>2
      <4>2. PICK usable \in SUBSET Packages : usable = {}
        OBVIOUS
      <4>3. usable \subseteq lists /\ accepted' = accepted \union usable
        BY <3>2, <4>2
      <4>4. /\ reported \subseteq reported' /\ "loss" \in reported'
            /\ reported' \in SUBSET {"loss", "note", "cancelled"}
        BY <1>0, <3>2 DEF ScanTypeOK
      <4> QED
        BY <4>1, <4>3, <4>4
    <3> QED
      BY <1>2, <3>1, <3>2 DEF ParsePackagesFile
  <2>2. left' = left - 1 /\ Goto("packages")
    BY <1>2 DEF ParsePackagesFile
  <2>3. left' \in Nat
    BY <1>0, <2>2 DEF ScanTypeOK
  <2>4. accepted' = listed' \/ "loss" \in reported'
    BY <1>0, <2>1
  <2>5. ScanTypeOK'
    BY <1>0, <2>1, <2>2, <2>3 DEF ScanTypeOK, Goto, Steps
  <2>6. ScanHolds'
    BY <1>0, <2>2, <2>4 DEF ScanHolds, Goto, Unparsed, Lost
  <2>7. PartialIsSaid' /\ ReadersClosed'
    BY <1>0, <2>2 DEF PartialIsSaid, ReadersClosed, Goto
  <2> QED
    BY <2>5, <2>6, <2>7 DEF ScanInv
<1> QED
  BY <1>1, <1>2

LEMMA RepositoryKeeps ==
  ASSUME ScanInv, EndRepository
  PROVE  ScanInv'
<1>0. /\ ScanTypeOK /\ ScanHolds /\ step = "packages" /\ strategy = "none"
      /\ accepted = listed \/ "loss" \in reported
  BY DEF ScanInv, EndRepository, At, ScanHolds, Lost
<1>1. PICK unread \in SUBSET Packages :
       /\ left = 0 => unread = {}
       /\ IF accepted = {}
            THEN Goto("rootfs") /\ listed' = {} /\ UNCHANGED <<left, accepted, reported>>
            ELSE /\ Leave("returned", "dpkg_metadata")
                 /\ listed' = listed \union unread
                 /\ reported' = reported \union {"note"} \union
                      (IF left > 0 THEN {"cancelled"} ELSE {})
                 /\ UNCHANGED accepted
  BY DEF EndRepository
<1>2. CASE accepted = {}
  <2>1. ScanTypeOK'
    BY <1>0, <1>1, <1>2 DEF ScanTypeOK, Goto, Steps
  <2>2. ScanHolds'
    BY <1>0, <1>1, <1>2 DEF ScanHolds, Goto, Unparsed
  <2>3. PartialIsSaid' /\ ReadersClosed'
    BY <1>0, <1>1, <1>2 DEF PartialIsSaid, ReadersClosed, Goto
  <2> QED
    BY <2>1, <2>2, <2>3 DEF ScanInv
<1>3. CASE accepted # {}
  <2>1. Leave("returned", "dpkg_metadata") /\ accepted' = accepted
    BY <1>1, <1>3
  <2>2. /\ listed' \in SUBSET Packages /\ accepted' \in SUBSET Packages
        /\ reported' \in SUBSET {"loss", "note", "cancelled"}
    BY <1>0, <1>1, <1>3 DEF ScanTypeOK
  <2>3. left = 0 \/ left > 0
    BY <1>0 DEF ScanTypeOK
  <2>4. accepted' = listed' \/ "loss" \in reported' \/ "cancelled" \in reported'
    BY <1>0, <1>1, <1>3, <2>3
  <2> QED
    BY <2>1, <2>2, <2>4, ExitKeeps DEF Strategies
<1> QED
  BY <1>2, <1>3

LEMMA StatusKeeps ==
  ASSUME ScanInv, ParseStatusFile
  PROVE  ScanInv'
<1>0. ScanTypeOK /\ ScanHolds /\ step = "parse" /\ listed = {} /\ accepted = {} /\ strategy = "none"
  BY DEF ScanInv, ParseStatusFile, At, ScanHolds, Unparsed
<1>1. PICK lists \in SUBSET Packages : \E usable \in SUBSET lists :
       /\ Parse(lists, usable)
       /\ IF artifact \in {"iso", "img"}
            THEN Leave("returned", "dpkg_metadata") /\ accepted' = usable
            ELSE /\ step' = "installed" /\ pending' = usable
                 /\ UNCHANGED <<artifact, left, accepted, opened, stopped, strategy>>
  BY DEF ParseStatusFile
<1>2. PICK usable \in SUBSET lists :
       /\ Parse(lists, usable)
       /\ IF artifact \in {"iso", "img"}
            THEN Leave("returned", "dpkg_metadata") /\ accepted' = usable
            ELSE /\ step' = "installed" /\ pending' = usable
                 /\ UNCHANGED <<artifact, left, accepted, opened, stopped, strategy>>
  BY <1>1
<1>3. listed' = lists /\ (usable = lists \/ "loss" \in reported')
  BY <1>0, <1>2 DEF Parse, Skipped
<1>4. listed' \in SUBSET Packages /\ reported' \in SUBSET {"loss", "note", "cancelled"}
  BY <1>0, <1>2 DEF Parse, Skipped, ScanTypeOK
<1>5. CASE artifact \in {"iso", "img"}
  <2>1. Leave("returned", "dpkg_metadata") /\ accepted' = usable /\ accepted' \in SUBSET Packages
    BY <1>2, <1>5
  <2> QED
    BY <1>3, <1>4, <2>1, ExitKeeps DEF Strategies
<1>6. CASE artifact \notin {"iso", "img"}
  <2>1. step' = "installed" /\ pending' = usable /\ UNCHANGED <<artifact, left, accepted, opened, stopped, strategy>>
    BY <1>2, <1>6
  <2>2. pending' \in SUBSET Packages
    BY <2>1
  <2>3. ScanTypeOK'
    BY <1>0, <1>4, <2>1, <2>2 DEF ScanTypeOK, Steps
  <2>4. ScanHolds'
    BY <1>0, <1>3, <2>1 DEF ScanHolds, Unparsed, Lost
  <2>5. PartialIsSaid' /\ ReadersClosed'
    BY <1>0, <2>1 DEF PartialIsSaid, ReadersClosed
  <2> QED
    BY <2>3, <2>4, <2>5 DEF ScanInv
<1> QED
  BY <1>5, <1>6

LEMMA IterateKeeps ==
  ASSUME ScanInv, NEW s, NEW by,
         \/ s = "installed" /\ by = "dpkg_metadata"
         \/ s = "inferred" /\ by = "filesystem_analysis",
         Iterate(s, by)
  PROVE  ScanInv'
<1>0. /\ ScanTypeOK /\ ScanHolds /\ step = s /\ strategy = "none" /\ by \in Strategies
      /\ by = "dpkg_metadata" => listed = accepted \union pending \/ "loss" \in reported
      /\ UNCHANGED listed
  BY DEF ScanInv, Iterate, ScanHolds, Lost, Strategies
<1>1. CASE pending = {} /\ Leave("returned", by) /\ UNCHANGED <<accepted, reported>>
  <2>1. /\ listed' \in SUBSET Packages /\ accepted' \in SUBSET Packages
        /\ reported' \in SUBSET {"loss", "note", "cancelled"}
    BY <1>0, <1>1 DEF ScanTypeOK
  <2> QED
    BY <1>0, <1>1, <2>1, ExitKeeps
<1>2. CASE /\ pending # {} /\ stopped /\ Leave("returned", by)
           /\ reported' = reported \union {"cancelled"} /\ UNCHANGED accepted
  <2>1. /\ listed' \in SUBSET Packages /\ accepted' \in SUBSET Packages
        /\ reported' \in SUBSET {"loss", "note", "cancelled"}
    BY <1>0, <1>2 DEF ScanTypeOK
  <2> QED
    BY <1>0, <1>2, <2>1, ExitKeeps
<1>3. CASE /\ \E q \in pending : accepted' = accepted \union {q} /\ pending' = pending \ {q}
           /\ UNCHANGED <<artifact, step, left, reported, opened, stopped, strategy>>
  <2>1. ScanTypeOK'
    BY <1>0, <1>3 DEF ScanTypeOK
  <2>2. accepted' \union pending' = accepted \union pending
    BY <1>3
  <2>3. ScanHolds'
    BY <1>0, <1>3, <2>2 DEF ScanHolds, Unparsed, Lost
  <2>4. PartialIsSaid' /\ ReadersClosed'
    BY <1>0, <1>3 DEF PartialIsSaid, ReadersClosed
  <2> QED
    BY <2>1, <2>3, <2>4 DEF ScanInv
<1> QED
  BY <1>1, <1>2, <1>3 DEF Iterate

LEMMA PathsKeep ==
  ASSUME ScanInv, AnalyzeFilesystem
  PROVE  ScanInv'
<1>0. ScanTypeOK /\ ScanHolds /\ step = "paths" /\ strategy = "none" /\ UNCHANGED listed
  BY DEF ScanInv, AnalyzeFilesystem, At, ScanHolds, Unparsed
<1>1. PICK found \in SUBSET Packages :
       CASE artifact = "img" -> Leave("returned", "filesystem_analysis") /\ accepted' = found
         [] artifact = "iso" -> Goto("analysed") /\ accepted' = found /\ UNCHANGED left
         [] OTHER -> /\ step' = "inferred" /\ pending' = found
                     /\ UNCHANGED <<artifact, accepted, left, opened, stopped, strategy>>
  BY DEF AnalyzeFilesystem
<1>2. listed' \in SUBSET Packages /\ reported' \in SUBSET {"loss", "note", "cancelled"}
  BY <1>0 DEF AnalyzeFilesystem, ScanTypeOK
<1>3. CASE artifact = "img"
  <2>1. Leave("returned", "filesystem_analysis") /\ accepted' = found /\ accepted' \in SUBSET Packages
    BY <1>1, <1>3
  <2> QED
    BY <1>2, <2>1, ExitKeeps DEF Strategies
<1>4. CASE artifact # "img"
  <2>1. /\ step' \in {"analysed", "inferred"} /\ accepted' \in SUBSET Packages /\ pending' \in SUBSET Packages
        /\ UNCHANGED <<artifact, left, opened, stopped, strategy>>
    <3>1. CASE artifact = "iso"
      BY <1>0, <1>1, <3>1 DEF Goto, ScanTypeOK
    <3>2. CASE artifact # "iso"
      BY <1>0, <1>1, <1>4, <3>2 DEF ScanTypeOK
    <3> QED
      BY <3>1, <3>2
  <2>2. ScanTypeOK'
    BY <1>0, <1>2, <2>1 DEF ScanTypeOK, Steps
  <2>3. ScanHolds'
    BY <1>0, <2>1 DEF ScanHolds, Unparsed
  <2>4. PartialIsSaid' /\ ReadersClosed'
    BY <1>0, <2>1 DEF PartialIsSaid, ReadersClosed
  <2> QED
    BY <2>2, <2>3, <2>4 DEF ScanInv
<1> QED
  BY <1>3, <1>4

LEMMA ScanStep == ScanInv /\ [ScanNext]_scan => ScanInv'
<1> SUFFICES ASSUME ScanInv, [ScanNext]_scan PROVE ScanInv'
  OBVIOUS
<1>1. CASE \/ DetectFormat \/ Open \/ FindSquashfs \/ Located \/ OpenSquashfs \/ ReadInSquashfs
           \/ ReadInImage \/ InspectRoots \/ Mount \/ ReadStatus
  BY <1>1, GiveUpKeeps, SearchStep
<1>2. CASE Stop
  BY <1>2, StopKeeps
<1>3. CASE DiscoverPackagesFiles \/ EndDiscovery
  BY <1>3, DiscoverKeeps
<1>4. CASE ParsePackagesFile
  BY <1>4, PackagesKeep
<1>5. CASE EndRepository
  BY <1>5, RepositoryKeeps
<1>6. CASE ParseStatusFile
  BY <1>6, StatusKeeps
<1>7. CASE IterateStatus
  BY <1>7, IterateKeeps DEF IterateStatus
<1>8. CASE IteratePaths
  BY <1>8, IterateKeeps DEF IteratePaths
<1>9. CASE AnalyzeFilesystem
  BY <1>9, PathsKeep
<1>10. CASE EndAnalysis
  <2>1. Leave("returned", "filesystem_analysis") /\ UNCHANGED <<listed, accepted, reported>>
    BY <1>10 DEF EndAnalysis
  <2>2. /\ listed' \in SUBSET Packages /\ accepted' \in SUBSET Packages
        /\ reported' \in SUBSET {"loss", "note", "cancelled"}
    BY <2>1 DEF ScanInv, ScanTypeOK
  <2> QED
    BY <2>1, <2>2, ExitKeeps DEF Strategies
<1>11. CASE CancelToken \/ UNCHANGED scan
  <2>1. /\ UNCHANGED <<artifact, step, left, listed, accepted, pending, reported, opened, strategy>>
        /\ stopped' = TRUE \/ stopped' = stopped
    BY <1>11 DEF CancelToken, scan
  <2>2. ScanTypeOK'
    BY <2>1 DEF ScanInv, ScanTypeOK
  <2>3. ScanHolds' /\ PartialIsSaid' /\ ReadersClosed'
    BY <2>1 DEF ScanInv, ScanHolds, Lost, PartialIsSaid, ReadersClosed
  <2> QED
    BY <2>2, <2>3 DEF ScanInv
<1> QED
  BY <1>1, <1>2, <1>3, <1>4, <1>5, <1>6, <1>7, <1>8, <1>9, <1>10, <1>11 DEF ScanNext

(* The state of a scan keeps to its types. *)
THEOREM ScanTypeCorrect == ScanSpec => []ScanTypeOK
<1>1. ScanInv => ScanTypeOK
  BY DEF ScanInv
<1> QED
  BY <1>1, ScanStarts, ScanStep, PTL DEF ScanSpec

(* Whatever the metadata lists, wherever the scan fails or is cancelled: a     *)
(* result that lacks a listed package says so (scan of each scanner).          *)
THEOREM LossesAreSaid == ScanSpec => []PartialIsSaid
<1>1. ScanInv => PartialIsSaid
  BY DEF ScanInv
<1> QED
  BY <1>1, ScanStarts, ScanStep, PTL DEF ScanSpec

(* On every path out of scan the readers it opened are closed (the finally     *)
(* clauses of ISOScanner.scan, _scan_squashfs, IMGScanner.scan, QCOW2Scanner). *)
THEOREM ScansCloseReaders == ScanSpec => []ReadersClosed
<1>1. ScanInv => ReadersClosed
  BY DEF ScanInv
<1> QED
  BY <1>1, ScanStarts, ScanStep, PTL DEF ScanSpec

-----------------------------------------------------------------------------
(* Numbers have a least one, and bounded numbers a greatest: Max of            *)
(* FiniteSetsExt.                                                              *)
LEMMA LeastOne ==
  ASSUME NEW S, S \subseteq Nat, S # {}
  PROVE  \E x \in S : \A y \in S : x <= y
<1>1. IsWellFoundedOn(OpToRel(<, Nat), Nat)
  BY NatLessThanWellFounded
<1>2. PICK x \in S : \A y \in S : ~(<<y, x>> \in OpToRel(<, Nat))
  BY <1>1, WFMin, Zenon
<1>3. \A y \in S : x <= y
  <2>1. SUFFICES ASSUME NEW y \in S, y < x PROVE FALSE
    OBVIOUS
  <2>2. <<y, x>> \in OpToRel(<, Nat)
    BY <2>1 DEF OpToRel
  <2> QED
    BY <1>2, <2>2
<1> QED
  BY <1>3

LEMMA Greatest ==
  ASSUME NEW n \in Nat, NEW S, S \subseteq 0..n, S # {}
  PROVE  Max(S) \in S /\ \A y \in S : Max(S) >= y
<1>0. PICK T : T = {n - x : x \in S}
  OBVIOUS
<1>a. \A x \in S : n - x \in T /\ n - x \in Nat
  BY <1>0
<1>b. \A t \in T : \E x \in S : t = n - x
  BY <1>0
<1>1. T \subseteq Nat /\ T # {}
  BY <1>a, <1>b
<1>2. PICK t \in T : \A y \in T : t <= y
  BY <1>1, LeastOne
<1>3. PICK x \in S : t = n - x
  BY <1>b
<1>4. \A y \in S : x >= y
  <2> SUFFICES ASSUME NEW y \in S PROVE x >= y
    OBVIOUS
  <2>1. n - x <= n - y
    BY <1>a, <1>2, <1>3
  <2>2. n \in Int /\ x \in Int /\ y \in Int
    OBVIOUS
  <2> QED
    BY <2>1, <2>2
<1> QED
  BY <1>4 DEF Max

Instance == [binary : Binaries, filename : Filenames, snapshot : Ids]

(* r is the row of the newest instance of package b in snapshot s. *)
Newest(r, b, s) == Matching(b, s) # {} /\ r = Max(Matching(b, s))

(* A run x, quiet if nothing failed or was indexed meanwhile: a snapshot that  *)
(* nobody named early is published, and no instance is added to it any more;   *)
(* what the run has found, and put out, is the newest instance there; when it  *)
(* is quiet and comes to the archives, there is none.                          *)
RunIs(x, quiet) ==
  LET s == x.snapshot IN
  /\ s > 0 /\ s \notin early => s \in published
  /\ x.step \in {"cached?", "query", "store"} => s > 0
  /\ x.step = "store" /\ s \notin early => Newest(x.found, x.at, s)
  /\ x.step = "extract" /\ quiet => Matching(x.at, s) = {}
  /\ \A b \in Binaries :
       /\ x.outputs[b].tier \in {"cache", "metadata"} /\ s \notin early =>
            Newest(x.outputs[b].row, b, s)
       /\ x.outputs[b].tier \in {"deb", "none"} /\ quiet => Matching(b, s) = {}

RunsHold == \A e \in Enrichers : RunIs(enricher[e], calm[e])

(* An entry of the cache for such a snapshot is the newest instance, too. *)
EntriesHold ==
  \A b \in Binaries, s \in Ids : cache[<<b, s>>] # NoRow /\ s \notin early =>
    s \in published /\ Newest(cache[<<b, s>>], b, s)

EnrichmentInv == EnrichmentTypeOK /\ RunsHold /\ EntriesHold

LEMMA EnrichmentStarts == EnrichmentInit => EnrichmentInv
<1> SUFFICES ASSUME EnrichmentInit PROVE EnrichmentInv
  OBVIOUS
<1>1. IdleRun \in EnricherRun
  BY EnrichmentAssumption DEF IdleRun, EnricherRun, Pending, Tiers, NoRow, Binaries
<1>2. instances \in Seq(Instance) /\ Len(instances) = 0
  BY DEF EnrichmentInit
<1>3. EnrichmentTypeOK
  BY <1>1, <1>2, EnrichmentAssumption DEF EnrichmentInit, EnrichmentTypeOK, Instance, NoRow
<1>4. RunsHold
  <2> SUFFICES ASSUME NEW e \in Enrichers PROVE RunIs(IdleRun, FALSE)
    BY DEF RunsHold, EnrichmentInit
  <2> QED
    BY DEF RunIs, IdleRun, Pending
<1>5. EntriesHold
  BY DEF EntriesHold, EnrichmentInit
<1> QED
  BY <1>3, <1>4, <1>5 DEF EnrichmentInv

(* The instances of a package in a snapshot are rows; there is no snapshot 0. *)
LEMMA MatchingRows ==
  ASSUME EnrichmentTypeOK, NEW b, NEW s
  PROVE  /\ Matching(b, s) \subseteq 1..Len(instances) /\ Len(instances) \in Nat
         /\ \A i \in Matching(b, s) : s \in Ids /\ i \in 0..MaxRows
         /\ Matching(b, s) # {} => Max(Matching(b, s)) \in Matching(b, s)
<1>1. instances \in Seq(Instance) /\ Len(instances) \in Nat /\ DOMAIN instances = 1..Len(instances)
  BY DEF EnrichmentTypeOK, Instance
<1>2. \A i \in 1..Len(instances) : instances[i] \in Instance
  BY <1>1
<1>3. Matching(b, s) \subseteq 1..Len(instances)
  BY <1>1 DEF Matching
<1>4. \A i \in Matching(b, s) : s \in Ids
  BY <1>1, <1>2 DEF Matching, Instance
<1>5. \A i \in 1..Len(instances) : i \in 0..MaxRows
  BY <1>1, EnrichmentAssumption DEF EnrichmentTypeOK
<1>6. Matching(b, s) \subseteq 0..Len(instances)
  BY <1>1, <1>3
<1>7. Matching(b, s) # {} => Max(Matching(b, s)) \in Matching(b, s)
  BY <1>1, <1>6, Greatest
<1> QED
  BY <1>1, <1>3, <1>4, <1>5, <1>7

(* Without a new instance nothing matches anew. *)
LEMMA MatchingStays ==
  ASSUME UNCHANGED instances
  PROVE  \A b, s : Matching(b, s)' = Matching(b, s)
BY DEF Matching

(* A run that stays where it is holds on while snapshots are created, named   *)
(* and published, and others fill the cache.                                  *)
LEMMA RunStays ==
  ASSUME NEW x, NEW c, RunIs(x, c), UNCHANGED instances,
         early \subseteq early', published \subseteq published', NEW d, d => c
  PROVE  RunIs(x, d)'
<1>1. \A b, s : Matching(b, s)' = Matching(b, s)
  BY MatchingStays
<1>2. \A r, b, s : Newest(r, b, s)' <=> Newest(r, b, s)
  BY <1>1 DEF Newest
<1> QED
  BY <1>1, <1>2 DEF RunIs

(* One more instance disturbs every run, and matches in no published snapshot. *)
LEMMA AddKeeps ==
  ASSUME EnrichmentInv, AddInstance
  PROVE  EnrichmentInv'
<1>0. EnrichmentTypeOK
  BY DEF EnrichmentInv
<1>1. PICK b \in Binaries, f \in Filenames, s \in (1..snapshots) \ published :
        instances' = Append(instances, [binary |-> b, filename |-> f, snapshot |-> s])
  BY DEF AddInstance
<1>2. /\ Len(instances) < MaxRows /\ calm' = [e \in Enrichers |-> FALSE]
      /\ UNCHANGED <<snapshots, published, cache, enricher, early>>
  BY DEF AddInstance, Disturbed
<1>3. s \in Ids
  BY <1>0, EnrichmentAssumption DEF EnrichmentTypeOK, Ids
<1>4. PICK i \in Instance : i = [binary |-> b, filename |-> f, snapshot |-> s]
  BY <1>3 DEF Instance
<1>5. /\ instances \in Seq(Instance) /\ instances' \in Seq(Instance)
      /\ Len(instances') = Len(instances) + 1 /\ Len(instances) \in Nat
      /\ DOMAIN instances = 1..Len(instances) /\ DOMAIN instances' = 1..Len(instances) + 1
      /\ \A j \in 1..Len(instances) : instances'[j] = instances[j]
      /\ instances'[Len(instances) + 1] = i
  BY <1>0, <1>1, <1>4 DEF EnrichmentTypeOK, Instance
<1>6. EnrichmentTypeOK'
  <2>1. Len(instances') <= MaxRows
    BY <1>2, <1>5, EnrichmentAssumption
  <2> QED
    BY <1>0, <1>2, <1>5, <2>1 DEF EnrichmentTypeOK, Instance
<1>7. \A c, t : t # s => Matching(c, t)' = Matching(c, t)
  <2> SUFFICES ASSUME NEW c, NEW t, t # s PROVE Matching(c, t)' = Matching(c, t)
    OBVIOUS
  <2>1. i.snapshot = s
    BY <1>4
  <2>2. \A j : j \in 1..Len(instances) + 1 <=> j \in 1..Len(instances) \/ j = Len(instances) + 1
    BY <1>5
  <2>3. \A j : j \in Matching(c, t)' <=> j \in Matching(c, t)
    BY <1>5, <2>1, <2>2 DEF Matching
  <2> QED
    BY <2>3
<1>8. \A r, c, t : t # s => (Newest(r, c, t)' <=> Newest(r, c, t))
  BY <1>7 DEF Newest
<1>9. RunsHold'
  <2> SUFFICES ASSUME NEW e \in Enrichers PROVE RunIs(enricher[e], calm[e])'
    BY DEF RunsHold
  <2>1. PICK x : x = enricher[e] /\ x = enricher'[e]
    BY <1>2
  <2>2. RunIs(x, calm[e]) /\ calm'[e] = FALSE
    BY <1>2, <2>1 DEF EnrichmentInv, RunsHold
  <2>3. x.snapshot > 0 /\ x.snapshot \notin early => x.snapshot # s
    BY <2>2 DEF RunIs
  <2>4. \A r, c : Newest(r, c, x.snapshot) => x.snapshot \in Ids
    BY <1>0, MatchingRows DEF Newest
  <2>5. x.snapshot \in Ids => x.snapshot > 0
    BY DEF Ids
  <2>6. \A r, c : x.snapshot \notin early /\ Newest(r, c, x.snapshot) => Newest(r, c, x.snapshot)'
    BY <1>8, <2>3, <2>4, <2>5
  <2>7. RunIs(x, FALSE)'
    <3>1. /\ x.step \in {"cached?", "query", "store"} => x.snapshot > 0
          /\ x.snapshot > 0 /\ x.snapshot \notin early => x.snapshot \in published
      BY <2>2 DEF RunIs
    <3>2. x.snapshot \notin early =>
            /\ x.step = "store" => Newest(x.found, x.at, x.snapshot)'
            /\ \A c \in Binaries : x.outputs[c].tier \in {"cache", "metadata"} =>
                  Newest(x.outputs[c].row, c, x.snapshot)'
      BY <2>2, <2>6 DEF RunIs
    <3> QED
      BY <1>2, <3>1, <3>2 DEF RunIs
  <2> QED
    BY <1>2, <2>1, <2>2, <2>7 DEF RunIs
<1>10. EntriesHold'
  BY <1>2, <1>8 DEF EnrichmentInv, EntriesHold
<1> QED
  BY <1>6, <1>9, <1>10 DEF EnrichmentInv

(* Snapshots are created and published without a run. *)
LEMMA IndexerKeeps ==
  ASSUME EnrichmentInv, CreateSnapshot \/ PublishSnapshot
  PROVE  EnrichmentInv'
<1>1. UNCHANGED <<instances, cache, enricher, early, calm>> /\ published \subseteq published'
  BY DEF CreateSnapshot, PublishSnapshot
<1>2. EnrichmentTypeOK'
  <2>1. snapshots \in Nat /\ (snapshots < MaxSnapshots => snapshots + 1 \in 0..MaxSnapshots)
    BY EnrichmentAssumption DEF EnrichmentInv, EnrichmentTypeOK
  <2>2. 1..snapshots \subseteq Ids
    BY EnrichmentAssumption DEF EnrichmentInv, EnrichmentTypeOK, Ids
  <2>3. snapshots' \in 0..MaxSnapshots /\ published' \in SUBSET Ids
    BY <2>1, <2>2 DEF CreateSnapshot, PublishSnapshot, EnrichmentInv, EnrichmentTypeOK
  <2> QED
    BY <1>1, <2>3 DEF EnrichmentInv, EnrichmentTypeOK
<1>3. RunsHold'
  <2> SUFFICES ASSUME NEW e \in Enrichers PROVE RunIs(enricher[e], calm[e])'
    BY DEF RunsHold
  <2>1. PICK x, c : x = enricher[e] /\ x = enricher'[e] /\ c = calm[e] /\ c = calm'[e]
    BY <1>1
  <2>2. RunIs(x, c)
    BY <2>1 DEF EnrichmentInv, RunsHold
  <2>3. RunIs(x, c)'
    BY <1>1, <2>2, RunStays
  <2> QED
    BY <2>1, <2>3 DEF RunIs
<1>4. EntriesHold'
  <2>1. \A r, b, s : Newest(r, b, s)' <=> Newest(r, b, s)
    BY <1>1, MatchingStays DEF Newest
  <2> QED
    BY <1>1, <2>1 DEF EnrichmentInv, EntriesHold
<1> QED
  BY <1>2, <1>3, <1>4 DEF EnrichmentInv

(* A step of enricher e, which takes it to x and leaves the rows as they are. *)
LEMMA OthersStay ==
  ASSUME EnrichmentInv, NEW e \in Enrichers, NEW x \in EnricherRun,
         enricher' = [enricher EXCEPT ![e] = x],
         NEW c \in BOOLEAN, calm' = [calm EXCEPT ![e] = c], RunIs(x, c)',
         UNCHANGED <<instances, snapshots, published>>,
         early \subseteq early', early' \in SUBSET Ids,
         cache' \in [Binaries \X Ids -> 0..MaxRows], EntriesHold'
  PROVE  EnrichmentInv'
<1>1. EnrichmentTypeOK'
  BY DEF EnrichmentInv, EnrichmentTypeOK
<1>2. RunsHold'
  <2> SUFFICES ASSUME NEW d \in Enrichers PROVE RunIs(enricher[d], calm[d])'
    BY DEF RunsHold
  <2>1. CASE d = e
    <3>1. enricher'[d] = x /\ calm'[d] = c
      BY <2>1 DEF EnrichmentInv, EnrichmentTypeOK
    <3> QED
      BY <3>1 DEF RunIs
  <2>2. CASE d # e
    <3>1. PICK y, q : y = enricher[d] /\ y = enricher'[d] /\ q = calm[d] /\ q = calm'[d]
      BY <2>2 DEF EnrichmentInv, EnrichmentTypeOK
    <3>2. RunIs(y, q)
      BY <3>1 DEF EnrichmentInv, RunsHold
    <3>3. RunIs(y, q)'
      BY <3>2, RunStays
    <3> QED
      BY <3>1, <3>3 DEF RunIs
  <2> QED
    BY <2>1, <2>2
<1> QED
  BY <1>1, <1>2 DEF EnrichmentInv

(* Without a new entry, the cache holds as before. *)
LEMMA EntriesStay ==
  ASSUME EntriesHold, UNCHANGED <<instances, cache, published>>, early \subseteq early'
  PROVE  EntriesHold'
<1>1. \A r, b, s : Newest(r, b, s)' <=> Newest(r, b, s)
  BY MatchingStays DEF Newest
<1> QED
  BY <1>1 DEF EntriesHold

LEMMA BeginKeeps ==
  ASSUME EnrichmentInv, NEW e \in Enrichers, Begin(e)
  PROVE  EnrichmentInv'
<1>0. EnrichmentTypeOK
  BY DEF EnrichmentInv
<1>1. PICK auto \in BOOLEAN, failed \in BOOLEAN :
        \E s \in (IF auto THEN {IF Latest = {} \/ failed THEN 0 ELSE Max(Latest)} ELSE Ids) :
          /\ enricher' = [enricher EXCEPT ![e] =
               [IdleRun EXCEPT !.step = IF s > 0 THEN "cached?" ELSE "extract", !.snapshot = s]]
          /\ early' = early \union (IF auto THEN {} ELSE {s} \ published)
          /\ calm' = [calm EXCEPT ![e] = ~failed]
  BY DEF Begin
<1>2. PICK s \in (IF auto THEN {IF Latest = {} \/ failed THEN 0 ELSE Max(Latest)} ELSE Ids) :
          /\ enricher' = [enricher EXCEPT ![e] =
               [IdleRun EXCEPT !.step = IF s > 0 THEN "cached?" ELSE "extract", !.snapshot = s]]
          /\ early' = early \union (IF auto THEN {} ELSE {s} \ published)
          /\ calm' = [calm EXCEPT ![e] = ~failed]
  BY <1>1
<1>3. UNCHANGED <<instances, snapshots, published, cache>>
  BY DEF Begin
<1>4. Latest # {} => Max(Latest) \in published
  <2>1. published \subseteq 0..MaxSnapshots
    BY <1>0, EnrichmentAssumption DEF EnrichmentTypeOK, Ids
  <2> QED
    BY <2>1, EnrichmentAssumption, Greatest DEF Latest
<1>5. s = 0 \/ s \in published \/ (~auto /\ s \in Ids)
  BY <1>2, <1>4
<1>6. s = 0 \/ s \in Ids
  BY <1>0, <1>5 DEF EnrichmentTypeOK
<1>7. s \in 0..MaxSnapshots /\ (s = 0 \/ s > 0)
  BY <1>6, EnrichmentAssumption DEF Ids
<1>8. PICK x : x = [IdleRun EXCEPT !.step = IF s > 0 THEN "cached?" ELSE "extract", !.snapshot = s]
  OBVIOUS
<1>9. /\ x.step = (IF s > 0 THEN "cached?" ELSE "extract") /\ x.snapshot = s /\ x.at = 1
      /\ \A b \in Binaries : x.outputs[b].tier = "pending"
  BY <1>8 DEF IdleRun, Pending
<1>10. x \in EnricherRun
  <2>1. IdleRun \in EnricherRun
    BY EnrichmentAssumption DEF IdleRun, EnricherRun, Pending, Tiers, NoRow, Binaries
  <2> QED
    BY <1>7, <1>8, <2>1 DEF EnricherRun
<1>11. early \subseteq early' /\ early' \in SUBSET Ids
  BY <1>0, <1>2 DEF EnrichmentTypeOK
<1>12. s > 0 /\ s \notin early' => s \in published
  BY <1>2, <1>5
<1>13. s = 0 => Matching(1, s)' = {}
  <2>1. s = 0 => s \notin Ids
    BY DEF Ids
  <2> QED
    BY <1>0, <1>3, <2>1, MatchingRows, MatchingStays
<1>14. RunIs(x, ~failed)'
  BY <1>3, <1>7, <1>9, <1>12, <1>13 DEF RunIs
<1>15. EntriesHold'
  BY <1>3, <1>11, EntriesStay DEF EnrichmentInv
<1> QED
  BY <1>0, <1>2, <1>3, <1>8, <1>10, <1>11, <1>14, <1>15, OthersStay DEF EnrichmentTypeOK

(* A step that only moves the run of e on. *)
LEMMA MoveKeeps ==
  ASSUME EnrichmentInv, NEW e \in Enrichers, NEW s \in {"query", "extract", "done", "aborted"},
         Step(e, s), Databases, UNCHANGED cache, UNCHANGED calm \/ Fails(e),
         s = "query" => enricher[e].snapshot > 0,
         s = "extract" => Fails(e) \/ Matching(enricher[e].at, enricher[e].snapshot) = {}
  PROVE  EnrichmentInv'
<1>0. EnrichmentTypeOK
  BY DEF EnrichmentInv
<1>1. PICK y \in EnricherRun : y = enricher[e] /\ RunIs(y, calm[e])
  BY <1>0 DEF EnrichmentInv, RunsHold, EnrichmentTypeOK
<1>2. PICK x : x = [y EXCEPT !.step = s]
  OBVIOUS
<1>3. /\ x \in EnricherRun /\ x.step = s /\ x.snapshot = y.snapshot /\ x.at = y.at
      /\ x.outputs = y.outputs
  BY <1>2 DEF EnricherRun
<1>4. enricher' = [enricher EXCEPT ![e] = x]
  BY <1>0, <1>1, <1>2 DEF Step, EnrichmentTypeOK
<1>5. PICK c \in BOOLEAN : calm' = [calm EXCEPT ![e] = c] /\ (c => calm[e]) /\ (Fails(e) => ~c)
  <2>1. CASE Fails(e)
    BY <2>1 DEF Fails
  <2>2. CASE ~Fails(e)
    <3>1. calm' = [calm EXCEPT ![e] = calm[e]] /\ calm[e] \in BOOLEAN
      BY <1>0, <2>2 DEF EnrichmentTypeOK
    <3> QED
      BY <2>2, <3>1
  <2> QED
    BY <2>1, <2>2
<1>6. RunIs(x, c)
  <2>1. /\ x.snapshot > 0 /\ x.snapshot \notin early => x.snapshot \in published
        /\ \A b \in Binaries :
             /\ x.outputs[b].tier \in {"cache", "metadata"} /\ x.snapshot \notin early =>
                  Newest(x.outputs[b].row, b, x.snapshot)
             /\ x.outputs[b].tier \in {"deb", "none"} /\ calm[e] => Matching(b, x.snapshot) = {}
    BY <1>1, <1>3 DEF RunIs
  <2>2. x.step = "extract" /\ c => Matching(x.at, x.snapshot) = {}
    BY <1>1, <1>3, <1>5
  <2>3. x.step \in {"cached?", "query", "store"} => x.snapshot > 0 /\ x.step # "store"
    BY <1>1, <1>3
  <2> QED
    BY <1>5, <2>1, <2>2, <2>3 DEF RunIs
<1>7. RunIs(x, c)'
  BY <1>6, RunStays DEF Databases
<1>8. EntriesHold'
  BY EntriesStay DEF EnrichmentInv, Databases
<1> QED
  BY <1>0, <1>3, <1>4, <1>5, <1>7, <1>8, OthersStay DEF Databases, EnrichmentTypeOK

(* What becomes of the run when a package is put out. *)
LEMMA OutputIs ==
  ASSUME EnrichmentTypeOK, NEW e \in Enrichers, NEW t \in Tiers, NEW r \in 0..MaxRows,
         enricher[e].at \in Binaries, Output(e, t, r)
  PROVE  \E x \in EnricherRun :
           /\ enricher' = [enricher EXCEPT ![e] = x] /\ x.snapshot = enricher[e].snapshot
           /\ x.step = (IF enricher[e].snapshot > 0 THEN "cached?" ELSE "extract")
           /\ x.outputs[enricher[e].at] = [tier |-> t, row |-> r]
           /\ \A b \in Binaries : b # enricher[e].at => x.outputs[b] = enricher[e].outputs[b]
<1>1. PICK y \in EnricherRun : y = enricher[e] /\ y.at \in Binaries
  BY DEF EnrichmentTypeOK
<1>2. PICK o : o = [y.outputs EXCEPT ![y.at] = [tier |-> t, row |-> r]]
  OBVIOUS
<1>3. o \in [Binaries -> [tier : Tiers, row : 0..MaxRows]]
  BY <1>1, <1>2 DEF EnricherRun
<1>4. PICK g : g = IF y.snapshot > 0 THEN "cached?" ELSE "extract"
  OBVIOUS
<1>5. PICK x : x = [step |-> g, snapshot |-> y.snapshot, at |-> y.at + 1, found |-> NoRow, outputs |-> o]
  OBVIOUS
<1>6. x \in EnricherRun
  <2>1. y.at + 1 \in 1..NumBinaries + 1 /\ NoRow \in 0..MaxRows
    BY <1>1, EnrichmentAssumption DEF Binaries, NoRow
  <2>2. g \in {"idle", "cached?", "query", "store", "extract", "done", "aborted"} /\ y.snapshot \in 0..MaxSnapshots
    BY <1>1, <1>4 DEF EnricherRun
  <2> QED
    BY <1>3, <1>5, <2>1, <2>2 DEF EnricherRun
<1>7. enricher' = [enricher EXCEPT ![e] = x]
  <2>1. enricher' = [d \in Enrichers |-> enricher'[d]]
    BY DEF Output, EnrichmentTypeOK
  <2>2. \A d \in Enrichers : d # e => enricher'[d] = enricher[d]
    BY DEF Output, EnrichmentTypeOK
  <2>3. enricher'[e] = x
    <3>1. enricher'[e] = [y EXCEPT !.outputs = o, !.at = @ + 1, !.found = NoRow, !.step = g]
      BY <1>1, <1>2, <1>4 DEF Output, EnrichmentTypeOK, EnricherRun
    <3> QED
      BY <1>1, <1>5, <3>1 DEF EnricherRun
  <2> QED
    BY <2>1, <2>2, <2>3 DEF EnrichmentTypeOK
<1>8. /\ o[y.at] = [tier |-> t, row |-> r]
      /\ \A b \in Binaries : b # y.at => o[b] = y.outputs[b]
  BY <1>1, <1>2 DEF EnricherRun
<1> QED
  BY <1>1, <1>4, <1>5, <1>6, <1>7, <1>8

(* A package is put out with the newest instance there is, or with none. *)
LEMMA OutputKeeps ==
  ASSUME EnrichmentInv, NEW e \in Enrichers, NEW t \in Tiers, NEW r \in 0..MaxRows,
         enricher[e].at \in Binaries, Output(e, t, r), Databases, UNCHANGED calm,
         cache' \in [Binaries \X Ids -> 0..MaxRows], EntriesHold',
         t \in {"cache", "metadata"} /\ enricher[e].snapshot \notin early =>
           Newest(r, enricher[e].at, enricher[e].snapshot),
         t \in {"deb", "none"} /\ calm[e] => Matching(enricher[e].at, enricher[e].snapshot) = {}
  PROVE  EnrichmentInv'
<1>0. EnrichmentTypeOK
  BY DEF EnrichmentInv
<1>1. PICK y \in EnricherRun : y = enricher[e] /\ RunIs(y, calm[e])
  BY <1>0 DEF EnrichmentInv, RunsHold, EnrichmentTypeOK
<1>2. PICK x \in EnricherRun :
           /\ enricher' = [enricher EXCEPT ![e] = x] /\ x.snapshot = y.snapshot
           /\ x.step = (IF y.snapshot > 0 THEN "cached?" ELSE "extract")
           /\ x.outputs[y.at] = [tier |-> t, row |-> r]
           /\ \A b \in Binaries : b # y.at => x.outputs[b] = y.outputs[b]
  BY <1>0, <1>1, OutputIs
<1>3. PICK c \in BOOLEAN : c = calm[e] /\ calm' = [calm EXCEPT ![e] = c]
  BY <1>0 DEF EnrichmentTypeOK
<1>4. RunIs(x, c)
  <2>1. x.snapshot > 0 /\ x.snapshot \notin early => x.snapshot \in published
    BY <1>1, <1>2 DEF RunIs
  <2>2. ASSUME NEW b \in Binaries
        PROVE  /\ x.outputs[b].tier \in {"cache", "metadata"} /\ x.snapshot \notin early =>
                    Newest(x.outputs[b].row, b, x.snapshot)
               /\ x.outputs[b].tier \in {"deb", "none"} /\ c => Matching(b, x.snapshot) = {}
    <3>1. CASE b = y.at
      <4>1. x.outputs[b].tier = t /\ x.outputs[b].row = r
        BY <1>2, <3>1
      <4> QED
        BY <1>1, <1>2, <1>3, <3>1, <4>1
    <3>2. CASE b # y.at
      <4>1. x.outputs[b] = y.outputs[b]
        BY <1>2, <3>2
      <4> QED
        BY <1>1, <1>2, <1>3, <4>1 DEF RunIs
    <3> QED
      BY <3>1, <3>2
  <2>3. x.step \in {"cached?", "query", "store"} => x.snapshot > 0 /\ x.step # "store"
    BY <1>2
  <2>4. x.step = "extract" => Matching(x.at, x.snapshot) = {}
    <3>1. x.step = "extract" => x.snapshot \notin Ids
      BY <1>2 DEF Ids
    <3> QED
      BY <1>0, <3>1, MatchingRows
  <2> QED
    BY <2>1, <2>2, <2>3, <2>4 DEF RunIs
<1>5. RunIs(x, c)'
  BY <1>4, RunStays DEF Databases
<1>6. /\ UNCHANGED <<instances, snapshots, published>>
      /\ early \subseteq early' /\ early' \in SUBSET Ids
  BY <1>0 DEF Databases, EnrichmentTypeOK
<1>7. enricher' = [enricher EXCEPT ![e] = x] /\ calm' = [calm EXCEPT ![e] = c]
  BY <1>2, <1>3
<1> QED
  BY <1>5, <1>6, <1>7, OthersStay

(* What the runs of an enricher hold of the step it is at. *)
LEMMA RunAt ==
  ASSUME EnrichmentInv, NEW e \in Enrichers, NEW s, Reaches(e, s)
  PROVE  /\ enricher[e] \in EnricherRun /\ enricher[e].step = s /\ enricher[e].at \in Binaries
         /\ RunIs(enricher[e], calm[e])
         /\ s \in {"cached?", "query", "store"} =>
              enricher[e].snapshot > 0 /\ enricher[e].snapshot \in Ids
<1>1. enricher[e] \in EnricherRun /\ RunIs(enricher[e], calm[e])
  BY DEF EnrichmentInv, EnrichmentTypeOK, RunsHold
<1>2. enricher[e].step = s /\ enricher[e].at \in Binaries
  BY DEF Reaches
<1>3. s \in {"cached?", "query", "store"} => enricher[e].snapshot > 0
  BY <1>1, <1>2 DEF RunIs
<1>4. \A n \in 0..MaxSnapshots : n > 0 => n \in Ids
  BY EnrichmentAssumption DEF Ids
<1>5. enricher[e].snapshot \in 0..MaxSnapshots
  BY <1>1 DEF EnricherRun
<1> QED
  BY <1>1, <1>2, <1>3, <1>4, <1>5

LEMMA CacheGetKeeps ==
  ASSUME EnrichmentInv, NEW e \in Enrichers, CacheGet(e)
  PROVE  EnrichmentInv'
<1>0. EnrichmentTypeOK /\ Databases /\ UNCHANGED cache
  BY DEF EnrichmentInv, CacheGet
<1>1. /\ enricher[e].snapshot > 0 /\ enricher[e].snapshot \in Ids /\ enricher[e].at \in Binaries
  BY RunAt DEF CacheGet
<1>2. CASE cache[EntryOf(e)] # NoRow /\ Output(e, "cache", cache[EntryOf(e)]) /\ UNCHANGED calm
  <2>1. EntryOf(e) = <<enricher[e].at, enricher[e].snapshot>>
    BY DEF EntryOf, Key
  <2>2. cache[EntryOf(e)] \in 0..MaxRows
    BY <1>0, <1>1, <2>1 DEF EnrichmentTypeOK
  <2>3. enricher[e].snapshot \notin early => Newest(cache[EntryOf(e)], enricher[e].at, enricher[e].snapshot)
    BY <1>1, <1>2, <2>1 DEF EnrichmentInv, EntriesHold
  <2>4. cache' \in [Binaries \X Ids -> 0..MaxRows] /\ EntriesHold'
    BY <1>0, EntriesStay DEF EnrichmentInv, EnrichmentTypeOK, Databases
  <2>5. "cache" \in Tiers
    BY DEF Tiers
  <2> QED
    BY <1>0, <1>1, <1>2, <2>2, <2>3, <2>4, <2>5, OutputKeeps
<1>3. CASE ~(cache[EntryOf(e)] # NoRow /\ Output(e, "cache", cache[EntryOf(e)]) /\ UNCHANGED calm)
  <2>1. \E s \in {"query", "aborted"} : Step(e, s) /\ (UNCHANGED calm \/ Fails(e))
    BY <1>3 DEF CacheGet
  <2> QED
    BY <1>0, <1>1, <2>1, MoveKeeps
<1> QED
  BY <1>2, <1>3

LEMMA QueryKeeps ==
  ASSUME EnrichmentInv, NEW e \in Enrichers, Query(e)
  PROVE  EnrichmentInv'
<1>0. EnrichmentTypeOK /\ Databases /\ UNCHANGED cache
  BY DEF EnrichmentInv, Query
<1>1. PICK y \in EnricherRun : y = enricher[e] /\ RunIs(y, calm[e]) /\ y.snapshot > 0
  BY RunAt DEF Query
<1>2. PICK rows : rows = Matching(y.at, y.snapshot)
  OBVIOUS
<1>3. CASE /\ rows # {} /\ UNCHANGED calm
           /\ enricher' = [enricher EXCEPT ![e].step = "store", ![e].found = Max(rows)]
  <2>1. Newest(Max(rows), y.at, y.snapshot) /\ Max(rows) \in 0..MaxRows
    BY <1>0, <1>2, <1>3, MatchingRows DEF Newest
  <2>2. PICK x : x = [y EXCEPT !.step = "store", !.found = Max(rows)]
    OBVIOUS
  <2>3. /\ x \in EnricherRun /\ x.step = "store" /\ x.found = Max(rows) /\ x.at = y.at
        /\ x.snapshot = y.snapshot /\ x.outputs = y.outputs
    BY <2>1, <2>2 DEF EnricherRun
  <2>4. enricher' = [enricher EXCEPT ![e] = x]
    BY <1>0, <1>1, <1>3, <2>2 DEF EnrichmentTypeOK
  <2>5. PICK c \in BOOLEAN : c = calm[e] /\ calm' = [calm EXCEPT ![e] = c]
    BY <1>0, <1>3 DEF EnrichmentTypeOK
  <2>6. RunIs(x, c)
    <3>1. /\ x.snapshot > 0 /\ x.snapshot \notin early => x.snapshot \in published
          /\ \A b \in Binaries :
               /\ x.outputs[b].tier \in {"cache", "metadata"} /\ x.snapshot \notin early =>
                    Newest(x.outputs[b].row, b, x.snapshot)
               /\ x.outputs[b].tier \in {"deb", "none"} /\ c => Matching(b, x.snapshot) = {}
      BY <1>1, <2>3, <2>5 DEF RunIs
    <3>2. Newest(x.found, x.at, x.snapshot) /\ x.step # "extract" /\ x.snapshot > 0
      BY <1>1, <2>1, <2>3
    <3> QED
      BY <3>1, <3>2 DEF RunIs
  <2>7. RunIs(x, c)'
    BY <1>0, <2>6, RunStays DEF Databases
  <2>8. cache' \in [Binaries \X Ids -> 0..MaxRows] /\ EntriesHold'
    BY <1>0, EntriesStay DEF EnrichmentInv, EnrichmentTypeOK, Databases
  <2>9. /\ UNCHANGED <<instances, snapshots, published>>
        /\ early \subseteq early' /\ early' \in SUBSET Ids
    BY <1>0 DEF Databases, EnrichmentTypeOK
  <2> QED
    BY <2>3, <2>4, <2>5, <2>7, <2>8, <2>9, OthersStay
<1>4. CASE Step(e, "extract") /\ ((rows = {} /\ UNCHANGED calm) \/ Fails(e))
  BY <1>0, <1>1, <1>2, <1>4, MoveKeeps
<1> QED
  BY <1>1, <1>2, <1>3, <1>4 DEF Query

LEMMA StoreKeeps ==
  ASSUME EnrichmentInv, NEW e \in Enrichers, Store(e)
  PROVE  EnrichmentInv'
<1>0. /\ EnrichmentTypeOK /\ Databases /\ UNCHANGED calm /\ Output(e, "metadata", enricher[e].found)
      /\ cache' \in {cache, [cache EXCEPT ![EntryOf(e)] = enricher[e].found]}
  BY DEF EnrichmentInv, Store
<1>1. PICK y \in EnricherRun : /\ y = enricher[e] /\ RunIs(y, calm[e]) /\ y.step = "store"
                               /\ y.at \in Binaries /\ y.snapshot \in Ids /\ y.snapshot > 0
  BY RunAt DEF Store
<1>2. y.snapshot \notin early => y.snapshot \in published /\ Newest(y.found, y.at, y.snapshot)
  BY <1>1 DEF RunIs
<1>3. y.found \in 0..MaxRows
  BY <1>1 DEF EnricherRun
<1>4. cache' \in [Binaries \X Ids -> 0..MaxRows]
  BY <1>0, <1>1, <1>3 DEF EnrichmentTypeOK
<1>5. EntriesHold'
  <2> SUFFICES ASSUME NEW b \in Binaries, NEW s \in Ids, cache'[<<b, s>>] # NoRow, s \notin early
               PROVE  s \in published /\ Newest(cache'[<<b, s>>], b, s)
    <3>1. \A r, b, s : Newest(r, b, s)' <=> Newest(r, b, s)
      BY <1>0, MatchingStays DEF Newest, Databases
    <3> QED
      BY <1>0, <3>1 DEF EntriesHold, Databases
  <2>1. CASE cache'[<<b, s>>] = cache[<<b, s>>]
    BY <2>1 DEF EnrichmentInv, EntriesHold
  <2>2. CASE cache'[<<b, s>>] # cache[<<b, s>>]
    <3>1. cache' = [cache EXCEPT ![<<y.at, y.snapshot>>] = y.found]
      BY <1>0, <1>1, <2>2 DEF EntryOf, Key
    <3>2. <<b, s>> = <<y.at, y.snapshot>> /\ cache'[<<b, s>>] = y.found
      BY <1>0, <2>2, <3>1 DEF EnrichmentTypeOK
    <3> QED
      BY <1>2, <3>2
  <2> QED
    BY <2>1, <2>2
<1>6. "metadata" \in Tiers
  BY DEF Tiers
<1> QED
  BY <1>0, <1>1, <1>2, <1>3, <1>4, <1>5, <1>6, OutputKeeps

LEMMA ExtractKeeps ==
  ASSUME EnrichmentInv, NEW e \in Enrichers, Extract(e)
  PROVE  EnrichmentInv'
<1>0. EnrichmentTypeOK /\ Databases /\ UNCHANGED <<cache, calm>>
  BY DEF EnrichmentInv, Extract
<1>1. /\ enricher[e].at \in Binaries
      /\ calm[e] => Matching(enricher[e].at, enricher[e].snapshot) = {}
  BY RunAt DEF Extract, RunIs
<1>2. CASE Step(e, "aborted")
  BY <1>0, <1>2, MoveKeeps
<1>3. CASE ~Step(e, "aborted")
  <2>1. PICK t \in {"none", "deb"} : Output(e, t, NoRow)
    BY <1>3 DEF Extract
  <2>2. cache' \in [Binaries \X Ids -> 0..MaxRows] /\ EntriesHold'
    BY <1>0, EntriesStay DEF EnrichmentInv, EnrichmentTypeOK, Databases
  <2>3. t \in Tiers /\ NoRow \in 0..MaxRows
    BY EnrichmentAssumption DEF Tiers, NoRow
  <2>4. t \notin {"cache", "metadata"}
    OBVIOUS
  <2> QED
    BY <1>0, <1>1, <2>1, <2>2, <2>3, <2>4, OutputKeeps
<1> QED
  BY <1>2, <1>3

LEMMA EnrichmentStep == EnrichmentInv /\ [EnrichmentNext]_enrichment => EnrichmentInv'
<1> SUFFICES ASSUME EnrichmentInv, [EnrichmentNext]_enrichment PROVE EnrichmentInv'
  OBVIOUS
<1>1. CASE CreateSnapshot \/ PublishSnapshot
  BY <1>1, IndexerKeeps
<1>2. CASE AddInstance
  BY <1>2, AddKeeps
<1>3. ASSUME NEW e \in Enrichers, Begin(e) PROVE EnrichmentInv'
  BY <1>3, BeginKeeps
<1>4. ASSUME NEW e \in Enrichers, CacheGet(e) PROVE EnrichmentInv'
  BY <1>4, CacheGetKeeps
<1>5. ASSUME NEW e \in Enrichers, Query(e) PROVE EnrichmentInv'
  BY <1>5, QueryKeeps
<1>6. ASSUME NEW e \in Enrichers, Store(e) PROVE EnrichmentInv'
  BY <1>6, StoreKeeps
<1>7. ASSUME NEW e \in Enrichers, Extract(e) PROVE EnrichmentInv'
  BY <1>7, ExtractKeeps
<1>8. ASSUME NEW e \in Enrichers, EndEnrichment(e) PROVE EnrichmentInv'
  <2>1. Step(e, "done") /\ Databases /\ UNCHANGED <<cache, calm>>
    BY <1>8 DEF EndEnrichment
  <2> QED
    BY <2>1, MoveKeeps
<1>9. CASE UNCHANGED enrichment
  <2>1. UNCHANGED <<instances, snapshots, published, cache, enricher, early, calm>>
    BY <1>9 DEF enrichment
  <2>2. EnrichmentTypeOK'
    BY <2>1 DEF EnrichmentInv, EnrichmentTypeOK
  <2>3. RunsHold'
    <3> SUFFICES ASSUME NEW e \in Enrichers PROVE RunIs(enricher[e], calm[e])'
      BY DEF RunsHold
    <3>1. PICK x, c : x = enricher[e] /\ x = enricher'[e] /\ c = calm[e] /\ c = calm'[e]
      BY <2>1
    <3>2. RunIs(x, c)'
      BY <2>1, <3>1, RunStays DEF EnrichmentInv, RunsHold
    <3> QED
      BY <3>1, <3>2 DEF RunIs
  <2>4. EntriesHold'
    BY <2>1, EntriesStay DEF EnrichmentInv
  <2> QED
    BY <2>2, <2>3, <2>4 DEF EnrichmentInv
<1> QED
  BY <1>1, <1>2, <1>3, <1>4, <1>5, <1>6, <1>7, <1>8, <1>9 DEF EnrichmentNext

LEMMA EnrichmentIsTrue == EnrichmentInv => EnrichedFromSnapshot
<1> SUFFICES ASSUME EnrichmentInv, NEW e \in Enrichers, NEW b \in Binaries
             PROVE  LET out == enricher[e].outputs[b]
                        s == enricher[e].snapshot
                        rows == Matching(b, s) IN
                    /\ out.tier \in {"cache", "metadata"} /\ s \notin early =>
                         rows # {} /\ out.row = Max(rows)
                    /\ out.tier \in {"deb", "none"} /\ calm[e] => rows = {}
  BY DEF EnrichedFromSnapshot
<1> QED
  BY DEF EnrichmentInv, RunsHold, RunIs, Newest

(* The databases, the cache and the runs keep to their types. *)
THEOREM EnrichmentTypeCorrect == EnrichmentSpec => []EnrichmentTypeOK
<1>1. EnrichmentInv => EnrichmentTypeOK
  BY DEF EnrichmentInv
<1> QED
  BY <1>1, EnrichmentStarts, EnrichmentStep, PTL DEF EnrichmentSpec

(* For any number of enrichers, snapshots, packages and instances: a run puts  *)
(* out the newest instance of its own snapshot, from the cache or from         *)
(* metadata.db, whatever is indexed, published and cached beside it (enrich).  *)
THEOREM RunsKeepToTheirSnapshot == EnrichmentSpec => []EnrichedFromSnapshot
BY EnrichmentIsTrue, EnrichmentStarts, EnrichmentStep, PTL DEF EnrichmentSpec

-----------------------------------------------------------------------------
(* The parts of MCSbom share no variable: each keeps its invariant while the  *)
(* others move.                                                               *)
SbomPathInv == LayersInv /\ ScanInv /\ SbomInv /\ EnrichmentInv /\ ContainerInv

(* Everything the SBOM path keeps has the types its modules declare, whatever *)
(* the constants.                                                             *)
THEOREM SbomPathTypeCorrect == Spec => []SbomPathTypeOK
<1>1. Init => SbomPathInv
  BY LayersStarts, ScanStarts, SbomStarts, EnrichmentStarts, ContainerStarts DEF Init, SbomPathInv
<1>2. ASSUME SbomPathInv, [Next]_vars
      PROVE  /\ [LayersNext]_image /\ [ScanNext]_scan /\ [SbomNext]_sbom
             /\ [EnrichmentNext]_enrichment /\ [ContainerNext]_container
  BY <1>2 DEF Next, vars
<1>3. SbomPathInv /\ [Next]_vars => SbomPathInv'
  BY <1>2, LayersStep, ScanStep, SbomStep, EnrichmentStep, ContainerStep DEF SbomPathInv
<1>4. SbomPathInv => SbomPathTypeOK
  BY DEF SbomPathInv, SbomPathTypeOK, LayersInv, ScanInv, SbomInv, EnrichmentInv, ContainerInv
<1> QED
  BY <1>1, <1>3, <1>4, PTL DEF Spec
=============================================================================
