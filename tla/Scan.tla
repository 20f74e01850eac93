-------------------------------- MODULE Scan --------------------------------
(***************************************************************************)
(* The scanners of ISO images, disk images and directories: each opens its *)
(* artifact through a reader, looks for package metadata in one place      *)
(* after the other, and falls back to matching file paths.  The token may  *)
(* be cancelled at any moment (from another thread, or from a callback     *)
(* inside a reader); a scanner looks at it at the checkpoints of its kind. *)
(***************************************************************************)
EXTENDS Naturals

CONSTANTS
  Packages,   \* what package metadata can list
  MaxFiles,   \* bound: Packages files of a repository on an ISO
  MaxRoots    \* bound: operating system roots of a disk image

ASSUME ScanAssumption == MaxFiles \in Nat /\ MaxRoots \in Nat

VARIABLES
  artifact,   \* the kind of the scanner that runs
  step,       \* where scan is
  left,       \* Packages files, or roots, not yet looked at
  listed,     \* history: what the metadata chosen so far lists
  accepted,   \* the packages identified so far
  pending,    \* packages the loop over a parse result has not reached
  reported,   \* kinds of diagnostics: "loss" (something is missing), "note", "cancelled"
  opened,     \* readers that are open
  stopped,    \* the token
  strategy    \* the strategy of the result, "none" while the scan runs

scan == <<artifact, step, left, listed, accepted, pending, reported, opened, stopped, strategy>>

Artifacts == {"iso", "img", "qcow2", "directory", "ami"}
Readers == {"iso", "squashfs", "guestfs"}
Steps == {"start", "delegate", "opened", "located", "squashfs", "extracted", "repository",
          "discovered", "packages", "rootfs", "validated", "inspect", "mount", "read",
          "parse", "installed", "paths", "inferred", "analysed", "returned", "raised"}
Strategies == {"none", "dpkg_metadata", "filesystem_analysis"}

ScanTypeOK ==
  /\ artifact \in Artifacts /\ step \in Steps /\ left \in Nat
  /\ listed \in SUBSET Packages /\ accepted \in SUBSET Packages /\ pending \in SUBSET Packages
  /\ reported \in SUBSET {"loss", "note", "cancelled"}
  /\ opened \in SUBSET Readers /\ stopped \in BOOLEAN /\ strategy \in Strategies

ScanInit ==
  /\ artifact \in Artifacts /\ step = "start" /\ left = 0
  /\ listed = {} /\ accepted = {} /\ pending = {} /\ reported = {} /\ opened = {}
  /\ stopped = FALSE /\ strategy = "none"

-----------------------------------------------------------------------------
(* The steps each scanner begins by looking at the token.  An ISO's status in *)
(* the image itself is read without a look, and so is a mounted partition's.  *)
Checkpoints ==
  [iso |-> {"opened", "located", "squashfs", "extracted", "discovered", "parse", "paths", "analysed"},
   img |-> {"inspect", "mount", "paths"},
   qcow2 |-> {"validated", "inspect", "mount", "read", "paths"},
   directory |-> {"paths"},
   ami |-> {"start", "delegate"}]

At(s) == step = s /\ ~(stopped /\ s \in Checkpoints[artifact])

Goto(s) == step' = s /\ UNCHANGED <<artifact, pending, opened, stopped, strategy>>

Unread == UNCHANGED <<left, listed, accepted, reported>>

(* Mutant of Closed: only the reader of the innermost scope is closed. *)
ClosedInnermost == IF "squashfs" \in opened THEN {"squashfs"} ELSE opened

(* The finally clauses a return or an exception passes on its way out of scan:  *)
(* squashfs inside _scan_squashfs, the ISO in scan, guestfs in the disk images. *)
Closed == opened

Leave(s, by) ==
  /\ step' = s /\ strategy' = by
  /\ opened' = opened \ Closed
  /\ UNCHANGED <<artifact, left, pending, stopped>>

(* A result without packages that says what failed. *)
GiveUp ==
  /\ Leave("returned", "dpkg_metadata")
  /\ reported' = reported \union {"loss"}
  /\ UNCHANGED <<listed, accepted>>

(* A checkpoint finds the token set: _check_cancellation raises and the ISO   *)
(* scanner catches, the others return _build_cancellation_result themselves.  *)
Stop ==
  /\ stopped /\ step \in Checkpoints[artifact]
  /\ Leave("returned", IF artifact # "iso" /\ step = "paths"
                         THEN "filesystem_analysis" ELSE "dpkg_metadata")
  /\ accepted' = {} /\ reported' = reported \union {"cancelled"}
  /\ UNCHANGED listed

(* Mutant of Skipped: a stanza that cannot be used is left out in silence. *)
SkippedInSilence(lists, usable) == {}

(* A status or Packages file is parsed: stanzas without the fields needed, or *)
(* in a state that is not recognised, are left out with a diagnostic each.    *)
Skipped(lists, usable) == IF usable = lists THEN {} ELSE {"loss"}

Parse(lists, usable) ==
  listed' = listed \union lists /\ reported' = reported \union Skipped(lists, usable)

-----------------------------------------------------------------------------
(* AMI: read four bytes, look at the token, hand over by their value. *)
DetectFormat ==
  /\ artifact = "ami"
  /\ \/ At("start") /\ GiveUp
     \/ At("start") /\ Goto("delegate") /\ Unread
     \/ /\ At("delegate") /\ step' = "start" /\ artifact' \in {"qcow2", "img"}
        /\ UNCHANGED <<left, listed, accepted, pending, reported, opened, stopped, strategy>>

Opens(reader, next) ==
  /\ opened' = opened \union {reader} /\ step' = next
  /\ UNCHANGED <<artifact, left, listed, accepted, pending, reported, stopped, strategy>>

(* No library, an unreadable artifact, a wrong header: a result that says so. *)
Open ==
  /\ artifact # "ami"
  /\ \/ At("start") /\ GiveUp
     \/ artifact = "iso" /\ At("start") /\ Opens("iso", "opened")
     \/ artifact = "img" /\ At("start") /\ Opens("guestfs", "inspect")
     \/ artifact = "qcow2" /\ At("start") /\ Goto("validated") /\ Unread
     \/ artifact = "qcow2" /\ At("validated") /\ (GiveUp \/ Opens("guestfs", "inspect"))
     \/ artifact = "directory" /\ At("start") /\ Goto("read") /\ Unread

-----------------------------------------------------------------------------
(* ISO: a squashfs that cannot be read counts as none. *)
FindSquashfs ==
  /\ At("opened") /\ Goto("located") /\ Unread

Located ==
  /\ At("located") /\ step' \in {"squashfs", "repository"}
  /\ UNCHANGED <<artifact, pending, opened, stopped, strategy>> /\ Unread

OpenSquashfs ==
  /\ At("squashfs") /\ (GiveUp \/ Opens("squashfs", "extracted"))

ReadInSquashfs ==
  /\ At("extracted") /\ (Goto("parse") \/ Goto("paths")) /\ Unread

(* dists/ is looked for, then the tree below it is listed.  A directory that  *)
(* cannot be listed hides the files below it, with a diagnostic.              *)
DiscoverPackagesFiles ==
  /\ At("repository")
  /\ \/ Goto("rootfs") /\ Unread
     \/ /\ Goto("discovered") /\ left' \in 0..MaxFiles
        /\ \E hidden \in SUBSET Packages :
             /\ listed' = hidden
             /\ reported' = {"note"} \union
                  (IF hidden # {} \/ left' = 0 THEN {"loss"} ELSE {})
        /\ UNCHANGED accepted

EndDiscovery ==
  /\ At("discovered")
  /\ IF left = 0 THEN Goto("rootfs") ELSE Goto("packages")
  /\ listed' = (IF left = 0 THEN {} ELSE listed)
  /\ UNCHANGED <<left, accepted, reported>>

(* One Packages file: it cannot be read or decompressed, it is parsed, or the *)
(* gzip stream ends early, an EOFError nothing below the caller catches.      *)
ParsePackagesFile ==
  /\ At("packages") /\ left > 0 /\ ~stopped
  /\ \/ /\ \E lists \in SUBSET Packages : \E usable \in SUBSET lists :
             Parse(lists, usable) /\ accepted' = accepted \union usable
        /\ left' = left - 1 /\ Goto("packages")
     \/ /\ \E lists \in SUBSET Packages : listed' = listed \union lists
        /\ reported' = reported \union {"loss"} /\ left' = left - 1
        /\ UNCHANGED accepted /\ Goto("packages")
     \/ Leave("raised", "none") /\ UNCHANGED <<listed, accepted, reported>>

(* The loop ends, or finds the token set and keeps what it has.  Nothing at   *)
(* all sends the scan on to the root filesystem, cancelled or not.            *)
EndRepository ==
  /\ At("packages") /\ (left = 0 \/ stopped)
  /\ \E unread \in SUBSET Packages :
       /\ left = 0 => unread = {}
       /\ IF accepted = {}
            THEN Goto("rootfs") /\ listed' = {} /\ UNCHANGED <<left, accepted, reported>>
            ELSE /\ Leave("returned", "dpkg_metadata")
                 /\ listed' = listed \union unread
                 /\ reported' = reported \union {"note"} \union
                      (IF left > 0 THEN {"cancelled"} ELSE {})
                 /\ UNCHANGED accepted

ReadInImage ==
  /\ At("rootfs") /\ (Goto("parse") \/ Goto("paths")) /\ Unread

-----------------------------------------------------------------------------
(* Disk images: the roots the library finds.  QCOW2 takes the first of them. *)
InspectRoots ==
  /\ At("inspect")
  /\ \/ GiveUp
     \/ /\ Goto("mount") /\ left' \in 1..MaxRoots
        /\ UNCHANGED <<listed, accepted, reported>>

(* IMG passes over a root that cannot be mounted, QCOW2 reports it. *)
Mount ==
  /\ At("mount")
  /\ \/ Goto("read") /\ Unread
     \/ artifact = "qcow2" /\ GiveUp
     \/ artifact = "img" /\ left > 1 /\ Goto("mount") /\ left' = left - 1
        /\ UNCHANGED <<listed, accepted, reported>>
     \/ artifact = "img" /\ left = 1 /\ Goto("paths") /\ Unread

ReadStatus ==
  /\ At("read")
  /\ \/ Goto("parse") /\ Unread
     \/ (artifact = "img" => left = 1) /\ Goto("paths") /\ Unread
     \/ artifact = "img" /\ left > 1 /\ Goto("mount") /\ left' = left - 1
        /\ UNCHANGED <<listed, accepted, reported>>

(* parse_dpkg_status.  QCOW2 and directories go through its result again. *)
ParseStatusFile ==
  /\ At("parse")
  /\ \E lists \in SUBSET Packages : \E usable \in SUBSET lists :
       /\ Parse(lists, usable)
       /\ IF artifact \in {"iso", "img"}
            THEN Leave("returned", "dpkg_metadata") /\ accepted' = usable
            ELSE /\ step' = "installed" /\ pending' = usable
                 /\ UNCHANGED <<artifact, left, accepted, opened, stopped, strategy>>

(* _iterate_packages_with_cancellation: the token is looked at before each    *)
(* package, and those not reached are dropped.                                *)
Iterate(s, by) ==
  /\ step = s
  /\ \/ pending = {} /\ Leave("returned", by) /\ UNCHANGED <<accepted, reported>>
     \/ /\ pending # {} /\ stopped /\ Leave("returned", by)
        /\ reported' = reported \union {"cancelled"} /\ UNCHANGED accepted
     \/ /\ pending # {} /\ ~stopped
        /\ \E p \in pending : accepted' = accepted \union {p} /\ pending' = pending \ {p}
        /\ UNCHANGED <<artifact, step, left, reported, opened, stopped, strategy>>
  /\ UNCHANGED listed

IterateStatus == Iterate("installed", "dpkg_metadata")
IteratePaths == Iterate("inferred", "filesystem_analysis")

-----------------------------------------------------------------------------
(* The paths of the artifact (those that can be listed) are looked up in the  *)
(* Contents index.  What they lead to is inferred: no metadata lists it.      *)
AnalyzeFilesystem ==
  /\ At("paths")
  /\ \E found \in SUBSET Packages :
       CASE artifact = "img" -> Leave("returned", "filesystem_analysis") /\ accepted' = found
         [] artifact = "iso" -> Goto("analysed") /\ accepted' = found /\ UNCHANGED left
         [] OTHER -> /\ step' = "inferred" /\ pending' = found
                     /\ UNCHANGED <<artifact, accepted, left, opened, stopped, strategy>>
  /\ reported' \in {reported, reported \union {"note"}}
  /\ UNCHANGED listed

EndAnalysis ==
  /\ At("analysed") /\ Leave("returned", "filesystem_analysis")
  /\ UNCHANGED <<listed, accepted, reported>>

CancelToken ==
  /\ ~stopped /\ stopped' = TRUE
  /\ UNCHANGED <<artifact, step, left, listed, accepted, pending, reported, opened, strategy>>

ScanNext ==
  \/ Stop \/ DetectFormat \/ Open \/ FindSquashfs \/ Located \/ OpenSquashfs
  \/ ReadInSquashfs \/ DiscoverPackagesFiles \/ EndDiscovery \/ ParsePackagesFile
  \/ EndRepository \/ ReadInImage \/ InspectRoots \/ Mount \/ ReadStatus
  \/ ParseStatusFile \/ IterateStatus \/ IteratePaths \/ AnalyzeFilesystem
  \/ EndAnalysis \/ CancelToken

ScanSpec == ScanInit /\ [][ScanNext]_scan

-----------------------------------------------------------------------------
(* A result of package metadata that lacks a package this metadata lists says *)
(* so: every file that could not be listed, read or decompressed, every       *)
(* stanza left out and every loop cut short by a cancellation has left a      *)
(* diagnostic in the result (scan of each scanner).                           *)
PartialIsSaid ==
  strategy = "dpkg_metadata" /\ accepted # listed => reported \intersect {"loss", "cancelled"} # {}

(* However a scan ends, no reader it opened stays open (the finally clauses of *)
(* ISOScanner.scan, _scan_squashfs, IMGScanner.scan and QCOW2Scanner.scan).    *)
ReadersClosed == step \in {"returned", "raised"} => opened = {}
=============================================================================
