------------------------------- MODULE Layers -------------------------------
(***************************************************************************)
(* How the Docker and the OCI scanner merge the layers of an image into    *)
(* one virtual filesystem and read the dpkg status file from it.  A layer  *)
(* is read member by member, its files are stored, and then the whiteouts  *)
(* it holds are applied to the merged result.                              *)
(***************************************************************************)
EXTENDS Naturals, Sequences, SequencesExt

CONSTANTS
  Paths,      \* member names: sequences of path components
  Status,     \* the path of the dpkg status file, var/lib/dpkg/status
  MaxLayers   \* bound: layers of an image

ASSUME LayersAssumption == MaxLayers \in Nat /\ Status \in Paths

VARIABLES
  format,     \* which scanner runs: "docker" or "oci"
  layers,     \* number of layers the manifest lists
  merged,     \* number of layers the loop is past
  vfs,        \* [Paths -> the layer whose content vfs holds under that name, or 0]
  view,       \* history: [Paths -> what an overlay of the merged layers shows], while plain
  plain,      \* history: the layers so far use no construct of Odd
  said,       \* a diagnostic has been recorded
  cancelled,  \* the scan's cancellation token
  result      \* [outcome, status: the layer whose status file was parsed, or 0]

image == <<format, layers, merged, vfs, view, plain, said, cancelled, result>>

ImageFormats == {"docker", "oci"}
Numbers == 0..MaxLayers
Outcomes == {"running", "refused", "scanned", "cancelled", "raised"}
Nothing == [kind |-> "none", layer |-> 0]
NoView == [p \in Paths |-> Nothing]

LayersTypeOK ==
  /\ format \in ImageFormats /\ layers \in Numbers /\ merged \in 0..layers
  /\ vfs \in [Paths -> Numbers]
  /\ view \in [Paths -> [kind : {"none", "file", "dir", "link"}, layer : Numbers]]
  /\ plain \in BOOLEAN /\ said \in BOOLEAN /\ cancelled \in BOOLEAN
  /\ result \in [outcome : Outcomes, status : Numbers]

LayersInit ==
  /\ format \in ImageFormats /\ layers \in Numbers
  /\ merged = 0
  /\ vfs = [p \in Paths |-> 0]
  /\ view = NoView
  /\ plain = TRUE /\ said = FALSE /\ cancelled = FALSE
  /\ result = [outcome |-> "running", status |-> 0]

-----------------------------------------------------------------------------
(* A member's name starts with the directory's name and a slash.  The archive *)
(* root is the empty sequence; normalize_tar_member_name gives every name one *)
(* spelling, so a name is its components.                                     *)
Under(d, p) == IsStrictPrefix(d, p)

Directories == {<<>>} \union {p \in Paths : \E q \in Paths : Under(p, q)}

(* What a layer archive holds: members, and whiteout markers by target. *)
Layer == {l \in [kind : [Paths -> {"none", "file", "dir", "link"}],
                 gone : SUBSET Paths, opaque : SUBSET Directories] :
            /\ \A p \in Paths : l.kind[p] = "dir" => p \in Directories
            /\ \A p, q \in Paths :
                 Under(p, q) /\ l.kind[p] \in {"file", "link"} => l.kind[q] = "none"}

Entries(l) == {p \in Paths : l.kind[p] # "none"}
FilesIn(l) == {p \in Paths : l.kind[p] = "file"}

(* _merge_layer, over the members read: only regular files are stored. *)
Stored(stored, files, n) == [p \in Paths |-> IF p \in files THEN n ELSE stored[p]]

(* Mutant of Doomed: an opaque marker also hides what its own layer wrote. *)
DoomedUnshielded(l) ==
  {p \in Paths : \/ p \in l.gone
                 \/ \E d \in l.opaque : Under(d, p)}

(* apply_whiteouts: the keys the markers of a layer remove. *)
Doomed(l) ==
  {p \in Paths : \/ p \in l.gone
                 \/ p \notin Entries(l) /\ \E d \in l.opaque : Under(d, p)}

Apply(stored, l) == [p \in Paths |-> IF p \in Doomed(l) THEN 0 ELSE stored[p]]

-----------------------------------------------------------------------------
(* The overlay of the image specification: the markers hide what lower layers *)
(* have at or below their target, then the layer's own members are laid over, *)
(* a member that is no directory replacing a whole directory.                 *)
Hidden(l, p) ==
  \/ p \in l.gone \/ \E q \in l.gone : Under(q, p)
  \/ \E d \in l.opaque : Under(d, p)
  \/ \E q \in Paths : l.kind[q] \in {"file", "link"} /\ Under(q, p)

Overlaid(shown, l, n) ==
  [p \in Paths |-> IF p \in Entries(l) THEN [kind |-> l.kind[p], layer |-> n]
                   ELSE IF Hidden(l, p) THEN Nothing ELSE shown[p]]

(* Constructs on which the merge and the overlay part: a path a layer both    *)
(* writes and whites out, a whiteout or a file over a directory that holds    *)
(* files, and a link or directory over a file.                                *)
Odd(shown, l) ==
  \/ l.gone \intersect Entries(l) # {}
  \/ \E p \in Paths, q \in Paths :
       /\ Under(p, q) /\ shown[q].kind # "none"
       /\ p \in l.gone \/ l.kind[p] \in {"file", "link"}
  \/ \E p \in Paths : shown[p].kind = "file" /\ l.kind[p] \in {"dir", "link"}

-----------------------------------------------------------------------------
Running == result.outcome = "running"

Finish(outcome, status) == result' = [outcome |-> outcome, status |-> status]

(* The artifact, its manifest or its index is missing or malformed.  A Docker *)
(* manifest without layers is refused, an OCI one is scanned as empty.        *)
Refuse ==
  /\ Running /\ merged = 0
  /\ Finish("refused", 0) /\ said' = TRUE
  /\ UNCHANGED <<format, layers, merged, vfs, view, plain, cancelled>>

(* The check between two layers.  Docker keeps what it has merged. *)
Cancelled ==
  /\ Running /\ cancelled /\ merged < layers
  /\ Finish("cancelled", IF format = "docker" THEN vfs[Status] ELSE 0)
  /\ said' = TRUE
  /\ UNCHANGED <<format, layers, merged, vfs, view, plain, cancelled>>

(* Mutant of AtLayer: the loop runs once too often. *)
AtLayerOrPast == Running /\ ~cancelled /\ merged <= layers

(* The loop comes to a layer: the token is not set. *)
AtLayer == Running /\ ~cancelled /\ merged < layers

MergeLayer ==
  /\ AtLayer
  /\ \E l \in Layer :
       /\ vfs' = Apply(Stored(vfs, FilesIn(l), merged + 1), l)
       /\ plain' = (plain /\ ~Odd(view, l))
       /\ view' = IF plain' THEN Overlaid(view, l, merged + 1) ELSE NoView
  /\ merged' = merged + 1
  /\ UNCHANGED <<format, layers, said, cancelled, result>>

(* An unsupported media type, a missing blob or library, an archive that stops *)
(* half-way: members read so far stay, no whiteout is applied, and the layer   *)
(* is passed over with a diagnostic.                                           *)
LayerFails ==
  /\ AtLayer
  /\ \E read \in SUBSET Paths : vfs' = Stored(vfs, read, merged + 1)
  /\ merged' = merged + 1 /\ said' = TRUE
  /\ UNCHANGED <<format, layers, view, plain, cancelled, result>>

(* EOFError, zlib.error and ZstdError are no OSError and no TarError. *)
LayerRaises ==
  /\ AtLayer
  /\ Finish("raised", 0)
  /\ UNCHANGED <<format, layers, merged, vfs, view, plain, said, cancelled>>

(* All layers are merged: the status file is parsed. *)
ParseStatus ==
  /\ Running /\ merged = layers
  /\ UNCHANGED <<format, layers, merged, vfs, view, plain, cancelled>>

(* Without a status file Docker goes on to filesystem analysis. *)
ParseDockerStatus ==
  /\ ParseStatus /\ format = "docker" /\ layers > 0
  /\ Finish("scanned", vfs[Status]) /\ UNCHANGED said

(* OCI says that there is none, and decodes strictly. *)
ParseOciStatus ==
  /\ ParseStatus /\ format = "oci"
  /\ \/ Finish("scanned", vfs[Status]) /\ said' = (said \/ vfs[Status] = 0)
     \/ vfs[Status] # 0 /\ Finish("scanned", 0) /\ said' = TRUE

CancelScan ==
  /\ ~cancelled /\ cancelled' = TRUE
  /\ UNCHANGED <<format, layers, merged, vfs, view, plain, said, result>>

LayersNext ==
  \/ Refuse \/ Cancelled \/ MergeLayer \/ LayerFails \/ LayerRaises
  \/ ParseDockerStatus \/ ParseOciStatus \/ CancelScan

LayersSpec == LayersInit /\ [][LayersNext]_image

-----------------------------------------------------------------------------
FileShown(p) == IF view[p].kind = "file" THEN view[p].layer ELSE 0

(* While nothing has been said to be wrong with an image of plain layers, the *)
(* virtual filesystem holds exactly the files an overlay of the same layers   *)
(* shows, each with the content of the topmost layer that wrote it, and the   *)
(* packages a scan reports are those of the status file the image shows       *)
(* (apply_whiteouts after _merge_layer, layer by layer).                      *)
MergedIsOverlay ==
  plain /\ ~said =>
    /\ \A p \in Paths : vfs[p] = FileShown(p)
    /\ result.outcome = "scanned" => result.status = FileShown(Status)
=============================================================================
