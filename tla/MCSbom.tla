------------------------------- MODULE MCSbom -------------------------------
(***************************************************************************)
(* Instances of Layers, Scan, SbomRun, Enrichment and Container for TLC.   *)
(* They share no state, so a behaviour of the instance is one of a single  *)
(* part with the others at rest: the sum of their state spaces, not the    *)
(* product.                                                                *)
(***************************************************************************)
EXTENDS Layers, Scan, SbomRun, Enrichment, Container

CONSTANTS p1, p2, spdx3, cyclonedx, e1, e2, f1, f2, svc1, svc2, svc3

VARIABLE part

(* A directory with one file in it, the status file, and a file beside it. *)
MCPaths == {<<"d">>, <<"d", "f">>, <<"g">>}
MCStatus == <<"d", "f">>

(* Services and enrichers are interchangeable: no definition names one. *)
MCSymmetry == Permutations(Services) \union Permutations(Enrichers)

vars == <<part, image, scan, sbom, enrichment, container>>

Init ==
  /\ part \in {"image", "scan", "sbom", "enrichment", "container"}
  /\ LayersInit /\ ScanInit /\ SbomInit /\ EnrichmentInit /\ ContainerInit
  /\ part # "image" => format = "docker" /\ layers = 0
  /\ part # "scan" => artifact = "iso"

Next ==
  /\ \/ part = "image" /\ LayersNext /\ UNCHANGED <<scan, sbom, enrichment, container>>
     \/ part = "scan" /\ ScanNext /\ UNCHANGED <<image, sbom, enrichment, container>>
     \/ part = "sbom" /\ SbomNext /\ UNCHANGED <<image, scan, enrichment, container>>
     \/ part = "enrichment" /\ EnrichmentNext /\ UNCHANGED <<image, scan, sbom, container>>
     \/ part = "container" /\ ContainerNext /\ UNCHANGED <<image, scan, sbom, enrichment>>
  /\ UNCHANGED part

Spec == Init /\ [][Next]_vars

(* The state of the layered images, of the scans, of the runs, of the         *)
(* enrichers and of the container has the types their modules declare.        *)
SbomPathTypeOK ==
  /\ LayersTypeOK /\ ScanTypeOK /\ SbomTypeOK /\ EnrichmentTypeOK /\ ContainerTypeOK
=============================================================================
