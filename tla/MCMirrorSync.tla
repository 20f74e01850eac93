---------------------------- MODULE MCMirrorSync ----------------------------
(* Instances of MirrorSync for TLC: two index paths, two packages.  The first *)
(* release of suite 1 lists a1 as p1 (index x1); a later one rebuilds a1 as   *)
(* p2 and adds a2 (index x2).                                                 *)
EXTENDS MirrorSync, TLC

CONSTANTS main, contrib, a1, a2, x1, x2, y1, p1, p2, q1

\* Contents of the Packages files.
MCIndexLists ==
  x1 :> (a1 :> p1 @@ a2 :> NoContent) @@
  x2 :> (a1 :> p2 @@ a2 :> q1) @@
  y1 :> (a1 :> NoContent @@ a2 :> q1)

\* One suite with three releases: the second one is malformed, the third brings
\* contrib, which lists a2 again.
OneSuite ==
  1 :> ( 1 :> (main :> x1 @@ contrib :> NoContent) @@
         2 :> (main :> x2 @@ contrib :> NoContent) @@
         3 :> (main :> x2 @@ contrib :> y1) )

\* One suite whose upstream never changes.
Static == 1 :> ( 1 :> (main :> x2 @@ contrib :> NoContent) )

\* Two suites that share package a2; only the first has releases to come.
TwoSuites ==
  1 :> ( 1 :> (main :> x1) @@ 2 :> (main :> x2) ) @@
  2 :> ( 1 :> (main :> y1) @@ 2 :> (main :> y1) )

\* BOUND of the run with two suites: the second one's upstream stays as it is,
\* and the indexer is run on the first one only.
OnlyFirstSuite ==
  /\ remote[2] = 1
  /\ \A f \in {Release(2)} \union {Index(2, i) : i \in IndexPaths} : row[f].state # "INDEXED"
=============================================================================
