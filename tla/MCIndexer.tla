------------------------------ MODULE MCIndexer ------------------------------
(* Instances of Indexer for TLC. *)
EXTENDS Indexer, TLC

CONSTANTS p1, p2, k1, k2, k3

\* Two files.  The first changes once (k1 is replaced by k2); the second lists k2
\* as well, and k3 is what only the second parser version finds in it.
MCLists ==
  1 :> ( 1 :> (1 :> {k1} @@ 2 :> {k1}) @@ 2 :> (1 :> {k2} @@ 2 :> {k2}) ) @@
  2 :> ( 1 :> (1 :> {k2} @@ 2 :> {k2, k3}) @@ 2 :> (1 :> {k2} @@ 2 :> {k2, k3}) )

\* The second file's upstream stays as it is.
MCLastContent == <<2, 1>>
=============================================================================
