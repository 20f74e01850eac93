----------------------------- MODULE MCDownload -----------------------------
(* Instances of Download for TLC: the files of a batch are interchangeable *)
(* unless one of them is unchecked.                                        *)
EXTENDS Download, TLC

CONSTANTS t1, t2, t3
=============================================================================
