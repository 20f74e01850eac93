------------------------------ MODULE MCKernel ------------------------------
(* Instances of WorkflowEngine for TLC. *)
EXTENDS WorkflowEngine

CONSTANTS w1, w2, h1

(* One run that may retry once, one that may not. *)
MCAllowed == [w \in Runs |-> IF w = w1 THEN 2 ELSE 1]
=============================================================================
