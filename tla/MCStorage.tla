------------------------------ MODULE MCStorage ------------------------------
(***************************************************************************)
(* Instances of MirrorCache, Migrations and UnitOfWork for TLC.  The three *)
(* share no state, so a behaviour of the instance is one of a single part  *)
(* with the others at rest: the sum of their state spaces, not the product.*)
(***************************************************************************)
EXTENDS MirrorCache, Migrations, UnitOfWork

CONSTANTS f1, f2, old, new, u1, u2

VARIABLE part

MCFilesOf == [r \in Repositories |-> IF r = 1 THEN {f1} ELSE {f2}]
MCKnown == [p \in Migrators |-> IF p = old THEN 1 ELSE 2]

vars == <<part, cache, migrations, units>>

Init ==
  /\ CacheInit /\ MigrationInit /\ UnitInit
  /\ part \in {"cache", "migrations", "units"}

Next ==
  /\ \/ part = "cache" /\ CacheNext /\ UNCHANGED <<migrations, units>>
     \/ part = "migrations" /\ MigrationNext /\ UNCHANGED <<cache, units>>
     \/ part = "units" /\ UnitNext /\ UNCHANGED <<cache, migrations>>
  /\ UNCHANGED part

Spec == Init /\ [][Next]_vars

(* The state of the cache, of the migrations and of the units of work has the *)
(* types their modules declare.                                               *)
StorageTypeOK == CacheTypeOK /\ MigrationTypeOK /\ UnitTypeOK
=============================================================================
