----------------------------- MODULE Migrations -----------------------------
(***************************************************************************)
(* MigrationRunner.run_pending, by several processes on one SQLite file.   *)
(* SQLite allows one writing transaction at a time.  sqlite3 opens none    *)
(* before a SELECT or a CREATE TABLE, so the history table and the list of *)
(* applied versions are read outside any transaction, and the savepoint of *)
(* a migration is the outermost: releasing it commits the migration,       *)
(* whatever the caller does with its session afterwards.                   *)
(***************************************************************************)
EXTENDS Naturals, FiniteSets, FiniteSetsExt

CONSTANTS
  Migrators,
  Version,      \* migrations of the newest release: 1..Version
  Known,        \* [Migrators -> the newest version its release contains]
  Statements    \* DDL statements of each migration

ASSUME MigrationAssumption ==
  /\ Version \in Nat /\ Statements \in Nat \ {0}
  /\ Known \in [Migrators -> 0..Version]

VARIABLES
  schema,     \* committed: objects the migrations have created
  history,    \* committed rows of _migration_history
  migrator,   \* [Migrators -> where it is]
  pending,    \* [Migrators -> versions it has still to apply]
  created,    \* [Migrators -> objects created in its open savepoint]
  recorded    \* [Migrators -> the version inserted in its open savepoint, or 0]

migrations == <<schema, history, migrator, pending, created, recorded>>

Object == (1..Version) \X (1..Statements)

MigrationTypeOK ==
  /\ schema \subseteq Object /\ history \subseteq 1..Version
  /\ migrator \in [Migrators -> {"idle", "between", "migrating", "recorded", "failed"}]
  /\ pending \in [Migrators -> SUBSET (1..Version)]
  /\ created \in [Migrators -> SUBSET Object]
  /\ recorded \in [Migrators -> 0..Version]

MigrationInit ==
  /\ schema = {} /\ history = {}
  /\ migrator = [p \in Migrators |-> "idle"]
  /\ pending = [p \in Migrators |-> {}]
  /\ created = [p \in Migrators |-> {}]
  /\ recorded = [p \in Migrators |-> 0]

-----------------------------------------------------------------------------
Goto(p, where) == migrator' = [migrator EXCEPT ![p] = where]

(* The writer's lock is taken by the first write of a transaction. *)
Writes(p) == created[p] # {} \/ recorded[p] # 0
MayWrite(p) == \A q \in Migrators \ {p} : ~Writes(q)

Discard(p) ==
  /\ created' = [created EXCEPT ![p] = {}]
  /\ recorded' = [recorded EXCEPT ![p] = 0]

(* ensure_history_table, get_applied_versions, discover_migrations. *)
RunPending(p) ==
  /\ migrator[p] = "idle"
  /\ Goto(p, "between")
  /\ pending' = [pending EXCEPT ![p] = (1..Known[p]) \ history]
  /\ UNCHANGED <<schema, history, created, recorded>>

Current(p) == Min(pending[p])
Missing(p) == {o \in Object : o[1] = Current(p) /\ o \notin created[p]}

(* begin_nested for the lowest version that is left; none is left, it returns. *)
NextVersion(p) ==
  /\ migrator[p] = "between"
  /\ Goto(p, IF pending[p] = {} THEN "idle" ELSE "migrating")
  /\ UNCHANGED <<schema, history, pending, created, recorded>>

(* One statement of migrate(): CREATE TABLE or INDEX, without IF NOT EXISTS. *)
Create(p) ==
  /\ migrator[p] = "migrating" /\ Missing(p) # {} /\ MayWrite(p)
  /\ LET o == CHOOSE o \in Missing(p) : \A q \in Missing(p) : o[2] <= q[2]
     IN IF o \in schema
          THEN Goto(p, "failed") /\ UNCHANGED created
          ELSE created' = [created EXCEPT ![p] = @ \union {o}] /\ UNCHANGED migrator
  /\ UNCHANGED <<schema, history, pending, recorded>>

(* Mutant of Record: the version is recorded in a transaction of its own. *)
RecordAtOnce(p) ==
  /\ history' = history \union {Current(p)}
  /\ recorded' = recorded

Record(p) ==
  /\ recorded' = [recorded EXCEPT ![p] = Current(p)]
  /\ history' = history

(* The row of _migration_history, whose version is the primary key. *)
Insert(p) ==
  /\ migrator[p] = "migrating" /\ Missing(p) = {} /\ MayWrite(p)
  /\ IF Current(p) \in history
       THEN Goto(p, "failed") /\ UNCHANGED <<history, recorded>>
       ELSE Goto(p, "recorded") /\ Record(p)
  /\ UNCHANGED <<schema, pending, created>>

(* The savepoint is released. *)
Release(p) ==
  /\ migrator[p] = "recorded"
  /\ schema' = schema \union created[p]
  /\ history' = history \union ({recorded[p]} \ {0})
  /\ Discard(p)
  /\ pending' = [pending EXCEPT ![p] = @ \ {Current(p)}]
  /\ Goto(p, "between")

(* A statement fails: the module cannot be imported, has no migrate(), raises, *)
(* or the other writer keeps its lock beyond the busy timeout.                 *)
Fail(p) ==
  /\ migrator[p] \in {"migrating", "recorded"}
  /\ Goto(p, "failed")
  /\ UNCHANGED <<schema, history, pending, created, recorded>>

(* rollback to the savepoint; MigrationError ends run_pending, and the caller's *)
(* session the transaction.                                                     *)
RollBack(p) ==
  /\ migrator[p] = "failed"
  /\ Discard(p)
  /\ pending' = [pending EXCEPT ![p] = {}]
  /\ Goto(p, "idle")
  /\ UNCHANGED <<schema, history>>

(* The process dies: SQLite discards the open transaction. *)
Crash(p) ==
  /\ migrator[p] # "idle"
  /\ Discard(p)
  /\ pending' = [pending EXCEPT ![p] = {}]
  /\ Goto(p, "idle")
  /\ UNCHANGED <<schema, history>>

MigrationNext ==
  \E p \in Migrators :
    \/ RunPending(p) \/ NextVersion(p) \/ Create(p) \/ Insert(p) \/ Release(p)
    \/ Fail(p) \/ RollBack(p) \/ Crash(p)

MigrationSpec == MigrationInit /\ [][MigrationNext]_migrations

-----------------------------------------------------------------------------
(* However many processes migrate the file at once, whatever release they are *)
(* of and wherever they fail or die, the schema is exactly what the recorded  *)
(* versions create, and the recorded versions have no gap.                    *)
HistoryMatchesSchema ==
  /\ schema = {o \in Object : o[1] \in history}
  /\ \A v \in history : 1..v \subseteq history
=============================================================================
