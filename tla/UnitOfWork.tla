----------------------------- MODULE UnitOfWork -----------------------------
(***************************************************************************)
(* SqliteUnitOfWork on one logical database: `async with' units of several *)
(* tasks, each with a session of its own, over a pool of connections and   *)
(* one writer at a time.  A session takes a connection with its first      *)
(* statement and gives it back when its transaction ends.  commit() may be *)
(* called inside the body as well; the next statement begins anew.         *)
(***************************************************************************)
EXTENDS Naturals, FiniteSets

CONSTANTS
  Units,
  PoolSize,     \* pool_size, with max_overflow = 0
  MaxWrites     \* bound on the changes one unit makes

ASSUME UnitAssumption == PoolSize \in Nat \ {0} /\ MaxWrites \in Nat

VARIABLES
  unit,        \* [Units -> where it is]
  written,     \* [Units -> changes made so far; each is numbered]
  flushed,     \* [Units -> changes of its open transaction]
  database,    \* committed changes: SUBSET (Units \X Nat)
  holding,     \* units that hold a connection
  token,       \* [Units -> its cancellation token is cancelled]
  answer,      \* [Units -> how the with statement ended]
  promised     \* history: [Units -> changes for which a commit has returned]

units == <<unit, written, flushed, database, holding, token, answer, promised>>

Change == 1..MaxWrites

UnitTypeOK ==
  /\ unit \in [Units -> {"outside", "body", "leaving", "raising", "committing", "closing"}]
  /\ written \in [Units -> 0..MaxWrites]
  /\ flushed \in [Units -> SUBSET Change]
  /\ database \subseteq Units \X Change
  /\ holding \subseteq Units /\ Cardinality(holding) <= PoolSize
  /\ token \in [Units -> BOOLEAN]
  /\ answer \in [Units -> {"none", "returned", "raised", "unknown"}]
  /\ promised \in [Units -> SUBSET Change]

UnitInit ==
  /\ unit = [u \in Units |-> "outside"]
  /\ written = [u \in Units |-> 0]
  /\ flushed = [u \in Units |-> {}]
  /\ database = {}
  /\ holding = {}
  /\ token = [u \in Units |-> FALSE]
  /\ answer = [u \in Units |-> "none"]
  /\ promised = [u \in Units |-> {}]

-----------------------------------------------------------------------------
At(u, where) == unit[u] = where
Move(u, where) == unit' = [unit EXCEPT ![u] = where]

(* The session's transaction ends and its connection goes back to the pool. *)
EndTransaction(u) ==
  /\ flushed' = [flushed EXCEPT ![u] = {}]
  /\ holding' = holding \ {u}

Committed(u) == database' = database \union ({u} \X flushed[u])

(* __aenter__ *)
Enter(u) ==
  /\ At(u, "outside") /\ answer[u] = "none"
  /\ Move(u, "body")
  /\ UNCHANGED <<written, flushed, database, holding, token, answer, promised>>

(* Mutant of Capacity: the queue pool's default overflow of ten. *)
CapacityWithOverflow == PoolSize + 10

Capacity == PoolSize

Connected(u) == u \in holding \/ Cardinality(holding) < Capacity

(* A query takes a connection and keeps it until the transaction ends. *)
Read(u) ==
  /\ At(u, "body") /\ Connected(u)
  /\ holding' = holding \union {u}
  /\ UNCHANGED <<unit, written, flushed, database, token, answer, promised>>

(* A statement that writes needs SQLite's writer lock besides. *)
Write(u) ==
  /\ At(u, "body") /\ Connected(u) /\ written[u] < MaxWrites
  /\ \A v \in Units \ {u} : flushed[v] = {}
  /\ written' = [written EXCEPT ![u] = @ + 1]
  /\ flushed' = [flushed EXCEPT ![u] = @ \union {written'[u]}]
  /\ holding' = holding \union {u}
  /\ UNCHANGED <<unit, database, token, answer, promised>>

CancelToken(u) ==
  /\ ~token[u] /\ unit[u] # "outside"
  /\ token' = [token EXCEPT ![u] = TRUE]
  /\ UNCHANGED <<unit, written, flushed, database, holding, answer, promised>>

(* The body raises: its own error, no connection or no lock in time, or the   *)
(* cancellation of its task.                                                  *)
BodyRaises(u) ==
  /\ At(u, "body")
  /\ Move(u, "raising")
  /\ UNCHANGED <<written, flushed, database, holding, token, answer, promised>>

(* rollback() inside the body. *)
RollBackInside(u) ==
  /\ At(u, "body") /\ flushed[u] # {}
  /\ EndTransaction(u)
  /\ UNCHANGED <<unit, written, database, token, answer, promised>>

(* commit() inside the body, or by __aexit__ after a body that ended well.    *)
(* With a cancelled token it rolls back and raises StorageError.              *)
Commit(u) ==
  /\ unit[u] \in {"body", "leaving"}
  /\ IF token[u]
       THEN /\ EndTransaction(u)
            /\ Move(u, IF At(u, "body") THEN "raising" ELSE "closing")
            /\ answer' = [answer EXCEPT ![u] = IF At(u, "body") THEN @ ELSE "raised"]
            /\ UNCHANGED <<database, promised>>
       ELSE \/ /\ Committed(u) /\ EndTransaction(u)
               /\ promised' = [promised EXCEPT ![u] = @ \union flushed[u]]
               /\ Move(u, IF At(u, "body") THEN "body" ELSE "closing")
               /\ answer' = [answer EXCEPT ![u] = IF At(u, "body") THEN @ ELSE "returned"]
            \/ /\ flushed[u] # {}                    \* the commit fails
               /\ EndTransaction(u)
               /\ Move(u, IF At(u, "body") THEN "raising" ELSE "closing")
               /\ answer' = [answer EXCEPT ![u] = IF At(u, "body") THEN @ ELSE "raised"]
               /\ UNCHANGED <<database, promised>>
  /\ UNCHANGED <<written, token>>

(* The task is cancelled while it awaits the commit: SQLite may have done it. *)
CancelledInCommit(u) ==
  /\ At(u, "leaving")
  /\ Committed(u) \/ UNCHANGED database
  /\ flushed' = [flushed EXCEPT ![u] = {}]
  /\ Move(u, "closing")
  /\ answer' = [answer EXCEPT ![u] = "unknown"]
  /\ UNCHANGED <<written, holding, token, promised>>

BodyEnds(u) ==
  /\ At(u, "body")
  /\ Move(u, "leaving")
  /\ UNCHANGED <<written, flushed, database, holding, token, answer, promised>>

(* Mutant of RollBackOpen: what was written before the error is committed. *)
CommitAnyway(u) == Committed(u) /\ EndTransaction(u)

RollBackOpen(u) == UNCHANGED database /\ EndTransaction(u)

(* __aexit__ with an exception. *)
Abandon(u) ==
  /\ At(u, "raising")
  /\ RollBackOpen(u)
  /\ Move(u, "closing")
  /\ answer' = [answer EXCEPT ![u] = "raised"]
  /\ UNCHANGED <<written, token, promised>>

(* session.close() in `finally'. *)
Close(u) ==
  /\ At(u, "closing")
  /\ EndTransaction(u)
  /\ Move(u, "outside")
  /\ UNCHANGED <<written, database, token, answer, promised>>

UnitNext ==
  \E u \in Units :
    \/ Enter(u) \/ Read(u) \/ Write(u) \/ CancelToken(u) \/ BodyRaises(u) \/ RollBackInside(u)
    \/ Commit(u) \/ CancelledInCommit(u) \/ BodyEnds(u) \/ Abandon(u) \/ Close(u)

UnitSpec == UnitInit /\ [][UnitNext]_units

-----------------------------------------------------------------------------
(* The database holds of a unit exactly the changes for which a commit has    *)
(* returned, none that were made in a transaction that failed, was rolled     *)
(* back or was cancelled; only after a cancellation in the commit of          *)
(* __aexit__ is it open whether the last transaction is in.  A unit that is   *)
(* over holds no connection.                                                  *)
UnitIsAtomic ==
  \A u \in Units :
    /\ LET Kept == {c \in Change : <<u, c>> \in database}
       IN /\ promised[u] \subseteq Kept
          /\ answer[u] # "unknown" => Kept = promised[u]
    /\ unit[u] = "outside" => u \notin holding
=============================================================================
