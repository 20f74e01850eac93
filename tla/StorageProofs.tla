----------------------------- MODULE StorageProofs -----------------------------
(***************************************************************************)
(* Proofs about UnitOfWork, Migrations, MirrorRun and MirrorCache: units   *)
(* of work are atomic and give their connections back; the recorded        *)
(* versions are what the schema holds; what a run says of itself is true;  *)
(* clean, verify and the integrity scan judge every file that nothing      *)
(* changed under them by what its row says.  The last theorem types the    *)
(* storage instance as a whole.                                            *)
(***************************************************************************)
EXTENDS MCStorage, FiniteSetTheorems, WellFoundedInduction, TLAPS

(* A unit that is in its with statement has no answer yet, so that the        *)
(* uncertainty of a cancelled commit never reaches a transaction after it.    *)
UnansweredInside ==
  \A u \in Units : unit[u] \in {"body", "leaving", "raising"} => answer[u] = "none"

UnitInv == UnitTypeOK /\ IsFiniteSet(holding) /\ UnansweredInside /\ UnitIsAtomic

(* What the database holds of a unit. *)
LEMMA UnitStarts == UnitInit => UnitInv
<1> SUFFICES ASSUME UnitInit PROVE UnitInv
  OBVIOUS
<1>1. IsFiniteSet(holding) /\ Cardinality(holding) = 0
  BY FS_EmptySet DEF UnitInit
<1>2. UnitTypeOK
  BY <1>1, UnitAssumption DEF UnitInit, UnitTypeOK, Change
<1> QED
  BY <1>1, <1>2 DEF UnitInit, UnitInv, UnansweredInside, UnitIsAtomic

(* Connections: at most one more, and only when there is room. *)
LEMMA Connecting ==
  ASSUME UnitTypeOK, IsFiniteSet(holding), NEW u \in Units, Connected(u)
  PROVE  /\ IsFiniteSet(holding \union {u})
         /\ holding \union {u} \subseteq Units
         /\ Cardinality(holding \union {u}) <= PoolSize
<1>1. CASE u \in holding
  <2>1. holding \union {u} = holding
    BY <1>1
  <2> QED
    BY <2>1 DEF UnitTypeOK
<1>2. CASE u \notin holding
  <2>1. /\ IsFiniteSet(holding \union {u})
        /\ Cardinality(holding \union {u}) = Cardinality(holding) + 1
    BY <1>2, FS_AddElement
  <2>2. Cardinality(holding) < PoolSize
    BY <1>2 DEF Connected, Capacity
  <2>3. Cardinality(holding) \in Nat
    BY FS_CardinalityType
  <2> QED
    BY <2>1, <2>2, <2>3, UnitAssumption DEF UnitTypeOK
<1> QED
  BY <1>1, <1>2

LEMMA Disconnecting ==
  ASSUME UnitTypeOK, IsFiniteSet(holding), NEW u \in Units
  PROVE  /\ IsFiniteSet(holding \ {u})
         /\ holding \ {u} \subseteq Units
         /\ Cardinality(holding \ {u}) <= PoolSize
<1>1. /\ IsFiniteSet(holding \ {u}) /\ Cardinality(holding \ {u}) <= Cardinality(holding)
  BY FS_Subset
<1>2. Cardinality(holding) \in Nat /\ Cardinality(holding \ {u}) \in Nat
  BY <1>1, FS_CardinalityType
<1> QED
  BY <1>1, <1>2, UnitAssumption DEF UnitTypeOK
(* Each step of a unit keeps the invariant. *)
LEMMA UnitStep ==
  ASSUME UnitInv, [UnitNext]_units
  PROVE  UnitInv'
<1> USE DEF UnitInv
<1>s. CASE UNCHANGED units
  BY <1>s DEF units, UnitTypeOK, UnansweredInside, UnitIsAtomic, Change
<1>n. ASSUME NEW u \in Units,
             \/ Enter(u) \/ Read(u) \/ Write(u) \/ CancelToken(u) \/ BodyRaises(u)
             \/ RollBackInside(u) \/ Commit(u) \/ CancelledInCommit(u) \/ BodyEnds(u)
             \/ Abandon(u) \/ Close(u)
      PROVE  UnitInv'
  <2>1. CASE Enter(u)
    <3>1. IsFiniteSet(holding') /\ holding' \subseteq Units /\ Cardinality(holding') <= PoolSize
      BY <2>1 DEF Enter, UnitTypeOK
    <3>2. UnitTypeOK'
      BY <2>1, <3>1, UnitAssumption DEF Enter, At, Move, UnitTypeOK, Change
    <3>3. UnansweredInside'
      BY <2>1 DEF Enter, At, Move, UnitTypeOK, UnansweredInside
    <3>4. UnitIsAtomic'
      BY <2>1 DEF Enter, At, Move, UnitTypeOK, UnansweredInside, UnitIsAtomic, Change
    <3> QED
      BY <3>1, <3>2, <3>3, <3>4
  <2>2. CASE Read(u)
    <3>1. IsFiniteSet(holding') /\ holding' \subseteq Units /\ Cardinality(holding') <= PoolSize
      BY <2>2, Connecting DEF Read
    <3>2. UnitTypeOK'
      BY <2>2, <3>1, UnitAssumption DEF Read, At, UnitTypeOK, Change
    <3>3. UnansweredInside'
      BY <2>2 DEF Read, At, UnitTypeOK, UnansweredInside
    <3>4. UnitIsAtomic'
      BY <2>2 DEF Read, At, UnitTypeOK, UnansweredInside, UnitIsAtomic, Change
    <3> QED
      BY <3>1, <3>2, <3>3, <3>4
  <2>3. CASE Write(u)
    <3>1. IsFiniteSet(holding') /\ holding' \subseteq Units /\ Cardinality(holding') <= PoolSize
      BY <2>3, Connecting DEF Write
    <3>2. UnitTypeOK'
      BY <2>3, <3>1, UnitAssumption DEF Write, At, UnitTypeOK, Change
    <3>3. UnansweredInside'
      BY <2>3 DEF Write, At, UnitTypeOK, UnansweredInside
    <3>4. UnitIsAtomic'
      BY <2>3 DEF Write, At, UnitTypeOK, UnansweredInside, UnitIsAtomic, Change
    <3> QED
      BY <3>1, <3>2, <3>3, <3>4
  <2>4. CASE CancelToken(u)
    <3>1. IsFiniteSet(holding') /\ holding' \subseteq Units /\ Cardinality(holding') <= PoolSize
      BY <2>4 DEF CancelToken, UnitTypeOK
    <3>2. UnitTypeOK'
      BY <2>4, <3>1, UnitAssumption DEF CancelToken, UnitTypeOK, Change
    <3>3. UnansweredInside'
      BY <2>4 DEF CancelToken, UnitTypeOK, UnansweredInside
    <3>4. UnitIsAtomic'
      BY <2>4 DEF CancelToken, UnitTypeOK, UnansweredInside, UnitIsAtomic, Change
    <3> QED
      BY <3>1, <3>2, <3>3, <3>4
  <2>5. CASE BodyRaises(u)
    <3>1. IsFiniteSet(holding') /\ holding' \subseteq Units /\ Cardinality(holding') <= PoolSize
      BY <2>5 DEF BodyRaises, UnitTypeOK
    <3>2. UnitTypeOK'
      BY <2>5, <3>1, UnitAssumption DEF BodyRaises, At, Move, UnitTypeOK, Change
    <3>3. UnansweredInside'
      BY <2>5 DEF BodyRaises, At, Move, UnitTypeOK, UnansweredInside
    <3>4. UnitIsAtomic'
      BY <2>5 DEF BodyRaises, At, Move, UnitTypeOK, UnansweredInside, UnitIsAtomic, Change
    <3> QED
      BY <3>1, <3>2, <3>3, <3>4
  <2>6. CASE RollBackInside(u)
    <3>1. IsFiniteSet(holding') /\ holding' \subseteq Units /\ Cardinality(holding') <= PoolSize
      BY <2>6, Disconnecting DEF RollBackInside, At, EndTransaction
    <3>2. UnitTypeOK'
      BY <2>6, <3>1, UnitAssumption DEF RollBackInside, At, EndTransaction, UnitTypeOK, Change
    <3>3. UnansweredInside'
      BY <2>6 DEF RollBackInside, At, EndTransaction, UnitTypeOK, UnansweredInside
    <3>4. UnitIsAtomic'
      BY <2>6 DEF RollBackInside, At, EndTransaction, UnitTypeOK, UnansweredInside, UnitIsAtomic, Change
    <3> QED
      BY <3>1, <3>2, <3>3, <3>4
  <2>7. CASE CancelledInCommit(u)
    <3>1. IsFiniteSet(holding') /\ holding' \subseteq Units /\ Cardinality(holding') <= PoolSize
      BY <2>7 DEF CancelledInCommit, UnitTypeOK
    <3>2. UnitTypeOK'
      BY <2>7, <3>1, UnitAssumption DEF CancelledInCommit, At, Move, Committed, UnitTypeOK, Change
    <3>3. UnansweredInside'
      BY <2>7 DEF CancelledInCommit, At, Move, Committed, UnitTypeOK, UnansweredInside
    <3>4. UnitIsAtomic'
      BY <2>7 DEF CancelledInCommit, At, Move, Committed, UnitTypeOK, UnansweredInside, UnitIsAtomic, Change
    <3> QED
      BY <3>1, <3>2, <3>3, <3>4
  <2>8. CASE BodyEnds(u)
    <3>1. IsFiniteSet(holding') /\ holding' \subseteq Units /\ Cardinality(holding') <= PoolSize
      BY <2>8 DEF BodyEnds, UnitTypeOK
    <3>2. UnitTypeOK'
      BY <2>8, <3>1, UnitAssumption DEF BodyEnds, At, Move, UnitTypeOK, Change
    <3>3. UnansweredInside'
      BY <2>8 DEF BodyEnds, At, Move, UnitTypeOK, UnansweredInside
    <3>4. UnitIsAtomic'
      BY <2>8 DEF BodyEnds, At, Move, UnitTypeOK, UnansweredInside, UnitIsAtomic, Change
    <3> QED
      BY <3>1, <3>2, <3>3, <3>4
  <2>9. CASE Abandon(u)
    <3>1. IsFiniteSet(holding') /\ holding' \subseteq Units /\ Cardinality(holding') <= PoolSize
      BY <2>9, Disconnecting DEF Abandon, At, Move, RollBackOpen, EndTransaction
    <3>2. UnitTypeOK'
      BY <2>9, <3>1, UnitAssumption DEF Abandon, At, Move, RollBackOpen, EndTransaction, UnitTypeOK, Change
    <3>3. UnansweredInside'
      BY <2>9 DEF Abandon, At, Move, RollBackOpen, EndTransaction, UnitTypeOK, UnansweredInside
    <3>4. UnitIsAtomic'
      BY <2>9 DEF Abandon, At, Move, RollBackOpen, EndTransaction, UnitTypeOK, UnansweredInside, UnitIsAtomic, Change
    <3> QED
      BY <3>1, <3>2, <3>3, <3>4
  <2>10. CASE Close(u)
    <3>1. IsFiniteSet(holding') /\ holding' \subseteq Units /\ Cardinality(holding') <= PoolSize
      BY <2>10, Disconnecting DEF Close, At, Move, EndTransaction
    <3>2. UnitTypeOK'
      BY <2>10, <3>1, UnitAssumption DEF Close, At, Move, EndTransaction, UnitTypeOK, Change
    <3>3. UnansweredInside'
      BY <2>10 DEF Close, At, Move, EndTransaction, UnitTypeOK, UnansweredInside
    <3>4. UnitIsAtomic'
      BY <2>10 DEF Close, At, Move, EndTransaction, UnitTypeOK, UnansweredInside, UnitIsAtomic, Change
    <3> QED
      BY <3>1, <3>2, <3>3, <3>4
  <2>11. CASE Commit(u)
    <3>1. IsFiniteSet(holding') /\ holding' \subseteq Units /\ Cardinality(holding') <= PoolSize
      BY <2>11, Disconnecting DEF Commit, EndTransaction
    <3>2. UnitTypeOK'
      BY <2>11, <3>1 DEF Commit, At, Move, EndTransaction, Committed, UnitTypeOK, Change
    <3>3. UnansweredInside'
      BY <2>11 DEF Commit, At, Move, UnitTypeOK, UnansweredInside
    <3>4. UnitIsAtomic'
      BY <2>11 DEF Commit, At, Move, EndTransaction, Committed, UnitTypeOK, UnansweredInside, UnitIsAtomic, Change
    <3> QED
      BY <3>1, <3>2, <3>3, <3>4
  <2> QED
    BY <1>n, <2>1, <2>2, <2>3, <2>4, <2>5, <2>6, <2>7, <2>8, <2>9, <2>10, <2>11
<1> QED
  BY <1>s, <1>n DEF UnitNext

(* SqliteUnitOfWork: for any number of units, changes and connections, the    *)
(* types hold, and with them that no more connections than the pool has are   *)
(* taken.                                                                     *)
THEOREM UnitTypeCorrect == UnitSpec => []UnitTypeOK
<1>1. UnitInit => UnitInv
  BY UnitStarts
<1>2. UnitInv /\ [UnitNext]_units => UnitInv'
  BY UnitStep
<1>3. UnitInv => UnitTypeOK
  BY DEF UnitInv
<1> QED
  BY <1>1, <1>2, <1>3, PTL DEF UnitSpec

(* The database holds of each unit what its commits have promised, and a unit *)
(* that is over has given its connection back.                                *)
THEOREM UnitsAreAtomic == UnitSpec => []UnitIsAtomic
<1>1. UnitInit => UnitInv
  BY UnitStarts
<1>2. UnitInv /\ [UnitNext]_units => UnitInv'
  BY UnitStep
<1>3. UnitInv => UnitIsAtomic
  BY DEF UnitInv
<1> QED
  BY <1>1, <1>2, <1>3, PTL DEF UnitSpec

-----------------------------------------------------------------------------
(* Min of FiniteSetsExt is a least element. *)
LEMMA Least ==
  ASSUME NEW S, S \subseteq Nat, S # {}
  PROVE  Min(S) \in S /\ \A y \in S : Min(S) <= y
<1>1. IsWellFoundedOn(OpToRel(<, Nat), Nat)
  BY NatLessThanWellFounded
<1>2. PICK x \in S : \A y \in S : ~(<<y, x>> \in OpToRel(<, Nat))
  BY <1>1, WFMin, Zenon
<1>3. \A y \in S : x <= y
  <2>1. SUFFICES ASSUME NEW y \in S, y < x PROVE FALSE
    OBVIOUS
  <2>2. <<y, x>> \in OpToRel(<, Nat)
    BY <2>1 DEF OpToRel
  <2> QED
    BY <1>2, <2>2
<1> QED
  BY <1>3 DEF Min

(* What a migrator holds is what its place in the loop says; the versions of  *)
(* its release that are not pending any more are applied.                     *)
ObjectsOf(v) == {o \in Object : o[1] = v}

Applying(p) == migrator[p] \in {"between", "migrating", "recorded"}

MigratorHolds(p) ==
  /\ migrator[p] \in {"idle", "between"} => created[p] = {} /\ recorded[p] = 0
  /\ Applying(p) =>
       pending[p] \subseteq 1..Known[p] /\ (1..Known[p]) \ pending[p] \subseteq history
  /\ migrator[p] = "migrating" =>
       pending[p] # {} /\ recorded[p] = 0 /\ created[p] \subseteq ObjectsOf(Current(p))
  /\ migrator[p] = "recorded" =>
       pending[p] # {} /\ recorded[p] = Current(p) /\ created[p] = ObjectsOf(Current(p))

MigrationInv ==
  MigrationTypeOK /\ HistoryMatchesSchema /\ \A p \in Migrators : MigratorHolds(p)

(* The next version of a migrator that has one left. *)
LEMMA CurrentIsLeast ==
  ASSUME MigrationTypeOK, NEW p \in Migrators, pending[p] # {}
  PROVE  /\ Current(p) \in pending[p] /\ Current(p) \in 1..Version
         /\ \A v \in pending[p] : Current(p) <= v
<1>1. pending[p] \subseteq 1..Version /\ pending[p] \subseteq Nat
  BY MigrationAssumption DEF MigrationTypeOK
<1> QED
  BY <1>1, Least DEF Current

LEMMA MigrationStarts == MigrationInit => MigrationInv
BY MigrationAssumption
   DEF MigrationInit, MigrationInv, MigrationTypeOK, HistoryMatchesSchema, MigratorHolds, Applying

(* A migrator that a step does not touch keeps what it holds, since history grows. *)
LEMMA OthersHold ==
  ASSUME NEW q \in Migrators, MigratorHolds(q), history \subseteq history',
         migrator'[q] = migrator[q], pending'[q] = pending[q],
         created'[q] = created[q], recorded'[q] = recorded[q]
  PROVE  MigratorHolds(q)'
BY DEF MigratorHolds, Applying, Current, ObjectsOf, Object

(* Each step of a migrator keeps the invariant. *)
LEMMA MigrationStep ==
  ASSUME MigrationInv, [MigrationNext]_migrations
  PROVE  MigrationInv'
<1> USE DEF MigrationInv
<1>s. CASE UNCHANGED migrations
  BY <1>s DEF migrations, MigrationTypeOK, HistoryMatchesSchema, MigratorHolds, Applying,
              Current, ObjectsOf, Object
<1>n. ASSUME NEW p \in Migrators,
             \/ RunPending(p) \/ NextVersion(p) \/ Create(p) \/ Insert(p) \/ Release(p)
             \/ Fail(p) \/ RollBack(p) \/ Crash(p)
      PROVE  MigrationInv'
  <2>1. CASE RunPending(p)
    <3>k. 1..Known[p] \subseteq 1..Version
      BY MigrationAssumption
    <3>t. MigrationTypeOK'
      BY <2>1, <3>k DEF RunPending, Goto, MigrationTypeOK
    <3>h. HistoryMatchesSchema'
      BY <2>1 DEF RunPending, HistoryMatchesSchema, Object
    <3>1. MigrationTypeOK' /\ HistoryMatchesSchema'
      BY <3>t, <3>h
    <3>2. MigratorHolds(p)'
      BY <2>1 DEF RunPending, Goto, MigrationTypeOK, MigratorHolds, Applying
    <3>3. \A q \in Migrators \ {p} : MigratorHolds(q)'
      BY <2>1, OthersHold DEF RunPending, Goto, MigrationTypeOK
    <3> QED
      BY <3>1, <3>2, <3>3
  <2>2. CASE NextVersion(p)
    <3>1. MigrationTypeOK' /\ HistoryMatchesSchema'
      BY <2>2 DEF NextVersion, Goto, MigrationTypeOK, HistoryMatchesSchema
    <3>2. MigratorHolds(p)'
      BY <2>2 DEF NextVersion, Goto, MigrationTypeOK, MigratorHolds, Applying, ObjectsOf
    <3>3. \A q \in Migrators \ {p} : MigratorHolds(q)'
      BY <2>2, OthersHold DEF NextVersion, Goto, MigrationTypeOK
    <3> QED
      BY <3>1, <3>2, <3>3
  <2>3. CASE Create(p)
    <3> DEFINE o == CHOOSE x \in Missing(p) : \A y \in Missing(p) : x[2] <= y[2]
    <3>o. PICK c \in Missing(p) : \A y \in Missing(p) : c[2] <= y[2]
      <4> DEFINE S == {y[2] : y \in Missing(p)}
      <4>1. Missing(p) # {} /\ \A y \in Missing(p) : y[2] \in Nat
        BY <2>3, MigrationAssumption DEF Create, Missing, Object
      <4>2. S \subseteq Nat /\ S # {}
        BY <4>1
      <4>3. PICK m \in S : \A n \in S : m <= n
        BY <4>2, Least
      <4> QED
        BY <4>3
    <3>c. o \in Missing(p)
      BY <3>o
    <3>d. o \in ObjectsOf(Current(p))
      BY <3>c DEF Missing, ObjectsOf
    <3> HIDE DEF o
    <3>e. IF o \in schema THEN Goto(p, "failed") /\ UNCHANGED created
          ELSE created' = [created EXCEPT ![p] = @ \union {o}] /\ UNCHANGED migrator
      BY <2>3 DEF Create, o
    <3>u. UNCHANGED <<schema, history, pending, recorded>> /\ migrator[p] = "migrating"
      BY <2>3 DEF Create
    <3>1. MigrationTypeOK' /\ HistoryMatchesSchema'
      BY <3>d, <3>e, <3>u DEF Goto, MigrationTypeOK, HistoryMatchesSchema, ObjectsOf, Object
    <3>2. MigratorHolds(p)'
      BY <3>d, <3>e, <3>u DEF Goto, MigrationTypeOK, MigratorHolds, Applying, ObjectsOf, Object, Current
    <3>3. \A q \in Migrators \ {p} : MigratorHolds(q)'
      BY <3>e, <3>u, OthersHold DEF Goto, MigrationTypeOK
    <3> QED
      BY <3>1, <3>2, <3>3
  <2>4. CASE Insert(p)
    <3>1. pending[p] # {} /\ migrator[p] = "migrating" /\ Missing(p) = {}
      BY <2>4 DEF Insert, MigratorHolds
    <3>2. Current(p) \in 1..Version /\ 0 \in 0..Version /\ 1..Version \subseteq 0..Version
      BY <3>1, CurrentIsLeast, MigrationAssumption
    <3>3. created[p] = ObjectsOf(Current(p))
      BY <3>1 DEF Missing, ObjectsOf, MigratorHolds
    <3>4. MigrationTypeOK' /\ HistoryMatchesSchema'
      BY <2>4, <3>2 DEF Insert, Record, Goto, MigrationTypeOK, HistoryMatchesSchema
    <3>5. MigratorHolds(p)'
      BY <2>4, <3>1, <3>3 DEF Insert, Record, Goto, MigrationTypeOK, MigratorHolds, Applying,
                              ObjectsOf, Object, Current
    <3>6. \A q \in Migrators \ {p} : MigratorHolds(q)'
      BY <2>4, OthersHold DEF Insert, Record, Goto, MigrationTypeOK
    <3> QED
      BY <3>4, <3>5, <3>6
  <2>5. CASE Release(p)
    <3> DEFINE v == Current(p)
    <3>1. /\ migrator[p] = "recorded" /\ pending[p] # {}
          /\ recorded[p] = v /\ created[p] = ObjectsOf(v)
      BY <2>5 DEF Release, MigratorHolds
    <3>2. /\ v \in pending[p] /\ v \in 1..Version
          /\ \A w \in pending[p] : v <= w
      BY <3>1, CurrentIsLeast
    <3>3. pending[p] \subseteq 1..Known[p] /\ (1..Known[p]) \ pending[p] \subseteq history
      BY <3>1 DEF MigratorHolds, Applying
    <3> HIDE DEF v
    <3>4. history' = history \union {v} /\ schema' = schema \union ObjectsOf(v)
      BY <2>5, <3>1, <3>2, MigrationAssumption DEF Release
    <3>5. 1..v \subseteq history'
      <4>1. Known[p] \in Nat /\ v \in Nat /\ v <= Known[p]
        BY <3>2, <3>3, MigrationAssumption
      <4>2. ASSUME NEW w \in 1..v PROVE w \in history'
        <5>1. CASE w = v
          BY <5>1, <3>4
        <5>2. CASE w # v
          <6>1. w \in 1..Known[p] /\ ~(v <= w)
            BY <5>2, <4>1
          <6> QED
            BY <6>1, <3>2, <3>3, <3>4
        <5> QED
          BY <5>1, <5>2
      <4> QED
        BY <4>2
    <3>6. HistoryMatchesSchema'
      <4>1. schema' = {o \in Object : o[1] \in history'}
        BY <3>4 DEF HistoryMatchesSchema, ObjectsOf, Object
      <4>2. \A w \in history' : 1..w \subseteq history'
        BY <3>4, <3>5 DEF HistoryMatchesSchema
      <4> QED
        BY <4>1, <4>2 DEF HistoryMatchesSchema
    <3>7. MigrationTypeOK'
      <4>1. 0 \in 0..Version
        BY MigrationAssumption
      <4>2. schema' \subseteq Object /\ history' \subseteq 1..Version
        BY <3>2, <3>4 DEF MigrationTypeOK, ObjectsOf
      <4> QED
        BY <2>5, <4>1, <4>2 DEF Release, Discard, Goto, MigrationTypeOK
    <3>8. MigratorHolds(p)'
      <4>1. /\ migrator'[p] = "between" /\ created'[p] = {} /\ recorded'[p] = 0
            /\ pending'[p] = pending[p] \ {v}
        BY <2>5 DEF Release, Discard, Goto, MigrationTypeOK, v
      <4> QED
        BY <4>1, <3>3, <3>4 DEF MigratorHolds, Applying
    <3>9. \A q \in Migrators \ {p} : MigratorHolds(q)'
      BY <2>5, <3>4, OthersHold DEF Release, Discard, Goto, MigrationTypeOK
    <3> QED
      BY <3>6, <3>7, <3>8, <3>9
  <2>6. CASE Fail(p)
    <3>1. MigrationTypeOK' /\ HistoryMatchesSchema'
      BY <2>6 DEF Fail, Goto, MigrationTypeOK, HistoryMatchesSchema
    <3>2. MigratorHolds(p)'
      BY <2>6 DEF Fail, Goto, MigrationTypeOK, MigratorHolds, Applying
    <3>3. \A q \in Migrators \ {p} : MigratorHolds(q)'
      BY <2>6, OthersHold DEF Fail, Goto, MigrationTypeOK
    <3> QED
      BY <3>1, <3>2, <3>3
  <2>7. CASE RollBack(p) \/ Crash(p)
    <3>0. 0 \in 0..Version
      BY MigrationAssumption
    <3>t. MigrationTypeOK'
      BY <2>7, <3>0 DEF RollBack, Crash, Discard, Goto, MigrationTypeOK
    <3>h. HistoryMatchesSchema'
      BY <2>7 DEF RollBack, Crash, HistoryMatchesSchema, Object
    <3>1. MigrationTypeOK' /\ HistoryMatchesSchema'
      BY <3>t, <3>h
    <3>2. MigratorHolds(p)'
      BY <2>7 DEF RollBack, Crash, Discard, Goto, MigrationTypeOK, MigratorHolds, Applying
    <3>3. \A q \in Migrators \ {p} : MigratorHolds(q)'
      BY <2>7, OthersHold DEF RollBack, Crash, Discard, Goto, MigrationTypeOK
    <3> QED
      BY <3>1, <3>2, <3>3
  <2> QED
    BY <1>n, <2>1, <2>2, <2>3, <2>4, <2>5, <2>6, <2>7
<1> QED
  BY <1>s, <1>n DEF MigrationNext

(* MigrationRunner: for any number of processes, releases and statements, the *)
(* types hold.                                                                *)
THEOREM MigrationTypeCorrect == MigrationSpec => []MigrationTypeOK
<1>1. MigrationInit => MigrationInv
  BY MigrationStarts
<1>2. MigrationInv /\ [MigrationNext]_migrations => MigrationInv'
  BY MigrationStep
<1>3. MigrationInv => MigrationTypeOK
  BY DEF MigrationInv
<1> QED
  BY <1>1, <1>2, <1>3, PTL DEF MigrationSpec

(* The schema is what the recorded versions create and they have no gap, for  *)
(* any number of processes of any releases that fail and die anywhere.        *)
THEOREM SchemaIsRecorded == MigrationSpec => []HistoryMatchesSchema
<1>1. MigrationInit => MigrationInv
  BY MigrationStarts
<1>2. MigrationInv /\ [MigrationNext]_migrations => MigrationInv'
  BY MigrationStep
<1>3. MigrationInv => HistoryMatchesSchema
  BY DEF MigrationInv
<1> QED
  BY <1>1, <1>2, <1>3, PTL DEF MigrationSpec

-----------------------------------------------------------------------------
(* What became of repository r lets a run that ends here succeed. *)
Tried(r) == outcome[r] # "none" /\ (loop = "cli" => outcome[r] = "synced")

(* The loop has tried every repository it is past, it has no exit yet while it *)
(* is in the loop, and it only leaves early cancelled or with an error.        *)
LoopHolds ==
  /\ stage = "syncing" => repository \in Repositories
  /\ stage \in {"next", "syncing"} =>
       exit = "none" /\ \A r \in Repositories : r < repository => Tried(r)
  /\ stage = "close" =>
       \/ exit = "error"
       \/ exit = "none" /\ (cancelled \/ \A r \in Repositories : Tried(r))

(* A row that was ever made has a digest: so have what is queued and arrived. *)
RowsHaveDigests ==
  /\ \A f \in Files : row[f].state # "none" => row[f].sha256 # Absent
  /\ \A f \in queue \union arrived : row[f].sha256 # Absent

(* A command that does not run has left nothing behind. *)
AtRest == command = "none" => listed = {} /\ bad = {}

(* What clean is about to remove was not vouched for when it asked. *)
CleanHolds ==
  command = "clean" /\ phase \in {"confirm", "remove"} =>
    \A f \in listed : f \in touched \/ ~Vouched(f)

(* verify has dealt with every file that has a digest to expect and is no     *)
(* longer listed: it is noted as a mismatch, or it matched and still does.     *)
VerifyHolds ==
  command = "verify" =>
    /\ phase \in {"check", "idle"}
    /\ \A f \in listed \union bad : expected[f] # Absent
    /\ \A f \in Files : expected[f] # Absent =>
         f \in listed \union bad \union touched \/ disk[f] \in {Absent, expected[f]}
    /\ \A f \in bad : f \in touched \/ disk[f] \notin {Absent, expected[f]}
    /\ phase = "idle" => listed = {} /\ (verdict = "pass" => bad = {}) /\ (verdict = "fail" => bad # {})

(* The integrity scan has compared every file it is past, and holds the       *)
(* digest of the one it has read until that file changes.                     *)
ScanHolds ==
  command = "initialize" =>
    /\ phase \in {"hash", "lookup", "invalidate"}
    /\ \A f \in OnDisk \ touched :
         f \in listed \/ (phase = "lookup" /\ digest.file = f)
                      \/ (row[f] # NoRow => disk[f] = row[f].sha256)
    /\ phase = "lookup" =>
         /\ digest # NoDigest
         /\ \A f \in OnDisk \ touched : digest.file = f => disk[f] = digest.sha256
    /\ phase = "invalidate" => listed = {} /\ (bad # {} => ~cacheValid)

CacheInv ==
  /\ CacheTypeOK
  /\ LoopHolds /\ RowsHaveDigests
  /\ AtRest /\ CleanHolds /\ VerifyHolds /\ ScanHolds
-----------------------------------------------------------------------------
LEMMA CacheStarts == CacheInit => CacheInv
<1> SUFFICES ASSUME CacheInit PROVE CacheInv
  OBVIOUS
<1>1. MirrorTypeOK
  <2>1. 1 \in 1..NumRepositories + 1 /\ 0 \in 0..MaxFaults
    BY RunAssumption
  <2>2. NoRow \in [state : {"none", "discovered", "queued", "verified"},
                  sha256 : Digests \union {Absent}]
    BY DEF NoRow
  <2> QED
    BY <2>1, <2>2, RunAssumption DEF CacheInit, MirrorInit, MirrorTypeOK
<1>2. CacheTypeOK
  BY <1>1, DamageAssumption, RunAssumption DEF CacheInit, CacheTypeOK, NoDigest
<1>3. LoopHolds /\ RowsHaveDigests
  BY DEF CacheInit, MirrorInit, LoopHolds, RowsHaveDigests, NoRow
<1>4. AtRest /\ CleanHolds /\ VerifyHolds /\ ScanHolds
  BY DEF CacheInit, AtRest, CleanHolds, VerifyHolds, ScanHolds
<1> QED
  BY <1>2, <1>3, <1>4 DEF CacheInv

-----------------------------------------------------------------------------
(* The run.                                                                    *)

(* A row that is taken over in another state keeps its type and its digest. *)
LEMMA Restated ==
  ASSUME MirrorTypeOK, NEW f \in Files,
         NEW s \in {"none", "discovered", "queued", "verified"}
  PROVE  /\ [row[f] EXCEPT !.state = s] \in [state : {"none", "discovered", "queued", "verified"},
                                             sha256 : Digests \union {Absent}]
         /\ [row[f] EXCEPT !.state = s].sha256 = row[f].sha256
BY DEF MirrorTypeOK

LEMMA RunTypes ==
  ASSUME MirrorTypeOK, LoopHolds, MirrorNext
  PROVE  MirrorTypeOK'
<1>0. NumRepositories \in Nat \ {0} /\ repository \in Nat /\ faults \in Nat /\ MaxFaults \in Nat
  BY RunAssumption DEF MirrorTypeOK
<1>1. ASSUME NEW f \in Files, Upstream(f) PROVE MirrorTypeOK'
  BY <1>1 DEF Upstream, MirrorTypeOK, store, running
<1>2. ASSUME NEW f \in Files, Arrive(f) PROVE MirrorTypeOK'
  <2>1. row[f].sha256 \in Digests \union {Absent}
    BY DEF MirrorTypeOK
  <2> QED
    BY <1>2, <2>1 DEF Arrive, MirrorTypeOK
<1>3. CASE StartRun
  <2>1. 1 \in 1..NumRepositories + 1
    BY <1>0
  <2> QED
    BY <1>3, <2>1 DEF StartRun, MirrorTypeOK, store
<1>4. CASE LeaveLoop
  BY <1>4 DEF LeaveLoop, MirrorTypeOK, store
<1>5. CASE EnterRepository
  <2>1. Outdated \subseteq Files
    <3>1. repository \in Repositories
      BY <1>5, <1>0 DEF EnterRepository, Done, MirrorTypeOK, Repositories
    <3> QED
      BY <3>1, RunAssumption DEF Outdated
  <2>2. \A f \in Files : (IF f \in Outdated THEN [state |-> "queued", sha256 |-> upstream[f]] ELSE row[f])
            \in [state : {"none", "discovered", "queued", "verified"}, sha256 : Digests \union {Absent}]
    BY DEF MirrorTypeOK
  <2>3. row' \in [Files -> [state : {"none", "discovered", "queued", "verified"},
                            sha256 : Digests \union {Absent}]]
    BY <1>5, <2>2 DEF EnterRepository
  <2> QED
    BY <1>5, <2>1, <2>3 DEF EnterRepository, MirrorTypeOK
<1>6. CASE RepositoryReturns
  <2>1. repository + 1 \in 1..NumRepositories + 1
    BY <1>0, <1>6 DEF RepositoryReturns, LoopHolds, Repositories
  <2>2. \A f \in Files : (IF f \in arrived THEN [row[f] EXCEPT !.state = "verified"] ELSE row[f])
            \in [state : {"none", "discovered", "queued", "verified"}, sha256 : Digests \union {Absent}]
    BY Restated DEF MirrorTypeOK
  <2>3. row' \in [Files -> [state : {"none", "discovered", "queued", "verified"},
                            sha256 : Digests \union {Absent}]]
    BY <1>6, <2>2 DEF RepositoryReturns
  <2> QED
    BY <1>6, <2>1, <2>3 DEF RepositoryReturns, MirrorTypeOK
<1>7. CASE RepositoryRaises
  <2>1. repository + 1 \in 1..NumRepositories + 1 /\ faults + 1 \in 0..MaxFaults
    BY <1>0, <1>7 DEF RepositoryRaises, LoopHolds, Repositories
  <2> QED
    BY <1>7, <2>1 DEF RepositoryRaises, AfterFailure, MirrorTypeOK, store
<1>8. CASE CancelRun
  BY <1>8 DEF CancelRun, MirrorTypeOK, store
<1>9. CASE CloseRun
  <2>1. 1 \in 1..NumRepositories + 1
    BY <1>0
  <2>2. \A f \in Files : (IF row[f].state = "queued" THEN [row[f] EXCEPT !.state = "discovered"] ELSE row[f])
            \in [state : {"none", "discovered", "queued", "verified"}, sha256 : Digests \union {Absent}]
    BY Restated DEF MirrorTypeOK
  <2>3. row' \in [Files -> [state : {"none", "discovered", "queued", "verified"},
                            sha256 : Digests \union {Absent}]]
    BY <1>9, <2>2 DEF CloseRun, MirrorTypeOK
  <2> QED
    BY <1>9, <2>1, <2>3 DEF CloseRun, MirrorTypeOK
<1>10. CASE KillRun
  <2>1. 1 \in 1..NumRepositories + 1 /\ faults + 1 \in 0..MaxFaults
    BY <1>0, <1>10 DEF KillRun
  <2> QED
    BY <1>10, <2>1 DEF KillRun, MirrorTypeOK, store
<1> QED
  BY <1>1, <1>2, <1>3, <1>4, <1>5, <1>6, <1>7, <1>8, <1>9, <1>10 DEF MirrorNext

LEMMA RunKeeps ==
  ASSUME MirrorTypeOK, LoopHolds, RowsHaveDigests, MirrorNext
  PROVE  LoopHolds' /\ RowsHaveDigests'
<1>0. NumRepositories \in Nat \ {0} /\ repository \in Nat /\ \A r \in Repositories : r \in Nat
  BY RunAssumption DEF MirrorTypeOK, Repositories
<1>1. ASSUME NEW f \in Files, Upstream(f) PROVE LoopHolds' /\ RowsHaveDigests'
  BY <1>1 DEF Upstream, LoopHolds, RowsHaveDigests, Tried, store, running
<1>2. ASSUME NEW f \in Files, Arrive(f) PROVE LoopHolds' /\ RowsHaveDigests'
  BY <1>2 DEF Arrive, LoopHolds, RowsHaveDigests, Tried
<1>3. CASE StartRun
  <2>1. \A r \in Repositories : ~(r < 1)
    BY <1>0 DEF Repositories
  <2> QED
    BY <1>3, <2>1 DEF StartRun, LoopHolds, RowsHaveDigests, Tried, store
<1>4. CASE LeaveLoop
  <2>1. RowsHaveDigests'
    BY <1>4 DEF LeaveLoop, RowsHaveDigests, store
  <2>2. cancelled \/ \A r \in Repositories : Tried(r)
    <3>1. CASE repository > NumRepositories
      <4>1. \A r \in Repositories : r < repository
        BY <3>1, <1>0 DEF Repositories
      <4> QED
        BY <4>1, <1>4 DEF LeaveLoop, LoopHolds
    <3> QED
      BY <3>1, <1>4 DEF LeaveLoop, Done
  <2> QED
    BY <1>4, <2>1, <2>2 DEF LeaveLoop, LoopHolds, Tried
<1>5. CASE EnterRepository
  <2>1. LoopHolds'
    BY <1>0, <1>5 DEF EnterRepository, Done, LoopHolds, Tried, MirrorTypeOK, Repositories
  <2>2. \A f \in Files : upstream[f] # Absent
    BY RunAssumption DEF MirrorTypeOK
  <2>3. \A f \in Files : row'[f] = IF f \in Outdated THEN [state |-> "queued", sha256 |-> upstream[f]]
                                                    ELSE row[f]
    BY <1>5 DEF EnterRepository
  <2>4. repository \in Repositories
    BY <1>5, <1>0 DEF EnterRepository, Done, MirrorTypeOK, Repositories
  <2>5. Outdated \subseteq Files
    BY <2>4, RunAssumption DEF Outdated
  <2>6. RowsHaveDigests'
    BY <1>5, <2>2, <2>3, <2>5 DEF EnterRepository, RowsHaveDigests
  <2> QED
    BY <2>1, <2>6
<1>6. CASE RepositoryReturns
  <2>1. \A r \in Repositories : r < repository + 1 => r < repository \/ r = repository
    BY <1>0
  <2>2. repository \in Repositories /\ outcome'[repository] = "synced"
    BY <1>6 DEF RepositoryReturns, LoopHolds, MirrorTypeOK
  <2>3. \A r \in Repositories \ {repository} : outcome'[r] = outcome[r]
    BY <1>6 DEF RepositoryReturns, MirrorTypeOK
  <2>4. LoopHolds'
    BY <1>6, <2>1, <2>2, <2>3 DEF RepositoryReturns, LoopHolds, Tried
  <2>5. \A f \in Files : /\ f \in arrived => row'[f].sha256 = row[f].sha256
                         /\ f \notin arrived => row'[f] = row[f]
    BY <1>6, Restated DEF RepositoryReturns
  <2>6. RowsHaveDigests'
    BY <1>6, <2>5 DEF RepositoryReturns, RowsHaveDigests
  <2> QED
    BY <2>4, <2>6
<1>7. CASE RepositoryRaises
  <2>1. \A r \in Repositories : r < repository + 1 => r < repository \/ r = repository
    BY <1>0
  <2>2. repository \in Repositories /\ outcome'[repository] = "failed"
    BY <1>7 DEF RepositoryRaises, LoopHolds, MirrorTypeOK
  <2>3. \A r \in Repositories \ {repository} : outcome'[r] = outcome[r]
    BY <1>7 DEF RepositoryRaises, MirrorTypeOK
  <2>4. LoopHolds'
    BY <1>7, <2>1, <2>2, <2>3 DEF RepositoryRaises, AfterFailure, LoopHolds, Tried, MirrorTypeOK
  <2>6. RowsHaveDigests'
    BY <1>7 DEF RepositoryRaises, RowsHaveDigests, store
  <2> QED
    BY <2>4, <2>6
<1>8. CASE CancelRun
  BY <1>8 DEF CancelRun, LoopHolds, RowsHaveDigests, Tried, store
<1>9. CASE CloseRun
  <2>1. LoopHolds'
    BY <1>9 DEF CloseRun, LoopHolds
  <2>2. \A f \in Files : row'[f].sha256 = row[f].sha256 /\ (row'[f].state # "none" => row[f].state # "none")
    BY <1>9, Restated DEF CloseRun, MirrorTypeOK
  <2>3. \A f \in Files : row'[f].state # "none" => row'[f].sha256 # Absent
    BY <2>2 DEF RowsHaveDigests
  <2>4. queue' \union arrived' \subseteq Files /\ queue' = queue /\ arrived' = arrived
    BY <1>9 DEF CloseRun, MirrorTypeOK
  <2> QED
    BY <2>1, <2>2, <2>3, <2>4 DEF RowsHaveDigests
<1>10. CASE KillRun
  BY <1>10 DEF KillRun, LoopHolds, RowsHaveDigests, store
<1> QED
  BY <1>1, <1>2, <1>3, <1>4, <1>5, <1>6, <1>7, <1>8, <1>9, <1>10 DEF MirrorNext
-----------------------------------------------------------------------------
(* The commands.                                                               *)

(* What a command holds survives whatever the sync and the outside do: a file *)
(* they change is a touched one.                                               *)
LEMMA Untouched ==
  ASSUME Touch, command # "none", NEW f \in Files, f \notin touched'
  PROVE  f \notin touched /\ disk'[f] = disk[f] /\ row'[f] = row[f]
BY DEF Touch

LEMMA WorldKeeps ==
  ASSUME CacheInv, Touch,
         UNCHANGED <<command, phase, listed, expected, digest, bad, verdict, cacheValid>>
  PROVE  AtRest' /\ CleanHolds' /\ VerifyHolds' /\ ScanHolds'
<1>1. AtRest'
  BY DEF CacheInv, AtRest
<1>2. CleanHolds'
  BY Untouched DEF CacheInv, CacheTypeOK, CleanHolds, Vouched
<1>3. VerifyHolds'
  BY Untouched DEF CacheInv, CacheTypeOK, VerifyHolds
<1>4. ScanHolds'
  BY Untouched DEF CacheInv, CacheTypeOK, ScanHolds, OnDisk
<1> QED
  BY <1>1, <1>2, <1>3, <1>4

LEMMA SyncKeeps ==
  ASSUME CacheInv, Sync
  PROVE  CacheInv'
<1>1. MirrorTypeOK' /\ LoopHolds' /\ RowsHaveDigests'
  BY RunTypes, RunKeeps DEF CacheInv, CacheTypeOK, Sync
<1>2. CacheTypeOK'
  <2>1. touched' \subseteq Files
    BY DEF CacheInv, CacheTypeOK, Sync, Touch
  <2> QED
    BY <1>1, <2>1 DEF CacheInv, CacheTypeOK, Sync
<1>3. AtRest' /\ CleanHolds' /\ VerifyHolds' /\ ScanHolds'
  BY WorldKeeps DEF Sync
<1> QED
  BY <1>1, <1>2, <1>3 DEF CacheInv

LEMMA DamageKeeps ==
  ASSUME CacheInv, NEW f \in Files, Damage(f)
  PROVE  CacheInv'
<1>1. MirrorTypeOK'
  BY DEF CacheInv, CacheTypeOK, Damage, MirrorTypeOK, running
<1>2. LoopHolds' /\ RowsHaveDigests'
  BY DEF CacheInv, Damage, LoopHolds, Tried, RowsHaveDigests, running
<1>3. CacheTypeOK'
  <2>1. touched' \subseteq Files
    BY DEF CacheInv, CacheTypeOK, Damage, Touch
  <2>2. damage + 1 \in 0..MaxDamage
    BY DamageAssumption DEF CacheInv, CacheTypeOK, Damage
  <2> QED
    BY <1>1, <2>1, <2>2 DEF CacheInv, CacheTypeOK, Damage
<1>4. AtRest' /\ CleanHolds' /\ VerifyHolds' /\ ScanHolds'
  BY WorldKeeps DEF Damage
<1> QED
  BY <1>2, <1>3, <1>4 DEF CacheInv

(* A command that returns, or is killed, leaves nothing behind. *)
LEMMA LeaveKeeps ==
  ASSUME CacheInv, Leave, UNCHANGED <<mirror, cacheValid, damage>>
  PROVE  CacheInv'
<1>1. MirrorTypeOK' /\ LoopHolds' /\ RowsHaveDigests'
  BY DEF CacheInv, CacheTypeOK, MirrorTypeOK, LoopHolds, Tried, RowsHaveDigests, mirror, store, running
<1>2. CacheTypeOK'
  BY <1>1 DEF CacheInv, CacheTypeOK, Leave, NoDigest
<1>3. AtRest' /\ CleanHolds' /\ VerifyHolds' /\ ScanHolds'
  BY DEF Leave, AtRest, CleanHolds, VerifyHolds, ScanHolds
<1> QED
  BY <1>1, <1>2, <1>3 DEF CacheInv

(* What belongs to the run is as it was when no file changes. *)
LEMMA RunRests ==
  ASSUME CacheInv, UNCHANGED mirror
  PROVE  MirrorTypeOK' /\ LoopHolds' /\ RowsHaveDigests'
BY DEF CacheInv, CacheTypeOK, MirrorTypeOK, LoopHolds, Tried, RowsHaveDigests, mirror, store, running

(* A command that removes a file changes nothing else the run has. *)
LEMMA RunSurvives ==
  ASSUME CacheInv, UNCHANGED <<upstream, row, running>>, NEW f \in Files,
         disk' \in {disk, [disk EXCEPT ![f] = Absent]}
  PROVE  MirrorTypeOK' /\ LoopHolds' /\ RowsHaveDigests'
<1>1. disk' \in [Files -> Digests \union {Absent}]
  BY DEF CacheInv, CacheTypeOK, MirrorTypeOK
<1> QED
  BY <1>1 DEF CacheInv, CacheTypeOK, MirrorTypeOK, LoopHolds, Tried, RowsHaveDigests, running

LEMMA CleanKeeps ==
  ASSUME CacheInv, Scan \/ QueryReferenced \/ Confirm \/ \E f \in Files : RemoveListed(f)
  PROVE  CacheInv'
<1>1. CASE Scan
  <2>1. CacheTypeOK'
    BY <1>1, RunRests DEF CacheInv, CacheTypeOK, Scan, OnDisk
  <2>2. AtRest' /\ CleanHolds' /\ VerifyHolds' /\ ScanHolds'
    BY <1>1 DEF Scan, AtRest, CleanHolds, VerifyHolds, ScanHolds
  <2> QED
    BY <1>1, <2>1, <2>2, RunRests DEF CacheInv, Scan
<1>2. CASE QueryReferenced
  <2>1. CASE Leave
    BY <1>2, <2>1, LeaveKeeps DEF QueryReferenced
  <2>2. CASE ~Leave
    <3>1. /\ UNCHANGED mirror /\ command' = "clean" /\ phase' = "confirm" /\ listed' = Unreferenced
          /\ touched' = {} /\ UNCHANGED <<expected, digest, bad, verdict, cacheValid, damage>>
      BY <1>2, <2>2 DEF QueryReferenced
    <3>2. CacheTypeOK'
      BY <3>1, RunRests DEF CacheInv, CacheTypeOK, Unreferenced
    <3>3. CleanHolds'
      BY <3>1 DEF CleanHolds, Unreferenced, Vouched, mirror, store
    <3>4. AtRest' /\ VerifyHolds' /\ ScanHolds'
      BY <3>1 DEF AtRest, VerifyHolds, ScanHolds
    <3> QED
      BY <3>1, <3>2, <3>3, <3>4, RunRests DEF CacheInv
  <2> QED
    BY <2>1, <2>2
<1>3. CASE Confirm
  <2>1. CASE Leave
    BY <1>3, <2>1, LeaveKeeps DEF Confirm
  <2>2. CASE ~Leave
    <3>1. /\ UNCHANGED mirror /\ command' = "clean" /\ phase' = "remove" /\ phase = "confirm"
          /\ UNCHANGED <<command, listed, touched, expected, digest, bad, verdict, cacheValid, damage>>
      BY <1>3, <2>2 DEF Confirm
    <3>2. CacheTypeOK'
      BY <3>1, RunRests DEF CacheInv, CacheTypeOK
    <3>3. CleanHolds'
      BY <3>1 DEF CacheInv, CleanHolds, Vouched, mirror, store
    <3>4. AtRest' /\ VerifyHolds' /\ ScanHolds'
      BY <3>1 DEF AtRest, VerifyHolds, ScanHolds
    <3> QED
      BY <3>1, <3>2, <3>3, <3>4, RunRests DEF CacheInv
  <2> QED
    BY <2>1, <2>2
<1>4. ASSUME NEW f \in Files, RemoveListed(f) PROVE CacheInv'
  <2>0. disk' \in {disk, [disk EXCEPT ![f] = Absent]}
    BY <1>4 DEF RemoveListed
  <2>1. MirrorTypeOK' /\ LoopHolds' /\ RowsHaveDigests'
    BY <1>4, <2>0, RunSurvives DEF RemoveListed
  <2>2. CASE Leave
    <3>1. CacheTypeOK'
      BY <1>4, <2>1, <2>2 DEF CacheInv, CacheTypeOK, Leave, NoDigest, RemoveListed
    <3>2. AtRest' /\ CleanHolds' /\ VerifyHolds' /\ ScanHolds'
      BY <2>2 DEF Leave, AtRest, CleanHolds, VerifyHolds, ScanHolds
    <3> QED
      BY <2>1, <3>1, <3>2 DEF CacheInv
  <2>3. CASE ~Leave
    <3>1. /\ command' = "clean" /\ command = "clean" /\ phase' = "remove" /\ phase = "remove"
          /\ listed' = listed \ {f} /\ row' = row
          /\ UNCHANGED <<command, touched, expected, digest, bad, verdict, cacheValid, damage>>
      BY <1>4, <2>3 DEF RemoveListed
    <3>2. CacheTypeOK'
      BY <3>1, <2>1 DEF CacheInv, CacheTypeOK
    <3>3. CleanHolds'
      BY <3>1 DEF CacheInv, CleanHolds, Vouched
    <3>4. AtRest' /\ VerifyHolds' /\ ScanHolds'
      BY <3>1 DEF AtRest, VerifyHolds, ScanHolds
    <3> QED
      BY <2>1, <3>2, <3>3, <3>4 DEF CacheInv
  <2> QED
    BY <2>2, <2>3
<1> QED
  BY <1>1, <1>2, <1>3, <1>4

LEMMA VerifyKeeps ==
  ASSUME CacheInv, QueryVerified \/ Report \/ EndVerify \/ \E f \in Files : CheckListed(f)
  PROVE  CacheInv'
<1>1. CASE QueryVerified
  <2>1. CacheTypeOK'
    <3>1. expected' \in [Files -> Digests \union {Absent}]
      BY <1>1 DEF QueryVerified, CacheInv, CacheTypeOK, MirrorTypeOK
    <3> QED
      BY <1>1, <3>1, RunRests DEF CacheInv, CacheTypeOK, QueryVerified
  <2>2. VerifyHolds'
    <3>1. bad' = {}
      BY <1>1 DEF QueryVerified, CacheInv, AtRest
    <3>2. \A f \in Files : expected'[f] # Absent <=> f \in listed'
      BY <1>1 DEF QueryVerified, CacheInv, RowsHaveDigests, Vouched
    <3>3. listed' \subseteq Files /\ phase' = "check"
      BY <1>1 DEF QueryVerified
    <3> QED
      BY <3>1, <3>2, <3>3 DEF VerifyHolds
  <2>3. AtRest' /\ CleanHolds' /\ ScanHolds'
    BY <1>1 DEF QueryVerified, AtRest, CleanHolds, ScanHolds
  <2> QED
    BY <1>1, <2>1, <2>2, <2>3, RunRests DEF CacheInv, QueryVerified
<1>2. CASE Report
  <2>1. CacheTypeOK'
    BY <1>2, RunRests DEF CacheInv, CacheTypeOK, Report, Verdict
  <2>2. VerifyHolds'
    BY <1>2 DEF CacheInv, VerifyHolds, Report, Verdict, mirror, store
  <2>3. AtRest' /\ CleanHolds' /\ ScanHolds'
    BY <1>2 DEF Report, AtRest, CleanHolds, ScanHolds
  <2> QED
    BY <1>2, <2>1, <2>2, <2>3, RunRests DEF CacheInv, Report
<1>3. CASE EndVerify
  BY <1>3, LeaveKeeps DEF EndVerify
<1>4. ASSUME NEW f \in Files, CheckListed(f) PROVE CacheInv'
  <2>1. CacheTypeOK'
    BY <1>4, RunRests DEF CacheInv, CacheTypeOK, CheckListed, Collect
  <2>2. VerifyHolds'
    BY <1>4 DEF CacheInv, CacheTypeOK, VerifyHolds, CheckListed, Collect, Mismatches, mirror, store
  <2>3. AtRest' /\ CleanHolds' /\ ScanHolds'
    BY <1>4 DEF CheckListed, AtRest, CleanHolds, ScanHolds
  <2> QED
    BY <1>4, <2>1, <2>2, <2>3, RunRests DEF CacheInv, CheckListed
<1> QED
  BY <1>1, <1>2, <1>3, <1>4

LEMMA InitializeKeeps ==
  ASSUME CacheInv,
         ListFiles \/ EndScan \/ EndInitialize \/ \E f \in Files : ComputeSha256(f) \/ Lookup(f)
  PROVE  CacheInv'
<1>1. CASE ListFiles
  <2>1. CacheTypeOK'
    BY <1>1, RunRests DEF CacheInv, CacheTypeOK, ListFiles, OnDisk
  <2>2. ScanHolds'
    BY <1>1 DEF ListFiles, ScanHolds, OnDisk, mirror, store
  <2>3. AtRest' /\ CleanHolds' /\ VerifyHolds'
    BY <1>1 DEF ListFiles, AtRest, CleanHolds, VerifyHolds
  <2> QED
    BY <1>1, <2>1, <2>2, <2>3, RunRests DEF CacheInv, ListFiles
<1>2. CASE EndScan
  <2>1. CacheTypeOK'
    BY <1>2, RunRests DEF CacheInv, CacheTypeOK, EndScan
  <2>2. ScanHolds'
    BY <1>2 DEF CacheInv, CacheTypeOK, EndScan, ScanHolds, OnDisk, mirror, store
  <2>3. AtRest' /\ CleanHolds' /\ VerifyHolds'
    BY <1>2 DEF EndScan, AtRest, CleanHolds, VerifyHolds
  <2> QED
    BY <1>2, <2>1, <2>2, <2>3, RunRests DEF CacheInv, EndScan
<1>3. CASE EndInitialize
  BY <1>3, LeaveKeeps DEF EndInitialize
<1>4. ASSUME NEW f \in Files, ComputeSha256(f) PROVE CacheInv'
  <2>1. CacheTypeOK'
    <3>1. disk[f] # Absent => disk[f] \in Digests
      BY DEF CacheInv, CacheTypeOK, MirrorTypeOK
    <3> QED
      BY <1>4, <3>1, RunRests DEF CacheInv, CacheTypeOK, ComputeSha256
  <2>2. ScanHolds'
    <3>1. CASE disk[f] = Absent
      BY <1>4, <3>1 DEF CacheInv, ComputeSha256, ScanHolds, OnDisk, mirror, store
    <3>2. CASE disk[f] # Absent
      <4>1. digest'.file = f /\ digest'.sha256 = disk[f] /\ digest' # NoDigest
        BY <1>4, <3>2 DEF ComputeSha256, NoDigest
      <4> QED
        BY <1>4, <3>2, <4>1 DEF CacheInv, ComputeSha256, ScanHolds, OnDisk, mirror, store
    <3> QED
      BY <3>1, <3>2
  <2>3. AtRest' /\ CleanHolds' /\ VerifyHolds'
    BY <1>4 DEF ComputeSha256, AtRest, CleanHolds, VerifyHolds
  <2> QED
    BY <1>4, <2>1, <2>2, <2>3, RunRests DEF CacheInv, ComputeSha256
<1>5. ASSUME NEW f \in Files, Lookup(f) PROVE CacheInv'
  <2>0. disk' \in {disk, [disk EXCEPT ![f] = Absent]}
    BY <1>5 DEF Lookup
  <2>1. MirrorTypeOK' /\ LoopHolds' /\ RowsHaveDigests'
    BY <1>5, <2>0, RunSurvives DEF Lookup
  <2>2. CacheTypeOK'
    BY <1>5, <2>1 DEF CacheInv, CacheTypeOK, Lookup, NoDigest
  <2>3. ScanHolds'
    BY <1>5 DEF CacheInv, CacheTypeOK, MirrorTypeOK, Lookup, Conflicts, ScanHolds, OnDisk
  <2>4. AtRest' /\ CleanHolds' /\ VerifyHolds'
    BY <1>5 DEF Lookup, AtRest, CleanHolds, VerifyHolds
  <2> QED
    BY <2>1, <2>2, <2>3, <2>4 DEF CacheInv
<1> QED
  BY <1>1, <1>2, <1>3, <1>4, <1>5

LEMMA CacheStep ==
  ASSUME CacheInv, [CacheNext]_cache
  PROVE  CacheInv'
<1>1. CASE UNCHANGED cache
  <2>1. CacheTypeOK'
    BY <1>1, RunRests DEF CacheInv, CacheTypeOK, cache, commands
  <2>2. AtRest' /\ CleanHolds' /\ VerifyHolds' /\ ScanHolds'
    BY <1>1 DEF CacheInv, AtRest, CleanHolds, VerifyHolds, ScanHolds, Vouched, OnDisk, cache, commands,
                mirror, store
  <2> QED
    BY <1>1, <2>1, <2>2, RunRests DEF CacheInv, cache
<1>2. CASE KillCommand
  BY <1>2, LeaveKeeps DEF KillCommand
<1>3. CASE Recompute
  <2>1. CacheTypeOK'
    BY <1>3, RunRests DEF CacheInv, CacheTypeOK, Recompute
  <2>2. AtRest' /\ CleanHolds' /\ VerifyHolds' /\ ScanHolds'
    BY <1>3 DEF CacheInv, Recompute, AtRest, CleanHolds, VerifyHolds, ScanHolds
  <2> QED
    BY <1>3, <2>1, <2>2, RunRests DEF CacheInv, Recompute
<1> QED
  BY <1>1, <1>2, <1>3, SyncKeeps, DamageKeeps, CleanKeeps, VerifyKeeps, InitializeKeeps
  DEF CacheNext, Command
-----------------------------------------------------------------------------
(* What follows from the invariant.                                            *)

LEMMA HonestFromInv == CacheInv => VerifyIsHonest
<1> SUFFICES ASSUME CacheInv, command = "verify", phase = "idle" PROVE VerifyIsHonest
  BY DEF VerifyIsHonest
<1> DEFINE Differing == {f \in Files : expected[f] # Absent /\ disk[f] \notin {Absent, expected[f]}}
<1>1. VerifyHolds /\ bad \subseteq Files
  BY DEF CacheInv, CacheTypeOK
<1>2. verdict = "pass" => Differing \subseteq touched
  BY <1>1 DEF VerifyHolds
<1>3. verdict = "fail" => (Differing \union touched) # {}
  <2>1. SUFFICES ASSUME verdict = "fail" PROVE \E f \in Files : f \in Differing \union touched
    OBVIOUS
  <2>2. PICK f \in bad : TRUE
    BY <1>1, <2>1 DEF VerifyHolds
  <2> QED
    BY <1>1, <2>2 DEF VerifyHolds
<1> QED
  BY <1>2, <1>3 DEF VerifyIsHonest

LEMMA RestoredFromInv == CacheInv => IntegrityRestored
<1> SUFFICES ASSUME CacheInv, command = "initialize", phase = "invalidate" PROVE IntegrityRestored
  BY DEF IntegrityRestored
<1>1. ScanHolds
  BY DEF CacheInv
<1> QED
  BY <1>1 DEF ScanHolds, IntegrityRestored

(* The exit of a run that goes on is "none"; it becomes "success" where the   *)
(* loop was left with every repository tried.                                  *)
LEMMA RunSucceeds ==
  ASSUME CacheInv, EveryRepositoryTried, [CacheNext]_cache
  PROVE  EveryRepositoryTried'
<1>1. CASE UNCHANGED <<loop, outcome, exit>>
  BY <1>1 DEF EveryRepositoryTried
<1>2. CASE MirrorNext
  <2>1. CASE CloseRun
    BY <2>1 DEF CloseRun, CacheInv, LoopHolds, Tried, EveryRepositoryTried
  <2>2. CASE ~CloseRun
    BY <1>1, <1>2, <2>2 DEF MirrorNext, Upstream, Arrive, StartRun, LeaveLoop, EnterRepository,
       RepositoryReturns, RepositoryRaises, CancelRun, KillRun, CacheInv, LoopHolds,
       EveryRepositoryTried, running
  <2> QED
    BY <2>1, <2>2
<1> QED
  BY <1>1, <1>2 DEF CacheNext, Command, Sync, Damage, KillCommand, Scan, QueryReferenced, Confirm,
     RemoveListed, QueryVerified, CheckListed, Report, EndVerify, ListFiles, ComputeSha256, Lookup,
     EndScan, EndInitialize, Recompute, cache, mirror, running

(* Only the two commands that remove files take one away that its row vouches *)
(* for, and then only one that changed under them.                             *)
LEMMA RemovedIsUnvouched ==
  ASSUME CacheInv, CacheNext, NEW f \in OnDisk, disk'[f] = Absent,
         command # "none", damage' = damage, Vouched(f), row[f].sha256 = disk[f]
  PROVE  f \in touched
<1>0. f \in Files /\ disk[f] # Absent /\ damage \in Nat /\ disk \in [Files -> Digests \union {Absent}]
  BY DEF CacheInv, CacheTypeOK, MirrorTypeOK, OnDisk
<1>1. CASE Sync
  <2>1. ASSUME NEW g \in Files, Arrive(g) PROVE FALSE
    <3>1. g = f /\ row[g].sha256 = Absent
      BY <1>0, <2>1 DEF Arrive
    <3> QED
      BY <1>0, <3>1
  <2>2. CASE UNCHANGED disk
    BY <1>0, <2>2
  <2> QED
    BY <1>1, <2>1, <2>2 DEF Sync, MirrorNext, Upstream, StartRun, LeaveLoop, EnterRepository,
       RepositoryReturns, RepositoryRaises, CancelRun, CloseRun, KillRun, store
<1>2. ASSUME NEW g \in Files, Damage(g) PROVE FALSE
  BY <1>0, <1>2 DEF Damage
<1>3. ASSUME NEW g \in Files, RemoveListed(g) PROVE f \in touched
  <2>1. g = f /\ command = "clean" /\ phase = "remove" /\ f \in listed
    BY <1>0, <1>3 DEF RemoveListed
  <2> QED
    BY <2>1 DEF CacheInv, CleanHolds
<1>4. ASSUME NEW g \in Files, Lookup(g) PROVE f \in touched
  <2>1. g = f /\ command = "initialize" /\ phase = "lookup" /\ digest.file = f /\ row[f].sha256 # digest.sha256
    BY <1>0, <1>4 DEF Lookup, Conflicts
  <2> QED
    BY <2>1 DEF CacheInv, ScanHolds
<1>5. CASE UNCHANGED mirror
  BY <1>0, <1>5 DEF mirror, store
<1> QED
  BY <1>1, <1>2, <1>3, <1>4, <1>5 DEF CacheNext, Command, KillCommand, Scan, QueryReferenced, Confirm,
     QueryVerified, Report, EndVerify, ListFiles, EndScan, EndInitialize, Recompute, CheckListed,
     ComputeSha256

-----------------------------------------------------------------------------
(* MirrorRun and MirrorCache: for any repositories, files, digests and bounds, *)
(* the types hold.                                                            *)
THEOREM CacheTypeCorrect == CacheSpec => []CacheTypeOK
<1>1. CacheInit => CacheInv
  BY CacheStarts
<1>2. CacheInv /\ [CacheNext]_cache => CacheInv'
  BY CacheStep
<1>3. CacheInv => CacheTypeOK
  BY DEF CacheInv
<1> QED
  BY <1>1, <1>2, <1>3, PTL DEF CacheSpec

(* A workflow run that is not cancelled has tried every repository, and a CLI *)
(* run that reports success has synchronised every one, whatever fails.       *)
THEOREM RunsTryEveryRepository == CacheSpec => []EveryRepositoryTried
<1>1. CacheInit => CacheInv /\ EveryRepositoryTried
  BY CacheStarts DEF CacheInit, MirrorInit, EveryRepositoryTried
<1>2. CacheInv /\ [CacheNext]_cache => CacheInv'
  BY CacheStep
<1>3. CacheInv /\ EveryRepositoryTried /\ [CacheNext]_cache => EveryRepositoryTried'
  BY RunSucceeds
<1> QED
  BY <1>1, <1>2, <1>3, PTL DEF CacheSpec

(* What mirror verify prints is true of every file that nothing changed since *)
(* it read the rows, for any interleaving with a sync and with damage.        *)
THEOREM VerdictsAreHonest == CacheSpec => []VerifyIsHonest
<1>1. CacheInit => CacheInv
  BY CacheStarts
<1>2. CacheInv /\ [CacheNext]_cache => CacheInv'
  BY CacheStep
<1>3. CacheInv => VerifyIsHonest
  BY HonestFromInv
<1> QED
  BY <1>1, <1>2, <1>3, PTL DEF CacheSpec

(* After the integrity scan every file that nothing changed since it was read *)
(* has the digest of its row, and no derived entry is valid if one was removed. *)
THEOREM ScansRestoreIntegrity == CacheSpec => []IntegrityRestored
<1>1. CacheInit => CacheInv
  BY CacheStarts
<1>2. CacheInv /\ [CacheNext]_cache => CacheInv'
  BY CacheStep
<1>3. CacheInv => IntegrityRestored
  BY RestoredFromInv
<1> QED
  BY <1>1, <1>2, <1>3, PTL DEF CacheSpec

(* No command removes a file its row vouches for, unless that file or its row *)
(* changed after the command had read them.                                   *)
THEOREM VouchedFilesStay == CacheSpec => RemovesOnlyUnvouched
<1> DEFINE A == \A f \in OnDisk : disk'[f] = Absent /\ command # "none" /\ damage' = damage =>
                  (Vouched(f) /\ row[f].sha256 = disk[f] => f \in touched)
<1>1. CacheInit => CacheInv
  BY CacheStarts
<1>2. CacheInv /\ [CacheNext]_cache => CacheInv'
  BY CacheStep
<1>3. CacheInv /\ [CacheNext]_cache => [A]_cache
  BY RemovedIsUnvouched
<1> QED
  BY <1>1, <1>2, <1>3, PTL DEF CacheSpec, RemovesOnlyUnvouched
(* The types of everything the storage instance holds: mirror directory,      *)
(* mirror.db and commands, migrations, units of work.                         *)
THEOREM StorageTypeCorrect == Spec => []StorageTypeOK
<1> DEFINE StorageInv == CacheInv /\ MigrationInv /\ UnitInv
<1>1. Init => StorageInv
  BY CacheStarts, MigrationStarts, UnitStarts DEF Init
<1>2. StorageInv /\ [Next]_vars => StorageInv'
  <2> SUFFICES ASSUME StorageInv, [Next]_vars PROVE StorageInv'
    OBVIOUS
  <2>1. [CacheNext]_cache /\ [MigrationNext]_migrations /\ [UnitNext]_units
    BY DEF Next, vars
  <2> QED
    BY <2>1, CacheStep, MigrationStep, UnitStep
<1>3. StorageInv => StorageTypeOK
  BY DEF CacheInv, MigrationInv, UnitInv, StorageTypeOK
<1> QED
  BY <1>1, <1>2, <1>3, PTL DEF Spec
=============================================================================
