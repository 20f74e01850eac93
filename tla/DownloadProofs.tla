--------------------------- MODULE DownloadProofs ---------------------------
(***************************************************************************)
(* The coordinator of Download keeps the promise of Fetch and the rate of  *)
(* RateLimiter, for any number of files, permits, attempts and any bucket. *)
(***************************************************************************)
EXTENDS Download, FiniteSetTheorems, TLAPS

(* The bucket's capacity in ticks. *)
LEMMA CapacityNat == Capacity \in Nat /\ Grain \in Nat /\ Grain > 0 /\ Timeout \in Nat
BY LimiterAssumption DEF Capacity

(* What the bucket holds now never exceeds it. *)
LEMMA Refilled ==
  ASSUME LimiterTypeOK
  PROVE  Replenished \in 0..Capacity
BY CapacityNat DEF LimiterTypeOK, Replenished, Least

(* The same of the next state. *)
LEMMA RefilledNext == Replenished' = Least(tokens' + elapsed', Capacity)
BY DEF Replenished, Capacity

(* The excess spent and the tokens left share the capacity: the invariant that *)
(* makes Metered inductive.                                                    *)
Budget == debt + Replenished <= Capacity

LimiterInv == LimiterTypeOK /\ Budget

(* A poll keeps the limiter's types. *)
LEMMA PollType ==
  ASSUME LimiterTypeOK, NEW c \in Clients, NEW left \in 0..Timeout, Poll(c, left)
  PROVE  LimiterTypeOK'
<1>1. Replenished \in 0..Capacity
  BY Refilled
<1>2. Least(Grain, left) \in 0..Grain
  BY CapacityNat DEF Least
<1>3. tokens' \in 0..Capacity /\ elapsed' \in 0..Capacity /\ debt' \in Nat
  BY <1>1, CapacityNat DEF Poll, LimiterTypeOK
<1>4. /\ status' \in [Clients -> Status]
      /\ remaining' \in [Clients -> 0..Timeout]
      /\ nap' \in [Clients -> 0..Grain]
  BY <1>2, CapacityNat DEF Poll, LimiterTypeOK, Status
<1> QED BY <1>3, <1>4 DEF LimiterTypeOK

(* A poll keeps the budget: a grant moves Grain from the bucket to the debt. *)
LEMMA PollBudget ==
  ASSUME LimiterInv, NEW c \in Clients, NEW left \in 0..Timeout, Poll(c, left)
  PROVE  LimiterInv'
<1>1. Replenished \in 0..Capacity /\ debt \in Nat /\ LimiterTypeOK'
  BY Refilled, PollType DEF LimiterInv, LimiterTypeOK
<1>2. Replenished' = tokens'
  <2>1. elapsed' = 0 /\ tokens' \in 0..Capacity
    BY <1>1 DEF Poll, LimiterTypeOK
  <2>2. PICK n \in 0..Capacity : tokens' = n
    BY <2>1
  <2> QED BY <2>1, <2>2, RefilledNext, CapacityNat DEF Least
<1> QED BY <1>1, <1>2, CapacityNat DEF LimiterInv, Budget, Poll

(* Every step of the limiter keeps types and budget. *)
LEMMA LimiterStep == LimiterInv /\ [LimiterNext]_limiter => LimiterInv'
<1> SUFFICES ASSUME LimiterInv, [LimiterNext]_limiter PROVE LimiterInv'
  OBVIOUS
<1> USE CapacityNat
<1>1. CASE Tick
  <2>1. /\ elapsed' \in 0..Capacity /\ elapsed' <= elapsed + 1 /\ debt' \in Nat
        /\ tokens' = tokens /\ status' = status
    BY <1>1 DEF Tick, Least, Pred, LimiterInv, LimiterTypeOK
  <2>2. remaining' \in [Clients -> 0..Timeout]
    BY <1>1 DEF Tick, Pred, LimiterInv, LimiterTypeOK
  <2>3. nap' \in [Clients -> 0..Grain]
    BY <1>1 DEF Tick, Pred, LimiterInv, LimiterTypeOK
  <2>4. LimiterTypeOK'
    BY <2>1, <2>2, <2>3 DEF LimiterInv, LimiterTypeOK
  <2>5. CASE debt = 0
    BY <1>1, <2>4, <2>5 DEF Tick, Pred, LimiterInv, Budget, Replenished, Least, LimiterTypeOK
  <2>6. CASE debt # 0
    <3>1. debt' = debt - 1
      BY <1>1, <2>6 DEF Tick, Pred
    <3>2. /\ tokens \in Nat /\ elapsed \in Nat /\ elapsed' \in Nat /\ debt \in Nat
          /\ elapsed' <= elapsed + 1 /\ tokens' = tokens
      BY <2>1 DEF LimiterInv, LimiterTypeOK
    <3>3. PICK e \in Nat : elapsed' = e
      BY <3>2
    <3>4. PICK n \in Nat : /\ Replenished' = n
                           /\ n <= Replenished + 1
      BY <3>2, <3>3, RefilledNext DEF Replenished, Least
    <3>5. Replenished \in Nat
      BY Refilled DEF LimiterInv
    <3> QED BY <2>4, <3>1, <3>2, <3>4, <3>5 DEF LimiterInv, Budget
  <2> QED BY <2>5, <2>6
<1>2. CASE Fresh
  BY <1>2 DEF Fresh, LimiterInv, LimiterTypeOK, Status, Budget, Replenished, Least
<1>3. ASSUME NEW c \in Clients, Acquire(c)  PROVE LimiterInv'
  BY <1>3, PollBudget DEF Acquire
<1>4. ASSUME NEW c \in Clients, Wake(c)  PROVE LimiterInv'
  <2>1. remaining[c] \in 0..Timeout
    BY DEF LimiterInv, LimiterTypeOK
  <2>2. CASE Poll(c, remaining[c])
    BY <2>1, <2>2, PollBudget
  <2>3. CASE /\ status' = [status EXCEPT ![c] = "timed_out"]
             /\ UNCHANGED <<tokens, elapsed, remaining, nap, debt>>
    BY <2>3 DEF LimiterInv, LimiterTypeOK, Status, Budget, Replenished
  <2> QED BY <1>4, <2>2, <2>3 DEF Wake
<1>5. ASSUME NEW c \in Clients, Leave(c)  PROVE LimiterInv'
  BY <1>5 DEF Leave, LimiterInv, LimiterTypeOK, Status, Budget, Replenished
<1>6. CASE UNCHANGED limiter
  BY <1>6 DEF limiter, LimiterInv, LimiterTypeOK, Budget, Replenished
<1> QED BY <1>1, <1>2, <1>3, <1>4, <1>5, <1>6 DEF LimiterNext

(* A full bucket and no debt: the budget holds at the start. *)
LEMMA LimiterStart == LimiterInit => LimiterInv
BY CapacityNat DEF LimiterInit, LimiterInv, LimiterTypeOK, Status, Budget, Replenished, Least

(* The limiter alone meters its clients. *)
THEOREM LimiterMeters == LimiterSpec => [](LimiterTypeOK /\ Metered)
<1>1. LimiterInv => LimiterTypeOK /\ Metered
  <2> SUFFICES ASSUME LimiterInv PROVE Metered
    BY DEF LimiterInv
  <2>1. Replenished \in 0..Capacity /\ debt \in Nat
    BY Refilled DEF LimiterInv, LimiterTypeOK
  <2> QED BY <2>1, CapacityNat DEF LimiterInv, Budget, Metered
<1> QED BY <1>1, LimiterStart, LimiterStep, PTL DEF LimiterSpec

(* What a task of the coordinator does is a step of the limiter, or none of its business. *)
LEMMA StepLimited == [Next]_vars => [LimiterNext]_limiter
<1> SUFFICES ASSUME [Next]_vars PROVE [LimiterNext]_limiter
  OBVIOUS
<1>1. CASE StartBatch \/ Abort \/ EndBatch \/ UNCHANGED vars
  BY <1>1 DEF StartBatch, Abort, EndBatch, vars
<1>2. CASE Crash \/ TimePasses
  BY <1>2 DEF Crash, TimePasses, LimiterNext
<1>3. ASSUME NEW t \in Tasks, TaskStep(t)  PROVE [LimiterNext]_limiter
  <2>1. Acquire(t) \/ Wake(t) \/ Leave(t) \/ UNCHANGED limiter
    BY <1>3 DEF TaskStep, BeginAttempt, CannotBegin, KeepWaiting, Send, NoToken,
         BodyBegins, RetriableError, ClientError, UncaughtError, BodyEnds, ModeFails, Cancelled
  <2> QED BY <2>1, DownloadAssumption DEF LimiterNext
<1> QED BY <1>1, <1>2, <1>3 DEF Next

(* The coordinator implements the limiter's specification: no retry, failure, *)
(* cancellation or crash gets around it.                                      *)
THEOREM ImplementsLimiter == Spec => LimiterSpec
<1>1. Init => LimiterInit
  BY DEF Init
<1> QED BY <1>1, StepLimited, PTL DEF Spec, LimiterSpec

(* So its requests are metered. *)
THEOREM RequestsMetered == Spec => []Metered
<1>1. LimiterTypeOK /\ Metered => Metered
  OBVIOUS
<1> QED BY <1>1, ImplementsLimiter, LimiterMeters, PTL

-----------------------------------------------------------------------------
(* download_batch implements Fetch. *)

Active == {"acquiring", "requesting", "streaming", "backoff"}

(* A task has a result exactly when it has ended in one, and has lost one only *)
(* by raising.                                                                 *)
ResultInv ==
  /\ disk \in [Tasks -> {"none", "old"} \union Body]
  /\ pc \in [Tasks -> Suspended \union {"done", "raised", "cancelled"}]
  /\ result \in [Tasks -> {"none", "ok", "failed", "lost"}]
  /\ \A t \in Tasks : /\ pc[t] = "done" <=> result[t] \in {"ok", "failed"}
                      /\ result[t] = "lost" => pc[t] = "raised"

(* No task has a result at the start. *)
LEMMA ResultStart == Init => ResultInv
BY DEF Init, ResultInv, Suspended

(* Leaving download_file keeps it so. *)
LEMMA ExitResult ==
  ASSUME ResultInv, NEW t \in Tasks, NEW where, NEW res,
         disk' \in [Tasks -> {"none", "old"} \union Body],
         Exit(t, where, res),
         \/ where = "done" /\ res \in {"ok", "failed"}
         \/ where \in {"raised", "cancelled"} /\ res = "none"
         \/ where = "raised" /\ res = "lost"
  PROVE  ResultInv'
BY DEF ResultInv, Exit, Suspended

(* So does moving on inside it. *)
LEMMA MoveResult ==
  ASSUME ResultInv, NEW t \in Tasks, NEW where, pc[t] \in Suspended,
         where \in Suspended \union {"raised", "cancelled"},
         pc' = [pc EXCEPT ![t] = where], UNCHANGED <<disk, result>>
  PROVE  ResultInv'
BY DEF ResultInv, Suspended

(* And a retriable error, which does one or the other. *)
LEMMA RetryResult ==
  ASSUME ResultInv, NEW t \in Tasks, pc[t] \in Suspended, RetryOrGiveUp(t), UNCHANGED disk
  PROVE  ResultInv'
<1>1. CASE Exit(t, "done", "failed")
  BY <1>1, ExitResult DEF ResultInv
<1>2. CASE pc' = [pc EXCEPT ![t] = "backoff"] /\ UNCHANGED <<result, permits>>
  BY <1>2, MoveResult DEF Suspended
<1> QED BY <1>1, <1>2 DEF RetryOrGiveUp

(* Every step of a task keeps results and program counters together. *)
LEMMA TaskResult ==
  ASSUME ResultInv, NEW t \in Tasks, TaskStep(t)
  PROVE  ResultInv'
<1>1. CASE BeginAttempt(t)
  BY <1>1, MoveResult DEF BeginAttempt, Suspended
<1>2. CASE KeepWaiting(t)
  BY <1>2 DEF KeepWaiting, ResultInv
<1>3. CASE Send(t)
  BY <1>3, MoveResult DEF Send, Suspended
<1>4. CASE NoToken(t)
  BY <1>4, ExitResult DEF NoToken, Escapes, ResultInv
<1>5. CASE BodyBegins(t)
  BY <1>5, MoveResult DEF BodyBegins, Suspended
<1>6. CASE RetriableError(t)
  BY <1>6, RetryResult DEF RetriableError, Suspended
<1>7. CASE ClientError(t)
  BY <1>7, ExitResult DEF ClientError, ResultInv
<1>8. CASE UncaughtError(t)
  BY <1>8, ExitResult DEF UncaughtError, Escapes, ResultInv
<1>9. ASSUME NEW b \in Body, BodyEnds(t, b)  PROVE ResultInv'
  <2>1. CASE Verifies(t, b)
    <3>1. disk' = [disk EXCEPT ![t] = b] /\ Exit(t, "done", "ok")
      BY <1>9, <2>1 DEF BodyEnds
    <3>2. disk' \in [Tasks -> {"none", "old"} \union Body]
      BY <3>1 DEF ResultInv
    <3> QED BY <3>1, <3>2, ExitResult
  <2>2. CASE ~Verifies(t, b)
    BY <1>9, <2>2, RetryResult DEF BodyEnds, Suspended
  <2> QED BY <2>1, <2>2
<1>10. CASE Cancelled(t)
  <2>1. CASE pc[t] = "new"
    BY <1>10, <2>1, MoveResult DEF Cancelled, Suspended
  <2>2. CASE pc[t] # "new"
    BY <1>10, <2>2, ExitResult DEF Cancelled, ResultInv
  <2> QED BY <2>1, <2>2
<1>11. CASE CannotBegin(t)
  <2>1. CASE pc[t] = "new"
    BY <1>11, <2>1, MoveResult DEF CannotBegin, Suspended
  <2>2. CASE Escapes(t)
    BY <1>11, <2>2, ExitResult DEF CannotBegin, Escapes, ResultInv
  <2> QED BY <1>11, <2>1, <2>2 DEF CannotBegin
<1>12. ASSUME NEW b \in Body, ModeFails(t, b)  PROVE ResultInv'
  <2>1. disk' \in [Tasks -> {"none", "old"} \union Body]
    BY <1>12 DEF ModeFails, ResultInv
  <2> QED BY <1>12, <2>1, ExitResult DEF ModeFails
<1> QED BY <1>1, <1>2, <1>3, <1>4, <1>5, <1>6, <1>7, <1>8, <1>9, <1>10, <1>11, <1>12
     DEF TaskStep

(* And so does every step of the batch. *)
LEMMA StepResult == ResultInv /\ [Next]_vars => ResultInv'
<1> SUFFICES ASSUME ResultInv, [Next]_vars PROVE ResultInv'
  OBVIOUS
<1>1. CASE StartBatch
  BY <1>1 DEF StartBatch, ResultInv, Suspended
<1>2. CASE Crash
  BY <1>2 DEF Crash, ResultInv, Suspended
<1>3. CASE Abort \/ EndBatch \/ TimePasses \/ UNCHANGED vars
  BY <1>3 DEF Abort, EndBatch, TimePasses, vars, ResultInv
<1>4. ASSUME NEW t \in Tasks, TaskStep(t)  PROVE ResultInv'
  BY <1>4, TaskResult
<1> QED BY <1>1, <1>2, <1>3, <1>4 DEF Next

(* What Fetch sees of the TaskGroup. *)
Outcome == IF batch = "aborting" THEN "running" ELSE batch

(* A task that stays without a result takes no step Fetch can see. *)
LEMMA Stutters ==
  ASSUME ResultInv, NEW t \in Tasks, UNCHANGED <<disk, batch>>,
         UNCHANGED result \/ (pc[t] \in Suspended /\ result' = [result EXCEPT ![t] = "none"])
  PROVE  UNCHANGED <<disk, result, Outcome>>
BY DEF ResultInv, Outcome, Suspended

(* A retriable error is a stutter, or Fail after the last attempt. *)
LEMMA RetryDelivers ==
  ASSUME ResultInv, NEW t \in Tasks, pc[t] \in Suspended, batch = "running",
         RetryOrGiveUp(t), UNCHANGED <<disk, batch>>
  PROVE  Promise!Fail(t) \/ UNCHANGED <<disk, result, Outcome>>
BY DEF ResultInv, Suspended, Outcome, RetryOrGiveUp, Exit, Promise!Fail

(* What a task does is a step of Fetch, or invisible. *)
LEMMA TaskDelivers ==
  ASSUME ResultInv, NEW t \in Tasks, TaskStep(t)
  PROVE  Promise!Next \/ UNCHANGED <<disk, result, Outcome>>
<1>1. CASE BeginAttempt(t) \/ KeepWaiting(t) \/ Send(t) \/ BodyBegins(t)
  BY <1>1, Stutters DEF BeginAttempt, KeepWaiting, Send, BodyBegins
<1>2. CASE NoToken(t) \/ UncaughtError(t) \/ CannotBegin(t)
  BY <1>2, Stutters DEF NoToken, UncaughtError, CannotBegin, Escapes, Exit, Suspended
<1>3. CASE Cancelled(t)
  <2>1. pc[t] \in Suspended
    BY <1>3 DEF Cancelled, ResultInv
  <2> QED BY <1>3, <2>1, Stutters DEF Cancelled, Exit
<1>4. CASE RetriableError(t)
  BY <1>4, RetryDelivers DEF RetriableError, Suspended, Promise!Next
<1>5. CASE ClientError(t)
  <2>1. Promise!Fail(t)
    BY <1>5 DEF ClientError, Exit, ResultInv, Outcome, Promise!Fail
  <2> QED BY <2>1 DEF Promise!Next
<1>6. ASSUME NEW b \in Body, BodyEnds(t, b)
      PROVE  Promise!Next \/ UNCHANGED <<disk, result, Outcome>>
  <2>1. CASE Verifies(t, b)
    <3>1. b \in Promise!Accepts(t)
      BY <2>1 DEF Verifies, Promise!Accepts, Promise!Body, Body
    <3>2. Promise!Arrive(t)
      BY <1>6, <2>1, <3>1 DEF BodyEnds, Exit, ResultInv, Outcome, Promise!Arrive
    <3> QED BY <3>2 DEF Promise!Next
  <2>2. CASE ~Verifies(t, b)
    BY <1>6, <2>2, RetryDelivers DEF BodyEnds, Suspended, Promise!Next
  <2> QED BY <2>1, <2>2
<1>7. ASSUME NEW b \in Body, ModeFails(t, b)
      PROVE  Promise!Next \/ UNCHANGED <<disk, result, Outcome>>
  <2>1. b \in Promise!Accepts(t)
    BY <1>7 DEF ModeFails, Verifies, Promise!Accepts, Promise!Body, Body
  <2>2. Promise!Lose(t)
    BY <1>7, <2>1 DEF ModeFails, Exit, ResultInv, Outcome, Promise!Lose
  <2> QED BY <2>2 DEF Promise!Next
<1> QED BY <1>1, <1>2, <1>3, <1>4, <1>5, <1>6, <1>7 DEF TaskStep

(* Every step of the coordinator is a step of Fetch, or invisible to it. *)
LEMMA StepDelivers ==
  ResultInv /\ [Next]_vars => [Promise!Next]_<<disk, result, Outcome>>
<1> SUFFICES ASSUME ResultInv, [Next]_vars
             PROVE  Promise!Next \/ UNCHANGED <<disk, result, Outcome>>
  OBVIOUS
<1>1. CASE StartBatch
  <2>1. Promise!Begin
    BY <1>1 DEF StartBatch, Promise!Begin
  <2> QED BY <2>1 DEF Promise!Next
<1>2. CASE EndBatch
  <2>1. CASE batch = "running"
    <3>1. Promise!Return
      BY <1>2, <2>1 DEF EndBatch, ResultInv, Promise!Return
    <3> QED BY <3>1 DEF Promise!Next
  <2>2. CASE batch = "aborting"
    <3>1. Promise!Raise
      BY <1>2, <2>2 DEF EndBatch, Promise!Raise
    <3> QED BY <3>1 DEF Promise!Next
  <2> QED BY <1>2, <2>1, <2>2 DEF EndBatch
<1>3. CASE Crash
  <2>1. Promise!Crash
    BY <1>3 DEF Crash, Promise!Crash
  <2> QED BY <2>1 DEF Promise!Next
<1>4. CASE Abort \/ TimePasses \/ UNCHANGED vars
  BY <1>4 DEF Abort, TimePasses, vars, Outcome
<1>5. ASSUME NEW t \in Tasks, TaskStep(t)
      PROVE  Promise!Next \/ UNCHANGED <<disk, result, Outcome>>
  BY <1>5, TaskDelivers
<1> QED BY <1>1, <1>2, <1>3, <1>4, <1>5 DEF Next

(* download_batch keeps the promise of Fetch, on which the mirror engine and *)
(* module MirrorSync rely.                                                   *)
THEOREM CoordinatorDelivers == Spec => DeliversFetch
<1>1. Init => Promise!Init
  BY DEF Init, Promise!Init
<1>2. Spec => []ResultInv
  BY ResultStart, StepResult, PTL DEF Spec
<1>3. ResultInv /\ [Next]_vars =>
        [Promise!Next]_<<disk, result, IF batch = "aborting" THEN "running" ELSE batch>>
  BY StepDelivers DEF Outcome
<1> QED BY <1>1, <1>2, <1>3, PTL DEF Spec, DeliversFetch, Promise!Spec

-----------------------------------------------------------------------------
(* Permits, attempts and .part files. *)

Holders == {t \in Tasks : pc[t] \in Active}

(* Together with the permits held the counter makes Parallel. *)
PermitInv == permits \in 0..Parallel /\ permits + Cardinality(Holders) = Parallel

(* Who waits for another attempt has one left. *)
AttemptInv ==
  /\ attempt \in [Tasks -> 0..MaxAttempts]
  /\ \A t \in Tasks : /\ pc[t] = "new" => attempt[t] = 0
                      /\ pc[t] = "backoff" => attempt[t] < MaxAttempts

(* While a batch runs, a .part file belongs to a task that has not begun, is *)
(* streaming, or has raised: never to one that will return.                  *)
PartInv ==
  /\ part \in SUBSET Tasks
  /\ batch \in {"idle", "running", "aborting", "returned", "raised"}
  /\ batch = "running" => \A t \in part : pc[t] \in {"new", "streaming", "raised"}
  /\ NothingPartial

BatchInv == ResultInv /\ PermitInv /\ AttemptInv /\ PartInv

(* The holders of permits can be counted. *)
LEMMA HoldersFinite == IsFiniteSet(Holders) /\ Cardinality(Holders) \in Nat
<1>1. Holders \in SUBSET Tasks
  BY DEF Holders
<1> QED BY <1>1, DownloadAssumption, FS_Subset, FS_CardinalityType

(* Nobody holds a permit when every task is new. *)
LEMMA NoHolders ==
  ASSUME pc' = [t \in Tasks |-> "new"], permits' = Parallel
  PROVE  PermitInv'
<1>1. Holders' = {}
  BY DEF Holders, Active
<1>2. Cardinality(Holders') = 0
  BY <1>1, FS_EmptySet
<1> QED BY <1>2, DownloadAssumption DEF PermitInv

(* A task takes a permit as it enters download_file. *)
LEMMA TakePermit ==
  ASSUME ResultInv, PermitInv, NEW t \in Tasks, NEW where \in Active,
         pc[t] \notin Active, permits > 0,
         pc' = [pc EXCEPT ![t] = where], permits' = permits - 1
  PROVE  PermitInv'
<1>1. Holders' = Holders \union {t} /\ t \notin Holders
  BY DEF Holders, ResultInv
<1>2. Cardinality(Holders') = Cardinality(Holders) + 1
  BY <1>1, HoldersFinite, FS_AddElement
<1> QED BY <1>2, HoldersFinite, DownloadAssumption DEF PermitInv

(* It keeps it as it moves on inside, and outside it has none. *)
LEMMA KeepPermit ==
  ASSUME ResultInv, PermitInv, NEW t \in Tasks, NEW where,
         pc[t] \in Active <=> where \in Active,
         pc' = [pc EXCEPT ![t] = where], permits' = permits
  PROVE  PermitInv'
<1>1. Holders' = Holders
  BY DEF Holders, ResultInv
<1> QED BY <1>1 DEF PermitInv

(* It gives it back as it leaves. *)
LEMMA ReturnPermit ==
  ASSUME ResultInv, PermitInv, NEW t \in Tasks, NEW where, NEW res,
         pc[t] \in Active, where \notin Active, Exit(t, where, res)
  PROVE  PermitInv'
<1>1. Holders' = Holders \ {t} /\ t \in Holders
  BY DEF Holders, ResultInv, Exit
<1>2. /\ Cardinality(Holders') = Cardinality(Holders) - 1
      /\ Cardinality(Holders') \in Nat
  BY <1>1, HoldersFinite, FS_RemoveElement, FS_CardinalityType
<1>3. permits' = permits + 1
  BY DEF Exit
<1> QED BY <1>2, <1>3, HoldersFinite, DownloadAssumption DEF PermitInv

(* A retriable error keeps the permit for the backoff or gives it back. *)
LEMMA RetryPermit ==
  ASSUME ResultInv, PermitInv, NEW t \in Tasks, pc[t] \in Active, RetryOrGiveUp(t)
  PROVE  PermitInv'
BY KeepPermit, ReturnPermit DEF RetryOrGiveUp, Active

(* Permits balance through every step of a task. *)
LEMMA TaskPermit ==
  ASSUME ResultInv, PermitInv, NEW t \in Tasks, TaskStep(t)
  PROVE  PermitInv'
<1>1. CASE BeginAttempt(t)
  <2>1. CASE pc[t] = "new" /\ permits > 0 /\ permits' = permits - 1
    BY <1>1, <2>1, TakePermit DEF BeginAttempt, Active
  <2>2. CASE pc[t] = "backoff" /\ UNCHANGED permits
    BY <1>1, <2>2, KeepPermit DEF BeginAttempt, Active
  <2> QED BY <1>1, <2>1, <2>2 DEF BeginAttempt
<1>2. CASE CannotBegin(t)
  <2>1. CASE pc[t] = "new"
    BY <1>2, <2>1, KeepPermit DEF CannotBegin, Active
  <2>2. CASE pc[t] = "backoff" /\ Escapes(t)
    BY <2>2, ReturnPermit DEF Escapes, Active
  <2> QED BY <1>2, <2>1, <2>2 DEF CannotBegin
<1>3. CASE KeepWaiting(t)
  BY <1>3 DEF KeepWaiting, PermitInv, Holders
<1>4. CASE Send(t) \/ BodyBegins(t)
  BY <1>4, KeepPermit DEF Send, BodyBegins, Active
<1>5. CASE NoToken(t) \/ UncaughtError(t)
  BY <1>5, ReturnPermit DEF NoToken, UncaughtError, Escapes, Active
<1>6. CASE RetriableError(t)
  BY <1>6, RetryPermit DEF RetriableError, Active
<1>7. CASE ClientError(t)
  BY <1>7, ReturnPermit DEF ClientError, Active
<1>8. ASSUME NEW b \in Body, BodyEnds(t, b)  PROVE PermitInv'
  <2>1. CASE Exit(t, "done", "ok")
    BY <1>8, <2>1, ReturnPermit DEF BodyEnds, Active
  <2>2. CASE RetryOrGiveUp(t)
    BY <1>8, <2>2, RetryPermit DEF BodyEnds, Active
  <2> QED BY <1>8, <2>1, <2>2 DEF BodyEnds
<1>9. ASSUME NEW b \in Body, ModeFails(t, b)  PROVE PermitInv'
  BY <1>9, ReturnPermit DEF ModeFails, Active
<1>10. CASE Cancelled(t)
  <2>1. CASE pc[t] = "new"
    BY <1>10, <2>1, KeepPermit DEF Cancelled, Active
  <2>2. CASE pc[t] # "new"
    <3>1. pc[t] \in Active
      BY <1>10, <2>2 DEF Cancelled, ResultInv, Suspended, Active
    <3> QED BY <1>10, <2>2, <3>1, ReturnPermit DEF Cancelled, Active
  <2> QED BY <2>1, <2>2
<1> QED BY <1>1, <1>2, <1>3, <1>4, <1>5, <1>6, <1>7, <1>8, <1>9, <1>10 DEF TaskStep

(* So does the count of attempts stay within MaxAttempts. *)
LEMMA TaskAttempt ==
  ASSUME ResultInv, AttemptInv, NEW t \in Tasks, TaskStep(t)
  PROVE  AttemptInv'
<1>1. CASE BeginAttempt(t)
  <2>1. attempt[t] + 1 \in 0..MaxAttempts
    BY <1>1, DownloadAssumption DEF BeginAttempt, AttemptInv
  <2> QED BY <1>1, <2>1 DEF BeginAttempt, NextAttempt, AttemptInv, ResultInv
<1>2. ASSUME NEW where \in {"done", "raised", "cancelled"}, NEW res, Exit(t, where, res)
      PROVE  AttemptInv'
  BY <1>2, DownloadAssumption DEF Exit, AttemptInv, ResultInv
<1>3. ASSUME NEW where \in {"requesting", "streaming", "raised", "cancelled"},
             pc' = [pc EXCEPT ![t] = where], UNCHANGED attempt
      PROVE  AttemptInv'
  BY <1>3 DEF AttemptInv, ResultInv
<1>4. CASE RetryOrGiveUp(t)
  <2>1. CASE attempt[t] < MaxAttempts
    BY <1>4, <2>1 DEF RetryOrGiveUp, AttemptInv, ResultInv
  <2>2. CASE ~(attempt[t] < MaxAttempts)
    BY <1>2, <1>4, <2>2 DEF RetryOrGiveUp
  <2> QED BY <2>1, <2>2
<1>5. CASE KeepWaiting(t)
  BY <1>5 DEF KeepWaiting, AttemptInv
<1>6. CASE Send(t) \/ BodyBegins(t)
  BY <1>3, <1>6 DEF Send, BodyBegins
<1>7. CASE NoToken(t) \/ UncaughtError(t) \/ ClientError(t)
  BY <1>2, <1>7 DEF NoToken, UncaughtError, ClientError, Escapes
<1>8. CASE CannotBegin(t)
  BY <1>2, <1>3, <1>8 DEF CannotBegin, Escapes
<1>9. CASE RetriableError(t)
  BY <1>4, <1>9 DEF RetriableError
<1>10. ASSUME NEW b \in Body, BodyEnds(t, b) \/ ModeFails(t, b)  PROVE AttemptInv'
  BY <1>2, <1>4, <1>10 DEF BodyEnds, ModeFails
<1>11. CASE Cancelled(t)
  BY <1>2, <1>3, <1>11 DEF Cancelled
<1> QED BY <1>1, <1>5, <1>6, <1>7, <1>8, <1>9, <1>10, <1>11 DEF TaskStep

(* And .part files stay with the tasks that may still have one. *)
LEMMA TaskPart ==
  ASSUME ResultInv, PartInv, NEW t \in Tasks, TaskStep(t)
  PROVE  PartInv'
<1>1. /\ batch' = batch
      /\ batch \in {"running", "aborting"}
  BY DEF TaskStep, BeginAttempt, CannotBegin, KeepWaiting, Send, NoToken, BodyBegins,
     RetriableError, ClientError, UncaughtError, BodyEnds, ModeFails, Cancelled
<1>2. ASSUME NEW where, pc' = [pc EXCEPT ![t] = where],
             \/ part' = part \ {t}
             \/ part' = part \union {t} /\ where = "streaming"
             \/ part' = part /\ where = "raised"
             \/ part' = part /\ where = "requesting" /\ pc[t] = "acquiring"
      PROVE  PartInv'
  BY <1>1, <1>2 DEF PartInv, NothingPartial, ResultInv
<1>3. CASE RetryOrGiveUp(t) /\ part' = part \ {t}
  BY <1>2, <1>3 DEF RetryOrGiveUp, Exit
<1>4. CASE BeginAttempt(t) \/ Send(t) \/ BodyBegins(t)
  BY <1>2, <1>4 DEF BeginAttempt, Send, BodyBegins
<1>5. CASE CannotBegin(t) \/ NoToken(t) \/ UncaughtError(t) \/ ClientError(t)
  BY <1>2, <1>5 DEF CannotBegin, NoToken, UncaughtError, ClientError, Escapes, Exit
<1>6. CASE RetriableError(t)
  BY <1>3, <1>6 DEF RetriableError
<1>7. ASSUME NEW b \in Body, BodyEnds(t, b) \/ ModeFails(t, b)  PROVE PartInv'
  BY <1>2, <1>3, <1>7 DEF BodyEnds, ModeFails, Exit
<1>8. CASE KeepWaiting(t)
  BY <1>8 DEF KeepWaiting, PartInv, NothingPartial
<1>9. CASE Cancelled(t)
  BY <1>9 DEF Cancelled, PartInv, NothingPartial
<1> QED BY <1>4, <1>5, <1>6, <1>7, <1>8, <1>9 DEF TaskStep

(* Every step of the batch keeps all four. *)
LEMMA StepBatch == BatchInv /\ [Next]_vars => BatchInv'
<1> SUFFICES ASSUME BatchInv, [Next]_vars PROVE BatchInv'
  OBVIOUS
<1>1. ResultInv'
  BY StepResult DEF BatchInv
<1>2. CASE StartBatch
  <2>1. PermitInv'
    BY <1>2, NoHolders DEF StartBatch
  <2>2. AttemptInv'
    BY <1>2, DownloadAssumption DEF StartBatch, AttemptInv
  <2>3. PartInv'
    BY <1>2 DEF StartBatch, BatchInv, PartInv, NothingPartial
  <2> QED BY <1>1, <2>1, <2>2, <2>3 DEF BatchInv
<1>3. CASE Crash
  <2>1. PermitInv'
    BY <1>3, NoHolders DEF Crash
  <2>2. AttemptInv'
    BY <1>3, DownloadAssumption DEF Crash, AttemptInv
  <2>3. PartInv'
    BY <1>3 DEF Crash, BatchInv, PartInv, NothingPartial
  <2> QED BY <1>1, <2>1, <2>2, <2>3 DEF BatchInv
<1>4. CASE Abort \/ TimePasses \/ UNCHANGED vars
  <2>1. PermitInv' /\ AttemptInv'
    BY <1>4 DEF Abort, TimePasses, vars, BatchInv, PermitInv, Holders, AttemptInv
  <2>2. PartInv'
    BY <1>4 DEF Abort, TimePasses, vars, BatchInv, PartInv, NothingPartial
  <2> QED BY <1>1, <2>1, <2>2 DEF BatchInv
<1>5. CASE EndBatch
  <2>1. PermitInv' /\ AttemptInv'
    BY <1>5 DEF EndBatch, BatchInv, PermitInv, Holders, AttemptInv
  <2>2. PartInv'
    BY <1>5 DEF EndBatch, BatchInv, PartInv, NothingPartial
  <2> QED BY <1>1, <2>1, <2>2 DEF BatchInv
<1>6. ASSUME NEW t \in Tasks, TaskStep(t)  PROVE BatchInv'
  BY <1>1, <1>6, TaskPermit, TaskAttempt, TaskPart DEF BatchInv
<1> QED BY <1>2, <1>3, <1>4, <1>5, <1>6 DEF Next

(* And they hold at the start. *)
LEMMA StartsBalanced == Init => BatchInv
<1> SUFFICES ASSUME Init PROVE BatchInv
  OBVIOUS
<1>1. Holders = {}
  BY DEF Init, Holders, Active
<1>2. Cardinality(Holders) = 0
  BY <1>1, FS_EmptySet
<1>3. PermitInv
  BY <1>2, DownloadAssumption DEF Init, PermitInv
<1>4. AttemptInv /\ PartInv
  BY DownloadAssumption DEF Init, AttemptInv, PartInv, NothingPartial
<1> QED BY <1>3, <1>4, ResultStart DEF BatchInv

(* Every field of the coordinator and of its limiter keeps its range: among    *)
(* them, no task makes more than MaxAttempts attempts and the semaphore never  *)
(* has more permits than it began with.                                        *)
THEOREM DownloadTypeCorrect == Spec => []TypeOK
<1>1. LimiterTypeOK /\ Metered /\ BatchInv => TypeOK
  BY DEF TypeOK, BatchInv, ResultInv, PermitInv, AttemptInv, PartInv
<1> QED BY <1>1, ImplementsLimiter, LimiterMeters, StartsBalanced, StepBatch, PTL DEF Spec

(* The semaphore's permits balance, whatever exception, timeout or *)
(* cancellation a task leaves download_file with.                  *)
THEOREM PermitsAlwaysBalance == Spec => []PermitsBalance
<1>1. BatchInv => PermitsBalance
  BY DEF BatchInv, PermitInv, PermitsBalance, Holders, Active
<1> QED BY <1>1, StartsBalanced, StepBatch, PTL DEF Spec

(* A batch that returns leaves no .part file. *)
THEOREM ReturnsClean == Spec => []NothingPartial
<1>1. BatchInv => NothingPartial
  BY DEF BatchInv, PartInv
<1> QED BY <1>1, StartsBalanced, StepBatch, PTL DEF Spec
=============================================================================
