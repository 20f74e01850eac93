---------------------------- MODULE SbomRunProofs ----------------------------
(***************************************************************************)
(* Proofs about SbomRun: what a run reports is what is in the output       *)
(* directory, and a row of sbom_documents stands for a file.               *)
(*                                                                         *)
(* The argument is about the loop over the formats: those behind it have   *)
(* all succeeded or failed, and a success that no later attempt at the     *)
(* same format spoiled is a whole file of this run.                        *)
(***************************************************************************)
EXTENDS SbomRun, TLAPS

Early == {"resolve", "scan", "enrich", "assemble", "write"}
Later == {"writing", "written", "persist", "publish", "collect"}

(* The formats behind the loop. *)
Attempted == {request[i] : i \in 1..next - 1}

EventLists == {<<>>, <<"failed">>, <<"cancelled", "failed">>, <<"completed">>}

(* Where the loop is. *)
LoopHolds ==
  /\ next <= Len(request) + 1
  /\ stage \in Early => next = 1 /\ results = {} /\ failures = {}
  /\ stage = "written" => next <= Len(request) /\ OfThisRun(request[next])
  /\ stage \in {"persist", "publish", "collect"} => next = Len(request) + 1

(* What became of the formats behind it. *)
ResultsHold ==
  /\ host = "engine" => IsInjective(request)
  /\ stage \in Later =>
       /\ results \union failures = Attempted
       /\ \A f \in results \ failures : OfThisRun(f)
       /\ host = "engine" => results \intersect failures = {}

(* What has been published and answered. *)
EventsHold ==
  /\ events \in EventLists
  /\ stage # "idle" => outcome = "none" /\ run # 0
  /\ stage \in (Early \union Later) \ {"collect"} => events = <<>>
  /\ stage = "collect" => host = "cli" /\ events = <<"completed">> /\ failures = {}
  /\ stage = "tidy" => host = "cli"

(* Rows are those of earlier runs, or of this one once it has persisted. *)
RecordsHold ==
  \A r \in records :
    /\ r[1] <= run
    /\ r[1] = run => host = "engine" /\ stage \in {"publish", "idle"}

SbomInv ==
  /\ SbomTypeOK
  /\ LoopHolds /\ ResultsHold /\ EventsHold /\ RecordsHold
  /\ RecordsAreWritten /\ ExitTellsFiles

-----------------------------------------------------------------------------
(* The types again, in the form the steps use. *)
LEMMA Shapes ==
  ASSUME SbomTypeOK
  PROVE  /\ run \in Nat /\ next \in Nat \ {0} /\ request \in Seq(Formats) /\ Len(request) \in Nat
         /\ Len(request) <= MaxRequest /\ DOMAIN request = 1..Len(request)
         /\ \A i \in 1..Len(request) : request[i] \in Formats
         /\ Wanted \subseteq Formats /\ Wanted = {request[i] : i \in 1..Len(request)}
         /\ \A r \in records : r[1] \in Nat /\ r[2] \in Formats
<1>1. PICK m \in 0..MaxRequest : request \in [1..m -> Formats]
  BY DEF SbomTypeOK, BoundedSeq, SeqOf
<1>2. request \in Seq(Formats) /\ Len(request) = m /\ DOMAIN request = 1..m
  BY <1>1, SbomAssumption
<1>3. run \in Nat /\ next \in Nat \ {0}
  BY SbomAssumption DEF SbomTypeOK
<1>4. \A r \in records : r[1] \in Nat /\ r[2] \in Formats
  BY SbomAssumption DEF SbomTypeOK
<1> QED
  BY <1>1, <1>2, <1>3, <1>4, SbomAssumption DEF Wanted, ToSet

LEMMA StepsAre == ToSet(WorkflowSteps) = {"scan", "enrich", "assemble", "write", "persist"}
<1>1. DOMAIN WorkflowSteps = 1..5
  BY DEF WorkflowSteps
<1>2. ToSet(WorkflowSteps) = {WorkflowSteps[i] : i \in 1..5}
  BY <1>1 DEF ToSet
<1>3. 1..5 = {1, 2, 3, 4, 5}
  OBVIOUS
<1>4. ToSet(WorkflowSteps) = {WorkflowSteps[1], WorkflowSteps[2], WorkflowSteps[3],
                              WorkflowSteps[4], WorkflowSteps[5]}
  BY <1>2, <1>3
<1> QED
  BY <1>4 DEF WorkflowSteps

LEMMA StagesAre ==
  Stages = Early \union Later \union {"idle", "tidy"}
BY StepsAre DEF Stages, Early, Later

LEMMA EventListsTyped == EventLists \subseteq BoundedSeq({"completed", "failed", "cancelled"}, 2)
<1> DEFINE E == {"completed", "failed", "cancelled"}
<1>1. <<>> \in [1..0 -> E] /\ <<"failed">> \in [1..1 -> E] /\ <<"completed">> \in [1..1 -> E]
      /\ <<"cancelled", "failed">> \in [1..2 -> E]
  OBVIOUS
<1> QED
  BY <1>1 DEF EventLists, BoundedSeq, SeqOf

LEMMA SbomStarts == SbomInit => SbomInv
<1> SUFFICES ASSUME SbomInit PROVE SbomInv
  OBVIOUS
<1>1. request \in BoundedSeq(Formats, MaxRequest)
  <2>1. <<>> \in [1..0 -> Formats]
    OBVIOUS
  <2> QED
    BY <2>1, SbomAssumption DEF SbomInit, BoundedSeq, SeqOf
<1>2. events \in EventLists /\ events \in BoundedSeq({"completed", "failed", "cancelled"}, 2)
  BY EventListsTyped DEF SbomInit, EventLists
<1>3. SbomTypeOK
  <2>1. run \in 0..MaxRuns /\ next \in 1..MaxRequest + 1
    BY SbomAssumption DEF SbomInit
  <2>2. host \in Hosts /\ stage \in Stages /\ token \in BOOLEAN
    BY StagesAre DEF SbomInit, Hosts
  <2>3. files \in [Formats -> [by : 0..MaxRuns, whole : BOOLEAN]] /\ touched \in [Formats -> 0..MaxRuns]
    BY SbomAssumption DEF SbomInit, NoFile
  <2>4. /\ results \in SUBSET Formats /\ failures \in SUBSET Formats /\ kept \in SUBSET Formats
        /\ records \in SUBSET ((1..MaxRuns) \X Formats)
        /\ outcome \in {"none", "completed", "failed", "interrupted"}
    BY DEF SbomInit
  <2> QED
    BY <1>1, <1>2, <2>1, <2>2, <2>3, <2>4 DEF SbomTypeOK
<1>4. LoopHolds /\ ResultsHold /\ EventsHold /\ RecordsHold
  BY <1>2 DEF SbomInit, LoopHolds, ResultsHold, EventsHold, RecordsHold, Early, Later
<1>5. RecordsAreWritten /\ ExitTellsFiles
  BY DEF SbomInit, RecordsAreWritten, ExitTellsFiles
<1> QED
  BY <1>3, <1>4, <1>5 DEF SbomInv

(* The formats behind the loop when it goes on, and when it is over. *)
LEMMA AttemptedNext ==
  ASSUME SbomTypeOK, request' = request, next' = next + 1
  PROVE  Attempted' = Attempted \union {request[next]}
<1>1. next \in Nat \ {0}
  BY Shapes
<1>2. PICK n \in Nat \ {0} : n = next
  BY <1>1
<1>3. 1..(n + 1) - 1 = (1..n - 1) \union {n}
  BY <1>2
<1>4. Attempted' = {request[i] : i \in 1..(n + 1) - 1} /\ Attempted = {request[i] : i \in 1..n - 1}
  BY <1>2 DEF Attempted
<1> QED
  BY <1>2, <1>3, <1>4

LEMMA AttemptedSame ==
  ASSUME request' = request, next' = next
  PROVE  Attempted' = Attempted
BY DEF Attempted

(* Without failures the loop leaves every format written. *)
LEMMA AllWritten ==
  ASSUME SbomTypeOK, LoopHolds, ResultsHold, stage \in {"publish", "collect"}, failures = {}
  PROVE  \A f \in Wanted : OfThisRun(f)
<1>1. next = Len(request) + 1 /\ Len(request) \in Nat /\ Wanted = {request[i] : i \in 1..Len(request)}
  BY Shapes DEF LoopHolds
<1>2. Wanted = Attempted
  BY <1>1 DEF Attempted
<1> QED
  BY <1>2 DEF ResultsHold, Later

(* An engine's run comes to each format once. *)
LEMMA FormatIsNew ==
  ASSUME SbomTypeOK, ResultsHold, host = "engine", next <= Len(request)
  PROVE  request[next] \notin Attempted
<1>1. next \in Nat \ {0} /\ Len(request) \in Nat /\ DOMAIN request = 1..Len(request)
  BY Shapes
<1>2. IsInjective(request)
  BY DEF ResultsHold
<1>3. SUFFICES ASSUME NEW i \in 1..next - 1, request[i] = request[next] PROVE FALSE
  BY DEF Attempted
<1>4. i \in DOMAIN request /\ next \in DOMAIN request /\ i # next
  BY <1>1
<1> QED
  BY <1>2, <1>3, <1>4 DEF IsInjective

(* Rows survive what a run does before it persists, and a failed command. *)
LEMMA RecordsSurvive ==
  ASSUME SbomTypeOK, RecordsAreWritten, RecordsHold, records' = records,
         stage \notin {"publish", "idle"} \/ host = "cli",
         \A f \in Formats : (files'[f] = files[f] /\ touched'[f] = touched[f]) \/ touched'[f] = run
  PROVE  RecordsAreWritten'
<1>1. SUFFICES ASSUME NEW r \in records
               PROVE  files'[r[2]] = [by |-> r[1], whole |-> TRUE] \/ touched'[r[2]] > r[1]
  BY DEF RecordsAreWritten
<1>2. r[1] \in Nat /\ r[2] \in Formats /\ run \in Nat
  BY Shapes
<1>3. r[1] <= run /\ r[1] # run
  BY DEF RecordsHold
<1>4. run > r[1]
  BY <1>2, <1>3
<1> QED
  BY <1>2, <1>4 DEF RecordsAreWritten

(* What the workflow publishes when it raises. *)
LEMMA Published ==
  /\ <<>> \o <<>> = <<>>
  /\ <<>> \o <<"failed">> = <<"failed">>
  /\ <<>> \o <<"cancelled", "failed">> = <<"cancelled", "failed">>
OBVIOUS

(* A step that raises has told the engine so, or leaves the answer open. *)
LEMMA RaisedTells ==
  ASSUME events = <<>>, outcome = "none", host' = host, host \in Hosts, Raise(<<"failed">>)
  PROVE  ExitTellsFiles'
<1>1. events' = <<"failed">> /\ Last(events') = "failed"
  BY Published DEF Raise, Last
<1>2. outcome' = "none" \/ (outcome' = "failed" /\ host' = "engine")
  BY DEF Raise, Hosts
<1> QED
  BY <1>1, <1>2 DEF ExitTellsFiles

(* What a failed command has left of the files. *)
LEMMA TidyTypes ==
  ASSUME SbomTypeOK, Tidy
  PROVE  /\ files' \in [Formats -> [by : 0..MaxRuns, whole : BOOLEAN]]
         /\ touched' \in [Formats -> 0..MaxRuns] /\ kept' \in SUBSET Formats
         /\ \A f \in Wanted' \ kept' : files'[f] = NoFile
<1>1. Wanted \subseteq Formats /\ Wanted' = Wanted
  BY Shapes DEF Tidy, ThisRun, Wanted
<1>2. NoFile \in [by : 0..MaxRuns, whole : BOOLEAN] /\ run \in 0..MaxRuns
  BY SbomAssumption DEF NoFile, SbomTypeOK
<1>3. kept' \in SUBSET Formats
  BY <1>1 DEF Tidy
<1>4. files' \in [Formats -> [by : 0..MaxRuns, whole : BOOLEAN]]
  <2>1. \A f \in Formats : (IF f \in Wanted \ kept' THEN NoFile ELSE files[f]) \in [by : 0..MaxRuns, whole : BOOLEAN]
    BY <1>2 DEF SbomTypeOK
  <2> QED
    BY <2>1 DEF Tidy
<1>5. touched' \in [Formats -> 0..MaxRuns]
  <2>1. \A f \in Formats : (IF f \in Wanted \ kept' THEN run ELSE touched[f]) \in 0..MaxRuns
    BY <1>2 DEF SbomTypeOK
  <2> QED
    BY <2>1 DEF Tidy
<1>6. \A f \in Wanted \ kept' : files'[f] = NoFile
  BY <1>1 DEF Tidy
<1> QED
  BY <1>1, <1>3, <1>4, <1>5, <1>6

(* Each step keeps the invariant. *)
LEMMA SbomStep ==
  ASSUME SbomInv, [SbomNext]_sbom
  PROVE  SbomInv'
<1> USE DEF SbomInv
<1>a. /\ run \in Nat /\ next \in Nat \ {0} /\ request \in Seq(Formats) /\ Len(request) \in Nat
      /\ Len(request) <= MaxRequest /\ DOMAIN request = 1..Len(request)
      /\ \A i \in 1..Len(request) : request[i] \in Formats
      /\ Wanted \subseteq Formats
  BY Shapes
<1>b. EventLists \subseteq BoundedSeq({"completed", "failed", "cancelled"}, 2)
  BY EventListsTyped
<1>0. CASE UNCHANGED sbom
  <2>1. SbomTypeOK' /\ EventsHold'
    BY <1>0 DEF sbom, SbomTypeOK, EventsHold
  <2>2. Attempted' = Attempted /\ Wanted' = Wanted /\ \A f : OfThisRun(f)' <=> OfThisRun(f)
    BY <1>0 DEF sbom, Attempted, Wanted, OfThisRun
  <2>3. LoopHolds' /\ ResultsHold'
    BY <1>0, <2>2 DEF sbom, LoopHolds, ResultsHold
  <2>4. RecordsHold' /\ RecordsAreWritten'
    BY <1>0 DEF sbom, RecordsHold, RecordsAreWritten
  <2>5. ExitTellsFiles'
    BY <1>0, <2>2 DEF sbom, ExitTellsFiles
  <2> QED
    BY <2>1, <2>3, <2>4, <2>5
<1>1. CASE Start
  <2>1. EventsHold'
    BY <1>1, <1>a, StagesAre DEF Start, Idle, SbomTypeOK, EventsHold, EventLists, Early, Later, Hosts
  <2>2. events' \in BoundedSeq({"completed", "failed", "cancelled"}, 2)
    BY <1>b, <2>1 DEF EventsHold
  <2>3. SbomTypeOK'
    <3>1. run + 1 \in 0..MaxRuns /\ 1 \in 1..MaxRequest + 1
      BY <1>1, <1>a, SbomAssumption DEF Start
    <3> QED
      BY <1>1, <2>2, <3>1, StagesAre DEF Start, SbomTypeOK, Early
  <2>4. LoopHolds'
    BY <1>1, <1>a, StagesAre DEF Start, Idle, SbomTypeOK, LoopHolds, OfThisRun, Early, Later
  <2>5. ResultsHold'
    BY <1>1 DEF Start, ResultsHold, Later
  <2>6. RecordsHold'
    <3>1. \A r \in records : r[1] \in Nat /\ r[1] <= run
      BY Shapes DEF RecordsHold
    <3>2. \A r \in records : r[1] <= run + 1 /\ r[1] # run + 1
      BY <1>a, <3>1
    <3> QED
      BY <1>1, <3>2 DEF Start, RecordsHold
  <2>7. RecordsAreWritten'
    BY <1>1, <1>a, StagesAre DEF Start, Idle, SbomTypeOK, RecordsAreWritten
  <2>8. ExitTellsFiles'
    BY <1>1, <1>a, StagesAre DEF Start, Idle, SbomTypeOK, EventsHold, ExitTellsFiles, Early, Later, Hosts
  <2> QED
    BY <2>1, <2>3, <2>4, <2>5, <2>6, <2>7, <2>8
<1>2. CASE CancelRun
  <2>1. EventsHold'
    BY <1>2, <1>a, StagesAre DEF CancelRun, Idle, ThisRun, Disk, SbomTypeOK, EventsHold, EventLists, Early, Later, Hosts
  <2>2. events' \in BoundedSeq({"completed", "failed", "cancelled"}, 2)
    BY <1>b, <2>1 DEF EventsHold
  <2>3. SbomTypeOK'
    BY <1>2, <1>a, StagesAre, <2>2, SbomAssumption DEF CancelRun, Idle, ThisRun, Disk, SbomTypeOK, Early, Later, Hosts
  <2>4. LoopHolds'
    BY <1>2, <1>a, StagesAre DEF CancelRun, Idle, ThisRun, Disk, SbomTypeOK, LoopHolds, OfThisRun, Early, Later
  <2>5. ResultsHold'
    BY <1>2, <1>a, StagesAre, AttemptedSame DEF CancelRun, Idle, ThisRun, Disk, SbomTypeOK, LoopHolds, ResultsHold, OfThisRun, Early, Later
  <2>6. RecordsHold'
    BY <1>2, <1>a, StagesAre DEF CancelRun, Idle, ThisRun, Disk, SbomTypeOK, RecordsHold, Early, Later, Hosts
  <2>7. RecordsAreWritten'
    BY <1>2, <1>a, StagesAre DEF CancelRun, Idle, ThisRun, Disk, SbomTypeOK, RecordsAreWritten
  <2>8. ExitTellsFiles'
    BY <1>2, <1>a, StagesAre DEF CancelRun, Idle, ThisRun, Disk, SbomTypeOK, EventsHold, ExitTellsFiles, Early, Later, Hosts
  <2> QED
    BY <2>1, <2>3, <2>4, <2>5, <2>6, <2>7, <2>8
<1>3. CASE ResolveServices
  <2>1. EventsHold'
    BY <1>3, <1>a, StagesAre DEF ResolveServices, Raise, ThisRun, Disk, SbomTypeOK, EventsHold, EventLists, Early, Later, Hosts
  <2>2. events' \in BoundedSeq({"completed", "failed", "cancelled"}, 2)
    BY <1>b, <2>1 DEF EventsHold
  <2>3. SbomTypeOK'
    BY <1>3, <1>a, StagesAre, <2>2, SbomAssumption DEF ResolveServices, Raise, ThisRun, Disk, SbomTypeOK, Early, Later, Hosts
  <2>4. LoopHolds'
    BY <1>3, <1>a, StagesAre DEF ResolveServices, Raise, ThisRun, Disk, SbomTypeOK, LoopHolds, OfThisRun, Early, Later
  <2>5. ResultsHold'
    BY <1>3, <1>a, StagesAre, AttemptedSame DEF ResolveServices, Raise, ThisRun, Disk, SbomTypeOK, LoopHolds, ResultsHold, OfThisRun, Early, Later
  <2>6. RecordsHold'
    BY <1>3, <1>a, StagesAre DEF ResolveServices, Raise, ThisRun, Disk, SbomTypeOK, RecordsHold, Early, Later, Hosts
  <2>7. RecordsAreWritten'
    BY <1>3, <1>a, StagesAre DEF ResolveServices, Raise, ThisRun, Disk, SbomTypeOK, RecordsAreWritten
  <2>8. ExitTellsFiles'
    BY <1>3, <1>a, StagesAre DEF ResolveServices, Raise, ThisRun, Disk, SbomTypeOK, EventsHold, ExitTellsFiles, Early, Later, Hosts
  <2> QED
    BY <2>1, <2>3, <2>4, <2>5, <2>6, <2>7, <2>8
<1>4. CASE Cancel
  <2>1. EventsHold'
    <3>1. stage \in {"scan", "enrich", "assemble", "write", "persist"}
      BY <1>4, StepsAre DEF Cancel
    <3>2. events = <<>>
      BY <3>1 DEF EventsHold, Early, Later
    <3>3. events' = <<"cancelled", "failed">>
      BY <1>4, <3>2, Published DEF Cancel, Raise
    <3> QED
      BY <1>4, <3>1, <3>3 DEF Cancel, Raise, ThisRun, EventsHold, EventLists, Early, Later, SbomTypeOK, Hosts
  <2>2. events' \in BoundedSeq({"completed", "failed", "cancelled"}, 2)
    BY <1>b, <2>1 DEF EventsHold
  <2>3. SbomTypeOK'
    BY <1>4, <1>a, StagesAre, <2>2, SbomAssumption DEF Cancel, Raise, ThisRun, Disk, SbomTypeOK, Early, Later, Hosts
  <2>4. LoopHolds'
    BY <1>4, <1>a, StepsAre DEF Cancel, Raise, ThisRun, LoopHolds, Early, Later
  <2>5. ResultsHold'
    BY <1>4, StepsAre DEF Cancel, Raise, ThisRun, ResultsHold, Later
  <2>6. RecordsHold'
    BY <1>4, StepsAre DEF Cancel, Raise, ThisRun, Disk, RecordsHold, SbomTypeOK, Hosts
  <2>7. RecordsAreWritten'
    BY <1>4, <1>a, StagesAre DEF Cancel, Raise, ThisRun, Disk, SbomTypeOK, RecordsAreWritten
  <2>8. ExitTellsFiles'
    <3>1. stage \in {"scan", "enrich", "assemble", "write", "persist"}
      BY <1>4, StepsAre DEF Cancel
    <3>2. events = <<>> /\ outcome = "none"
      BY <3>1 DEF EventsHold, Early, Later
    <3>3. events' = <<"cancelled", "failed">> /\ Last(events') = "failed"
      BY <1>4, <3>2, Published DEF Cancel, Raise, Last
    <3> QED
      BY <1>4, <3>2, <3>3 DEF Cancel, Raise, ThisRun, Disk, ExitTellsFiles
  <2> QED
    BY <2>1, <2>3, <2>4, <2>5, <2>6, <2>7, <2>8
<1>5. CASE Before
  <2>1. EventsHold'
    BY <1>5, <1>a, StagesAre DEF Before, Raise, WorkflowSteps, ThisRun, Disk, SbomTypeOK, EventsHold, EventLists, Early, Later, Hosts
  <2>2. events' \in BoundedSeq({"completed", "failed", "cancelled"}, 2)
    BY <1>b, <2>1 DEF EventsHold
  <2>3. SbomTypeOK'
    BY <1>5, <1>a, StagesAre, <2>2, SbomAssumption DEF Before, Raise, WorkflowSteps, ThisRun, Disk, SbomTypeOK, Early, Later, Hosts
  <2>4. LoopHolds'
    BY <1>5, <1>a, StagesAre DEF Before, Raise, WorkflowSteps, ThisRun, Disk, SbomTypeOK, LoopHolds, OfThisRun, Early, Later
  <2>5. ResultsHold'
    BY <1>5, <1>a, StagesAre, AttemptedSame DEF Before, Raise, WorkflowSteps, ThisRun, Disk, SbomTypeOK, LoopHolds, ResultsHold, OfThisRun, Early, Later
  <2>6. RecordsHold'
    BY <1>5, <1>a, StagesAre DEF Before, Raise, WorkflowSteps, ThisRun, Disk, SbomTypeOK, RecordsHold, Early, Later, Hosts
  <2>7. RecordsAreWritten'
    BY <1>5, <1>a, StagesAre DEF Before, Raise, WorkflowSteps, ThisRun, Disk, SbomTypeOK, RecordsAreWritten
  <2>8. ExitTellsFiles'
    <3>1. events = <<>> /\ outcome = "none" /\ host' = host /\ host \in Hosts
      BY <1>5 DEF Before, ThisRun, EventsHold, Early, Later, SbomTypeOK
    <3>2. CASE Raise(<<"failed">>)
      BY <3>1, <3>2, RaisedTells
    <3>3. CASE UNCHANGED outcome
      BY <3>1, <3>3 DEF ExitTellsFiles
    <3> QED
      BY <1>5, <3>2, <3>3 DEF Before
  <2> QED
    BY <2>1, <2>3, <2>4, <2>5, <2>6, <2>7, <2>8
<1>6. CASE EnterWrite
  <2>1. EventsHold'
    BY <1>6, <1>a, StagesAre DEF EnterWrite, ThisRun, Disk, SbomTypeOK, EventsHold, EventLists, Early, Later, Hosts
  <2>2. events' \in BoundedSeq({"completed", "failed", "cancelled"}, 2)
    BY <1>b, <2>1 DEF EventsHold
  <2>3. SbomTypeOK'
    BY <1>6, <1>a, StagesAre, <2>2, SbomAssumption DEF EnterWrite, ThisRun, Disk, SbomTypeOK, Early, Later, Hosts
  <2>4. LoopHolds'
    BY <1>6, <1>a, StagesAre DEF EnterWrite, ThisRun, Disk, SbomTypeOK, LoopHolds, OfThisRun, Early, Later
  <2>5. ResultsHold'
    BY <1>6, <1>a, AttemptedSame DEF EnterWrite, ThisRun, Disk, LoopHolds, ResultsHold, OfThisRun, Attempted, Early, Later
  <2>6. RecordsHold'
    BY <1>6, <1>a, StagesAre DEF EnterWrite, ThisRun, Disk, SbomTypeOK, RecordsHold, Early, Later, Hosts
  <2>7. RecordsAreWritten'
    BY <1>6, <1>a, StagesAre DEF EnterWrite, ThisRun, Disk, SbomTypeOK, RecordsAreWritten
  <2>8. ExitTellsFiles'
    BY <1>6, <1>a, StagesAre DEF EnterWrite, ThisRun, Disk, SbomTypeOK, EventsHold, ExitTellsFiles, Early, Later, Hosts
  <2> QED
    BY <2>1, <2>3, <2>4, <2>5, <2>6, <2>7, <2>8
<1>7. CASE WriterRefuses
  <2>1. EventsHold'
    BY <1>7, <1>a, StagesAre DEF WriterRefuses, Writing, FormatFails, Format, ThisRun, SbomTypeOK, EventsHold, EventLists, Early, Later, Hosts
  <2>2. events' \in BoundedSeq({"completed", "failed", "cancelled"}, 2)
    BY <1>b, <2>1 DEF EventsHold
  <2>3. SbomTypeOK'
    BY <1>7, <1>a, StagesAre, <2>2, SbomAssumption DEF WriterRefuses, Writing, FormatFails, Format, ThisRun, SbomTypeOK, Early, Later, Hosts
  <2>4. LoopHolds'
    BY <1>7, <1>a, StagesAre DEF WriterRefuses, Writing, FormatFails, Format, ThisRun, SbomTypeOK, LoopHolds, OfThisRun, Early, Later
  <2>5. ResultsHold'
    <3>1. Attempted' = Attempted \union {request[next]} /\ request' = request /\ host' = host /\ run' = run
      BY <1>7, AttemptedNext DEF WriterRefuses, Writing, FormatFails, ThisRun
    <3>2. host = "engine" => request[next] \notin results
      BY <1>7, FormatIsNew DEF WriterRefuses, Writing, ResultsHold, Later
    <3>3. /\ results' = results /\ failures' = failures \union {request[next]}
          /\ results \union failures = Attempted
          /\ host = "engine" => IsInjective(request) /\ results \intersect failures = {}
      BY <1>7 DEF WriterRefuses, Writing, FormatFails, Format, ResultsHold, Later
    <3>4. \A f \in Formats \ {request[next]} : files'[f] = files[f]
      BY <1>7 DEF WriterRefuses, Writing, Format, SbomTypeOK
    <3>5. \A f \in results' \ failures' : OfThisRun(f)'
      BY <1>7, <3>1, <3>3, <3>4 DEF WriterRefuses, Writing, SbomTypeOK, ResultsHold, OfThisRun, Later
    <3> QED
      BY <3>1, <3>2, <3>3, <3>5 DEF ResultsHold
  <2>6. RecordsHold'
    BY <1>7, <1>a, StagesAre DEF WriterRefuses, Writing, FormatFails, Format, ThisRun, SbomTypeOK, RecordsHold, Early, Later, Hosts
  <2>7. RecordsAreWritten'
    BY <1>7, <1>a, StagesAre DEF WriterRefuses, Writing, FormatFails, Format, ThisRun, SbomTypeOK, RecordsAreWritten
  <2>8. ExitTellsFiles'
    BY <1>7, <1>a, StagesAre DEF WriterRefuses, Writing, FormatFails, Format, ThisRun, SbomTypeOK, EventsHold, ExitTellsFiles, Early, Later, Hosts
  <2> QED
    BY <2>1, <2>3, <2>4, <2>5, <2>6, <2>7, <2>8
<1>8. CASE WriteBytesFails
  <2>1. EventsHold'
    BY <1>8, <1>a, StagesAre DEF WriteBytesFails, Writing, FormatFails, Format, Change, ThisRun, SbomTypeOK, EventsHold, EventLists, Early, Later, Hosts
  <2>2. events' \in BoundedSeq({"completed", "failed", "cancelled"}, 2)
    BY <1>b, <2>1 DEF EventsHold
  <2>3. SbomTypeOK'
    <3>1. NoFile \in [by : 0..MaxRuns, whole : BOOLEAN] /\ [by |-> run, whole |-> FALSE] \in [by : 0..MaxRuns, whole : BOOLEAN]
      BY SbomAssumption DEF NoFile, SbomTypeOK
    <3>2. request[next] \in Formats /\ next + 1 \in 1..MaxRequest + 1
      BY <1>8, <1>a, SbomAssumption DEF WriteBytesFails, Writing
    <3>3. /\ files' \in [Formats -> [by : 0..MaxRuns, whole : BOOLEAN]]
          /\ touched' \in [Formats -> 0..MaxRuns]
      BY <1>8, <3>1 DEF WriteBytesFails, Change, SbomTypeOK
    <3>4. failures' \in SUBSET Formats /\ next' \in 1..MaxRequest + 1 /\ stage' \in Stages
      BY <1>8, <3>2, StagesAre DEF WriteBytesFails, FormatFails, Format, SbomTypeOK, Later
    <3> QED
      BY <1>8, <2>2, <3>3, <3>4 DEF WriteBytesFails, FormatFails, ThisRun, SbomTypeOK
  <2>4. LoopHolds'
    BY <1>8, <1>a, StagesAre DEF WriteBytesFails, Writing, FormatFails, Format, Change, ThisRun, SbomTypeOK, LoopHolds, OfThisRun, Early, Later
  <2>5. ResultsHold'
    <3>1. Attempted' = Attempted \union {request[next]} /\ request' = request /\ host' = host /\ run' = run
      BY <1>8, AttemptedNext DEF WriteBytesFails, Writing, FormatFails, ThisRun
    <3>2. host = "engine" => request[next] \notin results
      BY <1>8, FormatIsNew DEF WriteBytesFails, Writing, ResultsHold, Later
    <3>3. /\ results' = results /\ failures' = failures \union {request[next]}
          /\ results \union failures = Attempted
          /\ host = "engine" => IsInjective(request) /\ results \intersect failures = {}
      BY <1>8 DEF WriteBytesFails, Writing, FormatFails, Format, ResultsHold, Later
    <3>4. \A f \in Formats \ {request[next]} : files'[f] = files[f]
      BY <1>8 DEF WriteBytesFails, Writing, Format, SbomTypeOK, Change
    <3>5. \A f \in results' \ failures' : OfThisRun(f)'
      BY <1>8, <3>1, <3>3, <3>4 DEF WriteBytesFails, Writing, SbomTypeOK, ResultsHold, OfThisRun, Later
    <3> QED
      BY <3>1, <3>2, <3>3, <3>5 DEF ResultsHold
  <2>6. RecordsHold'
    BY <1>8, <1>a, StagesAre DEF WriteBytesFails, Writing, FormatFails, Format, Change, ThisRun, SbomTypeOK, RecordsHold, Early, Later, Hosts
  <2>7. RecordsAreWritten'
    BY <1>8, RecordsSurvive DEF WriteBytesFails, Writing, FormatFails, Change, SbomTypeOK
  <2>8. ExitTellsFiles'
    BY <1>8, <1>a, StagesAre DEF WriteBytesFails, Writing, FormatFails, Format, Change, ThisRun, SbomTypeOK, EventsHold, ExitTellsFiles, Early, Later, Hosts
  <2> QED
    BY <2>1, <2>3, <2>4, <2>5, <2>6, <2>7, <2>8
<1>9. CASE WriteBytes
  <2>1. EventsHold'
    BY <1>9, <1>a, StagesAre DEF WriteBytes, Writing, Format, Change, ThisRun, SbomTypeOK, EventsHold, EventLists, Early, Later, Hosts
  <2>2. events' \in BoundedSeq({"completed", "failed", "cancelled"}, 2)
    BY <1>b, <2>1 DEF EventsHold
  <2>3. SbomTypeOK'
    BY <1>9, <1>a, StagesAre, <2>2, SbomAssumption DEF WriteBytes, Writing, Format, Change, ThisRun, SbomTypeOK, Early, Later, Hosts
  <2>4. LoopHolds'
    BY <1>9, <1>a, StagesAre DEF WriteBytes, Writing, Format, Change, ThisRun, SbomTypeOK, LoopHolds, OfThisRun, Early, Later
  <2>5. ResultsHold'
    <3>1. Attempted' = Attempted
      BY <1>9, AttemptedSame DEF WriteBytes, ThisRun
    <3>2. \A f \in Formats : OfThisRun(f) => OfThisRun(f)'
      BY <1>9 DEF WriteBytes, Change, ThisRun, OfThisRun, SbomTypeOK
    <3> QED
      BY <1>9, <3>1, <3>2 DEF WriteBytes, Writing, ThisRun, ResultsHold, Later, SbomTypeOK
  <2>6. RecordsHold'
    BY <1>9, <1>a, StagesAre DEF WriteBytes, Writing, Format, Change, ThisRun, SbomTypeOK, RecordsHold, Early, Later, Hosts
  <2>7. RecordsAreWritten'
    BY <1>9, RecordsSurvive DEF WriteBytes, Writing, Change, SbomTypeOK
  <2>8. ExitTellsFiles'
    BY <1>9, <1>a, StagesAre DEF WriteBytes, Writing, Format, Change, ThisRun, SbomTypeOK, EventsHold, ExitTellsFiles, Early, Later, Hosts
  <2> QED
    BY <2>1, <2>3, <2>4, <2>5, <2>6, <2>7, <2>8
<1>10. CASE AfterWrite
  <2>1. EventsHold'
    BY <1>10, <1>a, StagesAre DEF AfterWrite, FormatFails, Format, Change, ThisRun, Disk, SbomTypeOK, EventsHold, EventLists, Early, Later, Hosts
  <2>2. events' \in BoundedSeq({"completed", "failed", "cancelled"}, 2)
    BY <1>b, <2>1 DEF EventsHold
  <2>3. SbomTypeOK'
    <3>1. NoFile \in [by : 0..MaxRuns, whole : BOOLEAN]
      BY SbomAssumption DEF NoFile
    <3>2. request[next] \in Formats /\ next + 1 \in 1..MaxRequest + 1
      BY <1>10, <1>a, SbomAssumption DEF AfterWrite, LoopHolds
    <3>3. CASE token
      BY <1>10, <2>2, <3>1, <3>2, <3>3, StagesAre DEF AfterWrite, FormatFails, Format, Change, ThisRun, SbomTypeOK, Later
    <3>4. CASE ~token
      BY <1>10, <2>2, <3>2, <3>4, StagesAre DEF AfterWrite, Format, ThisRun, Disk, SbomTypeOK, Later
    <3> QED
      BY <3>3, <3>4
  <2>4. LoopHolds'
    BY <1>10, <1>a, StagesAre DEF AfterWrite, FormatFails, Format, Change, ThisRun, Disk, SbomTypeOK, LoopHolds, OfThisRun, Early, Later
  <2>5. ResultsHold'
    <3>0. /\ Attempted' = Attempted \union {request[next]} /\ request' = request /\ host' = host /\ run' = run
          /\ next <= Len(request) /\ OfThisRun(request[next])
      BY <1>10, AttemptedNext DEF AfterWrite, FormatFails, ThisRun, LoopHolds
    <3>1. host = "engine" => request[next] \notin Attempted
      BY <3>0, FormatIsNew
    <3>2. /\ results \union failures = Attempted /\ \A f \in results \ failures : OfThisRun(f)
          /\ host = "engine" => IsInjective(request) /\ results \intersect failures = {}
      BY <1>10 DEF AfterWrite, ResultsHold, Later
    <3>3. CASE token
      <4>1. results' = results /\ failures' = failures \union {request[next]}
        BY <1>10, <3>3 DEF AfterWrite, FormatFails, Format
      <4>2. \A f \in Formats \ {request[next]} : files'[f] = files[f]
        BY <1>10, <3>3 DEF AfterWrite, Format, Change, SbomTypeOK
      <4>3. \A f \in results' \ failures' : OfThisRun(f)'
        BY <3>0, <3>2, <4>1, <4>2 DEF SbomTypeOK, OfThisRun
      <4> QED
        BY <3>0, <3>1, <3>2, <4>1, <4>3 DEF ResultsHold
    <3>4. CASE ~token
      <4>1. results' = results \union {request[next]} /\ failures' = failures /\ files' = files
        BY <1>10, <3>4 DEF AfterWrite, Format, Disk
      <4>2. \A f \in results' \ failures' : OfThisRun(f)'
        BY <3>0, <3>2, <4>1 DEF OfThisRun
      <4> QED
        BY <3>0, <3>1, <3>2, <4>1, <4>2 DEF ResultsHold
    <3> QED
      BY <3>3, <3>4
  <2>6. RecordsHold'
    BY <1>10, <1>a, StagesAre DEF AfterWrite, FormatFails, Format, Change, ThisRun, Disk, SbomTypeOK, RecordsHold, Early, Later, Hosts
  <2>7. RecordsAreWritten'
    BY <1>10, RecordsSurvive DEF AfterWrite, FormatFails, Change, Disk, SbomTypeOK
  <2>8. ExitTellsFiles'
    BY <1>10, <1>a, StagesAre DEF AfterWrite, FormatFails, Format, Change, ThisRun, Disk, SbomTypeOK, EventsHold, ExitTellsFiles, Early, Later, Hosts
  <2> QED
    BY <2>1, <2>3, <2>4, <2>5, <2>6, <2>7, <2>8
<1>11. CASE EndWrite
  <2>1. EventsHold'
    BY <1>11, <1>a, StagesAre DEF EndWrite, ThisRun, Disk, SbomTypeOK, EventsHold, EventLists, Early, Later, Hosts
  <2>2. events' \in BoundedSeq({"completed", "failed", "cancelled"}, 2)
    BY <1>b, <2>1 DEF EventsHold
  <2>3. SbomTypeOK'
    BY <1>11, <1>a, StagesAre, <2>2, SbomAssumption DEF EndWrite, ThisRun, Disk, SbomTypeOK, Early, Later, Hosts
  <2>4. LoopHolds'
    BY <1>11, <1>a, StagesAre DEF EndWrite, ThisRun, Disk, SbomTypeOK, LoopHolds, OfThisRun, Early, Later
  <2>5. ResultsHold'
    BY <1>11, <1>a, StagesAre, AttemptedSame DEF EndWrite, ThisRun, Disk, SbomTypeOK, LoopHolds, ResultsHold, OfThisRun, Early, Later
  <2>6. RecordsHold'
    BY <1>11, <1>a, StagesAre DEF EndWrite, ThisRun, Disk, SbomTypeOK, RecordsHold, Early, Later, Hosts
  <2>7. RecordsAreWritten'
    BY <1>11, <1>a, StagesAre DEF EndWrite, ThisRun, Disk, SbomTypeOK, RecordsAreWritten
  <2>8. ExitTellsFiles'
    BY <1>11, <1>a, StagesAre DEF EndWrite, ThisRun, Disk, SbomTypeOK, EventsHold, ExitTellsFiles, Early, Later, Hosts
  <2> QED
    BY <2>1, <2>3, <2>4, <2>5, <2>6, <2>7, <2>8
<1>12. CASE Persist
  <2>1. EventsHold'
    BY <1>12, <1>a, StagesAre DEF Persist, Persisted, Raise, ThisRun, SbomTypeOK, EventsHold, EventLists, Early, Later, Hosts
  <2>2. events' \in BoundedSeq({"completed", "failed", "cancelled"}, 2)
    BY <1>b, <2>1 DEF EventsHold
  <2>3. SbomTypeOK'
    <3>1. stage = "persist" /\ run \in 0..MaxRuns /\ Persisted \subseteq Formats
      BY <1>12 DEF Persist, Persisted, SbomTypeOK
    <3>2. Persisted # {} => run \in 1..MaxRuns
      <4>1. run # 0
        BY <3>1 DEF EventsHold
      <4> QED
        BY <3>1, <4>1, SbomAssumption
    <3>3. ({run} \X Persisted) \subseteq (1..MaxRuns) \X Formats
      BY <3>1, <3>2
    <3> QED
      BY <1>12, <2>2, <3>3, StagesAre DEF Persist, Raise, ThisRun, SbomTypeOK, Early, Later
  <2>4. LoopHolds'
    BY <1>12, <1>a, StagesAre DEF Persist, Persisted, Raise, ThisRun, SbomTypeOK, LoopHolds, OfThisRun, Early, Later
  <2>5. ResultsHold'
    BY <1>12, <1>a, StagesAre, AttemptedSame DEF Persist, Persisted, Raise, ThisRun, SbomTypeOK, LoopHolds, ResultsHold, OfThisRun, Early, Later
  <2>6. RecordsHold'
    BY <1>12, <1>a, StagesAre DEF Persist, Persisted, Raise, ThisRun, SbomTypeOK, RecordsHold, Early, Later, Hosts
  <2>7. RecordsAreWritten'
    <3>1. CASE UNCHANGED records
      BY <1>12, <3>1 DEF Persist, RecordsAreWritten
    <3>2. CASE records' = records \union ({run} \X Persisted)
      <4>1. \A f \in Persisted : files[f] = [by |-> run, whole |-> TRUE]
        BY <1>12 DEF Persist, Persisted, ResultsHold, OfThisRun, Later
      <4> QED
        BY <1>12, <3>2, <4>1 DEF Persist, RecordsAreWritten
    <3> QED
      BY <1>12, <3>1, <3>2 DEF Persist
  <2>8. ExitTellsFiles'
    <3>1. events = <<>> /\ outcome = "none" /\ host' = host /\ host \in Hosts
      BY <1>12 DEF Persist, ThisRun, EventsHold, Early, Later, SbomTypeOK
    <3>2. CASE Raise(<<"failed">>)
      BY <3>1, <3>2, RaisedTells
    <3>3. CASE UNCHANGED outcome
      BY <3>1, <3>3 DEF ExitTellsFiles
    <3> QED
      BY <1>12, <3>2, <3>3 DEF Persist
  <2> QED
    BY <2>1, <2>3, <2>4, <2>5, <2>6, <2>7, <2>8
<1>13. CASE Publish
  <2>1. EventsHold'
    BY <1>13, <1>a, StagesAre DEF Publish, Partial, Raise, ThisRun, Disk, SbomTypeOK, EventsHold, EventLists, Early, Later, Hosts
  <2>2. events' \in BoundedSeq({"completed", "failed", "cancelled"}, 2)
    BY <1>b, <2>1 DEF EventsHold
  <2>3. SbomTypeOK'
    BY <1>13, <1>a, StagesAre, <2>2, SbomAssumption DEF Publish, Partial, Raise, ThisRun, Disk, SbomTypeOK, Early, Later, Hosts
  <2>4. LoopHolds'
    BY <1>13, <1>a, StagesAre DEF Publish, Partial, Raise, ThisRun, Disk, SbomTypeOK, LoopHolds, OfThisRun, Early, Later
  <2>5. ResultsHold'
    BY <1>13, <1>a, StagesAre, AttemptedSame DEF Publish, Partial, Raise, ThisRun, Disk, SbomTypeOK, LoopHolds, ResultsHold, OfThisRun, Early, Later
  <2>6. RecordsHold'
    BY <1>13, <1>a, StagesAre DEF Publish, Partial, Raise, ThisRun, Disk, SbomTypeOK, RecordsHold, Early, Later, Hosts
  <2>7. RecordsAreWritten'
    BY <1>13, <1>a, StagesAre DEF Publish, Partial, Raise, ThisRun, Disk, SbomTypeOK, RecordsAreWritten
  <2>8. ExitTellsFiles'
    <3>1. events = <<>> /\ outcome = "none"
      BY <1>13 DEF Publish, EventsHold, Early, Later
    <3>2. CASE Partial
      <4>1. host' = host /\ host \in Hosts /\ Raise(<<"failed">>)
        BY <1>13, <3>2 DEF Publish, ThisRun, SbomTypeOK
      <4> QED
        BY <3>1, <4>1, RaisedTells
    <3>3. CASE ~Partial
      <4>1. \A f \in Wanted : OfThisRun(f)
        BY <1>13, <3>3, AllWritten DEF Publish, Partial
      <4>2. Wanted' = Wanted /\ \A f : OfThisRun(f)' <=> OfThisRun(f)
        BY <1>13 DEF Publish, ThisRun, Disk, Wanted, OfThisRun
      <4>3. events' = <<"completed">> /\ outcome' \in {"none", "completed"}
        BY <1>13, <3>1, <3>3 DEF Publish
      <4> QED
        BY <4>1, <4>2, <4>3 DEF ExitTellsFiles
    <3> QED
      BY <3>2, <3>3
  <2> QED
    BY <2>1, <2>3, <2>4, <2>5, <2>6, <2>7, <2>8
<1>14. CASE Collect
  <2>1. EventsHold'
    BY <1>14, <1>a, StagesAre DEF Collect, ThisRun, Disk, SbomTypeOK, EventsHold, EventLists, Early, Later, Hosts
  <2>2. events' \in BoundedSeq({"completed", "failed", "cancelled"}, 2)
    BY <1>b, <2>1 DEF EventsHold
  <2>3. SbomTypeOK'
    BY <1>14, <1>a, StagesAre, <2>2, SbomAssumption DEF Collect, ThisRun, Disk, SbomTypeOK, Early, Later, Hosts
  <2>4. LoopHolds'
    BY <1>14, <1>a, StagesAre DEF Collect, ThisRun, Disk, SbomTypeOK, LoopHolds, OfThisRun, Early, Later
  <2>5. ResultsHold'
    BY <1>14, <1>a, StagesAre, AttemptedSame DEF Collect, ThisRun, Disk, SbomTypeOK, LoopHolds, ResultsHold, OfThisRun, Early, Later
  <2>6. RecordsHold'
    BY <1>14, <1>a, StagesAre DEF Collect, ThisRun, Disk, SbomTypeOK, RecordsHold, Early, Later, Hosts
  <2>7. RecordsAreWritten'
    BY <1>14, <1>a, StagesAre DEF Collect, ThisRun, Disk, SbomTypeOK, RecordsAreWritten
  <2>8. ExitTellsFiles'
    <3>1. events = <<"completed">> /\ failures = {} /\ host = "cli" /\ outcome = "none"
      BY <1>14 DEF Collect, EventsHold
    <3>2. \A f \in Wanted : OfThisRun(f)
      BY <1>14, <3>1, AllWritten DEF Collect
    <3>3. Wanted' = Wanted /\ \A f : OfThisRun(f)' <=> OfThisRun(f)
      BY <1>14 DEF Collect, ThisRun, Disk, Wanted, OfThisRun
    <3>4. events' = events /\ outcome' \in {"none", "completed"}
      BY <1>14, <3>1 DEF Collect
    <3> QED
      BY <3>1, <3>2, <3>3, <3>4 DEF ExitTellsFiles
  <2> QED
    BY <2>1, <2>3, <2>4, <2>5, <2>6, <2>7, <2>8
<1>15. CASE Tidy
  <2>1. EventsHold'
    BY <1>15, <1>a, StagesAre DEF Tidy, ThisRun, SbomTypeOK, EventsHold, EventLists, Early, Later, Hosts
  <2>2. events' \in BoundedSeq({"completed", "failed", "cancelled"}, 2)
    BY <1>b, <2>1 DEF EventsHold
  <2>3. SbomTypeOK'
    <3>1. /\ files' \in [Formats -> [by : 0..MaxRuns, whole : BOOLEAN]]
          /\ touched' \in [Formats -> 0..MaxRuns] /\ kept' \in SUBSET Formats
      BY <1>15, TidyTypes
    <3> QED
      BY <1>15, <2>2, <3>1, StagesAre DEF Tidy, ThisRun, SbomTypeOK
  <2>4. LoopHolds'
    BY <1>15, <1>a, StagesAre DEF Tidy, ThisRun, SbomTypeOK, LoopHolds, OfThisRun, Early, Later
  <2>5. ResultsHold'
    BY <1>15, <1>a, StagesAre, AttemptedSame DEF Tidy, ThisRun, SbomTypeOK, LoopHolds, ResultsHold, OfThisRun, Early, Later
  <2>6. RecordsHold'
    BY <1>15, <1>a, StagesAre DEF Tidy, ThisRun, SbomTypeOK, RecordsHold, Early, Later, Hosts
  <2>7. RecordsAreWritten'
    <3>1. host = "cli" /\ records' = records
      BY <1>15 DEF Tidy, EventsHold
    <3>2. \A f \in Formats : (files'[f] = files[f] /\ touched'[f] = touched[f]) \/ touched'[f] = run
      <4>1. TAKE f \in Formats
      <4>2. /\ files'[f] = IF f \in Wanted \ kept' THEN NoFile ELSE files[f]
            /\ touched'[f] = IF f \in Wanted \ kept' THEN run ELSE touched[f]
        BY <1>15 DEF Tidy
      <4> QED
        BY <4>2
    <3> QED
      BY <3>1, <3>2, RecordsSurvive
  <2>8. ExitTellsFiles'
    <3>1. host' = "cli" /\ outcome' = "failed"
      BY <1>15 DEF Tidy, ThisRun, EventsHold
    <3>2. \A f \in Wanted' \ kept' : files'[f] = NoFile
      BY <1>15, TidyTypes
    <3> QED
      BY <3>1, <3>2 DEF ExitTellsFiles, NoFile
  <2> QED
    BY <2>1, <2>3, <2>4, <2>5, <2>6, <2>7, <2>8
<1>16. CASE Interrupt
  <2>1. EventsHold'
    BY <1>16, <1>a, StagesAre DEF Interrupt, Idle, Writing, Format, Change, ThisRun, SbomTypeOK, EventsHold, EventLists, Early, Later, Hosts
  <2>2. events' \in BoundedSeq({"completed", "failed", "cancelled"}, 2)
    BY <1>b, <2>1 DEF EventsHold
  <2>3. SbomTypeOK'
    <3>1. [by |-> run, whole |-> FALSE] \in [by : 0..MaxRuns, whole : BOOLEAN]
      BY DEF SbomTypeOK
    <3> QED
      BY <1>16, <2>2, <3>1, StagesAre DEF Interrupt, Change, ThisRun, SbomTypeOK
  <2>4. LoopHolds'
    BY <1>16, <1>a, StagesAre DEF Interrupt, Idle, Writing, Format, Change, ThisRun, SbomTypeOK, LoopHolds, OfThisRun, Early, Later
  <2>5. ResultsHold'
    BY <1>16, <1>a, StagesAre, AttemptedSame DEF Interrupt, Idle, Writing, Format, Change, ThisRun, SbomTypeOK, LoopHolds, ResultsHold, OfThisRun, Early, Later
  <2>6. RecordsHold'
    BY <1>16, <1>a, StagesAre DEF Interrupt, Idle, Writing, Format, Change, ThisRun, SbomTypeOK, RecordsHold, Early, Later, Hosts
  <2>7. RecordsAreWritten'
    <3>1. CASE UNCHANGED <<files, touched>>
      BY <1>16, <3>1 DEF Interrupt, RecordsAreWritten
    <3>2. CASE Writing /\ Change(Format, [by |-> run, whole |-> FALSE])
      BY <1>16, <3>2, RecordsSurvive DEF Interrupt, Writing, Change, SbomTypeOK
    <3> QED
      BY <1>16, <3>1, <3>2 DEF Interrupt
  <2>8. ExitTellsFiles'
    BY <1>16, <1>a, StagesAre DEF Interrupt, Idle, Writing, Format, Change, ThisRun, SbomTypeOK, EventsHold, ExitTellsFiles, Early, Later, Hosts
  <2> QED
    BY <2>1, <2>3, <2>4, <2>5, <2>6, <2>7, <2>8
<1> QED
  BY <1>0, <1>1, <1>2, <1>3, <1>4, <1>5, <1>6, <1>7, <1>8, <1>9, <1>10, <1>11, <1>12, <1>13, <1>14, <1>15, <1>16 DEF SbomNext

(* The variables keep their types, whatever is asked for and whichever step
   fails. *)
THEOREM SbomTypeCorrect == SbomSpec => []SbomTypeOK
<1>1. SbomInit => SbomInv
  BY SbomStarts
<1>2. SbomInv /\ [SbomNext]_sbom => SbomInv'
  BY SbomStep
<1>3. SbomInv => SbomTypeOK
  BY DEF SbomInv
<1> QED
  BY <1>1, <1>2, <1>3, PTL DEF SbomSpec

(* What a run reports is what is in the directory: completed means that every
   format asked for is there, whole and written by this run, and a failed
   command leaves none of them but those it could not remove. *)
THEOREM ReportsAreTrue == SbomSpec => []ExitTellsFiles
<1>1. SbomInit => SbomInv
  BY SbomStarts
<1>2. SbomInv /\ [SbomNext]_sbom => SbomInv'
  BY SbomStep
<1>3. SbomInv => ExitTellsFiles
  BY DEF SbomInv
<1> QED
  BY <1>1, <1>2, <1>3, PTL DEF SbomSpec

(* A row of sbom_documents stands for a whole file of its run, as long as no
   later run has touched the file. *)
THEOREM RowsAreFiles == SbomSpec => []RecordsAreWritten
<1>1. SbomInit => SbomInv
  BY SbomStarts
<1>2. SbomInv /\ [SbomNext]_sbom => SbomInv'
  BY SbomStep
<1>3. SbomInv => RecordsAreWritten
  BY DEF SbomInv
<1> QED
  BY <1>1, <1>2, <1>3, PTL DEF SbomSpec

=============================================================================
