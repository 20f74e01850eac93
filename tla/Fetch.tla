------------------------------- MODULE Fetch -------------------------------
(***************************************************************************)
(* What MirrorEngine relies on when it calls DownloadCoordinator.download_ *)
(* batch: a file is there complete and verified, or as it was before; a    *)
(* batch that returns has one result per task, and a result says "ok" only *)
(* for a file that arrived.  MirrorSync is written against this:           *)
(* ArtifactArrives is Arrive, ArtifactFails is Fail, Aborts is Raise and   *)
(* Crash is Crash.                                                         *)
(***************************************************************************)
CONSTANTS Tasks, Unchecked

VARIABLES disk, result, outcome

(* The content at a destination, seen from the current batch. *)
Body == {"wanted", "other"}
File == Body \union {"none", "old"}

Accepts(t) == IF t \in Unchecked THEN Body ELSE {"wanted"}

Init ==
  /\ disk = [t \in Tasks |-> "none"]
  /\ result = [t \in Tasks |-> "none"]
  /\ outcome = "idle"

(* A new batch: what was wanted before is the old content now. *)
Begin ==
  /\ outcome # "running"
  /\ outcome' = "running"
  /\ result' = [t \in Tasks |-> "none"]
  /\ disk' = [t \in Tasks |-> IF disk[t] = "none" THEN "none" ELSE "old"]

Arrive(t) ==
  /\ outcome = "running"
  /\ result[t] = "none"
  /\ \E b \in Accepts(t) : disk' = [disk EXCEPT ![t] = b]
  /\ result' = [result EXCEPT ![t] = "ok"]
  /\ UNCHANGED outcome

(* In place, but the call raised after that: the batch cannot return any more. *)
Lose(t) ==
  /\ outcome = "running"
  /\ result[t] = "none"
  /\ \E b \in Accepts(t) : disk' = [disk EXCEPT ![t] = b]
  /\ result' = [result EXCEPT ![t] = "lost"]
  /\ UNCHANGED outcome

Fail(t) ==
  /\ outcome = "running"
  /\ result[t] = "none"
  /\ result' = [result EXCEPT ![t] = "failed"]
  /\ UNCHANGED <<disk, outcome>>

Return ==
  /\ outcome = "running"
  /\ \A t \in Tasks : result[t] \in {"ok", "failed"}
  /\ outcome' = "returned"
  /\ UNCHANGED <<disk, result>>

Raise ==
  /\ outcome = "running"
  /\ outcome' = "raised"
  /\ UNCHANGED <<disk, result>>

Crash ==
  /\ outcome' = "idle"
  /\ result' = [t \in Tasks |-> "none"]
  /\ UNCHANGED disk

Next == Begin \/ Return \/ Raise \/ Crash \/ \E t \in Tasks : Arrive(t) \/ Lose(t) \/ Fail(t)

Spec == Init /\ [][Next]_<<disk, result, outcome>>
=============================================================================
