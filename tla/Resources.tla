----------------------------- MODULE Resources -----------------------------
(***************************************************************************)
(* KernelResourceManager: context managers entered during a workflow run   *)
(* are remembered and exited in reverse by cleanup().  Each owner (a run)  *)
(* has a manager of its own; resources are numbered as they are entered.   *)
(***************************************************************************)
EXTENDS Naturals, Sequences, SequencesExt

CONSTANTS
  Owners,
  MaxResources    \* bound on the resources one owner enters

ASSUME ResourcesAssumption == MaxResources \in Nat

VARIABLES
  entered,    \* [Owners -> how many resources it has entered]
  open,       \* [Owners -> resources entered and not exited]
  cleanups,   \* _cleanups: [Owners -> Seq of resources]
  cleaning,   \* [Owners -> what the running cleanup() has still to exit]
  forgotten   \* history: [Owners -> resources a cancelled cleanup() has dropped]

resources == <<entered, open, cleanups, cleaning, forgotten>>

Resource == 1..MaxResources

ResourcesTypeOK ==
  /\ entered \in [Owners -> 0..MaxResources]
  /\ open \in [Owners -> SUBSET Resource]
  /\ cleanups \in [Owners -> Seq(Resource)]
  /\ cleaning \in [Owners -> Seq(Resource)]
  /\ forgotten \in [Owners -> SUBSET Resource]

ResourcesInit ==
  /\ entered = [o \in Owners |-> 0]
  /\ open = [o \in Owners |-> {}]
  /\ cleanups = [o \in Owners |-> <<>>]
  /\ cleaning = [o \in Owners |-> <<>>]
  /\ forgotten = [o \in Owners |-> {}]

-----------------------------------------------------------------------------
(* acquire_async, acquire_sync: a resource whose __enter__ raises is not     *)
(* remembered and changes nothing here.                                      *)
Acquire(o) ==
  /\ entered[o] < MaxResources
  /\ entered' = [entered EXCEPT ![o] = @ + 1]
  /\ open' = [open EXCEPT ![o] = @ \union {entered'[o]}]
  /\ cleanups' = [cleanups EXCEPT ![o] = Append(@, entered'[o])]
  /\ UNCHANGED <<cleaning, forgotten>>

CleanupOrder(o) == Reverse(cleanups[o])

(* cleanup: the list is copied and emptied before the first callback runs. *)
BeginCleanup(o) ==
  /\ cleaning[o] = <<>> /\ cleanups[o] # <<>>
  /\ cleaning' = [cleaning EXCEPT ![o] = CleanupOrder(o)]
  /\ cleanups' = [cleanups EXCEPT ![o] = <<>>]
  /\ UNCHANGED <<entered, open, forgotten>>

(* Mutant of AfterExit: an exception of an __exit__ ends the loop. *)
AfterExitUnlessRaised(o, raised) == IF raised THEN <<>> ELSE Tail(cleaning[o])

AfterExit(o, raised) == Tail(cleaning[o])

(* One callback: the resource is exited, and its __exit__ may raise. *)
ExitNext(o) ==
  /\ cleaning[o] # <<>>
  /\ open' = [open EXCEPT ![o] = @ \ {Head(cleaning[o])}]
  /\ \E raised \in BOOLEAN : cleaning' = [cleaning EXCEPT ![o] = AfterExit(o, raised)]
  /\ UNCHANGED <<entered, cleanups, forgotten>>

(* The task that awaits an __exit__ is cancelled: CancelledError is not an   *)
(* Exception, so the loop ends, and its local list goes with it.             *)
CancelCleanup(o) ==
  /\ forgotten' = [forgotten EXCEPT ![o] = @ \union ToSet(cleaning[o])]
  /\ cleaning' = [cleaning EXCEPT ![o] = <<>>]
  /\ UNCHANGED <<entered, open, cleanups>>

-----------------------------------------------------------------------------
(* A cleanup exits a resource only after every resource that was entered     *)
(* later, except those entered since the cleanup began; and no open resource *)
(* is lost sight of, whichever exits raise: it is in the list, or the        *)
(* cleanup that runs has still to exit it, unless a cleanup was cancelled    *)
(* over it (KernelResourceManager.cleanup).                                  *)
ExitsInReverse ==
  [][\A o \in Owners :
       /\ \A r \in open[o] \ open'[o] :
            \A q \in open'[o] \ (ToSet(cleanups[o]) \union forgotten[o]) : q < r
       /\ open'[o] \subseteq
            ToSet(cleanups'[o]) \union ToSet(cleaning'[o]) \union forgotten'[o]]_resources
=============================================================================
