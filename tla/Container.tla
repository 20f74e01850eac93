------------------------------ MODULE Container ------------------------------
(***************************************************************************)
(* The dependency container of the kernel and one scope of it: services    *)
(* are registered with a lifetime, and resolving one builds what its       *)
(* constructor needs first, depth first.  Resolution never awaits, so one  *)
(* runs at a time.                                                         *)
(***************************************************************************)
EXTENDS Naturals, Sequences, SequencesExt

CONSTANTS
  Services,         \* interface types
  MaxRegistrations  \* bound: calls of the register methods

ASSUME ContainerAssumption == MaxRegistrations \in Nat

VARIABLES
  registry,    \* [Services -> [lifetime, needs]]
  registered,  \* number of registrations so far
  singletons,  \* the container's _singletons, by service
  scoped,      \* the scope's _scoped_instances, by service
  resolving,   \* [Owners -> its _resolution_stack]
  calls,       \* the calls of resolve that are building, outermost first
  asked,       \* history: the node the caller asked for
  known,       \* history: the nodes cached when it asked
  verdict      \* what the call came to, "none" before

container == <<registry, registered, singletons, scoped, resolving, calls, asked, known, verdict>>

Owners == {"container", "scope"}
Lifetimes == {"singleton", "scoped", "transient"}
Nodes == Owners \X Services
Unregistered == [lifetime |-> "none", needs |-> {}]

ContainerTypeOK ==
  /\ registry \in [Services -> [lifetime : Lifetimes \union {"none"}, needs : SUBSET Services]]
  /\ registered \in 0..MaxRegistrations
  /\ singletons \in SUBSET Services /\ scoped \in SUBSET Services
  /\ resolving \in [Owners -> SUBSET Services]
  /\ calls \in Seq([owner : Owners, service : Services, left : SUBSET Services])
  /\ asked \in Nodes \union {<<>>} /\ known \in SUBSET Nodes
  /\ verdict \in {"none", "resolved", "missing", "circular", "raised"}

ContainerInit ==
  /\ registry = [s \in Services |-> Unregistered] /\ registered = 0
  /\ singletons = {} /\ scoped = {} /\ resolving = [o \in Owners |-> {}] /\ calls = <<>>
  /\ asked = <<>> /\ known = {} /\ verdict = "none"

-----------------------------------------------------------------------------
Quiet == calls = <<>>

(* The history of the last call ends where the registry or a cache changes. *)
Forget == verdict' = "none" /\ known' = {} /\ UNCHANGED <<resolving, calls, asked>>

(* The register methods, again for a service that is registered already: an   *)
(* instance built from the former registration stays where it is cached.      *)
Register ==
  /\ Quiet /\ registered < MaxRegistrations /\ registered' = registered + 1
  /\ \E s \in Services, l \in Lifetimes, n \in SUBSET Services :
       registry' = [registry EXCEPT ![s] = [lifetime |-> l, needs |-> n]]
  /\ Forget /\ UNCHANGED <<singletons, scoped>>

(* register_instance: the instance is cached at once. *)
RegisterInstance ==
  /\ Quiet /\ registered < MaxRegistrations /\ registered' = registered + 1
  /\ \E s \in Services :
       /\ registry' = [registry EXCEPT ![s] = [lifetime |-> "singleton", needs |-> {}]]
       /\ singletons' = singletons \union {s}
  /\ Forget /\ UNCHANGED scoped

(* KernelScope.close: a close method that raises leaves the cache as it is. *)
CloseScope ==
  /\ Quiet /\ scoped # {} /\ scoped' \in {{}, scoped}
  /\ Forget /\ UNCHANGED <<registry, registered, singletons>>

-----------------------------------------------------------------------------
(* A scope hands the resolution of a singleton to its container. *)
Node(o, s) == <<IF registry[s].lifetime = "singleton" THEN "container" ELSE o, s>>

(* The container has singletons cached, the scope its scoped services. *)
Cached(n) ==
  \/ registry[n[2]].lifetime = "singleton" /\ n[2] \in singletons
  \/ registry[n[2]].lifetime = "scoped" /\ n[1] = "scope" /\ n[2] \in scoped

(* Mutant of Unwound: a resolution that raises leaves its services on the stack. *)
UnwoundNot == resolving

(* The finally clauses an exception passes: each call discards its service. *)
Unwound ==
  [o \in Owners |->
     resolving[o] \ {calls[i].service : i \in {j \in DOMAIN calls : calls[j].owner = o}}]

(* An exception ends the whole resolution. *)
Fail(v) ==
  /\ verdict' = v /\ resolving' = Unwound /\ calls' = <<>>
  /\ UNCHANGED <<singletons, scoped>>

(* resolve of node n, called from the calls below: it is not registered, it is *)
(* cached, it is being built already, or its building begins.                  *)
Enter(n, below) ==
  LET s == n[2] IN
  IF registry[s] = Unregistered THEN Fail("missing")
  ELSE IF Cached(n) THEN
    /\ calls' = below /\ verdict' = IF below = <<>> THEN "resolved" ELSE "none"
    /\ UNCHANGED <<resolving, singletons, scoped>>
  ELSE IF s \in resolving[n[1]] THEN Fail("circular")
  ELSE
    /\ resolving' = [resolving EXCEPT ![n[1]] = @ \union {s}]
    /\ calls' = Append(below, [owner |-> n[1], service |-> s, left |-> registry[s].needs])
    /\ verdict' = "none" /\ UNCHANGED <<singletons, scoped>>

Resolve ==
  /\ Quiet
  /\ \E o \in Owners, s \in Services : asked' = Node(o, s)
  /\ known' = {n \in Nodes : Cached(n)}
  /\ Enter(asked', <<>>)
  /\ UNCHANGED <<registry, registered>>

(* _create_instance: the next parameter, resolved by the same owner. *)
ResolveNeed ==
  /\ ~Quiet
  /\ \E d \in Last(calls).left :
       Enter(Node(Last(calls).owner, d), [calls EXCEPT ![Len(calls)].left = @ \ {d}])
  /\ UNCHANGED <<registry, registered, asked, known>>

(* All parameters are there: the constructor runs, and may raise. *)
Construct ==
  /\ ~Quiet /\ Last(calls).left = {}
  /\ LET c == Last(calls)
         l == registry[c.service].lifetime IN
     \/ /\ calls' = Front(calls) /\ verdict' = IF Len(calls) = 1 THEN "resolved" ELSE "none"
        /\ resolving' = [resolving EXCEPT ![c.owner] = @ \ {c.service}]
        /\ singletons' = IF l = "singleton" THEN singletons \union {c.service} ELSE singletons
        /\ scoped' = IF l = "scoped" /\ c.owner = "scope" THEN scoped \union {c.service} ELSE scoped
     \/ Fail("raised")
  /\ UNCHANGED <<registry, registered, asked, known>>

ContainerNext ==
  \/ Register \/ RegisterInstance \/ CloseScope \/ Resolve \/ ResolveNeed \/ Construct

ContainerSpec == ContainerInit /\ [][ContainerNext]_container

-----------------------------------------------------------------------------
(* What building a node needs, from the registrations alone: a node that was  *)
(* cached when the caller asked needs nothing.                                *)
Needs(n) == IF n \in known THEN {} ELSE {Node(n[1], d) : d \in registry[n[2]].needs}

(* All it needs, directly or not: the smallest set that is closed under Needs. *)
Reached ==
  LET closed == {X \in SUBSET Nodes : asked \in X /\ \A n \in X : Needs(n) \subseteq X}
  IN  {n \in Nodes : \A X \in closed : n \in X}

(* A resolution that is over says what the registrations say: it succeeds only *)
(* when all that the service needs, directly or not, is registered and free of *)
(* cycles (also of those that pass from the scope to the container); it names  *)
(* a missing service, or a cycle, only when there is one.  What an earlier     *)
(* resolution left behind, also one that failed half-way, plays no part        *)
(* (the resolution stacks and caches of KernelContainer and KernelScope).      *)
CycleIffCyclic ==
  verdict # "none" =>
    LET reached == Reached
        cyclic == \E X \in (SUBSET reached) \ {{}} : \A n \in X : Needs(n) \intersect X # {}
        missing == \E n \in reached : registry[n[2]] = Unregistered IN
    /\ verdict = "resolved" => ~cyclic /\ ~missing
    /\ verdict = "missing" => missing
    /\ verdict = "circular" => cyclic
=============================================================================
