---------------------------- MODULE ContainerProofs ----------------------------
(***************************************************************************)
(* Proofs about Container: whatever was registered, resolved, cached and   *)
(* given up before, a resolution comes to what the registrations say.      *)
(***************************************************************************)
EXTENDS Container, SequenceTheorems, TLAPS

(***************************************************************************)
(* Graphs over a set S of nodes, by a function from a node to what it      *)
(* needs: what is needed from a node on, and what can be built, the        *)
(* smallest set that holds every node of R all of whose needs it holds.    *)
(***************************************************************************)
ClosedUnder(N, X) == \A m \in X : N[m] \subseteq X
ReachedFrom(S, N, a) == {n \in S : \A X \in SUBSET S : a \in X /\ ClosedUnder(N, X) => n \in X}

Grounded(S, N, R, X) == \A m \in S : m \in R /\ N[m] \subseteq X => m \in X
BuiltFrom(S, N, R) == {n \in S : \A X \in SUBSET S : Grounded(S, N, R, X) => n \in X}

Cyclic(N, X) == X # {} /\ \A n \in X : N[n] \intersect X # {}

(* The node itself is reached, and so is what a reached node needs. *)
LEMMA ReachedStarts ==
  ASSUME NEW S, NEW N \in [S -> SUBSET S], NEW a \in S
  PROVE  a \in ReachedFrom(S, N, a)
BY DEF ReachedFrom

LEMMA ReachedCloses ==
  ASSUME NEW S, NEW N \in [S -> SUBSET S], NEW a \in S, NEW n \in ReachedFrom(S, N, a)
  PROVE  N[n] \subseteq ReachedFrom(S, N, a)
<1> SUFFICES ASSUME NEW m \in N[n], NEW X \in SUBSET S, a \in X, ClosedUnder(N, X)
             PROVE  m \in X
  BY DEF ReachedFrom
<1> QED
  BY DEF ReachedFrom, ClosedUnder

(* A node of R can be built once all it needs can. *)
LEMMA BuiltCloses ==
  ASSUME NEW S, NEW N \in [S -> SUBSET S], NEW R, NEW n \in S, n \in R,
         N[n] \subseteq BuiltFrom(S, N, R)
  PROVE  n \in BuiltFrom(S, N, R)
<1> SUFFICES ASSUME NEW X \in SUBSET S, Grounded(S, N, R, X) PROVE n \in X
  BY DEF BuiltFrom
<1> QED
  BY DEF BuiltFrom, Grounded

(* What can be built is in R, and so is all it needs. *)
LEMMA BuiltBelow ==
  ASSUME NEW S, NEW N \in [S -> SUBSET S], NEW R, NEW n \in BuiltFrom(S, N, R)
  PROVE  n \in R /\ N[n] \subseteq BuiltFrom(S, N, R)
<1> DEFINE B == BuiltFrom(S, N, R)
           X == {m \in B : m \in R /\ N[m] \subseteq B}
<1>1. X \in SUBSET S
  BY DEF BuiltFrom
<1>2. Grounded(S, N, R, X)
  <2> SUFFICES ASSUME NEW m \in S, m \in R, N[m] \subseteq X PROVE m \in X
    BY DEF Grounded
  <2>1. N[m] \subseteq B
    OBVIOUS
  <2>2. m \in B
    BY <2>1, BuiltCloses
  <2> QED
    BY <2>1, <2>2
<1>3. n \in X
  BY <1>1, <1>2 DEF BuiltFrom
<1> QED
  BY <1>3

(* Nothing on a cycle can be built. *)
LEMMA BuiltAcyclic ==
  ASSUME NEW S, NEW N \in [S -> SUBSET S], NEW R, NEW X \in SUBSET S, Cyclic(N, X)
  PROVE  X \intersect BuiltFrom(S, N, R) = {}
<1>1. Grounded(S, N, R, S \ X)
  <2> SUFFICES ASSUME NEW m \in S, N[m] \subseteq S \ X PROVE m \in S \ X
    BY DEF Grounded
  <2> QED
    BY DEF Cyclic
<1> QED
  BY <1>1 DEF BuiltFrom

(* Of a node that can be built, all that is reached can. *)
LEMMA ReachedBuilt ==
  ASSUME NEW S, NEW N \in [S -> SUBSET S], NEW R, NEW a \in BuiltFrom(S, N, R)
  PROVE  ReachedFrom(S, N, a) \subseteq BuiltFrom(S, N, R)
<1> DEFINE B == BuiltFrom(S, N, R)
<1>1. B \in SUBSET S
  BY DEF BuiltFrom
<1>2. ClosedUnder(N, B)
  BY BuiltBelow DEF ClosedUnder
<1> QED
  BY <1>1, <1>2 DEF ReachedFrom

(* A path that comes back to one of its nodes holds a cycle. *)
LEMMA PathCycles ==
  ASSUME NEW S, NEW N \in [S -> SUBSET S], NEW k \in Nat, NEW p \in [1..k -> S],
         NEW i \in 1..k, p[i] \in N[p[k]],
         \A j \in 1..k : j < k => p[j + 1] \in N[p[j]],
         NEW X, \A n : n \in X <=> \E j \in i..k : n = p[j]
  PROVE  Cyclic(N, X)
<1>1. p[i] \in X
  OBVIOUS
<1>2. ASSUME NEW n \in X PROVE N[n] \intersect X # {}
  <2>1. PICK j \in i..k : n = p[j]
    OBVIOUS
  <2>2. CASE j = k
    BY <1>1, <2>1, <2>2
  <2>3. CASE j # k
    <3>1. j \in 1..k /\ j < k /\ j + 1 \in i..k
      BY <2>3
    <3>2. p[j + 1] \in X
      BY <3>1
    <3> QED
      BY <2>1, <3>1, <3>2
  <2> QED
    BY <2>2, <2>3
<1> QED
  BY <1>1, <1>2 DEF Cyclic
-----------------------------------------------------------------------------
Call == [owner : Owners, service : Services, left : SUBSET Services]
NodeOf(c) == <<c.owner, c.service>>

Registered == {n \in Nodes : registry[n[2]] # Unregistered}
NeedsMap == [n \in Nodes |-> Needs(n)]
Buildable == BuiltFrom(Nodes, NeedsMap, Registered)

(* A node as resolve passes it on: singletons are the container's. *)
Proper(n) == n \in Nodes /\ Node(n[1], n[2]) = n

(* The calls of a resolution are a path of needs from the node that was asked *)
(* for, none of them cached when it was; what a call is past can be built, or *)
(* is what the next call builds.                                              *)
CallHolds(s, i) ==
  LET c == s[i]
      needs == registry[c.service].needs IN
  /\ Proper(NodeOf(c)) /\ NodeOf(c) \in Reached \ known /\ NodeOf(c) \in Registered
  /\ c.left \subseteq needs
  /\ \A d \in needs \ c.left :
       \/ Node(c.owner, d) \in Buildable
       \/ i < Len(s) /\ Node(c.owner, d) = NodeOf(s[i + 1])
  /\ i < Len(s) => NodeOf(s[i + 1]) \in Needs(NodeOf(c))
  /\ i = 1 => NodeOf(c) = asked

PathHolds == \A i \in 1..Len(calls) : CallHolds(calls, i)

(* The stacks hold no service that is not being built. *)
StacksHold ==
  \A o \in Owners : \A s \in resolving[o] :
    \E i \in 1..Len(calls) : NodeOf(calls[i]) = <<o, s>>

(* What is cached during a resolution can be built, and nothing leaves a cache. *)
CachesHold ==
  calls # <<>> =>
    /\ \A n \in known : Cached(n)
    /\ \A n \in Nodes : Proper(n) /\ Cached(n) => n \in Buildable
    /\ asked \in Nodes /\ verdict = "none"

(* What a resolution came to is true of the registrations. *)
Says(v, a, N, R) ==
  /\ v = "resolved" => a \in BuiltFrom(Nodes, N, R)
  /\ v = "missing" => \E n \in ReachedFrom(Nodes, N, a) : n \notin R
  /\ v = "circular" => \E X \in SUBSET ReachedFrom(Nodes, N, a) : Cyclic(N, X)

VerdictHolds ==
  verdict # "none" => asked \in Nodes /\ Says(verdict, asked, NeedsMap, Registered)

ContainerInv ==
  /\ ContainerTypeOK
  /\ PathHolds /\ StacksHold /\ CachesHold /\ VerdictHolds

-----------------------------------------------------------------------------
LEMMA NodesTyped ==
  ASSUME ContainerTypeOK, NEW o \in Owners, NEW s \in Services
  PROVE  Node(o, s) \in Nodes /\ Node(o, s)[2] = s /\ Proper(Node(o, s))
BY DEF Node, Nodes, Proper, Owners

LEMMA NeedsTyped == ContainerTypeOK => NeedsMap \in [Nodes -> SUBSET Nodes]
<1> SUFFICES ASSUME ContainerTypeOK, NEW n \in Nodes PROVE Needs(n) \subseteq Nodes
  BY DEF NeedsMap
<1>1. n[1] \in Owners /\ n[2] \in Services
  BY DEF Nodes
<1>2. registry[n[2]].needs \subseteq Services
  BY <1>1 DEF ContainerTypeOK
<1>3. \A d \in Services : Node(n[1], d) \in Nodes
  BY <1>1, NodesTyped
<1> QED
  BY <1>2, <1>3 DEF Needs

LEMMA NeedsTypedNext == ContainerTypeOK' => (NeedsMap \in [Nodes -> SUBSET Nodes])'
BY NeedsTyped, PTL

(* The definition of the property, and the same of the next state. *)
LEMMA ReachedIs == asked \in Nodes => Reached = ReachedFrom(Nodes, NeedsMap, asked)
<1> SUFFICES ASSUME asked \in Nodes PROVE Reached = ReachedFrom(Nodes, NeedsMap, asked)
  OBVIOUS
<1>1. \A X \in SUBSET Nodes : ClosedUnder(NeedsMap, X) <=> \A n \in X : Needs(n) \subseteq X
  BY DEF ClosedUnder, NeedsMap
<1> QED
  BY <1>1 DEF Reached, ReachedFrom

LEMMA ReachedIsNext == (asked \in Nodes)' => (Reached = ReachedFrom(Nodes, NeedsMap, asked))'
BY ReachedIs, PTL

(* While the registry and what was asked stay, so does the graph. *)
LEMMA GraphStays ==
  ASSUME UNCHANGED <<registry, known, asked>>
  PROVE  /\ \A n : Needs(n)' = Needs(n)
         /\ NeedsMap' = NeedsMap /\ Registered' = Registered /\ Buildable' = Buildable
         /\ Reached' = Reached
<1>1. \A n : Needs(n)' = Needs(n)
  BY DEF Needs, Node
<1>2. NeedsMap' = NeedsMap
  BY <1>1 DEF NeedsMap
<1>3. Registered' = Registered
  BY DEF Registered
<1>4. Buildable' = Buildable
  BY <1>2, <1>3 DEF Buildable
<1>5. Reached' = Reached
  BY <1>1 DEF Reached
<1> QED
  BY <1>1, <1>2, <1>3, <1>4, <1>5

LEMMA CallsStay ==
  ASSUME UNCHANGED <<registry, known, asked>>, \A i \in 1..Len(calls') : CallHolds(calls', i)
  PROVE  PathHolds'
BY GraphStays DEF PathHolds, CallHolds, Proper, Node

LEMMA VerdictIsTrue == ContainerInv => CycleIffCyclic
<1> SUFFICES ASSUME ContainerInv, verdict # "none" PROVE CycleIffCyclic
  BY DEF CycleIffCyclic
<1> DEFINE N == NeedsMap
           cyclic == \E X \in (SUBSET Reached) \ {{}} : \A n \in X : Needs(n) \intersect X # {}
           missing == \E n \in Reached : registry[n[2]] = Unregistered
<1>1. asked \in Nodes /\ Says(verdict, asked, NeedsMap, Registered) /\ NeedsMap \in [Nodes -> SUBSET Nodes]
  BY NeedsTyped DEF ContainerInv, VerdictHolds
<1>2. Reached = ReachedFrom(Nodes, NeedsMap, asked) /\ Reached \subseteq Nodes
  BY <1>1, ReachedIs DEF ReachedFrom
<1>3. missing <=> \E n \in Reached : n \notin Registered
  BY <1>2 DEF Registered
<1>4. cyclic <=> \E X \in SUBSET Reached : Cyclic(NeedsMap, X)
  BY <1>2 DEF Cyclic, NeedsMap
<1>5. verdict = "resolved" => ~cyclic /\ ~missing
  <2> SUFFICES ASSUME verdict = "resolved" PROVE ~cyclic /\ ~missing
    OBVIOUS
  <2>1. asked \in BuiltFrom(Nodes, NeedsMap, Registered)
    BY <1>1 DEF Says
  <2>2. Reached \subseteq BuiltFrom(Nodes, NeedsMap, Registered)
    BY <1>1, <1>2, <2>1, ReachedBuilt
  <2>3. \A n \in Reached : n \in Registered
    BY <1>1, <2>2, BuiltBelow
  <2>4. \A X \in SUBSET Reached : ~Cyclic(NeedsMap, X)
    <3> SUFFICES ASSUME NEW X \in SUBSET Reached, Cyclic(NeedsMap, X) PROVE FALSE
      OBVIOUS
    <3>1. X \in SUBSET Nodes /\ X # {}
      BY <1>2 DEF Cyclic
    <3>2. X \intersect BuiltFrom(Nodes, NeedsMap, Registered) = {}
      BY <1>1, <3>1, BuiltAcyclic
    <3> QED
      BY <2>2, <3>1, <3>2
  <2> QED
    BY <1>3, <1>4, <2>3, <2>4
<1>6. verdict = "missing" => missing
  BY <1>1, <1>2, <1>3 DEF Says
<1>7. verdict = "circular" => cyclic
  BY <1>1, <1>2, <1>4 DEF Says
<1> QED
  BY <1>5, <1>6, <1>7 DEF CycleIffCyclic
-----------------------------------------------------------------------------
LEMMA ContainerStarts == ContainerInit => ContainerInv
<1> SUFFICES ASSUME ContainerInit PROVE ContainerInv
  OBVIOUS
<1>1. ContainerTypeOK
  <2>1. calls \in Seq([owner : Owners, service : Services, left : SUBSET Services])
    BY DEF ContainerInit
  <2> QED
    BY <2>1, ContainerAssumption DEF ContainerInit, ContainerTypeOK, Unregistered
<1>2. Len(calls) = 0 /\ calls = <<>>
  BY DEF ContainerInit
<1> QED
  BY <1>1, <1>2 DEF ContainerInit, ContainerInv, PathHolds, StacksHold, CachesHold, VerdictHolds

(* Where no call is under way the stacks are empty and only the verdict says  *)
(* something.                                                                 *)
LEMMA QuietStacks ==
  ASSUME ContainerInv, Quiet
  PROVE  \A o \in Owners : resolving[o] = {}
<1>1. Len(calls) = 0
  BY DEF Quiet
<1> QED
  BY <1>1 DEF ContainerInv, StacksHold

LEMMA QuietNext ==
  ASSUME ContainerTypeOK', calls' = <<>>, \A o \in Owners : resolving'[o] = {}, VerdictHolds'
  PROVE  ContainerInv'
<1>1. Len(calls') = 0
  OBVIOUS
<1> QED
  BY <1>1 DEF ContainerInv, PathHolds, StacksHold, CachesHold

(* An exception that ends a resolution leaves the stacks empty. *)
LEMMA FailKeeps ==
  ASSUME ContainerInv, NEW v \in {"missing", "circular", "raised"}, Fail(v),
         UNCHANGED <<registry, registered>>, asked' \in Nodes, known' \in SUBSET Nodes,
         Says(v, asked', NeedsMap', Registered')
  PROVE  ContainerInv'
<1>1. \A o \in Owners : resolving'[o] = {}
  <2> SUFFICES ASSUME NEW o \in Owners, NEW s \in resolving[o]
               PROVE  s \in {calls[i].service : i \in {j \in DOMAIN calls : calls[j].owner = o}}
    BY DEF Fail, Unwound
  <2>1. PICK i \in 1..Len(calls) : NodeOf(calls[i]) = <<o, s>>
    BY DEF ContainerInv, StacksHold
  <2>2. i \in DOMAIN calls
    BY DEF ContainerInv, ContainerTypeOK
  <2> QED
    BY <2>1, <2>2 DEF NodeOf
<1>2. resolving' \in [Owners -> SUBSET Services]
  BY DEF Fail, Unwound, ContainerInv, ContainerTypeOK
<1>3. calls' = <<>> /\ calls' \in Seq([owner : Owners, service : Services, left : SUBSET Services])
  BY DEF Fail
<1>4. ContainerTypeOK'
  BY <1>2, <1>3 DEF Fail, ContainerInv, ContainerTypeOK
<1>5. VerdictHolds'
  BY DEF Fail, VerdictHolds
<1> QED
  BY <1>1, <1>3, <1>4, <1>5, QuietNext

LEMMA RegisterKeeps ==
  ASSUME ContainerInv, Register \/ RegisterInstance \/ CloseScope
  PROVE  ContainerInv'
<1>1. calls' = <<>> /\ calls = <<>> /\ resolving' = resolving /\ verdict' = "none" /\ known' = {} /\ asked' = asked
  BY DEF Register, RegisterInstance, CloseScope, Quiet, Forget
<1>2. registered' \in 0..MaxRegistrations
  <2>1. registered \in Nat /\ (registered < MaxRegistrations => registered + 1 \in 0..MaxRegistrations)
    BY ContainerAssumption DEF ContainerInv, ContainerTypeOK
  <2> QED
    BY <2>1 DEF Register, RegisterInstance, CloseScope, ContainerInv, ContainerTypeOK
<1>3. registry' \in [Services -> [lifetime : Lifetimes \union {"none"}, needs : SUBSET Services]]
  BY DEF Register, RegisterInstance, CloseScope, ContainerInv, ContainerTypeOK, Lifetimes
<1>4. singletons' \in SUBSET Services /\ scoped' \in SUBSET Services
  BY DEF Register, RegisterInstance, CloseScope, ContainerInv, ContainerTypeOK
<1>5. ContainerTypeOK'
  BY <1>1, <1>2, <1>3, <1>4 DEF ContainerInv, ContainerTypeOK
<1>6. \A o \in Owners : resolving'[o] = {}
  BY <1>1, QuietStacks DEF Quiet
<1>7. VerdictHolds'
  BY <1>1 DEF VerdictHolds
<1> QED
  BY <1>1, <1>5, <1>6, <1>7, QuietNext
-----------------------------------------------------------------------------
(* A cached node is registered, and what was cached when the caller asked     *)
(* needs nothing: it can be built.                                            *)
LEMMA KnownIsBuildable ==
  ContainerTypeOK => \A n \in known : n \in Registered => n \in Buildable
<1> SUFFICES ASSUME ContainerTypeOK, NEW n \in known, n \in Registered PROVE n \in Buildable
  OBVIOUS
<1>1. n \in Nodes /\ NeedsMap \in [Nodes -> SUBSET Nodes]
  BY NeedsTyped DEF ContainerTypeOK
<1>2. NeedsMap[n] = {}
  BY <1>1 DEF NeedsMap, Needs
<1>3. NeedsMap[n] \subseteq BuiltFrom(Nodes, NeedsMap, Registered)
  BY <1>2
<1> QED
  BY <1>1, <1>3, BuiltCloses DEF Buildable

LEMMA KnownIsBuildableNext ==
  ContainerTypeOK' => (\A n \in known : n \in Registered => n \in Buildable)'
BY KnownIsBuildable, PTL

LEMMA CachedIsRegistered ==
  ASSUME NEW n \in Nodes, Cached(n)
  PROVE  n \in Registered
BY DEF Cached, Registered, Unregistered

LEMMA ResolveKeeps ==
  ASSUME ContainerInv, Resolve
  PROVE  ContainerInv'
<1>0. ContainerTypeOK
  BY DEF ContainerInv
<1>1. PICK n \in Nodes : asked' = n /\ Proper(n)
  BY <1>0, NodesTyped DEF Resolve
<1>2. n \in Nodes /\ n[1] \in Owners /\ n[2] \in Services /\ Proper(n)
  BY <1>1 DEF Nodes
<1>3. /\ known' = {m \in Nodes : Cached(m)} /\ Enter(n, <<>>)
      /\ UNCHANGED <<registry, registered>> /\ calls = <<>>
  BY <1>1 DEF Resolve, Quiet
<1>4. \A p \in Owners : resolving[p] = {}
  BY <1>3, QuietStacks DEF Quiet
<1>5. Registered' = Registered /\ asked' \in Nodes /\ known' \in SUBSET Nodes
  BY <1>1, <1>2, <1>3 DEF Registered
<1>6. (asked \in Nodes)' /\ (NeedsMap \in [Nodes -> SUBSET Nodes])'
  <2>1. ASSUME NEW m \in Nodes PROVE Needs(m)' \subseteq Nodes
    <3>1. m[1] \in Owners /\ registry'[m[2]].needs \subseteq Services
      BY <1>0, <1>3 DEF ContainerTypeOK, Nodes
    <3>2. \A d \in Services : Node(m[1], d)' \in Nodes
      BY <1>3, <3>1 DEF Node, Nodes, Owners
    <3> QED
      BY <3>1, <3>2 DEF Needs
  <2> QED
    BY <1>5, <2>1 DEF NeedsMap
<1>7. CASE registry[n[2]] = Unregistered
  <2>1. Fail("missing")
    BY <1>3, <1>7 DEF Enter
  <2>2. n \in ReachedFrom(Nodes, NeedsMap', n)
    BY <1>2, <1>6, ReachedStarts
  <2>3. n \notin Registered'
    BY <1>5, <1>7 DEF Registered
  <2>4. Says("missing", asked', NeedsMap', Registered')
    BY <1>1, <2>2, <2>3 DEF Says
  <2> QED
    BY <1>3, <1>5, <2>1, <2>4, FailKeeps
<1>8. CASE registry[n[2]] # Unregistered /\ Cached(n)
  <2>1. calls' = <<>> /\ verdict' = "resolved" /\ UNCHANGED <<resolving, singletons, scoped>>
    BY <1>3, <1>8 DEF Enter
  <2>2. ContainerTypeOK'
    BY <1>0, <1>3, <1>5, <2>1 DEF ContainerTypeOK
  <2>3. n \in known' /\ n \in Registered'
    BY <1>2, <1>3, <1>5, <1>8 DEF Registered
  <2>4. n \in Buildable'
    BY <2>2, <2>3, KnownIsBuildableNext
  <2>5. VerdictHolds'
    BY <1>1, <1>5, <2>1, <2>4 DEF VerdictHolds, Says, Buildable
  <2> QED
    BY <1>4, <2>1, <2>2, <2>5, QuietNext
<1>9. CASE registry[n[2]] # Unregistered /\ ~Cached(n)
  <2> DEFINE c == [owner |-> n[1], service |-> n[2], left |-> registry[n[2]].needs]
  <2>1. /\ calls' = Append(<<>>, c) /\ verdict' = "none" /\ UNCHANGED <<singletons, scoped>>
        /\ resolving' = [resolving EXCEPT ![n[1]] = @ \union {n[2]}]
    BY <1>2, <1>3, <1>4, <1>9 DEF Enter
  <2>2. c \in Call
    BY <1>0, <1>2 DEF Call, ContainerTypeOK
  <2>3. calls' \in Seq(Call) /\ Len(calls') = 1 /\ calls'[1] = c
    BY <2>1, <2>2
  <2>4. ContainerTypeOK'
    <3>1. resolving' \in [Owners -> SUBSET Services]
      BY <1>0, <1>2, <2>1 DEF ContainerTypeOK
    <3> QED
      BY <1>0, <1>3, <1>5, <2>1, <2>3, <3>1 DEF ContainerTypeOK, Call
  <2>5. NodeOf(c) = n /\ n \in Nodes
    BY <1>2 DEF NodeOf, Nodes
  <2>6. PathHolds'
    <3>1. Proper(n)'
      BY <1>2, <1>3 DEF Proper, Node
    <3>2. n \in Reached'
      <4>1. n \in ReachedFrom(Nodes, NeedsMap', n)
        BY <1>2, <1>6, ReachedStarts
      <4> QED
        BY <1>1, <1>6, <4>1, ReachedIsNext
    <3>3. n \notin known' /\ n \in Registered'
      BY <1>2, <1>3, <1>5, <1>9 DEF Registered
    <3>4. SUFFICES CallHolds(calls, 1)'
      BY <2>3 DEF PathHolds
    <3>5. /\ NodeOf(calls'[1]) = n /\ ~(1 < Len(calls'))
          /\ calls'[1].left = registry'[calls'[1].service].needs
      BY <1>3, <2>3, <2>5
    <3> HIDE DEF c
    <3> QED
      BY <1>1, <3>1, <3>2, <3>3, <3>5 DEF CallHolds
  <2>7. StacksHold'
    <3> SUFFICES ASSUME NEW p \in Owners, NEW t \in resolving'[p]
                 PROVE  NodeOf(calls'[1]) = <<p, t>>
      BY <2>3 DEF StacksHold
    <3>1. p = n[1] /\ t = n[2]
      BY <1>0, <1>2, <1>4, <2>1 DEF ContainerTypeOK
    <3>2. calls'[1].owner = n[1] /\ calls'[1].service = n[2]
      BY <2>3
    <3> QED
      BY <3>1, <3>2 DEF NodeOf
  <2>8. CachesHold'
    <3>1. \A m : Cached(m)' <=> Cached(m)
      BY <1>3, <2>1 DEF Cached
    <3>2. \A m \in Nodes : Cached(m)' => m \in Buildable'
      BY <1>3, <1>5, <2>4, <3>1, CachedIsRegistered, KnownIsBuildableNext
    <3> QED
      BY <1>3, <1>5, <2>1, <3>1, <3>2 DEF CachesHold
  <2>9. VerdictHolds'
    BY <2>1 DEF VerdictHolds
  <2> QED
    BY <2>4, <2>6, <2>7, <2>8, <2>9 DEF ContainerInv
<1> QED
  BY <1>7, <1>8, <1>9
-----------------------------------------------------------------------------
LEMMA LastCall ==
  ASSUME ContainerTypeOK, calls # <<>>
  PROVE  /\ calls \in Seq(Call) /\ Len(calls) \in Nat \ {0}
         /\ Last(calls) = calls[Len(calls)] /\ calls[Len(calls)] \in Call
<1>1. calls \in Seq(Call)
  BY DEF ContainerTypeOK, Call
<1>2. Len(calls) \in Nat /\ Len(calls) # 0
  BY <1>1, EmptySeq
<1>3. \A i \in 1..Len(calls) : calls[i] \in Call
  BY <1>1
<1> QED
  BY <1>1, <1>2, <1>3 DEF Last

LEMMA Replaced ==
  ASSUME NEW S, NEW s \in Seq(S), NEW k \in 1..Len(s), NEW c \in S,
         NEW t, t = [s EXCEPT ![k] = c]
  PROVE  /\ t \in Seq(S) /\ Len(t) = Len(s)
         /\ \A i \in 1..Len(s) : t[i] = IF i = k THEN c ELSE s[i]
<1>1. [s EXCEPT ![k] = c] \in Seq(S)
  BY ExceptSeq
<1>2. Len([s EXCEPT ![k] = c]) = Len(s)
  BY ExceptSeq
<1>3. \A i \in 1..Len(s) : [s EXCEPT ![k] = c][i] = IF i = k THEN c ELSE s[i]
  BY ExceptSeq
<1> QED
  BY <1>1, <1>2, <1>3

(* The calls while the last of them goes on to one of its parameters. *)
Below(d) == [calls EXCEPT ![Len(calls)].left = @ \ {d}]

LEMMA NextNeed ==
  ASSUME ContainerTypeOK, calls # <<>>, NEW d
  PROVE  /\ Below(d) \in Seq(Call) /\ Len(Below(d)) = Len(calls) /\ Len(calls) \in Nat \ {0}
         /\ Last(calls) = calls[Len(calls)] /\ Last(calls) \in Call
         /\ \A i \in 1..Len(calls) : i < Len(calls) => Below(d)[i] = calls[i]
         /\ Below(d)[Len(calls)].left = Last(calls).left \ {d}
         /\ \A i \in 1..Len(calls) : NodeOf(Below(d)[i]) = NodeOf(calls[i])
                                     /\ Below(d)[i].owner = calls[i].owner
                                     /\ Below(d)[i].service = calls[i].service
<1> DEFINE k == Len(calls)
<1>b. PICK below : below = Below(d)
  OBVIOUS
<1>1. calls \in Seq(Call) /\ k \in Nat \ {0} /\ Last(calls) = calls[k] /\ calls[k] \in Call
  BY LastCall
<1>2. PICK c \in Call : c = [calls[k] EXCEPT !.left = @ \ {d}]
  BY <1>1 DEF Call
<1>3. below = [calls EXCEPT ![k] = c]
  BY <1>b, <1>2, Zenon DEF Below
<1>4. c.left = calls[k].left \ {d} /\ c.owner = calls[k].owner /\ c.service = calls[k].service
  BY <1>1, <1>2 DEF Call
<1>e. /\ below \in Seq(Call) /\ Len(below) = Len(calls)
      /\ \A i \in 1..Len(calls) : below[i] = IF i = k THEN c ELSE calls[i]
  <2>1. k \in 1..Len(calls)
    BY <1>1
  <2>2. calls \in Seq(Call) /\ c \in Call
    BY <1>1
  <2> HIDE DEF k
  <2> QED
    BY <1>3, <2>1, <2>2, Replaced
<1>5. below \in Seq(Call) /\ Len(below) = k
  BY <1>e
<1>6. below[k] = c /\ \A i \in 1..k : i < k => below[i] = calls[i]
  BY <1>1, <1>e
<1>7. \A i \in 1..k : i < k \/ i = k
  BY <1>1
<1> QED
  BY <1>b, <1>1, <1>4, <1>5, <1>6, <1>7 DEF NodeOf

(* What the calls hold, of the last of them and of those below. *)
LEMMA NeedHolds ==
  ASSUME ContainerInv, calls # <<>>, NEW d \in Last(calls).left,
         NEW n, n = Node(Last(calls).owner, d)
  PROVE  /\ Proper(n) /\ n \in Needs(NodeOf(Last(calls))) /\ n \in Reached
         /\ Last(calls).owner \in Owners /\ d \in Services
         /\ asked \in Nodes /\ Reached \subseteq Nodes
<1>1. CallHolds(calls, Len(calls)) /\ Last(calls) = calls[Len(calls)] /\ Last(calls) \in Call
  BY LastCall DEF ContainerInv, PathHolds
<1> DEFINE c == Last(calls)
<1>2. c.owner \in Owners /\ c.service \in Services /\ d \in Services /\ d \in registry[c.service].needs
  BY <1>1 DEF CallHolds, Call
<1>3. Proper(n)
  BY <1>2, NodesTyped DEF ContainerInv
<1>4. NodeOf(c) \in Reached \ known
  BY <1>1 DEF CallHolds
<1>5. n \in Needs(NodeOf(c))
  BY <1>2, <1>4 DEF Needs, NodeOf
<1>6. asked \in Nodes /\ NeedsMap \in [Nodes -> SUBSET Nodes]
  BY NeedsTyped DEF ContainerInv, CachesHold
<1>7. Reached = ReachedFrom(Nodes, NeedsMap, asked) /\ Reached \subseteq Nodes
  BY <1>6, ReachedIs DEF ReachedFrom
<1>8. n \in Reached
  <2>1. NeedsMap[NodeOf(c)] \subseteq Reached
    BY <1>4, <1>6, <1>7, ReachedCloses
  <2> QED
    BY <1>4, <1>5, <1>7, <2>1 DEF NeedsMap
<1> QED
  BY <1>2, <1>3, <1>5, <1>6, <1>7, <1>8

(* The last call needs a service that is being built: there is a cycle. *)
LEMMA CircularIsCyclic ==
  ASSUME ContainerInv, calls # <<>>, NEW i \in 1..Len(calls),
         NodeOf(calls[i]) \in Needs(NodeOf(Last(calls)))
  PROVE  \E X \in SUBSET ReachedFrom(Nodes, NeedsMap, asked) : Cyclic(NeedsMap, X)
<1> DEFINE k == Len(calls)
           p == [j \in 1..k |-> NodeOf(calls[j])]
<1>1. k \in Nat \ {0} /\ Last(calls) = calls[k]
  BY LastCall DEF ContainerInv
<1>2. asked \in Nodes /\ NeedsMap \in [Nodes -> SUBSET Nodes]
  BY NeedsTyped DEF ContainerInv, CachesHold
<1>3. Reached = ReachedFrom(Nodes, NeedsMap, asked) /\ Reached \subseteq Nodes
  BY <1>2, ReachedIs DEF ReachedFrom
<1>4. \A j \in 1..k : NodeOf(calls[j]) \in Reached
  BY DEF ContainerInv, PathHolds, CallHolds
<1>5. p \in [1..k -> Nodes]
  BY <1>3, <1>4
<1>6. \A j \in 1..k : j < k => p[j + 1] \in NeedsMap[p[j]]
  <2> SUFFICES ASSUME NEW j \in 1..k, j < k PROVE p[j + 1] \in NeedsMap[p[j]]
    OBVIOUS
  <2>1. NodeOf(calls[j + 1]) \in Needs(NodeOf(calls[j]))
    BY DEF ContainerInv, PathHolds, CallHolds
  <2>2. j + 1 \in 1..k
    BY <1>1
  <2>3. NodeOf(calls[j]) \in Nodes
    BY <1>3, <1>4
  <2> QED
    BY <2>1, <2>2, <2>3 DEF NeedsMap
<1>7. p[i] \in NeedsMap[p[k]]
  <2>1. NodeOf(calls[k]) \in Nodes
    BY <1>1, <1>3, <1>4
  <2> QED
    BY <1>1, <2>1 DEF NeedsMap
<1>8. PICK q : q = p
  OBVIOUS
<1>9. PICK l : l = k
  OBVIOUS
<1> DEFINE Z == {q[j] : j \in i..l}
<1>10. PICK X : X = Z
  OBVIOUS
<1>11. \A m : m \in X <=> \E j \in i..l : m = q[j]
  BY <1>10
<1>12. /\ q \in [1..l -> Nodes] /\ q[i] \in NeedsMap[q[l]] /\ l \in Nat /\ i \in 1..l
       /\ \A j \in 1..l : j < l => q[j + 1] \in NeedsMap[q[j]]
  BY <1>1, <1>5, <1>6, <1>7, <1>8, <1>9, Zenon
<1>13. \A j \in 1..l : q[j] \in Reached
  BY <1>4, <1>8, <1>9
<1> HIDE DEF k, p, Z
<1>14. Cyclic(NeedsMap, X)
  <2>1. PICK N : N = NeedsMap
    OBVIOUS
  <2>2. PICK S : S = Nodes
    OBVIOUS
  <2>3. N \in [S -> SUBSET S] /\ q \in [1..l -> S] /\ q[i] \in N[q[l]] /\ l \in Nat /\ i \in 1..l
    BY <1>2, <1>12, <2>1, <2>2
  <2>4. \A j \in 1..l : j < l => q[j + 1] \in N[q[j]]
    BY <1>12, <2>1
  <2>5. Cyclic(N, X)
    BY <1>11, <2>3, <2>4, PathCycles
  <2> QED
    BY <2>1, <2>5
<1>15. \A m \in X : m \in Reached
  <2> SUFFICES ASSUME NEW m \in X PROVE m \in Reached
    OBVIOUS
  <2>1. PICK j \in i..l : m = q[j]
    BY <1>11
  <2>2. j \in 1..l
    BY <1>12
  <2> QED
    BY <1>13, <2>1, <2>2
<1> QED
  BY <1>3, <1>14, <1>15

LEMMA NeedKeeps ==
  ASSUME ContainerInv, ResolveNeed
  PROVE  ContainerInv'
<1>0. ContainerTypeOK /\ calls # <<>> /\ UNCHANGED <<registry, registered, asked, known>>
  BY DEF ContainerInv, ResolveNeed, Quiet
<1> DEFINE k == Len(calls)
<1>1. PICK d \in Last(calls).left :
        Enter(Node(Last(calls).owner, d), [calls EXCEPT ![Len(calls)].left = @ \ {d}])
  BY DEF ResolveNeed
<1>2. PICK n : n = Node(Last(calls).owner, d)
  OBVIOUS
<1>3. PICK below : below = Below(d)
  OBVIOUS
<1>4. Enter(n, below)
  BY <1>1, <1>2, <1>3, Zenon DEF Below
<1>5. /\ Proper(n) /\ n \in Needs(NodeOf(Last(calls))) /\ n \in Reached
      /\ Last(calls).owner \in Owners /\ d \in Services
      /\ asked \in Nodes /\ Reached \subseteq Nodes
  BY <1>0, <1>2, NeedHolds
<1>6. /\ below \in Seq(Call) /\ Len(below) = k /\ k \in Nat \ {0}
      /\ Last(calls) = calls[k] /\ Last(calls) \in Call
      /\ \A i \in 1..k : i < k => below[i] = calls[i]
      /\ below[k].left = Last(calls).left \ {d}
      /\ \A i \in 1..k : NodeOf(below[i]) = NodeOf(calls[i])
                         /\ below[i].owner = calls[i].owner /\ below[i].service = calls[i].service
  BY <1>0, <1>3, NextNeed
<1>7. n \in Nodes /\ n[1] \in Owners /\ n[2] \in Services /\ n = <<n[1], n[2]>>
  BY <1>5 DEF Proper, Nodes
<1>8. /\ NeedsMap' = NeedsMap /\ Registered' = Registered /\ Buildable' = Buildable
      /\ Reached' = Reached /\ Reached = ReachedFrom(Nodes, NeedsMap, asked)
  BY <1>0, <1>5, GraphStays, ReachedIs
<1>9. asked' \in Nodes /\ known' \in SUBSET Nodes
  BY <1>0, <1>5 DEF ContainerTypeOK
(* The calls below the one that is entered: what they are past can be built, *)
(* or is n.                                                                   *)
<1>10. ASSUME NEW s, NEW i \in 1..k, s[i] = below[i], i < k => s[i + 1] = below[i + 1],
              Len(s) \in Nat, Len(s) >= k,
              i = k => n \in Buildable \/ (k < Len(s) /\ n = NodeOf(s[k + 1])),
              i = k /\ k < Len(s) => n = NodeOf(s[k + 1])
       PROVE  CallHolds(s, i)
  <2>1. CallHolds(calls, i)
    BY <1>6 DEF ContainerInv, PathHolds
  <2>2. CASE i < k
    <3>1. s[i] = calls[i] /\ i < Len(s) /\ i + 1 \in 1..k /\ NodeOf(s[i + 1]) = NodeOf(calls[i + 1])
      BY <1>6, <1>10, <2>2
    <3> QED
      BY <2>1, <2>2, <3>1 DEF CallHolds
  <2>3. CASE i = k
    <3>1. /\ NodeOf(s[i]) = NodeOf(calls[i]) /\ s[i].service = calls[i].service
          /\ s[i].owner = calls[i].owner /\ s[i].left = calls[i].left \ {d}
      BY <1>6, <1>10, <2>3
    <3>2. /\ Proper(NodeOf(calls[i])) /\ NodeOf(calls[i]) \in Reached \ known
          /\ NodeOf(calls[i]) \in Registered
          /\ calls[i].left \subseteq registry[calls[i].service].needs
          /\ \A e \in registry[calls[i].service].needs \ calls[i].left :
                Node(calls[i].owner, e) \in Buildable
          /\ i = 1 => NodeOf(calls[i]) = asked
      BY <1>6, <2>1, <2>3 DEF CallHolds
    <3>3. \A e \in registry[calls[i].service].needs \ s[i].left :
             Node(calls[i].owner, e) \in Buildable \/ Node(calls[i].owner, e) = n
      BY <1>2, <1>6, <2>3, <3>1, <3>2
    <3>4. i < Len(s) => NodeOf(s[i + 1]) \in Needs(NodeOf(s[i]))
      BY <1>5, <1>6, <1>10, <2>3, <3>1
    <3>5. \A e \in registry[s[i].service].needs \ s[i].left :
             \/ Node(s[i].owner, e) \in Buildable
             \/ i < Len(s) /\ Node(s[i].owner, e) = NodeOf(s[i + 1])
      BY <1>10, <2>3, <3>1, <3>3
    <3> QED
      BY <3>1, <3>2, <3>4, <3>5 DEF CallHolds
  <2> QED
    BY <1>6, <2>2, <2>3
<1>11. CASE registry[n[2]] = Unregistered
  <2>1. Fail("missing")
    BY <1>4, <1>11 DEF Enter
  <2>2. n \notin Registered
    BY <1>11 DEF Registered
  <2>3. Says("missing", asked', NeedsMap', Registered')
    BY <1>0, <1>5, <1>8, <2>2 DEF Says
  <2> QED
    BY <1>0, <1>9, <2>1, <2>3, FailKeeps
<1>12. CASE registry[n[2]] # Unregistered /\ Cached(n)
  <2>1. calls' = below /\ UNCHANGED <<resolving, singletons, scoped>> /\ verdict' = "none"
    BY <1>4, <1>6, <1>12 DEF Enter
  <2>2. ContainerTypeOK'
    BY <1>0, <1>6, <1>9, <2>1 DEF ContainerTypeOK, Call
  <2>3. n \in Buildable
    BY <1>0, <1>5, <1>7, <1>12 DEF ContainerInv, CachesHold
  <2>4. PathHolds'
    <3>1. \A i \in 1..Len(calls') : CallHolds(calls', i)
      <4> SUFFICES ASSUME NEW i \in 1..k PROVE CallHolds(below, i)
        BY <1>6, <2>1
      <4> QED
        BY <1>6, <1>10, <2>3
    <3> QED
      BY <1>0, <3>1, CallsStay
  <2>5. StacksHold'
    BY <1>6, <2>1 DEF ContainerInv, StacksHold
  <2>6. CachesHold'
    BY <1>0, <1>8, <2>1 DEF ContainerInv, CachesHold, Cached, Proper, Node
  <2>7. VerdictHolds'
    BY <2>1 DEF VerdictHolds
  <2> QED
    BY <2>2, <2>4, <2>5, <2>6, <2>7 DEF ContainerInv
<1>13. CASE /\ registry[n[2]] # Unregistered /\ ~Cached(n)
            /\ n[2] \in resolving[n[1]]
  <2>1. Fail("circular")
    BY <1>4, <1>13 DEF Enter
  <2>2. PICK i \in 1..Len(calls) : NodeOf(calls[i]) = n
    BY <1>7, <1>13 DEF ContainerInv, StacksHold
  <2>3. \E X \in SUBSET ReachedFrom(Nodes, NeedsMap, asked) : Cyclic(NeedsMap, X)
    BY <1>0, <1>5, <2>2, CircularIsCyclic
  <2>4. Says("circular", asked', NeedsMap', Registered')
    BY <1>0, <1>8, <2>3 DEF Says
  <2> QED
    BY <1>0, <1>9, <2>1, <2>4, FailKeeps
<1>14. CASE /\ registry[n[2]] # Unregistered /\ ~Cached(n)
            /\ n[2] \notin resolving[n[1]]
  <2> DEFINE c == [owner |-> n[1], service |-> n[2], left |-> registry[n[2]].needs]
  <2>1. /\ calls' = Append(below, c) /\ verdict' = "none" /\ UNCHANGED <<singletons, scoped>>
        /\ resolving' = [resolving EXCEPT ![n[1]] = @ \union {n[2]}]
    BY <1>4, <1>14 DEF Enter
  <2>2. c \in Call
    BY <1>0, <1>7 DEF Call, ContainerTypeOK
  <2>3. /\ calls' \in Seq(Call) /\ Len(calls') = k + 1 /\ calls'[k + 1] = c
        /\ \A i \in 1..k : calls'[i] = below[i]
    BY <1>6, <2>1, <2>2
  <2>4. NodeOf(c) = n
    BY <1>7 DEF NodeOf
  <2>5. ContainerTypeOK'
    <3>1. resolving' \in [Owners -> SUBSET Services]
      BY <1>0, <1>7, <2>1 DEF ContainerTypeOK
    <3> QED
      BY <1>0, <1>9, <2>1, <2>3, <3>1 DEF ContainerTypeOK, Call
  <2>6. PathHolds'
    <3>1. ASSUME NEW i \in 1..k PROVE CallHolds(calls', i)
      <4>1. /\ calls'[i] = below[i] /\ (i < k => calls'[i + 1] = below[i + 1])
            /\ Len(calls') \in Nat /\ Len(calls') >= k /\ k < Len(calls') /\ n = NodeOf(calls'[k + 1])
        BY <1>6, <2>3, <2>4
      <4> QED
        BY <1>10, <4>1
    <3>2. CallHolds(calls', k + 1)
      <4>1. n \notin known
        BY <1>0, <1>14 DEF ContainerInv, CachesHold
      <4>2. n \in Registered
        BY <1>7, <1>14 DEF Registered
      <4>3. /\ NodeOf(calls'[k + 1]) = n /\ ~(k + 1 < Len(calls')) /\ k + 1 # 1
            /\ calls'[k + 1].left = registry[calls'[k + 1].service].needs
        BY <1>6, <2>3, <2>4
      <4> HIDE DEF c
      <4> QED
        BY <1>5, <4>1, <4>2, <4>3 DEF CallHolds
    <3>3. \A i \in 1..Len(calls') : i \in 1..k \/ i = k + 1
      BY <1>6, <2>3
    <3> QED
      BY <1>0, <3>1, <3>2, <3>3, CallsStay
  <2>7. StacksHold'
    <3> SUFFICES ASSUME NEW p \in Owners, NEW t \in resolving'[p]
                 PROVE  \E i \in 1..Len(calls') : NodeOf(calls'[i]) = <<p, t>>
      BY DEF StacksHold
    <3>1. t \in resolving[p] \/ <<p, t>> = n
      BY <1>0, <1>7, <2>1 DEF ContainerTypeOK
    <3>2. CASE t \in resolving[p]
      <4>1. PICK i \in 1..k : NodeOf(calls[i]) = <<p, t>>
        BY <3>2 DEF ContainerInv, StacksHold
      <4>2. i \in 1..Len(calls') /\ NodeOf(calls'[i]) = <<p, t>>
        BY <1>6, <2>3, <4>1
      <4> QED
        BY <4>2
    <3>3. CASE <<p, t>> = n
      <4>1. k + 1 \in 1..Len(calls') /\ NodeOf(calls'[k + 1]) = n
        BY <1>6, <2>3, <2>4
      <4> QED
        BY <3>3, <4>1
    <3> QED
      BY <3>1, <3>2, <3>3
  <2>8. CachesHold'
    BY <1>0, <1>8, <2>1 DEF ContainerInv, CachesHold, Cached, Proper, Node
  <2>9. VerdictHolds'
    BY <2>1 DEF VerdictHolds
  <2> QED
    BY <2>5, <2>6, <2>7, <2>8, <2>9 DEF ContainerInv
<1> QED
  BY <1>11, <1>12, <1>13, <1>14

LEMMA FrontOfCalls ==
  ASSUME ContainerTypeOK, calls # <<>>
  PROVE  /\ Front(calls) \in Seq(Call) /\ Len(Front(calls)) = Len(calls) - 1
         /\ \A i \in 1..Len(calls) : i < Len(calls) => Front(calls)[i] = calls[i]
<1>1. calls \in Seq(Call) /\ Len(calls) \in Nat \ {0}
  BY LastCall
<1>2. PICK n \in Int : n = Len(calls) - 1
  BY <1>1
<1>3. n \in Nat /\ n < Len(calls) /\ Len(calls) = n + 1
  BY <1>1, <1>2
<1>4. Front(calls) = SubSeq(calls, 1, n)
  BY <1>2 DEF Front
<1>5. \A i \in 1..n : calls[i] \in Call
  BY <1>1, <1>3
<1>6. /\ SubSeq(calls, 1, n) \in Seq(Call)
      /\ Len(SubSeq(calls, 1, n)) = IF 1 <= n THEN n - 1 + 1 ELSE 0
      /\ \A i \in 1..n - 1 + 1 : SubSeq(calls, 1, n)[i] = calls[1 + i - 1]
  BY <1>5, SubSeqProperties
<1>7. \A i \in 1..n : SubSeq(calls, 1, n)[i] = calls[i]
  BY <1>3, <1>6
<1> QED
  BY <1>1, <1>3, <1>4, <1>6, <1>7

(* All that the innermost call needs was resolved: its service can be built. *)
LEMMA LastIsBuildable ==
  ASSUME ContainerInv, calls # <<>>, Last(calls).left = {}
  PROVE  NodeOf(Last(calls)) \in Buildable /\ Proper(NodeOf(Last(calls)))
<1> DEFINE k == Len(calls)
<1>1. PICK c \in Call : c = Last(calls)
  BY LastCall DEF ContainerInv
<1>2. CallHolds(calls, k) /\ c = calls[k] /\ ~(k < Len(calls)) /\ c.left = {}
  BY <1>1, LastCall DEF ContainerInv, PathHolds
<1>3. PICK m \in Nodes : m = NodeOf(c) /\ m \notin known /\ m \in Registered /\ Proper(m)
  BY <1>2 DEF CallHolds, Proper
<1>4. \A d \in registry[c.service].needs : Node(c.owner, d) \in Buildable
  BY <1>2 DEF CallHolds
<1>5. m[1] = c.owner /\ m[2] = c.service
  BY <1>3 DEF NodeOf
<1>6. Needs(m) \subseteq Buildable
  BY <1>3, <1>4, <1>5 DEF Needs
<1>7. NeedsMap[m] \subseteq BuiltFrom(Nodes, NeedsMap, Registered)
  BY <1>6 DEF NeedsMap, Buildable
<1>8. m \in BuiltFrom(Nodes, NeedsMap, Registered)
  BY <1>3, <1>7, NeedsTyped, BuiltCloses DEF ContainerInv
<1> QED
  BY <1>1, <1>3, <1>8 DEF Buildable

LEMMA ConstructKeeps ==
  ASSUME ContainerInv, Construct
  PROVE  ContainerInv'
<1>0. /\ ContainerTypeOK /\ calls # <<>> /\ UNCHANGED <<registry, registered, asked, known>>
      /\ Last(calls).left = {}
  BY DEF ContainerInv, Construct, Quiet
<1>1. PICK k \in Nat \ {0} : k = Len(calls)
  BY <1>0, LastCall
<1>2. PICK c \in Call : c = Last(calls) /\ c = calls[k]
  BY <1>0, <1>1, LastCall
<1>3. PICK m : m = NodeOf(c) /\ m \in Buildable /\ Proper(m)
  BY <1>0, <1>2, LastIsBuildable
<1>4. /\ m \in Nodes /\ m[1] = c.owner /\ m[2] = c.service
      /\ c.owner \in Owners /\ c.service \in Services
  BY <1>2, <1>3 DEF NodeOf, Proper, Call
<1>5. /\ NeedsMap' = NeedsMap /\ Registered' = Registered /\ Buildable' = Buildable
      /\ asked' \in Nodes /\ known' \in SUBSET Nodes /\ asked \in Nodes
  BY <1>0, GraphStays DEF ContainerInv, CachesHold, ContainerTypeOK
<1>6. CASE Fail("raised")
  <2>1. Says("raised", asked', NeedsMap', Registered')
    BY DEF Says
  <2> QED
    BY <1>0, <1>5, <1>6, <2>1, FailKeeps
<1>7. CASE ~Fail("raised")
  <2>1. /\ calls' = Front(calls) /\ verdict' = IF k = 1 THEN "resolved" ELSE "none"
        /\ resolving' = [resolving EXCEPT ![c.owner] = @ \ {c.service}]
        /\ singletons' = IF registry[c.service].lifetime = "singleton"
                         THEN singletons \union {c.service} ELSE singletons
        /\ scoped' = IF registry[c.service].lifetime = "scoped" /\ c.owner = "scope"
                     THEN scoped \union {c.service} ELSE scoped
    BY <1>1, <1>2, <1>7 DEF Construct
  <2>2. /\ calls' \in Seq(Call) /\ Len(calls') = k - 1
        /\ \A i \in 1..k : i < k => calls'[i] = calls[i]
    BY <1>0, <1>1, <2>1, FrontOfCalls
  <2>3. ContainerTypeOK'
    <3>1. resolving' \in [Owners -> SUBSET Services]
      BY <1>0, <2>1 DEF ContainerTypeOK
    <3>2. singletons' \in SUBSET Services /\ scoped' \in SUBSET Services
      BY <1>0, <1>4, <2>1 DEF ContainerTypeOK
    <3>3. verdict' \in {"none", "resolved", "missing", "circular", "raised"}
      BY <2>1
    <3> QED
      BY <1>0, <1>5, <2>2, <3>1, <3>2, <3>3 DEF ContainerTypeOK, Call
  <2>4. PathHolds'
    <3>1. ASSUME NEW i \in 1..Len(calls') PROVE CallHolds(calls', i)
      <4>1. i \in 1..k /\ i < k /\ calls'[i] = calls[i] /\ i < Len(calls)
        BY <1>1, <2>2
      <4>2. CallHolds(calls, i)
        BY <1>1, <4>1 DEF ContainerInv, PathHolds
      <4>3. CASE i < k - 1
        <5>1. i < Len(calls') /\ calls'[i + 1] = calls[i + 1]
          BY <1>1, <2>2, <4>1, <4>3
        <5> QED
          BY <4>1, <4>2, <5>1 DEF CallHolds
      <4>4. CASE i = k - 1
        <5>1. ~(i < Len(calls')) /\ i + 1 = k
          BY <1>1, <2>2, <4>1, <4>4
        <5>2. NodeOf(calls[i + 1]) = m
          BY <1>2, <1>3, <5>1
        <5> QED
          BY <1>3, <4>1, <4>2, <5>1, <5>2 DEF CallHolds
      <4> QED
        BY <1>1, <4>1, <4>3, <4>4
    <3> QED
      BY <1>0, <3>1, CallsStay
  <2>5. StacksHold'
    <3> SUFFICES ASSUME NEW p \in Owners, NEW t \in resolving'[p]
                 PROVE  \E i \in 1..Len(calls') : NodeOf(calls'[i]) = <<p, t>>
      BY DEF StacksHold
    <3>1. t \in resolving[p] /\ <<p, t>> # m
      BY <1>0, <1>4, <2>1 DEF ContainerTypeOK
    <3>2. PICK i \in 1..Len(calls) : NodeOf(calls[i]) = <<p, t>>
      BY <3>1 DEF ContainerInv, StacksHold
    <3>3. i \in 1..k /\ i # k
      BY <1>1, <1>2, <1>3, <3>1, <3>2
    <3>4. i < k /\ i \in 1..Len(calls')
      BY <1>1, <2>2, <3>3
    <3> QED
      BY <2>2, <3>2, <3>3, <3>4
  <2>6. ASSUME NEW n \in Nodes, Proper(n), Cached(n)' PROVE Cached(n) \/ n = m
    <3>1. n = <<n[1], n[2]>> /\ m = <<m[1], m[2]>>
      BY <1>4 DEF Nodes
    <3>2. Node(n[1], n[2]) = n /\ Node(m[1], m[2]) = m
      BY <1>3, <2>6 DEF Proper
    <3>3. registry[n[2]].lifetime = "singleton" => n[1] = "container"
      BY <3>1, <3>2 DEF Node
    <3>4. registry[m[2]].lifetime = "singleton" => m[1] = "container"
      BY <3>1, <3>2 DEF Node
    <3> QED
      BY <1>0, <1>4, <2>1, <2>6, <3>1, <3>3, <3>4 DEF Cached
  <2>7. CachesHold'
    <3> SUFFICES ASSUME calls' # <<>>
                 PROVE  /\ \A n \in known' : Cached(n)'
                        /\ \A n \in Nodes : Proper(n)' /\ Cached(n)' => n \in Buildable'
                        /\ asked' \in Nodes /\ verdict' = "none"
      BY DEF CachesHold
    <3>1. k # 1
      BY <1>1, <2>2, EmptySeq
    <3>2. \A n : Cached(n) => Cached(n)'
      BY <1>0, <2>1 DEF Cached
    <3>3. \A n \in known' : Cached(n)'
      BY <1>0, <3>2 DEF ContainerInv, CachesHold
    <3>4. \A n : Proper(n)' <=> Proper(n)
      BY <1>0 DEF Proper, Node
    <3>5. \A n \in Nodes : Proper(n)' /\ Cached(n)' => n \in Buildable'
      BY <1>0, <1>3, <1>5, <2>6, <3>4 DEF ContainerInv, CachesHold
    <3> QED
      BY <1>5, <2>1, <3>1, <3>3, <3>5
  <2>8. VerdictHolds'
    <3> SUFFICES ASSUME verdict' # "none" PROVE Says(verdict', asked', NeedsMap', Registered')
      BY <1>5 DEF VerdictHolds
    <3>1. k = 1 /\ verdict' = "resolved"
      BY <2>1
    <3>2. CallHolds(calls, 1) /\ NodeOf(calls[1]) = m
      BY <1>1, <1>2, <1>3, <3>1 DEF ContainerInv, PathHolds
    <3>3. asked \in BuiltFrom(Nodes, NeedsMap, Registered)
      BY <1>3, <3>2 DEF CallHolds, Buildable
    <3> QED
      BY <1>0, <1>5, <3>1, <3>3 DEF Says
  <2> QED
    BY <2>3, <2>4, <2>5, <2>7, <2>8 DEF ContainerInv
<1> QED
  BY <1>6, <1>7

LEMMA ContainerStep == ContainerInv /\ [ContainerNext]_container => ContainerInv'
<1> SUFFICES ASSUME ContainerInv, [ContainerNext]_container PROVE ContainerInv'
  OBVIOUS
<1>1. CASE Register \/ RegisterInstance \/ CloseScope
  BY <1>1, RegisterKeeps
<1>2. CASE Resolve
  BY <1>2, ResolveKeeps
<1>3. CASE ResolveNeed
  BY <1>3, NeedKeeps
<1>4. CASE Construct
  BY <1>4, ConstructKeeps
<1>5. CASE UNCHANGED container
  <2>1. UNCHANGED <<registry, registered, singletons, scoped, resolving, calls, asked, known, verdict>>
    BY <1>5 DEF container
  <2>2. ContainerTypeOK'
    BY <2>1 DEF ContainerInv, ContainerTypeOK
  <2>3. NeedsMap' = NeedsMap /\ Registered' = Registered /\ Buildable' = Buildable
    BY <2>1, GraphStays
  <2>4. PathHolds'
    BY <2>1, CallsStay DEF ContainerInv, PathHolds
  <2>5. StacksHold' /\ VerdictHolds'
    BY <2>1, <2>3 DEF ContainerInv, StacksHold, VerdictHolds
  <2>6. CachesHold'
    BY <2>1, <2>3 DEF ContainerInv, CachesHold, Cached, Proper, Node
  <2> QED
    BY <2>2, <2>4, <2>5, <2>6 DEF ContainerInv
<1> QED
  BY <1>1, <1>2, <1>3, <1>4, <1>5 DEF ContainerNext

-----------------------------------------------------------------------------
(* The container, its scope and a resolution keep to their types.            *)
THEOREM ContainerTypeCorrect == ContainerSpec => []ContainerTypeOK
<1>1. ContainerInv => ContainerTypeOK
  BY DEF ContainerInv
<1> QED
  BY <1>1, ContainerStarts, ContainerStep, PTL DEF ContainerSpec

(* However many services are registered, again and again, resolved, dropped    *)
(* with their scope, and given up half-way: a resolution that succeeds has     *)
(* built a graph without cycles and without holes, one that reports a missing  *)
(* service or a cycle is right (KernelContainer.resolve, KernelScope.resolve). *)
THEOREM ResolutionsTellTheGraph == ContainerSpec => []CycleIffCyclic
BY VerdictIsTrue, ContainerStarts, ContainerStep, PTL DEF ContainerSpec
=============================================================================
