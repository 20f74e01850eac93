------------------------ MODULE WorkflowEngineProofs ------------------------
(***************************************************************************)
(* Proofs about WorkflowEngine and the two modules it is made of: events   *)
(* reach their handlers in order, resources are exited in reverse, and a   *)
(* run announces one outcome, which a cancellation never lets be           *)
(* "completed".                                                            *)
(***************************************************************************)
EXTENDS WorkflowEngine, SequenceTheorems, WellFoundedInduction, TLAPS

-----------------------------------------------------------------------------
(* The event bus. *)

(* The position of a dispatch is in its list, and who publishes nothing has *)
(* called nobody.                                                           *)
DispatchHolds ==
  \A p \in Publishers :
    /\ ~Publishing(p) => invoked[p] = <<>> /\ p \notin disturbed
    /\ Publishing(p) /\ p \notin disturbed =>
         dispatch[p].next <= Len(handlers[dispatch[p].type]) + 1

BusInv == BusTypeOK /\ DispatchHolds /\ InRegistrationOrder

LEMMA LeastOf ==
  ASSUME NEW S, S \subseteq Nat, S # {}
  PROVE  Min(S) \in S /\ \A y \in S : Min(S) <= y
<1>1. IsWellFoundedOn(OpToRel(<, Nat), Nat)
  BY NatLessThanWellFounded
<1>2. PICK x \in S : \A y \in S : ~(<<y, x>> \in OpToRel(<, Nat))
  BY <1>1, WFMin, Zenon
<1>3. \A y \in S : x <= y
  <2>1. SUFFICES ASSUME NEW y \in S, y < x PROVE FALSE
    OBVIOUS
  <2>2. <<y, x>> \in OpToRel(<, Nat)
    BY <2>1 DEF OpToRel
  <2> QED
    BY <1>2, <2>2
<1> QED
  BY <1>3 DEF Min

(* list.remove leaves a list. *)
LEMMA RemoveFirstType ==
  ASSUME NEW S, NEW s \in Seq(S), NEW e
  PROVE  RemoveFirst(s, e) \in Seq(S)
<1> DEFINE I == {i \in 1..Len(s) : s[i] = e}
<1>1. CASE \E i \in 1..Len(s) : s[i] = e
  <2>1. I # {} /\ I \subseteq Nat
    BY <1>1
  <2>2. Min(I) \in 1..Len(s)
    BY <2>1, LeastOf
  <2>3. RemoveFirst(s, e) = SubSeq(s, 1, Min(I) - 1) \o SubSeq(s, Min(I) + 1, Len(s))
    BY <1>1, <2>1 DEF RemoveFirst, RemoveAt, SelectInSeq
  <2>4. PICK n \in 1..Len(s) : n = Min(I)
    BY <2>2
  <2>5. SubSeq(s, 1, n - 1) \in Seq(S) /\ SubSeq(s, n + 1, Len(s)) \in Seq(S)
    OBVIOUS
  <2> QED
    BY <2>3, <2>4, <2>5
<1>2. CASE ~\E i \in 1..Len(s) : s[i] = e
  BY <1>2 DEF RemoveFirst
<1> QED
  BY <1>1, <1>2

LEMMA BusStarts == BusInit => BusInv
<1> SUFFICES ASSUME BusInit PROVE BusInv
  OBVIOUS
<1>1. BusTypeOK
  BY DEF BusInit, BusTypeOK, NoEvent
<1>2. \A p \in Publishers : ~Publishing(p) /\ invoked[p] = <<>> /\ p \notin disturbed
  BY DEF BusInit, Publishing, NoEvent
<1> QED
  BY <1>1, <1>2 DEF BusInv, DispatchHolds, InRegistrationOrder

LEMMA BusStutters ==
  ASSUME BusInv, UNCHANGED bus
  PROVE  BusInv'
<1>1. BusTypeOK'
  BY DEF BusInv, BusTypeOK, bus
<1>2. \A p : Publishing(p)' <=> Publishing(p)
  BY DEF bus, Publishing
<1> QED
  BY <1>1, <1>2 DEF BusInv, DispatchHolds, InRegistrationOrder, bus

LEMMA SubscribeKeeps ==
  ASSUME BusInv, NEW t \in EventTypes, NEW h \in Handlers, Subscribe(t, h)
  PROVE  BusInv'
<1> USE DEF BusInv
<1>1. handlers' \in [EventTypes -> Seq(Handlers)]
  BY DEF Subscribe, BusTypeOK
<1>2. BusTypeOK'
  BY <1>1 DEF Subscribe, BusTypeOK
<1>3. SUFFICES ASSUME NEW p \in Publishers, Publishing(p), p \notin disturbed
               PROVE  /\ dispatch[p].next <= Len(handlers'[dispatch[p].type]) + 1
                      /\ invoked[p] = SubSeq(handlers'[dispatch[p].type], 1, dispatch[p].next - 1)
  BY <1>2 DEF Subscribe, DispatchHolds, InRegistrationOrder, Publishing
<1>4. PICK u \in EventTypes : u = dispatch[p].type
  BY <1>3 DEF BusTypeOK, Publishing
<1>5. PICK n \in Nat \ {0} : n = dispatch[p].next
  BY DEF BusTypeOK
<1>6. PICK s \in Seq(Handlers) : s = handlers[u]
  BY DEF BusTypeOK
<1>7. n <= Len(s) + 1 /\ invoked[p] = SubSeq(s, 1, n - 1)
  BY <1>3, <1>4, <1>5, <1>6 DEF DispatchHolds, InRegistrationOrder
<1>8. handlers'[u] = s \/ handlers'[u] = Append(s, h)
  BY <1>4, <1>6 DEF Subscribe, BusTypeOK
<1>9. Len(Append(s, h)) = Len(s) + 1 /\ SubSeq(Append(s, h), 1, n - 1) = SubSeq(s, 1, n - 1)
  BY <1>7
<1> QED
  BY <1>4, <1>5, <1>7, <1>8, <1>9, SMTT(30)

LEMMA UnsubscribeKeeps ==
  ASSUME BusInv, NEW t \in EventTypes, NEW h \in Handlers, Contains(handlers[t], h),
         Unsubscribe(t, h)
  PROVE  BusInv'
<1> USE DEF BusInv
<1>1. handlers' \in [EventTypes -> Seq(Handlers)]
  BY RemoveFirstType DEF Unsubscribe, BusTypeOK
<1>2. disturbed' = disturbed \union {p \in Publishers : dispatch[p].type = t}
  BY DEF Unsubscribe
<1>3. BusTypeOK'
  BY <1>1, <1>2 DEF Unsubscribe, BusTypeOK
<1>4. \A p \in Publishers : dispatch[p].type # t /\ Publishing(p) =>
        handlers'[dispatch[p].type] = handlers[dispatch[p].type]
  BY DEF Unsubscribe, BusTypeOK, Publishing
<1>5. \A p \in Publishers : (Publishing(p)' <=> Publishing(p)) /\ (dispatch[p].type = t => Publishing(p))
  BY EngineAssumption DEF Unsubscribe, Publishing
<1>6. DispatchHolds'
  BY <1>2, <1>4, <1>5 DEF Unsubscribe, DispatchHolds
<1>7. InRegistrationOrder'
  BY <1>2, <1>4, <1>5 DEF Unsubscribe, InRegistrationOrder
<1> QED
  BY <1>3, <1>6, <1>7

LEMMA PublishKeeps ==
  ASSUME BusInv, NEW p \in Publishers, NEW t \in EventTypes, ~Publishing(p), Publish(p, t)
  PROVE  BusInv' /\ Publishing(p)' /\ \A q \in Publishers \ {p} : Publishing(q)' <=> Publishing(q)
<1> USE DEF BusInv
<1>1. dispatch' \in [Publishers -> [type : EventTypes \union {"none"}, next : Nat \ {0}]]
  BY DEF Publish, BusTypeOK
<1>2. BusTypeOK'
  BY <1>1 DEF Publish, BusTypeOK
<1>3. dispatch'[p] = [type |-> t, next |-> 1] /\ \A q \in Publishers \ {p} : dispatch'[q] = dispatch[q]
  BY DEF Publish, BusTypeOK
<1>4. Publishing(p)' /\ \A q \in Publishers \ {p} : Publishing(q)' <=> Publishing(q)
  BY <1>3, EngineAssumption DEF Publishing
<1>5. invoked[p] = <<>> /\ p \notin disturbed
  BY DEF DispatchHolds
<1>6. PICK s \in Seq(Handlers) : s = handlers[t]
  BY DEF BusTypeOK
<1>7. 1 <= Len(s) + 1 /\ SubSeq(s, 1, 0) = <<>>
  OBVIOUS
<1>8. DispatchHolds'
  <2>1. handlers' = handlers /\ invoked' = invoked /\ disturbed' = disturbed
    BY DEF Publish
  <2>2. SUFFICES ASSUME NEW q \in Publishers
                 PROVE  /\ ~Publishing(q)' => invoked[q] = <<>> /\ q \notin disturbed
                        /\ Publishing(q)' /\ q \notin disturbed =>
                             dispatch'[q].next <= Len(handlers[dispatch'[q].type]) + 1
    BY <2>1 DEF DispatchHolds
  <2>3. CASE q = p
    BY <1>3, <1>4, <1>6, <1>7, <2>3
  <2>4. CASE q # p
    BY <1>3, <1>4, <2>4 DEF DispatchHolds
  <2> QED
    BY <2>3, <2>4
<1>9. InRegistrationOrder'
  <2>1. handlers' = handlers /\ invoked' = invoked /\ disturbed' = disturbed
    BY DEF Publish
  <2>2. SUFFICES ASSUME NEW q \in Publishers, Publishing(q)', q \notin disturbed
                 PROVE  invoked[q] = SubSeq(handlers[dispatch'[q].type], 1, dispatch'[q].next - 1)
    BY <2>1 DEF InRegistrationOrder
  <2>3. CASE q = p
    <3>1. dispatch'[q].type = t /\ dispatch'[q].next - 1 = 0
      BY <1>3, <2>3
    <3> QED
      BY <1>5, <1>6, <1>7, <2>3, <3>1
  <2>4. CASE q # p
    BY <1>3, <1>4, <2>2, <2>4 DEF InRegistrationOrder
  <2> QED
    BY <2>3, <2>4
<1> QED
  BY <1>2, <1>4, <1>8, <1>9

LEMMA InvokeKeeps ==
  ASSUME BusInv, NEW p \in Publishers, Invoke(p)
  PROVE  BusInv' /\ \A q \in Publishers : Publishing(q)' <=> Publishing(q)
<1> USE DEF BusInv
<1>1. PICK u \in EventTypes : u = dispatch[p].type
  BY DEF Invoke, BusTypeOK, Publishing
<1>2. PICK n \in Nat \ {0} : n = dispatch[p].next
  BY DEF BusTypeOK
<1>3. PICK s \in Seq(Handlers) : s = handlers[u]
  BY DEF BusTypeOK
<1>4. n <= Len(s)
  BY <1>1, <1>2, <1>3 DEF Invoke, Dispatched
<1>5. dispatch'[p] = [type |-> u, next |-> n + 1] /\ \A q \in Publishers \ {p} : dispatch'[q] = dispatch[q]
  BY <1>1, <1>2 DEF Invoke, AfterHandler, BusTypeOK
<1>6. invoked'[p] = Append(invoked[p], s[n]) /\ \A q \in Publishers \ {p} : invoked'[q] = invoked[q]
  BY <1>1, <1>2, <1>3 DEF Invoke, BusTypeOK
<1>7. BusTypeOK'
  <2>0. dispatch' = [dispatch EXCEPT ![p].next = n + 1]
    BY <1>2, Zenon DEF Invoke, AfterHandler
  <2>1. dispatch' \in [Publishers -> [type : EventTypes \union {"none"}, next : Nat \ {0}]]
    <3>1. PICK r : r = [dispatch[p] EXCEPT !.next = n + 1]
      OBVIOUS
    <3>2. dispatch' = [dispatch EXCEPT ![p] = r]
      BY <2>0, <3>1, Zenon
    <3>3. r = dispatch'[p]
      BY <3>2 DEF BusTypeOK
    <3>4. r \in [type : EventTypes \union {"none"}, next : Nat \ {0}]
      BY <1>5, <3>3
    <3> QED
      BY <3>2, <3>4 DEF BusTypeOK
  <2>2. s[n] \in Handlers
    BY <1>4
  <2>3. invoked' \in [Publishers -> Seq(Handlers)]
    BY <1>1, <1>2, <1>3, <2>2 DEF Invoke, BusTypeOK
  <2> QED
    BY <2>1, <2>3 DEF Invoke, BusTypeOK
<1>8. \A q \in Publishers : Publishing(q)' <=> Publishing(q)
  BY <1>1, <1>5 DEF Publishing
<1>9. DispatchHolds'
  <2>1. handlers' = handlers /\ disturbed' = disturbed /\ Publishing(p)
    BY DEF Invoke
  <2>2. SUFFICES ASSUME NEW q \in Publishers
                 PROVE  /\ ~Publishing(q) => invoked'[q] = <<>> /\ q \notin disturbed
                        /\ Publishing(q) /\ q \notin disturbed =>
                             dispatch'[q].next <= Len(handlers[dispatch'[q].type]) + 1
    BY <1>8, <2>1 DEF DispatchHolds
  <2>3. CASE q = p
    BY <1>3, <1>4, <1>5, <2>1, <2>3
  <2>4. CASE q # p
    BY <1>5, <1>6, <2>4 DEF DispatchHolds
  <2> QED
    BY <2>3, <2>4
<1>10. Append(SubSeq(s, 1, n - 1), s[n]) = SubSeq(s, 1, n)
  BY <1>4
<1>11. InRegistrationOrder'
  <2>1. SUFFICES ASSUME NEW q \in Publishers, Publishing(q), q \notin disturbed
                 PROVE  invoked'[q] = SubSeq(handlers[dispatch'[q].type], 1, dispatch'[q].next - 1)
    BY <1>8 DEF Invoke, InRegistrationOrder
  <2>2. CASE q # p
    BY <1>5, <1>6, <2>1, <2>2 DEF InRegistrationOrder
  <2>3. CASE q = p
    <3>1. dispatch'[q].type = u /\ dispatch'[q].next - 1 = n
      BY <1>5, <2>3
    <3>2. invoked[p] = SubSeq(s, 1, n - 1)
      BY <1>1, <1>2, <1>3, <2>1, <2>3 DEF InRegistrationOrder
    <3> QED
      BY <1>3, <1>6, <1>10, <2>3, <3>1, <3>2
  <2> QED
    BY <2>2, <2>3
<1> QED
  BY <1>7, <1>8, <1>9, <1>11

LEMMA EndPublishKeeps ==
  ASSUME BusInv, NEW p \in Publishers, EndPublish(p)
  PROVE  BusInv' /\ ~Publishing(p)' /\ \A q \in Publishers \ {p} : Publishing(q)' <=> Publishing(q)
<1> USE DEF BusInv
<1>1. BusTypeOK'
  BY DEF EndPublish, BusTypeOK, NoEvent
<1>2. /\ dispatch'[p] = NoEvent /\ invoked'[p] = <<>> /\ p \notin disturbed'
      /\ \A q \in Publishers \ {p} : dispatch'[q] = dispatch[q] /\ invoked'[q] = invoked[q]
      /\ \A q \in Publishers \ {p} : q \in disturbed' <=> q \in disturbed
  BY DEF EndPublish, BusTypeOK
<1>3. ~Publishing(p)' /\ \A q \in Publishers \ {p} : Publishing(q)' <=> Publishing(q)
  BY <1>2 DEF Publishing, NoEvent
<1>4. DispatchHolds'
  BY <1>2, <1>3 DEF EndPublish, DispatchHolds
<1>5. InRegistrationOrder'
  BY <1>2, <1>3 DEF EndPublish, InRegistrationOrder
<1> QED
  BY <1>1, <1>3, <1>4, <1>5

-----------------------------------------------------------------------------
(* The resource manager. *)

Rising(s) == \A i, j \in 1..Len(s) : i < j => s[i] < s[j]
Falling(s) == \A i, j \in 1..Len(s) : i < j => s[i] > s[j]

(* The lists of an owner are in the order of entering, a cleanup's in the      *)
(* reverse, and between them they hold what is open and not forgotten.         *)
OwnerHolds(o) ==
  /\ Rising(cleanups[o]) /\ Falling(cleaning[o])
  /\ \A i \in 1..Len(cleanups[o]) : cleanups[o][i] <= entered[o]
  /\ open[o] \subseteq ToSet(cleanups[o]) \union ToSet(cleaning[o]) \union forgotten[o]

ResourcesInv == ResourcesTypeOK /\ \A o \in Owners : OwnerHolds(o)

(* What ExitsInReverse says of a step. *)
Orderly ==
  \A o \in Owners :
    /\ \A r \in open[o] \ open'[o] :
         \A q \in open'[o] \ (ToSet(cleanups[o]) \union forgotten[o]) : q < r
    /\ open'[o] \subseteq
         ToSet(cleanups'[o]) \union ToSet(cleaning'[o]) \union forgotten'[o]

LEMMA ResourcesStart == ResourcesInit => ResourcesInv
<1> SUFFICES ASSUME ResourcesInit PROVE ResourcesInv
  OBVIOUS
<1>1. 0 \in 0..MaxResources
  BY ResourcesAssumption
<1>2. ResourcesTypeOK
  BY <1>1 DEF ResourcesInit, ResourcesTypeOK
<1>3. \A o \in Owners : OwnerHolds(o)
  BY DEF ResourcesInit, OwnerHolds, Rising, Falling
<1> QED
  BY <1>2, <1>3 DEF ResourcesInv

LEMMA ResourcesAreNumbers == Resource \subseteq Nat
BY ResourcesAssumption DEF Resource

(* The elements of the sequences the manager makes. *)
LEMMA Elements ==
  ASSUME NEW S, NEW s \in Seq(S)
  PROVE  /\ ToSet(s) = {s[i] : i \in 1..Len(s)}
         /\ Reverse(s) \in Seq(S) /\ Len(Reverse(s)) = Len(s)
         /\ \A i \in 1..Len(s) : Reverse(s)[i] = s[Len(s) - i + 1]
         /\ ToSet(Reverse(s)) = ToSet(s)
         /\ s # <<>> => ToSet(s) = {Head(s)} \union ToSet(Tail(s))
<1>1. \A t \in Seq(S) : ToSet(t) = {t[i] : i \in 1..Len(t)}
  BY DEF ToSet
<1>3. Reverse(s) \in Seq(S) /\ Len(Reverse(s)) = Len(s)
      /\ \A i \in 1..Len(s) : Reverse(s)[i] = s[Len(s) - i + 1]
  <2>1. \A i \in 1..Len(s) : s[(Len(s) - i) + 1] \in S
    OBVIOUS
  <2>2. Reverse(s) \in [1..Len(s) -> S]
    BY <2>1 DEF Reverse
  <2> QED
    BY <2>2 DEF Reverse
<1>4. ToSet(Reverse(s)) = ToSet(s)
  <2>1. \A i \in 1..Len(s) : Len(s) - i + 1 \in 1..Len(s) /\ Reverse(s)[Len(s) - i + 1] = s[i]
    <3>1. TAKE i \in 1..Len(s)
    <3>2. PICK j \in 1..Len(s) : j = Len(s) - i + 1
      BY SMTT(30)
    <3>3. Len(s) - j + 1 = i
      BY <3>2
    <3> QED
      BY <1>3, <3>2, <3>3
  <2>2. \A i \in 1..Len(s) : Len(s) - i + 1 \in 1..Len(s) /\ Reverse(s)[i] = s[Len(s) - i + 1]
    BY <1>3
  <2>3. ToSet(s) = {s[i] : i \in 1..Len(s)} /\ ToSet(Reverse(s)) = {Reverse(s)[i] : i \in 1..Len(s)}
    BY <1>1, <1>3
  <2> QED
    BY <2>1, <2>2, <2>3
<1>5. s # <<>> => ToSet(s) = {Head(s)} \union ToSet(Tail(s))
  <2>1. SUFFICES ASSUME s # <<>> PROVE ToSet(s) = {Head(s)} \union ToSet(Tail(s))
    OBVIOUS
  <2>2. Tail(s) \in Seq(S) /\ Len(Tail(s)) = Len(s) - 1 /\ Len(s) \in Nat \ {0} /\ Head(s) = s[1]
        /\ \A i \in 1..Len(s) - 1 : Tail(s)[i] = s[i + 1]
    BY <2>1
  <2>3. \A i \in 1..Len(s) : i = 1 \/ (i - 1 \in 1..Len(s) - 1 /\ Tail(s)[i - 1] = s[i])
    BY <2>2
  <2>4. \A i \in 1..Len(s) - 1 : i + 1 \in 1..Len(s)
    BY <2>2
  <2>5. ToSet(s) = {s[i] : i \in 1..Len(s)} /\ ToSet(Tail(s)) = {Tail(s)[i] : i \in 1..Len(s) - 1}
    BY <1>1, <2>2
  <2>6. ToSet(s) \subseteq {Head(s)} \union ToSet(Tail(s))
    BY <2>2, <2>3, <2>5
  <2>7. ToSet(Tail(s)) \subseteq ToSet(s)
    BY <2>2, <2>4, <2>5
  <2>8. Head(s) \in ToSet(s)
    BY <2>2, <2>5
  <2> QED
    BY <2>6, <2>7, <2>8
<1> QED
  BY <1>1, <1>3, <1>4, <1>5

LEMMA Appended ==
  ASSUME NEW S, NEW s \in Seq(S), NEW e \in S
  PROVE  ToSet(Append(s, e)) = ToSet(s) \union {e}
<1>1. \A t \in Seq(S) : ToSet(t) = {t[i] : i \in 1..Len(t)}
  BY DEF ToSet
<1>2. Append(s, e) \in Seq(S) /\ Len(Append(s, e)) = Len(s) + 1 /\ Append(s, e)[Len(s) + 1] = e
      /\ \A i \in 1..Len(s) : Append(s, e)[i] = s[i]
  OBVIOUS
<1>3. 1..Len(s) + 1 = 1..Len(s) \union {Len(s) + 1}
  OBVIOUS
<1>4. ToSet(Append(s, e)) = {Append(s, e)[i] : i \in 1..Len(s) \union {Len(s) + 1}}
  BY <1>1, <1>2, <1>3
<1>5. ToSet(s) = {s[i] : i \in 1..Len(s)}
  BY <1>1
<1> QED
  BY <1>2, <1>4, <1>5

LEMMA ResourcesStutter ==
  ASSUME ResourcesInv, UNCHANGED resources
  PROVE  ResourcesInv'
BY DEF ResourcesInv, ResourcesTypeOK, OwnerHolds, resources

(* It is enough to look at the owner that moves. *)
LEMMA OtherOwners ==
  ASSUME ResourcesInv, NEW o \in Owners, ResourcesTypeOK', OwnerHolds(o)',
         \A r \in open[o] \ open'[o] :
           \A q \in open'[o] \ (ToSet(cleanups[o]) \union forgotten[o]) : q < r,
         \A p \in Owners \ {o} :
           /\ entered'[p] = entered[p] /\ open'[p] = open[p] /\ cleanups'[p] = cleanups[p]
           /\ cleaning'[p] = cleaning[p] /\ forgotten'[p] = forgotten[p]
  PROVE  ResourcesInv' /\ Orderly
<1>1. \A p \in Owners : OwnerHolds(p)'
  BY DEF ResourcesInv, OwnerHolds
<1>2. \A p \in Owners \ {o} : open[p] \ open'[p] = {}
  OBVIOUS
<1>3. Orderly
  BY <1>1, <1>2 DEF Orderly, OwnerHolds
<1> QED
  BY <1>1, <1>3 DEF ResourcesInv

LEMMA AcquireKeeps ==
  ASSUME ResourcesInv, NEW o \in Owners, Acquire(o)
  PROVE  ResourcesInv' /\ Orderly
<1> USE DEF ResourcesInv
<1>1. PICK n \in 0..MaxResources : n = entered[o]
  BY DEF ResourcesTypeOK
<1>2. n + 1 \in 0..MaxResources /\ n + 1 \in Resource
  BY <1>1, ResourcesAssumption DEF Acquire, Resource
<1>3. PICK s \in Seq(Resource) : s = cleanups[o]
  BY DEF ResourcesTypeOK
<1>4. entered' = [entered EXCEPT ![o] = n + 1] /\ entered'[o] = n + 1
  BY <1>1 DEF Acquire, ResourcesTypeOK
<1>5. cleanups' = [cleanups EXCEPT ![o] = Append(s, n + 1)] /\ cleanups'[o] = Append(s, n + 1)
  BY <1>3, <1>4 DEF Acquire, ResourcesTypeOK
<1>6. open' = [open EXCEPT ![o] = open[o] \union {n + 1}] /\ open'[o] = open[o] \union {n + 1}
  BY <1>4 DEF Acquire, ResourcesTypeOK
<1>7. ResourcesTypeOK'
  <2>1. entered' \in [Owners -> 0..MaxResources]
    BY <1>2, <1>4 DEF ResourcesTypeOK
  <2>2. Append(s, n + 1) \in Seq(Resource)
    BY <1>2
  <2>3. cleanups' \in [Owners -> Seq(Resource)]
    BY <1>5, <2>2 DEF ResourcesTypeOK
  <2>4. open' \in [Owners -> SUBSET Resource]
    BY <1>2, <1>6 DEF ResourcesTypeOK
  <2> QED
    BY <2>1, <2>3, <2>4 DEF Acquire, ResourcesTypeOK
<1>8. OwnerHolds(o)'
  <2>1. /\ Rising(s) /\ \A i \in 1..Len(s) : s[i] <= n /\ s[i] \in Nat
        /\ open[o] \subseteq ToSet(s) \union ToSet(cleaning[o]) \union forgotten[o]
        /\ Falling(cleaning[o])
    <3>1. \A i \in 1..Len(s) : s[i] \in Resource
      OBVIOUS
    <3> QED
      BY <1>1, <1>3, <3>1, ResourcesAreNumbers DEF OwnerHolds
  <2>2. Len(Append(s, n + 1)) = Len(s) + 1 /\ Append(s, n + 1)[Len(s) + 1] = n + 1
        /\ \A i \in 1..Len(s) : Append(s, n + 1)[i] = s[i]
    BY <1>2
  <2>3. Rising(Append(s, n + 1))
    BY <1>2, <2>1, <2>2 DEF Rising
  <2>4. \A i \in 1..Len(Append(s, n + 1)) : Append(s, n + 1)[i] <= n + 1
    BY <1>2, <2>1, <2>2
  <2>5. ToSet(Append(s, n + 1)) = ToSet(s) \union {n + 1}
    <3>1. PICK e \in Resource : e = n + 1
      BY <1>2
    <3>2. ToSet(Append(s, e)) = ToSet(s) \union {e}
      BY Appended, Zenon
    <3> QED
      BY <3>1, <3>2
  <2>6. cleaning' = cleaning /\ forgotten' = forgotten
    BY DEF Acquire
  <2> QED
    BY <1>4, <1>5, <1>6, <2>1, <2>3, <2>4, <2>5, <2>6 DEF OwnerHolds
<1>9. open[o] \ open'[o] = {}
  BY <1>6
<1>10. \A p \in Owners \ {o} :
         /\ entered'[p] = entered[p] /\ open'[p] = open[p] /\ cleanups'[p] = cleanups[p]
         /\ cleaning'[p] = cleaning[p] /\ forgotten'[p] = forgotten[p]
  BY <1>4, <1>5, <1>6 DEF Acquire, ResourcesTypeOK
<1> QED
  BY <1>7, <1>8, <1>9, <1>10, OtherOwners

LEMMA BeginCleanupKeeps ==
  ASSUME ResourcesInv, NEW o \in Owners, BeginCleanup(o)
  PROVE  ResourcesInv' /\ Orderly
<1> USE DEF ResourcesInv
<1>1. PICK s \in Seq(Resource) : s = cleanups[o]
  BY DEF ResourcesTypeOK
<1>2. s # <<>> /\ s[1] \in Resource
  BY <1>1 DEF BeginCleanup
<1>3. /\ Reverse(s) \in Seq(Resource) /\ Len(Reverse(s)) = Len(s) /\ ToSet(Reverse(s)) = ToSet(s)
      /\ \A i \in 1..Len(s) : Reverse(s)[i] = s[Len(s) - i + 1]
  BY <1>2, Elements
<1>4. cleaning' = [cleaning EXCEPT ![o] = Reverse(s)] /\ cleanups' = [cleanups EXCEPT ![o] = <<>>]
      /\ cleaning[o] = <<>> /\ UNCHANGED <<entered, open, forgotten>>
  BY <1>1 DEF BeginCleanup, CleanupOrder
<1>5. cleaning'[o] = Reverse(s) /\ cleanups'[o] = <<>>
  BY <1>4 DEF ResourcesTypeOK
<1>6. ResourcesTypeOK'
  BY <1>3, <1>4 DEF ResourcesTypeOK
<1>7. Rising(s) /\ open[o] \subseteq ToSet(s) \union ToSet(<<>>) \union forgotten[o]
  BY <1>1, <1>4 DEF OwnerHolds
<1>8. Falling(Reverse(s))
  <2>1. SUFFICES ASSUME NEW i \in 1..Len(s), NEW j \in 1..Len(s), i < j
                 PROVE  s[Len(s) - i + 1] > s[Len(s) - j + 1]
    BY <1>3 DEF Falling
  <2>2. /\ Len(s) - i + 1 \in 1..Len(s) /\ Len(s) - j + 1 \in 1..Len(s)
        /\ Len(s) - j + 1 < Len(s) - i + 1
    BY <2>1
  <2>3. s[Len(s) - i + 1] \in Nat /\ s[Len(s) - j + 1] \in Nat
    <3>1. s[Len(s) - i + 1] \in Resource /\ s[Len(s) - j + 1] \in Resource
      BY <2>2
    <3> QED
      BY <3>1, ResourcesAreNumbers
  <2>4. s[Len(s) - j + 1] < s[Len(s) - i + 1]
    BY <1>7, <2>2 DEF Rising
  <2> QED
    BY <2>3, <2>4
<1>9. OwnerHolds(o)'
  <2>1. ToSet(<<>>) = {} /\ Rising(<<>>)
    BY DEF ToSet, Rising
  <2> QED
    BY <1>3, <1>4, <1>5, <1>7, <1>8, <2>1 DEF OwnerHolds
<1>10. \A p \in Owners \ {o} :
         /\ entered'[p] = entered[p] /\ open'[p] = open[p] /\ cleanups'[p] = cleanups[p]
         /\ cleaning'[p] = cleaning[p] /\ forgotten'[p] = forgotten[p]
  BY <1>4 DEF ResourcesTypeOK
<1> QED
  BY <1>4, <1>6, <1>9, <1>10, OtherOwners

LEMMA ExitNextKeeps ==
  ASSUME ResourcesInv, NEW o \in Owners, ExitNext(o)
  PROVE  ResourcesInv' /\ Orderly
<1> USE DEF ResourcesInv
<1>1. PICK s \in Seq(Resource) : s = cleaning[o]
  BY DEF ResourcesTypeOK
<1>2. s # <<>> /\ s[1] \in Resource
  BY <1>1 DEF ExitNext
<1>3. cleaning' = [cleaning EXCEPT ![o] = Tail(s)] /\ open' = [open EXCEPT ![o] = open[o] \ {Head(s)}]
      /\ UNCHANGED <<entered, cleanups, forgotten>>
  BY <1>1 DEF ExitNext, AfterExit
<1>4. cleaning'[o] = Tail(s) /\ open'[o] = open[o] \ {Head(s)}
  BY <1>3 DEF ResourcesTypeOK
<1>5. /\ Tail(s) \in Seq(Resource) /\ Len(Tail(s)) = Len(s) - 1 /\ Head(s) = s[1] /\ Len(s) \in Nat \ {0}
      /\ \A i \in 1..Len(s) - 1 : Tail(s)[i] = s[i + 1]
  BY <1>2
<1>6. ResourcesTypeOK'
  BY <1>3, <1>5 DEF ResourcesTypeOK
<1>7. /\ Rising(cleanups[o]) /\ Falling(s) /\ \A i \in 1..Len(cleanups[o]) : cleanups[o][i] <= entered[o]
      /\ open[o] \subseteq ToSet(cleanups[o]) \union ToSet(s) \union forgotten[o]
  BY <1>1 DEF OwnerHolds
<1>8. Falling(Tail(s))
  BY <1>5, <1>7 DEF Falling
<1>9. ToSet(s) = {Head(s)} \union ToSet(Tail(s))
  BY <1>2, Elements
<1>10. OwnerHolds(o)'
  BY <1>3, <1>4, <1>7, <1>8, <1>9 DEF OwnerHolds
<1>11. \A q \in ToSet(Tail(s)) : q < Head(s)
  <2>1. ToSet(Tail(s)) = {Tail(s)[i] : i \in 1..Len(s) - 1}
    BY <1>2, <1>5, Elements
  <2>2. \A i \in 1..Len(s) - 1 : s[i + 1] < s[1]
    <3>1. TAKE i \in 1..Len(s) - 1
    <3>2. 1 \in 1..Len(s) /\ i + 1 \in 1..Len(s) /\ 1 < i + 1
      BY <1>5
    <3>3. s[1] \in Nat /\ s[i + 1] \in Nat
      <4>1. s[1] \in Resource /\ s[i + 1] \in Resource
        BY <3>2
      <4> QED
        BY <4>1, ResourcesAreNumbers
    <3> QED
      BY <1>7, <3>2, <3>3 DEF Falling
  <2> QED
    BY <1>5, <2>1, <2>2
<1>12. \A r \in open[o] \ open'[o] :
         \A q \in open'[o] \ (ToSet(cleanups[o]) \union forgotten[o]) : q < r
  BY <1>4, <1>7, <1>9, <1>11
<1>13. \A p \in Owners \ {o} :
         /\ entered'[p] = entered[p] /\ open'[p] = open[p] /\ cleanups'[p] = cleanups[p]
         /\ cleaning'[p] = cleaning[p] /\ forgotten'[p] = forgotten[p]
  BY <1>3 DEF ResourcesTypeOK
<1> QED
  BY <1>6, <1>10, <1>12, <1>13, OtherOwners

LEMMA CancelCleanupKeeps ==
  ASSUME ResourcesInv, NEW o \in Owners, CancelCleanup(o)
  PROVE  ResourcesInv' /\ Orderly
<1> USE DEF ResourcesInv
<1>1. ToSet(cleaning[o]) \subseteq Resource
  BY DEF ToSet, ResourcesTypeOK
<1>2. /\ forgotten' = [forgotten EXCEPT ![o] = forgotten[o] \union ToSet(cleaning[o])]
      /\ cleaning' = [cleaning EXCEPT ![o] = <<>>] /\ UNCHANGED <<entered, open, cleanups>>
  BY DEF CancelCleanup
<1>3. forgotten'[o] = forgotten[o] \union ToSet(cleaning[o]) /\ cleaning'[o] = <<>>
  BY <1>2 DEF ResourcesTypeOK
<1>4. ResourcesTypeOK'
  BY <1>1, <1>2 DEF ResourcesTypeOK
<1>5. OwnerHolds(o)'
  <2>1. Falling(<<>>)
    BY DEF Falling
  <2> QED
    BY <1>2, <1>3, <2>1 DEF OwnerHolds
<1>6. \A p \in Owners \ {o} :
         /\ entered'[p] = entered[p] /\ open'[p] = open[p] /\ cleanups'[p] = cleanups[p]
         /\ cleaning'[p] = cleaning[p] /\ forgotten'[p] = forgotten[p]
  BY <1>2 DEF ResourcesTypeOK
<1> QED
  BY <1>2, <1>4, <1>5, <1>6, OtherOwners

-----------------------------------------------------------------------------
(* The engine. *)

Inside == {"starting", "executing", "unwinding", "backoff"}

RunTypeOK ==
  /\ pc \in [Runs -> Stage]
  /\ attempt \in [Runs -> Nat]
  /\ token \in [Runs -> BOOLEAN]
  /\ active \in SUBSET Runs
  /\ final \in [Runs -> Terminal \union {"none"}]
  /\ published \in [Runs -> Seq(EventTypes)]
  /\ shutdown \in {"idle", "waiting", "drained", "expired"}

(* What a run has announced is told by where it is. *)
Announced(w) ==
  /\ pc[w] = "new" => published[w] = <<>>
  /\ pc[w] \in Inside \union {"closing"} => published[w] = <<"started">>
  /\ pc[w] \in {"ending", "returned"} => published[w] = <<"started", final[w]>>
  /\ pc[w] = "interrupted" => published[w] \in {<<"started">>, <<"started", final[w]>>}

(* A run is tracked exactly while it is in the try block and has no outcome;  *)
(* only then can a cancellation reach its token, so an outcome "completed" is *)
(* out of its reach.                                                          *)
RunHolds(w) ==
  /\ w \in active <=> pc[w] \in Inside
  /\ final[w] = "none" <=> pc[w] \in Inside \union {"new"}
  /\ Publishing(w) <=> pc[w] \in {"starting", "ending"}
  /\ attempt[w] <= Allowed[w]
  /\ pc[w] \in {"new", "starting", "backoff"} => attempt[w] < Allowed[w]
  /\ token[w] => final[w] # "completed"
  /\ Announced(w)

RunInv == RunTypeOK /\ \A w \in Runs : RunHolds(w)

EngineInv == BusInv /\ ResourcesInv /\ RunInv

LEMMA PairsEqual ==
  ASSUME NEW S, NEW f \in [1..2 -> S], NEW g \in [1..2 -> S], f[1] = g[1], f[2] = g[2]
  PROVE  f = g
<1>1. \A i \in 1..2 : i = 1 \/ i = 2
  OBVIOUS
<1>2. \A i \in 1..2 : f[i] = g[i]
  BY <1>1
<1> QED
  BY <1>2

LEMMA Announcements ==
  /\ Append(<<>>, "started") = <<"started">>
  /\ \A t \in EventTypes : Append(<<"started">>, t) = <<"started", t>>
<1>1. Append(<<>>, "started") = <<"started">>
  OBVIOUS
<1>2. SUFFICES ASSUME NEW t \in EventTypes PROVE Append(<<"started">>, t) = <<"started", t>>
  BY <1>1
<1>3. <<"started">> \in Seq(EventTypes) /\ Len(<<"started">>) = 1
  BY EngineAssumption
<1>4. /\ Append(<<"started">>, t) \in Seq(EventTypes) /\ Len(Append(<<"started">>, t)) = 2
      /\ Append(<<"started">>, t)[1] = "started" /\ Append(<<"started">>, t)[2] = t
  BY <1>3
<1>5. Append(<<"started">>, t) \in [1..2 -> EventTypes]
  BY <1>4, LenProperties
<1>6. /\ <<"started", t>> \in [1..2 -> EventTypes]
      /\ <<"started", t>>[1] = "started" /\ <<"started", t>>[2] = t
  BY EngineAssumption
<1> QED
  BY <1>4, <1>5, <1>6, PairsEqual

LEMMA EngineStarts == Init => EngineInv
<1> SUFFICES ASSUME Init PROVE EngineInv
  OBVIOUS
<1>1. BusInv /\ ResourcesInv
  BY BusStarts, ResourcesStart DEF Init
<1>2. RunTypeOK
  BY DEF Init, RunTypeOK, Stage
<1>3. \A w \in Runs : ~Publishing(w)
  BY EngineAssumption DEF Init, BusInit, Publishing, NoEvent
<1>4. \A w \in Runs : RunHolds(w)
  <2>1. \A w \in Runs : Allowed[w] \in Nat \ {0}
    BY EngineAssumption
  <2> QED
    BY <1>3, <2>1 DEF Init, RunHolds, Announced, Inside
<1> QED
  BY <1>1, <1>2, <1>4 DEF EngineInv, RunInv

(* It is enough to look at the run that moves. *)
LEMMA OtherRuns ==
  ASSUME RunInv, NEW w \in Runs, RunTypeOK', RunHolds(w)',
         \A v \in Runs \ {w} :
           /\ pc'[v] = pc[v] /\ attempt'[v] = attempt[v] /\ token'[v] = token[v]
           /\ final'[v] = final[v] /\ published'[v] = published[v]
           /\ v \in active' <=> v \in active
           /\ Publishing(v)' <=> Publishing(v)
  PROVE  RunInv'
<1>1. \A v \in Runs \ {w} : RunHolds(v)'
  BY DEF RunInv, RunHolds, Announced
<1> QED
  BY <1>1 DEF RunInv

(* A cancellation reaches the tokens of tracked runs only. *)
LEMMA TokensSet ==
  ASSUME RunInv, token' \in [Runs -> BOOLEAN], \A v \in Runs : token'[v] => token[v] \/ v \in active,
         UNCHANGED <<pc, attempt, active, final, published, bus>>,
         shutdown' \in {"idle", "waiting", "drained", "expired"}
  PROVE  RunInv'
<1>1. RunTypeOK'
  BY DEF RunInv, RunTypeOK
<1>2. \A v \in Runs : Publishing(v)' <=> Publishing(v)
  BY DEF Publishing, bus
<1>3. \A v \in Runs : RunHolds(v)'
  BY <1>2 DEF RunInv, RunHolds, Announced
<1> QED
  BY <1>1, <1>3 DEF RunInv

LEMMA StillOrderly ==
  ASSUME ResourcesInv, UNCHANGED resources
  PROVE  ResourcesInv' /\ Orderly
<1>1. ResourcesInv'
  BY ResourcesStutter
<1>2. Orderly
  BY DEF ResourcesInv, OwnerHolds, Orderly, resources
<1> QED
  BY <1>1, <1>2

LEMMA StartKeeps ==
  ASSUME EngineInv, NEW w \in Runs, Start(w)
  PROVE  EngineInv' /\ Orderly
<1> USE DEF EngineInv, RunInv
<1>1. ~Publishing(w) /\ published[w] = <<>> /\ pc[w] = "new"
  BY DEF Start, RunHolds, Announced
<1>2. "started" \in EventTypes /\ w \in Publishers /\ w \in Owners
  BY EngineAssumption
<1>3. BusInv' /\ Publishing(w)' /\ \A q \in Runs \ {w} : Publishing(q)' <=> Publishing(q)
  BY <1>1, <1>2, PublishKeeps, EngineAssumption DEF Start, Announce
<1>4. ResourcesInv' /\ Orderly
  BY StillOrderly DEF Start
<1>5. /\ pc' = [pc EXCEPT ![w] = "starting"] /\ published' = [published EXCEPT ![w] = <<"started">>]
      /\ active' = active \union {w} /\ UNCHANGED <<attempt, token, final, shutdown>>
  BY <1>1, Announcements DEF Start, Announce, Enter
<1>6. RunTypeOK'
  <2>1. <<"started">> \in Seq(EventTypes)
    BY <1>2
  <2> QED
    BY <1>5, <2>1 DEF RunTypeOK, Stage
<1>7. RunHolds(w)'
  BY <1>1, <1>3, <1>5 DEF RunTypeOK, RunHolds, Announced, Inside
<1>8. RunInv'
  BY <1>3, <1>5, <1>6, <1>7, OtherRuns DEF RunTypeOK
<1> QED
  BY <1>3, <1>4, <1>8

LEMMA HandleKeeps ==
  ASSUME EngineInv, NEW w \in Runs, Handle(w)
  PROVE  EngineInv' /\ Orderly
<1> USE DEF EngineInv
<1>1. BusInv' /\ \A q \in Runs : Publishing(q)' <=> Publishing(q)
  BY InvokeKeeps, EngineAssumption DEF Handle
<1>2. ResourcesInv' /\ Orderly
  BY StillOrderly DEF Handle
<1>3. RunInv'
  <2>1. RunTypeOK'
    BY DEF Handle, run, RunInv, RunTypeOK
  <2>2. \A v \in Runs : RunHolds(v)'
    BY <1>1 DEF Handle, run, RunInv, RunHolds, Announced
  <2> QED
    BY <2>1, <2>2 DEF RunInv
<1> QED
  BY <1>1, <1>2, <1>3

(* A run leaves the try block with an outcome that its token allows. *)
LEMMA FinishKeeps ==
  ASSUME RunInv, NEW w \in Runs, NEW t \in Terminal, pc[w] \in Inside, Finish(w, t),
         token' \in [Runs -> BOOLEAN], token'[w] => t # "completed",
         \A v \in Runs \ {w} : token'[v] = token[v],
         ~Publishing(w)', \A v \in Runs \ {w} : Publishing(v)' <=> Publishing(v),
         UNCHANGED <<attempt, published, shutdown>>
  PROVE  RunInv'
<1> USE DEF RunInv
<1>1. /\ pc' = [pc EXCEPT ![w] = "closing"] /\ final' = [final EXCEPT ![w] = t]
      /\ active' = active \ {w}
  BY DEF Finish, Enter
<1>2. RunTypeOK'
  BY <1>1 DEF RunTypeOK, Stage
<1>3. t # "none"
  BY DEF Terminal
<1>4. RunHolds(w)'
  BY <1>1, <1>3 DEF RunTypeOK, RunHolds, Announced, Inside
<1> QED
  BY <1>1, <1>2, <1>4, OtherRuns DEF RunTypeOK

(* A run goes on inside the try block. *)
LEMMA GoesOnKeeps ==
  ASSUME RunInv, NEW w \in Runs, NEW s \in {"executing", "unwinding", "backoff"},
         pc[w] \in Inside, Enter(w, s), UNCHANGED <<active, final, token, published, shutdown>>,
         attempt' \in [Runs -> Nat], attempt'[w] <= Allowed[w], s = "backoff" => attempt'[w] < Allowed[w],
         \A v \in Runs \ {w} : attempt'[v] = attempt[v],
         ~Publishing(w)', \A v \in Runs \ {w} : Publishing(v)' <=> Publishing(v)
  PROVE  RunInv'
<1> USE DEF RunInv
<1>1. pc' = [pc EXCEPT ![w] = s]
  BY DEF Enter
<1>2. RunTypeOK'
  BY <1>1 DEF RunTypeOK, Stage
<1>3. RunHolds(w)'
  BY <1>1 DEF RunTypeOK, RunHolds, Announced, Inside
<1> QED
  BY <1>1, <1>2, <1>3, OtherRuns DEF RunTypeOK

LEMMA BeginAttemptKeeps ==
  ASSUME EngineInv, NEW w \in Runs, BeginAttempt(w)
  PROVE  EngineInv' /\ Orderly
<1> USE DEF EngineInv
<1>1. pc[w] \in {"starting", "backoff"}
  BY DEF BeginAttempt
<1>2. BusInv' /\ ~Publishing(w)' /\ \A v \in Runs \ {w} : Publishing(v)' <=> Publishing(v)
  <2>1. CASE EndPublish(w)
    BY <2>1, EndPublishKeeps, EngineAssumption
  <2>2. CASE pc[w] = "backoff" /\ UNCHANGED bus
    <3>1. ~Publishing(w)
      BY <2>2 DEF RunInv, RunHolds
    <3> QED
      BY <2>2, <3>1, BusStutters DEF bus, Publishing
  <2> QED
    BY <2>1, <2>2 DEF BeginAttempt
<1>3. ResourcesInv' /\ Orderly
  BY StillOrderly DEF BeginAttempt
<1>4. PICK n \in Nat : n = attempt[w]
  BY DEF RunInv, RunTypeOK
<1>5. n < Allowed[w] /\ Allowed[w] \in Nat
  BY <1>1, <1>4, EngineAssumption DEF RunInv, RunHolds
<1>6. pc[w] \in Inside /\ UNCHANGED <<token, published, shutdown>>
  BY <1>1 DEF BeginAttempt, Inside
<1>7. CASE GivesUp(w) /\ Finish(w, "cancelled") /\ UNCHANGED attempt
  <2>1. "cancelled" \in Terminal /\ token' \in [Runs -> BOOLEAN]
    BY <1>6 DEF Terminal, RunInv, RunTypeOK
  <2> QED
    BY <1>2, <1>3, <1>6, <1>7, <2>1, FinishKeeps
<1>8. CASE ~GivesUp(w) /\ Enter(w, "executing") /\ attempt' = [attempt EXCEPT ![w] = @ + 1]
           /\ UNCHANGED <<active, final>>
  <2>1. attempt' = [attempt EXCEPT ![w] = n + 1]
    BY <1>4, <1>8
  <2>2. attempt' \in [Runs -> Nat] /\ attempt'[w] = n + 1 /\ \A v \in Runs \ {w} : attempt'[v] = attempt[v]
    BY <2>1 DEF RunInv, RunTypeOK
  <2>3. attempt'[w] <= Allowed[w]
    BY <1>5, <2>2
  <2> QED
    BY <1>2, <1>3, <1>6, <1>8, <2>2, <2>3, GoesOnKeeps
<1> QED
  BY <1>7, <1>8 DEF BeginAttempt

LEMMA UseResourcesKeeps ==
  ASSUME EngineInv, NEW w \in Runs, UseResources(w)
  PROVE  EngineInv' /\ Orderly
<1> USE DEF EngineInv
<1>1. w \in Owners
  BY EngineAssumption
<1>2. ResourcesInv' /\ Orderly
  BY <1>1, AcquireKeeps, BeginCleanupKeeps, ExitNextKeeps DEF UseResources
<1>3. BusInv' /\ \A v \in Runs : Publishing(v)' <=> Publishing(v)
  BY BusStutters DEF UseResources, bus, Publishing
<1>4. RunTypeOK'
  BY DEF UseResources, run, RunInv, RunTypeOK
<1>5. \A v \in Runs : RunHolds(v)'
  BY <1>3 DEF UseResources, run, RunInv, RunHolds, Announced
<1> QED
  BY <1>2, <1>3, <1>4, <1>5 DEF RunInv

LEMMA TimesOutKeeps ==
  ASSUME EngineInv, NEW w \in Runs, TimesOut(w)
  PROVE  EngineInv' /\ Orderly
<1> USE DEF EngineInv
<1>1. w \in Owners
  BY EngineAssumption
<1>2. ResourcesInv' /\ Orderly
  BY <1>1, CancelCleanupKeeps DEF TimesOut
<1>3. BusInv' /\ \A v \in Runs : Publishing(v)' <=> Publishing(v)
  BY BusStutters DEF TimesOut, bus, Publishing
<1>4. pc[w] = "executing" /\ ~Publishing(w) /\ attempt[w] <= Allowed[w] /\ attempt \in [Runs -> Nat]
  BY DEF TimesOut, RunInv, RunTypeOK, RunHolds
<1>5. Enter(w, "unwinding") /\ UNCHANGED <<attempt, active, final, token, published, shutdown>>
  BY DEF TimesOut
<1>6. RunInv'
  BY <1>3, <1>4, <1>5, GoesOnKeeps DEF Inside
<1> QED
  BY <1>2, <1>3, <1>6

LEMMA AttemptEndsKeeps ==
  ASSUME EngineInv, NEW w \in Runs, Working(w), AttemptEnds(w)
  PROVE  EngineInv' /\ Orderly
<1> USE DEF EngineInv
<1>1. ResourcesInv' /\ Orderly
  BY StillOrderly DEF AttemptEnds
<1>2. BusInv' /\ \A v \in Runs : Publishing(v)' <=> Publishing(v)
  BY BusStutters DEF AttemptEnds, bus, Publishing
<1>3. pc[w] \in Inside /\ ~Publishing(w)' /\ UNCHANGED <<attempt, published, shutdown>>
  BY <1>2 DEF Working, AttemptEnds, Inside, RunInv, RunHolds
<1>4. token \in [Runs -> BOOLEAN] /\ attempt \in [Runs -> Nat] /\ attempt[w] <= Allowed[w]
      /\ Allowed[w] \in Nat /\ attempt[w] \in Nat
  BY EngineAssumption DEF RunInv, RunTypeOK, RunHolds
<1>5. Terminal = {"completed", "failed", "cancelled"}
  BY DEF Terminal
<1>6. CASE Completes(w)
  <2>1. Outcome(w) \in Terminal /\ (token[w] => Outcome(w) # "completed") /\ token' = token
    BY <1>5, <1>6 DEF Outcome, Completes
  <2> QED
    BY <1>1, <1>2, <1>3, <1>4, <1>6, <2>1, FinishKeeps DEF Completes
<1>7. CASE Raises(w)
  <2>1. token' = token
    BY <1>7 DEF Raises
  <2>2. CASE Finish(w, "failed") \/ Finish(w, "cancelled")
    BY <1>1, <1>2, <1>3, <1>4, <1>5, <2>1, <2>2, FinishKeeps
  <2>3. CASE ~LastAttempt(w) /\ Enter(w, "backoff") /\ UNCHANGED <<active, final>>
    <3>1. attempt[w] < Allowed[w]
      BY <1>4, <2>3 DEF LastAttempt
    <3> QED
      BY <1>1, <1>2, <1>3, <1>4, <2>1, <2>3, <3>1, GoesOnKeeps
  <2> QED
    BY <1>7, <2>2, <2>3 DEF Raises
<1>8. CASE RaisesTimeout(w)
  <2>1. token' \in [Runs -> BOOLEAN] /\ \A v \in Runs \ {w} : token'[v] = token[v]
    BY <1>4, <1>8 DEF RaisesTimeout
  <2> QED
    BY <1>1, <1>2, <1>3, <1>5, <1>8, <2>1, FinishKeeps DEF RaisesTimeout
<1> QED
  BY <1>6, <1>7, <1>8 DEF AttemptEnds

LEMMA CloseScopeKeeps ==
  ASSUME EngineInv, NEW w \in Runs, CloseScope(w)
  PROVE  EngineInv' /\ Orderly
<1> USE DEF EngineInv, RunInv
<1>1. ~Publishing(w) /\ published[w] = <<"started">> /\ pc[w] = "closing" /\ final[w] # "none"
  BY DEF CloseScope, RunHolds, Announced, Inside
<1>2. "started" \in EventTypes /\ final[w] \in EventTypes
  BY <1>1, EngineAssumption DEF RunTypeOK, Terminal
<1>3. BusInv' /\ Publishing(w)' /\ \A q \in Runs \ {w} : Publishing(q)' <=> Publishing(q)
  BY <1>1, <1>2, PublishKeeps, EngineAssumption DEF CloseScope, Announce, TerminalEvent
<1>4. ResourcesInv' /\ Orderly
  BY StillOrderly DEF CloseScope
<1>5. /\ pc' = [pc EXCEPT ![w] = "ending"]
      /\ published' = [published EXCEPT ![w] = <<"started", final[w]>>]
      /\ UNCHANGED <<attempt, token, active, final, shutdown>>
  BY <1>1, <1>2, Announcements DEF CloseScope, Announce, Enter, TerminalEvent
<1>6. RunTypeOK'
  <2>1. <<"started", final[w]>> \in Seq(EventTypes)
    BY <1>2
  <2> QED
    BY <1>5, <2>1 DEF RunTypeOK, Stage
<1>7. RunHolds(w)'
  BY <1>1, <1>3, <1>5 DEF RunTypeOK, RunHolds, Announced, Inside
<1>8. RunInv'
  BY <1>3, <1>5, <1>6, <1>7, OtherRuns DEF RunTypeOK
<1> QED
  BY <1>3, <1>4, <1>8

LEMMA ReturnKeeps ==
  ASSUME EngineInv, NEW w \in Runs, Return(w)
  PROVE  EngineInv' /\ Orderly
<1> USE DEF EngineInv, RunInv
<1>1. pc[w] = "ending" /\ pc' = [pc EXCEPT ![w] = "returned"]
      /\ UNCHANGED <<attempt, token, active, final, published, shutdown>>
  BY DEF Return, Enter
<1>2. BusInv' /\ ~Publishing(w)' /\ \A q \in Runs \ {w} : Publishing(q)' <=> Publishing(q)
  BY EndPublishKeeps, EngineAssumption DEF Return
<1>3. ResourcesInv' /\ Orderly
  BY StillOrderly DEF Return
<1>4. RunTypeOK'
  BY <1>1 DEF RunTypeOK, Stage
<1>5. RunHolds(w)'
  BY <1>1, <1>2 DEF RunTypeOK, RunHolds, Announced, Inside
<1>6. RunInv'
  BY <1>1, <1>2, <1>4, <1>5, OtherRuns DEF RunTypeOK
<1> QED
  BY <1>2, <1>3, <1>6

LEMMA InterruptKeeps ==
  ASSUME EngineInv, NEW w \in Runs, Interrupt(w)
  PROVE  EngineInv' /\ Orderly
<1> USE DEF EngineInv
<1>1. BusInv' /\ ~Publishing(w)' /\ \A q \in Runs \ {w} : Publishing(q)' <=> Publishing(q)
  BY EndPublishKeeps, EngineAssumption DEF Interrupt
<1>2. ResourcesInv' /\ Orderly
  BY CancelCleanupKeeps, EngineAssumption DEF Interrupt
<1>3. UNCHANGED <<attempt, published, shutdown>>
  BY DEF Interrupt
<1>4. CASE pc[w] \in Inside /\ token' = [token EXCEPT ![w] = TRUE] /\ Finish(w, "cancelled")
  <2>1. /\ "cancelled" \in Terminal /\ token' \in [Runs -> BOOLEAN]
        /\ \A v \in Runs \ {w} : token'[v] = token[v]
    BY <1>4 DEF Terminal, RunInv, RunTypeOK
  <2> QED
    BY <1>1, <1>2, <1>3, <1>4, <2>1, FinishKeeps
<1>5. CASE pc[w] \in {"closing", "ending"} /\ Enter(w, "interrupted") /\ UNCHANGED <<token, active, final>>
  <2>1. pc' = [pc EXCEPT ![w] = "interrupted"]
    BY <1>5 DEF Enter
  <2>2. RunTypeOK'
    BY <1>3, <1>5, <2>1 DEF RunInv, RunTypeOK, Stage
  <2>3. RunHolds(w)'
    BY <1>1, <1>3, <1>5, <2>1 DEF RunInv, RunTypeOK, RunHolds, Announced, Inside
  <2>4. RunInv'
    BY <1>1, <1>3, <1>5, <2>1, <2>2, <2>3, OtherRuns DEF RunInv, RunTypeOK
  <2> QED
    BY <1>1, <1>2, <2>4
<1> QED
  BY <1>4, <1>5 DEF Interrupt, Inside

(* Cancelling, by whichever way. *)
LEMMA CancellationKeeps ==
  ASSUME EngineInv,
         \/ \E w \in Runs : Cancel(w)
         \/ Sigint \/ BeginShutdown
  PROVE  EngineInv' /\ Orderly
<1> USE DEF EngineInv
<1>1. ResourcesInv' /\ Orderly
  BY StillOrderly DEF Cancel, Sigint, BeginShutdown
<1>2. BusInv'
  BY BusStutters DEF Cancel, Sigint, BeginShutdown
<1>3. UNCHANGED <<pc, attempt, active, final, published, bus>>
      /\ shutdown' \in {"idle", "waiting", "drained", "expired"}
  BY DEF Cancel, Sigint, BeginShutdown, RunInv, RunTypeOK
<1>4. token \in [Runs -> BOOLEAN]
  BY DEF RunInv, RunTypeOK
<1>5. token' \in [Runs -> BOOLEAN] /\ \A v \in Runs : token'[v] => token[v] \/ v \in active
  <2>1. ASSUME NEW w \in Runs, Cancel(w)
        PROVE  token' \in [Runs -> BOOLEAN] /\ \A v \in Runs : token'[v] => token[v] \/ v \in active
    BY <1>4, <2>1 DEF Cancel
  <2>2. ASSUME token' = AllCancelled
        PROVE  token' \in [Runs -> BOOLEAN] /\ \A v \in Runs : token'[v] => token[v] \/ v \in active
    BY <1>4, <2>2 DEF AllCancelled
  <2> QED
    BY <2>1, <2>2 DEF Sigint, BeginShutdown
<1>6. RunInv'
  BY <1>3, <1>5, TokensSet
<1> QED
  BY <1>1, <1>2, <1>6

LEMMA EndShutdownKeeps ==
  ASSUME EngineInv, EndShutdown
  PROVE  EngineInv' /\ Orderly
<1> USE DEF EngineInv
<1>1. ResourcesInv' /\ Orderly
  BY StillOrderly DEF EndShutdown
<1>2. BusInv'
  BY BusStutters DEF EndShutdown
<1>3. token' \in [Runs -> BOOLEAN] /\ \A v \in Runs : token'[v] => token[v]
  BY DEF EndShutdown, RunInv, RunTypeOK
<1>4. RunInv'
  BY <1>3, TokensSet DEF EndShutdown
<1> QED
  BY <1>1, <1>2, <1>4

LEMMA ChangeHandlersKeeps ==
  ASSUME EngineInv, ChangeHandlers
  PROVE  EngineInv' /\ Orderly
<1> USE DEF EngineInv
<1>1. ResourcesInv' /\ Orderly
  BY StillOrderly DEF ChangeHandlers
<1>2. PICK t \in EventTypes, h \in Handlers :
        Subscribe(t, h) \/ (Contains(handlers[t], h) /\ Unsubscribe(t, h))
  BY EngineAssumption DEF ChangeHandlers
<1>3. BusInv' /\ dispatch' = dispatch
  BY <1>2, SubscribeKeeps, UnsubscribeKeeps DEF Subscribe, Unsubscribe
<1>4. RunTypeOK'
  BY DEF ChangeHandlers, run, RunInv, RunTypeOK
<1>5. \A v \in Runs : RunHolds(v)'
  BY <1>3 DEF ChangeHandlers, run, RunInv, RunHolds, Announced, Publishing
<1> QED
  BY <1>1, <1>3, <1>4, <1>5 DEF RunInv

LEMMA EngineStutters ==
  ASSUME EngineInv, UNCHANGED vars
  PROVE  EngineInv' /\ Orderly
<1> USE DEF EngineInv
<1>1. ResourcesInv' /\ Orderly
  BY StillOrderly DEF vars
<1>2. BusInv'
  BY BusStutters DEF vars
<1>3. RunTypeOK'
  BY DEF vars, run, RunInv, RunTypeOK
<1>4. \A v \in Runs : RunHolds(v)'
  BY DEF vars, run, bus, RunInv, RunHolds, Announced, Publishing
<1> QED
  BY <1>1, <1>2, <1>3, <1>4 DEF RunInv

(* Each step keeps the invariant, and exits resources in order. *)
LEMMA EngineStep ==
  ASSUME EngineInv, [Next]_vars
  PROVE  EngineInv' /\ Orderly
<1>1. ASSUME NEW w \in Runs, RunStep(w) PROVE EngineInv' /\ Orderly
  <2>1. CASE Start(w) \/ Handle(w) \/ BeginAttempt(w) \/ UseResources(w) \/ TimesOut(w)
    BY <2>1, StartKeeps, HandleKeeps, BeginAttemptKeeps, UseResourcesKeeps, TimesOutKeeps
  <2>2. CASE EndsInTime(w) \/ Unwinds(w)
    BY <2>2, AttemptEndsKeeps DEF EndsInTime, Unwinds, Working
  <2>3. CASE CloseScope(w) \/ Return(w) \/ Interrupt(w)
    BY <2>3, CloseScopeKeeps, ReturnKeeps, InterruptKeeps
  <2> QED
    BY <1>1, <2>1, <2>2, <2>3 DEF RunStep
<1>2. CASE (\E w \in Runs : Cancel(w)) \/ Sigint \/ BeginShutdown
  BY <1>2, CancellationKeeps
<1>3. CASE EndShutdown \/ ChangeHandlers
  BY <1>3, EndShutdownKeeps, ChangeHandlersKeeps
<1>4. CASE UNCHANGED vars
  BY <1>4, EngineStutters
<1> QED
  BY <1>1, <1>2, <1>3, <1>4 DEF Next

-----------------------------------------------------------------------------
(* The variables keep their types, for any runs, handlers, retries and        *)
(* resources.                                                                 *)
THEOREM EngineTypeCorrect == Spec => []EngineTypeOK
<1>1. Init => EngineInv
  BY EngineStarts
<1>2. EngineInv /\ [Next]_vars => EngineInv'
  BY EngineStep
<1>3. EngineInv => EngineTypeOK
  BY DEF EngineInv, BusInv, ResourcesInv, RunInv, RunTypeOK, RunHolds, EngineTypeOK
<1> QED
  BY <1>1, <1>2, <1>3, PTL DEF Spec

(* A run announces one outcome, the one it returns, whatever races with it.   *)
THEOREM AnnouncesOnce == Spec => []OneTerminalEvent
<1>1. Init => EngineInv
  BY EngineStarts
<1>2. EngineInv /\ [Next]_vars => EngineInv'
  BY EngineStep
<1>3. EngineInv => OneTerminalEvent
  <2>1. SUFFICES ASSUME EngineInv, NEW w \in Runs
                 PROVE  /\ \A i, j \in TerminalEvents(w) : i = j
                        /\ \A i \in TerminalEvents(w) : published[w][i] = final[w]
                        /\ pc[w] = "returned" => TerminalEvents(w) # {}
    BY DEF OneTerminalEvent
  <2>2. "started" \notin Terminal
    BY DEF Terminal
  <2>3. RunHolds(w) /\ pc[w] \in Stage /\ final[w] \in Terminal \union {"none"}
    BY <2>1 DEF EngineInv, RunInv, RunTypeOK
  <2>4. CASE published[w] = <<>> \/ published[w] = <<"started">>
    <3>1. TerminalEvents(w) = {}
      BY <2>2, <2>4 DEF TerminalEvents
    <3>2. pc[w] # "returned"
      BY <2>3, <2>4 DEF RunHolds, Announced
    <3> QED
      BY <3>1, <3>2
  <2>5. CASE published[w] = <<"started", final[w]>>
    <3>1. DOMAIN published[w] = {1, 2} /\ published[w][1] = "started" /\ published[w][2] = final[w]
      BY <2>5
    <3>2. TerminalEvents(w) \subseteq {2}
      BY <2>2, <3>1 DEF TerminalEvents
    <3>3. pc[w] = "returned" => final[w] \in Terminal
      BY <2>3 DEF RunHolds, Inside
    <3>4. final[w] \in Terminal => 2 \in TerminalEvents(w)
      BY <3>1 DEF TerminalEvents
    <3> QED
      BY <3>1, <3>2, <3>3, <3>4
  <2> QED
    BY <2>3, <2>4, <2>5 DEF RunHolds, Announced, Stage, Inside
<1> QED
  BY <1>1, <1>2, <1>3, PTL DEF Spec

(* A cancellation that reached a tracked run keeps it from being "completed". *)
THEOREM CancellationSticks == Spec => []CancelledNeverCompletes
<1>1. Init => EngineInv
  BY EngineStarts
<1>2. EngineInv /\ [Next]_vars => EngineInv'
  BY EngineStep
<1>3. EngineInv => CancelledNeverCompletes
  BY DEF EngineInv, RunInv, RunHolds, CancelledNeverCompletes
<1> QED
  BY <1>1, <1>2, <1>3, PTL DEF Spec

(* Handlers are called in the order of their registration.                    *)
THEOREM HandlersInOrder == Spec => []InRegistrationOrder
<1>1. Init => EngineInv
  BY EngineStarts
<1>2. EngineInv /\ [Next]_vars => EngineInv'
  BY EngineStep
<1>3. EngineInv => InRegistrationOrder
  BY DEF EngineInv, BusInv
<1> QED
  BY <1>1, <1>2, <1>3, PTL DEF Spec

(* Resources are exited in the reverse order of entering, and none is lost.   *)
THEOREM ResourcesInReverse == Spec => ExitsInReverse
<1>1. Init => EngineInv
  BY EngineStarts
<1>2. EngineInv /\ [Next]_vars => EngineInv'
  BY EngineStep
<1>3. EngineInv /\ [Next]_vars => [Orderly]_resources
  BY EngineStep
<1> QED
  BY <1>1, <1>2, <1>3, PTL DEF Spec, ExitsInReverse, Orderly

(* No attempt begins with a cancelled token.                                  *)
THEOREM AttemptsStop == Spec => NoAttemptAfterCancel
<1> DEFINE A == \A w \in Runs : attempt'[w] # attempt[w] => ~token[w]
<1>1. Init => EngineInv
  BY EngineStarts
<1>2. EngineInv /\ [Next]_vars => EngineInv'
  BY EngineStep
<1>3. EngineInv /\ [Next]_vars => [A]_vars
  <2>1. SUFFICES ASSUME EngineInv, Next PROVE A
    OBVIOUS
  <2>2. CASE attempt' = attempt
    BY <2>2
  <2>3. CASE \E w \in Runs : BeginAttempt(w)
    <3>1. PICK w \in Runs : BeginAttempt(w)
      BY <2>3
    <3>2. attempt \in [Runs -> Nat]
      BY <2>1 DEF EngineInv, RunInv, RunTypeOK
    <3> QED
      BY <3>1, <3>2 DEF BeginAttempt, GivesUp
  <2> QED
    BY <2>1, <2>2, <2>3
       DEF Next, RunStep, Start, Handle, UseResources, TimesOut, EndsInTime, Unwinds, AttemptEnds,
           CloseScope, Return, Interrupt, Cancel, Sigint, BeginShutdown, EndShutdown,
           ChangeHandlers, run, vars
<1> QED
  BY <1>1, <1>2, <1>3, PTL DEF Spec, NoAttemptAfterCancel

(* Drained means that no run is in workflow code or about to go back to it.   *)
THEOREM DrainedIsEmpty == Spec => ShutdownDrains
<1> DEFINE A == shutdown' = "drained" =>
                  shutdown = "drained" \/ \A w \in Runs : ~Working(w) /\ pc[w] # "backoff"
<1>1. Init => EngineInv
  BY EngineStarts
<1>2. EngineInv /\ [Next]_vars => EngineInv'
  BY EngineStep
<1>3. EngineInv /\ [Next]_vars => [A]_vars
  <2>1. SUFFICES ASSUME EngineInv, Next PROVE A
    OBVIOUS
  <2>2. CASE shutdown' = shutdown
    BY <2>2
  <2>3. CASE BeginShutdown
    BY <2>3 DEF BeginShutdown
  <2>4. CASE EndShutdown
    BY <2>1, <2>4 DEF EndShutdown, Drained, EngineInv, RunInv, RunHolds, Inside, Working
  <2> QED
    BY <2>1, <2>2, <2>3, <2>4
       DEF Next, RunStep, Start, Handle, BeginAttempt, UseResources, TimesOut, EndsInTime, Unwinds,
           AttemptEnds, CloseScope, Return, Interrupt, Cancel, Sigint, ChangeHandlers, run, vars
<1> QED
  BY <1>1, <1>2, <1>3, PTL DEF Spec, ShutdownDrains
=============================================================================
