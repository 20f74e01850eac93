------------------------------ MODULE EventBus ------------------------------
(***************************************************************************)
(* KernelEventBus: publishing an event awaits the handlers registered for  *)
(* its type one after the other.  The loop walks the live list, so what    *)
(* other tasks subscribe and unsubscribe while a handler is awaited is     *)
(* seen by the dispatch in progress.                                       *)
(***************************************************************************)
EXTENDS Naturals, Sequences, SequencesExt

CONSTANTS
  Publishers,   \* tasks that publish, one event at a time each
  EventTypes,
  Handlers

VARIABLES
  handlers,     \* _handlers: [EventTypes -> Seq(Handlers)]
  dispatch,     \* [Publishers -> the publication under way: its type, the index of the next handler]
  invoked,      \* history: [Publishers -> handlers its current publication has called]
  disturbed     \* history: publishers during whose publication a handler of its type was removed

bus == <<handlers, dispatch, invoked, disturbed>>

NoEvent == [type |-> "none", next |-> 1]

BusTypeOK ==
  /\ handlers \in [EventTypes -> Seq(Handlers)]
  /\ dispatch \in [Publishers -> [type : EventTypes \union {"none"}, next : Nat \ {0}]]
  /\ invoked \in [Publishers -> Seq(Handlers)]
  /\ disturbed \in SUBSET Publishers

BusInit ==
  /\ handlers = [t \in EventTypes |-> <<>>]
  /\ dispatch = [p \in Publishers |-> NoEvent]
  /\ invoked = [p \in Publishers |-> <<>>]
  /\ disturbed = {}

-----------------------------------------------------------------------------
Subscribe(t, h) ==
  /\ handlers' = [handlers EXCEPT ![t] = Append(@, h)]
  /\ UNCHANGED <<dispatch, invoked, disturbed>>

(* list.remove: the first registration goes; an unknown handler is ignored. *)
Unsubscribe(t, h) ==
  /\ handlers' = [handlers EXCEPT ![t] = RemoveFirst(@, h)]
  /\ disturbed' = disturbed \union
                    (IF Contains(handlers[t], h)
                       THEN {p \in Publishers : dispatch[p].type = t} ELSE {})
  /\ UNCHANGED <<dispatch, invoked>>

(* publish, up to its first handler. *)
Publish(p, t) ==
  /\ dispatch' = [dispatch EXCEPT ![p] = [type |-> t, next |-> 1]]
  /\ UNCHANGED <<handlers, invoked, disturbed>>

(* Mutant of AfterHandler: an exception of a handler ends the loop. *)
AfterHandlerUnlessRaised(p, raised) ==
  IF raised THEN Len(handlers[dispatch[p].type]) + 1 ELSE dispatch[p].next + 1

(* The loop goes on whether or not the handler raised. *)
AfterHandler(p, raised) == dispatch[p].next + 1

Publishing(p) == dispatch[p].type # "none"

(* The iteration ends when its index has passed the end of the list. *)
Dispatched(p) == Publishing(p) /\ dispatch[p].next > Len(handlers[dispatch[p].type])

(* A handler is called and awaited, and returns or raises. *)
Invoke(p) ==
  /\ Publishing(p) /\ ~Dispatched(p)
  /\ \E raised \in BOOLEAN :
       dispatch' = [dispatch EXCEPT ![p].next = AfterHandler(p, raised)]
  /\ invoked' = [invoked EXCEPT ![p] = Append(@, handlers[dispatch[p].type][dispatch[p].next])]
  /\ UNCHANGED <<handlers, disturbed>>

(* publish returns, or the publishing task is cancelled in a handler's await, *)
(* which no except clause of the loop stops.                                  *)
EndPublish(p) ==
  /\ dispatch' = [dispatch EXCEPT ![p] = NoEvent]
  /\ invoked' = [invoked EXCEPT ![p] = <<>>]
  /\ disturbed' = disturbed \ {p}
  /\ UNCHANGED handlers

-----------------------------------------------------------------------------
(* However handlers fail, and whatever other tasks subscribe meanwhile, a     *)
(* publication has called the handlers of its type in the order of their      *)
(* registration, each once per registration, none left out, as long as none   *)
(* is removed while it runs.                                                  *)
InRegistrationOrder ==
  \A p \in Publishers : Publishing(p) /\ p \notin disturbed =>
    invoked[p] = SubSeq(handlers[dispatch[p].type], 1, dispatch[p].next - 1)
=============================================================================
