--------------------------- MODULE WorkflowEngine ---------------------------
(***************************************************************************)
(* KernelWorkflowEngine: run() announces a workflow, executes it under a   *)
(* timeout with retries and backoff, closes its scope and announces the    *)
(* outcome.  Runs are asyncio tasks of one loop: between two awaits a run  *)
(* is alone, at an await other runs, cancel(), shutdown(), SIGINT and the  *)
(* cancellation of the task itself may come in.                            *)
(*                                                                         *)
(* The workflow's own code (execute) is external: it may acquire and clean *)
(* up resources, return, raise, or go on until its timeout cancels it, and *)
(* then still return or raise something else.                              *)
(***************************************************************************)
EXTENDS EventBus, Resources

CONSTANTS
  Runs,          \* calls of run()
  Acquirers,     \* the runs whose workflow uses its resource manager
  Allowed,       \* [Runs -> attempts the run's policy allows: retry_count + 1, but 1 if fail_fast]
  MaxHandlers,   \* bound on the handlers registered for one type
  Observed       \* event types that handlers are registered for

ASSUME EngineAssumption ==
  /\ Runs = Publishers /\ Runs = Owners
  /\ EventTypes = {"started", "completed", "failed", "cancelled"}
  /\ Observed \subseteq EventTypes
  /\ Acquirers \subseteq Runs
  /\ Allowed \in [Runs -> Nat \ {0}] /\ MaxHandlers \in Nat

VARIABLES
  pc,          \* [Runs -> where run() is]
  attempt,     \* [Runs -> attempts begun]
  token,       \* [Runs -> its CancellationToken is cancelled]
  active,      \* keys of _active_workflows
  final,       \* [Runs -> final_state]
  published,   \* history: [Runs -> Seq of event types announced]
  shutdown     \* where shutdown() is

run == <<pc, attempt, token, active, final, published, shutdown>>
vars == <<run, bus, resources>>

Terminal == {"completed", "failed", "cancelled"}
Stage == {"new", "starting", "executing", "unwinding", "backoff", "closing", "ending",
          "returned", "interrupted"}

EngineTypeOK ==
  /\ BusTypeOK /\ ResourcesTypeOK
  /\ pc \in [Runs -> Stage]
  /\ attempt \in [Runs -> Nat]
  /\ \A w \in Runs : attempt[w] <= Allowed[w]
  /\ token \in [Runs -> BOOLEAN]
  /\ active \in SUBSET Runs
  /\ final \in [Runs -> Terminal \union {"none"}]
  /\ published \in [Runs -> Seq(EventTypes)]
  /\ shutdown \in {"idle", "waiting", "drained", "expired"}

Init ==
  /\ BusInit /\ ResourcesInit
  /\ pc = [w \in Runs |-> "new"]
  /\ attempt = [w \in Runs |-> 0]
  /\ token = [w \in Runs |-> FALSE]
  /\ active = {}
  /\ final = [w \in Runs |-> "none"]
  /\ published = [w \in Runs |-> <<>>]
  /\ shutdown = "idle"

-----------------------------------------------------------------------------
Enter(w, stage) == pc' = [pc EXCEPT ![w] = stage]

Announce(w, t) ==
  /\ Publish(w, t)
  /\ published' = [published EXCEPT ![w] = Append(@, t)]

(* The try block is left with this state; `finally' untracks the run at once. *)
Finish(w, state) ==
  /\ final' = [final EXCEPT ![w] = state]
  /\ active' = active \ {w}
  /\ Enter(w, "closing")

(* run, up to the handlers of the started event. *)
Start(w) ==
  /\ pc[w] = "new"
  /\ active' = active \union {w}
  /\ Announce(w, "started")
  /\ Enter(w, "starting")
  /\ UNCHANGED <<attempt, token, final, shutdown, resources>>

(* A handler of the event that the run is publishing. *)
Handle(w) == Invoke(w) /\ UNCHANGED <<run, resources>>

(* Mutant of GivesUp: the token is looked at before the backoff only. *)
GivesUpAtOnce(w) == token[w] /\ pc[w] = "starting"

GivesUp(w) == token[w]

(* The scope is created and the loop of _execute_with_policy entered, or its *)
(* backoff is over: the attempt begins unless the token is cancelled.        *)
BeginAttempt(w) ==
  /\ \/ pc[w] = "starting" /\ Dispatched(w) /\ EndPublish(w)
     \/ pc[w] = "backoff" /\ UNCHANGED bus
  /\ \/ GivesUp(w) /\ Finish(w, "cancelled") /\ UNCHANGED attempt
     \/ /\ ~GivesUp(w)
        /\ Enter(w, "executing")
        /\ attempt' = [attempt EXCEPT ![w] = @ + 1]
        /\ UNCHANGED <<active, final>>
  /\ UNCHANGED <<token, published, shutdown, resources>>

Working(w) == pc[w] \in {"executing", "unwinding"}

(* What the workflow does with its resource manager. *)
UseResources(w) ==
  /\ Working(w) /\ w \in Acquirers
  /\ \/ cleaning[w] = <<>> /\ Acquire(w)
     \/ BeginCleanup(w)
     \/ ExitNext(w)
  /\ UNCHANGED <<run, bus>>

(* Mutant of TimesOut: a cancelled run is left to end by itself. *)
TimesOutUnlessCancelled(w) ==
  /\ pc[w] = "executing" /\ ~token[w]
  /\ Enter(w, "unwinding")
  /\ CancelCleanup(w)
  /\ UNCHANGED <<attempt, token, active, final, published, shutdown, bus>>

(* wait_for's deadline passes: the coroutine is cancelled at its await. *)
TimesOut(w) ==
  /\ pc[w] = "executing"
  /\ Enter(w, "unwinding")
  /\ CancelCleanup(w)
  /\ UNCHANGED <<attempt, token, active, final, published, shutdown, bus>>

(* Mutant of Outcome: a workflow that returns has completed. *)
OutcomeOfReturn(w) == "completed"

Outcome(w) == IF token[w] THEN "cancelled" ELSE "completed"

(* execute returns; a coroutine that its timeout has cancelled may do so too. *)
Completes(w) ==
  /\ Finish(w, Outcome(w))
  /\ UNCHANGED token

(* Mutant of LastAttempt: the retries are counted, not the attempts. *)
LastRetry(w) == attempt[w] = Allowed[w] + 1

LastAttempt(w) == attempt[w] = Allowed[w]

(* Another exception: retried after a backoff if the policy allows. *)
Raises(w) ==
  /\ \/ LastAttempt(w) /\ Finish(w, "failed")
     \/ /\ ~LastAttempt(w)
        /\ \/ token[w] /\ Finish(w, "cancelled")
           \/ ~token[w] /\ Enter(w, "backoff") /\ UNCHANGED <<active, final>>
  /\ UNCHANGED token

(* TimeoutError, wait_for's or one of the workflow's own: never retried. *)
RaisesTimeout(w) ==
  /\ Finish(w, "failed")
  /\ token' = [token EXCEPT ![w] = TRUE]

AttemptEnds(w) ==
  /\ cleaning[w] = <<>>
  /\ Completes(w) \/ Raises(w) \/ RaisesTimeout(w)
  /\ UNCHANGED <<attempt, published, shutdown, bus, resources>>

EndsInTime(w) == pc[w] = "executing" /\ AttemptEnds(w)
Unwinds(w) == pc[w] = "unwinding" /\ AttemptEnds(w)

(* Mutant of TerminalEvent: the token decides, as it does for a return. *)
TerminalEventByToken(w) == IF token[w] THEN "cancelled" ELSE final[w]

(* _publish_terminal_event *)
TerminalEvent(w) == final[w]

(* scope.close(): nothing it raises escapes.  The terminal event follows. *)
CloseScope(w) ==
  /\ pc[w] = "closing"
  /\ Announce(w, TerminalEvent(w))
  /\ Enter(w, "ending")
  /\ UNCHANGED <<attempt, token, active, final, shutdown, resources>>

Return(w) ==
  /\ pc[w] = "ending" /\ Dispatched(w)
  /\ EndPublish(w)
  /\ Enter(w, "returned")
  /\ UNCHANGED <<attempt, token, active, final, published, shutdown, resources>>

(* The task that awaits run() is cancelled.  Inside the try block that is the *)
(* outcome "cancelled"; in `finally' and after it nothing catches it.         *)
Interrupt(w) ==
  /\ \/ /\ pc[w] \in {"starting", "executing", "unwinding", "backoff"}
        /\ token' = [token EXCEPT ![w] = TRUE]
        /\ Finish(w, "cancelled")
     \/ /\ pc[w] \in {"closing", "ending"}
        /\ Enter(w, "interrupted")
        /\ UNCHANGED <<token, active, final>>
  /\ EndPublish(w) /\ CancelCleanup(w)
  /\ UNCHANGED <<attempt, published, shutdown>>

-----------------------------------------------------------------------------
Cancel(w) ==
  /\ w \in active
  /\ token' = [token EXCEPT ![w] = TRUE]
  /\ UNCHANGED <<pc, attempt, active, final, published, shutdown, bus, resources>>

(* _handle_sigint, and the first loop of shutdown. *)
AllCancelled == [w \in Runs |-> token[w] \/ w \in active]

Sigint ==
  /\ active # {}
  /\ token' = AllCancelled
  /\ UNCHANGED <<pc, attempt, active, final, published, shutdown, bus, resources>>

BeginShutdown ==
  /\ shutdown = "idle"
  /\ token' = AllCancelled
  /\ shutdown' = "waiting"
  /\ UNCHANGED <<pc, attempt, active, final, published, bus, resources>>

(* Mutant of Drained: only the runs whose tokens were cancelled are waited for. *)
DrainedOfCancelled == \A w \in active : ~token[w]

Drained == active = {}

EndShutdown ==
  /\ shutdown = "waiting"
  /\ shutdown' = IF Drained THEN "drained" ELSE "expired"
  /\ UNCHANGED <<pc, attempt, token, active, final, published, bus, resources>>

(* Other tasks of the process register and remove handlers. *)
ChangeHandlers ==
  /\ \E t \in Observed, h \in Handlers :
       \/ Len(handlers[t]) < MaxHandlers /\ Subscribe(t, h)
       \/ Contains(handlers[t], h) /\ Unsubscribe(t, h)
  /\ UNCHANGED <<run, resources>>

RunStep(w) ==
  Start(w) \/ Handle(w) \/ BeginAttempt(w) \/ UseResources(w) \/ TimesOut(w)
    \/ EndsInTime(w) \/ Unwinds(w) \/ CloseScope(w) \/ Return(w) \/ Interrupt(w)

AllReturned == \A w \in Runs : pc[w] \in {"returned", "interrupted"}

Next ==
  \/ \E w \in Runs : RunStep(w) \/ Cancel(w)
  \/ Sigint \/ BeginShutdown \/ EndShutdown \/ ChangeHandlers
  \/ AllReturned /\ UNCHANGED vars

Spec == Init /\ [][Next]_vars

(* Handlers return, sleeps end, a cancelled coroutine comes to an end, and    *)
(* the loop's timers fire; that the workflow ends by itself is not assumed.   *)
Advance(w) == Handle(w) \/ BeginAttempt(w) \/ Unwinds(w) \/ CloseScope(w) \/ Return(w)

FairSpec ==
  /\ Spec
  /\ \A w \in Runs : WF_vars(Advance(w)) /\ WF_vars(TimesOut(w))
                       /\ WF_vars(Working(w) /\ ExitNext(w) /\ UNCHANGED <<run, bus>>)

-----------------------------------------------------------------------------
TerminalEvents(w) == {i \in DOMAIN published[w] : published[w][i] \in Terminal}

(* A run announces one terminal state at most, and when run() returns a       *)
(* summary it has announced exactly the state of the summary, whatever raced  *)
(* with its end: the timeout, a retry, cancel(), SIGINT or shutdown().        *)
OneTerminalEvent ==
  \A w \in Runs :
    /\ \A i, j \in TerminalEvents(w) : i = j
    /\ \A i \in TerminalEvents(w) : published[w][i] = final[w]
    /\ pc[w] = "returned" => TerminalEvents(w) # {}

(* A workflow whose cancellation was requested while it was tracked is never  *)
(* reported as completed, even if it returned normally.                       *)
CancelledNeverCompletes ==
  \A w \in Runs : token[w] => final[w] # "completed"

(* No attempt begins once the token is cancelled: neither the first one, when *)
(* the request came while the started event was handled, nor a retry, when it *)
(* came during the backoff.                                                   *)
NoAttemptAfterCancel ==
  [][\A w \in Runs : attempt'[w] # attempt[w] => ~token[w]]_vars

(* shutdown() reports that everything is drained only when no run, not even   *)
(* one that started after its cancellations, is in workflow code.             *)
ShutdownDrains ==
  [][shutdown' = "drained" =>
       shutdown = "drained" \/ \A w \in Runs : ~Working(w) /\ pc[w] # "backoff"]_vars

(* The timeout ends a workflow that would never end by itself. *)
RunEnds == \A w \in Runs : pc[w] = "starting" ~> pc[w] \in {"returned", "interrupted"}

(* The contract of ResourceManager: what a workflow acquired is released when *)
(* the workflow completes, fails or is cancelled.                             *)
ResourcesReleased ==
  \A w \in Runs : pc[w] = "returned" => open[w] = {}
=============================================================================
