---------------------------- MODULE RateLimiter ----------------------------
(***************************************************************************)
(* TokenBucketRateLimiter: every HTTP request of the mirror client takes a *)
(* token first.  Polling the bucket (replenish, then take) happens under   *)
(* an asyncio lock with no await inside, so it is one step; a client that  *)
(* finds no token sleeps and polls again until its deadline.               *)
(*                                                                         *)
(* Time is discrete: a tick is 1/Grain of the time in which one token is   *)
(* replenished, and tokens are counted in that unit.  Clocks are relative, *)
(* so no bound on time is needed.  Ticks may pass while a sleeper is due:  *)
(* the event loop wakes it late.                                           *)
(***************************************************************************)
EXTENDS Naturals

CONSTANTS
  Clients,   \* tasks that make requests
  Burst,     \* burst_size
  Grain,     \* ticks in 1/rate seconds
  Timeout    \* acquire's timeout, in ticks

ASSUME LimiterAssumption ==
  Burst \in Nat \ {0} /\ Grain \in Nat \ {0} /\ Timeout \in Nat \ {0}

VARIABLES
  tokens,     \* _tokens
  elapsed,    \* ticks since _last_replenish; more than Capacity makes no difference
  status,     \* [Clients -> where a client is with respect to acquire]
  remaining,  \* [Clients -> ticks to the deadline of its acquire]
  nap,        \* [Clients -> ticks left of its sleep]
  debt        \* history: see Metered

limiter == <<tokens, elapsed, status, remaining, nap, debt>>

Capacity == Burst * Grain
Status == {"idle", "waiting", "granted", "timed_out"}

Least(x, y) == IF x < y THEN x ELSE y

-----------------------------------------------------------------------------
(* Mutant of Replenished: idle time fills the bucket to one token more than *)
(* its capacity.                                                             *)
ReplenishedPastCapacity == Least(tokens + elapsed, Capacity + Grain)

(* _replenish *)
Replenished == Least(tokens + elapsed, Capacity)

(* One turn of acquire's loop for a client with `left' ticks to its deadline. *)
Poll(c, left) ==
  /\ elapsed' = 0
  /\ \/ /\ Replenished >= Grain
        /\ tokens' = Replenished - Grain
        /\ debt' = debt + Grain
        /\ status' = [status EXCEPT ![c] = "granted"]
        /\ remaining' = [remaining EXCEPT ![c] = 0]
        /\ nap' = [nap EXCEPT ![c] = 0]
     \/ /\ Replenished < Grain
        /\ tokens' = Replenished
        /\ status' = [status EXCEPT ![c] = "waiting"]
        /\ remaining' = [remaining EXCEPT ![c] = left]
        /\ nap' = [nap EXCEPT ![c] = Least(Grain, left)]
        /\ UNCHANGED debt

Acquire(c) ==
  /\ status[c] = "idle"
  /\ Poll(c, Timeout)

(* The sleep is over: past the deadline the client gives up without another poll. *)
Wake(c) ==
  /\ status[c] = "waiting"
  /\ nap[c] = 0
  /\ \/ remaining[c] > 0 /\ Poll(c, remaining[c])
     \/ /\ remaining[c] = 0
        /\ status' = [status EXCEPT ![c] = "timed_out"]
        /\ UNCHANGED <<tokens, elapsed, remaining, nap, debt>>

(* acquire has returned or raised, or the waiting task is cancelled: nothing *)
(* is given back, and nothing was taken that was not granted.                *)
Leave(c) ==
  /\ status[c] # "idle"
  /\ status' = [status EXCEPT ![c] = "idle"]
  /\ remaining' = [remaining EXCEPT ![c] = 0]
  /\ nap' = [nap EXCEPT ![c] = 0]
  /\ UNCHANGED <<tokens, elapsed, debt>>

Pred(n) == IF n = 0 THEN 0 ELSE n - 1

Tick ==
  /\ elapsed' = Least(elapsed + 1, Capacity)
  /\ remaining' = [c \in Clients |-> Pred(remaining[c])]
  /\ nap' = [c \in Clients |-> Pred(nap[c])]
  /\ debt' = Pred(debt)
  /\ UNCHANGED <<tokens, status>>

(* A new process starts with a full bucket. *)
Fresh ==
  /\ tokens' = Capacity
  /\ elapsed' = 0
  /\ status' = [c \in Clients |-> "idle"]
  /\ remaining' = [c \in Clients |-> 0]
  /\ nap' = [c \in Clients |-> 0]
  /\ debt' = 0

LimiterInit ==
  /\ tokens = Capacity
  /\ elapsed = 0
  /\ status = [c \in Clients |-> "idle"]
  /\ remaining = [c \in Clients |-> 0]
  /\ nap = [c \in Clients |-> 0]
  /\ debt = 0

LimiterNext ==
  Tick \/ Fresh \/ \E c \in Clients : Acquire(c) \/ Wake(c) \/ Leave(c)

LimiterSpec == LimiterInit /\ [][LimiterNext]_limiter

-----------------------------------------------------------------------------
(* Every field of the limiter keeps its range. *)
LimiterTypeOK ==
  /\ tokens \in 0..Capacity
  /\ elapsed \in 0..Capacity
  /\ status \in [Clients -> Status]
  /\ remaining \in [Clients -> 0..Timeout]
  /\ nap \in [Clients -> 0..Grain]
  /\ debt \in Nat

(* In any stretch of time the process sends at most Burst requests more than *)
(* the rate allows for that stretch, whatever clients wait, give up or are   *)
(* cancelled in it.  `debt' is the largest excess, over all stretches that   *)
(* end now, of Grain times the grants over the ticks: it grows by Grain with *)
(* a grant and falls by one with a tick, and an empty stretch has none.      *)
Metered == debt <= Capacity
=============================================================================
