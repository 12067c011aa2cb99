----------------------------- MODULE JitoSender -----------------------------
(***************************************************************************)
(* JitoSender::send_transaction_jito, the Jito half of every send of the   *)
(* live trader: the emergency stop, the queue and the cooldown of the rate *)
(* limiter, the choice of an endpoint, and what an answer does to all of   *)
(* them.  The trader sends one transaction at a time (it holds the         *)
(* trading_mode lock); requests to the API trigger the emergency stop or   *)
(* ask for it, and take it back, at any step.  What the trader asks before *)
(* a send (live_trader.rs:281, 747) does no more to the stop than those.   *)
(*                                                                         *)
(* The tokens of the limiter are floats refilled with time: a send that is *)
(* not cooling down may find one or not.  With one send at a time there is *)
(* always a place in the semaphore and in the concurrency budget.          *)
(***************************************************************************)
EXTENDS EmergencyStop

CONSTANTS
    MaxQueueDepth,      \* JITO_MAX_QUEUE_DEPTH: 128
    StopAfter,          \* MAX_CONSECUTIVE_429_BEFORE_STOP: 50
    BackoffBase,        \* 2 seconds
    BackoffCap,         \* 30 seconds
    NumEndpoints,
    MaxHealth,          \* 100, of which a 429 takes 30, an error 10,
    LimitedPenalty,     \*   and which a success gives back 10
    ErrorPenalty,
    SuccessReward

ASSUME SenderAssumption ==
    /\ {MaxQueueDepth, StopAfter, BackoffBase, NumEndpoints} \subseteq Nat \ {0}
    /\ {BackoffCap, MaxHealth, LimitedPenalty, ErrorPenalty, SuccessReward} \subseteq Nat

VARIABLES
    at,         \* where the trader is in the send
    depth,      \* queue_depth
    cool,       \* seconds until cooldown_until
    run429,     \* consecutive_429
    health,     \* the score of each endpoint
    cursor,     \* current: where the pool starts to look
    picked,     \* the endpoint of the send in progress
    quiet,      \* recorded: seconds since the last 429
    refused     \* recorded: 429s since a success or the end of a stop

limiterVars == <<depth, cool, run429>>
poolVars == <<health, cursor>>
recordedVars == <<quiet, refused>>
senderVars == <<at, limiterVars, poolVars, picked, recordedVars>>
jitoVars == <<stopVars, senderVars>>

Endpoints == 0..(NumEndpoints - 1)
Asking == {"entry", "slot", "token", "budget"}

Least(a, b) == IF a < b THEN a ELSE b
Greatest(a, b) == IF a < b THEN b ELSE a

\* Bound: runs beyond it are told apart by nothing.
RunCap == Greatest(StopAfter, 5)

LimiterTypeOK ==
    /\ at \in Asking \cup {"idle", "sending", "stopping", "rotating"}
    /\ depth \in 0..MaxQueueDepth
    /\ cool \in 0..BackoffCap
    /\ run429 \in 0..RunCap
    /\ quiet \in 0..BackoffCap
    /\ refused \in 0..StopAfter

PoolTypeOK ==
    /\ health \in [Endpoints -> 0..MaxHealth]
    /\ cursor \in Endpoints
    /\ picked \in Endpoints

SenderInit ==
    /\ StopInit
    /\ at = "idle"
    /\ depth = 0
    /\ cool = 0
    /\ run429 = 0
    /\ health = [e \in Endpoints |-> MaxHealth]
    /\ cursor = 0
    /\ picked = 0
    /\ quiet = BackoffCap
    /\ refused = 0

-----------------------------------------------------------------------------
\* The limiter's backoff doubles with each of the first 429s of a run.
Backoff(k) ==
    Least(BackoffCap, BackoffBase * <<1, 2, 4, 8, 16>>[Least(k, 5)])

\* The pool keeps its current endpoint unless another scores strictly better,
\* and of those the first best.
Steps(e) == (e - cursor + NumEndpoints) % NumEndpoints

Pick ==
    CHOOSE e \in Endpoints : \A f \in Endpoints :
        \/ health[e] > health[f]
        \/ health[e] = health[f] /\ Steps(e) <= Steps(f)

Scored(gain) == [health EXCEPT ![picked] = Least(MaxHealth, Greatest(0, @ + gain))]

\* The trader uses what is_jito_emergency_stop_active has returned.
Told(point, v) ==
    /\ at = point
    /\ verdict = v
    /\ verdict' = "none"
    /\ UNCHANGED <<active, stamp, reset, pc, raceVars>>

-----------------------------------------------------------------------------
StartSend ==
    /\ at = "idle"
    /\ pc[TRADER] = "idle"
    /\ at' = "entry"
    /\ UNCHANGED <<stopVars, limiterVars, poolVars, picked, recordedVars>>

\* Every gate on the way asks for the stop.
AskStop ==
    /\ at \in Asking
    /\ verdict = "none"
    /\ Ask(TRADER)
    /\ UNCHANGED senderVars

Blocked ==
    /\ Told("entry", "stopped") \/ Told("slot", "stopped")
    /\ at' = "idle"
    /\ UNCHANGED <<limiterVars, poolVars, picked, recordedVars>>

Unblocked ==
    /\ Told("entry", "open")
    /\ at' = "slot"
    /\ UNCHANGED <<limiterVars, poolVars, picked, recordedVars>>

\* A full queue drops the request.
Queue ==
    /\ Told("slot", "open")
    /\ IF depth < MaxQueueDepth
       THEN depth' = depth + 1 /\ at' = "token"
       ELSE at' = "idle" /\ UNCHANGED depth
    /\ UNCHANGED <<cool, run429, poolVars, picked, recordedVars>>

GiveUpToken ==
    /\ Told("token", "stopped")
    /\ depth' = depth - 1
    /\ at' = "idle"
    /\ UNCHANGED <<cool, run429, poolVars, picked, recordedVars>>

\* Cooling down, or without a token, the send sleeps and asks again.
SleepForToken ==
    /\ Told("token", "open")
    /\ UNCHANGED senderVars

\* Mutant of TakeToken: the cooldown is not looked at.
TakeTokenHot ==
    /\ Told("token", "open")
    /\ at' = "budget"
    /\ UNCHANGED <<limiterVars, poolVars, picked, recordedVars>>

TakeToken ==
    /\ Told("token", "open")
    /\ cool = 0
    /\ at' = "budget"
    /\ UNCHANGED <<limiterVars, poolVars, picked, recordedVars>>

\* The error leaves acquire_slot by `?`: its place in the queue is not given
\* back.
GiveUpBudget ==
    /\ Told("budget", "stopped")
    /\ at' = "idle"
    /\ UNCHANGED <<limiterVars, poolVars, picked, recordedVars>>

Post ==
    /\ Told("budget", "open")
    /\ depth' = depth - 1
    /\ picked' = Pick
    /\ at' = "sending"
    /\ UNCHANGED <<cool, run429, poolVars, recordedVars>>

\* Mutant of Succeed: the run of 429s goes on.
SucceedCounting ==
    /\ at = "sending"
    /\ health' = Scored(SuccessReward)
    /\ refused' = 0
    /\ at' = "idle"
    /\ UNCHANGED <<stopVars, limiterVars, cursor, picked, quiet>>

Succeed ==
    /\ at = "sending"
    /\ health' = Scored(SuccessReward)
    /\ run429' = 0
    /\ refused' = 0
    /\ at' = "idle"
    /\ UNCHANGED <<stopVars, depth, cool, cursor, picked, quiet>>

\* A transport error, a timeout, or any other status.
Fail ==
    /\ at = "sending"
    /\ health' = Scored(-ErrorPenalty)
    /\ at' = "idle"
    /\ UNCHANGED <<stopVars, limiterVars, cursor, picked, recordedVars>>

\* Mutant of RunAfter: the run outlives the stop it led to.
RunAfterStop == Least(RunCap, run429 + 1)

\* The run this 429 makes: the end of a stop has started a new one.
RunAfter == Least(RunCap, (IF reset THEN 0 ELSE run429) + 1)

Limited ==
    /\ at = "sending"
    /\ reset' = FALSE
    /\ run429' = RunAfter
    /\ cool' = Greatest(cool, Backoff(RunAfter))
    /\ at' = IF RunAfter >= StopAfter THEN "stopping" ELSE "rotating"
    /\ quiet' = 0
    /\ refused' = Least(StopAfter, refused + 1)
    /\ UNCHANGED <<active, stamp, pc, verdict, raceVars, depth, poolVars, picked>>

StopAfterRun ==
    /\ at = "stopping"
    /\ Trigger(TRADER)
    /\ at' = "rotating"
    /\ UNCHANGED <<limiterVars, poolVars, picked, recordedVars>>

Rotate ==
    /\ at = "rotating"
    /\ pc[TRADER] = "idle"
    /\ health' = Scored(-LimitedPenalty)
    /\ cursor' = (picked + 1) % NumEndpoints
    /\ at' = "idle"
    /\ UNCHANGED <<stopVars, limiterVars, picked, recordedVars>>

-----------------------------------------------------------------------------
\* The steps inside the functions of the emergency stop.
StopAccess(p) ==
    /\ Access(p)
    /\ refused' = IF active /\ ~active' THEN 0 ELSE refused
    /\ UNCHANGED <<at, limiterVars, poolVars, picked, quiet>>

\* POST /api/emergency_stop and GET /metrics, none of which waits for another.
ApiTrigger(h) == Trigger(h) /\ UNCHANGED senderVars
ApiMetrics(h) == Ask(h) /\ UNCHANGED senderVars

ApiStep(h) == ApiTrigger(h) \/ ApiMetrics(h) \/ StopAccess(h)

Second ==
    /\ StopSecond
    /\ cool' = Greatest(0, cool - 1)
    /\ quiet' = Least(BackoffCap, quiet + 1)
    /\ UNCHANGED <<at, depth, run429, poolVars, picked, refused>>

TraderNext ==
    \/ StartSend \/ AskStop \/ StopAccess(TRADER)
    \/ Blocked \/ Unblocked \/ Queue
    \/ GiveUpToken \/ SleepForToken \/ TakeToken
    \/ GiveUpBudget \/ Post
    \/ Succeed \/ Fail \/ Limited \/ StopAfterRun \/ Rotate

SenderNext == TraderNext \/ (\E h \in Handlers : ApiStep(h)) \/ Second

SenderSpec == SenderInit /\ [][SenderNext]_jitoVars

-----------------------------------------------------------------------------
\* The flag of a stop is down, but not all of its stores are made: the run of
\* 429s that led to it is not reset yet.
Rearming == \E p \in Procs : pc[p] \in {"unstamping", "rearming"}

\* The sender stops all trading only for a whole run of 429s, none of them
\* from before a success or from before the end of the last stop; excepted is
\* a 429 to a send that slips through while that end is not complete.
StopIsEarned ==
    [][at = "sending" /\ at' = "stopping" => refused' = StopAfter \/ Rearming]_jitoVars

\* No send leaves before the backoff of the run it follows is over.
BackoffIsKept ==
    [][at = "token" /\ at' = "budget" /\ run429 > 0 =>
         quiet >= Backoff(run429)]_jitoVars

\* A stop that has its time ends, as long as sends ask for it: "auto-cleared
\* after {}s cooldown".  One is excepted, triggered while a task takes an
\* earlier one back: its time may be wiped out (see StopEnds).
StampedStopEnds ==
    []<><<AskStop>>_jitoVars =>
        (active /\ stamp # NoStamp /\ \A p \in Procs : pc[p] # "unstamping") ~> ~active

\* The inductive invariant.  The stop, unless it was triggered in a race: who
\* still has to store its time has triggered it, alone, and nobody judges by a
\* time that is older than the stop.
UnracedInv ==
    /\ \A p \in Procs : pc[p] = "stamping" =>
          /\ active
          /\ stamp = NoStamp
          /\ ~TakingBack(Procs)
          /\ \A q \in Procs \ {p} : pc[q] # "stamping"
    /\ stamp <= since
    /\ TakingBack(Procs) => since = StopLimit
    /\ ~active /\ ~TakingBack(Procs) => stamp = NoStamp

\* Where the trader is in its send and where in the functions of the stop.
TraderInv ==
    /\ at \in {"idle", "sending", "stopping"} => pc[TRADER] = "idle"
    /\ at = "rotating" => pc[TRADER] \in {"idle", "stamping"}
    /\ at \in Asking => pc[TRADER] # "stamping"
    /\ verdict # "none" => at \in Asking /\ pc[TRADER] = "idle"

\* The run: it counts nothing from before a success or the complete end of a
\* stop, and a whole run is followed by a stop that no send gets past.
RunInv ==
    /\ at \in {"token", "budget"} => depth > 0
    /\ reset \/ Rearming \/ run429 <= refused
    /\ run429 >= StopAfter /\ at # "stopping" =>
          \/ reset \/ Rearming
          \/ active /\ at \in {"idle", "entry", "rotating"} /\ verdict # "open"

StopInv == (~raced => UnracedInv) /\ TraderInv

\* What the limiter, the stop and the run keep, whichever endpoint is picked.
LimiterInv == StopTypeOK /\ LimiterTypeOK /\ StopInv /\ RunInv

\* The stop, the run of 429s and the queue go by their rules, and the pool has
\* an endpoint to send to, with a score within its limits, after any of them.
SenderInv == LimiterInv /\ PoolTypeOK

\* "Current Jito request queue depth": the requests that wait in the queue.
QueueDepthIsCurrent == depth = IF at \in {"token", "budget"} THEN 1 ELSE 0

=============================================================================
