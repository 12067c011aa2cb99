-------------------------- MODULE CircuitBreaker --------------------------
(***************************************************************************)
(* The loss breaker of the trading guardrails: CircuitBreaker and the      *)
(* SafetyGuardrails operations that drive it, src/trading/safety.rs.       *)
(*                                                                         *)
(* Time is kept as ages: every recorded trade carries the seconds since it *)
(* was recorded and the breaker the seconds since it tripped, as the code  *)
(* only ever compares elapsed times with window_secs and cooldown_secs.    *)
(* Ages stop growing one past the value they are compared with, which      *)
(* keeps the state space finite and every comparison exact.                *)
(*                                                                         *)
(* The calls are atomic: each caller holds the trading_mode lock, the      *)
(* buying worker for writing and the selling loop for reading (module      *)
(* LiveTrading models the lock).                                           *)
(***************************************************************************)
EXTENDS Integers, FiniteSets, Sequences, SequencesExt

CONSTANTS MaxLosses,    \* max_consecutive_losses
          MaxDrawdown,  \* max_drawdown_percent
          Window,       \* window_secs
          Cooldown,     \* cooldown_secs
          Pnls          \* the PnL percentages a sale can realise

ASSUME BreakerAssumption ==
    /\ MaxLosses \in Nat \ {0}
    /\ MaxDrawdown \in Nat \ {0}
    /\ Window \in Nat
    /\ Cooldown \in Nat
    /\ Pnls \subseteq Int

VARIABLES
    state,      \* the AtomicU8 state
    pnls,       \* recent_trades: the PnL of the kept trades, oldest first
    ages,       \* recent_trades: their ages, in the same order
    losses,     \* consecutive_losses
    sinceTrip   \* age of last_triggered, Never before the first trip

breakerVars == <<state, pnls, ages, losses, sinceTrip>>

CLOSED == "closed"
OPEN == "open"
HALF_OPEN == "half-open"
States == {CLOSED, OPEN, HALF_OPEN}

Never == -1

-----------------------------------------------------------------------------
LossOf(p) == IF p < 0 THEN -p ELSE 0

\* The sum of the losses among the kept trades; an empty window has none.
Drawdown(ps) ==
    IF ps = <<>> THEN 0 ELSE FoldLeft(LAMBDA sum, p : sum + LossOf(p), 0, ps)

Unhealthy(run, ps) == run >= MaxLosses \/ Drawdown(ps) >= MaxDrawdown

\* The trades older than window_secs, at the front of the window, are popped
\* when a trade is pushed at its back.
NumStale == Cardinality({i \in DOMAIN ages : ages[i] > Window})
Fresh(seq) == SubSeq(seq, NumStale + 1, Len(seq))
Kept(p) == Append(Fresh(pnls), p)
KeptAges == Append(Fresh(ages), 0)

\* Mutant of LossRun: a gain takes one loss off the run instead of ending it.
LossRunDecremented(p) == IF p < 0 THEN losses + 1 ELSE losses - 1

LossRun(p) == IF p < 0 THEN losses + 1 ELSE 0

BreakerTypeOK ==
    /\ state \in States
    /\ pnls \in Seq(Int)
    /\ ages \in Seq(Nat)
    /\ Len(ages) = Len(pnls)
    /\ losses \in Nat
    /\ sinceTrip \in Nat \cup {Never}

BreakerInit ==
    /\ state = CLOSED
    /\ pnls = <<>>
    /\ ages = <<>>
    /\ losses = 0
    /\ sinceTrip = Never

-----------------------------------------------------------------------------
\* Mutants: plausible errors in the operations below.

\* confirm_recovery called before check_and_trip.
RecordConfirmingFirst(p) ==
    /\ state = HALF_OPEN
    /\ p >= 0
    /\ pnls' = <<>>
    /\ ages' = <<>>
    /\ losses' = 0
    /\ state' = CLOSED
    /\ UNCHANGED sinceTrip

\* The recovery closes the breaker but keeps the window of old losses.
RecordConfirmingKeepsWindow(p) ==
    /\ state = HALF_OPEN
    /\ p >= 0
    /\ pnls' = Kept(p)
    /\ ages' = KeptAges
    /\ losses' = 0
    /\ state' = CLOSED
    /\ UNCHANGED sinceTrip

\* check_and_trip without its early return: an open breaker trips again.
RecordKeepingRetrips(p) ==
    /\ state = OPEN \/ ~Unhealthy(LossRun(p), Kept(p))
    /\ state = HALF_OPEN => p < 0
    /\ pnls' = Kept(p)
    /\ ages' = KeptAges
    /\ losses' = LossRun(p)
    /\ sinceTrip' = IF state = OPEN /\ Unhealthy(LossRun(p), Kept(p))
                    THEN 0 ELSE sinceTrip
    /\ UNCHANGED state

-----------------------------------------------------------------------------
\* check_and_trip's trip(): not taken while the breaker is already open, so
\* the cooldown runs from the first trip.
RecordTripping(p) ==
    /\ state # OPEN
    /\ Unhealthy(LossRun(p), Kept(p))
    /\ pnls' = Kept(p)
    /\ ages' = KeptAges
    /\ losses' = LossRun(p)
    /\ state' = OPEN
    /\ sinceTrip' = 0

\* A trade that is not a loss confirms the recovery of a half-open breaker,
\* which forgets the window and the run of losses.
RecordConfirming(p) ==
    /\ state = HALF_OPEN
    /\ p >= 0
    /\ ~Unhealthy(LossRun(p), Kept(p))
    /\ pnls' = <<>>
    /\ ages' = <<>>
    /\ losses' = 0
    /\ state' = CLOSED
    /\ UNCHANGED sinceTrip

RecordKeeping(p) ==
    /\ \/ state = OPEN
       \/ /\ ~Unhealthy(LossRun(p), Kept(p))
          /\ state = HALF_OPEN => p < 0
    /\ pnls' = Kept(p)
    /\ ages' = KeptAges
    /\ losses' = LossRun(p)
    /\ UNCHANGED <<state, sinceTrip>>

\* SafetyGuardrails::record_pnl_percent: record_trade, check_and_trip and,
\* for p >= 0, confirm_recovery.
RecordPnlPercent(p) ==
    RecordTripping(p) \/ RecordConfirming(p) \/ RecordKeeping(p)

\* The state check_circuit_breaker leaves behind: an open breaker whose
\* cooldown has elapsed is probed.
Probed == IF state = OPEN /\ sinceTrip >= Cooldown THEN HALF_OPEN ELSE state

\* SafetyGuardrails::check_circuit_breaker: the state it leaves decides
\* whether the caller goes on; it refuses only while the breaker stays open.
CheckPasses == Probed # OPEN

CheckCircuitBreaker ==
    /\ state' = Probed
    /\ UNCHANGED <<pnls, ages, losses, sinceTrip>>

\* The breaker's part of can_open_position: is_triggered counts a half-open
\* breaker as triggered.
IsTriggered == state \in {OPEN, HALF_OPEN}

\* A second passes.
Older(age, limit) == IF age < limit THEN age + 1 ELSE age

TickBreaker ==
    /\ ages' = [i \in DOMAIN ages |-> Older(ages[i], Window + 1)]
    /\ sinceTrip' = IF sinceTrip = Never THEN Never
                                         ELSE Older(sinceTrip, Cooldown)
    /\ UNCHANGED <<state, pnls, losses>>

-----------------------------------------------------------------------------
\* The breaker on its own: sales, checks and time in any order.
BreakerNext ==
    \/ CheckCircuitBreaker
    \/ TickBreaker
    \/ \E p \in Pnls : RecordPnlPercent(p)

BreakerSpec == BreakerInit /\ [][BreakerNext]_breakerVars

\* Seconds pass, and the callers keep asking: every intent and every sale
\* begins with check_circuit_breaker.
BreakerFairness == WF_breakerVars(CheckCircuitBreaker) /\ WF_breakerVars(TickBreaker)

-----------------------------------------------------------------------------
\* A closed breaker never stands on a record that should have tripped it:
\* neither a run of losses nor a drawdown at the limit survives the way back
\* from a trip through half-open, whichever of the two limits tripped it.
ClosedIsHealthy == state = CLOSED => ~Unhealthy(losses, pnls)

\* The breaker is closed again only on a gain whose own window is within
\* the limits: old losses still in the window outweigh one good trade.
RecoveryIsEarned ==
    [][state # CLOSED /\ state' = CLOSED =>
         /\ state = HALF_OPEN
         /\ ~Unhealthy(0, Fresh(pnls))
      ]_breakerVars

\* However the losing sales keep coming in, an open breaker is probed again
\* once it has cooled down: a loss recorded meanwhile does not extend it.
OpenIsProbed == state = OPEN ~> state = HALF_OPEN

=============================================================================
