--------------------------- MODULE OmegaTrinity ---------------------------
(***************************************************************************)
(* The admission gate of src/trading/omega_trinity.rs as LiveTrader uses   *)
(* it: ResourcePulse (a budget that is only ever spent, and a count of     *)
(* attempts per second) and OmegaBreaker (a breaker on the equity curve).  *)
(* EntryGuard always admits there, since both handlers of LiveTrader pass  *)
(* it a safety score of 100.  OmegaTrinity::new seeds the breaker's equity *)
(* with the budget.                                                        *)
(*                                                                         *)
(* As in module CircuitBreaker, times are ages that stop growing at the    *)
(* value the code compares them with, and the calls are atomic because     *)
(* their callers hold the trading_mode lock.  Amounts are integers; the    *)
(* unit of equity is a hundredth of the amount of one buy, so that a sale  *)
(* with a PnL of p percent changes the equity by p.                        *)
(***************************************************************************)
EXTENDS Integers

CONSTANTS Budget,           \* budget_sol
          MaxRps,           \* max_rps
          MaxDrawdownPct,   \* max_drawdown_pct
          OmegaCooldown,    \* cooldown_secs
          EquityScale       \* units of equity in one unit of the budget

ASSUME OmegaAssumption ==
    /\ Budget \in Nat
    /\ MaxRps \in Nat
    /\ MaxDrawdownPct \in Nat \ {0}
    /\ OmegaCooldown \in Nat
    /\ EquityScale \in Nat

VARIABLES
    spent,        \* spent_lamports
    requests,     \* request_count
    windowAge,    \* age of window_start, 0 or 1 (one second or more)
    omegaOpen,    \* state = STATE_OPEN
    peak,         \* peak_value
    current,      \* current_value
    omegaAge      \* age of last_triggered, NotTripped before the first trip

omegaVars ==
    <<spent, requests, windowAge, omegaOpen, peak, current, omegaAge>>

NotTripped == -1

\* baseline_value, where the equity curve starts, and starts over after a
\* cooldown: seed_equity(budget_sol).
Baseline == Budget * EquityScale

OmegaTypeOK ==
    /\ spent \in Nat
    /\ requests \in 0..MaxRps
    /\ windowAge \in {0, 1}
    /\ omegaOpen \in BOOLEAN
    /\ peak \in Nat
    /\ current \in Nat
    /\ omegaAge \in Nat \cup {NotTripped}

OmegaInit ==
    /\ spent = 0
    /\ requests = 0
    /\ windowAge = 0
    /\ omegaOpen = FALSE
    /\ peak = Baseline
    /\ current = Baseline
    /\ omegaAge = NotTripped

-----------------------------------------------------------------------------
\* maybe_reset_window: a window of a second or more is started afresh.
WindowRequests == IF windowAge = 1 THEN 0 ELSE requests

WithinBudget(cost) == spent + cost <= Budget
WithinRate == WindowRequests < MaxRps
CooledDown == omegaAge # NotTripped /\ omegaAge >= OmegaCooldown

\* ResourcePulse::check fails on the budget before it looks at the window.
RejectBudget(cost) ==
    /\ ~WithinBudget(cost)
    /\ UNCHANGED omegaVars

RejectRate(cost) ==
    /\ WithinBudget(cost)
    /\ ~WithinRate
    /\ requests' = WindowRequests
    /\ windowAge' = 0
    /\ UNCHANGED <<spent, omegaOpen, peak, current, omegaAge>>

\* OmegaBreaker::check: the window was already restarted if it was due.
RejectOpen(cost) ==
    /\ WithinBudget(cost)
    /\ WithinRate
    /\ omegaOpen /\ ~CooledDown
    /\ requests' = WindowRequests
    /\ windowAge' = 0
    /\ UNCHANGED <<spent, omegaOpen, peak, current, omegaAge>>

Reject(cost) == RejectBudget(cost) \/ RejectRate(cost) \/ RejectOpen(cost)

\* Mutant of Admit: the breaker closes, but keeps the old equity curve.
AdmitKeepingCurve(cost) ==
    /\ WithinBudget(cost)
    /\ WithinRate
    /\ omegaOpen => CooledDown
    /\ requests' = WindowRequests + 1
    /\ windowAge' = 0
    /\ omegaOpen' = FALSE
    /\ UNCHANGED <<spent, peak, current, omegaAge>>

\* should_trade admits, closing a breaker that has cooled down on its
\* baseline, and the handler counts the attempt (record_attempt).
Admit(cost) ==
    /\ WithinBudget(cost)
    /\ WithinRate
    /\ omegaOpen => CooledDown
    /\ requests' = WindowRequests + 1
    /\ windowAge' = 0
    /\ omegaOpen' = FALSE
    /\ peak' = IF omegaOpen THEN Baseline ELSE peak
    /\ current' = IF omegaOpen THEN Baseline ELSE current
    /\ UNCHANGED <<spent, omegaAge>>

\* ResourcePulse::record_spend
RecordSpend(cost) ==
    /\ spent' = spent + cost
    /\ UNCHANGED <<requests, windowAge, omegaOpen, peak, current, omegaAge>>

\* OmegaBreaker::record_pnl: equity never goes below zero; a drawdown at the
\* limit trips the breaker, again if it is already open.
Equity(p) == IF current + p > 0 THEN current + p ELSE 0

\* Mutant of PeakAfter: the peak follows the curve down as well.
PeakFollows(p) == Equity(p)

PeakAfter(p) == IF Equity(p) > peak THEN Equity(p) ELSE peak

DrawdownAtLimit(p) ==
    /\ PeakAfter(p) > 0
    /\ (PeakAfter(p) - Equity(p)) * 100 >= MaxDrawdownPct * PeakAfter(p)

RecordPnl(p) ==
    /\ current' = Equity(p)
    /\ peak' = PeakAfter(p)
    /\ omegaOpen' = (omegaOpen \/ DrawdownAtLimit(p))
    /\ omegaAge' = IF DrawdownAtLimit(p) THEN 0 ELSE omegaAge
    /\ UNCHANGED <<spent, requests, windowAge>>

\* A second passes.
TickOmega ==
    /\ windowAge' = 1
    /\ omegaAge' = IF omegaAge # NotTripped /\ omegaAge < OmegaCooldown
                     THEN omegaAge + 1 ELSE omegaAge
    /\ UNCHANGED <<spent, requests, omegaOpen, peak, current>>

-----------------------------------------------------------------------------
\* The gate on its own: admissions, spending, sales and time in any order,
\* for the given costs of a buy and PnLs of a sale.
OmegaNext(costs, ps) ==
    \/ \E cost \in costs : Reject(cost) \/ Admit(cost) \/ RecordSpend(cost)
    \/ \E p \in ps : RecordPnl(p)
    \/ TickOmega

OmegaSpec == OmegaInit /\ [][OmegaNext(Nat, Int)]_omegaVars

\* A closed breaker stands on an equity curve within the drawdown limit: no
\* sale, and no reset after a cooldown, leaves it closed on a curve that
\* should have tripped it.
OmegaClosedIsHealthy == ~omegaOpen => ~DrawdownAtLimit(0)

=============================================================================
