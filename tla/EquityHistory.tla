--------------------------- MODULE EquityHistory ---------------------------
(***************************************************************************)
(* The admission gate with a record of the losses in a row, and what its   *)
(* breaker promises in terms of that record.  The record only observes: it *)
(* adds up what the sales have lost, never how the equity curve stands.    *)
(***************************************************************************)
EXTENDS OmegaTrinity

VARIABLE bled   \* lost since the last gain and since the breaker closed

bledVars == <<omegaVars, bled>>

BledInit == OmegaInit /\ bled = 0

\* The record starts over where the curve does: the breaker closes.
CountedAdmit(cost) ==
    /\ Admit(cost)
    /\ bled' = IF omegaOpen THEN 0 ELSE bled

CountedPnl(p) ==
    /\ RecordPnl(p)
    /\ bled' = IF p > 0 THEN 0 ELSE bled - p

BledNext(costs, ps) ==
    \/ \E cost \in costs :
          \/ CountedAdmit(cost)
          \/ (Reject(cost) \/ RecordSpend(cost)) /\ UNCHANGED bled
    \/ \E p \in ps : CountedPnl(p)
    \/ TickOmega /\ UNCHANGED bled

BledSpec == BledInit /\ [][BledNext(Nat, Int)]_bledVars

-----------------------------------------------------------------------------
\* The breaker can trip at all: a curve that starts at zero has no drawdown,
\* and no curve falls by more than all of its peak.
CanTrip == Baseline > 0 /\ MaxDrawdownPct <= 100

\* Sustained small losses halt the trading: losses in a row that add up to
\* the drawdown limit find the breaker open, however small each of them is
\* and however far below its peak the run began, before the first trip and
\* again after every cooldown.
BleedHalts ==
    CanTrip /\ bled > 0 /\ bled * 100 >= MaxDrawdownPct * peak => omegaOpen

=============================================================================
