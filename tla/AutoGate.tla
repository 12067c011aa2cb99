----------------------------- MODULE AutoGate -----------------------------
(***************************************************************************)
(* The auto gate: the control-plane task of src/main.rs that judges, every *)
(* ten seconds, what the detection latencies and the Jito answers of that  *)
(* window say, and shuts or opens trading accordingly.                     *)
(*                                                                         *)
(* A window is what the task reads at one tick: the answers counted since *)
(* the previous tick, by class, and the verdict on the rolling detection   *)
(* latencies.  One tick runs without an await, and nobody else writes the  *)
(* mode or trade_enabled, so that a tick is one step.  The emergency stop  *)
(* is shared: the API and a run of 429s trigger it too, and it expires.    *)
(* The gate only acts on windows of MinSends answers counted by class; the *)
(* specification says what it does with those it was written for.          *)
(***************************************************************************)
EXTENDS Integers

CONSTANTS
    Windows,    \* the windows that can be read
    MinSends,   \* answers below which a window is not judged: 500
    MaxCount    \* the largest u32, where the counts of windows saturate

ASSUME GateAssumption ==
    /\ MinSends \in Nat
    /\ MaxCount \in Nat /\ MaxCount >= 3
    /\ Windows \subseteq [success : Nat, limited : Nat, client : Nat,
                          server : Nat, other : Nat,
                          detection : {"scarce", "good", "bad"}]

VARIABLES
    mode,       \* GATE_MODE
    enabled,    \* TRADE_ENABLED
    unstable,   \* unstable_windows
    stable,     \* stable_windows
    halfLeft,   \* half_open_windows_remaining
    stop        \* the emergency stop

gateVars == <<mode, enabled, unstable, stable, halfLeft, stop>>

NORMAL == "normal"
THROTTLED == "throttled"
PROBING == "half_open"

ShutAfter == 2
OpenAfter == 3
HalfOpenWindows == 3

\* The gate's state is well typed, and its counts stay in their ranges.
GateTypeOK ==
    /\ mode \in {NORMAL, THROTTLED, PROBING}
    /\ enabled \in BOOLEAN
    /\ unstable \in 0..MaxCount
    /\ stable \in 0..OpenAfter
    /\ halfLeft \in 0..HalfOpenWindows
    /\ stop \in BOOLEAN

GateInit ==
    /\ mode = NORMAL
    /\ enabled = TRUE
    /\ unstable = 0
    /\ stable = 0
    /\ halfLeft = 0
    /\ stop = FALSE

-----------------------------------------------------------------------------
\* Rates are in thousandths of a percent of all answers of the window.
MilliPct(n, total) == IF total = 0 THEN 0 ELSE (n * 100000) \div total

Total(w) == w.success + w.limited + w.client + w.server + w.other

Judged(w) == w.detection # "scarce" /\ Total(w) >= MinSends

Good(w) ==
    /\ w.detection = "good"
    /\ MilliPct(w.limited, Total(w)) <= 3000
    /\ MilliPct(w.server, Total(w)) <= 1000

JudgedGood(w) == Judged(w) /\ Good(w)
JudgedBad(w) == Judged(w) /\ ~Good(w)

SaturatingInc(n) == IF n < MaxCount THEN n + 1 ELSE MaxCount

\* Mutant of UnstableAfter: a window that is not judged ends the run.
UnstableAfterForgets(w) ==
    IF JudgedBad(w) THEN SaturatingInc(unstable) ELSE 0

\* The count of bad windows a tick in normal mode arrives at.
UnstableAfter(w) ==
    CASE JudgedBad(w) -> SaturatingInc(unstable)
      [] JudgedGood(w) -> 0
      [] OTHER -> unstable

\* Mutant of StableAfter: a bad window only stops the count.
StableAfterKept(w) ==
    IF JudgedGood(w) THEN SaturatingInc(stable) ELSE stable

\* The count of good windows a tick in throttled mode arrives at.
StableAfter(w) ==
    CASE JudgedGood(w) -> SaturatingInc(stable)
      [] JudgedBad(w) -> 0
      [] OTHER -> stable

-----------------------------------------------------------------------------
\* Into the throttled mode, from either of the others.
Shut ==
    /\ mode' = THROTTLED
    /\ enabled' = FALSE
    /\ stop' = TRUE
    /\ stable' = 0

StayNormal(w) ==
    /\ mode = NORMAL
    /\ UnstableAfter(w) < ShutAfter
    /\ unstable' = UnstableAfter(w)
    /\ UNCHANGED <<mode, enabled, stable, halfLeft, stop>>

\* Mutant of Throttle: the gate shuts without taking trade_enabled back.
ThrottleEnabled(w) ==
    /\ mode = NORMAL
    /\ UnstableAfter(w) >= ShutAfter
    /\ unstable' = UnstableAfter(w)
    /\ mode' = THROTTLED
    /\ stop' = TRUE
    /\ stable' = 0
    /\ UNCHANGED <<enabled, halfLeft>>

\* The count stays where it is: nothing takes it back to 0 before the gate
\* is in normal mode again and reads a good window.
Throttle(w) ==
    /\ mode = NORMAL
    /\ UnstableAfter(w) >= ShutAfter
    /\ unstable' = UnstableAfter(w)
    /\ Shut
    /\ UNCHANGED halfLeft

StayThrottled(w) ==
    /\ mode = THROTTLED
    /\ StableAfter(w) < OpenAfter
    /\ stable' = StableAfter(w)
    /\ UNCHANGED <<mode, enabled, unstable, halfLeft, stop>>

\* Mutant of HalfOpen: the windows left to probe are not set.
HalfOpenUncounted(w) ==
    /\ mode = THROTTLED
    /\ StableAfter(w) >= OpenAfter
    /\ stable' = StableAfter(w)
    /\ mode' = PROBING
    /\ enabled' = TRUE
    /\ stop' = FALSE
    /\ UNCHANGED <<unstable, halfLeft>>

\* Whoever triggered the emergency stop, the gate clears it.
HalfOpen(w) ==
    /\ mode = THROTTLED
    /\ StableAfter(w) >= OpenAfter
    /\ stable' = StableAfter(w)
    /\ mode' = PROBING
    /\ enabled' = TRUE
    /\ stop' = FALSE
    /\ halfLeft' = HalfOpenWindows
    /\ UNCHANGED unstable

\* Mutant of Regress: the good windows that opened the gate still count.
RegressKeepsCount(w) ==
    /\ mode = PROBING
    /\ JudgedBad(w)
    /\ mode' = THROTTLED
    /\ enabled' = FALSE
    /\ stop' = TRUE
    /\ UNCHANGED <<unstable, stable, halfLeft>>

Regress(w) ==
    /\ mode = PROBING
    /\ JudgedBad(w)
    /\ Shut
    /\ UNCHANGED <<unstable, halfLeft>>

\* Mutant of Probe: one good window is enough.
ProbeOnce(w) ==
    /\ mode = PROBING
    /\ JudgedGood(w)
    /\ halfLeft > 0
    /\ halfLeft' = halfLeft - 1
    /\ mode' = NORMAL
    /\ UNCHANGED <<enabled, unstable, stable, stop>>

\* A good window brings the gate one step nearer to normal mode.
Probe(w) ==
    /\ mode = PROBING
    /\ JudgedGood(w)
    /\ halfLeft > 0
    /\ halfLeft' = halfLeft - 1
    /\ IF halfLeft' = 0 THEN mode' = NORMAL ELSE UNCHANGED mode
    /\ UNCHANGED <<enabled, unstable, stable, stop>>

StayHalfOpen(w) ==
    /\ mode = PROBING
    /\ ~JudgedBad(w)
    /\ Judged(w) => halfLeft = 0
    /\ UNCHANGED gateVars

GateTick(w) ==
    \/ StayNormal(w) \/ Throttle(w)
    \/ StayThrottled(w) \/ HalfOpen(w)
    \/ Regress(w) \/ Probe(w) \/ StayHalfOpen(w)

\* The API or a run of 429s triggers the stop; a minute later it expires.
StopElsewhere ==
    /\ stop' = ~stop
    /\ UNCHANGED <<mode, enabled, unstable, stable, halfLeft>>

-----------------------------------------------------------------------------
\* What the worker reads is what the mode says: a throttled gate lets no buy
\* pass even after the emergency stop it triggered has expired or has been
\* cleared, and a gate that is not throttled does not keep trading off.
SwitchFollowsMode == enabled <=> mode # THROTTLED

=============================================================================
