-------------------------- MODULE AutoGate_proofs --------------------------
(***************************************************************************)
(* What the auto gate promises, for any windows, any number of answers     *)
(* that makes a window worth judging and any width of the counts.          *)
(***************************************************************************)
EXTENDS GateHistory, TLAPS

LEMMA VerdictType ==
    \A w : /\ Verdict(w) \in {"good", "bad", "none"}
           /\ JudgedGood(w) <=> Verdict(w) = "good"
           /\ JudgedBad(w) <=> Verdict(w) = "bad"
           /\ ~Judged(w) => Verdict(w) = "none"
BY DEF Verdict, JudgedGood, JudgedBad

LEMMA IncType ==
    \A n \in 0..MaxCount :
        /\ SaturatingInc(n) \in 0..MaxCount
        /\ SaturatingInc(n) > 0
        /\ SaturatingInc(n) >= n
        /\ n < OpenAfter => SaturatingInc(n) = n + 1
BY GateAssumption DEF GateAssumption, SaturatingInc, OpenAfter

\* The invariant in two halves: what is Boolean, and the counts.
Switches ==
    /\ enabled \in BOOLEAN
    /\ stop \in BOOLEAN
    /\ SwitchFollowsMode

Counts ==
    /\ mode \in {NORMAL, THROTTLED, PROBING}
    /\ unstable \in 0..MaxCount
    /\ stable \in 0..OpenAfter
    /\ halfLeft \in 0..HalfOpenWindows
    /\ HistoryTypeOK
    /\ CountsAgree

LEMMA Halves == (HistoryInv <=> Switches /\ Counts) /\ (HistoryInv' <=> Switches' /\ Counts')
BY Zenon DEF HistoryInv, GateTypeOK, Switches, Counts

LEMMA HistoryInitInv == HistoryInit => HistoryInv
<1> SUFFICES ASSUME HistoryInit PROVE HistoryInv
  OBVIOUS
<1>1. Switches
  BY DEF HistoryInit, GateInit, Switches, SwitchFollowsMode, NORMAL, THROTTLED
<1>2. /\ mode = NORMAL /\ unstable = 0 /\ stable = 0 /\ halfLeft = 0
      /\ good = 0 /\ bad = 0 /\ last = "none"
  BY DEF HistoryInit, GateInit
<1>3. Counts
  BY <1>2, GateAssumption DEF GateAssumption, Counts, HistoryTypeOK, CountsAgree, NORMAL, THROTTLED, PROBING, OpenAfter, ShutAfter, HalfOpenWindows
<1> QED
  BY <1>1, <1>3, Halves

\* Whatever moves the mode sets the switch that the worker reads.
LEMMA TickKeepsSwitches ==
    ASSUME Switches, NEW w \in Windows, GateTick(w)
    PROVE  Switches'
<1> USE DEF Switches, SwitchFollowsMode, NORMAL, THROTTLED, PROBING
<1>1. CASE StayNormal(w) \/ StayThrottled(w) \/ StayHalfOpen(w)
  BY <1>1 DEF StayNormal, StayThrottled, StayHalfOpen, gateVars
<1>2. CASE Throttle(w) \/ Regress(w)
  BY <1>2 DEF Throttle, Regress, Shut
<1>3. CASE HalfOpen(w)
  BY <1>3 DEF HalfOpen
<1>4. CASE Probe(w)
  BY <1>4 DEF Probe
<1> QED
  BY <1>1, <1>2, <1>3, <1>4 DEF GateTick

\* The gate's counts and the recorded ones move together, action by action.
LEMMA TickKeepsCounts ==
    ASSUME Counts, NEW w \in Windows, RecordedTick(w)
    PROVE  Counts'
<1> DEFINE V == Verdict(w)
<1> USE DEF NORMAL, THROTTLED, PROBING, OpenAfter, ShutAfter, HalfOpenWindows
<1>v. /\ V \in {"good", "bad", "none"}
      /\ JudgedGood(w) <=> V = "good"
      /\ JudgedBad(w) <=> V = "bad"
      /\ ~Judged(w) => V = "none"
  BY VerdictType
<1>i. Record(V)
  BY DEF RecordedTick
<1>u. /\ unstable \in 0..MaxCount /\ stable \in 0..MaxCount
      /\ MaxCount \in Nat /\ MaxCount >= 3
  BY GateAssumption DEF GateAssumption, Counts
<1>a. /\ SaturatingInc(unstable) \in 0..MaxCount
      /\ SaturatingInc(unstable) > 0
      /\ SaturatingInc(unstable) >= unstable
      /\ unstable < 3 => SaturatingInc(unstable) = unstable + 1
  BY <1>u, IncType
<1>b. /\ SaturatingInc(stable) \in 0..MaxCount
      /\ stable < 3 => SaturatingInc(stable) = stable + 1
  BY <1>u, IncType
<1> HIDE DEF V
<1> USE <1>v, <1>i, <1>u DEF Counts, HistoryTypeOK, CountsAgree, Record, UpTo
<1>1. CASE StayNormal(w)
  BY <1>1, <1>a DEF StayNormal, UnstableAfter
<1>2. CASE Throttle(w)
  BY <1>2, <1>a DEF Throttle, Shut, UnstableAfter
<1>3. CASE StayThrottled(w)
  BY <1>3, <1>b DEF StayThrottled, StableAfter
<1>4. CASE HalfOpen(w)
  BY <1>4, <1>b DEF HalfOpen, StableAfter
<1>5. CASE Regress(w)
  BY <1>5 DEF Regress, Shut
<1>6. CASE Probe(w)
  BY <1>6 DEF Probe
<1>7. CASE StayHalfOpen(w)
  BY <1>7 DEF StayHalfOpen, gateVars, JudgedGood
<1> QED
  BY <1>1, <1>2, <1>3, <1>4, <1>5, <1>6, <1>7 DEF RecordedTick, GateTick

\* The stop is nobody's count: triggered or expired, the rest stands.
LEMMA StopKeepsInv ==
    ASSUME HistoryInv, \/ StopElsewhere /\ UNCHANGED history
                       \/ UNCHANGED recorded
    PROVE  HistoryInv'
<1>1. /\ UNCHANGED <<mode, enabled, unstable, stable, halfLeft, good, bad, last>>
      /\ stop' = ~stop \/ stop' = stop
  BY DEF StopElsewhere, history, recorded, gateVars
<1>2. Switches'
  BY <1>1, Halves, Zenon DEF Switches, SwitchFollowsMode
<1>3. Counts'
  BY <1>1, Halves DEF Counts, HistoryTypeOK, CountsAgree
<1> QED
  BY <1>2, <1>3, Halves

\* The inductive invariant of the gate with its record: its counts of windows
\* are the ones that were read, in every mode (src/main.rs, the match on mode).
THEOREM HistoryAgrees == HistorySpec => []HistoryInv
<1>1. HistoryInv /\ [HistoryNext]_recorded => HistoryInv'
  <2>1. ASSUME HistoryInv, NEW w \in Windows, RecordedTick(w)
        PROVE  HistoryInv'
    BY <2>1, Halves, TickKeepsSwitches, TickKeepsCounts DEF RecordedTick
  <2> QED
    BY <2>1, StopKeepsInv DEF HistoryNext
<1> QED
  BY HistoryInitInv, <1>1, PTL DEF HistorySpec

\* What the exec worker reads follows the mode, whatever the stop does.
THEOREM SwitchAlwaysFollowsMode == HistorySpec => []SwitchFollowsMode
<1>1. HistoryInv => SwitchFollowsMode
  BY DEF HistoryInv
<1> QED
  BY HistoryAgrees, <1>1, PTL

\* Two bad windows in a row shut a normal gate, one a half-open one.
THEOREM DegradationAlwaysShuts == HistorySpec => []DegradationShuts
<1>1. HistoryInv => DegradationShuts
  BY GateAssumption DEF HistoryInv, GateTypeOK, HistoryTypeOK, CountsAgree, DegradationShuts, NORMAL,
     THROTTLED, PROBING, ShutAfter, OpenAfter, HalfOpenWindows
<1> QED
  BY HistoryAgrees, <1>1, PTL

\* No mode opens the gate on anything but three good windows without a bad one.
THEOREM ReopeningAlwaysEarned == HistorySpec => ReopeningIsEarned
<1> DEFINE Earned == mode # NORMAL /\ mode' # mode /\ mode' # THROTTLED =>
                       good = OpenAfter - 1 /\ last' = "good" /\ bad = 0
<1>1. ASSUME HistoryInv, NEW w \in Windows, RecordedTick(w)
      PROVE  Earned
  <2> USE <1>1, GateAssumption DEF GateAssumption, NORMAL, THROTTLED, PROBING, OpenAfter,
          HalfOpenWindows
  <2>v. /\ JudgedGood(w) <=> Verdict(w) = "good"
        /\ last' = Verdict(w)
    BY VerdictType DEF RecordedTick, Record
  <2>t. /\ stable \in 0..OpenAfter /\ stable \in 0..MaxCount
        /\ halfLeft \in 0..HalfOpenWindows
        /\ mode = THROTTLED => stable < OpenAfter /\ good = stable
        /\ mode = PROBING => good = HalfOpenWindows - halfLeft /\ halfLeft > 0 /\ bad = 0
        /\ good > 0 => bad = 0
    BY DEF HistoryInv, GateTypeOK, CountsAgree
  <2>i. stable < 3 => SaturatingInc(stable) = stable + 1
    BY <2>t, IncType
  <2>1. CASE HalfOpen(w)
    BY <2>1, <2>v, <2>t, <2>i DEF HalfOpen, StableAfter
  <2>2. CASE Probe(w)
    BY <2>2, <2>v, <2>t DEF Probe
  <2>3. CASE StayNormal(w) \/ Throttle(w) \/ StayThrottled(w) \/ Regress(w)
               \/ StayHalfOpen(w)
    BY <2>3 DEF StayNormal, Throttle, StayThrottled, Regress, StayHalfOpen,
       Shut, gateVars
  <2> QED
    BY <2>1, <2>2, <2>3 DEF RecordedTick, GateTick
<1>2. HistoryInv /\ [HistoryNext]_recorded => [Earned]_recorded
  BY <1>1 DEF HistoryNext, StopElsewhere
<1> QED
  BY HistoryAgrees, <1>2, PTL DEF HistorySpec, ReopeningIsEarned

=============================================================================
