---------------------------- MODULE GateHistory ----------------------------
(***************************************************************************)
(* The auto gate with a record of what it has read since it entered its    *)
(* present mode, and what its steps promise in terms of that record.  The  *)
(* record only observes: it is counted from the verdicts on the windows,   *)
(* never from the gate's own counts.                                       *)
(***************************************************************************)
EXTENDS AutoGate

VARIABLES
    good,   \* good windows since the last bad one, in the present mode
    bad,    \* bad windows since the last good one, in the present mode
    last    \* the verdict on the last window

history == <<good, bad, last>>
recorded == <<gateVars, history>>

Verdict(w) ==
    CASE JudgedGood(w) -> "good" [] JudgedBad(w) -> "bad" [] OTHER -> "none"

UpTo(limit, n) == IF n < limit THEN n ELSE limit

Record(verdict) ==
    /\ last' = verdict
    /\ good' = CASE mode' # mode \/ verdict = "bad" -> 0
                 [] mode' = mode /\ verdict = "good" -> UpTo(OpenAfter, good + 1)
                 [] OTHER -> good
    /\ bad' = CASE mode' # mode \/ verdict = "good" -> 0
                [] mode' = mode /\ verdict = "bad" -> UpTo(ShutAfter, bad + 1)
                [] OTHER -> bad

HistoryInit == GateInit /\ good = 0 /\ bad = 0 /\ last = "none"

RecordedTick(w) == GateTick(w) /\ Record(Verdict(w))

HistoryNext ==
    \/ \E w \in Windows : RecordedTick(w)
    \/ StopElsewhere /\ UNCHANGED history

HistorySpec == HistoryInit /\ [][HistoryNext]_recorded

-----------------------------------------------------------------------------
\* The gate reopens on good windows alone: three in a row from throttled to
\* half-open, three more from there to normal; windows without enough answers
\* neither help nor hinder, and one bad window takes all of it back.
ReopeningIsEarned ==
    [][mode # NORMAL /\ mode' # mode /\ mode' # THROTTLED =>
         good = OpenAfter - 1 /\ last' = "good" /\ bad = 0]_recorded

\* A gate in normal mode does not sit through two bad windows in a row, with
\* or without windows it cannot judge between them, and a half-open one not
\* through a single one.
DegradationShuts ==
    mode # THROTTLED => bad < (IF mode = NORMAL THEN ShutAfter ELSE 1)

\* Trading is shut for a degraded window: the one just read is bad.
ShutsOnDegradation ==
    [][mode # THROTTLED /\ mode' = THROTTLED => last' = "bad"]_recorded

\* While good windows keep coming, a gate that is shut or half-open comes back
\* to normal unless a bad window comes between.
GoodTick == \E w \in Windows : JudgedGood(w) /\ RecordedTick(w)

Reopens == []<><<GoodTick>>_recorded => []<>(mode = NORMAL \/ last = "bad")

-----------------------------------------------------------------------------
\* The inductive invariant: the gate's own counts are the ones recorded.
CountsAgree ==
    /\ mode = NORMAL => (bad > 0 => bad <= unstable) /\ (unstable >= ShutAfter => bad = 0)
    /\ mode = THROTTLED => stable < OpenAfter /\ good = stable
    /\ mode = PROBING => good = HalfOpenWindows - halfLeft /\ halfLeft > 0 /\ bad = 0
    /\ good > 0 => bad = 0

HistoryTypeOK ==
    /\ good \in 0..OpenAfter
    /\ bad \in 0..ShutAfter
    /\ last \in {"good", "bad", "none"}

HistoryInv ==
    /\ GateTypeOK
    /\ HistoryTypeOK
    /\ SwitchFollowsMode
    /\ CountsAgree

=============================================================================
