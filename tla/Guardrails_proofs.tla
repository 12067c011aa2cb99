-------------------------- MODULE Guardrails_proofs --------------------------
(***************************************************************************)
(* Proofs about the two guardrails of live trading, each for every value   *)
(* of its constants.                                                       *)
(*                                                                         *)
(* The loss breaker: ClosedIsHealthy is inductive given the types; what    *)
(* makes it so is that no step forgets a loss while the breaker stays      *)
(* closed, except by pushing a trade, and that push is judged by its own   *)
(* window.  That the way back is earned needs what the fold of Drawdown    *)
(* computes.  The admission gate: every budget, rate, limit and baseline,  *)
(* whatever buys cost and sales realise.                                   *)
(***************************************************************************)
EXTENDS CircuitBreaker, EquityHistory, FiniteSetTheorems, SequenceTheorems,
        WellFoundedInduction, TLAPS

-----------------------------------------------------------------------------
\* The number of trades that record_trade pops lies between none and all.
LEMMA NumStaleType ==
    ASSUME BreakerTypeOK
    PROVE  NumStale \in Nat /\ NumStale <= Len(ages)
<1> DEFINE Stale == {i \in DOMAIN ages : ages[i] > Window}
<1>1. DOMAIN ages = 1 .. Len(ages) /\ Len(ages) \in Nat
  BY LenProperties DEF BreakerTypeOK
<1>2. IsFiniteSet(1 .. Len(ages)) /\ Cardinality(1 .. Len(ages)) = Len(ages)
  <2>1. /\ IsFiniteSet(1 .. Len(ages))
        /\ Cardinality(1 .. Len(ages)) =
              IF 1 > Len(ages) THEN 0 ELSE Len(ages) - 1 + 1
    <3>1. 1 \in Int /\ Len(ages) \in Int
      BY <1>1
    <3> QED
      BY <3>1, FS_Interval, Zenon
  <2> QED
    BY <1>1, <2>1
<1>3. Stale \in SUBSET (1 .. Len(ages))
  BY <1>1
<1>4. IsFiniteSet(Stale) /\ Cardinality(Stale) <= Len(ages)
  BY <1>2, <1>3, FS_Subset
<1>5. Cardinality(Stale) \in Nat
  BY <1>4, FS_CardinalityType
<1> QED
  BY <1>4, <1>5 DEF NumStale

\* Popping the stale trades leaves a sequence over the same values.
LEMMA FreshType ==
    ASSUME BreakerTypeOK, NEW S, NEW seq \in Seq(S), Len(seq) = Len(ages)
    PROVE  Fresh(seq) \in Seq(S) /\ Len(Fresh(seq)) = Len(ages) - NumStale
<1>1. NumStale \in Nat /\ NumStale <= Len(ages) /\ Len(ages) \in Nat
  BY NumStaleType, LenProperties DEF BreakerTypeOK
<1>2. \A i \in NumStale + 1 .. Len(seq) : seq[i] \in S
  BY <1>1, ElementOfSeq
<1>3. /\ SubSeq(seq, NumStale + 1, Len(seq)) \in Seq(S)
      /\ Len(SubSeq(seq, NumStale + 1, Len(seq))) =
            IF NumStale + 1 <= Len(seq) THEN Len(seq) - (NumStale + 1) + 1 ELSE 0
  BY <1>1, <1>2, SubSeqProperties
<1> QED
  BY <1>1, <1>3 DEF Fresh

\* After a push both halves of the window have the same, right shape.
LEMMA KeptType ==
    ASSUME BreakerTypeOK, NEW p \in Int
    PROVE  /\ Kept(p) \in Seq(Int)
           /\ KeptAges \in Seq(Nat)
           /\ Len(KeptAges) = Len(Kept(p))
<1>1. /\ Fresh(pnls) \in Seq(Int)
      /\ Fresh(ages) \in Seq(Nat)
      /\ Len(Fresh(pnls)) = Len(Fresh(ages))
  BY FreshType DEF BreakerTypeOK
<1>2. Kept(p) \in Seq(Int) /\ Len(Kept(p)) = Len(Fresh(pnls)) + 1
  BY <1>1, AppendProperties DEF Kept
<1>3. KeptAges \in Seq(Nat) /\ Len(KeptAges) = Len(Fresh(ages)) + 1
  BY <1>1, AppendProperties DEF KeptAges
<1> QED
  BY <1>1, <1>2, <1>3

-----------------------------------------------------------------------------
\* What each operation does to the type invariant; the composed system
\* cites these lemmas for its own.
LEMMA RecordType ==
    ASSUME BreakerTypeOK, NEW p \in Int, RecordPnlPercent(p)
    PROVE  BreakerTypeOK'
<1>1. LossRun(p) \in Nat
  BY DEF LossRun, BreakerTypeOK
<1>2. CASE RecordTripping(p)
  BY <1>1, <1>2, KeptType DEF BreakerTypeOK, RecordTripping, States
<1>3. CASE RecordConfirming(p)
  <2>1. <<>> \in Seq(Int) /\ <<>> \in Seq(Nat)
    BY EmptySeq
  <2> QED
    BY <1>3, <2>1 DEF BreakerTypeOK, RecordConfirming, States
<1>4. CASE RecordKeeping(p)
  BY <1>1, <1>4, KeptType DEF BreakerTypeOK, RecordKeeping
<1> QED
  BY <1>2, <1>3, <1>4 DEF RecordPnlPercent

LEMMA CheckType ==
    ASSUME BreakerTypeOK, CheckCircuitBreaker
    PROVE  BreakerTypeOK'
BY DEF BreakerTypeOK, CheckCircuitBreaker, Probed, States

LEMMA TickType ==
    ASSUME BreakerTypeOK, TickBreaker
    PROVE  BreakerTypeOK'
<1>1. Len(ages) \in Nat /\ DOMAIN ages = 1 .. Len(ages)
  BY LenProperties DEF BreakerTypeOK
<1>2. \A i \in 1 .. Len(ages) : ages[i] \in Nat
  BY ElementOfSeq DEF BreakerTypeOK
<1>3. \A i \in 1 .. Len(ages) : Older(ages[i], Window + 1) \in Nat
  BY <1>2, BreakerAssumption DEF Older
<1>4. ages' = [i \in 1 .. Len(ages) |-> Older(ages[i], Window + 1)]
  BY <1>1 DEF TickBreaker
<1>5. ages' \in Seq(Nat) /\ Len(ages') = Len(ages)
  BY <1>1, <1>3, <1>4
<1>6. sinceTrip' \in Nat \cup {Never}
  BY BreakerAssumption DEF TickBreaker, Older, BreakerTypeOK, Never
<1> QED
  BY <1>5, <1>6 DEF BreakerTypeOK, TickBreaker

LEMMA BreakerInitType == BreakerInit => BreakerTypeOK
<1>1. <<>> \in Seq(Int) /\ <<>> \in Seq(Nat)
  BY EmptySeq
<1> QED
  BY <1>1 DEF BreakerInit, BreakerTypeOK, States

LEMMA BreakerStepType ==
    ASSUME BreakerTypeOK, [BreakerNext]_breakerVars
    PROVE  BreakerTypeOK'
<1>1. ASSUME NEW p \in Pnls, RecordPnlPercent(p)
      PROVE  BreakerTypeOK'
  BY <1>1, RecordType, BreakerAssumption
<1>2. CASE CheckCircuitBreaker
  BY <1>2, CheckType
<1>3. CASE TickBreaker
  BY <1>3, TickType
<1>4. CASE UNCHANGED breakerVars
  BY <1>4 DEF breakerVars, BreakerTypeOK
<1> QED
  BY <1>1, <1>2, <1>3, <1>4 DEF BreakerNext

\* The loss breaker is well typed: in particular the two halves of the window,
\* the PnLs and the ages of its trades, stay aligned however trades are popped
\* and pushed.
THEOREM BreakerTypeCorrect == BreakerSpec => []BreakerTypeOK
<1>1. BreakerInit => BreakerTypeOK
  BY BreakerInitType
<1>2. BreakerTypeOK /\ [BreakerNext]_breakerVars => BreakerTypeOK'
  BY BreakerStepType
<1> QED
  BY <1>1, <1>2, PTL DEF BreakerSpec

-----------------------------------------------------------------------------
\* No trades and no losses are within the limits.
LEMMA EmptyIsHealthy == ~Unhealthy(0, <<>>)
<1>1. Drawdown(<<>>) = 0
  BY Zenon DEF Drawdown
<1> QED
  BY <1>1, BreakerAssumption DEF Unhealthy

\* ClosedIsHealthy in the next state is about the next state's record.
LEMMA HealthyNext ==
    (state' = CLOSED => ~Unhealthy(losses', pnls')) <=> ClosedIsHealthy'
<1>1. Drawdown(pnls)' = Drawdown(pnls')
  OBVIOUS
<1> QED
  BY <1>1 DEF ClosedIsHealthy, Unhealthy

\* Recording a sale keeps a closed breaker within its limits: it trips, or
\* clears the record, or the new record was judged healthy.
LEMMA RecordHealthy ==
    ASSUME ClosedIsHealthy, NEW p \in Int, RecordPnlPercent(p)
    PROVE  ClosedIsHealthy'
<1>1. CASE RecordTripping(p)
  BY <1>1 DEF RecordTripping, ClosedIsHealthy, OPEN, CLOSED
<1>2. CASE RecordConfirming(p)
  <2>1. losses' = 0 /\ pnls' = <<>>
    BY <1>2 DEF RecordConfirming
  <2>2. ~Unhealthy(losses', pnls')
    BY <2>1, EmptyIsHealthy
  <2> QED
    BY <2>2, HealthyNext
<1>3. CASE RecordKeeping(p)
  <2>1. SUFFICES ASSUME state' = CLOSED
                 PROVE  ~Unhealthy(losses', pnls')
    BY HealthyNext
  <2>2. losses' = LossRun(p) /\ pnls' = Kept(p) /\ state = CLOSED
    BY <1>3, <2>1 DEF RecordKeeping
  <2>3. ~Unhealthy(LossRun(p), Kept(p))
    BY <1>3, <2>2 DEF RecordKeeping, OPEN, CLOSED
  <2> QED
    BY <2>2, <2>3
<1> QED
  BY <1>1, <1>2, <1>3 DEF RecordPnlPercent

\* Neither a check nor the passing of time closes the breaker or touches the
\* record it is judged by.
LEMMA OthersHealthy ==
    ASSUME ClosedIsHealthy, CheckCircuitBreaker \/ TickBreaker \/ UNCHANGED breakerVars
    PROVE  ClosedIsHealthy'
<1>1. losses' = losses /\ pnls' = pnls
  BY DEF CheckCircuitBreaker, TickBreaker, breakerVars
<1>2. state' = CLOSED => state = CLOSED
  BY DEF CheckCircuitBreaker, TickBreaker, breakerVars, Probed, CLOSED, HALF_OPEN
<1> QED
  BY <1>1, <1>2, HealthyNext DEF ClosedIsHealthy

\* A closed breaker never stands on a record that should have tripped it:
\* record_trade, confirm_recovery, check_circuit_breaker and time in any order.
THEOREM ClosedHealthy == BreakerSpec => []ClosedIsHealthy
<1>1. BreakerInit => ClosedIsHealthy
  BY EmptyIsHealthy DEF BreakerInit, ClosedIsHealthy
<1>2. BreakerTypeOK /\ ClosedIsHealthy /\ [BreakerNext]_breakerVars => ClosedIsHealthy'
  <2> SUFFICES ASSUME ClosedIsHealthy, [BreakerNext]_breakerVars
               PROVE  ClosedIsHealthy'
    OBVIOUS
  <2>1. ASSUME NEW p \in Pnls, RecordPnlPercent(p)
        PROVE  ClosedIsHealthy'
    BY <2>1, RecordHealthy, BreakerAssumption
  <2>2. CASE CheckCircuitBreaker \/ TickBreaker \/ UNCHANGED breakerVars
    BY <2>2, OthersHealthy
  <2> QED
    BY <2>1, <2>2 DEF BreakerNext
<1> QED
  BY <1>1, <1>2, BreakerTypeCorrect, PTL DEF BreakerSpec

-----------------------------------------------------------------------------
(* What the fold of Drawdown adds up to.  Its recursive function exists for *)
(* every window, by induction over the length, as the descent from a least *)
(* length for which it would not.                                          *)

LEMMA LeastNatural ==
    ASSUME NEW S, S \subseteq Nat, S # {}
    PROVE  \E m \in S : \A n \in S : m <= n
<1>1. PICK m \in S : \A n \in S : <<n, m>> \notin OpToRel(<, Nat)
  BY NatLessThanWellFounded, WFMin
<1>2. ASSUME NEW n \in S
      PROVE  m <= n
  <2>1. n \in Nat /\ m \in Nat
    OBVIOUS
  <2>2. ~ (n < m)
    BY <1>1, <2>1 DEF OpToRel
  <2> QED
    BY <2>1, <2>2
<1> QED
  BY <1>2

\* g folds the losses of ps over the sets of its first n positions.
Folds(g, ps, n) ==
    g = [s \in SUBSET (1 .. n) |->
            IF s = {} THEN 0 ELSE g[s \ {Max(s)}] + LossOf(ps[Max(s)])]

LEMMA MaxOfTop ==
    ASSUME NEW n \in Nat, NEW s \in SUBSET (1 .. n), n \in s
    PROVE  Max(s) = n
<1>1. \A y \in s : n >= y
  OBVIOUS
<1>2. \A x \in s : (\A y \in s : x >= y) => x = n
  <2> SUFFICES ASSUME NEW x \in s, \A y \in s : x >= y
               PROVE  x = n
    OBVIOUS
  <2>1. x >= n /\ n >= x /\ x \in Int
    BY <1>1
  <2> QED
    BY <2>1
<1> QED
  BY <1>1, <1>2 DEF Max

LEMMA FoldsExtend ==
    ASSUME NEW ps, NEW n \in Nat, NEW g, Folds(g, ps, n)
    PROVE  \E h : Folds(h, ps, n + 1)
<1> DEFINE Body(f, s) == IF s = {} THEN 0 ELSE f[s \ {Max(s)}] + LossOf(ps[Max(s)])
           h == [s \in SUBSET (1 .. n + 1) |->
                    IF n + 1 \in s THEN g[s \ {n + 1}] + LossOf(ps[n + 1]) ELSE g[s]]
<1>1. 1 .. n \subseteq 1 .. n + 1
  OBVIOUS
<1>2. ASSUME NEW s \in SUBSET (1 .. n)
      PROVE  h[s] = g[s] /\ g[s] = Body(g, s)
  <2>1. s \in SUBSET (1 .. n + 1) /\ n + 1 \notin s
    BY <1>1
  <2>2. h[s] = g[s]
    BY <2>1
  <2>3. g = [t \in SUBSET (1 .. n) |-> Body(g, t)]
    BY DEF Folds
  <2> QED
    BY <2>2, <2>3
<1>3. ASSUME NEW s \in SUBSET (1 .. n + 1)
      PROVE  h[s] = Body(h, s)
  <2>1. CASE n + 1 \in s
    <3>1. Max(s) = n + 1
      BY <2>1, MaxOfTop
    <3>2. s \ {n + 1} \in SUBSET (1 .. n)
      OBVIOUS
    <3> QED
      BY <2>1, <3>1, <3>2, <1>2
  <2>2. CASE n + 1 \notin s
    <3>1. s \in SUBSET (1 .. n)
      BY <2>2
    <3>2. s \ {Max(s)} \in SUBSET (1 .. n)
      BY <3>1
    <3>3. h[s \ {Max(s)}] = g[s \ {Max(s)}]
      BY <3>2, <1>2
    <3> QED
      BY <3>1, <3>3, <1>2
  <2> QED
    BY <2>1, <2>2
<1>4. h = [s \in SUBSET (1 .. n + 1) |-> h[s]]
  OBVIOUS
<1>5. h = [s \in SUBSET (1 .. n + 1) |-> Body(h, s)]
  BY <1>3, <1>4
<1> QED
  BY <1>5 DEF Folds

LEMMA FoldsExist ==
    ASSUME NEW ps, NEW n \in Nat
    PROVE  \E g : Folds(g, ps, n)
<1> DEFINE Bad == {k \in Nat : ~ \E g : Folds(g, ps, k)}
<1> SUFFICES ASSUME Bad # {}
             PROVE  FALSE
  OBVIOUS
<1>1. PICK m \in Bad : \A k \in Bad : m <= k
  BY LeastNatural
<1>2. CASE m = 0
  <2> DEFINE g == [s \in SUBSET (1 .. 0) |-> 0]
  <2>1. \A s \in SUBSET (1 .. 0) : s = {}
    OBVIOUS
  <2>2. Folds(g, ps, 0)
    BY <2>1 DEF Folds
  <2> QED
    BY <1>2, <2>2
<1>3. CASE m # 0
  <2>1. m - 1 \in Nat /\ m - 1 \notin Bad /\ (m - 1) + 1 = m
    BY <1>1, <1>3
  <2>2. \E g : Folds(g, ps, m - 1)
    BY <2>1
  <2>3. \E g : Folds(g, ps, m)
    BY <2>1, <2>2, FoldsExtend
  <2> QED
    BY <2>3
<1> QED
  BY <1>2, <1>3

\* The sums of the losses among the first trades of a window.
Sums(f, ps) ==
    /\ f[0] = 0
    /\ \A k \in 1 .. Len(ps) : f[k] = f[k - 1] + LossOf(ps[k])

\* Drawdown is the last of the sums.
LEMMA DrawdownIsSum ==
    ASSUME NEW ps \in Seq(Int)
    PROVE  \E f : Sums(f, ps) /\ Drawdown(ps) = f[Len(ps)]
<1> DEFINE n == Len(ps)
<1>1. n \in Nat /\ DOMAIN ps = 1 .. n
  BY LenProperties
<1>2. PICK g : Folds(g, ps, n) /\ (ps # <<>> => Drawdown(ps) = g[1 .. n])
  <2>1. \E h : Folds(h, ps, n)
    BY <1>1, FoldsExist
  <2>2. CASE ps = <<>>
    BY <2>1, <2>2
  <2>3. CASE ps # <<>>
    BY <1>1, <2>1, <2>3 DEF Drawdown, FoldLeft, MapThenFoldSet, Folds
  <2> QED
    BY <2>2, <2>3
<1> DEFINE f == [k \in 0 .. n |-> g[1 .. k]]
<1>3. g[{}] = 0
  BY <1>2 DEF Folds
<1>4. f[0] = 0
  BY <1>1, <1>3
<1>5. ASSUME NEW k \in 1 .. n
      PROVE  f[k] = f[k - 1] + LossOf(ps[k])
  <2>0. k \in Nat /\ 1 <= k /\ k <= n
    BY <1>1
  <2>1. 1 .. k \in SUBSET (1 .. n) /\ 1 .. k # {} /\ k \in 1 .. k
    <3>1. \A i \in 1 .. k : i \in 1 .. n
      BY <1>1, <2>0
    <3>2. k \in 1 .. k
      BY <2>0
    <3> QED
      BY <3>1, <3>2
  <2>2. Max(1 .. k) = k
    BY <2>0, <2>1, MaxOfTop
  <2>3. (1 .. k) \ {k} = 1 .. (k - 1)
    BY <2>0
  <2>4. g[1 .. k] = g[1 .. (k - 1)] + LossOf(ps[k])
    BY <1>2, <2>1, <2>2, <2>3 DEF Folds
  <2>5. k \in 0 .. n /\ k - 1 \in 0 .. n
    BY <1>1
  <2> QED
    BY <2>4, <2>5
<1>6. Drawdown(ps) = f[n]
  <2>1. CASE ps = <<>>
    BY <1>4, <2>1 DEF Drawdown
  <2>2. CASE ps # <<>>
    BY <1>1, <1>2, <2>2
  <2> QED
    BY <2>1, <2>2
<1> QED
  BY <1>4, <1>5, <1>6 DEF Sums

\* Sums over windows with the same first trades agree on them, and are naturals.
LEMMA SumsAgree ==
    ASSUME NEW ps \in Seq(Int), NEW qs \in Seq(Int), NEW f, NEW h,
           Sums(f, ps), Sums(h, qs),
           Len(ps) <= Len(qs), \A k \in 1 .. Len(ps) : ps[k] = qs[k]
    PROVE  \A k \in 0 .. Len(ps) : f[k] = h[k] /\ f[k] \in Nat
<1> DEFINE Bad == {k \in 0 .. Len(ps) : ~ (f[k] = h[k] /\ f[k] \in Nat)}
<1> SUFFICES ASSUME Bad # {}
             PROVE  FALSE
  OBVIOUS
<1>0. Len(ps) \in Nat /\ Len(qs) \in Nat
  BY LenProperties
<1>1. PICK m \in Bad : \A k \in Bad : m <= k
  <2>1. Bad \subseteq Nat
    BY <1>0
  <2> QED
    BY <2>1, LeastNatural
<1>2. m # 0
  BY DEF Sums
<1>3. m \in 1 .. Len(ps) /\ m \in 1 .. Len(qs) /\ m - 1 \in 0 .. Len(ps) /\ m - 1 \notin Bad
  BY <1>0, <1>1, <1>2
<1>4. f[m - 1] = h[m - 1] /\ f[m - 1] \in Nat
  BY <1>3
<1>5. ps[m] = qs[m] /\ ps[m] \in Int
  BY <1>3, ElementOfSeq
<1>6. LossOf(ps[m]) \in Nat
  BY <1>5 DEF LossOf
<1>7. f[m] = f[m - 1] + LossOf(ps[m]) /\ h[m] = h[m - 1] + LossOf(qs[m])
  BY <1>3 DEF Sums
<1> QED
  BY <1>4, <1>5, <1>6, <1>7

\* A trade adds its loss to the drawdown of the window it is pushed to.
LEMMA DrawdownAppend ==
    ASSUME NEW ps \in Seq(Int), NEW p \in Int
    PROVE  /\ Drawdown(ps) \in Nat
           /\ Drawdown(Append(ps, p)) = Drawdown(ps) + LossOf(p)
<1> DEFINE qs == Append(ps, p)
           n == Len(ps)
<1>1. /\ qs \in Seq(Int) /\ Len(qs) = n + 1 /\ n \in Nat
      /\ \A k \in 1 .. n : qs[k] = ps[k]
      /\ qs[n + 1] = p
  BY AppendProperties, LenProperties
<1> HIDE DEF qs
<1>2. PICK f : Sums(f, ps) /\ Drawdown(ps) = f[n]
  BY DrawdownIsSum
<1>3. PICK h : Sums(h, qs) /\ Drawdown(qs) = h[n + 1]
  BY <1>1, DrawdownIsSum
<1>4. f[n] = h[n] /\ f[n] \in Nat
  BY <1>1, <1>2, <1>3, SumsAgree
<1>5. h[n + 1] = h[n] + LossOf(p)
  <2>1. n + 1 \in 1 .. Len(qs) /\ (n + 1) - 1 = n
    BY <1>1
  <2>2. h[n + 1] = h[(n + 1) - 1] + LossOf(qs[n + 1])
    BY <1>3, <2>1 DEF Sums
  <2> QED
    BY <1>1, <2>1, <2>2
<1> QED
  BY <1>2, <1>3, <1>4, <1>5 DEF qs

\* A breaker is closed again only by a gain that its whole window can stand:
\* no losses that are still in the window are forgotten on the way, for any
\* limits, window and cooldown.
THEOREM RecoveryAlwaysEarned == BreakerSpec => RecoveryIsEarned
<1> DEFINE Earned == /\ state = HALF_OPEN
                     /\ ~Unhealthy(0, Fresh(pnls))
<1>1. ASSUME BreakerTypeOK, NEW p \in Pnls, RecordPnlPercent(p),
             state # CLOSED, state' = CLOSED
      PROVE  Earned
  <2>1. RecordConfirming(p)
    BY <1>1 DEF RecordPnlPercent, RecordTripping, RecordKeeping, OPEN, CLOSED
  <2>2. p \in Int /\ LossOf(p) = 0 /\ LossRun(p) = 0
    BY <2>1, BreakerAssumption DEF RecordConfirming, LossOf, LossRun
  <2>3. Fresh(pnls) \in Seq(Int)
    BY <1>1, FreshType DEF BreakerTypeOK
  <2>4. Drawdown(Kept(p)) = Drawdown(Fresh(pnls))
    <3>1. Drawdown(Fresh(pnls)) \in Nat
      BY <2>3, <2>2, DrawdownAppend
    <3> QED
      BY <2>2, <2>3, <3>1, DrawdownAppend DEF Kept
  <2> QED
    BY <2>1, <2>2, <2>4 DEF RecordConfirming, Unhealthy
<1>2. ASSUME CheckCircuitBreaker \/ TickBreaker \/ UNCHANGED breakerVars,
             state # CLOSED, state' = CLOSED
      PROVE  FALSE
  BY <1>2 DEF CheckCircuitBreaker, TickBreaker, breakerVars, Probed, CLOSED, HALF_OPEN
<1>3. BreakerTypeOK /\ [BreakerNext]_breakerVars
      => [state # CLOSED /\ state' = CLOSED => Earned]_breakerVars
  BY <1>1, <1>2 DEF BreakerNext
<1> QED
  BY <1>3, BreakerTypeCorrect, PTL DEF BreakerSpec, RecoveryIsEarned

-----------------------------------------------------------------------------
(* The admission gate.                                                     *)

LEMMA BaselineType == Baseline \in Nat
BY OmegaAssumption DEF Baseline

-----------------------------------------------------------------------------
\* Each operation keeps the types; the composed system cites these lemmas.
LEMMA RejectType ==
    ASSUME OmegaTypeOK, NEW cost, Reject(cost)
    PROVE  OmegaTypeOK'
BY OmegaAssumption
DEF OmegaTypeOK, Reject, RejectBudget, RejectRate, RejectOpen,
    WindowRequests, omegaVars

LEMMA AdmitType ==
    ASSUME OmegaTypeOK, NEW cost, Admit(cost)
    PROVE  OmegaTypeOK'
<1>1. requests' \in 0 .. MaxRps
  BY OmegaAssumption DEF OmegaTypeOK, Admit, WithinRate, WindowRequests
<1> QED
  BY <1>1, BaselineType DEF OmegaTypeOK, Admit

LEMMA SpendType ==
    ASSUME OmegaTypeOK, NEW cost \in Nat, RecordSpend(cost)
    PROVE  OmegaTypeOK'
BY DEF OmegaTypeOK, RecordSpend

LEMMA PnlType ==
    ASSUME OmegaTypeOK, NEW p \in Int, RecordPnl(p)
    PROVE  OmegaTypeOK'
<1>1. Equity(p) \in Nat
  BY DEF Equity, OmegaTypeOK
<1>2. PeakAfter(p) \in Nat
  BY <1>1 DEF PeakAfter, OmegaTypeOK
<1>3. omegaOpen' \in BOOLEAN
  BY DEF RecordPnl
<1>4. omegaAge' \in Nat \cup {NotTripped}
  BY DEF RecordPnl, OmegaTypeOK
<1> QED
  BY <1>1, <1>2, <1>3, <1>4 DEF OmegaTypeOK, RecordPnl

LEMMA TickOmegaType ==
    ASSUME OmegaTypeOK, TickOmega
    PROVE  OmegaTypeOK'
BY OmegaAssumption DEF OmegaTypeOK, TickOmega, NotTripped

LEMMA OmegaInitType == OmegaInit => OmegaTypeOK
<1>1. 0 \in 0 .. MaxRps
  BY OmegaAssumption
<1>2. OmegaInit => omegaOpen \in BOOLEAN
  BY DEF OmegaInit
<1> QED
  BY <1>1, <1>2, BaselineType DEF OmegaInit, OmegaTypeOK

LEMMA OmegaStepType ==
    ASSUME OmegaTypeOK, [OmegaNext(Nat, Int)]_omegaVars
    PROVE  OmegaTypeOK'
<1>1. ASSUME NEW cost \in Nat, Reject(cost)
      PROVE  OmegaTypeOK'
  BY <1>1, RejectType
<1>2. ASSUME NEW cost \in Nat, Admit(cost)
      PROVE  OmegaTypeOK'
  BY <1>2, AdmitType
<1>3. ASSUME NEW cost \in Nat, RecordSpend(cost)
      PROVE  OmegaTypeOK'
  BY <1>3, SpendType
<1>4. ASSUME NEW p \in Int, RecordPnl(p)
      PROVE  OmegaTypeOK'
  BY <1>4, PnlType
<1>5. CASE TickOmega
  BY <1>5, TickOmegaType
<1>6. CASE UNCHANGED omegaVars
  BY <1>6 DEF omegaVars, OmegaTypeOK
<1> QED
  BY <1>1, <1>2, <1>3, <1>4, <1>5, <1>6 DEF OmegaNext

\* The gate is well typed: the attempts counted in a window stay within
\* max_rps, and the equity never falls below zero.
THEOREM OmegaTypeCorrect == OmegaSpec => []OmegaTypeOK
<1>1. OmegaInit => OmegaTypeOK
  BY OmegaInitType
<1>2. OmegaTypeOK /\ [OmegaNext(Nat, Int)]_omegaVars => OmegaTypeOK'
  BY OmegaStepType
<1> QED
  BY <1>1, <1>2, PTL DEF OmegaSpec

-----------------------------------------------------------------------------
\* An equity curve at its peak has no drawdown.
LEMMA AtPeakIsHealthy ==
    ASSUME peak \in Nat, current = peak
    PROVE  ~DrawdownAtLimit(0)
<1>1. Equity(0) = peak /\ PeakAfter(0) = peak
  BY DEF Equity, PeakAfter
<1>2. ASSUME peak > 0
      PROVE  MaxDrawdownPct * peak > 0
  BY <1>2, OmegaAssumption
<1> QED
  BY <1>1, <1>2, OmegaAssumption DEF DrawdownAtLimit

\* The curve that record_pnl leaves is the one it judged: its peak is not
\* below its equity, which is not below zero.
LEMMA JudgedCurve ==
    ASSUME OmegaTypeOK, NEW p \in Int, RecordPnl(p), DrawdownAtLimit(0)'
    PROVE  DrawdownAtLimit(p)
<1>1. Equity(p) \in Nat /\ PeakAfter(p) \in Nat /\ Equity(p) <= PeakAfter(p)
  BY DEF Equity, PeakAfter, OmegaTypeOK
<1>2. current' = Equity(p) /\ peak' = PeakAfter(p)
  BY DEF RecordPnl
<1>3. Equity(0)' = Equity(p)
  BY <1>1, <1>2 DEF Equity
<1>4. PeakAfter(0)' = PeakAfter(p)
  BY <1>1, <1>2, <1>3 DEF PeakAfter
<1>5. /\ PeakAfter(0)' > 0
      /\ (PeakAfter(0)' - Equity(0)') * 100 >= MaxDrawdownPct * PeakAfter(0)'
  BY DEF DrawdownAtLimit
<1> QED
  BY <1>3, <1>4, <1>5 DEF DrawdownAtLimit

\* The drawdown of a curve is a matter of the curve alone.
LEMMA SameCurve ==
    ASSUME current' = current, peak' = peak, DrawdownAtLimit(0)'
    PROVE  DrawdownAtLimit(0)
BY DEF DrawdownAtLimit, PeakAfter, Equity

\* A closed breaker stands on a curve within the drawdown limit, whatever
\* record_pnl, check (which closes it) and time do in any order.
THEOREM OmegaHealthy == OmegaSpec => []OmegaClosedIsHealthy
<1>1. OmegaInit => OmegaClosedIsHealthy
  BY AtPeakIsHealthy, BaselineType DEF OmegaInit, OmegaClosedIsHealthy
<1>2. /\ OmegaTypeOK /\ OmegaTypeOK' /\ OmegaClosedIsHealthy
      /\ [OmegaNext(Nat, Int)]_omegaVars
      => OmegaClosedIsHealthy'
  <2> SUFFICES ASSUME OmegaTypeOK, OmegaTypeOK', OmegaClosedIsHealthy,
                      [OmegaNext(Nat, Int)]_omegaVars,
                      ~omegaOpen', DrawdownAtLimit(0)'
               PROVE  FALSE
    BY DEF OmegaClosedIsHealthy
  <2>1. ASSUME current' = current, peak' = peak, omegaOpen' = omegaOpen
        PROVE  FALSE
    BY <2>1, SameCurve DEF OmegaClosedIsHealthy
  <2>2. ASSUME NEW cost \in Nat, Reject(cost) \/ RecordSpend(cost)
        PROVE  FALSE
    BY <2>1, <2>2
    DEF Reject, RejectBudget, RejectRate, RejectOpen, RecordSpend, omegaVars
  <2>3. ASSUME NEW cost \in Nat, Admit(cost)
        PROVE  FALSE
    <3>1. CASE ~omegaOpen
      BY <2>1, <2>3, <3>1 DEF Admit, OmegaTypeOK
    <3>2. CASE omegaOpen
      <4>1. current' = Baseline /\ peak' = Baseline
        BY <2>3, <3>2 DEF Admit
      <4>2. (peak \in Nat /\ current = peak => ~DrawdownAtLimit(0))'
        BY AtPeakIsHealthy, PTL
      <4> QED
        BY <4>1, <4>2, BaselineType
    <3> QED
      BY <3>1, <3>2
  <2>4. ASSUME NEW p \in Int, RecordPnl(p)
        PROVE  FALSE
    <3>1. DrawdownAtLimit(p)
      BY <2>4, JudgedCurve
    <3> QED
      BY <2>4, <3>1 DEF RecordPnl
  <2>5. CASE TickOmega \/ UNCHANGED omegaVars
    BY <2>1, <2>5 DEF TickOmega, omegaVars
  <2> QED
    BY <2>2, <2>3, <2>4, <2>5 DEF OmegaNext
<1> QED
  BY <1>1, <1>2, OmegaTypeCorrect, PTL DEF OmegaSpec
-----------------------------------------------------------------------------
(* The run of losses.  OmegaClosedIsHealthy does not tell what a sequence  *)
(* of losses has to do with the curve; RunIsDrawn does: a closed breaker's *)
(* curve lies below its peak by all of the run.  It is inductive because a *)
(* loss lowers the curve by its full amount or to zero, where a breaker    *)
(* that can trip does trip, while the peak stays.                          *)

PeakIsTop == current <= peak /\ Baseline <= peak

RunIsDrawn == CanTrip /\ ~omegaOpen => current + bled <= peak

BledInv == OmegaTypeOK /\ OmegaClosedIsHealthy /\ bled \in Nat /\ PeakIsTop /\ RunIsDrawn

\* Hiding the record leaves the gate's own step.
LEMMA BledNextIsOmega ==
    ASSUME [BledNext(Nat, Int)]_bledVars
    PROVE  [OmegaNext(Nat, Int)]_omegaVars
BY DEF BledNext, OmegaNext, CountedAdmit, CountedPnl, bledVars

\* The record counts up and starts over.
LEMMA BledType ==
    ASSUME bled \in Nat, [BledNext(Nat, Int)]_bledVars
    PROVE  bled' \in Nat
<1>1. ASSUME NEW p \in Int, CountedPnl(p)
      PROVE  bled' \in Nat
  BY <1>1 DEF CountedPnl
<1>2. ASSUME NEW cost \in Nat, CountedAdmit(cost)
      PROVE  bled' \in Nat
  BY <1>2 DEF CountedAdmit
<1>3. CASE UNCHANGED bled
  BY <1>3
<1> QED
  BY <1>1, <1>2, <1>3 DEF BledNext, bledVars

\* The curve after a sale, and what it was judged by.
LEMMA CurveAfter ==
    ASSUME OmegaTypeOK, PeakIsTop, NEW p \in Int, RecordPnl(p)
    PROVE  /\ current' = Equity(p) /\ peak' = PeakAfter(p)
           /\ Equity(p) \in Nat /\ PeakAfter(p) \in Nat
           /\ Equity(p) <= PeakAfter(p) /\ peak <= PeakAfter(p)
           /\ p <= 0 => PeakAfter(p) = peak
BY DEF RecordPnl, Equity, PeakAfter, OmegaTypeOK, PeakIsTop

LEMMA PeakStaysTop ==
    ASSUME OmegaTypeOK, PeakIsTop, [OmegaNext(Nat, Int)]_omegaVars
    PROVE  PeakIsTop'
<1>1. Baseline' = Baseline /\ Baseline \in Nat
  BY BaselineType DEF Baseline
<1>2. ASSUME UNCHANGED <<current, peak>>
      PROVE  PeakIsTop'
  BY <1>1, <1>2 DEF PeakIsTop
<1>3. ASSUME NEW cost \in Nat, Reject(cost) \/ RecordSpend(cost)
      PROVE  PeakIsTop'
  BY <1>2, <1>3
  DEF Reject, RejectBudget, RejectRate, RejectOpen, RecordSpend, omegaVars
<1>4. ASSUME NEW cost \in Nat, Admit(cost)
      PROVE  PeakIsTop'
  BY <1>1, <1>4 DEF Admit, PeakIsTop
<1>5. ASSUME NEW p \in Int, RecordPnl(p)
      PROVE  PeakIsTop'
  BY <1>1, <1>5, CurveAfter DEF PeakIsTop, OmegaTypeOK
<1>6. CASE TickOmega \/ UNCHANGED omegaVars
  BY <1>2, <1>6 DEF TickOmega, omegaVars
<1> QED
  BY <1>3, <1>4, <1>5, <1>6 DEF OmegaNext

\* A loss that takes all there is trips a breaker that can trip.
LEMMA RuinTrips ==
    ASSUME OmegaTypeOK, PeakIsTop, CanTrip, NEW p \in Int, p <= 0, current + p <= 0
    PROVE  DrawdownAtLimit(p)
<1>1. Equity(p) = 0
  BY DEF Equity, OmegaTypeOK
<1>2. PeakAfter(p) = peak /\ peak \in Nat /\ peak > 0
  BY <1>1, BaselineType DEF PeakAfter, PeakIsTop, CanTrip, OmegaTypeOK
<1>3. MaxDrawdownPct \in Nat /\ MaxDrawdownPct <= 100
  BY OmegaAssumption DEF CanTrip
<1>4. \A m \in Nat, q \in Nat : m <= 100 => m * q <= 100 * q
  <2> SUFFICES ASSUME NEW m \in Nat, NEW q \in Nat, m <= 100
               PROVE  m * q <= 100 * q
    OBVIOUS
  <2>1. (100 - m) * q >= 0
    OBVIOUS
  <2> QED
    BY <2>1
<1>5. (peak - 0) * 100 >= MaxDrawdownPct * peak
  BY <1>2, <1>3, <1>4
<1> QED
  BY <1>1, <1>2, <1>5 DEF DrawdownAtLimit

LEMMA RunStaysDrawn ==
    ASSUME BledInv, [BledNext(Nat, Int)]_bledVars
    PROVE  RunIsDrawn'
<1> SUFFICES ASSUME CanTrip, ~omegaOpen'
             PROVE  current' + bled' <= peak'
  BY DEF RunIsDrawn, CanTrip, Baseline
<1> USE DEF BledInv
<1>1. ASSUME UNCHANGED <<current, peak, omegaOpen, bled>>
      PROVE  current' + bled' <= peak'
  BY <1>1 DEF RunIsDrawn
<1>2. ASSUME NEW cost \in Nat, (Reject(cost) \/ RecordSpend(cost)) /\ UNCHANGED bled
      PROVE  current' + bled' <= peak'
  BY <1>1, <1>2
  DEF Reject, RejectBudget, RejectRate, RejectOpen, RecordSpend, omegaVars
<1>3. ASSUME NEW cost \in Nat, CountedAdmit(cost)
      PROVE  current' + bled' <= peak'
  <2>1. CASE omegaOpen
    BY <1>3, <2>1, BaselineType DEF CountedAdmit, Admit
  <2>2. CASE ~omegaOpen
    BY <1>3, <2>2 DEF CountedAdmit, Admit, RunIsDrawn
  <2> QED
    BY <2>1, <2>2
<1>4. ASSUME NEW p \in Int, CountedPnl(p)
      PROVE  current' + bled' <= peak'
  <2>1. RecordPnl(p) /\ ~omegaOpen /\ ~DrawdownAtLimit(p)
    BY <1>4 DEF CountedPnl, RecordPnl
  <2>2. CASE p > 0
    BY <1>4, <2>1, <2>2, CurveAfter DEF CountedPnl
  <2>3. CASE p <= 0
    <3>1. current + p > 0
      BY <2>1, <2>3, RuinTrips DEF OmegaTypeOK
    <3>2. current' = current + p /\ peak' = peak
      BY <2>1, <2>3, <3>1, CurveAfter DEF Equity
    <3>3. bled' = bled - p
      BY <1>4, <2>3 DEF CountedPnl
    <3> QED
      BY <2>1, <3>2, <3>3 DEF RunIsDrawn, OmegaTypeOK
  <2> QED
    BY <2>2, <2>3
<1>5. CASE TickOmega /\ UNCHANGED bled
  BY <1>1, <1>5 DEF TickOmega
<1>6. CASE UNCHANGED bledVars
  BY <1>1, <1>6 DEF bledVars, omegaVars
<1> QED
  BY <1>2, <1>3, <1>4, <1>5, <1>6 DEF BledNext

\* What the invariant is for: a run at the limit is a drawdown at the limit.
LEMMA BledInvHalts == BledInv => BleedHalts
<1> SUFFICES ASSUME BledInv, CanTrip, bled > 0, bled * 100 >= MaxDrawdownPct * peak,
                    ~omegaOpen
             PROVE  FALSE
  BY DEF BleedHalts
<1>1. /\ current \in Nat /\ peak \in Nat /\ bled \in Nat
      /\ current + bled <= peak /\ MaxDrawdownPct * peak \in Nat
  BY OmegaAssumption DEF BledInv, RunIsDrawn, OmegaTypeOK
<1>2. Equity(0) = current /\ PeakAfter(0) = peak /\ peak > 0
  BY <1>1 DEF Equity, PeakAfter
<1>3. (peak - current) * 100 >= bled * 100
  BY <1>1
<1>4. (peak - current) * 100 >= MaxDrawdownPct * peak
  BY <1>1, <1>3
<1>5. DrawdownAtLimit(0)
  BY <1>2, <1>4 DEF DrawdownAtLimit
<1> QED
  BY <1>5 DEF BledInv, OmegaClosedIsHealthy

\* A slow bleed is stopped: losses in a row that add up to the drawdown limit
\* find the breaker open, whatever the limits, and however the losses are
\* split, spread over time or interleaved with admissions.
THEOREM BleedAlwaysHalts == BledSpec => []BleedHalts
<1>1. BledInit => BledInv
  BY OmegaInitType, AtPeakIsHealthy, BaselineType
  DEF BledInit, OmegaInit, BledInv, OmegaClosedIsHealthy, PeakIsTop, RunIsDrawn
<1>2. BledSpec => OmegaSpec
  <2>1. BledInit => OmegaInit
    BY DEF BledInit
  <2>2. [BledNext(Nat, Int)]_bledVars => [OmegaNext(Nat, Int)]_omegaVars
    BY BledNextIsOmega
  <2> QED
    BY <2>1, <2>2, PTL DEF BledSpec, OmegaSpec
<1>3. /\ BledInv /\ OmegaTypeOK' /\ OmegaClosedIsHealthy'
      /\ [BledNext(Nat, Int)]_bledVars
      => BledInv'
  BY BledNextIsOmega, BledType, PeakStaysTop, RunStaysDrawn DEF BledInv
<1> QED
  BY <1>1, <1>2, <1>3, BledInvHalts, OmegaTypeCorrect, OmegaHealthy, PTL DEF BledSpec

==============================================================================
