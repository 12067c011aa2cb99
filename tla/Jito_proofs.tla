---------------------------- MODULE Jito_proofs ----------------------------
(***************************************************************************)
(* Proofs about both ways to Jito: the sender with its emergency stop, for *)
(* any lengths of the stop, the run of 429s, the queue and the backoffs    *)
(* and any number of endpoints, and send_bundle, for any number of tasks,  *)
(* attempts, places and permits and any deadline.                          *)
(***************************************************************************)
EXTENDS JitoSender, BundleSender, FiniteSetTheorems, WellFoundedInduction, TLAPS

-----------------------------------------------------------------------------
(* The emergency stop and the sender.  The choice of an endpoint is typed  *)
(* by itself: it is made by CHOOSE, so a best one has to be shown to exist. *)


LEMMA Numbers ==
    /\ StopLimit \in Nat /\ StopLimit > 0
    /\ MaxQueueDepth \in Nat /\ MaxQueueDepth > 0
    /\ StopAfter \in Nat /\ StopAfter > 0
    /\ RunCap \in Nat /\ RunCap >= StopAfter
    /\ BackoffBase \in Nat
    /\ BackoffCap \in Nat
    /\ TRADER \in Procs
    /\ \A h \in Handlers : h \in Procs /\ h # TRADER
BY StopAssumption, SenderAssumption
   DEF StopAssumption, SenderAssumption, Procs, RunCap, Greatest

LEMMA BackoffType == \A k \in Nat \ {0} : Backoff(k) \in 0..BackoffCap
<1> TAKE k \in Nat \ {0}
<1> DEFINE D == <<1, 2, 4, 8, 16>>[Least(k, 5)]
<1>1. Least(k, 5) \in 1..5
  BY DEF Least
<1>2. D \in Nat
  BY <1>1
<1>3. BackoffBase * D \in Nat
  BY <1>2, Numbers
<1> HIDE DEF D
<1>4. Least(BackoffCap, BackoffBase * D) \in 0..BackoffCap
  BY <1>3, Numbers DEF Least
<1> QED
  BY <1>4 DEF Backoff, D

\* The steps of a task in the functions of the stop.
StopMove(p) == Trigger(p) \/ Ask(p) \/ Access(p)

\* What each of them does to where the task is.
LEMMA Moves ==
    ASSUME StopTypeOK, NEW p \in Procs, StopMove(p)
    PROVE  \E l \in {"idle", "stamping", "judging", "expiring", "unstamping", "rearming"} :
              /\ pc' = [pc EXCEPT ![p] = l]
              /\ pc'[p] = l
              /\ \A q \in Procs : q # p => pc'[q] = pc[q]
<1>1. \A l : pc' = [pc EXCEPT ![p] = l] =>
        pc'[p] = l /\ \A q \in Procs : q # p => pc'[q] = pc[q]
  BY DEF StopTypeOK
<1>2. UNCHANGED pc => pc' = [pc EXCEPT ![p] = pc[p]]
  BY DEF StopTypeOK
<1>3. pc[p] \in {"idle", "stamping", "judging", "expiring", "unstamping", "rearming"}
  BY DEF StopTypeOK
<1>4. \E l \in {"idle", "stamping", "judging", "expiring", "unstamping", "rearming"} :
        pc' = [pc EXCEPT ![p] = l]
  <2>1. CASE Trigger(p)
    BY <1>2, <1>3, <2>1 DEF Trigger, Goto
  <2>2. CASE Ask(p)
    BY <2>2 DEF Ask, Goto, Return
  <2>3. CASE Access(p)
    BY <2>3 DEF Access, Stamp, Judge, Expire, Unstamp, Rearm, Goto, Return
  <2> QED
    BY <2>1, <2>2, <2>3 DEF StopMove
<1> QED
  BY <1>1, <1>4

LEMMA MoveTyped ==
    ASSUME StopTypeOK, NEW p \in Procs, StopMove(p)
    PROVE  StopTypeOK'
<1>1. pc' \in [Procs -> {"idle", "stamping", "judging", "expiring", "unstamping", "rearming"}]
  BY Moves DEF StopTypeOK
<1>2. active' \in BOOLEAN /\ reset' \in BOOLEAN /\ raced' \in BOOLEAN
  BY DEF StopTypeOK, StopMove, Trigger, Ask, Access, Stamp, Judge, Expire, Unstamp, Rearm, raceVars
<1>3. /\ stamp' \in {NoStamp} \cup 0..StopLimit /\ since' \in 0..StopLimit
      /\ verdict' \in {"none", "open", "stopped"}
  BY Numbers DEF StopTypeOK, StopMove, Trigger, Ask, Access, Stamp, Judge, Expire, Unstamp,
     Rearm, Goto, Return, raceVars
<1> QED
  BY <1>1, <1>2, <1>3 DEF StopTypeOK

LEMMA SecondTyped ==
    ASSUME StopTypeOK, StopSecond
    PROVE  StopTypeOK'
BY Numbers DEF StopTypeOK, StopSecond, Aged, NoStamp

\* Without a race the stop's own invariant is kept by every task.
LEMMA MoveUnraced ==
    ASSUME StopTypeOK, ~raced => UnracedInv, NEW p \in Procs, StopMove(p), ~raced'
    PROVE  UnracedInv'
<1> DEFINE TB(q) == pc[q] \in {"expiring", "unstamping"}
           TBP(q) == pc'[q] \in {"expiring", "unstamping"}
<1>0. PICK l \in {"idle", "stamping", "judging", "expiring", "unstamping", "rearming"} :
         /\ pc' = [pc EXCEPT ![p] = l]
         /\ pc'[p] = l
         /\ \A q \in Procs : q # p => pc'[q] = pc[q]
  BY Moves
<1>1. /\ stamp \in Int /\ stamp >= -1 /\ stamp <= StopLimit
      /\ since \in Nat /\ since <= StopLimit
      /\ StopLimit \in Nat /\ StopLimit > 0
      /\ active \in BOOLEAN /\ raced \in BOOLEAN
  BY Numbers DEF StopTypeOK, NoStamp
<1>2. CASE Trigger(p)
  <2>1. CASE active
    <3>1. UNCHANGED <<active, stamp, pc, since, raced>>
      BY <1>2, <2>1 DEF Trigger, raceVars
    <3> QED
      BY <3>1 DEF UnracedInv, TakingBack
  <2>2. CASE ~active
    <3>1. /\ active' = TRUE /\ l = "stamping" /\ since' = 0 /\ stamp' = stamp
          /\ raced' = (raced \/ TakingBack(Procs))
      BY <1>0, <1>2, <2>2 DEF Trigger, Goto, StopTypeOK
    <3>2. ~raced /\ ~TakingBack(Procs) /\ UnracedInv
      BY <3>1
    <3>3. stamp = NoStamp /\ \A q \in Procs : pc[q] # "stamping"
      BY <2>2, <3>2 DEF UnracedInv
    <3>4. ~TakingBack(Procs)'
      BY <1>0, <3>1, <3>2 DEF TakingBack
    <3> QED
      BY <1>0, <3>1, <3>3, <3>4 DEF UnracedInv, NoStamp
  <2> QED
    BY <2>1, <2>2
<1>3. CASE Ask(p)
  <2>1. /\ UNCHANGED <<active, stamp, since, raced>>
        /\ pc[p] = "idle" /\ l \in {"idle", "judging"}
    BY <1>0, <1>3 DEF Ask, Goto, Return, raceVars, StopTypeOK
  <2>2. TakingBack(Procs)' = TakingBack(Procs)
    BY <1>0, <2>1 DEF TakingBack
  <2> QED
    BY <1>0, <2>1, <2>2 DEF UnracedInv
<1>4. CASE Stamp(p)
  <2>1. /\ UNCHANGED <<active, since, raced>> /\ stamp' = 0
        /\ pc[p] = "stamping" /\ l = "idle"
    BY <1>0, <1>4 DEF Stamp, Goto, raceVars, StopTypeOK
  <2>2. UnracedInv /\ active /\ ~TakingBack(Procs) /\ \A q \in Procs \ {p} : pc[q] # "stamping"
    BY <2>1 DEF UnracedInv
  <2>3. ~TakingBack(Procs)'
    BY <1>0, <2>1, <2>2 DEF TakingBack
  <2> QED
    BY <1>0, <1>1, <2>1, <2>2, <2>3 DEF UnracedInv
<1>5. CASE Judge(p)
  <2>1. /\ UNCHANGED <<active, stamp, since, raced>> /\ pc[p] = "judging"
        /\ l = IF stamp < StopLimit THEN "idle" ELSE "expiring"
    BY <1>0, <1>5 DEF Judge, Goto, Return, raceVars, StopTypeOK
  <2>2. UnracedInv
    BY <2>1
  <2>3. CASE stamp < StopLimit
    <3>1. TakingBack(Procs)' = TakingBack(Procs)
      BY <1>0, <2>1, <2>3 DEF TakingBack
    <3> QED
      BY <1>0, <2>1, <2>2, <2>3, <3>1 DEF UnracedInv
  <2>4. CASE ~(stamp < StopLimit)
    <3>1. since = StopLimit /\ stamp # NoStamp
      BY <1>1, <2>2, <2>4 DEF UnracedInv, NoStamp
    <3>2. \A q \in Procs : pc[q] # "stamping"
      BY <2>2, <3>1 DEF UnracedInv
    <3>3. TakingBack(Procs)'
      BY <1>0, <2>1, <2>4 DEF TakingBack
    <3> QED
      BY <1>0, <2>1, <2>2, <2>4, <3>1, <3>2, <3>3 DEF UnracedInv
  <2> QED
    BY <2>3, <2>4
<1>6. CASE Expire(p)
  <2>1. /\ UNCHANGED <<stamp, since, raced>> /\ active' = FALSE
        /\ pc[p] = "expiring" /\ l = "unstamping"
    BY <1>0, <1>6 DEF Expire, Goto, raceVars, StopTypeOK
  <2>2. UnracedInv /\ TakingBack(Procs)
    BY <2>1 DEF TakingBack
  <2>3. \A q \in Procs : pc[q] # "stamping"
    BY <2>2 DEF UnracedInv
  <2>4. TakingBack(Procs)'
    BY <1>0, <2>1 DEF TakingBack
  <2> QED
    BY <1>0, <2>1, <2>2, <2>3, <2>4 DEF UnracedInv
<1>7. CASE Unstamp(p)
  <2>1. /\ UNCHANGED <<active, since>> /\ stamp' = NoStamp
        /\ pc[p] = "unstamping" /\ l = "rearming"
        /\ raced' = (raced /\ (active \/ TakingBack(Procs \ {p})
                               \/ \E q \in Procs : pc[q] = "stamping"))
    BY <1>0, <1>7 DEF Unstamp, Goto, StopTypeOK
  <2>2. TakingBack(Procs)' <=> TakingBack(Procs \ {p})
    BY <1>0, <2>1 DEF TakingBack
  <2>3. CASE raced
    <3>1. ~active /\ ~TakingBack(Procs \ {p}) /\ \A q \in Procs : pc[q] # "stamping"
      BY <2>1, <2>3
    <3> QED
      BY <1>0, <1>1, <2>1, <2>2, <3>1 DEF UnracedInv, NoStamp
  <2>4. CASE ~raced
    <3>1. UnracedInv /\ TakingBack(Procs)
      BY <2>1, <2>4 DEF TakingBack
    <3>2. \A q \in Procs : pc[q] # "stamping"
      BY <3>1 DEF UnracedInv
    <3>3. since = StopLimit
      BY <3>1 DEF UnracedInv
    <3> QED
      BY <1>0, <1>1, <2>1, <3>2, <3>3 DEF UnracedInv, NoStamp
  <2> QED
    BY <2>3, <2>4
<1>8. CASE Rearm(p)
  <2>1. /\ UNCHANGED <<active, stamp, since, raced>>
        /\ pc[p] = "rearming" /\ l = "idle"
    BY <1>0, <1>8 DEF Rearm, Goto, Return, raceVars, StopTypeOK
  <2>2. TakingBack(Procs)' = TakingBack(Procs)
    BY <1>0, <2>1 DEF TakingBack
  <2> QED
    BY <1>0, <2>1, <2>2 DEF UnracedInv
<1> QED
  BY <1>2, <1>3, <1>4, <1>5, <1>6, <1>7, <1>8 DEF StopMove, Access

LEMMA SecondUnraced ==
    ASSUME StopTypeOK, ~raced => UnracedInv, StopSecond, ~raced'
    PROVE  UnracedInv'
<1>1. UNCHANGED <<active, pc, raced>> /\ UnracedInv
  BY DEF StopSecond
<1>2. /\ stamp \in {NoStamp} \cup 0..StopLimit /\ since \in 0..StopLimit
  BY DEF StopTypeOK
<1>3. /\ stamp = NoStamp => stamp' = NoStamp
      /\ stamp <= since => stamp' <= since'
      /\ since = StopLimit => since' = StopLimit
  BY <1>2, Numbers DEF StopSecond, Aged, NoStamp
<1> QED
  BY <1>1, <1>3 DEF UnracedInv, TakingBack

LEMMA InitInv == SenderInit => LimiterInv
<1> SUFFICES ASSUME SenderInit PROVE LimiterInv
  OBVIOUS
<1>1. StopTypeOK
  <2>1. /\ active \in BOOLEAN /\ reset \in BOOLEAN /\ raced \in BOOLEAN
        /\ verdict \in {"none", "open", "stopped"}
    BY DEF SenderInit, StopInit
  <2>2. stamp \in {NoStamp} \cup 0..StopLimit /\ since \in 0..StopLimit
    BY Numbers DEF SenderInit, StopInit
  <2>3. pc \in [Procs -> {"idle", "stamping", "judging", "expiring",
                         "unstamping", "rearming"}]
    BY DEF SenderInit, StopInit
  <2> QED
    BY <2>1, <2>2, <2>3 DEF StopTypeOK
<1>2. LimiterTypeOK
  BY Numbers DEF SenderInit, LimiterTypeOK, Asking
<1>3. pc[TRADER] = "idle" /\ verdict = "none"
  BY Numbers DEF SenderInit, StopInit
<1>4. UnracedInv
  BY Numbers DEF SenderInit, StopInit, UnracedInv, TakingBack, NoStamp
<1>5. TraderInv
  BY <1>3 DEF SenderInit, TraderInv, Asking
<1>6. RunInv
  BY Numbers DEF SenderInit, RunInv
<1> QED
  BY <1>1, <1>2, <1>4, <1>5, <1>6 DEF LimiterInv, StopInv

\* One second keeps the stop no older than its time.
LEMMA SecondKeepsInv ==
    ASSUME LimiterInv, Second
    PROVE  LimiterInv'
<1>1. /\ UNCHANGED <<active, reset, pc, verdict, raced, at, depth, run429, refused>>
      /\ StopSecond
  BY DEF Second, StopSecond
<1>2. /\ cool' = Greatest(0, cool - 1)
      /\ quiet' = Least(BackoffCap, quiet + 1)
      /\ cool \in 0..BackoffCap /\ quiet \in 0..BackoffCap
  BY DEF Second, LimiterInv, LimiterTypeOK
<1>3. cool' \in 0..BackoffCap /\ quiet' \in 0..BackoffCap
  BY <1>2, Numbers DEF Least, Greatest
<1>4. StopTypeOK' /\ LimiterTypeOK'
  BY <1>1, <1>3, SecondTyped DEF LimiterInv, LimiterTypeOK
<1>5. StopInv'
  BY <1>1, SecondUnraced DEF LimiterInv, StopInv, TraderInv
<1>6. RunInv'
  BY <1>1 DEF LimiterInv, RunInv, Rearming
<1> QED
  BY <1>4, <1>5, <1>6 DEF LimiterInv

\* A step in the functions of the stop changes nothing of the sender, but for
\* the record of its 429s, which begins anew when a stop ends.
LEMMA MoveKeepsRun ==
    ASSUME LimiterInv, NEW p \in Procs, StopMove(p), UNCHANGED <<run429, depth>>,
           refused' = IF active /\ ~active' THEN 0 ELSE refused,
           Trigger(p) => at' \in {at, "rotating"},
           ~Trigger(p) => at' = at,
           at' # at => at = "stopping" /\ p = TRADER,
           p = TRADER => at \in Asking \cup {"stopping", "rotating"},
           p = TRADER /\ Ask(p) => verdict = "none" /\ at \in Asking,
           p = TRADER /\ Trigger(p) => at = "stopping" /\ at' = "rotating"
    PROVE  TraderInv' /\ RunInv'
<1>0. PICK l \in {"idle", "stamping", "judging", "expiring", "unstamping", "rearming"} :
         /\ pc' = [pc EXCEPT ![p] = l]
         /\ pc'[p] = l
         /\ \A q \in Procs : q # p => pc'[q] = pc[q]
  BY Moves DEF LimiterInv
<1>1. /\ StopTypeOK /\ TraderInv /\ RunInv
      /\ run429 \in Nat /\ refused \in Nat /\ StopAfter \in Nat /\ StopAfter > 0
  BY Numbers DEF LimiterInv, StopInv, LimiterTypeOK
<1>2. CASE Trigger(p)
  <2>1. /\ active' = TRUE /\ pc[p] = "idle" /\ l \in {"idle", "stamping"}
        /\ UNCHANGED <<reset, verdict>>
    BY <1>0, <1>1, <1>2 DEF Trigger, Goto, StopTypeOK
  <2>2. Rearming' <=> Rearming
    BY <1>0, <2>1 DEF Rearming
  <2>3. refused' = refused
    BY <2>1
  <2>4. TraderInv'
    <3>1. CASE p = TRADER
      BY <1>0, <1>1, <1>2, <2>1, <3>1 DEF TraderInv, Asking
    <3>2. CASE p # TRADER
      BY <1>0, <1>1, <2>1, <3>2, Numbers DEF TraderInv
    <3> QED
      BY <3>1, <3>2
  <2>5. RunInv'
    <3>1. CASE at = "stopping"
      BY <1>1, <1>2, <2>1, <2>2, <2>3, <3>1 DEF RunInv, TraderInv, Asking
    <3>2. CASE at # "stopping"
      BY <1>1, <2>1, <2>2, <2>3, <3>2 DEF RunInv
    <3> QED
      BY <3>1, <3>2
  <2> QED
    BY <2>4, <2>5
<1>3. CASE Ask(p)
  <2>1. /\ UNCHANGED <<active, reset, at>>
        /\ pc[p] = "idle" /\ l = IF active THEN "judging" ELSE "idle"
        /\ verdict' = IF p = TRADER /\ ~active THEN "open" ELSE verdict
    BY <1>0, <1>1, <1>3 DEF Ask, Trigger, Goto, Return, StopTypeOK
  <2>2. (Rearming' <=> Rearming) /\ refused' = refused
    BY <1>0, <2>1 DEF Rearming
  <2>3. TraderInv'
    <3>1. CASE p = TRADER
      BY <1>0, <1>1, <1>3, <2>1, <3>1 DEF TraderInv, Asking
    <3>2. CASE p # TRADER
      BY <1>0, <1>1, <2>1, <3>2, Numbers DEF TraderInv
    <3> QED
      BY <3>1, <3>2
  <2>4. RunInv'
    BY <1>1, <2>1, <2>2 DEF RunInv
  <2> QED
    BY <2>3, <2>4
<1>4. CASE Stamp(p) \/ Judge(p)
  <2>1. /\ UNCHANGED <<active, reset, at>> /\ ~Trigger(p)
        /\ pc[p] \in {"stamping", "judging"} /\ l \in {"idle", "expiring"}
        /\ pc[p] = "stamping" => l = "idle" /\ verdict' = verdict
        /\ pc[p] = "judging" =>
              verdict' = IF p = TRADER /\ l = "idle" THEN "stopped" ELSE verdict
    BY <1>0, <1>1, <1>4 DEF Stamp, Judge, Trigger, Goto, Return, StopTypeOK
  <2>2. (Rearming' <=> Rearming) /\ refused' = refused
    BY <1>0, <2>1 DEF Rearming
  <2>3. TraderInv'
    <3>1. CASE p = TRADER
      BY <1>0, <1>1, <2>1, <3>1 DEF TraderInv, Asking
    <3>2. CASE p # TRADER
      BY <1>0, <1>1, <2>1, <3>2, Numbers DEF TraderInv
    <3> QED
      BY <3>1, <3>2
  <2>4. RunInv'
    BY <1>1, <2>1, <2>2 DEF RunInv
  <2> QED
    BY <2>3, <2>4
<1>5. CASE Expire(p) \/ Unstamp(p)
  <2>1. /\ UNCHANGED <<reset, at, verdict>> /\ ~Trigger(p)
        /\ pc[p] \in {"expiring", "unstamping"} /\ l \in {"unstamping", "rearming"}
    BY <1>0, <1>1, <1>5 DEF Expire, Unstamp, Trigger, Goto, StopTypeOK
  <2>2. Rearming'
    BY <1>0, <2>1 DEF Rearming
  <2>3. TraderInv'
    <3>1. CASE p = TRADER
      BY <1>0, <1>1, <2>1, <3>1 DEF TraderInv, Asking
    <3>2. CASE p # TRADER
      BY <1>0, <1>1, <2>1, <3>2, Numbers DEF TraderInv
    <3> QED
      BY <3>1, <3>2
  <2>4. RunInv'
    BY <1>1, <2>1, <2>2 DEF RunInv
  <2> QED
    BY <2>3, <2>4
<1>6. CASE Rearm(p)
  <2>1. /\ reset' = TRUE /\ at' = at /\ ~Trigger(p)
        /\ pc[p] = "rearming" /\ l = "idle"
        /\ verdict' = IF p = TRADER THEN "open" ELSE verdict
    BY <1>0, <1>1, <1>6 DEF Rearm, Trigger, Goto, Return, StopTypeOK
  <2>2. TraderInv'
    <3>1. CASE p = TRADER
      BY <1>0, <1>1, <2>1, <3>1 DEF TraderInv, Asking
    <3>2. CASE p # TRADER
      BY <1>0, <1>1, <2>1, <3>2, Numbers DEF TraderInv
    <3> QED
      BY <3>1, <3>2
  <2>3. RunInv'
    BY <1>1, <2>1 DEF RunInv
  <2> QED
    BY <2>2, <2>3
<1> QED
  BY <1>2, <1>3, <1>4, <1>5, <1>6 DEF StopMove, Access

LEMMA StopStepKeepsInv ==
    ASSUME LimiterInv,
           \/ AskStop \/ StopAfterRun \/ StopAccess(TRADER)
           \/ \E h \in Handlers : ApiStep(h)
    PROVE  LimiterInv'
<1>1. PICK p \in Procs :
        \/ p = TRADER /\ (AskStop \/ StopAfterRun \/ StopAccess(TRADER))
        \/ p # TRADER /\ ApiStep(p)
  BY Numbers
<1>2. /\ StopMove(p) /\ UNCHANGED <<run429, depth, cool, quiet>>
      /\ at' = at \/ StopAfterRun
  BY <1>1 DEF AskStop, StopAfterRun, StopAccess, ApiStep, ApiTrigger, ApiMetrics, StopMove,
     senderVars, limiterVars, recordedVars
<1>3. refused' = IF active /\ ~active' THEN 0 ELSE refused
  BY <1>1 DEF AskStop, StopAfterRun, StopAccess, ApiStep, ApiTrigger, ApiMetrics, Ask,
     Trigger, senderVars, recordedVars
<1>4. /\ Trigger(p) => pc[p] = "idle" /\ active'
      /\ Ask(p) => pc[p] = "idle" /\ UNCHANGED active
      /\ Access(p) => pc[p] # "idle"
  BY DEF Trigger, Ask, Access, Stamp, Judge, Expire, Unstamp, Rearm
<1>5. /\ p = TRADER => at \in Asking \cup {"stopping", "rotating"}
      /\ p = TRADER /\ pc[p] = "idle" => AskStop \/ StopAfterRun
  BY <1>1, <1>4 DEF AskStop, StopAfterRun, StopAccess, LimiterInv, StopInv, TraderInv,
     LimiterTypeOK, Asking
<1>6. TraderInv' /\ RunInv'
  <2>1. CASE p # TRADER
    <3>1. at' = at
      BY <1>1, <2>1 DEF ApiStep, ApiTrigger, ApiMetrics, StopAccess, senderVars
    <3> QED
      BY <1>2, <1>3, <2>1, <3>1, MoveKeepsRun
  <2>2. CASE p = TRADER /\ AskStop
    <3>1. Ask(p) /\ at' = at /\ verdict = "none" /\ at \in Asking
      BY <2>2 DEF AskStop, senderVars
    <3>2. CASE Trigger(p)
      <4>1. FALSE
        BY <3>1, <3>2 DEF Ask, Trigger, Goto, Return, raceVars, LimiterInv, StopTypeOK
      <4> QED
        BY <4>1
    <3>3. CASE ~Trigger(p)
      BY <1>2, <1>3, <1>5, <2>2, <3>1, <3>3, MoveKeepsRun
    <3> QED
      BY <3>2, <3>3
  <2>3. CASE p = TRADER /\ StopAfterRun
    <3>1. Trigger(p) /\ at = "stopping" /\ at' = "rotating"
      BY <2>3 DEF StopAfterRun
    <3>2. ~Ask(p)
      BY <3>1 DEF Ask, Trigger, Goto, Return, raceVars, LimiterInv, StopTypeOK
    <3> QED
      BY <1>2, <1>3, <2>3, <3>1, <3>2, MoveKeepsRun
  <2>4. CASE p = TRADER /\ StopAccess(TRADER)
    <3>1. Access(p) /\ at' = at /\ ~Trigger(p) /\ ~Ask(p)
      BY <1>4, <2>4 DEF StopAccess
    <3> QED
      BY <1>2, <1>3, <1>5, <2>4, <3>1, MoveKeepsRun
  <2> QED
    BY <1>1, <2>1, <2>2, <2>3, <2>4
<1>7. StopTypeOK'
  BY <1>2, MoveTyped DEF LimiterInv
<1>8. LimiterTypeOK'
  <2>1. refused' \in 0..StopAfter
    BY <1>3, Numbers DEF LimiterInv, LimiterTypeOK
  <2>2. at' \in Asking \cup {"idle", "sending", "stopping", "rotating"}
    BY <1>2 DEF StopAfterRun, LimiterInv, LimiterTypeOK
  <2> QED
    BY <1>2, <2>1, <2>2 DEF LimiterInv, LimiterTypeOK
<1>9. ~raced' => UnracedInv'
  BY <1>2, MoveUnraced DEF LimiterInv, StopInv
<1> QED
  BY <1>6, <1>7, <1>8, <1>9 DEF LimiterInv, StopInv

\* The trader's own steps touch of the stop only what it was told and the
\* reset of its run.
LEMMA RestOfStop ==
    ASSUME StopTypeOK, ~raced => UnracedInv,
           UNCHANGED <<active, stamp, pc, raceVars>>,
           verdict' \in {"none", verdict}, reset' \in {reset, FALSE}
    PROVE  StopTypeOK' /\ (~raced' => UnracedInv') /\ (Rearming' <=> Rearming)
<1>1. UNCHANGED <<active, stamp, pc, since, raced>>
  BY DEF raceVars
<1>2. StopTypeOK'
  BY <1>1 DEF StopTypeOK
<1>3. (UnracedInv' <=> UnracedInv) /\ (Rearming' <=> Rearming)
  BY <1>1 DEF UnracedInv, TakingBack, Rearming
<1> QED
  BY <1>1, <1>2, <1>3

\* On its way to the network a send is let through, or gives up.
LEMMA WayKeepsInv ==
    ASSUME LimiterInv,
           \/ StartSend \/ Blocked \/ Unblocked \/ Queue \/ GiveUpToken
           \/ SleepForToken \/ TakeToken \/ GiveUpBudget \/ Post
    PROVE  LimiterInv'
<1>1. UNCHANGED <<active, stamp, pc, reset, raceVars, run429, cool, quiet, refused>>
      /\ verdict' \in {"none", verdict}
  BY DEF StartSend, Blocked, Unblocked, Queue, GiveUpToken, SleepForToken, TakeToken,
     GiveUpBudget, Post, Told, stopVars, senderVars, limiterVars, recordedVars
<1>2. StopTypeOK' /\ (~raced' => UnracedInv') /\ (Rearming' <=> Rearming)
  BY <1>1, RestOfStop DEF LimiterInv, StopInv
<1> USE Numbers DEF LimiterInv, StopTypeOK, LimiterTypeOK, StopInv, TraderInv, RunInv,
        Asking, stopVars, senderVars, limiterVars, poolVars, recordedVars, Told
<1>3. TraderInv' /\ LimiterTypeOK'
  BY <1>1 DEF StartSend, Blocked, Unblocked, Queue, GiveUpToken, SleepForToken, TakeToken,
     GiveUpBudget, Post
<1>4. RunInv'
  BY <1>1, <1>2 DEF StartSend, Blocked, Unblocked, Queue, GiveUpToken, SleepForToken,
     TakeToken, GiveUpBudget, Post
<1> QED
  BY <1>2, <1>3, <1>4

\* A 429 makes the run longer, no further than a whole one unless the last
\* stop is still being taken back.
LEMMA LimitedRun ==
    ASSUME LimiterInv, Limited
    PROVE  /\ RunAfter \in 1..RunCap /\ refused' \in 0..StopAfter
           /\ Rearming \/ RunAfter <= refused'
<1>1. /\ run429 \in 0..RunCap /\ refused \in 0..StopAfter
      /\ refused' = Least(StopAfter, refused + 1)
      /\ at = "sending"
  BY DEF Limited, LimiterInv, LimiterTypeOK
<1>2. reset \/ Rearming \/ (run429 < StopAfter /\ run429 <= refused)
  BY <1>1, Numbers DEF LimiterInv, RunInv
<1>3. RunCap >= 5
  BY Numbers, SenderAssumption DEF SenderAssumption, RunCap, Greatest
<1>4. CASE reset
  BY <1>1, <1>3, <1>4, Numbers DEF RunAfter, Least
<1>5. CASE ~reset
  <2>1. RunAfter = Least(RunCap, run429 + 1)
    BY <1>5 DEF RunAfter
  <2> QED
    BY <1>1, <1>2, <1>3, <1>5, <2>1, Numbers DEF Least
<1> QED
  BY <1>4, <1>5

\* What an answer does.
LEMMA AnswerKeepsInv ==
    ASSUME LimiterInv, Succeed \/ Fail \/ Limited \/ Rotate
    PROVE  LimiterInv'
<1>1. /\ UNCHANGED <<active, stamp, pc, verdict, raceVars>>
      /\ reset' \in {reset, FALSE}
  BY DEF Succeed, Fail, Limited, Rotate, stopVars
<1>2. StopTypeOK' /\ (~raced' => UnracedInv') /\ (Rearming' <=> Rearming)
  BY <1>1, RestOfStop DEF LimiterInv, StopInv
<1>3. TraderInv'
  BY <1>1 DEF LimiterInv, StopInv, TraderInv, Succeed, Fail, Limited, Rotate, Asking
<1>4. CASE Succeed \/ Fail \/ Rotate
  <2>1. LimiterTypeOK'
    BY <1>4, Numbers DEF LimiterInv, LimiterTypeOK, Succeed, Fail, Rotate, limiterVars,
       recordedVars, Asking
  <2>2. RunInv'
    BY <1>2, <1>4, Numbers DEF LimiterInv, LimiterTypeOK, RunInv, Succeed, Fail, Rotate,
       limiterVars, recordedVars, stopVars
  <2> QED
    BY <1>2, <1>3, <2>1, <2>2 DEF LimiterInv, StopInv
<1>5. CASE Limited
  <2>1. /\ RunAfter \in 1..RunCap /\ refused' \in 0..StopAfter
        /\ Rearming \/ RunAfter <= refused'
    BY <1>5, LimitedRun
  <2>2. Backoff(RunAfter) \in 0..BackoffCap
    BY <2>1, BackoffType
  <2>3. /\ run429' = RunAfter
        /\ cool' = Greatest(cool, Backoff(RunAfter))
        /\ at' = IF RunAfter >= StopAfter THEN "stopping" ELSE "rotating"
        /\ quiet' = 0 /\ depth' = depth
        /\ cool \in 0..BackoffCap
    BY <1>5 DEF Limited, LimiterInv, LimiterTypeOK
  <2>4. cool' \in 0..BackoffCap
    BY <2>2, <2>3 DEF Greatest
  <2>5. LimiterTypeOK'
    BY <2>1, <2>3, <2>4, Numbers DEF LimiterInv, LimiterTypeOK
  <2>6. RunInv'
    BY <1>2, <2>1, <2>3, Numbers DEF RunInv
  <2> QED
    BY <1>2, <1>3, <2>5, <2>6 DEF LimiterInv, StopInv
<1> QED
  BY <1>4, <1>5

LEMMA StutterKeepsInv ==
    ASSUME LimiterInv, UNCHANGED jitoVars
    PROVE  LimiterInv'
BY DEF jitoVars, stopVars, raceVars, senderVars, limiterVars, poolVars, recordedVars, LimiterInv,
    StopTypeOK, LimiterTypeOK, StopInv, UnracedInv, TakingBack, TraderInv, RunInv, Rearming

\* Any set of numbers has a least one.
LEMMA LeastOf ==
    ASSUME NEW S, S \subseteq Nat, S # {}
    PROVE  \E m \in S : \A n \in S : m <= n
<1>1. PICK m \in S : \A n \in S : <<n, m>> \notin OpToRel(<, Nat)
  BY NatLessThanWellFounded, WFMin
<1>2. ASSUME NEW n \in S PROVE m <= n
  <2>1. n \in Nat /\ m \in Nat
    OBVIOUS
  <2>2. ~(n < m)
    BY <1>1, <2>1 DEF OpToRel
  <2> QED
    BY <2>1, <2>2
<1> QED
  BY <1>2

\* The choice: of the endpoints with the best score, the first.
LEMMA PickType ==
    ASSUME PoolTypeOK
    PROVE  Pick \in Endpoints
<1> DEFINE Lack(e) == MaxHealth - health[e]
           Best == {e \in Endpoints : \A f \in Endpoints : health[f] <= health[e]}
<1>1. NumEndpoints \in Nat /\ NumEndpoints > 0 /\ MaxHealth \in Nat
  BY SenderAssumption DEF SenderAssumption
<1>2. /\ cursor \in Endpoints
      /\ \A e \in Endpoints : health[e] \in 0..MaxHealth
  BY DEF PoolTypeOK
<1>3. Best # {}
  <2>1. {Lack(e) : e \in Endpoints} \subseteq Nat
    BY <1>1, <1>2
  <2>2. PICK m \in {Lack(e) : e \in Endpoints} : \A n \in {Lack(e) : e \in Endpoints} : m <= n
    <3> HIDE DEF Lack
    <3> QED
      BY <1>2, <2>1, LeastOf
  <2>3. PICK e \in Endpoints : m = Lack(e)
    BY <2>2
  <2>4. ASSUME NEW f \in Endpoints PROVE health[f] <= health[e]
    <3>1. Lack(e) <= Lack(f)
      BY <2>2, <2>3
    <3> QED
      BY <1>1, <1>2, <3>1
  <2> QED
    BY <2>4
<1>4. \A e \in Endpoints : Steps(e) \in Nat
  BY <1>1, <1>2 DEF Steps, Endpoints
<1>5. PICK b \in Best : \A e \in Best : Steps(b) <= Steps(e)
  <2>1. {Steps(e) : e \in Best} \subseteq Nat /\ {Steps(e) : e \in Best} # {}
    BY <1>3, <1>4
  <2>2. PICK m \in {Steps(e) : e \in Best} : \A n \in {Steps(e) : e \in Best} : m <= n
    BY <2>1, LeastOf
  <2> QED
    BY <2>2
<1>6. ASSUME NEW f \in Endpoints
      PROVE  \/ health[b] > health[f]
             \/ health[b] = health[f] /\ Steps(b) <= Steps(f)
  <2>1. CASE health[f] < health[b]
    BY <1>2, <2>1
  <2>2. CASE health[f] = health[b]
    BY <1>5, <2>2
  <2> QED
    BY <1>2, <2>1, <2>2
<1> QED
  BY <1>6 DEF Pick

LEMMA ScoredType ==
    ASSUME PoolTypeOK, NEW gain \in Int
    PROVE  Scored(gain) \in [Endpoints -> 0..MaxHealth]
<1>1. MaxHealth \in Nat
  BY SenderAssumption DEF SenderAssumption
<1>2. health \in [Endpoints -> 0..MaxHealth] /\ picked \in Endpoints
  BY DEF PoolTypeOK
<1>3. Least(MaxHealth, Greatest(0, health[picked] + gain)) \in 0..MaxHealth
  BY <1>1, <1>2 DEF Least, Greatest
<1> QED
  BY <1>2, <1>3 DEF Scored

LEMMA PoolKept ==
    ASSUME PoolTypeOK, [SenderNext]_jitoVars
    PROVE  PoolTypeOK'
<1>1. /\ NumEndpoints \in Nat /\ NumEndpoints > 0
      /\ {LimitedPenalty, ErrorPenalty, SuccessReward} \subseteq Nat
  BY SenderAssumption DEF SenderAssumption
<1>2. CASE UNCHANGED <<poolVars, picked>>
  BY <1>2 DEF PoolTypeOK, poolVars
<1>3. CASE Post
  BY <1>3, PickType DEF Post, PoolTypeOK, poolVars
<1>4. CASE Succeed
  <2>1. health' \in [Endpoints -> 0..MaxHealth]
    BY <1>1, <1>4, ScoredType DEF Succeed
  <2> QED
    BY <1>4, <2>1 DEF Succeed, PoolTypeOK
<1>5. CASE Fail
  <2>1. health' \in [Endpoints -> 0..MaxHealth]
    BY <1>1, <1>5, ScoredType DEF Fail
  <2> QED
    BY <1>5, <2>1 DEF Fail, PoolTypeOK
<1>6. CASE Rotate
  <2>1. health' \in [Endpoints -> 0..MaxHealth]
    BY <1>1, <1>6, ScoredType DEF Rotate
  <2>2. cursor' \in Endpoints
    BY <1>1, <1>6 DEF Rotate, Endpoints, PoolTypeOK
  <2> QED
    BY <1>6, <2>1, <2>2 DEF Rotate, PoolTypeOK
<1> QED
  BY <1>2, <1>3, <1>4, <1>5, <1>6 DEF SenderNext, TraderNext, ApiStep, ApiTrigger,
     ApiMetrics, StopAccess, Second, StartSend, AskStop, Blocked, Unblocked, Queue, GiveUpToken, SleepForToken, TakeToken,
     GiveUpBudget, Limited, StopAfterRun, jitoVars, senderVars, poolVars

\* The inductive invariant of the sender and the emergency stop.
THEOREM SenderSafety == SenderSpec => []SenderInv
<1>1. SenderInit => PoolTypeOK
  BY SenderAssumption DEF SenderAssumption, SenderInit, PoolTypeOK, Endpoints
<1>2. LimiterInv /\ [SenderNext]_jitoVars => LimiterInv'
  BY SecondKeepsInv, StopStepKeepsInv, WayKeepsInv, AnswerKeepsInv,
     StutterKeepsInv DEF SenderNext, TraderNext
<1>3. SenderInv /\ [SenderNext]_jitoVars => SenderInv'
  BY <1>2, PoolKept DEF SenderInv
<1>4. SenderInit => SenderInv
  BY <1>1, InitInv DEF SenderInv
<1> QED
  BY <1>3, <1>4, PTL DEF SenderSpec

\* A stop that was not triggered in a race stays for its whole time, however
\* many tasks trigger it, ask for it and take it back.
THEOREM StopLasts == SenderSpec => LastsUnlessRaced
<1> DEFINE Lasts == active /\ ~active' /\ ~raced => since = StopLimit
<1>1. ASSUME LimiterInv, NEW p \in Procs, StopAccess(p) PROVE Lasts
  <2> SUFFICES ASSUME active, ~active', ~raced PROVE since = StopLimit
    OBVIOUS
  <2>1. pc[p] = "expiring"
    BY <1>1 DEF StopAccess, Access, Stamp, Judge, Expire, Unstamp, Rearm
  <2>2. UnracedInv /\ TakingBack(Procs)
    BY <1>1, <2>1 DEF LimiterInv, StopInv, TakingBack
  <2> QED
    BY <2>2 DEF UnracedInv
<1>2. ASSUME SenderNext PROVE Lasts \/ \E p \in Procs : StopAccess(p)
  BY <1>2, Numbers DEF SenderNext, TraderNext, ApiStep, ApiTrigger, ApiMetrics, Second,
     StopSecond, StartSend, AskStop, Ask, Blocked, Unblocked, Queue, GiveUpToken,
     SleepForToken, TakeToken, GiveUpBudget, Post, Succeed, Fail, Limited, StopAfterRun,
     Rotate, Trigger, Told, stopVars
<1>3. LimiterInv /\ [SenderNext]_jitoVars => [Lasts]_stopVars
  BY <1>1, <1>2 DEF jitoVars
<1>4. SenderInv => LimiterInv
  BY DEF SenderInv
<1> QED
  BY SenderSafety, <1>3, <1>4, PTL DEF SenderSpec, LastsUnlessRaced

\* Only a whole run of 429s makes the sender stop trading, or one that slips
\* through while the last stop is being taken back.
THEOREM StopEarned == SenderSpec => StopIsEarned
<1> DEFINE Earned == at = "sending" /\ at' = "stopping" => refused' = StopAfter \/ Rearming
<1>1. ASSUME LimiterInv, [SenderNext]_jitoVars PROVE Earned
  <2> SUFFICES ASSUME at = "sending", at' = "stopping" PROVE refused' = StopAfter \/ Rearming
    OBVIOUS
  <2>1. Limited
    BY <1>1 DEF SenderNext, TraderNext, ApiStep, ApiTrigger, ApiMetrics, Second, StartSend,
       AskStop, Blocked, Unblocked, Queue, GiveUpToken, SleepForToken, TakeToken, GiveUpBudget,
       Post, Succeed, Fail, StopAfterRun, Rotate, StopAccess, Asking, senderVars, jitoVars
  <2>2. /\ RunAfter \in 1..RunCap /\ refused' \in 0..StopAfter
        /\ Rearming \/ RunAfter <= refused'
    BY <1>1, <2>1, LimitedRun
  <2>3. RunAfter >= StopAfter
    BY <2>1 DEF Limited
  <2> QED
    BY <2>2, <2>3, Numbers
<1>2. LimiterInv /\ [SenderNext]_jitoVars => [Earned]_jitoVars
  BY <1>1
<1>3. SenderInv => LimiterInv
  BY DEF SenderInv
<1> QED
  BY SenderSafety, <1>2, <1>3, PTL DEF SenderSpec, StopIsEarned

\* What is left of a cooldown makes up for what is missing from the backoff.
BackoffInv == run429 > 0 => cool + quiet >= Backoff(run429)

LEMMA BackoffKept ==
    ASSUME LimiterInv, LimiterInv', BackoffInv, [SenderNext]_jitoVars
    PROVE  BackoffInv'
<1>1. /\ run429 \in Nat /\ run429' \in Nat
      /\ cool \in Nat /\ quiet \in 0..BackoffCap
      /\ BackoffCap \in Nat
  BY Numbers DEF LimiterInv, LimiterTypeOK
<1>2. \A k : k \in Nat /\ k > 0 => Backoff(k) \in 0..BackoffCap
  BY BackoffType
<1>3. CASE UNCHANGED <<run429, cool, quiet>>
  BY <1>3 DEF BackoffInv, Backoff
<1>4. CASE Succeed
  BY <1>4 DEF Succeed, BackoffInv
<1>5. CASE Limited
  <2>1. /\ run429' = RunAfter /\ quiet' = 0
        /\ cool' = Greatest(cool, Backoff(RunAfter))
    BY <1>5 DEF Limited
  <2>2. RunAfter > 0 => Backoff(RunAfter) \in 0..BackoffCap
    BY <1>1, <1>2, <2>1
  <2>3. RunAfter > 0 => cool' >= Backoff(RunAfter) /\ cool' \in Nat
    BY <1>1, <2>1, <2>2 DEF Greatest
  <2>4. Backoff(run429') = Backoff(RunAfter)
    BY <2>1
  <2> QED
    BY <2>1, <2>2, <2>3, <2>4 DEF BackoffInv
<1>6. CASE Second
  <2>1. /\ cool' = Greatest(0, cool - 1) /\ quiet' = Least(BackoffCap, quiet + 1)
        /\ run429' = run429
    BY <1>6 DEF Second
  <2> DEFINE B == Backoff(run429)
  <2>2. run429 > 0 => B \in 0..BackoffCap /\ cool + quiet >= B
    BY <1>1, <1>2 DEF BackoffInv
  <2>3. Backoff(run429') = B
    BY <2>1
  <2> HIDE DEF B
  <2>4. run429 > 0 => cool' + quiet' >= B
    BY <1>1, <2>1, <2>2 DEF Greatest, Least
  <2> QED
    BY <2>1, <2>3, <2>4 DEF BackoffInv
<1> QED
  BY <1>3, <1>4, <1>5, <1>6 DEF SenderNext, TraderNext, ApiStep, ApiTrigger,
     ApiMetrics, StopAccess, StartSend, AskStop,
     Blocked, Unblocked, Queue, GiveUpToken, SleepForToken, TakeToken, GiveUpBudget, Post,
     Fail, StopAfterRun, Rotate, jitoVars, senderVars, limiterVars, recordedVars

\* No send leaves before the backoff of its run is over.
THEOREM BackoffAlwaysKept == SenderSpec => BackoffIsKept
<1> DEFINE Keeps == at = "token" /\ at' = "budget" /\ run429 > 0 => quiet >= Backoff(run429)
<1>1. SenderInit => BackoffInv
  BY DEF SenderInit, BackoffInv
<1>2. SenderInv => LimiterInv
  BY DEF SenderInv
<1>3. LimiterInv /\ LimiterInv' /\ BackoffInv /\ [SenderNext]_jitoVars => BackoffInv'
  BY BackoffKept
<1>4. ASSUME LimiterInv, BackoffInv, [SenderNext]_jitoVars
      PROVE  [Keeps]_jitoVars
  <2> SUFFICES ASSUME SenderNext, at = "token", at' = "budget", run429 > 0
               PROVE  quiet >= Backoff(run429)
    BY <1>4
  <2>1. TakeToken
    BY DEF SenderNext, TraderNext, ApiStep, ApiTrigger, ApiMetrics, StopAccess, Second, StartSend, AskStop, Blocked, Unblocked,
       Queue, GiveUpToken, SleepForToken, GiveUpBudget, Post, Succeed, Fail, Limited,
       StopAfterRun, Rotate, senderVars, Told
  <2>2. cool = 0
    BY <2>1 DEF TakeToken
  <2>3. quiet \in Nat /\ run429 \in Nat
    BY <1>4, Numbers DEF LimiterInv, LimiterTypeOK
  <2>4. Backoff(run429) \in Nat
    BY <2>3, BackoffType, Numbers
  <2> QED
    BY <1>4, <2>2, <2>3, <2>4 DEF BackoffInv
<1> QED
  BY <1>1, <1>2, <1>3, <1>4, SenderSafety, PTL DEF SenderSpec, BackoffIsKept

-----------------------------------------------------------------------------
(* The bundles that tasks send through one limiter.                        *)


LEMMA BundleNumbers ==
    /\ Attempts \in Nat /\ Attempts > 0
    /\ MaxPlaces \in Nat /\ MaxPlaces > 0
    /\ MinLimit \in Nat /\ MinLimit > 0
    /\ MaxLimit \in Nat /\ MaxLimit > 0
    /\ MinLimit <= MaxLimit
    /\ SendTime \in Nat
    /\ Cooldowns \subseteq Nat
    /\ IsFiniteSet(Tasks)
BY BundleAssumption DEF BundleAssumption

\* Sets of tasks are counted one task at a time.
LEMMA Counted ==
    ASSUME NEW S \in SUBSET Tasks, NEW t \in Tasks
    PROVE  /\ Cardinality(S) \in Nat
           /\ t \in S => Cardinality(S) > 0
           /\ Cardinality(S \cup {t}) = IF t \in S THEN Cardinality(S) ELSE Cardinality(S) + 1
           /\ Cardinality(S \ {t}) = IF t \in S THEN Cardinality(S) - 1 ELSE Cardinality(S)
<1>1. IsFiniteSet(S)
  BY BundleNumbers, FS_Subset
<1>2. t \in S => Cardinality(S) # 0
  BY <1>1, FS_EmptySet
<1>3. Cardinality(S) \in Nat
  BY <1>1, FS_CardinalityType
<1>4. Cardinality(S \cup {t}) = IF t \in S THEN Cardinality(S) ELSE Cardinality(S) + 1
  BY <1>1, FS_AddElement
<1>5. Cardinality(S \ {t}) = IF t \in S THEN Cardinality(S) - 1 ELSE Cardinality(S)
  BY <1>1, FS_RemoveElement
<1> QED
  BY <1>2, <1>3, <1>4, <1>5

\* A task that goes on to another step moves between the sets that are counted.
LEMMA Moved ==
    ASSUME BundleTypeOK, NEW t \in Tasks, NEW step \in SendSteps, Proceed(t, step)
    PROVE  /\ Cardinality(Posted') =
                 Cardinality(Posted) + (IF step = "posted" THEN 1 ELSE 0)
                                     - (IF send[t] = "posted" THEN 1 ELSE 0)
           /\ Cardinality(InQueue') =
                 Cardinality(InQueue) + (IF step \in Waiting THEN 1 ELSE 0)
                                      - (IF send[t] \in Waiting THEN 1 ELSE 0)
<1>1. /\ send'[t] = step
      /\ \A u \in Tasks \ {t} : send'[u] = send[u]
  BY DEF BundleTypeOK, Proceed
<1>2. /\ Posted' = IF step = "posted" THEN Posted \cup {t} ELSE Posted \ {t}
      /\ InQueue' = IF step \in Waiting THEN InQueue \cup {t} ELSE InQueue \ {t}
  BY <1>1 DEF Posted, InQueue
<1>3. /\ Posted \in SUBSET Tasks /\ InQueue \in SUBSET Tasks
      /\ t \in Posted <=> send[t] = "posted"
      /\ t \in InQueue <=> send[t] \in Waiting
  BY DEF Posted, InQueue
<1>4. Cardinality(Posted') =
        Cardinality(Posted) + (IF step = "posted" THEN 1 ELSE 0)
                            - (IF send[t] = "posted" THEN 1 ELSE 0)
  <2> DEFINE P == Posted
  <2>1. /\ Cardinality(P) \in Nat
        /\ Cardinality(P \cup {t}) = IF t \in P THEN Cardinality(P) ELSE Cardinality(P) + 1
        /\ Cardinality(P \ {t}) = IF t \in P THEN Cardinality(P) - 1 ELSE Cardinality(P)
    BY <1>3, Counted
  <2>2. Posted' = IF step = "posted" THEN P \cup {t} ELSE P \ {t}
    BY <1>2
  <2>3. t \in P <=> send[t] = "posted"
    BY <1>3
  <2> HIDE DEF P
  <2>4. Cardinality(Posted') =
          Cardinality(P) + (IF step = "posted" THEN 1 ELSE 0)
                         - (IF send[t] = "posted" THEN 1 ELSE 0)
    BY <2>1, <2>2, <2>3
  <2> QED
    BY <2>4 DEF P
<1>5. Cardinality(InQueue') =
        Cardinality(InQueue) + (IF step \in Waiting THEN 1 ELSE 0)
                             - (IF send[t] \in Waiting THEN 1 ELSE 0)
  <2> DEFINE Q == InQueue
  <2>1. /\ Cardinality(Q) \in Nat
        /\ Cardinality(Q \cup {t}) = IF t \in Q THEN Cardinality(Q) ELSE Cardinality(Q) + 1
        /\ Cardinality(Q \ {t}) = IF t \in Q THEN Cardinality(Q) - 1 ELSE Cardinality(Q)
    BY <1>3, Counted
  <2>2. InQueue' = IF step \in Waiting THEN Q \cup {t} ELSE Q \ {t}
    BY <1>2
  <2>3. t \in Q <=> send[t] \in Waiting
    BY <1>3
  <2> HIDE DEF Q
  <2>4. Cardinality(InQueue') =
          Cardinality(Q) + (IF step \in Waiting THEN 1 ELSE 0)
                         - (IF send[t] \in Waiting THEN 1 ELSE 0)
    BY <2>1, <2>2, <2>3
  <2> QED
    BY <2>4 DEF Q
<1> QED
  BY <1>4, <1>5

LEMMA Sizes ==
    ASSUME BundleTypeOK, NEW t \in Tasks
    PROVE  /\ Cardinality(Posted) \in Nat /\ Cardinality(InQueue) \in Nat
           /\ send[t] = "posted" => Cardinality(Posted) > 0
           /\ send[t] \in Waiting => Cardinality(InQueue) > 0
BY Counted DEF Posted, InQueue

LEMMA BundleInitInv == BundleInit => BundleInv
<1> SUFFICES ASSUME BundleInit PROVE BundleInv
  OBVIOUS
<1>1. Posted = {} /\ InQueue = {}
  BY DEF BundleInit, Posted, InQueue, Waiting
<1>2. BundleTypeOK
  <2>1. stopped \in BOOLEAN
    BY DEF BundleInit
  <2> QED
    BY <2>1, BundleNumbers DEF BundleInit, BundleTypeOK, SendSteps, Ended
<1>3. GaugesAreRight
  BY <1>1, BundleNumbers, FS_EmptySet DEF BundleInit, GaugesAreRight
<1>4. AttemptsAreCounted
  BY DEF BundleInit, AttemptsAreCounted, Ended, Waiting
<1> QED
  BY <1>2, <1>3, <1>4 DEF BundleInv

\* The type of the tasks' state and what is counted of the attempts is kept by
\* each step of a task, and does not depend on the gauges.
TaskInv ==
    /\ send \in [Tasks -> SendSteps]
    /\ attempt \in [Tasks -> 0..Attempts]
    /\ age \in [Tasks -> 0..SendTime]
    /\ answers \in [Tasks -> Seq(Outcomes)]
    /\ AttemptsAreCounted

GaugeInv ==
    /\ {places, inflight, cooling, leaked} \subseteq Nat
    /\ limit \in MinLimit..MaxLimit
    /\ GaugesAreRight

Bundle == TaskInv /\ GaugeInv /\ stopped \in BOOLEAN

LEMMA Parts == BundleInv <=> Bundle
BY DEF BundleInv, BundleTypeOK, Bundle, TaskInv, GaugeInv

StepOf(t) ==
    \/ StartBundle(t) \/ EnterQueue(t) \/ SeeStop(t)
    \/ WaitForToken(t) \/ WaitForBudget(t) \/ PostBundle(t)
    \/ \E a \in Outcomes : Answered(t, a)
    \/ NextAttempt(t) \/ TimeOut(t)

\* A step that leaves the answers and the attempts alone may move a task among
\* the steps of an attempt, to its end, or to the pause before the next.
LEMMA TaskMoved ==
    ASSUME TaskInv, NEW t \in Tasks, NEW step \in SendSteps, Proceed(t, step),
           UNCHANGED <<attempt, age, answers>>,
           \/ step \in Ended
           \/ step = "backoff" /\ attempt[t] < Attempts /\ send[t] \notin Ended
           \/ /\ step \in Waiting \cup {"posted"}
              /\ send[t] \in Waiting \cup {"attempt", "posted"}
    PROVE  TaskInv'
<1>1. /\ send' \in [Tasks -> SendSteps] /\ send'[t] = step
      /\ \A u \in Tasks \ {t} : send'[u] = send[u]
  BY DEF TaskInv, Proceed
<1>2. ASSUME NEW u \in Tasks
      PROVE  /\ Len(answers[u]) <= attempt[u]
             /\ send'[u] \in {"attempt", "posted"} \cup Waiting => Len(answers[u]) < attempt[u]
             /\ send'[u] = "backoff" => attempt[u] < Attempts
             /\ send'[u] \notin Ended =>
                   \A i \in DOMAIN answers[u] : answers[u][i] \in Retryable
  BY <1>1 DEF TaskInv, AttemptsAreCounted, Waiting, Ended
<1>3. AttemptsAreCounted'
  BY <1>2 DEF AttemptsAreCounted
<1> QED
  BY <1>1, <1>3 DEF TaskInv

\* A step of a task keeps what is counted of the attempts of every task.
LEMMA TaskKept ==
    ASSUME TaskInv, NEW t \in Tasks, StepOf(t)
    PROVE  TaskInv'
<1> USE BundleNumbers
<1>1. CASE StartBundle(t)
  <2>1. /\ send' \in [Tasks -> SendSteps] /\ attempt' \in [Tasks -> 0..Attempts]
        /\ age' \in [Tasks -> 0..SendTime] /\ answers' \in [Tasks -> Seq(Outcomes)]
    BY <1>1 DEF StartBundle, Proceed, TaskInv, SendSteps
  <2>2. /\ attempt'[t] = 1 /\ answers'[t] = <<>> /\ send'[t] = "attempt"
        /\ \A u \in Tasks \ {t} : /\ send'[u] = send[u] /\ attempt'[u] = attempt[u]
                                  /\ answers'[u] = answers[u]
    BY <1>1 DEF StartBundle, Proceed, TaskInv
  <2>3. ASSUME NEW u \in Tasks
        PROVE  /\ Len(answers'[u]) <= attempt'[u]
               /\ send'[u] \in {"attempt", "posted"} \cup Waiting =>
                     Len(answers'[u]) < attempt'[u]
               /\ send'[u] = "backoff" => attempt'[u] < Attempts
               /\ send'[u] \notin Ended =>
                     \A n \in DOMAIN answers'[u] : answers'[u][n] \in Retryable
    <3>1. CASE u = t
      <4>1. Len(answers'[u]) = 0 /\ DOMAIN answers'[u] = {}
        BY <2>2, <3>1
      <4> QED
        BY <2>2, <3>1, <4>1
    <3>2. CASE u # t
      BY <2>2, <3>2 DEF TaskInv, AttemptsAreCounted
    <3> QED
      BY <3>1, <3>2
  <2>4. AttemptsAreCounted'
    BY <2>3 DEF AttemptsAreCounted
  <2> QED
    BY <2>1, <2>4 DEF TaskInv
<1>2. CASE EnterQueue(t)
  <2>1. PICK step \in {"token", AfterError(t)} : Proceed(t, step)
    BY <1>2 DEF EnterQueue
  <2>2. send[t] = "attempt" /\ UNCHANGED <<attempt, age, answers>>
    BY <1>2 DEF EnterQueue
  <2> QED
    BY <2>1, <2>2, TaskMoved DEF AfterError, SendSteps, Ended, Waiting
<1>3. CASE SeeStop(t)
  BY <1>3, TaskMoved DEF SeeStop, SendSteps, Ended
<1>4. CASE WaitForToken(t)
  BY <1>4, TaskMoved DEF WaitForToken, SendSteps, Waiting, gaugeVars
<1>5. CASE WaitForBudget(t)
  BY <1>5, TaskMoved DEF WaitForBudget, SendSteps, Waiting, gaugeVars
<1>6. CASE PostBundle(t)
  BY <1>6, TaskMoved DEF PostBundle, SendSteps, Waiting
<1>7. ASSUME NEW a \in Outcomes, Answered(t, a)
      PROVE  TaskInv'
  <2> DEFINE step == CASE a = "accepted" -> "sent"
                       [] a = "refused" -> "failed"
                       [] OTHER -> AfterError(t)
  <2>1. /\ send[t] = "posted" /\ Proceed(t, step)
        /\ answers' = [answers EXCEPT ![t] = Append(@, a)]
        /\ UNCHANGED <<attempt, age>>
    BY <1>7 DEF Answered
  <2>2. /\ step \in {"sent", "failed", "backoff"}
        /\ step = "backoff" => attempt[t] < Attempts /\ a \in Retryable
    BY DEF AfterError, Outcomes, Retryable
  <2>3. /\ answers' \in [Tasks -> Seq(Outcomes)]
        /\ Len(answers'[t]) = Len(answers[t]) + 1
        /\ \A n \in DOMAIN answers'[t] :
              answers'[t][n] = IF n <= Len(answers[t]) THEN answers[t][n] ELSE a
        /\ \A u \in Tasks \ {t} : answers'[u] = answers[u]
    BY <2>1 DEF TaskInv
  <2> HIDE DEF step
  <2>4. /\ send' \in [Tasks -> SendSteps] /\ send'[t] = step
        /\ \A u \in Tasks \ {t} : send'[u] = send[u]
    BY <2>1, <2>2 DEF TaskInv, Proceed, SendSteps, Ended
  <2>5. /\ Len(answers[t]) \in Nat /\ Len(answers[t]) < attempt[t]
        /\ \A n \in DOMAIN answers[t] : answers[t][n] \in Retryable
        /\ DOMAIN answers[t] = 1..Len(answers[t])
        /\ DOMAIN answers'[t] = 1..(Len(answers[t]) + 1)
        /\ attempt'[t] = attempt[t] /\ attempt[t] \in Nat
    <3>1. answers[t] \in Seq(Outcomes) /\ answers'[t] \in Seq(Outcomes)
      BY <2>3 DEF TaskInv
    <3>2. Len(answers[t]) < attempt[t]
      BY <2>1 DEF TaskInv, AttemptsAreCounted
    <3>3. \A n \in DOMAIN answers[t] : answers[t][n] \in Retryable
      BY <2>1 DEF TaskInv, AttemptsAreCounted, Ended
    <3>4. attempt'[t] = attempt[t] /\ attempt[t] \in Nat
      BY <2>1 DEF TaskInv
    <3>5. /\ Len(answers[t]) \in Nat
          /\ DOMAIN answers[t] = 1..Len(answers[t])
          /\ DOMAIN answers'[t] = 1..(Len(answers[t]) + 1)
      BY <2>3, <3>1
    <3> QED
      BY <3>2, <3>3, <3>4, <3>5
  <2>6. step # "failed" /\ step # "sent" =>
            \A n \in DOMAIN answers'[t] : answers'[t][n] \in Retryable
    BY <2>2, <2>3, <2>5
  <2>7. ASSUME NEW u \in Tasks
        PROVE  /\ Len(answers'[u]) <= attempt'[u]
               /\ send'[u] \in {"attempt", "posted"} \cup Waiting =>
                     Len(answers'[u]) < attempt'[u]
               /\ send'[u] = "backoff" => attempt'[u] < Attempts
               /\ send'[u] \notin Ended =>
                     \A n \in DOMAIN answers'[u] : answers'[u][n] \in Retryable
    <3>1. CASE u = t
      BY <2>1, <2>2, <2>3, <2>4, <2>5, <2>6, <3>1 DEF Ended, Waiting
    <3>2. CASE u # t
      BY <2>1, <2>3, <2>4, <3>2 DEF TaskInv, AttemptsAreCounted
    <3> QED
      BY <3>1, <3>2
  <2>8. AttemptsAreCounted'
    BY <2>7 DEF AttemptsAreCounted
  <2> QED
    BY <2>1, <2>3, <2>4, <2>8 DEF TaskInv
<1>8. CASE NextAttempt(t)
  <2>1. send[t] = "backoff" /\ attempt[t] < Attempts /\ Len(answers[t]) <= attempt[t]
    BY <1>8 DEF NextAttempt, TaskInv, AttemptsAreCounted
  <2>2. /\ send' \in [Tasks -> SendSteps] /\ attempt' \in [Tasks -> 0..Attempts]
        /\ UNCHANGED <<age, answers>>
    BY <1>8, <2>1 DEF NextAttempt, Proceed, TaskInv, SendSteps
  <2>3. /\ attempt'[t] = attempt[t] + 1 /\ send'[t] = "attempt"
        /\ \A u \in Tasks \ {t} : send'[u] = send[u] /\ attempt'[u] = attempt[u]
    BY <1>8 DEF NextAttempt, Proceed, TaskInv
  <2>4. Len(answers[t]) \in Nat /\ attempt[t] \in Nat
    BY DEF TaskInv
  <2>5. ASSUME NEW u \in Tasks
        PROVE  /\ Len(answers'[u]) <= attempt'[u]
               /\ send'[u] \in {"attempt", "posted"} \cup Waiting =>
                     Len(answers'[u]) < attempt'[u]
               /\ send'[u] = "backoff" => attempt'[u] < Attempts
               /\ send'[u] \notin Ended =>
                     \A n \in DOMAIN answers'[u] : answers'[u][n] \in Retryable
    <3>1. CASE u = t
      <4>1. \A n \in DOMAIN answers[t] : answers[t][n] \in Retryable
        BY <2>1 DEF TaskInv, AttemptsAreCounted, Ended
      <4> QED
        BY <2>1, <2>2, <2>3, <2>4, <3>1, <4>1
    <3>2. CASE u # t
      BY <2>2, <2>3, <3>2 DEF TaskInv, AttemptsAreCounted
    <3> QED
      BY <3>1, <3>2
  <2>6. AttemptsAreCounted'
    BY <2>5 DEF AttemptsAreCounted
  <2> QED
    BY <2>2, <2>6 DEF TaskInv
<1>9. CASE TimeOut(t)
  BY <1>9, TaskMoved DEF TimeOut, SendSteps, Ended
<1> QED
  BY <1>1, <1>2, <1>3, <1>4, <1>5, <1>6, <1>7, <1>8, <1>9 DEF StepOf

\* A step of a task that leaves the gauges right when it moves the task among
\* those that are counted.
LEMMA GaugesMoved ==
    ASSUME Bundle, NEW t \in Tasks, NEW step \in SendSteps, Proceed(t, step),
           NEW posts \in {-1, 0, 1}, NEW waits \in {-1, 0, 1}, NEW leaks \in {0, 1},
           posts = (IF step = "posted" THEN 1 ELSE 0) - (IF send[t] = "posted" THEN 1 ELSE 0),
           waits = (IF step \in Waiting THEN 1 ELSE 0) - (IF send[t] \in Waiting THEN 1 ELSE 0),
           inflight' = inflight + posts,
           places' = places + waits + leaks,
           leaked' = leaked + leaks,
           posts = 1 => inflight < MaxLimit,
           waits + leaks < 2,
           waits + leaks = 1 => places < MaxPlaces,
           limit' \in MinLimit..MaxLimit,
           cooling' \in Nat
    PROVE  GaugeInv'
<1>1. /\ Cardinality(Posted') = Cardinality(Posted) + posts
      /\ Cardinality(InQueue') = Cardinality(InQueue) + waits
  BY Moved, Parts DEF BundleInv
<1>2. /\ Cardinality(Posted) \in Nat /\ Cardinality(InQueue) \in Nat
      /\ posts = -1 => Cardinality(Posted) > 0
      /\ waits = -1 => Cardinality(InQueue) > 0
  <2>1. /\ posts = -1 => send[t] = "posted"
        /\ waits = -1 => send[t] \in Waiting
    OBVIOUS
  <2> QED
    BY <2>1, Sizes, Parts DEF BundleInv
<1>3. /\ inflight = Cardinality(Posted) /\ inflight <= MaxLimit
      /\ places = Cardinality(InQueue) + leaked /\ places <= MaxPlaces
      /\ leaked \in Nat
  BY DEF Bundle, GaugeInv, GaugesAreRight
<1> DEFINE P == Cardinality(Posted)  Q == Cardinality(InQueue)
           P1 == Cardinality(Posted')  Q1 == Cardinality(InQueue')
<1> HIDE DEF P, Q, P1, Q1
<1>4. /\ inflight' = P1 /\ inflight' \in Nat /\ inflight' <= MaxLimit
  BY <1>1, <1>2, <1>3, BundleNumbers DEF P, P1
<1>5. /\ places' = Q1 + leaked' /\ places' \in Nat /\ places' <= MaxPlaces
      /\ leaked' \in Nat
  BY <1>1, <1>2, <1>3, BundleNumbers DEF Q, Q1
<1>6. GaugesAreRight'
  BY <1>4, <1>5 DEF GaugesAreRight, P1, Q1
<1> QED
  BY <1>4, <1>5, <1>6 DEF GaugeInv

\* A step of a task keeps the gauges right: a place or a permit is taken only
\* while there is one, and comes back or is recorded as leaked.
LEMMA GaugesKept ==
    ASSUME Bundle, NEW t \in Tasks, StepOf(t)
    PROVE  GaugeInv'
<1> USE BundleNumbers DEF SendSteps, Ended, Waiting
<1>0. /\ {places, inflight, cooling, leaked} \subseteq Nat
      /\ limit \in MinLimit..MaxLimit
  BY DEF Bundle, GaugeInv
<1>1. CASE StartBundle(t)
  <2>1. /\ Proceed(t, "attempt")
        /\ send[t] # "posted" /\ send[t] \notin Waiting
        /\ UNCHANGED <<places, inflight, limit, cooling, leaked>>
    BY <1>1 DEF StartBundle, gaugeVars
  <2>2. /\ send'[t] = "attempt"
        /\ \A u \in Tasks \ {t} : send'[u] = send[u]
    BY <2>1 DEF Bundle, TaskInv, Proceed
  <2>3. Posted' = Posted /\ InQueue' = InQueue
    BY <2>1, <2>2 DEF Posted, InQueue
  <2> QED
    BY <2>1, <2>3 DEF Bundle, GaugeInv, GaugesAreRight
<1>2. CASE EnterQueue(t)
  <2>1. CASE places < MaxPlaces
    BY <1>0, <1>2, <2>1, GaugesMoved DEF EnterQueue
  <2>2. CASE ~(places < MaxPlaces)
    BY <1>0, <1>2, <2>2, GaugesMoved DEF EnterQueue, AfterError
  <2> QED
    BY <2>1, <2>2
<1>3. CASE SeeStop(t)
  <2>1. /\ send[t] \in {"attempt", "token", "budget"} /\ Proceed(t, "failed")
        /\ places' = IF send[t] = "token" THEN places - 1 ELSE places
        /\ leaked' = IF send[t] = "budget" THEN leaked + 1 ELSE leaked
        /\ UNCHANGED <<inflight, limit, cooling>>
    BY <1>3 DEF SeeStop
  <2>2. CASE send[t] = "attempt"
    BY <1>0, <2>1, <2>2, GaugesMoved
  <2>3. CASE send[t] = "token"
    BY <1>0, <2>1, <2>3, GaugesMoved
  <2>4. CASE send[t] = "budget"
    BY <1>0, <2>1, <2>4, GaugesMoved
  <2> QED
    BY <2>1, <2>2, <2>3, <2>4
<1>4. CASE WaitForToken(t)
  BY <1>0, <1>4, GaugesMoved DEF WaitForToken, gaugeVars
<1>5. CASE WaitForBudget(t)
  BY <1>0, <1>5, GaugesMoved DEF WaitForBudget, gaugeVars
<1>6. CASE PostBundle(t)
  <2>1. inflight < MaxLimit
    <3>1. Cardinality(Posted) < MaxLimit
      BY <1>6 DEF PostBundle, Posted
    <3> QED
      BY <3>1 DEF Bundle, GaugeInv, GaugesAreRight
  <2> QED
    BY <1>0, <1>6, <2>1, GaugesMoved DEF PostBundle
<1>7. ASSUME NEW a \in Outcomes, Answered(t, a)
      PROVE  GaugeInv'
  <2>1. \E step \in {"sent", "failed", "backoff"} : Proceed(t, step)
    BY <1>7 DEF Answered, AfterError, Outcomes, Retryable
  <2>2. cooling' \in Nat
    BY <1>0, <1>7 DEF Answered
  <2>3. limit' \in MinLimit..MaxLimit
    BY <1>0, <1>7 DEF Answered, Adjusted, Lowered, Raised
  <2>4. send[t] = "posted" /\ inflight' = inflight - 1 /\ UNCHANGED <<places, leaked>>
    BY <1>7 DEF Answered
  <2> QED
    BY <1>0, <2>1, <2>2, <2>3, <2>4, GaugesMoved
<1>8. CASE NextAttempt(t)
  BY <1>0, <1>8, GaugesMoved DEF NextAttempt, gaugeVars
<1>9. CASE TimeOut(t)
  <2>1. /\ send[t] \notin Ended /\ Proceed(t, "failed")
        /\ inflight' = IF send[t] = "posted" THEN inflight - 1 ELSE inflight
        /\ leaked' = IF send[t] \in Waiting THEN leaked + 1 ELSE leaked
        /\ UNCHANGED <<places, limit, cooling>>
    BY <1>9 DEF TimeOut, Expired
  <2>2. CASE send[t] = "posted"
    BY <1>0, <2>1, <2>2, GaugesMoved
  <2>3. CASE send[t] \in Waiting
    BY <1>0, <2>1, <2>3, GaugesMoved
  <2>4. CASE send[t] \notin Waiting \cup {"posted"}
    BY <1>0, <2>1, <2>4, GaugesMoved
  <2> QED
    BY <2>2, <2>3, <2>4
<1> QED
  BY <1>1, <1>2, <1>3, <1>4, <1>5, <1>6, <1>7, <1>8, <1>9 DEF StepOf

\* Time ages the sends that are not over, none beyond its deadline.
LEMMA TickKept ==
    ASSUME Bundle, BundleTick
    PROVE  Bundle'
<1>1. /\ UNCHANGED <<send, attempt, answers, places, inflight, limit, stopped, leaked>>
      /\ age' = [t \in Tasks |-> IF send[t] \in Ended THEN age[t] ELSE age[t] + 1]
      /\ cooling' = IF cooling > 0 THEN cooling - 1 ELSE 0
  BY DEF BundleTick
<1>2. ASSUME NEW t \in Tasks PROVE age'[t] \in 0..SendTime
  <2>1. age[t] \in 0..SendTime
    BY DEF Bundle, TaskInv
  <2>2. send[t] \in Ended \/ ~(age[t] >= SendTime)
    BY DEF BundleTick, Expired
  <2> QED
    BY <1>1, <2>1, <2>2, BundleNumbers
<1>3. age' \in [Tasks -> 0..SendTime]
  BY <1>1, <1>2
<1>4. AttemptsAreCounted' /\ GaugesAreRight'
  BY <1>1 DEF Bundle, TaskInv, GaugeInv, AttemptsAreCounted, GaugesAreRight, Posted, InQueue
<1>5. cooling' \in Nat
  BY <1>1 DEF Bundle, GaugeInv
<1>6. TaskInv'
  BY <1>1, <1>3, <1>4 DEF Bundle, TaskInv
<1>7. GaugeInv'
  BY <1>1, <1>4, <1>5 DEF Bundle, GaugeInv
<1> QED
  BY <1>1, <1>6, <1>7 DEF Bundle

LEMMA RestKept ==
    ASSUME Bundle, FlipEmergency \/ UNCHANGED bundleVars
    PROVE  Bundle'
<1>1. UNCHANGED <<send, attempt, age, answers, places, inflight, limit, cooling, leaked>>
  BY DEF FlipEmergency, bundleVars, taskVars, gaugeVars
<1>2. TaskInv'
  BY <1>1 DEF Bundle, TaskInv, AttemptsAreCounted
<1>3. GaugeInv'
  BY <1>1 DEF Bundle, GaugeInv, GaugesAreRight, Posted, InQueue
<1>4. stopped' \in BOOLEAN
  BY DEF Bundle, FlipEmergency, bundleVars
<1> QED
  BY <1>2, <1>3, <1>4 DEF Bundle

\* Permits, places and attempts are accounted for, whatever a deadline or a
\* stop cuts off: BundleInv is inductive as it stands.
THEOREM BundlesAccounted == BundleSpec => []BundleInv
<1>1. ASSUME BundleInv, [BundleNext]_bundleVars
      PROVE  BundleInv'
  <2>1. Bundle
    BY <1>1, Parts
  <2>2. ASSUME NEW t \in Tasks, StepOf(t)
        PROVE  Bundle'
    <3>1. TaskInv'
      BY <2>1, <2>2, TaskKept DEF Bundle
    <3>2. GaugeInv'
      BY <2>1, <2>2, GaugesKept
    <3>3. stopped' = stopped
      BY <2>2 DEF StepOf, StartBundle, EnterQueue, SeeStop, WaitForToken, WaitForBudget,
         PostBundle, Answered, NextAttempt, TimeOut
    <3> QED
      BY <2>1, <3>1, <3>2, <3>3 DEF Bundle
  <2>3. Bundle'
    BY <1>1, <2>1, <2>2, TickKept, RestKept DEF BundleNext, StepOf
  <2> QED
    BY <2>3 DEF BundleInv, BundleTypeOK, Bundle, TaskInv, GaugeInv
<1> QED
  BY BundleInitInv, <1>1, PTL DEF BundleSpec

=============================================================================
