--------------------------- MODULE Pipeline_proofs ---------------------------
(***************************************************************************)
(* Proofs about the pipeline, for any finite set of creations, any number  *)
(* of workers and any capacities, thresholds and retries: PipelineInv is   *)
(* inductive, and every step of the pipeline is a step of the feed that it *)
(* promises, or a stutter.                                                 *)
(***************************************************************************)
EXTENDS Pipeline, FiniteSetTheorems, SequenceTheorems, TLAPS

LEMMA Numbers ==
    /\ None \notin Tokens
    /\ IsFiniteSet(Tokens)
    /\ ParseCapacity \in Nat \ {0}
    /\ EventCapacity \in Nat \ {0}
    /\ IntentCapacity \in Nat \ {0}
    /\ MaxBackoff \in Nat \ {0}
    /\ StallThreshold \in Nat
    /\ MaxRetries \in Nat
    /\ MaxIntentAge \in Nat
BY PipelineAssumption DEF PipelineAssumption

-----------------------------------------------------------------------------
(* Queues without repetitions.                                             *)

LEMMA EmptyQueue ==
    /\ \A S : <<>> \in Seq(S)
    /\ Len(<<>>) = 0
    /\ ToSet(<<>>) = {}
    /\ IsInjective(<<>>)
BY DEF ToSet, IsInjective

\* The new element comes last.
LEMMA Queued ==
    ASSUME NEW S, NEW q \in Seq(S), NEW x \in S
    PROVE  /\ Append(q, x) \in Seq(S)
           /\ Len(Append(q, x)) = Len(q) + 1
           /\ \A i \in 1..Len(q) : Append(q, x)[i] = q[i]
           /\ Append(q, x)[Len(q) + 1] = x
           /\ ToSet(Append(q, x)) = ToSet(q) \cup {x}
           /\ IsInjective(q) /\ x \notin ToSet(q) => IsInjective(Append(q, x))
<1>1. /\ Append(q, x) \in Seq(S)
      /\ Len(Append(q, x)) = Len(q) + 1
      /\ \A i \in 1..Len(q) : Append(q, x)[i] = q[i]
      /\ Append(q, x)[Len(q) + 1] = x
  BY AppendProperties
<1>2. Len(q) \in Nat /\ DOMAIN q = 1..Len(q) /\ DOMAIN Append(q, x) = 1..(Len(q) + 1)
  BY <1>1, LenProperties
<1>3. ToSet(Append(q, x)) = ToSet(q) \cup {x}
  BY <1>1, <1>2 DEF ToSet
<1>4. IsInjective(q) /\ x \notin ToSet(q) => IsInjective(Append(q, x))
  BY <1>1, <1>2 DEF ToSet, IsInjective
<1> QED
  BY <1>1, <1>3, <1>4

\* The oldest element goes first, and is not in what is left.
LEMMA Dequeued ==
    ASSUME NEW S, NEW q \in Seq(S), q # <<>>
    PROVE  /\ Head(q) \in S /\ Head(q) \in ToSet(q) /\ Head(q) = q[1]
           /\ Tail(q) \in Seq(S)
           /\ Len(q) \in Nat \ {0}
           /\ Len(Tail(q)) = Len(q) - 1
           /\ \A i \in 1..Len(Tail(q)) : Tail(q)[i] = q[i + 1]
           /\ IsInjective(q) =>
                /\ ToSet(Tail(q)) = ToSet(q) \ {Head(q)}
                /\ IsInjective(Tail(q))
<1>1. /\ Head(q) \in S
      /\ Tail(q) \in Seq(S)
      /\ Len(Tail(q)) = Len(q) - 1
      /\ \A i \in 1..Len(Tail(q)) : Tail(q)[i] = q[i + 1]
  BY HeadTailProperties
<1>2. Len(q) \in Nat \ {0} /\ DOMAIN q = 1..Len(q) /\ DOMAIN Tail(q) = 1..(Len(q) - 1)
  BY <1>1, LenProperties, EmptySeq
<1>3. Head(q) = q[1]
  OBVIOUS
<1>4. Head(q) \in ToSet(q)
  BY <1>2, <1>3 DEF ToSet
<1>5. ASSUME IsInjective(q)
      PROVE  ToSet(Tail(q)) = ToSet(q) \ {Head(q)} /\ IsInjective(Tail(q))
  <2>1. IsInjective(Tail(q))
    BY <1>1, <1>2, <1>5 DEF IsInjective
  <2>2. ASSUME NEW x \in ToSet(Tail(q))
        PROVE  x \in ToSet(q) \ {Head(q)}
    BY <1>1, <1>2, <1>3, <1>5 DEF ToSet, IsInjective
  <2>3. ASSUME NEW x \in ToSet(q), x # Head(q)
        PROVE  x \in ToSet(Tail(q))
    <3>1. PICK i \in 1..Len(q) : x = q[i]
      BY <1>2 DEF ToSet
    <3>2. i # 1 /\ i - 1 \in 1..Len(Tail(q))
      BY <1>1, <1>2, <1>3, <2>3, <3>1
    <3>3. Tail(q)[i - 1] = q[i]
      BY <1>1, <1>2, <3>2
    <3> QED
      BY <1>1, <1>2, <3>1, <3>2, <3>3 DEF ToSet
  <2> QED
    BY <2>1, <2>2, <2>3
<1> QED
  BY <1>1, <1>2, <1>3, <1>4, <1>5

LEMMA QueueOf ==
    ASSUME NEW S, NEW q \in Seq(S)
    PROVE  ToSet(q) \subseteq S /\ Len(q) \in Nat
BY LenProperties DEF ToSet

-----------------------------------------------------------------------------
(* The five places, one creation at a time.                                *)

InParse(t) == t \in ToSet(parseQ)
InJob(t) == \E w \in Workers : job[w] = t
InEvent(t) == t \in ToSet(eventQ)
InIntent(t) == t \in ToSet(intentQ)
InExec(t) == exec = t

Apart(t) ==
    /\ fate[t] = "moving" <=> InParse(t) \/ InJob(t) \/ InEvent(t) \/ InIntent(t) \/ InExec(t)
    /\ InParse(t) => ~InJob(t) /\ ~InEvent(t) /\ ~InIntent(t) /\ ~InExec(t)
    /\ InJob(t) => ~InEvent(t) /\ ~InIntent(t) /\ ~InExec(t)
    /\ InEvent(t) => ~InIntent(t) /\ ~InExec(t)
    /\ InIntent(t) => ~InExec(t)

OneJobEach == \A v, w \in Workers : job[v] = job[w] /\ job[v] # None => v = w

NoRepeats == IsInjective(parseQ) /\ IsInjective(eventQ) /\ IsInjective(intentQ)

Placed == (\A t \in Tokens : Apart(t)) /\ OneJobEach /\ NoRepeats

LEMMA PlacedIsInOnePlace ==
    ASSUME PipelineTypeOK
    PROVE  InOnePlace <=> Placed
<1> DEFINE P == ToSet(parseQ)
           J == {job[w] : w \in Busy}
           E == ToSet(eventQ)
           I == ToSet(intentQ)
           X == {exec} \ {None}
           Moving == {t \in Tokens : fate[t] = "moving"}
<1>1. /\ Places[1] = P /\ Places[2] = J /\ Places[3] = E /\ Places[4] = I /\ Places[5] = X
  BY DEF Places
<1>2. 1..5 = {1, 2, 3, 4, 5}
  OBVIOUS
<1>3. UNION {Places[i] : i \in 1..5} = P \cup J \cup E \cup I \cup X
  <2> HIDE DEF P, J, E, I, X
  <2> QED
    BY <1>1, <1>2
<1>4. (\A i, j \in 1..5 : i # j => Places[i] \cap Places[j] = {})
      <=> /\ P \cap J = {} /\ P \cap E = {} /\ P \cap I = {} /\ P \cap X = {}
          /\ J \cap E = {} /\ J \cap I = {} /\ J \cap X = {}
          /\ E \cap I = {} /\ E \cap X = {}
          /\ I \cap X = {}
  <2> HIDE DEF P, J, E, I, X
  <2> QED
    BY <1>1, <1>2
<1>5. P \subseteq Tokens /\ E \subseteq Tokens /\ I \subseteq Tokens /\ X \subseteq Tokens
  BY QueueOf DEF PipelineTypeOK
<1>6. J \subseteq Tokens /\ \A t \in Tokens : t \in J <=> InJob(t)
  BY Numbers DEF PipelineTypeOK, Busy, InJob
<1>7. \A t \in Tokens : /\ t \in P <=> InParse(t)
                        /\ t \in E <=> InEvent(t)
                        /\ t \in I <=> InIntent(t)
                        /\ t \in X <=> InExec(t)
                        /\ t \in Moving <=> fate[t] = "moving"
  BY Numbers DEF InParse, InEvent, InIntent, InExec
<1>8. (\A v, w \in Busy : job[v] = job[w] => v = w) <=> OneJobEach
  BY DEF Busy, OneJobEach
<1>9. (\A q \in {parseQ, eventQ, intentQ} : IsInjective(q)) <=> NoRepeats
  BY DEF NoRepeats
<1>10. (/\ Moving = P \cup J \cup E \cup I \cup X
        /\ P \cap J = {} /\ P \cap E = {} /\ P \cap I = {} /\ P \cap X = {}
        /\ J \cap E = {} /\ J \cap I = {} /\ J \cap X = {}
        /\ E \cap I = {} /\ E \cap X = {}
        /\ I \cap X = {})
       <=> \A t \in Tokens : Apart(t)
  <2>1. Moving \subseteq Tokens
    OBVIOUS
  <2> HIDE DEF P, J, E, I, X, Moving
  <2> QED
    BY <2>1, <1>5, <1>6, <1>7 DEF Apart
<1> QED
  BY <1>3, <1>4, <1>8, <1>9, <1>10 DEF InOnePlace, Placed

-----------------------------------------------------------------------------
(* The invariant, part by part.                                            *)

Whole ==
    /\ PipelineTypeOK
    /\ Placed
    /\ DropsAreCounted
    /\ OldestFirst
    /\ NoStrayWorkers
    /\ AcceptedInOrder

LEMMA WholeIsInv == PipelineInv <=> Whole
BY PlacedIsInOnePlace DEF PipelineInv, Whole

\* What only moves the monitor's task, its clock and its count of workers.
LinkStep ==
    /\ UNCHANGED <<parseQ, job, tries, mainVars, fate>>
    /\ link' \in Links /\ backoff' \in 1..MaxBackoff /\ silent' \in 0..StallThreshold
    /\ shutdown' \in BOOLEAN /\ gone' \subseteq Workers
    /\ link \notin {"subscribed", "draining"} \/ link' \in {"subscribed", "draining"}

LEMMA LinkSteps ==
    ASSUME PipelineTypeOK,
           \/ Subscribe \/ SubscribeFails \/ OtherFrame \/ EndSession \/ Reconnect \/ Shutdown
    PROVE  LinkStep
<1> USE Numbers DEF PipelineTypeOK, LinkStep, Links, Blocking, linkVars, parserVars, mainVars
<1>1. CASE Subscribe
  BY <1>1 DEF Subscribe
<1>2. CASE SubscribeFails
  <2>1. AfterThread \in {"stopped", "waiting"}
    BY DEF AfterThread
  <2> QED
    BY <1>2, <2>1 DEF SubscribeFails
<1>3. CASE OtherFrame
  BY <1>3 DEF OtherFrame
<1>4. CASE EndSession
  BY <1>4 DEF EndSession
<1>5. CASE Reconnect
  BY <1>5 DEF Reconnect
<1>6. CASE Shutdown
  BY <1>6 DEF Shutdown
<1> QED
  BY <1>1, <1>2, <1>3, <1>4, <1>5, <1>6

LEMMA LinkKept ==
    ASSUME Whole, LinkStep
    PROVE  Whole'
<1> USE DEF LinkStep, mainVars
<1>1. PipelineTypeOK'
  BY DEF Whole, PipelineTypeOK
<1>2. Placed'
  BY DEF Whole, Placed, Apart, OneJobEach, NoRepeats, InParse, InJob, InEvent, InIntent, InExec
<1>3. DropsAreCounted' /\ OldestFirst' /\ AcceptedInOrder'
  BY DEF Whole, DropsAreCounted, OldestFirst, AcceptedInOrder
<1>4. NoStrayWorkers'
  BY DEF Whole, NoStrayWorkers, Busy
<1> QED
  BY <1>1, <1>2, <1>3, <1>4 DEF Whole

-----------------------------------------------------------------------------
(* Counting the ends of creations.                                         *)

\* A creation that gets an end that is not counted leaves the counts alone;
\* each of the other two raises its own.
LEMMA EndCounted ==
    ASSUME PipelineTypeOK, DropsAreCounted, NEW t \in Tokens, NEW f \in Fates,
           fate[t] \notin {"stale", "refused"}, Becomes(t, f),
           drops' = [total |-> drops.total + (IF f \in {"stale", "refused"} THEN 1 ELSE 0),
                     stale |-> drops.stale + (IF f = "stale" THEN 1 ELSE 0)]
    PROVE  DropsAreCounted'
<1> DEFINE Stale == {u \in Tokens : fate[u] = "stale"}
           Dropped == {u \in Tokens : fate[u] \in {"stale", "refused"}}
<1>1. /\ fate'[t] = f
      /\ \A u \in Tokens \ {t} : fate'[u] = fate[u]
  BY DEF PipelineTypeOK, Becomes
<1>2. /\ IsFiniteSet(Stale) /\ t \notin Stale
      /\ IsFiniteSet(Dropped) /\ t \notin Dropped
  BY Numbers, FS_Subset
<1>3. /\ Cardinality(Stale \cup {t}) = Cardinality(Stale) + 1
      /\ Cardinality(Dropped \cup {t}) = Cardinality(Dropped) + 1
      /\ Cardinality(Stale) \in Nat /\ Cardinality(Dropped) \in Nat
  BY <1>2, FS_AddElement, FS_CardinalityType
<1>4. Stale' = IF f = "stale" THEN Stale \cup {t} ELSE Stale
  BY <1>1, <1>2
<1>5. Dropped' = IF f \in {"stale", "refused"} THEN Dropped \cup {t} ELSE Dropped
  BY <1>1, <1>2
<1>6. drops.stale = Cardinality(Stale) /\ drops.total = Cardinality(Dropped)
  BY DEF DropsAreCounted
<1>7. drops'.stale = Cardinality(Stale') /\ drops'.total = Cardinality(Dropped')
  <2> HIDE DEF Stale, Dropped
  <2> QED
    BY <1>3, <1>4, <1>5, <1>6
<1> QED
  BY <1>7 DEF DropsAreCounted

LEMMA CutUncounted ==
    ASSUME PipelineTypeOK, DropsAreCounted, UNCHANGED drops,
           fate' \in [Tokens -> Fates],
           \A t \in Tokens : \/ fate'[t] = fate[t]
                             \/ fate[t] = "moving" /\ fate'[t] = "cut"
    PROVE  DropsAreCounted'
<1>1. /\ {t \in Tokens : fate'[t] = "stale"} = {t \in Tokens : fate[t] = "stale"}
      /\ {t \in Tokens : fate'[t] \in {"stale", "refused"}} =
            {t \in Tokens : fate[t] \in {"stale", "refused"}}
  OBVIOUS
<1> QED
  BY <1>1 DEF DropsAreCounted

\* What an assignment of one fate does to the others.
LEMMA OneFate ==
    ASSUME PipelineTypeOK, NEW t \in Tokens, NEW f \in Fates, Becomes(t, f)
    PROVE  /\ fate' \in [Tokens -> Fates]
           /\ \A u \in Tokens : fate'[u] = IF u = t THEN f ELSE fate[u]
BY DEF PipelineTypeOK, Becomes

-----------------------------------------------------------------------------
(* The steps on the way to the event channel.                              *)

LEMMA FrameKept ==
    ASSUME Whole, NEW t \in Tokens, Frame(t)
    PROVE  Whole'
<1> USE DEF mainVars
<1>1. /\ link = "subscribed" /\ link' = link /\ fate[t] = "unborn"
      /\ UNCHANGED <<job, tries, mainVars>>
  BY DEF Frame
<1>2. PipelineTypeOK /\ Apart(t) /\ t \notin ToSet(parseQ) /\ parseQ \in Seq(Tokens)
  BY <1>1 DEF Whole, Placed, Apart, InParse, PipelineTypeOK
<1>3. PICK f \in {"moving", "unqueued"} :
        /\ Becomes(t, f)
        /\ f = "moving" => Len(parseQ) < ParseCapacity /\ parseQ' = Append(parseQ, t)
        /\ f = "unqueued" => parseQ' = parseQ
  BY DEF Frame
<1>4. /\ fate' \in [Tokens -> Fates]
      /\ \A u \in Tokens : fate'[u] = IF u = t THEN f ELSE fate[u]
  BY <1>2, <1>3, OneFate DEF Fates, Lost
<1>5. /\ parseQ' \in Seq(Tokens) /\ Len(parseQ') <= ParseCapacity
      /\ ToSet(parseQ') = IF f = "moving" THEN ToSet(parseQ) \cup {t} ELSE ToSet(parseQ)
      /\ IsInjective(parseQ) => IsInjective(parseQ')
  <2>1. Len(parseQ) \in Nat /\ ParseCapacity \in Nat /\ Len(parseQ) <= ParseCapacity
    BY <1>2, QueueOf, Numbers DEF PipelineTypeOK
  <2>2. /\ Append(parseQ, t) \in Seq(Tokens)
        /\ Len(Append(parseQ, t)) = Len(parseQ) + 1
        /\ ToSet(Append(parseQ, t)) = ToSet(parseQ) \cup {t}
        /\ IsInjective(parseQ) => IsInjective(Append(parseQ, t))
    BY <1>2, Queued
  <2>3. CASE f = "moving"
    <3>1. parseQ' = Append(parseQ, t) /\ Len(parseQ) + 1 <= ParseCapacity
      BY <1>3, <2>1, <2>3
    <3> QED
      BY <2>2, <2>3, <3>1
  <2>4. CASE f = "unqueued"
    <3>1. parseQ' = parseQ /\ f # "moving"
      BY <1>3, <2>4
    <3> QED
      BY <1>2, <2>1, <3>1
  <2> QED
    BY <2>3, <2>4
<1>6. PipelineTypeOK'
  <2>1. silent' \in 0..StallThreshold /\ UNCHANGED <<backoff, shutdown, gone>>
    BY Numbers DEF Frame
  <2> QED
    BY <1>1, <1>2, <1>4, <1>5, <2>1 DEF PipelineTypeOK
<1>7. Placed'
  BY <1>1, <1>2, <1>4, <1>5
  DEF Whole, Placed, Apart, OneJobEach, NoRepeats, InParse, InJob, InEvent, InIntent, InExec
<1>8. DropsAreCounted'
  <2>1. drops' = [total |-> drops.total + 0, stale |-> drops.stale + 0]
    BY <1>1, <1>2 DEF PipelineTypeOK
  <2> QED
    BY <1>1, <1>2, <1>3, <2>1, EndCounted DEF Whole, Fates, Lost
<1>9. OldestFirst' /\ NoStrayWorkers'
  BY <1>1 DEF Whole, OldestFirst, NoStrayWorkers
<1>10. AcceptedInOrder'
  <2>1. \A u \in ToSet(accepted) : u \in Tokens
    BY <1>2, QueueOf DEF PipelineTypeOK
  <2> QED
    BY <1>1, <1>2, <1>4, <2>1 DEF Whole, AcceptedInOrder, Apart, InIntent, InExec
<1> QED
  BY <1>6, <1>7, <1>8, <1>9, <1>10 DEF Whole

\* A worker takes a job, or throws it away and leaves.
LEMMA TakeJobKept ==
    ASSUME Whole, NEW w \in Workers, TakeJob(w)
    PROVE  Whole'
<1> DEFINE t == Head(parseQ)
<1> USE DEF mainVars, linkVars
<1>1. /\ link \in {"subscribed", "draining"} /\ link' = link
      /\ job[w] = None /\ parseQ # <<>> /\ parseQ' = Tail(parseQ)
      /\ UNCHANGED <<linkVars, mainVars>>
  BY DEF TakeJob
<1>2. PipelineTypeOK /\ parseQ \in Seq(Tokens) /\ IsInjective(parseQ)
  BY DEF Whole, Placed, NoRepeats, PipelineTypeOK
<1>3. /\ t \in Tokens /\ t \in ToSet(parseQ)
      /\ parseQ' \in Seq(Tokens) /\ Len(parseQ') <= ParseCapacity
      /\ ToSet(parseQ') = ToSet(parseQ) \ {t} /\ IsInjective(parseQ')
  BY <1>1, <1>2, Dequeued, Numbers DEF PipelineTypeOK
<1>4. Apart(t) /\ fate[t] = "moving" /\ ~InJob(t) /\ ~InEvent(t) /\ ~InIntent(t) /\ ~InExec(t)
  BY <1>3 DEF Whole, Placed, Apart, InParse
<1>5. CASE shutdown
  <2>1. /\ Becomes(t, "cut") /\ gone' = gone \cup {w} /\ UNCHANGED <<job, tries>>
    BY <1>5 DEF TakeJob
  <2>2. /\ fate' \in [Tokens -> Fates]
        /\ \A u \in Tokens : fate'[u] = IF u = t THEN "cut" ELSE fate[u]
    BY <1>2, <1>3, <2>1, OneFate DEF Fates, Lost
  <2>3. PipelineTypeOK'
    BY <1>1, <1>2, <1>3, <2>1, <2>2 DEF PipelineTypeOK
  <2>4. Placed'
    BY <1>1, <1>3, <1>4, <2>1, <2>2
    DEF Whole, Placed, Apart, OneJobEach, NoRepeats, InParse, InJob, InEvent, InIntent, InExec
  <2>5. DropsAreCounted'
    BY <1>1, <1>2, <1>4, <2>2, CutUncounted DEF Whole
  <2>6. AcceptedInOrder'
    <3>1. \A u \in ToSet(accepted) : u \in Tokens
      BY <1>2, QueueOf DEF PipelineTypeOK
    <3> QED
      BY <1>1, <2>2, <3>1 DEF Whole, AcceptedInOrder
  <2> QED
    BY <1>1, <2>3, <2>4, <2>5, <2>6 DEF Whole, OldestFirst, NoStrayWorkers
<1>6. CASE ~shutdown
  <2>1. /\ job' = [job EXCEPT ![w] = t] /\ tries' = [tries EXCEPT ![w] = 0]
        /\ UNCHANGED <<gone, fate>>
    BY <1>6 DEF TakeJob
  <2>2. /\ job'[w] = t
        /\ \A v \in Workers : v # w => job'[v] = job[v]
    BY <1>2, <2>1 DEF PipelineTypeOK
  <2>3. PipelineTypeOK'
    <3>1. job' \in [Workers -> Tokens \cup {None}] /\ tries' \in [Workers -> 0..MaxRetries]
      BY <1>2, <1>3, <2>1, Numbers DEF PipelineTypeOK
    <3> QED
      BY <1>1, <1>2, <1>3, <2>1, <3>1 DEF PipelineTypeOK
  <2>4. \A u \in Tokens : InJob(u)' <=> InJob(u) \/ u = t
    BY <1>1, <2>2, Numbers DEF InJob
  <2>5. OneJobEach'
    BY <1>4, <2>2 DEF Whole, Placed, OneJobEach, InJob
  <2>6. Placed'
    BY <1>1, <1>3, <1>4, <2>1, <2>4, <2>5
    DEF Whole, Placed, Apart, NoRepeats, InParse, InEvent, InIntent, InExec
  <2>7. DropsAreCounted' /\ AcceptedInOrder'
    BY <1>1, <2>1 DEF Whole, DropsAreCounted, AcceptedInOrder
  <2> QED
    BY <1>1, <2>3, <2>6, <2>7 DEF Whole, OldestFirst, NoStrayWorkers
<1> QED
  BY <1>5, <1>6

\* What a worker is done with goes to the event channel or comes to an end.
LEMMA JobEnds ==
    ASSUME Whole, NEW w \in Workers, EndJob(w),
           UNCHANGED <<linkVars, parseQ, gone, intentQ, age, exec, running, drops, accepted, taken>>,
           \/ /\ Len(eventQ) < EventCapacity
              /\ eventQ' = Append(eventQ, job[w])
              /\ UNCHANGED fate
           \/ /\ \E f \in {"unparsed", "unsent"} : Becomes(job[w], f)
              /\ UNCHANGED eventQ
    PROVE  Whole'
<1> DEFINE t == job[w]
<1> USE DEF linkVars
<1>1. PipelineTypeOK /\ t \in Tokens /\ eventQ \in Seq(Tokens)
  BY DEF Whole, PipelineTypeOK, EndJob
<1>2. /\ job' \in [Workers -> Tokens \cup {None}] /\ tries' \in [Workers -> 0..MaxRetries]
      /\ job'[w] = None /\ \A v \in Workers : v # w => job'[v] = job[v]
  BY <1>1, Numbers DEF EndJob, PipelineTypeOK
<1>3. /\ Apart(t) /\ fate[t] = "moving"
      /\ ~InParse(t) /\ ~InEvent(t) /\ ~InIntent(t) /\ ~InExec(t)
  BY <1>1 DEF Whole, Placed, Apart, InJob
<1>4. \A u \in Tokens : InJob(u)' <=> InJob(u) /\ u # t
  BY <1>1, <1>2, Numbers DEF Whole, Placed, OneJobEach, InJob
<1>5. OneJobEach'
  BY <1>2 DEF Whole, Placed, OneJobEach
<1>6. NoStrayWorkers'
  BY <1>2 DEF Whole, NoStrayWorkers, Busy
<1>7. OldestFirst'
  BY DEF Whole, OldestFirst
<1>8. CASE /\ Len(eventQ) < EventCapacity
           /\ eventQ' = Append(eventQ, t)
           /\ UNCHANGED fate
  <2>1. /\ eventQ' \in Seq(Tokens) /\ Len(eventQ') <= EventCapacity
        /\ ToSet(eventQ') = ToSet(eventQ) \cup {t} /\ IsInjective(eventQ')
    BY <1>1, <1>3, <1>8, Queued, QueueOf, Numbers
    DEF Whole, Placed, NoRepeats, PipelineTypeOK, InEvent
  <2>2. PipelineTypeOK'
    BY <1>1, <1>2, <1>8, <2>1 DEF PipelineTypeOK
  <2>3. Placed'
    BY <1>3, <1>4, <1>5, <1>8, <2>1
    DEF Whole, Placed, Apart, NoRepeats, InParse, InEvent, InIntent, InExec
  <2>4. DropsAreCounted' /\ AcceptedInOrder'
    BY <1>8 DEF Whole, DropsAreCounted, AcceptedInOrder
  <2> QED
    BY <1>6, <1>7, <2>2, <2>3, <2>4 DEF Whole
<1>9. CASE /\ \E f \in {"unparsed", "unsent"} : Becomes(t, f)
           /\ UNCHANGED eventQ
  <2>1. PICK f \in {"unparsed", "unsent"} : Becomes(t, f)
    BY <1>9
  <2>2. /\ fate' \in [Tokens -> Fates]
        /\ \A u \in Tokens : fate'[u] = IF u = t THEN f ELSE fate[u]
    BY <1>1, <2>1, OneFate DEF Fates, Lost
  <2>3. PipelineTypeOK'
    BY <1>1, <1>2, <1>9, <2>2 DEF PipelineTypeOK
  <2>4. Placed'
    BY <1>3, <1>4, <1>5, <1>9, <2>2
    DEF Whole, Placed, Apart, NoRepeats, InParse, InEvent, InIntent, InExec
  <2>5. DropsAreCounted'
    <3>1. drops' = [total |-> drops.total + 0, stale |-> drops.stale + 0]
      BY <1>1 DEF PipelineTypeOK
    <3> QED
      BY <1>1, <1>3, <2>1, <3>1, EndCounted DEF Whole, Fates, Lost
  <2>6. AcceptedInOrder'
    <3>1. \A u \in ToSet(accepted) : u \in Tokens
      BY <1>1, QueueOf DEF PipelineTypeOK
    <3> QED
      BY <1>3, <2>2, <3>1 DEF Whole, AcceptedInOrder, InIntent, InExec
  <2> QED
    BY <1>6, <1>7, <2>3, <2>4, <2>5, <2>6 DEF Whole
<1> QED
  BY <1>8, <1>9

LEMMA FetchKept ==
    ASSUME Whole, NEW w \in Workers, Fetch(w)
    PROVE  Whole'
<1> USE DEF mainVars, linkVars
<1>1. CASE Parsed(w)
  <2>1. CASE running /\ Len(eventQ) < EventCapacity
    BY <1>1, <2>1, JobEnds DEF Parsed
  <2>2. CASE ~(running /\ Len(eventQ) < EventCapacity)
    BY <1>1, <2>2, JobEnds DEF Parsed
  <2> QED
    BY <2>1, <2>2
<1>2. CASE NotACreation(w) \/ FetchGivesUp(w)
  BY <1>2, JobEnds DEF NotACreation, FetchGivesUp
<1>3. CASE FetchAgain(w)
  <2>1. /\ UNCHANGED <<linkVars, parseQ, job, gone, mainVars, fate>>
        /\ tries' \in [Workers -> 0..MaxRetries]
    BY <1>3, Numbers DEF FetchAgain, Whole, PipelineTypeOK
  <2>2. PipelineTypeOK'
    BY <2>1 DEF Whole, PipelineTypeOK
  <2>3. Placed'
    BY <2>1 DEF Whole, Placed, Apart, OneJobEach, NoRepeats,
                InParse, InJob, InEvent, InIntent, InExec
  <2> QED
    BY <2>1, <2>2, <2>3
    DEF Whole, DropsAreCounted, OldestFirst, AcceptedInOrder, NoStrayWorkers, Busy
<1> QED
  BY <1>1, <1>2, <1>3 DEF Fetch

\* The parse channel is closed with what is left in it.
LEMMA JoinedKept ==
    ASSUME Whole, Joined
    PROVE  Whole'
<1> USE DEF mainVars
<1>1. /\ parseQ' = <<>> /\ UNCHANGED <<silent, shutdown, job, tries, gone, mainVars>>
      /\ \A w \in Workers : job[w] = None
  BY DEF Joined
<1>2. PipelineTypeOK /\ ToSet(parseQ') = {} /\ IsInjective(parseQ')
      /\ parseQ' \in Seq(Tokens) /\ Len(parseQ') = 0
  BY <1>1, EmptyQueue DEF Whole
<1>3. /\ fate' \in [Tokens -> Fates]
      /\ \A u \in Tokens : fate'[u] = IF InParse(u) THEN "cut" ELSE fate[u]
  BY <1>2 DEF Joined, PipelineTypeOK, Fates, Lost, InParse
<1>4. PipelineTypeOK'
  <2>1. AfterThread \in Links
    BY DEF AfterThread, Links
  <2>2. link' \in Links /\ backoff' \in 1..MaxBackoff
    BY <1>2, <2>1, Numbers DEF Joined, PipelineTypeOK
  <2> QED
    BY <1>1, <1>2, <1>3, <2>2, Numbers DEF PipelineTypeOK
<1>5. Placed'
  BY <1>1, <1>2, <1>3
  DEF Whole, Placed, Apart, OneJobEach, NoRepeats, InParse, InJob, InEvent, InIntent, InExec
<1>6. DropsAreCounted'
  BY <1>1, <1>2, <1>3, CutUncounted DEF Whole, Placed, Apart
<1>7. NoStrayWorkers'
  BY <1>1 DEF NoStrayWorkers, Busy
<1>8. AcceptedInOrder'
  <2>1. \A u \in ToSet(accepted) : u \in Tokens
    BY <1>2, QueueOf DEF PipelineTypeOK
  <2> QED
    BY <1>1, <1>3, <2>1 DEF Whole, AcceptedInOrder
<1> QED
  BY <1>1, <1>4, <1>5, <1>6, <1>7, <1>8 DEF Whole, OldestFirst

-----------------------------------------------------------------------------
(* The main loop and the exec worker.                                      *)

\* What the queue of intents is known to hold.
LEMMA IntentsType ==
    ASSUME PipelineTypeOK
    PROVE  /\ intentQ \in Seq(Tokens) /\ accepted \in Seq(Tokens) /\ taken \in Seq(Tokens)
           /\ Len(intentQ) \in Nat
           /\ \A i \in 1..Len(intentQ) : intentQ[i] \in Tokens /\ intentQ[i] \in ToSet(intentQ)
           /\ \A t \in ToSet(accepted) : t \in Tokens
           /\ \A t \in Tokens : age[t] \in Nat
<1>1. intentQ \in Seq(Tokens) /\ accepted \in Seq(Tokens) /\ taken \in Seq(Tokens)
  BY DEF PipelineTypeOK
<1>2. Len(intentQ) \in Nat /\ DOMAIN intentQ = 1..Len(intentQ)
  BY <1>1, LenProperties
<1>3. \A i \in 1..Len(intentQ) : intentQ[i] \in Tokens /\ intentQ[i] \in ToSet(intentQ)
  BY <1>1, <1>2, ElementOfSeq DEF ToSet
<1>4. \A t \in Tokens : age[t] \in Nat
  BY Numbers DEF PipelineTypeOK
<1> QED
  BY <1>1, <1>2, <1>3, <1>4, QueueOf

\* The intent that is taken is the next of the accepted ones.
LEMMA ServedFirst ==
    ASSUME PipelineTypeOK, AcceptedInOrder, running, running', intentQ # <<>>,
           intentQ' = Tail(intentQ), taken' = Append(taken, Head(intentQ)), accepted' = accepted
    PROVE  /\ accepted' = taken' \o intentQ'
           /\ Len(taken) < Len(accepted)
           /\ accepted[Len(taken) + 1] = Head(intentQ)
<1> DEFINE h == Head(intentQ)
<1>1. accepted = taken \o intentQ /\ intentQ \in Seq(Tokens) /\ taken \in Seq(Tokens)
  BY IntentsType DEF AcceptedInOrder
<1>2. h \in Tokens /\ <<h>> \in Seq(Tokens) /\ intentQ' \in Seq(Tokens)
  BY <1>1, HeadTailProperties
<1>3. taken' = taken \o <<h>>
  BY <1>1, <1>2, AppendIsConcat
<1>4. intentQ = <<h>> \o intentQ'
  <2>1. <<h>> \o intentQ' \in Seq(Tokens) /\ Len(<<h>> \o intentQ') = Len(intentQ)
    BY <1>1, <1>2, HeadTailProperties, ConcatProperties
  <2>2. \A i \in 1..Len(intentQ) : (<<h>> \o intentQ')[i] = intentQ[i]
    BY <1>1, <1>2, HeadTailProperties, ConcatProperties
  <2> QED
    BY <1>1, <2>1, <2>2, SeqEqual
<1>5. accepted = taken' \o intentQ'
  BY <1>1, <1>2, <1>3, <1>4, ConcatAssociative
<1>6. Len(taken) \in Nat /\ Len(intentQ) \in Nat \ {0} /\ intentQ[1] = h
  BY <1>1, EmptySeq, LenProperties
<1>7. Len(accepted) = Len(taken) + Len(intentQ) /\ accepted[Len(taken) + 1] = intentQ[1]
  BY <1>1, <1>6, ConcatProperties
<1> QED
  BY <1>5, <1>6, <1>7

LEMMA HandleEventKept ==
    ASSUME Whole, HandleEvent
    PROVE  Whole'
<1> DEFINE t == Head(eventQ)
<1> USE DEF parserVars, linkVars
<1>1. /\ running /\ eventQ # <<>> /\ eventQ' = Tail(eventQ)
      /\ UNCHANGED <<linkVars, parserVars, exec, running, taken>>
  BY DEF HandleEvent
<1>2. PipelineTypeOK /\ eventQ \in Seq(Tokens) /\ IsInjective(eventQ)
  BY DEF Whole, Placed, NoRepeats, PipelineTypeOK
<1>3. /\ t \in Tokens /\ t \in ToSet(eventQ)
      /\ eventQ' \in Seq(Tokens) /\ Len(eventQ') <= EventCapacity
      /\ ToSet(eventQ') = ToSet(eventQ) \ {t} /\ IsInjective(eventQ')
  BY <1>1, <1>2, Dequeued, Numbers DEF PipelineTypeOK
<1>4. Apart(t) /\ fate[t] = "moving" /\ ~InParse(t) /\ ~InJob(t) /\ ~InIntent(t) /\ ~InExec(t)
  BY <1>3 DEF Whole, Placed, Apart, InEvent
<1>5. NoStrayWorkers'
  BY <1>1 DEF Whole, NoStrayWorkers, Busy
<1>6. CASE Len(intentQ) < IntentCapacity
  <2>1. /\ intentQ' = Append(intentQ, t)
        /\ age' = [age EXCEPT ![t] = 0]
        /\ accepted' = Append(accepted, t)
        /\ UNCHANGED <<drops, fate>>
    BY <1>6 DEF HandleEvent
  <2>2. /\ intentQ' \in Seq(Tokens) /\ Len(intentQ') = Len(intentQ) + 1
        /\ \A i \in 1..Len(intentQ) : intentQ'[i] = intentQ[i]
        /\ intentQ'[Len(intentQ) + 1] = t
        /\ ToSet(intentQ') = ToSet(intentQ) \cup {t} /\ IsInjective(intentQ')
    BY <1>2, <1>3, <1>4, <2>1, Queued, IntentsType DEF Whole, Placed, NoRepeats, InIntent
  <2>3. /\ accepted' \in Seq(Tokens) /\ ToSet(accepted') = ToSet(accepted) \cup {t}
    BY <1>2, <1>3, <2>1, Queued, IntentsType
  <2>4. /\ age' \in [Tokens -> 0..(MaxIntentAge + 1)]
        /\ \A u \in Tokens : age'[u] = IF u = t THEN 0 ELSE age[u]
    BY <1>2, <1>3, <2>1, Numbers DEF PipelineTypeOK
  <2>5. PipelineTypeOK'
    <3>1. Len(intentQ') <= IntentCapacity
      BY <1>2, <1>6, <2>2, IntentsType, Numbers
    <3> QED
      BY <1>1, <1>2, <1>3, <2>1, <2>2, <2>3, <2>4, <3>1 DEF PipelineTypeOK
  <2>6. Placed'
    BY <1>1, <1>3, <1>4, <2>1, <2>2
    DEF Whole, Placed, Apart, OneJobEach, NoRepeats, InParse, InJob, InEvent, InIntent, InExec
  <2>7. OldestFirst'
    <3> SUFFICES ASSUME NEW i \in 1..(Len(intentQ) + 1), NEW j \in 1..(Len(intentQ) + 1), i < j
                 PROVE  age'[intentQ'[i]] >= age'[intentQ'[j]]
      BY <2>2 DEF OldestFirst
    <3>1. /\ i \in 1..Len(intentQ) /\ intentQ'[i] = intentQ[i]
          /\ intentQ[i] \in Tokens /\ intentQ[i] # t /\ age[intentQ[i]] \in Nat
      BY <1>2, <1>4, <2>2, IntentsType DEF InIntent
    <3>2. CASE j = Len(intentQ) + 1
      BY <1>3, <2>2, <2>4, <3>1, <3>2
    <3>3. CASE j # Len(intentQ) + 1
      <4>1. j \in 1..Len(intentQ) /\ intentQ'[j] = intentQ[j] /\ intentQ[j] \in Tokens
            /\ intentQ[j] # t
        BY <1>2, <1>4, <2>2, <3>3, IntentsType DEF InIntent
      <4> QED
        BY <2>4, <3>1, <4>1 DEF Whole, OldestFirst
    <3> QED
      BY <3>2, <3>3
  <2>8. AcceptedInOrder'
    <3>1. accepted' = taken' \o intentQ'
      <4>1. accepted = taken \o intentQ
        BY <1>1 DEF Whole, AcceptedInOrder
      <4>2. /\ taken \in Seq(Tokens) /\ intentQ \in Seq(Tokens)
            /\ accepted \in Seq(Tokens) /\ <<t>> \in Seq(Tokens)
        BY <1>2, <1>3, IntentsType
      <4>3. accepted' = accepted \o <<t>> /\ intentQ' = intentQ \o <<t>>
        BY <1>3, <2>1, <4>2, AppendIsConcat
      <4> QED
        BY <1>1, <4>1, <4>2, <4>3, ConcatAssociative
    <3> QED
      BY <1>1, <2>1, <2>2, <2>3, <3>1 DEF Whole, AcceptedInOrder
  <2> QED
    BY <1>5, <2>1, <2>5, <2>6, <2>7, <2>8 DEF Whole, DropsAreCounted
<1>7. CASE ~(Len(intentQ) < IntentCapacity)
  <2>1. /\ drops' = [drops EXCEPT !.total = @ + 1]
        /\ Becomes(t, "refused")
        /\ UNCHANGED <<intentQ, age, accepted>>
    BY <1>7 DEF HandleEvent
  <2>2. /\ fate' \in [Tokens -> Fates]
        /\ \A u \in Tokens : fate'[u] = IF u = t THEN "refused" ELSE fate[u]
    BY <1>2, <1>3, <2>1, OneFate DEF Fates, Lost
  <2>3. drops' = [total |-> drops.total + 1, stale |-> drops.stale + 0]
    <3>1. drops \in [total : Nat, stale : Nat]
      BY <1>2 DEF PipelineTypeOK
    <3> QED
      BY <2>1, <3>1
  <2>4. PipelineTypeOK'
    <3>1. drops' \in [total : Nat, stale : Nat]
      <4>1. drops \in [total : Nat, stale : Nat]
        BY <1>2 DEF PipelineTypeOK
      <4> QED
        BY <2>3, <4>1
    <3> QED
      BY <1>1, <1>2, <1>3, <2>1, <2>2, <3>1 DEF PipelineTypeOK
  <2>5. Placed'
    BY <1>1, <1>3, <1>4, <2>1, <2>2
    DEF Whole, Placed, Apart, OneJobEach, NoRepeats, InParse, InJob, InEvent, InIntent, InExec
  <2>6. DropsAreCounted'
    BY <1>2, <1>3, <1>4, <2>1, <2>3, EndCounted DEF Whole, Fates, Lost
  <2>7. AcceptedInOrder'
    BY <1>1, <1>2, <1>4, <2>1, <2>2, IntentsType DEF Whole, AcceptedInOrder, InIntent, InExec
  <2> QED
    BY <1>5, <2>1, <2>4, <2>5, <2>6, <2>7 DEF Whole, OldestFirst
<1> QED
  BY <1>6, <1>7

\* The worker takes the oldest intent, and drops it if it is too old.
LEMMA TakeIntentKept ==
    ASSUME Whole, TakeIntent
    PROVE  Whole'
<1> DEFINE t == Head(intentQ)
<1> USE DEF parserVars, linkVars
<1>1. /\ running /\ exec = None /\ intentQ # <<>> /\ intentQ' = Tail(intentQ)
      /\ taken' = Append(taken, t)
      /\ UNCHANGED <<linkVars, parserVars, eventQ, age, running, accepted>>
  BY DEF TakeIntent
<1>2. PipelineTypeOK /\ intentQ \in Seq(Tokens) /\ IsInjective(intentQ)
  BY DEF Whole, Placed, NoRepeats, PipelineTypeOK
<1>3. /\ t \in Tokens /\ t \in ToSet(intentQ)
      /\ intentQ' \in Seq(Tokens) /\ Len(intentQ') <= IntentCapacity
      /\ Len(intentQ') = Len(intentQ) - 1
      /\ \A i \in 1..Len(intentQ') : intentQ'[i] = intentQ[i + 1]
      /\ ToSet(intentQ') = ToSet(intentQ) \ {t} /\ IsInjective(intentQ')
  BY <1>1, <1>2, Dequeued, Numbers DEF PipelineTypeOK
<1>4. Apart(t) /\ fate[t] = "moving" /\ ~InParse(t) /\ ~InJob(t) /\ ~InEvent(t) /\ ~InExec(t)
  BY <1>3 DEF Whole, Placed, Apart, InIntent
<1>5. NoStrayWorkers'
  BY <1>1 DEF Whole, NoStrayWorkers, Busy
<1>6. OldestFirst'
  BY <1>1, <1>2, <1>3, IntentsType DEF Whole, OldestFirst
<1>7. taken' \in Seq(Tokens)
  BY <1>1, <1>2, <1>3, IntentsType, Queued
<1>8. accepted' = taken' \o intentQ'
  BY <1>1, ServedFirst DEF Whole
<1>9. CASE age[t] > MaxIntentAge
  <2>1. /\ drops' = [total |-> drops.total + 1, stale |-> drops.stale + 1]
        /\ Becomes(t, "stale")
        /\ UNCHANGED exec
    BY <1>9 DEF TakeIntent
  <2>2. /\ fate' \in [Tokens -> Fates]
        /\ \A u \in Tokens : fate'[u] = IF u = t THEN "stale" ELSE fate[u]
    BY <1>2, <1>3, <2>1, OneFate DEF Fates, Lost
  <2>3. PipelineTypeOK'
    <3>1. drops' \in [total : Nat, stale : Nat]
      <4>1. drops \in [total : Nat, stale : Nat]
        BY <1>2 DEF PipelineTypeOK
      <4> QED
        BY <2>1, <4>1
    <3> QED
      BY <1>1, <1>2, <1>3, <1>7, <2>1, <2>2, <3>1 DEF PipelineTypeOK
  <2>4. Placed'
    BY <1>1, <1>3, <1>4, <2>1, <2>2
    DEF Whole, Placed, Apart, OneJobEach, NoRepeats, InParse, InJob, InEvent, InIntent, InExec
  <2>5. DropsAreCounted'
    BY <1>2, <1>3, <1>4, <2>1, EndCounted DEF Whole, Fates, Lost
  <2>6. AcceptedInOrder'
    BY <1>1, <1>2, <1>3, <1>8, <2>1, <2>2, IntentsType DEF Whole, AcceptedInOrder
  <2> QED
    BY <1>5, <1>6, <2>3, <2>4, <2>5, <2>6 DEF Whole
<1>10. CASE ~(age[t] > MaxIntentAge)
  <2>1. exec' = t /\ UNCHANGED <<drops, fate>>
    BY <1>10 DEF TakeIntent
  <2>2. PipelineTypeOK'
    BY <1>1, <1>2, <1>3, <1>7, <2>1 DEF PipelineTypeOK
  <2>3. Placed'
    BY <1>1, <1>3, <1>4, <2>1, Numbers
    DEF Whole, Placed, Apart, OneJobEach, NoRepeats, InParse, InJob, InEvent, InIntent, InExec
  <2>4. DropsAreCounted'
    BY <2>1 DEF Whole, DropsAreCounted
  <2>5. AcceptedInOrder'
    BY <1>1, <1>2, <1>3, <1>8, <2>1, IntentsType, Numbers DEF Whole, AcceptedInOrder
  <2> QED
    BY <1>5, <1>6, <2>2, <2>3, <2>4, <2>5 DEF Whole
<1> QED
  BY <1>9, <1>10

LEMMA FinishIntentKept ==
    ASSUME Whole, FinishIntent
    PROVE  Whole'
<1> USE DEF parserVars, linkVars
<1>1. /\ exec # None /\ exec' = None /\ Becomes(exec, "worked")
      /\ UNCHANGED <<linkVars, parserVars, eventQ, intentQ, age, running, drops, accepted, taken>>
  BY DEF FinishIntent
<1>2. PipelineTypeOK /\ exec \in Tokens
  BY <1>1 DEF Whole, PipelineTypeOK
<1>3. /\ Apart(exec) /\ fate[exec] = "moving"
      /\ ~InParse(exec) /\ ~InJob(exec) /\ ~InEvent(exec) /\ ~InIntent(exec)
  BY <1>2 DEF Whole, Placed, Apart, InExec
<1>4. /\ fate' \in [Tokens -> Fates]
      /\ \A u \in Tokens : fate'[u] = IF u = exec THEN "worked" ELSE fate[u]
  BY <1>1, <1>2, OneFate DEF Fates
<1>5. PipelineTypeOK'
  BY <1>1, <1>2, <1>4 DEF PipelineTypeOK
<1>6. Placed'
  BY <1>1, <1>2, <1>3, <1>4, Numbers
  DEF Whole, Placed, Apart, OneJobEach, NoRepeats, InParse, InJob, InEvent, InIntent, InExec
<1>7. DropsAreCounted'
  <2>1. drops' = [total |-> drops.total + 0, stale |-> drops.stale + 0]
    <3>1. drops \in [total : Nat, stale : Nat]
      BY <1>2 DEF PipelineTypeOK
    <3> QED
      BY <1>1, <3>1
  <2> QED
    BY <1>1, <1>2, <1>3, <2>1, EndCounted DEF Whole, Fates
<1>8. AcceptedInOrder'
  BY <1>1, <1>2, <1>4, IntentsType DEF Whole, AcceptedInOrder
<1>9. OldestFirst' /\ NoStrayWorkers'
  BY <1>1 DEF Whole, OldestFirst, NoStrayWorkers, Busy
<1> QED
  BY <1>5, <1>6, <1>7, <1>8, <1>9 DEF Whole

\* The queues of the main loop and the worker's hand are emptied.
LEMMA CtrlCKept ==
    ASSUME Whole, CtrlC
    PROVE  Whole'
<1> USE DEF parserVars
<1>1. /\ running' = FALSE /\ eventQ' = <<>> /\ intentQ' = <<>> /\ exec' = None
      /\ link' = IF link = "waiting" THEN "stopped" ELSE link
      /\ UNCHANGED <<backoff, silent, shutdown, parserVars, age, drops, accepted, taken>>
  BY DEF CtrlC
<1>2. PipelineTypeOK
  BY DEF Whole
<1>3. /\ fate' \in [Tokens -> Fates]
      /\ \A u \in Tokens :
            fate'[u] = IF InEvent(u) \/ InIntent(u) \/ InExec(u) THEN "cut" ELSE fate[u]
  BY <1>2 DEF CtrlC, PipelineTypeOK, Fates, Lost, InEvent, InIntent, InExec
<1>4. /\ eventQ' \in Seq(Tokens) /\ Len(eventQ') = 0 /\ ToSet(eventQ') = {} /\ IsInjective(eventQ')
      /\ intentQ' \in Seq(Tokens) /\ Len(intentQ') = 0 /\ ToSet(intentQ') = {}
      /\ IsInjective(intentQ')
  BY <1>1, EmptyQueue
<1>5. PipelineTypeOK'
  <2>1. link' \in Links
    BY <1>1, <1>2 DEF PipelineTypeOK, Links
  <2>2. /\ eventQ' \in Seq(Tokens) /\ Len(eventQ') <= EventCapacity
        /\ intentQ' \in Seq(Tokens) /\ Len(intentQ') <= IntentCapacity
    BY <1>4, Numbers
  <2> QED
    BY <1>1, <1>2, <1>3, <2>1, <2>2 DEF PipelineTypeOK
<1>6. Placed'
  BY <1>1, <1>3, <1>4, Numbers
  DEF Whole, Placed, Apart, OneJobEach, NoRepeats, InParse, InJob, InEvent, InIntent, InExec
<1>7. DropsAreCounted'
  BY <1>1, <1>2, <1>3, CutUncounted DEF Whole, Placed, Apart
<1>8. AcceptedInOrder'
  BY <1>1, <1>2, <1>3, IntentsType DEF Whole, AcceptedInOrder, InIntent, InExec
<1>9. OldestFirst'
  BY <1>4 DEF OldestFirst
<1>10. NoStrayWorkers'
  BY <1>1 DEF Whole, NoStrayWorkers, Busy
<1> QED
  BY <1>5, <1>6, <1>7, <1>8, <1>9, <1>10 DEF Whole

\* The intents grow older together, up to the age at which nothing changes.
LEMMA SecondKept ==
    ASSUME Whole, Second
    PROVE  Whole'
<1> USE DEF parserVars
<1>1. /\ UNCHANGED <<link, backoff, shutdown, parserVars, eventQ, intentQ, exec,
                     running, drops, fate, accepted, taken>>
      /\ silent' = IF link = "subscribed" /\ silent < StallThreshold THEN silent + 1 ELSE silent
  BY DEF Second
<1>2. PipelineTypeOK
  BY DEF Whole
<1>3. /\ age' \in [Tokens -> 0..(MaxIntentAge + 1)]
      /\ \A u \in Tokens :
            age'[u] = IF InIntent(u) /\ age[u] <= MaxIntentAge THEN age[u] + 1 ELSE age[u]
  <2>1. \A u \in Tokens : age[u] \in 0..(MaxIntentAge + 1)
    BY <1>2 DEF PipelineTypeOK
  <2> QED
    BY <2>1, Numbers DEF Second, InIntent
<1>4. PipelineTypeOK'
  <2>1. silent' \in 0..StallThreshold
    <3>1. silent \in 0..StallThreshold
      BY <1>2 DEF PipelineTypeOK
    <3> QED
      BY <1>1, <3>1, Numbers
  <2>2. age' \in [Tokens -> 0..(MaxIntentAge + 1)]
    BY <1>3
  <2>3. /\ link' \in Links /\ backoff' \in 1..MaxBackoff
        /\ {shutdown', running'} \subseteq BOOLEAN
        /\ drops' \in [total : Nat, stale : Nat]
        /\ {accepted', taken'} \subseteq Seq(Tokens)
    BY <1>1, <1>2 DEF PipelineTypeOK
  <2>4. /\ parseQ' \in Seq(Tokens) /\ Len(parseQ') <= ParseCapacity
        /\ eventQ' \in Seq(Tokens) /\ Len(eventQ') <= EventCapacity
        /\ intentQ' \in Seq(Tokens) /\ Len(intentQ') <= IntentCapacity
    BY <1>1, <1>2 DEF PipelineTypeOK
  <2>5. /\ job' \in [Workers -> Tokens \cup {None}]
        /\ tries' \in [Workers -> 0..MaxRetries]
        /\ gone' \subseteq Workers
        /\ exec' \in Tokens \cup {None}
        /\ fate' \in [Tokens -> Fates]
    BY <1>1, <1>2 DEF PipelineTypeOK
  <2> QED
    BY <2>1, <2>2, <2>3, <2>4, <2>5 DEF PipelineTypeOK
<1>5. Placed'
  BY <1>1
  DEF Whole, Placed, Apart, OneJobEach, NoRepeats, InParse, InJob, InEvent, InIntent, InExec
<1>6. OldestFirst'
  <2>1. \A u \in Tokens : age[u] \in 0..(MaxIntentAge + 1)
    BY <1>2 DEF PipelineTypeOK
  <2> SUFFICES ASSUME NEW i \in 1..Len(intentQ), NEW j \in 1..Len(intentQ), i < j
               PROVE  age'[intentQ[i]] >= age'[intentQ[j]]
    BY <1>1 DEF OldestFirst
  <2>2. /\ intentQ[i] \in Tokens /\ InIntent(intentQ[i])
        /\ intentQ[j] \in Tokens /\ InIntent(intentQ[j])
    BY <1>2, IntentsType DEF InIntent
  <2>3. age[intentQ[i]] >= age[intentQ[j]]
    BY DEF Whole, OldestFirst
  <2>4. age[intentQ[i]] \in 0..(MaxIntentAge + 1) /\ age[intentQ[j]] \in 0..(MaxIntentAge + 1)
    BY <2>1, <2>2
  <2>5. \A a, b \in 0..(MaxIntentAge + 1) : a >= b =>
            (IF a <= MaxIntentAge THEN a + 1 ELSE a) >= (IF b <= MaxIntentAge THEN b + 1 ELSE b)
    BY Numbers
  <2>6. /\ age'[intentQ[i]] =
               IF age[intentQ[i]] <= MaxIntentAge THEN age[intentQ[i]] + 1 ELSE age[intentQ[i]]
        /\ age'[intentQ[j]] =
               IF age[intentQ[j]] <= MaxIntentAge THEN age[intentQ[j]] + 1 ELSE age[intentQ[j]]
    BY <1>3, <2>2
  <2> QED
    BY <2>3, <2>4, <2>5, <2>6
<1>7. DropsAreCounted'
  BY <1>1 DEF Whole, DropsAreCounted
<1>8. AcceptedInOrder'
  BY <1>1 DEF Whole, AcceptedInOrder
<1>9. NoStrayWorkers'
  BY <1>1 DEF Whole, NoStrayWorkers, Busy
<1> QED
  BY <1>8, <1>9, <1>4, <1>5, <1>6, <1>7 DEF Whole

-----------------------------------------------------------------------------
LEMMA InitWhole == PipelineInit => Whole
<1> SUFFICES ASSUME PipelineInit
             PROVE  Whole
  OBVIOUS
<1> USE Numbers DEF PipelineInit
<1>1. PipelineTypeOK
  <2>1. drops \in [total : Nat, stale : Nat]
    OBVIOUS
  <2>4. /\ backoff \in 1..MaxBackoff /\ silent \in 0..StallThreshold
        /\ gone \subseteq Workers /\ exec \in Tokens \cup {None}
    OBVIOUS
  <2>6. link \in Links /\ {shutdown, running} \subseteq BOOLEAN
    BY Zenon DEF Links, Blocking
  <2>2. /\ parseQ \in Seq(Tokens) /\ Len(parseQ) <= ParseCapacity
        /\ eventQ \in Seq(Tokens) /\ Len(eventQ) <= EventCapacity
        /\ intentQ \in Seq(Tokens) /\ Len(intentQ) <= IntentCapacity
        /\ {accepted, taken} \subseteq Seq(Tokens)
    BY EmptyQueue
  <2>3. /\ job \in [Workers -> Tokens \cup {None}]
        /\ tries \in [Workers -> 0..MaxRetries]
        /\ age \in [Tokens -> 0..(MaxIntentAge + 1)]
    <3>1. 0 \in 0..MaxRetries /\ 0 \in 0..(MaxIntentAge + 1)
      OBVIOUS
    <3> QED
      BY <3>1, Zenon
  <2>5. fate \in [Tokens -> Fates]
    BY Zenon DEF Fates
  <2> QED
    BY <2>1, <2>2, <2>3, <2>4, <2>5, <2>6 DEF PipelineTypeOK
<1>2. Placed
  BY EmptyQueue
  DEF Placed, Apart, OneJobEach, NoRepeats, InParse, InJob, InEvent, InIntent, InExec
<1>3. DropsAreCounted
  <2>1. {t \in Tokens : fate[t] = "stale"} = {} /\ {t \in Tokens : fate[t] \in {"stale", "refused"}} = {}
    OBVIOUS
  <2> QED
    BY <2>1, FS_EmptySet DEF DropsAreCounted
<1>4. AcceptedInOrder
  BY EmptyQueue, ConcatEmptySeq DEF AcceptedInOrder
<1>5. OldestFirst /\ NoStrayWorkers
  BY EmptyQueue DEF OldestFirst, NoStrayWorkers, Busy
<1> QED
  BY <1>1, <1>2, <1>3, <1>4, <1>5 DEF Whole

LEMMA NextWhole ==
    ASSUME Whole, [PipelineNext]_pipelineVars
    PROVE  Whole'
<1>1. CASE Monitor
  <2>1. CASE \/ Subscribe \/ SubscribeFails \/ OtherFrame \/ EndSession \/ Reconnect \/ Shutdown
    BY <2>1, LinkSteps, LinkKept DEF Whole
  <2>2. CASE Joined
    BY <2>2, JoinedKept
  <2>3. CASE \E t \in Tokens : Frame(t)
    BY <2>3, FrameKept
  <2> QED
    BY <1>1, <2>1, <2>2, <2>3 DEF Monitor, Stall, EndOfStream, SeeShutdown
<1>2. CASE Parsers
  BY <1>2, TakeJobKept, FetchKept DEF Parsers
<1>3. CASE MainLoop
  BY <1>3, HandleEventKept, TakeIntentKept, FinishIntentKept, CtrlCKept DEF MainLoop
<1>4. CASE Second
  BY <1>4, SecondKept
<1>5. CASE UNCHANGED pipelineVars
  <2>1. UNCHANGED <<linkVars, parserVars, mainVars, fate>>
    BY <1>5 DEF pipelineVars
  <2>2. LinkStep
    BY <2>1 DEF LinkStep, linkVars, parserVars, Whole, PipelineTypeOK
  <2> QED
    BY <2>2, LinkKept DEF Whole
<1> QED
  BY <1>1, <1>2, <1>3, <1>4, <1>5 DEF PipelineNext

\* Every creation is in one place or has one end, the drops are counted, the
\* intents wait oldest first, and the monitor leaves no workers behind.
THEOREM PipelineKeepsTrack == PipelineSpec => []PipelineInv
<1>1. PipelineInit => PipelineInv
  BY InitWhole, WholeIsInv
<1>2. PipelineInv /\ [PipelineNext]_pipelineVars => PipelineInv'
  <2>1. (PipelineInv <=> Whole)'
    BY WholeIsInv, PTL
  <2> QED
    BY <2>1, WholeIsInv, NextWhole
<1> QED
  BY <1>1, <1>2, PTL DEF PipelineSpec

-----------------------------------------------------------------------------
(* The pipeline keeps the promise of a feed.                               *)

Seen == {t \in Tokens : fate[t] # "unborn"}
Gone == {t \in Tokens : fate[t] \in Lost} \ ToSet(accepted)

LEMMA SameElements == \A s : Feed!ToSet(s) = ToSet(s)
BY DEF Feed!ToSet, ToSet

\* What moves a creation along, or ends one that was an intent, is not seen.
LEMMA FeedStutters ==
    ASSUME Seen' = Seen, Gone' = Gone, UNCHANGED <<accepted, taken, running>>
    PROVE  UNCHANGED Feed!feedVars
BY DEF Seen, Gone, Feed!feedVars

\* A creation on its way is no intent yet.
LEMMA OnTheWay ==
    ASSUME Whole, NEW t \in Tokens, ~InIntent(t), ~InExec(t),
           fate[t] \in {"moving", "unborn"}
    PROVE  t \notin ToSet(accepted)
BY DEF Whole, AcceptedInOrder, InIntent, InExec

\* The creations of a set are lost, each on its way.
LEMMA FeedLoses ==
    ASSUME NEW S \in SUBSET Tokens,
           \A t \in S : fate[t] = "moving" /\ t \notin ToSet(accepted),
           NEW f \in Lost,
           \A t \in Tokens : fate'[t] = IF t \in S THEN f ELSE fate[t],
           UNCHANGED <<accepted, taken, running>>
    PROVE  Feed!Lose
<1>1. Gone' = Gone \cup S
  BY DEF Gone, Lost
<1>2. Seen' = Seen
  BY DEF Seen, Lost
<1>3. S \in SUBSET (Seen \ (Gone \cup ToSet(accepted)))
  BY DEF Seen, Gone, Lost
<1> QED
  BY <1>1, <1>2, <1>3, SameElements DEF Feed!Lose, Feed!Undecided, Seen, Gone

LEMMA FrameIsSeen ==
    ASSUME Whole, NEW t \in Tokens, Frame(t)
    PROVE  Feed!See(t)
<1>1. PipelineTypeOK /\ fate[t] = "unborn" /\ UNCHANGED <<accepted, taken, running>>
  BY DEF Whole, Frame, mainVars
<1>2. ~InIntent(t) /\ ~InExec(t) /\ t \notin ToSet(accepted)
  BY <1>1, OnTheWay DEF Whole, Placed, Apart
<1>3. PICK f \in {"moving", "unqueued"} : \A u \in Tokens : fate'[u] = IF u = t THEN f ELSE fate[u]
  BY <1>1, OneFate DEF Frame, Fates, Lost
<1>4. t \notin Seen /\ Seen' = Seen \cup {t}
  BY <1>1, <1>3 DEF Seen
<1>5. Gone' \in {Gone, Gone \cup {t}}
  BY <1>1, <1>2, <1>3 DEF Gone, Lost
<1> QED
  BY <1>1, <1>4, <1>5 DEF Feed!See, Seen, Gone

LEMMA TakeJobIsFed ==
    ASSUME Whole, NEW w \in Workers, TakeJob(w)
    PROVE  Feed!Lose \/ UNCHANGED Feed!feedVars
<1> DEFINE t == Head(parseQ)
<1>1. PipelineTypeOK /\ parseQ \in Seq(Tokens) /\ parseQ # <<>>
      /\ UNCHANGED <<accepted, taken, running>>
  BY DEF Whole, PipelineTypeOK, TakeJob, mainVars
<1>2. t \in Tokens /\ InParse(t)
  BY <1>1, Dequeued DEF InParse
<1>3. fate[t] = "moving" /\ t \notin ToSet(accepted)
  BY <1>2, OnTheWay DEF Whole, Placed, Apart
<1>4. CASE shutdown
  <2>1. \A u \in Tokens : fate'[u] = IF u \in {t} THEN "cut" ELSE fate[u]
    BY <1>1, <1>2, <1>4, OneFate DEF TakeJob, Fates, Lost
  <2> QED
    BY <1>1, <1>2, <1>3, <2>1, FeedLoses DEF Lost
<1>5. CASE ~shutdown
  <2>1. UNCHANGED fate
    BY <1>5 DEF TakeJob
  <2> QED
    BY <1>1, <2>1, FeedStutters DEF Seen, Gone
<1> QED
  BY <1>4, <1>5

LEMMA FetchIsFed ==
    ASSUME Whole, NEW w \in Workers, Fetch(w)
    PROVE  Feed!Lose \/ UNCHANGED Feed!feedVars
<1>1. PipelineTypeOK /\ UNCHANGED <<accepted, taken, running>>
  BY DEF Whole, Fetch, Parsed, NotACreation, FetchAgain, FetchGivesUp, mainVars
<1>2. \/ UNCHANGED fate
      \/ EndJob(w) /\ \E f \in {"unparsed", "unsent"} : Becomes(job[w], f)
  BY DEF Fetch, Parsed, NotACreation, FetchAgain, FetchGivesUp
<1>3. CASE UNCHANGED fate
  BY <1>1, <1>3, FeedStutters DEF Seen, Gone
<1>4. ASSUME EndJob(w), NEW f \in {"unparsed", "unsent"}, Becomes(job[w], f)
      PROVE  Feed!Lose
  <2>1. job[w] \in Tokens /\ InJob(job[w])
    BY <1>1, <1>4 DEF EndJob, PipelineTypeOK, InJob
  <2>2. fate[job[w]] = "moving" /\ job[w] \notin ToSet(accepted)
    BY <2>1, OnTheWay DEF Whole, Placed, Apart
  <2>3. f \in Lost /\ f \in Fates
    BY DEF Lost, Fates
  <2>4. \A u \in Tokens : fate'[u] = IF u \in {job[w]} THEN f ELSE fate[u]
    BY <1>1, <1>4, <2>1, <2>3, OneFate
  <2> QED
    BY <1>1, <2>1, <2>2, <2>3, <2>4, FeedLoses
<1> QED
  BY <1>2, <1>3, <1>4

LEMMA JoinedIsFed ==
    ASSUME Whole, Joined
    PROVE  Feed!Lose
<1>1. PipelineTypeOK /\ parseQ \in Seq(Tokens) /\ UNCHANGED <<accepted, taken, running>>
  BY DEF Whole, PipelineTypeOK, Joined, mainVars
<1>2. ToSet(parseQ) \in SUBSET Tokens
  BY <1>1, QueueOf
<1>3. ASSUME NEW t \in ToSet(parseQ)
      PROVE  fate[t] = "moving" /\ t \notin ToSet(accepted)
  <2>1. t \in Tokens /\ InParse(t)
    BY <1>2 DEF InParse
  <2> QED
    BY <2>1, OnTheWay DEF Whole, Placed, Apart
<1>4. \A u \in Tokens : fate'[u] = IF u \in ToSet(parseQ) THEN "cut" ELSE fate[u]
  BY DEF Joined
<1> QED
  BY <1>1, <1>2, <1>3, <1>4, FeedLoses DEF Lost

LEMMA HandleEventIsFed ==
    ASSUME Whole, HandleEvent
    PROVE  Feed!Lose \/ \E t \in Tokens : Feed!Accept(t)
<1> DEFINE t == Head(eventQ)
<1>1. PipelineTypeOK /\ eventQ \in Seq(Tokens) /\ eventQ # <<>>
      /\ running /\ UNCHANGED <<taken, running>>
  BY DEF Whole, PipelineTypeOK, HandleEvent
<1>2. t \in Tokens /\ InEvent(t)
  BY <1>1, Dequeued DEF InEvent
<1>3. fate[t] = "moving" /\ t \notin ToSet(accepted)
  BY <1>2, OnTheWay DEF Whole, Placed, Apart
<1>4. CASE Len(intentQ) < IntentCapacity
  <2>1. accepted' = Append(accepted, t) /\ UNCHANGED fate
    BY <1>4 DEF HandleEvent
  <2>2. accepted \in Seq(Tokens) /\ ToSet(accepted') = ToSet(accepted) \cup {t}
    BY <1>1, <1>2, <2>1, IntentsType, Queued
  <2>3. Seen' = Seen /\ Gone' = Gone
    BY <1>3, <2>1, <2>2 DEF Seen, Gone, Lost
  <2>4. t \in Seen \ (Gone \cup ToSet(accepted))
    BY <1>2, <1>3 DEF Seen, Gone, Lost
  <2> QED
    BY <1>1, <1>2, <2>1, <2>3, <2>4, SameElements DEF Feed!Accept, Feed!Undecided, Seen, Gone
<1>5. CASE ~(Len(intentQ) < IntentCapacity)
  <2>1. Becomes(t, "refused") /\ UNCHANGED accepted
    BY <1>5 DEF HandleEvent
  <2>2. \A u \in Tokens : fate'[u] = IF u \in {t} THEN "refused" ELSE fate[u]
    BY <1>1, <1>2, <2>1, OneFate DEF Fates, Lost
  <2> QED
    BY <1>1, <1>2, <1>3, <2>1, <2>2, FeedLoses DEF Lost
<1> QED
  BY <1>4, <1>5

\* What is dropped as too old was served too: the worker received it.
LEMMA TakeIntentIsFed ==
    ASSUME Whole, TakeIntent
    PROVE  Feed!Serve
<1> DEFINE t == Head(intentQ)
<1>1. PipelineTypeOK /\ intentQ \in Seq(Tokens) /\ intentQ # <<>>
      /\ running /\ UNCHANGED <<accepted, running>>
      /\ intentQ' = Tail(intentQ) /\ taken' = Append(taken, t)
  BY DEF Whole, PipelineTypeOK, TakeIntent
<1>2. Len(taken) < Len(accepted) /\ accepted[Len(taken) + 1] = t
  BY <1>1, ServedFirst DEF Whole
<1>3. t \in Tokens /\ InIntent(t)
  BY <1>1, Dequeued DEF InIntent
<1>4. fate[t] = "moving"
  BY <1>3 DEF Whole, Placed, Apart
<1>5. \/ UNCHANGED fate
      \/ \A u \in Tokens : fate'[u] = IF u = t THEN "stale" ELSE fate[u]
  BY <1>1, <1>3, OneFate DEF TakeIntent, Fates
<1>6. Seen' = Seen /\ Gone' = Gone
  BY <1>1, <1>4, <1>5 DEF Seen, Gone, Lost
<1> QED
  BY <1>1, <1>2, <1>6 DEF Feed!Serve, Seen, Gone

LEMMA FinishIntentIsFed ==
    ASSUME Whole, FinishIntent
    PROVE  UNCHANGED Feed!feedVars
<1>1. PipelineTypeOK /\ exec \in Tokens /\ UNCHANGED <<accepted, taken, running>>
  BY DEF Whole, PipelineTypeOK, FinishIntent
<1>2. fate[exec] = "moving"
  BY <1>1 DEF Whole, Placed, Apart, InExec
<1>3. \A u \in Tokens : fate'[u] = IF u = exec THEN "worked" ELSE fate[u]
  BY <1>1, OneFate DEF FinishIntent, Fates
<1>4. Seen' = Seen /\ Gone' = Gone
  BY <1>1, <1>2, <1>3 DEF Seen, Gone, Lost
<1> QED
  BY <1>1, <1>4, FeedStutters

LEMMA CtrlCIsFed ==
    ASSUME Whole, CtrlC
    PROVE  Feed!Close
<1>1. running /\ running' = FALSE /\ UNCHANGED <<accepted, taken>>
  BY DEF CtrlC
<1>2. \A u \in Tokens :
          fate'[u] = IF InEvent(u) \/ InIntent(u) \/ InExec(u) THEN "cut" ELSE fate[u]
  BY DEF CtrlC, InEvent, InIntent, InExec
<1>3. \A u \in Tokens : InEvent(u) \/ InIntent(u) \/ InExec(u) => fate[u] = "moving"
  BY DEF Whole, Placed, Apart
<1>4. Seen' = Seen
  BY <1>2, <1>3 DEF Seen
<1>5. Gone' \in SUBSET Seen /\ Gone \subseteq Gone' /\ Gone' \cap ToSet(accepted) = {}
  BY <1>1, <1>2, <1>3 DEF Seen, Gone, Lost
<1> QED
  BY <1>1, <1>4, <1>5, SameElements DEF Feed!Close, Seen, Gone

LEMMA NextIsFed ==
    ASSUME Whole, [PipelineNext]_pipelineVars
    PROVE  [Feed!FeedNext]_Feed!feedVars
<1> USE DEF Feed!FeedNext
<1>1. CASE Monitor
  <2>1. CASE \/ Subscribe \/ SubscribeFails \/ OtherFrame \/ EndSession \/ Reconnect \/ Shutdown
    <3>1. UNCHANGED <<fate, accepted, taken, running>>
      BY <2>1, LinkSteps DEF Whole, LinkStep, mainVars
    <3> QED
      BY <3>1, FeedStutters DEF Seen, Gone
  <2>2. CASE Joined
    BY <2>2, JoinedIsFed
  <2>3. CASE \E t \in Tokens : Frame(t)
    BY <2>3, FrameIsSeen
  <2> QED
    BY <1>1, <2>1, <2>2, <2>3 DEF Monitor, Stall, EndOfStream, SeeShutdown
<1>2. CASE Parsers
  BY <1>2, TakeJobIsFed, FetchIsFed DEF Parsers
<1>3. CASE MainLoop
  BY <1>3, HandleEventIsFed, TakeIntentIsFed, FinishIntentIsFed, CtrlCIsFed DEF MainLoop
<1>4. CASE Second \/ UNCHANGED pipelineVars
  <2>1. UNCHANGED <<fate, accepted, taken, running>>
    BY <1>4 DEF Second, pipelineVars, mainVars
  <2> QED
    BY <2>1, FeedStutters DEF Seen, Gone
<1> QED
  BY <1>1, <1>2, <1>3, <1>4 DEF PipelineNext

\* The detection plane and the execution plane keep the promise of a feed:
\* whatever is seen becomes an intent at most once, nothing lost is served,
\* and the intents are served in the order in which they were enqueued.
THEOREM PipelineFeeds == PipelineSpec => FeedIsKept
<1>1. PipelineInit => Feed!FeedInit
  BY EmptyQueue DEF PipelineInit, Feed!FeedInit, Lost
<1>2. PipelineInv /\ [PipelineNext]_pipelineVars => [Feed!FeedNext]_Feed!feedVars
  BY WholeIsInv, NextIsFed
<1> QED
  BY <1>1, <1>2, PipelineKeepsTrack, PTL DEF PipelineSpec, FeedIsKept, Feed!FeedSafety

=============================================================================
