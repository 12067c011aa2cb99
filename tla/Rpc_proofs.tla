------------------------------ MODULE Rpc_proofs ------------------------------
(***************************************************************************)
(* Proofs about the RPC client: its pool of endpoints, for any list of     *)
(* endpoints, any threshold and set of callers, and its rate limiter, for  *)
(* any capacity, rate, scale and set of threads.                           *)
(***************************************************************************)
EXTENDS RpcPool, TokenBucket, FiniteSetTheorems, WellFoundedInduction, TLAPS

-----------------------------------------------------------------------------
(* The pool.  Wherever the steps of callers and monitor meet, the index of *)
(* the active endpoint stays in the list.                                  *)

LEMMA TheNodes ==
    /\ Cardinality(Nodes) \in Nat \ {0}
    /\ Nodes = 0..(Cardinality(Nodes) - 1)
    /\ 0 \in Nodes
<1>1. IsFiniteSet(Nodes) /\ Nodes # {} /\ Nodes = 0..(Cardinality(Nodes) - 1)
  BY RpcAssumption DEF RpcAssumption, Nodes
<1>2. Cardinality(Nodes) \in Nat \ {0}
  BY <1>1, FS_CardinalityType, FS_EmptySet
<1> QED
  BY <1>1, <1>2

LEMMA LeastOf ==
    ASSUME NEW S, S \subseteq Nat, S # {}
    PROVE  \E m \in S : \A n \in S : m <= n
<1>1. PICK m \in S : \A n \in S : <<n, m>> \notin OpToRel(<, Nat)
  BY NatLessThanWellFounded, WFMin
<1>2. ASSUME NEW n \in S PROVE m <= n
  <2>1. n \in Nat /\ m \in Nat
    OBVIOUS
  <2>2. ~(n < m)
    BY <1>1, <2>1 DEF OpToRel
  <2> QED
    BY <2>1, <2>2
<1> QED
  BY <1>2

LEMMA FirstIsFirst ==
    ASSUME NEW S, S \subseteq Nodes, S # {}
    PROVE  First(S) \in S /\ \A e \in S : First(S) <= e
<1>1. S \subseteq Nat
  BY TheNodes
<1>2. \E m \in S : \A n \in S : m <= n
  BY <1>1, LeastOf
<1> QED
  BY <1>2 DEF First

\* What leaves the endpoints alone and takes one caller to another step.
LEMMA CallerMoves ==
    ASSUME RpcTypeOK, NEW u \in Users, NEW step \in CallSteps, NEW e \in Nodes,
           Goes(u, step, e)
    PROVE  caller' \in [Users -> [step : CallSteps, endpoint : Nodes]]
BY DEF RpcTypeOK, Goes

LEMMA Getting ==
    ASSUME RpcTypeOK, NEW u \in Users, GetClient(u)
    PROVE  RpcTypeOK'
<1>1. /\ currentIdx \in Nodes /\ healthy \in SUBSET Nodes
      /\ UNCHANGED <<works, healthy, errors>>
  BY DEF RpcTypeOK, GetClient
<1>2. "calling" \in CallSteps
  BY DEF CallSteps
<1>3. currentIdx' \in Nodes /\ \E e \in Nodes : Goes(u, "calling", e)
  BY <1>1, TheNodes, FirstIsFirst DEF GetClient
<1> QED
  BY <1>1, <1>2, <1>3, CallerMoves DEF RpcTypeOK

LEMMA Calling ==
    ASSUME RpcTypeOK, NEW u \in Users, CallFails(u) \/ CallSucceeds(u)
    PROVE  RpcTypeOK'
<1>1. Charged(u) \in Nodes /\ {"failed", "succeeded"} \subseteq CallSteps
  BY DEF RpcTypeOK, Charged, Of, CallSteps
<1>2. /\ UNCHANGED <<works, currentIdx, healthy, errors>>
      /\ Goes(u, "failed", Charged(u)) \/ Goes(u, "succeeded", Charged(u))
  BY DEF CallFails, CallSucceeds
<1> QED
  BY <1>1, <1>2, CallerMoves DEF RpcTypeOK

LEMMA Charging ==
    ASSUME RpcTypeOK, NEW u \in Users,
           CountError(u) \/ MarkUnhealthy(u) \/ ClearErrors(u) \/ MarkHealthy(u)
    PROVE  RpcTypeOK'
<1>1. /\ Of(u) \in Nodes /\ errors \in [Nodes -> 0..ErrorThreshold]
      /\ {"counted", "marked", "cleared", "healed"} \subseteq CallSteps
      /\ ErrorThreshold \in Nat \ {0}
  BY RpcAssumption DEF RpcAssumption, RpcTypeOK, Of, CallSteps
<1>2. CASE CountError(u)
  <2> DEFINE n == IF errors[Of(u)] < ErrorThreshold THEN errors[Of(u)] + 1 ELSE ErrorThreshold
  <2>1. n \in 0..ErrorThreshold
    BY <1>1
  <2>2. /\ errors' = [errors EXCEPT ![Of(u)] = n]
        /\ \E step \in {"counted", "marked"} : Goes(u, step, Of(u))
        /\ UNCHANGED <<works, currentIdx, healthy>>
    BY <1>2 DEF CountError
  <2>3. errors' \in [Nodes -> 0..ErrorThreshold]
    <3> HIDE DEF n
    <3> QED
      BY <1>1, <2>1, <2>2
  <2> QED
    BY <1>1, <2>2, <2>3, CallerMoves DEF RpcTypeOK
<1>3. CASE MarkUnhealthy(u)
  BY <1>1, <1>3, CallerMoves DEF MarkUnhealthy, RpcTypeOK
<1>4. CASE ClearErrors(u)
  <2>1. errors' \in [Nodes -> 0..ErrorThreshold]
    BY <1>1, <1>4 DEF ClearErrors
  <2> QED
    BY <1>1, <1>4, <2>1, CallerMoves DEF ClearErrors, RpcTypeOK
<1>5. CASE MarkHealthy(u)
  BY <1>1, <1>5, CallerMoves DEF MarkHealthy, RpcTypeOK
<1> QED
  BY <1>2, <1>3, <1>4, <1>5

\* The rotation wraps around, whatever the others have left of the pool.
LEMMA Ending ==
    ASSUME RpcTypeOK, NEW u \in Users, EndFailure(u) \/ EndSuccess(u)
    PROVE  RpcTypeOK'
<1>1. /\ currentIdx \in Nodes /\ healthy \in SUBSET Nodes
      /\ UNCHANGED <<works, healthy, errors>>
  BY DEF RpcTypeOK, EndFailure, EndSuccess
<1>2. /\ Goes(u, "idle", 0) /\ "idle" \in CallSteps
      /\ UNCHANGED currentIdx \/ TryFailoverForLatency \/ Failover
  BY DEF EndFailure, EndSuccess, CallSteps
<1>3. ASSUME Failover PROVE currentIdx' \in Nodes
  <2> DEFINE others == healthy \ {currentIdx}
  <2>1. CASE others # {}
    <3>1. others \subseteq Nodes /\ currentIdx' = First(others)
      BY <1>1, <1>3, <2>1 DEF Failover
    <3>2. First(others) \in others
      <4> HIDE DEF others
      <4> QED
        BY <2>1, <3>1, FirstIsFirst
    <3> QED
      BY <3>1, <3>2
  <2>2. CASE others = {}
    <3>1. currentIdx' = (currentIdx + 1) % Cardinality(Nodes)
      BY <1>3, <2>2 DEF Failover
    <3>2. \A n \in Nat \ {0}, k \in Nat : (k + 1) % n \in 0..(n - 1)
      OBVIOUS
    <3>3. currentIdx \in Nat
      BY <1>1, TheNodes
    <3>4. (currentIdx + 1) % Cardinality(Nodes) \in 0..(Cardinality(Nodes) - 1)
      BY <3>2, <3>3, TheNodes
    <3> QED
      BY <3>1, <3>4, TheNodes
  <2> QED
    BY <2>1, <2>2
<1>4. currentIdx' \in Nodes
  BY <1>1, <1>2, <1>3 DEF TryFailoverForLatency
<1> QED
  BY <1>1, <1>2, <1>4, TheNodes, CallerMoves DEF RpcTypeOK

LEMMA Checking ==
    ASSUME RpcTypeOK, Checks
    PROVE  RpcTypeOK'
<1>1. /\ MONITOR \in Users /\ {"calling", "idle"} \subseteq CallSteps
      /\ currentIdx \in Nodes /\ healthy \in SUBSET Nodes
      /\ UNCHANGED <<works, healthy, errors>>
  BY DEF Users, CallSteps, RpcTypeOK, Checks, RunHealthChecks, NextCheck, MaybeSwitchToBetter
<1>2. \E step \in {"calling", "idle"}, e \in Nodes : Goes(MONITOR, step, e)
  BY TheNodes DEF Checks, RunHealthChecks, NextCheck, MaybeSwitchToBetter
<1>3. currentIdx' \in Nodes
  BY <1>1, FirstIsFirst DEF Checks, RunHealthChecks, NextCheck, MaybeSwitchToBetter
<1> QED
  BY <1>1, <1>2, <1>3, CallerMoves DEF RpcTypeOK

\* The index with which every reader looks up the active endpoint never
\* leaves the list, and no failure is charged beyond the threshold.
THEOREM PoolIsTyped == RpcSpec => []RpcTypeOK
<1>1. RpcInit => RpcTypeOK
  BY TheNodes, RpcAssumption DEF RpcInit, RpcTypeOK, RpcAssumption, CallSteps
<1>2. RpcTypeOK /\ [RpcNext]_rpcVars => RpcTypeOK'
  <2> SUFFICES ASSUME RpcTypeOK, [RpcNext]_rpcVars
               PROVE  RpcTypeOK'
    OBVIOUS
  <2>1. CASE \E u \in Users : GetClient(u) \/ Moves(u)
    BY <2>1, Getting, Calling, Charging, Ending DEF Moves
  <2>2. CASE Checks
    BY <2>2, Checking
  <2>3. CASE NodesChange
    BY <2>3 DEF NodesChange, RpcTypeOK
  <2>4. CASE UNCHANGED rpcVars
    BY <2>4 DEF rpcVars, RpcTypeOK
  <2> QED
    BY <2>1, <2>2, <2>3, <2>4 DEF RpcNext
<1> QED
  BY <1>1, <1>2, PTL DEF RpcSpec

-----------------------------------------------------------------------------
(* The rate limiter.  BucketInv is inductive: every unit is granted, in    *)
(* the bucket, or still to be refilled, and only the holder of the mutex   *)
(* accounts for time, for no more of it than has passed.                   *)

LEMMA Products ==
    ASSUME NEW r \in Nat, NEW e \in Nat, NEW d \in Nat, d <= e
    PROVE  /\ r * e \in Nat
           /\ r * (e + 1) = r * e + r
           /\ r * (e - d) = r * e - r * d /\ r * d \in Nat /\ d * r = r * d
OBVIOUS

LEMMA InitInv == BucketInit => BucketInv
BY BucketAssumption, Products
DEF BucketInit, BucketInv, BucketTypeOK, BucketAssumption, BucketSteps, Full

\* What a thread does outside the bucket: its own record changes, and it does
\* not become the one that refills.
LEMMA ClientStep ==
    ASSUME BucketInv, NEW c \in Clients,
           client' \in [Clients -> [step : BucketSteps, want : Nat, seen : Nat, millis : Nat]],
           \A d \in Clients : d # c => client'[d] = client[d],
           client'[c].step = "refilling" => client[c].step = "refilling"
                                            /\ client'[c].millis = client[c].millis,
           UNCHANGED <<tokens, elapsed, holder, milli, granted>>
    PROVE  BucketInv'
BY DEF BucketInv, BucketTypeOK, Full

LEMMA Outside ==
    ASSUME BucketInv, NEW c \in Clients,
           \/ \E n \in Requests : TryAcquire(c, n)
           \/ SkipRefill(c) \/ RetryRefill(c) \/ LoadTokens(c) \/ Refuse(c) \/ RetryTake(c)
    PROVE  BucketInv'
<1> USE DEF BucketInv, BucketTypeOK, BucketSteps
<1>1. CASE \E n \in Requests : TryAcquire(c, n)
  <2>1. PICK n \in Requests : TryAcquire(c, n)
    BY <1>1
  <2>2. n * Scale \in Nat
    BY BucketAssumption DEF BucketAssumption
  <2> QED
    BY <2>1, <2>2, ClientStep DEF TryAcquire
<1>2. CASE SkipRefill(c)
  BY <1>2, ClientStep DEF SkipRefill
<1>3. CASE RetryRefill(c)
  BY <1>3, ClientStep DEF RetryRefill
<1>4. CASE LoadTokens(c)
  BY <1>4, ClientStep DEF LoadTokens
<1>5. CASE Refuse(c)
  BY <1>5, ClientStep DEF Refuse
<1>6. CASE RetryTake(c)
  BY <1>6, ClientStep DEF RetryTake
<1> QED
  BY <1>1, <1>2, <1>3, <1>4, <1>5, <1>6

\* The mutex was free, so that no other thread is refilling.
LEMMA StartInv ==
    ASSUME BucketInv, BucketAssumption, NEW c \in Clients, StartRefill(c)
    PROVE  BucketInv'
<1>1. \A d \in Clients : client[d].step # "refilling"
  BY DEF BucketInv, StartRefill, BucketAssumption
<1>2. /\ client' = [client EXCEPT ![c].step = "refilling", ![c].seen = tokens,
                                  ![c].millis = elapsed]
      /\ holder' = c
      /\ UNCHANGED <<tokens, elapsed, milli, granted>>
  BY DEF StartRefill
<1>3. BucketTypeOK'
  BY <1>2 DEF BucketInv, BucketTypeOK, BucketSteps
<1>4. \A d \in Clients :
        client'[d].step = "refilling" => holder' = d /\ client'[d].millis <= elapsed'
  BY <1>1, <1>2 DEF BucketInv, BucketTypeOK
<1> QED
  BY <1>2, <1>3, <1>4 DEF BucketInv, Full

\* What is added is at most what the time accounted for brings.
LEMMA EndInv ==
    ASSUME BucketInv, NEW c \in Clients, EndRefill(c)
    PROVE  BucketInv'
<1> DEFINE m == client[c].millis
           s == client[c].seen
<1>1. /\ m \in Nat /\ s \in Nat /\ m <= elapsed /\ holder = c
      /\ elapsed \in Nat /\ tokens \in Nat /\ granted \in Nat /\ milli \in Nat
  BY DEF BucketInv, BucketTypeOK, EndRefill
<1>2. /\ client' = [client EXCEPT ![c].step = "refilled"]
      /\ holder' = None /\ elapsed' = elapsed - m
      /\ UNCHANGED <<milli, granted>>
  BY DEF EndRefill
<1>3. \A d \in Clients : client'[d].step # "refilling"
  BY <1>1, <1>2 DEF BucketInv, BucketTypeOK
<1>4. RefillRate \in Nat /\ Full \in Nat
  BY BucketAssumption DEF BucketAssumption, Full
<1>5. /\ RefillRate * m \in Nat /\ m * RefillRate = RefillRate * m
      /\ RefillRate * (elapsed - m) = RefillRate * elapsed - RefillRate * m
      /\ RefillRate * elapsed \in Nat
  BY <1>1, <1>4, Products
<1>6. tokens' \in Nat /\ tokens' <= Full /\ tokens' <= tokens + RefillRate * m
  <2>1. CASE s >= Full
    BY <2>1, <1>1, <1>4, <1>5 DEF EndRefill, BucketInv
  <2>2. CASE ~(s >= Full)
    <3>1. tokens = s /\ tokens' = AddedTo(s, m)
      BY <2>2 DEF EndRefill
    <3> QED
      BY <3>1, <1>1, <1>4, <1>5 DEF AddedTo
  <2> QED
    BY <2>1, <2>2
<1>7. tokens' + granted' + RefillRate * elapsed' <= Full + RefillRate * milli'
  <2>1. tokens + granted + RefillRate * elapsed <= Full + RefillRate * milli
    BY DEF BucketInv
  <2>2. RefillRate * milli \in Nat
    BY <1>1, <1>4, Products
  <2> HIDE DEF m, Full
  <2> QED
    BY <2>1, <2>2, <1>1, <1>2, <1>4, <1>5, <1>6
<1>8. BucketTypeOK'
  BY <1>1, <1>2, <1>6 DEF BucketInv, BucketTypeOK, BucketSteps
<1> QED
  BY <1>3, <1>6, <1>7, <1>8 DEF BucketInv, Full

LEMMA TakeInv ==
    ASSUME BucketInv, NEW c \in Clients, Take(c)
    PROVE  BucketInv'
<1> DEFINE w == client[c].want
<1>1. /\ w \in Nat /\ tokens \in Nat /\ granted \in Nat /\ w <= tokens
      /\ tokens' = tokens - w /\ granted' = granted + w
  BY DEF BucketInv, BucketTypeOK, Take
<1>2. /\ client' = [client EXCEPT ![c] = [step |-> "idle", want |-> 0, seen |-> 0, millis |-> 0]]
      /\ UNCHANGED <<elapsed, holder, milli>>
  BY DEF Take
<1>3. BucketTypeOK'
  BY <1>1, <1>2 DEF BucketInv, BucketTypeOK, BucketSteps
<1>4. RefillRate * elapsed \in Nat /\ RefillRate * milli \in Nat /\ Full \in Nat
  BY BucketAssumption, Products DEF BucketAssumption, BucketInv, BucketTypeOK, Full
<1>5. /\ tokens' <= Full
      /\ tokens' + granted' + RefillRate * elapsed' <= Full + RefillRate * milli'
  <2> HIDE DEF w, Full
  <2> QED
    BY <1>1, <1>2, <1>4 DEF BucketInv
<1>6. \A d \in Clients :
        client'[d].step = "refilling" => holder' = d /\ client'[d].millis <= elapsed'
  BY <1>2 DEF BucketInv, BucketTypeOK
<1> QED
  BY <1>3, <1>5, <1>6 DEF BucketInv, Full

LEMMA MilliInv == ASSUME BucketInv, Milli PROVE BucketInv'
<1>1. /\ elapsed \in Nat /\ milli \in Nat /\ tokens \in Nat /\ granted \in Nat
      /\ elapsed' = elapsed + 1 /\ milli' = milli + 1
      /\ UNCHANGED <<tokens, holder, client, granted>>
  BY DEF BucketInv, BucketTypeOK, Milli
<1>2. RefillRate \in Nat /\ Full \in Nat
  BY BucketAssumption DEF BucketAssumption, Full
<1>3. /\ RefillRate * (elapsed + 1) = RefillRate * elapsed + RefillRate
      /\ RefillRate * (milli + 1) = RefillRate * milli + RefillRate
      /\ RefillRate * elapsed \in Nat /\ RefillRate * milli \in Nat
  BY <1>1, <1>2, Products
<1>4. BucketTypeOK'
  BY <1>1 DEF BucketInv, BucketTypeOK
<1>5. tokens' <= Full /\ tokens' + granted' + RefillRate * elapsed' <= Full + RefillRate * milli'
  BY <1>1, <1>2, <1>3 DEF BucketInv
<1>6. \A d \in Clients :
        client'[d].step = "refilling" => holder' = d /\ client'[d].millis <= elapsed'
  BY <1>1 DEF BucketInv, BucketTypeOK
<1> QED
  BY <1>4, <1>5, <1>6 DEF BucketInv, Full

\* The bookkeeping of the rate limiter is kept by every step of every thread:
\* units are granted, in the bucket or still to come.
THEOREM BucketAccounts == BucketSpec => []BucketInv
<1>1. BucketInv /\ [BucketNext]_bucketVars => BucketInv'
  <2>1. ASSUME BucketInv, BucketNext PROVE BucketInv'
    BY <2>1, Outside, StartInv, EndInv, TakeInv, MilliInv, BucketAssumption DEF BucketNext
  <2>2. ASSUME BucketInv, UNCHANGED bucketVars PROVE BucketInv'
    BY <2>2 DEF bucketVars, BucketInv, BucketTypeOK, Full
  <2> QED
    BY <2>1, <2>2
<1> QED
  BY <1>1, InitInv, PTL DEF BucketSpec

\* The limiter never grants more than a full bucket and what its rate has
\* brought since the start.
THEOREM GrantsAlwaysWithinRate == BucketSpec => []GrantsWithinRate
<1>1. BucketInv => GrantsWithinRate
  <2> SUFFICES ASSUME BucketInv PROVE GrantsWithinRate
    OBVIOUS
  <2>1. RefillRate * elapsed \in Nat /\ RefillRate * milli \in Nat /\ Full \in Nat
    BY BucketAssumption, Products DEF BucketAssumption, BucketInv, BucketTypeOK, Full
  <2> QED
    BY <2>1 DEF BucketInv, BucketTypeOK, GrantsWithinRate
<1> QED
  BY <1>1, BucketAccounts, PTL

=============================================================================
