-------------------------- MODULE Candidates_proofs --------------------------
(***************************************************************************)
(* Proofs about how candidates are judged: the rug check of pools with its *)
(* blacklist, for any mints, callers, pools and failing reads, and the     *)
(* filter of Pump.fun tokens, for any feed and configuration.              *)
(***************************************************************************)
EXTENDS RugCheck, PumpFilter, FiniteSetTheorems, SequenceTheorems,
        WellFoundedInduction, TLAPS

-----------------------------------------------------------------------------
(* The blacklist.  What was acknowledged is in memory and, unless the file *)
(* cannot be parsed, in the file.                                          *)

ListInv ==
    /\ loaded \in BOOLEAN
    /\ saving \subseteq Adders
    /\ adding \in [Adders -> Mints \cup {Nothing}]
    /\ \A a \in Adders : adding[a] # Nothing => adding[a] \in deployers
    /\ \A a \in saving : adding[a] # Nothing
    /\ loaded => acked \subseteq deployers
    /\ file # Torn => acked \subseteq file
    /\ ~loaded => saving = {} /\ \A a \in Adders : adding[a] = Nothing

LEMMA ListInitInv == ListInit => ListInv
BY DEF ListInit, ListInv

LEMMA ListKept ==
    ASSUME ListInv, ListNext
    PROVE  ListInv'
<1> USE DEF ListInv
<1>1. ASSUME NEW a \in Adders, NEW m \in Mints, Insert(a, m) PROVE ListInv'
  BY <1>1 DEF Insert
<1>2. ASSUME NEW a \in Adders, StartSave(a) PROVE ListInv'
  BY <1>2 DEF StartSave
<1>3. ASSUME NEW a \in Adders, FinishSave(a) PROVE ListInv'
  BY <1>3 DEF FinishSave, Leave
<1>4. ASSUME NEW a \in Adders, SaveFails(a) PROVE ListInv'
  BY <1>4 DEF SaveFails, Leave
<1>5. ASSUME ListCrash PROVE ListInv'
  BY <1>5 DEF ListCrash
<1>6. ASSUME Load PROVE ListInv'
  BY <1>6 DEF Load
<1> QED
  BY <1>1, <1>2, <1>3, <1>4, <1>5, <1>6 DEF ListNext

-----------------------------------------------------------------------------
(* The score.  It is a sum of naturals, so that a pool is safe only if     *)
(* each of them is zero.                                                   *)

LEMMA Token2022IsNat ==
    ASSUME NEW p \in Pools, NEW failed
    PROVE  Token2022Score(p, failed) \in Nat
<1> DEFINE thatScore(n) == Cardinality({e \in p.extensions : ExtensionScore(e) = n})
<1>1. \A n : thatScore(n) \in Nat
  <2> TAKE n
  <2>1. IsFiniteSet(p.extensions)
    BY RugCheckAssumption DEF RugCheckAssumption
  <2>2. {e \in p.extensions : ExtensionScore(e) = n} \in SUBSET p.extensions
    OBVIOUS
  <2> QED
    BY <2>1, <2>2, FS_Subset, FS_CardinalityType
<1>2. Token2022Score(p, failed) =
          IF "token2022" \in failed THEN 0
          ELSE 1000 * thatScore(1000) + 500 * thatScore(500)
               + 200 * thatScore(200) + 100 * thatScore(100)
  BY DEF Token2022Score
<1> HIDE DEF thatScore
<1>3. 1000 * thatScore(1000) + 500 * thatScore(500)
      + 200 * thatScore(200) + 100 * thatScore(100) \in Nat
  BY <1>1
<1> QED
  BY <1>2, <1>3

\* What has to be true of a pool that scores nothing.
LEMMA SafeScores ==
    ASSUME NEW p \in Pools, NEW listed, NEW failed,
           RiskScore(p, listed, failed) = 0
    PROVE  /\ ~listed
           /\ LpScore(LpStatus(p, failed)) = 0
           /\ ~(Top10(p, failed) > MaxTop10)
           /\ ~(Liquidity(p, failed) < MinLiquidity)
<1> DEFINE weighed(bad, points) == IF bad THEN points ELSE 0
           a == weighed(listed, 1000)
           b == weighed(RequireMintRevoked /\ ~MintRevoked(p), 500)
           c == weighed(RequireFreezeRevoked /\ ~FreezeRevoked(p), 300)
           d == LpScore(LpStatus(p, failed))
           e == weighed(Top10(p, failed) > MaxTop10, 100)
           f == weighed(Liquidity(p, failed) < MinLiquidity, 400)
           g == Token2022Score(p, failed)
           h == weighed(IsHoneypot(p, failed), 1000)
<1>1. a + b + c + d + e + f + g + h = 0
  BY Zenon DEF RiskScore
<1>2. a \in Nat /\ b \in Nat /\ c \in Nat /\ e \in Nat /\ f \in Nat /\ h \in Nat
  OBVIOUS
<1>3. d \in {0, 25, 50, 200}
  BY DEF LpScore
<1>4. g \in Nat
  BY Token2022IsNat
<1>5. a = 0 /\ d = 0 /\ e = 0 /\ f = 0
  <2> HIDE DEF a, b, c, d, e, f, g, h
  <2> QED
    BY <1>1, <1>2, <1>3, <1>4
<1> QED
  BY <1>5

\* A read that counts and fails makes the pool unsafe.
LEMMA FailedReads ==
    ASSUME NEW p \in Pools, NEW listed, NEW failed \in FailureSets,
           ~CheckErrs(failed), RiskScore(p, listed, failed) = 0
    PROVE  failed \subseteq Unscored
<1>1. failed \subseteq Reads /\ MaxTop10 \in Int /\ MinLiquidity \in Int
  BY RugCheckAssumption DEF RugCheckAssumption
<1>2. "mint" \notin failed /\ "freeze" \notin failed
  BY DEF CheckErrs
<1>3. "lp" \notin failed
  BY SafeScores DEF LpStatus, NoLp, LpScore
<1>4. "top10" \in failed => MaxTop10 >= 100
  BY <1>1, SafeScores DEF Top10
<1>5. "liquidity" \in failed => MinLiquidity <= 0
  BY <1>1, SafeScores DEF Liquidity
<1> QED
  BY <1>1, <1>2, <1>3, <1>4, <1>5 DEF Reads, Unscored

-----------------------------------------------------------------------------
(* The rug check.                                                          *)

\* What a check has learned of the blacklist covers what was acknowledged.
RugInv ==
    /\ ListInv
    /\ check.known => check.listed
    /\ FailuresAreUnsafe
    /\ KnownIsUnsafe

LEMMA RugInitInv == RugInit => RugInv
BY ListInitInv
DEF RugInit, RugInv, NoCheck, NoVerdict, FailuresAreUnsafe, KnownIsUnsafe

LEMMA RugKept ==
    ASSUME RugInv, [RugNext]_checkerVars
    PROVE  RugInv'
<1>1. ASSUME NEW m \in Mints, StartCheck(m) PROVE RugInv'
  <2>1. ListInv'
    BY <1>1 DEF RugInv, StartCheck, listVars, ListInv
  <2>2. check'.known => check'.listed
    BY <1>1 DEF RugInv, ListInv, StartCheck
  <2>3. FailuresAreUnsafe' /\ KnownIsUnsafe'
    BY <1>1 DEF StartCheck, NoVerdict, FailuresAreUnsafe, KnownIsUnsafe
  <2> QED
    BY <2>1, <2>2, <2>3 DEF RugInv
<1>2. ASSUME NEW p \in Pools, NEW failed \in FailureSets, FinishCheck(p, failed)
      PROVE  RugInv'
  <2>1. ListInv'
    BY <1>2 DEF RugInv, FinishCheck, listVars, ListInv
  <2>2. check'.known => check'.listed
    BY <1>2 DEF FinishCheck, NoCheck
  <2>3. /\ verdict'.safe => ~CheckErrs(failed) /\ RiskScore(p, check.listed, failed) = 0
        /\ verdict'.failed = failed
        /\ verdict'.known = check.known
    BY <1>2 DEF FinishCheck
  <2>4. FailuresAreUnsafe'
    BY <2>3, FailedReads DEF FailuresAreUnsafe
  <2>5. KnownIsUnsafe'
    BY <2>3, SafeScores DEF RugInv, KnownIsUnsafe
  <2> QED
    BY <2>1, <2>2, <2>4, <2>5 DEF RugInv
<1>3. ASSUME ListStep PROVE RugInv'
  BY <1>3, ListKept DEF ListStep, RugInv, NoCheck, FailuresAreUnsafe, KnownIsUnsafe
<1>4. ASSUME UNCHANGED checkerVars PROVE RugInv'
  BY <1>4
  DEF checkerVars, rugVars, listVars, RugInv, ListInv, FailuresAreUnsafe, KnownIsUnsafe
<1> QED
  BY <1>1, <1>2, <1>3, <1>4 DEF RugNext

THEOREM RugChecks == RugSpec => []RugInv
BY RugInitInv, RugKept, PTL DEF RugSpec

\* No pool is called safe whose authorities or LP tokens could not be read, nor
\* one whose holders or liquidity could not, unless that limit is switched off:
\* max_top10_holder_percent at 100 or more, min_liquidity_sol at 0 or less.  A
\* failed read of the Token-2022 account or the honeypot report is no reason.
THEOREM FailuresAlwaysUnsafe == RugSpec => []FailuresAreUnsafe
BY RugChecks, PTL DEF RugInv

\* No mint is called safe whose addition to the blacklist was acknowledged
\* before the check began, whatever saves, errors, crashes and restarts there
\* were since.
THEOREM KnownAlwaysUnsafe == RugSpec => []KnownIsUnsafe
BY RugChecks, PTL DEF RugInv
-----------------------------------------------------------------------------
(* The filter's caches.  The keys of a cache are the keys of its queue,    *)
(* once each, oldest first.                                                *)

LEMMA LeastOf ==
    ASSUME NEW S, S \subseteq Nat, S # {}
    PROVE  \E m \in S : \A n \in S : m <= n
<1>1. PICK m \in S : \A n \in S : <<n, m>> \notin OpToRel(<, Nat)
  BY NatLessThanWellFounded, WFMin
<1>2. ASSUME NEW n \in S PROVE m <= n
  <2>1. n \in Nat /\ m \in Nat
    OBVIOUS
  <2>2. ~(n < m)
    BY <1>1, <2>1 DEF OpToRel
  <2> QED
    BY <2>1, <2>2
<1> QED
  BY <1>2

LEMMA FrontRunStops ==
    ASSUME NEW old, NEW length \in Nat, old \subseteq 1..length
    PROVE  LET n == FrontRun(old, length) IN
           n \in 0..length /\ 1..n \subseteq old /\ n + 1 \notin old
<1> DEFINE S == {n \in Nat : n + 1 \notin old}
<1>1. length \in S
  OBVIOUS
<1>2. PICK m \in S : \A n \in S : m <= n
  <2>1. S \subseteq Nat /\ S # {}
    BY <1>1
  <2> HIDE DEF S
  <2> QED
    BY <2>1, LeastOf
<1>3. m \in 0..length /\ m + 1 \notin old
  BY <1>1, <1>2
<1>4. ASSUME NEW i \in 1..m PROVE i \in old
  <2>1. i - 1 \in Nat /\ ~(m <= i - 1)
    BY <1>2
  <2>2. i - 1 \notin S
    BY <1>2, <2>1
  <2> QED
    BY <2>1, <2>2
<1>5. 1..m \subseteq old
  BY <1>4
<1>6. \E n \in 0..length : 1..n \subseteq old /\ n + 1 \notin old
  BY <1>3, <1>5
<1> QED
  BY <1>6 DEF FrontRun

CacheKept(cache, K) ==
    /\ cache.order \in Seq([key : K, at : Nat])
    /\ cache.entries = {cache.order[i].key : i \in 1..Len(cache.order)}
    /\ \A i, j \in 1..Len(cache.order) : cache.order[i].key = cache.order[j].key => i = j
    /\ \A i, j \in 1..Len(cache.order) : i < j => cache.order[i].at <= cache.order[j].at
    /\ Len(cache.order) <= MaxSeen
    /\ \A i \in 1..Len(cache.order) : cache.order[i].at <= now

LEMMA KeysAreCounted ==
    ASSUME NEW s, Len(s) \in Nat, \A i, j \in 1..Len(s) : s[i].key = s[j].key => i = j
    PROVE  LET keys == {s[i].key : i \in 1..Len(s)} IN
           IsFiniteSet(keys) /\ Cardinality(keys) = Len(s)
<1> DEFINE keys == {s[i].key : i \in 1..Len(s)}
           f == [i \in 1..Len(s) |-> s[i].key]
<1>1. f \in Injection(1..Len(s), keys) /\ f \in Surjection(1..Len(s), keys)
  BY DEF Injection, IsInjective, Surjection
<1>2. ExistsBijection(1..Len(s), keys)
  BY <1>1 DEF Bijection, ExistsBijection
<1>3. IsFiniteSet(1..Len(s)) /\ Cardinality(1..Len(s)) = Len(s)
  <2> DEFINE n == Len(s)
  <2>1. n \in Int /\ n >= 0
    OBVIOUS
  <2> HIDE DEF n
  <2>2. IsFiniteSet(1..n) /\ Cardinality(1..n) = n
    BY <2>1, FS_Interval
  <2> QED
    BY <2>2 DEF n
<1> QED
  BY <1>2, <1>3, FS_Bijection

LEMMA KeptIsOK ==
    ASSUME NEW cache, NEW K, CacheKept(cache, K)
    PROVE  CacheOK(cache)
<1>1. Len(cache.order) \in Nat
  BY DEF CacheKept
<1> QED
  BY <1>1, KeysAreCounted DEF CacheKept, CacheOK

LEMMA FrontDropped ==
    ASSUME NEW cache, NEW K, CacheKept(cache, K), NEW n \in 0..Len(cache.order)
    PROVE  LET rest == WithoutFirst(cache, n) IN
           /\ CacheKept(rest, K)
           /\ Len(rest.order) = Len(cache.order) - n
           /\ \A i \in 1..Len(rest.order) : rest.order[i] = cache.order[i + n]
<1> DEFINE rest == WithoutFirst(cache, n)
           o == cache.order
           l == Len(cache.order)
           r == rest.order
           m == Len(rest.order)
<1>1. o \in Seq([key : K, at : Nat]) /\ l \in Nat /\ n \in Nat /\ n <= l
  BY DEF CacheKept
<1>2. \A i \in 1..l : o[i] \in [key : K, at : Nat]
  BY <1>1, ElementOfSeq
<1>3. r = SubSeq(o, n + 1, l) /\ rest.entries = cache.entries \ {o[i].key : i \in 1..n}
  BY DEF WithoutFirst
<1>4. /\ cache.entries = {o[i].key : i \in 1..l}
      /\ \A i, j \in 1..l : o[i].key = o[j].key => i = j
      /\ \A i, j \in 1..l : i < j => o[i].at <= o[j].at
      /\ l <= MaxSeen
      /\ \A i \in 1..l : o[i].at <= now
  BY DEF CacheKept
<1>5. m = Len(r)
  OBVIOUS
<1>6. ASSUME r \in Seq([key : K, at : Nat]), m <= MaxSeen,
             rest.entries = {r[i].key : i \in 1..m},
             \A i, j \in 1..m : r[i].key = r[j].key => i = j,
             \A i, j \in 1..m : i < j => r[i].at <= r[j].at,
             \A i \in 1..m : r[i].at <= now
      PROVE  CacheKept(rest, K)
  BY <1>6 DEF CacheKept
<1>7. SUFFICES CacheKept(rest, K) /\ m = l - n /\ \A i \in 1..m : r[i] = o[i + n]
  OBVIOUS
<1> HIDE DEF rest, o, l, m, r
<1>8. /\ r \in Seq([key : K, at : Nat])
      /\ m = l - n /\ m \in Nat
      /\ \A i \in 1..m : r[i] = o[i + n]
  <2>1. \A i \in (n + 1)..l : o[i] \in [key : K, at : Nat]
    BY <1>1, <1>2
  <2>2. /\ SubSeq(o, n + 1, l) \in Seq([key : K, at : Nat])
        /\ Len(SubSeq(o, n + 1, l)) = IF n + 1 <= l THEN l - (n + 1) + 1 ELSE 0
        /\ \A i \in 1..(l - (n + 1) + 1) : SubSeq(o, n + 1, l)[i] = o[n + 1 + i - 1]
    BY <1>1, <2>1, SubSeqProperties
  <2>3. m = l - n /\ m \in Nat
    BY <1>1, <1>3, <1>5, <2>2
  <2>4. \A i \in 1..m : r[i] = o[i + n]
    <3>1. \A i \in 1..m : n + 1 + i - 1 = i + n /\ i \in 1..(l - (n + 1) + 1)
      BY <1>1, <2>3
    <3> QED
      BY <1>3, <2>2, <3>1
  <2> QED
    BY <1>3, <2>2, <2>3, <2>4
<1>9. \A i \in 1..m : i + n \in 1..l /\ r[i] = o[i + n]
  BY <1>1, <1>8
<1>10. rest.entries = {r[i].key : i \in 1..m}
  <2>1. ASSUME NEW k \in rest.entries PROVE k \in {r[i].key : i \in 1..m}
    <3>1. PICK i \in 1..l : k = o[i].key
      BY <1>3, <1>4, <2>1
    <3>2. i \notin 1..n
      BY <1>3, <2>1, <3>1
    <3>3. i - n \in 1..m /\ (i - n) + n = i
      BY <1>1, <1>8, <3>2
    <3>4. r[i - n] = o[i]
      BY <1>8, <3>3
    <3> QED
      BY <3>1, <3>3, <3>4
  <2>2. ASSUME NEW i \in 1..m PROVE r[i].key \in rest.entries
    <3>1. i + n \in 1..l /\ r[i] = o[i + n] /\ i + n \notin 1..n
      BY <1>1, <1>8
    <3>2. \A j \in 1..n : j \in 1..l /\ j # i + n
      BY <1>1, <3>1
    <3>3. o[i + n].key \notin {o[j].key : j \in 1..n}
      BY <1>4, <3>1, <3>2
    <3> QED
      BY <1>3, <1>4, <3>1, <3>3
  <2> QED
    BY <2>1, <2>2
<1>11. \A i, j \in 1..m : r[i].key = r[j].key => i = j
  <2> TAKE i, j \in 1..m
  <2>1. o[i + n].key = o[j + n].key => i + n = j + n
    BY <1>4, <1>9
  <2> QED
    BY <1>1, <1>9, <2>1
<1>12. \A i, j \in 1..m : i < j => r[i].at <= r[j].at
  <2> TAKE i, j \in 1..m
  <2>1. i + n < j + n => o[i + n].at <= o[j + n].at
    BY <1>4, <1>9
  <2>2. i < j => i + n < j + n
    BY <1>1
  <2> QED
    BY <1>9, <2>1, <2>2
<1>13. m <= MaxSeen /\ \A i \in 1..m : r[i].at <= now
  <2>1. MaxSeen \in Nat
    BY FilterAssumption DEF FilterAssumption
  <2> QED
    BY <1>1, <1>4, <1>8, <1>9, <2>1
<1> QED
  BY <1>6, <1>8, <1>10, <1>11, <1>12, <1>13

LEMMA EvictedKept ==
    ASSUME NEW cache, NEW K, CacheKept(cache, K)
    PROVE  \E n \in 0..Len(cache.order) :
               /\ Evicted(cache) = WithoutFirst(cache, n)
               /\ \A i \in 1..n : now - cache.order[i].at > Ttl
<1> DEFINE l == Len(cache.order)
           n == FrontRun(Expired(cache), Len(cache.order))
<1>1. l \in Nat
  BY DEF CacheKept
<1>2. Expired(cache) \subseteq 1..l
  BY DEF Expired
<1>3. n \in 0..l /\ 1..n \subseteq Expired(cache)
  BY <1>1, <1>2, FrontRunStops
<1>4. \A i \in Expired(cache) : now - cache.order[i].at > Ttl
  BY DEF Expired
<1>5. Evicted(cache) = WithoutFirst(cache, n)
  BY DEF Evicted
<1> QED
  BY <1>3, <1>4, <1>5

\* A key whose time is not over is known.
LEMMA StillKnown ==
    ASSUME NEW cache, NEW K, CacheKept(cache, K), now \in Nat,
           NEW p \in 1..Len(cache.order), now - cache.order[p].at <= Ttl
    PROVE  Duplicate(cache, cache.order[p].key)
<1> DEFINE o == cache.order
           l == Len(cache.order)
<1>1. PICK n \in 0..l : Evicted(cache) = WithoutFirst(cache, n)
                        /\ \A i \in 1..n : now - o[i].at > Ttl
  BY EvictedKept
<1>2. l \in Nat /\ o \in Seq([key : K, at : Nat])
  BY DEF CacheKept
<1>3. o[p].at \in Nat /\ Ttl \in Nat
  <2>1. o[p] \in [key : K, at : Nat]
    BY <1>2, ElementOfSeq
  <2> QED
    BY <2>1, FilterAssumption DEF FilterAssumption
<1>4. p \notin 1..n
  BY <1>1, <1>3
<1>5. /\ cache.entries = {o[i].key : i \in 1..l}
      /\ \A i, j \in 1..l : o[i].key = o[j].key => i = j
  BY DEF CacheKept
<1>6. Evicted(cache).entries = cache.entries \ {o[i].key : i \in 1..n}
  BY <1>1 DEF WithoutFirst
<1> HIDE DEF o, l
<1>7. p \in 1..l /\ n \in 0..l
  BY <1>1 DEF l
<1>8. \A i \in 1..n : i \in 1..l /\ i # p
  BY <1>2, <1>4, <1>7
<1>9. o[p].key \in Evicted(cache).entries
  BY <1>5, <1>6, <1>7, <1>8
<1> QED
  BY <1>9 DEF Duplicate, o

\* What a check of a key does to the queue: a front of n entries goes, each
\* because its time is over, or the last of them for the place of a new key;
\* the others stay in their order, and a new key comes last.
Checks(old, new, key, n) ==
    /\ n \in 0..Len(old.order)
    /\ \A i \in (n + 1)..Len(old.order) : new.order[i - n] = old.order[i]
    /\ \/ /\ Duplicate(old, key)
          /\ Len(new.order) = Len(old.order) - n
          /\ \A i \in 1..n : now - old.order[i].at > Ttl
       \/ /\ ~Duplicate(old, key)
          /\ Len(new.order) = Len(old.order) - n + 1
          /\ new.order[Len(new.order)] = [key |-> key, at |-> now]
          /\ \A i \in 1..n :
              \/ now - old.order[i].at > Ttl
              \/ /\ i = n /\ Len(old.order) - n + 1 = MaxSeen
                 /\ \A q \in n..Len(old.order) : old.order[q].key # key

LEMMA DuplicateChecked ==
    ASSUME NEW cache, NEW K, CacheKept(cache, K), NEW key \in K, Duplicate(cache, key)
    PROVE  /\ CacheKept(CheckAndInsert(cache, key), K)
           /\ \E n \in 0..Len(cache.order) : Checks(cache, CheckAndInsert(cache, key), key, n)
<1> DEFINE o == cache.order
           l == Len(cache.order)
           new == CheckAndInsert(cache, key)
<1>1. PICK n \in 0..l : Evicted(cache) = WithoutFirst(cache, n)
                        /\ \A i \in 1..n : now - o[i].at > Ttl
  BY EvictedKept
<1>2. new = WithoutFirst(cache, n)
  BY <1>1 DEF CheckAndInsert
<1>3. CacheKept(new, K) /\ Len(new.order) = l - n /\ \A i \in 1..Len(new.order) : new.order[i] = o[i + n]
  <2>1. /\ CacheKept(WithoutFirst(cache, n), K)
        /\ Len(WithoutFirst(cache, n).order) = l - n
        /\ \A i \in 1..Len(WithoutFirst(cache, n).order) :
              WithoutFirst(cache, n).order[i] = o[i + n]
    BY FrontDropped
  <2> HIDE DEF new
  <2> QED
    BY <1>2, <2>1
<1>4. l \in Nat
  BY DEF CacheKept
<1> HIDE DEF new
<1>5. \A i \in (n + 1)..l : new.order[i - n] = o[i]
  <2> SUFFICES ASSUME NEW i \in (n + 1)..l PROVE new.order[i - n] = o[i]
    OBVIOUS
  <2> HIDE DEF o, l
  <2>1. i - n \in 1..(l - n) /\ (i - n) + n = i
    BY <1>1, <1>4
  <2> QED
    BY <1>3, <2>1
<1>6. Checks(cache, new, key, n)
  BY <1>1, <1>3, <1>5 DEF Checks
<1> QED
  BY <1>1, <1>3, <1>6 DEF new

LEMMA NewKeyKept ==
    ASSUME NEW room, NEW K, CacheKept(room, K), NEW key \in K, key \notin room.entries,
           Len(room.order) < MaxSeen, now \in Nat
    PROVE  LET new == [entries |-> room.entries \cup {key},
                       order |-> Append(room.order, [key |-> key, at |-> now])] IN
           /\ CacheKept(new, K)
           /\ Len(new.order) = Len(room.order) + 1
           /\ new.order[Len(new.order)] = [key |-> key, at |-> now]
           /\ \A i \in 1..Len(room.order) : new.order[i] = room.order[i]
<1> DEFINE e == [key |-> key, at |-> now]
           new == [entries |-> room.entries \cup {key}, order |-> Append(room.order, e)]
           o == room.order
           l == Len(room.order)
           r == Append(room.order, e)
<1>1. o \in Seq([key : K, at : Nat]) /\ l \in Nat /\ e \in [key : K, at : Nat]
  BY DEF CacheKept
<1>2. /\ room.entries = {o[i].key : i \in 1..l}
      /\ \A i, j \in 1..l : o[i].key = o[j].key => i = j
      /\ \A i, j \in 1..l : i < j => o[i].at <= o[j].at
      /\ \A i \in 1..l : o[i].at <= now
  BY DEF CacheKept
<1>3. /\ r \in Seq([key : K, at : Nat]) /\ Len(r) = l + 1
      /\ \A i \in 1..l : r[i] = o[i]
      /\ r[l + 1] = e /\ e.key = key /\ e.at = now
  BY <1>1, AppendProperties
<1>4. new.order = r /\ new.entries = room.entries \cup {key}
  OBVIOUS
<1>5. l < MaxSeen /\ MaxSeen \in Nat
  BY FilterAssumption DEF FilterAssumption
<1>6. SUFFICES CacheKept(new, K)
  BY <1>3, <1>4
<1> DEFINE m == l + 1
<1>0. ASSUME r \in Seq([key : K, at : Nat]), Len(r) = m, m <= MaxSeen,
             new.entries = {r[i].key : i \in 1..m},
             \A i, j \in 1..m : r[i].key = r[j].key => i = j,
             \A i, j \in 1..m : i < j => r[i].at <= r[j].at,
             \A i \in 1..m : r[i].at <= now
      PROVE  CacheKept(new, K)
  <2> HIDE DEF new, m, r
  <2> QED
    BY <1>0, <1>4 DEF CacheKept
<1> HIDE DEF e, new, o, l, r
<1>7. \A i \in 1..(l + 1) : i \in 1..l \/ i = l + 1
  BY <1>1
<1>8. new.entries = {r[i].key : i \in 1..(l + 1)}
  <2>1. l + 1 \in 1..(l + 1) /\ \A i \in 1..l : i \in 1..(l + 1)
    BY <1>1
  <2> QED
    BY <1>2, <1>3, <1>4, <1>7, <2>1
<1>9. \A i \in 1..l : o[i].key # key
  BY <1>2
<1>10. \A i, j \in 1..(l + 1) : r[i].key = r[j].key => i = j
  BY <1>2, <1>3, <1>7, <1>9
<1>11. \A i, j \in 1..(l + 1) : i < j => r[i].at <= r[j].at
  <2> TAKE i, j \in 1..(l + 1)
  <2>1. CASE j \in 1..l
    <3>1. i < j => i \in 1..l
      BY <1>1, <2>1
    <3> QED
      BY <1>2, <1>3, <2>1, <3>1
  <2>2. CASE j = l + 1
    <3>1. i < j => i \in 1..l
      BY <1>1, <2>2
    <3> QED
      BY <1>2, <1>3, <2>2, <3>1
  <2> QED
    BY <1>7, <2>1, <2>2
<1>12. \A i \in 1..(l + 1) : r[i].at <= now
  <2>1. now <= now
    OBVIOUS
  <2> QED
    BY <1>2, <1>3, <1>7, <2>1
<1>13. l + 1 <= MaxSeen
  BY <1>1, <1>5
<1> QED
  BY <1>0, <1>3, <1>8, <1>10, <1>11, <1>12, <1>13

LEMMA NewChecked ==
    ASSUME NEW cache, NEW K, CacheKept(cache, K), NEW key \in K, ~Duplicate(cache, key), now \in Nat
    PROVE  /\ CacheKept(CheckAndInsert(cache, key), K)
           /\ \E n \in 0..Len(cache.order) : Checks(cache, CheckAndInsert(cache, key), key, n)
<1> DEFINE o == cache.order
           l == Len(cache.order)
           kept == Evicted(cache)
           over == Overflow(kept)
           room == WithoutFirst(kept, over)
           new == CheckAndInsert(cache, key)
<1>1. PICK n \in 0..l : kept = WithoutFirst(cache, n)
                        /\ \A i \in 1..n : now - o[i].at > Ttl
  BY EvictedKept
<1>2. l \in Nat /\ MaxSeen \in Nat \ {0}
  BY FilterAssumption DEF CacheKept, FilterAssumption
<1>3. CacheKept(kept, K) /\ Len(kept.order) = l - n /\ \A i \in 1..Len(kept.order) : kept.order[i] = o[i + n]
  <2>1. /\ CacheKept(WithoutFirst(cache, n), K)
        /\ Len(WithoutFirst(cache, n).order) = l - n
        /\ \A i \in 1..Len(WithoutFirst(cache, n).order) :
              WithoutFirst(cache, n).order[i] = o[i + n]
    BY FrontDropped
  <2> HIDE DEF kept
  <2> QED
    BY <1>1, <2>1
<1>4. key \notin kept.entries
  BY DEF Duplicate
<1>5. new = [entries |-> room.entries \cup {key}, order |-> Append(room.order, [key |-> key, at |-> now])]
  BY DEF CheckAndInsert, Inserted
<1>6. over = IF Cardinality(kept.entries) - MaxSeen + 1 > 0
             THEN Cardinality(kept.entries) - MaxSeen + 1 ELSE 0
  BY DEF Overflow
<1> HIDE DEF kept
<1>7. kept.entries = {kept.order[i].key : i \in 1..Len(kept.order)} /\ Len(kept.order) <= MaxSeen
  BY <1>3 DEF CacheKept
<1>8. Cardinality(kept.entries) = l - n
  BY <1>3, KeptIsOK DEF CacheOK
<1>9. /\ over \in 0..1 /\ over \in 0..(l - n)
      /\ l - n - over < MaxSeen
      /\ over = 1 => l - n = MaxSeen
  <2> HIDE DEF over, l
  <2>1. n \in Nat /\ n <= l
    BY <1>1, <1>2
  <2>2. l - n <= MaxSeen
    BY <1>3, <1>7
  <2> QED
    BY <1>2, <1>6, <1>8, <2>1, <2>2
<1> HIDE DEF over
<1>10. /\ CacheKept(room, K)
       /\ Len(room.order) = l - n - over
       /\ \A i \in 1..Len(room.order) : room.order[i] = kept.order[i + over]
  <2>1. over \in 0..Len(kept.order)
    BY <1>3, <1>9
  <2>2. /\ CacheKept(WithoutFirst(kept, over), K)
        /\ Len(WithoutFirst(kept, over).order) = Len(kept.order) - over
        /\ \A i \in 1..Len(WithoutFirst(kept, over).order) :
              WithoutFirst(kept, over).order[i] = kept.order[i + over]
    BY <1>3, <2>1, FrontDropped
  <2> HIDE DEF l, o
  <2> QED
    BY <1>3, <2>2
<1>11. key \notin room.entries
  BY <1>4 DEF WithoutFirst
<1> HIDE DEF room
<1>12. /\ CacheKept(new, K)
       /\ Len(new.order) = Len(room.order) + 1
       /\ new.order[Len(new.order)] = [key |-> key, at |-> now]
       /\ \A i \in 1..Len(room.order) : new.order[i] = room.order[i]
  <2>1. Len(room.order) < MaxSeen
    BY <1>9, <1>10
  <2> DEFINE with == [entries |-> room.entries \cup {key},
                      order |-> Append(room.order, [key |-> key, at |-> now])]
  <2>2. /\ CacheKept(with, K)
        /\ Len(with.order) = Len(room.order) + 1
        /\ with.order[Len(with.order)] = [key |-> key, at |-> now]
        /\ \A i \in 1..Len(room.order) : with.order[i] = room.order[i]
    BY <1>10, <1>11, <2>1, NewKeyKept
  <2>3. new = with
    BY <1>5
  <2> HIDE DEF new, with
  <2> QED
    BY <2>2, <2>3
<1> HIDE DEF new
<1> DEFINE d == n + over
<1>13. d \in 0..l /\ n \in Nat /\ over \in Nat
  <2> HIDE DEF l
  <2> QED
    BY <1>1, <1>2, <1>9
<1>14. ASSUME NEW i \in (d + 1)..l PROVE new.order[i - d] = o[i]
  <2> HIDE DEF l, o
  <2>1. /\ i - d \in 1..(l - n - over)
        /\ (i - d) + over \in 1..(l - n)
        /\ (i - d) + over + n = i
    BY <1>2, <1>13
  <2>2. new.order[i - d] = room.order[i - d]
    BY <1>10, <1>12, <2>1
  <2>3. room.order[i - d] = kept.order[(i - d) + over]
    BY <1>10, <2>1
  <2>4. kept.order[(i - d) + over] = o[(i - d) + over + n]
    BY <1>3, <2>1
  <2> QED
    BY <2>1, <2>2, <2>3, <2>4
<1>15. ASSUME NEW i \in 1..d
       PROVE  \/ now - o[i].at > Ttl
              \/ /\ i = d /\ l - d + 1 = MaxSeen
                 /\ \A q \in d..l : o[q].key # key
  <2> HIDE DEF l, o
  <2>1. CASE i \in 1..n
    BY <1>1, <2>1
  <2>2. CASE i \notin 1..n
    <3>1. over = 1 /\ i = d
      BY <1>9, <1>13, <2>2
    <3>2. l - d + 1 = MaxSeen
      BY <1>2, <1>9, <1>13, <3>1
    <3>3. ASSUME NEW q \in d..l PROVE o[q].key # key
      <4>1. q - n \in 1..(l - n) /\ (q - n) + n = q
        BY <1>2, <1>13, <3>1
      <4>2. kept.order[q - n] = o[q] /\ kept.order[q - n].key \in kept.entries
        BY <1>3, <1>7, <4>1
      <4> QED
        BY <1>4, <4>2
    <3> QED
      BY <3>1, <3>2, <3>3
  <2> QED
    BY <2>1, <2>2
<1>16. Len(new.order) = l - d + 1
  <2> HIDE DEF l
  <2> QED
    BY <1>2, <1>10, <1>12, <1>13
<1> HIDE DEF d
<1>17. Checks(cache, new, key, d)
  BY <1>12, <1>13, <1>14, <1>15, <1>16 DEF Checks
<1> QED
  BY <1>12, <1>13, <1>17 DEF new

LEMMA Checked ==
    ASSUME NEW cache, NEW K, CacheKept(cache, K), NEW key \in K, now \in Nat
    PROVE  /\ CacheKept(CheckAndInsert(cache, key), K)
           /\ \E n \in 0..Len(cache.order) : Checks(cache, CheckAndInsert(cache, key), key, n)
BY DuplicateChecked, NewChecked

-----------------------------------------------------------------------------
(* The filter's verdicts and its counts.                                   *)

Outcomes == BeforeRate \cup {"F2", "F3_deny", "F3_allow", "F5", "F6", "F7", "PASS"}

LEMMA DecisionIsAnOutcome ==
    ASSUME NEW t, NEW late \in BOOLEAN
    PROVE  /\ Decision(t, late) \in Outcomes
           /\ Decision(t, late) = "F0_sig" <=> Duplicate(sigs, t.signature)
           /\ Decision(t, late) = "F0_mint" <=>
                ~Duplicate(sigs, t.signature) /\ Duplicate(mints, t.mint)
           /\ Decision(t, late) = "F2" => RateLimited(t.user)
           /\ Decision(t, late) \notin BeforeRate \cup {"F2"} => ~RateLimited(t.user)
<1> DEFINE d == Decision(t, late)
           sig == Duplicate(sigs, t.signature)
           mint == Duplicate(mints, t.mint)
           full == RateLimited(t.user)
<1>1. CASE sig
  <2>1. d = "F0_sig"
    BY <1>1 DEF Decision
  <2> QED
    BY <1>1, <2>1 DEF Outcomes, BeforeRate, Repeats
<1>2. CASE ~sig /\ mint
  <2>1. d = "F0_mint"
    BY <1>2 DEF Decision
  <2> QED
    BY <1>2, <2>1 DEF Outcomes, BeforeRate, Repeats
<1>3. CASE ~sig /\ ~mint /\ (~t.sane \/ late)
  <2>1. d \in {"F1", "budget"}
    BY <1>3 DEF Decision
  <2> QED
    BY <1>3, <2>1 DEF Outcomes, BeforeRate, Repeats
<1>4. CASE ~sig /\ ~mint /\ t.sane /\ ~late /\ full
  <2>1. d = "F2"
    BY <1>4 DEF Decision
  <2> QED
    BY <1>4, <2>1 DEF Outcomes, BeforeRate, Repeats
<1>5. CASE ~sig /\ ~mint /\ t.sane /\ ~late /\ ~full
  <2>1. d \in {"F3_deny", "F3_allow", "F5", "F6", "F7", "PASS"}
    BY <1>5 DEF Decision
  <2> QED
    BY <1>5, <2>1 DEF Outcomes, BeforeRate, Repeats
<1> QED
  BY <1>1, <1>2, <1>3, <1>4, <1>5

LEMMA OneVerdict ==
    ASSUME NEW d \in Outcomes
    PROVE  /\ "total_evaluated" \in Tallied(d)
           /\ "total_allowed" \in Tallied(d) <=> Action(d) = "Allow"
           /\ "total_denied" \in Tallied(d) <=> Action(d) # "Allow"
BY DEF Tallied, Action, Outcomes, BeforeRate, Repeats

CountsAdd ==
    /\ counts \in [Counters -> Nat]
    /\ counts["total_evaluated"] = counts["total_allowed"] + counts["total_denied"]
    /\ counts["total_evaluated"] = Len(history)

LEMMA CountsStillAdd ==
    ASSUME CountsAdd, Len(history) \in Nat, NEW d \in Outcomes,
           counts' = [c \in Counters |-> counts[c] + IF c \in Tallied(d) THEN 1 ELSE 0],
           Len(history') = Len(history) + 1
    PROVE  CountsAdd'
<1>1. {"total_evaluated", "total_allowed", "total_denied"} \subseteq Counters
  BY DEF Counters
<1>2. /\ counts["total_evaluated"] \in Nat /\ counts["total_allowed"] \in Nat
      /\ counts["total_denied"] \in Nat
      /\ counts["total_evaluated"] = counts["total_allowed"] + counts["total_denied"]
      /\ counts["total_evaluated"] = Len(history)
  BY <1>1 DEF CountsAdd
<1>3. counts'["total_evaluated"] = counts["total_evaluated"] + 1
  BY <1>1, OneVerdict
<1>4. counts'["total_allowed"] = counts["total_allowed"] + (IF Action(d) = "Allow" THEN 1 ELSE 0)
  BY <1>1, OneVerdict
<1>5. counts'["total_denied"] = counts["total_denied"] + (IF Action(d) = "Allow" THEN 0 ELSE 1)
  BY <1>1, OneVerdict
<1>6. counts' \in [Counters -> Nat]
  BY DEF CountsAdd
<1> QED
  BY <1>2, <1>3, <1>4, <1>5, <1>6 DEF CountsAdd

-----------------------------------------------------------------------------
(* The history of the filter, and what its cache of mints remembers of it. *)

HistoryKept ==
    /\ now \in Nat
    /\ history \in Seq([token : FeedTokens, at : Nat, decision : Outcomes])
    /\ \A i \in 1..Len(history) : history[i].at <= now

LEMMA HistoryRead ==
    ASSUME HistoryKept
    PROVE  /\ Len(history) \in Nat /\ now \in Nat
           /\ \A i \in 1..Len(history) :
                /\ history[i].token \in FeedTokens /\ history[i].at \in Nat
                /\ history[i].at <= now /\ history[i].decision \in Outcomes
<1>1. history \in Seq([token : FeedTokens, at : Nat, decision : Outcomes])
  BY DEF HistoryKept
<1>2. \A i \in 1..Len(history) : history[i] \in [token : FeedTokens, at : Nat, decision : Outcomes]
  BY <1>1, ElementOfSeq
<1> QED
  BY <1>1, <1>2 DEF HistoryKept

\* One more evaluation, after those that were there.
Evaluated(t, d) ==
    /\ Len(history') = Len(history) + 1
    /\ \A i \in 1..Len(history) : history'[i] = history[i]
    /\ history'[Len(history) + 1] = [token |-> t, at |-> now, decision |-> d]

LEMMA HistoryGrows ==
    ASSUME HistoryKept, NEW t \in FeedTokens, NEW d \in Outcomes, now' = now,
           history' = Append(history, [token |-> t, at |-> now, decision |-> d])
    PROVE  HistoryKept' /\ Evaluated(t, d)
<1> DEFINE e == [token |-> t, at |-> now, decision |-> d]
           E == [token : FeedTokens, at : Nat, decision : Outcomes]
<1>1. history \in Seq(E) /\ e \in E /\ e.at = now /\ now \in Nat
  BY DEF HistoryKept
<1>2. /\ history' \in Seq(E) /\ Len(history') = Len(history) + 1
      /\ \A i \in 1..Len(history) : history'[i] = history[i]
      /\ history'[Len(history) + 1] = e
  BY <1>1, AppendProperties
<1> HIDE DEF e
<1>3. \A i \in 1..Len(history') : history'[i].at <= now
  <2> TAKE i \in 1..Len(history')
  <2>1. i \in 1..Len(history) \/ i = Len(history) + 1
    BY <1>2, HistoryRead
  <2>2. now <= now
    BY <1>1
  <2> QED
    BY <1>1, <1>2, <2>1, <2>2, HistoryRead
<1>4. HistoryKept'
  BY <1>1, <1>2, <1>3 DEF HistoryKept
<1>5. Evaluated(t, d)
  BY <1>2 DEF Evaluated, e
<1> QED
  BY <1>4, <1>5

LEMMA NewMintsAreFinite ==
    ASSUME NEW i \in Int, NEW j \in Int
    PROVE  IsFiniteSet(NewMints(i, j)) /\ Cardinality(NewMints(i, j)) \in Nat
<1> DEFINE I == {k \in i..j : Judged(k) \notin Repeats}
           f == [k \in I |-> history[k].token.mint]
<1>1. IsFiniteSet(I)
  BY FS_Interval, FS_Subset
<1>2. f \in Surjection(I, NewMints(i, j))
  BY DEF Surjection, NewMints
<1> QED
  BY <1>1, <1>2, FS_Surjection, FS_CardinalityType

LEMMA NewMintsGrow ==
    ASSUME HistoryKept, NEW t, NEW d, Evaluated(t, d)
    PROVE  /\ \A i \in 1..Len(history) : Judged(i)' = Judged(i)
           /\ \A i, j \in 1..Len(history) : NewMints(i, j)' = NewMints(i, j)
           /\ \A i \in 1..Len(history) :
                NewMints(i, Len(history))' =
                    NewMints(i, Len(history)) \cup (IF d \in Repeats THEN {} ELSE {t.mint})
           /\ \A i \in 1..Len(history) : \A j \in {Len(history) + 1} :
                NewMints(i, j)' =
                    NewMints(i, Len(history)) \cup (IF d \in Repeats THEN {} ELSE {t.mint})
<1> DEFINE l == Len(history)
           New(i, j) == {history[k].token.mint : k \in {k \in i..j : history[k].decision \notin Repeats}}
           Newer(i, j) == {history'[k].token.mint : k \in {k \in i..j : history'[k].decision \notin Repeats}}
           more == IF d \in Repeats THEN {} ELSE {t.mint}
<1>1. l \in Nat /\ Len(history') = l + 1
  BY HistoryRead DEF Evaluated
<1>2. /\ \A k \in 1..l : history'[k] = history[k]
      /\ history'[l + 1] = [token |-> t, at |-> now, decision |-> d]
  BY DEF Evaluated
<1>3. \A i, j : NewMints(i, j) = New(i, j)
  BY DEF NewMints, Judged
<1>4. \A i, j : NewMints(i, j)' = Newer(i, j)
  BY DEF NewMints, Judged
<1> HIDE DEF l
<1>5. \A i \in 1..l : Judged(i)' = Judged(i)
  BY <1>2 DEF Judged
<1>6. ASSUME NEW i \in 1..l, NEW j \in 1..l PROVE Newer(i, j) = New(i, j)
  <2>1. \A k \in i..j : k \in 1..l
    BY <1>1
  <2> QED
    BY <1>2, <2>1
<1>7. ASSUME NEW i \in 1..l PROVE Newer(i, l + 1) = New(i, l) \cup more
  <2>1. \A k : k \in i..(l + 1) <=> k \in i..l \/ k = l + 1
    BY <1>1
  <2>2. \A k \in i..l : k \in 1..l /\ history'[k] = history[k]
    BY <1>1, <1>2
  <2>3. history'[l + 1].decision = d /\ history'[l + 1].token = t
    BY <1>2
  <2> QED
    BY <2>1, <2>2, <2>3
<1> HIDE DEF New, Newer, more
<1>8. \A i \in 1..l : NewMints(i, Len(history))' = Newer(i, l + 1)
  BY <1>1, <1>4 DEF NewMints, Judged, Newer
<1> QED
  BY <1>3, <1>4, <1>5, <1>6, <1>7, <1>8 DEF l, more

\* A mint that was evaluated is still in the queue, with nothing behind it but
\* mints that came later, unless its time is over or too many of them came.
Forgotten(i) ==
    \/ now - history[i].at > Ttl
    \/ Cardinality(NewMints(i, Len(history))) > MaxSeen

RememberedAs(i, p) ==
    /\ mints.order[p] = [key |-> history[i].token.mint, at |-> history[i].at]
    /\ \A q \in p..Len(mints.order) : mints.order[q].key \in NewMints(i, Len(history))

Remembered ==
    \A i \in 1..Len(history) :
        Judged(i) \notin Repeats =>
            Forgotten(i) \/ \E p \in 1..Len(mints.order) : RememberedAs(i, p)

LEMMA BackIsCounted ==
    ASSUME NEW cache, NEW K, CacheKept(cache, K), NEW n \in 1..Len(cache.order)
    PROVE  LET back == {cache.order[q].key : q \in n..Len(cache.order)} IN
           IsFiniteSet(back) /\ Cardinality(back) = Len(cache.order) - n + 1
<1> DEFINE o == cache.order
           l == Len(cache.order)
           back == {o[q].key : q \in n..l}
           f == [q \in n..l |-> o[q].key]
<1>1. l \in Nat /\ \A i, j \in 1..l : o[i].key = o[j].key => i = j
  BY DEF CacheKept
<1> HIDE DEF o, l
<1>2. n \in 1..l
  BY DEF l
<1>3. n \in Int /\ l \in Int /\ n <= l /\ \A q \in n..l : q \in 1..l
  BY <1>1, <1>2
<1>4. IsFiniteSet(n..l) /\ Cardinality(n..l) = l - n + 1
  BY <1>3, FS_Interval
<1>5. f \in Injection(n..l, back) /\ f \in Surjection(n..l, back)
  BY <1>1, <1>3 DEF Injection, IsInjective, Surjection
<1>6. ExistsBijection(n..l, back)
  BY <1>5 DEF Bijection, ExistsBijection
<1>7. IsFiniteSet(back) /\ Cardinality(back) = l - n + 1
  BY <1>4, <1>6, FS_Bijection
<1> QED
  BY <1>7 DEF o, l

LEMMA NewMintsStay ==
    ASSUME HistoryKept, NEW t, NEW d, Evaluated(t, d), NEW i \in 1..Len(history)
    PROVE  LET was == NewMints(i, Len(history))
               is == NewMints(i, Len(history))' IN
           /\ was \subseteq is /\ IsFiniteSet(was) /\ IsFiniteSet(is)
           /\ Cardinality(was) \in Nat /\ Cardinality(is) \in Nat
           /\ Cardinality(was) <= Cardinality(is)
<1> DEFINE was == NewMints(i, Len(history))
           is == NewMints(i, Len(history))'
           more == IF d \in Repeats THEN {} ELSE {t.mint}
<1>1. is = was \cup more
  BY NewMintsGrow
<1>2. i \in Int /\ Len(history) \in Int
  BY HistoryRead
<1>3. IsFiniteSet(was) /\ Cardinality(was) \in Nat
  BY <1>2, NewMintsAreFinite
<1>4. IsFiniteSet(more)
  BY FS_EmptySet, FS_Singleton
<1> HIDE DEF was, is, more
<1>5. IsFiniteSet(is)
  BY <1>1, <1>3, <1>4, FS_Union
<1>6. was \subseteq is
  BY <1>1
<1> QED
  BY <1>3, <1>5, <1>6, FS_Subset, FS_CardinalityType DEF was, is

LEMMA StaysForgotten ==
    ASSUME HistoryKept, NEW t, NEW d, Evaluated(t, d), now' = now,
           NEW i \in 1..Len(history), Forgotten(i)
    PROVE  Forgotten(i)'
<1> DEFINE was == NewMints(i, Len(history))
           is == NewMints(i, Len(history))'
<1>1. /\ Cardinality(was) \in Nat /\ Cardinality(is) \in Nat
      /\ Cardinality(was) <= Cardinality(is)
  BY NewMintsStay
<1>2. history'[i] = history[i] /\ MaxSeen \in Nat
  BY FilterAssumption DEF Evaluated, FilterAssumption
<1>3. now - history[i].at > Ttl \/ Cardinality(was) > MaxSeen
  BY DEF Forgotten
<1>4. Forgotten(i)' <=> now' - history'[i].at > Ttl \/ Cardinality(is) > MaxSeen
  BY DEF Forgotten
<1> HIDE DEF was, is
<1> QED
  BY <1>1, <1>2, <1>3, <1>4

\* A mint that the cache drops is one that is forgotten from then on.
LEMMA DroppedIsForgotten ==
    ASSUME HistoryKept, NEW K, CacheKept(mints, K), NEW t, NEW d, Evaluated(t, d), now' = now,
           NEW i \in 1..Len(history), NEW p \in 1..Len(mints.order), RememberedAs(i, p),
           d \in Repeats => Duplicate(mints, t.mint),
           NEW new, NEW n, Checks(mints, new, t.mint, n), p <= n
    PROVE  Forgotten(i)'
<1> DEFINE was == NewMints(i, Len(history))
           is == NewMints(i, Len(history))'
           l == Len(mints.order)
<1>1. history'[i] = history[i]
  BY DEF Evaluated
<1>2. l \in Nat /\ MaxSeen \in Nat /\ n \in 0..l /\ p \in 1..n
  BY FilterAssumption DEF CacheKept, FilterAssumption, Checks
<1>3. mints.order[p] = [key |-> history[i].token.mint, at |-> history[i].at]
  BY DEF RememberedAs
<1>4. CASE now - mints.order[p].at > Ttl
  <2>1. now' - history'[i].at > Ttl
    BY <1>1, <1>3, <1>4
  <2> QED
    BY <2>1 DEF Forgotten
<1>5. CASE /\ ~Duplicate(mints, t.mint) /\ p = n /\ l - n + 1 = MaxSeen
           /\ \A q \in n..l : mints.order[q].key # t.mint
  <2> DEFINE back == {mints.order[q].key : q \in p..l}
  <2>1. IsFiniteSet(back) /\ Cardinality(back) = MaxSeen
    BY <1>2, <1>5, BackIsCounted
  <2>2. back \subseteq was /\ t.mint \notin back
    BY <1>5 DEF RememberedAs
  <2>3. d \notin Repeats
    BY <1>5
  <2>4. is = was \cup {t.mint}
    BY <2>3, NewMintsGrow
  <2>5. IsFiniteSet(is) /\ Cardinality(is) \in Nat
    BY NewMintsStay
  <2> HIDE DEF back, was, is
  <2>6. IsFiniteSet(back \cup {t.mint}) /\ Cardinality(back \cup {t.mint}) = MaxSeen + 1
    BY <2>1, <2>2, FS_AddElement
  <2>7. back \cup {t.mint} \subseteq is
    BY <2>2, <2>4
  <2>8. MaxSeen + 1 <= Cardinality(is)
    BY <2>5, <2>6, <2>7, FS_Subset
  <2>9. Cardinality(is) > MaxSeen
    BY <1>2, <2>5, <2>8
  <2> QED
    BY <2>9 DEF Forgotten, is
<1> QED
  BY <1>2, <1>4, <1>5 DEF Checks

LEMMA KeptIsRemembered ==
    ASSUME HistoryKept, NEW K, CacheKept(mints, K), NEW t, NEW d, Evaluated(t, d), now' = now,
           NEW i \in 1..Len(history), NEW p \in 1..Len(mints.order), RememberedAs(i, p),
           d \in Repeats => Duplicate(mints, t.mint),
           NEW n, Checks(mints, mints', t.mint, n), p > n
    PROVE  p - n \in 1..Len(mints'.order) /\ RememberedAs(i, p - n)'
<1> DEFINE was == NewMints(i, Len(history))
           is == NewMints(i, Len(history))'
           l == Len(mints.order)
           m == Len(mints'.order)
<1>1. history'[i] = history[i] /\ was \subseteq is
  BY NewMintsStay DEF Evaluated
<1>2. l \in Nat /\ n \in 0..l /\ p \in 1..l /\ m \in {l - n, l - n + 1}
  BY DEF CacheKept, Checks
<1>3. /\ mints.order[p] = [key |-> history[i].token.mint, at |-> history[i].at]
      /\ \A q \in p..l : mints.order[q].key \in was
  BY DEF RememberedAs
<1>4. \A q \in (n + 1)..l : mints'.order[q - n] = mints.order[q]
  BY DEF Checks
<1>5. m = l - n + 1 => mints'.order[m].key = t.mint /\ t.mint \in is
  <2> HIDE DEF is
  <2>1. m = l - n + 1 => ~Duplicate(mints, t.mint) /\ mints'.order[m] = [key |-> t.mint, at |-> now]
    BY <1>2 DEF Checks
  <2>2. d \notin Repeats => is = was \cup {t.mint}
    BY NewMintsGrow DEF is
  <2> QED
    BY <2>1, <2>2
<1>6. RememberedAs(i, p - n)' <=>
        /\ mints'.order[p - n] = [key |-> history'[i].token.mint, at |-> history'[i].at]
        /\ \A q \in (p - n)..m : mints'.order[q].key \in is
  BY DEF RememberedAs
<1> HIDE DEF was, is, l, m
<1>7. p \in (n + 1)..l /\ p - n \in 1..m
  BY <1>2
<1>8. mints'.order[p - n] = [key |-> history'[i].token.mint, at |-> history'[i].at]
  BY <1>1, <1>3, <1>4, <1>7
<1>9. ASSUME NEW q \in (p - n)..m PROVE mints'.order[q].key \in is
  <2>1. CASE q <= l - n
    <3>1. q + n \in (n + 1)..l /\ q + n \in p..l /\ (q + n) - n = q
      BY <1>2, <1>7, <2>1
    <3>2. mints'.order[q] = mints.order[q + n]
      BY <1>4, <3>1
    <3> QED
      BY <1>1, <1>3, <3>1, <3>2
  <2>2. CASE ~(q <= l - n)
    <3>1. q = m /\ m = l - n + 1
      BY <1>2, <1>7, <2>2
    <3> QED
      BY <1>5, <3>1
  <2> QED
    BY <2>1, <2>2
<1>10. RememberedAs(i, p - n)'
  BY <1>6, <1>8, <1>9
<1> QED
  BY <1>7, <1>10 DEF m

LEMMA NewIsRemembered ==
    ASSUME HistoryKept, NEW K, CacheKept(mints, K), NEW t, NEW d, Evaluated(t, d), d \notin Repeats,
           ~Duplicate(mints, t.mint), NEW n, Checks(mints, mints', t.mint, n)
    PROVE  \A i \in {Len(history) + 1} : \E p \in 1..Len(mints'.order) : RememberedAs(i, p)'
<1> DEFINE l == Len(history)
           m == Len(mints'.order)
<1>1. l \in Nat /\ Len(history') = l + 1 /\ history'[l + 1] = [token |-> t, at |-> now, decision |-> d]
  BY HistoryRead DEF Evaluated
<1>2. m = Len(mints.order) - n + 1 /\ n \in 0..Len(mints.order) /\ Len(mints.order) \in Nat
      /\ mints'.order[m] = [key |-> t.mint, at |-> now]
  BY DEF Checks, CacheKept
<1>3. PICK p \in 1..m : p = m
  <2>1. m \in 1..m
    BY <1>2
  <2> QED
    BY <2>1
<1>4. \A i \in {l + 1} : NewMints(i, Len(history))' =
        {history'[k].token.mint : k \in {k \in i..Len(history') : history'[k].decision \notin Repeats}}
  BY DEF NewMints, Judged
<1>5. \A i \in {l + 1} : t.mint \in NewMints(i, Len(history))'
  <2>1. \A i \in {l + 1} : l + 1 \in i..Len(history')
    BY <1>1
  <2> QED
    BY <1>1, <1>4, <2>1
<1>6. \A i \in {l + 1} : RememberedAs(i, p)'
  <2> SUFFICES ASSUME NEW i \in {l + 1} PROVE RememberedAs(i, p)'
    OBVIOUS
  <2>1. RememberedAs(i, p)' <=>
            /\ mints'.order[p] = [key |-> history'[i].token.mint, at |-> history'[i].at]
            /\ \A q \in p..m : mints'.order[q].key \in NewMints(i, Len(history))'
    BY DEF RememberedAs
  <2>2. \A q \in p..m : q = p
    BY <1>2, <1>3
  <2> HIDE DEF m, l
  <2>3. mints'.order[p] = [key |-> history'[i].token.mint, at |-> history'[i].at]
    BY <1>1, <1>2, <1>3
  <2>4. mints'.order[p].key = t.mint
    BY <1>2, <1>3
  <2> QED
    BY <1>5, <2>1, <2>2, <2>3, <2>4 DEF l
<1> QED
  BY <1>6

\* What an evaluation does to the cache of mints.
MintsChecked(t, d) ==
    /\ d = "F0_sig" => mints' = mints
    /\ d # "F0_sig" => mints' = CheckAndInsert(mints, t.mint)
    /\ d = "F0_mint" => Duplicate(mints, t.mint)
    /\ d \notin Repeats => ~Duplicate(mints, t.mint)

LEMMA RememberedKept ==
    ASSUME HistoryKept, NEW K, CacheKept(mints, K), Remembered, NEW t, NEW d \in Outcomes,
           Evaluated(t, d), now' = now, t.mint \in K, MintsChecked(t, d)
    PROVE  Remembered'
<1> DEFINE l == Len(history)
<1>1. l \in Nat /\ Len(history') = l + 1 /\ history'[l + 1] = [token |-> t, at |-> now, decision |-> d]
  BY HistoryRead DEF Evaluated
<1>2. \A i \in 1..l : Judged(i)' = Judged(i)
  BY NewMintsGrow
<1>3. ASSUME NEW i \in 1..l, Judged(i) \notin Repeats
      PROVE  Forgotten(i)' \/ \E p \in 1..Len(mints'.order) : RememberedAs(i, p)'
  <2>1. CASE Forgotten(i)
    BY <2>1, StaysForgotten
  <2>2. CASE \E p \in 1..Len(mints.order) : RememberedAs(i, p)
    <3>1. PICK p \in 1..Len(mints.order) : RememberedAs(i, p)
      BY <2>2
    <3>2. CASE d = "F0_sig"
      <4>1. mints' = mints /\ history'[i] = history[i]
        BY <3>2 DEF MintsChecked, Evaluated
      <4>2. NewMints(i, Len(history)) \subseteq NewMints(i, Len(history))'
        BY NewMintsStay
      <4>3. RememberedAs(i, p)' <=>
              /\ mints'.order[p] = [key |-> history'[i].token.mint, at |-> history'[i].at]
              /\ \A q \in p..Len(mints'.order) : mints'.order[q].key \in NewMints(i, Len(history))'
        BY DEF RememberedAs
      <4>4. RememberedAs(i, p)'
        BY <3>1, <4>1, <4>2, <4>3 DEF RememberedAs
      <4> QED
        BY <4>1, <4>4
    <3>3. CASE d # "F0_sig"
      <4>1. /\ mints' = CheckAndInsert(mints, t.mint)
            /\ d \in Repeats => Duplicate(mints, t.mint)
        BY <3>3 DEF MintsChecked, Repeats
      <4>2. PICK n \in 0..Len(mints.order) : Checks(mints, mints', t.mint, n)
        BY <4>1, HistoryRead, Checked
      <4>3. CASE p <= n
        BY <3>1, <4>1, <4>2, <4>3, DroppedIsForgotten
      <4>4. CASE p > n
        BY <3>1, <4>1, <4>2, <4>4, KeptIsRemembered
      <4>5. p \in Int /\ n \in Int
        OBVIOUS
      <4> QED
        BY <4>3, <4>4, <4>5
    <3> QED
      BY <3>2, <3>3
  <2> QED
    BY <1>3, <2>1, <2>2 DEF Remembered
<1>4. ASSUME d \notin Repeats
      PROVE  \A i \in {l + 1} : \E p \in 1..Len(mints'.order) : RememberedAs(i, p)'
  <2>1. d # "F0_sig" /\ ~Duplicate(mints, t.mint)
    BY <1>4 DEF MintsChecked, Repeats
  <2>2. PICK n \in 0..Len(mints.order) : Checks(mints, mints', t.mint, n)
    BY <2>1, HistoryRead, Checked DEF MintsChecked
  <2> QED
    BY <1>4, <2>1, <2>2, NewIsRemembered
<1>5. \A i \in {l + 1} : Judged(i)' = d
  BY <1>1 DEF Judged
<1>6. \A i \in 1..(l + 1) : i \in 1..l \/ i \in {l + 1}
  BY <1>1
<1>7. \A i \in 1..(l + 1) : Judged(i)' \notin Repeats =>
        Forgotten(i)' \/ \E p \in 1..Len(mints'.order) : RememberedAs(i, p)'
  <2> HIDE DEF l
  <2> QED
    BY <1>2, <1>3, <1>4, <1>5, <1>6
<1> QED
  BY <1>1, <1>7 DEF Remembered

\* The last evaluation is a repeat if it ought to be.
LEMMA RepeatIsSeen ==
    ASSUME HistoryKept, NEW K, CacheKept(mints, K), Remembered, NEW t, NEW d,
           Evaluated(t, d), d \notin Repeats, MintsChecked(t, d),
           NEW i \in 1..Len(history), Judged(i) \notin Repeats, history[i].token.mint = t.mint,
           now - history[i].at <= Ttl
    PROVE  Cardinality(NewMints(i, Len(history))) > MaxSeen
<1>1. now \in Nat /\ history[i].at \in Nat /\ Ttl \in Nat
  BY HistoryRead, FilterAssumption DEF FilterAssumption
<1>2. ASSUME NEW p \in 1..Len(mints.order), RememberedAs(i, p) PROVE FALSE
  <2>1. mints.order[p].key = t.mint /\ now - mints.order[p].at <= Ttl
    BY <1>2 DEF RememberedAs
  <2>2. Duplicate(mints, t.mint)
    BY <1>1, <2>1, StillKnown
  <2> QED
    BY <2>2 DEF MintsChecked
<1>3. Forgotten(i)
  BY <1>2 DEF Remembered
<1> QED
  BY <1>1, <1>3 DEF Forgotten

LEMMA RepeatsStayRefused ==
    ASSUME HistoryKept, NEW K, CacheKept(mints, K), Remembered, RepeatsAreRefused, NEW t, NEW d,
           Evaluated(t, d), MintsChecked(t, d)
    PROVE  RepeatsAreRefused'
<1> DEFINE l == Len(history)
<1>1. l \in Nat /\ Len(history') = l + 1
      /\ history'[l + 1] = [token |-> t, at |-> now, decision |-> d]
      /\ \A i \in 1..l : history'[i] = history[i]
  BY HistoryRead DEF Evaluated
<1>2. /\ \A i \in 1..l : Judged(i)' = Judged(i)
      /\ \A i \in {l + 1} : Judged(i)' = d
      /\ \A i, j \in 1..l : NewMints(i, j)' = NewMints(i, j)
      /\ \A i \in 1..l : \A j \in {l + 1} : NewMints(i, Len(history)) \subseteq NewMints(i, j)'
  BY <1>1, NewMintsGrow DEF Judged
<1>3. SUFFICES ASSUME NEW i \in 1..(l + 1), NEW j \in 1..(l + 1), i < j, Judged(i)' \notin Repeats,
                      history'[i].token.mint = history'[j].token.mint,
                      history'[j].at - history'[i].at <= Ttl,
                      Cardinality(NewMints(i, j)') <= MaxSeen
               PROVE  Judged(j)' \in Repeats
  BY <1>1 DEF RepeatsAreRefused
<1>4. i \in 1..l
  BY <1>1, <1>3
<1>5. CASE j \in 1..l
  BY <1>1, <1>2, <1>3, <1>4, <1>5 DEF RepeatsAreRefused
<1>6. CASE j = l + 1
  <2> SUFFICES ASSUME d \notin Repeats PROVE FALSE
    BY <1>2, <1>6
  <2>1. Judged(i) \notin Repeats /\ history[i].token.mint = t.mint /\ now - history[i].at <= Ttl
    BY <1>1, <1>2, <1>3, <1>4, <1>6
  <2>2. Cardinality(NewMints(i, Len(history))) > MaxSeen
    BY <1>4, <2>1, RepeatIsSeen
  <2>3. NewMints(i, j)' = NewMints(i, Len(history))'
    BY <1>1, <1>4, <1>6, NewMintsGrow
  <2>4. /\ Cardinality(NewMints(i, Len(history))) \in Nat
        /\ Cardinality(NewMints(i, Len(history))') \in Nat
        /\ Cardinality(NewMints(i, Len(history))) <= Cardinality(NewMints(i, Len(history))')
    BY <1>4, NewMintsStay
  <2>5. MaxSeen \in Nat
    BY FilterAssumption DEF FilterAssumption
  <2> QED
    BY <1>3, <2>2, <2>3, <2>4, <2>5
<1> QED
  BY <1>1, <1>5, <1>6

-----------------------------------------------------------------------------
(* The rate limit.  What a creator's queue holds are the times of attempts *)
(* of that creator, each of one of them, and every attempt within the      *)
(* window is among them.                                                   *)

CreatorAttempts(c) ==
    {i \in 1..Len(history) : history[i].token.user = c /\ Judged(i) \notin BeforeRate}

Recent(c) == {i \in CreatorAttempts(c) : now - history[i].at < Window}

TrackedBy(c, times, f) ==
    /\ f \in Injection(1..Len(times), CreatorAttempts(c))
    /\ \A p \in 1..Len(times) : history[f[p]].at = times[p]
    /\ \A i \in Recent(c) : \E p \in 1..Len(times) : f[p] = i

Tracked(c, times) ==
    /\ times \in Seq(Nat)
    /\ \A p, q \in 1..Len(times) : p <= q => times[p] <= times[q]
    /\ \A p \in 1..Len(times) : times[p] <= now
    /\ \E f : TrackedBy(c, times, f)

CreatesKept == \A c : Tracked(c, Known(c))

LEMMA WindowIsABack ==
    ASSUME NEW times \in Seq(Nat), now \in Nat,
           \A p, q \in 1..Len(times) : p <= q => times[p] <= times[q]
    PROVE  \E n \in 0..Len(times) :
               /\ InWindow(times) \in Seq(Nat)
               /\ Len(InWindow(times)) = Len(times) - n
               /\ \A p \in 1..(Len(times) - n) : InWindow(times)[p] = times[p + n]
               /\ \A p \in 1..n : times[p] < now - Window
               /\ \A p \in (n + 1)..Len(times) : times[p] >= now - Window
<1> DEFINE l == Len(times)
           n == FrontRun(Outside(times), l)
<1>1. l \in Nat /\ Window \in Nat /\ now \in Nat
  BY FilterAssumption DEF FilterAssumption
<1>2. \A p \in 1..l : times[p] \in Nat
  BY ElementOfSeq
<1>3. Outside(times) = {p \in 1..l : times[p] < now - Window}
  BY DEF Outside
<1>4. n \in 0..l /\ 1..n \subseteq Outside(times) /\ n + 1 \notin Outside(times)
  BY <1>1, <1>3, FrontRunStops
<1>5. InWindow(times) = SubSeq(times, n + 1, l)
  BY DEF InWindow
<1> HIDE DEF n
<1>6. /\ SubSeq(times, n + 1, l) \in Seq(Nat)
      /\ Len(SubSeq(times, n + 1, l)) = IF n + 1 <= l THEN l - (n + 1) + 1 ELSE 0
      /\ \A p \in 1..(l - (n + 1) + 1) : SubSeq(times, n + 1, l)[p] = times[n + 1 + p - 1]
  <2>1. \A p \in (n + 1)..l : times[p] \in Nat
    BY <1>1, <1>2, <1>4
  <2> QED
    BY <1>1, <1>4, <2>1, SubSeqProperties
<1> HIDE DEF l
<1>7. Len(SubSeq(times, n + 1, l)) = l - n
  BY <1>1, <1>4, <1>6
<1>8. \A p \in 1..(l - n) : SubSeq(times, n + 1, l)[p] = times[p + n]
  <2>1. \A p \in 1..(l - n) : n + 1 + p - 1 = p + n /\ p \in 1..(l - (n + 1) + 1)
    BY <1>1, <1>4
  <2> QED
    BY <1>6, <2>1
<1>9. \A p \in 1..n : times[p] < now - Window
  BY <1>3, <1>4
<1>10. ASSUME NEW p \in (n + 1)..l PROVE times[p] >= now - Window
  <2>1. n + 1 \in 1..l /\ p \in 1..l /\ n + 1 <= p
    BY <1>1, <1>4
  <2>2. ~(times[n + 1] < now - Window)
    BY <1>3, <1>4, <2>1
  <2>3. times[n + 1] <= times[p]
    BY <2>1 DEF l
  <2> QED
    BY <1>1, <1>2, <2>1, <2>2, <2>3
<1> QED
  BY <1>4, <1>5, <1>6, <1>7, <1>8, <1>9, <1>10 DEF l

LEMMA AttemptsAreFinite ==
    ASSUME HistoryKept, NEW c
    PROVE  /\ IsFiniteSet(CreatorAttempts(c))
           /\ \A i \in CreatorAttempts(c) :
                i \in 1..Len(history) /\ history[i].at \in Nat /\ history[i].at <= now
<1>1. IsFiniteSet(1..Len(history)) /\ CreatorAttempts(c) \subseteq 1..Len(history)
  BY HistoryRead, FS_Interval DEF CreatorAttempts
<1> QED
  BY <1>1, HistoryRead, FS_Subset

\* A creator is not limited too soon: as many attempts as fill its queue are
\* in the window.
LEMMA LimitIsEarned ==
    ASSUME HistoryKept, NEW c, CreatesKept, RateLimited(c)
    PROVE  Cardinality({i \in CreatorAttempts(c) : now - history[i].at <= Window}) >= MaxCreates
<1> DEFINE s == Known(c)
           l == Len(s)
           E == {i \in CreatorAttempts(c) : now - history[i].at <= Window}
<1>1. /\ s \in Seq(Nat) /\ now \in Nat
      /\ \A p, q \in 1..l : p <= q => s[p] <= s[q]
      /\ \A p \in 1..l : s[p] <= now
  BY HistoryRead DEF CreatesKept, Tracked
<1>2. PICK f : TrackedBy(c, s, f)
  BY DEF CreatesKept, Tracked
<1>3. /\ f \in [1..l -> CreatorAttempts(c)]
      /\ \A p, q \in 1..l : f[p] = f[q] => p = q
      /\ \A p \in 1..l : history[f[p]].at = s[p]
  BY <1>2 DEF TrackedBy, Injection, IsInjective
<1>4. l \in Nat /\ Window \in Nat /\ MaxCreates \in Nat /\ \A p \in 1..l : s[p] \in Nat
  BY <1>1, ElementOfSeq, FilterAssumption DEF FilterAssumption
<1>5. PICK n \in 0..l : /\ Len(InWindow(s)) = l - n
                        /\ \A p \in (n + 1)..l : s[p] >= now - Window
  BY <1>1, WindowIsABack
<1>6. l - n >= MaxCreates /\ n \in 0..l
  BY <1>5 DEF RateLimited
<1> HIDE DEF s, l
<1> DEFINE g == [p \in (n + 1)..l |-> f[p]]
<1>7. \A p \in (n + 1)..l : p \in 1..l
  BY <1>4
<1>8. \A p \in (n + 1)..l : f[p] \in E
  <2> TAKE p \in (n + 1)..l
  <2>1. s[p] >= now - Window /\ history[f[p]].at = s[p] /\ s[p] \in Nat /\ f[p] \in CreatorAttempts(c)
    BY <1>3, <1>4, <1>5, <1>7
  <2>2. now - history[f[p]].at <= Window
    BY <1>1, <1>4, <2>1
  <2> QED
    BY <2>1, <2>2
<1>9. g \in Injection((n + 1)..l, E)
  BY <1>3, <1>7, <1>8 DEF Injection, IsInjective
<1>10. IsFiniteSet(E)
  BY AttemptsAreFinite, FS_Subset
<1>11. Cardinality((n + 1)..l) <= Cardinality(E) /\ Cardinality(E) \in Nat
  BY <1>9, <1>10, FS_Injection, FS_CardinalityType
<1>12. Cardinality((n + 1)..l) = l - n
  <2>1. n + 1 \in Int /\ l \in Int /\ n <= l
    BY <1>4, <1>6
  <2>2. /\ IsFiniteSet((n + 1)..l)
        /\ Cardinality((n + 1)..l) = IF n + 1 > l THEN 0 ELSE l - (n + 1) + 1
    BY <2>1, FS_Interval
  <2> QED
    BY <2>1, <2>2
<1> HIDE DEF E
<1>13. Cardinality(E) >= MaxCreates
  BY <1>4, <1>6, <1>11, <1>12
<1> QED
  BY <1>13 DEF E

\* Nor too late: a queue with a place free leaves out none of the window.
LEMMA LimitIsKept ==
    ASSUME HistoryKept, NEW c, CreatesKept, ~RateLimited(c)
    PROVE  Cardinality(Recent(c)) < MaxCreates
<1> DEFINE s == Known(c)
           l == Len(s)
           E == Recent(c)
<1>1. /\ s \in Seq(Nat) /\ now \in Nat
      /\ \A p, q \in 1..l : p <= q => s[p] <= s[q]
  BY HistoryRead DEF CreatesKept, Tracked
<1>2. PICK f : TrackedBy(c, s, f)
  BY DEF CreatesKept, Tracked
<1>3. /\ \A p \in 1..l : history[f[p]].at = s[p]
      /\ \A i \in E : \E p \in 1..l : f[p] = i
  BY <1>2 DEF TrackedBy
<1>4. l \in Nat /\ Window \in Nat /\ MaxCreates \in Nat /\ \A p \in 1..l : s[p] \in Nat
  BY <1>1, ElementOfSeq, FilterAssumption DEF FilterAssumption
<1>5. PICK n \in 0..l : /\ Len(InWindow(s)) = l - n
                        /\ \A p \in 1..n : s[p] < now - Window
  BY <1>1, WindowIsABack
<1>6. l - n < MaxCreates /\ n \in 0..l
  BY <1>4, <1>5 DEF RateLimited
<1> HIDE DEF s, l
<1> DEFINE place(i) == CHOOSE p \in 1..l : f[p] = i
           g == [i \in E |-> place(i)]
<1>7. ASSUME NEW i \in E PROVE place(i) \in (n + 1)..l /\ f[place(i)] = i
  <2>1. place(i) \in 1..l /\ f[place(i)] = i
    BY <1>3
  <2> HIDE DEF place
  <2>2. now - history[i].at < Window
    BY DEF Recent
  <2>3. s[place(i)] = history[i].at /\ s[place(i)] \in Nat
    BY <1>3, <1>4, <2>1
  <2>4. place(i) \notin 1..n
    BY <1>1, <1>4, <1>5, <2>2, <2>3
  <2> QED
    BY <1>4, <2>1, <2>4
<1> HIDE DEF place
<1>8. g \in Injection(E, (n + 1)..l)
  BY <1>7 DEF Injection, IsInjective
<1>9. IsFiniteSet((n + 1)..l) /\ Cardinality((n + 1)..l) = l - n
  <2>1. n + 1 \in Int /\ l \in Int /\ n <= l
    BY <1>4, <1>6
  <2>2. /\ IsFiniteSet((n + 1)..l)
        /\ Cardinality((n + 1)..l) = IF n + 1 > l THEN 0 ELSE l - (n + 1) + 1
    BY <2>1, FS_Interval
  <2> QED
    BY <2>1, <2>2
<1>10. IsFiniteSet(E) /\ Cardinality(E) <= l - n /\ Cardinality(E) \in Nat
  BY <1>8, <1>9, FS_Injection, FS_CardinalityType
<1> QED
  BY <1>4, <1>6, <1>10

LEMMA AttemptsGrow ==
    ASSUME HistoryKept, NEW t, NEW d, Evaluated(t, d), NEW c
    PROVE  /\ CreatorAttempts(c)' =
                CreatorAttempts(c) \cup
                (IF t.user = c /\ d \notin BeforeRate THEN {Len(history) + 1} ELSE {})
           /\ \A i \in CreatorAttempts(c) : history'[i] = history[i] /\ i # Len(history) + 1
<1> DEFINE l == Len(history)
<1>1. l \in Nat /\ Len(history') = l + 1
      /\ history'[l + 1] = [token |-> t, at |-> now, decision |-> d]
      /\ \A i \in 1..l : history'[i] = history[i]
  BY HistoryRead DEF Evaluated
<1>2. CreatorAttempts(c) =
        {i \in 1..l : history[i].token.user = c /\ history[i].decision \notin BeforeRate}
  BY DEF CreatorAttempts, Judged
<1>3. CreatorAttempts(c)' =
        {i \in 1..(l + 1) : history'[i].token.user = c /\ history'[i].decision \notin BeforeRate}
  BY <1>1 DEF CreatorAttempts, Judged
<1> HIDE DEF l
<1>4. \A i \in 1..(l + 1) : i \in 1..l \/ i = l + 1
  BY <1>1
<1>5. l + 1 \in 1..(l + 1) /\ \A i \in 1..l : i \in 1..(l + 1) /\ i # l + 1
  BY <1>1
<1>6. history'[l + 1].token.user = t.user /\ history'[l + 1].decision = d
  BY <1>1
<1>7. CreatorAttempts(c)' =
        CreatorAttempts(c) \cup (IF t.user = c /\ d \notin BeforeRate THEN {l + 1} ELSE {})
  BY <1>1, <1>2, <1>3, <1>4, <1>5, <1>6
<1> QED
  BY <1>1, <1>2, <1>5, <1>7 DEF l

\* An evaluation that is none of this creator's attempts, or a window in
\* which nothing is recent, leaves the times as good as they were.
LEMMA StaysTracked ==
    ASSUME HistoryKept, NEW t, NEW d, Evaluated(t, d), now' = now, NEW c, NEW s, Tracked(c, s),
           Window = 0 \/ t.user # c \/ d \in BeforeRate
    PROVE  Tracked(c, s)'
<1>1. PICK f : TrackedBy(c, s, f)
  BY DEF Tracked
<1>2. /\ CreatorAttempts(c)' =
            CreatorAttempts(c) \cup
            (IF t.user = c /\ d \notin BeforeRate THEN {Len(history) + 1} ELSE {})
      /\ \A i \in CreatorAttempts(c) : history'[i] = history[i]
  BY AttemptsGrow
<1>3. f \in Injection(1..Len(s), CreatorAttempts(c)')
  BY <1>1, <1>2 DEF TrackedBy, Injection, IsInjective
<1>4. \A p \in 1..Len(s) : history'[f[p]].at = s[p]
  BY <1>1, <1>2 DEF TrackedBy, Injection
<1>5. ASSUME NEW i \in CreatorAttempts(c)', now' - history'[i].at < Window
      PROVE  \E p \in 1..Len(s) : f[p] = i
  <2>1. CASE i \in CreatorAttempts(c)
    BY <1>1, <1>2, <1>5, <2>1 DEF TrackedBy, Recent
  <2>2. CASE i \notin CreatorAttempts(c)
    <3>1. Window = 0 /\ i = Len(history) + 1
      BY <1>2, <2>2
    <3>2. history'[i].at = now /\ now \in Nat
      BY <3>1, HistoryRead DEF Evaluated
    <3> QED
      BY <1>5, <3>1, <3>2
  <2> QED
    BY <2>1, <2>2
<1>6. TrackedBy(c, s, f)'
  <2>1. \A i \in Recent(c)' : i \in CreatorAttempts(c)' /\ now' - history'[i].at < Window
    BY DEF Recent
  <2>2. \A i \in Recent(c)' : \E p \in 1..Len(s) : f[p] = i
    BY <1>5, <2>1
  <2> QED
    BY <1>3, <1>4, <2>2 DEF TrackedBy
<1> QED
  BY <1>6 DEF Tracked

\* An attempt: the queue loses what is out of the window and gets the time.
LEMMA AttemptTracked ==
    ASSUME HistoryKept, NEW t, NEW d, Evaluated(t, d), now' = now, d \notin BeforeRate,
           NEW s, Tracked(t.user, s), NEW new, new = Append(InWindow(s), now)
    PROVE  Tracked(t.user, new)' /\ Len(new) \in Nat \ {0} /\ Last(new) = now
<1> DEFINE l == Len(s)
           c == t.user
           h == Len(history) + 1
<1>1. /\ s \in Seq(Nat) /\ now \in Nat /\ l \in Nat /\ Window \in Nat
      /\ \A p, q \in 1..l : p <= q => s[p] <= s[q]
      /\ \A p \in 1..l : s[p] <= now
  BY HistoryRead, FilterAssumption DEF Tracked, FilterAssumption
<1>2. PICK f : TrackedBy(c, s, f)
  BY DEF Tracked
<1>3. /\ f \in [1..l -> CreatorAttempts(c)]
      /\ \A p, q \in 1..l : f[p] = f[q] => p = q
      /\ \A p \in 1..l : history[f[p]].at = s[p]
      /\ \A i \in Recent(c) : \E p \in 1..l : f[p] = i
  BY <1>2 DEF TrackedBy, Injection, IsInjective
<1>4. PICK n \in 0..l :
        /\ InWindow(s) \in Seq(Nat)
        /\ Len(InWindow(s)) = l - n
        /\ \A p \in 1..(l - n) : InWindow(s)[p] = s[p + n]
        /\ \A p \in 1..n : s[p] < now - Window
  BY <1>1, WindowIsABack
<1> DEFINE k == l - n
<1>5. /\ new \in Seq(Nat) /\ Len(new) = k + 1 /\ new[k + 1] = now
      /\ \A p \in 1..k : new[p] = s[p + n]
  BY <1>1, <1>4, AppendProperties
<1>6. n \in Nat /\ k \in Nat /\ n + k = l
  BY <1>1, <1>4
<1>7. \A p \in 1..l : s[p] \in Nat
  BY <1>1, ElementOfSeq
<1>8. /\ CreatorAttempts(c)' = CreatorAttempts(c) \cup {h}
      /\ \A i \in CreatorAttempts(c) : history'[i] = history[i] /\ i # h
      /\ history'[h].at = now
  BY AttemptsGrow DEF Evaluated
<1> HIDE DEF l, k, c, h
<1>9. \A p \in 1..(k + 1) : p \in 1..k \/ p = k + 1
  BY <1>6
<1>10. \A p \in 1..k : p + n \in 1..l /\ p # k + 1
  BY <1>6
<1>11. \A p, q \in 1..(k + 1) : p <= q => new[p] <= new[q]
  <2> TAKE p, q \in 1..(k + 1)
  <2>1. CASE q \in 1..k
    <3>1. p <= q => p \in 1..k /\ p + n <= q + n
      BY <1>6, <2>1
    <3> QED
      BY <1>1, <1>5, <1>10, <2>1, <3>1
  <2>2. CASE q = k + 1
    <3>1. new[p] <= now
      <4>1. now <= now
        BY <1>1
      <4> QED
        BY <1>1, <1>5, <1>9, <1>10, <4>1
    <3> QED
      BY <1>5, <2>2, <3>1
  <2> QED
    BY <1>9, <2>1, <2>2
<1>12. \A p \in 1..(k + 1) : new[p] <= now
  <2>1. now <= now
    BY <1>1
  <2> QED
    BY <1>1, <1>5, <1>9, <1>10, <2>1
<1> DEFINE g == [p \in 1..(k + 1) |-> IF p \in 1..k THEN f[p + n] ELSE h]
<1>13. k + 1 \in 1..(k + 1) /\ \A p \in 1..k : p \in 1..(k + 1)
  BY <1>6
<1>14. /\ \A p \in 1..k : g[p] = f[p + n] /\ g[p] \in CreatorAttempts(c) /\ g[p] # h
       /\ g[k + 1] = h
  BY <1>3, <1>8, <1>10, <1>13
<1>15. g \in Injection(1..(k + 1), CreatorAttempts(c)')
  <2>1. g \in [1..(k + 1) -> CreatorAttempts(c)']
    BY <1>8, <1>9, <1>14
  <2>2. ASSUME NEW p \in 1..(k + 1), NEW q \in 1..(k + 1), g[p] = g[q] PROVE p = q
    <3>1. CASE p \in 1..k /\ q \in 1..k
      <4>1. p + n = q + n
        BY <1>3, <1>10, <1>14, <2>2, <3>1
      <4> QED
        BY <1>6, <3>1, <4>1
    <3>2. CASE p = k + 1 \/ q = k + 1
      BY <1>9, <1>14, <2>2, <3>2
    <3> QED
      BY <1>9, <3>1, <3>2
  <2> HIDE DEF g
  <2>3. DOMAIN g = 1..(k + 1)
    BY <2>1
  <2> QED
    BY <2>1, <2>2, <2>3 DEF Injection, IsInjective
<1> HIDE DEF g
<1>16. \A p \in 1..(k + 1) : history'[g[p]].at = new[p]
  <2>1. ASSUME NEW p \in 1..k PROVE history'[g[p]].at = new[p]
    <3>1. p + n \in 1..l /\ g[p] = f[p + n] /\ f[p + n] \in CreatorAttempts(c) /\ new[p] = s[p + n]
      BY <1>5, <1>10, <1>14
    <3>2. history[f[p + n]].at = s[p + n]
      BY <1>3, <3>1
    <3> QED
      BY <1>8, <3>1, <3>2
  <2>2. history'[g[k + 1]].at = new[k + 1]
    BY <1>5, <1>8, <1>14
  <2> QED
    BY <1>9, <2>1, <2>2
<1>17. ASSUME NEW i \in Recent(c)' PROVE \E p \in 1..(k + 1) : g[p] = i
  <2>1. i \in CreatorAttempts(c)' /\ now - history'[i].at < Window
    BY DEF Recent
  <2>2. CASE i = h
    BY <1>13, <1>14, <2>2
  <2>3. CASE i \in CreatorAttempts(c)
    <3>1. i \in Recent(c)
      BY <1>8, <2>1, <2>3 DEF Recent
    <3>2. PICK p \in 1..l : f[p] = i
      BY <1>3, <3>1
    <3>3. s[p] = history[i].at /\ s[p] \in Nat
      BY <1>3, <1>7, <3>2
    <3>4. p \notin 1..n
      BY <1>1, <1>4, <1>8, <2>1, <2>3, <3>3
    <3>5. p - n \in 1..k /\ (p - n) + n = p
      BY <1>1, <1>6, <3>4
    <3> QED
      BY <1>13, <1>14, <3>2, <3>5
  <2> QED
    BY <1>8, <2>1, <2>2, <2>3
<1>18. PICK places : places = g
  OBVIOUS
<1>19. TrackedBy(c, new, places)'
  BY <1>5, <1>15, <1>16, <1>17, <1>18 DEF TrackedBy, c
<1>20. Tracked(c, new)'
  BY <1>5, <1>11, <1>12, <1>19 DEF Tracked, c
<1> QED
  BY <1>5, <1>6, <1>20 DEF c, Last

LEMMA NothingTracked ==
    ASSUME NEW c, Recent(c) = {}
    PROVE  Tracked(c, <<>>)
<1>1. /\ <<>> \in Seq(Nat) /\ Len(<<>>) = 0
      /\ \A p \in 1..0 : FALSE
  OBVIOUS
<1> DEFINE f == [p \in 1..0 |-> 0]
<1>2. f \in Injection(1..0, CreatorAttempts(c))
  BY <1>1 DEF Injection, IsInjective
<1>3. TrackedBy(c, <<>>, f)
  BY <1>1, <1>2 DEF TrackedBy
<1> HIDE DEF f
<1> QED
  BY <1>1, <1>3 DEF Tracked

\* The cleanup drops a creator only when none of its attempts is recent.
LEMMA OldHasNoRecent ==
    ASSUME HistoryKept, NEW c, NEW s, Tracked(c, s), ~(now - Last(s) < Window)
    PROVE  Recent(c) = {}
<1> SUFFICES ASSUME NEW i \in Recent(c) PROVE FALSE
  OBVIOUS
<1> DEFINE l == Len(s)
<1>1. PICK f : TrackedBy(c, s, f)
  BY DEF Tracked
<1>2. PICK p \in 1..l : f[p] = i
  BY <1>1 DEF TrackedBy
<1>3. s[p] = history[i].at /\ now - history[i].at < Window
  BY <1>1, <1>2 DEF TrackedBy, Recent
<1>4. l \in Nat /\ l \in 1..l /\ p <= l
  BY <1>2 DEF Tracked
<1>5. s[p] <= s[l] /\ s[p] \in Nat /\ s[l] \in Nat
  BY <1>2, <1>4, ElementOfSeq DEF Tracked
<1>6. now \in Nat /\ Window \in Nat
  BY HistoryRead, FilterAssumption DEF FilterAssumption
<1> QED
  BY <1>3, <1>5, <1>6 DEF Last

LEMMA NoWindowNoRecent ==
    ASSUME HistoryKept, NEW c, Window = 0
    PROVE  Recent(c) = {}
<1> SUFFICES ASSUME NEW i \in Recent(c) PROVE FALSE
  OBVIOUS
<1>1. now - history[i].at < 0 /\ i \in CreatorAttempts(c)
  BY DEF Recent
<1>2. history[i].at \in Nat /\ history[i].at <= now /\ now \in Nat
  BY <1>1, AttemptsAreFinite, HistoryRead
<1> QED
  BY <1>1, <1>2

LEMMA CreatesStay ==
    ASSUME HistoryKept, NEW t, NEW d, Evaluated(t, d), now' = now, CreatesKept,
           d \in BeforeRate, creates' = creates
    PROVE  CreatesKept'
<1> SUFFICES ASSUME NEW c PROVE Tracked(c, Known(c))'
  BY DEF CreatesKept
<1>1. PICK s : s = Known(c)
  OBVIOUS
<1>2. Known(c)' = s
  BY <1>1 DEF Known
<1>3. Tracked(c, s)'
  BY <1>1, StaysTracked DEF CreatesKept
<1> QED
  BY <1>2, <1>3 DEF Tracked, TrackedBy

LEMMA CreatesCounted ==
    ASSUME HistoryKept, NEW t, NEW d, Evaluated(t, d), now' = now, CreatesKept,
           d \notin BeforeRate, creates' = Counted(t.user)
    PROVE  CreatesKept'
<1> DEFINE u == t.user
           D == DOMAIN creates \cup {u}
<1>1. PICK s : s = Known(u)
  OBVIOUS
<1>2. PICK new : new = Append(InWindow(s), now)
  OBVIOUS
<1>3. Tracked(u, new)' /\ Len(new) \in Nat \ {0} /\ Last(new) = now
  BY <1>1, <1>2, AttemptTracked DEF CreatesKept
<1> DEFINE all == [x \in D |-> IF x = u THEN new ELSE creates[x]]
           recent == {x \in D : now - Last(all[x]) < Window}
<1>4. creates' = all \/ creates' = [x \in recent |-> all[x]]
  BY <1>1, <1>2 DEF Counted
<1>5. /\ all[u] = new /\ u \in D
      /\ \A x \in DOMAIN creates : x \in D /\ (x # u => all[x] = creates[x])
  OBVIOUS
<1>6. \A x : x \in recent <=> x \in D /\ now - Last(all[x]) < Window
  OBVIOUS
<1>7. DOMAIN all = D /\ \A x : x \in D <=> x \in DOMAIN creates \/ x = u
  OBVIOUS
<1> HIDE DEF u, D, all, recent
<1>8. SUFFICES ASSUME NEW c PROVE Tracked(c, Known(c))'
  BY DEF CreatesKept
<1>9. SUFFICES \E x : Known(c)' = x /\ Tracked(c, x)'
  BY DEF Tracked, TrackedBy
<1>10. Known(c)' = IF c \in DOMAIN creates' THEN creates'[c] ELSE <<>>
  BY DEF Known
<1>11. ASSUME Recent(c) = {}, Window = 0 \/ t.user # c, Known(c)' = <<>>
       PROVE  \E x : Known(c)' = x /\ Tracked(c, x)'
  <2>1. Tracked(c, <<>>)
    BY <1>11, NothingTracked
  <2>2. Tracked(c, <<>>)'
    BY <1>11, <2>1, StaysTracked
  <2> QED
    BY <1>11, <2>2
<1>12. CASE c = u
  <2>1. CASE creates' = all \/ c \in recent
    <3>1. Known(c)' = new
      BY <1>4, <1>5, <1>6, <1>7, <1>10, <1>12, <2>1
    <3> QED
      BY <1>3, <1>12, <3>1
  <2>2. CASE creates' # all /\ c \notin recent
    <3>1. ~(now - now < Window)
      BY <1>3, <1>5, <1>6, <1>12, <2>2
    <3>2. Window = 0
      BY <3>1, HistoryRead, FilterAssumption DEF FilterAssumption
    <3>3. Known(c)' = <<>>
      BY <1>4, <1>10, <2>2
    <3> QED
      BY <1>11, <3>2, <3>3, NoWindowNoRecent
  <2> QED
    BY <2>1, <2>2
<1>13. CASE c # u
  <2>1. PICK q : q = Known(c)
    OBVIOUS
  <2>2. Tracked(c, q) /\ t.user # c
    BY <1>13, <2>1 DEF CreatesKept, u
  <2>3. Tracked(c, q)'
    BY <2>2, StaysTracked
  <2>4. CASE c \notin DOMAIN creates
    <3>1. q = <<>> /\ c \notin D
      BY <1>7, <1>13, <2>1, <2>4 DEF Known
    <3>2. Known(c)' = <<>>
      BY <1>4, <1>6, <1>7, <1>10, <3>1
    <3> QED
      BY <2>3, <3>1, <3>2
  <2>5. CASE c \in DOMAIN creates /\ (creates' = all \/ c \in recent)
    <3>1. Known(c)' = q
      BY <1>4, <1>5, <1>6, <1>7, <1>10, <1>13, <2>1, <2>5 DEF Known
    <3> QED
      BY <2>3, <3>1
  <2>6. CASE c \in DOMAIN creates /\ creates' # all /\ c \notin recent
    <3>1. ~(now - Last(q) < Window)
      BY <1>5, <1>6, <1>13, <2>1, <2>6 DEF Known
    <3>2. Recent(c) = {}
      BY <2>2, <3>1, OldHasNoRecent
    <3>3. Known(c)' = <<>>
      BY <1>4, <1>10, <2>6
    <3> QED
      BY <1>11, <2>2, <3>2, <3>3
  <2> QED
    BY <2>4, <2>5, <2>6
<1> QED
  BY <1>12, <1>13

\* RateIsKept, of one evaluation.
RateRight(j) ==
    LET earlier ==
            {i \in 1..(j - 1) :
                /\ history[i].token.user = history[j].token.user
                /\ history[i].decision \notin BeforeRate
                /\ history[j].at - history[i].at <= Window}
        inside == {i \in earlier : history[j].at - history[i].at < Window}
    IN  /\ history[j].decision = "F2" => Cardinality(earlier) >= MaxCreates
        /\ history[j].decision \notin BeforeRate \cup {"F2"} => Cardinality(inside) < MaxCreates

LEMMA RateIsRight == RateIsKept <=> \A j \in 1..Len(history) : RateRight(j)
BY DEF RateIsKept, RateRight, Attempts, Judged

LEMMA RateStaysKept ==
    ASSUME HistoryKept, NEW t \in FeedTokens, NEW d \in Outcomes, Evaluated(t, d),
           CreatesKept, RateIsKept,
           d = "F2" => RateLimited(t.user),
           d \notin BeforeRate \cup {"F2"} => ~RateLimited(t.user)
    PROVE  RateIsKept'
<1> DEFINE l == Len(history)
<1>1. l \in Nat /\ Len(history') = l + 1
      /\ history'[l + 1] = [token |-> t, at |-> now, decision |-> d]
      /\ \A i \in 1..l : history'[i] = history[i]
  BY HistoryRead DEF Evaluated
<1>2. (RateIsKept <=> \A j \in 1..Len(history) : RateRight(j))'
  BY RateIsRight, PTL
<1>3. SUFFICES ASSUME NEW j \in 1..(l + 1) PROVE RateRight(j)'
  BY <1>1, <1>2
<1>4. \A i \in 1..(j - 1) : i \in 1..l /\ history'[i] = history[i]
  BY <1>1
<1>5. CASE j \in 1..l
  <2>1. history'[j] = history[j]
    BY <1>1, <1>5
  <2>2. RateRight(j)
    BY <1>5, RateIsRight
  <2> DEFINE E == {i \in 1..(j - 1) :
                     /\ history[i].token.user = history[j].token.user
                     /\ history[i].decision \notin BeforeRate
                     /\ history[j].at - history[i].at <= Window}
             F == {i \in 1..(j - 1) :
                     /\ history'[i].token.user = history'[j].token.user
                     /\ history'[i].decision \notin BeforeRate
                     /\ history'[j].at - history'[i].at <= Window}
             EI == {i \in E : history[j].at - history[i].at < Window}
             FI == {i \in F : history'[j].at - history'[i].at < Window}
  <2>3. /\ history[j].decision = "F2" => Cardinality(E) >= MaxCreates
        /\ history[j].decision \notin BeforeRate \cup {"F2"} => Cardinality(EI) < MaxCreates
    BY <2>2 DEF RateRight
  <2>4. E = F
    BY <1>4, <2>1
  <2>5. EI = FI
    BY <1>4, <2>1, <2>4
  <2>6. RateRight(j)' <=>
          /\ history'[j].decision = "F2" => Cardinality(F) >= MaxCreates
          /\ history'[j].decision \notin BeforeRate \cup {"F2"} => Cardinality(FI) < MaxCreates
    BY DEF RateRight
  <2> HIDE DEF E, F, EI, FI
  <2> QED
    BY <2>1, <2>3, <2>4, <2>5, <2>6
<1>6. CASE j = l + 1
  <2> DEFINE u == t.user
             A == {i \in CreatorAttempts(u) : now - history[i].at <= Window}
             F == {i \in 1..(j - 1) :
                     /\ history'[i].token.user = history'[j].token.user
                     /\ history'[i].decision \notin BeforeRate
                     /\ history'[j].at - history'[i].at <= Window}
             FI == {i \in F : history'[j].at - history'[i].at < Window}
  <2>1. j - 1 = l /\ history'[j].token.user = u /\ history'[j].at = now /\ history'[j].decision = d
    BY <1>1, <1>6
  <2>2. CreatorAttempts(u) =
          {i \in 1..l : history[i].token.user = u /\ history[i].decision \notin BeforeRate}
    BY DEF CreatorAttempts, Judged
  <2>3. F = A
    <3> HIDE DEF u
    <3> QED
      BY <1>4, <2>1, <2>2
  <2>4. \A i \in CreatorAttempts(u) : history[i].at \in Nat /\ i \in 1..l /\ history'[i] = history[i]
    BY <1>1, AttemptsAreFinite
  <2>5. FI = Recent(u)
    <3>1. now \in Nat /\ Window \in Nat
      BY HistoryRead, FilterAssumption DEF FilterAssumption
    <3>2. FI = {i \in A : now - history[i].at < Window}
      BY <2>1, <2>3, <2>4
    <3>3. \A i \in CreatorAttempts(u) : now - history[i].at < Window => now - history[i].at <= Window
      BY <2>4, <3>1
    <3> HIDE DEF FI
    <3> QED
      BY <3>2, <3>3 DEF Recent
  <2>6. RateRight(j)' <=>
          /\ history'[j].decision = "F2" => Cardinality(F) >= MaxCreates
          /\ history'[j].decision \notin BeforeRate \cup {"F2"} => Cardinality(FI) < MaxCreates
    BY DEF RateRight
  <2>7. d = "F2" => Cardinality(A) >= MaxCreates
    BY LimitIsEarned
  <2>8. d \notin BeforeRate \cup {"F2"} => Cardinality(Recent(u)) < MaxCreates
    BY LimitIsKept
  <2> HIDE DEF A, F, FI, u
  <2> QED
    BY <2>1, <2>3, <2>5, <2>6, <2>7, <2>8
<1> QED
  BY <1>1, <1>5, <1>6

-----------------------------------------------------------------------------
(* The filter's invariant and its theorems.                                *)

Signatures == {t.signature : t \in FeedTokens}
FeedMints == {t.mint : t \in FeedTokens}

FilterWhole ==
    /\ HistoryKept
    /\ CacheKept(sigs, Signatures) /\ CacheKept(mints, FeedMints)
    /\ CountsAdd
    /\ Remembered /\ RepeatsAreRefused
    /\ CreatesKept /\ RateIsKept

LEMMA FilterStarts == FilterInit => FilterWhole
<1> SUFFICES ASSUME FilterInit PROVE FilterWhole
  OBVIOUS
<1>1. /\ now = 0 /\ sigs = Empty /\ mints = Empty /\ creates = [c \in {} |-> <<>>]
      /\ counts = [c \in Counters |-> 0] /\ history = <<>>
  BY DEF FilterInit
<1>2. Len(history) = 0 /\ \A i \in 1..Len(history) : FALSE
  BY <1>1
<1>3. HistoryKept
  BY <1>1, <1>2 DEF HistoryKept
<1>4. CacheKept(Empty, Signatures) /\ CacheKept(Empty, FeedMints)
  <2>1. /\ Empty.order = <<>> /\ Empty.entries = {} /\ Len(<<>>) = 0 /\ \A i \in 1..0 : FALSE
        /\ \A K : <<>> \in Seq([key : K, at : Nat])
    BY DEF Empty
  <2>2. MaxSeen \in Nat
    BY FilterAssumption DEF FilterAssumption
  <2> HIDE DEF Empty
  <2> QED
    BY <2>1, <2>2 DEF CacheKept
<1>5. CountsAdd
  <2>1. {"total_evaluated", "total_allowed", "total_denied"} \subseteq Counters
    BY DEF Counters
  <2> QED
    BY <1>1, <1>2, <2>1 DEF CountsAdd
<1>6. Remembered /\ RepeatsAreRefused /\ RateIsKept
  BY <1>2 DEF Remembered, RepeatsAreRefused, RateIsKept
<1>7. CreatesKept
  <2> SUFFICES ASSUME NEW c PROVE Tracked(c, Known(c))
    BY DEF CreatesKept
  <2>1. Recent(c) = {}
    BY <1>2 DEF Recent, CreatorAttempts
  <2>2. Known(c) = <<>>
    BY <1>1 DEF Known
  <2> QED
    BY <2>1, <2>2, NothingTracked
<1> QED
  BY <1>1, <1>3, <1>4, <1>5, <1>6, <1>7 DEF FilterWhole

LEMMA EvaluationKeeps ==
    ASSUME FilterWhole, NEW t \in FeedTokens, NEW late \in BOOLEAN, Evaluate(t, late)
    PROVE  FilterWhole'
<1>1. PICK d : d = Decision(t, late)
  OBVIOUS
<1>2. /\ sigs' = CheckAndInsert(sigs, t.signature)
      /\ mints' = IF d = "F0_sig" THEN mints ELSE CheckAndInsert(mints, t.mint)
      /\ creates' = IF d \in BeforeRate THEN creates ELSE Counted(t.user)
      /\ counts' = [c \in Counters |-> counts[c] + IF c \in Tallied(d) THEN 1 ELSE 0]
      /\ history' = Append(history, [token |-> t, at |-> now, decision |-> d])
      /\ now' = now
  BY <1>1 DEF Evaluate
<1>3. /\ d \in Outcomes
      /\ d = "F0_sig" <=> Duplicate(sigs, t.signature)
      /\ d = "F0_mint" <=> ~Duplicate(sigs, t.signature) /\ Duplicate(mints, t.mint)
      /\ d = "F2" => RateLimited(t.user)
      /\ d \notin BeforeRate \cup {"F2"} => ~RateLimited(t.user)
  BY <1>1, DecisionIsAnOutcome
<1>4. HistoryKept' /\ Evaluated(t, d)
  BY <1>2, <1>3, HistoryGrows DEF FilterWhole
<1>5. t.signature \in Signatures /\ t.mint \in FeedMints /\ now \in Nat
  BY HistoryRead DEF FilterWhole, Signatures, FeedMints
<1>6. CacheKept(sigs, Signatures)' /\ CacheKept(mints, FeedMints)'
  <2>1. /\ CacheKept(CheckAndInsert(sigs, t.signature), Signatures)
        /\ CacheKept(CheckAndInsert(mints, t.mint), FeedMints)
    BY <1>5, Checked DEF FilterWhole
  <2>2. CacheKept(mints, FeedMints)
    BY DEF FilterWhole
  <2>3. CacheKept(sigs', Signatures) /\ CacheKept(mints', FeedMints)
    BY <1>2, <2>1, <2>2
  <2>4. ASSUME NEW cache, NEW K, CacheKept(cache, K)
        PROVE  \A i \in 1..Len(cache.order) : cache.order[i].at <= now'
    BY <1>2, <2>4 DEF CacheKept
  <2>5. CacheKept(sigs, Signatures)'
    BY <2>3, <2>4 DEF CacheKept
  <2>6. CacheKept(mints, FeedMints)'
    BY <2>3, <2>4 DEF CacheKept
  <2> QED
    BY <2>5, <2>6
<1>7. CountsAdd'
  <2>1. Len(history') = Len(history) + 1 /\ Len(history) \in Nat
    BY <1>4, HistoryRead DEF FilterWhole, Evaluated
  <2> QED
    BY <1>2, <1>3, <2>1, CountsStillAdd DEF FilterWhole
<1>8. MintsChecked(t, d)
  <2>1. d \notin Repeats => ~Duplicate(mints, t.mint)
    BY <1>3 DEF Repeats
  <2> QED
    BY <1>2, <1>3, <2>1 DEF MintsChecked
<1>9. Remembered' /\ RepeatsAreRefused'
  BY <1>2, <1>3, <1>4, <1>5, <1>8, RememberedKept, RepeatsStayRefused DEF FilterWhole
<1>10. CreatesKept'
  BY <1>2, <1>4, CreatesStay, CreatesCounted DEF FilterWhole
<1>11. RateIsKept'
  BY <1>3, <1>4, RateStaysKept DEF FilterWhole
<1> QED
  BY <1>4, <1>6, <1>7, <1>9, <1>10, <1>11 DEF FilterWhole

\* Time only makes keys older and fewer attempts recent.
LEMMA TimeKeeps ==
    ASSUME FilterWhole, now' \in {now, now + 1},
           UNCHANGED <<sigs, mints, creates, counts, history>>
    PROVE  FilterWhole'
<1>1. now \in Nat /\ now' \in Nat /\ now <= now' /\ Ttl \in Nat /\ Window \in Nat
  BY HistoryRead, FilterAssumption DEF FilterWhole, FilterAssumption
<1>2. \A i \in 1..Len(history) : history[i].at \in Nat /\ history[i].at <= now
  BY HistoryRead DEF FilterWhole
<1>3. HistoryKept'
  <2>1. \A i \in 1..Len(history) : history[i].at <= now'
    BY <1>1, <1>2
  <2> QED
    BY <1>1, <2>1 DEF FilterWhole, HistoryKept
<1>4. ASSUME NEW cache, NEW K, CacheKept(cache, K)
      PROVE  \A i \in 1..Len(cache.order) : cache.order[i].at <= now'
  <2> TAKE i \in 1..Len(cache.order)
  <2>1. cache.order[i] \in [key : K, at : Nat] /\ cache.order[i].at <= now
    BY <1>4, ElementOfSeq DEF CacheKept
  <2> QED
    BY <1>1, <2>1
<1>5. CacheKept(sigs, Signatures)' /\ CacheKept(mints, FeedMints)'
  <2>1. CacheKept(sigs, Signatures) /\ CacheKept(mints, FeedMints)
    BY DEF FilterWhole
  <2>2. /\ \A i \in 1..Len(sigs.order) : sigs.order[i].at <= now'
        /\ \A i \in 1..Len(mints.order) : mints.order[i].at <= now'
    BY <1>4, <2>1
  <2> QED
    BY <2>1, <2>2 DEF CacheKept
<1>6. CountsAdd' /\ RepeatsAreRefused' /\ RateIsKept'
  <2>1. CountsAdd'
    BY DEF FilterWhole, CountsAdd
  <2>2. RepeatsAreRefused'
    BY DEF FilterWhole, RepeatsAreRefused, NewMints, Judged
  <2>3. RateIsKept'
    BY DEF FilterWhole, RateIsKept, Attempts, Judged
  <2> QED
    BY <2>1, <2>2, <2>3
<1>7. Remembered'
  <2> SUFFICES ASSUME NEW i \in 1..Len(history), Judged(i) \notin Repeats
               PROVE  Forgotten(i)' \/ \E p \in 1..Len(mints.order) : RememberedAs(i, p)'
    BY DEF Remembered, Judged
  <2>1. Forgotten(i) => Forgotten(i)'
    <3>1. Forgotten(i) <=> now - history[i].at > Ttl \/ Cardinality(NewMints(i, Len(history))) > MaxSeen
      BY DEF Forgotten
    <3>2. Forgotten(i)' <=> now' - history[i].at > Ttl \/ Cardinality(NewMints(i, Len(history))) > MaxSeen
      BY DEF Forgotten, NewMints, Judged
    <3>3. now - history[i].at > Ttl => now' - history[i].at > Ttl
      BY <1>1, <1>2
    <3> QED
      BY <3>1, <3>2, <3>3
  <2>2. \A p : RememberedAs(i, p) => RememberedAs(i, p)'
    BY DEF RememberedAs, NewMints, Judged
  <2> QED
    BY <2>1, <2>2 DEF FilterWhole, Remembered
<1>8. CreatesKept'
  <2> SUFFICES ASSUME NEW c PROVE Tracked(c, Known(c))'
    BY DEF CreatesKept
  <2>1. PICK s : s = Known(c)
    OBVIOUS
  <2>2. Tracked(c, s)
    BY <2>1 DEF FilterWhole, CreatesKept
  <2>3. PICK f : TrackedBy(c, s, f)
    BY <2>2 DEF Tracked
  <2>4. Known(c)' = s /\ CreatorAttempts(c)' = CreatorAttempts(c)
    BY <2>1 DEF Known, CreatorAttempts, Judged
  <2>5. Recent(c)' \subseteq Recent(c)
    <3>1. \A i \in CreatorAttempts(c) : now' - history[i].at < Window => now - history[i].at < Window
      BY <1>1, <1>2 DEF CreatorAttempts
    <3> QED
      BY <2>4, <3>1 DEF Recent
  <2>6. TrackedBy(c, s, f)'
    BY <2>3, <2>4, <2>5 DEF TrackedBy
  <2>7. \A p \in 1..Len(s) : s[p] <= now'
    <3>1. \A p \in 1..Len(s) : s[p] \in Nat /\ s[p] <= now
      BY <2>2, ElementOfSeq DEF Tracked
    <3> QED
      BY <1>1, <3>1
  <2>8. Tracked(c, s)'
    BY <2>2, <2>6, <2>7 DEF Tracked
  <2> QED
    BY <2>4, <2>8 DEF Tracked, TrackedBy
<1> QED
  BY <1>3, <1>5, <1>6, <1>7, <1>8 DEF FilterWhole

LEMMA FilterKeeps == FilterSpec => []FilterWhole
<1>1. ASSUME FilterWhole, [FilterNext]_filterVars PROVE FilterWhole'
  <2>1. CASE \E t \in FeedTokens, late \in BOOLEAN : Evaluate(t, late)
    BY <1>1, <2>1, EvaluationKeeps
  <2>2. CASE \/ \E t \in FeedTokens : EvaluateDisabled(t)
             \/ FilterSecond
             \/ UNCHANGED filterVars
    BY <1>1, <2>2, TimeKeeps DEF EvaluateDisabled, FilterSecond, filterVars
  <2> QED
    BY <1>1, <2>1, <2>2 DEF FilterNext
<1> QED
  BY <1>1, FilterStarts, PTL DEF FilterSpec

\* DedupCache's map and queue tell of the same keys, each once and oldest
\* first, never more than max_size, and FilterMetrics count every evaluation
\* as one verdict, for any feed, times and configuration.
THEOREM CachesAlwaysInStep == FilterSpec => []FilterStateOK
<1>1. FilterWhole => FilterStateOK
  BY KeptIsOK DEF FilterWhole, FilterStateOK, CountsAdd
<1> QED
  BY <1>1, FilterKeeps, PTL

\* check_and_insert refuses a mint that was evaluated before for as long as
\* the filter promises: ttl seconds, or max_size other mints.
THEOREM RepeatsAlwaysRefused == FilterSpec => []RepeatsAreRefused
<1>1. FilterWhole => RepeatsAreRefused
  BY DEF FilterWhole
<1> QED
  BY <1>1, FilterKeeps, PTL

\* is_rate_limited refuses a creator only after max_creates attempts within
\* the window, and whenever as many are recent, also across the cleanup of
\* creators.
THEOREM RateAlwaysKept == FilterSpec => []RateIsKept
<1>1. FilterWhole => RateIsKept
  BY DEF FilterWhole
<1> QED
  BY <1>1, FilterKeeps, PTL

=============================================================================
