------------------------- MODULE PaperTrading_proofs -------------------------
(***************************************************************************)
(* Proofs about paper trading and its log, for any positions, prices,      *)
(* thresholds and days: every trade is logged by one thread, a position    *)
(* has its trades, failures lose no more than they are charged with, and   *)
(* the figures that are updated trade by trade are those of the set of     *)
(* trades.  The last needs what the fold over the results computes, which  *)
(* is proved here by induction over the cardinality of the set.            *)
(***************************************************************************)
EXTENDS PaperTrading, FiniteSetTheorems, WellFoundedInduction, TLAPS

-----------------------------------------------------------------------------
(* The invariant.                                                          *)

Recorded ==
    /\ trades \subseteq TradeRecords /\ past \subseteq TradeRecords
    /\ counted \subseteq TradeRecords /\ rows \subseteq TradeRecords
    /\ tail \subseteq TradeRecords

PositionsTyped ==
    /\ DOMAIN positions \subseteq Ids
    /\ \A i \in DOMAIN positions :
        positions[i] \in [entry : {"priced", "zero"}, status : {"Open"} \cup Closed]

\* A thread holds one trade at most; the exec worker none while it judges;
\* and nobody any while the program is down.
HandsHoldOne ==
    /\ \A h \in Threads : hand[h] = {} \/ \E t \in trades : hand[h] = {t}
    /\ DOMAIN hand = Threads
    /\ judging # "nothing" => hand["exec"] = {}
    /\ ~up => judging = "nothing" /\ \A h \in Threads : hand[h] = {}

MadeInOrder == IsFiniteSet(Made) /\ \A t \in Made : t.n <= Cardinality(Made)

FileInOrder ==
    /\ tail = {} \/ \E t \in rows : tail = {t}
    /\ ended => tail = {}
    /\ head # "whole" => rows = {} /\ ended
    /\ up => head # "none"

\* What failures have cost, and what the next row will lose: itself and the
\* cut line that it continues, or itself as the header of an empty file.
Missing == Made \ (rows \cup InHand)
Pending ==
    IF head = "empty" THEN 1 ELSE IF ended THEN 0 ELSE 1 + Cardinality(tail)
LossesAreKnown == Readable => Cardinality(Missing) + Pending <= harm

PaperWhole ==
    /\ PaperTypeOK
    /\ TradesAreLoggedOnce
    /\ PositionsHaveTrades
    /\ HandsHoldOne
    /\ MadeInOrder
    /\ FileInOrder
    /\ LossesAreKnown
    /\ DayIsKnown

LEMMA TypeParts ==
    PaperTypeOK <=>
        /\ {up, ended, complete} \subseteq BOOLEAN /\ head \in Heads
        /\ {day, startDay} \subseteq 0..LastDay
        /\ judging \in {"nothing", "pool", "token"}
        /\ PositionsTyped /\ Recorded /\ harm \in Nat
BY DEF PaperTypeOK, PositionsTyped, Recorded

-----------------------------------------------------------------------------
(* Counting what is missing.                                               *)

LEMMA Grows ==
    ASSUME NEW A, NEW S, NEW B, IsFiniteSet(A), IsFiniteSet(S), B \subseteq A \cup S
    PROVE  Cardinality(B) \in Nat /\ Cardinality(B) <= Cardinality(A) + Cardinality(S)
<1>1. /\ IsFiniteSet(A \cup S) /\ IsFiniteSet(A \cap S)
      /\ Cardinality(A \cup S) = Cardinality(A) + Cardinality(S) - Cardinality(A \cap S)
  BY FS_Union, FS_Subset
<1>2. IsFiniteSet(B) /\ Cardinality(B) <= Cardinality(A \cup S)
  BY <1>1, FS_Subset
<1>3. /\ Cardinality(A) \in Nat /\ Cardinality(S) \in Nat /\ Cardinality(B) \in Nat
      /\ Cardinality(A \cap S) \in Nat /\ Cardinality(A \cup S) \in Nat
  BY <1>1, <1>2, FS_CardinalityType
<1> QED
  BY <1>1, <1>2, <1>3

LEMMA OneOrNone ==
    ASSUME NEW S, S = {} \/ \E t : S = {t}
    PROVE  IsFiniteSet(S) /\ Cardinality(S) \in {0, 1}
BY FS_EmptySet, FS_Singleton

LEMMA MissingIsFinite ==
    ASSUME PaperWhole
    PROVE  /\ IsFiniteSet(Made) /\ IsFiniteSet(Missing)
           /\ Cardinality(Made) \in Nat /\ Cardinality(Missing) \in Nat
           /\ Pending \in Nat /\ harm \in Nat
<1>1. IsFiniteSet(Made) /\ harm \in Nat
  BY DEF PaperWhole, MadeInOrder, PaperTypeOK
<1>2. IsFiniteSet(Missing)
  BY <1>1, FS_Subset DEF Missing
<1>3. Cardinality(tail) \in {0, 1}
  BY OneOrNone DEF PaperWhole, FileInOrder
<1> QED
  BY <1>1, <1>2, <1>3, FS_CardinalityType DEF Pending

LEMMA HandsAreTrades ==
    ASSUME PaperWhole
    PROVE  /\ hand["exec"] \subseteq trades /\ hand["main"] \subseteq trades
           /\ IsFiniteSet(hand["exec"]) /\ Cardinality(hand["exec"]) \in {0, 1}
           /\ IsFiniteSet(hand["main"]) /\ Cardinality(hand["main"]) \in {0, 1}
<1>1. \A h \in Threads : hand[h] = {} \/ \E t \in trades : hand[h] = {t}
  BY DEF PaperWhole, HandsHoldOne
<1> QED
  BY <1>1, OneOrNone DEF Threads

\* The bill: what is missing afterwards was missing before, or is among those
\* that the step is charged with.
LEMMA Charged ==
    ASSUME PaperWhole, NEW S, IsFiniteSet(S), Missing' \subseteq Missing \cup S,
           Pending' \in Nat, harm' \in Nat, Readable' => Readable,
           Cardinality(S) + Pending' - Pending <= harm' - harm
    PROVE  LossesAreKnown'
<1>1. Cardinality(Missing') \in Nat /\ Cardinality(Missing') <= Cardinality(Missing) + Cardinality(S)
  BY MissingIsFinite, Grows
<1>2. Cardinality(S) \in Nat
  BY FS_CardinalityType
<1> QED
  BY <1>1, <1>2, MissingIsFinite DEF PaperWhole, LossesAreKnown

\* A later day, or a failure, tells nothing new of the start.
LEMMA DayStaysKnown ==
    ASSUME PaperWhole, UNCHANGED startVars, harm' \in Nat, harm' >= harm,
           Readable' => Readable
    PROVE  DayIsKnown'
<1> SUFFICES ASSUME complete', Readable'
             PROVE  \E lost \in SUBSET past' :
                      /\ Cardinality(lost) <= harm'
                      /\ hydrated' = Total({t \in past' \ lost : t.day = startDay'})
  BY DEF DayIsKnown
<1>1. harm \in Nat /\ complete /\ Readable
  BY DEF PaperWhole, PaperTypeOK, startVars
<1>2. PICK lost \in SUBSET past :
        /\ Cardinality(lost) <= harm
        /\ hydrated = Total({t \in past \ lost : t.day = startDay})
  BY <1>1 DEF PaperWhole, DayIsKnown
<1>3. Cardinality(lost) \in Nat
  <2>1. past \subseteq Made /\ IsFiniteSet(Made)
    BY MissingIsFinite DEF Made
  <2> QED
    BY <2>1, FS_Subset, FS_CardinalityType
<1>4. Cardinality(lost) <= harm'
  BY <1>1, <1>2, <1>3
<1> QED
  BY <1>2, <1>4 DEF startVars

-----------------------------------------------------------------------------
(* A trade is made: it goes into the list and into one thread's hand.      *)

LEMMA NewTradeIsNew ==
    ASSUME PaperWhole, NEW i \in Ids, NEW action \in {"Buy", "Sell"},
           NEW pnl \in Gains \cup {0, Infinite, Undefined}, Cardinality(Made) < MaxTrades
    PROVE  /\ NewTrade(i, action, pnl) \in TradeRecords
           /\ NewTrade(i, action, pnl) \notin Made
           /\ NewTrade(i, action, pnl).n = Cardinality(Made) + 1
           /\ NewTrade(i, action, pnl).id = i
           /\ NewTrade(i, action, pnl).action = action
<1> DEFINE t == NewTrade(i, action, pnl)
<1>1. Cardinality(Made) \in Nat /\ MaxTrades \in Nat /\ day \in 0..LastDay
  BY MissingIsFinite, PaperAssumption DEF PaperAssumption, PaperWhole, PaperTypeOK
<1>2. Cardinality(Made) + 1 \in 1..MaxTrades
  BY <1>1
<1>3. t = [n |-> Cardinality(Made) + 1, id |-> i, action |-> action, pnl |-> pnl, day |-> day]
  BY DEF NewTrade
<1>4. t \in TradeRecords
  BY <1>1, <1>2, <1>3 DEF TradeRecords
<1>5. t \notin Made
  <2>1. \A u \in Made : u.n <= Cardinality(Made)
    BY DEF PaperWhole, MadeInOrder
  <2>2. t.n = Cardinality(Made) + 1
    BY <1>3
  <2> HIDE DEF t
  <2> QED
    BY <1>1, <2>1, <2>2
<1> QED
  BY <1>3, <1>4, <1>5

LEMMA TradeMade ==
    ASSUME PaperWhole, NEW t \in TradeRecords, t \notin Made, t.n = Cardinality(Made) + 1,
           NEW h \in Threads, hand[h] = {}, hand' = [hand EXCEPT ![h] = {t}],
           trades' = trades \cup {t}, up, judging' = "nothing",
           UNCHANGED <<up, counted, fileVars, startVars, harm>>
    PROVE  /\ Recorded' /\ TradesAreLoggedOnce' /\ HandsHoldOne' /\ MadeInOrder'
           /\ FileInOrder' /\ LossesAreKnown' /\ DayIsKnown'
<1> USE DEF fileVars, startVars
<1>1. /\ hand' = [u \in Threads |-> IF u = h THEN {t} ELSE hand[u]]
      /\ InHand' = InHand \cup {t}
  BY DEF PaperWhole, HandsHoldOne, InHand, Threads
<1>2. Made' = Made \cup {t}
  BY DEF Made
<1>3. Recorded'
  BY TypeParts DEF PaperWhole, Recorded
<1>4. TradesAreLoggedOnce'
  <2>1. rows \subseteq Made /\ counted \subseteq trades /\ InHand \subseteq trades
        /\ trades \subseteq Made /\ past \subseteq Made
    BY DEF PaperWhole, TradesAreLoggedOnce, Made
  <2>2. hand'["exec"] \cap hand'["main"] = {}
    <3>1. /\ hand["exec"] \cap hand["main"] = {}
          /\ hand["exec"] \subseteq Made /\ hand["main"] \subseteq Made
      BY <2>1, HandsAreTrades DEF PaperWhole, TradesAreLoggedOnce
    <3>2. /\ hand'["exec"] = IF h = "exec" THEN {t} ELSE hand["exec"]
          /\ hand'["main"] = IF h = "main" THEN {t} ELSE hand["main"]
      BY <1>1 DEF Threads
    <3> QED
      BY <3>1, <3>2
  <2>3. UNCHANGED <<counted, rows, past>> /\ t \notin counted \cup rows \cup past
    BY <2>1
  <2>4. InHand \cap (counted \cup rows) = {} /\ trades \cap past = {}
    BY DEF PaperWhole, TradesAreLoggedOnce
  <2>5. /\ InHand' \cap (counted' \cup rows') = {} /\ trades' \cap past' = {}
        /\ counted' \cup InHand' \subseteq trades' /\ rows' \subseteq Made'
    BY <1>1, <1>2, <2>1, <2>3, <2>4
  <2> QED
    BY <2>2, <2>5 DEF TradesAreLoggedOnce
<1>5. HandsHoldOne'
  BY <1>1 DEF PaperWhole, HandsHoldOne
<1>6. MadeInOrder'
  <2>1. IsFiniteSet(Made') /\ Cardinality(Made') = Cardinality(Made) + 1
    BY <1>2, MissingIsFinite, FS_AddElement
  <2>2. \A u \in Made : u.n \in Nat /\ u.n <= Cardinality(Made)
    <3>1. Made \subseteq TradeRecords
      BY TypeParts DEF PaperWhole, Recorded, Made
    <3>2. \A u \in TradeRecords : u.n \in Nat
      BY DEF TradeRecords
    <3> QED
      BY <3>1, <3>2 DEF PaperWhole, MadeInOrder
  <2>3. \A u \in Made' : u.n <= Cardinality(Made) + 1
    BY <1>2, <2>2, MissingIsFinite
  <2> QED
    BY <2>1, <2>3 DEF MadeInOrder
<1>7. FileInOrder'
  BY DEF PaperWhole, FileInOrder
<1>8. Missing' = Missing /\ Pending' = Pending /\ Readable' = Readable
  BY <1>1, <1>2 DEF Missing, Pending, Readable
<1>9. LossesAreKnown'
  BY <1>8 DEF PaperWhole, LossesAreKnown
<1>10. DayIsKnown'
  BY <1>8, DayStaysKnown, MissingIsFinite
<1> QED
  BY <1>3, <1>4, <1>5, <1>6, <1>7, <1>9, <1>10

\* A position is opened with its purchase, the first trade with its id.
LEMMA Opened ==
    ASSUME PaperWhole, up, judging # "nothing", NEW i \in Ids, NEW entry \in {"priced", "zero"},
           OpenPosition(i, entry)
    PROVE  PaperWhole'
<1> DEFINE buy == NewTrade(i, "Buy", 0)
<1>1. /\ Cardinality(Made) < MaxTrades
      /\ i \notin {t.id : t \in Made}
      /\ positions' = [j \in DOMAIN positions \cup {i} |->
                          IF j = i THEN [entry |-> entry, status |-> "Open"] ELSE positions[j]]
      /\ trades' = trades \cup {buy} /\ hand' = [hand EXCEPT !["exec"] = {buy}]
      /\ judging' = "nothing"
      /\ UNCHANGED <<up, day, metrics, counted, fileVars, startVars, harm>>
  BY DEF OpenPosition
<1>2. /\ buy \in TradeRecords /\ buy \notin Made /\ buy.n = Cardinality(Made) + 1
      /\ buy.id = i /\ buy.action = "Buy"
  BY <1>1, NewTradeIsNew
<1> HIDE DEF buy
<1>3. "exec" \in Threads /\ hand["exec"] = {}
  BY DEF PaperWhole, HandsHoldOne, Threads
<1>4. /\ Recorded' /\ TradesAreLoggedOnce' /\ HandsHoldOne' /\ MadeInOrder'
      /\ FileInOrder' /\ LossesAreKnown' /\ DayIsKnown'
  BY <1>1, <1>2, <1>3, TradeMade
<1>5. PositionsTyped'
  BY <1>1, TypeParts DEF PaperWhole, PositionsTyped
<1>6. PaperTypeOK'
  <2>1. (PaperTypeOK <=> /\ {up, ended, complete} \subseteq BOOLEAN /\ head \in Heads
                         /\ {day, startDay} \subseteq 0..LastDay
                         /\ judging \in {"nothing", "pool", "token"}
                         /\ PositionsTyped /\ Recorded /\ harm \in Nat)'
    BY TypeParts, PTL
  <2> QED
    BY <1>1, <1>4, <1>5, <2>1, TypeParts DEF PaperWhole, fileVars, startVars
<1>7. PositionsHaveTrades'
  <2>1. \A t \in trades : t.id # i
    BY <1>1 DEF Made
  <2>2. ASSUME NEW j \in DOMAIN positions'
        PROVE  /\ Cardinality({t \in trades' : t.id = j /\ t.action = "Buy"}) = 1
               /\ positions'[j].status = "Open" <=> ~\E t \in trades' : t.id = j /\ t.action = "Sell"
    <3>1. CASE j = i
      <4>1. {t \in trades' : t.id = j /\ t.action = "Buy"} = {buy}
        BY <1>1, <1>2, <2>1, <3>1
      <4>2. positions'[j].status = "Open" /\ ~\E t \in trades' : t.id = j /\ t.action = "Sell"
        BY <1>1, <1>2, <2>1, <3>1
      <4> QED
        BY <4>1, <4>2, FS_Singleton
    <3>2. CASE j # i
      <4>1. {t \in trades' : t.id = j /\ t.action = "Buy"}
              = {t \in trades : t.id = j /\ t.action = "Buy"}
        BY <1>1, <1>2, <3>2
      <4>2. j \in DOMAIN positions /\ positions'[j] = positions[j]
        BY <1>1, <3>2
      <4>3. (\E t \in trades' : t.id = j /\ t.action = "Sell")
              <=> \E t \in trades : t.id = j /\ t.action = "Sell"
        BY <1>1, <1>2, <3>2
      <4> QED
        BY <4>1, <4>2, <4>3 DEF PaperWhole, PositionsHaveTrades
    <3> QED
      BY <3>1, <3>2
  <2> QED
    BY <2>2 DEF PositionsHaveTrades
<1> QED
  BY <1>4, <1>6, <1>7 DEF PaperWhole

\* A price sells the position of its key, once more if it was closed already.
LEMMA Sold ==
    ASSUME PaperWhole, NEW key \in Ids \cup PoolIds, NEW g \in Gains, PriceUpdate(key, g)
    PROVE  PaperWhole'
<1>1. PICK old \in BOOLEAN, gain \in GainsAt(key, g) :
        LET status == ExitStatus(gain, old)
            sale == NewTrade(key, "Sell", gain) IN
        /\ status # "Open"
        /\ trades' = trades \cup {sale}
        /\ positions' = [positions EXCEPT ![key].status = status]
        /\ hand' = [hand EXCEPT !["main"] = {sale}]
  BY DEF PriceUpdate
<1> DEFINE status == ExitStatus(gain, old)
           sale == NewTrade(key, "Sell", gain)
<1>2. /\ up /\ judging = "nothing" /\ hand["main"] = {}
      /\ key \in DOMAIN positions /\ Cardinality(Made) < MaxTrades
      /\ UNCHANGED <<up, day, judging, metrics, counted, fileVars, startVars, harm>>
  BY DEF PriceUpdate
<1>3. key \in Ids /\ gain \in Gains \cup {0, Infinite, Undefined} /\ status \in Closed /\ "Open" \notin Closed
  BY <1>1, <1>2, TypeParts DEF PaperWhole, PositionsTyped, ExitStatus, GainsAt, Closed
<1>4. trades' = trades \cup {sale} /\ hand' = [hand EXCEPT !["main"] = {sale}]
      /\ positions' = [positions EXCEPT ![key].status = status]
  BY <1>1
<1>5. /\ sale \in TradeRecords /\ sale \notin Made /\ sale.n = Cardinality(Made) + 1
      /\ sale.id = key /\ sale.action = "Sell"
  BY <1>2, <1>3, NewTradeIsNew
<1> HIDE DEF sale, status
<1>6. "main" \in Threads
  BY DEF Threads
<1>7. /\ Recorded' /\ TradesAreLoggedOnce' /\ HandsHoldOne' /\ MadeInOrder'
      /\ FileInOrder' /\ LossesAreKnown' /\ DayIsKnown'
  BY <1>2, <1>4, <1>5, <1>6, TradeMade
<1>8. /\ DOMAIN positions' = DOMAIN positions
      /\ positions'[key] = [positions[key] EXCEPT !.status = status]
      /\ \A j \in DOMAIN positions : j # key => positions'[j] = positions[j]
  BY <1>2, <1>4
<1>9. PositionsTyped'
  BY <1>2, <1>3, <1>8, TypeParts DEF PaperWhole, PositionsTyped
<1>10. PaperTypeOK'
  <2>1. (PaperTypeOK <=> /\ {up, ended, complete} \subseteq BOOLEAN /\ head \in Heads
                         /\ {day, startDay} \subseteq 0..LastDay
                         /\ judging \in {"nothing", "pool", "token"}
                         /\ PositionsTyped /\ Recorded /\ harm \in Nat)'
    BY TypeParts, PTL
  <2> QED
    BY <1>2, <1>7, <1>9, <2>1, TypeParts DEF PaperWhole, fileVars, startVars
<1>11. PositionsHaveTrades'
  <2>1. ASSUME NEW j \in DOMAIN positions'
        PROVE  /\ Cardinality({t \in trades' : t.id = j /\ t.action = "Buy"}) = 1
               /\ positions'[j].status = "Open" <=> ~\E t \in trades' : t.id = j /\ t.action = "Sell"
    <3>1. {t \in trades' : t.id = j /\ t.action = "Buy"}
            = {t \in trades : t.id = j /\ t.action = "Buy"}
      BY <1>4, <1>5
    <3>2. j \in DOMAIN positions
      BY <1>8
    <3>3. CASE j = key
      <4>1. positions[key] \in [entry : {"priced", "zero"}, status : {"Open"} \cup Closed]
        BY <1>2, TypeParts DEF PaperWhole, PositionsTyped
      <4>2. positions'[key].status = status /\ status # "Open"
        BY <1>3, <1>8, <4>1
      <4>3. \E t \in trades' : t.id = key /\ t.action = "Sell"
        BY <1>4, <1>5
      <4> QED
        BY <3>1, <3>2, <3>3, <4>2, <4>3 DEF PaperWhole, PositionsHaveTrades
    <3>4. CASE j # key
      <4>1. (\E t \in trades' : t.id = j /\ t.action = "Sell")
              <=> \E t \in trades : t.id = j /\ t.action = "Sell"
        BY <1>4, <1>5, <3>4
      <4> QED
        BY <1>8, <3>1, <3>2, <3>4, <4>1 DEF PaperWhole, PositionsHaveTrades
    <3> QED
      BY <3>3, <3>4
  <2> QED
    BY <2>1 DEF PositionsHaveTrades
<1> QED
  BY <1>7, <1>10, <1>11 DEF PaperWhole

-----------------------------------------------------------------------------
(* A trade is logged, or a failure comes in between.                       *)

\* The parts of the invariant that only the file and the hands can disturb.
PaperFiled ==
    /\ Recorded /\ TradesAreLoggedOnce /\ HandsHoldOne /\ FileInOrder /\ LossesAreKnown

LEMMA Filed ==
    ASSUME PaperWhole, PaperFiled',
           UNCHANGED <<day, positions, trades, startVars>>,
           up' \in BOOLEAN, ended' \in BOOLEAN, judging' \in {judging, "nothing"},
           head' \in Heads, Readable' => Readable, harm' \in Nat, harm' >= harm
    PROVE  PaperWhole'
<1> USE DEF startVars, PaperFiled
<1>1. PaperTypeOK'
  <2>1. (PaperTypeOK <=> /\ {up, ended, complete} \subseteq BOOLEAN /\ head \in Heads
                         /\ {day, startDay} \subseteq 0..LastDay
                         /\ judging \in {"nothing", "pool", "token"}
                         /\ PositionsTyped /\ Recorded /\ harm \in Nat)'
    BY TypeParts, PTL
  <2>2. PositionsTyped'
    BY TypeParts DEF PaperWhole, PositionsTyped
  <2> QED
    BY <2>1, <2>2, TypeParts DEF PaperWhole
<1>2. PositionsHaveTrades'
  BY DEF PaperWhole, PositionsHaveTrades
<1>3. MadeInOrder'
  BY DEF PaperWhole, MadeInOrder, Made
<1>4. DayIsKnown'
  BY DayStaysKnown
<1> QED
  BY <1>1, <1>2, <1>3, <1>4 DEF PaperWhole

\* What a thread has in its hand is among the trades, not in the file, and
\* not in the other's.
LEMMA HandHolds ==
    ASSUME PaperWhole, NEW h \in Threads, NEW t \in hand[h]
    PROVE  /\ hand[h] = {t} /\ t \in trades /\ t \in InHand /\ up
           /\ t \notin rows /\ t \notin counted /\ t \notin tail
           /\ t \in TradeRecords /\ trades \subseteq Made
           /\ \A u \in Threads : u # h => t \notin hand[u]
<1>1. hand[h] = {t} /\ t \in trades /\ up
  BY DEF PaperWhole, HandsHoldOne
<1>2. h \in {"exec", "main"}
  BY DEF Threads
<1>3. t \in InHand /\ \A u \in Threads : u # h => t \notin hand[u]
  BY <1>2 DEF Threads, InHand, PaperWhole, TradesAreLoggedOnce
<1>4. t \notin rows /\ t \notin counted
  BY <1>3 DEF PaperWhole, TradesAreLoggedOnce
<1>5. t \notin tail
  BY <1>4 DEF PaperWhole, FileInOrder
<1>6. t \in TradeRecords /\ trades \subseteq Made
  BY <1>1, TypeParts DEF PaperWhole, Recorded, Made
<1> QED
  BY <1>1, <1>3, <1>4, <1>5, <1>6

\* The rows of the file and its last line, whatever is left in the hands.
LEMMA HandsAndRows ==
    ASSUME PaperWhole, NEW h \in Threads, NEW t \in hand[h],
           hand' \in [Threads -> SUBSET TradeRecords], hand'[h] = {},
           \A u \in Threads : hand'[u] \in {hand[u], {}},
           UNCHANGED <<trades, past>>,
           rows' \subseteq rows \cup {t}, tail' = {} \/ \E u \in rows' : tail' = {u},
           ended' => tail' = {}, head' # "whole" => rows' = {} /\ ended', head' # "none",
           counted' \in {counted, counted \cup {t}},
           up' \/ (~up' /\ judging' = "nothing" /\ \A u \in Threads : hand'[u] = {}),
           judging' \in {judging, "nothing"}
    PROVE  Recorded' /\ TradesAreLoggedOnce' /\ HandsHoldOne' /\ FileInOrder'
<1>1. /\ hand[h] = {t} /\ t \in trades /\ t \in TradeRecords /\ trades \subseteq Made
      /\ \A u \in Threads : u # h => t \notin hand[u]
  BY HandHolds
<1>2. Recorded'
  BY <1>1, TypeParts DEF PaperWhole, Recorded
<1>3. Made' = Made
  BY DEF Made
<1>4. InHand' \subseteq InHand \ {t} /\ hand'["exec"] \cap hand'["main"] = {}
  BY <1>1 DEF InHand, Threads, PaperWhole, TradesAreLoggedOnce
<1>5. TradesAreLoggedOnce'
  <2>1. InHand' \cap (counted' \cup rows') = {}
    BY <1>4 DEF PaperWhole, TradesAreLoggedOnce
  <2>2. counted' \cup InHand' \subseteq trades' /\ rows' \subseteq Made' /\ trades' \cap past' = {}
    BY <1>1, <1>3, <1>4 DEF PaperWhole, TradesAreLoggedOnce
  <2> QED
    BY <1>4, <2>1, <2>2 DEF TradesAreLoggedOnce
<1>6. HandsHoldOne'
  BY DEF PaperWhole, HandsHoldOne, Threads
<1>7. FileInOrder'
  BY DEF FileInOrder
<1> QED
  BY <1>2, <1>5, <1>6, <1>7

\* What one more row costs: itself and the cut line that it continues, or
\* itself as the header of an empty file.
LEMMA RowCosts ==
    ASSUME PaperWhole, NEW h \in Threads, NEW t \in hand[h], AppendRow(t)
    PROVE  /\ rows' \subseteq rows \cup {t} /\ ended' = TRUE /\ tail' = {}
           /\ head' # "whole" => rows' = {}
           /\ head' \in Heads \ {"none"} /\ (Readable' => Readable) /\ Pending' = 0
           /\ \/ head = "whole" /\ ended /\ rows' = rows \cup {t} /\ Pending = 0
              \/ /\ rows' = rows \ tail
                 /\ Readable' => Pending = 1 + Cardinality(tail)
<1>1. /\ rows' = IF head = "whole" /\ ended THEN rows \cup {t} ELSE rows \ tail
      /\ head' = CASE head = "empty" -> "whole" [] head = "cut" -> "ruined" [] OTHER -> head
      /\ ended' = TRUE /\ tail' = {}
  BY DEF AppendRow
<1>2. /\ head \in Heads \ {"none"} /\ ended \in BOOLEAN
      /\ head # "whole" => rows = {} /\ ended
      /\ ended => tail = {}
  BY HandHolds DEF PaperWhole, PaperTypeOK, FileInOrder
<1>3. head' \in Heads \ {"none"} /\ (Readable' => Readable) /\ head' # "empty"
  BY <1>1, <1>2 DEF Heads, Readable
<1>4. Pending' = 0
  BY <1>1, <1>3 DEF Pending
<1>5. CASE head = "whole" /\ ended
  BY <1>1, <1>2, <1>3, <1>4, <1>5 DEF Pending
<1>6. CASE head = "whole" /\ ~ended
  BY <1>1, <1>2, <1>3, <1>4, <1>6 DEF Pending
<1>7. CASE head # "whole"
  <2>1. rows' = {} /\ rows' = rows \ tail
    BY <1>1, <1>2, <1>7
  <2>2. Readable' => head = "empty"
    BY <1>1, <1>2, <1>7 DEF Heads, Readable
  <2>3. Readable' => Pending = 1 + Cardinality(tail)
    BY <1>2, <1>7, <2>2, FS_EmptySet DEF Pending
  <2> QED
    BY <1>1, <1>3, <1>4, <2>1, <2>3
<1> QED
  BY <1>2, <1>5, <1>6, <1>7

\* A row completes its line; one that continues a cut line is lost with it.
LEMMA Logged ==
    ASSUME PaperWhole, NEW h \in Threads, LogTrade(h)
    PROVE  PaperWhole'
<1>1. PICK t \in hand[h] : AppendRow(t) /\ counted' = counted \cup {t}
  BY DEF LogTrade
<1>2. /\ up /\ hand' = [hand EXCEPT ![h] = {}]
      /\ UNCHANGED <<up, day, positions, trades, judging, startVars, harm>>
  BY DEF LogTrade
<1>3. /\ rows' \subseteq rows \cup {t} /\ ended' = TRUE /\ tail' = {}
      /\ head' # "whole" => rows' = {}
      /\ head' \in Heads \ {"none"} /\ (Readable' => Readable) /\ Pending' = 0
      /\ \/ head = "whole" /\ ended /\ rows' = rows \cup {t} /\ Pending = 0
         \/ /\ rows' = rows \ tail
            /\ Readable' => Pending = 1 + Cardinality(tail)
  BY <1>1, RowCosts
<1>4. /\ hand[h] = {t} /\ t \in InHand /\ t \notin tail /\ trades \subseteq Made /\ t \in trades
      /\ \A u \in Threads : u # h => t \notin hand[u]
  BY HandHolds
<1>5. /\ DOMAIN hand = Threads
      /\ hand' = [u \in Threads |-> IF u = h THEN {} ELSE hand[u]]
      /\ hand' \in [Threads -> SUBSET TradeRecords]
  BY <1>2, HandsAreTrades, TypeParts DEF PaperWhole, HandsHoldOne, Recorded, Threads
<1>6. Recorded' /\ TradesAreLoggedOnce' /\ HandsHoldOne' /\ FileInOrder'
  <2>1. hand'[h] = {} /\ \A u \in Threads : hand'[u] \in {hand[u], {}}
    BY <1>5
  <2>2. /\ UNCHANGED <<trades, past>> /\ up' /\ judging' \in {judging, "nothing"}
        /\ counted' \in {counted, counted \cup {t}}
    BY <1>1, <1>2 DEF startVars
  <2>3. rows' \subseteq rows \cup {t} /\ tail' = {} /\ head' # "none"
        /\ (head' # "whole" => rows' = {} /\ ended')
    BY <1>3
  <2> QED
    BY <1>5, <2>1, <2>2, <2>3, HandsAndRows
<1>7. InHand' = InHand \ {t} /\ Made' = Made
  BY <1>2, <1>4, <1>5 DEF InHand, Threads, Made, startVars
<1>8. LossesAreKnown'
  <2> SUFFICES ASSUME Readable'
               PROVE  LossesAreKnown'
    BY DEF LossesAreKnown
  <2>1. CASE head = "whole" /\ ended /\ rows' = rows \cup {t} /\ Pending = 0
    <3>1. Missing' = Missing
      BY <1>4, <1>7, <2>1 DEF Missing
    <3> QED
      BY <1>2, <1>3, <2>1, <3>1 DEF PaperWhole, LossesAreKnown
  <2>2. CASE rows' = rows \ tail /\ Pending = 1 + Cardinality(tail)
    <3>1. IsFiniteSet(tail) /\ Cardinality(tail) \in Nat
      BY OneOrNone DEF PaperWhole, FileInOrder
    <3>2. IsFiniteSet(tail \cup {t}) /\ Cardinality(tail \cup {t}) = Cardinality(tail) + 1
      BY <1>4, <3>1, FS_AddElement
    <3>3. Missing' \subseteq Missing \cup (tail \cup {t})
      BY <1>4, <1>7, <2>2 DEF Missing
    <3> QED
      BY <1>2, <1>3, <2>2, <3>1, <3>2, <3>3, MissingIsFinite, Charged
  <2> QED
    BY <1>3, <2>1, <2>2
<1>9. PaperFiled'
  BY <1>6, <1>8 DEF PaperFiled
<1>10. up' \in BOOLEAN /\ ended' \in BOOLEAN /\ head' \in Heads /\ harm' \in Nat /\ harm' >= harm
  BY <1>2, <1>3, MissingIsFinite
<1> QED
  BY <1>2, <1>3, <1>9, <1>10, Filed

\* What a write that fails leaves of the file.
LEMMA CutLeaves ==
    ASSUME PaperWhole, NEW h \in Threads, NEW t \in hand[h], CutRow(t)
    PROVE  /\ rows' \subseteq rows \cup {t} /\ ended' \in BOOLEAN
           /\ tail' = {} \/ \E u \in rows' : tail' = {u}
           /\ ended' => tail' = {}
           /\ head' # "whole" => rows' = {} /\ ended'
           /\ head' \in Heads \ {"none"} /\ (Readable' => Readable)
<1>1. /\ ended \in BOOLEAN /\ (ended => tail = {}) /\ (tail = {} \/ \E u \in rows : tail = {u})
      /\ head \in Heads \ {"none"} /\ (head # "whole" => rows = {} /\ ended)
  BY HandHolds DEF PaperWhole, PaperTypeOK, FileInOrder
<1>2. CASE UNCHANGED fileVars
  <2>1. rows' = rows /\ ended' = ended /\ tail' = tail /\ head' = head
    BY <1>2 DEF fileVars
  <2> QED
    BY <1>1, <2>1 DEF Readable
<1>3. CASE AppendRow(t)
  BY <1>3, RowCosts
<1>4. CASE head = "whole" /\ rows' = rows \ tail /\ tail' = {} /\ ended' \in BOOLEAN /\ head' = head
  BY <1>1, <1>4 DEF Readable
<1>5. CASE head = "whole" /\ rows' = rows \cup {t} /\ tail' = {t} /\ ended' = FALSE /\ head' = head
  BY <1>1, <1>5 DEF Readable
<1>6. CASE head \in {"empty", "cut"} /\ head' \in {"cut", "ruined"} /\ UNCHANGED <<rows, ended, tail>>
  <2>1. rows' = {} /\ rows' \subseteq rows \cup {t} /\ ended' /\ tail' = {}
    BY <1>1, <1>6
  <2>2. head' \in Heads \ {"none"} /\ ~Readable'
    BY <1>6 DEF Heads, Readable
  <2> QED
    BY <1>1, <1>6, <2>1, <2>2
<1> QED
  BY <1>2, <1>3, <1>4, <1>5, <1>6 DEF CutRow

\* As far as it can cost trades: the trade itself, the row that was cut before
\* it, and the next one's turn.
LEMMA CutCosts ==
    ASSUME PaperWhole, NEW h \in Threads, NEW t \in hand[h], CutRow(t),
           NEW S, IsFiniteSet(S), Made' = Made, InHand \subseteq InHand' \cup S \cup {t},
           harm' = harm + 2 + Cardinality(S)
    PROVE  LossesAreKnown' /\ harm' \in Nat /\ harm' >= harm
<1>1. Cardinality(S) \in Nat /\ harm \in Nat /\ Pending \in Nat
  BY FS_CardinalityType, MissingIsFinite
<1>2. t \notin tail /\ IsFiniteSet(tail) /\ Cardinality(tail) \in Nat
  <2>1. tail = {} \/ \E u : tail = {u}
    BY DEF PaperWhole, FileInOrder
  <2>2. IsFiniteSet(tail) /\ Cardinality(tail) \in {0, 1}
    BY <2>1, OneOrNone
  <2> QED
    BY <2>2, HandHolds
<1>3. /\ IsFiniteSet(S \cup {t}) /\ Cardinality(S \cup {t}) \in Nat
      /\ Cardinality(S \cup {t}) <= Cardinality(S) + 1
  <2>1. IsFiniteSet({t}) /\ Cardinality({t}) = 1
    BY FS_Singleton
  <2> QED
    BY <2>1, Grows, FS_Union
<1>4. Readable' => Readable
  BY CutLeaves
<1>5. CASE UNCHANGED fileVars
  <2>1. Missing' \subseteq Missing \cup (S \cup {t}) /\ Pending' = Pending
    BY <1>5 DEF fileVars, Missing, Pending
  <2> QED
    BY <1>1, <1>3, <1>4, <2>1, Charged
<1>6. ASSUME rows \ tail \subseteq rows', Pending' \in {0, 1}
      PROVE  LossesAreKnown'
  <2>1. Missing' \subseteq Missing \cup ((S \cup {t}) \cup tail)
    BY <1>6 DEF Missing
  <2>2. /\ IsFiniteSet((S \cup {t}) \cup tail)
        /\ Cardinality((S \cup {t}) \cup tail) \in Nat
        /\ Cardinality((S \cup {t}) \cup tail) <= Cardinality(S) + 1 + Cardinality(tail)
    <3>1. IsFiniteSet((S \cup {t}) \cup tail)
      BY <1>2, <1>3, FS_Union
    <3>2. /\ Cardinality((S \cup {t}) \cup tail) \in Nat
          /\ Cardinality((S \cup {t}) \cup tail) <= Cardinality(S \cup {t}) + Cardinality(tail)
      BY <1>2, <1>3, Grows
    <3> QED
      BY <1>1, <1>2, <1>3, <3>1, <3>2
  <2>3. Pending >= Cardinality(tail)
    BY <1>2, FS_EmptySet DEF Pending, PaperWhole, FileInOrder
  <2> QED
    BY <1>1, <1>2, <1>4, <1>6, <2>1, <2>2, <2>3, Charged
<1>7. CASE AppendRow(t)
  <2>1. rows \ tail \subseteq rows' /\ Pending' = 0
    BY <1>7, RowCosts
  <2> QED
    BY <1>1, <1>6, <2>1
<1>8. CASE head = "whole" /\ rows' = rows \ tail /\ tail' = {} /\ ended' \in BOOLEAN /\ head' = head
  <2>1. Pending' \in {0, 1}
    BY <1>8, FS_EmptySet DEF Pending
  <2> QED
    BY <1>1, <1>6, <1>8, <2>1
<1>9. CASE /\ head = "whole" /\ ended /\ rows' = rows \cup {t} /\ tail' = {t}
           /\ ended' = FALSE /\ head' = head
  <2>1. Missing' \subseteq Missing \cup S
    BY <1>9 DEF Missing
  <2>2. Pending' = 2 /\ Pending = 0
    <3>1. Cardinality(tail') = 1 /\ ~ended' /\ ended
      BY <1>9, FS_Singleton
    <3> QED
      BY <1>9, <3>1 DEF Pending
  <2> QED
    BY <1>1, <1>4, <2>1, <2>2, Charged
<1>10. CASE head' \in {"cut", "ruined"}
  <2>1. ~Readable'
    BY <1>10 DEF Readable
  <2> QED
    BY <1>1, <2>1 DEF LossesAreKnown
<1> QED
  BY <1>1, <1>5, <1>7, <1>8, <1>9, <1>10 DEF CutRow

LEMMA ExecFails ==
    ASSUME PaperWhole, ExecLogFails
    PROVE  PaperWhole'
<1>1. PICK t \in hand["exec"] : CutRow(t)
  BY DEF ExecLogFails
<1>2. /\ up /\ hand' = [hand EXCEPT !["exec"] = {}] /\ harm' = harm + 2
      /\ UNCHANGED <<up, day, positions, trades, judging, metrics, counted, startVars>>
  BY DEF ExecLogFails
<1>3. "exec" \in Threads /\ IsFiniteSet({}) /\ Cardinality({}) = 0
  BY FS_EmptySet DEF Threads
<1>4. /\ rows' \subseteq rows \cup {t} /\ ended' \in BOOLEAN
      /\ tail' = {} \/ \E u \in rows' : tail' = {u}
      /\ ended' => tail' = {}
      /\ head' # "whole" => rows' = {} /\ ended'
      /\ head' \in Heads \ {"none"} /\ (Readable' => Readable)
  BY <1>1, <1>3, CutLeaves
<1>5. /\ DOMAIN hand = Threads
      /\ hand' = [u \in Threads |-> IF u = "exec" THEN {} ELSE hand[u]]
      /\ hand' \in [Threads -> SUBSET TradeRecords]
  BY <1>2, HandsAreTrades, TypeParts DEF PaperWhole, HandsHoldOne, Recorded, Threads
<1>6. Recorded' /\ TradesAreLoggedOnce' /\ HandsHoldOne' /\ FileInOrder'
  <2>1. hand'["exec"] = {} /\ \A u \in Threads : hand'[u] \in {hand[u], {}}
    BY <1>3, <1>5
  <2>2. /\ UNCHANGED <<trades, past>> /\ up' /\ judging' \in {judging, "nothing"}
        /\ counted' \in {counted, counted \cup {t}}
    BY <1>2 DEF startVars
  <2> QED
    BY <1>1, <1>3, <1>4, <1>5, <2>1, <2>2, HandsAndRows
<1>7. LossesAreKnown' /\ harm' \in Nat /\ harm' >= harm
  <2>1. hand["exec"] = {t}
    BY <1>1, <1>3, HandHolds
  <2>2. Made' = Made /\ InHand \subseteq InHand' \cup {} \cup {t}
    BY <1>2, <1>5, <2>1 DEF InHand, Threads, Made, startVars
  <2>3. harm' = harm + 2 + Cardinality({})
    BY <1>2, <1>3, MissingIsFinite
  <2> QED
    BY <1>1, <1>3, <2>2, <2>3, CutCosts
<1>8. PaperFiled'
  BY <1>6, <1>7 DEF PaperFiled
<1>9. up' \in BOOLEAN
  BY <1>2
<1> QED
  BY <1>2, <1>4, <1>7, <1>8, <1>9, Filed

\* The program is down: what its threads held is gone.
LEMMA Down ==
    ASSUME PaperWhole, Halt
    PROVE  /\ ~up' /\ up' \in BOOLEAN /\ judging' = "nothing" /\ Made' = Made /\ InHand' = {}
           /\ hand' = [h \in Threads |-> {}] /\ hand' \in [Threads -> SUBSET TradeRecords]
           /\ UNCHANGED <<day, positions, trades, counted, startVars, past>>
BY DEF Halt, InHand, Threads, Made, startVars

LEMMA MainFails ==
    ASSUME PaperWhole, MainLogFails
    PROVE  PaperWhole'
<1>1. PICK t \in hand["main"] : CutRow(t)
  BY DEF MainLogFails
<1>2. Halt /\ harm' = harm + 2 + Cardinality(hand["exec"])
  BY DEF MainLogFails
<1>3. "main" \in Threads
  BY DEF Threads
<1>4. /\ rows' \subseteq rows \cup {t} /\ ended' \in BOOLEAN
      /\ tail' = {} \/ \E u \in rows' : tail' = {u}
      /\ ended' => tail' = {}
      /\ head' # "whole" => rows' = {} /\ ended'
      /\ head' \in Heads \ {"none"} /\ (Readable' => Readable)
  BY <1>1, <1>3, CutLeaves
<1>5. Recorded' /\ TradesAreLoggedOnce' /\ HandsHoldOne' /\ FileInOrder'
  <2>1. hand'["main"] = {} /\ \A u \in Threads : hand'[u] \in {hand[u], {}} /\ hand'[u] = {}
    BY <1>2, <1>3, Down
  <2>2. /\ UNCHANGED <<trades, past>> /\ ~up' /\ judging' = "nothing" /\ counted' = counted
        /\ hand' \in [Threads -> SUBSET TradeRecords]
    BY <1>2, Down
  <2> QED
    BY <1>1, <1>3, <1>4, <2>1, <2>2, HandsAndRows
<1>6. LossesAreKnown' /\ harm' \in Nat /\ harm' >= harm
  <2>1. hand["main"] = {t}
    BY <1>1, <1>3, HandHolds
  <2>2. Made' = Made /\ InHand \subseteq InHand' \cup hand["exec"] \cup {t}
    BY <1>2, <2>1, Down DEF InHand
  <2> QED
    BY <1>1, <1>2, <1>3, <2>2, HandsAreTrades, CutCosts
<1>7. PaperFiled'
  BY <1>5, <1>6 DEF PaperFiled
<1> QED
  BY <1>2, <1>4, <1>6, <1>7, Down, Filed

\* The program ends, and with it what is in its threads' hands.
LEMMA Ended ==
    ASSUME PaperWhole, Stop \/ Kill
    PROVE  PaperWhole'
<1>1. Halt /\ UNCHANGED fileVars
  BY DEF Stop, Kill
<1>2. /\ ~up' /\ up' \in BOOLEAN /\ judging' = "nothing" /\ Made' = Made /\ InHand' = {}
      /\ hand' = [h \in Threads |-> {}]
      /\ UNCHANGED <<day, positions, trades, counted, startVars, past, head, rows, ended, tail>>
  BY <1>1, Down DEF fileVars
<1>3. Recorded'
  BY <1>2, TypeParts DEF PaperWhole, Recorded
<1>4. TradesAreLoggedOnce'
  <2>1. hand'["exec"] \cap hand'["main"] = {}
    BY <1>2 DEF Threads
  <2> QED
    BY <1>2, <2>1 DEF PaperWhole, TradesAreLoggedOnce
<1>5. HandsHoldOne'
  BY <1>2 DEF HandsHoldOne
<1>6. FileInOrder'
  BY <1>2 DEF PaperWhole, FileInOrder
<1>7. LossesAreKnown' /\ harm' \in Nat /\ harm' >= harm
  <2> DEFINE S == hand["exec"] \cup hand["main"]
             ce == Cardinality(hand["exec"])
             cm == Cardinality(hand["main"])
  <2>1. /\ IsFiniteSet(hand["exec"]) /\ ce \in {0, 1}
        /\ IsFiniteSet(hand["main"]) /\ cm \in {0, 1}
    BY HandsAreTrades
  <2>2. IsFiniteSet(S) /\ Cardinality(S) \in Nat /\ Cardinality(S) <= ce + cm
    <3>1. IsFiniteSet(S)
      BY <2>1, FS_Union
    <3> QED
      BY <2>1, <3>1, Grows
  <2>3. harm' = harm + ce + cm
    <3>1. CASE Stop
      <4>1. cm = 0 /\ harm' = harm + ce
        BY <3>1, FS_EmptySet DEF Stop
      <4> QED
        BY <2>1, <4>1, MissingIsFinite
    <3>2. CASE Kill
      BY <3>2 DEF Kill
    <3> QED
      BY <3>1, <3>2
  <2>4. Missing' \subseteq Missing \cup S
    BY <1>2 DEF Missing, InHand
  <2>5. Pending' = Pending /\ Readable' = Readable
    BY <1>2 DEF Pending, Readable
  <2> HIDE DEF S, ce, cm
  <2>6. harm' \in Nat /\ harm' >= harm /\ Cardinality(S) + Pending' - Pending <= harm' - harm
    BY <2>1, <2>2, <2>3, <2>5, MissingIsFinite
  <2> QED
    BY <2>2, <2>4, <2>5, <2>6, MissingIsFinite, Charged
<1>8. PaperFiled' /\ Readable' = Readable
  BY <1>2, <1>3, <1>4, <1>5, <1>6, <1>7 DEF PaperFiled, Readable
<1>9. ended' \in BOOLEAN /\ head' \in Heads
  BY <1>2 DEF PaperWhole, PaperTypeOK
<1> QED
  BY <1>2, <1>7, <1>8, <1>9, Filed

-----------------------------------------------------------------------------
(* The exec worker's own steps, the start, and the date.                   *)

\* A step that only the worker sees.
LEMMA OnlyJudging ==
    ASSUME PaperWhole, up, UNCHANGED <<up, day, positions, trades, hand, counted, fileVars,
                                       startVars, harm>>,
           judging' \in {"nothing", "pool", "token"},
           judging' # "nothing" => hand["exec"] = {}
    PROVE  PaperWhole'
<1> USE DEF fileVars, startVars
<1>1. PaperTypeOK'
  BY DEF PaperWhole, PaperTypeOK
<1>2. TradesAreLoggedOnce'
  BY DEF PaperWhole, TradesAreLoggedOnce, InHand, Made
<1>3. PositionsHaveTrades'
  BY DEF PaperWhole, PositionsHaveTrades
<1>4. HandsHoldOne'
  BY DEF PaperWhole, HandsHoldOne
<1>5. MadeInOrder' /\ FileInOrder'
  BY DEF PaperWhole, MadeInOrder, FileInOrder, Made
<1>6. Missing' = Missing /\ Pending' = Pending /\ Readable' = Readable
  BY DEF Missing, Pending, Made, InHand, Readable
<1>7. LossesAreKnown' /\ DayIsKnown'
  BY <1>6, DayStaysKnown, MissingIsFinite DEF PaperWhole, LossesAreKnown
<1> QED
  BY <1>1, <1>2, <1>3, <1>4, <1>5, <1>7 DEF PaperWhole

LEMMA AnotherDay ==
    ASSUME PaperWhole, NextDay
    PROVE  PaperWhole'
<1> USE DEF fileVars, startVars, sessionVars
<1>1. UNCHANGED <<up, sessionVars, fileVars, startVars, harm>> /\ day < LastDay /\ day' = day + 1
  BY DEF NextDay
<1>2. PaperTypeOK'
  <2>1. day \in 0..LastDay /\ LastDay \in Nat
    BY PaperAssumption DEF PaperAssumption, PaperWhole, PaperTypeOK
  <2>2. day' \in 0..LastDay
    BY <1>1, <2>1
  <2> QED
    BY <1>1, <2>2 DEF PaperWhole, PaperTypeOK
<1>3. TradesAreLoggedOnce' /\ PositionsHaveTrades'
  BY <1>1 DEF PaperWhole, TradesAreLoggedOnce, InHand, Made, PositionsHaveTrades
<1>4. HandsHoldOne'
  BY <1>1 DEF PaperWhole, HandsHoldOne
<1>5. MadeInOrder' /\ FileInOrder'
  BY <1>1 DEF PaperWhole, MadeInOrder, FileInOrder, Made
<1>6. Missing' = Missing /\ Pending' = Pending /\ Readable' = Readable
  BY <1>1 DEF Missing, Pending, Made, InHand, Readable
<1>7. LossesAreKnown' /\ DayIsKnown'
  BY <1>1, <1>6, DayStaysKnown, MissingIsFinite DEF PaperWhole, LossesAreKnown
<1> QED
  BY <1>2, <1>3, <1>4, <1>5, <1>7 DEF PaperWhole

\* A file that is created without its header is charged for the row that will
\* be taken for it.
LEMMA NotStarted ==
    ASSUME PaperWhole, StartFails
    PROVE  PaperWhole'
<1> USE DEF sessionVars, startVars
<1>1. /\ ~up /\ head = "none" /\ head' \in Heads \ {"none"}
      /\ harm' = harm + (IF head' = "empty" THEN 1 ELSE 0)
      /\ UNCHANGED <<up, day, sessionVars, rows, ended, tail, startVars>>
  BY DEF StartFails
<1>2. rows = {} /\ ended /\ tail = {} /\ Readable
  BY <1>1 DEF PaperWhole, FileInOrder, Readable
<1>3. harm \in Nat /\ harm' \in Nat /\ harm' >= harm
  BY <1>1, MissingIsFinite
<1>4. PaperTypeOK'
  BY <1>1, <1>3 DEF PaperWhole, PaperTypeOK
<1>5. TradesAreLoggedOnce' /\ PositionsHaveTrades'
  BY <1>1 DEF PaperWhole, TradesAreLoggedOnce, InHand, Made, PositionsHaveTrades
<1>6. HandsHoldOne'
  BY <1>1 DEF PaperWhole, HandsHoldOne
<1>7. MadeInOrder'
  BY <1>1 DEF PaperWhole, MadeInOrder, Made
<1>8. FileInOrder'
  BY <1>1, <1>2 DEF FileInOrder
<1>9. Missing' = Missing
  BY <1>1 DEF Missing, Made, InHand
<1>10. LossesAreKnown'
  <2>1. Pending = 0 /\ Pending' = IF head' = "empty" THEN 1 ELSE 0
    BY <1>1, <1>2 DEF Pending
  <2>2. Cardinality(Missing) \in Nat /\ Cardinality(Missing) + Pending <= harm
    BY <1>2, MissingIsFinite DEF PaperWhole, LossesAreKnown
  <2>3. Cardinality(Missing') + Pending' <= harm'
    BY <1>1, <1>3, <1>9, <2>1, <2>2
  <2> QED
    BY <2>3 DEF LossesAreKnown
<1>11. DayIsKnown'
  BY <1>1, <1>2, <1>3, DayStaysKnown
<1> QED
  BY <1>4, <1>5, <1>6, <1>7, <1>8, <1>10, <1>11 DEF PaperWhole

\* While nothing is in a hand, the rows are the trades that were made but for
\* the missing ones, so that the start sums the others of its day.
LEMMA Started ==
    ASSUME PaperWhole, Start
    PROVE  PaperWhole'
<1>1. /\ ~up /\ up' = TRUE /\ positions' = [i \in {} |-> 0]
      /\ trades' = {} /\ past' = Made /\ counted' = {}
      /\ head' = IF head = "none" THEN "whole" ELSE head
      /\ complete' => hydrated' = CalculateDailyPnl(day)
      /\ startDay' = day /\ complete' \in BOOLEAN
      /\ UNCHANGED <<day, judging, hand, rows, ended, tail, harm>>
  BY DEF Start, OpenLog
<1>2. Made' = Made
  BY <1>1 DEF Made
<1>3. judging = "nothing" /\ InHand = {} /\ InHand' = {} /\ \A h \in Threads : hand[h] = {}
  BY <1>1 DEF PaperWhole, HandsHoldOne, InHand, Threads
<1>4. Recorded'
  BY <1>1, TypeParts DEF PaperWhole, Recorded, Made
<1>5. head \in Heads /\ head' \in Heads \ {"none"} /\ Readable' = Readable
  BY <1>1 DEF PaperWhole, PaperTypeOK, Heads, Readable
<1>6. PaperTypeOK'
  <2>1. (PaperTypeOK <=> /\ {up, ended, complete} \subseteq BOOLEAN /\ head \in Heads
                         /\ {day, startDay} \subseteq 0..LastDay
                         /\ judging \in {"nothing", "pool", "token"}
                         /\ PositionsTyped /\ Recorded /\ harm \in Nat)'
    BY TypeParts, PTL
  <2>2. DOMAIN positions' = {}
    BY <1>1
  <2>3. PositionsTyped'
    BY <2>2 DEF PositionsTyped
  <2> QED
    BY <1>1, <1>4, <1>5, <2>1, <2>3, TypeParts DEF PaperWhole
<1>7. TradesAreLoggedOnce'
  BY <1>1, <1>2, <1>3 DEF PaperWhole, TradesAreLoggedOnce
<1>8. PositionsHaveTrades'
  <2>1. DOMAIN positions' = {}
    BY <1>1
  <2> QED
    BY <2>1 DEF PositionsHaveTrades
<1>9. HandsHoldOne'
  BY <1>1, <1>3 DEF PaperWhole, HandsHoldOne
<1>10. MadeInOrder' /\ FileInOrder'
  BY <1>1, <1>2, <1>5 DEF PaperWhole, MadeInOrder, FileInOrder
<1>11. Missing' = Missing /\ Pending' = Pending
  BY <1>1, <1>2, <1>3 DEF Missing, Pending
<1>12. LossesAreKnown'
  BY <1>1, <1>5, <1>11 DEF PaperWhole, LossesAreKnown
<1>13. rows = Made \ Missing /\ Missing \subseteq Made
  BY <1>3 DEF Missing, PaperWhole, TradesAreLoggedOnce
<1>14. DayIsKnown'
  <2> SUFFICES ASSUME complete', Readable'
               PROVE  \E lost \in SUBSET past' :
                        /\ Cardinality(lost) <= harm'
                        /\ hydrated' = Total({t \in past' \ lost : t.day = startDay'})
    BY DEF DayIsKnown
  <2>1. Cardinality(Missing) + Pending <= harm
    BY <1>5 DEF PaperWhole, LossesAreKnown
  <2>2. Cardinality(Missing) <= harm'
    BY <1>1, <2>1, MissingIsFinite
  <2>3. hydrated' = Total({t \in past' \ Missing : t.day = startDay'})
    BY <1>1, <1>13 DEF CalculateDailyPnl
  <2> QED
    BY <1>1, <1>13, <2>2, <2>3
<1> QED
  BY <1>6, <1>7, <1>8, <1>9, <1>10, <1>12, <1>14 DEF PaperWhole

-----------------------------------------------------------------------------
(* The theorems.                                                           *)

LEMMA NothingMade == Total({}) = 0
BY DEF Total, FoldSet, MapThenFoldSet

LEMMA PaperStarts ==
    ASSUME PaperInit
    PROVE  PaperWhole
<1>1. PaperTypeOK
  <2>1. LastDay \in Nat
    BY PaperAssumption DEF PaperAssumption
  <2>2. {day, startDay} \subseteq 0..LastDay
    BY <2>1 DEF PaperInit
  <2>3. DOMAIN positions = {}
    BY DEF PaperInit
  <2> QED
    BY <2>2, <2>3 DEF PaperInit, PaperTypeOK, Heads
<1>2. InHand = {} /\ Made = {}
  BY DEF PaperInit, InHand, Made, Threads
<1>3. TradesAreLoggedOnce
  BY <1>2 DEF PaperInit, TradesAreLoggedOnce, Threads
<1>4. PositionsHaveTrades
  <2>1. DOMAIN positions = {}
    BY DEF PaperInit
  <2> QED
    BY <2>1 DEF PositionsHaveTrades
<1>5. HandsHoldOne
  BY DEF PaperInit, HandsHoldOne
<1>6. MadeInOrder /\ FileInOrder
  BY <1>2, FS_EmptySet DEF PaperInit, MadeInOrder, FileInOrder
<1>7. LossesAreKnown
  <2>1. Cardinality(Missing) = 0 /\ Pending = 0 /\ harm = 0
    BY <1>2, FS_EmptySet DEF PaperInit, Missing, Pending
  <2> QED
    BY <2>1 DEF LossesAreKnown
<1>8. DayIsKnown
  <2>1. past = {} /\ hydrated = 0 /\ harm = 0
    BY DEF PaperInit
  <2>2. {t \in past \ {} : t.day = startDay} = {} /\ Cardinality({}) <= harm
    BY <2>1, FS_EmptySet
  <2> QED
    BY <2>1, <2>2, NothingMade DEF DayIsKnown
<1> QED
  BY <1>1, <1>3, <1>4, <1>5, <1>6, <1>7, <1>8 DEF PaperWhole
LEMMA StepsKeepPaper ==
    ASSUME PaperWhole, PaperNext
    PROVE  PaperWhole'
<1>1. CASE \E kind \in {"pool", "token"} : Judge(kind)
  BY <1>1, OnlyJudging DEF Judge
<1>2. CASE PoolSkipped
  BY <1>2, OnlyJudging DEF PoolSkipped
<1>3. CASE \E i \in Ids : PoolBought(i) \/ TokenBought(i)
  BY <1>3, Opened DEF PoolBought, TokenBought
<1>4. CASE \E key \in Ids \cup PoolIds, g \in Gains : PriceUpdate(key, g)
  BY <1>4, Sold
<1>5. CASE \E h \in Threads : LogTrade(h)
  BY <1>5, Logged
<1>6. CASE ExecLogFails \/ MainLogFails
  BY <1>6, ExecFails, MainFails
<1>7. CASE Stop \/ Kill
  BY <1>7, Ended
<1>8. CASE StartFails \/ Start \/ NextDay
  BY <1>8, NotStarted, Started, AnotherDay
<1> QED
  BY <1>1, <1>2, <1>3, <1>4, <1>5, <1>6, <1>7, <1>8 DEF PaperNext

LEMMA PaperStutters ==
    ASSUME PaperWhole, UNCHANGED paperVars
    PROVE  PaperWhole'
<1> USE DEF paperVars, sessionVars, fileVars, startVars
<1>1. PaperTypeOK' /\ TradesAreLoggedOnce' /\ PositionsHaveTrades'
  BY DEF PaperWhole, PaperTypeOK, TradesAreLoggedOnce, PositionsHaveTrades, InHand, Made
<1>2. HandsHoldOne' /\ MadeInOrder' /\ FileInOrder'
  BY DEF PaperWhole, HandsHoldOne, MadeInOrder, FileInOrder, Made
<1>3. LossesAreKnown' /\ DayIsKnown'
  BY DEF PaperWhole, LossesAreKnown, DayIsKnown, Missing, Pending, Made, InHand, Readable
<1> QED
  BY <1>1, <1>2, <1>3 DEF PaperWhole

LEMMA PaperKeeps == PaperSpec => []PaperWhole
<1>1. PaperInit => PaperWhole
  BY PaperStarts
<1>2. PaperWhole /\ [PaperNext]_paperVars => PaperWhole'
  BY StepsKeepPaper, PaperStutters
<1> QED
  BY <1>1, <1>2, PTL DEF PaperSpec

\* Whatever the two threads, the prices, failing writes, stops and restarts do
\* in whatever order: a trade that PaperTrader made is in one hand, or logged,
\* or lost, and never two of these, and every position has its one purchase
\* and is open exactly until its first sale.
THEOREM PaperIsOrdered == PaperSpec => []PaperInv
<1>1. PaperWhole => PaperInv
  BY DEF PaperWhole, PaperInv
<1> QED
  BY <1>1, PaperKeeps, PTL

\* TradeLogger::log_trade and the ends of the process lose no more trades than
\* the failures are charged with: two for a write that fails, one for a file
\* that was created without its header, and what was in the hands of the
\* threads that an end caught.  A first line that was left cut is excepted,
\* which TradeLogger::new or the first row after an empty start may leave.
THEOREM FaultsAlwaysLoseFew == PaperSpec => []FaultsLoseFew
<1>1. PaperWhole => FaultsLoseFew
  <2> SUFFICES ASSUME PaperWhole, Readable
               PROVE  Cardinality(Missing) <= harm
    BY DEF FaultsLoseFew, Missing
  <2>1. Cardinality(Missing) + Pending <= harm
    BY DEF PaperWhole, LossesAreKnown
  <2> QED
    BY <2>1, MissingIsFinite
<1> QED
  BY <1>1, PaperKeeps, PTL

\* The sum that calculate_daily_pnl hands to the loss limit at a start is that
\* of the whole day but for trades no more than the failures are charged with,
\* however the trades and the dates of the sessions before it fell, as long as
\* the log can be read to its end and its first line is not a cut one.
THEOREM DayAlwaysKnown == PaperSpec => []DayIsKnown
<1>1. PaperWhole => DayIsKnown
  BY DEF PaperWhole
<1> QED
  BY <1>1, PaperKeeps, PTL

-----------------------------------------------------------------------------
(* What the fold of Total adds up to, by induction over the cardinality of *)
(* a set of trades, as the descent from a least one that would be wrong.   *)

Numbers == Int \cup {Infinite, Undefined}

LEMMA PlusIsASum ==
    ASSUME NEW a \in Numbers, NEW b \in Numbers, NEW c \in Numbers
    PROVE  /\ Plus(a, b) \in Numbers /\ Plus(a, b) = Plus(b, a)
           /\ Plus(a, Plus(b, c)) = Plus(b, Plus(a, c))
BY PaperAssumption DEF Plus, Numbers

LEMMA PnlIsNumber ==
    ASSUME NEW t \in TradeRecords
    PROVE  t.pnl \in Numbers
<1>1. t.pnl \in Gains \cup {0, Infinite, Undefined}
  BY DEF TradeRecords
<1>2. Gains \subseteq Numbers /\ {0, Infinite, Undefined} \subseteq Numbers
  BY PaperAssumption DEF Numbers
<1> QED
  BY <1>1, <1>2, Zenon

LEMMA LeastNatural ==
    ASSUME NEW S, S \subseteq Nat, S # {}
    PROVE  \E m \in S : \A n \in S : m <= n
<1>1. PICK m \in S : \A n \in S : <<n, m>> \notin OpToRel(<, Nat)
  BY NatLessThanWellFounded, WFMin
<1>2. ASSUME NEW n \in S
      PROVE  m <= n
  <2>1. n \in Nat /\ m \in Nat
    OBVIOUS
  <2>2. ~ (n < m)
    BY <1>1, <2>1 DEF OpToRel
  <2> QED
    BY <2>1, <2>2
<1> QED
  BY <1>2

\* Of finite sets there is one that no other of them is smaller than.
LEMMA LeastSet ==
    ASSUME NEW F, F # {}, \A s \in F : IsFiniteSet(s)
    PROVE  \E m \in F : \A s \in F : Cardinality(m) <= Cardinality(s)
<1> DEFINE Sizes == {Cardinality(s) : s \in F}
<1>1. Sizes \subseteq Nat /\ Sizes # {}
  BY FS_CardinalityType
<1>2. PICK n \in Sizes : \A k \in Sizes : n <= k
  <2> HIDE DEF Sizes
  <2> QED
    BY <1>1, LeastNatural
<1>3. PICK m \in F : Cardinality(m) = n
  OBVIOUS
<1> QED
  BY <1>2, <1>3

Picked(s) == CHOOSE x \in s : TRUE

\* g folds the results of every set of trades in Sets.
Folds(g, Sets) ==
    g = [s \in Sets |->
            IF s = {} THEN 0 ELSE Plus(Picked(s).pnl, g[s \ {Picked(s)}])]

UpToSize(T, n) == {s \in SUBSET T : Cardinality(s) <= n}

LEMMA FewerWithout ==
    ASSUME NEW T, IsFiniteSet(T), NEW s \in SUBSET T, NEW x \in s
    PROVE  /\ IsFiniteSet(s) /\ s \ {x} \in SUBSET T
           /\ Cardinality(s) \in Nat /\ Cardinality(s \ {x}) \in Nat
           /\ Cardinality(s \ {x}) = Cardinality(s) - 1
<1>1. IsFiniteSet(s)
  BY FS_Subset
<1> QED
  BY <1>1, FS_RemoveElement, FS_CardinalityType

LEMMA PickedIsIn ==
    ASSUME NEW s, s # {}
    PROVE  Picked(s) \in s
BY DEF Picked

LEMMA FoldsExtend ==
    ASSUME NEW T, IsFiniteSet(T), NEW n \in Nat, NEW g, Folds(g, UpToSize(T, n))
    PROVE  \E h : Folds(h, UpToSize(T, n + 1))
<1> DEFINE Body(f, s) == IF s = {} THEN 0 ELSE Plus(Picked(s).pnl, f[s \ {Picked(s)}])
           h == [s \in UpToSize(T, n + 1) |->
                    IF Cardinality(s) <= n THEN g[s]
                    ELSE Plus(Picked(s).pnl, g[s \ {Picked(s)}])]
<1>1. ASSUME NEW s \in SUBSET T
      PROVE  Cardinality(s) \in Nat
  BY FS_Subset, FS_CardinalityType
<1>2. ASSUME NEW s \in UpToSize(T, n)
      PROVE  h[s] = g[s] /\ g[s] = Body(g, s)
  <2>1. s \in UpToSize(T, n + 1) /\ Cardinality(s) <= n
    BY <1>1 DEF UpToSize
  <2>2. g = [t \in UpToSize(T, n) |-> Body(g, t)]
    BY DEF Folds
  <2> QED
    BY <2>1, <2>2
<1>3. ASSUME NEW s \in UpToSize(T, n + 1), s # {}
      PROVE  s \ {Picked(s)} \in UpToSize(T, n)
  <2>1. s \in SUBSET T /\ Cardinality(s) <= n + 1 /\ Picked(s) \in s
    BY <1>3, PickedIsIn DEF UpToSize
  <2> QED
    BY <2>1, FewerWithout DEF UpToSize
<1>4. ASSUME NEW s \in UpToSize(T, n + 1)
      PROVE  h[s] = Body(h, s)
  <2>1. CASE s = {}
    <3>1. s \in UpToSize(T, n)
      BY <2>1, FS_EmptySet DEF UpToSize
    <3> QED
      BY <2>1, <3>1, <1>2
  <2>2. CASE s # {} /\ Cardinality(s) <= n
    <3>1. s \in UpToSize(T, n)
      BY <2>2 DEF UpToSize
    <3>2. h[s \ {Picked(s)}] = g[s \ {Picked(s)}]
      BY <2>2, <1>2, <1>3
    <3> QED
      BY <2>2, <3>1, <3>2, <1>2
  <2>3. CASE s # {} /\ ~ (Cardinality(s) <= n)
    <3>1. h[s] = Plus(Picked(s).pnl, g[s \ {Picked(s)}])
      BY <2>3
    <3>2. h[s \ {Picked(s)}] = g[s \ {Picked(s)}]
      BY <2>3, <1>2, <1>3
    <3> QED
      BY <2>3, <3>1, <3>2
  <2> QED
    BY <2>1, <2>2, <2>3
<1>5. h = [s \in UpToSize(T, n + 1) |-> h[s]]
  OBVIOUS
<1>6. h = [s \in UpToSize(T, n + 1) |-> Body(h, s)]
  BY <1>4, <1>5
<1> QED
  BY <1>6 DEF Folds

LEMMA FoldsExist ==
    ASSUME NEW T, IsFiniteSet(T)
    PROVE  \E g : Folds(g, SUBSET T)
<1>1. ASSUME NEW n \in Nat
      PROVE  \E g : Folds(g, UpToSize(T, n))
  <2> DEFINE Bad == {k \in Nat : ~ \E g : Folds(g, UpToSize(T, k))}
  <2> SUFFICES ASSUME Bad # {}
               PROVE  FALSE
    OBVIOUS
  <2>1. PICK m \in Bad : \A k \in Bad : m <= k
    BY LeastNatural
  <2>2. CASE m = 0
    <3> DEFINE g == [s \in UpToSize(T, 0) |-> 0]
    <3>1. ASSUME NEW s \in UpToSize(T, 0)
          PROVE  s = {}
      <4>1. s \in SUBSET T /\ IsFiniteSet(s) /\ Cardinality(s) <= 0
        BY FS_Subset DEF UpToSize
      <4> QED
        BY <4>1, FS_CardinalityType, FS_EmptySet
    <3>2. Folds(g, UpToSize(T, 0))
      BY <3>1 DEF Folds
    <3> QED
      BY <2>2, <3>2
  <2>3. CASE m # 0
    <3>1. m - 1 \in Nat /\ m - 1 \notin Bad /\ (m - 1) + 1 = m
      BY <2>1, <2>3
    <3>2. \E g : Folds(g, UpToSize(T, m - 1))
      BY <3>1
    <3>3. \E g : Folds(g, UpToSize(T, m))
      BY <3>1, <3>2, FoldsExtend
    <3> QED
      BY <3>3
  <2> QED
    BY <2>2, <2>3
<1>2. UpToSize(T, Cardinality(T)) = SUBSET T
  BY FS_Subset, FS_CardinalityType DEF UpToSize
<1>3. Cardinality(T) \in Nat
  BY FS_CardinalityType
<1>4. \E g : Folds(g, UpToSize(T, Cardinality(T)))
  BY <1>1, <1>3
<1> QED
  BY <1>2, <1>4

LEMMA TotalFolds ==
    ASSUME NEW T, IsFiniteSet(T)
    PROVE  \E g : Folds(g, SUBSET T) /\ Total(T) = g[T]
<1>1. \E h : Folds(h, SUBSET T)
  BY FoldsExist
<1> QED
  BY <1>1 DEF Total, FoldSet, MapThenFoldSet, Folds, Picked

\* The order in which the trades are picked does not matter.
LEMMA FoldsInAnyOrder ==
    ASSUME NEW T, IsFiniteSet(T), T \subseteq TradeRecords, NEW g, Folds(g, SUBSET T)
    PROVE  \A s \in SUBSET T :
              g[s] \in Numbers /\ \A x \in s : g[s] = Plus(x.pnl, g[s \ {x}])
<1> DEFINE Good(s) == g[s] \in Numbers /\ \A x \in s : g[s] = Plus(x.pnl, g[s \ {x}])
           Bad == {s \in SUBSET T : ~ Good(s)}
<1> SUFFICES ASSUME Bad # {}
             PROVE  FALSE
  OBVIOUS
<1>1. PICK s \in Bad : \A r \in Bad : Cardinality(s) <= Cardinality(r)
  <2>1. \A r \in Bad : IsFiniteSet(r)
    BY FS_Subset
  <2> HIDE DEF Bad
  <2> QED
    BY <2>1, LeastSet
<1>2. ASSUME NEW x \in s
      PROVE  Good(s \ {x}) /\ s \ {x} \in SUBSET T /\ x.pnl \in Numbers
  <2>1. s \ {x} \in SUBSET T /\ ~ (Cardinality(s) <= Cardinality(s \ {x}))
    BY FewerWithout
  <2>2. s \ {x} \notin Bad
    BY <1>1, <2>1
  <2> QED
    BY <2>1, <2>2, PnlIsNumber
<1>3. s # {}
  <2> SUFFICES ASSUME s = {}
               PROVE  FALSE
    OBVIOUS
  <2>1. g[s] = 0
    BY DEF Folds
  <2> QED
    BY <2>1 DEF Numbers
<1> DEFINE c == Picked(s)
<1>4. c \in s
  BY <1>3, PickedIsIn
<1>5. g[s] = Plus(c.pnl, g[s \ {c}])
  BY <1>3 DEF Folds
<1>6. g[s] \in Numbers
  BY <1>2, <1>4, <1>5, PlusIsASum
<1>7. ASSUME NEW x \in s
      PROVE  g[s] = Plus(x.pnl, g[s \ {x}])
  <2>1. CASE x = c
    BY <1>5, <2>1
  <2>2. CASE x # c
    <3> HIDE DEF c
    <3>1. x \in s \ {c} /\ c \in s \ {x}
      BY <1>4, <2>2
    <3>2. (s \ {c}) \ {x} = (s \ {x}) \ {c}
      OBVIOUS
    <3> DEFINE r == g[(s \ {c}) \ {x}]
    <3>3. g[s \ {c}] = Plus(x.pnl, r)
      BY <1>2, <1>4, <3>1
    <3>4. g[s \ {x}] = Plus(c.pnl, r)
      <4>1. g[s \ {x}] = Plus(c.pnl, g[(s \ {x}) \ {c}])
        BY <1>2, <3>1
      <4> QED
        BY <4>1, <3>2
    <3>5. r \in Numbers
      <4>1. (s \ {c}) \ {x} \in SUBSET T
        OBVIOUS
      <4>2. Cardinality((s \ {c}) \ {x}) < Cardinality(s)
        <5>1. s \ {c} \in SUBSET T
          OBVIOUS
        <5>2. /\ Cardinality(s \ {c}) = Cardinality(s) - 1
              /\ Cardinality(s) \in Nat
          BY <1>4, FewerWithout
        <5>3. /\ Cardinality((s \ {c}) \ {x}) = Cardinality(s \ {c}) - 1
              /\ Cardinality((s \ {c}) \ {x}) \in Nat
          BY <3>1, <5>1, FewerWithout
        <5> QED
          BY <5>2, <5>3
      <4>3. (s \ {c}) \ {x} \notin Bad
        <5>1. /\ Cardinality(s) \in Nat /\ Cardinality((s \ {c}) \ {x}) \in Nat
          BY FS_Subset, FS_CardinalityType
        <5>2. ASSUME (s \ {c}) \ {x} \in Bad
              PROVE  FALSE
          <6>1. Cardinality(s) <= Cardinality((s \ {c}) \ {x})
            BY <1>1, <5>2
          <6> QED
            BY <4>2, <5>1, <6>1
        <5> QED
          BY <5>2
      <4> QED
        BY <4>1, <4>3
    <3> HIDE DEF r
    <3>6. x.pnl \in Numbers /\ c.pnl \in Numbers
      BY <1>2, <1>4
    <3>7. Plus(c.pnl, Plus(x.pnl, r)) = Plus(x.pnl, Plus(c.pnl, r))
      <4>1. \A a, b, d \in Numbers : Plus(a, Plus(b, d)) = Plus(b, Plus(a, d))
        BY PlusIsASum
      <4> QED
        BY <3>5, <3>6, <4>1
    <3> QED
      BY <1>5, <3>3, <3>4, <3>7
  <2> QED
    BY <2>1, <2>2
<1> QED
  BY <1>6, <1>7

\* What a set of trades adds up to does not depend on the larger set.
LEMMA FoldsAgree ==
    ASSUME NEW T, NEW U, T \subseteq U, IsFiniteSet(U),
           NEW g, NEW h, Folds(g, SUBSET T), Folds(h, SUBSET U)
    PROVE  \A s \in SUBSET T : g[s] = h[s]
<1> DEFINE Bad == {s \in SUBSET T : g[s] # h[s]}
<1> SUFFICES ASSUME Bad # {}
             PROVE  FALSE
  OBVIOUS
<1>1. IsFiniteSet(T)
  BY FS_Subset
<1>2. PICK s \in Bad : \A r \in Bad : Cardinality(s) <= Cardinality(r)
  <2>1. \A r \in Bad : IsFiniteSet(r)
    BY <1>1, FS_Subset
  <2> HIDE DEF Bad
  <2> QED
    BY <2>1, LeastSet
<1>3. s \in SUBSET T /\ s \in SUBSET U
  OBVIOUS
<1>4. CASE s = {}
  <2>1. g[s] = 0 /\ h[s] = 0
    BY <1>3, <1>4 DEF Folds
  <2> QED
    BY <2>1
<1>5. CASE s # {}
  <2> DEFINE c == Picked(s)
  <2>1. c \in s
    BY <1>5, PickedIsIn
  <2>2. g[s] = Plus(c.pnl, g[s \ {c}]) /\ h[s] = Plus(c.pnl, h[s \ {c}])
    BY <1>3, <1>5 DEF Folds
  <2> HIDE DEF c
  <2>3. s \ {c} \notin Bad
    BY <1>1, <1>2, <1>3, <2>1, FewerWithout
  <2>4. g[s \ {c}] = h[s \ {c}]
    BY <1>3, <2>3
  <2> QED
    BY <2>2, <2>4
<1> QED
  BY <1>4, <1>5

\* One more trade adds its result.
LEMMA TotalAdds ==
    ASSUME NEW T, IsFiniteSet(T), T \subseteq TradeRecords, NEW t \in TradeRecords, t \notin T
    PROVE  Total(T \cup {t}) = Plus(Total(T), t.pnl)
<1> DEFINE U == T \cup {t}
<1>1. IsFiniteSet(U) /\ U \subseteq TradeRecords /\ T \subseteq U /\ U \ {t} = T /\ t \in U
  BY FS_AddElement
<1> HIDE DEF U
<1>2. PICK g : Folds(g, SUBSET T) /\ Total(T) = g[T]
  BY TotalFolds
<1>3. PICK h : Folds(h, SUBSET U) /\ Total(U) = h[U]
  BY <1>1, TotalFolds
<1>4. h[U] = Plus(t.pnl, h[T]) /\ h[T] \in Numbers
  <2>1. \A s \in SUBSET U : h[s] \in Numbers /\ \A x \in s : h[s] = Plus(x.pnl, h[s \ {x}])
    BY <1>1, <1>3, FoldsInAnyOrder
  <2>2. U \in SUBSET U /\ T \in SUBSET U
    BY <1>1
  <2> QED
    BY <1>1, <2>1, <2>2
<1>5. g[T] = h[T]
  BY <1>1, <1>2, <1>3, FoldsAgree
<1>6. Plus(t.pnl, h[T]) = Plus(h[T], t.pnl)
  BY <1>4, PnlIsNumber, PlusIsASum
<1> QED
  BY <1>2, <1>3, <1>4, <1>5, <1>6 DEF U
-----------------------------------------------------------------------------
(* The logger's figures.                                                   *)

LEMMA MaxIs ==
    ASSUME NEW S, S \subseteq Int, NEW m \in S, \A x \in S : m >= x
    PROVE  Max(S) = m
<1>1. ASSUME NEW y \in S, \A x \in S : y >= x
      PROVE  y = m
  <2>1. y >= m /\ m >= y /\ y \in Int /\ m \in Int
    BY <1>1
  <2> QED
    BY <2>1
<1> QED
  BY <1>1 DEF Max

LEMMA MinIs ==
    ASSUME NEW S, S \subseteq Int, NEW m \in S, \A x \in S : m <= x
    PROVE  Min(S) = m
<1>1. ASSUME NEW y \in S, \A x \in S : y <= x
      PROVE  y = m
  <2>1. y <= m /\ m <= y /\ y \in Int /\ m \in Int
    BY <1>1
  <2> QED
    BY <2>1
<1> QED
  BY <1>1 DEF Min

Winners(T) == {t \in T : Won(t)}
Losers(T) == {t \in T : Lost(t)}
Endless(T) == \E t \in T : t.pnl = Infinite

WinsOf(T) == {0} \cup {t.pnl : t \in Winners(T)}
LossesOf(T) == {0} \cup {t.pnl : t \in Losers(T)}

IsBest(m, T) ==
    /\ Endless(T) => m = Infinite
    /\ ~Endless(T) => m \in WinsOf(T) /\ \A x \in WinsOf(T) : m >= x

IsWorst(m, T) == m \in LossesOf(T) /\ \A x \in LossesOf(T) : m <= x

\* The figures, with the extremes told by what they are: in the summary they
\* are the Max and Min of a set, of which only a trade's own arrival tells
\* that it has one.
MetricsWhole ==
    /\ metrics = [total |-> Cardinality(counted),
                  wins |-> Cardinality(Winners(counted)),
                  losses |-> Cardinality(Losers(counted)),
                  pnl |-> Total(counted),
                  best |-> metrics.best, worst |-> metrics.worst]
    /\ IsBest(metrics.best, counted)
    /\ IsWorst(metrics.worst, counted)

LEMMA CountedIsFinite ==
    ASSUME PaperWhole
    PROVE  IsFiniteSet(counted) /\ counted \subseteq TradeRecords
<1>1. counted \subseteq Made
  BY DEF PaperWhole, TradesAreLoggedOnce, Made
<1>2. IsFiniteSet(Made)
  BY DEF PaperWhole, MadeInOrder
<1>3. counted \subseteq TradeRecords
  BY TypeParts DEF PaperWhole, Recorded
<1> QED
  BY <1>1, <1>2, <1>3, FS_Subset

\* The results of trades that are not endless are numbers.
LEMMA ResultsAreInts ==
    ASSUME NEW T, T \subseteq TradeRecords
    PROVE  /\ ~Endless(T) => WinsOf(T) \subseteq Int
           /\ LossesOf(T) \subseteq Int
<1> QED
  BY DEF Endless, WinsOf, LossesOf, Winners, Losers, Won, Lost

LEMMA WholeTells ==
    ASSUME PaperWhole, MetricsWhole
    PROVE  MetricsTellTheTrades
<1> DEFINE won == Winners(counted)
           lost == Losers(counted)
<1>1. counted \subseteq TradeRecords
  BY CountedIsFinite
<1>2. Endless(won) <=> Endless(counted)
  BY DEF Endless, Winners, Won
<1>3. metrics.best = IF Endless(won) THEN Infinite ELSE Max(WinsOf(counted))
  <2>1. CASE Endless(counted)
    BY <1>2, <2>1 DEF MetricsWhole, IsBest
  <2>2. CASE ~Endless(counted)
    <3>1. Max(WinsOf(counted)) = metrics.best
      BY <1>1, <2>2, ResultsAreInts, MaxIs DEF MetricsWhole, IsBest
    <3> QED
      BY <1>2, <2>2, <3>1
  <2> QED
    BY <2>1, <2>2
<1>4. metrics.worst = Min(LossesOf(counted))
  BY <1>1, ResultsAreInts, MinIs DEF MetricsWhole, IsWorst
<1>5. Summary(counted) =
        [total |-> Cardinality(counted), wins |-> Cardinality(won),
         losses |-> Cardinality(lost), pnl |-> Total(counted),
         best |-> IF Endless(won) THEN Infinite ELSE Max(WinsOf(counted)),
         worst |-> Min(LossesOf(counted))]
  BY DEF Summary, Winners, Losers, Endless, WinsOf, LossesOf
<1> QED
  BY <1>3, <1>4, <1>5 DEF MetricsWhole, MetricsTellTheTrades

LEMMA BestAdds ==
    ASSUME NEW T, T \subseteq TradeRecords, NEW t \in TradeRecords, NEW m, IsBest(m, T)
    PROVE  IsBest(IF ~Won(t) THEN m ELSE IF Infinite \in {t.pnl, m} THEN Infinite ELSE Max({t.pnl, m}),
                  T \cup {t})
<1> DEFINE U == T \cup {t}
<1>1. Endless(U) <=> Endless(T) \/ t.pnl = Infinite
  BY DEF Endless
<1>2. CASE ~Won(t)
  <2>1. t.pnl # Infinite /\ WinsOf(U) = WinsOf(T)
    BY <1>2 DEF Won, WinsOf, Winners
  <2> QED
    BY <1>1, <1>2, <2>1 DEF IsBest
<1>3. CASE Won(t) /\ (Endless(T) \/ t.pnl = Infinite)
  BY <1>1, <1>3 DEF IsBest
<1>4. CASE Won(t) /\ ~ Endless(T) /\ t.pnl # Infinite
  <2>1. t.pnl \in Int /\ t.pnl > 0
    BY <1>4 DEF Won
  <2>2. m \in WinsOf(T) /\ (\A x \in WinsOf(T) : m >= x) /\ WinsOf(T) \subseteq Int
    BY <1>4, ResultsAreInts DEF IsBest
  <2>3. m \in Int /\ m # Infinite
    BY <2>2, PaperAssumption DEF PaperAssumption
  <2>4. WinsOf(U) = WinsOf(T) \cup {t.pnl}
    BY <1>4 DEF WinsOf, Winners
  <2>5. CASE t.pnl > m
    <3>1. Max({t.pnl, m}) = t.pnl
      <4>1. \A x \in {t.pnl, m} : t.pnl >= x
        BY <2>1, <2>3, <2>5
      <4> QED
        BY <2>1, <2>3, <4>1, MaxIs
    <3>2. t.pnl \in WinsOf(U) /\ \A x \in WinsOf(U) : t.pnl >= x
      BY <2>1, <2>2, <2>3, <2>4, <2>5
    <3> QED
      BY <1>1, <1>4, <2>3, <3>1, <3>2 DEF IsBest
  <2>6. CASE ~ (t.pnl > m)
    <3>1. Max({t.pnl, m}) = m
      BY <2>1, <2>3, <2>6, MaxIs
    <3>2. m \in WinsOf(U) /\ \A x \in WinsOf(U) : m >= x
      BY <2>1, <2>2, <2>3, <2>4, <2>6
    <3> QED
      BY <1>1, <1>4, <2>3, <3>1, <3>2 DEF IsBest
  <2> QED
    BY <2>5, <2>6
<1> QED
  BY <1>2, <1>3, <1>4

LEMMA WorstAdds ==
    ASSUME NEW T, T \subseteq TradeRecords, NEW t \in TradeRecords, NEW m, IsWorst(m, T)
    PROVE  IsWorst(IF Lost(t) THEN Min({t.pnl, m}) ELSE m, T \cup {t})
<1> DEFINE U == T \cup {t}
<1>1. /\ m \in LossesOf(T) /\ (\A x \in LossesOf(T) : m <= x)
      /\ LossesOf(T) \subseteq Int /\ m \in Int
  BY ResultsAreInts DEF IsWorst
<1>2. LossesOf(U) = IF Lost(t) THEN LossesOf(T) \cup {t.pnl} ELSE LossesOf(T)
  BY DEF LossesOf, Losers
<1>3. CASE ~ Lost(t)
  BY <1>1, <1>2, <1>3 DEF IsWorst
<1>4. CASE Lost(t)
  <2>1. t.pnl \in Int
    BY <1>4, PnlIsNumber DEF Numbers, Lost
  <2>2. CASE t.pnl < m
    <3>1. Min({t.pnl, m}) = t.pnl
      BY <1>1, <2>1, <2>2, MinIs
    <3> QED
      BY <1>1, <1>2, <1>4, <2>1, <2>2, <3>1 DEF IsWorst
  <2>3. CASE ~ (t.pnl < m)
    <3>1. Min({t.pnl, m}) = m
      BY <1>1, <2>1, <2>3, MinIs
    <3> QED
      BY <1>1, <1>2, <1>4, <2>1, <2>3, <3>1 DEF IsWorst
  <2> QED
    BY <2>2, <2>3
<1> QED
  BY <1>3, <1>4

LEMMA LoggingTells ==
    ASSUME PaperWhole, MetricsWhole, NEW h \in Threads, LogTrade(h)
    PROVE  MetricsWhole'
<1>1. PICK t \in hand[h] : UpdateMetrics(t) /\ counted' = counted \cup {t}
  BY DEF LogTrade
<1>2. t \in TradeRecords /\ t \notin counted
  BY <1>1, HandHolds
<1>3. IsFiniteSet(counted) /\ counted \subseteq TradeRecords
  BY CountedIsFinite
<1> DEFINE U == counted \cup {t}
<1>4. Cardinality(U) = Cardinality(counted) + 1
  BY <1>2, <1>3, FS_AddElement
<1>5. Cardinality(Winners(U)) = Cardinality(Winners(counted)) + (IF Won(t) THEN 1 ELSE 0)
  <2>1. /\ IsFiniteSet(Winners(counted)) /\ t \notin Winners(counted)
        /\ Cardinality(Winners(counted)) \in Nat
    BY <1>2, <1>3, FS_Subset, FS_CardinalityType DEF Winners
  <2>2. Cardinality(Winners(counted) \cup {t}) = Cardinality(Winners(counted)) + 1
    BY <2>1, FS_AddElement
  <2>3. Winners(U) = IF Won(t) THEN Winners(counted) \cup {t} ELSE Winners(counted)
    BY DEF Winners
  <2>4. CASE Won(t)
    BY <2>2, <2>3, <2>4
  <2>5. CASE ~Won(t)
    BY <2>1, <2>3, <2>5
  <2> QED
    BY <2>4, <2>5
<1>6. Cardinality(Losers(U)) = Cardinality(Losers(counted)) + (IF Lost(t) THEN 1 ELSE 0)
  <2>1. /\ IsFiniteSet(Losers(counted)) /\ t \notin Losers(counted)
        /\ Cardinality(Losers(counted)) \in Nat
    BY <1>2, <1>3, FS_Subset, FS_CardinalityType DEF Losers
  <2>2. Cardinality(Losers(counted) \cup {t}) = Cardinality(Losers(counted)) + 1
    BY <2>1, FS_AddElement
  <2>3. Losers(U) = IF Lost(t) THEN Losers(counted) \cup {t} ELSE Losers(counted)
    BY DEF Losers
  <2>4. CASE Lost(t)
    BY <2>2, <2>3, <2>4
  <2>5. CASE ~Lost(t)
    BY <2>1, <2>3, <2>5
  <2> QED
    BY <2>4, <2>5
<1>7. Total(U) = Plus(Total(counted), t.pnl)
  BY <1>2, <1>3, TotalAdds
<1> DEFINE best == IF ~Won(t) THEN metrics.best
                   ELSE IF Infinite \in {t.pnl, metrics.best} THEN Infinite
                   ELSE Max({t.pnl, metrics.best})
           worst == IF Lost(t) THEN Min({t.pnl, metrics.worst}) ELSE metrics.worst
<1>8. IsBest(best, U)
  BY <1>2, <1>3, BestAdds DEF MetricsWhole
<1>9. IsWorst(worst, U)
  BY <1>2, <1>3, WorstAdds DEF MetricsWhole
<1>10. metrics' = [total |-> metrics.total + 1,
                   wins |-> metrics.wins + (IF Won(t) THEN 1 ELSE 0),
                   losses |-> metrics.losses + (IF Lost(t) THEN 1 ELSE 0),
                   pnl |-> Plus(metrics.pnl, t.pnl),
                   best |-> best, worst |-> worst]
  BY <1>1 DEF UpdateMetrics
<1>11. /\ metrics.total = Cardinality(counted)
       /\ metrics.wins = Cardinality(Winners(counted))
       /\ metrics.losses = Cardinality(Losers(counted))
       /\ metrics.pnl = Total(counted)
  BY DEF MetricsWhole
<1> HIDE DEF best, worst
<1>12. metrics'.best = best /\ metrics'.worst = worst
  BY <1>10
<1>13. metrics' = [total |-> Cardinality(U), wins |-> Cardinality(Winners(U)),
                   losses |-> Cardinality(Losers(U)), pnl |-> Total(U),
                   best |-> metrics'.best, worst |-> metrics'.worst]
  BY <1>4, <1>5, <1>6, <1>7, <1>10, <1>11, <1>12
<1>14. counted' = U
  BY <1>1
<1> HIDE DEF U
<1>15. /\ Cardinality(counted)' = Cardinality(U) /\ Total(counted)' = Total(U)
       /\ Winners(counted)' = Winners(U) /\ Losers(counted)' = Losers(U)
       /\ IsBest(metrics.best, counted)' <=> IsBest(metrics'.best, U)
       /\ IsWorst(metrics.worst, counted)' <=> IsWorst(metrics'.worst, U)
  BY <1>14
<1> QED
  BY <1>8, <1>9, <1>12, <1>13, <1>14, <1>15 DEF MetricsWhole

LEMMA NothingTells ==
    ASSUME counted = {}, metrics = ZeroMetrics
    PROVE  MetricsWhole
<1>1. Winners({}) = {} /\ Losers({}) = {} /\ ~ Endless({})
  BY DEF Winners, Losers, Endless
<1>2. WinsOf({}) = {0} /\ LossesOf({}) = {0}
  BY <1>1 DEF WinsOf, LossesOf
<1>3. IsBest(0, {}) /\ IsWorst(0, {})
  BY <1>1, <1>2 DEF IsBest, IsWorst
<1> QED
  BY <1>1, <1>3, NothingMade, FS_EmptySet DEF MetricsWhole, ZeroMetrics

\* The dashboard's figures are those of the trades that were logged, however
\* often the program failed and started again, and whatever failed to be
\* written is in neither.
THEOREM MetricsAlwaysTell == PaperSpec => []MetricsTellTheTrades
<1>1. PaperInit => MetricsWhole
  BY NothingTells DEF PaperInit
<1>2. PaperWhole /\ MetricsWhole /\ [PaperNext]_paperVars => MetricsWhole'
  <2> SUFFICES ASSUME PaperWhole, MetricsWhole, [PaperNext]_paperVars
               PROVE  MetricsWhole'
    OBVIOUS
  <2>1. CASE \E h \in Threads : LogTrade(h)
    BY <2>1, LoggingTells
  <2>2. CASE Start
    <3>1. counted' = {} /\ metrics' = ZeroMetrics
      BY <2>2 DEF Start
    <3>2. (counted = {} /\ metrics = ZeroMetrics => MetricsWhole)'
      BY NothingTells, PTL
    <3> QED
      BY <3>1, <3>2 DEF ZeroMetrics
  <2>3. ASSUME UNCHANGED <<metrics, counted>>
        PROVE  MetricsWhole'
    BY <2>3 DEF MetricsWhole
  <2>4. CASE ~ (Start \/ \E h \in Threads : LogTrade(h))
    <3>1. UNCHANGED <<metrics, counted>>
      BY <2>4
      DEF PaperNext, paperVars, sessionVars, Judge, PoolSkipped, PoolBought, TokenBought,
          OpenPosition, PriceUpdate, ExecLogFails, MainLogFails, Halt, Stop, Kill, StartFails, NextDay
    <3> QED
      BY <2>3, <3>1
  <2> QED
    BY <2>1, <2>2, <2>4
<1>3. PaperWhole /\ MetricsWhole => MetricsTellTheTrades
  BY WholeTells
<1> QED
  BY <1>1, <1>2, <1>3, PaperKeeps, PTL DEF PaperSpec

=============================================================================
