---------------------------- MODULE PaperTrading ----------------------------
(***************************************************************************)
(* Paper trading and the log of trades.  The exec worker opens positions   *)
(* under the write lock of the trading mode, lets go of it, and then logs  *)
(* the purchase; the main loop closes positions under the same lock and    *)
(* logs the sales.  Between the two, a trade is in its thread's hand only: *)
(* it is in no file yet, and a stop of the program forgets it.             *)
(*                                                                         *)
(* The log is a CSV file that is appended to.  A write that fails leaves   *)
(* nothing, or the start of a row; the next row continues that line, and   *)
(* the line has too many fields to be read.  The first line is read as the *)
(* header, whatever it is: a start that finds no file makes one and writes *)
(* the header, in two steps, and no later start looks whether the second   *)
(* was taken.  A start keeps nothing but the log: it sums the day's        *)
(* results for the loss limit and zeroes the rest.  (The loss of what the  *)
(* disk has not synced is not modelled.)                                   *)
(*                                                                         *)
(* Prices come with the id of a position, as the trader expects them; the  *)
(* main loop itself passes the id of a pool, which no position has.        *)
(* A result is in percent of the amount, which every position shares.      *)
(***************************************************************************)
EXTENDS Integers, FiniteSets, FiniteSetsExt

CONSTANTS
    Ids,            \* the uuids of positions
    PoolIds,        \* ids that a price may come with and no position has
    Gains,          \* how a price may compare with the price of entry
    Infinite,       \* the gain over an entry at zero
    Undefined,      \*   that a price of zero is compared with: not a number
    TakeProfit, StopLoss,
    LastDay,        \* bound: the days that are looked at
    MaxTrades       \* bound: trades ever made

ASSUME PaperAssumption ==
    /\ Gains \subseteq Int
    /\ Infinite \notin Int /\ Undefined \notin Int /\ Infinite # Undefined
    /\ {TakeProfit, StopLoss, LastDay, MaxTrades} \subseteq Nat
    /\ Ids \cap PoolIds = {}

VARIABLES
    up,         \* the program runs
    day,
    positions,  \* of the manager: entry and status, by id
    trades,     \* PaperTrader::trades
    judging,    \* what on_new_* is working on under the write lock
    hand,       \* what a thread has taken from the trader and not yet logged
    head,       \* the first line of the log, see below
    rows,       \* the trades that can be read from the log
    ended,      \* its last line is complete
    tail,       \* the readable trade of an incomplete line
    metrics,    \* the TradeLogger's
    hydrated,   \* daily_pnl_so_far, as summed at the start
    startDay,   \*   and its day
    past,       \* recorded: the trades of earlier sessions,
    complete,   \*   whether the start read the log to its end,
    counted,    \*   those that this session logged without an error,
    harm        \*   and how many trades the failures may have cost

sessionVars == <<positions, trades, judging, hand, metrics, counted>>
fileVars == <<head, rows, ended, tail>>
startVars == <<hydrated, startDay, past, complete>>
paperVars == <<up, day, sessionVars, fileVars, startVars, harm>>

Threads == {"exec", "main"}

\* No file; nothing, or less than a field, so that the next row is read as the
\* header; some fields, which the next row adds its own to; a line with more
\* fields than a row has, next to which no row can be read; the header.
Heads == {"none", "empty", "cut", "ruined", "whole"}
Closed == {"ClosedTakeProfit", "ClosedStopLoss", "ClosedTimeout"}
Made == past \cup trades
TradeRecords ==
    [n : 1..MaxTrades, id : Ids, action : {"Buy", "Sell"},
     pnl : Gains \cup {0, Infinite, Undefined}, day : 0..LastDay]

Won(t) == t.pnl = Infinite \/ (t.pnl \in Int /\ t.pnl > 0)
Lost(t) == t.pnl \in Int /\ t.pnl < 0

\* A sum with an undefined term is undefined, and else one with an infinite
\* term is infinite.
Plus(a, b) ==
    IF Undefined \in {a, b} THEN Undefined
    ELSE IF Infinite \in {a, b} THEN Infinite ELSE a + b
Total(T) == FoldSet(LAMBDA t, sum : Plus(t.pnl, sum), 0, T)

ZeroMetrics == [total |-> 0, wins |-> 0, losses |-> 0, pnl |-> 0, best |-> 0, worst |-> 0]

PaperInit ==
    /\ up = FALSE
    /\ day = 0
    /\ positions = [i \in {} |-> 0]
    /\ trades = {} /\ past = {} /\ counted = {}
    /\ judging = "nothing"
    /\ hand = [h \in Threads |-> {}]
    /\ head = "none" /\ rows = {} /\ ended = TRUE /\ tail = {}
    /\ metrics = ZeroMetrics
    /\ hydrated = 0 /\ startDay = 0 /\ complete = TRUE
    /\ harm = 0

-----------------------------------------------------------------------------
(* The exec worker.                                                        *)

NewTrade(i, action, pnl) ==
    [n |-> Cardinality(Made) + 1, id |-> i, action |-> action, pnl |-> pnl, day |-> day]

\* It takes the next intent when it is done with the last one.
Judge(kind) ==
    /\ up
    /\ judging = "nothing" /\ hand["exec"] = {}
    /\ judging' = kind
    /\ UNCHANGED <<up, day, positions, trades, hand, metrics, counted, fileVars, startVars, harm>>

\* A pool that is not safe, or whose check fails.
PoolSkipped ==
    /\ up
    /\ judging = "pool"
    /\ judging' = "nothing"
    /\ UNCHANGED <<up, day, positions, trades, hand, metrics, counted, fileVars, startVars, harm>>

\* The entry price of a pool is zero when the balance of its quote vault
\* cannot be read; a token's reserves never come with it, and the default
\* price stands in for them.
OpenPosition(i, entry) ==
    /\ Cardinality(Made) < MaxTrades
    /\ i \notin {t.id : t \in Made}
    /\ positions' = [j \in DOMAIN positions \cup {i} |->
                        IF j = i THEN [entry |-> entry, status |-> "Open"] ELSE positions[j]]
    /\ LET buy == NewTrade(i, "Buy", 0) IN
       /\ trades' = trades \cup {buy}
       /\ hand' = [hand EXCEPT !["exec"] = {buy}]
    /\ judging' = "nothing"
    /\ UNCHANGED <<up, day, metrics, counted, fileVars, startVars, harm>>

PoolBought(i) == up /\ judging = "pool" /\ \E e \in {"priced", "zero"} : OpenPosition(i, e)
TokenBought(i) == up /\ judging = "token" /\ OpenPosition(i, "priced")

-----------------------------------------------------------------------------
(* The main loop.                                                          *)

\* What is not a number meets neither limit: only age closes the position.
ExitStatus(gain, old) ==
    CASE gain = Infinite -> "ClosedTakeProfit"
      [] gain \in Int /\ gain >= TakeProfit -> "ClosedTakeProfit"
      [] gain \in Int /\ gain < TakeProfit /\ gain <= -StopLoss -> "ClosedStopLoss"
      [] OTHER -> IF old THEN "ClosedTimeout" ELSE "Open"

\* The gain of a position at a price that compares with its entry as g does,
\* or is itself zero or not when the entry is.
GainsAt(key, g) ==
    IF positions[key].entry = "zero" THEN {Infinite, Undefined} ELSE {g}

\* Mutant of PriceUpdate: the lock is let go of before the trader's last
\* trade is read, so that the exec worker reads this sale for its purchase.
PriceUpdateUnlocked(key, g) ==
    /\ up
    /\ judging = "nothing" /\ hand["main"] = {}
    /\ key \in DOMAIN positions /\ Cardinality(Made) < MaxTrades
    /\ ExitStatus(g, TRUE) # "Open"
    /\ LET sale == NewTrade(key, "Sell", g) IN
       /\ trades' = trades \cup {sale}
       /\ positions' = [positions EXCEPT ![key].status = ExitStatus(g, TRUE)]
       /\ hand' = [h \in Threads |-> IF hand[h] = {} /\ h = "exec" THEN {} ELSE {sale}]
    /\ UNCHANGED <<up, day, judging, metrics, counted, fileVars, startVars, harm>>

\* The status of the position is not looked at: a closed one sells again.
PriceUpdate(key, g) ==
    /\ up
    /\ judging = "nothing" /\ hand["main"] = {}
    /\ key \in DOMAIN positions /\ Cardinality(Made) < MaxTrades
    /\ \E old \in BOOLEAN, gain \in GainsAt(key, g) :
        LET status == ExitStatus(gain, old)
            sale == NewTrade(key, "Sell", gain) IN
        /\ status # "Open"
        /\ trades' = trades \cup {sale}
        /\ positions' = [positions EXCEPT ![key].status = status]
        /\ hand' = [hand EXCEPT !["main"] = {sale}]
    /\ UNCHANGED <<up, day, judging, metrics, counted, fileVars, startVars, harm>>

-----------------------------------------------------------------------------
(* The log of trades.                                                      *)

\* Mutant of UpdateMetrics: the best trade is the last gain.
UpdateMetricsLastGain(t) ==
    metrics' =
        [total |-> metrics.total + 1,
         wins |-> metrics.wins + (IF Won(t) THEN 1 ELSE 0),
         losses |-> metrics.losses + (IF Lost(t) THEN 1 ELSE 0),
         pnl |-> Plus(metrics.pnl, t.pnl),
         best |-> IF Won(t) THEN t.pnl ELSE metrics.best,
         worst |-> IF Lost(t) THEN Min({t.pnl, metrics.worst}) ELSE metrics.worst]

UpdateMetrics(t) ==
    metrics' =
        [total |-> metrics.total + 1,
         wins |-> metrics.wins + (IF Won(t) THEN 1 ELSE 0),
         losses |-> metrics.losses + (IF Lost(t) THEN 1 ELSE 0),
         pnl |-> Plus(metrics.pnl, t.pnl),
         best |-> IF ~Won(t) THEN metrics.best
                  ELSE IF Infinite \in {t.pnl, metrics.best} THEN Infinite
                  ELSE Max({t.pnl, metrics.best}),
         worst |-> IF Lost(t) THEN Min({t.pnl, metrics.worst}) ELSE metrics.worst]

\* Mutant of AppendRow: the line that was cut is never completed.
AppendRowUnended(t) ==
    /\ rows' = IF head = "whole" /\ ended THEN rows \cup {t} ELSE rows \ tail
    /\ head' = IF head = "empty" THEN "whole" ELSE head
    /\ UNCHANGED <<ended, tail>>

\* A row that continues an incomplete line makes that line unreadable, and one
\* that begins the file is its header from then on.
AppendRow(t) ==
    /\ rows' = IF head = "whole" /\ ended THEN rows \cup {t} ELSE rows \ tail
    /\ head' = CASE head = "empty" -> "whole" [] head = "cut" -> "ruined" [] OTHER -> head
    /\ ended' = TRUE
    /\ tail' = {}

\* Of a write that fails nothing, an unreadable start or all but the last
\* characters may be in the file.  The writer tries once more when it is
\* dropped, which adds the whole row to whatever was written, or to nothing.
CutRow(t) ==
    \/ UNCHANGED fileVars
    \/ AppendRow(t)
    \/ /\ head = "whole"
       /\ rows' = rows \ tail /\ tail' = {}
       /\ ended' \in BOOLEAN
       /\ UNCHANGED head
    \/ /\ head = "whole" /\ ended
       /\ rows' = rows \cup {t} /\ tail' = {t}
       /\ ended' = FALSE
       /\ UNCHANGED head
    \/ /\ head \in {"empty", "cut"}
       /\ head' \in {"cut", "ruined"}
       /\ UNCHANGED <<rows, ended, tail>>

LogTrade(h) ==
    /\ up
    /\ \E t \in hand[h] :
        /\ AppendRow(t)
        /\ UpdateMetrics(t)
        /\ counted' = counted \cup {t}
    /\ hand' = [hand EXCEPT ![h] = {}]
    /\ UNCHANGED <<up, day, positions, trades, judging, startVars, harm>>

\* The end of the process: what the threads hold is gone.
Halt ==
    /\ up' = FALSE
    /\ judging' = "nothing"
    /\ hand' = [h \in Threads |-> {}]
    /\ UNCHANGED <<day, positions, trades, metrics, counted, startVars>>

\* The exec worker reports the error; the main loop returns it, and the
\* program ends.
ExecLogFails ==
    /\ up
    /\ \E t \in hand["exec"] : CutRow(t)
    /\ hand' = [hand EXCEPT !["exec"] = {}]
    /\ harm' = harm + 2
    /\ UNCHANGED <<up, day, positions, trades, judging, metrics, counted, startVars>>

MainLogFails ==
    /\ up
    /\ \E t \in hand["main"] : CutRow(t)
    /\ harm' = harm + 2 + Cardinality(hand["exec"])
    /\ Halt

\* Ctrl+C is seen between two events of the main loop.
Stop ==
    /\ up
    /\ hand["main"] = {}
    /\ harm' = harm + Cardinality(hand["exec"])
    /\ Halt
    /\ UNCHANGED fileVars

Kill ==
    /\ up
    /\ harm' = harm + Cardinality(hand["exec"]) + Cardinality(hand["main"])
    /\ Halt
    /\ UNCHANGED fileVars

-----------------------------------------------------------------------------
(* The start, and the date.                                                *)

\* Mutant of CalculateDailyPnl: the day of a row is not compared.
CalculateEveryPnl(d) == Total(rows)

CalculateDailyPnl(d) == Total({t \in rows : t.day = d})

\* A file that exists is taken as it is.
OpenLog == head' = IF head = "none" THEN "whole" ELSE head

\* The file is created, and its header not written, or not in full (or in full
\* by the writer's second try): TradeLogger::new returns the error, or the
\* process dies before it returns.  An empty file costs its first row; in one
\* that is cut or ruined nothing can be read, which is not counted.
StartFails ==
    /\ ~up
    /\ head = "none"
    /\ head' \in Heads \ {"none"}
    /\ harm' = harm + (IF head' = "empty" THEN 1 ELSE 0)
    /\ UNCHANGED <<up, day, sessionVars, rows, ended, tail, startVars>>

\* A read that breaks off ends the sum where it is, and a file that cannot be
\* opened leaves it at zero; neither is an error to main.  (In a ruined file
\* a row that is torn to as many fields as its first line is left out.)
Start ==
    /\ ~up
    /\ up' = TRUE
    /\ OpenLog
    /\ positions' = [i \in {} |-> 0]
    /\ trades' = {} /\ past' = Made /\ counted' = {}
    /\ metrics' = ZeroMetrics
    /\ \/ hydrated' = CalculateDailyPnl(day) /\ complete' = TRUE
       \/ /\ \E read \in SUBSET {t \in rows : t.day = day} : hydrated' = Total(read)
          /\ complete' = FALSE
    /\ startDay' = day
    /\ UNCHANGED <<day, judging, hand, rows, ended, tail, harm>>

NextDay ==
    /\ day < LastDay
    /\ day' = day + 1
    /\ UNCHANGED <<up, sessionVars, fileVars, startVars, harm>>

PaperNext ==
    \/ \E kind \in {"pool", "token"} : Judge(kind)
    \/ PoolSkipped
    \/ \E i \in Ids : PoolBought(i) \/ TokenBought(i)
    \/ \E key \in Ids \cup PoolIds, g \in Gains : PriceUpdate(key, g)
    \/ \E h \in Threads : LogTrade(h)
    \/ ExecLogFails \/ MainLogFails \/ Stop \/ Kill
    \/ StartFails \/ Start \/ NextDay

PaperSpec == PaperInit /\ [][PaperNext]_paperVars

-----------------------------------------------------------------------------
(* Properties.                                                             *)

PaperTypeOK ==
    /\ {up, ended, complete} \subseteq BOOLEAN /\ head \in Heads
    /\ {day, startDay} \subseteq 0..LastDay
    /\ judging \in {"nothing", "pool", "token"}
    /\ DOMAIN positions \subseteq Ids
    /\ \A i \in DOMAIN positions :
        positions[i] \in [entry : {"priced", "zero"}, status : {"Open"} \cup Closed]
    /\ UNION {trades, past, counted, rows, tail} \subseteq TradeRecords
    /\ harm \in Nat

InHand == hand["exec"] \cup hand["main"]

\* A trade is logged by one thread, once: the trader's list, what the threads
\* hold and what the logger has counted never tell of different trades.
TradesAreLoggedOnce ==
    /\ hand["exec"] \cap hand["main"] = {}
    /\ InHand \cap (counted \cup rows) = {}
    /\ counted \cup InHand \subseteq trades
    /\ trades \cap past = {} /\ rows \subseteq Made

\* A position is open until its first sale, and has one purchase; it may have
\* more sales than that purchase, each counted in the results.
PositionsHaveTrades ==
    \A i \in DOMAIN positions :
        /\ Cardinality({t \in trades : t.id = i /\ t.action = "Buy"}) = 1
        /\ positions[i].status = "Open" <=> ~\E t \in trades : t.id = i /\ t.action = "Sell"

PaperInv == PaperTypeOK /\ TradesAreLoggedOnce /\ PositionsHaveTrades

\* The figures of a set of trades, as a reader of the log would add them up.
Summary(T) ==
    LET won == {t \in T : Won(t)}
        lost == {t \in T : Lost(t)} IN
    [total |-> Cardinality(T), wins |-> Cardinality(won), losses |-> Cardinality(lost),
     pnl |-> Total(T),
     best |-> IF \E t \in won : t.pnl = Infinite THEN Infinite
              ELSE Max({0} \cup {t.pnl : t \in won}),
     worst |-> Min({0} \cup {t.pnl : t \in lost})]

\* The dashboard's figures, which every logged trade updates in place, are
\* those of the trades that were logged in this session.
MetricsTellTheTrades == metrics = Summary(counted)

\* The first line of the log has as many fields as its rows.
Readable == head \notin {"cut", "ruined"}

\* A failure costs the log a bounded number of trades: its own, the next row
\* that continues a cut line or is taken for the header, and what was in a
\* hand when the program ended; unless it has left a first line next to which
\* no row can be read.
FaultsLoseFew == Readable => Cardinality(Made \ (rows \cup InHand)) <= harm

\* A start that can read the log knows the result of the whole day, but for
\* the trades that failures have cost: every other trade of an earlier session
\* that was made on this date, also one logged after midnight, and none of
\* another date.
DayIsKnown ==
    complete /\ Readable =>
        \E lost \in SUBSET past :
            /\ Cardinality(lost) <= harm
            /\ hydrated = Total({t \in past \ lost : t.day = startDay})

=============================================================================
