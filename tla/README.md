# TLA+ models of AETHER-SNIPER

This directory holds TLA+ specifications of the trading bot in this repository,
the TLC configurations that model-check them, and TLAPS proofs of their main
properties. File names below are relative to the repository's root.

Run a check with `tlc -workers 2 -config MCLiveTrading.cfg MCLiveTrading`, a
proof with `tlapm LiveTrading_proofs.tla`.

## 1. The system

The program (`src/main.rs`) is a set of tokio tasks around a few shared objects.

| part | state it keeps | operations | talks to |
|---|---|---|---|
| websocket monitor, parsing workers (`src/streaming/`) | subscription, parse queue | reconnect, parse, `try_send` | event channel (100) |
| main loop (`main.rs:645-754`) | none of its own | enqueue intents, handle prices, sell, log | intent queue, `trading_mode` lock |
| intent queue (`intent_pipeline.rs`) | bounded channel (4096) | drop-newest enqueue | exec worker |
| exec worker (`main.rs:472-512`, `process_trade_intent`) | none of its own | drop stale intents, run the trader's handler | `trading_mode` lock (write) |
| live trader (`live_trader.rs`) | guardrails, gate, positions, trades | `on_new_pool`, `on_new_pumpfun_token`, `update_positions`, `execute_sell`, `on_sell_executed` | RPC, Jito, chain |
| guardrails (`safety.rs`) | loss breaker, spend ledger | `check_circuit_breaker`, `can_open_position`, `record_pnl_percent`, `record_spend` | live and paper trader |
| Omega Trinity (`omega_trinity.rs`) | budget spent, attempts per second, equity curve, breaker | `should_trade`, `record_attempt`, `record_spend`, `record_pnl` | live trader |
| position manager (`position.rs`) | positions by id | open, update price, check exits, close | traders |
| auto gate (`main.rs:518-640`, `runtime_gate.rs`) | mode, window counts, samples | one step every ten seconds | emergency stop, `trade_enabled` |
| Jito sender (`jito.rs`) | emergency stop, limiter, endpoint health, counters | send, retry, `on_429`, stop, clear, expire | block engine |
| paper trader, siege engine | guardrails, positions | the same handlers without a network | main loop, worker |
| filters (`src/detection/`) | duplicate window, creator rates, blacklist and its file; else none | a verdict per token | traders |
| trade logger (`trade_logger.rs`) | the CSV file, statistics | log, daily PnL | traders, start |
| metrics, API | snapshots | serve, emergency stop | main loop |
| RPC pool and limiter (`src/rpc/`) | active endpoint, health; token bucket | pick, report, check; acquire | nothing yet |

A buy goes: stream event, main loop, intent queue, worker, *write* lock, loss
breaker, emergency stop (Pump.fun tokens), Omega admission, rug check (pools),
emergency stop (pools), guardrails, send on two paths, up to ten polls for the
confirmation, position and charges, unlock. A sale goes: price update, *write* lock, update and
close the position, unlock, *read* lock, loss breaker, emergency stop, balance,
send, PnL to both breakers, unlock, log.

What is hard to get right, and hard to test:

* the worker holds the lock across network calls while the main loop closes and
  sells positions in two separate critical sections;
* checks are made long before the thing they allow is done and charged;
* two breakers with windows, cooldowns and recovery, fed by sales that need no
  admission;
* a transaction whose answer is lost, late or contradicted by the chain;
* flags that other tasks change in between (emergency stop, auto gate);
* bounded channels that drop what does not fit, threads that outlive the task
  around them, joins that must end;
* atomics and short locks shared by threads: limiter, pool, caches;
* a log that is all a restart knows, and writes that fail half-way;
* one deadline over a chain of waits, each of which holds something.

Some parts are not connected at this commit: nothing sends a `PriceUpdate`
(the main loop only handles it); `record_entry` is never called, so
`max_trades` never refuses; the daily loss is stored and never compared; the RPC pool,
the overmind link and the multi-region sender are not used; several
directories (`src/stage`, `src/notifications`, `src/jito`, `src/config/`, ...) are
not part of the crate. `PROJECT.json` lists every component with its status,
and every hazard at its line.

What makes each part correct: the breakers are never closed on a record that
should trip them, and recover only when recovery is earned; no buy is sent
without clearances that still hold; the spend ledgers agree with the positions and
stay within their caps; positions stand for buys that landed; every intent is
settled; exits are taken; the gate shuts and opens for the windows it says; a stop
that was triggered stays, and ends; a creation that was seen is accounted for
and served once; a repeated token is refused and a creator kept to its rate; a pool
is never safe on a fact that counts and could not be read; a trade is logged once and survives a
restart; limiters never grant more than they have; permits and places come back.

## 2. The modules

| module | models | lines of code |
|---|---|---|
| `CircuitBreaker` | the loss breaker and the guardrail calls that drive it | `safety.rs:52-195, 345-374` |
| `OmegaTrinity` | `ResourcePulse` and `OmegaBreaker` behind `should_trade` | `omega_trinity.rs:109-320, 348-391` |
| `EquityHistory` | the same, with a record of the losses in a row; EXTENDS `OmegaTrinity` | |
| `LiveTrading` | worker, main loop, live trader, positions, spend, chain; EXTENDS `CircuitBreaker` and `OmegaTrinity` | `live_trader.rs`, `main.rs`, `position.rs` |
| `AutoGate` | the control-plane task that shuts and reopens trading | `main.rs:76-83, 514-619` |
| `GateHistory` | the same, with a record of the windows it has read; EXTENDS `AutoGate` | |
| `EmergencyStop` | the three statics of the Jito emergency stop, access by access | `jito.rs:36-51, 101-142` |
| `JitoSender` | `send_transaction_jito` with limiter and endpoint pool; EXTENDS `EmergencyStop` | `jito.rs:266-524, 644-768, 1237-1318` |
| `BundleSender` | `send_bundle` by several tasks: queue, budget, permits, attempts, deadline | `jito.rs:266-546, 869-1189` |
| `Pipeline` | websocket, parse queue, workers, event channel, main loop, intent queue, worker; shutdown and Ctrl+C | `websocket.rs`, `parsing_worker.rs`, `intent_pipeline.rs`, `main.rs` |
| `TokenFeed` | the abstract specification `Pipeline` implements | |
| `PumpFilter` | the Pump.fun filter, its duplicate window and its creator rates | `pumpfun_filter.rs` |
| `Blacklist`, `RugCheck` | the blacklist with its file; `check_pool` over it | `blacklist.rs`, `rug_checker.rs`, `token2022.rs`, `honeypot.rs` |
| `PaperTrading` | the paper trader and the trade log, with crashes, torn rows and a header that is missing | `paper_trader.rs`, `trade_logger.rs`, `main.rs` |
| `RpcPool` | failover, health and recovery of the RPC endpoints | `rpc/pool.rs` |
| `TokenBucket` | the RPC limiter, load by load | `rpc/rate_limiter.rs` |
| `MCGuards` | the instance of seven guards that work alone (`MCAutoGate`, `MCJitoSender` and the modules it extends) | |
| `MCLiveTrading`, `MCPipeline`, `MCCandidates`, `MCExits`, `MCHalfOpen` | the other instances for TLC | |
| `Guardrails_proofs` | theorems about `CircuitBreaker`, `OmegaTrinity` and `EquityHistory` | |
| `LiveTrading_proofs`, `AutoGate_proofs`, `Pipeline_proofs`, `PaperTrading_proofs` | theorems about the module they are named after, and `GateHistory` and `TokenFeed` with it | |
| `Jito_proofs` | theorems about `EmergencyStop`, `JitoSender` and `BundleSender` | |
| `Candidates_proofs` | theorems about `PumpFilter`, `Blacklist` and `RugCheck` | |
| `Rpc_proofs` | theorems about `RpcPool` and `TokenBucket` | |

**Time** is kept as ages that stop growing one past the value they are compared
with, so every comparison of the code is exact and the state finite. One unit is a
second. **CircuitBreaker**: `pnls`/`ages` are `recent_trades`; `RecordPnlPercent`
is the whole of `record_pnl_percent`, split by its outcome into `RecordTripping`,
`RecordConfirming`, `RecordKeeping`; `CheckCircuitBreaker` includes `try_reset`.
**OmegaTrinity**: `Admit` is `should_trade` with `record_attempt`; `Reject` keeps
the side effect of a rejected call (the restarted window). Amounts are integers;
equity is counted in hundredths of one buy, so a PnL of p percent moves it by p,
and `EquityScale` converts the budget that seeds it. **EquityHistory** adds up what has been
lost in a row, from the sales alone: `bled` starts over with a gain, and when the breaker
closes on a new curve.

**LiveTrading**: a slot is an announcement of a token, and `Mint` says which token: two
announcements of one token are two slots with one mint. Nothing in the code asks whether a token is held or being
bought already, so both may be bought, and a sale takes the wallet's whole balance of its mint
(`SaleStep`). `worker.at` and `seller.at` are the awaits of the two tasks;
what the code does between two awaits is one action. `lock` is `trading_mode`.
`Admission` runs from the lock to the first await; `GuardPasses`/`GuardRefuses`
are the checks of `execute_buy` and `execute_pump_buy`; `SendAccepted`, `SendFails`,
`SendUnconfirmed` the outcomes of `fan_out_send`; the `Poll*` actions are
`verify_bundle_landed`; `OpenPosition` the position and both charges.
`PriceUpdate` is `update_positions` under the short write lock, and the seller's
actions are `execute_sell_mint` under the read lock with the bookkeeping after
it. The chain may land a transaction whose send reported an error. The emergency
stop and the auto gate change freely.

`Keys` says what a price update names. `LiveTrader::update_positions` takes
position ids (`"position"`), `main.rs` passes pool ids (`"pool"`), which name no
position. The safety runs allow both, so that they cover the sales the trader's
interface was written for as well as the program as it is wired today.

**AutoGate**: one tick of the task is one step, because nothing in it awaits; a
window is the input of a tick, its answers by class and the verdict on the detection
latencies. The counts of windows saturate as `u32`s do. `GateHistory` adds what a
promise about several ticks needs, the windows read since the mode was entered, counted
from the verdicts alone. At this commit the gate is never given the windows it was
written for: it judges windows of 500 answers, the limiter allows 4.9 sends a second, and
`send_transaction_jito`, the only sender of the program, does not count its
answers by class. `AutoGate` says what the task does with windows that it would judge.

**EmergencyStop** and **JitoSender**: `pc` and `verdict` stand for the call stack of
`trigger_jito_emergency_stop` and `is_jito_emergency_stop_active`: each load, swap and
store of an atomic is a step, and the trader uses the verdict in a later one. `at`
is where the trader is in the send: the gates that ask for the stop (`entry`, `slot`,
`token`, `budget`), then the answer. The trader is one process, because buys run under
the write lock and sales under the read lock of one main loop. The `Handlers` are requests to the API:
`POST /api/emergency_stop` triggers the stop, and `GET /metrics` asks for it to print it
(`routes.rs:48`, `jito.rs:257`), and so judges it and takes it back as the trader does. `raced` records that a stop was
triggered while an earlier one was being taken back, until nothing is left of that race. The limiter's
tokens are a free choice of `TakeToken` and `SleepForToken`; its cooldown is kept in seconds.
`since`, `quiet` and `refused` only record. `clear_jito_emergency_stop` is not in
the module: the auto gate alone calls it.

**BundleSender** takes the other view of the same limiter: several tasks, and of an
endpoint's answer only whether it settles the bundle. `Proceed` moves a task to its next
await; `TimeOut` is `tokio::time::timeout` around `send_bundle_encoded_once`, which drops
the future wherever it stands: the permit is given back by its `Drop`, the place in the
queue by nobody. `leaked` records those places, and the ones of line 357; after 128 of
them every send is refused as `QueueFull`, and charged to an endpoint that was never asked. The
edge of the overmind link is its only caller, and no program starts that one.

**Pipeline**: `link` is where the monitor's task is, `at` of a worker whether it has a
job, `fate` where a creation has got to, in one place or lost for one of the reasons that the
code counts. A full channel drops the newest. The monitor's session ends on a
stall, on the end of the stream or on the shutdown flag, closes the subscription and joins its workers; the
deadline of a fetch may be past after any call. Ctrl+C ends the main loop and the task around the
monitor, not the blocking thread in it. `Feed` is the refinement mapping to
`TokenFeed`: a creation is noticed, lost or accepted, and what is accepted is
served in order and, while the program runs, in the end.

**PumpFilter** evaluates a token through the code's filters in the code's order; a name is a
short sequence of character classes, a token otherwise what the filters look at.
`history` records the verdicts. **RugCheck** joins seven reads any of which may fail; the
**Blacklist** under it is saved by any number of callers at a time, and `fs::write` empties the file first.
In the program as it is built both traders pass no blacklist.
**PaperTrading** keeps a trade in its thread's hand between the lock and the log; a row
may be cut by a failure and swallow the next one, and the writer tries once more when it is dropped; a start knows
the day's result from the file alone, as far as it can read it (`complete`). `head` is the first line of the file, which
csv::Reader takes for the header whatever it is: `StartFails` is a `TradeLogger::new` that creates the file and does
not get to write all of the header, and `Start` takes an existing file as it is. `harm` counts what failures may have
cost: two trades for a write, one for an empty file, and what was in a hand. A first line that is cut costs all rows, and
is told by `head` instead. The gain over a price of entry of zero is infinite, or, at a price of zero, no number.

**RpcPool**: the monitor and the callers share the index of the active endpoint, so that a call may be booked
on another endpoint than the one it used. **TokenBucket** takes `refill` and `try_acquire` load by load
and compare-and-swap by compare-and-swap; `granted` and `milli` record.

The model assumes the loss breaker is configured (it is optional), `buy_enabled`, no
shadow mode and no siege engine; each of these switched off removes behaviour.

## 3. The runs

| run | what it checks | instance | result |
|---|---|---|---|
| `guards` | seven machines, each alone (below) | below | 0.7 M states |
| `live_trading` | type, `Inv`, `LedgersAgree`, `PositionsAreBacked`, `BuysNeedClosedBreaker`, refinement of `BreakerSpec` | one token announced as a pool and on Pump.fun, both affordable, 1 poll, 2 sales | 1.8 M states |
| `live_progress` | `SpendWithinCaps`, `IntentsAreSettled` under fairness | two tokens, cap for one buy, 2 polls, 1 sale | 93 k states |
| `pipeline` | `PipelineInv`, `LinkComesBack`, refinement of `TokenFeed`: each step (`FeedIsKept`), and in the end (`FeedServes`) | three creations, two workers, channels of 1, 1 and 2, one retry | 0.3 M states |
| `candidates` | filter: `FilterStateOK`, `RepeatsAreRefused`, `RateIsKept`; pools: `FailuresAreUnsafe`, `KnownIsUnsafe`; paper: `PaperInv`, `MetricsTellTheTrades`, `FaultsLoseFew`, `DayIsKnown` | six tokens, four evaluations; every pool with at most one failed read, two mints, two savers; two positions, three trades, two days | 1.2 M states |
| `gate_reason` | `ShutsOnDegradation` is **violated** | the auto gate | finding |
| `stop_ends` | `StopEnds` is **violated** | the Jito sender, with fairness of trader, API and time | finding |
| `queue_depth` | `QueueDepthIsCurrent` is **violated** | the Jito sender | finding |
| `exits_by_pool_id` | `OpenPositionsWithinBand` is **violated** | one token, prices keyed by pool | finding |
| `half_open_stuck` | `HalfOpenProbes` is **violated** | two tokens, everything else going well | finding |
| `ctrl_c` | `CtrlCEndsMonitor` is **violated** | the pipeline | finding |
| `freeze` | `SafeIsUnfreezable` is **violated** | the pools | finding |

`guards` and `candidates` hold machines that share no state and never meet. A
variable chosen in the initial state says which one moves, so the state space is
the sum of theirs, and the fairness of each is stated for the behaviours in which it is the one.

| machine of `guards` | properties | instance |
|---|---|---|
| loss breaker | `ClosedIsHealthy`, `RecoveryIsEarned`, `OpenIsProbed` | 3 losses or 4 % in 3 s, cooldown 2 s, windows of up to 4 trades |
| admission | `OmegaClosedIsHealthy`, `BleedHalts` | budget 4, 2 attempts/s, 30 %, cooldown 2 s, losses of 20 and 100 |
| auto gate | `SwitchFollowsMode`, `DegradationShuts`, `HistoryInv`, `ReopeningIsEarned`, `Reopens` | 100 answers to judge a window, eight windows on both sides of each limit, counts to 5 |
| Jito sender and stop | `SenderInv`, `LastsUnlessRaced`, `StopIsEarned`, `BackoffIsKept`, `StampedStopEnds` | stop of 2 s earned by 3 429s, backoffs of 1, 2, 3 s, a queue of 2, two endpoints with scores to 2, one API request at a time, of either kind |
| RPC pool | `RpcTypeOK`, `PoolRecovers` | two endpoints of different priority, a caller and the monitor, 2 errors to fail over |
| RPC limiter | `GrantsWithinRate` | two threads, two tokens, half a token a millisecond, 4 ms |
| bundles | `BundleInv` | two tasks, two attempts, two places, 1 to 2 permits, a deadline of 2 and cooldowns of 3 |

Bounds. `TradeBound`, `BleedBound`, `EquityBound` and `MaxSales` bound what the
code leaves unbounded; they are large enough for a trip, a cooldown, a failed probe,
a second trip and a recovery to happen, and for the losses of an earlier trip to
be in the window at the recovery. Limits differ so that each may be the one that
trips. Two announcements are enough for a clearance of one to be spoiled by the
other; the cap admits both only because it leaves the tip out. The larger run takes them of one
token, where each may be bought and one sale sells both; the liveness run of two. One request of the API at a time,
with the trader, gives every race of two tasks for the stop; the proofs are for any number of requests. Three paper trades are a position
that sells twice, or a torn row with the row that it swallows and another. Symmetry is not
used: the two tokens take different paths. The channels of `pipeline` are small enough for each to be full while the one
before it is not, and its three creations for one to overtake or to be dropped between two others. The
duplicate window holds two of five mints and one of three creators is forgotten at a time, so that eviction by
size, by age and by cleanup all occur. Two places in the queue may both be leaked, after which it stays full. `CHECK_DEADLOCK FALSE` in
`LiveTrading`'s configurations and in `candidates`, because the program does stop when the log
fails, and because a market that has gone quiet leaves nothing to do, or the bound on
trades or evaluations is reached.

Fairness. Loss breaker: seconds pass, and each intent and sale asks
`check_circuit_breaker`. `live_progress`: the two tasks take their next step (weak
fairness; tokio runs a ready task, and every RPC call has a client timeout, the
polls a count); tokio's RwLock and mpsc queue are FIFO, so a waiter that could be served
again and again is served (strong fairness of `Admission` and of `TakeIntent`).
Nothing is assumed of the chain, the market, the switches or the clock.
`half_open_stuck` assumes far more, everything that could help: the violation shows
that no amount of fairness gets a buy through.

`pipeline`: calls return, threads and tasks are scheduled, timers fire; frames, the end of a stream, a shutdown
and Ctrl+C need not come. RPC pool: calls come back and the monitor goes its rounds; `PoolRecovers` speaks
of the behaviours in which the endpoints answer from some time on.
The auto gate needs no fairness: `Reopens` speaks of the behaviours in which good
windows keep coming. For the Jito sender it is assumed that seconds pass, and `StampedStopEnds` speaks of
the behaviours in which sends keep asking, since nothing else ends a stop.

Each property has a mutant in `PROJECT.json`: a plausible error in the code
(the definitions named as mutants in the modules) that makes TLC report it.

### Findings

* **A half-open breaker never probes** (`safety.rs:304`). After a cooldown
  `check_circuit_breaker` moves the breaker to half-open and lets the intent pass,
  but `can_open_position` refuses while `is_triggered()`, which counts half-open.
  Only the sale of something still held can confirm the recovery.
* **Exits are looked up by pool id** (`main.rs:688,692`), positions are stored by
  UUID (`position.rs:25,38`): no take profit, stop loss or timeout is ever taken.
* **The gate shuts on no evidence** (`main.rs:563`). `unstable_windows` keeps the count
  that shut the gate through the throttled and half-open modes. Back in normal mode, a
  window that is not judged leaves it there, and the gate shuts again at once, giving
  a degraded window as its reason. (It takes windows of 500 answers to get there, see
  `AutoGate` above.)
* **A stop without its time** (`jito.rs:132`). Whoever finds the stop expired, the trader or `GET /metrics`, takes it
  back in three stores. When the API triggers the stop between the first and the second, the second
  wipes out the new time, and the stop never expires: nothing is bought or sold
  until a restart. `StampedStopEnds` shows that a stop that has its time, while no task is about to wipe it, ends as long as
  sends ask for it.
* **A place in the queue is leaked** (`jito.rs:357`) by each send that the stop
  interrupts between the limiter's token and its concurrency budget. `BundleSender` shows a second
  way, the deadline of a bundle.
* **Ctrl+C does not reach the monitor** (`websocket.rs:170`, `main.rs:757`). Aborting the
  task around a `spawn_blocking` thread does not end it, and nothing sets its shutdown flag: while
  frames arrive the thread goes on, and the runtime waits for it.
* **The freeze authority is read from the supply** (`rug_checker.rs:192`). Byte 36 of a mint is the
  lowest byte of its supply; the tag of the freeze authority is byte 46.

Two more are excepted by the properties that would otherwise be false, and have no run of their own:

* **A stop that ends at once** (`jito.rs:131`). When the trader and `GET /metrics` both find the stop expired, and the
  first has taken it back before a new one is triggered, the late store of the second ends the new one.
  `LastsUnlessRaced` shows that every stop lasts its time that was not triggered in such a race; without `~raced` TLC
  reports the trace.
* **A log without its header** (`trade_logger.rs:16`). The file is created in one step, the header written in another. A
  full disk or a crash in between leaves an empty file that every later start takes as it is, and the
  first trade is read as the header: it is reported as logged and counts for no day's result. When a part of the header
  was written, no row can be read at all. `FaultsLoseFew` and `DayIsKnown` charge the first for one trade (`StartFails`)
  and except the second (`Readable`).

Noticed on the way, and stated by no property because nothing documents otherwise: the loss limit of a
day is read at start in live mode only, and never compared (`main.rs:288`); `check_exit_conditions` does not
look at the status, so a closed position may sell again, which `PaperInv` allows for; a token that is announced
twice may be bought twice, and the first sale sells the tokens of both; a 429 that arrives between the first and the
last store that takes a stop back, on the old run, triggers it again, which `StopIsEarned` excepts; a position whose entry and
price are zero has a result that is no number, and with it the sums it enters; a duplicate
cache of size zero would loop for ever (`pumpfun_filter.rs:106`), and a sample rate of zero divide by zero; the
allowlist's "hard pass" comes after the duplicate and rate filters; a full place in the queue is charged to an
endpoint's score; an endpoint whose scores are all zero is never left (`jito.rs:728`); both ends of the overmind
link compare stamps that count from the start of each process, and a restarted master starts its numbers over
while the edge keeps the highest it has heard; the trips that should stop losses also stop the
sales (`live_trader.rs:744`); a position is closed before its sale is tried (`position.rs:78`); the emergency stop is
not asked again on the direct RPC path (`live_trader.rs:561`); a failing refresh serves its last blockhash for ever.

## 4. What is proved

For every value of the constants that satisfies the modules' assumptions (limits,
windows, any finite set of tokens, any finite or infinite set of PnLs):

* `Guardrails_proofs`, the loss breaker: `BreakerTypeCorrect`, `ClosedHealthy`, `RecoveryAlwaysEarned`. The
  invariant `ClosedIsHealthy` is inductive with the types: a record that leaves the breaker closed
  was judged, and a recovery clears it. That the recovery is earned (`RecoveryIsEarned`) compares two
  windows, the one that was judged and the one without the gain, so it needs what the fold of `Drawdown`
  computes: `FoldsExist` and `DrawdownAppend` show that its recursive function exists for every window
  and that one more trade adds its loss.
* `Guardrails_proofs`, the admission gate: `OmegaTypeCorrect`, `OmegaHealthy` and `BleedAlwaysHalts`.
  A healthy curve says nothing of the losses that made it; `RunIsDrawn` does: a closed breaker's equity lies
  below its peak by at least all that was lost in a row. A loss that the floor at zero cuts short
  would break it, but takes everything, and trips the breaker. That holds of a breaker that can trip at all
  (`CanTrip`: something to lose, and a limit of at most 100 %), which the property says.
* `LiveTrading_proofs`: `TypeCorrect`, and the two refinements: every step of live
  trading is a step of `BreakerSpec` (`LiveImplementsBreaker`) and of `OmegaSpec`
  (`LiveImplementsOmega`) or a stutter, so that what is proved of the parts holds of the whole
  (`LiveBreakerHealthy`, `LiveRecoveryEarned`).
* `LiveTrading_proofs`, the safety: `Safety` and its consequences. `LedgersAgree`,
  `SpendWithinCaps` and `PositionsAreBacked` are not inductive: that a charge stays
  within the caps needs the clearance to have held *at the check* and nothing to have been
  spent since, which needs the lock; that a slot opens one position needs its intent, its
  transaction and the worker to exclude each other. `Inv` adds `LockInv`,
  `BuyOnceInv` and `ClearanceInv`; the proof has a lemma per group of actions.
  `BuysAreCleared` then is an action property of the same invariant.

* `AutoGate_proofs`: `HistoryAgrees`, that `HistoryInv` is an invariant, and from it
  `SwitchAlwaysFollowsMode`, `DegradationAlwaysShuts` and `ReopeningAlwaysEarned`.
  `HistoryInv` ties the gate's counts to the windows it has read, mode by mode; in normal mode
  it has to allow for the count left over from before (the finding above). It
  is proved in two halves, the switches by first-order reasoning and the counts by
  arithmetic.

* `Jito_proofs`, one sender: `SenderSafety`, that `SenderInv` is an invariant, and from it
  `StopLasts` (`LastsUnlessRaced`), `StopEarned` (`StopIsEarned`) and `BackoffAlwaysKept`
  (`BackoffIsKept`: what is left of the cooldown makes up for what is missing from the backoff).
  That the pool always has an endpoint to pick is the existence behind a CHOOSE, from the
  well-foundedness of the naturals. The first needs `UnracedInv`, which holds unless `raced`: a process that has yet to
  store its time has triggered the stop, alone, nobody takes an earlier one back, and
  the time a stop is judged by is never older than the stop. A stop triggered in a race is promised nothing, and the
  proof shows that `raced` is set when that happens and not reset too early. The
  second needs `RunInv`: what is left of the run of 429s between the end of a
  stop and the lazy reset of the counter is not counted. It excepts the 429 that arrives while a task, the trader or
  a request of the API, has taken the flag back and not yet stored the reset (`Rearming`).

* `Rpc_proofs`: `PoolIsTyped`: wherever the steps of callers and monitor meet, the index of the active
  endpoint stays in the list, and a failover finds one. `BucketAccounts` and from it `GrantsAlwaysWithinRate`. Every unit is granted,
  in the bucket or still to be refilled; a thread's compare-and-swap succeeds only on the value it has
  read, and only the holder of the mutex accounts for time.
* `Jito_proofs`, many bundles: `BundlesAccounted`, that `BundleInv` is an invariant, for any finite set of tasks. It is
  inductive as it stands. A task that goes on moves between the sets that are counted, which is one lemma
  (`Moved`) over the cardinalities of finite sets, and each action only says which gauges move with it.

* `Pipeline_proofs`: `PipelineKeepsTrack`, that `PipelineInv` is an invariant, and `PipelineFeeds`, the
  refinement of `TokenFeed` step by step (`FeedIsKept`). The lemmas are about queues without repetitions; each
  action says which place a creation leaves and which it comes to. The refinement needs `AcceptedInOrder`, which
  the invariant therefore states: what is queued, then being worked on, is the end of what was accepted.
* `Candidates_proofs`, the pools: `FailuresAlwaysUnsafe` and `KnownAlwaysUnsafe`, from what the blacklist keeps in
  memory and in its file around each save, and how a check uses it: an acknowledged addition is in any
  file that can be parsed. Of the seven reads, those of `Unscored` are excepted: the Token-2022 account and the honeypot
  report always, the holders and the liquidity when the configuration sets a limit that switches the check off
  (`max_top10_holder_percent` at 100 or more, `min_liquidity_sol` at zero or less), which nothing refuses.
* `Candidates_proofs`, the filter: `CachesAlwaysInStep`, `RepeatsAlwaysRefused` and `RateAlwaysKept`. The inductive
  invariant (`FilterWhole`) relates the caches to the history of verdicts: the two halves of a cache hold the same keys
  oldest first, a key within its time that is not in the cache was evicted by as many later ones as it
  holds, and the creations of a creator within the window are the end of those that were counted. What a loop
  over the front of a queue pops is a CHOOSE (`FrontRun`), whose existence is a least element.
* `PaperTrading_proofs`: `PaperIsOrdered`, `FaultsAlwaysLoseFew`, `DayAlwaysKnown` and `MetricsAlwaysTell`. The first three rest on
  `PaperWhole`, which says what a thread may hold, that a cut line is the last row, and that the
  trades in no hand and no row, with those that the next row will cost, are within `harm`, unless the first line is cut. The
  sum of a start is then over all trades of its day but the missing ones, and what is missing later was counted then; it
  excepts a start whose read breaks off (`main.rs:260` takes that for zero, or for what was read). The
  last needs the fold of `Total`: it exists for every finite set, does not
  depend on the order in which it picks (`FoldsInAnyOrder`) nor on the larger set (`FoldsAgree`), and so one more trade
  adds its result (`TotalAdds`); best and worst are carried as members that bound their set.

Inductions over the length of a window and the cardinality of a set of trades are written as the
descent from a least counterexample, which the well-foundedness of the naturals provides
(`LeastNatural`, `LeastSet`).

Assumptions. The theorems assume of the constants what their modules state (`...Assumption`), all of it true of what
the code is given: thresholds and capacities that the code uses as counts are naturals, those it divides by or waits
for are positive, and sets of tokens, endpoints (with their priorities) and extensions of a mint are finite.

What the proofs found in the models. One `Lose` of `TokenFeed` lost one creation, while a session that ends loses its
whole parse queue: right for the instance, whose queue holds one, and wrong in general. The arms of two CASEs, the
order of the filters in `PumpFilter` and of the exits in `PaperTrading`, overlapped: TLC takes the first that applies,
as the code does, but TLA+ leaves the choice open; the first is now a chain of IFs, the second disjoint.
`InWindow` kept any creation within the window, where the code only pops from the front. And `BleedHalts` is false
of a gate without a budget or with a limit beyond 100 %, which no instance had.

Only model-checked: liveness (`OpenIsProbed`, `IntentsAreSettled`, `Reopens`, `StampedStopEnds`, `PoolRecovers`,
`LinkComesBack`, `FeedServes`), which needs fairness and ENABLED. Every invariant and every action property
of a passing run is a theorem.

## 5. Not modelled, and what is left

* Views and encodings: API, dashboard, metrics, transaction building, the TPU client, configuration.
* The siege engine, which evaluates and logs, and the latency samples, whose percentiles are numeric;
  `AutoGate` takes any verdict on them.
* The blockhash caches: one value, refreshed; `LiveTrading` lets a buy fail for want of one, or never land.
* The overmind link and the multi-region sender, which nothing starts, beyond the bundles they send.
* Sources that no module tree of the crate declares.

Left of the plan:

1. `AutoGate` and `EmergencyStop` composed with `LiveTrading`, in the place of its free
   switches, with the gate's `clear_jito_emergency_stop`, access by access; `PumpFilter`
   and `RugCheck` in the place of its free verdicts.
2. The counters between `JitoSender` and `AutoGate`, and the scores of `BundleSender`'s endpoints.
3. A restart in `LiveTrading`, with `dump_all_positions`.
4. Proofs: refinement of an abstract, atomic stop by `EmergencyStop`, and of a single-node pool by `RpcPool`;
   what `PumpFilter` does at a capacity that evicts within the window.
