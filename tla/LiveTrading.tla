---------------------------- MODULE LiveTrading ----------------------------
(***************************************************************************)
(* Live trading: the exec worker that buys, the main loop that sells, the  *)
(* LiveTrader they share behind the trading_mode lock, and the chain.      *)
(*                                                                         *)
(*   worker   exec-worker and process_trade_intent (src/main.rs) with      *)
(*            LiveTrader::on_new_pool and on_new_pumpfun_token: the write  *)
(*            lock is held from the admission checks to the end of the     *)
(*            confirmation polls                                           *)
(*   seller   the PriceUpdate arm of the main loop: a short write lock     *)
(*            for update_positions, then the read lock for execute_sell    *)
(*            and the bookkeeping of its outcome                           *)
(*   LiveTrader = CircuitBreaker + OmegaTrinity + PositionManager + spend  *)
(*                                                                         *)
(* A slot stands for one announcement of a token: its intent, its buy      *)
(* transaction and the position it may open, which has an id of its own.   *)
(* Nothing in the code keeps a token from being announced again, as a pool *)
(* or as a Pump.fun token, while an earlier buy of it is under way: those  *)
(* are slots with the same mint, and the wallet holds one balance of it.   *)
(* A position is updated only by a price that carries its id, see Keys.    *)
(* Steps of a handler that are separate actions here are separated in the  *)
(* code by an await or a blocking RPC call, where other tasks run.         *)
(*                                                                         *)
(* External: the chain (a transaction lands, fails or takes its time, and  *)
(* a send that reports an error may still land), the RPC answers, the      *)
(* market (the main loop handles a PriceUpdate, but no code of the         *)
(* repository sends one yet), and the emergency stop and the auto gate,    *)
(* which change freely here.  Live trading is taken to be fully switched   *)
(* on: loss breaker configured, buy_enabled, neither shadow mode nor the   *)
(* siege engine.  Left out: logging; error and trade counters, which       *)
(* nothing reads.                                                          *)
(***************************************************************************)
EXTENDS CircuitBreaker, OmegaTrinity

CONSTANTS
    Slots,          \* announcements that can be under way at a time
    PumpSlots,      \* those of Pump.fun tokens, the rest are of pools
    Mints,          \* the tokens
    Mint,           \* the token of each slot
    Keys,           \* what a price update names: "position", the id that
                    \* LiveTrader::update_positions takes, or "pool", the
                    \* pool id that main.rs passes it
    TakeProfit, StopLoss,   \* take_profit_percent, stop_loss_percent
    Buy, Tip,       \* buy_amount_sol, tip
    SpendCap,       \* max_sol_spend
    MaxPolls,       \* confirmation polls of verify_bundle_landed
    MaxSales        \* bound of the model: sales that are sent

ASSUME TradingAssumption ==
    /\ PumpSlots \subseteq Slots
    /\ IsFiniteSet(Slots)
    /\ Mint \in [Slots -> Mints]
    /\ "no slot" \notin Slots
    /\ Keys \subseteq {"position", "pool"}
    /\ TakeProfit \in Int /\ StopLoss \in Int
    /\ Buy \in Nat /\ Tip \in Nat /\ SpendCap \in Nat
    /\ MaxPolls \in Nat \ {0} /\ MaxSales \in Nat
    /\ 0 \in Pnls

VARIABLES
    lock,       \* holder of trading_mode: Free, "worker" (write), "seller" (read)
    intents,    \* slots waiting in the intent queue
    worker,     \* the exec worker: where it is, with which slot, polls made
    seller,     \* the main loop: where it is, the sale it makes
    position,   \* PositionStatus by slot, "none" before a position exists
    pnl,        \* unrealized_pnl_percent of the position
    aged,       \* slots whose position is older than max_position_age_secs
    tx,         \* the slot's buy transaction on the chain
    wallet,     \* tokens that the wallet holds
    selling,    \* number of the token's sale transactions in flight
    sold,       \* number of sales sent
    spend,      \* SafetyGuardrails::current_spend
    stop,       \* the Jito emergency stop
    enabled     \* trade_enabled of the auto gate

chainVars == <<tx, wallet, selling, sold>>
bookVars == <<position, pnl, aged, spend>>
switchVars == <<stop, enabled>>
workerVars == <<lock, intents, worker>>
vars == <<workerVars, seller, bookVars, chainVars, switchVars,
          breakerVars, omegaVars>>

Free == "free"
NoSlot == "no slot"
Cost == Buy + Tip    \* omega_estimated_cost_sol

WorkerIdle == [at |-> "idle", slot |-> NoSlot, polls |-> 0]
SellerIdle == [at |-> "idle", slot |-> NoSlot, pnl |-> 0]
SellerStopped == [SellerIdle EXCEPT !.at = "stopped"]

Opened == {s \in Slots : position[s] # "none"}
Running == seller.at # "stopped"

TypeOK ==
    /\ lock \in {Free, "worker", "seller"}
    /\ intents \subseteq Slots
    /\ worker \in [at : {"idle", "wait", "rug", "guard", "send", "verify"},
                   slot : Slots \cup {NoSlot}, polls : Nat]
    /\ seller \in [at : {"idle", "sell", "balance", "send", "log", "stopped"},
                   slot : Slots \cup {NoSlot}, pnl : Pnls]
    /\ position \in [Slots -> {"none", "open", "closed"}]
    /\ pnl \in [Slots -> Pnls]
    /\ aged \subseteq Slots
    /\ tx \in [Slots -> {"none", "inflight", "landed", "failed"}]
    /\ wallet \subseteq Mints
    /\ selling \in [Mints -> Nat]
    /\ sold \in Nat
    /\ spend \in Nat
    /\ stop \in BOOLEAN
    /\ enabled \in BOOLEAN
    /\ BreakerTypeOK
    /\ OmegaTypeOK

Init ==
    /\ lock = Free
    /\ intents = {}
    /\ worker = WorkerIdle
    /\ seller = SellerIdle
    /\ position = [s \in Slots |-> "none"]
    /\ pnl = [s \in Slots |-> 0]
    /\ aged = {}
    /\ tx = [s \in Slots |-> "none"]
    /\ wallet = {}
    /\ selling = [m \in Mints |-> 0]
    /\ sold = 0
    /\ spend = 0
    /\ stop = FALSE
    /\ enabled = TRUE
    /\ BreakerInit
    /\ OmegaInit

-----------------------------------------------------------------------------
(***************************************************************************)
(* The worker receives an intent, then waits for the lock.                 *)
(***************************************************************************)
Take(s) ==
    /\ Running
    /\ worker.at = "idle"
    /\ s \in intents
    /\ intents' = intents \ {s}
    /\ UNCHANGED <<lock, seller, bookVars, chainVars, switchVars,
                   breakerVars, omegaVars>>

\* Too old when it comes off the queue; the wait for the lock does not count.
DropStale(s) == Take(s) /\ UNCHANGED worker

Receive(s) ==
    /\ Take(s)
    /\ worker' = [at |-> "wait", slot |-> s, polls |-> 0]

(***************************************************************************)
(* With the lock in its hands it runs the admission checks in one go.      *)
(***************************************************************************)
HasLock ==
    /\ Running
    /\ worker.at = "wait"
    /\ lock = Free
    /\ UNCHANGED <<intents, seller, bookVars, chainVars, switchVars>>

IsPump == worker.slot \in PumpSlots

\* The auto gate is shut, or the Pump.fun filter denies the token.
Skip ==
    /\ HasLock
    /\ ~enabled \/ IsPump
    /\ worker' = WorkerIdle
    /\ UNCHANGED <<lock, breakerVars, omegaVars>>

RefusedByBreaker ==
    /\ HasLock
    /\ enabled
    /\ ~CheckPasses
    /\ CheckCircuitBreaker
    /\ worker' = WorkerIdle
    /\ UNCHANGED <<lock, omegaVars>>

\* Only a Pump.fun token meets the emergency stop this early.
RefusedByStop ==
    /\ HasLock
    /\ enabled
    /\ CheckPasses
    /\ CheckCircuitBreaker
    /\ IsPump /\ stop
    /\ worker' = WorkerIdle
    /\ UNCHANGED <<lock, omegaVars>>

RefusedByOmega ==
    /\ HasLock
    /\ enabled
    /\ CheckPasses
    /\ CheckCircuitBreaker
    /\ IsPump => ~stop
    /\ Reject(Cost)
    /\ worker' = WorkerIdle
    /\ UNCHANGED lock

Admitted ==
    /\ HasLock
    /\ enabled
    /\ CheckPasses
    /\ CheckCircuitBreaker
    /\ IsPump => ~stop
    /\ Admit(Cost)
    /\ worker' = [worker EXCEPT !.at = IF IsPump THEN "guard" ELSE "rug"]
    /\ lock' = "worker"

Admission ==
    \/ Skip \/ RefusedByBreaker \/ RefusedByStop \/ RefusedByOmega \/ Admitted

-----------------------------------------------------------------------------
(***************************************************************************)
(* The worker goes on with the slot it took, the write lock in its hands.  *)
(***************************************************************************)
WorkerAt(step) == Running /\ worker.at = step

WorkerGoesTo(step) ==
    /\ worker' = [worker EXCEPT !.at = step]
    /\ UNCHANGED <<lock, intents>>

WorkerDone ==
    /\ worker' = WorkerIdle
    /\ lock' = Free
    /\ UNCHANGED intents

BuyStepFrame == UNCHANGED <<seller, switchVars, breakerVars>>

RugCheckPasses ==
    /\ WorkerAt("rug")
    /\ WorkerGoesTo("guard")
    /\ BuyStepFrame
    /\ UNCHANGED <<bookVars, chainVars, omegaVars>>

RugCheckFails ==
    /\ WorkerAt("rug")
    /\ WorkerDone
    /\ BuyStepFrame
    /\ UNCHANGED <<bookVars, chainVars, omegaVars>>

\* Mutant of GuardPasses: the spend cap is not looked at.
GuardPassesUncapped ==
    /\ WorkerAt("guard")
    /\ IsPump \/ ~stop
    /\ ~IsTriggered
    /\ WorkerGoesTo("send")
    /\ BuyStepFrame
    /\ UNCHANGED <<bookVars, chainVars, omegaVars>>

\* Mutant of GuardPasses: only an open breaker blocks the buy, as is_open
\* would in the place of is_triggered.
GuardPassesHalfOpen ==
    /\ WorkerAt("guard")
    /\ IsPump \/ ~stop
    /\ state # OPEN
    /\ spend + Buy <= SpendCap
    /\ WorkerGoesTo("send")
    /\ BuyStepFrame
    /\ UNCHANGED <<bookVars, chainVars, omegaVars>>

\* execute_buy and execute_pump_buy up to the blockhash: the emergency stop
\* (pools only), then can_open_position.  active_positions stays 0, so its
\* limit never refuses.
GuardPasses ==
    /\ WorkerAt("guard")
    /\ IsPump \/ ~stop
    /\ ~IsTriggered
    /\ spend + Buy <= SpendCap
    /\ WorkerGoesTo("send")
    /\ BuyStepFrame
    /\ UNCHANGED <<bookVars, chainVars, omegaVars>>

\* One of them refuses; the wallet's balance may be what does.
GuardRefuses ==
    /\ WorkerAt("guard")
    /\ WorkerDone
    /\ BuyStepFrame
    /\ UNCHANGED <<bookVars, chainVars, omegaVars>>

BuyInFlight == tx' = [tx EXCEPT ![worker.slot] = "inflight"]

SendAccepted ==
    /\ WorkerAt("send")
    /\ BuyInFlight
    /\ WorkerGoesTo("verify")
    /\ BuyStepFrame
    /\ UNCHANGED <<bookVars, wallet, selling, sold, omegaVars>>

\* Both paths report an error, or no blockhash is cached.
SendFails ==
    /\ WorkerAt("send")
    /\ WorkerDone
    /\ BuyStepFrame
    /\ UNCHANGED <<bookVars, chainVars, omegaVars>>

\* The answer is lost on a transaction the network did take, or it is no
\* signature, which verify_bundle_landed gives up on at once.
SendUnconfirmed ==
    /\ WorkerAt("send")
    /\ BuyInFlight
    /\ WorkerDone
    /\ BuyStepFrame
    /\ UNCHANGED <<bookVars, wallet, selling, sold, omegaVars>>

\* Mutant of OpenPosition: the guardrails are charged the buy alone.
OpenPositionUntipped(s) ==
    /\ position' = [position EXCEPT ![s] = "open"]
    /\ pnl' = [pnl EXCEPT ![s] = 0]
    /\ spend' = spend + Buy
    /\ RecordSpend(Cost)
    /\ UNCHANGED aged

\* open_position, and the cost on both ledgers.
OpenPosition(s) ==
    /\ position' = [position EXCEPT ![s] = "open"]
    /\ pnl' = [pnl EXCEPT ![s] = 0]
    /\ spend' = spend + Cost
    /\ RecordSpend(Cost)
    /\ UNCHANGED aged

PollConfirms ==
    /\ WorkerAt("verify")
    /\ tx[worker.slot] = "landed"
    /\ OpenPosition(worker.slot)
    /\ WorkerDone
    /\ BuyStepFrame
    /\ UNCHANGED chainVars

PollFindsFailure ==
    /\ WorkerAt("verify")
    /\ tx[worker.slot] = "failed"
    /\ WorkerDone
    /\ BuyStepFrame
    /\ UNCHANGED <<bookVars, chainVars, omegaVars>>

\* Mutant of PollAgain: the attempts are not counted.
PollAgainUncounted ==
    /\ WorkerAt("verify")
    /\ worker.polls + 1 < MaxPolls
    /\ UNCHANGED vars

\* Not known yet, or the status request failed.
PollAgain ==
    /\ WorkerAt("verify")
    /\ worker.polls + 1 < MaxPolls
    /\ worker' = [worker EXCEPT !.polls = @ + 1]
    /\ UNCHANGED <<lock, intents>>
    /\ BuyStepFrame
    /\ UNCHANGED <<bookVars, chainVars, omegaVars>>

\* Mutant of PollGivesUp: out of attempts, the buy is taken to have landed.
PollGivesUpHopefully ==
    /\ WorkerAt("verify")
    /\ worker.polls + 1 >= MaxPolls
    /\ OpenPosition(worker.slot)
    /\ WorkerDone
    /\ BuyStepFrame
    /\ UNCHANGED chainVars

PollGivesUp ==
    /\ WorkerAt("verify")
    /\ worker.polls + 1 >= MaxPolls
    /\ WorkerDone
    /\ BuyStepFrame
    /\ UNCHANGED <<bookVars, chainVars, omegaVars>>

BuyStep ==
    \/ RugCheckPasses \/ RugCheckFails \/ GuardPasses \/ GuardRefuses
    \/ SendAccepted \/ SendFails \/ SendUnconfirmed
    \/ PollConfirms \/ PollFindsFailure \/ PollAgain \/ PollGivesUp

-----------------------------------------------------------------------------
(***************************************************************************)
(* The main loop handles a price, and sells what it makes exit.            *)
(***************************************************************************)
Exits(s, q) == q >= TakeProfit \/ q <= -StopLoss \/ s \in aged

PriceFrame == UNCHANGED <<workerVars, aged, spend, chainVars, switchVars,
                          breakerVars, omegaVars>>

\* A pool id is the id of no position: update_positions finds nothing.
PriceUnmatched(key) ==
    /\ key = "pool"
    /\ UNCHANGED <<position, pnl, seller>>

PriceHeld(s, q, key) ==
    /\ key = "position"
    /\ ~Exits(s, q)
    /\ pnl' = [pnl EXCEPT ![s] = q]
    /\ UNCHANGED <<position, seller>>

\* check_exit_conditions does not look at the status: a position that is
\* closed already exits again, whether or not its sale went through.
PriceExits(s, q, key) ==
    /\ key = "position"
    /\ Exits(s, q)
    /\ pnl' = [pnl EXCEPT ![s] = q]
    /\ position' = [position EXCEPT ![s] = "closed"]
    /\ seller' = [at |-> "sell", slot |-> s, pnl |-> q]

PriceUpdate(s, q, key) ==
    /\ seller.at = "idle"
    /\ lock = Free
    /\ s \in Opened
    /\ PriceUnmatched(key) \/ PriceHeld(s, q, key) \/ PriceExits(s, q, key)
    /\ PriceFrame

SellerFrame == UNCHANGED <<intents, worker, bookVars, switchVars>>

SellerGoesTo(step) == seller' = [seller EXCEPT !.at = step]

\* execute_sell_mint begins with the circuit breaker, then the emergency
\* stop, then reads the bonding curve, where any of the three may refuse.
SellerRefused ==
    /\ seller.at = "sell"
    /\ lock = Free
    /\ CheckCircuitBreaker
    /\ seller' = SellerIdle
    /\ SellerFrame
    /\ UNCHANGED <<lock, chainVars, omegaVars>>

\* Mutant of SellerStarts: the read lock is not kept while the sale is sent.
SellerStartsUnlocked ==
    /\ seller.at = "sell"
    /\ lock = Free
    /\ CheckPasses
    /\ CheckCircuitBreaker
    /\ ~stop
    /\ SellerGoesTo("balance")
    /\ SellerFrame
    /\ UNCHANGED <<lock, chainVars, omegaVars>>

SellerStarts ==
    /\ seller.at = "sell"
    /\ lock = Free
    /\ CheckPasses
    /\ CheckCircuitBreaker
    /\ ~stop
    /\ lock' = "seller"
    /\ SellerGoesTo("balance")
    /\ SellerFrame
    /\ UNCHANGED <<chainVars, omegaVars>>

\* The token account is empty, or its balance could not be read.
SellerFindsNothing ==
    /\ seller.at = "balance"
    /\ seller' = SellerIdle
    /\ lock' = Free
    /\ SellerFrame
    /\ UNCHANGED <<chainVars, breakerVars, omegaVars>>

SellerFindsTokens ==
    /\ seller.at = "balance"
    /\ Mint[seller.slot] \in wallet
    /\ SellerGoesTo("send")
    /\ SellerFrame
    /\ UNCHANGED <<lock, chainVars, breakerVars, omegaVars>>

SaleInFlight ==
    /\ sold < MaxSales
    /\ sold' = sold + 1
    /\ selling' = [selling EXCEPT ![Mint[seller.slot]] = @ + 1]
    /\ UNCHANGED <<tx, wallet>>

\* Both paths report an error: on_trade_error, and no PnL is recorded, even
\* if the network did take the transaction.
SaleFails ==
    /\ seller.at = "send"
    /\ SaleInFlight \/ UNCHANGED chainVars
    /\ seller' = SellerIdle
    /\ lock' = Free
    /\ SellerFrame
    /\ UNCHANGED <<breakerVars, omegaVars>>

\* Mutant of SaleSent: a gain only confirms the recovery, without being
\* recorded and judged by its window first.
SaleSentUnjudged ==
    /\ seller.at = "send"
    /\ SaleInFlight
    /\ \/ seller.pnl < 0 /\ RecordPnlPercent(seller.pnl)
       \/ /\ seller.pnl >= 0 /\ state = HALF_OPEN
          /\ state' = CLOSED /\ pnls' = <<>> /\ ages' = <<>> /\ losses' = 0
          /\ UNCHANGED sinceTrip
    /\ RecordPnl(seller.pnl)
    /\ lock' = Free
    /\ SellerGoesTo("log")
    /\ SellerFrame

\* The sale is accepted: on_sell_executed feeds both breakers the PnL that
\* was computed when the position was closed.  Nobody waits for it to land.
SaleSent ==
    /\ seller.at = "send"
    /\ SaleInFlight
    /\ RecordPnlPercent(seller.pnl)
    /\ RecordPnl(seller.pnl)
    /\ lock' = Free
    /\ SellerGoesTo("log")
    /\ SellerFrame

LogSale ==
    /\ seller.at = "log"
    /\ seller' = SellerIdle
    /\ SellerFrame
    /\ UNCHANGED <<lock, chainVars, breakerVars, omegaVars>>

\* log_trade's error leaves the main loop, and the program with it.
LogFails ==
    /\ seller.at = "log"
    /\ seller' = SellerStopped
    /\ SellerFrame
    /\ UNCHANGED <<lock, chainVars, breakerVars, omegaVars>>

SellStep ==
    \/ SellerRefused \/ SellerStarts \/ SellerFindsNothing
    \/ SellerFindsTokens \/ SaleFails \/ SaleSent \/ LogSale \/ LogFails

-----------------------------------------------------------------------------
(***************************************************************************)
(* Around the two tasks: the stream, the chain, time and the switches.     *)
(***************************************************************************)
\* The main loop hears of a token while it is not busy selling, and enqueues
\* its intent, whatever it has heard before: the same token announced again is
\* the next slot of its mint.  A slot that came to nothing is used again; one
\* that may still land, or has opened a position, is not.
Detect(s) ==
    /\ seller.at = "idle"
    /\ position[s] = "none"
    /\ tx[s] \in {"none", "failed"}
    /\ s \notin intents /\ s # worker.slot
    /\ intents' = intents \cup {s}
    /\ UNCHANGED <<lock, worker, seller, bookVars, chainVars, switchVars,
                   breakerVars, omegaVars>>

ChainFrame == UNCHANGED <<workerVars, seller, bookVars, sold, switchVars,
                          breakerVars, omegaVars>>

Land(s) ==
    /\ tx[s] = "inflight"
    /\ tx' = [tx EXCEPT ![s] = "landed"]
    /\ wallet' = wallet \cup {Mint[s]}
    /\ UNCHANGED selling
    /\ ChainFrame

FailTx(s) ==
    /\ tx[s] = "inflight"
    /\ tx' = [tx EXCEPT ![s] = "failed"]
    /\ UNCHANGED <<wallet, selling>>
    /\ ChainFrame

BoughtAgain(m) ==
    \E s, t \in Slots :
        /\ s # t /\ Mint[s] = m /\ Mint[t] = m
        /\ tx[s] = "landed" /\ tx[t] = "landed"

\* It sells the balance that was read before it was sent; another buy of the
\* token may have landed since, and leaves the wallet with the rest.
LandSale(m) ==
    /\ selling[m] > 0
    /\ m \in wallet
    /\ selling' = [selling EXCEPT ![m] = @ - 1]
    /\ \/ wallet' = wallet \ {m}
       \/ BoughtAgain(m) /\ UNCHANGED wallet
    /\ UNCHANGED tx
    /\ ChainFrame

FailSale(m) ==
    /\ selling[m] > 0
    /\ selling' = [selling EXCEPT ![m] = @ - 1]
    /\ UNCHANGED <<tx, wallet>>
    /\ ChainFrame

\* The position's age passes max_position_age_secs.
Age(s) ==
    /\ position[s] = "open"
    /\ s \notin aged
    /\ aged' = aged \cup {s}
    /\ UNCHANGED <<workerVars, seller, position, pnl, spend,
                   chainVars, switchVars, breakerVars, omegaVars>>

FlipStop ==
    /\ stop' = ~stop
    /\ UNCHANGED <<workerVars, seller, bookVars, chainVars, enabled,
                   breakerVars, omegaVars>>

FlipGate ==
    /\ enabled' = ~enabled
    /\ UNCHANGED <<workerVars, seller, bookVars, chainVars, stop,
                   breakerVars, omegaVars>>

Tick ==
    /\ TickBreaker
    /\ TickOmega
    /\ UNCHANGED <<workerVars, seller, bookVars, chainVars, switchVars>>

-----------------------------------------------------------------------------
TakeIntent(s) == DropStale(s) \/ Receive(s)

ChainStep(s) == Land(s) \/ FailTx(s)

SaleStep(m) == LandSale(m) \/ FailSale(m)

PriceStep == \E s \in Slots, q \in Pnls, key \in Keys : PriceUpdate(s, q, key)

SlotStep(s) == TakeIntent(s) \/ Detect(s) \/ ChainStep(s) \/ Age(s)

OtherStep ==
    \/ \E s \in Slots : SlotStep(s)
    \/ \E m \in Mints : SaleStep(m)
    \/ Admission \/ BuyStep \/ SellStep
    \/ FlipStop \/ FlipGate \/ Tick

Next == PriceStep \/ OtherStep

Spec == Init /\ [][Next]_vars

\* The two tasks keep running, and the queue and the lock are fair: every
\* intent is received in its turn, and the worker gets the lock however often
\* the main loop wants it too.  Nothing is assumed of the chain, the market
\* or the clock.
Fairness ==
    /\ WF_vars(BuyStep)
    /\ WF_vars(SellStep)
    /\ SF_vars(Admission)
    /\ \A s \in Slots : SF_vars(TakeIntent(s))

FairSpec == Spec /\ Fairness

-----------------------------------------------------------------------------
\* A buy reaches the network only while the loss breaker is closed: no sale
\* books a loss between can_open_position and the send.
BuysNeedClosedBreaker ==
    [][\A s \in Slots :
          tx[s] # "inflight" /\ tx'[s] = "inflight" => state = CLOSED]_vars

\* The guardrails and the resource pulse keep separate ledgers of what was
\* spent; both stand at the cost of the positions opened.
LedgersAgree ==
    /\ spend = Cost * Cardinality(Opened)
    /\ spent = spend

\* What was spent stays within the budget, and within the spend cap but for
\* one tip, which can_open_position does not count.  Both are checked long
\* before they are charged, with the send and the polls between.
SpendWithinCaps ==
    /\ spent <= Budget
    /\ spend <= SpendCap + Tip

\* A position stands for a buy that did land, however the answer of the
\* send, the polls and the chain fall together.
PositionsAreBacked == \A s \in Opened : tx[s] = "landed"

\* The queue is always served: no wait for a confirmation, no sale and no
\* refusal keeps an intent from being taken up and settled.
IntentsAreSettled ==
    \A s \in Slots :
        s \in intents ~> (s \notin intents /\ s # worker.slot) \/ ~Running

-----------------------------------------------------------------------------
(***************************************************************************)
(* Why they hold: the inductive invariant.                                 *)
(***************************************************************************)
\* The lock is held exactly while one of the two tasks is in its locked part.
LockInv ==
    /\ lock = "worker" <=> worker.at \notin {"idle", "wait"}
    /\ lock = "seller" <=> seller.at \in {"balance", "send"}

\* An announcement is bought once: while its intent waits or is worked on it
\* has no position, and no transaction until the worker sends one.
BuyOnceInv ==
    /\ worker.at # "idle" => worker.slot \in Slots
    /\ \A s \in Slots :
          s \in intents \/ s = worker.slot => position[s] = "none"
    /\ \A s \in intents : s # worker.slot /\ tx[s] \in {"none", "failed"}
    /\ worker.at \in {"wait", "rug", "guard", "send"}
          => tx[worker.slot] \in {"none", "failed"}

\* What was checked for a buy stays true until it is charged or dropped.
ClearanceInv ==
    /\ worker.at \notin {"idle", "wait"} => spent + Cost <= Budget
    /\ worker.at \in {"send", "verify"} => spend + Buy <= SpendCap
    /\ worker.at = "send" => state = CLOSED

\* One announcement never makes two buys, and the clearances of a buy are not
\* outdated while the lock is held across the network calls, whichever tokens
\* are bought and sold around it.
Inv ==
    /\ LockInv
    /\ BuyOnceInv
    /\ ClearanceInv
    /\ LedgersAgree
    /\ SpendWithinCaps
    /\ PositionsAreBacked

=============================================================================
