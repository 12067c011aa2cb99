------------------------- MODULE LiveTrading_proofs -------------------------
(***************************************************************************)
(* Proofs about live trading, for any number of tokens, any amounts, caps, *)
(* limits and PnLs, and any number of polls and sales: types, the          *)
(* refinement of both gates, and the safety of the whole.                  *)
(***************************************************************************)
EXTENDS LiveTrading, Guardrails_proofs

USE DEF workerVars, bookVars, chainVars, switchVars

-----------------------------------------------------------------------------
(***************************************************************************)
(* The two gates inside LiveTrader only ever take steps of their own       *)
(* specifications: live trading implements both.                           *)
(***************************************************************************)
GateSteps == [BreakerNext]_breakerVars /\ [OmegaNext(Nat, Int)]_omegaVars

LEMMA CostType == Cost \in Nat
<1>1. Buy \in Nat /\ Tip \in Nat
  BY TradingAssumption, Zenon DEF TradingAssumption
<1> QED
  BY <1>1 DEF Cost

LEMMA GateStep ==
    ASSUME TypeOK, [Next]_vars
    PROVE  GateSteps
<1> USE DEF GateSteps
<1>1. ASSUME UNCHANGED omegaVars, UNCHANGED breakerVars
      PROVE  GateSteps
  BY <1>1
<1>2. ASSUME UNCHANGED omegaVars, CheckCircuitBreaker
      PROVE  GateSteps
  BY <1>2 DEF BreakerNext
<1>3. ASSUME NEW s \in Slots, TakeIntent(s)
      PROVE  GateSteps
  BY <1>1, <1>3 DEF TakeIntent, DropStale, Receive, Take
<1>11. CASE Admission
  <2>1. CASE Skip
    BY <1>1, <2>1 DEF Skip
  <2>2. CASE RefusedByBreaker \/ RefusedByStop
    BY <1>2, <2>2 DEF RefusedByBreaker, RefusedByStop
  <2>3. CASE RefusedByOmega
    BY <2>3, CostType DEF RefusedByOmega, BreakerNext, OmegaNext
  <2>4. CASE Admitted
    BY <2>4, CostType DEF Admitted, BreakerNext, OmegaNext
  <2> QED
    BY <1>11, <2>1, <2>2, <2>3, <2>4 DEF Admission
<1>4. CASE BuyStep
  <2>1. CASE PollConfirms
    BY <2>1, CostType DEF PollConfirms, BuyStepFrame, OpenPosition, OmegaNext
  <2>2. CASE ~PollConfirms
    BY <1>1, <1>4, <2>2
    DEF BuyStep, BuyStepFrame, RugCheckPasses, RugCheckFails, GuardPasses,
        GuardRefuses, SendAccepted, SendFails, SendUnconfirmed,
        PollFindsFailure, PollAgain, PollGivesUp
  <2> QED
    BY <2>1, <2>2
<1>5. CASE PriceStep
  BY <1>1, <1>5 DEF PriceStep, PriceUpdate, PriceFrame
<1>6. CASE SellStep
  <2>1. CASE SaleSent
    <3>1. seller.pnl \in Pnls /\ seller.pnl \in Int
      BY BreakerAssumption DEF TypeOK
    <3> QED
      BY <2>1, <3>1 DEF SaleSent, BreakerNext, OmegaNext
  <2>2. CASE SellerRefused \/ SellerStarts
    BY <1>2, <2>2 DEF SellerRefused, SellerStarts
  <2>3. CASE \/ SellerFindsNothing \/ SellerFindsTokens \/ SaleFails
             \/ LogSale \/ LogFails
    BY <1>1, <2>3
    DEF SellerFindsNothing, SellerFindsTokens, SaleFails, LogSale, LogFails
  <2> QED
    BY <1>6, <2>1, <2>2, <2>3 DEF SellStep
<1>7. ASSUME NEW s \in Slots, Detect(s) \/ ChainStep(s) \/ Age(s)
      PROVE  GateSteps
  BY <1>1, <1>7 DEF Detect, ChainStep, Land, FailTx, ChainFrame, Age
<1>12. ASSUME NEW m \in Mints, SaleStep(m)
       PROVE  GateSteps
  BY <1>1, <1>12 DEF SaleStep, LandSale, FailSale, ChainFrame
<1>8. CASE FlipStop \/ FlipGate
  BY <1>1, <1>8 DEF FlipStop, FlipGate
<1>9. CASE Tick
  BY <1>9 DEF Tick, BreakerNext, OmegaNext
<1>10. CASE UNCHANGED vars
  BY <1>1, <1>10 DEF vars
<1> QED
  BY <1>3, <1>4, <1>5, <1>6, <1>7, <1>8, <1>9, <1>10, <1>11, <1>12
  DEF Next, OtherStep, SlotStep

-----------------------------------------------------------------------------
(***************************************************************************)
(* Types.  Those of the gates follow from GateStep; LocalTypeOK is the     *)
(* rest of TypeOK.                                                         *)
(***************************************************************************)
LocalTypeOK ==
    /\ lock \in {Free, "worker", "seller"}
    /\ intents \subseteq Slots
    /\ worker \in [at : {"idle", "wait", "rug", "guard", "send", "verify"},
                   slot : Slots \cup {NoSlot}, polls : Nat]
    /\ seller \in [at : {"idle", "sell", "balance", "send", "log", "stopped"},
                   slot : Slots \cup {NoSlot}, pnl : Pnls]
    /\ position \in [Slots -> {"none", "open", "closed"}]
    /\ pnl \in [Slots -> Pnls]
    /\ aged \subseteq Slots
    /\ tx \in [Slots -> {"none", "inflight", "landed", "failed"}]
    /\ wallet \subseteq Mints
    /\ selling \in [Mints -> Nat]
    /\ sold \in Nat
    /\ spend \in Nat
    /\ stop \in BOOLEAN
    /\ enabled \in BOOLEAN

LEMMA TypeParts == TypeOK <=> LocalTypeOK /\ BreakerTypeOK /\ OmegaTypeOK
BY DEF TypeOK, LocalTypeOK

LEMMA GateTypes ==
    ASSUME BreakerTypeOK, OmegaTypeOK, GateSteps
    PROVE  BreakerTypeOK' /\ OmegaTypeOK'
BY BreakerStepType, OmegaStepType DEF GateSteps

LEMMA IdleTypes ==
    /\ WorkerIdle \in [at : {"idle", "wait", "rug", "guard", "send", "verify"},
                       slot : Slots \cup {NoSlot}, polls : Nat]
    /\ SellerIdle \in [at : {"idle", "sell", "balance", "send", "log", "stopped"},
                       slot : Slots \cup {NoSlot}, pnl : Pnls]
    /\ SellerStopped \in [at : {"idle", "sell", "balance", "send", "log", "stopped"},
                          slot : Slots \cup {NoSlot}, pnl : Pnls]
<1>1. 0 \in Pnls
  BY TradingAssumption, Zenon DEF TradingAssumption
<1> QED
  BY <1>1 DEF WorkerIdle, SellerIdle, SellerStopped

LEMMA TakeType ==
    ASSUME LocalTypeOK, NEW s \in Slots, TakeIntent(s)
    PROVE  LocalTypeOK'
<1>1. worker' \in [at : {"idle", "wait", "rug", "guard", "send", "verify"},
                   slot : Slots \cup {NoSlot}, polls : Nat]
  BY DEF TakeIntent, DropStale, Receive, LocalTypeOK
<1> QED
  BY <1>1 DEF TakeIntent, DropStale, Receive, Take, LocalTypeOK

LEMMA AdmissionType ==
    ASSUME LocalTypeOK, Admission
    PROVE  LocalTypeOK'
<1>1. worker' \in [at : {"idle", "wait", "rug", "guard", "send", "verify"},
                   slot : Slots \cup {NoSlot}, polls : Nat]
  BY IdleTypes
  DEF Admission, Skip, RefusedByBreaker, RefusedByStop, RefusedByOmega,
      Admitted, LocalTypeOK
<1>2. HasLock /\ lock' \in {Free, "worker", "seller"}
  BY DEF Admission, Skip, RefusedByBreaker, RefusedByStop, RefusedByOmega,
         Admitted, LocalTypeOK
<1> QED
  BY <1>1, <1>2 DEF HasLock, LocalTypeOK

LEMMA BuyType ==
    ASSUME LocalTypeOK, BuyStep
    PROVE  LocalTypeOK'
<1>1. ASSUME NEW step \in {"guard", "send", "verify"}, WorkerGoesTo(step)
      PROVE  /\ UNCHANGED <<lock, intents>>
             /\ worker' \in [at : {"idle", "wait", "rug", "guard", "send", "verify"},
                             slot : Slots \cup {NoSlot}, polls : Nat]
  BY <1>1 DEF WorkerGoesTo, LocalTypeOK
<1>2. ASSUME WorkerDone
      PROVE  /\ lock' = Free
             /\ UNCHANGED intents
             /\ worker' \in [at : {"idle", "wait", "rug", "guard", "send", "verify"},
                             slot : Slots \cup {NoSlot}, polls : Nat]
  BY <1>2, IdleTypes DEF WorkerDone
<1>3. ASSUME BuyInFlight
      PROVE  tx' \in [Slots -> {"none", "inflight", "landed", "failed"}]
  BY <1>3 DEF BuyInFlight, LocalTypeOK
<1>4. CASE RugCheckPasses \/ GuardPasses
  BY <1>1, <1>4 DEF RugCheckPasses, GuardPasses, BuyStepFrame, LocalTypeOK
<1>5. CASE \/ RugCheckFails \/ GuardRefuses \/ SendFails
           \/ PollFindsFailure \/ PollGivesUp
  BY <1>2, <1>5
  DEF RugCheckFails, GuardRefuses, SendFails, PollFindsFailure, PollGivesUp,
      BuyStepFrame, LocalTypeOK
<1>6. CASE SendAccepted
  BY <1>1, <1>3, <1>6 DEF SendAccepted, BuyStepFrame, LocalTypeOK
<1>7. CASE SendUnconfirmed
  BY <1>2, <1>3, <1>7 DEF SendUnconfirmed, BuyStepFrame, LocalTypeOK
<1>8. CASE PollConfirms
  <2>1. 0 \in Pnls
    BY TradingAssumption, Zenon DEF TradingAssumption
  <2>2. /\ position' \in [Slots -> {"none", "open", "closed"}]
        /\ pnl' \in [Slots -> Pnls]
        /\ spend' \in Nat
        /\ UNCHANGED aged
    <3>1. spend' = spend + Cost /\ spend \in Nat /\ UNCHANGED aged
      BY <1>8 DEF PollConfirms, OpenPosition, LocalTypeOK
    <3>2. spend' \in Nat
      BY <3>1, CostType
    <3>3. position' \in [Slots -> {"none", "open", "closed"}]
      BY <1>8 DEF PollConfirms, OpenPosition, LocalTypeOK
    <3>4. pnl' \in [Slots -> Pnls]
      BY <1>8, <2>1 DEF PollConfirms, OpenPosition, LocalTypeOK
    <3> QED
      BY <3>1, <3>2, <3>3, <3>4
  <2> QED
    BY <1>2, <1>8, <2>2 DEF PollConfirms, BuyStepFrame, LocalTypeOK
<1>9. CASE PollAgain
  <2>1. worker' \in [at : {"idle", "wait", "rug", "guard", "send", "verify"},
                     slot : Slots \cup {NoSlot}, polls : Nat]
    BY <1>9 DEF PollAgain, LocalTypeOK
  <2> QED
    BY <1>9, <2>1 DEF PollAgain, BuyStepFrame, LocalTypeOK
<1> QED
  BY <1>4, <1>5, <1>6, <1>7, <1>8, <1>9 DEF BuyStep

LEMMA PriceType ==
    ASSUME LocalTypeOK, PriceStep
    PROVE  LocalTypeOK'
<1> PICK s \in Slots, q \in Pnls, key \in Keys : PriceUpdate(s, q, key)
  BY DEF PriceStep
<1>1. CASE PriceUnmatched(key)
  BY <1>1 DEF PriceUnmatched, PriceUpdate, PriceFrame, LocalTypeOK
<1>2. CASE PriceHeld(s, q, key)
  BY <1>2 DEF PriceHeld, PriceUpdate, PriceFrame, LocalTypeOK
<1>3. CASE PriceExits(s, q, key)
  <2>1. seller' \in [at : {"idle", "sell", "balance", "send", "log", "stopped"},
                     slot : Slots \cup {NoSlot}, pnl : Pnls]
    BY <1>3 DEF PriceExits
  <2> QED
    BY <1>3, <2>1 DEF PriceExits, PriceUpdate, PriceFrame, LocalTypeOK
<1> QED
  BY <1>1, <1>2, <1>3 DEF PriceUpdate

LEMMA SellType ==
    ASSUME LocalTypeOK, SellStep
    PROVE  LocalTypeOK'
<1>1. seller' \in [at : {"idle", "sell", "balance", "send", "log", "stopped"},
                   slot : Slots \cup {NoSlot}, pnl : Pnls]
  BY IdleTypes
  DEF SellStep, SellerRefused, SellerStarts, SellerFindsNothing,
      SellerFindsTokens, SaleFails, SaleSent, LogSale, LogFails,
      SellerGoesTo, LocalTypeOK
<1>2. ASSUME SaleInFlight
      PROVE  /\ sold' \in Nat
             /\ selling' \in [Mints -> Nat]
             /\ UNCHANGED <<tx, wallet>>
  <2>1. sold' \in Nat /\ UNCHANGED <<tx, wallet>>
    BY <1>2 DEF SaleInFlight, LocalTypeOK
  <2> DEFINE m == Mint[seller.slot]
  <2>2. selling' = [selling EXCEPT ![m] = selling[m] + 1]
    BY <1>2 DEF SaleInFlight
  <2>3. selling \in [Mints -> Nat]
    BY DEF LocalTypeOK
  <2>4. m \in Mints => selling[m] + 1 \in Nat
    <3>1. m \in Mints => selling[m] \in Nat
      BY <2>3
    <3> QED
      BY <3>1
  <2> HIDE DEF m
  <2>5. selling' \in [Mints -> Nat]
    BY <2>2, <2>3, <2>4, Zenon
  <2> QED
    BY <2>1, <2>5
<1>3. CASE SaleFails \/ SaleSent
  BY <1>1, <1>2, <1>3 DEF SaleFails, SaleSent, SellerFrame, LocalTypeOK
<1>4. CASE ~SaleFails /\ ~SaleSent
  BY <1>1, <1>4
  DEF SellStep, SellerRefused, SellerStarts, SellerFindsNothing,
      SellerFindsTokens, LogSale, LogFails, SellerFrame, LocalTypeOK
<1> QED
  BY <1>3, <1>4

LEMMA AroundType ==
    ASSUME LocalTypeOK, NEW s \in Slots, Detect(s) \/ ChainStep(s) \/ Age(s)
    PROVE  LocalTypeOK'
<1>1. CASE Detect(s)
  BY <1>1 DEF Detect, LocalTypeOK
<1>2. CASE Age(s)
  BY <1>2 DEF Age, LocalTypeOK
<1>3. CASE ChainStep(s)
  <2>1. Mint[s] \in Mints
    BY TradingAssumption, Zenon DEF TradingAssumption
  <2>2. /\ tx' \in [Slots -> {"none", "inflight", "landed", "failed"}]
        /\ wallet' \subseteq Mints
        /\ UNCHANGED selling
    BY <1>3, <2>1 DEF ChainStep, Land, FailTx, LocalTypeOK
  <2> QED
    BY <1>3, <2>2 DEF ChainStep, Land, FailTx, ChainFrame, LocalTypeOK
<1> QED
  BY <1>1, <1>2, <1>3

LEMMA SaleType ==
    ASSUME LocalTypeOK, NEW m \in Mints, SaleStep(m)
    PROVE  LocalTypeOK'
<1>1. selling' = [selling EXCEPT ![m] = @ - 1] /\ selling[m] > 0
  BY DEF SaleStep, LandSale, FailSale
<1>2. selling' \in [Mints -> Nat]
  BY <1>1 DEF LocalTypeOK
<1>3. wallet' \subseteq Mints /\ UNCHANGED tx
  BY DEF SaleStep, LandSale, FailSale, LocalTypeOK
<1> QED
  BY <1>2, <1>3 DEF SaleStep, LandSale, FailSale, ChainFrame, LocalTypeOK

\* Live trading is well typed.
THEOREM TypeCorrect == Spec => []TypeOK
<1>1. Init => TypeOK
  <2> SUFFICES ASSUME Init
               PROVE  TypeOK
    OBVIOUS
  <2>1. 0 \in Pnls
    BY TradingAssumption, Zenon DEF TradingAssumption
  <2>2. LocalTypeOK
    BY <2>1, IdleTypes DEF Init, LocalTypeOK
  <2> QED
    BY <2>2, BreakerInitType, OmegaInitType, TypeParts DEF Init
<1>2. TypeOK /\ [Next]_vars => TypeOK'
  <2> SUFFICES ASSUME TypeOK, [Next]_vars
               PROVE  TypeOK'
    OBVIOUS
  <2>1. LocalTypeOK
    BY TypeParts
  <2>2. LocalTypeOK'
    <3>1. CASE UNCHANGED vars
      BY <2>1, <3>1 DEF vars, LocalTypeOK
    <3>2. CASE FlipStop \/ FlipGate \/ Tick
      BY <2>1, <3>2 DEF FlipStop, FlipGate, Tick, LocalTypeOK
    <3> QED
      BY <2>1, <3>1, <3>2, TakeType, AdmissionType,
         BuyType, PriceType, SellType, AroundType, SaleType
      DEF Next, OtherStep, SlotStep
  <2>3. BreakerTypeOK' /\ OmegaTypeOK'
    BY GateStep, GateTypes, TypeParts
  <2> QED
    BY <2>2, <2>3 DEF TypeOK, LocalTypeOK
<1> QED
  BY <1>1, <1>2, PTL DEF Spec

\* Live trading drives its loss breaker as the breaker's own specification
\* allows: no interleaving of buys, sales and refusals takes it elsewhere.
THEOREM LiveImplementsBreaker == Spec => BreakerSpec
<1>1. Init => BreakerInit
  BY DEF Init
<1>2. TypeOK /\ [Next]_vars => [BreakerNext]_breakerVars
  BY GateStep DEF GateSteps
<1> QED
  BY <1>1, <1>2, TypeCorrect, PTL DEF Spec, BreakerSpec

\* The same for the admission gate.
THEOREM LiveImplementsOmega == Spec => OmegaSpec
<1>1. Init => OmegaInit
  BY DEF Init
<1>2. TypeOK /\ [Next]_vars => [OmegaNext(Nat, Int)]_omegaVars
  BY GateStep DEF GateSteps
<1> QED
  BY <1>1, <1>2, TypeCorrect, PTL DEF Spec, OmegaSpec

-----------------------------------------------------------------------------
(***************************************************************************)
(* Safety: Inv is inductive.  The lock carries the argument.  Between the  *)
(* check of a clearance and the moment it is used the worker holds the     *)
(* lock; the main loop touches the breaker only with the lock free or its  *)
(* own, so that no clearance is outdated.  The ledgers are charged only    *)
(* when a position is opened, and BuyOnceInv says that it is opened in a   *)
(* slot that had none.                                                     *)
(***************************************************************************)

\* The parts of the state that Inv speaks of, without the two tasks.
Ledgers == <<position, tx, spend, spent>>

LEMMA NoSlotFree == NoSlot \notin Slots
BY TradingAssumption, Zenon DEF TradingAssumption, NoSlot

-----------------------------------------------------------------------------
\* The worker takes an intent, and is admitted or not.
LEMMA TakeSafe ==
    ASSUME TypeOK, Inv, NEW s \in Slots, TakeIntent(s)
    PROVE  Inv'
<1>1. /\ worker.at = "idle" /\ s \in intents /\ intents' = intents \ {s}
      /\ UNCHANGED <<lock, seller, Ledgers, state>>
  BY DEF TakeIntent, DropStale, Receive, Take, Ledgers, breakerVars, omegaVars
<1>2. \/ UNCHANGED worker
      \/ worker' = [at |-> "wait", slot |-> s, polls |-> 0]
  BY DEF TakeIntent, DropStale, Receive
<1>3. LockInv'
  BY <1>1, <1>2 DEF Inv, LockInv
<1>4. BuyOnceInv'
  BY <1>1, <1>2 DEF Inv, BuyOnceInv, Ledgers, TypeOK
<1>5. ClearanceInv'
  BY <1>1, <1>2 DEF Inv, ClearanceInv, Ledgers
<1>6. LedgersAgree' /\ SpendWithinCaps' /\ PositionsAreBacked'
  BY <1>1
  DEF Inv, LedgersAgree, SpendWithinCaps, PositionsAreBacked, Opened, Ledgers
<1> QED
  BY <1>3, <1>4, <1>5, <1>6 DEF Inv

LEMMA AdmissionSafe ==
    ASSUME TypeOK, Inv, Admission
    PROVE  Inv'
<1>1. /\ worker.at = "wait" /\ lock = Free
      /\ UNCHANGED <<intents, seller, Ledgers>>
  BY DEF Admission, Skip, RefusedByBreaker, RefusedByStop, RefusedByOmega,
         Admitted, HasLock, Ledgers, omegaVars, Reject, RejectBudget,
         RejectRate, RejectOpen, Admit
<1>2. \/ worker' = WorkerIdle /\ lock' = lock
      \/ /\ worker'.at \in {"guard", "rug"} /\ worker'.slot = worker.slot
         /\ lock' = "worker" /\ spent + Cost <= Budget
  BY DEF Admission, Skip, RefusedByBreaker, RefusedByStop, RefusedByOmega,
         Admitted, Admit, WithinBudget, TypeOK
<1>3. LockInv'
  BY <1>1, <1>2 DEF Inv, LockInv, WorkerIdle, Free
<1>4. BuyOnceInv'
  BY <1>1, <1>2, NoSlotFree DEF Inv, BuyOnceInv, Ledgers, TypeOK, WorkerIdle
<1>5. ClearanceInv'
  BY <1>1, <1>2 DEF Inv, ClearanceInv, Ledgers, WorkerIdle
<1>6. LedgersAgree' /\ SpendWithinCaps' /\ PositionsAreBacked'
  BY <1>1
  DEF Inv, LedgersAgree, SpendWithinCaps, PositionsAreBacked, Opened, Ledgers
<1> QED
  BY <1>3, <1>4, <1>5, <1>6 DEF Inv

-----------------------------------------------------------------------------
\* A buy step that neither sends nor opens: the worker goes on or is done.
LEMMA WorkerMovesSafe ==
    ASSUME TypeOK, Inv,
           worker.at \in {"rug", "guard", "send", "verify"},
           UNCHANGED <<intents, seller, Ledgers, state>>,
           \/ worker' = WorkerIdle /\ lock' = Free
           \/ /\ worker'.at \in {"guard", "send", "verify"}
              /\ worker'.slot = worker.slot
              /\ worker'.at \in {"send", "verify"} => spend + Buy <= SpendCap
              /\ worker'.at = "send" => state = CLOSED
              /\ worker'.at \in {"guard", "send"} => worker.at \in {"rug", "guard"}
              /\ lock' = lock
    PROVE  Inv'
<1>1. lock = "worker"
  BY DEF Inv, LockInv
<1>2. LockInv'
  BY <1>1 DEF Inv, LockInv, WorkerIdle, Free
<1>3. BuyOnceInv'
  BY NoSlotFree DEF Inv, BuyOnceInv, Ledgers, TypeOK, WorkerIdle
<1>4. ClearanceInv'
  BY DEF Inv, ClearanceInv, Ledgers, WorkerIdle
<1>5. LedgersAgree' /\ SpendWithinCaps' /\ PositionsAreBacked'
  BY DEF Inv, LedgersAgree, SpendWithinCaps, PositionsAreBacked, Opened, Ledgers
<1> QED
  BY <1>2, <1>3, <1>4, <1>5 DEF Inv

\* The buy goes out: its slot had no position and no transaction.
LEMMA SendSafe ==
    ASSUME TypeOK, Inv, SendAccepted \/ SendUnconfirmed
    PROVE  Inv'
<1> DEFINE s == worker.slot
<1>1. /\ worker.at = "send"
      /\ UNCHANGED <<intents, seller, position, spend, spent, state>>
      /\ tx' = [tx EXCEPT ![s] = "inflight"]
  BY DEF SendAccepted, SendUnconfirmed, WorkerAt, BuyInFlight, BuyStepFrame,
         WorkerGoesTo, WorkerDone, omegaVars, breakerVars
<1>2. \/ worker' = WorkerIdle /\ lock' = Free
      \/ /\ worker'.at = "verify" /\ worker'.slot = s /\ lock' = lock
  BY DEF SendAccepted, SendUnconfirmed, WorkerGoesTo, WorkerDone, TypeOK
<1>3. s \in Slots /\ s \notin intents /\ position[s] = "none" /\ lock = "worker"
  BY <1>1 DEF Inv, BuyOnceInv, LockInv
<1>4. LockInv'
  BY <1>1, <1>2, <1>3 DEF Inv, LockInv, WorkerIdle, Free
<1>5. BuyOnceInv'
  BY <1>1, <1>2, <1>3, NoSlotFree DEF Inv, BuyOnceInv, TypeOK, WorkerIdle
<1>6. ClearanceInv'
  BY <1>1, <1>2 DEF Inv, ClearanceInv, WorkerIdle
<1>7. LedgersAgree' /\ SpendWithinCaps'
  BY <1>1 DEF Inv, LedgersAgree, SpendWithinCaps, Opened
<1>8. PositionsAreBacked'
  BY <1>1, <1>3 DEF Inv, PositionsAreBacked, Opened, TypeOK
<1> QED
  BY <1>4, <1>5, <1>6, <1>7, <1>8 DEF Inv

\* The buy has landed: its position is the first of its slot, and its cost is
\* charged to both ledgers within what was cleared.
LEMMA ConfirmSafe ==
    ASSUME TypeOK, Inv, PollConfirms
    PROVE  Inv'
<1> DEFINE s == worker.slot
<1>1. /\ worker.at = "verify" /\ tx[s] = "landed"
      /\ UNCHANGED <<intents, seller, tx, state>>
      /\ worker' = WorkerIdle /\ lock' = Free
      /\ position' = [position EXCEPT ![s] = "open"]
      /\ spend' = spend + Cost /\ spent' = spent + Cost
  BY DEF PollConfirms, WorkerAt, OpenPosition, RecordSpend, WorkerDone,
         BuyStepFrame, breakerVars
<1>2. s \in Slots /\ s \notin intents /\ position[s] = "none" /\ lock = "worker"
  BY <1>1 DEF Inv, BuyOnceInv, LockInv
<1>3. LockInv'
  BY <1>1, <1>2 DEF Inv, LockInv, WorkerIdle, Free
<1>4. BuyOnceInv'
  BY <1>1, <1>2, NoSlotFree DEF Inv, BuyOnceInv, TypeOK, WorkerIdle
<1>5. ClearanceInv'
  BY <1>1 DEF ClearanceInv, WorkerIdle
<1>6. Opened' = Opened \cup {s} /\ s \notin Opened
  BY <1>1, <1>2 DEF Opened, TypeOK
<1>7. LedgersAgree'
  <2>1. IsFiniteSet(Slots)
    BY TradingAssumption, Zenon DEF TradingAssumption
  <2>2. IsFiniteSet(Opened)
    BY <2>1, FS_Subset DEF Opened
  <2>3. Cardinality(Opened) \in Nat
    BY <2>2, FS_CardinalityType
  <2>4. Cardinality(Opened') = Cardinality(Opened) + 1
    BY <1>6, <2>2, FS_AddElement
  <2>5. Cost * (Cardinality(Opened) + 1) = Cost * Cardinality(Opened) + Cost
    BY <2>3, CostType
  <2>6. spend = Cost * Cardinality(Opened) /\ spent = spend
    BY DEF Inv, LedgersAgree
  <2>7. spend' = Cost * Cardinality(Opened') /\ spent' = spend'
    BY <1>1, <2>4, <2>5, <2>6
  <2> QED
    BY <2>7 DEF LedgersAgree
<1>8. SpendWithinCaps'
  <2>1. spent + Cost <= Budget /\ spend + Buy <= SpendCap
    BY <1>1 DEF Inv, ClearanceInv
  <2>2. spend \in Nat /\ spent \in Nat /\ Buy \in Nat /\ Tip \in Nat /\ SpendCap \in Nat
    BY TradingAssumption DEF TradingAssumption, TypeOK, OmegaTypeOK
  <2> QED
    BY <1>1, <2>1, <2>2 DEF SpendWithinCaps, Cost
<1>9. PositionsAreBacked'
  BY <1>1, <1>6 DEF Inv, PositionsAreBacked
<1> QED
  BY <1>3, <1>4, <1>5, <1>7, <1>8, <1>9 DEF Inv

LEMMA BuySafe ==
    ASSUME TypeOK, Inv, BuyStep
    PROVE  Inv'
<1> USE DEF WorkerAt, WorkerGoesTo, WorkerDone, BuyStepFrame, Ledgers,
            breakerVars, omegaVars
<1>1. CASE \/ RugCheckFails \/ GuardRefuses \/ SendFails
           \/ PollFindsFailure \/ PollGivesUp
  BY <1>1, WorkerMovesSafe
  DEF RugCheckFails, GuardRefuses, SendFails, PollFindsFailure, PollGivesUp
<1>2. CASE RugCheckPasses
  <2>1. worker'.at = "guard" /\ worker'.slot = worker.slot
    BY <1>2 DEF RugCheckPasses, TypeOK
  <2> QED
    BY <1>2, <2>1, WorkerMovesSafe DEF RugCheckPasses
<1>3. CASE GuardPasses
  <2>1. worker'.at = "send" /\ worker'.slot = worker.slot
    BY <1>3 DEF GuardPasses, TypeOK
  <2>2. state = CLOSED
    BY <1>3 DEF GuardPasses, IsTriggered, TypeOK, BreakerTypeOK, States
  <2> QED
    BY <1>3, <2>1, <2>2, WorkerMovesSafe DEF GuardPasses
<1>4. CASE PollAgain
  <2>1. worker'.at = "verify" /\ worker'.slot = worker.slot
    BY <1>4 DEF PollAgain, TypeOK
  <2>2. spend + Buy <= SpendCap
    BY <1>4 DEF PollAgain, Inv, ClearanceInv
  <2> QED
    BY <1>4, <2>1, <2>2, WorkerMovesSafe DEF PollAgain
<1> QED
  BY <1>1, <1>2, <1>3, <1>4, SendSafe, ConfirmSafe DEF BuyStep

-----------------------------------------------------------------------------
\* A price closes positions; it opens none and leaves the worker alone.
LEMMA PriceSafe ==
    ASSUME TypeOK, Inv, PriceStep
    PROVE  Inv'
<1> PICK s \in Slots, q \in Pnls, key \in Keys : PriceUpdate(s, q, key)
  BY DEF PriceStep
<1>1. /\ UNCHANGED <<lock, intents, worker, tx, spend, spent, state>>
      /\ seller.at = "idle" /\ s \in Opened
  BY DEF PriceUpdate, PriceFrame, breakerVars, omegaVars
<1>2. seller' = seller \/ seller'.at = "sell"
  BY DEF PriceUpdate, PriceUnmatched, PriceHeld, PriceExits
<1>3. position' = position \/ position' = [position EXCEPT ![s] = "closed"]
  BY DEF PriceUpdate, PriceUnmatched, PriceHeld, PriceExits
<1>4. \A t \in Slots : position'[t] = "none" <=> position[t] = "none"
  BY <1>1, <1>3 DEF Opened, TypeOK
<1>5. Opened' = Opened
  BY <1>4 DEF Opened
<1>6. LockInv' /\ ClearanceInv'
  BY <1>1, <1>2 DEF Inv, LockInv, ClearanceInv
<1>7. BuyOnceInv'
  BY <1>1, <1>4 DEF Inv, BuyOnceInv
<1>8. LedgersAgree' /\ SpendWithinCaps' /\ PositionsAreBacked'
  BY <1>1, <1>5 DEF Inv, LedgersAgree, SpendWithinCaps, PositionsAreBacked
<1> QED
  BY <1>6, <1>7, <1>8 DEF Inv

\* The main loop sells: the breaker may change, but not while a buy that was
\* cleared by it is on its way to the network.
LEMMA SellSafe ==
    ASSUME TypeOK, Inv, SellStep
    PROVE  Inv'
<1> USE DEF Ledgers, SellerFrame, SellerGoesTo, breakerVars, omegaVars
<1>1. UNCHANGED <<intents, worker, Ledgers>>
  BY DEF SellStep, SellerRefused, SellerStarts, SellerFindsNothing,
         SellerFindsTokens, SaleFails, SaleSent, SaleInFlight, LogSale, LogFails,
         RecordPnl
<1>2. UNCHANGED state \/ lock # "worker"
  BY DEF SellStep, SellerRefused, SellerStarts, SellerFindsNothing,
         SellerFindsTokens, SaleFails, SaleSent, LogSale, LogFails, Inv, LockInv,
         Free
<1>3. LockInv'
  BY <1>1
  DEF SellStep, SellerRefused, SellerStarts, SellerFindsNothing,
      SellerFindsTokens, SaleFails, SaleSent, LogSale, LogFails, Inv, LockInv,
      Free, SellerIdle, SellerStopped, TypeOK
<1>4. BuyOnceInv'
  BY <1>1 DEF Inv, BuyOnceInv
<1>5. ClearanceInv'
  BY <1>1, <1>2 DEF Inv, ClearanceInv, LockInv
<1>6. LedgersAgree' /\ SpendWithinCaps' /\ PositionsAreBacked'
  BY <1>1
  DEF Inv, LedgersAgree, SpendWithinCaps, PositionsAreBacked, Opened
<1> QED
  BY <1>3, <1>4, <1>5, <1>6 DEF Inv

-----------------------------------------------------------------------------
\* A token is announced: in a slot of its own.
LEMMA DetectSafe ==
    ASSUME TypeOK, Inv, NEW s \in Slots, Detect(s)
    PROVE  Inv'
<1>1. /\ position[s] = "none" /\ tx[s] \in {"none", "failed"} /\ s # worker.slot
      /\ intents' = intents \cup {s}
      /\ UNCHANGED <<lock, worker, seller, Ledgers, state>>
  BY DEF Detect, Ledgers, breakerVars, omegaVars
<1>2. BuyOnceInv'
  BY <1>1 DEF Inv, BuyOnceInv, Ledgers
<1>3. LockInv' /\ ClearanceInv'
  BY <1>1 DEF Inv, LockInv, ClearanceInv, Ledgers
<1>4. LedgersAgree' /\ SpendWithinCaps' /\ PositionsAreBacked'
  BY <1>1
  DEF Inv, LedgersAgree, SpendWithinCaps, PositionsAreBacked, Opened, Ledgers
<1> QED
  BY <1>2, <1>3, <1>4 DEF Inv

\* The chain settles transactions in flight, which no position and no buy
\* before its send can have.
LEMMA ChainSafe ==
    ASSUME TypeOK, Inv, NEW s \in Slots, ChainStep(s)
    PROVE  Inv'
<1>1. UNCHANGED <<lock, intents, worker, seller, position, spend, spent, state>>
  BY DEF ChainStep, Land, FailTx, ChainFrame, breakerVars, omegaVars
<1>2. /\ tx[s] = "inflight"
      /\ \A t \in Slots : t # s => tx'[t] = tx[t]
  BY DEF ChainStep, Land, FailTx, TypeOK
<1>3. LockInv' /\ ClearanceInv'
  BY <1>1 DEF Inv, LockInv, ClearanceInv
<1>4. BuyOnceInv'
  BY <1>1, <1>2 DEF Inv, BuyOnceInv, TypeOK
<1>5. LedgersAgree' /\ SpendWithinCaps'
  BY <1>1 DEF Inv, LedgersAgree, SpendWithinCaps, Opened
<1>6. PositionsAreBacked'
  BY <1>1, <1>2 DEF Inv, PositionsAreBacked, Opened
<1> QED
  BY <1>3, <1>4, <1>5, <1>6 DEF Inv

LEMMA RestSafe ==
    ASSUME Inv, UNCHANGED <<lock, intents, worker, seller, Ledgers, state>>
    PROVE  Inv'
BY DEF Inv, LockInv, BuyOnceInv, ClearanceInv, LedgersAgree, SpendWithinCaps,
       PositionsAreBacked, Opened, Ledgers

-----------------------------------------------------------------------------
LEMMA InvInit == Init => Inv
<1> SUFFICES ASSUME Init PROVE Inv
  OBVIOUS
<1>1. LockInv /\ ClearanceInv
  BY DEF Init, LockInv, ClearanceInv, WorkerIdle, SellerIdle, Free
<1>2. BuyOnceInv /\ PositionsAreBacked
  BY DEF Init, BuyOnceInv, PositionsAreBacked, Opened, WorkerIdle
<1>3. Opened = {}
  BY DEF Init, Opened
<1>4. LedgersAgree
  <2>1. Cardinality(Opened) = 0
    BY <1>3, FS_EmptySet
  <2> QED
    BY <2>1, CostType DEF Init, OmegaInit, LedgersAgree
<1>5. SpendWithinCaps
  <2>1. Tip \in Nat /\ SpendCap \in Nat
    BY TradingAssumption, Zenon DEF TradingAssumption
  <2> QED
    BY <2>1, OmegaAssumption DEF Init, OmegaInit, SpendWithinCaps
<1> QED
  BY <1>1, <1>2, <1>4, <1>5 DEF Inv

LEMMA InvStep ==
    ASSUME TypeOK, Inv, [Next]_vars
    PROVE  Inv'
<1>1. ASSUME NEW s \in Slots, Age(s)
      PROVE  Inv'
  BY <1>1, RestSafe DEF Age, Ledgers, breakerVars, omegaVars
<1>2. CASE FlipStop \/ FlipGate
  BY <1>2, RestSafe DEF FlipStop, FlipGate, Ledgers, breakerVars, omegaVars
<1>3. CASE Tick
  BY <1>3, RestSafe DEF Tick, TickBreaker, TickOmega, Ledgers
<1>4. CASE UNCHANGED vars
  BY <1>4, RestSafe DEF vars, Ledgers, breakerVars, omegaVars
<1>5. ASSUME NEW m \in Mints, SaleStep(m)
      PROVE  Inv'
  BY <1>5, RestSafe
  DEF SaleStep, LandSale, FailSale, ChainFrame, Ledgers, breakerVars, omegaVars
<1> QED
  BY <1>1, <1>2, <1>3, <1>4, <1>5, TakeSafe, AdmissionSafe, BuySafe, PriceSafe,
     SellSafe, DetectSafe, ChainSafe
  DEF Next, OtherStep, SlotStep

\* One announcement never makes two buys, and what a buy was cleared by is
\* not outdated while the lock is held across its network calls.
THEOREM Safety == Spec => []Inv
<1>1. Init => Inv
  BY InvInit
<1>2. TypeOK /\ Inv /\ [Next]_vars => Inv'
  BY InvStep
<1> QED
  BY <1>1, <1>2, TypeCorrect, PTL DEF Spec

\* The two ledgers, guardrails and resource pulse, never drift apart.
THEOREM LedgersAlwaysAgree == Spec => []LedgersAgree
<1>1. Inv => LedgersAgree
  BY DEF Inv
<1> QED
  BY <1>1, Safety, PTL

\* The budget is never overspent, the spend cap by no more than one tip.
THEOREM SpendAlwaysWithinCaps == Spec => []SpendWithinCaps
<1>1. Inv => SpendWithinCaps
  BY DEF Inv
<1> QED
  BY <1>1, Safety, PTL

\* Every position stands for a buy that landed.
THEOREM PositionsAlwaysBacked == Spec => []PositionsAreBacked
<1>1. Inv => PositionsAreBacked
  BY DEF Inv
<1> QED
  BY <1>1, Safety, PTL

\* A buy reaches the network only while the loss breaker is closed.
THEOREM BuysAreCleared == Spec => BuysNeedClosedBreaker
<1> DEFINE Cleared == \A s \in Slots :
              tx[s] # "inflight" /\ tx'[s] = "inflight" => state = CLOSED
<1>1. TypeOK /\ Inv /\ [Next]_vars => [Cleared]_vars
  <2> SUFFICES ASSUME TypeOK, Inv, Next, NEW s \in Slots,
                      tx[s] # "inflight", tx'[s] = "inflight"
               PROVE  state = CLOSED
    OBVIOUS
  <2>1. CASE SendAccepted \/ SendUnconfirmed
    BY <2>1 DEF SendAccepted, SendUnconfirmed, WorkerAt, Inv, ClearanceInv
  <2>2. CASE BuyStep /\ ~SendAccepted /\ ~SendUnconfirmed
    BY <2>2
    DEF BuyStep, RugCheckPasses, RugCheckFails, GuardPasses, GuardRefuses,
        SendFails, PollConfirms, PollFindsFailure, PollAgain, PollGivesUp
  <2>3. CASE SellStep
    BY <2>3
    DEF SellStep, SellerRefused, SellerStarts, SellerFindsNothing,
        SellerFindsTokens, SaleFails, SaleSent, SaleInFlight, LogSale, LogFails
  <2>4. CASE PriceStep \/ Admission \/ FlipStop \/ FlipGate \/ Tick
    BY <2>4
    DEF PriceStep, PriceUpdate, PriceFrame, Admission, Skip, RefusedByBreaker,
        RefusedByStop, RefusedByOmega, Admitted, HasLock, FlipStop, FlipGate, Tick
  <2>5. ASSUME NEW t \in Slots, SlotStep(t)
        PROVE  FALSE
    BY <2>5
    DEF SlotStep, TakeIntent, DropStale, Receive, Take, Detect, Age,
        ChainStep, Land, FailTx, TypeOK
  <2>6. ASSUME NEW m \in Mints, SaleStep(m)
        PROVE  FALSE
    BY <2>6 DEF SaleStep, LandSale, FailSale
  <2> QED
    BY <2>1, <2>2, <2>3, <2>4, <2>5, <2>6 DEF Next, OtherStep
<1>2. Spec => [][Cleared]_vars
  BY <1>1, Safety, TypeCorrect, PTL DEF Spec
<1> QED
  BY <1>2 DEF BuysNeedClosedBreaker

\* The loss breaker inside live trading is as healthy as it is on its own.
THEOREM LiveBreakerHealthy == Spec => []ClosedIsHealthy
BY LiveImplementsBreaker, ClosedHealthy, PTL
\* Nor does live trading find a way around the breaker's recovery: whatever
\* sales overlap with buys, it is closed again only by a gain that its own
\* window can stand.
THEOREM LiveRecoveryEarned == Spec => RecoveryIsEarned
BY LiveImplementsBreaker, RecoveryAlwaysEarned, PTL

=============================================================================
