------------------------------- MODULE MCGuards -------------------------------
(***************************************************************************)
(* Small instance of the seven guards that a request passes on its way out,  *)
(* each of which works alone: the loss breaker, the admission gate with    *)
(* its equity breaker, the auto gate, the Jito half of a send with its     *)
(* emergency stop, the pool of RPC endpoints, the RPC rate limiter, and    *)
(* the bundles that tasks send through one Jito limiter.                   *)
(*                                                                         *)
(* Three losses in a row, or 4 percent of losses within three seconds,     *)
(* trip the loss breaker for two seconds, so that either limit may be the  *)
(* one that trips and losses may outlive the cooldown in the window.       *)
(*                                                                         *)
(* The gate's budget pays for two buys of 2, so the equity starts at 200;  *)
(* a loss may be as large as the whole buy, and 30 percent of the equity   *)
(* are lost by three sales at the least.                                   *)
(*                                                                         *)
(* The pool has two endpoints of different priority, which break and come  *)
(* back, one caller and the monitor, and two failures mark an endpoint.    *)
(* The limiter has two threads that ask for one or two of its two tokens;  *)
(* a millisecond brings half a token.                                      *)
(*                                                                         *)
(* Two tasks send bundles with two attempts each, through a queue with two *)
(* places: both may be leaked, and both tasks may find the one permit that *)
(* the budget has left.                                                    *)
(***************************************************************************)
EXTENDS CircuitBreaker, EquityHistory, MCAutoGate, MCJitoSender, RpcPool, TokenBucket,
        BundleSender, TLC

CONSTANTS TradeBound,           \* bound: trades in the window, run of losses
          Costs, Losses, Gains,
          BleedBound,           \* bound: the run of losses
          EquityBound           \* bound: the equity

VARIABLE guard      \* which of the seven is looked at

guardsVars == <<guard, breakerVars, bledVars, recorded, jitoVars, rpcVars, bucketVars, bundleVars>>

MCPnls == {-3, -1, 0, 2}
MCPriorities == 0 :> 0 @@ 1 :> 1

LossNext == BreakerNext /\ Len(pnls') <= TradeBound /\ losses' <= TradeBound

\* What was admitted is spent within the budget; the record of losses and
\* the equity are counted up to their bounds.
AdmissionNext ==
    /\ BledNext(Costs, {-p : p \in Losses} \cup Gains)
    /\ spent' <= Budget
    /\ bled' <= BleedBound
    /\ current' <= EquityBound

MCInit ==
    /\ guard \in {"losses", "admission", "auto", "jito", "pool", "bucket", "bundles"}
    /\ BreakerInit /\ BledInit
    /\ HistoryInit /\ SenderInit /\ RpcInit /\ BucketInit /\ BundleInit
    /\ guard # "pool" => works = Nodes

MCNext ==
    /\ UNCHANGED guard
    /\ IF guard = "losses" THEN LossNext ELSE UNCHANGED breakerVars
    /\ IF guard = "admission" THEN AdmissionNext ELSE UNCHANGED bledVars
    /\ IF guard = "auto" THEN HistoryNext ELSE UNCHANGED recorded
    /\ IF guard = "jito" THEN SenderNext ELSE UNCHANGED jitoVars
    /\ IF guard = "pool" THEN RpcNext ELSE UNCHANGED rpcVars
    /\ IF guard = "bucket" THEN BucketNext ELSE UNCHANGED bucketVars
    /\ IF guard = "bundles" THEN BundleNext ELSE UNCHANGED bundleVars

\* The fairness of each, where it is the one that is looked at: that of
\* BreakerFairness and RpcFairness, and of TimedSpec for the sender.
MCFairness ==
    /\ WF_breakerVars(guard = "losses" /\ CheckCircuitBreaker)
    /\ WF_breakerVars(guard = "losses" /\ TickBreaker)
    /\ WF_jitoVars(guard = "jito" /\ Second)
    /\ \A u \in Users : WF_rpcVars(guard = "pool" /\ Moves(u))
    /\ WF_rpcVars(guard = "pool" /\ Checks)

MCSpec == MCInit /\ [][MCNext]_guardsVars /\ MCFairness

=============================================================================
