----------------------------- MODULE MCHalfOpen -----------------------------
(***************************************************************************)
(* What becomes of a half-open loss breaker when everything else goes      *)
(* well: the switches stay on, no intent is stale or filtered out, seconds *)
(* pass, tokens keep being announced, and a token that could be admitted   *)
(* again and again is admitted at last.                                    *)
(***************************************************************************)
EXTENDS LiveTrading

CONSTANTS Pump, Pool, TokenA, TokenB

MCSlots == {Pump, Pool}
MCPumpSlots == {Pump}
MCMints == {TokenA, TokenB}
MCMint == [s \in MCSlots |-> IF s = Pump THEN TokenA ELSE TokenB]
MCPnls == {-2, 0, 2}

QuietAdmission == Admitted \/ RefusedByBreaker \/ RefusedByOmega

QuietNext ==
    \/ \E s \in Slots : Receive(s) \/ Detect(s) \/ ChainStep(s) \/ Age(s)
    \/ \E m \in Mints : SaleStep(m)
    \/ QuietAdmission \/ PriceStep \/ BuyStep \/ SellStep \/ Tick

QuietSpec ==
    /\ Init /\ [][QuietNext]_vars
    /\ WF_vars(BuyStep) /\ WF_vars(SellStep) /\ WF_vars(Tick)
    /\ \A s \in Slots :
          SF_vars(Detect(s)) /\ WF_vars(ChainStep(s)) /\ SF_vars(Receive(s))
    /\ \A m \in Mints : WF_vars(SaleStep(m))
    /\ SF_vars(QuietAdmission) /\ SF_vars(Admitted) /\ SF_vars(RugCheckPasses)
    /\ SF_vars(GuardPasses) /\ SF_vars(SendAccepted)

Affordable == spend + Buy <= SpendCap /\ spent + Cost <= Budget

\* A half-open breaker probes recovery: while nothing is held whose sale
\* could close it, a token that is fresh and affordable gets bought.
HalfOpenProbes ==
    \A s \in Slots :
        state = HALF_OPEN /\ wallet = {} /\ tx[s] = "none" /\ Affordable
            ~> state # HALF_OPEN \/ tx[s] # "none" \/ ~Running

=============================================================================
