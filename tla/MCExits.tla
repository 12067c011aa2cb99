------------------------------ MODULE MCExits ------------------------------
(***************************************************************************)
(* The exits of open positions, with price updates keyed as main.rs keys   *)
(* them: by pool id.  The PnL at the last price the main loop handled is   *)
(* recorded beside the state, whether or not the update found a position.  *)
(***************************************************************************)
EXTENDS LiveTrading

CONSTANTS Pump, TokenA

VARIABLE market     \* PnL of each slot at the last price handled

MCSlots == {Pump}
MCMints == {TokenA}
MCMint == [s \in MCSlots |-> TokenA]
MCPnls == {-2, 0, 2}

ExitsInit == Init /\ market = [s \in Slots |-> 0]

ExitsNext ==
    \/ \E s \in Slots, q \in Pnls, key \in Keys :
          PriceUpdate(s, q, key) /\ market' = [market EXCEPT ![s] = q]
    \/ OtherStep /\ UNCHANGED market

ExitsSpec == ExitsInit /\ [][ExitsNext]_<<vars, market>>

\* A position whose last price is beyond its take profit or its stop loss is
\* not left open: update_positions closes it as it handles the price.
OpenPositionsWithinBand ==
    \A s \in Opened :
        position[s] = "open" => -StopLoss < market[s] /\ market[s] < TakeProfit

=============================================================================
