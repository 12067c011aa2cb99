--------------------------- MODULE MCLiveTrading ---------------------------
(***************************************************************************)
(* Small instance: one Pump.fun token and one pool, which may be that of   *)
(* the same token.  A loss of 2 percent trips the loss breaker; the budget *)
(* and the spend cap admit both buys, the cap only because it leaves the   *)
(* tip out.                                                                *)
(***************************************************************************)
EXTENDS LiveTrading

CONSTANTS Pump, Pool, TokenA, TokenB

MCSlots == {Pump, Pool}
MCPumpSlots == {Pump}
MCMints == {TokenA, TokenB}
MCOneMint == {TokenA}
MCOwnMint == [s \in MCSlots |-> IF s = Pump THEN TokenA ELSE TokenB]
MCSameMint == [s \in MCSlots |-> TokenA]
MCPnls == {-2, 0, 2}
=============================================================================
