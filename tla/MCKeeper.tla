------------------------------ MODULE MCKeeper ------------------------------
(* KeeperTrades on a pair with few states, rules at and inside the limits. *)
EXTENDS KeeperTrades

MCPair(r0, r1) == [reserve0 |-> r0, reserve1 |-> r1]

\* Prices 1, 2 and 1/2, and an empty pair.
MovingPairs == {MCPair(40, 40), MCPair(40, 80), MCPair(80, 40), MCPair(0, 0)}

\* The same price at two depths: liquidity is added and removed.
DeepAndShallow == {MCPair(40, 40), MCPair(80, 80)}

MCRule(direction, threshold, cooldown, slippage, seconds) ==
    [direction |-> direction, threshold |-> threshold, cooldown |-> cooldown, amount |-> 10,
     slippage |-> slippage, seconds |-> seconds]

\* One threshold is exactly the rise from 1 to 2, one exactly the fall to 1/2; one
\* rule has the shortest deadline, one more slippage than any vault allows.
MCRules == {MCRule("up", 4, 3, 1, 3), MCRule("down", 2, 3, 0, 3),
            MCRule("either", 2, 1, 1, 1), MCRule("either", 2, 1, 2, 3)}

MCLimits(cap, slippage, horizon) ==
    [trade |-> 10, cap |-> cap, slippage |-> slippage, cooldown |-> 1, horizon |-> horizon]

MCEnvelopes == {MCLimits(20, 1, 3), MCLimits(10, 0, 3)}
=============================================================================
