------------------------------ MODULE MCStrategy ------------------------------
(* A cheap token and ether against the same quote, with the thresholds and   *)
(* the fees of strategy.yml; lots are worth five dollars.                    *)
EXTENDS Strategy

MCAssets == {"PEPE", "WETH", "USDT"}

MCPairOrder == <<"PEPE/USDT", "WETH/USDT">>
MCBaseOf == [p \in Pairs |-> IF p = "PEPE/USDT" THEN "PEPE" ELSE "WETH"]
MCQuoteOf == [p \in Pairs |-> "USDT"]
MCPairConfig ==
    [p \in Pairs |->
        IF p = "PEPE/USDT"
        THEN [minSpread |-> 130, minProfit |-> 100, size |-> 1, feeBps |-> 11, gas |-> 700]
        ELSE [minSpread |-> 20, minProfit |-> 200, size |-> 1, feeBps |-> 15, gas |-> 200]]
MCGeneratorBase == [minSpread |-> 50, minProfit |-> 100]
MCDefaultFees == [feeBps |-> 11, gas |-> 200]
MCWeight == [spread |-> 4, liquidity |-> 2, inventory |-> 2, history |-> 2]
MCQuotes == {[a |-> 150, b |-> -160, price |-> 5], [a |-> -100, b |-> 91, price |-> 5],
             [a |-> -160, b |-> 150, price |-> 6], [a |-> 600, b |-> -700, price |-> 5]}

\* Enough for one trade at either venue, or not at all on one of them.
Funds(n) == [a \in Assets |-> [free |-> IF a = "USDT" THEN 12200 * n ELSE 2000 * n,
                              locked |-> 0]]
MCHoldings == {[v \in Venues |-> Funds(1)],
               [v \in Venues |-> IF v = "cex" THEN Funds(1) ELSE Funds(0)]}
=============================================================================
