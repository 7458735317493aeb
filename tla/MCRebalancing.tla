---------------------------- MODULE MCRebalancing ----------------------------
(* Two assets that can be transferred and one, WETH, that cannot.          *)
EXTENDS Rebalancing, TLC
CONSTANTS usdt, usdc, weth

MCFee == usdt :> 2 @@ usdc :> 2
MCMinWithdrawal == usdt :> 4 @@ usdc :> 4
MCMinOperating == usdt :> 3 @@ usdc :> 6 @@ weth :> 0

Holds(f, l) == [free |-> f, locked |-> l]
MCFunds ==
    [v \in Venues |->
        IF v = "cex" THEN usdt :> Holds(30, 2) @@ usdc :> Holds(0, 0) @@ weth :> Holds(9, 0)
        ELSE usdt :> Holds(2, 0) @@ usdc :> Holds(16, 0) @@ weth :> Holds(9, 0)]

MCTradeAmounts == {-4, 4}

MCPairPools ==
    <<usdc, usdt>> :> [kind |-> "v2", token0 |-> usdc, token1 |-> usdt,
                       reserve0 |-> 90, reserve1 |-> 90]
    @@ <<weth, usdt>> :> [kind |-> "v2", token0 |-> weth, token1 |-> usdt,
                          reserve0 |-> 40, reserve1 |-> 120]

Tx(m, f, l, x) == [method |-> m, first |-> f, last |-> l, amount |-> x, most |-> x + 2]
MCTransactions ==
    {Tx("tokensForTokens", usdt, usdc, 24), Tx("exactOutput", usdc, usdt, 44),
     Tx("tokensForTokens", usdc, usdt, 70),
     Tx("tokensForTokens", usdt, usdt, 70),
     Tx("tokensForEth", usdt, usdt, 30), Tx("ethForTokens", weth, usdt, 12)}
==============================================================================
