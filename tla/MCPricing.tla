------------------------------ MODULE MCPricing ------------------------------
(* Three canonical V2 pairs, and a V3 pool of the tokens of one of them.   *)
EXTENDS Pricing, TLC
CONSTANTS weth, usdt, pepe, wu, up, pw, v3

V2(t0, t1, r0, r1) == [kind |-> "v2", token0 |-> t0, token1 |-> t1,
                       reserve0 |-> r0, reserve1 |-> r1]

MCInitialChain ==
    wu :> V2(weth, usdt, 400, 450) @@ up :> V2(usdt, pepe, 300, 300)
    @@ pw :> V2(pepe, weth, 350, 400)
    @@ v3 :> [kind |-> "v3", token0 |-> weth, token1 |-> usdt,
              liquidity |-> 63, sqrtPrice |-> 512]

MCLoadList == <<wu, v3, up, pw>>
==============================================================================
