------------------------------- MODULE Pricing -------------------------------
(***************************************************************************)
(* The pricing engine: the pools it has copied from the chain              *)
(* (engine.rs), the router over those copies (router.rs) and the           *)
(* simulation of what the router finds (simulator.rs), while the chain     *)
(* moves on.  The engine is borrowed mutably to load pools and shared to   *)
(* quote, so one call is in progress at a time.                            *)
(*                                                                         *)
(* External: the chain, with Uniswap's own V2 arithmetic and its router,   *)
(* which trades a path through the canonical pair of each two tokens.      *)
(***************************************************************************)
EXTENDS Amm, Sequences, FiniteSets

CONSTANTS
    Tokens, Weth,       \* Weth: the token with the symbol WETH or ETH
    InitialChain,       \* the pools, by address
    LoadList,           \* the addresses given to load_pools
    Canonical,          \* addresses of the router's own pairs
    Amounts,            \* amount_in of quotes and scans
    GasUnit,            \* wei for 50 000 gas
    ChainAmounts,       \* what others trade on V2 pairs
    V3Prices,           \* where others move a V3 price
    V3Liquidities,      \* and its liquidity
    MaxMoves,           \* bound: moves of the chain
    AmountBound         \* above every amount that comes up on a route

Addresses == DOMAIN InitialChain
MaxHops == 3            \* literal in get_quote and scan_for_arbitrage

V2Pairs == [kind : {"v2"}, token0 : Tokens, token1 : Tokens,
            reserve0 : Nat, reserve1 : Nat]
\* The chain keeps a price between those of the extreme ticks.
V3Pools == [kind : {"v3"}, token0 : Tokens, token1 : Tokens,
            liquidity : Nat, sqrtPrice : MinSqrt .. MaxSqrt]

\* The router's factory makes one pair of two tokens.
ASSUME PricingAssumption ==
    /\ Weth \in Tokens
    /\ InitialChain = [a \in Addresses |-> InitialChain[a]]
    /\ \A a \in Addresses : /\ InitialChain[a] \in V2Pairs \cup V3Pools
                            /\ InitialChain[a].token0 # InitialChain[a].token1
    /\ LoadList \in Seq(Addresses)
    /\ Canonical \subseteq {a \in Addresses : InitialChain[a].kind = "v2"}
    /\ \A a, b \in Canonical :
          {InitialChain[a].token0, InitialChain[a].token1}
             = {InitialChain[b].token0, InitialChain[b].token1} => a = b
    /\ Amounts \subseteq Nat \ {0} /\ ChainAmounts \subseteq Nat
    /\ V3Prices \subseteq MinSqrt .. MaxSqrt /\ V3Liquidities \subseteq Nat
    /\ GasUnit \in Nat /\ MaxMoves \in Nat /\ AmountBound \in Nat

VARIABLES
    chain,      \* the pools as they are, by address
    pools,      \* PricingEngine.pools: copies, by loaded address
    router,     \* PricingEngine.router: the copies it was built from, or NoRouter
    call,       \* the call in progress
    quotes,     \* what the last call has returned so far
    moves       \* counts the chain's moves

vars == <<chain, pools, router, call, quotes, moves>>

NoRouter == [a \in {} |-> InitialChain[a]]
NoCall == [op |-> "none"]
Stuck == [op |-> "stuck"]
NotRead == -1
NoPool == "none"

----------------------------------------------------------------------------
(* Routes over a map of copies, R.                                         *)

\* get_intermediate_amounts: the amounts along a route.
AmountsAlong(R, route, x) ==
    LET n == Len(route.pools)
        f[i \in 0 .. n] ==
            IF i = 0 THEN x
            ELSE AmountOut(R[route.pools[i]], f[i - 1], route.path[i])
    IN  f

Output(R, route, x) == AmountsAlong(R, route, x)[Len(route.pools)]

RouteReturns(R, route, x) ==
    \A i \in 1 .. Len(route.pools) :
        Returns(R[route.pools[i]], AmountsAlong(R, route, x)[i - 1], route.path[i])

\* A hop from s to t.
Joins(R, a, s, t) == {s, t} = {R[a].token0, R[a].token1}

SimplePaths(s, t, n) == {path \in [1 .. n + 1 -> Tokens] :
                            /\ path[1] = s /\ path[n + 1] = t
                            /\ \A i, j \in 1 .. n + 1 : path[i] = path[j] => i = j}

\* Any pool joining each two tokens in turn.
RoutesAlong(R, path) ==
    LET n == Len(path) - 1 IN
    { [pools |-> hops, path |-> path] :
        hops \in {h \in [1 .. n -> DOMAIN R] :
                    \A i \in 1 .. n : Joins(R, h[i], path[i], path[i + 1])} }

\* find_all_routes: no token twice; a route has a hop at least.
FindAllRoutes(R, tin, tout, maxHops) ==
    UNION { RoutesAlong(R, path) :
              path \in UNION {SimplePaths(tin, tout, n) : n \in 1 .. maxHops} }

\* find_arbitrage_loops before it compares: any pool out, any route back.
Loops(R, t) ==
    UNION { { [pools |-> <<a>> \o r.pools, path |-> <<t>> \o r.path] :
                r \in FindAllRoutes(R, OtherToken(R[a], t), t, MaxHops - 1) }
          : a \in {a \in DOMAIN R : t \in {R[a].token0, R[a].token1}} }

\* estimate_gas, at the quote's gas price.
GasCostEth(route) == (3 + 2 * Len(route.pools)) * GasUnit

\* convert_eth_to_token_cost: the pool of its first neighbour with WETH, in
\* whatever order the map has them.
GasPools(R, t) == LET near == {a \in DOMAIN R : t # Weth /\ Joins(R, a, t, Weth)}
                  IN  IF near = {} THEN {NoPool} ELSE near

GasCost(R, route, t, g) ==
    IF t = Weth THEN GasCostEth(route)
    ELSE IF g = NoPool THEN 0
    ELSE AmountOut(R[g], GasCostEth(route), Weth)

Minus(m, n) == IF m > n THEN m - n ELSE 0

NetOutput(R, route, x, t, g) == Minus(Output(R, route, x), GasCost(R, route, t, g))

\* compare_routes evaluates every route, and its cost.
AllReturn(R, routes, x, t, g) ==
    \A r \in routes : /\ RouteReturns(R, r, x)
                      /\ g # NoPool => Returns(R[g], GasCostEth(r), Weth)

----------------------------------------------------------------------------
(* External: what the V2 router pays for a path.                           *)

ChainOut(x, rin, rout) ==
    IF rin = 0 \/ rout = 0 THEN 0 ELSE (x * 997 * rout) \div (rin * 1000 + x * 997)

PairsOf(c, s, t) == {a \in Canonical : Joins(c, a, s, t)}

\* Every hop has a pair; a second hop through the same pair brings it
\* nothing, and reverts.
Tradable(c, path) ==
    LET n == Len(path) - 1 IN
    /\ \A i \in 1 .. n : PairsOf(c, path[i], path[i + 1]) # {}
    /\ \A i, j \in 1 .. n :
          {path[i], path[i + 1]} = {path[j], path[j + 1]} => i = j

PairAt(c, path, i) == c[CHOOSE a \in PairsOf(c, path[i], path[i + 1]) : TRUE]

PaidAlong(c, path, x) ==
    LET n == Len(path) - 1
        f[i \in 0 .. n] ==
            IF i = 0 THEN x
            ELSE ChainOut(f[i - 1], ReserveIn(PairAt(c, path, i), path[i]),
                                    ReserveOut(PairAt(c, path, i), path[i]))
    IN  f

Paid(c, path, x) == PaidAlong(c, path, x)[Len(path) - 1]

Succeeds(c, path, x) == Tradable(c, path) /\ Paid(c, path, x) > 0

----------------------------------------------------------------------------
Init ==
    /\ chain = InitialChain
    /\ pools = NoRouter
    /\ router = NoRouter
    /\ call = NoCall
    /\ quotes = {}
    /\ moves = 0

Quiet == UNCHANGED <<chain, moves>>

(* load_pools reads pool after pool; refresh_pool reads one it knows.      *)

Load == /\ call = NoCall
        /\ call' = [op |-> "load", todo |-> LoadList, liquidity |-> NotRead]
        /\ quotes' = {}
        /\ Quiet /\ UNCHANGED <<pools, router>>

Refresh(a) == /\ call = NoCall /\ a \in DOMAIN pools
              /\ call' = [op |-> "load", todo |-> <<a>>, liquidity |-> NotRead]
              /\ quotes' = {}
              /\ Quiet /\ UNCHANGED <<pools, router>>

\* A V3 pool's liquidity and its price are read by two calls.
ReadLiquidity ==
    /\ call.op = "load" /\ call.todo # <<>> /\ call.liquidity = NotRead
    /\ chain[Head(call.todo)].kind = "v3"
    /\ call' = [call EXCEPT !.liquidity = chain[Head(call.todo)].liquidity]
    /\ Quiet /\ UNCHANGED <<pools, router, quotes>>

\* from_chain's last read of the state makes the copy: a pair has its reserves
\* read by one call, a V3 pool's price comes after its liquidity.
Copy(a) == IF chain[a].kind = "v2" THEN chain[a]
           ELSE [chain[a] EXCEPT !.liquidity = call.liquidity]

Keep(a) ==
    /\ pools' = [b \in DOMAIN pools \cup {a} |-> IF b = a THEN Copy(a) ELSE pools[b]]
    /\ call' = [call EXCEPT !.todo = Tail(@), !.liquidity = NotRead]
    /\ Quiet /\ UNCHANGED <<router, quotes>>

\* Slip: the price is read first, and makes the copy.
ReadPoolAtOnce ==
    /\ call.op = "load" /\ call.todo # <<>>
    /\ Keep(Head(call.todo))

ReadPool ==
    /\ call.op = "load" /\ call.todo # <<>>
    /\ chain[Head(call.todo)].kind = "v3" => call.liquidity # NotRead
    /\ Keep(Head(call.todo))

\* A read fails: the pools read so far stay, the router is not rebuilt.
LoadFails ==
    /\ call.op = "load" /\ call.todo # <<>>
    /\ call' = NoCall
    /\ Quiet /\ UNCHANGED <<pools, router, quotes>>

Loaded ==
    /\ call.op = "load" /\ call.todo = <<>>
    /\ router' = pools
    /\ call' = NoCall
    /\ Quiet /\ UNCHANGED <<pools, quotes>>

----------------------------------------------------------------------------
(* get_quote: the best route of the copies, then what the chain says.      *)

AskQuote(tin, tout, x, g) ==
    /\ call = NoCall /\ g \in GasPools(router, tout)
    /\ LET routes == FindAllRoutes(router, tin, tout, MaxHops)
           net(r) == NetOutput(router, r, x, tout, g)
       IN  /\ routes # {}
           /\ IF AllReturn(router, routes, x, tout, g)
              THEN \E r \in routes :
                      /\ \A s \in routes : net(s) <= net(r)
                      /\ call' = [op |-> "quote", route |-> r, amount |-> x,
                                  expected |-> net(r)]
              ELSE call' = Stuck
    /\ quotes' = {}
    /\ Quiet /\ UNCHANGED <<pools, router>>

\* History: the route goes through canonical pairs whose copies are exact.
Fresh(route) == \A i \in DOMAIN route.pools :
                    /\ route.pools[i] \in Canonical
                    /\ router[route.pools[i]] = chain[route.pools[i]]

Simulated(route, x) == Paid(chain, route.path, x)

QuoteSimulated ==
    /\ call.op = "quote"
    /\ Succeeds(chain, call.route.path, call.amount)
    /\ quotes' = {[route |-> call.route, amount |-> call.amount,
                   expected |-> call.expected,
                   simulated |-> Simulated(call.route, call.amount),
                   fresh |-> Fresh(call.route)]}
    /\ call' = NoCall
    /\ Quiet /\ UNCHANGED <<pools, router>>

\* The simulation reverts, or the node does not answer.
QuoteFails ==
    /\ call.op = "quote"
    /\ call' = NoCall
    /\ Quiet /\ UNCHANGED <<pools, router, quotes>>

----------------------------------------------------------------------------
(* scan_for_arbitrage: the loops that gain on the copies, one by one.      *)

AskScan(t, x) ==
    /\ call = NoCall
    /\ LET loops == Loops(router, t) IN
       call' = IF \A r \in loops : RouteReturns(router, r, x)
               THEN [op |-> "scan", amount |-> x,
                     todo |-> {r \in loops : Output(router, r, x) > x}]
               ELSE Stuck
    /\ quotes' = {}
    /\ Quiet /\ UNCHANGED <<pools, router>>

\* Slip: the loop is reported as the copies have it.
AcceptedUnseen(route, x) == TRUE

Accepted(route, x) == /\ Succeeds(chain, route.path, x)
                      /\ Simulated(route, x) > x

LoopSimulated(r) ==
    /\ call.op = "scan" /\ r \in call.todo
    /\ call' = [call EXCEPT !.todo = @ \ {r}]
    /\ \/ /\ Accepted(r, call.amount)
          /\ quotes' = quotes \cup
                {[route |-> r, amount |-> call.amount,
                  expected |-> Simulated(r, call.amount),
                  simulated |-> Simulated(r, call.amount),
                  fresh |-> Fresh(r)]}
       \/ UNCHANGED quotes      \* it does not gain, reverts, or gets no answer
    /\ Quiet /\ UNCHANGED <<pools, router>>

ScanDone ==
    /\ call.op = "scan" /\ call.todo = {}
    /\ call' = NoCall
    /\ Quiet /\ UNCHANGED <<pools, router, quotes>>

----------------------------------------------------------------------------
(* External: others trade.  The monitor's PoolUpdate changes nothing.      *)

Others == /\ moves < MaxMoves
          /\ moves' = moves + 1
          /\ UNCHANGED <<pools, router, call, quotes>>

OthersSwap(a, t, x) ==
    /\ chain[a].kind = "v2" /\ t \in {chain[a].token0, chain[a].token1}
    /\ LET out == ChainOut(x, ReserveIn(chain[a], t), ReserveOut(chain[a], t)) IN
       chain' = IF t = chain[a].token0
                THEN [chain EXCEPT ![a].reserve0 = @ + x, ![a].reserve1 = @ - out]
                ELSE [chain EXCEPT ![a].reserve1 = @ + x, ![a].reserve0 = @ - out]
    /\ Others

OthersMoveV3(a, s, l) ==
    /\ chain[a].kind = "v3"
    /\ chain' = [chain EXCEPT ![a].sqrtPrice = s, ![a].liquidity = l]
    /\ Others

Step ==
    \/ ReadLiquidity \/ ReadPool \/ LoadFails \/ Loaded
    \/ QuoteSimulated \/ QuoteFails
    \/ \E r \in IF call.op = "scan" THEN call.todo ELSE {} : LoopSimulated(r)
    \/ ScanDone

Ask ==
    \/ Load
    \/ \E a \in Addresses : Refresh(a)
    \/ \E tin, tout \in Tokens, x \in Amounts, g \in Addresses \cup {NoPool} : AskQuote(tin, tout, x, g)
    \/ \E t \in Tokens, x \in Amounts : AskScan(t, x)

Environment ==
    \/ \E a \in Addresses, t \in Tokens, x \in ChainAmounts : OthersSwap(a, t, x)
    \/ \E a \in Addresses, s \in V3Prices, l \in V3Liquidities : OthersMoveV3(a, s, l)

Next == Step \/ Ask \/ Environment

Spec == Init /\ [][Next]_vars

\* The node answers a read or a simulation, or the connection fails.
FairSpec == Spec /\ WF_vars(Step)

----------------------------------------------------------------------------
(* Properties.                                                             *)

Routes == [pools : Seq(Addresses), path : Seq(Tokens)]
Quotes == [route : Routes, amount : Amounts, expected : Nat, simulated : Nat,
           fresh : BOOLEAN]

\* The copies are of loaded pools, with tokens and kinds as on the chain and
\* balances that are never negative; the router knows no other pool.
IsCopy(a, p) ==
    /\ p \in V2Pairs \cup V3Pools
    /\ p.kind = InitialChain[a].kind
    /\ p.token0 = InitialChain[a].token0 /\ p.token1 = InitialChain[a].token1
TypeOK ==
    /\ \A R \in {chain, pools, router} :
          DOMAIN R \subseteq Addresses /\ \A a \in DOMAIN R : IsCopy(a, R[a])
    /\ DOMAIN chain = Addresses
    /\ DOMAIN router \subseteq DOMAIN pools
    /\ quotes \subseteq Quotes
    /\ moves \in 0 .. MaxMoves

\* What the engine computes from exact copies is what the chain pays, to the
\* last unit, over any number of hops: the local formula with its fee in
\* basis points rounds as the pair's own arithmetic does.
FreshQuotesAreExact ==
    \A q \in quotes : q.fresh => q.simulated = Output(router, q.route, q.amount)

\* The scan looks for loops through any two pools, but simulates them through
\* the canonical pairs: a gap between two pools of the same tokens is never
\* reported, only triangles are.
ReportedLoopsAreTriangles ==
    \A q \in quotes : q.route.path[1] = q.route.path[Len(q.route.path)]
                        => Len(q.route.pools) = 3

\* Where a V3 quote is sure to come back: the pool has liquidity, below 2^64
\* and with a product within 256 bits, its price is away from the extremes,
\* and the amount is below 2^64 and below the pool's virtual reserve.
InRange(p, x) ==
    \/ p.kind = "v2"
    \/ /\ p.liquidity * Q96 <= U128 * MinSqrt
       /\ p.liquidity * p.sqrtPrice * Q96 < U256
       /\ 2 * MinSqrt <= p.sqrtPrice /\ 2 * p.sqrtPrice <= MaxSqrt
       /\ 2 * x < U128 /\ x * Q96 * Q96 < U256
       /\ (x + 1) * p.sqrtPrice <= p.liquidity * Q96
       /\ (x + 1) * Q96 <= p.liquidity * p.sqrtPrice

\* A call returns, whatever the chain and the node do, unless the router holds
\* a V3 copy that is out of range: get_amount_out has no bound on its loop.
CallsReturn ==
    (call # NoCall /\ \A a \in DOMAIN router : InRange(router[a], AmountBound))
        ~> (call = NoCall)
==============================================================================
