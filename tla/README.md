# A specification of the arbitrage bot

This directory specifies the cross-venue arbitrage bot of this repository in
TLA+: it buys a token on a centralised exchange (CEX) and sells it on a
decentralised one (DEX), or the other way round. The modules model the code
that decides about money: the two-legged executor with its circuit breaker and
replay protection, the risk limits and the kill switch, and the main loop that
ties them to an operator, an exchange and a wallet that act on their own; and
the two services around it, the pricing engine with its pools and the
rebalancers. TLC checks them on small instances; TLAPS proves every safety
property and both refinements for all values of the constants.

    tlc -workers 2 -config MCExecutorBot.cfg MCExecutor.tla
    tlapm ArbBotProofs.tla

PROJECT.json lists the runs, the slips of the code each property detects, the
source lines behind each definition, the hazards and the theorems.

## Inventory of the system

| component | state | operations | interacts with |
|---|---|---|---|
| circuit breaker (executor/src/recovery.rs) | deque of failure times, `tripped_at` | `record_failure`, `is_open` (which resets), `reset` | polled by `execute`, the bot's tick and its health report, behind one mutex |
| replay protection (recovery.rs) | map of executed signal ids to times | `is_duplicate` (which forgets old ids), `mark_executed` | `execute` |
| executor (executor/src/engine.rs) | an `ExecutionContext` per call; breaker, replay protection, tracker shared | `execute`, two orders of two legs, `update_inventory`, `unwind` | exchange client, chain client, tracker |
| risk manager (executor/src/position_limits.rs) | capital, peak, daily pnl, trade count, loss streak | `check_pre_trade`, `record_trade`, `reset_daily`, `set_capital` | tick, kill switch |
| kill switch (executor/src/kill_switch.rs) | `triggered` (never cleared) | `check`, `trigger` | main loop, health check, tick |
| absolute limits (executor/src/safety.rs) | none | `safety_check` | tick |
| main loop (integration/src/bin/arb_bot.rs) | `trading_active`, timers, session pnl, error times | `run`, `tick`, `emergency_flatten`, `verify_balances`, syncs | everything |
| remote control (scripts/watchdog.sh, telegram_bot/bot.js, executor/src/telegram_alert.rs) | kill file, heartbeat file, `stopFlag` | touch, `/stop`, `/resume`, poll | main loop, through a file and HTTP |
| inventory tracker (inventory/src/tracker.rs) | free and locked balances by venue and asset | `update_from_cex`, `update_from_wallet`, `record_trade`, `skew`, `can_execute` | syncs replace it, executor adjusts it |
| rebalancers (inventory/src/rebalancer.rs, predictive_rebalancer.rs) | queue of opportunities, prices | `plan`, `push_opportunity`, `plan_for_opportunity` | tracker, mempool monitor; plans are only logged |
| signal generation (strategy/src/*.rs, executor/src/validator.rs) | priority queue, last signal times, recent results, price history | `generate`, `score`, `record_result`, `validate_*` | tick |
| exchange client (exchange/src/client.rs) | token bucket, connection | requests, orders, order books | executor, main loop |
| chain client and builder (chain/src/client.rs, builder.rs) | none of its own; nonce and receipts on the chain | calls with retries, `send_and_wait` | executor, main loop |
| pricing (pricing/src/*.rs) | copies of pools, the router built from them | `load_pools`, `refresh_pool`, `get_quote`, `scan_for_arbitrage`, swap formulas, route search, parsing of pending swaps | generator and executor (formulas), predictive rebalancer (monitor) |
| order book analyzer (exchange/src/analyzer.rs) | none | walks one book | a command-line tool |
| gas oracle, flashbots, pnl records, configuration, command-line tools | | | see PROJECT.json, "components" |

### What is hard here

* **Orders outlive their callers.** `timeout` drops a future, not the order it
  sent: the venue may execute it after the bot has reported a failure.
* **Half an arbitrage.** A leg that fails after the other one has filled leaves
  a position; `unwind` only logs.
* **Checks and effects in separate critical sections.** The breaker, the replay
  protection and the tracker each have a mutex that is released between the
  check before an execution and the report after it.
* **Lazy, timed state.** The breaker resets only when polled, ids are forgotten
  after a TTL, kill conditions are looked at every ten seconds, balances are
  verified every sixty and resynchronised every second.
* **Pause and resume disagree.** They are decided in one place from different
  conditions, and the kill switch is sticky while the pause is not.
* **Two sets of books.** The session's figures, the risk manager's, the
  tracker's and the venues' must agree, or differ in known ways.
* **Copies of a chain that moves.** A quote is computed on pools that were read
  one after the other, a V3 pool even by two calls, and then simulated on the
  chain as it is.
* **Integer arithmetic in fixed words.** Rounding must not favour the trader,
  and the V3 loop ends only if a step uses the amount up.
* **Plans on books that lag.** A transfer is planned from the tracker, while
  trades and other transfers are on their way.

What makes each component correct:

* breaker: it trips exactly on a burst of failures, honours the cooldown,
  closes again, and bounds the rate of failures whatever the callers do;
* executor: it never books what was not traded, a position it leaves open is
  reported as a failure, a signal is not traded twice by one caller, and every
  call returns;
* risk controls and main loop: losses are bounded per day and over time, the
  books agree, a kill condition pauses the bot within a bounded number of
  executions, and a bot whose kill switch has not triggered comes back to trading
  once the reasons of a pause are gone;
* signal generation: a signal meets the thresholds of its own pair, and what is
  executed is fresh and funded; a price that has moved for good is accepted;
* rebalancers: transfers never eat into the operating balance of a venue, one
  transfer is enough and none is sent back, and an announced plan pays its fees;
* rate limiter: no span of time is granted more than the bucket holds and
  refills, and the exchange's own count is respected;
* transactions: a swap is executed at most once and in the order of the legs,
  and at most one trade is at stake after failures;
* pricing: rounding never favours the trader, a quote of exact copies is what the
  chain pays, and every call returns.

PROJECT.json, "hazards", lists them at their lines, with the properties that
would notice, or with the reason why there is none.

## Modules

| module | models | status |
|---|---|---|
| CircuitBreaker | recovery.rs, `CircuitBreaker`, and the callers that share it | done, proved |
| Executor | engine.rs, `execute`, the orders of exchange/src/client.rs and the venues; composes with CircuitBreaker, which it implements | done, proved |
| RiskControls | position_limits.rs, kill_switch.rs, safety.rs, as operators | done |
| ArbBot | arb_bot.rs, `run` and `tick`, with the operator and the exchange | done, proved |
| RateLimiter | client.rs of exchange, the token bucket and the requests that pass it | done, proved |
| TxSender | engine.rs `ensure_allowance` and the swap, builder.rs and client.rs of chain, with the chain; implements SwapOrders | done, proved |
| SwapOrders | abstract: what the rest of the executor assumes of a DEX leg's swap | done |
| Amm | amm.rs: the formulas of V2 and V3 pools, as operators | done, proved |
| Pricing | engine.rs of pricing, router.rs, simulator.rs, `from_chain` of amm.rs, with the chain; over Amm | done, proved |
| Inventory | tracker.rs: the books, `record_trade` and `skew`, as operators | done |
| Strategy | the candidates of a tick: generator.rs, scorer.rs, signal.rs, fees.rs, validator.rs, and arb_bot.rs, `tick`, up to the executor; over Inventory | done, proved |
| Rebalancing | rebalancer.rs, predictive_rebalancer.rs and monitor.rs `parse_transaction`, with the bot and an operator; over Inventory and Amm | done, proved |
| CircuitBreakerProofs, ExecutorProofs, TxSenderProofs, ArbBotProofs, RateLimiterProofs, StrategyProofs, PricingProofs, RebalancingProofs | theorems | done |
| MC* | instances for TLC | done |

### CircuitBreaker

`breaker` is the Rust struct, a record of the deque and `tripped_at`; the
methods are operators from its old value to its new one (`RecordFailure`,
`CleanupOldFailures`, `Trip`, `IsOpen`, `AfterPoll`). A caller is admitted
(`Admit`), runs, and leaves without a report (`Leave`) or with a failure
(`Fail`, which records and polls under one lock, as `execute` does). `Poll` is
`is_circuit_open`. The clock is `SignalGenerator::get_now()` in whole seconds;
the model lets it stand still or advance, and never go back. `log`, `cleared`
and `trips` are history: the failures the code has already thrown away, against
which the properties compare what it has kept.

### Executor

One action per step of `execute` between two awaits or locks: `Begin` (the
breaker's check), `CheckSignal` (replay check and validation), per leg `SendLeg`
or `RejectLeg`, then `LegReplies` or `LegLost`, then `Unwind`, `MarkExecuted`
and `Return` (report to the breaker). `LegVenue` tells which venue a leg uses,
so `execute_cex_first` and `execute_dex_first` share the actions; what only one
of them does (the fill ratio) is a condition. The venues are explicit: `live`
holds the orders sent, and `VenueExecutes` fills one at any time, by an amount
in `Fills`: part of an immediate-or-cancel order, all or nothing of a swap that
sells, about the wanted amount of a swap that buys. `booked` is what the
tracker was told, `filled` is the truth. `unwind` changes nothing, because
outside of simulation it only logs. Quantities are units of the base asset,
`LotSize` of them to a lot. `Slippage` is the largest difference between what a
swap buys and the size the code expects, which `amount_out_min` bounds
only relative to the pool's quote: a signal outside `Quoted` has no bound, and
the properties about amounts speak of quoted signals. `Status` is Binance's,
the exchange the bot is built with; what the client makes of a Bybit or Coinbase
reply (no status `filled`, nothing filled) would fail every exchange leg.

`BreakerSpec` is the composition: with `running` mapped to the callers that
are inside `execute`, every behaviour of Executor is one of CircuitBreaker.

### RiskControls and ArbBot

RiskControls holds the risk manager's record and the conditions under which
the layers refuse a trade or trigger the kill switch. ArbBot walks through an
iteration of `run`: `KillCheck` or `SkipKillCheck`, `DailyReset` or
`SkipReset`, `HealthCheck`, `HealthCheckFails` or `SkipHealth`, `Sync`, and
when trading is active a tick: `TickPasses`, `TickBlocked` or `TickExecutes`
followed by `ExecutionDone` or `ExecutionFailed`. `ToggleKillFile` and
`ToggleStop` are the operator, the watchdog and the bridge. The executor is
abstracted to its result, with whatever it leaves at the exchange: a failed
execution may have moved balances, booked or not, and reports pnl 0.

The timers are abstracted to what they permit: at most `CheckEvery` iterations
in a row without the kill-switch check (an iteration lasts at least a second,
the check is due after ten); resets and health checks in any iteration.
`Aliased` are the bases that the exchange lists under another name: `ETH` for
`WETH`, which the sync translates while the flatten and the verification do
not. `grace` counts executions begun while a kill condition holds.

### RateLimiter

`wait` is split where a task can be overtaken: it reads the clock (`Call`,
`Wake`), takes the lock and either takes its tokens (`Take`) or goes to sleep
(`Sleep`). `AnswerWithHeader` is a response of Binance, the only exchange whose
header is read; the count it carries is any of `Counts`, because other programs
use the same account and because it may be old. `Leave` is every other way to
end, a dropped future included. Tokens are counted in the unit in which the
refill per millisecond is whole, so the code's floating point becomes integers.
`before`, `header` and `undisturbed` are history.

### TxSender and SwapOrders

The awaits of `ensure_allowance` and of a `TransactionBuilder` are the values of
`at`: the allowance, the nonce, sending, the node's answer, the receipt. One
leg's transactions (an optional reset, an approval, the swap) take the same
path, and `JobDone` decides what follows. `GiveUp` is the timeout around the leg.
The chain is external and at its worst: it may mine whatever has left the bot
in the order of nonces, so evictions, replacements and late arrivals need no
actions of their own. Bundles (flashbots.rs) take the same path without
retries. SwapOrders is the promise that Executor's `live` orders of a DEX leg
rest on; TxSender implements it with `order` as the refinement mapping.

### Inventory and Strategy

ArbBot abstracts a tick to whether it executes something; Strategy opens it up.
`Ask` is one turn of the loop over the pairs: it switches the generator's
thresholds and asks for prices, unless the pair is cooling down. The request
takes as long as it likes (`Tick`) and ends in `SignalFor` some `Quotes` or in
`NoSignalFor`. `Choose` scores and sorts; equal scores keep the order of the
heap, by net profit, and equal profits any order. `RejectSignal`,
`RejectPrice`, `AcceptPrice` and `Veto` are the checks of the first candidate;
`ExecutorRefuses`, `ExecutorAccepts` and `ExecutionEnds` are what Executor
leaves to the tick: both legs booked, one, or none, and a result recorded.
`Sync` replaces the books of the venues that answered by any of `Holdings`.

The heap and the vector of candidates are one set, `queue`, as a pair makes at
most one signal in a tick. Spreads are whole basis points, prices whole dollars
a lot, profits ten-thousandths of a dollar, scores tenths of a point as in the
code; amounts are counted in units of which `Unit` make a lot or a dollar.
`rejected` is observed only, and so is `started`.

### Amm and Pricing

A pool is a record, the methods of `UniswapV2Pair` and `UniswapV3Pool` are
operators of it. The words have symbolic sizes (`Q96`, `U128`, `U256`), so that a
small instance overflows where the code does. A V3 pool read from the chain
knows no initialised ticks: its loop makes one step towards the extreme tick,
and either that uses the amount up or the loop never ends (`V3Returns`; an
`unwrap` of the step may panic as well, `StepFits`).

In Pricing `pools` are the engine's copies and `router` those the router was
last built from. The engine is borrowed by one call at a time, `call`: a load
(`Load`, `Refresh`, then `ReadLiquidity`, `ReadPool`, `LoadFails`, `Loaded`), a
quote (`AskQuote`, then `QuoteSimulated` or `QuoteFails`) or a scan (`AskScan`,
`LoopSimulated` for each loop that gains, `ScanDone`). The search is the set of
simple paths; when two routes, or two pools for the cost of gas, are equally
good, which the code takes depends on the order of a map, and the model takes
any. `Stuck` is a call that hangs or panics in a V3 formula.

The chain is external: other traders swap on its pairs and move its V3 price at
any time, also between the two reads of a V3 pool. What it pays for a path
(`ChainOut`, `Paid`) is Uniswap's own arithmetic with its fee of 3 in 1000
through the canonical pair of each two tokens, not the code's formula. `quotes`
is what the last call returned, with what the chain paid; `fresh` in it is
history: whether the copies were exact then.

### Rebalancing

The operators `Target`, `Source`, `ToMove`, `Amount` and `Plan` are the planner's
`plan` for one asset. The predictive rebalancer is a task of its own; its locks
split it into `Pending`, `EstimateArb`, `Shortfall`, `BuildTransfer` (the lock is
taken again for each asset), `PriceTransfer` and `Decide`, and `Expired` is the
lifetime of the opportunity. Its state is `task` and what it returned last,
`preposition`. Between any two of these steps the bot trades (`Trade`, booked or
not), syncs a venue (`Sync`) or has a new price (`TickPrice`).

External are the venues' `funds`, and the operator, as the plans are only
logged: `MakePlan` asks for a plan, `CarryOut` orders the withdrawal unless
the venue refuses (`Refused`), `Arrives` is the credit at the other venue. The
operator's discipline is an assumption: plans one at a time, on books synced
since the last transfer left. `taken` (what trades have taken from a venue) and
`alone` (the assets that one plan alone has moved) are history.

## Runs

| run | question | bounds |
|---|---|---|
| breaker | Does the breaker trip exactly when it should, honour cooldowns, bound failures and close again? | 2 callers, threshold 2, window 3 s, cooldown 2 s, 6 s, 6 failures |
| exec_bot | Do books, fills, reports and replay protection agree when legs are lost, late or partial, and does the executor use the breaker as CircuitBreaker has it? | the bot (1 caller), 3 signals: both directions, even and odd sizes, one born later; 3 s |
| exec_unwind | Is an execution that reports "unwound" hedged? (it is not) | as exec_bot |
| bot | Are losses bounded, do the books agree, do kill conditions pause, and is any other pause not for ever? | capital 7 up to 9, daily limit 2, losses up to 2, streak of 2, 3 trades, errors tolerated 0, one skipped check |
| bot_killed | Does a triggered kill switch halt trading? (it does not) | as bot |
| bot_flatten | Does the emergency flatten sell everything? (it does not) | two bases, one of them aliased |
| ratelimiter | How much weight is granted in any span and after any header, and are sleeps long enough? | 2 symmetric tasks, capacity 5, 2 tokens a tick, weights 1 and 4, 4 ticks, 9 granted |
| txsender | Are swaps executed once and in order, is one trade exposed at most, does the leg implement SwapOrders? | 3 legs, 1 retry, amounts 1 and 2, allowances 0 to 2 |
| strategy | Are a tick's signals those of their pairs, and is what is executed fresh and funded? | 2 pairs with the thresholds and fees of strategy.yml, 4 quotes (either direction, a price that jumps, a spread that is implausible), 3 s, time to live 2 s, cooldown 1 s, window 2, 1 result kept |
| strategy_fees | Does a trade earn its pair's minimum after its own pair's fees? (not always) | as strategy |
| pricing | Is a quote on exact copies what the chain pays, what does a scan report, and do calls return? | 3 tokens, 3 pairs in a triangle and a V3 pool beside one of them, reserves of hundreds, one amount, 2 moves of the chain |
| rebalancing | Do transfers keep the operating balances, does one settle an asset, does an announced plan pay its fees? | 3 assets, one that cannot be transferred; 1 trade, 1 pending swap of 6, 2 plans, 2 prices |

Why the bounds are enough: in `breaker` the window, the cooldown and the clock
leave room for two trips with callers in flight at both, and the bound of
`FailureRateBounded` is reached exactly. In `exec_bot` a signal can expire, be
executed, forgotten and offered again; every fill between nothing and all
occurs. In `bot` the daily limit, the drawdown, the streak, the trade count,
the absolute minimum and the error limit are each reached by some behaviour,
and the account can gain and lose its peak. In `ratelimiter` the refill does
not divide the heavy weight, readings of the clock are overtaken and headers
exceed the capacity. In `txsender` the third leg meets transactions that two
earlier ones have left, which is what it takes to starve a swap of its
allowance. In `strategy` a signal can wait for the other pair longer than it
lives, both pairs want the whole of the same quote balance, a venue can lack
the funds, and a price can jump, stay, and jump back. In `pricing` two routes
of different length compete, the pair and the V3 pool of the same tokens make a
gap that is no triangle, the triangle gains or loses after one move, a move
falls between the two reads of the V3 pool, and it can end up without
liquidity. In `rebalancing` a plan is limited by the amount to move or by the
operating balance, a trade can empty the source under a plan, and the pending
swaps are below the trigger, without a pool, without a shortfall, with one that
no transfer can cover and with ones that one or two transfers do. Fees and what
there is to move are even there, so that halves are exact as they are with the
code's decimals. The four violations are documented divergences, see
"findings".

The runs of CircuitBreaker, Executor and RateLimiter switch deadlock checking
off: their clock is bounded and the system stops with it; so does that of
TxSender, whose legs are bounded, of Pricing, where a call may be stuck for
ever, and of Rebalancing, whose trades and plans are bounded. ArbBot has no
clock, and the loop of Strategy goes on when its clock has ended: there
deadlock is checked.

### Fairness

* CircuitBreaker: weak fairness of time and of `Poll`: the health report polls
  the breaker every minute whether or not trading is active. Nothing is assumed
  of the callers.
* Executor: weak fairness of each caller's next step: every await inside
  `execute` is under `timeout`, a mutex held for a few statements, or a bounded
  number of retries. Nothing is assumed of the venues: an order may stay
  live for ever, and `ExecuteReturns` holds because `LegLost` is enabled.
  `execute_dex_leg` calls `get_amount_out` between two awaits, where no timeout
  can end it: that it returns is what Pricing's `CallsReturn` is about.
* Pricing: weak fairness of the engine's own steps: a read or a simulation is
  answered, or the connection fails. Nothing is assumed of the chain, and a call
  that is stuck has no step.
* ArbBot: weak fairness of the loop as a whole. Nothing is assumed of the
  operator, of the timers or of the outcome of any step. `KillPauses` needs the
  bound on skipped checks. `Resumes` assumes that the reasons are gone for good:
  no file, no stop command, no error within the hour, limits that allow some
  trade, a kill switch that has not triggered, and that from some point on no
  active bot is paused because its balances could not be fetched; without the
  last a health check due in every iteration could pause the bot each time before
  its tick, as the model has no durations (the code's health check is due every
  sixty seconds, the check that resumes every ten). A bot whose kill switch has
  triggered is not asked to resume: that it does is the finding of `bot_killed`.

## Proofs

Every invariant, action property and refinement of a passing run is stated by a
theorem, for all values of the constants that satisfy the modules' assumptions.

`CircuitBreakerProofs` proves type correctness, `TripsExactlyOnBurst` and
`CooldownHonoured` for any threshold, window and cooldown. The
properties speak of the whole log of failures, the code only keeps a pruned
deque, so the inductive invariant `IInv` says that the log is sorted, that the
deque is the part of the log that the last pruning kept
(`DequeIsRecentLog`), that the trip is the first burst's, and that no trip lies
in the future. `CleanupKeepsRecent` is the lemma about the pruning loop it
rests on. `FailureRateIsBounded` counts: a failure after a trip is that of a
caller admitted before it (`LateFailures`), because nobody is admitted while the
breaker is open; and a reset waits for the cooldown, so of the failures it
erased only the late ones can be younger than that (`EarlierFailures`). A span
holds the threshold and those two at most; counting them needs finitely many
callers (`CallersCounted`).

`ArbBotProofs` proves type correctness, `DailyLossBounded`, `CapitalProtected`,
`BooksAgree` and `PausesInTime` for all limits, capitals, trade values and
bases. The invariants are not inductive alone: that a loss ends up within one
trade of a limit holds because the execution under way began within all of them
and nothing touches the risk manager meanwhile (`ExecutesWithinLimits`), and
the count of executions under a kill condition is bounded because each was
paid for by an iteration without a check (`GraceIsPaid`). The proof has a lemma
per action, or per group of actions that treat the books alike.

`RateLimiterProofs` proves type correctness, `SpanBounded`, `HeaderRespected`
and `OneSleepSuffices` for any number of tasks, any capacity, rate, weights and
headers. The properties speak of what was granted, the code keeps what is left;
the invariant relates them: the tokens left and the weight granted since an
instant (`AccountsSince`), or since the last header (`HeaderAccounted`), were in
the bucket then or refilled up to `last_fill`. `PassKeepsAccount` is the lemma
about one pass through `wait` that both rest on; `Timely` bounds how far
`last_fill` can lag behind, which is where the `Delay` and the `Timeout` in the
bounds come from. For the sleeps, what a sleeper finds refilled when it wakes
covers its weight as long as it is undisturbed: a pass that takes nothing lowers
nobody's refill, and a later reading of the clock refills no less.

`ExecutorProofs` proves that Executor implements CircuitBreaker
(`ImplementsBreaker`), type correctness and the four safety properties.
`NoRepeats` rests on an invariant about a signal that a caller has begun to
trade (`TradedOnce`): it is still being traded, or its id is kept, or it has
expired. That an id is not forgotten before its signal expires needs that it
was marked after the signal was made (`StartedInTime`), and that `SignalTtl` is
at most `ReplayTtl`. The other three are about sums: several callers may
execute one signal, and the books and fills are totals over them. The ledger
(`Accounts`) splits them: there are books and fills for each caller that add up
to the totals, and each caller's part agrees with its place in `execute`, with
its orders and with what it has reported. Each property then holds caller by
caller, and `TotalsApart` adds up the differences. `NoRepeats` is needed here as
well: a caller's part is that of one execution.

`TxSenderProofs` proves everything the run checks of TxSender, for any number of
legs, retries, amounts and allowances. The invariant says that the nonce at hand
was read after everything that was sent, so that nothing waits for a nonce that
nobody fills; that a leg's swap has one nonce, whatever was retried, and nonces
grow with the legs; and that a leg which began clean has its swap alone and
covered by the allowance. The first gives `OneTradeExposed`, the second
`SwapsInOrder`, the third `CleanLegsAreApproved`. `ImplementsOrders` maps the
first transmission of a swap to `Send` of SwapOrders, its block to `Execute`,
the leg's return to `Report`, and everything else to a stutter.

`StrategyProofs` proves all safety properties of Strategy, for any
pairs, markets, holdings, fees and scores. The invariant speaks of every signal
of the tick at once (`Good`): it meets its own pair's thresholds, expires `TTL`
after it was asked for, and if it is marked as funded, the books as they are now
fund it. The last part is preserved because the books only change in `Sync`, when
there is no signal, and in `ExecutionEnds`, after which there is none. That is
an argument about the whole loop, not about the check: a sync moved into the
tick, or a second candidate tried after the first, breaks it. `LastingPrices`
has an invariant of its own (`RefusedAreLast`): the prices refused in a row are
the last ones of the window. Once they fill it they are the average, and the
price is accepted (`SumOfEqualPrices`).

`PricingProofs` proves four facts about the V2 formula for every amount and all
reserves: a swap never takes the last unit of a reserve (`V2NeverEmpties`),
never lowers the product of the reserves (`SwapsKeepTheProduct`), there and
back never gains (`RoundTripNeverGains`), and with the fee at 30 basis points
it is the pair's own (`LocalFormulaIsThePairs`): the fractions differ by the
factor 10. They are about integer division, so each is reduced to what a
quotient times its divisor is (`Quotient`). `ExactQuotes` carries the last
along a route. A route has at most `MaxHops` hops, so the amounts along it are
known by their first values and need no induction (`AlongEquation`); the pair
the chain trades a hop through is the copy's, because the factory makes one
pair of two tokens. `TrianglesOnly` proves
`ReportedLoopsAreTriangles`, whose invariant carries the shape of the routes
through a scan: a loop through two pools uses the same canonical pair twice,
which reverts. `TypeCorrect` includes that balances of the chain never become
negative and that V3 outputs are numbers.

`InRangeReturns` is the arithmetic of a V3 pool in `InRange`: the step towards
the extreme tick stops short of it, so it uses the amount up, and no product or
result leaves its word. `NeverStuckInRange` lifts it to the engine: while the
copies are in range and no amount on a route exceeds `AmountBound`, no step
leaves a call stuck. It is the safety half of `CallsReturn`; the other half is
the fairness of the node's answers. Both assume that the product of the extreme
prices is at most `Q96 * Q96`: they are 2^32 and, saturated by the cast to 128
bits, below 2^128.

`RebalancingProofs` proves `OperatingBalances` and `OneTransferSettles` for any
balances, fees, minima, trades and numbers of plans. The books may lag, so the
invariant (`SpareInv`) compares them with what a venue would have if no trade
had taken from it (`Untraded`). That one transfer settles is arithmetic
(`NothingLeftToMove`): after it, what is left to move is at most the fee, which
is below the minimum withdrawal. `PrepositionsPay` follows the predictive
rebalancer from lock to lock (`PayInv`): its needs are of two different assets,
so there are at most two transfers, and each fee is priced at one or more when
the ratio is tested.

The proofs assume the named assumptions of the modules: limits are naturals,
`MaxDailyLoss`, `MaxDrawdownPct` and the initial capital positive, and no
single trade loses more than `WorstLoss`. The last is an assumption on the
market: `max_loss_per_trade` only logs a warning. A transfer's minimum exceeds
its fee, as it does in the table `TRANSFER_FEES`. The callers of `execute` are
finitely many. The router's factory makes one pair of two tokens.
`ExactQuotes` is about a fee of 30 basis points, which `from_chain` gives every
pair.

TLC found the invariants to hold before they were proved: `LateFailures` and
`EarlierFailures` with three callers, `RefusedAreLast` on the instance of the run
`strategy`, `Accounts` with the books and fills of each caller, which the model
does not have, added as history.

Sums and counts need an induction, and TLAPS cannot instantiate an induction
theorem that takes an operator. They are proved with sets instead: the set of
exceptions has a least element (`LeastNat`, `SumOfEqualPrices`), or the set of
numbers up to which the claim holds has 0 and every successor (`TotalsApart`).

Only model-checked: liveness (`Recovers`, `ExecuteReturns`, `KillPauses`,
`Resumes`, `CallsReturn`), which TLAPS does not reach.

## Not modelled

Signing, parsing, formatting, logging, metrics, alerts, storage and
configuration. The simulation mode of the executor. The venue's side of a
swap's price: `amount_out_min` bounds a DEX fill from below only, and that it
is not far above what was ordered either is an assumption of Executor's
`Fills`. In Executor and ArbBot the amounts of the quote asset, prices and
fees: a failed leg's loss in dollars is therefore outside of
`DailyLossBounded`, as it is outside of the code's books. Strategy has them,
with one price for both legs, and takes its quotes as given: the executor's and
the generator's pools are separate copies, loaded once, whose formulas are
Amm's. Time runs in whole seconds and does not jump backwards. In Amm and
Pricing `get_amount_in`, which nothing calls, and `simulate_pool_swap` and the
comparison of the simulations, which only a test calls; initialised ticks,
which no pool read from the chain has; the reconnecting of the mempool
subscription. Pricing has one chain: the simulator's provider is a fork that
follows it. The symbol of a pool's token is always read (the code falls back to
`UNK`, and WETH goes unrecognised). Amm multiplies an amount by a million less
the fee exactly; the code does so in 128 bits, which wrap above 2^108, far
outside of `InRange`. In Rebalancing the planner's estimate of its costs, which
changes nothing, and the rounding of decimals; prices are natural numbers, of
which the code's default of 1 for an asset without one is the least. The
watchdog's timing: it is a kill file that may appear at any time. The order
book analyzer and the opportunity checker only read and print.

### Where the repository says otherwise

Besides the findings of the runs that end in a violation:

* README.md:43 says the math exactly matches Solidity's. `get_amount_out` does
  (`LocalFormulaIsThePairs`); `get_amount_in`, which nothing calls,
  takes the reserves the other way round.
* README.md:50 says pool reserves are updated in near real time. The handler of
  `PoolUpdate` changes nothing, and the bot loads its pools once.
* README.md:317 has a forked simulation before a broadcast. The pricing engine
  simulates its quotes; the executor does not call it.
* A V3 pool's `get_amount_out` returns only if one step uses the amount up;
  otherwise it loops for ever or panics. `CallsReturn` states where it is sure to
  return (`InRange`).
* The opportunity checker measures its gap against the bid, though it buys at
  the ask (checker.rs:106).

## Plan

The order is that of the money at risk.

1. Done: CircuitBreaker, Executor, RiskControls, ArbBot, RateLimiter, TxSender,
   Inventory, Strategy, Amm, Pricing, Rebalancing, and the proofs of the safety
   properties and refinements of all of them.
2. Proofs left: none of a safety property. Liveness stays with TLC.
3. Supervision (scripts/watchdog.sh, telegram_bot/bot.js): the heartbeat
   against the length of an iteration.
