------------------------------- MODULE Strategy -------------------------------
(***************************************************************************)
(* How the bot picks what to trade: the part of ArbBot::tick               *)
(* (integration/src/bin/arb_bot.rs) between the balance syncs and the      *)
(* executor, with the signal generator, the scorer (strategy/src), the     *)
(* validator (executor/src/validator.rs) and the tracker.                  *)
(*                                                                         *)
(* A tick asks for the prices of one pair after the other; each request    *)
(* takes time, while signals made before it age.  The market is whatever   *)
(* Quotes allows: the two spreads in basis points and the exchange's price *)
(* in dollars per lot.  Money is counted in ten-thousandths of a dollar,   *)
(* so that basis points of a value in dollars are whole.                   *)
(***************************************************************************)
EXTENDS Inventory, SequencesExt

CONSTANTS
    PairOrder,          \* ArbBot.pairs
    BaseOf, QuoteOf,    \* the assets of a pair
    PairConfig,         \* PerPairConfig: minSpread, minProfit, size, feeBps, gas
    GeneratorBase,      \* generator_base: minSpread, minProfit
    DefaultFees,        \* FeeStructure::default(): feeBps, gas
    Cooldown,           \* cooldown_seconds
    TTL,                \* signal_ttl_seconds
    MaxPosition,        \* max_position_usd
    MaxAge,             \* age beyond which validate_signal rejects
    MaxSpread,          \* spread beyond which validate_signal rejects
    Window,             \* PreTradeValidator.window_size
    ResultsKept,        \* capacity of recent_results
    ResultsTaken,       \* how many of them score_history looks at
    ResultsNeeded,      \* with fewer it answers 50
    LowSpread, HighSpread,  \* ScorerConfig: min_spread_bps, excellent_spread_bps
    Weight,             \* ScorerConfig's weights, in tenths
    Quotes,             \* what the markets may answer: a, b, price
    Holdings,           \* books the venues may report at a sync
    MaxClock            \* bound: the time considered

Pairs == {PairOrder[i] : i \in 1..Len(PairOrder)}
Never == -1
Directions == {"BuyCexSellDex", "BuyDexSellCex"}

ASSUME StrategyAssumption ==
    /\ PairOrder \in Seq(STRING)
    /\ BaseOf \in [Pairs -> Assets] /\ QuoteOf \in [Pairs -> Assets]
    /\ PairConfig \in [Pairs -> [minSpread : Int, minProfit : Int, size : Nat,
                                 feeBps : Nat, gas : Nat]]
    /\ GeneratorBase \in [minSpread : Int, minProfit : Int]
    /\ DefaultFees \in [feeBps : Nat, gas : Nat]
    /\ Cooldown \in Nat /\ TTL \in Nat /\ MaxPosition \in Nat
    /\ MaxAge \in Nat /\ MaxSpread \in Nat
    /\ Window \in Nat \ {0} /\ ResultsKept \in Nat \ {0}
    /\ ResultsTaken \in Nat /\ ResultsNeeded \in Nat \ {0}
    /\ LowSpread \in Nat /\ HighSpread \in Nat /\ LowSpread < HighSpread
    /\ Weight \in [spread : Nat, liquidity : Nat, inventory : Nat, history : Nat]
    /\ Quotes \subseteq [a : Int, b : Int, price : Nat \ {0}]
    /\ Holdings \subseteq Books
    /\ MaxClock \in Nat

VARIABLES
    clock,      \* SignalGenerator::get_now(), in seconds
    at,         \* where the loop is
    turn,       \* the pair of the tick's loop, an index of PairOrder
    config,     \* the generator's config: minSpread and minProfit
    asked,      \* `now` of the running generate
    lastSignal, \* last_signal_time
    queue,      \* the tick's signals, at most one per pair: signal_queue, candidates
    best,       \* candidates.first(), once there is one
    history,    \* price_history
    results,    \* recent_results
    tracker,    \* shared_inventory
    started,    \* when the executor accepted the best signal
    rejected    \* observed only: how often in a row a pair's last price was refused

vars == <<clock, at, turn, config, asked, lastSignal, queue, best, history,
          results, tracker, started, rejected>>
market == <<config, asked, lastSignal, queue>>
memory == <<history, results, rejected>>

Prices == {q.price : q \in Quotes}
Signals == [pair : Pairs, direction : Directions, price : Prices, spread : Int,
            net : Int, asked : 0..MaxClock, timestamp : 0..MaxClock,
            expiry : Nat, inventoryOk : BOOLEAN, withinLimits : BOOLEAN]
NoSignal == <<>>
Phases == {"sync", "tick", "asking", "waiting", "chosen", "valid", "executing"}

\* Units of an asset to a lot, or to a dollar: fees of 0.1% are whole and even.
Unit == 2000

TypeOK ==
    /\ clock \in 0..MaxClock
    /\ at \in Phases
    /\ turn \in 1..Len(PairOrder) + 1
    /\ config \in [minSpread : Int, minProfit : Int]
    /\ asked \in 0..MaxClock
    /\ lastSignal \in [Pairs -> Never..MaxClock]
    /\ queue \subseteq Signals
    /\ best \in Signals \cup {NoSignal}
    /\ history \in [Pairs -> Seq(Prices)]
    /\ \A p \in Pairs : Len(history[p]) <= Window
    /\ results \in Seq([pair : Pairs, success : BOOLEAN])
    /\ Len(results) <= ResultsKept
    /\ tracker \in Books
    /\ started \in 0..MaxClock
    /\ rejected \in [Pairs -> Nat]

Init ==
    /\ clock = 0
    /\ at = "sync"
    /\ turn = 1
    /\ config = GeneratorBase
    /\ asked = 0
    /\ lastSignal = [p \in Pairs |-> Never]
    /\ queue = {} /\ best = NoSignal
    /\ history = [p \in Pairs |-> <<>>]
    /\ results = <<>>
    /\ tracker \in Holdings
    /\ started = 0
    /\ rejected = [p \in Pairs |-> 0]

----------------------------------------------------------------------------
(* Signals.                                                                *)

Pair == PairOrder[turn]

ThresholdsOf(p) ==
    [minSpread |-> PairConfig[p].minSpread, minProfit |-> PairConfig[p].minProfit]

\* expected_net_pnl of a trade worth `value` dollars: the spread less the
\* exchange's and the pool's fees, less the gas.
Net(fees, value, spread) == value * (spread - fees.feeBps) - fees.gas

\* The direction with the larger spread, if that reaches the threshold.
Direction(q) ==
    IF q.a > q.b /\ q.a >= config.minSpread THEN "BuyCexSellDex" ELSE "BuyDexSellCex"
Spread(q) == IF Direction(q) = "BuyCexSellDex" THEN q.a ELSE q.b

BuyVenue(d) == IF d = "BuyCexSellDex" THEN "cex" ELSE "wallet"

\* What the two legs of a trade spend, in units.
BaseSpent(p) == Unit * PairConfig[p].size
QuoteSpent(p, price) == BaseSpent(p) * price

\* Slip: both assets are looked for where the pair is bought.
CheckInventoryAtBuyer(p, d, price) ==
    /\ 100 * Available(tracker, BuyVenue(d), QuoteOf[p]) >= 101 * QuoteSpent(p, price)
    /\ Available(tracker, BuyVenue(d), BaseOf[p]) >= BaseSpent(p)

\* check_inventory: quote where the pair is bought, with a margin of 1%, and
\* base where it is sold.
CheckInventory(p, d, price) ==
    /\ 100 * Available(tracker, BuyVenue(d), QuoteOf[p]) >= 101 * QuoteSpent(p, price)
    /\ Available(tracker, Other(BuyVenue(d)), BaseOf[p]) >= BaseSpent(p)

\* in_cooldown.
InCooldown(p) == lastSignal[p] # Never /\ clock - lastSignal[p] < Cooldown

\* Slip: the signal lives from its creation, not from the request.
SignalFromNow(p, q) ==
    [pair |-> p, direction |-> Direction(q), price |-> q.price, spread |-> Spread(q),
     net |-> Net(DefaultFees, PairConfig[p].size * q.price, Spread(q)),
     asked |-> asked, timestamp |-> clock, expiry |-> clock + TTL,
     inventoryOk |-> CheckInventory(p, Direction(q), q.price),
     withinLimits |-> PairConfig[p].size * q.price <= MaxPosition]

\* The signal that generate makes of the prices.  The fees are the ones the
\* generator was built with, whatever the pair: nobody calls set_fees.
Signal(p, q) ==
    [pair |-> p, direction |-> Direction(q), price |-> q.price, spread |-> Spread(q),
     net |-> Net(DefaultFees, PairConfig[p].size * q.price, Spread(q)),
     asked |-> asked, timestamp |-> clock, expiry |-> asked + TTL,
     inventoryOk |-> CheckInventory(p, Direction(q), q.price),
     withinLimits |-> PairConfig[p].size * q.price <= MaxPosition]

Worthwhile(s) == s.spread >= config.minSpread /\ s.net >= config.minProfit

----------------------------------------------------------------------------
(* Scores.  They lie between 0 and 100, in steps of a tenth.               *)

\* The results of a pair that score_history looks at: the oldest ones kept.
ResultsOf(p) ==
    LET own == SelectSeq(results, LAMBDA r : r.pair = p)
    IN SubSeq(own, 1, IF Len(own) < ResultsTaken THEN Len(own) ELSE ResultsTaken)

\* score_history and score_spread, as fractions <<n, d>> of 100.
HistoryScore(p) ==
    LET taken == ResultsOf(p)
    IN IF Len(taken) < ResultsNeeded THEN <<1, 2>>
       ELSE <<Cardinality({i \in 1..Len(taken) : taken[i].success}), Len(taken)>>

SpreadScore(spread) ==
    IF spread <= LowSpread THEN <<0, 1>>
    ELSE IF spread >= HighSpread THEN <<1, 1>>
    ELSE <<spread - LowSpread, HighSpread - LowSpread>>

InventoryScore(p) == IF NeedsRebalance(tracker, BaseOf[p]) THEN 20 ELSE 80

\* score, in tenths: a weight of w tenths times a score is w times as many.
Score(s) ==
    LET sp == SpreadScore(s.spread)
        hi == HistoryScore(s.pair)
        d == sp[2] * hi[2]
        n == 100 * Weight.spread * sp[1] * hi[2] + 100 * Weight.history * hi[1] * sp[2]
             + (80 * Weight.liquidity + Weight.inventory * InventoryScore(s.pair)) * d
    IN (2 * n + d) \div (2 * d)

\* The queue is a heap by net pnl and the sort by score is stable.
First(s) ==
    \A other \in queue : \/ Score(s) > Score(other)
                          \/ (Score(s) = Score(other) /\ s.net >= other.net)

----------------------------------------------------------------------------
(* The iteration.                                                          *)

\* SignalGenerator::get_now() moves between any two steps.
Tick ==
    /\ clock < MaxClock
    /\ clock' = clock + 1
    /\ UNCHANGED <<at, turn, market, best, memory, tracker, started>>

\* sync_binance_balances and sync_wallet_balances: one that fails leaves its
\* venue's books as they are, and the tick follows all the same.  An asset whose
\* balance could not be fetched from the wallet is missing in the books.
Sync ==
    /\ at = "sync"
    /\ \E books \in Holdings, fetched \in SUBSET Venues :
          tracker' = [v \in Venues |-> IF v \in fetched THEN books[v] ELSE tracker[v]]
    /\ at' = "tick"
    /\ UNCHANGED <<clock, turn, market, best, memory, started>>

\* Trading is paused or the circuit breaker is open.
SkipTick ==
    /\ at = "tick"
    /\ at' = "sync"
    /\ UNCHANGED <<clock, turn, market, best, memory, tracker, started>>

StartTick ==
    /\ at = "tick"
    /\ at' = "asking"
    /\ queue' = {}
    /\ UNCHANGED <<clock, turn, config, asked, lastSignal, best, memory, tracker,
                   started>>

\* The queue has been popped empty and the candidates go out of scope.
EndTick ==
    /\ at' = "sync"
    /\ turn' = 1
    /\ queue' = {} /\ best' = NoSignal
    /\ started' = 0
    /\ UNCHANGED <<clock, config, asked, lastSignal>>

\* Slip: the generator keeps the thresholds it has.
AskWithoutConfig ==
    /\ at = "asking" /\ turn <= Len(PairOrder)
    /\ IF InCooldown(Pair)
       THEN turn' = turn + 1 /\ UNCHANGED <<at, asked>>
       ELSE at' = "waiting" /\ asked' = clock /\ UNCHANGED turn
    /\ UNCHANGED <<clock, config, lastSignal, queue, best, memory, tracker, started>>

\* update_config, then generate up to fetch_prices.
Ask ==
    /\ at = "asking" /\ turn <= Len(PairOrder)
    /\ config' = ThresholdsOf(Pair)
    /\ IF InCooldown(Pair)
       THEN turn' = turn + 1 /\ UNCHANGED <<at, asked>>
       ELSE at' = "waiting" /\ asked' = clock /\ UNCHANGED turn
    /\ UNCHANGED <<clock, lastSignal, queue, best, memory, tracker, started>>

NextPair == at' = "asking" /\ turn' = turn + 1 /\ asked' = 0

\* No prices, or prices that are not worth a signal.
NoSignalFor ==
    /\ at = "waiting"
    /\ NextPair
    /\ UNCHANGED <<clock, config, lastSignal, queue, best, memory, tracker, started>>

SignalFor(q) ==
    /\ at = "waiting"
    /\ Worthwhile(Signal(Pair, q))
    /\ queue' = queue \cup {Signal(Pair, q)}
    /\ lastSignal' = [lastSignal EXCEPT ![Pair] = asked]
    /\ NextPair
    /\ UNCHANGED <<clock, config, best, memory, tracker, started>>

NoCandidate ==
    /\ at = "asking" /\ turn > Len(PairOrder) /\ queue = {}
    /\ EndTick
    /\ UNCHANGED <<memory, tracker>>

Choose ==
    /\ at = "asking" /\ turn > Len(PairOrder)
    /\ \E s \in queue : First(s) /\ best' = s
    /\ at' = "chosen"
    /\ UNCHANGED <<clock, turn, market, memory, tracker, started>>

----------------------------------------------------------------------------
(* Validation: only the first candidate is looked at, and the tick ends    *)
(* when it is refused.                                                     *)

\* validate_signal: the age counts from the signal's creation.
Implausible(s) == s.spread > MaxSpread \/ clock - s.timestamp > MaxAge

RejectSignal ==
    /\ at = "chosen" /\ Implausible(best)
    /\ EndTick
    /\ UNCHANGED <<memory, tracker>>

SumOf(prices) == FoldLeft(+, 0, prices)

\* A deviation of more than 5% from the average of the prices remembered.
Deviates(price, prices) ==
    /\ prices # <<>>
    /\ 20 * Distance(Len(prices) * price, SumOf(prices)) > SumOf(prices)

\* Slip: the window grows.
RememberAll(prices, price) == Append(prices, price)

Remember(prices, price) ==
    Append(IF Len(prices) >= Window THEN Tail(prices) ELSE prices, price)

\* Slip: a refused price is not remembered.
RejectPriceForgets ==
    /\ at = "chosen" /\ ~Implausible(best)
    /\ Deviates(best.price, history[best.pair])
    /\ rejected' = [rejected EXCEPT ![best.pair] = @ + 1]
    /\ EndTick
    /\ UNCHANGED <<history, results, tracker>>

\* validate_price_feed refuses the price, but remembers it.
RejectPrice ==
    /\ at = "chosen" /\ ~Implausible(best)
    /\ Deviates(best.price, history[best.pair])
    /\ history' = [history EXCEPT ![best.pair] = Remember(@, best.price)]
    /\ rejected' = [rejected EXCEPT ![best.pair] =
                       IF best.price = Last(history[best.pair]) THEN @ + 1 ELSE 1]
    /\ EndTick
    /\ UNCHANGED <<results, tracker>>

AcceptPrice ==
    /\ at = "chosen" /\ ~Implausible(best)
    /\ ~Deviates(best.price, history[best.pair])
    /\ history' = [history EXCEPT ![best.pair] = Remember(@, best.price)]
    /\ rejected' = [rejected EXCEPT ![best.pair] = 0]
    /\ at' = "valid"
    /\ UNCHANGED <<clock, turn, market, best, results, tracker, started>>

\* The risk limits, the gas check, a dry run.
Veto ==
    /\ at = "valid"
    /\ EndTick
    /\ UNCHANGED <<memory, tracker>>

----------------------------------------------------------------------------
(* Execution.                                                              *)

\* Signal::is_valid.
IsValid(s) ==
    /\ clock < s.expiry
    /\ s.inventoryOk /\ s.withinLimits
    /\ s.net > 0 /\ Score(s) > 0

RecordResult(success) ==
    results' = Append(IF Len(results) >= ResultsKept THEN Tail(results) ELSE results,
                      [pair |-> best.pair, success |-> success])

\* An open breaker, a duplicate or an invalid signal: a failed execution.
ExecutorRefuses ==
    /\ at = "valid"
    /\ RecordResult(FALSE)
    /\ EndTick
    /\ UNCHANGED <<history, rejected, tracker>>

ExecutorAccepts ==
    /\ at = "valid" /\ IsValid(best)
    /\ started' = clock
    /\ at' = "executing"
    /\ UNCHANGED <<clock, turn, market, best, memory, tracker>>

\* update_inventory after the leg at venue v.  The spread, by which the pool's
\* price differs from the exchange's, is left out.
BookLeg(books, v) ==
    LET base == BaseSpent(best.pair)
        quote == QuoteSpent(best.pair, best.price)
        side == IF v = BuyVenue(best.direction) THEN "buy" ELSE "sell"
    IN RecordTrade(books, v, side, BaseOf[best.pair], QuoteOf[best.pair], base, quote,
                   (IF side = "buy" THEN base ELSE quote) \div 1000)

\* What module Executor leaves to the tick: both legs booked, or one leg, or
\* none, after a failure.
ExecutionEnds ==
    /\ at = "executing"
    /\ \/ RecordResult(TRUE) /\ tracker' = BookLeg(BookLeg(tracker, "cex"), "wallet")
       \/ /\ RecordResult(FALSE)
          /\ UNCHANGED tracker \/ \E v \in Venues : tracker' = BookLeg(tracker, v)
    /\ EndTick
    /\ UNCHANGED <<history, rejected>>

Next ==
    \/ Tick \/ Sync \/ SkipTick \/ StartTick
    \/ Ask \/ NoSignalFor \/ (\E q \in Quotes : SignalFor(q))
    \/ NoCandidate \/ Choose
    \/ RejectSignal \/ RejectPrice \/ AcceptPrice \/ Veto
    \/ ExecutorRefuses \/ ExecutorAccepts \/ ExecutionEnds

Spec == Init /\ [][Next]_vars

----------------------------------------------------------------------------
(* Properties.                                                             *)

\* One generator serves all pairs and its config is switched in the loop: a
\* signal meets the thresholds of its own pair, not those of another one.
ThresholdsOfThePair ==
    \A s \in queue : /\ s.spread >= PairConfig[s.pair].minSpread
                     /\ s.net >= PairConfig[s.pair].minProfit

\* A signal waits for the prices of the other pairs, for the scores and the
\* validation: it is executed only while its prices, which were fetched after
\* they were asked for, are younger than signal_ttl_seconds.
PricesAreFresh ==
    at = "executing" => started - best.asked < TTL

\* A price that has really moved is refused as an anomaly, but not for ever:
\* a pair's price that stays the same is refused Window times in a row at
\* most, because the refused prices enter the average.
LastingPriceIsAccepted ==
    \A p \in Pairs : rejected[p] <= Window

\* The balances a signal was checked against are still there when it is
\* executed, though other pairs' signals of the same tick were checked
\* against the same quote balance: what the two legs spend is in the books.
TradesAreFunded ==
    at = "executing" =>
        LET buyer == BuyVenue(best.direction)
        IN /\ Available(tracker, buyer, QuoteOf[best.pair])
                >= QuoteSpent(best.pair, best.price)
           /\ Available(tracker, Other(buyer), BaseOf[best.pair]) >= BaseSpent(best.pair)

\* journal/day3_trading.md says that the tick switches the generator to the
\* fees of the pair: what is executed earns its pair's minimum after its own
\* pair's fees.
TradesPayTheirFees ==
    at = "executing" =>
        Net(PairConfig[best.pair], PairConfig[best.pair].size * best.price, best.spread)
            >= PairConfig[best.pair].minProfit
=============================================================================
