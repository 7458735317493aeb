----------------------------- MODULE Rebalancing -----------------------------
(***************************************************************************)
(* The two rebalancers over the tracker's books: the planner               *)
(* (rebalancer.rs), whose transfers an operator carries out, and the       *)
(* predictive one (predictive_rebalancer.rs), a task of its own that       *)
(* plans for each pending swap the mempool monitor reports, while the      *)
(* bot's trades, syncs and prices change what it reads lock by lock.       *)
(*                                                                         *)
(* External: the venues' funds, and the transfers on their way.            *)
(***************************************************************************)
EXTENDS Inventory, Amm, FiniteSetsExt

CONSTANTS
    TransferAssets,     \* keys of TRANSFER_FEES
    WithdrawalFee,      \* TransferConfig.withdrawal_fee, by transfer asset
    MinWithdrawal,      \* TransferConfig.min_withdrawal, by transfer asset
    MinOperating,       \* MIN_OPERATING_BALANCE, zero for an asset without one
    SafetyBuffer,       \* safety_buffer_pct
    MinRatio,           \* min_profit_to_cost_ratio
    TriggerSize,        \* trigger_swap_size_usd
    WethAsset,          \* the token at weth_address
    KnownTokens,        \* those in address_to_token
    PairPools,          \* pools, by <<base, quote>>
    Transactions,       \* pending transactions
    TickPrices,         \* what a tick may find for WETH, in USD
    TradeAmounts,       \* what a trade moves
    InitialFunds,       \* the venues' balances at the start
    MaxTrades, MaxPending, MaxPlans     \* bounds on the three actors

\* A transfer has a fee and its minimum exceeds it, as in every entry of TRANSFER_FEES.
\* Amounts count a unit in which half a fee is whole, and a minimum several
\* units.
ASSUME RebalancingAssumption ==
    /\ TransferAssets \subseteq Assets
    /\ WithdrawalFee \in [TransferAssets -> Nat \ {0}]
    /\ MinWithdrawal \in [TransferAssets -> Nat]
    /\ MinOperating \in [Assets -> Nat]
    /\ \A a \in TransferAssets : /\ WithdrawalFee[a] < MinWithdrawal[a]
                                 /\ MinWithdrawal[a] > 1
    /\ TradeAmounts \subseteq Int
    /\ InitialFunds \in [Venues -> [Assets -> [free : Nat, locked : Nat]]]

\* Amounts of a transaction and reserves of a pool are unsigned words, a price
\* is positive when there is one, and no pool trades a token for itself.
ASSUME MonitorAssumption ==
    /\ KnownTokens \subseteq Assets /\ WethAsset \in Assets
    /\ MinRatio \in Nat /\ TickPrices \subseteq Nat
    /\ \A tx \in Transactions : tx.amount \in Nat /\ tx.most \in Nat
    /\ \A pair \in DOMAIN PairPools :
          LET p == PairPools[pair] IN
          /\ pair[1] # pair[2]
          /\ p.kind = "v3" \/ (p.reserve0 \in Nat /\ p.reserve1 \in Nat)

VARIABLES
    funds,      \* external: the venues' balances
    books,      \* InventoryTracker.balances
    prices,     \* prices_usd; zero for an asset without an entry
    task,       \* the monitor's callback
    preposition,\* what it returned last
    plan,       \* the planner's transfer the operator has decided on, if any
    transit,    \* external: transfers on their way
    taken,      \* history: what trades have taken from the venues
    alone,      \* history: assets moved by one plan, made on exact books, alone
    counts      \* trades, pending swaps and plans so far

vars == <<funds, books, prices, task, preposition, plan, transit, taken, alone,
          counts>>

operatorVars == <<plan, transit, alone>>
monitorVars == <<task, preposition>>

----------------------------------------------------------------------------
(* RebalancePlanner: plan.                                                 *)

Target(t, a) == Total(t, a) \div 2

\* The exchange is looked at first; with no locked balance below zero at most
\* one venue has more available than the target.
Source(t, a) ==
    IF Available(t, "cex", a) > Target(t, a) THEN "cex" ELSE "wallet"

ToMove(t, a) == Available(t, Source(t, a), a) - Target(t, a)

\* What the source can spare.
Spare(t, a) == Available(t, Source(t, a), a) - MinOperating[a]

\* Slips: the operating balance is ignored; all that can be spared is moved.
AmountAll(t, a) == ToMove(t, a)
AmountSpare(t, a) == Spare(t, a)

Amount(t, a) == IF ToMove(t, a) <= Spare(t, a) THEN ToMove(t, a) ELSE Spare(t, a)

Plan(t, a) ==
    IF /\ NeedsRebalance(t, a) /\ a \in TransferAssets
       /\ ToMove(t, a) > 0
       /\ ToMove(t, a) >= MinWithdrawal[a] /\ Amount(t, a) >= MinWithdrawal[a]
    THEN {[from |-> Source(t, a), to |-> Other(Source(t, a)),
           asset |-> a, amount |-> Amount(t, a)]}
    ELSE {}

\* net_amount: what arrives.
NetAmount(p) == p.amount - WithdrawalFee[p.asset]

----------------------------------------------------------------------------
(* The monitor: parse_transaction.  The ETH methods name one token, and    *)
(* the other is WETH; exactOutputSingle says at most what it pays.         *)

NoToken == "none"

Parsed(tx) ==
    [in  |-> IF tx.method = "ethForTokens" THEN NoToken ELSE tx.first,
     out |-> IF tx.method = "tokensForEth" THEN NoToken ELSE tx.last,
     amount |-> IF tx.method = "exactOutput" THEN tx.most ELSE tx.amount]

\* assets_from_swap.
Resolve(token) == IF token = NoToken THEN WethAsset ELSE token

\* price_of.
PriceOf(a) == IF prices[a] = 0 THEN 1 ELSE prices[a]

\* Slip: any pool will do.
PoolsForAny(in, out) == {PairPools[p] : p \in DOMAIN PairPools}

\* The pool of the pair, in one direction or else the other.
PoolsFor(in, out) ==
    {PairPools[p] : p \in IF <<in, out>> \in DOMAIN PairPools THEN {<<in, out>>}
                          ELSE {<<out, in>>} \cap DOMAIN PairPools}

----------------------------------------------------------------------------
Idle == [pc |-> "idle"]
NoPreposition == [transfers |-> {}, cost |-> 0, profit |-> 0, execute |-> FALSE]

Init ==
    /\ funds = InitialFunds
    /\ books = InitialFunds
    /\ prices = [a \in Assets |-> 0]
    /\ task = Idle
    /\ preposition = NoPreposition
    /\ plan = {}
    /\ transit = {}
    /\ taken = [v \in Venues |-> [a \in Assets |-> 0]]
    /\ alone = {}
    /\ counts = [trades |-> 0, pending |-> 0, plans |-> 0]

Counted(what, most) == /\ counts[what] < most
                       /\ counts' = [counts EXCEPT ![what] = @ + 1]

----------------------------------------------------------------------------
(* The predictive rebalancer, lock by lock.                                *)

Pending(tx) ==
    /\ task = Idle
    /\ LET swap == Parsed(tx)
           in == Resolve(swap.in)
           out == Resolve(swap.out)
       IN  /\ {in, out} \subseteq KnownTokens
           /\ task' = [pc |-> "price", in |-> in, out |-> out, amount |-> swap.amount]
    /\ preposition' = NoPreposition
    /\ Counted("pending", MaxPending)
    /\ UNCHANGED <<funds, books, prices, taken, operatorVars>>

\* A swap below the trigger, or of a pair without a pool, is dropped.  The
\* profit is in twenty-thousandths of a dollar: half the impact of the size.
\* The same number of units is required of either token.
EstimateArb ==
    /\ task.pc = "price"
    /\ LET size == task.amount * PriceOf(task.in)
           pools == PoolsFor(task.in, task.out)
           half == task.amount \div 2
       IN  \/ /\ size < TriggerSize \/ pools = {}
              /\ task' = Idle
           \/ /\ size >= TriggerSize
              /\ \E p \in pools :
                    task' = [pc |-> "shortfall",
                             profit |-> size * PriceImpact(p, task.amount, task.in),
                             needs |-> {[venue |-> "wallet", asset |-> task.out, amount |-> half],
                                        [venue |-> "cex", asset |-> task.in, amount |-> half]}]
    /\ UNCHANGED <<funds, books, prices, preposition, taken, counts, operatorVars>>

\* The task was held up for longer than the opportunity lives.
Expired ==
    /\ task.pc = "shortfall"
    /\ preposition' = [NoPreposition EXCEPT !.profit = task.profit]
    /\ task' = Idle
    /\ UNCHANGED <<funds, books, prices, taken, counts, operatorVars>>

\* shortfall, under one lock.
Shortfall ==
    /\ task.pc = "shortfall"
    /\ LET lacks(n) == n.amount - Available(books, n.venue, n.asset)
           short == {[n EXCEPT !.amount = lacks(n)] : n \in {n \in task.needs : lacks(n) > 0}}
       IN  IF short = {}
           THEN /\ preposition' = [NoPreposition EXCEPT !.profit = task.profit,
                                                        !.execute = TRUE]
                /\ task' = Idle
           ELSE /\ task' = [pc |-> "build", profit |-> task.profit, short |-> short,
                            transfers |-> {}]
                /\ UNCHANGED preposition
    /\ UNCHANGED <<funds, books, prices, taken, counts, operatorVars>>

\* build_transfers_for_shortfall takes the lock again for each asset.
BuildTransfer(s) ==
    /\ task.pc = "build" /\ s \in task.short
    /\ LET source == Other(s.venue)
           most == (Available(books, source, s.asset) * (100 - SafetyBuffer)) \div 100
           amount == IF s.amount < most THEN s.amount ELSE most
       IN  task' = [task EXCEPT
                      !.short = @ \ {s},
                      !.transfers = IF /\ most > 0
                                       /\ s.asset \in TransferAssets
                                       /\ amount >= MinWithdrawal[s.asset]
                                    THEN @ \cup {[from |-> source, to |-> s.venue,
                                                  asset |-> s.asset, amount |-> amount]}
                                    ELSE @]
    /\ UNCHANGED <<funds, books, prices, preposition, taken, counts, operatorVars>>

Built ==
    /\ task.pc = "build" /\ task.short = {}
    /\ task' = [pc |-> "cost", profit |-> task.profit, transfers |-> task.transfers,
                todo |-> task.transfers, cost |-> 0]
    /\ UNCHANGED <<funds, books, prices, preposition, taken, counts, operatorVars>>

\* estimate_transfer_cost_usd reads a price for each transfer.
PriceTransfer(t) ==
    /\ task.pc = "cost" /\ t \in task.todo
    /\ task' = [task EXCEPT !.todo = @ \ {t},
                            !.cost = @ + WithdrawalFee[t.asset] * PriceOf(t.asset)]
    /\ UNCHANGED <<funds, books, prices, preposition, taken, counts, operatorVars>>

\* Nothing to pay for is worth any profit.
Worthwhile(profit, cost) == cost > 0 => profit >= MinRatio * cost * 20000

Decide ==
    /\ task.pc = "cost" /\ task.todo = {}
    /\ preposition' = [transfers |-> task.transfers, cost |-> task.cost,
                       profit |-> task.profit,
                       execute |-> Worthwhile(task.profit, task.cost)]
    /\ task' = Idle
    /\ UNCHANGED <<funds, books, prices, taken, counts, operatorVars>>

\* The callback announces a plan, and nobody carries it out.
Triggered == preposition.execute /\ preposition.transfers # {}

----------------------------------------------------------------------------
(* The bot.                                                                *)

TickPrice(p) ==
    /\ prices' = [prices EXCEPT ![WethAsset] = p]
    /\ UNCHANGED <<funds, books, taken, counts, monitorVars, operatorVars>>

\* A trade, or a fill nobody has booked, until a sync shows it.
Trade(v, a, x, booked) ==
    /\ funds[v][a].free + x >= 0
    /\ funds' = Credit(funds, v, a, x)
    /\ books' = IF booked THEN Credit(books, v, a, x) ELSE books
    /\ taken' = IF x < 0 THEN [taken EXCEPT ![v][a] = @ - x] ELSE taken
    /\ alone' = alone \ {a}
    /\ Counted("trades", MaxTrades)
    /\ UNCHANGED <<prices, plan, transit, monitorVars>>

\* update_from_cex, update_from_wallet.
Sync(v) ==
    /\ books' = [books EXCEPT ![v] = funds[v]]
    /\ UNCHANGED <<funds, prices, taken, counts, monitorVars, operatorVars>>

----------------------------------------------------------------------------
(* The operator.  Plans are made one at a time, and on books synced since  *)
(* the last one was carried out: the planner knows of neither.             *)

Exact(a) == \A v \in Venues : books[v][a] = funds[v][a]

MakePlan(a) ==
    /\ plan = {} /\ plan' = Plan(books, a) /\ plan' # {}
    /\ alone' = IF Exact(a) /\ \A m \in transit : m.asset # a
                THEN alone \cup {a} ELSE alone \ {a}
    /\ Counted("plans", MaxPlans)
    /\ UNCHANGED <<funds, books, prices, taken, transit, monitorVars>>

\* The venue sends it, if it still has it; the books are synced.
CarryOut(p) ==
    /\ p \in plan
    /\ p.amount <= funds[p.from][p.asset].free
    /\ funds' = Credit(funds, p.from, p.asset, -p.amount)
    /\ books' = [books EXCEPT ![p.from] = funds'[p.from]]
    /\ transit' = transit \cup {[id |-> counts.plans, asset |-> p.asset, to |-> p.to,
                                 amount |-> NetAmount(p)]}
    /\ plan' = {}
    /\ UNCHANGED <<prices, taken, alone, counts, monitorVars>>

Refused(p) ==
    /\ p \in plan
    /\ p.amount > funds[p.from][p.asset].free
    /\ plan' = {}
    /\ alone' = alone \ {p.asset}
    /\ UNCHANGED <<funds, books, prices, taken, transit, counts, monitorVars>>

Arrives(m) ==
    /\ m \in transit
    /\ transit' = transit \ {m}
    /\ funds' = Credit(funds, m.to, m.asset, m.amount)
    /\ UNCHANGED <<books, prices, taken, plan, alone, counts, monitorVars>>
----------------------------------------------------------------------------
Monitor ==
    \/ \E tx \in Transactions : Pending(tx)
    \/ EstimateArb \/ Expired \/ Shortfall
    \/ \E s \in IF task.pc = "build" THEN task.short ELSE {} : BuildTransfer(s)
    \/ Built
    \/ \E t \in IF task.pc = "cost" THEN task.todo ELSE {} : PriceTransfer(t)
    \/ Decide

Bot ==
    \/ \E p \in TickPrices : TickPrice(p)
    \/ \E v \in Venues, a \in Assets, x \in TradeAmounts, booked \in BOOLEAN :
          Trade(v, a, x, booked)
    \/ \E v \in Venues : Sync(v)

Operator ==
    \/ \E a \in Assets : MakePlan(a)
    \/ \E p \in plan : CarryOut(p) \/ Refused(p)
    \/ \E m \in transit : Arrives(m)

Next == Monitor \/ Bot \/ Operator

Spec == Init /\ [][Next]_vars

----------------------------------------------------------------------------
(* Properties.                                                             *)

\* Planned transfers alone never bring a venue's balance below the operating
\* balance of the asset, however many follow one another and whatever is still
\* on its way: what is missing there is at most what trades have taken, though
\* a plan may be made on books that do not know of them yet.
Lowest(v, a) == IF InitialFunds[v][a].free < MinOperating[a]
                THEN InitialFunds[v][a].free ELSE MinOperating[a]
OperatingBalanceKept ==
    \A v \in Venues, a \in Assets : funds[v][a].free + taken[v][a] >= Lowest(v, a)

\* Balance is restored by one transfer: when it has arrived, less its fee, and
\* nothing else has moved the asset, the planner has no further transfer for
\* it, and none back.
OnePlanSettles ==
    \A a \in alone : /\ Exact(a)
                     /\ \A m \in plan \cup transit : m.asset # a
                     => Plan(books, a) = {}

Fees(transfers) == MapThenSumSet(LAMBDA t : WithdrawalFee[t.asset], transfers)

\* An announced preposition pays the fees of all its transfers MinRatio times,
\* with prices that may change between them, and never sends an asset both
\* ways: its two needs are of different assets, since a swap that ends where
\* it began has no pool.
TriggeredPlansPay ==
    Triggered =>
        /\ preposition.profit >= MinRatio * 20000 * Fees(preposition.transfers)
        /\ \A s, t \in preposition.transfers : s.asset = t.asset => s = t
=============================================================================
