------------------------------- MODULE ArbBot -------------------------------
(***************************************************************************)
(* The bot's main loop, ArbBot::run and ArbBot::tick                       *)
(* (integration/src/bin/arb_bot.rs).  One iteration walks through the      *)
(* kill-switch check, the daily reset, the health check, the balance syncs *)
(* and, while trading is active, a tick; each is a step here, and the      *)
(* operator, the exchange and the wallet act in between.                   *)
(*                                                                         *)
(* The timers are abstracted to what they allow.  The kill-switch check    *)
(* runs every 10 seconds and an iteration lasts at least one, so at most   *)
(* CheckEvery iterations in a row go without it; the daily reset and the   *)
(* health check may fall into any iteration.  The executor is its result:  *)
(* Done with some pnl, or Failed, whatever its legs have left behind (see  *)
(* module Executor).  Alerts, metrics, price data and dry run are left out.*)
(***************************************************************************)
EXTENDS RiskControls

CONSTANTS
    Bases,          \* base assets of the bot's pairs
    Aliased,        \* those the exchange lists under another name (WETH: ETH)
    TradeValues,    \* what a trade may be worth, in USD
    Gains, Losses,  \* what an execution that is Done may gain or lose
    WorstLoss,      \* bound on the losses: nothing in the code enforces it
    CheckEvery,     \* iterations between two kill-switch checks, at most
    MaxCapital,     \* bound: gains beyond this capital are not considered
    MaxHeld         \* bound: units of a base held on the exchange

ASSUME BotAssumption ==
    /\ Aliased \subseteq Bases
    /\ TradeValues \subseteq Nat /\ Gains \subseteq Nat
    /\ WorstLoss \in Nat \ {0} /\ Losses \subseteq 1..WorstLoss
    /\ CheckEvery \in Nat /\ MaxCapital \in Nat /\ MaxHeld \in Nat

VARIABLES
    pc,             \* where the loop is
    active,         \* trading_active
    killed,         \* kill_switch.triggered
    risk,           \* risk_manager
    sessionPnl,     \* session_pnl
    dailyTrades,    \* length of daily_trades
    errors,         \* error_timestamps, those of the last hour
    sinceCheck,     \* iterations since the last kill-switch check
    tracked,        \* the tracker's free exchange balances
    walletSynced,   \* the tracker's wallet ETH is the chain's
    \* The outside world:
    killFile,       \* /tmp/arb_bot_kill exists
    stopFlag,       \* the bridge's stopFlag, set by /stop, cleared by /resume
    held,           \* free balances on the exchange
    \* Observed only by the properties:
    grace,          \* executions begun under a kill condition, see below
    missed          \* bases held that the last flatten did not try to sell

loopVars == <<risk, sessionPnl, dailyTrades, errors, tracked, walletSynced>>
worldVars == <<killFile, stopFlag>>
vars == <<pc, active, killed, loopVars, sinceCheck, worldVars, held,
          grace, missed>>

Locations == {"kill check", "reset", "health", "sync", "tick", "executing"}
Holdings == [Bases -> 0..MaxHeld]
\* The tracker's figure, which between two syncs may be off either way.
Estimates == [Bases -> -MaxHeld..2 * MaxHeld]

TypeOK ==
    /\ pc \in Locations
    /\ active \in BOOLEAN /\ killed \in BOOLEAN
    /\ risk \in Risks
    /\ sessionPnl \in Int /\ dailyTrades \in Nat
    /\ errors \in 0..ErrorLimit + 1
    /\ sinceCheck \in 0..CheckEvery
    /\ tracked \in Estimates /\ held \in Holdings
    /\ walletSynced \in BOOLEAN
    /\ killFile \in BOOLEAN /\ stopFlag \in BOOLEAN
    /\ grace \in Nat
    /\ missed \in SUBSET Bases

\* The timers start with the loop: the first iteration goes straight to the
\* syncs.
Init ==
    /\ pc = "sync"
    /\ active = TRUE /\ killed = FALSE
    /\ risk = NewRisk
    /\ sessionPnl = 0 /\ dailyTrades = 0 /\ errors = 0
    /\ sinceCheck = 0
    /\ held \in Holdings /\ tracked = held
    /\ walletSynced = TRUE
    /\ killFile \in BOOLEAN /\ stopFlag = FALSE
    /\ grace = 0 /\ missed = {}

----------------------------------------------------------------------------
(* Pausing.                                                                *)

Min2(a, b) == IF a <= b THEN a ELSE b

\* record_error; the count saturates just above the limit.
RecordErrors(n) == errors' = Min2(errors + n, ErrorLimit + 1)

\* Slip: flatten rounds the amount up and sells more than there is.
FlattenRoundedUp ==
    /\ held' \in [Bases -> -1..MaxHeld]
    /\ missed' = {b \in Aliased : held[b] > 0}

\* emergency_flatten sells what the exchange lists under the pair's own base
\* name.  Each order may be rejected (dust, MIN_NOTIONAL, an error), and if
\* the balances cannot be fetched nothing is sold at all.
Flatten ==
    /\ held' \in {h \in Holdings :
                     \A b \in Bases : \/ h[b] = held[b]
                                      \/ (b \notin Aliased /\ h[b] = 0)}
    /\ missed' = {b \in Aliased : held[b] > 0}

\* trading_active = false, after a flatten.
FlattenAndPause ==
    /\ Flatten
    /\ active' = FALSE
    /\ grace' = 0

----------------------------------------------------------------------------
(* The kill-switch check.                                                  *)

\* check_for_stop_command answers false when the bridge cannot be reached.
StopSeen == {stopFlag, FALSE}

\* Slip: the minus before max_daily_loss is forgotten.
ResumableAfterGain(errorCount, stopSeen) ==
    /\ ~killFile /\ ~stopSeen /\ errorCount = 0
    /\ risk.dailyPnl > MaxDailyLoss

Resumable(errorCount, stopSeen) ==
    ~killFile /\ ~stopSeen /\ errorCount = 0 /\ ~DailyLossReached(risk)

\* Slip: the check of an active bot does not pause it.
KillCheckWarnsOnly ==
    /\ pc = "kill check"
    /\ sinceCheck' = 0
    /\ pc' = "reset"
    /\ \E errorCount \in 0..errors, stopSeen \in StopSeen :
          /\ errors' = errorCount
          /\ active' = (active \/ Resumable(errorCount, stopSeen))
          /\ killed' = (killed \/ (active /\ KillConditions(risk, errorCount)))
          /\ grace' = IF active' = active THEN grace ELSE 0
    /\ UNCHANGED <<risk, sessionPnl, dailyTrades, tracked, walletSynced,
                   worldVars, held, missed>>

\* Errors older than an hour are dropped first: any number of them.
KillCheck ==
    /\ pc = "kill check"
    /\ sinceCheck' = 0
    /\ pc' = "reset"
    /\ \E errorCount \in 0..errors, stopSeen \in StopSeen :
       LET manual == killFile \/ stopSeen
           triggers == ~manual /\ KillConditions(risk, errorCount)
       IN  /\ errors' = errorCount
           /\ \/ /\ active
                 /\ killed' = (killed \/ triggers)
                 /\ IF manual \/ killed'
                    THEN FlattenAndPause
                    ELSE UNCHANGED <<active, held, grace, missed>>
              \/ /\ ~active
                 /\ active' = Resumable(errorCount, stopSeen)
                 /\ grace' = 0
                 /\ UNCHANGED <<killed, held, missed>>
    /\ UNCHANGED <<risk, sessionPnl, dailyTrades, tracked, walletSynced,
                   worldVars>>

\* Less than 10 seconds have passed since the last check.
SkipKillCheck ==
    /\ pc = "kill check"
    /\ sinceCheck < CheckEvery
    /\ sinceCheck' = sinceCheck + 1
    /\ pc' = "reset"
    /\ UNCHANGED <<active, killed, loopVars, worldVars, held, grace, missed>>

----------------------------------------------------------------------------
(* The rest of an iteration.                                               *)

DailyReset ==
    /\ pc = "reset"
    /\ pc' = "health"
    /\ risk' = ResetDaily(risk)
    /\ sessionPnl' = 0 /\ dailyTrades' = 0
    /\ UNCHANGED <<active, killed, errors, tracked, walletSynced, sinceCheck,
                   worldVars, held, grace, missed>>

SkipReset ==
    /\ pc = "reset"
    /\ pc' = "health"
    /\ UNCHANGED <<active, killed, loopVars, sinceCheck, worldVars, held,
                   grace, missed>>

\* verify_balances asks the exchange for the pair's own base name and takes
\* a missing entry for zero.
ActualCex(b) == IF b \in Aliased THEN 0 ELSE held[b]
Mismatch == ~walletSynced \/ \E b \in Bases : ActualCex(b) # tracked[b]

HealthCheck ==
    /\ pc = "health"
    /\ pc' = "sync"
    /\ IF Mismatch
       THEN killed' = TRUE /\ FlattenAndPause
       ELSE UNCHANGED <<active, killed, held, grace, missed>>
    /\ UNCHANGED <<loopVars, sinceCheck, worldVars>>

\* verify_balances cannot reach the exchange or the node: pause, and no more.
HealthCheckFails ==
    /\ pc = "health"
    /\ pc' = "sync"
    /\ active' = FALSE /\ grace' = 0
    /\ UNCHANGED <<killed, loopVars, sinceCheck, worldVars, held, missed>>

SkipHealth ==
    /\ pc = "health"
    /\ pc' = "sync"
    /\ UNCHANGED <<active, killed, loopVars, sinceCheck, worldVars, held,
                   grace, missed>>

\* sync_binance_balances, then sync_wallet_balances; either may fail.
Sync ==
    /\ pc = "sync"
    /\ \E cexFails, walletFails \in {0, 1} :
          /\ tracked' = IF cexFails = 0 THEN held ELSE tracked
          /\ walletSynced' = (walletSynced \/ walletFails = 0)
          /\ RecordErrors(cexFails + walletFails)
    /\ pc' = IF active THEN "tick" ELSE "kill check"
    /\ UNCHANGED <<active, killed, risk, sessionPnl, dailyTrades, sinceCheck,
                   worldVars, held, grace, missed>>

\* The breaker is open, there is no candidate, the best one is not valid, or
\* gas would eat its profit; a price-feed anomaly is an error.
TickPasses ==
    /\ pc = "tick"
    /\ pc' = "kill check"
    /\ \E anomaly \in {0, 1} : RecordErrors(anomaly)
    /\ UNCHANGED <<active, killed, risk, sessionPnl, dailyTrades, tracked,
                   walletSynced, sinceCheck, worldVars, held, grace, missed>>

\* The risk manager refuses, or safety_check does after it agreed.
TickBlocked ==
    /\ pc = "tick"
    /\ pc' = "kill check"
    /\ \E usd \in TradeValues :
          /\ ~(PreTradeAllowed(risk, usd) /\ AbsolutelySafe(risk, usd))
          /\ IF BlockedByDailyLoss(risk, usd) \/ PreTradeAllowed(risk, usd)
             THEN killed' = TRUE /\ FlattenAndPause
             ELSE UNCHANGED <<active, killed, held, grace, missed>>
    /\ UNCHANGED <<loopVars, sinceCheck, worldVars>>

TickExecutes ==
    /\ pc = "tick"
    /\ pc' = "executing"
    /\ \E usd \in TradeValues :
          PreTradeAllowed(risk, usd) /\ AbsolutelySafe(risk, usd)
    /\ grace' = IF killFile \/ killed THEN grace + 1 ELSE grace
    /\ UNCHANGED <<active, killed, loopVars, sinceCheck, worldVars, held,
                   missed>>

\* A trade moves balances by d units of base b.
Moved(balances, b, d) == [balances EXCEPT ![b] = @ + d]

\* The books of a trade, whatever came of it.
Book(pnl) ==
    /\ risk' = RecordTrade(risk, pnl)
    /\ sessionPnl' = sessionPnl + pnl
    /\ dailyTrades' = dailyTrades + 1

\* Both legs are filled and update_inventory has booked them.  Gas was paid.
ExecutionDone ==
    /\ pc = "executing"
    /\ pc' = "kill check"
    /\ \E pnl \in Gains \cup {-l : l \in Losses} :
          risk.capital + pnl <= MaxCapital /\ Book(pnl)
    /\ \E b \in Bases, d \in {-1, 1} :
          /\ held' = Moved(held, b, d) /\ held' \in Holdings
          /\ tracked' = Moved(tracked, b, d) /\ tracked' \in Estimates
    /\ walletSynced' \in {walletSynced, FALSE}
    /\ UNCHANGED <<active, killed, errors, sinceCheck, worldVars, grace, missed>>

\* The execution failed: actual_net_pnl is None and 0 is recorded, whatever
\* was lost.  The exchange leg may have been filled all the same, and been
\* booked (leg 2 failed) or not (its answer was lost).
ExecutionFailed ==
    /\ pc = "executing"
    /\ pc' = "kill check"
    /\ Book(0)
    /\ RecordErrors(1)
    /\ \E b \in Bases, d \in {-1, 0, 1}, booked \in BOOLEAN :
          /\ held' = Moved(held, b, d) /\ held' \in Holdings
          /\ tracked' = IF booked THEN Moved(tracked, b, d) ELSE tracked
          /\ tracked' \in Estimates
    /\ walletSynced' \in {walletSynced, FALSE}
    /\ UNCHANGED <<active, killed, sinceCheck, worldVars, grace, missed>>

----------------------------------------------------------------------------
(* The world.                                                              *)

\* The operator, or the watchdog, creates the kill file; the operator
\* removes it.
ToggleKillFile ==
    /\ killFile' = ~killFile
    /\ grace' = 0
    /\ UNCHANGED <<pc, active, killed, loopVars, sinceCheck, stopFlag, held,
                   missed>>

\* /stop or /resume reaches the bridge.
ToggleStop ==
    /\ stopFlag' = ~stopFlag
    /\ UNCHANGED <<pc, active, killed, loopVars, sinceCheck, killFile, held,
                   grace, missed>>

Loop ==
    \/ KillCheck \/ SkipKillCheck
    \/ DailyReset \/ SkipReset
    \/ HealthCheck \/ HealthCheckFails \/ SkipHealth
    \/ Sync
    \/ TickPasses \/ TickBlocked \/ TickExecutes
    \/ ExecutionDone \/ ExecutionFailed

Next == Loop \/ ToggleKillFile \/ ToggleStop

Spec == Init /\ [][Next]_vars

\* Every await of the loop ends: the loop is never stuck in a phase.
FairSpec == Spec /\ WF_vars(Loop)

----------------------------------------------------------------------------
\* A day can lose the daily limit and one more trade, never two: the limit is
\* looked at before each trade and a daily reset does not open a gap.
DailyLossBounded == risk.dailyPnl > -(MaxDailyLoss + WorstLoss)

\* Over any number of days the capital stays within one trade of both the
\* drawdown limit below its peak and the absolute minimum.
CapitalProtected ==
    /\ (risk.peak - risk.capital - WorstLoss) * 100 < MaxDrawdownPct * risk.peak
    /\ \/ risk.capital >= AbsoluteMinCapital - WorstLoss
       \/ risk.capital = InitialCapital

\* The bot's own books and the risk manager's agree: what the daily summary
\* reports is what the limits were applied to.
BooksAgree ==
    sessionPnl = risk.dailyPnl /\ dailyTrades = risk.tradesThisHour

\* Once the kill file exists or the kill switch has triggered, the bot begins
\* at most one execution per iteration left before the next check: this one
\* and those that skip the check.  Resuming (which a triggered kill switch
\* does not prevent) starts the count again, and so does the file.
PausesInTime == grace <= CheckEvery + 1

\* The kill file and the triggered kill switch pause the bot for real.
KillPauses ==
    (killFile \/ killed) ~> (~active \/ ~(killFile \/ killed))

\* Some trade would pass the risk manager and the safety check.
SomeTradeAllowed ==
    \E usd \in TradeValues :
        PreTradeAllowed(risk, usd) /\ AbsolutelySafe(risk, usd)

\* Nothing is left that should pause the bot: no file, no /stop, no errors of
\* the last hour, limits that allow a trade, and no trigger of the kill switch.
NothingToPauseFor ==
    ~killFile /\ ~stopFlag /\ errors = 0 /\ SomeTradeAllowed /\ ~killed

\* An active bot is paused because its balances could not be fetched.
PausedUnanswered == active /\ HealthCheckFails

\* No pause by the operator, the watchdog, the error count or an exchange that
\* did not answer is for ever: once the reasons are gone for good, and health
\* checks of an active bot are answered, the loop comes to a tick, where trades
\* are executed, over and over.  (A bot whose kill switch has triggered is
\* excluded: that it resumes as well is what KilledMeansHalted finds.)
Resumes ==
    (<>[]NothingToPauseFor /\ <>[][~PausedUnanswered]_vars)
       => []<>(pc = "tick")

\* What the alert "BOT KILLED" and the report say: a triggered kill switch
\* halts trading.
KilledMeansHalted == killed => pc # "executing"

\* What the alert says: an emergency flatten sells all positions.
FlattenSellsAll == missed = {}
=============================================================================
