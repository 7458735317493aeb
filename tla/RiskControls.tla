---------------------------- MODULE RiskControls ----------------------------
(***************************************************************************)
(* The three layers that can veto a trade or stop the bot: RiskManager     *)
(* (executor/src/position_limits.rs), AutoKillSwitch (kill_switch.rs) and  *)
(* safety_check (safety.rs).  They are operators over the risk manager's   *)
(* state; module ArbBot says who calls them and when.  Money is in whole   *)
(* dollars, percentages are whole numbers.                                 *)
(***************************************************************************)
EXTENDS Integers

CONSTANTS
    \* RiskLimits:
    MaxTradeUsd, MaxTradePct, MaxDailyLoss, MaxDrawdownPct,
    MaxTradesPerHour, ConsecutiveLossLimit,
    \* safety.rs:
    AbsoluteMaxTradeUsd, AbsoluteMaxDailyLoss, AbsoluteMinCapital,
    AbsoluteMaxTradesPerHour,
    ErrorLimit,         \* errors in the last hour that AutoKillSwitch tolerates
    InitialCapital      \* what RiskManager::set_capital is given at startup

ASSUME LimitsAssumption ==
    /\ MaxTradeUsd \in Nat /\ MaxTradePct \in Nat
    /\ MaxDailyLoss \in Nat \ {0} /\ MaxDrawdownPct \in Nat \ {0}
    /\ MaxTradesPerHour \in Nat /\ ConsecutiveLossLimit \in Nat
ASSUME SafetyAssumption ==
    /\ AbsoluteMaxTradeUsd \in Nat /\ AbsoluteMaxDailyLoss \in Nat
    /\ AbsoluteMinCapital \in Nat /\ AbsoluteMaxTradesPerHour \in Nat
    /\ ErrorLimit \in Nat
ASSUME CapitalAssumption == InitialCapital \in Nat \ {0}

Risks == [dailyPnl : Int, capital : Int, peak : Int,
          tradesThisHour : Nat, consecutiveLosses : Nat]

NewRisk == [dailyPnl |-> 0, capital |-> InitialCapital, peak |-> InitialCapital,
            tradesThisHour |-> 0, consecutiveLosses |-> 0]

DailyLossReached(r) == r.dailyPnl <= -MaxDailyLoss

\* (peak - capital) / peak >= max_drawdown_pct; there is none without a peak.
DrawdownReached(r) ==
    r.peak > 0 /\ (r.peak - r.capital) * 100 >= MaxDrawdownPct * r.peak

LossStreakReached(r) == r.consecutiveLosses >= ConsecutiveLossLimit
TradeCountReached(r) == r.tradesThisHour >= MaxTradesPerHour

\* check_pre_trade, for a trade worth usd.  TooLarge is looked at first, so an
\* oversized trade is never blamed on the daily loss.
TooLarge(usd) ==
    usd > MaxTradeUsd \/ usd * 100 > InitialCapital * MaxTradePct
BlockedByDailyLoss(r, usd) == ~TooLarge(usd) /\ DailyLossReached(r)

\* Slips: a day's losses, or the drawdown, are not looked at before a trade.
PreTradeAnyDay(r, usd) ==
    /\ ~TooLarge(usd)
    /\ ~DrawdownReached(r) /\ ~LossStreakReached(r) /\ ~TradeCountReached(r)
PreTradeAnyDrawdown(r, usd) ==
    /\ ~TooLarge(usd)
    /\ ~DailyLossReached(r) /\ ~LossStreakReached(r) /\ ~TradeCountReached(r)

PreTradeAllowed(r, usd) ==
    /\ ~TooLarge(usd)
    /\ ~DailyLossReached(r) /\ ~DrawdownReached(r)
    /\ ~LossStreakReached(r) /\ ~TradeCountReached(r)

\* safety_check: the hard-coded limits.
AbsolutelySafe(r, usd) ==
    /\ usd <= AbsoluteMaxTradeUsd
    /\ r.dailyPnl > -AbsoluteMaxDailyLoss
    /\ r.capital >= AbsoluteMinCapital
    /\ r.tradesThisHour < AbsoluteMaxTradesPerHour

\* record_trade: only a negative pnl counts as a loss; a failed execution is
\* recorded with pnl 0 and ends a streak of losses.
RecordTrade(r, pnl) ==
    [dailyPnl |-> r.dailyPnl + pnl,
     capital |-> r.capital + pnl,
     peak |-> IF r.capital + pnl > r.peak THEN r.capital + pnl ELSE r.peak,
     tradesThisHour |-> r.tradesThisHour + 1,
     consecutiveLosses |-> IF pnl < 0 THEN r.consecutiveLosses + 1 ELSE 0]

\* Slip: the day's trades are kept.
ResetDailyPnlOnly(r) == [r EXCEPT !.dailyPnl = 0, !.consecutiveLosses = 0]

\* reset_daily: the only place where the hourly counter is reset.
ResetDaily(r) ==
    [dailyPnl |-> 0, capital |-> r.capital, peak |-> r.peak,
     tradesThisHour |-> 0, consecutiveLosses |-> 0]

\* The conditions under which AutoKillSwitch::check triggers.
KillConditions(r, errorCount) ==
    \/ r.capital * 2 < InitialCapital
    \/ DailyLossReached(r) \/ DrawdownReached(r)
    \/ LossStreakReached(r) \/ TradeCountReached(r)
    \/ errorCount > ErrorLimit
=============================================================================
