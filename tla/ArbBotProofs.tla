---------------------------- MODULE ArbBotProofs ----------------------------
(***************************************************************************)
(* What holds of the bot's loop for every account, every set of limits and *)
(* every interval between kill-switch checks: the losses are bounded, the  *)
(* books agree, and a reason to stop is acted upon in time.                *)
(***************************************************************************)
EXTENDS ArbBot, TLAPS

\* The part of TypeOK that the arguments below use.
Typed ==
    /\ pc \in Locations
    /\ risk \in Risks
    /\ sessionPnl \in Int /\ dailyTrades \in Nat
    /\ sinceCheck \in 0..CheckEvery
    /\ grace \in Nat

\* An execution that has begun did so within the limits, and nothing touches
\* the risk manager before it ends.
WithinLimits(r) ==
    /\ r.dailyPnl > -MaxDailyLoss
    /\ (r.peak - r.capital) * 100 < MaxDrawdownPct * r.peak
    /\ r.capital >= AbsoluteMinCapital

PeakIsPositive == risk.peak >= risk.capital /\ risk.peak > 0
ExecutesWithinLimits == pc = "executing" => WithinLimits(risk)

\* Executions under a kill condition are paid for by iterations that skipped
\* the check, and by the one that is under way.
GraceIsPaid ==
    /\ grace <= sinceCheck + 1
    /\ pc \in {"reset", "health", "sync", "tick"} => grace <= sinceCheck
GraceHasReason == grace # 0 => killFile \/ killed

IInv ==
    /\ Typed
    /\ PeakIsPositive /\ ExecutesWithinLimits
    /\ DailyLossBounded /\ CapitalProtected
    /\ BooksAgree
    /\ GraceIsPaid /\ GraceHasReason

----------------------------------------------------------------------------
\* Recording a trade that loses at most WorstLoss, begun within the limits,
\* keeps the risk manager's figures within the bounds.
LEMMA RecordKeepsBounds ==
    ASSUME NEW r \in Risks, NEW pnl \in Int, pnl >= -WorstLoss,
           r.peak >= r.capital, r.peak > 0, WithinLimits(r)
    PROVE  LET n == RecordTrade(r, pnl) IN
           /\ n \in Risks
           /\ n.dailyPnl = r.dailyPnl + pnl
           /\ n.tradesThisHour = r.tradesThisHour + 1
           /\ n.peak >= n.capital /\ n.peak > 0
           /\ n.dailyPnl > -(MaxDailyLoss + WorstLoss)
           /\ (n.peak - n.capital - WorstLoss) * 100 < MaxDrawdownPct * n.peak
           /\ n.capital >= AbsoluteMinCapital - WorstLoss
<1> DEFINE n == RecordTrade(r, pnl)
<1>1. /\ r.dailyPnl \in Int /\ r.capital \in Int /\ r.peak \in Int
      /\ r.tradesThisHour \in Nat /\ r.consecutiveLosses \in Nat
  BY DEF Risks
<1>2. /\ WorstLoss \in Nat /\ WorstLoss > 0 /\ MaxDailyLoss \in Nat
      /\ MaxDrawdownPct \in Nat /\ MaxDrawdownPct > 0
      /\ AbsoluteMinCapital \in Nat
  BY BotAssumption, LimitsAssumption, SafetyAssumption
<1>3. /\ n.dailyPnl = r.dailyPnl + pnl
      /\ n.capital = r.capital + pnl
      /\ n.peak = IF r.capital + pnl > r.peak THEN r.capital + pnl ELSE r.peak
      /\ n.tradesThisHour = r.tradesThisHour + 1
      /\ n \in Risks
  BY <1>1 DEF RecordTrade, Risks
<1>4. n.peak >= n.capital /\ n.peak > 0
  BY <1>1, <1>3
<1>5. /\ n.dailyPnl > -(MaxDailyLoss + WorstLoss)
      /\ n.capital >= AbsoluteMinCapital - WorstLoss
  BY <1>1, <1>2, <1>3 DEF WithinLimits
<1>6. (n.peak - n.capital - WorstLoss) * 100 < MaxDrawdownPct * n.peak
  <2>1. CASE r.capital + pnl > r.peak
    <3>1. n.peak = n.capital
      BY <2>1, <1>3
    <3>2. MaxDrawdownPct * n.peak > 0
      BY <1>2, <1>4, <1>3, <1>1, <2>1
    <3> QED
      BY <3>1, <3>2, <1>1, <1>2, <1>3
  <2>2. CASE ~(r.capital + pnl > r.peak)
    <3>1. n.peak = r.peak
      BY <2>2, <1>3
    <3>2. (r.peak - r.capital) * 100 < MaxDrawdownPct * r.peak
      BY DEF WithinLimits
    <3>3. MaxDrawdownPct * r.peak \in Int
      BY <1>1, <1>2
    <3> QED
      BY <3>1, <3>2, <3>3, <1>1, <1>2, <1>3
  <2> QED
    BY <2>1, <2>2
<1> QED
  BY <1>3, <1>4, <1>5, <1>6

\* A tick that executes has looked at all the limits.
LEMMA ChecksImplyLimits ==
    ASSUME NEW r \in Risks, NEW usd \in TradeValues, r.peak > 0,
           PreTradeAllowed(r, usd), AbsolutelySafe(r, usd)
    PROVE  WithinLimits(r)
<1>1. r.dailyPnl \in Int /\ r.capital \in Int /\ r.peak \in Int
  BY DEF Risks
<1>2. MaxDailyLoss \in Nat /\ MaxDrawdownPct \in Nat /\ AbsoluteMinCapital \in Nat
  BY LimitsAssumption, SafetyAssumption
<1>3. MaxDrawdownPct * r.peak \in Int
  BY <1>1, <1>2
<1> QED
  BY <1>1, <1>2, <1>3 DEF PreTradeAllowed, AbsolutelySafe, DailyLossReached,
                          DrawdownReached, WithinLimits

LEMMA InitIInv == Init => IInv
<1> SUFFICES ASSUME Init PROVE IInv
  OBVIOUS
<1>1. /\ InitialCapital \in Nat /\ InitialCapital > 0
      /\ WorstLoss \in Nat /\ WorstLoss > 0 /\ MaxDailyLoss \in Nat
      /\ MaxDailyLoss > 0 /\ MaxDrawdownPct \in Nat /\ MaxDrawdownPct > 0
      /\ CheckEvery \in Nat
  BY BotAssumption, LimitsAssumption, CapitalAssumption
<1>2. /\ risk.dailyPnl = 0 /\ risk.capital = InitialCapital
      /\ risk.peak = InitialCapital /\ risk.tradesThisHour = 0
      /\ risk \in Risks
  BY <1>1 DEF Init, NewRisk, Risks
<1>3. Typed
  BY <1>1, <1>2 DEF Init, Typed, Locations
<1>4. MaxDrawdownPct * risk.peak > 0
  BY <1>1, <1>2
<1>5. PeakIsPositive /\ DailyLossBounded /\ CapitalProtected
  BY <1>1, <1>2, <1>4 DEF PeakIsPositive, DailyLossBounded, CapitalProtected
<1>6. ExecutesWithinLimits /\ BooksAgree /\ GraceIsPaid
  BY <1>1, <1>2 DEF Init, ExecutesWithinLimits, BooksAgree, GraceIsPaid
<1>7. GraceHasReason
  BY DEF Init, GraceHasReason
<1> QED
  BY <1>3, <1>5, <1>6, <1>7 DEF IInv

----------------------------------------------------------------------------
\* Steps that leave the books alone preserve what is said about the books,
\* as long as they begin no execution.
LEMMA BooksUntouched ==
    ASSUME IInv, UNCHANGED <<risk, sessionPnl, dailyTrades>>,
           pc' # "executing" \/ pc' = pc
    PROVE  /\ PeakIsPositive' /\ ExecutesWithinLimits'
           /\ DailyLossBounded' /\ CapitalProtected' /\ BooksAgree'
  BY DEF IInv, PeakIsPositive, ExecutesWithinLimits, WithinLimits,
         DailyLossBounded, CapitalProtected, BooksAgree

LEMMA CountersTyped ==
    ASSUME Typed
    PROVE  /\ sinceCheck \in 0..CheckEvery /\ grace \in Nat
           /\ sessionPnl \in Int /\ dailyTrades \in Nat
  BY DEF Typed

\* Nor do they disturb the types, if the counters stay in their range.
LEMMA TypedUntouched ==
    ASSUME Typed, UNCHANGED <<risk, sessionPnl, dailyTrades>>,
           pc' \in Locations, sinceCheck' \in 0..CheckEvery, grace' \in Nat
    PROVE  Typed'
<1>1. risk' \in Risks /\ sessionPnl' \in Int /\ dailyTrades' \in Nat
  BY DEF Typed
<1> QED
  BY <1>1 DEF Typed

LEMMA KillCheckKeepsIInv == IInv /\ KillCheck => IInv'
<1> SUFFICES ASSUME IInv, KillCheck PROVE IInv'
  OBVIOUS
<1>0. Typed /\ CheckEvery \in Nat
  BY BotAssumption DEF IInv
<1>1. /\ pc = "kill check" /\ pc' = "reset" /\ sinceCheck' = 0
      /\ UNCHANGED <<risk, sessionPnl, dailyTrades, killFile>>
  BY DEF KillCheck, worldVars
<1>2. grace' = 0
  <2>1. PICK errorCount \in 0..errors, stopSeen \in StopSeen :
           LET manual == killFile \/ stopSeen
               triggers == ~manual /\ KillConditions(risk, errorCount)
           IN  \/ /\ active
                  /\ killed' = (killed \/ triggers)
                  /\ IF manual \/ killed'
                     THEN FlattenAndPause
                     ELSE UNCHANGED <<active, held, grace, missed>>
               \/ /\ ~active
                  /\ active' = Resumable(errorCount, stopSeen)
                  /\ grace' = 0
                  /\ UNCHANGED <<killed, held, missed>>
    BY DEF KillCheck
  <2>2. grace # 0 => killFile \/ killed
    BY DEF IInv, GraceHasReason
  <2>3. CASE active
    <3>1. CASE killFile \/ stopSeen \/ killed'
      BY <2>1, <2>3, <3>1 DEF FlattenAndPause
    <3>2. CASE ~(killFile \/ stopSeen \/ killed')
      BY <2>1, <2>2, <2>3, <3>2, Zenon
    <3> QED
      BY <3>1, <3>2
  <2>4. CASE ~active
    BY <2>1, <2>4
  <2> QED
    BY <2>3, <2>4
<1>3. /\ pc' = "reset" /\ sinceCheck' = 0 /\ grace' = 0
      /\ UNCHANGED <<risk, sessionPnl, dailyTrades>>
  BY <1>1, <1>2
<1>4. Typed'
  <2>1. pc' \in Locations /\ sinceCheck' \in 0..CheckEvery /\ grace' \in Nat
    BY <1>0, <1>3 DEF Locations
  <2> QED
    BY <2>1, <1>0, <1>3, TypedUntouched
<1>5. GraceIsPaid'
  BY <1>3 DEF GraceIsPaid
<1>6. GraceHasReason'
  BY <1>3 DEF GraceHasReason
<1> QED
  BY <1>1, <1>4, <1>5, <1>6, BooksUntouched DEF IInv

\* Steps within an iteration keep the counters in order, whether or not they
\* pause the bot.
LEMMA PassingCounters ==
    ASSUME Typed, GraceIsPaid, CheckEvery \in Nat,
           UNCHANGED <<risk, sessionPnl, dailyTrades, sinceCheck, grace>>,
           pc' \in {"health", "sync", "tick", "kill check"},
           pc \in {"reset", "health", "sync", "tick"}
    PROVE  Typed' /\ GraceIsPaid'
<1>1. /\ sinceCheck \in 0..CheckEvery /\ grace \in Nat
      /\ grace <= sinceCheck
  BY CountersTyped DEF GraceIsPaid
<1>2. pc' \in Locations
  BY DEF Locations
<1>3. sinceCheck' \in 0..CheckEvery /\ grace' \in Nat
  BY <1>1
<1> QED
  BY <1>1, <1>2, <1>3, TypedUntouched DEF GraceIsPaid

LEMMA RangeIsPositive ==
    ASSUME NEW n \in Nat, NEW i \in 0..n PROVE 0 <= i + 1 /\ 0 <= i
  OBVIOUS

LEMMA PausingCounters ==
    ASSUME Typed, CheckEvery \in Nat, grace' = 0,
           UNCHANGED <<risk, sessionPnl, dailyTrades, sinceCheck>>,
           pc' \in {"health", "sync", "tick", "kill check"}
    PROVE  Typed' /\ GraceIsPaid'
<1>1. sinceCheck \in 0..CheckEvery /\ sinceCheck' = sinceCheck
  BY CountersTyped
<1>2. pc' \in Locations
  BY DEF Locations
<1>3. sinceCheck' \in 0..CheckEvery /\ grace' \in Nat
  BY <1>1
<1>4. Typed'
  BY <1>2, <1>3, TypedUntouched
<1>5. GraceIsPaid'
  <2>1. 0 <= sinceCheck' + 1 /\ 0 <= sinceCheck'
    BY <1>3, RangeIsPositive, Zenon
  <2>2. grace' = 0
    OBVIOUS
  <2> QED
    BY <2>1, <2>2, Zenon DEF GraceIsPaid
<1> QED
  BY <1>4, <1>5

\* What the other steps that begin or end no execution do to the variables
\* IInv speaks of.
PassesOn(from, to) ==
    /\ pc = from /\ pc' = to
    /\ UNCHANGED <<risk, sessionPnl, dailyTrades, sinceCheck, killFile>>
    /\ UNCHANGED <<grace, killed>> \/ grace' = 0

LEMMA PassingKeepsIInv ==
    ASSUME IInv,
           \/ PassesOn("health", "sync")
           \/ PassesOn("sync", "tick") \/ PassesOn("sync", "kill check")
           \/ PassesOn("tick", "kill check") \/ PassesOn("reset", "health")
    PROVE  IInv'
<1>1. /\ pc' \in {"health", "sync", "tick", "kill check"}
      /\ pc \in {"reset", "health", "sync", "tick"}
      /\ UNCHANGED <<risk, sessionPnl, dailyTrades, sinceCheck, killFile>>
      /\ UNCHANGED <<grace, killed>> \/ grace' = 0
  BY DEF PassesOn
<1>2. Typed /\ GraceIsPaid /\ GraceHasReason
  BY DEF IInv
<1>3. Typed' /\ GraceIsPaid'
  <2>1. Typed /\ GraceIsPaid /\ CheckEvery \in Nat
    BY <1>2, BotAssumption
  <2>2. CASE grace' = grace
    BY <1>1, <2>1, <2>2, PassingCounters, Zenon
  <2>3. CASE grace' = 0
    BY <1>1, <2>1, <2>3, PausingCounters, Zenon
  <2> QED
    BY <1>1, <2>2, <2>3, Zenon
<1>4. GraceHasReason'
  BY <1>1, <1>2 DEF GraceHasReason
<1> QED
  BY <1>1, <1>3, <1>4, BooksUntouched DEF IInv

LEMMA PhasesPassOn ==
    /\ SkipReset => PassesOn("reset", "health")
    /\ HealthCheck \/ HealthCheckFails \/ SkipHealth => PassesOn("health", "sync")
    /\ Sync => PassesOn("sync", "tick") \/ PassesOn("sync", "kill check")
    /\ TickPasses \/ TickBlocked => PassesOn("tick", "kill check")
  BY DEF SkipReset, HealthCheck, HealthCheckFails, SkipHealth, Sync,
         TickPasses, TickBlocked, PassesOn, FlattenAndPause, loopVars, worldVars

LEMMA SkipKillCheckKeepsIInv == IInv /\ SkipKillCheck => IInv'
<1> SUFFICES ASSUME IInv, SkipKillCheck PROVE IInv'
  OBVIOUS
<1>1. /\ pc' = "reset" /\ sinceCheck < CheckEvery
      /\ sinceCheck' = sinceCheck + 1
      /\ UNCHANGED <<risk, sessionPnl, dailyTrades, killFile, grace, killed>>
  BY DEF SkipKillCheck, loopVars, worldVars
<1>2. Typed /\ GraceIsPaid /\ GraceHasReason /\ CheckEvery \in Nat
  BY BotAssumption DEF IInv
<1>3. Typed' /\ GraceIsPaid'
  <2>1. /\ pc' = "reset" /\ sinceCheck < CheckEvery
        /\ sinceCheck' = sinceCheck + 1
        /\ UNCHANGED <<risk, sessionPnl, dailyTrades, grace>>
    BY <1>1
  <2>2. Typed /\ GraceIsPaid /\ CheckEvery \in Nat
    BY <1>2
  <2>3. Typed'
    <3>1. pc' \in Locations
      BY <2>1 DEF Locations
    <3>2. sinceCheck' \in 0..CheckEvery
      BY <2>1, <2>2, CountersTyped
    <3>3. grace' \in Nat
      BY <2>1, <2>2, CountersTyped
    <3> QED
      BY <3>1, <3>2, <3>3, <2>1, <2>2, TypedUntouched
  <2>4. GraceIsPaid'
    BY <2>1, <2>2, CountersTyped DEF GraceIsPaid
  <2> QED
    BY <2>3, <2>4
<1>4. GraceHasReason'
  BY <1>1, <1>2 DEF GraceHasReason
<1> QED
  BY <1>1, <1>3, <1>4, BooksUntouched DEF IInv

LEMMA DailyResetKeepsIInv == IInv /\ DailyReset => IInv'
<1> SUFFICES ASSUME IInv, DailyReset PROVE IInv'
  OBVIOUS
<1>1. /\ pc = "reset" /\ pc' = "health"
      /\ risk' = ResetDaily(risk) /\ sessionPnl' = 0 /\ dailyTrades' = 0
      /\ UNCHANGED <<sinceCheck, killFile, grace, killed>>
  BY DEF DailyReset, worldVars
<1>2. /\ Typed /\ PeakIsPositive /\ CapitalProtected
      /\ GraceIsPaid /\ GraceHasReason
  BY DEF IInv
<1>3. /\ risk' \in Risks /\ risk'.dailyPnl = 0 /\ risk'.tradesThisHour = 0
      /\ risk'.capital = risk.capital /\ risk'.peak = risk.peak
  BY <1>1, <1>2 DEF Typed, Risks, ResetDaily
<1>4. Typed'
  BY <1>1, <1>2, <1>3, BotAssumption DEF Typed, Locations
<1>5. DailyLossBounded'
  BY <1>3, BotAssumption, LimitsAssumption DEF DailyLossBounded
<1>6. PeakIsPositive' /\ CapitalProtected'
  BY <1>2, <1>3 DEF PeakIsPositive, CapitalProtected
<1>7. ExecutesWithinLimits' /\ BooksAgree'
  BY <1>1, <1>3 DEF ExecutesWithinLimits, BooksAgree
<1>8. GraceIsPaid' /\ GraceHasReason'
  <2>1. pc' = "health" /\ pc = "reset" /\ UNCHANGED <<sinceCheck, grace>>
    BY <1>1
  <2>2. GraceIsPaid'
    BY <2>1, <1>2 DEF GraceIsPaid
  <2> QED
    BY <2>2, <1>1, <1>2 DEF GraceHasReason
<1> QED
  BY <1>4, <1>5, <1>6, <1>7, <1>8 DEF IInv

LEMMA TickExecutesKeepsIInv == IInv /\ TickExecutes => IInv'
<1> SUFFICES ASSUME IInv, TickExecutes PROVE IInv'
  OBVIOUS
<1>1. /\ pc = "tick" /\ pc' = "executing"
      /\ UNCHANGED <<risk, sessionPnl, dailyTrades, sinceCheck, killFile,
                     killed>>
      /\ grace' = IF killFile \/ killed THEN grace + 1 ELSE grace
  BY DEF TickExecutes, loopVars, worldVars
<1>2. WithinLimits(risk)
  <2>1. PICK usd \in TradeValues :
           PreTradeAllowed(risk, usd) /\ AbsolutelySafe(risk, usd)
    BY DEF TickExecutes
  <2> QED
    BY <2>1, ChecksImplyLimits DEF IInv, Typed, PeakIsPositive
<1>3. ExecutesWithinLimits'
  BY <1>1, <1>2 DEF ExecutesWithinLimits, WithinLimits
<1>4. Typed /\ GraceIsPaid /\ GraceHasReason /\ CheckEvery \in Nat
  BY BotAssumption DEF IInv
<1>5. Typed' /\ GraceIsPaid' /\ GraceHasReason'
  <2>1. /\ pc = "tick" /\ pc' = "executing"
        /\ UNCHANGED <<risk, sessionPnl, dailyTrades, sinceCheck>>
        /\ grace' = grace \/ grace' = grace + 1
    BY <1>1, Zenon
  <2>2. Typed' /\ GraceIsPaid'
    BY <2>1, <1>4 DEF Typed, GraceIsPaid, Locations
  <2>3. GraceHasReason'
    BY <1>1, <1>4, Zenon DEF GraceHasReason
  <2> QED
    BY <2>2, <2>3
<1>6. PeakIsPositive' /\ DailyLossBounded' /\ CapitalProtected' /\ BooksAgree'
  BY <1>1 DEF IInv, PeakIsPositive, DailyLossBounded, CapitalProtected, BooksAgree
<1> QED
  BY <1>3, <1>5, <1>6 DEF IInv

LEMMA SumsTyped ==
    ASSUME NEW a \in Int, NEW b \in Int, NEW n \in Nat
    PROVE  a + b \in Int /\ n + 1 \in Nat
  OBVIOUS

\* Both ends of an execution book some pnl, no worse than -WorstLoss.
LEMMA BookKeepsIInv ==
    ASSUME IInv, NEW pnl \in Int, pnl >= -WorstLoss, Book(pnl),
           pc = "executing", pc' = "kill check",
           UNCHANGED <<sinceCheck, killFile, grace, killed>>
    PROVE  IInv'
<1>1. /\ Typed /\ PeakIsPositive /\ WithinLimits(risk) /\ BooksAgree
      /\ GraceIsPaid /\ GraceHasReason
  BY DEF IInv, ExecutesWithinLimits
<1>2. /\ risk' = RecordTrade(risk, pnl)
      /\ sessionPnl' = sessionPnl + pnl /\ dailyTrades' = dailyTrades + 1
  BY DEF Book
<1>3. risk \in Risks /\ risk.peak >= risk.capital /\ risk.peak > 0
  BY <1>1 DEF Typed, PeakIsPositive
<1>4. /\ risk' \in Risks
      /\ risk'.dailyPnl = risk.dailyPnl + pnl
      /\ risk'.tradesThisHour = risk.tradesThisHour + 1
      /\ risk'.peak >= risk'.capital /\ risk'.peak > 0
      /\ risk'.dailyPnl > -(MaxDailyLoss + WorstLoss)
      /\ (risk'.peak - risk'.capital - WorstLoss) * 100
            < MaxDrawdownPct * risk'.peak
      /\ risk'.capital >= AbsoluteMinCapital - WorstLoss
  BY <1>1, <1>2, <1>3, RecordKeepsBounds
<1>5. Typed'
  <2>1. pc' \in Locations /\ risk' \in Risks
    BY <1>4 DEF Locations
  <2>2. sessionPnl' \in Int /\ dailyTrades' \in Nat
    <3>1. sessionPnl \in Int /\ dailyTrades \in Nat
      BY <1>1, CountersTyped
    <3>2. sessionPnl' = sessionPnl + pnl /\ dailyTrades' = dailyTrades + 1
      BY <1>2
    <3>3. sessionPnl + pnl \in Int /\ dailyTrades + 1 \in Nat
      BY <3>1, SumsTyped, Zenon
    <3> QED
      BY <3>2, <3>3, Zenon
  <2>3. sinceCheck' = sinceCheck /\ grace' = grace
    OBVIOUS
  <2>4. sinceCheck' \in 0..CheckEvery
    BY <1>1, <2>3 DEF Typed
  <2>5. grace' \in Nat
    BY <1>1, <2>3 DEF Typed
  <2> QED
    BY <2>1, <2>2, <2>4, <2>5 DEF Typed
<1>6. PeakIsPositive' /\ DailyLossBounded' /\ CapitalProtected'
  BY <1>4 DEF PeakIsPositive, DailyLossBounded, CapitalProtected
<1>7. BooksAgree'
  BY <1>1, <1>2, <1>4 DEF BooksAgree
<1>8. ExecutesWithinLimits' /\ GraceIsPaid'
  BY <1>1 DEF ExecutesWithinLimits, GraceIsPaid
<1>9. GraceHasReason'
  BY <1>1 DEF GraceHasReason
<1> QED
  BY <1>5, <1>6, <1>7, <1>8, <1>9 DEF IInv

LEMMA ExecutionKeepsIInv == IInv /\ (ExecutionDone \/ ExecutionFailed) => IInv'
<1> SUFFICES ASSUME IInv, ExecutionDone \/ ExecutionFailed PROVE IInv'
  OBVIOUS
<1>1. /\ pc = "executing" /\ pc' = "kill check"
      /\ UNCHANGED <<sinceCheck, killFile, grace, killed>>
  BY DEF ExecutionDone, ExecutionFailed, worldVars
<1>2. \E pnl \in Int : pnl >= -WorstLoss /\ Book(pnl)
  <2>1. CASE ExecutionDone
    <3>1. PICK pnl \in Gains \cup {-l : l \in Losses} : Book(pnl)
      BY <2>1 DEF ExecutionDone
    <3>2. pnl \in Int /\ pnl >= -WorstLoss
      BY BotAssumption
    <3> QED
      BY <3>1, <3>2
  <2>2. CASE ExecutionFailed
    <3>1. Book(0)
      BY <2>2 DEF ExecutionFailed
    <3>2. 0 \in Int /\ 0 >= -WorstLoss
      BY BotAssumption
    <3> QED
      BY <3>1, <3>2
  <2> QED
    BY <2>1, <2>2
<1> QED
  BY <1>1, <1>2, BookKeepsIInv

LEMMA WorldKeepsIInv == IInv /\ (ToggleKillFile \/ ToggleStop) => IInv'
<1> SUFFICES ASSUME IInv, ToggleKillFile \/ ToggleStop PROVE IInv'
  OBVIOUS
<1>1. /\ UNCHANGED <<pc, risk, sessionPnl, dailyTrades, sinceCheck, killed>>
      /\ \/ UNCHANGED <<grace, killFile>>
         \/ grace' = 0 /\ killFile' = ~killFile
  BY DEF ToggleKillFile, ToggleStop, loopVars
<1>2. Typed /\ GraceIsPaid /\ GraceHasReason
  BY DEF IInv
<1>3. Typed' /\ GraceIsPaid'
  <2>1. /\ UNCHANGED <<pc, risk, sessionPnl, dailyTrades, sinceCheck>>
        /\ grace' = grace \/ grace' = 0
    BY <1>1
  <2> QED
    BY <2>1, <1>2, BotAssumption DEF Typed, GraceIsPaid
<1>4. GraceHasReason'
  BY <1>1, <1>2 DEF GraceHasReason
<1> QED
  BY <1>1, <1>3, <1>4, BooksUntouched DEF IInv

LEMMA StutterKeepsIInv == IInv /\ UNCHANGED vars => IInv'
  BY DEF vars, loopVars, worldVars, IInv, Typed, PeakIsPositive,
         ExecutesWithinLimits, WithinLimits, DailyLossBounded,
         CapitalProtected, BooksAgree, GraceIsPaid, GraceHasReason

----------------------------------------------------------------------------
\* The inductive invariant of the loop.
THEOREM Invariance == Spec => []IInv
<1>1. IInv /\ [Next]_vars => IInv'
  <2> SUFFICES ASSUME IInv, [Next]_vars PROVE IInv'
    OBVIOUS
  <2>1. CASE KillCheck
    BY <2>1, KillCheckKeepsIInv
  <2>2. CASE SkipKillCheck
    BY <2>2, SkipKillCheckKeepsIInv
  <2>3. CASE DailyReset
    BY <2>3, DailyResetKeepsIInv
  <2>4. CASE \/ SkipReset \/ HealthCheck \/ HealthCheckFails \/ SkipHealth
             \/ Sync \/ TickPasses \/ TickBlocked
    BY <2>4, PhasesPassOn, PassingKeepsIInv
  <2>5. CASE TickExecutes
    BY <2>5, TickExecutesKeepsIInv
  <2>6. CASE ExecutionDone \/ ExecutionFailed
    BY <2>6, ExecutionKeepsIInv
  <2>7. CASE ToggleKillFile \/ ToggleStop
    BY <2>7, WorldKeepsIInv
  <2>8. CASE UNCHANGED vars
    BY <2>8, StutterKeepsIInv
  <2> QED
    BY <2>1, <2>2, <2>3, <2>4, <2>5, <2>6, <2>7, <2>8 DEF Next, Loop
<1> QED
  BY InitIInv, <1>1, PTL DEF Spec

\* A day loses less than the daily limit and one worst trade together: the
\* limit that check_pre_trade looks at before a trade is enough.
THEOREM DailyLossesAreBounded == Spec => []DailyLossBounded
<1>1. IInv => DailyLossBounded
  BY DEF IInv
<1> QED
  BY <1>1, Invariance, PTL

\* Neither the days nor the pauses between them let the capital fall more
\* than one trade below the drawdown limit or the absolute minimum.
THEOREM CapitalIsProtected == Spec => []CapitalProtected
<1>1. IInv => CapitalProtected
  BY DEF IInv
<1> QED
  BY <1>1, Invariance, PTL

\* The session's books are the risk manager's.
THEOREM BooksAlwaysAgree == Spec => []BooksAgree
<1>1. IInv => BooksAgree
  BY DEF IInv
<1> QED
  BY <1>1, Invariance, PTL

\* A kill file or a triggered kill switch stops the bot by the next check.
THEOREM PausesAreInTime == Spec => []PausesInTime
<1>1. IInv => PausesInTime
  BY BotAssumption DEF IInv, Typed, GraceIsPaid, PausesInTime
<1> QED
  BY <1>1, Invariance, PTL

----------------------------------------------------------------------------
(* The types of the rest.                                                  *)

FlagsTyped ==
    /\ active \in BOOLEAN /\ killed \in BOOLEAN
    /\ walletSynced \in BOOLEAN
    /\ killFile \in BOOLEAN /\ stopFlag \in BOOLEAN

ErrorsTyped == errors \in 0..ErrorLimit + 1

BalancesTyped ==
    /\ tracked \in Estimates /\ held \in Holdings
    /\ missed \in SUBSET Bases

TInv == FlagsTyped /\ ErrorsTyped /\ BalancesTyped

\* What is held may be what is tracked.
LEMMA HoldingsAreEstimates == Holdings \subseteq Estimates
<1>1. MaxHeld \in Nat
  BY BotAssumption
<1>2. \A n \in 0..MaxHeld : n \in -MaxHeld..2 * MaxHeld
  BY <1>1
<1>. QED  BY <1>2 DEF Holdings, Estimates

LEMMA InitTInv == Init => TInv
<1>. SUFFICES ASSUME Init PROVE TInv
  OBVIOUS
<1>1. FlagsTyped
  BY DEF Init, FlagsTyped
<1>2. ErrorsTyped
  BY SafetyAssumption DEF Init, ErrorsTyped
<1>3. BalancesTyped
  BY HoldingsAreEstimates DEF Init, BalancesTyped
<1>. QED  BY <1>1, <1>2, <1>3 DEF TInv

\* The flags of an active bot that is paused, or not.
LEMMA FlattenTyped ==
    ASSUME BalancesTyped, Flatten, tracked' = tracked
    PROVE  BalancesTyped'
BY BotAssumption DEF BalancesTyped, Flatten

LEMMA ErrorsRecorded ==
    ASSUME ErrorsTyped, NEW n \in Nat, RecordErrors(n)
    PROVE  ErrorsTyped'
BY SafetyAssumption DEF ErrorsTyped, RecordErrors, Min2

LEMMA Rejoined == FlagsTyped' /\ ErrorsTyped' /\ BalancesTyped' => TInv'
BY DEF TInv

\* Pausing or not, and resuming or not: a flag gets the value of a formula.
LEMMA KillCheckFlags ==
    ASSUME FlagsTyped, KillCheck
    PROVE  active' \in BOOLEAN /\ killed' \in BOOLEAN
<1>1. active \in BOOLEAN /\ killed \in BOOLEAN
  BY DEF FlagsTyped
<1>2. PICK errorCount \in 0..errors, stopSeen \in StopSeen :
         LET manual == killFile \/ stopSeen
             triggers == ~manual /\ KillConditions(risk, errorCount)
         IN  \/ /\ active
                /\ killed' = (killed \/ triggers)
                /\ IF manual \/ killed'
                   THEN FlattenAndPause
                   ELSE UNCHANGED <<active, held, grace, missed>>
             \/ /\ ~active
                /\ active' = Resumable(errorCount, stopSeen)
                /\ grace' = 0
                /\ UNCHANGED <<killed, held, missed>>
  BY DEF KillCheck
<1>3. Resumable(errorCount, stopSeen) \in BOOLEAN
  BY DEF Resumable
<1>4. ASSUME NEW p, NEW q PROVE (p \/ q) \in BOOLEAN
  OBVIOUS
<1>5. active' = FALSE \/ active' = active
      \/ active' = Resumable(errorCount, stopSeen)
  BY <1>2 DEF FlattenAndPause
<1>6. killed' = killed \/ killed' \in BOOLEAN
  BY <1>2, <1>4
<1>. QED  BY <1>1, <1>3, <1>5, <1>6

LEMMA KillCheckTyped ==
    ASSUME TInv, KillCheck
    PROVE  TInv'
<1>1. FlagsTyped'
  <2>1. active' \in BOOLEAN /\ killed' \in BOOLEAN
    BY KillCheckFlags DEF TInv
  <2>2. UNCHANGED <<walletSynced, killFile, stopFlag>>
    BY DEF KillCheck, worldVars
  <2>. QED  BY <2>1, <2>2 DEF TInv, FlagsTyped
<1>2. ErrorsTyped'
  <2>1. PICK n \in 0..errors : errors' = n
    BY DEF KillCheck
  <2>. QED  BY <2>1, SafetyAssumption DEF TInv, ErrorsTyped
<1>3. BalancesTyped'
  <2>1. tracked' = tracked /\ (Flatten \/ UNCHANGED <<held, missed>>)
    BY DEF KillCheck, FlattenAndPause
  <2>. QED  BY <2>1, FlattenTyped DEF TInv, BalancesTyped
<1>. QED  BY <1>1, <1>2, <1>3, Rejoined

\* The steps that leave the world, the wallet and the errors alone, and may
\* flatten and pause.
LEMMA PausingTyped ==
    ASSUME TInv,
           UNCHANGED <<walletSynced, killFile, stopFlag, tracked, errors>>,
           active' \in {active, FALSE}, killed' \in {killed, TRUE},
           Flatten \/ UNCHANGED <<held, missed>>
    PROVE  TInv'
<1>1. FlagsTyped'
  BY DEF TInv, FlagsTyped
<1>2. ErrorsTyped'
  BY DEF TInv, ErrorsTyped
<1>3. BalancesTyped'
  BY FlattenTyped DEF TInv, BalancesTyped
<1>. QED  BY <1>1, <1>2, <1>3, Rejoined

LEMMA PhasesTyped ==
    ASSUME TInv,
           \/ SkipKillCheck \/ SkipReset \/ DailyReset
           \/ HealthCheck \/ HealthCheckFails \/ SkipHealth
           \/ TickBlocked \/ TickExecutes
    PROVE  TInv'
<1>1. /\ UNCHANGED <<walletSynced, killFile, stopFlag, tracked, errors>>
      /\ active' \in {active, FALSE} /\ killed' \in {killed, TRUE}
      /\ Flatten \/ UNCHANGED <<held, missed>>
  BY DEF SkipKillCheck, SkipReset, DailyReset, HealthCheck, HealthCheckFails,
         SkipHealth, TickBlocked, TickExecutes, FlattenAndPause,
         loopVars, worldVars
<1>. QED  BY <1>1, PausingTyped

LEMMA SyncTyped ==
    ASSUME TInv, Sync \/ TickPasses
    PROVE  TInv'
<1>1. FlagsTyped'
  <2>1. UNCHANGED <<active, killed, killFile, stopFlag>>
    BY DEF Sync, TickPasses, worldVars
  <2>2. walletSynced' \in BOOLEAN
    BY DEF TInv, FlagsTyped, Sync, TickPasses
  <2>. QED  BY <2>1, <2>2 DEF TInv, FlagsTyped
<1>2. ErrorsTyped'
  <2>1. \E m, n \in {0, 1} : RecordErrors(m + n) \/ RecordErrors(n)
    BY DEF Sync, TickPasses
  <2>2. \A m, n \in {0, 1} : m + n \in Nat /\ n \in Nat
    OBVIOUS
  <2>. QED  BY <2>1, <2>2, ErrorsRecorded DEF TInv
<1>3. BalancesTyped'
  <2>1. tracked' \in {held, tracked} /\ UNCHANGED <<held, missed>>
    BY DEF Sync, TickPasses
  <2>. QED  BY <2>1, HoldingsAreEstimates DEF TInv, BalancesTyped
<1>. QED  BY <1>1, <1>2, <1>3, Rejoined

LEMMA ExecutionTyped ==
    ASSUME TInv, ExecutionDone \/ ExecutionFailed
    PROVE  TInv'
<1>1. FlagsTyped'
  BY DEF TInv, FlagsTyped, ExecutionDone, ExecutionFailed, worldVars
<1>2. ErrorsTyped'
  <2>1. CASE ExecutionDone
    BY <2>1 DEF ExecutionDone, TInv, ErrorsTyped
  <2>2. CASE ExecutionFailed
    BY <2>2, ErrorsRecorded DEF ExecutionFailed, TInv
  <2>. QED  BY <2>1, <2>2
<1>3. BalancesTyped'
  BY DEF TInv, BalancesTyped, ExecutionDone, ExecutionFailed
<1>. QED  BY <1>1, <1>2, <1>3, Rejoined

LEMMA WorldTyped ==
    ASSUME TInv, ToggleKillFile \/ ToggleStop \/ UNCHANGED vars
    PROVE  TInv'
<1>1. FlagsTyped'
  BY DEF TInv, FlagsTyped, ToggleKillFile, ToggleStop, vars, loopVars, worldVars
<1>2. ErrorsTyped'
  BY DEF TInv, ErrorsTyped, ToggleKillFile, ToggleStop, vars, loopVars
<1>3. BalancesTyped'
  BY DEF TInv, BalancesTyped, ToggleKillFile, ToggleStop, vars, loopVars
<1>. QED  BY <1>1, <1>2, <1>3, Rejoined

\* The tracker's figures and the exchange's stay in their ranges, and the
\* error count stops just above the limit, whatever the loop goes through.
THEOREM TypeCorrect == Spec => []TypeOK
<1>1. TInv /\ [Next]_vars => TInv'
  BY KillCheckTyped, PhasesTyped, SyncTyped, ExecutionTyped, WorldTyped
     DEF Next, Loop
<1>2. IInv /\ TInv => TypeOK
  BY DEF IInv, Typed, TInv, FlagsTyped, ErrorsTyped, BalancesTyped, TypeOK
<1>. QED  BY InitTInv, <1>1, <1>2, Invariance, PTL DEF Spec
=============================================================================
