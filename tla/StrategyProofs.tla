---------------------------- MODULE StrategyProofs ----------------------------
(***************************************************************************)
(* Theorems about module Strategy, for any pairs, fees, markets and        *)
(* holdings.  A signal is good if it meets its pair's thresholds, expires  *)
(* TTL after its prices were asked for and, when it says so, is funded by  *)
(* the books.  The books change only while there is no signal.             *)
(***************************************************************************)
EXTENDS Strategy, FiniteSetTheorems, SequenceTheorems, WellFoundedInduction,
        TLAPS

Funded(s) ==
    /\ Available(tracker, BuyVenue(s.direction), QuoteOf[s.pair])
          >= QuoteSpent(s.pair, s.price)
    /\ Available(tracker, Other(BuyVenue(s.direction)), BaseOf[s.pair])
          >= BaseSpent(s.pair)

Good(s) ==
    /\ s.spread >= PairConfig[s.pair].minSpread
    /\ s.net >= PairConfig[s.pair].minProfit
    /\ s.expiry = s.asked + TTL
    /\ s.inventoryOk => Funded(s)

Decided == at \in {"chosen", "valid", "executing"}

\* Where the loop is decides what the signals are.
Loop ==
    /\ at = "waiting" => turn <= Len(PairOrder) /\ config = ThresholdsOf(Pair)
    /\ at \in {"sync", "tick"} => queue = {}
    /\ \A s \in queue : Good(s)
    /\ Decided => best \in Signals /\ Good(best)
    /\ at = "executing" => started < best.expiry /\ best.inventoryOk

IInv == TypeOK /\ Loop

----------------------------------------------------------------------------
(* Lemmas.                                                                 *)

\* The pair at a turn of the loop is one of the pairs.
LEMMA TurnIsAPair ==
    ASSUME turn \in 1..Len(PairOrder) + 1, turn <= Len(PairOrder)
    PROVE  Pair \in Pairs
  BY StrategyAssumption DEF Pair, Pairs

\* Booking keeps the books books.
LEMMA CreditType ==
    ASSUME NEW t \in Books, NEW v \in Venues, NEW a \in Assets, NEW n \in Int
    PROVE  Credit(t, v, a, n) \in Books
  <1>1. t[v][a].free + n \in Int
    BY DEF Books, Balances
  <1>2. [t[v][a] EXCEPT !.free = @ + n] \in Balances
    BY <1>1 DEF Books, Balances
  <1> QED
    BY <1>2 DEF Credit, Books

LEMMA RecordTradeType ==
    ASSUME NEW t \in Books, NEW v \in Venues, NEW side,
           NEW base \in Assets, NEW quote \in Assets,
           NEW b \in Int, NEW q \in Int, NEW fee \in Int
    PROVE  RecordTrade(t, v, side, base, quote, b, q, fee) \in Books
  <1>1. b - fee \in Int /\ -q \in Int /\ -b \in Int /\ q - fee \in Int
    OBVIOUS
  <1>2. Credit(t, v, base, b - fee) \in Books /\ Credit(t, v, base, -b) \in Books
    BY <1>1, CreditType
  <1>3. /\ Credit(Credit(t, v, base, b - fee), v, quote, -q) \in Books
        /\ Credit(Credit(t, v, base, -b), v, quote, q - fee) \in Books
    BY <1>1, <1>2, CreditType
  <1> QED
    BY <1>3 DEF RecordTrade

\* What a trade spends is a natural number.
LEMMA SpentType ==
    ASSUME NEW p \in Pairs, NEW price \in Nat
    PROVE  BaseSpent(p) \in Nat /\ QuoteSpent(p, price) \in Nat
  <1>1. PairConfig[p].size \in Nat
    BY StrategyAssumption
  <1>2. \A x, y \in Nat : x * y \in Nat
    OBVIOUS
  <1>3. BaseSpent(p) \in Nat
    BY <1>1, <1>2 DEF BaseSpent, Unit
  <1> QED
    BY <1>2, <1>3 DEF QuoteSpent

\* A checked inventory covers the trade: the margin is never negative.
LEMMA CheckedIsFunded ==
    ASSUME tracker \in Books, NEW p \in Pairs, NEW d, NEW price \in Nat, CheckInventory(p, d, price)
    PROVE  /\ Available(tracker, BuyVenue(d), QuoteOf[p]) >= QuoteSpent(p, price)
           /\ Available(tracker, Other(BuyVenue(d)), BaseOf[p]) >= BaseSpent(p)
  <1>1. QuoteSpent(p, price) \in Nat
    BY SpentType
  <1>2. Available(tracker, BuyVenue(d), QuoteOf[p]) \in Int
    <2>1. BuyVenue(d) \in Venues /\ QuoteOf[p] \in Assets
      BY StrategyAssumption DEF BuyVenue, Venues
    <2> QED
      BY <2>1 DEF Available, Books, Balances
  <1>3. \A x \in Int, y \in Nat : 100 * x >= 101 * y => x >= y
    OBVIOUS
  <1> QED
    BY <1>1, <1>2, <1>3 DEF CheckInventory

\* A deque of bounded length takes one more element and stays bounded.
LEMMA PushType ==
    ASSUME NEW S, NEW q \in Seq(S), NEW x \in S, NEW n \in Nat \ {0}, Len(q) <= n
    PROVE  LET r == Append(IF Len(q) >= n THEN Tail(q) ELSE q, x)
           IN r \in Seq(S) /\ Len(r) <= n
  <1>1. CASE Len(q) >= n
    <2>1. q # <<>>
      BY <1>1
    <2>2. Tail(q) \in Seq(S) /\ Len(Tail(q)) = Len(q) - 1
      BY <2>1, HeadTailProperties
    <2> QED
      BY <1>1, <2>2
  <1>2. CASE ~(Len(q) >= n)
    BY <1>2
  <1> QED
    BY <1>1, <1>2

----------------------------------------------------------------------------
(* The invariant holds initially and every step keeps it.                  *)

LEMMA InitInv == Init => IInv
  <1> SUFFICES ASSUME Init PROVE IInv
    OBVIOUS
  <1>1. TypeOK
    BY StrategyAssumption DEF Init, TypeOK, Phases, Pairs, Never, Prices, Signals
  <1>2. Loop
    BY DEF Init, Loop, Decided
  <1> QED
    BY <1>1, <1>2 DEF IInv

\* Goodness depends on the books only.
LEMMA GoodStays ==
    ASSUME NEW s, Good(s), UNCHANGED tracker
    PROVE  Good(s)'
  BY DEF Good, Funded

\* A step that ends the tick leaves no signal behind.
LEMMA EndTickInv ==
    ASSUME TypeOK, EndTick, TypeOK'
    PROVE  Loop'
  BY DEF EndTick, Loop, Decided

\* It keeps the types of what it changes.
LEMMA EndTickType ==
    ASSUME TypeOK, EndTick
    PROVE  /\ clock' \in 0..MaxClock
           /\ at' \in Phases
           /\ turn' \in 1..Len(PairOrder) + 1
           /\ config' \in [minSpread : Int, minProfit : Int]
           /\ asked' \in 0..MaxClock
           /\ lastSignal' \in [Pairs -> Never..MaxClock]
           /\ queue' \subseteq Signals
           /\ best' \in Signals \cup {NoSignal}
           /\ started' \in 0..MaxClock
           /\ (UNCHANGED <<memory, tracker>> => TypeOK')
  <1>1. Len(PairOrder) \in Nat /\ MaxClock \in Nat
    BY StrategyAssumption
  <1>2. turn' \in 1..Len(PairOrder) + 1 /\ started' \in 0..MaxClock
    BY <1>1 DEF EndTick
  <1>3. /\ clock' \in 0..MaxClock
        /\ at' \in Phases
        /\ config' \in [minSpread : Int, minProfit : Int]
        /\ asked' \in 0..MaxClock
        /\ lastSignal' \in [Pairs -> Never..MaxClock]
        /\ queue' \subseteq Signals
        /\ best' \in Signals \cup {NoSignal}
    BY DEF EndTick, TypeOK, Phases
  <1> QED
    BY <1>2, <1>3 DEF TypeOK, memory

\* The window of a pair's prices takes the chosen price and stays a window.
LEMMA RememberInv ==
    ASSUME IInv, at = "chosen",
           history' = [history EXCEPT ![best.pair] = Remember(@, best.price)]
    PROVE  /\ history' \in [Pairs -> Seq(Prices)]
           /\ \A p \in Pairs : Len(history'[p]) <= Window
  <1>1. best.pair \in Pairs /\ best.price \in Prices
    BY DEF IInv, Loop, Decided, Signals
  <1>2. history[best.pair] \in Seq(Prices) /\ Len(history[best.pair]) <= Window
    BY <1>1 DEF IInv, TypeOK
  <1>3. /\ Remember(history[best.pair], best.price) \in Seq(Prices)
        /\ Len(Remember(history[best.pair], best.price)) <= Window
    BY <1>1, <1>2, PushType, StrategyAssumption DEF Remember
  <1> QED
    BY <1>1, <1>3 DEF IInv, TypeOK

LEMMA StutterInv ==
    ASSUME IInv, UNCHANGED vars
    PROVE  IInv'
  <1> USE DEF vars, market, memory
  <1>1. TypeOK'
    BY DEF IInv, TypeOK
  <1>2. Loop'
    BY DEF IInv, Loop, Decided, Good, Funded, Pair
  <1> QED
    BY <1>1, <1>2 DEF IInv

LEMMA TickInv ==
    ASSUME IInv, Tick
    PROVE  IInv'
  <1> USE DEF Tick, market, memory
  <1>1. TypeOK'
    BY StrategyAssumption, SMTT(30) DEF IInv, TypeOK
  <1>2. Loop'
    BY DEF IInv, Loop, Decided, Good, Funded, Pair
  <1> QED
    BY <1>1, <1>2 DEF IInv

LEMMA SyncInv ==
    ASSUME IInv, Sync
    PROVE  IInv'
  <1> USE DEF Sync, market, memory
  <1>1. tracker' \in Books
    BY StrategyAssumption, SMTT(30) DEF IInv, TypeOK, Books
  <1>2. TypeOK'
    BY <1>1 DEF IInv, TypeOK, Phases
  <1>3. Loop'
    BY DEF IInv, Loop, Decided
  <1> QED
    BY <1>2, <1>3 DEF IInv

LEMMA LoopStepInv ==
    ASSUME IInv, SkipTick \/ StartTick \/ Ask
    PROVE  IInv'
  <1>1. CASE SkipTick
    <2> USE <1>1 DEF SkipTick, market, memory
    <2>1. TypeOK'
      BY DEF IInv, TypeOK, Phases
    <2>2. Loop'
      BY DEF IInv, Loop, Decided
    <2> QED
      BY <2>1, <2>2 DEF IInv
  <1>2. CASE StartTick
    <2> USE <1>2 DEF StartTick, memory
    <2>1. TypeOK'
      BY DEF IInv, TypeOK, Phases
    <2>2. Loop'
      BY DEF Loop, Decided
    <2> QED
      BY <2>1, <2>2 DEF IInv
  <1>3. CASE Ask
    <2> USE <1>3 DEF Ask, memory
    <2>1. Pair \in Pairs
      BY TurnIsAPair DEF IInv, TypeOK
    <2>2. config' \in [minSpread : Int, minProfit : Int]
      BY <2>1, StrategyAssumption DEF ThresholdsOf
    <2>3. turn' \in 1..Len(PairOrder) + 1 /\ asked' \in 0..MaxClock
      <3>1. Len(PairOrder) \in Nat
        BY StrategyAssumption
      <3> QED
        BY <3>1 DEF IInv, TypeOK
    <2>6. at' \in Phases
      BY DEF IInv, TypeOK, Phases
    <2>7. TypeOK'
      BY <2>2, <2>3, <2>6 DEF IInv, TypeOK
    <2>4. \A s \in queue' : Good(s)'
      BY GoodStays DEF IInv, Loop
    <2>5. Loop'
      BY <2>4 DEF IInv, Loop, Decided, Pair
    <2> QED
      BY <2>7, <2>5 DEF IInv
  <1> QED
    BY <1>1, <1>2, <1>3

\* The step in which a signal is made: its pair's thresholds are the ones in
\* force, and what it says about the inventory is true of the books.
LEMMA SignalForInv ==
    ASSUME IInv, NEW q \in Quotes, SignalFor(q)
    PROVE  IInv'
  <1> DEFINE s == Signal(Pair, q)
  <1>1. Pair \in Pairs /\ turn <= Len(PairOrder) /\ config = ThresholdsOf(Pair)
    BY TurnIsAPair DEF SignalFor, IInv, TypeOK, Loop
  <1>2. /\ q.price \in Nat /\ q.price \in Prices /\ q.a \in Int /\ q.b \in Int
        /\ PairConfig[Pair].size * q.price \in Int
    <2>1. q.price \in Nat /\ q.a \in Int /\ q.b \in Int /\ q.price \in Prices
      BY StrategyAssumption DEF Prices
    <2>2. PairConfig[Pair].size \in Nat
      BY <1>1, StrategyAssumption
    <2> QED
      BY <2>1, <2>2
  <1>3. s \in Signals
    <2>1. Spread(q) \in Int /\ Direction(q) \in Directions
      BY <1>2 DEF Spread, Direction, Directions
    <2>2. Net(DefaultFees, PairConfig[Pair].size * q.price, Spread(q)) \in Int
      <3>1. DefaultFees.feeBps \in Int /\ DefaultFees.gas \in Int
        BY StrategyAssumption
      <3>2. \A x, y, f, g \in Int : x * (y - f) - g \in Int
        OBVIOUS
      <3> QED
        BY <1>2, <2>1, <3>1, <3>2 DEF Net
    <2>3. asked + TTL \in Nat /\ asked \in 0..MaxClock /\ clock \in 0..MaxClock
      BY StrategyAssumption DEF IInv, TypeOK
    <2>4. /\ CheckInventory(Pair, Direction(q), q.price) \in BOOLEAN
          /\ (PairConfig[Pair].size * q.price <= MaxPosition) \in BOOLEAN
      BY DEF CheckInventory
    <2> QED
      BY <1>1, <1>2, <2>1, <2>2, <2>3, <2>4 DEF Signal, Signals
  <1>4. Good(s)
    <2>1. s.spread >= PairConfig[Pair].minSpread /\ s.net >= PairConfig[Pair].minProfit
      BY <1>1 DEF SignalFor, Worthwhile, ThresholdsOf
    <2>2. s.expiry = s.asked + TTL /\ s.pair = Pair
      BY DEF Signal
    <2>3. s.inventoryOk => Funded(s)
      BY <1>1, <1>2, CheckedIsFunded DEF Signal, Funded, IInv, TypeOK
    <2> QED
      BY <2>1, <2>2, <2>3 DEF Good
  <1>5. TypeOK'
    <2>1. turn' \in 1..Len(PairOrder) + 1 /\ asked' \in 0..MaxClock
      <3>1. Len(PairOrder) \in Nat /\ MaxClock \in Nat
        BY StrategyAssumption
      <3> QED
        BY <1>1, <3>1 DEF IInv, TypeOK, SignalFor, NextPair
    <2>2. lastSignal' \in [Pairs -> Never..MaxClock]
      <3>1. asked \in Never..MaxClock
        BY StrategyAssumption DEF IInv, TypeOK, Never
      <3> QED
        BY <3>1 DEF IInv, TypeOK, SignalFor
    <2>3. queue' \subseteq Signals
      BY <1>3 DEF IInv, TypeOK, SignalFor
    <2> QED
      BY <2>1, <2>2, <2>3 DEF IInv, TypeOK, SignalFor, NextPair, memory, Phases
  <1>6. \A r \in queue' : Good(r)'
    <2>1. \A r \in queue' : Good(r)
      BY <1>4 DEF IInv, Loop, SignalFor
    <2>2. UNCHANGED tracker
      BY DEF SignalFor
    <2> QED
      BY <2>1, <2>2, GoodStays
  <1>7. Loop'
    BY <1>6 DEF SignalFor, NextPair, Loop, Decided
  <1> QED
    BY <1>5, <1>7 DEF IInv

LEMMA NoSignalForInv ==
    ASSUME IInv, NoSignalFor
    PROVE  IInv'
  <1>1. turn' \in 1..Len(PairOrder) + 1 /\ asked' \in 0..MaxClock
    <2>1. Len(PairOrder) \in Nat /\ MaxClock \in Nat
      BY StrategyAssumption
    <2>2. turn <= Len(PairOrder)
      BY DEF IInv, Loop, NoSignalFor
    <2> QED
      BY <2>1, <2>2 DEF IInv, TypeOK, NoSignalFor, NextPair
  <1>2. TypeOK'
    BY <1>1 DEF IInv, TypeOK, NoSignalFor, NextPair, memory, Phases
  <1>3. \A s \in queue' : Good(s)'
    <2>1. \A s \in queue' : Good(s)
      BY DEF IInv, Loop, NoSignalFor
    <2> QED
      BY <2>1, GoodStays DEF NoSignalFor
  <1>4. Loop'
    BY <1>3 DEF NoSignalFor, NextPair, Loop, Decided
  <1> QED
    BY <1>2, <1>4 DEF IInv

\* A chosen signal is one of the queue.
LEMMA ChooseInv ==
    ASSUME IInv, Choose
    PROVE  IInv'
  <1>1. best' \in queue
    BY DEF Choose
  <1>2. TypeOK'
    BY <1>1 DEF IInv, TypeOK, Choose, market, memory, Phases
  <1>3. /\ \A s \in queue' : Good(s)'
        /\ Good(best)'
    <2>1. Good(best') /\ \A s \in queue : Good(s)
      BY <1>1 DEF IInv, Loop
    <2>2. UNCHANGED tracker /\ queue' = queue
      BY DEF Choose, market
    <2>3. \A s \in queue' : Good(s)'
      BY <2>1, <2>2, GoodStays
    <2>4. Good(best)'
      BY <2>1, <2>2 DEF Good, Funded
    <2> QED
      BY <2>3, <2>4
  <1>4. best' \in Signals
    BY <1>1 DEF IInv, TypeOK
  <1>5. Loop'
    BY <1>3, <1>4 DEF Choose, Loop, Decided
  <1> QED
    BY <1>2, <1>5 DEF IInv

LEMMA NoCandidateInv ==
    ASSUME IInv, NoCandidate
    PROVE  IInv'
  <1>1. TypeOK'
    BY EndTickType DEF IInv, NoCandidate, memory
  <1> QED
    BY <1>1, EndTickInv DEF IInv, NoCandidate

LEMMA ValidationInv ==
    ASSUME IInv, RejectSignal \/ RejectPrice \/ AcceptPrice \/ Veto
    PROVE  IInv'
  <1>1. CASE RejectSignal \/ Veto
    <2>1. TypeOK'
      BY <1>1, EndTickType DEF IInv, RejectSignal, Veto, memory
    <2> QED
      BY <1>1, <2>1, EndTickInv DEF IInv, RejectSignal, Veto
  <1>2. CASE RejectPrice
    <2>1. rejected' \in [Pairs -> Nat]
      <3>1. best.pair \in Pairs
        BY <1>2 DEF RejectPrice, IInv, Loop, Decided, Signals
      <3> QED
        BY <1>2, <3>1 DEF RejectPrice, IInv, TypeOK
    <2>2. history' \in [Pairs -> Seq(Prices)] /\ \A p \in Pairs : Len(history'[p]) <= Window
      BY <1>2, RememberInv DEF RejectPrice
    <2>3. TypeOK'
      BY <1>2, <2>1, <2>2, EndTickType DEF RejectPrice, IInv, TypeOK
    <2> QED
      BY <1>2, <2>3, EndTickInv DEF IInv, RejectPrice
  <1>3. CASE AcceptPrice
    <2>1. rejected' \in [Pairs -> Nat]
      BY <1>3 DEF AcceptPrice, IInv, TypeOK
    <2>2. history' \in [Pairs -> Seq(Prices)] /\ \A p \in Pairs : Len(history'[p]) <= Window
      BY <1>3, RememberInv DEF AcceptPrice
    <2>3. TypeOK'
      BY <1>3, <2>1, <2>2 DEF AcceptPrice, IInv, TypeOK, market, Phases
    <2>4. Loop'
      BY <1>3, GoodStays DEF AcceptPrice, IInv, Loop, Decided, market, Good, Funded
    <2> QED
      BY <2>3, <2>4 DEF IInv
  <1> QED
    BY <1>1, <1>2, <1>3

\* The deque of results takes the outcome of the chosen signal.
LEMMA RecordResultType ==
    ASSUME IInv, Decided, NEW success \in BOOLEAN, RecordResult(success)
    PROVE  /\ results' \in Seq([pair : Pairs, success : BOOLEAN])
           /\ Len(results') <= ResultsKept
  <1>1. [pair |-> best.pair, success |-> success] \in [pair : Pairs, success : BOOLEAN]
    BY DEF IInv, Loop, Signals
  <1>2. results \in Seq([pair : Pairs, success : BOOLEAN]) /\ Len(results) <= ResultsKept
    BY DEF IInv, TypeOK
  <1> DEFINE S == [pair : Pairs, success : BOOLEAN]
             x == [pair |-> best.pair, success |-> success]
  <1>3. ResultsKept \in Nat \ {0}
    BY StrategyAssumption
  <1>4. results' = Append(IF Len(results) >= ResultsKept THEN Tail(results)
                         ELSE results, x)
    BY DEF RecordResult
  <1>5. x \in S /\ results \in Seq(S) /\ Len(results) <= ResultsKept
    BY <1>1, <1>2
  <1> HIDE DEF S, x
  <1>6. results' \in Seq(S) /\ Len(results') <= ResultsKept
    BY <1>3, <1>4, <1>5, PushType
  <1> QED
    BY <1>6 DEF S

LEMMA ExecutorInv ==
    ASSUME IInv, ExecutorRefuses \/ ExecutorAccepts
    PROVE  IInv'
  <1>1. CASE ExecutorRefuses
    <2>1. Decided
      BY <1>1 DEF ExecutorRefuses, Decided
    <2>2. /\ results' \in Seq([pair : Pairs, success : BOOLEAN])
          /\ Len(results') <= ResultsKept
      BY <1>1, <2>1, RecordResultType DEF ExecutorRefuses
    <2>3. TypeOK'
      BY <1>1, <2>2, EndTickType DEF ExecutorRefuses, IInv, TypeOK
    <2> QED
      BY <1>1, <2>3, EndTickInv DEF ExecutorRefuses, IInv
  <1>2. CASE ExecutorAccepts
    <2>1. TypeOK'
      BY <1>2 DEF ExecutorAccepts, IInv, TypeOK, market, memory, Phases
    <2>2. Loop'
      BY <1>2, GoodStays
      DEF ExecutorAccepts, IsValid, IInv, Loop, Decided, market, Good, Funded
    <2> QED
      BY <2>1, <2>2 DEF IInv
  <1> QED
    BY <1>1, <1>2

LEMMA BookLegType ==
    ASSUME IInv, Decided, NEW t \in Books, NEW v \in Venues
    PROVE  BookLeg(t, v) \in Books
  <1>1. best.pair \in Pairs /\ best.price \in Nat
    <2>1. best \in Signals
      BY DEF IInv, Loop
    <2>2. best.pair \in Pairs /\ best.price \in Prices
      BY <2>1 DEF Signals
    <2>3. Prices \subseteq Nat
      BY StrategyAssumption DEF Prices
    <2> QED
      BY <2>2, <2>3
  <1>2. BaseOf[best.pair] \in Assets /\ QuoteOf[best.pair] \in Assets
    BY <1>1, StrategyAssumption
  <1>3. BaseSpent(best.pair) \in Nat /\ QuoteSpent(best.pair, best.price) \in Nat
    BY <1>1, SpentType
  <1>4. \A n \in Nat : n \in Int /\ n \div 1000 \in Int
    OBVIOUS
  <1> DEFINE side == IF v = BuyVenue(best.direction) THEN "buy" ELSE "sell"
             base == BaseSpent(best.pair)
             quote == QuoteSpent(best.pair, best.price)
             fee == (IF side = "buy" THEN base ELSE quote) \div 1000
  <1>5. base \in Int /\ quote \in Int /\ fee \in Int
    BY <1>3, <1>4
  <1> HIDE DEF side, base, quote, fee
  <1>6. RecordTrade(t, v, side, BaseOf[best.pair], QuoteOf[best.pair], base, quote, fee)
          \in Books
    BY <1>2, <1>5, RecordTradeType
  <1> QED
    BY <1>6 DEF BookLeg, side, base, quote, fee

LEMMA ExecutionEndsInv ==
    ASSUME IInv, ExecutionEnds
    PROVE  IInv'
  <1>1. Decided
    BY DEF ExecutionEnds, Decided
  <1>2. tracker \in Books /\ "cex" \in Venues /\ "wallet" \in Venues
    BY DEF IInv, TypeOK, Venues
  <1>3. \A t \in Books, v \in Venues : BookLeg(t, v) \in Books
    BY <1>1, BookLegType
  <1>4. tracker' \in Books
    BY <1>2, <1>3 DEF ExecutionEnds
  <1>5. \E success \in BOOLEAN : RecordResult(success)
    BY DEF ExecutionEnds
  <1>6. /\ results' \in Seq([pair : Pairs, success : BOOLEAN])
        /\ Len(results') <= ResultsKept
    BY <1>1, <1>5, RecordResultType
  <1>7. TypeOK'
    BY <1>4, <1>6, EndTickType DEF ExecutionEnds, IInv, TypeOK
  <1> QED
    BY <1>7, EndTickInv DEF ExecutionEnds, IInv

LEMMA StepInv == IInv /\ [Next]_vars => IInv'
  <1> SUFFICES ASSUME IInv, [Next]_vars PROVE IInv'
    OBVIOUS
  <1> USE StutterInv, TickInv, SyncInv, LoopStepInv, NoSignalForInv, SignalForInv,
          NoCandidateInv, ChooseInv, ValidationInv, ExecutorInv, ExecutionEndsInv
  <1>1. CASE UNCHANGED vars
    BY <1>1
  <1>2. CASE Next
    BY <1>2 DEF Next
  <1> QED
    BY <1>1, <1>2

\* The inductive invariant: while there are signals they are good, and the
\* chosen one is good until its execution has ended.
THEOREM Invariance == Spec => []IInv
  BY InitInv, StepInv, PTL DEF Spec

\* Type correctness, for every list of pairs and every market.
THEOREM TypeCorrect == Spec => []TypeOK
  <1>1. IInv => TypeOK
    BY DEF IInv
  <1> QED
    BY <1>1, Invariance, PTL

\* However the shared generator is switched from pair to pair, a signal meets
\* the thresholds of its own pair.
THEOREM OwnThresholds == Spec => []ThresholdsOfThePair
  <1>1. IInv => ThresholdsOfThePair
    BY DEF IInv, Loop, Good, ThresholdsOfThePair
  <1> QED
    BY <1>1, Invariance, PTL

\* However long the other pairs, the scores and the validation take, no
\* execution starts on prices older than the time to live.
THEOREM FreshPrices == Spec => []PricesAreFresh
  <1>1. IInv => PricesAreFresh
    <2> SUFFICES ASSUME IInv, at = "executing" PROVE started - best.asked < TTL
      BY DEF PricesAreFresh
    <2>1. started < best.expiry /\ best.expiry = best.asked + TTL
      BY DEF IInv, Loop, Decided, Good
    <2>2. started \in Int /\ best.asked \in Int /\ TTL \in Int
      BY StrategyAssumption DEF IInv, TypeOK, Loop, Decided, Signals
    <2> QED
      BY <2>1, <2>2
  <1> QED
    BY <1>1, Invariance, PTL

\* What the legs of an execution spend is in the books when it starts.
THEOREM FundedTrades == Spec => []TradesAreFunded
  <1>1. IInv => TradesAreFunded
    BY DEF IInv, Loop, Decided, Good, Funded, TradesAreFunded
  <1> QED
    BY <1>1, Invariance, PTL

----------------------------------------------------------------------------
(***************************************************************************)
(* Refused prices.  A price that was refused is remembered, so the prices  *)
(* refused in a row, all the same, are the last ones of the window; when   *)
(* they fill it, their average is the price itself.                        *)
(***************************************************************************)

RefusedAreLast ==
    \A p \in Pairs :
       LET h == history[p]
       IN  /\ rejected[p] <= Len(h)
           /\ \A i \in 1..Len(h) :
                 i > Len(h) - rejected[p] => h[i] = h[Len(h)]

\* The function that the fold of SumOf defines by recursion over sets.
SumsOf(prices, f) ==
    f = [s \in SUBSET DOMAIN prices |->
            IF s = {} THEN 0
            ELSE LET i == Max(s) IN f[s \ {i}] + prices[i]]

LEMMA SumFold ==
    ASSUME NEW prices
    PROVE  SumOf(prices) = (CHOOSE f : SumsOf(prices, f))[DOMAIN prices]
BY DEF SumOf, FoldLeft, MapThenFoldSet, SumsOf

\* A non-empty set of naturals has a least element.
LEMMA LeastNat ==
    ASSUME NEW T \in SUBSET Nat, T # {}
    PROVE  \E n \in T : \A m \in T : n <= m
<1> DEFINE Less == OpToRel(<, Nat)
<1>1. IsWellFoundedOn(Less, Nat)
  BY NatLessThanWellFounded
<1>2. ASSUME NEW m \in Nat, NEW k \in Nat PROVE <<m, k>> \in Less <=> m < k
  BY DEF OpToRel
<1> HIDE DEF Less
<1>3. PICK n \in T : \A m \in T : ~ (<<m, n>> \in Less)
  BY <1>1, WFMin
<1>4. \A m \in T : n <= m
  <2> TAKE m \in T
  <2>1. m \in Nat /\ n \in Nat
    OBVIOUS
  <2>2. ~ (m < n)
    BY <1>2, <1>3, <2>1
  <2> QED BY <2>1, <2>2
<1> QED BY <1>4

\* A non-empty set of numbers up to n has a greatest one.
LEMMA MaxOf ==
    ASSUME NEW n \in Nat, NEW s \in SUBSET (1..n), s # {}
    PROVE  Max(s) \in s /\ \A i \in s : Max(s) >= i
<1> DEFINE T == {n - i : i \in s}
<1>0. \A i \in s : i \in Int /\ n - i \in Nat
  OBVIOUS
<1>1. T \in SUBSET Nat /\ T # {}
  <2>1. T \in SUBSET Nat
    BY <1>0
  <2>2. PICK i \in s : TRUE
    OBVIOUS
  <2>3. n - i \in T
    OBVIOUS
  <2> QED BY <2>1, <2>3
<1>2. PICK m \in T : \A k \in T : m <= k
  BY <1>1, LeastNat
<1>3. PICK x \in s : m = n - x
  BY <1>2
<1>4. ASSUME NEW i \in s PROVE x >= i
  <2>1. m <= n - i
    BY <1>2
  <2>2. x \in Int /\ i \in Int
    BY <1>0
  <2> QED BY <1>3, <2>1, <2>2
<1> QED BY <1>4 DEF Max

\* A list of equal prices has a sum, and it is the product.
LEMMA EqualPricesHaveSum ==
    ASSUME NEW n \in Nat, NEW price \in Nat, NEW prices,
           DOMAIN prices = 1..n, \A i \in 1..n : prices[i] = price
    PROVE  \E f : SumsOf(prices, f)
<1> DEFINE f == [s \in SUBSET (1..n) |-> Cardinality(s) * price]
<1>1. ASSUME NEW s \in SUBSET (1..n)
      PROVE  f[s] = IF s = {} THEN 0
                    ELSE LET i == Max(s) IN f[s \ {i}] + prices[i]
  <2>1. IsFiniteSet(s)
    <3>1. IsFiniteSet(1..n)
      BY FS_Interval
    <3> QED BY <3>1, FS_Subset
  <2>2. CASE s = {}
    <3>1. Cardinality(s) = 0
      BY <2>2, FS_EmptySet
    <3> QED BY <2>2, <3>1
  <2>3. CASE s # {}
    <3>1. PICK i \in s : i = Max(s)
      BY <2>3, MaxOf
    <3>2. PICK c \in Nat : c = Cardinality(s \ {i})
      BY <2>1, FS_RemoveElement, FS_CardinalityType
    <3>3. Cardinality(s) \in Nat /\ Cardinality(s \ {i}) = Cardinality(s) - 1
      BY <2>1, FS_RemoveElement, FS_CardinalityType
    <3>4. Cardinality(s) = c + 1
      BY <3>2, <3>3
    <3>5. f[s] = (c + 1) * price /\ f[s \ {i}] = c * price /\ prices[i] = price
      BY <3>2, <3>4
    <3>6. (c + 1) * price = c * price + price
      OBVIOUS
    <3> HIDE DEF f
    <3> QED BY <2>3, <3>1, <3>5, <3>6
  <2> QED BY <2>2, <2>3
<1>2. f = [s \in SUBSET DOMAIN prices |->
             IF s = {} THEN 0 ELSE LET i == Max(s) IN f[s \ {i}] + prices[i]]
  BY <1>1
<1> HIDE DEF f
<1> QED BY <1>2 DEF SumsOf

LEMMA SumOfEqualPrices ==
    ASSUME NEW n \in Nat, NEW price \in Nat, NEW prices,
           DOMAIN prices = 1..n, \A i \in 1..n : prices[i] = price
    PROVE  SumOf(prices) = n * price
<1>1. PICK f : f = CHOOSE g : SumsOf(prices, g)
  OBVIOUS
<1>2. SumsOf(prices, f)
  BY <1>1, EqualPricesHaveSum
<1>3. \A s \in SUBSET (1..n) :
         f[s] = IF s = {} THEN 0
                ELSE LET i == Max(s) IN f[s \ {i}] + prices[i]
  BY <1>2 DEF SumsOf
<1> DEFINE bad == {k \in 0..n : f[1..k] # k * price}
<1>4. bad = {}
  <2> SUFFICES ASSUME bad # {} PROVE FALSE
    OBVIOUS
  <2>1. PICK k \in bad : \A j \in bad : k <= j
    <3>1. bad \in SUBSET Nat
      OBVIOUS
    <3> HIDE DEF bad
    <3> QED BY <3>1, LeastNat
  <2>2. CASE k = 0
    <3>1. 1..k = {} /\ 0 * price = 0
      BY <2>2
    <3>2. f[{}] = 0
      BY <1>3
    <3> QED BY <2>1, <2>2, <3>1, <3>2
  <2>3. CASE k # 0
    <3>1. k \in 1..n /\ k - 1 \in 0..n /\ k - 1 \notin bad
      BY <2>1, <2>3
    <3>2. f[1..k - 1] = (k - 1) * price
      BY <3>1
    <3>3. Max(1..k) = k
      <4>1. 1..k \subseteq 1..n /\ k \in 1..k
        BY <3>1
      <4>2. Max(1..k) \in 1..k /\ Max(1..k) >= k
        BY <4>1, MaxOf
      <4> QED BY <3>1, <4>2
    <3>4. (1..k) \ {k} = 1..k - 1
      BY <3>1
    <3>5. f[1..k] = f[1..k - 1] + prices[k]
      <4>1. 1..k \subseteq 1..n /\ k \in 1..k
        BY <3>1
      <4> QED BY <1>3, <3>3, <3>4, <4>1
    <3>6. (k - 1) * price + price = k * price
      BY <3>1
    <3> QED BY <2>1, <3>1, <3>2, <3>5, <3>6
  <2> QED BY <2>2, <2>3
<1>5. f[1..n] = n * price
  BY <1>4
<1> QED BY <1>1, <1>5, SumFold

\* A price that fills the memory deviates from nothing.
LEMMA FilledMemoryAccepts ==
    ASSUME NEW price \in Nat, NEW prices \in Seq(Nat),
           \A i \in 1..Len(prices) : prices[i] = price
    PROVE  ~Deviates(price, prices)
<1>1. Len(prices) \in Nat /\ DOMAIN prices = 1..Len(prices)
  BY LenProperties
<1>2. PICK total \in Nat : total = Len(prices) * price
  BY <1>1
<1>3. SumOf(prices) = total
  BY <1>1, <1>2, SumOfEqualPrices
<1>4. Distance(total, total) = 0
  BY DEF Distance
<1> QED BY <1>2, <1>3, <1>4 DEF Deviates

\* What the memory holds once a price has been remembered.
LEMMA Remembered ==
    ASSUME NEW prices \in Seq(Nat), Len(prices) <= Window, NEW price \in Nat,
           NEW kept, kept = Remember(prices, price)
    PROVE  /\ Len(kept) \in Nat /\ Len(kept) >= 1 /\ kept[Len(kept)] = price
           /\ Len(kept) = IF Len(prices) < Window THEN Len(prices) + 1
                          ELSE Len(prices)
           /\ \A i \in 1..Len(kept) - 1 :
                 LET j == IF Len(prices) < Window THEN i ELSE i + 1
                 IN  j \in 1..Len(prices) /\ kept[i] = prices[j]
<1> DEFINE n == Len(prices)
<1>1. n \in Nat /\ Window \in Nat /\ Window >= 1 /\ n <= Window
  BY LenProperties, StrategyAssumption
<1>2. CASE n < Window
  <2>1. kept = Append(prices, price)
    BY <1>1, <1>2 DEF Remember
  <2>2. /\ Len(kept) = n + 1 /\ kept[n + 1] = price
        /\ \A i \in 1..n : kept[i] = prices[i]
    BY <2>1, AppendProperties
  <2> HIDE DEF n
  <2>3. Len(kept) - 1 = n
    BY <1>1, <2>2
  <2> QED BY <1>1, <1>2, <2>2, <2>3 DEF n
<1>3. CASE ~(n < Window)
  <2>1. PICK rest : rest = Tail(prices)
    OBVIOUS
  <2>2. prices # <<>>
    BY <1>1, <1>3
  <2>3. /\ rest \in Seq(Nat) /\ Len(rest) = n - 1
        /\ \A i \in 1..Len(rest) : rest[i] = prices[i + 1]
    BY <2>1, <2>2, HeadTailProperties
  <2>4. kept = Append(rest, price)
    BY <1>1, <1>3, <2>1 DEF Remember
  <2>5. /\ Len(kept) = Len(rest) + 1 /\ kept[Len(rest) + 1] = price
        /\ \A i \in 1..Len(rest) : kept[i] = rest[i]
    BY <2>3, <2>4, AppendProperties
  <2> HIDE DEF n
  <2>6. Len(kept) = n /\ Len(rest) = Len(kept) - 1 /\ kept[n] = price
    BY <1>1, <2>3, <2>5
  <2>7. \A i \in 1..Len(kept) - 1 : i + 1 \in 1..n /\ kept[i] = prices[i + 1]
    BY <1>1, <2>3, <2>5, <2>6
  <2> QED BY <1>1, <1>3, <2>6, <2>7 DEF n
<1> QED BY <1>2, <1>3

\* The memory of one pair, and how often its last price was refused.
RefusedLast(prices, times) ==
    /\ times <= Len(prices)
    /\ \A i \in 1..Len(prices) :
          i > Len(prices) - times => prices[i] = prices[Len(prices)]

LEMMA RefusalRemembered ==
    ASSUME NEW prices \in Seq(Nat), Len(prices) <= Window,
           NEW times \in Nat, RefusedLast(prices, times),
           NEW price \in Nat, Deviates(price, prices)
    PROVE  RefusedLast(Remember(prices, price),
                       IF price = Last(prices) THEN times + 1 ELSE 1)
<1> DEFINE n == Len(prices)
<1>1. n \in Nat /\ Window \in Nat /\ n >= 1 /\ n <= Window
  BY LenProperties, EmptySeq, StrategyAssumption DEF Deviates
<1>2. PICK kept : kept = Remember(prices, price)
  OBVIOUS
<1>3. PICK m \in Nat : m = Len(kept)
  BY <1>2, Remembered
<1>4. /\ m >= 1 /\ kept[m] = price
      /\ m = IF n < Window THEN n + 1 ELSE n
      /\ \A i \in 1..m - 1 :
            LET j == IF n < Window THEN i ELSE i + 1
            IN  j \in 1..n /\ kept[i] = prices[j]
  BY <1>2, <1>3, Remembered
<1>5. Last(prices) = prices[n]
  BY DEF Last
<1>6. /\ times <= n
      /\ \A i \in 1..n : i > n - times => prices[i] = prices[n]
  BY DEF RefusedLast
<1> HIDE DEF n
<1>7. CASE price # Last(prices)
  <2>1. 1 <= m /\ \A i \in 1..m : i > m - 1 => kept[i] = kept[m]
    BY <1>4
  <2> QED BY <1>2, <1>3, <1>7, <2>1 DEF RefusedLast
<1>8. CASE price = Last(prices)
  <2>1. price = prices[n]
    BY <1>5, <1>8
  <2>2. times + 1 <= m
    <3>1. CASE n < Window
      BY <1>1, <1>4, <1>6, <3>1
    <3>2. CASE ~(n < Window)
      <4> SUFFICES ASSUME times = n PROVE FALSE
        BY <1>1, <1>4, <1>6, <3>2
      <4>1. \A i \in 1..n : prices[i] = price
        BY <1>1, <1>6, <2>1
      <4>2. ~Deviates(price, prices)
        BY <4>1, FilledMemoryAccepts DEF n
      <4> QED BY <4>2
    <3> QED BY <3>1, <3>2
  <2>3. ASSUME NEW i \in 1..m, i > m - (times + 1) PROVE kept[i] = kept[m]
    <3>1. CASE i = m
      BY <3>1
    <3>2. CASE i # m
      <4> DEFINE j == IF n < Window THEN i ELSE i + 1
      <4>1. i \in 1..m - 1
        BY <3>2
      <4>2. j \in 1..n /\ kept[i] = prices[j]
        BY <1>4, <4>1
      <4>3. j > n - times
        BY <1>1, <1>4, <2>3, <4>1
      <4> HIDE DEF j
      <4> QED BY <1>4, <1>6, <2>1, <4>2, <4>3
    <3> QED BY <3>1, <3>2
  <2> QED BY <1>2, <1>3, <1>8, <2>2, <2>3 DEF RefusedLast
<1> QED BY <1>7, <1>8

LEMMA AcceptanceRemembered ==
    ASSUME NEW prices \in Seq(Nat), Len(prices) <= Window, NEW price \in Nat
    PROVE  RefusedLast(Remember(prices, price), 0)
<1>1. PICK kept : kept = Remember(prices, price)
  OBVIOUS
<1>2. PICK m \in Nat : m = Len(kept)
  BY <1>1, Remembered
<1> QED BY <1>1, <1>2 DEF RefusedLast

LEMMA RefusedAreLastStep == IInv /\ RefusedAreLast /\ [Next]_vars => RefusedAreLast'
<1> SUFFICES ASSUME IInv, RefusedAreLast, [Next]_vars PROVE RefusedAreLast'
  OBVIOUS
<1>1. CASE UNCHANGED <<history, rejected>>
  BY <1>1 DEF RefusedAreLast
<1>2. ASSUME at = "chosen"
      PROVE  /\ best.pair \in Pairs /\ best.price \in Nat
             /\ history \in [Pairs -> Seq(Prices)] /\ rejected \in [Pairs -> Nat]
             /\ \A p \in Pairs : /\ history[p] \in Seq(Nat)
                                 /\ Len(history[p]) <= Window
                                 /\ rejected[p] \in Nat
                                 /\ RefusedLast(history[p], rejected[p])
  <2>1. Prices \subseteq Nat
    BY StrategyAssumption DEF Prices
  <2>2. best.pair \in Pairs /\ best.price \in Prices
    BY <1>2 DEF IInv, Loop, Decided, Signals
  <2>3. ASSUME NEW q \in Seq(Prices) PROVE q \in Seq(Nat)
    <3>1. /\ Len(q) \in Nat /\ q = [i \in 1..Len(q) |-> q[i]]
          /\ \A i \in 1..Len(q) : q[i] \in Nat
      BY <2>1
    <3> QED BY <3>1
  <2>4. \A p \in Pairs : history[p] \in Seq(Nat)
    BY <2>3 DEF IInv, TypeOK
  <2> QED BY <2>1, <2>2, <2>4 DEF IInv, TypeOK, RefusedAreLast, RefusedLast
<1>3. ASSUME at = "chosen", NEW times,
             history' = [history EXCEPT ![best.pair] = Remember(@, best.price)],
             rejected' = [rejected EXCEPT ![best.pair] = times],
             RefusedLast(Remember(history[best.pair], best.price), times)
      PROVE  RefusedAreLast'
  <2>1. ASSUME NEW p \in Pairs
        PROVE  RefusedLast(history'[p], rejected'[p])
    <3>1. CASE p = best.pair
      BY <1>2, <1>3, <3>1
    <3>2. CASE p # best.pair
      BY <1>2, <1>3, <3>2
    <3> QED BY <3>1, <3>2
  <2> QED BY <2>1 DEF RefusedAreLast, RefusedLast
<1>4. CASE RejectPrice
  BY <1>2, <1>3, <1>4, RefusalRemembered DEF RejectPrice
<1>5. CASE AcceptPrice
  BY <1>2, <1>3, <1>5, AcceptanceRemembered DEF AcceptPrice
<1>6. CASE ~RejectPrice /\ ~AcceptPrice
  <2>1. UNCHANGED <<history, rejected>>
    BY <1>6
    DEF Next, vars, memory, Tick, Sync, SkipTick, StartTick, Ask, NoSignalFor,
        SignalFor, NoCandidate, Choose, RejectSignal, Veto, ExecutorRefuses,
        ExecutorAccepts, ExecutionEnds
  <2> QED BY <1>1, <2>1
<1> QED BY <1>4, <1>5, <1>6

\* A price that has really moved and stays is refused Window times in a row
\* at most, whatever the window and the prices.
THEOREM LastingPrices == Spec => []LastingPriceIsAccepted
<1>1. Init => RefusedAreLast
  BY DEF Init, RefusedAreLast
<1>2. IInv /\ RefusedAreLast /\ [Next]_vars => RefusedAreLast'
  BY RefusedAreLastStep
<1>3. IInv /\ RefusedAreLast => LastingPriceIsAccepted
  <2> SUFFICES ASSUME IInv, RefusedAreLast, NEW p \in Pairs
               PROVE  rejected[p] <= Window
    BY DEF LastingPriceIsAccepted
  <2>1. /\ rejected[p] \in Nat /\ rejected[p] <= Len(history[p])
        /\ Len(history[p]) <= Window /\ Len(history[p]) \in Nat
    BY LenProperties DEF IInv, TypeOK, RefusedAreLast
  <2>2. Window \in Nat
    BY StrategyAssumption
  <2> QED BY <2>1, <2>2
<1> QED BY <1>1, <1>2, <1>3, Invariance, PTL DEF Spec
=============================================================================
