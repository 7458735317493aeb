------------------------------ MODULE Executor ------------------------------
(***************************************************************************)
(* Executor::execute (executor/src/engine.rs): the two legs of an          *)
(* arbitrage, run by tasks that share the circuit breaker, the replay      *)
(* protection and the inventory tracker, each behind a mutex of its own.   *)
(*                                                                         *)
(* The venues are part of the model.  An order that has been sent is       *)
(* executed by its venue some time later, whether or not the caller still  *)
(* waits: a timeout drops the future, not the order.  So next to what the  *)
(* code knows (the tracker's books) the model keeps what really happened   *)
(* (the fills), and the properties compare the two.                        *)
(*                                                                         *)
(* Amounts are in units of the base asset, LotSize of them to a lot.  The  *)
(* quote amounts, the fees and the simulation mode are left out.           *)
(***************************************************************************)
EXTENDS Integers, Sequences, FiniteSets

CONSTANTS
    Callers, FailureThreshold, WindowSeconds, CooldownSeconds,
    MaxClock, MaxFailures,      \* as in CircuitBreaker
    Signals,        \* the signals callers may pass to execute
    Direction,      \* Signal.direction
    Size,           \* Signal.size
    Created,        \* when the generator made the signal
    Sound,          \* inventory_ok, within_limits, positive PnL and score
    Quoted,         \* the signal's pool yields a quote for amount_out_min
    SignalTtl,      \* GeneratorConfig.signal_ttl_seconds
    ReplayTtl,      \* ReplayProtection.ttl_seconds
    LotSize,        \* LOT_SIZE_STEP, in base units
    MinOrder,       \* quantity below which an order is under MIN_NOTIONAL
    MinFillPercent, \* min_fill_ratio
    Slippage        \* slippage_tolerance, in base units

Directions == {"BuyCexSellDex", "BuyDexSellCex"}
Venues == {"cex", "dex"}

ASSUME SignalsAssumption ==
    /\ Direction \in [Signals -> Directions]
    /\ Size \in [Signals -> Nat]
    /\ Created \in [Signals -> Nat]
    /\ Sound \subseteq Signals /\ Quoted \subseteq Signals
ASSUME CallersAssumption == IsFiniteSet(Callers) /\ MaxClock \in Nat
ASSUME ExecutorAssumption ==
    /\ SignalTtl \in Nat /\ ReplayTtl \in Nat /\ SignalTtl <= ReplayTtl
    /\ LotSize \in Nat \ {0} /\ MinOrder \in Nat \ {0}
    /\ MinFillPercent \in 1..100
    /\ Slippage \in Nat

VARIABLES
    clock,
    breaker,    \* Executor.circuit_breaker
    executed,   \* Executor.replay_protection: when each id was marked
    booked,     \* base units the inventory tracker recorded, by signal and venue
    pc,         \* where each caller is in execute
    ctx,        \* each caller's ExecutionContext
    \* The venues:
    live,       \* orders sent and not yet executed
    filled,     \* base units really traded, by signal and venue
    \* Observed only by the properties:
    log, cleared, trips,    \* as in CircuitBreaker
    begun,      \* how often each caller sent each signal into its first leg
    outcome     \* the results execute has returned for each signal

breakerVars == <<breaker, log, cleared, trips>>
venueVars == <<live, filled>>
vars == <<clock, breakerVars, executed, booked, pc, ctx, venueVars,
          begun, outcome>>

\* A caller runs, for the breaker, from its admission to its report.
CB == INSTANCE CircuitBreaker WITH running <- {c \in Callers : pc[c] # "idle"}

Never == CB!Never
NoReply == -1

\* Sent orders; quantities and fills are bounded by the largest signal.
Orders == [caller : Callers, signal : Signals, venue : Venues, qty : Nat]
Contexts == [signal : Signals, leg1Fill : Nat, reply : Nat \cup {NoReply},
             state : {"Pending", "Done", "Failed"}, unwound : BOOLEAN]
Locations == {"idle", "admitted", "leg1", "leg1Sent", "leg2", "leg2Sent",
              "unwinding", "mark", "record"}

TypeOK ==
    /\ clock \in 0..MaxClock
    /\ breaker \in CB!Breakers
    /\ log \in Seq(Nat) /\ cleared \in 0..Len(log) /\ trips \in SUBSET Nat
    /\ executed \in [Signals -> Nat \cup {Never}]
    /\ booked \in [Signals -> [Venues -> Nat]]
    /\ pc \in [Callers -> Locations]
    /\ ctx \in [Callers -> Contexts]
    /\ live \in SUBSET Orders
    /\ filled \in [Signals -> [Venues -> Nat]]
    /\ begun \in [Callers -> [Signals -> Nat]]
    /\ outcome \in [Signals -> SUBSET {"Done", "Failed"}]

----------------------------------------------------------------------------
(* Signal, ReplayProtection and the arithmetic of the legs.                *)

Expiry(s) == Created[s] + SignalTtl
\* Slip: a signal never expires.
IsSound(s) == s \in Sound
IsValid(s) == clock < Expiry(s) /\ s \in Sound

\* ReplayProtection::cleanup retains the ids marked within the TTL.
CleanedUp == [s \in Signals |->
    IF executed[s] # Never /\ executed[s] > clock - ReplayTtl
    THEN executed[s] ELSE Never]
IsDuplicate(s) == CleanedUp[s] # Never

\* The buying venue comes first in both directions.
LegVenue(s, leg) ==
    IF (Direction[s] = "BuyCexSellDex") = (leg = 1) THEN "cex" ELSE "dex"

\* round_quantity: down to a whole number of lots.
RoundQuantity(amount) == (amount \div LotSize) * LotSize

LegOf(c) == IF pc[c] \in {"leg1", "leg1Sent"} THEN 1 ELSE 2
VenueOf(c) == LegVenue(ctx[c].signal, LegOf(c))

\* Leg 1 trades the signal's size; leg 2 what leg 1 reported as filled.
Amount(c) == IF LegOf(c) = 1 THEN Size[ctx[c].signal] ELSE ctx[c].leg1Fill
OrderQty(c) == IF VenueOf(c) = "cex" THEN RoundQuantity(Amount(c))
               ELSE Amount(c)

\* What a venue may make of an order.  An immediate-or-cancel order fills in
\* whole or in part.  A swap reverts or never lands (0), sells the exact
\* input, or buys about the quantity wanted: amount_out_min bounds the
\* slippage, unless the quote failed and the code fell back to 1.
Fills(o) ==
    IF o.venue = "cex" THEN 0..o.qty
    ELSE IF Direction[o.signal] = "BuyCexSellDex" THEN {0, o.qty}
    ELSE {0} \cup {f \in 1..o.qty + Slippage :
                      o.signal \in Quoted => f >= o.qty - Slippage}

\* Slip: a partly filled order is a success.
FilledAtAll(c) == ctx[c].reply > 0

\* OrderResult.status: "filled" is the exchange's word for a whole fill; the
\* rest of an immediate-or-cancel order expires.
Status(c) == IF ctx[c].reply = OrderQty(c) THEN "filled" ELSE "expired"

\* LegResult.success: an order is a success only when it filled entirely, a
\* swap when its receipt is good.
Succeeded(c) == IF VenueOf(c) = "cex" THEN Status(c) = "filled"
                ELSE ctx[c].reply > 0

\* Slip: the exchange's report is ignored too.
ExpectedFill(c) == Amount(c)

\* LegResult.filled: the exchange's report, but for a swap the size expected.
ReportedFill(c) == IF VenueOf(c) = "cex" THEN ctx[c].reply ELSE Amount(c)

\* The min_fill_ratio check, which only execute_cex_first makes.
FilledEnough(c) ==
    VenueOf(c) = "cex" /\ LegOf(c) = 1
       => ReportedFill(c) * 100 >= Size[ctx[c].signal] * MinFillPercent

----------------------------------------------------------------------------
\* Slip: the fill size starts out undefined.
UnsetContext(s) == [signal |-> s, leg1Fill |-> NoReply, reply |-> NoReply,
                    state |-> "Pending", unwound |-> FALSE]
NewContext(s) == [signal |-> s, leg1Fill |-> 0, reply |-> NoReply,
                  state |-> "Pending", unwound |-> FALSE]

Init ==
    /\ pc = [c \in Callers |-> "idle"]
    /\ CB!Init
    /\ executed = [s \in Signals |-> Never]
    /\ booked = [s \in Signals |-> [v \in Venues |-> 0]]
    /\ ctx \in {[c \in Callers |-> NewContext(s)] : s \in Signals}
    /\ live = {}
    /\ filled = [s \in Signals |-> [v \in Venues |-> 0]]
    /\ begun = [c \in Callers |-> [s \in Signals |-> 0]]
    /\ outcome = [s \in Signals |-> {}]

Tick ==
    /\ clock < MaxClock
    /\ clock' = clock + 1
    /\ UNCHANGED <<breakerVars, executed, booked, pc, ctx, venueVars,
                   begun, outcome>>

Goto(c, location) == pc' = [pc EXCEPT ![c] = location]

\* Slip: execute forgets to ask the breaker.
BeginUnguarded(c, s) ==
    /\ pc[c] = "idle" /\ clock >= Created[s]
    /\ Goto(c, "admitted")
    /\ ctx' = [ctx EXCEPT ![c] = NewContext(s)]
    /\ UNCHANGED <<clock, breakerVars, executed, booked, venueVars,
                   begun, outcome>>

\* execute is called and the breaker lets it in.  (When the breaker is open
\* execute returns at once and nothing has changed.)
Begin(c, s) ==
    /\ pc[c] = "idle" /\ clock >= Created[s]
    /\ ~CB!IsOpen(breaker, clock)
    /\ breaker' = CB!AfterPoll(breaker, clock)
    /\ CB!Observe(breaker, breaker', log)
    /\ Goto(c, "admitted")
    /\ ctx' = [ctx EXCEPT ![c] = NewContext(s)]
    /\ UNCHANGED <<clock, executed, booked, venueVars, begun, outcome>>

\* Under the replay lock: purge the old ids and look for this one; then, with
\* no await in between, validate the signal.
CheckSignal(c) ==
    LET s == ctx[c].signal
        proceeds == ~IsDuplicate(s) /\ IsValid(s)
    IN  /\ pc[c] = "admitted"
        /\ executed' = CleanedUp
        /\ Goto(c, IF proceeds THEN "leg1" ELSE "idle")
        /\ begun' = IF proceeds THEN [begun EXCEPT ![c][s] = @ + 1] ELSE begun
        /\ UNCHANGED <<clock, breakerVars, booked, ctx, venueVars, outcome>>

\* The leg has failed for the code: "execute" is over after leg 1, and must
\* unwind leg 1 after leg 2.
LegFailed(c) ==
    IF LegOf(c) = 1
    THEN /\ Goto(c, "mark")
         /\ ctx' = [ctx EXCEPT ![c].state = "Failed"]
    ELSE /\ Goto(c, "unwinding")
         /\ UNCHANGED ctx

\* No order is sent: below MIN_NOTIONAL on the exchange; on the chain, a
\* missing client, wallet, token or router, a failed approval or signature,
\* or a timeout while approving.
RejectLeg(c) ==
    /\ pc[c] \in {"leg1", "leg2"}
    /\ VenueOf(c) = "cex" => OrderQty(c) < MinOrder
    /\ LegFailed(c)
    /\ UNCHANGED <<clock, breakerVars, executed, booked, venueVars,
                   begun, outcome>>

\* A limit order, immediate or cancel, without an id of the client's; or a
\* swap.
Order(c) == [caller |-> c, signal |-> ctx[c].signal,
             venue |-> VenueOf(c), qty |-> OrderQty(c)]

SendLeg(c) ==
    /\ pc[c] \in {"leg1", "leg2"}
    /\ VenueOf(c) = "cex" => OrderQty(c) >= MinOrder
    /\ live' = live \cup {Order(c)}
    /\ Goto(c, IF LegOf(c) = 1 THEN "leg1Sent" ELSE "leg2Sent")
    /\ ctx' = [ctx EXCEPT ![c].reply = NoReply]
    /\ UNCHANGED <<clock, breakerVars, executed, booked, filled,
                   begun, outcome>>

\* The venue executes an order; the reply reaches only a caller that is
\* still waiting for it.
Waits(o) == /\ pc[o.caller] \in {"leg1Sent", "leg2Sent"}
            /\ ctx[o.caller].signal = o.signal /\ VenueOf(o.caller) = o.venue
VenueExecutes(o, f) ==
    /\ live' = live \ {o}
    /\ filled' = [filled EXCEPT ![o.signal][o.venue] = @ + f]
    /\ ctx' = IF Waits(o) THEN [ctx EXCEPT ![o.caller].reply = f] ELSE ctx
    /\ UNCHANGED <<clock, breakerVars, executed, booked, pc, begun, outcome>>

\* Slip: only the first leg is booked.
LegRepliesUnbooked(c) ==
    LET s == ctx[c].signal
    IN  /\ pc[c] \in {"leg1Sent", "leg2Sent"} /\ ctx[c].reply # NoReply
        /\ IF Succeeded(c) /\ FilledEnough(c)
           THEN IF LegOf(c) = 1
                THEN /\ booked' = [booked EXCEPT ![s][VenueOf(c)] =
                                     @ + ReportedFill(c)]
                     /\ Goto(c, "leg2")
                     /\ ctx' = [ctx EXCEPT ![c].leg1Fill = ReportedFill(c)]
                ELSE /\ Goto(c, "mark")
                     /\ ctx' = [ctx EXCEPT ![c].state = "Done"]
                     /\ UNCHANGED booked
           ELSE LegFailed(c) /\ UNCHANGED booked
        /\ UNCHANGED <<clock, breakerVars, executed, venueVars,
                       begun, outcome>>

\* A reply arrives.  A good one is booked by update_inventory and leads to
\* leg 2 or to Done; a first exchange leg filled too little is Failed and
\* not booked.
LegReplies(c) ==
    LET s == ctx[c].signal
    IN  /\ pc[c] \in {"leg1Sent", "leg2Sent"} /\ ctx[c].reply # NoReply
        /\ IF Succeeded(c) /\ FilledEnough(c)
           THEN /\ booked' = [booked EXCEPT ![s][VenueOf(c)] =
                                 @ + ReportedFill(c)]
                /\ IF LegOf(c) = 1
                   THEN /\ Goto(c, "leg2")
                        /\ ctx' = [ctx EXCEPT ![c].leg1Fill = ReportedFill(c)]
                   ELSE /\ Goto(c, "mark")
                        /\ ctx' = [ctx EXCEPT ![c].state = "Done"]
           ELSE LegFailed(c) /\ UNCHANGED booked
        /\ UNCHANGED <<clock, breakerVars, executed, venueVars,
                       begun, outcome>>

\* Slip: no timeout around the leg, so that only an answered call can fail.
LegLostAnswered(c) ==
    /\ pc[c] \in {"leg1Sent", "leg2Sent"} /\ ctx[c].reply # NoReply
    /\ LegFailed(c)
    /\ UNCHANGED <<clock, breakerVars, executed, booked, venueVars,
                   begun, outcome>>

\* The leg's timeout fires, or the call ends in an error that says nothing
\* about the order: it may be live, or executed already.
LegLost(c) ==
    /\ pc[c] \in {"leg1Sent", "leg2Sent"}
    /\ LegFailed(c)
    /\ UNCHANGED <<clock, breakerVars, executed, booked, venueVars,
                   begun, outcome>>

\* unwind only logs that manual intervention is needed, and the error text
\* ends in "- unwound".
Unwind(c) ==
    /\ pc[c] = "unwinding"
    /\ Goto(c, "mark")
    /\ ctx' = [ctx EXCEPT ![c].state = "Failed", ![c].unwound = TRUE]
    /\ UNCHANGED <<clock, breakerVars, executed, booked, venueVars,
                   begun, outcome>>

MarkExecuted(c) ==
    /\ pc[c] = "mark"
    /\ executed' = [executed EXCEPT ![ctx[c].signal] = clock]
    /\ Goto(c, "record")
    /\ UNCHANGED <<clock, breakerVars, booked, ctx, venueVars, begun, outcome>>

\* Report to the breaker (a success does nothing) and return.
Return(c) ==
    /\ pc[c] = "record"
    /\ IF ctx[c].state = "Done"
       THEN UNCHANGED breakerVars
       ELSE /\ Len(log) < MaxFailures
            /\ breaker' = CB!AfterFailure(breaker, clock)
            /\ CB!Observe(breaker, breaker', Append(log, clock))
    /\ outcome' = [outcome EXCEPT ![ctx[c].signal] = @ \cup {ctx[c].state}]
    /\ Goto(c, "idle")
    /\ UNCHANGED <<clock, executed, booked, ctx, venueVars, begun>>

\* is_circuit_open, from the bot's tick and its health report.
Poll ==
    /\ CB!CooledDown(breaker, clock)
    /\ breaker' = CB!AfterPoll(breaker, clock)
    /\ CB!Observe(breaker, breaker', log)
    /\ UNCHANGED <<clock, executed, booked, pc, ctx, venueVars, begun, outcome>>

\* What a caller that is inside execute does next.
Proceed(c) ==
    \/ CheckSignal(c) \/ RejectLeg(c) \/ SendLeg(c)
    \/ LegReplies(c) \/ LegLost(c) \/ Unwind(c)
    \/ MarkExecuted(c) \/ Return(c)

Next ==
    \/ Tick
    \/ Poll
    \/ \E c \in Callers : Proceed(c) \/ \E s \in Signals : Begin(c, s)
    \/ \E o \in live : \E f \in Fills(o) : VenueExecutes(o, f)

Spec == Init /\ [][Next]_vars

\* Every await in execute is under a timeout or a short-lived lock.
FairSpec == Spec /\ \A c \in Callers : WF_vars(Proceed(c))

----------------------------------------------------------------------------
Running(s) == \E c \in Callers : pc[c] # "idle" /\ ctx[c].signal = s
Buy(s) == LegVenue(s, 1)
Sell(s) == LegVenue(s, 2)

\* How far the books may be from the fills: a swap that buys is booked at
\* the size expected.
Tolerance(s, v) == IF v = "dex" /\ Buy(s) = "dex" THEN Slippage ELSE 0

\* The tracker never books what no venue traded, at any moment of any
\* execution: its error is always on the side of fills it does not know of.
NeverOverbooked ==
    \A s \in Quoted : \A v \in Venues :
       booked[s][v] <= filled[s][v] + Tolerance(s, v) * Cardinality(Callers)

\* A signal that was only ever reported Done has, once nobody is at work on
\* it, the same fills in the books and at the venues, up to slippage.
DoneIsBooked ==
    \A s \in Quoted :
       outcome[s] = {"Done"} /\ ~Running(s) =>
          \A v \in Venues :
             /\ filled[s][v] - booked[s][v] <=
                   Tolerance(s, v) * Cardinality(Callers)
             /\ booked[s][v] - filled[s][v] <=
                   Tolerance(s, v) * Cardinality(Callers)

\* Bought and sold amounts of a signal cancel out, up to the lot that
\* round_quantity cuts off and the slippage.
Hedged(s) ==
    LET n == Cardinality(Callers)
        open == filled[s][Buy(s)] - filled[s][Sell(s)]
    IN  -n * Slippage <= open /\ open <= n * (LotSize - 1 + Slippage)

\* Whatever is left open, by a leg that was lost and filled after all, a
\* partial fill that was rejected or an unwind that did not happen, belongs
\* to a signal for which a failure was reported to the breaker.
OpenPositionsAreReported ==
    \A s \in Quoted : Hedged(s) \/ Running(s) \/ "Failed" \in outcome[s]

\* Replay protection marks a signal only after its execution and forgets it
\* after the TTL; even so no caller trades the same signal twice, because a
\* forgotten signal has expired.
NoCallerRepeats == \A c \in Callers, s \in Signals : begun[c][s] <= 1

\* Executions, whatever they do in between, use the breaker as it expects:
\* every admitted caller leaves once, and reports every failure once.
BreakerSpec == CB!Spec

\* Every call of execute returns.
ExecuteReturns == \A c \in Callers : pc[c] # "idle" ~> pc[c] = "idle"

\* What the error text and the journal say: after "unwound", and once the
\* venues are done with its orders, nothing of the signal is open.
UnwoundIsHedged ==
    \A c \in Callers :
       LET s == ctx[c].signal
       IN  /\ ctx[c].unwound /\ pc[c] = "idle"
           /\ \A o \in live : o.signal # s
           => Hedged(s)
=============================================================================
