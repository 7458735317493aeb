--------------------------- MODULE ExecutorProofs ---------------------------
(***************************************************************************)
(* What Executor guarantees for any number of callers, any signals and any *)
(* configuration: its executions are callers as CircuitBreaker has them;   *)
(* replay protection together with the signals' expiry lets no caller      *)
(* trade a signal twice, though neither of them does so alone; and what    *)
(* the tracker has booked agrees with what the venues have traded.         *)
(***************************************************************************)
EXTENDS Executor, FiniteSetTheorems, SequenceTheorems, TLAPS

(***************************************************************************)
(* The types of everything but the breaker.                                *)
(***************************************************************************)
CallersTyped ==
    /\ clock \in Nat
    /\ executed \in [Signals -> Int]
    /\ pc \in [Callers -> Locations]
    /\ ctx \in [Callers -> Contexts]
    /\ live \in SUBSET Orders
    /\ begun \in [Callers -> [Signals -> Nat]]

\* An exchange order is for a whole number of lots.
LEMMA RoundedIsNat ==
    ASSUME NEW a \in Nat PROVE RoundQuantity(a) \in Nat
<1>1. /\ LotSize \in Nat /\ LotSize > 0
  BY ExecutorAssumption
<1>2. a \div LotSize \in Nat
  BY <1>1
<1>3. \A m, n \in Nat : m * n \in Nat
  OBVIOUS
<1> QED BY <1>1, <1>2, <1>3 DEF RoundQuantity

\* What a leg trades, and what it reports once a reply is there.
LEMMA QuantitiesAreNat ==
    ASSUME CallersTyped, NEW c \in Callers
    PROVE  /\ Amount(c) \in Nat
           /\ OrderQty(c) \in Nat
           /\ ctx[c].reply # NoReply => ReportedFill(c) \in Nat
<1>1. /\ ctx[c].signal \in Signals /\ ctx[c].leg1Fill \in Nat
      /\ ctx[c].reply \in Nat \cup {NoReply}
  BY DEF CallersTyped, Contexts
<1>2. Amount(c) \in Nat
  BY <1>1, SignalsAssumption DEF Amount
<1>3. OrderQty(c) \in Nat
  BY <1>2, RoundedIsNat DEF OrderQty
<1>4. ctx[c].reply # NoReply => ReportedFill(c) \in Nat
  BY <1>1, <1>2 DEF ReportedFill
<1> QED BY <1>2, <1>3, <1>4

LEMMA FillsAreNat ==
    ASSUME CallersTyped, NEW o \in live, NEW f \in Fills(o)
    PROVE  f \in Nat
<1>1. o.qty \in Nat /\ Slippage \in Nat
  BY ExecutorAssumption DEF CallersTyped, Orders
<1> QED BY <1>1 DEF Fills

\* The changes execute makes to a context.
LEMMA ContextChanges ==
    ASSUME NEW x \in Contexts, NEW n \in Nat
    PROVE  /\ [x EXCEPT !.leg1Fill = n] \in Contexts
           /\ [x EXCEPT !.reply = n] \in Contexts
           /\ [x EXCEPT !.reply = NoReply] \in Contexts
           /\ [x EXCEPT !.state = "Done"] \in Contexts
           /\ [x EXCEPT !.state = "Failed"] \in Contexts
           /\ [x EXCEPT !.state = "Failed", !.unwound = TRUE] \in Contexts
<1> DEFINE Reply == Nat \cup {NoReply}
           State == {"Pending", "Done", "Failed"}
<1>1. /\ "Done" \in State /\ "Failed" \in State /\ TRUE \in BOOLEAN
      /\ n \in Reply /\ NoReply \in Reply
  OBVIOUS
<1>2. Contexts = [signal : Signals, leg1Fill : Nat, reply : Reply,
                  state : State, unwound : BOOLEAN]
  BY DEF Contexts
<1> HIDE DEF Reply, State
<1> QED BY <1>1, <1>2

\* None of them changes its signal.
LEMMA SignalIsKept ==
    ASSUME NEW x \in Contexts, NEW v
    PROVE  /\ [x EXCEPT !.leg1Fill = v].signal = x.signal
           /\ [x EXCEPT !.reply = v].signal = x.signal
           /\ [x EXCEPT !.state = v].signal = x.signal
           /\ [x EXCEPT !.state = v, !.unwound = TRUE].signal = x.signal
BY DEF Contexts

\* A step of execute is for the signal it was called with.
LEMMA ProceedKeepsSignals ==
    ASSUME CallersTyped, NEW c \in Callers, Proceed(c), NEW d \in Callers
    PROVE  ctx'[d].signal = ctx[d].signal
<1>1. \/ ctx' = ctx
      \/ ctx' = [ctx EXCEPT ![c].state = "Failed"]
      \/ ctx' = [ctx EXCEPT ![c].state = "Done"]
      \/ ctx' = [ctx EXCEPT ![c].reply = NoReply]
      \/ ctx' = [ctx EXCEPT ![c].leg1Fill = ReportedFill(c)]
      \/ ctx' = [ctx EXCEPT ![c].state = "Failed", ![c].unwound = TRUE]
  BY DEF Proceed, CheckSignal, RejectLeg, SendLeg, LegReplies, LegLost, Unwind,
         MarkExecuted, Return, LegFailed
<1>2. ctx \in [Callers -> Contexts] /\ ctx[c] \in Contexts
  BY DEF CallersTyped
<1>3. CASE d = c
  <2> DEFINE x == ctx[c]
  <2>1. \/ ctx'[c] = x
        \/ ctx'[c] = [x EXCEPT !.state = "Failed"]
        \/ ctx'[c] = [x EXCEPT !.state = "Done"]
        \/ ctx'[c] = [x EXCEPT !.reply = NoReply]
        \/ ctx'[c] = [x EXCEPT !.leg1Fill = ReportedFill(c)]
        \/ ctx'[c] = [x EXCEPT !.state = "Failed", !.unwound = TRUE]
    BY <1>1, <1>2
  <2>2. x \in Contexts
    BY <1>2
  <2> HIDE DEF x
  <2>3. /\ [x EXCEPT !.state = "Failed"].signal = x.signal
        /\ [x EXCEPT !.state = "Done"].signal = x.signal
        /\ [x EXCEPT !.reply = NoReply].signal = x.signal
    BY <2>2, SignalIsKept
  <2>4. /\ [x EXCEPT !.leg1Fill = ReportedFill(c)].signal = x.signal
        /\ [x EXCEPT !.state = "Failed", !.unwound = TRUE].signal = x.signal
    BY <2>2, SignalIsKept
  <2>5. ctx'[c].signal = x.signal
    BY <2>1, <2>3, <2>4
  <2> QED BY <1>3, <2>5 DEF x
<1>4. CASE d # c
  BY <1>1, <1>2, <1>4
<1> QED BY <1>3, <1>4

LEMMA InitTyped == Init => CallersTyped
<1> SUFFICES ASSUME Init PROVE CallersTyped
  OBVIOUS
<1>1. PICK s \in Signals : ctx = [c \in Callers |-> NewContext(s)]
  BY DEF Init
<1>2. NewContext(s) \in Contexts
  BY DEF NewContext, Contexts
<1>3. ctx \in [Callers -> Contexts]
  BY <1>1, <1>2
<1>4. pc \in [Callers -> Locations] /\ live \in SUBSET Orders /\ clock \in Nat
  BY DEF Init, CB!Init, Locations
<1>5. executed \in [Signals -> Int] /\ begun \in [Callers -> [Signals -> Nat]]
  BY DEF Init, Never, CB!Never
<1> QED BY <1>3, <1>4, <1>5 DEF CallersTyped

\* Failing a leg changes the place and the state only.
LEMMA LegFailedTyped ==
    ASSUME CallersTyped, NEW c \in Callers, LegFailed(c)
    PROVE  pc' \in [Callers -> Locations] /\ ctx' \in [Callers -> Contexts]
<1>1. /\ \/ ctx' = [ctx EXCEPT ![c].state = "Failed"]
         \/ ctx' = ctx
      /\ \/ pc' = [pc EXCEPT ![c] = "mark"]
         \/ pc' = [pc EXCEPT ![c] = "unwinding"]
  BY DEF LegFailed, Goto
<1>2. ctx' \in [Callers -> Contexts]
  <2>1. ctx \in [Callers -> Contexts] /\ ctx[c] \in Contexts
    BY DEF CallersTyped
  <2>2. [ctx[c] EXCEPT !.state = "Failed"] \in Contexts
    BY <2>1, ContextChanges
  <2> QED BY <1>1, <2>1, <2>2
<1>3. pc' \in [Callers -> Locations]
  BY <1>1 DEF CallersTyped, Locations
<1> QED BY <1>2, <1>3

LEMMA StepTyped == CallersTyped /\ [Next]_vars => CallersTyped'
<1> SUFFICES ASSUME CallersTyped, [Next]_vars PROVE CallersTyped'
  OBVIOUS
<1>1. CASE UNCHANGED vars
  BY <1>1 DEF CallersTyped, vars, venueVars
<1>2. CASE Tick
  BY <1>2 DEF CallersTyped, Tick, venueVars
<1>3. CASE Poll
  BY <1>3 DEF CallersTyped, Poll, venueVars
<1>4. ASSUME NEW c \in Callers, Proceed(c) PROVE CallersTyped'
  <2>1. CASE CheckSignal(c)
    <3>1. executed' \in [Signals -> Int]
      BY <2>1 DEF CheckSignal, CallersTyped, CleanedUp, Never, CB!Never
    <3>2. pc' \in [Callers -> Locations]
      BY <2>1 DEF CheckSignal, CallersTyped, Goto, Locations
    <3>3. ctx[c].signal \in Signals
      BY DEF CallersTyped, Contexts
    <3>4. begun' \in [Callers -> [Signals -> Nat]]
      BY <2>1, <3>3 DEF CheckSignal, CallersTyped
    <3> QED BY <2>1, <3>1, <3>2, <3>4 DEF CheckSignal, CallersTyped, venueVars
  <2>2. CASE RejectLeg(c)
    BY <2>2, LegFailedTyped DEF RejectLeg, CallersTyped, venueVars
  <2>3. CASE SendLeg(c)
    <3>1. /\ ctx[c].signal \in Signals /\ VenueOf(c) \in Venues
          /\ OrderQty(c) \in Nat
      BY QuantitiesAreNat DEF CallersTyped, Contexts, VenueOf, LegVenue, Venues
    <3>2. live' \in SUBSET Orders
      <4>1. Order(c) \in Orders
        BY <3>1 DEF Order, Orders
      <4> QED BY <2>3, <4>1 DEF SendLeg, CallersTyped
    <3>3. pc' \in [Callers -> Locations]
      BY <2>3 DEF SendLeg, CallersTyped, Goto, Locations
    <3>4. ctx' \in [Callers -> Contexts]
      BY <2>3 DEF SendLeg, CallersTyped, Contexts
    <3> QED BY <2>3, <3>2, <3>3, <3>4 DEF SendLeg, CallersTyped
  <2>4. CASE LegReplies(c)
    <3>1. pc' \in [Callers -> Locations] /\ ctx' \in [Callers -> Contexts]
      <4>1. CASE LegFailed(c)
        BY <4>1, LegFailedTyped
      <4>2. CASE ~ LegFailed(c)
        <5>1. ReportedFill(c) \in Nat
          <6>1. ctx[c].reply # NoReply
            BY <2>4 DEF LegReplies
          <6> QED BY <6>1, QuantitiesAreNat
        <5>2. pc' \in [Callers -> Locations]
          BY <2>4, <4>2 DEF LegReplies, CallersTyped, Goto, Locations
        <5>3. \/ ctx' = [ctx EXCEPT ![c].leg1Fill = ReportedFill(c)]
              \/ ctx' = [ctx EXCEPT ![c].state = "Done"]
          BY <2>4, <4>2 DEF LegReplies
        <5>4. ctx \in [Callers -> Contexts] /\ ctx[c] \in Contexts
          BY DEF CallersTyped
        <5>5. /\ [ctx[c] EXCEPT !.leg1Fill = ReportedFill(c)] \in Contexts
              /\ [ctx[c] EXCEPT !.state = "Done"] \in Contexts
          BY <5>1, <5>4, ContextChanges
        <5> QED BY <5>2, <5>3, <5>4, <5>5
      <4> QED BY <4>1, <4>2
    <3> QED BY <2>4, <3>1 DEF LegReplies, CallersTyped, venueVars
  <2>5. CASE LegLost(c)
    BY <2>5, LegFailedTyped DEF LegLost, CallersTyped, venueVars
  <2>6. CASE Unwind(c)
    <3>1. ctx \in [Callers -> Contexts] /\ ctx[c] \in Contexts
      BY DEF CallersTyped
    <3>2. [ctx[c] EXCEPT !.state = "Failed", !.unwound = TRUE] \in Contexts
      BY <3>1, ContextChanges
    <3>3. ctx' \in [Callers -> Contexts]
      BY <2>6, <3>1, <3>2 DEF Unwind
    <3> QED BY <2>6, <3>3 DEF Unwind, Goto, CallersTyped, Locations, venueVars
  <2>7. CASE MarkExecuted(c)
    <3>1. executed' \in [Signals -> Int]
      <4>1. executed \in [Signals -> Int] /\ clock \in Int
        BY DEF CallersTyped
      <4>2. executed' = [executed EXCEPT ![ctx[c].signal] = clock]
        BY <2>7 DEF MarkExecuted
      <4> QED BY <4>1, <4>2
    <3>2. pc' \in [Callers -> Locations]
      BY <2>7 DEF MarkExecuted, Goto, CallersTyped, Locations
    <3> QED BY <2>7, <3>1, <3>2 DEF MarkExecuted, CallersTyped, venueVars
  <2>8. CASE Return(c)
    BY <2>8 DEF Return, Goto, CallersTyped, Locations, venueVars
  <2> QED BY <1>4, <2>1, <2>2, <2>3, <2>4, <2>5, <2>6, <2>7, <2>8 DEF Proceed
<1>5. ASSUME NEW c \in Callers, NEW s \in Signals, Begin(c, s) PROVE CallersTyped'
  <2>1. pc' \in [Callers -> Locations]
    BY <1>5 DEF Begin, CallersTyped, Goto, Locations
  <2>2. ctx' \in [Callers -> Contexts]
    BY <1>5 DEF Begin, CallersTyped, NewContext, Contexts
  <2> QED BY <1>5, <2>1, <2>2 DEF Begin, CallersTyped, venueVars
<1>6. ASSUME NEW o \in live, NEW f \in Fills(o), VenueExecutes(o, f)
      PROVE  CallersTyped'
  <2>1. f \in Nat
    BY FillsAreNat
  <2>2. ctx' \in [Callers -> Contexts]
    <3> DEFINE told == [ctx EXCEPT ![o.caller].reply = f]
    <3>1. told \in [Callers -> Contexts]
      BY <2>1 DEF CallersTyped, Contexts
    <3>2. ctx' = told \/ ctx' = ctx
      BY <1>6 DEF VenueExecutes
    <3> HIDE DEF told
    <3> QED BY <3>1, <3>2 DEF CallersTyped
  <2> QED BY <1>6, <2>2 DEF VenueExecutes, CallersTyped
<1> QED BY <1>1, <1>2, <1>3, <1>4, <1>5, <1>6 DEF Next

----------------------------------------------------------------------------
(***************************************************************************)
(* The executions of any number of callers are callers of the breaker, as  *)
(* CircuitBreaker has them.                                                *)
(***************************************************************************)

\* What happens inside an execution is a stutter for the breaker.
LEMMA InsideStutters ==
    ASSUME CallersTyped, NEW c \in Callers, pc[c] # "idle",
           NEW place, place # "idle", Goto(c, place),
           UNCHANGED <<clock, breakerVars>>
    PROVE  UNCHANGED CB!vars
<1>1. {d \in Callers : pc'[d] # "idle"} = {d \in Callers : pc[d] # "idle"}
  BY DEF CallersTyped, Goto
<1> QED BY <1>1 DEF CB!vars, breakerVars

\* A caller that goes idle without a report leaves the breaker alone.
LEMMA GoingIdleLeaves ==
    ASSUME CallersTyped, NEW c \in Callers, pc[c] # "idle", Goto(c, "idle"),
           UNCHANGED <<clock, breakerVars>>
    PROVE  CB!Leave(c)
<1>1. {d \in Callers : pc'[d] # "idle"} = {d \in Callers : pc[d] # "idle"} \ {c}
  BY DEF CallersTyped, Goto
<1> QED BY <1>1 DEF CB!Leave, breakerVars

LEMMA StepImplementsBreaker ==
    CallersTyped /\ [Next]_vars => [CB!Next]_CB!vars
<1> SUFFICES ASSUME CallersTyped, [Next]_vars PROVE [CB!Next]_CB!vars
  OBVIOUS
<1>1. CASE UNCHANGED vars
  BY <1>1 DEF vars, breakerVars, CB!vars
<1>2. CASE Tick
  BY <1>2 DEF Tick, breakerVars, CB!Next, CB!Tick
<1>3. CASE Poll
  BY <1>3 DEF Poll, CB!Next, CB!Poll
<1>4. ASSUME NEW c \in Callers, Proceed(c) PROVE [CB!Next]_CB!vars
  <2>1. CASE CheckSignal(c)
    <3>1. pc[c] # "idle" /\ UNCHANGED <<clock, breakerVars>>
      BY <2>1 DEF CheckSignal
    <3>2. Goto(c, "leg1") \/ Goto(c, "idle")
      BY <2>1 DEF CheckSignal
    <3> QED BY <3>1, <3>2, InsideStutters, GoingIdleLeaves DEF CB!Next
  <2>2. ASSUME RejectLeg(c) \/ SendLeg(c) \/ LegReplies(c) \/ LegLost(c)
               \/ Unwind(c) \/ MarkExecuted(c)
        PROVE  UNCHANGED CB!vars
    <3>1. pc[c] # "idle" /\ UNCHANGED <<clock, breakerVars>>
      BY <2>2 DEF RejectLeg, SendLeg, LegReplies, LegLost, Unwind, MarkExecuted
    <3>2. \E place \in Locations \ {"idle"} : Goto(c, place)
      BY <2>2 DEF RejectLeg, SendLeg, LegReplies, LegLost, Unwind, MarkExecuted,
                  LegFailed, Locations
    <3> QED BY <3>1, <3>2, InsideStutters
  <2>3. CASE Return(c)
    <3>1. pc[c] # "idle" /\ Goto(c, "idle") /\ UNCHANGED clock
      BY <2>3 DEF Return
    <3>2. CASE ctx[c].state = "Done"
      BY <2>3, <3>1, <3>2, GoingIdleLeaves DEF Return, CB!Next
    <3>3. CASE ctx[c].state # "Done"
      <4>1. {d \in Callers : pc'[d] # "idle"}
               = {d \in Callers : pc[d] # "idle"} \ {c}
        BY <3>1 DEF CallersTyped, Goto
      <4>2. CB!Fail(c)
        BY <2>3, <3>1, <3>3, <4>1 DEF Return, CB!Fail
      <4> QED BY <4>2 DEF CB!Next
    <3> QED BY <3>2, <3>3
  <2> QED BY <1>4, <2>1, <2>2, <2>3 DEF Proceed
<1>5. ASSUME NEW c \in Callers, NEW s \in Signals, Begin(c, s)
      PROVE  [CB!Next]_CB!vars
  <2>1. {d \in Callers : pc'[d] # "idle"}
           = {d \in Callers : pc[d] # "idle"} \cup {c}
    BY <1>5 DEF CallersTyped, Begin, Goto
  <2>2. CB!Admit(c)
    BY <1>5, <2>1 DEF Begin, CB!Admit
  <2> QED BY <2>2 DEF CB!Next
<1>6. ASSUME NEW o \in live, NEW f \in Fills(o), VenueExecutes(o, f)
      PROVE  UNCHANGED CB!vars
  BY <1>6 DEF VenueExecutes, CB!vars, breakerVars
<1> QED BY <1>1, <1>2, <1>3, <1>4, <1>5, <1>6 DEF Next

\* Whatever its callers do, every behaviour of the executor is one of the
\* circuit breaker's specification: each admitted execution reports once at
\* most, and only failures.
THEOREM ImplementsBreaker == Spec => BreakerSpec
<1>1. Init => CB!Init
  BY DEF Init, CB!Init
<1> QED BY <1>1, InitTyped, StepTyped, StepImplementsBreaker, PTL
        DEF Spec, BreakerSpec, CB!Spec

----------------------------------------------------------------------------
(***************************************************************************)
(* No caller trades a signal twice.  A traded signal is in one of three    *)
(* ways out of the caller's reach: its execution still runs, its id is     *)
(* kept, or it has expired.  The id passes from the first to the second    *)
(* when it is marked, and from the second to the third when it is          *)
(* forgotten, because it was marked after its creation and is kept for no  *)
(* less than the signal lives.                                             *)
(***************************************************************************)
Trading == {"leg1", "leg1Sent", "leg2", "leg2Sent", "unwinding", "mark"}

OutOfReach(c, s) ==
    \/ pc[c] \in Trading /\ ctx[c].signal = s
    \/ executed[s] # Never /\ executed[s] >= Created[s]
    \/ clock >= Expiry(s)

TradedOnce ==
    \A c \in Callers, s \in Signals :
       begun[c][s] = 0 \/ (begun[c][s] = 1 /\ OutOfReach(c, s))

\* An execution starts after its signal was made.
StartedInTime == \A c \in Callers : pc[c] # "idle" => clock >= Created[ctx[c].signal]

ReplayInv == CallersTyped /\ StartedInTime /\ TradedOnce

LEMMA InitReplay == Init => StartedInTime /\ TradedOnce
BY DEF Init, StartedInTime, TradedOnce

\* A step that neither trades, marks nor forgets a signal.
LEMMA QuietStepKeepsReplay ==
    ASSUME ReplayInv, CallersTyped',
           UNCHANGED <<begun, executed>>, clock' >= clock,
           \A d \in Callers :
              /\ ctx'[d].signal = ctx[d].signal
              /\ pc'[d] # "idle" => pc[d] # "idle"
              /\ pc[d] \in Trading => pc'[d] \in Trading
    PROVE  StartedInTime' /\ TradedOnce'
<1>1. \A d \in Callers : ctx[d].signal \in Signals
  BY DEF ReplayInv, CallersTyped, Contexts
<1>2. /\ clock \in Int /\ clock' \in Int
      /\ \A s \in Signals : Created[s] \in Int /\ Expiry(s) \in Int
  BY SignalsAssumption, ExecutorAssumption DEF ReplayInv, CallersTyped, Expiry
<1>3. StartedInTime'
  BY <1>1, <1>2 DEF ReplayInv, StartedInTime
<1>4. ASSUME NEW d \in Callers, NEW s \in Signals, OutOfReach(d, s)
      PROVE  OutOfReach(d, s)'
  BY <1>2, <1>4 DEF OutOfReach
<1>5. TradedOnce'
  BY <1>4 DEF ReplayInv, TradedOnce
<1> QED BY <1>3, <1>5

\* A caller moves to another place of the same execution.
LEMMA MovingKeepsReplay ==
    ASSUME ReplayInv, CallersTyped', NEW c \in Callers, NEW place,
           UNCHANGED <<clock, begun, executed>>, Goto(c, place),
           pc[c] # "idle", pc[c] \in Trading => place \in Trading,
           \A d \in Callers : ctx'[d].signal = ctx[d].signal
    PROVE  StartedInTime' /\ TradedOnce'
<1>1. \A d \in Callers : /\ pc'[d] # "idle" => pc[d] # "idle"
                         /\ pc[d] \in Trading => pc'[d] \in Trading
  BY DEF Goto, ReplayInv, CallersTyped
<1>2. clock' >= clock
  BY DEF ReplayInv, CallersTyped
<1> QED BY <1>1, <1>2, QuietStepKeepsReplay

\* A new execution has traded nothing yet.
LEMMA BeginKeepsReplay ==
    ASSUME ReplayInv, CallersTyped', NEW c \in Callers, NEW s \in Signals,
           Begin(c, s)
    PROVE  StartedInTime' /\ TradedOnce'
<1>1. /\ pc[c] = "idle" /\ clock >= Created[s] /\ clock' = clock
      /\ pc' = [pc EXCEPT ![c] = "admitted"]
      /\ ctx' = [ctx EXCEPT ![c] = NewContext(s)]
      /\ begun' = begun /\ executed' = executed
  BY DEF Begin, Goto
<1>2. /\ \A d \in Callers \ {c} : pc'[d] = pc[d] /\ ctx'[d] = ctx[d]
      /\ pc'[c] = "admitted" /\ ctx'[c].signal = s
  BY <1>1 DEF ReplayInv, CallersTyped, NewContext
<1>3. StartedInTime'
  BY <1>1, <1>2 DEF ReplayInv, StartedInTime
<1>4. ASSUME NEW d \in Callers, NEW r \in Signals, OutOfReach(d, r)
      PROVE  OutOfReach(d, r)'
  BY <1>1, <1>2, <1>4 DEF OutOfReach, Trading
<1>5. TradedOnce'
  BY <1>1, <1>4 DEF ReplayInv, TradedOnce
<1> QED BY <1>3, <1>5

\* An id is only forgotten after its signal has expired; a signal that is
\* let through was never traded by the caller.
LEMMA CheckSignalKeepsReplay ==
    ASSUME ReplayInv, CallersTyped', NEW c \in Callers, CheckSignal(c)
    PROVE  StartedInTime' /\ TradedOnce'
<1> DEFINE s == ctx[c].signal
           proceeds == ~IsDuplicate(s) /\ IsValid(s)
<1>1. /\ pc[c] = "admitted" /\ clock' = clock /\ ctx' = ctx
      /\ executed' = CleanedUp
      /\ pc' = [pc EXCEPT ![c] = IF proceeds THEN "leg1" ELSE "idle"]
      /\ begun' = IF proceeds THEN [begun EXCEPT ![c][s] = @ + 1] ELSE begun
  BY DEF CheckSignal, Goto
<1>2. /\ \A d \in Callers \ {c} : pc'[d] = pc[d]
      /\ pc'[c] = IF proceeds THEN "leg1" ELSE "idle"
  BY <1>1 DEF ReplayInv, CallersTyped
<1>3. s \in Signals /\ begun \in [Callers -> [Signals -> Nat]]
  BY DEF ReplayInv, CallersTyped, Contexts
<1>4. /\ clock \in Int /\ SignalTtl \in Int /\ ReplayTtl \in Int
      /\ SignalTtl <= ReplayTtl
      /\ \A r \in Signals : executed[r] \in Int /\ Created[r] \in Int
  BY SignalsAssumption, ExecutorAssumption DEF ReplayInv, CallersTyped
<1>5. StartedInTime'
  BY <1>1, <1>2 DEF ReplayInv, StartedInTime
<1>6. ASSUME NEW r \in Signals, executed[r] # Never, executed[r] >= Created[r]
      PROVE  CleanedUp[r] = executed[r] \/ clock >= Expiry(r)
  <2>1. CASE executed[r] > clock - ReplayTtl
    BY <1>6, <2>1 DEF CleanedUp
  <2>2. CASE ~ (executed[r] > clock - ReplayTtl)
    BY <1>4, <1>6, <2>2 DEF Expiry
  <2> QED BY <2>1, <2>2
<1>7. ASSUME NEW d \in Callers, NEW r \in Signals, OutOfReach(d, r)
      PROVE  OutOfReach(d, r)'
  <2>1. CASE pc[d] \in Trading /\ ctx[d].signal = r
    BY <1>1, <1>2, <2>1 DEF OutOfReach, Trading
  <2>2. CASE executed[r] # Never /\ executed[r] >= Created[r]
    BY <1>1, <1>6, <2>2 DEF OutOfReach
  <2>3. CASE clock >= Expiry(r)
    BY <1>1, <2>3 DEF OutOfReach
  <2> QED BY <1>7, <2>1, <2>2, <2>3 DEF OutOfReach
<1>8. ASSUME proceeds PROVE begun[c][s] = 0 /\ OutOfReach(c, s)'
  <2>1. CleanedUp[s] = Never /\ clock < Expiry(s)
    BY <1>8 DEF IsDuplicate, IsValid
  <2>2. ~ OutOfReach(c, s)
    <3>1. ~ (executed[s] # Never /\ executed[s] >= Created[s])
      <4>1. Expiry(s) \in Int
        BY <1>3, <1>4 DEF Expiry
      <4> QED BY <1>3, <1>4, <1>6, <2>1, <4>1
    <3>2. ~ (clock >= Expiry(s))
      BY <1>3, <1>4, <2>1 DEF Expiry
    <3> QED BY <1>1, <3>1, <3>2 DEF OutOfReach, Trading
  <2>3. begun[c][s] = 0
    BY <1>3, <2>2 DEF ReplayInv, TradedOnce
  <2>4. OutOfReach(c, s)'
    BY <1>1, <1>2, <1>8 DEF OutOfReach, Trading
  <2> QED BY <2>3, <2>4
<1>9. ASSUME NEW d \in Callers, NEW r \in Signals
      PROVE  (begun[d][r] = 0 \/ (begun[d][r] = 1 /\ OutOfReach(d, r)))'
  <2>1. CASE proceeds /\ d = c /\ r = s
    BY <1>1, <1>3, <1>8, <2>1
  <2>2. CASE ~ (proceeds /\ d = c /\ r = s)
    <3>1. begun'[d][r] = begun[d][r]
      BY <1>1, <1>3, <2>2
    <3> QED BY <1>7, <3>1 DEF ReplayInv, TradedOnce
  <2> QED BY <2>1, <2>2
<1> QED BY <1>5, <1>9 DEF TradedOnce

\* The id takes over from the execution.
LEMMA MarkExecutedKeepsReplay ==
    ASSUME ReplayInv, CallersTyped', NEW c \in Callers, MarkExecuted(c)
    PROVE  StartedInTime' /\ TradedOnce'
<1> DEFINE s == ctx[c].signal
<1>1. /\ pc[c] = "mark" /\ clock' = clock /\ ctx' = ctx /\ begun' = begun
      /\ executed' = [executed EXCEPT ![s] = clock]
      /\ pc' = [pc EXCEPT ![c] = "record"]
  BY DEF MarkExecuted, Goto
<1>2. /\ \A d \in Callers \ {c} : pc'[d] = pc[d]
      /\ pc'[c] = "record"
  BY <1>1 DEF ReplayInv, CallersTyped
<1>3. s \in Signals /\ executed \in [Signals -> Int] /\ clock \in Nat
  BY DEF ReplayInv, CallersTyped, Contexts
<1>4. StartedInTime'
  BY <1>1, <1>2 DEF ReplayInv, StartedInTime
<1>5. executed'[s] = clock /\ clock # Never /\ clock >= Created[s]
  BY <1>1, <1>3 DEF ReplayInv, StartedInTime, Never, CB!Never
<1>6. ASSUME NEW d \in Callers, NEW r \in Signals, OutOfReach(d, r)
      PROVE  OutOfReach(d, r)'
  <2>1. CASE r = s
    BY <1>5, <2>1 DEF OutOfReach
  <2>2. CASE r # s
    BY <1>1, <1>2, <1>3, <1>6, <2>2 DEF OutOfReach
  <2> QED BY <2>1, <2>2
<1>7. TradedOnce'
  BY <1>1, <1>6 DEF ReplayInv, TradedOnce
<1> QED BY <1>4, <1>7

LEMMA StepKeepsReplay == ReplayInv /\ [Next]_vars => ReplayInv'
<1> SUFFICES ASSUME ReplayInv, [Next]_vars PROVE ReplayInv'
  OBVIOUS
<1>0. CallersTyped'
  BY StepTyped DEF ReplayInv
<1>. SUFFICES StartedInTime' /\ TradedOnce'
  BY <1>0 DEF ReplayInv
<1>1. ASSUME UNCHANGED <<begun, executed, pc, ctx>>, clock' >= clock
      PROVE  StartedInTime' /\ TradedOnce'
  BY <1>0, <1>1, QuietStepKeepsReplay
<1>2. clock \in Int
  BY DEF ReplayInv, CallersTyped
<1>3. CASE UNCHANGED vars
  BY <1>1, <1>2, <1>3 DEF vars
<1>4. CASE Tick
  BY <1>1, <1>2, <1>4 DEF Tick
<1>5. CASE Poll
  BY <1>1, <1>2, <1>5 DEF Poll
<1>6. ASSUME NEW c \in Callers, Proceed(c) PROVE StartedInTime' /\ TradedOnce'
  <2>1. CASE CheckSignal(c)
    BY <1>0, <2>1, CheckSignalKeepsReplay
  <2>2. CASE MarkExecuted(c)
    BY <1>0, <2>2, MarkExecutedKeepsReplay
  <2>3. CASE Return(c)
    <3>1. /\ Goto(c, "idle") /\ pc[c] = "record" /\ ctx' = ctx
          /\ UNCHANGED <<clock, begun, executed>>
      BY <2>3 DEF Return
    <3> QED BY <1>0, <3>1, MovingKeepsReplay DEF Trading
  <2>4. ASSUME RejectLeg(c) \/ SendLeg(c) \/ LegReplies(c) \/ LegLost(c) \/ Unwind(c)
        PROVE  StartedInTime' /\ TradedOnce'
    <3>1. pc[c] # "idle" /\ UNCHANGED <<clock, begun, executed>>
      BY <2>4 DEF RejectLeg, SendLeg, LegReplies, LegLost, Unwind
    <3>2. \E place \in Trading : Goto(c, place)
      BY <2>4 DEF RejectLeg, SendLeg, LegReplies, LegLost, Unwind, LegFailed,
                  Trading
    <3>3. \A d \in Callers : ctx'[d].signal = ctx[d].signal
      BY <1>6, ProceedKeepsSignals DEF ReplayInv
    <3> QED BY <1>0, <3>1, <3>2, <3>3, MovingKeepsReplay
  <2> QED BY <1>6, <2>1, <2>2, <2>3, <2>4 DEF Proceed
<1>7. ASSUME NEW c \in Callers, NEW s \in Signals, Begin(c, s)
      PROVE  StartedInTime' /\ TradedOnce'
  BY <1>0, <1>7, BeginKeepsReplay
<1>8. ASSUME NEW o \in live, NEW f \in Fills(o), VenueExecutes(o, f)
      PROVE  StartedInTime' /\ TradedOnce'
  <2>1. \A d \in Callers : ctx'[d].signal = ctx[d].signal
    BY <1>8 DEF VenueExecutes, ReplayInv, CallersTyped, Contexts
  <2>2. UNCHANGED <<begun, executed, pc, clock>>
    BY <1>8 DEF VenueExecutes
  <2>3. clock' >= clock
    BY <1>2, <2>2
  <2> QED BY <1>0, <2>1, <2>2, <2>3, QuietStepKeepsReplay
<1> QED BY <1>3, <1>4, <1>5, <1>6, <1>7, <1>8 DEF Next

\* A signal a caller has traded stays out of its reach: it is being traded,
\* its id is still kept, or the signal has expired.
THEOREM Invariance == Spec => []ReplayInv
<1>1. Init => ReplayInv
  BY InitTyped, InitReplay DEF ReplayInv
<1> QED BY <1>1, StepKeepsReplay, PTL DEF Spec

\* Replay protection marks a signal only after its execution and forgets it
\* after a while; even so no caller trades the same signal twice, however
\* many callers share the executor.
THEOREM NoRepeats == Spec => []NoCallerRepeats
<1>1. ReplayInv => NoCallerRepeats
  BY DEF ReplayInv, TradedOnce, NoCallerRepeats
<1> QED BY <1>1, Invariance, PTL

----------------------------------------------------------------------------
(***************************************************************************)
(* The types, the breaker's included.  They are not inductive by           *)
(* themselves: that Pending is never reported takes Concluded.             *)
(***************************************************************************)
\* A non-empty set of naturals has a least element.
LEMMA LeastNat ==
    ASSUME NEW T \in SUBSET Nat, T # {}
    PROVE  \E n \in T : \A m \in T : n <= m
<1> DEFINE Less == OpToRel(<, Nat)
<1>1. IsWellFoundedOn(Less, Nat)
  BY NatLessThanWellFounded
<1>2. ASSUME NEW m \in Nat, NEW k \in Nat PROVE <<m, k>> \in Less <=> m < k
  BY DEF OpToRel
<1> HIDE DEF Less
<1>3. PICK n \in T : \A m \in T : ~ (<<m, n>> \in Less)
  BY <1>1, WFMin
<1>4. \A m \in T : n <= m
  <2> TAKE m \in T
  <2>1. m \in Nat /\ n \in Nat
    OBVIOUS
  <2>2. ~ (m < n)
    BY <1>2, <1>3, <2>1
  <2> QED BY <2>1, <2>2
<1> QED BY <1>4

\* Induction up to a number, for a set.
LEMMA Induct ==
    ASSUME NEW n \in Nat, NEW S, 0 \in S,
           \A i \in 0..n - 1 : i \in S => i + 1 \in S
    PROVE  0..n \subseteq S
<1> DEFINE T == {i \in 0..n : i \notin S}
<1> SUFFICES ASSUME T # {} PROVE FALSE
  OBVIOUS
<1>1. T \in SUBSET Nat
  OBVIOUS
<1>2. PICK m \in T : \A k \in T : m <= k
  BY <1>1, LeastNat
<1>3. m # 0 /\ m \in 1..n /\ m \notin S
  OBVIOUS
<1>4. m - 1 \in 0..n - 1 /\ m - 1 \notin T /\ (m - 1) + 1 = m
  BY <1>2, <1>3
<1>5. m - 1 \in S
  BY <1>3, <1>4
<1> QED BY <1>3, <1>4, <1>5

\* The deque stays a list of times, whatever the window.
LEMMA CleanupTyped ==
    ASSUME NEW times \in Seq(Nat), NEW now
    PROVE  CB!CleanupOldFailures(times, now) \in Seq(Nat)
<1> DEFINE recent == {i \in DOMAIN times : times[i] > now - WindowSeconds}
           first == CHOOSE i \in recent : \A j \in recent : i <= j
<1>1. CASE recent = {}
  <2>1. CB!CleanupOldFailures(times, now) = <<>>
    BY <1>1 DEF CB!CleanupOldFailures
  <2> QED BY <2>1
<1>2. CASE recent # {}
  <2>1. recent \in SUBSET Nat /\ recent \subseteq DOMAIN times
    BY LenProperties
  <2>2. CB!CleanupOldFailures(times, now) = SubSeq(times, first, Len(times))
    BY <1>2 DEF CB!CleanupOldFailures
  <2> HIDE DEF recent
  <2>3. \E i \in recent : \A j \in recent : i <= j
    BY <1>2, <2>1, LeastNat
  <2>4. first \in recent
    BY <2>3
  <2>5. first \in 1..Len(times)
    BY <2>1, <2>4, LenProperties
  <2> HIDE DEF first
  <2>6. SubSeq(times, first, Len(times)) \in Seq(Nat)
    BY <2>5, SubSeqProperties
  <2> QED BY <2>2, <2>6
<1> QED BY <1>1, <1>2

\* Nor do the breaker's methods leave its type.
LEMMA BreakerTyped ==
    ASSUME NEW b \in CB!Breakers, NEW now \in Nat
    PROVE  /\ CB!AfterPoll(b, now) \in CB!Breakers
           /\ CB!AfterFailure(b, now) \in CB!Breakers
<1>1. CB!NewBreaker \in CB!Breakers
  BY DEF CB!NewBreaker, CB!Breakers
<1>2. \A x \in CB!Breakers : CB!AfterPoll(x, now) \in CB!Breakers
  BY <1>1 DEF CB!AfterPoll
<1>3. CB!RecordFailure(b, now) \in CB!Breakers
  <2>1. b.failures \in Seq(Nat) /\ b.trippedAt \in Nat \cup {CB!Never}
    BY DEF CB!Breakers
  <2>2. Append(b.failures, now) \in Seq(Nat)
    BY <2>1, AppendProperties
  <2> DEFINE kept == [b EXCEPT !.failures =
                        CB!CleanupOldFailures(Append(b.failures, now), now)]
  <2>3. kept \in CB!Breakers
    BY <2>2, CleanupTyped DEF CB!Breakers
  <2>4. CB!RecordFailure(b, now) \in {kept, CB!Trip(kept, now)}
    BY DEF CB!RecordFailure
  <2> HIDE DEF kept
  <2>5. CB!Trip(kept, now) \in CB!Breakers
    BY <2>3 DEF CB!Trip, CB!Breakers
  <2> QED BY <2>3, <2>4, <2>5
<1> QED BY <1>2, <1>3 DEF CB!AfterFailure

\* The part of TypeOK about the breaker.
BreakerTypes ==
    /\ breaker \in CB!Breakers
    /\ log \in Seq(Nat) /\ cleared \in 0..Len(log) /\ trips \in SUBSET Nat

\* The observed variables stay well-formed.
LEMMA ObserveTyped ==
    ASSUME BreakerTypes, breaker' \in CB!Breakers, NEW newLog \in Seq(Nat),
           Len(newLog) >= Len(log), CB!Observe(breaker, breaker', newLog)
    PROVE  BreakerTypes'
<1>1. /\ Len(newLog) \in Nat /\ Len(log) \in Nat /\ cleared \in 0..Len(log)
      /\ log' = newLog
  BY LenProperties DEF BreakerTypes, CB!Observe
<1>2. cleared' = Len(newLog) \/ cleared' = cleared
  BY DEF CB!Observe
<1>3. cleared' \in 0..Len(log')
  <2> DEFINE m == Len(newLog)
             n == Len(log)
  <2>1. m \in Nat /\ n \in Nat /\ n <= m /\ cleared \in 0..n
        /\ (cleared' = m \/ cleared' = cleared) /\ Len(log') = m
    BY <1>1, <1>2
  <2> HIDE DEF m, n
  <2> QED BY <2>1
<1>4. trips' \in SUBSET Nat
  <2>1. CB!Tripped(breaker') => breaker'.trippedAt \in Nat
    BY DEF CB!Tripped, CB!Breakers
  <2> QED BY <2>1 DEF CB!Observe, BreakerTypes
<1> QED BY <1>1, <1>3, <1>4 DEF BreakerTypes

\* An execution that is over is Done or Failed.
Concluded ==
    \A c \in Callers :
       pc[c] \in {"mark", "record"} => ctx[c].state \in {"Done", "Failed"}

\* Every execution concludes before it is marked.
LEMMA StepConcludes ==
    ASSUME CallersTyped, CallersTyped', Concluded, [Next]_vars
    PROVE  Concluded'
<1>0. \A d \in Callers : ctx[d] \in Contexts
  BY DEF CallersTyped
<1>1. ASSUME NEW c \in Callers,
             \A d \in Callers \ {c} : pc'[d] = pc[d] /\ ctx'[d] = ctx[d],
             pc'[c] \in {"mark", "record"} =>
                ctx'[c].state \in {"Done", "Failed"}
      PROVE  Concluded'
  BY <1>1 DEF Concluded
<1>2. CASE UNCHANGED <<pc, ctx>>
  BY <1>2 DEF Concluded
<1>3. ASSUME NEW c \in Callers, LegFailed(c) PROVE Concluded'
  <2>1. /\ \A d \in Callers \ {c} : pc'[d] = pc[d] /\ ctx'[d] = ctx[d]
        /\ \/ pc'[c] = "mark" /\ ctx'[c] = [ctx[c] EXCEPT !.state = "Failed"]
           \/ pc'[c] = "unwinding"
    BY <1>3 DEF LegFailed, Goto, CallersTyped
  <2>2. pc'[c] = "mark" => ctx'[c].state = "Failed"
    BY <1>0, <2>1 DEF Contexts
  <2> QED BY <1>1, <2>1, <2>2
<1>4. ASSUME NEW c \in Callers, Proceed(c) PROVE Concluded'
  <2>1. CASE LegFailed(c)
    BY <1>3, <2>1
  <2>2. CASE LegReplies(c) /\ ~ LegFailed(c)
    <3>1. /\ \A d \in Callers \ {c} : pc'[d] = pc[d] /\ ctx'[d] = ctx[d]
          /\ \/ pc'[c] = "mark" /\ ctx'[c] = [ctx[c] EXCEPT !.state = "Done"]
             \/ pc'[c] = "leg2"
      BY <2>2 DEF LegReplies, Goto, CallersTyped
    <3>2. pc'[c] = "mark" => ctx'[c].state = "Done"
      BY <1>0, <3>1 DEF Contexts
    <3> QED BY <1>1, <3>1, <3>2
  <2>3. CASE Unwind(c)
    <3>1. /\ \A d \in Callers \ {c} : pc'[d] = pc[d] /\ ctx'[d] = ctx[d]
          /\ ctx'[c] = [ctx[c] EXCEPT !.state = "Failed", !.unwound = TRUE]
      BY <2>3 DEF Unwind, Goto, CallersTyped
    <3>2. ctx'[c].state = "Failed"
      BY <1>0, <3>1 DEF Contexts
    <3> QED BY <1>1, <3>1, <3>2
  <2>4. CASE MarkExecuted(c)
    <3>1. /\ pc[c] = "mark" /\ ctx' = ctx
          /\ \A d \in Callers \ {c} : pc'[d] = pc[d]
      BY <2>4 DEF MarkExecuted, Goto, CallersTyped
    <3> QED BY <1>1, <3>1 DEF Concluded
  <2>5. CASE SendLeg(c)
    <3>1. /\ \A d \in Callers \ {c} : pc'[d] = pc[d] /\ ctx'[d] = ctx[d]
          /\ pc'[c] \in {"leg1Sent", "leg2Sent"}
      BY <2>5 DEF SendLeg, Goto, CallersTyped
    <3> QED BY <1>1, <3>1
  <2>6. CASE CheckSignal(c) \/ Return(c)
    <3>1. /\ \A d \in Callers \ {c} : pc'[d] = pc[d] /\ ctx'[d] = ctx[d]
          /\ pc'[c] \in {"idle", "leg1"}
      BY <2>6 DEF CheckSignal, Return, Goto, CallersTyped
    <3> QED BY <1>1, <3>1
  <2> QED BY <1>4, <2>1, <2>2, <2>3, <2>4, <2>5, <2>6
          DEF Proceed, RejectLeg, LegLost
<1>5. ASSUME NEW c \in Callers, NEW s \in Signals, Begin(c, s)
      PROVE  Concluded'
  <2>1. /\ \A d \in Callers \ {c} : pc'[d] = pc[d] /\ ctx'[d] = ctx[d]
        /\ pc'[c] = "admitted"
    BY <1>5 DEF Begin, Goto, CallersTyped
  <2> QED BY <1>1, <2>1
<1>6. ASSUME NEW o \in live, NEW f \in Fills(o), VenueExecutes(o, f)
      PROVE  Concluded'
  <2>1. pc' = pc /\ \A d \in Callers : ctx'[d].state = ctx[d].state
    BY <1>6 DEF VenueExecutes, CallersTyped, Contexts
  <2> QED BY <2>1 DEF Concluded
<1> QED BY <1>2, <1>4, <1>5, <1>6 DEF Next, Tick, Poll, vars

\* An amount that is added to.
LEMMA AddedTyped ==
    ASSUME NEW t \in [Signals -> [Venues -> Nat]], NEW s \in Signals,
           NEW v \in Venues, NEW k \in Nat
    PROVE  [t EXCEPT ![s][v] = @ + k] \in [Signals -> [Venues -> Nat]]
OBVIOUS

\* The types hold at first.
LEMMA InitTypes == Init => TypeOK
<1> SUFFICES ASSUME Init PROVE TypeOK
  OBVIOUS
<1>1. CallersTyped
  BY InitTyped
<1>2. clock \in 0..MaxClock
  BY CallersAssumption DEF Init, CB!Init
<1>3. breaker \in CB!Breakers /\ log = <<>> /\ cleared = 0 /\ trips = {}
  BY DEF Init, CB!Init, CB!NewBreaker, CB!Breakers
<1>4. executed \in [Signals -> Nat \cup {Never}]
  BY DEF Init
<1>5. /\ booked \in [Signals -> [Venues -> Nat]]
      /\ filled \in [Signals -> [Venues -> Nat]]
      /\ outcome \in [Signals -> SUBSET {"Done", "Failed"}]
  BY DEF Init
<1>6. log \in Seq(Nat) /\ cleared \in 0..Len(log) /\ trips \in SUBSET Nat
  BY <1>3
<1> QED BY <1>1, <1>2, <1>3, <1>4, <1>5, <1>6 DEF TypeOK, CallersTyped

\* Every step keeps the types.
LEMMA StepTypes == TypeOK /\ Concluded /\ [Next]_vars => TypeOK' /\ Concluded'
<1> SUFFICES ASSUME TypeOK, Concluded, [Next]_vars PROVE TypeOK' /\ Concluded'
  OBVIOUS
<1>0. CallersTyped /\ CallersTyped'
  <2>1. \A n \in 0..MaxClock : n \in Nat
    BY CallersAssumption
  <2>2. \A n \in Nat \cup {Never} : n \in Int
    BY DEF Never, CB!Never
  <2>3. CallersTyped
    BY <2>1, <2>2 DEF TypeOK, CallersTyped
  <2> QED BY <2>3, StepTyped
<1>1. BreakerTypes /\ clock \in Nat
  BY <1>0 DEF TypeOK, BreakerTypes, CallersTyped
<1> DEFINE Ids == [Signals -> Nat \cup {Never}]
           Amounts == [Signals -> [Venues -> Nat]]
           Outcomes == [Signals -> SUBSET {"Done", "Failed"}]
           Rest == /\ clock \in 0..MaxClock /\ executed \in Ids
                   /\ booked \in Amounts /\ filled \in Amounts
                   /\ outcome \in Outcomes
<1>2. Rest
  BY DEF TypeOK
<1>. SUFFICES BreakerTypes' /\ Rest'
  BY <1>0, StepConcludes DEF TypeOK, CallersTyped, BreakerTypes
<1>3. UNCHANGED breakerVars => BreakerTypes'
  BY <1>1 DEF breakerVars, BreakerTypes
<1>4. CASE UNCHANGED vars
  BY <1>2, <1>3, <1>4 DEF vars, venueVars
<1>5. CASE Tick
  <2>1. clock' \in 0..MaxClock
    BY <1>2, <1>5, CallersAssumption DEF Tick
  <2> QED BY <1>2, <1>3, <1>5, <2>1 DEF Tick, venueVars
<1>6. ASSUME breaker' = CB!AfterPoll(breaker, clock),
             CB!Observe(breaker, breaker', log)
      PROVE  BreakerTypes'
  <2>1. breaker' \in CB!Breakers
    BY <1>1, <1>6, BreakerTyped DEF BreakerTypes
  <2>2. log \in Seq(Nat) /\ Len(log) >= Len(log)
    BY <1>1, LenProperties DEF BreakerTypes
  <2> QED BY <1>1, <1>6, <2>1, <2>2, ObserveTyped
<1>7. CASE Poll
  BY <1>2, <1>6, <1>7 DEF Poll, venueVars
<1>8. ASSUME NEW c \in Callers, NEW s \in Signals, Begin(c, s)
      PROVE  BreakerTypes' /\ Rest'
  BY <1>2, <1>6, <1>8 DEF Begin, venueVars
<1>9. ASSUME NEW o \in live, NEW f \in Fills(o), VenueExecutes(o, f)
      PROVE  BreakerTypes' /\ Rest'
  <2>1. f \in Nat /\ o.signal \in Signals /\ o.venue \in Venues
    BY <1>0, FillsAreNat DEF CallersTyped, Orders
  <2>2. filled' = [filled EXCEPT ![o.signal][o.venue] = @ + f]
        /\ UNCHANGED <<clock, breakerVars, executed, booked, outcome>>
    BY <1>9 DEF VenueExecutes
  <2>3. filled' \in Amounts
    BY <1>2, <2>1, <2>2
  <2> QED BY <1>2, <1>3, <2>2, <2>3
<1>10. ASSUME NEW c \in Callers, Proceed(c) PROVE BreakerTypes' /\ Rest'
  <2> DEFINE s == ctx[c].signal
  <2>1. s \in Signals
    BY <1>0 DEF CallersTyped, Contexts
  <2>2. CASE CheckSignal(c)
    <3>1. executed' = CleanedUp /\ UNCHANGED <<clock, breakerVars, booked, venueVars, outcome>>
      BY <2>2 DEF CheckSignal
    <3>2. executed' \in Ids
      BY <1>2, <3>1 DEF CleanedUp
    <3> QED BY <1>2, <1>3, <3>1, <3>2 DEF venueVars
  <2>3. CASE RejectLeg(c) \/ SendLeg(c) \/ LegLost(c) \/ Unwind(c)
    <3>1. UNCHANGED <<clock, breakerVars, executed, booked, filled, outcome>>
      BY <2>3 DEF RejectLeg, SendLeg, LegLost, Unwind, venueVars
    <3> QED BY <1>2, <1>3, <3>1
  <2>4. CASE LegReplies(c)
    <3>1. UNCHANGED <<clock, breakerVars, executed, filled, outcome>>
      BY <2>4 DEF LegReplies, venueVars
    <3>2. \/ booked' = booked
          \/ booked' = [booked EXCEPT ![s][VenueOf(c)] = @ + ReportedFill(c)]
      BY <2>4 DEF LegReplies
    <3>3. ReportedFill(c) \in Nat /\ VenueOf(c) \in Venues
      <4>1. ctx[c].reply # NoReply
        BY <2>4 DEF LegReplies
      <4> QED BY <1>0, <4>1, QuantitiesAreNat DEF VenueOf, LegVenue, Venues
    <3>4. booked' \in Amounts
      <4>1. booked \in [Signals -> [Venues -> Nat]]
        BY <1>2
      <4>2. [booked EXCEPT ![s][VenueOf(c)] = @ + ReportedFill(c)]
               \in [Signals -> [Venues -> Nat]]
        BY <2>1, <3>3, <4>1, AddedTyped
      <4> QED BY <3>2, <4>1, <4>2
    <3> QED BY <1>2, <1>3, <3>1, <3>4
  <2>5. CASE MarkExecuted(c)
    <3>1. executed' \in Ids
      BY <1>1, <1>2, <2>5 DEF MarkExecuted
    <3> QED BY <1>2, <1>3, <2>5, <3>1 DEF MarkExecuted, venueVars
  <2>6. CASE Return(c)
    <3>1. /\ UNCHANGED <<clock, executed, booked, filled>>
          /\ outcome' = [outcome EXCEPT ![s] = @ \cup {ctx[c].state}]
      BY <2>6 DEF Return, venueVars
    <3>2. BreakerTypes'
      <4>1. CASE ctx[c].state = "Done"
        BY <1>3, <2>6, <4>1 DEF Return
      <4>2. CASE ctx[c].state # "Done"
        <5>1. /\ breaker' = CB!AfterFailure(breaker, clock)
              /\ CB!Observe(breaker, breaker', Append(log, clock))
          BY <2>6, <4>2 DEF Return
        <5>2. breaker' \in CB!Breakers
          BY <1>1, <5>1, BreakerTyped DEF BreakerTypes
        <5>3. /\ Append(log, clock) \in Seq(Nat)
              /\ Len(Append(log, clock)) >= Len(log)
          BY <1>1, AppendProperties, LenProperties DEF BreakerTypes
        <5> QED BY <1>1, <5>1, <5>2, <5>3, ObserveTyped
      <4> QED BY <4>1, <4>2
    <3>3. ctx[c].state \in {"Done", "Failed"}
      BY <2>6 DEF Return, Concluded
    <3>4. outcome' \in Outcomes
      BY <1>2, <3>1, <3>3
    <3> QED BY <1>2, <3>1, <3>2, <3>4
  <2> QED BY <1>10, <2>2, <2>3, <2>4, <2>5, <2>6 DEF Proceed
<1> QED BY <1>4, <1>5, <1>7, <1>8, <1>9, <1>10 DEF Next

\* Books, fills, contexts, orders and the breaker stay well-formed.
THEOREM TypeCorrect == Spec => []TypeOK
<1>1. Init => Concluded
  BY DEF Init, Concluded
<1> QED BY <1>1, InitTypes, StepTypes, PTL DEF Spec

----------------------------------------------------------------------------
(***************************************************************************)
(* Totals over the callers.  The callers are numbered, and a total is the  *)
(* last of the partial sums along the numbers.                             *)
(***************************************************************************)
Count == Cardinality(Callers)
Roll == CHOOSE e \in [1..Count -> Callers] :
           /\ \A c \in Callers : \E i \in 1..Count : e[i] = c
           /\ \A i, j \in 1..Count : e[i] = e[j] => i = j

\* total is the sum over the callers of part.
IsTotal(total, part) ==
    \E p \in [0..Count -> Int] :
       /\ p[0] = 0 /\ p[Count] = total
       /\ \A i \in 1..Count : p[i] = p[i - 1] + part[Roll[i]]

\* Every caller has one number.
LEMMA RollCall ==
    /\ Count \in Nat /\ Roll \in [1..Count -> Callers]
    /\ \A c \in Callers : \E i \in 1..Count : Roll[i] = c
    /\ \A i, j \in 1..Count : Roll[i] = Roll[j] => i = j
<1> DEFINE IsRoll(e) == /\ \A c \in Callers : \E i \in 1..Count : e[i] = c
                        /\ \A i, j \in 1..Count : e[i] = e[j] => i = j
<1>1. Count \in Nat /\ ExistsBijection(1..Count, Callers)
  BY CallersAssumption, FS_CardinalityType DEF Count
<1>2. PICK e \in Bijection(1..Count, Callers) : TRUE
  BY <1>1 DEF ExistsBijection
<1>3. e \in [1..Count -> Callers] /\ IsRoll(e)
  BY <1>2 DEF Bijection, Injection, Surjection, IsInjective
<1>4. Roll = CHOOSE g \in [1..Count -> Callers] : IsRoll(g)
  BY DEF Roll
<1>5. Roll \in [1..Count -> Callers] /\ IsRoll(Roll)
  <2> HIDE DEF IsRoll
  <2> QED BY <1>3, <1>4
<1> QED BY <1>1, <1>5

\* Nobody has contributed anything.
LEMMA TotalOfNothing ==
    ASSUME NEW part, \A c \in Callers : part[c] = 0
    PROVE  IsTotal(0, part)
<1> DEFINE p == [i \in 0..Count |-> 0]
<1>1. Count \in Nat /\ \A i \in 1..Count : part[Roll[i]] = 0
  BY RollCall
<1>2. p \in [0..Count -> Int] /\ p[0] = 0 /\ p[Count] = 0
  BY <1>1
<1>3. \A i \in 1..Count : p[i] = p[i - 1] + part[Roll[i]]
  BY <1>1
<1> HIDE DEF p
<1> QED BY <1>2, <1>3 DEF IsTotal

\* One caller contributes k more.
LEMMA TotalGrows ==
    ASSUME NEW part \in [Callers -> Int], NEW total \in Int,
           IsTotal(total, part), NEW c \in Callers, NEW k \in Int,
           NEW new \in [Callers -> Int], new[c] = part[c] + k,
           \A d \in Callers \ {c} : new[d] = part[d]
    PROVE  IsTotal(total + k, new)
<1>1. PICK p \in [0..Count -> Int] :
         /\ p[0] = 0 /\ p[Count] = total
         /\ \A i \in 1..Count : p[i] = p[i - 1] + part[Roll[i]]
  BY DEF IsTotal
<1>2. PICK at \in 1..Count : Roll[at] = c
  BY RollCall
<1> DEFINE q == [i \in 0..Count |-> IF i < at THEN p[i] ELSE p[i] + k]
<1>3. Count \in Nat /\ Roll \in [1..Count -> Callers]
  BY RollCall
<1>4. q \in [0..Count -> Int] /\ q[0] = 0 /\ q[Count] = total + k
  BY <1>1, <1>3, SMTT(30)
<1>5. ASSUME NEW i \in 1..Count PROVE q[i] = q[i - 1] + new[Roll[i]]
  <2>1. /\ i - 1 \in 0..Count /\ i \in 0..Count
        /\ p[i] \in Int /\ p[i - 1] \in Int
        /\ p[i] = p[i - 1] + part[Roll[i]]
        /\ part[Roll[i]] \in Int
    BY <1>1, <1>3
  <2>2. CASE i = at
    <3>1. new[Roll[i]] = part[Roll[i]] + k
      BY <1>2, <2>2
    <3>2. q[i] = p[i] + k /\ q[i - 1] = p[i - 1]
      BY <2>1, <2>2
    <3> HIDE DEF q
    <3> QED BY <2>1, <3>1, <3>2
  <2>3. CASE i # at
    <3>1. Roll[i] # c
      BY <1>2, <2>3, RollCall
    <3>2. new[Roll[i]] = part[Roll[i]]
      BY <1>3, <3>1
    <3>3. \/ q[i] = p[i] /\ q[i - 1] = p[i - 1]
          \/ q[i] = p[i] + k /\ q[i - 1] = p[i - 1] + k
      BY <2>1, <2>3
    <3> HIDE DEF q
    <3> QED BY <2>1, <3>2, <3>3
  <2> QED BY <2>2, <2>3
<1> HIDE DEF q
<1> QED BY <1>4, <1>5 DEF IsTotal

\* When every caller's contribution to one total is at most so much above
\* its contribution to another, the totals differ by that at most per caller.
LEMMA TotalsApart ==
    ASSUME NEW more \in [Callers -> Int], NEW less \in [Callers -> Int],
           NEW high, NEW low, IsTotal(high, more), IsTotal(low, less),
           NEW each \in Nat, \A c \in Callers : more[c] - less[c] <= each
    PROVE  high - low <= Count * each
<1>1. PICK p \in [0..Count -> Int] :
         /\ p[0] = 0 /\ p[Count] = high
         /\ \A i \in 1..Count : p[i] = p[i - 1] + more[Roll[i]]
  BY DEF IsTotal
<1>2. PICK q \in [0..Count -> Int] :
         /\ q[0] = 0 /\ q[Count] = low
         /\ \A i \in 1..Count : q[i] = q[i - 1] + less[Roll[i]]
  BY DEF IsTotal
<1>3. Count \in Nat /\ Roll \in [1..Count -> Callers]
  BY RollCall
<1> DEFINE S == {i \in 0..Count : p[i] - q[i] <= i * each}
<1>4. 0 \in S
  BY <1>1, <1>2, <1>3
<1>5. ASSUME NEW i \in 0..Count - 1, i \in S PROVE i + 1 \in S
  <2>1. i + 1 \in 1..Count /\ (i + 1) - 1 = i /\ i \in Nat /\ i + 1 \in 0..Count
    BY <1>3
  <2> DEFINE j == i + 1
  <2>2. p[j] = p[i] + more[Roll[j]] /\ q[j] = q[i] + less[Roll[j]]
    BY <1>1, <1>2, <2>1
  <2>3. Roll[j] \in Callers
    BY <1>3, <2>1
  <2>4. /\ more[Roll[j]] \in Int /\ less[Roll[j]] \in Int
        /\ p[i] \in Int /\ q[i] \in Int
        /\ more[Roll[j]] - less[Roll[j]] <= each
    <3>1. p[i] \in Int /\ q[i] \in Int
      BY <1>3
    <3> HIDE DEF j
    <3> QED BY <2>3, <3>1
  <2>5. p[i] - q[i] <= i * each
    BY <1>5
  <2>6. j * each = i * each + each /\ i * each \in Int
    BY <2>1
  <2>7. p[j] - q[j] <= j * each
    <3> DEFINE a == more[Roll[j]]
               b == less[Roll[j]]
               m == i * each
               n == j * each
    <3>1. /\ a \in Int /\ b \in Int /\ a - b <= each /\ m \in Int
          /\ n = m + each /\ p[i] - q[i] <= m
          /\ p[j] = p[i] + a /\ q[j] = q[i] + b
      BY <2>2, <2>4, <2>5, <2>6
    <3> HIDE DEF a, b, m, n
    <3>2. p[j] - q[j] <= n
      BY <2>4, <3>1
    <3> QED BY <3>2 DEF n
  <2> QED BY <2>1, <2>7
<1>6. Count \in S
  <2> HIDE DEF S
  <2>1. 0..Count \subseteq S
    BY <1>3, <1>4, <1>5, Induct
  <2> QED BY <1>3, <2>1
<1> QED BY <1>1, <1>2, <1>6

----------------------------------------------------------------------------
(***************************************************************************)
(* What one caller has traded for one signal at the venues, f, and what it *)
(* has booked for it, b, follows from where it is in execute.  (c, s) is a *)
(* caller and a signal; s is quoted, so that a swap's slippage is bounded. *)
(***************************************************************************)
Books == [Signals -> [Venues -> Nat]]

OrdersOf(c, s) == {o \in live : o.caller = c /\ o.signal = s}

\* The caller is past the checks with the signal.
Engaged(c, s) == pc[c] \notin {"idle", "admitted"} /\ ctx[c].signal = s

\* Nothing is booked that was not traded.
Covered(s, f, b) == \A v \in Venues : b[v] <= f[v] + Tolerance(s, v)

\* Everything traded is booked, and both legs cancel out.
Settled(s, f, b) ==
    /\ \A v \in Venues : f[v] <= b[v] + Tolerance(s, v)
    /\ f[Sell(s)] <= f[Buy(s)] + Slippage
    /\ f[Buy(s)] <= f[Sell(s)] + LotSize - 1 + Slippage

Untouched(c, s, f, b) ==
    OrdersOf(c, s) = {} /\ \A v \in Venues : f[v] = 0 /\ b[v] = 0

\* The order just sent is the only one: it is still to come, or its fill is
\* the reply.
Awaited(c, s, filledQty) ==
    \/ /\ ctx[c].reply = NoReply /\ filledQty = 0
       /\ OrdersOf(c, s) \subseteq {Order(c)}
    \/ /\ ctx[c].reply \in Fills(Order(c)) /\ filledQty = ctx[c].reply
       /\ OrdersOf(c, s) = {}

\* The first leg is booked, and the second trades what was booked.
FirstLegBooked(c, s, f, b) ==
    /\ b[Buy(s)] = ctx[c].leg1Fill
    /\ f[Buy(s)] <= b[Buy(s)] + Tolerance(s, Buy(s))
    /\ b[Sell(s)] = 0

\* While the caller is engaged.  What it unwinds is only covered.
Underway(c, s, f, b) ==
    /\ begun[c][s] = 1
    /\ pc[c] = "leg1" => Untouched(c, s, f, b)
    /\ pc[c] = "leg1Sent" =>
          /\ b[Buy(s)] = 0 /\ b[Sell(s)] = 0 /\ f[Sell(s)] = 0
          /\ Awaited(c, s, f[Buy(s)])
    /\ pc[c] = "leg2" =>
          /\ FirstLegBooked(c, s, f, b) /\ f[Sell(s)] = 0
          /\ OrdersOf(c, s) = {}
    /\ pc[c] = "leg2Sent" =>
          FirstLegBooked(c, s, f, b) /\ Awaited(c, s, f[Sell(s)])
    /\ pc[c] \in {"mark", "record"} =>
          \/ ctx[c].state = "Failed"
          \/ /\ ctx[c].state = "Done"
             /\ Settled(s, f, b) /\ OrdersOf(c, s) = {}

\* Before and after.  A late fill can only be that of a reported failure.
Over(c, s, f, b) ==
    \/ begun[c][s] = 0 /\ Untouched(c, s, f, b)
    \/ begun[c][s] = 1 /\ Settled(s, f, b) /\ OrdersOf(c, s) = {}
    \/ begun[c][s] = 1 /\ "Failed" \in outcome[s]

Ledger(c, s, f, b) ==
    /\ Covered(s, f, b)
    /\ Engaged(c, s) => Underway(c, s, f, b)
    /\ ~ Engaged(c, s) => Over(c, s, f, b)

\* The legs trade at different venues.
LEMMA LegVenues ==
    ASSUME NEW s \in Signals
    PROVE  /\ Buy(s) \in Venues /\ Sell(s) \in Venues /\ Buy(s) # Sell(s)
           /\ \A v \in Venues : v = Buy(s) \/ v = Sell(s)
           /\ Buy(s) = "cex" => Direction[s] = "BuyCexSellDex"
           /\ Buy(s) = "dex" => Direction[s] = "BuyDexSellCex"
BY SignalsAssumption DEF Buy, Sell, LegVenue, Venues, Directions

\* Where a caller's leg trades.
LEMMA VenueOfLeg ==
    ASSUME NEW c \in Callers
    PROVE  /\ pc[c] \in {"leg1", "leg1Sent"} =>
                 LegOf(c) = 1 /\ VenueOf(c) = Buy(ctx[c].signal)
           /\ pc[c] \in {"leg2", "leg2Sent"} =>
                 LegOf(c) = 2 /\ VenueOf(c) = Sell(ctx[c].signal)
BY DEF LegOf, VenueOf, Buy, Sell

\* No tolerance exceeds the slippage.
LEMMA ToleranceIsNat ==
    ASSUME NEW s, NEW v
    PROVE  /\ Tolerance(s, v) \in Nat /\ Tolerance(s, v) <= Slippage
           /\ Slippage \in Nat
BY ExecutorAssumption DEF Tolerance

\* round_quantity cuts off less than a lot.
LEMMA RoundingCutsLessThanALot ==
    ASSUME NEW a \in Nat
    PROVE  RoundQuantity(a) <= a /\ a <= RoundQuantity(a) + LotSize - 1
<1> DEFINE q == a \div LotSize
<1>1. LotSize \in Nat \ {0}
  BY ExecutorAssumption
<1>2. q \in Nat /\ LotSize * q <= a /\ a < LotSize * q + LotSize
  BY <1>1, SMT
<1>3. RoundQuantity(a) = q * LotSize
  BY DEF RoundQuantity
<1> HIDE DEF q
<1>4. q * LotSize = LotSize * q /\ LotSize * q \in Nat
  BY <1>1, <1>2
<1> QED BY <1>1, <1>2, <1>3, <1>4

\* What a successful leg reports is, up to slippage, what it has traded.
LEMMA GoodFill ==
    ASSUME CallersTyped, NEW c \in Callers,
           pc[c] \in {"leg1Sent", "leg2Sent"},
           NEW s \in Quoted, s = ctx[c].signal,
           NEW v, v = VenueOf(c), NEW got, got = ctx[c].reply,
           NEW reported, reported = ReportedFill(c),
           got \in Fills(Order(c)), Succeeded(c)
    PROVE  /\ got \in Nat /\ reported \in Nat
           /\ reported <= got + Tolerance(s, v)
           /\ got <= reported + Tolerance(s, v)
           /\ v = "cex" => got = OrderQty(c)
           /\ v = "dex" => reported = Amount(c)
<1> DEFINE ord == Order(c)
           tol == Tolerance(s, v)
<1>1. s \in Signals /\ OrderQty(c) \in Nat /\ Amount(c) \in Nat
      /\ got \in Nat \cup {NoReply}
  BY QuantitiesAreNat DEF CallersTyped, Contexts
<1>2. ord.venue = v /\ ord.signal = s /\ ord.qty = OrderQty(c)
  BY DEF Order
<1>3. v \in Venues /\ (v = "cex" \/ v = "dex")
  BY <1>1, LegVenues, VenueOfLeg DEF Venues
<1>4. got \in Fills(ord) /\ tol \in Nat /\ Slippage \in Nat /\ s \in Quoted
  BY ToleranceIsNat
<1>5. /\ v = "cex" => reported = got /\ got = OrderQty(c)
      /\ v = "dex" => /\ reported = Amount(c) /\ OrderQty(c) = Amount(c)
                     /\ got > 0
  BY DEF ReportedFill, Succeeded, Status, OrderQty
<1>6. v = "dex" /\ Direction[s] # "BuyCexSellDex" => tol = Slippage
  BY <1>1, SignalsAssumption DEF Tolerance, Buy, LegVenue
<1> HIDE DEF ord, tol
<1>7. got \in Nat
  BY <1>1, <1>2, <1>4 DEF Fills
<1>8. CASE v = "cex"
  <2>1. reported = got /\ got = OrderQty(c)
    BY <1>5, <1>8
  <2>2. reported <= got + tol /\ got <= reported + tol
    BY <1>4, <1>7, <1>8, <2>1
  <2>3. v # "dex"
    BY <1>8
  <2> QED BY <1>7, <2>1, <2>2, <2>3 DEF tol
<1>9. CASE v = "dex"
  <2>1. reported = Amount(c) /\ OrderQty(c) = Amount(c) /\ got > 0
    BY <1>5, <1>9
  <2>2. reported <= got + tol /\ got <= reported + tol
    <3>1. CASE Direction[s] = "BuyCexSellDex"
      <4>1. got = ord.qty
        BY <1>2, <1>4, <1>7, <1>9, <2>1, <3>1 DEF Fills
      <4> QED BY <1>1, <1>2, <1>4, <1>7, <2>1, <4>1
    <3>2. CASE Direction[s] # "BuyCexSellDex"
      <4>1. got <= ord.qty + Slippage /\ got >= ord.qty - Slippage
        BY <1>1, <1>2, <1>4, <1>7, <1>9, <2>1, <3>2 DEF Fills
      <4> QED BY <1>1, <1>2, <1>4, <1>6, <1>7, <1>9, <2>1, <3>2, <4>1
    <3> QED BY <3>1, <3>2
  <2>3. v # "cex"
    BY <1>9
  <2> QED BY <1>1, <1>7, <2>1, <2>2, <2>3 DEF tol
<1> QED BY <1>3, <1>8, <1>9

\* What a caller sees of its order.
LEMMA SameOrder ==
    ASSUME NEW c \in Callers,
           LegOf(c)' = LegOf(c), ctx'[c].signal = ctx[c].signal,
           ctx'[c].leg1Fill = ctx[c].leg1Fill
    PROVE  Order(c)' = Order(c)
<1>1. VenueOf(c)' = VenueOf(c)
  BY DEF VenueOf
<1>2. Amount(c)' = Amount(c)
  BY DEF Amount
<1>3. OrderQty(c)' = OrderQty(c)
  BY <1>1, <1>2 DEF OrderQty
<1> QED BY <1>1, <1>3 DEF Order

\* A step that is not the caller's, or not about the signal.
LEMMA FrameKeepsLedger ==
    ASSUME NEW c \in Callers, NEW s \in Signals, NEW f, NEW b,
           Ledger(c, s, f, b), begun'[c][s] = begun[c][s],
           outcome[s] \subseteq outcome'[s],
           OrdersOf(c, s)' \subseteq OrdersOf(c, s),
           \/ pc'[c] = pc[c] /\ ctx'[c] = ctx[c]
           \/ ~ Engaged(c, s) /\ ~ Engaged(c, s)'
    PROVE  Ledger(c, s, f, b)'
<1>1. Covered(s, f, b)'
  BY DEF Ledger, Covered
<1>2. CASE ~ Engaged(c, s) /\ ~ Engaged(c, s)'
  <2>1. Over(c, s, f, b)'
    BY <1>2 DEF Ledger, Over, Untouched, Settled
  <2> QED BY <1>1, <1>2, <2>1 DEF Ledger
<1>3. CASE /\ pc'[c] = pc[c] /\ ctx'[c] = ctx[c]
           /\ ~ (~ Engaged(c, s) /\ ~ Engaged(c, s)')
  <2>1. Engaged(c, s) /\ Engaged(c, s)'
    BY <1>3 DEF Engaged
  <2>2. Order(c)' = Order(c)
    BY <1>3, SameOrder DEF LegOf
  <2>3. \A q : Awaited(c, s, q) => Awaited(c, s, q)'
    BY <1>3, <2>2 DEF Awaited
  <2>4. Underway(c, s, f, b)
    BY <2>1 DEF Ledger
  <2>5. (begun[c][s] = 1)' /\ (pc[c] = "leg1" => Untouched(c, s, f, b))'
    BY <1>3, <2>4 DEF Underway, Untouched
  <2>6. (pc[c] = "leg1Sent" =>
          /\ b[Buy(s)] = 0 /\ b[Sell(s)] = 0 /\ f[Sell(s)] = 0
          /\ Awaited(c, s, f[Buy(s)]))'
    BY <1>3, <2>3, <2>4 DEF Underway
  <2>7. FirstLegBooked(c, s, f, b) => FirstLegBooked(c, s, f, b)'
    BY <1>3 DEF FirstLegBooked
  <2>8. (pc[c] = "leg2" =>
          /\ FirstLegBooked(c, s, f, b) /\ f[Sell(s)] = 0
          /\ OrdersOf(c, s) = {})'
    BY <1>3, <2>4, <2>7 DEF Underway
  <2>9. (pc[c] = "leg2Sent" =>
          FirstLegBooked(c, s, f, b) /\ Awaited(c, s, f[Sell(s)]))'
    BY <1>3, <2>3, <2>4, <2>7 DEF Underway
  <2>10. (pc[c] \in {"mark", "record"} =>
          \/ ctx[c].state = "Failed"
          \/ /\ ctx[c].state = "Done"
             /\ Settled(s, f, b) /\ OrdersOf(c, s) = {})'
    BY <1>3, <2>4 DEF Underway, Settled
  <2>11. Underway(c, s, f, b)'
    BY <2>5, <2>6, <2>8, <2>9, <2>10 DEF Underway
  <2> QED BY <1>1, <2>1, <2>11 DEF Ledger
<1> QED BY <1>2, <1>3

\* A failed leg leaves nothing to answer for but what was covered before.
LEMMA FailingKeepsLedger ==
    ASSUME CallersTyped, NEW c \in Callers, NEW s \in Signals,
           s = ctx[c].signal, NEW f, NEW b, Ledger(c, s, f, b), LegFailed(c),
           pc[c] \in {"leg1", "leg1Sent", "leg2", "leg2Sent"}, begun' = begun
    PROVE  Ledger(c, s, f, b)'
<1>1. Engaged(c, s) /\ begun[c][s] = 1 /\ Covered(s, f, b)
  BY DEF Engaged, Ledger, Underway
<1>2. /\ \/ pc'[c] = "mark" /\ ctx'[c] = [ctx[c] EXCEPT !.state = "Failed"]
         \/ pc'[c] = "unwinding" /\ ctx'[c] = ctx[c]
      /\ ctx[c] \in Contexts
  BY DEF LegFailed, Goto, CallersTyped
<1>3. /\ pc'[c] \in {"mark", "unwinding"} /\ ctx'[c].signal = s
      /\ pc'[c] = "mark" => ctx'[c].state = "Failed"
  BY <1>2 DEF Contexts
<1>4. Engaged(c, s)' /\ Underway(c, s, f, b)'
  BY <1>1, <1>3 DEF Engaged, Underway
<1> QED BY <1>1, <1>4 DEF Ledger, Covered

\* The order that was sent is the only one of the caller for the signal.
LEMMA SendingKeepsLedger ==
    ASSUME CallersTyped, NEW c \in Callers, NEW s \in Signals,
           s = ctx[c].signal, NEW f, NEW b, Ledger(c, s, f, b), SendLeg(c)
    PROVE  Ledger(c, s, f, b)'
<1>1. /\ pc[c] \in {"leg1", "leg2"} /\ begun' = begun
      /\ live' = live \cup {Order(c)}
      /\ pc' = [pc EXCEPT ![c] = IF LegOf(c) = 1 THEN "leg1Sent" ELSE "leg2Sent"]
      /\ ctx' = [ctx EXCEPT ![c].reply = NoReply]
  BY DEF SendLeg, Goto
<1>2. /\ pc[c] = "leg1" => LegOf(c) = 1 /\ pc'[c] = "leg1Sent"
      /\ pc[c] = "leg2" => LegOf(c) = 2 /\ pc'[c] = "leg2Sent"
  BY <1>1 DEF LegOf, CallersTyped
<1>3. /\ ctx[c] \in Contexts /\ ctx'[c] = [ctx[c] EXCEPT !.reply = NoReply]
  BY <1>1 DEF CallersTyped
<1>4. /\ ctx'[c].signal = s /\ ctx'[c].reply = NoReply
      /\ ctx'[c].leg1Fill = ctx[c].leg1Fill
  BY <1>3 DEF Contexts
<1>5. Engaged(c, s) /\ Engaged(c, s)' /\ Covered(s, f, b)'
  BY <1>1, <1>2, <1>4 DEF Engaged, Ledger, Covered
<1>6. Underway(c, s, f, b) /\ OrdersOf(c, s) = {}
  BY <1>1, <1>5 DEF Ledger, Underway, Untouched
<1>7. Order(c)' = Order(c)
  <2>1. LegOf(c)' = LegOf(c)
    BY <1>1, <1>2 DEF LegOf
  <2> QED BY <1>4, <2>1, SameOrder
<1>8. OrdersOf(c, s)' \subseteq {Order(c)'}
  BY <1>1, <1>6, <1>7 DEF OrdersOf
<1>9. \A q : q = 0 => Awaited(c, s, q)'
  BY <1>4, <1>8 DEF Awaited
<1>10. CASE pc[c] = "leg1"
  <2>1. Untouched(c, s, f, b) /\ Buy(s) \in Venues /\ Sell(s) \in Venues
    BY <1>6, <1>10, LegVenues DEF Underway
  <2>2. Underway(c, s, f, b)'
    BY <1>1, <1>2, <1>6, <1>9, <1>10, <2>1 DEF Underway, Untouched
  <2> QED BY <1>5, <2>2 DEF Ledger
<1>11. CASE pc[c] = "leg2"
  <2>1. FirstLegBooked(c, s, f, b) /\ f[Sell(s)] = 0
    BY <1>6, <1>11 DEF Underway
  <2>2. FirstLegBooked(c, s, f, b)'
    BY <1>4, <2>1 DEF FirstLegBooked
  <2>3. Underway(c, s, f, b)'
    BY <1>1, <1>2, <1>6, <1>9, <1>11, <2>1, <2>2 DEF Underway
  <2> QED BY <1>5, <2>3 DEF Ledger
<1> QED BY <1>1, <1>10, <1>11

\* What a good reply books is, up to slippage, what the venue has traded.
LEMMA ReplyKeepsLedger ==
    ASSUME CallersTyped, NEW c \in Callers, NEW s \in Quoted, s \in Signals,
           s = ctx[c].signal, NEW f \in [Venues -> Nat],
           NEW b \in [Venues -> Nat], Ledger(c, s, f, b), LegReplies(c),
           Succeeded(c), FilledEnough(c),
           NEW b2, b2 = [b EXCEPT ![VenueOf(c)] = @ + ReportedFill(c)]
    PROVE  Ledger(c, s, f, b2)'
<1> DEFINE v == VenueOf(c)
           got == ctx[c].reply
           reported == ReportedFill(c)
<1>1. /\ pc[c] \in {"leg1Sent", "leg2Sent"} /\ got # NoReply
      /\ begun' = begun /\ live' = live
      /\ LegOf(c) = 1 => /\ pc' = [pc EXCEPT ![c] = "leg2"]
                         /\ ctx' = [ctx EXCEPT ![c].leg1Fill = reported]
      /\ LegOf(c) # 1 => /\ pc' = [pc EXCEPT ![c] = "mark"]
                         /\ ctx' = [ctx EXCEPT ![c].state = "Done"]
  BY DEF LegReplies, Goto, venueVars
<1>2. ctx[c] \in Contexts /\ ctx[c].leg1Fill \in Nat /\ pc \in [Callers -> Locations]
      /\ ctx \in [Callers -> Contexts]
  BY DEF CallersTyped, Contexts
<1>3. Engaged(c, s) /\ Underway(c, s, f, b) /\ Covered(s, f, b)
  BY <1>1 DEF Engaged, Ledger
<1>4. /\ got \in Fills(Order(c)) /\ f[v] = got /\ OrdersOf(c, s) = {}
  BY <1>1, <1>3, VenueOfLeg DEF Underway, Awaited
<1>5. /\ got \in Nat /\ reported \in Nat
      /\ reported <= got + Tolerance(s, v) /\ got <= reported + Tolerance(s, v)
      /\ v = "cex" => got = OrderQty(c)
      /\ v = "dex" => reported = Amount(c)
  BY <1>1, <1>4, GoodFill
<1>6. v = "cex" => reported = got
  BY DEF ReportedFill
<1>7. v \in Venues /\ b[v] = 0 /\ OrdersOf(c, s)' = {}
  BY <1>1, <1>3, <1>4, LegVenues, VenueOfLeg
     DEF Underway, FirstLegBooked, OrdersOf
<1>8. b2[v] = reported /\ \A u \in Venues \ {v} : b2[u] = b[u]
  BY <1>5, <1>7
<1>9. Covered(s, f, b2)
  BY <1>3, <1>4, <1>5, <1>8 DEF Covered
<1>10. CASE pc[c] = "leg1Sent"
  <2>1. LegOf(c) = 1 /\ v = Buy(s)
    BY <1>10, VenueOfLeg
  <2>2. pc'[c] = "leg2" /\ ctx'[c] = [ctx[c] EXCEPT !.leg1Fill = reported]
    BY <1>1, <1>2, <2>1
  <2>3. ctx'[c].signal = s /\ ctx'[c].leg1Fill = reported
    BY <1>2, <2>2 DEF Contexts
  <2>4. b2[Sell(s)] = 0 /\ f[Sell(s)] = 0
    BY <1>3, <1>8, <1>10, <2>1, LegVenues DEF Underway
  <2>5. FirstLegBooked(c, s, f, b2)'
    BY <1>4, <1>5, <1>8, <2>1, <2>3, <2>4 DEF FirstLegBooked
  <2>6. Engaged(c, s)' /\ Underway(c, s, f, b2)'
    BY <1>1, <1>3, <1>7, <2>2, <2>3, <2>4, <2>5 DEF Engaged, Underway
  <2> QED BY <1>9, <2>6 DEF Ledger, Covered
<1>11. CASE pc[c] = "leg2Sent"
  <2>1. LegOf(c) = 2 /\ v = Sell(s)
    BY <1>11, VenueOfLeg
  <2>2. pc'[c] = "mark" /\ ctx'[c] = [ctx[c] EXCEPT !.state = "Done"]
    BY <1>1, <1>2, <2>1
  <2>3. ctx'[c].signal = s /\ ctx'[c].state = "Done"
    BY <1>2, <2>2 DEF Contexts
  <2>4. /\ b[Buy(s)] = ctx[c].leg1Fill
        /\ f[Buy(s)] <= b[Buy(s)] + Tolerance(s, Buy(s))
        /\ b[Buy(s)] <= f[Buy(s)] + Tolerance(s, Buy(s))
    BY <1>3, <1>11, LegVenues DEF Underway, FirstLegBooked, Covered
  <2>5. b2[Buy(s)] = b[Buy(s)]
    BY <1>8, <2>1, LegVenues
  <2>6. \A u \in Venues : f[u] <= b2[u] + Tolerance(s, u)
    BY <1>4, <1>5, <1>8, <2>1, <2>4, <2>5, LegVenues
  <2>7. Amount(c) = ctx[c].leg1Fill
    BY <2>1 DEF Amount
  <2>8. /\ f[Sell(s)] <= f[Buy(s)] + Slippage
        /\ f[Buy(s)] <= f[Sell(s)] + LotSize - 1 + Slippage
    <3> DEFINE bought == f[Buy(s)]
               sold == f[Sell(s)]
               wanted == ctx[c].leg1Fill
    <3>1. /\ bought \in Nat /\ sold \in Nat /\ wanted \in Nat
          /\ Slippage \in Nat /\ LotSize \in Nat \ {0} /\ sold = got
      BY <1>2, <1>4, <2>1, LegVenues, ExecutorAssumption
    <3>2. CASE Direction[s] = "BuyCexSellDex"
      <4>1. Buy(s) = "cex" /\ v = "dex"
        BY <2>1, <3>2 DEF Buy, Sell, LegVenue
      <4>2. Tolerance(s, Buy(s)) = 0 /\ Tolerance(s, v) = 0
        BY <4>1 DEF Tolerance
      <4>3. bought = wanted
        BY <2>4, <3>1, <4>2
      <4>4. sold = wanted
        BY <1>5, <2>7, <3>1, <4>1, <4>2
      <4> QED BY <3>1, <4>3, <4>4
    <3>3. CASE Direction[s] # "BuyCexSellDex"
      <4>1. Buy(s) = "dex" /\ v = "cex"
        BY <2>1, <3>3 DEF Buy, Sell, LegVenue
      <4>2. sold = RoundQuantity(wanted)
        BY <1>5, <2>7, <3>1, <4>1 DEF OrderQty
      <4>3. sold <= wanted /\ wanted <= sold + LotSize - 1
        BY <3>1, <4>2, RoundingCutsLessThanALot
      <4>4. bought <= wanted + Slippage /\ wanted <= bought + Slippage
        <5>1. Tolerance(s, Buy(s)) = Slippage
          BY <4>1 DEF Tolerance
        <5> QED BY <2>4, <5>1
      <4> HIDE DEF bought, sold, wanted
      <4>5. /\ sold <= bought + Slippage
            /\ bought <= sold + LotSize - 1 + Slippage
        BY <3>1, <4>3, <4>4
      <4> QED BY <4>5 DEF bought, sold
    <3> QED BY <3>2, <3>3
  <2>9. Settled(s, f, b2)
    BY <2>6, <2>8 DEF Settled
  <2>10. Engaged(c, s)' /\ Underway(c, s, f, b2)'
    BY <1>1, <1>3, <1>7, <2>2, <2>3, <2>9 DEF Engaged, Underway, Settled
  <2> QED BY <1>9, <2>10 DEF Ledger, Covered
<1> QED BY <1>1, <1>10, <1>11

\* After the legs a caller only passes on what it owes.
LEMMA ClosingKeepsLedger ==
    ASSUME CallersTyped, NEW c \in Callers, NEW s \in Signals,
           s = ctx[c].signal, NEW f, NEW b, Ledger(c, s, f, b),
           outcome \in [Signals -> SUBSET {"Done", "Failed"}],
           Unwind(c) \/ MarkExecuted(c) \/ Return(c)
    PROVE  Ledger(c, s, f, b)'
<1>1. /\ begun' = begun /\ live' = live /\ ctx[c] \in Contexts
      /\ pc[c] \in {"unwinding", "mark", "record"}
  BY DEF Unwind, MarkExecuted, Return, CallersTyped, venueVars
<1>2. Underway(c, s, f, b) /\ Covered(s, f, b)
  BY <1>1 DEF Ledger, Engaged
<1>3. OrdersOf(c, s)' = OrdersOf(c, s)
  BY <1>1 DEF OrdersOf
<1>4. CASE Unwind(c)
  <2>1. pc'[c] = "mark"
    BY <1>4 DEF Unwind, Goto, CallersTyped
  <2>2. ctx'[c] = [ctx[c] EXCEPT !.state = "Failed", !.unwound = TRUE]
    BY <1>4 DEF Unwind, CallersTyped
  <2>3. ctx'[c].signal = s /\ ctx'[c].state = "Failed"
    BY <1>1, <2>2 DEF Contexts
  <2>4. Engaged(c, s)' /\ Underway(c, s, f, b)'
    BY <1>1, <1>2, <2>1, <2>3 DEF Engaged, Underway
  <2> QED BY <1>2, <2>4 DEF Ledger, Covered
<1>5. CASE MarkExecuted(c)
  <2>1. pc[c] = "mark" /\ pc'[c] = "record" /\ ctx' = ctx
    BY <1>5 DEF MarkExecuted, Goto, CallersTyped
  <2>2. Engaged(c, s)' /\ Underway(c, s, f, b)'
    BY <1>1, <1>2, <1>3, <2>1 DEF Engaged, Underway, Settled
  <2> QED BY <1>2, <2>2 DEF Ledger, Covered
<1>6. CASE Return(c)
  <2>1. /\ pc[c] = "record" /\ pc'[c] = "idle"
        /\ outcome' = [outcome EXCEPT ![s] = @ \cup {ctx[c].state}]
    BY <1>6 DEF Return, Goto, CallersTyped
  <2>2. ~ Engaged(c, s)'
    BY <2>1 DEF Engaged
  <2>3. CASE ctx[c].state = "Failed"
    <3>1. "Failed" \in outcome'[s]
      BY <2>1, <2>3
    <3>2. Over(c, s, f, b)'
      BY <1>1, <1>2, <2>1, <3>1 DEF Over, Underway
    <3> QED BY <1>2, <2>2, <3>2 DEF Ledger, Covered
  <2>4. CASE ctx[c].state # "Failed"
    <3>1. Over(c, s, f, b)'
      BY <1>1, <1>2, <1>3, <2>1, <2>4 DEF Over, Underway, Settled
    <3> QED BY <1>2, <2>2, <3>1 DEF Ledger, Covered
  <2> QED BY <2>3, <2>4
<1> QED BY <1>4, <1>5, <1>6

\* A caller is let through only with a signal it has never traded.
LEMMA AdmissionKeepsLedger ==
    ASSUME ReplayInv, NEW c \in Callers, NEW s \in Signals,
           s = ctx[c].signal, NEW f, NEW b, Ledger(c, s, f, b), CheckSignal(c),
           begun'[c][s] <= 1
    PROVE  Ledger(c, s, f, b)'
<1>1. /\ CallersTyped /\ begun[c][s] \in Nat
  BY DEF ReplayInv, CallersTyped
<1>2. /\ pc[c] = "admitted" /\ ctx' = ctx /\ live' = live /\ outcome' = outcome
      /\ \/ pc'[c] = "leg1" /\ begun'[c][s] = begun[c][s] + 1
         \/ pc'[c] = "idle" /\ begun' = begun
  BY <1>1 DEF CheckSignal, Goto, CallersTyped, venueVars
<1>3. ~ Engaged(c, s) /\ Over(c, s, f, b) /\ Covered(s, f, b)
  BY <1>2 DEF Engaged, Ledger
<1>4. CASE pc'[c] = "leg1" /\ begun'[c][s] = begun[c][s] + 1
  <2>1. begun[c][s] = 0 /\ begun'[c][s] = 1
    BY <1>1, <1>4
  <2>2. Untouched(c, s, f, b)'
    BY <1>2, <1>3, <2>1 DEF Over, Untouched, OrdersOf
  <2>3. Engaged(c, s)' /\ Underway(c, s, f, b)'
    BY <1>2, <1>4, <2>1, <2>2 DEF Engaged, Underway
  <2> QED BY <1>3, <2>3 DEF Ledger, Covered
<1>5. CASE pc'[c] = "idle" /\ begun' = begun
  <2>1. ~ Engaged(c, s)'
    BY <1>5 DEF Engaged
  <2>2. begun'[c][s] = begun[c][s] /\ OrdersOf(c, s)' = OrdersOf(c, s)
        /\ outcome'[s] = outcome[s]
    BY <1>2, <1>5 DEF OrdersOf
  <2> QED BY <1>3, <2>1, <2>2, FrameKeepsLedger
<1> QED BY <1>2, <1>4, <1>5

\* A fill that its caller still waits for is the first for that order; one
\* that comes too late belongs to a failure, and only adds to what the books
\* do not know.
LEMMA FillKeepsLedger ==
    ASSUME CallersTyped, NEW o \in live, NEW qty \in Fills(o),
           VenueExecutes(o, qty), NEW c, c = o.caller, NEW s, s = o.signal,
           NEW f \in [Venues -> Nat], NEW b \in [Venues -> Nat],
           Ledger(c, s, f, b),
           NEW f2, f2 = [f EXCEPT ![o.venue] = @ + qty]
    PROVE  Ledger(c, s, f2, b)'
<1>1. /\ c \in Callers /\ s \in Signals /\ o.venue \in Venues /\ qty \in Nat
      /\ o \in OrdersOf(c, s)
  BY FillsAreNat DEF CallersTyped, Orders, OrdersOf
<1>2. /\ live' = live \ {o} /\ pc' = pc /\ begun' = begun /\ outcome' = outcome
      /\ ctx' = IF Waits(o) THEN [ctx EXCEPT ![c].reply = qty] ELSE ctx
  BY DEF VenueExecutes
<1>3. OrdersOf(c, s)' = OrdersOf(c, s) \ {o}
  BY <1>2 DEF OrdersOf
<1>4. /\ f2[o.venue] = f[o.venue] + qty
      /\ \A v \in Venues \ {o.venue} : f2[v] = f[v]
      /\ \A v \in Venues : f[v] \in Nat /\ f2[v] \in Nat /\ f[v] <= f2[v]
  BY <1>1
<1>5. Covered(s, f2, b)'
  <2>1. \A v \in Venues : b[v] <= f[v] + Tolerance(s, v)
    BY DEF Ledger, Covered
  <2>2. \A v \in Venues : b[v] \in Nat /\ Tolerance(s, v) \in Nat
    BY ToleranceIsNat
  <2>3. \A v \in Venues : b[v] <= f2[v] + Tolerance(s, v)
    BY <1>4, <2>1, <2>2
  <2> QED BY <2>3 DEF Covered
<1>6. /\ ctx[c] \in Contexts
      /\ ctx'[c] = IF Waits(o) THEN [ctx[c] EXCEPT !.reply = qty] ELSE ctx[c]
  BY <1>1, <1>2 DEF CallersTyped
<1>7. /\ ctx'[c].signal = ctx[c].signal /\ ctx'[c].state = ctx[c].state
      /\ ctx'[c].leg1Fill = ctx[c].leg1Fill
      /\ Waits(o) => ctx'[c].reply = qty
  BY <1>6 DEF Contexts
<1>8. LegOf(c)' = LegOf(c) /\ Order(c)' = Order(c)
  BY <1>1, <1>2, <1>7, SameOrder DEF LegOf
<1>9. Engaged(c, s)' = Engaged(c, s)
  BY <1>2, <1>7 DEF Engaged
<1>10. CASE ~ Engaged(c, s)
  <2>1. Over(c, s, f, b) /\ OrdersOf(c, s) # {}
    BY <1>1, <1>10 DEF Ledger
  <2>2. Over(c, s, f2, b)'
    BY <1>2, <2>1 DEF Over, Untouched
  <2> QED BY <1>5, <1>9, <1>10, <2>2 DEF Ledger
<1>11. CASE Engaged(c, s)
  <2>1. Underway(c, s, f, b) /\ OrdersOf(c, s) # {}
    BY <1>1, <1>11 DEF Ledger
  <2>2. /\ pc[c] # "leg1" /\ pc[c] # "leg2"
        /\ pc[c] \in {"mark", "record"} => ctx[c].state = "Failed"
    BY <2>1 DEF Underway, Untouched
  <2>3. CASE pc[c] \in {"leg1Sent", "leg2Sent"}
    <3>1. \A q : Awaited(c, s, q) => q = 0 /\ OrdersOf(c, s) \subseteq {Order(c)}
      BY <2>1 DEF Awaited
    <3>2. o = Order(c) /\ f[VenueOf(c)] = 0
      BY <1>1, <1>11, <2>1, <2>3, <3>1, VenueOfLeg DEF Underway, Engaged
    <3>3. o.venue = VenueOf(c) /\ f2[VenueOf(c)] = qty
      BY <1>1, <1>4, <3>2 DEF Order
    <3>4. Waits(o)
      BY <2>3, <1>11, <3>3 DEF Waits, Engaged
    <3>5. OrdersOf(c, s)' = {}
      BY <1>3, <1>11, <2>1, <2>3, <3>1, <3>2 DEF Underway
    <3>6. \A q : q = qty => Awaited(c, s, q)'
      BY <1>7, <1>8, <3>2, <3>4, <3>5 DEF Awaited
    <3>7. CASE pc[c] = "leg1Sent"
      <4>1. VenueOf(c) = Buy(s) /\ f2[Sell(s)] = f[Sell(s)]
        BY <1>1, <1>4, <1>11, <3>3, <3>7, VenueOfLeg, LegVenues DEF Engaged
      <4>2. Underway(c, s, f2, b)'
        BY <1>2, <2>1, <3>3, <3>6, <3>7, <4>1 DEF Underway
      <4> QED BY <1>5, <1>9, <1>11, <4>2 DEF Ledger
    <3>8. CASE pc[c] = "leg2Sent"
      <4>1. VenueOf(c) = Sell(s) /\ f2[Buy(s)] = f[Buy(s)]
        BY <1>1, <1>4, <1>11, <3>3, <3>8, VenueOfLeg, LegVenues DEF Engaged
      <4>2. FirstLegBooked(c, s, f2, b)'
        BY <1>7, <2>1, <3>8, <4>1 DEF Underway, FirstLegBooked
      <4>3. Underway(c, s, f2, b)'
        BY <1>2, <2>1, <3>3, <3>6, <3>8, <4>1, <4>2 DEF Underway
      <4> QED BY <1>5, <1>9, <1>11, <4>3 DEF Ledger
    <3> QED BY <2>3, <3>7, <3>8
  <2>4. CASE pc[c] \notin {"leg1Sent", "leg2Sent"}
    <3>1. Underway(c, s, f2, b)'
      BY <1>2, <1>7, <2>1, <2>2, <2>4 DEF Underway
    <3> QED BY <1>5, <1>9, <1>11, <3>1 DEF Ledger
  <2> QED BY <2>3, <2>4
<1> QED BY <1>10, <1>11

\* A step of execute leaves the other callers and signals alone.
LEMMA OthersKeepLedger ==
    ASSUME CallersTyped, outcome \in [Signals -> SUBSET {"Done", "Failed"}],
           NEW c \in Callers, Proceed(c),
           NEW d \in Callers, NEW r \in Signals, d # c \/ r # ctx[c].signal,
           NEW f, NEW b, Ledger(d, r, f, b)
    PROVE  Ledger(d, r, f, b)'
<1>1. ctx[c].signal \in Signals
  BY DEF CallersTyped, Contexts
<1>2. begun'[d][r] = begun[d][r]
  <2>1. begun' = begun \/ begun' = [begun EXCEPT ![c][ctx[c].signal] = @ + 1]
    BY DEF Proceed, CheckSignal, RejectLeg, SendLeg, LegReplies, LegLost,
           Unwind, MarkExecuted, Return
  <2> QED BY <1>1, <2>1 DEF CallersTyped
<1>3. outcome[r] \subseteq outcome'[r]
  <2>1. \/ outcome' = outcome
        \/ outcome' = [outcome EXCEPT ![ctx[c].signal] = @ \cup {ctx[c].state}]
    BY DEF Proceed, CheckSignal, RejectLeg, SendLeg, LegReplies, LegLost,
           Unwind, MarkExecuted, Return
  <2> QED BY <1>1, <2>1
<1>4. OrdersOf(d, r)' \subseteq OrdersOf(d, r)
  <2>1. live' = live \/ live' = live \cup {Order(c)}
    BY DEF Proceed, CheckSignal, RejectLeg, SendLeg, LegReplies, LegLost,
           Unwind, MarkExecuted, Return, venueVars
  <2>2. Order(c).caller = c /\ Order(c).signal = ctx[c].signal
    BY DEF Order
  <2> QED BY <2>1, <2>2 DEF OrdersOf
<1>5. CASE d # c
  <2>1. pc'[d] = pc[d]
    <3>1. \E place : Goto(c, place)
      BY DEF Proceed, CheckSignal, RejectLeg, SendLeg, LegReplies, LegLost,
             Unwind, MarkExecuted, Return, LegFailed
    <3> QED BY <1>5, <3>1 DEF Goto, CallersTyped
  <2>2. ctx'[d] = ctx[d]
    BY <1>5 DEF CallersTyped, Proceed, CheckSignal, RejectLeg, SendLeg,
       LegReplies, LegLost, Unwind, MarkExecuted, Return, LegFailed
  <2> QED BY <1>2, <1>3, <1>4, <2>1, <2>2, FrameKeepsLedger
<1>6. CASE d = c
  <2>1. ~ Engaged(d, r) /\ ~ Engaged(d, r)'
    BY <1>6, ProceedKeepsSignals DEF Engaged
  <2> QED BY <1>2, <1>3, <1>4, <2>1, FrameKeepsLedger
<1> QED BY <1>5, <1>6

----------------------------------------------------------------------------
(***************************************************************************)
(* The books and the fills as totals of what each caller contributed.      *)
(***************************************************************************)
AreTotals(totals, parts) ==
    \A s \in Signals, v \in Venues :
       IsTotal(totals[s][v], [c \in Callers |-> parts[c][s][v]])

Accounted ==
    \E fs \in [Callers -> Books], bs \in [Callers -> Books] :
       /\ AreTotals(filled, fs) /\ AreTotals(booked, bs)
       /\ \A c \in Callers, s \in Quoted : Ledger(c, s, fs[c][s], bs[c][s])

\* An amount that grows, and a caller that makes it grow.
Plus(totals, s, v, k) == [totals EXCEPT ![s][v] = @ + k]
Contributes(parts, new, c, s, v, k) ==
    /\ new[c][s] = [parts[c][s] EXCEPT ![v] = @ + k]
    /\ \A d \in Callers, r \in Signals :
          d # c \/ r # s => new[d][r] = parts[d][r]

\* A caller adds to one amount.
LEMMA AddToTotals ==
    ASSUME NEW totals \in Books, NEW parts \in [Callers -> Books],
           AreTotals(totals, parts), NEW c \in Callers, NEW s \in Signals,
           NEW v \in Venues, NEW k \in Nat
    PROVE  \E new \in [Callers -> Books] :
              /\ AreTotals(Plus(totals, s, v, k), new)
              /\ Contributes(parts, new, c, s, v, k)
<1> DEFINE sums == Plus(totals, s, v, k)
           new == [parts EXCEPT ![c] =
                     [parts[c] EXCEPT ![s] =
                        [parts[c][s] EXCEPT ![v] = parts[c][s][v] + k]]]
<1>1. /\ totals \in [Signals -> [Venues -> Nat]]
      /\ \A d \in Callers : parts[d] \in [Signals -> [Venues -> Nat]]
  BY DEF Books
<1>2. [parts[c][s] EXCEPT ![v] = parts[c][s][v] + k] \in [Venues -> Nat]
  BY <1>1
<1>3. [parts[c] EXCEPT ![s] =
         [parts[c][s] EXCEPT ![v] = parts[c][s][v] + k]] \in Books
  BY <1>1, <1>2 DEF Books
<1>4. new \in [Callers -> Books]
  BY <1>3
<1>5. new[c][s] = [parts[c][s] EXCEPT ![v] = @ + k]
  BY <1>1
<1>6. \A d \in Callers, r \in Signals :
         d # c \/ r # s => new[d][r] = parts[d][r]
  BY <1>1
<1>7. /\ new[c][s][v] = parts[c][s][v] + k
      /\ \A u \in Venues \ {v} : new[c][s][u] = parts[c][s][u]
  BY <1>1, <1>5
<1>8. /\ sums[s][v] = totals[s][v] + k
      /\ \A r \in Signals, u \in Venues :
            r # s \/ u # v => sums[r][u] = totals[r][u]
  BY <1>1 DEF Plus
<1> HIDE DEF new, sums
<1>9. ASSUME NEW r \in Signals, NEW u \in Venues
      PROVE  IsTotal(sums[r][u], [d \in Callers |-> new[d][r][u]])
  <2>1. IsTotal(totals[r][u], [d \in Callers |-> parts[d][r][u]])
    BY DEF AreTotals
  <2>2. CASE r = s /\ u = v
    <3> DEFINE old == [d \in Callers |-> parts[d][s][v]]
               now == [d \in Callers |-> new[d][s][v]]
    <3>1. \A d \in Callers : parts[d][s][v] \in Nat /\ new[d][s][v] \in Nat
      BY <1>1, <1>4 DEF Books
    <3>2. old \in [Callers -> Int] /\ now \in [Callers -> Int]
      BY <3>1
    <3>3. now[c] = old[c] + k /\ \A d \in Callers \ {c} : now[d] = old[d]
      BY <1>6, <1>7
    <3>4. IsTotal(totals[s][v], old) /\ totals[s][v] \in Int /\ k \in Int
      BY <1>1, <2>1, <2>2
    <3> HIDE DEF old, now
    <3>5. IsTotal(totals[s][v] + k, now)
      BY <3>2, <3>3, <3>4, TotalGrows
    <3> QED BY <1>8, <2>2, <3>5 DEF now
  <2>3. CASE ~ (r = s /\ u = v)
    <3>1. \A d \in Callers : new[d][r][u] = parts[d][r][u]
      BY <1>6, <1>7, <2>3
    <3>2. [d \in Callers |-> new[d][r][u]] = [d \in Callers |-> parts[d][r][u]]
      BY <3>1
    <3> QED BY <1>8, <2>1, <2>3, <3>2
  <2> QED BY <2>2, <2>3
<1>10. AreTotals(sums, new)
  BY <1>9 DEF AreTotals
<1> QED BY <1>4, <1>5, <1>6, <1>10 DEF sums, Contributes

\* At first nothing is traded or booked.
LEMMA InitAccounted == Init => Accounted
<1> SUFFICES ASSUME Init PROVE Accounted
  OBVIOUS
<1> DEFINE none == [c \in Callers |-> [s \in Signals |-> [v \in Venues |-> 0]]]
<1>1. none \in [Callers -> Books]
  BY DEF Books
<1>2. /\ filled = [s \in Signals |-> [v \in Venues |-> 0]]
      /\ booked = [s \in Signals |-> [v \in Venues |-> 0]]
      /\ live = {} /\ pc = [c \in Callers |-> "idle"]
      /\ begun = [c \in Callers |-> [s \in Signals |-> 0]]
  BY DEF Init
<1>3. AreTotals(filled, none) /\ AreTotals(booked, none)
  <2>1. ASSUME NEW s \in Signals, NEW v \in Venues
        PROVE  IsTotal(0, [c \in Callers |-> none[c][s][v]])
    <3>1. \A c \in Callers : [d \in Callers |-> none[d][s][v]][c] = 0
      OBVIOUS
    <3> HIDE DEF none
    <3> QED BY <3>1, TotalOfNothing
  <2> QED BY <1>2, <2>1 DEF AreTotals
<1>4. ASSUME NEW c \in Callers, NEW s \in Quoted
      PROVE  Ledger(c, s, none[c][s], none[c][s])
  <2>1. s \in Signals
    BY SignalsAssumption
  <2>2. \A v \in Venues : none[c][s][v] = 0
    BY <2>1
  <2>3. begun[c][s] = 0 /\ ~ Engaged(c, s) /\ OrdersOf(c, s) = {}
    BY <1>2, <2>1 DEF Engaged, OrdersOf
  <2> HIDE DEF none
  <2>4. Covered(s, none[c][s], none[c][s])
    BY <2>2, ToleranceIsNat DEF Covered
  <2> QED BY <2>2, <2>3, <2>4 DEF Ledger, Over, Untouched
<1> HIDE DEF none
<1> QED BY <1>1, <1>3, <1>4 DEF Accounted

\* Without a trade or a booking only the ledgers have to be kept.
LEMMA QuietKeepsAccounts ==
    ASSUME NEW fs \in [Callers -> Books], NEW bs \in [Callers -> Books],
           AreTotals(filled, fs), AreTotals(booked, bs),
           filled' = filled, booked' = booked,
           \A c \in Callers, s \in Quoted :
              Ledger(c, s, fs[c][s], bs[c][s])'
    PROVE  Accounted'
<1>1. AreTotals(filled', fs) /\ AreTotals(booked', bs)
  OBVIOUS
<1> QED BY <1>1 DEF Accounted, AreTotals

\* Every step keeps the totals and every caller's ledger.
LEMMA StepKeepsAccounts ==
    ASSUME TypeOK, ReplayInv, ReplayInv', Accounted, [Next]_vars
    PROVE  Accounted'
<1>0. /\ CallersTyped /\ outcome \in [Signals -> SUBSET {"Done", "Failed"}]
      /\ filled \in Books /\ booked \in Books
  BY DEF ReplayInv, TypeOK, Books
<1>1. PICK fs \in [Callers -> Books], bs \in [Callers -> Books] :
        /\ AreTotals(filled, fs) /\ AreTotals(booked, bs)
        /\ \A c \in Callers, s \in Quoted : Ledger(c, s, fs[c][s], bs[c][s])
  BY DEF Accounted
<1>2. \A s \in Quoted : s \in Signals
  BY SignalsAssumption
<1>3. \A c \in Callers, s \in Signals :
         fs[c][s] \in [Venues -> Nat] /\ bs[c][s] \in [Venues -> Nat]
  BY <1>1 DEF Books
<1>4. ASSUME filled' = filled, booked' = booked,
             \A c \in Callers, s \in Quoted :
                Ledger(c, s, fs[c][s], bs[c][s])'
      PROVE  Accounted'
  BY <1>1, <1>4, QuietKeepsAccounts
<1>5. ASSUME UNCHANGED <<pc, ctx, begun, outcome, live, filled, booked>>
      PROVE  Accounted'
  <2>1. ASSUME NEW c \in Callers, NEW s \in Quoted
        PROVE  Ledger(c, s, fs[c][s], bs[c][s])'
    <3>1. /\ begun'[c][s] = begun[c][s] /\ outcome[s] \subseteq outcome'[s]
          /\ OrdersOf(c, s)' \subseteq OrdersOf(c, s)
          /\ pc'[c] = pc[c] /\ ctx'[c] = ctx[c]
      BY <1>5 DEF OrdersOf
    <3> QED BY <1>1, <1>2, <3>1, FrameKeepsLedger
  <2> QED BY <1>4, <1>5, <2>1
<1>6. CASE UNCHANGED vars
  BY <1>5, <1>6 DEF vars, venueVars
<1>7. CASE Tick \/ Poll
  BY <1>5, <1>7 DEF Tick, Poll, venueVars
<1>8. ASSUME NEW c \in Callers, NEW s \in Signals, Begin(c, s)
      PROVE  Accounted'
  <2>1. /\ pc[c] = "idle" /\ pc'[c] = "admitted"
        /\ \A d \in Callers \ {c} : pc'[d] = pc[d] /\ ctx'[d] = ctx[d]
        /\ UNCHANGED <<begun, outcome, live, filled, booked>>
    BY <1>0, <1>8 DEF Begin, Goto, CallersTyped, venueVars
  <2>2. ASSUME NEW d \in Callers, NEW r \in Quoted
        PROVE  Ledger(d, r, fs[d][r], bs[d][r])'
    <3>1. /\ begun'[d][r] = begun[d][r] /\ outcome[r] \subseteq outcome'[r]
          /\ OrdersOf(d, r)' \subseteq OrdersOf(d, r)
      BY <2>1 DEF OrdersOf
    <3>2. \/ pc'[d] = pc[d] /\ ctx'[d] = ctx[d]
          \/ ~ Engaged(d, r) /\ ~ Engaged(d, r)'
      BY <2>1 DEF Engaged
    <3> QED BY <1>1, <1>2, <3>1, <3>2, FrameKeepsLedger
  <2> QED BY <1>4, <2>1, <2>2
<1>9. ASSUME NEW o \in live, NEW qty \in Fills(o), VenueExecutes(o, qty)
      PROVE  Accounted'
  <2>0. /\ o.caller \in Callers /\ o.signal \in Signals
        /\ o.venue \in Venues /\ qty \in Nat
    BY <1>0, FillsAreNat DEF CallersTyped, Orders
  <2>1. PICK c \in Callers, s \in Signals : c = o.caller /\ s = o.signal
    BY <2>0
  <2>2. /\ filled' = [filled EXCEPT ![s][o.venue] = @ + qty]
        /\ live' = live \ {o} /\ UNCHANGED <<pc, begun, outcome, booked>>
        /\ ctx' = IF Waits(o) THEN [ctx EXCEPT ![c].reply = qty] ELSE ctx
    BY <1>9, <2>1 DEF VenueExecutes
  <2>3. PICK new \in [Callers -> Books] :
          /\ AreTotals(filled', new)
          /\ new[c][s] = [fs[c][s] EXCEPT ![o.venue] = @ + qty]
          /\ \A d \in Callers, r \in Signals :
                d # c \/ r # s => new[d][r] = fs[d][r]
    <3>1. PICK v \in Venues, k \in Nat : v = o.venue /\ k = qty
      BY <2>0
    <3>2. filled \in Books /\ AreTotals(filled, fs)
      BY <1>0, <1>1
    <3>3. PICK new \in [Callers -> Books] :
            /\ AreTotals(Plus(filled, s, v, k), new)
            /\ Contributes(fs, new, c, s, v, k)
      BY <3>2, AddToTotals
    <3>4. filled' = Plus(filled, s, v, k)
      BY <2>2, <3>1 DEF Plus
    <3> QED BY <3>1, <3>3, <3>4 DEF Contributes
  <2>4. ASSUME NEW d \in Callers, NEW r \in Quoted, d # c \/ r # s
        PROVE  Ledger(d, r, new[d][r], bs[d][r])'
    <3>1. Ledger(d, r, new[d][r], bs[d][r])
      BY <1>1, <1>2, <2>3, <2>4
    <3>2. \/ ctx'[d] = ctx[d]
          \/ d = c /\ Waits(o)
      BY <1>0, <2>1, <2>2 DEF CallersTyped
    <3>3. d = c /\ Waits(o) => ~ Engaged(d, r) /\ ~ Engaged(d, r)'
      <4>1. SUFFICES ASSUME d = c, Waits(o)
                     PROVE  ~ Engaged(d, r) /\ ~ Engaged(d, r)'
        OBVIOUS
      <4>2. ctx[c].signal = s /\ r # s
        BY <2>1, <2>4, <4>1 DEF Waits
      <4>3. ctx'[c].signal = ctx[c].signal
        BY <1>0, <2>2 DEF CallersTyped, Contexts
      <4> QED BY <4>1, <4>2, <4>3 DEF Engaged
    <3>4. /\ begun'[d][r] = begun[d][r] /\ outcome[r] \subseteq outcome'[r]
          /\ OrdersOf(d, r)' \subseteq OrdersOf(d, r) /\ pc'[d] = pc[d]
      BY <2>2 DEF OrdersOf
    <3> QED BY <1>2, <3>1, <3>2, <3>3, <3>4, FrameKeepsLedger
  <2>5. ASSUME s \in Quoted PROVE Ledger(c, s, new[c][s], bs[c][s])'
    <3>1. Ledger(c, s, fs[c][s], bs[c][s])
      BY <1>1, <2>1, <2>5
    <3>6. /\ fs[c][s] \in [Venues -> Nat] /\ bs[c][s] \in [Venues -> Nat]
          /\ new[c][s] \in [Venues -> Nat]
      BY <1>3 DEF Books
    <3>2. PICK f \in [Venues -> Nat], b \in [Venues -> Nat],
               f2 \in [Venues -> Nat] :
            f = fs[c][s] /\ b = bs[c][s] /\ f2 = new[c][s]
      BY <3>6
    <3>3. Ledger(c, s, f, b) /\ f2 = [f EXCEPT ![o.venue] = @ + qty]
      BY <2>3, <3>1, <3>2
    <3>4. Ledger(c, s, f2, b)'
      BY <1>0, <1>9, <2>1, <3>3, FillKeepsLedger
    <3> QED BY <3>2, <3>4
  <2>6. \A d \in Callers, r \in Quoted : Ledger(d, r, new[d][r], bs[d][r])'
    BY <2>4, <2>5
  <2>7. AreTotals(booked', bs)
    BY <1>1, <2>2
  <2> QED BY <1>1, <2>3, <2>6, <2>7 DEF Accounted, AreTotals
<1>10. ASSUME NEW c \in Callers, Proceed(c) PROVE Accounted'
  <2>1. PICK s \in Signals : s = ctx[c].signal
    BY <1>0 DEF CallersTyped, Contexts
  <2>2. ASSUME NEW d \in Callers, NEW r \in Quoted, d # c \/ r # s
        PROVE  Ledger(d, r, fs[d][r], bs[d][r])'
    BY <1>0, <1>1, <1>2, <1>10, <2>1, <2>2, OthersKeepLedger
  <2>3. ASSUME filled' = filled, booked' = booked,
               s \in Quoted => Ledger(c, s, fs[c][s], bs[c][s])'
        PROVE  Accounted'
    <3>1. ASSUME NEW d \in Callers, NEW r \in Quoted
          PROVE  Ledger(d, r, fs[d][r], bs[d][r])'
      BY <2>2, <2>3
    <3> QED BY <1>4, <2>3, <3>1
  <2>4. s \in Quoted => Ledger(c, s, fs[c][s], bs[c][s])
    BY <1>1
  <2>5. CASE CheckSignal(c)
    <3>1. filled' = filled /\ booked' = booked
      BY <2>5 DEF CheckSignal, venueVars
    <3>2. begun'[c][s] <= 1
      <4>1. begun' \in [Callers -> [Signals -> Nat]] /\ TradedOnce'
        BY DEF ReplayInv, CallersTyped
      <4>2. begun'[c][s] = 0 \/ begun'[c][s] = 1
        BY <2>1, <4>1 DEF TradedOnce
      <4> QED BY <4>2
    <3>3. s \in Quoted => Ledger(c, s, fs[c][s], bs[c][s])'
      BY <2>1, <2>4, <2>5, <3>2, AdmissionKeepsLedger
    <3> QED BY <2>3, <3>1, <3>3
  <2>6. CASE RejectLeg(c) \/ LegLost(c)
    <3>1. /\ LegFailed(c) /\ begun' = begun
          /\ filled' = filled /\ booked' = booked
          /\ pc[c] \in {"leg1", "leg1Sent", "leg2", "leg2Sent"}
      BY <2>6 DEF RejectLeg, LegLost, venueVars
    <3>2. s \in Quoted => Ledger(c, s, fs[c][s], bs[c][s])'
      BY <1>0, <2>1, <2>4, <3>1, FailingKeepsLedger
    <3> QED BY <2>3, <3>1, <3>2
  <2>7. CASE SendLeg(c)
    <3>1. filled' = filled /\ booked' = booked
      BY <2>7 DEF SendLeg
    <3>2. s \in Quoted => Ledger(c, s, fs[c][s], bs[c][s])'
      BY <1>0, <2>1, <2>4, <2>7, SendingKeepsLedger
    <3> QED BY <2>3, <3>1, <3>2
  <2>8. CASE LegReplies(c) /\ ~ (Succeeded(c) /\ FilledEnough(c))
    <3>1. /\ LegFailed(c) /\ begun' = begun
          /\ filled' = filled /\ booked' = booked
          /\ pc[c] \in {"leg1", "leg1Sent", "leg2", "leg2Sent"}
      BY <2>8 DEF LegReplies, venueVars
    <3>2. s \in Quoted => Ledger(c, s, fs[c][s], bs[c][s])'
      BY <1>0, <2>1, <2>4, <3>1, FailingKeepsLedger
    <3> QED BY <2>3, <3>1, <3>2
  <2>9. CASE LegReplies(c) /\ Succeeded(c) /\ FilledEnough(c)
    <3> DEFINE v == VenueOf(c)
               k == ReportedFill(c)
    <3>1. /\ filled' = filled
          /\ booked' = [booked EXCEPT ![s][v] = @ + k]
      BY <2>1, <2>9 DEF LegReplies, venueVars
    <3>2. v \in Venues /\ k \in Nat
      <4>1. ctx[c].reply # NoReply
        BY <2>9 DEF LegReplies
      <4> QED BY <1>0, <4>1, QuantitiesAreNat DEF VenueOf, LegVenue, Venues
    <3>3. PICK new \in [Callers -> Books] :
            /\ AreTotals(booked', new)
            /\ new[c][s] = [bs[c][s] EXCEPT ![v] = @ + k]
            /\ \A d \in Callers, r \in Signals :
                  d # c \/ r # s => new[d][r] = bs[d][r]
      <4>1. PICK vv \in Venues, kk \in Nat : vv = v /\ kk = k
        BY <3>2
      <4>2. booked \in Books /\ AreTotals(booked, bs)
        BY <1>0, <1>1
      <4>3. PICK new \in [Callers -> Books] :
              /\ AreTotals(Plus(booked, s, vv, kk), new)
              /\ Contributes(bs, new, c, s, vv, kk)
        BY <4>2, AddToTotals
      <4>4. booked' = Plus(booked, s, vv, kk)
        BY <3>1, <4>1 DEF Plus
      <4> QED BY <4>1, <4>3, <4>4 DEF Contributes
    <3>4. ASSUME s \in Quoted PROVE Ledger(c, s, fs[c][s], new[c][s])'
      BY <1>0, <1>3, <2>1, <2>4, <2>9, <3>3, <3>4, ReplyKeepsLedger
    <3>5. ASSUME NEW d \in Callers, NEW r \in Quoted
          PROVE  Ledger(d, r, fs[d][r], new[d][r])'
      <4>1. CASE d = c /\ r = s
        BY <3>4, <4>1
      <4>2. CASE d # c \/ r # s
        BY <1>2, <2>2, <3>3, <4>2
      <4> QED BY <4>1, <4>2
    <3>6. AreTotals(filled', fs)
      BY <1>1, <3>1
    <3> QED BY <1>1, <3>3, <3>5, <3>6 DEF Accounted, AreTotals
  <2>10. CASE Unwind(c) \/ MarkExecuted(c) \/ Return(c)
    <3>1. filled' = filled /\ booked' = booked
      BY <2>10 DEF Unwind, MarkExecuted, Return, venueVars
    <3>2. s \in Quoted => Ledger(c, s, fs[c][s], bs[c][s])'
      BY <1>0, <2>1, <2>4, <2>10, ClosingKeepsLedger
    <3> QED BY <2>3, <3>1, <3>2
  <2> QED BY <1>10, <2>5, <2>6, <2>7, <2>8, <2>9, <2>10 DEF Proceed
<1> QED BY <1>6, <1>7, <1>8, <1>9, <1>10 DEF Next

\* The books and the fills are made of what each caller has booked and
\* traded for each signal, and every caller's part agrees with its place in
\* execute: the ledger above.
THEOREM Accounts == Spec => []Accounted
BY InitAccounted, StepKeepsAccounts, TypeCorrect, Invariance, PTL DEF Spec

----------------------------------------------------------------------------
\* What callers contribute to two amounts bounds how far these are apart.
LEMMA AmountsApart ==
    ASSUME NEW t1 \in Books, NEW t2 \in Books,
           NEW p1 \in [Callers -> Books], NEW p2 \in [Callers -> Books],
           AreTotals(t1, p1), AreTotals(t2, p2),
           NEW s \in Signals, NEW v1 \in Venues, NEW v2 \in Venues,
           NEW each \in Nat,
           \A c \in Callers : p1[c][s][v1] <= p2[c][s][v2] + each
    PROVE  t1[s][v1] - t2[s][v2] <= Count * each
<1> DEFINE more == [c \in Callers |-> p1[c][s][v1]]
           less == [c \in Callers |-> p2[c][s][v2]]
<1>1. \A c \in Callers : p1[c][s][v1] \in Nat /\ p2[c][s][v2] \in Nat
  BY DEF Books
<1>2. more \in [Callers -> Int] /\ less \in [Callers -> Int]
  BY <1>1
<1>3. IsTotal(t1[s][v1], more) /\ IsTotal(t2[s][v2], less)
  BY DEF AreTotals
<1>4. \A c \in Callers : more[c] - less[c] <= each
  BY <1>1
<1> HIDE DEF more, less
<1> QED BY <1>2, <1>3, <1>4, TotalsApart

\* Once nobody is at work on a signal no failure was reported for, every
\* caller's part is settled.
LEMMA QuietIsSettled ==
    ASSUME NEW s \in Signals, ~ Running(s), "Failed" \notin outcome[s],
           NEW c \in Callers, NEW f \in [Venues -> Nat],
           NEW b \in [Venues -> Nat], Ledger(c, s, f, b)
    PROVE  Covered(s, f, b) /\ Settled(s, f, b)
<1>1. ~ Engaged(c, s)
  BY DEF Running, Engaged
<1>2. Over(c, s, f, b)
  BY <1>1 DEF Ledger
<1>3. CASE Untouched(c, s, f, b)
  <2>1. \A v \in Venues : f[v] = 0 /\ b[v] = 0 /\ Tolerance(s, v) \in Nat
    BY <1>3, ToleranceIsNat DEF Untouched
  <2>2. /\ f[Buy(s)] = 0 /\ f[Sell(s)] = 0
        /\ Slippage \in Nat /\ LotSize \in Nat \ {0}
    BY <2>1, LegVenues, ExecutorAssumption
  <2>3. /\ f[Sell(s)] <= f[Buy(s)] + Slippage
        /\ f[Buy(s)] <= f[Sell(s)] + LotSize - 1 + Slippage
    BY <2>2
  <2>4. \A v \in Venues : f[v] <= b[v] + Tolerance(s, v)
    BY <2>1
  <2> QED BY <2>3, <2>4 DEF Settled, Ledger
<1> QED BY <1>2, <1>3 DEF Over, Ledger

\* The totals of the ledgers satisfy the three properties.
LEMMA AccountsAgree ==
    ASSUME TypeOK, Accounted
    PROVE  NeverOverbooked /\ DoneIsBooked /\ OpenPositionsAreReported
<1>1. PICK fs \in [Callers -> Books], bs \in [Callers -> Books] :
        /\ AreTotals(filled, fs) /\ AreTotals(booked, bs)
        /\ \A c \in Callers, s \in Quoted : Ledger(c, s, fs[c][s], bs[c][s])
  BY DEF Accounted
<1>2. filled \in Books /\ booked \in Books
  BY DEF TypeOK, Books
<1>3. /\ Count \in Nat /\ Count = Cardinality(Callers)
      /\ \A s \in Quoted : s \in Signals
  BY RollCall, SignalsAssumption DEF Count
<1>4. \A s \in Signals, v \in Venues : filled[s][v] \in Nat /\ booked[s][v] \in Nat
  BY <1>2 DEF Books
<1>5. \A c \in Callers, s \in Signals :
         fs[c][s] \in [Venues -> Nat] /\ bs[c][s] \in [Venues -> Nat]
  BY DEF Books
<1>6. \A m, n \in Nat : m * n = n * m /\ m * n \in Nat
  OBVIOUS
<1>7. ASSUME NEW s \in Quoted, NEW v \in Venues
      PROVE  booked[s][v] - filled[s][v] <= Tolerance(s, v) * Count
  <2>1. \A c \in Callers : bs[c][s][v] <= fs[c][s][v] + Tolerance(s, v)
    BY <1>1 DEF Ledger, Covered
  <2>2. booked[s][v] - filled[s][v] <= Count * Tolerance(s, v)
    BY <1>1, <1>2, <1>3, <2>1, ToleranceIsNat, AmountsApart
  <2> QED BY <1>3, <1>6, <2>2, ToleranceIsNat
<1>8. NeverOverbooked
  <2> SUFFICES ASSUME NEW s \in Quoted, NEW v \in Venues
               PROVE  booked[s][v] <= filled[s][v] + Tolerance(s, v) * Count
    BY <1>3 DEF NeverOverbooked
  <2> DEFINE x == Tolerance(s, v) * Count
  <2>1. /\ booked[s][v] - filled[s][v] <= x /\ x \in Nat
        /\ booked[s][v] \in Nat /\ filled[s][v] \in Nat
    BY <1>3, <1>4, <1>6, <1>7, ToleranceIsNat
  <2> HIDE DEF x
  <2>2. booked[s][v] <= filled[s][v] + x
    BY <2>1
  <2> QED BY <2>2 DEF x
<1>9. ASSUME NEW s \in Quoted, ~ Running(s), "Failed" \notin outcome[s],
             NEW c \in Callers
      PROVE  Covered(s, fs[c][s], bs[c][s]) /\ Settled(s, fs[c][s], bs[c][s])
  BY <1>1, <1>3, <1>5, <1>9, QuietIsSettled
<1>10. DoneIsBooked
  <2> SUFFICES ASSUME NEW s \in Quoted, outcome[s] = {"Done"}, ~ Running(s),
                      NEW v \in Venues
               PROVE  /\ filled[s][v] - booked[s][v] <= Tolerance(s, v) * Count
                      /\ booked[s][v] - filled[s][v] <= Tolerance(s, v) * Count
    BY <1>3 DEF DoneIsBooked
  <2>1. \A c \in Callers : fs[c][s][v] <= bs[c][s][v] + Tolerance(s, v)
    BY <1>9 DEF Settled
  <2>2. filled[s][v] - booked[s][v] <= Count * Tolerance(s, v)
    BY <1>1, <1>2, <1>3, <2>1, ToleranceIsNat, AmountsApart
  <2>3. filled[s][v] - booked[s][v] <= Tolerance(s, v) * Count
    BY <1>3, <1>6, <2>2, ToleranceIsNat
  <2> QED BY <1>7, <2>3
<1>11. OpenPositionsAreReported
  <2> SUFFICES ASSUME NEW s \in Quoted, ~ Running(s), "Failed" \notin outcome[s]
               PROVE  Hedged(s)
    BY DEF OpenPositionsAreReported
  <2> DEFINE lot == LotSize - 1 + Slippage
             open == filled[s][Buy(s)] - filled[s][Sell(s)]
  <2>1. /\ Slippage \in Nat /\ LotSize \in Nat \ {0} /\ s \in Signals
        /\ Buy(s) \in Venues /\ Sell(s) \in Venues
    BY <1>3, ExecutorAssumption, LegVenues
  <2>2. lot \in Nat
    BY <2>1
  <2>3. \A c \in Callers :
          /\ fs[c][s][Sell(s)] <= fs[c][s][Buy(s)] + Slippage
          /\ fs[c][s][Buy(s)] <= fs[c][s][Sell(s)] + lot
    <3>1. \A c \in Callers :
            /\ fs[c][s][Sell(s)] <= fs[c][s][Buy(s)] + Slippage
            /\ fs[c][s][Buy(s)] <= fs[c][s][Sell(s)] + LotSize - 1 + Slippage
      BY <1>9 DEF Settled
    <3>2. \A c \in Callers :
            fs[c][s][Sell(s)] \in Nat /\ fs[c][s][Buy(s)] \in Nat
      BY <1>5, <2>1
    <3> QED BY <2>1, <3>1, <3>2
  <2> HIDE DEF lot
  <2>4. filled[s][Buy(s)] - filled[s][Sell(s)] <= Count * lot
    BY <1>1, <1>2, <2>1, <2>2, <2>3, AmountsApart
  <2>5. filled[s][Sell(s)] - filled[s][Buy(s)] <= Count * Slippage
    BY <1>1, <1>2, <2>1, <2>3, AmountsApart
  <2>6. filled[s][Sell(s)] \in Nat /\ filled[s][Buy(s)] \in Nat
    BY <1>4, <2>1
  <2> DEFINE x == Count * Slippage
             y == Count * lot
  <2>7. x \in Nat /\ y \in Nat
    BY <1>3, <1>6, <2>1, <2>2
  <2>8. (- Count) * Slippage = - (Count * Slippage)
    BY <1>3, <2>1
  <2>9. - x <= open /\ open <= y
    <3> HIDE DEF x, y
    <3>1. /\ filled[s][Buy(s)] - filled[s][Sell(s)] <= y
          /\ filled[s][Sell(s)] - filled[s][Buy(s)] <= x
      BY <2>4, <2>5 DEF x, y
    <3> QED BY <2>6, <2>7, <3>1
  <2>10. - Count * Slippage <= open /\ open <= Count * lot
    BY <2>8, <2>9
  <2> QED BY <1>3, <2>10 DEF Hedged, lot
<1> QED BY <1>8, <1>10, <1>11

\* The tracker never books what no venue traded, at any moment of any
\* execution, however many callers share the executor.
THEOREM BooksAreCovered == Spec => []NeverOverbooked
BY Accounts, TypeCorrect, AccountsAgree, PTL

\* A signal that was only ever reported Done has the same fills in the books
\* and at the venues, up to slippage.
THEOREM DoneMeansBooked == Spec => []DoneIsBooked
BY Accounts, TypeCorrect, AccountsAgree, PTL

\* Whatever a signal leaves open was reported to the breaker as a failure.
THEOREM NothingOpenUnreported == Spec => []OpenPositionsAreReported
BY Accounts, TypeCorrect, AccountsAgree, PTL
=============================================================================
