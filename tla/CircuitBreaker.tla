--------------------------- MODULE CircuitBreaker ---------------------------
(***************************************************************************)
(* The circuit breaker of executor/src/recovery.rs, with the callers that  *)
(* share it through Executor::circuit_breaker.  A caller is admitted when  *)
(* is_open answers false, runs for a while, and leaves with a success, a   *)
(* failure, or (duplicate or invalid signal) without reporting at all.     *)
(*                                                                         *)
(* The reset is lazy: nothing closes a tripped breaker until somebody      *)
(* polls it, and record_failure keeps pushing failures meanwhile.          *)
(***************************************************************************)
EXTENDS Integers, Sequences, FiniteSets

CONSTANTS
    Callers,            \* tasks that call Executor::execute
    FailureThreshold,   \* CircuitBreakerConfig.failure_threshold
    WindowSeconds,      \* CircuitBreakerConfig.window_seconds
    CooldownSeconds,    \* CircuitBreakerConfig.cooldown_seconds
    MaxClock,           \* bound: the clock stops here
    MaxFailures         \* bound: failures reported in a behaviour

ASSUME ThresholdAssumption == FailureThreshold \in Nat \ {0}
ASSUME TimesAssumption ==
    WindowSeconds \in Nat \ {0} /\ CooldownSeconds \in Nat
ASSUME CallersAssumption == IsFiniteSet(Callers)
ASSUME BoundsAssumption == MaxClock \in Nat /\ MaxFailures \in Nat

Never == -1     \* tripped_at = None

VARIABLES
    clock,      \* SignalGenerator::get_now(), in whole seconds
    breaker,    \* the CircuitBreaker: [failures, trippedAt]
    running,    \* callers admitted by is_open that have not left yet
    \* Observed only by the properties:
    log,        \* times of all the failures ever recorded
    cleared,    \* how many entries of log the last reset erased
    trips       \* times at which the breaker tripped

implVars == <<clock, breaker, running>>
vars == <<clock, breaker, running, log, cleared, trips>>

Breakers == [failures : Seq(Nat), trippedAt : Nat \cup {Never}]

TypeOK ==
    /\ clock \in 0..MaxClock
    /\ breaker \in Breakers
    /\ running \in SUBSET Callers
    /\ log \in Seq(Nat)
    /\ cleared \in 0..Len(log)
    /\ trips \in SUBSET Nat

----------------------------------------------------------------------------
(* The methods of CircuitBreaker, as functions from its old state to its   *)
(* new one.                                                                *)

NewBreaker == [failures |-> <<>>, trippedAt |-> Never]

Tripped(b) == b.trippedAt # Never

\* Slip: the cooldown ends one second early.
CooledDownEarly(b, now) == Tripped(b) /\ now - b.trippedAt >= CooldownSeconds

\* The condition under which is_open gives up on an old trip.
CooledDown(b, now) == Tripped(b) /\ now - b.trippedAt > CooldownSeconds

\* What is_open answers at time now.
IsOpen(b, now) == Tripped(b) /\ ~CooledDown(b, now)

\* Slips: the reset forgets the failures but not the trip; every poll that
\* lets a caller in forgets the failures.
AfterPollStillTripped(b, now) ==
    IF CooledDown(b, now) THEN [b EXCEPT !.failures = <<>>] ELSE b
AfterPollForgets(b, now) == IF IsOpen(b, now) THEN b ELSE NewBreaker

\* The state is_open leaves behind.
AfterPoll(b, now) == IF CooledDown(b, now) THEN NewBreaker ELSE b

\* cleanup_old_failures: pop from the front up to the first recent failure.
CleanupOldFailures(times, now) ==
    LET recent == {i \in DOMAIN times : times[i] > now - WindowSeconds}
    IN  IF recent = {} THEN <<>>
        ELSE SubSeq(times, CHOOSE i \in recent : \A j \in recent : i <= j,
                    Len(times))

\* Slips: every failure of an open breaker moves the trip; a trip is dated
\* back by the cooldown.
TripAgain(b, now) == [b EXCEPT !.trippedAt = now]
TripBackdated(b, now) ==
    IF Tripped(b) THEN b ELSE [b EXCEPT !.trippedAt = now - CooldownSeconds]

\* trip: a breaker that is already tripped keeps its first trip time.
Trip(b, now) == IF Tripped(b) THEN b ELSE [b EXCEPT !.trippedAt = now]

RecordFailure(b, now) ==
    LET kept == [b EXCEPT !.failures =
                    CleanupOldFailures(Append(@, now), now)]
    IN  IF Len(kept.failures) >= FailureThreshold
        THEN Trip(kept, now) ELSE kept

\* The failure branch at the end of execute records the failure and, still
\* holding the lock, asks is_open.
AfterFailure(b, now) == AfterPoll(RecordFailure(b, now), now)

----------------------------------------------------------------------------
Init ==
    /\ clock = 0
    /\ breaker = NewBreaker
    /\ running = {}
    /\ log = <<>>
    /\ cleared = 0
    /\ trips = {}

\* A reset forgets every failure logged so far.
Observe(before, after, newLog) ==
    /\ log' = newLog
    /\ cleared' = IF Tripped(before) /\ ~Tripped(after)
                  THEN Len(newLog) ELSE cleared
    /\ trips' = IF ~Tripped(before) /\ Tripped(after)
                THEN trips \cup {after.trippedAt} ELSE trips

\* The wall clock advances; the breaker has no timer of its own.
Tick ==
    /\ clock < MaxClock
    /\ clock' = clock + 1
    /\ UNCHANGED <<breaker, running, log, cleared, trips>>

\* execute begins: is_open answers false.  (When it answers true, execute
\* returns "Circuit breaker open" and nothing has changed.)
Admit(c) ==
    /\ c \notin running
    /\ ~IsOpen(breaker, clock)
    /\ breaker' = AfterPoll(breaker, clock)
    /\ running' = running \cup {c}
    /\ Observe(breaker, breaker', log)
    /\ UNCHANGED clock

\* execute returns "Duplicate signal" or "Signal invalid", which the breaker
\* is not told of, or it is Done and record_success does nothing.
Leave(c) ==
    /\ c \in running
    /\ running' = running \ {c}
    /\ UNCHANGED <<clock, breaker, log, cleared, trips>>

\* execute ends in any state but Done.
Fail(c) ==
    /\ c \in running
    /\ Len(log) < MaxFailures
    /\ breaker' = AfterFailure(breaker, clock)
    /\ running' = running \ {c}
    /\ Observe(breaker, breaker', Append(log, clock))
    /\ UNCHANGED clock

\* is_circuit_open: the bot's tick and its health report poll the breaker.
\* (A poll that finds nothing to reset changes nothing.)
Poll ==
    /\ CooledDown(breaker, clock)
    /\ breaker' = AfterPoll(breaker, clock)
    /\ Observe(breaker, breaker', log)
    /\ UNCHANGED <<clock, running>>

Next ==
    \/ Tick
    \/ Poll
    \/ \E c \in Callers : Admit(c) \/ Leave(c) \/ Fail(c)

Spec == Init /\ [][Next]_vars

\* Time passes and the health report, at least, keeps polling.
FairSpec == Spec /\ WF_vars(Tick) /\ WF_vars(Poll)

----------------------------------------------------------------------------
\* The FailureThreshold failures that start at entry i of the log fall
\* within one window.
BurstAt(i) ==
    /\ i + FailureThreshold - 1 <= Len(log)
    /\ log[i + FailureThreshold - 1] - log[i] < WindowSeconds

\* Of the failures recorded since the last reset, including those already
\* dropped from the deque, some FailureThreshold consecutive ones fell within
\* one window if and only if the breaker is tripped, and it is tripped since
\* the first such burst, whatever was recorded afterwards.
TripsExactlyOnBurst ==
    LET bursts == {i \in cleared + 1 .. Len(log) : BurstAt(i)}
    IN  /\ Tripped(breaker) <=> bursts # {}
        /\ \A i \in bursts :
              (\A j \in bursts : i <= j)
                 => breaker.trippedAt = log[i + FailureThreshold - 1]

\* No execution starts until more than the cooldown has passed since every
\* trip there ever was: neither a late failure, nor a reset by another poll,
\* nor a later trip shortens a cooldown.
CooldownHonoured ==
    [][\A c \in running' \ running :
          \A t \in trips : clock - t > CooldownSeconds]_vars

\* What the breaker is for: however the callers interleave, the failed
\* executions in a span shorter than both the window and the cooldown number
\* at most the threshold, plus what the other callers already had in flight
\* when the breaker tripped and when it last reset.
FailuresInAnySpan == FailureThreshold + 2 * (Cardinality(Callers) - 1)
FailureRateBounded ==
    \A i, j \in DOMAIN log :
       /\ i < j
       /\ log[j] - log[i] < WindowSeconds
       /\ log[j] - log[i] < CooldownSeconds
       => j - i < FailuresInAnySpan

\* A tripped breaker closes again once its cooldown is over (if the bounded
\* clock gets that far): failures recorded meanwhile do not keep it open.
Recovers ==
    \A t \in 0..MaxClock - CooldownSeconds - 1 :
       (breaker.trippedAt = t) ~> ~Tripped(breaker)
=============================================================================
