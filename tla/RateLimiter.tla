---------------------------- MODULE RateLimiter ----------------------------
(***************************************************************************)
(* The token bucket in front of the exchange's API: RateLimiter of         *)
(* exchange/src/client.rs and the requests that pass through it, of any    *)
(* number of tasks that share one ExchangeClient.                          *)
(*                                                                         *)
(* wait reads the clock before it has the lock, so a task may use a time   *)
(* that another task's refill has overtaken.  A future that is dropped,    *)
(* as the executor's leg timeout does, leaves wait or its request at any   *)
(* await.  Binance answers with the weight it has counted, whoever used it *)
(* and however late; the answer overwrites the tokens.                     *)
(*                                                                         *)
(* Time is in milliseconds and tokens are counted in the unit in which the *)
(* refill per millisecond is a whole number.                               *)
(***************************************************************************)
EXTENDS Integers

CONSTANTS
    Tasks,      \* tasks that share the client
    Capacity,   \* capacity
    Rate,       \* tokens_per_ms
    Weights,    \* what get_weight answers
    Delay,      \* bound: from reading the clock in wait to having the lock
    Timeout,    \* reqwest's timeout, 10 seconds
    Counts,     \* what the exchange may say it has counted
    MaxClock,   \* bound: the clock stops here
    MaxGranted  \* bound: no calls beyond this weight granted

ASSUME LimiterAssumption ==
    /\ Capacity \in Nat /\ Rate \in Nat \ {0}
    /\ Weights \subseteq 1..Capacity
    /\ Counts \subseteq Nat
    /\ Delay \in Nat /\ Timeout \in Nat
    /\ MaxClock \in Nat /\ MaxGranted \in Nat

VARIABLES
    readsHeaders,   \* the exchange is Binance
    clock,
    tokens,
    lastFill,       \* last_fill
    task,           \* where each task is: see TaskStates
    \* Observed only by the properties:
    granted,        \* weight granted so far
    before,         \* before[t]: weight granted before the instant t
    header,         \* the last header applied: [at, left, granted]
    undisturbed     \* sleepers since whose sleep began no token was taken

bucket == <<tokens, lastFill>>
history == <<granted, before, header>>
vars == <<readsHeaders, clock, bucket, task, history, undisturbed>>

\* A task is idle, waits for the lock with the time it has read, sleeps until
\* a time, or has sent its request at a time.
TaskStates ==
    [at : {"idle", "locking", "sleeping", "sent"},
     weight : Weights \cup {0}, time : Nat]
Idle == [at |-> "idle", weight |-> 0, time |-> 0]

TypeOK ==
    /\ readsHeaders \in BOOLEAN
    /\ clock \in 0..MaxClock
    /\ tokens \in 0..Capacity
    /\ lastFill \in 0..clock
    /\ task \in [Tasks -> TaskStates]
    /\ granted \in Nat
    /\ before \in [0..clock -> 0..granted]
    /\ header \in [at : 0..clock, left : 0..Capacity, granted : 0..granted]
    /\ undisturbed \in SUBSET Tasks

Init ==
    /\ readsHeaders \in BOOLEAN
    /\ clock = 0
    /\ tokens = Capacity /\ lastFill = 0
    /\ task = [t \in Tasks |-> Idle]
    /\ granted = 0 /\ before = [i \in 0..0 |-> 0]
    /\ header = [at |-> 0, left |-> Capacity, granted |-> 0]
    /\ undisturbed = {}

----------------------------------------------------------------------------
(* The bucket.                                                             *)

Least(a, b) == IF a <= b THEN a ELSE b
Largest(a, b) == IF a >= b THEN a ELSE b

\* Slip: a refill is not capped.
RefilledBeyond(now) == tokens + Rate * (Largest(now, lastFill) - lastFill)

\* The tokens after wait's refill with the time now: duration_since is zero
\* when now lies before the last fill.
Refilled(now) ==
    Least(tokens + Rate * (Largest(now, lastFill) - lastFill), Capacity)

\* Slip: rounded down, a sleeper may wake too early.
SleepTimeDown(missing) == Largest(missing \div Rate, 1)

\* wait_ms: at least one, and rounded up.
SleepTime(missing) == Largest((missing + Rate - 1) \div Rate, 1)

\* Slips: an exchange that counts more than the capacity drives the tokens
\* below zero; the header only ever raises them.
RemainingBelowZero(used) == Capacity - used
RemainingOrMore(used) == Largest(Capacity - used, tokens)

\* update_from_headers.
Remaining(used) == Largest(Capacity - used, 0)

----------------------------------------------------------------------------
(* A request.                                                              *)

\* signed_request or fetch_order_book calls wait, which reads the clock.
Call(t) ==
    /\ task[t].at = "idle"
    /\ \E w \in Weights :
          /\ granted + w <= MaxGranted
          /\ task' = [task EXCEPT ![t] =
                      [at |-> "locking", weight |-> w, time |-> clock]]
    /\ UNCHANGED <<readsHeaders, clock, bucket, history, undisturbed>>

\* wait has both locks and there are enough tokens.
Take(t) ==
    /\ task[t].at = "locking"
    /\ Refilled(task[t].time) >= task[t].weight
    /\ tokens' = Refilled(task[t].time) - task[t].weight
    /\ lastFill' = Largest(task[t].time, lastFill)
    /\ task' = [task EXCEPT ![t] =
                   [at |-> "sent", weight |-> task[t].weight, time |-> clock]]
    /\ granted' = granted + task[t].weight
    /\ undisturbed' = {}
    /\ UNCHANGED <<readsHeaders, clock, before, header>>

\* There are not: wait sleeps for what is missing.
Sleep(t) ==
    /\ task[t].at = "locking"
    /\ Refilled(task[t].time) < task[t].weight
    /\ tokens' = Refilled(task[t].time)
    /\ lastFill' = Largest(task[t].time, lastFill)
    /\ task' = [task EXCEPT ![t] =
                   [at |-> "sleeping", weight |-> task[t].weight,
                    time |-> clock + SleepTime(task[t].weight - tokens')]]
    /\ undisturbed' = undisturbed \cup {t}
    /\ UNCHANGED <<readsHeaders, clock, history>>

\* wait goes around its loop and reads the clock again.
Wake(t) ==
    /\ task[t].at = "sleeping"
    /\ clock >= task[t].time
    /\ task' = [task EXCEPT ![t] =
                   [at |-> "locking", weight |-> task[t].weight,
                    time |-> clock]]
    /\ UNCHANGED <<readsHeaders, clock, bucket, history, undisturbed>>

\* A signed request is answered by Binance, with an error or not.
AnswerWithHeader(t) ==
    /\ task[t].at = "sent"
    /\ readsHeaders
    /\ \E used \in Counts :
          /\ tokens' = Remaining(used)
          /\ header' = [at |-> clock, granted |-> granted,
                        left |-> Largest(Capacity - used, 0)]
    /\ task' = [task EXCEPT ![t] = Idle]
    /\ undisturbed' = {}
    /\ UNCHANGED <<readsHeaders, clock, lastFill, granted, before>>

\* Any other answer, an error, or the future is dropped at an await.
Leave(t) ==
    /\ task[t].at # "idle"
    /\ task' = [task EXCEPT ![t] = Idle]
    /\ undisturbed' = undisturbed \ {t}
    /\ UNCHANGED <<readsHeaders, clock, bucket, history>>

\* Time passes: a task that has read the clock has the lock within Delay, and
\* a request that was sent is over within Timeout.
Tick ==
    /\ clock < MaxClock
    /\ \A t \in Tasks :
          /\ task[t].at = "locking" => clock < task[t].time + Delay
          /\ task[t].at = "sent" => clock < task[t].time + Timeout
    /\ clock' = clock + 1
    /\ before' = [i \in 0..clock' |-> IF i <= clock THEN before[i] ELSE granted]
    /\ UNCHANGED <<readsHeaders, bucket, task, granted, header, undisturbed>>

Next ==
    \/ Tick
    \/ \E t \in Tasks :
          \/ Call(t) \/ Take(t) \/ Sleep(t) \/ Wake(t)
          \/ AnswerWithHeader(t) \/ Leave(t)

Spec == Init /\ [][Next]_vars

----------------------------------------------------------------------------
\* What the limiter is for, on the exchanges whose headers are not read: in
\* no span of time, wherever it starts and however the tasks interleave, is
\* more weight granted than the bucket holds and refills in that span; the
\* clock readings of others that are late count as part of it.
SpanBounded ==
    ~readsHeaders =>
       \A i \in 0..clock :
          granted - before[i] <= Capacity + Rate * (clock - i + Delay)

\* What the header is for: once the exchange has said what is left, no more
\* than that is granted, plus the refill since, plus that of the time the
\* answer took, which the first wait after it adds because a header does not
\* move last_fill.
HeaderRespected ==
    granted - header.granted
       <= header.left + Rate * (clock - header.at + Timeout + Delay)

\* A task that slept finds its tokens, unless another has taken tokens or a
\* header has changed them meanwhile: the sleep is never too short.
OneSleepSuffices ==
    [][\A t \in undisturbed : ~Sleep(t)]_vars
=============================================================================
