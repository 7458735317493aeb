-------------------------- MODULE RateLimiterProofs --------------------------
(***************************************************************************)
(* What the rate limiter grants, for any number of tasks, any capacity and *)
(* rate, and any headers.                                                  *)
(*                                                                         *)
(* The bounds speak of weight granted, the code of tokens left.  The       *)
(* invariant says how they are related: whatever has been granted since an *)
(* instant, together with the tokens that are left, was in the bucket then *)
(* or has been refilled since, up to last_fill.                            *)
(***************************************************************************)
EXTENDS RateLimiter, TLAPS

\* Types of the parts that the bounds are about.
BucketTypes ==
    /\ readsHeaders \in BOOLEAN
    /\ clock \in Nat
    /\ tokens \in 0..Capacity
    /\ lastFill \in 0..clock
    /\ task \in [Tasks -> TaskStates]
    /\ granted \in Nat
    /\ before \in [0..clock -> Nat]
    /\ header \in [at : Nat, left : Nat, granted : Nat]

\* Clock readings are at most Delay old, requests at most Timeout, and the
\* bucket was filled when, or up to Delay before, a request was let through.
Timely ==
    \A t \in Tasks :
       /\ task[t].at = "locking" =>
             task[t].time <= clock /\ clock <= task[t].time + Delay
       /\ task[t].at = "sent" =>
             /\ clock <= task[t].time + Timeout
             /\ task[t].time <= lastFill + Delay

\* The tokens account for what has been granted since the instant i.
AccountsSince(i) ==
    /\ i <= lastFill + Delay
    /\ tokens + granted - before[i] <= Capacity + Rate * (lastFill - i + Delay)
SpanAccounted ==
    ~readsHeaders =>
       \A i \in 0..clock : before[i] # granted => AccountsSince(i)

\* The tokens account for what has been granted since the last header.
HeaderAccounted ==
    /\ header.at <= lastFill + Timeout + Delay
    /\ tokens + granted - header.granted
          <= header.left + Rate * (lastFill - header.at + Timeout + Delay)

IInv == BucketTypes /\ Timely /\ SpanAccounted /\ HeaderAccounted

----------------------------------------------------------------------------
(* Arithmetic.                                                             *)

\* What the bucket gains from a to b and from b to c, it gains from a to c.
LEMMA RefillsAddUp ==
    ASSUME NEW r \in Nat, NEW a \in Int, NEW b \in Int, NEW d \in Int
    PROVE  r * (b - a) + r * (a - d) = r * (b - d)
OBVIOUS

\* A longer time refills at least as much.
LEMMA RefillsGrow ==
    ASSUME NEW r \in Nat, NEW a \in Int, NEW b \in Int, a <= b
    PROVE  r * a <= r * b
<1>1. r * (b - a) >= 0
  OBVIOUS
<1>2. r * b = r * a + r * (b - a)
  OBVIOUS
<1>. QED  BY <1>1, <1>2

\* wait's refill never exceeds the capacity, nor what the time since the last
\* fill allows, and never moves the last fill back.
LEMMA Refilling ==
    ASSUME BucketTypes, NEW now \in 0..clock
    PROVE  /\ Refilled(now) \in 0..Capacity
           /\ Refilled(now) <= tokens + Rate * (Largest(now, lastFill) - lastFill)
           /\ Largest(now, lastFill) \in 0..clock
           /\ now <= Largest(now, lastFill)
           /\ lastFill <= Largest(now, lastFill)
<1>. DEFINE gain == Rate * (Largest(now, lastFill) - lastFill)
<1>1. /\ Largest(now, lastFill) \in 0..clock
      /\ now <= Largest(now, lastFill)
      /\ lastFill <= Largest(now, lastFill)
  BY DEF BucketTypes, Largest
<1>2. gain \in Nat
  <2>1. Largest(now, lastFill) - lastFill \in Nat
    BY <1>1 DEF BucketTypes
  <2>. QED  BY <2>1, LimiterAssumption
<1>. HIDE DEF gain
<1>3. Refilled(now) = Least(tokens + gain, Capacity)
  BY DEF Refilled, gain
<1>4. Refilled(now) \in 0..Capacity /\ Refilled(now) <= tokens + gain
  BY <1>2, <1>3, LimiterAssumption DEF Least, BucketTypes
<1>. QED  BY <1>1, <1>4 DEF gain

----------------------------------------------------------------------------
(* The initial states.                                                     *)

LEMMA InitIInv == Init => IInv
<1>. SUFFICES ASSUME Init PROVE IInv
  OBVIOUS
<1>1. BucketTypes
  BY LimiterAssumption DEF Init, BucketTypes, TaskStates, Idle
<1>2. Timely
  BY DEF Init, Timely, Idle
<1>3. SpanAccounted
  BY DEF Init, SpanAccounted
<1>4. HeaderAccounted
  <2>1. Rate * (Timeout + Delay) >= 0
    BY LimiterAssumption
  <2>2. /\ header.at = 0 /\ header.left = Capacity /\ header.granted = 0
        /\ lastFill = 0 /\ tokens = Capacity /\ granted = 0
    BY DEF Init
  <2>3. lastFill - header.at + Timeout + Delay = Timeout + Delay
    BY <2>2, LimiterAssumption
  <2>. QED  BY <2>1, <2>2, <2>3, LimiterAssumption DEF HeaderAccounted
<1>. QED  BY <1>1, <1>2, <1>3, <1>4 DEF IInv

----------------------------------------------------------------------------
(* The steps.                                                              *)

\* A pass through wait: the refill, and the weight w it takes, 0 if it goes
\* to sleep.
Pass(now, w) ==
    /\ tokens' = Refilled(now) - w
    /\ lastFill' = Largest(now, lastFill)
    /\ granted' = granted + w
    /\ UNCHANGED <<readsHeaders, clock, before, header>>

\* Any amount that the tokens account for at the last fill, they account for
\* after a pass: what the refill adds, the elapsed time allows.
LEMMA PassKeepsAccount ==
    ASSUME BucketTypes, NEW now \in 0..clock, NEW w \in Nat, Pass(now, w),
           NEW spent \in Int, NEW limit \in Int, NEW start \in Int,
           tokens + granted - spent <= limit + Rate * (lastFill - start)
    PROVE  tokens' + granted' - spent <= limit + Rate * (lastFill' - start)
<1>. DEFINE fill == Largest(now, lastFill)
            gain == Rate * (fill - lastFill)
            had == Rate * (lastFill - start)
            has == Rate * (fill - start)
<1>1. Refilled(now) \in Int /\ Refilled(now) <= tokens + gain /\ fill \in Int
  BY Refilling
<1>2. lastFill \in Int /\ tokens \in Int /\ granted \in Int
  BY DEF BucketTypes
<1>3. has = gain + had
  BY <1>1, <1>2, RefillsAddUp, LimiterAssumption
<1>4. gain \in Int /\ had \in Int
  BY <1>1, <1>2, LimiterAssumption
<1>5. tokens' = Refilled(now) - w /\ granted' = granted + w /\ lastFill' = fill
  BY DEF Pass
<1>6. tokens + granted - spent <= limit + had
  OBVIOUS
<1>7. Rate * (lastFill' - start) = has
  BY <1>5
<1>. HIDE DEF fill, gain, had, has
<1>8. tokens' + granted' - spent <= limit + has
  BY <1>1, <1>2, <1>3, <1>4, <1>5, <1>6
<1>. QED  BY <1>7, <1>8

LEMMA PassKeepsAccounts ==
    ASSUME IInv, NEW now \in 0..clock, clock <= now + Delay, NEW w \in Nat,
           w <= Refilled(now), Pass(now, w)
    PROVE  SpanAccounted' /\ HeaderAccounted'
<1>1. BucketTypes
  BY DEF IInv
<1>2. /\ readsHeaders' = readsHeaders /\ clock' = clock /\ before' = before
      /\ header' = header
  BY DEF Pass
<1>3. lastFill' = Largest(now, lastFill) /\ lastFill' \in 0..clock
      /\ now <= lastFill' /\ lastFill <= lastFill'
  BY <1>1, Refilling DEF Pass
<1>4. SpanAccounted'
  <2>. SUFFICES ASSUME ~readsHeaders, NEW i \in 0..clock, before[i] # granted'
                PROVE  AccountsSince(i)'
    BY <1>2 DEF SpanAccounted
  <2>1. before[i] \in Nat /\ i \in Nat /\ clock \in Nat /\ lastFill \in Nat
    BY <1>1 DEF BucketTypes
  <2>2. i <= lastFill' + Delay
    BY <1>3, <2>1, LimiterAssumption
  <2>3. tokens' + granted' - before[i]
           <= Capacity + Rate * (lastFill' - (i - Delay))
    <3>1. CASE before[i] # granted
      <4>1. tokens + granted - before[i]
               <= Capacity + Rate * (lastFill - i + Delay)
        BY <3>1 DEF IInv, SpanAccounted, AccountsSince
      <4>2. lastFill - i + Delay = lastFill - (i - Delay)
        BY <2>1, LimiterAssumption
      <4>3. i - Delay \in Int
        BY <2>1, LimiterAssumption
      <4>. QED  BY <1>1, <2>1, <4>1, <4>2, <4>3, PassKeepsAccount,
                   LimiterAssumption
    <3>2. CASE before[i] = granted
      <4>1. tokens' + granted' - before[i] = Refilled(now)
        <5>1. tokens' = Refilled(now) - w /\ granted' = granted + w
          BY DEF Pass
        <5>2. Refilled(now) \in Int /\ granted \in Int
          BY <1>1, Refilling DEF BucketTypes
        <5>. QED  BY <3>2, <5>1, <5>2
      <4>2. Refilled(now) <= Capacity
        BY <1>1, Refilling, LimiterAssumption
      <4>3. Rate * (lastFill' - (i - Delay)) >= 0
        <5>1. lastFill' - (i - Delay) \in Nat
          BY <1>3, <2>1, <2>2, LimiterAssumption
        <5>. QED  BY <5>1, LimiterAssumption
      <4>4. Refilled(now) \in Int /\ Rate * (lastFill' - (i - Delay)) \in Int
        BY <1>1, <1>3, <2>1, Refilling, LimiterAssumption
      <4>. QED  BY <4>1, <4>2, <4>3, <4>4, LimiterAssumption
    <3>. QED  BY <3>1, <3>2
  <2>4. lastFill' - (i - Delay) = lastFill' - i + Delay
    BY <1>3, <2>1, LimiterAssumption
  <2>. QED  BY <1>2, <2>2, <2>3, <2>4 DEF AccountsSince
<1>5. HeaderAccounted'
  <2>1. /\ header.at \in Nat /\ header.left \in Nat /\ header.granted \in Nat
        /\ lastFill \in Nat /\ clock \in Nat
    BY <1>1 DEF BucketTypes
  <2>2. header.at <= lastFill' + Timeout + Delay
    BY <1>3, <2>1, LimiterAssumption DEF IInv, HeaderAccounted
  <2>. DEFINE start == header.at - Timeout - Delay
  <2>3. /\ lastFill - start = lastFill - header.at + Timeout + Delay
        /\ lastFill' - start = lastFill' - header.at + Timeout + Delay
        /\ start \in Int
    BY <1>3, <2>1, LimiterAssumption
  <2>4. tokens + granted - header.granted
           <= header.left + Rate * (lastFill - start)
    BY <2>3 DEF IInv, HeaderAccounted
  <2>. HIDE DEF start
  <2>5. tokens' + granted' - header.granted
           <= header.left + Rate * (lastFill' - start)
    BY <1>1, <2>1, <2>3, <2>4, PassKeepsAccount
  <2>. QED  BY <1>2, <2>2, <2>3, <2>5 DEF HeaderAccounted
<1>. QED  BY <1>4, <1>5

\* A task on its way through wait holds a recent clock reading.
LEMMA Reading ==
    ASSUME BucketTypes, Timely, NEW t \in Tasks, task[t].at = "locking"
    PROVE  /\ task[t].time \in 0..clock
           /\ clock <= task[t].time + Delay
           /\ task[t].weight \in Nat
           /\ task[t].weight \in Weights \cup {0}
           /\ \A fill \in Int : task[t].time <= fill => clock <= fill + Delay
<1>1. task[t] \in TaskStates
  BY DEF BucketTypes
<1>2. task[t].time \in Nat /\ task[t].weight \in Weights \cup {0}
  BY <1>1 DEF TaskStates
<1>3. task[t].weight \in Nat
  <2>1. \A w \in Weights \cup {0} : w \in Nat
    BY LimiterAssumption
  <2>. QED  BY <1>2, <2>1
<1>4. task[t].time <= clock /\ clock <= task[t].time + Delay
  BY DEF Timely
<1>5. clock \in Nat
  BY DEF BucketTypes
<1>6. \A fill \in Int : task[t].time <= fill => clock <= fill + Delay
  <2>1. Delay \in Nat
    BY LimiterAssumption
  <2>. QED  BY <1>2, <1>4, <1>5, <2>1
<1>. QED  BY <1>2, <1>3, <1>4, <1>5, <1>6

LEMMA TakePreserves ==
    ASSUME IInv, NEW t \in Tasks, Take(t)
    PROVE  IInv'
<1>. DEFINE now == task[t].time
            w == task[t].weight
<1>1. BucketTypes /\ Timely
  BY DEF IInv
<1>2. task[t] \in TaskStates /\ task[t].at = "locking"
  BY <1>1 DEF Take, BucketTypes
<1>3. now \in 0..clock /\ clock <= now + Delay /\ w \in Nat
  BY <1>1, <1>2, Reading
<1>4. Pass(now, w) /\ w <= Refilled(now)
  BY <1>1, <1>3, Refilling, LimiterAssumption DEF Take, Pass
<1>5. SpanAccounted' /\ HeaderAccounted'
  BY <1>3, <1>4, PassKeepsAccounts
<1>6. /\ tokens' \in 0..Capacity /\ lastFill' \in 0..clock
      /\ now <= lastFill' /\ lastFill <= lastFill'
  BY <1>1, <1>3, <1>4, Refilling, LimiterAssumption DEF Pass
<1>7. task' = [task EXCEPT ![t] =
                  [at |-> "sent", weight |-> w, time |-> clock]]
  BY DEF Take
<1>8. BucketTypes'
  <2>1. task' \in [Tasks -> TaskStates]
    BY <1>1, <1>2, <1>7, Reading DEF BucketTypes, TaskStates
  <2>2. granted' \in Nat
    BY <1>1, <1>3, <1>4, SMTT(30) DEF Pass, BucketTypes
  <2>. QED  BY <1>1, <1>4, <1>6, <2>1, <2>2 DEF Pass, BucketTypes
<1>9. Timely'
  <2>. SUFFICES ASSUME NEW u \in Tasks
                PROVE  /\ task'[u].at = "locking" =>
                             /\ task'[u].time <= clock
                             /\ clock <= task'[u].time + Delay
                       /\ task'[u].at = "sent" =>
                             /\ clock <= task'[u].time + Timeout
                             /\ task'[u].time <= lastFill' + Delay
    BY <1>4 DEF Timely, Pass
  <2>1. CASE u = t
    <3>1. task'[u].at = "sent" /\ task'[u].time = clock
      BY <1>1, <1>7, <2>1 DEF BucketTypes
    <3>2. clock \in Nat /\ now \in Int /\ lastFill' \in Int
      BY <1>1, <1>3, <1>6 DEF BucketTypes
    <3>3. Timeout \in Nat /\ Delay \in Nat
      BY LimiterAssumption
    <3>4. clock <= clock + Timeout
      BY <3>2, <3>3
    <3>5. clock <= lastFill' + Delay
      BY <1>1, <1>2, <1>6, <3>2, Reading
    <3>. QED  BY <3>1, <3>4, <3>5
  <2>2. CASE u # t
    <3>1. task'[u] = task[u] /\ task[u].time \in Nat /\ lastFill \in Nat
      BY <1>1, <1>7, <2>2 DEF BucketTypes, TaskStates
    <3>. QED  BY <1>1, <1>6, <3>1, LimiterAssumption DEF Timely
  <2>. QED  BY <2>1, <2>2
<1>. QED  BY <1>5, <1>8, <1>9 DEF IInv

LEMMA SleepPreserves ==
    ASSUME IInv, NEW t \in Tasks, Sleep(t)
    PROVE  IInv'
<1>. DEFINE now == task[t].time
            w == task[t].weight
<1>1. BucketTypes /\ Timely
  BY DEF IInv
<1>2. task[t] \in TaskStates /\ task[t].at = "locking"
  BY <1>1 DEF Sleep, BucketTypes
<1>3. now \in 0..clock /\ clock <= now + Delay /\ w \in Nat
  BY <1>1, <1>2, Reading
<1>4. Pass(now, 0) /\ 0 <= Refilled(now)
  <2>1. Refilled(now) - 0 = Refilled(now) /\ granted + 0 = granted
    <3>1. Refilled(now) \in Int
      BY <1>1, <1>3, Refilling
    <3>2. granted \in Int
      BY <1>1 DEF BucketTypes
    <3>. QED  BY <3>1, <3>2
  <2>2. 0 <= Refilled(now)
    BY <1>1, <1>3, Refilling
  <2>. QED  BY <2>1, <2>2 DEF Sleep, Pass, history
<1>5. SpanAccounted' /\ HeaderAccounted'
  BY <1>3, <1>4, PassKeepsAccounts
<1>6. /\ tokens' \in 0..Capacity /\ lastFill' \in 0..clock
      /\ lastFill <= lastFill'
  BY <1>1, <1>3, <1>4, Refilling, LimiterAssumption DEF Pass
<1>7. PICK wake \in Nat :
         task' = [task EXCEPT ![t] =
                     [at |-> "sleeping", weight |-> w, time |-> wake]]
  <2>1. tokens' < w
    BY <1>3 DEF Sleep
  <2>2. clock + SleepTime(w - tokens') \in Nat
    <3>1. clock \in Nat /\ w - tokens' \in Nat
      BY <1>1, <1>3, <1>6, <2>1, LimiterAssumption DEF BucketTypes
    <3>2. (w - tokens' + Rate - 1) \div Rate \in Int
      BY <3>1, LimiterAssumption
    <3>3. SleepTime(w - tokens') \in Nat
      BY <3>2 DEF SleepTime, Largest
    <3>. QED  BY <3>1, <3>3
  <2>. QED  BY <2>2 DEF Sleep
<1>8. BucketTypes'
  <2>1. task' \in [Tasks -> TaskStates]
    BY <1>1, <1>2, <1>7, Reading DEF BucketTypes, TaskStates
  <2>2. granted' \in Nat
    BY <1>1, <1>4 DEF Pass, BucketTypes
  <2>. QED  BY <1>1, <1>4, <1>6, <2>1, <2>2 DEF Pass, BucketTypes
<1>9. Timely'
  <2>. SUFFICES ASSUME NEW u \in Tasks
                PROVE  /\ task'[u].at = "locking" =>
                             /\ task'[u].time <= clock
                             /\ clock <= task'[u].time + Delay
                       /\ task'[u].at = "sent" =>
                             /\ clock <= task'[u].time + Timeout
                             /\ task'[u].time <= lastFill' + Delay
    BY <1>4 DEF Timely, Pass
  <2>1. CASE u = t
    <3>1. task'[u].at = "sleeping"
      BY <1>1, <1>7, <2>1 DEF BucketTypes
    <3>. QED  BY <3>1
  <2>2. CASE u # t
    <3>1. task'[u] = task[u] /\ task[u].time \in Nat /\ lastFill \in Nat
      BY <1>1, <1>7, <2>2 DEF BucketTypes, TaskStates
    <3>. QED  BY <1>1, <1>6, <3>1, LimiterAssumption DEF Timely
  <2>. QED  BY <2>1, <2>2
<1>. QED  BY <1>5, <1>8, <1>9 DEF IInv

\* A header starts a new account: the tokens are what it leaves.
LEMMA HeaderPreserves ==
    ASSUME IInv, NEW t \in Tasks, AnswerWithHeader(t)
    PROVE  IInv'
<1>1. BucketTypes /\ Timely
  BY DEF IInv
<1>2. task[t] \in TaskStates /\ task[t].at = "sent" /\ readsHeaders
  BY <1>1 DEF AnswerWithHeader, BucketTypes
<1>3. clock \in Nat /\ lastFill \in 0..clock /\ task[t].time \in Nat
  BY <1>1, <1>2 DEF BucketTypes, TaskStates
<1>4. clock <= lastFill + Timeout + Delay
  <2>1. clock <= task[t].time + Timeout /\ task[t].time <= lastFill + Delay
    BY <1>1, <1>2 DEF Timely
  <2>2. Timeout \in Nat /\ Delay \in Nat
    BY LimiterAssumption
  <2>. QED  BY <1>3, <2>1, <2>2
<1>5. PICK left \in 0..Capacity :
         /\ tokens' = left
         /\ header' = [at |-> clock, granted |-> granted, left |-> left]
  <2>1. \A used \in Counts : /\ Remaining(used) = Largest(Capacity - used, 0)
                             /\ Remaining(used) \in 0..Capacity
    BY LimiterAssumption DEF Remaining, Largest
  <2>. QED  BY <2>1 DEF AnswerWithHeader
<1>6. /\ clock' = clock /\ lastFill' = lastFill /\ granted' = granted
      /\ before' = before /\ readsHeaders' = readsHeaders
      /\ task' = [task EXCEPT ![t] = Idle]
  BY DEF AnswerWithHeader
<1>7. BucketTypes'
  <2>1. task' \in [Tasks -> TaskStates]
    BY <1>1, <1>6 DEF BucketTypes, TaskStates, Idle
  <2>2. header' \in [at : Nat, left : Nat, granted : Nat]
    BY <1>1, <1>5, LimiterAssumption DEF BucketTypes
  <2>3. tokens' \in 0..Capacity
    BY <1>5
  <2>. QED  BY <1>1, <1>6, <2>1, <2>2, <2>3 DEF BucketTypes
<1>8. Timely'
  <2>. SUFFICES ASSUME NEW u \in Tasks
                PROVE  \/ task'[u] = task[u]
                       \/ task'[u].at = "idle"
    BY <1>1, <1>6 DEF Timely
  <2>. QED  BY <1>1, <1>6 DEF BucketTypes, Idle
<1>9. SpanAccounted'
  BY <1>2, <1>6 DEF SpanAccounted
<1>10. HeaderAccounted'
  <2>1. header'.at = clock /\ header'.left = tokens'
        /\ header'.granted = granted'
    BY <1>5, <1>6
  <2>2. Rate * (lastFill - clock + Timeout + Delay) >= 0
    <3>1. lastFill - clock + Timeout + Delay \in Nat
      BY <1>3, <1>4, LimiterAssumption
    <3>. QED  BY <3>1, LimiterAssumption
  <2>3. tokens' \in Int /\ granted' \in Int
    BY <1>7 DEF BucketTypes
  <2>4. Rate * (lastFill - clock + Timeout + Delay) \in Int
    BY <1>3, LimiterAssumption
  <2>5. tokens' + granted' - granted'
           <= tokens' + Rate * (lastFill - clock + Timeout + Delay)
    BY <2>2, <2>3, <2>4
  <2>. QED  BY <1>4, <1>6, <2>1, <2>5 DEF HeaderAccounted
<1>. QED  BY <1>7, <1>8, <1>9, <1>10 DEF IInv

\* Call, Wake and Leave leave the bucket and its accounts alone.
LEMMA WaitingPreserves ==
    ASSUME IInv, NEW t \in Tasks, Call(t) \/ Wake(t) \/ Leave(t)
    PROVE  IInv'
<1>1. BucketTypes /\ Timely
  BY DEF IInv
<1>2. /\ clock' = clock /\ tokens' = tokens /\ lastFill' = lastFill
      /\ granted' = granted /\ before' = before /\ header' = header
      /\ readsHeaders' = readsHeaders
  BY DEF Call, Wake, Leave, bucket, history
<1>3. PICK r \in TaskStates :
         /\ task' = [task EXCEPT ![t] = r]
         /\ r.at = "idle" \/ (r.at = "locking" /\ r.time = clock)
  <2>1. CASE Call(t)
    BY <1>1, <2>1 DEF Call, TaskStates, BucketTypes
  <2>2. CASE Wake(t)
    <3>1. task[t] \in TaskStates /\ clock \in Nat
      BY <1>1 DEF BucketTypes
    <3>. DEFINE r == [at |-> "locking", weight |-> task[t].weight,
                      time |-> clock]
    <3>2. r \in TaskStates
      BY <3>1 DEF TaskStates
    <3>3. task' = [task EXCEPT ![t] = r] /\ r.at = "locking" /\ r.time = clock
      BY <2>2 DEF Wake
    <3>. QED  BY <3>2, <3>3
  <2>3. CASE Leave(t)
    <3>1. Idle \in TaskStates /\ Idle.at = "idle"
      BY DEF TaskStates, Idle
    <3>2. task' = [task EXCEPT ![t] = Idle]
      BY <2>3 DEF Leave
    <3>. QED  BY <3>1, <3>2
  <2>. QED  BY <2>1, <2>2, <2>3
<1>4. BucketTypes'
  BY <1>1, <1>2, <1>3 DEF BucketTypes
<1>5. Timely'
  <2>. SUFFICES ASSUME NEW u \in Tasks
                PROVE  \/ task'[u] = task[u]
                       \/ task'[u].at = "idle"
                       \/ /\ task'[u].at = "locking"
                          /\ task'[u].time <= clock
                          /\ clock <= task'[u].time + Delay
    BY <1>1, <1>2 DEF Timely
  <2>1. CASE u = t
    <3>1. task'[u] = r
      BY <1>1, <1>3, <2>1 DEF BucketTypes
    <3>2. clock <= clock + Delay
      BY <1>1, LimiterAssumption DEF BucketTypes
    <3>3. clock <= clock
      BY <1>1 DEF BucketTypes
    <3>. QED  BY <1>3, <3>1, <3>2, <3>3
  <2>2. CASE u # t
    BY <1>1, <1>3, <2>2 DEF BucketTypes
  <2>. QED  BY <2>1, <2>2
<1>6. SpanAccounted'
  BY <1>1, <1>2 DEF IInv, SpanAccounted, AccountsSince
<1>7. HeaderAccounted'
  BY <1>1, <1>2 DEF IInv, HeaderAccounted
<1>. QED  BY <1>4, <1>5, <1>6, <1>7 DEF IInv

\* Time only adds an instant, since which nothing has been granted yet.
LEMMA TickPreserves ==
    ASSUME IInv, Tick
    PROVE  IInv'
<1>1. BucketTypes /\ Timely
  BY DEF IInv
<1>2. /\ tokens' = tokens /\ lastFill' = lastFill /\ task' = task
      /\ granted' = granted /\ header' = header
      /\ readsHeaders' = readsHeaders
  BY DEF Tick, bucket
<1>3. clock' = clock + 1 /\ clock' \in Nat /\ clock \in Nat
  BY <1>1 DEF Tick, BucketTypes
<1>4. before' = [i \in 0..clock' |-> IF i <= clock THEN before[i] ELSE granted]
  BY DEF Tick
<1>5. BucketTypes'
  <2>1. before' \in [0..clock' -> Nat]
    <3>1. \A i \in 0..clock' : i <= clock => before[i] \in Nat
      BY <1>1, <1>3 DEF BucketTypes
    <3>2. granted \in Nat
      BY <1>1 DEF BucketTypes
    <3>. QED  BY <1>4, <3>1, <3>2
  <2>2. lastFill' \in 0..clock'
    BY <1>1, <1>2, <1>3 DEF BucketTypes
  <2>. QED  BY <1>1, <1>2, <1>3, <2>1, <2>2 DEF BucketTypes
<1>6. Timely'
  <2>. SUFFICES ASSUME NEW t \in Tasks
                PROVE  /\ task[t].at = "locking" =>
                             /\ task[t].time <= clock'
                             /\ clock' <= task[t].time + Delay
                       /\ task[t].at = "sent" =>
                             /\ clock' <= task[t].time + Timeout
                             /\ task[t].time <= lastFill + Delay
    BY <1>2 DEF Timely
  <2>1. task[t].time \in Nat
    BY <1>1 DEF BucketTypes, TaskStates
  <2>2. task[t].at = "locking" =>
           task[t].time <= clock /\ clock < task[t].time + Delay
    BY <1>1 DEF Tick, Timely
  <2>3. task[t].at = "sent" =>
           clock < task[t].time + Timeout /\ task[t].time <= lastFill + Delay
    BY <1>1 DEF Tick, Timely
  <2>4. Delay \in Nat /\ Timeout \in Nat
    BY LimiterAssumption
  <2>5. \A time, d \in Nat :
           /\ time <= clock => time <= clock'
           /\ clock < time + d => clock' <= time + d
    BY <1>3
  <2>. QED  BY <2>1, <2>2, <2>3, <2>4, <2>5
<1>7. SpanAccounted'
  <2>. SUFFICES ASSUME ~readsHeaders, NEW i \in 0..clock',
                       before'[i] # granted
                PROVE  AccountsSince(i)'
    BY <1>2 DEF SpanAccounted
  <2>1. i \in 0..clock /\ before'[i] = before[i]
    BY <1>3, <1>4
  <2>. QED  BY <1>2, <2>1 DEF IInv, SpanAccounted, AccountsSince
<1>8. HeaderAccounted'
  BY <1>2 DEF IInv, HeaderAccounted
<1>. QED  BY <1>5, <1>6, <1>7, <1>8 DEF IInv

LEMMA StutterPreserves == IInv /\ UNCHANGED vars => IInv'
BY DEF IInv, vars, bucket, history, BucketTypes, Timely, SpanAccounted,
       AccountsSince, HeaderAccounted

----------------------------------------------------------------------------
(* The theorems.                                                           *)

LEMMA StepKeepsIInv ==
    ASSUME IInv, [Next]_vars
    PROVE  IInv'
<1>1. CASE Tick
  BY <1>1, TickPreserves
<1>2. ASSUME NEW t \in Tasks, Call(t) \/ Wake(t) \/ Leave(t)
      PROVE  IInv'
  BY <1>2, WaitingPreserves
<1>3. ASSUME NEW t \in Tasks, Take(t) PROVE IInv'
  BY <1>3, TakePreserves
<1>4. ASSUME NEW t \in Tasks, Sleep(t) PROVE IInv'
  BY <1>4, SleepPreserves
<1>5. ASSUME NEW t \in Tasks, AnswerWithHeader(t) PROVE IInv'
  BY <1>5, HeaderPreserves
<1>6. CASE UNCHANGED vars
  BY <1>6, StutterPreserves
<1>. QED  BY <1>1, <1>2, <1>3, <1>4, <1>5, <1>6 DEF Next

\* The accounts always hold.
THEOREM Invariance == Spec => []IInv
BY InitIInv, StepKeepsIInv, PTL DEF Spec

LEMMA AccountsBound == IInv => SpanBounded /\ HeaderRespected
<1>. SUFFICES ASSUME IInv PROVE SpanBounded /\ HeaderRespected
  OBVIOUS
<1>1. BucketTypes
  BY DEF IInv
<1>2. clock \in Nat /\ lastFill \in Nat /\ lastFill <= clock
      /\ tokens \in Nat /\ granted \in Nat
  BY <1>1, LimiterAssumption DEF BucketTypes
<1>3. ASSUME ~readsHeaders, NEW i \in 0..clock
      PROVE  granted - before[i] <= Capacity + Rate * (clock - i + Delay)
  <2>1. before[i] \in Nat /\ i \in Nat
    BY <1>1 DEF BucketTypes
  <2>. DEFINE most == Rate * (clock - i + Delay)
              now == Rate * (lastFill - i + Delay)
  <2>2. most \in Nat
    <3>1. clock - i + Delay \in Nat
      BY <1>2, LimiterAssumption
    <3>. QED  BY <3>1, LimiterAssumption
  <2>3. CASE before[i] = granted
    <3>1. granted - before[i] = 0
      BY <1>2, <2>3
    <3>. HIDE DEF most
    <3>2. 0 <= Capacity + most
      BY <2>2, LimiterAssumption
    <3>. QED  BY <3>1, <3>2 DEF most
  <2>4. CASE before[i] # granted
    <3>1. tokens + granted - before[i] <= Capacity + now
      BY <1>3, <2>4 DEF IInv, SpanAccounted, AccountsSince
    <3>2. now <= most /\ now \in Int
      <4>1. /\ lastFill - i + Delay \in Int /\ clock - i + Delay \in Int
            /\ lastFill - i + Delay <= clock - i + Delay
        BY <1>2, <2>1, LimiterAssumption
      <4>. QED  BY <4>1, RefillsGrow, LimiterAssumption
    <3>. HIDE DEF most, now
    <3>3. granted - before[i] <= Capacity + most
      BY <1>2, <2>1, <2>2, <3>1, <3>2, LimiterAssumption
    <3>. QED  BY <3>3 DEF most
  <2>. QED  BY <2>3, <2>4
<1>4. HeaderRespected
  <2>1. header.at \in Nat /\ header.left \in Nat /\ header.granted \in Nat
    BY <1>1 DEF BucketTypes
  <2>. DEFINE most == Rate * (clock - header.at + Timeout + Delay)
              now == Rate * (lastFill - header.at + Timeout + Delay)
  <2>2. tokens + granted - header.granted <= header.left + now
    BY DEF IInv, HeaderAccounted
  <2>3. now <= most /\ now \in Int /\ most \in Int
    <3>1. /\ lastFill - header.at + Timeout + Delay \in Int
          /\ clock - header.at + Timeout + Delay \in Int
          /\ lastFill - header.at + Timeout + Delay
                <= clock - header.at + Timeout + Delay
      BY <1>2, <2>1, LimiterAssumption
    <3>. QED  BY <3>1, RefillsGrow, LimiterAssumption
  <2>. HIDE DEF most, now
  <2>4. granted - header.granted <= header.left + most
    BY <1>2, <2>1, <2>2, <2>3
  <2>. QED  BY <2>4 DEF most, HeaderRespected
<1>. QED  BY <1>3, <1>4 DEF SpanBounded

\* On an exchange whose headers are not read, no span of time grants more
\* than the bucket holds and refills in it, for any number of tasks that
\* interleave in any way.
THEOREM SpansAreBounded == Spec => []SpanBounded
BY Invariance, AccountsBound, PTL

\* Whatever a header says, and however late, no more is granted after it than
\* it leaves and the limiter has refilled since, up to one answer before it.
THEOREM HeadersAreRespected == Spec => []HeaderRespected
BY Invariance, AccountsBound, PTL

----------------------------------------------------------------------------
(* The types of the rest, and the sleepers.                                *)

\* The history's instants are past, its amounts were granted.
HistoryTypes ==
    /\ \A i \in 0..clock : before[i] <= granted
    /\ header.at <= clock /\ header.left <= Capacity
    /\ header.granted <= granted
    /\ clock <= MaxClock
    /\ undisturbed \in SUBSET Tasks

\* A sleeper that nobody has disturbed finds its tokens at the time it sleeps
\* until, and so at the time it reads when it is awake again.
SleepersProvided ==
    \A t \in undisturbed :
       /\ task[t].at \in {"sleeping", "locking"}
       /\ task[t].weight <= Refilled(task[t].time)

SInv == HistoryTypes /\ SleepersProvided

LEMMA InitSInv == Init => SInv
BY LimiterAssumption DEF Init, SInv, HistoryTypes, SleepersProvided

LEMMA TypesOfRest == BucketTypes /\ HistoryTypes => TypeOK
<1>. SUFFICES ASSUME BucketTypes, HistoryTypes PROVE TypeOK
  OBVIOUS
<1>1. clock \in 0..MaxClock
  BY DEF BucketTypes, HistoryTypes
<1>2. before \in [0..clock -> 0..granted]
  BY DEF BucketTypes, HistoryTypes
<1>3. header \in [at : 0..clock, left : 0..Capacity, granted : 0..granted]
  <2>1. header \in [at : Nat, left : Nat, granted : Nat] /\ clock \in Nat
        /\ granted \in Nat /\ Capacity \in Nat
    BY LimiterAssumption DEF BucketTypes
  <2>2. header.at \in 0..clock /\ header.left \in 0..Capacity
        /\ header.granted \in 0..granted
    BY <2>1 DEF HistoryTypes
  <2>. QED  BY <2>1, <2>2
<1>. QED  BY <1>1, <1>2, <1>3 DEF BucketTypes, HistoryTypes, TypeOK

\* The tokens at a time, of a bucket that had some at its last fill.
FilledAt(had, fill, time) ==
    Least(had + Rate * (Largest(time, fill) - fill), Capacity)

\* A later time refills no less.
LEMMA FilledGrows ==
    ASSUME NEW had \in Int, NEW fill \in Int, NEW now \in Int,
           NEW later \in Int, now <= later
    PROVE  FilledAt(had, fill, now) <= FilledAt(had, fill, later)
<1>. DEFINE a == Largest(now, fill) - fill
            b == Largest(later, fill) - fill
            gainA == Rate * a
            gainB == Rate * b
<1>1. a \in Int /\ b \in Int /\ a <= b
  BY DEF Largest
<1>2. gainA \in Int /\ gainB \in Int /\ gainA <= gainB
  BY <1>1, RefillsGrow, LimiterAssumption
<1>3. /\ FilledAt(had, fill, now) = Least(had + gainA, Capacity)
      /\ FilledAt(had, fill, later) = Least(had + gainB, Capacity)
  BY DEF FilledAt
<1>. HIDE DEF gainA, gainB
<1>. QED  BY <1>2, <1>3, LimiterAssumption DEF Least

\* A refill in between, which takes nothing, spoils no one's.
LEMMA FilledLasts ==
    ASSUME NEW had \in Int, NEW fill \in Int, NEW now \in Int, NEW time \in Int
    PROVE  FilledAt(had, fill, time)
              <= FilledAt(FilledAt(had, fill, now), Largest(now, fill), time)
<1>1. PICK mid : mid = Largest(now, fill)
  OBVIOUS
<1>2. mid \in Int /\ fill <= mid
  BY <1>1 DEF Largest
<1>. DEFINE gain == Rate * (mid - fill)
            mine == Rate * (Largest(time, fill) - fill)
            rest == Rate * (Largest(time, mid) - mid)
<1>3. Rate \in Nat /\ Capacity \in Int
  BY LimiterAssumption
<1>4. Largest(time, fill) \in Int /\ Largest(time, mid) \in Int
      /\ mid <= Largest(time, mid)
      /\ Largest(time, fill) <= Largest(time, mid)
  BY <1>2 DEF Largest
<1>5. gain \in Int /\ mine \in Int /\ rest \in Int
  BY <1>2, <1>3, <1>4
<1>6. 0 <= rest
  <2>1. Largest(time, mid) - mid \in Nat
    BY <1>2, <1>4
  <2>. QED  BY <2>1, <1>3
<1>7. mine <= gain + rest
  <2>1. PICK end \in Int : end = Largest(time, mid)
    BY <1>4
  <2>2. rest + gain = Rate * (end - fill)
    BY <2>1, <1>2, <1>3, RefillsAddUp
  <2>3. mine <= Rate * (end - fill)
    <3>1. Largest(time, fill) - fill <= end - fill
      BY <2>1, <1>4
    <3>. QED  BY <3>1, <1>3, <1>4, RefillsGrow
  <2>. HIDE DEF mine, rest, gain
  <2>. QED  BY <2>2, <2>3, <1>5
<1>8. /\ FilledAt(had, fill, time) = Least(had + mine, Capacity)
      /\ FilledAt(had, fill, now) = Least(had + gain, Capacity)
      /\ FilledAt(FilledAt(had, fill, now), mid, time)
            = Least(FilledAt(had, fill, now) + rest, Capacity)
  BY <1>1 DEF FilledAt
<1>. HIDE DEF gain, mine, rest
<1>9. PICK filled : filled = FilledAt(had, fill, now)
  OBVIOUS
<1>10. filled = Least(had + gain, Capacity)
  BY <1>8, <1>9
<1>11. Least(had + mine, Capacity) <= Least(filled + rest, Capacity)
  BY <1>3, <1>5, <1>6, <1>7, <1>10 DEF Least
<1>. QED  BY <1>1, <1>8, <1>9, <1>11

\* The sleep is long enough: what is missing is refilled in it.
LEMMA SleepIsEnough ==
    ASSUME NEW missing \in Nat, missing > 0
    PROVE  SleepTime(missing) \in Nat /\ missing <= Rate * SleepTime(missing)
<1>. DEFINE q == (missing + Rate - 1) \div Rate
<1>1. Rate \in Nat /\ Rate > 0
  BY LimiterAssumption
<1>2. q \in Nat /\ missing + Rate - 1 < Rate * q + Rate
  BY <1>1
<1>. HIDE DEF q
<1>3. Rate * q \in Int
  BY <1>1, <1>2
<1>4. missing <= Rate * q
  BY <1>1, <1>2, <1>3
<1>5. q >= 1
  <2>1. CASE q = 0
    BY <2>1, <1>1, <1>4
  <2>. QED  BY <2>1, <1>2
<1>6. SleepTime(missing) = q
  BY <1>2, <1>5 DEF SleepTime, Largest, q
<1>. QED  BY <1>2, <1>4, <1>6

LEMMA FilledIsInteger ==
    ASSUME NEW had \in Int, NEW fill \in Int, NEW time \in Int
    PROVE  FilledAt(had, fill, time) \in Int
<1>1. Largest(time, fill) - fill \in Int
  BY DEF Largest
<1>2. Rate * (Largest(time, fill) - fill) \in Int
  BY <1>1, LimiterAssumption
<1>. QED  BY <1>2, LimiterAssumption DEF FilledAt, Least

LEMMA NapFills ==
    ASSUME NEW had \in Int, NEW fill \in Int, NEW now \in Int, fill <= now,
           NEW nap \in Nat, NEW weight \in Int, weight <= Capacity,
           weight - had <= Rate * nap
    PROVE  weight <= FilledAt(had, fill, now + nap)
<1>. DEFINE length == Largest(now + nap, fill) - fill
            gain == Rate * length
<1>1. length \in Int /\ nap <= length
  BY DEF Largest
<1>2. Rate * nap <= gain /\ gain \in Int /\ Rate * nap \in Int
  BY <1>1, RefillsGrow, LimiterAssumption
<1>3. FilledAt(had, fill, now + nap) = Least(had + gain, Capacity)
  BY DEF FilledAt
<1>. HIDE DEF gain
<1>. QED  BY <1>2, <1>3, LimiterAssumption DEF Least

LEMMA WeightsFit ==
    ASSUME NEW w \in Weights \cup {0}
    PROVE  w \in Nat /\ w <= Capacity
BY LimiterAssumption

\* What the sleepers are promised, task by task.
Provided(t) ==
    /\ task[t].at \in {"sleeping", "locking"}
    /\ task[t].weight <= FilledAt(tokens, lastFill, task[t].time)

LEMMA SleepersAreProvided ==
    SleepersProvided <=> \A t \in undisturbed : Provided(t)
BY DEF SleepersProvided, Provided, Refilled, FilledAt

LEMMA BucketIntegers ==
    ASSUME BucketTypes, NEW t \in Tasks
    PROVE  /\ tokens \in Int /\ lastFill \in Int /\ clock \in Int
           /\ lastFill <= clock
           /\ task[t].time \in Int /\ task[t].weight \in Weights \cup {0}
<1>1. task[t] \in TaskStates
  BY DEF BucketTypes
<1>. QED  BY <1>1 DEF BucketTypes, TaskStates

\* One more pass that takes nothing keeps a promise.
LEMMA PassKeepsPromise ==
    ASSUME BucketTypes, NEW u \in Tasks, Provided(u), task'[u] = task[u],
           NEW now \in Int, tokens' = FilledAt(tokens, lastFill, now),
           lastFill' = Largest(now, lastFill), tokens' \in Int
    PROVE  Provided(u)'
<1>1. PICK time \in Int : time = task[u].time
  BY BucketIntegers
<1>2. PICK weight \in Int : weight = task[u].weight
  BY BucketIntegers, WeightsFit
<1>3. tokens \in Int /\ lastFill \in Int /\ lastFill' \in Int
  BY BucketIntegers DEF Largest
<1>4. weight <= FilledAt(tokens, lastFill, time)
  BY <1>1, <1>2 DEF Provided
<1>5. FilledAt(tokens, lastFill, time) <= FilledAt(tokens', lastFill', time)
  BY <1>3, FilledLasts
<1>6. /\ FilledAt(tokens, lastFill, time) \in Int
      /\ FilledAt(tokens', lastFill', time) \in Int
  BY <1>3, FilledIsInteger
<1>7. weight <= FilledAt(tokens', lastFill', time)
  BY <1>4, <1>5, <1>6
<1>8. task'[u].time = time /\ task'[u].weight = weight
      /\ task'[u].at \in {"sleeping", "locking"}
  BY <1>1, <1>2 DEF Provided
<1>. QED  BY <1>7, <1>8 DEF Provided, FilledAt

LEMMA SleepProvides ==
    ASSUME IInv, SInv, NEW t \in Tasks, Sleep(t)
    PROVE  SleepersProvided'
<1>1. BucketTypes /\ Timely /\ SleepersProvided /\ undisturbed \subseteq Tasks
      /\ BucketTypes'
  BY SleepPreserves DEF IInv, SInv, HistoryTypes
<1>2. task[t].at = "locking" /\ task[t].time \in 0..clock
      /\ task[t].weight \in Weights \cup {0}
  BY <1>1, Reading DEF Sleep
<1>3. PICK now \in 0..clock : now = task[t].time
  BY <1>2
<1>4. PICK w \in Nat : w = task[t].weight
  BY <1>2, WeightsFit
<1>5. w \in Nat /\ w <= Capacity
  BY <1>2, <1>4, WeightsFit
<1>6. /\ tokens' = Refilled(now) /\ lastFill' = Largest(now, lastFill)
      /\ clock' = clock /\ Refilled(now) < w
  BY <1>3, <1>4 DEF Sleep
<1>7. tokens' \in Int /\ lastFill' \in Int /\ clock \in Int
      /\ lastFill' <= clock /\ tokens' < w
  BY <1>1, <1>6, BucketIntegers, LimiterAssumption DEF BucketTypes
<1>8. PICK missing \in Nat : missing = w - tokens' /\ missing > 0
  <2>1. PICK left \in Int : left = tokens'
    BY <1>7
  <2>2. left < w
    BY <1>7, <2>1
  <2>3. w - left \in Nat /\ w - left > 0
    BY <2>2
  <2>. QED  BY <2>1, <2>3
<1>9. PICK nap \in Nat : nap = SleepTime(missing) /\ missing <= Rate * nap
  BY <1>8, SleepIsEnough
<1>10. task' = [task EXCEPT ![t] =
                  [at |-> "sleeping", weight |-> w, time |-> clock + nap]]
  BY <1>3, <1>4, <1>8, <1>9 DEF Sleep
<1>11. Provided(t)'
  <2>1. w <= FilledAt(tokens', lastFill', clock + nap)
    <3>1. w \in Int /\ w - tokens' <= Rate * nap
      BY <1>5, <1>8, <1>9
    <3>. QED  BY <3>1, <1>5, <1>7, <1>9, NapFills
  <2>2. task'[t] = [at |-> "sleeping", weight |-> w, time |-> clock + nap]
    BY <1>1, <1>10 DEF BucketTypes
  <2>3. task'[t].at = "sleeping" /\ task'[t].weight = w
        /\ task'[t].time = clock + nap
    BY <2>2
  <2>. QED  BY <2>1, <2>3 DEF Provided, FilledAt
<1>12. ASSUME NEW u \in undisturbed, u # t PROVE Provided(u)'
  <2>1. u \in Tasks /\ Provided(u) /\ task'[u] = task[u]
    BY <1>1, <1>10, <1>12, SleepersAreProvided DEF BucketTypes
  <2>2. tokens' = FilledAt(tokens, lastFill, now) /\ now \in Int
    BY <1>6, <1>7 DEF Refilled, FilledAt
  <2>. QED  BY <2>1, <2>2, <1>1, <1>6, <1>7, PassKeepsPromise
<1>13. undisturbed' = undisturbed \cup {t}
  BY DEF Sleep
<1>14. SleepersProvided' <=> \A u \in undisturbed' : Provided(u)'
  BY DEF SleepersProvided, Provided, Refilled, FilledAt
<1>. QED  BY <1>11, <1>12, <1>13, <1>14

\* The other steps take tokens and disturb everyone, or leave the bucket
\* alone; a sleeper that wakes reads a time no earlier than its own.
LEMMA OthersProvide ==
    ASSUME IInv, SInv, NEW t \in Tasks,
           Call(t) \/ Wake(t) \/ Leave(t) \/ Take(t) \/ AnswerWithHeader(t)
    PROVE  SleepersProvided'
<1>1. BucketTypes /\ SleepersProvided /\ undisturbed \subseteq Tasks
  BY DEF IInv, SInv, HistoryTypes
<1>2. SleepersProvided' <=> \A u \in undisturbed' : Provided(u)'
  BY DEF SleepersProvided, Provided, Refilled, FilledAt
<1>3. CASE Take(t) \/ AnswerWithHeader(t)
  <2>1. undisturbed' = {}
    BY <1>3 DEF Take, AnswerWithHeader
  <2>. QED  BY <2>1, <1>2
<1>4. CASE Call(t) \/ Wake(t) \/ Leave(t)
  <2>1. tokens' = tokens /\ lastFill' = lastFill /\ clock' = clock
    BY <1>4 DEF Call, Wake, Leave, bucket
  <2>2. PICK r : task' = [task EXCEPT ![t] = r]
    BY <1>4 DEF Call, Wake, Leave
  <2>3. ASSUME NEW u \in undisturbed', u # t PROVE Provided(u)'
    <3>1. u \in undisturbed /\ u \in Tasks /\ task'[u] = task[u]
      BY <1>1, <1>4, <2>2, <2>3 DEF Call, Wake, Leave, BucketTypes
    <3>2. Provided(u)
      BY <1>1, <3>1, SleepersAreProvided
    <3>. QED  BY <2>1, <3>1, <3>2 DEF Provided, FilledAt
  <2>4. ASSUME t \in undisturbed' PROVE Provided(t)'
    <3>1. t \in undisturbed /\ Wake(t)
      <4>1. t \in undisturbed
        BY <1>4, <2>4 DEF Call, Wake, Leave
      <4>2. task[t].at \in {"sleeping", "locking"}
        BY <1>1, <4>1 DEF SleepersProvided
      <4>3. ~Call(t) /\ ~Leave(t)
        BY <2>4, <4>2 DEF Call, Leave
      <4>. QED  BY <1>4, <4>1, <4>3
    <3>2. PICK time \in Int : time = task[t].time
      BY <1>1, BucketIntegers
    <3>3. PICK w \in Nat : w = task[t].weight
      BY <1>1, BucketIntegers, WeightsFit
    <3>4. PICK now \in Int : now = clock
      BY <1>1, BucketIntegers
    <3>5. PICK had \in Int, fill \in Int : had = tokens /\ fill = lastFill
      BY <1>1, BucketIntegers
    <3>6. w <= FilledAt(had, fill, time)
      BY <1>1, <3>1, <3>2, <3>3, <3>5, SleepersAreProvided DEF Provided
    <3>7. time <= now
      BY <3>1, <3>2, <3>4 DEF Wake
    <3>8. FilledAt(had, fill, time) <= FilledAt(had, fill, now)
      BY <3>7, FilledGrows
    <3>9. w <= FilledAt(had, fill, now)
      <4>1. PICK atTime \in Int : atTime = FilledAt(had, fill, time)
        BY FilledIsInteger
      <4>2. PICK atNow \in Int : atNow = FilledAt(had, fill, now)
        BY FilledIsInteger
      <4>3. w <= atTime /\ atTime <= atNow
        BY <3>6, <3>8, <4>1, <4>2
      <4>4. w <= atNow
        BY <4>3
      <4>. QED  BY <4>2, <4>4
    <3>10. task'[t].at = "locking" /\ task'[t].weight = w
           /\ task'[t].time = now
      BY <1>1, <3>1, <3>3, <3>4 DEF Wake, BucketTypes
    <3>. QED  BY <2>1, <3>5, <3>9, <3>10 DEF Provided, FilledAt
  <2>. QED  BY <1>2, <2>3, <2>4
<1>. QED  BY <1>3, <1>4

LEMMA HistoryKept ==
    ASSUME IInv, SInv, [Next]_vars
    PROVE  HistoryTypes'
<1>1. BucketTypes /\ HistoryTypes /\ BucketTypes'
  BY StepKeepsIInv DEF IInv, SInv
<1>2. clock \in Nat /\ granted \in Nat /\ Capacity \in Nat
      /\ header.at \in Nat /\ header.left \in Nat /\ header.granted \in Nat
      /\ \A i \in 0..clock : before[i] \in Nat
  BY <1>1, LimiterAssumption DEF BucketTypes
<1>3. CASE Tick
  <2>1. /\ clock' = clock + 1 /\ clock < MaxClock
        /\ header' = header /\ granted' = granted
        /\ undisturbed' = undisturbed
        /\ before' = [i \in 0..clock' |->
                         IF i <= clock THEN before[i] ELSE granted]
    BY <1>3 DEF Tick
  <2>2. ASSUME NEW i \in 0..clock' PROVE before'[i] <= granted'
    BY <1>1, <1>2, <2>1 DEF HistoryTypes
  <2>3. clock' <= MaxClock /\ header'.at <= clock'
    BY <1>1, <1>2, <2>1, LimiterAssumption DEF HistoryTypes
  <2>. QED  BY <1>1, <2>1, <2>2, <2>3 DEF HistoryTypes
<1>4. ASSUME NEW t \in Tasks, Call(t) \/ Sleep(t) \/ Wake(t) \/ Leave(t)
      PROVE  HistoryTypes'
  <2>1. clock' = clock /\ UNCHANGED history
        /\ undisturbed' \subseteq undisturbed \cup {t}
    BY <1>4 DEF Call, Sleep, Wake, Leave, history
  <2>. QED  BY <1>1, <2>1 DEF HistoryTypes, history
<1>5. ASSUME NEW t \in Tasks, Take(t) PROVE HistoryTypes'
  <2>1. clock' = clock /\ before' = before /\ header' = header
        /\ undisturbed' = {} /\ granted' = granted + task[t].weight
    BY <1>5 DEF Take
  <2>2. granted <= granted'
    <3>1. PICK w \in Weights \cup {0} : w = task[t].weight
      BY <1>1, BucketIntegers
    <3>. QED  BY <1>2, <2>1, <3>1, WeightsFit
  <2>3. granted' \in Nat
    BY <1>1 DEF BucketTypes
  <2>4. ASSUME NEW i \in 0..clock PROVE before[i] <= granted'
    <3>1. before[i] <= granted /\ before[i] \in Nat
      BY <1>1, <1>2 DEF HistoryTypes
    <3>. QED  BY <1>2, <2>2, <2>3, <3>1
  <2>5. header.granted <= granted'
    BY <1>1, <1>2, <2>2, <2>3 DEF HistoryTypes
  <2>. QED  BY <1>1, <2>1, <2>4, <2>5 DEF HistoryTypes
<1>6. ASSUME NEW t \in Tasks, AnswerWithHeader(t) PROVE HistoryTypes'
  <2>1. PICK used \in Counts :
           header' = [at |-> clock, granted |-> granted,
                      left |-> Largest(Capacity - used, 0)]
    BY <1>6 DEF AnswerWithHeader
  <2>2. clock' = clock /\ before' = before /\ granted' = granted
        /\ undisturbed' = {}
    BY <1>6 DEF AnswerWithHeader
  <2>3. Largest(Capacity - used, 0) <= Capacity
    BY LimiterAssumption DEF Largest
  <2>4. header'.at <= clock /\ header'.left <= Capacity
        /\ header'.granted <= granted
    BY <1>2, <2>1, <2>3
  <2>. QED  BY <1>1, <2>2, <2>4 DEF HistoryTypes
<1>7. CASE UNCHANGED vars
  BY <1>1, <1>7 DEF vars, bucket, history, HistoryTypes
<1>. QED  BY <1>3, <1>4, <1>5, <1>6, <1>7 DEF Next

LEMMA StepKeepsSleepers ==
    ASSUME IInv, SInv, [Next]_vars
    PROVE  SleepersProvided'
<1>1. CASE Tick \/ UNCHANGED vars
  <2>1. UNCHANGED <<tokens, lastFill, task, undisturbed>>
    BY <1>1 DEF Tick, vars, bucket
  <2>2. SleepersProvided
    BY DEF SInv
  <2>. QED  BY <2>1, <2>2 DEF SleepersProvided, Refilled
<1>2. ASSUME NEW t \in Tasks, Sleep(t) PROVE SleepersProvided'
  BY <1>2, SleepProvides
<1>3. ASSUME NEW t \in Tasks,
             Call(t) \/ Wake(t) \/ Leave(t) \/ Take(t) \/ AnswerWithHeader(t)
      PROVE  SleepersProvided'
  BY <1>3, OthersProvide
<1>. QED  BY <1>1, <1>2, <1>3 DEF Next

LEMMA SleepersInvariance == Spec => []SInv
<1>1. IInv /\ SInv /\ [Next]_vars => SInv'
  BY HistoryKept, StepKeepsSleepers DEF SInv
<1>. QED  BY InitSInv, <1>1, Invariance, PTL DEF Spec

\* The bucket never holds more than its capacity or less than nothing, no
\* matter who takes from it and what the headers say, and the tasks, the
\* clock and the history are what the types say.
THEOREM TypeCorrect == Spec => []TypeOK
<1>1. IInv /\ SInv => TypeOK
  BY TypesOfRest DEF IInv, SInv
<1>. QED  BY <1>1, Invariance, SleepersInvariance, PTL

\* For every task: wait goes around its loop at most once for each time that
\* another task or a header takes tokens away.
THEOREM SleepsSuffice == Spec => OneSleepSuffices
<1>1. IInv /\ SInv => [\A t \in undisturbed : ~Sleep(t)]_vars
  <2>. SUFFICES ASSUME IInv, SInv, NEW t \in undisturbed, Sleep(t)
                PROVE  FALSE
    OBVIOUS
  <2>1. t \in Tasks /\ BucketTypes
    BY DEF IInv, SInv, HistoryTypes
  <2>2. task[t].weight <= Refilled(task[t].time)
    BY DEF SInv, SleepersProvided
  <2>3. Refilled(task[t].time) < task[t].weight
    BY DEF Sleep
  <2>4. PICK w \in Nat : w = task[t].weight
    BY <2>1, BucketIntegers, WeightsFit
  <2>5. PICK filled \in Int : filled = Refilled(task[t].time)
    BY <2>1, BucketIntegers, FilledIsInteger DEF Refilled, FilledAt
  <2>. QED  BY <2>2, <2>3, <2>4, <2>5
<1>. QED  BY <1>1, Invariance, SleepersInvariance, PTL DEF OneSleepSuffices
=============================================================================
