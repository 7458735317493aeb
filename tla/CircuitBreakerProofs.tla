------------------------ MODULE CircuitBreakerProofs ------------------------
(***************************************************************************)
(* What CircuitBreaker guarantees for any number of callers and any        *)
(* configuration, proved from an inductive invariant that relates the      *)
(* pruned deque of the code to the log of every failure.                   *)
(***************************************************************************)
EXTENDS CircuitBreaker, FiniteSetTheorems, SequenceTheorems,
        WellFoundedInduction, TLAPS

(***************************************************************************)
(* Lemmas about cleanup_old_failures.                                      *)
(***************************************************************************)

\* A non-empty set of naturals has a least element.
LEMMA LeastElement ==
    ASSUME NEW S \in SUBSET Nat, S # {}
    PROVE  \E m \in S : \A j \in S : m <= j
<1> DEFINE R == OpToRel(<, Nat)
<1>1. IsWellFoundedOn(R, Nat)
  BY NatLessThanWellFounded
<1>2. PICK m \in S : \A y \in S : ~ (<<y, m>> \in R)
  <2> HIDE DEF R
  <2> QED BY <1>1, WFMin
<1>3. \A y \in S : ~ (y < m)
  BY <1>2 DEF OpToRel
<1> QED BY <1>3

\* In a sorted list of times, cleanup_old_failures drops exactly the entries
\* that are out of the window, whatever loop it uses to find them.
LEMMA CleanupKeepsRecent ==
    ASSUME NEW times \in Seq(Nat), NEW now \in Nat,
           \A i, j \in DOMAIN times : i <= j => times[i] <= times[j],
           NEW kept, kept = CleanupOldFailures(times, now)
    PROVE  LET old == Len(times) - Len(kept)
           IN  /\ kept \in Seq(Nat)
               /\ Len(kept) \in 0..Len(times)
               /\ \A i \in 1..Len(kept) :
                     kept[i] = times[old + i] /\ kept[i] > now - WindowSeconds
               /\ \A i \in 1..old : times[i] <= now - WindowSeconds
<1> USE TimesAssumption
<1> DEFINE recent == {i \in DOMAIN times : times[i] > now - WindowSeconds}
           first == CHOOSE i \in recent : \A j \in recent : i <= j
<1>0. /\ Len(times) \in Nat /\ DOMAIN times = 1..Len(times)
      /\ \A i \in DOMAIN times : times[i] \in Nat
  BY LenProperties
<1>1. CASE recent = {}
  <2>1. kept = <<>>
    BY <1>1 DEF CleanupOldFailures
  <2>2. \A i \in 1..Len(times) : times[i] <= now - WindowSeconds
    BY <1>0, <1>1
  <2> QED BY <1>0, <2>1, <2>2
<1>2. CASE recent # {}
  <2>1. recent \in SUBSET Nat
    BY <1>0
  <2>2. \E m \in recent : \A j \in recent : m <= j
    <3> HIDE DEF recent
    <3> QED BY <1>2, <2>1, LeastElement
  <2>3. first \in recent /\ \A j \in recent : first <= j
    <3> HIDE DEF recent
    <3> QED BY <2>2
  <2>4. kept = SubSeq(times, first, Len(times))
    BY <1>2 DEF CleanupOldFailures
  <2> HIDE DEF first
  <2>5. first \in 1..Len(times)
    BY <1>0, <2>3
  <2>6. /\ kept \in Seq(Nat) /\ Len(kept) = Len(times) - first + 1
        /\ \A i \in 1..Len(kept) : kept[i] = times[first + i - 1]
    <3>1. /\ first \in Int /\ Len(times) \in Int /\ first <= Len(times)
          /\ \A i \in first..Len(times) : times[i] \in Nat
      BY <1>0, <2>5
    <3>2. /\ kept \in Seq(Nat) /\ Len(kept) = Len(times) - first + 1
          /\ \A i \in 1..Len(times) - first + 1 : kept[i] = times[first + i - 1]
      BY <2>4, <3>1, SubSeqProperties
    <3> QED BY <3>2
  <2>7. ASSUME NEW i \in 1..first - 1
        PROVE  times[i] <= now - WindowSeconds
    <3>1. i \in 1..Len(times) /\ ~(first <= i)
      BY <1>0, <2>5
    <3>2. i \notin recent
      BY <2>3, <3>1
    <3> QED BY <1>0, <3>1, <3>2
  <2>8. ASSUME NEW i \in first..Len(times)
        PROVE  times[i] > now - WindowSeconds
    <3>1. times[first] > now - WindowSeconds
      BY <2>3
    <3>2. i \in DOMAIN times /\ first \in DOMAIN times /\ first <= i
      BY <1>0, <2>5
    <3>3. times[first] <= times[i]
      BY <3>2
    <3> QED BY <1>0, <3>1, <3>2, <3>3
  <2> DEFINE old == Len(times) - Len(kept)
  <2>9. old = first - 1 /\ Len(kept) \in 0..Len(times)
    BY <1>0, <2>5, <2>6
  <2>10. ASSUME NEW i \in 1..Len(kept)
         PROVE  kept[i] = times[old + i] /\ kept[i] > now - WindowSeconds
    <3>1. first + i - 1 \in first..Len(times) /\ old + i = first + i - 1
      BY <1>0, <2>5, <2>6, <2>9
    <3>2. times[first + i - 1] > now - WindowSeconds
      BY <2>8, <3>1
    <3> QED BY <2>6, <3>1, <3>2
  <2> QED BY <2>6, <2>7, <2>9, <2>10
<1> QED BY <1>1, <1>2

----------------------------------------------------------------------------
(***************************************************************************)
(* The inductive invariant.                                                *)
(***************************************************************************)

LogOrdered ==
    /\ \A i, j \in DOMAIN log : i <= j => log[i] <= log[j]
    /\ \A i \in DOMAIN log : log[i] <= clock

\* The deque holds the entries of the log that were still in the window when
\* the last failure was recorded, unless a reset erased them.
DequeOfLog(f, times, from) ==
    LET old == Len(times) - Len(f)
    IN  /\ from <= old
        /\ \A i \in 1..Len(f) :
              f[i] = times[old + i] /\ f[i] > times[Len(times)] - WindowSeconds
        /\ \A i \in from + 1 .. old :
              times[i] <= times[Len(times)] - WindowSeconds

DequeIsRecentLog == DequeOfLog(breaker.failures, log, cleared)

TripsInOrder ==
    /\ \A t \in trips : t <= clock
    /\ Tripped(breaker) =>
          /\ breaker.trippedAt \in trips
          /\ \A t \in trips : t <= breaker.trippedAt
    /\ ~Tripped(breaker) => \A t \in trips : clock - t > CooldownSeconds

IInv ==
    /\ TypeOK
    /\ LogOrdered
    /\ DequeIsRecentLog
    /\ TripsExactlyOnBurst
    /\ TripsInOrder

\* Facts about the types that most steps below need.
LEMMA TypeFacts ==
    ASSUME TypeOK
    PROVE  /\ clock \in Nat /\ Len(log) \in Nat /\ DOMAIN log = 1..Len(log)
           /\ \A i \in 1..Len(log) : log[i] \in Nat
           /\ breaker = [failures |-> breaker.failures,
                          trippedAt |-> breaker.trippedAt]
           /\ breaker.failures \in Seq(Nat)
           /\ Len(breaker.failures) \in Nat
           /\ \A i \in 1..Len(breaker.failures) : breaker.failures[i] \in Nat
           /\ breaker.trippedAt \in Nat \cup {Never}
           /\ cleared \in 0..Len(log)
BY LenProperties, BoundsAssumption DEF TypeOK, Breakers

\* A failure recorded now: the pruned deque is a suffix of the extended log
\* and reaches the threshold exactly when a burst ends now.
LEMMA RecordedDeque ==
    ASSUME NEW f \in Seq(Nat), NEW oldLog \in Seq(Nat), NEW now \in Nat,
           NEW from \in Nat, DequeOfLog(f, oldLog, from),
           \A i, j \in DOMAIN oldLog : i <= j => oldLog[i] <= oldLog[j],
           \A i \in DOMAIN oldLog : oldLog[i] <= now,
           NEW newLog, newLog = Append(oldLog, now),
           NEW kept, kept = CleanupOldFailures(Append(f, now), now)
    PROVE  kept \in Seq(Nat) /\ DequeOfLog(kept, newLog, from)
<1> DEFINE m == Len(f)
           n == Len(oldLog)
           times == Append(f, now)
           old == n + 1 - Len(kept)
<1>1. /\ now \in Nat /\ n \in Nat /\ m \in Nat /\ from \in Nat
      /\ oldLog \in Seq(Nat) /\ f \in Seq(Nat)
      /\ DOMAIN oldLog = 1..n
      /\ \A i \in 1..n : oldLog[i] \in Nat
  BY LenProperties
<1>2. /\ newLog \in Seq(Nat) /\ Len(newLog) = n + 1 /\ newLog[n + 1] = now
      /\ \A i \in 1..n : newLog[i] = oldLog[i]
  BY <1>1, AppendProperties
<1>3. /\ times \in Seq(Nat) /\ Len(times) = m + 1 /\ times[m + 1] = now
      /\ \A i \in 1..m : times[i] = f[i]
      /\ DOMAIN times = 1..m + 1
  BY <1>1, AppendProperties, LenProperties
<1> HIDE DEF times
<1>4. /\ from <= n - m
      /\ \A i \in 1..m : f[i] = oldLog[n - m + i]
      /\ \A i \in from + 1 .. n - m : oldLog[i] <= oldLog[n] - WindowSeconds
  BY <1>1 DEF DequeOfLog
<1>5. \A k \in 1..m + 1 : times[k] = newLog[n - m + k]
  <2> SUFFICES ASSUME NEW k \in 1..m + 1
               PROVE  times[k] = newLog[n - m + k]
    OBVIOUS
  <2>1. CASE k = m + 1
    BY <1>1, <1>2, <1>3, <2>1
  <2>2. CASE k # m + 1
    <3>1. k \in 1..m /\ n - m + k \in 1..n
      BY <1>1, <1>4, <2>2
    <3> QED BY <1>2, <1>3, <1>4, <3>1
  <2> QED BY <2>1, <2>2
<1>6. \A i, j \in 1..n + 1 : i <= j => newLog[i] <= newLog[j]
  <2> SUFFICES ASSUME NEW i \in 1..n + 1, NEW j \in 1..n + 1, i <= j
               PROVE  newLog[i] <= newLog[j]
    OBVIOUS
  <2>1. \A k \in 1..n : oldLog[k] <= now
    BY <1>1
  <2>2. CASE j = n + 1
    <3>1. CASE i = n + 1
      BY <1>1, <1>2, <2>2, <3>1
    <3>2. CASE i # n + 1
      BY <1>1, <1>2, <2>1, <2>2, <3>2
    <3> QED BY <3>1, <3>2
  <2>3. CASE j # n + 1
    <3>1. i \in 1..n /\ j \in 1..n
      BY <1>1, <2>3
    <3> QED BY <1>1, <1>2, <3>1
  <2> QED BY <2>2, <2>3
<1>7. \A i, j \in DOMAIN times : i <= j => times[i] <= times[j]
  <2> SUFFICES ASSUME NEW i \in 1..m + 1, NEW j \in 1..m + 1, i <= j
               PROVE  times[i] <= times[j]
    BY <1>3
  <2>1. /\ n - m + i \in 1..n + 1 /\ n - m + j \in 1..n + 1
        /\ n - m + i <= n - m + j
    <3>1. m <= n
      BY <1>1, <1>4
    <3> HIDE DEF m, n
    <3> QED BY <1>1, <3>1
  <2> QED BY <1>5, <1>6, <2>1
<1> DEFINE dropped == Len(times) - Len(kept)
<1>8. /\ kept \in Seq(Nat) /\ Len(kept) \in 0..m + 1
      /\ \A i \in 1..Len(kept) :
            kept[i] = times[dropped + i] /\ kept[i] > now - WindowSeconds
      /\ \A i \in 1..dropped : times[i] <= now - WindowSeconds
  <2>1. kept = CleanupOldFailures(times, now)
    BY DEF times
  <2>2. /\ kept \in Seq(Nat) /\ Len(kept) \in 0..Len(times)
        /\ \A i \in 1..Len(kept) :
              kept[i] = times[dropped + i] /\ kept[i] > now - WindowSeconds
        /\ \A i \in 1..dropped : times[i] <= now - WindowSeconds
    <3>1. times \in Seq(Nat) /\ now \in Nat
      BY <1>1, <1>3
    <3> HIDE DEF m, n, old
    <3> QED BY <3>1, <1>7, <2>1, CleanupKeepsRecent
  <2> QED BY <1>3, <2>2
<1>9. dropped = m + 1 - Len(kept) /\ old = n - m + dropped
  <2>1. Len(times) = m + 1 /\ Len(kept) \in Int /\ m \in Int /\ n \in Int
    BY <1>1, <1>3, <1>8
  <2> QED BY <2>1
<1>10. ASSUME NEW i \in 1..Len(kept)
       PROVE  kept[i] = newLog[old + i]
  <2>1. dropped + i \in 1..m + 1 /\ n - m + (dropped + i) = old + i
    <3> HIDE DEF m, n, old, dropped
    <3> QED BY <1>1, <1>8, <1>9
  <2> QED BY <1>5, <1>8, <2>1
<1>11. ASSUME NEW i \in from + 1 .. old
       PROVE  newLog[i] <= now - WindowSeconds
  <2>1. CASE i <= n - m
    <3>1. i \in from + 1 .. n - m /\ i \in 1..n /\ n \in 1..n
      BY <1>1, <1>4, <2>1
    <3>2. oldLog[i] <= oldLog[n] - WindowSeconds
      BY <1>4, <3>1
    <3>3. oldLog[n] <= now
      BY <1>1, <3>1
    <3> QED BY <1>1, <1>2, <3>1, <3>2, <3>3, TimesAssumption, SMTT(30)
  <2>2. CASE i > n - m
    <3>1. i - (n - m) \in 1..dropped /\ i - (n - m) \in 1..m + 1
          /\ n - m + (i - (n - m)) = i
      BY <1>1, <1>4, <1>8, <1>9, <2>2
    <3>2. times[i - (n - m)] = newLog[i]
      BY <1>5, <3>1
    <3> QED BY <1>8, <3>1, <3>2
  <2>3. i \in Int /\ n - m \in Int
    BY <1>1, <1>8
  <2>4. i <= n - m \/ i > n - m
    BY <2>3
  <2> QED BY <2>1, <2>2, <2>4
<1>12. from <= old
  BY <1>1, <1>4, <1>8, <1>9
<1>13. Len(kept) \in Nat /\ kept \in Seq(Nat)
       /\ \A i \in 1..Len(kept) : kept[i] > now - WindowSeconds
  BY <1>1, <1>8
<1>14. Len(newLog) - Len(kept) = old /\ newLog[Len(newLog)] = now
  BY <1>2
<1> QED BY <1>10, <1>11, <1>12, <1>13, <1>14 DEF DequeOfLog

----------------------------------------------------------------------------
LEMMA InitIInv == Init => IInv
<1> SUFFICES ASSUME Init PROVE IInv
  OBVIOUS
<1>1. TypeOK
  BY BoundsAssumption, EmptySeq DEF Init, TypeOK, NewBreaker, Breakers, Never
<1>2. LogOrdered /\ DequeIsRecentLog
  BY EmptySeq DEF Init, LogOrdered, DequeIsRecentLog, DequeOfLog, NewBreaker
<1>3. TripsExactlyOnBurst
  BY EmptySeq DEF Init, TripsExactlyOnBurst, NewBreaker, Tripped
<1>4. TripsInOrder
  BY DEF Init, TripsInOrder, NewBreaker, Tripped
<1> QED BY <1>1, <1>2, <1>3, <1>4 DEF IInv

\* A reset: whatever was logged before is forgotten.
LEMMA ResetKeepsIInv ==
    ASSUME IInv, clock' = clock, running' \in SUBSET Callers,
           CooledDown(breaker, clock), breaker' = NewBreaker,
           log' \in Seq(Nat),
           \A i, j \in DOMAIN log' : i <= j => log'[i] <= log'[j],
           \A i \in DOMAIN log' : log'[i] <= clock,
           cleared' = Len(log'), trips' = trips
    PROVE  IInv'
<1>1. TypeOK'
  BY EmptySeq, LenProperties
  DEF IInv, TypeOK, NewBreaker, Breakers, Never
<1>2. LogOrdered'
  BY DEF LogOrdered
<1>3. DequeIsRecentLog'
  <2>1. /\ breaker'.failures = <<>> /\ Len(<<>>) = 0
        /\ Len(log') \in Nat /\ cleared' = Len(log')
    BY EmptySeq, LenProperties DEF NewBreaker
  <2> QED BY <2>1 DEF DequeIsRecentLog, DequeOfLog
<1>4. TripsExactlyOnBurst'
  BY LenProperties DEF TripsExactlyOnBurst, NewBreaker, Tripped
<1>5. TripsInOrder'
  <2>1. \A t \in trips : clock - t > CooldownSeconds
    <3>1. /\ breaker.trippedAt \in Nat
          /\ clock - breaker.trippedAt > CooldownSeconds
          /\ \A t \in trips : t \in Nat /\ t <= breaker.trippedAt
          /\ clock \in Nat /\ CooldownSeconds \in Nat
      BY TypeFacts, TimesAssumption
      DEF IInv, TypeOK, TripsInOrder, CooledDown, Tripped
    <3> QED BY <3>1
  <2> QED BY <2>1 DEF IInv, TripsInOrder, NewBreaker, Tripped
<1> QED BY <1>1, <1>2, <1>3, <1>4, <1>5 DEF IInv

\* A failure that does not reset the breaker.
LEMMA FailKeepsIInv ==
    ASSUME IInv, clock' = clock, running' \in SUBSET Callers,
           breaker' = RecordFailure(breaker, clock),
           log' = Append(log, clock), cleared' = cleared,
           trips' = IF ~Tripped(breaker) /\ Tripped(breaker')
                    THEN trips \cup {breaker'.trippedAt} ELSE trips
    PROVE  IInv'
<1> DEFINE K == FailureThreshold
           n == Len(log)
<1>a. PICK f : f = breaker.failures
  OBVIOUS
<1>b. PICK kept : kept = CleanupOldFailures(Append(f, clock), clock)
  OBVIOUS
<1>c. PICK newLog : newLog = log'
  OBVIOUS
<1>1. /\ clock \in Nat /\ n \in Nat /\ cleared \in Nat /\ cleared <= n
      /\ log \in Seq(Nat) /\ DOMAIN log = 1..n
      /\ \A i \in 1..n : log[i] \in Nat
      /\ f \in Seq(Nat)
      /\ breaker.trippedAt \in Nat \cup {Never}
      /\ K \in Nat /\ K >= 1 /\ WindowSeconds \in Nat
      /\ CooldownSeconds \in Nat
  BY <1>a, TypeFacts, ThresholdAssumption, TimesAssumption DEF IInv, TypeOK
<1>2. /\ newLog \in Seq(Nat) /\ Len(newLog) = n + 1 /\ newLog[n + 1] = clock
      /\ \A i \in 1..n : newLog[i] = log[i]
      /\ kept \in Seq(Nat) /\ Len(kept) \in Nat
      /\ DequeOfLog(kept, newLog, cleared)
  <2>1. /\ \A i, j \in DOMAIN log : i <= j => log[i] <= log[j]
        /\ \A i \in DOMAIN log : log[i] <= clock
        /\ DequeOfLog(f, log, cleared)
    BY <1>a DEF IInv, LogOrdered, DequeIsRecentLog
  <2>2. newLog = Append(log, clock)
    BY <1>c
  <2>3. /\ newLog \in Seq(Nat) /\ Len(newLog) = n + 1 /\ newLog[n + 1] = clock
        /\ \A i \in 1..n : newLog[i] = log[i]
    BY <1>1, <2>2, AppendProperties
  <2>4. kept \in Seq(Nat) /\ DequeOfLog(kept, newLog, cleared)
    BY <1>1, <1>b, <2>1, <2>2, RecordedDeque
  <2>5. Len(kept) \in Nat
    BY <2>4, LenProperties
  <2> QED BY <2>3, <2>4, <2>5
<1>3. breaker' = [failures |-> kept,
                  trippedAt |-> IF Len(kept) >= K /\ ~Tripped(breaker)
                                THEN clock ELSE breaker.trippedAt]
  BY <1>1, <1>a, <1>b, TypeFacts DEF RecordFailure, Trip, Tripped, IInv
<1>4. /\ breaker'.failures = kept
      /\ Tripped(breaker') <=> Tripped(breaker) \/ Len(kept) >= K
      /\ breaker'.trippedAt = IF Len(kept) >= K /\ ~Tripped(breaker)
                              THEN clock ELSE breaker.trippedAt
  BY <1>1, <1>3 DEF Tripped, Never
<1>5. TypeOK'
  <2>1. breaker' \in Breakers
    BY <1>1, <1>2, <1>3 DEF Breakers
  <2>2. trips' \in SUBSET Nat
    BY <1>1, <1>4 DEF IInv, TypeOK
  <2>3. clock' \in 0..MaxClock /\ cleared' \in 0..Len(newLog)
    BY <1>1, <1>2 DEF IInv, TypeOK
  <2> QED BY <1>2, <1>c, <2>1, <2>2, <2>3 DEF TypeOK
<1>6. DOMAIN newLog = 1..n + 1
  BY <1>2, LenProperties
<1>7. LogOrdered'
  <2>1. \A i \in 1..n : log[i] <= clock
    BY <1>1 DEF IInv, LogOrdered
  <2>2. ASSUME NEW i \in 1..n + 1
        PROVE  newLog[i] <= clock
    <3>1. CASE i = n + 1
      BY <1>1, <1>2, <3>1
    <3>2. CASE i # n + 1
      <4>1. i \in 1..n
        BY <1>1, <3>2
      <4> QED BY <1>2, <2>1, <4>1
    <3> QED BY <3>1, <3>2
  <2>3. ASSUME NEW i \in 1..n + 1, NEW j \in 1..n + 1, i <= j
        PROVE  newLog[i] <= newLog[j]
    <3>1. CASE j = n + 1
      BY <1>2, <2>2, <3>1
    <3>2. CASE j # n + 1
      <4>1. i \in 1..n /\ j \in 1..n
        BY <1>1, <2>3, <3>2
      <4> QED BY <1>1, <1>2, <2>3, <4>1 DEF IInv, LogOrdered
    <3> QED BY <3>1, <3>2
  <2> QED BY <1>6, <1>c, <2>2, <2>3 DEF LogOrdered
<1>8. DequeIsRecentLog'
  BY <1>2, <1>4, <1>c DEF DequeIsRecentLog
<1>9. TripsInOrder'
  <2>1. /\ \A t \in trips : t \in Nat /\ t <= clock
        /\ Tripped(breaker) => /\ breaker.trippedAt \in trips
                               /\ \A t \in trips : t <= breaker.trippedAt
        /\ ~Tripped(breaker) => \A t \in trips : clock - t > CooldownSeconds
    BY DEF IInv, TypeOK, TripsInOrder
  <2>2. CASE Len(kept) >= K /\ ~Tripped(breaker)
    BY <1>1, <1>4, <2>1, <2>2 DEF TripsInOrder
  <2>3. CASE ~(Len(kept) >= K /\ ~Tripped(breaker))
    BY <1>1, <1>4, <2>1, <2>3 DEF TripsInOrder
  <2> QED BY <2>2, <2>3
<1>10. TripsExactlyOnBurst'
  <2> DEFINE e == n + 2 - K
             burst(i) == /\ i + K - 1 <= n + 1
                         /\ newLog[i + K - 1] - newLog[i] < WindowSeconds
             B == {i \in cleared + 1 .. n : BurstAt(i)}
             BB == {i \in cleared + 1 .. n + 1 : burst(i)}
  <2>1. /\ Tripped(breaker) <=> B # {}
        /\ \A i \in B : (\A j \in B : i <= j)
                         => breaker.trippedAt = log[i + K - 1]
    BY DEF IInv, TripsExactlyOnBurst
  <2>0. /\ \A i \in 1..n + 1 : newLog[i] \in Nat
        /\ cleared <= n + 1 - Len(kept)
        /\ \A i \in 1..Len(kept) :
              /\ kept[i] = newLog[n + 1 - Len(kept) + i]
              /\ kept[i] > clock - WindowSeconds
        /\ \A i \in cleared + 1 .. n + 1 - Len(kept) :
              newLog[i] <= clock - WindowSeconds
    BY <1>2, LenProperties DEF DequeOfLog
  <2>2. Len(kept) >= K => e \in BB
    <3> SUFFICES ASSUME Len(kept) >= K PROVE e \in BB
      OBVIOUS
    <3>1. /\ e \in cleared + 1 .. n + 1
          /\ Len(kept) - K + 1 \in 1..Len(kept)
          /\ (n + 1 - Len(kept)) + (Len(kept) - K + 1) = e
      <4>1. /\ n \in Int /\ K \in Int /\ Len(kept) \in Int /\ cleared \in Int
            /\ K >= 1 /\ cleared <= n + 1 - Len(kept)
        BY <1>1, <1>2, <2>0
      <4> HIDE DEF n, K
      <4> QED BY <4>1
    <3>2. newLog[e] > clock - WindowSeconds
      BY <2>0, <3>1
    <3>3. newLog[e] \in Nat /\ e + K - 1 = n + 1
      BY <1>1, <2>0, <3>1
    <3>4. burst(e)
      <4>1. newLog[e + K - 1] = clock /\ e + K - 1 <= n + 1
        BY <1>1, <1>2, <3>3
      <4>2. clock - newLog[e] < WindowSeconds
        BY <1>1, <3>2, <3>3
      <4> QED BY <4>1, <4>2
    <3> QED BY <3>1, <3>4
  <2>3. ASSUME e \in BB PROVE Len(kept) >= K
    <3> SUFFICES ASSUME Len(kept) < K PROVE FALSE
      BY <1>1, <1>2
    <3>1. /\ e \in cleared + 1 .. n + 1 /\ e + K - 1 = n + 1
          /\ e \in cleared + 1 .. n + 1 - Len(kept)
          /\ newLog[e + K - 1] - newLog[e] < WindowSeconds
      BY <1>1, <1>2, <2>3
    <3>2. newLog[e] <= clock - WindowSeconds
      BY <2>0, <3>1
    <3>3. newLog[e] \in Nat
      BY <1>1, <2>0, <3>1, SMTT(30)
    <3>4. newLog[e + K - 1] = clock
      BY <1>2, <3>1
    <3>5. clock - newLog[e] < WindowSeconds
      BY <3>1, <3>4
    <3> HIDE DEF e
    <3> QED BY <1>1, <3>2, <3>3, <3>5
  <2>4. ASSUME NEW i \in cleared + 1 .. n + 1, i # e
        PROVE  i \in BB <=> i \in B
    <3>1. CASE i + K - 1 <= n
      <4>1. i \in 1..n /\ i + K - 1 \in 1..n /\ i \in cleared + 1 .. n
            /\ i + K - 1 <= n + 1
        BY <1>1, <3>1
      <4>2. newLog[i + K - 1] = log[i + K - 1] /\ newLog[i] = log[i]
        BY <1>2, <4>1
      <4> QED BY <3>1, <4>1, <4>2 DEF BurstAt
    <3>2. CASE ~(i + K - 1 <= n)
      <4>1. ~(i + K - 1 <= n + 1)
        <5>1. i \in Int /\ K \in Int /\ n \in Int /\ i # n + 2 - K
          BY <1>1, <2>4
        <5> HIDE DEF K, n
        <5> QED BY <3>2, <5>1
      <4> QED BY <3>2, <4>1 DEF BurstAt
    <3> QED BY <3>1, <3>2
  <2>5. \A i \in B : /\ i \in cleared + 1 .. n + 1 /\ i < e /\ i # e /\ i \in Int
                     /\ newLog[i + K - 1] = log[i + K - 1]
    <3> SUFFICES ASSUME NEW i \in B
                 PROVE /\ i \in cleared + 1 .. n + 1 /\ i < e /\ i # e
                       /\ i \in Int /\ newLog[i + K - 1] = log[i + K - 1]
      OBVIOUS
    <3>1. i \in cleared + 1 .. n /\ i + K - 1 <= n
      BY DEF BurstAt
    <3>2. i + K - 1 \in 1..n /\ i \in 1..n
      BY <1>1, <3>1
    <3>3. newLog[i + K - 1] = log[i + K - 1]
      BY <1>2, <3>2
    <3>4. i \in cleared + 1 .. n + 1 /\ i < n + 2 - K
      <4>1. i \in Int /\ K \in Int /\ n \in Int /\ cleared \in Int
        BY <1>1, <3>1
      <4> HIDE DEF K, n
      <4> QED BY <3>1, <4>1
    <3> QED BY <1>1, <3>1, <3>3, <3>4
  <2>6. \A i \in BB : i \in cleared + 1 .. n + 1
    OBVIOUS
  <2>7. e + K - 1 = n + 1 /\ e \in Int
    BY <1>1
  <2> HIDE DEF B, BB, e
  <2>8. Tripped(breaker') <=> BB # {}
    BY <1>4, <2>1, <2>2, <2>3, <2>4, <2>5, <2>6
  <2>9. ASSUME NEW i \in BB, \A j \in BB : i <= j
        PROVE  breaker'.trippedAt = newLog[i + K - 1]
    <3>1. CASE B = {}
      <4>1. i = e /\ Len(kept) >= K /\ ~Tripped(breaker)
        BY <2>1, <2>3, <2>4, <2>6, <3>1
      <4> QED BY <1>2, <1>4, <2>7, <4>1
    <3>2. CASE B # {}
      <4>1. i # e
        BY <2>4, <2>5, <2>7, <2>9, <3>2
      <4>2. i \in B /\ \A j \in B : i <= j
        BY <2>4, <2>5, <2>6, <2>9, <4>1
      <4> QED BY <1>4, <2>1, <2>5, <3>2, <4>2
    <3> QED BY <3>1, <3>2
  <2>10. BB = {i \in cleared' + 1 .. Len(log') : BurstAt(i)'}
    BY <1>2, <1>c DEF BB, BurstAt
  <2> QED BY <1>c, <2>8, <2>9, <2>10 DEF TripsExactlyOnBurst
<1> QED BY <1>5, <1>7, <1>8, <1>9, <1>10 DEF IInv

\* A step that leaves the breaker and its log alone.
LEMMA QuietKeepsIInv ==
    ASSUME IInv, clock' \in clock..MaxClock, running' \in SUBSET Callers,
           UNCHANGED <<breaker, log, cleared, trips>>
    PROVE  IInv'
<1>1. /\ clock \in Nat /\ clock' \in Nat /\ clock <= clock'
      /\ \A i \in DOMAIN log : log[i] \in Nat
      /\ \A t \in trips : t \in Nat
      /\ CooldownSeconds \in Nat
  BY TypeFacts, TimesAssumption, BoundsAssumption, SMTT(30) DEF IInv, TypeOK
<1>2. TypeOK'
  BY <1>1, BoundsAssumption DEF IInv, TypeOK
<1>3. LogOrdered'
  <2>1. \A i \in DOMAIN log : log[i] <= clock
    BY DEF IInv, LogOrdered
  <2>2. \A i \in DOMAIN log : log[i] <= clock'
    BY <1>1, <2>1
  <2> QED BY <2>2 DEF IInv, LogOrdered
<1>4. DequeIsRecentLog'
  BY DEF IInv, DequeIsRecentLog
<1>5. TripsExactlyOnBurst'
  BY DEF IInv, TripsExactlyOnBurst, BurstAt
<1>6. TripsInOrder'
  <2>1. \A t \in trips : t <= clock'
    BY <1>1 DEF IInv, TripsInOrder
  <2>2. ~Tripped(breaker) => \A t \in trips : clock' - t > CooldownSeconds
    BY <1>1 DEF IInv, TripsInOrder
  <2> QED BY <2>1, <2>2 DEF IInv, TripsInOrder
<1> QED BY <1>2, <1>3, <1>4, <1>5, <1>6 DEF IInv

\* Polling: either a reset or nothing.
LEMMA PollKeepsIInv ==
    ASSUME IInv, clock' = clock, running' \in SUBSET Callers,
           breaker' = AfterPoll(breaker, clock),
           Observe(breaker, breaker', log)
    PROVE  IInv'
<1>1. /\ log \in Seq(Nat)
      /\ \A i, j \in DOMAIN log : i <= j => log[i] <= log[j]
      /\ \A i \in DOMAIN log : log[i] <= clock
      /\ log' = log
  BY DEF IInv, TypeOK, LogOrdered, Observe
<1>2. CASE CooledDown(breaker, clock)
  <2>1. breaker' = NewBreaker /\ Tripped(breaker) /\ ~Tripped(breaker')
    BY <1>2 DEF AfterPoll, CooledDown, NewBreaker, Tripped
  <2>2. cleared' = Len(log') /\ trips' = trips
    BY <1>1, <2>1 DEF Observe
  <2> QED BY <1>1, <1>2, <2>1, <2>2, ResetKeepsIInv
<1>3. CASE ~CooledDown(breaker, clock)
  <2>1. breaker' = breaker
    BY <1>3 DEF AfterPoll
  <2>2. UNCHANGED <<breaker, log, cleared, trips>>
    BY <1>1, <2>1 DEF Observe
  <2>3. clock' \in clock..MaxClock
    BY BoundsAssumption DEF IInv, TypeOK
  <2> QED BY <2>2, <2>3, QuietKeepsIInv
<1> QED BY <1>2, <1>3

\* Leaving with a failure: the failure is logged, then the breaker polled.
LEMMA FailureKeepsIInv ==
    ASSUME IInv, clock' = clock, running' \in SUBSET Callers,
           breaker' = AfterFailure(breaker, clock),
           Observe(breaker, breaker', Append(log, clock))
    PROVE  IInv'
<1> DEFINE r == RecordFailure(breaker, clock)
<1>1. /\ clock \in Nat /\ CooldownSeconds \in Nat /\ log \in Seq(Nat)
      /\ DOMAIN log = 1..Len(log) /\ Len(log) \in Nat
      /\ \A i \in 1..Len(log) : log[i] \in Nat
      /\ breaker.trippedAt \in Nat \cup {Never}
  BY TypeFacts, TimesAssumption DEF IInv, TypeOK
<1>2. /\ Tripped(breaker) => Tripped(r) /\ r.trippedAt = breaker.trippedAt
      /\ ~Tripped(breaker) /\ Tripped(r) => r.trippedAt = clock
  BY <1>1, TypeFacts DEF IInv, RecordFailure, Trip, Tripped
<1>3. log' = Append(log, clock)
  BY DEF Observe
<1>4. CASE CooledDown(r, clock)
  <2>1. CooledDown(breaker, clock)
    <3>1. Tripped(r) /\ clock - r.trippedAt > CooldownSeconds
      BY <1>4 DEF CooledDown
    <3>2. Tripped(breaker)
      <4> HIDE DEF r
      <4> QED BY <1>1, <1>2, <3>1
    <3> QED BY <1>2, <3>1, <3>2 DEF CooledDown
  <2>2. breaker' = NewBreaker /\ Tripped(breaker) /\ ~Tripped(breaker')
    BY <1>4, <2>1 DEF AfterFailure, AfterPoll, CooledDown, NewBreaker, Tripped
  <2>3. cleared' = Len(log') /\ trips' = trips
    BY <1>3, <2>2 DEF Observe
  <2>4. /\ log' \in Seq(Nat) /\ DOMAIN log' = 1..Len(log) + 1
        /\ log'[Len(log) + 1] = clock
        /\ \A i \in 1..Len(log) : log'[i] = log[i]
    BY <1>1, <1>3, AppendProperties, LenProperties
  <2>5. \A i \in DOMAIN log' : log'[i] <= clock
    <3> SUFFICES ASSUME NEW i \in 1..Len(log) + 1 PROVE log'[i] <= clock
      BY <2>4
    <3>1. i = Len(log) + 1 \/ i \in 1..Len(log)
      BY <1>1
    <3> QED BY <1>1, <2>4, <3>1, SMTT(30) DEF IInv, LogOrdered
  <2>6. ASSUME NEW i \in DOMAIN log', NEW j \in DOMAIN log', i <= j
        PROVE  log'[i] <= log'[j]
    <3>1. CASE j = Len(log) + 1
      BY <2>4, <2>5, <3>1
    <3>2. CASE j # Len(log) + 1
      <4>1. i \in 1..Len(log) /\ j \in 1..Len(log)
        BY <1>1, <2>4, <2>6, <3>2, SMTT(30)
      <4> QED BY <1>1, <2>4, <2>6, <4>1 DEF IInv, LogOrdered
    <3> QED BY <3>1, <3>2
  <2> QED BY <2>1, <2>2, <2>3, <2>4, <2>5, <2>6, ResetKeepsIInv
<1>5. CASE ~CooledDown(r, clock)
  <2>1. breaker' = r
    BY <1>5 DEF AfterFailure, AfterPoll
  <2>2. cleared' = cleared
    BY <1>2, <2>1 DEF Observe
  <2>3. trips' = IF ~Tripped(breaker) /\ Tripped(breaker')
                 THEN trips \cup {breaker'.trippedAt} ELSE trips
    BY DEF Observe
  <2> QED BY <1>3, <2>1, <2>2, <2>3, FailKeepsIInv
<1> QED BY <1>4, <1>5

LEMMA NextKeepsIInv == IInv /\ [Next]_vars => IInv'
<1> SUFFICES ASSUME IInv, [Next]_vars PROVE IInv'
  OBVIOUS
<1>0. clock \in Nat /\ clock <= MaxClock /\ running \in SUBSET Callers
      /\ clock \in clock..MaxClock
  BY BoundsAssumption DEF IInv, TypeOK
<1>1. CASE Tick
  <2>1. clock' \in clock..MaxClock
    BY <1>0, <1>1, BoundsAssumption DEF Tick
  <2> QED BY <1>0, <1>1, <2>1, QuietKeepsIInv DEF Tick
<1>2. CASE Poll
  BY <1>0, <1>2, PollKeepsIInv DEF Poll
<1>3. ASSUME NEW c \in Callers, Admit(c) PROVE IInv'
  BY <1>0, <1>3, PollKeepsIInv DEF Admit
<1>4. ASSUME NEW c \in Callers, Leave(c) PROVE IInv'
  BY <1>0, <1>4, QuietKeepsIInv DEF Leave
<1>5. ASSUME NEW c \in Callers, Fail(c) PROVE IInv'
  BY <1>0, <1>5, FailureKeepsIInv DEF Fail
<1>6. CASE UNCHANGED vars
  BY <1>0, <1>6, QuietKeepsIInv DEF vars
<1> QED BY <1>1, <1>2, <1>3, <1>4, <1>5, <1>6 DEF Next

THEOREM Invariance == Spec => []IInv
<1>1. Init => IInv
  BY InitIInv
<1>2. IInv /\ [Next]_vars => IInv'
  BY NextKeepsIInv
<1> QED BY <1>1, <1>2, PTL DEF Spec

\* The breaker's state has its types in every behaviour.
THEOREM TypeCorrect == Spec => []TypeOK
<1>1. IInv => TypeOK
  BY DEF IInv
<1> QED BY <1>1, Invariance, PTL

\* The deque of the code, pruned and sometimes erased, loses no burst and
\* invents none: the breaker is tripped exactly when FailureThreshold of the
\* failures since the last reset fell within a window, since the first time
\* that happened.
THEOREM BurstTrips == Spec => []TripsExactlyOnBurst
<1>1. IInv => TripsExactlyOnBurst
  BY DEF IInv
<1> QED BY <1>1, Invariance, PTL

\* No caller is admitted before the cooldown of every earlier trip is over.
THEOREM CooldownsAreHonoured == Spec => CooldownHonoured
<1> DEFINE Quiet == \A c \in running' \ running :
                       \A t \in trips : clock - t > CooldownSeconds
<1>1. ASSUME IInv, [Next]_vars PROVE [Quiet]_vars
  <2>1. ASSUME NEW c \in Callers, Admit(c) PROVE Quiet
    <3>1. /\ clock \in Nat /\ CooldownSeconds \in Nat
          /\ \A t \in trips : t \in Nat
          /\ breaker.trippedAt \in Nat \cup {Never}
      BY <1>1, TypeFacts, TimesAssumption DEF IInv, TypeOK
    <3>2. CASE ~Tripped(breaker)
      BY <1>1, <3>2 DEF IInv, TripsInOrder
    <3>3. CASE Tripped(breaker)
      <4>1. clock - breaker.trippedAt > CooldownSeconds
        BY <2>1, <3>3 DEF Admit, IsOpen, CooledDown
      <4>2. \A t \in trips : t <= breaker.trippedAt
        BY <1>1, <3>3 DEF IInv, TripsInOrder
      <4>3. breaker.trippedAt \in Nat
        BY <3>1, <3>3 DEF Tripped
      <4> QED BY <3>1, <4>1, <4>2, <4>3
    <3> QED BY <3>2, <3>3
  <2>2. CASE Tick \/ Poll \/ \E c \in Callers : Leave(c) \/ Fail(c)
    BY <2>2 DEF Tick, Poll, Leave, Fail
  <2>3. CASE UNCHANGED vars
    BY <2>3
  <2> QED BY <1>1, <2>1, <2>2, <2>3 DEF Next
<1>2. IInv /\ [Next]_vars => [Quiet]_vars
  BY <1>1
<1> QED BY <1>2, Invariance, PTL DEF Spec, CooldownHonoured

----------------------------------------------------------------------------
(***************************************************************************)
(* How many failures a span of time may hold.                              *)
(***************************************************************************)

\* The executions that may still be running when one of them has failed.
InFlight == Cardinality(Callers) - 1

\* The k-th failure tripped the breaker: those before it were not a burst of
\* more than the threshold, and those after it come from callers admitted
\* earlier, for nobody is admitted any more.
LateFailures ==
    Tripped(breaker) =>
       \E k \in cleared + 1 .. Len(log) :
          /\ breaker.trippedAt = log[k]
          /\ \A i \in cleared + 1 .. k :
                log[k] - log[i] < WindowSeconds => k - i + 1 <= FailureThreshold
          /\ Len(log) - k + Cardinality(running) <= InFlight

\* A reset waits for the cooldown: of the failures it erased, only the late
\* ones may be younger than that.
EarlierFailures ==
    \A i \in 1..cleared :
       clock - log[i] < CooldownSeconds => cleared - i + 1 <= InFlight

RInv ==
    /\ LateFailures
    /\ EarlierFailures
    /\ FailureRateBounded

\* The spans that end with the last failure.
LastSpanBounded ==
    \A i \in DOMAIN log :
       /\ i < Len(log)
       /\ log[Len(log)] - log[i] < WindowSeconds
       /\ log[Len(log)] - log[i] < CooldownSeconds
       => Len(log) - i < FailuresInAnySpan

LEMMA CallersCounted ==
    /\ Cardinality(Callers) \in Nat /\ InFlight \in Int
    /\ \A S \in SUBSET Callers :
          /\ Cardinality(S) \in Nat /\ Cardinality(S) <= InFlight + 1
          /\ \A c \in S : /\ Cardinality(S \ {c}) = Cardinality(S) - 1
                          /\ Cardinality(S) >= 1 /\ InFlight >= 0
          /\ \A R \in SUBSET S : Cardinality(R) <= Cardinality(S)
<1>1. Cardinality(Callers) \in Nat
  BY CallersAssumption, FS_CardinalityType
<1>2. ASSUME NEW S \in SUBSET Callers
      PROVE  /\ IsFiniteSet(S) /\ Cardinality(S) \in Nat
             /\ Cardinality(S) <= Cardinality(Callers)
  BY <1>2, CallersAssumption, FS_Subset, FS_CardinalityType
<1>3. ASSUME NEW S \in SUBSET Callers, NEW c \in S
      PROVE  /\ Cardinality(S \ {c}) = Cardinality(S) - 1
             /\ Cardinality(S) >= 1
  <2>1. Cardinality(S \ {c}) = Cardinality(S) - 1
    BY <1>2, FS_RemoveElement
  <2>2. S \ {c} \in SUBSET Callers
    OBVIOUS
  <2>3. Cardinality(S \ {c}) \in Nat
    BY <1>2, <2>2
  <2> QED BY <1>2, <2>1, <2>3
<1>4. ASSUME NEW S \in SUBSET Callers, NEW R \in SUBSET S
      PROVE  Cardinality(R) <= Cardinality(S)
  BY <1>2, FS_Subset
<1> QED BY <1>1, <1>2, <1>3, <1>4 DEF InFlight

\* Between two resets a span holds the threshold and the late failures.
LEMMA RecentAreFew ==
    ASSUME IInv, LateFailures, NEW i \in cleared + 1 .. Len(log),
           log[Len(log)] - log[i] < WindowSeconds, InFlight >= 0
    PROVE  Len(log) - i + 1 <= FailureThreshold + InFlight
<1> DEFINE n == Len(log)
<1>1. /\ n \in Nat /\ cleared \in Nat /\ DOMAIN log = 1..n
      /\ \A j \in 1..n : log[j] \in Nat
      /\ \A j, k \in 1..n : j <= k => log[j] <= log[k]
      /\ FailureThreshold \in Nat /\ FailureThreshold >= 1 /\ InFlight \in Int
      /\ i \in 1..n /\ n \in 1..n
  BY TypeFacts, ThresholdAssumption, CallersCounted DEF IInv, LogOrdered
<1> HIDE DEF n
<1>2. CASE ~Tripped(breaker)
  <2>1. \A j \in cleared + 1 .. n : ~BurstAt(j)
    BY <1>2 DEF IInv, TripsExactlyOnBurst, n
  <2>2. SUFFICES ASSUME n - i + 1 > FailureThreshold PROVE FALSE
    BY <1>1, <2>2 DEF n
  <2>3. i + FailureThreshold - 1 \in 1..n /\ i + FailureThreshold - 1 <= n
    BY <1>1, <2>2
  <2>4. log[i + FailureThreshold - 1] <= log[n]
    BY <1>1, <2>3
  <2>5. log[i + FailureThreshold - 1] \in Nat /\ log[i] \in Nat /\ log[n] \in Nat
    BY <1>1, <2>3
  <2>6. log[n] - log[i] < WindowSeconds
    BY DEF n
  <2>7. log[i + FailureThreshold - 1] - log[i] < WindowSeconds
    BY <2>4, <2>5, <2>6, TimesAssumption
  <2>8. BurstAt(i)
    BY <2>3, <2>7 DEF BurstAt, n
  <2> QED BY <2>1, <2>8 DEF n
<1>3. CASE Tripped(breaker)
  <2>1. PICK k \in cleared + 1 .. n :
           /\ \A j \in cleared + 1 .. k :
                log[k] - log[j] < WindowSeconds => k - j + 1 <= FailureThreshold
           /\ n - k + Cardinality(running) <= InFlight
    BY <1>3 DEF LateFailures, n
  <2>2. Cardinality(running) \in Nat
    BY CallersCounted DEF IInv, TypeOK
  <2>3. k \in Int /\ k \in 1..n /\ n - k <= InFlight
    BY <1>1, <2>1, <2>2
  <2>4. CASE i > k
    BY <1>1, <2>3, <2>4 DEF n
  <2>5. CASE i <= k
    <3>1. i \in cleared + 1 .. k
      BY <1>1, <2>3, <2>5
    <3>2. /\ log[k] <= log[n] /\ log[k] \in Nat /\ log[n] \in Nat
          /\ log[i] \in Nat
      BY <1>1, <2>3
    <3>3. log[n] - log[i] < WindowSeconds
      BY DEF n
    <3>4. log[k] - log[i] < WindowSeconds
      BY <3>2, <3>3, TimesAssumption
    <3>5. k - i + 1 <= FailureThreshold
      BY <2>1, <3>1, <3>4
    <3> QED BY <1>1, <2>3, <3>5 DEF n
  <2> QED BY <1>1, <2>3, <2>4, <2>5
<1> QED BY <1>2, <1>3

\* A span that reaches over the last reset adds the late failures before it.
LEMMA LastSpanIsBounded ==
    /\ IInv /\ LateFailures /\ EarlierFailures
    /\ log[Len(log)] = clock
    /\ InFlight >= 0
    => LastSpanBounded
<1> SUFFICES ASSUME IInv, LateFailures, EarlierFailures,
                    log[Len(log)] = clock, InFlight >= 0,
                    NEW i \in DOMAIN log, i < Len(log),
                    log[Len(log)] - log[i] < WindowSeconds,
                    log[Len(log)] - log[i] < CooldownSeconds
             PROVE  Len(log) - i < FailuresInAnySpan
  BY DEF LastSpanBounded
<1> DEFINE n == Len(log)
<1>0. PICK bound \in Int : bound = InFlight
  BY CallersCounted
<1>1. /\ n \in Nat /\ cleared \in Nat /\ cleared <= n /\ DOMAIN log = 1..n
      /\ \A j \in 1..n : log[j] \in Nat
      /\ \A j, k \in 1..n : j <= k => log[j] <= log[k]
      /\ FailureThreshold \in Nat /\ FailureThreshold >= 1
      /\ i \in 1..n /\ n \in 1..n /\ bound >= 0
  BY <1>0, TypeFacts, ThresholdAssumption DEF IInv, LogOrdered
<1>2. FailuresInAnySpan = FailureThreshold + 2 * bound
  BY <1>0 DEF FailuresInAnySpan, InFlight
<1>3. /\ log[n] - log[i] < WindowSeconds
      /\ clock - log[i] < CooldownSeconds
  OBVIOUS
<1>4. \A j \in cleared + 1 .. n :
         log[n] - log[j] < WindowSeconds => n - j + 1 <= FailureThreshold + bound
  BY <1>0, RecentAreFew
<1> HIDE DEF n
<1>5. CASE i > cleared
  <2>1. n - i + 1 <= FailureThreshold + bound
    <3>1. i \in cleared + 1 .. n
      BY <1>1, <1>5
    <3> QED BY <1>3, <1>4, <3>1
  <2>2. n - i < FailureThreshold + 2 * bound
    BY <1>1, <2>1
  <2> QED BY <1>2, <2>2 DEF n
<1>6. CASE i <= cleared
  <2>1. cleared - i + 1 <= bound
    <3>1. i \in 1..cleared
      BY <1>1, <1>6
    <3> QED BY <1>0, <1>3, <3>1 DEF EarlierFailures
  <2>2. n - cleared <= FailureThreshold + bound
    <3>1. CASE cleared = n
      BY <1>1, <3>1
    <3>2. CASE cleared # n
      <4>1. cleared + 1 \in cleared + 1 .. n /\ cleared + 1 \in 1..n
            /\ i <= cleared + 1
        BY <1>1, <1>6, <3>2
      <4>2. log[i] <= log[cleared + 1]
        BY <1>1, <4>1
      <4>3. log[i] \in Nat /\ log[cleared + 1] \in Nat /\ log[n] \in Nat
        BY <1>1, <4>1
      <4>4. log[n] - log[cleared + 1] < WindowSeconds
        BY <1>3, <4>2, <4>3, TimesAssumption
      <4>5. n - (cleared + 1) + 1 <= FailureThreshold + bound
        BY <1>4, <4>1, <4>4
      <4> QED BY <1>1, <4>5
    <3> QED BY <3>1, <3>2
  <2>3. n - i < FailureThreshold + 2 * bound
    BY <1>1, <2>1, <2>2
  <2> QED BY <1>2, <2>3 DEF n
<1> QED BY <1>1, <1>5, <1>6

LEMMA InitRInv == Init => RInv
BY EmptySeq
DEF Init, RInv, LateFailures, EarlierFailures, FailureRateBounded, NewBreaker,
    Tripped

\* A step that leaves the breaker alone and admits nobody past a trip.
LEMMA QuietKeepsRate ==
    ASSUME IInv, RInv, clock' \in clock..MaxClock,
           UNCHANGED <<breaker, log, cleared>>,
           Tripped(breaker) => running' \in SUBSET running
    PROVE  RInv'
<1>1. /\ clock \in Nat /\ clock' \in Nat /\ clock <= clock'
      /\ \A i \in 1..Len(log) : log[i] \in Nat
      /\ cleared \in 0..Len(log) /\ Len(log) \in Nat
  BY TypeFacts, BoundsAssumption DEF IInv, TypeOK
<1>2. LateFailures'
  <2> SUFFICES ASSUME Tripped(breaker) PROVE LateFailures'
    BY DEF LateFailures
  <2>1. PICK k \in cleared + 1 .. Len(log) :
           /\ breaker.trippedAt = log[k]
           /\ \A i \in cleared + 1 .. k :
                log[k] - log[i] < WindowSeconds => k - i + 1 <= FailureThreshold
           /\ Len(log) - k + Cardinality(running) <= InFlight
    BY DEF RInv, LateFailures
  <2>2. /\ Cardinality(running') <= Cardinality(running)
        /\ Cardinality(running') \in Nat /\ Cardinality(running) \in Nat
        /\ InFlight \in Int
    <3>1. running \in SUBSET Callers /\ running' \in SUBSET running
      BY DEF IInv, TypeOK
    <3>2. running' \in SUBSET Callers
      BY <3>1
    <3> QED BY <3>1, <3>2, CallersCounted
  <2>3. Len(log) - k + Cardinality(running') <= InFlight
    <3>1. k \in Int
      BY <1>1, <2>1
    <3> QED BY <1>1, <2>1, <2>2, <3>1
  <2>4. InFlight' = InFlight
    BY DEF InFlight
  <2> QED BY <2>1, <2>3, <2>4 DEF LateFailures
<1>3. EarlierFailures'
  <2> SUFFICES ASSUME NEW i \in 1..cleared, clock' - log[i] < CooldownSeconds
               PROVE  cleared - i + 1 <= InFlight
    BY DEF EarlierFailures, InFlight
  <2>1. i \in 1..Len(log)
    BY <1>1
  <2>2. clock - log[i] < CooldownSeconds
    BY <1>1, <2>1, TimesAssumption
  <2> QED BY <2>2 DEF RInv, EarlierFailures
<1>4. FailureRateBounded'
  BY DEF RInv, FailureRateBounded, FailuresInAnySpan
<1> QED BY <1>2, <1>3, <1>4 DEF RInv

\* A reset, with or without a last late failure: everything logged since the
\* trip came from callers that were running when the breaker tripped.
LEMMA ResetKeepsRate ==
    ASSUME IInv, RInv, clock' = clock, CooledDown(breaker, clock),
           breaker' = NewBreaker, cleared' = Len(log'),
           \/ log' = log
           \/ log' = Append(log, clock) /\ \E c \in Callers : c \in running
    PROVE  LateFailures' /\ EarlierFailures'
<1> DEFINE n == Len(log)
<1>1. /\ clock \in Nat /\ n \in Nat /\ cleared \in 0..n /\ log \in Seq(Nat)
      /\ \A i \in 1..n : log[i] \in Nat
      /\ \A i, j \in 1..n : i <= j => log[i] <= log[j]
      /\ CooldownSeconds \in Nat
  BY TypeFacts, TimesAssumption, BoundsAssumption
  DEF IInv, TypeOK, LogOrdered
<1>2. LateFailures'
  BY DEF LateFailures, NewBreaker, Tripped
<1>3. PICK k \in cleared + 1 .. n :
           /\ breaker.trippedAt = log[k]
           /\ n - k + Cardinality(running) <= InFlight
  BY DEF RInv, LateFailures, CooledDown
<1>4. PICK held \in Nat : held = Cardinality(running)
  BY CallersCounted DEF IInv, TypeOK
<1>5. PICK bound \in Int : bound = InFlight
  BY CallersCounted
<1>6. /\ k \in 1..n /\ clock - log[k] > CooldownSeconds
      /\ n - k + held <= bound
  BY <1>1, <1>3, <1>4, <1>5 DEF CooledDown
<1>7. ASSUME NEW i \in 1..n, clock - log[i] < CooldownSeconds
      PROVE  i > k
  <2> SUFFICES ASSUME i <= k PROVE FALSE
    BY <1>6
  <2>1. log[i] <= log[k] /\ log[i] \in Nat /\ log[k] \in Nat
    BY <1>1, <1>6
  <2>2. PICK a \in Nat : a = log[i]
    BY <2>1
  <2>3. PICK b \in Nat : b = log[k]
    BY <2>1
  <2>4. a <= b /\ clock - a < CooldownSeconds /\ clock - b > CooldownSeconds
    BY <1>6, <1>7, <2>1, <2>2, <2>3
  <2> QED BY <1>1, <2>4
<1>8. EarlierFailures'
  <2> SUFFICES ASSUME NEW i \in 1..Len(log'), clock - log'[i] < CooldownSeconds
               PROVE  Len(log') - i + 1 <= bound
    BY <1>5 DEF EarlierFailures, InFlight
  <2>1. CASE log' = log
    <3>1. i > k /\ i \in 1..n
      BY <1>7, <2>1
    <3>2. n - i + 1 <= bound
      <4> HIDE DEF n
      <4> QED BY <1>1, <1>6, <3>1
    <3> QED BY <2>1, <3>2
  <2>2. CASE log' = Append(log, clock) /\ \E c \in Callers : c \in running
    <3>1. /\ Len(log') = n + 1
          /\ \A j \in 1..n : log'[j] = log[j]
      BY <1>1, <2>2, AppendProperties
    <3>2. held >= 1
      <4>1. PICK c \in running : TRUE
        BY <2>2
      <4>2. running \in SUBSET Callers
        BY DEF IInv, TypeOK
      <4>3. Cardinality(running) >= 1
        <5>1. \A S \in SUBSET Callers : \A x \in S : Cardinality(S) >= 1
          BY CallersCounted
        <5> QED BY <4>1, <4>2, <5>1
      <4> QED BY <1>4, <4>3
    <3>3. i = n + 1 \/ i \in 1..n
      <4>1. i \in 1..n + 1 /\ n \in Nat
        BY <1>1, <3>1
      <4> HIDE DEF n
      <4> QED BY <4>1
    <3>4. i > k
      <4>1. CASE i = n + 1
        BY <1>1, <1>6, <4>1
      <4>2. CASE i \in 1..n
        BY <1>7, <3>1, <4>2
      <4> QED BY <3>3, <4>1, <4>2
    <3>5. n + 1 - i + 1 <= bound
      <4>1. i \in Int
        OBVIOUS
      <4> HIDE DEF n
      <4> QED BY <1>1, <1>6, <3>2, <3>4, <4>1
    <3> QED BY <3>1, <3>5
  <2> QED BY <2>1, <2>2
<1> QED BY <1>2, <1>8

\* A failure that trips the breaker, or a late one, or one of a few.
LEMMA FailKeepsRate ==
    ASSUME IInv, RInv, clock' = clock, NEW c \in running,
           running' = running \ {c},
           Tripped(breaker) => /\ Tripped(breaker')
                               /\ breaker'.trippedAt = breaker.trippedAt,
           ~Tripped(breaker) /\ Tripped(breaker')
              => breaker'.trippedAt = clock,
           log' = Append(log, clock), cleared' = cleared
    PROVE  LateFailures' /\ EarlierFailures'
<1> DEFINE n == Len(log)
<1>0. PICK T \in Nat : T = FailureThreshold /\ T >= 1
  BY ThresholdAssumption
<1>1. /\ clock \in Nat /\ n \in Nat /\ cleared \in 0..n /\ log \in Seq(Nat)
      /\ \A i \in 1..n : log[i] \in Nat /\ log[i] <= clock
      /\ \A i, j \in 1..n : i <= j => log[i] <= log[j]
  BY TypeFacts, BoundsAssumption DEF IInv, TypeOK, LogOrdered
<1>2. PICK newLog : newLog = log'
  OBVIOUS
<1>3. /\ Len(newLog) = n + 1 /\ newLog[n + 1] = clock
      /\ \A i \in 1..n : newLog[i] = log[i]
  BY <1>1, <1>2, AppendProperties
<1>4. PICK held \in Nat : /\ Cardinality(running) = held
                          /\ Cardinality(running') = held - 1
                          /\ held <= InFlight + 1
  BY CallersCounted DEF IInv, TypeOK
<1>5. PICK bound \in Int : bound = InFlight
  BY CallersCounted
<1>6. EarlierFailures'
  <2> SUFFICES ASSUME NEW i \in 1..cleared, clock - newLog[i] < CooldownSeconds
               PROVE  cleared - i + 1 <= InFlight
    BY <1>2 DEF EarlierFailures, InFlight
  <2>1. newLog[i] = log[i]
    BY <1>1, <1>3
  <2> QED BY <2>1 DEF RInv, EarlierFailures
<1>7. ASSUME NEW k \in cleared + 1 .. n + 1,
             breaker'.trippedAt = newLog[k],
             \A i \in cleared + 1 .. k :
                newLog[k] - newLog[i] < WindowSeconds => k - i + 1 <= T,
             n + 1 - k + (held - 1) <= bound
      PROVE  LateFailures'
  <2>1. Cardinality(running') = held - 1 /\ InFlight' = bound
    BY <1>4, <1>5 DEF InFlight
  <2>2. cleared' = cleared /\ Len(log') = n + 1 /\ log' = newLog
    BY <1>2, <1>3
  <2>3. k \in cleared' + 1 .. Len(log') /\ breaker'.trippedAt = log'[k]
    BY <1>7, <2>2
  <2>4. \A i \in cleared' + 1 .. k :
           log'[k] - log'[i] < WindowSeconds => k - i + 1 <= FailureThreshold
    <3>1. \A i \in cleared + 1 .. k :
             newLog[k] - newLog[i] < WindowSeconds => k - i + 1 <= T
      BY <1>7
    <3> QED BY <1>0, <2>2, <3>1
  <2>5. Len(log') - k + Cardinality(running') <= InFlight'
    <3>1. Len(log') - k + Cardinality(running') = n + 1 - k + (held - 1)
      BY <2>1, <2>2
    <3> QED BY <1>7, <2>1, <3>1
  <2> QED BY <2>3, <2>4, <2>5 DEF LateFailures
<1>8. CASE ~Tripped(breaker')
  BY <1>6, <1>8 DEF LateFailures
<1>9. CASE Tripped(breaker)
  <2>1. PICK k \in cleared + 1 .. n :
           /\ breaker.trippedAt = log[k]
           /\ \A i \in cleared + 1 .. k :
                log[k] - log[i] < WindowSeconds => k - i + 1 <= T
           /\ n - k + held <= bound
    BY <1>0, <1>4, <1>5, <1>9 DEF RInv, LateFailures
  <2>2. k \in cleared + 1 .. n + 1 /\ k \in 1..n
        /\ \A i \in cleared + 1 .. k : i \in 1..n
    BY <1>1
  <2>3. breaker'.trippedAt = newLog[k]
    BY <1>3, <1>9, <2>1, <2>2
  <2>4. \A i \in cleared + 1 .. k :
           newLog[k] - newLog[i] < WindowSeconds => k - i + 1 <= T
    BY <1>3, <2>1, <2>2
  <2>5. n + 1 - k + (held - 1) <= bound
    <3> HIDE DEF n
    <3> QED BY <1>1, <2>1, <2>2
  <2> QED BY <1>6, <1>7, <2>2, <2>3, <2>4, <2>5
<1>10. CASE ~Tripped(breaker) /\ Tripped(breaker')
  <2>1. n + 1 \in cleared + 1 .. n + 1
    BY <1>1
  <2>2. breaker'.trippedAt = newLog[n + 1]
    BY <1>3, <1>10
  <2>3. ASSUME NEW i \in cleared + 1 .. n + 1,
               clock - newLog[i] < WindowSeconds, n + 1 - i + 1 > T
        PROVE  FALSE
    <3> DEFINE b == n + 1 - T
    <3>1. b \in 1..n /\ i \in 1..n /\ i <= b /\ b \in cleared + 1 .. n
      <4> HIDE DEF n
      <4> QED BY <1>0, <1>1, <2>3
    <3>2. b + T - 1 = n /\ n \in 1..n
      <4>1. n \in Int
        BY <1>1
      <4> HIDE DEF n
      <4> QED BY <1>0, <3>1, <4>1
    <3>3. log[i] <= log[b] /\ log[n] <= clock /\ newLog[i] = log[i]
      BY <1>1, <1>3, <3>1, <3>2
    <3>4. log[i] \in Nat /\ log[b] \in Nat /\ log[n] \in Nat
      BY <1>1, <3>1, <3>2
    <3> HIDE DEF b, n
    <3>5. log[n] - log[b] < WindowSeconds
      <4>1. clock - log[i] < WindowSeconds
        BY <2>3, <3>3
      <4>2. PICK now \in Nat : now = clock
        BY <1>1
      <4>3. PICK li \in Nat : li = log[i]
        BY <3>4
      <4>4. PICK lb \in Nat : lb = log[b]
        BY <3>4
      <4>5. PICK ln \in Nat : ln = log[n]
        BY <3>4
      <4>6. /\ now - li < WindowSeconds /\ li <= lb /\ ln <= now
            /\ WindowSeconds \in Nat
        BY <3>3, <4>1, <4>2, <4>3, <4>4, <4>5, TimesAssumption
      <4>7. ln - lb < WindowSeconds
        BY <4>2, <4>3, <4>4, <4>5, <4>6
      <4> QED BY <4>4, <4>5, <4>7
    <3>6. BurstAt(b)
      BY <1>0, <3>2, <3>5 DEF BurstAt, n
    <3> QED BY <1>10, <3>1, <3>6 DEF IInv, TripsExactlyOnBurst, n
  <2>4. \A i \in cleared + 1 .. n + 1 :
           newLog[n + 1] - newLog[i] < WindowSeconds => n + 1 - i + 1 <= T
    <3> HIDE DEF n
    <3> QED BY <1>0, <1>1, <1>3, <2>3
  <2>5. n + 1 - (n + 1) + (held - 1) <= bound
    BY <1>1, <1>4, <1>5
  <2> QED BY <1>6, <1>7, <2>1, <2>2, <2>4, <2>5
<1> QED BY <1>8, <1>9, <1>10

\* Polling resets the breaker or does nothing.
LEMMA PollKeepsRate ==
    ASSUME IInv, RInv, clock' = clock, breaker' = AfterPoll(breaker, clock),
           Observe(breaker, breaker', log),
           IsOpen(breaker, clock) => running' \in SUBSET running
    PROVE  RInv'
<1>1. log' = log
  BY DEF Observe
<1>2. CASE CooledDown(breaker, clock)
  <2>1. breaker' = NewBreaker /\ cleared' = Len(log')
    BY <1>1, <1>2
    DEF AfterPoll, Observe, CooledDown, NewBreaker, Tripped
  <2>2. LateFailures' /\ EarlierFailures'
    BY <1>1, <1>2, <2>1, ResetKeepsRate
  <2>3. FailureRateBounded'
    BY <1>1 DEF RInv, FailureRateBounded, FailuresInAnySpan
  <2> QED BY <2>2, <2>3 DEF RInv
<1>3. CASE ~CooledDown(breaker, clock)
  <2>1. breaker' = breaker
    BY <1>3 DEF AfterPoll
  <2>2. UNCHANGED <<breaker, log, cleared>>
    BY <1>1, <2>1 DEF Observe
  <2>3. clock' \in clock..MaxClock
    BY BoundsAssumption DEF IInv, TypeOK
  <2>4. Tripped(breaker) => running' \in SUBSET running
    BY <1>3 DEF IsOpen
  <2> QED BY <2>2, <2>3, <2>4, QuietKeepsRate
<1> QED BY <1>2, <1>3

LEMMA FailureKeepsRate ==
    ASSUME IInv, RInv, NEW c \in Callers, Fail(c)
    PROVE  LateFailures' /\ EarlierFailures'
<1> DEFINE r == RecordFailure(breaker, clock)
<1>1. /\ c \in running /\ breaker' = AfterPoll(r, clock)
      /\ running' = running \ {c} /\ clock' = clock
      /\ log' = Append(log, clock)
      /\ Observe(breaker, breaker', Append(log, clock))
      /\ breaker.trippedAt \in Nat \cup {Never} /\ clock \in Nat
  BY TypeFacts DEF IInv, Fail, AfterFailure, Observe
<1>2. /\ Tripped(breaker) => Tripped(r) /\ r.trippedAt = breaker.trippedAt
      /\ ~Tripped(breaker) /\ Tripped(r) => r.trippedAt = clock
  BY <1>1, TypeFacts DEF IInv, RecordFailure, Trip, Tripped
<1> HIDE DEF r
<1>3. CASE CooledDown(r, clock)
  <2>1. CooledDown(breaker, clock)
    BY <1>1, <1>2, <1>3, TimesAssumption DEF CooledDown
  <2>2. breaker' = NewBreaker /\ cleared' = Len(log')
    BY <1>1, <1>3, <2>1
    DEF AfterPoll, Observe, CooledDown, NewBreaker, Tripped
  <2> QED BY <1>1, <2>1, <2>2, ResetKeepsRate
<1>4. CASE ~CooledDown(r, clock)
  <2>1. breaker' = r
    BY <1>1, <1>4 DEF AfterPoll
  <2>2. cleared' = cleared
    BY <1>1, <1>2, <2>1 DEF Observe
  <2> QED BY <1>1, <1>2, <2>1, <2>2, FailKeepsRate
<1> QED BY <1>3, <1>4

LEMMA NextKeepsRate == IInv /\ RInv /\ [Next]_vars => RInv'
<1> SUFFICES ASSUME IInv, RInv, [Next]_vars PROVE RInv'
  OBVIOUS
<1>0. clock \in clock..MaxClock
  BY BoundsAssumption DEF IInv, TypeOK
<1>1. CASE Tick
  <2>1. clock' \in clock..MaxClock
    BY <1>0, <1>1, BoundsAssumption DEF Tick, IInv, TypeOK
  <2> QED BY <1>1, <2>1, QuietKeepsRate DEF Tick
<1>2. CASE Poll
  BY <1>2, PollKeepsRate DEF Poll
<1>3. ASSUME NEW c \in Callers, Admit(c) PROVE RInv'
  BY <1>3, PollKeepsRate DEF Admit
<1>4. ASSUME NEW c \in Callers, Leave(c) PROVE RInv'
  BY <1>0, <1>4, QuietKeepsRate DEF Leave
<1>5. ASSUME NEW c \in Callers, Fail(c) PROVE RInv'
  <2>1. LateFailures' /\ EarlierFailures'
    BY <1>5, FailureKeepsRate
  <2>2. IInv'
    BY NextKeepsIInv
  <2>3. LastSpanBounded'
    <3>1. /\ log \in Seq(Nat) /\ clock \in Nat /\ running \in SUBSET Callers
          /\ log' = Append(log, clock) /\ clock' = clock /\ c \in running
      BY <1>5, TypeFacts DEF IInv, TypeOK, Fail, Observe
    <3>2. (log[Len(log)] = clock)'
      BY <3>1, AppendProperties, LenProperties
    <3>3. InFlight >= 0
      BY <3>1, CallersCounted
    <3>4. (InFlight >= 0)'
      BY <3>3 DEF InFlight
    <3> QED BY <2>1, <2>2, <3>2, <3>4, LastSpanIsBounded, PTL
  <2>4. FailureRateBounded'
    <3>1. /\ log \in Seq(Nat) /\ clock \in Nat
          /\ log' = Append(log, clock)
      BY <1>5, TypeFacts DEF IInv, TypeOK, Fail, Observe
    <3>2. PICK newLog : newLog = log'
      OBVIOUS
    <3>3. PICK n \in Nat : n = Len(log)
      BY <3>1, LenProperties
    <3>4. /\ Len(newLog) = n + 1 /\ DOMAIN newLog = 1..n + 1
          /\ DOMAIN log = 1..n
          /\ \A i \in 1..n : newLog[i] = log[i]
      BY <3>1, <3>2, <3>3, AppendProperties, LenProperties
    <3>5. SUFFICES ASSUME NEW i \in 1..n + 1, NEW j \in 1..n + 1, i < j,
                          newLog[j] - newLog[i] < WindowSeconds,
                          newLog[j] - newLog[i] < CooldownSeconds
                   PROVE  j - i < FailuresInAnySpan
      BY <3>2, <3>4 DEF FailureRateBounded, FailuresInAnySpan
    <3>6. CASE j = n + 1
      BY <2>3, <3>2, <3>4, <3>5, <3>6 DEF LastSpanBounded, FailuresInAnySpan
    <3>7. CASE j # n + 1
      <4>1. i \in 1..n /\ j \in 1..n
        BY <3>5, <3>7
      <4> QED BY <3>4, <3>5, <4>1 DEF RInv, FailureRateBounded
    <3> QED BY <3>6, <3>7
  <2> QED BY <2>1, <2>4 DEF RInv
<1>6. CASE UNCHANGED vars
  BY <1>0, <1>6, QuietKeepsRate DEF vars
<1> QED BY <1>1, <1>2, <1>3, <1>4, <1>5, <1>6 DEF Next

\* However many callers share the breaker and however they interleave, the
\* failures in a span shorter than the window and the cooldown number at most
\* the threshold plus twice the other callers.
THEOREM FailureRateIsBounded == Spec => []FailureRateBounded
<1>1. Init => RInv
  BY InitRInv
<1>2. IInv /\ RInv /\ [Next]_vars => RInv'
  BY NextKeepsRate
<1>3. RInv => FailureRateBounded
  BY DEF RInv
<1> QED BY <1>1, <1>2, <1>3, Invariance, PTL DEF Spec
=============================================================================
