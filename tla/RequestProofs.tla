---------------------------- MODULE RequestProofs ----------------------------
(***************************************************************************)
(* Theorems about a request of a virtual key.  First the limits it has to  *)
(* pass: the key's requests a day, its tokens a minute, and the windows of *)
(* its budget; for any number of threads, any limits, and any hours of     *)
(* use.  Then its answer on the way back: what the client is told and what *)
(* the key is debited, for any messages that follow upstream's protocol,   *)
(* however they are cut into chunks and wherever they break off.           *)
(***************************************************************************)
EXTENDS DailyLimiter, TokenBucket, BudgetCalendar, AnswerStream, FiniteSetTheorems,
        SequenceTheorems, WellFoundedInduction, TLAPS

-----------------------------------------------------------------------------
(* Requests per day (DailyLimiter).                                        *)

(***************************************************************************)
(* The inductive invariant.  day_start only ever moves forward, so that    *)
(* nothing was counted for a later day; on a day whose reset nobody        *)
(* overtook, nothing is counted until the last reset is through, and then  *)
(* the count is what was accepted.                                         *)
(***************************************************************************)
DailyLocals ==
  \A t \in Threads :
    /\ pc[t] # "idle" => seen[t].today <= today
    /\ pc[t] = "swap_day" => seen[t].loaded < seen[t].today
    /\ pc[t] = "swap_count" => seen[t].loaded < Limit

FutureEmpty == \A d \in Days : d > day_start => accepted[d] = 0

CountIsAccepted ==
  day_start \notin raced =>
    accepted[day_start] = (IF Resetting = {} THEN count ELSE 0)

DailyInv == TypeOK /\ DailyLocals /\ FutureEmpty /\ CountIsAccepted /\ QuietDayCapped

\* The invariant holds at the start.
LEMMA InitDaily == Init => DailyInv
  <1>. SUFFICES ASSUME Init PROVE DailyInv
    OBVIOUS
  <1>. USE DailyLimiterAssumption DEF Init
  <1>1. 0 \in Days /\ Days \subseteq Nat
    BY DEF Days
  <1>2. TypeOK
    BY <1>1 DEF TypeOK, Stage
  <1>3. DailyLocals /\ FutureEmpty
    BY <1>1 DEF DailyLocals, FutureEmpty
  <1>4. CountIsAccepted /\ QuietDayCapped
    BY <1>1 DEF CountIsAccepted, QuietDayCapped, Resetting
  <1>. QED
    BY <1>2, <1>3, <1>4 DEF DailyInv

\* Every step keeps the types, and what a thread loaded stays what it was.
LEMMA DailyTypes ==
  ASSUME TypeOK, DailyLocals, [Next]_vars
  PROVE  TypeOK' /\ DailyLocals'
  <1>. USE DailyLimiterAssumption DEF TypeOK, DailyLocals, Days, Stage, Goto
  <1>1. CASE Midnight
    BY <1>1 DEF Midnight
  <1>2. ASSUME NEW t \in Threads, ReadClock(t) PROVE TypeOK' /\ DailyLocals'
    BY <1>2 DEF ReadClock
  <1>3. ASSUME NEW t \in Threads, LoadDay(t) PROVE TypeOK' /\ DailyLocals'
    BY <1>3 DEF LoadDay
  <1>4. ASSUME NEW t \in Threads, SwapDay(t) PROVE TypeOK' /\ DailyLocals'
    <2>1. /\ day_start' \in {day_start, seen[t].today} /\ pc[t] # "idle"
          /\ UNCHANGED <<today, count, seen, accepted, raced>>
          /\ \/ pc' = [pc EXCEPT ![t] = "zero"]
             \/ pc' = [pc EXCEPT ![t] = "load_count"]
      BY <1>4 DEF SwapDay
    <2>2. day_start' \in 0 .. today
      BY <2>1
    <2>. QED
      BY <2>1, <2>2
  <1>5. ASSUME NEW t \in Threads, Zero(t) \/ Reject(t) \/ Retry(t) PROVE TypeOK' /\ DailyLocals'
    <2>1. /\ count' \in 0 .. Limit /\ pc[t] # "idle"
          /\ UNCHANGED <<today, day_start, seen, accepted, raced>>
          /\ \/ pc' = [pc EXCEPT ![t] = "idle"]
             \/ pc' = [pc EXCEPT ![t] = "load_count"]
      BY <1>5 DEF Zero, Reject, Retry
    <2>. QED
      BY <2>1
  <1>6. ASSUME NEW t \in Threads, LoadCount(t) PROVE TypeOK' /\ DailyLocals'
    BY <1>6 DEF LoadCount
  <1>7. ASSUME NEW t \in Threads, SwapCount(t) PROVE TypeOK' /\ DailyLocals'
    <2>1. pc[t] = "swap_count" /\ count' = count + 1 /\ count = seen[t].loaded
          /\ UNCHANGED <<today, day_start, seen>> /\ pc' = [pc EXCEPT ![t] = "idle"]
      BY <1>7 DEF SwapCount
    <2>2. count' \in 0 .. Limit
      BY <2>1
    <2>3. accepted' \in [Days -> Nat] /\ raced' \subseteq Days
      BY <1>7 DEF SwapCount
    <2>. QED
      BY <2>1, <2>2, <2>3
  <1>8. CASE UNCHANGED vars
    BY <1>8 DEF vars
  <1>. QED
    BY <1>1, <1>2, <1>3, <1>4, <1>5, <1>6, <1>7, <1>8 DEF Next, Step

\* Who is resetting the count, after a step of one thread.
LEMMA ResettingStep ==
  ASSUME TypeOK, NEW t \in Threads, NEW s \in Stage, Goto(t, s)
  PROVE  Resetting' = IF s = "zero" THEN Resetting \union {t} ELSE Resetting \ {t}
  BY DEF TypeOK, Goto, Resetting

\* Every step keeps the count that of its day.
LEMMA DailyCounts ==
  ASSUME DailyInv, [Next]_vars
  PROVE  FutureEmpty' /\ CountIsAccepted' /\ QuietDayCapped'
  <1>. USE DEF DailyInv
  <1>1. /\ today \in Days /\ day_start \in Days /\ day_start \in Nat /\ count \in 0 .. Limit
        /\ Limit \in Nat \ {0} /\ accepted \in [Days -> Nat] /\ Days \subseteq Nat
    BY DailyLimiterAssumption DEF TypeOK, Days
  <1>2. ASSUME UNCHANGED <<count, day_start, accepted, raced>>, Resetting' = Resetting
        PROVE  FutureEmpty' /\ CountIsAccepted' /\ QuietDayCapped'
    BY <1>2 DEF FutureEmpty, CountIsAccepted, QuietDayCapped
  <1>3. CASE Midnight
    BY <1>2, <1>3 DEF Midnight, Resetting
  <1>4. ASSUME NEW t \in Threads,
               ReadClock(t) \/ LoadDay(t) \/ Reject(t) \/ LoadCount(t) \/ Retry(t)
        PROVE  FutureEmpty' /\ CountIsAccepted' /\ QuietDayCapped'
    <2>1. UNCHANGED <<count, day_start, accepted, raced>> /\ t \notin Resetting
      BY <1>4 DEF ReadClock, LoadDay, Reject, LoadCount, Retry, Resetting
    <2>2. \E s \in Stage \ {"zero"} : Goto(t, s)
      BY <1>4 DEF ReadClock, LoadDay, Reject, LoadCount, Retry, Stage
    <2>3. Resetting' = Resetting
      BY <2>1, <2>2, ResettingStep
    <2>. QED
      BY <1>2, <2>1, <2>3
  <1>5. ASSUME NEW t \in Threads, SwapDay(t), day_start # seen[t].loaded
        PROVE  FutureEmpty' /\ CountIsAccepted' /\ QuietDayCapped'
    <2>1. UNCHANGED <<count, day_start, accepted, raced>> /\ t \notin Resetting
      BY <1>5 DEF SwapDay, Resetting
    <2>2. Resetting' = Resetting
      BY <1>5, <2>1, ResettingStep DEF SwapDay, Stage
    <2>. QED
      BY <1>2, <2>1, <2>2
  <1>6. ASSUME NEW t \in Threads, SwapDay(t), day_start = seen[t].loaded
        PROVE  FutureEmpty' /\ CountIsAccepted' /\ QuietDayCapped'
    <2>1. /\ day_start' = seen[t].today /\ seen[t].today > day_start /\ seen[t].today \in Days
          /\ UNCHANGED <<count, accepted, raced>>
      BY <1>6 DEF SwapDay, DailyLocals, TypeOK
    <2>2. t \in Resetting'
      BY <1>6, ResettingStep DEF SwapDay, Stage
    <2>3. accepted[day_start'] = 0
      BY <2>1 DEF FutureEmpty
    <2>4. FutureEmpty'
      <3>1. day_start' \in Nat /\ day_start' > day_start
        BY <1>1, <2>1
      <3>2. ASSUME NEW d \in Days, d > day_start' PROVE accepted'[d] = 0
        <4>1. d \in Nat /\ d > day_start
          BY <1>1, <3>1, <3>2
        <4>. QED
          BY <2>1, <4>1 DEF FutureEmpty
      <3>. QED
        BY <3>2 DEF FutureEmpty
    <2>. QED
      BY <2>1, <2>2, <2>3, <2>4 DEF CountIsAccepted, QuietDayCapped
  <1>7. ASSUME NEW t \in Threads, Zero(t)
        PROVE  FutureEmpty' /\ CountIsAccepted' /\ QuietDayCapped'
    <2>1. /\ t \in Resetting /\ count' = 0 /\ UNCHANGED <<day_start, accepted, raced>>
      BY <1>7 DEF Zero, Resetting
    <2>. QED
      BY <2>1 DEF FutureEmpty, CountIsAccepted, QuietDayCapped
  <1>8. ASSUME NEW t \in Threads, SwapCount(t)
        PROVE  FutureEmpty' /\ CountIsAccepted' /\ QuietDayCapped'
    <2>1. /\ count' = count + 1 /\ count < Limit /\ day_start' = day_start
          /\ accepted' = [accepted EXCEPT ![day_start] = @ + 1]
          /\ raced' = IF Resetting # {} THEN raced \union {day_start} ELSE raced
          /\ t \notin Resetting
      BY <1>8 DEF SwapCount, DailyLocals, Resetting
    <2>2. Resetting' = Resetting
      BY <1>8, <2>1, ResettingStep DEF SwapCount, Stage
    <2>3. /\ accepted'[day_start] = accepted[day_start] + 1
          /\ \A d \in Days : d # day_start => accepted'[d] = accepted[d]
      BY <1>1, <2>1
    <2>4. FutureEmpty'
      BY <1>1, <2>1, <2>3 DEF FutureEmpty
    <2>5. CountIsAccepted'
      BY <1>1, <2>1, <2>2, <2>3 DEF CountIsAccepted
    <2>6. day_start \notin raced' => accepted'[day_start] <= Limit
      BY <1>1, <2>1, <2>3 DEF CountIsAccepted
    <2>7. QuietDayCapped'
      BY <1>1, <2>1, <2>3, <2>6 DEF QuietDayCapped
    <2>. QED
      BY <2>4, <2>5, <2>7
  <1>9. CASE UNCHANGED vars
    BY <1>2, <1>9 DEF vars, Resetting
  <1>. QED
    BY <1>3, <1>4, <1>5, <1>6, <1>7, <1>8, <1>9 DEF Next, Step

\* The invariant holds in every state of every run.
LEMMA DailyInvariance == Spec => []DailyInv
  <1>1. DailyInv /\ [Next]_vars => DailyInv'
    BY DailyTypes, DailyCounts DEF DailyInv
  <1>. QED
    BY InitDaily, <1>1, PTL DEF Spec

\* The count never passes the limit, and day_start never the wall clock,
\* whatever load, store or exchange of whichever thread comes when
\* (DailyRateLimiter::check).
THEOREM DailyTypeCorrect == Spec => []TypeOK
  <1>1. DailyInv => TypeOK
    BY DEF DailyInv
  <1>. QED
    BY <1>1, DailyInvariance, PTL

\* A day whose reset no request overtook keeps its limit, for any number of
\* threads in check at once (DailyRateLimiter::check, reset_if_new_day).
THEOREM LimitHoldsOnQuietDays == Spec => []QuietDayCapped
  <1>1. DailyInv => QuietDayCapped
    BY DEF DailyInv
  <1>. QED
    BY <1>1, DailyInvariance, PTL

\* No request is turned away while its day has room, unless that day's reset
\* is under way or was overtaken (DailyRateLimiter::check).
THEOREM NoEarlyRefusal == Spec => RefusedOnlyWhenFull
  <1>1. ASSUME DailyInv, NEW t \in Threads, Reject(t)
        PROVE  \/ accepted[day_start] >= Limit
               \/ Resetting # {}
               \/ day_start \in raced
    BY <1>1 DEF DailyInv, Reject, CountIsAccepted
  <1>2. DailyInv /\ [Next]_vars =>
          [\A t \in Threads : Reject(t) => \/ accepted[day_start] >= Limit
                                           \/ Resetting # {}
                                           \/ day_start \in raced]_vars
    BY <1>1
  <1>. QED
    BY <1>2, DailyInvariance, PTL DEF Spec, RefusedOnlyWhenFull

(***************************************************************************)
(* Days with a late or overtaken reset.  Each thread that is about to zero *)
(* the count gives the day its allowance once more, and the day can grow   *)
(* no more such threads than it has when it begins: a thread becomes one   *)
(* only by beginning a day.  If all of them are, nobody is counting.       *)
(***************************************************************************)
AllowanceLeft ==
  \/ Resetting = Threads /\ accepted[day_start] = 0
  \/ accepted[day_start] + (Limit - count) + Limit * Cardinality(Resetting)
       <= Limit * Cardinality(Threads)

RacedInv == AllowanceLeft /\ RacedDayBounded

\* Multiples of the limit, one thread more or less.
LEMMA Allowances ==
  ASSUME NEW l \in Nat, NEW n \in Nat, NEW m \in Nat, m <= n
  PROVE  /\ l * n \in Nat /\ l * m \in Nat /\ l * m <= l * n
         /\ l * (m + 1) = l * m + l /\ l * (m - 1) = l * m - l
  OBVIOUS

\* The threads that reset the count are some of the threads.
LEMMA ResettingCount ==
  /\ IsFiniteSet(Resetting) /\ Cardinality(Resetting) \in Nat /\ Cardinality(Threads) \in Nat
  /\ Cardinality(Resetting) <= Cardinality(Threads)
  /\ Resetting # Threads => Cardinality(Resetting) + 1 <= Cardinality(Threads)
  <1>1. IsFiniteSet(Threads) /\ Resetting \in SUBSET Threads
    BY DailyLimiterAssumption DEF Resetting
  <1>2. IsFiniteSet(Resetting) /\ Cardinality(Resetting) <= Cardinality(Threads)
        /\ (Cardinality(Resetting) = Cardinality(Threads) => Resetting = Threads)
    BY <1>1, FS_Subset
  <1>3. Cardinality(Resetting) \in Nat /\ Cardinality(Threads) \in Nat
    BY <1>1, <1>2, FS_CardinalityType
  <1>. QED
    BY <1>2, <1>3

\* How many allowances a day may still get, after every step.
LEMMA AllowanceStep ==
  ASSUME DailyInv, RacedInv, [Next]_vars
  PROVE  RacedInv'
  <1>. USE DEF DailyInv, RacedInv
  <1>. DEFINE n == Cardinality(Threads)
  <1>1. /\ today \in Days /\ day_start \in Days /\ day_start \in Nat /\ count \in 0 .. Limit
        /\ Limit \in Nat \ {0} /\ accepted \in [Days -> Nat] /\ Days \subseteq Nat
        /\ n \in Nat
    BY DailyLimiterAssumption, ResettingCount DEF TypeOK, Days
  <1>2. ASSUME UNCHANGED <<count, day_start, accepted>>, Resetting' = Resetting
        PROVE  RacedInv'
    BY <1>2 DEF AllowanceLeft, RacedDayBounded
  <1>3. CASE Midnight
    BY <1>2, <1>3 DEF Midnight, Resetting
  <1>4. ASSUME NEW t \in Threads,
               ReadClock(t) \/ LoadDay(t) \/ Reject(t) \/ LoadCount(t) \/ Retry(t)
        PROVE  RacedInv'
    <2>1. UNCHANGED <<count, day_start, accepted>> /\ t \notin Resetting
      BY <1>4 DEF ReadClock, LoadDay, Reject, LoadCount, Retry, Resetting
    <2>2. \E s \in Stage \ {"zero"} : Goto(t, s)
      BY <1>4 DEF ReadClock, LoadDay, Reject, LoadCount, Retry, Stage
    <2>3. Resetting' = Resetting
      BY <2>1, <2>2, ResettingStep
    <2>. QED
      BY <1>2, <2>1, <2>3
  <1>5. ASSUME NEW t \in Threads, SwapDay(t), day_start # seen[t].loaded
        PROVE  RacedInv'
    <2>1. UNCHANGED <<count, day_start, accepted>> /\ t \notin Resetting
      BY <1>5 DEF SwapDay, Resetting
    <2>2. Resetting' = Resetting
      BY <1>5, <2>1, ResettingStep DEF SwapDay, Stage
    <2>. QED
      BY <1>2, <2>1, <2>2
  <1>6. ASSUME NEW t \in Threads, SwapDay(t), day_start = seen[t].loaded
        PROVE  RacedInv'
    <2>1. /\ day_start' = seen[t].today /\ seen[t].today > day_start /\ seen[t].today \in Days
          /\ UNCHANGED <<count, accepted>>
      BY <1>6 DEF SwapDay, DailyLocals, TypeOK
    <2>2. accepted[day_start'] = 0
      BY <2>1 DEF FutureEmpty
    <2>3. Resetting' = Resetting \union {t}
      BY <1>6, ResettingStep DEF SwapDay, Stage
    <2>4. RacedDayBounded'
      BY <2>1 DEF RacedDayBounded
    <2>5. CASE Resetting' = Threads
      BY <2>1, <2>2, <2>4, <2>5 DEF AllowanceLeft
    <2>6. CASE Resetting' # Threads
      <3>. DEFINE m == Cardinality(Resetting')
      <3>1. m \in Nat /\ m + 1 <= n
        <4>1. IsFiniteSet(Threads) /\ Resetting' \in SUBSET Threads
          BY DailyLimiterAssumption DEF Resetting
        <4>. QED
          BY <2>6, <4>1, <1>1, FS_Subset, FS_CardinalityType
      <3>2. Limit * (m + 1) <= Limit * n /\ Limit * (m + 1) = Limit * m + Limit
            /\ Limit * m \in Nat /\ Limit * n \in Nat
        BY <1>1, <3>1, Allowances
      <3>3. 0 + (Limit - count) + Limit * m <= Limit * n
        <4>. HIDE DEF m, n
        <4>. QED
          BY <1>1, <3>1, <3>2
      <3>. QED
        BY <2>1, <2>2, <2>4, <3>3 DEF AllowanceLeft
    <2>. QED
      BY <2>5, <2>6
  <1>7. ASSUME NEW t \in Threads, Zero(t)
        PROVE  RacedInv'
    <2>. DEFINE m == Cardinality(Resetting)
    <2>1. /\ t \in Resetting /\ count' = 0 /\ UNCHANGED <<day_start, accepted>>
          /\ Goto(t, "load_count")
      BY <1>7 DEF Zero, Resetting
    <2>2. Resetting' = Resetting \ {t}
      BY <2>1, ResettingStep DEF Stage
    <2>3. m \in Nat /\ m <= n /\ Cardinality(Resetting') = m - 1 /\ m - 1 \in Nat
      <3>1. IsFiniteSet(Resetting) /\ m \in Nat /\ m <= n
        BY ResettingCount
      <3>2. IsFiniteSet(Resetting') /\ Cardinality(Resetting') = m - 1
        BY <2>1, <2>2, <3>1, FS_RemoveElement
      <3>. QED
        BY <3>1, <3>2, FS_CardinalityType
    <2>4. /\ Limit * n \in Nat /\ Limit * m \in Nat /\ Limit * m <= Limit * n
          /\ Limit * (m - 1) = Limit * m - Limit
      BY <1>1, <2>3, Allowances
    <2>5. accepted[day_start] \in Nat
      BY <1>1
    <2>6. accepted[day_start] + (Limit - 0) + Limit * (m - 1) <= Limit * n
      <3>1. CASE Resetting = Threads /\ accepted[day_start] = 0
        <4>. HIDE DEF m, n
        <4>. QED
          BY <1>1, <2>4, <3>1
      <3>2. CASE accepted[day_start] + (Limit - count) + Limit * m <= Limit * n
        <4>. HIDE DEF m, n
        <4>. QED
          BY <1>1, <2>4, <2>5, <3>2
      <3>. QED
        BY <3>1, <3>2 DEF AllowanceLeft
    <2>. QED
      BY <2>1, <2>3, <2>6 DEF AllowanceLeft, RacedDayBounded
  <1>8. ASSUME NEW t \in Threads, SwapCount(t)
        PROVE  RacedInv'
    <2>. DEFINE m == Cardinality(Resetting)
    <2>1. /\ count' = count + 1 /\ count < Limit /\ day_start' = day_start
          /\ accepted' = [accepted EXCEPT ![day_start] = @ + 1]
          /\ t \notin Resetting
      BY <1>8 DEF SwapCount, DailyLocals, Resetting
    <2>2. Resetting' = Resetting
      BY <1>8, <2>1, ResettingStep DEF SwapCount, Stage
    <2>3. /\ accepted'[day_start] = accepted[day_start] + 1 /\ accepted[day_start] \in Nat
          /\ \A d \in Days : d # day_start => accepted'[d] = accepted[d]
      BY <1>1, <2>1
    <2>4. m \in Nat /\ m <= n
      BY ResettingCount
    <2>5. Limit * n \in Nat /\ Limit * m \in Nat
      BY <1>1, <2>4, Allowances
    <2>6. accepted[day_start] + (Limit - count) + Limit * m <= Limit * n
      BY <2>1 DEF AllowanceLeft
    <2>7. /\ accepted'[day_start] + (Limit - count') + Limit * m <= Limit * n
          /\ accepted'[day_start] <= Limit * n
      <3>. HIDE DEF m, n
      <3>. QED
        BY <1>1, <2>1, <2>3, <2>5, <2>6
    <2>8. AllowanceLeft'
      BY <2>1, <2>2, <2>7 DEF AllowanceLeft
    <2>9. RacedDayBounded'
      BY <2>3, <2>7 DEF RacedDayBounded
    <2>. QED
      BY <2>8, <2>9
  <1>9. CASE UNCHANGED vars
    BY <1>2, <1>9 DEF vars, Resetting
  <1>. QED
    BY <1>3, <1>4, <1>5, <1>6, <1>7, <1>8, <1>9 DEF Next, Step

\* A day whose reset is late, or overtaken by requests, gives no more than one
\* allowance to each thread in check (reset_if_new_day stores the count after
\* it has exchanged the day).
THEOREM RacedDaysAreBounded == Spec => []RacedDayBounded
  <1>1. Init => RacedInv
    <2>. SUFFICES ASSUME Init PROVE RacedInv
      OBVIOUS
    <2>1. /\ Limit \in Nat \ {0} /\ Cardinality(Threads) \in Nat
          /\ count = 0 /\ \A d \in Days : accepted[d] = 0
          /\ day_start \in Days /\ Resetting = {}
      BY DailyLimiterAssumption, ResettingCount DEF Init, Days, Resetting
    <2>2. Cardinality(Resetting) = 0
      BY <2>1, FS_EmptySet
    <2>3. Limit * Cardinality(Threads) \in Nat /\ Limit * 0 = 0
      BY <2>1
    <2>4. RacedDayBounded
      BY <2>1, <2>3 DEF RacedDayBounded
    <2>5. CASE Threads = {}
      BY <2>1, <2>4, <2>5 DEF AllowanceLeft, RacedInv
    <2>6. CASE Threads # {}
      <3>1. 1 <= Cardinality(Threads)
        BY <2>1, <2>6, ResettingCount, FS_EmptySet
      <3>2. Limit * 1 <= Limit * Cardinality(Threads) /\ Limit * 1 = Limit
        BY <2>1, <3>1
      <3>. QED
        BY <2>1, <2>2, <2>3, <2>4, <3>2 DEF AllowanceLeft, RacedInv
    <2>. QED
      BY <2>5, <2>6
  <1>2. DailyInv /\ RacedInv /\ [Next]_vars => RacedInv'
    BY AllowanceStep
  <1>3. RacedInv => RacedDayBounded
    BY DEF RacedInv
  <1>. QED
    BY <1>1, <1>2, <1>3, DailyInvariance, PTL DEF Spec

-----------------------------------------------------------------------------
(* Tokens per minute (TokenBucket).                                        *)

(***************************************************************************)
(* The inductive invariant.  A thread that is about to store a refill read *)
(* a clock no later than the present one.                                  *)
(***************************************************************************)
ClockRead == \A t \in Callers : local[t].now <= now

BucketInv == BucketTypeOK /\ ClockRead /\ TokensAccountedFor

\* The invariant holds at the start.
LEMMA InitBucket == BucketInit => BucketInv
  <1>. SUFFICES ASSUME BucketInit PROVE BucketInv
    OBVIOUS
  <1>. USE TokenBucketAssumption DEF BucketInit
  <1>1. local \in [Callers -> [now : 0 .. MaxTime, last : 0 .. MaxTime, tokens : 0 .. PerMinute]]
    OBVIOUS
  <1>2. BucketTypeOK
    <2>1. /\ now \in 0 .. MaxTime /\ tokens \in 0 .. PerMinute /\ last_refill \in 0 .. now
          /\ taken \in Nat /\ asked \in Nat /\ unchecked \subseteq Callers
      OBVIOUS
    <2>3. overtaken \in BOOLEAN
      OBVIOUS
    <2>2. /\ at \in [Callers -> BucketStage] /\ call \in [Callers -> {"check", "consume"}]
          /\ amount \in [Callers -> Amounts \union {0}]
      BY DEF BucketStage
    <2>. QED
      BY <1>1, <2>1, <2>2, <2>3 DEF BucketTypeOK
  <1>3. ClockRead /\ TokensAccountedFor
    BY DEF ClockRead, TokensAccountedFor
  <1>. QED
    BY <1>2, <1>3 DEF BucketInv

\* An amount is a number of tokens.
LEMMA AmountType == ASSUME BucketTypeOK, NEW t \in Callers PROVE amount[t] \in Nat
  <1>1. amount[t] \in Amounts \union {0}
    BY DEF BucketTypeOK
  <1>2. \A n \in Amounts : n \in Nat
    BY TokenBucketAssumption
  <1>. QED
    BY <1>1, <1>2

\* Every step keeps the types.
LEMMA BucketTypes ==
  ASSUME BucketTypeOK, ClockRead, [BucketNext]_bucketVars
  PROVE  BucketTypeOK' /\ ClockRead'
  <1>. USE TokenBucketAssumption DEF BucketTypeOK, ClockRead, BucketStage, Move, bucket, ghosts
  <1>1. CASE Tick
    BY <1>1 DEF Tick
  <1>2. ASSUME NEW t \in Callers, NEW n \in Amounts, Begin(t, n) PROVE BucketTypeOK' /\ ClockRead'
    BY <1>2 DEF Begin
  <1>3. ASSUME NEW t \in Callers, LoadRefill(t) PROVE BucketTypeOK' /\ ClockRead'
    BY <1>3 DEF LoadRefill
  <1>4. ASSUME NEW t \in Callers, SwapRefill(t) PROVE BucketTypeOK' /\ ClockRead'
    <2>1. /\ last_refill' \in {last_refill, local[t].now}
          /\ UNCHANGED <<now, tokens, call, amount, local, ghosts>>
          /\ \/ at' = [at EXCEPT ![t] = "refill"]
             \/ at' = [at EXCEPT ![t] = "read"]
      BY <1>4 DEF SwapRefill
    <2>2. last_refill' \in 0 .. now
      BY <2>1
    <2>. QED
      BY <2>1, <2>2
  <1>5. ASSUME NEW t \in Callers, Refill(t) PROVE BucketTypeOK' /\ ClockRead'
    BY <1>5 DEF Refill
  <1>6. ASSUME NEW t \in Callers, Check(t) PROVE BucketTypeOK' /\ ClockRead'
    <2>1. /\ UNCHANGED <<now, tokens, last_refill, amount, local, ghosts>>
          /\ at' = [at EXCEPT ![t] = "ready"]
          /\ \/ call' = [call EXCEPT ![t] = "consume"]
             \/ call' = [call EXCEPT ![t] = "check"]
      BY <1>6 DEF Check
    <2>. QED
      BY <2>1
  <1>7. ASSUME NEW t \in Callers, LoadTokens(t) PROVE BucketTypeOK' /\ ClockRead'
    BY <1>7 DEF LoadTokens
  <1>8. ASSUME NEW t \in Callers, SwapTokens(t) PROVE BucketTypeOK' /\ ClockRead'
    <2>. DEFINE n == Least(amount[t], local[t].tokens)
    <2>1. amount[t] \in Nat /\ local[t].tokens \in 0 .. PerMinute
      BY AmountType
    <2>2. n \in Nat /\ n <= local[t].tokens
      BY <2>1 DEF Least
    <2>3. /\ tokens = local[t].tokens
          /\ tokens' = tokens - n /\ taken' = taken + n /\ asked' \in {asked, asked + amount[t]}
          /\ overtaken' \in BOOLEAN /\ unchecked' = unchecked \ {t}
          /\ call' = [call EXCEPT ![t] = "check"] /\ at' = [at EXCEPT ![t] = "ready"]
          /\ UNCHANGED <<now, last_refill, amount, local>>
      BY <1>8 DEF SwapTokens
    <2>. HIDE DEF n
    <2>. QED
      BY <2>1, <2>2, <2>3
  <1>9. ASSUME NEW t \in Callers, RetryTokens(t) \/ Abandon(t) \/ SkipCheck(t)
        PROVE  BucketTypeOK' /\ ClockRead'
    <2>1. UNCHANGED <<now, tokens, last_refill, amount, local, taken, asked, overtaken>>
      BY <1>9 DEF RetryTokens, Abandon, SkipCheck
    <2>2. at' \in [Callers -> BucketStage] /\ call' \in [Callers -> {"check", "consume"}]
      BY <1>9 DEF RetryTokens, Abandon, SkipCheck
    <2>3. unchecked' \subseteq Callers
      BY <1>9 DEF RetryTokens, Abandon, SkipCheck
    <2>. QED
      BY <2>1, <2>2, <2>3
  <1>10. CASE UNCHANGED bucketVars
    BY <1>10 DEF bucketVars
  <1>. QED
    BY <1>1, <1>2, <1>3, <1>4, <1>5, <1>6, <1>7, <1>8, <1>9, <1>10 DEF BucketNext

\* Who is refilling, after a step of one thread.
LEMMA RefillingStep ==
  ASSUME BucketTypeOK, NEW t \in Callers, NEW s \in BucketStage, Move(t, s)
  PROVE  Refilling' = IF s = "refill" THEN Refilling \union {t} ELSE Refilling \ {t}
  BY DEF BucketTypeOK, Move, Refilling

\* No step loses a token or takes one twice.
LEMMA BucketAccounts ==
  ASSUME BucketTypeOK, TokensAccountedFor, [BucketNext]_bucketVars
  PROVE  TokensAccountedFor'
  <1>1. ASSUME UNCHANGED <<tokens, taken, overtaken>>, Refilling \subseteq Refilling'
        PROVE  TokensAccountedFor'
    BY <1>1 DEF TokensAccountedFor
  <1>2. CASE Tick
    BY <1>1, <1>2 DEF Tick, bucket, ghosts, Refilling
  <1>3. ASSUME NEW t \in Callers, at[t] # "refill", UNCHANGED <<tokens, taken, overtaken>>,
               \/ \E n \in Amounts : Begin(t, n)
               \/ LoadRefill(t) \/ SwapRefill(t) \/ Check(t)
               \/ LoadTokens(t) \/ RetryTokens(t)
        PROVE  TokensAccountedFor'
    <2>1. \E s \in BucketStage : Move(t, s)
      BY <1>3 DEF Begin, LoadRefill, SwapRefill, Check, LoadTokens, RetryTokens, BucketStage
    <2>2. t \notin Refilling
      BY <1>3 DEF Refilling
    <2>. QED
      BY <1>1, <1>3, <2>1, <2>2, RefillingStep
  <1>4. ASSUME NEW t \in Callers,
               \/ \E n \in Amounts : Begin(t, n)
               \/ LoadRefill(t) \/ SwapRefill(t) \/ Check(t)
               \/ LoadTokens(t) \/ RetryTokens(t)
        PROVE  at[t] # "refill" /\ UNCHANGED <<tokens, taken, overtaken>>
    BY <1>4 DEF Begin, LoadRefill, SwapRefill, Check, LoadTokens, RetryTokens, bucket, ghosts
  <1>5. ASSUME NEW t \in Callers, Refill(t) PROVE TokensAccountedFor'
    <2>1. tokens' = PerMinute /\ taken' = 0
      BY <1>5 DEF Refill
    <2>. QED
      BY <2>1, TokenBucketAssumption DEF TokensAccountedFor
  <1>6. ASSUME NEW t \in Callers, SwapTokens(t) PROVE TokensAccountedFor'
    <2>1. /\ amount[t] \in Nat /\ local[t].tokens \in 0 .. PerMinute
          /\ tokens \in Nat /\ taken \in Nat /\ PerMinute \in Nat
      BY AmountType, TokenBucketAssumption DEF BucketTypeOK
    <2>2. PICK n \in Nat : tokens' = tokens - n /\ taken' = taken + n
      BY <1>6, <2>1 DEF SwapTokens, Least
    <2>3. overtaken' = (overtaken \/ Refilling # {})
      BY <1>6 DEF SwapTokens
    <2>4. SUFFICES ASSUME ~overtaken' PROVE tokens' + taken' = PerMinute
      BY DEF TokensAccountedFor
    <2>5. ~overtaken /\ Refilling = {}
      BY <2>3, <2>4
    <2>. QED
      BY <2>1, <2>2, <2>5 DEF TokensAccountedFor
  <1>7. ASSUME NEW t \in Callers, Abandon(t) \/ SkipCheck(t) PROVE TokensAccountedFor'
    BY <1>1, <1>7 DEF Abandon, SkipCheck, bucket, ghosts, Refilling
  <1>8. CASE UNCHANGED bucketVars
    BY <1>1, <1>8 DEF bucketVars, Refilling
  <1>. QED
    BY <1>2, <1>3, <1>4, <1>5, <1>6, <1>7, <1>8 DEF BucketNext

\* The invariant holds in every state of every run.
LEMMA BucketInvariance == BucketSpec => []BucketInv
  <1>1. BucketInv /\ [BucketNext]_bucketVars => BucketInv'
    BY BucketTypes, BucketAccounts DEF BucketInv
  <1>. QED
    BY InitBucket, <1>1, PTL DEF BucketSpec

\* Whatever the threads' loads, stores and exchanges do to each other, consume
\* does not underflow the u32 and no refill overfills the bucket
\* (TokenRateLimiter::consume, refill_if_needed).
THEOREM BucketTypeCorrect == BucketSpec => []BucketTypeOK
  <1>1. BucketInv => BucketTypeOK
    BY DEF BucketInv
  <1>. QED
    BY <1>1, BucketInvariance, PTL

\* For any number of consumers that compete, each token is taken once: what is
\* left and what was taken add up to the limit, in every window whose refill
\* no consumer overtook (TokenRateLimiter::consume).
THEOREM TokensAddUp == BucketSpec => []TokensAccountedFor
  <1>1. BucketInv => TokensAccountedFor
    BY DEF BucketInv
  <1>. QED
    BY <1>1, BucketInvariance, PTL

(***************************************************************************)
(* Admitted together.  While tokens are left, what checked requests asked  *)
(* for since the refill has been taken; the one that takes the last of     *)
(* them and those admitted before it are all that can ask for more (Debt). *)
(***************************************************************************)
Consuming == {t \in Callers : call[t] = "consume" /\ t \notin unchecked}

CallsFit ==
  \A t \in Callers : /\ at[t] # "ready" => amount[t] \in Amounts
                     /\ at[t] = "swap_tokens" => call[t] = "consume"

Debt ==
  ~overtaken =>
    IF tokens > 0 THEN asked + tokens <= PerMinute
    ELSE asked + Cardinality(Consuming) * Largest
           < PerMinute + Cardinality(Callers) * Largest

DebtInv == CallsFit /\ Debt

\* Induction over a finite set, with the set F of the subsets for which the
\* claim holds: a smallest subset outside F would be one element more than one
\* inside.
LEMMA FiniteSetsGrow ==
  ASSUME NEW S, IsFiniteSet(S), NEW F, {} \in F,
         \A T \in SUBSET S : \A x \in S \ T : T \in F => T \union {x} \in F
  PROVE  S \in F
  <1>. DEFINE Bad == {T \in SUBSET S : T \notin F}
  <1>. SUFFICES ASSUME S \notin F PROVE FALSE
    OBVIOUS
  <1>1. Bad \subseteq FiniteSubsetsOf(S) /\ Bad # {}
    BY FS_Subset DEF FiniteSubsetsOf
  <1>2. PICK T \in Bad : \A U \in Bad : <<U, T>> \notin StrictSubsetOrdering(S)
    <2>. HIDE DEF Bad
    <2>. QED
      BY <1>1, FS_StrictSubsetOrderingWellFounded, WFMin
  <1>3. PICK x : x \in T
    BY <1>2
  <1>4. <<T \ {x}, T>> \in StrictSubsetOrdering(S)
    BY <1>2, <1>3 DEF StrictSubsetOrdering
  <1>5. T \ {x} \in F
    BY <1>2, <1>4
  <1>6. (T \ {x}) \union {x} = T /\ x \in S \ (T \ {x})
    BY <1>2, <1>3
  <1>. QED
    BY <1>2, <1>5, <1>6

\* There is a largest amount.
LEMMA LargestFacts ==
  /\ Largest \in Nat \ {0} /\ Largest \in Amounts
  /\ \A n \in Amounts : n <= Largest
  <1>. USE TokenBucketAssumption
  <1>. DEFINE F == {T \in SUBSET Amounts :
                      T # {} => \E n \in T : \A m \in T : m <= n}
  <1>1. {} \in F
    OBVIOUS
  <1>2. ASSUME NEW T \in SUBSET Amounts, NEW x \in Amounts \ T, T \in F
        PROVE  T \union {x} \in F
    <2>1. CASE T = {}
      BY <2>1
    <2>2. CASE T # {}
      <3>1. PICK n \in T : \A m \in T : m <= n
        BY <1>2, <2>2
      <3>2. n \in Nat /\ x \in Nat /\ \A m \in T : m \in Nat
        OBVIOUS
      <3>3. CASE x <= n
        BY <3>1, <3>3
      <3>4. CASE ~(x <= n)
        <4>1. \A m \in T \union {x} : m <= x
          BY <3>1, <3>2, <3>4
        <4>. QED
          BY <4>1
      <3>. QED
        BY <3>3, <3>4
    <2>. QED
      BY <2>1, <2>2
  <1>3. Amounts \in F
    <2>. HIDE DEF F
    <2>. QED
      BY <1>1, <1>2, FiniteSetsGrow
  <1>4. \E n \in Amounts : \A m \in Amounts : m <= n
    BY <1>3
  <1>. QED
    BY <1>4 DEF Largest

\* Multiples of the largest amount, one consumer less.
LEMMA Debts ==
  ASSUME NEW n \in Nat, NEW m \in Nat, m <= n
  PROVE  /\ n * Largest \in Nat /\ m * Largest \in Nat /\ m * Largest <= n * Largest
         /\ (m - 1) * Largest = m * Largest - Largest
         /\ m < n => m * Largest + Largest <= n * Largest
  <1>1. Largest \in Nat
    BY LargestFacts
  <1>2. ASSUME NEW l \in Nat
        PROVE  /\ n * l \in Nat /\ m * l \in Nat /\ m * l <= n * l
               /\ (m - 1) * l = m * l - l
               /\ m < n => m * l + l <= n * l
    <2>1. n * l \in Nat /\ m * l \in Nat /\ m * l <= n * l /\ (m - 1) * l = m * l - l
      OBVIOUS
    <2>2. ASSUME m < n PROVE m * l + l <= n * l
      <3>1. (m + 1) * l <= n * l /\ (m + 1) * l = m * l + l
        BY <2>2
      <3>. QED
        BY <3>1
    <2>. QED
      BY <2>1, <2>2
  <1>. QED
    BY <1>1, <1>2

\* The consumers are some of the callers.
LEMMA ConsumingCount ==
  /\ IsFiniteSet(Consuming) /\ Cardinality(Consuming) \in Nat /\ Cardinality(Callers) \in Nat
  /\ Cardinality(Consuming) <= Cardinality(Callers)
  <1>1. IsFiniteSet(Callers) /\ Consuming \in SUBSET Callers
    BY TokenBucketAssumption DEF Consuming
  <1>. QED
    BY <1>1, FS_Subset, FS_CardinalityType

\* No consumer joins without a token in the bucket.
LEMMA ConsumingSame ==
  ASSUME Debt, UNCHANGED <<tokens, asked, overtaken>>, Consuming' \in SUBSET Consuming,
         asked \in Nat
  PROVE  Debt'
  <1>. DEFINE n == Cardinality(Consuming)
              m == Cardinality(Consuming')
  <1>1. n \in Nat /\ m \in Nat /\ m <= n
    BY ConsumingCount, FS_Subset, FS_CardinalityType
  <1>2. n * Largest \in Nat /\ m * Largest \in Nat /\ m * Largest <= n * Largest
    BY <1>1, Debts
  <1>3. Cardinality(Callers) * Largest \in Nat /\ PerMinute \in Nat
    BY ConsumingCount, Debts, TokenBucketAssumption
  <1>4. asked + n * Largest < PerMinute + Cardinality(Callers) * Largest
          => asked + m * Largest < PerMinute + Cardinality(Callers) * Largest
    <2>. HIDE DEF n, m
    <2>. QED
      BY <1>2, <1>3
  <1>. QED
    BY <1>4 DEF Debt

\* Amounts and calls fit, after every step.
LEMMA CallsStep ==
  ASSUME BucketTypeOK, CallsFit, [BucketNext]_bucketVars
  PROVE  CallsFit'
  <1>. USE DEF BucketTypeOK, CallsFit, Move, bucket, ghosts
  <1>1. CASE Tick \/ UNCHANGED bucketVars
    BY <1>1 DEF Tick, bucketVars
  <1>2. ASSUME NEW t \in Callers, NEW n \in Amounts, Begin(t, n) PROVE CallsFit'
    BY <1>2 DEF Begin
  <1>3. ASSUME NEW t \in Callers,
               LoadRefill(t) \/ SwapRefill(t) \/ Refill(t) \/ LoadTokens(t) \/ RetryTokens(t)
        PROVE  CallsFit'
    <2>1. at[t] # "ready" /\ UNCHANGED <<call, amount>>
      BY <1>3 DEF LoadRefill, SwapRefill, Refill, LoadTokens, RetryTokens
    <2>2. \E s \in BucketStage \ {"ready"} :
            at' = [at EXCEPT ![t] = s] /\ (s = "swap_tokens" => call[t] = "consume")
      BY <1>3 DEF LoadRefill, SwapRefill, Refill, LoadTokens, RetryTokens, BucketStage
    <2>. QED
      BY <2>1, <2>2
  <1>4. ASSUME NEW t \in Callers, Check(t) \/ SwapTokens(t) \/ Abandon(t) \/ SkipCheck(t)
        PROVE  CallsFit'
    <2>1. UNCHANGED amount /\ (at' = at \/ at' = [at EXCEPT ![t] = "ready"])
      BY <1>4 DEF Check, SwapTokens, Abandon, SkipCheck
    <2>2. \E c \in {"check", "consume"} : call' = [call EXCEPT ![t] = c]
      BY <1>4 DEF Check, SwapTokens, Abandon, SkipCheck
    <2>3. at'[t] = "ready" /\ \A u \in Callers \ {t} : at'[u] = at[u] /\ call'[u] = call[u]
      BY <1>4, <2>1, <2>2 DEF Abandon, SkipCheck, Check, SwapTokens
    <2>. QED
      BY <2>1, <2>3
  <1>. QED
    BY <1>1, <1>2, <1>3, <1>4 DEF BucketNext

\* What is owed, after every step.
LEMMA DebtStep ==
  ASSUME BucketTypeOK, DebtInv, [BucketNext]_bucketVars
  PROVE  DebtInv'
  <1>. USE DEF DebtInv
  <1>0. CallsFit'
    BY CallsStep
  <1>1. /\ tokens \in 0 .. PerMinute /\ asked \in Nat /\ PerMinute \in Nat \ {0}
        /\ Cardinality(Callers) * Largest \in Nat /\ Largest \in Nat \ {0}
    BY TokenBucketAssumption, ConsumingCount, Debts, LargestFacts DEF BucketTypeOK
  <1>2. ASSUME UNCHANGED <<tokens, asked, overtaken, call, unchecked>> PROVE Debt'
    BY <1>1, <1>2, ConsumingSame DEF Consuming
  <1>3. ASSUME Tick \/ UNCHANGED bucketVars PROVE Debt'
    BY <1>2, <1>3 DEF Tick, bucketVars, bucket, ghosts
  <1>4. ASSUME NEW t \in Callers,
               \/ \E n \in Amounts : Begin(t, n)
               \/ LoadRefill(t) \/ SwapRefill(t) \/ LoadTokens(t) \/ RetryTokens(t)
        PROVE  Debt'
    BY <1>2, <1>4 DEF Begin, LoadRefill, SwapRefill, LoadTokens, RetryTokens, bucket, ghosts
  <1>5. ASSUME NEW t \in Callers, Refill(t) PROVE Debt'
    BY <1>1, <1>5 DEF Refill, Debt
  <1>6. ASSUME NEW t \in Callers, Abandon(t) \/ SkipCheck(t) PROVE Debt'
    <2>1. Consuming' \subseteq Consuming /\ UNCHANGED <<tokens, asked, overtaken>>
      BY <1>6 DEF Abandon, SkipCheck, Consuming, BucketTypeOK, bucket
    <2>. QED
      BY <1>1, <2>1, ConsumingSame
  <1>7. ASSUME NEW t \in Callers, Check(t) PROVE Debt'
    <2>1. UNCHANGED <<tokens, asked, overtaken>>
      BY <1>7 DEF Check, bucket, ghosts
    <2>2. CASE tokens > 0
      BY <2>1, <2>2 DEF Debt
    <2>3. CASE ~(tokens > 0)
      <3>1. amount[t] \in Nat \ {0}
        BY <1>7, TokenBucketAssumption DEF Check, CallsFit
      <3>2. ~(tokens >= amount[t])
        BY <1>1, <2>3, <3>1
      <3>3. call' = [call EXCEPT ![t] = "check"] /\ unchecked' = unchecked
        BY <1>7, <3>2 DEF Check, ghosts
      <3>4. Consuming' \subseteq Consuming
        BY <3>3 DEF Consuming, BucketTypeOK
      <3>. QED
        BY <1>1, <2>1, <3>4, ConsumingSame
    <2>. QED
      BY <2>2, <2>3
  <1>8. ASSUME NEW t \in Callers, SwapTokens(t), t \notin unchecked PROVE Debt'
    <2>. DEFINE n == Cardinality(Consuming)
                b == Cardinality(Callers)
    <2>1. /\ amount[t] \in Amounts /\ amount[t] \in Nat /\ amount[t] <= Largest
          /\ t \in Consuming
      BY <1>8, TokenBucketAssumption, LargestFacts DEF SwapTokens, CallsFit, Consuming
    <2>2. /\ tokens' = tokens - Least(amount[t], tokens)
          /\ asked' = asked + amount[t]
          /\ overtaken' = (overtaken \/ Refilling # {})
          /\ call' = [call EXCEPT ![t] = "check"]
          /\ unchecked' = unchecked \ {t}
      BY <1>8 DEF SwapTokens
    <2>3. Consuming' = Consuming \ {t}
      BY <2>2 DEF Consuming, BucketTypeOK
    <2>4. /\ n \in Nat /\ b \in Nat /\ n <= b /\ Cardinality(Consuming') = n - 1
          /\ n - 1 \in Nat /\ n - 1 < b
      <3>1. IsFiniteSet(Consuming) /\ n \in Nat /\ b \in Nat /\ n <= b
        BY ConsumingCount
      <3>2. IsFiniteSet(Consuming') /\ Cardinality(Consuming') = n - 1
        BY <2>1, <2>3, <3>1, FS_RemoveElement
      <3>3. Cardinality(Consuming') \in Nat
        BY <3>2, FS_CardinalityType
      <3>. QED
        BY <3>1, <3>2, <3>3
    <2>5. /\ (n - 1) * Largest = n * Largest - Largest
          /\ n * Largest \in Nat /\ b * Largest \in Nat
          /\ (n - 1) * Largest + Largest <= b * Largest
          /\ (n - 1) * Largest \in Nat
      <3>. HIDE DEF n, b
      <3>1. (n - 1) * Largest = n * Largest - Largest
            /\ n * Largest \in Nat /\ b * Largest \in Nat
        BY <2>4, Debts
      <3>2. (n - 1) * Largest \in Nat /\ (n - 1) * Largest + Largest <= b * Largest
        BY <2>4, Debts
      <3>. QED
        BY <3>1, <3>2
    <2>6. SUFFICES ASSUME ~overtaken'
                   PROVE  IF tokens' > 0 THEN asked' + tokens' <= PerMinute
                          ELSE asked' + (n - 1) * Largest < PerMinute + b * Largest
      BY <2>4 DEF Debt
    <2>7. ~overtaken
      BY <2>2, <2>6
    <2>8. CASE tokens > 0
      <3>1. asked + tokens <= PerMinute
        BY <2>7, <2>8 DEF Debt
      <3>2. CASE amount[t] < tokens
        BY <1>1, <2>1, <2>2, <3>1, <3>2 DEF Least
      <3>3. CASE ~(amount[t] < tokens)
        <4>1. tokens' = 0
          BY <1>1, <2>1, <2>2, <3>3 DEF Least
        <4>2. asked' < PerMinute + Largest
          BY <1>1, <2>1, <2>2, <2>8, <3>1
        <4>3. asked' + (n - 1) * Largest < PerMinute + b * Largest
          <5>. HIDE DEF n, b
          <5>1. asked' \in Nat
            BY <1>1, <2>1, <2>2
          <5>. QED
            BY <1>1, <2>5, <4>2, <5>1
        <4>. QED
          BY <4>1, <4>3
      <3>. QED
        BY <3>2, <3>3
    <2>9. CASE ~(tokens > 0)
      <3>1. asked + n * Largest < PerMinute + b * Largest
        BY <2>7, <2>9 DEF Debt
      <3>2. tokens' = 0
        BY <1>1, <2>1, <2>2, <2>9 DEF Least
      <3>3. asked' + (n - 1) * Largest < PerMinute + b * Largest
        <4>. HIDE DEF n, b
        <4>. QED
          BY <1>1, <2>1, <2>2, <2>5, <3>1
      <3>. QED
        BY <3>2, <3>3
    <2>. QED
      BY <2>8, <2>9
  <1>9. ASSUME NEW t \in Callers, SwapTokens(t), t \in unchecked PROVE Debt'
    <2>. DEFINE n == Cardinality(Consuming)
                b == Cardinality(Callers)
    <2>1. /\ tokens' = tokens - Least(amount[t], tokens)
          /\ asked' = asked
          /\ overtaken' = (overtaken \/ Refilling # {})
          /\ Consuming' = Consuming
      BY <1>9 DEF SwapTokens, Consuming, BucketTypeOK
    <2>2. amount[t] \in Nat
      BY <1>9, TokenBucketAssumption DEF SwapTokens, CallsFit
    <2>3. tokens' \in Nat /\ tokens' <= tokens
      BY <1>1, <2>1, <2>2 DEF Least
    <2>4. n \in Nat /\ b \in Nat /\ n < b
      <3>1. IsFiniteSet(Callers \ {t}) /\ Cardinality(Callers \ {t}) = b - 1 /\ b \in Nat
        BY ConsumingCount, TokenBucketAssumption, FS_RemoveElement, FS_Subset
      <3>2. Consuming \subseteq Callers \ {t}
        BY <1>9 DEF Consuming
      <3>3. n <= b - 1 /\ n \in Nat
        BY <3>1, <3>2, FS_Subset, FS_CardinalityType
      <3>. QED
        BY <3>1, <3>3
    <2>5. n * Largest \in Nat /\ b * Largest \in Nat /\ n * Largest + Largest <= b * Largest
      BY <2>4, Debts
    <2>. HIDE DEF n, b
    <2>6. SUFFICES ASSUME ~overtaken
                   PROVE  IF tokens' > 0 THEN asked + tokens' <= PerMinute
                          ELSE asked + n * Largest < PerMinute + b * Largest
      BY <2>1 DEF Debt, n, b
    <2>7. CASE tokens > 0
      <3>1. tokens \in Nat /\ asked \in Nat /\ PerMinute \in Nat /\ Largest \in Nat \ {0}
        BY <1>1
      <3>2. asked + tokens <= PerMinute
        BY <2>6, <2>7 DEF Debt
      <3>3. ASSUME NEW x \in Nat, x <= tokens PROVE asked + x <= PerMinute
        BY <3>1, <3>2, <3>3
      <3>4. asked + tokens' <= PerMinute
        BY <2>3, <3>3
      <3>5. asked < PerMinute
        BY <2>7, <3>1, <3>2
      <3>6. n * Largest < b * Largest
        BY <2>5, <3>1
      <3>7. ASSUME NEW x \in Nat, NEW y \in Nat, x < y PROVE asked + x < PerMinute + y
        BY <3>1, <3>5, <3>7
      <3>. QED
        BY <2>5, <3>4, <3>6, <3>7
    <2>8. CASE ~(tokens > 0)
      <3>1. asked + n * Largest < PerMinute + b * Largest
        BY <2>6, <2>8 DEF Debt, n, b
      <3>2. ~(tokens' > 0)
        BY <1>1, <2>3, <2>8
      <3>. QED
        BY <3>1, <3>2
    <2>. QED
      BY <2>7, <2>8
  <1>. QED
    BY <1>0, <1>3, <1>4, <1>5, <1>6, <1>7, <1>8, <1>9 DEF BucketNext

\* Requests that passed a check overdraw a minute by less than one request of
\* each thread (check reserves nothing, consume takes what is there and drops the
\* rest), whatever requests without an estimate, which skip the check, take out.
THEOREM OverdraftIsBounded == BucketSpec => []AdmittedBounded
  <1>1. BucketInit => DebtInv
    BY TokenBucketAssumption DEF BucketInit, DebtInv, CallsFit, Debt
  <1>2. BucketTypeOK /\ DebtInv /\ [BucketNext]_bucketVars => DebtInv'
    BY DebtStep
  <1>3. BucketTypeOK /\ DebtInv => AdmittedBounded
    <2>. SUFFICES ASSUME BucketTypeOK, DebtInv, ~overtaken
                  PROVE  asked < PerMinute + Cardinality(Callers) * Largest
      BY DEF AdmittedBounded
    <2>. DEFINE n == Cardinality(Consuming)
                b == Cardinality(Callers)
    <2>1. /\ n \in Nat /\ b \in Nat /\ n <= b
          /\ tokens \in 0 .. PerMinute /\ asked \in Nat /\ PerMinute \in Nat \ {0}
      BY TokenBucketAssumption, ConsumingCount DEF BucketTypeOK
    <2>2. n * Largest \in Nat /\ b * Largest \in Nat
      BY <2>1, Debts
    <2>3. IF tokens > 0 THEN asked + tokens <= PerMinute
          ELSE asked + n * Largest < PerMinute + b * Largest
      BY DEF DebtInv, Debt
    <2>. HIDE DEF n, b
    <2>4. asked < PerMinute + b * Largest
      BY <2>1, <2>2, <2>3
    <2>. QED
      BY <2>4 DEF b
  <1>4. BucketInv => BucketTypeOK
    BY DEF BucketInv
  <1>. QED
    BY <1>1, <1>2, <1>3, <1>4, BucketInvariance, PTL DEF BucketSpec

-----------------------------------------------------------------------------
(* Budget windows (BudgetCalendar).                                        *)

\* Whole days: the day of an instant is the one it falls in.
LEMMA WholeDays ==
  ASSUME NEW x \in Int
  PROVE  /\ x \div PerDay \in Int
         /\ (x \div PerDay) * PerDay <= x
         /\ x < (x \div PerDay) * PerDay + PerDay
  BY BudgetWindowAssumption

\* n whole days have passed exactly when n days' time has.
LEMMA DaysPassed ==
  ASSUME NEW x \in Int, NEW n \in Int
  PROVE  x \div PerDay >= n <=> x >= n * PerDay
  <1>. DEFINE q == x \div PerDay
  <1>1. q \in Int /\ q * PerDay <= x /\ x < q * PerDay + PerDay /\ PerDay \in Nat \ {0}
    BY WholeDays, BudgetWindowAssumption
  <1>. HIDE DEF q
  <1>2. ASSUME q >= n PROVE x >= n * PerDay
    <2>1. q * PerDay >= n * PerDay
      BY <1>1, <1>2
    <2>. QED
      BY <1>1, <2>1
  <1>3. ASSUME q < n PROVE x < n * PerDay
    <2>1. (q + 1) * PerDay <= n * PerDay /\ (q + 1) * PerDay = q * PerDay + PerDay
      BY <1>1, <1>3
    <2>. QED
      BY <1>1, <2>1
  <1>4. n * PerDay \in Int
    BY <1>1
  <1>5. q >= n <=> x >= n * PerDay
    BY <1>1, <1>2, <1>3, <1>4
  <1>. QED
    BY <1>5 DEF q

\* After n whole days the calendar has moved on by at least n days.
LEMMA DaysMove ==
  ASSUME NEW s \in Int, NEW t \in Int, NEW n \in Int, NumDays(s, t) >= n
  PROVE  DayOf(t) >= DayOf(s) + n
  <1>. DEFINE d == s \div PerDay
  <1>1. d \in Int /\ d * PerDay <= s /\ PerDay \in Nat \ {0}
    BY WholeDays, BudgetWindowAssumption
  <1>2. t - s >= n * PerDay
    BY DaysPassed DEF NumDays
  <1>. HIDE DEF d
  <1>3. t >= (d + n) * PerDay
    <2>1. (d + n) * PerDay = d * PerDay + n * PerDay /\ d * PerDay \in Int /\ n * PerDay \in Int
      BY <1>1
    <2>. QED
      BY <1>1, <1>2, <2>1
  <1>4. t \div PerDay >= d + n
    BY <1>1, <1>3, DaysPassed
  <1>. QED
    BY <1>4 DEF DayOf, d

\* No month has more than 31 days.
LEMMA MonthsEnd ==
  ASSUME NEW s \in Int, NEW t \in Int,
         DayOf(s) \in Nat, DayOf(t) \in Nat, DayOf(s) + 31 <= DayOf(t), DayOf(t) < 365
  PROVE  MonthOf(t) > MonthOf(s)
  <1>. DEFINE Begun(d) == {m \in DOMAIN MonthStart : MonthStart[m] <= d}
              a == DayOf(s)
              b == DayOf(t)
  <1>0. DOMAIN MonthStart = 1 .. 12 /\ \A m \in 1 .. 12 : MonthStart[m] \in Int
    BY DEF MonthStart
  <1>1. IsFiniteSet(DOMAIN MonthStart)
    <2>1. \A i, j \in Int : IsFiniteSet(i .. j)
      BY FS_Interval
    <2>2. 1 \in Int /\ 12 \in Int
      OBVIOUS
    <2>3. IsFiniteSet(1 .. 12)
      BY <2>1, <2>2, Zenon
    <2>. QED
      BY <1>0, <2>3, Zenon
  <1>2. a \in Nat /\ b \in Nat /\ a + 31 <= b /\ b < 365
    OBVIOUS
  <1>. HIDE DEF a, b
  <1>3. IsFiniteSet(Begun(b)) /\ IsFiniteSet(Begun(a))
    <2>1. Begun(a) \in SUBSET DOMAIN MonthStart /\ Begun(b) \in SUBSET DOMAIN MonthStart
      OBVIOUS
    <2>. QED
      BY <1>1, <2>1, FS_Subset
  <1>4. Begun(a) \subseteq Begun(b)
    BY <1>0, <1>2
  <1>5. \E m \in DOMAIN MonthStart : a < MonthStart[m] /\ MonthStart[m] <= b
    BY <1>0, <1>2 DEF MonthStart
  <1>6. Begun(a) # Begun(b)
    BY <1>0, <1>2, <1>5
  <1>7. Cardinality(Begun(a)) < Cardinality(Begun(b))
    <2>1. /\ Cardinality(Begun(a)) \in Nat /\ Cardinality(Begun(b)) \in Nat
          /\ Cardinality(Begun(a)) <= Cardinality(Begun(b))
          /\ Cardinality(Begun(b)) # Cardinality(Begun(a))
      BY <1>3, <1>4, <1>6, FS_Subset, FS_CardinalityType
    <2>. HIDE DEF Begun
    <2>. QED
      BY <2>1
  <1>. QED
    BY <1>7 DEF MonthOf, a, b

(***************************************************************************)
(* The inductive invariant: every window that is open began at an instant  *)
(* of this year that has passed, in this day, this week and this month.    *)
(***************************************************************************)
WindowsOpen ==
  /\ last_use \in 0 .. (365 * PerDay - 1)
  /\ DOMAIN start = Windows
  /\ start["none"] = Unset
  /\ \A w \in Windows \ {"none"} : start[w] \in 0 .. last_use

CalendarInv == WindowsOpen /\ DailyStaysInItsDay /\ SteadyWindowsEnd

\* The days of the year, in order; and no whole day passes in an instant.
LEMMA DaysOfTheYear ==
  /\ \A t \in 0 .. (365 * PerDay - 1) : DayOf(t) \in Nat /\ DayOf(t) < 365
  /\ \A s, t \in Int : s <= t => NumDays(s, t) \in Nat /\ DayOf(s) <= DayOf(t)
  /\ \A s, t \in Int : NumDays(s, t) \in Int /\ DayOf(t) \in Int
  /\ \A t \in Int : NumDays(t, t) = 0
  <1>1. ASSUME NEW t \in 0 .. (365 * PerDay - 1) PROVE DayOf(t) \in Nat /\ DayOf(t) < 365
    <2>1. t \in Int /\ t >= 0 * PerDay /\ ~(t >= 365 * PerDay)
      BY BudgetWindowAssumption
    <2>2. t \div PerDay \in Int /\ t \div PerDay >= 0 /\ ~(t \div PerDay >= 365)
      BY <2>1, WholeDays, DaysPassed
    <2>. QED
      BY <2>2 DEF DayOf
  <1>2. ASSUME NEW s \in Int, NEW t \in Int
        PROVE  NumDays(s, t) \in Int /\ DayOf(t) \in Int
    BY WholeDays DEF NumDays, DayOf
  <1>3. ASSUME NEW s \in Int, NEW t \in Int, s <= t
        PROVE  NumDays(s, t) \in Nat /\ DayOf(s) <= DayOf(t)
    <2>1. t - s >= 0 * PerDay
      BY <1>3, BudgetWindowAssumption
    <2>2. NumDays(s, t) >= 0
      BY <2>1, DaysPassed DEF NumDays
    <2>3. DayOf(t) >= DayOf(s) + 0
      BY <2>2, DaysMove
    <2>. QED
      BY <1>2, <2>2, <2>3
  <1>4. ASSUME NEW t \in Int PROVE NumDays(t, t) = 0
    <2>1. t - t >= 0 * PerDay /\ ~(t - t >= 1 * PerDay)
      BY BudgetWindowAssumption
    <2>2. NumDays(t, t) >= 0 /\ ~(NumDays(t, t) >= 1)
      BY <2>1, DaysPassed DEF NumDays
    <2>. QED
      BY <1>2, <2>2
  <1>. QED
    BY <1>1, <1>2, <1>3, <1>4

\* The first use opens every window but "none".
LEMMA CalendarOpens == CalendarInit => CalendarInv
  <1>. SUFFICES ASSUME CalendarInit PROVE CalendarInv
    OBVIOUS
  <1>1. last_use \in 0 .. (365 * PerDay - 1) /\ last_use \in Int
    BY BudgetWindowAssumption DEF CalendarInit
  <1>2. WindowsOpen
    BY <1>1 DEF CalendarInit, WindowsOpen, Windows
  <1>3. \A w \in {"daily", "weekly", "monthly"} : start[w] = last_use
    BY DEF CalendarInit, Windows
  <1>4. NumDays(last_use, last_use) = 0
    BY <1>1, DaysOfTheYear
  <1>5. DailyStaysInItsDay /\ SteadyWindowsEnd
    BY <1>3, <1>4 DEF DailyStaysInItsDay, SteadyWindowsEnd
  <1>. QED
    BY <1>2, <1>5 DEF CalendarInv

\* What one use does to one window: it begins now, or it stays because the code
\* found no reason to reset it.
LEMMA OneUse ==
  ASSUME WindowsOpen, NEW gap \in 1 .. MaxGap, Use(gap)
  PROVE  /\ last_use' = last_use + gap /\ last_use' \in 0 .. (365 * PerDay - 1)
         /\ last_use < last_use'
         /\ DOMAIN start' = Windows
         /\ \A w \in Windows :
              \/ ShouldReset(w, start[w], last_use') /\ start'[w] = last_use'
              \/ ~ShouldReset(w, start[w], last_use') /\ start'[w] = start[w]
  <1>1. last_use + gap \in 0 .. (365 * PerDay - 1) /\ last_use < last_use + gap
    BY BudgetCalendarAssumption, BudgetWindowAssumption DEF Use, WindowsOpen
  <1>2. last_use' = last_use + gap
    BY DEF Use
  <1>3. start' = [w \in Windows |->
                    IF ShouldReset(w, start[w], last_use') THEN last_use' ELSE start[w]]
    BY <1>2 DEF Use
  <1>. QED
    BY <1>1, <1>2, <1>3

\* A use keeps the invariant, whatever the gap before it.
LEMMA UseKeeps ==
  ASSUME CalendarInv, NEW gap \in 1 .. MaxGap, Use(gap)
  PROVE  CalendarInv'
  <1>. DEFINE t == last_use'
  <1>1. WindowsOpen /\ last_use \in Int /\ Unset \notin Nat
    BY DEF CalendarInv, WindowsOpen, Unset
  <1>2. /\ t \in 0 .. (365 * PerDay - 1) /\ t \in Int /\ last_use < t
        /\ DOMAIN start' = Windows
        /\ \A w \in Windows :
             \/ ShouldReset(w, start[w], t) /\ start'[w] = t
             \/ ~ShouldReset(w, start[w], t) /\ start'[w] = start[w]
    BY <1>1, OneUse
  <1>. HIDE DEF t
  <1>3. WindowsOpen'
    <2>1. ~ShouldReset("none", start["none"], t)
      BY <1>1 DEF ShouldReset
    <2>2. \A w \in Windows \ {"none"} : start'[w] \in 0 .. t
      BY <1>1, <1>2 DEF WindowsOpen
    <2>. QED
      BY <1>1, <1>2, <2>1, <2>2 DEF WindowsOpen, Windows, t
  <1>4. NumDays(t, t) = 0 /\ DayOf(t) \in Nat /\ DayOf(t) < 365
    BY <1>2, DaysOfTheYear
  <1>5. \A w \in {"daily", "weekly", "monthly"} :
          /\ start[w] \in 0 .. last_use /\ start[w] \in Int /\ start[w] <= t
          /\ DayOf(start[w]) \in Nat /\ DayOf(start[w]) <= DayOf(t)
          /\ NumDays(start[w], t) \in Nat
    <2>. SUFFICES ASSUME NEW w \in {"daily", "weekly", "monthly"}
                  PROVE  /\ start[w] \in 0 .. last_use /\ start[w] \in Int /\ start[w] <= t
                         /\ DayOf(start[w]) \in Nat /\ DayOf(start[w]) <= DayOf(t)
                         /\ NumDays(start[w], t) \in Nat
      OBVIOUS
    <2>1. start[w] \in 0 .. last_use
      BY <1>1 DEF WindowsOpen, Windows
    <2>2. start[w] \in Int /\ start[w] <= t /\ start[w] \in 0 .. (365 * PerDay - 1)
      BY <1>1, <1>2, <2>1, BudgetWindowAssumption DEF WindowsOpen
    <2>. QED
      BY <1>2, <2>1, <2>2, DaysOfTheYear
  <1>6. DayOf(start'["daily"]) = DayOf(t)
    <2>1. CASE ShouldReset("daily", start["daily"], t)
      BY <1>2, <2>1 DEF Windows, ShouldReset
    <2>2. CASE ~ShouldReset("daily", start["daily"], t)
      BY <1>2, <1>4, <1>5, <2>2 DEF Windows, ShouldReset
    <2>. QED
      BY <2>1, <2>2
  <1>7. NumDays(start'["weekly"], t) < 7
    <2>1. CASE ShouldReset("weekly", start["weekly"], t)
      BY <1>2, <1>4, <2>1 DEF Windows, ShouldReset
    <2>2. CASE ~ShouldReset("weekly", start["weekly"], t)
      BY <1>2, <1>5, <2>2 DEF Windows, ShouldReset
    <2>. QED
      BY <2>1, <2>2
  <1>8. NumDays(start'["monthly"], t) < 31
    <2>1. CASE ShouldReset("monthly", start["monthly"], t)
      BY <1>2, <1>4, <2>1 DEF Windows, ShouldReset
    <2>2. CASE ~ShouldReset("monthly", start["monthly"], t)
      <3>1. ~(NumDays(start["monthly"], t) >= 31)
        <4>. SUFFICES ASSUME NumDays(start["monthly"], t) >= 31 PROVE FALSE
          OBVIOUS
        <4>1. DayOf(t) >= DayOf(start["monthly"]) + 31
          BY <1>2, <1>5, DaysMove
        <4>2. MonthOf(t) > MonthOf(start["monthly"])
          BY <1>2, <1>4, <1>5, <4>1, MonthsEnd
        <4>. QED
          BY <1>5, <2>2, <4>2 DEF ShouldReset
      <3>2. start'["monthly"] = start["monthly"]
        BY <1>2, <2>2 DEF Windows
      <3>. QED
        BY <1>5, <3>1, <3>2
    <2>. QED
      BY <2>1, <2>2
  <1>. QED
    BY <1>3, <1>6, <1>7, <1>8 DEF CalendarInv, DailyStaysInItsDay, SteadyWindowsEnd, t

\* The invariant holds of every behaviour.
LEMMA CalendarInvariance == CalendarSpec => []CalendarInv
  <1>1. CalendarInv /\ [CalendarNext]_calendarVars => CalendarInv'
    <2>. SUFFICES ASSUME CalendarInv, [CalendarNext]_calendarVars PROVE CalendarInv'
      OBVIOUS
    <2>1. CASE UNCHANGED calendarVars
      BY <2>1 DEF calendarVars, CalendarInv, WindowsOpen, DailyStaysInItsDay, SteadyWindowsEnd
    <2>2. CASE CalendarNext
      BY <2>2, UseKeeps DEF CalendarNext
    <2>. QED
      BY <2>1, <2>2
  <1>. QED
    BY <1>1, CalendarOpens, PTL DEF CalendarSpec

\* A charge counts only with charges of its own UTC day, at whatever hours and
\* after whatever gaps the key is charged (update_usage compares calendar days).
THEOREM DaysAreKeptApart == CalendarSpec => []DailyStaysInItsDay
  BY CalendarInvariance, PTL DEF CalendarInv

\* No week's window lasts seven whole days of use and no month's 31: should_reset
\* asks both for 28 days and for a later month, and the two never shut each
\* other out.
THEOREM WindowsEnd == CalendarSpec => []SteadyWindowsEnd
  BY CalendarInvariance, PTL DEF CalendarInv

-----------------------------------------------------------------------------
(* The answer (AnswerStream): induction over what has arrived.             *)

\* Induction over the numbers up to n, with the set F of those for which the
\* claim holds: a smallest one outside F would have one before it in F.
LEMMA UpTo ==
  ASSUME NEW n \in Nat, NEW F, 0 \in F, \A k \in 0 .. n - 1 : k \in F => k + 1 \in F
  PROVE  \A k \in 0 .. n : k \in F
  <1>. DEFINE R == {p \in Nat \X Nat : p[1] < p[2]}
              Bad == {k \in 0 .. n : k \notin F}
  <1>. SUFFICES ASSUME Bad # {} PROVE FALSE
    OBVIOUS
  <1>1. IsWellFoundedOn(R, Nat)
    BY NatLessThanWellFounded DEF OpToRel
  <1>2. Bad \subseteq Nat
    OBVIOUS
  <1>3. PICK x \in Bad : \A y \in Bad : <<y, x>> \notin R
    <2>. HIDE DEF R, Bad
    <2>. QED
      BY <1>1, <1>2, WFMin
  <1>4. x \in 0 .. n /\ x # 0 /\ x - 1 \notin F
    BY <1>3
  <1>5. <<x - 1, x>> \in Nat \X Nat /\ <<x - 1, x>>[1] < <<x - 1, x>>[2]
    BY <1>4
  <1>6. <<x - 1, x>> \in R /\ x - 1 \in Bad
    BY <1>4, <1>5
  <1>. QED
    BY <1>3, <1>6

-----------------------------------------------------------------------------
(* FlattenSeq.                                                             *)

\* Its recursion up to place k, as an equation on functions of the places of ss.
FlattensTo(ss, k, f) ==
  f = [i \in 1 .. k |-> IF i = 1 THEN ss[i] ELSE f[i - 1] \o ss[i]]
Flat(ss) == CHOOSE f : FlattensTo(ss, Len(ss), f)

\* FlattenSeq is such a function, at the last place.
LEMMA FlattenUnfolds ==
  ASSUME NEW ss
  PROVE  FlattenSeq(ss) = IF Len(ss) = 0 THEN ss ELSE Flat(ss)[Len(ss)]
  BY DEF FlattenSeq, Flat, FlattensTo

\* There is such a function, by induction over the places of ss.
LEMMA FlattensExists ==
  ASSUME NEW ss, Len(ss) \in Nat
  PROVE  \A i \in 1 .. Len(ss) :
           Flat(ss)[i] = IF i = 1 THEN ss[i] ELSE Flat(ss)[i - 1] \o ss[i]
  <1>. DEFINE F == {k \in 0 .. Len(ss) : \E f : FlattensTo(ss, k, f)}
  <1>1. 0 \in F
    <2>1. FlattensTo(ss, 0, [i \in 1 .. 0 |-> ss[i]])
      BY DEF FlattensTo
    <2>. QED
      BY <2>1
  <1>2. ASSUME NEW k \in 0 .. Len(ss) - 1, k \in F PROVE k + 1 \in F
    <2>1. PICK f : f = [i \in 1 .. k |->
                          IF i = 1 THEN ss[i] ELSE f[i - 1] \o ss[i]]
      BY <1>2 DEF FlattensTo
    <2>a. \A i \in 1 .. k : f[i] = IF i = 1 THEN ss[i] ELSE f[i - 1] \o ss[i]
      BY <2>1
    <2>. DEFINE g == [i \in 1 .. k + 1 |->
                        IF i <= k THEN f[i]
                        ELSE IF i = 1 THEN ss[i] ELSE f[i - 1] \o ss[i]]
                h == [i \in 1 .. k + 1 |-> IF i = 1 THEN ss[i] ELSE g[i - 1] \o ss[i]]
    <2>2. ASSUME NEW i \in 1 .. k + 1 PROVE g[i] = h[i]
      <3>1. i <= k => f[i] = IF i = 1 THEN ss[i] ELSE f[i - 1] \o ss[i]
        BY <2>a
      <3>2. CASE i = 1
        BY <3>1, <3>2
      <3>3. CASE i # 1
        <4>1. i - 1 \in 1 .. k /\ g[i - 1] = f[i - 1]
          BY <3>3
        <4>. QED
          BY <3>1, <3>3, <4>1
      <3>. QED
        BY <3>2, <3>3
    <2>3. g = h
      BY <2>2
    <2>4. FlattensTo(ss, k + 1, g)
      BY <2>3 DEF FlattensTo
    <2>. QED
      BY <2>4
  <1>3. Len(ss) \in F
    <2>. HIDE DEF F
    <2>1. \A k \in 0 .. Len(ss) : k \in F
      BY <1>1, <1>2, UpTo
    <2>. QED
      BY <2>1
  <1>4. FlattensTo(ss, Len(ss), Flat(ss))
    BY <1>3 DEF Flat
  <1>. DEFINE f == Flat(ss)
  <1>5. f = [i \in 1 .. Len(ss) |-> IF i = 1 THEN ss[i] ELSE f[i - 1] \o ss[i]]
    BY <1>4 DEF FlattensTo
  <1>. HIDE DEF f
  <1>6. \A i \in 1 .. Len(ss) : f[i] = IF i = 1 THEN ss[i] ELSE f[i - 1] \o ss[i]
    BY <1>5
  <1>. QED
    BY <1>6 DEF f

\* One more sequence is put behind the others.
LEMMA FlattenAppend ==
  ASSUME NEW A, NEW ss \in Seq(Seq(A)), NEW s \in Seq(A)
  PROVE  /\ FlattenSeq(<<>>) = <<>>
         /\ FlattenSeq(ss) \in Seq(A)
         /\ FlattenSeq(Append(ss, s)) = FlattenSeq(ss) \o s
  <1>. DEFINE n == Len(ss)
              tt == Append(ss, s)
              f == Flat(ss)
              g == Flat(tt)
  <1>1. n \in Nat /\ tt \in Seq(Seq(A)) /\ Len(tt) = n + 1 /\ tt[n + 1] = s
        /\ \A i \in 1 .. n : tt[i] = ss[i] /\ ss[i] \in Seq(A)
    OBVIOUS
  <1>. HIDE DEF n, tt
  <1>2. \A i \in 1 .. n : f[i] = IF i = 1 THEN ss[i] ELSE f[i - 1] \o ss[i]
    BY <1>1, FlattensExists DEF n
  <1>3. Len(tt) \in Nat
    BY <1>1
  <1>4. \A i \in 1 .. Len(tt) : g[i] = IF i = 1 THEN tt[i] ELSE g[i - 1] \o tt[i]
    BY <1>3, FlattensExists, Zenon
  <1>5. FlattenSeq(ss) = IF n = 0 THEN ss ELSE f[n]
    BY FlattenUnfolds DEF n
  <1>6. FlattenSeq(tt) = g[n + 1]
    BY <1>1, FlattenUnfolds
  <1>. HIDE DEF f, g
  <1>7. \A k \in 0 .. n : k # 0 => f[k] \in Seq(A) /\ g[k] = f[k]
    <2>. DEFINE F == {k \in 0 .. n : k # 0 => f[k] \in Seq(A) /\ g[k] = f[k]}
    <2>1. 0 \in F
      BY <1>1
    <2>2. ASSUME NEW k \in 0 .. n - 1, k \in F PROVE k + 1 \in F
      <3>1. k + 1 \in 1 .. n /\ k + 1 \in 1 .. Len(tt) /\ (k + 1) - 1 = k
        BY <1>1
      <3>2. f[k + 1] = IF k + 1 = 1 THEN ss[k + 1] ELSE f[k] \o ss[k + 1]
        <4>1. f[k + 1] = IF k + 1 = 1 THEN ss[k + 1] ELSE f[(k + 1) - 1] \o ss[k + 1]
          BY <1>2, <3>1, Zenon
        <4>. QED
          BY <3>1, <4>1, Zenon
      <3>3. g[k + 1] = IF k + 1 = 1 THEN tt[k + 1] ELSE g[k] \o tt[k + 1]
        <4>1. g[k + 1] = IF k + 1 = 1 THEN tt[k + 1] ELSE g[(k + 1) - 1] \o tt[k + 1]
          BY <1>4, <3>1, Zenon
        <4>. QED
          BY <3>1, <4>1, Zenon
      <3>4. tt[k + 1] = ss[k + 1] /\ ss[k + 1] \in Seq(A)
        BY <1>1
      <3>5. CASE k = 0
        BY <3>2, <3>3, <3>4, <3>5, <1>1
      <3>6. CASE k # 0
        <4>1. f[k] \in Seq(A) /\ g[k] = f[k]
          BY <2>2, <3>6
        <4>2. f[k] \o ss[k + 1] \in Seq(A)
          BY <4>1, <3>4
        <4>3. k + 1 # 1 /\ k + 1 \in 0 .. n
          BY <3>6, <1>1
        <4>. QED
          BY <4>1, <4>2, <4>3, <3>2, <3>3, <3>4
      <3>. QED
        BY <3>5, <3>6
    <2>. HIDE DEF F
    <2>3. \A k \in 0 .. n : k \in F
      BY <2>1, <2>2, <1>1, UpTo
    <2>. QED
      BY <2>3 DEF F
  <1>8. FlattenSeq(<<>>) = <<>>
    BY FlattenUnfolds
  <1>9. g[n + 1] = IF n + 1 = 1 THEN tt[n + 1] ELSE g[n] \o tt[n + 1]
    BY <1>1, <1>4
  <1>10. CASE n = 0
    <2>1. FlattenSeq(tt) = s
      BY <1>1, <1>6, <1>9, <1>10
    <2>2. ss = <<>>
      BY <1>10 DEF n
    <2>3. FlattenSeq(ss) = <<>>
      BY <1>8, <2>2
    <2>4. <<>> \o s = s /\ <<>> \in Seq(A)
      OBVIOUS
    <2>. QED
      BY <1>8, <2>1, <2>3, <2>4 DEF tt
  <1>11. CASE n # 0
    <2>1. f[n] \in Seq(A) /\ g[n] = f[n]
      BY <1>1, <1>7, <1>11
    <2>2. g[n + 1] = f[n] \o s
      BY <1>1, <1>9, <1>11, <2>1
    <2>. QED
      BY <1>8, <1>5, <1>6, <1>11, <2>1, <2>2 DEF tt
  <1>. QED
    BY <1>10, <1>11
-----------------------------------------------------------------------------
(* FoldLeft, of the three operators that the readers fold.                 *)

\* A set of numbers that are not above n has a greatest one.
LEMMA MaxFacts ==
  ASSUME NEW n \in Nat, NEW J \in SUBSET (0 .. n), J # {}
  PROVE  Max(J) \in J /\ \A x \in J : x <= Max(J)
  <1>. DEFINE F == {k \in 0 .. n : \A K \in SUBSET (0 .. k) :
                      K # {} => \E m \in K : \A x \in K : m >= x}
  <1>1. 0 \in F
    <2>1. ASSUME NEW K \in SUBSET (0 .. 0), K # {}
          PROVE  \E m \in K : \A x \in K : m >= x
      <3>1. 0 .. 0 = {0}
        OBVIOUS
      <3>2. 0 \in K /\ \A x \in K : x = 0
        BY <2>1, <3>1
      <3>. QED
        BY <3>2
    <2>. QED
      BY <2>1
  <1>2. ASSUME NEW k \in 0 .. n - 1, k \in F PROVE k + 1 \in F
    <2>1. ASSUME NEW K \in SUBSET (0 .. k + 1), K # {}
          PROVE  \E m \in K : \A x \in K : m >= x
      <3>1. CASE k + 1 \in K
        BY <3>1
      <3>2. CASE k + 1 \notin K
        <4>1. K \in SUBSET (0 .. k)
          BY <3>2
        <4>. QED
          BY <1>2, <2>1, <4>1
      <3>. QED
        BY <3>1, <3>2
    <2>. QED
      BY <2>1
  <1>3. n \in F
    <2>. HIDE DEF F
    <2>. QED
      BY <1>1, <1>2, UpTo
  <1>4. \E m \in J : \A x \in J : m >= x
    BY <1>3
  <1>. QED
    BY <1>4 DEF Max

\* The greatest number up to i is i.
LEMMA MaxUpTo ==
  ASSUME NEW i \in Nat \ {0}
  PROVE  Max(1 .. i) = i /\ (1 .. i) \ {i} = 1 .. i - 1
  <1>1. 1 .. i \in SUBSET (0 .. i) /\ 1 .. i # {} /\ i \in 1 .. i
    OBVIOUS
  <1>2. Max(1 .. i) \in 1 .. i /\ \A x \in 1 .. i : x <= Max(1 .. i)
    BY <1>1, MaxFacts
  <1>3. (1 .. i) \ {i} = 1 .. i - 1
    OBVIOUS
  <1>. QED
    BY <1>1, <1>2, <1>3

\* The step of a reader, named by its path.
ReaderStep(reader, x, e) ==
  CASE reader = "pi" -> Read(x, e)
    [] reader = "translated" -> TranslateLine(x, e)
    [] reader = "passed" -> Extract(x, e)

\* The recursion of a fold over the places up to n of s.
StepsTo(reader, b, s, n, it) ==
  it = [J \in SUBSET (1 .. n) |->
          IF J = {} THEN b ELSE ReaderStep(reader, it[J \ {Max(J)}], s[Max(J)])]

\* There is such a function, by induction over n.
LEMMA StepsExist ==
  ASSUME NEW reader, NEW b, NEW s, NEW n \in Nat
  PROVE  \E it : StepsTo(reader, b, s, n, it)
  <1>. DEFINE F == {k \in 0 .. n : \E it : StepsTo(reader, b, s, k, it)}
  <1>1. 0 \in F
    <2>. DEFINE it == [J \in SUBSET (1 .. 0) |-> b]
    <2>1. StepsTo(reader, b, s, 0, it)
      BY DEF StepsTo
    <2>. HIDE DEF it
    <2>. QED
      BY <2>1
  <1>2. ASSUME NEW k \in 0 .. n - 1, k \in F PROVE k + 1 \in F
    <2>1. PICK it : it = [J \in SUBSET (1 .. k) |->
                            IF J = {} THEN b ELSE ReaderStep(reader, it[J \ {Max(J)}], s[Max(J)])]
      BY <1>2 DEF StepsTo
    <2>2. \A J \in SUBSET (1 .. k) :
            it[J] = IF J = {} THEN b ELSE ReaderStep(reader, it[J \ {Max(J)}], s[Max(J)])
      BY <2>1
    <2>. DEFINE D == SUBSET (1 .. k + 1)
                jt == [J \in D |->
                         IF k + 1 \in J THEN ReaderStep(reader, it[J \ {k + 1}], s[k + 1])
                         ELSE it[J]]
                kt == [J \in D |-> IF J = {} THEN b
                                   ELSE ReaderStep(reader, jt[J \ {Max(J)}], s[Max(J)])]
    <2>3. ASSUME NEW J \in D PROVE jt[J] = kt[J]
      <3>1. CASE k + 1 \in J
        <4>a. J \in SUBSET (0 .. k + 1) /\ J # {} /\ k + 1 \in Nat
              /\ \A x \in J : x \in 1 .. k + 1
          BY <3>1
        <4>b. Max(J) \in J /\ \A x \in J : x <= Max(J)
          BY <4>a, MaxFacts
        <4>c. Max(J) \in 1 .. k + 1
          BY <4>a, <4>b, Zenon
        <4>d. k + 1 <= Max(J)
          BY <3>1, <4>b, Zenon
        <4>1. Max(J) = k + 1
          BY <4>c, <4>d
        <4>2. J \ {k + 1} \in SUBSET (1 .. k) /\ J \ {k + 1} \in D /\ k + 1 \notin J \ {k + 1}
          OBVIOUS
        <4>3. jt[J \ {k + 1}] = it[J \ {k + 1}]
          BY <4>2
        <4>. QED
          BY <3>1, <4>1, <4>3
      <3>2. CASE k + 1 \notin J
        <4>a. \A x \in J : x \in 1 .. k + 1 /\ x # k + 1
          BY <3>2
        <4>b. \A x \in J : x \in 1 .. k
          BY <4>a
        <4>1. J \in SUBSET (1 .. k) /\ J \ {Max(J)} \in D /\ k + 1 \notin J \ {Max(J)}
          BY <3>2, <4>b
        <4>2. jt[J] = it[J] /\ jt[J \ {Max(J)}] = it[J \ {Max(J)}]
          BY <3>2, <4>1
        <4>3. kt[J] = IF J = {} THEN b ELSE ReaderStep(reader, it[J \ {Max(J)}], s[Max(J)])
          BY <4>2
        <4>. QED
          BY <2>2, <4>1, <4>2, <4>3
      <3>. QED
        BY <3>1, <3>2
    <2>4. jt = kt
      BY <2>3
    <2>5. StepsTo(reader, b, s, k + 1, jt)
      BY <2>4 DEF StepsTo
    <2>. HIDE DEF jt
    <2>. QED
      BY <2>5
  <1>3. n \in F
    <2>. HIDE DEF F
    <2>. QED
      BY <1>1, <1>2, UpTo
  <1>. QED
    BY <1>3

\* What a reader has after each place of s: from b, a step for every place.
Run(reader, b, s, f) ==
  /\ f \in [0 .. Len(s) -> {f[i] : i \in 0 .. Len(s)}] /\ f[0] = b
  /\ \A i \in 1 .. Len(s) : f[i] = ReaderStep(reader, f[i - 1], s[i])

\* The value of such a function on all places up to n makes a run.
LEMMA StepsAreARun ==
  ASSUME NEW reader, NEW b, NEW s, Len(s) \in Nat, NEW it,
         StepsTo(reader, b, s, Len(s), it)
  PROVE  Run(reader, b, s, [i \in 0 .. Len(s) |-> it[1 .. i]])
  <1>. DEFINE n == Len(s)
              f == [i \in 0 .. n |-> it[1 .. i]]
  <1>1. it = [J \in SUBSET (1 .. n) |->
                IF J = {} THEN b ELSE ReaderStep(reader, it[J \ {Max(J)}], s[Max(J)])]
    BY DEF StepsTo
  <1>2. \A J \in SUBSET (1 .. n) :
          it[J] = IF J = {} THEN b ELSE ReaderStep(reader, it[J \ {Max(J)}], s[Max(J)])
    BY <1>1
  <1>3. f[0] = b
    BY <1>2
  <1>4. ASSUME NEW i \in 1 .. n PROVE f[i] = ReaderStep(reader, f[i - 1], s[i])
    <2>1. Max(1 .. i) = i /\ (1 .. i) \ {i} = 1 .. i - 1
      BY MaxUpTo
    <2>2. 1 .. i \in SUBSET (1 .. n) /\ 1 .. i # {}
      OBVIOUS
    <2>3. it[1 .. i] = ReaderStep(reader, it[(1 .. i) \ {Max(1 .. i)}], s[Max(1 .. i)])
      BY <1>2, <2>2
    <2>. QED
      BY <2>1, <2>3
  <1>. QED
    BY <1>3, <1>4 DEF Run

\* The three folds of the model end a run.
LEMMA ReadRuns ==
  ASSUME NEW b, NEW s, Len(s) \in Nat, DOMAIN s = 1 .. Len(s)
  PROVE  \E f : Run("pi", b, s, f) /\ FoldLeft(Read, b, s) = f[Len(s)]
  <1>. DEFINE n == Len(s)
              P(it) == it = [J \in SUBSET (1 .. n) |->
                               IF J = {} THEN b ELSE Read(it[J \ {Max(J)}], s[Max(J)])]
              it == CHOOSE it : P(it)
  <1>1. FoldLeft(Read, b, s) = it[1 .. n]
    BY DEF FoldLeft, MapThenFoldSet
  <1>2. \E jt : P(jt)
    <2>1. PICK jt : StepsTo("pi", b, s, n, jt)
      BY StepsExist
    <2>2. P(jt)
      BY <2>1 DEF StepsTo, ReaderStep
    <2>. QED
      BY <2>2
  <1>3. P(it)
    BY <1>2
  <1>4. StepsTo("pi", b, s, n, it)
    BY <1>3 DEF StepsTo, ReaderStep
  <1>. HIDE DEF it
  <1>5. Run("pi", b, s, [i \in 0 .. n |-> it[1 .. i]])
    BY <1>4, StepsAreARun
  <1>. QED
    BY <1>1, <1>5

\* See ReadRuns.
LEMMA TranslateRuns ==
  ASSUME NEW b, NEW s, Len(s) \in Nat, DOMAIN s = 1 .. Len(s)
  PROVE  \E f : Run("translated", b, s, f) /\ FoldLeft(TranslateLine, b, s) = f[Len(s)]
  <1>. DEFINE n == Len(s)
              P(it) == it = [J \in SUBSET (1 .. n) |->
                               IF J = {} THEN b ELSE TranslateLine(it[J \ {Max(J)}], s[Max(J)])]
              it == CHOOSE it : P(it)
  <1>1. FoldLeft(TranslateLine, b, s) = it[1 .. n]
    BY DEF FoldLeft, MapThenFoldSet
  <1>2. \E jt : P(jt)
    <2>1. PICK jt : StepsTo("translated", b, s, n, jt)
      BY StepsExist
    <2>2. P(jt)
      BY <2>1 DEF StepsTo, ReaderStep
    <2>. QED
      BY <2>2
  <1>3. P(it)
    BY <1>2
  <1>4. StepsTo("translated", b, s, n, it)
    BY <1>3 DEF StepsTo, ReaderStep
  <1>. HIDE DEF it
  <1>5. Run("translated", b, s, [i \in 0 .. n |-> it[1 .. i]])
    BY <1>4, StepsAreARun
  <1>. QED
    BY <1>1, <1>5

\* See ReadRuns.
LEMMA ExtractRuns ==
  ASSUME NEW b, NEW s, Len(s) \in Nat, DOMAIN s = 1 .. Len(s)
  PROVE  \E f : Run("passed", b, s, f) /\ FoldLeft(Extract, b, s) = f[Len(s)]
  <1>. DEFINE n == Len(s)
              P(it) == it = [J \in SUBSET (1 .. n) |->
                               IF J = {} THEN b ELSE Extract(it[J \ {Max(J)}], s[Max(J)])]
              it == CHOOSE it : P(it)
  <1>1. FoldLeft(Extract, b, s) = it[1 .. n]
    BY DEF FoldLeft, MapThenFoldSet
  <1>2. \E jt : P(jt)
    <2>1. PICK jt : StepsTo("passed", b, s, n, jt)
      BY StepsExist
    <2>2. P(jt)
      BY <2>1 DEF StepsTo, ReaderStep
    <2>. QED
      BY <2>2
  <1>3. P(it)
    BY <1>2
  <1>4. StepsTo("passed", b, s, n, it)
    BY <1>3 DEF StepsTo, ReaderStep
  <1>. HIDE DEF it
  <1>5. Run("passed", b, s, [i \in 0 .. n |-> it[1 .. i]])
    BY <1>4, StepsAreARun
  <1>. QED
    BY <1>1, <1>5

\* Two runs over sequences that agree up to n agree up to n.
LEMMA RunsAgree ==
  ASSUME NEW reader, NEW b, NEW s, NEW t, NEW f, NEW g, NEW n \in Nat,
         Len(s) \in Nat, Len(t) \in Nat, n <= Len(s), n <= Len(t),
         \A i \in 1 .. n : s[i] = t[i],
         Run(reader, b, s, f), Run(reader, b, t, g)
  PROVE  f[n] = g[n]
  <1>. DEFINE F == {i \in 0 .. n : f[i] = g[i]}
  <1>1. 0 \in F
    BY DEF Run
  <1>2. ASSUME NEW i \in 0 .. n - 1, i \in F PROVE i + 1 \in F
    <2>1. i + 1 \in 1 .. Len(s) /\ i + 1 \in 1 .. Len(t) /\ i + 1 \in 1 .. n
          /\ (i + 1) - 1 = i
      OBVIOUS
    <2>2. f[i + 1] = ReaderStep(reader, f[i], s[i + 1]) /\ g[i + 1] = ReaderStep(reader, g[i], t[i + 1])
      BY <2>1 DEF Run
    <2>. QED
      BY <1>2, <2>1, <2>2
  <1>3. \A i \in 0 .. n : i \in F
    <2>. HIDE DEF F
    <2>. QED
      BY <1>1, <1>2, UpTo
  <1>. QED
    BY <1>3

\* A fold reads one line more by one step more.
LEMMA RunAppend ==
  ASSUME NEW A, NEW reader, NEW b, NEW s \in Seq(A), NEW e \in A, NEW f, NEW g,
         Run(reader, b, s, f), Run(reader, b, Append(s, e), g)
  PROVE  g[Len(s) + 1] = ReaderStep(reader, f[Len(s)], e)
  <1>. DEFINE n == Len(s)
              t == Append(s, e)
  <1>1. n \in Nat /\ Len(t) = n + 1 /\ t[n + 1] = e /\ \A i \in 1 .. n : s[i] = t[i]
    OBVIOUS
  <1>2. f[n] = g[n]
    <2>1. Run(reader, b, t, g)
      OBVIOUS
    <2>2. Len(s) \in Nat /\ Len(t) \in Nat /\ n <= Len(s) /\ n <= Len(t)
      BY <1>1
    <2>. HIDE DEF t, n
    <2>. QED
      BY <1>1, <2>1, <2>2, RunsAgree
  <1>3. g[n + 1] = ReaderStep(reader, g[n], t[n + 1])
    <2>1. n + 1 \in 1 .. Len(t) /\ (n + 1) - 1 = n
      BY <1>1
    <2>2. Run(reader, b, t, g)
      OBVIOUS
    <2>. HIDE DEF t, n
    <2>. QED
      BY <2>1, <2>2 DEF Run
  <1>. QED
    BY <1>1, <1>2, <1>3

\* The two readers of lines.
Handled(b, s) == FoldLeft(TranslateLine, b, s)
Extracted(b, s) == FoldLeft(Extract, b, s)

\* What they make of one line more.
LEMMA TranslateAppend ==
  ASSUME NEW A, NEW b, NEW s \in Seq(A), NEW e \in A
  PROVE  /\ Handled(b, <<>>) = b
         /\ Handled(b, Append(s, e)) = TranslateLine(Handled(b, s), e)
  <1>. DEFINE t == Append(s, e)
  <1>1. /\ Len(s) \in Nat /\ DOMAIN s = 1 .. Len(s)
        /\ Len(t) = Len(s) + 1 /\ Len(t) \in Nat /\ DOMAIN t = 1 .. Len(t)
    OBVIOUS
  <1>. HIDE DEF t
  <1>2. PICK f : Run("translated", b, s, f) /\ FoldLeft(TranslateLine, b, s) = f[Len(s)]
    BY <1>1, TranslateRuns
  <1>3. PICK g : Run("translated", b, t, g) /\ FoldLeft(TranslateLine, b, t) = g[Len(t)]
    BY <1>1, TranslateRuns
  <1>4. g[Len(s) + 1] = ReaderStep("translated", f[Len(s)], e)
    BY <1>2, <1>3, RunAppend DEF t
  <1>5. PICK h : Run("translated", b, <<>>, h)
                 /\ FoldLeft(TranslateLine, b, <<>>) = h[Len(<<>>)]
    <2>1. Len(<<>>) \in Nat /\ DOMAIN <<>> = 1 .. Len(<<>>)
      OBVIOUS
    <2>. QED
      BY <2>1, TranslateRuns
  <1>6. FoldLeft(TranslateLine, b, <<>>) = b
    BY <1>5 DEF Run
  <1>. QED
    BY <1>1, <1>2, <1>3, <1>4, <1>6 DEF ReaderStep, t, Handled

\* See TranslateAppend.
LEMMA ExtractAppend ==
  ASSUME NEW A, NEW b, NEW s \in Seq(A), NEW e \in A
  PROVE  /\ Extracted(b, <<>>) = b
         /\ Extracted(b, Append(s, e)) = Extract(Extracted(b, s), e)
  <1>. DEFINE t == Append(s, e)
  <1>1. /\ Len(s) \in Nat /\ DOMAIN s = 1 .. Len(s)
        /\ Len(t) = Len(s) + 1 /\ Len(t) \in Nat /\ DOMAIN t = 1 .. Len(t)
    OBVIOUS
  <1>. HIDE DEF t
  <1>2. PICK f : Run("passed", b, s, f) /\ FoldLeft(Extract, b, s) = f[Len(s)]
    BY <1>1, ExtractRuns
  <1>3. PICK g : Run("passed", b, t, g) /\ FoldLeft(Extract, b, t) = g[Len(t)]
    BY <1>1, ExtractRuns
  <1>4. g[Len(s) + 1] = ReaderStep("passed", f[Len(s)], e)
    BY <1>2, <1>3, RunAppend DEF t
  <1>5. PICK h : Run("passed", b, <<>>, h)
                 /\ FoldLeft(Extract, b, <<>>) = h[Len(<<>>)]
    <2>1. Len(<<>>) \in Nat /\ DOMAIN <<>> = 1 .. Len(<<>>)
      OBVIOUS
    <2>. QED
      BY <2>1, ExtractRuns
  <1>6. FoldLeft(Extract, b, <<>>) = b
    BY <1>5 DEF Run
  <1>. QED
    BY <1>1, <1>2, <1>3, <1>4, <1>6 DEF ReaderStep, t, Extracted
-----------------------------------------------------------------------------
(* Events and messages.                                                    *)

Totals == [{"input", "output", "cached"} -> Nat]

Progress ==
  [type : {"start"}]
    \union [type : {"open", "close"}, block : Nat]
    \union [type : {"delta"}, block : Nat, piece : Nat]
Items ==
  Progress \union [type : {"error"}]
    \union [type : {"done"}, reason : EndReasons, usage : Totals]

\* No tokens are counts of all three kinds.
LEMMA NoTokensFacts ==
  /\ DOMAIN NoTokens = {"input", "output", "cached"} /\ NoTokens \in Totals
  /\ \A f \in DOMAIN NoTokens : NoTokens[f] = 0
  BY DEF NoTokens, Totals

\* Counts stay counts when others take their place.
LEMMA MergeFacts ==
  ASSUME NEW t \in Totals, NEW u,
         DOMAIN u \in SUBSET DOMAIN NoTokens, u \in [DOMAIN u -> Nat]
  PROVE  /\ Merge(t, u) \in Totals
         /\ \A f \in DOMAIN NoTokens :
              Merge(t, u)[f] = IF f \in DOMAIN u THEN u[f] ELSE t[f]
  BY NoTokensFacts DEF Totals, Merge

\* What the fields of an event hold.
LEMMA EventFacts ==
  ASSUME NEW e, IsEvent(e)
  PROVE  /\ e.type \in {"message_start", "message_delta", "message_stop", "ping", "error",
                        "content_block_start", "content_block_delta", "content_block_stop"}
         /\ "usage" \in DOMAIN e <=> e.type \in {"message_start", "message_delta"}
         /\ "usage" \in DOMAIN e =>
              /\ DOMAIN e.usage \in SUBSET DOMAIN NoTokens
              /\ e.usage \in [DOMAIN e.usage -> Nat]
         /\ e.type = "message_delta" => e.reason \in EndReasons
         /\ e.type \in {"content_block_start", "content_block_delta", "content_block_stop"}
              => e.block \in Nat \ {0}
         /\ "block" \in DOMAIN e <=>
              e.type \in {"content_block_start", "content_block_delta", "content_block_stop"}
         /\ e.type = "content_block_start" => e.kind \in Kinds
         /\ e.type = "content_block_delta" => e.piece \in Nat /\ e.whole \in BOOLEAN
         /\ e.type = "content_block_stop" => e = BlockStop(e.block)
         /\ e.type = "message_stop" => e = MessageStop
  BY DEF IsEvent, MessageStop, Ping, Error, Blocks, BlockStop

\* What is told of an event is no end of an answer.
LEMMA ToldFacts ==
  ASSUME NEW e, IsEvent(e)
  PROVE  Told(e) \in Seq(Progress)
  <1>1. ASSUME NEW x \in Progress PROVE <<x>> \in Seq(Progress)
    OBVIOUS
  <1>2. CASE e.type = "message_start"
    <2>1. Told(e) = <<[type |-> "start"]>> /\ [type |-> "start"] \in Progress
      BY <1>2 DEF Told, Progress
    <2>. QED
      BY <1>1, <2>1
  <1>3. CASE e.type = "content_block_start"
    <2>1. /\ Told(e) = <<[type |-> "open", block |-> e.block]>>
          /\ [type |-> "open", block |-> e.block] \in Progress
      BY <1>3, EventFacts DEF Told, Progress
    <2>. QED
      BY <1>1, <2>1
  <1>4. CASE e.type = "content_block_delta"
    <2>1. /\ Told(e) = <<[type |-> "delta", block |-> e.block, piece |-> e.piece]>>
          /\ [type |-> "delta", block |-> e.block, piece |-> e.piece] \in Progress
      BY <1>4, EventFacts DEF Told, Progress
    <2>. QED
      BY <1>1, <2>1
  <1>5. CASE e.type = "content_block_stop"
    <2>1. /\ Told(e) = <<[type |-> "close", block |-> e.block]>>
          /\ [type |-> "close", block |-> e.block] \in Progress
      BY <1>5, EventFacts DEF Told, Progress
    <2>. QED
      BY <1>1, <2>1
  <1>6. CASE e.type \in {"message_delta", "message_stop", "ping", "error"}
    BY <1>6 DEF Told
  <1>. QED
    BY <1>2, <1>3, <1>4, <1>5, <1>6, EventFacts

\* The first events of a message, and one more of them.
LEMMA UptoFacts ==
  ASSUME NEW m, FollowsProtocol(m), NEW n \in 0 .. Len(m)
  PROVE  /\ Len(m) \in Nat /\ DOMAIN m = 1 .. Len(m) /\ \A i \in 1 .. Len(m) : IsEvent(m[i])
         /\ Upto(m, n) \in Seq(ToSet(m)) /\ Len(Upto(m, n)) = n
         /\ DOMAIN Upto(m, n) = 1 .. n
         /\ \A i \in 1 .. n : Upto(m, n)[i] = m[i]
         /\ ToSet(Upto(m, n)) = {m[i] : i \in 1 .. n}
         /\ Upto(m, Len(m)) = m
  <1>1. /\ m \in Seq(ToSet(m)) /\ \A i \in DOMAIN m : IsEvent(m[i])
    BY DEF FollowsProtocol
  <1>2. /\ Upto(m, n) \in Seq(ToSet(m)) /\ Len(Upto(m, n)) = n
        /\ DOMAIN Upto(m, n) = 1 .. n
        /\ \A i \in 1 .. n : Upto(m, n)[i] = m[i]
    BY <1>1 DEF Upto
  <1>3. ToSet(Upto(m, n)) = {m[i] : i \in 1 .. n}
    BY <1>2 DEF ToSet
  <1>4. Upto(m, Len(m)) = m
    BY <1>1 DEF Upto
  <1>. QED
    BY <1>1, <1>2, <1>3, <1>4

\* Before anything has arrived there are no blocks, no counts and no reason.
LEMMA NothingYet ==
  ASSUME NEW m, FollowsProtocol(m)
  PROVE  /\ 0 \in 0 .. Len(m) /\ Opened(Upto(m, 0)) = {}
         /\ Reported(Upto(m, 0)) = NoTokens /\ Reason(Upto(m, 0)) = "none"
         /\ Story(Upto(m, 0)) = <<>>
  <1>1. 0 \in 0 .. Len(m)
    BY DEF FollowsProtocol
  <1>2. DOMAIN Upto(m, 0) = {}
    BY <1>1, UptoFacts
  <1>3. Opened(Upto(m, 0)) = {}
    BY <1>2 DEF Opened
  <1>4. Reported(Upto(m, 0)) = NoTokens
    <2>1. \A f : Reporting(Upto(m, 0), f) = {}
      BY <1>2 DEF Reporting
    <2>2. Reported(Upto(m, 0)) = [f \in DOMAIN NoTokens |-> 0]
      BY <2>1 DEF Reported
    <2>. QED
      BY <2>2 DEF NoTokens
  <1>5. Reason(Upto(m, 0)) = "none"
    BY <1>2 DEF Reason, Reasons
  <1>6. Story(Upto(m, 0)) = <<>>
    <2>1. [n \in DOMAIN Upto(m, 0) |-> Told(Upto(m, 0)[n])] = <<>>
      BY <1>2
    <2>. QED
      BY <2>1, FlattenUnfolds DEF Story
  <1>. QED
    BY <1>1, <1>3, <1>4, <1>5, <1>6

\* The blocks that are open after one event more.
LEMMA OpenedStep ==
  ASSUME NEW m, FollowsProtocol(m), NEW n \in 0 .. Len(m) - 1
  PROVE  /\ Opened(Upto(m, 0)) = {}
         /\ Opened(Upto(m, n)) = {m[i].block : i \in {k \in 1 .. n :
                                                m[k].type = "content_block_start"}}
         /\ Opened(Upto(m, n + 1)) =
              IF m[n + 1].type = "content_block_start"
              THEN Opened(Upto(m, n)) \union {m[n + 1].block} ELSE Opened(Upto(m, n))
  <1>1. n \in 0 .. Len(m) /\ n + 1 \in 0 .. Len(m) /\ 0 \in 0 .. Len(m) /\ n \in Nat
    BY UptoFacts
  <1>2. ASSUME NEW k \in 0 .. Len(m)
        PROVE  Opened(Upto(m, k)) = {m[i].block : i \in {j \in 1 .. k :
                                                m[j].type = "content_block_start"}}
    <2>1. DOMAIN Upto(m, k) = 1 .. k /\ \A i \in 1 .. k : Upto(m, k)[i] = m[i]
      BY UptoFacts
    <2>. DEFINE u == Upto(m, k)
                S == {j \in DOMAIN u : u[j].type = "content_block_start"}
                T == {j \in 1 .. k : m[j].type = "content_block_start"}
    <2>2. S = T
      BY <2>1
    <2>3. {u[i].block : i \in S} = {m[i].block : i \in T}
      BY <2>1, <2>2
    <2>. QED
      BY <2>3 DEF Opened
  <1>3. {j \in 1 .. n + 1 : m[j].type = "content_block_start"}
          = {j \in 1 .. n : m[j].type = "content_block_start"}
              \union (IF m[n + 1].type = "content_block_start" THEN {n + 1} ELSE {})
    BY <1>1
  <1>4. Opened(Upto(m, n)) = {m[i].block : i \in {k \in 1 .. n :
                                                m[k].type = "content_block_start"}}
    BY <1>1, <1>2
  <1>5. Opened(Upto(m, n + 1)) = {m[i].block : i \in {j \in 1 .. n + 1 :
                                                m[j].type = "content_block_start"}}
    BY <1>1, <1>2
  <1>6. Opened(Upto(m, 0)) = {}
    BY <1>1, <1>2
  <1>7. Opened(Upto(m, n + 1)) =
          IF m[n + 1].type = "content_block_start"
          THEN Opened(Upto(m, n)) \union {m[n + 1].block} ELSE Opened(Upto(m, n))
    <2>1. CASE m[n + 1].type = "content_block_start"
      <3>1. {j \in 1 .. n + 1 : m[j].type = "content_block_start"}
              = {j \in 1 .. n : m[j].type = "content_block_start"} \union {n + 1}
        BY <1>3, <2>1
      <3>. QED
        BY <1>4, <1>5, <2>1, <3>1
    <2>2. CASE m[n + 1].type # "content_block_start"
      <3>1. {j \in 1 .. n + 1 : m[j].type = "content_block_start"}
              = {j \in 1 .. n : m[j].type = "content_block_start"}
        BY <1>3, <2>2
      <3>. QED
        BY <1>4, <1>5, <2>2, <3>1
    <2>. QED
      BY <2>1, <2>2
  <1>. QED
    BY <1>4, <1>6, <1>7

\* What is reported after one event more.
LEMMA ReportedStep ==
  ASSUME NEW m, FollowsProtocol(m), NEW n \in 0 .. Len(m) - 1
  PROVE  /\ Reported(Upto(m, 0)) = NoTokens
         /\ Reported(Upto(m, n + 1)) =
              IF "usage" \in DOMAIN m[n + 1]
              THEN Merge(Reported(Upto(m, n)), m[n + 1].usage) ELSE Reported(Upto(m, n))
  <1>. DEFINE R(k, f) == {i \in 1 .. k : "usage" \in DOMAIN m[i] /\ f \in DOMAIN m[i].usage}
              V(k, f) == IF R(k, f) = {} THEN 0 ELSE m[Max(R(k, f))].usage[f]
              new(f) == "usage" \in DOMAIN m[n + 1] /\ f \in DOMAIN m[n + 1].usage
  <1>1. n \in 0 .. Len(m) /\ n + 1 \in 0 .. Len(m) /\ 0 \in 0 .. Len(m) /\ n \in Nat
    BY UptoFacts
  <1>2. ASSUME NEW k \in 0 .. Len(m)
        PROVE  Reported(Upto(m, k)) = [f \in DOMAIN NoTokens |-> V(k, f)]
    <2>1. ASSUME NEW f PROVE Reporting(Upto(m, k), f) = R(k, f)
      BY UptoFacts DEF Reporting
    <2>2. ASSUME NEW f, R(k, f) # {} PROVE Max(R(k, f)) \in 1 .. k
      <3>1. R(k, f) \in SUBSET (0 .. k) /\ k \in Nat
        BY UptoFacts
      <3>2. Max(R(k, f)) \in R(k, f)
        <4>. HIDE DEF R
        <4>. QED
          BY <2>2, <3>1, MaxFacts
      <3>. QED
        BY <3>2
    <2>3. ASSUME NEW f, R(k, f) # {} PROVE Upto(m, k)[Max(R(k, f))] = m[Max(R(k, f))]
      BY <2>2, <2>3, UptoFacts
    <2>. HIDE DEF R
    <2>. QED
      BY <2>1, <2>3 DEF Reported
  <1>3. ASSUME NEW f \in DOMAIN NoTokens
        PROVE  V(n + 1, f) = IF new(f) THEN m[n + 1].usage[f] ELSE V(n, f)
    <2>1. R(n + 1, f) = IF new(f) THEN R(n, f) \union {n + 1} ELSE R(n, f)
      BY <1>1
    <2>2. CASE new(f)
      <3>1. R(n + 1, f) \in SUBSET (0 .. n + 1) /\ n + 1 \in R(n + 1, f) /\ n + 1 \in Nat
        BY <1>1, <2>1, <2>2
      <3>2. Max(R(n + 1, f)) \in R(n + 1, f) /\ n + 1 <= Max(R(n + 1, f))
        <4>. HIDE DEF R
        <4>. QED
          BY <3>1, MaxFacts
      <3>3. Max(R(n + 1, f)) = n + 1
        BY <3>1, <3>2
      <3>. QED
        BY <2>2, <3>1, <3>3
    <2>3. CASE ~new(f)
      BY <2>1, <2>3
    <2>. QED
      BY <2>2, <2>3
  <1>4. \A f \in DOMAIN NoTokens : V(0, f) = 0
    OBVIOUS
  <1>5. Reported(Upto(m, 0)) = NoTokens
    <2>1. Reported(Upto(m, 0)) = [f \in DOMAIN NoTokens |-> 0]
      BY <1>1, <1>2, <1>4
    <2>. QED
      BY <2>1 DEF NoTokens
  <1>6. /\ Reported(Upto(m, n)) = [f \in DOMAIN NoTokens |-> V(n, f)]
        /\ Reported(Upto(m, n + 1)) = [f \in DOMAIN NoTokens |-> V(n + 1, f)]
    BY <1>1, <1>2
  <1>. HIDE DEF V
  <1>7. CASE "usage" \in DOMAIN m[n + 1]
    BY <1>3, <1>5, <1>6, <1>7 DEF Merge
  <1>8. CASE "usage" \notin DOMAIN m[n + 1]
    BY <1>3, <1>5, <1>6, <1>8
  <1>. QED
    BY <1>7, <1>8

\* The counts only grow, and cached tokens are counted when the message starts.
LEMMA ReportedGrows ==
  ASSUME NEW m, FollowsProtocol(m), CountsUp(m), NEW n \in 0 .. Len(m) - 1
  PROVE  /\ Reported(Upto(m, n)) \in Totals
         /\ Reported(Upto(m, n + 1)) \in Totals
         /\ AtMost(Reported(Upto(m, n)), Reported(Upto(m, n + 1)))
         /\ n > 0 => /\ Reported(Upto(m, n + 1)).cached = Reported(Upto(m, n)).cached
                     /\ Reported(Upto(m, n + 1)).input = Reported(Upto(m, n)).input
  <1>. DEFINE r(k) == Reported(Upto(m, k))
              Below(k) == \A i \in k + 1 .. Len(m) :
                            "usage" \in DOMAIN m[i] /\ "output" \in DOMAIN m[i].usage
                              => r(k).output <= m[i].usage["output"]
              F == {k \in 0 .. Len(m) : r(k) \in Totals /\ Below(k)}
  <1>1. Len(m) \in Nat /\ \A i \in 1 .. Len(m) : IsEvent(m[i])
    BY UptoFacts
  <1>2. \A k \in 0 .. Len(m) - 1 :
          r(k + 1) = IF "usage" \in DOMAIN m[k + 1] THEN Merge(r(k), m[k + 1].usage) ELSE r(k)
    BY ReportedStep
  <1>3. r(0) = NoTokens
    BY <1>1, ReportedStep
  <1>. HIDE DEF r
  <1>4. 0 \in F
    <2>1. \A i \in 1 .. Len(m) : "usage" \in DOMAIN m[i] /\ "output" \in DOMAIN m[i].usage
            => m[i].usage["output"] \in Nat
      BY <1>1, EventFacts
    <2>2. NoTokens.output = 0
      BY DEF NoTokens
    <2>. QED
      BY <1>1, <1>3, <2>1, <2>2, NoTokensFacts
  <1>5. ASSUME NEW k \in 0 .. Len(m) - 1, k \in F PROVE k + 1 \in F
    <2>. DEFINE e == m[k + 1]
    <2>1. IsEvent(e) /\ k + 1 \in 1 .. Len(m)
      BY <1>1
    <2>2. CASE "usage" \in DOMAIN e
      <3>1. DOMAIN e.usage \in SUBSET DOMAIN NoTokens /\ e.usage \in [DOMAIN e.usage -> Nat]
        BY <2>1, <2>2, EventFacts
      <3>2. r(k + 1) = Merge(r(k), e.usage) /\ r(k) \in Totals
        BY <1>2, <1>5, <2>2
      <3>3. r(k + 1) \in Totals
        <4>. HIDE DEF e
        <4>. QED
          BY <3>1, <3>2, MergeFacts
      <3>4. "output" \in DOMAIN NoTokens
        BY NoTokensFacts
      <3>5. r(k + 1)["output"] = IF "output" \in DOMAIN e.usage
                                 THEN e.usage["output"] ELSE r(k)["output"]
        BY <3>1, <3>2, <3>4, MergeFacts
      <3>6. ASSUME NEW i \in (k + 1) + 1 .. Len(m),
                   "usage" \in DOMAIN m[i] /\ "output" \in DOMAIN m[i].usage
            PROVE  r(k + 1).output <= m[i].usage["output"]
        <4>1. i \in k + 1 .. Len(m) /\ i \in DOMAIN m /\ k + 1 \in DOMAIN m /\ k + 1 < i
          BY <1>1, <3>6, UptoFacts
        <4>2. r(k).output <= m[i].usage["output"]
          BY <1>5, <3>6, <4>1
        <4>3. "output" \in DOMAIN e.usage => e.usage["output"] <= m[i].usage["output"]
          BY <2>2, <3>6, <4>1 DEF CountsUp
        <4>. QED
          BY <3>5, <4>2, <4>3
      <3>. QED
        BY <3>3, <3>6
    <2>3. CASE "usage" \notin DOMAIN e
      <3>1. r(k + 1) = r(k)
        BY <1>2, <2>3
      <3>. QED
        BY <1>5, <3>1
    <2>. QED
      BY <2>2, <2>3
  <1>6. \A k \in 0 .. Len(m) : k \in F
    <2>. HIDE DEF F
    <2>. QED
      BY <1>1, <1>4, <1>5, UpTo
  <1>7. r(n) \in Totals /\ r(n + 1) \in Totals /\ Below(n)
    BY <1>1, <1>6
  <1>8. /\ AtMost(r(n), r(n + 1))
        /\ n > 0 => r(n + 1).cached = r(n).cached /\ r(n + 1).input = r(n).input
    <2>. DEFINE e == m[n + 1]
    <2>1. IsEvent(e) /\ n + 1 \in 1 .. Len(m) /\ n + 1 \in DOMAIN m
      BY <1>1, UptoFacts
    <2>2. CASE "usage" \notin DOMAIN e
      BY <1>2, <1>7, <2>2 DEF AtMost, Totals
    <2>3. CASE "usage" \in DOMAIN e
      <3>1. DOMAIN e.usage \in SUBSET DOMAIN NoTokens /\ e.usage \in [DOMAIN e.usage -> Nat]
        BY <2>1, <2>3, EventFacts
      <3>2. r(n + 1) = Merge(r(n), e.usage)
        BY <1>2, <2>3
      <3>3. \A f \in DOMAIN NoTokens :
              r(n + 1)[f] = IF f \in DOMAIN e.usage THEN e.usage[f] ELSE r(n)[f]
        <4>. HIDE DEF e
        <4>. QED
          BY <1>7, <3>1, <3>2, MergeFacts
      <3>4. CASE n = 0
        <4>1. \A f \in DOMAIN NoTokens : r(n)[f] = 0
          BY <1>3, <3>4, NoTokensFacts
        <4>2. \A f \in DOMAIN NoTokens : r(n + 1)[f] \in Nat
          BY <1>7, NoTokensFacts DEF Totals
        <4>. QED
          BY <1>7, <3>4, <4>1, <4>2, NoTokensFacts DEF AtMost, Totals
      <3>5. CASE n > 0
        <4>1. e.type = "message_delta"
          <5>1. e.type # "message_start"
            BY <2>1, <3>5 DEF FollowsProtocol
          <5>. QED
            BY <2>1, <2>3, <5>1, EventFacts
        <4>2. 1 \in DOMAIN m /\ 1 < n + 1
          BY <1>1, <3>5, UptoFacts
        <4>3. DOMAIN e.usage \subseteq {"output"}
          BY <2>1, <4>1, <4>2 DEF CountsUp
        <4>4. r(n + 1)["cached"] = r(n)["cached"] /\ r(n + 1)["input"] = r(n)["input"]
          BY <3>3, <4>3, NoTokensFacts
        <4>5. "output" \in DOMAIN e.usage => r(n).output <= e.usage["output"]
          BY <1>1, <1>7, <2>1, <2>3
        <4>6. r(n)["output"] <= r(n + 1)["output"]
          BY <1>7, <3>3, <4>5, NoTokensFacts DEF Totals
        <4>. QED
          BY <1>7, <4>4, <4>6 DEF AtMost, Totals
      <3>. QED
        BY <3>4, <3>5
    <2>. QED
      BY <2>2, <2>3
  <1>. QED
    BY <1>7, <1>8 DEF r

\* Hence what was reported is never taken back.
LEMMA ReportedOrdered ==
  ASSUME NEW m, FollowsProtocol(m), CountsUp(m), NEW n \in 0 .. Len(m), NEW j \in 0 .. n
  PROVE  /\ Reported(Upto(m, j)) \in Totals /\ Reported(Upto(m, n)) \in Totals
         /\ AtMost(Reported(Upto(m, j)), Reported(Upto(m, n)))
  <1>. DEFINE r(k) == Reported(Upto(m, k))
              F == {k \in 0 .. Len(m) : r(k) \in Totals /\ (j <= k => AtMost(r(j), r(k)))}
  <1>1. Len(m) \in Nat
    BY UptoFacts
  <1>2. r(0) \in Totals
    BY NothingYet, NoTokensFacts
  <1>3. \A k \in 0 .. Len(m) - 1 : r(k + 1) \in Totals /\ AtMost(r(k), r(k + 1))
    BY ReportedGrows
  <1>. HIDE DEF r
  <1>8. \A k \in 0 .. Len(m) : r(k) \in Totals
    <2>1. ASSUME NEW k \in 0 .. Len(m) PROVE r(k) \in Totals
      <3>1. k = 0 \/ (k - 1 \in 0 .. Len(m) - 1 /\ (k - 1) + 1 = k)
        BY <1>1
      <3>. QED
        BY <1>2, <1>3, <3>1
    <2>. QED
      BY <2>1
  <1>4. 0 \in F
    BY <1>1, <1>2 DEF AtMost, Totals
  <1>5. ASSUME NEW k \in 0 .. Len(m) - 1, k \in F PROVE k + 1 \in F
    <2>1. r(k) \in Totals /\ r(k + 1) \in Totals /\ AtMost(r(k), r(k + 1))
      BY <1>3, <1>5
    <2>2. CASE j <= k
      <3>1. AtMost(r(j), r(k)) /\ j \in 0 .. Len(m)
        BY <1>5, <2>2
      <3>2. r(j) \in Totals
        BY <3>1, <1>8
      <3>3. AtMost(r(j), r(k + 1))
        BY <2>1, <3>1, <3>2 DEF AtMost, Totals
      <3>. QED
        BY <2>1, <3>3
    <2>3. CASE j = k + 1
      BY <2>1, <2>3 DEF AtMost, Totals
    <2>. QED
      BY <2>1, <2>2, <2>3
  <1>6. \A k \in 0 .. Len(m) : k \in F
    <2>. HIDE DEF F
    <2>. QED
      BY <1>1, <1>4, <1>5, UpTo
  <1>7. n \in F /\ j \in F
    <2>1. n \in 0 .. Len(m) /\ j \in 0 .. Len(m)
      BY <1>1
    <2>. QED
      BY <1>6, <2>1
  <1>. QED
    BY <1>7 DEF r

\* The reason that is known after one event more.
LEMMA ReasonStep ==
  ASSUME NEW m, FollowsProtocol(m), NEW n \in 0 .. Len(m) - 1
  PROVE  /\ Reason(Upto(m, 0)) = "none"
         /\ Reason(Upto(m, n + 1)) =
              IF m[n + 1].type = "message_delta" /\ m[n + 1].reason # "none"
              THEN m[n + 1].reason ELSE Reason(Upto(m, n))
  <1>. DEFINE R(k) == {i \in 1 .. k : m[i].type = "message_delta" /\ m[i].reason # "none"}
              V(k) == IF R(k) = {} THEN "none" ELSE m[Max(R(k))].reason
              new == m[n + 1].type = "message_delta" /\ m[n + 1].reason # "none"
  <1>1. n \in 0 .. Len(m) /\ n + 1 \in 0 .. Len(m) /\ 0 \in 0 .. Len(m) /\ n \in Nat
    BY UptoFacts
  <1>2. ASSUME NEW k \in 0 .. Len(m) PROVE Reason(Upto(m, k)) = V(k)
    <2>1. Reasons(Upto(m, k)) = R(k)
      BY UptoFacts DEF Reasons
    <2>2. ASSUME R(k) # {} PROVE Upto(m, k)[Max(R(k))] = m[Max(R(k))]
      <3>1. R(k) \in SUBSET (0 .. k) /\ k \in Nat
        BY UptoFacts
      <3>2. Max(R(k)) \in R(k)
        <4>. HIDE DEF R
        <4>. QED
          BY <2>2, <3>1, MaxFacts
      <3>. QED
        BY <3>2, UptoFacts
    <2>. HIDE DEF R
    <2>. QED
      BY <2>1, <2>2 DEF Reason
  <1>3. V(n + 1) = IF new THEN m[n + 1].reason ELSE V(n)
    <2>1. R(n + 1) = IF new THEN R(n) \union {n + 1} ELSE R(n)
      BY <1>1
    <2>2. CASE new
      <3>1. R(n + 1) \in SUBSET (0 .. n + 1) /\ n + 1 \in R(n + 1) /\ n + 1 \in Nat
        BY <1>1, <2>1, <2>2
      <3>2. Max(R(n + 1)) \in R(n + 1) /\ n + 1 <= Max(R(n + 1))
        <4>. HIDE DEF R
        <4>. QED
          BY <3>1, MaxFacts
      <3>3. Max(R(n + 1)) = n + 1
        BY <3>1, <3>2
      <3>. QED
        BY <2>2, <3>1, <3>3
    <2>3. CASE ~new
      BY <2>1, <2>3
    <2>. QED
      BY <2>2, <2>3
  <1>4. V(0) = "none"
    OBVIOUS
  <1>. HIDE DEF V
  <1>. QED
    BY <1>1, <1>2, <1>3, <1>4

\* The story of one event more.
LEMMA StoryStep ==
  ASSUME NEW m, FollowsProtocol(m), NEW n \in 0 .. Len(m) - 1
  PROVE  /\ Story(Upto(m, n)) \in Seq(Progress) /\ Told(m[n + 1]) \in Seq(Progress)
         /\ Story(Upto(m, n + 1)) = Story(Upto(m, n)) \o Told(m[n + 1])
  <1>. DEFINE S(k) == [i \in 1 .. k |-> Told(m[i])]
  <1>1. n \in 0 .. Len(m) /\ n + 1 \in 0 .. Len(m) /\ n \in Nat /\ Len(m) \in Nat
        /\ \A i \in 1 .. Len(m) : IsEvent(m[i])
    BY UptoFacts
  <1>2. ASSUME NEW k \in 0 .. Len(m)
        PROVE  Story(Upto(m, k)) = FlattenSeq(S(k)) /\ S(k) \in Seq(Seq(Progress))
    <2>1. DOMAIN Upto(m, k) = 1 .. k /\ \A i \in 1 .. k : Upto(m, k)[i] = m[i]
      BY UptoFacts
    <2>2. [i \in DOMAIN Upto(m, k) |-> Told(Upto(m, k)[i])] = S(k)
      BY <2>1
    <2>3. \A i \in 1 .. k : Told(m[i]) \in Seq(Progress)
      BY <1>1, ToldFacts
    <2>4. S(k) \in Seq(Seq(Progress))
      BY <1>1, <2>3
    <2>. QED
      BY <2>2, <2>4 DEF Story
  <1>3. Told(m[n + 1]) \in Seq(Progress)
    BY <1>1, ToldFacts
  <1>4. S(n + 1) = Append(S(n), Told(m[n + 1]))
    BY <1>1
  <1>5. /\ Story(Upto(m, n)) = FlattenSeq(S(n)) /\ S(n) \in Seq(Seq(Progress))
        /\ Story(Upto(m, n + 1)) = FlattenSeq(S(n + 1))
    BY <1>1, <1>2
  <1>. HIDE DEF S
  <1>6. /\ FlattenSeq(S(n)) \in Seq(Progress)
        /\ FlattenSeq(Append(S(n), Told(m[n + 1]))) = FlattenSeq(S(n)) \o Told(m[n + 1])
    BY <1>3, <1>5, FlattenAppend
  <1>. QED
    BY <1>3, <1>4, <1>5, <1>6

\* A story is told in order, without an end.
LEMMA StoryPrefix ==
  ASSUME NEW m, FollowsProtocol(m), NEW n \in 0 .. Len(m), NEW j \in 0 .. n
  PROVE  /\ Story(Upto(m, j)) \in Seq(Progress) /\ Story(Upto(m, n)) \in Seq(Progress)
         /\ Len(Story(Upto(m, j))) <= Len(Story(Upto(m, n)))
         /\ \A i \in 1 .. Len(Story(Upto(m, j))) : Story(Upto(m, n))[i] = Story(Upto(m, j))[i]
  <1>. DEFINE s(k) == Story(Upto(m, k))
              Longer(k) == /\ Len(s(j)) <= Len(s(k))
                           /\ \A i \in 1 .. Len(s(j)) : s(k)[i] = s(j)[i]
              F == {k \in 0 .. Len(m) : j <= k => Longer(k)}
  <1>1. Len(m) \in Nat
    BY UptoFacts
  <1>2. \A k \in 0 .. Len(m) - 1 : /\ s(k) \in Seq(Progress)
                                   /\ Told(m[k + 1]) \in Seq(Progress)
                                   /\ s(k + 1) = s(k) \o Told(m[k + 1])
    BY StoryStep
  <1>3. s(0) \in Seq(Progress)
    <2>1. s(0) = <<>>
      BY NothingYet
    <2>2. <<>> \in Seq(Progress)
      OBVIOUS
    <2>. QED
      BY <2>1, <2>2, Zenon
  <1>4. \A k \in 0 .. Len(m) : s(k) \in Seq(Progress)
    <2>. HIDE DEF s
    <2>1. ASSUME NEW k \in 0 .. Len(m) PROVE s(k) \in Seq(Progress)
      <3>1. k = 0 \/ (k - 1 \in 0 .. Len(m) - 1 /\ (k - 1) + 1 = k)
        BY <1>1
      <3>2. CASE k = 0
        BY <1>3, <3>2
      <3>3. CASE k - 1 \in 0 .. Len(m) - 1 /\ (k - 1) + 1 = k
        <4>1. /\ s(k - 1) \in Seq(Progress) /\ Told(m[k]) \in Seq(Progress)
              /\ s(k) = s(k - 1) \o Told(m[k])
          BY <1>2, <3>3
        <4>. QED
          BY <4>1
      <3>. QED
        BY <3>1, <3>2, <3>3
    <2>. QED
      BY <2>1
  <1>. HIDE DEF s
  <1>5. \A k \in 0 .. Len(m) : j = k => Longer(k)
    BY <1>4
  <1>6. 0 \in F
    <2>1. j <= 0 => j = 0
      OBVIOUS
    <2>. QED
      BY <1>1, <1>5, <2>1
  <1>7. ASSUME NEW k \in 0 .. Len(m) - 1, k \in F PROVE k + 1 \in F
    <2>1. s(k) \in Seq(Progress) /\ Told(m[k + 1]) \in Seq(Progress)
          /\ s(k + 1) = s(k) \o Told(m[k + 1]) /\ k + 1 \in 0 .. Len(m)
      BY <1>1, <1>2
    <2>2. ASSUME j <= k PROVE Longer(k + 1)
      <3>1. Longer(k) /\ s(j) \in Seq(Progress)
        BY <1>4, <1>7, <2>2
      <3>2. Len(s(k)) <= Len(s(k + 1)) /\ \A i \in 1 .. Len(s(k)) : s(k + 1)[i] = s(k)[i]
        BY <2>1
      <3>. QED
        BY <2>1, <3>1, <3>2
    <2>3. j = k + 1 => Longer(k + 1)
      BY <1>5, <2>1
    <2>. HIDE DEF Longer
    <2>4. j <= k + 1 => j <= k \/ j = k + 1
      OBVIOUS
    <2>. QED
      BY <2>1, <2>2, <2>3, <2>4
  <1>8. \A k \in 0 .. Len(m) : k \in F
    <2>. HIDE DEF F
    <2>. QED
      BY <1>1, <1>6, <1>7, UpTo
  <1>9. n \in 0 .. Len(m) /\ j \in 0 .. Len(m) /\ j <= n
    BY <1>1
  <1>. QED
    BY <1>4, <1>8, <1>9 DEF s
-----------------------------------------------------------------------------
(* The inductive invariant of AnswerStream.  What a reader holds is what a *)
(* reader of the arrived part of the message would have made of it in one  *)
(* piece.                                                                  *)

Block == [kind : Kinds, whole : BOOLEAN, ended : BOOLEAN]
Wires == [blocks : Seq(Block), counted : BOOLEAN, counts : Totals, reason : EndReasons,
          terminal : BOOLEAN, started : BOOLEAN, queue : Seq(Items), done : BOOLEAN,
          observed : Totals]

\* The Wire has taken n events of m, and all of them were good.
Parsed(w, m, n) ==
  /\ w \in Wires /\ ~w.done /\ ~w.terminal
  /\ w.started <=> n > 0
  /\ w.counted <=> n > 0
  /\ w.counts = Reported(Upto(m, n)) /\ w.reason = Reason(Upto(m, n))
  /\ DOMAIN w.blocks = Opened(Upto(m, n))
  /\ HasTools(w) <=> Tools(Upto(m, n))
  /\ \A b \in Blocks :
       BlockStop(b) \in ToSet(Upto(m, n)) <=> b \in DOMAIN w.blocks /\ w.blocks[b].ended

\* What the Ledger may observe of counts, and what it has observed.
Billable(t) == IF t.cached = 0 \/ priced THEN t ELSE NoTokens
Synced(w, m, n) == Parsed(w, m, n) /\ w.observed = Billable(w.counts)

\* What was sent and what is queued make up the story so far, or a part of it
\* and an error, or the whole meaning of the message.
Proceeds(w, m, n, sent) == Synced(w, m, n) /\ sent \o w.queue = Story(Upto(m, n))
Broke(w, m, n, sent) ==
  /\ w \in Wires /\ w.done /\ AtMost(w.observed, Reported(Upto(m, n)))
  /\ \E j \in 0 .. n : sent \o w.queue = Append(Story(Upto(m, j)), [type |-> "error"])
Completed(w, m, n, sent) ==
  /\ w \in Wires /\ w.done /\ n = Len(m) /\ Proper(m)
  /\ w.observed = Reported(m) /\ sent \o w.queue = Meaning(m)
Good(w, m, n, sent) ==
  Proceeds(w, m, n, sent) \/ Broke(w, m, n, sent) \/ Completed(w, m, n, sent)

\* What AnthropicStreamParser keeps between chunks, and what it sends.
Types == {"", "torn", "message_start", "message_delta", "message_stop", "ping", "error",
          "content_block_start", "content_block_delta", "content_block_stop"}
Parsers == [type : Types, blocks : Nat, reason : EndReasons, input : Nat, output : Nat]
Chunks ==
  [type : {"start", "error", "raw"}]
    \union [type : {"tool"}, block : Nat]
    \union [type : {"delta"}, block : Nat, piece : Nat]
    \union [type : {"usage"}, input : Nat, output : Nat]
    \union [type : {"done"}, reason : EndReasons]

\* The pieces that were sent are in order, and before all that are to come.
Ascending(items) ==
  \A j, k \in DOMAIN items :
    j < k /\ items[j].type = "delta" /\ items[k].type = "delta"
      => items[j].piece < items[k].piece
Behind(items, m, n) ==
  \A j \in DOMAIN items, i \in n + 1 .. Len(m) :
    items[j].type = "delta" /\ m[i].type = "content_block_delta"
      => items[j].piece < m[i].piece

\* What holds of a translation whatever was lost of it.
Loose(s, t, items, m, n) ==
  /\ t \in Totals /\ AtMost(t, Reported(Upto(m, n)))
  /\ s.input <= Reported(Upto(m, n)).input
  /\ items \in Seq(Chunks) /\ Ascending(items) /\ Behind(items, m, n)

\* And what holds if nothing was lost.
Tight(s, t, items, m, n) ==
  /\ Opened(Upto(m, n)) = 1 .. s.blocks /\ s.reason = Reason(Upto(m, n))
  /\ s.input = Reported(Upto(m, n)).input
  /\ items = Translation(Upto(m, n)) /\ t = Seen(Upto(m, n))

\* The events that have arrived as a whole.
Arrivals == pos \div Places

InputInv ==
  /\ message \in Messages /\ path \in Paths /\ pos \in 0 .. Total
  /\ stage \in {"open", "ended", "failed", "left"}

\* Only the Pi path has a Machine.
IdleInv == path # "pi" => machine.queue = <<>> /\ ~machine.done

\* The Machine is in step with the message, or has told all of it, or failed.
PiInv ==
  path = "pi" => got \in Seq(Items) /\ Good(machine, message, Arrivals, got)

\* The translation is loosely that of what has arrived, and exactly that as
\* long as no chunk ended inside a line; then it may lack the JSON of an event
\* whose type it has read.
TranslatedInv ==
  path = "translated" =>
    /\ parser \in Parsers /\ Loose(parser, tracker, got, message, Arrivals)
    /\ ~torn => /\ Place(pos) \in {0, 3} /\ Tight(parser, tracker, got, message, Arrivals)
                /\ Place(pos) = 3 => parser.type = message[Arrivals + 1].type

\* The usage that was seen in passing.
PassedInv ==
  path = "passed" =>
    /\ tracker \in Totals /\ AtMost(tracker, Reported(Arrived(pos)))
    /\ ~torn => Place(pos) \in 0 .. 3 /\ tracker = Reported(Arrived(pos))

\* What is recorded, when the answer is over.
BillsInv ==
  /\ path = "pi" =>
       bills = IF stage = "open" THEN <<>> ELSE <<machine.observed>>
  /\ path \in {"translated", "passed"} =>
       bills = IF stage = "ended" THEN <<Debited(tracker)>> ELSE <<>>
  /\ path = "whole" =>
       /\ bills = IF stage = "ended"
                  THEN <<Debited([Reported(message) EXCEPT !.cached = 0])>> ELSE <<>>
       /\ stage = "ended" => pos = Total

AnswerInv == InputInv /\ IdleInv /\ PiInv /\ TranslatedInv /\ PassedInv /\ BillsInv

-----------------------------------------------------------------------------
(* One event into the Wire.                                                *)

\* A block is exchanged for another.
LEMMA BlockExchanged ==
  ASSUME NEW s \in Seq(Block), NEW i \in DOMAIN s, NEW x \in Block
  PROVE  [s EXCEPT ![i] = x] \in Seq(Block)
  <1>1. DOMAIN s = 1 .. Len(s) /\ Len(s) \in Nat /\ s \in [1 .. Len(s) -> Block]
    OBVIOUS
  <1>2. [s EXCEPT ![i] = x] \in [1 .. Len(s) -> Block]
    BY <1>1
  <1>. QED
    BY <1>1, <1>2

\* What has arrived with one event more.
LEMMA UptoStep ==
  ASSUME NEW m, FollowsProtocol(m), NEW n \in 0 .. Len(m) - 1
  PROVE  /\ ToSet(Upto(m, n + 1)) = ToSet(Upto(m, n)) \union {m[n + 1]}
         /\ Tools(Upto(m, n + 1)) <=>
              \/ Tools(Upto(m, n))
              \/ m[n + 1].type = "content_block_start" /\ m[n + 1].kind = "tool"
         /\ IsEvent(m[n + 1]) /\ n \in Nat
         /\ m[n + 1].type = "message_start" <=> n = 0
         /\ m[n + 1].type = "message_stop" => n + 1 = Len(m)
         /\ m[n + 1].type = "content_block_start" =>
              Opened(Upto(m, n)) = 1 .. m[n + 1].block - 1
         /\ m[n + 1].type = "content_block_delta" => m[n + 1].block \in Opened(Upto(m, n))
         /\ m[n + 1].type = "content_block_stop" => m[n + 1] \notin ToSet(Upto(m, n))
  <1>1. n \in 0 .. Len(m) /\ n + 1 \in 0 .. Len(m) /\ n \in Nat /\ Len(m) \in Nat
        /\ n + 1 \in DOMAIN m /\ DOMAIN m = 1 .. Len(m)
    BY UptoFacts
  <1>2. /\ ToSet(Upto(m, n)) = {m[i] : i \in 1 .. n}
        /\ ToSet(Upto(m, n + 1)) = {m[i] : i \in 1 .. n + 1}
    BY <1>1, UptoFacts
  <1>3. ToSet(Upto(m, n + 1)) = ToSet(Upto(m, n)) \union {m[n + 1]}
    BY <1>1, <1>2
  <1>4. Tools(Upto(m, n + 1)) <=>
              \/ Tools(Upto(m, n))
              \/ m[n + 1].type = "content_block_start" /\ m[n + 1].kind = "tool"
    BY <1>3 DEF Tools
  <1>5. (n + 1) - 1 = n /\ (n + 1 = 1 <=> n = 0)
    BY <1>1
  <1>6. /\ IsEvent(m[n + 1])
        /\ m[n + 1].type = "message_start" <=> n = 0
        /\ m[n + 1].type = "message_stop" => n + 1 = Len(m)
        /\ m[n + 1].type = "content_block_start" =>
             Opened(Upto(m, n)) = 1 .. m[n + 1].block - 1
        /\ m[n + 1].type = "content_block_delta" => m[n + 1].block \in Opened(Upto(m, n))
    BY <1>1, <1>5 DEF FollowsProtocol
  <1>7. ASSUME m[n + 1].type = "content_block_stop", m[n + 1] \in ToSet(Upto(m, n))
        PROVE  FALSE
    <2>1. PICK i \in 1 .. n : m[i] = m[n + 1]
      BY <1>2, <1>7
    <2>2. i \in DOMAIN m
      BY <1>1
    <2>3. n + 1 = i
      BY <1>1, <1>7, <2>1, <2>2 DEF FollowsProtocol
    <2>. QED
      BY <1>1, <2>3
  <1>. QED
    BY <1>1, <1>3, <1>4, <1>6, <1>7

\* What Parse may do with the next event: take it, and be in step with the
\* message, or refuse it; nothing is queued or recorded yet.
Parses(w, m, n) ==
  LET r == Parse(w, m[n + 1])
  IN /\ r.wire \in Wires /\ ~r.wire.done
     /\ r.wire.queue = w.queue /\ r.wire.observed = w.observed
     /\ r.wire.counts \in {Reported(Upto(m, n)), Reported(Upto(m, n + 1))}
     /\ m[n + 1].type # "message_stop" /\ r.ok =>
          Parsed(r.wire, m, n + 1) /\ r.out = Told(m[n + 1])
     /\ m[n + 1].type = "message_stop" => r = Taken([w EXCEPT !.terminal = TRUE], <<>>)

\* The start of a message.
LEMMA StartParses ==
  ASSUME NEW m, FollowsProtocol(m), CountsUp(m), NEW n \in 0 .. Len(m) - 1,
         NEW w, Parsed(w, m, n), m[n + 1].type = "message_start"
  PROVE  Parses(w, m, n)
  <1>. DEFINE e == m[n + 1]
              r == Parse(w, e)
  <1>1. IsEvent(e) /\ n = 0 /\ ToSet(Upto(m, n + 1)) = ToSet(Upto(m, n)) \union {e}
        /\ (Tools(Upto(m, n + 1)) <=> Tools(Upto(m, n)))
    BY UptoStep
  <1>2. "usage" \in DOMAIN e
    BY <1>1, EventFacts
  <1>3. Reported(Upto(m, n + 1)) = Merge(Reported(Upto(m, n)), e.usage)
        /\ Reported(Upto(m, n + 1)) \in Totals
    BY <1>2, ReportedStep, ReportedGrows
  <1>4. Opened(Upto(m, n + 1)) = Opened(Upto(m, n)) /\ Reason(Upto(m, n + 1)) = Reason(Upto(m, n))
    BY OpenedStep, ReasonStep
  <1>5. w \in Wires /\ ~w.started /\ ~w.done
    BY <1>1 DEF Parsed
  <1>6. Told(e) = Start(w)
    BY <1>5 DEF Told, Start
  <1>7. CASE ~({"input", "output"} \subseteq DOMAIN e.usage)
    <2>1. r = Refused(Started(w))
      BY <1>7 DEF Parse, ParseStart
    <2>2. r.wire = Started(w) /\ ~r.ok
      BY <2>1 DEF Refused
    <2>3. Started(w) \in Wires /\ ~Started(w).done /\ Started(w).queue = w.queue
          /\ Started(w).observed = w.observed /\ Started(w).counts = w.counts
      BY <1>5 DEF Started, Wires
    <2>4. w.counts = Reported(Upto(m, n))
      BY DEF Parsed
    <2>. HIDE DEF r
    <2>. QED
      BY <2>2, <2>3, <2>4 DEF Parses, r
  <1>8. CASE {"input", "output"} \subseteq DOMAIN e.usage
    <2>. DEFINE v == Counted(Started(w), e.usage)
    <2>1. r = Taken(v, Start(w))
      BY <1>8 DEF Parse, ParseStart
    <2>2. r.wire = v /\ r.ok /\ r.out = Told(e)
      BY <1>6, <2>1 DEF Taken
    <2>3. w.counts = Reported(Upto(m, n))
      BY DEF Parsed
    <2>4. v = [w EXCEPT !.started = TRUE, !.counted = TRUE, !.counts = Reported(Upto(m, n + 1))]
      BY <1>3, <1>5, <2>3 DEF Counted, Started, Wires
    <2>. HIDE DEF v
    <2>5. v \in Wires /\ ~v.done /\ v.queue = w.queue /\ v.observed = w.observed
          /\ v.counts = Reported(Upto(m, n + 1)) /\ v.started /\ v.counted
          /\ v.blocks = w.blocks /\ v.reason = w.reason /\ v.terminal = w.terminal
      BY <1>3, <1>5, <2>4 DEF Wires
    <2>6. HasTools(v) <=> HasTools(w)
      BY <2>5 DEF HasTools
    <2>7. \A b \in Blocks : BlockStop(b) # e
      BY DEF BlockStop
    <2>8. Parsed(v, m, n + 1)
      BY <1>1, <1>4, <2>5, <2>6, <2>7 DEF Parsed
    <2>. HIDE DEF r
    <2>. QED
      BY <2>2, <2>5, <2>8 DEF Parses, r
  <1>. QED
    BY <1>7, <1>8

\* The start of a block: it is the next one.
LEMMA BlockParses ==
  ASSUME NEW m, FollowsProtocol(m), CountsUp(m), NEW n \in 0 .. Len(m) - 1,
         NEW w, Parsed(w, m, n), m[n + 1].type = "content_block_start"
  PROVE  Parses(w, m, n)
  <1>. DEFINE e == m[n + 1]
              r == Parse(w, e)
              block == [kind |-> e.kind, whole |-> TRUE, ended |-> FALSE]
              v == [w EXCEPT !.started = TRUE, !.blocks = Append(@, block)]
  <1>1. IsEvent(e) /\ n > 0 /\ ToSet(Upto(m, n + 1)) = ToSet(Upto(m, n)) \union {e}
        /\ (Tools(Upto(m, n + 1)) <=> Tools(Upto(m, n)) \/ e.kind = "tool")
        /\ Opened(Upto(m, n)) = 1 .. e.block - 1
    <2>1. ToSet(Upto(m, n + 1)) = ToSet(Upto(m, n)) \union {e}
      BY UptoStep
    <2>2. Tools(Upto(m, n + 1)) <=> Tools(Upto(m, n)) \/ e.kind = "tool"
      BY UptoStep
    <2>3. IsEvent(e) /\ n > 0 /\ Opened(Upto(m, n)) = 1 .. e.block - 1
      BY UptoStep
    <2>. QED
      BY <2>1, <2>2, <2>3
  <1>2. "usage" \notin DOMAIN e /\ e.block \in Blocks /\ e.kind \in Kinds
    BY <1>1, EventFacts DEF Blocks
  <1>3. Reported(Upto(m, n + 1)) = Reported(Upto(m, n))
        /\ Opened(Upto(m, n + 1)) = 1 .. e.block
        /\ Reason(Upto(m, n + 1)) = Reason(Upto(m, n))
    <2>1. Opened(Upto(m, n + 1)) = Opened(Upto(m, n)) \union {e.block}
      BY OpenedStep
    <2>2. 1 .. e.block - 1 \union {e.block} = 1 .. e.block
      BY <1>2 DEF Blocks
    <2>. QED
      BY <1>1, <1>2, <2>1, <2>2, ReportedStep, ReasonStep
  <1>4. w \in Wires /\ w.started /\ ~w.done /\ w.blocks \in Seq(Block)
        /\ DOMAIN w.blocks = 1 .. e.block - 1 /\ Len(w.blocks) = e.block - 1
    <2>1. w \in Wires /\ w.started /\ ~w.done /\ w.blocks \in Seq(Block)
          /\ DOMAIN w.blocks = 1 .. e.block - 1
      BY <1>1 DEF Parsed, Wires
    <2>2. Len(w.blocks) = e.block - 1
      BY <1>2, <2>1 DEF Blocks
    <2>. QED
      BY <2>1, <2>2
  <1>5. r.wire = v /\ r.ok /\ r.out = Told(e)
    <2>1. e.block \notin DOMAIN w.blocks
      BY <1>2, <1>4 DEF Blocks
    <2>2. r = Taken([Started(w) EXCEPT !.blocks = Append(@, block)],
                    Append(Start(w), [type |-> "open", block |-> e.block]))
      BY <2>1 DEF Parse, ParseBlock
    <2>3. Append(Start(w), [type |-> "open", block |-> e.block]) = Told(e)
      BY <1>4 DEF Start, Told
    <2>4. [Started(w) EXCEPT !.blocks = Append(@, block)] = v
      BY <1>4 DEF Started, Wires
    <2>. HIDE DEF r, v
    <2>. QED
      BY <2>2, <2>3, <2>4 DEF Taken
  <1>6. block \in Block
    BY <1>2 DEF Block
  <1>. HIDE DEF block
  <1>7. v \in Wires /\ ~v.done /\ v.queue = w.queue /\ v.observed = w.observed
        /\ v.counts = w.counts /\ v.started /\ (v.counted <=> w.counted)
        /\ v.blocks = Append(w.blocks, block) /\ v.reason = w.reason
        /\ (v.terminal <=> w.terminal)
    <2>1. Append(w.blocks, block) \in Seq(Block)
      BY <1>4, <1>6
    <2>. QED
      BY <1>4, <2>1 DEF Wires
  <1>. HIDE DEF v
  <1>8. DOMAIN v.blocks = 1 .. e.block /\ v.blocks[e.block] = block
        /\ \A b \in DOMAIN w.blocks : v.blocks[b] = w.blocks[b]
    BY <1>2, <1>4, <1>6, <1>7 DEF Blocks
  <1>9. 1 .. e.block = DOMAIN w.blocks \union {e.block} /\ e.block \notin DOMAIN w.blocks
    BY <1>2, <1>4 DEF Blocks
  <1>10. HasTools(v) <=> HasTools(w) \/ e.kind = "tool"
    BY <1>8, <1>9 DEF HasTools, block
  <1>11. ASSUME NEW b \in Blocks
         PROVE  BlockStop(b) \in ToSet(Upto(m, n + 1)) <=> b \in DOMAIN v.blocks /\ v.blocks[b].ended
    <2>1. BlockStop(b) # e
      BY DEF BlockStop
    <2>2. BlockStop(b) \in ToSet(Upto(m, n)) <=> b \in DOMAIN w.blocks /\ w.blocks[b].ended
      BY DEF Parsed
    <2>3. ~block.ended
      BY DEF block
    <2>. QED
      BY <1>1, <1>8, <1>9, <2>1, <2>2, <2>3
  <1>12. Parsed(v, m, n + 1)
    <2>1. HasTools(w) <=> Tools(Upto(m, n))
      BY DEF Parsed
    <2>2. w.counted /\ ~w.terminal /\ w.counts = Reported(Upto(m, n))
          /\ w.reason = Reason(Upto(m, n))
      BY <1>1 DEF Parsed
    <2>3. HasTools(v) <=> Tools(Upto(m, n + 1))
      BY <1>1, <1>10, <2>1
    <2>4. n + 1 > 0
      BY <1>1
    <2>5. DOMAIN v.blocks = Opened(Upto(m, n + 1))
      BY <1>3, <1>8
    <2>6. v.counted /\ ~v.terminal /\ v.counts = Reported(Upto(m, n + 1))
          /\ v.reason = Reason(Upto(m, n + 1))
      BY <1>3, <1>7, <2>2
    <2>. HIDE DEF e
    <2>. QED
      BY <1>7, <1>11, <2>3, <2>4, <2>5, <2>6 DEF Parsed
  <1>13. w.counts = Reported(Upto(m, n))
    BY DEF Parsed
  <1>. HIDE DEF r
  <1>. QED
    BY <1>5, <1>7, <1>12, <1>13 DEF Parses, r

\* A piece of text.
LEMMA DeltaParses ==
  ASSUME NEW m, FollowsProtocol(m), CountsUp(m), NEW n \in 0 .. Len(m) - 1,
         NEW w, Parsed(w, m, n), m[n + 1].type = "content_block_delta"
  PROVE  Parses(w, m, n)
  <1>. DEFINE e == m[n + 1]
              r == Parse(w, e)
              v == [w EXCEPT !.blocks[e.block].whole = e.whole]
  <1>1. IsEvent(e) /\ n > 0 /\ ToSet(Upto(m, n + 1)) = ToSet(Upto(m, n)) \union {e}
        /\ (Tools(Upto(m, n + 1)) <=> Tools(Upto(m, n)))
    BY UptoStep
  <1>2. "usage" \notin DOMAIN e /\ e.whole \in BOOLEAN
    BY <1>1, EventFacts
  <1>3. Reported(Upto(m, n + 1)) = Reported(Upto(m, n))
        /\ Opened(Upto(m, n + 1)) = Opened(Upto(m, n))
        /\ Reason(Upto(m, n + 1)) = Reason(Upto(m, n))
    BY <1>2, OpenedStep, ReportedStep, ReasonStep
  <1>4. w \in Wires /\ ~w.done /\ w.blocks \in Seq(Block) /\ w.counts = Reported(Upto(m, n))
    BY DEF Parsed, Wires
  <1>5. CASE ~(e.block \in DOMAIN w.blocks /\ ~w.blocks[e.block].ended /\ e.text # "excess")
    <2>1. r = Refused(w)
      BY <1>5 DEF Parse, ParseDelta
    <2>2. r.wire = w /\ ~r.ok
      BY <2>1 DEF Refused
    <2>. HIDE DEF r
    <2>. QED
      BY <1>4, <2>2 DEF Parses, r
  <1>6. CASE e.block \in DOMAIN w.blocks /\ ~w.blocks[e.block].ended /\ e.text # "excess"
    <2>1. r = Taken(v, <<[type |-> "delta", block |-> e.block, piece |-> e.piece]>>)
      BY <1>6 DEF Parse, ParseDelta
    <2>2. r.wire = v /\ r.ok /\ r.out = Told(e)
      BY <2>1 DEF Taken, Told
    <2>3. [w.blocks EXCEPT ![e.block].whole = e.whole] \in Seq(Block)
      <3>2. w.blocks[e.block] \in Block
        BY <1>4, <1>6
      <3>1. [w.blocks[e.block] EXCEPT !.whole = e.whole] \in Block
        BY <1>2, <3>2 DEF Block
      <3>. QED
        BY <1>4, <1>6, <3>1, BlockExchanged
    <2>4. v \in Wires /\ ~v.done /\ v.queue = w.queue /\ v.observed = w.observed
          /\ v.counts = w.counts /\ (v.started <=> w.started) /\ (v.counted <=> w.counted)
          /\ v.blocks = [w.blocks EXCEPT ![e.block].whole = e.whole] /\ v.reason = w.reason
          /\ (v.terminal <=> w.terminal)
      BY <1>4, <2>3 DEF Wires
    <2>. HIDE DEF v
    <2>5. DOMAIN v.blocks = DOMAIN w.blocks
          /\ \A b \in DOMAIN w.blocks : v.blocks[b].kind = w.blocks[b].kind
                                        /\ (v.blocks[b].ended <=> w.blocks[b].ended)
      BY <1>4, <1>6, <2>4 DEF Block
    <2>6. HasTools(v) <=> HasTools(w)
      BY <2>5 DEF HasTools
    <2>7. \A b \in Blocks : BlockStop(b) # e
      BY DEF BlockStop
    <2>8. Parsed(v, m, n + 1)
      BY <1>1, <1>3, <2>4, <2>5, <2>6, <2>7 DEF Parsed
    <2>. HIDE DEF r
    <2>. QED
      BY <1>4, <2>2, <2>4, <2>8 DEF Parses, r
  <1>. QED
    BY <1>5, <1>6

\* The end of a block: it had not ended before.
LEMMA StopParses ==
  ASSUME NEW m, FollowsProtocol(m), CountsUp(m), NEW n \in 0 .. Len(m) - 1,
         NEW w, Parsed(w, m, n), m[n + 1].type = "content_block_stop"
  PROVE  Parses(w, m, n)
  <1>. DEFINE e == m[n + 1]
              r == Parse(w, e)
              v == Closed(w, e.block)
  <1>1. IsEvent(e) /\ n > 0 /\ ToSet(Upto(m, n + 1)) = ToSet(Upto(m, n)) \union {e}
        /\ (Tools(Upto(m, n + 1)) <=> Tools(Upto(m, n))) /\ e \notin ToSet(Upto(m, n))
    BY UptoStep
  <1>2. "usage" \notin DOMAIN e /\ e.block \in Blocks /\ e = BlockStop(e.block)
    BY <1>1, EventFacts DEF Blocks
  <1>3. Reported(Upto(m, n + 1)) = Reported(Upto(m, n))
        /\ Opened(Upto(m, n + 1)) = Opened(Upto(m, n))
        /\ Reason(Upto(m, n + 1)) = Reason(Upto(m, n))
    BY <1>2, OpenedStep, ReportedStep, ReasonStep
  <1>4. w \in Wires /\ ~w.done /\ w.blocks \in Seq(Block) /\ w.counts = Reported(Upto(m, n))
    BY DEF Parsed, Wires
  <1>5. CASE e.block \notin DOMAIN w.blocks
    <2>1. r = Refused(w)
      BY <1>5 DEF Parse, ParseStop
    <2>2. r.wire = w /\ ~r.ok
      BY <2>1 DEF Refused
    <2>. HIDE DEF r
    <2>. QED
      BY <1>4, <2>2 DEF Parses, r
  <1>6. CASE e.block \in DOMAIN w.blocks
    <2>1. ~w.blocks[e.block].ended
      <3>. HIDE DEF e
      <3>. QED
        BY <1>1, <1>2, <1>6 DEF Parsed
    <2>2. r = IF Whole(w.blocks[e.block]) THEN Taken(v, Told(e)) ELSE Refused(v)
      BY <1>6, <2>1 DEF Parse, ParseStop, Told
    <2>3. r.wire = v /\ (r.ok => r.out = Told(e))
      BY <2>2 DEF Taken, Refused
    <2>4. [w.blocks EXCEPT ![e.block].ended = TRUE] \in Seq(Block)
      <3>2. w.blocks[e.block] \in Block
        BY <1>4, <1>6
      <3>1. [w.blocks[e.block] EXCEPT !.ended = TRUE] \in Block
        BY <1>4, <3>2 DEF Block
      <3>. QED
        BY <1>4, <1>6, <3>1, BlockExchanged
    <2>5. v \in Wires /\ ~v.done /\ v.queue = w.queue /\ v.observed = w.observed
          /\ v.counts = w.counts /\ (v.started <=> w.started) /\ (v.counted <=> w.counted)
          /\ v.blocks = [w.blocks EXCEPT ![e.block].ended = TRUE] /\ v.reason = w.reason
          /\ (v.terminal <=> w.terminal)
      BY <1>4, <2>4 DEF Wires, Closed
    <2>. HIDE DEF v
    <2>6. DOMAIN v.blocks = DOMAIN w.blocks
          /\ \A b \in DOMAIN w.blocks :
               /\ v.blocks[b].kind = w.blocks[b].kind
               /\ v.blocks[b].ended <=> w.blocks[b].ended \/ b = e.block
      BY <1>4, <1>6, <2>5 DEF Block
    <2>7. HasTools(v) <=> HasTools(w)
      BY <2>6 DEF HasTools
    <2>8. ASSUME NEW b \in Blocks
          PROVE  BlockStop(b) \in ToSet(Upto(m, n + 1))
                   <=> b \in DOMAIN v.blocks /\ v.blocks[b].ended
      <3>1. BlockStop(b) = e <=> b = e.block
        BY <1>2 DEF BlockStop
      <3>2. BlockStop(b) \in ToSet(Upto(m, n)) <=> b \in DOMAIN w.blocks /\ w.blocks[b].ended
        BY DEF Parsed
      <3>. HIDE DEF e
      <3>. QED
        BY <1>1, <1>6, <2>6, <3>1, <3>2
    <2>9. Parsed(v, m, n + 1)
      BY <1>1, <1>3, <2>5, <2>6, <2>7, <2>8 DEF Parsed
    <2>. HIDE DEF r
    <2>. QED
      BY <1>4, <2>3, <2>5, <2>9 DEF Parses, r
  <1>. QED
    BY <1>5, <1>6

\* Counts and a reason.
LEMMA MessageDeltaParses ==
  ASSUME NEW m, FollowsProtocol(m), CountsUp(m), NEW n \in 0 .. Len(m) - 1,
         NEW w, Parsed(w, m, n), m[n + 1].type = "message_delta"
  PROVE  Parses(w, m, n)
  <1>. DEFINE e == m[n + 1]
              r == Parse(w, e)
              u == IF DOMAIN e.usage = {} THEN w ELSE Counted(w, e.usage)
              x == [w EXCEPT !.counts = Reported(Upto(m, n + 1))]
              reason == IF e.reason = "none" THEN w.reason ELSE e.reason
              v == [x EXCEPT !.reason = reason]
  <1>1. IsEvent(e) /\ n > 0 /\ ToSet(Upto(m, n + 1)) = ToSet(Upto(m, n)) \union {e}
        /\ (Tools(Upto(m, n + 1)) <=> Tools(Upto(m, n)))
    BY UptoStep
  <1>2. "usage" \in DOMAIN e /\ e.reason \in EndReasons
    BY <1>1, EventFacts
  <1>3. Reported(Upto(m, n + 1)) = Merge(Reported(Upto(m, n)), e.usage)
        /\ Reported(Upto(m, n + 1)) \in Totals
        /\ Reported(Upto(m, n)) \in Totals
        /\ Opened(Upto(m, n + 1)) = Opened(Upto(m, n))
        /\ Reason(Upto(m, n + 1)) = IF e.reason = "none" THEN Reason(Upto(m, n)) ELSE e.reason
    BY <1>2, OpenedStep, ReportedStep, ReportedGrows, ReasonStep
  <1>4. w \in Wires /\ ~w.done /\ w.counted /\ w.counts = Reported(Upto(m, n))
        /\ w.reason = Reason(Upto(m, n))
    BY <1>1 DEF Parsed
  <1>5. u = x
    <2>1. CASE DOMAIN e.usage = {}
      <3>1. Reported(Upto(m, n + 1)) = w.counts
        BY <1>3, <1>4, <2>1 DEF Merge, Totals
      <3>. QED
        BY <1>4, <2>1, <3>1 DEF Wires
    <2>2. CASE DOMAIN e.usage # {}
      <3>1. u = [w EXCEPT !.counted = TRUE, !.counts = Reported(Upto(m, n + 1))]
        BY <1>3, <1>4, <2>2 DEF Counted, Wires
      <3>. QED
        BY <1>4, <3>1 DEF Wires
    <2>. QED
      BY <2>1, <2>2
  <1>6. x \in Wires /\ ~x.done /\ x.queue = w.queue /\ x.observed = w.observed
        /\ x.counts = Reported(Upto(m, n + 1)) /\ (x.started <=> w.started)
        /\ (x.counted <=> w.counted) /\ x.blocks = w.blocks /\ x.reason = w.reason
        /\ (x.terminal <=> w.terminal)
    BY <1>3, <1>4 DEF Wires
  <1>7. r = IF e.reason = "odd" THEN Refused(x) ELSE Taken(v, <<>>)
    <2>1. r = IF e.reason = "odd" THEN Refused(x)
              ELSE Taken([x EXCEPT !.reason = IF e.reason = "none" THEN @ ELSE e.reason], <<>>)
      <3>. HIDE DEF x
      <3>. QED
        BY <1>5 DEF Parse, ParseMessageDelta
    <2>2. [x EXCEPT !.reason = IF e.reason = "none" THEN @ ELSE e.reason] = v
      <3>. HIDE DEF x
      <3>. QED
        BY <1>6 DEF Wires
    <2>. QED
      BY <2>1, <2>2
  <1>. HIDE DEF x
  <1>8. CASE e.reason = "odd"
    <2>1. r.wire = x /\ ~r.ok
      BY <1>7, <1>8 DEF Refused
    <2>. HIDE DEF r
    <2>. QED
      BY <1>6, <2>1 DEF Parses, r
  <1>9. CASE e.reason # "odd"
    <2>1. r.wire = v /\ r.ok /\ r.out = Told(e)
      BY <1>7, <1>9 DEF Taken, Told
    <2>a. reason \in EndReasons /\ reason = Reason(Upto(m, n + 1))
      BY <1>2, <1>3, <1>4 DEF Wires
    <2>. HIDE DEF reason
    <2>2. v \in Wires /\ ~v.done /\ v.queue = w.queue /\ v.observed = w.observed
          /\ v.counts = x.counts /\ (v.started <=> w.started)
          /\ (v.counted <=> w.counted) /\ v.blocks = w.blocks /\ v.reason = reason
          /\ (v.terminal <=> w.terminal)
      BY <1>6, <2>a DEF Wires
    <2>. HIDE DEF v
    <2>3. HasTools(v) <=> HasTools(w)
      BY <2>2 DEF HasTools
    <2>4. \A b \in Blocks : BlockStop(b) # e
      BY DEF BlockStop
    <2>5. Parsed(v, m, n + 1)
      BY <1>1, <1>3, <1>6, <2>a, <2>2, <2>3, <2>4 DEF Parsed
    <2>. HIDE DEF r
    <2>. QED
      BY <1>6, <2>1, <2>2, <2>5 DEF Parses, r
  <1>. QED
    BY <1>8, <1>9

\* The rest: the end of the message, a ping, an error.
LEMMA RestParses ==
  ASSUME NEW m, FollowsProtocol(m), CountsUp(m), NEW n \in 0 .. Len(m) - 1,
         NEW w, Parsed(w, m, n), m[n + 1].type \in {"message_stop", "ping", "error"}
  PROVE  Parses(w, m, n)
  <1>. DEFINE e == m[n + 1]
              r == Parse(w, e)
  <1>1. IsEvent(e) /\ n > 0 /\ ToSet(Upto(m, n + 1)) = ToSet(Upto(m, n)) \union {e}
        /\ (Tools(Upto(m, n + 1)) <=> Tools(Upto(m, n)))
    BY UptoStep
  <1>2. "usage" \notin DOMAIN e
    BY <1>1, EventFacts
  <1>3. Reported(Upto(m, n + 1)) = Reported(Upto(m, n))
        /\ Opened(Upto(m, n + 1)) = Opened(Upto(m, n))
        /\ Reason(Upto(m, n + 1)) = Reason(Upto(m, n))
    BY <1>2, OpenedStep, ReportedStep, ReasonStep
  <1>4. w \in Wires /\ ~w.done /\ w.counts = Reported(Upto(m, n))
    BY DEF Parsed
  <1>5. CASE e.type = "message_stop"
    <2>. DEFINE v == [w EXCEPT !.terminal = TRUE]
    <2>1. r = Taken(v, <<>>)
      BY <1>5 DEF Parse
    <2>2. r.wire = v
      BY <2>1 DEF Taken
    <2>3. v \in Wires /\ ~v.done /\ v.queue = w.queue /\ v.observed = w.observed
          /\ v.counts = w.counts
      BY <1>4 DEF Wires
    <2>. HIDE DEF r
    <2>. QED
      BY <1>4, <1>5, <2>1, <2>2, <2>3 DEF Parses, r
  <1>6. CASE e.type = "ping"
    <2>1. r = Taken(w, <<>>)
      BY <1>6 DEF Parse
    <2>2. r.wire = w /\ r.out = Told(e)
      BY <1>6, <2>1 DEF Taken, Told
    <2>3. \A b \in Blocks : BlockStop(b) # e
      BY <1>6 DEF BlockStop
    <2>4. Parsed(w, m, n + 1)
      BY <1>1, <1>3, <2>3 DEF Parsed
    <2>. HIDE DEF r
    <2>. QED
      BY <1>4, <1>6, <2>2, <2>4 DEF Parses, r
  <1>7. CASE e.type = "error"
    <2>1. r = Refused(w)
      BY <1>7 DEF Parse
    <2>2. r.wire = w /\ ~r.ok
      BY <2>1 DEF Refused
    <2>. HIDE DEF r
    <2>. QED
      BY <1>4, <1>7, <2>2 DEF Parses, r
  <1>. QED
    BY <1>5, <1>6, <1>7

\* Hence every event.
LEMMA EveryParses ==
  ASSUME NEW m, FollowsProtocol(m), CountsUp(m), NEW n \in 0 .. Len(m) - 1,
         NEW w, Parsed(w, m, n)
  PROVE  Parses(w, m, n)
  <1>1. IsEvent(m[n + 1])
    BY UptoStep
  <1>2. m[n + 1].type \in {"message_start", "message_delta", "message_stop", "ping", "error",
                        "content_block_start", "content_block_delta", "content_block_stop"}
    BY <1>1, EventFacts
  <1>. QED
    BY <1>2, StartParses, BlockParses, DeltaParses, StopParses, MessageDeltaParses, RestParses

\* The blocks that the Wire still has to end are those that the message leaves open.
LEMMA ClosingsAreEnds ==
  ASSUME NEW m, FollowsProtocol(m), NEW w, w.blocks \in Seq(Block),
         DOMAIN w.blocks = Opened(m),
         \A b \in Blocks : BlockStop(b) \in ToSet(m) <=> b \in DOMAIN w.blocks /\ w.blocks[b].ended
  PROVE  Ends(w) = Closings(m) /\ Closings(m) \in Seq(Progress)
  <1>. DEFINE close(b) == <<[type |-> "close", block |-> b]>>
              left(i) == IF m[i].type = "content_block_start"
                            /\ BlockStop(m[i].block) \notin ToSet(m)
                         THEN close(m[i].block) ELSE <<>>
              due(b) == IF b \in Open(w) THEN close(b) ELSE <<>>
              C(k) == [i \in 1 .. k |-> left(i)]
              E(c) == [b \in 1 .. c |-> due(b)]
              size == Len(w.blocks)
              F == {k \in 0 .. Len(m) : \E c \in 0 .. size :
                      Opened(Upto(m, k)) = 1 .. c /\ FlattenSeq(C(k)) = FlattenSeq(E(c))}
  <1>1. /\ Len(m) \in Nat /\ DOMAIN m = 1 .. Len(m) /\ Upto(m, Len(m)) = m
        /\ \A i \in 1 .. Len(m) : IsEvent(m[i])
        /\ size \in Nat /\ DOMAIN w.blocks = 1 .. size
    BY UptoFacts
  <1>2. \A b \in Nat : close(b) \in Seq(Progress)
    <2>1. ASSUME NEW b \in Nat PROVE close(b) \in Seq(Progress)
      <3>1. [type |-> "close", block |-> b] \in Progress
        BY DEF Progress
      <3>. QED
        BY <3>1
    <2>. QED
      BY <2>1
  <1>3. \A b \in Nat \ {0} : due(b) \in Seq(Progress)
    <2>. HIDE DEF close
    <2>1. <<>> \in Seq(Progress)
      OBVIOUS
    <2>. QED
      BY <1>2, <2>1
  <1>4. \A i \in 1 .. Len(m) : left(i) \in Seq(Progress)
    <2>1. <<>> \in Seq(Progress)
      OBVIOUS
    <2>2. \A i \in 1 .. Len(m) : m[i].type = "content_block_start" => m[i].block \in Nat
      BY <1>1, EventFacts
    <2>. HIDE DEF close
    <2>. QED
      BY <1>2, <2>1, <2>2
  <1>5. ASSUME NEW i \in 1 .. Len(m), m[i].type = "content_block_start"
        PROVE  /\ m[i].block \in Blocks /\ m[i].block \in 1 .. size
               /\ left(i) = due(m[i].block)
    <2>1. m[i].block \in Blocks
      BY <1>1, <1>5, EventFacts DEF Blocks
    <2>2. m[i].block \in Opened(m)
      BY <1>1, <1>5 DEF Opened
    <2>3. BlockStop(m[i].block) \in ToSet(m) <=> w.blocks[m[i].block].ended
      BY <2>1, <2>2
    <2>. HIDE DEF close
    <2>. QED
      BY <1>1, <1>5, <2>1, <2>2, <2>3 DEF Open
  <1>. HIDE DEF left, due
  <1>6. ASSUME NEW k \in 0 .. Len(m) - 1
        PROVE  /\ FlattenSeq(C(k)) \in Seq(Progress)
               /\ FlattenSeq(C(k + 1)) = FlattenSeq(C(k)) \o left(k + 1)
    <2>1. C(k) \in Seq(Seq(Progress)) /\ left(k + 1) \in Seq(Progress)
          /\ C(k + 1) = Append(C(k), left(k + 1))
      BY <1>1, <1>4
    <2>. HIDE DEF C
    <2>. QED
      BY <2>1, FlattenAppend
  <1>7. ASSUME NEW c \in 0 .. size
        PROVE  /\ FlattenSeq(E(c)) \in Seq(Progress)
               /\ FlattenSeq(E(c + 1)) = FlattenSeq(E(c)) \o due(c + 1)
    <2>1. E(c) \in Seq(Seq(Progress)) /\ due(c + 1) \in Seq(Progress)
          /\ E(c + 1) = Append(E(c), due(c + 1))
      <3>1. c \in Nat /\ \A b \in 1 .. c + 1 : due(b) \in Seq(Progress)
        BY <1>1, <1>3
      <3>. QED
        BY <3>1
    <2>. HIDE DEF E
    <2>. QED
      BY <2>1, FlattenAppend
  <1>8. 0 \in F
    <2>1. Opened(Upto(m, 0)) = {} /\ 1 .. 0 = {}
      BY NothingYet
    <2>2. C(0) = <<>> /\ E(0) = <<>>
      OBVIOUS
    <2>3. 0 \in 0 .. Len(m) /\ 0 \in 0 .. size
      BY <1>1
    <2>. HIDE DEF C, E
    <2>4. FlattenSeq(C(0)) = FlattenSeq(E(0))
      BY <2>2
    <2>5. Opened(Upto(m, 0)) = 1 .. 0
      BY <2>1
    <2>. QED
      BY <2>3, <2>4, <2>5
  <1>9. ASSUME NEW k \in 0 .. Len(m) - 1, k \in F PROVE k + 1 \in F
    <2>. HIDE DEF C, E
    <2>1. PICK c \in 0 .. size :
            Opened(Upto(m, k)) = 1 .. c /\ FlattenSeq(C(k)) = FlattenSeq(E(c))
      BY <1>9
    <2>2. k + 1 \in 1 .. Len(m) /\ k + 1 \in 0 .. Len(m)
      BY <1>1
    <2>3. CASE m[k + 1].type = "content_block_start"
      <3>1. Opened(Upto(m, k)) = 1 .. m[k + 1].block - 1
        BY <2>3, UptoStep
      <3>2. m[k + 1].block = c + 1
        <4>1. m[k + 1].block - 1 \in Nat /\ 1 .. m[k + 1].block - 1 = 1 .. c /\ c \in Nat
          BY <1>1, <1>5, <2>1, <2>2, <2>3, <3>1 DEF Blocks
        <4>2. m[k + 1].block - 1 = c
          <5>1. c > 0 => c \in 1 .. m[k + 1].block - 1
            BY <4>1
          <5>2. m[k + 1].block - 1 > 0 => m[k + 1].block - 1 \in 1 .. c
            BY <4>1
          <5>. QED
            BY <4>1, <5>1, <5>2
        <4>. QED
          BY <1>5, <2>2, <2>3, <4>2 DEF Blocks
      <3>3. Opened(Upto(m, k + 1)) = Opened(Upto(m, k)) \union {c + 1}
        BY <2>3, <3>2, OpenedStep
      <3>4. Opened(Upto(m, k + 1)) = 1 .. c + 1
        <4>1. c \in Nat
          BY <1>1
        <4>2. 1 .. c \union {c + 1} = 1 .. c + 1
          BY <4>1
        <4>. QED
          BY <2>1, <3>3, <4>2
      <3>5. FlattenSeq(C(k + 1)) = FlattenSeq(E(c + 1))
        BY <1>5, <1>6, <1>7, <2>1, <2>2, <2>3, <3>2
      <3>6. c + 1 \in 0 .. size
        BY <1>1, <1>5, <2>2, <2>3, <3>2
      <3>. QED
        BY <2>2, <3>4, <3>5, <3>6
    <2>4. CASE m[k + 1].type # "content_block_start"
      <3>1. Opened(Upto(m, k + 1)) = Opened(Upto(m, k))
        BY <2>4, OpenedStep
      <3>2. left(k + 1) = <<>>
        BY <2>4 DEF left
      <3>3. FlattenSeq(C(k + 1)) = FlattenSeq(C(k))
        <4>1. FlattenSeq(C(k + 1)) = FlattenSeq(C(k)) \o left(k + 1) /\ FlattenSeq(C(k)) \in Seq(Progress)
          BY <1>6
        <4>. QED
          BY <3>2, <4>1, ConcatEmptySeq
      <3>. QED
        BY <2>1, <2>2, <3>1, <3>3
    <2>. QED
      BY <2>3, <2>4
  <1>10. Len(m) \in F
    <2>. HIDE DEF F
    <2>1. \A k \in 0 .. Len(m) : k \in F
      BY <1>1, <1>8, <1>9, UpTo
    <2>. QED
      BY <1>1, <2>1
  <1>11. FlattenSeq(C(Len(m))) = FlattenSeq(E(size)) /\ FlattenSeq(E(size)) \in Seq(Progress)
    <2>. HIDE DEF C, E
    <2>1. PICK c \in 0 .. size :
            1 .. size = 1 .. c /\ FlattenSeq(C(Len(m))) = FlattenSeq(E(c))
      BY <1>1, <1>10
    <2>2. c = size
      <3>1. size > 0 => size \in 1 .. c
        BY <1>1, <2>1
      <3>. QED
        BY <1>1, <2>1, <3>1
    <2>. QED
      BY <1>1, <1>7, <2>1, <2>2
  <1>12. Closings(m) = FlattenSeq(C(Len(m)))
    BY <1>1 DEF Closings, left
  <1>13. Ends(w) = FlattenSeq(E(size))
    BY <1>1 DEF Ends, due
  <1>. QED
    BY <1>11, <1>12, <1>13

\* What is observed and what is queued when the Machine gives up.
LEMMA ObserveFacts ==
  ASSUME NEW w \in Wires
  PROVE  /\ Observe(w) \in Wires
         /\ Observe(w) = [w EXCEPT !.observed = IF Usable(w) THEN w.counts ELSE w.observed]
         /\ Failed(w) \in Wires /\ Failed(w).done
         /\ Failed(w).queue = Append(w.queue, [type |-> "error"])
         /\ Failed(w).observed = IF Usable(w) THEN w.counts ELSE w.observed
  <1>1. /\ Observe(w) \in Wires
        /\ Observe(w) = [w EXCEPT !.observed = IF Usable(w) THEN w.counts ELSE w.observed]
    BY DEF Observe, Wires
  <1>2. Append(w.queue, [type |-> "error"]) \in Seq(Items)
    <2>1. [type |-> "error"] \in Items /\ w.queue \in Seq(Items)
      BY DEF Items, Wires
    <2>. QED
      BY <2>1
  <1>3. /\ Failed(w) \in Wires /\ Failed(w).done
        /\ Failed(w).queue = Append(w.queue, [type |-> "error"])
        /\ Failed(w).observed = IF Usable(w) THEN w.counts ELSE w.observed
    BY <1>1, <1>2 DEF Failed, Wires
  <1>. QED
    BY <1>1, <1>3

\* What is put behind items makes items, and it does not matter in which order.
LEMMA Chains ==
  ASSUME NEW p \in Seq(Items), NEW q \in Seq(Items), NEW x \in Items
  PROVE  /\ p \o q \in Seq(Items) /\ <<x>> \in Seq(Items) /\ q \o <<x>> \in Seq(Items)
         /\ Append(q, x) \in Seq(Items) /\ Append(q, x) = q \o <<x>>
         /\ p \o Append(q, x) = Append(p \o q, x)
         /\ p \o (q \o <<x>>) = Append(p \o q, x)
         /\ p \o <<>> = p
  <1>1. p \o q \in Seq(Items) /\ <<x>> \in Seq(Items) /\ q \o <<x>> \in Seq(Items)
        /\ Append(q, x) \in Seq(Items)
    OBVIOUS
  <1>2. Append(q, x) = q \o <<x>> /\ Append(p \o q, x) = (p \o q) \o <<x>>
    BY <1>1, AppendIsConcat
  <1>3. (p \o q) \o <<x>> = p \o (q \o <<x>>)
    BY <1>1, ConcatAssociative
  <1>4. p \o <<>> = p
    BY ConcatEmptySeq
  <1>. QED
    BY <1>1, <1>2, <1>3, <1>4

\* See Chains.
LEMMA Rejoined ==
  ASSUME NEW p \in Seq(Items), NEW q \in Seq(Items), NEW r \in Seq(Items)
  PROVE  p \o (q \o r) = (p \o q) \o r
  BY ConcatAssociative

\* An answer that fails after a part of the story.
LEMMA FailedBroke ==
  ASSUME NEW m, NEW n \in Nat, NEW j \in 0 .. n, NEW sent \in Seq(Items), NEW w \in Wires,
         sent \o w.queue = Story(Upto(m, j)),
         AtMost(w.observed, Reported(Upto(m, n))), AtMost(w.counts, Reported(Upto(m, n)))
  PROVE  Broke(Failed(w), m, n, sent)
  <1>1. w.queue \in Seq(Items) /\ [type |-> "error"] \in Items
    BY DEF Items, Wires
  <1>2. sent \o Append(w.queue, [type |-> "error"]) = Append(sent \o w.queue, [type |-> "error"])
    <2>. DEFINE x == [type |-> "error"]
    <2>1. x \in Items
      BY <1>1
    <2>. HIDE DEF x
    <2>2. sent \o Append(w.queue, x) = Append(sent \o w.queue, x)
      BY <1>1, <2>1, Chains
    <2>. QED
      BY <2>2 DEF x
  <1>3. sent \o Failed(w).queue = Append(Story(Upto(m, j)), [type |-> "error"])
    BY <1>2, ObserveFacts
  <1>4. AtMost(Failed(w).observed, Reported(Upto(m, n)))
    BY ObserveFacts
  <1>. QED
    BY <1>3, <1>4, ObserveFacts DEF Broke

\* An answer of which all has been read ends with its meaning, or fails.
LEMMA FinishedGood ==
  ASSUME NEW m, FollowsProtocol(m), CountsUp(m), NEW n, n = Len(m),
         NEW w \in Wires, NEW sent \in Seq(Items), w.started,
         w.counts = Reported(m), w.reason = Reason(m), DOMAIN w.blocks = Opened(m),
         HasTools(w) <=> Tools(m), w.terminal => MessageStop \in ToSet(m),
         \A b \in Blocks : BlockStop(b) \in ToSet(m) <=> b \in DOMAIN w.blocks /\ w.blocks[b].ended,
         AtMost(w.observed, Reported(m)), sent \o w.queue = Story(m)
  PROVE  Good(Finished(w), m, n, sent)
  <1>1. Upto(m, n) = m /\ n \in Nat /\ n \in 0 .. n
    BY UptoFacts
  <1>2. Reported(m) \in Totals /\ AtMost(Reported(m), Reported(m))
    BY <1>1, ReportedOrdered
  <1>. DEFINE proper == /\ w.terminal /\ w.reason # "none"
                        /\ (w.reason = "toolUse") <=> HasTools(w)
                        /\ \A b \in Open(w) : Whole(w.blocks[b])
                        /\ Usable(w)
              end == [type |-> "done", reason |-> w.reason, usage |-> w.counts]
              queue == w.queue \o Start(w) \o Ends(w) \o <<end>>
  <1>3. CASE ~proper
    <2>1. Finished(w) = Failed(w)
      BY <1>3 DEF Finished
    <2>2. Broke(Failed(w), m, n, sent)
      BY <1>1, <1>2, FailedBroke
    <2>. QED
      BY <2>1, <2>2 DEF Good
  <1>4. CASE proper
    <2>1. Finished(w) = [Observe(w) EXCEPT !.queue = @ \o Start(w) \o Ends(w) \o <<end>>,
                                           !.done = TRUE]
      BY <1>4 DEF Finished
    <2>2. w.blocks \in Seq(Block) /\ w.queue \in Seq(Items) /\ w.reason \in EndReasons
          /\ w.counts \in Totals
      BY DEF Wires
    <2>3. Ends(w) = Closings(m) /\ Closings(m) \in Seq(Progress)
      BY <2>2, ClosingsAreEnds
    <2>4. Closings(m) \in Seq(Items) /\ Start(w) = <<>> /\ end \in Items
      <3>1. Closings(m) \in Seq(Items)
        <4>1. Progress \subseteq Items
          BY DEF Items
        <4>. QED
          BY <2>3, <4>1
      <3>2. end \in Items
        BY <2>2 DEF Items
      <3>. QED
        BY <3>1, <3>2 DEF Start
    <2>. HIDE DEF end
    <2>5. queue = Append(w.queue \o Closings(m), end) /\ queue \in Seq(Items)
      <3>1. w.queue \o Start(w) = w.queue
        BY <2>2, <2>4, ConcatEmptySeq
      <3>2. queue = (w.queue \o Closings(m)) \o <<end>>
        BY <2>3, <3>1
      <3>3. w.queue \o Closings(m) \in Seq(Items)
        BY <2>2, <2>4, Chains
      <3>4. Append(w.queue \o Closings(m), end) = (w.queue \o Closings(m)) \o <<end>>
            /\ Append(w.queue \o Closings(m), end) \in Seq(Items)
        <4>. DEFINE before == w.queue \o Closings(m)
        <4>. HIDE DEF before
        <4>1. before \in Seq(Items)
          BY <3>3 DEF before
        <4>2. Append(before, end) = before \o <<end>> /\ Append(before, end) \in Seq(Items)
          BY <2>4, <4>1, Chains
        <4>. QED
          BY <4>2 DEF before
      <3>. HIDE DEF queue
      <3>. QED
        BY <3>2, <3>4, Zenon
    <2>6. sent \o queue = Append(Story(m) \o Closings(m), end)
      <3>1. w.queue \o Closings(m) \in Seq(Items)
        BY <2>2, <2>4, Chains
      <3>2. sent \o Append(w.queue \o Closings(m), end)
              = Append(sent \o (w.queue \o Closings(m)), end)
        <4>. DEFINE before == w.queue \o Closings(m)
        <4>1. before \in Seq(Items)
          BY <3>1
        <4>. HIDE DEF before
        <4>2. sent \o Append(before, end) = Append(sent \o before, end)
          BY <2>4, <4>1, Chains
        <4>. QED
          BY <4>2 DEF before
      <3>3. sent \o (w.queue \o Closings(m)) = (sent \o w.queue) \o Closings(m)
        BY <2>2, <2>4, Rejoined
      <3>. HIDE DEF queue
      <3>. QED
        BY <2>5, <3>2, <3>3
    <2>7. Proper(m)
      BY <1>4 DEF Proper
    <2>8. Meaning(m) = Append(Story(m) \o Closings(m), end)
      <3>1. Meaning(m) = Story(m) \o (Closings(m) \o <<end>>)
        BY <2>7 DEF Meaning, end
      <3>2. Story(m) \in Seq(Items)
        <4>1. sent \o w.queue \in Seq(Items)
          BY <2>2, <2>4, Chains
        <4>. QED
          BY <4>1
      <3>. QED
        BY <2>4, <3>1, <3>2, Chains
    <2>9. Observe(w) \in Wires /\ Observe(w).observed = w.counts /\ Observe(w).queue = w.queue
      <3>1. Usable(w)
        BY <1>4
      <3>2. Observe(w) = [w EXCEPT !.observed = w.counts]
        BY <3>1 DEF Observe
      <3>. QED
        BY <3>2, ObserveFacts DEF Wires
    <2>10. Finished(w) = [Observe(w) EXCEPT !.queue = queue, !.done = TRUE]
      BY <2>1, <2>9
    <2>. HIDE DEF queue
    <2>11. Finished(w) \in Wires /\ Finished(w).done /\ Finished(w).queue = queue
           /\ Finished(w).observed = w.counts
      BY <2>5, <2>9, <2>10 DEF Wires
    <2>12. Completed(Finished(w), m, n, sent)
      BY <2>6, <2>7, <2>8, <2>11 DEF Completed
    <2>. QED
      BY <2>12 DEF Good
  <1>. QED
    BY <1>3, <1>4

\* AtMost is an order.
LEMMA AtMostOrders ==
  ASSUME NEW t \in Totals, NEW u \in Totals, NEW v \in Totals
  PROVE  AtMost(t, t) /\ (AtMost(t, u) /\ AtMost(u, v) => AtMost(t, v))
  BY DEF AtMost, Totals

\* Cached tokens are told when the message starts, so that it is settled then
\* whether its usage can be priced.
LEMMA BillableStep ==
  ASSUME NEW m, FollowsProtocol(m), CountsUp(m), NEW n \in 0 .. Len(m) - 1
  PROVE  IF Reported(Upto(m, n + 1)).cached = 0 \/ priced
         THEN TRUE ELSE Billable(Reported(Upto(m, n))) = NoTokens
  <1>1. CASE n = 0
    <2>1. Reported(Upto(m, n)) = NoTokens
      BY <1>1, NothingYet
    <2>. QED
      BY <2>1 DEF Billable
  <1>2. CASE n # 0
    <2>1. Reported(Upto(m, n + 1)).cached = Reported(Upto(m, n)).cached
      BY <1>2, UptoFacts, ReportedGrows
    <2>. QED
      BY <2>1 DEF Billable
  <1>. QED
    BY <1>1, <1>2

\* What is billable is not more than what was reported.
LEMMA BillableAtMost ==
  ASSUME NEW t \in Totals
  PROVE  Billable(t) \in Totals /\ AtMost(Billable(t), t)
  BY NoTokensFacts DEF Billable, AtMost, Totals

\* An answer that is over stays over.
LEMMA DoneStays ==
  ASSUME NEW m, FollowsProtocol(m), CountsUp(m), NEW n \in 0 .. Len(m), NEW j \in 0 .. n,
         NEW w, NEW sent, Broke(w, m, j, sent)
  PROVE  Broke(w, m, n, sent)
  <1>1. AtMost(Reported(Upto(m, j)), Reported(Upto(m, n)))
        /\ Reported(Upto(m, j)) \in Totals /\ Reported(Upto(m, n)) \in Totals
    BY ReportedOrdered
  <1>2. w.observed \in Totals /\ AtMost(w.observed, Reported(Upto(m, j)))
    BY DEF Broke, Wires
  <1>3. AtMost(w.observed, Reported(Upto(m, n)))
    BY <1>1, <1>2 DEF AtMost, Totals
  <1>4. 0 .. j \subseteq 0 .. n
    BY UptoFacts
  <1>. QED
    BY <1>3, <1>4 DEF Broke

\* One frame.
LEMMA ReadStep ==
  ASSUME NEW m, FollowsProtocol(m), CountsUp(m), NEW n \in 0 .. Len(m) - 1,
         NEW sent \in Seq(Items), NEW w, Good(w, m, n, sent)
  PROVE  Good(Read(w, m[n + 1]), m, n + 1, sent)
  <1>. DEFINE e == m[n + 1]
              r == Parse(w, e)
              x == [r.wire EXCEPT !.queue = @ \o r.out]
              v == Observe(x)
  <1>1. n \in 0 .. Len(m) /\ n + 1 \in 0 .. Len(m) /\ n \in Nat /\ n + 1 \in Nat
        /\ n \in 0 .. n + 1 /\ Upto(m, Len(m)) = m /\ Len(m) \in Nat
    BY UptoFacts
  <1>2. /\ Reported(Upto(m, n)) \in Totals /\ Reported(Upto(m, n + 1)) \in Totals
        /\ AtMost(Reported(Upto(m, n)), Reported(Upto(m, n + 1)))
        /\ AtMost(Reported(Upto(m, n + 1)), Reported(Upto(m, n + 1)))
    BY ReportedGrows, AtMostOrders
  <1>3. CASE Broke(w, m, n, sent)
    <2>1. Read(w, e) = w
      BY <1>3 DEF Broke, Read
    <2>. QED
      BY <1>1, <1>3, <2>1, DoneStays DEF Good
  <1>4. CASE Completed(w, m, n, sent)
    BY <1>1, <1>4 DEF Completed
  <1>5. CASE Proceeds(w, m, n, sent)
    <2>1. Parsed(w, m, n) /\ w.observed = Billable(w.counts) /\ w \in Wires /\ ~w.done
          /\ ~w.terminal /\ (w.started <=> n > 0) /\ (w.counted <=> n > 0)
          /\ w.counts = Reported(Upto(m, n)) /\ sent \o w.queue = Story(Upto(m, n))
          /\ w.queue \in Seq(Items)
      BY <1>5 DEF Proceeds, Synced, Parsed, Wires
    <2>2. Parses(w, m, n)
      BY <2>1, EveryParses
    <2>3. /\ r.wire \in Wires /\ ~r.wire.done
          /\ r.wire.queue = w.queue /\ r.wire.observed = w.observed
          /\ r.wire.counts \in {Reported(Upto(m, n)), Reported(Upto(m, n + 1))}
          /\ e.type # "message_stop" /\ r.ok => Parsed(r.wire, m, n + 1) /\ r.out = Told(e)
          /\ e.type = "message_stop" => r = Taken([w EXCEPT !.terminal = TRUE], <<>>)
      BY <2>2 DEF Parses
    <2>4. Read(w, e) = IF ~r.ok THEN Failed(r.wire)
                       ELSE IF v.terminal /\ v.counted THEN Finished(v) ELSE v
      BY <2>1 DEF Read
    <2>5. AtMost(w.observed, Reported(Upto(m, n + 1)))
      <3>1. w.observed \in Totals /\ AtMost(w.observed, Reported(Upto(m, n)))
        BY <1>2, <2>1, BillableAtMost
      <3>. QED
        BY <1>2, <3>1, AtMostOrders
    <2>6. /\ Story(Upto(m, n)) \in Seq(Items) /\ Told(e) \in Seq(Items)
          /\ Story(Upto(m, n + 1)) = Story(Upto(m, n)) \o Told(e)
      <3>1. Progress \subseteq Items
        BY DEF Items
      <3>. QED
        BY <3>1, StoryStep
    <2>7. CASE ~r.ok
      <3>1. Read(w, e) = Failed(r.wire)
        BY <2>4, <2>7
      <3>2. AtMost(r.wire.counts, Reported(Upto(m, n + 1)))
        BY <1>2, <2>3
      <3>3. Broke(Failed(r.wire), m, n + 1, sent)
        <4>. DEFINE y == r.wire
        <4>1. /\ y \in Wires /\ sent \o y.queue = Story(Upto(m, n))
              /\ AtMost(y.observed, Reported(Upto(m, n + 1)))
              /\ AtMost(y.counts, Reported(Upto(m, n + 1)))
          BY <2>1, <2>3, <2>5, <3>2
        <4>. HIDE DEF y
        <4>2. Broke(Failed(y), m, n + 1, sent)
          BY <1>1, <4>1, FailedBroke
        <4>. QED
          BY <4>2 DEF y
      <3>. QED
        BY <3>1, <3>3 DEF Good
    <2>8. CASE r.ok /\ e.type # "message_stop"
      <3>. DEFINE y == r.wire
      <3>1. Parsed(y, m, n + 1) /\ r.out = Told(e)
        BY <2>3, <2>8
      <3>2. y \in Wires /\ y.queue = w.queue /\ y.observed = w.observed /\ ~y.terminal
            /\ y.counted /\ y.counts = Reported(Upto(m, n + 1))
        BY <1>1, <2>3, <3>1 DEF Parsed
      <3>3. x = [y EXCEPT !.queue = w.queue \o Told(e)]
        BY <3>1, <3>2 DEF Wires
      <3>. HIDE DEF y, x
      <3>4. w.queue \o Told(e) \in Seq(Items)
        BY <2>1, <2>6
      <3>5. x \in Wires /\ x.queue = w.queue \o Told(e) /\ x.counted
            /\ x.counts = Reported(Upto(m, n + 1)) /\ x.observed = w.observed
        BY <3>2, <3>3, <3>4 DEF Wires
      <3>6. Parsed(x, m, n + 1)
        <4>1. /\ (x.terminal <=> y.terminal) /\ (x.started <=> y.started)
              /\ (x.done <=> y.done) /\ x.reason = y.reason /\ x.blocks = y.blocks
          BY <3>2, <3>3 DEF Wires
        <4>2. HasTools(x) <=> HasTools(y)
          BY <4>1 DEF HasTools
        <4>. QED
          BY <1>1, <3>1, <3>5, <4>1, <4>2 DEF Parsed
      <3>7. /\ v \in Wires
            /\ v = [x EXCEPT !.observed = IF Usable(x) THEN x.counts ELSE x.observed]
        BY <3>5, ObserveFacts
      <3>8. (IF Usable(x) THEN x.counts ELSE x.observed) = Billable(x.counts)
        <4>1. Usable(x) <=> Reported(Upto(m, n + 1)).cached = 0 \/ priced
          BY <3>5 DEF Usable
        <4>2. CASE Usable(x)
          BY <3>5, <4>1, <4>2 DEF Billable
        <4>3. CASE ~Usable(x)
          <5>1. Billable(x.counts) = NoTokens
            BY <3>5, <4>1, <4>3 DEF Billable
          <5>2. x.observed = NoTokens
            BY <2>1, <3>5, <4>1, <4>3, BillableStep
          <5>. QED
            BY <4>3, <5>1, <5>2
        <4>. QED
          BY <4>2, <4>3
      <3>9. v = [x EXCEPT !.observed = Billable(x.counts)]
        BY <3>7, <3>8
      <3>. HIDE DEF v
      <3>10. Synced(v, m, n + 1) /\ v.queue = x.queue /\ ~v.terminal
        <4>1. /\ (v.terminal <=> x.terminal) /\ (v.started <=> x.started)
              /\ (v.counted <=> x.counted) /\ v.counts = x.counts /\ v.queue = x.queue
              /\ (v.done <=> x.done) /\ v.reason = x.reason /\ v.blocks = x.blocks
              /\ v.observed = Billable(x.counts)
          BY <3>5, <3>9 DEF Wires
        <4>2. HasTools(v) <=> HasTools(x)
          BY <4>1 DEF HasTools
        <4>. QED
          BY <3>6, <3>7, <4>1, <4>2 DEF Parsed, Synced
      <3>11. sent \o v.queue = Story(Upto(m, n + 1))
        <4>1. sent \o (w.queue \o Told(e)) = (sent \o w.queue) \o Told(e)
          BY <2>1, <2>6, Rejoined
        <4>. QED
          BY <2>1, <2>6, <3>5, <3>10, <4>1
      <3>12. Read(w, e) = v
        BY <2>4, <2>8, <3>10
      <3>. QED
        BY <3>10, <3>11, <3>12 DEF Good, Proceeds
    <2>9. CASE r.ok /\ e.type = "message_stop"
      <3>1. n > 0 /\ n + 1 = Len(m) /\ e = MessageStop /\ MessageStop \in ToSet(m)
        <4>1. IsEvent(e) /\ e.type # "message_start" /\ n + 1 = Len(m) /\ n > 0
              /\ ToSet(Upto(m, n + 1)) = ToSet(Upto(m, n)) \union {e}
          BY <2>9, UptoStep
        <4>2. e = MessageStop
          BY <2>9, <4>1, EventFacts
        <4>. QED
          BY <1>1, <4>1, <4>2
      <3>2. r.wire = [w EXCEPT !.terminal = TRUE] /\ r.out = <<>>
        <4>1. r = Taken([w EXCEPT !.terminal = TRUE], <<>>)
          BY <2>3, <2>9
        <4>. HIDE DEF r
        <4>. QED
          BY <4>1 DEF Taken
      <3>3. w.queue \o <<>> = w.queue
        BY <2>1, ConcatEmptySeq
      <3>4. x = [w EXCEPT !.terminal = TRUE]
        BY <2>1, <3>2, <3>3 DEF Wires
      <3>. HIDE DEF x
      <3>5. x \in Wires /\ x.queue = w.queue /\ x.terminal /\ x.counted /\ x.started
            /\ x.counts = w.counts /\ x.reason = w.reason /\ x.blocks = w.blocks
            /\ x.observed = w.observed
        BY <2>1, <3>1, <3>4 DEF Wires
      <3>6. v \in Wires /\ v.observed \in {w.observed, w.counts} /\ v.queue = w.queue
            /\ v.terminal /\ v.counted /\ v.started /\ v.counts = w.counts
            /\ v.reason = w.reason /\ v.blocks = w.blocks
        <4>1. v = [x EXCEPT !.observed = IF Usable(x) THEN x.counts ELSE x.observed]
              /\ v \in Wires
          BY <3>5, ObserveFacts
        <4>. HIDE DEF v
        <4>. QED
          BY <3>5, <4>1 DEF Wires
      <3>7. Read(w, e) = Finished(v)
        BY <2>4, <2>9, <3>6
      <3>. HIDE DEF v
      <3>8. /\ Reported(m) = Reported(Upto(m, n)) /\ Reason(m) = Reason(Upto(m, n))
            /\ Opened(m) = Opened(Upto(m, n)) /\ (Tools(m) <=> Tools(Upto(m, n)))
            /\ ToSet(m) = ToSet(Upto(m, n)) \union {e}
            /\ Story(m) = Story(Upto(m, n))
        <4>1. "usage" \notin DOMAIN e /\ Told(e) = <<>>
          BY <3>1 DEF MessageStop, Told
        <4>2. Story(Upto(m, n)) \o <<>> = Story(Upto(m, n))
          BY <2>6, ConcatEmptySeq
        <4>3. /\ Reported(Upto(m, n + 1)) = Reported(Upto(m, n))
              /\ Reason(Upto(m, n + 1)) = Reason(Upto(m, n))
              /\ Opened(Upto(m, n + 1)) = Opened(Upto(m, n))
              /\ Tools(Upto(m, n + 1)) <=> Tools(Upto(m, n))
              /\ ToSet(Upto(m, n + 1)) = ToSet(Upto(m, n)) \union {e}
          <5>1. Reported(Upto(m, n + 1)) = Reported(Upto(m, n))
            BY <4>1, ReportedStep
          <5>2. Reason(Upto(m, n + 1)) = Reason(Upto(m, n))
            BY <2>9, ReasonStep
          <5>3. Opened(Upto(m, n + 1)) = Opened(Upto(m, n))
            BY <2>9, OpenedStep
          <5>. QED
            BY <2>9, <5>1, <5>2, <5>3, UptoStep
        <4>. QED
          BY <1>1, <2>6, <3>1, <4>1, <4>2, <4>3
      <3>9. HasTools(v) <=> Tools(m)
        BY <2>1, <3>6, <3>8 DEF HasTools, Parsed
      <3>10. DOMAIN v.blocks = Opened(m) /\ v.reason = Reason(m) /\ v.counts = Reported(m)
             /\ sent \o v.queue = Story(m)
        BY <2>1, <3>6, <3>8 DEF Parsed
      <3>11. AtMost(v.observed, Reported(m))
        BY <1>1, <1>2, <2>1, <2>5, <3>1, <3>6, <3>8
      <3>12. \A b \in Blocks : BlockStop(b) \in ToSet(m) <=> b \in DOMAIN v.blocks /\ v.blocks[b].ended
        <4>1. \A b \in Blocks : BlockStop(b) # e
          BY <2>9 DEF BlockStop
        <4>. QED
          BY <2>1, <3>6, <3>8, <4>1 DEF Parsed
      <3>13. n + 1 = Len(m) /\ v \in Wires /\ v.started /\ MessageStop \in ToSet(m)
        BY <3>1, <3>6
      <3>14. Good(Finished(v), m, n + 1, sent)
        BY <3>9, <3>10, <3>11, <3>12, <3>13, FinishedGood
      <3>. QED
        BY <3>7, <3>14
    <2>. QED
      BY <2>7, <2>8, <2>9
  <1>. QED
    BY <1>3, <1>4, <1>5 DEF Good

\* All the frames of a chunk.
LEMMA FramesGood ==
  ASSUME NEW m, FollowsProtocol(m), CountsUp(m), NEW n \in 0 .. Len(m), NEW k \in n .. Len(m),
         NEW sent \in Seq(Items), NEW w, Good(w, m, n, sent)
  PROVE  Good(FoldLeft(Read, w, SubSeq(m, n + 1, k)), m, k, sent)
  <1>. DEFINE s == SubSeq(m, n + 1, k)
  <1>1. Len(m) \in Nat /\ n \in Nat /\ k \in Nat /\ n <= k /\ m \in Seq(ToSet(m))
    BY UptoFacts DEF FollowsProtocol
  <1>2. Len(s) = k - n /\ DOMAIN s = 1 .. Len(s) /\ Len(s) \in Nat
        /\ \A i \in 1 .. Len(s) : s[i] = m[n + i]
    BY <1>1
  <1>. HIDE DEF s
  <1>3. PICK f : Run("pi", w, s, f) /\ FoldLeft(Read, w, s) = f[Len(s)]
    BY <1>2, ReadRuns
  <1>. DEFINE F == {i \in 0 .. Len(s) : Good(f[i], m, n + i, sent)}
  <1>4. 0 \in F
    <2>1. f[0] = w /\ n + 0 = n
      BY <1>1, <1>3 DEF Run
    <2>. QED
      BY <1>2, <2>1
  <1>5. ASSUME NEW i \in 0 .. Len(s) - 1, i \in F PROVE i + 1 \in F
    <2>1. i + 1 \in 1 .. Len(s) /\ (i + 1) - 1 = i /\ n + i \in 0 .. Len(m) - 1
          /\ n + (i + 1) = (n + i) + 1 /\ i + 1 \in 0 .. Len(s)
      <3>1. Len(s) = k - n /\ k <= Len(m) /\ Len(s) \in Nat
        BY <1>1, <1>2
      <3>. QED
        BY <1>1, <3>1
    <2>2. f[i + 1] = Read(f[i], m[(n + i) + 1])
      <3>1. f[i + 1] = ReaderStep("pi", f[i], s[i + 1])
        BY <1>3, <2>1 DEF Run
      <3>. QED
        BY <1>2, <2>1, <3>1 DEF ReaderStep
    <2>3. Good(Read(f[i], m[(n + i) + 1]), m, (n + i) + 1, sent)
      BY <1>5, <2>1, ReadStep
    <2>. QED
      BY <2>1, <2>2, <2>3
  <1>6. Len(s) \in F
    <2>. HIDE DEF F
    <2>1. \A i \in 0 .. Len(s) : i \in F
      BY <1>2, <1>4, <1>5, UpTo
    <2>. QED
      BY <1>2, <2>1
  <1>7. n + Len(s) = k
    BY <1>1, <1>2
  <1>. QED
    BY <1>3, <1>6, <1>7 DEF s
-----------------------------------------------------------------------------
(* The Pi interface, step by step.                                         *)

\* Where a chunk ends: after how many events, and how far in the next one.
LEMMA PlacesFacts ==
  ASSUME NEW L \in Nat, NEW p \in 0 .. Places * L, NEW q \in p .. Places * L
  PROVE  /\ p \div Places \in 0 .. L /\ q \div Places \in p \div Places .. L
         /\ Place(p) \in 0 .. 5 /\ p = Places * (p \div Places) + Place(p)
         /\ p = Places * L => p \div Places = L /\ Place(p) = 0
         /\ 0 \div Places = 0 /\ Place(0) = 0
  BY DEF Places, Place

\* What the assumptions say of the message at hand.
LEMMA MessageFacts ==
  ASSUME InputInv
  PROVE  /\ FollowsProtocol(message) /\ CountsUp(message) /\ Len(message) \in Nat
         /\ message \in Messages /\ path \in {"pi", "translated", "passed", "whole"}
         /\ pos \in 0 .. Places * Len(message) /\ Arrivals \in 0 .. Len(message)
         /\ Arrived(pos) = Upto(message, Arrivals)
  <1>1. FollowsProtocol(message) /\ CountsUp(message) /\ message \in Messages
        /\ path \in {"pi", "translated", "passed", "whole"}
    BY AnswerAssumption, CountAssumption DEF InputInv
  <1>2. Len(message) \in Nat
    BY <1>1 DEF FollowsProtocol
  <1>3. pos \in 0 .. Places * Len(message)
    BY DEF InputInv, Total
  <1>4. Arrivals \in 0 .. Len(message)
    BY <1>2, <1>3, PlacesFacts DEF Arrivals
  <1>5. Arrived(pos) = Upto(message, Arrivals)
    BY DEF Arrived, Arrivals
  <1>. QED
    BY <1>1, <1>2, <1>3, <1>4, <1>5

\* The message and the path stay, and no more arrives than the message has.
LEMMA InputInductive ==
  /\ AnswerInit => InputInv
  /\ InputInv /\ [AnswerNext]_answerVars => InputInv' /\ message' = message /\ path' = path
                                /\ pos' \in pos .. Total
  <1>1. AnswerInit => InputInv
    <2>. SUFFICES ASSUME AnswerInit PROVE InputInv
      OBVIOUS
    <2>1. message \in Messages /\ path \in Paths /\ pos = 0 /\ stage = "open"
      BY DEF AnswerInit
    <2>2. Len(message) \in Nat
      BY <2>1, AnswerAssumption DEF FollowsProtocol
    <2>3. pos \in 0 .. Total
      BY <2>1, <2>2 DEF Total, Places
    <2>. QED
      BY <2>1, <2>3 DEF InputInv
  <1>2. ASSUME InputInv, [AnswerNext]_answerVars
        PROVE  InputInv' /\ message' = message /\ path' = path /\ pos' \in pos .. Total
    <2>1. Len(message) \in Nat /\ pos \in 0 .. Total /\ Total \in Nat
      BY <1>2, MessageFacts DEF InputInv, Total, Places
    <2>2. CASE Chunk
      <3>1. PICK to \in pos + 1 .. Total : pos' = to
        BY <2>2 DEF Chunk
      <3>2. message' = message /\ path' = path /\ stage' = stage
        BY <2>2 DEF Chunk, request
      <3>. QED
        BY <1>2, <2>1, <3>1, <3>2 DEF InputInv, Total
    <2>3. CASE ~Chunk
      <3>1. /\ message' = message /\ path' = path /\ pos' = pos
            /\ stage' \in {stage, "ended", "failed", "left"}
        BY <1>2, <2>3 DEF AnswerNext, answerVars, request, PiSend, PiEnd, PiUpstreamEnds,
          PiUpstreamFails, StreamEnds, WholeEnds, UpstreamFails, Leave, End
      <3>. QED
        BY <1>2, <2>1, <3>1 DEF InputInv, Total
    <2>. QED
      BY <2>2, <2>3
  <1>. QED
    BY <1>1, <1>2

\* What is sent was at the head of the queue.
LEMMA SendKeeps ==
  ASSUME NEW sent \in Seq(Items), NEW q \in Seq(Items), q # <<>>
  PROVE  /\ Append(sent, Head(q)) \in Seq(Items) /\ Tail(q) \in Seq(Items)
         /\ Append(sent, Head(q)) \o Tail(q) = sent \o q
         /\ Len(sent) < Len(sent \o q) /\ Head(q) = (sent \o q)[Len(sent) + 1]
         /\ \A i \in 1 .. Len(sent) : (sent \o q)[i] = sent[i]
  <1>1. Head(q) \in Items /\ Tail(q) \in Seq(Items) /\ <<Head(q)>> \in Seq(Items)
    OBVIOUS
  <1>2. Append(sent, Head(q)) = sent \o <<Head(q)>> /\ Append(sent, Head(q)) \in Seq(Items)
    BY <1>1, AppendIsConcat
  <1>3. (sent \o <<Head(q)>>) \o Tail(q) = sent \o (<<Head(q)>> \o Tail(q))
    BY <1>1, ConcatAssociative
  <1>4. <<Head(q)>> \o Tail(q) = q
    OBVIOUS
  <1>5. /\ Len(sent) < Len(sent \o q) /\ Head(q) = (sent \o q)[Len(sent) + 1]
        /\ \A i \in 1 .. Len(sent) : (sent \o q)[i] = sent[i]
    OBVIOUS
  <1>. QED
    BY <1>1, <1>2, <1>3, <1>4, <1>5

\* A Machine that gives up before all is told.
LEMMA FailedGood ==
  ASSUME NEW m, FollowsProtocol(m), CountsUp(m), NEW n \in 0 .. Len(m), NEW k \in n .. Len(m),
         NEW sent \in Seq(Items), NEW w, Proceeds(w, m, n, sent)
  PROVE  Good(Failed(w), m, k, sent)
  <1>1. Len(m) \in Nat /\ k \in Nat /\ n \in 0 .. k /\ k \in 0 .. Len(m)
    BY UptoFacts
  <1>2. w \in Wires /\ w.counts = Reported(Upto(m, n)) /\ w.observed = Billable(w.counts)
        /\ sent \o w.queue = Story(Upto(m, n))
    BY DEF Proceeds, Synced, Parsed
  <1>3. w.counts \in Totals /\ Reported(Upto(m, k)) \in Totals
        /\ AtMost(w.counts, Reported(Upto(m, k)))
    BY <1>1, <1>2, ReportedOrdered
  <1>4. w.observed \in Totals /\ AtMost(w.observed, w.counts)
    BY <1>2, <1>3, BillableAtMost
  <1>5. AtMost(w.observed, Reported(Upto(m, k)))
    BY <1>3, <1>4, AtMostOrders
  <1>. QED
    BY <1>1, <1>2, <1>3, <1>5, FailedBroke DEF Good

\* Nothing is told before the first chunk.
LEMMA PiInitially ==
  AnswerInit => PiInv
  <1>. SUFFICES ASSUME AnswerInit, path = "pi"
                PROVE  got \in Seq(Items) /\ Good(machine, message, Arrivals, got)
    BY DEF PiInv
  <1>1. InputInv
    BY InputInductive
  <1>2. FollowsProtocol(message) /\ Arrivals = 0
    <2>1. pos = 0
      BY DEF AnswerInit
    <2>. QED
      BY <1>1, <2>1, MessageFacts, PlacesFacts DEF Arrivals
  <1>3. /\ machine = [blocks |-> <<>>, counted |-> FALSE, counts |-> NoTokens,
                reason |-> "none", terminal |-> FALSE, started |-> FALSE,
                queue |-> <<>>, done |-> FALSE, observed |-> NoTokens]
        /\ got = <<>>
    BY DEF AnswerInit
  <1>4. machine \in Wires
    <2>1. NoTokens \in Totals
      BY NoTokensFacts
    <2>2. <<>> \in Seq(Block) /\ <<>> \in Seq(Items)
      BY EmptySeq
    <2>. QED
      BY <1>3, <2>1, <2>2 DEF Wires, EndReasons
  <1>5. /\ machine.blocks = <<>> /\ ~machine.counted /\ machine.counts = NoTokens
        /\ machine.reason = "none" /\ ~machine.terminal /\ ~machine.started
        /\ machine.queue = <<>> /\ ~machine.done /\ machine.observed = NoTokens
    BY <1>3
  <1>6. /\ Opened(Upto(message, 0)) = {} /\ Reported(Upto(message, 0)) = NoTokens
        /\ Reason(Upto(message, 0)) = "none" /\ Story(Upto(message, 0)) = <<>>
        /\ ToSet(Upto(message, 0)) = {}
    BY <1>2, NothingYet, UptoFacts
  <1>7. ~HasTools(machine) /\ ~Tools(Upto(message, 0))
    BY <1>5, <1>6 DEF HasTools, Tools
  <1>8. Parsed(machine, message, 0)
    BY <1>4, <1>5, <1>6, <1>7 DEF Parsed
  <1>9. machine.observed = Billable(machine.counts)
    BY <1>5 DEF Billable
  <1>10. got \o machine.queue = Story(Upto(message, 0))
    BY <1>3, <1>5, <1>6
  <1>. QED
    BY <1>2, <1>3, <1>8, <1>9, <1>10 DEF Good, Proceeds, Synced

\* A chunk is read, or given up.
LEMMA PiChunkGood ==
  ASSUME InputInv, PiInv, Chunk, path = "pi"
  PROVE  got' = got /\ Good(machine', message, Arrivals', got)
  <1>1. PICK to \in pos + 1 .. Total :
          pos' = to /\ (TranslateChunk(to) \/ PassChunk(to) \/ CollectChunk(to) \/ PiChunk(to))
    BY DEF Chunk
  <1>2. PiChunk(to)
    BY <1>1 DEF TranslateChunk, PassChunk, CollectChunk
  <1>3. /\ FollowsProtocol(message) /\ CountsUp(message) /\ Len(message) \in Nat
        /\ Arrivals \in 0 .. Len(message) /\ pos \in 0 .. Places * Len(message)
    BY MessageFacts
  <1>4. Arrivals' = to \div Places /\ to \div Places \in Arrivals .. Len(message)
    <2>1. to \in pos .. Places * Len(message)
      BY <1>3 DEF Total, Places
    <2>. QED
      BY <1>1, <1>3, <2>1, PlacesFacts DEF Arrivals
  <1>5. got \in Seq(Items) /\ Good(machine, message, Arrivals, got) /\ ~machine.done
        /\ got' = got
    BY <1>2 DEF PiInv, PiChunk, Asks
  <1>6. Proceeds(machine, message, Arrivals, got)
    BY <1>5 DEF Good, Broke, Completed
  <1>7. Frames(to) = SubSeq(message, Arrivals + 1, to \div Places)
    BY DEF Frames, Arrivals
  <1>8. Good(Failed(machine), message, to \div Places, got)
    BY <1>3, <1>4, <1>5, <1>6, FailedGood
  <1>9. Good(FoldLeft(Read, machine, Frames(to)), message, to \div Places, got)
    BY <1>3, <1>4, <1>5, <1>7, FramesGood
  <1>10. machine' \in {Failed(machine), FoldLeft(Read, machine, Frames(to))}
    BY <1>2 DEF PiChunk
  <1>. QED
    BY <1>4, <1>5, <1>8, <1>9, <1>10

\* The client is sent the head of the queue.
LEMMA PiSendGood ==
  ASSUME InputInv, PiInv, PiSend, path = "pi"
  PROVE  got' \in Seq(Items) /\ Good(machine', message, Arrivals, got')
  <1>1. /\ machine.queue # <<>> /\ got' = Append(got, Head(machine.queue))
        /\ machine' = [machine EXCEPT !.queue = Tail(@)]
    BY DEF PiSend
  <1>2. got \in Seq(Items) /\ Good(machine, message, Arrivals, got)
    BY DEF PiInv
  <1>3. machine \in Wires /\ machine.queue \in Seq(Items)
    BY <1>2 DEF Good, Proceeds, Synced, Parsed, Broke, Completed, Wires
  <1>4. /\ got' \in Seq(Items) /\ Tail(machine.queue) \in Seq(Items)
        /\ got' \o Tail(machine.queue) = got \o machine.queue
    BY <1>1, <1>2, <1>3, SendKeeps
  <1>. DEFINE v == machine'
  <1>5. /\ v \in Wires /\ v.queue = Tail(machine.queue)
        /\ v.blocks = machine.blocks /\ (v.counted <=> machine.counted)
        /\ v.counts = machine.counts /\ v.reason = machine.reason
        /\ (v.terminal <=> machine.terminal) /\ (v.started <=> machine.started)
        /\ (v.done <=> machine.done) /\ v.observed = machine.observed
    BY <1>1, <1>3, <1>4 DEF Wires
  <1>6. got' \o v.queue = got \o machine.queue
    BY <1>4, <1>5
  <1>. HIDE DEF v
  <1>7. HasTools(v) <=> HasTools(machine)
    BY <1>5 DEF HasTools
  <1>8. Proceeds(machine, message, Arrivals, got) => Proceeds(v, message, Arrivals, got')
    BY <1>5, <1>6, <1>7 DEF Proceeds, Synced, Parsed
  <1>9. Broke(machine, message, Arrivals, got) => Broke(v, message, Arrivals, got')
    BY <1>5, <1>6 DEF Broke
  <1>10. Completed(machine, message, Arrivals, got) => Completed(v, message, Arrivals, got')
    BY <1>5, <1>6 DEF Completed
  <1>11. Good(v, message, Arrivals, got')
    BY <1>2, <1>8, <1>9, <1>10 DEF Good
  <1>. QED
    BY <1>4, <1>11 DEF v

\* Upstream is at its end, or breaks off: the message had no end.
LEMMA PiUpstreamGood ==
  ASSUME InputInv, PiInv, PiUpstreamEnds \/ PiUpstreamFails
  PROVE  got' = got /\ Good(machine', message, Arrivals, got)
  <1>1. got' = got /\ path = "pi" /\ ~machine.done
        /\ machine' \in {Failed(machine), Finished(machine)}
    BY DEF PiUpstreamEnds, PiUpstreamFails, Asks
  <1>2. got \in Seq(Items) /\ Good(machine, message, Arrivals, got)
    BY <1>1 DEF PiInv
  <1>3. Proceeds(machine, message, Arrivals, got)
    BY <1>1, <1>2 DEF Good, Broke, Completed
  <1>4. Finished(machine) = Failed(machine)
    BY <1>3 DEF Finished, Proceeds, Synced, Parsed
  <1>5. /\ FollowsProtocol(message) /\ CountsUp(message) /\ Arrivals \in 0 .. Len(message)
        /\ Arrivals \in Arrivals .. Len(message)
    BY MessageFacts
  <1>. QED
    BY <1>1, <1>2, <1>3, <1>4, <1>5, FailedGood

\* What the Pi client is told is the message, as far as it is told.
LEMMA PiInductive ==
  ASSUME InputInv, PiInv, [AnswerNext]_answerVars
  PROVE  PiInv'
  <1>1. InputInv' /\ message' = message /\ path' = path
    BY InputInductive
  <1>. SUFFICES ASSUME path = "pi"
                PROVE  got' \in Seq(Items) /\ Good(machine', message, Arrivals', got')
                       /\ priced' = priced
    <2>1. ASSUME priced' = priced, Good(machine', message, Arrivals', got')
          PROVE  Good(machine, message, Arrivals, got)'
      BY <1>1, <2>1 DEF Good, Proceeds, Synced, Parsed, Billable, Broke, Completed
    <2>. QED
      BY <1>1, <2>1 DEF PiInv
  <1>2. got \in Seq(Items) /\ Good(machine, message, Arrivals, got)
    BY DEF PiInv
  <1>3. CASE Chunk
    BY <1>2, <1>3, PiChunkGood DEF Chunk, request
  <1>4. CASE PiSend
    BY <1>4, PiSendGood DEF PiSend, request, Arrivals
  <1>5. CASE PiUpstreamEnds \/ PiUpstreamFails
    BY <1>2, <1>5, PiUpstreamGood DEF PiUpstreamEnds, PiUpstreamFails, request, Arrivals
  <1>6. CASE PiEnd \/ StreamEnds \/ WholeEnds \/ UpstreamFails \/ Leave \/ UNCHANGED answerVars
    <2>1. UNCHANGED <<machine, got, pos, priced>>
      BY <1>6 DEF PiEnd, StreamEnds, WholeEnds, UpstreamFails, Leave, answerVars, request
    <2>. QED
      BY <1>2, <2>1 DEF Arrivals
  <1>. QED
    BY <1>3, <1>4, <1>5, <1>6 DEF AnswerNext

\* The abstract specification means the same by a message.
LEMMA SameMeaning ==
  \A m : Telling!Meaning(m) = Meaning(m)
  BY DEF Telling!Meaning, Meaning, Telling!Story, Story, Telling!Closings, Closings,
         Telling!Told, Told, Telling!FlattenSeq, FlattenSeq, Telling!Proper, Proper,
         Telling!Reason, Reason, Telling!Reasons, Reasons, Telling!Reported, Reported,
         Telling!Reporting, Reporting, Telling!NoTokens, NoTokens, Telling!Tools, Tools,
         Telling!MessageStop, MessageStop, Telling!BlockStop, BlockStop, Telling!ToSet, ToSet,
         Telling!Max, Max

\* The meaning of a message is its story, and an end at most behind it.
LEMMA MeaningFacts ==
  ASSUME NEW m, FollowsProtocol(m), CountsUp(m)
  PROVE  /\ Meaning(m) \in Seq(Items) /\ Story(m) \in Seq(Progress)
         /\ Len(Story(m)) <= Len(Meaning(m))
         /\ \A i \in 1 .. Len(Story(m)) : Meaning(m)[i] = Story(m)[i]
         /\ \A i \in 1 .. Len(Meaning(m)) - 1 : Meaning(m)[i] \in Progress
  <1>. DEFINE left(i) == IF m[i].type = "content_block_start"
                            /\ BlockStop(m[i].block) \notin ToSet(m)
                         THEN <<[type |-> "close", block |-> m[i].block]>> ELSE <<>>
              C == [i \in 1 .. Len(m) |-> left(i)]
              end == [type |-> "done", reason |-> Reason(m), usage |-> Reported(m)]
              p == Story(m) \o Closings(m)
  <1>1. Len(m) \in Nat /\ DOMAIN m = 1 .. Len(m) /\ Upto(m, Len(m)) = m
        /\ 0 \in 0 .. Len(m) /\ Len(m) \in 0 .. Len(m) /\ Len(m) \in 0 .. Len(m)
        /\ \A i \in 1 .. Len(m) : IsEvent(m[i])
    BY NothingYet, UptoFacts
  <1>2. Story(m) \in Seq(Progress)
    BY <1>1, StoryPrefix
  <1>3. Closings(m) \in Seq(Progress)
    <2>1. ASSUME NEW i \in 1 .. Len(m) PROVE left(i) \in Seq(Progress)
      <3>1. m[i].type = "content_block_start" => m[i].block \in Nat
        BY <1>1, EventFacts
      <3>2. m[i].block \in Nat => [type |-> "close", block |-> m[i].block] \in Progress
        BY DEF Progress
      <3>3. <<>> \in Seq(Progress)
        BY EmptySeq
      <3>. QED
        BY <3>1, <3>2, <3>3
    <2>2. Closings(m) = FlattenSeq(C)
      BY <1>1 DEF Closings
    <2>. HIDE DEF left
    <2>3. C \in Seq(Seq(Progress))
      BY <1>1, <2>1
    <2>4. <<>> \in Seq(Progress)
      BY EmptySeq
    <2>. HIDE DEF C
    <2>. QED
      BY <2>2, <2>3, <2>4, FlattenAppend
  <1>4. p \in Seq(Progress) /\ Len(Story(m)) <= Len(p)
        /\ \A i \in 1 .. Len(Story(m)) : p[i] = Story(m)[i]
    BY <1>2, <1>3
  <1>5. Progress \subseteq Items
    BY DEF Items
  <1>6. CASE ~Proper(m)
    <2>1. Meaning(m) = Story(m)
      BY <1>2, <1>6, ConcatEmptySeq DEF Meaning
    <2>. QED
      BY <1>2, <1>5, <2>1
  <1>7. CASE Proper(m)
    <2>1. end \in Items
      <3>1. Reported(m) \in Totals
        BY <1>1, ReportedOrdered
      <3>2. Reason(m) \in EndReasons
        <4>1. Reasons(m) \in SUBSET (0 .. Len(m))
          BY <1>1 DEF Reasons
        <4>2. Reason(m) # "none"
          BY <1>7 DEF Proper
        <4>3. Reasons(m) # {}
          BY <4>2 DEF Reason
        <4>4. Max(Reasons(m)) \in Reasons(m)
          BY <1>1, <4>1, <4>3, MaxFacts
        <4>5. Max(Reasons(m)) \in 1 .. Len(m) /\ m[Max(Reasons(m))].type = "message_delta"
          BY <1>1, <4>4 DEF Reasons
        <4>6. IsEvent(m[Max(Reasons(m))])
          BY <1>1, <4>5
        <4>. QED
          BY <4>3, <4>5, <4>6, EventFacts DEF Reason
      <3>. QED
        BY <3>1, <3>2 DEF Items
    <2>2. Meaning(m) = Story(m) \o (Closings(m) \o <<end>>)
      BY <1>7 DEF Meaning
    <2>. HIDE DEF end
    <2>3. Story(m) \in Seq(Items) /\ Closings(m) \in Seq(Items)
      BY <1>2, <1>3, <1>5
    <2>4. Meaning(m) = Append(p, end)
      BY <2>1, <2>2, <2>3, Chains
    <2>. HIDE DEF p
    <2>. QED
      BY <1>2, <1>4, <1>5, <2>1, <2>4
  <1>. QED
    BY <1>6, <1>7

\* What is sent is what the meaning has next, or an error, and nothing ended before.
LEMMA PiSendTells ==
  ASSUME InputInv, PiInv, PiSend, path = "pi"
  PROVE  /\ got \in Seq(Items) /\ (got # <<>> => got[Len(got)].type \notin {"done", "error"})
         /\ \/ /\ Len(got) < Len(Meaning(message))
               /\ got' = Append(got, Meaning(message)[Len(got) + 1])
            \/ got' = Append(got, [type |-> "error"])
  <1>. DEFINE q == machine.queue
              whole == got \o q
              M == Meaning(message)
              next == Len(got) + 1
  <1>1. q # <<>> /\ got' = Append(got, Head(q))
    BY DEF PiSend
  <1>2. got \in Seq(Items) /\ Good(machine, message, Arrivals, got)
    BY DEF PiInv
  <1>3. q \in Seq(Items)
    BY <1>2 DEF Good, Proceeds, Synced, Parsed, Broke, Completed, Wires
  <1>4. /\ Len(got) < Len(whole) /\ Head(q) = whole[next]
        /\ \A i \in 1 .. Len(got) : whole[i] = got[i]
        /\ Len(got) \in Nat /\ Len(whole) \in Nat
    BY <1>1, <1>2, <1>3, SendKeeps
  <1>5. /\ FollowsProtocol(message) /\ CountsUp(message) /\ Len(message) \in Nat
        /\ Arrivals \in 0 .. Len(message) /\ Upto(message, Len(message)) = message
    BY MessageFacts, UptoFacts
  <1>6. /\ M \in Seq(Items) /\ Story(message) \in Seq(Progress)
        /\ Len(Story(message)) <= Len(M)
        /\ \A i \in 1 .. Len(Story(message)) : M[i] = Story(message)[i]
        /\ \A i \in 1 .. Len(M) - 1 : M[i] \in Progress
    BY <1>5, MeaningFacts
  <1>7. \A x \in Progress : x.type \notin {"done", "error"}
    BY DEF Progress
  <1>8. ASSUME NEW j \in 0 .. Len(message)
        PROVE  /\ Story(Upto(message, j)) \in Seq(Progress)
               /\ Len(Story(Upto(message, j))) <= Len(M)
               /\ \A i \in 1 .. Len(Story(Upto(message, j))) :
                    M[i] = Story(Upto(message, j))[i]
    <2>1. Len(message) \in 0 .. Len(message) /\ j \in 0 .. Len(message)
      BY <1>5
    <2>2. /\ Story(Upto(message, j)) \in Seq(Progress)
          /\ Len(Story(Upto(message, j))) <= Len(Story(message))
          /\ \A i \in 1 .. Len(Story(Upto(message, j))) :
               Story(message)[i] = Story(Upto(message, j))[i]
      BY <1>5, <2>1, StoryPrefix
    <2>. QED
      BY <1>6, <2>2
  <1>. HIDE DEF q, whole, M
  <1>9. ASSUME NEW i \in Nat, NEW s \in Seq(Progress), i = Len(got), i <= Len(s),
               \A k \in 1 .. i : got[k] = s[k]
        PROVE  got # <<>> => got[Len(got)].type \notin {"done", "error"}
    <2>1. ASSUME got # <<>> PROVE i \in 1 .. i /\ i \in 1 .. Len(s)
      BY <1>2, <1>9, <2>1
    <2>2. got # <<>> => got[i] = s[i] /\ s[i] \in Progress
      BY <1>9, <2>1
    <2>. QED
      BY <1>7, <1>9, <2>2
  <1>10. CASE Proceeds(machine, message, Arrivals, got)
    <2>1. whole = Story(Upto(message, Arrivals))
      BY <1>10 DEF Proceeds, whole, q
    <2>2. Len(got) <= Len(whole) /\ whole \in Seq(Progress)
      BY <1>4, <1>5, <1>8, <2>1
    <2>3. got # <<>> => got[Len(got)].type \notin {"done", "error"}
      BY <1>4, <1>9, <2>2
    <2>4. Len(got) < Len(M) /\ M[next] = whole[next]
      <3>1. Len(whole) <= Len(M) /\ \A i \in 1 .. Len(whole) : M[i] = whole[i]
        BY <1>5, <1>8, <2>1
      <3>2. next \in 1 .. Len(whole) /\ Len(M) \in Nat
        BY <1>4, <1>6
      <3>. QED
        BY <1>4, <3>1, <3>2
    <2>. QED
      BY <1>1, <1>2, <1>4, <2>3, <2>4 DEF M
  <1>11. CASE Broke(machine, message, Arrivals, got)
    <2>1. PICK j \in 0 .. Arrivals :
            whole = Append(Story(Upto(message, j)), [type |-> "error"])
      BY <1>11 DEF Broke, whole, q
    <2>. DEFINE s == Story(Upto(message, j))
    <2>2. j \in 0 .. Len(message)
      BY <1>5
    <2>3. s \in Seq(Progress) /\ Len(s) <= Len(M) /\ \A i \in 1 .. Len(s) : M[i] = s[i]
      BY <1>8, <2>2
    <2>. HIDE DEF s
    <2>4. /\ Len(whole) = Len(s) + 1 /\ whole[Len(s) + 1] = [type |-> "error"]
          /\ \A i \in 1 .. Len(s) : whole[i] = s[i]
      BY <2>1, <2>3 DEF s
    <2>5. Len(got) <= Len(s) /\ \A i \in 1 .. Len(got) : got[i] = s[i]
      BY <1>4, <2>3, <2>4
    <2>6. got # <<>> => got[Len(got)].type \notin {"done", "error"}
      BY <1>4, <1>9, <2>3, <2>5
    <2>7. CASE Len(got) = Len(s)
      BY <1>1, <1>2, <1>4, <2>4, <2>6, <2>7
    <2>8. CASE Len(got) < Len(s)
      <3>1. next \in 1 .. Len(s) /\ Len(got) < Len(M)
        BY <1>4, <1>6, <2>3, <2>8
      <3>2. M[next] = whole[next]
        BY <2>3, <2>4, <3>1
      <3>. QED
        BY <1>1, <1>2, <1>4, <2>6, <3>1, <3>2 DEF M
    <2>. QED
      BY <1>4, <2>3, <2>5, <2>7, <2>8
  <1>12. CASE Completed(machine, message, Arrivals, got)
    <2>1. whole = M
      BY <1>12 DEF Completed, whole, q, M
    <2>2. ASSUME got # <<>> PROVE Len(got) \in 1 .. Len(M) - 1 /\ Len(got) \in 1 .. Len(got)
      BY <1>2, <1>4, <1>6, <2>1, <2>2
    <2>3. got # <<>> => got[Len(got)].type \notin {"done", "error"}
      BY <1>4, <1>6, <1>7, <2>1, <2>2
    <2>. QED
      BY <1>1, <1>2, <1>4, <2>1, <2>3 DEF M
  <1>. QED
    BY <1>2, <1>10, <1>11, <1>12 DEF Good

\* A client of the Pi interface is told the message in order and from its
\* beginning, and then its end, if all was told, or an error, and nothing after
\* that, for every message that follows the protocol, however it is cut
\* (Framer, Machine::fail, Machine::finish).
THEOREM TellsTheMessage ==
  AnswerSpec => ImplementsTelling
  <1>1. AnswerInit => Telling!TellingInit
    BY DEF AnswerInit, Telling!TellingInit
  <1>2. AnswerInit => InputInv /\ PiInv
    BY InputInductive, PiInitially
  <1>3. InputInv /\ PiInv /\ [AnswerNext]_answerVars => InputInv' /\ PiInv'
    BY InputInductive, PiInductive
  <1>. DEFINE told == IF path = "pi" THEN got ELSE <<>>
  <1>4. InputInv /\ PiInv /\ [AnswerNext]_answerVars
          => [Telling!Tell \/ Telling!Fail]_<<message, told>>
    <2>. SUFFICES ASSUME InputInv, PiInv, [AnswerNext]_answerVars
                  PROVE  Telling!Tell \/ Telling!Fail \/ UNCHANGED <<message, told>>
      OBVIOUS
    <2>1. message' = message /\ path' = path
      BY InputInductive
    <2>2. CASE path # "pi"
      BY <2>1, <2>2
    <2>3. CASE path = "pi" /\ PiSend
      <3>1. told = got /\ told' = got'
        BY <2>1, <2>3
      <3>2. /\ got \in Seq(Items) /\ (got # <<>> => got[Len(got)].type \notin {"done", "error"})
            /\ \/ /\ Len(got) < Len(Meaning(message))
                  /\ got' = Append(got, Meaning(message)[Len(got) + 1])
               \/ got' = Append(got, [type |-> "error"])
        BY <2>3, PiSendTells
      <3>3. Telling!Over <=> told # <<>> /\ told[Len(told)].type \in {"done", "error"}
        BY DEF Telling!Over, Telling!Last
      <3>4. Telling!Meaning(message) = Meaning(message)
        BY SameMeaning
      <3>. QED
        BY <2>1, <2>3, <3>1, <3>2, <3>3, <3>4 DEF Telling!Tell, Telling!Fail
    <2>4. CASE path = "pi" /\ ~PiSend
      <3>1. got' = got
        <4>1. CASE Chunk
          BY <2>4, <4>1, PiChunkGood
        <4>2. CASE PiEnd \/ PiUpstreamEnds \/ PiUpstreamFails \/ StreamEnds
                   \/ WholeEnds \/ UpstreamFails \/ Leave \/ UNCHANGED answerVars
          BY <2>4, <4>2 DEF PiEnd, PiUpstreamEnds, PiUpstreamFails, StreamEnds, WholeEnds,
            UpstreamFails, Leave, answerVars
        <4>. QED
          BY <2>4, <4>1, <4>2 DEF AnswerNext
      <3>. QED
        BY <2>1, <3>1
    <2>. QED
      BY <2>2, <2>3, <2>4
  <1>. QED
    BY <1>1, <1>2, <1>3, <1>4, PTL DEF AnswerSpec, ImplementsTelling, Telling!TellingSpec,
      Telling!tellingVars
-----------------------------------------------------------------------------
(* The lines of a chunk.                                                   *)

\* How much of an event has arrived.
LEMMA WithinFacts ==
  ASSUME NEW p \in Nat, NEW i \in Nat \ {0}
  PROVE  /\ Within(i, p) \in 0 .. 6
         /\ i <= p \div Places => Within(i, p) = 6
         /\ i = p \div Places + 1 => Within(i, p) = Place(p)
         /\ i > p \div Places + 1 => Within(i, p) = 0
         /\ Place(p) \in 0 .. 5 /\ p \div Places \in Nat
         /\ p = 6 * (p \div Places) + Place(p)
  <1>. DEFINE n == p \div Places
  <1>1. n \in Nat /\ Place(p) \in 0 .. 5 /\ p = 6 * n + Place(p)
    BY DEF Places, Place
  <1>. HIDE DEF n
  <1>2. p - Places * (i - 1) = 6 * n + Place(p) - 6 * (i - 1)
    BY <1>1 DEF Places
  <1>3. i <= n => p - Places * (i - 1) >= 6
    BY <1>1, <1>2
  <1>4. i = n + 1 => p - Places * (i - 1) = Place(p)
    BY <1>1, <1>2
  <1>5. i > n + 1 => p - Places * (i - 1) < 0
    BY <1>1, <1>2
  <1>6. Within(i, p) \in 0 .. 6
    BY DEF Within, Places
  <1>. QED
    BY <1>1, <1>3, <1>4, <1>5, <1>6 DEF Within, Places, n

LinesOf(m) ==
  [line : {"event"}, type : Types] \union [line : {"broken"}]
    \union [line : {"data"}, event : ToSet(m)]

\* The lines of the first events of a chunk from place p to place q.
EventOf(i, p, q) == EventLine(message[i], Within(i, p), Within(i, q))
DataOf(i, p, q) == DataLine(message[i], Within(i, p), Within(i, q))
First(k, p, q) == FlattenSeq([i \in 1 .. k |-> EventOf(i, p, q) \o DataOf(i, p, q)])

\* The lines of one event more.
LEMMA FirstStep ==
  ASSUME FollowsProtocol(message), NEW p \in Nat, NEW q \in Nat, NEW k \in 0 .. Len(message) - 1
  PROVE  /\ First(0, p, q) = <<>>
         /\ First(k, p, q) \in Seq(LinesOf(message))
         /\ First(k, p, q) \o EventOf(k + 1, p, q) \in Seq(LinesOf(message))
         /\ First(k + 1, p, q) = (First(k, p, q) \o EventOf(k + 1, p, q)) \o DataOf(k + 1, p, q)
         /\ \A l \in ToSet(EventOf(k + 1, p, q)) : l \in LinesOf(message)
         /\ \A l \in ToSet(DataOf(k + 1, p, q)) : l \in LinesOf(message)
  <1>. DEFINE A == LinesOf(message)
              S(j) == [i \in 1 .. j |-> EventOf(i, p, q) \o DataOf(i, p, q)]
  <1>1. Len(message) \in Nat /\ \A i \in 1 .. Len(message) : IsEvent(message[i])
        /\ DOMAIN message = 1 .. Len(message)
    BY UptoFacts
  <1>2. ASSUME NEW i \in 1 .. Len(message)
        PROVE  /\ EventOf(i, p, q) \in Seq(A) /\ DataOf(i, p, q) \in Seq(A)
               /\ \A l \in ToSet(EventOf(i, p, q)) : l \in A
               /\ \A l \in ToSet(DataOf(i, p, q)) : l \in A
    <2>. DEFINE e == message[i]
    <2>1. e.type \in Types /\ e \in ToSet(message)
      BY <1>1, EventFacts DEF Types, ToSet
    <2>. HIDE DEF e
    <2>2. /\ [line |-> "event", type |-> e.type] \in A /\ [line |-> "event", type |-> "torn"] \in A
          /\ [line |-> "broken"] \in A /\ [line |-> "data", event |-> e] \in A
      BY <2>1 DEF LinesOf, Types
    <2>3. EventOf(i, p, q) \in {<<>>, <<[line |-> "event", type |-> e.type]>>,
                                <<[line |-> "event", type |-> "torn"]>>}
      BY DEF EventOf, EventLine, e
    <2>4. DataOf(i, p, q) \in {<<>>, <<[line |-> "broken"]>>, <<[line |-> "data", event |-> e]>>}
      BY DEF DataOf, DataLine, e
    <2>5. ASSUME NEW x \in A PROVE <<x>> \in Seq(A) /\ \A l \in ToSet(<<x>>) : l \in A
      BY DEF ToSet
    <2>6. <<>> \in Seq(A) /\ \A l \in ToSet(<<>>) : l \in A
      BY EmptySeq DEF ToSet
    <2>. HIDE DEF A
    <2>. QED
      BY <2>2, <2>3, <2>4, <2>5, <2>6
  <1>. HIDE DEF A
  <1>3. k + 1 \in 1 .. Len(message) /\ k \in Nat
    BY <1>1
  <1>4. \A i \in 1 .. Len(message) : EventOf(i, p, q) \o DataOf(i, p, q) \in Seq(A)
    BY <1>2
  <1>5. S(k) \in Seq(Seq(A)) /\ S(k + 1) = Append(S(k), EventOf(k + 1, p, q) \o DataOf(k + 1, p, q))
    BY <1>1, <1>4
  <1>6. S(0) = <<>> /\ <<>> \in Seq(A)
    OBVIOUS
  <1>. HIDE DEF S
  <1>7. FlattenSeq(<<>>) = <<>> /\ FlattenSeq(S(k)) \in Seq(A)
        /\ FlattenSeq(S(k + 1)) = FlattenSeq(S(k)) \o (EventOf(k + 1, p, q) \o DataOf(k + 1, p, q))
    BY <1>3, <1>4, <1>5, FlattenAppend
  <1>8. /\ First(0, p, q) = FlattenSeq(S(0)) /\ First(k, p, q) = FlattenSeq(S(k))
        /\ First(k + 1, p, q) = FlattenSeq(S(k + 1))
    BY DEF First, S
  <1>9. EventOf(k + 1, p, q) \in Seq(A) /\ DataOf(k + 1, p, q) \in Seq(A)
    BY <1>2, <1>3
  <1>10. First(k + 1, p, q) = (First(k, p, q) \o EventOf(k + 1, p, q)) \o DataOf(k + 1, p, q)
    <2>. DEFINE f == First(k, p, q)
                E == EventOf(k + 1, p, q)
                D == DataOf(k + 1, p, q)
    <2>1. f \in Seq(A) /\ E \in Seq(A) /\ D \in Seq(A)
      BY <1>7, <1>8, <1>9
    <2>. HIDE DEF f, E, D
    <2>2. (f \o E) \o D = f \o (E \o D)
      BY <2>1, ConcatAssociative
    <2>. QED
      BY <1>7, <1>8, <2>2 DEF f, E, D
  <1>11. First(k, p, q) \o EventOf(k + 1, p, q) \in Seq(A)
    BY <1>7, <1>8, <1>9
  <1>. QED
    BY <1>2, <1>3, <1>6, <1>7, <1>8, <1>10, <1>11 DEF A

\* What becomes of the two readers with the lines of one event.
EventRead(s, i, p, q) ==
  IF Within(i, p) > 0 \/ Within(i, q) < 2 THEN s
  ELSE TranslateLine(s, [line |-> "event",
                         type |-> IF Within(i, q) > 2 THEN message[i].type ELSE "torn"])
DataRead(s, i, p, q) ==
  IF Within(i, p) > 3 \/ Within(i, q) < 5 THEN s
  ELSE IF Within(i, q) = 5 THEN TranslateLine(s, [line |-> "broken"])
  ELSE TranslateLine(s, [line |-> "data", event |-> message[i]])
CountsRead(x, i, p, q) ==
  IF Within(i, p) <= 3 /\ Within(i, q) > 5 /\ "usage" \in DOMAIN message[i]
  THEN Merge(x, message[i].usage) ELSE x

\* That is what one event more makes of them.
LEMMA FirstRead ==
  ASSUME FollowsProtocol(message), NEW p \in Nat, NEW q \in Nat, NEW k \in 0 .. Len(message) - 1,
         NEW b
  PROVE  /\ Handled(b, First(0, p, q)) = b
         /\ Handled(b, First(k + 1, p, q)) =
              DataRead(EventRead(Handled(b, First(k, p, q)), k + 1, p, q), k + 1, p, q)
         /\ Extracted(b, First(0, p, q)) = b
         /\ Extracted(b, First(k + 1, p, q)) =
              CountsRead(Extracted(b, First(k, p, q)), k + 1, p, q)
  <1>. DEFINE A == LinesOf(message)
              a == Within(k + 1, p)
              z == Within(k + 1, q)
              e == message[k + 1]
              f == First(k, p, q)
              ev == [line |-> "event", type |-> IF z > 2 THEN e.type ELSE "torn"]
              da == IF z = 5 THEN [line |-> "broken"] ELSE [line |-> "data", event |-> e]
              E == EventOf(k + 1, p, q)
              D == DataOf(k + 1, p, q)
              g == f \o E
              T(s) == Handled(b, s)
              X(s) == Extracted(b, s)
  <1>1. /\ First(0, p, q) = <<>> /\ f \in Seq(A) /\ g \in Seq(A)
        /\ First(k + 1, p, q) = g \o D
        /\ \A l \in ToSet(E) : l \in A
        /\ \A l \in ToSet(D) : l \in A
    BY FirstStep
  <1>2. a \in 0 .. 6 /\ z \in 0 .. 6
    <2>1. k + 1 \in Nat \ {0}
      BY UptoFacts
    <2>. QED
      BY <2>1, WithinFacts
  <1>3. E = IF a > 0 \/ z < 2 THEN <<>> ELSE <<ev>>
    BY DEF EventOf, EventLine
  <1>4. D = IF a > 3 \/ z < 5 THEN <<>> ELSE <<da>>
    BY DEF DataOf, DataLine
  <1>5. ASSUME NEW s \in Seq(A), NEW l \in A
        PROVE  /\ s \o <<>> = s /\ s \o <<l>> = Append(s, l)
               /\ T(Append(s, l)) = TranslateLine(T(s), l)
               /\ X(Append(s, l)) = Extract(X(s), l)
    <2>. HIDE DEF A
    <2>1. s \o <<>> = s
      BY ConcatEmptySeq
    <2>2. s \o <<l>> = Append(s, l)
      BY AppendIsConcat
    <2>3. T(Append(s, l)) = TranslateLine(T(s), l)
      BY TranslateAppend
    <2>4. X(Append(s, l)) = Extract(X(s), l)
      BY ExtractAppend
    <2>. QED
      BY <2>1, <2>2, <2>3, <2>4
  <1>6. T(<<>>) = b /\ X(<<>>) = b
    <2>1. [line |-> "broken"] \in A
      BY DEF LinesOf
    <2>. HIDE DEF A
    <2>. QED
      BY <1>1, <2>1, TranslateAppend, ExtractAppend
  <1>. HIDE DEF A, f, E, D, T, X, g
  <1>7. \A s \in Seq(A) : s \o <<>> = s
    BY ConcatEmptySeq
  <1>8. /\ T(g) = IF a > 0 \/ z < 2 THEN T(f) ELSE TranslateLine(T(f), ev)
        /\ X(g) = X(f)
    <2>1. CASE a > 0 \/ z < 2
      BY <1>1, <1>3, <1>7, <2>1 DEF g
    <2>2. CASE ~(a > 0 \/ z < 2)
      <3>1. ev \in A
        <4>1. ev \in ToSet(E)
          BY <1>3, <2>2 DEF ToSet
        <4>. QED
          BY <1>1, <4>1
      <3>2. g = Append(f, ev)
        BY <1>1, <1>3, <1>5, <2>2, <3>1 DEF g
      <3>3. T(g) = TranslateLine(T(f), ev) /\ X(g) = Extract(X(f), ev)
        BY <1>1, <1>5, <3>1, <3>2
      <3>. QED
        BY <2>2, <3>3 DEF Extract
    <2>. QED
      BY <2>1, <2>2
  <1>9. /\ T(g \o D) = IF a > 3 \/ z < 5 THEN T(g) ELSE TranslateLine(T(g), da)
        /\ X(g \o D) = IF a > 3 \/ z < 5 THEN X(g) ELSE Extract(X(g), da)
    <2>1. CASE a > 3 \/ z < 5
      BY <1>1, <1>4, <1>7, <2>1
    <2>2. CASE ~(a > 3 \/ z < 5)
      <3>1. da \in A
        <4>1. da \in ToSet(D)
          BY <1>4, <2>2 DEF ToSet
        <4>. QED
          BY <1>1, <4>1
      <3>2. g \o D = Append(g, da)
        BY <1>1, <1>4, <1>5, <2>2, <3>1
      <3>. HIDE DEF da
      <3>. QED
        BY <1>1, <1>5, <2>2, <3>1, <3>2
    <2>. QED
      BY <2>1, <2>2
  <1>10. X(g \o D) = CountsRead(X(f), k + 1, p, q)
    BY <1>2, <1>8, <1>9 DEF Extract, CountsRead
  <1>11. T(g \o D) = DataRead(T(g), k + 1, p, q)
    BY <1>9 DEF DataRead
  <1>12. T(g) = EventRead(T(f), k + 1, p, q)
    BY <1>8 DEF EventRead
  <1>. QED
    BY <1>1, <1>6, <1>10, <1>11, <1>12 DEF T, X, f

\* The lines of a chunk are those of all events.
LEMMA LinesAreFirst ==
  ASSUME FollowsProtocol(message), NEW to
  PROVE  Lines(to) = First(Len(message), pos, to)
  <1>1. DOMAIN message = 1 .. Len(message)
    BY UptoFacts
  <1>. QED
    BY <1>1 DEF Lines, First, EventOf, DataOf

\* How many events a reader has seen whole when it looked for those that a chunk
\* brings among the first k.
Covered(k, p, q) ==
  IF k <= p \div Places THEN p \div Places
  ELSE IF k <= q \div Places THEN k ELSE q \div Places

\* An event came with an earlier chunk, ends in this one, or ends later.
LEMMA ChunkStep ==
  ASSUME NEW L \in Nat, NEW p \in 0 .. Places * L, NEW q \in p .. Places * L,
         NEW k \in 0 .. L - 1
  PROVE  LET n == p \div Places
             N == q \div Places
             a == Within(k + 1, p)
             z == Within(k + 1, q)
         IN /\ n \in 0 .. L /\ N \in n .. L
            /\ a \in 0 .. 6 /\ z \in 0 .. 6
            /\ Covered(0, p, q) = n /\ Covered(L, p, q) = N
            /\ k < n => a = 6 /\ Covered(k, p, q) = n /\ Covered(k + 1, p, q) = n
            /\ k >= n /\ k < N => z = 6 /\ Covered(k, p, q) = k /\ Covered(k + 1, p, q) = k + 1
            /\ k >= N => z < 6 /\ (k >= n => Covered(k, p, q) = N /\ Covered(k + 1, p, q) = N)
            /\ k = n => a = Place(p)
            /\ k > n => a = 0
            /\ k = N => z = Place(q)
            /\ k > N => z = 0
  <1>. DEFINE n == p \div Places
              N == q \div Places
  <1>1. p \in Nat /\ q \in Nat /\ k + 1 \in Nat \ {0} /\ k \in Nat
    BY DEF Places
  <1>2. n \in 0 .. L /\ N \in n .. L /\ Place(q) \in 0 .. 5
    BY PlacesFacts, <1>1, WithinFacts
  <1>3. /\ Within(k + 1, p) \in 0 .. 6 /\ Within(k + 1, q) \in 0 .. 6
        /\ k + 1 <= n => Within(k + 1, p) = 6
        /\ k + 1 = n + 1 => Within(k + 1, p) = Place(p)
        /\ k + 1 > n + 1 => Within(k + 1, p) = 0
        /\ k + 1 <= N => Within(k + 1, q) = 6
        /\ k + 1 = N + 1 => Within(k + 1, q) = Place(q)
        /\ k + 1 > N + 1 => Within(k + 1, q) = 0
    BY <1>1, WithinFacts
  <1>4. \A j \in 0 .. L : Covered(j, p, q) = IF j <= n THEN n ELSE IF j <= N THEN j ELSE N
    BY DEF Covered
  <1>. HIDE DEF n, N
  <1>5. /\ Covered(0, p, q) = n /\ Covered(L, p, q) = N
        /\ k < n => Covered(k, p, q) = n /\ Covered(k + 1, p, q) = n
        /\ k >= n /\ k < N => Covered(k, p, q) = k /\ Covered(k + 1, p, q) = k + 1
        /\ k >= N /\ k >= n => Covered(k, p, q) = N /\ Covered(k + 1, p, q) = N
    <2>1. 0 \in 0 .. L /\ L \in 0 .. L /\ k \in 0 .. L /\ k + 1 \in 0 .. L
      BY <1>1
    <2>. QED
      BY <1>1, <1>2, <1>4, <2>1
  <1>6. k < n => Within(k + 1, p) = 6
    BY <1>1, <1>2, <1>3
  <1>7. k < N => Within(k + 1, q) = 6
    BY <1>1, <1>2, <1>3
  <1>8. k = n => Within(k + 1, p) = Place(p)
    BY <1>1, <1>2, <1>3
  <1>9. k > n => Within(k + 1, p) = 0
    BY <1>1, <1>2, <1>3
  <1>10. k = N => Within(k + 1, q) = Place(q)
    BY <1>1, <1>2, <1>3
  <1>11. k > N => Within(k + 1, q) = 0
    BY <1>1, <1>2, <1>3
  <1>12. k >= N => Within(k + 1, q) < 6
    BY <1>1, <1>2, <1>10, <1>11
  <1>. QED
    BY <1>1, <1>2, <1>3, <1>5, <1>6, <1>7, <1>8, <1>9, <1>10, <1>11, <1>12 DEF n, N

\* A body that is passed on: what is made of a chunk is at most what was
\* reported, and all of it if no line of data was torn, then or before.
LEMMA ExtractedGood ==
  ASSUME FollowsProtocol(message), CountsUp(message), Len(message) \in Nat,
         NEW p \in 0 .. Places * Len(message), NEW q \in p .. Places * Len(message),
         NEW t \in Totals, AtMost(t, Reported(Upto(message, p \div Places))),
         NEW whole \in BOOLEAN,
         whole => Place(p) \in 0 .. 3 /\ t = Reported(Upto(message, p \div Places))
  PROVE  LET x == Extracted(t, First(Len(message), p, q))
             r == Reported(Upto(message, q \div Places))
         IN x \in Totals /\ AtMost(x, r) /\ (whole => x = r)
  <1>. DEFINE L == Len(message)
              x(k) == Extracted(t, First(k, p, q))
              r(j) == Reported(Upto(message, j))
              c(k) == Covered(k, p, q)
              Right(k) == x(k) \in Totals /\ AtMost(x(k), r(c(k))) /\ (whole => x(k) = r(c(k)))
              F == {k \in 0 .. L : Right(k)}
              n == p \div Places
              N == q \div Places
  <1>1. CASE L = 0
    <2>1. n = 0 /\ N = 0 /\ Places * L = 0
      BY <1>1 DEF Places
    <2>2. First(L, p, q) = <<>>
      <3>1. First(0, p, q) = FlattenSeq(<<>>)
        BY DEF First
      <3>2. FlattenSeq(<<>>) = <<>>
        BY FlattenAppend, EmptySeq
      <3>. QED
        BY <1>1, <3>1, <3>2
    <2>3. x(L) = t
      <3>1. Extracted(t, <<>>) = t
        BY ExtractAppend, EmptySeq
      <3>. QED
        BY <2>2, <3>1
    <2>. QED
      BY <2>1, <2>3
  <1>2. CASE L > 0
    <2>1. 0 \in 0 .. L - 1 /\ L \in 0 .. L
      BY <1>2
    <2>2. \A j \in 0 .. L : r(j) \in Totals
      BY <2>1, ReportedOrdered
    <2>3. x(0) = t /\ c(0) = n /\ c(L) = N
      <3>1. p \in Nat /\ q \in Nat
        BY DEF Places
      <3>2. x(0) = t
        BY <2>1, <3>1, FirstRead
      <3>3. c(0) = n /\ c(L) = N
        BY <2>1, ChunkStep
      <3>. QED
        BY <3>2, <3>3
    <2>4. 0 \in F
      BY <2>1, <2>3
    <2>5. ASSUME NEW k \in 0 .. L - 1, k \in F PROVE k + 1 \in F
      <3>. DEFINE a == Within(k + 1, p)
                  z == Within(k + 1, q)
                  e == message[k + 1]
      <3>1. x(k + 1) = IF a <= 3 /\ z > 5 /\ "usage" \in DOMAIN e
                       THEN Merge(x(k), e.usage) ELSE x(k)
        <4>1. p \in Nat /\ q \in Nat
          BY DEF Places
        <4>. QED
          <5>1. x(k + 1) = CountsRead(x(k), k + 1, p, q)
            BY <4>1, FirstRead
          <5>. HIDE DEF x
          <5>. QED
            BY <5>1 DEF CountsRead
      <3>2. k \in Nat /\ k + 1 \in 0 .. L /\ k \in 0 .. L
        OBVIOUS
      <3>3. /\ n \in 0 .. L /\ N \in n .. L
            /\ a \in 0 .. 6 /\ z \in 0 .. 6
            /\ k < n => a = 6 /\ c(k) = n /\ c(k + 1) = n
            /\ k >= n /\ k < N => z = 6 /\ c(k) = k /\ c(k + 1) = k + 1
            /\ k >= N => z < 6 /\ (k >= n => c(k) = N /\ c(k + 1) = N)
            /\ k = n => a = Place(p)
            /\ k > n => a = 0
        BY ChunkStep
      <3>4. /\ r(k) \in Totals /\ r(k + 1) \in Totals /\ AtMost(r(k), r(k + 1))
            /\ r(k + 1) = IF "usage" \in DOMAIN e THEN Merge(r(k), e.usage) ELSE r(k)
        BY ReportedGrows, ReportedStep
      <3>5. "usage" \in DOMAIN e =>
              /\ DOMAIN e.usage \in SUBSET DOMAIN NoTokens
              /\ e.usage \in [DOMAIN e.usage -> Nat]
        BY <3>2, UptoFacts, EventFacts
      <3>6. Right(k)
        BY <2>5
      <3>. HIDE DEF x, r, c, a, z, e, n, N
      <3>7. CASE k < n
        <4>1. x(k + 1) = x(k) /\ c(k + 1) = c(k)
          BY <3>1, <3>3, <3>7
        <4>. QED
          BY <3>2, <3>6, <4>1
      <3>8. CASE k >= N /\ k >= n
        <4>1. x(k + 1) = x(k) /\ c(k + 1) = c(k)
          BY <3>1, <3>2, <3>3, <3>8
        <4>. QED
          BY <3>2, <3>6, <4>1
      <3>9. CASE k >= n /\ k < N /\ a <= 3
        <4>1. x(k + 1) = IF "usage" \in DOMAIN e THEN Merge(x(k), e.usage) ELSE x(k)
          BY <3>1, <3>3, <3>9
        <4>2. x(k) \in Totals /\ AtMost(x(k), r(k)) /\ (whole => x(k) = r(k))
          BY <3>3, <3>6, <3>9
        <4>3. x(k + 1) \in Totals /\ AtMost(x(k + 1), r(k + 1))
          <5>1. CASE "usage" \notin DOMAIN e
            BY <3>4, <4>1, <4>2, <5>1
          <5>2. CASE "usage" \in DOMAIN e
            <6>1. /\ Merge(x(k), e.usage) \in Totals
                  /\ \A f \in DOMAIN NoTokens :
                       Merge(x(k), e.usage)[f] = IF f \in DOMAIN e.usage THEN e.usage[f] ELSE x(k)[f]
              BY <3>5, <4>2, <5>2, MergeFacts
            <6>2. \A f \in DOMAIN NoTokens :
                       Merge(r(k), e.usage)[f] = IF f \in DOMAIN e.usage THEN e.usage[f] ELSE r(k)[f]
              BY <3>4, <3>5, <5>2, MergeFacts
            <6>3. \A f \in DOMAIN NoTokens : x(k)[f] <= r(k)[f]
              BY <4>2, NoTokensFacts DEF AtMost, Totals
            <6>4. \A f \in DOMAIN NoTokens : Merge(x(k), e.usage)[f] <= Merge(r(k), e.usage)[f]
              BY <3>5, <5>2, <6>1, <6>2, <6>3
            <6>5. DOMAIN Merge(x(k), e.usage) = DOMAIN NoTokens
              BY <6>1, NoTokensFacts DEF Totals
            <6>. QED
              BY <3>4, <4>1, <5>2, <6>1, <6>4, <6>5 DEF AtMost
          <5>. QED
            BY <5>1, <5>2
        <4>4. whole => x(k + 1) = r(k + 1)
          BY <3>4, <4>1, <4>2
        <4>. QED
          BY <3>2, <3>3, <3>9, <4>3, <4>4
      <3>10. CASE k >= n /\ k < N /\ a > 3
        <4>1. x(k + 1) = x(k) /\ c(k) = k /\ c(k + 1) = k + 1
          BY <3>1, <3>3, <3>10
        <4>2. ~whole
          <5>1. k = n
            BY <3>2, <3>3, <3>10
          <5>2. Place(p) > 3
            BY <3>3, <3>10, <5>1
          <5>. QED
            BY <5>2
        <4>3. AtMost(x(k + 1), r(k + 1))
          BY <3>4, <3>6, <4>1, AtMostOrders
        <4>. QED
          BY <3>2, <3>6, <4>1, <4>2, <4>3
      <3>. QED
        BY <3>2, <3>3, <3>7, <3>8, <3>9, <3>10
    <2>6. L \in F
      <3>. HIDE DEF F
      <3>. QED
        BY <2>1, <2>4, <2>5, UpTo
    <2>. QED
      BY <2>3, <2>6
  <1>. QED
    BY <1>1, <1>2
-----------------------------------------------------------------------------
(* The translation of an event.                                            *)

\* One item more for the client.
LEMMA SayFacts ==
  ASSUME NEW items \in Seq(Chunks), NEW x \in Chunks, NEW m, NEW n
  PROVE  /\ Append(items, x) \in Seq(Chunks)
         /\ \/ ~Ascending(items)
            \/ /\ x.type = "delta"
               /\ \E j \in DOMAIN items : items[j].type = "delta" /\ ~(items[j].piece < x.piece)
            \/ Ascending(Append(items, x))
         /\ \/ ~Behind(items, m, n)
            \/ /\ x.type = "delta"
               /\ \E i \in n + 1 .. Len(m) :
                    m[i].type = "content_block_delta" /\ ~(x.piece < m[i].piece)
            \/ Behind(Append(items, x), m, n)
  <1>. DEFINE new == Append(items, x)
  <1>1. /\ Len(items) \in Nat /\ DOMAIN items = 1 .. Len(items) /\ DOMAIN new = 1 .. Len(items) + 1
        /\ new[Len(items) + 1] = x /\ \A j \in 1 .. Len(items) : new[j] = items[j]
        /\ new \in Seq(Chunks)
    OBVIOUS
  <1>. HIDE DEF new
  <1>2. ASSUME Ascending(items),
               x.type = "delta" => \A j \in DOMAIN items :
                 items[j].type = "delta" => items[j].piece < x.piece
        PROVE  Ascending(new)
    <2>. SUFFICES ASSUME NEW j \in DOMAIN new, NEW k \in DOMAIN new, j < k,
                         new[j].type = "delta", new[k].type = "delta"
                  PROVE  new[j].piece < new[k].piece
      BY DEF Ascending
    <2>1. j \in DOMAIN items /\ new[j] = items[j]
      BY <1>1
    <2>2. CASE k \in DOMAIN items
      BY <1>1, <1>2, <2>1, <2>2 DEF Ascending
    <2>3. CASE k \notin DOMAIN items
      BY <1>1, <1>2, <2>1, <2>3
    <2>. QED
      BY <2>2, <2>3
  <1>3. ASSUME Behind(items, m, n),
               x.type = "delta" => \A i \in n + 1 .. Len(m) :
                 m[i].type = "content_block_delta" => x.piece < m[i].piece
        PROVE  Behind(new, m, n)
    <2>. SUFFICES ASSUME NEW j \in DOMAIN new, NEW i \in n + 1 .. Len(m),
                         new[j].type = "delta", m[i].type = "content_block_delta"
                  PROVE  new[j].piece < m[i].piece
      BY DEF Behind
    <2>1. CASE j \in DOMAIN items
      BY <1>1, <1>3, <2>1 DEF Behind
    <2>2. CASE j \notin DOMAIN items
      BY <1>1, <1>3, <2>2
    <2>. QED
      BY <2>1, <2>2
  <1>. QED
    BY <1>1, <1>2, <1>3 DEF new

\* The tracker keeps the counts that were sent last.
LEMMA TrackedStep ==
  ASSUME NEW t \in Totals, NEW items \in Seq(Chunks), NEW x \in Chunks
  PROVE  /\ Tracked(t, <<>>) = t /\ Tracked(t, items) \in Totals
         /\ Tracked(t, Append(items, x)) =
              IF x.type = "usage"
              THEN [input |-> x.input, output |-> x.output, cached |-> 0]
              ELSE Tracked(t, items)
  <1>. DEFINE told(s) == {n \in DOMAIN s : s[n].type = "usage"}
              new == Append(items, x)
              L == Len(items)
  <1>1. /\ L \in Nat /\ DOMAIN items = 1 .. L /\ DOMAIN new = 1 .. L + 1
        /\ new[L + 1] = x /\ \A j \in 1 .. L : new[j] = items[j] /\ items[j] \in Chunks
    OBVIOUS
  <1>. HIDE DEF new
  <1>2. told(<<>>) = {}
    OBVIOUS
  <1>3. told(items) \in SUBSET (0 .. L) /\ told(new) \in SUBSET (0 .. L + 1)
    BY <1>1
  <1>4. told(items) # {} => Max(told(items)) \in told(items)
    <2>. HIDE DEF told
    <2>. QED
      BY <1>1, <1>3, MaxFacts
  <1>5. Tracked(t, items) \in Totals
    <2>1. CASE told(items) = {}
      BY <2>1 DEF Tracked
    <2>2. CASE told(items) # {}
      <3>. DEFINE last == items[Max(told(items))]
      <3>1. last \in Chunks /\ last.type = "usage"
        BY <1>1, <1>4, <2>2
      <3>. HIDE DEF last
      <3>2. last.input \in Nat /\ last.output \in Nat
        BY <3>1 DEF Chunks
      <3>3. [input |-> last.input, output |-> last.output, cached |-> 0] \in Totals
        BY <3>2 DEF Totals
      <3>. QED
        BY <2>2, <3>3 DEF Tracked, last
    <2>. QED
      BY <2>1, <2>2
  <1>6. CASE x.type = "usage"
    <2>1. L + 1 \in told(new) /\ told(new) # {} /\ L + 1 \in Nat
      BY <1>1, <1>6
    <2>2. Max(told(new)) \in told(new) /\ L + 1 <= Max(told(new))
      <3>. HIDE DEF told
      <3>. QED
        BY <1>3, <2>1, MaxFacts
    <2>3. Max(told(new)) = L + 1
      BY <1>1, <1>3, <2>2
    <2>4. Tracked(t, new) = [input |-> x.input, output |-> x.output, cached |-> 0]
      BY <1>1, <2>1, <2>3 DEF Tracked
    <2>. QED
      BY <1>2, <1>5, <1>6, <2>4 DEF Tracked, new
  <1>7. CASE x.type # "usage"
    <2>1. told(new) = told(items)
      BY <1>1, <1>7
    <2>2. told(items) # {} => new[Max(told(items))] = items[Max(told(items))]
      BY <1>1, <1>4
    <2>3. Tracked(t, new) = Tracked(t, items)
      BY <2>1, <2>2 DEF Tracked
    <2>. QED
      BY <1>2, <1>5, <1>7, <2>3 DEF Tracked, new
  <1>. QED
    BY <1>6, <1>7

\* What a client is sent of the n-th event of m.
Piece(m, n) ==
  CASE m[n].type = "message_start" -> <<[type |-> "start"]>>
    [] m[n].type = "content_block_start" /\ m[n].kind = "tool" ->
         <<[type |-> "tool", block |-> m[n].block]>>
    [] m[n].type = "content_block_delta" ->
         <<[type |-> "delta", block |-> m[n].block, piece |-> m[n].piece]>>
    [] m[n].type = "message_delta" /\ DOMAIN m[n].usage # {} ->
         <<[type |-> "usage", input |-> Reported(Upto(m, n)).input,
            output |-> Reported(Upto(m, n)).output]>>
    [] m[n].type = "message_stop" -> <<[type |-> "done", reason |-> Reason(Upto(m, n))]>>
    [] m[n].type = "error" -> <<[type |-> "error"]>>
    [] OTHER -> <<>>

\* A reason is one of the known ones.
LEMMA ReasonsKnown ==
  ASSUME NEW m, FollowsProtocol(m), NEW n \in 0 .. Len(m)
  PROVE  Reason(Upto(m, n)) \in EndReasons
  <1>. DEFINE F == {k \in 0 .. Len(m) : Reason(Upto(m, k)) \in EndReasons}
  <1>1. Len(m) \in Nat
    BY UptoFacts
  <1>2. 0 \in F
    BY <1>1, NothingYet DEF EndReasons
  <1>3. ASSUME NEW k \in 0 .. Len(m) - 1, k \in F PROVE k + 1 \in F
    <2>1. Reason(Upto(m, k + 1)) \in {Reason(Upto(m, k)), m[k + 1].reason}
          /\ (m[k + 1].type # "message_delta" => Reason(Upto(m, k + 1)) = Reason(Upto(m, k)))
      BY ReasonStep
    <2>2. IsEvent(m[k + 1])
      BY UptoStep
    <2>3. m[k + 1].type = "message_delta" => m[k + 1].reason \in EndReasons
      BY <2>2, EventFacts
    <2>. QED
      BY <1>1, <1>3, <2>1, <2>3
  <1>4. n \in F
    <2>. HIDE DEF F
    <2>. QED
      BY <1>1, <1>2, <1>3, UpTo
  <1>. QED
    BY <1>4

\* The translation of one event more.
LEMMA TranslationStep ==
  ASSUME NEW m, FollowsProtocol(m), CountsUp(m), NEW n \in 0 .. Len(m) - 1
  PROVE  /\ Translation(Upto(m, 0)) = <<>>
         /\ Translation(Upto(m, n)) \in Seq(Chunks) /\ Piece(m, n + 1) \in Seq(Chunks)
         /\ Translation(Upto(m, n + 1)) = Translation(Upto(m, n)) \o Piece(m, n + 1)
  <1>. DEFINE S(k) == [i \in 1 .. k |-> Piece(m, i)]
  <1>1. n \in 0 .. Len(m) /\ n + 1 \in 0 .. Len(m) /\ n \in Nat /\ Len(m) \in Nat
        /\ 0 \in 0 .. Len(m) /\ m \in Seq(ToSet(m))
    BY UptoFacts DEF FollowsProtocol
  <1>2. ASSUME NEW i \in 1 .. Len(m) PROVE Piece(m, i) \in Seq(Chunks)
    <2>. DEFINE e == m[i]
                r == Reported(Upto(m, i))
    <2>1. IsEvent(e) /\ i \in 0 .. Len(m) /\ i \in Nat
      BY <1>1, UptoFacts
    <2>2. r \in Totals
      BY <2>1, ReportedOrdered
    <2>3. r.input \in Nat /\ r.output \in Nat
      BY <2>2 DEF Totals
    <2>4. Reason(Upto(m, i)) \in EndReasons
      BY <2>1, ReasonsKnown
    <2>5. ASSUME NEW x \in Chunks PROVE <<x>> \in Seq(Chunks)
      OBVIOUS
    <2>6. <<>> \in Seq(Chunks)
      BY EmptySeq
    <2>7. /\ [type |-> "start"] \in Chunks /\ [type |-> "error"] \in Chunks
          /\ [type |-> "usage", input |-> r.input, output |-> r.output] \in Chunks
          /\ [type |-> "done", reason |-> Reason(Upto(m, i))] \in Chunks
      BY <2>3, <2>4 DEF Chunks
    <2>8. e.type = "content_block_start" => [type |-> "tool", block |-> e.block] \in Chunks
      BY <2>1, EventFacts DEF Chunks
    <2>9. e.type = "content_block_delta"
            => [type |-> "delta", block |-> e.block, piece |-> e.piece] \in Chunks
      BY <2>1, EventFacts DEF Chunks
    <2>10. e.type \in {"message_start", "message_delta", "message_stop", "ping", "error",
                        "content_block_start", "content_block_delta", "content_block_stop"}
      BY <2>1, EventFacts
    <2>11. \/ Piece(m, i) \in
                {<<>>, <<[type |-> "start"]>>, <<[type |-> "error"]>>,
                 <<[type |-> "usage", input |-> r.input, output |-> r.output]>>,
                 <<[type |-> "done", reason |-> Reason(Upto(m, i))]>>}
           \/ /\ e.type = "content_block_start"
              /\ Piece(m, i) = <<[type |-> "tool", block |-> e.block]>>
           \/ /\ e.type = "content_block_delta"
              /\ Piece(m, i) = <<[type |-> "delta", block |-> e.block, piece |-> e.piece]>>
      BY <2>10 DEF Piece
    <2>. HIDE DEF e, r
    <2>. QED
      BY <2>5, <2>6, <2>7, <2>8, <2>9, <2>11
  <1>3. ASSUME NEW k \in 0 .. Len(m)
        PROVE  Translation(Upto(m, k)) = FlattenSeq(S(k)) /\ S(k) \in Seq(Seq(Chunks))
    <2>1. DOMAIN Upto(m, k) = 1 .. k /\ \A i \in 1 .. k : Upto(m, k)[i] = m[i]
      BY UptoFacts
    <2>2. ASSUME NEW i \in 1 .. k PROVE Upto(Upto(m, k), i) = Upto(m, i)
      BY <1>1 DEF Upto
    <2>3. Translation(Upto(m, k)) = FlattenSeq([i \in 1 .. k |-> Piece(Upto(m, k), i)])
      BY <2>1 DEF Translation, Piece
    <2>4. ASSUME NEW i \in 1 .. k PROVE Piece(Upto(m, k), i) = Piece(m, i)
      BY <2>1, <2>2 DEF Piece
    <2>5. [i \in 1 .. k |-> Piece(Upto(m, k), i)] = S(k)
      BY <2>4
    <2>6. S(k) \in Seq(Seq(Chunks))
      BY <1>1, <1>2
    <2>. QED
      BY <2>3, <2>5, <2>6
  <1>4. Piece(m, n + 1) \in Seq(Chunks)
    BY <1>1, <1>2
  <1>5. S(n + 1) = Append(S(n), Piece(m, n + 1)) /\ S(0) = <<>>
    BY <1>1
  <1>6. /\ Translation(Upto(m, n)) = FlattenSeq(S(n)) /\ S(n) \in Seq(Seq(Chunks))
        /\ Translation(Upto(m, n + 1)) = FlattenSeq(S(n + 1))
        /\ Translation(Upto(m, 0)) = FlattenSeq(S(0))
    BY <1>1, <1>3
  <1>. HIDE DEF S
  <1>7. /\ FlattenSeq(S(n)) \in Seq(Chunks) /\ FlattenSeq(<<>>) = <<>>
        /\ FlattenSeq(Append(S(n), Piece(m, n + 1))) = FlattenSeq(S(n)) \o Piece(m, n + 1)
    BY <1>4, <1>6, FlattenAppend
  <1>. QED
    BY <1>4, <1>5, <1>6, <1>7

\* What a client can have seen counted after one event more.
LEMMA SeenStep ==
  ASSUME NEW m, FollowsProtocol(m), CountsUp(m), NEW n \in 0 .. Len(m) - 1,
         path = "translated"
  PROVE  /\ Seen(Upto(m, 0)) = NoTokens
         /\ m[n + 1].type = "message_delta" /\ DOMAIN m[n + 1].usage # {} =>
              Seen(Upto(m, n + 1)) = [input |-> Reported(Upto(m, n + 1)).input,
                                      output |-> Reported(Upto(m, n + 1)).output, cached |-> 0]
         /\ ~(m[n + 1].type = "message_delta" /\ DOMAIN m[n + 1].usage # {}) =>
              Seen(Upto(m, n + 1)) = Seen(Upto(m, n))
  <1>. DEFINE r(k) == Reported(Upto(m, k))
              E(k) == \E e \in ToSet(Upto(m, k)) : e.type = "message_delta" /\ DOMAIN e.usage # {}
              V(k) == IF E(k) THEN [r(k) EXCEPT !.cached = 0] ELSE NoTokens
              e == m[n + 1]
  <1>1. n \in 0 .. Len(m) /\ n + 1 \in 0 .. Len(m) /\ 0 \in 0 .. Len(m) /\ n \in Nat
    BY UptoFacts
  <1>2. \A k : Seen(Upto(m, k)) = V(k)
    BY DEF Seen
  <1>3. ToSet(Upto(m, n + 1)) = ToSet(Upto(m, n)) \union {e} /\ IsEvent(e)
        /\ (e.type = "message_start" <=> n = 0)
    BY UptoStep
  <1>4. ~E(0)
    <2>1. ToSet(Upto(m, 0)) = {m[i] : i \in 1 .. 0}
      BY <1>1, UptoFacts
    <2>. QED
      BY <2>1
  <1>5. E(n + 1) <=> E(n) \/ (e.type = "message_delta" /\ DOMAIN e.usage # {})
    BY <1>3
  <1>6. r(n) \in Totals /\ r(n + 1) \in Totals
        /\ r(n + 1) = IF "usage" \in DOMAIN e THEN Merge(r(n), e.usage) ELSE r(n)
    BY ReportedGrows, ReportedStep
  <1>7. /\ "usage" \in DOMAIN e <=> e.type \in {"message_start", "message_delta"}
        /\ "usage" \in DOMAIN e =>
              /\ DOMAIN e.usage \in SUBSET DOMAIN NoTokens
              /\ e.usage \in [DOMAIN e.usage -> Nat]
    BY <1>3, EventFacts
  <1>. HIDE DEF r, E
  <1>8. CASE e.type = "message_delta" /\ DOMAIN e.usage # {}
    <2>1. V(n + 1) = [r(n + 1) EXCEPT !.cached = 0]
      BY <1>5, <1>8
    <2>2. [r(n + 1) EXCEPT !.cached = 0]
            = [input |-> r(n + 1).input, output |-> r(n + 1).output, cached |-> 0]
      BY <1>6 DEF Totals
    <2>. HIDE DEF V
    <2>. QED
      BY <1>2, <1>4, <1>8, <2>1, <2>2 DEF r, V
  <1>9. CASE ~(e.type = "message_delta" /\ DOMAIN e.usage # {})
    <2>1. E(n + 1) <=> E(n)
      BY <1>5, <1>9
    <2>2. CASE ~E(n)
      BY <1>2, <1>4, <1>9, <2>1, <2>2
    <2>3. CASE E(n)
      <3>1. n # 0
        BY <1>4, <2>3
      <3>2. r(n + 1) = r(n)
        <4>1. CASE "usage" \notin DOMAIN e
          BY <1>6, <4>1
        <4>2. CASE "usage" \in DOMAIN e
          <5>1. DOMAIN e.usage = {}
            BY <1>3, <1>7, <1>9, <3>1, <4>2
          <5>2. r(n + 1) = Merge(r(n), e.usage)
            BY <1>6, <4>2
          <5>3. \A f \in DOMAIN NoTokens : r(n + 1)[f] = r(n)[f]
            BY <1>6, <1>7, <4>2, <5>1, <5>2, MergeFacts
          <5>. QED
            BY <1>6, <5>3, NoTokensFacts DEF Totals
        <4>. QED
          BY <4>1, <4>2
      <3>. QED
        BY <1>2, <1>4, <1>9, <2>1, <3>2
    <2>. QED
      BY <2>2, <2>3
  <1>. QED
    BY <1>8, <1>9

\* A parser on its way through a chunk.
Translators ==
  [type : Types, blocks : Nat, reason : EndReasons, input : Nat, output : Nat,
   out : Seq(Chunks), ok : BOOLEAN]

\* What an event can do to the parser whatever it takes it for: it says nothing
\* or one thing, which is the piece or the counts of the event.
LEMMA HandleFacts ==
  ASSUME NEW s \in Translators, NEW e, IsEvent(e)
  PROVE  LET h == Handle(s, e)
         IN /\ h \in Translators /\ h.type = s.type /\ h.ok = s.ok
            /\ \/ h.input = s.input
               \/ e.type = "message_start" /\ h.input = Merge(NoTokens, e.usage).input
            /\ \/ h.out = s.out
               \/ \E x \in Chunks :
                    /\ h.out = Append(s.out, x)
                    /\ x.type = "delta" => e.type = "content_block_delta" /\ x.piece = e.piece
                    /\ x.type = "usage" =>
                         /\ e.type = "message_delta"
                         /\ x.input = h.input /\ x.output = Merge(NoTokens, e.usage).output
  <1>. DEFINE h == Handle(s, e)
              Fine(t) ==
                /\ t \in Translators /\ t.type = s.type /\ t.ok = s.ok
                /\ \/ t.input = s.input
                   \/ e.type = "message_start" /\ t.input = Merge(NoTokens, e.usage).input
              Said(x, t) ==
                /\ x.type = "delta" => e.type = "content_block_delta" /\ x.piece = e.piece
                /\ x.type = "usage" =>
                     /\ e.type = "message_delta"
                     /\ x.input = t.input /\ x.output = Merge(NoTokens, e.usage).output
              Result(t) ==
                Fine(t) /\ (t.out = s.out \/ \E x \in Chunks : t.out = Append(s.out, x) /\ Said(x, t))
  <1>1. /\ s.type \in Types /\ s.blocks \in Nat /\ s.reason \in EndReasons /\ s.input \in Nat
        /\ s.output \in Nat /\ s.out \in Seq(Chunks) /\ s.ok \in BOOLEAN
        /\ s = [type |-> s.type, blocks |-> s.blocks, reason |-> s.reason, input |-> s.input,
                output |-> s.output, out |-> s.out, ok |-> s.ok]
    BY DEF Translators
  <1>2. "usage" \in DOMAIN e => /\ Merge(NoTokens, e.usage).input \in Nat
                                /\ Merge(NoTokens, e.usage).output \in Nat
    <2>1. ASSUME "usage" \in DOMAIN e PROVE Merge(NoTokens, e.usage) \in Totals
      BY <2>1, EventFacts, NoTokensFacts, MergeFacts
    <2>. QED
      BY <2>1 DEF Totals
  <1>3. ASSUME NEW t \in Translators, NEW x \in Chunks,
               Fine(t), t.out = s.out, Said(x, t)
        PROVE  Result(Say(t, x))
    <2>1. t.out \in Seq(Chunks) /\ Append(t.out, x) \in Seq(Chunks)
      BY DEF Translators
    <2>2. /\ Say(t, x) \in Translators /\ Say(t, x).out = Append(s.out, x)
          /\ Say(t, x).type = t.type /\ Say(t, x).ok = t.ok /\ Say(t, x).input = t.input
      BY <1>3, <2>1 DEF Say, Translators
    <2>. QED
      BY <1>3, <2>2
  <1>4. Result(s)
    BY <1>1
  <1>5. ASSUME s.type = "message_start" PROVE Result(h)
    <2>. DEFINE t == [s EXCEPT !.input =
                       IF e.type = "message_start" THEN Merge(NoTokens, e.usage).input ELSE @]
                x == [type |-> "start"]
    <2>1. h = Say(t, x)
      BY <1>5 DEF Handle, OnMessageStart
    <2>2. t \in Translators /\ Fine(t) /\ t.out = s.out
      <3>1. e.type = "message_start" => "usage" \in DOMAIN e
        BY EventFacts
      <3>. QED
        BY <1>1, <1>2, <3>1 DEF Translators
    <2>3. x \in Chunks /\ Said(x, t)
      BY DEF Chunks
    <2>. HIDE DEF t, x, h, Result, Fine, Said
    <2>. QED
      BY <1>3, <2>1, <2>2, <2>3
  <1>6. ASSUME s.type = "content_block_start" PROVE Result(h)
    <2>. DEFINE t == [s EXCEPT !.blocks = AtLeast(@, Index(e))]
                x == [type |-> "tool", block |-> e.block]
    <2>1. h = IF e.type = "content_block_start" /\ e.kind = "tool" THEN Say(t, x) ELSE t
      BY <1>6 DEF Handle, OnBlockStart
    <2>2. Index(e) \in Nat
      BY EventFacts DEF Index
    <2>3. t \in Translators /\ Fine(t) /\ t.out = s.out
      BY <1>1, <2>2 DEF Translators, AtLeast
    <2>4. e.type = "content_block_start" => x \in Chunks
      BY EventFacts DEF Chunks
    <2>5. Said(x, t)
      OBVIOUS
    <2>6. Result(t)
      BY <2>3
    <2>. HIDE DEF t, x, h, Result, Fine, Said
    <2>. QED
      BY <1>3, <2>1, <2>3, <2>4, <2>5, <2>6
  <1>7. ASSUME s.type = "content_block_delta" PROVE Result(h)
    <2>. DEFINE x == [type |-> "delta", block |-> e.block, piece |-> e.piece]
    <2>1. h = IF e.type = "content_block_delta" /\ e.block <= s.blocks THEN Say(s, x) ELSE s
      BY <1>7 DEF Handle, OnDelta
    <2>2. e.type = "content_block_delta" => x \in Chunks /\ Said(x, s)
      BY EventFacts DEF Chunks
    <2>3. Fine(s)
      BY <1>1
    <2>. HIDE DEF x, h, Result, Fine, Said
    <2>. QED
      BY <1>3, <1>4, <2>1, <2>2, <2>3
  <1>8. ASSUME s.type = "message_delta" PROVE Result(h)
    <2>1. CASE e.type # "message_delta"
      <3>1. h = s
        BY <1>8, <2>1 DEF Handle, OnMessageDelta
      <3>. HIDE DEF h, Result
      <3>. QED
        BY <1>4, <3>1
    <2>2. CASE e.type = "message_delta"
      <3>. DEFINE t == [s EXCEPT !.reason = IF e.reason = "none" THEN @ ELSE e.reason]
                  output == Merge(NoTokens, e.usage).output
                  v == [t EXCEPT !.output = output]
                  x == [type |-> "usage", input |-> t.input, output |-> output]
      <3>1. h = IF DOMAIN e.usage = {} THEN t ELSE Say(v, x)
        BY <1>8, <2>2 DEF Handle, OnMessageDelta
      <3>2. e.reason \in EndReasons /\ output \in Nat
        BY <1>2, <2>2, EventFacts
      <3>. HIDE DEF output
      <3>3. t \in Translators /\ Fine(t) /\ t.out = s.out /\ t.input = s.input
        BY <1>1, <3>2 DEF Translators
      <3>4. v \in Translators /\ Fine(v) /\ v.out = s.out /\ v.input = s.input
        BY <1>1, <3>2 DEF Translators
      <3>5. x \in Chunks
        BY <1>1, <3>2, <3>3 DEF Chunks
      <3>6. Said(x, v)
        BY <2>2, <3>3, <3>4 DEF output
      <3>7. Result(t)
        BY <3>3
      <3>. HIDE DEF t, v, x, h, Result, Fine, Said
      <3>. QED
        BY <1>3, <3>1, <3>3, <3>4, <3>5, <3>6, <3>7
    <2>. QED
      BY <2>1, <2>2
  <1>9. ASSUME s.type = "message_stop" PROVE Result(h)
    <2>. DEFINE x == [type |-> "done", reason |-> s.reason]
    <2>1. h = Say(s, x)
      BY <1>9 DEF Handle, OnMessageStop
    <2>2. x \in Chunks /\ Said(x, s)
      BY <1>1 DEF Chunks
    <2>3. Fine(s)
      BY <1>1
    <2>. HIDE DEF x, h, Result, Fine, Said
    <2>. QED
      BY <1>3, <2>1, <2>2, <2>3
  <1>10. ASSUME s.type = "error" PROVE Result(h)
    <2>. DEFINE x == [type |-> "error"]
    <2>1. h = Say(s, x)
      BY <1>10 DEF Handle
    <2>2. x \in Chunks /\ Said(x, s)
      BY DEF Chunks
    <2>3. Fine(s)
      BY <1>1
    <2>. HIDE DEF x, h, Result, Fine, Said
    <2>. QED
      BY <1>3, <2>1, <2>2, <2>3
  <1>11. ASSUME s.type \in {"", "torn", "ping", "content_block_stop"} PROVE Result(h)
    <2>1. h = s
      BY <1>11 DEF Handle
    <2>. HIDE DEF h, Result
    <2>. QED
      BY <1>4, <2>1
  <1>12. Result(h)
    <2>. HIDE DEF Result, h
    <2>. QED
      BY <1>1, <1>5, <1>6, <1>7, <1>8, <1>9, <1>10, <1>11 DEF Types
  <1>. QED
    BY <1>12

\* What a chunk says comes behind what was sent before.
LEMMA SaidBehind ==
  ASSUME NEW g \in Seq(Chunks), NEW s \in Seq(Chunks), NEW x \in Chunks
  PROVE  g \o Append(s, x) = Append(g \o s, x) /\ g \o s \in Seq(Chunks)
  <1>1. <<x>> \in Seq(Chunks) /\ g \o s \in Seq(Chunks) /\ Append(s, x) = s \o <<x>>
        /\ Append(g \o s, x) = (g \o s) \o <<x>>
    BY AppendIsConcat
  <1>2. (g \o s) \o <<x>> = g \o (s \o <<x>>)
    BY <1>1, ConcatAssociative
  <1>. QED
    BY <1>1, <1>2

\* An event that is lost does no harm to what was sent.
LEMMA LooseStays ==
  ASSUME NEW m, FollowsProtocol(m), CountsUp(m), NEW n \in 0 .. Len(m), NEW j \in 0 .. n,
         NEW s, s.input \in Nat, NEW t, NEW items, Loose(s, t, items, m, j)
  PROVE  Loose(s, t, items, m, n)
  <1>1. Reported(Upto(m, j)) \in Totals /\ Reported(Upto(m, n)) \in Totals
        /\ AtMost(Reported(Upto(m, j)), Reported(Upto(m, n)))
    BY ReportedOrdered
  <1>2. t \in Totals /\ AtMost(t, Reported(Upto(m, n)))
    BY <1>1, AtMostOrders DEF Loose
  <1>3. s.input <= Reported(Upto(m, n)).input
    BY <1>1 DEF Loose, AtMost, Totals
  <1>4. n + 1 .. Len(m) \subseteq j + 1 .. Len(m)
    BY UptoFacts
  <1>5. Behind(items, m, n)
    BY <1>4 DEF Loose, Behind
  <1>. QED
    BY <1>2, <1>3, <1>5 DEF Loose

\* An event that is handled, as whatever type, does not either: pieces stay in
\* order, and no more is counted than was reported.
LEMMA LooseStep ==
  ASSUME NEW m, FollowsProtocol(m), CountsUp(m), NEW n \in 0 .. Len(m) - 1,
         NEW g \in Seq(Chunks), NEW t \in Totals, NEW s \in Translators,
         Loose(s, Tracked(t, s.out), g \o s.out, m, n)
  PROVE  LET h == Handle(s, m[n + 1])
         IN h \in Translators /\ Loose(h, Tracked(t, h.out), g \o h.out, m, n + 1)
  <1>. DEFINE e == m[n + 1]
              h == Handle(s, e)
              r(k) == Reported(Upto(m, k))
              u == Tracked(t, s.out)
              items == g \o s.out
  <1>1. /\ n \in Nat /\ n \in 0 .. n + 1 /\ n + 1 \in 0 .. Len(m) /\ IsEvent(e) /\ Len(m) \in Nat
        /\ DOMAIN m = 1 .. Len(m) /\ n + 1 \in DOMAIN m
        /\ e.type = "message_start" <=> n = 0
    <2>1. IsEvent(e) /\ n \in Nat /\ (e.type = "message_start" <=> n = 0)
      BY UptoStep, Zenon
    <2>2. Len(m) \in Nat /\ DOMAIN m = 1 .. Len(m)
      <3>1. n \in 0 .. Len(m)
        BY DEF FollowsProtocol
      <3>. QED
        BY <3>1, UptoFacts
    <2>. HIDE DEF e
    <2>. QED
      BY <2>1, <2>2
  <1>2. /\ h \in Translators
        /\ \/ h.input = s.input
           \/ e.type = "message_start" /\ h.input = Merge(NoTokens, e.usage).input
        /\ \/ h.out = s.out
           \/ \E x \in Chunks :
                /\ h.out = Append(s.out, x)
                /\ x.type = "delta" => e.type = "content_block_delta" /\ x.piece = e.piece
                /\ x.type = "usage" =>
                     /\ e.type = "message_delta"
                     /\ x.input = h.input /\ x.output = Merge(NoTokens, e.usage).output
    BY <1>1, HandleFacts
  <1>3. s.out \in Seq(Chunks) /\ s.input \in Nat /\ h.input \in Nat
    BY <1>2 DEF Translators
  <1>4. Loose(s, u, items, m, n + 1)
    BY <1>1, <1>3, LooseStays
  <1>5. /\ r(n) \in Totals /\ r(n + 1) \in Totals
        /\ r(n + 1) = IF "usage" \in DOMAIN e THEN Merge(r(n), e.usage) ELSE r(n)
    BY ReportedGrows, ReportedStep
  <1>6. "usage" \in DOMAIN e =>
          /\ Merge(NoTokens, e.usage).input <= r(n + 1).input
          /\ Merge(NoTokens, e.usage).output <= r(n + 1).output
          /\ Merge(NoTokens, e.usage).output \in Nat
    <2>. SUFFICES ASSUME "usage" \in DOMAIN e
                  PROVE  /\ Merge(NoTokens, e.usage).input <= r(n + 1).input
                         /\ Merge(NoTokens, e.usage).output <= r(n + 1).output
                         /\ Merge(NoTokens, e.usage).output \in Nat
      OBVIOUS
    <2>1. /\ DOMAIN e.usage \in SUBSET DOMAIN NoTokens
          /\ e.usage \in [DOMAIN e.usage -> Nat]
      BY <1>1, EventFacts
    <2>2. \A f \in DOMAIN NoTokens : /\ Merge(NoTokens, e.usage)[f]
                                          = IF f \in DOMAIN e.usage THEN e.usage[f] ELSE NoTokens[f]
                                     /\ Merge(r(n), e.usage)[f]
                                          = IF f \in DOMAIN e.usage THEN e.usage[f] ELSE r(n)[f]
      BY <1>5, <2>1, NoTokensFacts, MergeFacts
    <2>3. \A f \in DOMAIN NoTokens : NoTokens[f] = 0 /\ r(n)[f] \in Nat
      BY <1>5, NoTokensFacts DEF Totals
    <2>4. \A f \in DOMAIN NoTokens :
            Merge(NoTokens, e.usage)[f] <= r(n + 1)[f] /\ Merge(NoTokens, e.usage)[f] \in Nat
      BY <1>5, <2>1, <2>2, <2>3
    <2>. QED
      BY <2>4, NoTokensFacts
  <1>7. "usage" \in DOMAIN e <=> e.type \in {"message_start", "message_delta"}
    BY <1>1, EventFacts
  <1>. HIDE DEF r, h, e
  <1>8. h.input <= r(n + 1).input
    <2>1. s.input <= r(n + 1).input
      BY <1>4 DEF Loose, r
    <2>. QED
      BY <1>2, <1>6, <1>7, <2>1
  <1>9. CASE h.out = s.out
    BY <1>2, <1>4, <1>8, <1>9 DEF Loose, r, h, e
  <1>10. CASE h.out # s.out
    <2>1. PICK x \in Chunks :
                /\ h.out = Append(s.out, x)
                /\ x.type = "delta" => e.type = "content_block_delta" /\ x.piece = e.piece
                /\ x.type = "usage" =>
                     /\ e.type = "message_delta"
                     /\ x.input = h.input /\ x.output = Merge(NoTokens, e.usage).output
      BY <1>2, <1>10
    <2>2. g \o h.out = Append(items, x) /\ items \in Seq(Chunks)
      BY <1>3, <2>1, SaidBehind
    <2>3. /\ Tracked(t, h.out) = IF x.type = "usage"
                                 THEN [input |-> x.input, output |-> x.output, cached |-> 0] ELSE u
          /\ u \in Totals
      BY <1>3, <2>1, TrackedStep
    <2>. HIDE DEF items, u
    <2>4. /\ u \in Totals /\ AtMost(u, r(n + 1)) /\ Ascending(items) /\ Behind(items, m, n + 1)
      BY <1>4 DEF Loose, r
    <2>5. Behind(items, m, n)
      BY DEF Loose, items
    <2>6. Tracked(t, h.out) \in Totals /\ AtMost(Tracked(t, h.out), r(n + 1))
      <3>1. CASE x.type # "usage"
        BY <2>3, <2>4, <3>1
      <3>2. CASE x.type = "usage"
        <4>. DEFINE c == [input |-> x.input, output |-> x.output, cached |-> 0]
        <4>1. /\ x.input \in Nat /\ x.output \in Nat
              /\ x.input <= r(n + 1).input /\ x.output <= r(n + 1).output
          BY <1>3, <1>6, <1>7, <1>8, <2>1, <3>2
        <4>2. r(n + 1).cached \in Nat
          BY <1>5 DEF Totals
        <4>3. c \in Totals /\ AtMost(c, r(n + 1))
          BY <4>1, <4>2 DEF Totals, AtMost
        <4>. QED
          BY <2>3, <3>2, <4>3
      <3>. QED
        BY <3>1, <3>2
    <2>7. x.type = "delta" => \A j \in DOMAIN items :
            items[j].type = "delta" => items[j].piece < x.piece
      BY <1>1, <2>1, <2>5 DEF Behind, e
    <2>8. x.type = "delta" => \A i \in (n + 1) + 1 .. Len(m) :
            m[i].type = "content_block_delta" => x.piece < m[i].piece
      BY <1>1, <2>1 DEF CountsUp, e
    <2>9. Append(items, x) \in Seq(Chunks) /\ Ascending(Append(items, x))
          /\ Behind(Append(items, x), m, n + 1)
      BY <2>2, <2>4, <2>7, <2>8, SayFacts
    <2>. QED
      BY <1>2, <1>8, <2>2, <2>6, <2>9 DEF Loose, r, h, e
  <1>. QED
    BY <1>9, <1>10

\* Blocks are numbered without gaps.
LEMMA SameBlocks ==
  ASSUME NEW i \in Nat, NEW j \in Nat, 1 .. i = 1 .. j
  PROVE  i = j
  <1>1. CASE i = 0 \/ j = 0
    <2>1. \A k \in Nat : k > 0 => 1 \in 1 .. k
      OBVIOUS
    <2>2. 1 .. 0 = {}
      OBVIOUS
    <2>. QED
      BY <1>1, <2>1, <2>2
  <1>2. CASE i # 0 /\ j # 0
    <2>1. i \in 1 .. j /\ j \in 1 .. i
      BY <1>2
    <2>. QED
      BY <2>1
  <1>. QED
    BY <1>1, <1>2

\* An event that is handled as its own type is translated.
LEMMA TightStep ==
  ASSUME NEW m, FollowsProtocol(m), CountsUp(m), NEW n \in 0 .. Len(m) - 1,
         path = "translated",
         NEW g \in Seq(Chunks), NEW t \in Totals, NEW s \in Translators,
         s.type = m[n + 1].type, Tight(s, Tracked(t, s.out), g \o s.out, m, n)
  PROVE  LET h == Handle(s, m[n + 1])
         IN Tight(h, Tracked(t, h.out), g \o h.out, m, n + 1)
  <1>. DEFINE e == m[n + 1]
              h == Handle(s, e)
              r(k) == Reported(Upto(m, k))
              u == Tracked(t, s.out)
              items == g \o s.out
              Counts == e.type = "message_delta" /\ DOMAIN e.usage # {}
  <1>1. /\ n \in Nat /\ n + 1 \in 0 .. Len(m) /\ n \in 0 .. Len(m) /\ IsEvent(e)
        /\ Len(m) \in Nat /\ DOMAIN m = 1 .. Len(m)
        /\ e.type = "message_start" <=> n = 0
        /\ e.type = "content_block_start" => Opened(Upto(m, n)) = 1 .. e.block - 1
        /\ e.type = "content_block_delta" => e.block \in Opened(Upto(m, n))
    BY UptoStep, UptoFacts
  <1>2. /\ Opened(Upto(m, n)) = 1 .. s.blocks /\ s.reason = Reason(Upto(m, n))
        /\ s.input = r(n).input /\ items = Translation(Upto(m, n)) /\ u = Seen(Upto(m, n))
    BY DEF Tight
  <1>3. /\ s.type \in Types /\ s.blocks \in Nat /\ s.reason \in EndReasons /\ s.input \in Nat
        /\ s.output \in Nat /\ s.out \in Seq(Chunks) /\ s.ok \in BOOLEAN
        /\ s = [type |-> s.type, blocks |-> s.blocks, reason |-> s.reason, input |-> s.input,
                output |-> s.output, out |-> s.out, ok |-> s.ok]
    BY DEF Translators
  <1>4. /\ r(n) \in Totals /\ r(n + 1) \in Totals
        /\ r(n + 1) = IF "usage" \in DOMAIN e THEN Merge(r(n), e.usage) ELSE r(n)
        /\ n > 0 => r(n + 1).input = r(n).input
    BY ReportedGrows, ReportedStep
  <1>5. /\ "usage" \in DOMAIN e <=> e.type \in {"message_start", "message_delta"}
        /\ "usage" \in DOMAIN e =>
              /\ DOMAIN e.usage \in SUBSET DOMAIN NoTokens
              /\ e.usage \in [DOMAIN e.usage -> Nat]
        /\ e.type \in {"message_start", "message_delta", "message_stop", "ping", "error",
                       "content_block_start", "content_block_delta", "content_block_stop"}
        /\ e.type \in {"content_block_start", "content_block_delta"} => e.block \in Nat \ {0}
        /\ "block" \in DOMAIN e <=>
             e.type \in {"content_block_start", "content_block_delta", "content_block_stop"}
    BY <1>1, EventFacts
  <1>6. Opened(Upto(m, n + 1)) =
          IF e.type = "content_block_start"
          THEN Opened(Upto(m, n)) \union {e.block} ELSE Opened(Upto(m, n))
    BY OpenedStep
  <1>7. Reason(Upto(m, n + 1)) =
          IF e.type = "message_delta" /\ e.reason # "none" THEN e.reason ELSE Reason(Upto(m, n))
    BY ReasonStep
  <1>8. /\ Counts => Seen(Upto(m, n + 1)) = [input |-> r(n + 1).input,
                                             output |-> r(n + 1).output, cached |-> 0]
        /\ ~Counts => Seen(Upto(m, n + 1)) = Seen(Upto(m, n))
    BY SeenStep
  <1>9. /\ Translation(Upto(m, n)) \in Seq(Chunks) /\ Piece(m, n + 1) \in Seq(Chunks)
        /\ Translation(Upto(m, n + 1)) = Translation(Upto(m, n)) \o Piece(m, n + 1)
    BY TranslationStep
  <1>10. s.type = e.type
    OBVIOUS
  \* What is said of an event is its translation.
  <1>11. ASSUME NEW x, Piece(m, n + 1) = <<x>>, h.out = Append(s.out, x)
         PROVE  /\ g \o h.out = Translation(Upto(m, n + 1))
                /\ Tracked(t, h.out) = IF x.type = "usage"
                                 THEN [input |-> x.input, output |-> x.output, cached |-> 0] ELSE u
    <2>1. x \in Chunks
      <3>1. <<x>> \in Seq(Chunks) /\ Len(<<x>>) = 1 /\ <<x>>[1] = x
        BY <1>9, <1>11
      <3>. QED
        BY <3>1, ElementOfSeq
    <2>2. g \o h.out = Append(items, x) /\ items \in Seq(Chunks)
      <3>1. s.out \in Seq(Chunks)
        BY <1>3
      <3>2. g \o Append(s.out, x) = Append(items, x) /\ items \in Seq(Chunks)
        BY <2>1, <3>1, SaidBehind, Zenon
      <3>. QED
        BY <1>11, <3>2
    <2>3. Append(items, x) = items \o <<x>>
      BY <2>1, <2>2, AppendIsConcat
    <2>4. Tracked(t, h.out) = IF x.type = "usage"
                              THEN [input |-> x.input, output |-> x.output, cached |-> 0] ELSE u
      BY <1>3, <1>11, <2>1, TrackedStep
    <2>. HIDE DEF h
    <2>. QED
      BY <1>2, <1>9, <1>11, <2>2, <2>3, <2>4
  <1>12. ASSUME Piece(m, n + 1) = <<>>, h.out = s.out
         PROVE  g \o h.out = Translation(Upto(m, n + 1)) /\ Tracked(t, h.out) = u
    <2>1. Translation(Upto(m, n)) \o <<>> = Translation(Upto(m, n))
      BY <1>9, ConcatEmptySeq
    <2>. HIDE DEF h
    <2>. QED
      BY <1>2, <1>9, <1>12, <2>1
  <1>13. ASSUME h.blocks = s.blocks, h.reason = s.reason, h.input = s.input,
                e.type \notin {"content_block_start", "message_start", "message_delta"},
                g \o h.out = Translation(Upto(m, n + 1)), Tracked(t, h.out) = u
         PROVE  Tight(h, Tracked(t, h.out), g \o h.out, m, n + 1)
    <2>. HIDE DEF h, e
    <2>1. r(n + 1) = r(n)
      BY <1>4, <1>5, <1>13
    <2>. QED
      BY <1>2, <1>6, <1>7, <1>8, <1>13, <2>1 DEF Tight
  <1>14. CASE e.type = "message_start"
    <2>. DEFINE v == [s EXCEPT !.input = Merge(NoTokens, e.usage).input]
                x == [type |-> "start"]
    <2>1. h = Say(v, x)
      BY <1>10, <1>14 DEF Handle, OnMessageStart
    <2>2. h.out = Append(s.out, x) /\ h.blocks = s.blocks /\ h.reason = s.reason
          /\ h.input = Merge(NoTokens, e.usage).input
      BY <1>3, <2>1 DEF Say
    <2>3. Piece(m, n + 1) = <<x>>
      BY <1>14 DEF Piece
    <2>4. r(n + 1) = Merge(NoTokens, e.usage)
      BY <1>1, <1>4, <1>5, <1>14, NothingYet
    <2>5. g \o h.out = Translation(Upto(m, n + 1)) /\ Tracked(t, h.out) = u
      <3>1. x.type # "usage"
        OBVIOUS
      <3>. HIDE DEF h, u, x
      <3>. QED
        BY <1>11, <2>2, <2>3, <3>1
    <2>. HIDE DEF h, e, u
    <2>. QED
      BY <1>2, <1>6, <1>7, <1>8, <1>14, <2>2, <2>4, <2>5 DEF Tight, h, e
  <1>15. CASE e.type = "content_block_start"
    <2>. DEFINE v == [s EXCEPT !.blocks = AtLeast(@, Index(e))]
                x == [type |-> "tool", block |-> e.block]
    <2>1. h = IF e.kind = "tool" THEN Say(v, x) ELSE v
      BY <1>10, <1>15 DEF Handle, OnBlockStart
    <2>2. 1 .. e.block - 1 = 1 .. s.blocks /\ e.block - 1 \in Nat /\ s.blocks \in Nat
      BY <1>1, <1>2, <1>3, <1>5, <1>15
    <2>3. s.blocks = e.block - 1
      BY <2>2, SameBlocks
    <2>4. AtLeast(s.blocks, Index(e)) = e.block
      BY <1>5, <1>15, <2>2, <2>3 DEF AtLeast, Index
    <2>5. /\ h.blocks = e.block /\ h.reason = s.reason /\ h.input = s.input
          /\ h.out = IF e.kind = "tool" THEN Append(s.out, x) ELSE s.out
      BY <1>3, <2>1, <2>4 DEF Say
    <2>6. Piece(m, n + 1) = IF e.kind = "tool" THEN <<x>> ELSE <<>>
      BY <1>15 DEF Piece
    <2>7. g \o h.out = Translation(Upto(m, n + 1)) /\ Tracked(t, h.out) = u
      <3>1. x.type # "usage"
        OBVIOUS
      <3>. HIDE DEF h, u, x
      <3>2. CASE e.kind = "tool"
        BY <1>11, <2>5, <2>6, <3>1, <3>2
      <3>3. CASE e.kind # "tool"
        BY <1>12, <2>5, <2>6, <3>3
      <3>. QED
        BY <3>2, <3>3
    <2>8. Opened(Upto(m, n + 1)) = 1 .. e.block
      <3>1. (1 .. e.block - 1) \union {e.block} = 1 .. e.block
        BY <1>5, <1>15
      <3>. QED
        BY <1>1, <1>6, <1>15, <3>1
    <2>9. r(n + 1) = r(n)
      BY <1>4, <1>5, <1>15
    <2>. HIDE DEF h, e, u
    <2>. QED
      BY <1>2, <1>7, <1>8, <1>15, <2>5, <2>7, <2>8, <2>9 DEF Tight, h, e
  <1>16. CASE e.type = "content_block_delta"
    <2>. DEFINE x == [type |-> "delta", block |-> e.block, piece |-> e.piece]
    <2>1. e.block <= s.blocks
      BY <1>1, <1>2, <1>3, <1>16
    <2>2. h = Say(s, x)
      BY <1>10, <1>16, <2>1 DEF Handle, OnDelta
    <2>3. h.out = Append(s.out, x) /\ h.blocks = s.blocks /\ h.reason = s.reason
          /\ h.input = s.input
      BY <1>3, <2>2 DEF Say
    <2>4. Piece(m, n + 1) = <<x>>
      BY <1>16 DEF Piece
    <2>5. g \o h.out = Translation(Upto(m, n + 1)) /\ Tracked(t, h.out) = u
      <3>1. x.type # "usage"
        OBVIOUS
      <3>. HIDE DEF h, u, x
      <3>. QED
        BY <1>11, <2>3, <2>4, <3>1
    <2>. HIDE DEF h, e, u
    <2>. QED
      BY <1>13, <1>16, <2>3, <2>5 DEF h, e
  <1>17. CASE e.type = "message_delta"
    <2>. DEFINE v == [s EXCEPT !.reason = IF e.reason = "none" THEN @ ELSE e.reason]
                output == Merge(NoTokens, e.usage).output
                x == [type |-> "usage", input |-> r(n + 1).input, output |-> r(n + 1).output]
    <2>1. r(n + 1).input = s.input
      BY <1>1, <1>2, <1>4, <1>17
    <2>2. Counts => output = r(n + 1).output
      <3>. SUFFICES ASSUME DOMAIN e.usage # {} PROVE output = r(n + 1).output
        OBVIOUS
      <3>1. "usage" \in DOMAIN e /\ r(n + 1) = Merge(r(n), e.usage)
        BY <1>4, <1>5, <1>17
      <3>2. 1 \in DOMAIN m /\ n + 1 \in DOMAIN m /\ 1 < n + 1
        BY <1>1, <1>17
      <3>3. DOMAIN e.usage \subseteq {"output"}
        BY <1>17, <3>2 DEF CountsUp
      <3>4. "output" \in DOMAIN e.usage
        BY <3>3
      <3>5. /\ Merge(NoTokens, e.usage)["output"] = e.usage["output"]
            /\ Merge(r(n), e.usage)["output"] = e.usage["output"]
        BY <1>4, <1>5, <3>1, <3>4, NoTokensFacts, MergeFacts
      <3>. QED
        BY <3>1, <3>5
    <2>3. h = IF DOMAIN e.usage = {} THEN v
              ELSE Say([v EXCEPT !.output = output],
                       [type |-> "usage", input |-> v.input, output |-> output])
      BY <1>10, <1>17 DEF Handle, OnMessageDelta
    <2>4. v.input = s.input
      BY <1>3
    <2>5. Counts => h = Say([v EXCEPT !.output = output], x)
      BY <2>1, <2>2, <2>3, <2>4
    <2>6. /\ h.blocks = s.blocks /\ h.input = s.input
          /\ h.reason = IF e.reason = "none" THEN s.reason ELSE e.reason
          /\ h.out = IF Counts THEN Append(s.out, x) ELSE s.out
      <3>. HIDE DEF output, x
      <3>. QED
        BY <1>3, <1>17, <2>3, <2>5 DEF Say
    <2>7. Piece(m, n + 1) = IF Counts THEN <<x>> ELSE <<>>
      BY <1>17 DEF Piece
    <2>8. g \o h.out = Translation(Upto(m, n + 1)) /\ Tracked(t, h.out) = Seen(Upto(m, n + 1))
      <3>1. x.type = "usage" /\ x.input = r(n + 1).input /\ x.output = r(n + 1).output
        OBVIOUS
      <3>. HIDE DEF h, u, x, Counts, r
      <3>2. CASE Counts
        <4>1. g \o h.out = Translation(Upto(m, n + 1))
              /\ Tracked(t, h.out) = [input |-> x.input, output |-> x.output, cached |-> 0]
          BY <1>11, <2>6, <2>7, <3>1, <3>2
        <4>. QED
          BY <1>8, <3>1, <3>2, <4>1
      <3>3. CASE ~Counts
        BY <1>2, <1>8, <1>12, <2>6, <2>7, <3>3
      <3>. QED
        BY <3>2, <3>3
    <2>9. Reason(Upto(m, n + 1)) = h.reason
      <3>. HIDE DEF h, e, x, Counts
      <3>. QED
        BY <1>2, <1>7, <1>17, <2>6
    <2>. HIDE DEF h, e, u
    <2>. QED
      BY <1>2, <1>6, <1>17, <2>1, <2>6, <2>8, <2>9 DEF Tight, h, e
  <1>18. CASE e.type = "message_stop"
    <2>. DEFINE x == [type |-> "done", reason |-> s.reason]
    <2>1. h = Say(s, x)
      BY <1>10, <1>18 DEF Handle, OnMessageStop
    <2>2. h.out = Append(s.out, x) /\ h.blocks = s.blocks /\ h.reason = s.reason
          /\ h.input = s.input
      BY <1>3, <2>1 DEF Say
    <2>3. Piece(m, n + 1) = <<x>>
      BY <1>2, <1>7, <1>18 DEF Piece
    <2>4. g \o h.out = Translation(Upto(m, n + 1)) /\ Tracked(t, h.out) = u
      <3>1. x.type # "usage"
        OBVIOUS
      <3>. HIDE DEF h, u, x
      <3>. QED
        BY <1>11, <2>2, <2>3, <3>1
    <2>. HIDE DEF h, e, u
    <2>. QED
      BY <1>13, <1>18, <2>2, <2>4 DEF h, e
  <1>19. CASE e.type = "error"
    <2>. DEFINE x == [type |-> "error"]
    <2>1. h = Say(s, x)
      BY <1>10, <1>19 DEF Handle
    <2>2. h.out = Append(s.out, x) /\ h.blocks = s.blocks /\ h.reason = s.reason
          /\ h.input = s.input
      BY <1>3, <2>1 DEF Say
    <2>3. Piece(m, n + 1) = <<x>>
      BY <1>19 DEF Piece
    <2>4. g \o h.out = Translation(Upto(m, n + 1)) /\ Tracked(t, h.out) = u
      <3>1. x.type # "usage"
        OBVIOUS
      <3>. HIDE DEF h, u, x
      <3>. QED
        BY <1>11, <2>2, <2>3, <3>1
    <2>. HIDE DEF h, e, u
    <2>. QED
      BY <1>13, <1>19, <2>2, <2>4 DEF h, e
  <1>20. CASE e.type \in {"ping", "content_block_stop"}
    <2>1. h = s
      BY <1>10, <1>20 DEF Handle
    <2>2. Piece(m, n + 1) = <<>>
      BY <1>20 DEF Piece
    <2>3. g \o h.out = Translation(Upto(m, n + 1)) /\ Tracked(t, h.out) = u
      BY <1>12, <2>1, <2>2
    <2>. HIDE DEF h, e, u
    <2>. QED
      BY <1>13, <1>20, <2>1, <2>3 DEF h, e
  <1>. QED
    BY <1>5, <1>14, <1>15, <1>16, <1>17, <1>18, <1>19, <1>20

\* A line that names a type changes no more than that.
LEMMA EventReadFacts ==
  ASSUME NEW s \in Translators, NEW i, IsEvent(message[i]), NEW p, NEW q
  PROVE  LET u == EventRead(s, i, p, q)
         IN /\ u \in Translators /\ u.ok = s.ok /\ u.blocks = s.blocks /\ u.reason = s.reason
            /\ u.input = s.input /\ u.out = s.out
            /\ Within(i, p) > 0 \/ Within(i, q) < 2 => u = s
            /\ s.ok /\ ~(Within(i, p) > 0) /\ ~(Within(i, q) < 2) /\ Within(i, q) > 2
                 => u.type = message[i].type
  <1>. DEFINE ty == IF Within(i, q) > 2 THEN message[i].type ELSE "torn"
              l == [line |-> "event", type |-> ty]
              u == EventRead(s, i, p, q)
              v == [s EXCEPT !.type = ty]
  <1>1. /\ s.type \in Types /\ s.blocks \in Nat /\ s.reason \in EndReasons /\ s.input \in Nat
        /\ s.output \in Nat /\ s.out \in Seq(Chunks) /\ s.ok \in BOOLEAN
        /\ s = [type |-> s.type, blocks |-> s.blocks, reason |-> s.reason, input |-> s.input,
                output |-> s.output, out |-> s.out, ok |-> s.ok]
    BY DEF Translators
  <1>2. ty \in Types
    BY EventFacts DEF Types
  <1>3. u = IF Within(i, p) > 0 \/ Within(i, q) < 2 THEN s ELSE TranslateLine(s, l)
    BY DEF EventRead
  <1>4. /\ l.line = "event" /\ l.type = ty
    OBVIOUS
  <1>5. Within(i, q) > 2 => ty = message[i].type
    OBVIOUS
  <1>. HIDE DEF ty, l, u
  <1>6. TranslateLine(s, l) = IF s.ok THEN v ELSE s
    BY <1>4 DEF TranslateLine
  <1>7. /\ v \in Translators /\ v.ok = s.ok /\ v.blocks = s.blocks /\ v.reason = s.reason
        /\ v.input = s.input /\ v.out = s.out /\ v.type = ty
    BY <1>1, <1>2 DEF Translators
  <1>. HIDE DEF v
  <1>. QED
    BY <1>3, <1>5, <1>6, <1>7 DEF u

\* A line of data ends the chunk if it is broken, and is handled otherwise.
LEMMA DataReadUnfolds ==
  ASSUME NEW s \in Translators, NEW i, NEW p, NEW q
  PROVE  DataRead(s, i, p, q) =
           IF ~s.ok \/ Within(i, p) > 3 \/ Within(i, q) < 5 THEN s
           ELSE IF Within(i, q) = 5 THEN [s EXCEPT !.ok = FALSE] ELSE Handle(s, message[i])
  <1>. DEFINE l == [line |-> "data", event |-> message[i]]
              v == [s EXCEPT !.ok = FALSE]
  <1>1. s.ok \in BOOLEAN
    BY DEF Translators
  <1>2. TranslateLine(s, [line |-> "broken"]) = IF s.ok THEN v ELSE s
    BY <1>1 DEF TranslateLine
  <1>3. TranslateLine(s, l) = IF s.ok THEN Handle(s, message[i]) ELSE s
    <2>1. l.line = "data" /\ l.event = message[i]
      OBVIOUS
    <2>. HIDE DEF l
    <2>. QED
      BY <1>1, <2>1 DEF TranslateLine
  <1>4. DataRead(s, i, p, q) =
          IF Within(i, p) > 3 \/ Within(i, q) < 5 THEN s
          ELSE IF Within(i, q) = 5 THEN TranslateLine(s, [line |-> "broken"])
          ELSE TranslateLine(s, l)
    BY DEF DataRead
  <1>. HIDE DEF v, l
  <1>5. DataRead(s, i, p, q) =
          IF ~s.ok \/ Within(i, p) > 3 \/ Within(i, q) < 5 THEN s
          ELSE IF Within(i, q) = 5 THEN v ELSE Handle(s, message[i])
    BY <1>1, <1>2, <1>3, <1>4
  <1>. QED
    BY <1>5 DEF v

\* Giving up a chunk changes nothing else.
LEMMA GivingUp ==
  ASSUME NEW s \in Translators
  PROVE  LET v == [s EXCEPT !.ok = FALSE]
         IN /\ v \in Translators /\ v.blocks = s.blocks /\ v.reason = s.reason
            /\ v.input = s.input /\ v.out = s.out
  <1>1. /\ s.type \in Types /\ s.blocks \in Nat /\ s.reason \in EndReasons /\ s.input \in Nat
        /\ s.output \in Nat /\ s.out \in Seq(Chunks) /\ s.ok \in BOOLEAN
        /\ s = [type |-> s.type, blocks |-> s.blocks, reason |-> s.reason, input |-> s.input,
                output |-> s.output, out |-> s.out, ok |-> s.ok]
    BY DEF Translators
  <1>. QED
    BY <1>1 DEF Translators

\* A translated chunk: what was sent stays in order, no more is counted than
\* was reported, and nothing is lost if no chunk ended inside a line.
LEMMA HandledGood ==
  ASSUME path = "translated", FollowsProtocol(message), CountsUp(message),
         Len(message) \in Nat,
         NEW p \in 0 .. Places * Len(message), NEW q \in p .. Places * Len(message),
         NEW s0 \in Translators, s0.out = <<>>, s0.ok,
         NEW t \in Totals, NEW g \in Seq(Chunks),
         Loose(s0, t, g, message, p \div Places),
         NEW whole \in BOOLEAN,
         whole => /\ Place(p) \in {0, 3} /\ Place(q) \in {0, 3}
                  /\ Tight(s0, t, g, message, p \div Places)
                  /\ Place(p) = 3 => s0.type = message[p \div Places + 1].type
  PROVE  LET s == Handled(s0, First(Len(message), p, q))
             N == q \div Places
         IN /\ s \in Translators
            /\ Loose(s, Tracked(t, s.out), g \o s.out, message, N)
            /\ whole => /\ s.ok /\ Tight(s, Tracked(t, s.out), g \o s.out, message, N)
                        /\ Place(q) = 3 => s.type = message[N + 1].type
  <1>. DEFINE L == Len(message)
              n == p \div Places
              N == q \div Places
              s(k) == Handled(s0, First(k, p, q))
              c(k) == Covered(k, p, q)
              LooseOf(x, j) == Loose(x, Tracked(t, x.out), g \o x.out, message, j)
              TightOf(x, j) == Tight(x, Tracked(t, x.out), g \o x.out, message, j)
              Kept(x, k) == /\ k <= n /\ Place(p) = 3 => x.type = message[n + 1].type
                            /\ k > N /\ Place(q) = 3 => x.type = message[N + 1].type
              Right(x, j, k) ==
                /\ x \in Translators /\ LooseOf(x, j)
                /\ whole => x.ok /\ TightOf(x, j) /\ Kept(x, k)
              F == {k \in 0 .. L : Right(s(k), c(k), k)}
  <1>1. n \in 0 .. L /\ N \in n .. L /\ p \in Nat /\ q \in Nat
        /\ Place(p) \in 0 .. 5 /\ Place(q) \in 0 .. 5 /\ q = Places * N + Place(q)
    <2>1. p \in Nat /\ q \in Nat
      BY DEF Places
    <2>2. n \in 0 .. L /\ N \in n .. L
      BY PlacesFacts
    <2>3. /\ Place(p) \in 0 .. 5 /\ Place(q) \in 0 .. 5
          /\ q = 6 * (q \div Places) + Place(q)
      <3>1. 1 \in Nat \ {0}
        OBVIOUS
      <3>. QED
        BY <2>1, <3>1, WithinFacts
    <2>. QED
      BY <2>1, <2>2, <2>3 DEF Places
  <1>2. Tracked(t, s0.out) = t /\ g \o s0.out = g
    <2>1. <<>> \in Seq(Chunks) /\ [type |-> "raw"] \in Chunks
      BY EmptySeq DEF Chunks
    <2>2. Tracked(t, <<>>) = t
      BY <2>1, TrackedStep
    <2>3. g \o <<>> = g
      BY ConcatEmptySeq
    <2>. QED
      BY <2>2, <2>3
  <1>3. ASSUME NEW x, NEW k, k = 0, x = s0 PROVE Right(x, n, k)
    <2>1. LooseOf(x, n) /\ (whole => x.ok /\ TightOf(x, n))
      BY <1>2, <1>3
    <2>2. ~(k > N)
      BY <1>1, <1>3
    <2>. QED
      BY <1>3, <2>1, <2>2
  <1>4. s(0) = s0
    <2>. DEFINE l == [line |-> "broken"]
    <2>1. <<>> \in Seq({l}) /\ l \in {l} /\ FlattenSeq(<<>>) = <<>>
      BY EmptySeq, FlattenAppend
    <2>2. First(0, p, q) = FlattenSeq(<<>>)
      BY DEF First
    <2>3. Handled(s0, <<>>) = s0
      <3>. HIDE DEF l
      <3>. QED
        BY <2>1, TranslateAppend
    <2>. QED
      BY <2>1, <2>2, <2>3
  <1>5. c(0) = n /\ c(L) = N
    <2>1. CASE L = 0
      BY <1>1, <2>1 DEF Covered
    <2>2. CASE L > 0
      <3>1. 0 \in 0 .. L - 1
        BY <2>2
      <3>. QED
        BY <3>1, ChunkStep
    <2>. QED
      BY <2>1, <2>2
  <1>. HIDE DEF s, c
  <1>6. 0 \in F
    BY <1>3, <1>4, <1>5
  <1>7. ASSUME NEW k \in 0 .. L - 1, k \in F PROVE k + 1 \in F
    <2>. DEFINE a == Within(k + 1, p)
                z == Within(k + 1, q)
                e == message[k + 1]
                x == s(k)
                u == EventRead(x, k + 1, p, q)
                w == DataRead(u, k + 1, p, q)
    <2>1. k \in Nat /\ k + 1 \in 0 .. L /\ k \in 0 .. L /\ k \in 0 .. k + 1 /\ IsEvent(e)
      BY UptoFacts
    <2>2. s(k + 1) = w
      <3>1. Handled(s0, First(k + 1, p, q)) =
              DataRead(EventRead(Handled(s0, First(k, p, q)), k + 1, p, q), k + 1, p, q)
        BY <1>1, FirstRead
      <3>. QED
        BY <3>1 DEF s
    <2>3. /\ a \in 0 .. 6 /\ z \in 0 .. 6
          /\ k < n => a = 6 /\ c(k) = n /\ c(k + 1) = n
          /\ k >= n /\ k < N => z = 6 /\ c(k) = k /\ c(k + 1) = k + 1
          /\ k >= N => z < 6 /\ (k >= n => c(k) = N /\ c(k + 1) = N)
          /\ k = n => a = Place(p)
          /\ k > n => a = 0
          /\ k = N => z = Place(q)
          /\ k > N => z = 0
      BY ChunkStep DEF c
    <2>4. x \in Translators /\ LooseOf(x, c(k)) /\ (whole => x.ok /\ TightOf(x, c(k)) /\ Kept(x, k))
      BY <1>7
    <2>5. /\ u \in Translators /\ u.ok = x.ok /\ u.blocks = x.blocks /\ u.reason = x.reason
          /\ u.input = x.input /\ u.out = x.out
          /\ a > 0 \/ z < 2 => u = x
          /\ x.ok /\ ~(a > 0) /\ ~(z < 2) /\ z > 2 => u.type = e.type
      BY <2>1, <2>4, EventReadFacts
    <2>. DEFINE v == [u EXCEPT !.ok = FALSE]
                h == Handle(u, e)
    <2>. HIDE DEF x, u
    <2>6. /\ w = IF ~u.ok \/ a > 3 \/ z < 5 THEN u ELSE IF z = 5 THEN v ELSE h
          /\ v \in Translators /\ v.blocks = u.blocks /\ v.reason = u.reason
          /\ v.input = u.input /\ v.out = u.out
      <3>1. u \in Translators
        BY <2>5
      <3>2. w = IF ~u.ok \/ a > 3 \/ z < 5 THEN u ELSE IF z = 5 THEN v ELSE h
        <4>1. DataRead(u, k + 1, p, q) =
                IF ~u.ok \/ Within(k + 1, p) > 3 \/ Within(k + 1, q) < 5 THEN u
                ELSE IF Within(k + 1, q) = 5 THEN [u EXCEPT !.ok = FALSE]
                ELSE Handle(u, message[k + 1])
          BY <3>1, DataReadUnfolds, Zenon
        <4>. QED
          BY <4>1, Zenon
      <3>3. /\ v \in Translators /\ v.blocks = u.blocks /\ v.reason = u.reason
            /\ v.input = u.input /\ v.out = u.out
        BY <3>1, GivingUp
      <3>. QED
        BY <3>2, <3>3
    <2>. HIDE DEF a, z, w, v
    <2>7. LooseOf(u, c(k)) /\ LooseOf(v, c(k)) /\ (whole => TightOf(u, c(k)))
      BY <2>4, <2>5, <2>6 DEF Loose, Tight
    <2>8. w \in Translators /\ LooseOf(w, c(k + 1))
      <3>1. CASE k < n \/ k >= N
        <4>1. c(k + 1) = c(k)
          BY <1>1, <2>1, <2>3, <3>1
        <4>2. w = u \/ w = v
          BY <1>1, <2>1, <2>3, <2>6, <3>1
        <4>. HIDE DEF LooseOf
        <4>. QED
          BY <2>5, <2>6, <2>7, <4>1, <4>2
      <3>2. CASE k >= n /\ k < N
        <4>1. c(k) = k /\ c(k + 1) = k + 1
          BY <2>3, <3>2
        <4>2. u.input \in Nat /\ v.input \in Nat
          BY <2>5, <2>6 DEF Translators
        <4>3. LooseOf(u, k + 1) /\ LooseOf(v, k + 1)
          <5>1. Loose(u, Tracked(t, u.out), g \o u.out, message, k)
                /\ Loose(v, Tracked(t, v.out), g \o v.out, message, k)
            BY <2>7, <4>1
          <5>. QED
            BY <2>1, <4>2, <5>1, LooseStays
        <4>4. h \in Translators /\ LooseOf(h, k + 1)
          <5>1. Loose(u, Tracked(t, u.out), g \o u.out, message, k)
            BY <2>7, <4>1
          <5>. QED
            BY <2>5, <5>1, LooseStep
        <4>. HIDE DEF LooseOf, h
        <4>. QED
          BY <2>5, <2>6, <4>1, <4>3, <4>4
      <3>. QED
        BY <1>1, <2>1, <3>1, <3>2
    <2>9. ASSUME whole PROVE w.ok /\ TightOf(w, c(k + 1)) /\ Kept(w, k + 1)
      <3>1. /\ x.ok /\ u.ok /\ TightOf(u, c(k)) /\ Kept(x, k)
            /\ Place(p) \in {0, 3} /\ Place(q) \in {0, 3}
        BY <2>4, <2>5, <2>7, <2>9
      <3>2. CASE k < n
        <4>1. c(k + 1) = c(k) /\ a = 6
          BY <1>1, <2>1, <2>3, <3>2
        <4>2. w = u /\ u = x
          BY <2>5, <2>6, <4>1
        <4>3. Kept(x, k + 1)
          BY <1>1, <2>1, <3>1, <3>2
        <4>. HIDE DEF TightOf, Kept
        <4>. QED
          BY <3>1, <4>1, <4>2, <4>3
      <3>3. CASE k >= n /\ k < N
        <4>1. c(k) = k /\ c(k + 1) = k + 1 /\ z = 6 /\ a \in {0, 3}
          BY <1>1, <2>1, <2>3, <3>1, <3>3
        <4>2. u.type = e.type
          <5>1. CASE a = 0
            BY <2>5, <3>1, <4>1, <5>1
          <5>2. CASE a = 3
            <6>1. k = n /\ Place(p) = 3 /\ u = x
              BY <1>1, <2>1, <2>3, <2>5, <3>3, <5>2
            <6>. QED
              BY <3>1, <6>1
          <5>. QED
            BY <4>1, <5>1, <5>2
        <4>3. w = h
          BY <2>6, <3>1, <4>1
        <4>4. TightOf(h, k + 1)
          <5>1. Tight(u, Tracked(t, u.out), g \o u.out, message, k)
            BY <3>1, <4>1
          <5>. QED
            BY <2>5, <4>2, <5>1, TightStep
        <4>5. h.ok
          BY <2>1, <2>5, <3>1, HandleFacts
        <4>6. ~(k + 1 <= n) /\ ~(k + 1 > N)
          BY <1>1, <2>1, <3>3
        <4>. HIDE DEF TightOf, h
        <4>. QED
          BY <4>1, <4>3, <4>4, <4>5, <4>6
      <3>4. CASE k >= n /\ k = N
        <4>1. c(k + 1) = c(k) /\ z \in {0, 3} /\ a \in {0, 3} /\ z = Place(q)
          BY <1>1, <2>1, <2>3, <3>1, <3>4
        <4>2. w = u
          BY <2>6, <4>1
        <4>3. Place(q) = 3 => u.type = e.type
          <5>1. CASE a = 0
            BY <2>5, <3>1, <4>1, <5>1
          <5>2. CASE a = 3
            <6>1. k = n /\ Place(p) = 3 /\ u = x
              BY <1>1, <2>1, <2>3, <2>5, <3>4, <5>2
            <6>. QED
              BY <3>1, <6>1
          <5>. QED
            BY <4>1, <5>1, <5>2
        <4>4. Kept(u, k + 1)
          <5>1. ~(k + 1 <= n) /\ k = N
            BY <1>1, <2>1, <3>4
          <5>. QED
            BY <4>3, <5>1
        <4>. HIDE DEF TightOf, Kept
        <4>. QED
          BY <3>1, <4>1, <4>2, <4>4
      <3>5. CASE k >= n /\ k > N
        <4>1. c(k + 1) = c(k) /\ z = 0
          BY <1>1, <2>1, <2>3, <3>5
        <4>2. w = u /\ u = x
          BY <2>5, <2>6, <4>1
        <4>3. Kept(x, k + 1)
          <5>1. ~(k + 1 <= n) /\ k > N
            BY <1>1, <2>1, <3>5
          <5>. QED
            BY <3>1, <5>1
        <4>. HIDE DEF TightOf, Kept
        <4>. QED
          BY <3>1, <4>1, <4>2, <4>3
      <3>. QED
        BY <1>1, <2>1, <3>2, <3>3, <3>4, <3>5
    <2>. HIDE DEF LooseOf, TightOf, Kept
    <2>. QED
      BY <2>1, <2>2, <2>8, <2>9
  <1>8. L \in F
    <2>1. L \in Nat /\ L \in 0 .. L
      OBVIOUS
    <2>. HIDE DEF F, L
    <2>2. \A k \in 0 .. L : k \in F
      BY <1>6, <1>7, <2>1, UpTo
    <2>. QED
      BY <2>1, <2>2
  <1>9. whole /\ Place(q) = 3 => L > N
    BY <1>1 DEF Places
  <1>. QED
    BY <1>5, <1>8, <1>9 DEF s
-----------------------------------------------------------------------------
(* The paths that read lines, step by step.                                *)

\* A chunk arrives.
LEMMA ChunkFacts ==
  ASSUME InputInv, Chunk
  PROVE  \E to \in pos + 1 .. Total :
           /\ pos' = to /\ to \in pos .. Places * Len(message) /\ Arrivals' = to \div Places
           /\ to \div Places \in Arrivals .. Len(message)
           /\ Lines(to) = First(Len(message), pos, to)
           /\ TranslateChunk(to) \/ PassChunk(to) \/ CollectChunk(to) \/ PiChunk(to)
  <1>1. PICK to \in pos + 1 .. Total :
          pos' = to /\ (TranslateChunk(to) \/ PassChunk(to) \/ CollectChunk(to) \/ PiChunk(to))
    BY DEF Chunk
  <1>2. /\ FollowsProtocol(message) /\ Len(message) \in Nat
        /\ pos \in 0 .. Places * Len(message)
    BY MessageFacts
  <1>3. to \in pos .. Places * Len(message)
    BY <1>2 DEF Total, Places
  <1>4. Arrivals' = to \div Places /\ to \div Places \in Arrivals .. Len(message)
    BY <1>1, <1>2, <1>3, PlacesFacts DEF Arrivals
  <1>5. Lines(to) = First(Len(message), pos, to)
    BY <1>2, LinesAreFirst
  <1>. QED
    BY <1>1, <1>3, <1>4, <1>5

\* The Machine is at work on the Pi path only.
LEMMA IdleInductive ==
  /\ AnswerInit => IdleInv
  /\ InputInv /\ IdleInv /\ [AnswerNext]_answerVars => IdleInv'
  <1>1. ASSUME AnswerInit PROVE IdleInv
    <2>1. machine.queue = <<>> /\ machine.done = FALSE
      BY <1>1 DEF AnswerInit
    <2>. QED
      BY <2>1 DEF IdleInv
  <1>2. ASSUME InputInv, IdleInv, [AnswerNext]_answerVars, path # "pi" PROVE machine' = machine
    <2>1. CASE Chunk
      BY <1>2, <2>1 DEF Chunk, TranslateChunk, PassChunk, CollectChunk, PiChunk, Asks
    <2>2. CASE ~Chunk
      BY <1>2, <2>2 DEF AnswerNext, answerVars, IdleInv, PiSend, PiEnd, PiUpstreamEnds, Asks,
        PiUpstreamFails, StreamEnds, WholeEnds, UpstreamFails, Leave
    <2>. QED
      BY <2>1, <2>2
  <1>3. InputInv /\ [AnswerNext]_answerVars => path' = path
    BY InputInductive
  <1>. QED
    BY <1>1, <1>2, <1>3 DEF IdleInv

\* A body that is passed on is counted as it was reported, unless its data were
\* torn, and never for more.
LEMMA PassedInductive ==
  /\ AnswerInit => PassedInv
  /\ InputInv /\ PassedInv /\ [AnswerNext]_answerVars => PassedInv'
  <1>1. ASSUME AnswerInit PROVE PassedInv
    <2>1. InputInv
      BY <1>1, InputInductive
    <2>2. pos = 0 /\ tracker = NoTokens
      BY <1>1 DEF AnswerInit
    <2>3. FollowsProtocol(message) /\ Len(message) \in Nat
      BY <2>1, MessageFacts
    <2>4. Arrived(pos) = Upto(message, 0) /\ Place(pos) = 0
      BY <2>2 DEF Arrived, Place, Places
    <2>5. Reported(Arrived(pos)) = NoTokens
      BY <2>3, <2>4, NothingYet
    <2>6. NoTokens \in Totals /\ AtMost(NoTokens, NoTokens)
      BY NoTokensFacts, AtMostOrders
    <2>. QED
      BY <2>2, <2>4, <2>5, <2>6 DEF PassedInv
  <1>2. ASSUME InputInv, PassedInv, [AnswerNext]_answerVars PROVE PassedInv'
    <2>1. message' = message /\ path' = path
      BY <1>2, InputInductive
    <2>2. /\ FollowsProtocol(message) /\ CountsUp(message) /\ Len(message) \in Nat
          /\ pos \in 0 .. Places * Len(message) /\ Arrived(pos) = Upto(message, Arrivals)
      BY <1>2, MessageFacts
    <2>. SUFFICES ASSUME path = "passed" PROVE PassedInv'
      BY <2>1 DEF PassedInv
    <2>3. /\ tracker \in Totals /\ AtMost(tracker, Reported(Upto(message, Arrivals)))
          /\ ~torn => Place(pos) \in 0 .. 3 /\ tracker = Reported(Upto(message, Arrivals))
      BY <1>2, <2>2 DEF PassedInv
    <2>4. CASE Chunk
      <3>1. PICK to \in pos + 1 .. Total :
              /\ pos' = to /\ to \in pos .. Places * Len(message) /\ Arrivals' = to \div Places
              /\ to \div Places \in Arrivals .. Len(message)
              /\ Lines(to) = First(Len(message), pos, to)
              /\ TranslateChunk(to) \/ PassChunk(to) \/ CollectChunk(to) \/ PiChunk(to)
        BY <1>2, <2>4, ChunkFacts
      <3>2. PassChunk(to)
        BY <3>1 DEF TranslateChunk, CollectChunk, PiChunk, Asks
      <3>3. /\ tracker' = Extracted(tracker, First(Len(message), pos, to))
            /\ torn' = (torn \/ Place(to) \in {4, 5})
        BY <3>1, <3>2 DEF PassChunk, Extracted
      <3>. DEFINE whole == ~torn'
      <3>4. whole \in BOOLEAN
        OBVIOUS
      <3>5. whole => Place(pos) \in 0 .. 3 /\ tracker = Reported(Upto(message, pos \div Places))
        BY <2>3, <3>3 DEF Arrivals
      <3>6. AtMost(tracker, Reported(Upto(message, pos \div Places)))
        BY <2>3 DEF Arrivals
      <3>7. Place(to) \in 0 .. 5
        BY <2>2, <3>1, PlacesFacts DEF Place, Places
      <3>8. whole => Place(to) \in 0 .. 3
        <4>1. whole => ~(Place(to) \in {4, 5})
          BY <3>3
        <4>2. Place(to) \in 0 .. 5 /\ ~(Place(to) \in {4, 5}) => Place(to) \in 0 .. 3
          OBVIOUS
        <4>. QED
          BY <3>7, <4>1, <4>2
      <3>. HIDE DEF whole
      <3>9. LET x == Extracted(tracker, First(Len(message), pos, to))
                r == Reported(Upto(message, to \div Places))
            IN x \in Totals /\ AtMost(x, r) /\ (whole => x = r)
        BY <2>2, <2>3, <3>1, <3>4, <3>5, <3>6, ExtractedGood
      <3>10. /\ tracker' \in Totals /\ AtMost(tracker', Reported(Upto(message, to \div Places)))
             /\ whole => tracker' = Reported(Upto(message, to \div Places))
        BY <3>3, <3>9
      <3>11. Arrived(pos)' = Upto(message, to \div Places)
        BY <2>1, <3>1 DEF Arrived
      <3>12. Place(pos)' = Place(to)
        BY <3>1 DEF Place
      <3>. QED
        BY <3>8, <3>10, <3>11, <3>12 DEF PassedInv, whole
    <2>5. CASE ~Chunk
      <3>1. UNCHANGED <<pos, torn, tracker>>
        BY <1>2, <2>5 DEF AnswerNext, answerVars, PiSend, PiEnd, PiUpstreamEnds,
          PiUpstreamFails, StreamEnds, WholeEnds, UpstreamFails, Leave
      <3>2. Arrived(pos)' = Upto(message, Arrivals) /\ Place(pos)' = Place(pos)
        BY <2>1, <2>2, <3>1 DEF Arrived, Place, Arrivals
      <3>. QED
        BY <2>3, <3>1, <3>2 DEF PassedInv
    <2>. QED
      BY <2>4, <2>5
  <1>. QED
    BY <1>1, <1>2

\* Before anything has arrived nothing is translated.
LEMMA NothingTranslated ==
  ASSUME FollowsProtocol(message), path = "translated"
  PROVE  /\ Translation(Upto(message, 0)) = <<>> /\ Seen(Upto(message, 0)) = NoTokens
  <1>1. DOMAIN Upto(message, 0) = {} /\ ToSet(Upto(message, 0)) = {}
    <2>1. 0 \in 0 .. Len(message)
      BY NothingYet
    <2>2. /\ DOMAIN Upto(message, 0) = 1 .. 0
          /\ ToSet(Upto(message, 0)) = {message[i] : i \in 1 .. 0}
      BY <2>1, UptoFacts
    <2>. QED
      BY <2>2
  <1>2. Seen(Upto(message, 0)) = NoTokens
    BY <1>1 DEF Seen
  <1>3. Translation(Upto(message, 0)) = FlattenSeq([n \in {} |-> Piece(Upto(message, 0), n)])
    BY <1>1 DEF Translation, Piece
  <1>4. [n \in {} |-> Piece(Upto(message, 0), n)] = <<>>
    OBVIOUS
  <1>5. FlattenSeq(<<>>) = <<>>
    BY EmptySeq, FlattenAppend
  <1>. QED
    BY <1>2, <1>3, <1>4, <1>5

\* One chunk that is translated.
LEMMA TranslateGood ==
  ASSUME InputInv, TranslatedInv, path = "translated",
         NEW to \in pos .. Places * Len(message),
         Lines(to) = First(Len(message), pos, to), TranslateChunk(to)
  PROVE  LET N == to \div Places
         IN /\ parser' \in Parsers /\ Loose(parser', tracker', got', message, N)
            /\ ~torn' => /\ Place(to) \in {0, 3} /\ Tight(parser', tracker', got', message, N)
                         /\ Place(to) = 3 => parser'.type = message[N + 1].type
  <1>. DEFINE s0 == [f \in DOMAIN parser \union {"out", "ok"} |->
                       CASE f = "out" -> <<>> [] f = "ok" -> TRUE [] OTHER -> parser[f]]
              s == Handled(s0, First(Len(message), pos, to))
              N == to \div Places
              whole == ~torn'
              raw == [type |-> "raw"]
  <1>1. /\ FollowsProtocol(message) /\ CountsUp(message) /\ Len(message) \in Nat
        /\ pos \in 0 .. Places * Len(message) /\ Arrivals \in 0 .. Len(message)
    BY MessageFacts
  <1>2. /\ parser \in Parsers /\ Loose(parser, tracker, got, message, Arrivals)
        /\ ~torn => /\ Place(pos) \in {0, 3} /\ Tight(parser, tracker, got, message, Arrivals)
                    /\ Place(pos) = 3 => parser.type = message[Arrivals + 1].type
    BY DEF TranslatedInv
  <1>3. /\ parser' = [f \in DOMAIN parser |-> s[f]]
        /\ got' = IF s.ok THEN got \o s.out ELSE Append(got, raw)
        /\ tracker' = IF s.ok THEN Tracked(tracker, s.out) ELSE tracker
        /\ torn' = (torn \/ Place(to) \notin {0, 3})
    BY DEF TranslateChunk, Handled
  <1>4. /\ s0 \in Translators /\ s0.out = <<>> /\ s0.ok
        /\ s0.type = parser.type /\ s0.blocks = parser.blocks /\ s0.reason = parser.reason
        /\ s0.input = parser.input
    <2>1. <<>> \in Seq(Chunks)
      BY EmptySeq
    <2>2. DOMAIN parser = {"type", "blocks", "reason", "input", "output"}
      BY <1>2 DEF Parsers
    <2>3. /\ parser.type \in Types /\ parser.blocks \in Nat /\ parser.reason \in EndReasons
          /\ parser.input \in Nat /\ parser.output \in Nat
      BY <1>2 DEF Parsers
    <2>4. /\ s0.out = <<>> /\ s0.ok = TRUE
          /\ s0.type = parser.type /\ s0.blocks = parser.blocks /\ s0.reason = parser.reason
          /\ s0.input = parser.input /\ s0.output = parser.output
      BY <2>2
    <2>. DEFINE D == {"type", "blocks", "reason", "input", "output", "out", "ok"}
                r == [type |-> parser.type, blocks |-> parser.blocks, reason |-> parser.reason,
                      input |-> parser.input, output |-> parser.output, out |-> <<>>, ok |-> TRUE]
    <2>5. s0 = r
      <3>1. DOMAIN parser \union {"out", "ok"} = D
        BY <2>2
      <3>2. s0 = [f \in D |-> s0[f]]
        BY <3>1
      <3>3. r = [f \in D |-> r[f]]
        OBVIOUS
      <3>4. \A f \in D : s0[f] = r[f]
        <4>1. /\ r.type = parser.type /\ r.blocks = parser.blocks /\ r.reason = parser.reason
              /\ r.input = parser.input /\ r.output = parser.output
              /\ r.out = <<>> /\ r.ok = TRUE
          OBVIOUS
        <4>. HIDE DEF s0, r
        <4>. QED
          BY <2>4, <4>1
      <3>. HIDE DEF s0, r
      <3>. QED
        BY <3>2, <3>3, <3>4
    <2>. HIDE DEF s0
    <2>6. s0 \in Translators
      BY <2>1, <2>3, <2>5 DEF Translators
    <2>. QED
      BY <2>4, <2>6
  <1>. HIDE DEF s0
  <1>5. /\ tracker \in Totals /\ got \in Seq(Chunks)
        /\ Loose(s0, tracker, got, message, pos \div Places)
        /\ ~torn => Tight(s0, tracker, got, message, pos \div Places)
    BY <1>2, <1>4 DEF Loose, Tight, Arrivals
  <1>6. whole \in BOOLEAN
    OBVIOUS
  <1>7. whole => /\ Place(pos) \in {0, 3} /\ Place(to) \in {0, 3}
                 /\ Tight(s0, tracker, got, message, pos \div Places)
                 /\ Place(pos) = 3 => s0.type = message[pos \div Places + 1].type
    BY <1>2, <1>3, <1>4, <1>5 DEF Arrivals
  <1>. HIDE DEF whole
  <1>8. /\ s \in Translators
        /\ Loose(s, Tracked(tracker, s.out), got \o s.out, message, N)
        /\ whole => /\ s.ok /\ Tight(s, Tracked(tracker, s.out), got \o s.out, message, N)
                    /\ Place(to) = 3 => s.type = message[N + 1].type
    BY <1>1, <1>4, <1>5, <1>6, <1>7, HandledGood
  <1>. HIDE DEF s
  <1>9. /\ parser' \in Parsers /\ parser'.type = s.type /\ parser'.blocks = s.blocks
        /\ parser'.reason = s.reason /\ parser'.input = s.input
    <2>1. DOMAIN parser = {"type", "blocks", "reason", "input", "output"}
      BY <1>2 DEF Parsers
    <2>2. parser' = [type |-> s.type, blocks |-> s.blocks, reason |-> s.reason,
                     input |-> s.input, output |-> s.output]
      BY <1>3, <2>1
    <2>. QED
      BY <1>8, <2>2 DEF Parsers, Translators
  <1>10. CASE s.ok
    <2>1. got' = got \o s.out /\ tracker' = Tracked(tracker, s.out)
      BY <1>3, <1>10
    <2>2. Loose(parser', tracker', got', message, N)
      BY <1>8, <1>9, <2>1 DEF Loose
    <2>3. whole => /\ Tight(parser', tracker', got', message, N)
                   /\ Place(to) = 3 => parser'.type = message[N + 1].type
      BY <1>8, <1>9, <2>1 DEF Tight
    <2>. QED
      BY <1>7, <1>9, <2>2, <2>3 DEF whole
  <1>11. CASE ~s.ok
    <2>1. got' = Append(got, raw) /\ tracker' = tracker /\ ~whole
      BY <1>3, <1>8, <1>11
    <2>2. N \in 0 .. Len(message) /\ Arrivals \in 0 .. N
      BY <1>1, PlacesFacts DEF Arrivals
    <2>3. parser.input \in Nat
      BY <1>2 DEF Parsers
    <2>4. Loose(parser, tracker, got, message, N)
      BY <1>1, <1>2, <2>2, <2>3, LooseStays
    <2>5. raw \in Chunks /\ raw.type # "delta"
      BY DEF Chunks
    <2>. HIDE DEF raw
    <2>6. Append(got, raw) \in Seq(Chunks) /\ Ascending(Append(got, raw))
          /\ Behind(Append(got, raw), message, N)
      BY <1>5, <2>4, <2>5, SayFacts DEF Loose
    <2>7. s.input <= Reported(Upto(message, N)).input
      BY <1>8 DEF Loose
    <2>8. Loose(parser', tracker', got', message, N)
      BY <1>9, <2>1, <2>4, <2>6, <2>7 DEF Loose
    <2>. QED
      BY <1>9, <2>1, <2>8 DEF whole
  <1>. QED
    BY <1>10, <1>11

\* What an OpenAI client is sent is in order, and the translation of the message
\* unless a line was torn.
LEMMA TranslatedInductive ==
  /\ AnswerInit => TranslatedInv
  /\ InputInv /\ IdleInv /\ TranslatedInv /\ [AnswerNext]_answerVars => TranslatedInv'
  <1>1. ASSUME AnswerInit, path = "translated" PROVE TranslatedInv
    <2>1. InputInv
      BY <1>1, InputInductive
    <2>2. /\ pos = 0 /\ tracker = NoTokens /\ got = <<>>
          /\ parser = [type |-> "", blocks |-> 0, reason |-> "none", input |-> 0, output |-> 0]
      BY <1>1 DEF AnswerInit
    <2>3. FollowsProtocol(message) /\ Len(message) \in Nat
      BY <2>1, MessageFacts
    <2>4. Arrivals = 0 /\ Place(pos) = 0
      <3>1. 0 \in 0 .. Places * Len(message) /\ 0 \in 0 .. Places * Len(message)
        BY <2>3 DEF Places
      <3>2. 0 \div Places = 0 /\ Place(0) = 0
        BY <2>3, <3>1, PlacesFacts
      <3>. QED
        BY <2>2, <3>2 DEF Arrivals
    <2>5. /\ Opened(Upto(message, 0)) = {} /\ Reported(Upto(message, 0)) = NoTokens
          /\ Reason(Upto(message, 0)) = "none"
      BY <2>3, NothingYet
    <2>6. /\ Translation(Upto(message, 0)) = <<>> /\ Seen(Upto(message, 0)) = NoTokens
      BY <1>1, <2>3, NothingTranslated
    <2>7. NoTokens \in Totals /\ AtMost(NoTokens, NoTokens) /\ NoTokens.input = 0
      BY NoTokensFacts, AtMostOrders
    <2>8. parser \in Parsers /\ parser.input = 0 /\ parser.blocks = 0 /\ parser.reason = "none"
      BY <2>2 DEF Parsers, Types, EndReasons
    <2>9. <<>> \in Seq(Chunks) /\ Ascending(<<>>) /\ Behind(<<>>, message, 0)
      BY EmptySeq DEF Ascending, Behind
    <2>10. Loose(parser, tracker, got, message, Arrivals)
      <3>1. tracker \in Totals /\ AtMost(tracker, Reported(Upto(message, Arrivals)))
        BY <2>2, <2>4, <2>5, <2>7
      <3>2. parser.input <= Reported(Upto(message, Arrivals)).input
        BY <2>4, <2>5, <2>7, <2>8
      <3>3. got \in Seq(Chunks) /\ Ascending(got) /\ Behind(got, message, Arrivals)
        BY <2>2, <2>4, <2>9
      <3>. QED
        BY <3>1, <3>2, <3>3 DEF Loose
    <2>11. Tight(parser, tracker, got, message, Arrivals)
      <3>1. 1 .. 0 = {}
        OBVIOUS
      <3>. QED
        BY <2>2, <2>4, <2>5, <2>6, <2>7, <2>8, <3>1 DEF Tight
    <2>. QED
      BY <2>4, <2>8, <2>10, <2>11 DEF TranslatedInv
  <1>2. ASSUME InputInv, IdleInv, TranslatedInv, [AnswerNext]_answerVars PROVE TranslatedInv'
    <2>1. message' = message /\ path' = path
      BY <1>2, InputInductive
    <2>. SUFFICES ASSUME path = "translated" PROVE TranslatedInv'
      BY <2>1 DEF TranslatedInv
    <2>2. ASSUME /\ parser' \in Parsers /\ Loose(parser', tracker', got', message, Arrivals')
                 /\ ~torn' => /\ Place(pos') \in {0, 3}
                              /\ Tight(parser', tracker', got', message, Arrivals')
                              /\ Place(pos') = 3 => parser'.type = message[Arrivals' + 1].type
          PROVE  TranslatedInv'
      <3>1. Loose(parser, tracker, got, message, Arrivals)'
        BY <2>1, <2>2 DEF Loose
      <3>2. Tight(parser', tracker', got', message, Arrivals')
              => Tight(parser, tracker, got, message, Arrivals)'
        BY <2>1 DEF Tight, Seen
      <3>3. Place(pos)' = Place(pos')
        BY DEF Place
      <3>. QED
        BY <2>1, <2>2, <3>1, <3>2, <3>3 DEF TranslatedInv
    <2>3. CASE Chunk
      <3>1. PICK to \in pos + 1 .. Total :
              /\ pos' = to /\ to \in pos .. Places * Len(message) /\ Arrivals' = to \div Places
              /\ to \div Places \in Arrivals .. Len(message)
              /\ Lines(to) = First(Len(message), pos, to)
              /\ TranslateChunk(to) \/ PassChunk(to) \/ CollectChunk(to) \/ PiChunk(to)
        BY <1>2, <2>3, ChunkFacts
      <3>2. TranslateChunk(to)
        BY <3>1 DEF PassChunk, CollectChunk, PiChunk, Asks
      <3>3. /\ parser' \in Parsers /\ Loose(parser', tracker', got', message, Arrivals')
            /\ ~torn' => /\ Place(pos') \in {0, 3}
                         /\ Tight(parser', tracker', got', message, Arrivals')
                         /\ Place(pos') = 3 => parser'.type = message[Arrivals' + 1].type
        BY <1>2, <3>1, <3>2, TranslateGood
      <3>. QED
        BY <2>2, <3>3
    <2>4. CASE ~Chunk
      <3>1. UNCHANGED <<pos, torn, tracker, parser, got>>
        BY <1>2, <2>4 DEF AnswerNext, answerVars, IdleInv, PiSend, PiEnd, PiUpstreamEnds, Asks,
          PiUpstreamFails, StreamEnds, WholeEnds, UpstreamFails, Leave
      <3>2. Arrivals' = Arrivals
        BY <3>1 DEF Arrivals
      <3>. QED
        BY <1>2, <2>2, <3>1, <3>2 DEF TranslatedInv
    <2>. QED
      BY <2>3, <2>4
  <1>. QED
    BY <1>1, <1>2 DEF TranslatedInv
-----------------------------------------------------------------------------
(* The bills.                                                              *)

\* The key is debited when the answer ends, and not again.
LEMMA BillsInductive ==
  /\ AnswerInit => BillsInv
  /\ InputInv /\ IdleInv /\ BillsInv /\ [AnswerNext]_answerVars => BillsInv'
  <1>1. AnswerInit => BillsInv
    BY DEF AnswerInit, BillsInv
  <1>2. ASSUME InputInv, IdleInv, BillsInv, [AnswerNext]_answerVars PROVE BillsInv'
    <2>1. /\ message' = message /\ path' = path /\ path \in {"pi", "translated", "passed", "whole"}
          /\ stage \in {"open", "ended", "failed", "left"}
      BY <1>2, InputInductive, MessageFacts DEF InputInv
    <2>. DEFINE rest == Debited([Reported(message) EXCEPT !.cached = 0])
    <2>2. rest' = rest
      BY <2>1 DEF Debited
    <2>3. ASSUME NEW t PROVE Append(<<>>, t) = <<t>>
      OBVIOUS
    <2>4. CASE stage # "open"
      <3>1. UNCHANGED answerVars
        BY <1>2, <2>4 DEF AnswerNext, Chunk, PiSend, PiEnd, PiUpstreamEnds, PiUpstreamFails,
          StreamEnds, WholeEnds, UpstreamFails, Leave
      <3>. QED
        BY <1>2, <2>2, <3>1 DEF BillsInv, answerVars, request, Debited, Total
    <2>5. CASE stage = "open" /\ stage' = "open"
      <3>1. bills' = bills
        BY <1>2, <2>5 DEF AnswerNext, answerVars, Chunk, PiSend, PiEnd, PiUpstreamEnds, PiUpstreamFails,
          StreamEnds, WholeEnds, UpstreamFails, Leave, End
      <3>2. bills = <<>>
        BY <1>2, <2>1, <2>5 DEF BillsInv
      <3>. QED
        BY <2>1, <2>5, <3>1, <3>2 DEF BillsInv
    <2>6. CASE stage = "open" /\ stage' # "open"
      <3>1. bills = <<>>
        BY <1>2, <2>1, <2>6 DEF BillsInv
      <3>2. PiEnd \/ StreamEnds \/ WholeEnds \/ UpstreamFails \/ Leave
        BY <1>2, <2>6 DEF AnswerNext, answerVars, Chunk, PiSend, PiUpstreamEnds, PiUpstreamFails
      <3>3. UNCHANGED <<machine, tracker, pos>>
        BY <3>2 DEF PiEnd, StreamEnds, WholeEnds, UpstreamFails, Leave
      <3>4. CASE path = "pi"
        <4>1. bills' = Append(bills, machine.observed)
          BY <3>2, <3>4 DEF PiEnd, StreamEnds, WholeEnds, UpstreamFails, Leave, Debit
        <4>2. bills' = <<machine.observed>>
          BY <2>3, <3>1, <4>1
        <4>3. machine.observed' = machine.observed
          BY <3>3
        <4>. QED
          BY <2>1, <2>6, <3>4, <4>2, <4>3 DEF BillsInv, Debited
      <3>5. CASE path \in {"translated", "passed"}
        <4>1. \/ stage' = "ended" /\ bills' = Append(bills, Debited(tracker))
              \/ stage' \in {"failed", "left"} /\ bills' = bills
          BY <1>2, <3>2, <3>5 DEF IdleInv, PiEnd, StreamEnds, WholeEnds, UpstreamFails, Leave,
            Debit, End
        <4>2. bills' = IF stage' = "ended" THEN <<Debited(tracker)>> ELSE <<>>
          BY <2>3, <3>1, <4>1
        <4>. QED
          BY <2>1, <3>3, <3>5, <4>2 DEF BillsInv, Debited
      <3>6. CASE path = "whole"
        <4>1. \/ stage' = "ended" /\ bills' = Append(bills, rest) /\ pos = Total
              \/ stage' \in {"failed", "left"} /\ bills' = bills
          BY <1>2, <3>2, <3>6 DEF IdleInv, PiEnd, StreamEnds, WholeEnds, UpstreamFails, Leave,
            Debit, End
        <4>2. bills' = (IF stage' = "ended" THEN <<rest>> ELSE <<>>)
              /\ (stage' = "ended" => pos' = Total')
          <5>1. Total' = Total
            BY <2>1 DEF Total
          <5>. HIDE DEF rest
          <5>. QED
            BY <2>3, <3>1, <3>3, <4>1, <5>1
        <4>. QED
          BY <2>1, <2>2, <3>6, <4>2 DEF BillsInv
      <3>. QED
        BY <2>1, <3>4, <3>5, <3>6
    <2>. QED
      BY <2>4, <2>5, <2>6
  <1>. QED
    BY <1>1, <1>2

\* The invariant is inductive: the answer to every request on every path.
THEOREM AnswerAsItArrives ==
  AnswerSpec => []AnswerInv
  <1>1. AnswerInit => AnswerInv
    BY InputInductive, IdleInductive, PiInitially, TranslatedInductive, PassedInductive,
      BillsInductive DEF AnswerInv
  <1>2. AnswerInv /\ [AnswerNext]_answerVars => AnswerInv'
    BY InputInductive, IdleInductive, PiInductive, TranslatedInductive, PassedInductive,
      BillsInductive DEF AnswerInv
  <1>. QED
    BY <1>1, <1>2, PTL DEF AnswerSpec

\* How the network cuts a body does not show, for every message that follows
\* the protocol and every way of cutting it: the Pi client is told all that has
\* arrived, the OpenAI client gets the translation unless a line was torn, and
\* its pieces of text in order even then.
THEOREM CutsDoNotShow ==
  AnswerSpec => []ChunksDoNotShow
  <1>1. AnswerInv => ChunksDoNotShow
    <2>. SUFFICES ASSUME AnswerInv PROVE ChunksDoNotShow
      OBVIOUS
    <2>1. InputInv /\ PiInv /\ TranslatedInv
      BY DEF AnswerInv
    <2>2. Arrived(pos) = Upto(message, Arrivals)
      BY <2>1, MessageFacts
    <2>3. path = "pi" /\ ~machine.done => got \o machine.queue = Story(Arrived(pos))
      BY <2>1, <2>2 DEF PiInv, Good, Proceeds, Broke, Completed
    <2>4. path = "translated" /\ ~torn => got = Translation(Arrived(pos))
      BY <2>1, <2>2 DEF TranslatedInv, Tight
    <2>5. path = "translated" => Ascending(got)
      BY <2>1 DEF TranslatedInv, Loose
    <2>. QED
      BY <2>3, <2>4, <2>5 DEF ChunksDoNotShow, Ascending
  <1>. QED
    BY <1>1, AnswerAsItArrives, PTL

\* What is debited is what was tracked, or nothing.
LEMMA DebitedFacts ==
  ASSUME NEW t \in Totals
  PROVE  /\ Debited(t) \in {t, NoTokens} /\ Debited(NoTokens) = NoTokens
         /\ t.cached = 0 => Debited(t) = t
  <1>1. Debited(t) \in {t, NoTokens} /\ Debited(NoTokens) = NoTokens
    BY DEF Debited
  <1>2. ASSUME t.cached = 0, t.input = 0, t.output = 0 PROVE t = NoTokens
    BY <1>2 DEF Totals, NoTokens
  <1>. QED
    BY <1>1, <1>2 DEF Debited

\* No tokens are never too many.
LEMMA NoTokensAtMost ==
  ASSUME NEW t \in Totals
  PROVE  AtMost(NoTokens, t)
  BY NoTokensFacts DEF AtMost, Totals

\* A client that was told the end was told all.
LEMMA DoneIsCompleted ==
  ASSUME NEW m, FollowsProtocol(m), NEW n \in 0 .. Len(m), NEW sent \in Seq(Items), NEW w,
         Good(w, m, n, sent), NEW i \in DOMAIN sent, sent[i].type = "done"
  PROVE  Completed(w, m, n, sent)
  <1>1. w.queue \in Seq(Items)
    BY DEF Good, Proceeds, Synced, Parsed, Broke, Completed, Wires
  <1>2. i \in DOMAIN (sent \o w.queue) /\ (sent \o w.queue)[i] = sent[i]
    BY <1>1
  <1>3. ASSUME NEW s \in Seq(Progress), NEW j \in DOMAIN Append(s, [type |-> "error"])
        PROVE  Append(s, [type |-> "error"])[j].type # "done"
    <2>1. j \in 1 .. Len(s) \/ j = Len(s) + 1
      OBVIOUS
    <2>2. CASE j = Len(s) + 1
      BY <2>2
    <2>3. CASE j \in 1 .. Len(s)
      <3>1. Append(s, [type |-> "error"])[j] = s[j] /\ s[j] \in Progress
        BY <2>3
      <3>. QED
        BY <3>1 DEF Progress
    <2>. QED
      BY <2>1, <2>2, <2>3
  <1>4. ASSUME Proceeds(w, m, n, sent) PROVE FALSE
    <2>. DEFINE s == Story(Upto(m, n))
    <2>1. s \in Seq(Progress)
      <3>1. n \in 0 .. n
        OBVIOUS
      <3>. QED
        BY <3>1, StoryPrefix
    <2>2. i \in DOMAIN s /\ s[i].type = "done"
      BY <1>2, <1>4 DEF Proceeds
    <2>. HIDE DEF s
    <2>3. s[i] \in Progress
      BY <2>1, <2>2
    <2>. QED
      BY <2>2, <2>3 DEF Progress
  <1>5. ASSUME Broke(w, m, n, sent) PROVE FALSE
    <2>1. PICK j \in 0 .. n : sent \o w.queue = Append(Story(Upto(m, j)), [type |-> "error"])
      BY <1>5 DEF Broke
    <2>2. Story(Upto(m, j)) \in Seq(Progress)
      BY StoryPrefix
    <2>. QED
      BY <1>2, <1>3, <2>1, <2>2
  <1>. QED
    BY <1>4, <1>5 DEF Good

\* The virtual key is debited at most once, never for more than upstream
\* reported, on the Pi path exactly once however the answer ends, and for all
\* that was reported wherever the client saw the end or no line was torn
\* (Ledger::drop, with_terminal_usage_record), for every message that follows
\* the protocol and every way of cutting it.
THEOREM KeyIsBilledAsReported ==
  AnswerSpec => []BilledAsReported
  <1>1. AnswerInv => BilledAsReported
    <2>. SUFFICES ASSUME AnswerInv PROVE BilledAsReported
      OBVIOUS
    <2>. DEFINE r == Reported(Arrived(pos))
                all == [Reported(message) EXCEPT !.cached = 0]
    <2>1. InputInv /\ PiInv /\ TranslatedInv /\ PassedInv /\ BillsInv
      BY DEF AnswerInv
    <2>2. /\ FollowsProtocol(message) /\ CountsUp(message) /\ Len(message) \in Nat
          /\ path \in {"pi", "translated", "passed", "whole"}
          /\ Arrivals \in 0 .. Len(message) /\ Arrivals \in 0 .. Arrivals
          /\ Arrived(pos) = Upto(message, Arrivals) /\ pos \in 0 .. Places * Len(message)
      BY <2>1, MessageFacts
    <2>3. r \in Totals /\ r = Reported(Upto(message, Arrivals))
      BY <2>2, ReportedOrdered
    <2>4. Upto(message, Len(message)) = message /\ Len(message) \in 0 .. Len(message)
      BY <2>2, UptoFacts
    <2>5. Reported(message) \in Totals
      <3>1. Len(message) \in 0 .. Len(message)
        BY <2>2
      <3>2. Reported(Upto(message, Len(message))) \in Totals
        BY <2>2, <3>1, ReportedOrdered
      <3>. QED
        BY <2>4, <3>2
    <2>. HIDE DEF r
    <2>6. NoTokens \in Totals /\ AtMost(NoTokens, r)
      BY <2>3, NoTokensFacts, NoTokensAtMost
    <2>7. CASE path = "pi"
      <3>. DEFINE o == machine.observed
      <3>1. got \in Seq(Items) /\ Good(machine, message, Arrivals, got)
        BY <2>1, <2>7 DEF PiInv
      <3>2. bills = IF stage = "open" THEN <<>> ELSE <<o>>
        BY <2>1, <2>7 DEF BillsInv
      <3>3. o \in Totals /\ AtMost(o, r)
        <4>1. CASE Proceeds(machine, message, Arrivals, got)
          <5>1. o = Billable(r)
            BY <2>3, <4>1 DEF Proceeds, Synced, Parsed
          <5>. QED
            BY <2>3, <5>1, BillableAtMost
        <4>2. CASE Broke(machine, message, Arrivals, got)
          BY <2>3, <4>2 DEF Broke, Wires
        <4>3. CASE Completed(machine, message, Arrivals, got)
          <5>1. o = r
            BY <2>3, <2>4, <4>3 DEF Completed
          <5>. QED
            BY <2>3, <5>1, AtMostOrders
        <4>. QED
          BY <3>1, <4>1, <4>2, <4>3 DEF Good
      <3>4. Says("done") => o = Reported(message)
        <4>1. ASSUME Says("done") PROVE Completed(machine, message, Arrivals, got)
          BY <2>2, <3>1, <4>1, DoneIsCompleted DEF Says
        <4>. QED
          BY <4>1 DEF Completed
      <3>5. ~machine.done => o = Billable(r)
        BY <2>3, <3>1 DEF Good, Proceeds, Synced, Parsed, Broke, Completed
      <3>. HIDE DEF o
      <3>8. ~machine.done => o = IF r.cached = 0 \/ priced THEN r ELSE NoTokens
        BY <3>5 DEF Billable
      <3>9. \A x : Len(<<x>>) = 1 /\ DOMAIN <<x>> = {1} /\ <<x>>[1] = x /\ <<x>> # <<>>
        OBVIOUS
      <3>10. Len(<<>>) = 0 /\ DOMAIN <<>> = {}
        OBVIOUS
      <3>11. /\ Len(bills) <= 1
             /\ \A n \in DOMAIN bills : AtMost(bills[n], r)
             /\ stage # "open" => Len(bills) = 1
             /\ bills # <<>> => bills[1] = o
        BY <3>2, <3>3, <3>9, <3>10
      <3>. QED
        BY <2>7, <3>4, <3>8, <3>11 DEF BilledAsReported, r
    <2>8. CASE path \in {"translated", "passed"}
      <3>1. bills = IF stage = "ended" THEN <<Debited(tracker)>> ELSE <<>>
        BY <2>1, <2>8 DEF BillsInv
      <3>2. tracker \in Totals /\ AtMost(tracker, r) /\ (~torn => tracker = Seen(Arrived(pos)))
        <4>1. CASE path = "translated"
          BY <2>1, <2>2, <2>3, <4>1 DEF TranslatedInv, Loose, Tight
        <4>2. CASE path = "passed"
          BY <2>1, <2>3, <4>2 DEF PassedInv, Seen, r
        <4>. QED
          BY <2>8, <4>1, <4>2
      <3>3. Debited(tracker) \in {tracker, NoTokens}
        BY <3>2, DebitedFacts
      <3>4. AtMost(Debited(tracker), r)
        BY <2>6, <3>2, <3>3
      <3>5. \A x : Len(<<x>>) = 1 /\ DOMAIN <<x>> = {1} /\ <<x>>[1] = x /\ <<x>> # <<>>
        OBVIOUS
      <3>6. Len(<<>>) = 0 /\ DOMAIN <<>> = {}
        OBVIOUS
      <3>7. /\ Len(bills) <= 1
            /\ \A n \in DOMAIN bills : AtMost(bills[n], r)
            /\ (stage = "ended") <=> (Len(bills) = 1)
            /\ stage = "ended" /\ ~torn => bills[1] = Debited(Seen(Arrived(pos)))
        BY <3>1, <3>2, <3>4, <3>5, <3>6
      <3>. QED
        BY <2>8, <3>7 DEF BilledAsReported, r
    <2>9. CASE path = "whole"
      <3>1. /\ bills = IF stage = "ended" THEN <<Debited(all)>> ELSE <<>>
            /\ stage = "ended" => pos = Total
        BY <2>1, <2>9 DEF BillsInv
      <3>2. stage = "ended" => r = Reported(message)
        <4>1. pos = Places * Len(message) => pos \div Places = Len(message)
          <5>1. pos \in pos .. Places * Len(message)
            BY <2>2
          <5>. QED
            BY <2>2, <5>1, PlacesFacts
        <4>. QED
          BY <2>3, <2>4, <3>1, <4>1 DEF Total, Arrivals
      <3>3. all \in Totals /\ all.cached = 0 /\ AtMost(all, Reported(message))
        BY <2>5 DEF Totals, AtMost
      <3>. HIDE DEF all
      <3>4. Debited(all) = all
        BY <3>3, DebitedFacts
      <3>5. \A x : Len(<<x>>) = 1 /\ DOMAIN <<x>> = {1} /\ <<x>>[1] = x /\ <<x>> # <<>>
        OBVIOUS
      <3>6. Len(<<>>) = 0 /\ DOMAIN <<>> = {}
        OBVIOUS
      <3>7. /\ Len(bills) <= 1
            /\ \A n \in DOMAIN bills : AtMost(bills[n], r)
            /\ (stage = "ended") <=> (Len(bills) = 1)
            /\ stage = "ended" => bills[1] = all
        BY <3>1, <3>2, <3>3, <3>4, <3>5, <3>6
      <3>. QED
        BY <2>9, <3>7 DEF BilledAsReported, r, all
    <2>. QED
      BY <2>2, <2>7, <2>8, <2>9
  <1>. QED
    BY <1>1, AnswerAsItArrives, PTL
=============================================================================
