---------------------------- MODULE DailyLimiter ----------------------------
(***************************************************************************)
(* The requests-per-day limiter of one virtual key, shared by threads: two *)
(* atomics, count and day_start.  Every load, store and compare_exchange   *)
(* is a step of its own; they are taken to be sequentially consistent.     *)
(***************************************************************************)
EXTENDS Integers, FiniteSets

CONSTANTS
  Threads, \* threads that call check
  Limit,   \* requests per day; 0 means no limiter is asked
  MaxDay   \* bound on the clock, in days

ASSUME DailyLimiterAssumption ==
  Limit \in Nat \ {0} /\ MaxDay \in Nat /\ IsFiniteSet(Threads)

VARIABLES
  today,     \* the wall clock, in days
  count,     \* requests counted
  day_start, \* the day they are counted for
  pc,        \* where each thread stands in check
  seen,      \* each thread's local: today, and what it loaded last
  accepted,  \* history: requests accepted, by the day_start they counted for
  raced      \* history: days in which a request was counted while a reset was
             \* between its exchange of day_start and its store to count

vars == <<today, count, day_start, pc, seen, accepted, raced>>

Days  == 0..MaxDay
Stage == {"idle", "load_day", "swap_day", "zero", "load_count", "swap_count"}

Goto(t, stage) == pc' = [pc EXCEPT ![t] = stage]

Resetting == {t \in Threads : pc[t] = "zero"}

Init ==
  /\ today = 0
  /\ count = 0
  /\ day_start = 0
  /\ pc = [t \in Threads |-> "idle"]
  /\ seen = [t \in Threads |-> [today |-> 0, loaded |-> 0]]
  /\ accepted = [d \in Days |-> 0]
  /\ raced = {}

Midnight ==
  /\ today < MaxDay
  /\ today' = today + 1
  /\ UNCHANGED <<count, day_start, pc, seen, accepted, raced>>

\* reset_if_new_day: the clock is read before day_start.
ReadClock(t) ==
  /\ pc[t] = "idle"
  /\ seen' = [seen EXCEPT ![t].today = today]
  /\ Goto(t, "load_day")
  /\ UNCHANGED <<today, count, day_start, accepted, raced>>

\* Fault: every check is taken for the first of its day.
LoadDayNotStrict(t) ==
  /\ pc[t] = "load_day"
  /\ seen' = [seen EXCEPT ![t].loaded = day_start]
  /\ Goto(t, IF seen[t].today >= day_start THEN "swap_day" ELSE "load_count")
  /\ UNCHANGED <<today, count, day_start, accepted, raced>>

LoadDay(t) ==
  /\ pc[t] = "load_day"
  /\ seen' = [seen EXCEPT ![t].loaded = day_start]
  /\ Goto(t, IF seen[t].today > day_start THEN "swap_day" ELSE "load_count")
  /\ UNCHANGED <<today, count, day_start, accepted, raced>>

\* Fault: the winner of the exchange does not reset the count.
SwapDayOnly(t) ==
  /\ pc[t] = "swap_day"
  /\ day_start' = IF day_start = seen[t].loaded THEN seen[t].today ELSE day_start
  /\ Goto(t, "load_count")
  /\ UNCHANGED <<today, count, seen, accepted, raced>>

SwapDay(t) ==
  /\ pc[t] = "swap_day"
  /\ \/ /\ day_start = seen[t].loaded
        /\ day_start' = seen[t].today
        /\ Goto(t, "zero")
     \/ /\ day_start # seen[t].loaded
        /\ UNCHANGED day_start
        /\ Goto(t, "load_count")
  /\ UNCHANGED <<today, count, seen, accepted, raced>>

Zero(t) ==
  /\ pc[t] = "zero"
  /\ count' = 0
  /\ Goto(t, "load_count")
  /\ UNCHANGED <<today, day_start, seen, accepted, raced>>

\* The loop of check: the count is full, or there is a slot to take.
Reject(t) ==
  /\ pc[t] = "load_count"
  /\ count >= Limit
  /\ Goto(t, "idle")
  /\ UNCHANGED <<today, count, day_start, seen, accepted, raced>>

LoadCount(t) ==
  /\ pc[t] = "load_count"
  /\ count < Limit
  /\ seen' = [seen EXCEPT ![t].loaded = count]
  /\ Goto(t, "swap_count")
  /\ UNCHANGED <<today, count, day_start, accepted, raced>>

\* Fault: a store instead of an exchange.
StoreCount(t) ==
  /\ pc[t] = "swap_count"
  /\ count' = seen[t].loaded + 1
  /\ accepted' = [accepted EXCEPT ![day_start] = @ + 1]
  /\ raced' = IF Resetting # {} THEN raced \cup {day_start} ELSE raced
  /\ Goto(t, "idle")
  /\ UNCHANGED <<today, day_start, seen>>

\* Accepted.
SwapCount(t) ==
  /\ pc[t] = "swap_count"
  /\ count = seen[t].loaded
  /\ count' = count + 1
  /\ accepted' = [accepted EXCEPT ![day_start] = @ + 1]
  /\ raced' = IF Resetting # {} THEN raced \cup {day_start} ELSE raced
  /\ Goto(t, "idle")
  /\ UNCHANGED <<today, day_start, seen>>

Retry(t) ==
  /\ pc[t] = "swap_count"
  /\ count # seen[t].loaded
  /\ Goto(t, "load_count")
  /\ UNCHANGED <<today, count, day_start, seen, accepted, raced>>

Step(t) ==
  \/ ReadClock(t) \/ LoadDay(t) \/ SwapDay(t) \/ Zero(t)
  \/ Reject(t) \/ LoadCount(t) \/ SwapCount(t) \/ Retry(t)

Next == Midnight \/ \E t \in Threads : Step(t)

Spec == Init /\ [][Next]_vars

-----------------------------------------------------------------------------
(* Properties.                                                             *)

\* Every variable has its type.
TypeOK ==
  /\ today \in Days
  /\ count \in 0..Limit
  /\ day_start \in 0..today
  /\ pc \in [Threads -> Stage]
  /\ seen \in [Threads -> [today: Days, loaded: Nat]]
  /\ accepted \in [Days -> Nat]
  /\ raced \subseteq Days

\* On a day whose reset raced with no request, however many threads compete
\* for the last slot, no more than Limit requests are accepted.
QuietDayCapped ==
  \A d \in Days \ raced : accepted[d] <= Limit

\* A request is only refused when the day's allowance is used up, unless that
\* day's reset is under way or raced.
RefusedOnlyWhenFull ==
  [][\A t \in Threads :
       Reject(t) => \/ accepted[day_start] >= Limit
                    \/ Resetting # {}
                    \/ day_start \in raced]_vars

\* A reset that a request overtakes, or that is late by a day, gives a day
\* its allowance again, and no more than once for each thread.
RacedDayBounded ==
  \A d \in Days : accepted[d] <= Limit * Cardinality(Threads)

=============================================================================
