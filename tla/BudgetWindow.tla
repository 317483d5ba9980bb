---------------------------- MODULE BudgetWindow ----------------------------
(***************************************************************************)
(* When a budget window is reset: the should_reset match of update_usage,  *)
(* over the calendar of one ordinary year.  Instants are counted from the  *)
(* midnight that opens the year, PerDay of them to a day.                  *)
(***************************************************************************)
EXTENDS Integers, FiniteSets

CONSTANT PerDay

ASSUME BudgetWindowAssumption == PerDay \in Nat \ {0}

Unset   == -1     \* window_start is None
Windows == {"none", "total", "daily", "weekly", "monthly"}

\* The day (from 0) on which each month of the year begins.
MonthStart == <<0, 31, 59, 90, 120, 151, 181, 212, 243, 273, 304, 334>>

DayOf(t)       == t \div PerDay
MonthOf(t)     == Cardinality({m \in DOMAIN MonthStart : MonthStart[m] <= DayOf(t)})
NumDays(s, t)  == (t - s) \div PerDay   \* whole days elapsed from s to t

\* Fault: a whole day must have elapsed, not a midnight.
ShouldResetByDuration(window, start, t) ==
  \/ start = Unset /\ window # "none"
  \/ window = "daily" /\ NumDays(start, t) >= 1
  \/ window = "weekly" /\ NumDays(start, t) >= 7
  \/ window = "monthly" /\ NumDays(start, t) >= 28 /\ MonthOf(t) > MonthOf(start)

\* Fault: a month's window is reset only after 31 days.
ShouldResetLate(window, start, t) ==
  \/ start = Unset /\ window # "none"
  \/ window = "daily" /\ DayOf(t) > DayOf(start)
  \/ window = "weekly" /\ NumDays(start, t) >= 7
  \/ window = "monthly" /\ NumDays(start, t) > 31 /\ MonthOf(t) > MonthOf(start)

ShouldReset(window, start, t) ==
  \/ start = Unset /\ window # "none"
  \/ window = "daily" /\ DayOf(t) > DayOf(start)
  \/ window = "weekly" /\ NumDays(start, t) >= 7
  \/ window = "monthly" /\ NumDays(start, t) >= 28 /\ MonthOf(t) > MonthOf(start)
=============================================================================
