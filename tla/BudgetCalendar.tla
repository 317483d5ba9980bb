--------------------------- MODULE BudgetCalendar ---------------------------
(***************************************************************************)
(* A key that is used through the year, at any hour and with any gap up to *)
(* MaxGap between two uses: what the budget windows of BudgetWindow add up *)
(* to.  update_usage is the only place a window is reset.                  *)
(***************************************************************************)
EXTENDS BudgetWindow

CONSTANTS
  MaxGap,      \* bound on the time between two uses
  LastInstant  \* bound on the clock

ASSUME BudgetCalendarAssumption ==
  /\ MaxGap \in Nat \ {0}
  /\ LastInstant \in 1..(365 * PerDay - 1)

VARIABLES
  last_use, \* the instant of the last use
  start     \* [Windows -> instant]: window_start after it, for each kind of window

calendarVars == <<last_use, start>>

CalendarInit ==
  /\ last_use \in 0..PerDay
  /\ start = [w \in Windows |-> IF w = "none" THEN Unset ELSE last_use]

Use(gap) ==
  /\ last_use + gap <= LastInstant
  /\ last_use' = last_use + gap
  /\ start' = [w \in Windows |->
                 IF ShouldReset(w, start[w], last_use + gap) THEN last_use + gap ELSE start[w]]

CalendarNext == \E gap \in 1..MaxGap : Use(gap)

CalendarSpec == CalendarInit /\ [][CalendarNext]_calendarVars

-----------------------------------------------------------------------------
(* Properties.                                                             *)

\* A charge counts only with charges of its own UTC day: right after every charge
\* the daily window began on that day, at whatever hours the key is used.  It says
\* nothing of a key that is refused before it is charged, whose window stays where
\* it was (DailyBudgetReopens in KeyUsage).
DailyStaysInItsDay == DayOf(start["daily"]) = DayOf(last_use)

\* A key in steady use gets its allowance back: no week lasts seven whole days
\* and no month 31, over months of any length.
SteadyWindowsEnd ==
  /\ NumDays(start["weekly"], last_use) < 7
  /\ NumDays(start["monthly"], last_use) < 31
=============================================================================
