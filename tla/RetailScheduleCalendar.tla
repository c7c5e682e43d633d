------------------------ MODULE RetailScheduleCalendar ------------------------
(***************************************************************************)
(* The dates on which one template schedule runs: nextRetailScheduleRun    *)
(* applied over and over to next_run_at, from the date somebody gave it.   *)
(* A date is a number of months since January of year 0 and a day; the     *)
(* time of day is carried along unchanged and left out.                    *)
(***************************************************************************)
EXTENDS Integers

CONSTANTS
    Months,      \* months in which schedules may be set to start
    Intervals,   \* intervals callers give
    MaxRuns      \* bound on the runs between two edits

ASSUME CalendarAssumption ==
    Months \subseteq Nat /\ Intervals \subseteq Nat \ {0} /\ MaxRuns \in Nat

VARIABLES
    frequency, interval, anchorDay,  \* of the retail_template_schedules row
    next,                            \* its next_run_at
    origin,                          \* next_run_at as it was last set by hand
    runs                             \* runs since then

vars == <<frequency, interval, anchorDay, next, origin, runs>>

Frequency == {"daily", "weekly", "monthly"}
Date == [month: Nat, day: 1..31]

-----------------------------------------------------------------------------
(* The calendar of Go's package time *)

Leap(year) == year % 4 = 0 /\ (year % 100 # 0 \/ year % 400 = 0)

DaysIn(month) ==
    CASE month % 12 = 1                -> IF Leap(month \div 12) THEN 29 ELSE 28
      [] month % 12 \in {3, 5, 8, 10} -> 30
      [] OTHER                         -> 31

\* AddDate(0, 0, n): days past the end of a month run into the next one.
AddDays(date, n) ==
    LET At[month \in Nat, day \in Nat] ==
            IF day <= DaysIn(month) THEN [month |-> month, day |-> day]
            ELSE At[month + 1, day - DaysIn(month)]
    IN  At[date.month, date.day + n]

Least(a, b) == IF a <= b THEN a ELSE b

\* Mutant: clamped from the day of the run before.
AddMonths_Drifting(date, n) ==
    [month |-> date.month + n, day |-> Least(date.day, DaysIn(date.month + n))]

\* The anchor day of the month that is n further on, or its last day.
AddMonths(date, n) ==
    [month |-> date.month + n, day |-> Least(anchorDay, DaysIn(date.month + n))]

-----------------------------------------------------------------------------

nextRetailScheduleRun ==
    CASE frequency = "daily"   -> AddDays(next, interval)
      [] frequency = "weekly"  -> AddDays(next, 7 * interval)
      [] frequency = "monthly" -> AddMonths(next, interval)

\* The schedule was created or updated; both take the anchor day from the date.
Saved(date) ==
    /\ frequency' \in Frequency
    /\ interval' \in Intervals
    /\ next' = date /\ origin' = date /\ anchorDay' = date.day
    /\ runs' = 0

Save == \E month \in Months : \E day \in 1..DaysIn(month) :
            Saved([month |-> month, day |-> day])

Run ==
    /\ runs < MaxRuns
    /\ next' = nextRetailScheduleRun
    /\ runs' = runs + 1
    /\ UNCHANGED <<frequency, interval, anchorDay, origin>>

Init ==
    /\ frequency \in Frequency
    /\ interval \in Intervals
    /\ \E month \in Months : \E day \in 1..DaysIn(month) :
        /\ next = [month |-> month, day |-> day]
        /\ origin = next /\ anchorDay = day
    /\ runs = 0

Next == Save \/ Run

Spec == Init /\ [][Next]_vars
-----------------------------------------------------------------------------
(* Properties *)

\* A monthly schedule runs on the day of the month it was set to, or on the last
\* day of a month too short for it, and returns to its day afterwards however
\* many short months there were (QA_PLAN.md, "automatic scheduling").
MonthlyKeepsItsDay ==
    frequency = "monthly" =>
        next.day = Least(origin.day, DaysIn(next.month))

\* No month is left out or visited twice: clamping never spills into the month
\* after.
MonthlyKeepsPace ==
    frequency = "monthly" => next.month = origin.month + runs * interval

\* Together: the n-th run of a monthly schedule is in the month n intervals after
\* its start, on its own day or the last one.
MonthlyRunsAsSet == MonthlyKeepsItsDay /\ MonthlyKeepsPace
=============================================================================
