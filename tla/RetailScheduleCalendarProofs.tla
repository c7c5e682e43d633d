--------------------- MODULE RetailScheduleCalendarProofs ---------------------
(***************************************************************************)
(* Monthly schedules keep their day and their pace for any starting month, *)
(* any interval and any number of runs.                                    *)
(***************************************************************************)
EXTENDS RetailScheduleCalendar, TLAPS

LEMMA DaysInMonth == ASSUME NEW month PROVE DaysIn(month) \in 28..31
  BY DEF DaysIn

LEMMA LeastOfTwo ==
  ASSUME NEW a \in Int, NEW b \in Int
  PROVE  /\ Least(a, b) \in {a, b} /\ Least(a, b) <= a /\ Least(a, b) <= b
         /\ a <= b => Least(a, b) = a
  BY DEF Least

\* A monthly schedule keeps the day it was given as its anchor, and its dates and
\* counters stay what they are.
MonthlyInv ==
    /\ interval \in Nat /\ runs \in Nat
    /\ frequency = "monthly" =>
        /\ anchorDay = origin.day
        /\ origin.month \in Nat /\ origin.day \in 1..DaysIn(origin.month)
        /\ next.day = Least(origin.day, DaysIn(next.month))
        /\ next.month = origin.month + runs * interval

LEMMA MonthlySet ==
  ASSUME NEW month \in Months, NEW day \in 1..DaysIn(month)
  PROVE  Least(day, DaysIn(month)) = day /\ month \in Nat
  <1>1. DaysIn(month) \in Int /\ day \in Int /\ day <= DaysIn(month)
    BY DaysInMonth
  <1>2. QED
    BY <1>1, LeastOfTwo, CalendarAssumption

LEMMA MonthlyInit == Init => MonthlyInv
  <1> SUFFICES ASSUME Init PROVE MonthlyInv
    OBVIOUS
  <1>0. PICK month \in Months : \E day \in 1..DaysIn(month) :
          /\ next = [month |-> month, day |-> day]
          /\ origin = next /\ anchorDay = day
    BY DEF Init
  <1>1. PICK day \in 1..DaysIn(month) :
          /\ next = [month |-> month, day |-> day]
          /\ origin = next /\ anchorDay = day
    BY <1>0
  <1>2. interval \in Nat /\ runs = 0
    BY CalendarAssumption DEF Init
  <1>3. QED
    BY <1>1, <1>2, MonthlySet DEF MonthlyInv

LEMMA MonthlyStep == MonthlyInv /\ [Next]_vars => MonthlyInv'
  <1> SUFFICES ASSUME MonthlyInv, [Next]_vars PROVE MonthlyInv'
    OBVIOUS
  <1>1. CASE Save
    <2>0. PICK month \in Months : \E day \in 1..DaysIn(month) :
            Saved([month |-> month, day |-> day])
      BY <1>1 DEF Save
    <2>1. PICK day \in 1..DaysIn(month) : Saved([month |-> month, day |-> day])
      BY <2>0
    <2>2. interval' \in Nat /\ runs' = 0
      BY <2>1, CalendarAssumption DEF Saved
    <2>3. QED
      BY <2>1, <2>2, MonthlySet DEF Saved, MonthlyInv
  <1>2. CASE Run
    <2>1. CASE frequency = "monthly"
      <3>1. /\ next' = [month |-> next.month + interval,
                        day |-> Least(anchorDay, DaysIn(next.month + interval))]
            /\ runs' = runs + 1 /\ runs' \in Nat
            /\ UNCHANGED <<frequency, interval, anchorDay, origin>>
        BY <1>2, <2>1 DEF Run, nextRetailScheduleRun, AddMonths, MonthlyInv
      <3>2. (runs + 1) * interval = runs * interval + interval
        BY DEF MonthlyInv
      <3>3. runs * interval \in Nat
        BY DEF MonthlyInv
      <3>4. next'.month = origin.month + runs' * interval
        BY <2>1, <3>1, <3>2, <3>3 DEF MonthlyInv
      <3>5. next'.day = Least(origin.day, DaysIn(next'.month))
        BY <2>1, <3>1 DEF MonthlyInv
      <3>6. QED
        BY <2>1, <3>1, <3>4, <3>5 DEF MonthlyInv
    <2>2. CASE frequency # "monthly"
      BY <1>2, <2>2 DEF Run, MonthlyInv
    <2>3. QED
      BY <2>1, <2>2
  <1>3. CASE UNCHANGED vars
    BY <1>3 DEF vars, MonthlyInv
  <1>4. QED
    BY <1>1, <1>2, <1>3 DEF Next

\* Clamping to a short month is forgotten by the next run, and run number n of a
\* monthly schedule is n intervals after its start.
THEOREM MonthlyRunsKept == Spec => []MonthlyRunsAsSet
  <1>1. MonthlyInv => MonthlyRunsAsSet
    BY DEF MonthlyInv, MonthlyRunsAsSet, MonthlyKeepsItsDay, MonthlyKeepsPace
  <1>2. QED
    BY <1>1, MonthlyInit, MonthlyStep, PTL DEF Spec
=============================================================================
