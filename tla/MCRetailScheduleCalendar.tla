----------------------- MODULE MCRetailScheduleCalendar -----------------------
(***************************************************************************)
(* Instance of RetailScheduleCalendar that starts before the leap year     *)
(* 2096 and before the year 2100, which is none.                           *)
(***************************************************************************)
EXTENDS RetailScheduleCalendar

MCMonths == {12 * 2095 + 11, 12 * 2096, 12 * 2099 + 10}
=============================================================================
