------------------------ MODULE MCCalendarScheduler ------------------------
(* Small instances of CalendarScheduler: a day of a few units.             *)
EXTENDS CalendarScheduler
=============================================================================
