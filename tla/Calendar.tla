------------------------------ MODULE Calendar ------------------------------
(***************************************************************************)
(* core/clock.py, TradingCalendar: arithmetic on trading days.  A date is  *)
(* a natural number and Sessions is the set of dates on which the exchange *)
(* opens; a date outside Sessions is a week-end or a holiday.  A date the  *)
(* loaded window does not cover raises in the code; here the window is     *)
(* Covered, and the operators are applied to dates inside it.              *)
(***************************************************************************)
EXTENDS Naturals, FiniteSets

CONSTANTS Sessions,      \* the trading days of the loaded window
          FirstCovered,  \* TradingCalendar.covers
          LastCovered

ASSUME CalendarAssumption ==
  /\ FirstCovered \in Nat
  /\ LastCovered \in Nat
  /\ Sessions \subseteq FirstCovered .. LastCovered

Covered == FirstCovered .. LastCovered

\* sessions.searchsorted(..., side="right"): the first session after a day.
After(day) == {d \in Sessions : d > day}
Before(day) == {d \in Sessions : d < day}
Earliest(days) == CHOOSE d \in days : \A other \in days : d <= other
Latest(days) == CHOOSE d \in days : \A other \in days : d >= other

NextTradingDay(day) == Earliest(After(day))

PreviousTradingDay(day) == IF day \in Sessions THEN day ELSE Latest(Before(day))

\* The n-th session after a day, n > 0; n = 0 is the day itself or, when it
\* is no session, the next one.
AddTradingDays(day, n) ==
  IF n = 0 THEN IF day \in Sessions THEN day ELSE NextTradingDay(day)
  ELSE CHOOSE d \in After(day) : Cardinality({e \in After(day) : e <= d}) = n

\* Half-open, so that a position opened and closed on one day was held 0 days.
TradingDaysBetween(start, end) ==
  Cardinality({d \in Sessions : start <= d /\ d < end})

\* A sale on a day that is no session counts from the next session.
SettlementDate(day, tPlus) == AddTradingDays(AddTradingDays(day, 0), tPlus)
=============================================================================
