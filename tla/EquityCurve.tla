----------------------------- MODULE EquityCurve -----------------------------
(***************************************************************************)
(* services/portfolio.py: the table equity_snapshots, one row a date, and  *)
(* the figures read from it.  A row keeps the equity, the trading mode of  *)
(* the process that wrote it and the day's profit, None when there is no   *)
(* earlier row of that mode.                                               *)
(***************************************************************************)
EXTENDS Integers, FiniteSets

CONSTANTS None

ASSUME NoneAssumption == None \notin Int

VARIABLES curve   \* date -> [equity, mode, dayPnl]

EmptyCurve == [d \in {} |-> None]

(* _previous_equity: the newest row before a day, of the mode asked for *)
\* BUG: rows of the other mode count.
EarlierRowsMutant(day, mode) == {d \in DOMAIN curve : d < day}

EarlierRows(day, mode) ==
  {d \in DOMAIN curve : d < day /\ curve[d].mode = mode}
PreviousEquity(day, mode) ==
  LET rows == EarlierRows(day, mode)
  IN IF rows = {} THEN None
     ELSE curve[CHOOSE d \in rows : \A e \in rows : e <= d].equity

DayPnl(day, mode, equity) ==
  IF PreviousEquity(day, mode) = None THEN None
  ELSE equity - PreviousEquity(day, mode)

\* record_equity_snapshot: the row of the day is written or overwritten,
\* whatever mode wrote it before.
RecordSnapshot(day, mode, equity) ==
  curve' = [d \in DOMAIN curve \cup {day} |->
              IF d = day THEN [equity |-> equity, mode |-> mode,
                               dayPnl |-> DayPnl(day, mode, equity)]
              ELSE curve[d]]
=============================================================================
