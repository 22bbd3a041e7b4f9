------------------------------ MODULE MCPaper -------------------------------
(***************************************************************************)
(* The instance of Paper that TLC explores: two symbols, nine days of bars *)
(* in two overlapping test windows, five days of paper trading.            *)
(***************************************************************************)
EXTENDS Paper

\* Day 5 and day 10 are no sessions, nor is day 12, between two trading days.
MCSessions == {1, 2, 3, 4, 6, 7, 8, 9, 11, 13, 14, 15}

\* The second symbol has no real bar before day 3.
MCListed == [s \in Symbols |-> IF s = "spsk" THEN 3 ELSE 1]

BarAt(open, high, low, close) ==
  [open |-> open, high |-> high, low |-> low, close |-> close]

\* The real fund swings through its stop and its target; the real sukuk fund
\* hardly moves; the generated series rise.
MCPrice ==
  [real |->
     [spus |-> [d \in 1 .. 15 |->
                  CASE d <= 6 -> BarAt(2000, 2060, 1980, 2040)
                    [] d = 7 -> BarAt(2050, 2300, 2000, 2250)
                    [] d = 8 -> BarAt(2200, 2260, 1700, 1800)
                    [] OTHER -> BarAt(1850, 1900, 1840, 1880)],
      spsk |-> [d \in 1 .. 15 |-> BarAt(1800 + d, 1802 + d, 1798 + d, 1801 + d)]],
   synthetic |->
     [spus |-> [d \in 1 .. 15 |->
                  BarAt(2000 + 30 * d, 2040 + 30 * d, 1990 + 30 * d, 2020 + 30 * d)],
      spsk |-> [d \in 1 .. 15 |->
                  BarAt(1900 + 10 * d, 1915 + 10 * d, 1890 + 10 * d, 1905 + 10 * d)]]]

MCRanges == {<<1, 9>>, <<1, 6>>}

Row(measured, trades, winning, outOfSample) ==
  [measured |-> measured, trades |-> trades, winning |-> winning,
   outOfSample |-> outOfSample]

\* No record, an expired one, and a good one followed by a measurement that is
\* not out-of-sample (save accepts such rows, though the script writes none).
MCEarlierRecords ==
  {<<>>,
   <<Row(7, "enough", TRUE, TRUE)>>,
   <<Row(9, "enough", TRUE, TRUE), Row(9, "enough", TRUE, FALSE)>>}
=============================================================================
