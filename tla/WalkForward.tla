----------------------------- MODULE WalkForward -----------------------------
(***************************************************************************)
(* backtest/engine.py, WalkForwardBacktester.run: a strategy traded over   *)
(* consecutive out-of-sample windows of recorded bars.  One action is one  *)
(* step of the loop: fitting the strategy for a window, one session of the *)
(* window, the window's last session with its closing-out, or a strategy   *)
(* that raises and loses its window.                                       *)
(*                                                                         *)
(* What a strategy decides is a choice of an ordered set of symbols; what  *)
(* it does to the money is modelled to the cent.  Dates are those of       *)
(* Calendar, frames those of MarketData, prices Price[series][symbol][day].*)
(***************************************************************************)
EXTENDS MarketData, Costs, Integers, FiniteSetsExt, SequencesExt

CONSTANTS
  Start, End,                    \* the period asked for, in days
  TrainDays, TestDays, GapDays,  \* train_months, test_months, gap_days
  MinHold,                       \* holding.min_holding_days
  InitialCapital, BufferPct,     \* capital.allocation_usd, cash_buffer_pct
  MaxWeightPct,                  \* a strategy's max_total_weight, in percent
  Stopped,                       \* symbols whose signals carry stop and target
  StopPct, TargetPct,            \* their distance from the fill, in percent
  Price                          \* bars: open, high, low, close in cents

VARIABLES
  bars,       \* usable: symbol -> frame, the non-empty ones only
  stage,      \* "idle", "fit", "session", "done"
  window,     \* index of the current window
  session,    \* the day of the current session in it, 0 before the first
  book,       \* the window's capital, positions and trades
  total       \* what the finished windows left: capital, trades, marked days
              \* and, for the invariants, the money that vanished

\* The schema's ranges; bars are positive (clean_ohlcv drops the others).
ASSUME WalkForwardAssumption ==
  /\ Start \in Nat /\ End \in Nat
  /\ TrainDays \in Nat /\ TestDays \in Nat /\ GapDays \in Nat
  /\ MinHold \in Nat /\ InitialCapital \in Nat
  /\ BufferPct \in 0 .. 100 /\ MaxWeightPct \in Nat
  /\ StopPct \in 0 .. 100 /\ TargetPct \in Nat
  /\ \A series \in Series, s \in Symbols, d \in Sessions :
       LET bar == Price[series][s][d]
       IN {bar.open, bar.high, bar.low, bar.close} \subseteq Nat \ {0}

wfVars == <<bars, stage, window, session, book, total>>

-----------------------------------------------------------------------------
(* make_windows *)

Windows ==
  LET firstTest(k) == Start + k * TestDays + TrainDays + GapDays
      count == Cardinality({k \in 0 .. End : firstTest(k) < End})
  IN [i \in 1 .. count |->
        [trainEnd |-> firstTest(i - 1) - GapDays,
         testStart |-> firstTest(i - 1),
         testEnd |-> IF firstTest(i) < End THEN firstTest(i) ELSE End]]

\* The sessions of a window; the day two windows share is in both.
SessionsOf(w) ==
  {d \in Sessions : Windows[w].testStart <= d /\ d <= Windows[w].testEnd}
LaterSessions == {d \in SessionsOf(window) : d > session}
IsLastSession == LaterSessions = {}
NextSession == Earliest(LaterSessions)

(* _row_on, _open_on, _prices_on *)
HasRow(s, day) == day \in Days(bars[s])
BarOf(s, day) == Price[bars[s][day]][s][day]
HasPrices(day) == \E s \in DOMAIN bars : HasRow(s, day)

-----------------------------------------------------------------------------
(* positions and trades *)

NoPositions == [s \in {} |-> 0]
Held(b) == DOMAIN b.positions
FreshBook(capital) == [capital |-> capital, positions |-> NoPositions, trades |-> {}]

\* BUG: the hold is counted from the decision, not from the fill.
MinHoldSatisfiedMutant(p, day) == TradingDaysBetween(p.decided, day) >= MinHold

MinHoldSatisfied(p, day) == TradingDaysBetween(p.entry, day) >= MinHold

\* _close: the proceeds, and the trade with its net result.
Proceeds(p, price) ==
  LET fill == FillPrice(price, "sell")
  IN fill * p.quantity - Cost(fill, p.quantity, "sell")
\* BUG: the cost of the entry is not charged to the trade.
TradeOfMutant(s, p, price, day, reason) ==
  LET fill == FillPrice(price, "sell")
  IN [symbol |-> s, decided |-> p.decided, entry |-> p.entry, exit |-> day,
      net |-> (fill - p.price) * p.quantity - Cost(fill, p.quantity, "sell"),
      reason |-> reason]

TradeOf(s, p, price, day, reason) ==
  LET fill == FillPrice(price, "sell")
  IN [symbol |-> s, decided |-> p.decided, entry |-> p.entry, exit |-> day,
      net |-> (fill - p.price) * p.quantity
                - (Cost(fill, p.quantity, "sell") + p.cost),
      reason |-> reason]

\* Closes the positions in the domain of `exits`, which gives each its price
\* and reason.  Proceeds are credited at once.
CloseAll(b, exits, day) ==
  LET closed == DOMAIN exits
  IN [capital |-> b.capital
        + SumFunction([s \in closed |-> Proceeds(b.positions[s], exits[s].price)]),
      positions |-> [s \in Held(b) \ closed |-> b.positions[s]],
      trades |-> b.trades \cup
        {TradeOf(s, b.positions[s], exits[s].price, day, exits[s].reason) : s \in closed}]

\* _check_exit: when one bar touched both, the stop is taken to come first.
StopTouched(p, bar) == p.stop # 0 /\ bar.low <= p.stop
TargetTouched(p, bar) == p.target # 0 /\ bar.high >= p.target
Touched(b, day) ==
  {s \in Held(b) : /\ HasRow(s, day)
                   /\ \/ StopTouched(b.positions[s], BarOf(s, day))
                      \/ TargetTouched(b.positions[s], BarOf(s, day))
                   /\ MinHoldSatisfied(b.positions[s], day)}
AfterStops(b, day) ==
  CloseAll(b, [s \in Touched(b, day) |->
                 IF StopTouched(b.positions[s], BarOf(s, day))
                 THEN [price |-> b.positions[s].stop, reason |-> "stop_loss"]
                 ELSE [price |-> b.positions[s].target, reason |-> "take_profit"]],
           day)

\* What is no longer wanted leaves at the next open, if it was held long enough.
AfterSignals(b, targets, next) ==
  CloseAll(b, [s \in {t \in Held(b) : /\ t \notin Range(targets)
                                      /\ MinHoldSatisfied(b.positions[t], next)
                                      /\ HasRow(t, next)} |->
                 [price |-> BarOf(s, next).open, reason |-> "signal"]],
           next)

\* _size: whole shares, honouring the cash buffer.
Size(capital, weightPct, price) ==
  LET spendable == (capital * (100 - BufferPct)) \div 100
      wanted == (InitialCapital * weightPct) \div 100
  IN (IF spendable <= wanted THEN spendable ELSE wanted) \div price

StopPrice(fill) == (fill * (100 - StopPct)) \div 100
TargetPrice(fill) == (fill * (100 + TargetPct)) \div 100

\* At no price at which something may be sold do the costs exceed what one
\* share brings.  The code does not check it; default costs are a few cents.
PaysForItself(price) ==
  LET fill == FillPrice(price, "sell")
  IN 10000 * (CommissionMin + CommissionPerShare + TafPerShare)
       + fill * (SpreadBps + SlippageBps + SecFeeBps) <= 10000 * fill
ASSUME SalesPay ==
  \A series \in Series, s \in Symbols, d \in Sessions :
    LET bar == Price[series][s][d]
        bought == FillPrice(bar.open, "buy")
    IN /\ PaysForItself(bar.open) /\ PaysForItself(bar.close)
       /\ s \in Stopped => /\ PaysForItself(StopPrice(bought))
                           /\ PaysForItself(TargetPrice(bought))

\* One entry at the next open; what cannot be sized or paid for is counted and
\* dropped.
Enter(b, s, weightPct, decided, next) ==
  IF s \in Held(b) \/ ~HasRow(s, next) THEN b
  ELSE LET quantity == Size(b.capital, weightPct, BarOf(s, next).open)
           fill == FillPrice(BarOf(s, next).open, "buy")
           cost == Cost(fill, quantity, "buy")
           outlay == fill * quantity + cost
       IN IF quantity <= 0 \/ outlay > b.capital THEN b
          ELSE [b EXCEPT !.capital = @ - outlay,
                         !.positions = [t \in Held(b) \cup {s} |-> IF t # s THEN @[t]
                           ELSE [quantity |-> quantity, price |-> fill, entry |-> next,
                                 cost |-> cost, decided |-> decided,
                                 stop |-> IF s \in Stopped THEN StopPrice(fill) ELSE 0,
                                 target |-> IF s \in Stopped THEN TargetPrice(fill) ELSE 0]]]

AfterEntries(b, targets, decided, next) ==
  LET after[i \in 0 .. Len(targets)] ==
        IF i = 0 THEN b
        ELSE Enter(after[i - 1], targets[i], MaxWeightPct \div Len(targets), decided, next)
  IN after[Len(targets)]

\* The closing-out of a window.  A position with no bar on the final day is
\* dropped from the simulation together with its value.
CloseOut(b, day) ==
  CloseAll(b, [s \in {t \in Held(b) : HasRow(t, day)} |->
                 [price |-> BarOf(s, day).close, reason |-> "window_end"]], day)

PaidFor(positions) ==
  SumFunction([s \in DOMAIN positions |->
                 positions[s].price * positions[s].quantity + positions[s].cost])

-----------------------------------------------------------------------------
WFInit ==
  /\ bars = NoPositions
  /\ stage = "idle"
  /\ window = 0
  /\ session = 0
  /\ book = FreshBook(0)
  /\ total = [capital |-> 0, trades |-> {}, marked |-> {}, vanished |-> 0]

\* run: nothing to test without bars or without a window; otherwise the first
\* window is fitted.
BeginRun(usable) ==
  /\ stage = "idle"
  /\ {Start, End} \subseteq Covered
  /\ bars' = usable
  /\ stage' = IF DOMAIN usable = {} \/ Windows = <<>> THEN "done" ELSE "fit"
  /\ window' = 1
  /\ session' = 0
  /\ book' = FreshBook(0)
  /\ total' = [capital |-> InitialCapital, trades |-> {}, marked |-> {}, vanished |-> 0]

NextWindow ==
  /\ stage' = IF window < Len(Windows) THEN "fit" ELSE "done"
  /\ window' = window + 1
  /\ session' = 0
  /\ book' = FreshBook(0)

\* A strategy that cannot be fitted loses the window; the capital carries over.
FitFails ==
  /\ stage = "fit"
  /\ NextWindow
  /\ UNCHANGED <<bars, total>>

Fit ==
  /\ stage = "fit"
  /\ stage' = "session"
  /\ session' = IF SessionsOf(window) = {} THEN 0 ELSE Earliest(SessionsOf(window))
  /\ book' = FreshBook(total.capital)
  /\ UNCHANGED <<bars, window, total>>

\* A session that is not the window's last, with some price: mark to market,
\* stops and targets on the day's bar, then what the strategy decides on this
\* day is executed at the next session's open.
TradeSession(targets) ==
  /\ stage = "session" /\ ~IsLastSession /\ HasPrices(session)
  /\ LET stopped == AfterStops(book, session)
         exited == AfterSignals(stopped, targets, NextSession)
     IN book' = AfterEntries(exited, targets, session, NextSession)
  /\ session' = NextSession
  /\ UNCHANGED <<bars, stage, window, total>>

\* No symbol has a bar: the session is skipped altogether.
SkipSession ==
  /\ stage = "session" /\ ~IsLastSession /\ ~HasPrices(session)
  /\ session' = NextSession
  /\ UNCHANGED <<bars, stage, window, book, total>>

\* The strategy raises: nothing of this window is kept.
FailWindow ==
  /\ stage = "session" /\ ~IsLastSession /\ HasPrices(session)
  /\ NextWindow
  /\ UNCHANGED <<bars, total>>

\* The last session decides nothing; the window is closed out and merged.
Merged(b, days) ==
  [capital |-> b.capital, trades |-> total.trades \cup b.trades,
   marked |-> total.marked \cup days, vanished |-> total.vanished + PaidFor(b.positions)]

FinishWindow ==
  /\ stage = "session" /\ IsLastSession
  /\ LET days == SessionsOf(window)
         stopped == IF days # {} /\ HasPrices(session) THEN AfterStops(book, session) ELSE book
         closed == IF days # {} THEN CloseOut(stopped, session) ELSE book
     IN total' = Merged(closed, {d \in days : HasPrices(d)})
  /\ NextWindow
  /\ UNCHANGED bars

Decisions == SetToAllKPermutations(DOMAIN bars)

WFStep ==
  \/ Fit
  \/ FitFails
  \/ \E targets \in Decisions : TradeSession(targets)
  \/ SkipSession
  \/ FailWindow
  \/ FinishWindow

\* The script's process ends and its memory goes with it.
EndRun ==
  /\ stage = "done"
  /\ bars' = NoPositions
  /\ stage' = "idle"
  /\ window' = 0
  /\ session' = 0
  /\ book' = FreshBook(0)
  /\ total' = [capital |-> 0, trades |-> {}, marked |-> {}, vanished |-> 0]
=============================================================================
