------------------------------- MODULE Paper --------------------------------
(***************************************************************************)
(* From evidence to paper trading.  scripts/run_backtest.py fetches bars,  *)
(* trades them walk-forward and stores what it measured; the engine, when  *)
(* it is started, loads the newest measurement, and its cycles act on it   *)
(* against the mock broker and record the day's equity.  The two processes *)
(* share the bar cache and the database; everything else is in the memory  *)
(* of one process and is lost when it ends.                                *)
(*                                                                         *)
(* The script's simulation is run while no engine is up: nothing of it can *)
(* be seen before its row is stored, which may happen at any later time.   *)
(***************************************************************************)
EXTENDS WalkForward, TrackRecords, EquityCurve

CONSTANTS
  StartingCash, SettlementDays, BuyFill, SellFill,   \* the mock broker
  LastPrice,              \* get_last_price: DEFAULT_PRICE
  RiskBudget, StopDistance, MaxNotional, MinNotional, CashBuffer,  \* sizing
  ExitAfter,              \* trading days until _manage_exits sells (max_hold)
  MeaningfulTrades,       \* TrackRecord.is_meaningful: 30
  FirstDay, LastDay,      \* the days of the run (bound)
  MaxFetches, MaxStarts,  \* fetches by other tools, starts of the engine (bounds)
  Ranges,                 \* the windows those tools ask for
  EarlierRecords          \* the histories the store may already hold

\* The calendar reaches past the last day, so that every sale has a settlement
\* date: outside its window the code raises.
ASSUME PaperAssumption ==
  /\ FirstDay \in Covered /\ LastDay \in Covered /\ FirstDay <= LastDay
  /\ \E d \in Sessions : d >= LastDay /\ Cardinality(After(d)) >= SettlementDays
  /\ SettlementDays \in Nat /\ StartingCash \in Nat
  /\ BuyFill \in Nat /\ SellFill \in Nat /\ LastPrice \in Nat \ {0}
  /\ RiskBudget \in Nat /\ StopDistance \in Nat \ {0}
  /\ MaxNotional \in Nat /\ CashBuffer \in Nat
  /\ EarlierRecords \subseteq Seq(TrackRecord)

VARIABLES
  today,
  cache,      \* the cache directory: symbol -> frame
  fetches,
  script,     \* the backtest script's process
  settled, pending, positions,   \* the mock broker's memory
  placed,     \* today's idempotency keys in the database
  ledger,     \* the settlement ledger in the database
  engine      \* the engine's process

Broker == INSTANCE MockBroker

scriptVars == <<cache, fetches, script>>
brokerVars == <<settled, pending, positions>>
storeVars == <<rows, curve, placed, ledger>>
vars == <<wfVars, scriptVars, brokerVars, storeVars, today, engine>>

NoResult == [trades |-> "none", winning |-> FALSE, measurable |-> FALSE]
IdleScript == [pc |-> "idle", synthetic |-> FALSE, invented |-> FALSE,
               result |-> NoResult]
EngineDown == [pc |-> "down", mode |-> "paper", record |-> NoRecord,
               known |-> 0, startedOn |-> 0, cash |-> 0, starts |-> 0]

Init ==
  /\ WFInit
  /\ today = FirstDay
  /\ cache = [s \in Symbols |-> NoFrame]
  /\ fetches = 0
  /\ script = IdleScript
  /\ rows \in EarlierRecords
  /\ curve = EmptyCurve
  /\ placed = {} /\ ledger = {}
  /\ settled = StartingCash /\ pending = {} /\ positions = Broker!NoPosition
  /\ engine = EngineDown

-----------------------------------------------------------------------------
(* The bars *)

FreshChoices(frame) ==
  IF ~IsEmpty(frame) /\ Latest(Days(frame)) = today THEN BOOLEAN ELSE {FALSE}

\* Another tool (a health check, the dashboard) asks for a symbol's bars.
FetchBars(s, range, outcome) ==
  /\ fetches < MaxFetches /\ script = IdleScript
  /\ today = FirstDay /\ engine.starts = 0
  /\ \E fresh \in FreshChoices(cache[s]) :
       cache' = [cache EXCEPT ![s] =
         GetBars(@, s, range[1], range[2], 0, TRUE, outcome, fresh, today).cache]
  /\ fetches' = fetches + 1
  /\ UNCHANGED <<wfVars, script, brokerVars, storeVars, today, engine>>

\* main: get_many, one symbol's failure leaving the others; without any bars
\* the script gives up.
RunScript(outcomes) ==
  /\ script = IdleScript /\ today = FirstDay /\ engine.starts = 0
  /\ LET result == [s \in Symbols |-> GetBars(cache[s], s, Start, End, 0, TRUE,
                                              outcomes[s], FALSE, today)]
         usable == {s \in Symbols : ~IsEmpty(result[s].window)}
     IN /\ cache' = [s \in Symbols |-> result[s].cache]
        /\ usable # {}
        /\ BeginRun([s \in usable |-> result[s].window])
        /\ script' = [script EXCEPT
             !.pc = "running",
             !.synthetic = \E s \in Symbols : /\ ~result[s].error
                                              /\ result[s].source = "synthetic",
             !.invented = \E s \in usable : "synthetic" \in Range(result[s].window)]
  /\ fetches' = MaxFetches
  /\ UNCHANGED <<brokerVars, storeVars, today, engine>>

Simulate ==
  /\ script.pc = "running"
  /\ WFStep
  /\ UNCHANGED <<scriptVars, brokerVars, storeVars, today, engine>>

\* evaluate: nothing is measurable without two marked days.
Wins(trades) == Cardinality({t \in trades : t.net > 0})
Measured ==
  [trades |-> IF total.trades = {} THEN "none"
              ELSE IF Cardinality(total.trades) < MeaningfulTrades THEN "few"
              ELSE "enough",
   winning |-> 2 * Wins(total.trades) > Cardinality(total.trades),
   measurable |-> Cardinality(total.marked) >= 2]

\* Bound of the model: nothing reads the bars after this script, so the cache
\* is forgotten with it.
FinishSimulation ==
  /\ script.pc = "running"
  /\ EndRun
  /\ script' = [IdleScript EXCEPT !.pc = "measured", !.result = Measured]
  /\ cache' = [s \in Symbols |-> NoFrame]
  /\ UNCHANGED <<fetches, brokerVars, storeVars, today, engine>>

\* _persist_track_records, when --save-track-record was given.  Whatever the
\* bars were, the row says out-of-sample.
SaveTrackRecord ==
  /\ script.pc = "measured"
  /\ IF script.result.measurable
     THEN SaveRow(today, script.result.trades, script.result.winning, TRUE)
     ELSE UNCHANGED rows
  /\ script' = [script EXCEPT !.pc = "over", !.result = NoResult]
  /\ UNCHANGED <<wfVars, cache, fetches, brokerVars, curve, placed, ledger,
                 today, engine>>

DiscardResult ==
  /\ script.pc = "measured"
  /\ script' = [script EXCEPT !.pc = "over", !.result = NoResult]
  /\ UNCHANGED <<wfVars, cache, fetches, brokerVars, storeVars, today, engine>>

-----------------------------------------------------------------------------
(* The engine *)

\* build_engine and start: a new mock broker with the allocated cash, and the
\* newest usable record.  A missing record blocks the start, which pauses the
\* state machine; the cycles are scheduled all the same.
StartEngine(mode) ==
  /\ engine.pc = "down" /\ engine.starts < MaxStarts
  /\ script.pc \in {"measured", "over"} \/ fetches = 0
  /\ engine' = [EngineDown EXCEPT
       !.pc = "up", !.mode = mode, !.record = Load(today), !.known = Len(rows),
       !.startedOn = today, !.starts = engine.starts + 1]
  /\ Broker!OpenAccount
  /\ UNCHANGED <<wfVars, scriptVars, storeVars, today>>

\* A cycle starts by releasing what the ledger has due.
BeginCycle ==
  /\ engine.pc = "up" /\ today \in Sessions
  /\ engine' = [engine EXCEPT !.pc = "exits"]
  /\ ledger' = {e \in ledger : e.settlesOn > today}
  /\ UNCHANGED <<wfVars, scriptVars, brokerVars, rows, curve, placed, today>>

\* An order of live mode is refused by the live guard; LiveGate has the reasons.
MayOrder == engine.mode = "paper"

\* _compliance_exits and _manage_exits sell a whole position, once a day for a
\* cause: at any age when it is no longer permitted, or when the maximum hold is
\* over.  (The mock's prices never move, so no stop or target is touched.)  Only
\* an ordinary exit closes the trade and enters its proceeds in the ledger, at
\* the mark and not at the fill; it happens once a day, so no two entries of
\* the table are equal.
ExitPosition(s, cause) ==
  /\ engine.pc = "exits" /\ MayOrder
  /\ s \in DOMAIN positions
  /\ cause = "max_hold" => TradingDaysBetween(positions[s].opened, today) >= ExitAfter
  /\ <<cause, s>> \notin placed
  /\ Broker!SellOrder(s, positions[s].quantity)
  /\ placed' = placed \cup {<<cause, s>>}
  /\ ledger' = IF cause = "compliance_exit" THEN ledger
               ELSE ledger \cup
                 {[symbol |-> s, amount |-> positions[s].quantity * positions[s].mark,
                   settlesOn |-> SettlementDate(today, SettlementDays)]}
  /\ UNCHANGED <<wfVars, scriptVars, rows, curve, today, engine>>

\* SettlementLedger.snapshot: what the broker calls settled, less what the
\* ledger still has pending.
Spendable ==
  LET unsettled == Broker!Total({e \in ledger : e.settlesOn > today})
  IN IF Broker!SettledNow > unsettled THEN Broker!SettledNow - unsettled ELSE 0

\* The exits are done; one reading of the account serves every entry.
ExitsDone ==
  /\ engine.pc = "exits"
  /\ Broker!ReadAccount
  /\ engine' = [engine EXCEPT !.pc = "entries", !.cash = Spendable]
  /\ UNCHANGED <<wfVars, scriptVars, storeVars, today>>

\* PositionSizer.size on deployable cash: the cycle's cash less the buffer.
OrderSize ==
  LET deployable == IF engine.cash > CashBuffer THEN engine.cash - CashBuffer ELSE 0
      quantity == Min({RiskBudget \div StopDistance, MaxNotional \div LastPrice,
                       deployable \div LastPrice})
  IN IF quantity * LastPrice < MinNotional THEN 0 ELSE quantity

\* _consider_one and _place for a candidate the forecast made actionable: sized
\* on the cycle's cash, checked against the cash of the moment at the last
\* price, and paid at the fill price, which the broker may still refuse.
EnterPosition(s, model) ==
  /\ engine.pc = "entries" /\ MayOrder
  /\ s \notin DOMAIN positions
  /\ Classify(TRUE, "compliant", TRUE, engine.record, TRUE, model) = "actionable"
  /\ OrderSize > 0
  /\ <<"buy", s>> \notin placed
  /\ OrderSize * LastPrice <= Spendable
  /\ Broker!BuyOrder(s, OrderSize)
  /\ placed' = placed \cup {<<"buy", s>>}
  /\ UNCHANGED <<wfVars, scriptVars, rows, curve, ledger, today, engine>>

\* The end of a cycle records the day's equity.
EndCycle ==
  /\ engine.pc = "entries"
  /\ Broker!ReadAccount
  /\ RecordSnapshot(today, engine.mode, Broker!Equity)
  /\ engine' = [engine EXCEPT !.pc = "up", !.cash = 0]
  /\ UNCHANGED <<wfVars, scriptVars, rows, placed, ledger, today>>

\* The process ends, in an orderly way or not, between any two steps; the mock
\* broker's money and shares go with it.
StopEngine ==
  /\ engine.pc # "down"
  /\ engine' = [EngineDown EXCEPT !.starts = engine.starts]
  /\ Broker!OpenAccount
  /\ UNCHANGED <<wfVars, scriptVars, storeVars, today>>

NextDay ==
  /\ today < LastDay /\ script.pc # "running" /\ engine.pc \in {"down", "up"}
  /\ today' = today + 1
  /\ placed' = {}
  /\ UNCHANGED <<wfVars, scriptVars, brokerVars, rows, curve, ledger, engine>>

-----------------------------------------------------------------------------
Next ==
  \/ \E s \in Symbols, range \in Ranges, outcome \in Outcomes : FetchBars(s, range, outcome)
  \/ \E outcomes \in [Symbols -> Outcomes] : RunScript(outcomes)
  \/ Simulate
  \/ FinishSimulation
  \/ SaveTrackRecord
  \/ DiscardResult
  \/ \E mode \in {"paper", "live"} : StartEngine(mode)
  \/ BeginCycle
  \/ \E s \in Symbols, cause \in {"compliance_exit", "max_hold"} : ExitPosition(s, cause)
  \/ ExitsDone
  \/ \E s \in Symbols, model \in ModelProbabilities : EnterPosition(s, model)
  \/ EndCycle
  \/ StopEngine
  \/ NextDay

Spec == Init /\ [][Next]_vars

-----------------------------------------------------------------------------
\* Money is conserved by the simulation: the capital, what was paid for the
\* positions still open and what vanished with a position that had no final bar
\* are the initial capital plus the net result of the trades kept, in the whole
\* run and inside a window, and no purchase overdraws the capital.
Net(trades) == SumFunction([t \in trades |-> t.net])
BooksBalance ==
  stage \in {"fit", "session", "done"} /\ DOMAIN bars # {} =>
    /\ total.capital + total.vanished = InitialCapital + Net(total.trades)
    /\ total.capital >= 0
    /\ stage = "session" =>
         /\ book.capital + PaidFor(book.positions) = total.capital + Net(book.trades)
         /\ book.capital >= 0

\* A simulated trade is decided on a bar earlier than the one it is filled on;
\* two trades of one symbol never overlap, although two windows share a day; and
\* only the closing-out of a window cuts the minimum hold short.
Overlap(t, u) == t.symbol = u.symbol /\ t.entry <= u.exit /\ u.entry <= t.exit
TradesAreHonest ==
  LET trades == total.trades \cup book.trades
  IN \A t \in trades :
       /\ t.decided < t.entry /\ t.entry <= t.exit
       /\ t.reason # "window_end" => TradingDaysBetween(t.entry, t.exit) >= MinHold
       /\ \A u \in trades : Overlap(t, u) => t = u

\* The engine buys only on the newest measurement there was when it started, and
\* only if that one was out-of-sample and had not expired: a newer record that
\* was refused is never masked by an older one.
ActsOnNewestEvidence ==
  [][\A s \in Symbols : Broker!HeldQuantity(s)' > Broker!HeldQuantity(s) =>
       /\ engine.known > 0
       /\ LET newest == rows[engine.known]
          IN /\ engine.record = newest
             /\ newest.outOfSample
             /\ engine.startedOn - newest.measured <= MaxAgeDays]_vars

\* The mock broker, which settles only when it is asked something, keeps the
\* cash account of CashAccount: the proceeds of every sale, also of two equal
\* ones on a day, are spendable from their settlement date on, once, and no
\* earlier, and a purchase is paid in full from what is settled.
KeepsTheCashAccount == Broker!Account!AccountSpec

\* A day's profit is measured from the newest earlier row of the same mode, also
\* when both modes wrote rows in between and a row was overwritten.
DayPnlIsOfOneMode ==
  \A d \in DOMAIN curve :
    LET same == {e \in DOMAIN curve : e < d /\ curve[e].mode = curve[d].mode}
    IN curve[d].dayPnl =
         IF same = {} THEN None ELSE curve[d].equity - curve[Latest(same)].equity

\* data/synthetic.py: "Anything that consumes them is tagged so a backtest run
\* on synthetic data can never be mistaken for a real one."
InventedBarsAreFlagged == script.invented => script.synthetic
=============================================================================
