-------------------------------- MODULE Trading --------------------------------
(***************************************************************************)
(* engine/loop.py: the trading cycle with the limits of risk/manager.py,   *)
(* the settled-cash ledger of risk/settlement.py, the open rows of the     *)
(* trades table and an Alpaca cash account.                                *)
(*                                                                         *)
(* One engine process.  A cycle exits what is no longer permissible,       *)
(* applies the exit rules to the positions it watches through an open      *)
(* trade, then enters.  It makes one broker call or one transaction per    *)
(* step; orders execute, people stop the process and screens change        *)
(* between the steps.  The schedule runs one cycle per trading day, in or  *)
(* after the session; `run_engine.py --once` adds cycles.  A cycle is      *)
(* short: the session does not open or close during one.                   *)
(*                                                                         *)
(* Abstractions: every position costs and returns one unit of cash; a      *)
(* symbol is held or not, so adding to a position is not visible; a stop   *)
(* loss stands for both price triggers; proceeds settle T+1, the default.  *)
(* Pauses are in Engine, a lost answer of the broker in Orders.            *)
(***************************************************************************)
EXTENDS Integers, FiniteSets, Sequences, SequencesExt

CONSTANTS
    Symbols,
    MaxOpen,     \* risk.max_open_positions
    MaxPerDay,   \* risk.max_trades_per_day
    MinHold,     \* holding.min_holding_days
    MaxHold,     \* holding.typical_max_holding_days
    Buffer,      \* the cash buffer, in units
    Capital,     \* settled cash at the start, in units
    Signal,      \* the market's phase at engine.signal_time: "open" or "closed"
    MaxExtra,    \* bound of the model: cycles started by hand
    MaxFaults,   \* bound of the model: crashes, failed steps and missed cycles
    MaxRows      \* bound of the model: open trade rows of one symbol

ASSUME TradingAssumption ==
    /\ IsFiniteSet(Symbols)
    /\ MaxOpen \in Nat /\ MaxPerDay \in Nat
    /\ Buffer \in Nat /\ Capital \in Nat
    /\ MaxExtra \in Nat /\ MaxFaults \in Nat /\ MaxRows \in Nat
    /\ MinHold \in Nat
    /\ MaxHold \in Nat
    /\ MinHold <= MaxHold
    /\ Signal \in {"open", "closed"}

VARIABLES
    market,     \* the exchange is "open" or "closed"
    ran,        \* the scheduled cycle of this trading day has started
    held,       \* positions in the account
    working,    \* orders at the broker: <<"buy" | "sell" | "leg", symbol>>
    settled,    \* cash that may fund a purchase
    unsettled,  \* proceeds of this day's sales
    booked,     \* settlement_entries that are not due yet
    trades,     \* age in trading days of each open trade row, oldest row first
    age,        \* age of the order that last bought each symbol, up to MinHold
    today,      \* trade rows entered today
    used,       \* idempotency keys recorded today, without their day
    banned,     \* symbols screened NON_COMPLIANT
    pc,         \* step of the cycle
    todo,       \* symbols the step has still to look at
    work,       \* symbol whose order was accepted and is not booked yet
    seen,       \* positions and cash read at the start of the entries
    extra,      \* cycles started by hand so far
    faults      \* faults so far

account == <<held, working, settled, unsettled>>
records == <<booked, trades, age, today, used>>
outside == <<market, ran, banned, extra, faults>>
cycle   == <<pc, todo, work, seen>>
vars    == <<account, records, outside, cycle>>

Kinds == {"buy", "sell", "leg"}
\* Intents of an order: entry, forced exit, price rule, maximum holding period.
\* "refused" is the entry's key too, after the broker said no.
Intents == {"open", "refused", "compliance", "stop", "max"}

Init ==
    /\ market = "closed" /\ ran = FALSE
    /\ held = {} /\ working = {} /\ settled = Capital /\ unsettled = 0
    /\ booked = 0 /\ today = 0 /\ used = {}
    /\ trades = [s \in Symbols |-> <<>>]
    /\ age = [s \in Symbols |-> 0]
    /\ banned = {}
    /\ pc = "idle" /\ todo = {} /\ work \in Symbols
    /\ seen = [positions |-> {}, cash |-> 0]
    /\ extra = 0 /\ faults = 0

-----------------------------------------------------------------------------
Capped(n, top) == IF n < top THEN n ELSE top

\* SettlementLedger.snapshot(cash).available: Alpaca reports no split, so what
\* the ledger knows to be pending is taken off; reserved is never passed.
Available(cash) == IF cash > booked THEN cash - booked ELSE 0

\* The dictionary of _manage_exits, symbol to trade: the last row wins.
Watched(s) == trades[s] # <<>>

\* Definitions named ...Mutant are plausible bugs in the code the next
\* definition models; no specification uses them.

\* The first row wins.
HeldForMutant(s) == Head(trades[s])
HeldFor(s) == Last(trades[s])

\* The broker takes a sell unless another order holds the shares.
Sellable(s) == s \in held /\ {<<"sell", s>>, <<"leg", s>>} \cap working = {}

\* cancel_stale_orders: what is past the timeout and lets itself be cancelled.
Begin ==
    /\ \E gone \in SUBSET working : working' = working \ gone
    /\ pc' = "comply"
    /\ todo' = held
    /\ UNCHANGED <<held, settled, unsettled, records, market, banned, work, seen, faults>>

\* The job runs at any time of the day.
ScheduledMutant ==
    /\ pc = "idle" /\ ~ran
    /\ ran' = TRUE
    /\ Begin
    /\ UNCHANGED extra

\* The trading_cycle job of the scheduler.
Scheduled ==
    /\ pc = "idle" /\ market = Signal /\ ~ran
    /\ ran' = TRUE
    /\ Begin
    /\ UNCHANGED extra

\* run_engine.py --once, in the session or after the day's scheduled cycle.
\* (Between the close and the signal nothing it placed could be stale yet.)
ByHand ==
    /\ pc = "idle" /\ extra < MaxExtra
    /\ market = "open" \/ ran
    /\ extra' = extra + 1
    /\ Begin
    /\ UNCHANGED ran

-----------------------------------------------------------------------------
\* Only positions with an open trade are looked at, as for the exit rules.
ForcedMutant(s) ==
    s \in todo \cap banned \cap held /\ <<"compliance", s>> \notin used /\ Watched(s)

Forced(s) == s \in todo \cap banned \cap held /\ <<"compliance", s>> \notin used

\* _compliance_exits, one symbol: the order, and nothing in the trades table or
\* the ledger.
ForcedExit(s) ==
    /\ pc = "comply"
    /\ Forced(s)
    /\ used' = used \cup {<<"compliance", s>>}
    /\ working' = IF Sellable(s) THEN working \cup {<<"sell", s>>} ELSE working
    /\ todo' = todo \ {s}
    /\ UNCHANGED <<held, settled, unsettled, booked, trades, age, today, outside, pc, work, seen>>

NoForcedExit(s) ==
    /\ pc = "comply"
    /\ s \in todo /\ ~Forced(s)
    /\ todo' = todo \ {s}
    /\ UNCHANGED <<account, records, outside, pc, work, seen>>

EndComply ==
    /\ pc = "comply" /\ todo = {}
    /\ pc' = "exits"
    /\ todo' = held
    /\ UNCHANGED <<account, records, outside, work, seen>>

\* _manage_exits, one symbol, up to the broker's answer; close_position asks
\* the broker for the position again.
RuleExit(s, rule) ==
    /\ pc = "exits"
    /\ s \in todo \cap held
    /\ Watched(s) /\ HeldFor(s) >= MinHold
    /\ rule = "max" => HeldFor(s) >= MaxHold
    /\ <<rule, s>> \notin used
    /\ used' = used \cup {<<rule, s>>}
    /\ todo' = todo \ {s}
    /\ IF Sellable(s)
       THEN working' = working \cup {<<"sell", s>>} /\ pc' = "sold" /\ work' = s
       ELSE UNCHANGED <<working, pc, work>>
    /\ UNCHANGED <<held, settled, unsettled, booked, trades, age, today, outside, seen>>

\* No rule fires, it is blocked by the minimum holding period, its order was
\* placed before, or nobody watches the position.
NoRuleExit(s) ==
    /\ pc = "exits"
    /\ s \in todo
    /\ (s \in held /\ Watched(s) /\ HeldFor(s) >= MaxHold) => {<<"stop", s>>, <<"max", s>>} \cap used # {}
    /\ todo' = todo \ {s}
    /\ UNCHANGED <<account, records, outside, pc, work, seen>>

\* _close_trade, on the broker's acceptance: the row first ...
CloseTrade ==
    /\ pc = "sold"
    /\ trades' = [trades EXCEPT ![work] = Front(@)]
    /\ pc' = "book"
    /\ UNCHANGED <<account, booked, age, today, used, outside, todo, work, seen>>

\* The proceeds are booked with the wrong sign.
BookSaleMutant ==
    /\ pc = "book"
    /\ booked' = booked - 1
    /\ pc' = "exits"
    /\ UNCHANGED <<account, trades, age, today, used, outside, todo, work, seen>>

\* ... and the ledger in a transaction of its own.
BookSale ==
    /\ pc = "book"
    /\ booked' = booked + 1
    /\ pc' = "exits"
    /\ UNCHANGED <<account, trades, age, today, used, outside, todo, work, seen>>

\* can_open_new, and the symbols research calls tradable at this moment.
Candidates == IF Cardinality(held) < MaxOpen THEN Symbols \ banned ELSE {}

\* _consider_entries reads the account, the positions and the verdicts once.
EndExits ==
    /\ pc = "exits" /\ todo = {}
    /\ pc' = "entries"
    /\ seen' = [positions |-> held, cash |-> settled + unsettled]
    /\ todo' = Candidates
    /\ UNCHANGED <<account, records, outside, work>>

-----------------------------------------------------------------------------
\* The daily limit is checked against the positions instead of the trades.
PermittedMutant(s) ==
    /\ s \notin seen.positions
    /\ Cardinality(seen.positions) < MaxOpen
    /\ Available(seen.cash) > Buffer

\* RiskManager.evaluate, with the positions and the cash read before the first
\* entry of the cycle and the trade counts of now.
Permitted(s) ==
    /\ s \notin seen.positions
    /\ Cardinality(seen.positions) < MaxOpen
    /\ today < MaxPerDay
    /\ Available(seen.cash) > Buffer

\* _place up to the order's record: the gates of open_position look at the
\* cash of now.
Placed(s) ==
    /\ pc = "entries"
    /\ s \in todo
    /\ Permitted(s)
    /\ Available(settled + unsettled) >= 1
    /\ {<<"open", s>>, <<"refused", s>>} \cap used = {}
    /\ Len(trades[s]) < MaxRows

\* The broker takes the order: its working purchases are covered by its cash,
\* settled or not.
Enter(s) ==
    /\ Placed(s)
    /\ Cardinality({o \in working : o[1] = "buy"}) < settled + unsettled
    /\ used' = used \cup {<<"open", s>>}
    /\ working' = working \cup {<<"buy", s>>}
    /\ age' = [age EXCEPT ![s] = 0]
    /\ todo' = todo \ {s}
    /\ pc' = "opened"
    /\ work' = s
    /\ UNCHANGED <<held, settled, unsettled, booked, trades, today, outside, seen>>

EntryRefused(s) ==
    /\ Placed(s)
    /\ used' = used \cup {<<"refused", s>>}
    /\ todo' = todo \ {s}
    /\ UNCHANGED <<account, booked, trades, age, today, outside, pc, work, seen>>

\* No candidate, an approval is asked instead, or one of the other limits
\* (trades per week, sector, size) or gates refuses.
NoEntry(s) ==
    /\ pc = "entries"
    /\ s \in todo
    /\ todo' = todo \ {s}
    /\ UNCHANGED <<account, records, outside, pc, work, seen>>

\* The row is written for an order that is filled already.
OpenTradeMutant ==
    /\ pc = "opened"
    /\ trades' = IF work \in held THEN [trades EXCEPT ![work] = Append(@, 0)] ELSE trades
    /\ today' = today + 1
    /\ pc' = "entries"
    /\ UNCHANGED <<account, booked, age, used, outside, todo, work, seen>>

OpenTrade ==
    /\ pc = "opened"
    /\ trades' = [trades EXCEPT ![work] = Append(@, 0)]
    /\ today' = today + 1
    /\ pc' = "entries"
    /\ UNCHANGED <<account, booked, age, used, outside, todo, work, seen>>

EndCycle ==
    /\ pc = "entries" /\ todo = {}
    /\ pc' = "idle"
    /\ UNCHANGED <<account, records, outside, todo, work, seen>>

\* The process dies and is started again later.
Crash ==
    /\ pc # "idle" /\ faults < MaxFaults
    /\ pc' = "idle" /\ todo' = {}
    /\ faults' = faults + 1
    /\ UNCHANGED <<account, records, market, ran, banned, extra, work, seen>>

\* An exception ends a step of the cycle, which goes on with the next step.
StepFails ==
    /\ pc # "idle" /\ faults < MaxFaults
    /\ \/ pc = "comply" /\ pc' = "exits" /\ todo' = held
       \/ pc \in {"exits", "sold", "book"} /\ pc' = "entries" /\ todo' = Candidates
       \/ pc \in {"entries", "opened"} /\ pc' = "idle" /\ todo' = {}
    /\ seen' = [positions |-> held, cash |-> settled + unsettled]
    /\ faults' = faults + 1
    /\ UNCHANGED <<account, records, market, ran, banned, extra, work>>

\* No process is up at the signal time.
Missed ==
    /\ pc = "idle" /\ market = Signal /\ ~ran /\ faults < MaxFaults
    /\ ran' = TRUE
    /\ faults' = faults + 1
    /\ UNCHANGED <<account, records, market, banned, extra, cycle>>

-----------------------------------------------------------------------------
\* A new trading day, which is also a new date for keys, counts and the ledger.
\* Proceeds of the day before settle.
OpenMarket ==
    /\ market = "closed" /\ pc = "idle"
    /\ Signal = "closed" => ran
    /\ market' = "open"
    /\ ran' = FALSE
    /\ settled' = settled + unsettled /\ unsettled' = 0
    /\ booked' = 0 /\ used' = {} /\ today' = 0
    /\ trades' = [s \in Symbols |-> [i \in DOMAIN trades[s] |-> Capped(trades[s][i] + 1, MaxHold)]]
    /\ age' = [s \in Symbols |-> Capped(age[s] + 1, MinHold)]
    /\ UNCHANGED <<held, working, banned, extra, faults, cycle>>

\* Market orders have been executed; day orders and bracket legs expire.
CloseMarket ==
    /\ market = "open" /\ pc = "idle"
    /\ Signal = "open" => ran
    /\ \A s \in Symbols : <<"sell", s>> \notin working
    /\ market' = "closed"
    /\ working' = {}
    /\ UNCHANGED <<held, settled, unsettled, records, ran, banned, extra, faults, cycle>>

\* A whole-share entry brings its stop and target legs into the book.
FillBuy(s, whole) ==
    /\ market = "open"
    /\ <<"buy", s>> \in working
    /\ working' = (working \ {<<"buy", s>>}) \cup (IF whole THEN {<<"leg", s>>} ELSE {})
    /\ held' = held \cup {s}
    /\ IF settled > 0
       THEN settled' = settled - 1 /\ UNCHANGED unsettled
       ELSE unsettled' = unsettled - 1 /\ UNCHANGED settled
    /\ UNCHANGED <<records, outside, cycle>>

FillSell(kind, s) ==
    /\ market = "open"
    /\ <<kind, s>> \in working
    /\ working' = working \ {<<kind, s>>}
    /\ held' = held \ {s}
    /\ unsettled' = unsettled + 1
    /\ UNCHANGED <<settled, records, outside, cycle>>

\* The screening provider changes its verdict.
Screen(s) ==
    /\ banned' = IF s \in banned THEN banned \ {s} ELSE banned \cup {s}
    /\ UNCHANGED <<account, records, market, ran, extra, faults, cycle>>

Steps ==
    \/ Scheduled \/ EndComply \/ EndExits \/ EndCycle
    \/ \E s \in Symbols : ForcedExit(s) \/ NoForcedExit(s) \/ NoRuleExit(s) \/ NoEntry(s)
    \/ \E s \in Symbols, rule \in {"stop", "max"} : RuleExit(s, rule)
    \/ CloseTrade \/ BookSale \/ OpenTrade

Next ==
    \/ Steps
    \/ \E s \in Symbols : Enter(s) \/ EntryRefused(s) \/ Screen(s)
    \/ ByHand \/ Crash \/ StepFails \/ Missed
    \/ OpenMarket \/ CloseMarket
    \/ \E s \in Symbols : \E whole \in BOOLEAN : FillBuy(s, whole)
    \/ \E s \in Symbols, kind \in {"sell", "leg"} : FillSell(kind, s)

Spec == Init /\ [][Next]_vars

\* The job runs on every trading day and each step of a cycle ends; the
\* exchange opens, executes market orders and closes.
FairSpec ==
    /\ Spec
    /\ WF_vars(Steps) /\ WF_vars(OpenMarket) /\ WF_vars(CloseMarket)
    /\ WF_vars(\E s \in Symbols : FillSell("sell", s))

-----------------------------------------------------------------------------
\* The account, the records and the cycle hold the values they should.
TypeOK ==
    /\ market \in {"open", "closed"} /\ ran \in BOOLEAN
    /\ held \subseteq Symbols /\ working \subseteq Kinds \X Symbols
    /\ settled \in Nat /\ unsettled \in Nat
    /\ booked \in Nat /\ today \in Nat
    /\ used \subseteq Intents \X Symbols
    /\ trades \in [Symbols -> Seq(0 .. MaxHold)]
    /\ age \in [Symbols -> 0 .. MinHold]
    /\ banned \subseteq Symbols
    /\ pc \in {"idle", "comply", "exits", "sold", "book", "entries", "opened"}
    /\ todo \subseteq Symbols /\ work \in Symbols
    /\ seen \in [positions : SUBSET Symbols, cash : Nat]
    /\ extra \in 0 .. MaxExtra /\ faults \in 0 .. MaxFaults

\* The limit on trades per day is counted on trade rows, which are written
\* after the broker took the order.  Through extra cycles, cancelled orders and
\* restarts no more entries reach the broker in a day than the limit, and one
\* for each row a fault has lost.
EntriesPerDay ==
    Cardinality({k \in used : k[1] = "open"}) <= MaxPerDay + faults

\* "min_holding_days: trading days; enforced, never bypassed": rows of entries
\* that never filled stay open and older than the next purchase of the symbol,
\* and yet no exit rule sells a symbol bought less than MinHold days ago, as
\* long as no row was lost to a fault.
MinimumHold ==
    [][pc = "exits" /\ pc' = "sold" /\ faults = 0 => age[work'] >= MinHold]_vars

\* A trade is closed when its sell is accepted, and opened after its purchase is:
\* no exit "leaves a position the engine believes is closed"
\* (order_manager.py:252).  As long as cycles start on schedule and none fails,
\* every position, whatever legs, expired orders and older rows there are, is
\* watched by the exit rules or on its way out.
PositionsAreWatched ==
    extra = 0 /\ faults = 0 =>
        \A s \in held :
            \/ Watched(s)
            \/ <<"sell", s>> \in working
            \/ pc = "opened" /\ work = s

\* "Only settled cash may fund a purchase": the broker lets unsettled proceeds
\* through, and compliance exits and bracket legs never reach the ledger, yet
\* with the signal after the close no purchase is paid with proceeds of the same
\* day, whatever sells during the day, unless a cycle was started by hand.
OnlySettledCashIsSpent ==
    [][Signal = "closed" /\ extra = 0 /\ unsettled' < unsettled => market # market']_vars

\* "A holding that turned non-compliant must leave regardless of profit or
\* strategy": refused, cancelled or interrupted exits are tried again.
NonCompliantLeaves ==
    \A s \in Symbols : (s \in held \cap banned) ~> (s \notin held \cap banned)
=============================================================================
