# Investment Box in TLA+

`investment_box` is a trading assistant for a small cash account: once per trading day it screens, ranks, sizes and
places (or proposes) trades at Alpaca, asks a human over Telegram, and keeps its own records in SQLite. This directory
models the parts of it whose correctness depends on the *order* in which things happen, checks them with TLC on small
instances, and proves the main invariants with TLAPS for every value of the constants.

1. [The system](#1-the-system) — components, state, operations, interactions, what is hard
2. [The modules](#2-the-modules) — how state and actions correspond to the code
3. [The runs](#3-the-runs) — what each shows, with its bounds and why they are enough
4. [Where the code and its documents disagree](#4-where-the-code-and-its-documents-disagree), and what else was seen
5. [Fairness](#5-fairness)
6. [The proofs](#6-the-proofs)
7. [What is not modelled](#7-what-is-not-modelled)
8. [The plan](#8-the-plan)

Paths are relative to `src/src/investment_box/` unless they begin with `src/`, `tests/`, `scripts/` or `README.md` of the
repository. `PROJECT.json` lists components, runs, mutants, the source lines of every definition, findings, hazards and
theorems.

## 1. The system

One engine process (`scripts/run_engine.py`) holds an asyncio loop: APScheduler jobs (the trading cycle, the sweep of
expired approvals, reports), the Telegram bot's handlers and sweep loop, and the outbound queue's worker. None of the
services awaits inside a database transaction, so within one process nothing comes between the steps of a service call,
except where a broker or a transport is called; another process comes between two of its transactions.
Other processes share the SQLite file, the cache directory and the broker account: the Streamlit
dashboard (a thread per session), `run_engine.py --once` run by hand, and the scripts, of which `run_backtest.py` writes
the measurements the engine acts on. What crosses process boundaries does so through the database or the cache, never
through memory.

| Component | State it keeps | Operations | Talks to | What makes it correct | Module |
|---|---|---|---|---|---|
| approvals (`services/approvals.py`) | table `approvals`: status, deadline, count of snoozes | create, respond, request/apply/cancel modification, snooze, cancel, expire due | audit; called by the cycle, the bot, the sweeper | an answer after the deadline never authorises; snoozing is bounded; only a race of two askers leaves two answerable rounds of a question; decisions are final; every request is decided | `Approvals` |
| audit log (`services/audit.py`) | append-only rows | record | its own connection | every transition leaves a row | `Approvals` |
| order manager (`execution/order_manager.py`) | table `orders` by idempotency key | open, close, reconcile, cancel stale | broker, audit | at most one submission per key; row before call; rows end up saying what the broker says | `Orders` |
| broker adapters (`execution/alpaca_broker.py`, `mock_broker.py`) | none / an account in memory | submit, get, list, cancel, positions, account | Alpaca | a lost answer is not a second order; the mock keeps a cash account | `Orders`, `MockBroker` |
| trading cycle (`engine/loop.py`) | table `trades` | reconcile, settle, compliance exits, exit rules, entries, equity snapshot | all of the above | limits per cycle and day hold; forbidden holdings leave | `Trading`, `Desk`, `Paper` |
| risk manager (`risk/manager.py`) | its pause | state, evaluate, can_exit, pause, resume | ledger, trades, equity | limits hold when they are used, not only when they are read | `Trading`, `Desk`, `Engine` |
| settlement ledger (`risk/settlement.py`) | table `settlement_entries` | record_sale, settle_due, snapshot | cycle, risk | unsettled proceeds never fund a purchase | `Trading`, `Paper` |
| position sizing (`risk/sizing.py`) | — | size | risk manager | the least of the limits | `Paper` |
| portfolio (`services/portfolio.py`) | `equity_snapshots` | views, open trades, snapshot | broker | a day's profit compares like with like | `EquityCurve` |
| engine state, runner, kill switch (`engine/state.py`, `runner.py`, `kill_switch.py`) | state of a process, blockers | build, start, pause, resume, kill, run | broker, settings | a stop holds until it is lifted; a kill is final | `Engine` |
| scheduler (`engine/scheduler.py`) | jobs | guard, run | runner, approvals | one cycle per trading day; a failing job does not stop the others | `Trading` |
| Telegram queue (`telegram/queue.py`) | pending list, message in hand | enqueue, worker, stop, drain | transport | nothing is lost silently or sent twice; order; bounded memory | `MessageQueue` |
| notifier and bot (`telegram/approvals.py`, `bot.py`) | deliveries, parked replies (memory only) | request, callback, size reply, sweep | approvals, queue | a decided request's message loses its buttons; a parked request is decided | `Notifier` |
| Telegram controls (`telegram/controls.py`, `auth.py`) | pending confirmations (memory) | pause, resume, kill, confirm | engine, kill switch | a command runs once, for the newest question, in time | `Controls` |
| dashboard controls, settings (`ui/controls.py`, `services/settings_service.py`) | table `settings_overrides` | kill, clear, symbol rules, live activation | settings, kill switch | only a concurrent edit is ever lost | `Controls`, `Engine`, `LiveGate` |
| pre-live checks, live guard (`engine/preflight.py`, `live_guard.py`) | activation record | evaluate, attempt, assert per order | every service | an order is refused for a cause | `LiveGate` |
| Shariah screening (`shariah/status.py`, `providers/`) | append-only screens | screen, latest, newly non-compliant | cycle, universe | neither a stale verdict nor another provider's decides a purchase | `Desk` |
| universe (`universe/builder.py`) | — | build | repository, screening | every gate is passed, in order | `Desk` |
| market data (`data/`) | Parquet cache | get, merge, validate | providers | a cache never hides where a bar is from | `MarketData`, `Paper` |
| backtest (`backtest/`) | windows, positions, capital | run, costs | strategies | no look-ahead; money is conserved | `WalkForward`, `Costs` |
| strategies, forecasts (`strategies/base.py`, `forecast/`) | track records | fit, signals, load and save records, classify | research | the newest evidence is acted on | `TrackRecords`, `Paper` |
| clock and calendar (`core/clock.py`) | sessions | trading-day arithmetic, settlement date | everyone | — | `Calendar` |
| constraints, purification, zakat, features, configuration, database, container, logging, i18n, dashboard pages | — | — | — | — | section 7 |

**What is hard here.** Two processes over one database and one broker account; broker calls whose answer is lost; a crash
between the broker's acceptance and the row that records it; deadlines that race answers and sweepers; handlers that
resume after an await in a world that has moved on; orders that are accepted after the close and execute the next
morning; three separate notions of "paused" (the engine's state, the risk manager's flag and the kill flag in the
database); one snapshot of positions and of cash that serves a whole cycle; verdicts, bars and measurements that are
cached and outlive what they were made from; and state in memory (messages' whereabouts, confirmations, the mock
broker's whole account) that a restart drops while the tables survive. The hazards are listed one by one, at the line
where each bites, in `PROJECT.json`.

## 2. The modules

| Module | Models | Kind |
|---|---|---|
| `ApprovalPromise` | what the approval service promises its readers | abstract specification |
| `QueuePromise` | what the outbound queue promises to those who hand it messages | abstract specification |
| `OrderPromise` | what the order manager promises its readers | abstract specification |
| `Approvals` | `services/approvals.py` with the audit insert behind each commit | implements `ApprovalPromise` |
| `Orders` | `execution/order_manager.py` over `alpaca_broker.py`, several processes | component + composition with the broker; implements `OrderPromise` |
| `MessageQueue` | `telegram/queue.py` | component; implements `QueuePromise` |
| `Engine` | `engine/state.py`, `runner.py`, `kill_switch.py`, the controls of Telegram and the dashboard, the kill flag | composition of processes over shared settings |
| `Trading` | `engine/loop.py` with `risk/manager.py`, `risk/settlement.py`, the `trades` table and an Alpaca cash account | composition over one account |
| `Notifier` | `telegram/approvals.py`, `telegram/bot.py`, `AuthGuard`, over a reduced `approvals` table and chat | component with its coroutines |
| `Controls` | `telegram/controls.py`, `ui/controls.py`, the symbol rules of `services/settings_service.py` | component |
| `Desk`, `MCDesk` | `universe/builder.py`, `shariah/`, `forecast/candidates.py`, the limits of `risk/manager.py` and the routing of `engine/loop.py` | composition |
| `LiveGate` | `engine/preflight.py`, `engine/live_guard.py` and their four callers | component + callers |
| `Calendar` | `core/clock.py`, arithmetic on trading days | operators |
| `MarketData` | `data/repository.py`, `cache.py`, `clean.py`, `synthetic.py` | operators |
| `Costs` | `backtest/costs.py` | operators |
| `WalkForward` | `backtest/engine.py`, `strategies/base.py` | component over `MarketData`, `Costs` |
| `TrackRecords` | `forecast/track_record_store.py`, `base.py`, `generator.py`, `candidates.py` | component |
| `CashAccount` | what a cash account promises | abstract specification |
| `MockBroker` | `execution/mock_broker.py` | implements `CashAccount` |
| `EquityCurve` | the equity snapshots of `services/portfolio.py` | component |
| `Paper`, `MCPaper` | the two scripts, the engine's cycles in paper mode, the ledger; composes the eight modules above | composition of two processes |
| `Approvals_proofs`, `Orders_proofs`, `Engine_proofs`, `Trading_proofs`, `Desk_proofs`, `Telegram_proofs`, `MessageQueue_proofs`, `Paper_proofs` | theorems | proofs |

In every module a definition named `...Mutant` is a plausible bug in the definition that follows it. No specification
uses one; they show that each checked property notices the bug.

**Approvals.** `rows` is the table, an id being the index; `now` is the clock. One action per method: `Respond`,
`RequestModification`, `ApplyModification`, `Snooze`, `Cancel`, the sweeper's `ExpireDue`; the branches that meet a passed
deadline are `RespondLate` and `ApplyModificationLate`. `create` is two, since it looks for an earlier round in one
transaction (`LookUp`) and inserts in another (`Insert`), and two processes call it: the daemon and `--once`. `asking` is
what each has looked up and not inserted yet; a row's `seen` is history, how many rows there were at the look. Everything
else is done by the daemon alone, in methods that never suspend; `--once` adds rows and changes none, so that a method of
the daemon is one step. A method ends with an audit record in a transaction of its own: `due` holds the rows whose record
is outstanding; the record is lost when the process dies (`BreakOff`) or its insert fails (`WriteAudit` either way).
Readers do not see the raw status: `Reported` applies the deadline as `_to_request` does.
`ApprovalPromise` says what they may rely on — an asker looks whether the newest request of its question is open before it
asks, a new question gets one request, a request is authorised only before its deadline and decided once, the deadline is
extended a bounded number of times, and time alone refuses it — and `Promise` maps the table to it; the sweeper is then
invisible, which is the point: failing closed does not depend on it.

**Orders.** `orders` is the table by key, `broker` Alpaca's book by `client_order_id`, `calls` counts submissions. Each
process walks through `reconcile`, `stale`, `place` and, for a key it has considered, `record`, `submit`, `update`; one
database transaction or one broker call is one step, and the other process can move in between. A submission is
accepted, refused, or times out after or before it took effect; a read may fail; a process may crash anywhere.
`OrderPromise` is what remains when processes, cycles and answers in flight are forgotten: a key is claimed before the
broker is asked, the broker is asked at most once, and the table says what the order is or was, never what it will be. The
table may go back to something older, since a process writes what it read a while ago; a finished status is never wrong,
with one exception the code has: a row becomes `rejected` when the answer of its submission was lost, and stays so. `Promise`
takes `asked` from the count of submissions and the rest from the two tables.

**MessageQueue.** `pending` is the list, `hand` what the worker has popped, `worker` the await it is suspended in. What
runs between two awaits is one action; `Enqueue`, `StopNow` and `StopAndDrain` may come at any of them. `QueuePromise` has a
set of unsettled messages where the code has a list, and no worker: what is tried is the first of the set in the order of
priority and age, what is shed is one of the least important (about which one, comments and code disagree: section 4).

**Engine.** `state` and `halted` are the two pauses of each process (`EngineStateMachine`, `RiskManager._paused`),
`flag` the persisted kill request, `stops` a history variable with the reasons for which a process was told, or decided,
to open nothing. The constant `Attached` is whether `ControlCommands.engine` is set. Nothing in the repository sets it:
`telegram/bot.py:295` builds the controls without an engine, and so do the tests. What `engine` shows of a confirmed pause,
resume or kill is therefore what `_execute` would do with one; as deployed a running process meets the drawdown and the
start-up blockers only, and never the killed state. With an engine attached, a killed process may still run a cycle before
its poll, and that cycle consults the risk manager's pause, which a kill does not set: the model lets it open positions,
and no property says otherwise.

**Trading.** The account is `held`, `working` orders and cash split in `settled` and `unsettled`; the records are
`trades` (ages of the open rows of a symbol, the oldest first), `booked` (what the ledger has as pending), `today` (rows
counted by the daily limit) and `used` (idempotency keys of the day). A cycle walks through `comply`, `exits`
(`sold`, `book` between the acceptance of a sell and its bookkeeping), `entries` (`opened` between the acceptance of a
purchase and its trade row). `seen` is what `_consider_entries` reads once and uses for all its candidates. Between the
steps orders execute and screens change; a crash loses the rest of the cycle, an exception the rest of its step, a missed
day the whole cycle. `Signal` is whether `engine.signal_time` lies in the session (configurable) or after it (the default,
16:15). `age` is a history variable: trading days since the symbol's last purchase. `Watched(s)` says that some
open row of `trades` makes the exit rules look at the position.

**Notifier.** One question is asked, its rounds being `rows`; `messages` is the chat, `known` the dictionary
`_deliveries`, `parked` the dictionary `_awaiting_size`. A handler is one step between two awaits: a tap decides the row
and then waits (`job`) for Telegram to answer the press, to strip the buttons and to write the text, while the sweep, the
other user and the queue's worker go on. `Ask` sends a message each time it is called, also when the round is open
already; a delivery is recorded by a callback when the queue gets to it. Restarts drop everything but rows and chat.
`ChatIsHonest` relates the chat to the rows: buttons are taken away, and a message is rewritten as closed, only of a request
nobody can answer any more. A handler that looked before its await, and acts after it, is what could break it.

**Controls.** A command's question stays in the chat (`chat`) with its buttons; what it would do is in `pending`, one per
user, matched by action alone. `done` remembers which question an executed command answers. `rules` is the symbol table of
`settings_overrides`; a dashboard session reads the whole of it (`ReadRules`), changes one symbol and writes the whole of
it (`WriteRules`), with other sessions in between. Its `ControlsInit`, `ControlsNext` and so on are what other modules call
`Init` and `Next`; one proof module is about it and `Notifier`.

**Desk.** `file` is the universe file a process started with, `screens` the newest row per symbol of `compliance_screens`,
`certified` a history variable. `BeginCycle` is everything of a cycle up to its ranked candidates — exits, cancellation of
stale orders, screening with reuse of cached verdicts, the gates of the builder, the strategy's choice — and leaves the
snapshot of positions and the candidates in `cycle`. Each candidate is then refused, placed, placed with a lost answer, or
rejected by the broker, while orders fill and positions leave. `Reload` is a restart with another file or other settings.

**LiveGate.** The twelve checks are operators over what can be observed (`world`) and what a caller says (a set of
arguments); `Told` makes a check unknown without its argument. The callers are the script, the dashboard, the start of the
engine and `OrderManager._submit`, each with the arguments its source passes.

**The paper pipeline.** `Paper` follows evidence to action. `FetchBars` and `RunScript` ask `MarketData` for bars: `GetBars`
serves from the cache when it covers a closed window, else fetches from the newest cached bar, falls back to generated
bars, cleans, merges, writes and validates; every bar carries, unknown to the code, the series it is from. `WalkForward`
trades them: per window it fits, walks the sessions (stops and targets, exits, entries decided on a close and executed at
the next open, in the order a strategy chose), closes out and hands the capital on; a strategy may raise while fitting or
trading. Money is in cents with `Costs`' arithmetic; decisions are a choice of symbols. `SaveTrackRecord` stores the
measurement. `StartEngine` loads the newest record and opens a fresh mock account; a cycle settles the ledger, exits
(`compliance_exit` or `max_hold`, one idempotency key per cause and day), reads the account once, enters on that reading and
records the day's equity. `StopEngine` may come between any two steps and takes the broker's account with it. `MockBroker`
keeps settlement lazy as the code does, and `Broker!Account` maps it to `CashAccount`, where proceeds become cash at the
start of their settlement date. The list `_pending` is a set of numbered entries (`NextNr`), so that two equal sales of a
day stay two; `CashAccount` asks for an entry of its own for each sale, for the price of what was sold. In-sample measurements, which `TrackRecordStore.save` admits and no script writes, are
among the records the store may hold at the beginning.

The main abstractions: quantities, prices and texts are left out unless a property is about them (they are kept in
`WalkForward` and `MockBroker`); in `Trading` every position is worth one unit of cash; a symbol is held or not; one tick
of a clock or one trading day stands for any length of time that makes a difference; in `Trading` a stop loss stands for
both price triggers; refusals for reasons a property does not look at (sector, size, research, an approval asked instead)
are the choice not to enter.

## 3. The runs

| Run | Instance | Checks | Shows |
|---|---|---|---|
| `approvals` | 2 processes, 1 key, 3 rounds, 1 size, timeout 1, 1 snooze of 1, 4 instants | `TypeOK`, `DecidedInTime`, `TwoRoundsOnlyByRace`, `DecidedRowIsFrozen`, `ImplementsPromise`, `EventuallyDecided` | every order of two askers' transactions, taps, replies, snoozes, sweeps and lost audit records: a timeout is never an approval, and only a race leaves two answerable rounds |
| `orders` | 2 processes (daemon and `--once`), 1 key, 3 faults | `TypeOK`, `AtMostOneSubmission`, `TruthfulTerminal`, `KeepsThePromise`, `KnownOrdersCatchUp` | no second order through races, crashes and lost answers; the table never runs ahead of the broker; a row with a broker id catches up for good |
| `queue` | queue of 2, 2 attempts, 2 priorities, 4 messages | `EveryMessageInOnePlace`, `Bounded`, `ServedInOrder`, `KeepsThePromise`, `EveryMessageSettles` | nothing is lost silently or duplicated by retries, sheds, throttling, stop and restart |
| `engine` | 2 processes, controls attached | `TypeOK`, `RunningIsNotHeldBack`, `NoEntryWhileStopped`, `KilledStops` | pauses hold and agree, a kill ends the process |
| `trading` | 2 symbols, limits 1, minimum hold 1, maximum 2, signal after the close, 1 extra cycle, 1 fault | `TypeOK`, `EntriesPerDay`, `PositionsAreWatched`, `MinimumHold`, `OnlySettledCashIsSpent`, `NonCompliantLeaves` | the daily limit and the minimum hold survive lost fills, old rows and a restart; on schedule no position is forgotten and no unsettled cash spent; a forbidden holding leaves in the end |
| `notifier` | 1 user and the sweep, 1 stranger, 2 rounds, 2 messages, 1 restart | `ChatIsHonest`, `KnownMessageIsClosed`, `ParkedIsDecided` | buttons disappear only for a cause; whatever races for a message, a decided request whose message was known loses its buttons; a parked request never stays open |
| `desk` | 3 funds (1 with any fault, 2 interchangeable), 2 slots, 1 trade per day, 2 per week, 3 days, 1 restart, 1 lost answer, rescreening after 1 day | `TypeOK`, `OpenPositionsBounded`, `BoughtOnFreshCertification` | stale snapshots and stale verdicts do bounded harm, and none |
| `controls` | 2 users, 2 dashboards, 2 symbols, 2 questions, timeout 1, 2 edits | `ExecutesTheNewestQuestionOnce`, `OnlyConcurrentRulesAreLost` | an old button executes the newest question or nothing; an edit is lost to a concurrent one only |
| `paper` | 2 symbols, 9 days of bars in two overlapping windows, 5 days of trading, 3 starts of the engine, settlement T+1 | `BooksBalance`, `TradesAreHonest`, `ActsOnNewestEvidence`, `DayPnlIsOfOneMode`, `KeepsTheCashAccount` | the whole path from bars to recorded equity |
| `engine_flag`, `live_gate`, `paper_invented` | the smallest instances that show it; `paper_invented` uses that of `paper` | one documented claim each | the claim fails: section 4 |

**Why the bounds are enough.** Rows of different keys of `Approvals` and `Orders` never read each other, so one key shows
what any key does. Three rounds are a decided one and the two that two askers who found it both insert, which the run
reaches; the second of two is also the least that can revive a first. One snooze reaches the limit and one more is
refused; a request lives two instants at most (`Lifetime`), so that four leave room for a round after another. Sizes are
stored and never compared, so one will do. Two processes are
all the deployment has, and three faults let each lose an answer, crash and miss a read in one behaviour. A queue of two
with four messages fills, sheds and takes a retry back while full; two priorities are the least that can be reordered.
Two symbols compete for one unit of cash and one slot; two rows of one symbol are what it takes for an old row to be
mistaken for a new position; a maximum hold of two trading days above a minimum of one makes every age that is compared
occur. One fault per behaviour is enough for each kind of fault at each step; that several faults change nothing more for
`EntriesPerDay` and the type is proved (section 6).

In `Notifier` two messages are an open request sent twice or two rounds, and a user's handler, the sweep and a delivery
are the three activities that can meet at one message; a second user adds a second handler of the same kind. In `Desk`
three symbols are one more than the two slots, three days are one more than a verdict lives, and the week is the one the
weekly limit counts; an entry has one fault at a time, and a restart edits the file or the settings. `Desk`'s own limits
are covered for every value by its proofs. In `Controls` two questions are an old button and a newer question. In `Paper`
nine days give two windows that share a day, a week-end inside and between the windows, a symbol that is listed late and a
response cut short inside the second window, which is what it takes for a position to lose its last bar;
`validate_ohlcv`'s tolerance is scaled to so few days (`MaxMissingPct`); the prices are chosen so that stops, targets and
window ends all close trades; the cash pays for some positions at the last price but not at the fill price, so that the
broker refuses them, and for others in a smaller size; a symbol can be sold, bought again and sold once more on one day, for
two equal entries; three starts are what it takes for
rows of paper, live and paper again. The cache is forgotten when the script is over, since nothing reads it afterwards.

A property that another one of the same run covers, or that follows one guard of the code, is not listed in a run but
proved: `WriteAhead` (implied by `KeepsThePromise`, where only a claimed key can be asked about), `DeadlineBounded` (by
`ImplementsPromise`, which extends a deadline a bounded number of times), `ShedsTheLowest` (by the queue's
`KeepsThePromise`, which displaces one of the least important), `KilledIsTerminal` (the transition table of
`engine/state.py`), and the types of
`MessageQueue`, `Notifier` and `Controls`.

Counters that grow without bound in the code are capped by constants named `Max...` (and `LastDay`), all in guards of
what adds to them. `CHECK_DEADLOCK FALSE` is used for the modules that stop when such a bound is used up (`Approvals`,
`MessageQueue`, `Notifier`, `Desk`, `Controls`, `LiveGate`, `Paper`); `Orders`, `Engine` and `Trading` never stop and are
checked for deadlock.

## 4. Where the code and its documents disagree

Each is a run that checks the documented sentence and finds a behaviour of the code that contradicts it.

| Run | The claim | What the code does |
|---|---|---|
| `engine_flag` | "The engine will refuse to trade, in this process and any other, until this is cleared" (`ui/controls.py:82`) | the flag is read when a process is built and nowhere in a cycle; a process that starts with it is paused, but its cycles look at another pause |
| `live_gate` | "Refuse a live order if any critical condition has changed" (`engine/live_guard.py:181`) | every live order is refused, exits included: the order manager names no providers (`execution/order_manager.py:302`), and an unnamed provider fails its check |
| `paper_invented` | "a backtest run on synthetic data can never be mistaken for a real one" (`data/synthetic.py:6`) | generated bars enter the cache and come back as "(cache)" of the real provider (`data/repository.py:178`) |

Also seen in the modules above, without a run of their own:

- a late answer expires its row without an audit record: the insert runs inside the transaction that holds the write
  lock, or is not made at all (`services/approvals.py:242`, `:317`), although line 17 says every transition is audited;
- a row without a broker id, left by a crash or a lost answer, is passed over by `reconcile` for ever
  (`execution/order_manager.py:428`);
- two processes that ask a question again at once both insert a round, with different suffixes, and both can be answered
  (`services/approvals.py:114`, `:125`), although line 104 says that asking twice returns the existing request; with a new
  question, or in the same second, the second insert fails on the unique key and `create` raises. `TwoRoundsOnlyByRace`
  says that nothing else leads there;
- a full queue sheds the newest of the least important messages (`telegram/queue.py:211-216`), where its comments say the
  oldest (lines 12-13 and 186). `QueuePromise` promises neither, so that either choice would implement it;
  `LowestPriorityIndex` is the code's;
- a stop that drains the queue still cuts the message in the worker's hand (`telegram/queue.py:247`);
- a trade is closed when its sell is accepted (`engine/loop.py:238`); with the default signal time the sell waits overnight,
  and a second cycle of the day may cancel it as stale, after which no ordinary exit rule looks at the position again. It
  takes that second cycle, started by hand, or a fault between order and row: otherwise `PositionsAreWatched` holds;
- compliance exits, the kill switch and bracket legs record no sale, so that a signal inside the session spends their
  proceeds (`risk/settlement.py:199`); with the default signal after the close, and no cycle run by hand, it cannot
  (`OnlySettledCashIsSpent`), which is a property of the schedule and not of the ledger; with the mock broker, which
  excludes unsettled proceeds itself, the ledger takes the others off a second time and understates the cash;
- entries are sized on the cash at the beginning of the entries and at the last price, and may be refused at the fill price;
- a request that is already open is sent again, and the second delivery makes the notifier forget the first message
  (`services/approvals.py:104`, `telegram/approvals.py`); the first keeps its buttons, as does one delivered after its decision;
- while a user owes a size, every other message of theirs, a `/kill` included, is answered "invalid size" (`telegram/bot.py:109`);
- the engine acts on an approved proposal nowhere (`engine/loop.py:410` asks, nothing reads the decision to place the order);
- the dashboard's symbol rules (`ui/controls.py:266`, "Forbidden always wins") are read by no step of the engine;
- a verdict is reused until it is stale although the file no longer certifies the fund (`shariah/status.py:105`), and one a
  stock screener gave is never reused, since the name it is stored under is not the provider's;
- a hole in the bar cache is never filled, as a fetch starts at the newest cached bar (`data/repository.py:261-286`);
- a position without a bar on the last day of its window vanishes from the simulation with its money
  (`backtest/engine.py:485`); spread and slippage are charged in the fill price and again as costs (`backtest/costs.py:82`);
- there is one equity row per date whatever the mode (`services/portfolio.py:227-250`), so a change of mode overwrites the
  day; after a restart the mock account is fresh while the rows survive, and the day's profit is fictitious;
- an engine that runs goes on acting on a record that has expired since it started;
- the limit on open positions can be exceeded (by how much: `OpenPositionsBounded`); the date of keys and rows is the UTC
  date, which differs from the trading date for a cycle run by hand after 20:00 Eastern time; a rejected order uses up its
  key for the rest of the day; the minimum hold counts from the day of the order, not of its fill.

## 5. Fairness

Fairness is assumed only where the program has something that acts by itself.

- `Approvals`: the clock ticks, the sweeper runs (`expire_due`, a job every minute, `engine/scheduler.py`) and a method the
  daemon is in returns, or the process dies (`Returns(Daemon)`). Nobody has to answer anything, and `--once` may hang.
- `Orders`: the daemon's steps (`WF_vars(Advance(Daemon))`), since cron starts a cycle on every trading day and every step
  returns. The broker need not fill, and the second process need not exist.
- `MessageQueue`: the event loop resumes the worker (weak), a drain polls, and the rate limiter lets a throttled message
  through in the end — strong fairness of being sent, because a throttled worker goes back and forth between waiting and
  ready, and nobody else takes its tokens.
- `Engine`: a started process runs its scheduled cycles and polls every second. Nobody pauses, resumes or restarts.
- `Trading`: the scheduled job and the steps of a cycle, opening and closing of the exchange, and execution of a market
  sell while the exchange is open. Purchases, bracket legs and screens owe nothing. Under these a forbidden holding that is
  refused, cancelled or interrupted leaves all the same (`NonCompliantLeaves`).
- `Notifier`: a deadline passes in the end, the sweep runs, and an await ends, since Telegram's client answers or raises
  within its timeout. Users owe nothing, the queue may never deliver, and an edit may be refused.

`Desk`, `Controls`, `LiveGate` and `Paper` state safety only: in them nothing has to happen.

## 6. The proofs

All are machine-checked by TLAPS from the `ASSUME`s of the module they are about (types of the constants; for `Approvals`
positive timeouts and that the daemon is a process; for `Orders` that the daemon is a process; for `Trading` a finite set of symbols and a minimum hold no
longer than the maximum; for `Desk` a finite set of symbols and at least one slot; those of `Paper` and its parts are
listed with it). Each proof finds an inductive invariant, one step per action, and concludes with temporal logic. Every
invariant and every action property that a passing run checks is a theorem, and so is the refinement of the four abstract
specifications.

- **`Approvals_proofs`** — `TypeCorrect`, `NeverDecidedLate`, `DeadlinesAreBounded`, `TwoLiveRoundsNeedARace`
  (`TwoRoundsOnlyByRace`), `DecisionsAreFinal`, and `Refinement` (`Spec => ImplementsPromise`), for any number of
  asking processes. The steps are first classified by what they do to the table and to what is being asked
  (`EveryStep`: a row is added, undecided rows change, a question is looked up or given up, or nothing), and each
  invariant is proved against these shapes. The race is found by: a create that looks finds every earlier round
  dead (`LookFindsDead`), dead rounds stay dead (`DeadStaysDead`), hence so at its insert
  (`QuestionsFoundDead`); a round still live at the insert came after the look, and the new row is the witness
  of `Superseded` (`InsertSupersedes`). The refinement maps a look to `Look`, a new row to `Ask`, a dropped
  question to `GiveUp`, an answer to `Decide`, a snooze to `Extend` and a tick to `Pass`; sweeper, parking and
  audit steps are stutters.
- **`Orders_proofs`** — `OrdersTypeCorrect`, `SubmittedAtMostOnce`, `WrittenAhead`, `TerminalRowsAreTrue`,
  `OneSubmitterPerKey`, `OrdersKeepThePromise` (`Spec => KeepsThePromise`), for any number of processes, keys and faults.
  `AtMostOneSubmission` is not inductive: it needs that the unique key lets one process past the insert (`SoleSubmitter`),
  that a key without a row was never submitted (`Untouched`) and that a row with an id belongs to a submitted order
  (`KnownRows`); `TruthfulTerminal` needs that a finished answer in some process's hand is still true when it is written
  (`HeldAnswers`), as the broker never leaves a finished state. The refinement maps an insert to `Claim`, a submission to
  `Ask` (the broker opens, fills or refuses the order, whatever the submitter hears of it), the update after it to `Learn`
  or `Reject`, the write-back of a reconciliation to `Learn`, and fills and cancellations at the broker to `Becomes`; the
  other steps stutter. What is learnt in the past tense needs one more invariant: an answer in some process's hand is what
  the order is or once was (`Repeats`).
- **`Engine_proofs`** — `EngineTypeCorrect`, `PausesAgree`, `StoppedOpensNothing`, `KilledStaysKilled`, for any number of
  processes. The invariant adds that a risk manager is paused exactly while there is a reason (`HaltedHasReason`) and that
  a freshly built process is not (`Fresh`). Its second part is about `LiveGate`: `NoLiveOrderEver`,
  `ActivationNeverSucceeds`, `EveryLiveSubmissionIsGuarded`, what the finding of `live_gate` shows once, in every state.
  `UntoldFails` (a check without its argument does not pass) decides it. These are facts about the code as it is, not
  requirements; no run checks them.
- **`Trading_proofs`** — `TradingTypeCorrect`, `DailyLimitHolds`, `MinimumHoldHolds`, `NothingIsForgotten`
  (`PositionsAreWatched`), `ProceedsSettleFirst` (`OnlySettledCashIsSpent`), for any symbols, limits, capital and
  number of faults. Types need `Covered`: cash covers the working purchases from the broker's check to the execution.
  `EntriesPerDay` needs `Counted`: an entry is in hand, in a row, or lost. `MinimumHold` needs `Honest`: without a lost row
  the newest open row is no older than the position, unless that is old enough anyway. The last two speak of scheduled cycles,
  and share the invariant that there is one of them a day, at the signal, which finds the orders of earlier days executed or
  expired (`Rhythm`). A position is then watched because its purchase was, before it was executed (`Watching`), and a day's
  sales cannot pay for its purchases because settled cash covers all of them when the exchange opens (`Funded`). Their
  conditions cannot be dropped: TLC finds that a second cycle in the day (`extra`) breaks both, a fault the first, and a
  signal inside the session the second.
- **`Desk_proofs`** — `DeskTypes`, `DeskIsBounded`, `DeskBuysFreshlyCertified`, for any finite set of symbols, limits,
  interval and number of restarts and lost answers. The bound is not inductive: orders the cycle's snapshot misses count
  as trades of the day, and those that do not are `Strays`, no more than the lost answers (`SlotsInv`). The third
  theorem needs that a cached compliant verdict of the certification is no newer than the last certification and that
  every candidate of a cycle was certified within the interval (`FreshInv`), over restarts that edit the file.
- **`Telegram_proofs`** — of `Controls`: `ControlsTypes`, `CommandsRunOnce`, `OtherRulesSurvive`, for any users, sessions,
  symbols and bounds. A command runs once because what is pending is always the newest question of its user and was not
  executed yet (`PendingIsNewest`). A draft of the symbol rules differs from the table only in its own symbol and in those
  ruled on since it was read (`DraftsAreRecent`), so a write undoes nothing else. Of `Notifier`: `NotifierTypes` and
  `TheChatIsHonest`, for any users and any numbers of rounds, messages and restarts. The types say that every delivery the
  notifier remembers, and every edit a coroutine still has to make after an await, is of a message of that very row.
  `NotesInv` adds that messages, deliveries, parked users and suspended handlers name rows and messages that exist;
  `Grows` (nothing is removed, no message changes its row) is why what a handler looked up before an await is still good
  after it. `ChatIsHonest` holds of every message because it holds of what each handler is about to do to one: `HonestInv`
  says that a handler on its way to strip buttons has a row that is settled (decided or past its deadline), and one on its
  way to write "closed" a row nobody can answer. Both are stable: rows age only in one direction (`Ages`).
- **`MessageQueue_proofs`** — `QueueKeepsThePromise`, `QueueTypes`, `OnePlace`, `MemoryIsBounded`, `InOrder`,
  `LowestIsShed`, for any limit, number of attempts and set of priorities. The invariant `Fit` speaks of the messages, a
  queue and the message in hand: one place per message, the bound, the order. It is proved of what coroutines do to these
  three — take the first, settle or fail the one in hand, shed, put back, arrive — and the actions are combinations of
  them. `InOrder` needs that a message about to be retried has failed (`Working`). The lemmas under it describe insertion
  into and removal from a sequence index by index, and that sets of numbers have a least and a greatest element (from the
  well-foundedness of the strict subset relation). For the refinement the list is read as a set: it has as many elements
  as places (`AsManyAsPlaces`, a bijection), its head is `First` among them and what `_lowest_priority_index` finds is one
  of the `Least` (`LowestIsLeast`).

- **`Paper_proofs`** — five theorems about the whole path from bars to recorded equity, for any calendar, prices, symbols,
  windows and settings.
  - The engine's half, `EngineInv`: `ProfitIsOfOneMode`, `BuysOnNewestEvidence`, and `MockBrokerKeepsTheAccount`, the
    refinement of `CashAccount`. The record an engine acts on is the last one stored before its start (`Evidence`), since
    rows are only appended and none is loaded later. `BrokerTyped` has cash and proceeds as natural numbers; under it asking the
    lazy broker is a stutter of the account (`AskingRefined`) and a tick of the clock moves what is due from one sum to
    the other (`DayRefined`). A sale is an entry that no other one equals, since its number is new (`NumberIsNew`), so that
    the theorem says of every sale, equal ones included, that it earns its price once.
  - The simulation's half, `SimulationInv`: `SimulatedTradesAreHonest` and `SimulationConservesMoney`. A book is good
    (`GoodBook`) when its trades are honest and apart, lie after the opening of the window and before its current day, and
    a held symbol's trades were closed before the position was entered; its `Balance` — capital, cost of the positions,
    less what the trades earned — is the same after every closing and every entry. Between windows, `WindowInv` keeps every
    earlier trade at or before the opening of the next one, hence two windows that share a day do not share a trade.
    `NextSession` is in that order because windows are (`WindowsInOrder`).
  - Money is summed with folds and entries are a recursive function, which calls for induction over data. The library's
    induction theorems take a predicate as a parameter; `SubsetInduction` and `IntervalInduction` state induction over the subsets
    of a finite set and over an interval for a *set* `good` of subsets or numbers, and are proved from the well-foundedness of
    the strict subset relation and the finiteness of intervals. What a sum does when an element is added, removed or changed
    follows from them.
  - Assumptions: the calendar's sessions lie in what it covers and reach past the last day (`PaperAssumption`; outside, the
    code raises); settings are in the ranges of the configuration's schema (`WalkForwardAssumption`, `CostAssumption`,
    `AgeAssumption`); `None` is no number; and `SalesPay`: no sale costs more than it brings. The code does not check the last
    one — with a high commission and a price near zero a sale makes the capital negative — so it is a condition
    on prices and costs under which "no purchase overdraws the capital" is true.

Model-checked only: all liveness (`EventuallyDecided`, `KnownOrdersCatchUp`, `EveryMessageSettles`, `KilledStops`,
`NonCompliantLeaves`, `KnownMessageIsClosed`, `ParkedIsDecided`), which rests on fairness and on `ENABLED`, out of the
prover's reach.

## 7. What is not modelled

- Features and indicators, the strategies' signals, the forecasts' numbers, calibration, regimes, `buy_and_hold`, the
  performance metrics and the report are numeric code over price series: no order of events to get wrong, and real numbers
  TLC does not have. Where the modelled code uses their results, they are choices.
- Purification and zakat compute reports that no trading step reads, and `shariah/constraints.py` checks settings once.
- Configuration, migrations, the container and start-up wiring run once; configuration values are constants here.
- Wording, formatting, translation, logging, dashboard pages and the transports are input and output.
- Of the mock broker: fractions of shares and its table of seen keys, which the order manager's own keys precede. Limit
  prices and bracket legs are not in its model because its code looks at neither.
- `force_refresh` of the repository, which no caller under `src/` passes; intraday bars, likewise.
- The simulation of `run_backtest.py` runs in `Paper` while no engine is up; nothing of it can be seen before its row is
  stored, and that may happen at any later time.
- The second process in `Notifier`, which is about the daemon's bot. `--once` sends its requests and stops its bot after its
  one cycle: it answers and sweeps nothing.
- Time zones: dates are dates.

## 8. The plan

*Done*: `Approvals`, `Orders`, `MessageQueue` and the promise of each, `Engine`, `Trading`, `Notifier`, `Controls`, `Desk`,
`LiveGate`, the paper pipeline with `CashAccount`; proofs of every invariant and action property the passing runs check, and
of the four refinements.

Left, in order of what matters most:

1. The safety half of the liveness properties (what may never happen on the way to `NonCompliantLeaves` and
   `KnownMessageIsClosed`), which the prover can do where it cannot do the fairness.
2. `PositionsAreWatched` with faults: which positions exactly a lost row or a sell cancelled as stale leaves unwatched.
