-------------------------------- MODULE Desk --------------------------------
(***************************************************************************)
(* From an entry of config/universe_etf.yaml to an order: the gates of     *)
(* universe/builder.py, the verdicts of shariah/providers and their cache  *)
(* in shariah/status.py, the candidates of forecast/candidates.py, and the *)
(* limits and the routing of risk/manager.py and engine/loop.py.           *)
(*                                                                         *)
(* A cycle is one coroutine, but the broker fills and stops run beside it, *)
(* so its steps are BeginCycle (everything up to the ranked candidates)    *)
(* and one Refuse, Place or PlaceUnheard per candidate.  Every candidate   *)
(* of a cycle is judged against the positions read at its beginning.       *)
(* Sizes, cash and settlement are module Trading's and the order rows      *)
(* module Orders'; here a refusal for one of those reasons is a choice.    *)
(***************************************************************************)
EXTENDS Naturals, FiniteSets

CONSTANTS
    Symbols,
    Varied,       \* the symbols whose entries the file may get wrong
    Whitelists,   \* the values of universe.whitelist considered
    Blacklists,   \* the values of universe.blacklist considered
    Fallbacks,    \* the stock screeners considered; "none" is Mode A
    Interval,     \* shariah.rescreen_interval_days
    MaxOpen,      \* risk.max_open_positions
    MaxPerDay,    \* risk.max_trades_per_day
    MaxPerWeek,   \* risk.max_trades_per_week
    MaxDays,      \* bound of the model: days of the (one) week simulated
    MaxReloads,   \* bound of the model: restarts
    MaxLost       \* bound of the model: submissions whose answer is lost

ASSUME SymbolsAssumption == IsFiniteSet(Symbols) /\ Varied \subseteq Symbols
ASSUME RulesAssumption ==
    Whitelists \subseteq SUBSET Symbols /\ Blacklists \subseteq SUBSET Symbols
ASSUME FallbacksAssumption ==
    Fallbacks \subseteq {"none", "internal_aaoifi", "mock_external"}
ASSUME IntervalAssumption == Interval \in Nat
ASSUME LimitsAssumption ==
    MaxOpen \in Nat \ {0} /\ MaxPerDay \in Nat /\ MaxPerWeek \in Nat
ASSUME BoundsAssumption == MaxDays \in Nat /\ MaxReloads \in Nat /\ MaxLost \in Nat

VARIABLES
    day,
    reloads,
    setup,      \* the configuration the process started with
    file,       \* the universe file the process started with
    screens,    \* the newest compliance_screens row of a symbol
    certified,  \* history: the last day a loaded file certified a symbol
    held,       \* the broker's positions
    working,    \* the broker's open buy orders
    keys,       \* symbols with an opening order row of today
    bought,     \* symbols with a Trade row of today
    week,       \* Trade rows of this week
    lost,       \* submissions the broker took and the engine believes failed
    cycle       \* [positions, todo]: what _consider_entries holds

vars == <<day, reloads, setup, file, screens, certified, held, working, keys,
          bought, week, lost, cycle>>

\* 0 is "never": more than Interval days before the first day.
FirstDay == Interval + 2
Days == 0 .. FirstDay + MaxDays

Autonomy == {"approve", "whitelist", "full"}
Setups == [autonomy : Autonomy, whitelist : Whitelists, blacklist : Blacklists,
           fallback : Fallbacks]

\* One entry of the universe file, with what the market says of the symbol.
\* listed is FALSE when the symbol is not in the file; stock is what its
\* fundamentals show a stock screener.
Entry == [listed : BOOLEAN, forbidden : BOOLEAN, verified : BOOLEAN,
          board : BOOLEAN, inception : {"past", "future", "unknown"},
          liquid : BOOLEAN,
          stock : {"clean", "flagged", "breach", "incomplete"}]
Good == [listed |-> TRUE, forbidden |-> FALSE, verified |-> TRUE, board |-> TRUE,
         inception |-> "past", liquid |-> TRUE, stock |-> "clean"]
\* Bound of the model: a wrong entry has one fault, or is not in the file.
Entries ==
    {Good, [Good EXCEPT !.forbidden = TRUE], [Good EXCEPT !.verified = FALSE],
     [Good EXCEPT !.board = FALSE], [Good EXCEPT !.inception = "future"],
     [Good EXCEPT !.inception = "unknown"], [Good EXCEPT !.liquid = FALSE]}
    \cup {[Good EXCEPT !.listed = FALSE, !.stock = k] :
            k \in {"clean", "flagged", "breach", "incomplete"}}
Files == {f \in [Symbols -> Entries] : \A s \in Symbols \ Varied : f[s] = Good}

Verdicts == {"compliant", "doubtful", "non_compliant", "unknown"}
Sources == {"fund_certification", "internal_aaoifi", "mock_external"}
NoScreen == [status |-> "unknown", source |-> "none", day |-> 0]
Screens == [status : Verdicts, source : Sources \cup {"none"}, day : Days]

Idle == [positions |-> {}, todo |-> {}]

Certifies(entry) == entry.listed /\ entry.verified /\ entry.board
Recertify(f, d) ==
    [s \in Symbols |-> IF Certifies(f[s]) THEN d ELSE certified[s]]

\* The table may hold rows an earlier provider wrote, the newest of today.
Init ==
    /\ day = FirstDay
    /\ reloads = 0
    /\ setup \in Setups
    /\ file \in Files
    /\ screens \in [Symbols -> {NoScreen}
           \cup [status : {"compliant"}, source : {"mock_external"}, day : {FirstDay}]]
    /\ \A s \in Symbols \ Varied : screens[s] = NoScreen
    /\ certified = [s \in Symbols |-> IF Certifies(file[s]) THEN FirstDay ELSE 0]
    /\ held = {} /\ working = {}
    /\ keys = {} /\ bought = {}
    /\ week = 0 /\ lost = 0
    /\ cycle = Idle
-----------------------------------------------------------------------------
(* Screening.                                                              *)

\* InternalAAOIFIProvider over fundamentals: flagged activities first, then
\* missing ratios, then breached ones; a clean pass is doubtful because revenue
\* is not measured.  MockExternalProvider as the factory builds it knows nothing.
StockVerdict(entry) ==
    IF setup.fallback # "internal_aaoifi" \/ entry.stock = "incomplete" THEN "unknown"
    ELSE IF entry.stock = "clean" THEN "doubtful" ELSE "non_compliant"

\* CertifiedFundProvider.screen: funds of the file by their certification,
\* everything else by the fallback.
Verdict(s) ==
    LET entry == file[s] IN
    [status |-> IF ~entry.listed THEN StockVerdict(entry)
                ELSE IF Certifies(entry) THEN "compliant" ELSE "unknown",
     source |-> IF ~entry.listed /\ setup.fallback # "none"
                THEN setup.fallback ELSE "fund_certification",
     day |-> day]

\* BUG: the provider that gave the verdict is not compared.
ReusableMutant(s) ==
    /\ screens[s] # NoScreen
    /\ day - screens[s].day <= Interval

\* ComplianceTracker.screen keeps a verdict that is neither old nor another
\* provider's.
Reusable(s) ==
    /\ screens[s] # NoScreen
    /\ day - screens[s].day <= Interval
    /\ screens[s].source = "fund_certification"

Screened(s) == IF Reusable(s) THEN screens[s] ELSE Verdict(s)
ScreenAll(S) == [s \in Symbols |-> IF s \in S THEN Screened(s) ELSE screens[s]]
-----------------------------------------------------------------------------
(* The universe and the candidates.                                        *)

\* UniverseBuilder._evaluate up to the compliance gate.
ReachesScreening(s) ==
    /\ file[s].listed
    /\ ~file[s].forbidden
    /\ file[s].verified
    /\ s \notin setup.blacklist
    /\ setup.whitelist = {} \/ s \in setup.whitelist
    /\ file[s].inception = "past"

\* The whole of it: a symbol that is not certified is excluded, never asked
\* about.
Included(s) ==
    /\ ReachesScreening(s)
    /\ Screened(s).status = "compliant"
    /\ file[s].liquid

\* The compliance step screens what is held; stops, targets, the maximum hold
\* and compliance exits sell some of it, and each sale may fail.
SellSome == \E sold \in SUBSET held : held' = held \ sold

\* A cycle that finds the engine paused, a limit breached or no slot free.
CycleWithoutEntries ==
    /\ cycle = Idle
    /\ SellSome
    /\ screens' = ScreenAll(held)
    /\ UNCHANGED <<day, reloads, setup, file, certified, working, keys, bought,
                   week, lost, cycle>>

\* One that goes on: stale orders are cancelled, the universe is built, and the
\* strategy and its forecasts make some of it actionable.
BeginCycle ==
    /\ cycle = Idle
    /\ SellSome
    /\ Cardinality(held') < MaxOpen
    /\ \E left \in SUBSET working : working' = left
    /\ screens' = ScreenAll(held \cup {s \in Symbols : ReachesScreening(s)})
    /\ \E actionable \in SUBSET {s \in Symbols : Included(s)} :
          cycle' = [positions |-> held', todo |-> actionable]
    /\ UNCHANGED <<day, reloads, setup, file, certified, keys, bought, week, lost>>
-----------------------------------------------------------------------------
(* One candidate.                                                          *)

\* BUG: only the snapshot limits a cycle's entries.
ApprovedMutant(s) ==
    /\ s \notin cycle.positions
    /\ Cardinality(cycle.positions) < MaxOpen

\* RiskManager.evaluate: the positions are the cycle's snapshot, the trades are
\* counted afresh.
Approved(s) ==
    /\ s \notin cycle.positions
    /\ Cardinality(cycle.positions) < MaxOpen
    /\ Cardinality(bought) < MaxPerDay
    /\ week < MaxPerWeek

\* TradingCycle._consider_one: who may be bought without asking.
Unattended(s) ==
    \/ setup.autonomy = "full"
    \/ setup.autonomy = "whitelist" /\ s \in setup.whitelist

\* OrderManager.open_position submits one opening order per symbol and day.
Submits(s) == s \in cycle.todo /\ Approved(s) /\ Unattended(s) /\ s \notin keys

Considered(s) == cycle' = [cycle EXCEPT !.todo = @ \ {s}]

\* No price, a limit, an unsizable or unaffordable position, or a question sent
\* to a human instead of an order.
Refuse(s) ==
    /\ s \in cycle.todo
    /\ Considered(s)
    /\ UNCHANGED <<day, reloads, setup, file, screens, certified, held, working,
                   keys, bought, week, lost>>

\* BUG: the trade is recorded but the order row is not.
PlaceMutant(s) ==
    /\ Submits(s)
    /\ working' = working \cup {s}
    /\ bought' = bought \cup {s}
    /\ week' = week + 1
    /\ Considered(s)
    /\ UNCHANGED <<day, reloads, setup, file, screens, certified, held, keys, lost>>

\* _place: the order is accepted and the trade recorded.
Place(s) ==
    /\ Submits(s)
    /\ keys' = keys \cup {s}
    /\ working' = working \cup {s}
    /\ bought' = bought \cup {s}
    /\ week' = week + 1
    /\ Considered(s)
    /\ UNCHANGED <<day, reloads, setup, file, screens, certified, held, lost>>

\* The broker has it but the answer is lost: no trade is recorded.
PlaceUnheard(s) ==
    /\ lost < MaxLost
    /\ Submits(s)
    /\ keys' = keys \cup {s}
    /\ working' = working \cup {s}
    /\ lost' = lost + 1
    /\ Considered(s)
    /\ UNCHANGED <<day, reloads, setup, file, screens, certified, held, bought, week>>

\* The broker rejects it: the row keeps the key for the day.
PlaceRejected(s) ==
    /\ Submits(s)
    /\ keys' = keys \cup {s}
    /\ Considered(s)
    /\ UNCHANGED <<day, reloads, setup, file, screens, certified, held, working,
                   bought, week, lost>>
-----------------------------------------------------------------------------
(* The broker, the calendar and the operator.                              *)

Fill(s) ==
    /\ s \in working
    /\ working' = working \ {s}
    /\ held' = held \cup {s}
    /\ UNCHANGED <<day, reloads, setup, file, screens, certified, keys, bought,
                   week, lost, cycle>>

\* A bracket leg sells the position.
Leave(s) ==
    /\ s \in held
    /\ held' = held \ {s}
    /\ UNCHANGED <<day, reloads, setup, file, screens, certified, working, keys,
                   bought, week, lost, cycle>>

\* Orders are good for the day; the counts of the day start again.
NextDay ==
    /\ cycle = Idle \/ cycle.todo = {}
    /\ day < FirstDay + MaxDays
    /\ day' = day + 1
    /\ certified' = Recertify(file, day + 1)
    /\ working' = {} /\ keys' = {} /\ bought' = {}
    /\ cycle' = Idle
    /\ UNCHANGED <<reloads, setup, file, screens, held, week, lost>>

EndCycle ==
    /\ cycle # Idle
    /\ cycle.todo = {}
    /\ cycle' = Idle
    /\ UNCHANGED <<day, reloads, setup, file, screens, certified, held, working,
                   keys, bought, week, lost>>

\* The process is stopped, the configuration or the file is edited, and it
\* starts again, at any moment; the tables survive.
Reload ==
    /\ reloads < MaxReloads
    /\ reloads' = reloads + 1
    /\ \/ setup' \in Setups /\ UNCHANGED file
       \/ file' \in Files /\ UNCHANGED setup
    /\ certified' = Recertify(file', day)
    /\ cycle' = Idle
    /\ UNCHANGED <<day, screens, held, working, keys, bought, week, lost>>

Judge(s) == Refuse(s) \/ Place(s) \/ PlaceUnheard(s) \/ PlaceRejected(s)
Next ==
    \/ CycleWithoutEntries \/ BeginCycle \/ EndCycle
    \/ NextDay \/ Reload
    \/ \E s \in Symbols : Judge(s) \/ Fill(s) \/ Leave(s)

Spec == Init /\ [][Next]_vars
-----------------------------------------------------------------------------
(* Properties.                                                             *)

\* Every variable stays within its range.
TypeOK ==
    /\ day \in FirstDay .. FirstDay + MaxDays
    /\ reloads \in 0 .. MaxReloads
    /\ setup \in Setups
    /\ file \in [Symbols -> Entries]
    /\ screens \in [Symbols -> Screens]
    /\ certified \in [Symbols -> Days]
    /\ held \subseteq Symbols /\ working \subseteq Symbols
    /\ bought \subseteq keys /\ keys \subseteq Symbols
    /\ week \in 0 .. MaxPerWeek
    /\ lost \in 0 .. MaxLost
    /\ cycle \in [positions : SUBSET Symbols, todo : SUBSET Symbols]

\* How far a cycle that judges every candidate against one snapshot can exceed
\* max_open_positions: the day's trades, and every order the broker took
\* without the engine hearing of it, and no more.
OpenPositionsBounded ==
    Cardinality(held \cup working) <= MaxOpen - 1 + MaxPerDay + lost

\* Whatever is bought was in the file, permissible and certified by it no more
\* than rescreen_interval_days ago: neither an older verdict nor one another
\* provider gave is ever traded on.
BoughtOnFreshCertification ==
    [][\A s \in working' \ working :
          /\ file[s].listed /\ file[s].verified /\ ~file[s].forbidden
          /\ day - certified[s] <= Interval]_vars
=============================================================================
