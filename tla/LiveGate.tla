------------------------------ MODULE LiveGate ------------------------------
(***************************************************************************)
(* The way to real money: the checklist of engine/preflight.py, the typed  *)
(* activation and the per-order guard of engine/live_guard.py, and who     *)
(* calls them with which arguments: scripts/preflight.py, the dashboard    *)
(* (ui/controls.py), the start of the engine (engine/runner.py) and every  *)
(* submission (execution/order_manager.py).                                *)
(*                                                                         *)
(* An argument a caller does not pass is Unsaid, and a check without its   *)
(* argument is "unknown", which counts as failed.                          *)
(***************************************************************************)
EXTENDS Naturals

CONSTANTS
    MinWeeks,    \* MIN_PAPER_WEEKS
    MinTrades,   \* MIN_PAPER_TRADES
    MaxWeeks,    \* bound of the model: weeks that pass
    MaxOrders    \* bound of the model: submissions

VARIABLES
    weeks,      \* since the first paper equity snapshot
    trades,     \* closed paper trades
    world,      \* what the checks can observe
    mode,       \* settings.trading_mode of the running process
    engine,     \* "down", "running" or "paused" (it found blockers)
    report,     \* scripts/preflight.py printed that every check passes
    activated,  \* an audited "live.activated"
    placed,     \* orders submitted, by mode
    refused     \* live orders the guard refused

vars == <<weeks, trades, world, mode, engine, report, activated, placed, refused>>

Modes == {"paper", "live"}

\* alerts, limits and keys stand for the settings and secrets those checks read.
World == [diverges : BOOLEAN, data : {"real", "synthetic"},
          shariah : {"certified", "estimate"},
          universe : {"verified", "unverified", "unreadable"},
          holdings : {"none", "fresh", "stale"},
          account : {"cash", "margin", "blocked", "unreachable"},
          flag : BOOLEAN, alerts : BOOLEAN, limits : BOOLEAN,
          keys : {"none", "paper", "live"}]
Best == [diverges |-> FALSE, data |-> "real", shariah |-> "certified",
         universe |-> "verified", holdings |-> "none", account |-> "cash",
         flag |-> FALSE, alerts |-> TRUE, limits |-> TRUE, keys |-> "live"]

Init ==
    /\ weeks = 0 /\ trades = 0
    /\ world = Best
    /\ mode \in Modes
    /\ engine = "down"
    /\ report = FALSE /\ activated = FALSE
    /\ placed = [m \in Modes |-> 0]
    /\ refused = 0
-----------------------------------------------------------------------------
(* The twelve checks.                                                      *)

Pass(condition) == IF condition THEN "pass" ELSE "fail"
Told(args, what, verdict) == IF what \in args THEN verdict ELSE "unknown"

PaperDuration == Pass(weeks >= MinWeeks)
PaperTradeCount == Pass(trades >= MinTrades)
PaperVsBacktest(args) ==
    Told(args, "backtest", IF weeks = 0 THEN "unknown" ELSE Pass(~world.diverges))
NoSyntheticData(args) == Told(args, "data", Pass(world.data = "real"))
CertifiedProvider(args) == Told(args, "shariah", Pass(world.shariah = "certified"))
UniverseVerified ==
    IF world.universe = "unreadable" THEN "unknown"
    ELSE Pass(world.universe = "verified")
HoldingsScreened(args) == Pass("held" \notin args \/ world.holdings # "stale")
CashAccount(args) ==
    Told(args, "broker", IF world.account = "unreachable" THEN "unknown"
                         ELSE Pass(world.account = "cash"))
KillFlagClear == Pass(~world.flag)
AlertingConfigured == Pass(world.alerts)
RiskLimitsSane == Pass(world.limits)
CredentialsMatchMode == Pass(world.keys = "live")

\* PreflightChecklist.critical_only.  An account without positions has no
\* critical holdings check, and passes it anyway.
CriticalPass(args) ==
    /\ NoSyntheticData(args) = "pass"
    /\ CertifiedProvider(args) = "pass"
    /\ UniverseVerified = "pass"
    /\ HoldingsScreened(args) = "pass"
    /\ CashAccount(args) = "pass"
    /\ KillFlagClear = "pass"
    /\ CredentialsMatchMode = "pass"

\* PreflightChecklist.evaluate and PreflightReport.passed.
AllPass(args) ==
    /\ PaperDuration = "pass"
    /\ PaperTradeCount = "pass"
    /\ PaperVsBacktest(args) = "pass"
    /\ AlertingConfigured = "pass"
    /\ RiskLimitsSane = "pass"
    /\ CriticalPass(args)

\* What each caller passes.
FromScript == {"broker", "data", "shariah", "held", "backtest"}
FromDashboard == {"broker", "data", "shariah", "held"}
FromRunner == {"broker", "data", "shariah", "held"}
FromOrderManager == {"broker"}
Everything == FromScript
-----------------------------------------------------------------------------
(* What happens.                                                           *)

Week ==
    /\ weeks < MaxWeeks
    /\ weeks' = weeks + 1
    /\ \E closed \in {0, MinTrades} : trades' = trades + closed
    /\ UNCHANGED <<world, mode, engine, report, activated, placed, refused>>

\* Accounts, screens, files, flags and settings change under a running process.
\* Bound of the model: at most one thing is wrong at a time.
WorldChanges ==
    /\ \E w \in World :
          /\ \E field \in DOMAIN Best : w = [Best EXCEPT ![field] = w[field]]
          /\ world' = w
    /\ UNCHANGED <<weeks, trades, mode, engine, report, activated, placed, refused>>

\* scripts/preflight.py, with or without --backtest-return.
RunScript ==
    /\ \E args \in {FromScript, FromScript \ {"backtest"}} : report' = AllPass(args)
    /\ UNCHANGED <<weeks, trades, world, mode, engine, activated, placed, refused>>

\* The button is enabled by one report and pressed on another; the phrase has
\* to match.  LiveActivation.attempt changes the audit log and nothing else.
Attempt(phrase) ==
    /\ AllPass(FromDashboard)
    /\ activated' = (activated \/ (phrase /\ AllPass(FromDashboard)))
    /\ UNCHANGED <<weeks, trades, world, mode, engine, report, placed, refused>>

\* build_engine and EngineRunner.start: blockers of live mode pause the state
\* machine.  The mode comes from the environment, not from an activation.
StartEngine ==
    /\ engine = "down"
    /\ mode' \in Modes
    /\ engine' = IF mode' = "live" /\ ~AllPass(FromRunner) THEN "paused" ELSE "running"
    /\ UNCHANGED <<weeks, trades, world, report, activated, placed, refused>>

StopEngine ==
    /\ engine # "down"
    /\ engine' = "down"
    /\ UNCHANGED <<weeks, trades, world, mode, report, activated, placed, refused>>

\* OrderManager._submit, for an entry or an exit: cycles run in every state of
\* the machine, and the guard only looks in live mode.
Guarded == mode = "live" /\ ~CriticalPass(FromOrderManager)

SubmitRefused ==
    /\ engine # "down"
    /\ refused < MaxOrders
    /\ Guarded
    /\ refused' = refused + 1
    /\ UNCHANGED <<weeks, trades, world, mode, engine, report, activated, placed>>

Submit ==
    /\ engine # "down"
    /\ placed[mode] < MaxOrders
    /\ ~Guarded
    /\ placed' = [placed EXCEPT ![mode] = @ + 1]
    /\ UNCHANGED <<weeks, trades, world, mode, engine, report, activated, refused>>

Next ==
    \/ Week \/ WorldChanges \/ RunScript
    \/ \E phrase \in BOOLEAN : Attempt(phrase)
    \/ StartEngine \/ StopEngine
    \/ SubmitRefused \/ Submit

Spec == Init /\ [][Next]_vars
-----------------------------------------------------------------------------
(* Properties.                                                             *)

\* Every variable stays within its range.
TypeOK ==
    /\ weeks \in 0 .. MaxWeeks /\ trades \in Nat
    /\ world \in World
    /\ mode \in Modes
    /\ engine \in {"down", "running", "paused"}
    /\ report \in BOOLEAN /\ activated \in BOOLEAN
    /\ placed \in [Modes -> Nat] /\ refused \in Nat

\* LiveGuard.assert_order_permitted says it refuses a live order "if any
\* critical condition has changed": so not while all of them hold.
RefusedForACause ==
    [][refused' # refused => ~CriticalPass(Everything)]_vars

\* The order manager names the broker and nothing else, so that the data and
\* the screening provider are unknown to every check it makes: no live order,
\* not even an exit, is ever submitted.
NoLiveOrder == placed["live"] = 0

\* The dashboard and the engine's start pass no backtest return, so that the
\* checklist cannot pass for either of them.
NeverActivated == ~activated /\ (engine = "running" => mode = "paper")
=============================================================================
