-------------------------------- MODULE Engine --------------------------------
(***************************************************************************)
(* Who decides whether the engine may trade: engine/state.py (the state of *)
(* one process), risk/manager.py (the risk manager's own pause), the       *)
(* runner that builds, starts and stops a process (engine/runner.py,       *)
(* scripts/run_engine.py), the confirmed Telegram commands                 *)
(* (telegram/controls.py) and the kill flag the dashboard keeps in the     *)
(* settings table for the processes it does not share memory with          *)
(* (ui/controls.py, services/settings_service.py).                         *)
(*                                                                         *)
(* A trading cycle never awaits anything that suspends, so within its      *)
(* process it is one action; here it is reduced to its decision to open    *)
(* positions or not, for an autonomy level that places orders by itself.   *)
(* The dashboard is another process and can act between any two steps.     *)
(* Its own EngineStateMachine is thrown away after the page is rendered    *)
(* and is not modelled.                                                    *)
(***************************************************************************)
EXTENDS Naturals

CONSTANTS
    Procs,       \* engine processes
    Attached,    \* whether ControlCommands.engine is set; nothing in the repository does
    MaxEntries   \* bound of the model: entries opened

ASSUME EngineAssumption ==
    /\ Attached \in BOOLEAN
    /\ MaxEntries \in Nat

VARIABLES
    flag,      \* "kill_requested" in settings_overrides
    dashboard, \* "acted" between the kill switch's broker calls and the flag
    breached,  \* the account is beyond the drawdown limit
    state,     \* EngineStateMachine.state of each process, or "down"
    blocked,   \* EngineRunner.blockers is not empty
    halted,    \* RiskManager._paused
    stops,     \* why the process was told, or decided, to stop opening positions
    entries    \* positions opened so far by each process

vars == <<flag, dashboard, breached, state, blocked, halted, stops, entries>>

States == {"down", "idle", "running", "paused", "killed"}

Init ==
    /\ flag = FALSE
    /\ dashboard = "idle"
    /\ breached \in BOOLEAN
    /\ state = [p \in Procs |-> "down"]
    /\ blocked = [p \in Procs |-> FALSE]
    /\ halted = [p \in Procs |-> FALSE]
    /\ stops = [p \in Procs |-> {}]
    /\ entries = [p \in Procs |-> 0]

\* A new process has a state machine and a risk manager of its own, so every
\* earlier pause is forgotten.
Forget(p) ==
    /\ halted' = [halted EXCEPT ![p] = FALSE]
    /\ stops' = [stops EXCEPT ![p] = {}]

-----------------------------------------------------------------------------
\* build_engine: the kill flag is read here and nowhere else; the other
\* blockers (margin account, unverified universe, ...) are a choice.
Build(p) ==
    /\ state[p] = "down"
    /\ state' = [state EXCEPT ![p] = "idle"]
    /\ \E other \in BOOLEAN : blocked' = [blocked EXCEPT ![p] = flag \/ other]
    /\ Forget(p)
    /\ UNCHANGED <<flag, dashboard, breached, entries>>

\* Definitions named ...Mutant are plausible bugs in the code the next
\* definition models; no specification uses them.

\* The blocked engine gets a state the state machine does not have.
StartMutant(p) ==
    /\ state[p] = "idle"
    /\ state' = [state EXCEPT ![p] = IF blocked[p] THEN "blocked" ELSE "running"]
    /\ UNCHANGED <<flag, dashboard, breached, blocked, halted, stops, entries>>

\* EngineRunner.start: the blockers pause the state machine, not the risk manager.
Start(p) ==
    /\ state[p] = "idle"
    /\ state' = [state EXCEPT ![p] = IF blocked[p] THEN "paused" ELSE "running"]
    /\ UNCHANGED <<flag, dashboard, breached, blocked, halted, stops, entries>>

\* _consider_entries with RiskManager.state: a breached drawdown limit pauses
\* the risk manager; the engine's own state is not consulted.  A refusal for
\* any other reason opens nothing.
Decide(p) ==
    /\ stops' = IF breached THEN [stops EXCEPT ![p] = @ \cup {"drawdown"}] ELSE stops
    /\ halted' = [halted EXCEPT ![p] = @ \/ breached]
    /\ \/ UNCHANGED entries
       \/ /\ ~halted'[p]
          /\ entries[p] < MaxEntries
          /\ entries' = [entries EXCEPT ![p] = @ + 1]

\* run_once from the scheduler: in any state it logs "cycle_skipped" at most.
Cycle(p) ==
    /\ state[p] \in {"running", "paused", "killed"}
    /\ Decide(p)
    /\ UNCHANGED <<flag, dashboard, breached, state, blocked>>

\* run_engine.py --once: one cycle in the state the process was built in.
Once(p) ==
    /\ state[p] = "idle"
    /\ Decide(p)
    /\ state' = [state EXCEPT ![p] = "down"]
    /\ UNCHANGED <<flag, dashboard, breached, blocked>>

\* Only the engine's state is set, as EngineRunner.start does.
PauseMutant(p) ==
    /\ Attached
    /\ state[p] \in {"running", "paused", "killed"}
    /\ state' = [state EXCEPT ![p] = IF @ = "killed" THEN @ ELSE "paused"]
    /\ stops' = [stops EXCEPT ![p] = @ \cup {"operator"}]
    /\ UNCHANGED <<flag, dashboard, breached, blocked, halted, entries>>

\* A confirmed /pause: both pauses, and the answer is always "Engine paused".
Pause(p) ==
    /\ Attached
    /\ state[p] \in {"running", "paused", "killed"}
    /\ state' = [state EXCEPT ![p] = IF @ = "killed" THEN @ ELSE "paused"]
    /\ halted' = [halted EXCEPT ![p] = TRUE]
    /\ stops' = [stops EXCEPT ![p] = @ \cup {"operator"}]
    /\ UNCHANGED <<flag, dashboard, breached, blocked, entries>>

\* The risk manager stays paused.
ResumeHalfMutant(p) ==
    /\ Attached
    /\ state[p] = "paused"
    /\ state' = [state EXCEPT ![p] = "running"]
    /\ stops' = [stops EXCEPT ![p] = {}]
    /\ UNCHANGED <<flag, dashboard, breached, blocked, halted, entries>>

\* A confirmed /resume: refused unless the engine's own state is paused, even
\* if only the risk manager is.
Resume(p) ==
    /\ Attached
    /\ state[p] = "paused"
    /\ state' = [state EXCEPT ![p] = "running"]
    /\ Forget(p)
    /\ UNCHANGED <<flag, dashboard, breached, blocked, entries>>

\* A confirmed /kill: KillSwitch.activate in the engine's process.
Kill(p) ==
    /\ Attached
    /\ state[p] \in {"running", "paused", "killed"}
    /\ state' = [state EXCEPT ![p] = "killed"]
    /\ UNCHANGED <<flag, dashboard, breached, blocked, halted, stops, entries>>

\* The dashboard's flag is polled instead of the state.
UntilKilledMutant(p) ==
    /\ state[p] = "killed"
    /\ flag
    /\ state' = [state EXCEPT ![p] = "down"]
    /\ UNCHANGED <<flag, dashboard, breached, blocked, halted, stops, entries>>

\* run_forever polls for the killed state and stops.
UntilKilled(p) ==
    /\ state[p] = "killed"
    /\ state' = [state EXCEPT ![p] = "down"]
    /\ UNCHANGED <<flag, dashboard, breached, blocked, halted, stops, entries>>

\* SIGTERM, SIGINT or a crash.
Stop(p) ==
    /\ state[p] # "down"
    /\ state' = [state EXCEPT ![p] = "down"]
    /\ UNCHANGED <<flag, dashboard, breached, blocked, halted, stops, entries>>

-----------------------------------------------------------------------------
\* The dashboard: the kill switch first works on the broker, then persists
\* the flag; the page may die in between.
KillFromDashboard ==
    /\ dashboard = "idle"
    /\ dashboard' = "acted"
    /\ UNCHANGED <<flag, breached, state, blocked, halted, stops, entries>>

RequestKill ==
    /\ dashboard = "acted"
    /\ dashboard' = "idle"
    /\ flag' = TRUE
    /\ UNCHANGED <<breached, state, blocked, halted, stops, entries>>

DashboardDies ==
    /\ dashboard = "acted"
    /\ dashboard' = "idle"
    /\ UNCHANGED <<flag, breached, state, blocked, halted, stops, entries>>

ClearKill ==
    /\ dashboard = "idle"
    /\ flag
    /\ flag' = FALSE
    /\ UNCHANGED <<dashboard, breached, state, blocked, halted, stops, entries>>

\* The market moves the account's equity.
EquityMoves ==
    /\ breached' = ~breached
    /\ UNCHANGED <<flag, dashboard, state, blocked, halted, stops, entries>>

Next ==
    \/ \E p \in Procs :
          \/ Build(p) \/ Start(p) \/ Cycle(p) \/ Once(p)
          \/ Pause(p) \/ Resume(p) \/ Kill(p)
          \/ UntilKilled(p) \/ Stop(p)
    \/ KillFromDashboard \/ RequestKill \/ DashboardDies \/ ClearKill
    \/ EquityMoves

Spec == Init /\ [][Next]_vars

\* The scheduler runs its cycle on every trading day, run_forever polls every
\* second.  Nobody is obliged to pause, resume, stop or restart anything.
FairSpec ==
    /\ Spec
    /\ \A p \in Procs : WF_vars(Start(p)) /\ WF_vars(Cycle(p)) /\ WF_vars(UntilKilled(p))

-----------------------------------------------------------------------------
\* The flag, the processes and their pauses hold the values they should.
TypeOK ==
    /\ flag \in BOOLEAN
    /\ dashboard \in {"idle", "acted"}
    /\ breached \in BOOLEAN
    /\ state \in [Procs -> States]
    /\ blocked \in [Procs -> BOOLEAN]
    /\ halted \in [Procs -> BOOLEAN]
    /\ stops \in [Procs -> SUBSET {"operator", "drawdown"}]
    /\ entries \in [Procs -> 0 .. MaxEntries]

\* An operator's pause and a drawdown breach stop new positions from the moment
\* they are confirmed or seen until an operator resumes or the process starts
\* again, whatever the equity does in between.
NoEntryWhileStopped ==
    [][\A p \in Procs : entries'[p] # entries[p] => stops[p] = {}]_vars

\* The two pauses tell one story: a process that reads "running" is held back
\* by its risk manager only for a drawdown it has seen, never for a pause that
\* was lifted on one side alone.
RunningIsNotHeldBack ==
    \A p \in Procs :
       state[p] = "running" /\ halted[p] => "drawdown" \in stops[p]

\* "A stray /resume cannot undo it": a killed process can only end.
KilledIsTerminal ==
    [][\A p \in Procs : state[p] = "killed" => state'[p] \in {"killed", "down"}]_vars

\* A killed process does end, without a signal.
KilledStops == \A p \in Procs : state[p] = "killed" ~> state[p] = "down"

\* ui/controls.py:82, "The engine will refuse to trade, in this process and any
\* other, until this is cleared": nothing is opened while the flag is set.
NoEntryWhileFlagged ==
    [][\A p \in Procs : entries'[p] # entries[p] => ~flag]_vars
=============================================================================
