---------------------------- MODULE Engine_proofs ----------------------------
(***************************************************************************)
(* Proofs about Engine.tla for any set of processes and any bound.         *)
(*                                                                         *)
(* RunningIsNotHeldBack is not inductive: Start makes a process running,   *)
(* so it needs that a freshly built one is not halted (Fresh); and the     *)
(* entries of a halted process are excluded through its reasons only       *)
(* because the two always agree (HaltedHasReason).                         *)
(***************************************************************************)
EXTENDS Engine, TLAPS

\* The risk manager is paused exactly while there is a reason for it.
HaltedHasReason == \A p \in Procs : halted[p] <=> stops[p] # {}

\* A process that was built and not started yet is not paused.
Fresh == \A p \in Procs : state[p] = "idle" => ~halted[p]

IInv == TypeOK /\ HaltedHasReason /\ Fresh /\ RunningIsNotHeldBack

\* The initial states satisfy the inductive invariant.
LEMMA InitIInv == Init => IInv
<1> SUFFICES ASSUME Init PROVE IInv
  OBVIOUS
<1>1. \A p \in Procs : state[p] = "down" /\ ~halted[p] /\ stops[p] = {}
  BY DEF Init
<1>2. stops \in [Procs -> SUBSET {"operator", "drawdown"}]
  BY DEF Init
<1>3. halted \in [Procs -> BOOLEAN] /\ blocked \in [Procs -> BOOLEAN]
  BY DEF Init
<1>4. state \in [Procs -> States] /\ entries \in [Procs -> 0 .. MaxEntries]
  BY EngineAssumption DEF Init, EngineAssumption, States
<1>5. TypeOK
  BY <1>2, <1>3, <1>4 DEF Init, TypeOK
<1>6. HaltedHasReason /\ Fresh /\ RunningIsNotHeldBack
  BY <1>1 DEF HaltedHasReason, Fresh, RunningIsNotHeldBack
<1> QED
  BY <1>5, <1>6 DEF IInv

\* What the steps of a process and of the dashboard do to what the invariant
\* is about: one step per action.
LEMMA StepIInv == IInv /\ [Next]_vars => IInv'
<1> SUFFICES ASSUME IInv, [Next]_vars PROVE IInv'
  OBVIOUS
<1> USE EngineAssumption DEF IInv, TypeOK, HaltedHasReason, Fresh,
                             RunningIsNotHeldBack, States
<1>1. ASSUME NEW p \in Procs, Build(p) PROVE IInv'
  BY <1>1 DEF Build, Forget
<1>2. ASSUME NEW p \in Procs, Start(p) PROVE IInv'
  BY <1>2 DEF Start
<1>3. ASSUME NEW p \in Procs, Cycle(p) PROVE IInv'
  BY <1>3 DEF Cycle, Decide
<1>4. ASSUME NEW p \in Procs, Once(p) PROVE IInv'
  BY <1>4 DEF Once, Decide
<1>5. ASSUME NEW p \in Procs, Pause(p) PROVE IInv'
  BY <1>5 DEF Pause
<1>6. ASSUME NEW p \in Procs, Resume(p) PROVE IInv'
  BY <1>6 DEF Resume, Forget
<1>7. ASSUME NEW p \in Procs, Kill(p) \/ UntilKilled(p) \/ Stop(p) PROVE IInv'
  BY <1>7 DEF Kill, UntilKilled, Stop
<1>8. ASSUME KillFromDashboard \/ RequestKill \/ DashboardDies \/ ClearKill PROVE IInv'
  BY <1>8 DEF KillFromDashboard, RequestKill, DashboardDies, ClearKill
<1>9. ASSUME EquityMoves PROVE IInv'
  BY <1>9 DEF EquityMoves
<1>10. ASSUME UNCHANGED vars PROVE IInv'
  BY <1>10 DEF vars
<1> QED
  BY <1>1, <1>2, <1>3, <1>4, <1>5, <1>6, <1>7, <1>8, <1>9, <1>10 DEF Next

\* The inductive invariant holds in every reachable state.
LEMMA EngineInvariant == Spec => []IInv
  BY InitIInv, StepIInv, PTL DEF Spec

-----------------------------------------------------------------------------
\* Every variable keeps its type, whatever the number of processes.
THEOREM EngineTypeCorrect == Spec => []TypeOK
<1>1. IInv => TypeOK
  BY DEF IInv
<1> QED
  BY <1>1, EngineInvariant, PTL

\* A running process is held back only by a drawdown it has seen.
THEOREM PausesAgree == Spec => []RunningIsNotHeldBack
<1>1. IInv => RunningIsNotHeldBack
  BY DEF IInv
<1> QED
  BY <1>1, EngineInvariant, PTL

\* Nothing is opened between a confirmed pause, or a breach that was seen, and
\* the resume or restart that ends it.  Only a cycle opens positions, and it
\* looks at the risk manager's pause, which stands as long as its reasons do.
THEOREM StoppedOpensNothing == Spec => NoEntryWhileStopped
<1>1. ASSUME IInv, [Next]_vars
      PROVE  [\A p \in Procs : entries'[p] # entries[p] => stops[p] = {}]_vars
  <2> SUFFICES ASSUME NEW p \in Procs, entries'[p] # entries[p]
               PROVE  stops[p] = {}
    OBVIOUS
  <2>1. PICK q \in Procs : Cycle(q) \/ Once(q)
    BY <1>1 DEF Next, vars, Build, Start, Pause, Resume, Kill, UntilKilled, Stop,
                KillFromDashboard, RequestKill, DashboardDies, ClearKill, EquityMoves
  <2>2. Decide(q)
    BY <2>1 DEF Cycle, Once
  <2>3. q = p /\ ~halted'[q]
    BY <1>1, <2>2 DEF Decide, IInv, TypeOK
  <2>4. ~halted[p]
    BY <1>1, <2>2, <2>3 DEF Decide, IInv, TypeOK
  <2> QED
    BY <1>1, <2>4 DEF IInv, HaltedHasReason
<1> QED
  BY <1>1, EngineInvariant, PTL DEF Spec, NoEntryWhileStopped

\* No command and no scheduled job brings a killed process back to life.
THEOREM KilledStaysKilled == Spec => KilledIsTerminal
<1>1. ASSUME IInv, [Next]_vars
      PROVE  [\A p \in Procs : state[p] = "killed" => state'[p] \in {"killed", "down"}]_vars
  <2> SUFFICES ASSUME NEW p \in Procs, state[p] = "killed"
               PROVE  state'[p] \in {"killed", "down"}
    OBVIOUS
  <2>1. state \in [Procs -> States]
    BY <1>1 DEF IInv, TypeOK
  <2>2. ASSUME NEW q \in Procs,
               Build(q) \/ Start(q) \/ Cycle(q) \/ Once(q) \/ Pause(q)
                 \/ Resume(q) \/ Kill(q) \/ UntilKilled(q) \/ Stop(q)
        PROVE  state'[p] \in {"killed", "down"}
    BY <2>1, <2>2 DEF Build, Start, Cycle, Once, Pause, Resume, Kill, UntilKilled, Stop
  <2>3. CASE KillFromDashboard \/ RequestKill \/ DashboardDies \/ ClearKill \/ EquityMoves
    BY <2>3 DEF KillFromDashboard, RequestKill, DashboardDies, ClearKill, EquityMoves
  <2>4. CASE UNCHANGED vars
    BY <2>4 DEF vars
  <2> QED
    BY <1>1, <2>2, <2>3, <2>4 DEF Next
<1> QED
  BY <1>1, EngineInvariant, PTL DEF Spec, KilledIsTerminal
-----------------------------------------------------------------------------
(* LiveGate.tla, for any thresholds and bounds: what the four callers of   *)
(* the checks leave unsaid decides, whatever the world looks like.  A      *)
(* check without its argument is unknown, an unknown check does not pass,  *)
(* so the order manager's check and the dashboard's checklist never pass.  *)
CONSTANTS MinWeeks, MinTrades, MaxWeeks, MaxOrders
VARIABLES weeks, trades, world, mode, engine, report, activated, placed, refused

Gate == INSTANCE LiveGate

Modal == mode \in Gate!Modes /\ placed \in [Gate!Modes -> Nat]
GateInv == Modal /\ Gate!NoLiveOrder /\ Gate!NeverActivated
-----------------------------------------------------------------------------
\* What is not told is unknown, and unknown is not a pass.
LEMMA UntoldFails ==
    ASSUME NEW args, NEW what, NEW verdict, what \notin args
    PROVE  Gate!Told(args, what, verdict) # "pass"
BY DEF Gate!Told

\* The order manager tells neither the data provider nor the screening provider.
LEMMA OrderManagerNeverPasses == ~Gate!CriticalPass(Gate!FromOrderManager)
<1>1. "data" \notin Gate!FromOrderManager
  BY DEF Gate!FromOrderManager
<1>2. Gate!NoSyntheticData(Gate!FromOrderManager) # "pass"
  BY <1>1, UntoldFails DEF Gate!NoSyntheticData
<1> QED
  BY <1>2 DEF Gate!CriticalPass

\* Neither the dashboard nor the engine's start tells a backtest return.
LEMMA WithoutBacktestNeverPasses ==
    ASSUME NEW args, "backtest" \notin args
    PROVE  ~Gate!AllPass(args)
<1>1. Gate!PaperVsBacktest(args) # "pass"
  BY UntoldFails DEF Gate!PaperVsBacktest
<1> QED
  BY <1>1 DEF Gate!AllPass

\* Neither the dashboard nor the start of the engine names a backtest.
LEMMA CallersWithoutBacktest ==
    ~Gate!AllPass(Gate!FromDashboard) /\ ~Gate!AllPass(Gate!FromRunner)
<1>1. "backtest" \notin Gate!FromDashboard /\ "backtest" \notin Gate!FromRunner
  BY DEF Gate!FromDashboard, Gate!FromRunner
<1> QED
  BY <1>1, WithoutBacktestNeverPasses

\* The initial states satisfy the invariant.
LEMMA InitGateInv == Gate!Init => GateInv
BY DEF Gate!Init, GateInv, Modal, Gate!Modes, Gate!NoLiveOrder, Gate!NeverActivated
-----------------------------------------------------------------------------
\* Every step keeps it: one step per action.
LEMMA StepGateInv == GateInv /\ [Gate!Next]_Gate!vars => GateInv'
<1> SUFFICES ASSUME GateInv, [Gate!Next]_Gate!vars PROVE GateInv'
  OBVIOUS
<1> USE DEF GateInv, Modal, Gate!NoLiveOrder, Gate!NeverActivated
<1>1. ASSUME Gate!Week PROVE GateInv'
  BY <1>1 DEF Gate!Week
<1>2. ASSUME Gate!WorldChanges PROVE GateInv'
  BY <1>2 DEF Gate!WorldChanges
<1>3. ASSUME Gate!RunScript PROVE GateInv'
  BY <1>3 DEF Gate!RunScript
<1>4. ASSUME NEW phrase \in BOOLEAN, Gate!Attempt(phrase) PROVE GateInv'
  BY <1>4, CallersWithoutBacktest DEF Gate!Attempt
<1>5. ASSUME Gate!StartEngine PROVE GateInv'
  <2>1. mode' = "live" => engine' = "paused"
    BY <1>5, CallersWithoutBacktest DEF Gate!StartEngine
  <2>2. mode' \in {"paper", "live"}
    BY <1>5 DEF Gate!StartEngine, Gate!Modes
  <2> QED
    BY <1>5, <2>1, <2>2 DEF Gate!StartEngine, Gate!Modes
<1>6. ASSUME Gate!StopEngine PROVE GateInv'
  BY <1>6 DEF Gate!StopEngine
<1>7. ASSUME Gate!SubmitRefused PROVE GateInv'
  BY <1>7 DEF Gate!SubmitRefused
<1>8. ASSUME Gate!Submit PROVE GateInv'
  <2>1. mode = "paper"
    BY <1>8, OrderManagerNeverPasses DEF Gate!Submit, Gate!Guarded, Gate!Modes
  <2> QED
    BY <1>8, <2>1 DEF Gate!Submit, Gate!Modes
<1>9. CASE UNCHANGED Gate!vars
  BY <1>9 DEF Gate!vars
<1> QED
  BY <1>1, <1>2, <1>3, <1>4, <1>5, <1>6, <1>7, <1>8, <1>9 DEF Gate!Next

\* It holds in every reachable state.
LEMMA LiveGateInvariant == Gate!Spec => []GateInv
BY InitGateInv, StepGateInv, PTL DEF Gate!Spec
-----------------------------------------------------------------------------
\* No live order is ever submitted through OrderManager._submit, neither an entry
\* nor an exit, whatever the account, the providers and the screens are.
THEOREM NoLiveOrderEver == Gate!Spec => []Gate!NoLiveOrder
<1>1. GateInv => Gate!NoLiveOrder
  BY DEF GateInv
<1> QED
  BY <1>1, LiveGateInvariant, PTL

\* No activation is ever recorded, and an engine in live mode never starts
\* without a blocker.
THEOREM ActivationNeverSucceeds == Gate!Spec => []Gate!NeverActivated
<1>1. GateInv => Gate!NeverActivated
  BY DEF GateInv
<1> QED
  BY <1>1, LiveGateInvariant, PTL

\* Every live submission is refused, also when everything the guard could look
\* at is in order.
THEOREM EveryLiveSubmissionIsGuarded == mode = "live" => Gate!Guarded
BY OrderManagerNeverPasses DEF Gate!Guarded
=============================================================================
