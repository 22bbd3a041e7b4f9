-------------------------------- MODULE Orders --------------------------------
(***************************************************************************)
(* execution/order_manager.py over execution/alpaca_broker.py: the orders  *)
(* table, the broker's book, and the engine processes that place and       *)
(* reconcile orders.  An idempotency key names one (symbol, side, intent,  *)
(* day).  Two processes may share the database and the broker account:     *)
(* the daemon of scripts/run_engine.py and the same script with --once.    *)
(*                                                                         *)
(* A cycle (engine/loop.py) reconciles, cancels stale orders, then places. *)
(* A process makes one database transaction or one broker call per step,   *)
(* so the other process can move between any two of them.                  *)
(*                                                                         *)
(* Abstractions: quantities and prices are left out; "open" stands for     *)
(* every unfilled working status of the broker and "cancelled" for every   *)
(* end without a complete fill.  A refusal before the row is inserted      *)
(* (gate, live guard, fractional rule, duplicate) leaves no trace and is   *)
(* a Pass.  AtMostOneSubmission makes the branch of submit_order that      *)
(* finds the key already at the broker unreachable, and WriteAhead the     *)
(* early return of _update for a missing row, so neither is here.          *)
(***************************************************************************)
EXTENDS Naturals, FiniteSets

CONSTANTS
    Procs,     \* engine processes
    Daemon,    \* the one whose schedule never stops
    Keys,      \* idempotency keys
    MaxFaults  \* bound of the model: crashes, timeouts and failed reads

ASSUME OrderAssumption ==
    /\ Daemon \in Procs
    /\ MaxFaults \in Nat

VARIABLES
    orders,  \* the orders table, by key
    broker,  \* the broker's book, by client_order_id
    calls,   \* broker.submit_order calls made so far, by key
    pc,      \* where each process is in its cycle
    todo,    \* keys the current step of the cycle has still to handle
    work,    \* the key a process is handling
    answer,  \* the broker's answer it holds and has not written yet
    faults   \* faults so far

vars == <<orders, broker, calls, pc, todo, work, answer, faults>>

Working  == {"open", "partial"}
Finished == {"filled", "cancelled"}

\* A row: no row, recorded and pending, or what the broker last answered.
\* known says that broker_order_id is not NULL.
Row   == [status: {"none", "pending", "rejected"} \cup Working \cup Finished,
          known: BOOLEAN]
NoRow == [status |-> "none", known |-> FALSE]

Answer   == [status: {"rejected"} \cup Working \cup Finished, known: BOOLEAN]
Rejected == [status |-> "rejected", known |-> FALSE]
Seen(s)  == [status |-> s, known |-> TRUE]

Steps == {"idle", "reconcile", "write", "stale", "place", "record", "submit", "update"}

Init ==
    /\ orders = [k \in Keys |-> NoRow]
    /\ broker = [k \in Keys |-> "none"]
    /\ calls = [k \in Keys |-> 0]
    /\ pc = [p \in Procs |-> "idle"]
    /\ todo = [p \in Procs |-> {}]
    /\ work \in [Procs -> Keys]
    /\ answer = [p \in Procs |-> Rejected]
    /\ faults = 0

-----------------------------------------------------------------------------
\* Definitions named ...Mutant are plausible bugs in the code the next
\* definition models; no specification uses them.

\* The status filter forgets partially filled orders.
ReconcilableMutant ==
    {k \in Keys : orders[k].status \in {"pending", "open"} /\ orders[k].known}

\* reconcile reads the rows that are not terminal once; rows without a broker
\* id are passed over.
Reconcilable ==
    {k \in Keys : orders[k].status \in {"pending"} \cup Working /\ orders[k].known}

StartCycle(p) ==
    /\ pc[p] = "idle"
    /\ pc' = [pc EXCEPT ![p] = "reconcile"]
    /\ todo' = [todo EXCEPT ![p] = Reconcilable]
    /\ UNCHANGED <<orders, broker, calls, work, answer, faults>>

\* broker.get_order, then _update in a transaction of its own.
Fetch(p, k) ==
    /\ pc[p] = "reconcile"
    /\ k \in todo[p]
    /\ pc' = [pc EXCEPT ![p] = "write"]
    /\ todo' = [todo EXCEPT ![p] = @ \ {k}]
    /\ work' = [work EXCEPT ![p] = k]
    /\ answer' = [answer EXCEPT ![p] = Seen(broker[k])]
    /\ UNCHANGED <<orders, broker, calls, faults>>

\* An order the broker cannot show is taken for cancelled.
FetchFailedMutant(p, k) ==
    /\ pc[p] = "reconcile"
    /\ k \in todo[p]
    /\ faults < MaxFaults
    /\ todo' = [todo EXCEPT ![p] = @ \ {k}]
    /\ orders' = [orders EXCEPT ![k] = Seen("cancelled")]
    /\ faults' = faults + 1
    /\ UNCHANGED <<broker, calls, pc, work, answer>>

\* get_order answers None to any error: the row is left for the next cycle.
FetchFailed(p, k) ==
    /\ pc[p] = "reconcile"
    /\ k \in todo[p]
    /\ faults < MaxFaults
    /\ todo' = [todo EXCEPT ![p] = @ \ {k}]
    /\ faults' = faults + 1
    /\ UNCHANGED <<orders, broker, calls, pc, work, answer>>

WriteBack(p) ==
    /\ pc[p] = "write"
    /\ orders' = [orders EXCEPT ![work[p]] = answer[p]]
    /\ pc' = [pc EXCEPT ![p] = "reconcile"]
    /\ UNCHANGED <<broker, calls, todo, work, answer, faults>>

EndReconcile(p) ==
    /\ pc[p] = "reconcile"
    /\ todo[p] = {}
    /\ pc' = [pc EXCEPT ![p] = "stale"]
    /\ UNCHANGED <<orders, broker, calls, todo, work, answer, faults>>

\* cancel_stale_orders: the broker's book changes, the table does not.
CancelStale(p, k) ==
    /\ pc[p] = "stale"
    /\ broker[k] \in Working
    /\ broker' = [broker EXCEPT ![k] = "cancelled"]
    /\ UNCHANGED <<orders, calls, pc, todo, work, answer, faults>>

EndStale(p) ==
    /\ pc[p] = "stale"
    /\ pc' = [pc EXCEPT ![p] = "place"]
    /\ todo' = [todo EXCEPT ![p] = Keys]
    /\ UNCHANGED <<orders, broker, calls, work, answer, faults>>

-----------------------------------------------------------------------------
\* The broker is called first and the row inserted never.
ConsiderMutant(p, k) ==
    /\ pc[p] = "place"
    /\ k \in todo[p]
    /\ orders[k] = NoRow
    /\ pc' = [pc EXCEPT ![p] = "submit"]
    /\ todo' = [todo EXCEPT ![p] = @ \ {k}]
    /\ work' = [work EXCEPT ![p] = k]
    /\ UNCHANGED <<orders, broker, calls, answer, faults>>

\* open_position or close_position past _already_placed and every gate.
Consider(p, k) ==
    /\ pc[p] = "place"
    /\ k \in todo[p]
    /\ orders[k] = NoRow
    /\ pc' = [pc EXCEPT ![p] = "record"]
    /\ todo' = [todo EXCEPT ![p] = @ \ {k}]
    /\ work' = [work EXCEPT ![p] = k]
    /\ UNCHANGED <<orders, broker, calls, answer, faults>>

\* The question does not come up in this cycle, or ends in a refusal.
Pass(p, k) ==
    /\ pc[p] = "place"
    /\ k \in todo[p]
    /\ todo' = [todo EXCEPT ![p] = @ \ {k}]
    /\ UNCHANGED <<orders, broker, calls, pc, work, answer, faults>>

\* The unique constraint is missing: the second insert replaces the first.
RecordMutant(p) ==
    /\ pc[p] = "record"
    /\ orders' = [orders EXCEPT ![work[p]] = [status |-> "pending", known |-> FALSE]]
    /\ pc' = [pc EXCEPT ![p] = "submit"]
    /\ UNCHANGED <<broker, calls, todo, work, answer, faults>>

\* _record under the unique constraint on the key.
Record(p) ==
    /\ pc[p] = "record"
    /\ orders[work[p]] = NoRow
    /\ orders' = [orders EXCEPT ![work[p]] = [status |-> "pending", known |-> FALSE]]
    /\ pc' = [pc EXCEPT ![p] = "submit"]
    /\ UNCHANGED <<broker, calls, todo, work, answer, faults>>

\* IntegrityError: another process recorded the key after the check.
RecordDuplicate(p) ==
    /\ pc[p] = "record"
    /\ orders[work[p]] # NoRow
    /\ pc' = [pc EXCEPT ![p] = "place"]
    /\ UNCHANGED <<orders, broker, calls, todo, work, answer, faults>>

\* broker.submit_order: the answer and the book agree.
SubmitAccepted(p, s) ==
    /\ pc[p] = "submit"
    /\ broker' = [broker EXCEPT ![work[p]] = s]
    /\ answer' = [answer EXCEPT ![p] = Seen(s)]
    /\ calls' = [calls EXCEPT ![work[p]] = @ + 1]
    /\ pc' = [pc EXCEPT ![p] = "update"]
    /\ UNCHANGED <<orders, todo, work, faults>>

\* Not a cash account, or the broker says no: rejected, without an id.
SubmitRefused(p) ==
    /\ pc[p] = "submit"
    /\ answer' = [answer EXCEPT ![p] = Rejected]
    /\ calls' = [calls EXCEPT ![work[p]] = @ + 1]
    /\ pc' = [pc EXCEPT ![p] = "update"]
    /\ UNCHANGED <<orders, broker, todo, work, faults>>

\* The lost answer is stored as a status the table does not have.
SubmitTimedOutMutant(p) ==
    /\ pc[p] = "submit"
    /\ faults < MaxFaults
    /\ broker' = [broker EXCEPT ![work[p]] = "open"]
    /\ answer' = [answer EXCEPT ![p] = [status |-> "unknown", known |-> FALSE]]
    /\ calls' = [calls EXCEPT ![work[p]] = @ + 1]
    /\ pc' = [pc EXCEPT ![p] = "update"]
    /\ faults' = faults + 1
    /\ UNCHANGED <<orders, todo, work>>

\* The order reaches the book but the answer is lost: submit_order turns every
\* exception into a rejection without an id.
SubmitTimedOut(p) ==
    /\ pc[p] = "submit"
    /\ faults < MaxFaults
    /\ broker' = [broker EXCEPT ![work[p]] = "open"]
    /\ answer' = [answer EXCEPT ![p] = Rejected]
    /\ calls' = [calls EXCEPT ![work[p]] = @ + 1]
    /\ pc' = [pc EXCEPT ![p] = "update"]
    /\ faults' = faults + 1
    /\ UNCHANGED <<orders, todo, work>>

Update(p) ==
    /\ pc[p] = "update"
    /\ orders' = [orders EXCEPT ![work[p]] = answer[p]]
    /\ pc' = [pc EXCEPT ![p] = "place"]
    /\ UNCHANGED <<broker, calls, todo, work, answer, faults>>

EndCycle(p) ==
    /\ pc[p] = "place"
    /\ todo[p] = {}
    /\ pc' = [pc EXCEPT ![p] = "idle"]
    /\ UNCHANGED <<orders, broker, calls, todo, work, answer, faults>>

\* The process dies, or an exception unwinds to the cycle's handler.
Crash(p) ==
    /\ pc[p] # "idle"
    /\ faults < MaxFaults
    /\ pc' = [pc EXCEPT ![p] = "idle"]
    /\ todo' = [todo EXCEPT ![p] = {}]
    /\ faults' = faults + 1
    /\ UNCHANGED <<orders, broker, calls, work, answer>>

\* The market, or a person at the broker's site, works the book.
BrokerMoves(k, s) ==
    /\ broker[k] \in Working
    /\ s # broker[k]
    /\ s # "open"
    /\ broker' = [broker EXCEPT ![k] = s]
    /\ UNCHANGED <<orders, calls, pc, todo, work, answer, faults>>

\* The steps the schedule and the event loop carry out on their own.
Advance(p) ==
    \/ StartCycle(p)
    \/ \E k \in Keys : Fetch(p, k)
    \/ WriteBack(p)
    \/ EndReconcile(p)
    \/ EndStale(p)
    \/ \E k \in Keys : Pass(p, k)
    \/ Record(p)
    \/ RecordDuplicate(p)
    \/ \E s \in {"open", "filled"} : SubmitAccepted(p, s)
    \/ SubmitRefused(p)
    \/ Update(p)
    \/ EndCycle(p)

Next ==
    \/ \E p \in Procs :
          \/ Advance(p)
          \/ \E k \in Keys : FetchFailed(p, k) \/ CancelStale(p, k) \/ Consider(p, k)
          \/ SubmitTimedOut(p)
          \/ Crash(p)
    \/ \E k \in Keys, s \in Working \cup Finished : BrokerMoves(k, s)

Spec == Init /\ [][Next]_vars

\* The cron job starts the daemon's cycle on every trading day and each step of
\* a cycle ends; nothing else is promised, neither a fill nor an order.
FairSpec == Spec /\ WF_vars(Advance(Daemon))

-----------------------------------------------------------------------------
\* The table, the book and the processes hold the values they should.
TypeOK ==
    /\ orders \in [Keys -> Row]
    /\ broker \in [Keys -> {"none"} \cup Working \cup Finished]
    /\ calls \in [Keys -> Nat]
    /\ pc \in [Procs -> Steps]
    /\ todo \in [Procs -> SUBSET Keys]
    /\ work \in [Procs -> Keys]
    /\ answer \in [Procs -> Answer]
    /\ faults \in 0 .. MaxFaults

\* "A retry after an ambiguous timeout cannot place a second order": however
\* processes race between the check and the insert, crash and start again, the
\* broker is asked at most once per key.
AtMostOneSubmission == \A k \in Keys : calls[k] <= 1

\* "The key is written to the database before the broker is called": no order
\* is at the broker without a row that names it.
WriteAhead == \A k \in Keys : calls[k] > 0 => orders[k] # NoRow

\* A row that will never be reconciled again because it reads filled or
\* cancelled is right about the broker, in spite of answers written late and
\* out of order by two processes.
TruthfulTerminal ==
    \A k \in Keys : orders[k].status \in Finished => broker[k] = orders[k].status

\* A key is recorded, then submitted once, and whatever two processes write about
\* it, late and out of order, the table never runs ahead of the order; only a
\* rejection can be untrue, and it is the last word.
Promise == INSTANCE OrderPromise WITH
               row <- [k \in Keys |-> orders[k].status],
               asked <- [k \in Keys |-> calls[k] > 0],
               book <- broker
KeepsThePromise == Promise!Spec

\* "Broker state wins", where it can: once the broker is done with an order
\* whose broker id the table knows, the table says so and goes on saying so,
\* even if another process still writes an older answer in between.
KnownOrdersCatchUp ==
    \A k \in Keys :
       (orders[k].known /\ broker[k] \in Finished)
          ~> [](orders[k].status = broker[k])
=============================================================================
