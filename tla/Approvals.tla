------------------------------ MODULE Approvals ------------------------------
(***************************************************************************)
(* services/approvals.py: the approval state machine over the "approvals"  *)
(* table.  One action per method of ApprovalService, but for create, which *)
(* looks for an earlier round in one transaction and inserts in another.   *)
(* A method ends with an audit insert in a transaction of its own.         *)
(*                                                                         *)
(* Two processes ask: the daemon and run_engine.py --once.  Everything     *)
(* else is the daemon's.  In each of them the methods, like the cycle that *)
(* calls them, never suspend, so only the other process, the clock and a   *)
(* crash come between two transactions.  --once answers nothing and sweeps *)
(* nothing: its bot is stopped before its sweep loop gets a turn.  It only *)
(* adds rows, so a method of the daemon, which reads the rows it writes,   *)
(* is one step although SQLite reads before it locks.                      *)
(*                                                                         *)
(* Abstractions: the payload keeps only the quantity, who answered is left *)
(* out, a tick of the clock stands for any number of minutes.              *)
(***************************************************************************)
EXTENDS Naturals, Sequences

CONSTANTS
    Procs,       \* processes that ask
    Daemon,      \* the one that answers, sweeps and cancels
    Keys,        \* request keys the engine asks under
    Sizes,       \* quantities a proposal or a Modify reply may carry
    Timeout,     \* DEFAULT_TIMEOUT_MINUTES
    SnoozeTime,  \* SNOOZE_MINUTES
    MaxSnoozes,  \* MAX_SNOOZES
    MaxRows,     \* bound of the model: rows ever inserted
    MaxTime      \* bound of the model: the last instant

ASSUME ApprovalAssumption ==
    /\ Daemon \in Procs
    /\ Timeout \in Nat \ {0}
    /\ SnoozeTime \in Nat \ {0}
    /\ MaxSnoozes \in Nat
    /\ MaxRows \in Nat
    /\ MaxTime \in Nat

VARIABLES
    now,     \* clock.now()
    rows,    \* the approvals table, by id
    asking,  \* what each process is about to insert: a question, or none
    due      \* ids whose transition a process committed and has to audit yet

vars == <<now, rows, asking, due>>

Undecided == {"pending", "awaiting_modification"}
Terminal  == {"approved", "rejected", "expired", "cancelled"}
Status    == Undecided \cup Terminal

\* responded_at is NULL; any number above every instant would do as well.
Never == MaxTime + 1

\* "seen" is history: how many rows the table had when create looked.
Row == [key: Keys, status: Status, asked: Nat, expires: Nat, answered: Nat,
        quantity: Sizes, snoozes: Nat, seen: Nat]

\* Between create's two transactions: the instant it took at its beginning,
\* and the rows that were there when it looked.
Question == [key: Keys, at: Nat, seen: Nat]

\* Longest a request can stay open; used to bound the model's clock.
Lifetime == Timeout + MaxSnoozes * SnoozeTime

-----------------------------------------------------------------------------
\* Definitions named ...Mutant are plausible bugs in the code the next
\* definition models; no specification uses them.
PastDeadlineMutant(r) == r.expires < now

\* ApprovalService._to_request: the table's status with the deadline applied.
PastDeadline(r) == r.expires <= now
Reported(r) ==
    IF r.status \in Undecided /\ PastDeadline(r) THEN "expired" ELSE r.status

\* A request a human can still answer: what ApprovalService.pending() lists.
Live(r) == Reported(r) \in Undecided

Rounds(k) == {i \in DOMAIN rows : rows[i].key = k}

\* An earlier round the question has found.
Found(a) == {i \in Rounds(a.key) : i <= a.seen}

\* get_by_key returns the row with the largest id; create goes on only when
\* there is none or it is reported terminal.
MayAsk(k) ==
    \A i \in Rounds(k) : (\A j \in Rounds(k) : j <= i) => ~Live(rows[i])

Init ==
    /\ now = 0
    /\ rows = <<>>
    /\ asking = [p \in Procs |-> {}]
    /\ due = [p \in Procs |-> {}]

-----------------------------------------------------------------------------
Tick ==
    /\ now < MaxTime
    /\ now' = now + 1
    /\ UNCHANGED <<rows, asking, due>>

\* The process is in no method of the service.
Free(p) == asking[p] = {} /\ due[p] = {}

\* The daemon has committed a transition of these rows and audits it next.
Commits(ids) ==
    /\ due' = [due EXCEPT ![Daemon] = ids]
    /\ UNCHANGED <<now, asking>>

\* create, up to the end of its first transaction.  A suppressed duplicate
\* changes nothing, so only a question that will be asked is remembered.
LookUp(p, k) ==
    /\ Free(p)
    /\ Len(rows) < MaxRows
    /\ now + Lifetime <= MaxTime
    /\ MayAsk(k)
    /\ asking' = [asking EXCEPT ![p] = {[key |-> k, at |-> now, seen |-> Len(rows)]}]
    /\ UNCHANGED <<now, rows, due>>

\* create, its second transaction.  A question it found no round of goes under
\* the plain key, which is unique; one it found a round of under key#second.
Insert(p, q) ==
    /\ Len(rows) < MaxRows
    /\ \E a \in asking[p] :
          /\ Found(a) = {} => Rounds(a.key) = {}
          /\ rows' = Append(rows, [key |-> a.key, status |-> "pending",
                                   asked |-> a.at, expires |-> a.at + Timeout,
                                   answered |-> Never, quantity |-> q,
                                   snoozes |-> 0, seen |-> a.seen])
    /\ asking' = [asking EXCEPT ![p] = {}]
    /\ due' = [due EXCEPT ![p] = {Len(rows) + 1}]
    /\ UNCHANGED now

\* The deadline check is forgotten and a late tap counts.
RespondMutant(i, approved) ==
    /\ Free(Daemon)
    /\ rows[i].status \in Undecided
    /\ rows' = [rows EXCEPT
                  ![i].status = IF approved THEN "approved" ELSE "rejected",
                  ![i].answered = now]
    /\ Commits({i})

\* respond, on time.  Any undecided status is answered, a parked one included.
Respond(i, approved) ==
    /\ Free(Daemon)
    /\ rows[i].status \in Undecided
    /\ ~PastDeadline(rows[i])
    /\ rows' = [rows EXCEPT
                  ![i].status = IF approved THEN "approved" ELSE "rejected",
                  ![i].answered = now]
    /\ Commits({i})

\* respond, after the deadline.  audit.record is called inside the open
\* transaction, whose flushed UPDATE already holds SQLite's only write lock:
\* the second connection's insert waits out busy_timeout and its failure is
\* swallowed, so on a database file this transition is never audited.
RespondLate(i) ==
    /\ Free(Daemon)
    /\ rows[i].status \in Undecided
    /\ PastDeadline(rows[i])
    /\ rows' = [rows EXCEPT ![i].status = "expired", ![i].answered = now]
    /\ UNCHANGED <<now, asking, due>>

\* The pressed action is stored where the status belongs.
RequestModificationMutant(i) ==
    /\ Free(Daemon)
    /\ rows[i].status = "pending"
    /\ rows' = [rows EXCEPT ![i].status = "modify"]
    /\ Commits({i})

\* request_modification: no deadline check, the deadline still applies.
RequestModification(i) ==
    /\ Free(Daemon)
    /\ rows[i].status = "pending"
    /\ rows' = [rows EXCEPT ![i].status = "awaiting_modification"]
    /\ Commits({i})

\* apply_modification with a usable quantity, on time.
ApplyModification(i, q) ==
    /\ Free(Daemon)
    /\ rows[i].status = "awaiting_modification"
    /\ ~PastDeadline(rows[i])
    /\ rows' = [rows EXCEPT ![i].status = "approved", ![i].answered = now,
                            ![i].quantity = q]
    /\ Commits({i})

\* apply_modification after the deadline: expires the row, writes no audit
\* record and leaves responded_at alone.
ApplyModificationLate(i) ==
    /\ Free(Daemon)
    /\ rows[i].status = "awaiting_modification"
    /\ PastDeadline(rows[i])
    /\ rows' = [rows EXCEPT ![i].status = "expired"]
    /\ UNCHANGED <<now, asking, due>>

\* Snoozing a request nobody has swept yet brings it back to life.
SnoozeRevivesMutant(i) ==
    /\ Free(Daemon)
    /\ rows[i].status = "pending"
    /\ rows[i].snoozes < MaxSnoozes
    /\ rows' = [rows EXCEPT ![i].snoozes = @ + 1, ![i].expires = @ + SnoozeTime]
    /\ Commits({i})

\* snooze, while the request is pending, on time and snoozed less than twice.
Snooze(i) ==
    /\ Free(Daemon)
    /\ rows[i].status = "pending"
    /\ ~PastDeadline(rows[i])
    /\ rows[i].snoozes < MaxSnoozes
    /\ rows' = [rows EXCEPT ![i].snoozes = @ + 1, ![i].expires = @ + SnoozeTime]
    /\ Commits({i})

\* expire_due: one transaction for every row past its deadline.
ExpirableMutant == {i \in DOMAIN rows : rows[i].status = "pending" /\ PastDeadline(rows[i])}
Expirable == {i \in DOMAIN rows : rows[i].status \in Undecided /\ PastDeadline(rows[i])}

ExpireDue ==
    /\ Free(Daemon)
    /\ Expirable # {}
    /\ rows' = [i \in DOMAIN rows |->
                  IF i \in Expirable
                  THEN [rows[i] EXCEPT !.status = "expired", !.answered = now]
                  ELSE rows[i]]
    /\ Commits(Expirable)

\* A decision already taken is withdrawn.
CancelMutant(i) ==
    /\ Free(Daemon)
    /\ rows[i].status # "cancelled"
    /\ rows' = [rows EXCEPT ![i].status = "cancelled", ![i].answered = now]
    /\ Commits({i})

\* cancel: no deadline check.
Cancel(i) ==
    /\ Free(Daemon)
    /\ rows[i].status \in Undecided
    /\ rows' = [rows EXCEPT ![i].status = "cancelled", ![i].answered = now]
    /\ Commits({i})

\* AuditService.record, after the commit; expire_due writes one row at a time.
\* An insert that fails is logged and swallowed.
WriteAudit(p, i) ==
    /\ i \in due[p]
    /\ due' = [due EXCEPT ![p] = @ \ {i}]
    /\ UNCHANGED <<now, rows, asking>>

\* The process dies, its audit records unwritten, and is started again; or
\* create raises: the key is taken (the plain one, or two rounds were asked in
\* a second), or the database stays locked.
BreakOff(p) ==
    /\ ~Free(p)
    /\ asking' = [asking EXCEPT ![p] = {}]
    /\ due' = [due EXCEPT ![p] = {}]
    /\ UNCHANGED <<now, rows>>

Operation(i) ==
    \/ \E approved \in BOOLEAN : Respond(i, approved)
    \/ RespondLate(i)
    \/ RequestModification(i)
    \/ \E q \in Sizes : ApplyModification(i, q)
    \/ ApplyModificationLate(i)
    \/ Snooze(i)
    \/ Cancel(i)

\* A process asks, or goes on with what it committed.
Step(p) ==
    \/ \E k \in Keys : LookUp(p, k)
    \/ \E q \in Sizes : Insert(p, q)
    \/ \E i \in due[p] : WriteAudit(p, i)
    \/ BreakOff(p)

Next ==
    \/ Tick
    \/ \E p \in Procs : Step(p)
    \/ \E i \in DOMAIN rows : Operation(i)
    \/ ExpireDue

\* Time passes, the daemon's minute job sweeps, and a method that was called
\* returns.  Humans are under no obligation to answer, nor the engine to ask.
Returns(p) ==
    (\E q \in Sizes : Insert(p, q)) \/ (\E i \in due[p] : WriteAudit(p, i)) \/ BreakOff(p)

Fairness ==
    /\ WF_vars(Tick)
    /\ WF_vars(ExpireDue)
    /\ WF_vars(Returns(Daemon))

Spec == Init /\ [][Next]_vars
FairSpec == Spec /\ Fairness

-----------------------------------------------------------------------------
\* The table, the clock and the audit bookkeeping hold the values they should.
TypeOK ==
    /\ now \in 0 .. MaxTime
    /\ rows \in Seq(Row)
    /\ asking \in [Procs -> SUBSET Question]
    /\ due \in [Procs -> SUBSET (DOMAIN rows)]

\* "A timeout is never an approval": whatever sequence of snoozes, parkings,
\* late taps and sweeps led there, an approved or rejected row was answered
\* strictly before the deadline it ended up with, and not before it was asked.
DecidedInTime ==
    \A i \in DOMAIN rows :
       rows[i].status \in {"approved", "rejected"} =>
          /\ rows[i].asked <= rows[i].answered
          /\ rows[i].answered < rows[i].expires

\* Snoozing is "for give me a minute, not for deferring a decision
\* indefinitely": the deadline never leaves the initial timeout by more than
\* the snoozes counted in the payload.
DeadlineBounded ==
    \A i \in DOMAIN rows :
       /\ rows[i].snoozes <= MaxSnoozes
       /\ rows[i].expires = rows[i].asked + Timeout + rows[i].snoozes * SnoozeTime

\* Only two processes that ask at once leave two requests of a question a human
\* can answer: while an earlier round is answerable, some later one was asked by
\* a create that looked before that round was there.  No snooze, late tap or
\* missed sweep brings an old round back.  And a question that is new gets one
\* round, whoever races: a second one has found the first.
TwoRoundsOnlyByRace ==
    \A i, j \in DOMAIN rows :
       i < j /\ rows[i].key = rows[j].key =>
          /\ Live(rows[i]) => \E m \in Rounds(rows[i].key) : rows[m].seen < i /\ i < m
          /\ \E m \in Rounds(rows[j].key) : m <= rows[j].seen

\* "Responses are idempotent": a decided row keeps its decision, its size, its
\* deadline and its answer time through every later tap, sweep or cancel.
DecidedRowIsFrozen ==
    [][\A i \in DOMAIN rows :
          rows[i].status \in Terminal => rows'[i] = rows[i]]_vars

\* What the table looks like through _to_request, as ApprovalPromise sees it.
AsPromised ==
    [i \in DOMAIN rows |->
       [key |-> rows[i].key,
        state |-> IF Live(rows[i]) THEN "open"
                  ELSE IF rows[i].status = "approved" THEN "authorised" ELSE "refused",
        deadline |-> rows[i].expires,
        extensions |-> rows[i].snoozes]]

Promise == INSTANCE ApprovalPromise
             WITH requests <- AsPromised, Askers <- Procs, Extension <- SnoozeTime,
                  MaxExtensions <- MaxSnoozes

\* The service as its readers see it keeps the promise: failing closed does not
\* depend on the sweeper, whose step is invisible in the abstraction.
ImplementsPromise == Promise!Spec

\* Every request that is opened is eventually decided in the table itself.
EventuallyDecided ==
    \A i \in 1 .. MaxRows :
       (i \in DOMAIN rows) ~> (i \in DOMAIN rows /\ rows[i].status \in Terminal)
=============================================================================
