--------------------------- MODULE Approvals_proofs ---------------------------
(***************************************************************************)
(* Proofs about Approvals.tla, for any keys, sizes, timeouts and bounds.   *)
(* EveryStep classifies the steps by what they do to the table and to what *)
(* is being asked: a new row, undecided rows that change, a question       *)
(* looked up or given up, or nothing.  The invariants are then proved      *)
(* against these shapes, not against every action.                         *)
(***************************************************************************)
EXTENDS Approvals, TLAPS

USE ApprovalAssumption

\* What an operation may turn the undecided row r into at the instant t.
Decided(t, r, s) ==
    /\ t < r.expires
    /\ s.status \in {"approved", "rejected"}
    /\ s.answered = t
    /\ s.expires = r.expires
    /\ s.snoozes = r.snoozes

Closed(r, s) ==
    /\ s.status \in {"expired", "cancelled"}
    /\ s.expires = r.expires
    /\ s.snoozes = r.snoozes

Parked(r, s) ==
    /\ s.status \in Undecided
    /\ s.expires = r.expires
    /\ s.snoozes = r.snoozes

Snoozed(t, r, s) ==
    /\ t < r.expires
    /\ r.snoozes < MaxSnoozes
    /\ s.status = r.status
    /\ s.snoozes = r.snoozes + 1
    /\ s.expires = r.expires + SnoozeTime

RowChange(t, r, s) ==
    /\ r.status \in Undecided
    /\ s \in Row
    /\ s.key = r.key
    /\ s.asked = r.asked
    /\ s.seen = r.seen
    /\ Decided(t, r, s) \/ Closed(r, s) \/ Parked(r, s) \/ Snoozed(t, r, s)

Fresh(a, q) ==
    [key |-> a.key, status |-> "pending", asked |-> a.at, expires |-> a.at + Timeout,
     answered |-> Never, quantity |-> q, snoozes |-> 0, seen |-> a.seen]

\* The shapes of a step.
RowAdded ==
    \E p \in Procs, q \in Sizes : \E a \in asking[p] :
       /\ Found(a) = {} => Rounds(a.key) = {}
       /\ rows' \in Seq(Row)
       /\ DOMAIN rows = 1 .. Len(rows)
       /\ DOMAIN rows' = 1 .. Len(rows) + 1
       /\ \A i \in DOMAIN rows : rows'[i] = rows[i]
       /\ rows'[Len(rows) + 1] = Fresh(a, q)
       /\ now' = now
       /\ asking' = [asking EXCEPT ![p] = {}]

RowsChanged ==
    /\ rows' \in Seq(Row)
    /\ DOMAIN rows' = DOMAIN rows
    /\ \A i \in DOMAIN rows : rows'[i] = rows[i] \/ RowChange(now, rows[i], rows'[i])
    /\ now' = now
    /\ asking' = asking

LookedUp ==
    \E p \in Procs, k \in Keys :
       /\ asking[p] = {}
       /\ MayAsk(k)
       /\ asking' = [asking EXCEPT ![p] = {[key |-> k, at |-> now, seen |-> Len(rows)]}]
       /\ rows' = rows
       /\ now' = now

GivenUp ==
    \E p \in Procs :
       /\ asking' = [asking EXCEPT ![p] = {}]
       /\ rows' = rows
       /\ now' = now

RowsKept == rows' = rows /\ asking' = asking /\ now' \in {now, now + 1}

\* A change touches one row, or is the sweep of rows past their deadline.
RowChanged ==
    \E i \in DOMAIN rows, s \in Row :
       /\ RowChange(now, rows[i], s)
       /\ rows' = [rows EXCEPT ![i] = s]
       /\ now' = now
       /\ asking' = asking

RowsSwept ==
    /\ RowsChanged
    /\ \A i \in DOMAIN rows :
          rows'[i] # rows[i] => rows[i].expires <= now /\ Closed(rows[i], rows'[i])

\* A step that changes one row changes rows.
LEMMA OneRow == ASSUME TypeOK, RowChanged PROVE RowsChanged
<1>1. PICK i \in DOMAIN rows, s \in Row :
        /\ RowChange(now, rows[i], s)
        /\ rows' = [rows EXCEPT ![i] = s]
        /\ now' = now
        /\ asking' = asking
  BY DEF RowChanged
<1>2. rows \in Seq(Row)
  BY DEF TypeOK
<1>3. rows' \in Seq(Row) /\ DOMAIN rows' = DOMAIN rows
  BY <1>1, <1>2
<1>4. \A j \in DOMAIN rows : rows'[j] = IF j = i THEN s ELSE rows[j]
  BY <1>1, <1>2
<1>5. QED
  BY <1>1, <1>3, <1>4 DEF RowsChanged

\* A step of the service adds a row, changes undecided rows, or keeps the table.
LEMMA EveryStepInDetail ==
    ASSUME TypeOK, [Next]_vars
    PROVE  RowAdded \/ RowChanged \/ RowsSwept \/ LookedUp \/ GivenUp \/ RowsKept
<1>0. /\ now \in 0 .. MaxTime /\ now \in Nat
      /\ \A i \in DOMAIN rows : rows[i] \in Row
  BY DEF TypeOK
<1> USE DEF Row, Status, Undecided, Terminal
<1>1. ASSUME NEW i \in DOMAIN rows, NEW a \in BOOLEAN, Respond(i, a) PROVE RowChanged
  <2> DEFINE answer == IF a THEN "approved" ELSE "rejected"
             s == [rows[i] EXCEPT !.status = answer, !.answered = now]
  <2>1. answer \in {"approved", "rejected"}
    OBVIOUS
  <2> HIDE DEF answer
  <2>2. rows[i].status \in Undecided /\ now < rows[i].expires
    BY <1>0, <1>1 DEF Respond, PastDeadline
  <2>3. s \in Row /\ RowChange(now, rows[i], s)
    BY <1>0, <2>1, <2>2 DEF RowChange, Decided
  <2>4. rows' = [rows EXCEPT ![i] = s] /\ now' = now /\ asking' = asking
    BY <1>1 DEF Respond, Commits, answer
  <2> HIDE DEF s
  <2>5. QED
    BY <2>3, <2>4 DEF RowChanged
<1>2. ASSUME NEW i \in DOMAIN rows, RespondLate(i) PROVE RowChanged
  <2> DEFINE s == [rows[i] EXCEPT !.status = "expired", !.answered = now]
  <2>1. s \in Row /\ RowChange(now, rows[i], s)
    BY <1>0, <1>2 DEF RespondLate, RowChange, Closed
  <2>2. rows' = [rows EXCEPT ![i] = s] /\ now' = now /\ asking' = asking
    BY <1>2 DEF RespondLate, Commits
  <2> HIDE DEF s
  <2>3. QED
    BY <2>1, <2>2 DEF RowChanged
<1>3. ASSUME NEW i \in DOMAIN rows, RequestModification(i) PROVE RowChanged
  <2> DEFINE s == [rows[i] EXCEPT !.status = "awaiting_modification"]
  <2>1. s \in Row /\ RowChange(now, rows[i], s)
    BY <1>0, <1>3 DEF RequestModification, RowChange, Parked
  <2>2. rows' = [rows EXCEPT ![i] = s] /\ now' = now /\ asking' = asking
    BY <1>3 DEF RequestModification, Commits
  <2> HIDE DEF s
  <2>3. QED
    BY <2>1, <2>2 DEF RowChanged
<1>4. ASSUME NEW i \in DOMAIN rows, NEW q \in Sizes, ApplyModification(i, q)
      PROVE  RowChanged
  <2> DEFINE s == [rows[i] EXCEPT !.status = "approved", !.answered = now, !.quantity = q]
  <2>1. s \in Row /\ RowChange(now, rows[i], s)
    BY <1>0, <1>4 DEF ApplyModification, RowChange, Decided, PastDeadline
  <2>2. rows' = [rows EXCEPT ![i] = s] /\ now' = now /\ asking' = asking
    BY <1>4 DEF ApplyModification, Commits
  <2> HIDE DEF s
  <2>3. QED
    BY <2>1, <2>2 DEF RowChanged
<1>5. ASSUME NEW i \in DOMAIN rows, ApplyModificationLate(i) PROVE RowChanged
  <2> DEFINE s == [rows[i] EXCEPT !.status = "expired"]
  <2>1. s \in Row /\ RowChange(now, rows[i], s)
    BY <1>0, <1>5 DEF ApplyModificationLate, RowChange, Closed
  <2>2. rows' = [rows EXCEPT ![i] = s] /\ now' = now /\ asking' = asking
    BY <1>5 DEF ApplyModificationLate, Commits
  <2> HIDE DEF s
  <2>3. QED
    BY <2>1, <2>2 DEF RowChanged
<1>6. ASSUME NEW i \in DOMAIN rows, Snooze(i) PROVE RowChanged
  <2> DEFINE s == [rows[i] EXCEPT !.snoozes = @ + 1, !.expires = @ + SnoozeTime]
  <2>1. s \in Row /\ RowChange(now, rows[i], s)
    <3>1. rows[i].status = "pending" /\ now < rows[i].expires
          /\ rows[i].snoozes < MaxSnoozes
      BY <1>0, <1>6 DEF Snooze, PastDeadline
    <3>2. /\ rows[i].snoozes + 1 \in Nat
          /\ rows[i].expires + SnoozeTime \in Nat
          /\ rows[i] \in Row
      BY <1>0
    <3>3. s \in Row
      BY <3>2
    <3>4. /\ s.status = rows[i].status /\ s.key = rows[i].key
          /\ s.asked = rows[i].asked /\ s.seen = rows[i].seen
          /\ s.snoozes = rows[i].snoozes + 1
          /\ s.expires = rows[i].expires + SnoozeTime
      BY <3>2
    <3> HIDE DEF s, Row
    <3>5. QED
      BY <3>1, <3>3, <3>4 DEF RowChange, Snoozed
  <2>2. rows' = [rows EXCEPT ![i] = s] /\ now' = now /\ asking' = asking
    BY <1>6 DEF Snooze, Commits
  <2> HIDE DEF s
  <2>3. QED
    BY <2>1, <2>2 DEF RowChanged
<1>7. ASSUME NEW i \in DOMAIN rows, Cancel(i) PROVE RowChanged
  <2> DEFINE s == [rows[i] EXCEPT !.status = "cancelled", !.answered = now]
  <2>1. s \in Row /\ RowChange(now, rows[i], s)
    BY <1>0, <1>7 DEF Cancel, RowChange, Closed
  <2>2. rows' = [rows EXCEPT ![i] = s] /\ now' = now /\ asking' = asking
    BY <1>7 DEF Cancel, Commits
  <2> HIDE DEF s
  <2>3. QED
    BY <2>1, <2>2 DEF RowChanged
<1>8. CASE ExpireDue
  <2>1. \A i \in Expirable :
           LET s == [rows[i] EXCEPT !.status = "expired", !.answered = now]
           IN  s \in Row /\ RowChange(now, rows[i], s)
    BY <1>0 DEF Expirable, RowChange, Closed
  <2>2. /\ DOMAIN rows' = DOMAIN rows
        /\ \A i \in DOMAIN rows : rows'[i] = rows[i] \/ RowChange(now, rows[i], rows'[i])
        /\ now' = now
        /\ asking' = asking
    BY <1>8, <2>1 DEF ExpireDue, Commits
  <2>3. \A i \in DOMAIN rows : rows'[i] \in Row
    BY <1>0, <2>2 DEF RowChange
  <2>4. rows' \in Seq(Row)
    <3>1. DOMAIN rows = 1 .. Len(rows) /\ Len(rows) \in Nat
      BY DEF TypeOK
    <3>2. rows' \in [1 .. Len(rows) -> Row]
      BY <1>8, <2>2, <2>3, <3>1 DEF ExpireDue
    <3> HIDE DEF Row
    <3>3. QED
      BY <3>1, <3>2
  <2>5. \A i \in DOMAIN rows :
           rows'[i] # rows[i] => rows[i].expires <= now /\ Closed(rows[i], rows'[i])
    <3>1. \A i \in DOMAIN rows : i \notin Expirable => rows'[i] = rows[i]
      BY <1>8 DEF ExpireDue
    <3>2. \A i \in Expirable : rows[i].expires <= now /\ Closed(rows[i], rows'[i])
      BY <1>0, <1>8 DEF ExpireDue, Expirable, PastDeadline, Closed
    <3>3. QED
      BY <3>1, <3>2
  <2>6. QED
    BY <2>2, <2>4, <2>5 DEF RowsChanged, RowsSwept
<1>9. ASSUME Tick \/ (\E p \in Procs : \E i \in due[p] : WriteAudit(p, i)) \/ UNCHANGED vars
      PROVE  RowsKept
  BY <1>9 DEF Tick, WriteAudit, vars, RowsKept
<1>10. ASSUME NEW p \in Procs, NEW q \in Sizes, Insert(p, q) PROVE RowAdded
  <2>1. PICK a \in asking[p] :
           /\ Found(a) = {} => Rounds(a.key) = {}
           /\ rows' = Append(rows, Fresh(a, q))
    BY <1>10 DEF Insert, Fresh
  <2>2. a \in Question
    BY DEF TypeOK
  <2>3. Fresh(a, q) \in Row
    BY <1>0, <2>2 DEF Fresh, Never, Question
  <2>4. now' = now /\ asking' = [asking EXCEPT ![p] = {}]
    BY <1>10 DEF Insert
  <2> HIDE DEF Row
  <2>5. /\ rows' \in Seq(Row)
        /\ DOMAIN rows = 1 .. Len(rows)
        /\ DOMAIN rows' = 1 .. Len(rows) + 1
        /\ \A i \in DOMAIN rows : rows'[i] = rows[i]
        /\ rows'[Len(rows) + 1] = Fresh(a, q)
    BY <2>1, <2>3 DEF TypeOK
  <2>6. QED
    BY <2>1, <2>4, <2>5 DEF RowAdded
<1>11. ASSUME NEW p \in Procs, NEW k \in Keys, LookUp(p, k) PROVE LookedUp
  BY <1>11 DEF LookUp, Free, LookedUp
<1>12. ASSUME NEW p \in Procs, BreakOff(p) PROVE GivenUp
  BY <1>12 DEF BreakOff, GivenUp
<1>13. QED
  BY <1>1, <1>2, <1>3, <1>4, <1>5, <1>6, <1>7, <1>8, <1>9, <1>10, <1>11, <1>12
     DEF Next, Step, Operation

\* Every step adds a row, changes undecided rows, looks a question up, gives it
\* up, or leaves all this alone.
LEMMA EveryStep ==
    ASSUME TypeOK, [Next]_vars
    PROVE  RowAdded \/ RowsChanged \/ LookedUp \/ GivenUp \/ RowsKept
BY EveryStepInDetail, OneRow DEF RowsSwept

-----------------------------------------------------------------------------
\* The table, the clock and the audit bookkeeping are always well typed.
THEOREM TypeCorrect == Spec => []TypeOK
<1>1. Init => TypeOK
  BY DEF Init, TypeOK
<1>2. TypeOK /\ [Next]_vars => TypeOK'
  <2> SUFFICES ASSUME TypeOK, [Next]_vars PROVE TypeOK'
    OBVIOUS
  <2>1. rows' \in Seq(Row) /\ DOMAIN rows \subseteq DOMAIN rows'
    <3>1. CASE RowAdded
      BY <3>1 DEF RowAdded
    <3>2. CASE RowsChanged \/ LookedUp \/ GivenUp \/ RowsKept
      BY <3>2 DEF RowsChanged, LookedUp, GivenUp, RowsKept, TypeOK
    <3>3. QED
      BY <3>1, <3>2, EveryStep
  <2>2. now' \in 0 .. MaxTime
    <3>1. CASE RowAdded \/ RowsChanged \/ LookedUp \/ GivenUp
      BY <3>1 DEF RowAdded, RowsChanged, LookedUp, GivenUp, TypeOK
    <3>2. CASE Tick
      BY <3>2 DEF Tick, TypeOK
    <3>3. CASE ~Tick
      <4>1. now' = now
        BY <3>3 DEF Next, Step, Operation, LookUp, Insert, Respond, RespondLate,
               RequestModification, ApplyModification, ApplyModificationLate, Snooze,
               Cancel, ExpireDue, Commits, WriteAudit, BreakOff, vars
      <4>2. QED
        BY <4>1 DEF TypeOK
    <3>4. QED
      BY <3>1, <3>2, <3>3
  <2>3. asking' \in [Procs -> SUBSET Question]
    <3>1. asking \in [Procs -> SUBSET Question] /\ now \in Nat /\ Len(rows) \in Nat
      BY DEF TypeOK
    <3>2. CASE LookedUp
      <4>1. \A k \in Keys : [key |-> k, at |-> now, seen |-> Len(rows)] \in Question
        BY <3>1 DEF Question
      <4> HIDE DEF Question
      <4>2. QED
        BY <3>1, <3>2, <4>1 DEF LookedUp
    <3>3. CASE RowAdded \/ GivenUp
      BY <3>1, <3>3 DEF RowAdded, GivenUp
    <3>4. CASE RowsChanged \/ RowsKept
      BY <3>1, <3>4 DEF RowsChanged, RowsKept
    <3>5. QED
      BY <3>2, <3>3, <3>4, EveryStep
  <2>4. due' \in [Procs -> SUBSET (DOMAIN rows')]
    <3>1. due \in [Procs -> SUBSET (DOMAIN rows')]
      BY <2>1 DEF TypeOK
    <3>2. ASSUME NEW ids \in SUBSET (DOMAIN rows'), NEW p \in Procs,
                 due' = [due EXCEPT ![p] = ids]
          PROVE  due' \in [Procs -> SUBSET (DOMAIN rows')]
      BY <3>1, <3>2
    <3>3. ASSUME NEW p \in Procs, NEW q \in Sizes, Insert(p, q)
          PROVE  due' \in [Procs -> SUBSET (DOMAIN rows')]
      <4>1. Len(rows) + 1 \in DOMAIN rows'
        BY <3>3 DEF Insert, TypeOK
      <4>2. QED
        BY <3>2, <3>3, <4>1 DEF Insert
    <3>4. CASE ExpireDue
      BY <2>1, <3>2, <3>4 DEF ExpireDue, Expirable, Commits
    <3>5. ASSUME NEW i \in DOMAIN rows, Operation(i)
          PROVE  due' \in [Procs -> SUBSET (DOMAIN rows')]
      <4>1. due' = due \/ due' = [due EXCEPT ![Daemon] = {i}]
        BY <3>5 DEF Operation, Respond, RespondLate, RequestModification, ApplyModification,
                    ApplyModificationLate, Snooze, Cancel, Commits
      <4>2. QED
        BY <2>1, <3>1, <3>2, <4>1
    <3>6. ASSUME NEW p \in Procs, NEW i \in due[p], WriteAudit(p, i)
          PROVE  due' \in [Procs -> SUBSET (DOMAIN rows')]
      BY <3>1, <3>2, <3>6 DEF WriteAudit
    <3>7. ASSUME NEW p \in Procs, BreakOff(p)
          PROVE  due' \in [Procs -> SUBSET (DOMAIN rows')]
      BY <3>2, <3>7 DEF BreakOff
    <3>8. ASSUME Tick \/ (\E p \in Procs, k \in Keys : LookUp(p, k)) \/ UNCHANGED vars
          PROVE  due' = due
      BY <3>8 DEF Tick, LookUp, vars
    <3>9. QED
      BY <3>1, <3>3, <3>4, <3>5, <3>6, <3>7, <3>8 DEF Next, Step
  <2>5. QED
    BY <2>1, <2>2, <2>3, <2>4 DEF TypeOK
<1>3. QED
  BY <1>1, <1>2, PTL DEF Spec

\* No row and no question claims to have been asked in the future: with it,
\* DecidedInTime is inductive.
AskedInPast ==
    /\ \A i \in DOMAIN rows : rows[i].asked <= now
    /\ \A p \in Procs : \A a \in asking[p] : a.at <= now

\* "A timeout is never an approval", whatever snoozes, parkings, late taps and
\* sweeps a run of the service contains.
THEOREM NeverDecidedLate == Spec => []DecidedInTime
<1> DEFINE IInv == AskedInPast /\ DecidedInTime
<1>1. Init => IInv
  BY DEF Init, AskedInPast, DecidedInTime
<1>2. TypeOK /\ IInv /\ [Next]_vars => IInv'
  <2> SUFFICES ASSUME TypeOK, IInv, [Next]_vars PROVE IInv'
    OBVIOUS
  <2>0. /\ now \in Nat /\ \A i \in DOMAIN rows : rows[i] \in Row
        /\ asking \in [Procs -> SUBSET Question]
    BY DEF TypeOK
  <2>1. CASE RowAdded
    <3>1. PICK p \in Procs, q \in Sizes, a \in Question :
             /\ a \in asking[p]
             /\ DOMAIN rows = 1 .. Len(rows)
             /\ DOMAIN rows' = 1 .. Len(rows) + 1
             /\ \A i \in DOMAIN rows : rows'[i] = rows[i]
             /\ rows'[Len(rows) + 1] = Fresh(a, q)
             /\ now' = now
             /\ asking' = [asking EXCEPT ![p] = {}]
      BY <2>1 DEF RowAdded, TypeOK
    <3>2. rows'[Len(rows) + 1].asked <= now /\ rows'[Len(rows) + 1].status = "pending"
      BY <3>1 DEF Fresh, AskedInPast
    <3>3. AskedInPast'
      BY <2>0, <3>1, <3>2 DEF AskedInPast
    <3>4. DecidedInTime'
      BY <3>1, <3>2 DEF DecidedInTime
    <3>5. QED
      BY <3>3, <3>4
  <2>2. CASE RowsChanged
    <3> SUFFICES ASSUME NEW i \in DOMAIN rows
                 PROVE  /\ rows'[i].asked <= now
                        /\ rows'[i].status \in {"approved", "rejected"} =>
                             /\ rows'[i].asked <= rows'[i].answered
                             /\ rows'[i].answered < rows'[i].expires
      BY <2>2 DEF RowsChanged, AskedInPast, DecidedInTime
    <3>1. CASE rows'[i] = rows[i]
      BY <3>1 DEF AskedInPast, DecidedInTime
    <3>2. CASE RowChange(now, rows[i], rows'[i])
      BY <2>0, <3>2 DEF AskedInPast, RowChange, Decided, Closed, Parked, Snoozed,
                        PastDeadline, Row, Undecided
    <3>3. QED
      BY <2>2, <3>1, <3>2 DEF RowsChanged
  <2>3. CASE LookedUp
    BY <2>0, <2>3 DEF LookedUp, AskedInPast, DecidedInTime
  <2>4. CASE GivenUp
    BY <2>0, <2>4 DEF GivenUp, AskedInPast, DecidedInTime
  <2>5. CASE RowsKept
    BY <2>0, <2>5 DEF RowsKept, AskedInPast, DecidedInTime, Row, Question
  <2>6. QED
    BY <2>1, <2>2, <2>3, <2>4, <2>5, EveryStep
<1>3. QED
  BY <1>1, <1>2, TypeCorrect, PTL DEF Spec

\* Snoozing cannot defer a decision indefinitely.
THEOREM DeadlinesAreBounded == Spec => []DeadlineBounded
<1>1. Init => DeadlineBounded
  BY DEF Init, DeadlineBounded
<1>2. TypeOK /\ DeadlineBounded /\ [Next]_vars => DeadlineBounded'
  <2> SUFFICES ASSUME TypeOK, DeadlineBounded, [Next]_vars PROVE DeadlineBounded'
    OBVIOUS
  <2>0. now \in Nat /\ \A i \in DOMAIN rows : rows[i] \in Row
    BY DEF TypeOK
  <2>1. CASE RowAdded
    <3>1. PICK a \in Question, q \in Sizes :
             /\ DOMAIN rows = 1 .. Len(rows)
             /\ DOMAIN rows' = 1 .. Len(rows) + 1
             /\ \A i \in DOMAIN rows : rows'[i] = rows[i]
             /\ rows'[Len(rows) + 1] = Fresh(a, q)
      BY <2>1 DEF RowAdded, TypeOK
    <3>2. a.at \in Nat
      BY DEF Question
    <3>3. QED
      BY <3>1, <3>2 DEF Fresh, DeadlineBounded
  <2>2. CASE RowsChanged
    <3> SUFFICES ASSUME NEW i \in DOMAIN rows
                 PROVE  /\ rows'[i].snoozes <= MaxSnoozes
                        /\ rows'[i].expires =
                             rows'[i].asked + Timeout + rows'[i].snoozes * SnoozeTime
      BY <2>2 DEF RowsChanged, DeadlineBounded
    <3>1. CASE rows'[i] = rows[i]
      BY <3>1 DEF DeadlineBounded
    <3>2. CASE RowChange(now, rows[i], rows'[i]) /\ ~Snoozed(now, rows[i], rows'[i])
      BY <3>2 DEF DeadlineBounded, RowChange, Decided, Closed, Parked
    <3>3. CASE RowChange(now, rows[i], rows'[i]) /\ Snoozed(now, rows[i], rows'[i])
      <4>1. /\ rows[i].snoozes \in Nat /\ rows[i].asked \in Nat
            /\ rows[i].expires = rows[i].asked + Timeout + rows[i].snoozes * SnoozeTime
        BY <2>0 DEF Row, DeadlineBounded
      <4>2. \A n \in Nat : (n + 1) * SnoozeTime = n * SnoozeTime + SnoozeTime
        OBVIOUS
      <4>3. QED
        BY <3>3, <4>1, <4>2 DEF RowChange, Snoozed
    <3>4. QED
      BY <2>2, <3>1, <3>2, <3>3 DEF RowsChanged
  <2>3. CASE LookedUp \/ GivenUp \/ RowsKept
    BY <2>3 DEF LookedUp, GivenUp, RowsKept, DeadlineBounded
  <2>4. QED
    BY <2>1, <2>2, <2>3, EveryStep
<1>3. QED
  BY <1>1, <1>2, TypeCorrect, PTL DEF Spec

\* Answerable, as a relation between an instant and a row.
LiveAt(t, r) == r.status \in Undecided /\ t < r.expires

\* What an earlier round and a later one of its question have to do with each
\* other, and what a question about to be asked has found.
Superseded(t, table) ==
    \A i, j \in DOMAIN table :
       i < j /\ table[i].key = table[j].key =>
          /\ LiveAt(t, table[i]) =>
               \E m \in DOMAIN table :
                  table[m].key = table[i].key /\ table[m].seen < i /\ i < m
          /\ \E m \in DOMAIN table : table[m].key = table[j].key /\ m <= table[j].seen

FoundDead(t, table, a) ==
    /\ a.seen <= Len(table)
    /\ \A i \in DOMAIN table :
          /\ table[i].key = a.key
          /\ i <= a.seen
          /\ \A j \in DOMAIN table : table[j].key = a.key /\ j <= a.seen => j <= i
          => ~LiveAt(t, table[i])

QuestionsFoundDead(t, table, ask) == \A p \in Procs : \A a \in ask[p] : FoundDead(t, table, a)

\* The live rounds are those of the promise.
LEMMA LiveNow ==
    ASSUME TypeOK
    PROVE  /\ \A i \in DOMAIN rows : Live(rows[i]) <=> LiveAt(now, rows[i])
           /\ TwoRoundsOnlyByRace <=> Superseded(now, rows)
<1>0. now \in Nat /\ \A i \in DOMAIN rows : rows[i] \in Row
  BY DEF TypeOK
<1>1. now \in Nat /\ \A i \in DOMAIN rows : rows[i].expires \in Nat
  BY <1>0 DEF Row
<1>2. \A i \in DOMAIN rows : Live(rows[i]) <=> LiveAt(now, rows[i])
  BY <1>1 DEF Live, Reported, PastDeadline, LiveAt, Undecided
<1>3. TwoRoundsOnlyByRace <=> Superseded(now, rows)
  BY <1>2 DEF TwoRoundsOnlyByRace, Superseded, Rounds
<1>4. QED
  BY <1>2, <1>3

\* Once dead, always dead.
LEMMA DeadStaysDead ==
    ASSUME NEW t \in Nat, NEW r \in Row, NEW s, RowChange(t, r, s), ~LiveAt(t, r)
    PROVE  ~LiveAt(t, s)
BY DEF RowChange, Decided, Closed, Parked, Snoozed, LiveAt, Undecided, Row

\* What create looks at is dead, or there is nothing: so is the newest round that
\* was there when it looked, at that moment.
LEMMA LookFindsDead ==
    ASSUME TypeOK, NEW k \in Keys, MayAsk(k)
    PROVE  FoundDead(now, rows, [key |-> k, at |-> now, seen |-> Len(rows)])
<1>1. DOMAIN rows = 1 .. Len(rows) /\ Len(rows) \in Nat
  BY DEF TypeOK
<1>2. \A i \in DOMAIN rows :
         rows[i].key = k /\ (\A j \in DOMAIN rows : rows[j].key = k => j <= i)
         => ~LiveAt(now, rows[i])
  BY LiveNow DEF MayAsk, Rounds
<1>3. QED
  BY <1>1, <1>2 DEF FoundDead

\* A row inserted after a look keeps the relation between the rounds.
LEMMA InsertSupersedes ==
    ASSUME NEW t \in Nat, NEW table, NEW n \in Nat, NEW new, NEW a \in Question, NEW q,
           Len(table) = n, DOMAIN table = 1 .. n, DOMAIN new = 1 .. n + 1,
           \A i \in DOMAIN table : new[i] = table[i],
           new[n + 1] = Fresh(a, q),
           Superseded(t, table), FoundDead(t, table, a),
           (\A m \in DOMAIN table : table[m].key = a.key => ~(m <= a.seen))
             => \A m \in DOMAIN table : table[m].key # a.key
    PROVE  Superseded(t, new)
<1> SUFFICES ASSUME NEW i \in DOMAIN new, NEW j \in DOMAIN new,
                    i < j, new[i].key = new[j].key
             PROVE  /\ LiveAt(t, new[i]) =>
                          \E m \in DOMAIN new :
                             new[m].key = new[i].key /\ new[m].seen < i /\ i < m
                    /\ \E m \in DOMAIN new : new[m].key = new[j].key /\ m <= new[j].seen
  BY DEF Superseded
<1>1. i \in DOMAIN table /\ new[i] = table[i]
  OBVIOUS
<1>2. CASE j \in DOMAIN table
  <2>1. new[j] = table[j]
    BY <1>2
  <2>2. LiveAt(t, table[i]) =>
          \E m \in DOMAIN table : table[m].key = table[i].key /\ table[m].seen < i /\ i < m
    BY <1>1, <1>2, <2>1 DEF Superseded
  <2>3. \E m \in DOMAIN table : table[m].key = table[j].key /\ m <= table[j].seen
    BY <1>1, <1>2, <2>1 DEF Superseded
  <2>4. QED
    BY <1>1, <2>1, <2>2, <2>3
<1>3. CASE j = n + 1
  <2>1. new[j].key = a.key /\ new[j].seen = a.seen /\ a.seen \in Nat /\ table[i].key = a.key
    BY <1>1, <1>3 DEF Fresh, Question
  <2>2. \E m \in DOMAIN table : table[m].key = a.key /\ m <= a.seen
    BY <1>1, <2>1
  <2>3. CASE a.seen < i
    BY <1>1, <1>3, <2>1, <2>2, <2>3
  <2>4. CASE i <= a.seen
    <3>1. CASE \E m \in DOMAIN table : table[m].key = a.key /\ m <= a.seen /\ i < m
      <4>1. PICK m \in DOMAIN table : table[m].key = a.key /\ m <= a.seen /\ i < m
        BY <3>1
      <4>2. LiveAt(t, table[i]) =>
              \E l \in DOMAIN table : table[l].key = table[i].key /\ table[l].seen < i /\ i < l
        BY <1>1, <2>1, <4>1 DEF Superseded
      <4>3. QED
        BY <1>1, <2>1, <2>2, <4>2
    <3>2. CASE \A m \in DOMAIN table : table[m].key = a.key /\ m <= a.seen => m <= i
      <4>1. ~LiveAt(t, table[i])
        BY <1>1, <2>1, <2>4, <3>2 DEF FoundDead
      <4>2. QED
        BY <1>1, <2>1, <2>2, <4>1
    <3>3. QED
      BY <3>1, <3>2
  <2>5. QED
    BY <1>1, <2>1, <2>3, <2>4
<1>4. QED
  BY <1>2, <1>3

\* Two rounds of a question can be answered at once only when a create looked
\* before the earlier one was there; a new question gets one round.
THEOREM TwoLiveRoundsNeedARace == Spec => []TwoRoundsOnlyByRace
<1> DEFINE IInv == Superseded(now, rows) /\ QuestionsFoundDead(now, rows, asking)
<1>1. Init => IInv
  BY DEF Init, Superseded, QuestionsFoundDead
<1>2. TypeOK /\ IInv /\ [Next]_vars => IInv'
  <2> SUFFICES ASSUME TypeOK, IInv, [Next]_vars
               PROVE  Superseded(now', rows') /\ QuestionsFoundDead(now', rows', asking')
    OBVIOUS
  <2>0. /\ now \in Nat /\ \A i \in DOMAIN rows : rows[i] \in Row
        /\ DOMAIN rows = 1 .. Len(rows) /\ Len(rows) \in Nat
        /\ asking \in [Procs -> SUBSET Question]
    BY DEF TypeOK
  <2>1. CASE RowAdded
    <3>1. PICK p \in Procs, q \in Sizes, a \in Question :
            /\ a \in asking[p]
            /\ Found(a) = {} => Rounds(a.key) = {}
            /\ rows' \in Seq(Row)
            /\ DOMAIN rows' = 1 .. Len(rows) + 1
            /\ \A i \in DOMAIN rows : rows'[i] = rows[i]
            /\ rows'[Len(rows) + 1] = Fresh(a, q)
            /\ now' = now
            /\ asking' = [asking EXCEPT ![p] = {}]
      BY <2>1 DEF RowAdded, TypeOK
    <3>2. a \in Question /\ FoundDead(now, rows, a)
      BY <3>1 DEF QuestionsFoundDead
    <3>3. (\A m \in DOMAIN rows : rows[m].key = a.key => ~(m <= a.seen))
             => \A m \in DOMAIN rows : rows[m].key # a.key
      BY <3>1 DEF Found, Rounds
    <3>4. Superseded(now, rows')
      BY <2>0, <3>1, <3>2, <3>3, InsertSupersedes
    <3>5. ASSUME NEW r \in Procs, NEW b \in asking'[r] PROVE FoundDead(now, rows', b)
      <4>1. b \in asking[r]
        BY <2>0, <3>1
      <4>2. FoundDead(now, rows, b) /\ b.seen \in Nat
        BY <2>0, <4>1 DEF QuestionsFoundDead, Question
      <4>3. Len(rows') = Len(rows) + 1
        BY <2>0, <3>1
      <4>4. \A i \in DOMAIN rows' : i <= b.seen => i \in DOMAIN rows
        BY <2>0, <3>1, <4>2 DEF FoundDead
      <4>5. QED
        BY <2>0, <3>1, <4>2, <4>3, <4>4 DEF FoundDead
    <3>6. QED
      BY <3>1, <3>4, <3>5 DEF QuestionsFoundDead
  <2>2. CASE RowsChanged
    <3>1. \A i \in DOMAIN rows : rows'[i].key = rows[i].key /\ rows'[i].seen = rows[i].seen
      BY <2>2 DEF RowsChanged, RowChange
    <3>2. \A i \in DOMAIN rows : ~LiveAt(now, rows[i]) => ~LiveAt(now, rows'[i])
      BY <2>0, <2>2, DeadStaysDead DEF RowsChanged
    <3>3. DOMAIN rows' = DOMAIN rows /\ Len(rows') = Len(rows) /\ now' = now /\ asking' = asking
      BY <2>0, <2>2 DEF RowsChanged
    <3>4. Superseded(now, rows')
      BY <3>1, <3>2, <3>3 DEF Superseded
    <3>5. QuestionsFoundDead(now, rows', asking)
      BY <3>1, <3>2, <3>3 DEF QuestionsFoundDead, FoundDead
    <3>6. QED
      BY <3>3, <3>4, <3>5
  <2>3. CASE LookedUp
    <3>1. PICK p \in Procs, k \in Keys :
            /\ MayAsk(k)
            /\ asking' = [asking EXCEPT ![p] = {[key |-> k, at |-> now, seen |-> Len(rows)]}]
            /\ rows' = rows
            /\ now' = now
      BY <2>3 DEF LookedUp
    <3>2. FoundDead(now, rows, [key |-> k, at |-> now, seen |-> Len(rows)])
      BY <3>1, LookFindsDead
    <3>3. QED
      BY <2>0, <3>1, <3>2 DEF QuestionsFoundDead
  <2>4. CASE GivenUp
    BY <2>0, <2>4 DEF GivenUp, QuestionsFoundDead
  <2>5. CASE RowsKept
    <3>1. \A i \in DOMAIN rows : ~LiveAt(now, rows[i]) => ~LiveAt(now', rows[i])
      BY <2>0, <2>5 DEF RowsKept, LiveAt, Row
    <3>2. Superseded(now', rows)
      BY <3>1 DEF Superseded
    <3>3. QuestionsFoundDead(now', rows, asking)
      BY <3>1 DEF QuestionsFoundDead, FoundDead
    <3>4. QED
      BY <2>5, <3>2, <3>3 DEF RowsKept
  <2>6. QED
    BY <2>1, <2>2, <2>3, <2>4, <2>5, EveryStep
<1>3. TypeOK /\ IInv => TwoRoundsOnlyByRace
  BY LiveNow
<1>4. QED
  BY <1>1, <1>2, <1>3, TypeCorrect, PTL DEF Spec

\* "Responses are idempotent": nothing ever touches a decided row again.
THEOREM DecisionsAreFinal == Spec => DecidedRowIsFrozen
<1>1. TypeOK /\ [Next]_vars =>
        [\A i \in DOMAIN rows : rows[i].status \in Terminal => rows'[i] = rows[i]]_vars
  <2> SUFFICES ASSUME TypeOK, [Next]_vars, NEW i \in DOMAIN rows,
                      rows[i].status \in Terminal
               PROVE  rows'[i] = rows[i]
    OBVIOUS
  <2>1. CASE RowAdded
    BY <2>1 DEF RowAdded
  <2>2. CASE RowsChanged
    BY <2>2 DEF RowsChanged, RowChange, Terminal, Undecided
  <2>3. CASE LookedUp \/ GivenUp \/ RowsKept
    BY <2>3 DEF LookedUp, GivenUp, RowsKept
  <2>4. QED
    BY <2>1, <2>2, <2>3, EveryStep
<1>2. QED
  BY <1>1, TypeCorrect, PTL DEF Spec, DecidedRowIsFrozen

-----------------------------------------------------------------------------
\* AsPromised as a relation between an instant and a table.
Promised(t, r) ==
    [key |-> r.key,
     state |-> IF LiveAt(t, r) THEN "open"
               ELSE IF r.status = "approved" THEN "authorised" ELSE "refused",
     deadline |-> r.expires,
     extensions |-> r.snoozes]

View(t, table) == [i \in DOMAIN table |-> Promised(t, table[i])]

\* The refinement mapping is the view of the table at this instant.
LEMMA ViewNow == ASSUME TypeOK PROVE AsPromised = View(now, rows)
BY LiveNow DEF AsPromised, View, Promised

\* An extension, field by field.
LEMMA ExtendedRequest ==
    ASSUME NEW p, NEW s, NEW k, NEW st, NEW d \in Nat, NEW x \in Nat,
           p = [key |-> k, state |-> st, deadline |-> d, extensions |-> x],
           s = [key |-> k, state |-> st, deadline |-> d + SnoozeTime, extensions |-> x + 1]
    PROVE  s = [p EXCEPT !.deadline = @ + SnoozeTime, !.extensions = @ + 1]
<1> DEFINE e == p.deadline + SnoozeTime
           y == p.extensions + 1
<1>1. e = d + SnoozeTime /\ y = x + 1
  OBVIOUS
<1> HIDE DEF e, y
<1>2. [p EXCEPT !.deadline = e]
      = [key |-> k, state |-> st, deadline |-> e, extensions |-> x]
  OBVIOUS
<1>3. [[key |-> k, state |-> st, deadline |-> e, extensions |-> x] EXCEPT !.extensions = y]
      = [key |-> k, state |-> st, deadline |-> e, extensions |-> y]
  OBVIOUS
<1>4. [p EXCEPT !.deadline = e, !.extensions = y]
      = [key |-> k, state |-> st, deadline |-> e, extensions |-> y]
  BY <1>2, <1>3
<1>5. s = [key |-> k, state |-> st, deadline |-> e, extensions |-> y]
  BY <1>1, Zenon
<1>6. QED
  BY <1>4, <1>5, Zenon DEF e, y

\* A step of the service is a step of the promise, or invisible in it.
LEMMA StepKeepsPromise ==
    ASSUME TypeOK, TypeOK', [Next]_vars
    PROVE  [Promise!Next]_(Promise!vars)
<1>0. now \in Nat /\ rows \in Seq(Row) /\ \A i \in DOMAIN rows : rows[i] \in Row
  BY DEF TypeOK
<1>1. AsPromised = View(now, rows) /\ AsPromised' = View(now', rows')
  <2>1. now' \in Nat /\ \A i \in DOMAIN rows' : rows'[i] \in Row
    BY DEF TypeOK
  <2>2. \A i \in DOMAIN rows' : rows'[i].expires \in Nat
    BY <2>1 DEF Row
  <2>3. AsPromised' = View(now', rows')
    BY <2>1, <2>2 DEF AsPromised, View, Promised, Live, Reported, PastDeadline, LiveAt, Undecided
  <2>4. QED
    BY <2>3, ViewNow
<1>2. CASE RowAdded
  <2>1. PICK p \in Procs, q \in Sizes, a \in Question :
           /\ a \in asking[p]
           /\ Found(a) = {} => Rounds(a.key) = {}
           /\ DOMAIN rows = 1 .. Len(rows)
           /\ DOMAIN rows' = 1 .. Len(rows) + 1
           /\ \A i \in DOMAIN rows : rows'[i] = rows[i]
           /\ rows'[Len(rows) + 1] = Fresh(a, q)
           /\ now' = now
           /\ asking' = [asking EXCEPT ![p] = {}]
    BY <1>2 DEF RowAdded, TypeOK
  <2>2. a.at \in Nat
    BY DEF TypeOK, Question
  <2>3. Promised(now, Fresh(a, q)) =
          [key |-> a.key, state |-> IF now < a.at + Timeout THEN "open" ELSE "refused",
           deadline |-> a.at + Timeout, extensions |-> 0]
    BY <1>0, <2>2 DEF Promised, Fresh, LiveAt, Undecided
  <2>4. View(now, rows') =
          Append(View(now, rows),
                 [key |-> a.key, state |-> IF now < a.at + Timeout THEN "open" ELSE "refused",
                  deadline |-> a.at + Timeout, extensions |-> 0])
    BY <1>0, <2>1, <2>3 DEF View
  <2>5. Promise!Requests(a.key) # {} => \E i \in Promise!Requests(a.key) : i <= a.seen
    BY <1>1, <2>1 DEF Promise!Requests, View, Promised, Found, Rounds
  <2>6. Promise!Ask(p)
    BY <1>1, <2>1, <2>4, <2>5 DEF Promise!Ask
  <2>7. QED
    BY <2>6 DEF Promise!Next
<1>3. CASE RowChanged
  <2>1. PICK i \in DOMAIN rows, s \in Row :
           /\ RowChange(now, rows[i], s)
           /\ rows' = [rows EXCEPT ![i] = s]
           /\ now' = now
           /\ asking' = asking
    BY <1>3 DEF RowChanged
  <2>2. View(now, rows') = [View(now, rows) EXCEPT ![i] = Promised(now, s)]
    BY <1>0, <2>1 DEF View
  <2>3. View(now, rows)[i] = Promised(now, rows[i]) /\ i \in DOMAIN View(now, rows)
    BY DEF View
  <2>4. rows[i] \in Row /\ rows[i].status # "approved"
    BY <1>0, <2>1 DEF RowChange, Undecided
  <2>5. CASE Promised(now, s) = Promised(now, rows[i])
    <3>1. View(now, rows') = View(now, rows)
      BY <2>2, <2>3, <2>5 DEF View
    <3>2. QED
      BY <1>1, <2>1, <3>1 DEF Promise!vars
  <2>6. ASSUME NEW outcome \in {"authorised", "refused"}, LiveAt(now, rows[i]),
               Promised(now, s) = [Promised(now, rows[i]) EXCEPT !.state = outcome]
        PROVE  Promise!Next
    <3>1. Promised(now, rows[i]).state = "open"
      BY <2>6 DEF Promised
    <3>2. Promise!Decide(i, outcome)
      BY <1>1, <2>1, <2>2, <2>3, <2>6, <3>1 DEF Promise!Decide
    <3>3. QED
      BY <1>1, <2>3, <3>2 DEF Promise!Next
  <2>7. CASE Decided(now, rows[i], s)
    <3>1. LiveAt(now, rows[i])
      BY <2>1, <2>7 DEF Decided, RowChange, LiveAt
    <3>2. \E outcome \in {"authorised", "refused"} :
             Promised(now, s) = [Promised(now, rows[i]) EXCEPT !.state = outcome]
      BY <2>1, <2>7 DEF Decided, RowChange, Promised, LiveAt, Undecided
    <3>3. QED
      BY <2>6, <3>1, <3>2
  <2>8. CASE Closed(rows[i], s)
    <3>1. Promised(now, s) = [Promised(now, rows[i]) EXCEPT !.state = "refused"]
      BY <2>1, <2>8 DEF Closed, RowChange, Promised, LiveAt, Undecided
    <3>2. CASE LiveAt(now, rows[i])
      BY <2>6, <3>1, <3>2
    <3>3. CASE ~LiveAt(now, rows[i])
      <4>1. Promised(now, s) = Promised(now, rows[i])
        BY <2>1, <2>4, <2>8, <3>3 DEF Closed, RowChange, Promised, LiveAt, Undecided
      <4>2. QED
        BY <2>5, <4>1
    <3>4. QED
      BY <3>2, <3>3
  <2>9. CASE Parked(rows[i], s)
    <3>1. Promised(now, s) = Promised(now, rows[i])
      BY <2>1, <2>9 DEF Parked, RowChange, Promised, LiveAt, Undecided
    <3>2. QED
      BY <2>5, <3>1
  <2>10. CASE Snoozed(now, rows[i], s)
    <3>1. Promised(now, rows[i]).state = "open" /\ Promised(now, rows[i]).extensions < MaxSnoozes
      BY <2>1, <2>10 DEF Snoozed, RowChange, Promised, LiveAt
    <3>2. Promised(now, s) = [Promised(now, rows[i]) EXCEPT
                                !.deadline = @ + SnoozeTime, !.extensions = @ + 1]
      <4>1. rows[i].expires \in Nat
        BY <2>4 DEF Row
      <4>2. LiveAt(now, rows[i]) /\ LiveAt(now, s)
        BY <1>0, <2>1, <2>10, <4>1 DEF Snoozed, RowChange, LiveAt
      <4>3. s.key = rows[i].key /\ s.snoozes = rows[i].snoozes + 1
            /\ s.expires = rows[i].expires + SnoozeTime
        BY <2>1, <2>10 DEF Snoozed, RowChange
      <4>4. /\ Promised(now, rows[i]) =
                  [key |-> rows[i].key, state |-> "open",
                   deadline |-> rows[i].expires, extensions |-> rows[i].snoozes]
            /\ Promised(now, s) =
                  [key |-> rows[i].key, state |-> "open",
                   deadline |-> rows[i].expires + SnoozeTime,
                   extensions |-> rows[i].snoozes + 1]
        BY <4>2, <4>3 DEF Promised
      <4>5. rows[i].snoozes \in Nat
        BY <2>4 DEF Row
      <4> HIDE DEF Promised
      <4>6. QED
        BY <4>1, <4>4, <4>5, ExtendedRequest, Zenon
    <3>3. Promise!Extend(i)
      BY <1>1, <2>1, <2>2, <2>3, <3>1, <3>2 DEF Promise!Extend
    <3>4. QED
      BY <1>1, <2>3, <3>3 DEF Promise!Next
  <2>11. QED
    BY <2>1, <2>7, <2>8, <2>9, <2>10 DEF RowChange
<1>4. CASE RowsSwept
  <2>1. ASSUME NEW i \in DOMAIN rows PROVE Promised(now, rows'[i]) = Promised(now, rows[i])
    <3>1. CASE rows'[i] = rows[i]
      BY <3>1
    <3>2. CASE rows'[i] # rows[i]
      <4>1. /\ RowChange(now, rows[i], rows'[i])
            /\ Closed(rows[i], rows'[i])
            /\ rows[i].expires <= now
        BY <1>4, <3>2 DEF RowsSwept, RowsChanged
      <4>2. rows[i].expires \in Nat
        BY <1>0 DEF Row
      <4>3. ~LiveAt(now, rows[i]) /\ ~LiveAt(now, rows'[i])
        BY <1>0, <4>1, <4>2 DEF Closed, LiveAt
      <4>4. rows[i].status # "approved" /\ rows'[i].status # "approved"
        BY <4>1 DEF RowChange, Closed, Undecided
      <4>5. QED
        BY <4>1, <4>3, <4>4 DEF Promised, RowChange, Closed
    <3>3. QED
      BY <3>1, <3>2
  <2>2. View(now, rows') = View(now, rows) /\ now' = now /\ asking' = asking
    BY <1>4, <2>1 DEF RowsSwept, RowsChanged, View
  <2>3. QED
    BY <1>1, <2>2 DEF Promise!vars
<1>5. CASE RowsKept
  <2>1. CASE now' = now
    BY <1>1, <1>5, <2>1 DEF RowsKept, Promise!vars
  <2>2. CASE now' = now + 1
    <3>1. \A i \in DOMAIN rows :
             Promised(now', rows[i]) =
               IF Promised(now, rows[i]).state = "open"
                    /\ Promised(now, rows[i]).deadline <= now'
               THEN [Promised(now, rows[i]) EXCEPT !.state = "refused"]
               ELSE Promised(now, rows[i])
      <4> SUFFICES ASSUME NEW i \in DOMAIN rows
                   PROVE  Promised(now', rows[i]) =
                            IF Promised(now, rows[i]).state = "open"
                                 /\ Promised(now, rows[i]).deadline <= now'
                            THEN [Promised(now, rows[i]) EXCEPT !.state = "refused"]
                            ELSE Promised(now, rows[i])
        OBVIOUS
      <4>1. rows[i].expires \in Nat
        BY <1>0 DEF Row
      <4>2. CASE LiveAt(now, rows[i])
        BY <1>0, <2>2, <4>1, <4>2 DEF Promised, LiveAt, Undecided
      <4>3. CASE ~LiveAt(now, rows[i])
        <5>1. ~LiveAt(now', rows[i])
          BY <1>0, <2>2, <4>1, <4>3 DEF LiveAt
        <5>2. QED
          BY <4>3, <5>1 DEF Promised
      <4>4. QED
        BY <4>2, <4>3
    <3>2. Promise!Pass
      BY <1>1, <1>5, <2>2, <3>1 DEF RowsKept, View, Promise!Pass
    <3>3. QED
      BY <3>2 DEF Promise!Next
  <2>3. QED
    BY <1>5, <2>1, <2>2 DEF RowsKept
<1>6. CASE LookedUp
  <2>1. PICK p \in Procs, k \in Keys :
          /\ asking[p] = {}
          /\ MayAsk(k)
          /\ asking' = [asking EXCEPT ![p] = {[key |-> k, at |-> now, seen |-> Len(rows)]}]
          /\ rows' = rows
          /\ now' = now
    BY <1>6 DEF LookedUp
  <2>2. Len(View(now, rows)) = Len(rows) /\ View(now, rows') = View(now, rows)
    BY <1>0, <2>1 DEF View
  <2>3. \A i \in DOMAIN rows : Live(rows[i]) <=> Promised(now, rows[i]).state = "open"
    BY LiveNow DEF Promised
  <2>4. \A i \in Promise!Requests(k) :
           (\A j \in Promise!Requests(k) : j <= i) => AsPromised[i].state # "open"
    BY <1>1, <2>1, <2>3 DEF Promise!Requests, MayAsk, Rounds, View, Promised
  <2>5. Promise!Look(p, k)
    BY <1>1, <2>1, <2>2, <2>4 DEF Promise!Look
  <2>6. QED
    BY <2>5 DEF Promise!Next
<1>7. CASE GivenUp
  <2>1. PICK p \in Procs :
          /\ asking' = [asking EXCEPT ![p] = {}]
          /\ rows' = rows
          /\ now' = now
    BY <1>7 DEF GivenUp
  <2>2. Promise!GiveUp(p)
    BY <1>1, <2>1 DEF Promise!GiveUp
  <2>3. QED
    BY <2>2 DEF Promise!Next
<1>8. QED
  BY <1>2, <1>3, <1>4, <1>5, <1>6, <1>7, EveryStepInDetail

\* What readers of the service see keeps the promise of ApprovalPromise: in
\* particular a request fails closed whether or not the sweeper ever runs.
THEOREM Refinement == Spec => ImplementsPromise
<1>1. Init => Promise!Init
  BY DEF Init, Promise!Init, AsPromised
<1>2. TypeOK /\ TypeOK' /\ [Next]_vars => [Promise!Next]_(Promise!vars)
  BY StepKeepsPromise
<1>3. QED
  BY <1>1, <1>2, TypeCorrect, PTL DEF Spec, ImplementsPromise, Promise!Spec
=============================================================================
