----------------------------- MODULE Orders_proofs -----------------------------
(***************************************************************************)
(* Proofs about Orders.tla, for any processes, keys and number of faults.  *)
(*                                                                         *)
(* Neither typing nor the safety properties are inductive alone: what a    *)
(* process fetches is typed because a known row has an order in the book,  *)
(* and a key is submitted once because the process that inserted its row   *)
(* is the only one that may submit it.  IInv says so.                      *)
(***************************************************************************)
EXTENDS Orders, TLAPS

USE OrderAssumption

Pending == [status |-> "pending", known |-> FALSE]

\* No row, no call; no call, no order.
Untouched ==
    \A k \in Keys :
       /\ orders[k] = NoRow => calls[k] = 0
       /\ calls[k] = 0 => broker[k] = "none"

\* A row that carries a broker id names an order in the book, and what
\* reconcile is about to read or write has carried one since it was listed.
KnownRows ==
    /\ \A k \in Keys : orders[k].known => broker[k] # "none"
    /\ \A p \in Procs : pc[p] \in {"reconcile", "write"} =>
          \A k \in todo[p] : orders[k].known
    /\ \A p \in Procs : pc[p] = "write" => orders[work[p]].known /\ answer[p].known

\* From its insert to its update a row belongs to one process.
Submitting(p) == pc[p] \in {"submit", "update"}

SoleSubmitter ==
    /\ \A p \in Procs : Submitting(p) => orders[work[p]] = Pending
    /\ \A p \in Procs : pc[p] = "submit" => calls[work[p]] = 0
    /\ \A p, q \in Procs :
          Submitting(p) /\ Submitting(q) /\ work[p] = work[q] => p = q

\* An answer held but not written yet is at most out of date.
HeldAnswers ==
    \A p \in Procs : pc[p] \in {"update", "write"} =>
       /\ answer[p].known => broker[work[p]] # "none"
       /\ answer[p].status \in Finished => broker[work[p]] = answer[p].status

IInv ==
    /\ TypeOK
    /\ Untouched
    /\ AtMostOneSubmission
    /\ KnownRows
    /\ SoleSubmitter
    /\ HeldAnswers
    /\ TruthfulTerminal

\* The initial states satisfy the inductive invariant.
LEMMA InitIInv == Init => IInv
BY DEF Init, IInv, TypeOK, Untouched, AtMostOneSubmission, KnownRows, SoleSubmitter,
       Submitting, HeldAnswers, TruthfulTerminal, Row, NoRow, Answer, Rejected, Steps,
       Working, Finished

\* Every step keeps it: one step per action.
LEMMA StepIInv == IInv /\ [Next]_vars => IInv'
<1> SUFFICES ASSUME IInv, [Next]_vars PROVE IInv'
  OBVIOUS
<1> USE DEF Row, NoRow, Pending, Answer, Rejected, Seen, Steps, Working, Finished
<1>1. ASSUME NEW p \in Procs, StartCycle(p) PROVE IInv'
  BY <1>1 DEF StartCycle, Reconcilable, IInv, TypeOK, Untouched, AtMostOneSubmission,
     KnownRows, SoleSubmitter, Submitting, HeldAnswers, TruthfulTerminal
<1>2. ASSUME NEW p \in Procs, NEW k \in Keys, Fetch(p, k) PROVE IInv'
  <2>1. TypeOK'
    BY <1>2 DEF IInv, Fetch, TypeOK, KnownRows
  <2>2. Untouched'
    BY <1>2 DEF IInv, Fetch, TypeOK, Untouched, SoleSubmitter, Submitting
  <2>3. AtMostOneSubmission'
    BY <1>2 DEF IInv, Fetch, TypeOK, AtMostOneSubmission, SoleSubmitter,
        Submitting
  <2>4. KnownRows'
    BY <1>2 DEF IInv, Fetch, TypeOK, Untouched, KnownRows, SoleSubmitter,
        Submitting, HeldAnswers
  <2>5. SoleSubmitter'
    BY <1>2 DEF IInv, Fetch, TypeOK, Untouched, KnownRows, SoleSubmitter,
        Submitting
  <2>6. HeldAnswers'
    BY <1>2 DEF IInv, Fetch, TypeOK, Untouched, KnownRows, SoleSubmitter,
        Submitting, HeldAnswers
  <2>7. TruthfulTerminal'
    BY <1>2 DEF IInv, Fetch, TypeOK, Untouched, KnownRows, SoleSubmitter,
        Submitting, HeldAnswers, TruthfulTerminal
  <2>8. QED
    BY <2>1, <2>2, <2>3, <2>4, <2>5, <2>6, <2>7 DEF IInv
<1>3. ASSUME NEW p \in Procs, WriteBack(p) PROVE IInv'
  <2>1. TypeOK'
    BY <1>3 DEF IInv, WriteBack, TypeOK, KnownRows
  <2>2. Untouched'
    BY <1>3 DEF IInv, WriteBack, TypeOK, Untouched, SoleSubmitter, Submitting
  <2>3. AtMostOneSubmission'
    BY <1>3 DEF IInv, WriteBack, TypeOK, AtMostOneSubmission,
        SoleSubmitter, Submitting
  <2>4. KnownRows'
    BY <1>3 DEF IInv, WriteBack, TypeOK, Untouched, KnownRows,
        SoleSubmitter, Submitting, HeldAnswers
  <2>5. SoleSubmitter'
    BY <1>3 DEF IInv, WriteBack, TypeOK, Untouched, KnownRows,
        SoleSubmitter, Submitting
  <2>6. HeldAnswers'
    BY <1>3 DEF IInv, WriteBack, TypeOK, Untouched, KnownRows,
        SoleSubmitter, Submitting, HeldAnswers
  <2>7. TruthfulTerminal'
    BY <1>3 DEF IInv, WriteBack, TypeOK, Untouched, KnownRows,
        SoleSubmitter, Submitting, HeldAnswers, TruthfulTerminal
  <2>8. QED
    BY <2>1, <2>2, <2>3, <2>4, <2>5, <2>6, <2>7 DEF IInv
<1>4. ASSUME NEW p \in Procs, EndReconcile(p) PROVE IInv'
  BY <1>4 DEF EndReconcile, IInv, TypeOK, Untouched, AtMostOneSubmission,
     KnownRows, SoleSubmitter, Submitting, HeldAnswers, TruthfulTerminal
<1>5. ASSUME NEW p \in Procs, EndStale(p) PROVE IInv'
  BY <1>5 DEF EndStale, IInv, TypeOK, Untouched, AtMostOneSubmission,
     KnownRows, SoleSubmitter, Submitting, HeldAnswers, TruthfulTerminal
<1>6. ASSUME NEW p \in Procs, EndCycle(p) PROVE IInv'
  BY <1>6 DEF EndCycle, IInv, TypeOK, Untouched, AtMostOneSubmission,
     KnownRows, SoleSubmitter, Submitting, HeldAnswers, TruthfulTerminal
<1>7. ASSUME NEW p \in Procs, NEW k \in Keys, Pass(p, k) PROVE IInv'
  BY <1>7 DEF Pass, IInv, TypeOK, Untouched, AtMostOneSubmission,
     KnownRows, SoleSubmitter, Submitting, HeldAnswers, TruthfulTerminal
<1>8. ASSUME NEW p \in Procs, NEW k \in Keys, Consider(p, k) PROVE IInv'
  BY <1>8 DEF Consider, IInv, TypeOK, Untouched, AtMostOneSubmission,
     KnownRows, SoleSubmitter, Submitting, HeldAnswers, TruthfulTerminal
<1>9. ASSUME NEW p \in Procs, Record(p) PROVE IInv'
  <2>1. TypeOK'
    BY <1>9 DEF IInv, Record, TypeOK, KnownRows
  <2>2. Untouched'
    BY <1>9 DEF IInv, Record, TypeOK, Untouched, SoleSubmitter, Submitting
  <2>3. AtMostOneSubmission'
    BY <1>9 DEF IInv, Record, TypeOK, AtMostOneSubmission, SoleSubmitter,
        Submitting
  <2>4. KnownRows'
    BY <1>9 DEF IInv, Record, TypeOK, Untouched, KnownRows, SoleSubmitter,
        Submitting, HeldAnswers
  <2>5. SoleSubmitter'
    BY <1>9 DEF IInv, Record, TypeOK, Untouched, KnownRows, SoleSubmitter,
        Submitting
  <2>6. HeldAnswers'
    BY <1>9 DEF IInv, Record, TypeOK, Untouched, KnownRows, SoleSubmitter,
        Submitting, HeldAnswers
  <2>7. TruthfulTerminal'
    BY <1>9 DEF IInv, Record, TypeOK, Untouched, KnownRows, SoleSubmitter,
        Submitting, HeldAnswers, TruthfulTerminal
  <2>8. QED
    BY <2>1, <2>2, <2>3, <2>4, <2>5, <2>6, <2>7 DEF IInv
<1>10. ASSUME NEW p \in Procs, RecordDuplicate(p) PROVE IInv'
  BY <1>10 DEF RecordDuplicate, IInv, TypeOK, Untouched, AtMostOneSubmission,
     KnownRows, SoleSubmitter, Submitting, HeldAnswers, TruthfulTerminal
<1>11. ASSUME NEW p \in Procs, NEW s \in {"open", "filled"}, SubmitAccepted(p, s) PROVE IInv'
  <2>1. TypeOK'
    BY <1>11 DEF IInv, SubmitAccepted, TypeOK, KnownRows
  <2>2. Untouched'
    BY <1>11 DEF IInv, SubmitAccepted, TypeOK, Untouched, SoleSubmitter,
        Submitting
  <2>3. AtMostOneSubmission'
    BY <1>11 DEF IInv, SubmitAccepted, TypeOK, AtMostOneSubmission,
        SoleSubmitter, Submitting
  <2>4. KnownRows'
    BY <1>11 DEF IInv, SubmitAccepted, TypeOK, Untouched, KnownRows,
        SoleSubmitter, Submitting, HeldAnswers
  <2>5. SoleSubmitter'
    BY <1>11 DEF IInv, SubmitAccepted, TypeOK, Untouched, KnownRows,
        SoleSubmitter, Submitting
  <2>6. HeldAnswers'
    BY <1>11 DEF IInv, SubmitAccepted, TypeOK, Untouched, KnownRows,
        SoleSubmitter, Submitting, HeldAnswers
  <2>7. TruthfulTerminal'
    BY <1>11 DEF IInv, SubmitAccepted, TypeOK, Untouched, KnownRows,
        SoleSubmitter, Submitting, HeldAnswers, TruthfulTerminal
  <2>8. QED
    BY <2>1, <2>2, <2>3, <2>4, <2>5, <2>6, <2>7 DEF IInv
<1>12. ASSUME NEW p \in Procs, SubmitRefused(p) PROVE IInv'
  <2>1. TypeOK'
    BY <1>12 DEF IInv, SubmitRefused, TypeOK, KnownRows
  <2>2. Untouched'
    BY <1>12 DEF IInv, SubmitRefused, TypeOK, Untouched, SoleSubmitter,
        Submitting
  <2>3. AtMostOneSubmission'
    BY <1>12 DEF IInv, SubmitRefused, TypeOK, AtMostOneSubmission,
        SoleSubmitter, Submitting
  <2>4. KnownRows'
    BY <1>12 DEF IInv, SubmitRefused, TypeOK, Untouched, KnownRows,
        SoleSubmitter, Submitting, HeldAnswers
  <2>5. SoleSubmitter'
    BY <1>12 DEF IInv, SubmitRefused, TypeOK, Untouched, KnownRows,
        SoleSubmitter, Submitting
  <2>6. HeldAnswers'
    BY <1>12 DEF IInv, SubmitRefused, TypeOK, Untouched, KnownRows,
        SoleSubmitter, Submitting, HeldAnswers
  <2>7. TruthfulTerminal'
    BY <1>12 DEF IInv, SubmitRefused, TypeOK, Untouched, KnownRows,
        SoleSubmitter, Submitting, HeldAnswers, TruthfulTerminal
  <2>8. QED
    BY <2>1, <2>2, <2>3, <2>4, <2>5, <2>6, <2>7 DEF IInv
<1>13. ASSUME NEW p \in Procs, SubmitTimedOut(p) PROVE IInv'
  <2>1. TypeOK'
    BY <1>13 DEF IInv, SubmitTimedOut, TypeOK, KnownRows
  <2>2. Untouched'
    BY <1>13 DEF IInv, SubmitTimedOut, TypeOK, Untouched, SoleSubmitter,
        Submitting
  <2>3. AtMostOneSubmission'
    BY <1>13 DEF IInv, SubmitTimedOut, TypeOK, AtMostOneSubmission,
        SoleSubmitter, Submitting
  <2>4. KnownRows'
    BY <1>13 DEF IInv, SubmitTimedOut, TypeOK, Untouched, KnownRows,
        SoleSubmitter, Submitting, HeldAnswers
  <2>5. SoleSubmitter'
    BY <1>13 DEF IInv, SubmitTimedOut, TypeOK, Untouched, KnownRows,
        SoleSubmitter, Submitting
  <2>6. HeldAnswers'
    BY <1>13 DEF IInv, SubmitTimedOut, TypeOK, Untouched, KnownRows,
        SoleSubmitter, Submitting, HeldAnswers
  <2>7. TruthfulTerminal'
    BY <1>13 DEF IInv, SubmitTimedOut, TypeOK, Untouched, KnownRows,
        SoleSubmitter, Submitting, HeldAnswers, TruthfulTerminal
  <2>8. QED
    BY <2>1, <2>2, <2>3, <2>4, <2>5, <2>6, <2>7 DEF IInv
<1>14. ASSUME NEW p \in Procs, Update(p) PROVE IInv'
  <2>1. TypeOK'
    BY <1>14 DEF IInv, Update, TypeOK, KnownRows
  <2>2. Untouched'
    <3>1. answer[p].status # "none"
      BY DEF IInv, TypeOK
    <3>2. \A k \in Keys : orders'[k] = NoRow => orders[k] = NoRow
      BY <1>14, <3>1 DEF IInv, Update, TypeOK
    <3>3. QED
      BY <1>14, <3>2 DEF IInv, Update, Untouched
  <2>3. AtMostOneSubmission'
    BY <1>14 DEF IInv, Update, TypeOK, AtMostOneSubmission, SoleSubmitter,
        Submitting
  <2>4. KnownRows'
    BY <1>14 DEF IInv, Update, TypeOK, Untouched, KnownRows, SoleSubmitter,
        Submitting, HeldAnswers
  <2>5. SoleSubmitter'
    BY <1>14 DEF IInv, Update, TypeOK, Untouched, KnownRows, SoleSubmitter,
        Submitting
  <2>6. HeldAnswers'
    BY <1>14 DEF IInv, Update, TypeOK, Untouched, KnownRows, SoleSubmitter,
        Submitting, HeldAnswers
  <2>7. TruthfulTerminal'
    BY <1>14 DEF IInv, Update, TypeOK, Untouched, KnownRows, SoleSubmitter,
        Submitting, HeldAnswers, TruthfulTerminal
  <2>8. QED
    BY <2>1, <2>2, <2>3, <2>4, <2>5, <2>6, <2>7 DEF IInv
<1>15. ASSUME NEW p \in Procs, NEW k \in Keys, FetchFailed(p, k) PROVE IInv'
  BY <1>15 DEF FetchFailed, IInv, TypeOK, Untouched, AtMostOneSubmission,
     KnownRows, SoleSubmitter, Submitting, HeldAnswers, TruthfulTerminal
<1>16. ASSUME NEW p \in Procs, NEW k \in Keys, CancelStale(p, k) PROVE IInv'
  <2>1. TypeOK'
    BY <1>16 DEF IInv, CancelStale, TypeOK, KnownRows
  <2>2. Untouched'
    BY <1>16 DEF IInv, CancelStale, TypeOK, Untouched, SoleSubmitter,
        Submitting
  <2>3. AtMostOneSubmission'
    BY <1>16 DEF IInv, CancelStale, TypeOK, AtMostOneSubmission,
        SoleSubmitter, Submitting
  <2>4. KnownRows'
    BY <1>16 DEF IInv, CancelStale, TypeOK, Untouched, KnownRows,
        SoleSubmitter, Submitting, HeldAnswers
  <2>5. SoleSubmitter'
    BY <1>16 DEF IInv, CancelStale, TypeOK, Untouched, KnownRows,
        SoleSubmitter, Submitting
  <2>6. HeldAnswers'
    BY <1>16 DEF IInv, CancelStale, TypeOK, Untouched, KnownRows,
        SoleSubmitter, Submitting, HeldAnswers
  <2>7. TruthfulTerminal'
    BY <1>16 DEF IInv, CancelStale, TypeOK, Untouched, KnownRows,
        SoleSubmitter, Submitting, HeldAnswers, TruthfulTerminal
  <2>8. QED
    BY <2>1, <2>2, <2>3, <2>4, <2>5, <2>6, <2>7 DEF IInv
<1>17. ASSUME NEW p \in Procs, Crash(p) PROVE IInv'
  BY <1>17 DEF Crash, IInv, TypeOK, Untouched, AtMostOneSubmission,
     KnownRows, SoleSubmitter, Submitting, HeldAnswers, TruthfulTerminal
<1>18. ASSUME NEW k \in Keys, NEW s \in Working \cup Finished, BrokerMoves(k, s) PROVE IInv'
  <2>1. TypeOK'
    BY <1>18 DEF IInv, BrokerMoves, TypeOK, KnownRows
  <2>2. Untouched'
    BY <1>18 DEF IInv, BrokerMoves, TypeOK, Untouched, SoleSubmitter,
        Submitting
  <2>3. AtMostOneSubmission'
    BY <1>18 DEF IInv, BrokerMoves, TypeOK, AtMostOneSubmission,
        SoleSubmitter, Submitting
  <2>4. KnownRows'
    BY <1>18 DEF IInv, BrokerMoves, TypeOK, Untouched, KnownRows,
        SoleSubmitter, Submitting, HeldAnswers
  <2>5. SoleSubmitter'
    BY <1>18 DEF IInv, BrokerMoves, TypeOK, Untouched, KnownRows,
        SoleSubmitter, Submitting
  <2>6. HeldAnswers'
    BY <1>18 DEF IInv, BrokerMoves, TypeOK, Untouched, KnownRows,
        SoleSubmitter, Submitting, HeldAnswers
  <2>7. TruthfulTerminal'
    BY <1>18 DEF IInv, BrokerMoves, TypeOK, Untouched, KnownRows,
        SoleSubmitter, Submitting, HeldAnswers, TruthfulTerminal
  <2>8. QED
    BY <2>1, <2>2, <2>3, <2>4, <2>5, <2>6, <2>7 DEF IInv
<1>19. CASE UNCHANGED vars
  BY <1>19 DEF vars, IInv, TypeOK, Untouched, AtMostOneSubmission, KnownRows,
     SoleSubmitter, Submitting, HeldAnswers, TruthfulTerminal
<1>20. QED
  BY <1>1, <1>2, <1>3, <1>4, <1>5, <1>6, <1>7, <1>8, <1>9, <1>10,
     <1>11, <1>12, <1>13, <1>14, <1>15, <1>16, <1>17, <1>18, <1>19
     DEF Next, Advance

\* It holds in every reachable state.
LEMMA OrdersInvariant == Spec => []IInv
BY InitIInv, StepIInv, PTL DEF Spec

\* The orders table, the book and the processes are always well typed.
THEOREM OrdersTypeCorrect == Spec => []TypeOK
<1>1. IInv => TypeOK
  BY DEF IInv
<1>2. QED
  BY <1>1, OrdersInvariant, PTL

\* No key is ever submitted twice, whatever processes race, crash or retry.
THEOREM SubmittedAtMostOnce == Spec => []AtMostOneSubmission
<1>1. IInv => AtMostOneSubmission
  BY DEF IInv
<1>2. QED
  BY <1>1, OrdersInvariant, PTL

\* No call to the broker without a row that names it.
THEOREM WrittenAhead == Spec => []WriteAhead
<1>1. IInv => WriteAhead
  BY DEF IInv, Untouched, WriteAhead
<1>2. QED
  BY <1>1, OrdersInvariant, PTL

\* A row that reads filled or cancelled agrees with the broker.
THEOREM TerminalRowsAreTrue == Spec => []TruthfulTerminal
<1>1. IInv => TruthfulTerminal
  BY DEF IInv
<1>2. QED
  BY <1>1, OrdersInvariant, PTL

\* A submission belongs to one process: between the insert and the update of a
\* row nobody else writes it.
THEOREM OneSubmitterPerKey == Spec => []SoleSubmitter
<1>1. IInv => SoleSubmitter
  BY DEF IInv
<1>2. QED
  BY <1>1, OrdersInvariant, PTL
-----------------------------------------------------------------------------
(* The refinement of OrderPromise.                                         *)

\* A row with a broker id repeats an answer, and an answer in hand does not run
\* ahead of the order it is about.
Repeats ==
    /\ \A k \in Keys : orders[k].known => orders[k].status \in Working \cup Finished
    /\ \A p \in Procs : answer[p].known <=> answer[p].status # "rejected"
    /\ \A p \in Procs : pc[p] = "update" => calls[work[p]] > 0
    /\ \A p \in Procs : pc[p] \in {"update", "write"} /\ answer[p].known =>
          answer[p].status \in Promise!Past(broker[work[p]])

\* An order that moves on has been all it was.
LEMMA PastGrows ==
    ASSUME NEW s, NEW t \in Promise!Future(s)
    PROVE  Promise!Past(s) \subseteq Promise!Past(t)
BY DEF Promise!Future, Promise!Past

\* An order is among what it has been.
LEMMA PresentIsPast ==
    ASSUME NEW s \in Working \cup Finished
    PROVE  s \in Promise!Past(s)
BY DEF Promise!Past, Working, Finished

\* The order of one key moves on.
LEMMA RepeatsAfterMove ==
    ASSUME TypeOK, Repeats, NEW k \in Keys, NEW s \in Promise!Future(broker[k]),
           broker' = [broker EXCEPT ![k] = s], UNCHANGED <<orders, calls, pc, work, answer>>
    PROVE  Repeats'
<1>1. \A q \in Procs : Promise!Past(broker[work[q]]) \subseteq Promise!Past(broker'[work[q]])
  <2> SUFFICES ASSUME NEW q \in Procs
               PROVE  Promise!Past(broker[work[q]]) \subseteq Promise!Past(broker'[work[q]])
    OBVIOUS
  <2>1. CASE work[q] = k
    BY <2>1, PastGrows DEF TypeOK
  <2>2. CASE work[q] # k
    BY <2>2 DEF TypeOK
  <2> QED
    BY <2>1, <2>2
<1> QED
  BY <1>1 DEF Repeats

\* The broker is asked about the key of one process, for the first time.
LEMMA RepeatsAfterSubmit ==
    ASSUME IInv, Repeats, NEW p \in Procs, pc[p] = "submit",
           NEW s, NEW a \in Answer,
           broker' = [broker EXCEPT ![work[p]] = s],
           answer' = [answer EXCEPT ![p] = a],
           a = Rejected \/ (a = Seen(s) /\ s \in Working \cup Finished),
           calls' = [calls EXCEPT ![work[p]] = @ + 1],
           pc' = [pc EXCEPT ![p] = "update"],
           UNCHANGED <<orders, work>>
    PROVE  Repeats'
<1> USE DEF Rejected, Seen
<1>1. /\ work \in [Procs -> Keys] /\ calls \in [Keys -> Nat] /\ pc \in [Procs -> Steps]
      /\ answer \in [Procs -> Answer] /\ DOMAIN broker = Keys
  BY DEF IInv, TypeOK
<1>2. calls[work[p]] = 0 /\ broker[work[p]] = "none"
  BY <1>1 DEF IInv, SoleSubmitter, Untouched
<1>3. \A q \in Procs : q # p /\ pc'[q] \in {"update", "write"} /\ answer'[q].known =>
         work[q] # work[p]
  BY <1>1, <1>2 DEF Repeats, Promise!Past
<1>4. s \in Working \cup Finished => s \in Promise!Past(s)
  BY PresentIsPast
<1>5. \A k \in Keys : calls'[k] >= calls[k] /\ calls'[work[p]] > 0
  BY <1>1
<1>6. \A q \in Procs : pc'[q] = "update" => calls'[work'[q]] > 0
  <2> SUFFICES ASSUME NEW q \in Procs, pc'[q] = "update" PROVE calls'[work[q]] > 0
    OBVIOUS
  <2>1. CASE q = p
    BY <1>5, <2>1, <1>1
  <2>2. CASE q # p
    <3>1. work[q] \in Keys /\ calls[work[q]] > 0
      BY <1>1, <2>2 DEF Repeats
    <3> QED
      BY <1>1, <1>5, <3>1
  <2> QED
    BY <2>1, <2>2
<1>7. \A q \in Procs : pc'[q] \in {"update", "write"} /\ answer'[q].known =>
         answer'[q].status \in Promise!Past(broker'[work'[q]])
  <2> SUFFICES ASSUME NEW q \in Procs, pc'[q] \in {"update", "write"}, answer'[q].known
               PROVE  answer'[q].status \in Promise!Past(broker'[work[q]])
    OBVIOUS
  <2>1. CASE q = p
    <3>1. answer'[p] = a /\ a = Seen(s) /\ broker'[work[p]] = s
      BY <1>1, <2>1
    <3> QED
      BY <1>4, <2>1, <3>1
  <2>2. CASE q # p
    <3>1. work[q] # work[p]
      BY <1>3, <2>2
    <3>2. broker'[work[q]] = broker[work[q]] /\ answer'[q] = answer[q] /\ pc'[q] = pc[q]
      BY <1>1, <2>2, <3>1
    <3> QED
      BY <3>2 DEF Repeats
  <2> QED
    BY <2>1, <2>2
<1>8. \A q \in Procs : answer'[q].known <=> answer'[q].status # "rejected"
  BY <1>1 DEF Repeats, Working, Finished
<1> QED
  BY <1>6, <1>7, <1>8 DEF Repeats

\* The process that holds an answer writes it.
LEMMA RepeatsAfterWrite ==
    ASSUME TypeOK, Repeats, NEW p \in Procs, NEW next \in Steps \ {"update", "write"},
           orders' = [orders EXCEPT ![work[p]] = answer[p]],
           pc' = [pc EXCEPT ![p] = next],
           UNCHANGED <<broker, calls, work, answer>>
    PROVE  Repeats'
<1>1. work[p] \in Keys /\ answer[p] \in Answer /\ DOMAIN orders = Keys /\ DOMAIN pc = Procs
  BY DEF TypeOK
<1>2. answer[p].known => answer[p].status \in Working \cup Finished
  BY <1>1 DEF Repeats, Answer
<1>3. \A k \in Keys : orders'[k].known => orders'[k].status \in Working \cup Finished
  BY <1>1, <1>2 DEF Repeats
<1>4. \A q \in Procs : pc'[q] \in {"update", "write"} => pc'[q] = pc[q]
  BY <1>1
<1> QED
  BY <1>3, <1>4 DEF Repeats

\* Every step keeps it.
LEMMA StepRepeats == IInv /\ Repeats /\ [Next]_vars => Repeats'
<1> SUFFICES ASSUME IInv, Repeats, [Next]_vars PROVE Repeats'
  OBVIOUS
<1>1. TypeOK
  BY DEF IInv
<1>2. ASSUME UNCHANGED <<orders, broker, calls, answer>>,
             NEW p \in Procs, NEW next \in Steps \ {"update", "write"},
             pc' = [pc EXCEPT ![p] = next],
             \A q \in Procs : q # p => work'[q] = work[q]
      PROVE  Repeats'
  <2>1. \A q \in Procs : pc'[q] \in {"update", "write"} => pc'[q] = pc[q] /\ q # p
    BY <1>1, <1>2 DEF TypeOK
  <2> QED
    BY <1>2, <2>1 DEF Repeats
<1>3. ASSUME UNCHANGED <<orders, broker, calls, pc, work, answer>> PROVE Repeats'
  BY <1>3 DEF Repeats
<1>4. ASSUME NEW p \in Procs, StartCycle(p) \/ EndReconcile(p) \/ EndStale(p) \/ EndCycle(p)
                              \/ RecordDuplicate(p) \/ Crash(p)
      PROVE  Repeats'
  BY <1>2, <1>4 DEF StartCycle, EndReconcile, EndStale, EndCycle, RecordDuplicate, Crash, Steps
<1>5. ASSUME NEW p \in Procs, NEW k \in Keys, Consider(p, k) PROVE Repeats'
  <2>1. \A q \in Procs : q # p => work'[q] = work[q]
    BY <1>1, <1>5 DEF Consider, TypeOK
  <2> QED
    BY <1>2, <1>5, <2>1 DEF Consider, Steps
<1>6. ASSUME NEW p \in Procs, NEW k \in Keys, Pass(p, k) \/ FetchFailed(p, k) PROVE Repeats'
  BY <1>3, <1>6 DEF Pass, FetchFailed
<1>7. ASSUME NEW p \in Procs, NEW k \in Keys, Fetch(p, k) PROVE Repeats'
  <2>1. broker[k] \in Working \cup Finished
    BY <1>1, <1>7 DEF Fetch, IInv, KnownRows, TypeOK
  <2>2. broker[k] \in Promise!Past(broker[k]) /\ broker[k] # "rejected"
    BY <2>1, PresentIsPast DEF Working, Finished
  <2>3. /\ pc'[p] = "write" /\ work'[p] = k /\ answer'[p] = Seen(broker[k])
        /\ \A q \in Procs : q # p =>
              pc'[q] = pc[q] /\ work'[q] = work[q] /\ answer'[q] = answer[q]
        /\ UNCHANGED <<orders, broker, calls>>
    BY <1>1, <1>7 DEF Fetch, TypeOK
  <2> QED
    BY <2>2, <2>3 DEF Repeats, Seen
<1>8. ASSUME NEW p \in Procs, WriteBack(p) \/ Update(p) PROVE Repeats'
  BY <1>1, <1>8, RepeatsAfterWrite DEF WriteBack, Update, Steps
<1>9. ASSUME NEW p \in Procs, Record(p) PROVE Repeats'
  <2>1. \A k \in Keys : orders'[k].known => orders[k].known /\ orders'[k] = orders[k]
    BY <1>1, <1>9 DEF Record, TypeOK
  <2>2. \A q \in Procs : pc'[q] \in {"update", "write"} => pc'[q] = pc[q]
    BY <1>1, <1>9 DEF Record, TypeOK
  <2> QED
    BY <1>9, <2>1, <2>2 DEF Record, Repeats
<1>10. ASSUME NEW p \in Procs, NEW s \in {"open", "filled"}, SubmitAccepted(p, s) PROVE Repeats'
  BY <1>10, RepeatsAfterSubmit DEF SubmitAccepted, Seen, Answer, Working, Finished
<1>11. ASSUME NEW p \in Procs, SubmitRefused(p) PROVE Repeats'
  <2>1. broker' = [broker EXCEPT ![work[p]] = broker[work[p]]]
    BY <1>1, <1>11 DEF SubmitRefused, TypeOK
  <2> QED
    BY <1>11, <2>1, RepeatsAfterSubmit DEF SubmitRefused, Rejected, Answer
<1>12. ASSUME NEW p \in Procs, SubmitTimedOut(p) PROVE Repeats'
  BY <1>12, RepeatsAfterSubmit DEF SubmitTimedOut, Rejected, Answer
<1>13. ASSUME NEW p \in Procs, NEW k \in Keys, CancelStale(p, k) PROVE Repeats'
  BY <1>1, <1>13, RepeatsAfterMove DEF CancelStale, Working, Promise!Future
<1>14. ASSUME NEW k \in Keys, NEW s \in Working \cup Finished, BrokerMoves(k, s) PROVE Repeats'
  BY <1>1, <1>14, RepeatsAfterMove DEF BrokerMoves, Working, Finished, Promise!Future
<1>15. CASE UNCHANGED vars
  BY <1>3, <1>15 DEF vars
<1> QED
  BY <1>4, <1>5, <1>6, <1>7, <1>8, <1>9, <1>10, <1>11, <1>12, <1>13, <1>14, <1>15
     DEF Next, Advance

\* It holds in every reachable state, next to IInv.
LEMMA RepeatsInvariant == Spec => [](IInv /\ Repeats)
<1>1. Init => IInv /\ Repeats
  BY InitIInv DEF Init, Repeats, NoRow, Rejected
<1>2. IInv /\ Repeats /\ [Next]_vars => (IInv /\ Repeats)'
  BY StepIInv, StepRepeats
<1>3. QED
  BY <1>1, <1>2, PTL DEF Spec

\* The table and the questions as the promise reads them.
Table == [k \in Keys |-> orders[k].status]
Asked == [k \in Keys |-> calls[k] > 0]

\* A step that changes no status, no book and asks nothing is a stutter.
LEMMA Stutters ==
    ASSUME UNCHANGED <<orders, broker, calls>>
    PROVE  UNCHANGED Promise!vars
BY DEF Promise!vars

\* One row is written.
LEMMA TableAfter ==
    ASSUME NEW k \in Keys, NEW s, orders'[k].status = s,
           \A j \in Keys \ {k} : orders'[j] = orders[j]
    PROVE  Table' = [Table EXCEPT ![k] = s] /\ Table[k] = orders[k].status
BY DEF Table

\* The broker is asked about one key.
LEMMA AskedAfter ==
    ASSUME TypeOK, NEW k \in Keys, calls' = [calls EXCEPT ![k] = @ + 1], calls[k] = 0
    PROVE  Asked' = [Asked EXCEPT ![k] = TRUE] /\ ~Asked[k]
<1>1. calls \in [Keys -> Nat]
  BY DEF TypeOK
<1>2. \A j \in Keys : calls'[j] > 0 <=> (j = k \/ calls[j] > 0)
  BY <1>1
<1>3. \A j \in Keys : (calls'[j] > 0) = (IF j = k THEN TRUE ELSE calls[j] > 0)
  <2> SUFFICES ASSUME NEW j \in Keys
               PROVE  (calls'[j] > 0) = (IF j = k THEN TRUE ELSE calls[j] > 0)
    OBVIOUS
  <2>1. CASE j = k
    <3>1. (calls'[j] > 0) = TRUE
      BY <1>2, <2>1
    <3> QED
      BY <2>1, <3>1, Zenon
  <2>2. CASE j # k
    <3>1. calls'[j] = calls[j]
      BY <1>1, <2>2
    <3>2. (calls'[j] > 0) = (calls[j] > 0)
      BY <3>1
    <3> QED
      BY <2>2, <3>2
  <2> QED
    BY <2>1, <2>2
<1>4. Asked' = [j \in Keys |-> IF j = k THEN TRUE ELSE calls[j] > 0]
  BY <1>3 DEF Asked
<1>5. [Asked EXCEPT ![k] = TRUE] = [j \in Keys |-> IF j = k THEN TRUE ELSE calls[j] > 0]
  BY DEF Asked
<1>6. ~(calls[k] > 0)
  BY <1>1
<1> QED
  BY <1>4, <1>5, <1>6 DEF Asked

\* The insert claims the key.
LEMMA RecordClaims ==
    ASSUME IInv, NEW p \in Procs, NEW k \in Keys, k = work[p], Record(p)
    PROVE  Promise!Claim(k)
<1>1. TypeOK
  BY DEF IInv
<1>2. orders' = [orders EXCEPT ![k] = Pending] /\ orders[k].status = "none"
  BY DEF Record, Pending, NoRow
<1>3. Table' = [Table EXCEPT ![k] = "pending"] /\ Table[k] = "none"
  <2>1. orders'[k].status = "pending" /\ \A j \in Keys \ {k} : orders'[j] = orders[j]
    BY <1>1, <1>2 DEF Pending, TypeOK
  <2> QED
    BY <1>2, <2>1, TableAfter
<1>4. Asked' = Asked /\ broker' = broker
  BY DEF Record, Asked
<1> QED
  BY <1>3, <1>4 DEF Promise!Claim, Table, Asked

\* A submission asks once, whatever the broker does with it.
LEMMA SubmitAsks ==
    ASSUME IInv, NEW p \in Procs, NEW k \in Keys, k = work[p], pc[p] = "submit", NEW s,
           broker' = [broker EXCEPT ![k] = s],
           calls' = [calls EXCEPT ![k] = @ + 1],
           UNCHANGED orders
    PROVE  Promise!Ask(k, s)
<1>1. TypeOK
  BY DEF IInv
<1>2. orders[k] = Pending /\ calls[k] = 0
  BY DEF IInv, SoleSubmitter, Submitting
<1>3. Table[k] = "pending" /\ Table' = Table
  BY <1>1, <1>2 DEF Table, Pending
<1>4. Asked' = [Asked EXCEPT ![k] = TRUE] /\ ~Asked[k]
  BY <1>1, <1>2, AskedAfter
<1> QED
  BY <1>3, <1>4 DEF Promise!Ask, Table, Asked

\* The answer to a submission is the first word about the order.
LEMMA UpdateLearns ==
    ASSUME IInv, Repeats, NEW p \in Procs, NEW k \in Keys, k = work[p],
           NEW s, s = answer[p].status, Update(p)
    PROVE  \/ Promise!Reject(k)
           \/ s \in Working \cup Finished /\ Promise!Learn(k, s)
<1>1. answer[p] \in Answer /\ TypeOK /\ pc[p] = "update"
  BY DEF IInv, TypeOK, Update
<1>2. orders[k] = Pending /\ calls[k] > 0
  BY <1>1 DEF IInv, SoleSubmitter, Submitting, Repeats
<1>3. Table' = [Table EXCEPT ![k] = s] /\ Table[k] = "pending"
  <2>1. orders'[k].status = s /\ \A j \in Keys \ {k} : orders'[j] = orders[j]
    BY <1>1 DEF Update, TypeOK
  <2> QED
    BY <1>1, <1>2, <2>1, TableAfter DEF Pending
<1>4. Asked[k] /\ Asked' = Asked /\ broker' = broker
  BY <1>2 DEF Update, Asked
<1>5. CASE s = "rejected"
  BY <1>3, <1>4, <1>5 DEF Promise!Reject, Table, Asked
<1>6. CASE s # "rejected"
  <2>1. s \in Working \cup Finished
    BY <1>1, <1>6 DEF Answer
  <2>2. s \in Promise!Past(broker[k])
    BY <1>1, <1>6 DEF Repeats
  <2>3. Promise!Learn(k, s)
    BY <1>3, <1>4, <2>2 DEF Promise!Learn, Table, Asked
  <2> QED
    BY <2>1, <2>3
<1> QED
  BY <1>5, <1>6

\* Reconciling writes what the order is, or was when it was read.
LEMMA WriteBackLearns ==
    ASSUME IInv, Repeats, NEW p \in Procs, NEW k \in Keys, k = work[p],
           NEW s, s = answer[p].status, WriteBack(p)
    PROVE  s \in Working \cup Finished /\ Promise!Learn(k, s)
<1>1. answer[p] \in Answer /\ TypeOK /\ pc[p] = "write"
  BY DEF IInv, TypeOK, WriteBack
<1>2. orders[k].known /\ answer[p].known
  BY <1>1 DEF IInv, KnownRows
<1>3. broker[k] # "none" /\ orders[k].status # "rejected"
  BY <1>1, <1>2 DEF IInv, KnownRows, Repeats, Working, Finished
<1>4. calls[k] > 0
  <2>1. calls[k] \in Nat /\ calls[k] # 0
    BY <1>1, <1>3 DEF IInv, Untouched, TypeOK
  <2> QED
    BY <2>1
<1>5. Table' = [Table EXCEPT ![k] = s] /\ Table[k] # "rejected"
  <2>1. orders'[k].status = s /\ \A j \in Keys \ {k} : orders'[j] = orders[j]
    BY <1>1 DEF WriteBack, TypeOK
  <2> QED
    BY <1>1, <1>3, <2>1, TableAfter
<1>6. Asked[k] /\ Asked' = Asked /\ broker' = broker
  BY <1>4 DEF WriteBack, Asked
<1>7. s \in Working \cup Finished
  BY <1>1, <1>2 DEF Answer, Repeats
<1>8. s \in Promise!Past(broker[k])
  BY <1>1, <1>2 DEF Repeats
<1> QED
  BY <1>5, <1>6, <1>7, <1>8 DEF Promise!Learn, Table, Asked

\* The order itself moves on, in the market or because it is stale.
LEMMA MovesOn ==
    ASSUME NEW k \in Keys, NEW s, broker[k] \in Working, s \in Working \cup Finished,
           s # "open", s # broker[k],
           broker' = [broker EXCEPT ![k] = s], UNCHANGED <<orders, calls>>
    PROVE  Promise!Becomes(k, s)
<1>1. s \in Promise!Future(broker[k])
  BY DEF Promise!Future, Working, Finished
<1> QED
  BY <1>1 DEF Promise!Becomes

\* Initially nothing is claimed, asked or in the book.
LEMMA InitPromise == Init => Promise!Init
<1> SUFFICES ASSUME Init PROVE Promise!Init
  OBVIOUS
<1>1. [k \in Keys |-> orders[k].status] = [k \in Keys |-> "none"]
  BY DEF Init, NoRow
<1>2. \A k \in Keys : (calls[k] > 0) = FALSE
  BY DEF Init
<1>3. [k \in Keys |-> calls[k] > 0] = [k \in Keys |-> FALSE]
  BY <1>2
<1> QED
  BY <1>1, <1>3 DEF Init, Promise!Init

\* Every step of the two processes, and of the broker, is a step of the promise
\* or changes nothing it speaks of.
LEMMA StepPromise == IInv /\ Repeats /\ [Next]_vars => [Promise!Next]_(Promise!vars)
<1> SUFFICES ASSUME IInv, Repeats, [Next]_vars PROVE [Promise!Next]_(Promise!vars)
  OBVIOUS
<1>a. work \in [Procs -> Keys] /\ TypeOK
  BY DEF IInv, TypeOK
<1>1. ASSUME NEW p \in Procs, StartCycle(p) \/ EndReconcile(p) \/ EndStale(p) \/ EndCycle(p)
                              \/ RecordDuplicate(p) \/ Crash(p)
      PROVE  UNCHANGED Promise!vars
  BY <1>1, Stutters
     DEF StartCycle, EndReconcile, EndStale, EndCycle, RecordDuplicate, Crash
<1>2. ASSUME NEW p \in Procs, NEW k \in Keys,
             Fetch(p, k) \/ FetchFailed(p, k) \/ Consider(p, k) \/ Pass(p, k)
      PROVE  UNCHANGED Promise!vars
  BY <1>2, Stutters DEF Fetch, FetchFailed, Consider, Pass
<1>3. ASSUME NEW p \in Procs, Record(p) PROVE Promise!Next
  <2>1. PICK k \in Keys : k = work[p]
    BY <1>a
  <2>2. Promise!Claim(k)
    BY <1>3, <2>1, RecordClaims
  <2> QED
    BY <2>2 DEF Promise!Next
<1>4. ASSUME NEW p \in Procs, NEW s \in {"open", "filled"}, SubmitAccepted(p, s)
      PROVE  Promise!Next
  <2>1. PICK k \in Keys : k = work[p]
    BY <1>a
  <2>2. Promise!Ask(k, s)
    BY <1>4, <2>1, SubmitAsks DEF SubmitAccepted
  <2> QED
    BY <2>2 DEF Promise!Next
<1>5. ASSUME NEW p \in Procs, SubmitRefused(p) PROVE Promise!Next
  <2>1. PICK k \in Keys : k = work[p]
    BY <1>a
  <2>2. broker[k] = "none"
    BY <1>5, <2>1 DEF SubmitRefused, IInv, SoleSubmitter, Untouched
  <2>3. broker' = [broker EXCEPT ![k] = "none"]
    BY <1>5, <1>a, <2>2 DEF SubmitRefused, TypeOK
  <2>4. Promise!Ask(k, "none")
    BY <1>5, <2>1, <2>3, SubmitAsks DEF SubmitRefused
  <2> QED
    BY <2>4 DEF Promise!Next
<1>6. ASSUME NEW p \in Procs, SubmitTimedOut(p) PROVE Promise!Next
  <2>1. PICK k \in Keys : k = work[p]
    BY <1>a
  <2>2. Promise!Ask(k, "open")
    BY <1>6, <2>1, SubmitAsks DEF SubmitTimedOut
  <2> QED
    BY <2>2 DEF Promise!Next
<1>7. ASSUME NEW p \in Procs, Update(p) PROVE Promise!Next
  <2>1. PICK k \in Keys : k = work[p]
    BY <1>a
  <2>2. PICK s : s = answer[p].status
    OBVIOUS
  <2>3. Promise!Reject(k) \/ (s \in Working \cup Finished /\ Promise!Learn(k, s))
    BY <1>7, <2>1, <2>2, UpdateLearns
  <2> QED
    BY <2>3 DEF Promise!Next, Working, Finished
<1>8. ASSUME NEW p \in Procs, WriteBack(p) PROVE Promise!Next
  <2>1. PICK k \in Keys : k = work[p]
    BY <1>a
  <2>2. PICK s : s = answer[p].status
    OBVIOUS
  <2>3. s \in Working \cup Finished /\ Promise!Learn(k, s)
    BY <1>8, <2>1, <2>2, WriteBackLearns
  <2> QED
    BY <2>3 DEF Promise!Next, Working, Finished
<1>9. ASSUME NEW p \in Procs, NEW k \in Keys, CancelStale(p, k) PROVE Promise!Next
  <2>1. "cancelled" \in Working \cup Finished /\ broker[k] # "cancelled"
    BY <1>9 DEF CancelStale, Working, Finished
  <2>2. Promise!Becomes(k, "cancelled")
    BY <1>9, <2>1, MovesOn DEF CancelStale
  <2> QED
    BY <2>2 DEF Promise!Next
<1>10. ASSUME NEW k \in Keys, NEW s \in Working \cup Finished, BrokerMoves(k, s)
       PROVE  Promise!Next
  <2>1. Promise!Becomes(k, s)
    BY <1>10, MovesOn DEF BrokerMoves
  <2> QED
    BY <2>1 DEF Promise!Next, Working, Finished
<1>11. CASE UNCHANGED vars
  BY <1>11, Stutters DEF vars
<1> QED
  BY <1>1, <1>2, <1>3, <1>4, <1>5, <1>6, <1>7, <1>8, <1>9, <1>10, <1>11 DEF Next, Advance

\* However two processes race, crash and write late, the table, the questions
\* and the book only ever change as the promise allows.
THEOREM OrdersKeepThePromise == Spec => KeepsThePromise
<1>1. Spec => Promise!Init
  BY InitPromise DEF Spec
<1>2. QED
  BY <1>1, RepeatsInvariant, StepPromise, PTL DEF Spec, KeepsThePromise, Promise!Spec
=============================================================================
