---------------------------- MODULE OrderPromise ----------------------------
(***************************************************************************)
(* What the order manager promises to whoever reads the orders table, with *)
(* no processes, no cycles and no answers in flight: a key is claimed      *)
(* before the broker is asked, the broker is asked at most once, and the   *)
(* table never runs ahead of the order.  It may learn late, and even go    *)
(* back to something older; a finished status is never wrong.  The one     *)
(* thing it may say that is not so is "rejected", when the answer to the   *)
(* question was lost, and that word is final.  Orders.tla is shown to      *)
(* implement this.                                                         *)
(***************************************************************************)
CONSTANTS Keys  \* one for each order that may be wanted

VARIABLES row,    \* what the table says of a key
          asked,  \* the broker has been asked
          book    \* what the order is at the broker

vars == <<row, asked, book>>

\* What an order may become, and what it is or may have been before.
Future(s) == CASE s = "open" -> {"partial", "filled", "cancelled"}
              [] s = "partial" -> {"filled", "cancelled"}
              [] OTHER -> {}
Past(s) == CASE s = "none" -> {}
             [] s = "open" -> {"open"}
             [] OTHER -> {"open", "partial", s}

Init ==
    /\ row = [k \in Keys |-> "none"]
    /\ asked = [k \in Keys |-> FALSE]
    /\ book = [k \in Keys |-> "none"]

Claim(k) ==
    /\ row[k] = "none"
    /\ row' = [row EXCEPT ![k] = "pending"]
    /\ UNCHANGED <<asked, book>>

\* The broker refuses, takes the order or fills it at once; the asker may not
\* learn which.
Ask(k, s) ==
    /\ row[k] = "pending" /\ ~asked[k]
    /\ asked' = [asked EXCEPT ![k] = TRUE]
    /\ book' = [book EXCEPT ![k] = s]
    /\ UNCHANGED row

Becomes(k, s) ==
    /\ s \in Future(book[k])
    /\ book' = [book EXCEPT ![k] = s]
    /\ UNCHANGED <<row, asked>>

\* The table learns what the order is, or was.
Learn(k, s) ==
    /\ asked[k] /\ row[k] # "rejected"
    /\ s \in Past(book[k])
    /\ row' = [row EXCEPT ![k] = s]
    /\ UNCHANGED <<asked, book>>

\* The first word about an order may be that there is none.
Reject(k) ==
    /\ asked[k] /\ row[k] = "pending"
    /\ row' = [row EXCEPT ![k] = "rejected"]
    /\ UNCHANGED <<asked, book>>

Next ==
    \E k \in Keys :
        \/ Claim(k) \/ Reject(k)
        \/ \E s \in {"none", "open", "filled"} : Ask(k, s)
        \/ \E s \in {"open", "partial", "filled", "cancelled"} : Becomes(k, s) \/ Learn(k, s)

Spec == Init /\ [][Next]_vars
=============================================================================
