--------------------------- MODULE ApprovalPromise ---------------------------
(***************************************************************************)
(* What the approval component promises its callers, with no table, no     *)
(* sweeper and no row status: an asker looks whether the newest request of *)
(* its question is open, and may open another one if not; a question asked *)
(* for the first time gets one request, whoever else asks it; an open      *)
(* request is authorised or refused at most once, its deadline can be      *)
(* extended only a bounded number of times, and the passing of time alone  *)
(* refuses it.  "A timeout is never an approval"                           *)
(* (services/approvals.py:9).  Approvals.tla is shown to implement this.   *)
(***************************************************************************)
EXTENDS Naturals, Sequences

CONSTANTS Askers,        \* who may ask
          Keys,          \* questions the engine may ask
          Timeout,       \* time a fresh request stays open
          Extension,     \* time one snooze adds
          MaxExtensions  \* snoozes allowed per request

VARIABLES now,           \* the clock
          requests,      \* every request ever opened, oldest first
          asking         \* what each asker has looked up and not asked yet, if anything

vars == <<now, requests, asking>>

Request == [key: Keys, state: {"open", "authorised", "refused"},
            deadline: Nat, extensions: Nat]

Init == now = 0 /\ requests = <<>> /\ asking = [a \in Askers |-> {}]

Requests(k) == {i \in DOMAIN requests : requests[i].key = k}

\* The newest request of the question is over, or there is none.
Look(a, k) ==
    /\ asking[a] = {}
    /\ \A i \in Requests(k) :
          (\A j \in Requests(k) : j <= i) => requests[i].state # "open"
    /\ asking' = [asking EXCEPT ![a] = {[key |-> k, at |-> now, seen |-> Len(requests)]}]
    /\ UNCHANGED <<now, requests>>

\* The deadline counts from the look.  A new question is opened once.
Ask(a) ==
    /\ \E q \in asking[a] :
          /\ Requests(q.key) # {} => \E i \in Requests(q.key) : i <= q.seen
          /\ requests' = Append(requests,
                [key |-> q.key,
                 state |-> IF now < q.at + Timeout THEN "open" ELSE "refused",
                 deadline |-> q.at + Timeout, extensions |-> 0])
    /\ asking' = [asking EXCEPT ![a] = {}]
    /\ UNCHANGED now

GiveUp(a) ==
    /\ asking' = [asking EXCEPT ![a] = {}]
    /\ UNCHANGED <<now, requests>>

Decide(i, outcome) ==
    /\ requests[i].state = "open"
    /\ requests' = [requests EXCEPT ![i].state = outcome]
    /\ UNCHANGED <<now, asking>>

Extend(i) ==
    /\ requests[i].state = "open"
    /\ requests[i].extensions < MaxExtensions
    /\ requests' = [requests EXCEPT ![i].deadline = @ + Extension,
                                    ![i].extensions = @ + 1]
    /\ UNCHANGED <<now, asking>>

\* Time passes, and refuses what it overtakes in the same step.
Pass ==
    /\ now' = now + 1
    /\ requests' = [i \in DOMAIN requests |->
                      IF requests[i].state = "open" /\ requests[i].deadline <= now'
                      THEN [requests[i] EXCEPT !.state = "refused"]
                      ELSE requests[i]]
    /\ UNCHANGED asking

Next ==
    \/ \E a \in Askers : (\E k \in Keys : Look(a, k)) \/ Ask(a) \/ GiveUp(a)
    \/ \E i \in DOMAIN requests :
          Decide(i, "authorised") \/ Decide(i, "refused") \/ Extend(i)
    \/ Pass

Spec == Init /\ [][Next]_vars
=============================================================================
