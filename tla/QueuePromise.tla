---------------------------- MODULE QueuePromise ----------------------------
(***************************************************************************)
(* What the outbound queue promises to those who hand it messages, with no *)
(* list, no worker, no limiter and no waiting: a message is tried alone,   *)
(* when it is its turn among all that are unsettled, until it is sent or   *)
(* has failed MaxAttempts times; it is displaced only when MaxQueue wait,  *)
(* as one of the least important of them; and what is settled stays        *)
(* settled.  A stop loses the message that is being tried and no other.    *)
(* Which of the least important is displaced is not promised: the comments *)
(* of telegram/queue.py say the oldest, its code takes the newest.         *)
(* MessageQueue.tla is shown to implement this.                            *)
(***************************************************************************)
EXTENDS Naturals, Sequences, FiniteSets

CONSTANTS MaxQueue, MaxAttempts, Priorities

VARIABLES messages,  \* all handed over so far: priority, failed attempts, fate
          tried      \* the message being sent, or about to be tried again

vars == <<messages, tried>>

Nobody == 0

Init == messages = <<>> /\ tried = Nobody

Open(ms) == {m \in DOMAIN ms : ms[m].fate = "queued"}
Waiting == Open(messages) \ {tried}

\* Message m goes before n, by its priority or else by its age; one that failed
\* has lost its place among its equals and may be tried before or after them.
Precedes(ms, m, n) ==
    /\ ms[m].priority >= ms[n].priority
    /\ ms[m].priority = ms[n].priority /\ ms[m].attempts = 0 /\ ms[n].attempts = 0 => m < n

First(ms, among) == {m \in among : \A n \in among \ {m} : Precedes(ms, m, n)}
Least(ms, among) == {m \in among : \A n \in among : ms[m].priority <= ms[n].priority}

Letter(p) == [priority |-> p, attempts |-> 0, fate |-> "queued"]

Arrive(p) ==
    /\ Cardinality(Waiting) < MaxQueue
    /\ messages' = Append(messages, Letter(p))
    /\ UNCHANGED tried

Displace(p) ==
    /\ Cardinality(Waiting) >= MaxQueue
    /\ \E m \in Least(messages, Waiting) :
          messages' = Append([messages EXCEPT ![m].fate = "shed"], Letter(p))
    /\ UNCHANGED tried

\* The next message is tried, sooner or later.
Turn == tried' \in {Nobody} \cup First(messages', Open(messages'))

\* Nothing is tried, or what failed gives up its place to whose turn it is.
Proceed ==
    /\ tried # Nobody => messages[tried].attempts > 0
    /\ UNCHANGED messages
    /\ Turn

Deliver ==
    /\ tried # Nobody
    /\ messages' = [messages EXCEPT ![tried].fate = "sent"]
    /\ Turn

Fail ==
    /\ tried # Nobody
    /\ messages[tried].attempts + 1 < MaxAttempts
    /\ messages' = [messages EXCEPT ![tried].attempts = @ + 1]
    /\ UNCHANGED tried

GiveUp ==
    /\ tried # Nobody
    /\ messages[tried].attempts + 1 = MaxAttempts
    /\ messages' = [messages EXCEPT ![tried].attempts = @ + 1, ![tried].fate = "failed"]
    /\ Turn

Stop ==
    /\ tried # Nobody
    /\ messages' = [messages EXCEPT ![tried].fate = "cut"]
    /\ tried' = Nobody

Next ==
    \/ \E p \in Priorities : Arrive(p) \/ Displace(p)
    \/ Proceed \/ Deliver \/ Fail \/ GiveUp \/ Stop

Spec == Init /\ [][Next]_vars
=============================================================================
