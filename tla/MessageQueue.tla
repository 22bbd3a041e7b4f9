----------------------------- MODULE MessageQueue -----------------------------
(***************************************************************************)
(* telegram/queue.py: the outbound queue and its background worker.  All   *)
(* of it runs on one asyncio loop, so what happens between two awaits is   *)
(* one action; the worker awaits in four places (an empty queue, the rate  *)
(* limit, the transport, the backoff) and stop() in one (drain).  Any      *)
(* coroutine may enqueue, and stop may cancel the worker, at each of them. *)
(*                                                                         *)
(* Abstractions: a message is the number it was enqueued under; the rate   *)
(* limiter is a choice to wait made before a message is sent, and only     *)
(* this worker uses the limiter up, so it does not wait for ever; a send   *)
(* cut short by stop may or may not have reached Telegram.                 *)
(***************************************************************************)
EXTENDS Naturals, Sequences, SequencesExt

CONSTANTS
    MaxQueue,     \* max_queue
    MaxAttempts,  \* max_attempts
    Priorities,   \* the priorities callers use
    MaxMessages   \* bound of the model: messages ever enqueued

ASSUME QueueAssumption ==
    /\ MaxQueue \in Nat \ {0}
    /\ MaxAttempts \in Nat \ {0}
    /\ Priorities \subseteq Nat
    /\ MaxMessages \in Nat

VARIABLES
    messages,  \* every message enqueued: its priority, failed attempts and fate
    pending,   \* _pending, head first
    hand,      \* the message the worker has popped, or Nobody
    worker,    \* the await the worker task is suspended in; "off" without a task
    draining   \* stop() is waiting for _pending to empty

vars == <<messages, pending, hand, worker, draining>>

Nobody == 0

\* "cut": lost to the cancellation of the worker.
Fates   == {"queued", "sent", "failed", "shed", "cut"}
Message == [priority: Priorities, attempts: 0 .. MaxAttempts, fate: Fates]

Init ==
    /\ messages = <<>>
    /\ pending = <<>>
    /\ hand = Nobody
    /\ worker = "off"
    /\ draining = FALSE

Queued(m) == m \in DOMAIN messages /\ messages[m].fate = "queued"
Settled(m, fate) == [messages EXCEPT ![m].fate = fate]

-----------------------------------------------------------------------------
\* Definitions named ...Mutant are plausible bugs in the code the next
\* definition models; no specification uses them.

\* Equal priorities are served last in, first out.
OutrankedMutant(q, p) == {i \in DOMAIN q : messages[q[i]].priority <= p}

Outranked(q, p) == {i \in DOMAIN q : messages[q[i]].priority < p}

\* _insert_by_priority: before the first message of a lower priority.
InsertByPriority(q, m, p) ==
    IF Outranked(q, p) = {} THEN Append(q, m) ELSE InsertAt(q, Min(Outranked(q, p)), m)

\* The oldest message, whatever its priority.
LowestPriorityIndexMutant(q) == 1

\* _lowest_priority_index: the last of the messages with the lowest priority,
\* hence the newest; the comment in enqueue says the oldest.
LowestPriorityIndex(q) ==
    Max({i \in DOMAIN q :
           \A j \in DOMAIN q : messages[q[i]].priority <= messages[q[j]].priority})

\* The limit is never applied.
EnqueueMutant(p) ==
    /\ Len(messages) < MaxMessages
    /\ messages' = Append(messages, [priority |-> p, attempts |-> 0, fate |-> "queued"])
    /\ pending' = InsertByPriority(pending, Len(messages) + 1, p)
    /\ UNCHANGED <<hand, worker, draining>>

\* enqueue; _wakeup.set() only makes Wake possible, which it is anyway.
Enqueue(p) ==
    /\ Len(messages) < MaxMessages
    /\ LET full == Len(pending) >= MaxQueue
           out  == LowestPriorityIndex(pending)
           rest == IF full THEN RemoveAt(pending, out) ELSE pending
           kept == IF full THEN Settled(pending[out], "shed") ELSE messages
       IN  /\ messages' = Append(kept, [priority |-> p, attempts |-> 0, fate |-> "queued"])
           /\ pending' = InsertByPriority(rest, Len(messages) + 1, p)
    /\ UNCHANGED <<hand, worker, draining>>

\* start; a second call changes nothing.
Start ==
    /\ worker = "off"
    /\ worker' = "waiting"
    /\ UNCHANGED <<messages, pending, hand, draining>>

-----------------------------------------------------------------------------
\* The top of the loop in _run with q pending, up to the next await: wait for a
\* message, put the first one back until the limiter allows it, or send it.
Proceed(q) ==
    \/ /\ q = <<>>
       /\ worker' = "waiting"
       /\ hand' = Nobody
       /\ pending' = q
    \/ /\ q # <<>>
       /\ worker' = "throttled"
       /\ hand' = Nobody
       /\ pending' = q
    \/ /\ q # <<>>
       /\ worker' = "sending"
       /\ hand' = Head(q)
       /\ pending' = Tail(q)

\* The wakeup event or its one second timeout, or the end of a throttle.
Wake ==
    /\ worker \in {"waiting", "throttled"}
    /\ Proceed(pending)
    /\ UNCHANGED <<messages, draining>>

SendOk ==
    /\ worker = "sending"
    /\ messages' = Settled(hand, "sent")
    /\ Proceed(pending)
    /\ UNCHANGED draining

\* The transport raises and an attempt is left.
BackOff ==
    /\ worker = "sending"
    /\ messages[hand].attempts + 1 < MaxAttempts
    /\ messages' = [messages EXCEPT ![hand].attempts = @ + 1]
    /\ worker' = "backoff"
    /\ UNCHANGED <<pending, hand, draining>>

\* The transport raises for the last time: dropped, the caller's future fails.
GiveUp ==
    /\ worker = "sending"
    /\ messages[hand].attempts + 1 = MaxAttempts
    /\ messages' = [messages EXCEPT ![hand].attempts = @ + 1, ![hand].fate = "failed"]
    /\ Proceed(pending)
    /\ UNCHANGED draining

\* The message is queued again while the worker still holds on to it.
RetryTwiceMutant ==
    /\ worker = "backoff"
    /\ pending' = InsertByPriority(pending, hand, messages[hand].priority)
    /\ worker' = "sending"
    /\ UNCHANGED <<messages, hand, draining>>

\* The message is not queued again after the backoff.
RetryForgetsMutant ==
    /\ worker = "backoff"
    /\ Proceed(pending)
    /\ UNCHANGED <<messages, draining>>

\* The backoff ends: the message goes behind its equals, whatever the limit of
\* the queue, and the loop goes on with the first one.
Retry ==
    /\ worker = "backoff"
    /\ Proceed(InsertByPriority(pending, hand, messages[hand].priority))
    /\ UNCHANGED <<messages, draining>>

-----------------------------------------------------------------------------
\* stop's last part: the worker is cancelled at its await.  A popped message
\* goes with it: it is not put back and its future is never settled.
CancelWorker ==
    /\ messages' = IF hand = Nobody THEN messages ELSE Settled(hand, "cut")
    /\ hand' = Nobody
    /\ worker' = "off"
    /\ draining' = FALSE
    /\ UNCHANGED pending

\* stop with drain=False, or with nothing in _pending.
StopNow ==
    /\ worker # "off"
    /\ ~draining
    /\ CancelWorker

StopAndDrain ==
    /\ worker # "off"
    /\ ~draining
    /\ pending # <<>>
    /\ draining' = TRUE
    /\ UNCHANGED <<messages, pending, hand, worker>>

\* drain sees _pending empty; the message in the worker's hand is not in it.
Drained ==
    /\ draining
    /\ pending = <<>>
    /\ CancelWorker

DrainTimesOut ==
    /\ draining
    /\ pending # <<>>
    /\ CancelWorker

WorkerStep == Wake \/ SendOk \/ BackOff \/ GiveUp \/ Retry

Next ==
    \/ \E p \in Priorities : Enqueue(p)
    \/ Start
    \/ WorkerStep
    \/ StopNow
    \/ StopAndDrain
    \/ Drained
    \/ DrainTimesOut

Spec == Init /\ [][Next]_vars

\* The event loop resumes the worker, the transport answers or raises, and a
\* throttled message is let through in the end; a drain polls until it is done.
Fairness ==
    /\ WF_vars(WorkerStep)
    /\ SF_vars(WorkerStep /\ worker' = "sending")
    /\ WF_vars(Drained \/ DrainTimesOut)

FairSpec == Spec /\ Fairness

-----------------------------------------------------------------------------
\* The queue, the worker and the message records hold the values they should.
TypeOK ==
    /\ messages \in Seq(Message)
    /\ pending \in Seq(DOMAIN messages)
    /\ hand \in {Nobody} \cup DOMAIN messages
    /\ worker \in {"off", "waiting", "throttled", "sending", "backoff"}
    /\ draining \in BOOLEAN

\* Nothing is lost without a trace and nothing is sent twice over: through
\* retries, sheds, throttles, stops and restarts a message is unsettled exactly
\* while it is queued once or in the worker's hand, never both, and the worker
\* holds one exactly while it is sending or backing off.
EveryMessageInOnePlace ==
    /\ \A i, j \in DOMAIN pending : pending[i] = pending[j] => i = j
    /\ hand \notin ToSet(pending)
    /\ \A m \in DOMAIN messages :
          messages[m].fate = "queued" <=> m \in ToSet(pending) \cup {hand}
    /\ hand # Nobody <=> worker \in {"sending", "backoff"}

\* "A long Telegram outage cannot exhaust memory": a retry goes back into a
\* full queue without shedding, so the limit holds for all the messages that
\* are waiting, plus the one the worker holds.
Bounded == Len(pending) + (IF hand = Nobody THEN 0 ELSE 1) <= MaxQueue + 1

\* "Sorted by priority, FIFO within a priority", for messages that never
\* failed: a retried message is put behind its equals.
ServedInOrder ==
    \A i, j \in DOMAIN pending :
       i < j =>
          LET a == messages[pending[i]]
              b == messages[pending[j]]
          IN  /\ a.priority >= b.priority
              /\ (a.priority = b.priority /\ a.attempts = 0 /\ b.attempts = 0)
                    => pending[i] < pending[j]

\* "The queue sheds its lowest-priority messages when full": what is shed never
\* outranked anything that stayed.
ShedsTheLowest ==
    [][\A m \in DOMAIN messages :
          (messages[m].fate = "queued" /\ messages'[m].fate = "shed") =>
             \A i \in DOMAIN pending :
                messages[m].priority <= messages[pending[i]].priority]_vars

\* Whatever the coroutines do to the list and the worker between two awaits, a
\* caller sees no more than this: one message is tried at a time, the one whose
\* turn it is among all that are unsettled, throttled or about to be retried; one
\* of the least important makes room, and only when the queue is full; a stop
\* loses the message in hand alone.
Promise == INSTANCE QueuePromise WITH tried <- hand
KeepsThePromise == Promise!Spec

\* "Failures retry, and after the last attempt the message is dropped": while
\* the worker is not stopped every message is settled, by a send, by the last
\* failure or by a more important one.
EveryMessageSettles ==
    \A m \in 1 .. MaxMessages : Queued(m) ~> (~Queued(m) \/ worker = "off")
=============================================================================
