------------------------------ MODULE Notifier ------------------------------
(***************************************************************************)
(* telegram/approvals.py and telegram/bot.py: how approval requests become *)
(* messages with buttons, and taps and replies become decisions.  The      *)
(* table of requests is the one of module Approvals, reduced to what the   *)
(* notifier reads of it: a status and whether the deadline has passed.     *)
(*                                                                         *)
(* The notifier's handlers are coroutines of one loop: between two awaits  *)
(* a handler is one step, and the sweep, the queue's worker and the other  *)
(* user's handler can run at every await.  A job is a handler waiting for  *)
(* one of Telegram's answers.  What the notifier knows of its messages     *)
(* lives in memory and dies with the process; rows and messages do not.    *)
(*                                                                         *)
(* Messages wait in the queue of module MessageQueue; here that queue      *)
(* delivers a message after any delay or never.  One question (one         *)
(* request_key) is asked; its rounds are the rows.                         *)
(***************************************************************************)
EXTENDS Naturals, Sequences, FiniteSets

CONSTANTS
    Allowed,      \* AuthGuard.allowed_user_ids
    Strangers,    \* everybody else who finds the bot or a forwarded message
    MaxRows,      \* bound of the model: rows ever inserted
    MaxMessages,  \* bound of the model: messages ever enqueued
    MaxRestarts   \* bound of the model: times the process restarts

ASSUME NotifierAssumption ==
    /\ Allowed \cap Strangers = {}
    /\ MaxRows \in Nat
    /\ MaxMessages \in Nat
    /\ MaxRestarts \in Nat

VARIABLES
    rows,      \* the approvals table: [status, late]
    messages,  \* the chat: [row, place, buttons, text]
    known,     \* _deliveries: the message of a row, or Nothing
    parked,    \* _awaiting_size: the row a user owes a size, or Nothing
    job,       \* the coroutine each user's update, and the sweeper, is in
    ignored,   \* AuthGuard._seen_unauthorised
    restarts

vars == <<rows, messages, known, parked, job, ignored, restarts>>

Sweeper == "sweeper"
Workers == Allowed \cup {Sweeper}
Nothing == 0

Undecided == {"pending", "awaiting"}
Status == Undecided \cup {"approved", "rejected", "expired"}
Decided(i) == rows[i].status \notin Undecided
\* What ApprovalService reports of a row: late is expired.
Answerable(i) == ~Decided(i) /\ ~rows[i].late

\* step is the call to Telegram being awaited; goal names the helper it
\* belongs to (_finalise_message, _replace_text, _refresh); msg is the delivery
\* that helper looked up; more holds the sweep's other rows.
Goals == {"finalise", "park", "refresh"}
Idle == [step |-> "idle", goal |-> "finalise", row |-> Nothing, msg |-> Nothing,
         more |-> {}]

Init ==
    /\ rows = <<>>
    /\ messages = <<>>
    /\ known = [i \in 1 .. MaxRows |-> Nothing]
    /\ parked = [u \in Allowed |-> Nothing]
    /\ job = [w \in Workers |-> Idle]
    /\ ignored = {}
    /\ restarts = 0

-----------------------------------------------------------------------------
\* Definitions named ...Mutant are plausible bugs in the code the next
\* definition models; no specification uses them.

\* ApprovalNotifier.request over ApprovalService.create: an open round is found
\* again instead of a second one being inserted, but a message goes out each
\* time.
Ask ==
    /\ Len(messages) < MaxMessages
    /\ LET open == {i \in DOMAIN rows : Answerable(i)}
           i == IF open = {} THEN Len(rows) + 1 ELSE CHOOSE r \in open : TRUE
       IN  /\ i <= MaxRows
           /\ rows' = IF open # {} THEN rows
                      ELSE Append(rows, [status |-> "pending", late |-> FALSE])
           /\ messages' = Append(messages, [row |-> i, place |-> "queued",
                                            buttons |-> "live", text |-> "question"])
    /\ UNCHANGED <<known, parked, job, ignored, restarts>>

\* The queue's worker sends the message; _on_delivered records where it landed,
\* the latest delivery of a row replacing an earlier one.
Deliver(m) ==
    /\ messages[m].place = "queued"
    /\ messages' = [messages EXCEPT ![m].place = "chat"]
    /\ known' = [known EXCEPT ![messages[m].row] = m]
    /\ UNCHANGED <<rows, parked, job, ignored, restarts>>

\* The queue sheds the message or gives up on it: nothing is recorded.
Undelivered(m) ==
    /\ messages[m].place = "queued"
    /\ messages' = [messages EXCEPT ![m].place = "lost"]
    /\ UNCHANGED <<rows, known, parked, job, ignored, restarts>>

DeadlinePasses(i) ==
    /\ Answerable(i)
    /\ rows' = [rows EXCEPT ![i].late = TRUE]
    /\ UNCHANGED <<messages, known, parked, job, ignored, restarts>>

-----------------------------------------------------------------------------
\* The delivery is popped before the edits are made.
ProceedMutant(w, goal, todo, deliveries) ==
    LET found == {i \in todo : deliveries[i] # Nothing}
    IN  IF found = {} THEN job' = [job EXCEPT ![w] = Idle]
        ELSE \E i \in found :
               job' = [job EXCEPT ![w] =
                 [step |-> "write", goal |-> goal, row |-> i,
                  msg |-> deliveries[i], more |-> todo \ {i}]]

\* Every helper removes the buttons, the one that redraws after a snooze too.
ProceedStripsMutant(w, goal, todo, deliveries) ==
    LET found == {i \in todo : deliveries[i] # Nothing}
    IN  IF found = {} THEN job' = [job EXCEPT ![w] = Idle]
        ELSE \E i \in found :
               job' = [job EXCEPT ![w] =
                 [step |-> "strip", goal |-> goal, row |-> i,
                  msg |-> deliveries[i], more |-> todo \ {i}]]

\* Each helper looks up the row's message first and does nothing without one;
\* all but _refresh then remove the buttons before they write the text.
Proceed(w, goal, todo, deliveries) ==
    LET found == {i \in todo : deliveries[i] # Nothing}
    IN  IF found = {} THEN job' = [job EXCEPT ![w] = Idle]
        ELSE \E i \in found :
               job' = [job EXCEPT ![w] =
                 [step |-> IF goal = "refresh" THEN "write" ELSE "strip",
                  goal |-> goal, row |-> i, msg |-> deliveries[i], more |-> todo \ {i}]]

\* handle_callback up to its first await, which answers the press.
Pressed(u, i, goal) ==
    job' = [job EXCEPT ![u] = [step |-> "answer", goal |-> goal, row |-> i,
                               msg |-> Nothing, more |-> {}]]

CanTap(u, m) ==
    /\ job[u] = Idle
    /\ messages[m].place = "chat"
    /\ messages[m].buttons # "gone"

\* A button of a request that is decided, or reported expired.
TapSpent(u, m) ==
    /\ CanTap(u, m)
    /\ ~Answerable(messages[m].row)
    /\ Pressed(u, messages[m].row, "finalise")
    /\ UNCHANGED <<rows, messages, known, parked, ignored, restarts>>

\* Approve and Reject answer a parked request as well as a pending one.
TapDecision(u, m, decision) ==
    /\ CanTap(u, m)
    /\ Answerable(messages[m].row)
    /\ rows' = [rows EXCEPT ![messages[m].row].status = decision]
    /\ Pressed(u, messages[m].row, "finalise")
    /\ UNCHANGED <<messages, known, parked, ignored, restarts>>

TapModify(u, m) ==
    /\ CanTap(u, m)
    /\ Answerable(messages[m].row)
    /\ rows' = [rows EXCEPT ![messages[m].row].status = "awaiting"]
    /\ Pressed(u, messages[m].row, "park")
    /\ UNCHANGED <<messages, known, parked, ignored, restarts>>

\* The extended deadline is the business of Approvals; the redraw is ours.
TapSnooze(u, m) ==
    /\ CanTap(u, m)
    /\ Answerable(messages[m].row)
    /\ Pressed(u, messages[m].row, "refresh")
    /\ UNCHANGED <<rows, messages, known, parked, ignored, restarts>>

\* The press is answered; after a Modify the user's next message is the size.
PressAnswered(u) ==
    /\ job[u].step = "answer"
    /\ parked' = IF job[u].goal = "park" THEN [parked EXCEPT ![u] = job[u].row] ELSE parked
    /\ Proceed(u, job[u].goal, {job[u].row}, known)
    /\ UNCHANGED <<rows, messages, known, ignored, restarts>>

\* A refused edit is logged and otherwise ignored.
Strip(w) ==
    /\ job[w].step = "strip"
    /\ \E outcome \in {"gone", "stuck"} :
          messages' = [messages EXCEPT ![job[w].msg].buttons =
                         IF @ = "gone" THEN @ ELSE outcome]
    /\ job' = [job EXCEPT ![w].step = "write"]
    /\ UNCHANGED <<rows, known, parked, ignored, restarts>>

\* Only _finalise_message forgets the delivery, and whichever is there by now.
Write(w) ==
    /\ job[w].step = "write"
    /\ \E text \in {messages[job[w].msg].text, job[w].goal} :
          messages' = [messages EXCEPT ![job[w].msg].text = text]
    /\ known' = IF job[w].goal = "finalise"
                THEN [known EXCEPT ![job[w].row] = Nothing] ELSE known
    /\ Proceed(w, job[w].goal, job[w].more, known')
    /\ UNCHANGED <<rows, parked, ignored, restarts>>

\* A parked user's message that is a usable number.  Whatever became of the
\* row, the user is free again and is told "approved".  Any other message of a
\* parked user, a command included, is answered "invalid size" and changes
\* nothing here.
SubmitSize(u) ==
    LET i == parked[u]
    IN  /\ job[u] = Idle
        /\ i # Nothing
        /\ rows' = IF rows[i].status # "awaiting" THEN rows
                   ELSE [rows EXCEPT ![i].status = IF rows[i].late THEN "expired"
                                                   ELSE "approved"]
        /\ parked' = [parked EXCEPT ![u] = Nothing]
        /\ Proceed(u, "finalise", {i}, known)
        /\ UNCHANGED <<messages, known, ignored, restarts>>

\* Only requests still pending are swept.
ExpirableMutant == {i \in DOMAIN rows : rows[i].status = "pending" /\ rows[i].late}

Expirable == {i \in DOMAIN rows : ~Decided(i) /\ rows[i].late}

\* sweep_expired: the rows at once, their messages one after the other.
Sweep ==
    /\ job[Sweeper] = Idle
    /\ Expirable # {}
    /\ rows' = [i \in DOMAIN rows |-> IF i \in Expirable
                                      THEN [rows[i] EXCEPT !.status = "expired"]
                                      ELSE rows[i]]
    /\ Proceed(Sweeper, "finalise", Expirable, known)
    /\ UNCHANGED <<messages, known, parked, ignored, restarts>>

\* AuthGuard.check: a stranger's message or tap is noted once and never answered.
Ignore(s) ==
    /\ ignored' = ignored \cup {s}
    /\ UNCHANGED <<rows, messages, known, parked, job, restarts>>

\* A new process: the queue, the deliveries, the parked replies and the
\* coroutines are gone; the rows and the chat are not.
Restart ==
    /\ restarts < MaxRestarts
    /\ restarts' = restarts + 1
    /\ messages' = [m \in DOMAIN messages |->
                      IF messages[m].place = "queued"
                      THEN [messages[m] EXCEPT !.place = "lost"] ELSE messages[m]]
    /\ known' = [i \in 1 .. MaxRows |-> Nothing]
    /\ parked' = [u \in Allowed |-> Nothing]
    /\ job' = [w \in Workers |-> Idle]
    /\ ignored' = {}
    /\ UNCHANGED rows

HandlerStep(w) == Strip(w) \/ Write(w) \/ (w \in Allowed /\ PressAnswered(w))

Next ==
    \/ Ask
    \/ \E m \in DOMAIN messages : Deliver(m) \/ Undelivered(m)
    \/ \E i \in DOMAIN rows : DeadlinePasses(i)
    \/ \E u \in Allowed, m \in DOMAIN messages :
          \/ TapSpent(u, m)
          \/ \E decision \in {"approved", "rejected"} : TapDecision(u, m, decision)
          \/ TapModify(u, m)
          \/ TapSnooze(u, m)
    \/ \E w \in Workers : HandlerStep(w)
    \/ \E u \in Allowed : SubmitSize(u)
    \/ Sweep
    \/ \E s \in Strangers : Ignore(s)
    \/ Restart

\* Time passes, the sweep runs every minute, and Telegram's client answers or
\* raises within its timeout, so a handler's await ends.  Users owe nothing.
Fairness ==
    /\ \A i \in 1 .. MaxRows : WF_vars(i \in DOMAIN rows /\ DeadlinePasses(i))
    /\ \A w \in Workers : WF_vars(HandlerStep(w))
    /\ WF_vars(Sweep)

Spec == Init /\ [][Next]_vars
FairSpec == Spec /\ Fairness

-----------------------------------------------------------------------------
\* Rows, messages, what is remembered of them and the coroutines are well formed;
\* a remembered delivery and a pending edit name a message of that very row.
TypeOK ==
    /\ rows \in Seq([status : Status, late : BOOLEAN])
    /\ messages \in Seq([row : 1 .. MaxRows, place : {"queued", "chat", "lost"},
                         buttons : {"live", "gone", "stuck"},
                         text : Goals \cup {"question"}])
    /\ known \in [1 .. MaxRows -> 0 .. MaxMessages]
    /\ \A i \in DOMAIN known : known[i] # Nothing =>
          known[i] \in DOMAIN messages /\ messages[known[i]].row = i
    /\ parked \in [Allowed -> 0 .. MaxRows]
    /\ \A w \in Workers : job[w].step \in {"strip", "write"} =>
          job[w].msg \in DOMAIN messages /\ messages[job[w].msg].row = job[w].row
    /\ ignored \subseteq Strangers

\* What the chat shows of a request is so, whichever handlers, sweeps and late
\* deliveries race for its message: the buttons are taken away, or tried to be,
\* only once the request is no longer pending or its deadline has passed, and a
\* message that reads closed is of a request nobody can answer any more.
ChatIsHonest ==
    \A m \in DOMAIN messages :
       /\ messages[m].buttons # "live" =>
             rows[messages[m].row].status # "pending" \/ rows[messages[m].row].late
       /\ messages[m].text = "finalise" => ~Answerable(messages[m].row)

Pressable(m) ==
    /\ m \in DOMAIN messages
    /\ messages[m].place = "chat"
    /\ messages[m].buttons = "live"

Lone(m) == \A n \in DOMAIN messages : messages[n].row = messages[m].row => n = m

\* "After a decision, the message's buttons are removed", as far as the code
\* sees to it: a message that was known while its request was undecided loses
\* its buttons, or Telegram refuses, whichever handlers and sweeps race for it,
\* unless the process restarts or the request is sent a second time.
KnownMessageIsClosed ==
    \A m \in 1 .. MaxMessages, r \in 0 .. MaxRestarts :
       (/\ m \in DOMAIN messages
        /\ restarts = r
        /\ known[messages[m].row] = m
        /\ ~Decided(messages[m].row))
       ~> (~Pressable(m) \/ restarts # r \/ ~Lone(m))

\* "A forgotten modification expires like anything else": a request parked for
\* a size is decided in the end, also when its user is parked on another one
\* and its own message has lost its buttons.
ParkedIsDecided ==
    \A i \in 1 .. MaxRows :
       (i \in DOMAIN rows /\ rows[i].status = "awaiting")
       ~> (i \in DOMAIN rows /\ Decided(i))
=============================================================================
