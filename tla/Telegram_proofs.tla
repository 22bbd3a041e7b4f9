--------------------------- MODULE Telegram_proofs ---------------------------
(***************************************************************************)
(* Proofs about Controls.tla for any users, sessions, symbols and bounds:  *)
(* its types, that a confirmed command runs once, for the newest question  *)
(* and in time, and that only concurrent edits of the rules are lost.      *)
(*                                                                         *)
(* The second part is about the bot's other conversations, the approval    *)
(* requests of Notifier.tla: what its handlers remember names what exists, *)
(* and what the chat shows of a request is so.                             *)
(***************************************************************************)
EXTENDS Controls, Notifier, TLAPS

\* What is pending is the newest question of its user, not yet executed.
PendingIsNewest ==
    \A u \in Users : pending[u] # NoQuestion =>
       /\ pending[u] \in DOMAIN chat
       /\ chat[pending[u]].user = u
       /\ Newest(u, pending[u])
       /\ \A m \in DOMAIN done : done[m] # pending[u]

\* A draft differs from the rules in its own symbol, and in those others ruled
\* on since it was read.
DraftsAreRecent ==
    /\ drafts = [d \in Sessions |-> drafts[d]]
    /\ \A d \in Sessions : drafts[d] # Unread =>
          /\ drafts[d].rules \in [Symbols -> SymbolRule]
          /\ \A s \in Symbols \ {drafts[d].symbol} :
                drafts[d].rules[s] # rules[s] => s \in meanwhile[d]

ControlsInv == ControlsTypeOK /\ PendingIsNewest /\ DraftsAreRecent

telegramVars == <<chat, pending, done>>
dashboardVars == <<rules, drafts, meanwhile, edits>>
-----------------------------------------------------------------------------
\* What a sequence over S holds is in S.
LEMMA ElementOf == ASSUME NEW S, NEW q \in Seq(S), NEW i \in DOMAIN q PROVE q[i] \in S
OBVIOUS

\* The initial states satisfy the inductive invariant.
LEMMA InitControlsInv == ControlsInit => ControlsInv
<1> SUFFICES ASSUME ControlsInit PROVE ControlsInv
  OBVIOUS
<1>1. ControlsTypeOK
  BY ControlsAssumption DEF ControlsInit, ControlsTypeOK, SymbolRule, NoQuestion
<1>2. PendingIsNewest
  BY DEF ControlsInit, PendingIsNewest
<1>3. DraftsAreRecent
  BY DEF ControlsInit, DraftsAreRecent
<1> QED
  BY <1>1, <1>2, <1>3 DEF ControlsInv

\* The two halves of the state do not disturb each other.
LEMMA PendingStays ==
    ASSUME PendingIsNewest, UNCHANGED telegramVars
    PROVE  PendingIsNewest'
BY DEF PendingIsNewest, telegramVars, Newest

\* Drafts change only with the dashboard.
LEMMA DraftsStay ==
    ASSUME DraftsAreRecent, UNCHANGED dashboardVars
    PROVE  DraftsAreRecent'
BY DEF DraftsAreRecent, dashboardVars
-----------------------------------------------------------------------------
(* Telegram.                                                               *)

\* A command replaces what its user may still answer.
LEMMA CommandControlsInv ==
    ASSUME ControlsInv, NEW u \in Users, NEW action \in Actions, NEW close \in BOOLEAN,
           Command(u, action, close)
    PROVE  ControlsInv'
<1> DEFINE q == [user |-> u, action |-> action, close |-> close, at |-> now]
           n == Len(chat) + 1
<1> USE DEF ControlsInv
<1>1. /\ chat' = Append(chat, q) /\ pending' = [pending EXCEPT ![u] = n]
      /\ UNCHANGED <<now, done>> /\ UNCHANGED dashboardVars
  BY DEF Command, dashboardVars
<1>2. q \in [user : Users, action : Actions, close : BOOLEAN, at : 0 .. MaxTicks]
  BY DEF ControlsTypeOK
<1>3. /\ chat' \in Seq([user : Users, action : Actions, close : BOOLEAN, at : 0 .. MaxTicks])
      /\ Len(chat') = n /\ Len(chat) \in Nat /\ DOMAIN chat' = 1 .. n
      /\ DOMAIN chat = 1 .. Len(chat)
      /\ chat'[n] = q /\ \A i \in 1 .. Len(chat) : chat'[i] = chat[i]
  BY <1>1, <1>2 DEF ControlsTypeOK
<1>4. pending' \in [Users -> 0 .. Len(chat')]
  <2>1. pending \in [Users -> 0 .. Len(chat)]
    BY DEF ControlsTypeOK
  <2> QED
    BY <1>1, <1>3, <2>1
<1>5. done' \in Seq(1 .. Len(chat'))
  <2>1. done \in Seq(1 .. Len(chat))
    BY DEF ControlsTypeOK
  <2>2. 1 .. Len(chat) \subseteq 1 .. n
    BY <1>3
  <2> QED
    BY <1>1, <1>3, <2>1, <2>2
<1>6. ControlsTypeOK'
  BY <1>1, <1>3, <1>4, <1>5 DEF ControlsTypeOK, dashboardVars
<1>7. PendingIsNewest'
  <2> SUFFICES ASSUME NEW v \in Users, pending'[v] # NoQuestion
               PROVE  /\ pending'[v] \in DOMAIN chat'
                      /\ chat'[pending'[v]].user = v
                      /\ \A j \in DOMAIN chat' : chat'[j].user = v => j <= pending'[v]
                      /\ \A m \in DOMAIN done' : done'[m] # pending'[v]
    BY DEF PendingIsNewest, Newest
  <2>1. \A m \in DOMAIN done : done[m] \in 1 .. Len(chat)
    <3>1. done \in Seq(1 .. Len(chat))
      BY DEF ControlsTypeOK
    <3> QED
      BY <3>1, ElementOf
  <2>2. CASE v = u
    <3>1. pending'[v] = n
      BY <1>1, <2>2 DEF ControlsTypeOK
    <3> QED
      BY <1>1, <1>3, <2>1, <2>2, <3>1
  <2>3. CASE v # u
    <3>1. pending'[v] = pending[v]
      BY <1>1, <2>3 DEF ControlsTypeOK
    <3>2. /\ pending[v] \in 1 .. Len(chat) /\ chat[pending[v]].user = v
          /\ \A j \in 1 .. Len(chat) : chat[j].user = v => j <= pending[v]
          /\ \A m \in DOMAIN done : done[m] # pending[v]
      BY <1>3, <3>1 DEF PendingIsNewest, Newest
    <3> QED
      BY <1>1, <1>3, <2>3, <3>1, <3>2
  <2> QED
    BY <2>2, <2>3
<1>8. DraftsAreRecent'
  BY <1>1, DraftsStay
<1> QED
  BY <1>6, <1>7, <1>8

\* A confirmation executes the pending question and forgets it.
LEMMA ConfirmControlsInv ==
    ASSUME ControlsInv, NEW u \in Users, NEW i \in DOMAIN chat, Confirm(u, i)
    PROVE  ControlsInv'
<1> USE DEF ControlsInv
<1>1. /\ pending[u] # NoQuestion
      /\ done' = Append(done, pending[u]) /\ pending' = [pending EXCEPT ![u] = NoQuestion]
      /\ UNCHANGED <<now, chat>> /\ UNCHANGED dashboardVars
  BY DEF Confirm, Answers, Consume, dashboardVars
<1>2. /\ pending[u] \in 1 .. Len(chat) /\ chat[pending[u]].user = u
      /\ done \in Seq(1 .. Len(chat))
  BY <1>1 DEF PendingIsNewest, ControlsTypeOK
<1>3. /\ done' \in Seq(1 .. Len(chat))
      /\ \A m \in DOMAIN done' : done'[m] = pending[u] \/ (m \in DOMAIN done /\ done'[m] = done[m])
  BY <1>1, <1>2
<1>4. ControlsTypeOK'
  BY <1>1, <1>3 DEF ControlsTypeOK, NoQuestion, dashboardVars
<1>5. PendingIsNewest'
  <2> SUFFICES ASSUME NEW v \in Users, pending'[v] # NoQuestion
               PROVE  /\ pending'[v] \in DOMAIN chat'
                      /\ chat'[pending'[v]].user = v
                      /\ \A j \in DOMAIN chat' : chat'[j].user = v => j <= pending'[v]
                      /\ \A m \in DOMAIN done' : done'[m] # pending'[v]
    BY DEF PendingIsNewest, Newest
  <2>1. v # u /\ pending'[v] = pending[v]
    BY <1>1 DEF ControlsTypeOK
  <2>2. /\ pending[v] \in DOMAIN chat /\ chat[pending[v]].user = v
        /\ \A j \in DOMAIN chat : chat[j].user = v => j <= pending[v]
        /\ \A m \in DOMAIN done : done[m] # pending[v]
    BY <2>1 DEF PendingIsNewest, Newest
  <2>3. pending[u] # pending[v]
    BY <1>2, <2>1, <2>2
  <2> QED
    BY <1>1, <1>3, <2>1, <2>2, <2>3
<1>6. DraftsAreRecent'
  BY <1>1, DraftsStay
<1> QED
  BY <1>4, <1>5, <1>6

\* A step that only forgets what is pending.
LEMMA ForgettingControlsInv ==
    ASSUME ControlsInv, UNCHANGED <<now, chat, done>>, UNCHANGED dashboardVars,
           pending' \in [Users -> 0 .. Len(chat)],
           \A u \in Users : pending'[u] = pending[u] \/ pending'[u] = NoQuestion
    PROVE  ControlsInv'
<1>1. ControlsTypeOK'
  BY DEF ControlsInv, ControlsTypeOK, dashboardVars
<1>2. PendingIsNewest'
  BY DEF ControlsInv, PendingIsNewest, Newest
<1> QED
  BY <1>1, <1>2, DraftsStay DEF ControlsInv

\* The steps of the bot keep the invariant.
LEMMA TelegramControlsInv == ASSUME ControlsInv, Telegram PROVE ControlsInv'
<1>1. ASSUME NEW u \in Users, NEW i \in DOMAIN chat, Decline(u, i) PROVE ControlsInv'
  <2>1. /\ UNCHANGED <<now, chat, done>> /\ UNCHANGED dashboardVars
        /\ pending' = [pending EXCEPT ![u] = NoQuestion]
    BY <1>1 DEF Decline, Consume, dashboardVars
  <2>2. pending \in [Users -> 0 .. Len(chat)] /\ NoQuestion \in 0 .. Len(chat)
    BY DEF ControlsInv, ControlsTypeOK, NoQuestion
  <2> QED
    BY <2>1, <2>2, ForgettingControlsInv
<1>2. ASSUME RestartBot PROVE ControlsInv'
  <2>1. /\ UNCHANGED <<now, chat, done>> /\ UNCHANGED dashboardVars
        /\ pending' = [u \in Users |-> NoQuestion]
    BY <1>2 DEF RestartBot, dashboardVars
  <2>2. NoQuestion \in 0 .. Len(chat)
    BY DEF ControlsInv, ControlsTypeOK, NoQuestion
  <2> QED
    BY <2>1, <2>2, ForgettingControlsInv
<1> QED
  BY <1>1, <1>2, CommandControlsInv, ConfirmControlsInv DEF Telegram
-----------------------------------------------------------------------------
(* The dashboard.                                                          *)

\* A read starts a draft nothing has come between.
LEMMA ReadRulesControlsInv ==
    ASSUME ControlsInv, NEW d \in Sessions, NEW s \in Symbols, NEW rule \in SymbolRule,
           ReadRules(d, s, rule)
    PROVE  ControlsInv'
<1> USE DEF ControlsInv
<1> DEFINE draft == [symbol |-> s, rules |-> [rules EXCEPT ![s] = rule]]
<1>1. /\ edits < MaxEdits /\ edits' = edits + 1
      /\ drafts' = [drafts EXCEPT ![d] = draft]
      /\ meanwhile' = [meanwhile EXCEPT ![d] = {}]
      /\ UNCHANGED <<now, rules>> /\ UNCHANGED telegramVars
  BY DEF ReadRules, telegramVars
<1>2. ControlsTypeOK'
  BY <1>1, ControlsAssumption DEF ControlsTypeOK, telegramVars
<1>3. DraftsAreRecent'
  <2>1. drafts' = [e \in Sessions |-> drafts'[e]]
    BY <1>1 DEF DraftsAreRecent
  <2>2. ASSUME NEW e \in Sessions, drafts'[e] # Unread
        PROVE  /\ drafts'[e].rules \in [Symbols -> SymbolRule]
               /\ \A t \in Symbols \ {drafts'[e].symbol} :
                     drafts'[e].rules[t] # rules'[t] => t \in meanwhile'[e]
    <3>1. CASE e = d
      <4>1. drafts'[e] = draft
        BY <1>1, <3>1 DEF DraftsAreRecent
      <4>2. rules \in [Symbols -> SymbolRule] /\ rules' = rules
        BY <1>1 DEF ControlsTypeOK
      <4> QED
        BY <4>1, <4>2
    <3>2. CASE e # d
      <4>1. drafts'[e] = drafts[e] /\ meanwhile'[e] = meanwhile[e] /\ rules' = rules
        BY <1>1, <3>2 DEF DraftsAreRecent, ControlsTypeOK
      <4> QED
        BY <2>2, <4>1 DEF DraftsAreRecent
    <3> QED
      BY <3>1, <3>2
  <2> QED
    BY <2>1, <2>2 DEF DraftsAreRecent
<1> QED
  BY <1>1, <1>2, <1>3, PendingStays

\* A write puts its symbol among those ruled on meanwhile, for the other sessions.
LEMMA WriteRulesControlsInv ==
    ASSUME ControlsInv, NEW d \in Sessions, WriteRules(d)
    PROVE  ControlsInv'
<1> USE DEF ControlsInv
<1>1. /\ drafts[d] # Unread /\ rules' = drafts[d].rules
      /\ meanwhile' = Noted(d) /\ drafts' = [drafts EXCEPT ![d] = Unread]
      /\ UNCHANGED <<now, edits>> /\ UNCHANGED telegramVars
  BY DEF WriteRules, telegramVars
<1>2. rules' \in [Symbols -> SymbolRule]
  BY <1>1 DEF DraftsAreRecent
<1>3. meanwhile' \in [Sessions -> SUBSET Symbols]
  BY <1>1 DEF Noted, ControlsTypeOK
<1>4. ControlsTypeOK'
  BY <1>1, <1>2, <1>3 DEF ControlsTypeOK, telegramVars
<1>5. DraftsAreRecent'
  <2>1. drafts' = [e \in Sessions |-> drafts'[e]]
    BY <1>1 DEF DraftsAreRecent
  <2>2. ASSUME NEW e \in Sessions, drafts'[e] # Unread
        PROVE  /\ drafts'[e].rules \in [Symbols -> SymbolRule]
               /\ \A t \in Symbols \ {drafts'[e].symbol} :
                     drafts'[e].rules[t] # rules'[t] => t \in meanwhile'[e]
    <3>1. e # d /\ drafts'[e] = drafts[e] /\ drafts[e] # Unread
      BY <1>1, <2>2 DEF DraftsAreRecent
    <3>2. meanwhile'[e] = meanwhile[e] \cup {t \in Symbols : rules'[t] # rules[t]}
      BY <1>1, <3>1 DEF Noted
    <3> QED
      BY <3>1, <3>2 DEF DraftsAreRecent
  <2> QED
    BY <2>1, <2>2 DEF DraftsAreRecent
<1> QED
  BY <1>1, <1>4, <1>5, PendingStays

\* Every step keeps the invariant.
LEMMA StepControlsInv == ControlsInv /\ [ControlsNext]_controlsVars => ControlsInv'
<1> SUFFICES ASSUME ControlsInv, [ControlsNext]_controlsVars PROVE ControlsInv'
  OBVIOUS
<1>1. ASSUME Tick PROVE ControlsInv'
  <2>1. ControlsTypeOK'
    BY <1>1, ControlsAssumption DEF Tick, ControlsInv, ControlsTypeOK
  <2> QED
    BY <1>1, <2>1, PendingStays, DraftsStay DEF Tick, ControlsInv, telegramVars, dashboardVars
<1>2. ASSUME UNCHANGED controlsVars PROVE ControlsInv'
  <2>1. ControlsTypeOK'
    BY <1>2 DEF controlsVars, ControlsInv, ControlsTypeOK
  <2> QED
    BY <1>2, <2>1, PendingStays, DraftsStay DEF controlsVars, ControlsInv, telegramVars, dashboardVars
<1>3. ASSUME Dashboard PROVE ControlsInv'
  BY <1>3, ReadRulesControlsInv, WriteRulesControlsInv DEF Dashboard
<1> QED
  BY <1>1, <1>2, <1>3, TelegramControlsInv DEF ControlsNext

\* It holds in every reachable state.
LEMMA ControlsInvariant == ControlsSpec => []ControlsInv
BY InitControlsInv, StepControlsInv, PTL DEF ControlsSpec
-----------------------------------------------------------------------------
(* The theorems.                                                           *)

\* Every variable stays within its range: no confirmation names a question that
\* was never asked.
THEOREM ControlsTypes == ControlsSpec => []ControlsTypeOK
<1>1. ControlsInv => ControlsTypeOK
  BY DEF ControlsInv
<1> QED
  BY <1>1, ControlsInvariant, PTL

\* Whichever message is tapped, a command runs once, for the newest question of
\* its user and within the timeout.
THEOREM CommandsRunOnce == ControlsSpec => ExecutesTheNewestQuestionOnce
<1> DEFINE Once ==
    \A n \in DOMAIN done' \ DOMAIN done :
       /\ \A m \in DOMAIN done : done[m] # done'[n]
       /\ Newest(chat[done'[n]].user, done'[n])
       /\ now - chat[done'[n]].at <= Timeout
<1>1. ControlsInv /\ [ControlsNext]_controlsVars => [Once]_controlsVars
  <2> SUFFICES ASSUME ControlsInv, [ControlsNext]_controlsVars, NEW n \in DOMAIN done' \ DOMAIN done
               PROVE  /\ \A m \in DOMAIN done : done[m] # done'[n]
                      /\ Newest(chat[done'[n]].user, done'[n])
                      /\ now - chat[done'[n]].at <= Timeout
    OBVIOUS
  <2>1. done' # done
    OBVIOUS
  <2>2. PICK u \in Users, i \in DOMAIN chat : Confirm(u, i)
    <3>1. Telegram
      <4>1. Dashboard => done' = done
        BY DEF Dashboard, ReadRules, WriteRules
      <4>2. Tick \/ UNCHANGED controlsVars => done' = done
        BY DEF Tick, controlsVars
      <4> QED
        BY <2>1, <4>1, <4>2 DEF ControlsNext
    <3>2. \A u \in Users, action \in Actions, close \in BOOLEAN :
             Command(u, action, close) => done' = done
      BY DEF Command
    <3>3. RestartBot => done' = done
      BY DEF RestartBot
    <3>4. \A u \in Users, i \in DOMAIN chat : Decline(u, i) => done' = done
      BY DEF Decline
    <3> QED
      BY <2>1, <3>1, <3>2, <3>3, <3>4 DEF Telegram
  <2>3. /\ done' = Append(done, pending[u]) /\ pending[u] # NoQuestion
        /\ ~(now - chat[pending[u]].at > Timeout)
    BY <2>2 DEF Confirm, Answers, Expired
  <2>4. done'[n] = pending[u]
    <3>1. done \in Seq(1 .. Len(chat))
      BY DEF ControlsInv, ControlsTypeOK
    <3> QED
      BY <2>3, <3>1
  <2>5. /\ chat[pending[u]].user = u /\ Newest(u, pending[u])
        /\ \A m \in DOMAIN done : done[m] # pending[u]
    BY <2>3 DEF ControlsInv, PendingIsNewest
  <2>6. now - chat[pending[u]].at <= Timeout
    <3>1. pending[u] \in DOMAIN chat
      BY <2>3 DEF ControlsInv, PendingIsNewest
    <3>2. chat[pending[u]] \in [user : Users, action : Actions, close : BOOLEAN, at : 0 .. MaxTicks]
      <4>1. chat \in Seq([user : Users, action : Actions, close : BOOLEAN, at : 0 .. MaxTicks])
        BY DEF ControlsInv, ControlsTypeOK
      <4> QED
        BY <3>1, <4>1, ElementOf
    <3>3. now \in Nat /\ chat[pending[u]].at \in Nat /\ Timeout \in Nat
      BY <3>2, ControlsAssumption DEF ControlsInv, ControlsTypeOK
    <3> QED
      BY <2>3, <3>3
  <2> QED
    BY <2>4, <2>5, <2>6
<1> QED
  BY <1>1, ControlsInvariant, PTL DEF ControlsSpec, ExecutesTheNewestQuestionOnce

\* Of the rules other sessions set, a write undoes only those that came between
\* its own read and itself.
THEOREM OtherRulesSurvive == ControlsSpec => OnlyConcurrentRulesAreLost
<1> DEFINE Kept ==
    \A d \in Sessions :
       drafts[d] # Unread /\ drafts'[d] = Unread =>
       \A s \in Symbols \ {drafts[d].symbol} :
          rules'[s] # rules[s] => s \in meanwhile[d]
<1>1. ControlsInv /\ [ControlsNext]_controlsVars => [Kept]_controlsVars
  <2> SUFFICES ASSUME ControlsInv, [ControlsNext]_controlsVars, NEW d \in Sessions,
                      drafts[d] # Unread, drafts'[d] = Unread
               PROVE  \A s \in Symbols \ {drafts[d].symbol} :
                         rules'[s] # rules[s] => s \in meanwhile[d]
    OBVIOUS
  <2>1. WriteRules(d)
    <3>1. ASSUME NEW e \in Sessions, NEW s \in Symbols, NEW rule \in SymbolRule,
                 ReadRules(e, s, rule)
          PROVE  FALSE
      <4>1. drafts[e] = Unread /\ drafts'[d] = drafts[d]
        BY <3>1 DEF ReadRules, ControlsInv, DraftsAreRecent
      <4> QED
        BY <4>1
    <3>2. ASSUME NEW e \in Sessions, WriteRules(e) PROVE e = d
      BY <3>2 DEF WriteRules, ControlsInv, DraftsAreRecent
    <3> QED
      BY <3>1, <3>2 DEF ControlsNext, controlsVars, Tick, Telegram, Command, Confirm, Decline,
           RestartBot, Dashboard
  <2> QED
    BY <2>1 DEF WriteRules, ControlsInv, DraftsAreRecent
<1> QED
  BY <1>1, ControlsInvariant, PTL DEF ControlsSpec, OnlyConcurrentRulesAreLost
-----------------------------------------------------------------------------
(* Notifier.tla, for any users and bounds: what the handlers remember of   *)
(* their messages.  A handler that awaits Telegram holds a delivery it     *)
(* looked up before, while other handlers and the queue go on; messages    *)
(* are never removed and never change their row, so it still names a       *)
(* message of its row.  That needs the rows of all messages, deliveries,   *)
(* parked users and handlers to exist (NotesInv).                          *)
USE NotifierAssumption

Row == [status : Status, late : BOOLEAN]
Message == [row : Nat, place : {"queued", "chat", "lost"},
            buttons : {"live", "gone", "stuck"}, text : Goals \cup {"question"}]
Handler == [step : {"idle", "answer", "strip", "write"}, goal : Goals,
            row : Nat, msg : Nat, more : SUBSET Nat]

\* A table rs and a chat ms.
TablesOK(rs, ms) ==
    /\ rs \in Seq(Row) /\ Len(rs) <= MaxRows
    /\ ms \in Seq(Message) /\ Len(ms) <= MaxMessages
    /\ \A m \in DOMAIN ms : ms[m].row \in DOMAIN rs

DeliveriesOK(deliveries, ms) ==
    /\ deliveries \in [1 .. MaxRows -> 0 .. MaxMessages]
    /\ \A i \in 1 .. MaxRows : deliveries[i] # Nothing =>
          deliveries[i] \in DOMAIN ms /\ ms[deliveries[i]].row = i

HandlerOK(j, rs, ms) ==
    /\ j \in Handler
    /\ j.more \subseteq DOMAIN rs
    /\ j.step = "answer" => j.row \in DOMAIN rs
    /\ j.step \in {"strip", "write"} =>
          /\ j.row \in DOMAIN rs
          /\ j.msg \in DOMAIN ms
          /\ ms[j.msg].row = j.row

JobsOK(jobs, rs, ms) ==
    /\ jobs = [w \in Workers |-> jobs[w]]
    /\ \A w \in Workers : HandlerOK(jobs[w], rs, ms)

ParkedOK(users, rs) == users \in [Allowed -> 0 .. Len(rs)]

NotesInv ==
    /\ TablesOK(rows, messages)
    /\ DeliveriesOK(known, messages)
    /\ ParkedOK(parked, rows)
    /\ JobsOK(job, rows, messages)
    /\ ignored \subseteq Strangers

\* Rows and messages are only added, and a message stays the message of its row.
Grows(rs, ms, rs1, ms1) ==
    /\ DOMAIN rs \subseteq DOMAIN rs1 /\ Len(rs) <= Len(rs1)
    /\ DOMAIN ms \subseteq DOMAIN ms1
    /\ \A m \in DOMAIN ms : ms1[m].row = ms[m].row

\* What is remembered of rows and messages survives their growth.
LEMMA HandlerKept ==
    ASSUME NEW rs, NEW ms, NEW rs1, NEW ms1, Grows(rs, ms, rs1, ms1),
           NEW j, HandlerOK(j, rs, ms)
    PROVE  HandlerOK(j, rs1, ms1)
BY DEF HandlerOK, Grows

\* So of every suspended handler ...
LEMMA JobsKept ==
    ASSUME NEW rs, NEW ms, NEW rs1, NEW ms1, Grows(rs, ms, rs1, ms1),
           NEW jobs, JobsOK(jobs, rs, ms)
    PROVE  JobsOK(jobs, rs1, ms1)
BY HandlerKept DEF JobsOK

\* ... of the deliveries of the requests ...
LEMMA DeliveriesKept ==
    ASSUME NEW rs, NEW ms, NEW rs1, NEW ms1, Grows(rs, ms, rs1, ms1),
           NEW deliveries, DeliveriesOK(deliveries, ms)
    PROVE  DeliveriesOK(deliveries, ms1)
BY DEF DeliveriesOK, Grows

\* ... and of the users who owe a size.
LEMMA ParkedKept ==
    ASSUME NEW rs, Len(rs) \in Nat, NEW ms, NEW rs1, Len(rs1) \in Nat, NEW ms1,
           Grows(rs, ms, rs1, ms1), NEW users, ParkedOK(users, rs)
    PROVE  ParkedOK(users, rs1)
BY DEF ParkedOK, Grows

\* A worker that is idle again, or waits for the answer to a press.
LEMMA IdleIsOK == ASSUME NEW rs, NEW ms PROVE HandlerOK(Idle, rs, ms)
BY DEF HandlerOK, Handler, Idle, Goals, Nothing

\* One worker's job changes.
LEMMA OneJobChanges ==
    ASSUME NEW jobs, NEW rs, NEW ms, JobsOK(jobs, rs, ms),
           NEW w \in Workers, NEW j, HandlerOK(j, rs, ms),
           NEW jobs1, jobs1 = [jobs EXCEPT ![w] = j]
    PROVE  JobsOK(jobs1, rs, ms)
BY DEF JobsOK

\* A press that waits for its answer holds the row of its message.
LEMMA PressedKeeps ==
    ASSUME NEW rs, TablesOK(rs, messages), NEW i \in DOMAIN rs,
           JobsOK(job, rs, messages),
           NEW u \in Allowed, NEW goal \in Goals, Pressed(u, i, goal)
    PROVE  JobsOK(job', rs, messages)
<1>1. PICK j : j = [step |-> "answer", goal |-> goal, row |-> i, msg |-> Nothing,
                    more |-> {}]
  OBVIOUS
<1>2. i \in Nat
  BY DEF TablesOK
<1>3. HandlerOK(j, rs, messages)
  BY <1>1, <1>2 DEF HandlerOK, Handler, Nothing
<1>4. job' = [job EXCEPT ![u] = j] /\ u \in Workers
  BY <1>1 DEF Pressed, Workers
<1> QED
  BY <1>3, <1>4, OneJobChanges

\* A helper holds the delivery of its row, as it is remembered then.
LEMMA ProceedKeeps ==
    ASSUME NEW rs, NEW ms, TablesOK(rs, ms), JobsOK(job, rs, ms),
           NEW w \in Workers, NEW goal \in Goals,
           NEW todo, todo \subseteq DOMAIN rs,
           NEW deliveries, DeliveriesOK(deliveries, ms),
           Proceed(w, goal, todo, deliveries)
    PROVE  JobsOK(job', rs, ms)
<1>1. CASE job' = [job EXCEPT ![w] = Idle]
  BY <1>1, IdleIsOK, OneJobChanges
<1>2. ASSUME NEW i \in todo, deliveries[i] # Nothing,
             NEW j, j = [step |-> IF goal = "refresh" THEN "write" ELSE "strip",
                         goal |-> goal, row |-> i, msg |-> deliveries[i],
                         more |-> todo \ {i}],
             job' = [job EXCEPT ![w] = j]
      PROVE  JobsOK(job', rs, ms)
  <2>1. Len(rs) \in Nat /\ DOMAIN rs = 1 .. Len(rs) /\ Len(rs) <= MaxRows
    BY DEF TablesOK
  <2>2. i \in 1 .. MaxRows /\ i \in DOMAIN rs /\ i \in Nat /\ todo \subseteq Nat
    BY <2>1
  <2>3. deliveries[i] \in Nat /\ deliveries[i] \in DOMAIN ms /\ ms[deliveries[i]].row = i
    BY <1>2, <2>2 DEF DeliveriesOK
  <2>4. HandlerOK(j, rs, ms)
    BY <1>2, <2>2, <2>3 DEF HandlerOK, Handler
  <2> QED
    BY <1>2, <2>4, OneJobChanges
<1> QED
  BY <1>1, <1>2 DEF Proceed
-----------------------------------------------------------------------------
\* The initial states satisfy the invariant.
LEMMA InitNotes ==
    ASSUME Init
    PROVE  NotesInv
<1>1. rows = <<>> /\ messages = <<>> /\ ignored = {}
  BY DEF Init
<1>2. TablesOK(rows, messages)
  BY <1>1 DEF TablesOK
<1>3. DeliveriesOK(known, messages)
  BY <1>1 DEF Init, DeliveriesOK, Nothing
<1>4. ParkedOK(parked, rows)
  BY <1>1 DEF Init, ParkedOK, Nothing
<1>5. job = [w \in Workers |-> Idle]
  BY DEF Init
<1>6. JobsOK(job, rows, messages)
  BY <1>5, IdleIsOK DEF JobsOK
<1> QED
  BY <1>1, <1>2, <1>3, <1>4, <1>6 DEF NotesInv

\* Sequences, entry by entry.
LEMMA ListOf ==
    ASSUME NEW R, NEW n \in Nat, NEW f, f = [i \in 1 .. n |-> f[i]],
           \A i \in 1 .. n : f[i] \in R
    PROVE  f \in Seq(R) /\ Len(f) = n
<1>1. f \in [1 .. n -> R]
  OBVIOUS
<1> QED
  BY <1>1

\* A sequence after one of its entries has changed.
LEMMA EntryChanges ==
    ASSUME NEW R, NEW s \in Seq(R), NEW i \in DOMAIN s, NEW x \in R
    PROVE  /\ [s EXCEPT ![i] = x] \in Seq(R) /\ Len([s EXCEPT ![i] = x]) = Len(s)
           /\ \A j \in DOMAIN s : [s EXCEPT ![i] = x][j] = IF j = i THEN x ELSE s[j]
OBVIOUS

\* A row whose status or deadline changes stays the same row.
LEMMA RowChanges ==
    ASSUME TablesOK(rows, messages), NEW rs, rs \in Seq(Row), Len(rs) = Len(rows)
    PROVE  TablesOK(rs, messages) /\ Grows(rows, messages, rs, messages)
BY DEF TablesOK, Grows

\* A message that is sent or edited stays the message of its row.
LEMMA MessageChanges ==
    ASSUME TablesOK(rows, messages), NEW ms, ms \in Seq(Message),
           Len(ms) = Len(messages), \A m \in DOMAIN messages : ms[m].row = messages[m].row
    PROVE  TablesOK(rows, ms) /\ Grows(rows, messages, rows, ms)
<1>1. messages \in Seq(Message) /\ DOMAIN ms = DOMAIN messages
  BY DEF TablesOK
<1>2. TablesOK(rows, ms)
  BY <1>1 DEF TablesOK
<1>3. Grows(rows, messages, rows, ms)
  BY <1>1 DEF Grows, TablesOK
<1> QED
  BY <1>2, <1>3

\* A status is written into a row.
LEMMA StatusChanges ==
    ASSUME rows \in Seq(Row), NEW i \in DOMAIN rows, NEW status \in Status
    PROVE  /\ [rows EXCEPT ![i].status = status] \in Seq(Row)
           /\ Len([rows EXCEPT ![i].status = status]) = Len(rows)
<1>1. PICK x : x = [rows[i] EXCEPT !.status = status]
  OBVIOUS
<1>2. rows[i] \in Row
  OBVIOUS
<1>3. x \in Row
  BY <1>1, <1>2 DEF Row
<1>4. [rows EXCEPT ![i].status = status] = [rows EXCEPT ![i] = x]
  BY <1>1
<1> QED
  BY <1>3, <1>4, EntryChanges

\* The rest of the invariant, when only the tables grew.
LEMMA TablesGrow ==
    ASSUME NotesInv, TablesOK(rows', messages'), Grows(rows, messages, rows', messages')
    PROVE  /\ DeliveriesOK(known, messages')
           /\ ParkedOK(parked, rows')
           /\ JobsOK(job, rows', messages')
           /\ ignored \subseteq Strangers
<1>1. Len(rows) \in Nat /\ Len(rows') \in Nat
  BY DEF NotesInv, TablesOK
<1> QED
  BY <1>1, DeliveriesKept, ParkedKept, JobsKept DEF NotesInv

\* A request's message is of an open row or of the new one.
LEMMA AskKeeps ==
    ASSUME NotesInv, Ask
    PROVE  NotesInv'
<1>1. PICK i : /\ i \in DOMAIN rows \/ i = Len(rows) + 1
               /\ i <= MaxRows
               /\ \/ rows' = rows /\ i \in DOMAIN rows
                  \/ rows' = Append(rows, [status |-> "pending", late |-> FALSE])
                     /\ i = Len(rows) + 1
               /\ messages' = Append(messages, [row |-> i, place |-> "queued",
                                                buttons |-> "live", text |-> "question"])
  <2>1. PICK open : open = {i \in DOMAIN rows : Answerable(i)}
    OBVIOUS
  <2>2. PICK i : i = IF open = {} THEN Len(rows) + 1 ELSE CHOOSE r \in open : TRUE
    OBVIOUS
  <2>3. open # {} => i \in DOMAIN rows
    BY <2>1, <2>2
  <2>4. open = {} => i = Len(rows) + 1
    BY <2>2
  <2>5. /\ i <= MaxRows
        /\ rows' = IF open # {} THEN rows
                   ELSE Append(rows, [status |-> "pending", late |-> FALSE])
        /\ messages' = Append(messages, [row |-> i, place |-> "queued",
                                         buttons |-> "live", text |-> "question"])
    BY <2>1, <2>2 DEF Ask
  <2> QED
    BY <2>3, <2>4, <2>5
<1>2. rows \in Seq(Row) /\ messages \in Seq(Message) /\ Len(messages) < MaxMessages
  BY DEF NotesInv, TablesOK, Ask
<1>3. /\ rows' \in Seq(Row) /\ Len(rows') <= MaxRows /\ Len(rows) <= Len(rows')
      /\ DOMAIN rows \subseteq DOMAIN rows' /\ i \in DOMAIN rows'
  <2>1. [status |-> "pending", late |-> FALSE] \in Row
    BY DEF Row, Status, Undecided
  <2>2. Len(rows) <= MaxRows
    BY DEF NotesInv, TablesOK
  <2>3. CASE rows' = rows /\ i \in DOMAIN rows
    BY <1>2, <2>2, <2>3
  <2>4. CASE /\ rows' = Append(rows, [status |-> "pending", late |-> FALSE])
             /\ i = Len(rows) + 1
    <3>1. /\ rows' \in Seq(Row) /\ Len(rows') = Len(rows) + 1
      BY <1>2, <2>1, <2>4
    <3> QED
      BY <1>1, <1>2, <2>4, <3>1
  <2> QED
    BY <1>1, <2>3, <2>4
<1>4. PICK new : new = [row |-> i, place |-> "queued", buttons |-> "live",
                        text |-> "question"]
  OBVIOUS
<1>5. new \in Message /\ new.row = i
  <2>1. i \in Nat
    BY <1>2, <1>3
  <2> QED
    BY <1>4, <2>1 DEF Message
<1>6. /\ messages' = Append(messages, new)
      /\ messages' \in Seq(Message) /\ Len(messages') = Len(messages) + 1
  BY <1>1, <1>2, <1>4, <1>5
<1>7. /\ \A m \in DOMAIN messages : m \in DOMAIN messages' /\ messages'[m] = messages[m]
      /\ \A m \in DOMAIN messages' : m \in DOMAIN messages \/ messages'[m] = new
  BY <1>2, <1>5, <1>6
<1>8. \A m \in DOMAIN messages' : messages'[m].row \in DOMAIN rows'
  <2>1. \A m \in DOMAIN messages : messages[m].row \in DOMAIN rows
    BY DEF NotesInv, TablesOK
  <2> QED
    BY <1>3, <1>5, <1>7, <2>1
<1>9. TablesOK(rows', messages')
  BY <1>2, <1>3, <1>6, <1>8 DEF TablesOK
<1>10. Grows(rows, messages, rows', messages')
  BY <1>3, <1>7 DEF Grows
<1> QED
  BY <1>9, <1>10, TablesGrow DEF NotesInv, Ask

\* The queue delivers a message, or gives it up.
LEMMA QueueKeeps ==
    ASSUME NotesInv,
           NEW m \in DOMAIN messages, Deliver(m) \/ Undelivered(m)
    PROVE  NotesInv'
<1>1. PICK place \in {"chat", "lost"} : messages' = [messages EXCEPT ![m].place = place]
  BY DEF Deliver, Undelivered
<1>2. messages \in Seq(Message)
  BY DEF NotesInv, TablesOK
<1>3. /\ messages' \in Seq(Message) /\ Len(messages') = Len(messages)
      /\ \A n \in DOMAIN messages : messages'[n].row = messages[n].row
  <2>1. PICK x : x = [messages[m] EXCEPT !.place = place]
    OBVIOUS
  <2>2. messages[m] \in Message
    BY <1>2
  <2>3. x \in Message /\ x.row = messages[m].row
    BY <2>1, <2>2 DEF Message
  <2>4. messages' = [messages EXCEPT ![m] = x]
    BY <1>1, <2>1
  <2> QED
    BY <1>2, <2>3, <2>4, EntryChanges
<1>4. rows' = rows /\ parked' = parked /\ job' = job /\ ignored' = ignored
  BY DEF Deliver, Undelivered
<1>5. TablesOK(rows', messages') /\ Grows(rows, messages, rows', messages')
  BY <1>3, <1>4, MessageChanges DEF NotesInv
<1>6. DeliveriesOK(known, messages')
  BY <1>5, TablesGrow
<1>7. DeliveriesOK(known', messages')
  <2>1. PICK i : i = messages[m].row
    OBVIOUS
  <2>2. known' = known \/ known' = [known EXCEPT ![i] = m]
    BY <2>1 DEF Deliver, Undelivered
  <2>3. messages'[m].row = i /\ m \in DOMAIN messages'
    BY <1>2, <1>3, <2>1
  <2>4. m \in 0 .. MaxMessages
    BY <1>2 DEF NotesInv, TablesOK
  <2> QED
    BY <1>6, <2>2, <2>3, <2>4 DEF DeliveriesOK
<1> QED
  BY <1>4, <1>5, <1>7, TablesGrow DEF NotesInv

\* A deadline that passes changes a row, not its messages.
LEMMA DeadlineKeeps ==
    ASSUME NotesInv, NEW i \in DOMAIN rows, DeadlinePasses(i)
    PROVE  NotesInv'
<1>1. rows' \in Seq(Row) /\ Len(rows') = Len(rows)
  <2>1. PICK x : x = [rows[i] EXCEPT !.late = TRUE]
    OBVIOUS
  <2>2. rows \in Seq(Row) /\ rows[i] \in Row
    BY DEF NotesInv, TablesOK
  <2>3. x \in Row /\ rows' = [rows EXCEPT ![i] = x]
    BY <2>1, <2>2 DEF Row, DeadlinePasses
  <2> QED
    BY <2>2, <2>3, EntryChanges
<1>2. messages' = messages
  BY DEF DeadlinePasses
<1>3. TablesOK(rows', messages') /\ Grows(rows, messages, rows', messages')
  BY <1>1, <1>2, RowChanges DEF NotesInv
<1> QED
  BY <1>3, TablesGrow DEF NotesInv, DeadlinePasses

\* A tap decides, parks or redraws at most its own row.
LEMMA TapKeeps ==
    ASSUME NotesInv, NEW u \in Allowed, NEW m \in DOMAIN messages,
           \/ TapSpent(u, m)
           \/ \E decision \in {"approved", "rejected"} : TapDecision(u, m, decision)
           \/ TapModify(u, m)
           \/ TapSnooze(u, m)
    PROVE  NotesInv'
<1>1. PICK i : i = messages[m].row
  OBVIOUS
<1>2. i \in DOMAIN rows
  BY <1>1 DEF NotesInv, TablesOK
<1>3. PICK goal \in Goals : Pressed(u, i, goal)
  BY <1>1 DEF TapSpent, TapDecision, TapModify, TapSnooze,
              Goals
<1>4. rows' = rows \/ \E status \in Status : rows' = [rows EXCEPT ![i].status = status]
  BY <1>1 DEF TapSpent, TapDecision, TapModify, TapSnooze,
              Status, Undecided
<1>5. messages' = messages /\ known' = known /\ parked' = parked /\ ignored' = ignored
  BY DEF TapSpent, TapDecision, TapModify, TapSnooze
<1>6. rows' \in Seq(Row) /\ Len(rows') = Len(rows)
  <2>1. rows \in Seq(Row)
    BY DEF NotesInv, TablesOK
  <2>2. ASSUME NEW status \in Status, rows' = [rows EXCEPT ![i].status = status]
        PROVE  rows' \in Seq(Row) /\ Len(rows') = Len(rows)
    BY <1>2, <2>1, <2>2, StatusChanges
  <2> QED
    BY <1>4, <2>1, <2>2
<1>7. TablesOK(rows', messages') /\ Grows(rows, messages, rows', messages')
  BY <1>5, <1>6, RowChanges DEF NotesInv
<1>8. i \in DOMAIN rows'
  BY <1>2, <1>7 DEF Grows
<1>9. JobsOK(job, rows', messages')
  BY <1>7, TablesGrow
<1>10. JobsOK(job', rows', messages)
  BY <1>3, <1>5, <1>7, <1>8, <1>9, PressedKeeps
<1> QED
  BY <1>5, <1>7, <1>10, TablesGrow DEF NotesInv

\* The press is answered: the helper looks up the delivery of the row.
LEMMA PressAnsweredKeeps ==
    ASSUME NotesInv,
           NEW u \in Allowed, PressAnswered(u)
    PROVE  NotesInv'
<1>1. PICK j : j = job[u]
  OBVIOUS
<1>2. u \in Workers
  BY DEF Workers
<1>3. HandlerOK(j, rows, messages) /\ j.step = "answer"
  BY <1>1, <1>2 DEF NotesInv, JobsOK, PressAnswered
<1>4. j.row \in DOMAIN rows /\ j.goal \in Goals
  BY <1>3 DEF HandlerOK, Handler
<1>5. UNCHANGED <<rows, messages, known, ignored>>
  BY DEF PressAnswered
<1>6. JobsOK(job', rows, messages)
  <2>1. PICK todo : todo = {j.row}
    OBVIOUS
  <2>2. todo \subseteq DOMAIN rows
    BY <1>4, <2>1
  <2>3. Proceed(u, j.goal, todo, known)
    BY <1>1, <2>1 DEF PressAnswered
  <2>4. TablesOK(rows, messages) /\ JobsOK(job, rows, messages) /\ DeliveriesOK(known, messages)
    BY DEF NotesInv
  <2> QED
    BY <1>2, <1>4, <2>2, <2>3, <2>4, ProceedKeeps
<1>7. ParkedOK(parked', rows)
  <2>1. j.row \in 0 .. Len(rows)
    BY <1>4 DEF NotesInv, TablesOK
  <2>2. parked' = parked \/ parked' = [parked EXCEPT ![u] = j.row]
    BY <1>1 DEF PressAnswered
  <2> QED
    BY <2>1, <2>2 DEF NotesInv, ParkedOK
<1> QED
  BY <1>5, <1>6, <1>7 DEF NotesInv

\* An edit of the message a handler holds.
LEMMA EditKeeps ==
    ASSUME NotesInv, NEW m \in DOMAIN messages, NEW x \in Message,
           x.row = messages[m].row, NEW ms, ms = [messages EXCEPT ![m] = x]
    PROVE  /\ TablesOK(rows, ms) /\ Grows(rows, messages, rows, ms)
           /\ DeliveriesOK(known, ms) /\ JobsOK(job, rows, ms)
<1>1. messages \in Seq(Message) /\ TablesOK(rows, messages)
  BY DEF NotesInv, TablesOK
<1>2. /\ ms \in Seq(Message) /\ Len(ms) = Len(messages)
      /\ \A n \in DOMAIN messages : ms[n].row = messages[n].row
  BY <1>1, EntryChanges
<1>3. TablesOK(rows, ms) /\ Grows(rows, messages, rows, ms)
  BY <1>1, <1>2, MessageChanges
<1> QED
  BY <1>3, DeliveriesKept, JobsKept DEF NotesInv

\* The buttons of the message a handler holds are removed, or not.
LEMMA StripKeeps ==
    ASSUME NotesInv, NEW w \in Workers, Strip(w)
    PROVE  NotesInv'
<1>1. PICK j : j = job[w]
  OBVIOUS
<1>2. HandlerOK(j, rows, messages) /\ j.step = "strip"
  BY <1>1 DEF NotesInv, JobsOK, Strip
<1>3. PICK m \in DOMAIN messages : m = j.msg
  BY <1>2 DEF HandlerOK
<1>4. PICK state \in {"live", "gone", "stuck"} :
         messages' = [messages EXCEPT ![m].buttons = state]
  <2>1. messages[m] \in Message
    BY DEF NotesInv, TablesOK
  <2>2. messages[m].buttons \in {"live", "gone", "stuck"}
    BY <2>1 DEF Message
  <2> QED
    BY <1>1, <1>3, <2>2 DEF Strip
<1>5. PICK x : x = [messages[m] EXCEPT !.buttons = state]
  OBVIOUS
<1>6. x \in Message /\ x.row = messages[m].row
  <2>1. messages[m] \in Message
    BY DEF NotesInv, TablesOK
  <2> QED
    BY <1>5, <2>1 DEF Message
<1>7. messages' = [messages EXCEPT ![m] = x]
  BY <1>4, <1>5
<1>8. UNCHANGED <<rows, known, parked, ignored>>
  BY DEF Strip
<1>9. TablesOK(rows, messages') /\ DeliveriesOK(known, messages') /\ JobsOK(job, rows, messages')
  BY <1>6, <1>7, EditKeeps
<1>10. PICK k : k = [j EXCEPT !.step = "write"]
  OBVIOUS
<1>11. job' = [job EXCEPT ![w] = k]
  BY <1>1, <1>10 DEF Strip
<1>12. HandlerOK(j, rows, messages')
  BY <1>1, <1>9 DEF JobsOK
<1>13. HandlerOK(k, rows, messages')
  BY <1>2, <1>10, <1>12 DEF HandlerOK, Handler
<1>14. JobsOK(job', rows, messages')
  BY <1>9, <1>11, <1>13, OneJobChanges
<1> QED
  BY <1>8, <1>9, <1>14 DEF NotesInv

\* Its text is written, or not, and the sweep goes on to its next row.
LEMMA WriteKeeps ==
    ASSUME NotesInv,
           NEW w \in Workers, Write(w)
    PROVE  NotesInv'
<1>1. PICK j : j = job[w]
  OBVIOUS
<1>2. HandlerOK(j, rows, messages) /\ j.step = "write"
  BY <1>1 DEF NotesInv, JobsOK, Write
<1>3. /\ j.goal \in Goals /\ j.more \subseteq DOMAIN rows
      /\ j.row \in DOMAIN rows
  BY <1>2 DEF HandlerOK, Handler
<1>4. PICK m \in DOMAIN messages : m = j.msg
  BY <1>2 DEF HandlerOK
<1>5. PICK text \in Goals \cup {"question"} :
         messages' = [messages EXCEPT ![m].text = text]
  <2>1. messages[m] \in Message
    BY DEF NotesInv, TablesOK
  <2>2. messages[m].text \in Goals \cup {"question"}
    BY <2>1 DEF Message
  <2> QED
    BY <1>1, <1>3, <1>4, <2>2 DEF Write
<1>6. PICK x : x = [messages[m] EXCEPT !.text = text]
  OBVIOUS
<1>7. x \in Message /\ x.row = messages[m].row
  <2>1. messages[m] \in Message
    BY DEF NotesInv, TablesOK
  <2> QED
    BY <1>6, <2>1 DEF Message
<1>8. messages' = [messages EXCEPT ![m] = x]
  BY <1>5, <1>6
<1>9. UNCHANGED <<rows, parked, ignored>>
  BY DEF Write
<1>10. TablesOK(rows, messages') /\ DeliveriesOK(known, messages') /\ JobsOK(job, rows, messages')
  BY <1>7, <1>8, EditKeeps
<1>11. DeliveriesOK(known', messages')
  <2>1. known' = known \/ known' = [known EXCEPT ![j.row] = Nothing]
    BY <1>1 DEF Write
  <2>2. Nothing \in 0 .. MaxMessages
    BY DEF Nothing
  <2> QED
    BY <1>10, <2>1, <2>2 DEF DeliveriesOK
<1>12. PICK deliveries : deliveries = known'
  OBVIOUS
<1>13. Proceed(w, j.goal, j.more, deliveries)
  BY <1>1, <1>12 DEF Write
<1>14. JobsOK(job', rows, messages')
  <2>1. PICK ms : ms = messages'
    OBVIOUS
  <2>2. TablesOK(rows, ms) /\ JobsOK(job, rows, ms) /\ DeliveriesOK(deliveries, ms)
    BY <1>10, <1>11, <1>12, <2>1
  <2>3. JobsOK(job', rows, ms)
    BY <1>3, <1>13, <2>2, ProceedKeeps
  <2> QED
    BY <2>1, <2>3
<1> QED
  BY <1>9, <1>10, <1>11, <1>14 DEF NotesInv

\* A parked user's size decides the row the user is parked on.
LEMMA SubmitSizeKeeps ==
    ASSUME NotesInv,
           NEW u \in Allowed, SubmitSize(u)
    PROVE  NotesInv'
<1>1. PICK i : i = parked[u]
  OBVIOUS
<1>2. i \in DOMAIN rows /\ rows \in Seq(Row) /\ u \in Workers
  BY <1>1 DEF NotesInv, ParkedOK, TablesOK, SubmitSize, Nothing, Workers
<1>3. rows' = rows \/ \E status \in {"expired", "approved"} :
                         rows' = [rows EXCEPT ![i].status = status]
  BY <1>1 DEF SubmitSize
<1>4. UNCHANGED <<messages, known, ignored>>
  BY DEF SubmitSize
<1>5. rows' \in Seq(Row) /\ Len(rows') = Len(rows)
  <2>1. ASSUME NEW status \in {"expired", "approved"},
               rows' = [rows EXCEPT ![i].status = status]
        PROVE  rows' \in Seq(Row) /\ Len(rows') = Len(rows)
    <3>1. status \in Status
      BY DEF Status
    <3> QED
      BY <1>2, <2>1, <3>1, StatusChanges
  <2> QED
    BY <1>2, <1>3, <2>1
<1>6. PICK rs : rs = rows'
  OBVIOUS
<1>7. TablesOK(rs, messages) /\ Grows(rows, messages, rs, messages)
  BY <1>5, <1>6, RowChanges DEF NotesInv
<1>8. /\ DeliveriesOK(known, messages) /\ ParkedOK(parked, rs)
      /\ JobsOK(job, rs, messages)
  BY <1>4, <1>6, <1>7, TablesGrow
<1>9. JobsOK(job', rs, messages)
  <2>1. PICK todo : todo = {i}
    OBVIOUS
  <2>2. todo \subseteq DOMAIN rs
    BY <1>2, <1>7, <2>1 DEF Grows
  <2>3. Proceed(u, "finalise", todo, known)
    BY <1>1, <2>1 DEF SubmitSize
  <2>4. "finalise" \in Goals
    BY DEF Goals
  <2> QED
    BY <1>2, <1>7, <1>8, <2>2, <2>3, <2>4, ProceedKeeps
<1>10. ParkedOK(parked', rs)
  <2>1. Len(rs) \in Nat
    BY <1>5, <1>6
  <2>2. parked' = [parked EXCEPT ![u] = 0]
    BY DEF SubmitSize, Nothing
  <2> QED
    BY <1>8, <2>1, <2>2 DEF ParkedOK
<1> QED
  BY <1>4, <1>6, <1>7, <1>8, <1>9, <1>10 DEF NotesInv

\* The sweep expires rows and holds some of them.
LEMMA SweepKeeps ==
    ASSUME NotesInv, Sweep
    PROVE  NotesInv'
<1>1. rows \in Seq(Row)
  BY DEF NotesInv, TablesOK
<1>2. PICK todo : todo = Expirable
  OBVIOUS
<1>3. todo \subseteq DOMAIN rows
  BY <1>2 DEF Expirable
<1>4. PICK rs : rs = rows'
  OBVIOUS
<1>5. rs = [i \in DOMAIN rows |-> IF i \in todo THEN [rows[i] EXCEPT !.status = "expired"]
                                  ELSE rows[i]]
  BY <1>2, <1>4 DEF Sweep
<1>6. rs \in Seq(Row) /\ Len(rs) = Len(rows)
  <2>1. ASSUME NEW i \in DOMAIN rows PROVE rs[i] \in Row
    <3>1. rows[i] \in Row
      BY <1>1
    <3>2. [rows[i] EXCEPT !.status = "expired"] \in Row
      BY <3>1 DEF Row, Status
    <3> QED
      BY <1>5, <3>1, <3>2
  <2>2. DOMAIN rs = 1 .. Len(rows) /\ Len(rows) \in Nat
    BY <1>1, <1>5
  <2>3. rs = [i \in 1 .. Len(rows) |-> rs[i]] /\ \A i \in 1 .. Len(rows) : rs[i] \in Row
    BY <1>1, <1>5, <2>1
  <2> QED
    BY <2>2, <2>3, ListOf
<1>7. UNCHANGED <<messages, known, parked, ignored>>
  BY DEF Sweep
<1>8. TablesOK(rs, messages) /\ Grows(rows, messages, rs, messages)
  BY <1>6, RowChanges DEF NotesInv
<1>9. /\ DeliveriesOK(known, messages) /\ ParkedOK(parked, rs)
      /\ JobsOK(job, rs, messages)
  BY <1>4, <1>7, <1>8, TablesGrow
<1>10. JobsOK(job', rs, messages)
  <2>1. Proceed("sweeper", "finalise", todo, known)
    BY <1>2 DEF Sweep, Sweeper
  <2>2. "finalise" \in Goals /\ "sweeper" \in Workers
    BY DEF Goals, Workers, Sweeper
  <2>3. todo \subseteq DOMAIN rs
    BY <1>3, <1>5
  <2> QED
    BY <1>8, <1>9, <2>1, <2>2, <2>3, ProceedKeeps
<1> QED
  BY <1>4, <1>7, <1>8, <1>9, <1>10 DEF NotesInv

\* A new process remembers nothing; the rows and the chat are as they were.
LEMMA RestartKeeps ==
    ASSUME NotesInv, Restart
    PROVE  NotesInv'
<1>1. messages \in Seq(Message) /\ Len(messages) \in Nat
  BY DEF NotesInv, TablesOK
<1>2. PICK ms : ms = messages'
  OBVIOUS
<1>3. ms = [m \in DOMAIN messages |-> IF messages[m].place = "queued"
                                      THEN [messages[m] EXCEPT !.place = "lost"]
                                      ELSE messages[m]]
  BY <1>2 DEF Restart
<1>4. ASSUME NEW m \in DOMAIN messages PROVE ms[m] \in Message /\ ms[m].row = messages[m].row
  <2>1. messages[m] \in Message
    BY <1>1
  <2>2. PICK x : x = [messages[m] EXCEPT !.place = "lost"]
    OBVIOUS
  <2>3. x \in Message /\ x.row = messages[m].row
    BY <2>1, <2>2 DEF Message
  <2> QED
    BY <1>3, <2>1, <2>2, <2>3
<1>5. ms \in Seq(Message) /\ Len(ms) = Len(messages)
  <2>1. ms = [m \in 1 .. Len(messages) |-> ms[m]]
    BY <1>1, <1>3
  <2>2. \A m \in 1 .. Len(messages) : ms[m] \in Message
    BY <1>1, <1>4
  <2> QED
    BY <1>1, <2>1, <2>2, ListOf
<1>6. TablesOK(rows, ms)
  BY <1>4, <1>5, MessageChanges DEF NotesInv
<1>7. UNCHANGED rows /\ ignored' = {}
  BY DEF Restart
<1>8. DeliveriesOK(known', ms)
  BY DEF Restart, DeliveriesOK, Nothing
<1>9. ParkedOK(parked', rows)
  BY DEF Restart, ParkedOK, Nothing, NotesInv, TablesOK
<1>10. JobsOK(job', rows, ms)
  <2>1. job' = [w \in Workers |-> Idle]
    BY DEF Restart
  <2> QED
    BY <2>1, IdleIsOK DEF JobsOK
<1> QED
  BY <1>2, <1>6, <1>7, <1>8, <1>9, <1>10 DEF NotesInv

\* Every step keeps the invariant: one fact per action.
LEMMA StepNotes ==
    ASSUME NotesInv, [Next]_vars
    PROVE  NotesInv'
<1>1. CASE Ask
  BY <1>1, AskKeeps
<1>2. ASSUME NEW m \in DOMAIN messages, Deliver(m) \/ Undelivered(m)
      PROVE  NotesInv'
  BY <1>2, QueueKeeps
<1>3. ASSUME NEW i \in DOMAIN rows, DeadlinePasses(i) PROVE NotesInv'
  BY <1>3, DeadlineKeeps
<1>4. ASSUME NEW u \in Allowed, NEW m \in DOMAIN messages,
             \/ TapSpent(u, m)
             \/ \E decision \in {"approved", "rejected"} : TapDecision(u, m, decision)
             \/ TapModify(u, m)
             \/ TapSnooze(u, m)
      PROVE  NotesInv'
  BY <1>4, TapKeeps
<1>5. ASSUME NEW w \in Workers, HandlerStep(w) PROVE NotesInv'
  BY <1>5, StripKeeps, WriteKeeps, PressAnsweredKeeps DEF HandlerStep
<1>6. ASSUME NEW u \in Allowed, SubmitSize(u) PROVE NotesInv'
  BY <1>6, SubmitSizeKeeps
<1>7. CASE Sweep
  BY <1>7, SweepKeeps
<1>8. ASSUME NEW s \in Strangers, Ignore(s) PROVE NotesInv'
  <2>1. UNCHANGED <<rows, messages, known, parked, job>> /\ ignored' = ignored \cup {s}
    BY <1>8 DEF Ignore
  <2> QED
    BY <2>1 DEF NotesInv
<1>9. CASE Restart
  BY <1>9, RestartKeeps
<1>10. CASE UNCHANGED vars
  <2>1. UNCHANGED <<rows, messages, known, parked, job, ignored>>
    BY <1>10 DEF vars
  <2> QED
    BY <2>1 DEF NotesInv
<1> QED
  BY <1>1, <1>2, <1>3, <1>4, <1>5, <1>6, <1>7, <1>8, <1>9, <1>10 DEF Next

\* Through any interleaving of taps, replies, sweeps, deliveries and restarts a
\* delivery that is remembered, and an edit that is under way, is of a message of
\* that very row: no handler closes or rewrites the message of another request.
THEOREM NotifierTypes == Spec => []TypeOK
<1>1. NotesInv => TypeOK
  <2> SUFFICES ASSUME NotesInv PROVE TypeOK
    OBVIOUS
  <2>1. rows \in Seq([status : Status, late : BOOLEAN])
    BY DEF NotesInv, TablesOK, Row
  <2>2. ASSUME NEW m \in DOMAIN messages
        PROVE  messages[m] \in [row : 1 .. MaxRows, place : {"queued", "chat", "lost"},
                                buttons : {"live", "gone", "stuck"},
                                text : Goals \cup {"question"}]
    <3>1. messages[m] \in Message
      BY DEF NotesInv, TablesOK
    <3>2. messages[m].row \in 1 .. MaxRows
      BY DEF NotesInv, TablesOK
    <3> QED
      BY <3>1, <3>2 DEF Message
  <2>3. messages \in Seq([row : 1 .. MaxRows, place : {"queued", "chat", "lost"},
                          buttons : {"live", "gone", "stuck"},
                          text : Goals \cup {"question"}])
    <3>1. /\ Len(messages) \in Nat /\ DOMAIN messages = 1 .. Len(messages)
          /\ messages = [m \in 1 .. Len(messages) |-> messages[m]]
      BY DEF NotesInv, TablesOK
    <3> QED
      BY <2>2, <3>1, ListOf
  <2>4. parked \in [Allowed -> 0 .. MaxRows]
    <3>1. Len(rows) \in Nat /\ Len(rows) <= MaxRows
      BY DEF NotesInv, TablesOK
    <3> QED
      BY <3>1 DEF NotesInv, ParkedOK
  <2>5. DeliveriesOK(known, messages) /\ ignored \subseteq Strangers
    BY DEF NotesInv
  <2>6. \A w \in Workers : job[w].step \in {"strip", "write"} =>
           job[w].msg \in DOMAIN messages /\ messages[job[w].msg].row = job[w].row
    BY DEF NotesInv, JobsOK, HandlerOK
  <2> QED
    BY <2>1, <2>3, <2>4, <2>5, <2>6 DEF TypeOK, DeliveriesOK
<1>2. Init => NotesInv
  BY InitNotes
<1>3. NotesInv /\ [Next]_vars => NotesInv'
  BY StepNotes
<1> QED
  BY <1>1, <1>2, <1>3, PTL DEF Spec
-----------------------------------------------------------------------------
(* What the chat shows.  A handler closes a message on the strength of a   *)
(* status it read before it waited for Telegram, so ChatIsHonest is not    *)
(* inductive: it takes that a row which is decided, parked or late never   *)
(* turns back (Ages), that whoever is about to close or to mark a message  *)
(* acts for such a row, the sweep's later rows included, and that a parked *)
(* user owes a size for a row that is no longer pending.                   *)

\* What Answerable says of row i of the table rs.
Open(rs, i) == rs[i].status \in Undecided /\ ~rs[i].late

\* The helper goal may tell the chat what it tells it about row i.
Settled(goal, i, rs) ==
    /\ goal = "finalise" => ~Open(rs, i)
    /\ goal = "park" => rs[i].status # "pending"

MessagesHonest(ms, rs) ==
    \A m \in DOMAIN ms :
       /\ ms[m].buttons # "live" => rs[ms[m].row].status # "pending" \/ rs[ms[m].row].late
       /\ ms[m].text = "finalise" => ~Open(rs, ms[m].row)

JobHonest(j, rs) ==
    j.step # "idle" =>
       /\ \A i \in {j.row} \cup j.more : Settled(j.goal, i, rs)
       /\ j.step = "strip" => j.goal # "refresh"

JobsHonest(jobs, rs) == \A w \in Workers : JobHonest(jobs[w], rs)

ParkedHonest(users, rs) ==
    \A u \in Allowed : users[u] # Nothing => rs[users[u]].status # "pending"

HonestInv ==
    /\ MessagesHonest(messages, rows)
    /\ JobsHonest(job, rows)
    /\ ParkedHonest(parked, rows)

\* No row turns back.
Ages(rs, rs1) ==
    \A i \in DOMAIN rs :
       /\ rs[i].status # "pending" => rs1[i].status # "pending"
       /\ rs[i].late => rs1[i].late
       /\ ~Open(rs, i) => ~Open(rs1, i)

\* What was honest stays so while the rows age.
LEMMA AgingKeeps ==
    ASSUME NotesInv, HonestInv, NEW rs, Ages(rows, rs)
    PROVE  /\ MessagesHonest(messages, rs)
           /\ JobsHonest(job, rs)
           /\ ParkedHonest(parked, rs)
<1>1. MessagesHonest(messages, rs)
  <2>1. \A m \in DOMAIN messages : messages[m].row \in DOMAIN rows
    BY DEF NotesInv, TablesOK
  <2> QED
    BY <2>1 DEF HonestInv, MessagesHonest, Ages
<1>2. JobsHonest(job, rs)
  <2> SUFFICES ASSUME NEW w \in Workers PROVE JobHonest(job[w], rs)
    BY DEF JobsHonest
  <2>1. PICK j : j = job[w]
    OBVIOUS
  <2>2. HandlerOK(j, rows, messages) /\ JobHonest(j, rows)
    BY <2>1 DEF NotesInv, JobsOK, HonestInv, JobsHonest
  <2>3. j.step # "idle" => j.row \in DOMAIN rows /\ j.more \subseteq DOMAIN rows
    BY <2>2 DEF HandlerOK, Handler
  <2>4. ASSUME j.step # "idle", NEW i \in {j.row} \cup j.more
        PROVE  Settled(j.goal, i, rs)
    <3>1. i \in DOMAIN rows /\ Settled(j.goal, i, rows)
      BY <2>2, <2>3, <2>4 DEF JobHonest
    <3> QED
      BY <3>1 DEF Settled, Ages
  <2> QED
    BY <2>1, <2>2, <2>4 DEF JobHonest
<1>3. ParkedHonest(parked, rs)
  <2> SUFFICES ASSUME NEW u \in Allowed, parked[u] # Nothing
               PROVE  rs[parked[u]].status # "pending"
    BY DEF ParkedHonest
  <2>1. parked[u] \in 0 .. Len(rows) /\ Len(rows) \in Nat /\ DOMAIN rows = 1 .. Len(rows)
    BY DEF NotesInv, ParkedOK, TablesOK
  <2>2. parked[u] \in DOMAIN rows
    BY <2>1 DEF Nothing
  <2> QED
    BY <2>2 DEF HonestInv, ParkedHonest, Ages
<1> QED
  BY <1>1, <1>2, <1>3

\* A table that is not touched has aged, too.
LEMMA SameAge == ASSUME NEW rs PROVE Ages(rs, rs)
BY DEF Ages

\* One worker's job changes.
LEMMA OneJobHonest ==
    ASSUME NEW rs, NEW jobs, jobs = [w \in Workers |-> jobs[w]], JobsHonest(jobs, rs),
           NEW w \in Workers, NEW j, JobHonest(j, rs),
           NEW jobs1, jobs1 = [jobs EXCEPT ![w] = j]
    PROVE  JobsHonest(jobs1, rs)
BY DEF JobsHonest

\* A press that waits for its answer.
LEMMA PressedHonest ==
    ASSUME NEW rs, job = [w \in Workers |-> job[w]], JobsHonest(job, rs), NEW u \in Allowed,
           NEW i, NEW goal, Settled(goal, i, rs), Pressed(u, i, goal)
    PROVE  JobsHonest(job', rs)
<1>1. PICK j : j = [step |-> "answer", goal |-> goal, row |-> i, msg |-> Nothing,
                    more |-> {}]
  OBVIOUS
<1>2. JobHonest(j, rs)
  BY <1>1 DEF JobHonest
<1>3. job' = [job EXCEPT ![u] = j] /\ u \in Workers
  BY <1>1 DEF Pressed, Workers
<1> QED
  BY <1>2, <1>3, OneJobHonest

\* A helper acts for rows that are settled for it.
LEMMA ProceedHonest ==
    ASSUME NEW rs, job = [w \in Workers |-> job[w]], JobsHonest(job, rs), NEW w \in Workers,
           NEW goal, NEW todo, \A i \in todo : Settled(goal, i, rs),
           NEW deliveries, Proceed(w, goal, todo, deliveries)
    PROVE  JobsHonest(job', rs)
<1>1. CASE job' = [job EXCEPT ![w] = Idle]
  <2>1. JobHonest(Idle, rs)
    BY DEF JobHonest, Idle
  <2> QED
    BY <1>1, <2>1, OneJobHonest
<1>2. ASSUME NEW i \in todo,
             NEW j, j = [step |-> IF goal = "refresh" THEN "write" ELSE "strip",
                         goal |-> goal, row |-> i, msg |-> deliveries[i],
                         more |-> todo \ {i}],
             job' = [job EXCEPT ![w] = j]
      PROVE  JobsHonest(job', rs)
  <2>1. JobHonest(j, rs)
    BY <1>2 DEF JobHonest
  <2> QED
    BY <1>2, <2>1, OneJobHonest
<1> QED
  BY <1>1, <1>2 DEF Proceed

\* The job of a worker, while the invariant holds.
LEMMA JobsAreListed == NotesInv => job = [w \in Workers |-> job[w]]
BY DEF NotesInv, JobsOK
-----------------------------------------------------------------------------
\* Nothing is shown, awaited or owed at first.
LEMMA InitHonest == ASSUME Init PROVE HonestInv
<1>1. MessagesHonest(messages, rows)
  BY DEF Init, MessagesHonest
<1>2. JobsHonest(job, rows)
  BY DEF Init, JobsHonest, JobHonest, Idle
<1>3. ParkedHonest(parked, rows)
  BY DEF Init, ParkedHonest
<1> QED
  BY <1>1, <1>2, <1>3 DEF HonestInv

\* A message goes out as a question with its buttons.
LEMMA AskHonest == ASSUME NotesInv, HonestInv, Ask PROVE HonestInv'
<1>1. rows \in Seq(Row) /\ messages \in Seq(Message)
  BY DEF NotesInv, TablesOK
<1>2. PICK i : messages' = Append(messages, [row |-> i, place |-> "queued",
                                             buttons |-> "live", text |-> "question"])
  BY DEF Ask
<1>3. rows' = rows \/ rows' = Append(rows, [status |-> "pending", late |-> FALSE])
  BY DEF Ask
<1>4. \A r \in DOMAIN rows : rows'[r] = rows[r]
  BY <1>1, <1>3
<1>5. Ages(rows, rows')
  BY <1>4 DEF Ages, Open
<1>6. /\ MessagesHonest(messages, rows') /\ JobsHonest(job, rows')
      /\ ParkedHonest(parked, rows')
  BY <1>5, AgingKeeps
<1>7. \A m \in DOMAIN messages' :
         \/ m \in DOMAIN messages /\ messages'[m] = messages[m]
         \/ messages'[m].buttons = "live" /\ messages'[m].text = "question"
  BY <1>1, <1>2
<1>8. MessagesHonest(messages', rows')
  BY <1>6, <1>7 DEF MessagesHonest
<1> QED
  BY <1>6, <1>8 DEF HonestInv, Ask

\* Where a message is says nothing about its request.
LEMMA PlacesHonest ==
    ASSUME HonestInv, UNCHANGED rows, DOMAIN messages' = DOMAIN messages,
           \A m \in DOMAIN messages :
              /\ messages'[m].row = messages[m].row
              /\ messages'[m].buttons = messages[m].buttons
              /\ messages'[m].text = messages[m].text
    PROVE  MessagesHonest(messages', rows')
BY DEF HonestInv, MessagesHonest

\* The queue delivers a message, or gives it up.
LEMMA QueueHonest ==
    ASSUME NotesInv, HonestInv, NEW m \in DOMAIN messages, Deliver(m) \/ Undelivered(m)
    PROVE  HonestInv'
<1>1. PICK place : messages' = [messages EXCEPT ![m].place = place]
  BY DEF Deliver, Undelivered
<1>2. rows' = rows /\ parked' = parked /\ job' = job
  BY DEF Deliver, Undelivered
<1>3. \A n \in DOMAIN messages : messages[n] \in Message
  BY DEF NotesInv, TablesOK
<1>4. /\ DOMAIN messages' = DOMAIN messages
      /\ \A n \in DOMAIN messages :
            /\ messages'[n].row = messages[n].row
            /\ messages'[n].buttons = messages[n].buttons
            /\ messages'[n].text = messages[n].text
  BY <1>1, <1>3 DEF Message
<1>5. MessagesHonest(messages', rows')
  BY <1>2, <1>4, PlacesHonest
<1> QED
  BY <1>2, <1>5 DEF HonestInv

\* A passed deadline does not come back.
LEMMA DeadlineHonest ==
    ASSUME NotesInv, HonestInv, NEW i \in DOMAIN rows, DeadlinePasses(i)
    PROVE  HonestInv'
<1>1. rows' = [rows EXCEPT ![i].late = TRUE] /\ \A r \in DOMAIN rows : rows[r] \in Row
  BY DEF DeadlinePasses, NotesInv, TablesOK
<1>2. Ages(rows, rows')
  BY <1>1 DEF Ages, Open, Row
<1> QED
  BY <1>2, AgingKeeps DEF HonestInv, DeadlinePasses

\* A status other than pending is written into a row that was undecided; if the
\* row was late, it is a final one.
LEMMA StatusAges ==
    ASSUME rows \in Seq(Row), NEW i \in DOMAIN rows,
           NEW status \in {"awaiting", "approved", "rejected", "expired"},
           Open(rows, i) \/ status # "awaiting",
           NEW rs, rs = [rows EXCEPT ![i].status = status]
    PROVE  Ages(rows, rs) /\ rs[i].status = status /\ rs[i].late = rows[i].late
<1>1. \A r \in DOMAIN rows : rows[r] \in Row
  OBVIOUS
<1>2. /\ rs[i].status = status /\ rs[i].late = rows[i].late
      /\ \A r \in DOMAIN rows : r # i => rs[r] = rows[r]
  BY <1>1 DEF Row
<1> QED
  BY <1>2 DEF Ages, Open, Undecided

\* A tap is answered for the row of its message, as that row now is.
LEMMA TapHonest ==
    ASSUME NotesInv, HonestInv, NEW u \in Allowed, NEW m \in DOMAIN messages,
           \/ TapSpent(u, m)
           \/ \E decision \in {"approved", "rejected"} : TapDecision(u, m, decision)
           \/ TapModify(u, m)
           \/ TapSnooze(u, m)
    PROVE  HonestInv'
<1>1. PICK i : i = messages[m].row
  OBVIOUS
<1>2. i \in DOMAIN rows /\ rows \in Seq(Row)
  BY <1>1 DEF NotesInv, TablesOK
<1>3. UNCHANGED <<messages, parked>>
  BY DEF TapSpent, TapDecision, TapModify, TapSnooze
<1>4. PICK rs : rs = rows'
  OBVIOUS
<1>5. ASSUME Ages(rows, rs), NEW goal, Settled(goal, i, rs), Pressed(u, i, goal)
      PROVE  HonestInv'
  <2>1. MessagesHonest(messages, rs) /\ JobsHonest(job, rs) /\ ParkedHonest(parked, rs)
    BY <1>5, AgingKeeps
  <2>2. JobsHonest(job', rs)
    BY <1>5, <2>1, PressedHonest, JobsAreListed
  <2> QED
    BY <1>3, <1>4, <2>1, <2>2 DEF HonestInv
<1>6. ASSUME TapSpent(u, m) PROVE HonestInv'
  <2>1. rs = rows /\ Pressed(u, i, "finalise") /\ ~Open(rows, i)
    BY <1>1, <1>4, <1>6 DEF TapSpent, Answerable, Decided, Open
  <2>2. Settled("finalise", i, rs)
    BY <2>1 DEF Settled
  <2> QED
    BY <1>5, <2>1, <2>2, SameAge
<1>7. ASSUME NEW decision \in {"approved", "rejected"}, TapDecision(u, m, decision)
      PROVE  HonestInv'
  <2>1. rs = [rows EXCEPT ![i].status = decision] /\ Pressed(u, i, "finalise")
    BY <1>1, <1>4, <1>7 DEF TapDecision
  <2>2. Ages(rows, rs) /\ rs[i].status = decision
    BY <1>2, <2>1, StatusAges
  <2>3. Settled("finalise", i, rs)
    BY <2>2 DEF Settled, Open, Undecided
  <2> QED
    BY <1>5, <2>1, <2>2, <2>3
<1>8. ASSUME TapModify(u, m) PROVE HonestInv'
  <2>1. /\ rs = [rows EXCEPT ![i].status = "awaiting"] /\ Pressed(u, i, "park")
        /\ Open(rows, i)
    BY <1>1, <1>4, <1>8 DEF TapModify, Answerable, Decided, Open
  <2>2. Ages(rows, rs) /\ rs[i].status = "awaiting"
    BY <1>2, <2>1, StatusAges
  <2>3. Settled("park", i, rs)
    BY <2>2 DEF Settled
  <2> QED
    BY <1>5, <2>1, <2>2, <2>3
<1>9. ASSUME TapSnooze(u, m) PROVE HonestInv'
  <2>1. rs = rows /\ Pressed(u, i, "refresh")
    BY <1>1, <1>4, <1>9 DEF TapSnooze
  <2>2. Settled("refresh", i, rs)
    BY DEF Settled
  <2> QED
    BY <1>5, <2>1, <2>2, SameAge
<1> QED
  BY <1>6, <1>7, <1>8, <1>9

\* An answered press parks its user on a row that is no longer pending.
LEMMA PressAnsweredHonest ==
    ASSUME NotesInv, HonestInv, NEW u \in Allowed, PressAnswered(u)
    PROVE  HonestInv'
<1>1. PICK j : j = job[u]
  OBVIOUS
<1>2. u \in Workers /\ UNCHANGED <<rows, messages>> /\ j.step = "answer"
  BY <1>1 DEF Workers, PressAnswered
<1>3. Settled(j.goal, j.row, rows)
  BY <1>1, <1>2 DEF HonestInv, JobsHonest, JobHonest
<1>4. JobsHonest(job', rows)
  <2>1. PICK todo : todo = {j.row}
    OBVIOUS
  <2>2. Proceed(u, j.goal, todo, known)
    BY <1>1, <2>1 DEF PressAnswered
  <2>3. \A i \in todo : Settled(j.goal, i, rows)
    BY <1>3, <2>1
  <2> QED
    BY <1>2, <2>2, <2>3, ProceedHonest, JobsAreListed DEF HonestInv
<1>5. ParkedHonest(parked', rows)
  <2>1. \/ parked' = parked
        \/ j.goal = "park" /\ parked' = [parked EXCEPT ![u] = j.row]
    BY <1>1 DEF PressAnswered
  <2>2. parked \in [Allowed -> 0 .. Len(rows)]
    BY DEF NotesInv, ParkedOK
  <2> QED
    BY <1>3, <2>1, <2>2 DEF HonestInv, ParkedHonest, Settled
<1> QED
  BY <1>2, <1>4, <1>5 DEF HonestInv

\* Buttons are removed for a row that is decided, late or parked.
LEMMA StripHonest ==
    ASSUME NotesInv, HonestInv, NEW w \in Workers, Strip(w)
    PROVE  HonestInv'
<1>1. PICK j : j = job[w]
  OBVIOUS
<1>2. UNCHANGED <<rows, parked>> /\ j.step = "strip" /\ job' = [job EXCEPT ![w].step = "write"]
  BY <1>1 DEF Strip
<1>3. HandlerOK(j, rows, messages) /\ JobHonest(j, rows)
  BY <1>1 DEF NotesInv, JobsOK, HonestInv, JobsHonest
<1>4. PICK m \in DOMAIN messages : m = j.msg /\ messages[m].row = j.row
  BY <1>2, <1>3 DEF HandlerOK
<1>5. rows[j.row].status # "pending" \/ rows[j.row].late
  <2>1. j.goal \in Goals /\ j.goal # "refresh" /\ Settled(j.goal, j.row, rows)
    BY <1>2, <1>3 DEF HandlerOK, Handler, JobHonest
  <2> QED
    BY <2>1 DEF Goals, Settled, Open, Undecided
<1>6. PICK state : messages' = [messages EXCEPT ![m].buttons = state]
  BY <1>1, <1>4 DEF Strip
<1>7. MessagesHonest(messages', rows)
  <2>1. messages[m] \in Message
    BY DEF NotesInv, TablesOK
  <2>2. messages'[m].row = j.row /\ messages'[m].text = messages[m].text
    BY <1>4, <1>6, <2>1 DEF Message
  <2>3. \A n \in DOMAIN messages : n # m => messages'[n] = messages[n]
    BY <1>6
  <2>4. DOMAIN messages' = DOMAIN messages
    BY <1>6
  <2> QED
    BY <1>4, <1>5, <2>2, <2>3, <2>4 DEF HonestInv, MessagesHonest
<1>8. JobsHonest(job', rows)
  <2>1. PICK k : k = [j EXCEPT !.step = "write"]
    OBVIOUS
  <2>2. j \in Handler
    BY <1>3 DEF HandlerOK
  <2>3. JobHonest(k, rows)
    BY <1>2, <1>3, <2>1, <2>2 DEF JobHonest, Handler
  <2>4. job' = [job EXCEPT ![w] = k]
    BY <1>1, <1>2, <2>1
  <2> QED
    BY <2>3, <2>4, OneJobHonest, JobsAreListed DEF HonestInv
<1> QED
  BY <1>2, <1>7, <1>8 DEF HonestInv

\* A message reads closed on behalf of a row nobody can answer.
LEMMA WriteHonest ==
    ASSUME NotesInv, HonestInv, NEW w \in Workers, Write(w)
    PROVE  HonestInv'
<1>1. PICK j : j = job[w]
  OBVIOUS
<1>2. UNCHANGED <<rows, parked>> /\ j.step = "write"
  BY <1>1 DEF Write
<1>3. HandlerOK(j, rows, messages) /\ JobHonest(j, rows)
  BY <1>1 DEF NotesInv, JobsOK, HonestInv, JobsHonest
<1>4. PICK m \in DOMAIN messages : m = j.msg /\ messages[m].row = j.row
  BY <1>2, <1>3 DEF HandlerOK
<1>5. \A i \in {j.row} \cup j.more : Settled(j.goal, i, rows)
  BY <1>2, <1>3 DEF JobHonest
<1>6. PICK text \in {messages[m].text, j.goal} : messages' = [messages EXCEPT ![m].text = text]
  BY <1>1, <1>4 DEF Write
<1>7. MessagesHonest(messages', rows)
  <2>1. messages[m] \in Message
    BY DEF NotesInv, TablesOK
  <2>2. /\ messages'[m].row = j.row /\ messages'[m].buttons = messages[m].buttons
        /\ messages'[m].text = text
    BY <1>4, <1>6, <2>1 DEF Message
  <2>3. j.goal = "finalise" => ~Open(rows, j.row)
    BY <1>5 DEF Settled
  <2>4. text = "finalise" => ~Open(rows, j.row)
    BY <1>4, <1>6, <2>3 DEF HonestInv, MessagesHonest
  <2>5. \A n \in DOMAIN messages : n # m => messages'[n] = messages[n]
    BY <1>6
  <2>6. DOMAIN messages' = DOMAIN messages
    BY <1>6
  <2> QED
    BY <1>4, <2>2, <2>4, <2>5, <2>6 DEF HonestInv, MessagesHonest
<1>8. JobsHonest(job', rows)
  <2>1. PICK deliveries : deliveries = known'
    OBVIOUS
  <2>2. Proceed(w, j.goal, j.more, deliveries)
    BY <1>1, <2>1 DEF Write
  <2> QED
    BY <1>5, <2>2, ProceedHonest, JobsAreListed DEF HonestInv
<1> QED
  BY <1>2, <1>7, <1>8 DEF HonestInv

\* A size decides the row its user is parked on, or finds it decided.
LEMMA SubmitSizeHonest ==
    ASSUME NotesInv, HonestInv, NEW u \in Allowed, SubmitSize(u)
    PROVE  HonestInv'
<1>1. PICK i : i = parked[u]
  OBVIOUS
<1>2. i # Nothing /\ parked' = [parked EXCEPT ![u] = Nothing] /\ messages' = messages
  BY <1>1 DEF SubmitSize
<1>3. i \in DOMAIN rows /\ rows \in Seq(Row) /\ u \in Workers
  <2>1. parked[u] \in 0 .. Len(rows) /\ rows \in Seq(Row)
    BY DEF NotesInv, ParkedOK, TablesOK
  <2> QED
    BY <1>1, <1>2, <2>1 DEF Nothing, Workers
<1>4. rows[i].status # "pending" /\ rows[i].status \in Status
  <2>1. rows[i] \in Row
    BY <1>3
  <2> QED
    BY <1>1, <1>2, <2>1 DEF HonestInv, ParkedHonest, Row
<1>5. PICK rs : rs = rows'
  OBVIOUS
<1>6. Ages(rows, rs) /\ ~Open(rs, i)
  <2>1. CASE rows[i].status # "awaiting"
    <3>1. rs = rows
      BY <1>1, <1>5, <2>1 DEF SubmitSize
    <3> QED
      BY <1>4, <2>1, <3>1, SameAge DEF Open, Undecided
  <2>2. CASE rows[i].status = "awaiting"
    <3>1. PICK status \in {"expired", "approved"} : rs = [rows EXCEPT ![i].status = status]
      BY <1>1, <1>5, <2>2 DEF SubmitSize
    <3>2. Ages(rows, rs) /\ rs[i].status = status
      BY <1>3, <3>1, StatusAges
    <3> QED
      BY <3>2 DEF Open, Undecided
  <2> QED
    BY <2>1, <2>2
<1>7. MessagesHonest(messages, rs) /\ JobsHonest(job, rs) /\ ParkedHonest(parked, rs)
  BY <1>6, AgingKeeps
<1>8. JobsHonest(job', rs)
  <2>1. PICK todo : todo = {i}
    OBVIOUS
  <2>2. Proceed(u, "finalise", todo, known)
    BY <1>1, <2>1 DEF SubmitSize
  <2>3. \A r \in todo : Settled("finalise", r, rs)
    BY <1>6, <2>1 DEF Settled
  <2> QED
    BY <1>3, <1>7, <2>2, <2>3, ProceedHonest, JobsAreListed
<1>9. ParkedHonest(parked', rs)
  <2>1. parked \in [Allowed -> 0 .. Len(rows)]
    BY DEF NotesInv, ParkedOK
  <2> QED
    BY <1>2, <1>7, <2>1 DEF ParkedHonest
<1> QED
  BY <1>2, <1>5, <1>7, <1>8, <1>9 DEF HonestInv

\* The sweep closes the messages of the rows it has just expired, all of them.
LEMMA SweepHonest == ASSUME NotesInv, HonestInv, Sweep PROVE HonestInv'
<1>1. PICK todo : todo = Expirable
  OBVIOUS
<1>2. PICK rs : rs = rows'
  OBVIOUS
<1>3. rs = [i \in DOMAIN rows |-> IF i \in todo THEN [rows[i] EXCEPT !.status = "expired"]
                                  ELSE rows[i]]
  BY <1>1, <1>2 DEF Sweep
<1>4. \A i \in DOMAIN rows : rows[i] \in Row
  BY DEF NotesInv, TablesOK
<1>5. todo \subseteq DOMAIN rows
  BY <1>1 DEF Expirable
<1>6. \A i \in DOMAIN rows :
         IF i \in todo THEN rs[i].status = "expired" /\ rs[i].late = rows[i].late
         ELSE rs[i] = rows[i]
  BY <1>3, <1>4 DEF Row
<1>7. Ages(rows, rs)
  BY <1>6 DEF Ages, Open, Undecided
<1>8. \A i \in todo : Settled("finalise", i, rs)
  BY <1>5, <1>6 DEF Settled, Open, Undecided
<1>9. MessagesHonest(messages, rs) /\ JobsHonest(job, rs) /\ ParkedHonest(parked, rs)
  BY <1>7, AgingKeeps
<1>10. JobsHonest(job', rs)
  <2>1. Proceed(Sweeper, "finalise", todo, known) /\ Sweeper \in Workers
    BY <1>1 DEF Sweep, Workers
  <2> QED
    BY <1>8, <1>9, <2>1, ProceedHonest, JobsAreListed
<1> QED
  BY <1>2, <1>9, <1>10 DEF HonestInv, Sweep

\* A new process remembers nothing, and what the chat shows is still so.
LEMMA RestartHonest == ASSUME NotesInv, HonestInv, Restart PROVE HonestInv'
<1>1. rows' = rows
  BY DEF Restart
<1>2. MessagesHonest(messages', rows')
  <2>1. \A m \in DOMAIN messages : messages[m] \in Message
    BY DEF NotesInv, TablesOK
  <2>2. messages' = [m \in DOMAIN messages |-> IF messages[m].place = "queued"
                                               THEN [messages[m] EXCEPT !.place = "lost"]
                                               ELSE messages[m]]
    BY DEF Restart
  <2>3. /\ DOMAIN messages' = DOMAIN messages
        /\ \A m \in DOMAIN messages :
              /\ messages'[m].row = messages[m].row
              /\ messages'[m].buttons = messages[m].buttons
              /\ messages'[m].text = messages[m].text
    BY <2>1, <2>2 DEF Message
  <2> QED
    BY <1>1, <2>3, PlacesHonest
<1>3. JobsHonest(job', rows')
  BY DEF Restart, JobsHonest, JobHonest, Idle
<1>4. ParkedHonest(parked', rows')
  BY DEF Restart, ParkedHonest
<1> QED
  BY <1>2, <1>3, <1>4 DEF HonestInv

\* Every step keeps the chat honest.
LEMMA StepHonest == ASSUME NotesInv, HonestInv, [Next]_vars PROVE HonestInv'
<1>1. ASSUME NEW m \in DOMAIN messages, Deliver(m) \/ Undelivered(m) PROVE HonestInv'
  BY <1>1, QueueHonest
<1>2. ASSUME NEW i \in DOMAIN rows, DeadlinePasses(i) PROVE HonestInv'
  BY <1>2, DeadlineHonest
<1>3. ASSUME NEW u \in Allowed, NEW m \in DOMAIN messages,
             \/ TapSpent(u, m)
             \/ \E decision \in {"approved", "rejected"} : TapDecision(u, m, decision)
             \/ TapModify(u, m)
             \/ TapSnooze(u, m)
      PROVE  HonestInv'
  BY <1>3, TapHonest
<1>4. ASSUME NEW w \in Workers, HandlerStep(w) PROVE HonestInv'
  BY <1>4, StripHonest, WriteHonest, PressAnsweredHonest DEF HandlerStep
<1>5. ASSUME NEW u \in Allowed, SubmitSize(u) PROVE HonestInv'
  BY <1>5, SubmitSizeHonest
<1>6. ASSUME UNCHANGED <<rows, messages, parked, job>> PROVE HonestInv'
  BY <1>6 DEF HonestInv
<1>7. ASSUME NEW s \in Strangers, Ignore(s) PROVE HonestInv'
  BY <1>6, <1>7 DEF Ignore
<1>8. CASE UNCHANGED vars
  BY <1>6, <1>8 DEF vars
<1> QED
  BY <1>1, <1>2, <1>3, <1>4, <1>5, <1>7, <1>8, AskHonest, SweepHonest, RestartHonest DEF Next

\* Whichever handlers, sweeps, deliveries and restarts race: buttons go, or are
\* tried to be removed, only when the request is no longer pending or is late,
\* and a message reads closed only when nobody can answer its request any more.
THEOREM TheChatIsHonest == Spec => []ChatIsHonest
<1>1. Init => NotesInv /\ HonestInv
  BY InitNotes, InitHonest
<1>2. NotesInv /\ HonestInv /\ [Next]_vars => (NotesInv /\ HonestInv)'
  BY StepNotes, StepHonest
<1>3. HonestInv => ChatIsHonest
  BY DEF HonestInv, MessagesHonest, ChatIsHonest, Answerable, Decided, Open
<1> QED
  BY <1>1, <1>2, <1>3, PTL DEF Spec
=============================================================================
