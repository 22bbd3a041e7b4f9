------------------------------ MODULE Controls ------------------------------
(***************************************************************************)
(* What people tell the program to do: the confirmed commands of Telegram  *)
(* (telegram/controls.py, routed by telegram/bot.py) and the symbol rules  *)
(* of the dashboard (ui/controls.py over services/settings_service.py).    *)
(* What a command does to the engine is module Engine's; here an executed  *)
(* command is remembered with the question it answers.                     *)
(*                                                                         *)
(* A command's question is a message with buttons that stay in the chat.   *)
(* Its buttons carry the action only; what the action affects is kept in   *)
(* the one pending confirmation of the user.  The dashboard's sessions are *)
(* threads: between the read and the write of the rules of one of them the *)
(* others may write.                                                       *)
(*                                                                         *)
(* ControlsInit, ControlsNext and the like have names of their own because *)
(* Telegram_proofs extends this module together with Notifier.             *)
(***************************************************************************)
EXTENDS Naturals, Sequences

CONSTANTS
    Users,         \* the authorised users of the bot
    Sessions,      \* open dashboards
    Symbols,
    Timeout,       \* CONFIRMATION_TIMEOUT_SECONDS, in ticks
    MaxQuestions,  \* bound of the model: commands sent
    MaxTicks,      \* bound of the model: ticks of the clock
    MaxEdits       \* bound of the model: rules chosen

ASSUME ControlsAssumption ==
    /\ Timeout \in Nat
    /\ MaxQuestions \in Nat
    /\ MaxTicks \in Nat
    /\ MaxEdits \in Nat

VARIABLES
    now,
    chat,       \* the questions asked: [user, action, close, at]
    pending,    \* _pending: the question each user may still answer, or NoQuestion
    done,       \* history: the questions whose action was executed, in order
    rules,      \* "symbol_rules" in settings_overrides
    drafts,     \* the rules a session has read and is about to write, or Unread
    meanwhile,  \* history: symbols other sessions ruled on since that read
    edits

controlsVars == <<now, chat, pending, done, rules, drafts, meanwhile, edits>>

Actions == {"pause", "resume", "kill"}
NoQuestion == 0

\* A symbol nobody ruled on needs approval; SymbolRule is the enumeration.
SymbolRule == {"allowed", "forbidden", "needs_approval"}
Unread == [symbol |-> NoQuestion]

ControlsInit ==
    /\ now = 0
    /\ chat = <<>>
    /\ pending = [u \in Users |-> NoQuestion]
    /\ done = <<>>
    /\ rules = [s \in Symbols |-> "needs_approval"]
    /\ drafts = [d \in Sessions |-> Unread]
    /\ meanwhile = [d \in Sessions |-> {}]
    /\ edits = 0

Tick ==
    /\ now < MaxTicks
    /\ now' = now + 1
    /\ UNCHANGED <<chat, pending, done, rules, drafts, meanwhile, edits>>
-----------------------------------------------------------------------------
(* Telegram.                                                               *)

Expired(i) == now - chat[i].at > Timeout

\* ControlCommands._request and _kill_prompt: "/kill all" closes positions too.
\* The newest question replaces the pending one.
Command(u, action, close) ==
    /\ Len(chat) < MaxQuestions
    /\ close => action = "kill"
    /\ chat' = Append(chat, [user |-> u, action |-> action, close |-> close, at |-> now])
    /\ pending' = [pending EXCEPT ![u] = Len(chat) + 1]
    /\ UNCHANGED <<now, done, rules, drafts, meanwhile, edits>>

\* handle_callback finds the pending confirmation by user and action alone.
Answers(u, i) ==
    /\ chat[i].user = u
    /\ pending[u] # NoQuestion
    /\ chat[pending[u]].action = chat[i].action

Consume(u) == pending' = [pending EXCEPT ![u] = NoQuestion]

\* BUG: the confirmation stays pending after it is executed.
ConfirmMutant(u, i) ==
    /\ Answers(u, i)
    /\ ~Expired(pending[u])
    /\ Len(done) < MaxQuestions
    /\ done' = Append(done, pending[u])
    /\ UNCHANGED <<now, chat, pending, rules, drafts, meanwhile, edits>>

\* The confirm button of message i, whichever message that is.
Confirm(u, i) ==
    /\ Answers(u, i)
    /\ ~Expired(pending[u])
    /\ done' = Append(done, pending[u])
    /\ Consume(u)
    /\ UNCHANGED <<now, chat, rules, drafts, meanwhile, edits>>

\* The cancel button, or either button when it is too late.
Decline(u, i) ==
    /\ Answers(u, i)
    /\ Consume(u)
    /\ UNCHANGED <<now, chat, done, rules, drafts, meanwhile, edits>>

\* The confirmations live in memory, the chat does not.
RestartBot ==
    /\ \E u \in Users : pending[u] # NoQuestion
    /\ pending' = [u \in Users |-> NoQuestion]
    /\ UNCHANGED <<now, chat, done, rules, drafts, meanwhile, edits>>
-----------------------------------------------------------------------------
(* The dashboard.                                                          *)

\* set_symbol_rule reads the whole table of rules and changes one of them ...
ReadRules(d, s, rule) ==
    /\ edits < MaxEdits
    /\ drafts[d] = Unread
    /\ rule # rules[s]
    /\ drafts' = [drafts EXCEPT ![d] = [symbol |-> s, rules |-> [rules EXCEPT ![s] = rule]]]
    /\ meanwhile' = [meanwhile EXCEPT ![d] = {}]
    /\ edits' = edits + 1
    /\ UNCHANGED <<now, chat, pending, done, rules>>

Noted(d) ==
    [e \in Sessions |-> IF e = d THEN {}
                        ELSE IF drafts[e] = Unread THEN {}
                        ELSE meanwhile[e] \cup {s \in Symbols : rules'[s] # rules[s]}]

\* BUG: the rule replaces the table instead of joining it.
WriteRulesMutant(d) ==
    /\ drafts[d] # Unread
    /\ LET s == drafts[d].symbol IN
       rules' = [t \in Symbols |-> IF t = s THEN drafts[d].rules[s] ELSE "needs_approval"]
    /\ meanwhile' = Noted(d)
    /\ drafts' = [drafts EXCEPT ![d] = Unread]
    /\ UNCHANGED <<now, chat, pending, done, edits>>

\* ... and SettingsService.set writes the whole table.
WriteRules(d) ==
    /\ drafts[d] # Unread
    /\ rules' = drafts[d].rules
    /\ meanwhile' = Noted(d)
    /\ drafts' = [drafts EXCEPT ![d] = Unread]
    /\ UNCHANGED <<now, chat, pending, done, edits>>

Telegram ==
    \/ \E u \in Users, action \in Actions, close \in BOOLEAN : Command(u, action, close)
    \/ \E u \in Users, i \in DOMAIN chat : Confirm(u, i) \/ Decline(u, i)
    \/ RestartBot
Dashboard ==
    \/ \E d \in Sessions, s \in Symbols, rule \in SymbolRule : ReadRules(d, s, rule)
    \/ \E d \in Sessions : WriteRules(d)
ControlsNext == Tick \/ Telegram \/ Dashboard

ControlsSpec == ControlsInit /\ [][ControlsNext]_controlsVars
-----------------------------------------------------------------------------
(* Properties.                                                             *)

\* Every variable stays within its range.
ControlsTypeOK ==
    /\ now \in 0 .. MaxTicks
    /\ chat \in Seq([user : Users, action : Actions, close : BOOLEAN, at : 0 .. MaxTicks])
    /\ pending \in [Users -> 0 .. Len(chat)]
    /\ done \in Seq(1 .. Len(chat))
    /\ rules \in [Symbols -> SymbolRule]
    /\ meanwhile \in [Sessions -> SUBSET Symbols]
    /\ edits \in 0 .. MaxEdits

Newest(u, i) == \A j \in DOMAIN chat : chat[j].user = u => j <= i

\* A destructive command is executed once, for the newest question its user was
\* asked and no later than the timeout after it; whichever message was tapped,
\* what runs is what the newest one described.
ExecutesTheNewestQuestionOnce ==
    [][\A n \in DOMAIN done' \ DOMAIN done :
          LET i == done'[n] IN
          /\ \A m \in DOMAIN done : done[m] # i
          /\ Newest(chat[i].user, i)
          /\ now - chat[i].at <= Timeout]_controlsVars

\* A session that rules on one symbol undoes another symbol's rule only when
\* somebody ruled on that one between its read and its write.
OnlyConcurrentRulesAreLost ==
    [][\A d \in Sessions :
          drafts[d] # Unread /\ drafts'[d] = Unread =>
          \A s \in Symbols \ {drafts[d].symbol} :
             rules'[s] # rules[s] => s \in meanwhile[d]]_controlsVars
=============================================================================
