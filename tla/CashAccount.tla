----------------------------- MODULE CashAccount -----------------------------
(***************************************************************************)
(* What a cash account promises, without saying how it is kept: a purchase *)
(* is paid in full from settled cash, every sale earns the price of what   *)
(* was sold, its proceeds become cash on their settlement date, at the     *)
(* start of that day and once, and no more is sold than is held.  Each     *)
(* sale has an entry of its own: two equal sales of a day earn twice.      *)
(* MockBroker settles only when it is asked something and is shown to      *)
(* implement this account.                                                 *)
(***************************************************************************)
EXTENDS Calendar, Integers, Functions

CONSTANTS Symbols, StartingCash, SettlementDays,
          BuyPrice, SellPrice   \* of one share

VARIABLES cash,    \* what may be spent today
          due,     \* proceeds not yet settled: records [nr, symbol, amount, on]
          lots,    \* shares held of each symbol
          today

accountVars == <<cash, due, lots, today>>

Amounts(entries) == SumFunction([e \in entries |-> e.amount])

AccountInit ==
  /\ cash = StartingCash
  /\ due = {}
  /\ lots = [s \in Symbols |-> 0]
  /\ today \in Covered

\* A new account is opened; the old one is forgotten.
Reopen ==
  /\ cash' = StartingCash
  /\ due' = {}
  /\ lots' = [s \in Symbols |-> 0]
  /\ UNCHANGED today

\* A purchase costs no more than the cash there is.
Buy(s) ==
  /\ lots'[s] > lots[s]
  /\ lots' = [lots EXCEPT ![s] = lots'[s]]
  /\ (lots'[s] - lots[s]) * BuyPrice <= cash
  /\ cash' = cash - (lots'[s] - lots[s]) * BuyPrice
  /\ UNCHANGED <<due, today>>

\* A sale earns nothing before its settlement date, which is the day itself
\* only for an account that settles at once (settlement_days = 0).
Sell(s) ==
  /\ lots'[s] \in 0 .. lots[s] - 1
  /\ lots' = [lots EXCEPT ![s] = lots'[s]]
  /\ LET proceeds == (lots[s] - lots'[s]) * SellPrice
         date == SettlementDate(today, SettlementDays)
     IN IF date > today
        THEN /\ \E entry \in due' :
                  /\ \A other \in due : other.nr # entry.nr
                  /\ entry.symbol = s /\ entry.amount = proceeds /\ entry.on = date
                  /\ due' = due \cup {entry}
             /\ UNCHANGED cash
        ELSE /\ cash' = cash + proceeds
             /\ UNCHANGED due
  /\ UNCHANGED today

DayPasses ==
  /\ today' = today + 1
  /\ LET settled == {e \in due : e.on <= today'}
     IN /\ cash' = cash + Amounts(settled)
        /\ due' = due \ settled
  /\ UNCHANGED lots

AccountNext ==
  \/ Reopen
  \/ \E s \in Symbols : Buy(s) \/ Sell(s)
  \/ DayPasses

AccountSpec == AccountInit /\ [][AccountNext]_accountVars
=============================================================================
