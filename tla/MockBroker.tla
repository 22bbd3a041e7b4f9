----------------------------- MODULE MockBroker -----------------------------
(***************************************************************************)
(* execution/mock_broker.py: the in-memory cash account that stands in for *)
(* a broker when there are no credentials.  Orders are filled or rejected  *)
(* at once; matured proceeds are moved into settled cash lazily, by        *)
(* settle_due, whenever the account is read or an order is submitted.      *)
(* Nothing outlives the process.  No code under src/ sets a price, so      *)
(* every order is filled one slippage away from DEFAULT_PRICE and a        *)
(* position is marked at its last fill.                                    *)
(*                                                                         *)
(* The broker's own table of seen keys is left out: OrderManager records a *)
(* key before it submits, and never submits one twice (see Orders).        *)
(***************************************************************************)
EXTENDS Calendar, Integers, Functions

CONSTANTS Symbols, StartingCash, SettlementDays,
          BuyFill, SellFill   \* _fill_price of a buy and of a sell, in cents

VARIABLES
  settled,     \* _settled
  pending,     \* _pending: records [nr, symbol, amount, settlesOn]
  positions,   \* _positions: symbol -> [quantity, mark, opened]
  today        \* the clock

Total(entries) == SumFunction([e \in entries |-> e.amount])
NoPosition == [s \in {} |-> 0]

(* settle_due *)
Matured == {e \in pending : e.settlesOn <= today}
SettledNow == settled + Total(Matured)

\* BUG: what has been credited stays pending and is credited again.
PendingNowMutant == pending

PendingNow == pending \ Matured

\* Settling is the first thing a read of the account and an order do.
SettleDue ==
  /\ settled' = SettledNow
  /\ pending' = PendingNow

(* get_account *)
PositionsValue ==
  SumFunction([s \in DOMAIN positions |-> positions[s].quantity * positions[s].mark])
Equity == SettledNow + Total(PendingNow) + PositionsValue
Available == IF SettledNow > 0 THEN SettledNow ELSE 0

HeldQuantity(s) == IF s \in DOMAIN positions THEN positions[s].quantity ELSE 0

OpenAccount ==
  /\ settled' = StartingCash
  /\ pending' = {}
  /\ positions' = NoPosition

ReadAccount ==
  /\ SettleDue
  /\ UNCHANGED positions

\* _validate refuses a buy that settled cash cannot pay.
Affordable(quantity) == quantity * BuyFill <= Available

\* _apply_buy; a second buy of a symbol keeps the day the position was opened.
ApplyBuy(s, quantity) ==
  /\ settled' = SettledNow - quantity * BuyFill
  /\ pending' = PendingNow
  /\ positions' =
       [t \in DOMAIN positions \cup {s} |->
          IF t = s
          THEN [quantity |-> HeldQuantity(s) + quantity, mark |-> BuyFill,
                opened |-> IF s \in DOMAIN positions THEN positions[s].opened ELSE today]
          ELSE positions[t]]

BuyOrder(s, quantity) ==
  IF Affordable(quantity) THEN ApplyBuy(s, quantity) ELSE ReadAccount

\* _pending is a list, to which an entry may be appended that equals another:
\* here each has a number that no other one has.
NextNr ==
  LET taken == {e.nr : e \in PendingNow}
  IN IF taken = {} THEN 1 ELSE 1 + Latest(taken)

\* _apply_sell: the proceeds are pending until the settlement date.  Selling
\* more than is held is refused here and, before that, by OrderManager.
SellOrder(s, quantity) ==
  /\ quantity <= HeldQuantity(s)
  /\ settled' = SettledNow
  /\ pending' = PendingNow \cup
       {[nr |-> NextNr, symbol |-> s, amount |-> quantity * SellFill,
         settlesOn |-> SettlementDate(today, SettlementDays)]}
  /\ positions' = IF quantity = HeldQuantity(s)
                  THEN [t \in DOMAIN positions \ {s} |-> positions[t]]
                  ELSE [positions EXCEPT ![s].quantity = @ - quantity,
                                         ![s].mark = SellFill]

\* The account this broker implements: what is matured counts as cash already.
Account == INSTANCE CashAccount WITH
  cash <- SettledNow,
  due <- {[nr |-> e.nr, symbol |-> e.symbol, amount |-> e.amount, on |-> e.settlesOn] :
            e \in PendingNow},
  lots <- [s \in Symbols |-> HeldQuantity(s)],
  BuyPrice <- BuyFill,
  SellPrice <- SellFill
=============================================================================
