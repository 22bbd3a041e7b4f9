------------------------------- MODULE Costs --------------------------------
(***************************************************************************)
(* backtest/costs.py: what one side of a trade costs and at what price it  *)
(* is filled.  Money is in whole cents; the code computes in floating      *)
(* point, so a rate is rounded down here.  Spread and slippage are in the  *)
(* fill price and in the itemised cost, as in the code.                    *)
(***************************************************************************)
EXTENDS Naturals

CONSTANTS CommissionMin,   \* cents an execution costs at least
          CommissionPerShare,
          SpreadBps, SlippageBps,
          SecFeeBps, TafPerShare   \* charged on sales only

\* CostModelConfig accepts no negative rate; one that eats up the whole price
\* is no price.
ASSUME CostAssumption ==
  /\ CommissionMin \in Nat /\ CommissionPerShare \in Nat
  /\ SpreadBps \in Nat /\ SlippageBps \in Nat
  /\ SecFeeBps \in Nat /\ TafPerShare \in Nat
  /\ SpreadBps + 2 * SlippageBps <= 20000

Bps(amount, rate) == (amount * rate) \div 10000
Larger(a, b) == IF a >= b THEN a ELSE b

Commission(quantity) ==
  Larger(CommissionPerShare * quantity, IF quantity > 0 THEN CommissionMin ELSE 0)

Regulatory(price, quantity) ==
  Bps(price * quantity, SecFeeBps) + TafPerShare * quantity

Cost(price, quantity, side) ==
  Commission(quantity) + Bps(price * quantity, SpreadBps)
    + Bps(price * quantity, SlippageBps)
    + (IF side = "sell" THEN Regulatory(price, quantity) ELSE 0)

\* Half the spread and the slippage, against us.
Drift(price) == (price * (SpreadBps + 2 * SlippageBps)) \div 20000

FillPrice(price, side) ==
  IF side = "buy" THEN price + Drift(price) ELSE price - Drift(price)
=============================================================================
