---------------------------- MODULE Trading_proofs ----------------------------
(***************************************************************************)
(* Proofs about Trading.tla for any finite set of symbols and any limits.  *)
(*                                                                         *)
(* TypeOK is not inductive: that a purchase never makes cash negative      *)
(* rests on the broker's check when the order was taken, which has to hold *)
(* until the order executes (Covered).  EntriesPerDay needs the step       *)
(* between the broker's acceptance and the trade row (Counted), and        *)
(* MinimumHold that the row an exit rule looks at is never older than the  *)
(* position it stands for, unless the position is old enough (Honest).     *)
(***************************************************************************)
EXTENDS Trading, FiniteSetTheorems, TLAPS

Buys == {o \in working : o[1] = "buy"}
Opened == {k \in used : k[1] = "open"}
InHand == IF pc = "opened" THEN 1 ELSE 0

\* The cash of the account covers its working purchases.
Covered == Cardinality(Buys) <= settled + unsettled

\* Entries of the day are counted in rows, but for one in hand or lost.
Counted ==
    /\ Cardinality(Opened) <= today + InHand + faults
    /\ today + InHand <= MaxPerDay

\* Without faults the age of the newest open row tells whether the position
\* has been held long enough, except for an entry that has no row yet.
Honest ==
    faults = 0 =>
        /\ \A s \in Symbols :
             /\ Watched(s)
             /\ ~(pc = "opened" /\ work = s)
             => age[s] >= MinHold \/ age[s] >= HeldFor(s)
        /\ pc = "sold" => age[work] >= MinHold

IInv == TypeOK /\ Covered /\ Counted /\ Honest
-----------------------------------------------------------------------------
\* What the sequences of open rows are built with.
LEMMA AppendedRow ==
    ASSUME NEW S, NEW q \in Seq(S), NEW e \in S
    PROVE  /\ Append(q, e) \in Seq(S) /\ Append(q, e) # <<>>
           /\ Last(Append(q, e)) = e
BY DEF Last

\* A sequence without its last entry.
LEMMA RowsLeft == ASSUME NEW S, NEW q \in Seq(S) PROVE Front(q) \in Seq(S)
BY DEF Front

\* The orders at the broker and the keys of the day are finitely many.
LEMMA FiniteRecords ==
    ASSUME TypeOK
    PROVE  IsFiniteSet(working) /\ IsFiniteSet(used)
<1>1. IsFiniteSet(Kinds) /\ IsFiniteSet(Intents)
  <2>1. /\ Kinds = {"buy"} \cup {"sell"} \cup {"leg"}
        /\ Intents = {"open"} \cup {"refused"} \cup {"compliance"} \cup {"stop"} \cup {"max"}
    BY DEF Kinds, Intents
  <2>2. /\ IsFiniteSet({"buy"} \cup {"sell"})
        /\ IsFiniteSet({"open"} \cup {"refused"})
    BY FS_Singleton, FS_AddElement
  <2>3. IsFiniteSet({"open"} \cup {"refused"} \cup {"compliance"})
    BY <2>2, FS_AddElement
  <2>4. IsFiniteSet({"open"} \cup {"refused"} \cup {"compliance"} \cup {"stop"})
    BY <2>3, FS_AddElement
  <2>5. IsFiniteSet(Kinds)
    BY <2>1, <2>2, FS_AddElement
  <2>6. IsFiniteSet(Intents)
    BY <2>1, <2>4, FS_AddElement
  <2> QED
    BY <2>5, <2>6
<1>2. IsFiniteSet(Kinds \X Symbols) /\ IsFiniteSet(Intents \X Symbols)
  BY <1>1, FS_Product, TradingAssumption DEF TradingAssumption
<1> QED
  BY <1>2, FS_Subset DEF TypeOK

\* The initial states satisfy the inductive invariant.
LEMMA InitIInv == Init => IInv
<1> SUFFICES ASSUME Init PROVE IInv
  OBVIOUS
<1> USE TradingAssumption DEF TradingAssumption
<1>1. TypeOK
  <2>1. <<>> \in Seq(0 .. MaxHold)
    OBVIOUS
  <2>2. trades \in [Symbols -> Seq(0 .. MaxHold)]
    BY <2>1 DEF Init
  <2>3. age \in [Symbols -> 0 .. MinHold] /\ seen \in [positions : SUBSET Symbols, cash : Nat]
    BY DEF Init
  <2>4. held \subseteq Symbols /\ working \subseteq Kinds \X Symbols /\ used \subseteq Intents \X Symbols
    BY DEF Init
  <2>5. /\ market = "closed" /\ pc = "idle"
        /\ settled = Capital /\ unsettled = 0 /\ booked = 0 /\ today = 0
        /\ banned = {} /\ todo = {} /\ work \in Symbols
        /\ extra = 0 /\ faults = 0
    BY DEF Init
  <2>6. ran \in BOOLEAN
    BY DEF Init
  <2>7. extra \in 0 .. MaxExtra /\ faults \in 0 .. MaxFaults
    BY DEF Init
  <2> QED
    BY <2>2, <2>3, <2>4, <2>5, <2>6, <2>7 DEF TypeOK
<1>2. Buys = {} /\ Opened = {}
  BY DEF Init, Buys, Opened
<1>3. Covered /\ Counted
  BY <1>2, FS_EmptySet DEF Init, Covered, Counted, InHand
<1>4. Honest
  BY DEF Init, Honest, Watched
<1> QED
  BY <1>1, <1>3, <1>4 DEF IInv

-----------------------------------------------------------------------------
\* A step of a cycle keeps the types.
LEMMA CycleType ==
    ASSUME IInv,
           \/ Scheduled \/ ByHand \/ EndComply \/ EndExits \/ EndCycle
           \/ \E s \in Symbols : ForcedExit(s) \/ NoForcedExit(s) \/ NoRuleExit(s) \/ NoEntry(s)
           \/ \E s \in Symbols, rule \in {"stop", "max"} : RuleExit(s, rule)
           \/ CloseTrade \/ BookSale \/ OpenTrade
           \/ \E s \in Symbols : Enter(s) \/ EntryRefused(s)
           \/ Crash \/ StepFails \/ Missed
    PROVE  TypeOK'
<1> USE TradingAssumption DEF TradingAssumption, IInv, TypeOK, account, records, outside, cycle
<1>1. CASE Scheduled \/ ByHand
  <2>1. PICK gone \in SUBSET working : working' = working \ gone
    BY <1>1 DEF Scheduled, ByHand, Begin
  <2>2. working' \subseteq Kinds \X Symbols
    BY <2>1
  <2>3. CASE Scheduled
    BY <2>2, <2>3 DEF Scheduled, Begin
  <2>4. CASE ByHand
    BY <2>2, <2>4 DEF ByHand, Begin
  <2> QED
    BY <1>1, <2>3, <2>4
<1>2. CASE EndComply \/ EndCycle
  BY <1>2 DEF EndComply, EndCycle
<1>12. CASE BookSale
  BY <1>12 DEF BookSale
<1>3. CASE EndExits
  <2>1. Candidates \subseteq Symbols
    BY DEF Candidates
  <2> QED
    BY <1>3, <2>1 DEF EndExits
<1>4. ASSUME NEW s \in Symbols, ForcedExit(s) PROVE TypeOK'
  BY <1>4 DEF ForcedExit, Kinds, Intents
<1>13. ASSUME NEW s \in Symbols, NoForcedExit(s) PROVE TypeOK'
  BY <1>13 DEF NoForcedExit
<1>5. ASSUME NEW s \in Symbols, NoRuleExit(s) \/ NoEntry(s)
      PROVE  TypeOK'
  BY <1>5 DEF NoRuleExit, NoEntry
<1>6. ASSUME NEW s \in Symbols, NEW rule \in {"stop", "max"}, RuleExit(s, rule)
      PROVE  TypeOK'
  BY <1>6 DEF RuleExit, Kinds, Intents
<1>7. CASE CloseTrade
  BY <1>7, RowsLeft DEF CloseTrade
<1>8. CASE OpenTrade
  BY <1>8, AppendedRow DEF OpenTrade
<1>9. ASSUME NEW s \in Symbols, Enter(s) PROVE TypeOK'
  BY <1>9 DEF Enter, Kinds, Intents
<1>14. ASSUME NEW s \in Symbols, EntryRefused(s) PROVE TypeOK'
  BY <1>14 DEF EntryRefused, Intents
<1>10. CASE Crash
  BY <1>10 DEF Crash
<1>15. CASE Missed
  BY <1>15 DEF Missed
<1>11. CASE StepFails
  <2>1. Candidates \subseteq Symbols
    BY DEF Candidates
  <2> QED
    BY <1>11, <2>1 DEF StepFails
<1> QED
  BY <1>1, <1>2, <1>3, <1>4, <1>5, <1>6, <1>7, <1>8, <1>9, <1>10, <1>11,
     <1>12, <1>13, <1>14, <1>15

\* So does what happens outside a cycle.
LEMMA OutsideType ==
    ASSUME IInv,
           \/ \E s \in Symbols : Screen(s)
           \/ OpenMarket \/ CloseMarket
           \/ \E s \in Symbols : \E whole \in BOOLEAN : FillBuy(s, whole)
           \/ \E s \in Symbols, kind \in {"sell", "leg"} : FillSell(kind, s)
           \/ UNCHANGED vars
    PROVE  TypeOK'
<1> USE TradingAssumption DEF TradingAssumption, IInv, TypeOK, account, records, outside, cycle
<1>1. ASSUME NEW s \in Symbols, Screen(s) PROVE TypeOK'
  BY <1>1 DEF Screen
<1>2. CASE OpenMarket
  <2>1. ASSUME NEW n \in Nat, NEW top \in Nat PROVE Capped(n + 1, top) \in 0 .. top
    BY DEF Capped
  <2>2. age' \in [Symbols -> 0 .. MinHold]
    BY <1>2, <2>1 DEF OpenMarket
  <2>3. ASSUME NEW s \in Symbols
        PROVE  [i \in DOMAIN trades[s] |-> Capped(trades[s][i] + 1, MaxHold)] \in Seq(0 .. MaxHold)
    <3>1. trades[s] \in Seq(0 .. MaxHold)
      OBVIOUS
    <3>2. PICK n \in Nat : DOMAIN trades[s] = 1 .. n
      BY <3>1
    <3>3. \A i \in 1 .. n : Capped(trades[s][i] + 1, MaxHold) \in 0 .. MaxHold
      BY <2>1, <3>1, <3>2
    <3> HIDE DEF TypeOK
    <3> QED
      BY <3>2, <3>3
  <2>4. trades' \in [Symbols -> Seq(0 .. MaxHold)]
    BY <1>2, <2>3 DEF OpenMarket
  <2>5. settled' \in Nat /\ unsettled' \in Nat
    BY <1>2 DEF OpenMarket
  <2>6. market' \in {"open", "closed"} /\ ran' \in BOOLEAN /\ booked' \in Nat /\ today' \in Nat
    BY <1>2 DEF OpenMarket
  <2>7. used' \subseteq Intents \X Symbols
    BY <1>2 DEF OpenMarket
  <2> QED
    BY <1>2, <2>2, <2>4, <2>5, <2>6, <2>7 DEF OpenMarket
<1>3. CASE CloseMarket \/ UNCHANGED vars
  BY <1>3 DEF CloseMarket, vars
<1>4. ASSUME NEW s \in Symbols, NEW whole \in BOOLEAN, FillBuy(s, whole)
      PROVE  TypeOK'
  <2>1. <<"buy", s>> \in Buys /\ IsFiniteSet(Buys)
    BY <1>4, FiniteRecords, FS_Subset DEF FillBuy, Buys
  <2>2. Cardinality(Buys) \in Nat /\ Cardinality(Buys) # 0
    BY <2>1, FS_CardinalityType, FS_EmptySet
  <2>3. settled > 0 \/ unsettled > 0
    BY <2>2 DEF Covered
  <2> QED
    BY <1>4, <2>3 DEF FillBuy, Kinds
<1>5. ASSUME NEW s \in Symbols, NEW kind \in {"sell", "leg"}, FillSell(kind, s)
      PROVE  TypeOK'
  BY <1>5 DEF FillSell
<1> QED
  BY <1>1, <1>2, <1>3, <1>4, <1>5

-----------------------------------------------------------------------------
\* Fewer purchases and no less cash.
LEMMA FewerPurchases ==
    ASSUME NEW B, IsFiniteSet(B), NEW C \in SUBSET B,
           NEW m \in Nat, NEW n \in Nat, Cardinality(B) <= m, m <= n
    PROVE  Cardinality(C) <= n
<1>1. Cardinality(C) <= Cardinality(B) /\ Cardinality(C) \in Nat /\ Cardinality(B) \in Nat
  BY FS_Subset, FS_CardinalityType
<1> QED
  BY <1>1

\* No step leaves a working purchase without cash: purchases are taken only
\* against free cash, and an execution spends one unit for its order.
LEMMA StepCovered == IInv /\ [Next]_vars => Covered'
<1> SUFFICES ASSUME IInv, [Next]_vars PROVE Covered'
  OBVIOUS
<1> USE TradingAssumption DEF TradingAssumption, account, records, outside, cycle
<1>1. IsFiniteSet(Buys) /\ Cardinality(Buys) \in Nat /\ settled \in Nat /\ unsettled \in Nat
  BY FiniteRecords, FS_Subset, FS_CardinalityType DEF Buys, IInv, TypeOK
<1>2. Cardinality(Buys) <= settled + unsettled
  BY DEF IInv, Covered
<1>3. ASSUME Buys' \subseteq Buys, settled' + unsettled' \in Nat,
             settled + unsettled <= settled' + unsettled'
      PROVE  Covered'
  BY <1>1, <1>2, <1>3, FewerPurchases DEF Covered
<1>4. ASSUME Buys' = Buys, UNCHANGED <<settled, unsettled>> PROVE Covered'
  BY <1>1, <1>3, <1>4
<1>5. ASSUME NEW s \in Symbols, Enter(s) PROVE Covered'
  <2>1. Buys' = Buys \cup {<<"buy", s>>} /\ UNCHANGED <<settled, unsettled>>
    BY <1>5 DEF Enter, Buys
  <2>2. Cardinality(Buys') \in {Cardinality(Buys), Cardinality(Buys) + 1}
    BY <1>1, <2>1, FS_AddElement
  <2>3. Cardinality(Buys) < settled + unsettled
    BY <1>5 DEF Enter, Buys
  <2>4. IsFiniteSet(Buys') /\ Cardinality(Buys') \in Nat
    BY <1>1, <2>1, FS_AddElement, FS_CardinalityType
  <2> QED
    BY <1>1, <2>1, <2>2, <2>3, <2>4 DEF Covered
<1>6. ASSUME NEW s \in Symbols, NEW whole \in BOOLEAN, FillBuy(s, whole) PROVE Covered'
  <2>1. <<"buy", s>> \in Buys /\ Buys' = Buys \ {<<"buy", s>>}
    BY <1>6 DEF FillBuy, Buys
  <2>2. Cardinality(Buys') = Cardinality(Buys) - 1
    BY <1>1, <2>1, FS_RemoveElement
  <2>3. settled' + unsettled' = settled + unsettled - 1
    BY <1>1, <1>6 DEF FillBuy
  <2> QED
    BY <1>1, <1>2, <2>2, <2>3 DEF Covered
<1>7. ASSUME NEW s \in Symbols, NEW kind \in {"sell", "leg"}, FillSell(kind, s) PROVE Covered'
  BY <1>1, <1>3, <1>7 DEF FillSell, Buys
<1>8. CASE OpenMarket
  BY <1>1, <1>3, <1>8 DEF OpenMarket, Buys
<1>9. CASE CloseMarket
  BY <1>1, <1>3, <1>9 DEF CloseMarket, Buys
<1>10. CASE Scheduled \/ ByHand
  BY <1>1, <1>3, <1>10 DEF Scheduled, ByHand, Begin, Buys
<1>11. ASSUME NEW s \in Symbols, ForcedExit(s) PROVE Covered'
  BY <1>4, <1>11 DEF ForcedExit, Buys
<1>12. ASSUME NEW s \in Symbols, NEW rule \in {"stop", "max"}, RuleExit(s, rule) PROVE Covered'
  BY <1>4, <1>12 DEF RuleExit, Buys
<1>13. CASE UNCHANGED account
  BY <1>4, <1>13 DEF Buys
<1>14. ASSUME NEW s \in Symbols,
              NoForcedExit(s) \/ NoRuleExit(s) \/ NoEntry(s) \/ EntryRefused(s) \/ Screen(s)
       PROVE  UNCHANGED account
  BY <1>14 DEF NoForcedExit, NoRuleExit, NoEntry, EntryRefused, Screen
<1>15. ASSUME \/ EndComply \/ EndExits \/ EndCycle \/ CloseTrade \/ BookSale \/ OpenTrade
              \/ Crash \/ StepFails \/ Missed \/ UNCHANGED vars
       PROVE  UNCHANGED account
  BY <1>15 DEF EndComply, EndExits, EndCycle, CloseTrade, BookSale, OpenTrade, Crash,
               StepFails, Missed, vars
<1> QED
  BY <1>5, <1>6, <1>7, <1>8, <1>9, <1>10, <1>11, <1>12, <1>13, <1>14, <1>15 DEF Next, Steps

-----------------------------------------------------------------------------
\* An entry is counted in the step to its row, in the row, or as lost.
LEMMA StepCounted == IInv /\ [Next]_vars => Counted'
<1> SUFFICES ASSUME IInv, [Next]_vars PROVE Counted'
  OBVIOUS
<1> USE TradingAssumption DEF TradingAssumption, account, records, outside, cycle
<1>1. IsFiniteSet(Opened) /\ Cardinality(Opened) \in Nat /\ today \in Nat /\ faults \in Nat
  <2>1. TypeOK
    BY DEF IInv
  <2>2. Opened \subseteq used
    BY DEF Opened
  <2>3. IsFiniteSet(Opened) /\ Cardinality(Opened) \in Nat
    BY <2>1, <2>2, FiniteRecords, FS_Subset, FS_CardinalityType
  <2> QED
    BY <2>1, <2>3 DEF TypeOK
<1>2. Cardinality(Opened) <= today + InHand + faults /\ today + InHand <= MaxPerDay
  BY DEF IInv, Counted
<1>3. ASSUME Opened' = Opened, UNCHANGED <<today, faults>>, InHand' = InHand
      PROVE  Counted'
  BY <1>2, <1>3 DEF Counted
<1>4. ASSUME Opened' = Opened, today' = today, faults' = faults + 1, pc' # "opened"
      PROVE  Counted'
  BY <1>1, <1>2, <1>4 DEF Counted, InHand
<1>5. CASE Scheduled \/ ByHand
  BY <1>3, <1>5 DEF Scheduled, ByHand, Begin, Opened, InHand
<1>6. ASSUME NEW s \in Symbols, ForcedExit(s) PROVE Counted'
  BY <1>3, <1>6 DEF ForcedExit, Opened, InHand
<1>7. ASSUME NEW s \in Symbols, NoForcedExit(s) \/ NoRuleExit(s) \/ NoEntry(s) PROVE Counted'
  BY <1>3, <1>7 DEF NoForcedExit, NoRuleExit, NoEntry, Opened, InHand
<1>8. ASSUME NEW s \in Symbols, NEW rule \in {"stop", "max"}, RuleExit(s, rule) PROVE Counted'
  <2>1. Opened' = Opened
    BY <1>8 DEF RuleExit, Opened
  <2>2. pc = "exits" /\ pc' \in {"exits", "sold"} /\ UNCHANGED <<today, faults>>
    BY <1>8 DEF RuleExit
  <2> QED
    BY <1>3, <2>1, <2>2 DEF InHand
<1>9. CASE EndComply \/ EndExits \/ EndCycle
  BY <1>3, <1>9 DEF EndComply, EndExits, EndCycle, Opened, InHand
<1>10. CASE CloseTrade \/ BookSale
  BY <1>3, <1>10 DEF CloseTrade, BookSale, Opened, InHand
<1>11. CASE OpenTrade
  BY <1>1, <1>2, <1>11 DEF OpenTrade, Opened, InHand, Counted
<1>12. ASSUME NEW s \in Symbols, Enter(s) PROVE Counted'
  <2>1. Opened' = Opened \cup {<<"open", s>>}
    BY <1>12 DEF Enter, Opened
  <2>2. Cardinality(Opened') \in {Cardinality(Opened), Cardinality(Opened) + 1}
    BY <1>1, <2>1, FS_AddElement
  <2>3. InHand = 0 /\ InHand' = 1 /\ today < MaxPerDay /\ UNCHANGED <<today, faults>>
    BY <1>12 DEF Enter, Placed, Permitted, InHand
  <2> QED
    BY <1>1, <1>2, <2>2, <2>3 DEF Counted
<1>13. ASSUME NEW s \in Symbols, EntryRefused(s) PROVE Counted'
  BY <1>3, <1>13 DEF EntryRefused, Opened, InHand
<1>14. CASE Crash \/ StepFails \/ Missed
  BY <1>4, <1>14 DEF Crash, StepFails, Missed, Opened
<1>15. CASE OpenMarket
  <2>1. Opened' = {} /\ today' = 0 /\ InHand' = 0 /\ faults' = faults
    BY <1>15 DEF OpenMarket, Opened, InHand
  <2> QED
    BY <1>1, <2>1, FS_EmptySet DEF Counted
<1>16. ASSUME \/ \E s \in Symbols : Screen(s)
              \/ \E s \in Symbols : \E whole \in BOOLEAN : FillBuy(s, whole)
              \/ \E s \in Symbols, kind \in {"sell", "leg"} : FillSell(kind, s)
              \/ CloseMarket
       PROVE  Counted'
  BY <1>3, <1>16 DEF Screen, CloseMarket, FillBuy, FillSell, Opened, InHand
<1>17. CASE UNCHANGED vars
  BY <1>3, <1>17 DEF vars, Opened, InHand
<1>18. CASE Steps
  BY <1>5, <1>6, <1>7, <1>8, <1>9, <1>10, <1>11, <1>18 DEF Steps
<1> QED
  BY <1>5, <1>12, <1>13, <1>14, <1>15, <1>16, <1>17, <1>18 DEF Next

-----------------------------------------------------------------------------
\* Rows and positions grow older together, and a row that is left after a sale
\* belongs to a position that was old enough to be sold.
LEMMA StepHonest == IInv /\ [Next]_vars => Honest'
<1> SUFFICES ASSUME IInv, [Next]_vars PROVE Honest'
  OBVIOUS
<1> USE TradingAssumption DEF TradingAssumption, account, records, outside, cycle
<1>1. /\ trades \in [Symbols -> Seq(0 .. MaxHold)] /\ age \in [Symbols -> 0 .. MinHold]
      /\ work \in Symbols /\ faults \in Nat
  BY DEF IInv, TypeOK
<1>2. Honest
  BY DEF IInv
<1>3. ASSUME UNCHANGED <<trades, age, faults, pc, work>> PROVE Honest'
  BY <1>2, <1>3 DEF Honest, Watched, HeldFor
<1>4. ASSUME UNCHANGED <<trades, age, faults>>, pc # "opened", pc' # "sold" PROVE Honest'
  BY <1>2, <1>4 DEF Honest, Watched, HeldFor
<1>5. CASE Scheduled \/ ByHand
  BY <1>4, <1>5 DEF Scheduled, ByHand, Begin
<1>6. ASSUME NEW s \in Symbols,
             ForcedExit(s) \/ NoForcedExit(s) \/ NoRuleExit(s) \/ NoEntry(s) \/ EntryRefused(s)
      PROVE  Honest'
  BY <1>3, <1>6 DEF ForcedExit, NoForcedExit, NoRuleExit, NoEntry, EntryRefused
<1>7. CASE EndComply \/ EndExits \/ EndCycle \/ BookSale
  BY <1>4, <1>7 DEF EndComply, EndExits, EndCycle, BookSale
<1>8. ASSUME NEW s \in Symbols, NEW rule \in {"stop", "max"}, RuleExit(s, rule) PROVE Honest'
  <2>1. CASE pc' = "exits"
    BY <1>4, <1>8, <2>1 DEF RuleExit
  <2>2. CASE pc' = "sold" /\ work' = s
    <3>1. faults = 0 => age[s] >= MinHold \/ age[s] >= HeldFor(s)
      BY <1>2, <1>8 DEF RuleExit, Honest
    <3>2. HeldFor(s) >= MinHold /\ Watched(s)
      BY <1>8 DEF RuleExit
    <3>3. HeldFor(s) \in 0 .. MaxHold
      BY <1>1, <3>2 DEF HeldFor, Watched, Last
    <3>4. faults = 0 => age[s] >= MinHold
      BY <1>1, <3>1, <3>2, <3>3
    <3> QED
      BY <1>2, <1>8, <2>2, <3>4 DEF RuleExit, Honest, Watched, HeldFor
  <2> QED
    BY <1>8, <2>1, <2>2 DEF RuleExit
<1>9. CASE CloseTrade
  <2>1. faults = 0 => age[work] >= MinHold
    BY <1>2, <1>9 DEF CloseTrade, Honest
  <2>2. \A s \in Symbols : s # work => trades'[s] = trades[s]
    BY <1>1, <1>9 DEF CloseTrade
  <2> QED
    BY <1>2, <1>9, <2>1, <2>2 DEF CloseTrade, Honest, Watched, HeldFor
<1>10. CASE OpenTrade
  <2>1. trades'[work] = Append(trades[work], 0) /\ \A s \in Symbols : s # work => trades'[s] = trades[s]
    BY <1>1, <1>10 DEF OpenTrade
  <2>2. Last(trades'[work]) = 0
    BY <1>1, <2>1, AppendedRow
  <2>3. age[work] >= 0
    BY <1>1
  <2> QED
    BY <1>2, <1>10, <2>1, <2>2, <2>3 DEF OpenTrade, Honest, Watched, HeldFor
<1>11. ASSUME NEW s \in Symbols, Enter(s) PROVE Honest'
  <2>1. \A t \in Symbols : t # s => age'[t] = age[t]
    BY <1>1, <1>11 DEF Enter
  <2> QED
    BY <1>2, <1>11, <2>1 DEF Enter, Placed, Honest, Watched, HeldFor
<1>12. CASE Crash \/ StepFails \/ Missed
  <2>1. faults' # 0
    BY <1>1, <1>12 DEF Crash, StepFails, Missed
  <2> QED
    BY <2>1 DEF Honest
<1>13. CASE OpenMarket
  <2> SUFFICES ASSUME faults' = 0, NEW s \in Symbols, Watched(s)'
               PROVE  age'[s] >= MinHold \/ age'[s] >= HeldFor(s)'
    BY <1>13 DEF OpenMarket, Honest
  <2> DEFINE q == trades[s]
  <2>1. /\ trades'[s] = [i \in DOMAIN q |-> Capped(q[i] + 1, MaxHold)]
        /\ age'[s] = Capped(age[s] + 1, MinHold)
    BY <1>1, <1>13 DEF OpenMarket
  <2>2. q \in Seq(0 .. MaxHold) /\ Len(q) \in Nat /\ DOMAIN q = 1 .. Len(q)
    BY <1>1
  <2>3. Len(trades'[s]) = Len(q)
    BY <2>1, <2>2
  <2>4. Len(q) # 0
    BY <2>1, <2>2, <2>3 DEF Watched
  <2>5. HeldFor(s)' = Capped(HeldFor(s) + 1, MaxHold)
    BY <2>1, <2>2, <2>3, <2>4 DEF HeldFor, Last
  <2>6. HeldFor(s) \in 0 .. MaxHold
    BY <2>2, <2>4 DEF HeldFor, Last
  <2>7. age[s] >= MinHold \/ age[s] >= HeldFor(s)
    BY <1>2, <1>13, <2>2, <2>4 DEF OpenMarket, Honest, Watched
  <2> QED
    BY <1>1, <2>1, <2>5, <2>6, <2>7 DEF Capped
<1>14. ASSUME \/ \E s \in Symbols : Screen(s)
              \/ \E s \in Symbols : \E whole \in BOOLEAN : FillBuy(s, whole)
              \/ \E s \in Symbols, kind \in {"sell", "leg"} : FillSell(kind, s)
              \/ CloseMarket
       PROVE  Honest'
  BY <1>3, <1>14 DEF Screen, CloseMarket, FillBuy, FillSell
<1>15. CASE UNCHANGED vars
  BY <1>3, <1>15 DEF vars
<1>16. CASE Steps
  BY <1>5, <1>6, <1>7, <1>8, <1>9, <1>10, <1>16 DEF Steps
<1> QED
  BY <1>5, <1>6, <1>11, <1>12, <1>13, <1>14, <1>15, <1>16 DEF Next

\* The inductive invariant holds in every reachable state.
LEMMA TradingInvariant == Spec => []IInv
<1>1. IInv /\ [Next]_vars => TypeOK'
  BY CycleType, OutsideType DEF Next, Steps
<1>2. IInv /\ [Next]_vars => IInv'
  BY <1>1, StepCovered, StepCounted, StepHonest DEF IInv
<1> QED
  BY <1>2, InitIInv, PTL DEF Spec

-----------------------------------------------------------------------------
\* Every variable keeps its type, whatever the limits: no execution ever finds
\* the account without the cash the broker had checked for.
THEOREM TradingTypeCorrect == Spec => []TypeOK
<1>1. IInv => TypeOK
  BY DEF IInv
<1> QED
  BY <1>1, TradingInvariant, PTL

\* The limit on trades per day holds through every interleaving of cycles,
\* executions and faults, but for one entry for each row a fault has lost.
THEOREM DailyLimitHolds == Spec => []EntriesPerDay
<1>1. IInv => EntriesPerDay
  <2> SUFFICES ASSUME IInv PROVE EntriesPerDay
    OBVIOUS
  <2>1. Cardinality(Opened) \in Nat /\ today \in Nat /\ faults \in Nat
    BY FiniteRecords, FS_Subset, FS_CardinalityType DEF Opened, IInv, TypeOK
  <2>2. Cardinality(Opened) <= MaxPerDay + faults
    BY <2>1, TradingAssumption DEF IInv, Counted, InHand, TradingAssumption
  <2> QED
    BY <2>2 DEF EntriesPerDay, Opened
<1> QED
  BY <1>1, TradingInvariant, PTL

\* Without a lost row no exit rule sells a position before its minimum holding
\* period, however many older rows of the symbol are still open.
THEOREM MinimumHoldHolds == Spec => MinimumHold
<1>1. ASSUME IInv, [Next]_vars
      PROVE  [pc = "exits" /\ pc' = "sold" /\ faults = 0 => age[work'] >= MinHold]_vars
  <2> SUFFICES ASSUME pc = "exits", pc' = "sold", faults = 0
               PROVE  age[work'] >= MinHold
    OBVIOUS
  <2>1. Honest'
    BY <1>1, StepHonest
  <2>2. PICK s \in Symbols, rule \in {"stop", "max"} : RuleExit(s, rule)
    BY <1>1 DEF Next, Steps, Scheduled, ByHand, Begin, EndComply, EndExits, EndCycle,
                ForcedExit, NoForcedExit, NoRuleExit, NoEntry, CloseTrade, BookSale, OpenTrade,
                Enter, EntryRefused, Screen, Crash, StepFails, Missed, OpenMarket, CloseMarket,
                FillBuy, FillSell, vars, cycle
  <2>3. UNCHANGED <<age, faults>>
    BY <2>2 DEF RuleExit, outside
  <2> QED
    BY <2>1, <2>3 DEF Honest
<1> QED
  BY <1>1, TradingInvariant, PTL DEF Spec, MinimumHold
-----------------------------------------------------------------------------
(* Scheduled cycles: what is true as long as nobody starts one by hand.    *)

Order(kind) == {o \in working : o[1] = kind}

\* One cycle a day, at the signal, which finds no purchase and no sale of an
\* earlier one; and no order waits through a night before a signal in the session.
Rhythm ==
    extra = 0 =>
        /\ pc # "idle" => ran /\ market = Signal
        /\ pc \in {"comply", "exits", "sold", "book"} => Order("buy") = {}
        /\ market = Signal /\ ~ran => Order("buy") = {} /\ Order("sell") = {}
        /\ Signal = "open" /\ market = "closed" => working = {}

\* In a session that comes before the signal, settled cash covers the purchases.
Funded ==
    extra = 0 /\ Signal = "closed" /\ market = "open" => Cardinality(Buys) <= settled

\* The positions to come are watched as well, and a trade about to be closed is
\* one whose position is on its way out.
Watching ==
    extra = 0 /\ faults = 0 =>
        /\ \A s \in held :
              Watched(s) \/ <<"sell", s>> \in working \/ (pc = "opened" /\ work = s)
        /\ \A s \in Symbols :
              <<"buy", s>> \in working => Watched(s) \/ (pc = "opened" /\ work = s)
        /\ pc = "sold" /\ work \in held => <<"sell", work>> \in working

ScheduledInv == Rhythm /\ Funded /\ Watching

\* The initial states satisfy it.
LEMMA InitScheduledInv == Init => ScheduledInv
BY TradingAssumption
   DEF Init, TradingAssumption, ScheduledInv, Rhythm, Funded, Watching, Order

\* No step breaks the rhythm of the cycles.
LEMMA StepRhythm == IInv /\ Rhythm /\ [Next]_vars => Rhythm'
<1> SUFFICES ASSUME IInv, Rhythm, [Next]_vars PROVE Rhythm'
  OBVIOUS
<1> USE TradingAssumption DEF TradingAssumption, account, records, outside, cycle, Rhythm, Order
<1>1. /\ market \in {"open", "closed"} /\ ran \in BOOLEAN /\ extra \in Nat
      /\ working \subseteq Kinds \X Symbols
  BY DEF IInv, TypeOK
<1>2. CASE Scheduled
  BY <1>1, <1>2 DEF Scheduled, Begin
<1>3. CASE ByHand
  BY <1>1, <1>3 DEF ByHand
<1>4. ASSUME NEW s \in Symbols, ForcedExit(s) PROVE Rhythm'
  BY <1>1, <1>4 DEF ForcedExit
<1>5. ASSUME NEW s \in Symbols, NoForcedExit(s) \/ NoRuleExit(s) \/ NoEntry(s) PROVE Rhythm'
  BY <1>5 DEF NoForcedExit, NoRuleExit, NoEntry
<1>6. ASSUME NEW s \in Symbols, NEW rule \in {"stop", "max"}, RuleExit(s, rule) PROVE Rhythm'
  BY <1>1, <1>6 DEF RuleExit
<1>7. CASE EndComply \/ EndExits \/ EndCycle
  BY <1>7 DEF EndComply, EndExits, EndCycle
<1>8. CASE CloseTrade \/ BookSale \/ OpenTrade
  BY <1>8 DEF CloseTrade, BookSale, OpenTrade
<1>9. ASSUME NEW s \in Symbols, Enter(s) PROVE Rhythm'
  BY <1>1, <1>9 DEF Enter, Placed
<1>10. ASSUME NEW s \in Symbols, EntryRefused(s) \/ Screen(s) PROVE Rhythm'
  BY <1>10 DEF EntryRefused, Screen
<1>11. CASE Crash \/ StepFails \/ Missed
  BY <1>11 DEF Crash, StepFails, Missed
<1>12. CASE OpenMarket
  BY <1>1, <1>12 DEF OpenMarket
<1>13. CASE CloseMarket
  BY <1>1, <1>13 DEF CloseMarket
<1>14. ASSUME NEW s \in Symbols, NEW whole \in BOOLEAN, FillBuy(s, whole) PROVE Rhythm'
  BY <1>1, <1>14 DEF FillBuy
<1>15. ASSUME NEW s \in Symbols, NEW kind \in {"sell", "leg"}, FillSell(kind, s) PROVE Rhythm'
  BY <1>1, <1>15 DEF FillSell
<1>16. CASE UNCHANGED vars
  BY <1>16 DEF vars
<1> QED
  BY <1>2, <1>3, <1>4, <1>5, <1>6, <1>7, <1>8, <1>9, <1>10, <1>11, <1>12, <1>13, <1>14,
     <1>15, <1>16 DEF Next, Steps

\* Purchases are taken after the close, when the cash they are checked against
\* settles before they execute, and a session adds none.
LEMMA StepFunded == IInv /\ Rhythm /\ Funded /\ [Next]_vars => Funded'
<1> SUFFICES ASSUME IInv, Rhythm, Funded, [Next]_vars,
                    extra' = 0, Signal = "closed", market' = "open"
             PROVE  Cardinality(Buys)' <= settled'
  BY DEF Funded
<1> USE TradingAssumption DEF TradingAssumption, account, records, outside, cycle
<1>1. /\ IsFiniteSet(Buys) /\ Cardinality(Buys) \in Nat
      /\ settled \in Nat /\ unsettled \in Nat /\ extra \in Nat
  <2>1. TypeOK /\ Buys \subseteq working
    BY DEF IInv, Buys
  <2>2. IsFiniteSet(Buys) /\ Cardinality(Buys) \in Nat
    BY <2>1, FiniteRecords, FS_Subset, FS_CardinalityType
  <2> QED
    BY <2>1, <2>2 DEF TypeOK
<1>2. CASE OpenMarket
  <2>1. Buys' = Buys /\ settled' = settled + unsettled
    BY <1>2 DEF OpenMarket, Buys
  <2> QED
    BY <2>1 DEF IInv, Covered
<1>3. ASSUME NEW s \in Symbols, NEW whole \in BOOLEAN, FillBuy(s, whole)
      PROVE  Cardinality(Buys)' <= settled'
  <2>1. <<"buy", s>> \in Buys /\ Buys' = Buys \ {<<"buy", s>>}
    BY <1>3 DEF FillBuy, Buys
  <2>2. Cardinality(Buys') = Cardinality(Buys) - 1 /\ Cardinality(Buys) # 0
    BY <1>1, <2>1, FS_RemoveElement, FS_EmptySet
  <2>3. Cardinality(Buys) <= settled
    BY <1>3 DEF FillBuy, Funded
  <2>4. settled' = settled - 1
    BY <1>1, <1>3, <2>2, <2>3 DEF FillBuy
  <2> QED
    BY <1>1, <2>2, <2>3, <2>4
<1>4. ASSUME Buys' = Buys, UNCHANGED <<settled, extra, market>>
      PROVE  Cardinality(Buys)' <= settled'
  BY <1>4 DEF Funded
<1>5. ASSUME NEW s \in Symbols, NEW kind \in {"sell", "leg"}, FillSell(kind, s)
      PROVE  Cardinality(Buys)' <= settled'
  BY <1>4, <1>5 DEF FillSell, Buys
<1>6. ASSUME NEW s \in Symbols, Screen(s) PROVE Cardinality(Buys)' <= settled'
  BY <1>4, <1>6 DEF Screen, Buys
<1>7. CASE UNCHANGED vars
  BY <1>4, <1>7 DEF vars, Buys
<1>8. ASSUME pc # "idle", UNCHANGED <<extra, market>> PROVE FALSE
  BY <1>8 DEF Rhythm
<1>9. ASSUME \/ \E s \in Symbols : ForcedExit(s) \/ NoForcedExit(s) \/ NoRuleExit(s) \/ NoEntry(s)
             \/ \E s \in Symbols, rule \in {"stop", "max"} : RuleExit(s, rule)
             \/ \E s \in Symbols : Enter(s) \/ EntryRefused(s)
             \/ EndComply \/ EndExits \/ EndCycle \/ CloseTrade \/ BookSale \/ OpenTrade
             \/ Crash \/ StepFails
      PROVE  pc # "idle" /\ UNCHANGED <<extra, market>>
  BY <1>9 DEF ForcedExit, NoForcedExit, NoRuleExit, NoEntry, RuleExit, Enter, Placed,
              EntryRefused, EndComply, EndExits, EndCycle, CloseTrade, BookSale, OpenTrade,
              Crash, StepFails
<1>10. ASSUME Scheduled \/ ByHand \/ Missed \/ CloseMarket PROVE FALSE
  BY <1>1, <1>10 DEF Scheduled, ByHand, Begin, Missed, CloseMarket
<1> QED
  BY <1>2, <1>3, <1>5, <1>6, <1>7, <1>8, <1>9, <1>10 DEF Next, Steps

\* A row is removed only when the position's sale is on its way, and every
\* purchase has its row before the cycle goes on.
LEMMA StepWatching == IInv /\ Rhythm /\ Watching /\ [Next]_vars => Watching'
<1> SUFFICES ASSUME IInv, Rhythm, Watching, [Next]_vars, extra' = 0, faults' = 0
             PROVE  Watching'
  BY DEF Watching
<1> USE TradingAssumption DEF TradingAssumption, account, records, outside, cycle
<1>1. /\ trades \in [Symbols -> Seq(0 .. MaxHold)] /\ held \subseteq Symbols
      /\ work \in Symbols /\ faults \in Nat /\ extra \in Nat
      /\ working \subseteq Kinds \X Symbols
  BY DEF IInv, TypeOK
<1>2. ASSUME UNCHANGED <<held, trades, work, extra, faults>>, working \subseteq working',
             \A s \in Symbols : <<"buy", s>> \in working' => <<"buy", s>> \in working,
             pc' = pc \/ (pc # "opened" /\ pc' # "sold")
      PROVE  Watching'
  BY <1>1, <1>2 DEF Watching, Watched
<1>3. CASE Scheduled
  <2>1. pc = "idle" /\ extra = 0 /\ faults = 0 /\ Order("sell") = {} /\ Order("buy") = {}
    BY <1>3 DEF Scheduled, Begin, Rhythm
  <2>2. ASSUME NEW s \in held PROVE Watched(s)
    <3>1. <<"sell", s>> \notin working
      BY <2>1 DEF Order
    <3> QED
      BY <2>1, <3>1 DEF Watching
  <2>3. /\ \A s \in Symbols : <<"buy", s>> \notin working'
        /\ UNCHANGED <<held, trades, work>> /\ pc' = "comply"
    BY <1>3, <2>1 DEF Scheduled, Begin, Order
  <2> QED
    BY <1>1, <2>2, <2>3 DEF Watching, Watched
<1>4. ASSUME ByHand \/ Crash \/ StepFails \/ Missed PROVE FALSE
  BY <1>1, <1>4 DEF ByHand, Crash, StepFails, Missed
<1>5. ASSUME NEW s \in Symbols, ForcedExit(s) PROVE Watching'
  BY <1>2, <1>5 DEF ForcedExit
<1>6. ASSUME NEW s \in Symbols,
             NoForcedExit(s) \/ NoRuleExit(s) \/ NoEntry(s) \/ EntryRefused(s) \/ Screen(s)
      PROVE  Watching'
  BY <1>2, <1>6 DEF NoForcedExit, NoRuleExit, NoEntry, EntryRefused, Screen
<1>7. CASE EndComply \/ EndExits \/ EndCycle \/ BookSale
  BY <1>2, <1>7 DEF EndComply, EndExits, EndCycle, BookSale
<1>8. ASSUME NEW s \in Symbols, NEW rule \in {"stop", "max"}, RuleExit(s, rule) PROVE Watching'
  <2>1. CASE pc' = "exits"
    BY <1>2, <1>8, <2>1 DEF RuleExit
  <2>2. CASE pc' = "sold"
    <3>1. work' = s /\ working' = working \cup {<<"sell", s>>} /\ pc = "exits"
      BY <1>8, <2>2 DEF RuleExit
    <3>2. UNCHANGED <<held, trades, extra, faults>>
      BY <1>8 DEF RuleExit
    <3> QED
      BY <1>1, <2>2, <3>1, <3>2 DEF Watching, Watched
  <2> QED
    BY <1>8, <2>1, <2>2 DEF RuleExit
<1>9. CASE CloseTrade
  <2>1. /\ pc = "sold" /\ pc' = "book" /\ UNCHANGED <<held, working, work, extra, faults>>
        /\ \A s \in Symbols : s # work => trades'[s] = trades[s]
    BY <1>1, <1>9 DEF CloseTrade
  <2>2. work \in held => <<"sell", work>> \in working
    BY <2>1 DEF Watching
  <2>3. \A s \in Symbols : <<"buy", s>> \notin working
    BY <2>1 DEF Rhythm, Order
  <2> QED
    BY <1>1, <2>1, <2>2, <2>3 DEF Watching, Watched
<1>10. CASE OpenTrade
  <2>1. trades'[work] = Append(trades[work], 0) /\ \A s \in Symbols : s # work => trades'[s] = trades[s]
    BY <1>1, <1>10 DEF OpenTrade
  <2>2. trades'[work] # <<>>
    <3>1. trades[work] \in Seq(0 .. MaxHold) /\ 0 \in 0 .. MaxHold
      BY <1>1
    <3> QED
      BY <2>1, <3>1, AppendedRow
  <2> QED
    BY <1>1, <1>10, <2>1, <2>2 DEF OpenTrade, Watching, Watched
<1>11. ASSUME NEW s \in Symbols, Enter(s) PROVE Watching'
  <2>1. /\ pc = "entries" /\ pc' = "opened" /\ work' = s
        /\ working' = working \cup {<<"buy", s>>} /\ UNCHANGED <<held, trades, extra, faults>>
    BY <1>11 DEF Enter, Placed
  <2> QED
    BY <1>1, <2>1 DEF Watching, Watched
<1>12. CASE OpenMarket
  <2>1. ASSUME NEW s \in Symbols, Watched(s) PROVE Watched(s)'
    <3>1. trades'[s] = [i \in DOMAIN trades[s] |-> Capped(trades[s][i] + 1, MaxHold)]
      BY <1>12, <2>1 DEF OpenMarket
    <3>2. trades[s] \in Seq(0 .. MaxHold) /\ trades[s] # <<>>
      BY <1>1, <2>1 DEF Watched
    <3>3. 1 \in DOMAIN trades[s]
      BY <3>2
    <3> QED
      BY <3>1, <3>3 DEF Watched
  <2>2. pc = "idle" /\ UNCHANGED <<held, working, pc, work, extra, faults>>
    BY <1>12 DEF OpenMarket
  <2> QED
    BY <1>1, <2>1, <2>2 DEF Watching
<1>13. CASE CloseMarket
  <2>1. /\ pc = "idle" /\ working' = {} /\ UNCHANGED <<held, trades, pc, work, extra, faults>>
        /\ \A s \in Symbols : <<"sell", s>> \notin working
    BY <1>13 DEF CloseMarket
  <2> QED
    BY <1>1, <2>1 DEF Watching, Watched
<1>14. ASSUME NEW s \in Symbols, NEW whole \in BOOLEAN, FillBuy(s, whole) PROVE Watching'
  <2>1. /\ <<"buy", s>> \in working /\ held' = held \cup {s}
        /\ UNCHANGED <<trades, pc, work, extra, faults>>
    BY <1>14 DEF FillBuy
  <2>2. /\ \A t \in Symbols : <<"sell", t>> \in working => <<"sell", t>> \in working'
        /\ \A t \in Symbols : <<"buy", t>> \in working' => <<"buy", t>> \in working
    BY <1>14 DEF FillBuy
  <2>3. pc # "sold"
    BY <2>1 DEF Rhythm, Order
  <2> QED
    BY <1>1, <2>1, <2>2, <2>3 DEF Watching, Watched
<1>15. ASSUME NEW s \in Symbols, NEW kind \in {"sell", "leg"}, FillSell(kind, s) PROVE Watching'
  <2>1. /\ held' = held \ {s} /\ working' = working \ {<<kind, s>>}
        /\ UNCHANGED <<trades, pc, work, extra, faults>>
    BY <1>15 DEF FillSell
  <2> QED
    BY <1>1, <2>1 DEF Watching, Watched
<1>16. CASE UNCHANGED vars
  BY <1>2, <1>16 DEF vars
<1> QED
  BY <1>3, <1>4, <1>5, <1>6, <1>7, <1>8, <1>9, <1>10, <1>11, <1>12, <1>13, <1>14, <1>15,
     <1>16 DEF Next, Steps

\* Both invariants together hold in every reachable state.
LEMMA ScheduledInvariant == Spec => [](IInv /\ ScheduledInv)
<1>1. Init => ScheduledInv
  BY InitScheduledInv
<1>2. IInv /\ ScheduledInv /\ [Next]_vars => ScheduledInv'
  BY StepRhythm, StepFunded, StepWatching DEF ScheduledInv
<1> QED
  BY <1>1, <1>2, TradingInvariant, PTL DEF Spec

\* As long as cycles start on schedule and none fails, every position is watched
\* by the exit rules or on its way out, whatever the signal time, the bracket
\* legs, the expired orders and the rows they left.
THEOREM NothingIsForgotten == Spec => []PositionsAreWatched
<1>1. IInv /\ ScheduledInv => PositionsAreWatched
  BY DEF ScheduledInv, Watching, PositionsAreWatched
<1> QED
  BY <1>1, ScheduledInvariant, PTL

\* With the signal after the close, scheduled cycles never spend a day's proceeds
\* on the same day, through any faults.
THEOREM ProceedsSettleFirst == Spec => OnlySettledCashIsSpent
<1>1. ASSUME IInv /\ ScheduledInv, [Next]_vars
      PROVE  [Signal = "closed" /\ extra = 0 /\ unsettled' < unsettled => market # market']_vars
  <2> SUFFICES ASSUME Signal = "closed", extra = 0, unsettled' < unsettled, market' = market
               PROVE  FALSE
    OBVIOUS
  <2> USE TradingAssumption DEF TradingAssumption, account, records, outside, cycle
  <2>1. /\ settled \in Nat /\ unsettled \in Nat /\ market \in {"open", "closed"}
        /\ IsFiniteSet(Buys) /\ Cardinality(Buys) \in Nat
    <3>1. TypeOK /\ Buys \subseteq working
      BY <1>1 DEF IInv, Buys
    <3>2. IsFiniteSet(Buys) /\ Cardinality(Buys) \in Nat
      BY <3>1, FiniteRecords, FS_Subset, FS_CardinalityType
    <3> QED
      BY <3>1, <3>2 DEF TypeOK
  <2>2. ASSUME NEW s \in Symbols, NEW whole \in BOOLEAN, FillBuy(s, whole) PROVE FALSE
    <3>1. <<"buy", s>> \in Buys /\ market = "open"
      BY <2>2 DEF FillBuy, Buys
    <3>2. Cardinality(Buys) # 0
      BY <2>1, <3>1, FS_EmptySet
    <3>3. settled > 0
      BY <1>1, <2>1, <3>1, <3>2 DEF ScheduledInv, Funded
    <3>4. unsettled' = unsettled
      BY <2>2, <3>3 DEF FillBuy
    <3> QED
      BY <2>1, <3>4
  <2>3. ASSUME unsettled' = unsettled \/ unsettled' = unsettled + 1 PROVE FALSE
    BY <2>1, <2>3
  <2>4. ASSUME \/ Steps \/ ByHand \/ Crash \/ StepFails \/ Missed \/ CloseMarket
               \/ \E s \in Symbols : Enter(s) \/ EntryRefused(s) \/ Screen(s)
               \/ \E s \in Symbols, kind \in {"sell", "leg"} : FillSell(kind, s)
               \/ UNCHANGED vars
        PROVE  unsettled' = unsettled \/ unsettled' = unsettled + 1
    BY <2>4 DEF Steps, Scheduled, ByHand, Begin, EndComply, EndExits, EndCycle, ForcedExit,
                NoForcedExit, NoRuleExit, NoEntry, RuleExit, CloseTrade, BookSale, OpenTrade,
                Enter, EntryRefused, Screen, Crash, StepFails, Missed, CloseMarket, FillSell, vars
  <2>5. CASE OpenMarket
    BY <2>5 DEF OpenMarket
  <2> QED
    BY <1>1, <2>2, <2>3, <2>4, <2>5 DEF Next
<1> QED
  BY <1>1, ScheduledInvariant, PTL DEF Spec, OnlySettledCashIsSpent
===============================================================================
