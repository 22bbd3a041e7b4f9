---------------------------- MODULE Desk_proofs ----------------------------
(***************************************************************************)
(* Proofs about Desk.tla for every finite set of symbols, every limit and  *)
(* every interval: its types, the bound on open positions, and that only   *)
(* freshly certified funds are bought.                                     *)
(*                                                                         *)
(* The bound is not inductive.  What a cycle may still place is limited by *)
(* the positions it read at its beginning and by the day's trades, so that *)
(* the orders that count against neither, the strays, must be no more than *)
(* the lost answers.                                                       *)
(***************************************************************************)
EXTENDS Desk, FiniteSetTheorems, TLAPS

\* Orders, and positions since the cycle read them, that neither its snapshot
\* nor the day's trades count.
Strays ==
    (working \ bought)
    \cup {s \in held : cycle.todo # {} /\ s \notin cycle.positions \cup bought}

\* What bounds the entries a cycle still makes.
SlotsInv ==
    /\ Cardinality(Strays) <= lost
    /\ Cardinality(bought) <= MaxPerDay
    /\ cycle.todo # {} => Cardinality(cycle.positions) < MaxOpen
    /\ OpenPositionsBounded

\* What ties a cached verdict and a candidate to the last certification.
FreshInv ==
    /\ \A s \in Symbols : certified[s] <= day
    /\ \A s \in Symbols : Certifies(file[s]) => certified[s] = day
    /\ \A s \in Symbols :
          screens[s].source = "fund_certification" /\ screens[s].status = "compliant"
          => screens[s].day <= certified[s]
    /\ \A s \in cycle.todo :
          /\ file[s].listed /\ file[s].verified /\ ~file[s].forbidden
          /\ day - certified[s] <= Interval

IInv == TypeOK /\ SlotsInv /\ FreshInv
-----------------------------------------------------------------------------
(* Finite sets and the operators.                                          *)

\* A part of a finite set is no larger than the set.
LEMMA PartOf ==
    ASSUME NEW S, NEW T, IsFiniteSet(T), S \subseteq T
    PROVE  /\ IsFiniteSet(S)
           /\ Cardinality(S) \in Nat /\ Cardinality(T) \in Nat
           /\ Cardinality(S) <= Cardinality(T)
BY FS_Subset, FS_CardinalityType

\* One element more is at most one more.
LEMMA OneMore ==
    ASSUME NEW S, NEW T, NEW x, IsFiniteSet(T), S \subseteq T \cup {x}
    PROVE  /\ Cardinality(S) \in Nat /\ Cardinality(T) \in Nat
           /\ Cardinality(S) <= Cardinality(T) + 1
<1>1. /\ IsFiniteSet(T \cup {x})
      /\ Cardinality(T \cup {x}) = Cardinality(T) \/ Cardinality(T \cup {x}) = Cardinality(T) + 1
  BY FS_AddElement
<1>2. Cardinality(S) \in Nat /\ Cardinality(S) <= Cardinality(T \cup {x})
  BY <1>1, PartOf
<1>3. Cardinality(T) \in Nat
  BY FS_CardinalityType
<1> QED
  BY <1>1, <1>2, <1>3

\* What three sets cover is no larger than the three together.
LEMMA ThreeParts ==
    ASSUME NEW S, NEW A, NEW B, NEW C,
           IsFiniteSet(A), IsFiniteSet(B), IsFiniteSet(C), S \subseteq A \cup B \cup C
    PROVE  /\ Cardinality(S) \in Nat /\ Cardinality(A) \in Nat
           /\ Cardinality(B) \in Nat /\ Cardinality(C) \in Nat
           /\ Cardinality(S) <= Cardinality(A) + Cardinality(B) + Cardinality(C)
<1>1. /\ IsFiniteSet(A \cup B)
      /\ Cardinality(A \cup B)
            = Cardinality(A) + Cardinality(B) - Cardinality(A \cap B)
  BY FS_Union
<1>2. /\ IsFiniteSet((A \cup B) \cup C)
      /\ Cardinality((A \cup B) \cup C)
            = Cardinality(A \cup B) + Cardinality(C) - Cardinality((A \cup B) \cap C)
  BY <1>1, FS_Union
<1>3. Cardinality(A \cap B) \in Nat /\ Cardinality((A \cup B) \cap C) \in Nat
  BY PartOf, (A \cap B) \subseteq A, ((A \cup B) \cap C) \subseteq C
<1>4. Cardinality(S) \in Nat /\ Cardinality(S) <= Cardinality((A \cup B) \cup C)
  BY <1>2, PartOf
<1>5. /\ Cardinality(A) \in Nat /\ Cardinality(B) \in Nat /\ Cardinality(C) \in Nat
      /\ Cardinality(A \cup B) \in Nat /\ Cardinality((A \cup B) \cup C) \in Nat
  BY <1>1, <1>2, FS_CardinalityType
<1> QED
  BY <1>1, <1>2, <1>3, <1>4, <1>5

\* A set of symbols is finite.
LEMMA FinitePart ==
    ASSUME NEW S, S \subseteq Symbols
    PROVE  IsFiniteSet(S) /\ Cardinality(S) \in Nat
BY SymbolsAssumption, PartOf

\* A verdict has its type, and only a fund certified today is given a compliant
\* one by its certification.
LEMMA VerdictType ==
    ASSUME TypeOK, NEW s \in Symbols
    PROVE  /\ Verdict(s) \in Screens
           /\ Verdict(s).day = day
           /\ Verdict(s).status = "compliant" => Certifies(file[s])
<1>1. day \in Days
  BY IntervalAssumption, BoundsAssumption DEF TypeOK, Days, FirstDay
<1>2. StockVerdict(file[s]) \in {"unknown", "doubtful", "non_compliant"}
  BY DEF StockVerdict
<1>3. setup.fallback # "none" => setup.fallback \in Sources
  BY FallbacksAssumption DEF TypeOK, Setups, Sources
<1>4. Certifies(file[s]) => file[s].listed
  BY DEF Certifies
<1> QED
  BY <1>1, <1>2, <1>3, <1>4 DEF Verdict, Screens, Verdicts, Sources

\* What screening a symbol today gives: compliant by certification only if the file is recent.
LEMMA ScreenedFacts ==
    ASSUME TypeOK, FreshInv, NEW s \in Symbols
    PROVE  /\ Screened(s) \in Screens
           /\ Screened(s).source = "fund_certification" /\ Screened(s).status = "compliant"
              => Screened(s).day <= certified[s]
           /\ Screened(s).status = "compliant" => day - certified[s] <= Interval
<1>1. CASE Reusable(s)
  <2>1. Screened(s) = screens[s] /\ screens[s] \in Screens
    BY <1>1 DEF Screened, TypeOK
  <2>2. screens[s].day \in Nat /\ certified[s] \in Nat /\ day \in Nat
    BY <2>1, IntervalAssumption, BoundsAssumption DEF TypeOK, Screens, Days, FirstDay
  <2> QED
    BY <1>1, <2>1, <2>2, IntervalAssumption DEF Reusable, FreshInv
<1>2. CASE ~Reusable(s)
  <2>1. Screened(s) = Verdict(s)
    BY <1>2 DEF Screened
  <2>2. certified[s] \in Nat /\ day \in Nat
    BY IntervalAssumption, BoundsAssumption DEF TypeOK, Days, FirstDay
  <2> QED
    BY <2>1, <2>2, VerdictType, IntervalAssumption DEF FreshInv
<1> QED
  BY <1>1, <1>2

\* So for a batch of symbols.
LEMMA ScreenAllFacts ==
    ASSUME TypeOK, FreshInv, NEW S, screens' = ScreenAll(S)
    PROVE  /\ screens' \in [Symbols -> Screens]
           /\ \A s \in Symbols :
                 screens'[s].source = "fund_certification" /\ screens'[s].status = "compliant"
                 => screens'[s].day <= certified[s]
<1>1. ASSUME NEW s \in Symbols
      PROVE  /\ screens'[s] \in Screens
             /\ screens'[s].source = "fund_certification" /\ screens'[s].status = "compliant"
                => screens'[s].day <= certified[s]
  <2>1. screens'[s] = Screened(s) \/ screens'[s] = screens[s]
    BY DEF ScreenAll
  <2>2. screens[s] \in Screens
    BY DEF TypeOK
  <2> QED
    BY <2>1, <2>2, ScreenedFacts DEF FreshInv
<1> QED
  BY <1>1 DEF ScreenAll
-----------------------------------------------------------------------------
(* The initial states.                                                     *)

\* The initial states satisfy the inductive invariant.
LEMMA InitIInv == Init => IInv
<1> SUFFICES ASSUME Init PROVE IInv
  OBVIOUS
<1>1. FirstDay \in Days /\ 0 \in Days /\ FirstDay \in FirstDay .. FirstDay + MaxDays
  BY IntervalAssumption, BoundsAssumption DEF Days, FirstDay
<1>2. TypeOK
  <2>1. \A s \in Symbols : screens[s] \in Screens
    BY <1>1 DEF Init, NoScreen, Screens, Verdicts, Sources
  <2>2. certified \in [Symbols -> Days]
    BY <1>1 DEF Init
  <2>3. file \in [Symbols -> Entries] /\ screens \in [Symbols -> Screens]
    BY <2>1 DEF Init, Files
  <2>4. /\ 0 \in 0 .. MaxReloads /\ 0 \in 0 .. MaxPerWeek /\ 0 \in 0 .. MaxLost
    BY BoundsAssumption, LimitsAssumption
  <2> QED
    BY <1>1, <2>2, <2>3, <2>4 DEF Init, TypeOK, Idle
<1>3. SlotsInv
  <2>1. Strays = {} /\ held \cup working = {} /\ bought = {} /\ cycle.todo = {}
    BY DEF Init, Strays, Idle
  <2>2. Cardinality({}) = 0
    BY FS_EmptySet
  <2> QED
    BY <2>1, <2>2, LimitsAssumption DEF Init, SlotsInv, OpenPositionsBounded
<1>4. FreshInv
  <2>1. FirstDay \in Nat /\ 0 <= FirstDay
    BY IntervalAssumption DEF FirstDay
  <2>2. \A s \in Symbols :
           ~(screens[s].source = "fund_certification" /\ screens[s].status = "compliant")
    BY DEF Init, NoScreen
  <2>3. \A s \in Symbols : certified[s] = IF Certifies(file[s]) THEN FirstDay ELSE 0
    BY DEF Init
  <2> QED
    BY <2>1, <2>2, <2>3 DEF Init, FreshInv, Idle
<1> QED
  BY <1>2, <1>3, <1>4 DEF IInv
-----------------------------------------------------------------------------
(* The types.                                                              *)

\* Every step keeps the types, action by action.
LEMMA StepTypeOK ==
    ASSUME TypeOK, FreshInv, [Next]_vars
    PROVE  TypeOK'
<1> USE DEF TypeOK
<1>1. ASSUME CycleWithoutEntries PROVE TypeOK'
  <2>1. screens' \in [Symbols -> Screens]
    BY <1>1, ScreenAllFacts DEF CycleWithoutEntries
  <2> QED
    BY <1>1, <2>1 DEF CycleWithoutEntries, SellSome
<1>2. ASSUME BeginCycle PROVE TypeOK'
  <2>1. screens' \in [Symbols -> Screens]
    BY <1>2, ScreenAllFacts DEF BeginCycle
  <2>2. held' \subseteq Symbols /\ working' \subseteq Symbols
    BY <1>2 DEF BeginCycle, SellSome
  <2>3. cycle' \in [positions : SUBSET Symbols, todo : SUBSET Symbols]
    BY <1>2, <2>2 DEF BeginCycle
  <2> QED
    BY <1>2, <2>1, <2>2, <2>3 DEF BeginCycle
<1>3. ASSUME EndCycle PROVE TypeOK'
  BY <1>3 DEF EndCycle, Idle
<1>4. ASSUME NextDay PROVE TypeOK'
  <2>1. day + 1 \in Days /\ day + 1 \in FirstDay .. FirstDay + MaxDays
    BY <1>4, IntervalAssumption, BoundsAssumption DEF NextDay, Days, FirstDay
  <2>2. certified' \in [Symbols -> Days]
    BY <1>4, <2>1 DEF NextDay, Recertify
  <2> QED
    BY <1>4, <2>1, <2>2 DEF NextDay, Idle
<1>5. ASSUME Reload PROVE TypeOK'
  <2>1. day \in Days
    BY IntervalAssumption, BoundsAssumption DEF Days, FirstDay
  <2>2. certified' \in [Symbols -> Days]
    BY <1>5, <2>1 DEF Reload, Recertify
  <2>3. file' \in [Symbols -> Entries] /\ reloads' \in 0 .. MaxReloads
    BY <1>5, BoundsAssumption DEF Reload, Files
  <2> QED
    BY <1>5, <2>2, <2>3 DEF Reload, Idle
<1>6. ASSUME NEW s \in Symbols, Judge(s) PROVE TypeOK'
  <2>1. ASSUME Considered(s)
        PROVE  cycle' \in [positions : SUBSET Symbols, todo : SUBSET Symbols]
    BY <2>1 DEF Considered
  <2>2. CASE Refuse(s)
    BY <2>1, <2>2 DEF Refuse
  <2>3. CASE Place(s)
    <3>1. week + 1 \in 0 .. MaxPerWeek
      BY <2>3, LimitsAssumption DEF Place, Submits, Approved
    <3> QED
      BY <2>1, <2>3, <3>1 DEF Place
  <2>4. CASE PlaceUnheard(s)
    <3>1. lost + 1 \in 0 .. MaxLost
      BY <2>4, BoundsAssumption DEF PlaceUnheard
    <3> QED
      BY <2>1, <2>4, <3>1 DEF PlaceUnheard
  <2>5. CASE PlaceRejected(s)
    BY <2>1, <2>5 DEF PlaceRejected
  <2> QED
    BY <1>6, <2>2, <2>3, <2>4, <2>5 DEF Judge
<1>7. ASSUME NEW s \in Symbols, Fill(s) PROVE TypeOK'
  BY <1>7 DEF Fill
<1>8. ASSUME NEW s \in Symbols, Leave(s) PROVE TypeOK'
  BY <1>8 DEF Leave
<1>9. CASE UNCHANGED vars
  BY <1>9 DEF vars
<1> QED
  BY <1>1, <1>2, <1>3, <1>4, <1>5, <1>6, <1>7, <1>8, <1>9 DEF Next
-----------------------------------------------------------------------------
(* The bound on open positions.                                            *)

\* A step that adds no order, no trade of the day and no stray keeps the bound.
LEMMA NothingAdded ==
    ASSUME TypeOK, TypeOK', SlotsInv, lost' = lost,
           Strays' \subseteq Strays, bought' \subseteq bought,
           cycle'.todo # {} => Cardinality(cycle'.positions) < MaxOpen,
           held' \cup working' \subseteq held \cup working
    PROVE  SlotsInv'
<1>1. Strays \subseteq Symbols /\ held \cup working \subseteq Symbols /\ bought \subseteq Symbols
  BY DEF TypeOK, Strays
<1>2. /\ Cardinality(Strays') <= Cardinality(Strays)
      /\ Cardinality(Strays') \in Nat /\ Cardinality(Strays) \in Nat
  BY <1>1, FinitePart, PartOf
<1>3. /\ Cardinality(bought') <= Cardinality(bought)
      /\ Cardinality(bought') \in Nat /\ Cardinality(bought) \in Nat
  BY <1>1, FinitePart, PartOf
<1>4. /\ Cardinality(held' \cup working') <= Cardinality(held \cup working)
      /\ Cardinality(held' \cup working') \in Nat /\ Cardinality(held \cup working) \in Nat
  BY <1>1, FinitePart, PartOf
<1>5. lost \in Nat /\ MaxOpen \in Nat /\ MaxPerDay \in Nat
  BY LimitsAssumption, BoundsAssumption DEF TypeOK
<1> QED
  BY <1>2, <1>3, <1>4, <1>5 DEF SlotsInv, OpenPositionsBounded

\* An order that is placed takes a slot of the snapshot, a trade of the day or a
\* lost answer.
LEMMA PlacingKeepsSlots ==
    ASSUME TypeOK, TypeOK', SlotsInv, NEW s \in Symbols, Place(s) \/ PlaceUnheard(s)
    PROVE  SlotsInv'
<1>1. /\ s \in cycle.todo /\ Cardinality(cycle.positions) < MaxOpen
      /\ Cardinality(bought) < MaxPerDay
  BY DEF Place, PlaceUnheard, Submits, Approved
<1>2. held' = held /\ working' = working \cup {s} /\ cycle'.positions = cycle.positions
  BY DEF Place, PlaceUnheard, Considered, TypeOK
<1>3. /\ Strays \subseteq Symbols /\ bought \subseteq Symbols
      /\ Strays' \subseteq Symbols /\ bought' \subseteq Symbols
      /\ cycle.positions \subseteq Symbols
  BY DEF TypeOK, Strays
<1>4. lost \in Nat /\ MaxOpen \in Nat /\ MaxPerDay \in Nat
  BY LimitsAssumption, BoundsAssumption DEF TypeOK
<1>5. lost' \in Nat /\ Cardinality(bought') <= MaxPerDay
  <2>1. bought' \subseteq bought \cup {s} /\ lost' \in {lost, lost + 1}
    BY DEF Place, PlaceUnheard
  <2>2. /\ Cardinality(bought') <= Cardinality(bought) + 1
        /\ Cardinality(bought') \in Nat /\ Cardinality(bought) \in Nat
    BY <1>3, <2>1, FinitePart, OneMore
  <2> QED
    BY <1>1, <1>4, <2>1, <2>2
<1>6. PICK T \in SUBSET Symbols :
         /\ Cardinality(T) <= lost'
         /\ Strays' \subseteq T
         /\ held' \cup working' \subseteq cycle.positions \cup bought' \cup T
  <2>1. held \cup working \subseteq cycle.positions \cup bought \cup Strays
    BY <1>1 DEF Strays
  <2>2. CASE Place(s)
    <3>1. bought' = bought \cup {s} /\ lost' = lost
      BY <2>2 DEF Place
    <3>2. Strays' \subseteq Strays
      BY <1>1, <1>2, <3>1 DEF Strays
    <3>3. held' \cup working' \subseteq cycle.positions \cup bought' \cup Strays
      BY <1>2, <2>1, <3>1
    <3> QED
      BY <1>3, <3>1, <3>2, <3>3 DEF SlotsInv
  <2>3. CASE PlaceUnheard(s)
    <3>1. bought' = bought /\ lost' = lost + 1
      BY <2>3 DEF PlaceUnheard
    <3>2. Strays' \subseteq Strays \cup {s}
      BY <1>1, <1>2, <3>1 DEF Strays
    <3>3. held' \cup working' \subseteq cycle.positions \cup bought' \cup (Strays \cup {s})
      BY <1>2, <2>1, <3>1
    <3>4. /\ Cardinality(Strays \cup {s}) <= Cardinality(Strays) + 1
          /\ Cardinality(Strays \cup {s}) \in Nat /\ Cardinality(Strays) \in Nat
      BY <1>3, FinitePart, OneMore
    <3>5. Cardinality(Strays \cup {s}) <= lost'
      BY <1>4, <3>1, <3>4 DEF SlotsInv
    <3> QED
      BY <1>3, <3>2, <3>3, <3>5
  <2> QED
    BY <2>2, <2>3
<1>7. /\ Cardinality(Strays') <= Cardinality(T)
      /\ Cardinality(Strays') \in Nat /\ Cardinality(T) \in Nat
  BY <1>6, FinitePart, PartOf
<1>8. OpenPositionsBounded'
  <2>1. /\ Cardinality(held' \cup working')
             <= Cardinality(cycle.positions) + Cardinality(bought') + Cardinality(T)
        /\ Cardinality(held' \cup working') \in Nat
        /\ Cardinality(cycle.positions) \in Nat /\ Cardinality(bought') \in Nat
    BY <1>3, <1>6, FinitePart, ThreeParts
  <2> QED
    BY <1>1, <1>4, <1>5, <1>6, <1>7, <2>1 DEF OpenPositionsBounded
<1> QED
  BY <1>1, <1>2, <1>5, <1>6, <1>7, <1>8 DEF SlotsInv
-----------------------------------------------------------------------------
\* Every step keeps the count of slots within the day's trades and the lost answers.
LEMMA StepSlotsInv ==
    ASSUME TypeOK, TypeOK', SlotsInv, [Next]_vars
    PROVE  SlotsInv'
<1>1. ASSUME CycleWithoutEntries PROVE SlotsInv'
  <2>1. held' \subseteq held /\ UNCHANGED <<working, bought, cycle, lost>>
    BY <1>1 DEF CycleWithoutEntries, SellSome
  <2> QED
    BY <2>1, NothingAdded DEF Strays, SlotsInv
<1>2. ASSUME BeginCycle PROVE SlotsInv'
  <2>1. /\ held' \subseteq held /\ working' \subseteq working
        /\ bought' = bought /\ lost' = lost
        /\ cycle'.positions = held' /\ Cardinality(held') < MaxOpen
    BY <1>2 DEF BeginCycle, SellSome
  <2>2. Strays' \subseteq Strays
    BY <2>1 DEF Strays
  <2> QED
    BY <2>1, <2>2, NothingAdded
<1>3. ASSUME EndCycle PROVE SlotsInv'
  <2>1. cycle'.todo = {} /\ UNCHANGED <<held, working, bought, lost>>
    BY <1>3 DEF EndCycle, Idle
  <2> QED
    BY <2>1, NothingAdded DEF Strays
<1>4. ASSUME NextDay PROVE SlotsInv'
  <2>1. cycle'.todo = {} /\ working' = {} /\ bought' = {} /\ UNCHANGED <<held, lost>>
    BY <1>4 DEF NextDay, Idle
  <2> QED
    BY <2>1, NothingAdded DEF Strays
<1>5. ASSUME Reload PROVE SlotsInv'
  <2>1. cycle'.todo = {} /\ UNCHANGED <<held, working, bought, lost>>
    BY <1>5 DEF Reload, Idle
  <2> QED
    BY <2>1, NothingAdded DEF Strays
<1>6. ASSUME NEW s \in Symbols, Judge(s) PROVE SlotsInv'
  <2>1. CASE Place(s) \/ PlaceUnheard(s)
    BY <2>1, PlacingKeepsSlots
  <2>2. CASE Refuse(s) \/ PlaceRejected(s)
    <3>1. /\ UNCHANGED <<held, working, bought, lost>>
          /\ s \in cycle.todo /\ cycle'.positions = cycle.positions
      BY <2>2 DEF Refuse, PlaceRejected, Submits, Considered, TypeOK
    <3> QED
      BY <3>1, NothingAdded DEF Strays, SlotsInv
  <2> QED
    BY <1>6, <2>1, <2>2 DEF Judge
<1>7. ASSUME NEW s \in Symbols, Fill(s) PROVE SlotsInv'
  <2>1. /\ s \in working /\ working' = working \ {s} /\ held' = held \cup {s}
        /\ UNCHANGED <<bought, lost, cycle>>
    BY <1>7 DEF Fill
  <2> QED
    BY <2>1, NothingAdded DEF Strays, SlotsInv
<1>8. ASSUME NEW s \in Symbols, Leave(s) PROVE SlotsInv'
  <2>1. held' \subseteq held /\ UNCHANGED <<working, bought, cycle, lost>>
    BY <1>8 DEF Leave
  <2> QED
    BY <2>1, NothingAdded DEF Strays, SlotsInv
<1>9. ASSUME UNCHANGED vars PROVE SlotsInv'
  BY <1>9, NothingAdded DEF vars, Strays, SlotsInv
<1> QED
  BY <1>1, <1>2, <1>3, <1>4, <1>5, <1>6, <1>7, <1>8, <1>9 DEF Next
-----------------------------------------------------------------------------
(* Certifications, verdicts and candidates.                                *)

\* A step that leaves the day and the file alone and adds no candidate.
LEMMA SameEvidence ==
    ASSUME FreshInv, UNCHANGED <<day, file, screens, certified>>,
           cycle'.todo \subseteq cycle.todo
    PROVE  FreshInv'
<1>1. \A s \in Symbols : Certifies(file[s])' = Certifies(file[s])
  BY DEF Certifies
<1> QED
  BY <1>1 DEF FreshInv

\* A certification of the file that is loaded is never older than the last one.
LEMMA RecertifyFacts ==
    ASSUME TypeOK, FreshInv, NEW f, NEW d \in Nat, day <= d, NEW s \in Symbols
    PROVE  /\ Recertify(f, d)[s] \in Nat
           /\ certified[s] <= Recertify(f, d)[s] /\ Recertify(f, d)[s] <= d
           /\ Certifies(f[s]) => Recertify(f, d)[s] = d
<1>1. certified[s] \in Nat /\ day \in Nat /\ certified[s] <= day
  BY IntervalAssumption, BoundsAssumption DEF TypeOK, Days, FirstDay, FreshInv
<1> QED
  BY <1>1 DEF Recertify

\* Every step keeps what the screens say of the certifications.
LEMMA StepFreshInv ==
    ASSUME TypeOK, FreshInv, [Next]_vars
    PROVE  FreshInv'
<1> DEFINE Backed(s) ==
    screens[s].source = "fund_certification" /\ screens[s].status = "compliant"
    => screens[s].day <= certified[s]
<1>1. ASSUME CycleWithoutEntries PROVE FreshInv'
  <2>1. \A s \in Symbols : Backed(s)'
    BY <1>1, ScreenAllFacts DEF CycleWithoutEntries
  <2>2. UNCHANGED <<day, file, certified, cycle>>
    BY <1>1 DEF CycleWithoutEntries
  <2>3. \A s \in Symbols : Certifies(file[s])' = Certifies(file[s])
    BY <2>2 DEF Certifies
  <2> QED
    BY <2>1, <2>2, <2>3 DEF FreshInv
<1>2. ASSUME BeginCycle PROVE FreshInv'
  <2>1. \A s \in Symbols : Backed(s)'
    BY <1>2, ScreenAllFacts DEF BeginCycle
  <2>2. UNCHANGED <<day, file, certified>>
    BY <1>2 DEF BeginCycle
  <2>3. \A s \in Symbols : Certifies(file[s])' = Certifies(file[s])
    BY <2>2 DEF Certifies
  <2>4. ASSUME NEW s \in cycle'.todo
        PROVE  /\ file[s].listed /\ file[s].verified /\ ~file[s].forbidden
               /\ day - certified[s] <= Interval
    <3>1. s \in Symbols /\ Included(s)
      BY <1>2 DEF BeginCycle
    <3> QED
      BY <3>1, ScreenedFacts DEF Included, ReachesScreening
  <2> QED
    BY <2>1, <2>2, <2>3, <2>4 DEF FreshInv
<1>3. ASSUME EndCycle PROVE FreshInv'
  BY <1>3, SameEvidence DEF EndCycle, Idle
<1>4. ASSUME NextDay PROVE FreshInv'
  <2>1. day \in Nat /\ day + 1 \in Nat /\ day <= day + 1
    BY IntervalAssumption, BoundsAssumption DEF TypeOK, FirstDay
  <2>2. /\ day' = day + 1 /\ certified' = Recertify(file, day + 1)
        /\ UNCHANGED <<file, screens>> /\ cycle'.todo = {}
    BY <1>4 DEF NextDay, Idle
  <2>3. ASSUME NEW s \in Symbols
        PROVE  /\ certified'[s] <= day'
               /\ Certifies(file'[s]) => certified'[s] = day'
               /\ Backed(s)'
    <3>1. screens[s].day \in Nat /\ certified[s] \in Nat
      BY IntervalAssumption, BoundsAssumption DEF TypeOK, Screens, Days, FirstDay
    <3> QED
      BY <2>1, <2>2, <3>1, RecertifyFacts DEF FreshInv
  <2> QED
    BY <2>2, <2>3 DEF FreshInv
<1>5. ASSUME Reload PROVE FreshInv'
  <2>1. day \in Nat /\ day <= day
    BY IntervalAssumption, BoundsAssumption DEF TypeOK, FirstDay
  <2>2. /\ certified' = Recertify(file', day)
        /\ UNCHANGED <<day, screens>> /\ cycle'.todo = {}
    BY <1>5 DEF Reload, Idle
  <2>3. ASSUME NEW s \in Symbols
        PROVE  /\ certified'[s] <= day'
               /\ Certifies(file'[s]) => certified'[s] = day'
               /\ Backed(s)'
    <3>1. screens[s].day \in Nat /\ certified[s] \in Nat
      BY IntervalAssumption, BoundsAssumption DEF TypeOK, Screens, Days, FirstDay
    <3> QED
      BY <2>1, <2>2, <3>1, RecertifyFacts DEF FreshInv
  <2> QED
    BY <2>2, <2>3 DEF FreshInv
<1>6. ASSUME NEW s \in Symbols, Judge(s) PROVE FreshInv'
  <2>1. UNCHANGED <<day, file, screens, certified>> /\ Considered(s)
    BY <1>6 DEF Judge, Refuse, Place, PlaceUnheard, PlaceRejected
  <2>2. cycle'.todo \subseteq cycle.todo
    BY <2>1 DEF Considered, TypeOK
  <2> QED
    BY <2>1, <2>2, SameEvidence
<1>7. ASSUME NEW s \in Symbols, Fill(s) PROVE FreshInv'
  BY <1>7, SameEvidence DEF Fill
<1>8. ASSUME NEW s \in Symbols, Leave(s) PROVE FreshInv'
  BY <1>8, SameEvidence DEF Leave
<1>9. ASSUME UNCHANGED vars PROVE FreshInv'
  BY <1>9, SameEvidence DEF vars
<1> QED
  BY <1>1, <1>2, <1>3, <1>4, <1>5, <1>6, <1>7, <1>8, <1>9 DEF Next

\* The three parts together.
LEMMA StepIInv == IInv /\ [Next]_vars => IInv'
<1> SUFFICES ASSUME IInv, [Next]_vars PROVE IInv'
  OBVIOUS
<1>1. TypeOK'
  BY StepTypeOK DEF IInv
<1>2. SlotsInv'
  BY <1>1, StepSlotsInv DEF IInv
<1>3. FreshInv'
  BY StepFreshInv DEF IInv
<1> QED
  BY <1>1, <1>2, <1>3 DEF IInv

\* The inductive invariant holds in every reachable state.
LEMMA DeskInvariant == Spec => []IInv
BY InitIInv, StepIInv, PTL DEF Spec
-----------------------------------------------------------------------------
(* The theorems.                                                           *)

\* Every variable stays within its range: the keys cover the day's trades, and
\* neither the week's trades nor the lost answers exceed their limits.
THEOREM DeskTypes == Spec => []TypeOK
<1>1. IInv => TypeOK
  BY DEF IInv
<1> QED
  BY <1>1, DeskInvariant, PTL

\* Positions and working orders exceed max_open_positions by no more than the
\* day's trades and the answers lost, whatever a cycle's snapshot misses.
THEOREM DeskIsBounded == Spec => []OpenPositionsBounded
<1>1. IInv => OpenPositionsBounded
  BY DEF IInv, SlotsInv
<1> QED
  BY <1>1, DeskInvariant, PTL

\* Only what the file certified within the rescreening interval is bought,
\* across restarts, edits of the file and changes of the provider.
THEOREM DeskBuysFreshlyCertified == Spec => BoughtOnFreshCertification
<1> DEFINE Fresh ==
    \A s \in working' \ working :
       /\ file[s].listed /\ file[s].verified /\ ~file[s].forbidden
       /\ day - certified[s] <= Interval
<1>1. IInv /\ [Next]_vars => [Fresh]_vars
  <2> SUFFICES ASSUME IInv, [Next]_vars, NEW s \in working' \ working
               PROVE  /\ file[s].listed /\ file[s].verified /\ ~file[s].forbidden
                      /\ day - certified[s] <= Interval
    OBVIOUS
  <2>1. s \in cycle.todo
    BY DEF Next, vars, CycleWithoutEntries, BeginCycle, EndCycle, NextDay, Reload,
           Judge, Refuse, Place, PlaceUnheard, PlaceRejected, Submits, Fill, Leave
  <2> QED
    BY <2>1 DEF IInv, FreshInv
<1> QED
  BY <1>1, DeskInvariant, PTL DEF Spec, BoughtOnFreshCertification
=============================================================================
