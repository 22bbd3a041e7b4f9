------------------------- MODULE MessageQueue_proofs -------------------------
(***************************************************************************)
(* Proofs about MessageQueue.tla for any limit, number of attempts and set *)
(* of priorities: through retries, sheds, stops and restarts no message is *)
(* lost silently or held twice, memory is bounded, and what is served and  *)
(* what is shed is chosen by priority.                                     *)
(***************************************************************************)
EXTENDS MessageQueue, FiniteSetTheorems, TLAPS

-----------------------------------------------------------------------------
(* Least and greatest elements.                                            *)

\* A set of naturals that is not empty has a least element ...
LEMMA Least ==
    ASSUME NEW T, T \subseteq Nat, T # {}
    PROVE  \E x \in T : \A y \in T : x <= y
<1> DEFINE Upto(x) == {y \in T : y <= x}
<1> DEFINE F == {Upto(x) : x \in T}
<1>1. \A x \in T : IsFiniteSet(Upto(x))
  <2> TAKE x \in T
  <2> QED
    BY FS_BoundedSetOfNaturals
<1>2. F \subseteq FiniteSubsetsOf(Nat)
  BY <1>1 DEF FiniteSubsetsOf
<1>3. F # {}
  OBVIOUS
<1>4. IsWellFoundedOn(StrictSubsetOrdering(Nat), FiniteSubsetsOf(Nat))
  BY FS_StrictSubsetOrderingWellFounded
<1> HIDE DEF F
<1>5. PICK A \in F : \A B \in F : <<B, A>> \notin StrictSubsetOrdering(Nat)
  BY <1>2, <1>3, <1>4, WFMin
<1> USE DEF F
<1>6. PICK x \in T : A = Upto(x)
  OBVIOUS
<1>7. ASSUME NEW y \in T, y < x PROVE FALSE
  <2>0. x \in Nat /\ y \in Nat /\ y < x
    BY <1>7
  <2>1. x \in A /\ x \notin Upto(y)
    BY <1>6, <2>0
  <2>2. \A z \in Nat : z <= y => z <= x
    BY <2>0
  <2>3. Upto(y) \subseteq A /\ A \subseteq Nat
    BY <1>6, <2>2
  <2>4. Upto(y) \in F
    OBVIOUS
  <2> HIDE DEF Upto, F
  <2>5. <<Upto(y), A>> \in StrictSubsetOrdering(Nat)
    BY <2>1, <2>3 DEF StrictSubsetOrdering
  <2> QED
    BY <1>5, <2>4, <2>5
<1>8. \A y \in T : y \in Nat /\ x \in Nat
  OBVIOUS
<1> QED
  BY <1>7, <1>8

\* ... and, when it is bounded, a greatest.
LEMMA Greatest ==
    ASSUME NEW n \in Nat, NEW T, T \subseteq 1 .. n, T # {}
    PROVE  \E x \in T : \A y \in T : x >= y
<1> DEFINE R == {d \in Nat : n - d \in T}
<1>1. \A x \in T : x \in Nat /\ n - x \in Nat /\ n - (n - x) = x
  OBVIOUS
<1>2. R \subseteq Nat /\ R # {}
  BY <1>1
<1> HIDE DEF R
<1>3. PICK d \in R : \A e \in R : d <= e
  BY <1>2, Least
<1> USE DEF R
<1>4. \A y \in T : n - y \in R
  BY <1>1
<1>5. \A y \in T : d <= n - y
  BY <1>3, <1>4
<1>6. n - d \in T /\ d \in Nat
  BY <1>3
<1>7. \A y \in T : n - d >= y
  BY <1>1, <1>5, <1>6
<1> QED
  BY <1>6, <1>7

\* What Min and Max of the community modules choose.
LEMMA MinIsLeast ==
    ASSUME NEW T, T \subseteq Nat, T # {}
    PROVE  Min(T) \in T /\ \A y \in T : Min(T) <= y
BY Least DEF Min

\* The same of the greatest, as the community modules choose it.
LEMMA MaxIsGreatest ==
    ASSUME NEW n \in Nat, NEW T, T \subseteq 1 .. n, T # {}
    PROVE  Max(T) \in T /\ \A y \in T : Max(T) >= y
BY Greatest DEF Max

-----------------------------------------------------------------------------
(* Insertion into and removal from a sequence, index by index.             *)

InsertedAt(q, r, k, e) ==
    /\ Len(r) = Len(q) + 1
    /\ \A j \in 1 .. Len(r) : r[j] = IF j < k THEN q[j] ELSE IF j = k THEN e ELSE q[j - 1]

RemovedAt(q, r, k) ==
    /\ Len(r) = Len(q) - 1
    /\ \A j \in 1 .. Len(r) : r[j] = IF j < k THEN q[j] ELSE q[j + 1]

\* What the operators on sequences do to the positions.
LEMMA InsertAtInserts ==
    ASSUME NEW S, NEW q \in Seq(S), NEW e \in S, NEW k \in 1 .. Len(q)
    PROVE  InsertAt(q, k, e) \in Seq(S) /\ InsertedAt(q, InsertAt(q, k, e), k, e)
<1>1. InsertAt(q, k, e) \in Seq(S) /\ Len(InsertAt(q, k, e)) = Len(q) + 1
  BY DEF InsertAt
<1>2. ASSUME NEW j \in 1 .. Len(q) + 1, j < k PROVE InsertAt(q, k, e)[j] = q[j]
  BY <1>2 DEF InsertAt
<1>3. InsertAt(q, k, e)[k] = e
  BY DEF InsertAt
<1>4. ASSUME NEW j \in 1 .. Len(q) + 1, j > k PROVE InsertAt(q, k, e)[j] = q[j - 1]
  BY <1>4 DEF InsertAt
<1> QED
  BY <1>1, <1>2, <1>3, <1>4 DEF InsertedAt

\* Appending inserts at the end.
LEMMA AppendInserts ==
    ASSUME NEW S, NEW q \in Seq(S), NEW e \in S
    PROVE  Append(q, e) \in Seq(S) /\ InsertedAt(q, Append(q, e), Len(q) + 1, e)
BY DEF InsertedAt

\* The entries of two sequences in a row.
LEMMA ConcatIndex ==
    ASSUME NEW S, NEW a \in Seq(S), NEW c \in Seq(S)
    PROVE  /\ a \o c \in Seq(S) /\ Len(a \o c) = Len(a) + Len(c)
           /\ \A j \in 1 .. Len(a) + Len(c) :
                 (a \o c)[j] = IF j <= Len(a) THEN a[j] ELSE c[j - Len(a)]
OBVIOUS

\* RemoveAt and Tail remove one entry and keep the order of the others.
LEMMA RemoveAtRemoves ==
    ASSUME NEW S, NEW q \in Seq(S), NEW k \in 1 .. Len(q)
    PROVE  RemoveAt(q, k) \in Seq(S) /\ RemovedAt(q, RemoveAt(q, k), k)
<1> DEFINE a == SubSeq(q, 1, k - 1)
           c == SubSeq(q, k + 1, Len(q))
           r == RemoveAt(q, k)
<1>1. a \in Seq(S)
  OBVIOUS
<1>2. c \in Seq(S)
  OBVIOUS
<1>3. Len(a) = k - 1 /\ \A j \in 1 .. k - 1 : a[j] = q[j]
  OBVIOUS
<1>4. Len(c) = Len(q) - k /\ \A j \in 1 .. Len(q) - k : c[j] = q[j + k]
  OBVIOUS
<1>5. r = a \o c
  BY DEF RemoveAt
<1> HIDE DEF a, c, r
<1>6. /\ r \in Seq(S) /\ Len(r) = Len(a) + Len(c)
      /\ \A j \in 1 .. Len(a) + Len(c) : r[j] = IF j <= Len(a) THEN a[j] ELSE c[j - Len(a)]
  <2>1. /\ a \o c \in Seq(S) /\ Len(a \o c) = Len(a) + Len(c)
        /\ \A j \in 1 .. Len(a) + Len(c) :
              (a \o c)[j] = IF j <= Len(a) THEN a[j] ELSE c[j - Len(a)]
    BY <1>1, <1>2, ConcatIndex, Zenon
  <2> QED
    BY <1>5, <2>1, Zenon
<1>7. Len(r) = Len(q) - 1 /\ \A j \in 1 .. Len(q) - 1 : j < k => r[j] = q[j]
  BY <1>3, <1>4, <1>6
<1>8. ASSUME NEW j \in 1 .. Len(q) - 1, j >= k PROVE r[j] = q[j + 1]
  <2>1. r[j] = c[j - (k - 1)]
    <3>1. j \in 1 .. Len(a) + Len(c) /\ ~(j <= Len(a)) /\ Len(a) = k - 1
      BY <1>3, <1>4, <1>8
    <3>2. r[j] = c[j - Len(a)]
      BY <1>6, <3>1
    <3> QED
      BY <3>1, <3>2
  <2>2. c[j - (k - 1)] = q[j - (k - 1) + k]
    BY <1>4, <1>8
  <2> QED
    BY <2>1, <2>2
<1>9. r \in Seq(S) /\ RemovedAt(q, r, k)
  BY <1>6, <1>7, <1>8 DEF RemovedAt
<1> QED
  BY <1>9 DEF r

\* Taking the first message off.
LEMMA TailRemoves ==
    ASSUME NEW S, NEW q \in Seq(S), q # <<>>
    PROVE  Tail(q) \in Seq(S) /\ RemovedAt(q, Tail(q), 1) /\ Head(q) = q[1] /\ 1 \in 1 .. Len(q)
BY DEF RemovedAt

\* Where the elements are after an insertion.
LEMMA InsertionIndex ==
    ASSUME NEW S, NEW q \in Seq(S), NEW e, NEW k \in 1 .. Len(q) + 1,
           NEW T, NEW r \in Seq(T), InsertedAt(q, r, k, e)
    PROVE  /\ DOMAIN r = 1 .. Len(q) + 1 /\ DOMAIN q = 1 .. Len(q)
           /\ \A j \in 1 .. Len(q) : IF j < k THEN r[j] = q[j] ELSE r[j + 1] = q[j]
           /\ \A j \in 1 .. Len(q) + 1 :
                 \/ j < k /\ j \in 1 .. Len(q) /\ r[j] = q[j]
                 \/ j = k /\ r[j] = e
                 \/ j > k /\ j - 1 \in 1 .. Len(q) /\ r[j] = q[j - 1]
<1>1. /\ Len(q) \in Nat /\ Len(r) = Len(q) + 1
      /\ DOMAIN r = 1 .. Len(r) /\ DOMAIN q = 1 .. Len(q)
  BY DEF InsertedAt
<1>2. \A j \in 1 .. Len(q) + 1 : r[j] = IF j < k THEN q[j] ELSE IF j = k THEN e ELSE q[j - 1]
  BY <1>1 DEF InsertedAt
<1>3. ASSUME NEW j \in 1 .. Len(q) PROVE IF j < k THEN r[j] = q[j] ELSE r[j + 1] = q[j]
  <2>1. j \in 1 .. Len(q) + 1 /\ j + 1 \in 1 .. Len(q) + 1 /\ (j + 1) - 1 = j
    BY <1>1
  <2>2. CASE j < k
    BY <1>2, <2>1, <2>2
  <2>3. CASE ~(j < k)
    <3>1. ~(j + 1 < k) /\ j + 1 # k
      BY <1>1, <2>3
    <3> QED
      BY <1>2, <2>1, <2>3, <3>1
  <2> QED
    BY <2>2, <2>3
<1>4. ASSUME NEW j \in 1 .. Len(q) + 1
      PROVE  \/ j < k /\ j \in 1 .. Len(q) /\ r[j] = q[j]
             \/ j = k /\ r[j] = e
             \/ j > k /\ j - 1 \in 1 .. Len(q) /\ r[j] = q[j - 1]
  <2>1. CASE j < k
    <3>1. j \in 1 .. Len(q)
      BY <1>1, <2>1
    <3> QED
      BY <1>2, <2>1, <3>1
  <2>2. CASE j = k
    BY <1>2, <2>2
  <2>3. CASE j > k
    <3>1. j - 1 \in 1 .. Len(q) /\ ~(j < k) /\ j # k
      BY <1>1, <2>3
    <3> QED
      BY <1>2, <2>3, <3>1
  <2> QED
    BY <1>1, <2>1, <2>2, <2>3
<1> QED
  BY <1>1, <1>3, <1>4

Distinct(q) == \A i, j \in DOMAIN q : q[i] = q[j] => i = j

\* Which elements there are after an insertion, and after a removal.
LEMMA InsertionElements ==
    ASSUME NEW S, NEW q \in Seq(S), NEW e, NEW k \in 1 .. Len(q) + 1,
           NEW T, NEW r \in Seq(T), InsertedAt(q, r, k, e)
    PROVE  /\ ToSet(r) = ToSet(q) \cup {e}
           /\ Distinct(q) /\ e \notin ToSet(q) => Distinct(r)
<1>1. \A j \in 1 .. Len(q) : IF j < k THEN r[j] = q[j] ELSE r[j + 1] = q[j]
  BY InsertionIndex
<1>2. \A j \in 1 .. Len(q) + 1 :
         \/ j < k /\ j \in 1 .. Len(q) /\ r[j] = q[j]
         \/ j = k /\ r[j] = e
         \/ j > k /\ j - 1 \in 1 .. Len(q) /\ r[j] = q[j - 1]
  BY InsertionIndex
<1>3. DOMAIN r = 1 .. Len(q) + 1 /\ DOMAIN q = 1 .. Len(q)
  BY InsertionIndex
<1>4. ToSet(r) \subseteq ToSet(q) \cup {e}
  BY <1>2, <1>3 DEF ToSet
<1>5. e \in ToSet(r)
  BY <1>2, <1>3 DEF ToSet
<1>6. ASSUME NEW j \in 1 .. Len(q) PROVE q[j] \in ToSet(r)
  <2>1. j \in DOMAIN r /\ j + 1 \in DOMAIN r
    BY <1>3
  <2> QED
    BY <1>1, <2>1 DEF ToSet
<1>7. ToSet(q) \subseteq ToSet(r)
  BY <1>3, <1>6 DEF ToSet
<1>8. ASSUME Distinct(q), e \notin ToSet(q), NEW i \in DOMAIN r, NEW j \in DOMAIN r, r[i] = r[j]
      PROVE  i = j
  <2>1. \A l \in 1 .. Len(q) : q[l] # e
    BY <1>3, <1>8 DEF ToSet
  <2>2. \A l, m \in 1 .. Len(q) : q[l] = q[m] => l = m
    BY <1>3, <1>8 DEF Distinct
  <2> QED
    BY <1>2, <1>3, <1>8, <2>1, <2>2
<1> QED
  BY <1>4, <1>5, <1>7, <1>8 DEF Distinct

\* A removal takes away one element, and leaves no duplicates where there were none.
LEMMA RemovalElements ==
    ASSUME NEW S, NEW q \in Seq(S), NEW k \in 1 .. Len(q), Distinct(q),
           NEW r \in Seq(S), RemovedAt(q, r, k)
    PROVE  ToSet(r) = ToSet(q) \ {q[k]} /\ Distinct(r)
<1>1. \A j \in 1 .. Len(q) - 1 :
         \/ j < k /\ j \in 1 .. Len(q) /\ r[j] = q[j]
         \/ j >= k /\ j + 1 \in 1 .. Len(q) /\ r[j] = q[j + 1]
  BY DEF RemovedAt
<1>2. DOMAIN r = 1 .. Len(q) - 1 /\ DOMAIN q = 1 .. Len(q)
  BY DEF RemovedAt
<1>3. \A l, m \in 1 .. Len(q) : q[l] = q[m] => l = m
  BY <1>2 DEF Distinct
<1>4. Distinct(r)
  BY <1>1, <1>2, <1>3 DEF Distinct
<1>5. ASSUME NEW j \in DOMAIN r PROVE r[j] \in ToSet(q) /\ r[j] # q[k]
  BY <1>1, <1>2, <1>3 DEF ToSet
<1>6. ASSUME NEW j \in 1 .. Len(q), j # k PROVE q[j] \in ToSet(r)
  <2>1. CASE j < k
    <3>1. j \in DOMAIN r /\ r[j] = q[j]
      BY <1>1, <1>2, <2>1
    <3> QED
      BY <3>1 DEF ToSet
  <2>2. CASE j > k
    <3>1. j - 1 \in DOMAIN r /\ r[j - 1] = q[j]
      BY <1>1, <1>2, <2>2
    <3> QED
      BY <3>1 DEF ToSet
  <2> QED
    BY <1>6, <2>1, <2>2
<1>7. ToSet(r) \subseteq ToSet(q) \ {q[k]}
  BY <1>5 DEF ToSet
<1>8. ToSet(q) \ {q[k]} \subseteq ToSet(r)
  BY <1>2, <1>6 DEF ToSet
<1> QED
  BY <1>4, <1>7, <1>8
-----------------------------------------------------------------------------
(* The invariant, for given messages, queue and message in hand.           *)

Ordered(ms, q) ==
    \A i, j \in DOMAIN q : i < j =>
       /\ ms[q[i]].priority >= ms[q[j]].priority
       /\ (/\ ms[q[i]].priority = ms[q[j]].priority
           /\ ms[q[i]].attempts = 0
           /\ ms[q[j]].attempts = 0) => q[i] < q[j]

Tracked(ms, q, h) ==
    /\ Distinct(q)
    /\ h \notin ToSet(q)
    /\ \A m \in DOMAIN ms : ms[m].fate = "queued" <=> m \in ToSet(q) \cup {h}

Held(h) == IF h = Nobody THEN 0 ELSE 1

\* What no coroutine may break: every message has one place, they fit, and they
\* are in order.
Fit(ms, q, h) ==
    /\ ms \in Seq(Message)
    /\ q \in Seq(DOMAIN ms)
    /\ h \in {Nobody} \cup DOMAIN ms
    /\ Tracked(ms, q, h)
    /\ Len(q) + Held(h) <= MaxQueue + 1
    /\ Ordered(ms, q)

Awaits == {"off", "waiting", "throttled", "sending", "backoff"}

\* A message is held exactly while it is sent or about to be retried, and what
\* is about to be retried has failed, so that it may go behind its equals.
Working ==
    /\ worker \in Awaits
    /\ draining \in BOOLEAN
    /\ hand # Nobody <=> worker \in {"sending", "backoff"}
    /\ worker = "backoff" => messages[hand].attempts > 0

IInv == Fit(messages, pending, hand) /\ Working

\* What a sequence over S holds is in S.
LEMMA ElementOf == ASSUME NEW S, NEW q \in Seq(S), NEW i \in DOMAIN q PROVE q[i] \in S
OBVIOUS

\* Messages are numbered from one; nobody is not a message.
LEMMA Numbers ==
    ASSUME NEW ms \in Seq(Message)
    PROVE  /\ DOMAIN ms = 1 .. Len(ms) /\ Nobody \notin DOMAIN ms
           /\ \A m \in DOMAIN ms :
                 ms[m] \in Message /\ m \in Nat /\ ms[m].priority \in Nat /\ ms[m].attempts \in Nat
<1>1. \A m \in DOMAIN ms : ms[m] \in Message
  BY ElementOf
<1>2. ASSUME NEW n \in Message PROVE n.priority \in Nat /\ n.attempts \in Nat
  <2>1. n.priority \in Priorities /\ n.attempts \in 0 .. MaxAttempts
    BY DEF Message
  <2>2. Priorities \subseteq Nat
    BY QueueAssumption
  <2>3. n.priority \in Nat
    BY <2>1, <2>2
  <2>4. n.attempts \in Nat
    BY <2>1
  <2> QED
    BY <2>3, <2>4
<1>3. DOMAIN ms = 1 .. Len(ms)
  OBVIOUS
<1> QED
  BY <1>1, <1>2, <1>3 DEF Nobody

\* Taking a message out of its place keeps the order of the rest.
LEMMA RemovalOrdered ==
    ASSUME NEW S, NEW q \in Seq(S), NEW k \in 1 .. Len(q), NEW r \in Seq(S),
           RemovedAt(q, r, k), NEW ms, Ordered(ms, q)
    PROVE  Ordered(ms, r)
<1> DEFINE at(j) == IF j < k THEN j ELSE j + 1
<1>1. \A j \in DOMAIN r : at(j) \in DOMAIN q /\ r[j] = q[at(j)]
  BY DEF RemovedAt
<1>2. \A i, j \in DOMAIN r : i < j => at(i) < at(j)
  BY DEF RemovedAt
<1> HIDE DEF at
<1> QED
  BY <1>1, <1>2 DEF Ordered

\* So does putting one in behind its equals, if it failed before or is the newest.
LEMMA InsertionOrdered ==
    ASSUME NEW ms \in Seq(Message), NEW q \in Seq(DOMAIN ms), Ordered(ms, q),
           NEW e \in DOMAIN ms, NEW k \in 1 .. Len(q) + 1,
           NEW r \in Seq(DOMAIN ms), InsertedAt(q, r, k, e),
           \A j \in 1 .. k - 1 : ms[q[j]].priority >= ms[e].priority,
           k <= Len(q) => ms[q[k]].priority < ms[e].priority,
           ms[e].attempts > 0 \/ \A j \in DOMAIN q : q[j] < e
    PROVE  Ordered(ms, r)
<1> DEFINE P(m) == ms[m].priority
           A(m) == ms[m].attempts
<1>1. \A m \in DOMAIN ms : P(m) \in Nat /\ A(m) \in Nat /\ m \in Nat
  BY Numbers
<1>2. \A j \in 1 .. Len(q) : q[j] \in DOMAIN ms
  BY ElementOf
<1>3. \A i, j \in 1 .. Len(q) : i < j =>
         P(q[i]) >= P(q[j]) /\ (P(q[i]) = P(q[j]) /\ A(q[i]) = 0 /\ A(q[j]) = 0 => q[i] < q[j])
  <2> DOMAIN q = 1 .. Len(q)
    OBVIOUS
  <2> QED
    BY DEF Ordered
<1>4. /\ \A j \in 1 .. k - 1 : P(q[j]) >= P(e)
      /\ k <= Len(q) => P(q[k]) < P(e)
      /\ A(e) = 0 => \A j \in 1 .. Len(q) : q[j] < e
  BY <1>1
<1>5. ASSUME NEW j \in 1 .. Len(q) + 1
      PROVE  \/ j < k /\ j \in 1 .. Len(q) /\ r[j] = q[j]
             \/ j = k /\ r[j] = e
             \/ j > k /\ j - 1 \in 1 .. Len(q) /\ r[j] = q[j - 1]
  <2>1. Len(q) \in Nat /\ Len(r) = Len(q) + 1
    BY DEF InsertedAt
  <2>2. r[j] = IF j < k THEN q[j] ELSE IF j = k THEN e ELSE q[j - 1]
    BY <2>1 DEF InsertedAt
  <2>3. CASE j < k
    <3>1. j \in 1 .. Len(q)
      BY <2>1, <2>3
    <3> QED
      BY <2>2, <2>3, <3>1
  <2>4. CASE j = k
    BY <2>2, <2>4
  <2>5. CASE j > k
    <3>1. j - 1 \in 1 .. Len(q) /\ ~(j < k) /\ j # k
      BY <2>1, <2>5
    <3> QED
      BY <2>2, <2>5, <3>1
  <2> QED
    BY <2>1, <2>3, <2>4, <2>5
<1>6. DOMAIN r = 1 .. Len(q) + 1
  BY InsertionIndex
<1> HIDE DEF P, A
<1>7. ASSUME NEW j \in k .. Len(q) PROVE P(q[j]) < P(e)
  <2>1. j \in 1 .. Len(q) /\ k \in 1 .. Len(q) /\ (k < j \/ k = j)
    OBVIOUS
  <2>2. P(q[j]) \in Nat /\ P(q[k]) \in Nat /\ P(e) \in Nat
    BY <1>1, <1>2, <2>1
  <2>3. P(q[j]) <= P(q[k])
    BY <1>3, <2>1, <2>2
  <2>4. P(q[k]) < P(e)
    BY <1>4, <2>1
  <2> QED
    BY <2>2, <2>3, <2>4
<1>8. ASSUME NEW i \in 1 .. Len(q) + 1, NEW j \in 1 .. Len(q) + 1, i < j
      PROVE  P(r[i]) >= P(r[j]) /\ (P(r[i]) = P(r[j]) /\ A(r[i]) = 0 /\ A(r[j]) = 0 => r[i] < r[j])
  <2>1. CASE i = k
    <3>1. r[i] = e /\ j > k
      BY <1>5, <1>8, <2>1
    <3>2. j - 1 \in 1 .. Len(q) /\ r[j] = q[j - 1]
      BY <1>5, <3>1
    <3>3. j - 1 \in k .. Len(q)
      BY <3>1, <3>2
    <3>4. P(r[j]) < P(r[i]) /\ P(r[i]) \in Nat /\ P(r[j]) \in Nat
      BY <1>1, <1>2, <1>7, <3>1, <3>2, <3>3
    <3> QED
      BY <3>4
  <2>2. CASE j = k
    <3>1. r[j] = e
      BY <1>5, <2>2
    <3>2. i < k /\ i \in 1 .. k - 1
      BY <1>8, <2>2
    <3>3. i \in 1 .. Len(q) /\ r[i] = q[i]
      BY <1>5, <3>2
    <3>4. P(r[i]) >= P(r[j])
      BY <1>4, <3>1, <3>2, <3>3
    <3>5. A(r[j]) = 0 => r[i] < r[j]
      BY <1>4, <3>1, <3>3
    <3> QED
      BY <3>4, <3>5
  <2>3. CASE i # k /\ j # k
    <3>1. /\ IF i < k THEN i \in 1 .. Len(q) /\ r[i] = q[i]
                      ELSE i - 1 \in 1 .. Len(q) /\ r[i] = q[i - 1] /\ i > k
          /\ IF j < k THEN j \in 1 .. Len(q) /\ r[j] = q[j]
                      ELSE j - 1 \in 1 .. Len(q) /\ r[j] = q[j - 1] /\ j > k
      BY <1>5, <2>3
    <3> DEFINE l == IF i < k THEN i ELSE i - 1
               m == IF j < k THEN j ELSE j - 1
    <3>2. l \in 1 .. Len(q) /\ m \in 1 .. Len(q) /\ l < m
      BY <1>8, <2>3, <3>1
    <3>3. r[i] = q[l] /\ r[j] = q[m]
      BY <3>1
    <3> HIDE DEF l, m
    <3> QED
      BY <1>3, <3>2, <3>3
  <2> QED
    BY <2>1, <2>2, <2>3
<1> QED
  BY <1>6, <1>8 DEF Ordered, P, A

\* The order is about priorities and failures only.
LEMMA OrderedElsewhere ==
    ASSUME NEW S, NEW q \in Seq(S), NEW ms, NEW ns, Ordered(ms, q),
           \A m \in ToSet(q) : ns[m].priority = ms[m].priority /\ ns[m].attempts = ms[m].attempts
    PROVE  Ordered(ns, q)
BY DEF Ordered, ToSet
-----------------------------------------------------------------------------
(* What the coroutines do to messages, queue and hand.                     *)

\* The worker takes the first message.
LEMMA Taken ==
    ASSUME NEW ms, NEW q, Fit(ms, q, Nobody), q # <<>>
    PROVE  Fit(ms, Tail(q), Head(q)) /\ Head(q) # Nobody
<1>1. ms \in Seq(Message) /\ q \in Seq(DOMAIN ms) /\ Tracked(ms, q, Nobody) /\ Ordered(ms, q)
  BY DEF Fit
<1>2. /\ Tail(q) \in Seq(DOMAIN ms) /\ RemovedAt(q, Tail(q), 1)
      /\ Head(q) = q[1] /\ 1 \in 1 .. Len(q)
  BY <1>1, TailRemoves
<1>3. q[1] \in DOMAIN ms /\ q[1] # Nobody
  <2>1. q[1] \in DOMAIN ms
    BY <1>1, <1>2, ElementOf
  <2> QED
    BY <1>1, <2>1, Numbers
<1>4. ToSet(Tail(q)) = ToSet(q) \ {q[1]} /\ Distinct(Tail(q))
  BY <1>1, <1>2, RemovalElements DEF Tracked
<1>5. q[1] \in ToSet(q)
  BY <1>1, <1>2 DEF ToSet
<1>6. Tracked(ms, Tail(q), q[1])
  <2>1. \A m \in DOMAIN ms : m # Nobody
    BY <1>1, Numbers
  <2> QED
    BY <1>1, <1>4, <1>5, <2>1 DEF Tracked
<1>7. Ordered(ms, Tail(q))
  BY <1>1, <1>2, RemovalOrdered
<1>8. Len(Tail(q)) + Held(q[1]) <= MaxQueue + 1
  <2>1. Len(Tail(q)) = Len(q) - 1 /\ Held(q[1]) = 1
    BY <1>2, <1>3 DEF RemovedAt, Held
  <2>2. Len(q) + 0 <= MaxQueue + 1
    BY DEF Fit, Held
  <2>3. Len(q) \in Nat
    BY <1>1
  <2> QED
    BY <2>1, <2>2, <2>3
<1> QED
  BY <1>1, <1>2, <1>3, <1>6, <1>7, <1>8 DEF Fit

\* The message in hand is settled.
LEMMA HandSettled ==
    ASSUME NEW ms, NEW q, NEW h, Fit(ms, q, h), h # Nobody,
           NEW ns \in Seq(Message), DOMAIN ns = DOMAIN ms,
           \A m \in DOMAIN ms \ {h} : ns[m] = ms[m],
           ns[h].fate # "queued"
    PROVE  Fit(ns, q, Nobody)
<1>1. ms \in Seq(Message) /\ q \in Seq(DOMAIN ms) /\ Tracked(ms, q, h) /\ Ordered(ms, q)
  BY DEF Fit
<1>2. \A m \in ToSet(q) : m \in DOMAIN ms /\ m # h
  BY <1>1, ElementOf DEF Tracked, ToSet
<1>3. Ordered(ns, q)
  BY <1>1, <1>2, OrderedElsewhere
<1>4. Nobody \notin ToSet(q) /\ \A m \in DOMAIN ms : m # Nobody
  BY <1>1, <1>2, Numbers
<1>5. Tracked(ns, q, Nobody)
  BY <1>1, <1>2, <1>4 DEF Tracked
<1>6. Len(q) + Held(Nobody) <= MaxQueue + 1
  <2>1. Held(h) = 1 /\ Held(Nobody) = 0 /\ Len(q) \in Nat
    BY <1>1 DEF Held
  <2>2. Len(q) + Held(h) <= MaxQueue + 1
    BY DEF Fit
  <2>3. MaxQueue \in Nat
    BY QueueAssumption
  <2> QED
    BY <2>1, <2>2, <2>3
<1> QED
  BY <1>1, <1>3, <1>5, <1>6 DEF Fit

\* The message in hand fails and stays there.
LEMMA HandFailed ==
    ASSUME NEW ms, NEW q, NEW h, Fit(ms, q, h), h # Nobody,
           NEW ns \in Seq(Message), DOMAIN ns = DOMAIN ms,
           \A m \in DOMAIN ms \ {h} : ns[m] = ms[m],
           ns[h].fate = ms[h].fate
    PROVE  Fit(ns, q, h)
<1>1. ms \in Seq(Message) /\ q \in Seq(DOMAIN ms) /\ Tracked(ms, q, h) /\ Ordered(ms, q)
  BY DEF Fit
<1>2. \A m \in ToSet(q) : m \in DOMAIN ms /\ m # h
  BY <1>1, ElementOf DEF Tracked, ToSet
<1>3. Ordered(ns, q)
  BY <1>1, <1>2, OrderedElsewhere
<1>4. \A m \in DOMAIN ms : ns[m].fate = ms[m].fate
  OBVIOUS
<1>5. Tracked(ns, q, h)
  BY <1>1, <1>4 DEF Tracked
<1>6. h \in {Nobody} \cup DOMAIN ns /\ Len(q) + Held(h) <= MaxQueue + 1
  BY DEF Fit
<1> QED
  BY <1>1, <1>3, <1>5, <1>6 DEF Fit

\* A waiting message is shed.
LEMMA Shed ==
    ASSUME NEW ms, NEW q, NEW h, Fit(ms, q, h), NEW k \in 1 .. Len(q),
           NEW ns \in Seq(Message), DOMAIN ns = DOMAIN ms,
           \A m \in DOMAIN ms \ {q[k]} : ns[m] = ms[m],
           ns[q[k]].fate # "queued"
    PROVE  Fit(ns, RemoveAt(q, k), h)
<1> DEFINE r == RemoveAt(q, k)
<1>1. ms \in Seq(Message) /\ q \in Seq(DOMAIN ms) /\ Tracked(ms, q, h) /\ Ordered(ms, q)
  BY DEF Fit
<1>2. r \in Seq(DOMAIN ms) /\ RemovedAt(q, r, k)
  BY <1>1, RemoveAtRemoves
<1> HIDE DEF r
<1>3. ToSet(r) = ToSet(q) \ {q[k]} /\ Distinct(r)
  BY <1>1, <1>2, RemovalElements DEF Tracked
<1>4. q[k] \in ToSet(q) /\ q[k] \in DOMAIN ms /\ \A m \in ToSet(q) : m \in DOMAIN ms
  BY <1>1, ElementOf DEF ToSet
<1>5. Ordered(ns, r)
  <2>1. Ordered(ms, r)
    BY <1>1, <1>2, RemovalOrdered
  <2> QED
    BY <1>2, <1>3, <1>4, <2>1, OrderedElsewhere
<1>6. Tracked(ns, r, h)
  BY <1>1, <1>3, <1>4 DEF Tracked
<1>7. Len(r) + Held(h) <= MaxQueue + 1
  <2>1. Len(r) = Len(q) - 1 /\ Len(q) \in Nat /\ Held(h) \in Nat
    BY <1>1, <1>2 DEF RemovedAt, Held
  <2>2. Len(q) + Held(h) <= MaxQueue + 1 /\ MaxQueue \in Nat
    BY QueueAssumption DEF Fit
  <2> QED
    BY <2>1, <2>2
<1>8. h \in {Nobody} \cup DOMAIN ns
  BY DEF Fit
<1>9. Fit(ns, r, h)
  BY <1>2, <1>5, <1>6, <1>7, <1>8 DEF Fit
<1> QED
  BY <1>9 DEF r

\* k is where _insert_by_priority puts e.
BehindItsEquals(ms, q, k, e) ==
    /\ \A j \in 1 .. k - 1 : ms[q[j]].priority >= ms[e].priority
    /\ k <= Len(q) => ms[q[k]].priority < ms[e].priority

\* A failed message goes back.
LEMMA HandReturned ==
    ASSUME NEW ms, NEW q, NEW h, Fit(ms, q, h), h # Nobody, ms[h].attempts > 0,
           NEW k \in 1 .. Len(q) + 1, NEW r \in Seq(DOMAIN ms),
           InsertedAt(q, r, k, h), BehindItsEquals(ms, q, k, h)
    PROVE  Fit(ms, r, Nobody)
<1>1. /\ ms \in Seq(Message) /\ q \in Seq(DOMAIN ms) /\ Tracked(ms, q, h) /\ Ordered(ms, q)
      /\ h \in DOMAIN ms
  BY DEF Fit
<1>2. ToSet(r) = ToSet(q) \cup {h} /\ Distinct(r)
  BY <1>1, InsertionElements DEF Tracked
<1>3. \A m \in DOMAIN ms : m # Nobody
  BY <1>1, Numbers
<1>4. \A m \in ToSet(q) : m \in DOMAIN ms
  BY <1>1, ElementOf DEF ToSet
<1>5. Tracked(ms, r, Nobody)
  BY <1>1, <1>2, <1>3, <1>4 DEF Tracked
<1>6. Ordered(ms, r)
  BY <1>1, InsertionOrdered DEF BehindItsEquals
<1>7. Len(r) + Held(Nobody) <= MaxQueue + 1
  <2>1. Len(r) = Len(q) + 1 /\ Held(h) = 1 /\ Held(Nobody) = 0 /\ Len(q) \in Nat
    BY <1>1 DEF InsertedAt, Held
  <2>2. Len(q) + Held(h) <= MaxQueue + 1
    BY DEF Fit
  <2> QED
    BY <2>1, <2>2
<1> QED
  BY <1>1, <1>5, <1>6, <1>7 DEF Fit

\* A new message comes in where there is room for it.
LEMMA Arrived ==
    ASSUME NEW ms, NEW q, NEW h, Fit(ms, q, h), Len(q) + Held(h) <= MaxQueue,
           NEW n \in Message, n.fate = "queued", NEW ns, ns = Append(ms, n),
           NEW k \in 1 .. Len(q) + 1, NEW r \in Seq(DOMAIN ns),
           InsertedAt(q, r, k, Len(ms) + 1), BehindItsEquals(ns, q, k, Len(ms) + 1)
    PROVE  Fit(ns, r, h)
<1> DEFINE e == Len(ms) + 1
<1>1. /\ ms \in Seq(Message) /\ q \in Seq(DOMAIN ms) /\ Tracked(ms, q, h) /\ Ordered(ms, q)
      /\ h \in {Nobody} \cup DOMAIN ms
  BY DEF Fit
<1>2. /\ ns \in Seq(Message) /\ Len(ns) = e
      /\ \A m \in DOMAIN ms : ns[m] = ms[m]
      /\ ns[e] = n
  BY <1>1
<1>3. DOMAIN ms = 1 .. Len(ms) /\ DOMAIN ns = 1 .. e /\ Len(ms) \in Nat
  BY <1>1, <1>2
<1>4. /\ DOMAIN ns = DOMAIN ms \cup {e} /\ e \notin DOMAIN ms
      /\ e # Nobody /\ \A m \in DOMAIN ms : m < e
  BY <1>3 DEF Nobody
<1> HIDE DEF e
<1>5. \A m \in ToSet(q) : m \in DOMAIN ms
  BY <1>1, ElementOf DEF ToSet
<1>6. InsertedAt(q, r, k, e) /\ BehindItsEquals(ns, q, k, e)
  BY DEF e
<1>7. ToSet(r) = ToSet(q) \cup {e} /\ Distinct(r)
  BY <1>1, <1>4, <1>5, <1>6, InsertionElements DEF Tracked
<1>8. Tracked(ns, r, h)
  BY <1>1, <1>2, <1>4, <1>5, <1>7 DEF Tracked
<1>9. Ordered(ns, r)
  <2>1. Ordered(ns, q)
    BY <1>1, <1>2, <1>5, OrderedElsewhere
  <2>2. q \in Seq(DOMAIN ns)
    BY <1>1, <1>4
  <2>3. \A j \in DOMAIN q : q[j] < e
    BY <1>4, <1>5 DEF ToSet
  <2>4. e \in DOMAIN ns
    BY <1>4
  <2> QED
    BY <1>2, <1>6, <2>1, <2>2, <2>3, <2>4, InsertionOrdered DEF BehindItsEquals
<1>10. Len(r) + Held(h) <= MaxQueue + 1
  <2>1. Len(r) = Len(q) + 1 /\ Len(q) \in Nat /\ Held(h) \in Nat
    BY <1>1, <1>6 DEF InsertedAt, Held
  <2>2. MaxQueue \in Nat
    BY QueueAssumption
  <2> QED
    BY <2>1, <2>2
<1>11. h \in {Nobody} \cup DOMAIN ns
  BY <1>1, <1>4
<1> QED
  BY <1>2, <1>8, <1>9, <1>10, <1>11 DEF Fit
-----------------------------------------------------------------------------
(* The operators of the queue.                                             *)

\* _insert_by_priority puts a message behind those at least as important and
\* before the first one that is less so.
LEMMA Placed ==
    ASSUME messages \in Seq(Message), NEW q \in Seq(DOMAIN messages),
           NEW S, DOMAIN messages \subseteq S, NEW m \in S, NEW p \in Nat
    PROVE  \E k \in 1 .. Len(q) + 1 :
              /\ InsertByPriority(q, m, p) \in Seq(S)
              /\ InsertedAt(q, InsertByPriority(q, m, p), k, m)
              /\ \A j \in 1 .. k - 1 : messages[q[j]].priority >= p
              /\ k <= Len(q) => messages[q[k]].priority < p
<1> DEFINE O == Outranked(q, p)
<1>1. q \in Seq(S) /\ Len(q) \in Nat /\ DOMAIN q = 1 .. Len(q)
  OBVIOUS
<1>2. \A j \in 1 .. Len(q) : messages[q[j]].priority \in Nat
  BY ElementOf, Numbers
<1>3. \A j \in 1 .. Len(q) : j \in O <=> messages[q[j]].priority < p
  BY DEF Outranked
<1>4. O \subseteq 1 .. Len(q)
  BY DEF Outranked
<1>5. CASE O = {}
  <2>1. InsertByPriority(q, m, p) = Append(q, m)
    BY <1>5 DEF InsertByPriority
  <2>2. Append(q, m) \in Seq(S) /\ InsertedAt(q, Append(q, m), Len(q) + 1, m)
    BY <1>1, AppendInserts
  <2>3. \A j \in 1 .. Len(q) : messages[q[j]].priority >= p
    BY <1>2, <1>3, <1>5
  <2> QED
    BY <1>1, <2>1, <2>2, <2>3
<1>6. CASE O # {}
  <2> DEFINE k == Min(O)
  <2>1. k \in O /\ \A j \in O : k <= j
    BY <1>4, <1>6, MinIsLeast
  <2>2. InsertByPriority(q, m, p) = InsertAt(q, k, m)
    BY <1>6 DEF InsertByPriority
  <2> HIDE DEF k, O
  <2>3. k \in 1 .. Len(q)
    BY <1>4, <2>1
  <2>4. InsertAt(q, k, m) \in Seq(S) /\ InsertedAt(q, InsertAt(q, k, m), k, m)
    BY <1>1, <2>3, InsertAtInserts
  <2>5. messages[q[k]].priority < p
    BY <1>3, <2>1, <2>3
  <2>6. ASSUME NEW j \in 1 .. k - 1 PROVE messages[q[j]].priority >= p
    <3>1. j \in 1 .. Len(q) /\ j \notin O
      BY <2>1, <2>3
    <3> QED
      BY <1>2, <1>3, <3>1
  <2>7. k \in 1 .. Len(q) + 1
    BY <2>3
  <2> QED
    BY <2>2, <2>4, <2>5, <2>6, <2>7
<1> QED
  BY <1>5, <1>6

\* _lowest_priority_index finds a message no other waiting one is less than.
LEMMA LowestIsLowest ==
    ASSUME messages \in Seq(Message), NEW q \in Seq(DOMAIN messages), q # <<>>
    PROVE  /\ LowestPriorityIndex(q) \in 1 .. Len(q)
           /\ \A j \in DOMAIN q :
                 messages[q[LowestPriorityIndex(q)]].priority <= messages[q[j]].priority
<1> DEFINE P(j) == messages[q[j]].priority
           L == {i \in DOMAIN q : \A j \in DOMAIN q : P(i) <= P(j)}
           V == {P(j) : j \in DOMAIN q}
<1>1. Len(q) \in Nat /\ DOMAIN q = 1 .. Len(q) /\ 1 \in DOMAIN q
  OBVIOUS
<1>2. V \subseteq Nat /\ V # {}
  <2>1. ASSUME NEW j \in DOMAIN q PROVE P(j) \in Nat
    <3>1. q[j] \in DOMAIN messages
      BY ElementOf
    <3> QED
      BY <3>1, Numbers
  <2> QED
    BY <1>1, <2>1
<1> HIDE DEF V
<1>3. PICK v \in V : \A w \in V : v <= w
  BY <1>2, Least
<1> USE DEF V
<1> HIDE DEF P
<1>4. L # {} /\ L \subseteq 1 .. Len(q)
  BY <1>1, <1>3
<1>5. LowestPriorityIndex(q) = Max(L)
  BY DEF LowestPriorityIndex, P
<1> HIDE DEF L
<1>6. Max(L) \in L
  BY <1>1, <1>4, MaxIsGreatest
<1> QED
  BY <1>1, <1>5, <1>6 DEF L, P

-----------------------------------------------------------------------------
(* Every step keeps the invariant.                                         *)

\* The initial states satisfy the inductive invariant.
LEMMA InitIInv == Init => IInv
<1> SUFFICES ASSUME Init PROVE IInv
  OBVIOUS
<1>1. Fit(<<>>, <<>>, Nobody)
  BY QueueAssumption DEF Fit, Tracked, Distinct, Ordered, ToSet, Held, Nobody
<1>2. Working
  BY DEF Init, Working, Awaits
<1> QED
  BY <1>1, <1>2 DEF Init, IInv

\* The top of the worker's loop, with the queue in order and the hand empty.
LEMMA ProceedIInv ==
    ASSUME NEW q, Fit(messages', q, Nobody), Proceed(q), draining' = draining, Working
    PROVE  IInv'
<1>1. CASE q = <<>>
  BY <1>1 DEF Proceed, IInv, Working, Awaits
<1>2. CASE q # <<>> /\ worker' = "throttled"
  BY <1>2 DEF Proceed, IInv, Working, Awaits
<1>3. CASE q # <<>> /\ worker' = "sending"
  <2>1. hand' = Head(q) /\ pending' = Tail(q)
    BY <1>3 DEF Proceed
  <2>2. Fit(messages', pending', hand') /\ hand' # Nobody
    BY <1>3, <2>1, Taken
  <2> QED
    BY <1>3, <2>2 DEF IInv, Working, Awaits
<1> QED
  BY <1>1, <1>2, <1>3 DEF Proceed

\* Settling a message changes its fate and nothing else.
LEMMA SettledType ==
    ASSUME messages \in Seq(Message), NEW m \in DOMAIN messages, NEW f \in Fates
    PROVE  /\ Settled(m, f) \in Seq(Message)
           /\ DOMAIN Settled(m, f) = DOMAIN messages
           /\ Len(Settled(m, f)) = Len(messages)
           /\ \A i \in DOMAIN messages \ {m} : Settled(m, f)[i] = messages[i]
           /\ Settled(m, f)[m].fate = f
           /\ \A i \in DOMAIN messages :
                 /\ Settled(m, f)[i].priority = messages[i].priority
                 /\ Settled(m, f)[i].attempts = messages[i].attempts
<1>1. messages[m] \in Message
  BY ElementOf
<1> DEFINE n == [messages[m] EXCEPT !.fate = f]
<1>2. /\ n \in Message /\ n.fate = f
      /\ n.priority = messages[m].priority /\ n.attempts = messages[m].attempts
  BY <1>1 DEF Message
<1>3. Settled(m, f) = [messages EXCEPT ![m] = n]
  BY DEF Settled
<1> HIDE DEF n
<1>4. /\ Settled(m, f) \in Seq(Message)
      /\ DOMAIN Settled(m, f) = DOMAIN messages
      /\ Len(Settled(m, f)) = Len(messages)
  BY <1>2, <1>3
<1>5. Settled(m, f)[m] = n /\ \A i \in DOMAIN messages \ {m} : Settled(m, f)[i] = messages[i]
  BY <1>3
<1> QED
  BY <1>2, <1>4, <1>5

\* A new message goes behind those of its priority.
LEMMA EnqueueInto ==
    ASSUME NEW ms, NEW q, NEW h, Fit(ms, q, h), Len(q) + Held(h) <= MaxQueue,
           messages \in Seq(Message), Len(ms) = Len(messages),
           \A m \in DOMAIN messages : ms[m].priority = messages[m].priority,
           NEW p \in Priorities, NEW ns,
           ns = Append(ms, [priority |-> p, attempts |-> 0, fate |-> "queued"])
    PROVE  Fit(ns, InsertByPriority(q, Len(messages) + 1, p), h)
<1> DEFINE n == [priority |-> p, attempts |-> 0, fate |-> "queued"]
           e == Len(messages) + 1
           r == InsertByPriority(q, e, p)
<1>1. n \in Message /\ n.fate = "queued" /\ n.priority = p /\ p \in Nat
  BY QueueAssumption DEF Message, Fates
<1> HIDE DEF n
<1>2. ms \in Seq(Message) /\ q \in Seq(DOMAIN ms)
  BY DEF Fit
<1>3. DOMAIN ms = DOMAIN messages /\ DOMAIN ms = 1 .. Len(messages) /\ Len(messages) \in Nat
  BY <1>2
<1>4. /\ ns = Append(ms, n) /\ DOMAIN ns = DOMAIN messages \cup {e}
      /\ ns[e] = n /\ \A m \in DOMAIN ms : ns[m] = ms[m]
  BY <1>2, <1>3 DEF n
<1>5. \A j \in 1 .. Len(q) : q[j] \in DOMAIN ms
  BY <1>2, ElementOf
<1>6. q \in Seq(DOMAIN messages) /\ e \in DOMAIN ns /\ DOMAIN messages \subseteq DOMAIN ns
  BY <1>2, <1>3, <1>4
<1> HIDE DEF e
<1>7. PICK k \in 1 .. Len(q) + 1 :
         /\ r \in Seq(DOMAIN ns) /\ InsertedAt(q, r, k, e)
         /\ \A j \in 1 .. k - 1 : messages[q[j]].priority >= p
         /\ k <= Len(q) => messages[q[k]].priority < p
  BY <1>1, <1>6, Placed
<1> HIDE DEF r
<1>8. \A j \in 1 .. Len(q) : ns[q[j]].priority = messages[q[j]].priority
  BY <1>3, <1>4, <1>5
<1>9. Len(q) \in Nat
  BY <1>2
<1>10. BehindItsEquals(ns, q, k, e)
  <2>1. ns[e].priority = p
    BY <1>1, <1>4
  <2>2. ASSUME NEW j \in 1 .. k - 1 PROVE ns[q[j]].priority >= p
    <3>1. j \in 1 .. Len(q)
      BY <1>9
    <3> QED
      BY <1>7, <1>8, <3>1
  <2>3. ASSUME k <= Len(q) PROVE ns[q[k]].priority < p
    <3>1. k \in 1 .. Len(q)
      BY <1>9, <2>3
    <3> QED
      BY <1>7, <1>8, <2>3, <3>1
  <2> QED
    BY <2>1, <2>2, <2>3 DEF BehindItsEquals
<1>11. e = Len(ms) + 1
  BY DEF e
<1>12. Fit(ns, r, h)
  BY <1>1, <1>4, <1>7, <1>10, <1>11, Arrived
<1> QED
  BY <1>12 DEF r, e

\* Another coroutine leaves the worker where it is.
LEMMA HeldStays ==
    ASSUME IInv, UNCHANGED <<hand, worker>>, draining' \in BOOLEAN,
           \A m \in DOMAIN messages : messages'[m].attempts = messages[m].attempts
    PROVE  Working'
<1>1. hand # Nobody => hand \in DOMAIN messages
  BY DEF IInv, Fit
<1>2. Working
  BY DEF IInv
<1>3. worker' = "backoff" => messages'[hand'].attempts > 0
  BY <1>1, <1>2 DEF Working
<1> QED
  BY <1>2, <1>3 DEF Working

\* Enqueueing, with a shed when the queue is full.
LEMMA EnqueueIInv ==
    ASSUME IInv, NEW p \in Priorities, Enqueue(p)
    PROVE  IInv'
<1> DEFINE out == LowestPriorityIndex(pending)
           n == [priority |-> p, attempts |-> 0, fate |-> "queued"]
<1>1. /\ Fit(messages, pending, hand) /\ messages \in Seq(Message)
      /\ pending \in Seq(DOMAIN messages) /\ Len(pending) \in Nat
      /\ Len(pending) + Held(hand) <= MaxQueue + 1 /\ Held(hand) \in {0, 1}
  BY DEF IInv, Fit, Held
<1>2. MaxQueue \in Nat /\ MaxQueue > 0
  BY QueueAssumption
<1>3. UNCHANGED <<hand, worker>> /\ draining' \in BOOLEAN
  BY DEF Enqueue, IInv, Working
<1>4. CASE Len(pending) >= MaxQueue
  <2>1. /\ messages' = Append(Settled(pending[out], "shed"), n)
        /\ pending' = InsertByPriority(RemoveAt(pending, out), Len(messages) + 1, p)
    BY <1>4 DEF Enqueue
  <2>2. out \in 1 .. Len(pending)
    BY <1>1, <1>2, <1>4, LowestIsLowest
  <2> HIDE DEF out
  <2>3. pending[out] \in DOMAIN messages
    BY <1>1, <2>2, ElementOf
  <2>4. Fit(Settled(pending[out], "shed"), RemoveAt(pending, out), hand)
    <3> DEFINE ns == Settled(pending[out], "shed")
    <3>1. /\ ns \in Seq(Message) /\ DOMAIN ns = DOMAIN messages
          /\ \A i \in DOMAIN messages \ {pending[out]} : ns[i] = messages[i]
          /\ ns[pending[out]].fate = "shed"
      BY <1>1, <2>3, SettledType DEF Fates
    <3> HIDE DEF ns
    <3>2. ns[pending[out]].fate # "queued"
      BY <3>1
    <3>3. Fit(ns, RemoveAt(pending, out), hand)
      BY <1>1, <2>2, <3>1, <3>2, Shed
    <3> QED
      BY <3>3 DEF ns
  <2>5. Len(RemoveAt(pending, out)) = Len(pending) - 1
    BY <1>1, <2>2, RemoveAtRemoves DEF RemovedAt
  <2>6. Len(RemoveAt(pending, out)) + Held(hand) <= MaxQueue
    BY <1>1, <1>2, <2>5
  <2>7. /\ Len(Settled(pending[out], "shed")) = Len(messages)
        /\ \A m \in DOMAIN messages :
              /\ Settled(pending[out], "shed")[m].priority = messages[m].priority
              /\ Settled(pending[out], "shed")[m].attempts = messages[m].attempts
    BY <1>1, <2>3, SettledType DEF Fates
  <2>8. Fit(messages', pending', hand)
    BY <1>1, <2>1, <2>4, <2>6, <2>7, EnqueueInto
  <2>9. \A m \in DOMAIN messages : messages'[m].attempts = messages[m].attempts
    BY <1>1, <2>1, <2>3, <2>7, SettledType DEF Fates
  <2> QED
    BY <1>3, <2>8, <2>9, HeldStays DEF IInv
<1>5. CASE ~(Len(pending) >= MaxQueue)
  <2>1. messages' = Append(messages, n) /\ pending' = InsertByPriority(pending, Len(messages) + 1, p)
    BY <1>5 DEF Enqueue
  <2>2. Len(pending) + Held(hand) <= MaxQueue
    BY <1>1, <1>2, <1>5
  <2>3. Fit(messages', pending', hand)
    BY <1>1, <2>1, <2>2, EnqueueInto
  <2>4. \A m \in DOMAIN messages : messages'[m].attempts = messages[m].attempts
    BY <1>1, <2>1
  <2> QED
    BY <1>3, <2>3, <2>4, HeldStays DEF IInv
<1> QED
  BY <1>4, <1>5

\* The worker pops the head.
LEMMA WakeIInv == ASSUME IInv, Wake PROVE IInv'
<1>1. hand = Nobody /\ Fit(messages', pending, Nobody) /\ Proceed(pending) /\ draining' = draining
  BY DEF Wake, IInv, Working
<1> QED
  BY <1>1, ProceedIInv DEF IInv

\* What is known of the message in hand.
LEMMA HeldMessage ==
    ASSUME IInv, hand # Nobody
    PROVE  /\ messages \in Seq(Message) /\ hand \in DOMAIN messages
           /\ messages[hand] \in Message
           /\ pending \in Seq(DOMAIN messages) /\ Fit(messages, pending, hand)
BY ElementOf DEF IInv, Fit

\* The queue without the message in hand, which is sent or cut, given up, or put
\* back.
LEMMA SettledHandFits ==
    ASSUME IInv, hand # Nobody, NEW f \in Fates \ {"queued"}, messages' = Settled(hand, f)
    PROVE  Fit(messages', pending, Nobody)
<1>1. /\ messages' \in Seq(Message) /\ DOMAIN messages' = DOMAIN messages
      /\ \A i \in DOMAIN messages \ {hand} : messages'[i] = messages[i]
      /\ messages'[hand].fate # "queued"
  BY HeldMessage, SettledType
<1> QED
  BY <1>1, HeldMessage, HandSettled

LEMMA GivenUpFits == ASSUME IInv, GiveUp PROVE Fit(messages', pending, Nobody)
<1> DEFINE n == [messages[hand] EXCEPT !.attempts = @ + 1, !.fate = "failed"]
<1>1. /\ hand # Nobody /\ messages' = [messages EXCEPT ![hand] = n]
      /\ messages[hand].attempts + 1 = MaxAttempts
  BY DEF GiveUp, IInv, Working
<1>2. messages[hand].attempts \in Nat /\ MaxAttempts \in Nat
  BY <1>1, HeldMessage, Numbers, QueueAssumption
<1>3. n \in Message /\ n.fate = "failed"
  <2>1. messages[hand].attempts + 1 \in 0 .. MaxAttempts
    BY <1>1, <1>2
  <2> QED
    BY <1>1, <2>1, HeldMessage DEF Message, Fates
<1> HIDE DEF n
<1>4. /\ messages' \in Seq(Message) /\ DOMAIN messages' = DOMAIN messages
      /\ \A i \in DOMAIN messages \ {hand} : messages'[i] = messages[i]
      /\ messages'[hand].fate # "queued"
  BY <1>1, <1>3, HeldMessage
<1> QED
  BY <1>1, <1>4, HeldMessage, HandSettled

LEMMA RetriedFits ==
    ASSUME IInv, Retry
    PROVE  Fit(messages', InsertByPriority(pending, hand, messages[hand].priority), Nobody)
<1> DEFINE p == messages[hand].priority
           r == InsertByPriority(pending, hand, p)
<1>1. /\ hand # Nobody /\ messages[hand].attempts > 0
      /\ UNCHANGED messages
  BY DEF Retry, IInv, Working
<1>2. p \in Nat
  BY <1>1, HeldMessage, Numbers
<1>3. PICK k \in 1 .. Len(pending) + 1 :
         /\ r \in Seq(DOMAIN messages) /\ InsertedAt(pending, r, k, hand)
         /\ \A j \in 1 .. k - 1 : messages[pending[j]].priority >= p
         /\ k <= Len(pending) => messages[pending[k]].priority < p
  <2> HIDE DEF p
  <2> QED
    BY <1>1, <1>2, HeldMessage, Placed
<1>4. BehindItsEquals(messages, pending, k, hand)
  BY <1>3 DEF BehindItsEquals
<1> HIDE DEF r
<1>5. Fit(messages', r, Nobody)
  BY <1>1, <1>3, <1>4, HeldMessage, HandReturned
<1> QED
  BY <1>5 DEF r, p

\* The four ends of an attempt: sent, waiting for a retry, given up, put back.
LEMMA SendOkIInv == ASSUME IInv, SendOk PROVE IInv'
<1>1. hand # Nobody /\ messages' = Settled(hand, "sent") /\ Proceed(pending) /\ draining' = draining
  BY DEF SendOk, IInv, Working
<1>2. Fit(messages', pending, Nobody)
  BY <1>1, SettledHandFits DEF Fates
<1> QED
  BY <1>1, <1>2, ProceedIInv DEF IInv

\* The branches after a failed attempt: wait, give up, put back.
LEMMA BackOffIInv == ASSUME IInv, BackOff PROVE IInv'
<1> DEFINE n == [messages[hand] EXCEPT !.attempts = @ + 1]
<1>1. /\ hand # Nobody /\ messages' = [messages EXCEPT ![hand] = n]
      /\ messages[hand].attempts + 1 < MaxAttempts
      /\ worker' = "backoff" /\ UNCHANGED <<pending, hand, draining>>
  BY DEF BackOff, IInv, Working
<1>2. messages[hand].attempts \in Nat /\ MaxAttempts \in Nat
  BY <1>1, HeldMessage, Numbers, QueueAssumption
<1>3. n \in Message /\ n.fate = messages[hand].fate /\ n.attempts = messages[hand].attempts + 1
  <2>1. messages[hand].attempts + 1 \in 0 .. MaxAttempts
    BY <1>1, <1>2
  <2> QED
    BY <1>1, <2>1, HeldMessage DEF Message
<1> HIDE DEF n
<1>4. /\ messages' \in Seq(Message) /\ DOMAIN messages' = DOMAIN messages
      /\ \A i \in DOMAIN messages \ {hand} : messages'[i] = messages[i]
      /\ messages'[hand] = n
  BY <1>1, <1>3, HeldMessage
<1>5. Fit(messages', pending, hand)
  BY <1>1, <1>3, <1>4, HeldMessage, HandFailed
<1>6. messages'[hand].attempts > 0
  BY <1>2, <1>3, <1>4
<1> QED
  BY <1>1, <1>5, <1>6 DEF IInv, Working, Awaits

LEMMA GiveUpIInv == ASSUME IInv, GiveUp PROVE IInv'
BY GivenUpFits, ProceedIInv DEF GiveUp, IInv

LEMMA RetryIInv == ASSUME IInv, Retry PROVE IInv'
BY RetriedFits, ProceedIInv DEF Retry, IInv

\* Cancelling the worker cuts the message in hand.
LEMMA CancelWorkerIInv == ASSUME IInv, CancelWorker PROVE IInv'
<1>1. CASE hand = Nobody
  BY <1>1 DEF CancelWorker, IInv, Working, Awaits
<1>2. CASE hand # Nobody
  <2>1. messages' = Settled(hand, "cut")
    BY <1>2 DEF CancelWorker
  <2>2. Fit(messages', pending, Nobody)
    BY <1>2, <2>1, SettledHandFits DEF Fates
  <2> QED
    BY <2>2 DEF CancelWorker, IInv, Working, Awaits
<1> QED
  BY <1>1, <1>2

\* Starting and stopping leave the messages alone.
LEMMA OtherIInv ==
    ASSUME IInv, Start \/ StopAndDrain \/ UNCHANGED vars
    PROVE  IInv'
<1>1. CASE Start
  BY <1>1 DEF Start, IInv, Working, Awaits
<1>2. CASE StopAndDrain
  BY <1>2 DEF StopAndDrain, IInv, Working, Awaits
<1>3. CASE UNCHANGED vars
  BY <1>3 DEF vars, IInv, Working, Awaits
<1> QED
  BY <1>1, <1>2, <1>3

\* Every step keeps the invariant.
LEMMA NextIInv == IInv /\ [Next]_vars => IInv'
<1> SUFFICES ASSUME IInv, [Next]_vars PROVE IInv'
  OBVIOUS
<1>1. ASSUME NEW p \in Priorities, Enqueue(p) PROVE IInv'
  BY <1>1, EnqueueIInv
<1>2. CASE WorkerStep
  BY <1>2, WakeIInv, SendOkIInv, BackOffIInv, GiveUpIInv, RetryIInv DEF WorkerStep
<1>3. CASE StopNow \/ Drained \/ DrainTimesOut
  BY <1>3, CancelWorkerIInv DEF StopNow, Drained, DrainTimesOut
<1>4. CASE Start \/ StopAndDrain \/ UNCHANGED vars
  BY <1>4, OtherIInv
<1> QED
  BY <1>1, <1>2, <1>3, <1>4 DEF Next

\* It holds in every reachable state.
LEMMA QueueInvariant == Spec => []IInv
<1> QED
  BY InitIInv, NextIInv, PTL DEF Spec

-----------------------------------------------------------------------------
(* The theorems.                                                           *)

\* The queue, the worker and the message records hold the values they should.
THEOREM QueueTypes == Spec => []TypeOK
<1>1. IInv => TypeOK
  BY DEF IInv, Fit, Working, Awaits, TypeOK
<1> QED
  BY <1>1, QueueInvariant, PTL

\* However many retries, sheds, stops and restarts, a message waits once, is
\* held, or is settled.
THEOREM OnePlace == Spec => []EveryMessageInOnePlace
<1>1. IInv => EveryMessageInOnePlace
  BY DEF IInv, Fit, Tracked, Distinct, Working, EveryMessageInOnePlace
<1> QED
  BY <1>1, QueueInvariant, PTL

\* No outage makes the queue grow past its limit and the message in hand.
THEOREM MemoryIsBounded == Spec => []Bounded
<1>1. IInv => Bounded
  BY DEF IInv, Fit, Held, Bounded
<1> QED
  BY <1>1, QueueInvariant, PTL

\* The queue is in the order of priority, and of arrival among those of one
\* priority that never failed.
THEOREM InOrder == Spec => []ServedInOrder
<1>1. IInv => ServedInOrder
  BY DEF IInv, Fit, Ordered, ServedInOrder
<1> QED
  BY <1>1, QueueInvariant, PTL

\* What is shed ranks below all that waited with it.
THEOREM LowestIsShed == Spec => ShedsTheLowest
<1> DEFINE Lowest ==
    \A m \in DOMAIN messages :
       (messages[m].fate = "queued" /\ messages'[m].fate = "shed") =>
          \A i \in DOMAIN pending : messages[m].priority <= messages[pending[i]].priority
<1>1. ASSUME IInv, [Next]_vars PROVE Lowest
  <2> SUFFICES ASSUME NEW m \in DOMAIN messages,
                      messages[m].fate = "queued", messages'[m].fate = "shed"
               PROVE  \A i \in DOMAIN pending : messages[m].priority <= messages[pending[i]].priority
    OBVIOUS
  <2>1. /\ messages \in Seq(Message) /\ pending \in Seq(DOMAIN messages)
        /\ Len(pending) \in Nat /\ MaxQueue \in Nat /\ MaxQueue > 0
    BY <1>1, QueueAssumption DEF IInv, Fit
  <2>2. ASSUME NEW p \in Priorities, Enqueue(p)
        PROVE  \A i \in DOMAIN pending : messages[m].priority <= messages[pending[i]].priority
    <3> DEFINE out == LowestPriorityIndex(pending)
               n == [priority |-> p, attempts |-> 0, fate |-> "queued"]
    <3>1. CASE Len(pending) >= MaxQueue
      <4>1. messages' = Append(Settled(pending[out], "shed"), n)
        BY <2>2, <3>1 DEF Enqueue
      <4>2. /\ out \in 1 .. Len(pending)
            /\ \A i \in DOMAIN pending : messages[pending[out]].priority <= messages[pending[i]].priority
        BY <2>1, <3>1, LowestIsLowest
      <4> HIDE DEF out
      <4>3. pending[out] \in DOMAIN messages
        BY <2>1, <4>2, ElementOf
      <4>4. messages'[m] = Settled(pending[out], "shed")[m]
        BY <2>1, <4>1, <4>3, SettledType DEF Fates
      <4>5. m = pending[out]
        BY <2>1, <4>3, <4>4, SettledType DEF Fates
      <4> QED
        BY <4>2, <4>5
    <3>2. CASE ~(Len(pending) >= MaxQueue)
      <4>1. messages' = Append(messages, n)
        BY <2>2, <3>2 DEF Enqueue
      <4>2. messages'[m] = messages[m]
        BY <2>1, <4>1
      <4> QED
        BY <4>2
    <3> QED
      BY <3>1, <3>2
  <2>3. CASE WorkerStep \/ StopNow \/ Drained \/ DrainTimesOut
    <3>1. ASSUME NEW f \in {"sent", "cut"}, hand # Nobody, messages' = Settled(hand, f)
          PROVE  FALSE
      <4>1. /\ messages'[hand].fate = f
            /\ \A i \in DOMAIN messages \ {hand} : messages'[i] = messages[i]
        BY <1>1, <3>1, HeldMessage, SettledType DEF Fates
      <4> QED
        BY <4>1
    <3>2. ASSUME NEW a, NEW f \in {"queued", "failed"}, hand \in DOMAIN messages,
                 messages' = [messages EXCEPT ![hand].attempts = a, ![hand].fate = f]
          PROVE  FALSE
      <4>1. messages[hand] \in Message
        BY <2>1, <3>2, ElementOf
      <4>2. messages'[m].fate \in {f, messages[m].fate}
        BY <2>1, <3>2, <4>1 DEF Message
      <4> QED
        BY <4>2
    <3>3. CASE SendOk
      BY <1>1, <3>1, <3>3 DEF SendOk, IInv, Working
    <3>4. CASE BackOff
      <4>1. hand \in DOMAIN messages /\ messages[hand] \in Message
        BY <1>1, <3>4, HeldMessage DEF BackOff, IInv, Working
      <4>2. messages'[m].fate = messages[m].fate
        BY <2>1, <3>4, <4>1 DEF BackOff, Message
      <4> QED
        BY <4>2
    <3>5. CASE GiveUp
      <4>1. hand \in DOMAIN messages
        BY <1>1, <3>5, HeldMessage DEF GiveUp, IInv, Working
      <4>2. messages' = [messages EXCEPT ![hand].attempts = @ + 1, ![hand].fate = "failed"]
        BY <3>5 DEF GiveUp
      <4>3. messages' = [messages EXCEPT ![hand].attempts = messages[hand].attempts + 1,
                                         ![hand].fate = "failed"]
        BY <4>2
      <4> QED
        BY <3>2, <4>1, <4>3
    <3>6. CASE CancelWorker
      BY <3>1, <3>6 DEF CancelWorker
    <3>7. CASE Wake \/ Retry
      BY <3>7 DEF Wake, Retry
    <3> QED
      BY <2>3, <3>3, <3>4, <3>5, <3>6, <3>7 DEF WorkerStep, StopNow, Drained, DrainTimesOut
  <2>4. CASE Start \/ StopAndDrain \/ UNCHANGED vars
    BY <2>4 DEF Start, StopAndDrain, vars
  <2> QED
    BY <1>1, <2>2, <2>3, <2>4 DEF Next
<1>2. IInv /\ [Next]_vars => [Lowest]_vars
  BY <1>1
<1> QED
  BY <1>2, QueueInvariant, PTL DEF Spec, ShedsTheLowest
-----------------------------------------------------------------------------
(* The refinement of QueuePromise: a list in order is a set with a first   *)
(* and a last element.                                                     *)

\* QueuePromise counts as this module does.
LEMMA SameCount == ASSUME NEW S PROVE Promise!Cardinality(S) = Cardinality(S)
BY DEF Promise!Cardinality, Promise!IsFiniteSet, Cardinality, IsFiniteSet

\* A list without duplicates has as many elements as places.
LEMMA AsManyAsPlaces ==
    ASSUME NEW S, NEW q \in Seq(S), Distinct(q)
    PROVE  Cardinality(ToSet(q)) = Len(q)
<1>1. q \in [1 .. Len(q) -> ToSet(q)] /\ Len(q) \in Nat
  BY DEF ToSet
<1>2. q \in Bijection(1 .. Len(q), ToSet(q))
  BY <1>1 DEF Distinct, ToSet, Bijection, Injection, Surjection, IsInjective, Range
<1> QED
  BY <1>1, <1>2, FS_CountingElements DEF ExistsBijection

\* What is unsettled and not in hand waits in the list.
LEMMA OpenIsListed ==
    ASSUME NEW ms, NEW q, NEW h, Fit(ms, q, h)
    PROVE  /\ Promise!Open(ms) \ {h} = ToSet(q)
           /\ h = Nobody => Promise!Open(ms) = ToSet(q)
           /\ Cardinality(ToSet(q)) = Len(q)
<1>1. /\ ms \in Seq(Message) /\ q \in Seq(DOMAIN ms) /\ Tracked(ms, q, h)
      /\ Nobody \notin DOMAIN ms
  BY Numbers DEF Fit
<1>2. ToSet(q) \subseteq DOMAIN ms
  BY <1>1, ElementOf DEF ToSet
<1>3. Promise!Open(ms) \ {h} = ToSet(q)
  BY <1>1, <1>2 DEF Promise!Open, Tracked
<1>4. h = Nobody => h \notin Promise!Open(ms)
  BY <1>1 DEF Promise!Open
<1>5. Cardinality(ToSet(q)) = Len(q)
  BY <1>1, AsManyAsPlaces DEF Tracked
<1> QED
  BY <1>3, <1>4, <1>5

\* What is nearer to the head precedes what is farther from it.
LEMMA OrderPrecedes ==
    ASSUME NEW ms, NEW q, NEW h, Fit(ms, q, h),
           NEW i \in 1 .. Len(q), NEW j \in 1 .. Len(q), i < j
    PROVE  Promise!Precedes(ms, q[i], q[j])
<1>1. DOMAIN q = 1 .. Len(q) /\ Ordered(ms, q)
  BY DEF Fit
<1> QED
  BY <1>1 DEF Ordered, Promise!Precedes

\* The head is first among all that is listed.
LEMMA HeadIsFirst ==
    ASSUME NEW ms, NEW q, NEW h, Fit(ms, q, h), q # <<>>
    PROVE  Head(q) \in Promise!First(ms, ToSet(q))
<1>1. q \in Seq(DOMAIN ms)
  BY DEF Fit
<1>2. Head(q) = q[1] /\ 1 \in 1 .. Len(q) /\ DOMAIN q = 1 .. Len(q)
  BY <1>1
<1>3. ASSUME NEW j \in 1 .. Len(q), q[j] # q[1] PROVE Promise!Precedes(ms, q[1], q[j])
  <2>1. 1 < j
    BY <1>3
  <2> QED
    BY <1>2, <2>1, OrderPrecedes
<1> QED
  BY <1>2, <1>3 DEF ToSet, Promise!First

\* What lets the worker go on is somebody's turn.
LEMMA ProceedIsTurn ==
    ASSUME NEW q, Fit(messages', q, Nobody), Proceed(q)
    PROVE  Promise!Turn
<1>1. Promise!Open(messages') = ToSet(q)
  BY OpenIsListed
<1>2. CASE hand' = Nobody
  BY <1>2 DEF Promise!Turn, Promise!Nobody, Nobody
<1>3. CASE q # <<>> /\ hand' = Head(q)
  BY <1>1, <1>3, HeadIsFirst DEF Promise!Turn
<1> QED
  BY <1>2, <1>3 DEF Proceed

\* _lowest_priority_index finds one of the least important that wait.
LEMMA LowestIsLeast ==
    ASSUME IInv, pending # <<>>
    PROVE  pending[LowestPriorityIndex(pending)] \in Promise!Least(messages, Promise!Waiting)
<1> DEFINE k == LowestPriorityIndex(pending)
<1>1. /\ messages \in Seq(Message) /\ pending \in Seq(DOMAIN messages)
      /\ Fit(messages, pending, hand)
  BY DEF IInv, Fit
<1>2. k \in 1 .. Len(pending) /\ DOMAIN pending = 1 .. Len(pending)
  BY <1>1, LowestIsLowest
<1>3. \A j \in DOMAIN pending :
         messages[pending[k]].priority <= messages[pending[j]].priority
  BY <1>1, LowestIsLowest
<1>4. Promise!Waiting = ToSet(pending)
  BY <1>1, OpenIsListed DEF Promise!Waiting
<1> HIDE DEF k
<1>5. pending[k] \in Promise!Least(messages, ToSet(pending))
  BY <1>2, <1>3 DEF ToSet, Promise!Least
<1> QED
  BY <1>4, <1>5 DEF k

\* Enqueueing is an arrival, or displaces one of the least important.
LEMMA EnqueuePromised ==
    ASSUME IInv, NEW p \in Priorities, Enqueue(p)
    PROVE  Promise!Arrive(p) \/ Promise!Displace(p)
<1> DEFINE out == LowestPriorityIndex(pending)
<1>1. /\ messages \in Seq(Message) /\ pending \in Seq(DOMAIN messages) /\ Len(pending) \in Nat
      /\ MaxQueue \in Nat \ {0} /\ Fit(messages, pending, hand)
  BY QueueAssumption DEF IInv, Fit
<1>2. Promise!Cardinality(Promise!Waiting) = Len(pending)
  BY <1>1, OpenIsListed, SameCount DEF Promise!Waiting
<1>3. UNCHANGED hand
  BY DEF Enqueue
<1>4. CASE Len(pending) >= MaxQueue
  <2>1. messages' = Append([messages EXCEPT ![pending[out]].fate = "shed"], Promise!Letter(p))
    BY <1>4 DEF Enqueue, Settled, Promise!Letter
  <2>2. pending # <<>>
    BY <1>1, <1>4
  <2>3. pending[out] \in Promise!Least(messages, Promise!Waiting)
    BY <2>2, LowestIsLeast
  <2> HIDE DEF out
  <2> QED
    BY <1>2, <1>3, <1>4, <2>1, <2>3 DEF Promise!Displace
<1>5. CASE ~(Len(pending) >= MaxQueue)
  <2>1. messages' = Append(messages, Promise!Letter(p))
    BY <1>5 DEF Enqueue, Promise!Letter
  <2>2. Promise!Cardinality(Promise!Waiting) < MaxQueue
    BY <1>1, <1>2, <1>5
  <2> QED
    BY <1>3, <2>1, <2>2 DEF Promise!Arrive
<1> QED
  BY <1>4, <1>5

\* Every step of the worker is one of the promise, or changes nothing it speaks of.
LEMMA WorkerPromised ==
    ASSUME IInv, IInv', WorkerStep
    PROVE  [Promise!Next]_<<messages, hand>>
<1>1. Promise!Nobody = Nobody
  BY DEF Promise!Nobody, Nobody
<1>2. ASSUME NEW q, Fit(messages', q, Nobody), Proceed(q) PROVE Promise!Turn
  BY <1>2, ProceedIsTurn
<1>3. CASE Wake
  <2>1. hand = Nobody /\ messages' = messages /\ Proceed(pending) /\ Fit(messages, pending, hand)
    BY <1>3 DEF Wake, IInv, Working
  <2>2. Promise!Turn
    BY <1>2, <2>1
  <2>3. Promise!Proceed
    BY <1>1, <2>1, <2>2 DEF Promise!Proceed
  <2> QED
    BY <2>3 DEF Promise!Next
<1>4. CASE SendOk
  <2>1. hand # Nobody /\ messages' = Settled(hand, "sent") /\ Proceed(pending)
    BY <1>4 DEF SendOk, IInv, Working
  <2>2. Fit(messages', pending, Nobody)
    BY <2>1, SettledHandFits DEF Fates
  <2>3. Promise!Turn
    BY <1>2, <2>1, <2>2
  <2>4. Promise!Deliver
    BY <1>1, <2>1, <2>3 DEF Promise!Deliver, Settled
  <2> QED
    BY <2>4 DEF Promise!Next
<1>5. CASE BackOff
  <2>1. Promise!Fail
    BY <1>1, <1>5 DEF BackOff, IInv, Working, Promise!Fail
  <2> QED
    BY <2>1 DEF Promise!Next
<1>6. CASE GiveUp
  <2>1. /\ hand # Nobody /\ Proceed(pending) /\ messages[hand].attempts + 1 = MaxAttempts
        /\ messages' = [messages EXCEPT ![hand].attempts = @ + 1, ![hand].fate = "failed"]
    BY <1>6 DEF GiveUp, IInv, Working
  <2>2. Fit(messages', pending, Nobody)
    BY <1>6, GivenUpFits
  <2>3. Promise!Turn
    BY <1>2, <2>1, <2>2
  <2>4. Promise!GiveUp
    BY <1>1, <2>1, <2>3 DEF Promise!GiveUp
  <2> QED
    BY <2>4 DEF Promise!Next
<1>7. CASE Retry
  <2> DEFINE r == InsertByPriority(pending, hand, messages[hand].priority)
  <2>1. messages' = messages /\ messages[hand].attempts > 0 /\ Proceed(r)
    BY <1>7 DEF Retry, IInv, Working
  <2>2. Fit(messages', r, Nobody)
    BY <1>7, RetriedFits
  <2>3. Promise!Turn
    BY <1>2, <2>1, <2>2
  <2>4. Promise!Proceed
    BY <2>1, <2>3 DEF Promise!Proceed
  <2> QED
    BY <2>4 DEF Promise!Next
<1> QED
  BY <1>3, <1>4, <1>5, <1>6, <1>7 DEF WorkerStep

\* The list, the worker and the limiter are not seen by callers: every behaviour
\* of the queue is one of the promise.
THEOREM QueueKeepsThePromise == Spec => KeepsThePromise
<1>1. Init => Promise!Init
  BY DEF Init, Promise!Init, Promise!Nobody, Nobody
<1>2. ASSUME IInv, [Next]_vars PROVE [Promise!Next]_<<messages, hand>>
  <2>1. IInv'
    BY <1>2, NextIInv
  <2>2. ASSUME NEW p \in Priorities, Enqueue(p) PROVE Promise!Next
    BY <1>2, <2>2, EnqueuePromised DEF Promise!Next
  <2>3. CASE WorkerStep
    BY <1>2, <2>1, <2>3, WorkerPromised
  <2>4. CASE CancelWorker
    <3>1. CASE hand = Nobody
      BY <2>4, <3>1 DEF CancelWorker
    <3>2. CASE hand # Nobody
      <4>1. Promise!Stop
        BY <2>4, <3>2 DEF CancelWorker, Settled, Promise!Stop, Promise!Nobody, Nobody
      <4> QED
        BY <4>1 DEF Promise!Next
    <3> QED
      BY <3>1, <3>2
  <2>5. CASE Start \/ StopAndDrain \/ UNCHANGED vars
    BY <2>5 DEF Start, StopAndDrain, vars
  <2> QED
    BY <1>2, <2>2, <2>3, <2>4, <2>5 DEF Next, StopNow, Drained, DrainTimesOut
<1> QED
  BY <1>1, <1>2, QueueInvariant, PTL DEF Spec, KeepsThePromise, Promise!Spec, Promise!vars
=============================================================================
